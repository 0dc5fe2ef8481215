------------------------- MODULE RoomLayers_proofs --------------------------
(***************************************************************************)
(* The layers of a room, for any agents, watchers, runs, turns and         *)
(* envelopes and any interleaving of their steps: what was not for someone *)
(* stays private, what is said is said once and in order, and who is told  *)
(* to stop stops. Each layer has an inductive invariant of its own; a step *)
(* of the room is a step of one layer and a stutter of the others.         *)
(***************************************************************************)
EXTENDS Layers, Integers, SequenceFilter, TLAPS

-----------------------------------------------------------------------------
(***************************************************************************)
(* Agents: an invocation that runs does so under the current registration  *)
(* or was told to stop, so what is handed over was asked of the source     *)
(* that is registered, and is for those who may see it.                    *)
(***************************************************************************)

\* A step that only moves invocations on, and grants nothing, keeps the invariant.
MovesOn(c) ==
    /\ \A d \in Invocations \ {c} : invocations'[d] = invocations[d]
    /\ invocations' \in [Invocations -> Registry!Invocation]
    /\ invocations'[c].version = invocations[c].version
    /\ invocations'[c].visible = invocations[c].visible
    /\ invocations'[c].parent = invocations[c].parent
    /\ invocations'[c].seat = invocations[c].seat
    /\ invocations[c].aborted => invocations'[c].aborted
    /\ invocations'[c].at # "idle" /\ invocations'[c].events <= MaxEvents
    /\ Registry!Running(c)' => Registry!Running(c)
    /\ UNCHANGED <<registered, versions>>

LEMMA MovesKeep ==
    ASSUME Registry!RegistryInv, NEW c \in Invocations, MovesOn(c),
           \A x \in given' \ given :
              /\ x.call = c /\ x.under = x.version /\ ~x.told
              /\ x.content.say \cup x.content.draft \subseteq invocations[c].parent \cap invocations[c].visible
              /\ x.content.seat # Nothing => x.content.seat = invocations[c].seat
    PROVE  Registry!RegistryInv'
  <1> USE DEF Registry!RegistryInv
  <1>1. Registry!Registered'
    BY DEF Registry!Registered, MovesOn
  <1>2. Registry!TypeOK'
    BY DEF Registry!TypeOK, MovesOn
  <1>3. Registry!CallsBegun'
    BY DEF Registry!CallsBegun, MovesOn
  <1>4. Registry!ReplacedFallSilent'
    BY DEF Registry!ReplacedFallSilent, MovesOn, Registry!Running, Registry!Current
  <1>5. Registry!NobodyOverhears'
    <2> SUFFICES ASSUME NEW x \in given'
                 PROVE  /\ x.content.say \cup x.content.draft \subseteq
                             invocations'[x.call].parent \cap invocations'[x.call].visible
                        /\ x.content.seat # Nothing => x.content.seat = invocations'[x.call].seat
      BY DEF Registry!NobodyOverhears
    <2>1. x.call \in Invocations
      BY DEF Registry!CallsBegun
    <2>2. /\ invocations'[x.call].parent = invocations[x.call].parent
          /\ invocations'[x.call].visible = invocations[x.call].visible
          /\ invocations'[x.call].seat = invocations[x.call].seat
      BY <2>1 DEF MovesOn
    <2>q. QED  BY <2>2 DEF Registry!NobodyOverhears
  <1>q. QED  BY <1>1, <1>2, <1>3, <1>4, <1>5

LEMMA EndsMoves ==
    ASSUME Registry!RegistryInv, NEW c \in Invocations, Registry!Running(c),
           UNCHANGED <<registered, versions>>,
           NEW how \in {"completing", "answered", "failed", "dropped"}, Registry!Ends(c, how)
    PROVE  MovesOn(c)
  BY DEF MovesOn, Registry!Ends, Registry!Running, Registry!RegistryInv, Registry!Registered,
     Registry!Invocation, Registry!TypeOK

LEMMA DeliverGives ==
    ASSUME Registry!RegistryInv, NEW c \in Invocations, Registry!Heeded(c),
           NEW d \in Registry!Decisions, Registry!Deliver(c, d),
           d.seat # Nothing => invocations[c].seat = d.seat
    PROVE  \A x \in given' \ given :
              /\ x.call = c /\ x.under = x.version /\ ~x.told
              /\ x.content.say \cup x.content.draft \subseteq invocations[c].parent \cap invocations[c].visible
              /\ x.content.seat # Nothing => x.content.seat = invocations[c].seat
  <1> DEFINE g == [call |-> c, version |-> invocations[c].version,
            under |-> IF registered = Nothing THEN 0 ELSE registered.version,
            told |-> invocations[c].aborted, content |-> Registry!Normalized(c, d)]
  <1>1. given' = given \cup {g}
    BY DEF Registry!Deliver
  <1>2. g.call = c /\ g.under = g.version /\ ~g.told
    BY DEF Registry!Heeded, Registry!Current
  <1>3. g.content = Registry!Normalized(c, d)
    OBVIOUS
  <1>4. /\ g.content.say \cup g.content.draft \subseteq invocations[c].parent \cap invocations[c].visible
        /\ g.content.seat # Nothing => g.content.seat = invocations[c].seat
    BY <1>3 DEF Registry!Normalized, Registry!Permitted
  <1> HIDE DEF g
  <1>q. QED  BY <1>1, <1>2, <1>4

LEMMA ToldKeeps ==
    ASSUME Registry!RegistryInv
    PROVE  /\ Registry!Told \in [Invocations -> Registry!Invocation]
           /\ \A c \in Invocations :
                 /\ Registry!Told[c].at = invocations[c].at
                 /\ Registry!Told[c].version = invocations[c].version
                 /\ Registry!Told[c].visible = invocations[c].visible
                 /\ Registry!Told[c].parent = invocations[c].parent
                 /\ Registry!Told[c].seat = invocations[c].seat
                 /\ Registry!Told[c].events = invocations[c].events
                 /\ invocations[c].aborted => Registry!Told[c].aborted
                 /\ Registry!Running(c) => Registry!Told[c].aborted \/ ~Registry!Current(c)
  <1>1. invocations \in [Invocations -> Registry!Invocation]
    BY DEF Registry!RegistryInv, Registry!Registered
  <1>2. CASE registered = Nothing
    BY <1>1, <1>2 DEF Registry!Told, Registry!Current
  <1>3. CASE registered # Nothing
    <2> DEFINE told(c) == IF Registry!Running(c) /\ invocations[c].version = registered.version
                          THEN [invocations[c] EXCEPT !.aborted = TRUE] ELSE invocations[c]
    <2>1. Registry!Told = [c \in Invocations |-> told(c)]
      BY <1>3 DEF Registry!Told
    <2>2. ASSUME NEW c \in Invocations
          PROVE  /\ told(c) \in Registry!Invocation
                 /\ told(c).at = invocations[c].at /\ told(c).version = invocations[c].version
                 /\ told(c).visible = invocations[c].visible
                 /\ told(c).parent = invocations[c].parent
                 /\ told(c).seat = invocations[c].seat /\ told(c).events = invocations[c].events
                 /\ invocations[c].aborted => told(c).aborted
                 /\ Registry!Running(c) => told(c).aborted \/ ~Registry!Current(c)
      <3> PICK x \in Registry!Invocation : x = invocations[c]
        BY <1>1
      <3>1. [x EXCEPT !.aborted = TRUE] \in Registry!Invocation
        BY DEF Registry!Invocation
      <3>2. CASE Registry!Running(c) /\ x.version = registered.version
        <4>1. told(c) = [x EXCEPT !.aborted = TRUE]
          BY <3>2
        <4> HIDE DEF told
        <4>q. QED  BY <3>1, <4>1 DEF Registry!Invocation
      <3>3. CASE ~(Registry!Running(c) /\ x.version = registered.version)
        <4>1. told(c) = x
          BY <3>3
        <4> HIDE DEF told
        <4>q. QED  BY <3>3, <4>1 DEF Registry!Current
      <3>q. QED  BY <3>2, <3>3
    <2> HIDE DEF told
    <2>q. QED  BY <2>1, <2>2
  <1>q. QED  BY <1>2, <1>3

LEMMA AgentRegisterKeeps ==
    ASSUME RegistryAssumption, Registry!RegistryInv, NEW visible \in Visibilities,
           NEW seat \in BoundSeats \cup {Nothing},
           NEW replace \in BOOLEAN, Registry!Register(visible, seat, replace)
    PROVE  Registry!RegistryInv'
  <1>1. invocations' = Registry!Told /\ versions' = versions + 1 /\ given' = given
        /\ registered' = [version |-> versions + 1, visible |-> visible, seat |-> seat]
        /\ versions < MaxVersions
    BY DEF Registry!Register
  <1>2. Registry!Registered'
    BY <1>1, ToldKeeps DEF Registry!RegistryInv, Registry!Registered, Registry!Registration,
       RegistryAssumption
  <1>3. Registry!TypeOK'
    BY <1>1, ToldKeeps DEF Registry!RegistryInv, Registry!TypeOK, Registry!Registered,
       Registry!Invocation, RegistryAssumption
  <1>4. Registry!CallsBegun'
    BY <1>1, ToldKeeps DEF Registry!RegistryInv, Registry!CallsBegun
  <1>5. Registry!ReplacedFallSilent'
    <2>1. ASSUME NEW c \in Invocations, Registry!Running(c)' PROVE invocations'[c].aborted
      <3>1. Registry!Running(c)
        BY <2>1, <1>1, ToldKeeps DEF Registry!Running
      <3>q. QED  BY <3>1, <1>1, ToldKeeps DEF Registry!RegistryInv, Registry!ReplacedFallSilent
    <2>q. QED  BY <2>1, <1>1 DEF Registry!RegistryInv, Registry!ReplacedFallSilent
  <1>6. Registry!NobodyOverhears'
    BY <1>1, ToldKeeps DEF Registry!RegistryInv, Registry!NobodyOverhears, Registry!CallsBegun
  <1>q. QED  BY <1>2, <1>3, <1>4, <1>5, <1>6 DEF Registry!RegistryInv

LEMMA UnregisterKeeps == ASSUME Registry!RegistryInv,
                                Registry!Unregister PROVE Registry!RegistryInv'
  <1>1. invocations' = Registry!Told /\ versions' = versions
        /\ given' = given /\ registered' = Nothing
    BY DEF Registry!Unregister
  <1>2. Registry!Registered'
    BY <1>1, ToldKeeps DEF Registry!RegistryInv, Registry!Registered
  <1>3. Registry!TypeOK'
    BY <1>1, ToldKeeps DEF Registry!RegistryInv, Registry!TypeOK
  <1>4. Registry!CallsBegun'
    BY <1>1, ToldKeeps DEF Registry!RegistryInv, Registry!CallsBegun
  <1>5. Registry!ReplacedFallSilent'
    <2>1. ASSUME NEW c \in Invocations, Registry!Running(c)' PROVE invocations'[c].aborted
      <3>1. Registry!Running(c)
        BY <2>1, <1>1, ToldKeeps DEF Registry!Running
      <3>q. QED  BY <3>1, <1>1, ToldKeeps DEF Registry!RegistryInv, Registry!ReplacedFallSilent
    <2>q. QED  BY <2>1, <1>1 DEF Registry!RegistryInv, Registry!ReplacedFallSilent
  <1>6. Registry!NobodyOverhears'
    BY <1>1, ToldKeeps DEF Registry!RegistryInv, Registry!NobodyOverhears, Registry!CallsBegun
  <1>q. QED  BY <1>2, <1>3, <1>4, <1>5, <1>6 DEF Registry!RegistryInv

LEMMA AgentInvokeKeeps ==
    ASSUME RegistryAssumption, Registry!RegistryInv, NEW c \in Invocations,
           NEW mode \in Registry!Modes,
           NEW parent \in Parents, Registry!Invoke(c, mode, parent)
    PROVE  Registry!RegistryInv'
  <1> DEFINE begun == [at |-> "running", mode |-> mode, version |-> registered.version,
                       visible |-> registered.visible, seat |-> registered.seat,
                       parent |-> parent, aborted |-> FALSE, events |-> 0]
  <1>1. /\ invocations' = [invocations EXCEPT ![c] = begun] /\ registered # Nothing
        /\ invocations[c].at = "idle"
        /\ UNCHANGED <<registered, versions, given>>
    BY DEF Registry!Invoke
  <1>2. registered \in Registry!Registration /\ registered.version = versions
    BY <1>1 DEF Registry!RegistryInv, Registry!Registered, Registry!TypeOK
  <1>3. begun \in Registry!Invocation
    BY <1>2 DEF Registry!Registration, Registry!Invocation, RegistryAssumption
  <1>4. begun.at = "running" /\ begun.version = versions /\ begun.events = 0
    BY <1>2
  <1> HIDE DEF begun
  <1>5. invocations \in [Invocations -> Registry!Invocation]
    BY DEF Registry!RegistryInv, Registry!Registered
  <1>6. Registry!Registered'
    BY <1>1, <1>3, <1>5 DEF Registry!RegistryInv, Registry!Registered
  <1>7. invocations'[c] = begun /\ \A d \in Invocations \ {c} : invocations'[d] = invocations[d]
    BY <1>1, <1>5
  <1>8. Registry!TypeOK'
    BY <1>1, <1>4, <1>7 DEF Registry!RegistryInv, Registry!TypeOK, Registry!Registered,
       RegistryAssumption
  <1>9. Registry!CallsBegun'
    BY <1>1, <1>4, <1>7 DEF Registry!RegistryInv, Registry!CallsBegun
  <1>10. Registry!ReplacedFallSilent'
    BY <1>1, <1>2, <1>4, <1>7 DEF Registry!RegistryInv, Registry!ReplacedFallSilent,
       Registry!Running, Registry!Current
  <1>11. Registry!NobodyOverhears'
    BY <1>1, <1>7 DEF Registry!RegistryInv, Registry!NobodyOverhears, Registry!CallsBegun
  <1>q. QED  BY <1>6, <1>8, <1>9, <1>10, <1>11 DEF Registry!RegistryInv

LEMMA BorneDecides ==
    ASSUME NEW kind \in Registry!EventKinds, NEW d \in Registry!Decisions
    PROVE  Registry!Borne(kind, d) \in Registry!Decisions
  <1> PICK say \in Audiences \cup {Nothing}, draft \in {Nothing, People}, seat \in BoundSeats \cup {Nothing} :
          d = Registry!Decision(say, draft, seat)
    BY DEF Registry!Decisions
  <1>1. d.say = say
    BY DEF Registry!Decision
  <1>2. Registry!Decision(d.say, Nothing, Nothing) \in Registry!Decisions
        /\ Registry!Decision(Nothing, Nothing, Nothing) \in Registry!Decisions
    BY <1>1 DEF Registry!Decisions
  <1>q. QED  BY <1>2 DEF Registry!Borne

\* The event of a heeded invocation, or its failure.
LEMMA HeedKeeps ==
    ASSUME Registry!RegistryInv, NEW c \in Invocations, Registry!Running(c),
           UNCHANGED <<registered, versions>>,
           NEW d \in Registry!Decisions, Registry!Heeded(c), Registry!Acceptable(c, d), Registry!Deliver(c, d),
           NEW how \in {"completing", "answered"}, Registry!Ends(c, how)
    PROVE  Registry!RegistryInv'
  <1>1. MovesOn(c)
    BY EndsMoves
  <1>2. d.seat # Nothing => invocations[c].seat = d.seat
    BY DEF Registry!Acceptable
  <1>q. QED  BY <1>1, <1>2, DeliverGives, MovesKeep

LEMMA DropKeeps ==
    ASSUME Registry!RegistryInv, NEW c \in Invocations, Registry!Running(c),
           UNCHANGED <<registered, versions, given>>,
           NEW how \in {"answered", "failed", "dropped"}, Registry!Ends(c, how)
    PROVE  Registry!RegistryInv'
  <1>1. MovesOn(c)
    BY EndsMoves
  <1>q. QED  BY <1>1, MovesKeep

LEMMA EventKeeps ==
    ASSUME RegistryAssumption, Registry!RegistryInv, NEW c \in Invocations,
           NEW kind \in Registry!EventKinds,
           NEW d \in Registry!Decisions, Registry!Event(c, kind, d)
    PROVE  Registry!RegistryInv'
  <1>1. Registry!Running(c) /\ UNCHANGED <<registered, versions>>
    BY DEF Registry!Event, Registry!Running
  <1>2. CASE UNCHANGED given /\ (Registry!Ends(c, "dropped") \/ Registry!Ends(c, "failed"))
    BY <1>1, <1>2, DropKeeps
  <1>3. CASE /\ Registry!Heeded(c) /\ (kind # "progress" => Registry!Acceptable(c, Registry!Borne(kind, d)))
             /\ invocations' = [invocations EXCEPT ![c].events = @ + 1]
             /\ Registry!Deliver(c, Registry!Borne(kind, d))
    <2>1. MovesOn(c)
      BY <1>1, <1>3 DEF Registry!Event, MovesOn, Registry!Running, Registry!RegistryInv,
         Registry!Registered, Registry!Invocation, Registry!TypeOK, RegistryAssumption
    <2>2. Registry!Borne(kind, d).seat # Nothing => invocations[c].seat = Registry!Borne(kind, d).seat
      BY <1>3 DEF Registry!Acceptable, Registry!Borne, Registry!Decision, Registry!EventKinds
    <2>q. QED  BY <1>3, <2>1, <2>2, BorneDecides, DeliverGives, MovesKeep
  <1>q. QED  BY <1>2, <1>3 DEF Registry!Event

LEMMA AgentAbortKeeps ==
    ASSUME Registry!RegistryInv, NEW c \in Invocations, Registry!CallerAborts(c)
    PROVE  Registry!RegistryInv'
  <1>1. MovesOn(c)
    BY DEF Registry!CallerAborts, MovesOn, Registry!Running, Registry!RegistryInv,
       Registry!Registered, Registry!Invocation, Registry!TypeOK
  <1>2. given' = given
    BY DEF Registry!CallerAborts
  <1>q. QED  BY <1>1, <1>2, MovesKeep

LEMMA RegistryBegins == RegistryAssumption /\ Registry!Init => Registry!RegistryInv
  BY DEF Registry!Init, Registry!NoCall, Registry!RegistryInv, Registry!Registered,
     Registry!TypeOK, Registry!CallsBegun, Registry!ReplacedFallSilent, Registry!NobodyOverhears,
         Registry!Invocation, Registry!Running, RegistryAssumption

LEMMA RegistryKept ==
    RegistryAssumption /\ Registry!RegistryInv /\ [Registry!Next]_(Registry!vars)
        => Registry!RegistryInv'
  <1> SUFFICES ASSUME RegistryAssumption, Registry!RegistryInv,
                      [Registry!Next]_(Registry!vars) PROVE Registry!RegistryInv'
    OBVIOUS
  <1>1. ASSUME NEW c \in Invocations, NEW d \in Registry!Decisions, Registry!Decide(c,
               d) PROVE Registry!RegistryInv'
    <2>1. Registry!Running(c) /\ UNCHANGED <<registered, versions>>
      BY <1>1 DEF Registry!Decide, Registry!Running
    <2>q. QED  BY <1>1, <2>1, DropKeeps, HeedKeeps DEF Registry!Decide
  <1>2. ASSUME NEW c \in Invocations, NEW d \in Registry!Decisions, Registry!AdaptedDecision(c,
               d) PROVE Registry!RegistryInv'
    <2>1. Registry!Running(c) /\ UNCHANGED <<registered, versions>>
      BY <1>2 DEF Registry!AdaptedDecision, Registry!Running
    <2>q. QED  BY <1>2, <2>1, DropKeeps, HeedKeeps DEF Registry!AdaptedDecision
  <1>3. ASSUME NEW c \in Invocations, Registry!DriverThrows(c) \/ Registry!DecidesNothing(c) \/ Registry!StreamEnds(c)
        PROVE  Registry!RegistryInv'
    <2>1. Registry!Running(c) /\ UNCHANGED <<registered, versions, given>>
      BY <1>3 DEF Registry!DriverThrows, Registry!DecidesNothing, Registry!StreamEnds,
         Registry!Running
    <2>2. Registry!Ends(c, "failed") \/ Registry!Ends(c, "dropped") \/ Registry!Ends(c, "answered")
      BY <1>3 DEF Registry!DriverThrows, Registry!DecidesNothing, Registry!StreamEnds
    <2>q. QED  BY <2>1, <2>2, DropKeeps
  <1>4. CASE UNCHANGED Registry!vars
    BY <1>4 DEF Registry!vars, Registry!RegistryInv, Registry!Registered, Registry!TypeOK,
       Registry!CallsBegun, Registry!ReplacedFallSilent, Registry!NobodyOverhears,
                Registry!Running, Registry!Current
  <1>q. QED
    BY <1>1, <1>2, <1>3, <1>4, AgentRegisterKeeps, UnregisterKeeps, AgentInvokeKeeps, EventKeeps,
       AgentAbortKeeps
    DEF Registry!Next

-----------------------------------------------------------------------------
(***************************************************************************)
(* Watchers: every batch of a revision has passed some watchers and has    *)
(* the others before it; what passed was emitted, and is remembered as     *)
(* spent.                                                                  *)
(***************************************************************************)

LEMMA WatchBegins == Watch!Init => Watch!WatchInv
  <1> SUFFICES ASSUME Watch!Init PROVE Watch!WatchInv
    OBVIOUS
  <1>1. Watch!Batch(Watch!NoBatch) /\ Watch!NoBatch.open = FALSE
        /\ Watch!NoBatch.passed = {} /\ Watch!NoBatch.ran = {}
    BY DEF Watch!Batch, Watch!NoBatch
  <1>2. \A r \in Revisions : batches[r] = Watch!NoBatch
    BY DEF Watch!Init
  <1>3. Watch!WatchTyped
    <2>1. batches = [r \in Revisions |-> batches[r]]
      BY DEF Watch!Init
    <2>2. \A r \in Revisions : Watch!Batch(batches[r]) /\ batches[r].open \in BOOLEAN
      BY <1>1, <1>2
    <2>3. returned \in [Watchers \X Revisions -> Nat] /\ joined \in [Revisions -> Nat]
      BY DEF Watch!Init
    <2>4. watchers \in Seq(Watchers)
      BY DEF Watch!Init
    <2>q. QED  BY <2>1, <2>2, <2>3, <2>4 DEF Watch!WatchTyped
  <1>4. Watch!Elements(<<>>) = {}
    BY DEF Watch!Elements
  <1>q. QED
    BY <1>1, <1>2, <1>3, <1>4 DEF Watch!Init, Watch!WatchInv, Watch!TypeOK, Watch!RunsNew,
       Watch!EmittedOnce

LEMMA WatcherRegisterKeeps ==
    ASSUME Watch!WatchInv, NEW w \in Watchers,
           Watch!Register(w) \/ Watch!Unregister(w) PROVE Watch!WatchInv'
  <1>1. UNCHANGED <<reported, batches, returned, joined>>
    BY DEF Watch!Register, Watch!Unregister
  <1>2. watchers \in Seq(Watchers) /\ Watch!Elements(watchers) \subseteq spentIds
    BY DEF Watch!WatchInv, Watch!WatchTyped, Watch!TypeOK
  <1>3. watchers' \in Seq(Watchers) /\ Watch!Elements(watchers') \subseteq spentIds'
    <2>1. CASE Watch!Register(w)
      BY <1>2, <2>1, Watch!ElementsAppend DEF Watch!Register
    <2>2. CASE Watch!Unregister(w)
      BY <1>2, <2>2, Watch!FilteredElements DEF Watch!Unregister
    <2>q. QED  BY <2>1, <2>2
  <1>4. Watch!WatchTyped' /\ Watch!TypeOK'
    BY <1>1, <1>3 DEF Watch!WatchInv, Watch!WatchTyped, Watch!TypeOK, Watch!Batch
  <1>5. Watch!RunsNew' /\ Watch!EmittedOnce'
    BY <1>1 DEF Watch!WatchInv, Watch!RunsNew, Watch!EmittedOnce
  <1>q. QED  BY <1>4, <1>5 DEF Watch!WatchInv

\* A step that only changes the batch of a revision and who waits for it.
LEMMA BatchKeeps ==
    ASSUME Watch!WatchInv, NEW r \in Revisions, NEW b, Watch!Batch(b), b.open \in BOOLEAN,
           b.ran \subseteq b.passed,
           ~b.open => b.ran = {}, \A w \in b.ran : <<w, r>> \notin reported,
           NEW n \in Nat, ~b.open => n = 0,
           batches' = [batches EXCEPT ![r] = b], joined' = [joined EXCEPT ![r] = n],
           UNCHANGED <<watchers, spentIds, reported, returned>>
    PROVE  Watch!WatchInv'
  <1>1. /\ batches = [q \in Revisions |-> batches[q]] /\ joined \in [Revisions -> Nat]
        /\ watchers \in Seq(Watchers) /\ returned \in [Watchers \X Revisions -> Nat]
    BY DEF Watch!WatchInv, Watch!WatchTyped
  <1>2. /\ batches' = [q \in Revisions |-> batches'[q]] /\ batches'[r] = b
        /\ \A q \in Revisions : q # r => batches'[q] = batches[q]
        /\ joined' \in [Revisions -> Nat] /\ joined'[r] = n
        /\ \A q \in Revisions : q # r => joined'[q] = joined[q]
    BY <1>1
  <1>3. Watch!WatchTyped'
    <2>1. \A q \in Revisions : Watch!Batch(batches[q]) /\ batches[q].open \in BOOLEAN
      BY DEF Watch!WatchInv, Watch!WatchTyped
    <2>2. ASSUME NEW q \in Revisions PROVE Watch!Batch(batches'[q]) /\ batches'[q].open \in BOOLEAN
      BY <1>2, <2>1
    <2>q. QED  BY <1>1, <1>2, <2>2 DEF Watch!WatchTyped, Watch!Batch
  <1>4. Watch!TypeOK'
    BY <1>2 DEF Watch!WatchInv, Watch!TypeOK
  <1>5. Watch!RunsNew' /\ Watch!EmittedOnce'
    BY <1>2 DEF Watch!WatchInv, Watch!RunsNew, Watch!EmittedOnce
  <1>q. QED  BY <1>3, <1>4, <1>5 DEF Watch!WatchInv

LEMMA RaiseKeeps == ASSUME Watch!WatchInv, NEW r \in Revisions,
                           Watch!Raise(r) PROVE Watch!WatchInv'
  <1>1. joined \in [Revisions -> Nat] /\ Watch!Batch(batches[r])
        /\ batches = [q \in Revisions |-> batches[q]]
    BY DEF Watch!WatchInv, Watch!WatchTyped
  <1>2. CASE batches[r].open
    <2>1. /\ joined' = [joined EXCEPT ![r] = joined[r] + 1] /\ batches' = batches
          /\ UNCHANGED <<watchers, spentIds, reported, returned>>
      BY <1>2 DEF Watch!Raise
    <2> PICK n \in Nat : n = joined[r] + 1
      BY <1>1
    <2> PICK b : b = batches[r]
      OBVIOUS
    <2>2. batches' = [batches EXCEPT ![r] = b] /\ joined' = [joined EXCEPT ![r] = n]
      BY <1>1, <2>1
    <2>3. /\ b.open \in BOOLEAN /\ b.ran \subseteq b.passed /\ \A w \in b.ran : <<w, r>> \notin reported
          /\ Watch!Batch(b) /\ b.open
      BY <1>1, <1>2 DEF Watch!WatchInv, Watch!WatchTyped, Watch!TypeOK, Watch!RunsNew
    <2>4. (~b.open => b.ran = {}) /\ (~b.open => n = 0)
      BY <2>3
    <2>q. QED
      BY ONLY r \in Revisions, n \in Nat, Watch!WatchInv, <2>1, <2>2, <2>3, <2>4, BatchKeeps
  <1>3. CASE ~batches[r].open
    <2> PICK n \in Nat : n = joined[r]
      BY <1>1
    <2> PICK b : b = [Watch!NoBatch EXCEPT !.open = TRUE]
      OBVIOUS
    <2>1. Watch!Batch(b) /\ b.open = TRUE /\ b.ran = {} /\ b.passed = {}
      BY DEF Watch!Batch, Watch!NoBatch
    <2>2. /\ batches' = [batches EXCEPT ![r] = b] /\ joined' = joined
          /\ UNCHANGED <<watchers, spentIds, reported, returned>>
      BY <1>3 DEF Watch!Raise
    <2>3. joined' = [joined EXCEPT ![r] = n]
      BY <1>1, <2>2
    <2>q. QED  BY <2>1, <2>2, <2>3, BatchKeeps
  <1>q. QED  BY <1>2, <1>3

LEMMA VisitKeeps == ASSUME Watch!WatchInv, NEW r \in Revisions,
                           Watch!Visit(r) PROVE Watch!WatchInv'
  <1> PICK w : w = Watch!NextWatcher(r)
    OBVIOUS
  <1> PICK b : b = batches[r]
    OBVIOUS
  <1> PICK ran : ran = IF <<w, r>> \in reported THEN b.ran ELSE b.ran \cup {w}
    OBVIOUS
  <1> PICK c : c = [open |-> b.open, passed |-> b.passed \cup {w}, ran |-> ran]
    OBVIOUS
  <1>1. /\ b = [open |-> b.open, passed |-> b.passed, ran |-> b.ran] /\ b.open \in BOOLEAN
        /\ b.ran \subseteq b.passed /\ \A x \in b.ran : <<x, r>> \notin reported
        /\ batches = [q \in Revisions |-> batches[q]] /\ joined \in [Revisions -> Nat]
    BY DEF Watch!WatchInv, Watch!WatchTyped, Watch!TypeOK, Watch!RunsNew, Watch!Batch
  <1>2. /\ batches' = [batches EXCEPT ![r].passed = @ \cup {w},
                                      ![r].ran = IF <<w, r>> \in reported THEN @ ELSE @ \cup {w}]
        /\ batches[r].open /\ UNCHANGED <<watchers, spentIds, reported, returned, joined>>
    BY DEF Watch!Visit
  <1>3. batches' = [batches EXCEPT ![r] = c]
    <2>1. batches'[r] = [[batches[r] EXCEPT !.passed = @ \cup {w}]
                            EXCEPT !.ran = IF <<w, r>> \in reported THEN @ ELSE @ \cup {w}]
      BY <1>1, <1>2
    <2>2. batches'[r] = c
      BY <1>1, <2>1
    <2>q. QED  BY <1>1, <1>2, <2>2
  <1> PICK n \in Nat : n = joined[r]
    BY <1>1
  <1>4. joined' = [joined EXCEPT ![r] = n]
    BY <1>1, <1>2
  <1>5. /\ Watch!Batch(c) /\ c.open \in BOOLEAN /\ c.open /\ c.ran \subseteq c.passed
        /\ \A x \in c.ran : <<x, r>> \notin reported
    BY <1>1, <1>2 DEF Watch!Batch
  <1>q. QED  BY <1>2, <1>3, <1>4, <1>5, BatchKeeps

LEMMA FailKeeps == ASSUME Watch!WatchInv, NEW r \in Revisions, Watch!Fail(r) PROVE Watch!WatchInv'
  <1> PICK b : b = Watch!NoBatch
    OBVIOUS
  <1> PICK n \in Nat : n = 0
    OBVIOUS
  <1>1. Watch!Batch(b) /\ b.open = FALSE /\ b.ran = {} /\ b.passed = {}
    BY DEF Watch!Batch, Watch!NoBatch
  <1>2. /\ batches' = [batches EXCEPT ![r] = b] /\ joined' = [joined EXCEPT ![r] = n]
        /\ UNCHANGED <<watchers, spentIds, reported, returned>>
    BY DEF Watch!Fail
  <1>q. QED  BY <1>1, <1>2, BatchKeeps

LEMMA CompleteKeeps == ASSUME Watch!WatchInv, NEW r \in Revisions,
                              Watch!Complete(r) PROVE Watch!WatchInv'
  <1> PICK b : b = Watch!NoBatch
    OBVIOUS
  <1> PICK ran : ran = batches[r].ran
    OBVIOUS
  <1>1. Watch!Batch(b) /\ b.open = FALSE /\ b.ran = {} /\ b.passed = {}
    BY DEF Watch!Batch, Watch!NoBatch
  <1>2. /\ reported' = reported \cup (ran \X {r})
        /\ returned' = [k \in Watchers \X Revisions |->
               returned[k] + IF k[2] = r /\ k[1] \in ran THEN 1 ELSE 0]
        /\ batches' = [batches EXCEPT ![r] = b]
        /\ joined' = [joined EXCEPT ![r] = 0] /\ UNCHANGED <<watchers, spentIds>>
    BY DEF Watch!Complete
  <1>3. /\ batches = [q \in Revisions |-> batches[q]] /\ joined \in [Revisions -> Nat]
        /\ watchers \in Seq(Watchers) /\ returned \in [Watchers \X Revisions -> Nat]
    BY DEF Watch!WatchInv, Watch!WatchTyped
  <1>4. /\ batches' = [q \in Revisions |-> batches'[q]] /\ batches'[r] = b
        /\ \A q \in Revisions : q # r => batches'[q] = batches[q]
        /\ joined' \in [Revisions -> Nat] /\ joined'[r] = 0
        /\ \A q \in Revisions : q # r => joined'[q] = joined[q]
    BY <1>2, <1>3
  <1>5. returned' \in [Watchers \X Revisions -> Nat]
    BY <1>2, <1>3
  <1>6. Watch!WatchTyped'
    <2>1. \A q \in Revisions : Watch!Batch(batches[q]) /\ batches[q].open \in BOOLEAN
      BY DEF Watch!WatchInv, Watch!WatchTyped
    <2>2. ASSUME NEW q \in Revisions PROVE Watch!Batch(batches'[q]) /\ batches'[q].open \in BOOLEAN
      BY <1>1, <1>4, <2>1
    <2>q. QED  BY <1>2, <1>3, <1>4, <1>5, <2>2 DEF Watch!WatchTyped, Watch!Batch
  <1>7. Watch!TypeOK'
    BY <1>1, <1>2, <1>4 DEF Watch!WatchInv, Watch!TypeOK
  <1>8. Watch!RunsNew'
    BY <1>1, <1>2, <1>4 DEF Watch!WatchInv, Watch!RunsNew
  <1>9. Watch!EmittedOnce'
    <2> SUFFICES ASSUME NEW w \in Watchers, NEW q \in Revisions
                 PROVE  returned'[<<w, q>>] = IF <<w, q>> \in reported' THEN 1 ELSE 0
      BY DEF Watch!EmittedOnce
    <2>1. returned[<<w, q>>] = IF <<w, q>> \in reported THEN 1 ELSE 0
      BY DEF Watch!WatchInv, Watch!EmittedOnce
    <2>2. returned'[<<w, q>>] = returned[<<w, q>>] + IF q = r /\ w \in ran THEN 1 ELSE 0
      BY <1>2
    <2>3. w \in ran => <<w, r>> \notin reported
      BY DEF Watch!WatchInv, Watch!RunsNew
    <2>q. QED  BY <1>2, <2>1, <2>2, <2>3
  <1>q. QED  BY <1>6, <1>7, <1>8, <1>9 DEF Watch!WatchInv

LEMMA WatchKept == Watch!WatchInv /\ [Watch!Next]_(Watch!vars) => Watch!WatchInv'
  <1> SUFFICES ASSUME Watch!WatchInv, [Watch!Next]_(Watch!vars) PROVE Watch!WatchInv'
    OBVIOUS
  <1>1. CASE UNCHANGED Watch!vars
    <2>1. Watch!WatchTyped'
      BY <1>1 DEF Watch!vars, Watch!WatchInv, Watch!WatchTyped, Watch!Batch
    <2>2. Watch!TypeOK' /\ Watch!RunsNew' /\ Watch!EmittedOnce'
      BY <1>1 DEF Watch!vars, Watch!WatchInv, Watch!TypeOK, Watch!RunsNew, Watch!EmittedOnce
    <2>q. QED  BY <2>1, <2>2 DEF Watch!WatchInv
  <1>q. QED
    BY <1>1, WatcherRegisterKeeps, RaiseKeeps, VisitKeeps, FailKeeps, CompleteKeeps DEF Watch!Next

-----------------------------------------------------------------------------
(***************************************************************************)
(* Streams of a run: what was asked is answered, or waits, in the order of *)
(* the requests; entries that nobody asked for yet wait in the order of    *)
(* the journal.                                                            *)
(***************************************************************************)

LEMMA Answering ==
    ASSUME NEW m \in Nat, NEW f \in [1..m -> Streams!Replies], NEW k \in 1..m,
           NEW x \in Streams!Replies
    PROVE  LET g == [f EXCEPT ![k] = x]
           IN  g \in [1..m -> Streams!Replies] /\ g[k] = x /\ \A n \in 1..m : n # k => g[n] = f[n]
  OBVIOUS

LEMMA RepliesTyped ==
    (\A n \in Nat : Streams!Entry(n) \in Streams!Replies) /\ Streams!EndReply \in Streams!Replies /\ Streams!Unanswered \in Streams!Replies
  BY DEF Streams!Entry, Streams!EndReply, Streams!Replies

\* The parts of the invariant that a step needs.
LEMMA StreamFacts ==
    ASSUME StreamAssumption, Streams!StreamInv
    PROVE  /\ journal \in Nat /\ asks \in Nat /\ asks <= MaxAsks /\ MaxAsks \in Nat
           /\ values \in Seq(Nat) /\ waiters \in Seq(1..MaxAsks)
           /\ Streams!Served \in Nat /\ Streams!Served <= asks
           /\ Streams!Served = journal - Len(values) /\ Len(values) \in Nat
           /\ yields \in [1..MaxAsks -> Streams!Replies]
  <1>1. /\ journal \in Nat /\ asks \in 0..MaxAsks /\ MaxAsks \in Nat
        /\ values \in Seq(Nat) /\ waiters \in Seq(1..MaxAsks)
        /\ yields \in [1..MaxAsks -> Streams!Replies] /\ Streams!Served \in 0..asks
    BY DEF Streams!StreamInv, Streams!StreamTyped, StreamAssumption, Streams!InOrder
  <1>2. Streams!Served = journal - Len(values) /\ Len(values) \in Nat
    BY <1>1 DEF Streams!Served
  <1>q. QED  BY <1>1, <1>2

LEMMA OrderFacts ==
    ASSUME Streams!StreamInv
    PROVE  /\ (values # <<>> => Streams!Served = asks)
           /\ \A k \in DOMAIN values : values[k] = Streams!Served + k
           /\ \A n \in 1..Streams!Served : yields[n] = Streams!Entry(n)
           /\ \A n \in (asks + 1)..MaxAsks : yields[n] = Streams!Unanswered
  BY DEF Streams!StreamInv, Streams!InOrder

\* A sequence of consecutive numbers that one more is appended to.
Follows(f, s) == \A k \in DOMAIN f : f[k] = s + k
LEMMA OneMore ==
    ASSUME NEW S, NEW f \in Seq(S), NEW x \in S, NEW s \in Nat,
           Follows(f, s), x = s + Len(f) + 1
    PROVE  Follows(Append(f, x), s)
  <1> USE DEF Follows
  <1> SUFFICES ASSUME NEW k \in DOMAIN Append(f, x) PROVE Append(f, x)[k] = s + k
    OBVIOUS
  <1>1. k \in 1..(Len(f) + 1) /\ Len(f) \in Nat /\ DOMAIN f = 1..Len(f)
    OBVIOUS
  <1>2. CASE k = Len(f) + 1
    <2>1. Append(f, x)[k] = x
      BY <1>2
    <2>q. QED  BY <1>1, <1>2, <2>1
  <1>3. CASE k # Len(f) + 1
    <2>1. k \in DOMAIN f
      BY <1>1, <1>3
    <2>2. Append(f, x)[k] = f[k]
      BY <1>1, <2>1
    <2>q. QED  BY <2>1, <2>2
  <1>q. QED  BY <1>2, <1>3

LEMMA StreamBegins == StreamAssumption /\ Streams!Init => Streams!StreamInv
  <1> SUFFICES ASSUME StreamAssumption, Streams!Init PROVE Streams!StreamInv
    OBVIOUS
  <1>1. Streams!StreamTyped
    BY RepliesTyped DEF Streams!Init, Streams!StreamTyped, StreamAssumption
  <1>2. Streams!Served = 0
    <2>1. Len(values) = 0 /\ journal = 0
      BY DEF Streams!Init
    <2>q. QED  BY <2>1 DEF Streams!Served
  <1>3. Streams!InOrder
    BY <1>2 DEF Streams!Init, Streams!InOrder
  <1>4. Streams!TheRest
    BY <1>2 DEF Streams!Init, Streams!TheRest
  <1>q. QED  BY <1>1, <1>3, <1>4 DEF Streams!StreamInv

LEMMA EmitKeeps == ASSUME StreamAssumption, Streams!StreamInv,
                          Streams!Emit PROVE Streams!StreamInv'
  <1>1. /\ run = "running" /\ journal' = journal + 1 /\ UNCHANGED <<run, ended, asks>>
    BY DEF Streams!Emit
  <1>2. ended = "open"
    BY <1>1 DEF Streams!StreamInv, Streams!StreamTyped, Streams!TheRest
  <1> PICK s : s = Streams!Served
    OBVIOUS
  <1>3. /\ Len(waiters) = asks - s /\ \A k \in DOMAIN waiters : waiters[k] = s + k
        /\ \A n \in (s + 1)..asks : yields[n] = Streams!Unanswered
    BY <1>2 DEF Streams!StreamInv, Streams!TheRest
  <1>4. CASE waiters = <<>>
    <2>1. values' = Append(values, journal + 1) /\ UNCHANGED <<waiters, yields>>
      BY <1>4 DEF Streams!Emit
    <2>2. s = asks
      BY StreamFacts, <1>3, <1>4
    <2>3. values' \in Seq(Nat) /\ Len(values') = Len(values) + 1
      BY StreamFacts, <2>1
    <2>4. Streams!Served' = s
      BY StreamFacts, <1>1, <2>3 DEF Streams!Served
    <2>5. Streams!StreamTyped'
      BY <1>1, <2>1, <2>3 DEF Streams!StreamInv, Streams!StreamTyped
    <2>6. \A k \in DOMAIN values' : values'[k] = s + k
      <3> PICK t \in Nat : t = journal + 1
        BY StreamFacts
      <3>1. s \in Nat /\ t = s + Len(values) + 1
        BY StreamFacts
      <3>2. values \in Seq(Nat) /\ \A k \in DOMAIN values : values[k] = s + k
        BY StreamFacts, OrderFacts
      <3>4. Follows(values, s)
        BY <3>2 DEF Follows
      <3>3. Follows(Append(values, t), s)
        BY OneMore, <3>1, <3>2, <3>4
      <3>q. QED  BY <2>1, <3>3 DEF Follows
    <2>7. Streams!InOrder'
      BY <1>1, <2>1, <2>2, <2>4, <2>6 DEF Streams!StreamInv, Streams!InOrder
    <2>8. Streams!TheRest'
      BY <1>1, <1>2, <1>3, <2>1, <2>4 DEF Streams!TheRest
    <2>q. QED  BY <2>5, <2>7, <2>8 DEF Streams!StreamInv
  <1>5. CASE waiters # <<>>
    <2>1. /\ yields' = [yields EXCEPT ![waiters[1]] = Streams!Entry(journal + 1)]
          /\ waiters' = Tail(waiters) /\ values' = values
      BY <1>5 DEF Streams!Emit
    <2>2. Len(waiters) >= 1 /\ s < asks
      BY StreamFacts, <1>3, <1>5
    <2>3. values = <<>>
      BY <2>2, StreamFacts, OrderFacts
    <2>4. Streams!Served' = s + 1 /\ journal = s
      <3>1. Len(values) = 0
        BY <2>3
      <3>q. QED  BY StreamFacts, <1>1, <2>1, <3>1 DEF Streams!Served
    <2>5. waiters[1] = s + 1
      <3>1. 1 \in DOMAIN waiters
        BY StreamFacts, <2>2
      <3>q. QED  BY <1>3, <3>1
    <2>6. /\ waiters' \in Seq(1..MaxAsks) /\ Len(waiters') = Len(waiters) - 1
          /\ \A k \in DOMAIN waiters' : waiters'[k] = waiters[k + 1] /\ k + 1 \in DOMAIN waiters /\ k \in Int
      BY StreamFacts, <2>1, <2>2
    <2>7. \A k \in DOMAIN waiters' : waiters'[k] = s + 1 + k
      BY StreamFacts, <1>3, <2>6
    <2> PICK t \in 1..MaxAsks : t = s + 1
      BY StreamFacts, <2>2
    <2> PICK x \in Streams!Replies : x = Streams!Entry(t)
      BY RepliesTyped, StreamFacts
    <2>8. yields' = [yields EXCEPT ![t] = x]
      BY <2>1, <2>4, <2>5
    <2>9. yields' \in [1..MaxAsks -> Streams!Replies] /\ yields'[t] = x
          /\ \A n \in 1..MaxAsks : n # t => yields'[n] = yields[n]
      BY StreamFacts, <2>8, Answering
    <2>10. Streams!StreamTyped'
      BY <1>1, <2>1, <2>3, <2>6, <2>9 DEF Streams!StreamInv, Streams!StreamTyped
    <2>11. Streams!InOrder'
      <3>1. Streams!Served' \in 0..asks' /\ values' = <<>>
        BY StreamFacts, <1>1, <2>1, <2>2, <2>3, <2>4
      <3>2. ASSUME NEW n \in 1..(s + 1) PROVE yields'[n] = Streams!Entry(n)
        <4>1. CASE n = t
          BY <2>9, <4>1
        <4>2. CASE n # t
          <5>1. n \in 1..s /\ n \in 1..MaxAsks
            BY StreamFacts, <4>2
          <5>q. QED  BY OrderFacts, <2>9, <4>2, <5>1
        <4>q. QED  BY <4>1, <4>2
      <3>3. ASSUME NEW n \in (asks + 1)..MaxAsks PROVE yields'[n] = Streams!Unanswered
        <4>1. n \in 1..MaxAsks /\ n # t
          BY StreamFacts, <2>2
        <4>q. QED  BY OrderFacts, <2>9, <4>1
      <3>q. QED
        BY <1>1, <2>4, <3>1, <3>2, <3>3 DEF Streams!InOrder, Streams!Unanswered, Streams!Entry
    <2>12. Streams!TheRest'
      <3>1. Len(waiters') = asks - (s + 1)
        BY StreamFacts, <1>3, <2>6
      <3>2. ASSUME NEW n \in (s + 1 + 1)..asks PROVE yields'[n] = Streams!Unanswered
        <4>1. n \in 1..MaxAsks /\ n # t /\ n \in (s + 1)..asks
          BY StreamFacts, <2>2
        <4>q. QED  BY <1>3, <2>9, <4>1
      <3>q. QED  BY <1>1, <1>2, <2>4, <2>7, <3>1, <3>2 DEF Streams!TheRest, Streams!Unanswered
    <2>q. QED  BY <2>10, <2>11, <2>12 DEF Streams!StreamInv
  <1>q. QED  BY <1>4, <1>5

LEMMA RunEndsKeeps ==
    ASSUME Streams!StreamInv, NEW how \in {"completed", "failed"},
           Streams!RunEnds(how) PROVE Streams!StreamInv'
  <1>1. run = "running" /\ run' = how /\ UNCHANGED <<journal, values, waiters, ended, asks, yields>>
    BY DEF Streams!RunEnds
  <1>2. ended = "open"
    BY <1>1 DEF Streams!StreamInv, Streams!StreamTyped, Streams!TheRest
  <1>3. Streams!Served' = Streams!Served
    BY <1>1 DEF Streams!Served
  <1>4. Streams!StreamTyped'
    BY <1>1 DEF Streams!StreamInv, Streams!StreamTyped
  <1>5. Streams!InOrder'
    BY <1>1, <1>3 DEF Streams!StreamInv, Streams!InOrder, Streams!Entry, Streams!Unanswered
  <1>6. Streams!TheRest'
    BY <1>1, <1>2, <1>3 DEF Streams!StreamInv, Streams!TheRest, Streams!Unanswered
  <1>q. QED  BY <1>4, <1>5, <1>6 DEF Streams!StreamInv

LEMMA StreamEndKeeps == ASSUME StreamAssumption, Streams!StreamInv,
                               Streams!Close \/ Streams!Fail PROVE Streams!StreamInv'
  <1> PICK end \in {"closed", "failed"} :
          /\ run = IF end = "closed" THEN "completed" ELSE "failed"
          /\ Streams!Settle(end, Streams!EndReply)
    BY DEF Streams!Close, Streams!Fail, Streams!EndReply
  <1>1. /\ ended = "open" /\ ended' = end /\ waiters' = <<>>
        /\ yields' = [n \in 1..MaxAsks |-> IF n \in Streams!Waiting THEN Streams!EndReply ELSE yields[n]]
        /\ UNCHANGED <<journal, run, values, asks>>
    BY DEF Streams!Settle
  <1>2. /\ asks \in 0..MaxAsks /\ waiters \in Seq(1..MaxAsks) /\ MaxAsks \in Nat
        /\ Streams!Served \in 0..asks /\ Len(waiters) = asks - Streams!Served
        /\ \A k \in DOMAIN waiters : waiters[k] = Streams!Served + k
    BY <1>1 DEF Streams!StreamInv, Streams!StreamTyped, StreamAssumption, Streams!InOrder,
       Streams!TheRest
  <1>3. Streams!Waiting = (Streams!Served + 1)..asks
    <2>1. \A k \in DOMAIN waiters : waiters[k] \in (Streams!Served + 1)..asks
      BY <1>2
    <2>2. \A n \in (Streams!Served + 1)..asks : n - Streams!Served \in DOMAIN waiters /\ waiters[n - Streams!Served] = n
      BY <1>2
    <2>q. QED  BY <2>1, <2>2 DEF Streams!Waiting
  <1>4. Streams!Served' = Streams!Served /\ Streams!EndReply' = Streams!EndReply
    BY <1>1 DEF Streams!Served, Streams!EndReply
  <1>5. /\ \A n \in (Streams!Served + 1)..asks : yields'[n] = Streams!EndReply
        /\ \A n \in 1..Streams!Served : yields'[n] = yields[n]
        /\ \A n \in (asks + 1)..MaxAsks : yields'[n] = yields[n]
    BY <1>1, <1>2, <1>3
  <1>6. Streams!StreamTyped'
    <2> PICK x \in Streams!Replies : x = Streams!EndReply
      BY RepliesTyped
    <2>1. yields' \in [1..MaxAsks -> Streams!Replies]
      BY <1>1, StreamFacts
    <2>2. waiters' \in Seq(1..MaxAsks)
      BY <1>1
    <2>q. QED  BY <1>1, <2>1, <2>2 DEF Streams!StreamInv, Streams!StreamTyped
  <1>7. Streams!InOrder'
    BY <1>1, <1>4, <1>5 DEF Streams!StreamInv, Streams!InOrder, Streams!Entry, Streams!Unanswered
  <1>8. Streams!TheRest'
    BY <1>1, <1>4, <1>5 DEF Streams!TheRest
  <1>q. QED  BY <1>6, <1>7, <1>8 DEF Streams!StreamInv

LEMMA AskKeeps == ASSUME StreamAssumption, Streams!StreamInv, Streams!Ask PROVE Streams!StreamInv'
  <1>1. asks < MaxAsks /\ asks' = asks + 1
        /\ UNCHANGED <<journal, run, ended>> /\ Streams!EndReply' = Streams!EndReply
    BY DEF Streams!Ask, Streams!EndReply
  <1> PICK s : s = Streams!Served
    OBVIOUS
  <1> PICK t \in 1..MaxAsks : t = asks + 1
    BY StreamFacts, <1>1
  <1>2. CASE values # <<>>
    <2> PICK x \in Streams!Replies : x = Streams!Entry(t)
      BY RepliesTyped, StreamFacts
    <2>1. s = asks /\ Len(values) >= 1 /\ values[1] = t
      BY StreamFacts, OrderFacts, <1>2
    <2>2. /\ yields' = [yields EXCEPT ![t] = x]
          /\ values' = Tail(values) /\ waiters' = waiters
      BY <1>2, <2>1 DEF Streams!Ask, Streams!Answered
    <2>3. /\ values' \in Seq(Nat) /\ Len(values') = Len(values) - 1
          /\ \A k \in DOMAIN values' : values'[k] = values[k + 1] /\ k + 1 \in DOMAIN values /\ k \in Int
      BY StreamFacts, <2>1, <2>2
    <2>4. Streams!Served' = t
      BY StreamFacts, <1>1, <2>1, <2>3 DEF Streams!Served
    <2>5. yields' \in [1..MaxAsks -> Streams!Replies] /\ yields'[t] = x
          /\ \A n \in 1..MaxAsks : n # t => yields'[n] = yields[n]
      BY StreamFacts, <2>2, Answering
    <2>6. Streams!StreamTyped'
      BY StreamFacts, <1>1, <2>2, <2>3, <2>5 DEF Streams!StreamInv, Streams!StreamTyped
    <2>7. Streams!InOrder'
      <3>1. \A k \in DOMAIN values' : values'[k] = t + k
        BY StreamFacts, OrderFacts, <2>1, <2>3
      <3>2. ASSUME NEW n \in 1..t PROVE yields'[n] = Streams!Entry(n)
        <4>1. CASE n = t
          BY <2>5, <4>1
        <4>2. CASE n # t
          <5>1. n \in 1..s /\ n \in 1..MaxAsks
            BY StreamFacts, <2>1, <4>2
          <5>q. QED  BY OrderFacts, <2>5, <4>2, <5>1
        <4>q. QED  BY <4>1, <4>2
      <3>3. ASSUME NEW n \in (t + 1)..MaxAsks PROVE yields'[n] = Streams!Unanswered
        <4>1. n \in 1..MaxAsks /\ n # t /\ n \in (asks + 1)..MaxAsks
          BY StreamFacts
        <4>q. QED  BY OrderFacts, <2>5, <4>1
      <3>q. QED
        BY <1>1, <2>4, <3>1, <3>2, <3>3 DEF Streams!InOrder, Streams!Entry, Streams!Unanswered
    <2>8. Streams!TheRest'
      <3>1. Len(waiters) = 0 /\ waiters = <<>>
        BY StreamFacts, <2>1 DEF Streams!StreamInv, Streams!TheRest
      <3>2. t + 1 > asks'
        BY StreamFacts, <1>1
      <3>q. QED  BY StreamFacts, <1>1, <2>2, <2>4, <3>1, <3>2 DEF Streams!StreamInv, Streams!TheRest
    <2>q. QED  BY <2>6, <2>7, <2>8 DEF Streams!StreamInv
  <1>3. CASE values = <<>> /\ ended = "open"
    <2>1. waiters' = Append(waiters, t) /\ UNCHANGED <<values, yields>>
      BY <1>3 DEF Streams!Ask
    <2>2. Streams!Served' = s
      BY <1>1, <2>1 DEF Streams!Served
    <2>3. /\ Len(waiters) = asks - s /\ \A k \in DOMAIN waiters : waiters[k] = s + k
          /\ \A n \in (s + 1)..asks : yields[n] = Streams!Unanswered
      BY <1>3 DEF Streams!StreamInv, Streams!TheRest
    <2>4. waiters' \in Seq(1..MaxAsks) /\ Len(waiters') = Len(waiters) + 1
      BY StreamFacts, <2>1
    <2>5. \A k \in DOMAIN waiters' : waiters'[k] = s + k
      <3>1. s \in Nat /\ t = s + Len(waiters) + 1 /\ waiters \in Seq(1..MaxAsks)
        BY StreamFacts, <2>3
      <3>2. Follows(Append(waiters, t), s)
        <4>1. Follows(waiters, s)
          BY <2>3 DEF Follows
        <4>q. QED  BY OneMore, <3>1, <4>1
      <3>q. QED  BY <2>1, <3>2 DEF Follows
    <2>6. Streams!StreamTyped'
      BY StreamFacts, <1>1, <2>1, <2>4 DEF Streams!StreamInv, Streams!StreamTyped
    <2>7. \A n \in (t + 1)..MaxAsks : yields[n] = Streams!Unanswered
      BY StreamFacts, OrderFacts
    <2>8. Streams!InOrder'
      <3>1. Streams!Served' \in 0..asks' /\ values' = <<>>
        BY StreamFacts, <1>1, <1>3, <2>1, <2>2
      <3>q. QED
        BY OrderFacts, <1>1, <2>1, <2>2, <2>7, <3>1 DEF Streams!InOrder, Streams!Entry,
           Streams!Unanswered
    <2>9. Streams!TheRest'
      <3>1. yields[t] = Streams!Unanswered
        BY StreamFacts, OrderFacts
      <3>2. \A n \in (s + 1)..t : yields[n] = Streams!Unanswered
        BY StreamFacts, <2>3, <3>1
      <3>3. Len(waiters') = t - s
        BY StreamFacts, <2>3, <2>4
      <3>q. QED  BY <1>1, <1>3, <2>1, <2>2, <2>5, <3>2, <3>3 DEF Streams!TheRest, Streams!Unanswered
    <2>q. QED  BY <2>6, <2>8, <2>9 DEF Streams!StreamInv
  <1>4. CASE values = <<>> /\ ended # "open"
    <2>1. /\ yields' = [yields EXCEPT ![t] =
                          IF ended = "failed" THEN <<"threw", 0>> ELSE <<"done", 0>>]
          /\ UNCHANGED <<values, waiters>>
      BY <1>4 DEF Streams!Ask, Streams!Answered
    <2>2. /\ waiters = <<>> /\ run = IF ended = "closed" THEN "completed" ELSE "failed"
          /\ \A n \in (s + 1)..asks : yields[n] = Streams!EndReply
      BY <1>4 DEF Streams!StreamInv, Streams!TheRest
    <2> PICK x \in Streams!Replies : x = Streams!EndReply
      BY RepliesTyped
    <2>3. yields' = [yields EXCEPT ![t] = x]
      BY <1>4, <2>1, <2>2 DEF Streams!EndReply, Streams!StreamInv, Streams!StreamTyped
    <2>4. Streams!Served' = s
      BY <1>1, <2>1 DEF Streams!Served
    <2>5. yields' \in [1..MaxAsks -> Streams!Replies] /\ yields'[t] = x
          /\ \A n \in 1..MaxAsks : n # t => yields'[n] = yields[n]
      BY StreamFacts, <2>3, Answering
    <2>6. Streams!StreamTyped'
      BY StreamFacts, <1>1, <2>1, <2>5 DEF Streams!StreamInv, Streams!StreamTyped
    <2>7. Streams!InOrder'
      <3>1. ASSUME NEW n \in 1..s PROVE yields'[n] = Streams!Entry(n)
        <4>1. n \in 1..MaxAsks /\ n # t
          BY StreamFacts
        <4>q. QED  BY OrderFacts, <2>5, <4>1
      <3>2. ASSUME NEW n \in (t + 1)..MaxAsks PROVE yields'[n] = Streams!Unanswered
        <4>1. n \in 1..MaxAsks /\ n # t /\ n \in (asks + 1)..MaxAsks
          BY StreamFacts
        <4>q. QED  BY OrderFacts, <2>5, <4>1
      <3>3. Streams!Served' \in 0..asks' /\ values' = <<>>
        BY StreamFacts, <1>1, <1>4, <2>1, <2>4
      <3>q. QED
        BY <1>1, <2>4, <3>1, <3>2, <3>3 DEF Streams!InOrder, Streams!Entry, Streams!Unanswered
    <2>8. Streams!TheRest'
      <3>1. \A n \in (s + 1)..t : yields'[n] = Streams!EndReply
        BY StreamFacts, <2>2, <2>5
      <3>q. QED  BY <1>1, <1>4, <2>1, <2>2, <2>4, <3>1 DEF Streams!TheRest
    <2>q. QED  BY <2>6, <2>7, <2>8 DEF Streams!StreamInv
  <1>q. QED  BY <1>2, <1>3, <1>4

LEMMA StreamKept ==
    StreamAssumption /\ Streams!StreamInv /\ [Streams!Next]_(Streams!vars) => Streams!StreamInv'
  <1> SUFFICES ASSUME StreamAssumption, Streams!StreamInv,
                      [Streams!Next]_(Streams!vars) PROVE Streams!StreamInv'
    OBVIOUS
  <1>1. CASE UNCHANGED Streams!vars
    <2>1. Streams!Served' = Streams!Served /\ Streams!EndReply' = Streams!EndReply
      BY <1>1 DEF Streams!vars, Streams!Served, Streams!EndReply
    <2>2. Streams!StreamTyped'
      BY <1>1 DEF Streams!vars, Streams!StreamInv, Streams!StreamTyped
    <2>3. Streams!InOrder'
      BY <1>1, <2>1 DEF Streams!vars, Streams!StreamInv, Streams!InOrder, Streams!Entry,
         Streams!Unanswered
    <2>4. Streams!TheRest'
      BY <1>1, <2>1 DEF Streams!vars, Streams!StreamInv, Streams!TheRest, Streams!Unanswered
    <2>q. QED  BY <2>2, <2>3, <2>4 DEF Streams!StreamInv
  <1>q. QED  BY <1>1, EmitKeeps, RunEndsKeeps, StreamEndKeeps, AskKeeps DEF Streams!Next

LEMMA StreamHolds ==
    StreamAssumption /\ Streams!StreamInv => Streams!TypeOK /\ Streams!StreamWhole
  <1> SUFFICES ASSUME StreamAssumption, Streams!StreamInv PROVE Streams!TypeOK
  /\ Streams!StreamWhole
    OBVIOUS
  <1>1. Streams!TypeOK
    <2>1. CASE ended # "open"
      BY <2>1 DEF Streams!StreamInv, Streams!TheRest, Streams!TypeOK
    <2>2. CASE ended = "open"
      <3>1. values # <<>> => Len(waiters) = 0
        BY StreamFacts, OrderFacts, <2>2 DEF Streams!StreamInv, Streams!TheRest
      <3>q. QED  BY StreamFacts, <2>2, <3>1 DEF Streams!TypeOK
    <2>q. QED  BY <2>1, <2>2
  <1>2. Streams!StreamWhole
    <2> SUFFICES ASSUME NEW n \in 1..asks, yields[n] # Streams!Unanswered
                 PROVE  IF n <= journal THEN yields[n] = Streams!Entry(n)
                        ELSE run # "running" /\ yields[n] = Streams!EndReply
      BY DEF Streams!StreamWhole, Streams!EndReply
    <2>1. CASE n <= Streams!Served
      BY StreamFacts, OrderFacts, <2>1
    <2>2. CASE n > Streams!Served
      <3>1. values = <<>>
        BY StreamFacts, OrderFacts, <2>2
      <3>2. Len(values) = 0
        BY <3>1
      <3>3. ended # "open"
        BY StreamFacts, <2>2 DEF Streams!StreamInv, Streams!TheRest
      <3>4. yields[n] = Streams!EndReply /\ run # "running"
        BY StreamFacts, <2>2, <3>3 DEF Streams!StreamInv, Streams!TheRest
      <3>q. QED  BY StreamFacts, <2>2, <3>2, <3>4
    <2>q. QED  BY StreamFacts, <2>1, <2>2
  <1>q. QED  BY <1>1, <1>2

-----------------------------------------------------------------------------
(***************************************************************************)
(* Progress ladder: what is shown is the rungs climbed so far, and what is *)
(* kept the newest fragments that fit.                                     *)
(***************************************************************************)

Outs == ({"progress"} \X Nat) \cup ({"value", "error"} \X {0})

LEMMA OneShown ==
    ASSUME NEW f \in Seq(Outs), NEW x \in Outs
    PROVE  /\ Append(f, x) \in Seq(Outs) /\ Len(Append(f, x)) = Len(f) + 1
           /\ DOMAIN Append(f, x) = 1..(Len(f) + 1) /\ DOMAIN f = 1..Len(f) /\ Len(f) \in Nat
           /\ Append(f, x)[Len(f) + 1] = x
           /\ \A i \in DOMAIN f : Append(f, x)[i] = f[i]
  <1> HIDE DEF Outs
  <1>q. QED  OBVIOUS

LEMMA LadderBegins == LadderAssumption /\ Ladder!Init => Ladder!LadderInv
  <1> SUFFICES ASSUME LadderAssumption, Ladder!Init PROVE Ladder!LadderInv
    OBVIOUS
  <1>1. Ladder!LadderTyped
    BY DEF Ladder!Init, Ladder!LadderTyped, LadderAssumption
  <1>2. Ladder!RaceHolds /\ Ladder!Climbed /\ Ladder!NewestKept
    BY DEF Ladder!Init, Ladder!RaceHolds, Ladder!Climbed, Ladder!NewestKept
  <1>q. QED  BY <1>1, <1>2 DEF Ladder!LadderInv

LEMMA WorkSettlesKeeps ==
    ASSUME Ladder!LadderInv, NEW how \in {"value", "error"},
           Ladder!WorkSettles(how) PROVE Ladder!LadderInv'
  <1>1. /\ job = "pending" /\ job' = how
        /\ UNCHANGED <<aborted, climbing, rung, outcome, shown, heard, kept>>
    BY DEF Ladder!WorkSettles
  <1>2. Ladder!LadderTyped'
    BY <1>1 DEF Ladder!LadderInv, Ladder!LadderTyped
  <1>3. Ladder!RaceHolds'
    BY <1>1 DEF Ladder!LadderInv, Ladder!RaceHolds
  <1>4. Ladder!Climbed'
    BY <1>1 DEF Ladder!LadderInv, Ladder!Climbed
  <1>5. Ladder!NewestKept'
    BY <1>1 DEF Ladder!LadderInv, Ladder!NewestKept, Ladder!Ends, Ladder!Take
  <1>q. QED  BY <1>2, <1>3, <1>4, <1>5 DEF Ladder!LadderInv

LEMMA LadderAbortKeeps == ASSUME Ladder!LadderInv, Ladder!Abort PROVE Ladder!LadderInv'
  <1>1. aborted' = TRUE /\ UNCHANGED <<job, climbing, rung, outcome, shown, heard, kept>>
    BY DEF Ladder!Abort
  <1>2. Ladder!LadderTyped'
    BY <1>1 DEF Ladder!LadderInv, Ladder!LadderTyped
  <1>3. Ladder!RaceHolds'
    BY <1>1 DEF Ladder!LadderInv, Ladder!RaceHolds
  <1>4. Ladder!Climbed'
    BY <1>1 DEF Ladder!LadderInv, Ladder!Climbed
  <1>5. Ladder!NewestKept'
    BY <1>1 DEF Ladder!LadderInv, Ladder!NewestKept, Ladder!Ends, Ladder!Take
  <1>q. QED  BY <1>2, <1>3, <1>4, <1>5 DEF Ladder!LadderInv

LEMMA LadderAskKeeps == ASSUME Ladder!LadderInv, Ladder!Ask PROVE Ladder!LadderInv'
  <1>1. /\ climbing \in {"idle", "yielded"} /\ climbing' = IF aborted THEN "over" ELSE "racing"
        /\ UNCHANGED <<job, aborted, rung, outcome, shown, heard, kept>>
    BY DEF Ladder!Ask
  <1>2. Ladder!LadderTyped'
    BY <1>1 DEF Ladder!LadderInv, Ladder!LadderTyped
  <1>3. Ladder!RaceHolds'
    BY <1>1 DEF Ladder!LadderInv, Ladder!RaceHolds
  <1>4. Ladder!Climbed'
    BY <1>1 DEF Ladder!LadderInv, Ladder!Climbed
  <1>5. Ladder!NewestKept'
    BY <1>1 DEF Ladder!LadderInv, Ladder!NewestKept, Ladder!Ends, Ladder!Take
  <1>q. QED  BY <1>2, <1>3, <1>4, <1>5 DEF Ladder!LadderInv

LEMMA RaceKeeps ==
    ASSUME LadderAssumption, Ladder!LadderInv, NEW winner \in {"work", "abort", "rung"},
           Ladder!Race(winner)
    PROVE  Ladder!LadderInv'
  <1>1. /\ climbing = "racing" /\ climbing' = "raced"
        /\ outcome' = IF winner = "work" THEN job ELSE winner
        /\ UNCHANGED <<job, aborted, rung, shown, heard, kept>>
    BY DEF Ladder!Race
  <1>2. Ladder!LadderTyped'
    BY <1>1 DEF Ladder!LadderInv, Ladder!LadderTyped
  <1>3. Ladder!RaceHolds'
    <2>1. CASE winner = "work"
      BY <1>1, <2>1 DEF Ladder!Race, Ladder!RaceHolds
    <2>2. CASE winner = "abort"
      BY <1>1, <2>2 DEF Ladder!Race, Ladder!RaceHolds
    <2>3. CASE winner = "rung"
      BY <1>1, <2>3 DEF Ladder!Race, Ladder!RaceHolds
    <2>q. QED  BY <2>1, <2>2, <2>3
  <1>4. Ladder!Climbed'
    BY <1>1 DEF Ladder!LadderInv, Ladder!Climbed
  <1>5. Ladder!NewestKept'
    BY <1>1 DEF Ladder!LadderInv, Ladder!NewestKept, Ladder!Ends, Ladder!Take
  <1>q. QED  BY <1>2, <1>3, <1>4, <1>5 DEF Ladder!LadderInv

LEMMA ResumeKeeps == ASSUME LadderAssumption, Ladder!LadderInv,
                            Ladder!Resume PROVE Ladder!LadderInv'
  <1>1. climbing = "raced" /\ UNCHANGED <<job, aborted, outcome, heard, kept>>
    BY DEF Ladder!Resume
  <1>2. Ladder!NewestKept'
    BY <1>1 DEF Ladder!LadderInv, Ladder!NewestKept, Ladder!Ends, Ladder!Take
  <1>3. /\ rung \in Nat /\ Rungs \in Nat /\ shown \in Seq(Outs) /\ Len(shown) = rung
        /\ \A i \in DOMAIN shown : shown[i] = <<"progress", i>>
    BY <1>1 DEF Ladder!LadderInv, Ladder!LadderTyped, Ladder!Climbed, Outs, LadderAssumption
  <1>4. CASE aborted
    <2>1. climbing' = "over" /\ UNCHANGED <<rung, shown>>
      BY <1>4 DEF Ladder!Resume
    <2>2. Ladder!LadderTyped' /\ Ladder!RaceHolds' /\ Ladder!Climbed'
      BY <1>1, <1>3, <2>1 DEF Ladder!LadderInv, Ladder!LadderTyped, Ladder!RaceHolds, Ladder!Climbed
    <2>q. QED  BY <1>2, <2>2 DEF Ladder!LadderInv
  <1>5. CASE ~aborted /\ outcome = "rung"
    <2> PICK n \in Nat : n = rung + 1
      BY <1>3
    <2>0. <<"progress", n>> \in Outs
      BY DEF Outs
    <2> PICK x \in Outs : x = <<"progress", n>>
      BY <2>0
    <2>1. climbing' = "yielded" /\ rung' = rung + 1 /\ shown' = Append(shown, x)
      BY <1>5 DEF Ladder!Resume, Ladder!Yield
    <2>2. rung < Rungs
      BY <1>1, <1>5 DEF Ladder!LadderInv, Ladder!LadderTyped, Ladder!RaceHolds
    <2>3. /\ shown' \in Seq(Outs) /\ Len(shown') = rung + 1 /\ DOMAIN shown' = 1..(rung + 1)
          /\ DOMAIN shown = 1..rung /\ shown'[rung + 1] = x
          /\ \A i \in DOMAIN shown : shown'[i] = shown[i]
      BY <1>3, <2>1, OneShown
    <2>4. \A i \in DOMAIN shown' : shown'[i] = <<"progress", i>>
      <3> TAKE i \in DOMAIN shown'
      <3>1. i \in 1..rung \/ i = rung + 1
        BY <1>3, <2>3
      <3>q. QED  BY <1>3, <2>3, <3>1
    <2>5. Ladder!LadderTyped'
      BY <1>1, <1>3, <2>1, <2>2, <2>3 DEF Ladder!LadderInv, Ladder!LadderTyped, Outs
    <2>6. Ladder!RaceHolds' /\ Ladder!Climbed'
      BY <2>1, <2>3, <2>4 DEF Ladder!RaceHolds, Ladder!Climbed
    <2>q. QED  BY <1>2, <2>5, <2>6 DEF Ladder!LadderInv
  <1>6. CASE ~aborted /\ outcome # "rung"
    <2>1. climbing' = "over" /\ rung' = rung /\ shown' = Append(shown, <<outcome, 0>>)
      BY <1>6 DEF Ladder!Resume, Ladder!Yield
    <2>2. outcome = job /\ job # "pending"
      BY <1>1, <1>6 DEF Ladder!LadderInv, Ladder!RaceHolds
    <2> PICK x \in Outs : x = <<outcome, 0>>
      BY <2>2 DEF Ladder!LadderInv, Ladder!LadderTyped, Outs
    <2>3. /\ shown' \in Seq(Outs) /\ Len(shown') = rung + 1 /\ DOMAIN shown' = 1..(rung + 1)
          /\ DOMAIN shown = 1..rung /\ shown'[rung + 1] = x
          /\ \A i \in DOMAIN shown : shown'[i] = shown[i]
      BY <1>3, <2>1, OneShown
    <2>4. \A i \in DOMAIN shown' : \/ shown'[i] = <<"progress", i>>
                                   \/ i = Len(shown') /\ shown'[i] = <<job, 0>>
      <3> TAKE i \in DOMAIN shown'
      <3>1. i \in 1..rung \/ i = rung + 1
        BY <1>3, <2>3
      <3>q. QED  BY <1>3, <2>2, <2>3, <3>1
    <2>5. Ladder!LadderTyped'
      BY <1>1, <1>3, <2>1, <2>2, <2>3 DEF Ladder!LadderInv, Ladder!LadderTyped, Outs
    <2>6. Ladder!RaceHolds' /\ Ladder!Climbed'
      BY <1>1, <2>1, <2>2, <2>3, <2>4 DEF Ladder!RaceHolds, Ladder!Climbed
    <2>q. QED  BY <1>2, <2>5, <2>6 DEF Ladder!LadderInv
  <1>q. QED  BY <1>4, <1>5, <1>6

\* The lemmas about texts.
LEMMA Taken ==
    ASSUME NEW S, NEW text \in Seq(S), NEW n \in Nat
    PROVE  /\ Ladder!Take(text, n) \in Seq(S) /\ Len(Ladder!Take(text, n)) \in Nat
           /\ Len(Ladder!Take(text, n)) <= n /\ (n >= Len(text) => Ladder!Take(text, n) = text)
           /\ Ladder!Ends(text, text)
  <1>1. CASE n < Len(text)
    BY <1>1 DEF Ladder!Take, Ladder!Ends
  <1>2. CASE ~(n < Len(text))
    BY <1>2 DEF Ladder!Take, Ladder!Ends
  <1>q. QED  BY <1>1, <1>2

LEMMA EndsOwn == ASSUME NEW S, NEW text \in Seq(S) PROVE Ladder!Ends(text, text)
  BY DEF Ladder!Ends

LEMMA EndsJoined ==
    ASSUME NEW S, NEW p \in Seq(S), NEW t \in Seq(S)
    PROVE  p \o t \in Seq(S) /\ Len(p \o t) = Len(p) + Len(t) /\ Ladder!Ends(p \o t, t)
  <1>1. p \o t \in Seq(S) /\ Len(p \o t) = Len(p) + Len(t)
    OBVIOUS
  <1>2. ASSUME NEW k \in DOMAIN t PROVE (p \o t)[Len(p \o t) - Len(t) + k] = t[k]
    <2>1. Len(p) \in Nat /\ Len(t) \in Nat
          /\ k \in 1..Len(t) /\ Len(p \o t) - Len(t) + k = Len(p) + k
      BY <1>1
    <2>2. Len(p) + k \in 1..(Len(p) + Len(t)) /\ Len(p) + k > Len(p)
      BY <2>1
    <2>3. (p \o t)[Len(p) + k] = t[k]
      BY <2>1, <2>2
    <2>q. QED  BY <2>1, <2>3
  <1>q. QED  BY <1>1, <1>2 DEF Ladder!Ends

\* The parts Merged puts together, whatever the blank and the mark are.
LEMMA JoinedTyped ==
    ASSUME NEW S, NEW blank \in S, NEW p \in Seq(S), NEW t \in Seq(S)
    PROVE  p \o <<blank>> \o t \in Seq(S) /\ Ladder!Ends(p \o <<blank>> \o t, t)
  <1>1. p \o <<blank>> \in Seq(S)
    OBVIOUS
  <1>q. QED  BY <1>1, EndsJoined

LEMMA CutTyped ==
    ASSUME NEW S, NEW blank \in S, NEW mark \in S, NEW p \in Seq(S), NEW t \in Seq(S),
           NEW m \in Nat
    PROVE  LET c == Ladder!Take(p, m) \o <<mark, blank>> \o t
           IN  c \in Seq(S) /\ Len(c) <= m + 2 + Len(t) /\ Ladder!Ends(c, t)
  <1>1. PICK q \in Seq(S) : q = Ladder!Take(p, m) /\ Len(q) <= m /\ Len(q) \in Nat
    BY Taken
  <1>2. <<mark, blank>> \in Seq(S) /\ Len(<<mark, blank>>) = 2
    OBVIOUS
  <1>3. PICK h : h = q \o <<mark, blank>>
    OBVIOUS
  <1>4. h \in Seq(S) /\ Len(h) = Len(q) + 2
    BY <1>2, <1>3, EndsJoined
  <1>5. h \o t \in Seq(S) /\ Len(h \o t) = Len(h) + Len(t) /\ Ladder!Ends(h \o t, t)
    BY <1>4, EndsJoined
  <1>6. Len(t) \in Nat
    OBVIOUS
  <1>q. QED  BY <1>1, <1>3, <1>4, <1>5, <1>6

LEMMA EndsShorter ==
    ASSUME NEW S, NEW p \in Seq(S), NEW t \in Seq(S), Ladder!Ends(p, t)
    PROVE  Len(t) <= Len(p) /\ Len(p) \in Nat /\ Len(t) \in Nat
  BY DEF Ladder!Ends

LEMMA MergedKeeps ==
    ASSUME NEW S, "blank" \in S, "cut" \in S, NEW p \in Seq(S), NEW t \in Seq(S),
           MaxLength \in Nat
    PROVE  /\ Ladder!Merged(p, t) \in Seq(S) /\ Len(Ladder!Merged(p, t)) <= MaxLength
           /\ Ladder!Ends(Ladder!Merged(p, t), Ladder!Take(t, MaxLength))
  <1>0. PICK n \in Nat : n = MaxLength
    OBVIOUS
  <1> PICK blank \in S : blank = "blank"
    OBVIOUS
  <1> PICK mark \in S : mark = "cut"
    OBVIOUS
  <1>l. PICK l \in Nat : l = Len(t)
    OBVIOUS
  <1>1. PICK j \in Seq(S) : j = Ladder!Joined(p, t) /\ Ladder!Ends(j, t)
    <2>1. CASE Ladder!Begins(t, p)
      BY <2>1, EndsOwn DEF Ladder!Joined
    <2>2. CASE ~Ladder!Begins(t, p) /\ Ladder!Ends(p, t)
      BY <2>2 DEF Ladder!Joined
    <2>3. CASE ~Ladder!Begins(t, p) /\ ~Ladder!Ends(p, t)
      BY <2>3, JoinedTyped DEF Ladder!Joined
    <2>q. QED  BY <2>1, <2>2, <2>3
  <1>2. CASE Len(j) <= n
    <2>1. Ladder!Merged(p, t) = j
      BY <1>0, <1>1, <1>2 DEF Ladder!Merged
    <2>2. Len(t) <= n
      <3>1. Len(t) <= Len(j) /\ Len(j) \in Nat /\ Len(t) \in Nat
        BY <1>1, EndsShorter
      <3>q. QED  BY <1>2, <3>1
    <2>3. Ladder!Take(t, n) = t
      BY <2>2, Taken
    <2>q. QED  BY <1>0, <1>1, <1>2, <2>1, <2>3
  <1>3. CASE ~(Len(j) <= n) /\ n - Len(t) < 3
    <2>1. Ladder!Merged(p, t) = Ladder!Take(t, n)
      BY <1>0, <1>1, <1>3 DEF Ladder!Merged
    <2>2. Ladder!Take(t, n) \in Seq(S) /\ Len(Ladder!Take(t, n)) <= n
      BY Taken
    <2>q. QED  BY <1>0, <2>1, <2>2, EndsOwn
  <1>4. CASE ~(Len(j) <= n) /\ ~(n - Len(t) < 3)
    <2>0. n - l >= 3
      BY <1>4, <1>l
    <2>1. PICK m \in Nat : m = n - l - 2
      BY <2>0
    <2>2. PICK c : c = Ladder!Take(p, m) \o <<mark, blank>> \o t
      OBVIOUS
    <2>3. Ladder!Merged(p, t) = c
      BY <1>0, <1>l, <1>1, <1>4, <2>1, <2>2 DEF Ladder!Merged
    <2>4. c \in Seq(S) /\ Len(c) <= m + 2 + Len(t) /\ Ladder!Ends(c, t)
      BY <2>2, CutTyped
    <2>5. Len(c) <= n
      BY <1>l, <2>1, <2>4
    <2>6. Ladder!Take(t, n) = t
      BY <1>l, <2>0, Taken
    <2>q. QED  BY <1>0, <2>3, <2>4, <2>5, <2>6
  <1>q. QED  BY <1>2, <1>3, <1>4

LEMMA SpeakKeeps ==
    ASSUME LadderAssumption, Ladder!LadderInv, NEW f \in Fragments,
           Ladder!Speak(f) PROVE Ladder!LadderInv'
  <1>1. /\ kept' = Append(kept, f) /\ UNCHANGED Ladder!ladder
        /\ heard' = IF heard = Nothing THEN f ELSE Ladder!Merged(heard, f)
    BY DEF Ladder!Speak
  <1>2. f \in Seq(Ladder!Letters) /\ "blank" \in Ladder!Letters
        /\ "cut" \in Ladder!Letters /\ MaxLength \in Nat
    <2>1. f \in Seq(Ladder!Letters) /\ MaxLength \in Nat
      BY DEF LadderAssumption
    <2>2. "blank" \in Ladder!Letters /\ "cut" \in Ladder!Letters
      BY DEF Ladder!Letters
    <2>q. QED  BY <2>1, <2>2
  <1>3. kept' \in Seq(Fragments) /\ kept' # <<>> /\ Len(kept') = Len(kept) + 1
        /\ kept'[Len(kept')] = f /\ Len(kept) \in Nat
    BY <1>1 DEF Ladder!LadderInv, Ladder!LadderTyped
  <1>4. CASE heard = Nothing
    <2>1. kept = <<>>
      BY <1>4 DEF Ladder!LadderInv, Ladder!LadderTyped, LadderAssumption
    <2>2. heard' = f /\ Len(kept') = 1
      BY <1>1, <1>3, <1>4, <2>1
    <2>3. Ladder!NewestKept'
      BY <2>2 DEF Ladder!NewestKept
    <2>4. heard' \in Seq(Ladder!Letters)
      BY <1>2, <2>2
    <2>q. QED
      BY <1>1, <1>3, <2>3, <2>4 DEF Ladder!LadderInv, Ladder!LadderTyped, Ladder!RaceHolds,
         Ladder!Climbed, Ladder!ladder
  <1>5. CASE heard # Nothing
    <2>1. heard \in Seq(Ladder!Letters)
      BY <1>5 DEF Ladder!LadderInv, Ladder!LadderTyped
    <2>2. heard' = Ladder!Merged(heard, f)
      BY <1>1, <1>5
    <2>3. /\ heard' \in Seq(Ladder!Letters) /\ Len(heard') <= MaxLength
          /\ Ladder!Ends(heard', Ladder!Take(f, MaxLength))
      BY <1>2, <2>1, <2>2, MergedKeeps
    <2>4. Ladder!NewestKept'
      BY <1>3, <2>3 DEF Ladder!NewestKept, Ladder!Ends, Ladder!Take
    <2>q. QED
      BY <1>1, <1>3, <2>3, <2>4 DEF Ladder!LadderInv, Ladder!LadderTyped, Ladder!RaceHolds,
         Ladder!Climbed, Ladder!ladder
  <1>q. QED  BY <1>4, <1>5

LEMMA LadderKept ==
    LadderAssumption /\ Ladder!LadderInv /\ [Ladder!Next]_(Ladder!vars) => Ladder!LadderInv'
  <1> SUFFICES ASSUME LadderAssumption, Ladder!LadderInv,
                      [Ladder!Next]_(Ladder!vars) PROVE Ladder!LadderInv'
    OBVIOUS
  <1>1. CASE UNCHANGED Ladder!vars
    <2>1. Ladder!LadderTyped'
      BY <1>1 DEF Ladder!vars, Ladder!LadderInv, Ladder!LadderTyped
    <2>2. Ladder!RaceHolds' /\ Ladder!Climbed'
      BY <1>1 DEF Ladder!vars, Ladder!LadderInv, Ladder!RaceHolds, Ladder!Climbed
    <2>3. Ladder!NewestKept'
      BY <1>1 DEF Ladder!vars, Ladder!LadderInv, Ladder!NewestKept, Ladder!Ends, Ladder!Take
    <2>q. QED  BY <2>1, <2>2, <2>3 DEF Ladder!LadderInv
  <1>q. QED  BY <1>1, WorkSettlesKeeps, LadderAbortKeeps, LadderAskKeeps, RaceKeeps, ResumeKeeps,
                SpeakKeeps DEF Ladder!Next

LEMMA LadderHolds ==
    LadderAssumption /\ Ladder!LadderInv
        => Ladder!TypeOK /\ Ladder!LadderHonest /\ Ladder!NewestKept
  BY DEF LadderAssumption, Ladder!LadderInv, Ladder!LadderTyped, Ladder!Climbed, Ladder!TypeOK,
     Ladder!LadderHonest

LEMMA LadderHushed == [Ladder!Next]_(Ladder!vars) => Ladder!ShowsNoMore
  <1> SUFFICES ASSUME [Ladder!Next]_(Ladder!vars), aborted PROVE shown' = shown
    BY DEF Ladder!ShowsNoMore
  <1>q. QED
    BY DEF Ladder!Next, Ladder!vars, Ladder!WorkSettles, Ladder!Abort, Ladder!Ask, Ladder!Race,
       Ladder!Resume, Ladder!Speak, Ladder!ladder

-----------------------------------------------------------------------------
(***************************************************************************)
(* Turns: the intake and the speech lane hold each turn in the place its   *)
(* state names, the head of the lane has the floor, and only the newest    *)
(* turn of a channel may start to speak.                                   *)
(***************************************************************************)

Turn == [at : Turns!Places, agent : Speakers \cup {Nothing}, aborted : BOOLEAN, left : 0..MaxUtterances]

\* What a step does to the turn of one call.
Moved(f, g, c, at, left) ==
    /\ g \in [Calls -> Turn] /\ g[c].at = at /\ g[c].left = left /\ g[c].aborted = f[c].aborted
    /\ \A d \in Calls : d # c => g[d] = f[d]

LEMMA Moving ==
    ASSUME NEW f \in [Calls -> Turn], NEW c \in Calls, NEW at \in Turns!Places
    PROVE  Moved(f, [f EXCEPT ![c].at = at], c, at, f[c].left)
  <1> PICK x \in Turn : x = f[c]
    OBVIOUS
  <1> PICK y \in Turn : y = [x EXCEPT !.at = at]
    BY DEF Turn
  <1>1. y.at = at /\ y.left = x.left /\ y.aborted = x.aborted
    BY DEF Turn
  <1>2. [f EXCEPT ![c].at = at] = [f EXCEPT ![c] = y]
    OBVIOUS
  <1>q. QED  BY <1>1, <1>2 DEF Moved

LEMMA MovingTo ==
    ASSUME NEW f \in [Calls -> Turn], NEW c \in Calls, NEW at \in Turns!Places,
           NEW agent \in Speakers \cup {Nothing}
    PROVE  Moved(f, [f EXCEPT ![c].at = at, ![c].agent = agent], c, at, f[c].left)
  <1> PICK x \in Turn : x = f[c]
    OBVIOUS
  <1> PICK y \in Turn : y = [x EXCEPT !.at = at, !.agent = agent]
    BY DEF Turn
  <1>1. y.at = at /\ y.left = x.left /\ y.aborted = x.aborted
    BY DEF Turn
  <1>2. [f EXCEPT ![c].at = at, ![c].agent = agent] = [f EXCEPT ![c] = y]
    OBVIOUS
  <1>q. QED  BY <1>1, <1>2 DEF Moved

LEMMA MovingLeft ==
    ASSUME NEW f \in [Calls -> Turn], NEW c \in Calls, NEW at \in Turns!Places,
           NEW n \in 0..MaxUtterances
    PROVE  Moved(f, [f EXCEPT ![c].at = at, ![c].left = n], c, at, n)
  <1> PICK x \in Turn : x = f[c]
    OBVIOUS
  <1> PICK y \in Turn : y = [x EXCEPT !.at = at, !.left = n]
    BY DEF Turn
  <1>1. y.at = at /\ y.left = n /\ y.aborted = x.aborted
    BY DEF Turn
  <1>2. [f EXCEPT ![c].at = at, ![c].left = n] = [f EXCEPT ![c] = y]
    OBVIOUS
  <1>q. QED  BY <1>1, <1>2 DEF Moved

\* Replace: c moves, and the turn it replaces is told to stop.
Stopping(f, g, c, at, who) ==
    /\ g \in [Calls -> Turn] /\ g[c].at = at
    /\ \A d \in Calls : /\ g[d].left = f[d].left /\ (d # c => g[d].at = f[d].at)
                        /\ g[d].aborted = (f[d].aborted \/ d \in who)
LEMMA MovingStop ==
    ASSUME NEW f \in [Calls -> Turn], NEW c \in Calls, NEW old \in Calls, NEW at \in Turns!Places
    PROVE  Stopping(f, [f EXCEPT ![c].at = at, ![old].aborted = TRUE], c, at, {old})
  <1> PICK x \in Turn : x = f[c]
    OBVIOUS
  <1> PICK y \in Turn : y = [x EXCEPT !.at = at]
    BY DEF Turn
  <1>1. y.at = at /\ y.left = x.left /\ y.aborted = x.aborted
    BY DEF Turn
  <1> PICK h \in [Calls -> Turn] : h = [f EXCEPT ![c] = y]
    OBVIOUS
  <1> PICK v \in Turn : v = h[old]
    OBVIOUS
  <1> PICK w \in Turn : w = [v EXCEPT !.aborted = TRUE]
    BY DEF Turn
  <1>2. w.at = v.at /\ w.left = v.left /\ w.aborted = TRUE
    BY DEF Turn
  <1>3. [f EXCEPT ![c].at = at, ![old].aborted = TRUE] = [h EXCEPT ![old] = w]
    OBVIOUS
  <1>4. \A d \in Calls : f[d].aborted \in BOOLEAN /\ h[d].aborted \in BOOLEAN
    BY DEF Turn
  <1>q. QED  BY <1>1, <1>2, <1>3, <1>4 DEF Stopping

-----------------------------------------------------------------------------
\* Lanes, as sequences.
LEMMA LaneGrows ==
    ASSUME NEW q \in Seq(Calls), Turns!Distinct(q), NEW c \in Calls, c \notin Turns!Elements(q)
    PROVE  /\ Append(q, c) \in Seq(Calls) /\ Turns!Distinct(Append(q, c))
           /\ Turns!Elements(Append(q, c)) = Turns!Elements(q) \cup {c} /\ Append(q, c) # <<>>
           /\ q # <<>> => Append(q, c)[1] = q[1]
  <1>1. /\ Append(q, c) \in Seq(Calls) /\ Append(q, c) # <<>>
        /\ DOMAIN Append(q, c) = 1..(Len(q) + 1) /\ DOMAIN q = 1..Len(q) /\ Len(q) \in Nat
        /\ Append(q, c)[Len(q) + 1] = c /\ \A j \in DOMAIN q : Append(q, c)[j] = q[j]
    OBVIOUS
  <1>2. ASSUME NEW j \in DOMAIN Append(q, c), NEW k \in DOMAIN Append(q, c),
               Append(q, c)[j] = Append(q, c)[k]
        PROVE  j = k
    <2>1. (j \in DOMAIN q \/ j = Len(q) + 1) /\ (k \in DOMAIN q \/ k = Len(q) + 1)
      BY <1>1
    <2>q. QED  BY <1>1, <1>2, <2>1 DEF Turns!Distinct, Turns!Elements
  <1>3. Turns!Elements(Append(q, c)) = Turns!Elements(q) \cup {c}
    BY Turns!ElementsAppend
  <1>4. q # <<>> => 1 \in DOMAIN q
    BY <1>1
  <1>q. QED  BY <1>1, <1>2, <1>3, <1>4 DEF Turns!Distinct

LEMMA LaneShrinks ==
    ASSUME NEW q \in Seq(Calls), Turns!Distinct(q), q # <<>>
    PROVE  /\ Tail(q) \in Seq(Calls) /\ Turns!Distinct(Tail(q)) /\ q[1] \in Turns!Elements(q)
           /\ Turns!Elements(Tail(q)) = Turns!Elements(q) \ {q[1]}
  <1>1. /\ Tail(q) \in Seq(Calls) /\ DOMAIN Tail(q) = 1..(Len(q) - 1) /\ Len(q) \in Nat
        /\ DOMAIN q = 1..Len(q) /\ Len(q) >= 1
        /\ \A j \in DOMAIN Tail(q) : Tail(q)[j] = q[j + 1] /\ j + 1 \in DOMAIN q /\ j \in Int
    OBVIOUS
  <1>2. ASSUME NEW j \in DOMAIN Tail(q), NEW k \in DOMAIN Tail(q), Tail(q)[j] = Tail(q)[k]
        PROVE  j = k
    <2>1. j + 1 = k + 1
      BY <1>1, <1>2 DEF Turns!Distinct
    <2>q. QED  BY <1>1, <2>1
  <1>3. ASSUME NEW x \in Turns!Elements(q), x # q[1] PROVE x \in Turns!Elements(Tail(q))
    <2>1. PICK j \in DOMAIN q : q[j] = x
      BY DEF Turns!Elements
    <2>2. j - 1 \in DOMAIN Tail(q) /\ (j - 1) + 1 = j
      BY <1>1, <1>3, <2>1
    <2>3. Tail(q)[j - 1] = x
      BY <1>1, <2>1, <2>2
    <2>q. QED  BY <2>2, <2>3 DEF Turns!Elements
  <1>4. ASSUME NEW x \in Turns!Elements(Tail(q)) PROVE x \in Turns!Elements(q) /\ x # q[1]
    <2>1. PICK j \in DOMAIN Tail(q) : Tail(q)[j] = x
      BY DEF Turns!Elements
    <2>2. j + 1 \in DOMAIN q /\ 1 \in DOMAIN q /\ j + 1 # 1 /\ q[j + 1] = x
      BY <1>1, <2>1
    <2>q. QED  BY <2>2 DEF Turns!Elements, Turns!Distinct
  <1>5. 1 \in DOMAIN q
    BY <1>1
  <1>6. q[1] \in Turns!Elements(q)
    BY <1>5 DEF Turns!Elements
  <1>q. QED  BY <1>1, <1>2, <1>3, <1>4, <1>6 DEF Turns!Distinct

-----------------------------------------------------------------------------
\* A lane under a step that moves the turn of one call.
LEMMA LaneStays ==
    ASSUME NEW waiting, NEW acting, acting \subseteq waiting, NEW f, NEW g, NEW q,
           Turns!Lane(q, f, waiting, acting), NEW c \in Calls, Moved(f, g, c, g[c].at, g[c].left),
           f[c].at \in waiting <=> g[c].at \in waiting,
           g[c].at \in acting => q # <<>> /\ q[1] = c
    PROVE  Turns!Lane(q, g, waiting, acting)
  BY DEF Turns!Lane, Moved

LEMMA LaneJoined ==
    ASSUME NEW waiting, NEW acting, acting \subseteq waiting, NEW f, NEW g, NEW q,
           Turns!Lane(q, f, waiting, acting), NEW c \in Calls, Moved(f, g, c, g[c].at, g[c].left),
           f[c].at \notin waiting, g[c].at \in waiting \ acting
    PROVE  Turns!Lane(Append(q, c), g, waiting, acting)
  <1>1. q \in Seq(Calls) /\ Turns!Distinct(q) /\ c \notin Turns!Elements(q)
    BY DEF Turns!Lane
  <1> PICK r : r = Append(q, c)
    OBVIOUS
  <1>2. /\ r \in Seq(Calls) /\ Turns!Distinct(r)
        /\ Turns!Elements(r) = Turns!Elements(q) \cup {c} /\ r # <<>>
        /\ q # <<>> => r[1] = q[1]
    BY <1>1, LaneGrows
  <1>q. QED  BY <1>2 DEF Turns!Lane, Moved

LEMMA LaneLeft ==
    ASSUME NEW waiting, NEW acting, acting \subseteq waiting, NEW f, NEW g, NEW q,
           Turns!Lane(q, f, waiting, acting), NEW c \in Calls, Moved(f, g, c, g[c].at, g[c].left),
           Turns!First(c, q), g[c].at \notin waiting
    PROVE  Turns!Lane(Tail(q), g, waiting, acting)
  <1>1. q \in Seq(Calls) /\ Turns!Distinct(q) /\ q # <<>> /\ q[1] = c
    BY DEF Turns!Lane, Turns!First
  <1> PICK r : r = Tail(q)
    OBVIOUS
  <1>2. /\ r \in Seq(Calls) /\ Turns!Distinct(r) /\ Turns!Elements(r) = Turns!Elements(q) \ {c}
    BY <1>1, LaneShrinks
  <1>q. QED  BY <1>1, <1>2 DEF Turns!Lane, Moved

LEMMA LanesSets == Turns!TakenIn \subseteq Turns!InIntake /\ {"speaking"} \subseteq Turns!InLane
  BY DEF Turns!TakenIn, Turns!InIntake, Turns!InLane

\* A caption names a call.
LEMMA CaptionsTyped ==
    ASSUME captions \in Seq(Turns!Captions),
           NEW i \in DOMAIN captions PROVE captions[i].call \in Calls
  <1>1. captions[i] \in Turns!Captions
    <2> HIDE DEF Turns!Captions
    <2>q. QED  OBVIOUS
  <1>q. QED  BY <1>1 DEF Turns!Captions

-----------------------------------------------------------------------------
\* The parts of the invariant under a step, by what the step leaves alone.
LEMMA TurnsFacts ==
    ASSUME TurnsAssumption, Turns!TurnsInv
    PROVE  /\ turns \in [Calls -> Turn] /\ transcript \in [Turns!ChannelsUsed -> SUBSET Turns!Entries]
           /\ active \in [Turns!ChannelsUsed -> Calls \cup {Nothing}]
           /\ captions \in Seq(Turns!Captions)
           /\ \A c \in Calls : ChannelOf[c] \in Turns!ChannelsUsed /\ turns[c] \in Turn
           /\ Nothing \notin Calls /\ MaxUtterances \in Nat
  BY DEF TurnsAssumption, Turns!TurnsInv, Turns!TurnsTyped, Turn, Turns!ChannelsUsed

SameSpeech ==
    \A d \in Calls : /\ turns'[d].at = "speaking" <=> turns[d].at = "speaking"
                     /\ turns[d].at = "speaking" => turns'[d].left = turns[d].left
LEMMA SpeechStays ==
    ASSUME TurnsAssumption, Turns!TurnsInv, SameSpeech, captions' = captions
    PROVE  Turns!Speaks'
  <1>1. Turns!OneVoice'
    <2> SUFFICES ASSUME NEW i \in DOMAIN captions
                 PROVE  IF Turns!Starts(i)
                        THEN /\ i > 1 => ~Turns!Starts(i - 1)
                             /\ i = Len(captions) => turns'[captions[i].call].at = "speaking"
                        ELSE i > 1 /\ Turns!Starts(i - 1) /\ captions[i].said = captions[i - 1].said
      BY DEF Turns!OneVoice, Turns!Starts
    <2>1. IF Turns!Starts(i)
          THEN /\ i > 1 => ~Turns!Starts(i - 1)
               /\ i = Len(captions) => turns[captions[i].call].at = "speaking"
          ELSE i > 1 /\ Turns!Starts(i - 1) /\ captions[i].said = captions[i - 1].said
      BY DEF Turns!TurnsInv, Turns!Speaks, Turns!OneVoice
    <2>2. captions[i].call \in Calls
      BY TurnsFacts, CaptionsTyped
    <2>q. QED  BY <2>1, <2>2 DEF SameSpeech
  <1>2. ASSUME NEW d \in Calls, turns'[d].at = "speaking" PROVE Turns!Opens(d)'
    <2>1. turns[d].at = "speaking" /\ turns'[d].left = turns[d].left
      BY <1>2 DEF SameSpeech
    <2>2. Turns!Opens(d)
      BY <2>1 DEF Turns!TurnsInv, Turns!Speaks
    <2>q. QED  BY <2>1, <2>2 DEF Turns!Opens, Turns!Starts, Turns!Said
  <1>q. QED  BY <1>1, <1>2 DEF Turns!Speaks

Grows == \A c \in Calls : transcript[ChannelOf[c]] \subseteq transcript'[ChannelOf[c]]
LEMMA WritingStays ==
    ASSUME TurnsAssumption, Turns!TurnsInv, Grows, captions' = captions,
           \A d \in Calls : /\ Turns!Begun(d)' => Turns!Begun(d)
                            /\ turns'[d].at \in {"queued", "speaking"} =>
                                    Turns!Said(d)' \in transcript'[ChannelOf[d]]
    PROVE  Turns!IsWritten'
  <1>1. ASSUME NEW i \in DOMAIN captions
        PROVE  captions[i].said \in transcript'[ChannelOf[captions[i].call]]
    <2>1. captions[i].call \in Calls
      BY TurnsFacts, CaptionsTyped
    <2>2. captions[i].said \in transcript[ChannelOf[captions[i].call]]
      BY DEF Turns!TurnsInv, Turns!IsWritten, Turns!HeardIsWritten
    <2>q. QED  BY <2>1, <2>2 DEF Grows
  <1>2. \A c, d \in Calls : Turns!Begun(c)' /\ Turns!Begun(d)' /\ ChannelOf[c] = ChannelOf[d]
                            /\ InputOf[c] = InputOf[d] => c = d
    BY DEF Turns!TurnsInv, Turns!IsWritten, Turns!HeardIsWritten
  <1>3. \A c \in Calls : Turns!Begun(c)' => Turns!Heard(c) \in transcript'[ChannelOf[c]]
    BY DEF Turns!TurnsInv, Turns!IsWritten, Grows
  <1>q. QED  BY <1>1, <1>2, <1>3 DEF Turns!IsWritten, Turns!HeardIsWritten, Turns!Heard

\* A move of one turn that begins nothing and writes nothing.
LEMMA WritingMoves ==
    ASSUME TurnsAssumption, Turns!TurnsInv, UNCHANGED <<transcript, captions>>, NEW c \in Calls,
           Moved(turns, turns', c, turns'[c].at, turns'[c].left), Turns!Begun(c)' => Turns!Begun(c),
           turns'[c].at \in {"queued", "speaking"} =>
                turns[c].at \in {"queued", "speaking"} /\ turns'[c].left = turns[c].left
    PROVE  Turns!IsWritten'
  <1>1. Grows
    BY DEF Grows
  <1>2. ASSUME NEW d \in Calls
        PROVE  /\ Turns!Begun(d)' => Turns!Begun(d)
               /\ turns'[d].at \in {"queued", "speaking"} => Turns!Said(d)' \in transcript'[ChannelOf[d]]
    <2>1. CASE d = c
      BY <2>1 DEF Turns!TurnsInv, Turns!IsWritten, Turns!Said
    <2>2. CASE d # c
      BY <2>2 DEF Turns!TurnsInv, Turns!IsWritten, Turns!Said, Moved, Turns!Begun
    <2>q. QED  BY <2>1, <2>2
  <1>q. QED  BY <1>1, <1>2, WritingStays

Runs(at) == at \in {"responding", "uttering", "queued", "speaking"}
LEMMA NewestStays ==
    ASSUME TurnsAssumption, Turns!TurnsInv, active' = active, NEW c \in Calls,
           Moved(turns, turns', c, turns'[c].at, turns'[c].left),
           Runs(turns'[c].at) => Runs(turns[c].at),
           turns'[c].at = "replacing" => turns[c].at = "replacing",
           turns'[c].at \in {"uttering", "queued", "speaking"} => turns'[c].left >= 1
    PROVE  Turns!Newest'
  <1>1. \A d \in Calls : turns'[d].aborted = turns[d].aborted
    BY DEF Moved
  <1> SUFFICES ASSUME NEW d \in Calls
               PROVE  /\ turns'[d].at \in {"responding", "uttering", "queued", "speaking"}
                         /\ ~turns'[d].aborted => active[ChannelOf[d]] = d
                      /\ turns'[d].at = "replacing" =>
                           LET a == active[ChannelOf[d]] IN a = Nothing \/ turns'[a].aborted
                      /\ turns'[d].at \in {"uttering", "queued", "speaking"} => turns'[d].left >= 1
    BY DEF Turns!Newest
  <1>2. active[ChannelOf[d]] = Nothing \/ active[ChannelOf[d]] \in Calls
    BY TurnsFacts
  <1>3. CASE d = c
    BY <1>1, <1>2, <1>3 DEF Turns!TurnsInv, Turns!Newest, Runs
  <1>4. CASE d # c
    <2>1. turns'[d] = turns[d]
      BY <1>4 DEF Moved
    <2>q. QED  BY <1>1, <1>2, <2>1 DEF Turns!TurnsInv, Turns!Newest
  <1>q. QED  BY <1>3, <1>4

\* A turn that ends.
LEMMA NewestLeaves ==
    ASSUME TurnsAssumption, Turns!TurnsInv, NEW c \in Calls,
           Moved(turns, turns', c, turns'[c].at, turns'[c].left), turns'[c].at \in Turns!Over,
           active' = [active EXCEPT ![ChannelOf[c]] = IF @ = c THEN Nothing ELSE @]
    PROVE  Turns!Newest' /\ active' \in [Turns!ChannelsUsed -> Calls \cup {Nothing}]
  <1>0. active' \in [Turns!ChannelsUsed -> Calls \cup {Nothing}]
    BY TurnsFacts
  <1>1. \A d \in Calls : turns'[d].aborted = turns[d].aborted
    BY DEF Moved
  <1> SUFFICES ASSUME NEW d \in Calls
               PROVE  /\ turns'[d].at \in {"responding", "uttering", "queued", "speaking"}
                         /\ ~turns'[d].aborted => active'[ChannelOf[d]] = d
                      /\ turns'[d].at = "replacing" =>
                           LET a == active'[ChannelOf[d]] IN a = Nothing \/ turns'[a].aborted
                      /\ turns'[d].at \in {"uttering", "queued", "speaking"} => turns'[d].left >= 1
    BY <1>0 DEF Turns!Newest
  <1>2. active[ChannelOf[d]] = Nothing \/ active[ChannelOf[d]] \in Calls
    BY TurnsFacts
  <1>3. CASE d = c
    BY <1>3 DEF Turns!Over
  <1>4. CASE d # c
    <2>1. turns'[d] = turns[d]
      BY <1>4 DEF Moved
    <2>2. \/ active'[ChannelOf[d]] = active[ChannelOf[d]]
          \/ active[ChannelOf[d]] = c /\ active'[ChannelOf[d]] = Nothing
      BY TurnsFacts
    <2>q. QED  BY <1>1, <1>2, <1>4, <2>1, <2>2 DEF Turns!TurnsInv, Turns!Newest
  <1>q. QED  BY <1>3, <1>4

-----------------------------------------------------------------------------
\* The steps.
LEMMA ResolvedTyped ==
    ASSUME TurnsAssumption, NEW c \in Calls PROVE Turns!Resolved(c) \in Speakers \cup {Nothing}
  <1> PICK named : named = IF Addressed[c] = <<>> THEN Turns!Candidates ELSE Addressed[c]
    OBVIOUS
  <1> PICK fit : fit = Turns!Filtered(named, Turns!Eligible)
    OBVIOUS
  <1>1. Turns!Resolved(c) = IF fit = <<>> THEN Nothing ELSE fit[1]
    BY DEF Turns!Resolved
  <1>2. PICK S : named \in Seq(S)
    <2>1. CASE Addressed[c] = <<>>
      <3>1. \A x, y, z : <<x, y, z>> \in Seq({x, y, z})
        OBVIOUS
      <3>q. QED  BY <2>1, <3>1 DEF Turns!Candidates
    <2>2. CASE Addressed[c] # <<>>
      BY <2>2 DEF TurnsAssumption
    <2>q. QED  BY <2>1, <2>2
  <1>3. fit \in Seq(S) /\ Turns!Elements(fit) \subseteq Speakers
    BY <1>2, Turns!FilteredElements DEF Turns!Eligible
  <1>4. CASE fit # <<>>
    <2>1. 1 \in DOMAIN fit
      BY <1>3, <1>4
    <2>q. QED  BY <1>1, <1>3, <1>4, <2>1 DEF Turns!Elements
  <1>q. QED  BY <1>1, <1>4

LEMMA SubmitKeeps ==
    ASSUME TurnsAssumption, Turns!TurnsInv, NEW c \in Calls, Turns!Submit(c) PROVE Turns!TurnsInv'
  <1>1. turns[c].at = "idle" /\ UNCHANGED <<transcript, active, speech, captions>>
    BY DEF Turns!Submit
  <1> PICK agent \in Speakers \cup {Nothing} : agent = Turns!Resolved(c)
    BY ResolvedTyped
  <1>2. /\ turns' \in [Calls -> Turn] /\ turns'[c].at \in {"refused", "intake"}
        /\ Moved(turns, turns', c, turns'[c].at, turns'[c].left)
    <2>1. CASE agent = Nothing
      <3>1. turns' = [turns EXCEPT ![c].at = "refused"]
        BY <2>1 DEF Turns!Submit
      <3>2. "refused" \in Turns!Places
        BY DEF Turns!Places, Turns!Over
      <3>3. Moved(turns, turns', c, "refused", turns[c].left)
        BY TurnsFacts, <3>1, <3>2, Moving
      <3>q. QED  BY <3>3 DEF Moved
    <2>2. CASE agent # Nothing
      <3>1. turns' = [turns EXCEPT ![c].at = "intake", ![c].agent = agent]
        BY <2>2 DEF Turns!Submit
      <3>2. "intake" \in Turns!Places
        BY DEF Turns!Places
      <3>3. Moved(turns, turns', c, "intake", turns[c].left)
        BY TurnsFacts, <3>1, <3>2, MovingTo
      <3>q. QED  BY <3>3 DEF Moved
    <2>q. QED  BY <2>1, <2>2
  <1>3. intake' = IF turns'[c].at = "intake" THEN Append(intake, c) ELSE intake
    <2>1. CASE agent = Nothing
      <3>1. turns' = [turns EXCEPT ![c].at = "refused"] /\ intake' = intake
        BY <2>1 DEF Turns!Submit
      <3>2. "refused" \in Turns!Places
        BY DEF Turns!Places, Turns!Over
      <3>3. Moved(turns, turns', c, "refused", turns[c].left)
        BY TurnsFacts, <3>1, <3>2, Moving
      <3>q. QED  BY <3>1, <3>3 DEF Moved
    <2>2. CASE agent # Nothing
      <3>1. turns' = [turns EXCEPT ![c].at = "intake", ![c].agent = agent]
            /\ intake' = Append(intake, c)
        BY <2>2 DEF Turns!Submit
      <3>2. "intake" \in Turns!Places
        BY DEF Turns!Places
      <3>3. Moved(turns, turns', c, "intake", turns[c].left)
        BY TurnsFacts, <3>1, <3>2, MovingTo
      <3>q. QED  BY <3>1, <3>3 DEF Moved
    <2>q. QED  BY <2>1, <2>2
  <1>4. Turns!TurnsTyped'
    BY TurnsFacts, <1>1, <1>2 DEF Turns!TurnsTyped, Turn
  <1>5. Turns!Lane(intake', turns', Turns!InIntake, Turns!TakenIn)
    <2>1. Turns!Lane(intake, turns, Turns!InIntake, Turns!TakenIn)
          /\ turns[c].at \notin Turns!InIntake
      BY <1>1 DEF Turns!TurnsInv, Turns!Lanes, Turns!InIntake
    <2>2. CASE turns'[c].at = "intake"
      <3>1. turns'[c].at \in Turns!InIntake \ Turns!TakenIn
        BY <2>2 DEF Turns!InIntake, Turns!TakenIn
      <3>q. QED  BY <1>2, <1>3, <2>1, <2>2, <3>1, LaneJoined, LanesSets
    <2>3. CASE turns'[c].at # "intake"
      <3>1. turns'[c].at \notin Turns!InIntake /\ turns'[c].at \notin Turns!TakenIn
        BY <1>2, <2>3 DEF Turns!InIntake, Turns!TakenIn
      <3>q. QED  BY <1>2, <1>3, <2>1, <2>3, <3>1, LaneStays, LanesSets
    <2>q. QED  BY <2>2, <2>3
  <1>6. Turns!Lane(speech', turns', Turns!InLane, {"speaking"})
    <2>1. Turns!Lane(speech, turns, Turns!InLane, {"speaking"}) /\ turns[c].at \notin Turns!InLane
          /\ turns'[c].at \notin Turns!InLane
      BY <1>1, <1>2 DEF Turns!TurnsInv, Turns!Lanes, Turns!InLane
    <2>2. turns'[c].at # "speaking"
      BY <1>2
    <2>q. QED  BY <1>1, <1>2, <2>1, <2>2, LaneStays, LanesSets
  <1>7. Turns!Speaks'
    <2>1. SameSpeech
      BY <1>1, <1>2 DEF SameSpeech, Moved
    <2>q. QED  BY <1>1, <2>1, SpeechStays
  <1>8. Turns!IsWritten'
    BY <1>1, <1>2, WritingMoves DEF Turns!Begun
  <1>9. Turns!Newest'
    BY <1>1, <1>2, NewestStays DEF Runs
  <1>q. QED  BY <1>4, <1>5, <1>6, <1>7, <1>8, <1>9 DEF Turns!TurnsInv, Turns!Lanes

\* The lanes of a step that touches none of them, from the place a turn leaves.
LEMMA IntakeStays ==
    ASSUME Turns!TurnsInv, NEW c \in Calls, Moved(turns, turns', c, turns'[c].at, turns'[c].left),
           turns[c].at \notin Turns!InIntake, turns'[c].at \notin Turns!InIntake, intake' = intake
    PROVE  Turns!Lane(intake', turns', Turns!InIntake, Turns!TakenIn)
  <1>1. Turns!Lane(intake, turns, Turns!InIntake, Turns!TakenIn)
        /\ turns'[c].at \notin Turns!TakenIn
    BY LanesSets DEF Turns!TurnsInv, Turns!Lanes
  <1>q. QED  BY <1>1, LaneStays, LanesSets

LEMMA SpeechLaneStays ==
    ASSUME Turns!TurnsInv, NEW c \in Calls, Moved(turns, turns', c, turns'[c].at, turns'[c].left),
           turns[c].at \notin Turns!InLane, turns'[c].at \notin Turns!InLane, speech' = speech
    PROVE  Turns!Lane(speech', turns', Turns!InLane, {"speaking"})
  <1>1. Turns!Lane(speech, turns, Turns!InLane, {"speaking"}) /\ turns'[c].at # "speaking"
    BY LanesSets DEF Turns!TurnsInv, Turns!Lanes
  <1>2. turns'[c].at \notin {"speaking"}
    BY <1>1
  <1>q. QED  BY <1>1, <1>2, LaneStays, LanesSets

\* A call at the head of the intake is there by its place.
LEMMA AppendInputKeeps ==
    ASSUME TurnsAssumption, Turns!TurnsInv, NEW c \in Calls,
           Turns!AppendInput(c) PROVE Turns!TurnsInv'
  <1>1. /\ Turns!First(c, intake) /\ turns[c].at = "intake"
        /\ UNCHANGED <<active, speech, captions>>
    BY DEF Turns!AppendInput
  <1> PICK h : h = Turns!Heard(c)
    OBVIOUS
  <1> PICK ch \in Turns!ChannelsUsed : ch = ChannelOf[c]
    BY TurnsFacts
  <1>2. CASE h \in transcript[ch]
    <2>1. turns' = [turns EXCEPT ![c].at = "duplicate"] /\ intake' = Tail(intake)
          /\ transcript' = transcript
      BY <1>2 DEF Turns!AppendInput
    <2>2. "duplicate" \in Turns!Places /\ "duplicate" \notin Turns!InIntake
    /\ "duplicate" \notin Turns!InLane
      BY DEF Turns!Places, Turns!Over, Turns!InIntake, Turns!InLane
    <2>3. Moved(turns, turns', c, "duplicate", turns[c].left)
      BY TurnsFacts, <2>1, <2>2, Moving
    <2>4. turns' \in [Calls -> Turn] /\ turns'[c].at = "duplicate"
          /\ Moved(turns, turns', c, turns'[c].at, turns'[c].left)
      BY <2>3 DEF Moved
    <2>5. Turns!TurnsTyped'
      BY TurnsFacts, <1>1, <2>1, <2>4 DEF Turns!TurnsTyped, Turn
    <2>6. Turns!Lane(intake', turns', Turns!InIntake, Turns!TakenIn)
      <3>1. Turns!Lane(intake, turns, Turns!InIntake, Turns!TakenIn)
        BY DEF Turns!TurnsInv, Turns!Lanes
      <3>2. turns'[c].at \notin Turns!InIntake
        BY <2>2, <2>4
      <3>q. QED  BY <1>1, <2>1, <2>4, <3>1, <3>2, LaneLeft, LanesSets
    <2>7. Turns!Lane(speech', turns', Turns!InLane, {"speaking"})
      BY <1>1, <2>4, SpeechLaneStays DEF Turns!InLane
    <2>8. Turns!Speaks'
      <3>1. SameSpeech
        BY <1>1, <2>4 DEF SameSpeech, Moved
      <3>q. QED  BY <1>1, <3>1, SpeechStays
    <2>9. Turns!IsWritten'
      BY <1>1, <2>1, <2>4, WritingMoves DEF Turns!Begun
    <2>10. Turns!Newest'
      BY <1>1, <2>4, NewestStays DEF Runs
    <2>q. QED  BY <2>5, <2>6, <2>7, <2>8, <2>9, <2>10 DEF Turns!TurnsInv, Turns!Lanes
  <1>3. CASE h \notin transcript[ch]
    <2>1. turns' = [turns EXCEPT ![c].at = "written"] /\ intake' = intake
          /\ transcript' = [transcript EXCEPT ![ch] = @ \cup {h}]
      BY <1>3 DEF Turns!AppendInput
    <2>2. "written" \in Turns!Places /\ "written" \in Turns!InIntake
    /\ "written" \notin Turns!InLane
      BY DEF Turns!Places, Turns!Over, Turns!InIntake, Turns!InLane
    <2>3. Moved(turns, turns', c, "written", turns[c].left)
      BY TurnsFacts, <2>1, <2>2, Moving
    <2>4. turns' \in [Calls -> Turn] /\ turns'[c].at = "written"
          /\ Moved(turns, turns', c, turns'[c].at, turns'[c].left)
      BY <2>3 DEF Moved
    <2>t. /\ transcript' \in [Turns!ChannelsUsed -> SUBSET Turns!Entries]
          /\ transcript'[ch] = transcript[ch] \cup {h}
          /\ \A x \in Turns!ChannelsUsed : transcript[x] \subseteq transcript'[x]
      <3>1. h \in Turns!Entries
        BY DEF Turns!Heard, Turns!Entries
      <3>q. QED  BY TurnsFacts, <2>1, <3>1
    <2>5. Turns!TurnsTyped'
      BY TurnsFacts, <1>1, <2>4, <2>t DEF Turns!TurnsTyped, Turn
    <2>6. Turns!Lane(intake', turns', Turns!InIntake, Turns!TakenIn)
      <3>1. Turns!Lane(intake, turns, Turns!InIntake, Turns!TakenIn) /\ intake # <<>>
            /\ intake[1] = c
        BY <1>1 DEF Turns!TurnsInv, Turns!Lanes, Turns!First
      <3>2. turns'[c].at \in Turns!InIntake /\ turns[c].at \in Turns!InIntake
        BY <1>1, <2>2, <2>4 DEF Turns!InIntake
      <3>q. QED  BY <2>1, <2>4, <3>1, <3>2, LaneStays, LanesSets
    <2>7. Turns!Lane(speech', turns', Turns!InLane, {"speaking"})
      BY <1>1, <2>4, SpeechLaneStays DEF Turns!InLane
    <2>8. Turns!Speaks'
      <3>1. SameSpeech
        BY <1>1, <2>4 DEF SameSpeech, Moved
      <3>q. QED  BY <1>1, <3>1, SpeechStays
    <2>g. Grows
      BY TurnsFacts, <2>t DEF Grows
    <2>9. Turns!IsWritten'
      <3>1. ASSUME NEW i \in DOMAIN captions
            PROVE  captions[i].said \in transcript'[ChannelOf[captions[i].call]]
        <4>1. captions[i].call \in Calls
          BY TurnsFacts, CaptionsTyped
        <4>2. captions[i].said \in transcript[ChannelOf[captions[i].call]]
          BY DEF Turns!TurnsInv, Turns!IsWritten, Turns!HeardIsWritten
        <4>q. QED  BY <2>g, <4>1, <4>2 DEF Grows
      <3>2. ASSUME NEW d \in Calls, d # c, Turns!Begun(d)'
            PROVE  Turns!Begun(d) /\ Turns!Heard(d) \in transcript[ChannelOf[d]]
        <4>1. Turns!Begun(d)
          BY <2>4, <3>2 DEF Turns!Begun, Moved
        <4>q. QED  BY <4>1 DEF Turns!TurnsInv, Turns!IsWritten
      <3>3. \A d \in Calls : d # c /\ ChannelOf[d] = ChannelOf[c] /\ InputOf[d] = InputOf[c]
                             => ~Turns!Begun(d)'
        BY <1>3, <3>2 DEF Turns!Heard
      <3>4. ASSUME NEW x \in Calls, NEW y \in Calls, Turns!Begun(x)', Turns!Begun(y)',
                   ChannelOf[x] = ChannelOf[y], InputOf[x] = InputOf[y]
            PROVE  x = y
        <4>1. CASE x = c \/ y = c
          BY <3>3, <3>4, <4>1
        <4>2. CASE x # c /\ y # c
          <5>1. Turns!Begun(x) /\ Turns!Begun(y)
            BY <3>2, <3>4, <4>2
          <5>q. QED  BY <3>4, <5>1 DEF Turns!TurnsInv, Turns!IsWritten, Turns!HeardIsWritten
        <4>q. QED  BY <4>1, <4>2
      <3>5. ASSUME NEW d \in Calls, Turns!Begun(d)' PROVE Turns!Heard(d) \in transcript'[ChannelOf[d]]
        <4>1. CASE d = c
          BY <2>t, <4>1
        <4>2. CASE d # c
          BY <2>g, <3>2, <3>5, <4>2 DEF Grows
        <4>q. QED  BY <4>1, <4>2
      <3>6. ASSUME NEW d \in Calls, turns'[d].at \in {"queued", "speaking"}
            PROVE  Turns!Said(d)' \in transcript'[ChannelOf[d]]
        <4>1. d # c /\ turns'[d] = turns[d]
          BY <2>4, <3>6 DEF Moved
        <4>2. Turns!Said(d) \in transcript[ChannelOf[d]]
          BY <3>6, <4>1 DEF Turns!TurnsInv, Turns!IsWritten
        <4>q. QED  BY <2>g, <4>1, <4>2 DEF Grows, Turns!Said
      <3>q. QED
        BY <1>1, <3>1, <3>4, <3>5, <3>6 DEF Turns!IsWritten, Turns!HeardIsWritten, Turns!Heard
    <2>10. Turns!Newest'
      BY <1>1, <2>4, NewestStays DEF Runs
    <2>q. QED  BY <2>5, <2>6, <2>7, <2>8, <2>9, <2>10 DEF Turns!TurnsInv, Turns!Lanes
  <1>q. QED  BY <1>2, <1>3

LEMMA ReplaceKeeps ==
    ASSUME TurnsAssumption, Turns!TurnsInv, NEW c \in Calls,
           Turns!Replace(c) PROVE Turns!TurnsInv'
  <1>1. /\ Turns!First(c, intake) /\ turns[c].at = "written"
        /\ UNCHANGED <<transcript, intake, active, speech, captions>>
    BY DEF Turns!Replace
  <1> PICK ch \in Turns!ChannelsUsed : ch = ChannelOf[c]
    BY TurnsFacts
  <1> PICK old \in Calls \cup {Nothing} : old = active[ch]
    BY TurnsFacts
  <1>2. "replacing" \in Turns!Places /\ "replacing" \in Turns!InIntake
    BY DEF Turns!Places, Turns!InIntake
  <1> PICK who \in SUBSET Calls : who = {old} \ {Nothing}
    OBVIOUS
  <1>3. Stopping(turns, turns', c, "replacing", who)
    <2>1. CASE old = Nothing
      <3>1. turns' = [turns EXCEPT ![c].at = "replacing"]
        BY <2>1 DEF Turns!Replace
      <3>2. Moved(turns, turns', c, "replacing", turns[c].left)
        BY TurnsFacts, <1>2, <3>1, Moving
      <3>3. \A d \in Calls : turns[d].aborted \in BOOLEAN
        BY TurnsFacts DEF Turn
      <3>4. who = {}
        BY <2>1
      <3>5. ASSUME NEW d \in Calls
            PROVE  /\ turns'[d].left = turns[d].left /\ (d # c => turns'[d].at = turns[d].at)
                   /\ turns'[d].aborted = (turns[d].aborted \/ d \in who)
        <4>1. CASE d = c
          BY <3>2, <3>3, <3>4, <4>1 DEF Moved
        <4>2. CASE d # c
          BY <3>2, <3>3, <3>4, <4>2 DEF Moved
        <4>q. QED  BY <4>1, <4>2
      <3>q. QED  BY <3>2, <3>5 DEF Stopping, Moved
    <2>2. CASE old # Nothing
      <3>1. turns' = [turns EXCEPT ![c].at = "replacing", ![old].aborted = TRUE] /\ old \in Calls
        BY <2>2 DEF Turns!Replace
      <3>2. who = {old}
        BY <2>2
      <3> PICK o \in Calls : o = old
        BY <3>1
      <3>3. turns \in [Calls -> Turn]
        BY TurnsFacts
      <3>4. Stopping(turns, [turns EXCEPT ![c].at = "replacing", ![o].aborted = TRUE], c, "replacing", {o})
        BY ONLY <1>2, <3>3, c \in Calls, o \in Calls, MovingStop
      <3>q. QED  BY <3>1, <3>2, <3>4
    <2>q. QED  BY <2>1, <2>2
  <1>4. /\ turns' \in [Calls -> Turn] /\ turns'[c].at = "replacing"
        /\ \A d \in Calls : /\ turns'[d].left = turns[d].left /\ (d # c => turns'[d].at = turns[d].at)
                            /\ turns'[d].aborted = (turns[d].aborted \/ d \in who)
        /\ \A d \in Calls : turns[d].aborted => turns'[d].aborted
    BY <1>3 DEF Stopping
  <1>5. Turns!TurnsTyped'
    BY TurnsFacts, <1>1, <1>4 DEF Turns!TurnsTyped, Turn
  <1>6. Turns!Lane(intake', turns', Turns!InIntake, Turns!TakenIn)
    <2>1. Turns!Lane(intake, turns, Turns!InIntake, Turns!TakenIn) /\ intake # <<>> /\ intake[1] = c
          /\ turns[c].at \in Turns!InIntake
      BY <1>1 DEF Turns!TurnsInv, Turns!Lanes, Turns!First, Turns!InIntake
    <2>q. QED  BY <1>1, <1>2, <1>4, <2>1 DEF Turns!Lane
  <1>7. Turns!Lane(speech', turns', Turns!InLane, {"speaking"})
    <2>1. Turns!Lane(speech, turns, Turns!InLane, {"speaking"})
      BY DEF Turns!TurnsInv, Turns!Lanes
    <2>2. \A d \in Calls : turns'[d].at \in Turns!InLane <=> turns[d].at \in Turns!InLane
      BY <1>1, <1>4 DEF Turns!InLane
    <2>3. \A d \in Calls : turns'[d].at = "speaking" <=> turns[d].at = "speaking"
      BY <1>1, <1>4
    <2>q. QED  BY <1>1, <2>1, <2>2, <2>3 DEF Turns!Lane
  <1>8. Turns!Speaks'
    <2>1. SameSpeech
      BY <1>1, <1>4 DEF SameSpeech
    <2>q. QED  BY <1>1, <2>1, SpeechStays
  <1>9. Turns!IsWritten'
    <2>1. Grows
      BY <1>1 DEF Grows
    <2>2. ASSUME NEW d \in Calls
          PROVE  /\ Turns!Begun(d)' => Turns!Begun(d)
                 /\ turns'[d].at \in {"queued", "speaking"} => Turns!Said(d)' \in transcript'[ChannelOf[d]]
      BY <1>1, <1>4 DEF Turns!TurnsInv, Turns!IsWritten, Turns!Said, Turns!Begun
    <2>q. QED  BY <1>1, <2>1, <2>2, WritingStays
  <1>10. Turns!Newest'
    <2> SUFFICES ASSUME NEW d \in Calls
                 PROVE  /\ turns'[d].at \in {"responding", "uttering", "queued", "speaking"}
                           /\ ~turns'[d].aborted => active[ChannelOf[d]] = d
                        /\ turns'[d].at = "replacing" =>
                             LET a == active[ChannelOf[d]] IN a = Nothing \/ turns'[a].aborted
                        /\ turns'[d].at \in {"uttering", "queued", "speaking"} => turns'[d].left >= 1
      BY <1>1 DEF Turns!Newest
    <2>1. active[ChannelOf[d]] = Nothing \/ active[ChannelOf[d]] \in Calls
      BY TurnsFacts
    <2>2. CASE d = c
      <3>1. active[ChannelOf[d]] = old /\ (old = Nothing \/ turns'[old].aborted)
        BY <1>4, <2>1, <2>2
      <3>q. QED  BY <1>4, <2>2, <3>1
    <2>3. CASE d # c
      BY <1>4, <2>1, <2>3 DEF Turns!TurnsInv, Turns!Newest
    <2>q. QED  BY <2>2, <2>3
  <1>q. QED  BY <1>5, <1>6, <1>7, <1>8, <1>9, <1>10 DEF Turns!TurnsInv, Turns!Lanes

LEMMA TakeKeeps ==
    ASSUME TurnsAssumption, Turns!TurnsInv, NEW c \in Calls, Turns!Take(c) PROVE Turns!TurnsInv'
  <1>1. /\ Turns!First(c, intake) /\ turns[c].at = "replacing"
        /\ UNCHANGED <<transcript, speech, captions>>
        /\ turns' = [turns EXCEPT ![c].at = "responding"] /\ intake' = Tail(intake)
        /\ active' = [active EXCEPT ![ChannelOf[c]] = c]
    BY DEF Turns!Take
  <1>2. "responding" \in Turns!Places /\ "responding" \notin Turns!InIntake
  /\ "responding" \notin Turns!InLane
    BY DEF Turns!Places, Turns!Over, Turns!InIntake, Turns!InLane
  <1>3. Moved(turns, turns', c, "responding", turns[c].left)
    BY TurnsFacts, <1>1, <1>2, Moving
  <1>4. turns' \in [Calls -> Turn] /\ turns'[c].at = "responding"
        /\ Moved(turns, turns', c, turns'[c].at, turns'[c].left)
    BY <1>3 DEF Moved
  <1>5. Turns!TurnsTyped'
    BY TurnsFacts, <1>1, <1>4 DEF Turns!TurnsTyped, Turn
  <1>6. Turns!Lane(intake', turns', Turns!InIntake, Turns!TakenIn)
    <2>1. Turns!Lane(intake, turns, Turns!InIntake, Turns!TakenIn)
      BY DEF Turns!TurnsInv, Turns!Lanes
    <2>2. turns'[c].at \notin Turns!InIntake
      BY <1>2, <1>4
    <2>q. QED  BY <1>1, <1>4, <2>1, <2>2, LaneLeft, LanesSets
  <1>7. Turns!Lane(speech', turns', Turns!InLane, {"speaking"})
    BY <1>1, <1>4, SpeechLaneStays DEF Turns!InLane
  <1>8. Turns!Speaks'
    <2>1. SameSpeech
      BY <1>1, <1>4 DEF SameSpeech, Moved
    <2>q. QED  BY <1>1, <2>1, SpeechStays
  <1>9. Turns!IsWritten'
    BY <1>1, <1>4, WritingMoves DEF Turns!Begun
  <1>10. Turns!Newest'
    <2>1. \A d \in Calls : turns'[d].aborted = turns[d].aborted
      BY <1>4 DEF Moved
    <2> SUFFICES ASSUME NEW d \in Calls
                 PROVE  /\ turns'[d].at \in {"responding", "uttering", "queued", "speaking"}
                           /\ ~turns'[d].aborted => active'[ChannelOf[d]] = d
                        /\ turns'[d].at = "replacing" =>
                             LET a == active'[ChannelOf[d]] IN a = Nothing \/ turns'[a].aborted
                        /\ turns'[d].at \in {"uttering", "queued", "speaking"} => turns'[d].left >= 1
      BY DEF Turns!Newest
    <2>2. CASE d = c
      BY TurnsFacts, <1>1, <1>4, <2>2
    <2>3. CASE d # c
      <3>1. turns'[d] = turns[d]
        BY <1>4, <2>3 DEF Moved
      <3>2. CASE ChannelOf[d] # ChannelOf[c]
        <4>1. active'[ChannelOf[d]] = active[ChannelOf[d]]
          BY TurnsFacts, <1>1, <3>2
        <4>2. active[ChannelOf[d]] = Nothing \/ active[ChannelOf[d]] \in Calls
          BY TurnsFacts
        <4>q. QED  BY <2>1, <3>1, <4>1, <4>2 DEF Turns!TurnsInv, Turns!Newest
      <3>3. CASE ChannelOf[d] = ChannelOf[c]
        <4>1. active[ChannelOf[c]] = Nothing \/ turns[active[ChannelOf[c]]].aborted
          BY <1>1 DEF Turns!TurnsInv, Turns!Newest
        <4>2. turns[d].at \in {"responding", "uttering", "queued", "speaking"} => turns[d].aborted
          BY <3>3, <4>1, TurnsFacts DEF Turns!TurnsInv, Turns!Newest
        <4>3. turns[d].at # "replacing"
          <5>1. c # d /\ Turns!Lane(intake, turns, Turns!InIntake, Turns!TakenIn) /\ intake[1] = c
            BY <1>1, <2>3 DEF Turns!TurnsInv, Turns!Lanes, Turns!First
          <5>q. QED  BY <5>1 DEF Turns!Lane, Turns!TakenIn
        <4>q. QED  BY <3>1, <4>2, <4>3 DEF Turns!TurnsInv, Turns!Newest
      <3>q. QED  BY <3>2, <3>3
    <2>q. QED  BY <2>2, <2>3
  <1>q. QED  BY <1>5, <1>6, <1>7, <1>8, <1>9, <1>10 DEF Turns!TurnsInv, Turns!Lanes

LEMMA EndsAreOver ==
    ASSUME NEW c, NEW how \in {"completed", "failed", "interrupted"}
    PROVE  /\ Turns!EndOf(c, how) \in Turns!Over /\ how \in Turns!Over
           /\ "interrupted" \in Turns!Over
  BY DEF Turns!EndOf, Turns!Over

LEMMA OverIsOut ==
    \A at \in Turns!Over : at \in Turns!Places /\ at \notin Turns!InIntake /\ at \notin Turns!InLane /\ ~Runs(at)
                           /\ at # "speaking" /\ at # "replacing"
  BY DEF Turns!Over, Turns!Places, Turns!InIntake, Turns!InLane, Runs

\* A turn ends before it speaks, and it was in no lane.
LEMMA SpeechEndKeeps ==
    ASSUME TurnsAssumption, Turns!TurnsInv, NEW c \in Calls, NEW how \in Turns!Over,
           Turns!Leave(c, how),
           turns[c].at = "responding", UNCHANGED <<transcript, intake, speech, captions>>
    PROVE  Turns!TurnsInv'
  <1>1. /\ turns' = [turns EXCEPT ![c].at = how]
        /\ active' = [active EXCEPT ![ChannelOf[c]] = IF @ = c THEN Nothing ELSE @]
    BY DEF Turns!Leave
  <1>2. how \in Turns!Places /\ how \notin Turns!InIntake
        /\ how \notin Turns!InLane /\ how # "speaking"
    BY OverIsOut
  <1>3. Moved(turns, turns', c, how, turns[c].left)
    BY TurnsFacts, <1>1, <1>2, Moving
  <1>4. turns' \in [Calls -> Turn] /\ turns'[c].at = how
        /\ Moved(turns, turns', c, turns'[c].at, turns'[c].left)
    BY <1>3 DEF Moved
  <1>5. Turns!Newest' /\ active' \in [Turns!ChannelsUsed -> Calls \cup {Nothing}]
    BY <1>1, <1>4, NewestLeaves
  <1>6. Turns!TurnsTyped'
    BY TurnsFacts, <1>4, <1>5 DEF Turns!TurnsTyped, Turn
  <1>7. Turns!Lane(intake', turns', Turns!InIntake, Turns!TakenIn)
    BY <1>2, <1>4, IntakeStays DEF Turns!InIntake
  <1>8. Turns!Lane(speech', turns', Turns!InLane, {"speaking"})
    BY <1>2, <1>4, SpeechLaneStays DEF Turns!InLane
  <1>9. Turns!Speaks'
    <2>1. SameSpeech
      BY <1>2, <1>4 DEF SameSpeech, Moved
    <2>q. QED  BY <2>1, SpeechStays
  <1>10. Turns!IsWritten'
    <2>1. Turns!Begun(c)
      BY DEF Turns!Begun
    <2>2. turns'[c].at \notin {"queued", "speaking"}
      BY <1>2, <1>4 DEF Turns!InLane
    <2>q. QED  BY <1>4, <2>1, <2>2, WritingMoves
  <1>q. QED  BY <1>5, <1>6, <1>7, <1>8, <1>9, <1>10 DEF Turns!TurnsInv, Turns!Lanes

LEMMA RespondKeeps ==
    ASSUME TurnsAssumption, Turns!TurnsInv, NEW c \in Calls, NEW n \in 0..MaxUtterances,
           Turns!Respond(c, n)
    PROVE  Turns!TurnsInv'
  <1>1. turns[c].at = "responding" /\ UNCHANGED <<transcript, intake, speech, captions>>
    BY DEF Turns!Respond
  <1>2. CASE turns[c].aborted \/ n = 0
    <2> PICK how \in Turns!Over : how = Turns!EndOf(c, "completed")
      BY EndsAreOver
    <2>1. Turns!Leave(c, how)
      BY <1>2 DEF Turns!Respond
    <2>q. QED  BY <1>1, <2>1, SpeechEndKeeps
  <1>3. CASE ~(turns[c].aborted \/ n = 0)
    <2>1. /\ turns' = [turns EXCEPT ![c].at = "uttering", ![c].left = n] /\ active' = active
      BY <1>3 DEF Turns!Respond
    <2>2. "uttering" \in Turns!Places /\ "uttering" \notin Turns!InIntake
    /\ "uttering" \notin Turns!InLane
      BY DEF Turns!Places, Turns!InIntake, Turns!InLane
    <2>3. Moved(turns, turns', c, "uttering", n)
      BY TurnsFacts, <2>1, <2>2, MovingLeft
    <2>4. turns' \in [Calls -> Turn] /\ turns'[c].at = "uttering" /\ turns'[c].left = n /\ n >= 1
          /\ Moved(turns, turns', c, turns'[c].at, turns'[c].left)
      BY TurnsFacts, <1>3, <2>3 DEF Moved
    <2>5. Turns!TurnsTyped'
      BY TurnsFacts, <1>1, <2>1, <2>4 DEF Turns!TurnsTyped, Turn
    <2>6. Turns!Lane(intake', turns', Turns!InIntake, Turns!TakenIn)
      BY <1>1, <2>2, <2>4, IntakeStays DEF Turns!InIntake
    <2>7. Turns!Lane(speech', turns', Turns!InLane, {"speaking"})
      BY <1>1, <2>2, <2>4, SpeechLaneStays DEF Turns!InLane
    <2>8. Turns!Speaks'
      <3>1. SameSpeech
        BY <1>1, <2>4 DEF SameSpeech, Moved
      <3>q. QED  BY <1>1, <3>1, SpeechStays
    <2>9. Turns!IsWritten'
      BY <1>1, <2>4, WritingMoves DEF Turns!Begun
    <2>10. Turns!Newest'
      BY <1>1, <2>1, <2>4, NewestStays DEF Runs
    <2>q. QED  BY <2>5, <2>6, <2>7, <2>8, <2>9, <2>10 DEF Turns!TurnsInv, Turns!Lanes
  <1>q. QED  BY <1>2, <1>3

LEMMA RespondFailsKeeps ==
    ASSUME TurnsAssumption, Turns!TurnsInv, NEW c \in Calls,
           Turns!RespondFails(c) PROVE Turns!TurnsInv'
  <1> PICK how \in Turns!Over : how = Turns!EndOf(c, "failed")
    BY EndsAreOver
  <1>1. /\ turns[c].at = "responding" /\ UNCHANGED <<transcript, intake, speech, captions>>
        /\ Turns!Leave(c, how)
    BY DEF Turns!RespondFails
  <1>q. QED  BY <1>1, SpeechEndKeeps

LEMMA TurnUtterKeeps ==
    ASSUME TurnsAssumption, Turns!TurnsInv, NEW c \in Calls, Turns!Utter(c) PROVE Turns!TurnsInv'
  <1> PICK ch \in Turns!ChannelsUsed : ch = ChannelOf[c]
    BY TurnsFacts
  <1> PICK e \in Turns!Entries : e = Turns!Said(c)
    <2>1. turns[c].left \in Nat
      BY TurnsFacts DEF Turn
    <2>q. QED  BY <2>1 DEF Turns!Said, Turns!Entries
  <1>1. /\ turns[c].at = "uttering" /\ UNCHANGED <<intake, active, captions>>
        /\ transcript' = [transcript EXCEPT ![ch] = @ \cup {e}]
        /\ turns' = [turns EXCEPT ![c].at = "queued"] /\ speech' = Append(speech, c)
    BY DEF Turns!Utter
  <1>2. "queued" \in Turns!Places /\ "queued" \notin Turns!InIntake /\ "queued" \in Turns!InLane
    BY DEF Turns!Places, Turns!InIntake, Turns!InLane
  <1>3. Moved(turns, turns', c, "queued", turns[c].left)
    BY TurnsFacts, <1>1, <1>2, Moving
  <1>4. turns' \in [Calls -> Turn] /\ turns'[c].at = "queued" /\ turns'[c].left = turns[c].left
        /\ Moved(turns, turns', c, turns'[c].at, turns'[c].left)
    BY <1>3 DEF Moved
  <1>t. /\ transcript' \in [Turns!ChannelsUsed -> SUBSET Turns!Entries]
        /\ transcript'[ch] = transcript[ch] \cup {e}
        /\ \A x \in Turns!ChannelsUsed : transcript[x] \subseteq transcript'[x]
    BY TurnsFacts, <1>1
  <1>5. Turns!TurnsTyped'
    BY TurnsFacts, <1>1, <1>4, <1>t DEF Turns!TurnsTyped, Turn
  <1>6. Turns!Lane(intake', turns', Turns!InIntake, Turns!TakenIn)
    BY <1>1, <1>2, <1>4, IntakeStays DEF Turns!InIntake
  <1>7. Turns!Lane(speech', turns', Turns!InLane, {"speaking"})
    <2>1. Turns!Lane(speech, turns, Turns!InLane, {"speaking"}) /\ turns[c].at \notin Turns!InLane
      BY <1>1 DEF Turns!TurnsInv, Turns!Lanes, Turns!InLane
    <2>2. turns'[c].at \in Turns!InLane \ {"speaking"}
      BY <1>2, <1>4
    <2>q. QED  BY <1>1, <1>4, <2>1, <2>2, LaneJoined, LanesSets
  <1>8. Turns!Speaks'
    <2>1. SameSpeech
      BY <1>1, <1>4 DEF SameSpeech, Moved
    <2>q. QED  BY <1>1, <2>1, SpeechStays
  <1>9. Turns!IsWritten'
    <2>1. Grows
      BY TurnsFacts, <1>t DEF Grows
    <2>2. ASSUME NEW d \in Calls
          PROVE  /\ Turns!Begun(d)' => Turns!Begun(d)
                 /\ turns'[d].at \in {"queued", "speaking"} => Turns!Said(d)' \in transcript'[ChannelOf[d]]
      <3>1. CASE d = c
        BY <1>1, <1>4, <1>t, <3>1 DEF Turns!Begun, Turns!Said
      <3>2. CASE d # c
        <4>1. turns'[d] = turns[d]
          BY <1>4, <3>2 DEF Moved
        <4>q. QED  BY <2>1, <4>1 DEF Turns!TurnsInv, Turns!IsWritten, Turns!Said, Turns!Begun, Grows
      <3>q. QED  BY <3>1, <3>2
    <2>q. QED  BY <1>1, <2>1, <2>2, WritingStays
  <1>10. Turns!Newest'
    <2>1. turns'[c].left >= 1
      BY <1>1, <1>4 DEF Turns!TurnsInv, Turns!Newest
    <2>q. QED  BY <1>1, <1>4, <2>1, NewestStays DEF Runs
  <1>q. QED  BY <1>5, <1>6, <1>7, <1>8, <1>9, <1>10 DEF Turns!TurnsInv, Turns!Lanes

-----------------------------------------------------------------------------
\* The floor.  A caption is added for the head of the lane.
LEMMA CaptionAdded ==
    ASSUME captions \in Seq(Turns!Captions), NEW x \in Turns!Captions,
           captions' = Append(captions, x)
    PROVE  /\ captions' \in Seq(Turns!Captions) /\ Len(captions) \in Nat /\ captions' # <<>>
           /\ Len(captions') = Len(captions) + 1 /\ captions'[Len(captions) + 1] = x
           /\ DOMAIN captions = 1..Len(captions) /\ DOMAIN captions' = 1..(Len(captions) + 1)
           /\ \A i \in DOMAIN captions : captions'[i] = captions[i]
  <1> HIDE DEF Turns!Captions
  <1>q. QED  OBVIOUS

Statuses == {"started", "completed", "interrupted", "failed"}
LEMMA CaptionIs ==
    ASSUME TurnsAssumption, Turns!TurnsInv, NEW c \in Calls, NEW told \in Statuses
    PROVE  /\ Turns!Caption(c, told) \in Turns!Captions /\ Turns!Caption(c, told).call = c
           /\ Turns!Caption(c, told).said = Turns!Said(c) /\ Turns!Caption(c, told).status = told
  <1>1. Turns!Said(c) \in Turns!Entries
    <2>1. turns[c].left \in Nat
      BY TurnsFacts DEF Turn
    <2>q. QED  BY <2>1 DEF Turns!Said, Turns!Entries
  <1>q. QED  BY <1>1 DEF Turns!Caption, Turns!Captions, Statuses

\* Nobody speaks while the head of the lane has not begun.
LEMMA FloorIsFree ==
    ASSUME TurnsAssumption, Turns!TurnsInv, NEW c \in Calls, Turns!First(c, speech),
           turns[c].at # "speaking"
    PROVE  /\ \A d \in Calls : turns[d].at # "speaking"
           /\ captions # <<>> => ~Turns!Starts(Len(captions))
  <1>1. \A d \in Calls : turns[d].at # "speaking"
    BY DEF Turns!TurnsInv, Turns!Lanes, Turns!Lane, Turns!First
  <1>2. ASSUME captions # <<>> PROVE ~Turns!Starts(Len(captions))
    <2>1. Len(captions) \in DOMAIN captions
      <3>1. captions \in Seq(Turns!Captions)
        BY TurnsFacts
      <3> HIDE DEF Turns!Captions
      <3>q. QED  BY <1>2, <3>1
    <2>2. captions[Len(captions)].call \in Calls
      BY <2>1, TurnsFacts, CaptionsTyped
    <2>q. QED  BY <1>1, <2>1, <2>2 DEF Turns!TurnsInv, Turns!Speaks, Turns!OneVoice
  <1>q. QED  BY <1>1, <1>2

LEMMA SpeechOpens ==
    ASSUME TurnsAssumption, Turns!TurnsInv, NEW c \in Calls, Turns!First(c, speech),
           turns[c].at = "queued",
           captions' = Append(captions, Turns!Caption(c, "started")),
           Moved(turns, turns', c, "speaking", turns[c].left)
    PROVE  Turns!Speaks'
  <1> PICK x \in Turns!Captions : x = Turns!Caption(c, "started")
    BY CaptionIs DEF Statuses
  <1>1. x.call = c /\ x.said = Turns!Said(c) /\ x.status = "started"
    BY CaptionIs DEF Statuses
  <1> PICK n : n = Len(captions)
    OBVIOUS
  <1>2. /\ captions' # <<>> /\ n \in Nat /\ Len(captions') = n + 1 /\ captions'[n + 1] = x
        /\ DOMAIN captions = 1..n /\ DOMAIN captions' = 1..(n + 1)
        /\ \A i \in DOMAIN captions : captions'[i] = captions[i]
    BY TurnsFacts, CaptionAdded
  <1>3. n >= 1 => captions[n].status # "started"
    <2>1. captions # <<>> => ~Turns!Starts(n)
      BY FloorIsFree
    <2>2. n >= 1 => captions # <<>>
      OBVIOUS
    <2>q. QED  BY <2>1, <2>2 DEF Turns!Starts
  <1>4. turns'[c].at = "speaking" /\ turns'[c].left = turns[c].left
    BY DEF Moved
  <1>5. Turns!OneVoice'
    <2> SUFFICES ASSUME NEW i \in DOMAIN captions'
                 PROVE  IF Turns!Starts(i)'
                        THEN /\ i > 1 => ~Turns!Starts(i - 1)'
                             /\ i = Len(captions)' => turns'[captions'[i].call].at = "speaking"
                        ELSE i > 1 /\ Turns!Starts(i - 1)'
                        /\ captions'[i].said = captions'[i - 1].said
      BY DEF Turns!OneVoice, Turns!Starts
    <2>1. CASE i = n + 1
      <3>1. n >= 1 => captions'[n] = captions[n]
        BY <1>2
      <3>q. QED  BY <1>1, <1>2, <1>3, <1>4, <2>1, <3>1 DEF Turns!Starts
    <2>2. CASE i \in DOMAIN captions
      <3>1. IF Turns!Starts(i)
            THEN /\ i > 1 => ~Turns!Starts(i - 1)
                 /\ i = n => turns[captions[i].call].at = "speaking"
            ELSE i > 1 /\ Turns!Starts(i - 1) /\ captions[i].said = captions[i - 1].said
        BY <2>2 DEF Turns!TurnsInv, Turns!Speaks, Turns!OneVoice
      <3>2. i > 1 => i - 1 \in DOMAIN captions
        BY <1>2, <2>2
      <3>3. (Turns!Starts(i)' <=> Turns!Starts(i)) /\ (i > 1 => (Turns!Starts(i - 1)' <=> Turns!Starts(i - 1)))
        BY <1>2, <2>2, <3>2 DEF Turns!Starts
      <3>4. i # Len(captions)'
        BY <1>2, <2>2
      <3>q. QED  BY <1>2, <2>2, <3>1, <3>2, <3>3, <3>4
    <2>q. QED  BY <1>2, <2>1, <2>2
  <1>6. ASSUME NEW d \in Calls, turns'[d].at = "speaking" PROVE Turns!Opens(d)'
    <2>1. d = c
      BY <1>6, FloorIsFree DEF Moved
    <2>q. QED  BY <1>1, <1>2, <1>4, <2>1 DEF Turns!Opens, Turns!Starts, Turns!Said
  <1>q. QED  BY <1>5, <1>6 DEF Turns!Speaks

LEMMA SpeechCloses ==
    ASSUME TurnsAssumption, Turns!TurnsInv, NEW c \in Calls, Turns!First(c, speech),
           turns[c].at = "speaking",
           NEW how \in Statuses \ {"started"},
           captions' = Append(captions, Turns!Caption(c, how)),
           Moved(turns, turns', c, turns'[c].at, turns'[c].left), turns'[c].at # "speaking"
    PROVE  Turns!Speaks'
  <1> PICK x \in Turns!Captions : x = Turns!Caption(c, how)
    BY CaptionIs
  <1>1. x.call = c /\ x.said = Turns!Said(c) /\ x.status = how
    BY CaptionIs
  <1> PICK n : n = Len(captions)
    OBVIOUS
  <1>2. /\ captions' # <<>> /\ n \in Nat /\ Len(captions') = n + 1 /\ captions'[n + 1] = x
        /\ DOMAIN captions = 1..n /\ DOMAIN captions' = 1..(n + 1)
        /\ \A i \in DOMAIN captions : captions'[i] = captions[i]
    BY TurnsFacts, CaptionAdded
  <1>3. n >= 1 /\ captions[n].status = "started" /\ captions[n].said = Turns!Said(c)
    <2>1. Turns!Opens(c)
      BY DEF Turns!TurnsInv, Turns!Speaks
    <2>2. captions \in Seq(Turns!Captions)
      BY TurnsFacts
    <2>3. captions # <<>> => n >= 1
      <3> HIDE DEF Turns!Captions
      <3>q. QED  BY <2>2
    <2>q. QED  BY <2>1, <2>3 DEF Turns!Opens, Turns!Starts
  <1>4. Turns!OneVoice'
    <2> SUFFICES ASSUME NEW i \in DOMAIN captions'
                 PROVE  IF Turns!Starts(i)'
                        THEN /\ i > 1 => ~Turns!Starts(i - 1)'
                             /\ i = Len(captions)' => turns'[captions'[i].call].at = "speaking"
                        ELSE i > 1 /\ Turns!Starts(i - 1)'
                        /\ captions'[i].said = captions'[i - 1].said
      BY DEF Turns!OneVoice, Turns!Starts
    <2>1. CASE i = n + 1
      <3>1. captions'[n] = captions[n] /\ i > 1 /\ i - 1 = n
        BY <1>2, <1>3, <2>1
      <3>q. QED  BY <1>1, <1>2, <1>3, <2>1, <3>1 DEF Turns!Starts
    <2>2. CASE i \in DOMAIN captions
      <3>1. IF Turns!Starts(i)
            THEN /\ i > 1 => ~Turns!Starts(i - 1)
                 /\ i = n => turns[captions[i].call].at = "speaking"
            ELSE i > 1 /\ Turns!Starts(i - 1) /\ captions[i].said = captions[i - 1].said
        BY <2>2 DEF Turns!TurnsInv, Turns!Speaks, Turns!OneVoice
      <3>2. i > 1 => i - 1 \in DOMAIN captions
        BY <1>2, <2>2
      <3>3. (Turns!Starts(i)' <=> Turns!Starts(i)) /\ (i > 1 => (Turns!Starts(i - 1)' <=> Turns!Starts(i - 1)))
        BY <1>2, <2>2, <3>2 DEF Turns!Starts
      <3>4. i # Len(captions)'
        BY <1>2, <2>2
      <3>q. QED  BY <1>2, <2>2, <3>1, <3>2, <3>3, <3>4
    <2>q. QED  BY <1>2, <2>1, <2>2
  <1>5. ASSUME NEW d \in Calls PROVE turns'[d].at # "speaking"
    <2>1. d # c => turns[d].at # "speaking"
      BY DEF Turns!TurnsInv, Turns!Lanes, Turns!Lane, Turns!First
    <2>q. QED  BY <2>1 DEF Moved
  <1>q. QED  BY <1>4, <1>5 DEF Turns!Speaks

\* What is captioned was written down.
LEMMA WritingCaptions ==
    ASSUME TurnsAssumption, Turns!TurnsInv, transcript' = transcript, NEW c \in Calls,
           turns[c].at \in {"queued", "speaking"}, NEW told \in Statuses,
           captions' = Append(captions, Turns!Caption(c, told)),
           Moved(turns, turns', c, turns'[c].at, turns'[c].left),
           turns'[c].at \in {"queued", "speaking"} => turns'[c].left = turns[c].left
    PROVE  Turns!IsWritten'
  <1> PICK x \in Turns!Captions : x = Turns!Caption(c, told)
    BY CaptionIs
  <1>1. x.call = c /\ x.said = Turns!Said(c) /\ Turns!Said(c) \in transcript[ChannelOf[c]]
    BY CaptionIs DEF Turns!TurnsInv, Turns!IsWritten
  <1> PICK n : n = Len(captions)
    OBVIOUS
  <1>2. /\ n \in Nat /\ captions'[n + 1] = x
        /\ DOMAIN captions = 1..n /\ DOMAIN captions' = 1..(n + 1)
        /\ \A i \in DOMAIN captions : captions'[i] = captions[i]
    BY TurnsFacts, CaptionAdded
  <1>3. ASSUME NEW i \in DOMAIN captions'
        PROVE  captions'[i].said \in transcript[ChannelOf[captions'[i].call]]
    <2>1. CASE i = n + 1
      BY <1>1, <1>2, <2>1
    <2>2. CASE i \in DOMAIN captions
      BY <1>2, <2>2 DEF Turns!TurnsInv, Turns!IsWritten, Turns!HeardIsWritten
    <2>q. QED  BY <1>2, <2>1, <2>2
  <1>4. ASSUME NEW d \in Calls
        PROVE  /\ Turns!Begun(d)' => Turns!Begun(d)
               /\ turns'[d].at \in {"queued", "speaking"} => Turns!Said(d)' \in transcript[ChannelOf[d]]
    <2>1. CASE d = c
      BY <1>1, <2>1 DEF Turns!Said, Turns!Begun
    <2>2. CASE d # c
      <3>1. turns'[d] = turns[d]
        BY <2>2 DEF Moved
      <3>q. QED  BY <3>1 DEF Turns!TurnsInv, Turns!IsWritten, Turns!Said, Turns!Begun
    <2>q. QED  BY <2>1, <2>2
  <1>5. \A x1, y1 \in Calls : Turns!Begun(x1)' /\ Turns!Begun(y1)' /\ ChannelOf[x1] = ChannelOf[y1]
                            /\ InputOf[x1] = InputOf[y1] => x1 = y1
    BY <1>4 DEF Turns!TurnsInv, Turns!IsWritten, Turns!HeardIsWritten
  <1>6. \A d \in Calls : Turns!Begun(d)' => Turns!Heard(d) \in transcript[ChannelOf[d]]
    BY <1>4 DEF Turns!TurnsInv, Turns!IsWritten
  <1>q. QED  BY <1>3, <1>4, <1>5, <1>6 DEF Turns!IsWritten, Turns!HeardIsWritten, Turns!Heard

\* The head of the lane leaves it for good.
LEMMA HeadLeaves ==
    ASSUME TurnsAssumption, Turns!TurnsInv, NEW c \in Calls, NEW how \in Turns!Over,
           Turns!Leave(c, how),
           Turns!First(c, speech), turns[c].at \in Turns!InLane, speech' = Tail(speech),
           UNCHANGED <<transcript, intake>>, captions' \in Seq(Turns!Captions)
    PROVE  /\ Turns!TurnsTyped' /\ Turns!Lanes' /\ Turns!Newest'
           /\ turns' \in [Calls -> Turn] /\ turns'[c].at = how
           /\ Moved(turns, turns', c, turns'[c].at, turns'[c].left)
  <1>1. /\ turns' = [turns EXCEPT ![c].at = how]
        /\ active' = [active EXCEPT ![ChannelOf[c]] = IF @ = c THEN Nothing ELSE @]
    BY DEF Turns!Leave
  <1>2. how \in Turns!Places /\ how \notin Turns!InIntake
        /\ how \notin Turns!InLane /\ how # "speaking"
    BY OverIsOut
  <1>3. Moved(turns, turns', c, how, turns[c].left)
    BY TurnsFacts, <1>1, <1>2, Moving
  <1>4. turns' \in [Calls -> Turn] /\ turns'[c].at = how
        /\ Moved(turns, turns', c, turns'[c].at, turns'[c].left)
    BY <1>3 DEF Moved
  <1>5. Turns!Newest' /\ active' \in [Turns!ChannelsUsed -> Calls \cup {Nothing}]
    BY <1>1, <1>4, NewestLeaves
  <1>6. Turns!TurnsTyped'
    BY TurnsFacts, <1>4, <1>5 DEF Turns!TurnsTyped, Turn
  <1>7. Turns!Lane(intake', turns', Turns!InIntake, Turns!TakenIn)
    BY <1>2, <1>4, IntakeStays DEF Turns!InIntake, Turns!InLane
  <1>8. Turns!Lane(speech', turns', Turns!InLane, {"speaking"})
    <2>1. Turns!Lane(speech, turns, Turns!InLane, {"speaking"})
      BY DEF Turns!TurnsInv, Turns!Lanes
    <2>2. turns'[c].at \notin Turns!InLane
      BY <1>2, <1>4
    <2>q. QED  BY <1>4, <2>1, <2>2, LaneLeft, LanesSets
  <1>q. QED  BY <1>4, <1>5, <1>6, <1>7, <1>8 DEF Turns!Lanes

LEMMA StartSpeechKeeps ==
    ASSUME TurnsAssumption, Turns!TurnsInv, NEW c \in Calls, NEW yes \in BOOLEAN,
           Turns!StartSpeech(c, yes)
    PROVE  Turns!TurnsInv'
  <1>1. Turns!First(c, speech) /\ turns[c].at = "queued" /\ UNCHANGED <<transcript, intake>>
    BY DEF Turns!StartSpeech
  <1>2. CASE turns[c].aborted
    <2>1. Turns!Leave(c, "interrupted") /\ speech' = Tail(speech) /\ UNCHANGED captions
      BY <1>2 DEF Turns!StartSpeech
    <2>2. "interrupted" \in Turns!Over
      BY DEF Turns!Over
    <2>3. turns[c].at \in Turns!InLane
      BY <1>1 DEF Turns!InLane
    <2>4. captions' \in Seq(Turns!Captions)
      BY TurnsFacts, <2>1
    <2>5. /\ Turns!TurnsTyped' /\ Turns!Lanes' /\ Turns!Newest' /\ turns'[c].at = "interrupted"
          /\ Moved(turns, turns', c, turns'[c].at, turns'[c].left)
      BY <1>1, <2>1, <2>2, <2>3, <2>4, HeadLeaves
    <2>6. Turns!Speaks'
      <3>1. SameSpeech
        BY <1>1, <2>5 DEF SameSpeech, Moved
      <3>q. QED  BY <2>1, <3>1, SpeechStays
    <2>7. Turns!IsWritten'
      BY <1>1, <2>1, <2>5, WritingMoves DEF Turns!Begun
    <2>q. QED  BY <2>5, <2>6, <2>7 DEF Turns!TurnsInv
  <1>3. CASE ~turns[c].aborted
    <2>1. /\ captions' = Append(captions, Turns!Caption(c, "started"))
          /\ turns' = [turns EXCEPT ![c].at = "speaking"] /\ UNCHANGED <<active, speech>>
      BY <1>3 DEF Turns!StartSpeech
    <2>2. "speaking" \in Turns!Places /\ "speaking" \notin Turns!InIntake
    /\ "speaking" \in Turns!InLane
      BY DEF Turns!Places, Turns!InIntake, Turns!InLane
    <2>3. Moved(turns, turns', c, "speaking", turns[c].left)
      BY TurnsFacts, <2>1, <2>2, Moving
    <2>4. turns' \in [Calls -> Turn] /\ turns'[c].at = "speaking" /\ turns'[c].left = turns[c].left
          /\ Moved(turns, turns', c, turns'[c].at, turns'[c].left)
      BY <2>3 DEF Moved
    <2>5. "started" \in Statuses
      BY DEF Statuses
    <2>6. Turns!TurnsTyped'
      <3>1. captions' \in Seq(Turns!Captions)
        <4> PICK x \in Turns!Captions : x = Turns!Caption(c, "started")
          BY <2>5, CaptionIs
        <4>q. QED  BY TurnsFacts, <2>1, CaptionAdded
      <3>q. QED  BY TurnsFacts, <1>1, <2>1, <2>4, <3>1 DEF Turns!TurnsTyped, Turn
    <2>7. Turns!Lane(intake', turns', Turns!InIntake, Turns!TakenIn)
      BY <1>1, <2>2, <2>4, IntakeStays DEF Turns!InIntake
    <2>8. Turns!Lane(speech', turns', Turns!InLane, {"speaking"})
      <3>1. Turns!Lane(speech, turns, Turns!InLane, {"speaking"}) /\ turns[c].at \in Turns!InLane
        BY <1>1 DEF Turns!TurnsInv, Turns!Lanes, Turns!InLane
      <3>2. speech # <<>> /\ speech[1] = c
        BY <1>1 DEF Turns!First
      <3>3. turns[c].at \in Turns!InLane <=> turns'[c].at \in Turns!InLane
        BY <2>2, <2>4, <3>1
      <3>4. Turns!Lane(speech, turns', Turns!InLane, {"speaking"})
        BY <2>4, <3>1, <3>2, <3>3, LaneStays, LanesSets
      <3>q. QED  BY <2>1, <3>4
    <2>9. Turns!Speaks'
      BY <1>1, <2>1, <2>3, SpeechOpens
    <2>10. Turns!IsWritten'
      BY <1>1, <2>1, <2>4, <2>5, WritingCaptions
    <2>11. Turns!Newest'
      <3>1. turns'[c].left >= 1
        BY <1>1, <2>4 DEF Turns!TurnsInv, Turns!Newest
      <3>q. QED  BY <1>1, <2>1, <2>4, <3>1, NewestStays DEF Runs
    <2>q. QED  BY <2>6, <2>7, <2>8, <2>9, <2>10, <2>11 DEF Turns!TurnsInv, Turns!Lanes
  <1>q. QED  BY <1>2, <1>3

LEMMA StartFailsKeeps ==
    ASSUME TurnsAssumption, Turns!TurnsInv, NEW c \in Calls,
           Turns!StartFails(c) PROVE Turns!TurnsInv'
  <1>1. /\ Turns!First(c, speech) /\ turns[c].at = "queued"
        /\ Turns!Leave(c, "failed") /\ speech' = Tail(speech)
        /\ UNCHANGED <<transcript, intake, captions>>
    BY DEF Turns!StartFails
  <1>2. "failed" \in Turns!Over /\ turns[c].at \in Turns!InLane
    BY <1>1 DEF Turns!Over, Turns!InLane
  <1>3. captions' \in Seq(Turns!Captions)
    BY TurnsFacts, <1>1
  <1>4. /\ Turns!TurnsTyped' /\ Turns!Lanes' /\ Turns!Newest' /\ turns'[c].at = "failed"
        /\ Moved(turns, turns', c, turns'[c].at, turns'[c].left)
    BY <1>1, <1>2, <1>3, HeadLeaves
  <1>5. Turns!Speaks'
    <2>1. SameSpeech
      BY <1>1, <1>4 DEF SameSpeech, Moved
    <2>q. QED  BY <1>1, <2>1, SpeechStays
  <1>6. Turns!IsWritten'
    BY <1>1, <1>4, WritingMoves DEF Turns!Begun
  <1>q. QED  BY <1>4, <1>5, <1>6 DEF Turns!TurnsInv

LEMMA EndSpeechKeeps ==
    ASSUME TurnsAssumption, Turns!TurnsInv, NEW c \in Calls, NEW works \in BOOLEAN,
           Turns!EndSpeech(c, works)
    PROVE  Turns!TurnsInv'
  <1> PICK cut : cut = (floor.aborted \/ (turns[c].aborted /\ floor.interruptible))
    OBVIOUS
  <1> PICK how : how = IF cut THEN "interrupted" ELSE IF works THEN "completed" ELSE "failed"
    OBVIOUS
  <1>1. /\ Turns!First(c, speech) /\ turns[c].at = "speaking" /\ UNCHANGED <<transcript, intake>>
        /\ captions' = Append(captions, Turns!Caption(c, how)) /\ speech' = Tail(speech)
        /\ IF cut \/ ~works \/ turns[c].aborted
           THEN Turns!Leave(c, IF cut \/ turns[c].aborted THEN "interrupted" ELSE "failed")
           ELSE IF turns[c].left = 1 THEN Turns!Leave(c, "completed")
           ELSE /\ turns' = [turns EXCEPT ![c].at = "uttering", ![c].left = @ - 1]
                /\ active' = active
    BY DEF Turns!EndSpeech
  <1>2. how \in Statuses \ {"started"} /\ how \in Statuses
    BY DEF Statuses
  <1>3. captions' \in Seq(Turns!Captions)
    <2> PICK x \in Turns!Captions : x = Turns!Caption(c, how)
      BY <1>2, CaptionIs
    <2>q. QED  BY TurnsFacts, <1>1, CaptionAdded
  <1>4. turns[c].at \in Turns!InLane
    BY <1>1 DEF Turns!InLane
  <1>5. ASSUME NEW stops \in Turns!Over, Turns!Leave(c, stops) PROVE Turns!TurnsInv'
    <2>1. /\ Turns!TurnsTyped' /\ Turns!Lanes' /\ Turns!Newest' /\ turns'[c].at = stops
          /\ Moved(turns, turns', c, turns'[c].at, turns'[c].left)
      BY <1>1, <1>3, <1>4, <1>5, HeadLeaves
    <2>2. turns'[c].at # "speaking" /\ turns'[c].at \notin {"queued", "speaking"}
      BY <2>1 DEF Turns!Over
    <2>3. Turns!Speaks'
      BY <1>1, <1>2, <2>1, <2>2, SpeechCloses
    <2>4. Turns!IsWritten'
      BY <1>1, <1>2, <2>1, <2>2, WritingCaptions
    <2>q. QED  BY <2>1, <2>3, <2>4 DEF Turns!TurnsInv
  <1>6. ASSUME turns' = [turns EXCEPT ![c].at = "uttering", ![c].left = @ - 1], active' = active,
               turns[c].left # 1
        PROVE  Turns!TurnsInv'
    <2> PICK n \in 0..MaxUtterances : n = turns[c].left - 1 /\ n >= 1
      BY <1>1, <1>6, TurnsFacts DEF Turns!TurnsInv, Turns!Newest, Turn
    <2>1. turns' = [turns EXCEPT ![c].at = "uttering", ![c].left = n]
      BY <1>6
    <2>2. "uttering" \in Turns!Places /\ "uttering" \notin Turns!InIntake
    /\ "uttering" \notin Turns!InLane
      BY DEF Turns!Places, Turns!InIntake, Turns!InLane
    <2>3. Moved(turns, turns', c, "uttering", n)
      BY TurnsFacts, <2>1, <2>2, MovingLeft
    <2>4. turns' \in [Calls -> Turn] /\ turns'[c].at = "uttering" /\ turns'[c].left = n
          /\ Moved(turns, turns', c, turns'[c].at, turns'[c].left)
      BY <2>3 DEF Moved
    <2>5. Turns!TurnsTyped'
      BY TurnsFacts, <1>1, <1>3, <1>6, <2>4 DEF Turns!TurnsTyped, Turn
    <2>6. Turns!Lane(intake', turns', Turns!InIntake, Turns!TakenIn)
      BY <1>1, <2>2, <2>4, IntakeStays DEF Turns!InIntake
    <2>7. Turns!Lane(speech', turns', Turns!InLane, {"speaking"})
      <3>1. Turns!Lane(speech, turns, Turns!InLane, {"speaking"})
            /\ turns'[c].at \notin Turns!InLane
        BY <2>2, <2>4 DEF Turns!TurnsInv, Turns!Lanes
      <3>q. QED  BY <1>1, <2>4, <3>1, LaneLeft, LanesSets
    <2>8. turns'[c].at # "speaking" /\ turns'[c].at \notin {"queued", "speaking"}
      BY <2>4
    <2>9. Turns!Speaks'
      BY <1>1, <1>2, <2>4, <2>8, SpeechCloses
    <2>10. Turns!IsWritten'
      BY <1>1, <1>2, <2>4, <2>8, WritingCaptions
    <2>11. Turns!Newest'
      BY <1>1, <1>6, <2>4, NewestStays DEF Runs
    <2>q. QED  BY <2>5, <2>6, <2>7, <2>9, <2>10, <2>11 DEF Turns!TurnsInv, Turns!Lanes
  <1>7. "interrupted" \in Turns!Over /\ "failed" \in Turns!Over /\ "completed" \in Turns!Over
    BY DEF Turns!Over
  <1>q. QED  BY <1>1, <1>5, <1>6, <1>7

LEMMA InterruptKeeps ==
    ASSUME TurnsAssumption, Turns!TurnsInv, Turns!Interrupt PROVE Turns!TurnsInv'
  <1> PICK who : who = {active[ch] : ch \in Turns!ChannelsUsed} \ {Nothing}
    OBVIOUS
  <1>1. /\ UNCHANGED <<transcript, intake, active, speech, captions>>
        /\ turns' = [c \in Calls |-> IF c \in who THEN [turns[c] EXCEPT !.aborted = TRUE] ELSE turns[c]]
    BY DEF Turns!Interrupt
  <1>2. /\ turns' \in [Calls -> Turn]
        /\ \A d \in Calls : /\ turns'[d].left = turns[d].left /\ turns'[d].at = turns[d].at
                            /\ turns[d].aborted => turns'[d].aborted
    <2> PICK f \in [Calls -> Turn] : f = turns
      BY TurnsFacts
    <2> PICK g : g = [c \in Calls |-> IF c \in who THEN [f[c] EXCEPT !.aborted = TRUE] ELSE f[c]]
      OBVIOUS
    <2>1. /\ g \in [Calls -> Turn]
          /\ \A d \in Calls : /\ g[d].left = f[d].left /\ g[d].at = f[d].at
                              /\ g[d].aborted = (f[d].aborted \/ d \in who)
      <3>1. ASSUME NEW d \in Calls
            PROVE  /\ g[d] \in Turn /\ g[d].left = f[d].left /\ g[d].at = f[d].at
                   /\ g[d].aborted = (f[d].aborted \/ d \in who)
        <4> PICK x \in Turn : x = f[d]
          OBVIOUS
        <4> PICK y \in Turn : y = [x EXCEPT !.aborted = TRUE]
          BY DEF Turn
        <4>1. y.at = x.at /\ y.left = x.left /\ y.aborted = TRUE /\ x.aborted \in BOOLEAN
          BY DEF Turn
        <4>2. g[d] = IF d \in who THEN y ELSE x
          OBVIOUS
        <4>q. QED  BY <4>1, <4>2
      <3>2. g \in [Calls -> Turn]
        BY <3>1
      <3>q. QED  BY <3>1, <3>2
    <2>2. turns' = g
      BY <1>1
    <2>q. QED  BY <2>1, <2>2
  <1>3. Turns!TurnsTyped'
    BY TurnsFacts, <1>1, <1>2 DEF Turns!TurnsTyped, Turn
  <1>4. Turns!Lanes'
    BY <1>1, <1>2 DEF Turns!TurnsInv, Turns!Lanes, Turns!Lane
  <1>5. Turns!Speaks'
    <2>1. SameSpeech
      BY <1>2 DEF SameSpeech
    <2>q. QED  BY <1>1, <2>1, SpeechStays
  <1>6. Turns!IsWritten'
    <2>1. Grows
      BY <1>1 DEF Grows
    <2>2. ASSUME NEW d \in Calls
          PROVE  /\ Turns!Begun(d)' => Turns!Begun(d)
                 /\ turns'[d].at \in {"queued", "speaking"} => Turns!Said(d)' \in transcript'[ChannelOf[d]]
      BY <1>1, <1>2 DEF Turns!TurnsInv, Turns!IsWritten, Turns!Said, Turns!Begun
    <2>q. QED  BY <1>1, <2>1, <2>2, WritingStays
  <1>7. Turns!Newest'
    <2> SUFFICES ASSUME NEW d \in Calls
                 PROVE  /\ turns'[d].at \in {"responding", "uttering", "queued", "speaking"}
                           /\ ~turns'[d].aborted => active[ChannelOf[d]] = d
                        /\ turns'[d].at = "replacing" =>
                             LET a == active[ChannelOf[d]] IN a = Nothing \/ turns'[a].aborted
                        /\ turns'[d].at \in {"uttering", "queued", "speaking"} => turns'[d].left >= 1
      BY <1>1 DEF Turns!Newest
    <2>1. active[ChannelOf[d]] = Nothing \/ active[ChannelOf[d]] \in Calls
      BY TurnsFacts
    <2>q. QED  BY <1>2, <2>1 DEF Turns!TurnsInv, Turns!Newest
  <1>q. QED  BY <1>3, <1>4, <1>5, <1>6, <1>7 DEF Turns!TurnsInv

LEMMA NoLane ==
    ASSUME NEW waiting, NEW acting, acting \subseteq waiting, NEW g,
           \A c \in Calls : g[c].at \notin waiting
    PROVE  Turns!Lane(<<>>, g, waiting, acting)
  <1>1. Turns!Elements(<<>>) = {} /\ Turns!Distinct(<<>>) /\ <<>> \in Seq(Calls)
    BY DEF Turns!Elements, Turns!Distinct
  <1>q. QED  BY <1>1 DEF Turns!Lane

LEMMA TurnRestartKeeps ==
    ASSUME TurnsAssumption, Turns!TurnsInv, Turns!Restart PROVE Turns!TurnsInv'
  <1>1. /\ transcript' = transcript /\ intake' = <<>> /\ speech' = <<>> /\ captions' = <<>>
        /\ active' = [ch \in Turns!ChannelsUsed |-> Nothing]
        /\ turns' = [c \in Calls |-> IF turns[c].at \in Turns!Over \cup {"idle"} THEN turns[c]
                                     ELSE [turns[c] EXCEPT !.at = "lost"]]
    BY DEF Turns!Restart
  <1>2. ASSUME NEW d \in Calls
        PROVE  /\ turns'[d] \in Turn /\ turns'[d].at \in Turns!Over \cup {"idle"}
               /\ turns'[d].at = turns[d].at \/ turns'[d].at = "lost"
    <2> PICK x \in Turn : x = turns[d]
      BY TurnsFacts
    <2>1. "lost" \in Turns!Places /\ "lost" \in Turns!Over
      BY DEF Turns!Places, Turns!Over
    <2> PICK y \in Turn : y = [x EXCEPT !.at = "lost"]
      BY <2>1 DEF Turn
    <2>2. y.at = "lost"
      BY DEF Turn
    <2>3. turns'[d] = IF x.at \in Turns!Over \cup {"idle"} THEN x ELSE y
      BY <1>1
    <2>q. QED  BY <2>1, <2>2, <2>3
  <1>3. turns' \in [Calls -> Turn]
    BY <1>1, <1>2
  <1>4. \A d \in Calls : /\ turns'[d].at \notin Turns!InIntake /\ turns'[d].at \notin Turns!InLane
                         /\ ~Runs(turns'[d].at) /\ turns'[d].at # "speaking"
                         /\ turns'[d].at # "replacing"
    <2>1. /\ "idle" \notin Turns!InIntake /\ "idle" \notin Turns!InLane
          /\ ~Runs("idle") /\ "idle" # "speaking"
          /\ "idle" # "replacing"
      BY DEF Turns!InIntake, Turns!InLane, Runs
    <2>q. QED  BY <1>2, <2>1, OverIsOut
  <1>5. Turns!TurnsTyped'
    <2>1. captions' \in Seq(Turns!Captions) /\ active' \in [Turns!ChannelsUsed -> Calls \cup {Nothing}]
      BY <1>1
    <2>q. QED  BY TurnsFacts, <1>1, <1>3, <2>1 DEF Turns!TurnsTyped, Turn
  <1>6. Turns!Lanes'
    <2>1. Turns!Lane(<<>>, turns', Turns!InIntake, Turns!TakenIn)
          /\ Turns!Lane(<<>>, turns', Turns!InLane, {"speaking"})
      BY <1>4, LanesSets, NoLane
    <2>q. QED  BY <1>1, <2>1 DEF Turns!Lanes
  <1>7. Turns!Speaks'
    BY <1>1, <1>4 DEF Turns!Speaks, Turns!OneVoice
  <1>8. Turns!IsWritten'
    <2>1. \A d \in Calls : Turns!Begun(d)' => Turns!Begun(d)
      BY <1>2 DEF Turns!Begun
    <2>2. \A d \in Calls : turns'[d].at \notin {"queued", "speaking"}
      BY <1>4 DEF Turns!InLane
    <2>3. \A c, d \in Calls : Turns!Begun(c)' /\ Turns!Begun(d)' /\ ChannelOf[c] = ChannelOf[d]
                              /\ InputOf[c] = InputOf[d] => c = d
      BY <2>1 DEF Turns!TurnsInv, Turns!IsWritten, Turns!HeardIsWritten
    <2>4. \A d \in Calls : Turns!Begun(d)' => Turns!Heard(d) \in transcript[ChannelOf[d]]
      BY <2>1 DEF Turns!TurnsInv, Turns!IsWritten
    <2>5. \A i \in DOMAIN captions' : captions'[i].said \in transcript'[ChannelOf[captions'[i].call]]
      BY <1>1
    <2>6. transcript' = transcript
      BY <1>1
    <2>q. QED
      BY <2>2, <2>3, <2>4, <2>5, <2>6 DEF Turns!IsWritten, Turns!HeardIsWritten, Turns!Heard
  <1>9. Turns!Newest'
    <2> SUFFICES ASSUME NEW d \in Calls
                 PROVE  /\ turns'[d].at \in {"responding", "uttering", "queued", "speaking"}
                           /\ ~turns'[d].aborted => active'[ChannelOf[d]] = d
                        /\ turns'[d].at = "replacing" =>
                             LET a == active'[ChannelOf[d]] IN a = Nothing \/ turns'[a].aborted
                        /\ turns'[d].at \in {"uttering", "queued", "speaking"} => turns'[d].left >= 1
      BY DEF Turns!Newest
    <2>q. QED  BY <1>4 DEF Runs
  <1>q. QED  BY <1>5, <1>6, <1>7, <1>8, <1>9 DEF Turns!TurnsInv

\* What the settings change, no turn sees until it is submitted.
LEMMA SettingsKeep ==
    ASSUME TurnsAssumption, Turns!TurnsInv, UNCHANGED <<transcript, turns, intake, active,
           speech, captions>>
    PROVE  Turns!TurnsInv'
  <1>1. Turns!TurnsTyped'
    BY DEF Turns!TurnsInv, Turns!TurnsTyped
  <1>2. Turns!Lanes'
    BY DEF Turns!TurnsInv, Turns!Lanes
  <1>3. Turns!Speaks'
    <2>1. SameSpeech
      BY DEF SameSpeech
    <2>q. QED  BY <2>1, SpeechStays
  <1>4. Turns!IsWritten'
    <2>1. Grows
      BY DEF Grows
    <2>2. ASSUME NEW d \in Calls
          PROVE  /\ Turns!Begun(d)' => Turns!Begun(d)
                 /\ turns'[d].at \in {"queued", "speaking"} => Turns!Said(d)' \in transcript'[ChannelOf[d]]
      BY DEF Turns!TurnsInv, Turns!IsWritten, Turns!Said, Turns!Begun
    <2>q. QED  BY <2>1, <2>2, WritingStays
  <1>5. Turns!Newest'
    BY DEF Turns!TurnsInv, Turns!Newest
  <1>q. QED  BY <1>1, <1>2, <1>3, <1>4, <1>5 DEF Turns!TurnsInv

LEMMA TurnsBegins == ASSUME TurnsAssumption, Turns!Init PROVE Turns!TurnsInv
  <1>1. /\ transcript = [ch \in Turns!ChannelsUsed |-> {}] /\ turns = [c \in Calls |-> Turns!NewTurn]
        /\ intake = <<>> /\ speech = <<>> /\ active = [ch \in Turns!ChannelsUsed |-> Nothing]
        /\ captions = <<>>
    BY DEF Turns!Init
  <1>2. Turns!NewTurn \in Turn /\ Turns!NewTurn.at = "idle"
    <2>1. "idle" \in Turns!Places /\ 0 \in 0..MaxUtterances
      BY DEF Turns!Places, TurnsAssumption
    <2>q. QED  BY <2>1 DEF Turns!NewTurn, Turn
  <1>3. turns \in [Calls -> Turn] /\ \A d \in Calls : turns[d].at = "idle"
    BY <1>1, <1>2
  <1>4. Turns!TurnsTyped
    <2>1. captions \in Seq(Turns!Captions) /\ active \in [Turns!ChannelsUsed -> Calls \cup {Nothing}]
          /\ transcript \in [Turns!ChannelsUsed -> SUBSET Turns!Entries]
      BY <1>1
    <2>q. QED  BY <1>3, <2>1 DEF Turns!TurnsTyped, Turn
  <1>5. Turns!Lanes
    <2>1. "idle" \notin Turns!InIntake /\ "idle" \notin Turns!InLane
      BY DEF Turns!InIntake, Turns!InLane
    <2>2. Turns!Lane(<<>>, turns, Turns!InIntake, Turns!TakenIn)
          /\ Turns!Lane(<<>>, turns, Turns!InLane, {"speaking"})
      BY <1>3, <2>1, LanesSets, NoLane
    <2>q. QED  BY <1>1, <2>2 DEF Turns!Lanes
  <1>6. Turns!Speaks
    BY <1>1, <1>3 DEF Turns!Speaks, Turns!OneVoice
  <1>7. Turns!IsWritten
    BY <1>1, <1>3 DEF Turns!IsWritten, Turns!HeardIsWritten, Turns!Begun
  <1>8. Turns!Newest
    BY <1>3 DEF Turns!Newest
  <1>q. QED  BY <1>4, <1>5, <1>6, <1>7, <1>8 DEF Turns!TurnsInv

LEMMA TurnsKept == ASSUME TurnsAssumption, Turns!TurnsInv,
                          [Turns!Next]_(Turns!vars) PROVE Turns!TurnsInv'
  <1>1. CASE Turns!Next
    <2>1. CASE \E c \in Calls : Turns!Submit(c) \/ Turns!AppendInput(c) \/ Turns!Replace(c) \/ Turns!Take(c)
                                \/ Turns!RespondFails(c) \/ Turns!Utter(c) \/ Turns!StartFails(c)
      BY <2>1, SubmitKeeps, AppendInputKeeps, ReplaceKeeps, TakeKeeps, RespondFailsKeeps,
         TurnUtterKeeps, StartFailsKeeps
    <2>2. CASE \E c \in Calls, n \in 0..MaxUtterances : Turns!Respond(c, n)
      BY <2>2, RespondKeeps
    <2>3. CASE \E c \in Calls, yes \in BOOLEAN : Turns!StartSpeech(c, yes) \/ Turns!EndSpeech(c, yes)
      BY <2>3, StartSpeechKeeps, EndSpeechKeeps
    <2>4. CASE \E agent \in Speakers \cup {Nothing} : Turns!SetFocus(agent)
      BY <2>4, SettingsKeep DEF Turns!SetFocus
    <2>5. CASE \E phase \in Phases \cup {Nothing} : Turns!SetPhase(phase)
      BY <2>5, SettingsKeep DEF Turns!SetPhase
    <2>6. CASE Turns!Interrupt \/ Turns!Restart
      BY <2>6, InterruptKeeps, TurnRestartKeeps
    <2>q. QED  BY <1>1, <2>1, <2>2, <2>3, <2>4, <2>5, <2>6 DEF Turns!Next
  <1>2. CASE UNCHANGED Turns!vars
    BY <1>2, SettingsKeep DEF Turns!vars
  <1>q. QED  BY <1>1, <1>2

LEMMA TurnsHold == ASSUME TurnsAssumption, Turns!TurnsInv PROVE Turns!TypeOK /\ Turns!OneVoice
/\ Turns!HeardIsWritten
  <1>1. Turns!TypeOK
    <2>1. Turns!Distinct(intake) /\ Turns!Distinct(speech)
      BY DEF Turns!TurnsInv, Turns!Lanes, Turns!Lane
    <2>q. QED  BY <2>1, TurnsFacts DEF Turns!TypeOK, Turn, Turns!Places
  <1>q. QED  BY <1>1 DEF Turns!TurnsInv, Turns!Speaks, Turns!IsWritten

\* Who begins to speak is in the last caption, and only StartSpeech opens one.
LEMMA NoNewCaption ==
    ASSUME TurnsAssumption, Turns!TurnsInv, Turns!TurnsInv', captions' = captions,
           NEW d \in Calls,
           turns'[d].at = "speaking"
    PROVE  turns[d].at = "speaking"
  <1>1. Turns!Opens(d)'
    BY DEF Turns!TurnsInv, Turns!Speaks
  <1>2. captions # <<>> /\ Turns!Starts(Len(captions)) /\ captions[Len(captions)].call = d
    BY <1>1 DEF Turns!Opens, Turns!Starts
  <1>3. Len(captions) \in DOMAIN captions
    <2>1. captions \in Seq(Turns!Captions)
      BY TurnsFacts
    <2> HIDE DEF Turns!Captions
    <2>q. QED  BY <1>2, <2>1
  <1>q. QED  BY <1>2, <1>3 DEF Turns!TurnsInv, Turns!Speaks, Turns!OneVoice

LEMMA NewCaption ==
    ASSUME TurnsAssumption, Turns!TurnsInv, Turns!TurnsInv', NEW c \in Calls,
           NEW told \in Statuses,
           captions' = Append(captions, Turns!Caption(c, told)), NEW d \in Calls,
           turns'[d].at = "speaking"
    PROVE  told = "started" /\ d = c
  <1>1. Turns!Opens(d)'
    BY DEF Turns!TurnsInv, Turns!Speaks
  <1> PICK x \in Turns!Captions : x = Turns!Caption(c, told)
    BY CaptionIs
  <1>2. x.call = c /\ x.status = told
    BY CaptionIs
  <1>3. Len(captions') = Len(captions) + 1 /\ captions'[Len(captions) + 1] = x
    BY TurnsFacts, CaptionAdded
  <1>q. QED  BY <1>1, <1>2, <1>3 DEF Turns!Opens, Turns!Starts

LEMMA NewestSpeaks == ASSUME TurnsAssumption, Turns!TurnsInv,
                             [Turns!Next]_(Turns!vars) PROVE Turns!StartsNewest
  <1>1. Turns!TurnsInv'
    BY TurnsKept
  <1> SUFFICES ASSUME NEW d \in Calls, turns[d].at # "speaking", turns'[d].at = "speaking"
               PROVE  active[ChannelOf[d]] = d /\ ~turns[d].aborted
    BY DEF Turns!StartsNewest
  <1>2. captions' # captions
    BY <1>1, NoNewCaption
  <1>3. captions' # <<>>
    <2>1. Turns!Opens(d)'
      BY <1>1 DEF Turns!TurnsInv, Turns!Speaks
    <2>q. QED  BY <2>1 DEF Turns!Opens
  <1>4. PICK c \in Calls, yes \in BOOLEAN : Turns!StartSpeech(c, yes) \/ Turns!EndSpeech(c, yes)
    <2>1. CASE \E c \in Calls : \/ Turns!Submit(c) \/ Turns!AppendInput(c) \/ Turns!Replace(c) \/ Turns!Take(c)
                                \/ Turns!RespondFails(c) \/ Turns!Utter(c) \/ Turns!StartFails(c)
                                \/ \E n \in 0..MaxUtterances : Turns!Respond(c, n)
      BY <1>2, <2>1 DEF Turns!Submit, Turns!AppendInput, Turns!Replace, Turns!Take,
         Turns!RespondFails, Turns!Utter, Turns!StartFails, Turns!Respond
    <2>2. CASE \/ \E agent \in Speakers \cup {Nothing} : Turns!SetFocus(agent)
               \/ \E phase \in Phases \cup {Nothing} : Turns!SetPhase(phase)
               \/ Turns!Interrupt \/ Turns!Restart \/ UNCHANGED Turns!vars
      BY <1>2, <1>3, <2>2 DEF Turns!SetFocus, Turns!SetPhase, Turns!Interrupt, Turns!Restart,
         Turns!vars
    <2>q. QED  BY <2>1, <2>2 DEF Turns!Next
  <1>5. CASE Turns!StartSpeech(c, yes)
    <2>1. turns[c].at = "queued" /\ ~turns[c].aborted
          /\ captions' = Append(captions, Turns!Caption(c, "started"))
      BY <1>2, <1>5 DEF Turns!StartSpeech
    <2>2. d = c
      <3>1. "started" \in Statuses
        BY DEF Statuses
      <3>q. QED  BY <1>1, <2>1, <3>1, NewCaption
    <2>q. QED  BY <2>1, <2>2 DEF Turns!TurnsInv, Turns!Newest
  <1>6. CASE Turns!EndSpeech(c, yes)
    <2>1. PICK how \in {"interrupted", "completed", "failed"} :
              captions' = Append(captions, Turns!Caption(c, how))
      BY <1>6 DEF Turns!EndSpeech
    <2>2. how \in Statuses /\ how # "started"
      BY DEF Statuses
    <2>q. QED  BY <1>1, <2>1, <2>2, NewCaption
  <1>q. QED  BY <1>4, <1>5, <1>6

-----------------------------------------------------------------------------
(***************************************************************************)
(* Envelopes: an envelope follows from its parent, with no more disclosed; *)
(* a lane delivers its envelopes in order, target by target; a call's key  *)
(* stands for what was asked under it.                                     *)
(***************************************************************************)

-----------------------------------------------------------------------------
\* Sequences.
LEMMA AtHead ==
    ASSUME NEW S, NEW q \in Seq(S), q # <<>>
    PROVE  /\ 1 \in DOMAIN q /\ Head(q) = q[1] /\ q[1] \in S /\ Len(q) \in Nat \ {0}
           /\ DOMAIN q = 1..Len(q)
  OBVIOUS

LEMMA AtTail ==
    ASSUME NEW S, NEW q \in Seq(S), q # <<>>
    PROVE  /\ Tail(q) \in Seq(S)
           /\ \A k \in DOMAIN Tail(q) : k \in Nat \ {0} /\ k + 1 \in DOMAIN q /\ Tail(q)[k] = q[k + 1]
  OBVIOUS

LEMMA AtEnd ==
    ASSUME NEW S, NEW q \in Seq(S), NEW x \in S
    PROVE  /\ Append(q, x) \in Seq(S) /\ Append(q, x) # <<>>
           /\ Len(q) \in Nat /\ DOMAIN q = 1..Len(q) /\ DOMAIN Append(q, x) = 1..(Len(q) + 1)
           /\ Len(Append(q, x)) = Len(q) + 1
           /\ Append(q, x)[Len(q) + 1] = x /\ \A k \in DOMAIN q : Append(q, x)[k] = q[k]
  OBVIOUS

LEMMA UnlikeTail ==
    ASSUME NEW S, NEW q \in Seq(S), q # <<>>, Exchange!Unlike(q)
    PROVE  /\ Exchange!Unlike(Tail(q)) /\ q[1] \notin Exchange!Elements(Tail(q))
           /\ q[1] \in Exchange!Elements(q)
           /\ Exchange!Elements(Tail(q)) \subseteq Exchange!Elements(q) /\ (Len(q) # 1 => Tail(q) # <<>>)
  <1>1. /\ 1 \in DOMAIN q /\ \A k \in DOMAIN Tail(q) : k \in Nat \ {0} /\ k + 1 \in DOMAIN q
                                                       /\ Tail(q)[k] = q[k + 1]
    BY AtHead, AtTail
  <1>2. Exchange!Unlike(Tail(q))
    <2> SUFFICES ASSUME NEW j \in DOMAIN Tail(q), NEW k \in DOMAIN Tail(q), Tail(q)[j] = Tail(q)[k]
                 PROVE  j = k
      BY DEF Exchange!Unlike
    <2>1. j + 1 = k + 1
      BY <1>1 DEF Exchange!Unlike
    <2>q. QED  BY <1>1, <2>1
  <1>3. q[1] \notin Exchange!Elements(Tail(q))
    <2> SUFFICES ASSUME NEW k \in DOMAIN Tail(q), Tail(q)[k] = q[1] PROVE FALSE
      BY DEF Exchange!Elements
    <2>1. k + 1 = 1
      BY <1>1 DEF Exchange!Unlike
    <2>q. QED  BY <1>1, <2>1
  <1>4. Exchange!Elements(Tail(q)) \subseteq Exchange!Elements(q) /\ q[1] \in Exchange!Elements(q)
    BY <1>1 DEF Exchange!Elements
  <1>5. Len(q) # 1 => Tail(q) # <<>>
    <2>1. Len(Tail(q)) = Len(q) - 1 /\ Len(q) \in Nat \ {0}
      OBVIOUS
    <2>2. Len(<<>>) = 0
      OBVIOUS
    <2> PICK r : r = Tail(q)
      OBVIOUS
    <2>3. r = <<>> => Len(r) = 0
      BY <2>2
    <2>q. QED  BY <2>1, <2>3
  <1>q. QED  BY <1>2, <1>3, <1>4, <1>5

-----------------------------------------------------------------------------
\* One lane and the log of its channel.
LEMMA EntryTyped ==
    ASSUME NEW e \in Exchange!Entry PROVE e.id \in Exchange!Number /\ e.left \in Seq(Exchange!Endpoints)
  BY DEF Exchange!Entry
LEMMA EntryLess ==
    ASSUME NEW e \in Exchange!Entry, NEW left \in Seq(Exchange!Endpoints)
    PROVE  [e EXCEPT !.left = left] \in Exchange!Entry /\ [e EXCEPT !.left = left].left = left
           /\ [e EXCEPT !.left = left].id = e.id
  BY DEF Exchange!Entry

Rest(queue) == Tail(queue)
LEMMA LaneSkips ==
    ASSUME NEW queue, NEW log, NEW work, Exchange!LaneHolds(queue, log, work), queue # <<>>
    PROVE  /\ Exchange!LaneHolds(Tail(queue), log, Nothing)
           /\ \A k \in DOMAIN Tail(queue) : \E j \in DOMAIN queue : Tail(queue)[k].id = queue[j].id
  <1>0. queue \in Seq(Exchange!Entry) /\ log \in Exchange!Log
    BY DEF Exchange!LaneHolds
  <1> PICK r : r = Tail(queue)
    OBVIOUS
  <1>1. /\ r \in Seq(Exchange!Entry)
        /\ \A k \in DOMAIN r : k \in Nat \ {0} /\ k + 1 \in DOMAIN queue /\ r[k] = queue[k + 1]
    BY <1>0, AtTail
  <1>2. ASSUME NEW j \in DOMAIN r, NEW k \in DOMAIN r, r[j].id = r[k].id PROVE j = k
    <2>1. j + 1 = k + 1
      BY <1>1, <1>2 DEF Exchange!LaneHolds
    <2>q. QED  BY <1>1, <2>1
  <1>3. \A k \in DOMAIN r : r[k].left # <<>> /\ Exchange!Unlike(r[k].left)
    BY <1>1 DEF Exchange!LaneHolds
  <1>4. ASSUME NEW k \in DOMAIN r, NEW i \in DOMAIN log, log[i][1] = r[k].id PROVE FALSE
    <2>1. k + 1 = 1
      BY <1>1, <1>4 DEF Exchange!LaneHolds
    <2>q. QED  BY <1>1, <2>1
  <1>5. Exchange!LaneHolds(r, log, Nothing)
    BY <1>0, <1>1, <1>2, <1>3, <1>4 DEF Exchange!LaneHolds
  <1>q. QED  BY <1>1, <1>5

LEMMA LaneAdvances ==
    ASSUME NEW queue, NEW log, NEW work, work # Nothing, Exchange!LaneHolds(queue, log, work),
           queue # <<>>
    PROVE  /\ Exchange!LaneHolds(Exchange!NextTarget(queue), log, Nothing)
           /\ \A k \in DOMAIN Exchange!NextTarget(queue) :
                  \E j \in DOMAIN queue : Exchange!NextTarget(queue)[k].id = queue[j].id
  <1>0. queue \in Seq(Exchange!Entry) /\ log \in Exchange!Log
    BY DEF Exchange!LaneHolds
  <1>1. 1 \in DOMAIN queue /\ Head(queue) = queue[1] /\ queue[1] \in Exchange!Entry
    BY <1>0, AtHead
  <1> PICK h \in Exchange!Entry : h = queue[1]
    BY <1>1
  <1>2. h.left \in Seq(Exchange!Endpoints) /\ h.left # <<>> /\ Exchange!Unlike(h.left)
    BY <1>1, EntryTyped DEF Exchange!LaneHolds
  <1>3. CASE Len(h.left) = 1
    <2>1. Exchange!NextTarget(queue) = Tail(queue)
      BY <1>1, <1>3 DEF Exchange!NextTarget
    <2>q. QED  BY <2>1, LaneSkips
  <1>4. CASE Len(h.left) # 1
    <2> PICK left \in Seq(Exchange!Endpoints) : left = Tail(h.left)
      BY <1>2, AtTail
    <2>1. left # <<>> /\ Exchange!Unlike(left)
      BY <1>2, <1>4, UnlikeTail
    <2> PICK e \in Exchange!Entry : e = [h EXCEPT !.left = left]
      BY EntryLess
    <2>2. e.left = left /\ e.id = h.id
      BY EntryLess
    <2>3. Exchange!NextTarget(queue) = [queue EXCEPT ![1] = e]
      BY <1>1, <1>4 DEF Exchange!NextTarget
    <2> PICK r : r = [queue EXCEPT ![1] = e]
      OBVIOUS
    <2>4. r \in Seq(Exchange!Entry) /\ DOMAIN r = DOMAIN queue /\ r[1] = e
          /\ \A k \in DOMAIN queue : k # 1 => r[k] = queue[k]
      <3> HIDE DEF Exchange!Entry
      <3>q. QED  BY <1>0, <1>1
    <2>5. \A k \in DOMAIN r : r[k].id = queue[k].id
      BY <2>2, <2>4
    <2>6. \A k \in DOMAIN r : r[k].left # <<>> /\ Exchange!Unlike(r[k].left)
      BY <2>1, <2>2, <2>4 DEF Exchange!LaneHolds
    <2>7. ASSUME NEW k \in DOMAIN r, NEW i \in DOMAIN log, log[i][1] = r[k].id
          PROVE  /\ k = 1 /\ log[i][2] \notin Exchange!Unmet(r[k], Nothing)
                 /\ \A j \in DOMAIN log : i < j => log[j][1] = log[i][1]
      <3>1. /\ k = 1 /\ log[i][2] \notin Exchange!Unmet(queue[k], work)
            /\ \A j \in DOMAIN log : i < j => log[j][1] = log[i][1]
        BY <2>4, <2>5, <2>7 DEF Exchange!LaneHolds
      <3>2. Exchange!Unmet(r[1], Nothing) = Exchange!Unmet(queue[1], work)
        BY <2>2, <2>4 DEF Exchange!Unmet
      <3>q. QED  BY <3>1, <3>2
    <2>8. \A j, k \in DOMAIN r : r[j].id = r[k].id => j = k
      BY <2>4, <2>5 DEF Exchange!LaneHolds
    <2>9. Exchange!LaneHolds(r, log, Nothing)
      BY <1>0, <2>4, <2>6, <2>7, <2>8 DEF Exchange!LaneHolds
    <2>q. QED  BY <2>3, <2>4, <2>5, <2>9
  <1>q. QED  BY <1>3, <1>4

LEMMA LaneJoins ==
    ASSUME NEW queue, NEW log, NEW work, Exchange!LaneHolds(queue, log, work),
           NEW e \in Exchange!Entry,
           e.left # <<>>, Exchange!Unlike(e.left), \A k \in DOMAIN queue : queue[k].id # e.id,
           \A i \in DOMAIN log : log[i][1] # e.id
    PROVE  Exchange!LaneHolds(Append(queue, e), log, work)
  <1>0. queue \in Seq(Exchange!Entry) /\ log \in Exchange!Log
    BY DEF Exchange!LaneHolds
  <1> PICK r : r = Append(queue, e)
    OBVIOUS
  <1>1. /\ r \in Seq(Exchange!Entry) /\ Len(queue) \in Nat /\ DOMAIN queue = 1..Len(queue)
        /\ DOMAIN r = 1..(Len(queue) + 1)
        /\ r[Len(queue) + 1] = e /\ \A k \in DOMAIN queue : r[k] = queue[k]
    BY <1>0, AtEnd
  <1>2. \A k \in DOMAIN r : k \in DOMAIN queue \/ k = Len(queue) + 1
    BY <1>1
  <1>3. \A j, k \in DOMAIN r : r[j].id = r[k].id => j = k
    BY <1>1, <1>2 DEF Exchange!LaneHolds
  <1>4. \A k \in DOMAIN r : r[k].left # <<>> /\ Exchange!Unlike(r[k].left)
    BY <1>1, <1>2 DEF Exchange!LaneHolds
  <1>5. \A k \in DOMAIN r : \A i \in DOMAIN log : log[i][1] = r[k].id =>
            /\ k = 1 /\ log[i][2] \notin Exchange!Unmet(r[k], work)
            /\ \A j \in DOMAIN log : i < j => log[j][1] = log[i][1]
    BY <1>1, <1>2 DEF Exchange!LaneHolds
  <1>q. QED  BY <1>0, <1>1, <1>3, <1>4, <1>5 DEF Exchange!LaneHolds

Handed(log, queue) == Append(log, <<Head(queue).id, Head(Head(queue).left)>>)
Adds(log, r, id) == \A i \in DOMAIN r : (i \in DOMAIN log /\ r[i] = log[i]) \/ r[i][1] = id
LEMMA LaneDelivers ==
    ASSUME NEW queue, NEW log, NEW work, NEW r, work # Nothing, Exchange!LaneHolds(queue, log,
           Nothing),
           queue # <<>>, r = Handed(log, queue)
    PROVE  Exchange!LaneHolds(queue, r, work) /\ Adds(log, r, queue[1].id)
  <1>0. queue \in Seq(Exchange!Entry) /\ log \in Exchange!Log
    BY DEF Exchange!LaneHolds
  <1>1. 1 \in DOMAIN queue /\ Head(queue) = queue[1] /\ queue[1] \in Exchange!Entry
    BY <1>0, AtHead
  <1> PICK h \in Exchange!Entry : h = queue[1]
    BY <1>1
  <1>2. h.id \in Exchange!Number /\ h.left \in Seq(Exchange!Endpoints)
        /\ h.left # <<>> /\ Exchange!Unlike(h.left)
    BY <1>1, EntryTyped DEF Exchange!LaneHolds
  <1> PICK t \in Exchange!Endpoints : t = Head(h.left) /\ t \in Exchange!Elements(h.left) /\ t \notin Exchange!Elements(Tail(h.left))
    BY <1>2, AtHead, UnlikeTail
  <1> PICK x \in Exchange!Number \X Exchange!Endpoints : x = <<h.id, t>>
    BY <1>2
  <1> PICK n : n = Len(log)
    OBVIOUS
  <1>3. r = Append(log, x)
    BY <1>1 DEF Handed
  <1>4. /\ r \in Exchange!Log /\ n \in Nat /\ DOMAIN log = 1..n /\ DOMAIN r = 1..(n + 1)
        /\ r[n + 1] = x /\ \A i \in DOMAIN log : r[i] = log[i]
    BY <1>0, <1>3, AtEnd DEF Exchange!Log
  <1>5. \A i \in DOMAIN log : i \in 1..n
    BY <1>4
  <1>6. \A i \in DOMAIN r : i \in DOMAIN log \/ i = n + 1
    BY <1>4
  <1>7. Exchange!Unmet(h, Nothing) = Exchange!Elements(h.left)
        /\ Exchange!Unmet(h, work) = Exchange!Elements(Tail(h.left))
        /\ Exchange!Elements(Tail(h.left)) \subseteq Exchange!Elements(h.left)
    BY <1>2, UnlikeTail DEF Exchange!Unmet
  <1>8. \A i \in DOMAIN log : log[i][1] = h.id =>
            /\ log[i][2] \notin Exchange!Elements(h.left) /\ \A j \in DOMAIN log : i < j => log[j][1] = log[i][1]
    BY <1>1, <1>7 DEF Exchange!LaneHolds
  <1>9. Exchange!Once(r)
    <2> SUFFICES ASSUME NEW j \in DOMAIN r, NEW k \in DOMAIN r, j < k
                 PROVE  /\ r[j] # r[k]
                        /\ r[j][1] = r[k][1] => \A i \in j..k : r[i][1] = r[j][1]
      BY DEF Exchange!Once
    <2>1. CASE k \in DOMAIN log
      <3>1. j \in DOMAIN log /\ \A i \in j..k : i \in DOMAIN log
        BY <1>4, <2>1
      <3>2. /\ log[j] # log[k]
            /\ log[j][1] = log[k][1] => \A i \in j..k : log[i][1] = log[j][1]
        BY <2>1, <3>1 DEF Exchange!LaneHolds, Exchange!Once
      <3>q. QED  BY <1>4, <2>1, <3>1, <3>2
    <2>2. CASE k = n + 1
      <3>1. j \in DOMAIN log /\ \A i \in j..k : i = n + 1 \/ (i \in DOMAIN log /\ (i = j \/ j < i))
        BY <1>4, <2>2
      <3>2. r[j] = log[j] /\ r[k] = x
        BY <1>4, <2>2, <3>1
      <3>3. log[j] # x
        BY <1>8, <3>1
      <3>4. ASSUME r[j][1] = r[k][1], NEW i \in j..k PROVE r[i][1] = r[j][1]
        <4>1. log[j][1] = h.id
          BY <3>2, <3>4
        <4>2. CASE i = n + 1
          BY <2>2, <3>4, <4>2
        <4>3. CASE i \in DOMAIN log /\ (i = j \/ j < i)
          <5>1. r[i] = log[i]
            BY <1>4, <4>3
          <5>2. i # j => log[i][1] = log[j][1]
            BY <1>8, <3>1, <4>1, <4>3
          <5>q. QED  BY <3>2, <5>1, <5>2
        <4>q. QED  BY <3>1, <4>2, <4>3
      <3>q. QED  BY <3>2, <3>3, <3>4
    <2>q. QED  BY <1>6, <2>1, <2>2
  <1>10. ASSUME NEW k \in DOMAIN queue, NEW i \in DOMAIN r, r[i][1] = queue[k].id
         PROVE  /\ k = 1 /\ r[i][2] \notin Exchange!Unmet(queue[k], work)
                /\ \A j \in DOMAIN r : i < j => r[j][1] = r[i][1]
    <2>1. CASE i = n + 1
      <3>1. k = 1
        BY <1>1, <1>4, <1>10, <2>1 DEF Exchange!LaneHolds
      <3>2. \A j \in DOMAIN r : ~(i < j)
        BY <1>4, <2>1
      <3>q. QED  BY <1>4, <1>7, <2>1, <3>1, <3>2
    <2>2. CASE i \in DOMAIN log
      <3>1. r[i] = log[i]
        BY <1>4, <2>2
      <3>2. /\ k = 1 /\ log[i][2] \notin Exchange!Elements(h.left)
            /\ \A j \in DOMAIN log : i < j => log[j][1] = log[i][1]
        <4>1. k = 1
          BY <1>10, <2>2, <3>1 DEF Exchange!LaneHolds
        <4>q. QED  BY <1>8, <1>10, <2>2, <3>1, <4>1
      <3>3. ASSUME NEW j \in DOMAIN r, i < j PROVE r[j][1] = r[i][1]
        <4>1. CASE j \in DOMAIN log
          BY <1>4, <3>1, <3>2, <3>3, <4>1
        <4>2. CASE j = n + 1
          BY <1>4, <1>10, <3>2, <4>2
        <4>q. QED  BY <1>6, <4>1, <4>2
      <3>q. QED  BY <1>7, <3>1, <3>2, <3>3
    <2>q. QED  BY <1>6, <2>1, <2>2
  <1>11. Exchange!LaneHolds(queue, r, work)
    BY <1>0, <1>4, <1>9, <1>10 DEF Exchange!LaneHolds
  <1>12. \A i \in DOMAIN r : \/ i \in DOMAIN log /\ r[i] = log[i]
                             \/ r[i][1] = queue[1].id
    BY <1>4, <1>6
  <1>q. QED  BY <1>11, <1>12 DEF Adds

-----------------------------------------------------------------------------
\* Disclosures.
LEMMA Disclosing ==
    ASSUME ExchangeAssumption, NEW x \in Exchange!Disclosures, NEW y \in Exchange!Disclosures
    PROVE  /\ x \cap y \in Exchange!Disclosures
           /\ x # Exchange!Room => x \subseteq Participants
           /\ x \subseteq y /\ y # Exchange!Room => x # Exchange!Room
  BY DEF ExchangeAssumption, Exchange!Disclosures, Exchange!Room

LEMMA Clamping ==
    ASSUME ExchangeAssumption, NEW p, p.disc \in Exchange!Disclosures, NEW sender,
           NEW requested \in Exchange!Disclosures
    PROVE  /\ Exchange!Clamped(p, sender, requested) \in Exchange!Disclosures
           /\ Exchange!Clamped(p, sender, requested) \subseteq p.disc
           /\ sender \in Agents => Exchange!Clamped(p, sender, requested) \subseteq VisibilityOf[sender]
  <1> PICK v \in Exchange!Disclosures : v = IF sender \in Agents THEN VisibilityOf[sender] ELSE Exchange!Room
    BY DEF ExchangeAssumption, Exchange!Disclosures
  <1> PICK d \in Exchange!Disclosures : d = p.disc
    OBVIOUS
  <1>1. d \cap requested \in Exchange!Disclosures
    BY Disclosing
  <1>2. (d \cap requested) \cap v \in Exchange!Disclosures
    BY <1>1, Disclosing
  <1>3. Exchange!Clamped(p, sender, requested) = (d \cap requested) \cap v
    BY DEF Exchange!Clamped
  <1>q. QED  BY <1>2, <1>3

LEMMA EnvelopeTyped ==
    ASSUME NEW e \in Exchange!Envelope
    PROVE  /\ e.disc \in Exchange!Disclosures /\ e.source \in Exchange!Endpoints
           /\ e.targets \in Seq(Exchange!Endpoints)
           /\ e.channel \in Channels /\ e.call \in Exchange!Requests \cup {Nothing}
           /\ e.root \in Exchange!Number
           /\ e.hop \in 0..MaxHops /\ e.parent \in 0..MaxEnvelopes
  BY DEF Exchange!Envelope

LEMMA Made ==
    ASSUME ExchangeAssumption, Exchange!Chained
    PROVE  /\ envelopes \in Seq(Exchange!Envelope) /\ Len(envelopes) \in 0..MaxEnvelopes
           /\ MaxEnvelopes \in Nat /\ MaxHops \in Nat
           /\ DOMAIN envelopes = 1..Len(envelopes)
           /\ \A n \in DOMAIN envelopes : envelopes[n] \in Exchange!Envelope /\ n \in Exchange!Number /\ n \in Nat \ {0}
  <1>1. envelopes \in Seq(Exchange!Envelope) /\ Len(envelopes) \in 0..MaxEnvelopes
        /\ MaxEnvelopes \in Nat /\ MaxHops \in Nat
    BY DEF Exchange!Chained, ExchangeAssumption
  <1>2. \A n \in DOMAIN envelopes : envelopes[n] \in Exchange!Envelope
    <2> HIDE DEF Exchange!Envelope
    <2>q. QED  BY <1>1
  <1>3. DOMAIN envelopes = 1..Len(envelopes)
    <2> HIDE DEF Exchange!Envelope
    <2>q. QED  BY <1>1
  <1>q. QED  BY <1>1, <1>2, <1>3 DEF Exchange!Number

Grown == \A n \in DOMAIN envelopes : n \in DOMAIN envelopes' /\ envelopes'[n] = envelopes[n]

\* An envelope that follows from its parent may be added.
LEMMA ChainGrows ==
    ASSUME ExchangeAssumption, Exchange!Chained, spoken' = spoken, Len(envelopes) < MaxEnvelopes,
           NEW e \in Exchange!Envelope, e.targets # <<>>, Exchange!Unlike(e.targets),
           Exchange!TargetsDisclosed(e.targets, e.disc), e.parent \in 0..Len(envelopes),
           e.parent # 0 => Exchange!Follows(e, envelopes[e.parent]), envelopes' = Append(envelopes, e)
    PROVE  Exchange!Chained' /\ Grown
  <1> PICK n : n = Len(envelopes)
    OBVIOUS
  <1> PICK r : r = envelopes'
    OBVIOUS
  <1>1. /\ r \in Seq(Exchange!Envelope) /\ n \in Nat
        /\ DOMAIN envelopes = 1..n /\ DOMAIN r = 1..(n + 1)
        /\ Len(r) = n + 1 /\ r[n + 1] = e /\ \A k \in DOMAIN envelopes : r[k] = envelopes[k]
    BY Made, AtEnd
  <1>2. Len(r) \in 0..MaxEnvelopes
    BY <1>1, Made
  <1>3. ASSUME NEW k \in DOMAIN r PROVE Exchange!Linked(r, k)
    <2>1. CASE k \in DOMAIN envelopes
      <3>1. Exchange!Linked(envelopes, k)
        BY <2>1 DEF Exchange!Chained
      <3>2. r[k] = envelopes[k]
        BY <1>1, <2>1
      <3> PICK p \in 0..(k - 1) : p = envelopes[k].parent
        BY <3>1 DEF Exchange!Linked
      <3>3. p # 0 => p \in DOMAIN envelopes /\ r[p] = envelopes[p]
        BY <1>1, <2>1
      <3>q. QED  BY <3>1, <3>2, <3>3 DEF Exchange!Linked
    <2>2. CASE k = n + 1
      <3>1. e.parent \in 0..(k - 1)
        BY <1>1, <2>2
      <3>2. e.parent # 0 => r[e.parent] = envelopes[e.parent]
        BY <1>1
      <3>q. QED  BY <1>1, <2>2, <3>1, <3>2 DEF Exchange!Linked
    <2>q. QED  BY <1>1, <2>1, <2>2
  <1>4. \A u \in spoken : u[1] \in DOMAIN r /\ u[2] \subseteq r[u[1]].disc
    BY <1>1 DEF Exchange!Chained
  <1>5. Exchange!Chained'
    BY <1>1, <1>2, <1>3, <1>4 DEF Exchange!Chained
  <1>q. QED  BY <1>1, <1>5 DEF Grown

LEMMA ChainStays ==
    ASSUME Exchange!Chained, UNCHANGED <<envelopes, spoken>> PROVE Exchange!Chained' /\ Grown
  BY DEF Exchange!Chained, Grown

\* Along a chain.
Private(e, a) == /\ e.disc \subseteq a.disc
                 /\ a.disc # Exchange!Room => /\ Exchange!Elements(e.targets) \cap Agents \subseteq Exchange!Ends(a)
                                              /\ Exchange!Elements(e.targets) \cap Participants \subseteq a.disc
LEMMA PrivateParent ==
    ASSUME ExchangeAssumption, Exchange!Chained, NEW n \in DOMAIN envelopes,
           envelopes[n].parent # 0
    PROVE  /\ envelopes[n].parent \in DOMAIN envelopes
           /\ Exchange!Follows(envelopes[n], envelopes[envelopes[n].parent])
           /\ Private(envelopes[n], envelopes[envelopes[n].parent])
  <1> PICK p : p = envelopes[n].parent
    OBVIOUS
  <1>1. /\ p \in 0..(n - 1) /\ Exchange!Follows(envelopes[n], envelopes[p])
        /\ Exchange!TargetsDisclosed(envelopes[n].targets, envelopes[n].disc)
    BY DEF Exchange!Chained, Exchange!Linked
  <1>2. p \in DOMAIN envelopes
    BY <1>1, Made
  <1> PICK e \in Exchange!Envelope : e = envelopes[n]
    BY Made
  <1> PICK a \in Exchange!Envelope : a = envelopes[p]
    BY <1>2, Made
  <1>3. Exchange!Follows(e, a) /\ Exchange!TargetsDisclosed(e.targets, e.disc)
    BY <1>1
  <1>4. a.disc # Exchange!Room => e.disc # Exchange!Room
    BY <1>3, EnvelopeTyped, Disclosing DEF Exchange!Follows
  <1>5. Private(e, a)
    BY <1>3, <1>4 DEF Private, Exchange!Follows, Exchange!TargetsDisclosed
  <1>q. QED  BY <1>1, <1>2, <1>5

LEMMA PrivateStep ==
    ASSUME ExchangeAssumption, Exchange!Chained, NEW e, NEW k \in DOMAIN envelopes,
           Private(e, envelopes[k]), envelopes[k].parent # 0
    PROVE  Private(e, envelopes[envelopes[k].parent])
  <1> PICK p \in DOMAIN envelopes : p = envelopes[k].parent
    BY PrivateParent
  <1> PICK x \in Exchange!Envelope : x = envelopes[k]
    BY Made
  <1> PICK a \in Exchange!Envelope : a = envelopes[p]
    BY Made
  <1>1. Exchange!Follows(x, a) /\ Private(x, a) /\ Private(e, x)
    BY PrivateParent
  <1>2. a.disc # Exchange!Room => x.disc # Exchange!Room
    BY <1>1, EnvelopeTyped, Disclosing DEF Exchange!Follows
  <1>3. a.disc # Exchange!Room => Exchange!Ends(x) \cap Agents \subseteq Exchange!Ends(a)
    BY <1>1 DEF Exchange!Follows, Exchange!Ends
  <1>4. Private(e, a)
    BY <1>1, <1>2, <1>3 DEF Private
  <1>q. QED  BY <1>4

LEMMA ChainHolds == ASSUME ExchangeAssumption,
                           Exchange!ExchangeInv PROVE Exchange!ChainStaysPrivate
  <1>0. Exchange!Chained
    BY DEF Exchange!ExchangeInv
  <1>1. ASSUME NEW n \in DOMAIN envelopes, NEW m \in Exchange!Ancestors(n)
        PROVE  Private(envelopes[n], envelopes[m]) /\ envelopes[n].parent # 0
    <2> DEFINE S == {0} \cup {k \in DOMAIN envelopes :
                                envelopes[n].parent # 0 /\ Private(envelopes[n], envelopes[k])}
    <2>1. S \in SUBSET (0..Len(envelopes))
      BY <1>0, Made
    <2>2. envelopes[n].parent \in S
      BY <1>0, PrivateParent
    <2>3. ASSUME NEW k \in S \ {0} PROVE envelopes[k].parent \in S
      BY <1>0, <2>3, PrivateStep, PrivateParent
    <2>4. m \in DOMAIN envelopes /\ m \in S /\ m # 0
      <3> HIDE DEF S
      <3>1. m \in DOMAIN envelopes /\ m \in S
        BY <2>1, <2>2, <2>3 DEF Exchange!Ancestors
      <3>q. QED  BY <1>0, <3>1, Made
    <2>q. QED  BY <2>4
  <1>2. ASSUME NEW u \in spoken, NEW m \in {u[1]} \cup Exchange!Ancestors(u[1])
        PROVE  u[2] \subseteq envelopes[m].disc
    <2>1. u[1] \in DOMAIN envelopes /\ u[2] \subseteq envelopes[u[1]].disc
      BY <1>0 DEF Exchange!Chained
    <2>q. QED  BY <1>1, <2>1 DEF Private
  <1>3. ASSUME NEW n \in DOMAIN envelopes, NEW m \in Exchange!Ancestors(n),
               envelopes[n].source \in Agents
        PROVE  envelopes[n].disc \subseteq VisibilityOf[envelopes[n].source]
    <2>1. envelopes[n].parent # 0
      BY <1>1
    <2>q. QED  BY <1>0, <1>3, <2>1, PrivateParent DEF Exchange!Follows
  <1>q. QED  BY <1>1, <1>2, <1>3 DEF Exchange!ChainStaysPrivate, Private

-----------------------------------------------------------------------------
\* The queues of all channels under a step in one of them.
LEMMA QueueFacts ==
    ASSUME Exchange!Queues, NEW c \in Channels
    PROVE  /\ lanes[c] \in Seq(Exchange!Entry) /\ delivered[c] \in Exchange!Log
           /\ Exchange!LaneHolds(lanes[c], delivered[c], answering[c]) /\ Exchange!LaneKnown(c)
           /\ answering[c] \in {Nothing, "registered", "dropped"}
  BY DEF Exchange!Queues

\* Moves of channel c: its lane, its log and its work become q, l and a.
Moves(c, q, l, a) ==
    /\ lanes' = [lanes EXCEPT ![c] = q]
    /\ delivered' = [delivered EXCEPT ![c] = l]
    /\ answering' = [answering EXCEPT ![c] = a]
LEMMA ChannelMoves ==
    ASSUME Exchange!Queues, Grown, seen' = seen, NEW c \in Channels, NEW q, NEW l,
           NEW a \in {Nothing, "registered", "dropped"}, Moves(c, q, l, a),
           Exchange!LaneHolds(q, l, a), \A k \in DOMAIN q : \E j \in DOMAIN lanes[c] : q[k].id = lanes[c][j].id,
           \A i \in DOMAIN l : l[i][1] \in seen,
           a # Nothing => q # <<>> /\ Head(Head(q).left) \in Agents
    PROVE  Exchange!Queues'
  <1>1. q \in Seq(Exchange!Entry) /\ l \in Exchange!Log
    BY DEF Exchange!LaneHolds
  <1>2. /\ lanes' \in [Channels -> Seq(Exchange!Entry)] /\ delivered' \in [Channels -> Exchange!Log]
        /\ answering' \in [Channels -> {Nothing, "registered", "dropped"}]
        /\ lanes'[c] = q /\ delivered'[c] = l /\ answering'[c] = a
        /\ \A d \in Channels : d # c => /\ lanes'[d] = lanes[d] /\ delivered'[d] = delivered[d]
                                        /\ answering'[d] = answering[d]
    <2> HIDE DEF Exchange!Entry, Exchange!Log
    <2>q. QED  BY <1>1 DEF Exchange!Queues, Moves
  <1>3. seen' \subseteq DOMAIN envelopes' /\ \A n \in seen : envelopes'[n] = envelopes[n]
    BY DEF Exchange!Queues, Grown
  <1>4. ASSUME NEW d \in Channels
        PROVE  Exchange!LaneKnown(d)' /\ Exchange!LaneHolds(lanes'[d], delivered'[d], answering'[d])
    <2>1. Exchange!LaneKnown(d) /\ Exchange!LaneHolds(lanes[d], delivered[d], answering[d])
      BY QueueFacts
    <2>2. CASE d # c
      <3>1. lanes'[d] = lanes[d] /\ delivered'[d] = delivered[d] /\ answering'[d] = answering[d]
        BY <1>2, <2>2
      <3>q. QED  BY <1>3, <2>1, <3>1 DEF Exchange!LaneKnown, Exchange!Busy, Exchange!Target
    <2>3. CASE d = c
      <3>1. ASSUME NEW k \in DOMAIN q PROVE q[k].id \in seen /\ envelopes'[q[k].id].channel = c
        <4>1. PICK j \in DOMAIN lanes[c] : q[k].id = lanes[c][j].id
          OBVIOUS
        <4>q. QED  BY <1>3, <2>1, <2>3, <4>1 DEF Exchange!LaneKnown
      <3>q. QED  BY <1>2, <2>3, <3>1 DEF Exchange!LaneKnown, Exchange!Busy, Exchange!Target
    <2>q. QED  BY <2>2, <2>3
  <1>q. QED  BY <1>2, <1>3, <1>4 DEF Exchange!Queues

LEMMA QueuesStay ==
    ASSUME Exchange!Queues, Grown, UNCHANGED <<seen, lanes, delivered,
           answering>> PROVE Exchange!Queues'
  <1>1. seen' \subseteq DOMAIN envelopes' /\ \A n \in seen : envelopes'[n] = envelopes[n]
    BY DEF Exchange!Queues, Grown
  <1>2. ASSUME NEW d \in Channels PROVE Exchange!LaneKnown(d)'
    BY <1>1 DEF Exchange!Queues, Exchange!LaneKnown, Exchange!Busy, Exchange!Target
  <1>q. QED  BY <1>1, <1>2 DEF Exchange!Queues

\* The handler of the head of a lane was handed its target and returned or threw.
LEMMA SameAt ==
    ASSUME NEW S, NEW f \in [Channels -> S], NEW c \in Channels PROVE f = [f EXCEPT ![c] = f[c]]
  OBVIOUS

LEMMA IdleAt ==
    ASSUME ExchangeAssumption, Exchange!Queues, NEW c \in Channels, Exchange!Busy(c),
           Exchange!Target(c) \notin Agents
    PROVE  answering[c] = Nothing
  BY DEF Exchange!Queues, Exchange!LaneKnown

\* A delivery to a target that is no agent, and the step to the next target or envelope.
LEMMA HandedOver ==
    ASSUME ExchangeAssumption, Exchange!Queues, Grown, NEW c \in Channels, Exchange!Busy(c),
           Exchange!Target(c) \notin Agents,
           Exchange!Delivering(c), Exchange!Advance(c) \/ Exchange!Skip(c), UNCHANGED <<seen, answering>>
    PROVE  Exchange!Queues'
  <1> PICK q \in Seq(Exchange!Entry) : q = lanes[c]
    BY QueueFacts
  <1> PICK g \in Exchange!Log : g = delivered[c]
    BY QueueFacts
  <1> PICK l : l = Handed(g, q)
    OBVIOUS
  <1>1. answering[c] = Nothing /\ q # <<>> /\ Nothing \notin {"registered", "dropped"}
    BY IdleAt DEF Exchange!Busy, ExchangeAssumption
  <1>2. Exchange!LaneHolds(q, g, Nothing)
    BY <1>1, QueueFacts
  <1>3. PICK w : w # Nothing
    BY <1>1
  <1>4. Exchange!LaneHolds(q, l, w) /\ Adds(g, l, q[1].id)
    BY <1>1, <1>2, <1>3, LaneDelivers
  <1>5. delivered' = [delivered EXCEPT ![c] = l]
    BY DEF Exchange!Delivering, Handed, Exchange!Target
  <1>6. \A i \in DOMAIN l : l[i][1] \in seen
    BY <1>1, <1>4, AtHead, QueueFacts DEF Exchange!LaneKnown, Adds
  <1>7. PICK r : /\ lanes' = [lanes EXCEPT ![c] = r]
                                           /\ (r = Exchange!NextTarget(q) \/ r = Rest(q))
    BY DEF Exchange!Advance, Exchange!Skip, Rest
  <1>7a. Exchange!LaneHolds(r, l, Nothing) /\ \A k \in DOMAIN r : \E j \in DOMAIN q : r[k].id = q[j].id
    <2>1. CASE r = Rest(q)
      BY <1>1, <1>4, <2>1, LaneSkips DEF Rest
    <2>2. CASE r # Rest(q)
      BY <1>1, <1>3, <1>4, <1>7, <2>2, LaneAdvances
    <2>q. QED  BY <2>1, <2>2
  <1>7b. \A k \in DOMAIN r : \E j \in DOMAIN lanes[c] : r[k].id = lanes[c][j].id
    BY <1>7a
  <1>8. answering' = [answering EXCEPT ![c] = Nothing]
    BY <1>1 DEF Exchange!Queues
  <1>9. Moves(c, r, l, Nothing)
    BY <1>5, <1>7, <1>8 DEF Moves
  <1>q. QED  BY <1>6, <1>7a, <1>7b, <1>9, ChannelMoves

\* The work on the head of a lane ends, or never began.
LEMMA WorkEnds ==
    ASSUME ExchangeAssumption, Exchange!Queues, Grown, NEW c \in Channels, Exchange!Busy(c),
           UNCHANGED <<seen, delivered>>,
           Exchange!Skip(c) \/ (answering[c] # Nothing /\ Exchange!Advance(c)),
           answering' = [answering EXCEPT ![c] = Nothing]
    PROVE  Exchange!Queues'
  <1> PICK q \in Seq(Exchange!Entry) : q = lanes[c]
    BY QueueFacts
  <1> PICK l \in Exchange!Log : l = delivered[c]
    BY QueueFacts
  <1>1. q # <<>> /\ Exchange!LaneHolds(q, l, answering[c])
    BY QueueFacts DEF Exchange!Busy
  <1>2. PICK r : /\ lanes' = [lanes EXCEPT ![c] = r]
                                           /\ ((answering[c] # Nothing /\ r = Exchange!NextTarget(q)) \/ r = Rest(q))
    BY DEF Exchange!Advance, Exchange!Skip, Rest
  <1>2a. Exchange!LaneHolds(r, l, Nothing) /\ \A k \in DOMAIN r : \E j \in DOMAIN q : r[k].id = q[j].id
    <2>1. CASE r = Rest(q)
      BY <1>1, <2>1, LaneSkips DEF Rest
    <2>2. CASE r # Rest(q)
      BY <1>1, <1>2, <2>2, LaneAdvances
    <2>q. QED  BY <2>1, <2>2
  <1>2b. \A k \in DOMAIN r : \E j \in DOMAIN lanes[c] : r[k].id = lanes[c][j].id
    BY <1>2a
  <1>3. delivered' = [delivered EXCEPT ![c] = l]
    BY DEF Exchange!Queues
  <1>4. \A i \in DOMAIN l : l[i][1] \in seen
    BY QueueFacts DEF Exchange!LaneKnown
  <1>5. Moves(c, r, l, Nothing)
    BY <1>2, <1>3 DEF Moves
  <1>q. QED  BY <1>2a, <1>2b, <1>4, <1>5, ChannelMoves

-----------------------------------------------------------------------------
\* The steps.
LEMMA CachedStays ==
    ASSUME Exchange!Cached, Grown, UNCHANGED <<calls, invoked, answers>> PROVE Exchange!Cached'
  <1>1. ASSUME NEW a \in answers
        PROVE  /\ a[1] \in DOMAIN envelopes' /\ calls[a[2]].asked \in Exchange!Asked
               /\ calls[a[2]].asked = Exchange!Fingerprint(envelopes'[a[1]])
    BY DEF Exchange!Cached, Grown
  <1>q. QED  BY <1>1 DEF Exchange!Cached

LEMMA DraftTyped ==
    ASSUME ExchangeAssumption, NEW d \in Drafts
    PROVE  /\ d.targets \in Seq(Exchange!Endpoints) /\ d.targets # <<>>
           /\ Exchange!Unlike(d.targets)
           /\ d.disc \in Exchange!Disclosures /\ d.call \in Exchange!Requests \cup {Nothing}
  BY DEF ExchangeAssumption

LEMMA EndpointsTyped ==
    /\ Participants \subseteq Exchange!Endpoints /\ Agents \subseteq Exchange!Endpoints
    /\ Services \subseteq Exchange!Endpoints
  BY DEF Exchange!Endpoints

LEMMA CreateKeeps ==
    ASSUME ExchangeAssumption, Exchange!ExchangeInv, NEW c \in Channels, NEW sender \in Roots,
           NEW d \in Drafts, Exchange!Create(c, sender, d)
    PROVE  Exchange!ExchangeInv'
  <1> PICK n : n = Len(envelopes)
    OBVIOUS
  <1> PICK e : e = [channel |-> c, source |-> sender, targets |-> d.targets, disc |-> d.disc,
                    call |-> d.call, parent |-> 0, root |-> n + 1, hop |-> 0]
    OBVIOUS
  <1>0. Exchange!Chained /\ Exchange!Queues /\ Exchange!Cached
    BY DEF Exchange!ExchangeInv
  <1>1. /\ n < MaxEnvelopes /\ Exchange!TargetsDisclosed(d.targets, d.disc)
        /\ envelopes' = Append(envelopes, e)
        /\ UNCHANGED <<handlers, seen, lanes, answering, calls, invoked, answers, delivered, spoken>>
    BY DEF Exchange!Create
  <1>2. e \in Exchange!Envelope
    <2>1. n + 1 \in Exchange!Number /\ 0 \in 0..MaxHops /\ 0 \in 0..MaxEnvelopes
      BY <1>0, <1>1, Made DEF Exchange!Number
    <2>2. sender \in Exchange!Endpoints
      BY DEF ExchangeAssumption
    <2>q. QED  BY <2>1, <2>2, DraftTyped DEF Exchange!Envelope
  <1>3. /\ e.targets = d.targets /\ e.disc = d.disc /\ e.parent = 0
    OBVIOUS
  <1>4. Len(envelopes) < MaxEnvelopes /\ e.parent \in 0..Len(envelopes)
    BY <1>0, <1>1, <1>3, Made
  <1>5. e.targets # <<>> /\ Exchange!Unlike(e.targets)
        /\ Exchange!TargetsDisclosed(e.targets, e.disc)
    BY <1>1, <1>3, DraftTyped
  <1>6. Exchange!Chained' /\ Grown
    <2> HIDE DEF Exchange!Envelope
    <2>q. QED  BY <1>0, <1>1, <1>2, <1>3, <1>4, <1>5, ChainGrows
  <1>q. QED  BY <1>0, <1>1, <1>6, QueuesStay, CachedStays DEF Exchange!ExchangeInv

LEMMA DerivedGrows ==
    ASSUME ExchangeAssumption, Exchange!Chained, NEW n \in DOMAIN envelopes,
           NEW sender \in Exchange!Endpoints,
           NEW targets \in Seq(Exchange!Endpoints), targets # <<>>, Exchange!Unlike(targets),
           NEW requested \in Exchange!Disclosures, NEW disc,
           disc = Exchange!Clamped(envelopes[n], sender, requested),
           NEW call \in Exchange!Requests \cup {Nothing}, Exchange!Derivable(envelopes[n], sender, targets, disc),
           Len(envelopes) < MaxEnvelopes, spoken' = spoken,
           envelopes' = Append(envelopes, Exchange!Derived(n, sender, targets, disc, call))
    PROVE  Exchange!Chained' /\ Grown
  <1> PICK p \in Exchange!Envelope : p = envelopes[n]
    BY Made
  <1>1. /\ p.channel \in Channels /\ p.root \in Exchange!Number
        /\ p.hop \in 0..MaxHops /\ p.disc \in Exchange!Disclosures
    BY EnvelopeTyped
  <1>2. /\ sender \in Exchange!Elements(p.targets) /\ p.hop < MaxHops
        /\ p.disc # Exchange!Room => Exchange!Elements(targets) \cap Agents \subseteq Exchange!Ends(p)
        /\ Exchange!TargetsDisclosed(targets, disc)
    BY DEF Exchange!Derivable
  <1>3. /\ disc \in Exchange!Disclosures /\ disc \subseteq p.disc
        /\ sender \in Agents => disc \subseteq VisibilityOf[sender]
    BY <1>1, Clamping
  <1> PICK e : e = [channel |-> p.channel, source |-> sender, targets |-> targets, disc |-> disc,
                    call |-> call, parent |-> n, root |-> p.root, hop |-> p.hop + 1]
    OBVIOUS
  <1>4. e = Exchange!Derived(n, sender, targets, disc, call)
    BY DEF Exchange!Derived
  <1>5. p.hop + 1 \in 0..MaxHops /\ n \in 0..MaxEnvelopes /\ n \in 0..Len(envelopes)
    BY <1>1, <1>2, Made DEF Exchange!Number
  <1>6. e \in Exchange!Envelope
    BY <1>1, <1>3, <1>5 DEF Exchange!Envelope
  <1>7. /\ e.targets = targets /\ e.disc = disc /\ e.parent = n /\ e.source = sender
    OBVIOUS
  <1>8. Exchange!Follows(e, p)
    BY <1>2, <1>3, <1>7 DEF Exchange!Follows
  <1>9. /\ e.parent \in 0..Len(envelopes) /\ e.targets # <<>> /\ Exchange!Unlike(e.targets)
        /\ Exchange!TargetsDisclosed(e.targets, e.disc) /\ Exchange!Follows(e, envelopes[e.parent])
    BY <1>2, <1>5, <1>7, <1>8
  <1>q. QED
    <2> HIDE DEF Exchange!Envelope
    <2>q. QED  BY <1>4, <1>6, <1>9, ChainGrows

LEMMA DispatchKeeps ==
    ASSUME ExchangeAssumption, Exchange!ExchangeInv, NEW n \in Exchange!Number,
           Exchange!Dispatch(n) PROVE Exchange!ExchangeInv'
  <1>0. Exchange!Chained /\ Exchange!Queues /\ Exchange!Cached
    BY DEF Exchange!ExchangeInv
  <1>1. n \in DOMAIN envelopes /\ n \notin seen /\ seen' = seen \cup {n}
        /\ UNCHANGED <<envelopes, answering, calls, invoked, answers, delivered, spoken>>
    BY DEF Exchange!Dispatch
  <1> PICK e \in Exchange!Envelope : e = envelopes[n]
    BY <1>0, <1>1, Made
  <1> PICK c \in Channels : c = e.channel
    BY EnvelopeTyped
  <1>2. e.targets \in Seq(Exchange!Endpoints) /\ e.targets # <<>> /\ Exchange!Unlike(e.targets)
    BY <1>0, <1>1, EnvelopeTyped DEF Exchange!Chained, Exchange!Linked
  <1> PICK x : x = [id |-> n, left |-> e.targets]
    OBVIOUS
  <1>3. x \in Exchange!Entry /\ x.id = n /\ x.left = e.targets
    BY <1>2 DEF Exchange!Entry
  <1>4. lanes' = [lanes EXCEPT ![c] = Append(@, x)]
    BY DEF Exchange!Dispatch
  <1> PICK q \in Seq(Exchange!Entry) : q = lanes[c]
    BY <1>0, QueueFacts
  <1> PICK r : r = Append(q, x)
    OBVIOUS
  <1>5. /\ r \in Seq(Exchange!Entry) /\ r # <<>>
        /\ DOMAIN q = 1..Len(q) /\ DOMAIN r = 1..(Len(q) + 1)
        /\ Len(q) \in Nat /\ r[Len(q) + 1] = x /\ \A k \in DOMAIN q : r[k] = q[k]
    BY <1>3, AtEnd
  <1>6. Exchange!LaneHolds(r, delivered[c], answering[c])
    <2>1. /\ \A k \in DOMAIN q : q[k].id # x.id
          /\ \A i \in DOMAIN delivered[c] : delivered[c][i][1] # x.id
      BY <1>0, <1>1, <1>3, QueueFacts DEF Exchange!LaneKnown
    <2>2. Exchange!LaneHolds(q, delivered[c], answering[c])
      BY <1>0, QueueFacts
    <2>q. QED  BY <1>2, <1>3, <2>1, <2>2, LaneJoins
  <1>7. /\ lanes' \in [Channels -> Seq(Exchange!Entry)] /\ lanes'[c] = r
        /\ \A d \in Channels : d # c => lanes'[d] = lanes[d]
    <2> HIDE DEF Exchange!Entry
    <2>q. QED  BY <1>0, <1>4, <1>5 DEF Exchange!Queues
  <1>8. ASSUME NEW d \in Channels
        PROVE  Exchange!LaneKnown(d)' /\ Exchange!LaneHolds(lanes'[d], delivered'[d], answering'[d])
    <2>0. Exchange!LaneKnown(d) /\ Exchange!LaneHolds(lanes[d], delivered[d], answering[d])
      BY <1>0, QueueFacts
    <2>1. CASE d # c
      <3>1. lanes'[d] = lanes[d]
        BY <1>7, <2>1
      <3>q. QED  BY <1>1, <2>0, <3>1 DEF Exchange!LaneKnown, Exchange!Busy, Exchange!Target
    <2>2. CASE d = c
      <3>1. ASSUME NEW k \in DOMAIN r PROVE r[k].id \in seen' /\ envelopes[r[k].id].channel = c
        <4>1. CASE k \in DOMAIN q
          BY <1>1, <1>5, <2>0, <2>2, <4>1 DEF Exchange!LaneKnown
        <4>2. CASE k = Len(q) + 1
          BY <1>1, <1>3, <1>5, <4>2
        <4>q. QED  BY <1>5, <4>1, <4>2
      <3>2. \A i \in DOMAIN delivered[c] : delivered[c][i][1] \in seen'
        BY <1>1, <2>0, <2>2 DEF Exchange!LaneKnown
      <3>3. answering[c] # Nothing => r # <<>> /\ Head(Head(r).left) \in Agents
        <4> SUFFICES ASSUME answering[c] # Nothing PROVE Head(Head(r).left) \in Agents
          BY <1>5
        <4>1. q # <<>> /\ Head(Head(q).left) \in Agents
          BY <2>0, <2>2 DEF Exchange!LaneKnown, Exchange!Busy, Exchange!Target
        <4>2. Head(r) = Head(q)
          <5>1. 1 \in DOMAIN q /\ Head(q) = q[1] /\ Head(r) = r[1]
            BY <1>5, <4>1, AtHead
          <5>q. QED  BY <1>5, <5>1
        <4>q. QED  BY <4>1, <4>2
      <3>q. QED
        BY <1>1, <1>6, <1>7, <2>2, <3>1, <3>2, <3>3 DEF Exchange!LaneKnown, Exchange!Busy,
           Exchange!Target
    <2>q. QED  BY <2>1, <2>2
  <1>9. Exchange!Queues'
    <2>1. seen' \subseteq DOMAIN envelopes
      BY <1>0, <1>1 DEF Exchange!Queues
    <2>q. QED  BY <1>0, <1>1, <1>7, <1>8, <2>1 DEF Exchange!Queues
  <1>10. Exchange!Chained' /\ Grown
    BY <1>0, <1>1, ChainStays
  <1>q. QED  BY <1>0, <1>1, <1>9, <1>10, CachedStays DEF Exchange!ExchangeInv

LEMMA HandParticipantKeeps ==
    ASSUME ExchangeAssumption, Exchange!ExchangeInv, NEW c \in Channels,
           Exchange!HandParticipant(c)
    PROVE  Exchange!ExchangeInv'
  <1>0. Exchange!Chained /\ Exchange!Queues /\ Exchange!Cached
    BY DEF Exchange!ExchangeInv
  <1>1. /\ Exchange!Busy(c) /\ Exchange!Target(c) \in Participants /\ Exchange!Delivering(c) /\ (Exchange!Advance(c) \/ Exchange!Skip(c))
        /\ UNCHANGED <<envelopes, handlers, seen, answering, calls, invoked, answers, spoken>>
    BY DEF Exchange!HandParticipant
  <1>2. Exchange!Target(c) \notin Agents
    BY <1>1 DEF ExchangeAssumption
  <1>3. Exchange!Chained' /\ Grown
    BY <1>0, <1>1, ChainStays
  <1>4. Exchange!Queues'
    BY <1>0, <1>1, <1>2, <1>3, HandedOver
  <1>q. QED  BY <1>0, <1>1, <1>3, <1>4, CachedStays DEF Exchange!ExchangeInv

LEMMA RefuseKeeps ==
    ASSUME ExchangeAssumption, Exchange!ExchangeInv, NEW c \in Channels,
           Exchange!Refuse(c) PROVE Exchange!ExchangeInv'
  <1>0. Exchange!Chained /\ Exchange!Queues /\ Exchange!Cached
    BY DEF Exchange!ExchangeInv
  <1>1. /\ Exchange!Busy(c) /\ Exchange!Target(c) \in Services
        /\ Exchange!Delivering(c) /\ Exchange!Skip(c)
        /\ UNCHANGED <<envelopes, handlers, seen, answering, calls, invoked, answers, spoken>>
    BY DEF Exchange!Refuse
  <1>2. Exchange!Target(c) \notin Agents
    BY <1>1 DEF ExchangeAssumption
  <1>3. Exchange!Chained' /\ Grown
    BY <1>0, <1>1, ChainStays
  <1>4. Exchange!Queues'
    BY <1>0, <1>1, <1>2, <1>3, HandedOver
  <1>q. QED  BY <1>0, <1>1, <1>3, <1>4, CachedStays DEF Exchange!ExchangeInv

\* The envelope at the head of a lane.
LEMMA CurrentTyped ==
    ASSUME ExchangeAssumption, Exchange!Chained, Exchange!Queues, NEW c \in Channels,
           Exchange!Busy(c)
    PROVE  /\ Head(lanes[c]).id \in DOMAIN envelopes /\ Head(lanes[c]).id \in Exchange!Number
           /\ Head(lanes[c]).id \in seen
           /\ Exchange!Current(c) = envelopes[Head(lanes[c]).id]
           /\ Exchange!Current(c) \in Exchange!Envelope
           /\ Exchange!Target(c) \in Exchange!Endpoints
  <1> PICK q \in Seq(Exchange!Entry) : q = lanes[c]
    BY QueueFacts
  <1>1. 1 \in DOMAIN q /\ Head(q) = q[1] /\ q[1] \in Exchange!Entry
    BY AtHead DEF Exchange!Busy
  <1> PICK h \in Exchange!Entry : h = Head(q)
    BY <1>1
  <1>2. h.id \in seen /\ h.id \in DOMAIN envelopes
    BY <1>1, QueueFacts DEF Exchange!LaneKnown, Exchange!Queues
  <1>3. h.left \in Seq(Exchange!Endpoints) /\ h.left # <<>>
    BY <1>1, EntryTyped, QueueFacts DEF Exchange!LaneHolds
  <1>4. Head(h.left) \in Exchange!Endpoints
    BY <1>3, AtHead
  <1>q. QED  BY <1>2, <1>4, Made DEF Exchange!Current, Exchange!Target

LEMMA CallAbortKeeps ==
    ASSUME ExchangeAssumption, Exchange!ExchangeInv, NEW c \in Channels,
           Exchange!Abort(c) PROVE Exchange!ExchangeInv'
  <1>0. Exchange!Chained /\ Exchange!Queues /\ Exchange!Cached
    BY DEF Exchange!ExchangeInv
  <1>1. /\ Exchange!Busy(c) /\ answering[c] = Nothing /\ Exchange!Skip(c)
        /\ UNCHANGED <<envelopes, handlers, seen, answering, calls, invoked, answers, delivered, spoken>>
    BY DEF Exchange!Abort
  <1>2. answering' = [answering EXCEPT ![c] = Nothing]
    BY <1>0, <1>1 DEF Exchange!Queues
  <1>3. Exchange!Chained' /\ Grown
    BY <1>0, <1>1, ChainStays
  <1>4. Exchange!Queues'
    BY <1>0, <1>1, <1>2, <1>3, WorkEnds
  <1>q. QED  BY <1>0, <1>1, <1>3, <1>4, CachedStays DEF Exchange!ExchangeInv

LEMMA CallInvokeKeeps ==
    ASSUME ExchangeAssumption, Exchange!ExchangeInv, NEW c \in Channels,
           Exchange!Invoke(c) PROVE Exchange!ExchangeInv'
  <1>0. Exchange!Chained /\ Exchange!Queues /\ Exchange!Cached
    BY DEF Exchange!ExchangeInv
  <1>1. /\ Exchange!Busy(c) /\ Exchange!Target(c) \in Agents
        /\ answering[c] = Nothing /\ Exchange!Delivering(c)
        /\ answering' = [answering EXCEPT ![c] = "registered"]
        /\ UNCHANGED <<envelopes, handlers, seen, lanes, calls, invoked, answers, spoken>>
    BY DEF Exchange!Invoke
  <1>2. Exchange!Chained' /\ Grown
    BY <1>0, <1>1, ChainStays
  <1> PICK q \in Seq(Exchange!Entry) : q = lanes[c]
    BY <1>0, QueueFacts
  <1> PICK g \in Exchange!Log : g = delivered[c]
    BY <1>0, QueueFacts
  <1> PICK l : l = Handed(g, q)
    OBVIOUS
  <1>3. q # <<>> /\ Exchange!LaneHolds(q, g, Nothing)
    BY <1>0, <1>1, QueueFacts DEF Exchange!Busy
  <1>4. PICK w \in {Nothing, "registered", "dropped"} : w = "registered" /\ w # Nothing
    BY DEF ExchangeAssumption
  <1>5. Exchange!LaneHolds(q, l, w) /\ Adds(g, l, q[1].id)
    BY <1>3, <1>4, LaneDelivers
  <1>6. \A i \in DOMAIN l : l[i][1] \in seen
    BY <1>0, <1>3, <1>5, AtHead, QueueFacts DEF Exchange!LaneKnown, Adds
  <1>7. Moves(c, q, l, w)
    <2>1. lanes' = [lanes EXCEPT ![c] = q]
      BY <1>0, <1>1 DEF Exchange!Queues
    <2>2. delivered' = [delivered EXCEPT ![c] = l]
      BY <1>1 DEF Exchange!Delivering, Handed, Exchange!Target
    <2>q. QED  BY <1>1, <1>4, <2>1, <2>2 DEF Moves
  <1>8. q # <<>> /\ Head(Head(q).left) \in Agents
    BY <1>1, <1>3 DEF Exchange!Target
  <1>9. \A k \in DOMAIN q : \E j \in DOMAIN lanes[c] : q[k].id = lanes[c][j].id
    OBVIOUS
  <1>10. Exchange!Queues'
    BY <1>0, <1>1, <1>2, <1>5, <1>6, <1>7, <1>8, <1>9, ChannelMoves
  <1>q. QED  BY <1>0, <1>1, <1>2, <1>10, CachedStays DEF Exchange!ExchangeInv

LEMMA AnswerKeeps ==
    ASSUME ExchangeAssumption, Exchange!ExchangeInv, NEW c \in Channels, NEW d \in Drafts,
           Exchange!Answer(c, d)
    PROVE  Exchange!ExchangeInv'
  <1>0. Exchange!Chained /\ Exchange!Queues /\ Exchange!Cached
    BY DEF Exchange!ExchangeInv
  <1> PICK n : n = Head(lanes[c]).id
    OBVIOUS
  <1> PICK agent : agent = Exchange!Target(c)
    OBVIOUS
  <1> PICK disc : disc = Exchange!Clamped(Exchange!Current(c), agent, d.disc)
    OBVIOUS
  <1>1. /\ Exchange!Busy(c) /\ answering[c] = "registered" /\ Len(envelopes) < MaxEnvelopes
        /\ Exchange!Derivable(Exchange!Current(c), agent, d.targets, disc)
        /\ envelopes' = Append(envelopes, Exchange!Derived(n, agent, d.targets, disc, d.call))
        /\ answering' = [answering EXCEPT ![c] = Nothing] /\ Exchange!Advance(c)
        /\ UNCHANGED <<handlers, seen, calls, invoked, answers, delivered, spoken>>
    BY DEF Exchange!Answer
  <1>2. n \in DOMAIN envelopes /\ Exchange!Current(c) = envelopes[n] /\ agent \in Exchange!Endpoints
    BY <1>0, <1>1, CurrentTyped
  <1>3. Exchange!Chained' /\ Grown
    BY <1>0, <1>1, <1>2, DraftTyped, DerivedGrows
  <1>4. answering[c] # Nothing
    BY <1>1 DEF ExchangeAssumption
  <1>5. Exchange!Queues'
    BY <1>0, <1>1, <1>3, <1>4, WorkEnds
  <1>q. QED  BY <1>0, <1>1, <1>3, <1>5, CachedStays DEF Exchange!ExchangeInv

LEMMA AgentUtterKeeps ==
    ASSUME ExchangeAssumption, Exchange!ExchangeInv, NEW c \in Channels, NEW d \in Drafts,
           Exchange!Utter(c, d.disc)
    PROVE  Exchange!ExchangeInv'
  <1>0. Exchange!Chained /\ Exchange!Queues /\ Exchange!Cached
    BY DEF Exchange!ExchangeInv
  <1> PICK n : n = Head(lanes[c]).id
    OBVIOUS
  <1> PICK audience : audience = Exchange!Clamped(Exchange!Current(c), Exchange!Target(c), d.disc)
    OBVIOUS
  <1>1. /\ Exchange!Busy(c) /\ answering[c] = "registered"
        /\ spoken' = spoken \cup {<<n, audience>>}
        /\ answering' = [answering EXCEPT ![c] = Nothing] /\ Exchange!Advance(c)
        /\ UNCHANGED <<envelopes, handlers, seen, calls, invoked, answers, delivered>>
    BY DEF Exchange!Utter
  <1>2. n \in DOMAIN envelopes /\ Exchange!Current(c) = envelopes[n]
        /\ Exchange!Current(c) \in Exchange!Envelope
    BY <1>0, <1>1, CurrentTyped
  <1> PICK p \in Exchange!Envelope : p = envelopes[n]
    BY <1>2
  <1>3. audience \subseteq p.disc
    BY <1>2, DraftTyped, EnvelopeTyped, Clamping
  <1>4. Exchange!Chained'
    <2>1. \A u \in spoken' : u[1] \in DOMAIN envelopes /\ u[2] \subseteq envelopes[u[1]].disc
      BY <1>0, <1>1, <1>2, <1>3 DEF Exchange!Chained
    <2>q. QED  BY <1>0, <1>1, <2>1 DEF Exchange!Chained
  <1>5. Grown
    BY <1>1 DEF Grown
  <1>6. answering[c] # Nothing
    BY <1>1 DEF ExchangeAssumption
  <1>7. Exchange!Queues'
    BY <1>0, <1>1, <1>5, <1>6, WorkEnds
  <1>q. QED  BY <1>0, <1>1, <1>4, <1>5, <1>7, CachedStays DEF Exchange!ExchangeInv

LEMMA AnswerNothingKeeps ==
    ASSUME ExchangeAssumption, Exchange!ExchangeInv, NEW c \in Channels,
           Exchange!AnswerNothing(c) PROVE Exchange!ExchangeInv'
  <1>0. Exchange!Chained /\ Exchange!Queues /\ Exchange!Cached
    BY DEF Exchange!ExchangeInv
  <1>1. /\ Exchange!Busy(c) /\ answering[c] # Nothing
        /\ answering' = [answering EXCEPT ![c] = Nothing]
        /\ (Exchange!Advance(c) \/ Exchange!Skip(c))
        /\ UNCHANGED <<envelopes, handlers, seen, calls, invoked, answers, delivered, spoken>>
    BY DEF Exchange!AnswerNothing
  <1>2. Exchange!Chained' /\ Grown
    BY <1>0, <1>1, ChainStays
  <1>3. Exchange!Queues'
    BY <1>0, <1>1, <1>2, WorkEnds
  <1>q. QED  BY <1>0, <1>1, <1>2, <1>3, CachedStays DEF Exchange!ExchangeInv

LEMMA ReregisterKeeps ==
    ASSUME ExchangeAssumption, Exchange!ExchangeInv, NEW a \in Agents,
           Exchange!Reregister(a) PROVE Exchange!ExchangeInv'
  <1>0. Exchange!Chained /\ Exchange!Queues /\ Exchange!Cached
    BY DEF Exchange!ExchangeInv
  <1>1. /\ answering' = [c \in Channels |->
               IF answering[c] = "registered" /\ Exchange!Target(c) = a THEN "dropped" ELSE answering[c]]
        /\ UNCHANGED <<envelopes, handlers, seen, lanes, calls, invoked, answers, delivered, spoken>>
    BY DEF Exchange!Reregister
  <1>2. Exchange!Chained' /\ Grown
    BY <1>0, <1>1, ChainStays
  <1>3. /\ answering' \in [Channels -> {Nothing, "registered", "dropped"}]
        /\ \A c \in Channels : answering'[c] = Nothing <=> answering[c] = Nothing
    <2>1. "registered" # Nothing /\ "dropped" # Nothing
      BY DEF ExchangeAssumption
    <2>q. QED  BY <1>0, <1>1, <2>1 DEF Exchange!Queues
  <1>4. ASSUME NEW c \in Channels
        PROVE  Exchange!LaneKnown(c)' /\ Exchange!LaneHolds(lanes'[c], delivered'[c], answering'[c])
    <2>1. Exchange!LaneKnown(c) /\ Exchange!LaneHolds(lanes[c], delivered[c], answering[c])
      BY <1>0, QueueFacts
    <2>2. Exchange!LaneKnown(c)'
      BY <1>1, <1>3, <2>1 DEF Exchange!LaneKnown, Exchange!Busy, Exchange!Target
    <2>3. Exchange!LaneHolds(lanes[c], delivered[c], answering'[c])
      <3>1. \A e : Exchange!Unmet(e, answering'[c]) = Exchange!Unmet(e, answering[c])
        BY <1>3 DEF Exchange!Unmet
      <3>q. QED  BY <2>1, <3>1 DEF Exchange!LaneHolds
    <2>q. QED  BY <1>1, <2>2, <2>3
  <1>5. Exchange!Queues'
    BY <1>0, <1>1, <1>3, <1>4 DEF Exchange!Queues
  <1>q. QED  BY <1>0, <1>1, <1>2, <1>5, CachedStays DEF Exchange!ExchangeInv

-----------------------------------------------------------------------------
\* Service calls.
LEMMA CallTyped ==
    ASSUME NEW e \in Exchange!Envelope, Exchange!Allowed(e)
    PROVE  Exchange!Key(e) \in Exchange!Keys /\ Exchange!Fingerprint(e) \in Exchange!Asked
           /\ Exchange!CallOf(e) = calls[Exchange!Key(e)]
  <1>1. e.call \in CallIds \X Services
    BY EnvelopeTyped DEF Exchange!Allowed, Exchange!Requests
  <1>2. e.call[1] \in CallIds /\ e.call[2] \in Services
    BY <1>1
  <1>q. QED
    BY <1>2, EnvelopeTyped DEF Exchange!Allowed, Exchange!Key, Exchange!Keys,
       Exchange!Fingerprint, Exchange!Asked, Exchange!CallOf

LEMMA RepeatKeeps ==
    ASSUME ExchangeAssumption, Exchange!ExchangeInv, NEW c \in Channels,
           Exchange!Repeat(c) PROVE Exchange!ExchangeInv'
  <1>0. Exchange!Chained /\ Exchange!Queues /\ Exchange!Cached
    BY DEF Exchange!ExchangeInv
  <1> PICK n : n = Head(lanes[c]).id
    OBVIOUS
  <1> PICK e : e = Exchange!Current(c)
    OBVIOUS
  <1>1. /\ Exchange!Busy(c) /\ Exchange!Target(c) \in Services
        /\ Exchange!Allowed(e) /\ Exchange!CallOf(e).asked = Exchange!Fingerprint(e)
        /\ Exchange!Delivering(c) /\ Exchange!Advance(c)
        /\ answers' = answers \cup {<<n, Exchange!Key(e)>>}
        /\ UNCHANGED <<envelopes, handlers, seen, answering, calls, invoked, spoken>>
    BY DEF Exchange!Repeat
  <1>2. Exchange!Target(c) \notin Agents
    BY <1>1 DEF ExchangeAssumption
  <1>3. Exchange!Chained' /\ Grown
    BY <1>0, <1>1, ChainStays
  <1>4. Exchange!Queues'
    BY <1>0, <1>1, <1>2, <1>3, HandedOver
  <1>5. n \in DOMAIN envelopes /\ n \in Exchange!Number
        /\ e = envelopes[n] /\ e \in Exchange!Envelope
    BY <1>0, <1>1, CurrentTyped
  <1>6. Exchange!Key(e) \in Exchange!Keys /\ calls[Exchange!Key(e)].asked = Exchange!Fingerprint(e)
        /\ Exchange!Fingerprint(e) \in Exchange!Asked
    BY <1>1, <1>5, CallTyped
  <1> PICK x \in Exchange!Number \X Exchange!Keys : x = <<n, Exchange!Key(e)>>
    BY <1>5, <1>6
  <1>7. x[1] = n /\ x[2] = Exchange!Key(e) /\ answers' = answers \cup {x}
    BY <1>1
  <1>8. Exchange!Cached'
    <2>1. answers' \subseteq Exchange!Number \X Exchange!Keys
      BY <1>0, <1>7 DEF Exchange!Cached
    <2>2. ASSUME NEW a \in answers'
          PROVE  /\ a[1] \in DOMAIN envelopes /\ calls[a[2]].asked \in Exchange!Asked
                /\ calls[a[2]].asked = Exchange!Fingerprint(envelopes[a[1]])
      BY <1>0, <1>5, <1>6, <1>7 DEF Exchange!Cached
    <2>q. QED  BY <1>0, <1>1, <2>1, <2>2 DEF Exchange!Cached, Exchange!Fingerprint
  <1>q. QED  BY <1>3, <1>4, <1>8 DEF Exchange!ExchangeInv

\* How an invocation of a service may go.
Outcomes == {"threw", "answered", "rejected"}
\* One more outcome of a call whose invocations all threw so far.
LEMMA InvokedGrows ==
    ASSUME Exchange!Cached, NEW key \in Exchange!Keys, NEW how \in Outcomes,
           invoked' = [invoked EXCEPT ![key] = Append(@, how)],
           \A i \in DOMAIN invoked[key] : invoked[key][i] = "threw",
           \A k \in Exchange!Keys : calls[k].asked # Nothing => calls'[k].asked # Nothing,
           how = "threw" \/ calls'[key].asked # Nothing
    PROVE  /\ invoked' \in [Exchange!Keys -> Seq(Outcomes)]
           /\ \A k \in Exchange!Keys : \A i \in DOMAIN invoked'[k] :
                invoked'[k][i] # "threw" => i = Len(invoked'[k]) /\ calls'[k].asked # Nothing
  <1>1. /\ invoked \in [Exchange!Keys -> Seq(Outcomes)]
        /\ \A k \in Exchange!Keys : \A i \in DOMAIN invoked[k] :
             invoked[k][i] # "threw" => i = Len(invoked[k]) /\ calls[k].asked # Nothing
    BY DEF Exchange!Cached, Outcomes
  <1> PICK log \in Seq(Outcomes) : log = invoked[key]
    BY <1>1
  <1>2. /\ Append(log, how) \in Seq(Outcomes)
        /\ Len(Append(log, how)) = Len(log) + 1 /\ Len(log) \in Nat
        /\ Append(log, how)[Len(log) + 1] = how
        /\ \A i \in DOMAIN Append(log, how) : i # Len(log) + 1 => i \in DOMAIN log /\ Append(log, how)[i] = log[i]
    OBVIOUS
  <1>3. /\ invoked'[key] = Append(log, how)
        /\ \A k \in Exchange!Keys : k # key => invoked'[k] = invoked[k]
    BY <1>1
  <1>4. invoked' \in [Exchange!Keys -> Seq(Outcomes)]
    BY <1>1, <1>2, <1>3
  <1>5. ASSUME NEW k \in Exchange!Keys, NEW i \in DOMAIN invoked'[k], invoked'[k][i] # "threw"
        PROVE  i = Len(invoked'[k]) /\ calls'[k].asked # Nothing
    <2>1. CASE k = key
      BY <1>2, <1>3, <1>5, <2>1
    <2>2. CASE k # key
      BY <1>1, <1>3, <1>5, <2>2
    <2>q. QED  BY <2>1, <2>2
  <1>q. QED  BY <1>4, <1>5

LEMMA ServeKeeps ==
    ASSUME ExchangeAssumption, Exchange!ExchangeInv, NEW c \in Channels, NEW ok \in BOOLEAN,
           Exchange!Serve(c, ok)
    PROVE  Exchange!ExchangeInv'
  <1>0. Exchange!Chained /\ Exchange!Queues /\ Exchange!Cached
    BY DEF Exchange!ExchangeInv
  <1> PICK n : n = Head(lanes[c]).id
    OBVIOUS
  <1> PICK e : e = Exchange!Current(c)
    OBVIOUS
  <1> PICK key : key = Exchange!Key(e)
    OBVIOUS
  <1> PICK print : print = Exchange!Fingerprint(e)
    OBVIOUS
  <1>1. /\ Exchange!Busy(c) /\ Exchange!Target(c) \in Services
        /\ Exchange!Allowed(e) /\ Exchange!CallOf(e).asked = Nothing
        /\ Exchange!Delivering(c) /\ (Exchange!Advance(c) \/ Exchange!Skip(c))
        /\ invoked' = [invoked EXCEPT ![key] = Append(@, IF ok THEN "answered" ELSE "rejected")]
        /\ calls' = [calls EXCEPT ![key] = [asked |-> print, ok |-> ok]]
        /\ answers' = answers \cup {x \in {<<n, key>>} : ok}
        /\ UNCHANGED <<envelopes, handlers, seen, answering, spoken>>
    BY DEF Exchange!Serve
  <1>2. Exchange!Target(c) \notin Agents
    BY <1>1 DEF ExchangeAssumption
  <1>3. Exchange!Chained' /\ Grown
    BY <1>0, <1>1, ChainStays
  <1>4. Exchange!Queues'
    BY <1>0, <1>1, <1>2, <1>3, HandedOver
  <1>5. n \in DOMAIN envelopes /\ n \in Exchange!Number
        /\ e = envelopes[n] /\ e \in Exchange!Envelope
    BY <1>0, <1>1, CurrentTyped
  <1>6. key \in Exchange!Keys /\ print \in Exchange!Asked /\ calls[key].asked = Nothing
    BY <1>1, <1>5, CallTyped
  <1>7. print # Nothing
    BY <1>6 DEF ExchangeAssumption
  <1> PICK x \in Exchange!Number \X Exchange!Keys : x = <<n, key>>
    BY <1>5, <1>6
  <1> PICK y \in [asked : Exchange!Asked \cup {Nothing}, ok : BOOLEAN] : y = [asked |-> print, ok |-> ok]
    BY <1>6
  <1>8. y.asked = print
    OBVIOUS
  <1>9. /\ calls' \in [Exchange!Keys -> [asked : Exchange!Asked \cup {Nothing}, ok : BOOLEAN]] /\ calls'[key] = y
        /\ \A k \in Exchange!Keys : k # key => calls'[k] = calls[k]
    <2>1. calls' = [calls EXCEPT ![key] = y]
      BY <1>1
    <2>q. QED  BY <1>0, <1>6, <2>1 DEF Exchange!Cached
  <1>10. /\ invoked' \in [Exchange!Keys -> Seq(Outcomes)]
         /\ \A k \in Exchange!Keys : \A i \in DOMAIN invoked'[k] :
              invoked'[k][i] # "threw" => i = Len(invoked'[k]) /\ calls'[k].asked # Nothing
    <2>1. ASSUME NEW i \in DOMAIN invoked[key] PROVE invoked[key][i] = "threw"
      BY <1>0, <1>6 DEF Exchange!Cached
    <2>2. PICK how \in Outcomes : how = IF ok THEN "answered" ELSE "rejected"
      BY DEF Outcomes
    <2>3. \A k \in Exchange!Keys : calls[k].asked # Nothing => calls'[k].asked # Nothing
      BY <1>7, <1>8, <1>9
    <2>4. calls'[key].asked # Nothing
      BY <1>7, <1>8, <1>9
    <2>q. QED  BY <1>0, <1>1, <1>6, <2>1, <2>2, <2>3, <2>4, InvokedGrows
  <1>11. x[1] = n /\ x[2] = key /\ answers' \subseteq answers \cup {x}
    BY <1>1
  <1>12. Exchange!Cached'
    <2>1. answers' \subseteq Exchange!Number \X Exchange!Keys
      BY <1>0, <1>11 DEF Exchange!Cached
    <2>3. ASSUME NEW a \in answers'
          PROVE  /\ a[1] \in DOMAIN envelopes /\ calls'[a[2]].asked \in Exchange!Asked
                /\ calls'[a[2]].asked = Exchange!Fingerprint(envelopes[a[1]])
      <3>1. CASE a = x
        BY <1>5, <1>6, <1>8, <1>9, <1>11, <3>1
      <3>2. CASE a \in answers
        <4>1. /\ a[1] \in DOMAIN envelopes
              /\ calls[a[2]].asked = Exchange!Fingerprint(envelopes[a[1]])
              /\ a[2] \in Exchange!Keys /\ calls[a[2]].asked \in Exchange!Asked
          BY <1>0, <3>2 DEF Exchange!Cached
        <4>2. a[2] # key
          BY <4>1, <1>6 DEF ExchangeAssumption
        <4>q. QED  BY <1>9, <4>1, <4>2
      <3>q. QED  BY <1>11, <3>1, <3>2
    <2>q. QED  BY <1>1, <1>9, <1>10, <2>1, <2>3 DEF Exchange!Cached, Exchange!Fingerprint, Outcomes
  <1>q. QED  BY <1>3, <1>4, <1>12 DEF Exchange!ExchangeInv

LEMMA ServeThrowsKeeps ==
    ASSUME ExchangeAssumption, Exchange!ExchangeInv, NEW c \in Channels,
           Exchange!ServeThrows(c)
    PROVE  Exchange!ExchangeInv'
  <1>0. Exchange!Chained /\ Exchange!Queues /\ Exchange!Cached
    BY DEF Exchange!ExchangeInv
  <1> PICK e : e = Exchange!Current(c)
    OBVIOUS
  <1> PICK key : key = Exchange!Key(e)
    OBVIOUS
  <1>1. /\ Exchange!Busy(c) /\ Exchange!Target(c) \in Services
        /\ Exchange!Allowed(e) /\ Exchange!CallOf(e).asked = Nothing
        /\ Exchange!Delivering(c) /\ Exchange!Skip(c)
        /\ invoked' = [invoked EXCEPT ![key] = Append(@, "threw")]
        /\ UNCHANGED <<envelopes, handlers, seen, answering, calls, answers, spoken>>
    BY DEF Exchange!ServeThrows
  <1>2. Exchange!Target(c) \notin Agents
    BY <1>1 DEF ExchangeAssumption
  <1>3. Exchange!Chained' /\ Grown
    BY <1>0, <1>1, ChainStays
  <1>4. Exchange!Queues'
    BY <1>0, <1>1, <1>2, <1>3, HandedOver
  <1>5. e \in Exchange!Envelope
    BY <1>0, <1>1, CurrentTyped
  <1>6. key \in Exchange!Keys /\ calls[key].asked = Nothing
    BY <1>1, <1>5, CallTyped
  <1>7. /\ invoked' \in [Exchange!Keys -> Seq(Outcomes)]
        /\ \A k \in Exchange!Keys : \A i \in DOMAIN invoked'[k] :
             invoked'[k][i] # "threw" => i = Len(invoked'[k]) /\ calls'[k].asked # Nothing
    <2>1. ASSUME NEW i \in DOMAIN invoked[key] PROVE invoked[key][i] = "threw"
      BY <1>0, <1>6 DEF Exchange!Cached
    <2>2. "threw" \in Outcomes
      BY DEF Outcomes
    <2>q. QED  BY <1>0, <1>1, <1>6, <2>1, <2>2, InvokedGrows
  <1>8. ASSUME NEW a \in answers
        PROVE  /\ a[1] \in DOMAIN envelopes' /\ calls[a[2]].asked \in Exchange!Asked
               /\ calls[a[2]].asked = Exchange!Fingerprint(envelopes'[a[1]])
    BY <1>0, <1>3 DEF Exchange!Cached, Grown
  <1>9. Exchange!Cached'
    BY <1>0, <1>1, <1>7, <1>8 DEF Exchange!Cached, Exchange!Fingerprint, Outcomes
  <1>q. QED  BY <1>3, <1>4, <1>9 DEF Exchange!ExchangeInv

LEMMA ServiceResultKeeps ==
    ASSUME ExchangeAssumption, Exchange!ExchangeInv, NEW n \in Exchange!Number,
           NEW s \in Services, NEW d \in Drafts,
           Exchange!ServiceResult(n, s, d.disc)
    PROVE  Exchange!ExchangeInv'
  <1>0. Exchange!Chained /\ Exchange!Queues /\ Exchange!Cached
    BY DEF Exchange!ExchangeInv
  <1> PICK p : p = envelopes[n]
    OBVIOUS
  <1> PICK targets : targets = <<p.source>>
    OBVIOUS
  <1> PICK disc : disc = Exchange!Clamped(p, s, d.disc)
    OBVIOUS
  <1>1. /\ n \in DOMAIN envelopes /\ Len(envelopes) < MaxEnvelopes
        /\ Exchange!Derivable(p, s, targets, disc)
        /\ envelopes' = Append(envelopes, Exchange!Derived(n, s, targets, disc, Nothing))
        /\ UNCHANGED <<handlers, seen, lanes, answering, calls, invoked, answers, delivered, spoken>>
    BY DEF Exchange!ServiceResult
  <1>2. s \in Exchange!Endpoints /\ p.source \in Exchange!Endpoints
    BY <1>0, <1>1, Made, EnvelopeTyped, EndpointsTyped
  <1>3. targets \in Seq(Exchange!Endpoints) /\ targets # <<>> /\ Exchange!Unlike(targets)
    BY <1>2 DEF Exchange!Unlike
  <1>4. Exchange!Chained' /\ Grown
    <2>1. d.disc \in Exchange!Disclosures /\ Nothing \in Exchange!Requests \cup {Nothing}
      BY DraftTyped
    <2>q. QED  BY <1>0, <1>1, <1>2, <1>3, <2>1, DerivedGrows
  <1>5. Exchange!Queues'
    BY <1>0, <1>1, <1>4, QueuesStay
  <1>q. QED  BY <1>0, <1>1, <1>4, <1>5, CachedStays DEF Exchange!ExchangeInv

LEMMA NothingMoves ==
    ASSUME Exchange!ExchangeInv,
           UNCHANGED <<envelopes, seen, lanes, answering, calls, invoked, answers, delivered, spoken>>
    PROVE  Exchange!ExchangeInv'
  <1>0. Exchange!Chained /\ Exchange!Queues /\ Exchange!Cached
    BY DEF Exchange!ExchangeInv
  <1>1. Exchange!Chained' /\ Grown
    BY <1>0, ChainStays
  <1>2. Exchange!Queues'
    BY <1>0, <1>1, QueuesStay
  <1>q. QED  BY <1>0, <1>1, <1>2, CachedStays DEF Exchange!ExchangeInv

LEMMA ExchangeBegins == ASSUME ExchangeAssumption, Exchange!Init PROVE Exchange!ExchangeInv
  <1>1. /\ envelopes = <<>> /\ seen = {} /\ spoken = {} /\ answers = {}
        /\ lanes = [c \in Channels |-> <<>>] /\ answering = [c \in Channels |-> Nothing]
        /\ calls = [k \in Exchange!Keys |-> [asked |-> Nothing, ok |-> FALSE]]
        /\ invoked = [k \in Exchange!Keys |-> <<>>] /\ delivered = [c \in Channels |-> <<>>]
    BY DEF Exchange!Init
  <1>2. Exchange!Chained
    <2>1. envelopes \in Seq(Exchange!Envelope) /\ Len(envelopes) = 0 /\ 0 \in 0..MaxEnvelopes
          /\ DOMAIN envelopes = {}
      BY <1>1 DEF ExchangeAssumption
    <2>q. QED  BY <1>1, <2>1 DEF Exchange!Chained
  <1>3. Exchange!Queues
    <2>1. <<>> \in Seq(Exchange!Entry) /\ <<>> \in Exchange!Log
      BY DEF Exchange!Log
    <2>2. Exchange!LaneHolds(<<>>, <<>>, Nothing)
      BY <2>1 DEF Exchange!LaneHolds, Exchange!Once
    <2>3. ASSUME NEW c \in Channels
          PROVE  lanes[c] = <<>> /\ delivered[c] = <<>> /\ answering[c] = Nothing
      BY <1>1
    <2>4. ASSUME NEW c \in Channels PROVE Exchange!LaneKnown(c)
      BY <2>3 DEF Exchange!LaneKnown
    <2>q. QED  BY <1>1, <2>1, <2>2, <2>3, <2>4 DEF Exchange!Queues
  <1>4. Exchange!Cached
    BY <1>1 DEF Exchange!Cached
  <1>q. QED  BY <1>2, <1>3, <1>4 DEF Exchange!ExchangeInv

LEMMA ExchangeKept == ASSUME ExchangeAssumption, Exchange!ExchangeInv,
                             [Exchange!Next]_(Exchange!vars) PROVE Exchange!ExchangeInv'
  <1>1. CASE Exchange!Next
    <2>1. CASE \E c \in Channels, sender \in Roots, d \in Drafts : Exchange!Create(c, sender, d)
      BY <2>1, CreateKeeps
    <2>2. CASE \E n \in Exchange!Number : Exchange!Dispatch(n)
      BY <2>2, DispatchKeeps
    <2>3. CASE \E c \in Channels : Exchange!Deliver(c) \/ Exchange!Abort(c)
      BY <2>3, HandParticipantKeeps, CallInvokeKeeps, AnswerNothingKeeps, RefuseKeeps, RepeatKeeps,
         ServeKeeps, ServeThrowsKeeps, CallAbortKeeps DEF Exchange!Deliver
    <2>4. CASE \E c \in Channels, d \in Drafts : Exchange!Answer(c, d)
      BY <2>4, AnswerKeeps
    <2>5. CASE \E c \in Channels, d \in Drafts : Exchange!Utter(c, d.disc)
      BY <2>5, AgentUtterKeeps
    <2>6. CASE \E n \in Exchange!Number, s \in Services, d \in Drafts : Exchange!ServiceResult(n, s, d.disc)
      BY <2>6, ServiceResultKeeps
    <2>7. CASE \E a \in Agents : Exchange!Reregister(a)
      BY <2>7, ReregisterKeeps
    <2>8. CASE \E e \in Exchange!Endpoints : Exchange!Unregister(e)
      BY <2>8, NothingMoves DEF Exchange!Unregister
    <2>q. QED  BY <1>1, <2>1, <2>2, <2>3, <2>4, <2>5, <2>6, <2>7, <2>8 DEF Exchange!Next
  <1>2. CASE UNCHANGED Exchange!vars
    BY <1>2, NothingMoves DEF Exchange!vars
  <1>q. QED  BY <1>1, <1>2

LEMMA ExchangeHolds ==
    ASSUME ExchangeAssumption, Exchange!ExchangeInv
    PROVE  Exchange!TypeOK /\ Exchange!ChainStaysPrivate
           /\ Exchange!DeliveredOnceInLane /\ Exchange!CallsStayPrivate
  <1>0. Exchange!Chained /\ Exchange!Queues /\ Exchange!Cached
    BY DEF Exchange!ExchangeInv
  <1>1. Exchange!TypeOK
    <2>1. \A n \in DOMAIN envelopes : envelopes[n] \in Exchange!Envelope
      BY <1>0, Made
    <2>2. ASSUME NEW c \in Channels, NEW k \in DOMAIN lanes[c]
          PROVE  lanes[c][k].left # <<>> /\ envelopes[lanes[c][k].id].channel = c
      BY <1>0, QueueFacts DEF Exchange!LaneHolds, Exchange!LaneKnown
    <2>q. QED  BY <1>0, <2>1, <2>2 DEF Exchange!TypeOK, Exchange!Queues
  <1>2. Exchange!DeliveredOnceInLane
    BY <1>0 DEF Exchange!Queues, Exchange!LaneHolds, Exchange!DeliveredOnceInLane
  <1>3. Exchange!CallsStayPrivate
    <2>1. \A key \in Exchange!Keys : \A i \in DOMAIN invoked[key] :
             invoked[key][i] # "threw" => i = Len(invoked[key])
      BY <1>0 DEF Exchange!Cached
    <2>2. ASSUME NEW x \in answers, NEW y \in answers, x[2] = y[2]
          PROVE  /\ envelopes[x[1]].channel = envelopes[y[1]].channel
                 /\ envelopes[x[1]].disc = envelopes[y[1]].disc
      <3>1. Exchange!Fingerprint(envelopes[x[1]]) = Exchange!Fingerprint(envelopes[y[1]])
        BY <1>0, <2>2 DEF Exchange!Cached
      <3>q. QED  BY <3>1 DEF Exchange!Fingerprint
    <2>q. QED  BY <2>1, <2>2 DEF Exchange!CallsStayPrivate
  <1>q. QED  BY <1>1, <1>2, <1>3, ChainHolds

-----------------------------------------------------------------------------
(***************************************************************************)
(* The room: a step of one layer is a stutter of the others, so each       *)
(* layer's inductive invariant is kept by every step.                      *)
(***************************************************************************)

LEMMA RoomBegins == RoomInit => RoomInv
  <1> SUFFICES ASSUME RoomInit PROVE RoomInv
    OBVIOUS
  <1>1. Registry!RegistryInv
    BY RoomAssumption, RegistryBegins DEF RoomInit
  <1>2. Watch!WatchInv
    BY RoomAssumption, WatchBegins DEF RoomInit
  <1>3. Streams!StreamInv
    BY RoomAssumption, StreamBegins DEF RoomInit
  <1>4. Ladder!LadderInv
    BY RoomAssumption, LadderBegins DEF RoomInit
  <1>5. Turns!TurnsInv
    BY RoomAssumption, TurnsBegins DEF RoomInit
  <1>6. Exchange!ExchangeInv
    BY RoomAssumption, ExchangeBegins DEF RoomInit
  <1>7. QED BY <1>1, <1>2, <1>3, <1>4, <1>5, <1>6 DEF RoomInv

\* What a step of the room is for each of its layers.
LEMMA RoomMoves ==
    ASSUME [RoomNext]_roomVars
    PROVE  /\ [Registry!Next]_(Registry!vars)
           /\ [Watch!Next]_(Watch!vars)
           /\ [Streams!Next]_(Streams!vars)
           /\ [Ladder!Next]_(Ladder!vars)
           /\ [Turns!Next]_(Turns!vars)
           /\ [Exchange!Next]_(Exchange!vars)
  <1>1. UNCHANGED agentVars => UNCHANGED Registry!vars
    BY DEF agentVars, Registry!vars
  <1>2. UNCHANGED watchVars => UNCHANGED Watch!vars
    BY DEF watchVars, Watch!vars
  <1>3. UNCHANGED streamVars => UNCHANGED Streams!vars
    BY DEF streamVars, Streams!vars
  <1>4. UNCHANGED ladderVars => UNCHANGED Ladder!vars
    BY DEF ladderVars, Ladder!vars
  <1>5. UNCHANGED turnVars => UNCHANGED Turns!vars
    BY DEF turnVars, Turns!vars
  <1>6. UNCHANGED routerVars => UNCHANGED Exchange!vars
    BY DEF routerVars, Exchange!vars
  <1>7. Registry!Next \/ UNCHANGED agentVars
    BY DEF RoomNext, RegistryStep, WatchStep, StreamsStep, LadderStep, TurnsStep, ExchangeStep, roomVars
  <1>8. Watch!Next \/ UNCHANGED watchVars
    BY DEF RoomNext, RegistryStep, WatchStep, StreamsStep, LadderStep, TurnsStep, ExchangeStep, roomVars
  <1>9. Streams!Next \/ UNCHANGED streamVars
    BY DEF RoomNext, RegistryStep, WatchStep, StreamsStep, LadderStep, TurnsStep, ExchangeStep, roomVars
  <1>10. Ladder!Next \/ UNCHANGED ladderVars
    BY DEF RoomNext, RegistryStep, WatchStep, StreamsStep, LadderStep, TurnsStep, ExchangeStep, roomVars
  <1>11. Turns!Next \/ UNCHANGED turnVars
    BY DEF RoomNext, RegistryStep, WatchStep, StreamsStep, LadderStep, TurnsStep, ExchangeStep, roomVars
  <1>12. Exchange!Next \/ UNCHANGED routerVars
    BY DEF RoomNext, RegistryStep, WatchStep, StreamsStep, LadderStep, TurnsStep, ExchangeStep, roomVars
  <1>13. QED
    BY <1>1, <1>2, <1>3, <1>4, <1>5, <1>6, <1>7, <1>8, <1>9, <1>10, <1>11, <1>12

LEMMA RoomKept == RoomInv /\ [RoomNext]_roomVars => RoomInv'
  <1> SUFFICES ASSUME RoomInv, [RoomNext]_roomVars PROVE RoomInv'
    OBVIOUS
  <1>1. (Registry!RegistryInv)'
    BY RoomAssumption, RoomMoves, RegistryKept DEF RoomInv
  <1>2. (Watch!WatchInv)'
    BY RoomAssumption, RoomMoves, WatchKept DEF RoomInv
  <1>3. (Streams!StreamInv)'
    BY RoomAssumption, RoomMoves, StreamKept DEF RoomInv
  <1>4. (Ladder!LadderInv)'
    BY RoomAssumption, RoomMoves, LadderKept DEF RoomInv
  <1>5. (Turns!TurnsInv)'
    BY RoomAssumption, RoomMoves, TurnsKept DEF RoomInv
  <1>6. (Exchange!ExchangeInv)'
    BY RoomAssumption, RoomMoves, ExchangeKept DEF RoomInv
  <1>7. QED BY <1>1, <1>2, <1>3, <1>4, <1>5, <1>6 DEF RoomInv

-----------------------------------------------------------------------------
\* The invariant of the six layers holds of every behaviour of the room.
THEOREM RoomInvariant == RoomSpec => []RoomInv
  <1>1. RoomInit => RoomInv
    BY RoomBegins
  <1>2. RoomInv /\ [RoomNext]_roomVars => RoomInv'
    BY RoomKept
  <1>3. QED BY <1>1, <1>2, PTL DEF RoomSpec

\* The state of each layer of a room keeps its type (the registry of agents, the watchers,
\* a run's stream and its ladder, the turns on the floor, the router's lanes and calls).
THEOREM RoomWellTyped == RoomSpec => []RoomTyped
  <1>1. RoomInv => RoomTyped
    <2> SUFFICES ASSUME RoomInv PROVE RoomTyped
      OBVIOUS
    <2>1. Registry!TypeOK
      BY DEF RoomInv, Registry!RegistryInv
    <2>2. Watch!TypeOK
      BY DEF RoomInv, Watch!WatchInv
    <2>3. Streams!TypeOK
      BY RoomAssumption, StreamHolds DEF RoomInv
    <2>4. Ladder!TypeOK
      BY RoomAssumption, LadderHolds DEF RoomInv
    <2>5. Turns!TypeOK
      BY RoomAssumption, TurnsHold DEF RoomInv
    <2>6. Exchange!TypeOK
      BY RoomAssumption, ExchangeHolds DEF RoomInv
    <2>7. QED BY <2>1, <2>2, <2>3, <2>4, <2>5, <2>6 DEF RoomTyped
  <1>2. QED BY <1>1, RoomInvariant, PTL

\* Nobody learns what was not for them: no envelope of a chain discloses more than those it
\* follows from or tells an agent what it may not see, a cached call is answered for the
\* same disclosure, an agent's words reach only those its parent and its own visibility
\* allow, and an agent that was replaced says nothing more (room-interaction.ts,
\* room-agent.ts).
THEOREM RoomStaysPrivate == RoomSpec => []StaysPrivate
  <1>1. RoomInv => StaysPrivate
    <2> SUFFICES ASSUME RoomInv PROVE StaysPrivate
      OBVIOUS
    <2>1. Exchange!ChainStaysPrivate /\ Exchange!CallsStayPrivate
      BY RoomAssumption, ExchangeHolds DEF RoomInv
    <2>2. Registry!NobodyOverhears /\ Registry!ReplacedFallSilent
      BY DEF RoomInv, Registry!RegistryInv
    <2>3. QED BY <2>1, <2>2 DEF StaysPrivate
  <1>2. QED BY <1>1, RoomInvariant, PTL

\* What a room says is said once, whole and in order: envelopes in a lane, a watcher's
\* drafts, captions on the floor, a run's entries, the rungs of a ladder, the newest
\* fragments of an input (room-interaction.ts, room-agent-runtime.ts).
THEOREM RoomDeliversOnce == RoomSpec => []DeliveredOnce
  <1>1. RoomInv => DeliveredOnce
    <2> SUFFICES ASSUME RoomInv PROVE DeliveredOnce
      OBVIOUS
    <2>1. Exchange!DeliveredOnceInLane
      BY RoomAssumption, ExchangeHolds DEF RoomInv
    <2>2. Watch!EmittedOnce
      BY DEF RoomInv, Watch!WatchInv
    <2>3. Turns!OneVoice /\ Turns!HeardIsWritten
      BY RoomAssumption, TurnsHold DEF RoomInv
    <2>4. Streams!StreamWhole
      BY RoomAssumption, StreamHolds DEF RoomInv
    <2>5. Ladder!LadderHonest /\ Ladder!NewestKept
      BY RoomAssumption, LadderHolds DEF RoomInv
    <2>6. QED BY <2>1, <2>2, <2>3, <2>4, <2>5 DEF DeliveredOnce
  <1>2. QED BY <1>1, RoomInvariant, PTL

\* Who is told to stop stops: a turn that starts to speak is the newest of its channel, and
\* a ladder shows nothing after an abort (room-agent-runtime.ts).
THEOREM RoomStopsWhenTold == RoomSpec => StopsWhenTold
  <1>1. RoomInv /\ [RoomNext]_roomVars => [Turns!StartsNewest /\ Ladder!ShowsNoMore]_roomVars
    <2> SUFFICES ASSUME RoomInv, [RoomNext]_roomVars
                 PROVE  Turns!StartsNewest /\ Ladder!ShowsNoMore
      OBVIOUS
    <2>1. Turns!StartsNewest
      BY RoomAssumption, RoomMoves, NewestSpeaks DEF RoomInv
    <2>2. Ladder!ShowsNoMore
      BY RoomAssumption, RoomMoves, LadderHushed DEF RoomInv
    <2>3. QED BY <2>1, <2>2
  <1>2. QED BY <1>1, RoomInvariant, PTL DEF RoomSpec, StopsWhenTold
=============================================================================
