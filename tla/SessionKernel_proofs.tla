------------------------ MODULE SessionKernel_proofs ------------------------
(***************************************************************************)
(* Proofs about SessionKernel for every value of its constants.            *)
(*                                                                         *)
(* The inductive invariant says of every prepared transition what a commit *)
(* of it relies on: while the draft is based on the live revision, folding *)
(* its batch into the rehydrated state gives exactly what the commit       *)
(* publishes.  A commit raises the revision, so it leaves every other      *)
(* draft stale; a stale draft is never published.                          *)
(*                                                                         *)
(* A second invariant, the ledger, relates the live state to the whole     *)
(* history: where each accepted intent is, what each receipt may say, and  *)
(* the life of each commitment.  It is carried by the operations           *)
(* themselves, one lemma each, and by the knowledge of which of them       *)
(* prepared each draft that can still be committed.                        *)
(***************************************************************************)
EXTENDS SessionKernel, FiniteSetTheorems, TLAPS

\* The rehydrated state r is the kernel state k with registers h and i.
Rebuilds(r, k, h, i) ==
    /\ r.state = k
    /\ r.historical = h \cup InteractionKeys(k.game)
    /\ r.interests = i

AnswersOnce(k) == \A a, b \in k.intents : a.seat = b.seat => a = b
InputsOnce(g) ==
    \A j \in DOMAIN g : g[j].kind = "tick" =>
        \A a, b \in g[j].inputs : a.seat = b.seat => a = b

\* What holds of a transition to k, recorded by b, that is based on `live`.
Faithful(k, b) ==
    /\ k \in KernelState
    /\ b \in Batch
    /\ Rebuilds(Replay(recovered, b), k, HistoricalAfter(b), InterestsAfter(b))
    /\ Replay(recovered, b) \in Recovered
    /\ FreshInteractionIds /\ ~recovered.fault => ~Replay(recovered, b).fault
    /\ AnswersOnce(k) /\ InputsOnce(k.game)
    /\ IsExtension(live.game, k.game)
    /\ live.rejected \subseteq k.rejected

DraftInv(d) ==
    /\ d.base <= live.revision
    /\ ~d.noop /\ d.base = live.revision =>
         d.next.revision = live.revision + 1 /\ Faithful(d.next, d.batch)

IInv ==
    /\ TypeOK
    /\ Rebuilds(recovered, live, historical, interests)
    /\ FreshInteractionIds => ~recovered.fault
    /\ AnswersOnce(live) /\ InputsOnce(live.game)
    /\ \A slot \in Slots : Open(slot) => DraftInv(drafts[slot])

-----------------------------------------------------------------------------
(* Types of the operators the transitions are built from.                  *)

LEMMA ShowType ==
    ASSUME NEW k \in KernelState, NEW effects \in Seq(Effect)
    PROVE  /\ Show(k, effects) \in KernelState
           /\ Show(k, effects).game = k.game \o effects
           /\ Show(k, effects).revision = k.revision
           /\ Show(k, effects).intents = k.intents
           /\ Show(k, effects).rejected = k.rejected
<1>1. k.game \o effects \in Seq(Effect) /\ k.viewRev + Len(effects) \in Nat
  BY DEF KernelState
<1>q. QED  BY <1>1 DEF Show, KernelState

\* Stamping a state with a revision, and recording a checkpoint in it.
Stamp(k, n) == [k EXCEPT !.revision = n]
Checkpointed(k) == [k EXCEPT !.checkpoint = k.cursor]

LEMMA StampType ==
    ASSUME NEW k \in KernelState, NEW n \in Nat
    PROVE  /\ Stamp(k, n) \in KernelState
           /\ Stamp(k, n).revision = n
           /\ Stamp(k, n).game = k.game
           /\ Stamp(k, n).intents = k.intents
           /\ Stamp(k, n).rejected = k.rejected
BY DEF Stamp, KernelState

LEMMA CheckpointType ==
    ASSUME NEW k \in KernelState
    PROVE  /\ Checkpointed(k) \in KernelState
           /\ Checkpointed(k).revision = k.revision
           /\ Checkpointed(k).game = k.game
           /\ Checkpointed(k).intents = k.intents
           /\ Checkpointed(k).rejected = k.rejected
BY DEF Checkpointed, KernelState

LEMMA BookType ==
    ASSUME NEW k \in KernelState, NEW inputs \in SUBSET Input
    PROVE  /\ Book(k, inputs) \in KernelState
           /\ Book(k, inputs).game = k.game
           /\ Book(k, inputs).revision = k.revision
           /\ Book(k, inputs).rejected = k.rejected
<1>1. \A s \in Seats : Commits(s, inputs) \subseteq Nat
  BY DEF Commits, Input, Command
<1>2. [s \in Seats |-> (k.opened[s] \cup Commits(s, inputs)) \ Reveals(s, inputs)]
        \in [Seats -> SUBSET Nat]
  BY <1>1 DEF KernelState
<1>3. [s \in Seats |-> IF Commits(s, inputs) = {} THEN k.nextCommit[s]
                                                  ELSE k.nextCommit[s] + 1]
        \in [Seats -> Nat]
  BY DEF KernelState
<1>q. QED  BY <1>2, <1>3 DEF Book, KernelState

LEMMA EvictType ==
    ASSUME NEW k \in KernelState
    PROVE  /\ Evict(k) \in KernelState
           /\ Evict(k).game = k.game
           /\ Evict(k).revision = k.revision
           /\ Evict(k).intents = k.intents
           /\ Evict(k).rejected = k.rejected
           /\ Evict(k).cursor = k.cursor
<1> DEFINE gone  == {r \in k.receipts : r.cursor < k.cursor - ReceiptRetention}
           tombs == k.expired \cup {[key |-> r.key, at |-> r.at] : r \in gone}
           cap   == Cardinality(Seats) *
                   (IF ReceiptRetention > 1 THEN ReceiptRetention ELSE 1)
           kept  == {t \in tombs : Cardinality({u \in tombs : u.at > t.at}) < cap}
<1>1. gone \subseteq Receipt
  BY DEF KernelState
<1>2. tombs \subseteq Tombstone
  BY <1>1 DEF KernelState, Receipt, Tombstone
<1>3. Evict(k) = [k EXCEPT !.receipts = k.receipts \ gone, !.expired = kept]
  BY DEF Evict
<1>4. kept \subseteq Tombstone
  BY <1>2
<1> HIDE DEF gone, tombs, cap, kept
<1>q. QED  BY <1>3, <1>4 DEF KernelState

LEMMA OpenWindowType ==
    ASSUME NEW k \in KernelState, NEW c \in Nat, ValidParticipants(k.game)
    PROVE  /\ OpenWindow(k, c) \in KernelState
           /\ OpenWindow(k, c).game = k.game
           /\ OpenWindow(k, c).revision = k.revision
           /\ OpenWindow(k, c).intents = {}
           /\ OpenWindow(k, c).rejected = k.rejected
           /\ OpenWindow(k, c).cursor = c
BY DEF OpenWindow, KernelState, ValidParticipants

LEMMA TicksType ==
    ASSUME NEW inputs \in SUBSET Input, NEW n \in Nat
    PROVE  <<Tick(inputs)>> \o EmptyTicks(n) \in Seq(Effect)
<1>1. \A in \in SUBSET Input : Tick(in) \in Effect
  BY DEF Tick, Effect
<1>2. EmptyTicks(n) \in Seq(Effect)
  BY <1>1 DEF EmptyTicks
<1>q. QED  BY <1>1, <1>2

\* A resolution whose next participants are valid yields a kernel state with an
\* empty window, the ticks appended and the revision unchanged.
LEMMA ResolveType ==
    ASSUME NEW k \in KernelState, NEW inputs \in SUBSET Input, NEW n \in Nat,
           ValidParticipants(k.game \o (<<Tick(inputs)>> \o EmptyTicks(n)))
    PROVE  /\ Resolve(k, inputs, n) \in KernelState
           /\ Resolve(k, inputs, n).game = k.game \o (<<Tick(inputs)>> \o EmptyTicks(n))
           /\ Resolve(k, inputs, n).revision = k.revision
           /\ Resolve(k, inputs, n).intents = {}
           /\ Resolve(k, inputs, n).rejected = k.rejected
           /\ Resolve(k, inputs, n).cursor = k.cursor + 1 + n
<1> DEFINE ticks == <<Tick(inputs)>> \o EmptyTicks(n)
           shown == Show(Book(k, inputs), ticks)
           open  == OpenWindow(shown, k.cursor + 1 + n)
<1>1. ticks \in Seq(Effect)
  BY TicksType
<1>2. /\ Book(k, inputs) \in KernelState
      /\ Book(k, inputs).game = k.game
      /\ Book(k, inputs).revision = k.revision
      /\ Book(k, inputs).rejected = k.rejected
  BY BookType
<1> HIDE DEF ticks
<1>3. /\ shown \in KernelState
      /\ shown.game = k.game \o ticks
      /\ shown.revision = k.revision
      /\ shown.rejected = k.rejected
  <2>1. PICK l \in KernelState : l = Book(k, inputs)
    BY <1>2
  <2>2. /\ Show(l, ticks) \in KernelState
        /\ Show(l, ticks).game = l.game \o ticks
        /\ Show(l, ticks).revision = l.revision
        /\ Show(l, ticks).rejected = l.rejected
    BY <1>1, ShowType
  <2>q. QED  BY <1>2, <2>1, <2>2
<1>4. k.cursor + 1 + n \in Nat
  BY DEF KernelState
<1>5. ValidParticipants(shown.game)
  BY <1>3 DEF ticks
<1> HIDE DEF shown
<1>6. /\ open \in KernelState
      /\ open.game = k.game \o ticks
      /\ open.revision = k.revision
      /\ open.intents = {}
      /\ open.rejected = k.rejected
      /\ open.cursor = k.cursor + 1 + n
  BY <1>3, <1>4, <1>5, OpenWindowType
<1>7. Resolve(k, inputs, n) = Evict(open)
  BY DEF Resolve, open, shown, ticks
<1> HIDE DEF open
<1>q. QED  BY <1>6, <1>7, EvictType DEF ticks

-----------------------------------------------------------------------------
(* The history: what appending effects to it changes.                      *)

LEMMA Appended ==
    ASSUME NEW g \in Seq(Effect), NEW es \in Seq(Effect)
    PROVE  /\ g \o es \in Seq(Effect)
           /\ DOMAIN (g \o es) = 1..(Len(g) + Len(es))
           /\ \A j \in 1..Len(g) : (g \o es)[j] = g[j]
           /\ \A j \in 1..Len(es) : (g \o es)[Len(g) + j] = es[j]
           /\ \A j \in (Len(g) + 1)..(Len(g) + Len(es)) :
                 j - Len(g) \in 1..Len(es) /\ (g \o es)[j] = es[j - Len(g)]
OBVIOUS

LEMMA AppendExtends ==
    ASSUME NEW g \in Seq(Effect), NEW es \in Seq(Effect)
    PROVE  IsExtension(g, g \o es)
BY DEF IsExtension

LEMMA AppendInputsOnce ==
    ASSUME NEW g \in Seq(Effect), NEW es \in Seq(Effect),
           InputsOnce(g), InputsOnce(es)
    PROVE  InputsOnce(g \o es)
<1> SUFFICES ASSUME NEW j \in DOMAIN (g \o es), (g \o es)[j].kind = "tick"
             PROVE  \A a, b \in (g \o es)[j].inputs : a.seat = b.seat => a = b
  BY DEF InputsOnce
<1>1. CASE j \in 1..Len(g)
  BY <1>1 DEF InputsOnce
<1>2. CASE j \in (Len(g) + 1)..(Len(g) + Len(es))
  <2>1. j - Len(g) \in DOMAIN es /\ (g \o es)[j] = es[j - Len(g)]
    BY <1>2
  <2>q. QED  BY <2>1 DEF InputsOnce
<1>q. QED  BY <1>1, <1>2, Appended

\* Only interactions add to the identities the history holds.
LEMMA AppendOthers ==
    ASSUME NEW g \in Seq(Effect), NEW es \in Seq(Effect),
           \A j \in DOMAIN es : es[j].kind # "interaction"
    PROVE  InteractionKeys(g \o es) = InteractionKeys(g)
<1> DEFINE In(h) == {j \in DOMAIN h : h[j].kind = "interaction"}
<1>1. In(g \o es) = In(g)
  <2>1. ASSUME NEW j \in (Len(g) + 1)..(Len(g) + Len(es))
        PROVE  (g \o es)[j].kind # "interaction"
    <3>1. j - Len(g) \in DOMAIN es /\ (g \o es)[j] = es[j - Len(g)]
      OBVIOUS
    <3>q. QED  BY <3>1
  <2>2. ASSUME NEW j \in 1..Len(g)
        PROVE  j \in DOMAIN (g \o es) /\ (g \o es)[j] = g[j]
    OBVIOUS
  <2>q. QED  BY <2>1, <2>2, Appended
<1>2. \A j \in In(g) : (g \o es)[j] = g[j]
  OBVIOUS
<1>3. {(g \o es)[j].inputs : j \in In(g \o es)} = {g[j].inputs : j \in In(g)}
  BY <1>1, <1>2
<1>q. QED  BY <1>3 DEF InteractionKeys

LEMMA AppendInteraction ==
    ASSUME NEW g \in Seq(Effect), NEW i \in Input
    PROVE  InteractionKeys(g \o <<[kind |-> "interaction", inputs |-> {i}]>>)
             = InteractionKeys(g) \cup {KeyOf(i)}
<1> DEFINE e     == [kind |-> "interaction", inputs |-> {i}]
           In(h) == {j \in DOMAIN h : h[j].kind = "interaction"}
           new   == g \o <<e>>
<1>1. e \in Effect /\ e.kind = "interaction" /\ e.inputs = {i}
  BY DEF Effect
<1> HIDE DEF e
<1>2. /\ DOMAIN new = 1..(Len(g) + 1)
      /\ new[Len(g) + 1] = e
      /\ \A j \in 1..Len(g) : new[j] = g[j]
  BY <1>1
<1> HIDE DEF new
<1>3. In(new) = In(g) \cup {Len(g) + 1} /\ \A j \in In(g) : new[j] = g[j]
  BY <1>1, <1>2
<1> HIDE DEF In
<1>4. \A h : \A x : x \in UNION {h[j].inputs : j \in In(h)}
                        <=> \E j \in In(h) : x \in h[j].inputs
  OBVIOUS
<1>5. UNION {new[j].inputs : j \in In(new)}
        = (UNION {g[j].inputs : j \in In(g)}) \cup {i}
  <2>1. new[Len(g) + 1].inputs = {i} /\ \A j \in In(g) : new[j].inputs = g[j].inputs
    BY <1>1, <1>2, <1>3
  <2>2. \A x : (\E j \in In(new) : x \in new[j].inputs)
                 <=> (\E j \in In(g) : x \in g[j].inputs) \/ x = i
    BY <1>3, <2>1
  <2>q. QED  BY <1>4, <2>2
<1>6. InteractionKeys(new) = {KeyOf(a) : a \in UNION {new[j].inputs : j \in In(new)}}
  BY DEF InteractionKeys, In
<1>7. InteractionKeys(g) = {KeyOf(a) : a \in UNION {g[j].inputs : j \in In(g)}}
  BY DEF InteractionKeys, In
<1>q. QED  BY <1>5, <1>6, <1>7 DEF new, e

-----------------------------------------------------------------------------
(* One step of rehydration.                                                *)

LEMMA BlankType ==
    ASSUME NEW k \in KernelState
    PROVE  /\ Blank(k) \in Batch
           /\ Blank(k).at = k.revision + 1 /\ Blank(k).cursor = k.cursor
           /\ Blank(k).kind = "audit" /\ Blank(k).checkpoint = FALSE
<1>1. NoInput \in Input
  BY DEF NoInput, Input, Command
<1>2. <<0, <<>>>> \in Nat \X Seq(Effect)
  <2>1. <<>> \in Seq(Effect)
    OBVIOUS
  <2>q. QED  BY <2>1
<1>3. k.revision + 1 \in Nat /\ k.cursor \in Nat
  BY DEF KernelState
<1>4. OwnScope \in Scopes
  BY KernelAssumption
<1>q. QED  BY <1>1, <1>2, <1>3, <1>4 DEF Blank, Batch

\* The two ends of a batch: without a checkpoint, and with one whose digest is
\* that of the state reached.
LEMMA ReplayPlain ==
    ASSUME live \in KernelState, NEW b, NEW e \in Recovered,
           ReplayEvents(recovered, b) = e, e.state.revision = live.revision,
           b.at = live.revision + 1, b.checkpoint = FALSE
    PROVE  /\ Replay(recovered, b) \in Recovered
           /\ Replay(recovered, b).state = Stamp(e.state, live.revision + 1)
           /\ Replay(recovered, b).historical = e.historical
           /\ Replay(recovered, b).interests = e.interests
           /\ Replay(recovered, b).fault = e.fault
<1>1. e.state \in KernelState
  BY DEF Recovered
<1>2. live.revision \in Nat
  BY DEF KernelState
<1>3. Replay(recovered, b) = [e EXCEPT !.state = Stamp(e.state, live.revision + 1)]
  <2>1. CheckDigest(ReplayEvents(recovered, b), b) = e
    BY DEF CheckDigest
  <2>2. b.at > e.state.revision
    BY <1>2
  <2>3. Replay(recovered, b) = [e EXCEPT !.state.revision = b.at]
    BY <2>1, <2>2 DEF Replay
  <2>q. QED  BY <2>3 DEF Stamp
<1>4. Stamp(e.state, live.revision + 1) \in KernelState
  <2>1. live.revision + 1 \in Nat
    BY <1>2
  <2>2. \A m \in Nat : Stamp(e.state, m) \in KernelState
    BY <1>1, StampType
  <2>q. QED  BY <2>1, <2>2
<1>5. PICK k, r : k = Stamp(e.state, live.revision + 1) /\ r = [e EXCEPT !.state = k]
  OBVIOUS
<1>6. /\ r \in Recovered /\ r.state = k /\ r.historical = e.historical
      /\ r.interests = e.interests /\ r.fault = e.fault
  BY <1>4, <1>5 DEF Recovered
<1>q. QED  BY <1>3, <1>5, <1>6

LEMMA ReplayChecked ==
    ASSUME live \in KernelState, NEW b, NEW e \in Recovered,
           ReplayEvents(recovered, b) = e, e.state.revision = live.revision,
           b.at = live.revision + 1, b.checkpoint = TRUE, b.digest = Digest(e.state)
    PROVE  /\ Replay(recovered, b) \in Recovered
           /\ Replay(recovered, b).state =
                Stamp(Checkpointed(e.state), live.revision + 1)
           /\ Replay(recovered, b).historical = e.historical
           /\ Replay(recovered, b).interests = e.interests
           /\ Replay(recovered, b).fault = e.fault
<1> DEFINE c == [e EXCEPT !.state = Checkpointed(e.state)]
<1>1. e.state \in KernelState /\ live.revision \in Nat
  BY DEF Recovered, KernelState
<1>2. CheckDigest(e, b) = c
  <2>1. b.digest = Digest(e.state) /\ e.fault \in BOOLEAN
    BY DEF Recovered
  <2>q. QED  BY <2>1 DEF CheckDigest, Digest, Recovered, Checkpointed
<1>3. Checkpointed(e.state) \in KernelState
      /\ Checkpointed(e.state).revision = live.revision
  BY <1>1, CheckpointType
<1>4. /\ c \in Recovered
      /\ c.state = Checkpointed(e.state)
      /\ c.historical = e.historical
      /\ c.interests = e.interests
      /\ c.fault = e.fault
  BY <1>3 DEF Recovered
<1> HIDE DEF c
<1>5. Replay(recovered, b) = [c EXCEPT !.state = Stamp(c.state, live.revision + 1)]
  BY <1>1, <1>2, <1>3, <1>4 DEF Replay, Stamp
<1>6. Stamp(c.state, live.revision + 1) \in KernelState
  BY <1>1, <1>3, <1>4, StampType
<1>q. QED  BY <1>4, <1>5, <1>6 DEF Recovered

LEMMA LiveType ==
    ASSUME IInv
    PROVE  live \in KernelState /\ live.revision \in Nat /\ live.revision + 1 \in Nat
<1>1. live \in KernelState
  BY DEF IInv, TypeOK
<1>2. live.revision \in Nat
  BY <1>1 DEF KernelState
<1>q. QED  BY <1>1, <1>2

LEMMA PlainFaithful ==
    ASSUME IInv, NEW b \in Batch, NEW k \in KernelState, NEW e \in Recovered,
           b.at = live.revision + 1, b.checkpoint = FALSE,
           k.revision = live.revision, ReplayEvents(recovered, b) = e,
           Rebuilds(e, k, HistoricalAfter(b), InterestsAfter(b)),
           FreshInteractionIds /\ ~recovered.fault => ~e.fault,
           AnswersOnce(k), InputsOnce(k.game),
           IsExtension(live.game, k.game), live.rejected \subseteq k.rejected
    PROVE  Faithful(Stamp(k, live.revision + 1), b)
<1>1. live \in KernelState /\ live.revision + 1 \in Nat
  BY LiveType
<1>2. /\ Stamp(k, live.revision + 1) \in KernelState
      /\ Stamp(k, live.revision + 1).game = k.game
      /\ Stamp(k, live.revision + 1).intents = k.intents
      /\ Stamp(k, live.revision + 1).rejected = k.rejected
  BY <1>1, StampType
<1>3. e.state = k
  BY DEF Rebuilds
<1>4. /\ Replay(recovered, b) \in Recovered
      /\ Replay(recovered, b).state = Stamp(k, live.revision + 1)
      /\ Replay(recovered, b).historical = e.historical
      /\ Replay(recovered, b).interests = e.interests
      /\ Replay(recovered, b).fault = e.fault
  BY <1>1, <1>3, ReplayPlain
<1>5. Rebuilds(Replay(recovered, b), Stamp(k, live.revision + 1),
               HistoricalAfter(b), InterestsAfter(b))
  BY <1>2, <1>4 DEF Rebuilds
<1>6. FreshInteractionIds /\ ~recovered.fault => ~Replay(recovered, b).fault
  BY <1>4
<1>7. AnswersOnce(Stamp(k, live.revision + 1))
  BY <1>2 DEF AnswersOnce
<1>q. QED  BY <1>2, <1>4, <1>5, <1>6, <1>7 DEF Faithful

LEMMA CheckedFaithful ==
    ASSUME IInv, NEW b \in Batch, NEW k \in KernelState, NEW e \in Recovered,
           b.at = live.revision + 1, b.checkpoint = TRUE, b.digest = Digest(k),
           k.revision = live.revision, ReplayEvents(recovered, b) = e,
           Rebuilds(e, k, HistoricalAfter(b), InterestsAfter(b)),
           FreshInteractionIds /\ ~recovered.fault => ~e.fault,
           AnswersOnce(k), InputsOnce(k.game),
           IsExtension(live.game, k.game), live.rejected \subseteq k.rejected
    PROVE  Faithful(Stamp(Checkpointed(k), live.revision + 1), b)
<1> DEFINE c == Checkpointed(k)
<1>1. live \in KernelState /\ live.revision + 1 \in Nat
  BY LiveType
<1>2. /\ c \in KernelState /\ c.game = k.game
      /\ c.intents = k.intents /\ c.rejected = k.rejected
  BY CheckpointType
<1>3. /\ Stamp(c, live.revision + 1) \in KernelState
      /\ Stamp(c, live.revision + 1).game = k.game
      /\ Stamp(c, live.revision + 1).intents = k.intents
      /\ Stamp(c, live.revision + 1).rejected = k.rejected
  BY <1>1, <1>2, StampType
<1>4. e.state = k
  BY DEF Rebuilds
<1>5. /\ Replay(recovered, b) \in Recovered
      /\ Replay(recovered, b).state = Stamp(c, live.revision + 1)
      /\ Replay(recovered, b).historical = e.historical
      /\ Replay(recovered, b).interests = e.interests
      /\ Replay(recovered, b).fault = e.fault
  BY <1>1, <1>4, ReplayChecked
<1>6. Rebuilds(Replay(recovered, b), Stamp(c, live.revision + 1),
               HistoricalAfter(b), InterestsAfter(b))
  BY <1>3, <1>5 DEF Rebuilds
<1>7. FreshInteractionIds /\ ~recovered.fault => ~Replay(recovered, b).fault
  BY <1>5
<1>8. AnswersOnce(Stamp(c, live.revision + 1))
  BY <1>3 DEF AnswersOnce
<1>q. QED  BY <1>3, <1>5, <1>6, <1>7, <1>8 DEF Faithful

-----------------------------------------------------------------------------
(* What each operation prepares is what rehydration makes of its batch.    *)

LEMMA IntentDraftType ==
    ASSUME NEW k \in KernelState, NEW i \in Intent
    PROVE  /\ IntentDraft(k, i) \in KernelState
           /\ IntentDraft(k, i).revision = k.revision
           /\ IntentDraft(k, i).game = k.game
           /\ IntentDraft(k, i).intents = k.intents \cup {i}
           /\ IntentDraft(k, i).rejected = k.rejected
<1>1. ReceiptOf(k, i, "intent") \in Receipt
  BY DEF ReceiptOf, Receipt, Intent, KernelState, KeyOf, Key
<1>q. QED  BY <1>1 DEF IntentDraft, KernelState

LEMMA IntentFaithful ==
    ASSUME IInv, NEW i \in Intent,
           i.seat \in live.window, i.seat \notin Answered(live)
    PROVE  /\ IntentDraft(live, i) \in KernelState
           /\ Faithful(Stamp(IntentDraft(live, i), live.revision + 1),
                       IntentBatch(live, i))
<1> DEFINE k == IntentDraft(live, i)
           b == IntentBatch(live, i)
           e == ReplayIntent(recovered, b)
<1>1. /\ live \in KernelState /\ recovered \in Recovered
      /\ recovered.state = live /\ recovered.interests = interests
      /\ recovered.historical = historical \cup InteractionKeys(live.game)
      /\ AnswersOnce(live) /\ InputsOnce(live.game)
  BY DEF IInv, TypeOK, Rebuilds
<1>2. i \in Input /\ KeyOf(i) \in Key
  BY DEF Intent, Input, KeyOf, Key
<1>3. /\ k \in KernelState
      /\ k.revision = live.revision /\ k.game = live.game
      /\ k.intents = live.intents \cup {i} /\ k.rejected = live.rejected
  BY <1>1, IntentDraftType
<1>4. /\ b \in Batch /\ b.kind = "intent" /\ b.input = i /\ b.cursor = live.cursor
      /\ b.at = live.revision + 1 /\ b.checkpoint = FALSE
  <2>1. /\ Blank(live) \in Batch /\ Blank(live).at = live.revision + 1
        /\ Blank(live).cursor = live.cursor /\ Blank(live).checkpoint = FALSE
    BY <1>1, BlankType
  <2>q. QED  BY <1>2, <2>1 DEF Batch, IntentBatch
<1>5. e.state = k
  BY <1>1, <1>4 DEF ReplayIntent, IntentDraft, ReceiptOf, KernelState, Recovered
<1>6. /\ e.historical = recovered.historical \cup {KeyOf(i)}
      /\ e.interests = recovered.interests
      /\ e.fault = recovered.fault
  BY <1>1, <1>4 DEF ReplayIntent, Recovered
<1>7. e \in Recovered
  BY <1>1, <1>2, <1>3, <1>5, <1>6 DEF Recovered, ReplayIntent
<1>8. ReplayEvents(recovered, b) = e
  BY <1>4 DEF ReplayEvents
<1>9. Rebuilds(e, k, HistoricalAfter(b), InterestsAfter(b))
  BY <1>1, <1>3, <1>4, <1>5, <1>6 DEF Rebuilds, HistoricalAfter, InterestsAfter
<1>10. AnswersOnce(k) /\ InputsOnce(k.game) /\ IsExtension(live.game, k.game)
  BY <1>1, <1>3 DEF AnswersOnce, Answered, IsExtension, KernelState
<1> HIDE DEF e, k, b
<1>q. QED  BY <1>3, <1>4, <1>6, <1>7, <1>8, <1>9, <1>10, PlainFaithful DEF k, b

\* Effects of one input, as interactions and control transitions append them.
LEMMA SingleEffect ==
    ASSUME NEW i \in Input, NEW kind \in {"interaction", "control"}
    PROVE  /\ <<[kind |-> kind, inputs |-> {i}]>> \in Seq(Effect)
           /\ InputsOnce(<<[kind |-> kind, inputs |-> {i}]>>)
BY DEF Effect, InputsOnce

\* Recording a receipt, and recording a control id.
WithReceipt(k, r) == [k EXCEPT !.receipts = @ \cup {r}]
WithControl(k, key) == [k EXCEPT !.controls = @ \cup {key}]

LEMMA WithReceiptType ==
    ASSUME NEW k \in KernelState, NEW r \in Receipt
    PROVE  /\ WithReceipt(k, r) \in KernelState
           /\ WithReceipt(k, r).game = k.game
           /\ WithReceipt(k, r).revision = k.revision
           /\ WithReceipt(k, r).intents = k.intents
           /\ WithReceipt(k, r).rejected = k.rejected
BY DEF WithReceipt, KernelState

LEMMA WithControlType ==
    ASSUME NEW k \in KernelState, NEW key \in Key
    PROVE  /\ WithControl(k, key) \in KernelState
           /\ WithControl(k, key).game = k.game
           /\ WithControl(k, key).revision = k.revision
           /\ WithControl(k, key).intents = k.intents
           /\ WithControl(k, key).rejected = k.rejected
BY DEF WithControl, KernelState

LEMMA InteractionDraftType ==
    ASSUME NEW k \in KernelState, NEW i \in Intent
    PROVE  LET d == InteractionDraft(k, i)
           IN /\ d \in KernelState
              /\ d.game = k.game \o <<[kind |-> "interaction", inputs |-> {i}]>>
              /\ d.revision = k.revision /\ d.intents = k.intents
              /\ d.rejected = k.rejected
<1> DEFINE es == <<[kind |-> "interaction", inputs |-> {i}]>>
           shown == Show(k, es)
<1>1. ReceiptOf(k, i, "interaction") \in Receipt
  BY DEF ReceiptOf, Receipt, Intent, KernelState, KeyOf, Key
<1>2. i \in Input
  BY DEF Intent, Input
<1>3. es \in Seq(Effect)
  BY <1>2, SingleEffect
<1> HIDE DEF es
<1>4. /\ shown \in KernelState /\ shown.game = k.game \o es
      /\ shown.revision = k.revision /\ shown.intents = k.intents
      /\ shown.rejected = k.rejected
  BY <1>3, ShowType
<1>5. InteractionDraft(k, i) = WithReceipt(shown, ReceiptOf(k, i, "interaction"))
  BY DEF InteractionDraft, WithReceipt, es
<1> HIDE DEF shown
<1>6. LET d == InteractionDraft(k, i)
      IN /\ d \in KernelState /\ d.game = k.game \o es
         /\ d.revision = k.revision /\ d.intents = k.intents
         /\ d.rejected = k.rejected
  BY <1>1, <1>4, <1>5, WithReceiptType
<1>q. QED  BY <1>6 DEF es

LEMMA InteractionFaithful ==
    ASSUME IInv, NEW i \in Intent, MayUse(KeyOf(i)),
           KeyOf(i) \notin ReceiptKeys(live) \cup historical,
           Participants(InteractionDraft(live, i).game) = live.window
    PROVE  /\ InteractionDraft(live, i) \in KernelState
           /\ Faithful(Stamp(InteractionDraft(live, i), live.revision + 1),
                       InteractionBatch(live, i))
<1> DEFINE k  == InteractionDraft(live, i)
           b  == InteractionBatch(live, i)
           e  == ReplayInteraction(recovered, b)
           es == <<[kind |-> "interaction", inputs |-> {i}]>>
<1>1. /\ live \in KernelState /\ recovered \in Recovered
      /\ recovered.state = live /\ recovered.interests = interests
      /\ recovered.historical = historical \cup InteractionKeys(live.game)
      /\ AnswersOnce(live) /\ InputsOnce(live.game)
  BY DEF IInv, TypeOK, Rebuilds
<1>2. i \in Input /\ KeyOf(i) \in Key /\ live.game \in Seq(Effect)
  BY <1>1 DEF Intent, Input, KeyOf, Key, KernelState
<1>3. /\ k \in KernelState /\ k.game = live.game \o es
      /\ k.revision = live.revision
      /\ k.intents = live.intents /\ k.rejected = live.rejected
  BY <1>1, InteractionDraftType
<1>4. /\ b \in Batch /\ b.kind = "interaction" /\ b.input = i
      /\ b.cursor = live.cursor /\ b.at = live.revision + 1 /\ b.checkpoint = FALSE
  <2>1. /\ Blank(live) \in Batch /\ Blank(live).at = live.revision + 1
        /\ Blank(live).cursor = live.cursor /\ Blank(live).checkpoint = FALSE
    BY <1>1, BlankType
  <2>q. QED  BY <1>2, <2>1 DEF Batch, InteractionBatch
<1>5. e.state = k
  BY <1>1, <1>4 DEF ReplayInteraction, InteractionDraft, ReceiptOf, Recovered
<1>6. /\ e.historical = recovered.historical \cup {KeyOf(i)}
      /\ e.interests = recovered.interests
  BY <1>1, <1>4 DEF ReplayInteraction, Recovered
<1>7. FreshInteractionIds /\ ~recovered.fault => ~e.fault
  <2>1. Show(live, es).game = k.game
    BY <1>1, <1>2, <1>3, ShowType, SingleEffect
  <2>q. QED  BY <1>1, <1>4, <2>1 DEF ReplayInteraction, Recovered, MayUse
<1>8. e \in Recovered
  <2>1. e.fault \in BOOLEAN
    BY <1>1 DEF ReplayInteraction, Recovered
  <2>q. QED  BY <1>1, <1>2, <1>3, <1>5, <1>6, <2>1 DEF Recovered, ReplayInteraction
<1>9. ReplayEvents(recovered, b) = e
  BY <1>4 DEF ReplayEvents
<1>10. InteractionKeys(k.game) = InteractionKeys(live.game) \cup {KeyOf(i)}
  BY <1>2, <1>3, AppendInteraction
<1>11. Rebuilds(e, k, HistoricalAfter(b), InterestsAfter(b))
  BY <1>1, <1>4, <1>5, <1>6, <1>10 DEF Rebuilds, HistoricalAfter, InterestsAfter
<1>12. AnswersOnce(k)
  BY <1>1, <1>3 DEF AnswersOnce
<1>13. InputsOnce(k.game) /\ IsExtension(live.game, k.game)
  BY <1>1, <1>2, <1>3, SingleEffect, AppendInputsOnce, AppendExtends
<1> HIDE DEF e, k, b
<1>q. QED  BY <1>3, <1>4, <1>7, <1>8, <1>9, <1>11, <1>12, <1>13, PlainFaithful DEF k, b

LEMMA ControlDraftType ==
    ASSUME NEW k \in KernelState, NEW i \in Input, KeyOf(i) \in Key
    PROVE  LET d == ControlDraft(k, i)
           IN /\ d \in KernelState
              /\ d.game = k.game \o <<[kind |-> "control", inputs |-> {i}]>>
              /\ d.revision = k.revision /\ d.intents = k.intents
              /\ d.rejected = k.rejected
<1> DEFINE es == <<[kind |-> "control", inputs |-> {i}]>>
           shown == Show(k, es)
<1>1. es \in Seq(Effect)
  BY SingleEffect
<1> HIDE DEF es
<1>2. /\ shown \in KernelState /\ shown.game = k.game \o es
      /\ shown.revision = k.revision /\ shown.intents = k.intents
      /\ shown.rejected = k.rejected
  BY <1>1, ShowType
<1>3. ControlDraft(k, i) = WithControl(shown, KeyOf(i))
  BY DEF ControlDraft, WithControl, es
<1> HIDE DEF shown
<1>4. LET d == ControlDraft(k, i)
      IN /\ d \in KernelState /\ d.game = k.game \o es
         /\ d.revision = k.revision /\ d.intents = k.intents
         /\ d.rejected = k.rejected
  BY <1>2, <1>3, WithControlType
<1>q. QED  BY <1>4 DEF es

LEMMA ControlFaithful ==
    ASSUME IInv, NEW i \in Input, KeyOf(i) \in Key,
           KeyOf(i) \notin live.controls,
           ValidParticipants(ControlDraft(live, i).game)
    PROVE  /\ ControlDraft(live, i) \in KernelState
           /\ Faithful(Stamp(ControlDraft(live, i), live.revision + 1),
                       ControlBatch(live, i))
<1> DEFINE k  == ControlDraft(live, i)
           b  == ControlBatch(live, i)
           e  == ReplayControl(recovered, b)
           es == <<[kind |-> "control", inputs |-> {i}]>>
<1>1. /\ live \in KernelState /\ recovered \in Recovered
      /\ recovered.state = live /\ recovered.interests = interests
      /\ recovered.historical = historical \cup InteractionKeys(live.game)
      /\ AnswersOnce(live) /\ InputsOnce(live.game)
  BY DEF IInv, TypeOK, Rebuilds
<1>2. live.game \in Seq(Effect)
  BY <1>1 DEF KernelState
<1>3. /\ k \in KernelState /\ k.game = live.game \o es
      /\ k.revision = live.revision
      /\ k.intents = live.intents /\ k.rejected = live.rejected
  BY <1>1, ControlDraftType
<1>4. /\ b \in Batch /\ b.kind = "control" /\ b.input = i
      /\ b.cursor = live.cursor /\ b.at = live.revision + 1 /\ b.checkpoint = FALSE
  <2>1. /\ Blank(live) \in Batch /\ Blank(live).at = live.revision + 1
        /\ Blank(live).cursor = live.cursor /\ Blank(live).checkpoint = FALSE
    BY <1>1, BlankType
  <2>q. QED  BY <2>1 DEF Batch, ControlBatch
<1>5. e.state = k
  BY <1>1, <1>4 DEF ReplayControl, ControlDraft, Recovered
<1>6. /\ e.historical = recovered.historical
      /\ e.interests = recovered.interests
  BY <1>1, <1>4 DEF ReplayControl, Recovered
<1>7. ~recovered.fault => ~e.fault
  BY <1>1, <1>3, <1>4 DEF ReplayControl, Recovered
<1>8. e \in Recovered
  <2>1. e.fault \in BOOLEAN
    BY <1>1 DEF ReplayControl, Recovered
  <2>q. QED  BY <1>1, <1>3, <1>5, <1>6, <2>1 DEF Recovered, ReplayControl
<1>9. ReplayEvents(recovered, b) = e
  BY <1>4 DEF ReplayEvents
<1>10. InteractionKeys(k.game) = InteractionKeys(live.game)
  <2>1. es \in Seq(Effect)
    BY SingleEffect
  <2>2. DOMAIN es = {1} /\ es[1].kind = "control"
    OBVIOUS
  <2>q. QED  BY <1>2, <1>3, <2>1, <2>2, AppendOthers
<1>11. Rebuilds(e, k, HistoricalAfter(b), InterestsAfter(b))
  BY <1>1, <1>4, <1>5, <1>6, <1>10 DEF Rebuilds, HistoricalAfter, InterestsAfter
<1>12. AnswersOnce(k)
  BY <1>1, <1>3 DEF AnswersOnce
<1>13. InputsOnce(k.game) /\ IsExtension(live.game, k.game)
  BY <1>1, <1>2, <1>3, SingleEffect, AppendInputsOnce, AppendExtends
<1> HIDE DEF e, k, b
<1>q. QED  BY <1>3, <1>4, <1>7, <1>8, <1>9, <1>11, <1>12, <1>13, PlainFaithful DEF k, b

LEMMA InterestFaithful ==
    ASSUME IInv, NEW key \in Key, NEW scope \in Scopes, MayUse(key),
           key \notin historical
    PROVE  /\ InterestDraft(live, key, scope) \in KernelState
           /\ Faithful(Stamp(InterestDraft(live, key, scope), live.revision + 1),
                       InterestBatch(live, key, scope))
<1> DEFINE k == InterestDraft(live, key, scope)
           b == InterestBatch(live, key, scope)
           e == ReplayInterest(recovered, b)
           i == InputOf(key[1], key[2], "play", 0)
<1>1. /\ live \in KernelState /\ recovered \in Recovered
      /\ recovered.state = live /\ recovered.interests = interests
      /\ recovered.historical = historical \cup InteractionKeys(live.game)
      /\ AnswersOnce(live) /\ InputsOnce(live.game)
  BY DEF IInv, TypeOK, Rebuilds
<1>2. i \in Input /\ KeyOf(i) = key /\ i.seat = key[1]
  BY DEF Input, Key, InputOf, KeyOf, Command, IntentOps
<1> HIDE DEF i
<1>3. <<key[1], scope>> \in Seats \X Scopes
  BY DEF Key
<1>4. /\ k \in KernelState
      /\ k.revision = live.revision /\ k.game = live.game
      /\ k.intents = live.intents /\ k.rejected = live.rejected
  BY <1>1, <1>3 DEF InterestDraft, KernelState
<1>5. /\ b \in Batch /\ b.kind = "interest" /\ b.input = i /\ b.scope = scope
      /\ b.cursor = live.cursor /\ b.at = live.revision + 1 /\ b.checkpoint = FALSE
  <2>1. /\ Blank(live) \in Batch /\ Blank(live).at = live.revision + 1
        /\ Blank(live).cursor = live.cursor /\ Blank(live).checkpoint = FALSE
    BY <1>1, BlankType
  <2>q. QED  BY <1>2, <2>1 DEF Batch, InterestBatch, i
<1>6. e.state = k
  BY <1>1, <1>2, <1>5 DEF ReplayInterest, InterestDraft, Recovered
<1>7. /\ e.historical = recovered.historical \cup {key}
      /\ e.interests = recovered.interests \cup {[key |-> key, scope |-> scope]}
  BY <1>1, <1>2, <1>5 DEF ReplayInterest, Recovered
<1>8. FreshInteractionIds /\ ~recovered.fault => ~e.fault
  BY <1>1, <1>2, <1>5 DEF ReplayInterest, Recovered, MayUse
<1>9. e \in Recovered
  <2>1. e.fault \in BOOLEAN
    BY <1>1 DEF ReplayInterest, Recovered
  <2>2. e.interests \subseteq InterestCommand
    BY <1>1, <1>7 DEF Recovered, InterestCommand
  <2>q. QED  BY <1>1, <1>4, <1>6, <1>7, <2>1, <2>2 DEF Recovered, ReplayInterest
<1>10. ReplayEvents(recovered, b) = e
  BY <1>5 DEF ReplayEvents
<1>11. Rebuilds(e, k, HistoricalAfter(b), InterestsAfter(b))
  BY <1>1, <1>2, <1>4, <1>5, <1>6, <1>7 DEF Rebuilds, HistoricalAfter, InterestsAfter
<1>12. AnswersOnce(k) /\ InputsOnce(k.game) /\ IsExtension(live.game, k.game)
  BY <1>1, <1>4 DEF AnswersOnce, IsExtension, KernelState
<1> HIDE DEF e, k, b
<1>q. QED  BY <1>4, <1>5, <1>8, <1>9, <1>10, <1>11, <1>12, PlainFaithful DEF k, b

LEMMA AuditFaithful ==
    ASSUME IInv
    PROVE  Faithful(Stamp(live, live.revision + 1), Blank(live))
<1> DEFINE b == Blank(live)
<1>1. /\ live \in KernelState /\ recovered \in Recovered
      /\ Rebuilds(recovered, live, historical, interests)
      /\ AnswersOnce(live) /\ InputsOnce(live.game)
  BY DEF IInv, TypeOK
<1>2. /\ b \in Batch /\ b.kind = "audit"
      /\ b.at = live.revision + 1 /\ b.checkpoint = FALSE
  BY <1>1, BlankType
<1>3. ReplayEvents(recovered, b) = recovered
  BY <1>2 DEF ReplayEvents
<1>4. Rebuilds(recovered, live, HistoricalAfter(b), InterestsAfter(b))
  BY <1>1, <1>2 DEF HistoricalAfter, InterestsAfter
<1>5. IsExtension(live.game, live.game)
  BY <1>1 DEF IsExtension, KernelState
<1> HIDE DEF b
<1>q. QED  BY <1>1, <1>2, <1>3, <1>4, <1>5, PlainFaithful DEF b

LEMMA TicksOnce ==
    ASSUME NEW inputs \in SUBSET Input, NEW n \in Nat,
           \A a, b \in inputs : a.seat = b.seat => a = b
    PROVE  LET es == <<Tick(inputs)>> \o EmptyTicks(n)
           IN /\ es \in Seq(Effect)
              /\ InputsOnce(es)
              /\ \A j \in DOMAIN es : es[j].kind # "interaction"
<1> DEFINE es == <<Tick(inputs)>> \o EmptyTicks(n)
<1>1. \A in \in SUBSET Input :
         Tick(in) \in Effect /\ Tick(in).inputs = in /\ Tick(in).kind = "tick"
  BY DEF Tick, Effect
<1>2. EmptyTicks(n) \in Seq(Effect) /\ Len(EmptyTicks(n)) = n
      /\ \A j \in 1..n : EmptyTicks(n)[j] = Tick({})
  BY <1>1 DEF EmptyTicks
<1>3. es \in Seq(Effect) /\ DOMAIN es = 1..(n + 1) /\ es[1] = Tick(inputs)
      /\ \A j \in 2..(n + 1) : es[j] = Tick({})
  BY <1>1, <1>2
<1> HIDE DEF es
<1>4. \A j \in DOMAIN es : es[j] \in {Tick(inputs), Tick({})}
  BY <1>3
<1>5. \A j \in DOMAIN es : es[j].kind = "tick" /\ es[j].inputs \in {inputs, {}}
  BY <1>1, <1>4
<1>q. QED  BY <1>3, <1>5 DEF InputsOnce, es

\* A resolution's draft and batch, with or without the checkpoint.
LEMMA ResolutionFaithful ==
    ASSUME IInv, NEW inputs \in SUBSET Input, NEW n \in Nat,
           \A a, b \in inputs : a.seat = b.seat => a = b,
           BookValid(live, inputs), ValidParticipants(GameAfter(inputs, n))
    PROVE  /\ ResolutionDraft(live, inputs, n) \in KernelState
           /\ Faithful(Stamp(ResolutionDraft(live, inputs, n), live.revision + 1),
                       ResolutionBatch(live, inputs, n))
<1> DEFINE k  == Resolve(live, inputs, n)
           b  == ResolutionBatch(live, inputs, n)
           e  == ReplayResolution(recovered, b)
           es == <<Tick(inputs)>> \o EmptyTicks(n)
<1>1. /\ live \in KernelState /\ recovered \in Recovered
      /\ recovered.state = live /\ recovered.interests = interests
      /\ recovered.historical = historical \cup InteractionKeys(live.game)
      /\ InputsOnce(live.game)
  BY DEF IInv, TypeOK, Rebuilds
<1>2. live.game \in Seq(Effect)
  BY <1>1 DEF KernelState
<1>3. /\ k \in KernelState /\ k.game = live.game \o es
      /\ k.revision = live.revision /\ k.intents = {} /\ k.rejected = live.rejected
  <2>1. ValidParticipants(live.game \o (<<Tick(inputs)>> \o EmptyTicks(n)))
    BY DEF GameAfter
  <2>2. live \in KernelState
    BY <1>1
  <2>q. QED  BY <2>1, <2>2, ResolveType, Zenon
<1>4. /\ b \in Batch /\ b.kind = "resolution" /\ b.inputs = inputs /\ b.extra = n
      /\ b.cursor = live.cursor /\ b.at = live.revision + 1
      /\ b.checkpoint = Due(live, k)
      /\ Due(live, k) => b.digest = Digest(k)
  <2>1. /\ Blank(live) \in Batch /\ Blank(live).at = live.revision + 1
        /\ Blank(live).cursor = live.cursor
    BY <1>1, BlankType
  <2>2. Digest(k) \in Nat \X Seq(Effect)
    BY <1>3 DEF Digest, KernelState
  <2>3. Due(live, k) \in BOOLEAN
    BY DEF Due
  <2> HIDE DEF k
  <2>4. b = [Blank(live) EXCEPT !.kind = "resolution", !.inputs = inputs, !.extra = n,
               !.checkpoint = Due(live, k),
               !.digest = IF Due(live, k) THEN Digest(k) ELSE @]
    BY DEF ResolutionBatch, k
  <2> HIDE DEF b
  <2>q. QED  BY <2>1, <2>2, <2>3, <2>4 DEF Batch
<1>5. e.state = k
  BY <1>1, <1>4 DEF ReplayResolution, Resolve, Recovered
<1>6. e.historical = recovered.historical /\ e.interests = recovered.interests
  BY <1>1 DEF ReplayResolution, Recovered
<1>7. ~recovered.fault => ~e.fault
  <2>1. Book(live, inputs) \in KernelState /\ Book(live, inputs).game = live.game
    BY <1>1, BookType
  <2>2. Show(Book(live, inputs), es).game = live.game \o es
    BY <2>1, TicksType, ShowType
  <2>q. QED  BY <1>1, <1>4, <2>2 DEF ReplayResolution, Recovered, GameAfter
<1>8. e \in Recovered
  <2>1. e.fault \in BOOLEAN
    BY <1>1 DEF ReplayResolution, Recovered
  <2>q. QED  BY <1>1, <1>3, <1>5, <1>6, <2>1 DEF Recovered, ReplayResolution
<1>9. ReplayEvents(recovered, b) = e
  BY <1>4 DEF ReplayEvents
<1>10. InteractionKeys(k.game) = InteractionKeys(live.game)
       /\ InputsOnce(k.game) /\ IsExtension(live.game, k.game)
  <2>1. /\ es \in Seq(Effect) /\ InputsOnce(es)
        /\ \A j \in DOMAIN es : es[j].kind # "interaction"
    BY TicksOnce
  <2> HIDE DEF es, k
  <2>q. QED
    BY <1>1, <1>2, <1>3, <2>1, AppendOthers, AppendInputsOnce, AppendExtends
<1>11. Rebuilds(e, k, HistoricalAfter(b), InterestsAfter(b))
  BY <1>1, <1>4, <1>5, <1>6, <1>10 DEF Rebuilds, HistoricalAfter, InterestsAfter
<1>12. AnswersOnce(k)
  BY <1>3 DEF AnswersOnce
<1>13. ResolutionDraft(live, inputs, n) = IF Due(live, k) THEN Checkpointed(k) ELSE k
  BY DEF ResolutionDraft, Checkpointed
<1> HIDE DEF e, k, b
<1>14. CASE Due(live, k)
  <2>1. b.checkpoint = TRUE /\ b.digest = Digest(k)
    BY <1>4, <1>14
  <2>2. Faithful(Stamp(Checkpointed(k), live.revision + 1), b)
    BY <1>3, <1>4, <1>7, <1>8, <1>9, <1>10, <1>11, <1>12, <2>1, CheckedFaithful
  <2>q. QED  BY <1>3, <1>13, <1>14, <2>2, CheckpointType DEF b
<1>15. CASE ~Due(live, k)
  <2>1. b.checkpoint = FALSE
    BY <1>4, <1>15
  <2>2. Faithful(Stamp(k, live.revision + 1), b)
    BY <1>3, <1>4, <1>7, <1>8, <1>9, <1>10, <1>11, <1>12, <2>1, PlainFaithful
  <2>q. QED  BY <1>3, <1>13, <1>15, <2>2 DEF b
<1>q. QED  BY <1>14, <1>15

LEMMA RejectType ==
    ASSUME NEW k \in KernelState, NEW i \in Intent, NEW at \in Nat
    PROVE  /\ Reject(k, i, at) \in KernelState
           /\ Reject(k, i, at).game = k.game
           /\ Reject(k, i, at).cursor = k.cursor
           /\ Reject(k, i, at).revision = k.revision
           /\ Reject(k, i, at).intents = k.intents \ {i}
           /\ k.rejected \subseteq Reject(k, i, at).rejected
<1>1. [key |-> KeyOf(i), at |-> at] \in Tombstone
  BY DEF Tombstone, KeyOf, Key, Intent
<1>q. QED  BY <1>1 DEF Reject, KernelState

LEMMA RejectionFaithful ==
    ASSUME IInv, NEW i \in live.intents
    PROVE  /\ RejectionDraft(live, i) \in KernelState
           /\ Faithful(Stamp(RejectionDraft(live, i), live.revision + 1),
                       RejectionBatch(live, i))
<1> DEFINE k == Reject(live, i, live.revision + 1)
           b == RejectionBatch(live, i)
           e == ReplayRejection(recovered, b)
<1>1. /\ live \in KernelState /\ recovered \in Recovered
      /\ recovered.state = live /\ recovered.interests = interests
      /\ recovered.historical = historical \cup InteractionKeys(live.game)
      /\ AnswersOnce(live) /\ InputsOnce(live.game)
  BY DEF IInv, TypeOK, Rebuilds
<1>2. /\ i \in Intent /\ live.revision + 1 \in Nat
      /\ live.game \in Seq(Effect) /\ live.cursor \in Nat
  BY <1>1 DEF KernelState
<1>3. i \in Input
  BY <1>2 DEF Intent, Input
<1>4. /\ k \in KernelState /\ k.game = live.game /\ k.cursor = live.cursor
      /\ k.revision = live.revision /\ k.intents = live.intents \ {i}
      /\ live.rejected \subseteq k.rejected
  BY <1>1, <1>2, RejectType
<1>5. RejectionDraft(live, i) = Checkpointed(k)
  BY <1>4 DEF RejectionDraft, Checkpointed
<1>6. Digest(RejectionDraft(live, i)) = Digest(k)
  <2>1. Checkpointed(k).game = k.game /\ Checkpointed(k).cursor = k.cursor
    BY <1>4 DEF Checkpointed, KernelState
  <2>q. QED  BY <1>5, <2>1 DEF Digest
<1>7. /\ b \in Batch /\ b.kind = "rejection" /\ b.input = i
      /\ b.at = live.revision + 1 /\ b.checkpoint = TRUE /\ b.digest = Digest(k)
  <2>1. Blank(live) \in Batch /\ Blank(live).at = live.revision + 1
    BY <1>1, BlankType
  <2>2. Digest(k) \in Nat \X Seq(Effect)
    BY <1>2, <1>4 DEF Digest
  <2> HIDE DEF k
  <2>3. b = [Blank(live) EXCEPT !.kind = "rejection", !.input = i,
                                !.checkpoint = TRUE, !.digest = Digest(k)]
    BY <1>6 DEF RejectionBatch
  <2> HIDE DEF b
  <2>q. QED  BY <1>3, <2>1, <2>2, <2>3 DEF Batch
<1>8. e.state = k
  <2>1. {j \in live.intents : j.seat # i.seat} = live.intents \ {i}
    BY <1>1 DEF AnswersOnce
  <2>2. e.state = [live EXCEPT
           !.intents = {j \in live.intents : j.seat # i.seat},
           !.receipts = {q \in live.receipts : q.key # KeyOf(i)},
           !.rejected = live.rejected \cup
                          {[key |-> KeyOf(i), at |-> live.revision + 1]}]
    BY <1>1, <1>7 DEF ReplayRejection, Recovered
  <2>q. QED  BY <2>1, <2>2 DEF Reject
<1>9. /\ e.historical = recovered.historical
      /\ e.interests = recovered.interests
      /\ e.fault = recovered.fault
  BY <1>1 DEF ReplayRejection, Recovered
<1>10. e \in Recovered
  BY <1>1, <1>4, <1>8, <1>9 DEF Recovered, ReplayRejection
<1>11. ReplayEvents(recovered, b) = e
  BY <1>7 DEF ReplayEvents
<1>12. Rebuilds(e, k, HistoricalAfter(b), InterestsAfter(b))
  BY <1>1, <1>4, <1>7, <1>8, <1>9 DEF Rebuilds, HistoricalAfter, InterestsAfter
<1>13. AnswersOnce(k) /\ InputsOnce(k.game) /\ IsExtension(live.game, k.game)
  BY <1>1, <1>2, <1>4 DEF AnswersOnce, IsExtension
<1> HIDE DEF e, k, b
<1>14. Faithful(Stamp(Checkpointed(k), live.revision + 1), b)
  BY <1>4, <1>7, <1>9, <1>10, <1>11, <1>12, <1>13, CheckedFaithful
<1>q. QED  BY <1>4, <1>5, <1>14, CheckpointType DEF b

-----------------------------------------------------------------------------
(* The inductive invariant.                                                *)

LEMMA InitInv == Init => IInv
<1> SUFFICES ASSUME Init PROVE IInv
  OBVIOUS
<1>1. Fresh \in KernelState
  BY KernelAssumption DEF Init, Fresh, KernelState, ValidParticipants
<1>2. TypeOK
  BY <1>1 DEF Init, TypeOK, Recovered
<1>3. Rebuilds(recovered, live, historical, interests)
  BY DEF Init, Rebuilds, Fresh, InteractionKeys
<1>4. AnswersOnce(live) /\ InputsOnce(live.game)
  BY DEF Init, Fresh, AnswersOnce, InputsOnce
<1>5. \A slot \in Slots : ~Open(slot)
  BY DEF Init, Open
<1>6. ~recovered.fault
  BY DEF Init
<1>q. QED  BY <1>2, <1>3, <1>4, <1>5, <1>6 DEF IInv

\* A draft keeps its part of the invariant while nothing it relies on changes.
LEMMA DraftStays ==
    ASSUME NEW d, DraftInv(d), UNCHANGED <<live, historical, interests, recovered>>
    PROVE  DraftInv(d)'
BY DEF DraftInv, Faithful, Rebuilds, HistoricalAfter, InterestsAfter

\* Putting a draft in a slot, or taking one out, when the rest stays as it is.
LEMMA SlotInv ==
    ASSUME IInv, NEW slot \in Slots, NEW d \in Draft \cup {NoDraft},
           drafts' = [drafts EXCEPT ![slot] = d],
           d # NoDraft => DraftInv(d),
           UNCHANGED <<options, live, historical, interests, recovered>>
    PROVE  IInv'
<1>1. TypeOK'
  BY DEF IInv, TypeOK
<1>2. \A s \in Slots : Open(s)' => DraftInv(drafts[s])'
  <2> SUFFICES ASSUME NEW s \in Slots, Open(s)'
               PROVE  DraftInv(drafts[s])'
    OBVIOUS
  <2>1. PICK c : c = drafts'[s]
    OBVIOUS
  <2>2. DraftInv(c)
    BY <2>1 DEF IInv, TypeOK, Open
  <2>3. DraftInv(c)'
    BY <2>2, DraftStays
  <2>q. QED  BY <2>1, <2>3 DEF DraftInv, Faithful, Rebuilds, HistoricalAfter, InterestsAfter
<1>3. /\ Rebuilds(recovered, live, historical, interests)'
      /\ (FreshInteractionIds => ~recovered.fault)'
      /\ AnswersOnce(live)' /\ InputsOnce(live.game)'
  BY DEF IInv, Rebuilds, AnswersOnce, InputsOnce
<1>q. QED  BY <1>1, <1>2, <1>3 DEF IInv

LEMMA PrepareInv ==
    ASSUME IInv, NEW slot \in Slots, NEW next \in KernelState, NEW batch,
           Faithful(Stamp(next, live.revision + 1), batch),
           Prepare(slot, next, batch)
    PROVE  IInv'
<1> DEFINE d == [base |-> live.revision, noop |-> FALSE, batch |-> batch,
                 next |-> Stamp(next, live.revision + 1)]
<1>1. live.revision \in Nat /\ live.revision + 1 \in Nat
  BY DEF IInv, TypeOK, KernelState
<1>2. /\ Stamp(next, live.revision + 1) \in KernelState
      /\ Stamp(next, live.revision + 1).revision = live.revision + 1
  BY <1>1, StampType
<1>3. d \in Draft
  BY <1>1, <1>2 DEF Draft, Faithful
<1>4. DraftInv(d)
  BY <1>1, <1>2 DEF DraftInv
<1>5. /\ drafts' = [drafts EXCEPT ![slot] = d]
      /\ UNCHANGED <<options, live, historical, interests, recovered>>
  BY DEF Prepare, Stamp
<1> HIDE DEF d
<1>q. QED  BY <1>3, <1>4, <1>5, SlotInv

LEMMA PrepareNoopInv ==
    ASSUME IInv, NEW slot \in Slots, PrepareNoop(slot)
    PROVE  IInv'
<1> DEFINE d == [base |-> live.revision, noop |-> TRUE, batch |-> Blank(live),
                 next |-> live]
<1>1. live \in KernelState /\ live.revision \in Nat
  BY DEF IInv, TypeOK, KernelState
<1>2. d \in Draft
  BY <1>1, BlankType DEF Draft
<1>3. DraftInv(d)
  BY <1>1 DEF DraftInv
<1>4. /\ drafts' = [drafts EXCEPT ![slot] = d]
      /\ UNCHANGED <<options, live, historical, interests, recovered>>
  BY DEF PrepareNoop
<1> HIDE DEF d
<1>q. QED  BY <1>2, <1>3, <1>4, SlotInv

LEMMA CloseInv ==
    ASSUME IInv, NEW slot \in Slots, Close(slot),
           UNCHANGED <<options, live, historical, interests, recovered>>
    PROVE  IInv'
BY SlotInv DEF Close

-----------------------------------------------------------------------------
(* One lemma per operation: preparing it keeps the invariant.              *)

LEMMA InputType ==
    ASSUME IInv, NEW s \in Seats, NEW id \in Ids, NEW op \in Ops,
           NEW n \in Numbers(s, op)
    PROVE  InputOf(s, id, op, n) \in Intent
<1>1. n \in Nat
  BY DEF Numbers, IInv, TypeOK, KernelState
<1>2. op \in IntentOps \cup {"touch"}
  BY KernelAssumption
<1>q. QED  BY <1>1, <1>2 DEF InputOf, Intent, Command

LEMMA PrepareIntentInv ==
    ASSUME IInv, NEW slot \in Slots, NEW i \in Intent, PrepareIntent(slot, i)
    PROVE  IInv'
<1>1. i.seat \in live.window /\ i.seat \notin Answered(live)
  BY DEF PrepareIntent, Admissible, KeyOf
<1>2. Prepare(slot, IntentDraft(live, i), IntentBatch(live, i))
  BY DEF PrepareIntent
<1>q. QED  BY <1>1, <1>2, IntentFaithful, PrepareInv

LEMMA PrepareInteractionInv ==
    ASSUME IInv, NEW slot \in Slots, NEW i \in Intent, PrepareInteraction(slot, i)
    PROVE  IInv'
<1>1. /\ MayUse(KeyOf(i))
      /\ KeyOf(i) \notin ReceiptKeys(live) \cup historical
      /\ Participants(InteractionDraft(live, i).game) = live.window
      /\ Prepare(slot, InteractionDraft(live, i), InteractionBatch(live, i))
  BY DEF PrepareInteraction, Admissible
<1>q. QED  BY <1>1, InteractionFaithful, PrepareInv

LEMMA PrepareControlInv ==
    ASSUME IInv, NEW slot \in Slots, NEW key \in Key,
           PrepareControlTransition(slot, key)
    PROVE  IInv'
<1> DEFINE i == InputOf(key[1], key[2], "control", 0)
<1>1. i \in Input /\ KeyOf(i) = key
  BY DEF InputOf, Input, Command, KeyOf, Key
<1>2. /\ key \notin live.controls
      /\ ValidParticipants(ControlDraft(live, i).game)
      /\ Prepare(slot, ControlDraft(live, i), ControlBatch(live, i))
  BY DEF PrepareControlTransition
<1> HIDE DEF i
<1>q. QED  BY <1>1, <1>2, ControlFaithful, PrepareInv

LEMMA PrepareInterestInv ==
    ASSUME IInv, NEW slot \in Slots, NEW key \in Key, NEW scope \in Scopes,
           PrepareInterest(slot, key, scope)
    PROVE  IInv'
<1>1. /\ MayUse(key) /\ key \notin historical
      /\ Prepare(slot, InterestDraft(live, key, scope), InterestBatch(live, key, scope))
  BY DEF PrepareInterest
<1>q. QED  BY <1>1, InterestFaithful, PrepareInv

LEMMA PrepareRejectionInv ==
    ASSUME IInv, NEW slot \in Slots, PrepareRejection(slot)
    PROVE  IInv'
<1>1. PICK i \in live.intents :
         Prepare(slot, RejectionDraft(live, i), RejectionBatch(live, i))
  BY DEF PrepareRejection
<1>q. QED  BY <1>1, RejectionFaithful, PrepareInv

LEMMA PrepareResolutionInv ==
    ASSUME IInv, NEW slot \in Slots, NEW inputs \in SUBSET Input, NEW n \in Nat,
           \A a, b \in inputs : a.seat = b.seat => a = b,
           PrepareResolution(slot, inputs, n)
    PROVE  IInv'
<1>1. /\ BookValid(live, inputs) /\ ValidParticipants(GameAfter(inputs, n))
      /\ Prepare(slot, ResolutionDraft(live, inputs, n), ResolutionBatch(live, inputs, n))
  BY DEF PrepareResolution
<1>q. QED  BY <1>1, ResolutionFaithful, PrepareInv

\* The intents of the window are inputs, one of a seat at most.
LEMMA IntentsOnce ==
    ASSUME IInv
    PROVE  /\ live.intents \subseteq Intent /\ live.intents \subseteq Input
           /\ \A a, b \in live.intents : a.seat = b.seat => a = b
<1>1. live.intents \subseteq Intent
  BY DEF IInv, TypeOK, KernelState
<1>q. QED  BY <1>1 DEF Intent, Input, IInv, AnswersOnce

LEMMA PrepareAdvanceInv ==
    ASSUME IInv, NEW slot \in Slots, NEW ahead \in 0..MaxFutureTicks,
           PrepareAdvance(slot, ahead)
    PROVE  IInv'
<1>1. CASE Forged(live) # {}
  BY <1>1, PrepareRejectionInv DEF PrepareAdvance
<1>2. CASE Forged(live) = {}
  <2>1. PICK extra \in 0..ahead : PrepareResolution(slot, live.intents, extra)
    BY <1>2 DEF PrepareAdvance
  <2>2. extra \in Nat
    BY <2>1
  <2>q. QED  BY <2>1, <2>2, IntentsOnce, PrepareResolutionInv
<1>q. QED  BY <1>1, <1>2

LEMMA PrepareTimeoutInv ==
    ASSUME IInv, NEW slot \in Slots, NEW p \in Seats \cup {None},
           PrepareTimeout(slot, p)
    PROVE  IInv'
<1> DEFINE t      == InputOf(p, None, "timeout", 0)
           inputs == live.intents \cup {t}
<1>1. CASE Forged(live) # {}
  BY <1>1, PrepareRejectionInv DEF PrepareTimeout
<1>2. CASE Forged(live) = {}
  <2>1. PrepareResolution(slot, inputs, 0) /\ p \notin Answered(live)
    <3>1. None \notin Answered(live)
      BY IntentsOnce, KernelAssumption DEF Answered, Intent
    <3>q. QED  BY <1>2, <3>1 DEF PrepareTimeout
  <2>2. t \in Input /\ t.seat = p
    BY DEF InputOf, Input, Command
  <2> HIDE DEF t
  <2>3. \A a, b \in inputs : a.seat = b.seat => a = b
    BY <2>1, <2>2, IntentsOnce DEF Answered
  <2>4. inputs \in SUBSET Input
    BY <2>2, IntentsOnce
  <2> HIDE DEF inputs
  <2>q. QED  BY <2>1, <2>3, <2>4, PrepareResolutionInv
<1>q. QED  BY <1>1, <1>2

LEMMA PrepareAnyInv ==
    ASSUME IInv, NEW slot \in Slots, PrepareAny(slot)
    PROVE  IInv'
<1>1. ASSUME NEW s \in Seats, NEW id \in Ids, NEW op \in Ops,
             NEW n \in Numbers(s, op),
             PrepareInteraction(slot, InputOf(s, id, op, n))
               \/ PrepareIntent(slot, InputOf(s, id, op, n))
      PROVE  IInv'
  BY <1>1, InputType, PrepareInteractionInv, PrepareIntentInv
<1>2. ASSUME PrepareDuplicate(slot) PROVE IInv'
  BY <1>2, PrepareNoopInv DEF PrepareDuplicate
<1>3. ASSUME NEW ahead \in 0..MaxFutureTicks, PrepareAdvance(slot, ahead)
      PROVE  IInv'
  BY <1>3, PrepareAdvanceInv
<1>4. ASSUME NEW ahead \in 0..MaxFutureTicks, PrepareIdleAdvance(slot, ahead)
      PROVE  IInv'
  BY <1>4, PrepareNoopInv DEF PrepareIdleAdvance
<1>5. ASSUME NEW p \in Seats \cup {None}, PrepareTimeout(slot, p) PROVE IInv'
  BY <1>5, PrepareTimeoutInv
<1>6. ASSUME PrepareExtension(slot) \/ PrepareSeatSignature(slot) PROVE IInv'
  <2>1. Prepare(slot, live, Blank(live))
    BY <1>6 DEF PrepareExtension, PrepareSeatSignature
  <2>2. live \in KernelState
    BY DEF IInv, TypeOK
  <2>q. QED  BY <2>1, <2>2, AuditFaithful, PrepareInv
<1>7. ASSUME NEW key \in Key, PrepareControlTransition(slot, key) PROVE IInv'
  BY <1>7, PrepareControlInv
<1>8. ASSUME NEW key \in Key, NEW scope \in Scopes, PrepareInterest(slot, key, scope)
      PROVE  IInv'
  BY <1>8, PrepareInterestInv
<1>q. QED  BY <1>1, <1>2, <1>3, <1>4, <1>5, <1>6, <1>7, <1>8 DEF PrepareAny

-----------------------------------------------------------------------------
(* Commits, crashes and restarts.                                          *)

\* What a commit of an open, current draft publishes.
LEMMA CurrentDraft ==
    ASSUME IInv, NEW slot \in Slots, Open(slot), ~drafts[slot].noop,
           drafts[slot].base = live.revision
    PROVE  /\ drafts[slot] \in Draft
           /\ drafts[slot].next.revision = live.revision + 1
           /\ Faithful(drafts[slot].next, drafts[slot].batch)
           /\ HistoricalAfter(drafts[slot].batch) \subseteq Key
           /\ InterestsAfter(drafts[slot].batch) \subseteq InterestCommand
<1> DEFINE d == drafts[slot]
<1>1. d \in Draft
  BY DEF IInv, TypeOK, Open
<1>2. d.next.revision = live.revision + 1 /\ Faithful(d.next, d.batch)
  BY DEF IInv, DraftInv
<1> HIDE DEF d
<1>3. /\ Replay(recovered, d.batch) \in Recovered
      /\ Rebuilds(Replay(recovered, d.batch), d.next,
                  HistoricalAfter(d.batch), InterestsAfter(d.batch))
  BY <1>2 DEF Faithful
<1>4. /\ HistoricalAfter(d.batch) \subseteq Key
      /\ InterestsAfter(d.batch) \subseteq InterestCommand
  BY <1>3 DEF Rebuilds, Recovered
<1>q. QED  BY <1>1, <1>2, <1>4 DEF d

LEMMA CommitInv ==
    ASSUME IInv, NEW slot \in Slots, Commit(slot)
    PROVE  IInv'
<1> DEFINE d == drafts[slot]
<1>1. /\ d \in Draft /\ d.next.revision = live.revision + 1
      /\ Faithful(d.next, d.batch)
      /\ HistoricalAfter(d.batch) \subseteq Key
      /\ InterestsAfter(d.batch) \subseteq InterestCommand
  BY CurrentDraft DEF Commit
<1>2. /\ live' = d.next /\ recovered' = Replay(recovered, d.batch)
      /\ historical' = HistoricalAfter(d.batch)
      /\ interests' = InterestsAfter(d.batch)
      /\ drafts' = [drafts EXCEPT ![slot] = NoDraft]
      /\ options' = options
  BY DEF Commit, Durable, Close
<1> HIDE DEF d
<1>3. /\ d.next \in KernelState /\ Replay(recovered, d.batch) \in Recovered
      /\ Rebuilds(Replay(recovered, d.batch), d.next,
                  HistoricalAfter(d.batch), InterestsAfter(d.batch))
      /\ FreshInteractionIds /\ ~recovered.fault => ~Replay(recovered, d.batch).fault
      /\ AnswersOnce(d.next) /\ InputsOnce(d.next.game)
  BY <1>1 DEF Faithful
<1>4. TypeOK'
  BY <1>1, <1>2, <1>3 DEF IInv, TypeOK
<1>5. /\ Rebuilds(recovered, live, historical, interests)'
      /\ AnswersOnce(live)' /\ InputsOnce(live.game)'
  BY <1>2, <1>3 DEF Rebuilds, AnswersOnce, InputsOnce
<1>6. FreshInteractionIds => ~recovered'.fault
  BY <1>2, <1>3 DEF IInv
<1>7. \A s \in Slots : Open(s)' => DraftInv(drafts[s])'
  <2> SUFFICES ASSUME NEW s \in Slots, Open(s)'
               PROVE  DraftInv(drafts[s])'
    OBVIOUS
  <2>1. s # slot /\ drafts'[s] = drafts[s] /\ Open(s)
    BY <1>2 DEF Open, IInv, TypeOK
  <2>2. drafts[s] \in Draft /\ DraftInv(drafts[s])
    BY <2>1 DEF IInv, TypeOK, Open
  <2>3. drafts[s].base \in Nat /\ live.revision \in Nat
    BY <2>2 DEF Draft, IInv, TypeOK, KernelState
  <2>4. drafts'[s].base < live'.revision
    BY <1>1, <1>2, <2>1, <2>2, <2>3 DEF DraftInv
  <2>5. drafts'[s].base \in Nat /\ live'.revision \in Nat
    BY <1>1, <1>2, <2>1, <2>3
  <2>q. QED  BY <2>4, <2>5 DEF DraftInv
<1>q. QED  BY <1>4, <1>5, <1>6, <1>7 DEF IInv

\* A kernel rehydrated from r, which rebuilds k, satisfies the invariant.
LEMMA RehydrateInv ==
    ASSUME IInv, NEW r \in Recovered, NEW k \in KernelState, NEW h, NEW c,
           Rebuilds(r, k, h, c), AnswersOnce(k), InputsOnce(k.game),
           Rehydrate(r), recovered' = r
    PROVE  IInv'
<1>1. /\ live' = k /\ historical' = r.historical /\ interests' = r.interests
      /\ drafts' = [slot \in Slots |-> NoDraft] /\ options' = options
      /\ ~r.fault
  BY DEF Rehydrate, Rebuilds
<1>2. TypeOK'
  BY <1>1 DEF IInv, TypeOK, Recovered
<1>3. /\ Rebuilds(recovered, live, historical, interests)'
      /\ AnswersOnce(live)' /\ InputsOnce(live.game)'
  BY <1>1 DEF Rebuilds, AnswersOnce, InputsOnce
<1>4. \A s \in Slots : ~Open(s)'
  BY <1>1 DEF Open
<1>q. QED  BY <1>1, <1>2, <1>3, <1>4 DEF IInv

LEMMA RestartInv ==
    ASSUME IInv, Restart
    PROVE  IInv'
BY RehydrateInv DEF Restart, IInv, TypeOK

LEMMA CrashInv ==
    ASSUME IInv, NEW slot \in Slots, CrashAfterPersist(slot)
    PROVE  IInv'
<1> DEFINE d == drafts[slot]
           r == Replay(recovered, d.batch)
<1>1. Faithful(d.next, d.batch)
  BY CurrentDraft DEF CrashAfterPersist
<1>2. Rehydrate(r) /\ recovered' = r
  BY DEF CrashAfterPersist, Durable
<1> HIDE DEF d
<1>3. /\ r \in Recovered /\ d.next \in KernelState
      /\ Rebuilds(r, d.next, HistoricalAfter(d.batch), InterestsAfter(d.batch))
      /\ AnswersOnce(d.next) /\ InputsOnce(d.next.game)
  BY <1>1 DEF Faithful
<1> HIDE DEF r
<1>q. QED  BY <1>2, <1>3, RehydrateInv

LEMMA StutterInv ==
    ASSUME IInv, UNCHANGED vars
    PROVE  IInv'
<1>1. TypeOK' /\ (FreshInteractionIds => ~recovered.fault)'
  BY DEF IInv, TypeOK, vars
<1>2. /\ Rebuilds(recovered, live, historical, interests)'
      /\ AnswersOnce(live)' /\ InputsOnce(live.game)'
  BY DEF IInv, Rebuilds, AnswersOnce, InputsOnce, vars
<1>3. \A s \in Slots : Open(s)' => DraftInv(drafts[s])'
  BY DEF IInv, Open, DraftInv, Faithful, Rebuilds, HistoricalAfter, InterestsAfter, vars
<1>q. QED  BY <1>1, <1>2, <1>3 DEF IInv

LEMMA NextInv == IInv /\ [Next]_vars => IInv'
<1> SUFFICES ASSUME IInv, [Next]_vars PROVE IInv'
  OBVIOUS
<1>1. CASE Restart
  BY <1>1, RestartInv
<1>2. ASSUME NEW slot \in Slots, PrepareAny(slot) PROVE IInv'
  BY <1>2, PrepareAnyInv
<1>3. ASSUME NEW slot \in Slots, Commit(slot) PROVE IInv'
  BY <1>3, CommitInv
<1>4. ASSUME NEW slot \in Slots,
             CommitStale(slot) \/ CommitNoop(slot) \/ Abort(slot)
      PROVE  IInv'
  BY <1>4, CloseInv DEF CommitStale, CommitNoop, Abort
<1>5. ASSUME NEW slot \in Slots, CrashAfterPersist(slot) PROVE IInv'
  BY <1>5, CrashInv
<1>6. CASE UNCHANGED vars
  BY <1>6, StutterInv
<1>q. QED  BY <1>1, <1>2, <1>3, <1>4, <1>5, <1>6 DEF Next

LEMMA Inductive == Spec => []IInv
BY InitInv, NextInv, PTL DEF Spec

-----------------------------------------------------------------------------
(* The theorems.                                                           *)

\* The live kernel, its identity registers, every prepared draft and the
\* rehydrated state are well formed in every reachable state.
THEOREM TypeCorrect == Spec => []TypeOK
<1>1. IInv => TypeOK
  BY DEF IInv
<1>q. QED  BY <1>1, Inductive, PTL

\* If clients never reuse the id of an interaction, rehydrateKernel accepts
\* every transcript and rebuilds the live state exactly, also for a transition
\* that was persisted but not committed before a crash.
THEOREM RecoveryIsFaithful ==
    ASSUME FreshInteractionIds
    PROVE  Spec => []RecoveryFaithful
<1>1. IInv => RecoveryFaithful
  <2> SUFFICES ASSUME IInv PROVE RecoveryFaithful
    OBVIOUS
  <2>1. /\ recovered \in Recovered /\ ~recovered.fault
        /\ Rebuilds(recovered, live, historical, interests)
    BY DEF IInv, TypeOK
  <2>2. recovered = [state |-> recovered.state, historical |-> recovered.historical,
                     interests |-> recovered.interests, fault |-> recovered.fault]
    BY <2>1 DEF Recovered
  <2>3. recovered.fault = FALSE
    BY <2>1 DEF Recovered
  <2>q. QED  BY <2>1, <2>2, <2>3 DEF RecoveryFaithful, Rebuilds
<1>q. QED  BY <1>1, Inductive, PTL

\* Every resolved tick holds at most one input of a seat, system inputs of
\* timeouts included.
THEOREM TicksTakeOneInputPerSeat == Spec => []OneInputPerSeat
<1>1. IInv => OneInputPerSeat
  BY DEF IInv, InputsOnce, OneInputPerSeat, TickIndexes, InputsAt
<1>q. QED  BY <1>1, Inductive, PTL

\* Preparing, aborting and dropping a stale draft publish nothing.
LEMMA PrepareKeepsLive ==
    ASSUME NEW slot \in Slots, PrepareAny(slot)
    PROVE  UNCHANGED live
<1>1. \A next, batch : Prepare(slot, next, batch) => live' = live
  BY DEF Prepare
<1>2. PrepareNoop(slot) => live' = live
  BY DEF PrepareNoop
<1>3. \A i : PrepareIntent(slot, i) \/ PrepareInteraction(slot, i) => live' = live
  BY <1>1 DEF PrepareIntent, PrepareInteraction
<1>4. \A ahead : PrepareAdvance(slot, ahead) \/ PrepareIdleAdvance(slot, ahead)
                   => live' = live
  BY <1>1, <1>2 DEF PrepareAdvance, PrepareIdleAdvance, PrepareRejection,
                    PrepareResolution
<1>5. \A p : PrepareTimeout(slot, p) => live' = live
  BY <1>1 DEF PrepareTimeout, PrepareRejection, PrepareResolution
<1>6. \A key : PrepareControlTransition(slot, key) => live' = live
  BY <1>1 DEF PrepareControlTransition
<1>7. \A key, scope : PrepareInterest(slot, key, scope) => live' = live
  BY <1>1 DEF PrepareInterest
<1>8. PrepareExtension(slot) \/ PrepareSeatSignature(slot) => live' = live
  BY <1>1 DEF PrepareExtension, PrepareSeatSignature
<1>9. PrepareDuplicate(slot) => live' = live
  BY <1>2 DEF PrepareDuplicate
<1>q. QED  BY <1>3, <1>4, <1>5, <1>6, <1>7, <1>8, <1>9 DEF PrepareAny

\* Committed history is only ever extended, one transition at a time.
THEOREM HistoryOnlyExtends == Spec => HistoryExtends
<1> DEFINE Extends ==
       /\ IsExtension(live.game, live'.game)
       /\ live'.revision \in {live.revision, live.revision + 1}
       /\ live'.revision = live.revision => live'.game = live.game
       /\ live.rejected \subseteq live'.rejected
<1>1. IInv /\ UNCHANGED live => Extends
  BY DEF IInv, TypeOK, KernelState, IsExtension
<1>2. ASSUME IInv, NEW slot \in Slots, Commit(slot) \/ CrashAfterPersist(slot)
      PROVE  Extends
  <2>1. /\ drafts[slot].next.revision = live.revision + 1
        /\ Faithful(drafts[slot].next, drafts[slot].batch)
    BY <1>2, CurrentDraft DEF Commit, CrashAfterPersist
  <2>2. live' = drafts[slot].next
    BY <1>2, <2>1 DEF Commit, CrashAfterPersist, Rehydrate, Faithful, Rebuilds
  <2>3. live.revision \in Nat
    BY <1>2 DEF IInv, TypeOK, KernelState
  <2>q. QED  BY <2>1, <2>2, <2>3 DEF Faithful
<1>3. IInv /\ Restart => UNCHANGED live
  BY DEF IInv, Rebuilds, Restart, Rehydrate
<1>4. IInv /\ [Next]_vars => [Extends]_vars
  BY <1>1, <1>2, <1>3, PrepareKeepsLive
  DEF Next, vars, CommitStale, CommitNoop, Abort
<1>q. QED  BY <1>4, Inductive, PTL DEF Spec, HistoryExtends

-----------------------------------------------------------------------------
(* The ledger of what clients sent: every intent's place, every receipt,   *)
(* every commitment.                                                       *)
(*                                                                         *)
(* These relate the live state to the whole history, so they are carried   *)
(* from one live state to the next by the operation that prepared the      *)
(* draft, which Caused recalls for as long as the draft can be committed.  *)

InterestKeysOf(c) == {e.key : e \in c}

\* Where one intent's key is: `at` the ticks that took it, in the open window,
\* rejected; `known` in the identity register, `owed` to have one place.
KeyLedger(at, pending, rejected, known, owed) ==
    /\ at # {} \/ pending \/ rejected => known
    /\ at = {} \/ (~pending /\ ~rejected /\ \E j \in at : at = {j})
    /\ ~(pending /\ rejected)
    /\ owed => at # {} \/ pending \/ rejected

IntentLedger(k, h, c) ==
    \A key \in Key :
        KeyLedger(AppliedAt(k, key), key \in PendingKeys(k), key \in RejectedKeys(k),
                  key \in h, key \in h \ (InterestKeysOf(c) \cup InteractionKeys(k.game)))

\* A retained intent receipt is of the open window, or of a window a tick closed.
ReceiptLedger(k) ==
    \A r \in k.receipts : r.effect = "intent" =>
        \/ r.cursor = k.cursor /\ r.key \in PendingKeys(k)
        \/ r.cursor < k.cursor /\ AppliedAt(k, r.key) # {}

\* The life of commitment n of a seat: made in one tick, revealed in a later one
\* or still open.
Story(made, told, n, open, next) ==
    /\ n < next => /\ \E a \in made :
                        made = {a} /\ (told = {} \/ \E b \in told : told = {b} /\ a < b)
                   /\ n \in open <=> told = {}
    /\ n >= next => made = {} /\ told = {}

\* What a pending intent's envelope still says when its window is resolved.
Envelope(i, open, next) ==
    /\ i.cmd.op = "commit" => i.cmd.n = next /\ Cardinality(open) < MaxOpenCommitments
    /\ i.cmd.op = "reveal" => i.cmd.n \in open

SeatLedger(k, s) ==
    /\ k.opened[s] \subseteq 0..(k.nextCommit[s] - 1)
    /\ Cardinality(k.opened[s]) <= MaxOpenCommitments
    /\ \A n \in Nat : Story(TicksOf(k, s, "commit", n), TicksOf(k, s, "reveal", n),
                            n, k.opened[s], k.nextCommit[s])
    /\ \A i \in k.intents : i.seat = s => Envelope(i, k.opened[s], k.nextCommit[s])

CommitmentLedger(k) == \A s \in Seats : SeatLedger(k, s)

Ledger(k, h, c) == IntentLedger(k, h, c) /\ ReceiptLedger(k) /\ CommitmentLedger(k)

\* The inputs a window can be resolved with.
Windows ==
    {live.intents} \cup
    {live.intents \cup {InputOf(p, None, "timeout", 0)} :
        p \in (live.window \ Answered(live)) \cup {None}}

\* The operation on the live state that prepared state k and batch b.
Sealed(k) == Stamp(k, live.revision + 1)
Caused(k, b) ==
    \/ \E i \in Intent :
          /\ Admissible(KeyOf(i)) /\ EnvelopeValid(i) /\ i.seat \notin Answered(live)
          /\ k = Sealed(IntentDraft(live, i)) /\ b = IntentBatch(live, i)
    \/ \E i \in Intent :
          k = Sealed(InteractionDraft(live, i)) /\ b = InteractionBatch(live, i)
    \/ \E i \in live.intents :
          k = Sealed(RejectionDraft(live, i)) /\ b = RejectionBatch(live, i)
    \/ \E inputs \in Windows, extra \in Nat :
          /\ BookValid(live, inputs) /\ ValidParticipants(GameAfter(inputs, extra))
          /\ k = Sealed(ResolutionDraft(live, inputs, extra))
          /\ b = ResolutionBatch(live, inputs, extra)
    \/ \E i \in Input :
          /\ KeyOf(i) \in Key
          /\ k = Sealed(ControlDraft(live, i)) /\ b = ControlBatch(live, i)
    \/ \E key \in Key, scope \in Scopes :
          k = Sealed(InterestDraft(live, key, scope)) /\ b = InterestBatch(live, key, scope)
    \/ k = Sealed(live) /\ b = Blank(live)

Current(d) == ~d.noop /\ d.base = live.revision
DraftsCaused ==
    \A slot \in Slots : Open(slot) /\ Current(drafts[slot]) =>
        Caused(drafts[slot].next, drafts[slot].batch)

LInv == Ledger(live, historical, interests) /\ DraftsCaused

\* Where in the history ticks took an input of a set.
Where(g, Q) == {j \in DOMAIN g : g[j].kind = "tick" /\ \E i \in g[j].inputs : i \in Q}
Of(key) == {i \in Input : KeyOf(i) = key}
Said(s, op, n) == {i \in Input : i.seat = s /\ i.cmd = [op |-> op, n |-> n]}

LEMMA GameInputs ==
    ASSUME NEW k \in KernelState
    PROVE  k.game \in Seq(Effect) /\ \A j \in DOMAIN k.game : k.game[j].inputs \subseteq Input
<1>1. PICK g : g = k.game
  OBVIOUS
<1>2. g \in Seq(Effect)
  BY <1>1 DEF KernelState
<1>3. \A j \in DOMAIN g : g[j] \in Effect
  BY <1>2
<1>4. \A e \in Effect : e.inputs \subseteq Input
  BY DEF Effect
<1>q. QED  BY <1>1, <1>2, <1>3, <1>4

LEMMA AppliedWhere ==
    ASSUME NEW k \in KernelState, NEW key
    PROVE  AppliedAt(k, key) = Where(k.game, Of(key))
<1>1. \A j \in DOMAIN k.game : k.game[j].inputs \subseteq Input
  BY GameInputs
<1>q. QED  BY <1>1 DEF AppliedAt, TickIndexes, InputsAt, Where, Of

LEMMA TicksWhere ==
    ASSUME NEW k \in KernelState
    PROVE  \A s, op, n : TicksOf(k, s, op, n) = Where(k.game, Said(s, op, n))
<1>1. \A j \in DOMAIN k.game : k.game[j].inputs \subseteq Input
  BY GameInputs
<1>q. QED  BY <1>1 DEF TicksOf, TickIndexes, InputsAt, Where, Said

LEMMA WhereOther ==
    ASSUME NEW g \in Seq(Effect), NEW i \in Input, NEW kind \in {"interaction", "control"},
           NEW Q
    PROVE  Where(g \o <<[kind |-> kind, inputs |-> {i}]>>, Q) = Where(g, Q)
<1> DEFINE es == <<[kind |-> kind, inputs |-> {i}]>>
           new == g \o es
<1>1. es \in Seq(Effect) /\ Len(es) = 1 /\ es[1].kind # "tick"
  BY SingleEffect
<1> HIDE DEF es
<1>2. /\ DOMAIN new = 1..(Len(g) + 1) /\ new[Len(g) + 1] = es[1]
      /\ \A j \in 1..Len(g) : new[j] = g[j]
      /\ DOMAIN g = 1..Len(g) /\ Len(g) \in Nat
  <2>1. DOMAIN g = 1..Len(g) /\ Len(g) \in Nat
    OBVIOUS
  <2>2. DOMAIN new = 1..(Len(g) + Len(es)) /\ (\A j \in 1..Len(g) : new[j] = g[j])
        /\ (\A j \in 1..Len(es) : new[Len(g) + j] = es[j])
    BY <1>1, Appended
  <2> HIDE DEF new
  <2>3. new[Len(g) + 1] = es[1] /\ DOMAIN new = 1..(Len(g) + 1)
    BY <1>1, <2>2
  <2>q. QED  BY <2>1, <2>2, <2>3
<1> HIDE DEF new
<1>3. \A j \in DOMAIN new : j \in DOMAIN g \/ j = Len(g) + 1
  BY <1>2
<1>4. \A j \in DOMAIN g : j \in DOMAIN new /\ new[j] = g[j]
  BY <1>2
<1>5. Where(new, Q) = Where(g, Q)
  BY <1>1, <1>2, <1>3, <1>4 DEF Where
<1>q. QED  BY <1>5 DEF new, es

LEMMA WhereTick ==
    ASSUME NEW g \in Seq(Effect), NEW inputs \in SUBSET Input, NEW n \in Nat, NEW Q
    PROVE  Where(g \o (<<Tick(inputs)>> \o EmptyTicks(n)), Q) =
             Where(g, Q) \cup (IF \E i \in inputs : i \in Q THEN {Len(g) + 1} ELSE {})
<1> DEFINE es == <<Tick(inputs)>> \o EmptyTicks(n)
           new == g \o es
<1>1. \A in \in SUBSET Input :
         Tick(in) \in Effect /\ Tick(in).inputs = in /\ Tick(in).kind = "tick"
  BY DEF Tick, Effect
<1>2. EmptyTicks(n) \in Seq(Effect) /\ Len(EmptyTicks(n)) = n
      /\ \A j \in 1..n : EmptyTicks(n)[j] = Tick({})
  BY <1>1 DEF EmptyTicks
<1>3. es \in Seq(Effect) /\ Len(es) = n + 1 /\ es[1] = Tick(inputs)
      /\ \A j \in 2..(n + 1) : es[j] = Tick({})
  BY <1>1, <1>2
<1> HIDE DEF es
<1>4. /\ DOMAIN new = 1..(Len(g) + n + 1) /\ DOMAIN g = 1..Len(g) /\ Len(g) \in Nat
      /\ \A j \in 1..Len(g) : new[j] = g[j]
      /\ \A j \in 1..(n + 1) : new[Len(g) + j] = es[j]
  BY <1>3
<1> HIDE DEF new
<1>5. new[Len(g) + 1] = Tick(inputs) /\ Len(g) + 1 \in DOMAIN new /\ Len(g) + 1 \notin DOMAIN g
  BY <1>3, <1>4
<1>6. ASSUME NEW j \in DOMAIN new, j \notin DOMAIN g, j # Len(g) + 1
      PROVE  new[j] = Tick({})
  <2>1. PICK m : m = j - Len(g)
    OBVIOUS
  <2>2. m \in 2..(n + 1) /\ j = Len(g) + m
    BY <1>4, <1>6, <2>1
  <2>3. new[Len(g) + m] = es[m] /\ es[m] = Tick({})
    BY <1>3, <1>4, <2>2
  <2>q. QED  BY <2>2, <2>3
<1>7. \A j \in DOMAIN g : j \in DOMAIN new /\ new[j] = g[j]
  BY <1>4
<1>8. ASSUME NEW j
      PROVE  j \in Where(new, Q) <=>
               j \in Where(g, Q) \/ (j = Len(g) + 1 /\ \E i \in inputs : i \in Q)
  <2>1. CASE j \in DOMAIN g
    BY <1>5, <1>7, <2>1 DEF Where
  <2>2. CASE j = Len(g) + 1
    BY <1>1, <1>5, <2>2 DEF Where
  <2>3. CASE j \notin DOMAIN g /\ j # Len(g) + 1
    BY <1>1, <1>6, <2>3 DEF Where
  <2>q. QED  BY <2>1, <2>2, <2>3
<1>q. QED  BY <1>8 DEF new, es

\* The parts of a kernel state the ledger reads, after each operation.
Keeps(d, k) == d.cursor = k.cursor /\ d.opened = k.opened /\ d.nextCommit = k.nextCommit

LEMMA StampFields ==
    ASSUME NEW k \in KernelState, NEW n \in Nat
    PROVE  /\ Stamp(k, n) \in KernelState /\ Keeps(Stamp(k, n), k)
           /\ Stamp(k, n).game = k.game /\ Stamp(k, n).intents = k.intents
           /\ Stamp(k, n).rejected = k.rejected /\ Stamp(k, n).receipts = k.receipts
BY DEF Stamp, Keeps, KernelState

LEMMA IntentFields ==
    ASSUME NEW k \in KernelState, NEW i \in Intent
    PROVE  /\ IntentDraft(k, i) \in KernelState /\ Keeps(IntentDraft(k, i), k)
           /\ IntentDraft(k, i).receipts = k.receipts \cup {ReceiptOf(k, i, "intent")}
BY IntentDraftType DEF IntentDraft, Keeps, KernelState

LEMMA InteractionFields ==
    ASSUME NEW k \in KernelState, NEW i \in Intent
    PROVE  /\ Keeps(InteractionDraft(k, i), k)
           /\ InteractionDraft(k, i).receipts =
                k.receipts \cup {ReceiptOf(k, i, "interaction")}
BY DEF InteractionDraft, Show, Keeps, KernelState

LEMMA ControlFields ==
    ASSUME NEW k \in KernelState, NEW i
    PROVE  Keeps(ControlDraft(k, i), k) /\ ControlDraft(k, i).receipts = k.receipts
BY DEF ControlDraft, Show, Keeps, KernelState

LEMMA InterestFields ==
    ASSUME NEW k \in KernelState, NEW key \in Key, NEW scope \in Scopes
    PROVE  /\ InterestDraft(k, key, scope) \in KernelState /\ Keeps(InterestDraft(k, key, scope), k)
           /\ InterestDraft(k, key, scope).game = k.game
           /\ InterestDraft(k, key, scope).intents = k.intents
           /\ InterestDraft(k, key, scope).rejected = k.rejected
           /\ InterestDraft(k, key, scope).receipts = k.receipts
<1>1. <<key[1], scope>> \in Seats \X Scopes
  BY DEF Key
<1>q. QED  BY <1>1 DEF InterestDraft, Keeps, KernelState

LEMMA RejectionFields ==
    ASSUME live \in KernelState, NEW i \in live.intents
    PROVE  LET d == RejectionDraft(live, i)
           IN /\ d \in KernelState /\ Keeps(d, live)
              /\ d.game = live.game /\ d.intents = live.intents \ {i}
              /\ d.rejected =
                   live.rejected \cup {[key |-> KeyOf(i), at |-> live.revision + 1]}
              /\ d.receipts = {r \in live.receipts : r.key # KeyOf(i)}
<1> DEFINE r == Reject(live, i, live.revision + 1)
<1>1. /\ i \in Intent /\ live.revision + 1 \in Nat
  BY DEF KernelState
<1>2. r \in KernelState
  BY <1>1, RejectType
<1>3. /\ Keeps(r, live) /\ r.game = live.game /\ r.intents = live.intents \ {i}
      /\ r.rejected = live.rejected \cup {[key |-> KeyOf(i), at |-> live.revision + 1]}
      /\ r.receipts = {q \in live.receipts : q.key # KeyOf(i)}
  BY DEF Reject, Keeps, KernelState
<1>4. RejectionDraft(live, i) = Checkpointed(r)
  BY <1>3 DEF RejectionDraft, Checkpointed, Keeps
<1> HIDE DEF r
<1>5. /\ Checkpointed(r) \in KernelState /\ Keeps(Checkpointed(r), r)
      /\ Checkpointed(r).game = r.game /\ Checkpointed(r).intents = r.intents
      /\ Checkpointed(r).rejected = r.rejected /\ Checkpointed(r).receipts = r.receipts
  BY <1>2 DEF Checkpointed, Keeps, KernelState
<1>q. QED  BY <1>3, <1>4, <1>5 DEF Keeps

LEMMA EvictFields ==
    ASSUME NEW k \in KernelState
    PROVE  /\ Evict(k).receipts \subseteq k.receipts /\ Keeps(Evict(k), k)
<1> DEFINE gone  == {r \in k.receipts : r.cursor < k.cursor - ReceiptRetention}
           tombs == k.expired \cup {[key |-> r.key, at |-> r.at] : r \in gone}
           cap   == Cardinality(Seats) *
                   (IF ReceiptRetention > 1 THEN ReceiptRetention ELSE 1)
           kept  == {t \in tombs : Cardinality({u \in tombs : u.at > t.at}) < cap}
<1>1. Evict(k) = [k EXCEPT !.receipts = k.receipts \ gone, !.expired = kept]
  BY DEF Evict
<1> HIDE DEF gone, tombs, cap, kept
<1>q. QED  BY <1>1 DEF KernelState, Keeps

LEMMA ResolutionFields ==
    ASSUME NEW k \in KernelState, NEW inputs \in SUBSET Input, NEW n \in Nat,
           ValidParticipants(k.game \o (<<Tick(inputs)>> \o EmptyTicks(n)))
    PROVE  LET d == ResolutionDraft(k, inputs, n)
           IN /\ d \in KernelState
              /\ d.game = k.game \o (<<Tick(inputs)>> \o EmptyTicks(n))
              /\ d.intents = {} /\ d.rejected = k.rejected
              /\ d.receipts \subseteq k.receipts /\ d.cursor = k.cursor + 1 + n
              /\ d.opened = Book(k, inputs).opened
              /\ d.nextCommit = Book(k, inputs).nextCommit
<1> DEFINE ticks == <<Tick(inputs)>> \o EmptyTicks(n)
           book  == Book(k, inputs)
           shown == Show(book, ticks)
           open  == OpenWindow(shown, k.cursor + 1 + n)
           r     == Resolve(k, inputs, n)
<1>1. ticks \in Seq(Effect)
  BY TicksType
<1>2. book \in KernelState /\ book.game = k.game /\ book.receipts = k.receipts
  <2>1. book.receipts = k.receipts
    BY DEF Book, KernelState
  <2>q. QED  BY <2>1, BookType
<1> HIDE DEF ticks, book
<1>3. /\ shown \in KernelState /\ shown.game = k.game \o ticks
  BY <1>1, <1>2, ShowType
<1>4. Keeps(shown, book) /\ shown.receipts = book.receipts
  BY <1>2 DEF Show, Keeps, KernelState
<1>5. ValidParticipants(shown.game) /\ k.cursor + 1 + n \in Nat
  <2>1. k.cursor \in Nat
    BY DEF KernelState
  <2>2. k.cursor + 1 + n \in Nat
    BY <2>1
  <2>3. shown.game = k.game \o (<<Tick(inputs)>> \o EmptyTicks(n))
    BY <1>3 DEF ticks
  <2>4. ValidParticipants(shown.game)
    BY <2>3
  <2>q. QED  BY <2>2, <2>4
<1> HIDE DEF shown
<1>6. open \in KernelState
  BY <1>3, <1>5, OpenWindowType
<1>7. /\ open.receipts = shown.receipts /\ open.opened = shown.opened
      /\ open.nextCommit = shown.nextCommit
  BY <1>3 DEF OpenWindow, KernelState
<1> HIDE DEF open
<1>8. r = Evict(open)
  BY DEF r, Resolve, open, shown, book, ticks
<1>9. /\ r.receipts \subseteq k.receipts /\ r.opened = book.opened
      /\ r.nextCommit = book.nextCommit
  BY <1>2, <1>4, <1>6, <1>7, <1>8, EvictFields DEF Keeps
<1>10. /\ r \in KernelState /\ r.game = k.game \o ticks /\ r.intents = {}
       /\ r.rejected = k.rejected /\ r.cursor = k.cursor + 1 + n
  BY ResolveType DEF ticks
<1>11. ResolutionDraft(k, inputs, n) = IF Due(k, r) THEN Checkpointed(r) ELSE r
  BY DEF ResolutionDraft, Checkpointed
<1> HIDE DEF r
<1>12. /\ Checkpointed(r) \in KernelState /\ Keeps(Checkpointed(r), r)
       /\ Checkpointed(r).game = r.game /\ Checkpointed(r).intents = r.intents
       /\ Checkpointed(r).rejected = r.rejected /\ Checkpointed(r).receipts = r.receipts
  BY <1>10 DEF Checkpointed, Keeps, KernelState
<1>q. QED  BY <1>9, <1>10, <1>11, <1>12 DEF Keeps, book, ticks

-----------------------------------------------------------------------------
(* The three ledgers from one state to the next.                           *)

\* No intent moves: an operation outside the window, an interest or a restart.
LEMMA KeysStay ==
    ASSUME NEW k, NEW l, NEW h, NEW h2, NEW c, NEW c2, IntentLedger(k, h, c),
           \A key \in Key : AppliedAt(l, key) = AppliedAt(k, key),
           l.intents = k.intents, l.rejected = k.rejected, h \subseteq h2,
           \A key \in h2 : \/ key \in h \/ key \in InterestKeysOf(c2)
                           \/ key \in InteractionKeys(l.game),
           InterestKeysOf(c) \subseteq InterestKeysOf(c2),
           InteractionKeys(k.game) \subseteq InteractionKeys(l.game)
    PROVE  IntentLedger(l, h2, c2)
<1> SUFFICES ASSUME NEW key \in Key
             PROVE  KeyLedger(AppliedAt(l, key), key \in PendingKeys(l), key \in RejectedKeys(l),
                              key \in h2,
                              key \in h2 \ (InterestKeysOf(c2) \cup InteractionKeys(l.game)))
  BY DEF IntentLedger
<1>1. KeyLedger(AppliedAt(k, key), key \in PendingKeys(k), key \in RejectedKeys(k),
                key \in h, key \in h \ (InterestKeysOf(c) \cup InteractionKeys(k.game)))
  BY DEF IntentLedger
<1>2. PendingKeys(l) = PendingKeys(k) /\ RejectedKeys(l) = RejectedKeys(k)
  BY DEF PendingKeys, RejectedKeys
<1>3. AppliedAt(l, key) = AppliedAt(k, key)
  OBVIOUS
<1>q. QED  BY <1>1, <1>2, <1>3 DEF KeyLedger

\* A fresh id enters the window.
LEMMA KeyEnters ==
    ASSUME NEW k, NEW l, NEW h, NEW c, NEW i, IntentLedger(k, h, c), KeyOf(i) \notin h,
           l.game = k.game, l.intents = k.intents \cup {i}, l.rejected = k.rejected
    PROVE  IntentLedger(l, h \cup {KeyOf(i)}, c)
<1> SUFFICES ASSUME NEW key \in Key
             PROVE  KeyLedger(AppliedAt(l, key), key \in PendingKeys(l), key \in RejectedKeys(l),
                      key \in h \cup {KeyOf(i)},
                      key \in (h \cup {KeyOf(i)})
                                \ (InterestKeysOf(c) \cup InteractionKeys(l.game)))
  BY DEF IntentLedger
<1>1. KeyLedger(AppliedAt(k, key), key \in PendingKeys(k), key \in RejectedKeys(k),
                key \in h, key \in h \ (InterestKeysOf(c) \cup InteractionKeys(k.game)))
  BY DEF IntentLedger
<1>2. PendingKeys(l) = PendingKeys(k) \cup {KeyOf(i)} /\ RejectedKeys(l) = RejectedKeys(k)
  BY DEF PendingKeys, RejectedKeys
<1>3. AppliedAt(l, key) = AppliedAt(k, key)
  BY DEF AppliedAt, TickIndexes, InputsAt
<1>q. QED  BY <1>1, <1>2, <1>3 DEF KeyLedger

\* A rejected intent leaves the window, in which its seat has no other.
LEMMA KeyRejected ==
    ASSUME NEW k, NEW l, NEW h, NEW c, NEW i \in k.intents, NEW at, IntentLedger(k, h, c),
           AnswersOnce(k), l.game = k.game, l.intents = k.intents \ {i},
           l.rejected = k.rejected \cup {[key |-> KeyOf(i), at |-> at]}
    PROVE  IntentLedger(l, h, c)
<1> SUFFICES ASSUME NEW key \in Key
             PROVE  KeyLedger(AppliedAt(l, key), key \in PendingKeys(l), key \in RejectedKeys(l),
                      key \in h,
                      key \in h \ (InterestKeysOf(c) \cup InteractionKeys(l.game)))
  BY DEF IntentLedger
<1>1. KeyLedger(AppliedAt(k, key), key \in PendingKeys(k), key \in RejectedKeys(k),
                key \in h, key \in h \ (InterestKeysOf(c) \cup InteractionKeys(k.game)))
  BY DEF IntentLedger
<1>2. \A j \in k.intents : KeyOf(j) = KeyOf(i) => j = i
  BY DEF AnswersOnce, KeyOf
<1>3. PendingKeys(l) = PendingKeys(k) \ {KeyOf(i)}
  BY <1>2 DEF PendingKeys
<1>4. RejectedKeys(l) = RejectedKeys(k) \cup {KeyOf(i)} /\ KeyOf(i) \in PendingKeys(k)
  <2>1. PICK t : t = [key |-> KeyOf(i), at |-> at]
    OBVIOUS
  <2>2. t.key = KeyOf(i) /\ l.rejected = k.rejected \cup {t}
    BY <2>1
  <2>3. RejectedKeys(l) = RejectedKeys(k) \cup {KeyOf(i)}
    BY <2>2 DEF RejectedKeys
  <2>4. KeyOf(i) \in PendingKeys(k)
    BY DEF PendingKeys
  <2>q. QED  BY <2>3, <2>4
<1>5. AppliedAt(l, key) = AppliedAt(k, key)
  BY DEF AppliedAt, TickIndexes, InputsAt
<1>q. QED  BY <1>1, <1>3, <1>4, <1>5 DEF KeyLedger

\* A tick takes every pending intent.
LEMMA KeysResolved ==
    ASSUME NEW k, NEW l, NEW h, NEW c, NEW at, IntentLedger(k, h, c),
           \A key \in Key : AppliedAt(l, key) =
              AppliedAt(k, key) \cup (IF key \in PendingKeys(k) THEN {at} ELSE {}),
           l.intents = {}, l.rejected = k.rejected,
           InteractionKeys(l.game) = InteractionKeys(k.game)
    PROVE  IntentLedger(l, h, c)
<1> SUFFICES ASSUME NEW key \in Key
             PROVE  KeyLedger(AppliedAt(l, key), key \in PendingKeys(l), key \in RejectedKeys(l),
                      key \in h,
                      key \in h \ (InterestKeysOf(c) \cup InteractionKeys(l.game)))
  BY DEF IntentLedger
<1>1. KeyLedger(AppliedAt(k, key), key \in PendingKeys(k), key \in RejectedKeys(k),
                key \in h, key \in h \ (InterestKeysOf(c) \cup InteractionKeys(k.game)))
  BY DEF IntentLedger
<1>2. PendingKeys(l) = {} /\ RejectedKeys(l) = RejectedKeys(k)
  BY DEF PendingKeys, RejectedKeys
<1>3. AppliedAt(l, key) =
        AppliedAt(k, key) \cup (IF key \in PendingKeys(k) THEN {at} ELSE {})
  OBVIOUS
<1>q. QED  BY <1>1, <1>2, <1>3 DEF KeyLedger

\* A commitment is made.
LEMMA StoryMade ==
    ASSUME NEW made, NEW told, NEW n \in Nat, NEW next \in Nat, NEW open, NEW at,
           Story(made, told, n, open, next)
    PROVE  Story(made \cup (IF n = next THEN {at} ELSE {}), told, n, open \cup {next}, next + 1)
<1>1. CASE n = next
  BY <1>1 DEF Story
<1>2. CASE n < next
  BY <1>2 DEF Story
<1>3. CASE n > next
  BY <1>3 DEF Story
<1>q. QED  BY <1>1, <1>2, <1>3

\* An open commitment is revealed.
LEMMA StoryTold ==
    ASSUME NEW made, NEW told, NEW n \in Nat, NEW next \in Nat, NEW open, NEW at,
           \A a \in made : a < at, NEW m \in open, open \subseteq 0..(next - 1),
           Story(made, told, n, open, next)
    PROVE  Story(made, told \cup (IF n = m THEN {at} ELSE {}), n, open \ {m}, next)
<1>1. CASE n = m
  <2>1. n < next /\ told = {}
    BY <1>1 DEF Story
  <2>2. PICK a \in made : made = {a}
    BY <2>1 DEF Story
  <2>q. QED  BY <1>1, <2>1, <2>2 DEF Story
<1>2. CASE n # m
  BY <1>2 DEF Story
<1>q. QED  BY <1>1, <1>2

\* What a tick's inputs do to one seat's commitments.
LEMMA BookFields ==
    ASSUME NEW k \in KernelState, NEW inputs, NEW s \in Seats
    PROVE  /\ Book(k, inputs).opened[s] =
                (k.opened[s] \cup Commits(s, inputs)) \ Reveals(s, inputs)
           /\ Book(k, inputs).nextCommit[s] =
                IF Commits(s, inputs) = {} THEN k.nextCommit[s] ELSE k.nextCommit[s] + 1
BY DEF Book, KernelState

LEMMA SaidInputs ==
    ASSUME NEW inputs \in SUBSET Input, NEW s, NEW n
    PROVE  /\ (\E i \in inputs : i \in Said(s, "commit", n)) <=> n \in Commits(s, inputs)
           /\ (\E i \in inputs : i \in Said(s, "reveal", n)) <=> n \in Reveals(s, inputs)
<1>1. \A i \in inputs : i \in Input /\ i.cmd = [op |-> i.cmd.op, n |-> i.cmd.n]
  BY DEF Input, Command
<1>2. \A op : (\E i \in inputs : i \in Said(s, op, n)) <=>
              (\E i \in inputs : i.seat = s /\ i.cmd.op = op /\ i.cmd.n = n)
  <2> SUFFICES ASSUME NEW op, NEW i \in inputs
               PROVE  i \in Said(s, op, n) <=> (i.seat = s /\ i.cmd.op = op /\ i.cmd.n = n)
    OBVIOUS
  <2>1. PICK d : d = i.cmd
    OBVIOUS
  <2>2. d = [op |-> d.op, n |-> d.n] /\ i \in Input
    BY <1>1, <2>1
  <2>3. d = [op |-> op, n |-> n] <=> (d.op = op /\ d.n = n)
    BY <2>2
  <2>q. QED  BY <2>1, <2>2, <2>3 DEF Said
<1>q. QED  BY <1>2 DEF Commits, Reveals

\* The ticks of a seat's commitment m after a tick at place `at`.
TicksGrow(l, g, s, m, made, told, at) ==
    /\ TicksOf(l, s, "commit", m) =
         Where(g, Said(s, "commit", m)) \cup (IF m \in made THEN {at} ELSE {})
    /\ TicksOf(l, s, "reveal", m) =
         Where(g, Said(s, "reveal", m)) \cup (IF m \in told THEN {at} ELSE {})

LEMMA SeatTicks ==
    ASSUME NEW l \in KernelState, NEW g \in Seq(Effect), NEW inputs \in SUBSET Input,
           NEW n \in Nat, l.game = g \o (<<Tick(inputs)>> \o EmptyTicks(n))
    PROVE  \A s, m : TicksGrow(l, g, s, m, Commits(s, inputs), Reveals(s, inputs), Len(g) + 1)
<1> SUFFICES ASSUME NEW s, NEW m
             PROVE  TicksGrow(l, g, s, m, Commits(s, inputs), Reveals(s, inputs), Len(g) + 1)
  OBVIOUS
<1>1. TicksOf(l, s, "commit", m) = Where(l.game, Said(s, "commit", m))
  BY TicksWhere
<1>2. TicksOf(l, s, "reveal", m) = Where(l.game, Said(s, "reveal", m))
  BY TicksWhere
<1>3. \A Q : Where(l.game, Q) =
               Where(g, Q) \cup (IF \E i \in inputs : i \in Q THEN {Len(g) + 1} ELSE {})
  BY WhereTick
<1>4. /\ (\E i \in inputs : i \in Said(s, "commit", m)) <=> m \in Commits(s, inputs)
      /\ (\E i \in inputs : i \in Said(s, "reveal", m)) <=> m \in Reveals(s, inputs)
  BY SaidInputs
<1>q. QED  BY <1>1, <1>2, <1>3, <1>4 DEF TicksGrow

\* The commitments of a seat after a tick with one input of it at most.
LEMMA SeatResolved ==
    ASSUME NEW k \in KernelState, NEW l \in KernelState, NEW inputs \in SUBSET Input,
           NEW n \in Nat, NEW s \in Seats, SeatLedger(k, s), BookValid(k, inputs),
           \A a, b \in inputs : a.seat = b.seat => a = b,
           \A i \in inputs : i \in k.intents \/ i.cmd.op = "timeout",
           l.game = k.game \o (<<Tick(inputs)>> \o EmptyTicks(n)), l.intents = {},
           l.opened = Book(k, inputs).opened, l.nextCommit = Book(k, inputs).nextCommit
    PROVE  SeatLedger(l, s)
<1>1. PICK open, next : open = k.opened[s] /\ next = k.nextCommit[s]
  OBVIOUS
<1>2. PICK made, told :
         /\ made = Commits(s, inputs) /\ told = Reveals(s, inputs)
  OBVIOUS
<1>3. PICK g : g = k.game
  OBVIOUS
<1>4. g \in Seq(Effect) /\ Len(g) \in Nat /\ next \in Nat
  BY <1>1, <1>3 DEF KernelState
<1>5. /\ open \subseteq 0..(next - 1) /\ Cardinality(open) <= MaxOpenCommitments
      /\ \A m \in Nat : Story(Where(g, Said(s, "commit", m)), Where(g, Said(s, "reveal", m)),
                              m, open, next)
      /\ \A i \in k.intents : i.seat = s => Envelope(i, open, next)
  BY <1>1, <1>3, TicksWhere DEF SeatLedger
<1>6. /\ l.opened[s] = (open \cup made) \ told
      /\ l.nextCommit[s] = IF made = {} THEN next ELSE next + 1
  BY <1>1, <1>2, BookFields
<1>7. \A m \in Nat :
        /\ TicksOf(l, s, "commit", m) =
             Where(g, Said(s, "commit", m)) \cup (IF m \in made THEN {Len(g) + 1} ELSE {})
        /\ TicksOf(l, s, "reveal", m) =
             Where(g, Said(s, "reveal", m)) \cup (IF m \in told THEN {Len(g) + 1} ELSE {})
  <2> SUFFICES ASSUME NEW m \in Nat
               PROVE  /\ TicksOf(l, s, "commit", m) = Where(g, Said(s, "commit", m))
                           \cup (IF m \in made THEN {Len(g) + 1} ELSE {})
                      /\ TicksOf(l, s, "reveal", m) = Where(g, Said(s, "reveal", m))
                           \cup (IF m \in told THEN {Len(g) + 1} ELSE {})
    OBVIOUS
  <2>1. l.game = g \o (<<Tick(inputs)>> \o EmptyTicks(n))
    BY <1>3
  <2>2. l \in KernelState /\ g \in Seq(Effect) /\ inputs \in SUBSET Input /\ n \in Nat
    BY <1>4
  <2>3. TicksGrow(l, g, s, m, Commits(s, inputs), Reveals(s, inputs), Len(g) + 1)
    BY <2>1, <2>2, SeatTicks
  <2>q. QED  BY <1>2, <2>3 DEF TicksGrow
<1>8. \A Q : \A a \in Where(g, Q) : a < Len(g) + 1
  BY <1>4 DEF Where
<1>9. IsFiniteSet(open) /\ Cardinality(open) \in Nat
  <2>1. IsFiniteSet(0..(next - 1))
    <3>1. PICK top : top = next - 1
      OBVIOUS
    <3>2. top \in Int /\ 0 \in Int
      BY <1>4, <3>1
    <3>3. IsFiniteSet(0..top)
      BY <3>2, FS_Interval
    <3>q. QED  BY <3>1, <3>3
  <2>q. QED  BY <1>5, <2>1, FS_Subset, FS_CardinalityType
<1>10. \A i \in inputs : i.seat = s /\ i.cmd.op \in {"commit", "reveal"} =>
          Envelope(i, open, next)
  BY <1>5
<1>11. SeatLedger(l, s) <=>
         /\ l.opened[s] \subseteq 0..(l.nextCommit[s] - 1)
         /\ Cardinality(l.opened[s]) <= MaxOpenCommitments
         /\ \A m \in Nat : Story(TicksOf(l, s, "commit", m), TicksOf(l, s, "reveal", m),
                                 m, l.opened[s], l.nextCommit[s])
  BY DEF SeatLedger
<1>12. CASE made = {} /\ told = {}
  <2>1. l.opened[s] = open /\ l.nextCommit[s] = next
    BY <1>6, <1>12
  <2>2. \A m \in Nat : /\ TicksOf(l, s, "commit", m) = Where(g, Said(s, "commit", m))
                       /\ TicksOf(l, s, "reveal", m) = Where(g, Said(s, "reveal", m))
    BY <1>7, <1>12
  <2>q. QED  BY <1>5, <1>11, <2>1, <2>2
<1>13. CASE made # {}
  <2>1. PICK i \in inputs : i.seat = s /\ i.cmd.op = "commit"
    BY <1>2, <1>13 DEF Commits
  <2>2. \A j \in inputs : j.seat = s => j = i
    BY <2>1
  <2>3. Envelope(i, open, next)
    BY <1>10, <2>1
  <2>4. i.cmd.n = next /\ Cardinality(open) < MaxOpenCommitments
    BY <2>1, <2>3 DEF Envelope
  <2>5. made = {next} /\ told = {}
    BY <1>2, <2>1, <2>2, <2>4 DEF Commits, Reveals
  <2>6. l.opened[s] = open \cup {next} /\ l.nextCommit[s] = next + 1
    BY <1>6, <2>5
  <2>7. open \cup {next} \subseteq 0..((next + 1) - 1)
    BY <1>4, <1>5
  <2>8. Cardinality(open \cup {next}) <= MaxOpenCommitments
    <3>1. next \notin open
      BY <1>4, <1>5
    <3>2. Cardinality(open \cup {next}) = Cardinality(open) + 1
      BY <1>9, <3>1, FS_AddElement
    <3>3. MaxOpenCommitments \in Nat
      BY KernelAssumption
    <3>q. QED  BY <1>9, <2>4, <3>2, <3>3
  <2>9. ASSUME NEW m \in Nat
        PROVE  Story(TicksOf(l, s, "commit", m), TicksOf(l, s, "reveal", m),
                     m, open \cup {next}, next + 1)
    <3>1. PICK wm, wt : wm = Where(g, Said(s, "commit", m)) /\ wt = Where(g, Said(s, "reveal", m))
      OBVIOUS
    <3>2. PICK at : at = Len(g) + 1
      OBVIOUS
    <3>3. /\ TicksOf(l, s, "commit", m) = wm \cup (IF m = next THEN {at} ELSE {})
          /\ TicksOf(l, s, "reveal", m) = wt
      BY <1>7, <2>5, <3>1, <3>2
    <3>4. Story(wm, wt, m, open, next)
      BY <1>5, <3>1
    <3>5. Story(wm \cup (IF m = next THEN {at} ELSE {}), wt, m, open \cup {next}, next + 1)
      BY <1>4, <3>4, StoryMade
    <3>q. QED  BY <3>3, <3>5
  <2>q. QED  BY <1>11, <2>6, <2>7, <2>8, <2>9
<1>14. CASE told # {}
  <2>1. PICK i \in inputs : i.seat = s /\ i.cmd.op = "reveal"
    BY <1>2, <1>14 DEF Reveals
  <2>2. \A j \in inputs : j.seat = s => j = i
    BY <2>1
  <2>3. Envelope(i, open, next)
    BY <1>10, <2>1
  <2>4. PICK r \in open : r = i.cmd.n
    BY <2>1, <2>3 DEF Envelope
  <2>5. told = {r} /\ made = {}
    BY <1>2, <2>1, <2>2, <2>4 DEF Commits, Reveals
  <2>6. l.opened[s] = open \ {r} /\ l.nextCommit[s] = next
    BY <1>6, <2>5
  <2>7. open \ {r} \subseteq 0..(next - 1)
    BY <1>5
  <2>8. Cardinality(open \ {r}) <= MaxOpenCommitments
    <3>1. Cardinality(open \ {r}) = Cardinality(open) - 1
      BY <1>9, <2>4, FS_RemoveElement
    <3>2. MaxOpenCommitments \in Nat
      BY KernelAssumption
    <3>q. QED  BY <1>5, <1>9, <3>1, <3>2
  <2>9. ASSUME NEW m \in Nat
        PROVE  Story(TicksOf(l, s, "commit", m), TicksOf(l, s, "reveal", m),
                     m, open \ {r}, next)
    <3>1. PICK wm, wt : wm = Where(g, Said(s, "commit", m)) /\ wt = Where(g, Said(s, "reveal", m))
      OBVIOUS
    <3>2. PICK at : at = Len(g) + 1
      OBVIOUS
    <3>3. /\ TicksOf(l, s, "reveal", m) = wt \cup (IF m = r THEN {at} ELSE {})
          /\ TicksOf(l, s, "commit", m) = wm
      BY <1>7, <2>5, <3>1, <3>2
    <3>4. Story(wm, wt, m, open, next) /\ \A a \in wm : a < at
      BY <1>5, <1>8, <3>1, <3>2
    <3>5. Story(wm, wt \cup (IF m = r THEN {at} ELSE {}), m, open \ {r}, next)
      <4>1. m \in Nat /\ next \in Nat /\ r \in open /\ open \subseteq 0..(next - 1)
        BY <1>4, <1>5, <2>4
      <4>q. QED  BY ONLY <3>4, <4>1, StoryTold
    <3>q. QED  BY <3>3, <3>5
  <2>q. QED  BY <1>11, <2>6, <2>7, <2>8, <2>9
<1>q. QED  BY <1>12, <1>13, <1>14

\* The ticks tell the same story in both states.
SameTicks(k, l) ==
    /\ \A key : AppliedAt(l, key) = AppliedAt(k, key)
    /\ \A s, op, n : TicksOf(l, s, op, n) = TicksOf(k, s, op, n)

LEMMA SameGame ==
    ASSUME NEW k, NEW l, l.game = k.game
    PROVE  SameTicks(k, l)
BY DEF SameTicks, AppliedAt, TicksOf, TickIndexes, InputsAt

LEMMA OtherEffect ==
    ASSUME NEW k \in KernelState, NEW l \in KernelState, NEW i \in Input,
           NEW kind \in {"interaction", "control"},
           l.game = k.game \o <<[kind |-> kind, inputs |-> {i}]>>
    PROVE  SameTicks(k, l)
<1>1. k.game \in Seq(Effect)
  BY GameInputs
<1>2. ASSUME NEW Q PROVE Where(l.game, Q) = Where(k.game, Q)
  <2>1. PICK g : g = k.game
    OBVIOUS
  <2>2. Where(g \o <<[kind |-> kind, inputs |-> {i}]>>, Q) = Where(g, Q)
    BY <1>1, <2>1, WhereOther
  <2>q. QED  BY <2>1, <2>2
<1>3. ASSUME NEW key PROVE AppliedAt(l, key) = AppliedAt(k, key)
  <2>1. AppliedAt(l, key) = Where(l.game, Of(key))
    BY AppliedWhere
  <2>2. AppliedAt(k, key) = Where(k.game, Of(key))
    BY AppliedWhere
  <2>q. QED  BY <1>2, <2>1, <2>2
<1>4. ASSUME NEW s, NEW op, NEW n PROVE TicksOf(l, s, op, n) = TicksOf(k, s, op, n)
  <2>0. k \in KernelState /\ l \in KernelState
    OBVIOUS
  <2>1. TicksOf(l, s, op, n) = Where(l.game, Said(s, op, n))
    BY ONLY <2>0, TicksWhere
  <2>2. TicksOf(k, s, op, n) = Where(k.game, Said(s, op, n))
    BY ONLY <2>0, TicksWhere
  <2>q. QED  BY <1>2, <2>1, <2>2
<1>q. QED  BY <1>3, <1>4 DEF SameTicks

LEMMA ReceiptsKept ==
    ASSUME NEW k, NEW l, ReceiptLedger(k), SameTicks(k, l), l.cursor = k.cursor,
           \A r \in l.receipts : r.effect = "intent" =>
              \/ r \in k.receipts /\ (r.key \in PendingKeys(k) => r.key \in PendingKeys(l))
              \/ r.cursor = k.cursor /\ r.key \in PendingKeys(l)
    PROVE  ReceiptLedger(l)
BY DEF ReceiptLedger, SameTicks

LEMMA CommitmentsKept ==
    ASSUME NEW k, NEW l, CommitmentLedger(k), SameTicks(k, l), Keeps(l, k),
           \A i \in l.intents : i \in k.intents \/
              Envelope(i, k.opened[i.seat], k.nextCommit[i.seat])
    PROVE  CommitmentLedger(l)
<1> SUFFICES ASSUME NEW s \in Seats PROVE SeatLedger(l, s)
  BY DEF CommitmentLedger
<1>1. SeatLedger(k, s)
  BY DEF CommitmentLedger
<1>2. l.opened[s] = k.opened[s] /\ l.nextCommit[s] = k.nextCommit[s]
  BY DEF Keeps
<1>3. \A n \in Nat : Story(TicksOf(l, s, "commit", n), TicksOf(l, s, "reveal", n),
                           n, l.opened[s], l.nextCommit[s])
  BY <1>1, <1>2 DEF SeatLedger, SameTicks
<1>4. \A i \in l.intents : i.seat = s => Envelope(i, l.opened[s], l.nextCommit[s])
  BY <1>1, <1>2 DEF SeatLedger
<1>q. QED  BY <1>1, <1>2, <1>3, <1>4 DEF SeatLedger

\* A revision more, or nothing at all.
LEMMA LedgerStays ==
    ASSUME NEW k, NEW l, NEW h, NEW c, Ledger(k, h, c), Keeps(l, k), l.game = k.game,
           l.intents = k.intents, l.rejected = k.rejected, l.receipts = k.receipts
    PROVE  Ledger(l, h, c)
<1>1. SameTicks(k, l)
  BY SameGame
<1>2. IntentLedger(l, h, c)
  <2>1. \A key \in Key : AppliedAt(l, key) = AppliedAt(k, key)
    BY <1>1 DEF SameTicks
  <2>2. InteractionKeys(l.game) = InteractionKeys(k.game) /\ IntentLedger(k, h, c)
    BY DEF Ledger
  <2>q. QED  BY <2>1, <2>2, KeysStay
<1>3. ReceiptLedger(l)
  <2>1. PendingKeys(l) = PendingKeys(k) /\ ReceiptLedger(k) /\ l.cursor = k.cursor
    BY DEF PendingKeys, Ledger, Keeps
  <2>q. QED  BY <1>1, <2>1, ReceiptsKept
<1>4. CommitmentLedger(l)
  BY <1>1, CommitmentsKept DEF Ledger
<1>q. QED  BY <1>2, <1>3, <1>4 DEF Ledger

LEMMA LedgerSealed ==
    ASSUME NEW k \in KernelState, NEW n \in Nat, NEW h, NEW c, Ledger(k, h, c)
    PROVE  Ledger(Stamp(k, n), h, c)
BY StampFields, LedgerStays

-----------------------------------------------------------------------------
(* One lemma per operation: what it prepares keeps the three ledgers.      *)

LEMMA IntentKept ==
    ASSUME live \in KernelState, Ledger(live, historical, interests), NEW i \in Intent,
           Admissible(KeyOf(i)), EnvelopeValid(i)
    PROVE  Ledger(IntentDraft(live, i), historical \cup {KeyOf(i)}, interests)
<1> DEFINE d == IntentDraft(live, i)
<1>1. /\ d \in KernelState /\ Keeps(d, live) /\ d.game = live.game
      /\ d.intents = live.intents \cup {i} /\ d.rejected = live.rejected
      /\ d.receipts = live.receipts \cup {ReceiptOf(live, i, "intent")}
  BY IntentFields, IntentDraftType
<1> HIDE DEF d
<1>2. SameTicks(live, d)
  BY <1>1, SameGame
<1>3. KeyOf(i) \notin historical
  BY DEF Admissible
<1>4. IntentLedger(d, historical \cup {KeyOf(i)}, interests)
  BY <1>1, <1>3, KeyEnters DEF Ledger
<1>5. PendingKeys(d) = PendingKeys(live) \cup {KeyOf(i)}
  BY <1>1 DEF PendingKeys
<1>6. ReceiptLedger(d)
  <2>1. PICK q : q = ReceiptOf(live, i, "intent")
    OBVIOUS
  <2>2. q.key = KeyOf(i) /\ q.cursor = live.cursor
    BY <2>1 DEF ReceiptOf
  <2>3. \A r \in d.receipts : \/ r \in live.receipts
                              \/ r.cursor = live.cursor /\ r.key \in PendingKeys(d)
    BY <1>1, <1>5, <2>1, <2>2
  <2>4. d.cursor = live.cursor /\ ReceiptLedger(live)
    BY <1>1 DEF Keeps, Ledger
  <2>q. QED  BY <1>2, <1>5, <2>3, <2>4, ReceiptsKept
<1>7. CommitmentLedger(d)
  <2>1. Envelope(i, live.opened[i.seat], live.nextCommit[i.seat])
    BY DEF EnvelopeValid, Envelope
  <2>2. \A j \in d.intents : j \in live.intents \/
            Envelope(j, live.opened[j.seat], live.nextCommit[j.seat])
    BY <1>1, <2>1
  <2>q. QED  BY <1>1, <1>2, <2>2, CommitmentsKept DEF Ledger
<1>q. QED  BY <1>4, <1>6, <1>7 DEF Ledger, d

LEMMA InteractionKept ==
    ASSUME live \in KernelState, Ledger(live, historical, interests), NEW i \in Intent
    PROVE  Ledger(InteractionDraft(live, i), historical, interests)
<1> DEFINE d == InteractionDraft(live, i)
<1>1. i \in Input
  BY DEF Intent, Input
<1>2. /\ d \in KernelState /\ d.game = live.game \o <<[kind |-> "interaction", inputs |-> {i}]>>
      /\ d.intents = live.intents /\ d.rejected = live.rejected
  BY InteractionDraftType
<1>3. /\ Keeps(d, live)
      /\ d.receipts = live.receipts \cup {ReceiptOf(live, i, "interaction")}
  BY InteractionFields
<1> HIDE DEF d
<1>4. SameTicks(live, d)
  BY <1>1, <1>2, OtherEffect
<1>5. IntentLedger(d, historical, interests)
  <2>1. \A key \in Key : AppliedAt(d, key) = AppliedAt(live, key)
    BY <1>4 DEF SameTicks
  <2>2. InteractionKeys(live.game) \subseteq InteractionKeys(d.game)
    <3>1. PICK g : g = live.game
      OBVIOUS
    <3>2. g \in Seq(Effect) /\ d.game = g \o <<[kind |-> "interaction", inputs |-> {i}]>>
      BY <1>2, <3>1, GameInputs
    <3>3. InteractionKeys(g \o <<[kind |-> "interaction", inputs |-> {i}]>>) =
            InteractionKeys(g) \cup {KeyOf(i)}
      BY <1>1, <3>2, AppendInteraction
    <3>q. QED  BY <3>1, <3>2, <3>3
  <2>q. QED  BY <1>2, <2>1, <2>2, KeysStay DEF Ledger
<1>6. ReceiptLedger(d)
  <2>1. PICK q : q = ReceiptOf(live, i, "interaction")
    OBVIOUS
  <2>2. q.effect # "intent"
    BY <2>1 DEF ReceiptOf
  <2>3. \A r \in d.receipts : r.effect = "intent" => r \in live.receipts
    BY <1>3, <2>1, <2>2
  <2>4. d.cursor = live.cursor /\ ReceiptLedger(live) /\ PendingKeys(d) = PendingKeys(live)
    BY <1>2, <1>3 DEF Keeps, Ledger, PendingKeys
  <2>q. QED  BY <1>4, <2>3, <2>4, ReceiptsKept
<1>7. CommitmentLedger(d)
  BY <1>2, <1>3, <1>4, CommitmentsKept DEF Ledger
<1>q. QED  BY <1>5, <1>6, <1>7 DEF Ledger, d

LEMMA ControlKept ==
    ASSUME live \in KernelState, Ledger(live, historical, interests), NEW i \in Input,
           KeyOf(i) \in Key
    PROVE  Ledger(ControlDraft(live, i), historical, interests)
<1> DEFINE d == ControlDraft(live, i)
<1>1. /\ d \in KernelState /\ d.game = live.game \o <<[kind |-> "control", inputs |-> {i}]>>
      /\ d.intents = live.intents /\ d.rejected = live.rejected
  BY ControlDraftType
<1>2. Keeps(d, live) /\ d.receipts = live.receipts
  BY ControlFields
<1> HIDE DEF d
<1>3. SameTicks(live, d)
  BY <1>1, OtherEffect
<1>4. IntentLedger(d, historical, interests)
  <2>1. \A key \in Key : AppliedAt(d, key) = AppliedAt(live, key)
    BY <1>3 DEF SameTicks
  <2>2. InteractionKeys(d.game) = InteractionKeys(live.game)
    <3>1. PICK es : es = <<[kind |-> "control", inputs |-> {i}]>>
      OBVIOUS
    <3>2. es \in Seq(Effect) /\ \A j \in DOMAIN es : es[j].kind # "interaction"
      <4>1. PICK e : e = [kind |-> "control", inputs |-> {i}]
        OBVIOUS
      <4>2. e \in Effect /\ e.kind # "interaction"
        BY <4>1 DEF Effect
      <4>3. es = <<e>>
        BY <3>1, <4>1
      <4>q. QED  BY <4>2, <4>3
    <3>3. live.game \in Seq(Effect) /\ d.game = live.game \o es
      BY <1>1, <3>1, GameInputs
    <3>q. QED  BY <3>2, <3>3, AppendOthers
  <2>q. QED  BY <1>1, <2>1, <2>2, KeysStay DEF Ledger
<1>5. ReceiptLedger(d)
  <2>1. d.cursor = live.cursor /\ ReceiptLedger(live) /\ PendingKeys(d) = PendingKeys(live)
    BY <1>1, <1>2 DEF Keeps, Ledger, PendingKeys
  <2>q. QED  BY <1>2, <1>3, <2>1, ReceiptsKept
<1>6. CommitmentLedger(d)
  BY <1>1, <1>2, <1>3, CommitmentsKept DEF Ledger
<1>q. QED  BY <1>4, <1>5, <1>6 DEF Ledger, d

LEMMA RejectionKept ==
    ASSUME live \in KernelState, AnswersOnce(live), Ledger(live, historical, interests),
           NEW i \in live.intents
    PROVE  Ledger(RejectionDraft(live, i), historical, interests)
<1> DEFINE d == RejectionDraft(live, i)
<1>1. /\ d \in KernelState /\ Keeps(d, live)
      /\ d.game = live.game /\ d.intents = live.intents \ {i}
      /\ d.rejected = live.rejected \cup {[key |-> KeyOf(i), at |-> live.revision + 1]}
      /\ d.receipts = {r \in live.receipts : r.key # KeyOf(i)}
  BY RejectionFields
<1> HIDE DEF d
<1>2. SameTicks(live, d)
  BY <1>1, SameGame
<1>3. IntentLedger(d, historical, interests)
  BY <1>1, KeyRejected DEF Ledger
<1>4. ReceiptLedger(d)
  <2>1. \A key \in PendingKeys(live) : key # KeyOf(i) => key \in PendingKeys(d)
    BY <1>1 DEF PendingKeys
  <2>2. \A r \in d.receipts : r \in live.receipts /\ r.key # KeyOf(i)
    BY <1>1
  <2>3. d.cursor = live.cursor /\ ReceiptLedger(live)
    BY <1>1 DEF Keeps, Ledger
  <2>q. QED  BY <1>2, <2>1, <2>2, <2>3, ReceiptsKept
<1>5. CommitmentLedger(d)
  BY <1>1, <1>2, CommitmentsKept DEF Ledger
<1>q. QED  BY <1>3, <1>4, <1>5 DEF Ledger, d

\* What a window is resolved with: its intents, and a timeout for a seat that
\* did not answer.
LEMMA WindowInputs ==
    ASSUME IInv, NEW inputs \in Windows
    PROVE  /\ inputs \in SUBSET Input /\ live.intents \subseteq inputs
           /\ \A a, b \in inputs : a.seat = b.seat => a = b
           /\ \A i \in inputs : i \in live.intents \/ (i.cmd.op = "timeout" /\ KeyOf(i) \notin Key)
<1>1. CASE inputs = live.intents
  BY <1>1, IntentsOnce
<1>2. ASSUME NEW p \in (live.window \ Answered(live)) \cup {None},
             inputs = live.intents \cup {InputOf(p, None, "timeout", 0)}
      PROVE  /\ inputs \in SUBSET Input /\ live.intents \subseteq inputs
             /\ \A a, b \in inputs : a.seat = b.seat => a = b
             /\ \A i \in inputs :
                   i \in live.intents \/ (i.cmd.op = "timeout" /\ KeyOf(i) \notin Key)
  <2>1. PICK t : t = InputOf(p, None, "timeout", 0)
    OBVIOUS
  <2>2. live.window \subseteq Seats
    BY DEF IInv, TypeOK, KernelState
  <2>3. t \in Input /\ t.seat = p /\ t.cmd.op = "timeout" /\ t.id = None
    BY <2>1, <2>2 DEF InputOf, Input, Command
  <2>4. KeyOf(t) \notin Key
    BY <2>3, KernelAssumption DEF KeyOf, Key
  <2>5. None \notin Answered(live)
    BY IntentsOnce, KernelAssumption DEF Answered, Intent
  <2>6. \A a \in live.intents : a.seat # p
    BY <2>5 DEF Answered
  <2>7. inputs = live.intents \cup {t}
    BY <1>2, <2>1
  <2>8. \A a, b \in inputs : a.seat = b.seat => a = b
    BY <2>3, <2>6, <2>7, IntentsOnce
  <2>q. QED  BY <2>3, <2>4, <2>7, <2>8, IntentsOnce
<1>q. QED  BY <1>1, <1>2 DEF Windows

LEMMA ResolutionKept ==
    ASSUME IInv, Ledger(live, historical, interests), NEW inputs \in Windows, NEW n \in Nat,
           BookValid(live, inputs), ValidParticipants(GameAfter(inputs, n))
    PROVE  Ledger(ResolutionDraft(live, inputs, n), historical, interests)
<1> DEFINE d == ResolutionDraft(live, inputs, n)
<1>1. live \in KernelState
  BY DEF IInv, TypeOK
<1>2. /\ inputs \in SUBSET Input /\ live.intents \subseteq inputs
      /\ \A a, b \in inputs : a.seat = b.seat => a = b
      /\ \A i \in inputs : i \in live.intents \/ (i.cmd.op = "timeout" /\ KeyOf(i) \notin Key)
  BY WindowInputs
<1>3. /\ d \in KernelState
      /\ d.game = live.game \o (<<Tick(inputs)>> \o EmptyTicks(n))
      /\ d.intents = {} /\ d.rejected = live.rejected
      /\ d.receipts \subseteq live.receipts /\ d.cursor = live.cursor + 1 + n
      /\ d.opened = Book(live, inputs).opened
      /\ d.nextCommit = Book(live, inputs).nextCommit
  BY <1>1, <1>2, ResolutionFields DEF GameAfter
<1> HIDE DEF d
<1>4. PICK g : g = live.game
  OBVIOUS
<1>5. g \in Seq(Effect)
  BY <1>1, <1>4, GameInputs
<1>6. PICK at : at = Len(g) + 1
  OBVIOUS
<1>7. \A key \in Key : AppliedAt(d, key) =
         AppliedAt(live, key) \cup (IF key \in PendingKeys(live) THEN {at} ELSE {})
  <2> SUFFICES ASSUME NEW key \in Key
               PROVE  AppliedAt(d, key) = AppliedAt(live, key)
                        \cup (IF key \in PendingKeys(live) THEN {at} ELSE {})
    OBVIOUS
  <2>1. AppliedAt(d, key) = Where(d.game, Of(key))
    BY <1>3, AppliedWhere
  <2>2. AppliedAt(live, key) = Where(g, Of(key))
    BY <1>1, <1>4, AppliedWhere
  <2>3. d.game = g \o (<<Tick(inputs)>> \o EmptyTicks(n))
    BY <1>3, <1>4
  <2>4. Where(d.game, Of(key)) =
          Where(g, Of(key)) \cup (IF \E i \in inputs : i \in Of(key) THEN {at} ELSE {})
    BY <1>2, <1>5, <1>6, <2>3, WhereTick
  <2>5. (\E i \in inputs : i \in Of(key)) <=> key \in PendingKeys(live)
    BY <1>2 DEF Of, PendingKeys
  <2>q. QED  BY <2>1, <2>2, <2>4, <2>5
<1>8. IntentLedger(d, historical, interests)
  <2>1. InteractionKeys(d.game) = InteractionKeys(live.game)
    <3>1. PICK es : es = <<Tick(inputs)>> \o EmptyTicks(n)
      OBVIOUS
    <3>2. es \in Seq(Effect) /\ \A j \in DOMAIN es : es[j].kind # "interaction"
      BY <1>2, <3>1, TicksOnce
    <3>3. d.game = g \o es
      BY <1>3, <1>4, <3>1
    <3>q. QED  BY <1>4, <1>5, <3>2, <3>3, AppendOthers
  <2>2. IntentLedger(live, historical, interests) /\ d.intents = {} /\ d.rejected = live.rejected
    BY <1>3 DEF Ledger
  <2>q. QED  BY <1>7, <2>1, <2>2, KeysResolved
<1>9. ReceiptLedger(d)
  <2> SUFFICES ASSUME NEW r \in d.receipts, r.effect = "intent"
               PROVE  r.cursor < d.cursor /\ AppliedAt(d, r.key) # {}
    BY DEF ReceiptLedger
  <2>1. r \in live.receipts /\ r \in Receipt
    BY <1>1, <1>3 DEF KernelState
  <2>2. r.key \in Key /\ r.cursor \in Nat /\ live.cursor \in Nat
    BY <1>1, <2>1 DEF Receipt, KernelState
  <2>3. \/ r.cursor = live.cursor /\ r.key \in PendingKeys(live)
        \/ r.cursor < live.cursor /\ AppliedAt(live, r.key) # {}
    BY <2>1 DEF Ledger, ReceiptLedger
  <2>4. r.cursor < live.cursor + 1 + n
    BY <2>2, <2>3
  <2>5. r.cursor < d.cursor
    BY <1>3, <2>4
  <2>6. AppliedAt(d, r.key) # {}
    BY <1>7, <2>2, <2>3
  <2>q. QED  BY <2>5, <2>6
<1>10. CommitmentLedger(d)
  <2> SUFFICES ASSUME NEW s \in Seats PROVE SeatLedger(d, s)
    BY DEF CommitmentLedger
  <2>1. SeatLedger(live, s)
    BY DEF Ledger, CommitmentLedger
  <2>2. \A i \in inputs : i \in live.intents \/ i.cmd.op = "timeout"
    BY <1>2
  <2>3. PICK k : k = live
    OBVIOUS
  <2>4. /\ k \in KernelState /\ SeatLedger(k, s) /\ BookValid(k, inputs)
        /\ \A i \in inputs : i \in k.intents \/ i.cmd.op = "timeout"
    BY <1>1, <2>1, <2>2, <2>3
  <2>5. /\ d.game = k.game \o (<<Tick(inputs)>> \o EmptyTicks(n)) /\ d.intents = {}
        /\ d.opened = Book(k, inputs).opened /\ d.nextCommit = Book(k, inputs).nextCommit
    BY <1>3, <2>3
  <2>6. /\ d \in KernelState /\ inputs \in SUBSET Input /\ n \in Nat /\ s \in Seats
        /\ \A a, b \in inputs : a.seat = b.seat => a = b
    BY <1>2, <1>3
  <2>q. QED  BY ONLY <2>4, <2>5, <2>6, SeatResolved
<1>q. QED  BY <1>8, <1>9, <1>10 DEF Ledger, d

LEMMA InterestKept ==
    ASSUME live \in KernelState, Ledger(live, historical, interests),
           NEW key \in Key, NEW scope \in Scopes, NEW c2,
           c2 = interests \cup {[key |-> key, scope |-> scope]}
    PROVE  Ledger(InterestDraft(live, key, scope), historical \cup {key}, c2)
<1> DEFINE d == InterestDraft(live, key, scope)
<1>1. /\ d \in KernelState /\ Keeps(d, live) /\ d.game = live.game
      /\ d.intents = live.intents /\ d.rejected = live.rejected
      /\ d.receipts = live.receipts
  BY InterestFields
<1> HIDE DEF d
<1>2. SameTicks(live, d)
  BY <1>1, SameGame
<1>3. InterestKeysOf(c2) = InterestKeysOf(interests) \cup {key}
  <2>1. PICK e : e = [key |-> key, scope |-> scope]
    OBVIOUS
  <2>2. e.key = key /\ c2 = interests \cup {e}
    BY <2>1
  <2>q. QED  BY <2>2 DEF InterestKeysOf
<1>4. IntentLedger(d, historical \cup {key}, c2)
  <2>1. \A x \in Key : AppliedAt(d, x) = AppliedAt(live, x)
    BY <1>2 DEF SameTicks
  <2>2. \A x \in historical \cup {key} :
           x \in historical \/ x \in InterestKeysOf(c2) \/ x \in InteractionKeys(d.game)
    BY <1>3
  <2>3. InterestKeysOf(interests) \subseteq InterestKeysOf(c2)
        /\ InteractionKeys(live.game) \subseteq InteractionKeys(d.game)
    BY <1>1, <1>3
  <2>4. IntentLedger(live, historical, interests)
    BY DEF Ledger
  <2>5. PICK h2, c : h2 = historical \cup {key} /\ c = interests
    OBVIOUS
  <2>6. historical \subseteq h2 /\ d.intents = live.intents /\ d.rejected = live.rejected
    BY <1>1, <2>5
  <2>7. IntentLedger(d, h2, c2)
    BY <2>1, <2>2, <2>3, <2>4, <2>5, <2>6, KeysStay, SMTT(60)
  <2>q. QED  BY <2>5, <2>7
<1>5. ReceiptLedger(d)
  <2>1. d.cursor = live.cursor /\ ReceiptLedger(live) /\ PendingKeys(d) = PendingKeys(live)
    BY <1>1 DEF Keeps, Ledger, PendingKeys
  <2>q. QED  BY <1>1, <1>2, <2>1, ReceiptsKept
<1>6. CommitmentLedger(d)
  BY <1>1, <1>2, CommitmentsKept DEF Ledger
<1>q. QED  BY <1>4, <1>5, <1>6 DEF Ledger, d

\* What each batch adds to the identity registers.
LEMMA BatchRegisters ==
    ASSUME live \in KernelState
    PROVE  /\ \A i : /\ HistoricalAfter(IntentBatch(live, i)) = historical \cup {KeyOf(i)}
                     /\ InterestsAfter(IntentBatch(live, i)) = interests
           /\ \A i : /\ HistoricalAfter(InteractionBatch(live, i)) = historical
                     /\ InterestsAfter(InteractionBatch(live, i)) = interests
           /\ \A i : /\ HistoricalAfter(ControlBatch(live, i)) = historical
                     /\ InterestsAfter(ControlBatch(live, i)) = interests
           /\ \A i : /\ HistoricalAfter(RejectionBatch(live, i)) = historical
                     /\ InterestsAfter(RejectionBatch(live, i)) = interests
           /\ \A in, n : /\ HistoricalAfter(ResolutionBatch(live, in, n)) = historical
                         /\ InterestsAfter(ResolutionBatch(live, in, n)) = interests
           /\ HistoricalAfter(Blank(live)) = historical
           /\ InterestsAfter(Blank(live)) = interests
<1>1. ASSUME NEW i
      PROVE  /\ IntentBatch(live, i).kind = "intent" /\ IntentBatch(live, i).input = i
             /\ InteractionBatch(live, i).kind = "interaction"
             /\ ControlBatch(live, i).kind = "control"
  BY DEF IntentBatch, InteractionBatch, ControlBatch, Blank
<1>2. ASSUME NEW i PROVE RejectionBatch(live, i).kind = "rejection"
  BY DEF RejectionBatch, Blank
<1>3. ASSUME NEW in, NEW n PROVE ResolutionBatch(live, in, n).kind = "resolution"
  BY DEF ResolutionBatch, Blank
<1>4. Blank(live).kind = "audit"
  BY DEF Blank
<1>q. QED  BY <1>1, <1>2, <1>3, <1>4 DEF HistoricalAfter, InterestsAfter

LEMMA InterestRegisters ==
    ASSUME live \in KernelState, NEW key \in Key, NEW scope
    PROVE  /\ HistoricalAfter(InterestBatch(live, key, scope)) = historical \cup {key}
           /\ InterestsAfter(InterestBatch(live, key, scope)) =
                interests \cup {[key |-> key, scope |-> scope]}
<1>1. PICK i : i = InputOf(key[1], key[2], "play", 0)
  OBVIOUS
<1>2. KeyOf(i) = key
  BY <1>1 DEF InputOf, KeyOf, Key
<1>3. PICK b : b = InterestBatch(live, key, scope)
  OBVIOUS
<1>4. b.kind = "interest" /\ b.input = i /\ b.scope = scope
  BY <1>1, <1>3 DEF InterestBatch, Blank
<1>q. QED  BY <1>2, <1>3, <1>4 DEF HistoricalAfter, InterestsAfter

\* Whatever prepared it, a current draft keeps the ledgers when it is committed.
LEMMA CausedLedger ==
    ASSUME IInv, Ledger(live, historical, interests), NEW k, NEW b, Caused(k, b)
    PROVE  Ledger(k, HistoricalAfter(b), InterestsAfter(b))
<1>1. live \in KernelState /\ live.revision + 1 \in Nat /\ AnswersOnce(live)
  BY DEF IInv, TypeOK, KernelState
<1>2. \A l \in KernelState : \A h, c : Ledger(l, h, c) => Ledger(Sealed(l), h, c)
  BY <1>1, LedgerSealed DEF Sealed
<1>3. ASSUME NEW i \in Intent, Admissible(KeyOf(i)), EnvelopeValid(i),
             k = Sealed(IntentDraft(live, i)), b = IntentBatch(live, i)
      PROVE  Ledger(k, HistoricalAfter(b), InterestsAfter(b))
  <2>1. IntentDraft(live, i) \in KernelState
    BY <1>1, IntentDraftType
  <2>2. Ledger(IntentDraft(live, i), historical \cup {KeyOf(i)}, interests)
    BY <1>1, <1>3, IntentKept
  <2>3. Ledger(k, historical \cup {KeyOf(i)}, interests)
    BY <1>2, <1>3, <2>1, <2>2
  <2>q. QED  BY <1>1, <1>3, <2>3, BatchRegisters
<1>4. ASSUME NEW i \in Intent,
             k = Sealed(InteractionDraft(live, i)), b = InteractionBatch(live, i)
      PROVE  Ledger(k, HistoricalAfter(b), InterestsAfter(b))
  <2>1. InteractionDraft(live, i) \in KernelState
    BY <1>1, InteractionDraftType
  <2>2. Ledger(InteractionDraft(live, i), historical, interests)
    BY <1>1, InteractionKept
  <2>3. Ledger(k, historical, interests)
    BY <1>2, <1>4, <2>1, <2>2
  <2>q. QED  BY <1>1, <1>4, <2>3, BatchRegisters
<1>5. ASSUME NEW i \in live.intents,
             k = Sealed(RejectionDraft(live, i)), b = RejectionBatch(live, i)
      PROVE  Ledger(k, HistoricalAfter(b), InterestsAfter(b))
  <2>1. RejectionDraft(live, i) \in KernelState
    BY <1>1, RejectionFields
  <2>2. Ledger(RejectionDraft(live, i), historical, interests)
    BY <1>1, RejectionKept
  <2>3. Ledger(k, historical, interests)
    BY <1>2, <1>5, <2>1, <2>2
  <2>q. QED  BY <1>1, <1>5, <2>3, BatchRegisters
<1>6. ASSUME NEW inputs \in Windows, NEW extra \in Nat,
             BookValid(live, inputs), ValidParticipants(GameAfter(inputs, extra)),
             k = Sealed(ResolutionDraft(live, inputs, extra)),
             b = ResolutionBatch(live, inputs, extra)
      PROVE  Ledger(k, HistoricalAfter(b), InterestsAfter(b))
  <2>1. ResolutionDraft(live, inputs, extra) \in KernelState
    BY <1>1, <1>6, WindowInputs, ResolutionFields DEF GameAfter
  <2>2. Ledger(ResolutionDraft(live, inputs, extra), historical, interests)
    BY <1>6, ResolutionKept
  <2>3. Ledger(k, historical, interests)
    BY <1>2, <1>6, <2>1, <2>2
  <2>q. QED  BY <1>1, <1>6, <2>3, BatchRegisters
<1>7. ASSUME NEW i \in Input, KeyOf(i) \in Key,
             k = Sealed(ControlDraft(live, i)), b = ControlBatch(live, i)
      PROVE  Ledger(k, HistoricalAfter(b), InterestsAfter(b))
  <2>1. ControlDraft(live, i) \in KernelState
    BY <1>1, <1>7, ControlDraftType
  <2>2. Ledger(ControlDraft(live, i), historical, interests)
    BY <1>1, <1>7, ControlKept
  <2>3. Ledger(k, historical, interests)
    BY <1>2, <1>7, <2>1, <2>2
  <2>q. QED  BY <1>1, <1>7, <2>3, BatchRegisters
<1>8. ASSUME NEW key \in Key, NEW scope \in Scopes,
             k = Sealed(InterestDraft(live, key, scope)), b = InterestBatch(live, key, scope)
      PROVE  Ledger(k, HistoricalAfter(b), InterestsAfter(b))
  <2>1. InterestDraft(live, key, scope) \in KernelState
    BY <1>1, InterestFields
  <2>2. /\ HistoricalAfter(b) = historical \cup {key}
        /\ InterestsAfter(b) = interests \cup {[key |-> key, scope |-> scope]}
    BY <1>1, <1>8, InterestRegisters
  <2>3. Ledger(InterestDraft(live, key, scope), historical \cup {key}, InterestsAfter(b))
    BY <1>1, <2>2, InterestKept
  <2>4. Ledger(k, historical \cup {key}, InterestsAfter(b))
    BY <1>2, <1>8, <2>1, <2>3
  <2>q. QED  BY <2>2, <2>4
<1>9. ASSUME k = Sealed(live), b = Blank(live)
      PROVE  Ledger(k, HistoricalAfter(b), InterestsAfter(b))
  <2>1. Ledger(k, historical, interests)
    BY <1>1, <1>2, <1>9
  <2>q. QED  BY <1>1, <1>9, <2>1, BatchRegisters
<1>q. QED  BY <1>3, <1>4, <1>5, <1>6, <1>7, <1>8, <1>9 DEF Caused

\* A restart also registers the ids of interactions, which owe no place.
LEMMA RestartLedger ==
    ASSUME NEW k, NEW h, NEW c, Ledger(k, h, c)
    PROVE  Ledger(k, h \cup InteractionKeys(k.game), c)
<1>1. PICK h2 : h2 = h \cup InteractionKeys(k.game)
  OBVIOUS
<1>2. IntentLedger(k, h, c)
  BY DEF Ledger
<1>3. IntentLedger(k, h2, c)
  <2>1. h \subseteq h2 /\ \A key \in h2 : key \in h \/ key \in InteractionKeys(k.game)
    BY <1>1
  <2>q. QED  BY <1>2, <2>1, KeysStay
<1>q. QED  BY <1>1, <1>3 DEF Ledger

-----------------------------------------------------------------------------
(* Every current draft was caused by an operation on the live state.       *)

LEMMA CausedStays ==
    ASSUME NEW k, NEW b, Caused(k, b), UNCHANGED <<options, live, historical, interests>>
    PROVE  Caused(k, b)'
<1>1. \A key : Admissible(key) => Admissible(key)'
  BY DEF Admissible, Playing, InterestKeys, ReceiptKeys, ExpiredKeys
<1>2. \A i : EnvelopeValid(i) => EnvelopeValid(i)'
  BY DEF EnvelopeValid
<1>3. Windows' = Windows
  BY DEF Windows, Answered
<1>4. ASSUME NEW i \in Intent, Admissible(KeyOf(i)), EnvelopeValid(i),
             i.seat \notin Answered(live),
             k = Sealed(IntentDraft(live, i)), b = IntentBatch(live, i)
      PROVE  Caused(k, b)'
  <2>1. Admissible(KeyOf(i))' /\ EnvelopeValid(i)'
    BY <1>1, <1>2, <1>4
  <2>2. (i.seat \notin Answered(live))'
    BY <1>4 DEF Answered
  <2>3. (k = Sealed(IntentDraft(live, i)) /\ b = IntentBatch(live, i))'
    BY <1>4 DEF Sealed
  <2>q. QED  BY <2>1, <2>2, <2>3 DEF Caused
<1>5. ASSUME NEW i \in Intent,
             k = Sealed(InteractionDraft(live, i)), b = InteractionBatch(live, i)
      PROVE  Caused(k, b)'
  <2>1. (k = Sealed(InteractionDraft(live, i)) /\ b = InteractionBatch(live, i))'
    BY <1>5 DEF Sealed
  <2>q. QED  BY <2>1 DEF Caused
<1>6. ASSUME NEW i \in live.intents,
             k = Sealed(RejectionDraft(live, i)), b = RejectionBatch(live, i)
      PROVE  Caused(k, b)'
  <2>1. (k = Sealed(RejectionDraft(live, i)) /\ b = RejectionBatch(live, i))'
    BY <1>6 DEF Sealed, RejectionBatch, RejectionDraft
  <2>2. i \in live'.intents
    OBVIOUS
  <2>q. QED  BY <2>1, <2>2 DEF Caused
<1>7. ASSUME NEW inputs \in Windows, NEW extra \in Nat,
             BookValid(live, inputs), ValidParticipants(GameAfter(inputs, extra)),
             k = Sealed(ResolutionDraft(live, inputs, extra)),
             b = ResolutionBatch(live, inputs, extra)
      PROVE  Caused(k, b)'
  <2>1. (BookValid(live, inputs) /\ ValidParticipants(GameAfter(inputs, extra)))'
    BY <1>7 DEF GameAfter
  <2>2. (k = Sealed(ResolutionDraft(live, inputs, extra))
          /\ b = ResolutionBatch(live, inputs, extra))'
    BY <1>7 DEF Sealed
  <2>3. inputs \in Windows'
    BY <1>3
  <2>q. QED  BY <2>1, <2>2, <2>3 DEF Caused
<1>8. ASSUME NEW i \in Input, KeyOf(i) \in Key,
             k = Sealed(ControlDraft(live, i)), b = ControlBatch(live, i)
      PROVE  Caused(k, b)'
  <2>1. (k = Sealed(ControlDraft(live, i)) /\ b = ControlBatch(live, i))'
    BY <1>8 DEF Sealed
  <2>q. QED  BY <1>8, <2>1 DEF Caused
<1>9. ASSUME NEW key \in Key, NEW scope \in Scopes,
             k = Sealed(InterestDraft(live, key, scope)), b = InterestBatch(live, key, scope)
      PROVE  Caused(k, b)'
  <2>1. (k = Sealed(InterestDraft(live, key, scope))
          /\ b = InterestBatch(live, key, scope))'
    BY <1>9 DEF Sealed
  <2>q. QED  BY <2>1 DEF Caused
<1>10. ASSUME k = Sealed(live), b = Blank(live)
       PROVE  Caused(k, b)'
  <2>1. (k = Sealed(live) /\ b = Blank(live))'
    BY <1>10 DEF Sealed
  <2>q. QED  BY <2>1 DEF Caused
<1>q. QED  BY <1>4, <1>5, <1>6, <1>7, <1>8, <1>9, <1>10 DEF Caused

LEMMA SlotCaused ==
    ASSUME TypeOK, DraftsCaused, NEW slot \in Slots, NEW d,
           drafts' = [drafts EXCEPT ![slot] = d],
           d # NoDraft /\ Current(d) => Caused(d.next, d.batch),
           UNCHANGED <<options, live, historical, interests>>
    PROVE  DraftsCaused'
<1> SUFFICES ASSUME NEW s \in Slots, Open(s)', Current(drafts[s])'
             PROVE  Caused(drafts[s].next, drafts[s].batch)'
  BY DEF DraftsCaused
<1>1. PICK c : c = drafts'[s]
  OBVIOUS
<1>2. c # NoDraft /\ Current(c)
  BY <1>1 DEF Open, Current
<1>3. Caused(c.next, c.batch)
  <2>1. CASE s = slot
    BY <1>1, <1>2, <2>1 DEF TypeOK
  <2>2. CASE s # slot
    BY <1>1, <1>2, <2>2 DEF TypeOK, DraftsCaused, Open
  <2>q. QED  BY <2>1, <2>2
<1>4. PICK k, b : k = c.next /\ b = c.batch
  OBVIOUS
<1>5. Caused(k, b)'
  BY <1>3, <1>4, CausedStays
<1>6. drafts'[s].next = k /\ drafts'[s].batch = b
  BY <1>1, <1>4
<1>q. QED  BY <1>5, <1>6

LEMMA PrepareCaused ==
    ASSUME IInv, DraftsCaused, NEW slot \in Slots, NEW next, NEW batch,
           Caused(Sealed(next), batch), Prepare(slot, next, batch)
    PROVE  DraftsCaused'
<1>1. PICK d : d = [base |-> live.revision, noop |-> FALSE, batch |-> batch,
                    next |-> Sealed(next)]
  OBVIOUS
<1>2. drafts' = [drafts EXCEPT ![slot] = d]
      /\ UNCHANGED <<options, live, historical, interests>>
  BY <1>1 DEF Prepare, Sealed, Stamp
<1>3. d.next = Sealed(next) /\ d.batch = batch
  BY <1>1
<1>q. QED  BY <1>2, <1>3, SlotCaused DEF IInv

LEMMA NoopCaused ==
    ASSUME IInv, DraftsCaused, NEW slot \in Slots, PrepareNoop(slot)
    PROVE  DraftsCaused'
<1>1. PICK d : d = [base |-> live.revision, noop |-> TRUE, batch |-> Blank(live), next |-> live]
  OBVIOUS
<1>2. drafts' = [drafts EXCEPT ![slot] = d] /\ d.noop
      /\ UNCHANGED <<options, live, historical, interests>>
  BY <1>1 DEF PrepareNoop
<1>q. QED  BY <1>2, SlotCaused DEF IInv, Current

LEMMA CloseCaused ==
    ASSUME IInv, DraftsCaused, NEW slot \in Slots, Close(slot),
           UNCHANGED <<options, live, historical, interests>>
    PROVE  DraftsCaused'
BY SlotCaused DEF Close, IInv

LEMMA RejectionCaused ==
    ASSUME IInv, DraftsCaused, NEW slot \in Slots, PrepareRejection(slot)
    PROVE  DraftsCaused'
<1>1. PICK i \in live.intents :
         Prepare(slot, RejectionDraft(live, i), RejectionBatch(live, i))
  BY DEF PrepareRejection
<1>2. Caused(Sealed(RejectionDraft(live, i)), RejectionBatch(live, i))
  BY DEF Caused
<1>q. QED  BY <1>1, <1>2, PrepareCaused

LEMMA ResolutionCaused ==
    ASSUME IInv, DraftsCaused, NEW slot \in Slots, NEW inputs \in Windows, NEW n \in Nat,
           PrepareResolution(slot, inputs, n)
    PROVE  DraftsCaused'
<1>1. /\ BookValid(live, inputs) /\ ValidParticipants(GameAfter(inputs, n))
      /\ Prepare(slot, ResolutionDraft(live, inputs, n), ResolutionBatch(live, inputs, n))
  BY DEF PrepareResolution
<1>2. Caused(Sealed(ResolutionDraft(live, inputs, n)), ResolutionBatch(live, inputs, n))
  BY <1>1 DEF Caused
<1>q. QED  BY <1>1, <1>2, PrepareCaused

LEMMA PrepareAnyCaused ==
    ASSUME IInv, DraftsCaused, NEW slot \in Slots, PrepareAny(slot)
    PROVE  DraftsCaused'
<1>1. ASSUME NEW i \in Intent, PrepareInteraction(slot, i) PROVE DraftsCaused'
  <2>1. Prepare(slot, InteractionDraft(live, i), InteractionBatch(live, i))
    BY <1>1 DEF PrepareInteraction
  <2>2. Caused(Sealed(InteractionDraft(live, i)), InteractionBatch(live, i))
    BY DEF Caused
  <2>q. QED  BY <2>1, <2>2, PrepareCaused
<1>2. ASSUME NEW i \in Intent, PrepareIntent(slot, i) PROVE DraftsCaused'
  <2>1. /\ Admissible(KeyOf(i)) /\ EnvelopeValid(i) /\ i.seat \notin Answered(live)
        /\ Prepare(slot, IntentDraft(live, i), IntentBatch(live, i))
    BY <1>2 DEF PrepareIntent
  <2>2. Caused(Sealed(IntentDraft(live, i)), IntentBatch(live, i))
    BY <2>1 DEF Caused
  <2>q. QED  BY <2>1, <2>2, PrepareCaused
<1>3. ASSUME PrepareDuplicate(slot) PROVE DraftsCaused'
  BY <1>3, NoopCaused DEF PrepareDuplicate
<1>4. ASSUME NEW ahead \in 0..MaxFutureTicks,
             PrepareAdvance(slot, ahead) \/ PrepareIdleAdvance(slot, ahead)
      PROVE  DraftsCaused'
  <2>1. CASE PrepareIdleAdvance(slot, ahead)
    BY <2>1, NoopCaused DEF PrepareIdleAdvance
  <2>2. CASE PrepareRejection(slot)
    BY <2>2, RejectionCaused
  <2>3. ASSUME NEW extra \in 0..ahead, PrepareResolution(slot, live.intents, extra)
        PROVE  DraftsCaused'
    <3>1. extra \in Nat /\ live.intents \in Windows
      BY <2>3 DEF Windows
    <3>q. QED  BY <2>3, <3>1, ResolutionCaused
  <2>q. QED  BY <1>4, <2>1, <2>2, <2>3 DEF PrepareAdvance
<1>5. ASSUME NEW p \in Seats \cup {None}, PrepareTimeout(slot, p) PROVE DraftsCaused'
  <2>1. CASE PrepareRejection(slot)
    BY <2>1, RejectionCaused
  <2>2. PICK inputs : inputs = live.intents \cup {InputOf(p, None, "timeout", 0)}
    OBVIOUS
  <2>3. CASE PrepareResolution(slot, inputs, 0)
    <3>1. inputs \in Windows
      BY <1>5, <2>2 DEF PrepareTimeout, Windows
    <3>q. QED  BY <2>3, <3>1, ResolutionCaused
  <2>q. QED  BY <1>5, <2>1, <2>2, <2>3 DEF PrepareTimeout
<1>6. ASSUME PrepareExtension(slot) \/ PrepareSeatSignature(slot) PROVE DraftsCaused'
  <2>1. Prepare(slot, live, Blank(live))
    BY <1>6 DEF PrepareExtension, PrepareSeatSignature
  <2>2. Caused(Sealed(live), Blank(live))
    BY DEF Caused
  <2>q. QED  BY <2>1, <2>2, PrepareCaused
<1>7. ASSUME NEW key \in Key, PrepareControlTransition(slot, key) PROVE DraftsCaused'
  <2>1. PICK i : i = InputOf(key[1], key[2], "control", 0)
    OBVIOUS
  <2>2. i \in Input /\ KeyOf(i) \in Key
    BY <2>1 DEF InputOf, Input, Command, KeyOf, Key
  <2>3. Prepare(slot, ControlDraft(live, i), ControlBatch(live, i))
    BY <1>7, <2>1 DEF PrepareControlTransition
  <2>4. Caused(Sealed(ControlDraft(live, i)), ControlBatch(live, i))
    BY <2>2 DEF Caused
  <2>q. QED  BY <2>3, <2>4, PrepareCaused
<1>8. ASSUME NEW key \in Key, NEW scope \in Scopes, PrepareInterest(slot, key, scope)
      PROVE  DraftsCaused'
  <2>1. Prepare(slot, InterestDraft(live, key, scope), InterestBatch(live, key, scope))
    BY <1>8 DEF PrepareInterest
  <2>2. Caused(Sealed(InterestDraft(live, key, scope)), InterestBatch(live, key, scope))
    BY DEF Caused
  <2>q. QED  BY <2>1, <2>2, PrepareCaused
<1>9. ASSUME NEW s \in Seats, NEW id \in Ids, NEW op \in Ops, NEW n \in Numbers(s, op),
             PrepareInteraction(slot, InputOf(s, id, op, n))
               \/ PrepareIntent(slot, InputOf(s, id, op, n))
      PROVE  DraftsCaused'
  BY <1>1, <1>2, <1>9, InputType
<1>q. QED  BY <1>3, <1>4, <1>5, <1>6, <1>7, <1>8, <1>9 DEF PrepareAny

\* Preparing changes nothing but the slot.
LEMMA PrepareKeepsRegisters ==
    ASSUME NEW slot \in Slots, PrepareAny(slot)
    PROVE  UNCHANGED <<live, historical, interests>>
<1> DEFINE Kept == UNCHANGED <<live, historical, interests>>
<1>1. \A next, batch : Prepare(slot, next, batch) => Kept
  BY DEF Prepare
<1>2. PrepareNoop(slot) => Kept
  BY DEF PrepareNoop
<1> HIDE DEF Kept
<1>3. \A i : PrepareIntent(slot, i) \/ PrepareInteraction(slot, i) => Kept
  BY <1>1 DEF PrepareIntent, PrepareInteraction
<1>4. \A ahead : PrepareAdvance(slot, ahead) \/ PrepareIdleAdvance(slot, ahead) => Kept
  BY <1>1, <1>2 DEF PrepareAdvance, PrepareIdleAdvance, PrepareRejection, PrepareResolution
<1>5. \A p : PrepareTimeout(slot, p) => Kept
  BY <1>1 DEF PrepareTimeout, PrepareRejection, PrepareResolution
<1>6. \A key : PrepareControlTransition(slot, key) => Kept
  BY <1>1 DEF PrepareControlTransition
<1>7. \A key, scope : PrepareInterest(slot, key, scope) => Kept
  BY <1>1 DEF PrepareInterest
<1>8. PrepareExtension(slot) \/ PrepareSeatSignature(slot) => Kept
  BY <1>1 DEF PrepareExtension, PrepareSeatSignature
<1>9. PrepareDuplicate(slot) => Kept
  BY <1>2 DEF PrepareDuplicate
<1>10. Kept
  BY <1>3, <1>4, <1>5, <1>6, <1>7, <1>8, <1>9 DEF PrepareAny
<1>q. QED  BY <1>10 DEF Kept

-----------------------------------------------------------------------------
(* The ledgers are an invariant.                                           *)

\* A transition that becomes live carries the ledgers, with or without a crash.
LEMMA PublishedLedger ==
    ASSUME IInv, LInv, NEW slot \in Slots, Open(slot), Current(drafts[slot])
    PROVE  Ledger(drafts[slot].next, HistoricalAfter(drafts[slot].batch),
                  InterestsAfter(drafts[slot].batch))
<1>1. PICK k, b : k = drafts[slot].next /\ b = drafts[slot].batch
  OBVIOUS
<1>2. Caused(k, b) /\ Ledger(live, historical, interests)
  BY <1>1 DEF LInv, DraftsCaused
<1>q. QED  BY <1>1, <1>2, CausedLedger

LEMMA CommitLedger ==
    ASSUME IInv, LInv, NEW slot \in Slots, Commit(slot)
    PROVE  LInv'
<1>1. Open(slot) /\ Current(drafts[slot])
  BY DEF Commit, Current
<1>2. Ledger(live, historical, interests)'
  BY <1>1, PublishedLedger DEF Commit
<1>3. DraftsCaused'
  <2> SUFFICES ASSUME NEW s \in Slots, Open(s)'
               PROVE  ~Current(drafts[s])'
    BY DEF DraftsCaused
  <2>1. s # slot /\ drafts'[s] = drafts[s] /\ Open(s)
    BY DEF Commit, Close, Open, IInv, TypeOK
  <2>2. drafts[s] \in Draft /\ DraftInv(drafts[s])
    BY <2>1 DEF IInv, TypeOK, Open
  <2>3. drafts[s].base \in Nat /\ live.revision \in Nat
    BY <2>2 DEF Draft, IInv, TypeOK, KernelState
  <2>4. live'.revision = live.revision + 1
    BY CurrentDraft DEF Commit
  <2>q. QED  BY <2>1, <2>2, <2>3, <2>4 DEF DraftInv, Current
<1>q. QED  BY <1>2, <1>3 DEF LInv

LEMMA RehydrateLedger ==
    ASSUME NEW r, NEW k, NEW h, NEW c, Rebuilds(r, k, h, c), Ledger(k, h, c), Rehydrate(r)
    PROVE  LInv'
<1>1. /\ live' = k /\ historical' = h \cup InteractionKeys(k.game) /\ interests' = c
      /\ \A s \in Slots : ~Open(s)'
  BY DEF Rehydrate, Rebuilds, Open
<1>2. Ledger(live, historical, interests)'
  BY <1>1, RestartLedger
<1>q. QED  BY <1>1, <1>2 DEF LInv, DraftsCaused

LEMMA LedgerInit == Init => LInv
<1> SUFFICES ASSUME Init PROVE LInv
  OBVIOUS
<1>1. /\ live.game = <<>> /\ live.intents = {} /\ live.rejected = {} /\ live.receipts = {}
      /\ live.opened = [s \in Seats |-> {}] /\ live.nextCommit = [s \in Seats |-> 0]
      /\ historical = {}
  BY DEF Init, Fresh
<1>2. /\ \A key : AppliedAt(live, key) = {}
      /\ \A s, op, n : TicksOf(live, s, op, n) = {}
  BY <1>1 DEF AppliedAt, TicksOf, TickIndexes
<1>3. IntentLedger(live, historical, interests)
  BY <1>1, <1>2 DEF IntentLedger, KeyLedger, PendingKeys, RejectedKeys
<1>4. ReceiptLedger(live)
  BY <1>1 DEF ReceiptLedger
<1>5. CommitmentLedger(live)
  <2>1. Cardinality({}) = 0 /\ MaxOpenCommitments \in Nat
    BY FS_EmptySet, KernelAssumption
  <2>q. QED  BY <1>1, <1>2, <2>1 DEF CommitmentLedger, SeatLedger, Story
<1>6. DraftsCaused
  BY DEF Init, DraftsCaused, Open
<1>q. QED  BY <1>3, <1>4, <1>5, <1>6 DEF LInv, Ledger

LEMMA LedgerNext == IInv /\ LInv /\ [Next]_vars => LInv'
<1> SUFFICES ASSUME IInv, LInv, [Next]_vars PROVE LInv'
  OBVIOUS
<1>1. ASSUME UNCHANGED <<live, historical, interests>>, DraftsCaused' PROVE LInv'
  BY <1>1 DEF LInv
<1>2. CASE Restart
  <2>1. Rebuilds(recovered, live, historical, interests) /\ Rehydrate(recovered)
    BY <1>2 DEF IInv, Restart
  <2>q. QED  BY <2>1, RehydrateLedger DEF LInv
<1>3. ASSUME NEW slot \in Slots, PrepareAny(slot) PROVE LInv'
  <2>1. DraftsCaused'
    BY <1>3, PrepareAnyCaused DEF LInv
  <2>2. UNCHANGED <<live, historical, interests>>
    BY <1>3, PrepareKeepsRegisters
  <2>q. QED  BY <1>1, <2>1, <2>2
<1>4. ASSUME NEW slot \in Slots, Commit(slot) PROVE LInv'
  BY <1>4, CommitLedger
<1>5. ASSUME NEW slot \in Slots, CommitStale(slot) \/ CommitNoop(slot) \/ Abort(slot)
      PROVE  LInv'
  <2>1. Close(slot) /\ UNCHANGED <<options, live, historical, interests>>
    BY <1>5 DEF CommitStale, CommitNoop, Abort
  <2>2. DraftsCaused'
    BY <2>1, CloseCaused DEF LInv
  <2>q. QED  BY <1>1, <2>1, <2>2
<1>6. ASSUME NEW slot \in Slots, CrashAfterPersist(slot) PROVE LInv'
  <2>1. Open(slot) /\ Current(drafts[slot]) /\ Rehydrate(Replay(recovered, drafts[slot].batch))
    BY <1>6 DEF CrashAfterPersist, Current
  <2>2. Rebuilds(Replay(recovered, drafts[slot].batch), drafts[slot].next,
                 HistoricalAfter(drafts[slot].batch), InterestsAfter(drafts[slot].batch))
    BY <2>1, CurrentDraft DEF Current, Faithful
  <2>3. Ledger(drafts[slot].next, HistoricalAfter(drafts[slot].batch),
               InterestsAfter(drafts[slot].batch))
    BY <2>1, PublishedLedger
  <2>4. PICK r, k, h, c : /\ r = Replay(recovered, drafts[slot].batch) /\ k = drafts[slot].next
                          /\ h = HistoricalAfter(drafts[slot].batch)
                          /\ c = InterestsAfter(drafts[slot].batch)
    OBVIOUS
  <2>5. Rebuilds(r, k, h, c) /\ Ledger(k, h, c) /\ Rehydrate(r)
    BY <2>1, <2>2, <2>3, <2>4 DEF Rehydrate
  <2>q. QED  BY <2>5, RehydrateLedger
<1>7. CASE UNCHANGED vars
  <2>1. UNCHANGED <<options, live, historical, interests>> /\ drafts' = drafts
    BY <1>7 DEF vars
  <2>2. DraftsCaused'
    <3> SUFFICES ASSUME NEW s \in Slots, Open(s)', Current(drafts[s])'
                 PROVE  Caused(drafts[s].next, drafts[s].batch)'
      BY DEF DraftsCaused
    <3>1. PICK k, b : k = drafts[s].next /\ b = drafts[s].batch
      OBVIOUS
    <3>2. Caused(k, b)
      BY <2>1, <3>1 DEF LInv, DraftsCaused, Open, Current
    <3>3. Caused(k, b)'
      BY <2>1, <3>2, CausedStays
    <3>4. drafts'[s].next = k /\ drafts'[s].batch = b
      BY <2>1, <3>1
    <3>q. QED  BY <3>3, <3>4
  <2>q. QED  BY <1>1, <2>1, <2>2
<1>q. QED  BY <1>2, <1>3, <1>4, <1>5, <1>6, <1>7 DEF Next

LEMMA LedgersHold == Spec => [](IInv /\ LInv)
<1>1. Init => IInv /\ LInv
  BY InitInv, LedgerInit
<1>2. (IInv /\ LInv) /\ [Next]_vars => (IInv /\ LInv)'
  BY NextInv, LedgerNext
<1>q. QED  BY <1>1, <1>2, PTL DEF Spec

\* Every accepted intent is in exactly one place - the open window, one tick, or
\* the rejections - whatever interactions, control transitions, timeouts,
\* catch-ups, stale drafts, crashes and restarts come in between.
THEOREM IntentsAreAccountedFor == Spec => []IntentAccounted
<1>1. ASSUME IInv, LInv
      PROVE  IntentAccounted
  <2> SUFFICES ASSUME NEW key \in historical \ (InterestKeys \cup InteractionKeys(live.game))
               PROVE  Cardinality(AppliedAt(live, key))
                        + (IF key \in PendingKeys(live) THEN 1 ELSE 0)
                        + (IF key \in RejectedKeys(live) THEN 1 ELSE 0) = 1
    BY DEF IntentAccounted
  <2>1. key \in Key
    BY <1>1 DEF IInv, TypeOK
  <2>2. InterestKeysOf(interests) = InterestKeys
    BY DEF InterestKeysOf, InterestKeys
  <2>3. PICK at : at = AppliedAt(live, key)
    OBVIOUS
  <2>4. KeyLedger(at, key \in PendingKeys(live), key \in RejectedKeys(live), TRUE, TRUE)
    <3>1. IntentLedger(live, historical, interests)
      BY <1>1 DEF LInv, Ledger
    <3>q. QED  BY <2>1, <2>2, <2>3, <3>1 DEF IntentLedger, KeyLedger
  <2>5. CASE at = {}
    <3>1. Cardinality(at) = 0
      BY <2>5, FS_EmptySet
    <3>q. QED  BY <2>3, <2>4, <2>5, <3>1 DEF KeyLedger
  <2>6. CASE at # {}
    <3>1. PICK j \in at : at = {j}
      BY <2>4, <2>6 DEF KeyLedger
    <3>2. Cardinality(at) = 1
      BY <3>1, FS_Singleton
    <3>q. QED  BY <2>3, <2>4, <2>6, <3>2 DEF KeyLedger
  <2>q. QED  BY <2>5, <2>6
<1>q. QED  BY <1>1, LedgersHold, PTL

\* A retained receipt of an intent says "resolved" exactly when a tick took the
\* intent: what a repeated submission is told is the truth.
THEOREM ReceiptsAreHonest == Spec => []ReceiptHonest
<1>1. ASSUME IInv, LInv
      PROVE  ReceiptHonest
  <2> SUFFICES ASSUME NEW r \in live.receipts, r.effect = "intent"
               PROVE  (r.cursor < live.cursor) = (AppliedAt(live, r.key) # {})
    BY DEF ReceiptHonest
  <2>1. \/ r.cursor = live.cursor /\ r.key \in PendingKeys(live)
        \/ r.cursor < live.cursor /\ AppliedAt(live, r.key) # {}
    BY <1>1 DEF LInv, Ledger, ReceiptLedger
  <2>2. r.key \in Key /\ r.cursor \in Nat /\ live.cursor \in Nat
    BY <1>1 DEF IInv, TypeOK, KernelState, Receipt
  <2>3. r.key \in PendingKeys(live) => AppliedAt(live, r.key) = {}
    BY <1>1, <2>2 DEF LInv, Ledger, IntentLedger, KeyLedger
  <2>q. QED  BY <2>1, <2>2, <2>3
<1>q. QED  BY <1>1, LedgersHold, PTL

\* A commitment is made in one tick, revealed at most once and only in a later
\* tick, is open exactly until then, and a seat never holds more than the limit.
THEOREM CommitmentsAreOrdered == Spec => []CommitmentsOrdered
<1>1. ASSUME IInv, LInv
      PROVE  CommitmentsOrdered
  <2> SUFFICES ASSUME NEW s \in Seats, NEW n \in 0..(live.nextCommit[s] - 1)
               PROVE  LET made == TicksOf(live, s, "commit", n)
                          told == TicksOf(live, s, "reveal", n)
                      IN /\ Cardinality(made) = 1 /\ Cardinality(told) <= 1
                         /\ \A a \in made, b \in told : a < b
                         /\ n \in live.opened[s] <=> told = {}
                         /\ Cardinality(live.opened[s]) <= MaxOpenCommitments
    BY DEF CommitmentsOrdered
  <2>1. PICK made, told : /\ made = TicksOf(live, s, "commit", n)
                          /\ told = TicksOf(live, s, "reveal", n)
    OBVIOUS
  <2>2. live.nextCommit[s] \in Nat
    BY <1>1 DEF IInv, TypeOK, KernelState
  <2>3. n \in Nat /\ n < live.nextCommit[s]
    BY <2>2
  <2>4. SeatLedger(live, s)
    BY <1>1 DEF LInv, Ledger, CommitmentLedger
  <2>5. Story(made, told, n, live.opened[s], live.nextCommit[s])
    BY <2>1, <2>3, <2>4 DEF SeatLedger
  <2>6. PICK a \in made : made = {a} /\ (told = {} \/ \E b \in told : told = {b} /\ a < b)
    BY <2>3, <2>5 DEF Story
  <2>7. Cardinality(made) = 1
    BY <2>6, FS_Singleton
  <2>8. Cardinality(told) <= 1
    <3>1. CASE told = {}
      BY <3>1, FS_EmptySet
    <3>2. CASE \E b \in told : told = {b} /\ a < b
      BY <3>2, FS_Singleton
    <3>q. QED  BY <2>6, <3>1, <3>2
  <2>9. \A x \in made, y \in told : x < y
    BY <2>6
  <2>10. n \in live.opened[s] <=> told = {}
    BY <2>3, <2>5 DEF Story
  <2>11. Cardinality(live.opened[s]) <= MaxOpenCommitments
    BY <2>4 DEF SeatLedger
  <2>q. QED  BY <2>1, <2>7, <2>8, <2>9, <2>10, <2>11
<1>q. QED  BY <1>1, LedgersHold, PTL
=============================================================================
