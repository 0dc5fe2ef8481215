------------------------ MODULE SessionLayers_proofs ------------------------
(***************************************************************************)
(* The layers of a session, for any number of seats, sources, cues,        *)
(* commands and reducer states and any interleaving of their steps:        *)
(* control holds, effects happen once, and the authority of a seat is      *)
(* never rewritten. Each layer has an inductive invariant of its own; a    *)
(* step of the session is a step of one layer and a stutter of the others. *)
(***************************************************************************)
EXTENDS Layers, Integers, SequenceFilter, TLAPS

-----------------------------------------------------------------------------
(***************************************************************************)
(* Seat ledger: a seat's history is a chain of epochs, each from the one   *)
(* before it, at revisions that rise, and an entry past the revision is    *)
(* not there.                                                              *)
(***************************************************************************)

LEMMA SeatsCounted == ASSUME NEW S PROVE SeatLedger!Cardinality(S) = Cardinality(S)
  BY DEF SeatLedger!Cardinality, Cardinality

LEMMA HasHighest ==
    ASSUME NEW n \in Nat, NEW T \in SUBSET (1..n), T # {}
    PROVE  \E k \in T : \A j \in T : j <= k
  <1> DEFINE Q(m) == (\A j \in T : m < j) \/ \E k \in T : k <= m /\ \A j \in T : j <= m => j <= k
             S == {m \in Nat : Q(m)}
  <1>1. 0 \in S
    OBVIOUS
  <1>2. ASSUME NEW m \in S PROVE m + 1 \in S
    <2>1. CASE m + 1 \in T
      <3>1. \A j \in T : j <= m + 1 => j <= m + 1
        OBVIOUS
      <3>2. Q(m + 1)
        BY <2>1, <3>1
      <3>q. QED  BY <3>2
    <2>2. CASE m + 1 \notin T
      <3>1. \A j \in T : j <= m + 1 <=> j <= m
        BY <2>2
      <3>2. Q(m + 1)
        BY <3>1
      <3>q. QED  BY <3>2
    <2>q. QED  BY <2>1, <2>2
  <1>3. S = Nat
    <2> HIDE DEF Q
    <2>1. S \in SUBSET Nat
      OBVIOUS
    <2> HIDE DEF S
    <2>q. QED  BY <1>1, <1>2, <2>1, SetInduction
  <1>4. Q(n)
    BY <1>3
  <1>5. \A j \in T : j <= n /\ ~(n < j)
    OBVIOUS
  <1> HIDE DEF S
  <1>6. \E k \in T : k <= n /\ \A j \in T : j <= n => j <= k
    BY <1>4, <1>5
  <1>q. QED  BY <1>5, <1>6

LEMMA Lengthens ==
    ASSUME NEW h, SeatLedger!Sequential(h), NEW e
    PROVE  /\ SeatLedger!Sequential(Append(h, e))
           /\ Len(Append(h, e)) = Len(h) + 1 /\ Len(h) \in Nat
           /\ DOMAIN h = 1..Len(h) /\ DOMAIN Append(h, e) = 1..(Len(h) + 1)
           /\ \A k \in 1..Len(h) : Append(h, e)[k] = h[k]
           /\ Append(h, e)[Len(h) + 1] = e
  <1> DEFINE S == {h[k] : k \in DOMAIN h}
             g == Append(h, e)
  <1>1. h \in Seq(S)
    BY DEF SeatLedger!Sequential
  <1>2. S \subseteq S \cup {e}
    OBVIOUS
  <1> HIDE DEF S
  <1>3. h \in Seq(S \cup {e}) /\ e \in S \cup {e}
    BY <1>1, <1>2
  <1>4. /\ Len(g) = Len(h) + 1 /\ Len(h) \in Nat
        /\ DOMAIN h = 1..Len(h) /\ DOMAIN g = 1..(Len(h) + 1)
        /\ \A k \in 1..Len(h) : g[k] = h[k]
        /\ g[Len(h) + 1] = e /\ g \in Seq(S \cup {e})
    BY <1>3
  <1>5. \A k \in 1..Len(g) : g[k] \in {g[j] : j \in DOMAIN g}
    BY <1>4
  <1> HIDE DEF g
  <1>6. DOMAIN g = 1..Len(g) /\ Len(g) \in Nat
    BY <1>4
  <1>7. g = [k \in 1..Len(g) |-> g[k]]
    BY <1>4
  <1>8. g \in [1..Len(g) -> {g[j] : j \in DOMAIN g}]
    BY <1>5, <1>7
  <1>9. g \in Seq({g[j] : j \in DOMAIN g})
    BY <1>6, <1>8
  <1>q. QED  BY <1>4, <1>9 DEF g, SeatLedger!Sequential

LEMMA LedgerBegins == LedgerAssumption /\ SeatLedger!Init => SeatLedger!LedgerInv
  <1> SUFFICES ASSUME LedgerAssumption, SeatLedger!Init PROVE SeatLedger!LedgerInv
    OBVIOUS
  <1>1. ASSUME NEW seat \in Seats
        PROVE  \E c : history[seat] = <<SeatLedger!Genesis(c)>>
    BY DEF SeatLedger!Init
  <1>2. ASSUME NEW c PROVE /\ SeatLedger!Sequential(<<SeatLedger!Genesis(c)>>) /\ Len(<<SeatLedger!Genesis(c)>>) = 1
                           /\ DOMAIN <<SeatLedger!Genesis(c)>> = {1}
                           /\ <<SeatLedger!Genesis(c)>>[1] = SeatLedger!Genesis(c)
    BY DEF SeatLedger!Sequential
  <1>3. ASSUME NEW c PROVE SeatLedger!Genesis(c).controller = c /\ SeatLedger!Genesis(c).epoch = 0 /\ SeatLedger!Genesis(c).since = 0
    BY DEF SeatLedger!Genesis
  <1>4. SeatLedger!Histories
    <2>1. revision \in 0..MaxRevision /\ history = [seat \in Seats |-> history[seat]]
      BY DEF SeatLedger!Init, LedgerAssumption
    <2>2. ASSUME NEW seat \in Seats
          PROVE  /\ SeatLedger!Sequential(history[seat]) /\ Len(history[seat]) \in 1..(revision + 1)
                 /\ SeatLedger!Chained(seat, history[seat])
      <3> PICK c : history[seat] = <<SeatLedger!Genesis(c)>>
        BY <1>1
      <3>1. revision = 0
        BY DEF SeatLedger!Init
      <3>q. QED  BY <1>2, <1>3, <3>1 DEF SeatLedger!Chained
    <2>q. QED  BY <2>1, <2>2 DEF SeatLedger!Histories
  <1>5. SeatLedger!Evidenced /\ SeatLedger!Ready
    BY DEF SeatLedger!Init, SeatLedger!Evidenced, SeatLedger!Ready
  <1>q. QED  BY <1>4, <1>5 DEF SeatLedger!LedgerInv

LEMMA PrepareKeeps ==
    ASSUME SeatLedger!LedgerInv, NEW S \in SUBSET Seats,
           NEW changes \in [S -> Controllers \cup {None}],
           NEW authority \in SeatLedger!Authorities, NEW head \in BOOLEAN,
           SeatLedger!Prepare(changes, authority[1], authority[2], head)
    PROVE  SeatLedger!LedgerInv'
  <1> DEFINE evidence == [mode |-> authority[1], out |-> authority[2].out, in |-> authority[2].in]
  <1>1. /\ prepared' = [seat \in S |->
             SeatLedger!NextEpoch(history, seat, changes[seat], authority[1], evidence, revision + 1, head)]
        /\ UNCHANGED <<revision, history>> /\ S # {} /\ revision < MaxRevision
        /\ SeatLedger!Signed(changes, authority[1], authority[2])
    BY DEF SeatLedger!Prepare
  <1>2. evidence.mode = authority[1] /\ evidence.out = authority[2].out
        /\ evidence.in = authority[2].in
    OBVIOUS
  <1>3. authority[1] \in {"host-policy", "controller-handoff"}
    BY DEF SeatLedger!Authorities
  <1> HIDE DEF evidence
  <1>4. SeatLedger!Histories'
    BY <1>1 DEF SeatLedger!LedgerInv, SeatLedger!Histories, SeatLedger!Chained, SeatLedger!Warranted
  <1>5. SeatLedger!Evidenced'
    BY <1>1 DEF SeatLedger!LedgerInv, SeatLedger!Evidenced, SeatLedger!Made
  <1>6. SeatLedger!Ready'
    <2>1. DOMAIN prepared' = S
      BY <1>1
    <2>2. ASSUME NEW seat \in S
          PROVE  /\ prepared'[seat].epoch = Len(history[seat])
                 /\ prepared'[seat].since = revision + 1
                 /\ prepared'[seat].previous = SeatLedger!Last(history[seat])
                 /\ prepared'[seat].evidence = evidence
                 /\ SeatLedger!Warranted(seat, prepared'[seat])
      <3> DEFINE e == SeatLedger!NextEpoch(history, seat, changes[seat], authority[1], evidence, revision + 1, head)
      <3>1. prepared'[seat] = e
        BY <1>1
      <3>2. /\ e.epoch = SeatLedger!Last(history[seat]).epoch + 1 /\ e.since = revision + 1
            /\ e.previous = SeatLedger!Last(history[seat]) /\ e.evidence = evidence
            /\ e.mode = authority[1] /\ e.controller = changes[seat]
        BY DEF SeatLedger!NextEpoch
      <3> HIDE DEF e
      <3>3. seat \in Seats /\ DOMAIN changes = S
        OBVIOUS
      <3>4. SeatLedger!Sequential(history[seat]) /\ Len(history[seat]) >= 1
            /\ SeatLedger!Chained(seat, history[seat])
        BY <3>3 DEF SeatLedger!LedgerInv, SeatLedger!Histories
      <3>5. SeatLedger!Last(history[seat]).epoch + 1 = Len(history[seat])
        BY <3>4, Lengthens DEF SeatLedger!Chained, SeatLedger!Last
      <3>6. SeatLedger!Warranted(seat, e)
        BY <1>1, <1>2, <1>3, <3>2, <3>3 DEF SeatLedger!Signed, SeatLedger!Warranted
      <3>q. QED  BY <3>1, <3>2, <3>5, <3>6
    <2>q. QED  BY <1>1, <2>1, <2>2 DEF SeatLedger!Ready, SeatLedger!Warranted
  <1>q. QED  BY <1>4, <1>5, <1>6 DEF SeatLedger!LedgerInv

\* What a commit does to one seat.
Grown(seat) ==
    IF seat \in DOMAIN prepared THEN Append(history[seat], prepared[seat]) ELSE history[seat]
Longer(seat) == Len(history[seat]) + (IF seat \in DOMAIN prepared THEN 1 ELSE 0)

LEMMA CommitGrows ==
    ASSUME SeatLedger!LedgerInv, SeatLedger!Commit, NEW seat \in Seats
    PROVE  /\ SeatLedger!Sequential(history'[seat]) /\ SeatLedger!Sequential(history[seat])
           /\ Len(history'[seat]) = Longer(seat) /\ Len(history[seat]) \in Nat
           /\ DOMAIN history[seat] = 1..Len(history[seat])
           /\ \A k \in DOMAIN history[seat] :
                 k \in DOMAIN history'[seat] /\ history'[seat][k] = history[seat][k]
           /\ \A k \in DOMAIN history'[seat] \ DOMAIN history[seat] :
                 seat \in DOMAIN prepared /\ k = Len(history[seat]) + 1
           /\ seat \in DOMAIN prepared => /\ Len(history[seat]) + 1 \in DOMAIN history'[seat]
                                          /\ history'[seat][Len(history[seat]) + 1] = prepared[seat]
  <1>1. history'[seat] = Grown(seat)
    BY DEF SeatLedger!Commit, Grown
  <1>2. SeatLedger!Sequential(history[seat])
    BY DEF SeatLedger!LedgerInv, SeatLedger!Histories
  <1>3. CASE seat \in DOMAIN prepared
    BY <1>1, <1>2, <1>3, Lengthens DEF Grown, Longer
  <1>4. CASE seat \notin DOMAIN prepared
    BY <1>1, <1>2, <1>4, Lengthens DEF Grown, Longer
  <1>q. QED  BY <1>3, <1>4

LEMMA LedgerCommitKeeps == ASSUME LedgerAssumption, SeatLedger!LedgerInv,
                                  SeatLedger!Commit PROVE SeatLedger!LedgerInv'
  <1>1. /\ revision' = revision + 1 /\ prepared' = SeatLedger!NoTransition
        /\ prepared # SeatLedger!NoTransition
        /\ history' = [seat \in Seats |-> history'[seat]]
    BY DEF SeatLedger!Commit
  <1>2. revision \in Nat /\ revision < MaxRevision
    BY <1>1 DEF SeatLedger!LedgerInv, SeatLedger!Histories, SeatLedger!Ready, LedgerAssumption
  <1>3. SeatLedger!Histories'
    <2>1. revision' \in 0..MaxRevision
      BY <1>1, <1>2 DEF LedgerAssumption
    <2>2. ASSUME NEW seat \in Seats
          PROVE  /\ SeatLedger!Sequential(history'[seat])
                 /\ Len(history'[seat]) \in 1..(revision' + 1)
                 /\ SeatLedger!Chained(seat, history[seat])'
      <3>1. Len(history'[seat]) \in 1..(revision' + 1)
        BY <1>1, <1>2, CommitGrows DEF SeatLedger!LedgerInv, SeatLedger!Histories, Longer
      <3>2. ASSUME NEW k \in DOMAIN history'[seat]
            PROVE  /\ history'[seat][k].epoch = k - 1 /\ history'[seat][k].since \in 0..revision'
                   /\ k = 1 => history'[seat][k] = SeatLedger!Genesis(history'[seat][k].controller)
                   /\ k > 1 => /\ SeatLedger!Warranted(seat, history'[seat][k])
                               /\ history'[seat][k].previous = history'[seat][k - 1]
                               /\ history'[seat][k].since > history'[seat][k - 1].since
        <4>1. CASE k \in DOMAIN history[seat]
          <5>1. SeatLedger!Chained(seat, history[seat])
            BY DEF SeatLedger!LedgerInv, SeatLedger!Histories
          <5>2. history'[seat][k] = history[seat][k]
            BY <4>1, CommitGrows
          <5>3. k > 1 => k - 1 \in DOMAIN history[seat] /\ history'[seat][k - 1] = history[seat][k - 1]
            BY <4>1, CommitGrows
          <5>q. QED  BY <1>1, <1>2, <4>1, <5>1, <5>2, <5>3 DEF SeatLedger!Chained
        <4>2. CASE k \notin DOMAIN history[seat]
          <5>1. seat \in DOMAIN prepared /\ k = Len(history[seat]) + 1
            BY <4>2, CommitGrows
          <5>2. history'[seat][k] = prepared[seat]
            BY <5>1, CommitGrows
          <5>3. Len(history[seat]) >= 1
            BY DEF SeatLedger!LedgerInv, SeatLedger!Histories
          <5>4. k - 1 \in DOMAIN history[seat]
                /\ history'[seat][k - 1] = SeatLedger!Last(history[seat])
            BY <5>1, <5>3, CommitGrows DEF SeatLedger!Last
          <5>5. history'[seat][k - 1].since \in 0..revision
            BY <5>4, CommitGrows DEF SeatLedger!LedgerInv, SeatLedger!Histories, SeatLedger!Chained
          <5>6. /\ prepared[seat].epoch = Len(history[seat]) /\ prepared[seat].since = revision + 1
                /\ prepared[seat].previous = SeatLedger!Last(history[seat])
                /\ SeatLedger!Warranted(seat, prepared[seat])
            BY <1>1, <5>1 DEF SeatLedger!LedgerInv, SeatLedger!Ready
          <5>7. Len(history[seat]) \in Nat
            BY CommitGrows
          <5>q. QED  BY <1>1, <1>2, <5>1, <5>2, <5>3, <5>4, <5>5, <5>6, <5>7
        <4>q. QED  BY <4>1, <4>2
      <3>3. SeatLedger!Chained(seat, history[seat])'
        BY <3>2 DEF SeatLedger!Chained, SeatLedger!Warranted
      <3>q. QED  BY <3>1, <3>3, CommitGrows
    <2>q. QED  BY <1>1, <2>1, <2>2 DEF SeatLedger!Histories, SeatLedger!Sequential
  <1>4. SeatLedger!Evidenced'
    <2> SUFFICES ASSUME NEW r \in 1..revision'
                 PROVE  \E seat \in Seats : \E k \in DOMAIN history'[seat] :
                          /\ SeatLedger!Made(seat, k, r)'
                          /\ \A s \in Seats : \A j \in DOMAIN history'[s] :
                                SeatLedger!Made(s, j, r)' => history'[s][j].evidence = history'[seat][k].evidence
      BY DEF SeatLedger!Evidenced
    <2>1. ASSUME NEW s \in Seats, NEW j \in DOMAIN history'[s], SeatLedger!Made(s, j, r)'
          PROVE  \/ r # revision + 1 /\ j \in DOMAIN history[s] /\ SeatLedger!Made(s, j, r)
                    /\ history'[s][j] = history[s][j]
                 \/ r = revision + 1 /\ s \in DOMAIN prepared /\ history'[s][j] = prepared[s]
      <3>1. CASE j \in DOMAIN history[s]
        <4>1. history'[s][j] = history[s][j]
          BY <3>1, CommitGrows
        <4>2. history[s][j].since \in 0..revision
          BY <3>1 DEF SeatLedger!LedgerInv, SeatLedger!Histories, SeatLedger!Chained
        <4>q. QED  BY <1>2, <2>1, <3>1, <4>1, <4>2 DEF SeatLedger!Made
      <3>2. CASE j \notin DOMAIN history[s]
        <4>1. s \in DOMAIN prepared /\ j = Len(history[s]) + 1
          BY <3>2, CommitGrows
        <4>2. history'[s][j] = prepared[s] /\ prepared[s].since = revision + 1
          BY <1>1, <4>1, CommitGrows DEF SeatLedger!LedgerInv, SeatLedger!Ready
        <4>q. QED  BY <2>1, <4>1, <4>2 DEF SeatLedger!Made
      <3>q. QED  BY <3>1, <3>2
    <2>2. CASE r = revision + 1
      <3> PICK seat \in DOMAIN prepared : TRUE
        BY <1>1 DEF SeatLedger!LedgerInv, SeatLedger!Ready
      <3>1. seat \in Seats /\ prepared[seat].since = revision + 1
        BY <1>1 DEF SeatLedger!LedgerInv, SeatLedger!Ready
      <3> PICK k : k = Len(history[seat]) + 1
        OBVIOUS
      <3>2. k \in DOMAIN history'[seat] /\ history'[seat][k] = prepared[seat]
        BY <3>1, CommitGrows
      <3>3. SeatLedger!Made(seat, k, r)'
        BY <2>2, <3>1, <3>2 DEF SeatLedger!Made
      <3>4. ASSUME NEW s \in Seats, NEW j \in DOMAIN history'[s], SeatLedger!Made(s, j, r)'
            PROVE  history'[s][j].evidence = prepared[seat].evidence
        <4>1. s \in DOMAIN prepared /\ history'[s][j] = prepared[s]
          BY <2>1, <2>2, <3>4
        <4>q. QED  BY <1>1, <4>1 DEF SeatLedger!LedgerInv, SeatLedger!Ready
      <3>q. QED  BY <3>1, <3>2, <3>3, <3>4
    <2>3. CASE r # revision + 1
      <3>1. r \in 1..revision
        BY <1>1, <1>2, <2>3
      <3> PICK seat \in Seats : \E k \in DOMAIN history[seat] :
              /\ SeatLedger!Made(seat, k, r)
              /\ \A s \in Seats : \A j \in DOMAIN history[s] :
                    SeatLedger!Made(s, j, r) => history[s][j].evidence = history[seat][k].evidence
        BY <3>1 DEF SeatLedger!LedgerInv, SeatLedger!Evidenced
      <3> PICK k \in DOMAIN history[seat] :
              /\ SeatLedger!Made(seat, k, r)
              /\ \A s \in Seats : \A j \in DOMAIN history[s] :
                    SeatLedger!Made(s, j, r) => history[s][j].evidence = history[seat][k].evidence
        OBVIOUS
      <3>2. k \in DOMAIN history'[seat] /\ history'[seat][k] = history[seat][k]
        BY CommitGrows
      <3>3. SeatLedger!Made(seat, k, r)'
        BY <3>2 DEF SeatLedger!Made
      <3>4. ASSUME NEW s \in Seats, NEW j \in DOMAIN history'[s], SeatLedger!Made(s, j, r)'
            PROVE  history'[s][j].evidence = history[seat][k].evidence
        BY <2>1, <2>3, <3>4
      <3>q. QED  BY <3>2, <3>3, <3>4
    <2>q. QED  BY <2>2, <2>3
  <1>5. SeatLedger!Ready'
    BY <1>1 DEF SeatLedger!Ready
  <1>q. QED  BY <1>3, <1>4, <1>5 DEF SeatLedger!LedgerInv

LEMMA LedgerKept ==
    LedgerAssumption /\ SeatLedger!LedgerInv /\ [SeatLedger!Next]_(SeatLedger!vars)
        => SeatLedger!LedgerInv'
  <1> SUFFICES ASSUME LedgerAssumption, SeatLedger!LedgerInv,
                      [SeatLedger!Next]_(SeatLedger!vars) PROVE SeatLedger!LedgerInv'
    OBVIOUS
  <1>1. CASE SeatLedger!Abort
    <2>1. SeatLedger!Histories'
      BY <1>1 DEF SeatLedger!Abort, SeatLedger!LedgerInv, SeatLedger!Histories,
         SeatLedger!Chained, SeatLedger!Warranted
    <2>2. SeatLedger!Evidenced' /\ SeatLedger!Ready'
      BY <1>1 DEF SeatLedger!Abort, SeatLedger!LedgerInv, SeatLedger!Evidenced, SeatLedger!Made,
         SeatLedger!Ready
    <2>q. QED  BY <2>1, <2>2 DEF SeatLedger!LedgerInv
  <1>2. CASE UNCHANGED SeatLedger!vars
    <2>1. SeatLedger!Histories'
      BY <1>2 DEF SeatLedger!vars, SeatLedger!LedgerInv, SeatLedger!Histories,
         SeatLedger!Chained, SeatLedger!Warranted
    <2>2. SeatLedger!Evidenced'
      BY <1>2 DEF SeatLedger!vars, SeatLedger!LedgerInv, SeatLedger!Evidenced, SeatLedger!Made
    <2>3. SeatLedger!Ready'
      BY <1>2 DEF SeatLedger!vars, SeatLedger!LedgerInv, SeatLedger!Ready, SeatLedger!Warranted,
         SeatLedger!Last
    <2>q. QED  BY <2>1, <2>2, <2>3 DEF SeatLedger!LedgerInv
  <1>q. QED  BY <1>1, <1>2, PrepareKeeps, LedgerCommitKeeps DEF SeatLedger!Next

LEMMA LedgerTyped == LedgerAssumption /\ SeatLedger!LedgerInv => SeatLedger!TypeOK
  <1> SUFFICES ASSUME SeatLedger!LedgerInv PROVE SeatLedger!TypeOK
    OBVIOUS
  <1>1. DOMAIN prepared \subseteq Seats
    BY DEF SeatLedger!LedgerInv, SeatLedger!Ready, SeatLedger!NoTransition
  <1>q. QED  BY <1>1 DEF SeatLedger!LedgerInv, SeatLedger!Histories, SeatLedger!TypeOK

\* What the ledger is at hand is a checkpoint that can be read back.
LEMMA LedgerRestores == LedgerAssumption /\ SeatLedger!LedgerInv => SeatLedger!CheckpointRestores
  <1> SUFFICES ASSUME LedgerAssumption, SeatLedger!LedgerInv,
                      SeatLedger!NamesHeads(SeatLedger!Ledger) PROVE SeatLedger!Accepts(SeatLedger!Ledger)
    BY DEF SeatLedger!CheckpointRestores
  <1>1. SeatLedger!Ledger.history = history /\ SeatLedger!Ledger.revision = revision
        /\ SeatLedger!Ledger.prepared = prepared
    BY DEF SeatLedger!Ledger
  <1>2. /\ \A seat \in Seats : \A k \in DOMAIN history[seat] :
              history[seat][k].mode = "controller-handoff" => history[seat][k].head
        /\ \A seat \in DOMAIN prepared :
              prepared[seat].mode = "controller-handoff" => prepared[seat].head
    BY <1>1 DEF SeatLedger!NamesHeads
  <1>3. revision \in Nat
    BY DEF SeatLedger!LedgerInv, SeatLedger!Histories, LedgerAssumption
  <1>4. SeatLedger!AcceptsHistory(SeatLedger!Ledger)
    <2>1. ASSUME NEW seat \in Seats, NEW k \in DOMAIN history[seat]
          PROVE  /\ history[seat][k].epoch = k - 1
                 /\ IF k = 1
                    THEN history[seat][k] = SeatLedger!Genesis(history[seat][k].controller)
                    ELSE /\ SeatLedger!Authorized(seat, history[seat][k])
                         /\ history[seat][k].since > history[seat][k - 1].since
                         /\ history[seat][k].previous = history[seat][k - 1]
                 /\ history[seat][k].since <= revision
      <3>1. SeatLedger!Chained(seat, history[seat]) /\ SeatLedger!Sequential(history[seat])
        BY DEF SeatLedger!LedgerInv, SeatLedger!Histories
      <3>2. k \in Nat /\ k >= 1
        BY <3>1, Lengthens
      <3>3. history[seat][k].since <= revision
        BY <1>3, <3>1 DEF SeatLedger!Chained
      <3>q. QED
        BY <1>2, <3>1, <3>2, <3>3 DEF SeatLedger!Chained, SeatLedger!Warranted,
           SeatLedger!Authorized
    <2>2. ASSUME NEW r \in 1..revision
          PROVE  SeatLedger!Cardinality({history[x[1]][x[2]].evidence : x \in
                    {x \in Seats \X (1..(revision + 1)) :
                       x[2] \in DOMAIN history[x[1]] /\ history[x[1]][x[2]].since = r}}) = 1
      <3> PICK seat \in Seats : \E k \in DOMAIN history[seat] :
              /\ SeatLedger!Made(seat, k, r)
              /\ \A s \in Seats : \A j \in DOMAIN history[s] :
                    SeatLedger!Made(s, j, r) => history[s][j].evidence = history[seat][k].evidence
        BY DEF SeatLedger!LedgerInv, SeatLedger!Evidenced
      <3> PICK k \in DOMAIN history[seat] :
              /\ SeatLedger!Made(seat, k, r)
              /\ \A s \in Seats : \A j \in DOMAIN history[s] :
                    SeatLedger!Made(s, j, r) => history[s][j].evidence = history[seat][k].evidence
        OBVIOUS
      <3> DEFINE made == {x \in Seats \X (1..(revision + 1)) :
                            x[2] \in DOMAIN history[x[1]] /\ history[x[1]][x[2]].since = r}
      <3>1. k \in 1..(revision + 1)
        <4>1. SeatLedger!Sequential(history[seat]) /\ Len(history[seat]) <= revision + 1
          BY <1>3 DEF SeatLedger!LedgerInv, SeatLedger!Histories
        <4>q. QED  BY <1>3, <4>1, Lengthens
      <3>2. <<seat, k>> \in made
        BY <3>1 DEF SeatLedger!Made
      <3>3. \A x \in made : history[x[1]][x[2]].evidence = history[seat][k].evidence
        BY DEF SeatLedger!Made
      <3>4. {history[x[1]][x[2]].evidence : x \in made} = {history[seat][k].evidence}
        BY <3>2, <3>3
      <3>q. QED  BY <3>4, FS_Singleton, SeatsCounted
    <2>q. QED  BY <1>1, <2>1, <2>2 DEF SeatLedger!AcceptsHistory
  <1>5. SeatLedger!AcceptsPrepared(SeatLedger!Ledger)
    <2>1. CASE prepared = SeatLedger!NoTransition
      <3>1. DOMAIN prepared = {}
        BY <2>1 DEF SeatLedger!NoTransition
      <3>2. {prepared[seat].evidence : seat \in DOMAIN prepared} = {}
        BY <3>1
      <3>3. SeatLedger!Cardinality({prepared[seat].evidence : seat \in DOMAIN prepared}) <= 1
        BY <3>2, FS_EmptySet, SeatsCounted
      <3>q. QED  BY <1>1, <3>1, <3>3 DEF SeatLedger!AcceptsPrepared
    <2>2. CASE prepared # SeatLedger!NoTransition
      <3>1. ASSUME NEW seat \in DOMAIN prepared
            PROVE  /\ prepared[seat].epoch = SeatLedger!Last(history[seat]).epoch + 1
                   /\ prepared[seat].since = revision + 1
                   /\ prepared[seat].previous = SeatLedger!Last(history[seat])
                   /\ SeatLedger!Authorized(seat, prepared[seat])
        <4>1. seat \in Seats /\ SeatLedger!Warranted(seat, prepared[seat])
              /\ prepared[seat].epoch = Len(history[seat])
          BY <2>2 DEF SeatLedger!LedgerInv, SeatLedger!Ready
        <4>2. /\ SeatLedger!Sequential(history[seat]) /\ Len(history[seat]) >= 1
              /\ SeatLedger!Chained(seat, history[seat])
          BY <1>3, <4>1 DEF SeatLedger!LedgerInv, SeatLedger!Histories
        <4>3. SeatLedger!Last(history[seat]).epoch + 1 = Len(history[seat])
          BY <4>2, Lengthens DEF SeatLedger!Chained, SeatLedger!Last
        <4>q. QED
          BY <1>2, <2>2, <4>1, <4>3 DEF SeatLedger!LedgerInv, SeatLedger!Ready,
             SeatLedger!Warranted, SeatLedger!Authorized
      <3> PICK seat \in DOMAIN prepared : TRUE
        BY <2>2 DEF SeatLedger!LedgerInv, SeatLedger!Ready
      <3>2. \A s \in DOMAIN prepared : prepared[s].evidence = prepared[seat].evidence
        BY <2>2 DEF SeatLedger!LedgerInv, SeatLedger!Ready
      <3>3. {prepared[s].evidence : s \in DOMAIN prepared} = {prepared[seat].evidence}
        BY <3>2
      <3>4. SeatLedger!Cardinality({prepared[s].evidence : s \in DOMAIN prepared}) = 1
        BY <3>3, FS_Singleton, SeatsCounted
      <3>q. QED  BY <1>1, <3>1, <3>4 DEF SeatLedger!AcceptsPrepared
    <2>q. QED  BY <2>1, <2>2
  <1>q. QED  BY <1>4, <1>5 DEF SeatLedger!Accepts

LEMMA CommitKeepsAuthority ==
    ASSUME SeatLedger!LedgerInv, SeatLedger!Commit, NEW seat \in Seats, NEW r \in 0..revision,
           revision \in Nat
    PROVE  SeatLedger!EpochAt(history', seat, r) = SeatLedger!EpochAt(history, seat, r)
  <1> DEFINE P(h, k) == k \in DOMAIN h /\ h[k].since <= r /\ \A j \in DOMAIN h : h[j].since <= r => j <= k
             h == history[seat]
             g == history'[seat]
  <1>1. \A k \in DOMAIN g : k \in DOMAIN h \/ ~(g[k].since <= r)
    <2> SUFFICES ASSUME NEW k \in DOMAIN g, k \notin DOMAIN h PROVE ~(g[k].since <= r)
      OBVIOUS
    <2>1. seat \in DOMAIN prepared /\ k = Len(history[seat]) + 1
      BY CommitGrows
    <2>2. g[k] = prepared[seat] /\ prepared[seat].since = revision + 1
      BY <2>1, CommitGrows DEF SeatLedger!LedgerInv, SeatLedger!Ready, SeatLedger!Commit
    <2>q. QED  BY <2>2
  <1>2. DOMAIN h \subseteq DOMAIN g /\ \A k \in DOMAIN h : g[k] = h[k]
    BY CommitGrows
  <1>3. \A k : P(g, k) <=> P(h, k)
    <2> HIDE DEF g, h
    <2>q. QED  BY <1>1, <1>2
  <1>4. (CHOOSE k : P(g, k)) = (CHOOSE k : P(h, k))
    BY <1>3
  <1>5. SeatLedger!EpochAt(history', seat, r) = g[CHOOSE k : P(g, k)]
    BY DEF SeatLedger!EpochAt
  <1>6. SeatLedger!EpochAt(history, seat, r) = h[CHOOSE k : P(h, k)]
    BY DEF SeatLedger!EpochAt
  <1>7. (CHOOSE k : P(h, k)) \in DOMAIN h
    <2>1. /\ DOMAIN h = 1..Len(h) /\ Len(h) \in Nat
      BY CommitGrows
    <2>2. Len(h) >= 1 /\ h[1].since = 0
      BY <2>1 DEF SeatLedger!LedgerInv, SeatLedger!Histories, SeatLedger!Chained, SeatLedger!Genesis
    <2> HIDE DEF h
    <2> DEFINE T == {k \in DOMAIN h : h[k].since <= r}
    <2>3. T \in SUBSET (1..Len(h)) /\ 1 \in T
      BY <2>1, <2>2
    <2> HIDE DEF T
    <2> PICK k \in T : \A j \in T : j <= k
      BY <2>1, <2>3, HasHighest
    <2>4. k \in DOMAIN h /\ h[k].since <= r /\ \A j \in DOMAIN h : h[j].since <= r => j <= k
      BY DEF T
    <2>5. P(h, k)
      BY <2>4
    <2>q. QED  BY <2>5
  <1>q. QED  BY <1>2, <1>4, <1>5, <1>6, <1>7

LEMMA AuthorityKept ==
    LedgerAssumption /\ SeatLedger!LedgerInv /\ [SeatLedger!Next]_(SeatLedger!vars)
        => SeatLedger!KeepsAuthority
  <1> SUFFICES ASSUME LedgerAssumption, SeatLedger!LedgerInv,
                      [SeatLedger!Next]_(SeatLedger!vars) PROVE SeatLedger!KeepsAuthority
    OBVIOUS
  <1>1. revision \in Nat
    BY DEF SeatLedger!LedgerInv, SeatLedger!Histories, LedgerAssumption
  <1>2. CASE SeatLedger!Commit
    BY <1>1, <1>2, CommitKeepsAuthority DEF SeatLedger!KeepsAuthority
  <1>3. CASE history' = history
    BY <1>3 DEF SeatLedger!KeepsAuthority
  <1>q. QED
    BY <1>2, <1>3 DEF SeatLedger!Next, SeatLedger!Prepare, SeatLedger!Abort, SeatLedger!vars

-----------------------------------------------------------------------------
(***************************************************************************)
(* Control sources: the registration that a request in force was made to   *)
(* is the one in control of its subject.                                   *)
(***************************************************************************)

\* AbortOf marks requests and changes nothing else.
LEMMA AbortOfRequests ==
    ASSUME Registrar!Shape, NEW A
    PROVE  /\ Registrar!AbortOf(A) \subseteq Registrar!Request
           /\ \A q \in Registrar!AbortOf(A) : \E r \in asked :
                 /\ q.subject = r.subject /\ q.id = r.id /\ q.binding = r.binding
                 /\ q.registration = r.registration
                 /\ ~q.aborted => ~r.aborted /\ r.binding \notin A
  <1>1. ASSUME NEW q \in Registrar!AbortOf(A)
        PROVE  /\ q \in Registrar!Request
               /\ \E r \in asked :
                     /\ q.subject = r.subject /\ q.id = r.id /\ q.binding = r.binding
                     /\ q.registration = r.registration
                     /\ ~q.aborted => ~r.aborted /\ r.binding \notin A
    <2>1. PICK r \in asked : q = [r EXCEPT !.aborted = r.aborted \/ r.binding \in A]
      BY <1>1 DEF Registrar!AbortOf
    <2>2. r \in Registrar!Request
      BY DEF Registrar!Shape
    <2>3. /\ q.subject = r.subject /\ q.id = r.id /\ q.binding = r.binding
          /\ q.registration = r.registration
          /\ q.aborted = (r.aborted \/ r.binding \in A)
      BY <2>1, <2>2 DEF Registrar!Request
    <2>4. q \in Registrar!Request
      BY <2>1, <2>2 DEF Registrar!Request
    <2>5. QED BY <2>3, <2>4
  <1>2. QED BY <1>1

LEMMA SourcesBegin == Registrar!Init => Registrar!SourcesInv
  BY DEF Registrar!Init, Registrar!SourcesInv, Registrar!Shape, Registrar!Ordered,
     Registrar!Controlled, Registrar!NoStaleDecision

\* A new source under an id aborts what its predecessor was asked.
LEMMA SourceRegisterKeeps ==
    ASSUME None \notin Nat, Registrar!SourcesInv, NEW id \in Sources, Registrar!Register(id)
    PROVE  Registrar!SourcesInv'
  <1> DEFINE A == {binding[x].serial : x \in {y \in Registrar!BoundTo(id) : source[id] # None}}
  <1> USE DEF Registrar!SourcesInv
  <1>1. /\ asked' = Registrar!AbortOf(A) /\ serial' = serial + 1 /\ binding' = binding
        /\ crossed' = crossed /\ source' = [source EXCEPT ![id] = serial]
    BY DEF Registrar!Register, Registrar!Fresh
  <1>2. Registrar!Shape'
    BY <1>1, AbortOfRequests DEF Registrar!Shape
  <1>3. Registrar!Ordered'
    <2>1. \A i \in Sources : source'[i] # None => source'[i] < serial'
      BY <1>1 DEF Registrar!Shape, Registrar!Ordered
    <2>2. \A x \in Subjects : binding'[x] # None =>
              binding'[x].serial < serial' /\ source'[binding'[x].id] # None
      BY <1>1 DEF Registrar!Shape, Registrar!Ordered, Registrar!Binding
    <2>3. \A q \in asked' : q.binding < serial' /\ q.registration < serial'
      BY <1>1, AbortOfRequests DEF Registrar!Shape, Registrar!Ordered, Registrar!Request
    <2>4. QED BY <2>1, <2>2, <2>3 DEF Registrar!Ordered
  <1>4. Registrar!Controlled'
    <2> SUFFICES ASSUME NEW q \in asked', Registrar!Current(q)'
                 PROVE  source'[binding'[q.subject].id] = q.registration
      BY DEF Registrar!Controlled
    <2>1. PICK r \in asked :
              /\ q.subject = r.subject /\ q.id = r.id /\ q.binding = r.binding
              /\ q.registration = r.registration
              /\ ~q.aborted => ~r.aborted /\ r.binding \notin A
      BY <1>1, AbortOfRequests
    <2>2. /\ ~r.aborted /\ r.binding \notin A /\ binding[r.subject] # None
          /\ binding[r.subject].serial = r.binding /\ r.subject \in Subjects
      BY <1>1, <2>1 DEF Registrar!Current, Registrar!Shape, Registrar!Request
    <2>3. source[binding[r.subject].id] = r.registration
      BY <2>2 DEF Registrar!Controlled, Registrar!Current
    <2>4. binding[r.subject].id # id
      BY <2>2 DEF Registrar!BoundTo, Registrar!Unbound, Registrar!Ordered
    <2>5. QED BY <1>1, <2>1, <2>2, <2>3, <2>4 DEF Registrar!Shape, Registrar!Binding
  <1>5. Registrar!NoStaleDecision'
    BY <1>1 DEF Registrar!NoStaleDecision
  <1>6. QED BY <1>2, <1>3, <1>4, <1>5

LEMMA UnregisterKeeps ==
    ASSUME None \notin Nat, Registrar!SourcesInv, NEW id \in Sources, Registrar!Unregister(id)
    PROVE  Registrar!SourcesInv'
  <1> DEFINE A == {binding[x].serial : x \in Registrar!BoundTo(id)}
  <1> USE DEF Registrar!SourcesInv
  <1>1. /\ asked' = Registrar!AbortOf(A) /\ serial' = serial /\ crossed' = crossed
        /\ source' = [source EXCEPT ![id] = None]
        /\ binding' = [x \in Subjects |-> IF x \in Registrar!BoundTo(id) THEN None ELSE binding[x]]
    BY DEF Registrar!Unregister
  <1>2. \A x \in Subjects : binding'[x] # None => binding'[x] = binding[x] /\ binding[x].id # id
    BY <1>1 DEF Registrar!BoundTo, Registrar!Unbound
  <1>3. Registrar!Shape'
    BY <1>1, AbortOfRequests DEF Registrar!Shape
  <1>4. Registrar!Ordered'
    <2>1. \A i \in Sources : source'[i] # None => source'[i] < serial'
      BY <1>1 DEF Registrar!Shape, Registrar!Ordered
    <2>2. \A x \in Subjects : binding'[x] # None =>
              binding'[x].serial < serial' /\ source'[binding'[x].id] # None
      BY <1>1, <1>2 DEF Registrar!Shape, Registrar!Ordered, Registrar!Binding
    <2>3. \A q \in asked' : q.binding < serial' /\ q.registration < serial'
      BY <1>1, AbortOfRequests DEF Registrar!Shape, Registrar!Ordered, Registrar!Request
    <2>4. QED BY <2>1, <2>2, <2>3 DEF Registrar!Ordered
  <1>5. Registrar!Controlled'
    <2> SUFFICES ASSUME NEW q \in asked', Registrar!Current(q)'
                 PROVE  source'[binding'[q.subject].id] = q.registration
      BY DEF Registrar!Controlled
    <2>1. PICK r \in asked :
              /\ q.subject = r.subject /\ q.id = r.id /\ q.binding = r.binding
              /\ q.registration = r.registration
              /\ ~q.aborted => ~r.aborted /\ r.binding \notin A
      BY <1>1, AbortOfRequests
    <2>2. /\ ~r.aborted /\ binding'[r.subject] # None
          /\ binding'[r.subject].serial = r.binding /\ r.subject \in Subjects
      BY <2>1 DEF Registrar!Current, Registrar!Shape, Registrar!Request
    <2>3. source[binding[r.subject].id] = r.registration
      BY <1>2, <2>2 DEF Registrar!Controlled, Registrar!Current
    <2>4. QED BY <1>1, <1>2, <2>1, <2>2, <2>3 DEF Registrar!Shape, Registrar!Binding
  <1>6. Registrar!NoStaleDecision'
    BY <1>1 DEF Registrar!NoStaleDecision
  <1>7. QED BY <1>3, <1>4, <1>5, <1>6

\* A binding made now has a serial no earlier request carries.
LEMMA BindKeeps ==
    ASSUME None \notin Nat, Registrar!SourcesInv, NEW x \in Subjects, NEW id \in Sources,
           Registrar!Bind(x, id)
    PROVE  Registrar!SourcesInv'
  <1> DEFINE A == {binding[y].serial : y \in {x} \ Registrar!Unbound}
  <1> USE DEF Registrar!SourcesInv
  <1>1. /\ asked' = Registrar!AbortOf(A) /\ serial' = serial + 1 /\ crossed' = crossed
        /\ source' = source /\ source[id] # None
        /\ binding' = [binding EXCEPT ![x] = [id |-> id, serial |-> serial]]
    BY DEF Registrar!Bind, Registrar!Fresh
  <1>2. Registrar!Shape'
    BY <1>1, AbortOfRequests DEF Registrar!Shape, Registrar!Binding
  <1>3. Registrar!Ordered'
    <2>1. \A i \in Sources : source'[i] # None => source'[i] < serial'
      BY <1>1 DEF Registrar!Shape, Registrar!Ordered
    <2>2. \A y \in Subjects : binding'[y] # None =>
              binding'[y].serial < serial' /\ source'[binding'[y].id] # None
      BY <1>1 DEF Registrar!Shape, Registrar!Ordered, Registrar!Binding
    <2>3. \A q \in asked' : q.binding < serial' /\ q.registration < serial'
      BY <1>1, AbortOfRequests DEF Registrar!Shape, Registrar!Ordered, Registrar!Request
    <2>4. QED BY <2>1, <2>2, <2>3 DEF Registrar!Ordered
  <1>4. Registrar!Controlled'
    <2> SUFFICES ASSUME NEW q \in asked', Registrar!Current(q)'
                 PROVE  source'[binding'[q.subject].id] = q.registration
      BY DEF Registrar!Controlled
    <2>1. PICK r \in asked :
              /\ q.subject = r.subject /\ q.id = r.id /\ q.binding = r.binding
              /\ q.registration = r.registration
              /\ ~q.aborted => ~r.aborted /\ r.binding \notin A
      BY <1>1, AbortOfRequests
    <2>2. /\ ~r.aborted /\ binding'[r.subject] # None
          /\ binding'[r.subject].serial = r.binding /\ r.subject \in Subjects
          /\ r.binding \in Nat /\ r.binding < serial
      BY <2>1 DEF Registrar!Current, Registrar!Shape, Registrar!Request, Registrar!Ordered
    <2>3. r.subject # x
      BY <1>1, <2>2 DEF Registrar!Shape
    <2>4. source[binding[r.subject].id] = r.registration
      BY <1>1, <2>2, <2>3 DEF Registrar!Controlled, Registrar!Current, Registrar!Shape
    <2>5. QED BY <1>1, <2>1, <2>2, <2>3, <2>4 DEF Registrar!Shape
  <1>5. Registrar!NoStaleDecision'
    BY <1>1 DEF Registrar!NoStaleDecision
  <1>6. QED BY <1>2, <1>3, <1>4, <1>5

LEMMA UnbindKeeps ==
    ASSUME Registrar!SourcesInv, NEW x \in Subjects, Registrar!Unbind(x)
    PROVE  Registrar!SourcesInv'
  <1> USE DEF Registrar!SourcesInv
  <1>1. /\ asked' = Registrar!AbortOf({binding[x].serial}) /\ serial' = serial
        /\ crossed' = crossed
        /\ source' = source /\ binding' = [binding EXCEPT ![x] = None]
    BY DEF Registrar!Unbind
  <1>2. Registrar!Shape'
    BY <1>1, AbortOfRequests DEF Registrar!Shape
  <1>3. \A y \in Subjects : binding'[y] # None => binding'[y] = binding[y]
    BY <1>1 DEF Registrar!Shape
  <1>4. Registrar!Ordered'
    <2>1. \A q \in asked' : q.binding < serial' /\ q.registration < serial'
      BY <1>1, AbortOfRequests DEF Registrar!Ordered
    <2>2. QED BY <1>1, <1>3, <2>1 DEF Registrar!Ordered
  <1>5. Registrar!Controlled'
    <2> SUFFICES ASSUME NEW q \in asked', Registrar!Current(q)'
                 PROVE  source'[binding'[q.subject].id] = q.registration
      BY DEF Registrar!Controlled
    <2>1. PICK r \in asked :
              /\ q.subject = r.subject /\ q.id = r.id /\ q.binding = r.binding
              /\ q.registration = r.registration
              /\ ~q.aborted => ~r.aborted
      BY <1>1, AbortOfRequests
    <2>2. /\ ~r.aborted /\ binding'[r.subject] # None
          /\ binding'[r.subject].serial = r.binding /\ r.subject \in Subjects
      BY <2>1 DEF Registrar!Current, Registrar!Shape, Registrar!Request
    <2>3. QED BY <1>1, <1>3, <2>1, <2>2 DEF Registrar!Controlled, Registrar!Current
  <1>6. Registrar!NoStaleDecision'
    BY <1>1 DEF Registrar!NoStaleDecision
  <1>7. QED BY <1>2, <1>4, <1>5, <1>6

LEMMA AskKeeps ==
    ASSUME None \notin Nat, Registrar!SourcesInv, NEW x \in Subjects, Registrar!Ask(x)
    PROVE  Registrar!SourcesInv'
  <1> USE DEF Registrar!SourcesInv
  <1> DEFINE q == [subject |-> x, id |-> binding[x].id, binding |-> binding[x].serial,
                   registration |-> source[binding[x].id], aborted |-> FALSE]
  <1>1. /\ asked' = asked \cup {q} /\ binding[x] # None /\ source[binding[x].id] # None
        /\ UNCHANGED <<source, binding, crossed, serial>>
    BY DEF Registrar!Ask
  <1>2. q \in Registrar!Request /\ q.binding < serial /\ q.registration < serial
    BY <1>1 DEF Registrar!Shape, Registrar!Ordered, Registrar!Request, Registrar!Binding
  <1>3. Registrar!Shape' /\ Registrar!Ordered'
    BY <1>1, <1>2 DEF Registrar!Shape, Registrar!Ordered
  <1>4. Registrar!Controlled'
    <2>1. source[binding[q.subject].id] = q.registration
      OBVIOUS
    <2>2. ASSUME NEW r \in asked, Registrar!Current(r)'
          PROVE  source'[binding'[r.subject].id] = r.registration
      BY <1>1, <2>2 DEF Registrar!Controlled, Registrar!Current
    <2>3. QED BY <1>1, <2>1, <2>2 DEF Registrar!Controlled
  <1>5. QED BY <1>1, <1>3, <1>4 DEF Registrar!NoStaleDecision

LEMMA RequestAbortKeeps ==
    ASSUME Registrar!SourcesInv, NEW r \in asked, Registrar!AbortRequest(r)
    PROVE  Registrar!SourcesInv'
  <1> USE DEF Registrar!SourcesInv
  <1> DEFINE q == [r EXCEPT !.aborted = TRUE]
  <1>1. asked' = (asked \ {r}) \cup {q} /\ UNCHANGED <<source, binding, crossed, serial>>
    BY DEF Registrar!AbortRequest
  <1>2. /\ q \in Registrar!Request /\ q.aborted /\ q.binding = r.binding
        /\ q.registration = r.registration
    BY DEF Registrar!Shape, Registrar!Request
  <1>3. Registrar!Shape' /\ Registrar!Ordered'
    BY <1>1, <1>2 DEF Registrar!Shape, Registrar!Ordered
  <1>4. Registrar!Controlled'
    BY <1>1, <1>2 DEF Registrar!Controlled, Registrar!Current
  <1>5. QED BY <1>1, <1>3, <1>4 DEF Registrar!NoStaleDecision

\* Only here does something cross, and what crosses is current.
LEMMA ReturnKeeps ==
    ASSUME Registrar!SourcesInv, NEW r \in asked, Registrar!Return(r)
    PROVE  Registrar!SourcesInv'
  <1> USE DEF Registrar!SourcesInv
  <1>1. asked' = asked \ {r} /\ UNCHANGED <<source, binding, serial>>
    BY DEF Registrar!Return
  <1>2. Registrar!Shape' /\ Registrar!Ordered'
    BY <1>1 DEF Registrar!Shape, Registrar!Ordered
  <1>3. Registrar!Controlled'
    BY <1>1 DEF Registrar!Controlled, Registrar!Current
  <1>4. Registrar!NoStaleDecision'
    <2>1. CASE ~Registrar!Current(r)
      BY <2>1 DEF Registrar!Return, Registrar!NoStaleDecision
    <2>2. CASE Registrar!Current(r)
      <3> DEFINE d == [subject |-> r.subject, registration |-> r.registration,
                       now |-> IF binding[r.subject] = None THEN None
                               ELSE source[binding[r.subject].id]]
      <3>1. crossed' = crossed \cup {d}
        BY <2>2 DEF Registrar!Return
      <3>2. d.registration = d.now
        BY <2>2 DEF Registrar!Controlled, Registrar!Current
      <3>3. QED BY <3>1, <3>2 DEF Registrar!NoStaleDecision
    <2>3. QED BY <2>1, <2>2
  <1>5. QED BY <1>2, <1>3, <1>4

LEMMA SourcesKept ==
    ASSUME None \notin Nat
    PROVE  Registrar!SourcesInv /\ [Registrar!Next]_(Registrar!vars) => Registrar!SourcesInv'
  <1> SUFFICES ASSUME Registrar!SourcesInv, [Registrar!Next]_(Registrar!vars)
               PROVE  Registrar!SourcesInv'
    OBVIOUS
  <1>1. CASE \E id \in Sources : Registrar!Register(id) \/ Registrar!Unregister(id)
    BY <1>1, SourceRegisterKeeps, UnregisterKeeps
  <1>2. CASE \E x \in Subjects, id \in Sources : Registrar!Bind(x, id)
    BY <1>2, BindKeeps
  <1>3. CASE \E x \in Subjects : Registrar!Unbind(x) \/ Registrar!Ask(x)
    BY <1>3, UnbindKeeps, AskKeeps
  <1>4. CASE \E r \in asked : Registrar!AbortRequest(r) \/ Registrar!Return(r)
    BY <1>4, RequestAbortKeeps, ReturnKeeps
  <1>5. CASE UNCHANGED Registrar!vars
    BY <1>5 DEF Registrar!vars, Registrar!SourcesInv, Registrar!Shape, Registrar!Ordered,
       Registrar!Controlled, Registrar!Current, Registrar!NoStaleDecision
  <1>6. QED BY <1>1, <1>2, <1>3, <1>4, <1>5 DEF Registrar!Next

-----------------------------------------------------------------------------
(***************************************************************************)
(* Cues: what is on the wire, being received or acknowledged was issued;   *)
(* what was applied is what the player knows, in order.                    *)
(***************************************************************************)

LEMMA Below == ASSUME NEW a \in Int, NEW b \in Int, NEW c \in Int, a <= b, c > b PROVE a < c
  OBVIOUS

LEMMA SeqWider ==
    ASSUME NEW S, NEW T, S \subseteq T, NEW s \in Seq(S)
    PROVE  s \in Seq(T)
  OBVIOUS

CueEntry == [cue : Cues!Issued, receipt : Nat]
CueReceipt == [cue : Cues!Issued, receipt : Nat, at : {"interrupt", "apply"}]

LEMMA CuesBegin == CueAssumption /\ Cues!Init => Cues!CueInv
  <1> SUFFICES ASSUME CueAssumption, Cues!Init PROVE Cues!CueInv
    OBVIOUS
  <1>1. Cues!Lane
    BY DEF CueAssumption, Cues!Init, Cues!Lane, Cues!Issued, Cues!Cue
  <1>2. Cues!Receipts /\ Cues!Alone
    BY DEF Cues!Init, Cues!Receipts, Cues!Alone
  <1>3. Cues!HandedOver /\ Cues!CuesOnce /\ Cues!InTurn
    BY DEF Cues!Init, Cues!HandedOver, Cues!CuesOnce, Cues!InTurn, Cues!Elements
  <1>4. Cues!Honest
    BY DEF Cues!Init, Cues!Honest, CueAssumption, Cues!Settled, Cues!Statuses
  <1>q. QED  BY <1>1, <1>2, <1>3, <1>4 DEF Cues!CueInv

\* A cue is transmitted: it has one receipt more to come than were begun.
LEMMA ReceiptsCarried ==
    ASSUME CueAssumption, Cues!Lane, Cues!Receipts, receiving' = receiving,
           sends' \in [Cues!Cue -> Nat],
           \A c \in Cues!Issued : sends'[c] >= sends[c]
                                  /\ (c \in wire' => c \in wire \/ sends'[c] > sends[c])
    PROVE  Cues!Receipts'
  <1>1. receiving \subseteq CueReceipt /\ sends \in [Cues!Cue -> Nat]
    BY DEF Cues!Lane, CueReceipt
  <1>2. Cues!Issued \subseteq Cues!Cue
    BY DEF Cues!Lane, Cues!Issued, Cues!Cue, CueAssumption
  <1>3. ASSUME NEW r \in receiving
        PROVE  r.receipt <= sends'[r.cue] /\ (r.cue \in wire' => r.receipt < sends'[r.cue])
    <2>1. r.cue \in Cues!Issued /\ r.receipt \in Nat
      BY <1>1 DEF CueReceipt
    <2>2. sends[r.cue] \in Nat /\ sends'[r.cue] \in Nat
      BY <1>1, <1>2, <2>1
    <2>3. r.receipt <= sends[r.cue] /\ (r.cue \in wire => r.receipt < sends[r.cue])
      BY DEF Cues!Receipts
    <2>q. QED  BY <2>1, <2>2, <2>3
  <1>q. QED  BY <1>3 DEF Cues!Receipts, Cues!Entry

\* What only the client changes.
LEMMA ClientCarried ==
    ASSUME Cues!CueInv, UNCHANGED Cues!client
    PROVE  Cues!Alone' /\ Cues!HandedOver' /\ Cues!CuesOnce' /\ Cues!InTurn'
  <1>1. UNCHANGED <<status, last, known, receiving, applied, overlapped>>
    BY DEF Cues!client
  <1>q. QED
    BY <1>1 DEF Cues!CueInv, Cues!Alone, Cues!HandedOver, Cues!CuesOnce, Cues!InTurn,
       Cues!Elements, Cues!Entry

LEMMA IssueKeeps == ASSUME CueAssumption, Cues!CueInv, Cues!Issue PROVE Cues!CueInv'
  <1> DEFINE log == Append(retained, next)
  <1>1. /\ next <= MaxCues /\ next' = next + 1
        /\ retained' = IF Len(log) > MaxRetained THEN Tail(log) ELSE log
        /\ acked' = [c \in Cues!Cue |-> IF \E k \in DOMAIN retained' : retained'[k] = c THEN acked[c] ELSE None]
        /\ Cues!Send({next}) /\ UNCHANGED <<Cues!client, replies>>
    BY DEF Cues!Issue
  <1>2. Cues!Lane
    BY DEF Cues!CueInv
  <1>3. next \in Nat /\ next >= 1 /\ next \in Cues!Cue /\ next \notin Cues!Issued
        /\ Cues!Issued' = 1..next /\ Cues!Issued \subseteq Cues!Issued'
    BY <1>1, <1>2 DEF Cues!Lane, Cues!Issued, Cues!Cue, CueAssumption
  <1>4. retained \in Seq(Cues!Issued')
    <2>1. retained \in Seq(Cues!Issued)
      BY <1>2 DEF Cues!Lane
    <2>q. QED  BY <1>3, <2>1, SeqWider
  <1>5. log \in Seq(Cues!Issued') /\ Len(log) = Len(retained) + 1
    BY <1>3, <1>4
  <1> HIDE DEF log
  <1>6. retained' \in Seq(Cues!Issued') /\ Len(retained') <= MaxRetained
    BY <1>1, <1>2, <1>5 DEF Cues!Lane, CueAssumption
  <1>7. \A c \in Cues!Cue : acked'[c] = acked[c] \/ acked'[c] = None
    BY <1>1
  <1>8. acked' = [c \in Cues!Cue |-> acked'[c]]
    BY <1>1
  <1>9. acked' \in [Cues!Cue -> Cues!Statuses \cup {None}]
    BY <1>2, <1>7, <1>8 DEF Cues!Lane
  <1>10. applied \in Seq([cue : Cues!Issued', receipt : Nat])
    <2>1. applied \in Seq(CueEntry)
      BY <1>2 DEF Cues!Lane, CueEntry
    <2>2. CueEntry \subseteq [cue : Cues!Issued', receipt : Nat]
      BY <1>3 DEF CueEntry
    <2>q. QED  BY <2>1, <2>2, SeqWider
  <1>c. /\ last' = last /\ status' = status /\ known' = known /\ overlapped' = overlapped
        /\ receiving' = receiving /\ replies' = replies /\ applied' = applied
    BY <1>1 DEF Cues!client
  <1>s. /\ wire' = wire \cup {next} /\ sends' \in [Cues!Cue -> Nat]
        /\ sends' = [c \in Cues!Cue |-> IF c \in {next} THEN sends[c] + 1 ELSE sends[c]]
    BY <1>1, <1>2 DEF Cues!Send, Cues!Lane
  <1>11. Cues!Lane'
    <2>1. wire' \subseteq Cues!Issued'
      BY <1>2, <1>3, <1>s DEF Cues!Lane
    <2>3. last \in 0..(next' - 1) /\ next' \in 1..(MaxCues + 1) /\ known \subseteq Cues!Issued'
      BY <1>1, <1>2, <1>3 DEF Cues!Lane, CueAssumption
    <2>4. receiving' \subseteq [cue : Cues!Issued', receipt : Nat, at : {"interrupt", "apply"}]
          /\ replies' \subseteq [cue : Cues!Issued', status : Cues!Statuses]
      BY <1>2, <1>3, <1>c DEF Cues!Lane
    <2>q. QED  BY <1>2, <1>6, <1>9, <1>10, <1>c, <1>s, <2>1, <2>3, <2>4 DEF Cues!Lane
  <1>12. Cues!Receipts'
    <2>1. ASSUME NEW c \in Cues!Issued PROVE sends'[c] = sends[c] /\ sends[c] \in Nat /\ (c \in wire' => c \in wire)
      <3>1. c # next /\ c \in Cues!Cue
        BY <1>1, <1>3 DEF Cues!Issued, Cues!Cue, CueAssumption
      <3>q. QED  BY <1>2, <1>s, <3>1 DEF Cues!Lane
    <2>q. QED  BY <1>2, <1>c, <1>s, <2>1, ReceiptsCarried DEF Cues!CueInv
  <1>13. Cues!Honest'
    BY <1>7, <1>c DEF Cues!CueInv, Cues!Honest, CueAssumption, Cues!Settled, Cues!Statuses
  <1>q. QED  BY <1>1, <1>11, <1>12, <1>13, ClientCarried DEF Cues!CueInv

\* What the host and the transport do to the wire and the replies.
LEMMA CarriedKeeps ==
    ASSUME CueAssumption, Cues!CueInv, UNCHANGED <<Cues!client, next, retained>>,
           wire' \subseteq Cues!Issued,
           replies' \subseteq replies, sends' \in [Cues!Cue -> Nat],
           \A c \in Cues!Issued : sends'[c] >= sends[c]
                                  /\ (c \in wire' => c \in wire \/ sends'[c] > sends[c]),
           acked' \in [Cues!Cue -> Cues!Statuses \cup {None}],
           \A c \in Cues!Cue : acked'[c] \in Cues!Settled => c \in known
    PROVE  Cues!CueInv'
  <1>1. Cues!Lane'
    BY DEF Cues!CueInv, Cues!Lane, Cues!client, Cues!Issued
  <1>2. Cues!Receipts'
    BY ReceiptsCarried DEF Cues!CueInv, Cues!client
  <1>3. Cues!Honest'
    BY DEF Cues!CueInv, Cues!Honest, Cues!client
  <1>q. QED  BY <1>1, <1>2, <1>3, ClientCarried DEF Cues!CueInv

LEMMA AcknowledgeKeeps ==
    ASSUME CueAssumption, Cues!CueInv, NEW a \in replies, Cues!Acknowledge(a) PROVE Cues!CueInv'
  <1>1. /\ replies' = replies \ {a} /\ UNCHANGED <<Cues!client, next, retained, wire, sends>>
        /\ acked' = IF acked[a.cue] \in Cues!Settled THEN acked ELSE [acked EXCEPT ![a.cue] = a.status]
    BY DEF Cues!Acknowledge
  <1>2. /\ a.status \in Cues!Statuses /\ (a.status \in Cues!Settled => a.cue \in known)
        /\ acked \in [Cues!Cue -> Cues!Statuses \cup {None}]
        /\ wire \subseteq Cues!Issued /\ sends \in [Cues!Cue -> Nat]
        /\ Cues!Issued \subseteq Cues!Cue
        /\ \A c \in Cues!Cue : acked[c] \in Cues!Settled => c \in known
    BY DEF Cues!CueInv, Cues!Lane, Cues!Honest, Cues!Issued, Cues!Cue, CueAssumption
  <1>3. acked' \in [Cues!Cue -> Cues!Statuses \cup {None}] /\ \A c \in Cues!Cue : acked'[c] \in Cues!Settled => c \in known
    BY <1>1, <1>2
  <1>4. \A c \in Cues!Issued : sends[c] \in Nat
    BY <1>2
  <1>q. QED  BY <1>1, <1>2, <1>3, <1>4, CarriedKeeps

LEMMA LaneKeeps ==
    ASSUME CueAssumption, Cues!CueInv,
           \/ \E a \in replies : Cues!AcknowledgeUnknown(a)
           \/ Cues!Replay \/ Cues!Lose \/ \E c \in Cues!Cue : Cues!Resend(c)
    PROVE  Cues!CueInv'
  <1>1. /\ acked \in [Cues!Cue -> Cues!Statuses \cup {None}] /\ \A c \in Cues!Cue : acked[c] \in Cues!Settled => c \in known
        /\ wire \subseteq Cues!Issued /\ sends \in [Cues!Cue -> Nat]
        /\ retained \in Seq(Cues!Issued)
        /\ next \in Nat /\ Cues!Issued \subseteq Cues!Cue
    BY DEF Cues!CueInv, Cues!Lane, Cues!Honest, CueAssumption, Cues!Issued, Cues!Cue
  <1>s. \A c \in Cues!Issued : sends[c] \in Nat
    BY <1>1
  <1>2. ASSUME NEW a \in replies, Cues!AcknowledgeUnknown(a) PROVE Cues!CueInv'
    BY <1>1, <1>2, <1>s, CarriedKeeps DEF Cues!AcknowledgeUnknown, Cues!host
  <1>3. CASE Cues!Replay
    <2>1. Cues!RetainedCues \subseteq Cues!Issued
      BY <1>1 DEF Cues!RetainedCues
    <2> PICK tail : tail = {c \in Cues!RetainedCues : c > last}
      OBVIOUS
    <2>2. wire' = tail /\ tail \subseteq Cues!Issued /\ sends' \in [Cues!Cue -> Nat] /\ replies' = {}
          /\ sends' = [c \in Cues!Cue |-> IF c \in tail THEN sends[c] + 1 ELSE sends[c]]
          /\ UNCHANGED <<Cues!client, next, retained, acked>>
      BY <1>1, <1>3, <2>1 DEF Cues!Replay, Cues!host
    <2>3. \A c \in Cues!Issued : sends'[c] >= sends[c]
                                 /\ (c \in wire' => c \in wire \/ sends'[c] > sends[c])
      BY <1>1, <1>s, <2>2
    <2>q. QED  BY <1>1, <2>2, <2>3, CarriedKeeps
  <1>4. CASE Cues!Lose
    <2>1. wire' \subseteq wire /\ replies' \subseteq replies /\ sends' = sends
          /\ UNCHANGED <<Cues!client, next, retained, acked>>
      BY <1>4 DEF Cues!Lose, Cues!host
    <2>q. QED  BY <1>1, <1>s, <2>1, CarriedKeeps
  <1>5. ASSUME NEW c \in Cues!Cue, Cues!Resend(c) PROVE Cues!CueInv'
    <2>1. c \in Cues!Issued
      BY <1>1, <1>5 DEF Cues!Resend, Cues!Issued, Cues!Cue
    <2>2. wire' = wire \cup {c} /\ sends' \in [Cues!Cue -> Nat] /\ replies' = replies
          /\ sends' = [b \in Cues!Cue |-> IF b \in {c} THEN sends[b] + 1 ELSE sends[b]]
          /\ UNCHANGED <<Cues!client, next, retained, acked>>
      BY <1>1, <1>5, <2>1 DEF Cues!Resend, Cues!Send, Cues!host
    <2>3. \A b \in Cues!Issued : sends'[b] >= sends[b]
                                 /\ (b \in wire' => b \in wire \/ sends'[b] > sends[b])
      BY <1>1, <1>s, <2>2
    <2>q. QED  BY <1>1, <2>1, <2>2, <2>3, CarriedKeeps
  <1>q. QED  BY <1>2, <1>3, <1>4, <1>5

LEMMA SnapshotKeeps == ASSUME CueAssumption, Cues!CueInv, Cues!Snapshot PROVE Cues!CueInv'
  <1>1. /\ receiving = {} /\ status' = "ready" /\ last' = next - 1 /\ wire' = {} /\ replies' = {}
        /\ UNCHANGED <<next, retained, acked, known, receiving, sends, applied, overlapped>>
    BY DEF Cues!Snapshot, Cues!host
  <1>2. next \in 1..(MaxCues + 1) /\ known \subseteq Cues!Issued
    BY DEF Cues!CueInv, Cues!Lane
  <1>3. last' \in 0..(next - 1) /\ \A c \in known : c <= last'
    BY <1>1, <1>2 DEF CueAssumption, Cues!Issued
  <1>4. Cues!Lane'
    BY <1>1, <1>3 DEF Cues!CueInv, Cues!Lane, Cues!Issued
  <1>5. Cues!Receipts' /\ Cues!Alone'
    BY <1>1 DEF Cues!Receipts, Cues!Alone
  <1>6. Cues!HandedOver' /\ Cues!CuesOnce'
    BY <1>1 DEF Cues!CueInv, Cues!HandedOver, Cues!CuesOnce, Cues!Elements
  <1>7. Cues!InTurn'
    BY <1>1, <1>3 DEF Cues!CueInv, Cues!InTurn
  <1>8. Cues!Honest'
    BY <1>1 DEF Cues!CueInv, Cues!Honest
  <1>q. QED  BY <1>4, <1>5, <1>6, <1>7, <1>8 DEF Cues!CueInv

LEMMA RefusedKeeps ==
    ASSUME CueAssumption, Cues!CueInv, NEW c \in Cues!Cue,
           Cues!ReceiveKnown(c) \/ Cues!ReceiveRefused(c) PROVE Cues!CueInv'
  <1> PICK s \in {"duplicate", "repair_required"} :
          /\ c \in wire /\ wire' = wire \ {c} /\ replies' = replies \cup {[cue |-> c, status |-> s]}
          /\ UNCHANGED <<next, retained, acked, last, known, receiving, applied, overlapped, sends>>
          /\ status' \in {status, "repair_required"} /\ (s = "duplicate" => c \in known)
    BY DEF Cues!ReceiveKnown, Cues!ReceiveRefused, Cues!Reply, Cues!host, Cues!client
  <1>1. Cues!Lane'
    <2>1. [cue |-> c, status |-> s] \in [cue : Cues!Issued, status : Cues!Statuses]
      BY DEF Cues!CueInv, Cues!Lane, Cues!Statuses
    <2>q. QED  BY <2>1 DEF Cues!CueInv, Cues!Lane, Cues!Issued
  <1>2. Cues!Receipts'
    <2>1. sends \in [Cues!Cue -> Nat] /\ Cues!Issued \subseteq Cues!Cue
      BY DEF Cues!CueInv, Cues!Lane, Cues!Issued, Cues!Cue, CueAssumption
    <2>2. \A b \in Cues!Issued : sends[b] \in Nat
      BY <2>1
    <2>q. QED  BY <2>1, <2>2, ReceiptsCarried DEF Cues!CueInv
  <1>3. Cues!Alone' /\ Cues!HandedOver' /\ Cues!CuesOnce' /\ Cues!InTurn'
    BY DEF Cues!CueInv, Cues!Alone, Cues!HandedOver, Cues!CuesOnce, Cues!InTurn, Cues!Elements,
       Cues!Entry
  <1>4. Cues!Honest'
    BY DEF Cues!CueInv, Cues!Honest, Cues!Settled
  <1>q. QED  BY <1>1, <1>2, <1>3, <1>4 DEF Cues!CueInv

-----------------------------------------------------------------------------
\* Fewer receipts are still receipts.
LEMMA FewerReceipts ==
    ASSUME Cues!Receipts, receiving' \subseteq receiving, UNCHANGED <<sends, wire>>
    PROVE  Cues!Receipts'
  BY DEF Cues!Receipts, Cues!Entry

\* A cue of which nothing is under way, known or not alone goes last, once.
LEMMA HandOver ==
    ASSUME Cues!CueInv, NEW e \in CueEntry, NEW O, overlapped \subseteq O,
           e.cue \notin O =>
               \A d \in Cues!Elements(applied) : d.cue # e.cue,
           O = {} => \A d \in Cues!Elements(applied) : d.cue < e.cue
    PROVE  /\ Append(applied, e) \in Seq(CueEntry)
           /\ Cues!Elements(Append(applied, e)) = Cues!Elements(applied) \cup {e}
           /\ \A j, k \in DOMAIN Append(applied, e) :
                 Append(applied, e)[j].cue = Append(applied, e)[k].cue
                     => j = k \/ Append(applied, e)[j].cue \in O
           /\ O = {} => \A j, k \in DOMAIN Append(applied, e) :
                 j < k => Append(applied, e)[j].cue < Append(applied, e)[k].cue
  <1>1. applied \in Seq(CueEntry)
    BY DEF Cues!CueInv, Cues!Lane, CueEntry
  <1>2. Cues!Elements(Append(applied, e)) = Cues!Elements(applied) \cup {e}
    BY <1>1, Cues!ElementsAppend
  <1>3. \A k \in DOMAIN applied : applied[k] \in Cues!Elements(applied)
    BY DEF Cues!Elements
  <1>4. \A j, k \in DOMAIN applied : applied[j].cue = applied[k].cue => j = k \/ applied[j].cue \in overlapped
    BY DEF Cues!CueInv, Cues!CuesOnce
  <1>5. O = {} => \A j, k \in DOMAIN applied : j < k => applied[j].cue < applied[k].cue
    BY DEF Cues!CueInv, Cues!InTurn
  <1> DEFINE more == Append(applied, e)
  <1>6. /\ more \in Seq(CueEntry) /\ Len(applied) \in Nat
        /\ DOMAIN applied = 1..Len(applied) /\ DOMAIN more = 1..(Len(applied) + 1)
        /\ more[Len(applied) + 1] = e /\ \A k \in DOMAIN applied : more[k] = applied[k]
    BY <1>1
  <1> HIDE DEF more
  <1>7. \A k \in DOMAIN more : k \in DOMAIN applied \/ k = Len(applied) + 1
    BY <1>6
  <1>8. \A j, k \in DOMAIN more : more[j].cue = more[k].cue => j = k \/ more[j].cue \in O
    <2> SUFFICES ASSUME NEW j \in DOMAIN more, NEW k \in DOMAIN more, more[j].cue = more[k].cue,
                        j # k, more[j].cue \notin O
                 PROVE  FALSE
      OBVIOUS
    <2>1. CASE j \in DOMAIN applied /\ k \in DOMAIN applied
      BY <1>4, <1>6, <2>1
    <2>2. CASE j = Len(applied) + 1
      BY <1>3, <1>6, <1>7, <2>2
    <2>3. CASE k = Len(applied) + 1
      BY <1>3, <1>6, <1>7, <2>3
    <2>q. QED  BY <1>7, <2>1, <2>2, <2>3
  <1>9. ASSUME O = {}, NEW j \in DOMAIN more, NEW k \in DOMAIN more, j < k
        PROVE  more[j].cue < more[k].cue
    <2>1. j \in DOMAIN applied
      BY <1>6, <1>9
    <2>2. CASE k \in DOMAIN applied
      BY <1>5, <1>6, <1>9, <2>1, <2>2
    <2>3. CASE k = Len(applied) + 1
      BY <1>3, <1>6, <1>9, <2>1, <2>3
    <2>q. QED  BY <1>7, <2>2, <2>3
  <1>q. QED  BY <1>2, <1>6, <1>8, <1>9 DEF more

LEMMA KnownIntegers == ASSUME Cues!CueInv PROVE \A b \in known : b \in Int
  <1>1. known \subseteq 1..(next - 1)
    BY DEF Cues!CueInv, Cues!Lane, Cues!Issued
  <1>q. QED  BY <1>1

LEMMA CueReceiveKeeps ==
    ASSUME CueAssumption, Cues!CueInv, NEW c \in Cues!Cue, Cues!Receive(c) PROVE Cues!CueInv'
  <1>1. /\ c \in wire /\ c \notin known /\ Cues!Refusal(c) = None /\ wire' = wire \ {c}
        /\ receiving' = receiving \cup {[cue |-> c, receipt |-> sends[c],
                                         at |-> IF Cues!Emergency(c) THEN "interrupt" ELSE "apply"]}
        /\ applied' = IF Cues!Emergency(c) THEN applied
                      ELSE Append(applied, [cue |-> c, receipt |-> sends[c]])
        /\ overlapped' = IF receiving = {} THEN overlapped ELSE overlapped \cup {c}
        /\ UNCHANGED <<next, retained, acked, status, last, known, replies, sends>>
    BY DEF Cues!Receive, Cues!host
  <1>2. /\ receiving \subseteq CueReceipt /\ last \in Int /\ c \in Int /\ c \in Cues!Issued
        /\ sends[c] \in Nat /\ known \subseteq Cues!Issued
    BY <1>1 DEF Cues!CueInv, Cues!Lane, Cues!Cue, CueReceipt
  <1>3. c > last
    BY <1>1, <1>2 DEF Cues!Refusal, CueAssumption, Cues!Statuses
  <1> PICK at \in {"interrupt", "apply"} : at = IF Cues!Emergency(c) THEN "interrupt" ELSE "apply"
    OBVIOUS
  <1> PICK r : r = [cue |-> c, receipt |-> sends[c], at |-> at]
    OBVIOUS
  <1> PICK e : e = [cue |-> c, receipt |-> sends[c]]
    OBVIOUS
  <1>4. /\ r \in CueReceipt /\ r.cue = c /\ r.at = at /\ r.receipt = sends[c]
        /\ e \in CueEntry /\ e.cue = c /\ e.receipt = sends[c] /\ Cues!Entry(r) = e
        /\ receiving' = receiving \cup {r}
    BY <1>1, <1>2 DEF CueReceipt, CueEntry, Cues!Entry
  <1>5. ASSUME NEW q \in receiving PROVE Cues!Entry(q) # e
    <2>1. q.cue = c => q.receipt < sends[c]
      BY <1>1 DEF Cues!CueInv, Cues!Receipts
    <2>2. Cues!Entry(q).cue = q.cue /\ Cues!Entry(q).receipt = q.receipt
      BY DEF Cues!Entry
    <2>3. q.receipt \in Nat
      BY <1>2 DEF CueReceipt
    <2>q. QED  BY <1>2, <1>4, <2>1, <2>2, <2>3
  <1>6. Cues!Receipts'
    <2>1. ASSUME NEW q \in receiving'
          PROVE  q.receipt <= sends[q.cue] /\ (q.cue \in wire' => q.receipt < sends[q.cue])
      <3>1. CASE q \in receiving
        BY <1>1, <3>1 DEF Cues!CueInv, Cues!Receipts
      <3>2. CASE q = r
        BY <1>1, <1>2, <1>4, <3>2
      <3>q. QED  BY <1>4, <3>1, <3>2
    <2>2. ASSUME NEW p \in receiving', NEW q \in receiving', Cues!Entry(p) = Cues!Entry(q)
          PROVE  p = q
      <3>1. CASE p \in receiving /\ q \in receiving
        BY <2>2, <3>1 DEF Cues!CueInv, Cues!Receipts
      <3>q. QED  BY <1>4, <1>5, <2>2, <3>1
    <2>3. sends' = sends
      BY <1>1
    <2>q. QED  BY <2>1, <2>2, <2>3 DEF Cues!Receipts, Cues!Entry
  <1>7. Cues!Alone'
    <2> SUFFICES ASSUME NEW q \in receiving', q.cue \notin overlapped'
                 PROVE  q.cue \notin known /\ \A p \in receiving' : p.cue = q.cue => p = q
      BY <1>1 DEF Cues!Alone
    <2>1. CASE receiving = {}
      BY <1>1, <1>4, <2>1
    <2>2. CASE receiving # {}
      <3>1. q # r /\ q \in receiving /\ q.cue \notin overlapped /\ q.cue # c
        BY <1>1, <1>4, <2>2
      <3>q. QED  BY <1>4, <3>1 DEF Cues!CueInv, Cues!Alone
    <2>q. QED  BY <2>1, <2>2
  <1>8. ASSUME NEW d \in Cues!Elements(applied) PROVE d.cue \in known \/ receiving # {}
    BY DEF Cues!CueInv, Cues!HandedOver
  <1>9. /\ applied' \in Seq(CueEntry)
        /\ Cues!Elements(applied') = Cues!Elements(applied) \cup (IF at = "apply" THEN {e} ELSE {})
        /\ Cues!CuesOnce'
        /\ overlapped' = {} => \A j, k \in DOMAIN applied' : j < k => applied'[j].cue < applied'[k].cue
    <2>1. CASE Cues!Emergency(c)
      <3>1. applied' = applied /\ at = "interrupt" /\ overlapped \subseteq overlapped'
        BY <1>1, <2>1
      <3>2. applied \in Seq(CueEntry)
        BY DEF Cues!CueInv, Cues!Lane, CueEntry
      <3>3. Cues!CuesOnce'
        BY <3>1 DEF Cues!CueInv, Cues!CuesOnce
      <3>4. overlapped' = {} => overlapped = {}
        BY <3>1
      <3>5. overlapped = {} => \A j, k \in DOMAIN applied : j < k => applied[j].cue < applied[k].cue
        BY DEF Cues!CueInv, Cues!InTurn
      <3>q. QED  BY <3>1, <3>2, <3>3, <3>4, <3>5
    <2>2. CASE ~Cues!Emergency(c)
      <3>1. applied' = Append(applied, e) /\ at = "apply" /\ overlapped \subseteq overlapped'
        BY <1>1, <2>2
      <3>2. c \notin overlapped' => receiving = {}
        BY <1>1
      <3>3. c \notin overlapped' => \A d \in Cues!Elements(applied) : d.cue # c
        BY <1>1, <1>8, <3>2
      <3>4. ASSUME overlapped' = {}, NEW d \in Cues!Elements(applied) PROVE d.cue < c
        <4>1. d.cue \in known /\ overlapped = {}
          BY <1>8, <3>1, <3>2, <3>4
        <4>2. d.cue <= last
          BY <4>1 DEF Cues!CueInv, Cues!InTurn
        <4>3. d.cue \in Int
          BY <4>1, KnownIntegers
        <4>4. last \in Int /\ c \in Int
          BY <1>2
        <4> PICK x : x = d.cue
          OBVIOUS
        <4>5. x \in Int /\ x <= last
          BY <4>2, <4>3
        <4>6. x < c
          BY <1>3, <4>4, <4>5, Below
        <4>q. QED  BY <4>6
      <3>5. /\ applied' \in Seq(CueEntry)
            /\ Cues!Elements(applied') = Cues!Elements(applied) \cup {e}
            /\ \A j, k \in DOMAIN applied' :
                  applied'[j].cue = applied'[k].cue => j = k \/ applied'[j].cue \in overlapped'
            /\ overlapped' = {} =>
                  \A j, k \in DOMAIN applied' : j < k => applied'[j].cue < applied'[k].cue
        BY <1>4, <3>1, <3>3, <3>4, HandOver
      <3>q. QED  BY <3>1, <3>5 DEF Cues!CuesOnce
    <2>q. QED  BY <2>1, <2>2
  <1>10. Cues!Lane'
    BY <1>1, <1>4, <1>9 DEF Cues!CueInv, Cues!Lane, Cues!Issued, CueReceipt, CueEntry
  <1>11. Cues!HandedOver'
    <2>1. ASSUME NEW d \in Cues!Elements(applied')
          PROVE  d.cue \in known \/ \E q \in receiving' : q.at = "apply" /\ Cues!Entry(q) = d
      <3>1. CASE d \in Cues!Elements(applied)
        BY <1>4, <3>1 DEF Cues!CueInv, Cues!HandedOver
      <3>2. CASE d = e /\ at = "apply"
        BY <1>4, <3>2
      <3>q. QED  BY <1>9, <3>1, <3>2
    <2>2. ASSUME NEW q \in receiving', q.at = "apply" PROVE Cues!Entry(q) \in Cues!Elements(applied')
      <3>1. CASE q \in receiving
        BY <1>9, <2>2, <3>1 DEF Cues!CueInv, Cues!HandedOver
      <3>2. CASE q = r
        BY <1>4, <1>9, <2>2, <3>2
      <3>q. QED  BY <1>4, <3>1, <3>2
    <2>3. ASSUME NEW b \in known
          PROVE  \E d \in Cues!Elements(applied') :
                    d.cue = b /\ \A q \in receiving' : Cues!Entry(q) # d
      <3>1. PICK d \in Cues!Elements(applied) : d.cue = b /\ \A q \in receiving : Cues!Entry(q) # d
        BY DEF Cues!CueInv, Cues!HandedOver
      <3>2. b # c
        BY <1>1
      <3>q. QED  BY <1>4, <1>9, <3>1, <3>2
    <2>4. known' = known
      BY <1>1
    <2>q. QED  BY <2>1, <2>2, <2>3, <2>4 DEF Cues!HandedOver, Cues!Entry, Cues!Elements
  <1>12. Cues!InTurn'
    <2> SUFFICES ASSUME overlapped' = {}
                 PROVE  /\ \A q \in receiving' : q.cue > last' /\ \A p \in receiving' : p = q
                        /\ \A b \in known' : b <= last'
      BY <1>9 DEF Cues!InTurn
    <2>1. receiving = {} /\ overlapped = {}
      BY <1>1
    <2>2. \A b \in known : b <= last
      BY <2>1 DEF Cues!CueInv, Cues!InTurn
    <2>q. QED  BY <1>1, <1>3, <1>4, <2>1, <2>2
  <1>13. Cues!Honest'
    BY <1>1 DEF Cues!CueInv, Cues!Honest
  <1>q. QED  BY <1>6, <1>7, <1>9, <1>10, <1>11, <1>12, <1>13 DEF Cues!CueInv

LEMMA InterruptedKeeps ==
    ASSUME Cues!CueInv, NEW r \in receiving, Cues!Interrupted(r) PROVE Cues!CueInv'
  <1> DEFINE q == [r EXCEPT !.at = "apply"]
             e == Cues!Entry(r)
  <1>1. /\ r.at = "interrupt" /\ receiving' = (receiving \ {r}) \cup {q}
        /\ applied' = Append(applied, e)
        /\ UNCHANGED <<next, retained, acked, status, last, known, wire, replies, sends, overlapped>>
    BY DEF Cues!Interrupted, Cues!host
  <1>2. receiving \subseteq CueReceipt /\ last \in Int /\ known \subseteq Cues!Issued
    BY DEF Cues!CueInv, Cues!Lane, CueReceipt
  <1>3. r \in CueReceipt
    BY <1>2
  <1>4. /\ q \in CueReceipt /\ q.cue = r.cue /\ q.at = "apply" /\ q.receipt = r.receipt
        /\ Cues!Entry(q) = e /\ e \in CueEntry /\ e.cue = r.cue /\ r.cue \in Int
    BY <1>3 DEF CueReceipt, CueEntry, Cues!Entry, Cues!Issued
  <1> HIDE DEF q
  <1>5. Cues!Receipts'
    <2>1. ASSUME NEW p \in receiving'
          PROVE  p.receipt <= sends[p.cue] /\ (p.cue \in wire => p.receipt < sends[p.cue])
      <3>1. CASE p \in receiving
        BY <3>1 DEF Cues!CueInv, Cues!Receipts
      <3>2. CASE p = q
        BY <1>4, <3>2 DEF Cues!CueInv, Cues!Receipts
      <3>q. QED  BY <1>1, <3>1, <3>2
    <2>2. ASSUME NEW p \in receiving', NEW s \in receiving', Cues!Entry(p) = Cues!Entry(s)
          PROVE  p = s
      <3>1. \A u, v \in receiving : Cues!Entry(u) = Cues!Entry(v) => u = v
        BY DEF Cues!CueInv, Cues!Receipts
      <3>q. QED  BY <1>1, <1>4, <2>2, <3>1
    <2>q. QED  BY <1>1, <2>1, <2>2 DEF Cues!Receipts, Cues!Entry
  <1>6. Cues!Alone'
    <2> SUFFICES ASSUME NEW p \in receiving', p.cue \notin overlapped
                 PROVE  p.cue \notin known /\ \A s \in receiving' : s.cue = p.cue => s = p
      BY <1>1 DEF Cues!Alone
    <2>1. \A u \in receiving : u.cue \notin overlapped =>
              u.cue \notin known /\ \A v \in receiving : v.cue = u.cue => v = u
      BY DEF Cues!CueInv, Cues!Alone
    <2>q. QED  BY <1>1, <1>4, <2>1
  <1>7. ASSUME NEW d \in Cues!Elements(applied)
        PROVE  d.cue \in known \/ \E p \in receiving \ {r} : p.at = "apply" /\ Cues!Entry(p) = d
    BY <1>1 DEF Cues!CueInv, Cues!HandedOver
  <1>8. e.cue \notin overlapped => \A d \in Cues!Elements(applied) : d.cue # e.cue
    <2> SUFFICES ASSUME e.cue \notin overlapped, NEW d \in Cues!Elements(applied), d.cue = e.cue
                 PROVE  FALSE
      OBVIOUS
    <2>1. r.cue \notin known /\ \A p \in receiving : p.cue = r.cue => p = r
      BY <1>4 DEF Cues!CueInv, Cues!Alone
    <2>2. PICK p \in receiving \ {r} : Cues!Entry(p) = d
      BY <1>4, <1>7, <2>1
    <2>3. p.cue = d.cue
      BY <2>2 DEF Cues!Entry
    <2>q. QED  BY <1>4, <2>1, <2>3
  <1>9. ASSUME overlapped = {} PROVE /\ receiving' = {q} /\ r.cue > last
                                     /\ \A b \in known : b <= last
                                     /\ \A d \in Cues!Elements(applied) : d.cue < e.cue
    <2>1. /\ \A p \in receiving : p = r
          /\ r.cue > last /\ \A b \in known : b <= last
      BY <1>9 DEF Cues!CueInv, Cues!InTurn
    <2>2. ASSUME NEW d \in Cues!Elements(applied) PROVE d.cue < e.cue
      <3>1. d.cue \in known
        BY <1>7, <2>1
      <3>2. d.cue \in Int /\ d.cue <= last
        BY <2>1, <3>1, KnownIntegers
      <3> PICK x : x = d.cue
        OBVIOUS
      <3> PICK y : y = r.cue
        OBVIOUS
      <3>3. x \in Int /\ x <= last /\ y \in Int /\ y > last /\ last \in Int /\ e.cue = y
        BY <1>2, <1>4, <2>1, <3>2
      <3>4. x < y
        BY <3>3, Below
      <3>q. QED  BY <3>3, <3>4
    <2>q. QED  BY <1>1, <2>1, <2>2
  <1>10. /\ applied' \in Seq(CueEntry)
         /\ Cues!Elements(applied') = Cues!Elements(applied) \cup {e}
         /\ \A j, k \in DOMAIN applied' :
               applied'[j].cue = applied'[k].cue => j = k \/ applied'[j].cue \in overlapped
         /\ overlapped = {} =>
               \A j, k \in DOMAIN applied' : j < k => applied'[j].cue < applied'[k].cue
    <2>1. applied' = Append(applied, e) /\ e \in CueEntry
      BY <1>1, <1>4
    <2>2. overlapped = {} => \A d \in Cues!Elements(applied) : d.cue < e.cue
      BY <1>9
    <2> HIDE DEF e
    <2>q. QED  BY <1>8, <2>1, <2>2, HandOver
  <1> HIDE DEF e
  <1>11. Cues!Lane'
    BY <1>1, <1>4, <1>10 DEF Cues!CueInv, Cues!Lane, Cues!Issued, CueReceipt, CueEntry
  <1>12. Cues!HandedOver'
    <2>1. ASSUME NEW d \in Cues!Elements(applied')
          PROVE  d.cue \in known \/ \E p \in receiving' : p.at = "apply" /\ Cues!Entry(p) = d
      <3>1. CASE d \in Cues!Elements(applied)
        BY <1>1, <1>7, <3>1
      <3>2. CASE d = e
        BY <1>1, <1>4, <3>2
      <3>q. QED  BY <1>10, <3>1, <3>2
    <2>2. ASSUME NEW p \in receiving', p.at = "apply" PROVE Cues!Entry(p) \in Cues!Elements(applied')
      <3>1. CASE p \in receiving
        BY <1>10, <2>2, <3>1 DEF Cues!CueInv, Cues!HandedOver
      <3>2. CASE p = q
        BY <1>4, <1>10, <3>2
      <3>q. QED  BY <1>1, <3>1, <3>2
    <2>3. ASSUME NEW b \in known
          PROVE  \E d \in Cues!Elements(applied') :
                    d.cue = b /\ \A p \in receiving' : Cues!Entry(p) # d
      <3>1. PICK d \in Cues!Elements(applied) : d.cue = b /\ \A p \in receiving : Cues!Entry(p) # d
        BY DEF Cues!CueInv, Cues!HandedOver
      <3>2. Cues!Entry(q) # d
        BY <1>4, <3>1 DEF e
      <3>q. QED  BY <1>1, <1>10, <3>1, <3>2
    <2>q. QED  BY <1>1, <2>1, <2>2, <2>3 DEF Cues!HandedOver, Cues!Entry, Cues!Elements
  <1>13. Cues!InTurn'
    BY <1>1, <1>4, <1>9, <1>10 DEF Cues!InTurn
  <1>14. Cues!CuesOnce' /\ Cues!Honest'
    BY <1>1, <1>10 DEF Cues!CueInv, Cues!Honest, Cues!CuesOnce
  <1>q. QED  BY <1>5, <1>6, <1>11, <1>12, <1>13, <1>14 DEF Cues!CueInv

LEMMA InterruptFailedKeeps ==
    ASSUME Cues!CueInv, NEW r \in receiving, Cues!InterruptFailed(r) PROVE Cues!CueInv'
  <1>1. /\ r.at = "interrupt" /\ receiving' = receiving \ {r}
        /\ UNCHANGED <<next, retained, acked, status, last, known, wire, replies, sends, applied,
                       overlapped>>
    BY DEF Cues!InterruptFailed, Cues!host
  <1>2. Cues!Lane'
    BY <1>1 DEF Cues!CueInv, Cues!Lane, Cues!Issued
  <1>3. Cues!Receipts'
    BY <1>1, FewerReceipts DEF Cues!CueInv
  <1>4. Cues!Alone' /\ Cues!CuesOnce' /\ Cues!InTurn' /\ Cues!Honest'
    BY <1>1 DEF Cues!CueInv, Cues!Alone, Cues!CuesOnce, Cues!InTurn, Cues!Honest
  <1>5. Cues!HandedOver'
    BY <1>1 DEF Cues!CueInv, Cues!HandedOver, Cues!Entry, Cues!Elements
  <1>q. QED  BY <1>2, <1>3, <1>4, <1>5 DEF Cues!CueInv

LEMMA AppliedKeeps ==
    ASSUME Cues!CueInv, NEW r \in receiving, Cues!Applied(r) PROVE Cues!CueInv'
  <1>1. /\ r.at = "apply" /\ receiving' = receiving \ {r} /\ status' = "ready" /\ last' = r.cue
        /\ known' = known \cup {r.cue}
        /\ replies' = replies \cup {[cue |-> r.cue, status |-> "applied"]}
        /\ UNCHANGED <<next, retained, acked, wire, sends, applied, overlapped>>
    BY DEF Cues!Applied, Cues!host, Cues!Reply
  <1>2. r.cue \in Cues!Issued /\ next \in Int /\ last \in Int /\ known \subseteq Cues!Issued
    BY DEF Cues!CueInv, Cues!Lane
  <1>3. r.cue \in 0..(next - 1)
    BY <1>2 DEF Cues!Issued
  <1>4. [cue |-> r.cue, status |-> "applied"] \in [cue : Cues!Issued, status : Cues!Statuses]
    BY <1>2 DEF Cues!Statuses
  <1>5. Cues!Lane'
    BY <1>1, <1>2, <1>3, <1>4 DEF Cues!CueInv, Cues!Lane, Cues!Issued
  <1>6. Cues!Receipts'
    BY <1>1, FewerReceipts DEF Cues!CueInv
  <1>7. Cues!Alone'
    BY <1>1 DEF Cues!CueInv, Cues!Alone
  <1>8. Cues!HandedOver'
    <2>1. ASSUME NEW d \in Cues!Elements(applied)
          PROVE  d.cue \in known' \/ \E q \in receiving' : q.at = "apply" /\ Cues!Entry(q) = d
      <3>1. CASE d.cue \in known
        BY <1>1, <3>1
      <3>2. ASSUME NEW q \in receiving, q.at = "apply", Cues!Entry(q) = d
            PROVE  d.cue \in known' \/ q \in receiving'
        <4>1. d.cue = q.cue
          BY <3>2 DEF Cues!Entry
        <4>q. QED  BY <1>1, <4>1
      <3>q. QED  BY <3>1, <3>2 DEF Cues!CueInv, Cues!HandedOver
    <2>2. \A q \in receiving' : q.at = "apply" => Cues!Entry(q) \in Cues!Elements(applied)
      BY <1>1 DEF Cues!CueInv, Cues!HandedOver
    <2>3. ASSUME NEW b \in known'
          PROVE  \E d \in Cues!Elements(applied) :
                    d.cue = b /\ \A q \in receiving' : Cues!Entry(q) # d
      <3>1. CASE b \in known
        BY <1>1, <3>1 DEF Cues!CueInv, Cues!HandedOver
      <3>2. CASE b = r.cue
        <4>1. Cues!Entry(r) \in Cues!Elements(applied)
          BY <1>1 DEF Cues!CueInv, Cues!HandedOver
        <4>2. Cues!Entry(r).cue = b
          BY <3>2 DEF Cues!Entry
        <4>3. \A q \in receiving' : Cues!Entry(q) # Cues!Entry(r)
          BY <1>1 DEF Cues!CueInv, Cues!Receipts
        <4>q. QED  BY <4>1, <4>2, <4>3
      <3>q. QED  BY <1>1, <3>1, <3>2
    <2>q. QED  BY <1>1, <2>1, <2>2, <2>3 DEF Cues!HandedOver, Cues!Entry, Cues!Elements
  <1>9. Cues!InTurn'
    <2> SUFFICES ASSUME overlapped = {}
                 PROVE  receiving' = {} /\ \A b \in known' : b <= r.cue
      BY <1>1 DEF Cues!CueInv, Cues!InTurn
    <2>1. r.cue > last /\ (\A q \in receiving : q = r) /\ \A b \in known : b <= last
      BY DEF Cues!CueInv, Cues!InTurn
    <2>2. r.cue \in Int /\ \A b \in known : b \in Int
      BY <1>2 DEF Cues!Issued
    <2>q. QED  BY <1>1, <1>2, <2>1, <2>2
  <1>10. Cues!CuesOnce' /\ Cues!Honest'
    BY <1>1 DEF Cues!CueInv, Cues!CuesOnce, Cues!Honest
  <1>q. QED  BY <1>5, <1>6, <1>7, <1>8, <1>9, <1>10 DEF Cues!CueInv

\* A receipt that fails takes back its own entry, and the others stay in their order.
LEMMA FailedKeeps ==
    ASSUME Cues!CueInv, NEW r \in receiving, Cues!Failed(r) PROVE Cues!CueInv'
  <1> DEFINE e == Cues!Entry(r)
             T == Cues!Elements(applied) \ {e}
  <1>1. /\ r.at = "apply" /\ receiving' = receiving \ {r} /\ status' = "repair_required"
        /\ applied' = Cues!Filtered(applied, T)
        /\ replies' = replies \cup {[cue |-> r.cue, status |-> "rejected"]}
        /\ UNCHANGED <<next, retained, acked, last, known, wire, sends, overlapped>>
    BY DEF Cues!Failed, Cues!host, Cues!Reply
  <1>2. r.cue \in Cues!Issued /\ applied \in Seq(CueEntry)
    BY DEF Cues!CueInv, Cues!Lane, CueEntry
  <1> HIDE DEF T
  <1>3. applied' \in Seq(CueEntry) /\ Cues!Elements(applied') = T
    <2>1. applied' \in Seq(CueEntry) /\ Cues!Elements(applied') = Cues!Elements(applied) \cap T
      BY <1>1, <1>2, Cues!FilteredElements
    <2>q. QED  BY <2>1 DEF T
  <1>4. \A j, k \in DOMAIN applied' : j < k =>
            \E i, l \in DOMAIN applied : i < l /\ applied'[j] = applied[i] /\ applied'[k] = applied[l]
    BY <1>1, <1>2, Cues!FilteredOrder DEF Cues!KeepsOrder
  <1>5. \A k \in DOMAIN applied : k \in Int
    BY <1>2
  <1>6. \A k \in DOMAIN applied' : k \in Int
    BY <1>3
  <1>7. Cues!CuesOnce'
    <2> SUFFICES ASSUME NEW j \in DOMAIN applied', NEW k \in DOMAIN applied', j < k,
                        applied'[j].cue = applied'[k].cue
                 PROVE  applied'[j].cue \in overlapped
      BY <1>1, <1>6 DEF Cues!CuesOnce
    <2>1. PICK i, l \in DOMAIN applied : i < l /\ applied'[j] = applied[i] /\ applied'[k] = applied[l]
      BY <1>4
    <2>2. i # l
      BY <1>5, <2>1
    <2>q. QED  BY <2>1, <2>2 DEF Cues!CueInv, Cues!CuesOnce
  <1>8. Cues!InTurn'
    <2> SUFFICES ASSUME overlapped = {}
                 PROVE  /\ \A q \in receiving' : q.cue > last /\ \A p \in receiving' : p = q
                        /\ \A b \in known : b <= last
                        /\ \A j, k \in DOMAIN applied' : j < k => applied'[j].cue < applied'[k].cue
      BY <1>1 DEF Cues!InTurn
    <2>1. \A i, l \in DOMAIN applied : i < l => applied[i].cue < applied[l].cue
      BY DEF Cues!CueInv, Cues!InTurn
    <2>2. \A j, k \in DOMAIN applied' : j < k => applied'[j].cue < applied'[k].cue
      BY <1>4, <2>1
    <2>q. QED  BY <1>1, <2>2 DEF Cues!CueInv, Cues!InTurn
  <1>9. [cue |-> r.cue, status |-> "rejected"] \in [cue : Cues!Issued, status : Cues!Statuses]
    BY <1>2 DEF Cues!Statuses
  <1>10. Cues!Lane'
    BY <1>1, <1>3, <1>9 DEF Cues!CueInv, Cues!Lane, Cues!Issued, CueEntry
  <1>11. Cues!Receipts'
    BY <1>1, FewerReceipts DEF Cues!CueInv
  <1>12. Cues!Alone'
    BY <1>1 DEF Cues!CueInv, Cues!Alone
  <1>13. Cues!HandedOver'
    <2>1. ASSUME NEW d \in T
          PROVE  d.cue \in known \/ \E q \in receiving' : q.at = "apply" /\ Cues!Entry(q) = d
      <3>1. d \in Cues!Elements(applied) /\ d # Cues!Entry(r)
        BY DEF T
      <3>q. QED  BY <1>1, <3>1 DEF Cues!CueInv, Cues!HandedOver
    <2>2. ASSUME NEW q \in receiving', q.at = "apply" PROVE Cues!Entry(q) \in T
      <3>1. q \in receiving /\ q # r
        BY <1>1
      <3>2. Cues!Entry(q) \in Cues!Elements(applied) /\ Cues!Entry(q) # Cues!Entry(r)
        BY <2>2, <3>1 DEF Cues!CueInv, Cues!HandedOver, Cues!Receipts
      <3>q. QED  BY <3>2 DEF T
    <2>3. ASSUME NEW b \in known
          PROVE  \E d \in T : d.cue = b /\ \A q \in receiving' : Cues!Entry(q) # d
      <3>1. PICK d \in Cues!Elements(applied) : d.cue = b /\ \A q \in receiving : Cues!Entry(q) # d
        BY DEF Cues!CueInv, Cues!HandedOver
      <3>q. QED  BY <1>1, <3>1 DEF T
    <2> HIDE DEF e
    <2>q. QED  BY <1>1, <1>3, <2>1, <2>2, <2>3 DEF Cues!HandedOver, Cues!Entry
  <1>14. Cues!Honest'
    BY <1>1 DEF Cues!CueInv, Cues!Honest, Cues!Settled
  <1>q. QED  BY <1>7, <1>8, <1>10, <1>11, <1>12, <1>13, <1>14 DEF Cues!CueInv

LEMMA CuesKept == CueAssumption /\ Cues!CueInv /\ [Cues!Next]_(Cues!vars) => Cues!CueInv'
  <1> SUFFICES ASSUME CueAssumption, Cues!CueInv, [Cues!Next]_(Cues!vars) PROVE Cues!CueInv'
    OBVIOUS
  <1>1. CASE UNCHANGED Cues!vars
    <2>1. Cues!Lane'
      BY <1>1 DEF Cues!vars, Cues!CueInv, Cues!Lane, Cues!Issued
    <2>2. UNCHANGED Cues!client /\ Cues!Honest'
      BY <1>1 DEF Cues!vars, Cues!client, Cues!CueInv, Cues!Honest
    <2>3. Cues!Receipts'
      BY <1>1 DEF Cues!vars, Cues!CueInv, Cues!Receipts, Cues!Entry
    <2>q. QED  BY <2>1, <2>2, <2>3, ClientCarried DEF Cues!CueInv
  <1>q. QED
    BY <1>1, IssueKeeps, LaneKeeps, SnapshotKeeps, AcknowledgeKeeps, RefusedKeeps, CueReceiveKeeps,
       InterruptedKeeps, InterruptFailedKeeps, AppliedKeeps, FailedKeeps DEF Cues!Next

LEMMA CuesHold ==
    CueAssumption /\ Cues!CueInv => Cues!TypeOK /\ Cues!CuesOnce /\ Cues!CuesInOrder
  <1> SUFFICES ASSUME CueAssumption, Cues!CueInv PROVE Cues!TypeOK /\ Cues!CuesOnce
  /\ Cues!CuesInOrder
    OBVIOUS
  <1>1. Cues!TypeOK
    BY DEF Cues!CueInv, Cues!Lane, Cues!TypeOK, CueAssumption
  <1>2. \A c \in known : \E k \in DOMAIN applied : applied[k].cue = c
    BY DEF Cues!CueInv, Cues!HandedOver, Cues!Elements
  <1>3. \A c \in Cues!Cue : acked[c] \in Cues!Settled => c \in known
    BY DEF Cues!CueInv, Cues!Honest
  <1>4. Cues!CuesInOrder
    BY <1>2, <1>3 DEF Cues!CueInv, Cues!InTurn, Cues!CuesInOrder
  <1>q. QED  BY <1>1, <1>4 DEF Cues!CueInv

-----------------------------------------------------------------------------
(***************************************************************************)
(* Client: an id that a call holds, sends or is answered by is that call's *)
(* own, of a window that was opened, and below the next sequence number.   *)
(***************************************************************************)

CallRecord == [state : Client!States, id : Client!Ids, cursor : Client!Cursors, attempt : Nat]

LEMMA SeqEntry == ASSUME NEW S, NEW s \in Seq(S), NEW k \in DOMAIN s PROVE s[k] \in S
  OBVIOUS

LEMMA ClientBegins == ClientAssumption /\ Client!Init => Client!ClientInv
  <1> SUFFICES ASSUME ClientAssumption, Client!Init PROVE Client!ClientInv
    OBVIOUS
  <1>1. Client!ServerTyped
    BY DEF ClientAssumption, Client!Init, Client!ServerTyped, Client!Windows, Client!Overs
  <1>2. Client!ClientTyped
    <2>1. Client!NoCall \in CallRecord
      BY DEF Client!NoCall, CallRecord, Client!States, Client!Ids, Client!Cursors
    <2>q. QED
      BY <2>1 DEF ClientAssumption, Client!Init, Client!ClientTyped, CallRecord, Client!Windows,
         Client!Cursors
  <1>3. \A c \in Commands : asking[c] = Client!NoCall /\ Client!Sent(c) = {} /\ Client!Logged(c) = {}
    BY DEF Client!Init, Client!Sent, Client!Logged, Client!AllCalls
  <1>4. Client!SentOnce /\ Client!SameId /\ Client!CountedOnce
    BY <1>3 DEF Client!SentOnce, Client!SameId, Client!CountedOnce, Client!Generated,
       ClientAssumption
  <1>5. Client!AnswersHonest
    BY <1>3 DEF Client!Init, Client!AnswersHonest, Client!NoCall
  <1>6. Client!IdsCounted
    <2>1. \A c \in Client!Generated : asking[c].id = None
      BY <1>3 DEF Client!Generated, Client!NoCall
    <2>q. QED  BY <2>1 DEF Client!IdsCounted, Client!FreshIds, Client!Generated
  <1>q. QED  BY <1>1, <1>2, <1>4, <1>5, <1>6 DEF Client!ClientInv

\* A step that sends no command and has none served.
Quiet ==
    /\ accepted' = accepted /\ window' \in Client!Windows /\ over' \in Client!Overs
    /\ requests' \subseteq Client!Requests /\ \A r \in requests' \ requests : r.call \notin Commands
    /\ responses' \subseteq Client!Responses
    /\ \A a \in responses' \ responses : a.call \in Commands /\ a.ok => Client!Logged(a.call) # {}
    /\ Client!ClientTyped'
    /\ \A c \in Commands :
          /\ asking'[c].id = asking[c].id /\ asking'[c].attempt = asking[c].attempt
          /\ asking'[c].state = "answered" => asking[c].state = "answered" \/ Client!Logged(c) # {}
    /\ reopened' = 0 => reopened = 0 /\ sequences' = sequences

LEMMA QuietKeeps == ASSUME ClientAssumption, Client!ClientInv, Quiet PROVE Client!ClientInv'
  <1>1. Client!ServerTyped'
    BY DEF Quiet, Client!ClientInv, Client!ServerTyped, Client!ClientTyped
  <1>2. \A c \in Commands : Client!Logged(c)' = Client!Logged(c) /\ Client!Sent(c)' \subseteq Client!Sent(c)
    BY DEF Quiet, Client!Logged, Client!Sent
  <1>3. Client!SentOnce'
    BY <1>2 DEF Quiet, Client!ClientInv, Client!SentOnce, Client!Generated
  <1>4. Client!SameId'
    BY <1>2 DEF Quiet, Client!ClientInv, Client!SameId, ClientAssumption
  <1>5. Client!CountedOnce'
    BY <1>2 DEF Client!ClientInv, Client!CountedOnce
  <1>6. Client!AnswersHonest'
    BY <1>2 DEF Quiet, Client!ClientInv, Client!AnswersHonest
  <1>7. Client!IdsCounted'
    BY DEF Quiet, Client!ClientInv, Client!IdsCounted, Client!FreshIds, Client!Generated
  <1>q. QED  BY <1>1, <1>3, <1>4, <1>5, <1>6, <1>7 DEF Client!ClientInv, Quiet

\* What a call does to the calls and the requests.
LEMMA CallingSends ==
    ASSUME Client!ClientInv, NEW c \in Client!AllCalls, NEW id \in Client!Ids,
           NEW cursor \in Client!Cursors, Client!Calling(c, id, cursor)
    PROVE  /\ asking' \in [Client!AllCalls -> CallRecord]
           /\ \A d \in Client!AllCalls \ {c} : asking'[d] = asking[d]
           /\ asking'[c].id = id /\ asking'[c].state = "waiting"
           /\ asking'[c].attempt = asking[c].attempt + 1
           /\ \E r \in Client!Requests : r.call = c /\ r.id = id /\ requests' = requests \cup {r}
           /\ asking[c].attempt \in Nat
  <1>1. asking \in [Client!AllCalls -> CallRecord]
    BY DEF Client!ClientInv, Client!ClientTyped, CallRecord
  <1>2. asking[c].attempt \in Nat
    BY <1>1 DEF CallRecord
  <1> DEFINE x == [state |-> "waiting", id |-> id, cursor |-> cursor, attempt |-> asking[c].attempt + 1]
             r == [call |-> c, id |-> id, cursor |-> cursor, attempt |-> asking[c].attempt + 1]
  <1>3. x \in CallRecord /\ x.id = id /\ x.state = "waiting" /\ x.attempt = asking[c].attempt + 1
    BY <1>2 DEF CallRecord, Client!States
  <1>4. r \in Client!Requests /\ r.call = c /\ r.id = id
    BY <1>2 DEF Client!Requests
  <1>5. asking' = [asking EXCEPT ![c] = x] /\ requests' = requests \cup {r}
    BY DEF Client!Calling
  <1> HIDE DEF x, r
  <1>q. QED  BY <1>1, <1>2, <1>3, <1>4, <1>5

LEMMA ActKeeps == ASSUME ClientAssumption, Client!ClientInv, NEW c \in Client!Generated,
                         Client!Act(c) PROVE Client!ClientInv'
  <1> PICK b \in Client!Windows : b = bound
    BY DEF Client!Act, Client!ClientInv, Client!ClientTyped, Client!Cursors
  <1> PICK n \in Nat : n = sequences[b]
    BY DEF Client!ClientInv, Client!ClientTyped
  <1> PICK id : id = <<b, n>>
    OBVIOUS
  <1>1. /\ Client!Calling(c, id, b) /\ Client!MayCall(c)
        /\ sequences' = [sequences EXCEPT ![b] = n + 1] /\ UNCHANGED <<bound, handle>>
        /\ UNCHANGED <<Client!server, responses, reopened>>
    BY DEF Client!Act, Client!Calling
  <1>2. c \in Client!AllCalls /\ c \in Commands /\ c \notin Client!Queries
        /\ id \in Client!Ids /\ b \in Client!Cursors
    BY DEF Client!Generated, Client!AllCalls, ClientAssumption, Client!Ids, Client!Cursors
  <1>3. /\ asking' \in [Client!AllCalls -> CallRecord]
        /\ \A d \in Client!AllCalls \ {c} : asking'[d] = asking[d]
        /\ asking'[c].id = id /\ asking'[c].state = "waiting"
        /\ asking'[c].attempt = asking[c].attempt + 1
        /\ \E r \in Client!Requests : r.call = c /\ r.id = id /\ requests' = requests \cup {r}
        /\ asking[c].attempt \in Nat
    BY <1>1, <1>2, CallingSends
  <1> PICK r \in Client!Requests : r.call = c /\ r.id = id /\ requests' = requests \cup {r}
    BY <1>3
  <1>4. asking[c].attempt = 0
    BY <1>1, <1>2, <1>3 DEF Client!MayCall, Client!Generated
  <1>5. Client!ServerTyped'
    BY <1>1 DEF Client!ClientInv, Client!ServerTyped, Client!server
  <1>6. Client!ClientTyped'
    BY <1>1, <1>3 DEF Client!ClientInv, Client!ClientTyped, CallRecord
  <1>7. \A d \in Commands : Client!Logged(d)' = Client!Logged(d)
    BY <1>1 DEF Client!Logged, Client!server
  <1>8. Client!Sent(c) = {} /\ Client!Logged(c) = {} /\ Client!Sent(c)' = {r}
    BY <1>4 DEF Client!ClientInv, Client!SentOnce, Client!Sent
  <1>9. \A d \in Commands \ {c} : Client!Sent(d)' = Client!Sent(d) /\ asking'[d] = asking[d]
    BY <1>3 DEF Client!Sent, Client!AllCalls
  <1>10. Client!SentOnce'
    BY <1>2, <1>3, <1>7, <1>8, <1>9 DEF Client!ClientInv, Client!SentOnce, Client!Generated
  <1>11. Client!SameId'
    BY <1>1, <1>7, <1>9 DEF Client!ClientInv, Client!SameId, ClientAssumption, Client!Generated,
       Client!server
  <1>12. Client!CountedOnce'
    BY <1>7 DEF Client!ClientInv, Client!CountedOnce
  <1>13. Client!AnswersHonest'
    BY <1>1, <1>3, <1>7, <1>9 DEF Client!ClientInv, Client!AnswersHonest
  <1>14. Client!IdsCounted'
    <2> SUFFICES ASSUME reopened' = 0
                 PROVE  /\ \A d \in Client!Generated : asking'[d].id # None =>
                              \E w \in Client!Windows : \E m \in Nat : asking'[d].id = <<w, m>> /\ m < sequences'[w]
                        /\ Client!FreshIds'
      BY DEF Client!IdsCounted
    <2>1. sequences'[b] = n + 1 /\ \A w \in Client!Windows \ {b} : sequences'[w] = sequences[w]
      BY <1>1 DEF Client!ClientInv, Client!ClientTyped
    <2>2. ASSUME NEW d \in Client!Generated \ {c}, asking'[d].id # None
          PROVE  /\ asking'[d].id # id
                 /\ \E w \in Client!Windows : \E m \in Nat : asking'[d].id = <<w, m>> /\ m < sequences'[w]
      <3> PICK w \in Client!Windows : \E m \in Nat : asking[d].id = <<w, m>> /\ m < sequences[w]
        BY <1>1, <1>9, <2>2 DEF Client!ClientInv, Client!IdsCounted, Client!Generated
      <3> PICK m \in Nat : asking[d].id = <<w, m>> /\ m < sequences[w]
        OBVIOUS
      <3>1. asking'[d].id = <<w, m>>
        BY <1>9 DEF Client!Generated
      <3>2. m < sequences'[w]
        BY <2>1
      <3>3. <<w, m>> # <<b, n>>
        OBVIOUS
      <3>q. QED  BY <3>1, <3>2, <3>3
    <2>3. n < sequences'[b]
      BY <2>1
    <2>4. ASSUME NEW d \in Client!Generated, NEW e \in Client!Generated, d # e, asking'[d].id # None
          PROVE  asking'[d].id # asking'[e].id
      <3>1. CASE d = c
        BY <1>3, <2>2, <2>4, <3>1
      <3>2. CASE d # c /\ e = c
        BY <1>3, <2>2, <2>4, <3>2
      <3>3. CASE d # c /\ e # c
        BY <1>1, <1>9, <2>4, <3>3 DEF Client!ClientInv, Client!IdsCounted, Client!FreshIds,
           Client!Generated
      <3>q. QED  BY <3>1, <3>2, <3>3
    <2>q. QED  BY <1>3, <2>2, <2>3, <2>4 DEF Client!FreshIds, Client!Generated
  <1>q. QED  BY <1>5, <1>6, <1>10, <1>11, <1>12, <1>13, <1>14 DEF Client!ClientInv

LEMMA ActExplicitKeeps ==
    ASSUME ClientAssumption, Client!ClientInv, NEW c \in Explicit,
           Client!ActExplicit(c) PROVE Client!ClientInv'
  <1> PICK id : id = <<None, c>>
    OBVIOUS
  <1> PICK cursor : cursor = IF asking[c].cursor # None THEN asking[c].cursor ELSE bound
    OBVIOUS
  <1>1. /\ Client!Calling(c, id, cursor) /\ UNCHANGED <<bound, handle, sequences>>
        /\ UNCHANGED <<Client!server, responses, reopened>>
    BY DEF Client!ActExplicit, Client!Calling, Client!handle
  <1>2. c \in Client!AllCalls /\ c \in Commands /\ c \notin Client!Generated /\ id \in Client!Ids
    BY DEF Client!Generated, Client!AllCalls, ClientAssumption, Client!Ids
  <1>3. cursor \in Client!Cursors
    BY <1>2 DEF Client!ClientInv, Client!ClientTyped
  <1>4. /\ asking' \in [Client!AllCalls -> CallRecord]
        /\ \A d \in Client!AllCalls \ {c} : asking'[d] = asking[d]
        /\ asking'[c].id = id /\ asking'[c].state = "waiting"
        /\ asking'[c].attempt = asking[c].attempt + 1
        /\ \E r \in Client!Requests : r.call = c /\ r.id = id /\ requests' = requests \cup {r}
        /\ asking[c].attempt \in Nat
    BY <1>1, <1>2, <1>3, CallingSends
  <1> PICK r \in Client!Requests : r.call = c /\ r.id = id /\ requests' = requests \cup {r}
    BY <1>4
  <1>5. Client!ServerTyped'
    BY <1>1 DEF Client!ClientInv, Client!ServerTyped, Client!server
  <1>6. Client!ClientTyped'
    BY <1>1, <1>4 DEF Client!ClientInv, Client!ClientTyped, CallRecord
  <1>7. \A d \in Commands : Client!Logged(d)' = Client!Logged(d)
    BY <1>1 DEF Client!Logged, Client!server
  <1>8. \A d \in Commands \ {c} : Client!Sent(d)' = Client!Sent(d) /\ asking'[d] = asking[d]
    BY <1>4 DEF Client!Sent, Client!AllCalls
  <1>9. Client!Sent(c)' = Client!Sent(c) \cup {r}
    BY DEF Client!Sent
  <1>10. Client!SentOnce'
    BY <1>2, <1>7, <1>8 DEF Client!ClientInv, Client!SentOnce, Client!Generated
  <1>11. Client!SameId'
    BY <1>1, <1>7, <1>8, <1>9 DEF Client!ClientInv, Client!SameId, ClientAssumption, Client!server
  <1>12. Client!CountedOnce'
    BY <1>7 DEF Client!ClientInv, Client!CountedOnce
  <1>13. Client!AnswersHonest'
    BY <1>1, <1>4, <1>7, <1>8 DEF Client!ClientInv, Client!AnswersHonest
  <1>14. Client!IdsCounted'
    BY <1>1, <1>2, <1>8 DEF Client!ClientInv, Client!IdsCounted, Client!FreshIds, Client!Generated
  <1>q. QED  BY <1>5, <1>6, <1>10, <1>11, <1>12, <1>13, <1>14 DEF Client!ClientInv

LEMMA QueryKeeps ==
    ASSUME ClientAssumption, Client!ClientInv, NEW c \in Client!Queries, Client!Calling(c,
           None, None), UNCHANGED Client!handle
    PROVE  Client!ClientInv'
  <1>1. c \in Client!AllCalls /\ c \notin Commands /\ None \in Client!Ids /\ None \in Client!Cursors
    BY DEF Client!AllCalls, ClientAssumption, Client!Ids, Client!Cursors
  <1>2. /\ asking' \in [Client!AllCalls -> CallRecord]
        /\ \A d \in Client!AllCalls \ {c} : asking'[d] = asking[d]
        /\ \E r \in Client!Requests : r.call = c /\ r.id = None /\ requests' = requests \cup {r}
    BY <1>1, CallingSends
  <1>3. UNCHANGED <<Client!server, responses, reopened>>
    BY DEF Client!Calling
  <1>4. Client!ClientTyped'
    BY <1>2, <1>3 DEF Client!ClientInv, Client!ClientTyped, CallRecord, Client!handle
  <1>5. Quiet
    BY <1>1, <1>2, <1>3, <1>4 DEF Quiet, Client!server, Client!handle, Client!ClientInv,
       Client!ServerTyped, Client!AllCalls
  <1>q. QED  BY <1>5, QuietKeeps

\* Steps of the handle that touch no call.
LEMMA HandleKeeps ==
    ASSUME ClientAssumption, Client!ClientInv,
           Client!ObserveInitial \/ Client!Close \/ Client!Advance \/ (\E r \in Client!Existing : Client!Adopt(r))
           \/ \E w \in 0..window : Client!Restore(w)
    PROVE  Client!ClientInv'
  <1>1. 0..window \subseteq Client!Windows /\ window \in Client!Windows
    BY DEF Client!ClientInv, Client!ServerTyped, Client!Windows, ClientAssumption
  <1>2. /\ UNCHANGED <<accepted, sequences, asking, requests, responses, reopened>>
        /\ over' = over /\ window' \in Client!Windows
        /\ handle' \in {"none", "active", "terminal", "finalized", "closed"}
        /\ bound' \in Client!Cursors
    <2>1. CASE Client!ObserveInitial
      BY <1>1, <2>1 DEF Client!ObserveInitial, Client!StatusAfter, Client!ClientInv,
         Client!ClientTyped, Client!server
    <2>2. CASE Client!Close
      BY <1>1, <2>2 DEF Client!Close, Client!ClientInv, Client!ClientTyped, Client!server
    <2>3. CASE Client!Advance
      BY <1>1, <2>3 DEF Client!Advance, Client!ClientInv, Client!ClientTyped, Client!handle,
         Client!Windows, ClientAssumption
    <2>4. ASSUME NEW r \in Client!Existing,
                 Client!Adopt(r) PROVE <1>2!1 /\ <1>2!2 /\ <1>2!3 /\ <1>2!4
      <3>1. r.window \in Client!Windows
        BY <1>1 DEF Client!Existing
      <3>q. QED
        BY <1>1, <2>4, <3>1 DEF Client!Adopt, Client!ClientInv, Client!ClientTyped,
           Client!server, Client!Cursors
    <2>5. ASSUME NEW w \in 0..window, Client!Restore(w) PROVE <1>2!1 /\ <1>2!2 /\ <1>2!3 /\ <1>2!4
      BY <1>1, <2>5 DEF Client!Restore, Client!ClientInv, Client!ClientTyped, Client!server,
         Client!Cursors
    <2>q. QED  BY <2>1, <2>2, <2>3, <2>4, <2>5
  <1>3. Quiet
    BY <1>2 DEF Quiet, Client!ClientInv, Client!ServerTyped, Client!ClientTyped
  <1>q. QED  BY <1>3, QuietKeeps

LEMMA StateChanges ==
    ASSUME Client!ClientInv, NEW c \in Client!AllCalls, NEW s \in Client!States,
           asking' = [asking EXCEPT ![c].state = s]
    PROVE  /\ asking' \in [Client!AllCalls -> CallRecord]
           /\ \A d \in Client!AllCalls \ {c} : asking'[d] = asking[d]
           /\ asking'[c].id = asking[c].id /\ asking'[c].attempt = asking[c].attempt
           /\ asking'[c].state = s
  <1>1. asking \in [Client!AllCalls -> CallRecord]
    BY DEF Client!ClientInv, Client!ClientTyped, CallRecord
  <1> PICK x \in CallRecord : x = asking[c]
    BY <1>1
  <1> PICK y : y = [x EXCEPT !.state = s]
    OBVIOUS
  <1>2. y \in CallRecord /\ y.id = x.id /\ y.attempt = x.attempt /\ y.state = s
    BY DEF CallRecord
  <1>3. asking' = [asking EXCEPT ![c] = y]
    OBVIOUS
  <1>q. QED  BY <1>1, <1>2, <1>3

LEMMA TimeOutKeeps == ASSUME ClientAssumption, Client!ClientInv, NEW c \in Client!AllCalls,
                             Client!TimeOut(c) PROVE Client!ClientInv'
  <1> PICK s \in {"failed", "idle"} : s = IF c \in Commands \ Explicit THEN "failed" ELSE "idle"
    OBVIOUS
  <1>1. asking' = [asking EXCEPT ![c].state = s] /\ responses' \subseteq responses
        /\ UNCHANGED <<Client!server, Client!handle, requests, reopened>>
    BY DEF Client!TimeOut
  <1>2. s \in Client!States
    BY DEF Client!States
  <1>3. /\ asking' \in [Client!AllCalls -> CallRecord]
        /\ \A d \in Client!AllCalls \ {c} : asking'[d] = asking[d]
        /\ asking'[c].id = asking[c].id /\ asking'[c].attempt = asking[c].attempt
        /\ asking'[c].state = s
    BY <1>1, <1>2, StateChanges
  <1>4. Client!ClientTyped'
    BY <1>1, <1>3 DEF Client!ClientInv, Client!ClientTyped, CallRecord, Client!handle
  <1>5. Quiet
    BY <1>1, <1>3, <1>4 DEF Quiet, Client!server, Client!handle, Client!ClientInv,
       Client!ServerTyped, Client!AllCalls
  <1>q. QED  BY <1>5, QuietKeeps

LEMMA RestartKeeps == ASSUME ClientAssumption, Client!ClientInv,
                             Client!Restart PROVE Client!ClientInv'
  <1>1. asking \in [Client!AllCalls -> CallRecord]
    BY DEF Client!ClientInv, Client!ClientTyped, CallRecord
  <1> DEFINE now(c) == IF asking[c].state # "waiting" THEN asking[c]
                       ELSE [asking[c] EXCEPT !.state = IF c \in Commands \ Explicit THEN "failed" ELSE "idle"]
  <1>2. asking' = [c \in Client!AllCalls |-> now(c)]
    BY DEF Client!Restart
  <1>3. ASSUME NEW c \in Client!AllCalls
        PROVE  /\ now(c) \in CallRecord /\ now(c).id = asking[c].id
               /\ now(c).attempt = asking[c].attempt
               /\ now(c).state = "answered" => asking[c].state = "answered"
    <2> PICK x \in CallRecord : x = asking[c]
      BY <1>1
    <2> PICK s \in {"failed", "idle"} : s = IF c \in Commands \ Explicit THEN "failed" ELSE "idle"
      OBVIOUS
    <2> PICK y : y = [x EXCEPT !.state = s]
      OBVIOUS
    <2>1. y \in CallRecord /\ y.id = x.id /\ y.attempt = x.attempt /\ y.state = s
      BY DEF CallRecord, Client!States
    <2>2. now(c) = IF x.state # "waiting" THEN x ELSE y
      OBVIOUS
    <2> HIDE DEF now
    <2>q. QED  BY <2>1, <2>2
  <1> HIDE DEF now
  <1>4. /\ asking' \in [Client!AllCalls -> CallRecord]
        /\ \A c \in Client!AllCalls :
              /\ asking'[c].id = asking[c].id /\ asking'[c].attempt = asking[c].attempt
              /\ asking'[c].state = "answered" => asking[c].state = "answered"
    BY <1>2, <1>3
  <1>5. /\ reopened' = reopened + 1 /\ bound' = None /\ sequences' = [w \in Client!Windows |-> 0]
        /\ handle' = "none" /\ responses' = {} /\ UNCHANGED <<Client!server, requests>>
    BY DEF Client!Restart
  <1>6. reopened \in Nat
    BY DEF Client!ClientInv, Client!ClientTyped
  <1>7. Client!ClientTyped'
    BY <1>4, <1>5, <1>6 DEF Client!ClientTyped, CallRecord, Client!Cursors
  <1>8. Quiet
    BY <1>4, <1>5, <1>6, <1>7 DEF Quiet, Client!server, Client!ClientInv, Client!ServerTyped,
       Client!AllCalls
  <1>q. QED  BY <1>8, QuietKeeps

LEMMA ClientReceiveKeeps == ASSUME ClientAssumption, Client!ClientInv, NEW r \in responses,
                                   Client!Receive(r) PROVE Client!ClientInv'
  <1> PICK s \in {"idle", "answered", "failed"} :
          s = IF r.call \in Client!Queries THEN "idle" ELSE IF r.ok THEN "answered" ELSE "failed"
    OBVIOUS
  <1>1. /\ responses' = responses \ {r} /\ asking' = [asking EXCEPT ![r.call].state = s]
        /\ UNCHANGED <<Client!server, sequences, requests, reopened>>
    BY DEF Client!Receive
  <1>2. r.call \in Client!AllCalls /\ r.window \in Client!Windows /\ s \in Client!States
    BY DEF Client!ClientInv, Client!ServerTyped, Client!Responses, Client!States
  <1>3. /\ bound' \in {bound, r.window}
        /\ handle' \in {handle, "terminal", "active", "finalized"}
    BY DEF Client!Receive, Client!Shown, Client!Remember, Client!StatusAfter, Client!Finalized,
       Client!Attached
  <1>4. /\ asking' \in [Client!AllCalls -> CallRecord]
        /\ \A d \in Client!AllCalls \ {r.call} : asking'[d] = asking[d]
        /\ asking'[r.call].id = asking[r.call].id
        /\ asking'[r.call].attempt = asking[r.call].attempt
        /\ asking'[r.call].state = s
    <2> PICK c \in Client!AllCalls : c = r.call
      BY <1>2
    <2>0. c \in Client!AllCalls /\ s \in Client!States
      BY <1>2
    <2>1. asking' = [asking EXCEPT ![c].state = s]
      BY <1>1
    <2>2. /\ asking' \in [Client!AllCalls -> CallRecord]
          /\ \A d \in Client!AllCalls \ {c} : asking'[d] = asking[d]
          /\ asking'[c].id = asking[c].id /\ asking'[c].attempt = asking[c].attempt
          /\ asking'[c].state = s
      BY ONLY <2>0, <2>1, Client!ClientInv, StateChanges
    <2>q. QED  BY <2>2
  <1>5. Client!ClientTyped'
    BY <1>1, <1>2, <1>3, <1>4 DEF Client!ClientInv, Client!ClientTyped, CallRecord, Client!Cursors
  <1>6. s = "answered" /\ r.call \in Commands => Client!Logged(r.call) # {}
    BY DEF Client!ClientInv, Client!AnswersHonest, ClientAssumption
  <1>7. Quiet
    BY <1>1, <1>4, <1>5, <1>6 DEF Quiet, Client!server, Client!ClientInv, Client!ServerTyped,
       Client!AllCalls
  <1>q. QED  BY <1>7, QuietKeeps

\* An answer is a response to the request, or none.
LEMMA Answered ==
    ASSUME NEW r \in Client!Requests, NEW ok \in BOOLEAN, Client!Answer(r, ok),
           window' \in Client!Windows, over' \in Client!Overs
    PROVE  \A a \in responses' \ responses : a \in Client!Responses /\ a.call = r.call /\ a.ok = ok
  <1> DEFINE a == [call |-> r.call, attempt |-> r.attempt, ok |-> ok, window |-> window', over |-> over']
  <1>1. a \in Client!Responses /\ a.call = r.call /\ a.ok = ok
    BY DEF Client!Responses, Client!Requests
  <1>2. responses' \subseteq responses \cup {a}
    BY DEF Client!Answer
  <1>q. QED  BY <1>1, <1>2

LEMMA ServeKnownKeeps ==
    ASSUME ClientAssumption, Client!ClientInv, NEW r \in requests,
           Client!ServeKnown(r) PROVE Client!ClientInv'
  <1> PICK ok \in BOOLEAN : ok = (Client!CommandOf(r.id) = r.call)
    OBVIOUS
  <1>1. /\ r.call \in Commands /\ Client!Known(r.id)
        /\ requests' = requests \ {r} /\ Client!Answer(r, ok)
        /\ UNCHANGED <<Client!server, Client!handle, asking, reopened>>
    BY DEF Client!ServeKnown
  <1>2. r \in Client!Requests /\ window' \in Client!Windows
        /\ over' \in Client!Overs /\ responses \subseteq Client!Responses
    BY <1>1 DEF Client!ClientInv, Client!ServerTyped, Client!server
  <1>3. \A a \in responses' \ responses : a \in Client!Responses /\ a.call = r.call /\ a.ok = ok
    BY <1>1, <1>2, Answered
  <1>4. ok => Client!Logged(r.call) # {}
    <2> SUFFICES ASSUME ok PROVE Client!Logged(r.call) # {}
      OBVIOUS
    <2> DEFINE k == CHOOSE j \in DOMAIN accepted : accepted[j].id = r.id
    <2>1. k \in DOMAIN accepted
      BY <1>1 DEF Client!Known
    <2>2. accepted[k].cmd = r.call
      BY DEF Client!CommandOf
    <2>q. QED  BY <2>1, <2>2 DEF Client!Logged
  <1>5. Client!ClientTyped'
    BY <1>1 DEF Client!ClientInv, Client!ClientTyped, Client!handle
  <1>6. Quiet
    BY <1>1, <1>2, <1>3, <1>4, <1>5 DEF Quiet, Client!server, Client!handle, Client!ClientInv,
       Client!ServerTyped
  <1>q. QED  BY <1>6, QuietKeeps

LEMMA ServeOtherKeeps ==
    ASSUME ClientAssumption, Client!ClientInv, NEW r \in requests,
           Client!ServeOther(r) PROVE Client!ClientInv'
  <1> PICK ok \in BOOLEAN : ok = (r.call # "finalize" \/ over' = "finalized")
    OBVIOUS
  <1>1. /\ r.call \notin Commands /\ requests' = requests \ {r} /\ Client!Answer(r, ok)
        /\ accepted' = accepted /\ window' = window /\ over' \in {over, "finalized"}
        /\ UNCHANGED <<Client!handle, asking, reopened>>
    BY DEF Client!ServeOther, Client!server
  <1>2. r \in Client!Requests /\ window' \in Client!Windows
        /\ over' \in Client!Overs /\ responses \subseteq Client!Responses
    BY <1>1 DEF Client!ClientInv, Client!ServerTyped, Client!Overs
  <1>3. \A a \in responses' \ responses : a \in Client!Responses /\ a.call = r.call
    BY <1>1, <1>2, Answered
  <1>4. Client!ClientTyped'
    BY <1>1 DEF Client!ClientInv, Client!ClientTyped, Client!handle
  <1>5. Quiet
    BY <1>1, <1>2, <1>3, <1>4 DEF Quiet, Client!handle, Client!ClientInv, Client!ServerTyped
  <1>q. QED  BY <1>5, QuietKeeps

LEMMA ServeNewKeeps ==
    ASSUME ClientAssumption, Client!ClientInv, NEW r \in requests,
           Client!ServeNew(r) PROVE Client!ClientInv'
  <1>1. /\ r.call \in Commands /\ ~Client!Known(r.id) /\ requests' = requests \ {r}
        /\ UNCHANGED <<Client!handle, asking, reopened>>
    BY DEF Client!ServeNew
  <1>2. r \in Client!Requests /\ window \in Client!Windows
        /\ over \in Client!Overs /\ responses \subseteq Client!Responses
    BY DEF Client!ClientInv, Client!ServerTyped
  <1>3. Client!ClientTyped'
    BY <1>1 DEF Client!ClientInv, Client!ClientTyped, Client!handle
  <1>4. CASE UNCHANGED Client!server /\ Client!Answer(r, FALSE)
    <2> PICK ok \in BOOLEAN : ok = FALSE
      OBVIOUS
    <2>1. \A a \in responses' \ responses : a \in Client!Responses /\ a.ok = ok
      BY <1>2, <1>4, Answered DEF Client!server
    <2>2. Quiet
      BY <1>1, <1>2, <1>3, <1>4, <2>1 DEF Quiet, Client!server, Client!handle, Client!ClientInv,
         Client!ServerTyped
    <2>q. QED  BY <2>2, QuietKeeps
  <1>5. CASE /\ accepted' = Append(accepted, [id |-> r.id, cmd |-> r.call])
             /\ window' \in {w \in {window, window + 1} : w <= MaxWindow}
             /\ over' = IF r.call \in Ending THEN "terminal" ELSE over
             /\ Client!Answer(r, TRUE)
    <2> PICK ok \in BOOLEAN : ok = TRUE
      OBVIOUS
    <2> PICK e : e = [id |-> r.id, cmd |-> r.call]
      OBVIOUS
    <2>1. e \in [id : Client!Ids, cmd : Commands] /\ e.id = r.id /\ e.cmd = r.call
      BY <1>1, <1>2 DEF Client!Requests
    <2>2. window' \in Client!Windows /\ over' \in Client!Overs
      BY <1>2, <1>5 DEF Client!Windows, Client!Overs, ClientAssumption
    <2>3. \A a \in responses' \ responses : a \in Client!Responses /\ a.call = r.call
      BY <1>2, <1>5, <2>2, Answered
    <2>4. accepted \in Seq([id : Client!Ids, cmd : Commands])
      BY DEF Client!ClientInv, Client!ServerTyped
    <2>5. accepted' = Append(accepted, e)
      BY <1>5
    <2>6. Client!ServerTyped'
      BY <1>1, <1>2, <2>1, <2>2, <2>3, <2>4, <2>5 DEF Client!ClientInv, Client!ServerTyped
    <2> PICK n \in Nat : n = Len(accepted) + 1
      BY <2>4
    <2>7. /\ \A k \in DOMAIN accepted : k \in DOMAIN accepted' /\ accepted'[k] = accepted[k]
          /\ DOMAIN accepted' = DOMAIN accepted \cup {n} /\ accepted'[n] = e
          /\ n \notin DOMAIN accepted
      BY <2>1, <2>4, <2>5
    <2>8. Client!Logged(r.call)' = Client!Logged(r.call) \cup {n}
      BY <2>1, <2>7 DEF Client!Logged
    <2>9. \A c \in Commands : c # r.call => Client!Logged(c)' = Client!Logged(c)
      BY <2>1, <2>7 DEF Client!Logged
    <2>10. Client!Logged(r.call) = {}
      <3>1. CASE r.call \in Explicit
        <4>1. r \in Client!Sent(r.call)
          BY DEF Client!Sent
        <4>2. r.id = <<None, r.call>> /\ \A k \in Client!Logged(r.call) : accepted[k].id = <<None, r.call>>
          BY <3>1, <4>1 DEF Client!ClientInv, Client!SameId
        <4>q. QED  BY <1>1, <4>2 DEF Client!Known, Client!Logged
      <3>2. CASE r.call \notin Explicit
        <4>1. r \in Client!Sent(r.call)
          BY DEF Client!Sent
        <4>q. QED  BY <1>1, <3>2, <4>1 DEF Client!ClientInv, Client!SentOnce, Client!Generated
      <3>q. QED  BY <3>1, <3>2
    <2>11. \A c \in Commands : Client!Sent(c)' = Client!Sent(c) \ {r}
      BY <1>1 DEF Client!Sent
    <2>12. Client!SentOnce'
      <3> SUFFICES ASSUME NEW c \in Client!Generated
                   PROVE  /\ asking'[c].attempt = 0 => Client!Sent(c)' = {} /\ Client!Logged(c)' = {}
                          /\ Client!Sent(c)' # {} => Client!Logged(c)' = {}
                          /\ \A q, p \in Client!Sent(c)' : q = p
        BY DEF Client!SentOnce
      <3>1. c \in Commands /\ asking' = asking
        BY <1>1 DEF Client!Generated
      <3>2. /\ asking[c].attempt = 0 => Client!Sent(c) = {} /\ Client!Logged(c) = {}
            /\ Client!Sent(c) # {} => Client!Logged(c) = {}
            /\ \A q, p \in Client!Sent(c) : q = p
        BY DEF Client!ClientInv, Client!SentOnce
      <3>3. CASE c = r.call
        <4>1. r \in Client!Sent(c)
          BY <3>3 DEF Client!Sent
        <4>2. Client!Sent(c)' = {}
          BY <2>11, <3>1, <3>2, <4>1
        <4>q. QED  BY <3>1, <3>2, <4>1, <4>2
      <3>4. CASE c # r.call
        <4>1. Client!Sent(c)' \subseteq Client!Sent(c) /\ Client!Logged(c)' = Client!Logged(c)
          BY <2>9, <2>11, <3>1, <3>4
        <4>q. QED  BY <3>1, <3>2, <4>1
      <3>q. QED  BY <3>3, <3>4
    <2>13. Client!SameId'
      <3> SUFFICES ASSUME NEW c \in Explicit
                   PROVE  /\ \A q \in Client!Sent(c)' : q.id = <<None, c>>
                          /\ \A k \in Client!Logged(c)' : accepted'[k].id = <<None, c>>
        BY DEF Client!SameId
      <3>1. c \in Commands
        BY DEF ClientAssumption
      <3>2. /\ \A q \in Client!Sent(c) : q.id = <<None, c>>
            /\ \A k \in Client!Logged(c) : accepted[k].id = <<None, c>>
        BY DEF Client!ClientInv, Client!SameId
      <3>3. ASSUME NEW k \in Client!Logged(c)' PROVE accepted'[k].id = <<None, c>>
        <4>1. CASE k \in Client!Logged(c)
          <5>1. k \in DOMAIN accepted
            BY <4>1 DEF Client!Logged
          <5>q. QED  BY <2>7, <3>2, <4>1, <5>1
        <4>2. CASE k \notin Client!Logged(c)
          <5>1. c = r.call /\ k = n
            BY <2>8, <2>9, <3>1, <3>3, <4>2
          <5>2. r \in Client!Sent(c)
            BY <5>1 DEF Client!Sent
          <5>q. QED  BY <2>1, <2>7, <3>2, <5>1, <5>2
        <4>q. QED  BY <4>1, <4>2
      <3>q. QED  BY <2>11, <3>1, <3>2, <3>3
    <2>14. Client!CountedOnce'
      BY <2>8, <2>9, <2>10 DEF Client!ClientInv, Client!CountedOnce
    <2>15. Client!AnswersHonest'
      BY <1>1, <2>3, <2>8, <2>9 DEF Client!ClientInv, Client!AnswersHonest
    <2>16. Client!IdsCounted'
      BY <1>1 DEF Client!ClientInv, Client!IdsCounted, Client!FreshIds, Client!handle
    <2>q. QED  BY <1>3, <2>6, <2>12, <2>13, <2>14, <2>15, <2>16 DEF Client!ClientInv
  <1>q. QED  BY <1>4, <1>5 DEF Client!ServeNew

LEMMA ClientKept ==
    ClientAssumption /\ Client!ClientInv /\ [Client!Next]_(Client!vars) => Client!ClientInv'
  <1> SUFFICES ASSUME ClientAssumption, Client!ClientInv,
                      [Client!Next]_(Client!vars) PROVE Client!ClientInv'
    OBVIOUS
  <1>1. CASE UNCHANGED Client!vars
    <2>1. Client!ClientTyped'
      BY <1>1 DEF Client!vars, Client!ClientInv, Client!ClientTyped, Client!server, Client!handle
    <2>2. Quiet
      BY <1>1, <2>1 DEF Client!vars, Quiet, Client!server, Client!handle, Client!ClientInv,
         Client!ServerTyped
    <2>q. QED  BY <2>2, QuietKeeps
  <1>2. ASSUME NEW c \in Commands, Client!Act(c) \/ Client!ActExplicit(c) PROVE Client!ClientInv'
    <2>1. Client!Act(c) => c \in Client!Generated
      BY DEF Client!Act, Client!Generated
    <2>2. Client!ActExplicit(c) => c \in Explicit
      BY DEF Client!ActExplicit
    <2>q. QED  BY <1>2, <2>1, <2>2, ActKeeps, ActExplicitKeeps
  <1>3. CASE Client!Observe \/ Client!Attach \/ Client!Finalize
    <2> PICK c \in Client!Queries : Client!Calling(c, None, None)
      BY <1>3 DEF Client!Observe, Client!Attach, Client!Finalize, Client!Queries
    <2>1. UNCHANGED Client!handle
      BY <1>3 DEF Client!Observe, Client!Attach, Client!Finalize
    <2>q. QED  BY <2>1, QueryKeeps
  <1>q. QED
    BY <1>1, <1>2, <1>3, HandleKeeps, TimeOutKeeps, RestartKeeps, ClientReceiveKeeps,
       ServeKnownKeeps,
       ServeNewKeeps, ServeOtherKeeps DEF Client!Next

LEMMA ClientHolds ==
    ClientAssumption /\ Client!ClientInv
        => Client!TypeOK /\ Client!CommandsCountOnce /\ Client!FreshIds
  <1> SUFFICES ASSUME ClientAssumption, Client!ClientInv PROVE Client!TypeOK /\ Client!CommandsCountOnce
  /\ Client!FreshIds
    OBVIOUS
  <1>1. Client!TypeOK
    BY DEF Client!ClientInv, Client!ClientTyped, Client!TypeOK, Client!Cursors, Client!States
  <1>2. \A j, k \in DOMAIN accepted : accepted[j].cmd = accepted[k].cmd => j = k
    <2> SUFFICES ASSUME NEW j \in DOMAIN accepted, NEW k \in DOMAIN accepted,
                        accepted[j].cmd = accepted[k].cmd PROVE j = k
      OBVIOUS
    <2>1. accepted[j].cmd \in Commands
      <3>1. accepted \in Seq([id : Client!Ids, cmd : Commands])
        BY DEF Client!ClientInv, Client!ServerTyped
      <3>2. accepted[j] \in [id : Client!Ids, cmd : Commands]
        BY <3>1, SeqEntry
      <3>q. QED  BY <3>2
    <2>q. QED  BY <2>1 DEF Client!ClientInv, Client!CountedOnce, Client!Logged
  <1>3. \A c \in Commands : asking[c].state = "answered" => \E k \in DOMAIN accepted : accepted[k].cmd = c
    BY DEF Client!ClientInv, Client!AnswersHonest, Client!Logged
  <1>4. Client!FreshIds
    BY DEF Client!ClientInv, Client!IdsCounted, Client!FreshIds
  <1>q. QED  BY <1>1, <1>2, <1>3, <1>4 DEF Client!CommandsCountOnce

-----------------------------------------------------------------------------
(***************************************************************************)
(* Reducer states: a state is live, in one draft, given back, or lost, and *)
(* its count says which.                                                   *)
(***************************************************************************)

LEMMA UnreleasedKeepsInUse == Forks!Unreleased => Forks!InUseKept
  BY DEF Forks!Unreleased, Forks!InUseKept, Forks!InUse, Forks!Opened

LEMMA ForksBegin ==
    ASSUME MaxMade \in Nat, MaxMade >= 2
    PROVE  Forks!Init => Forks!ForksInv
  <1> SUFFICES ASSUME Forks!Init PROVE Forks!ForksInv
    OBVIOUS
  <1>1. Forks!Shape
    BY DEF Forks!Init, Forks!Shape, Forks!Opened
  <1>2. Forks!Apart
    BY DEF Forks!Init, Forks!Apart, Forks!Opened
  <1>3. Forks!Unreleased
    BY DEF Forks!Init, Forks!Unreleased, Forks!Opened
  <1>4. QED BY <1>1, <1>2, <1>3 DEF Forks!ForksInv

\* Releasing changes the count of the states named and of no other.
LEMMA ReleaseOnly ==
    ASSUME released \in [1..MaxMade -> Nat], NEW A, NEW B, Forks!ReleaseTwice(A, B)
    PROVE  /\ released' \in [1..MaxMade -> Nat]
           /\ \A i \in 1..MaxMade : i \notin A /\ i \notin B => released'[i] = released[i]
  BY DEF Forks!ReleaseTwice

-----------------------------------------------------------------------------
\* A step that makes states, may give some of them back, and opens at most one draft that
\* holds others of them.
Making(m) ==
    /\ forked' = m /\ m \in Nat /\ forked <= m /\ m <= MaxMade
    /\ released' \in [1..MaxMade -> Nat]
    /\ live' = live

LEMMA MakingKeeps ==
    ASSUME MaxMade \in Nat, Forks!ForksInv, NEW m, Making(m), drafts' = drafts,
           \A i \in 1..MaxMade : released'[i] # released[i] => i > forked /\ i <= m
    PROVE  Forks!ForksInv'
  <1> USE DEF Forks!ForksInv, Making
  <1>1. Forks!Shape'
    BY DEF Forks!Shape, Forks!Opened
  <1>2. Forks!Apart'
    BY DEF Forks!Apart, Forks!Opened
  <1>3. Forks!Unreleased'
    <2>1. released'[live'] = 0
      BY DEF Forks!Shape, Forks!Unreleased
    <2>2. ASSUME NEW s \in Slots, Forks!Opened(s)', NEW i \in drafts'[s].drafts
          PROVE  released'[i] = 0
      <3>1. Forks!Opened(s) /\ i \in drafts[s].drafts /\ i \in 1..forked
        BY <2>2 DEF Forks!Opened, Forks!Shape
      <3>2. QED BY <3>1 DEF Forks!Unreleased, Forks!Shape
    <2>3. ASSUME NEW i \in 1..MaxMade, i > forked'
          PROVE  released'[i] = 0
      BY <2>3 DEF Forks!Unreleased, Forks!Shape
    <2>4. QED BY <2>1, <2>2, <2>3 DEF Forks!Unreleased
  <1>4. QED BY <1>1, <1>2, <1>3

LEMMA OpeningKeeps ==
    ASSUME MaxMade \in Nat, Forks!ForksInv, NEW m, Making(m), NEW s \in Slots, NEW p,
           drafts' = [drafts EXCEPT ![s] = p],
           p.drafts \subseteq (forked + 1)..m, p.next \in p.drafts,
           \A i \in 1..MaxMade : released'[i] # released[i] =>
               i > forked /\ i <= m /\ i \notin p.drafts
    PROVE  Forks!ForksInv'
  <1> USE DEF Forks!ForksInv, Making
  <1>1. drafts'[s] = p /\ \A t \in Slots \ {s} : drafts'[t] = drafts[t]
    BY DEF Forks!Shape
  <1>2. \A i \in p.drafts : i \in 1..MaxMade /\ i > forked /\ i <= m
    BY DEF Forks!Shape
  <1>3. Forks!Shape'
    <2>1. drafts' = [t \in Slots |-> drafts'[t]]
      BY DEF Forks!Shape
    <2>2. ASSUME NEW t \in Slots, Forks!Opened(t)'
          PROVE  drafts'[t].drafts \subseteq 1..m /\ drafts'[t].next \in drafts'[t].drafts
      <3>1. CASE t = s
        BY <3>1, <1>1, <1>2
      <3>2. CASE t # s
        BY <3>2, <2>2, <1>1 DEF Forks!Opened, Forks!Shape
      <3>3. QED BY <3>1, <3>2
    <2>3. QED BY <2>1, <2>2 DEF Forks!Shape
  <1>4. Forks!Apart'
    <2>1. ASSUME NEW t \in Slots, Forks!Opened(t)'
          PROVE  live' \notin drafts'[t].drafts
      <3>1. CASE t = s
        BY <3>1, <1>1, <1>2 DEF Forks!Shape
      <3>2. CASE t # s
        BY <3>2, <2>1, <1>1 DEF Forks!Opened, Forks!Apart
      <3>3. QED BY <3>1, <3>2
    <2>2. ASSUME NEW t \in Slots, Forks!Opened(t)', NEW u \in Slots \ {t}, Forks!Opened(u)',
                 NEW i \in drafts'[t].drafts, i \in drafts'[u].drafts
          PROVE  FALSE
      <3>1. CASE t = s
        <4>1. i > forked /\ Forks!Opened(u) /\ i \in drafts[u].drafts
          BY <3>1, <2>2, <1>1, <1>2 DEF Forks!Opened
        <4>2. QED BY <4>1 DEF Forks!Shape
      <3>2. CASE u = s
        <4>1. i > forked /\ Forks!Opened(t) /\ i \in drafts[t].drafts
          BY <3>2, <2>2, <1>1, <1>2 DEF Forks!Opened
        <4>2. QED BY <4>1 DEF Forks!Shape
      <3>3. CASE t # s /\ u # s
        <4>1. /\ Forks!Opened(t) /\ Forks!Opened(u)
              /\ i \in drafts[t].drafts /\ i \in drafts[u].drafts
          BY <3>3, <2>2, <1>1 DEF Forks!Opened
        <4>2. QED BY <4>1 DEF Forks!Apart
      <3>4. QED BY <3>1, <3>2, <3>3
    <2>3. QED BY <2>1, <2>2 DEF Forks!Apart
  <1>5. Forks!Unreleased'
    <2>1. released'[live'] = 0
      BY DEF Forks!Shape, Forks!Unreleased
    <2>2. ASSUME NEW t \in Slots, Forks!Opened(t)', NEW i \in drafts'[t].drafts
          PROVE  released'[i] = 0
      <3>1. CASE t = s
        BY <3>1, <2>2, <1>1, <1>2 DEF Forks!Unreleased
      <3>2. CASE t # s
        <4>1. Forks!Opened(t) /\ i \in drafts[t].drafts /\ i \in 1..forked
          BY <3>2, <2>2, <1>1 DEF Forks!Opened, Forks!Shape
        <4>2. QED BY <4>1 DEF Forks!Unreleased, Forks!Shape
      <3>3. QED BY <3>1, <3>2
    <2>3. ASSUME NEW i \in 1..MaxMade, i > forked'
          PROVE  released'[i] = 0
      BY <2>3 DEF Forks!Unreleased, Forks!Shape
    <2>4. QED BY <2>1, <2>2, <2>3 DEF Forks!Unreleased
  <1>6. QED BY <1>3, <1>4, <1>5

-----------------------------------------------------------------------------
\* The prepare operations

LEMMA UnchangedKeeps ==
    ASSUME MaxMade \in Nat, Forks!ForksInv, NEW s \in Slots, NEW noop, NEW ok \in BOOLEAN,
           Forks!PrepareUnchanged(s, noop, ok)
    PROVE  Forks!ForksInv'
  <1> DEFINE d == forked + 1
  <1>1. /\ forked' = d /\ d \in Nat /\ d <= MaxMade /\ live' = live
        /\ released \in [1..MaxMade -> Nat]
    BY DEF Forks!PrepareUnchanged, Forks!Create, Forks!ForksInv, Forks!Shape
  <1>2. CASE ok
    <2> DEFINE p == [base |-> live, next |-> d, noop |-> noop, drafts |-> {d}]
    <2>1. drafts' = [drafts EXCEPT ![s] = p] /\ released' = released
      BY <1>2 DEF Forks!PrepareUnchanged, Forks!Open, Forks!TakeDraftResources
    <2>2. p.drafts = {d} /\ p.next = d
      OBVIOUS
    <2>3. Making(d)
      BY <1>1, <2>1 DEF Making, Forks!ForksInv, Forks!Shape
    <2> HIDE DEF p
    <2>4. p.drafts \subseteq (forked + 1)..d /\ p.next \in p.drafts
      BY <1>1, <2>2 DEF Forks!ForksInv, Forks!Shape
    <2>5. QED BY <2>1, <2>3, <2>4, OpeningKeeps
  <1>3. CASE ~ok
    <2>1. Forks!ReleaseTwice({d}, {}) /\ drafts' = drafts
      BY <1>3 DEF Forks!PrepareUnchanged, Forks!Release
    <2>2. /\ released' \in [1..MaxMade -> Nat]
          /\ \A i \in 1..MaxMade : i # d => released'[i] = released[i]
      BY <1>1, <2>1 DEF Forks!ReleaseTwice
    <2>3. Making(d)
      BY <1>1, <2>2 DEF Making, Forks!ForksInv, Forks!Shape
    <2>4. \A i \in 1..MaxMade : released'[i] # released[i] => i > forked /\ i <= d
      BY <2>2 DEF Forks!ForksInv, Forks!Shape
    <2>5. QED BY <2>1, <2>3, <2>4, MakingKeeps
  <1>4. QED BY <1>2, <1>3

\* The intent itself, after states up to first were made and the new ones in before given back.
LEMMA IntentKeeps ==
    ASSUME MaxMade \in Nat, Forks!ForksInv, NEW s \in Slots, NEW first \in Nat, first >= forked,
           NEW how, NEW before, before \subseteq (forked + 1)..first,
           Forks!Intent(s, first, how, before), live' = live
    PROVE  Forks!ForksInv'
  <1> DEFINE valid == first + 1
             d == first + 2
  <1>1. forked \in Nat /\ released \in [1..MaxMade -> Nat]
    BY DEF Forks!ForksInv, Forks!Shape
  <1>2. CASE how = "refused"
    <2>1. /\ Forks!Create(valid - forked) /\ drafts' = drafts
          /\ Forks!ReleaseTwice(before \cup {valid}, before)
      BY <1>2 DEF Forks!Intent
    <2>2. forked' = valid /\ valid <= MaxMade
      BY <1>1, <2>1 DEF Forks!Create
    <2>3. /\ released' \in [1..MaxMade -> Nat]
          /\ \A i \in 1..MaxMade : i \notin before \cup {valid} => released'[i] = released[i]
      BY <1>1, <2>1 DEF Forks!ReleaseTwice
    <2>4. Making(valid)
      BY <1>1, <2>2, <2>3 DEF Making
    <2>5. QED BY <1>1, <2>1, <2>3, <2>4, MakingKeeps
  <1>3. CASE how = "fails"
    <2>1. /\ Forks!Create(d - forked) /\ drafts' = drafts
          /\ Forks!ReleaseTwice(before \cup {valid, d}, before)
      BY <1>3 DEF Forks!Intent
    <2>2. forked' = d /\ d <= MaxMade
      BY <1>1, <2>1 DEF Forks!Create
    <2>3. /\ released' \in [1..MaxMade -> Nat]
          /\ \A i \in 1..MaxMade : i \notin before \cup {valid, d} => released'[i] = released[i]
      BY <1>1, <2>1 DEF Forks!ReleaseTwice
    <2>4. Making(d)
      BY <1>1, <2>2, <2>3 DEF Making
    <2>5. QED BY <1>1, <2>1, <2>3, <2>4, MakingKeeps
  <1>4. CASE how \notin {"refused", "fails"}
    <2> DEFINE p == [base |-> live, next |-> d, noop |-> FALSE, drafts |-> {d}]
    <2>1. /\ Forks!Create(d - forked) /\ Forks!ReleaseTwice(before \cup {valid}, {})
          /\ drafts' = [drafts EXCEPT ![s] = p]
      BY <1>4 DEF Forks!Intent, Forks!Release, Forks!Open, Forks!TakeDraftResources
    <2>2. forked' = d /\ d <= MaxMade /\ p.drafts = {d} /\ p.next = d
      BY <1>1, <2>1 DEF Forks!Create
    <2>3. /\ released' \in [1..MaxMade -> Nat]
          /\ \A i \in 1..MaxMade : i \notin before \cup {valid} => released'[i] = released[i]
      BY <1>1, <2>1 DEF Forks!ReleaseTwice
    <2>4. Making(d)
      BY <1>1, <2>2, <2>3 DEF Making
    <2>5. p.drafts \subseteq (forked + 1)..d /\ p.next \in p.drafts
      BY <1>1, <2>2
    <2>6. \A i \in 1..MaxMade : released'[i] # released[i] =>
              i > forked /\ i <= d /\ i \notin p.drafts
      BY <1>1, <2>2, <2>3
    <2> HIDE DEF p
    <2>7. QED BY <2>1, <2>4, <2>5, <2>6, OpeningKeeps
  <1>5. QED BY <1>2, <1>3, <1>4

LEMMA PrepareIntentKeeps ==
    ASSUME MaxMade \in Nat, Forks!ForksInv, NEW s \in Slots, NEW how, Forks!PrepareIntent(s, how)
    PROVE  Forks!ForksInv'
  <1>1. forked \in Nat /\ Forks!Intent(s, forked, how, {}) /\ live' = live
    BY DEF Forks!PrepareIntent, Forks!ForksInv, Forks!Shape
  <1>2. QED BY <1>1, IntentKeeps

LEMMA ClassifiedIntentKeeps ==
    ASSUME MaxMade \in Nat, Forks!ForksInv, NEW s \in Slots, NEW how, Forks!ClassifiedIntent(s,
           how)
    PROVE  Forks!ForksInv'
  <1>1. forked \in Nat /\ Forks!Intent(s, forked + 1, how, {forked + 1}) /\ live' = live
    BY DEF Forks!ClassifiedIntent, Forks!ForksInv, Forks!Shape
  <1>2. QED BY <1>1, IntentKeeps

LEMMA ClassifierThrowsKeeps ==
    ASSUME MaxMade \in Nat, Forks!ForksInv, Forks!ClassifierThrows
    PROVE  Forks!ForksInv'
  <1>1. /\ forked \in Nat /\ released \in [1..MaxMade -> Nat]
        /\ forked' = forked + 1 /\ forked + 1 <= MaxMade /\ live' = live /\ drafts' = drafts
        /\ Forks!ReleaseTwice({forked + 1}, {})
    BY DEF Forks!ClassifierThrows, Forks!Create, Forks!Release, Forks!ForksInv, Forks!Shape
  <1>2. /\ released' \in [1..MaxMade -> Nat]
        /\ \A i \in 1..MaxMade : i # forked + 1 => released'[i] = released[i]
    BY <1>1 DEF Forks!ReleaseTwice
  <1>3. Making(forked + 1)
    BY <1>1, <1>2 DEF Making
  <1>4. QED BY <1>1, <1>2, <1>3, MakingKeeps

LEMMA ClassifiedInteractionKeeps ==
    ASSUME MaxMade \in Nat, Forks!ForksInv, NEW s \in Slots, NEW inPlace \in BOOLEAN, NEW how,
           Forks!ClassifiedInteraction(s, inPlace, how)
    PROVE  Forks!ForksInv'
  <1> DEFINE c == forked + 1
             result == IF inPlace THEN c ELSE c + 1
             d == result + 1
  <1>0. forked \in Nat /\ released \in [1..MaxMade -> Nat] /\ live' = live
    BY DEF Forks!ClassifiedInteraction, Forks!ForksInv, Forks!Shape
  <1>1. /\ forked \in Nat /\ released \in [1..MaxMade -> Nat] /\ live' = live
        /\ result \in Nat /\ c <= result /\ result < d /\ d \in Nat /\ c > forked
    BY <1>0
  <1>2. CASE how = "forkless"
    <2>1. /\ Forks!Create(result - forked) /\ Forks!ReleaseTwice({c} \ {result}, {})
          /\ drafts' = drafts
      BY <1>2 DEF Forks!ClassifiedInteraction, Forks!Release
    <2> HIDE DEF result
    <2>2. forked' = result /\ result <= MaxMade
      BY <1>1, <2>1 DEF Forks!Create
    <2>3. /\ released' \in [1..MaxMade -> Nat]
          /\ \A i \in 1..MaxMade : i # c => released'[i] = released[i]
      BY <1>1, <2>1 DEF Forks!ReleaseTwice
    <2>4. Making(result)
      BY <1>1, <2>2, <2>3 DEF Making
    <2>5. QED BY <1>1, <2>1, <2>3, <2>4, MakingKeeps
  <1>3. CASE how = "fails"
    <2>1. /\ Forks!Create(d - forked) /\ drafts' = drafts
          /\ Forks!ReleaseTwice(({c} \ {result}) \cup {d} \cup {result}, {})
      BY <1>3 DEF Forks!ClassifiedInteraction, Forks!Release
    <2> HIDE DEF result
    <2>2. forked' = d /\ d <= MaxMade
      BY <1>1, <2>1 DEF Forks!Create
    <2>3. /\ released' \in [1..MaxMade -> Nat]
          /\ \A i \in 1..MaxMade : i \notin {c, result, d} => released'[i] = released[i]
      BY <1>1, <2>1 DEF Forks!ReleaseTwice
    <2>4. Making(d)
      BY <1>1, <2>2, <2>3 DEF Making
    <2>5. QED BY <1>1, <2>1, <2>3, <2>4, MakingKeeps
  <1>4. CASE how \notin {"forkless", "fails"}
    <2> DEFINE p == [base |-> live, next |-> result, noop |-> FALSE, drafts |-> {result}]
    <2>1. /\ Forks!Create(d - forked) /\ drafts' = [drafts EXCEPT ![s] = p]
          /\ Forks!ReleaseTwice(({c} \ {result}) \cup {d} \cup {}, {})
      BY <1>4 DEF Forks!ClassifiedInteraction, Forks!Release, Forks!Open, Forks!TakeDraftResources
    <2>2. p.drafts = {result} /\ p.next = result
      OBVIOUS
    <2> HIDE DEF result, p
    <2>3. forked' = d /\ d <= MaxMade
      BY <1>1, <2>1 DEF Forks!Create
    <2>4. /\ released' \in [1..MaxMade -> Nat]
          /\ \A i \in 1..MaxMade : i \notin ({c} \ {result}) \cup {d} => released'[i] = released[i]
      BY <1>1, <2>1 DEF Forks!ReleaseTwice
    <2>5. Making(d)
      BY <1>1, <2>3, <2>4 DEF Making
    <2>6. p.drafts \subseteq (forked + 1)..d /\ p.next \in p.drafts
      BY <1>1, <2>2
    <2>7. \A i \in 1..MaxMade : released'[i] # released[i] =>
              i > forked /\ i <= d /\ i \notin p.drafts
      BY <1>1, <2>2, <2>4
    <2>8. QED BY <2>1, <2>5, <2>6, <2>7, OpeningKeeps
  <1>5. QED BY <1>2, <1>3, <1>4

\* However many states a reducer makes on the way, the first and the last are new ones.
LEMMA ChangeKeeps ==
    ASSUME MaxMade \in Nat, Forks!ForksInv, NEW s \in Slots, NEW k \in Nat,
           NEW inPlace \in BOOLEAN,
           NEW noop, NEW ok \in BOOLEAN, Forks!PrepareChange(s, k, inPlace, noop, ok)
    PROVE  Forks!ForksInv'
  <1> DEFINE d == forked + 1
             final == IF inPlace THEN d ELSE d + k
  <1>1. /\ forked \in Nat /\ released \in [1..MaxMade -> Nat] /\ live' = live
        /\ final \in Nat /\ d <= final
    BY DEF Forks!PrepareChange, Forks!ForksInv, Forks!Shape
  <1>2. Forks!Create(final - forked)
    BY DEF Forks!PrepareChange
  <1>3. CASE ok
    <2> DEFINE p == [base |-> live, next |-> final, noop |-> noop, drafts |-> {d, final}]
    <2>1. drafts' = [drafts EXCEPT ![s] = p] /\ released' = released
      BY <1>3 DEF Forks!PrepareChange, Forks!Open, Forks!TakeDraftResources
    <2>2. p.drafts = {d, final} /\ p.next = final
      OBVIOUS
    <2> HIDE DEF final, p
    <2>3. Making(final)
      BY <1>1, <1>2, <2>1 DEF Making, Forks!Create
    <2>4. p.drafts \subseteq (forked + 1)..final /\ p.next \in p.drafts
      BY <1>1, <2>2
    <2>5. QED BY <2>1, <2>3, <2>4, OpeningKeeps
  <1>4. CASE ~ok
    <2>1. Forks!ReleaseTwice({d, final}, {}) /\ drafts' = drafts
      BY <1>4 DEF Forks!PrepareChange, Forks!Release, Forks!TakeDraftResources
    <2> HIDE DEF final
    <2>2. /\ released' \in [1..MaxMade -> Nat]
          /\ \A i \in 1..MaxMade : i \notin {d, final} => released'[i] = released[i]
      BY <1>1, <2>1 DEF Forks!ReleaseTwice
    <2>3. Making(final)
      BY <1>1, <1>2, <2>2 DEF Making, Forks!Create
    <2>4. \A i \in 1..MaxMade : released'[i] # released[i] => i > forked /\ i <= final
      BY <1>1, <2>2
    <2>5. QED BY <2>1, <2>3, <2>4, MakingKeeps
  <1>5. QED BY <1>3, <1>4

-----------------------------------------------------------------------------
\* The outcomes of a prepared transition

\* Giving back all a draft holds leaves the other drafts and the live state alone.
LEMMA DroppedKeeps ==
    ASSUME MaxMade \in Nat, Forks!ForksInv, NEW s \in Slots, Forks!Opened(s), Forks!Finish(s),
           live' = live,
           forked' = forked, Forks!Release(drafts[s].drafts)
    PROVE  Forks!ForksInv'
  <1> USE DEF Forks!ForksInv
  <1>1. drafts'[s] = None /\ \A t \in Slots \ {s} : drafts'[t] = drafts[t]
    BY DEF Forks!Finish, Forks!Shape
  <1>2. /\ released' \in [1..MaxMade -> Nat]
        /\ \A i \in 1..MaxMade : i \notin drafts[s].drafts => released'[i] = released[i]
    BY ReleaseOnly DEF Forks!Release, Forks!Shape
  <1>3. \A t \in Slots : Forks!Opened(t)' => t # s /\ Forks!Opened(t) /\ drafts'[t] = drafts[t]
    BY <1>1 DEF Forks!Opened
  <1>4. Forks!Shape'
    BY <1>2, <1>3 DEF Forks!Shape, Forks!Finish
  <1>5. Forks!Apart'
    BY <1>3 DEF Forks!Apart
  <1>6. Forks!Unreleased'
    <2>1. released'[live'] = 0
      BY <1>2 DEF Forks!Shape, Forks!Apart, Forks!Unreleased
    <2>2. ASSUME NEW t \in Slots, Forks!Opened(t)', NEW i \in drafts'[t].drafts
          PROVE  released'[i] = 0
      <3>1. t # s /\ Forks!Opened(t) /\ i \in drafts[t].drafts
        BY <2>2, <1>3
      <3>2. i \in 1..MaxMade /\ i \notin drafts[s].drafts /\ released[i] = 0
        BY <3>1 DEF Forks!Shape, Forks!Apart, Forks!Unreleased
      <3>3. QED BY <3>2, <1>2
    <2>3. ASSUME NEW i \in 1..MaxMade, i > forked'
          PROVE  released'[i] = 0
      <3>1. i \notin drafts[s].drafts
        BY <2>3 DEF Forks!Shape
      <3>2. QED BY <2>3, <3>1, <1>2 DEF Forks!Unreleased
    <2>4. QED BY <2>1, <2>2, <2>3 DEF Forks!Unreleased
  <1>7. QED BY <1>4, <1>5, <1>6

\* The new live state comes out of the draft, the previous one and the rest are given back.
LEMMA CommittedKeeps ==
    ASSUME MaxMade \in Nat, Forks!ForksInv, NEW s \in Slots, Forks!Opened(s), Forks!Finish(s),
           forked' = forked,
           live' = drafts[s].next,
           Forks!Release((drafts[s].drafts \ {drafts[s].next}) \cup {live})
    PROVE  Forks!ForksInv'
  <1> USE DEF Forks!ForksInv
  <1> DEFINE gone == (drafts[s].drafts \ {drafts[s].next}) \cup {live}
  <1>1. drafts'[s] = None /\ \A t \in Slots \ {s} : drafts'[t] = drafts[t]
    BY DEF Forks!Finish, Forks!Shape
  <1>2. /\ released' \in [1..MaxMade -> Nat]
        /\ \A i \in 1..MaxMade : i \notin gone => released'[i] = released[i]
    BY ReleaseOnly DEF Forks!Release, Forks!Shape
  <1>3. \A t \in Slots : Forks!Opened(t)' => t # s /\ Forks!Opened(t) /\ drafts'[t] = drafts[t]
    BY <1>1 DEF Forks!Opened
  <1>4. /\ live' \in drafts[s].drafts /\ live' \in 1..forked /\ live' # live
        /\ live \in 1..forked
    BY DEF Forks!Shape, Forks!Apart
  <1>5. Forks!Shape'
    BY <1>2, <1>3, <1>4 DEF Forks!Shape, Forks!Finish
  <1>6. Forks!Apart'
    BY <1>3, <1>4 DEF Forks!Apart
  <1>7. Forks!Unreleased'
    <2>1. released'[live'] = 0
      BY <1>2, <1>4 DEF Forks!Shape, Forks!Unreleased
    <2>2. ASSUME NEW t \in Slots, Forks!Opened(t)', NEW i \in drafts'[t].drafts
          PROVE  released'[i] = 0
      <3>1. t # s /\ Forks!Opened(t) /\ i \in drafts[t].drafts
        BY <2>2, <1>3
      <3>2. i \in 1..MaxMade /\ i \notin gone /\ released[i] = 0
        BY <3>1 DEF Forks!Shape, Forks!Apart, Forks!Unreleased
      <3>3. QED BY <3>2, <1>2
    <2>3. ASSUME NEW i \in 1..MaxMade, i > forked'
          PROVE  released'[i] = 0
      <3>1. i \notin gone
        BY <2>3, <1>4 DEF Forks!Shape
      <3>2. QED BY <2>3, <3>1, <1>2 DEF Forks!Unreleased
    <2>4. QED BY <2>1, <2>2, <2>3 DEF Forks!Unreleased
  <1>8. QED BY <1>5, <1>6, <1>7

LEMMA DraftCommitKeeps ==
    ASSUME MaxMade \in Nat, Forks!ForksInv, NEW s \in Slots, Forks!Commit(s)
    PROVE  Forks!ForksInv'
  <1>1. Forks!Opened(s) /\ Forks!Finish(s) /\ forked' = forked
    BY DEF Forks!Commit, Forks!Opened
  <1>2. CASE drafts[s].base # live \/ drafts[s].noop
    BY <1>1, <1>2, DroppedKeeps DEF Forks!Commit
  <1>3. CASE ~(drafts[s].base # live \/ drafts[s].noop)
    BY <1>1, <1>3, CommittedKeeps DEF Forks!Commit
  <1>4. QED BY <1>2, <1>3

LEMMA DraftAbortKeeps ==
    ASSUME MaxMade \in Nat, Forks!ForksInv, NEW s \in Slots, Forks!Abort(s)
    PROVE  Forks!ForksInv'
  BY DroppedKeeps DEF Forks!Abort, Forks!Opened

LEMMA ForksKept ==
    ASSUME MaxMade \in Nat, MaxMade >= 2, MaxTicks \in Nat
    PROVE  Forks!ForksInv /\ [Forks!Next]_(Forks!vars) => Forks!ForksInv'
  <1> SUFFICES ASSUME Forks!ForksInv, [Forks!Next]_(Forks!vars)
               PROVE  Forks!ForksInv'
    OBVIOUS
  <1>1. CASE Forks!ClassifierThrows
    BY <1>1, ClassifierThrowsKeeps
  <1>2. CASE UNCHANGED Forks!vars
    BY <1>2 DEF Forks!vars, Forks!ForksInv, Forks!Shape, Forks!Apart, Forks!Unreleased,
       Forks!Opened
  <1>3. ASSUME NEW s \in Slots, NEW noop \in BOOLEAN, NEW ok \in BOOLEAN,
               Forks!PrepareUnchanged(s, noop, ok)
        PROVE  Forks!ForksInv'
    BY <1>3, UnchangedKeeps
  <1>4. ASSUME NEW s \in Slots, NEW how \in Forks!Outcomes,
               Forks!PrepareIntent(s, how) \/ Forks!ClassifiedIntent(s, how)
        PROVE  Forks!ForksInv'
    BY <1>4, PrepareIntentKeeps, ClassifiedIntentKeeps
  <1>5. ASSUME NEW s \in Slots, NEW inPlace \in BOOLEAN,
               NEW how \in {"forkless", "fails", "accepted"},
               Forks!ClassifiedInteraction(s, inPlace, how)
        PROVE  Forks!ForksInv'
    BY <1>5, ClassifiedInteractionKeeps
  <1>6. ASSUME NEW s \in Slots, NEW k \in 0..MaxTicks, NEW inPlace \in BOOLEAN,
               NEW noop \in BOOLEAN, NEW ok \in BOOLEAN,
               Forks!PrepareChange(s, k, inPlace, noop, ok)
        PROVE  Forks!ForksInv'
    BY <1>6, ChangeKeeps
  <1>7. ASSUME NEW s \in Slots, Forks!Commit(s) \/ Forks!Abort(s)
        PROVE  Forks!ForksInv'
    BY <1>7, DraftCommitKeeps, DraftAbortKeeps
  <1>8. QED BY <1>1, <1>2, <1>3, <1>4, <1>5, <1>6, <1>7 DEF Forks!Next, Forks!Operation

\* The account of a step: what it makes and what was in use is then in use, lost or given back.
Accounts(A, B) ==
    /\ Forks!ReleaseTwice(A, B) /\ B \subseteq A /\ refused' = refused \cup B
    /\ forked' \in Nat /\ forked <= forked' /\ forked' <= MaxMade
    /\ dropped \subseteq dropped' /\ dropped' \subseteq 1..forked'
    /\ \A i \in A : i \in Forks!InUse \/ i \in (forked + 1)..forked'
    /\ \A i \in Forks!InUse \cup ((forked + 1)..forked') : i \in Forks!InUse' \cup dropped' \cup A

LEMMA AccountKept ==
    ASSUME MaxMade \in Nat, Forks!ForksInv, Forks!Counted, NEW A, NEW B, Accounts(A, B)
    PROVE  Forks!Counted'
  <1>1. /\ forked \in Nat /\ forked' \in Nat /\ forked <= forked' /\ forked' <= MaxMade
        /\ released \in [1..MaxMade -> Nat]
    BY DEF Forks!ForksInv, Forks!Shape, Accounts
  <1>2. PICK u : u = Forks!InUse
    OBVIOUS
  <1>3. PICK v : v = Forks!InUse'
    OBVIOUS
  <1>4. u \subseteq 1..forked /\ \A i \in u : released[i] = 0
    BY <1>2 DEF Forks!ForksInv, Forks!Shape, Forks!Unreleased, Forks!InUse, Forks!Opened
  <1>5. \A i \in (forked + 1)..forked' : released[i] = 0
    BY <1>1 DEF Forks!ForksInv, Forks!Unreleased
  <1>6. /\ forked >= 2 /\ refused \subseteq 1..forked /\ dropped \subseteq 1..forked
        /\ \A i \in 1..forked : /\ released[i] \in 0..2 /\ (released[i] = 2 <=> i \in refused)
                                /\ (released[i] = 0 => i \in u \cup dropped)
    BY <1>2 DEF Forks!Counted
  <1>7. /\ released' = [i \in DOMAIN released |-> released[i] + (IF i \in A THEN 1 ELSE 0)
                                                               + (IF i \in B THEN 1 ELSE 0)]
        /\ B \subseteq A /\ refused' = refused \cup B
        /\ dropped \subseteq dropped' /\ dropped' \subseteq 1..forked'
        /\ \A i \in A : i \in u \/ i \in (forked + 1)..forked'
        /\ \A i \in u \cup ((forked + 1)..forked') : i \in v \cup dropped' \cup A
    BY <1>2, <1>3 DEF Accounts, Forks!ReleaseTwice
  <1>8. ASSUME NEW i \in 1..forked'
        PROVE  /\ released'[i] \in 0..2 /\ (released'[i] = 2 <=> i \in refused')
               /\ (released'[i] = 0 => i \in v \cup dropped')
    <2>1. i \in 1..MaxMade /\ DOMAIN released = 1..MaxMade
      BY <1>1
    <2>2. released'[i] = released[i] + (IF i \in A THEN 1 ELSE 0) + (IF i \in B THEN 1 ELSE 0)
      BY <1>7, <2>1
    <2>3. CASE i \in u \/ i \in (forked + 1)..forked'
      <3>1. released[i] = 0
        BY <1>4, <1>5, <2>3
      <3>2. i \notin refused
        <4>1. CASE i \in 1..forked
          BY <1>6, <3>1, <4>1
        <4>2. CASE i \notin 1..forked
          BY <1>6, <4>2
        <4>q. QED  BY <4>1, <4>2
      <3>q. QED  BY <1>7, <2>2, <2>3, <3>1, <3>2
    <2>4. CASE ~(i \in u \/ i \in (forked + 1)..forked')
      <3>1. i \in 1..forked /\ i \notin A /\ i \notin B
        BY <1>1, <1>7, <2>4
      <3>2. released'[i] = released[i]
        BY <1>1, <2>1, <2>2, <3>1
      <3>q. QED  BY <1>6, <1>7, <2>4, <3>1, <3>2
    <2>q. QED  BY <2>3, <2>4
  <1>9. refused' \subseteq 1..forked'
    <2>1. ASSUME NEW i \in A PROVE i \in 1..forked'
      <3>1. CASE i \in u
        <4>1. i \in 1..forked
          BY <1>4, <3>1
        <4>q. QED  BY <1>1, <4>1
      <3>2. CASE i \in (forked + 1)..forked'
        BY <1>1, <3>2
      <3>q. QED  BY <1>7, <3>1, <3>2
    <2>2. \A i \in 1..forked : i \in 1..forked'
      BY <1>1
    <2>q. QED  BY <1>6, <1>7, <2>1, <2>2
  <1>10. forked' >= 2
    BY <1>1, <1>6
  <1>q. QED  BY <1>3, <1>7, <1>8, <1>9, <1>10 DEF Forks!Counted

-----------------------------------------------------------------------------
LEMMA ReleaseNothing ==
    ASSUME Forks!ForksInv, released' = released PROVE Forks!ReleaseTwice({}, {})
  <1>1. released \in [1..MaxMade -> Nat]
    BY DEF Forks!ForksInv, Forks!Shape
  <1>q. QED  BY <1>1 DEF Forks!ReleaseTwice

\* What is in use when a draft is opened, and when it is finished.
LEMMA OpeningUses ==
    ASSUME Forks!ForksInv, NEW s \in Slots, drafts[s] = None, NEW p, p # None,
           drafts' = [drafts EXCEPT ![s] = p], live' = live
    PROVE  Forks!InUse \cup p.drafts \subseteq Forks!InUse'
  <1>1. drafts'[s] = p /\ \A t \in Slots \ {s} : drafts'[t] = drafts[t]
    BY DEF Forks!ForksInv, Forks!Shape
  <1>2. ASSUME NEW t \in Slots, drafts[t] # None PROVE drafts'[t] = drafts[t]
    BY <1>1, <1>2
  <1>q. QED  BY <1>1, <1>2 DEF Forks!InUse

LEMMA SameUse == ASSUME drafts' = drafts, live' = live PROVE Forks!InUse' = Forks!InUse
  BY DEF Forks!InUse

LEMMA ADraft ==
    ASSUME ForksAssumption, Forks!ForksInv, NEW n \in Nat, NEW noop \in BOOLEAN,
           NEW held \in SUBSET Nat
    PROVE  [base |-> live, next |-> n, noop |-> noop, drafts |-> held] # None
  <1>1. live \in Nat
    BY DEF Forks!ForksInv, Forks!Shape
  <1>2. [base |-> live, next |-> n, noop |-> noop, drafts |-> held]
            \in [base : Nat, next : Nat, noop : BOOLEAN, drafts : SUBSET Nat]
    BY <1>1
  <1>q. QED  BY <1>2 DEF ForksAssumption

LEMMA UnchangedCounts ==
    ASSUME ForksAssumption, Forks!ForksInv, Forks!Counted, NEW s \in Slots, NEW noop \in BOOLEAN,
           NEW ok \in BOOLEAN, Forks!PrepareUnchanged(s, noop, ok)
    PROVE  Forks!Counted'
  <1> PICK d : d = forked + 1
    OBVIOUS
  <1>1. /\ forked \in Nat /\ forked' = d /\ d \in Nat /\ d <= MaxMade /\ MaxMade \in Nat
        /\ live' = live /\ refused' = refused /\ dropped' = dropped /\ drafts[s] = None
        /\ (forked + 1)..forked' = {d} /\ dropped \subseteq 1..forked'
    BY DEF Forks!PrepareUnchanged, Forks!Create, Forks!ForksInv, Forks!Shape, ForksAssumption,
       Forks!Counted
  <1>2. CASE ok
    <2>1. PICK p : p = [base |-> live, next |-> d, noop |-> noop, drafts |-> {d}]
      OBVIOUS
    <2>2. drafts' = [drafts EXCEPT ![s] = p] /\ released' = released /\ p.drafts = {d}
      BY <1>2, <2>1 DEF Forks!PrepareUnchanged, Forks!Open, Forks!TakeDraftResources
    <2>3. p # None
      BY <1>1, <2>1, ADraft
    <2>4. Forks!InUse \cup {d} \subseteq Forks!InUse'
      BY <1>1, <2>2, <2>3, OpeningUses
    <2>5. Accounts({}, {})
      BY <1>1, <2>2, <2>4, ReleaseNothing DEF Accounts
    <2>q. QED  BY <1>1, <2>5, AccountKept
  <1>3. CASE ~ok
    <2>1. Forks!ReleaseTwice({d}, {}) /\ drafts' = drafts
      BY <1>3 DEF Forks!PrepareUnchanged, Forks!Release
    <2>2. Accounts({d}, {})
      BY <1>1, <2>1, SameUse DEF Accounts
    <2>q. QED  BY <1>1, <2>2, AccountKept
  <1>q. QED  BY <1>2, <1>3

LEMMA IntentCounts ==
    ASSUME ForksAssumption, Forks!ForksInv, Forks!Counted, NEW s \in Slots,
           NEW how \in Forks!Outcomes,
           NEW before, before \in {{}, {forked + 1}}, drafts[s] = None,
           Forks!Intent(s, IF before = {} THEN forked ELSE forked + 1, how, before),
           refused' = (IF how = "accepted" THEN refused ELSE refused \cup before),
           live' = live, dropped' = dropped
    PROVE  Forks!Counted'
  <1> PICK v : v = (IF before = {} THEN forked ELSE forked + 1) + 1
    OBVIOUS
  <1> PICK d : d = v + 1
    OBVIOUS
  <1>1. /\ forked \in Nat /\ v \in Nat /\ d \in Nat /\ MaxMade \in Nat /\ forked < v
        /\ before \subseteq (forked + 1)..v /\ v \notin before /\ d \notin before
        /\ (forked + 1)..v = before \cup {v} /\ (forked + 1)..d = before \cup {v, d}
        /\ dropped \subseteq 1..v /\ dropped \subseteq 1..d
        /\ d = (IF before = {} THEN forked ELSE forked + 1) + 2
    <2>1. forked \in Nat /\ MaxMade \in Nat /\ dropped \subseteq 1..forked
      BY DEF Forks!ForksInv, Forks!Shape, ForksAssumption, Forks!Counted
    <2>2. CASE before = {}
      BY <2>1, <2>2
    <2>3. CASE before # {}
      BY <2>1, <2>3
    <2>q. QED  BY <2>2, <2>3
  <1>2. CASE how = "refused"
    <2>1. /\ Forks!Create(v - forked) /\ drafts' = drafts
          /\ Forks!ReleaseTwice(before \cup {v}, before)
      BY <1>2 DEF Forks!Intent
    <2>2. forked' = v /\ v <= MaxMade
      BY <1>1, <2>1 DEF Forks!Create
    <2>3. Accounts(before \cup {v}, before)
      BY <1>1, <1>2, <2>1, <2>2, SameUse DEF Accounts
    <2>q. QED  BY <1>1, <2>3, AccountKept
  <1>3. CASE how = "fails"
    <2>1. /\ Forks!Create(d - forked) /\ drafts' = drafts
          /\ Forks!ReleaseTwice(before \cup {v, d}, before)
      BY <1>1, <1>3 DEF Forks!Intent
    <2>2. forked' = d /\ d <= MaxMade
      BY <1>1, <2>1 DEF Forks!Create
    <2>3. Accounts(before \cup {v, d}, before)
      BY <1>1, <1>3, <2>1, <2>2, SameUse DEF Accounts
    <2>q. QED  BY <1>1, <2>3, AccountKept
  <1>4. CASE how = "accepted"
    <2>1. PICK p : p = [base |-> live, next |-> d, noop |-> FALSE, drafts |-> {d}]
      OBVIOUS
    <2>2. /\ Forks!Create(d - forked) /\ Forks!ReleaseTwice(before \cup {v}, {})
          /\ drafts' = [drafts EXCEPT ![s] = p] /\ p.drafts = {d}
      BY <1>1, <1>4, <2>1 DEF Forks!Intent, Forks!Release, Forks!Open, Forks!TakeDraftResources
    <2>3. forked' = d /\ d <= MaxMade
      BY <1>1, <2>2 DEF Forks!Create
    <2>4. p # None
      BY <1>1, <2>1, ADraft
    <2>5. Forks!InUse \cup {d} \subseteq Forks!InUse'
      BY <1>1, <2>2, <2>4, OpeningUses
    <2>6. Accounts(before \cup {v}, {})
      BY <1>1, <1>4, <2>2, <2>3, <2>5 DEF Accounts
    <2>q. QED  BY <1>1, <2>6, AccountKept
  <1>q. QED  BY <1>2, <1>3, <1>4 DEF Forks!Outcomes

LEMMA EitherIntentCounts ==
    ASSUME ForksAssumption, Forks!ForksInv, Forks!Counted, NEW s \in Slots,
           NEW how \in Forks!Outcomes,
           Forks!PrepareIntent(s, how) \/ Forks!ClassifiedIntent(s, how)
    PROVE  Forks!Counted'
  <1>1. CASE Forks!PrepareIntent(s, how)
    <2>1. /\ Forks!Intent(s, forked, how, {}) /\ drafts[s] = None /\ live' = live
          /\ refused' = refused /\ dropped' = dropped
      BY <1>1 DEF Forks!PrepareIntent
    <2>2. {} \in {{}, {forked + 1}} /\ refused \cup {} = refused
      OBVIOUS
    <2>q. QED  BY <2>1, <2>2, IntentCounts
  <1>2. CASE Forks!ClassifiedIntent(s, how)
    <2> PICK c : c = {forked + 1}
      OBVIOUS
    <2>1. /\ Forks!Intent(s, forked + 1, how, c) /\ drafts[s] = None /\ live' = live
          /\ refused' = (IF how = "accepted" THEN refused ELSE refused \cup c)
          /\ dropped' = dropped
      BY <1>2 DEF Forks!ClassifiedIntent
    <2>2. c # {} /\ c \in {{}, {forked + 1}}
      OBVIOUS
    <2>q. QED  BY <2>1, <2>2, IntentCounts
  <1>q. QED  BY <1>1, <1>2

LEMMA ThrowCounts ==
    ASSUME ForksAssumption, Forks!ForksInv, Forks!Counted,
           Forks!ClassifierThrows PROVE Forks!Counted'
  <1> PICK d : d = forked + 1
    OBVIOUS
  <1>1. /\ forked \in Nat /\ MaxMade \in Nat /\ forked' = d /\ d \in Nat /\ d <= MaxMade
        /\ live' = live /\ refused' = refused /\ dropped' = dropped /\ drafts' = drafts
        /\ (forked + 1)..forked' = {d} /\ dropped \subseteq 1..forked'
        /\ Forks!ReleaseTwice({d}, {})
    BY DEF Forks!ClassifierThrows, Forks!Create, Forks!Release, Forks!ForksInv, Forks!Shape,
       ForksAssumption, Forks!Counted
  <1>2. Accounts({d}, {})
    BY <1>1, SameUse DEF Accounts
  <1>q. QED  BY <1>1, <1>2, AccountKept

LEMMA InteractionCounts ==
    ASSUME ForksAssumption, Forks!ForksInv, Forks!Counted, NEW s \in Slots,
           NEW inPlace \in BOOLEAN,
           NEW how \in {"forkless", "fails", "accepted"},
           Forks!ClassifiedInteraction(s, inPlace, how)
    PROVE  Forks!Counted'
  <1> PICK c : c = forked + 1
    OBVIOUS
  <1> PICK n : n = IF inPlace THEN c ELSE c + 1
    OBVIOUS
  <1> PICK d : d = n + 1
    OBVIOUS
  <1>1. /\ forked \in Nat /\ c \in Nat /\ n \in Nat /\ d \in Nat /\ MaxMade \in Nat
        /\ (forked + 1)..n = {c, n} /\ (forked + 1)..d = {c, n, d} /\ d # n
        /\ forked <= n /\ forked <= d /\ dropped \subseteq 1..forked
        /\ live' = live /\ refused' = refused /\ drafts[s] = None
    <2>1. forked \in Nat /\ MaxMade \in Nat /\ dropped \subseteq 1..forked
      BY DEF Forks!ForksInv, Forks!Shape, ForksAssumption, Forks!Counted
    <2>2. live' = live /\ refused' = refused /\ drafts[s] = None
      BY DEF Forks!ClassifiedInteraction
    <2>c. c \in Nat /\ c = forked + 1
      BY <2>1
    <2>3. CASE inPlace
      <3>1. n = c
        BY <2>3
      <3>q. QED  BY ONLY <2>1, <2>2, <2>c, <3>1, d = n + 1
    <2>4. CASE ~inPlace
      <3>1. n = c + 1
        BY <2>4
      <3>q. QED  BY ONLY <2>1, <2>2, <2>c, <3>1, d = n + 1
    <2>q. QED  BY <2>3, <2>4
  <1>2. CASE how = "forkless"
    <2>1. /\ Forks!Create(n - forked) /\ Forks!Release({c} \ {n}) /\ dropped' = dropped \cup {n}
          /\ drafts' = drafts
      BY <1>2 DEF Forks!ClassifiedInteraction
    <2>2. forked' = n /\ n <= MaxMade
      BY <1>1, <2>1 DEF Forks!Create
    <2>3. dropped' \subseteq 1..forked'
      BY <1>1, <2>1, <2>2
    <2>4. Accounts({c} \ {n}, {})
      BY <1>1, <2>1, <2>2, <2>3, SameUse DEF Accounts, Forks!Release
    <2>q. QED  BY <1>1, <2>4, AccountKept
  <1>3. CASE how = "fails"
    <2>1. /\ Forks!Create(d - forked) /\ Forks!Release(({c} \ {n}) \cup {d} \cup {n})
          /\ dropped' = dropped
          /\ drafts' = drafts
      BY <1>3 DEF Forks!ClassifiedInteraction
    <2>2. forked' = d /\ d <= MaxMade
      BY <1>1, <2>1 DEF Forks!Create
    <2>3. dropped' \subseteq 1..forked'
      BY <1>1, <2>1, <2>2
    <2>4. Accounts(({c} \ {n}) \cup {d} \cup {n}, {})
      BY <1>1, <2>1, <2>2, <2>3, SameUse DEF Accounts, Forks!Release
    <2>q. QED  BY <1>1, <2>4, AccountKept
  <1>4. CASE how = "accepted"
    <2>0. PICK p : p = [base |-> live, next |-> n, noop |-> FALSE, drafts |-> {n}]
      OBVIOUS
    <2>1. /\ Forks!Create(d - forked) /\ Forks!Release(({c} \ {n}) \cup {d} \cup {})
          /\ dropped' = dropped
          /\ drafts' = [drafts EXCEPT ![s] = p] /\ p.drafts = {n}
      BY <1>4, <2>0 DEF Forks!ClassifiedInteraction, Forks!Open, Forks!TakeDraftResources
    <2>2. forked' = d /\ d <= MaxMade
      BY <1>1, <2>1 DEF Forks!Create
    <2>3. dropped' \subseteq 1..forked'
      BY <1>1, <2>1, <2>2
    <2>4. p # None
      <3>1. {n} \in SUBSET Nat /\ n \in Nat /\ FALSE \in BOOLEAN
        BY <1>1
      <3>2. [base |-> live, next |-> n, noop |-> FALSE, drafts |-> {n}] # None
        BY ONLY <3>1, ForksAssumption, Forks!ForksInv, ADraft
      <3>q. QED  BY <2>0, <3>2
    <2>5. Forks!InUse \cup {n} \subseteq Forks!InUse'
      BY <1>1, <2>1, <2>4, OpeningUses
    <2>6. Accounts(({c} \ {n}) \cup {d} \cup {}, {})
      BY <1>1, <2>1, <2>2, <2>3, <2>5 DEF Accounts, Forks!Release
    <2>q. QED  BY <1>1, <2>6, AccountKept
  <1>q. QED  BY <1>2, <1>3, <1>4

LEMMA ChangeCounts ==
    ASSUME ForksAssumption, Forks!ForksInv, Forks!Counted, NEW s \in Slots, NEW k \in Nat,
           NEW inPlace \in BOOLEAN, NEW noop \in BOOLEAN, NEW ok \in BOOLEAN,
           Forks!PrepareChange(s, k, inPlace, noop, ok)
    PROVE  Forks!Counted'
  <1> PICK d : d = forked + 1
    OBVIOUS
  <1> PICK l : l = IF inPlace THEN d ELSE d + k
    OBVIOUS
  <1>1. /\ forked \in Nat /\ d \in Nat /\ l \in Nat /\ d <= l /\ MaxMade \in Nat
        /\ live' = live /\ refused' = refused /\ drafts[s] = None
        /\ dropped' = dropped \cup ((d + 1)..(l - 1)) /\ Forks!Create(l - forked)
        /\ dropped \subseteq 1..forked
    BY DEF Forks!PrepareChange, Forks!ForksInv, Forks!Shape, ForksAssumption, Forks!Counted
  <1>2. forked' = l /\ l <= MaxMade
    BY <1>1 DEF Forks!Create
  <1>3. dropped' \subseteq 1..forked' /\ dropped \subseteq dropped'
    BY <1>1, <1>2
  <1>4. \A i \in (forked + 1)..forked' : i \in dropped' \cup {d, l}
    BY <1>1, <1>2
  <1>5. {d, l} \subseteq (forked + 1)..forked'
    BY <1>1, <1>2
  <1>6. CASE ok
    <2>0. PICK p : p = [base |-> live, next |-> l, noop |-> noop, drafts |-> {d, l}]
      OBVIOUS
    <2>1. drafts' = [drafts EXCEPT ![s] = p] /\ released' = released /\ p.drafts = {d, l}
      BY <1>6, <2>0 DEF Forks!PrepareChange, Forks!Open, Forks!TakeDraftResources
    <2>2. p # None
      BY <1>1, <2>0, ADraft
    <2>3. Forks!InUse \cup {d, l} \subseteq Forks!InUse'
      BY <1>1, <2>1, <2>2, OpeningUses
    <2>4. Forks!ReleaseTwice({}, {})
      BY <2>1, ReleaseNothing
    <2>5. Accounts({}, {})
      BY <1>1, <1>2, <1>3, <1>4, <2>3, <2>4 DEF Accounts
    <2>q. QED  BY <1>1, <2>5, AccountKept
  <1>7. CASE ~ok
    <2>1. Forks!ReleaseTwice({d, l}, {}) /\ drafts' = drafts
      BY <1>7 DEF Forks!PrepareChange, Forks!Release, Forks!TakeDraftResources
    <2>2. Accounts({d, l}, {})
      BY <1>1, <1>2, <1>3, <1>4, <1>5, <2>1, SameUse DEF Accounts
    <2>q. QED  BY <1>1, <2>2, AccountKept
  <1>q. QED  BY <1>6, <1>7

\* What was in use is in use still, but for the draft that is finished.
LEMMA FinishUses ==
    ASSUME Forks!ForksInv, NEW s \in Slots, drafts[s] # None, Forks!Finish(s)
    PROVE  \A i \in Forks!InUse : i = live \/ i \in drafts[s].drafts \/ i \in Forks!InUse'
  <1>1. \A t \in Slots \ {s} : drafts'[t] = drafts[t]
    BY DEF Forks!ForksInv, Forks!Shape, Forks!Finish
  <1>q. QED  BY <1>1 DEF Forks!InUse

LEMMA DropCounts ==
    ASSUME ForksAssumption, Forks!ForksInv, Forks!Counted, NEW s \in Slots, drafts[s] # None,
           Forks!Finish(s),
           UNCHANGED <<live, forked, refused, dropped>>, Forks!Release(drafts[s].drafts)
    PROVE  Forks!Counted'
  <1> PICK g : g = drafts[s].drafts
    OBVIOUS
  <1>1. /\ forked \in Nat /\ MaxMade \in Nat /\ forked <= MaxMade /\ dropped \subseteq 1..forked
        /\ g \subseteq Forks!InUse /\ live' \in Forks!InUse'
    BY DEF Forks!ForksInv, Forks!Shape, ForksAssumption, Forks!Counted, Forks!InUse
  <1>2. \A i \in Forks!InUse : i \in g \/ i \in Forks!InUse'
    BY <1>1, FinishUses
  <1>3. (forked + 1)..forked' = {}
    BY <1>1
  <1>4. Accounts(g, {})
    BY <1>1, <1>2, <1>3 DEF Accounts, Forks!Release
  <1>q. QED  BY <1>1, <1>4, AccountKept

LEMMA CommitCounts ==
    ASSUME ForksAssumption, Forks!ForksInv, Forks!Counted, NEW s \in Slots,
           Forks!Commit(s) PROVE Forks!Counted'
  <1>1. /\ drafts[s] # None /\ Forks!Finish(s) /\ UNCHANGED <<forked, refused, dropped>>
    BY DEF Forks!Commit
  <1>2. CASE drafts[s].base # live \/ drafts[s].noop
    BY <1>1, <1>2, DropCounts DEF Forks!Commit
  <1>3. CASE ~(drafts[s].base # live \/ drafts[s].noop)
    <2> PICK n : n = drafts[s].next
      OBVIOUS
    <2> PICK g : g = (drafts[s].drafts \ {n}) \cup {live}
      OBVIOUS
    <2>1. /\ forked \in Nat /\ MaxMade \in Nat /\ forked <= MaxMade /\ dropped \subseteq 1..forked
          /\ g \subseteq Forks!InUse
      BY <1>1 DEF Forks!ForksInv, Forks!Shape, ForksAssumption, Forks!Counted, Forks!InUse
    <2>2. live' = n /\ Forks!Release(g)
      BY <1>3 DEF Forks!Commit
    <2>3. \A i \in Forks!InUse : i \in g \/ i \in Forks!InUse'
      <3>1. n \in Forks!InUse'
        BY <2>2 DEF Forks!InUse
      <3>q. QED  BY <1>1, <3>1, FinishUses
    <2>4. (forked + 1)..forked' = {}
      BY <1>1, <2>1
    <2>5. Accounts(g, {})
      BY <1>1, <2>1, <2>2, <2>3, <2>4 DEF Accounts, Forks!Release
    <2>q. QED  BY <2>1, <2>5, AccountKept
  <1>q. QED  BY <1>2, <1>3

LEMMA CountedBegins == ForksAssumption /\ Forks!Init => Forks!Counted /\ Forks!Parted
  BY DEF ForksAssumption, Forks!Init, Forks!Counted, Forks!Parted, Forks!InUse

LEMMA CountedKept ==
    ForksAssumption /\ Forks!ForksInv /\ Forks!Counted /\ [Forks!Next]_(Forks!vars)
        => Forks!Counted'
  <1> SUFFICES ASSUME ForksAssumption, Forks!ForksInv, Forks!Counted,
                      [Forks!Next]_(Forks!vars) PROVE Forks!Counted'
    OBVIOUS
  <1>1. CASE Forks!ClassifierThrows
    BY <1>1, ThrowCounts
  <1>2. CASE UNCHANGED Forks!vars
    <2>1. Forks!InUse' = Forks!InUse
      BY <1>2, SameUse DEF Forks!vars
    <2>q. QED  BY <1>2, <2>1 DEF Forks!vars, Forks!Counted
  <1>3. ASSUME NEW s \in Slots, NEW noop \in BOOLEAN, NEW ok \in BOOLEAN,
               Forks!PrepareUnchanged(s, noop, ok)
        PROVE  Forks!Counted'
    BY <1>3, UnchangedCounts
  <1>4. ASSUME NEW s \in Slots, NEW how \in Forks!Outcomes,
               Forks!PrepareIntent(s, how) \/ Forks!ClassifiedIntent(s, how)
        PROVE  Forks!Counted'
    BY <1>4, EitherIntentCounts
  <1>5. ASSUME NEW s \in Slots, NEW inPlace \in BOOLEAN,
               NEW how \in {"forkless", "fails", "accepted"},
               Forks!ClassifiedInteraction(s, inPlace, how)
        PROVE  Forks!Counted'
    BY <1>5, InteractionCounts
  <1>6. ASSUME NEW s \in Slots, NEW k \in 0..MaxTicks, NEW inPlace \in BOOLEAN,
               NEW noop \in BOOLEAN, NEW ok \in BOOLEAN,
               Forks!PrepareChange(s, k, inPlace, noop, ok)
        PROVE  Forks!Counted'
    BY <1>6, ChangeCounts DEF ForksAssumption
  <1>7. ASSUME NEW s \in Slots, Forks!Abort(s) PROVE Forks!Counted'
    BY <1>7, DropCounts DEF Forks!Abort
  <1>8. ASSUME NEW s \in Slots, Forks!Commit(s) PROVE Forks!Counted'
    BY <1>8, CommitCounts
  <1>q. QED
    BY <1>1, <1>2, <1>3, <1>4, <1>5, <1>6, <1>7, <1>8 DEF Forks!Next, Forks!Operation

-----------------------------------------------------------------------------
\* What an operation refuses or drops it has just made, and does not use.
Parts ==
    /\ \A i \in Forks!InUse' : i \in Forks!InUse \/ i > forked
    /\ \A i \in refused' \cup dropped' :
          i \in refused \cup dropped \/ (i > forked /\ i \notin Forks!InUse')

LEMMA UseMade == ASSUME Forks!ForksInv PROVE Forks!InUse \subseteq 1..forked
  BY DEF Forks!ForksInv, Forks!Shape, Forks!InUse, Forks!Opened

LEMMA NothingOpened ==
    ASSUME Forks!ForksInv, drafts' = drafts, live' = live,
           \A i \in refused' \cup dropped' : i \in refused \cup dropped \/ (i \in Nat /\ i > forked)
    PROVE  Parts
  <1>1. Forks!InUse' = Forks!InUse
    BY SameUse
  <1>2. forked \in Nat /\ \A i \in Forks!InUse : i \in 1..forked
    BY UseMade DEF Forks!ForksInv, Forks!Shape
  <1>3. ASSUME NEW i \in Nat, i > forked PROVE i \notin Forks!InUse
    BY <1>2, <1>3
  <1>q. QED  BY <1>1, <1>2, <1>3 DEF Parts

LEMMA OneOpened ==
    ASSUME Forks!ForksInv, NEW s \in Slots, NEW p, drafts' = [drafts EXCEPT ![s] = p], live' = live,
           \A i \in p.drafts : i > forked,
           \A i \in refused' \cup dropped' :
               i \in refused \cup dropped \/ (i \in Nat /\ i > forked /\ i \notin p.drafts)
    PROVE  Parts
  <1>1. drafts'[s] = p /\ \A t \in Slots \ {s} : drafts'[t] = drafts[t]
    BY DEF Forks!ForksInv, Forks!Shape
  <1>2. Forks!InUse' \subseteq Forks!InUse \cup p.drafts
    BY <1>1 DEF Forks!InUse
  <1>3. forked \in Nat /\ \A i \in Forks!InUse : i \in 1..forked
    BY UseMade DEF Forks!ForksInv, Forks!Shape
  <1>4. ASSUME NEW i \in Nat, i > forked PROVE i \notin Forks!InUse
    BY <1>3, <1>4
  <1>q. QED  BY <1>2, <1>4 DEF Parts

LEMMA OneFinished ==
    ASSUME Forks!ForksInv, NEW s \in Slots, drafts[s] # None, Forks!Finish(s),
           live' \in Forks!InUse, UNCHANGED <<refused, dropped>>
    PROVE  Parts
  <1>1. drafts'[s] = None /\ \A t \in Slots \ {s} : drafts'[t] = drafts[t]
    BY DEF Forks!ForksInv, Forks!Shape, Forks!Finish
  <1>2. Forks!InUse' \subseteq Forks!InUse
    BY <1>1 DEF Forks!InUse
  <1>q. QED  BY <1>2 DEF Parts

LEMMA IntentParts ==
    ASSUME Forks!ForksInv, NEW s \in Slots, NEW how \in Forks!Outcomes, NEW first \in Nat,
           first >= forked, NEW before, Forks!Intent(s, first, how, before), live' = live,
           dropped' = dropped,
           \A i \in refused' : i \in refused \/ (i \in Nat /\ i > forked /\ how # "accepted")
    PROVE  Parts
  <1>1. forked \in Nat
    BY DEF Forks!ForksInv, Forks!Shape
  <1>2. CASE how # "accepted"
    <2>1. drafts' = drafts
      BY <1>2 DEF Forks!Intent, Forks!Outcomes
    <2>q. QED  BY <2>1, NothingOpened
  <1>3. CASE how = "accepted"
    <2> PICK d : d = first + 2
      OBVIOUS
    <2>1. PICK p : p = [base |-> live, next |-> d, noop |-> FALSE, drafts |-> {d}]
      OBVIOUS
    <2>2. drafts' = [drafts EXCEPT ![s] = p] /\ p.drafts = {d} /\ d > forked
      BY <1>1, <1>3, <2>1 DEF Forks!Intent, Forks!Open, Forks!TakeDraftResources
    <2>q. QED  BY <1>3, <2>2, OneOpened
  <1>q. QED  BY <1>2, <1>3

LEMMA OperationParts ==
    ASSUME ForksAssumption, Forks!ForksInv, Forks!Operation PROVE Parts
  <1>0. forked \in Nat /\ live \in Forks!InUse
    BY DEF Forks!ForksInv, Forks!Shape, Forks!InUse
  <1>1. CASE Forks!ClassifierThrows
    BY <1>1, NothingOpened DEF Forks!ClassifierThrows
  <1>2. ASSUME NEW s \in Slots, NEW noop \in BOOLEAN, NEW ok \in BOOLEAN,
               Forks!PrepareUnchanged(s, noop, ok)
        PROVE  Parts
    <2>1. live' = live /\ refused' = refused /\ dropped' = dropped
      BY <1>2 DEF Forks!PrepareUnchanged
    <2>2. CASE ~ok
      BY <1>2, <2>1, <2>2, NothingOpened DEF Forks!PrepareUnchanged
    <2>3. CASE ok
      <3> PICK d : d = forked + 1
        OBVIOUS
      <3>1. PICK p : p = [base |-> live, next |-> d, noop |-> noop, drafts |-> {d}]
        OBVIOUS
      <3>2. drafts' = [drafts EXCEPT ![s] = p] /\ p.drafts = {d} /\ d > forked
        BY <1>0, <1>2, <2>3, <3>1 DEF Forks!PrepareUnchanged, Forks!Open, Forks!TakeDraftResources
      <3>q. QED  BY <2>1, <3>2, OneOpened
    <2>q. QED  BY <2>2, <2>3
  <1>3. ASSUME NEW s \in Slots, NEW how \in Forks!Outcomes,
               Forks!PrepareIntent(s, how) \/ Forks!ClassifiedIntent(s, how)
        PROVE  Parts
    <2>1. CASE Forks!PrepareIntent(s, how)
      BY <1>0, <2>1, IntentParts DEF Forks!PrepareIntent
    <2>2. CASE Forks!ClassifiedIntent(s, how)
      <3> PICK c : c = forked + 1
        OBVIOUS
      <3>1. /\ c \in Nat /\ c > forked /\ c >= forked
            /\ Forks!Intent(s, c, how, {c}) /\ live' = live /\ dropped' = dropped
            /\ refused' = IF how = "accepted" THEN refused ELSE refused \cup {c}
        BY <1>0, <2>2 DEF Forks!ClassifiedIntent
      <3>2. \A i \in refused' : i \in refused \/ (i \in Nat /\ i > forked /\ how # "accepted")
        BY <3>1
      <3>q. QED  BY <3>1, <3>2, IntentParts
    <2>q. QED  BY <1>3, <2>1, <2>2
  <1>4. ASSUME NEW s \in Slots, NEW inPlace \in BOOLEAN,
               NEW how \in {"forkless", "fails", "accepted"},
               Forks!ClassifiedInteraction(s, inPlace, how)
        PROVE  Parts
    <2> PICK n : n = IF inPlace THEN forked + 1 ELSE forked + 2
      OBVIOUS
    <2>1. n \in Nat /\ n > forked
      BY <1>0
    <2>2. live' = live /\ refused' = refused
      BY <1>4 DEF Forks!ClassifiedInteraction
    <2>3. CASE how = "forkless"
      <3>1. drafts' = drafts /\ dropped' = dropped \cup {n}
        BY <1>0, <1>4, <2>3 DEF Forks!ClassifiedInteraction
      <3>q. QED  BY <2>1, <2>2, <3>1, NothingOpened
    <2>4. CASE how = "fails"
      <3>1. drafts' = drafts /\ dropped' = dropped
        BY <1>4, <2>4 DEF Forks!ClassifiedInteraction
      <3>q. QED  BY <2>2, <3>1, NothingOpened
    <2>5. CASE how = "accepted"
      <3>1. PICK p : p = [base |-> live, next |-> n, noop |-> FALSE, drafts |-> {n}]
        OBVIOUS
      <3>2. drafts' = [drafts EXCEPT ![s] = p] /\ p.drafts = {n} /\ dropped' = dropped
        BY <1>0, <1>4, <2>5, <3>1 DEF Forks!ClassifiedInteraction, Forks!Open, Forks!TakeDraftResources
      <3>q. QED  BY <2>1, <2>2, <3>2, OneOpened
    <2>q. QED  BY <2>3, <2>4, <2>5
  <1>5. ASSUME NEW s \in Slots, NEW k \in 0..MaxTicks, NEW inPlace \in BOOLEAN,
               NEW noop \in BOOLEAN, NEW ok \in BOOLEAN,
               Forks!PrepareChange(s, k, inPlace, noop, ok)
        PROVE  Parts
    <2> PICK d : d = forked + 1
      OBVIOUS
    <2> PICK l : l = IF inPlace THEN d ELSE d + k
      OBVIOUS
    <2>1. k \in Nat /\ d \in Nat /\ l \in Nat /\ d > forked /\ l >= d
      BY <1>0 DEF ForksAssumption
    <2>2. live' = live /\ refused' = refused /\ dropped' = dropped \cup ((d + 1)..(l - 1))
      BY <1>5 DEF Forks!PrepareChange
    <2>3. \A i \in (d + 1)..(l - 1) : i \in Nat /\ i > forked /\ i # d /\ i # l
      BY <1>0, <2>1
    <2>4. CASE ~ok
      <3>1. drafts' = drafts
        BY <1>5, <2>4 DEF Forks!PrepareChange
      <3>q. QED  BY <2>2, <2>3, <3>1, NothingOpened
    <2>5. CASE ok
      <3>1. PICK p : p = [base |-> live, next |-> l, noop |-> noop, drafts |-> {d, l}]
        OBVIOUS
      <3>2. drafts' = [drafts EXCEPT ![s] = p] /\ p.drafts = {d, l}
        BY <1>5, <2>5, <3>1 DEF Forks!PrepareChange, Forks!Open, Forks!TakeDraftResources
      <3>3. \A i \in p.drafts : i > forked
        BY <1>0, <2>1, <3>2
      <3>4. \A i \in refused' \cup dropped' :
                i \in refused \cup dropped \/ (i \in Nat /\ i > forked /\ i \notin p.drafts)
        BY <2>2, <2>3, <3>2
      <3>q. QED  BY <2>2, <3>2, <3>3, <3>4, OneOpened
    <2>q. QED  BY <2>4, <2>5
  <1>6. ASSUME NEW s \in Slots, Forks!Commit(s) PROVE Parts
    <2>1. /\ drafts[s] # None /\ Forks!Finish(s) /\ UNCHANGED <<refused, dropped>>
          /\ live' = live \/ live' = drafts[s].next
      BY <1>6 DEF Forks!Commit
    <2>2. drafts[s].next \in Forks!InUse
      BY <2>1 DEF Forks!ForksInv, Forks!Shape, Forks!Opened, Forks!InUse
    <2>q. QED  BY <1>0, <2>1, <2>2, OneFinished
  <1>7. ASSUME NEW s \in Slots, Forks!Abort(s) PROVE Parts
    BY <1>0, <1>7, OneFinished DEF Forks!Abort
  <1>q. QED  BY <1>1, <1>2, <1>3, <1>4, <1>5, <1>6, <1>7 DEF Forks!Operation

LEMMA IntentGrows ==
    ASSUME forked \in Nat, NEW s \in Slots, NEW how \in Forks!Outcomes, NEW first \in Nat,
           first >= forked, NEW before, Forks!Intent(s, first, how, before)
    PROVE  forked <= forked'
  <1>1. CASE how = "refused"
    <2>1. Forks!Create((first + 1) - forked)
      BY <1>1 DEF Forks!Intent
    <2>q. QED  BY <2>1 DEF Forks!Create
  <1>2. CASE how = "fails"
    <2>1. Forks!Create((first + 2) - forked)
      BY <1>2 DEF Forks!Intent
    <2>q. QED  BY <2>1 DEF Forks!Create
  <1>3. CASE how = "accepted"
    <2>1. Forks!Create((first + 2) - forked)
      BY <1>3 DEF Forks!Intent
    <2>q. QED  BY <2>1 DEF Forks!Create
  <1>q. QED  BY <1>1, <1>2, <1>3 DEF Forks!Outcomes

LEMMA MadeGrows ==
    ASSUME ForksAssumption, Forks!ForksInv, Forks!Operation PROVE forked <= forked'
  <1>1. forked \in Nat /\ \A k \in 0..MaxTicks : k \in Nat
    BY DEF Forks!ForksInv, Forks!Shape, ForksAssumption
  <1>2. CASE Forks!ClassifierThrows
    BY <1>1, <1>2 DEF Forks!ClassifierThrows, Forks!Create
  <1>3. ASSUME NEW s \in Slots, NEW noop \in BOOLEAN, NEW ok \in BOOLEAN,
               Forks!PrepareUnchanged(s, noop, ok)
        PROVE  forked <= forked'
    <2>1. Forks!Create(1)
      BY <1>3 DEF Forks!PrepareUnchanged
    <2>q. QED  BY <1>1, <2>1 DEF Forks!Create
  <1>4. ASSUME NEW s \in Slots, NEW how \in Forks!Outcomes,
               Forks!PrepareIntent(s, how) \/ Forks!ClassifiedIntent(s, how)
        PROVE  forked <= forked'
    <2>1. CASE Forks!PrepareIntent(s, how)
      BY <1>1, <2>1, IntentGrows DEF Forks!PrepareIntent
    <2>2. CASE Forks!ClassifiedIntent(s, how)
      <3> PICK c : c = forked + 1
        OBVIOUS
      <3>1. c \in Nat /\ c >= forked /\ Forks!Intent(s, c, how, {c})
        BY <1>1, <2>2 DEF Forks!ClassifiedIntent
      <3>q. QED  BY <1>1, <3>1, IntentGrows
    <2>q. QED  BY <1>4, <2>1, <2>2
  <1>5. ASSUME NEW s \in Slots, NEW inPlace \in BOOLEAN,
               NEW how \in {"forkless", "fails", "accepted"},
               Forks!ClassifiedInteraction(s, inPlace, how)
        PROVE  forked <= forked'
    <2> PICK n : n = IF inPlace THEN forked + 1 ELSE forked + 1 + 1
      OBVIOUS
    <2> PICK d : d = n + 1
      OBVIOUS
    <2>1. Forks!Create(n - forked) \/ Forks!Create(d - forked)
      <3>1. CASE how = "forkless"
        BY <1>5, <3>1 DEF Forks!ClassifiedInteraction
      <3>2. CASE how = "fails"
        BY <1>5, <3>2 DEF Forks!ClassifiedInteraction
      <3>3. CASE how = "accepted"
        BY <1>5, <3>3 DEF Forks!ClassifiedInteraction
      <3>q. QED  BY <3>1, <3>2, <3>3
    <2>2. n \in Nat /\ d \in Nat /\ n >= forked /\ d >= forked
      BY <1>1
    <2>q. QED  BY <1>1, <2>1, <2>2 DEF Forks!Create
  <1>6. ASSUME NEW s \in Slots, NEW k \in 0..MaxTicks, NEW inPlace \in BOOLEAN,
               NEW noop \in BOOLEAN, NEW ok \in BOOLEAN,
               Forks!PrepareChange(s, k, inPlace, noop, ok)
        PROVE  forked <= forked'
    BY <1>1, <1>6 DEF Forks!PrepareChange, Forks!Create
  <1>7. ASSUME NEW s \in Slots, Forks!Commit(s) \/ Forks!Abort(s) PROVE forked <= forked'
    BY <1>1, <1>7 DEF Forks!Commit, Forks!Abort
  <1>q. QED  BY <1>2, <1>3, <1>4, <1>5, <1>6, <1>7 DEF Forks!Operation

LEMMA PartedKept ==
    ForksAssumption /\ Forks!ForksInv /\ Forks!ForksInv' /\ Forks!Counted /\ Forks!Counted'
        /\ Forks!Parted /\ [Forks!Next]_(Forks!vars) => Forks!Parted'
  <1> SUFFICES ASSUME ForksAssumption, Forks!ForksInv, Forks!ForksInv', Forks!Counted,
                      Forks!Counted', Forks!Parted, [Forks!Next]_(Forks!vars) PROVE Forks!Parted'
    OBVIOUS
  <1>1. CASE UNCHANGED Forks!vars
    <2>1. Forks!InUse' = Forks!InUse
      BY <1>1, SameUse DEF Forks!vars
    <2>q. QED  BY <1>1, <2>1 DEF Forks!vars, Forks!Parted
  <1>2. CASE Forks!Next
    <2> PICK u : u = Forks!InUse
      OBVIOUS
    <2> PICK v : v = Forks!InUse'
      OBVIOUS
    <2>1. /\ owned' = owned \cup v
          /\ \A i \in v : i \in u \/ i > forked
          /\ \A i \in refused' \cup dropped' : i \in refused \cup dropped \/ (i > forked /\ i \notin v)
      BY <1>2, OperationParts DEF Forks!Next, Parts
    <2>2. /\ u \subseteq owned /\ owned \subseteq 1..forked /\ owned \cap (refused \cup dropped) = {}
          /\ refused \subseteq 1..forked /\ dropped \subseteq 1..forked
      BY DEF Forks!Parted, Forks!Counted
    <2>3. v \subseteq 1..forked'
      BY DEF Forks!ForksInv, Forks!Shape, Forks!InUse, Forks!Opened
    <2>4. forked \in Nat /\ forked' \in Nat /\ forked <= forked'
      <3>1. forked' \in Nat /\ forked \in Nat
        BY DEF Forks!ForksInv, Forks!Shape
      <3>q. QED  BY <1>2, <3>1, MadeGrows DEF Forks!Next
    <2>5. \A i \in 1..forked : ~(i > forked) /\ i \in 1..forked'
      BY <2>4
    <2>6. owned' \cap (refused' \cup dropped') = {}
      BY <2>1, <2>2, <2>5
    <2>7. owned' \subseteq 1..forked'
      BY <2>1, <2>2, <2>3, <2>5
    <2>q. QED  BY <2>1, <2>6, <2>7 DEF Forks!Parted
  <1>q. QED  BY <1>1, <1>2

LEMMA ForksGivenBack ==
    ASSUME Forks!Counted, Forks!Parted PROVE Forks!GivenBackOnce
  BY DEF Forks!Counted, Forks!Parted, Forks!GivenBackOnce

LEMMA ForksTyped ==
    ASSUME ForksAssumption, Forks!ForksInv, Forks!Counted, Forks!Parted PROVE Forks!TypeOK
  <1>1. /\ forked \in Nat /\ forked >= 2 /\ forked <= MaxMade
        /\ live \in 1..forked /\ MaxMade \in Nat
        /\ released \in [1..MaxMade -> Nat] /\ refused \subseteq 1..forked
        /\ dropped \subseteq 1..forked
        /\ \A s \in Slots : drafts[s] # None => drafts[s].next \in drafts[s].drafts
    BY DEF Forks!ForksInv, Forks!Shape, Forks!Opened, Forks!Counted, ForksAssumption
  <1>2. ASSUME NEW i \in 1..MaxMade PROVE released[i] \in 0..2
    BY <1>1 DEF Forks!ForksInv, Forks!Unreleased, Forks!Counted
  <1>3. released \in [1..MaxMade -> 0..2]
    BY <1>1, <1>2
  <1>q. QED  BY <1>1, <1>3 DEF Forks!TypeOK, Forks!Parted

-----------------------------------------------------------------------------
(***************************************************************************)
(* The session: a step of one layer is a stutter of the others, so each    *)
(* layer's inductive invariant is kept by every step.                      *)
(***************************************************************************)

LEMMA SessionBegins == SessionInit => SessionInv
  <1> SUFFICES ASSUME SessionInit PROVE SessionInv
    OBVIOUS
  <1>1. SeatLedger!LedgerInv
    BY SessionAssumption, LedgerBegins DEF SessionInit
  <1>2. Registrar!SourcesInv
    BY SourcesBegin DEF SessionInit
  <1>3. Cues!CueInv
    BY SessionAssumption, CuesBegin DEF SessionInit
  <1>4. Client!ClientInv
    BY SessionAssumption, ClientBegins DEF SessionInit
  <1>5. Forks!ForksInv /\ Forks!Counted /\ Forks!Parted
    BY SessionAssumption, ForksBegin, CountedBegins DEF SessionInit, ForksAssumption
  <1>6. QED BY <1>1, <1>2, <1>3, <1>4, <1>5 DEF SessionInv

\* What a step of the session is for each of its layers.
LEMMA SessionMoves ==
    ASSUME [SessionNext]_sessionVars
    PROVE  /\ [SeatLedger!Next]_(SeatLedger!vars)
           /\ [Registrar!Next]_(Registrar!vars)
           /\ [Cues!Next]_(Cues!vars)
           /\ [Client!Next]_(Client!vars)
           /\ [Forks!Next]_(Forks!vars)
  <1>1. UNCHANGED seatVars => UNCHANGED SeatLedger!vars
    BY DEF seatVars, SeatLedger!vars
  <1>2. UNCHANGED sourceVars => UNCHANGED Registrar!vars
    BY DEF sourceVars, Registrar!vars
  <1>3. UNCHANGED cueVars => UNCHANGED Cues!vars
    BY DEF cueVars, Cues!vars
  <1>4. UNCHANGED clientVars => UNCHANGED Client!vars
    BY DEF clientVars, Client!vars
  <1>5. UNCHANGED forkVars => UNCHANGED Forks!vars
    BY DEF forkVars, Forks!vars
  <1>6. SeatLedger!Next \/ UNCHANGED seatVars
    BY DEF SessionNext, SeatLedgerStep, RegistrarStep, CuesStep, ClientStep, ForksStep, sessionVars
  <1>7. Registrar!Next \/ UNCHANGED sourceVars
    BY DEF SessionNext, SeatLedgerStep, RegistrarStep, CuesStep, ClientStep, ForksStep, sessionVars
  <1>8. Cues!Next \/ UNCHANGED cueVars
    BY DEF SessionNext, SeatLedgerStep, RegistrarStep, CuesStep, ClientStep, ForksStep, sessionVars
  <1>9. Client!Next \/ UNCHANGED clientVars
    BY DEF SessionNext, SeatLedgerStep, RegistrarStep, CuesStep, ClientStep, ForksStep, sessionVars
  <1>10. Forks!Next \/ UNCHANGED forkVars
    BY DEF SessionNext, SeatLedgerStep, RegistrarStep, CuesStep, ClientStep, ForksStep, sessionVars
  <1>11. QED
    BY <1>1, <1>2, <1>3, <1>4, <1>5, <1>6, <1>7, <1>8, <1>9, <1>10

LEMMA SessionKept == SessionInv /\ [SessionNext]_sessionVars => SessionInv'
  <1> SUFFICES ASSUME SessionInv, [SessionNext]_sessionVars PROVE SessionInv'
    OBVIOUS
  <1>1. (SeatLedger!LedgerInv)'
    BY SessionAssumption, SessionMoves, LedgerKept DEF SessionInv
  <1>2. (Registrar!SourcesInv)'
    BY SessionAssumption, SessionMoves, SourcesKept DEF SessionInv, SourcesAssumption
  <1>3. (Cues!CueInv)'
    BY SessionAssumption, SessionMoves, CuesKept DEF SessionInv
  <1>4. (Client!ClientInv)'
    BY SessionAssumption, SessionMoves, ClientKept DEF SessionInv
  <1>5. (Forks!ForksInv)'
    BY SessionAssumption, SessionMoves, ForksKept DEF SessionInv, ForksAssumption
  <1>6. (Forks!Counted)'
    BY SessionAssumption, SessionMoves, CountedKept DEF SessionInv
  <1>7. (Forks!Parted)'
    BY <1>5, <1>6, SessionAssumption, SessionMoves, PartedKept DEF SessionInv
  <1>8. QED BY <1>1, <1>2, <1>3, <1>4, <1>5, <1>6, <1>7 DEF SessionInv

-----------------------------------------------------------------------------
\* The invariant of the five layers holds of every behaviour of the session.
THEOREM SessionInvariant == SessionSpec => []SessionInv
  <1>1. SessionInit => SessionInv
    BY SessionBegins
  <1>2. SessionInv /\ [SessionNext]_sessionVars => SessionInv'
    BY SessionKept
  <1>3. QED BY <1>1, <1>2, PTL DEF SessionSpec

\* The state of each layer of a session keeps its type (the seat ledger of
\* seat-control.ts, the control sources of control.ts, the cue ledger and its player, the
\* session client, the kernel's forks).
THEOREM SessionWellTyped == SessionSpec => []SessionTyped
  <1>1. SessionInv => SessionTyped
    <2> SUFFICES ASSUME SessionInv PROVE SessionTyped
      OBVIOUS
    <2>1. SeatLedger!TypeOK
      BY SessionAssumption, LedgerTyped DEF SessionInv
    <2>2. Registrar!TypeOK
      BY DEF SessionInv, Registrar!SourcesInv, Registrar!Shape, Registrar!Ordered, Registrar!TypeOK
    <2>3. Cues!TypeOK
      BY SessionAssumption, CuesHold DEF SessionInv
    <2>4. Client!TypeOK
      BY SessionAssumption, ClientHolds DEF SessionInv
    <2>5. Forks!TypeOK
      BY SessionAssumption, ForksTyped DEF SessionInv
    <2>6. QED BY <2>1, <2>2, <2>3, <2>4, <2>5 DEF SessionTyped
  <1>2. QED BY <1>1, SessionInvariant, PTL

\* A seat ledger whose handoffs name their heads is restored from the checkpoint taken of
\* it, and a decision of a source crosses only while the registration that was asked is in
\* control of its subject (SeatControlLedger.rehydrate in seat-control.ts,
\* ControlSourceRegistry.decide in control.ts).
THEOREM SessionControlHolds == SessionSpec => []ControlHolds
  <1>1. SessionInv => ControlHolds
    <2> SUFFICES ASSUME SessionInv PROVE ControlHolds
      OBVIOUS
    <2>1. SeatLedger!CheckpointRestores
      BY SessionAssumption, LedgerRestores DEF SessionInv
    <2>2. Registrar!NoStaleDecision
      BY DEF SessionInv, Registrar!SourcesInv
    <2>3. QED BY <2>1, <2>2 DEF ControlHolds
  <1>2. QED BY <1>1, SessionInvariant, PTL

\* However calls and cues are lost, delayed, repeated or answered twice: a cue takes effect at
\* most once unless it met another that was being applied, and in order while none meet; a
\* command of the client counts once under an id of its own; a reducer state that was live or
\* in a prepared transition is given back exactly once, and never while it is in use.
THEOREM SessionEffectsOnce == SessionSpec => []EffectsOnce
  <1>1. SessionInv => EffectsOnce
    <2> SUFFICES ASSUME SessionInv PROVE EffectsOnce
      OBVIOUS
    <2>1. Cues!CuesOnce /\ Cues!CuesInOrder
      BY SessionAssumption, CuesHold DEF SessionInv
    <2>2. Client!CommandsCountOnce /\ Client!FreshIds
      BY SessionAssumption, ClientHolds DEF SessionInv
    <2>3. Forks!InUseKept
      BY UnreleasedKeepsInUse DEF SessionInv, Forks!ForksInv
    <2>4. Forks!GivenBackOnce
      BY ForksGivenBack DEF SessionInv
    <2>5. QED BY <2>1, <2>2, <2>3, <2>4 DEF EffectsOnce
  <1>2. QED BY <1>1, SessionInvariant, PTL

\* Who controlled a seat at a committed revision is never rewritten, by a commit of any
\* seats, an abort or a step of another layer (SeatControlLedger.commit in seat-control.ts).
THEOREM SessionAuthorityHolds == SessionSpec => AuthorityHolds
  <1>1. SessionInv /\ [SessionNext]_sessionVars => [SeatLedger!KeepsAuthority]_sessionVars
    BY SessionAssumption, SessionMoves, AuthorityKept DEF SessionInv
  <1>2. QED BY <1>1, SessionInvariant, PTL DEF SessionSpec, AuthorityHolds
=============================================================================
