----------------------------- MODULE SeatControl -----------------------------
(***************************************************************************)
(* SeatControlLedger: who controls each logical seat, as a history of      *)
(* epochs that transitions prepare, commit or abort, and what a checkpoint *)
(* of it must satisfy to be read back.  A digest is the epoch it stands    *)
(* for: SHA-256 is taken to have no collisions.  A completed or foreign    *)
(* handle is refused without a change, so the live one is implicit.        *)
(***************************************************************************)
EXTENDS Naturals, Sequences, FiniteSets

CONSTANTS Seats, Controllers, None, MaxRevision   \* MaxRevision: bound

VARIABLES
    revision, history,   \* the ledger
    prepared             \* the epochs of the one active prepared transition, by seat

vars == <<revision, history, prepared>>

NoTransition == <<>>
Last(s) == s[Len(s)]
Ledger == [revision |-> revision, history |-> history, prepared |-> prepared]

Genesis(controller) ==
    [epoch |-> 0, controller |-> controller, since |-> 0, mode |-> "genesis",
     evidence |-> None, previous |-> None, head |-> FALSE]

Init ==
    /\ revision = 0
    /\ history \in [Seats -> {<<Genesis(c)>> : c \in Controllers \cup {None}}]
    /\ prepared = NoTransition

\* The controller of a seat as of a committed revision; None is a vacant seat.
EpochAt(hist, seat, r) ==
    LET h == hist[seat]
    IN  h[CHOOSE k \in DOMAIN h : /\ h[k].since <= r
                                  /\ \A j \in DOMAIN h : h[j].since <= r => j <= k]

-----------------------------------------------------------------------------
\* A transition is a function from the changed seats to controllers, with its authority: a
\* host policy, or signatures of the seats' outgoing and incoming controllers.
Signed(changes, mode, signers) ==
    mode = "controller-handoff" => \A seat \in DOMAIN changes :
        /\ Last(history[seat]).controller # None /\ seat \in signers.out
        /\ changes[seat] # None => seat \in signers.in

\* Mutant: an epoch begins at the revision it was prepared at.
NextEpochAtOnce(hist, seat, controller, mode, evidence, r, head) ==
    LET previous == Last(hist[seat]) IN
    [epoch |-> previous.epoch + 1, controller |-> controller, since |-> r - 1, mode |-> mode,
     evidence |-> evidence, previous |-> previous, head |-> head]

NextEpoch(hist, seat, controller, mode, evidence, r, head) ==
    LET previous == Last(hist[seat]) IN
    [epoch |-> previous.epoch + 1, controller |-> controller, since |-> r, mode |-> mode,
     evidence |-> evidence, previous |-> previous, head |-> head]

Prepare(changes, mode, signers, head) ==
    LET evidence == [mode |-> mode, out |-> signers.out, in |-> signers.in] IN
    /\ prepared = NoTransition
    /\ revision < MaxRevision
    /\ DOMAIN changes # {}
    /\ Signed(changes, mode, signers)
    /\ prepared' = [seat \in DOMAIN changes |->
           NextEpoch(history, seat, changes[seat], mode, evidence, revision + 1, head)]
    /\ UNCHANGED <<revision, history>>

Commit ==
    /\ prepared # NoTransition
    /\ history' = [seat \in Seats |->
           IF seat \in DOMAIN prepared THEN Append(history[seat], prepared[seat]) ELSE history[seat]]
    /\ revision' = revision + 1
    /\ prepared' = NoTransition

Abort ==
    /\ prepared # NoTransition
    /\ prepared' = NoTransition
    /\ UNCHANGED <<revision, history>>

-----------------------------------------------------------------------------
\* rehydrate

Authorized(seat, e) ==   \* the authorization of an epoch that is not the first
    /\ e.mode # "genesis" /\ e.evidence.mode = e.mode
    /\ e.mode = "controller-handoff" =>
         /\ seat \in e.evidence.out /\ (e.controller # None => seat \in e.evidence.in)
         /\ e.head

AcceptsHistory(c) ==
    /\ \A seat \in Seats : \A k \in DOMAIN c.history[seat] :
         LET e == c.history[seat][k] IN
         /\ e.epoch = k - 1
         /\ IF k = 1
            THEN e = Genesis(e.controller)
            ELSE /\ Authorized(seat, e)
                 /\ e.since > c.history[seat][k - 1].since
                 /\ e.previous = c.history[seat][k - 1]
         /\ e.since <= c.revision
    /\ \A r \in 1..c.revision :
         LET made == {x \in Seats \X (1..(c.revision + 1)) :
                        x[2] \in DOMAIN c.history[x[1]] /\ c.history[x[1]][x[2]].since = r}
             evidence == {c.history[x[1]][x[2]].evidence : x \in made}
         IN  Cardinality(evidence) = 1

AcceptsPrepared(c) ==
    LET next == c.prepared IN
    /\ \A seat \in DOMAIN next :
         /\ next[seat].epoch = Last(c.history[seat]).epoch + 1
         /\ next[seat].since = c.revision + 1
         /\ next[seat].previous = Last(c.history[seat])
         /\ Authorized(seat, next[seat])
    /\ Cardinality({next[seat].evidence : seat \in DOMAIN next}) <= 1

Accepts(c) == AcceptsHistory(c) /\ AcceptsPrepared(c)

\* A host policy needs no signatures; a handoff has those of some seats.
Authorities ==
    {<<"host-policy", [out |-> {}, in |-> {}]>>} \cup
    ({"controller-handoff"} \X [out : SUBSET Seats, in : SUBSET Seats])

Next ==
    \/ \E S \in SUBSET Seats : \E changes \in [S -> Controllers \cup {None}],
          authority \in Authorities, head \in BOOLEAN :
          Prepare(changes, authority[1], authority[2], head)
    \/ Commit
    \/ Abort

Spec == Init /\ [][Next]_vars

-----------------------------------------------------------------------------
TypeOK ==
    /\ revision \in 0..MaxRevision
    /\ \A seat \in Seats : Len(history[seat]) <= revision + 1
    /\ DOMAIN prepared \subseteq Seats

\* A ledger whose handoffs name the chain head they end can be restored from the checkpoint
\* it writes, with or without a prepared transition.
NamesHeads(c) ==
    /\ \A seat \in Seats : \A k \in DOMAIN c.history[seat] :
         c.history[seat][k].mode = "controller-handoff" => c.history[seat][k].head
    /\ \A seat \in DOMAIN c.prepared :
         c.prepared[seat].mode = "controller-handoff" => c.prepared[seat].head
CheckpointRestores == NamesHeads(Ledger) => Accepts(Ledger)

\* Who controlled a seat at a committed revision never changes: no prepared, committed or
\* aborted transition rewrites it.
KeepsAuthority ==
    \A seat \in Seats, r \in 0..revision :
        EpochAt(history', seat, r) = EpochAt(history, seat, r)

-----------------------------------------------------------------------------
\* The inductive invariant of these properties.

\* An epoch carries the authority it was made under, whether or not it names the head.
Warranted(seat, e) ==
    /\ e.mode \in {"host-policy", "controller-handoff"} /\ e.evidence.mode = e.mode
    /\ e.mode = "controller-handoff" =>
         seat \in e.evidence.out /\ (e.controller # None => seat \in e.evidence.in)
Sequential(h) == h \in Seq({h[k] : k \in DOMAIN h})
Chained(seat, h) ==
    \A k \in DOMAIN h :
        /\ h[k].epoch = k - 1 /\ h[k].since \in 0..revision
        /\ k = 1 => h[k] = Genesis(h[k].controller)
        /\ k > 1 => /\ Warranted(seat, h[k]) /\ h[k].previous = h[k - 1]
                    /\ h[k].since > h[k - 1].since
Histories ==
    /\ revision \in 0..MaxRevision
    /\ history = [seat \in Seats |-> history[seat]]
    /\ \A seat \in Seats : /\ Sequential(history[seat])
                           /\ Len(history[seat]) \in 1..(revision + 1)
                           /\ Chained(seat, history[seat])
\* A committed revision made an epoch, and all it made have the same evidence.
Made(seat, k, r) == k \in DOMAIN history[seat] /\ history[seat][k].since = r
Evidenced ==
    \A r \in 1..revision :
        \E seat \in Seats : \E k \in DOMAIN history[seat] :
            /\ Made(seat, k, r)
            /\ \A s \in Seats : \A j \in DOMAIN history[s] :
                  Made(s, j, r) => history[s][j].evidence = history[seat][k].evidence
Ready ==
    prepared # NoTransition =>
        /\ revision < MaxRevision
        /\ DOMAIN prepared \subseteq Seats /\ DOMAIN prepared # {}
        /\ \A seat \in DOMAIN prepared :
              /\ prepared[seat].epoch = Len(history[seat])
              /\ prepared[seat].since = revision + 1
              /\ prepared[seat].previous = Last(history[seat])
              /\ Warranted(seat, prepared[seat])
              /\ \A s \in DOMAIN prepared : prepared[s].evidence = prepared[seat].evidence
LedgerInv == Histories /\ Evidenced /\ Ready
=============================================================================
