--------------------------- MODULE LockstepInputs ---------------------------
(***************************************************************************)
(* Lockstep play (engine/lockstep.ts): every peer folds the inputs it has  *)
(* received over a snapshot, in the canonical order of tick, seat and      *)
(* arrival, and does so again when a late input arrives.                   *)
(*                                                                         *)
(* A seat's inputs reach a peer in the order they were sent; inputs of     *)
(* different seats interleave in any way.  The product's state is the      *)
(* sequence of the batches it was advanced by.  A Canonical reducer is     *)
(* advanced by an empty batch at a tick without input; a legacy one is     *)
(* left alone there.                                                       *)
(***************************************************************************)
EXTENDS Naturals, Sequences, SequencesExt

CONSTANTS SeatOrder, Moves, Peers, Reducers, MaxTick, MaxSent

VARIABLES reducer, sent, got, snapshots
vars == <<reducer, sent, got, snapshots>>

Seated == DOMAIN SeatOrder   \* a seat is its place in the text order
Canonical == reducer = "advance"

\* canonicalizeLockstepInputs: a stable sort
Before(inputs, j, k) ==
    \/ inputs[j].tick < inputs[k].tick
    \/ inputs[j].tick = inputs[k].tick /\ inputs[j].seat < inputs[k].seat
    \/ inputs[j].tick = inputs[k].tick /\ inputs[j].seat = inputs[k].seat /\ j < k
Canonicalized(inputs) ==
    LET order == SetToSortSeq(DOMAIN inputs, LAMBDA j, k : Before(inputs, j, k))
    IN  [k \in DOMAIN order |-> inputs[order[k]]]

BatchAt(ordered, tick) ==
    LET mine == SelectSeq(ordered, LAMBDA i : i.tick = tick)
    IN  [k \in DOMAIN mine |-> [seat |-> mine[k].seat, move |-> mine[k].move]]

\* resimulate, from a state and the inputs from its tick on
Resimulate(state, inputs, from, through) ==
    LET ordered == Canonicalized(inputs)
        Tick(s, t) == IF BatchAt(ordered, t) = <<>> /\ ~Canonical THEN s
                      ELSE Append(s, BatchAt(ordered, t))
    IN  FoldLeft(Tick, state, [k \in 1..(through + 1 - from) |-> from + k - 1])

StateOf(p, through) == Resimulate(<<>>, got[p], 0, through)

-----------------------------------------------------------------------------
Init ==
    /\ reducer \in Reducers
    /\ sent = [s \in Seated |-> <<>>]
    /\ got = [p \in Peers |-> <<>>]
    /\ snapshots = [p \in Peers |-> [tick |-> 0, state |-> <<>>]]

LastTick(s) == IF sent[s] = <<>> THEN 0 ELSE Last(sent[s]).tick

\* A seat sends its input for a tick no earlier than its last one
Send(s, tick, move) ==
    /\ Len(sent[s]) < MaxSent
    /\ LastTick(s) <= tick
    /\ sent' = [sent EXCEPT ![s] = Append(@, [tick |-> tick, seat |-> s, move |-> move])]
    /\ UNCHANGED <<reducer, got, snapshots>>

From(p, s) == SelectSeq(got[p], LAMBDA i : i.seat = s)

\* The next input of a seat arrives; one for a tick before the snapshot is refused by
\* resimulate, so a peer keeps its snapshot behind what may still come
Receive(p, s) ==
    /\ Len(From(p, s)) < Len(sent[s])
    /\ LET input == sent[s][Len(From(p, s)) + 1]
       IN  /\ input.tick >= snapshots[p].tick
           /\ got' = [got EXCEPT ![p] = Append(@, input)]
    /\ UNCHANGED <<reducer, sent, snapshots>>

\* A peer moves its snapshot up to a tick, by simulating from the last one
Snapshot(p, tick) ==
    /\ tick > snapshots[p].tick
    /\ snapshots' = [snapshots EXCEPT ![p] =
          [tick |-> tick,
           state |-> Resimulate(@.state, SelectSeq(got[p], LAMBDA i : i.tick >= @.tick /\ i.tick < tick),
                                @.tick, tick - 1)]]
    /\ UNCHANGED <<reducer, sent, got>>

Next ==
    \/ \E s \in Seated, tick \in 0..MaxTick, move \in Moves : Send(s, tick, move)
    \/ \E p \in Peers, s \in Seated : Receive(p, s)
    \/ \E p \in Peers, tick \in 1..MaxTick : Snapshot(p, tick)

Spec == Init /\ [][Next]_vars

-----------------------------------------------------------------------------
\* Properties

TypeOK ==
    /\ \A p \in Peers : snapshots[p].tick \in 0..MaxTick
    /\ \A p \in Peers, s \in Seated : IsPrefix(From(p, s), sent[s])

\* Peers that have the same inputs are in the same state, whatever the order they came in.
PeersAgree ==
    \A p, q \in Peers :
        (\A s \in Seated : From(p, s) = From(q, s)) => StateOf(p, MaxTick) = StateOf(q, MaxTick)

\* Simulating from a snapshot with the inputs since gives what simulating everything does.
SnapshotsAgree ==
    \A p \in Peers :
        LET snap == snapshots[p]
            later == SelectSeq(got[p], LAMBDA i : i.tick >= snap.tick)
        IN  Resimulate(snap.state, later, snap.tick, MaxTick) = StateOf(p, MaxTick)
=============================================================================
