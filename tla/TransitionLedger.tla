-------------------------- MODULE TransitionLedger --------------------------
(***************************************************************************)
(* What a session host promises (docs/session-and-integrity.md, "Normative *)
(* host obligations"): transitions become durable one at a time and whole, *)
(* are committed only once they are durable, and are delivered only once   *)
(* they are committed, in order; a delivery may be repeated.  Nothing that *)
(* is durable is ever rewritten.                                           *)
(***************************************************************************)
EXTENDS Naturals, Sequences

VARIABLES
    durable,    \* events in the store; each carries its transition revision
    committed,  \* events the in-memory kernel has committed
    delivered   \* revisions whose observations were delivered, repeats left out

ledger == <<durable, committed, delivered>>

Revision(events) == IF events = <<>> THEN 0 ELSE events[Len(events)].rev
LastDelivered == IF delivered = <<>> THEN 0 ELSE delivered[Len(delivered)]

Init == durable = <<>> /\ committed = <<>> /\ delivered = <<>>

\* The events of the next transition become durable together.
Persist ==
    /\ durable = committed
    /\ Len(durable') > Len(durable)
    /\ SubSeq(durable', 1, Len(durable)) = durable
    /\ \A j \in (Len(durable) + 1)..Len(durable') :
          durable'[j].rev = Revision(durable) + 1
    /\ UNCHANGED <<committed, delivered>>

Commit == committed' = durable /\ UNCHANGED <<durable, delivered>>

Deliver ==
    /\ \E r \in {committed[j].rev : j \in DOMAIN committed} :
          r > LastDelivered /\ delivered' = Append(delivered, r)
    /\ UNCHANGED <<durable, committed>>

Next == Persist \/ Commit \/ Deliver
Spec == Init /\ [][Next]_ledger
=============================================================================
