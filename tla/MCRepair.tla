------------------------------ MODULE MCRepair ------------------------------
(***************************************************************************)
(* Two components that repair what was lost, side by side: a host that     *)
(* compacts its kernel and recovers it from checkpoints, or a client that  *)
(* repairs its view from deltas and snapshots.  In a scene one of the two  *)
(* acts while the other stays as it started.                               *)
(***************************************************************************)
EXTENDS SessionCompaction, PredictionSession

VARIABLE scene

MCInit ==
    /\ scene \in {"host", "client"}
    /\ Init /\ PredictionInit
    /\ scene = "host" => transitionRevision = NoView

HostActs == scene = "host" /\ Next /\ UNCHANGED <<scene, predictionVars>>
ClientActs == scene = "client" /\ PredictionNext /\ UNCHANGED <<scene, vars>>

MCSpec == MCInit /\ [][HostActs \/ ClientActs]_<<scene, vars, predictionVars>>

\* Ids are interchangeable, and submissions are.
RepairSymmetry ==
    {ids @@ submissions : ids \in Permutations(Ids), submissions \in SubmissionSymmetry}
=============================================================================
