-------------------------- MODULE PresentationViews --------------------------
(***************************************************************************)
(* The portable presentation client (presentation-client.ts): a view kept  *)
(* up to date by snapshots and patches that a transport may lose, repeat   *)
(* or bring out of order.  A patch names the revision it starts from and   *)
(* the one it gives; a message may carry the digest of its view; a server  *)
(* may also say that digests disagree.                                     *)
(*                                                                         *)
(* The server's view of a revision is the revision itself, and the patch   *)
(* between two revisions replaces one by the other, or Garbled when the    *)
(* product's applyPatch is Broken for its target.                          *)
(***************************************************************************)
EXTENDS Naturals, Sequences, SequencesExt

CONSTANTS Revisions, Broken, Garbled, Submissions, MaxReceived, None

VARIABLES
    client,    \* the client's value
    checked,   \* every patch since the last snapshot carried a digest
    received   \* messages taken so far, for the bound

vars == <<client, checked, received>>

Messages ==
    [type : {"snapshot"}, to : Revisions, digest : Revisions \cup {None}]
    \cup [type : {"patch"}, base : Revisions, to : Revisions, digest : Revisions \cup {None}]
    \cup [type : {"acknowledgement", "rejection"}, id : Submissions]
    \cup [type : {"digest-mismatch"}]

\* What the server sends: patches forward, a digest that is the view's own
Sent == {m \in Messages :
            /\ m.type \in {"snapshot", "patch"} => m.digest \in {None, m.to}
            /\ m.type = "patch" => m.base < m.to}

ApplyPatch(view, m) == IF m.to \in Broken THEN Garbled ELSE m.to

Repair == [client EXCEPT !.status = "repair-required"]
At(m, view) ==
    [client EXCEPT !.status = "ready", !.revision = m.to, !.view = view,
                   !.digest = IF m.digest = None THEN @ ELSE m.digest]

Init ==
    /\ client = [status |-> "empty", revision |-> None, view |-> None, digest |-> None,
                 acknowledged |-> <<>>, rejected |-> {}]
    /\ checked = TRUE
    /\ received = 0

\* receive, by the type of the message
Acknowledge(m) ==
    IF m.id \in ToSet(client.acknowledged) THEN client
    ELSE [client EXCEPT !.acknowledged = Append(@, m.id)]
Reject(m) == [client EXCEPT !.rejected = @ \cup {m.id}]
Snapshot(m) == At(m, m.to)
Applies(m) ==
    /\ client.status = "ready" /\ client.revision = m.base
    /\ m.digest = None \/ ApplyPatch(client.view, m) = m.digest
Patch(m) == IF Applies(m) THEN At(m, ApplyPatch(client.view, m)) ELSE Repair

Receive(m) ==
    /\ received < MaxReceived
    /\ received' = received + 1
    /\ client' = CASE m.type = "acknowledgement" -> Acknowledge(m)
                   [] m.type = "rejection" -> Reject(m)
                   [] m.type = "digest-mismatch" -> Repair
                   [] m.type = "snapshot" -> Snapshot(m)
                   [] OTHER -> Patch(m)
    /\ checked' = IF m.type = "snapshot" THEN TRUE
                  ELSE IF m.type = "patch" /\ Applies(m) THEN m.digest # None /\ checked
                  ELSE checked

Next == \E m \in Sent : Receive(m)

Spec == Init /\ [][Next]_vars

-----------------------------------------------------------------------------
\* Properties

TypeOK ==
    /\ client.status \in {"empty", "ready", "repair-required"}
    /\ (client.view = None) = (client.status = "empty" \/ client.revision = None)

\* A ready client shows the server's view of the revision it names, whatever was lost,
\* repeated or late; only a patch that came without a digest can have put a wrong view there.
ShowsItsRevision ==
    client.status = "ready" =>
        client.view = client.revision \/ (client.view = Garbled /\ ~checked)
=============================================================================
