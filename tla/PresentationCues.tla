-------------------------- MODULE PresentationCues --------------------------
(***************************************************************************)
(* The cue lane from a host (PresentationCueHost) to a renderer            *)
(* (PresentationCueClient).  The transport may lose, repeat and reorder    *)
(* cues and acknowledgements; a cue is applied by a callback that takes    *)
(* time, while other cues arrive: nothing in the client keeps two receipts *)
(* apart, not even two of one cue.  A cue is its sequence number; its id   *)
(* and its content never change.                                           *)
(***************************************************************************)
EXTENDS Naturals, Sequences, FiniteSets, SequenceFilter

CONSTANTS
    Emergencies,       \* the sequence numbers issued with emergency priority
    MaxCues, MaxRetained,
    MaxOverlap,        \* bound on the receipts under way at the same time
    MaxSends, None     \* MaxSends: bound on transmissions of a cue

VARIABLES
    next, retained, acked,       \* host: nextSequence, retainedCues, acknowledgements
    status, last, known,         \* client: status, lastAppliedSequence, applied fingerprints
    receiving,                   \* receipts of the client that wait for a callback
    wire, replies, sends,
    applied,                     \* the receipts whose cue was handed to apply, in order
    overlapped                   \* history: cues received while another receipt was under way

vars == <<next, retained, acked, status, last, known, receiving, wire, replies, sends, applied,
          overlapped>>

Cue == 1..MaxCues
Emergency(c) == c \in Emergencies
Settled == {"applied", "duplicate"}

Init ==
    /\ next = 1 /\ retained = <<>>
    /\ acked = [c \in Cue |-> None]
    /\ status = "ready" /\ last = 0 /\ known = {}
    /\ receiving = {}
    /\ wire = {} /\ replies = {}
    /\ sends = [c \in Cue |-> 0]
    /\ applied = <<>> /\ overlapped = {}

host == <<next, retained, acked>>
client == <<status, last, known, receiving, applied, overlapped>>
Entry(r) == [cue |-> r.cue, receipt |-> r.receipt]
RetainedCues == {retained[k] : k \in DOMAIN retained}

-----------------------------------------------------------------------------
\* Host

Send(cues) ==
    /\ wire' = wire \cup cues
    /\ sends' = [c \in Cue |-> IF c \in cues THEN sends[c] + 1 ELSE sends[c]]

\* issue: the log keeps the newest cues, and acknowledgements of those alone
Issue ==
    LET log == Append(retained, next) IN
    /\ next <= MaxCues
    /\ retained' = IF Len(log) > MaxRetained THEN Tail(log) ELSE log
    /\ acked' = [c \in Cue |-> IF \E k \in DOMAIN retained' : retained'[k] = c THEN acked[c] ELSE None]
    /\ next' = next + 1
    /\ Send({next})
    /\ UNCHANGED <<client, replies>>

\* acknowledge: a success is final, any other outcome may be replaced
Acknowledge(a) ==
    /\ a \in replies /\ a.cue \in RetainedCues
    /\ replies' = replies \ {a}
    /\ acked' = IF acked[a.cue] \in Settled THEN acked ELSE [acked EXCEPT ![a.cue] = a.status]
    /\ UNCHANGED <<next, retained, client, wire, sends>>

\* An acknowledgement of a cue that is no longer retained is refused.
AcknowledgeUnknown(a) ==
    /\ a \in replies /\ a.cue \notin RetainedCues
    /\ replies' = replies \ {a}
    /\ UNCHANGED <<host, client, wire, sends>>

Earliest == IF retained = <<>> THEN next ELSE Head(retained)

\* Reconnect: what was under way is lost; resumeAfter(last) replays the retained tail.
Replay ==
    LET tail == {c \in RetainedCues : c > last} IN
    /\ receiving = {} /\ tail # {}
    /\ last >= Earliest - 1
    /\ \A c \in tail : sends[c] < MaxSends
    /\ wire' = tail
    /\ sends' = [c \in Cue |-> IF c \in tail THEN sends[c] + 1 ELSE sends[c]]
    /\ replies' = {}
    /\ UNCHANGED <<host, client>>

\* The log no longer reaches back: the product sends a snapshot, and a client whose state
\* stands at the newest cue.
Snapshot ==
    /\ receiving = {}
    /\ last < Earliest - 1
    /\ status' = "ready" /\ last' = next - 1
    /\ wire' = {} /\ replies' = {}
    /\ UNCHANGED <<host, known, receiving, sends, applied, overlapped>>

\* The transport repeats a cue.
Resend(c) ==
    /\ c < next /\ sends[c] < MaxSends
    /\ Send({c})
    /\ UNCHANGED <<host, client, replies>>

Lose ==
    \/ \E c \in wire : wire' = wire \ {c} /\ UNCHANGED <<host, client, replies, sends>>
    \/ \E a \in replies : replies' = replies \ {a} /\ UNCHANGED <<host, client, wire, sends>>

-----------------------------------------------------------------------------
\* Client

Reply(c, s) == replies' = replies \cup {[cue |-> c, status |-> s]}

\* What receive decides before its first await
Refusal(c) ==
    IF c <= last THEN "repair_required"
    ELSE IF ~Emergency(c) /\ c # last + 1 THEN "repair_required"
    ELSE None

ReceiveKnown(c) ==
    /\ c \in wire /\ c \in known
    /\ wire' = wire \ {c}
    /\ Reply(c, "duplicate")
    /\ UNCHANGED <<host, client, sends>>

ReceiveRefused(c) ==
    /\ c \in wire /\ c \notin known /\ Refusal(c) # None
    /\ wire' = wire \ {c}
    /\ status' = "repair_required"
    /\ Reply(c, "repair_required")
    /\ UNCHANGED <<host, last, known, receiving, applied, overlapped, sends>>

\* The receipt goes on, by way of interrupt for an emergency, to apply.
Receive(c) ==
    /\ c \in wire /\ c \notin known /\ Refusal(c) = None
    /\ Cardinality(receiving) < MaxOverlap
    /\ wire' = wire \ {c}
    /\ receiving' = receiving \cup {[cue |-> c, receipt |-> sends[c],
                                     at |-> IF Emergency(c) THEN "interrupt" ELSE "apply"]}
    /\ applied' = IF Emergency(c) THEN applied
                  ELSE Append(applied, [cue |-> c, receipt |-> sends[c]])
    /\ overlapped' = IF receiving = {} THEN overlapped ELSE overlapped \cup {c}
    /\ UNCHANGED <<host, status, last, known, replies, sends>>

Interrupted(r) ==
    /\ r \in receiving /\ r.at = "interrupt"
    /\ receiving' = (receiving \ {r}) \cup {[r EXCEPT !.at = "apply"]}
    /\ applied' = Append(applied, Entry(r))
    /\ UNCHANGED <<host, status, last, known, wire, replies, sends, overlapped>>

\* interrupt throws, outside receive's try: the receipt ends without an acknowledgement.
InterruptFailed(r) ==
    /\ r \in receiving /\ r.at = "interrupt"
    /\ receiving' = receiving \ {r}
    /\ UNCHANGED <<host, status, last, known, wire, replies, sends, applied, overlapped>>

\* Mutant: the id of an applied cue is not remembered.
AppliedUnremembered(r) ==
    /\ r \in receiving /\ r.at = "apply"
    /\ receiving' = receiving \ {r}
    /\ status' = "ready" /\ last' = r.cue
    /\ Reply(r.cue, "applied")
    /\ UNCHANGED <<host, applied, overlapped, wire, known, sends>>

Applied(r) ==
    /\ r \in receiving /\ r.at = "apply"
    /\ receiving' = receiving \ {r}
    /\ status' = "ready" /\ last' = r.cue /\ known' = known \cup {r.cue}
    /\ Reply(r.cue, "applied")
    /\ UNCHANGED <<host, applied, overlapped, wire, sends>>

\* apply throws: the cue stays unknown and may be tried again
Failed(r) ==
    /\ r \in receiving /\ r.at = "apply"
    /\ receiving' = receiving \ {r}
    /\ status' = "repair_required"
    /\ applied' = Filtered(applied, Elements(applied) \ {Entry(r)})
    /\ Reply(r.cue, "rejected")
    /\ UNCHANGED <<host, last, known, wire, sends, overlapped>>

Next ==
    \/ Issue \/ Replay \/ Snapshot \/ Lose
    \/ \E a \in replies : Acknowledge(a) \/ AcknowledgeUnknown(a)
    \/ \E c \in Cue : Resend(c) \/ ReceiveKnown(c) \/ ReceiveRefused(c) \/ Receive(c)
    \/ \E r \in receiving : Interrupted(r) \/ InterruptFailed(r) \/ Applied(r) \/ Failed(r)

Spec == Init /\ [][Next]_vars

-----------------------------------------------------------------------------
TypeOK ==
    /\ next \in 1..(MaxCues + 1) /\ last < next
    /\ Len(retained) <= MaxRetained
    /\ status \in {"ready", "repair_required"}

\* What the documentation promises of a cue (idempotent application) and the client does not
\* keep: a cue takes effect at most once, however often the transport repeats it.
AppliedOnce == \A j, k \in DOMAIN applied : applied[j].cue = applied[k].cue => j = k

\* What the client does keep: a cue takes effect twice only if it arrived while another
\* receipt was under way, never because the transport, a reconnect or a host that missed the
\* acknowledgement repeats it later.
CuesOnce ==
    \A j, k \in DOMAIN applied :
        applied[j].cue = applied[k].cue => j = k \/ applied[j].cue \in overlapped

\* What the host holds for settled did take effect. While receipts come one after another,
\* cues take effect in the order they were issued, and the client's sequence number covers
\* all it knows: only an emergency or a snapshot passes over a cue.
CuesInOrder ==
    /\ \A c \in Cue : acked[c] \in Settled => c \in known /\ \E k \in DOMAIN applied : applied[k].cue = c
    /\ overlapped = {} =>
           /\ \A j, k \in DOMAIN applied : j < k => applied[j].cue < applied[k].cue
           /\ \A c \in known : c <= last

-----------------------------------------------------------------------------
\* The inductive invariant of these properties.

Issued == 1..(next - 1)
Statuses == {"applied", "duplicate", "rejected", "repair_required"}
Lane ==
    /\ next \in 1..(MaxCues + 1) /\ last \in 0..(next - 1)
    /\ retained \in Seq(Issued) /\ Len(retained) <= MaxRetained
    /\ acked \in [Cue -> Statuses \cup {None}]
    /\ status \in {"ready", "repair_required"}
    /\ known \subseteq Issued
    /\ receiving \subseteq [cue : Issued, receipt : Nat, at : {"interrupt", "apply"}]
    /\ wire \subseteq Issued
    /\ replies \subseteq [cue : Issued, status : Statuses]
    /\ sends \in [Cue -> Nat]
    /\ applied \in Seq([cue : Issued, receipt : Nat])
\* A receipt is one transmission of its cue.
Receipts ==
    /\ \A r \in receiving : r.receipt <= sends[r.cue]
                            /\ (r.cue \in wire => r.receipt < sends[r.cue])
    /\ \A r, q \in receiving : Entry(r) = Entry(q) => r = q
\* A cue that never met another receipt is under way once, and not when it is known.
Alone ==
    \A r \in receiving : r.cue \notin overlapped =>
        r.cue \notin known /\ \A q \in receiving : q.cue = r.cue => q = r
\* Handed over and not taken back are the receipts under way, and those of cues that are
\* known; each cue that is known has a receipt that is through.
HandedOver ==
    /\ \A e \in Elements(applied) :
          e.cue \in known \/ \E r \in receiving : r.at = "apply" /\ Entry(r) = e
    /\ \A r \in receiving : r.at = "apply" => Entry(r) \in Elements(applied)
    /\ \A c \in known : \E e \in Elements(applied) :
          e.cue = c /\ \A r \in receiving : Entry(r) # e
Honest ==
    /\ \A a \in replies : a.status \in Settled => a.cue \in known
    /\ \A c \in Cue : acked[c] \in Settled => c \in known
\* Without overlap: one receipt at a time, ahead of all the client knows.
InTurn ==
    overlapped = {} =>
        /\ \A r \in receiving : r.cue > last /\ \A q \in receiving : q = r
        /\ \A c \in known : c <= last
        /\ \A j, k \in DOMAIN applied : j < k => applied[j].cue < applied[k].cue
CueInv == Lane /\ Receipts /\ Alone /\ HandedOver /\ Honest /\ CuesOnce /\ InTurn
=============================================================================
