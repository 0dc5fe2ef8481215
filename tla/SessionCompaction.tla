------------------------- MODULE SessionCompaction -------------------------
(***************************************************************************)
(* Checkpoints, compaction and recovery from a checkpoint and a tail       *)
(* (checkpoint, compact, restoreCheckpoint, rehydrateKernelFromCheckpoint  *)
(* in src/src/session.ts) for one kernel and its host.  Compaction takes   *)
(* the identities of old submissions out of the kernel; from then on the   *)
(* host's historyLookup has to answer for them.                            *)
(*                                                                         *)
(* The kernel's operations are those of SessionKernel with their data cut  *)
(* to what checkpoints carry: intents, interests, control transitions,     *)
(* ticks and rejections of a forged reveal, in tick mode, without a        *)
(* command classifier.  The window collects every seat.                    *)
(*                                                                         *)
(* Abstractions.                                                           *)
(*  - Reducer state, views, scopes and commitments are the `cursor` and    *)
(*    the ticks behind it; compact leaves them alone, except for revealed  *)
(*    commitments and salts, which no later operation needs.               *)
(*  - For intents a receipt's tombstone (expiredReceiptKeys) only repeats  *)
(*    historicalSubmissionKeys and is left out.                            *)
(*  - Two checkpoints have the same integrityDigest when they are equal.   *)
(*  - Duplicates prepare no transition and are left to SessionKernel.      *)
(***************************************************************************)
EXTENDS Integers, FiniteSets, Sequences

CONSTANTS
    Seats, Ids, Slots, None,
    ReceiptRetention,
    StraddlingCompaction, \* the host may compact while it holds a draft
    MaxRevision,          \* bound on committed transitions
    MaxCheckpoints        \* bound on the checkpoints the host stores

ASSUME CompactionAssumption ==
    /\ IsFiniteSet(Seats) /\ Seats # {} /\ IsFiniteSet(Slots)
    /\ None \notin Ids
    /\ StraddlingCompaction \in BOOLEAN
    /\ {ReceiptRetention, MaxRevision, MaxCheckpoints} \subseteq Nat

Key == Seats \X Ids
Kinds == {"intent", "interest", "control", "tick", "rejection"}
Intent == [key : Key, forged : BOOLEAN]
Receipt == [key : Key, cursor : Nat]
Rejection == [key : Key, at : Nat]
NoKey == <<None, None>>
Batch == [kind : Kinds, key : Key \cup {NoKey}, forged : BOOLEAN, cursor : Nat]

KernelState ==
    [revision : Nat, cursor : Nat,
     intents  : SUBSET Intent,     \* window.intents
     receipts : SUBSET Receipt,
     rejected : SUBSET Rejection,  \* rejectionHistory
     controls : SUBSET Key,
     events   : SUBSET Nat]        \* revisions with events in live.events
\* The fields of the kernel object that no draft copies.
Registers ==
    [historical : SUBSET Key,      \* historicalSubmissionKeys
     interests  : SUBSET Key,      \* historicalInterestCommands
     floor      : Nat]             \* compactedRetentionFloor
Checkpoint == [state : KernelState, registers : Registers]
Draft == [base : Nat, next : KernelState, batch : Batch]
NoDraft == [base |-> None]

VARIABLES
    live,      \* KernelState published by the last commit
    registers, \* identity registers and retention floor of this kernel object
    drafts,    \* the prepared transitions the host holds
    log,       \* the host's durable event log: log[r] is the batch of revision r
    stored,    \* checkpoints the host has durably committed
    history    \* the host's permanent history, behind historyLookup

vars == <<live, registers, drafts, log, stored, history>>

-----------------------------------------------------------------------------
(* The kernel's transitions.                                               *)

ReceiptKeys(k) == {r.key : r \in k.receipts}
Answered(k) == {i.key[1] : i \in k.intents}
Forged(k) == {i \in k.intents : i.forged}
Evict(k) == [k EXCEPT !.receipts =
                {r \in @ : r.cursor >= k.cursor - ReceiptRetention}]

\* Mutated ReceiptOf: the receipt names the window before.
ReceiptOfPrevious(k, key) == [key |-> key, cursor |-> k.cursor - 1]
ReceiptOf(k, key) == [key |-> key, cursor |-> k.cursor]

\* What a batch does to the state: the draft of a prepare, and rehydrate's step.
AfterIntent(k, b) ==
    [k EXCEPT !.intents = @ \cup {[key |-> b.key, forged |-> b.forged]},
              !.receipts = @ \cup {ReceiptOf(k, b.key)}]
AfterControl(k, b) == [k EXCEPT !.controls = @ \cup {b.key}]
AfterTick(k) == Evict([k EXCEPT !.cursor = @ + 1, !.intents = {}])
AfterRejection(k, b) ==
    [k EXCEPT !.intents = {i \in @ : i.key # b.key},
              !.receipts = {r \in @ : r.key # b.key},
              !.rejected = @ \cup {[key |-> b.key, at |-> k.revision + 1]}]

After(k, b) ==
    LET next == CASE b.kind = "intent"    -> AfterIntent(k, b)
                  [] b.kind = "interest"  -> k
                  [] b.kind = "control"   -> AfterControl(k, b)
                  [] b.kind = "tick"      -> AfterTick(k)
                  [] b.kind = "rejection" -> AfterRejection(k, b)
    IN [next EXCEPT !.revision = k.revision + 1,
                    !.events = @ \cup {k.revision + 1}]

\* commit and rehydrate enter the id of an intent and of an interest.
Register(r, b) ==
    [r EXCEPT
      !.historical = IF b.kind \in {"intent", "interest"} THEN @ \cup {b.key} ELSE @,
      !.interests  = IF b.kind = "interest" THEN @ \cup {b.key} ELSE @]

BatchOf(kind, key, forged) ==
    [kind |-> kind, key |-> key, forged |-> forged, cursor |-> live.cursor]

Prepare(slot, b) ==
    /\ drafts[slot] = NoDraft
    /\ live.revision < MaxRevision
    /\ drafts' = [drafts EXCEPT ![slot] =
          [base |-> live.revision, next |-> After(live, b), batch |-> b]]
    /\ UNCHANGED <<live, registers, log, stored, history>>

PrepareIntent(slot, key, forged) ==
    /\ key[1] \notin Answered(live)
    /\ key \notin ReceiptKeys(live) \cup registers.historical \cup registers.interests
    /\ key \notin history.gameplay \cup history.interests
    /\ Prepare(slot, BatchOf("intent", key, forged))

PrepareInterest(slot, key) ==
    /\ key \notin registers.interests \cup history.interests
    /\ key \notin registers.historical \cup history.gameplay
    /\ Prepare(slot, BatchOf("interest", key, FALSE))

PrepareControlTransition(slot, key) ==
    /\ key \notin ReceiptKeys(live) \cup registers.historical \cup history.gameplay
    /\ key \notin live.controls \cup history.controls
    /\ Prepare(slot, BatchOf("control", key, FALSE))

\* mapIntents stops at a forged reveal (in SessionKernel the first in seat order,
\* here any); otherwise the window resolves.
PrepareAdvance(slot) ==
    IF Forged(live) = {}
    THEN Prepare(slot, BatchOf("tick", NoKey, FALSE))
    ELSE \E i \in Forged(live) : Prepare(slot, BatchOf("rejection", i.key, TRUE))

\* The host persists the batch and commits the draft.
Commit(slot) ==
    LET d == drafts[slot]
    IN /\ d # NoDraft /\ d.base = live.revision
       /\ live' = d.next
       /\ registers' = Register(registers, d.batch)
       /\ log' = Append(log, d.batch)
       /\ drafts' = [drafts EXCEPT ![slot] = NoDraft]
       /\ UNCHANGED <<stored, history>>

\* abort, or the commit of a stale draft.
Discard(slot) ==
    /\ drafts[slot] # NoDraft
    /\ drafts' = [drafts EXCEPT ![slot] = NoDraft]
    /\ UNCHANGED <<live, registers, log, stored, history>>

-----------------------------------------------------------------------------
(* Checkpoints, compaction, recovery.                                      *)

\* checkpoint(): the live state without its events, and the registers.
checkpoint == [state |-> [live EXCEPT !.events = {}], registers |-> registers]

StoreCheckpoint ==
    /\ checkpoint \notin stored
    /\ Cardinality(stored) < MaxCheckpoints
    /\ stored' = stored \cup {checkpoint}
    /\ UNCHANGED <<live, registers, drafts, log, history>>

\* The host copies a stored checkpoint's identities into its history.
Recorded(c) ==
    /\ c.registers.historical \subseteq history.gameplay
    /\ c.registers.interests \subseteq history.interests
    /\ c.state.controls \subseteq history.controls
RecordHistory(c) ==
    /\ ~Recorded(c)
    /\ history' = [gameplay  |-> history.gameplay \cup c.registers.historical,
                   interests |-> history.interests \cup c.registers.interests,
                   controls  |-> history.controls \cup c.state.controls]
    /\ UNCHANGED <<live, registers, drafts, log, stored>>

\* Mutated Compacted: the event prefix stays.
CompactedKeepingEvents(k) == [k EXCEPT !.rejected = {}, !.controls = {}]
Compacted(k) == [k EXCEPT !.events = {}, !.rejected = {}, !.controls = {}]

\* Mutated compact: the checkpoint need not be the current one.
compactOutdated(c) ==
    /\ Recorded(c)
    /\ StraddlingCompaction \/ \A slot \in Slots : drafts[slot] = NoDraft
    /\ live' = Compacted(live)
    /\ registers' = [historical |-> {}, interests |-> {}, floor |-> live.revision]
    /\ UNCHANGED <<drafts, log, stored, history>>

\* compact(): only for the checkpoint of this very state, confirmed as stored
\* and recorded.  It changes the live state in place and takes no revision, so a
\* draft prepared before it is not stale after it.
compact(c) ==
    /\ c = checkpoint
    /\ Recorded(c)
    /\ StraddlingCompaction \/ \A slot \in Slots : drafts[slot] = NoDraft
    /\ live' = Compacted(live)
    /\ registers' = [historical |-> {}, interests |-> {}, floor |-> live.revision]
    /\ UNCHANGED <<drafts, log, stored, history>>

\* restoreCheckpoint: what it accepts of a checkpoint's rejection history.
Restorable(c) ==
    /\ c.registers.floor <= c.state.revision
    /\ \A t \in c.state.rejected : t.at \in (c.registers.floor + 1)..c.state.revision

\* Mutated Restore: the rejections are not restored.
RestoreForgetting(c) ==
    [state |-> [c.state EXCEPT !.rejected = {}], registers |-> c.registers]
Restore(c) == [state |-> c.state, registers |-> c.registers]

\* Mutated Replay: the ids of the tail are not registered.
ReplayUnregistered(c, b) ==
    [state |-> After(c.state, b), registers |-> c.registers]
Replay(c, b) ==
    [state |-> After(c.state, b), registers |-> Register(c.registers, b)]
\* rehydrateKernelFromCheckpoint with the events strictly after the watermark.
Rehydrated(c, events) ==
    LET kernel[r \in 0..Len(events)] ==
            IF r <= c.state.revision THEN Restore(c) ELSE Replay(kernel[r - 1], events[r])
    IN  kernel[Len(events)]

\* A restarted host recovers from any checkpoint it stored; drafts are lost.
RecoverFrom(c) ==
    /\ Restorable(c)
    /\ live' = Rehydrated(c, log').state
    /\ registers' = Rehydrated(c, log').registers
    /\ drafts' = [slot \in Slots |-> NoDraft]
    /\ UNCHANGED <<stored, history>>

Restart(c) == UNCHANGED log /\ RecoverFrom(c)

\* The host stops after persisting a batch it has not committed.
CrashAfterPersist(slot, c) ==
    LET d == drafts[slot]
    IN /\ d # NoDraft /\ d.base = live.revision
       /\ log' = Append(log, d.batch)
       /\ RecoverFrom(c)

-----------------------------------------------------------------------------
Init ==
    /\ live = [revision |-> 0, cursor |-> 0, intents |-> {}, receipts |-> {},
               rejected |-> {}, controls |-> {}, events |-> {}]
    /\ registers = [historical |-> {}, interests |-> {}, floor |-> 0]
    /\ drafts = [slot \in Slots |-> NoDraft]
    /\ log = <<>>
    /\ stored = {}
    /\ history = [gameplay |-> {}, interests |-> {}, controls |-> {}]

Next ==
    \/ \E slot \in Slots :
          \/ \E key \in Key :
                \/ \E forged \in BOOLEAN : PrepareIntent(slot, key, forged)
                \/ PrepareInterest(slot, key)
                \/ PrepareControlTransition(slot, key)
          \/ PrepareAdvance(slot)
          \/ Commit(slot) \/ Discard(slot)
          \/ \E c \in stored : CrashAfterPersist(slot, c)
    \/ StoreCheckpoint
    \/ \E c \in stored : RecordHistory(c) \/ compact(c) \/ Restart(c)

Spec == Init /\ [][Next]_vars

-----------------------------------------------------------------------------
(* Properties.                                                             *)

\* Type invariant of the compacting kernel and its host's stores.
TypeOK ==
    /\ live \in KernelState
    /\ registers \in Registers
    /\ drafts \in [Slots -> Draft \cup {NoDraft}]
    /\ log \in Seq(Batch) /\ Len(log) = live.revision
    /\ stored \subseteq Checkpoint
    /\ history \in [gameplay : SUBSET Key, interests : SUBSET Key,
                    controls : SUBSET Key]

\* Receipt eviction, rejection, compaction and recovery never let an id be used
\* twice: the durable log holds an id in one intent or interest and in one
\* control transition at most, and no control transition takes the id of an
\* earlier submission (docs/session-and-integrity.md, "Receipt retention").
IdentitiesPermanent ==
    \A i, j \in DOMAIN log :
        (i < j /\ log[i].key = log[j].key /\ log[j].kind # "rejection") =>
            \/ log[i].key = NoKey
            \/ log[i].kind = "control" /\ log[j].kind # "control"

\* Every rejection in the durable log after revision r.
RejectionsAfter(r) ==
    {[key |-> log[at].key, at |-> at] :
        at \in {n \in DOMAIN log : n > r /\ log[n].kind = "rejection"}}
\* A client that asks for a snapshot at or above the retention floor is told
\* of every rejection since the revision it names, whatever was compacted or
\* restored in between (snapshot, rejectionNoticesSince).
NoRejectionOmitted ==
    \A r \in registers.floor..live.revision :
        {t \in live.rejected : t.at > r} = RejectionsAfter(r)

\* What a kernel answers to submissions and snapshots.
Answers(k, r) ==
    [revision |-> k.revision, cursor |-> k.cursor, intents |-> k.intents,
     receipts |-> k.receipts, controls |-> k.controls \cup history.controls,
     gameplay |-> r.historical \cup history.gameplay,
     interests |-> r.interests \cup history.interests]

\* Recovery from any stored checkpoint and its tail, compacted since or not,
\* is possible and gives a kernel that answers like the live one.
RecoveryAnswersAlike ==
    \A c \in stored :
        /\ Restorable(c)
        /\ Answers(Rehydrated(c, log).state, Rehydrated(c, log).registers)
              = Answers(live, registers)

\* Compaction lets go of the event prefix for good: the transcript the kernel
\* keeps ends at its revision, has no gap and begins above the retention floor.
TranscriptAboveFloor ==
    \E base \in registers.floor..live.revision :
        live.events = (base + 1)..live.revision

\* docs/rfcs/rfc-012-post-migration-gaps.md: "restore equivalence for reducer
\* state, ... and rejections": the checkpoint the kernel hands out at any moment
\* can be restored.
CheckpointRestorable == Restorable(checkpoint)
=============================================================================
