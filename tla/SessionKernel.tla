--------------------------- MODULE SessionKernel ---------------------------
(***************************************************************************)
(* The authoritative session kernel (src/src/session.ts): every operation  *)
(* prepares a transition on an isolated draft of the live state, and a     *)
(* later commit publishes the draft, provided no other transition was      *)
(* committed in between.  Next to the live state the module keeps          *)
(* `recovered`, what rehydrateKernel rebuilds from the durable transcript: *)
(* rehydration is a left fold over the events, so `recovered` is advanced  *)
(* by one fold step (Replay) whenever a batch of events becomes durable.   *)
(*                                                                         *)
(* Abstractions.                                                           *)
(*  - The reducer is free: its state is the sequence of effects applied to *)
(*    it.  Whoever takes part next (Participants) and whether the session  *)
(*    is over (Ended) are arbitrary functions of that sequence, so any     *)
(*    deterministic reducer is an instance.                                *)
(*  - `tick` and `cursor` start at 0 and are only ever incremented         *)
(*    together (resolveOnce, rehydrate), so one counter stands for both.   *)
(*  - All seats' view revisions move together; viewRev stands for each.    *)
(*  - A payload is a command name and, for commitments, a number.  Salts,  *)
(*    hashes, signatures, host time and observation bodies are left out; a *)
(*    reveal whose hash does not match is the command "forge".             *)
(*  - A prepare that throws changes nothing and is a disabled action.      *)
(*  - One batch stands for the events of one transition.  The empty ticks  *)
(*    of a catch-up are a count (`extra`) in it, not events of their own.  *)
(* Compaction and checkpoints with a tail are in SessionCompaction.        *)
(***************************************************************************)
EXTENDS Integers, Sequences, FiniteSets, TLC

CONSTANTS
    Seats,                \* declared seats, as integers: their sorted order
    Ids,                  \* submission and control ids a client may choose
    Slots,                \* prepared transitions the host can hold at once
    Scopes,               \* interest scopes of a seat, its own one included
    OwnScope,             \* the undeclared scope every seat starts with
    Ops,                  \* names of the commands clients send
    None,                 \* no seat / no id
    Participants(_),      \* seats whose intents the next window collects
    Ended(_),             \* the view status of a state is not 'playing'
    SessionOptions,       \* the option records a session may be created with
    MaxFutureTicks, MaxCatchUpTicks, ReceiptRetention,
    MaxOpenCommitments, CheckpointInterval, MaxScopesPerSeat,
    FreshInteractionIds,  \* clients never reuse the id of an interaction
    MaxRevision           \* bound on committed transitions

IntentOps == {"play", "commit", "reveal", "forge"}
Command == [op : IntentOps \cup {"touch", "timeout", "control"}, n : Nat]
Input == [seat : Seats \cup {None}, id : Ids \cup {None}, cmd : Command]
Intent == [seat : Seats, id : Ids, cmd : Command]
Key == Seats \X Ids
\* classifyCommand, applyControlTransition, interest and signaturePolicy are
\* configured; cadence.mode is 'ticks'; timeoutPolicy.windowTicks, 0 for none.
Options == [classifier : BOOLEAN, controls : BOOLEAN, interest : BOOLEAN,
            signed : BOOLEAN, ticks : BOOLEAN, window : Nat]
Effect == [kind : {"tick", "interaction", "control"}, inputs : SUBSET Input]

ASSUME KernelAssumption ==
    /\ Seats \subseteq Nat /\ IsFiniteSet(Seats) /\ Seats # {}
    /\ None \notin Seats /\ None \notin Ids
    /\ Ops \subseteq IntentOps \cup {"touch"}
    /\ OwnScope \in Scopes
    /\ SessionOptions \subseteq Options
    /\ \A o \in SessionOptions : (o.interest => o.signed) /\ (o.window > 0 => o.ticks)
    /\ FreshInteractionIds \in BOOLEAN
    /\ {ReceiptRetention, MaxRevision} \subseteq Nat
    /\ {MaxFutureTicks, MaxCatchUpTicks, MaxOpenCommitments,
        CheckpointInterval, MaxScopesPerSeat} \subseteq Nat \ {0}

VARIABLES
    options,     \* this session's options, fixed at creation
    live,        \* KernelState published by the last commit
    historical,  \* historicalSubmissionKeys of this kernel object
    interests,   \* historicalInterestCommands: key and declared scope
    drafts,      \* the prepared transitions the host holds
    recovered    \* what rehydrateKernel makes of the durable transcript

vars == <<options, live, historical, interests, drafts, recovered>>

-----------------------------------------------------------------------------
(* Data.                                                                   *)

Receipt == [key : Key, cmd : Command, effect : {"intent", "interaction"},
            cursor : Nat, at : Nat]
Tombstone == [key : Key, at : Nat]

KernelState ==
    [revision   : Nat,              \* transitionRevision
     cursor     : Nat,              \* cursor and tick
     window     : SUBSET Seats,     \* window.participants
     intents    : SUBSET Intent,    \* window.intents with intentActions
     game       : Seq(Effect),      \* reducerState
     viewRev    : Nat,
     checkpoint : Nat,              \* lastCheckpointTick
     receipts   : SUBSET Receipt,
     expired    : SUBSET Tombstone, \* expiredReceiptKeys in insertion order
     rejected   : SUBSET Tombstone, \* rejectionHistory
     opened     : [Seats -> SUBSET Nat],  \* commitments not yet revealed
     nextCommit : [Seats -> Nat],         \* nextCommitmentIds
     scopes     : SUBSET (Seats \X Scopes),
     controls   : SUBSET Key]

InterestCommand == [key : Key, scope : Scopes]

Batch == [kind : {"intent", "interaction", "interest", "control",
                  "resolution", "rejection", "audit"},
          at : Nat, cursor : Nat, input : Input, inputs : SUBSET Input,
          extra : Nat, scope : Scopes, checkpoint : BOOLEAN,
          digest : Nat \X Seq(Effect)]

Draft == [base : Nat, noop : BOOLEAN, next : KernelState, batch : Batch]
NoDraft == [base |-> None]

Recovered == [state : KernelState, historical : SUBSET Key,
              interests : SUBSET InterestCommand, fault : BOOLEAN]

NoInput == [seat |-> None, id |-> None, cmd |-> [op |-> "timeout", n |-> 0]]
InputOf(s, id, op, n) == [seat |-> s, id |-> id, cmd |-> [op |-> op, n |-> n]]
KeyOf(i) == <<i.seat, i.id>>

-----------------------------------------------------------------------------
(* Parts of the state that several operations read or update.              *)

Playing(k) == ~Ended(k.game)
\* validatedParticipantsForView: a window needs declared seats, at least one.
ValidParticipants(g) == Participants(g) \in (SUBSET Seats) \ {{}}
Answered(k) == {i.seat : i \in k.intents}
Ready(k) == k.window \subseteq Answered(k)
ReceiptKeys(k) == {r.key : r \in k.receipts}
ExpiredKeys(k) == {t.key : t \in k.expired}
InterestKeys == {c.key : c \in interests}

\* Every seat's view is recomputed and its revision raised by one per effect.
Show(k, effects) ==
    [k EXCEPT !.game = @ \o effects, !.viewRev = @ + Len(effects)]

\* Receipts older than the retention become tombstones, and of these only the
\* newest survive; a receipt's `at` is its place in the insertion order.
Evict(k) ==
    LET gone  == {r \in k.receipts : r.cursor < k.cursor - ReceiptRetention}
        tombs == k.expired \cup {[key |-> r.key, at |-> r.at] : r \in gone}
        cap   == Cardinality(Seats) *
                   (IF ReceiptRetention > 1 THEN ReceiptRetention ELSE 1)
    IN [k EXCEPT !.receipts = @ \ gone,
                 !.expired = {t \in tombs :
                     Cardinality({u \in tombs : u.at > t.at}) < cap}]

\* mapIntents: the commitment book after a tick's inputs, and the condition
\* under which it does not throw.
Commits(s, inputs) == {i.cmd.n : i \in {j \in inputs : j.seat = s /\ j.cmd.op = "commit"}}
Reveals(s, inputs) == {i.cmd.n : i \in {j \in inputs : j.seat = s /\ j.cmd.op = "reveal"}}
BookValid(k, inputs) ==
    \A s \in Seats : /\ Commits(s, inputs) \subseteq {k.nextCommit[s]}
                     /\ Reveals(s, inputs) \subseteq k.opened[s]
\* Mutated Book: a reveal leaves its commitment open.
BookKeepingRevealed(k, inputs) ==
    [k EXCEPT
        !.opened = [s \in Seats |-> k.opened[s] \cup Commits(s, inputs)],
        !.nextCommit = [s \in Seats |->
            IF Commits(s, inputs) = {} THEN k.nextCommit[s]
                                       ELSE k.nextCommit[s] + 1]]
Book(k, inputs) ==
    [k EXCEPT
        !.opened = [s \in Seats |->
            (k.opened[s] \cup Commits(s, inputs)) \ Reveals(s, inputs)],
        !.nextCommit = [s \in Seats |->
            IF Commits(s, inputs) = {} THEN k.nextCommit[s]
                                       ELSE k.nextCommit[s] + 1]]

Tick(inputs) == [kind |-> "tick", inputs |-> inputs]
EmptyTicks(n) == [j \in 1..n |-> Tick({})]

\* createIntentWindow for the state reached, at the given cursor.
OpenWindow(k, cursor) ==
    [k EXCEPT !.cursor = cursor, !.window = Participants(k.game), !.intents = {}]

\* resolveOnce without a rejection, and the `extra` empty ticks that a
\* catch-up resolves behind it.
Resolve(k, inputs, extra) ==
    Evict(OpenWindow(Show(Book(k, inputs), <<Tick(inputs)>> \o EmptyTicks(extra)),
                     k.cursor + 1 + extra))

\* mapIntents stops at the first mismatching reveal in seat order.
Forged(k) == {i \in k.intents : i.cmd.op = "forge"}
FirstForged(k, i) == i \in Forged(k) /\ \A j \in Forged(k) : i.seat <= j.seat

\* Mutated Reject: the receipt of the rejected intent stays.
RejectKeepingReceipt(k, i, at) ==
    [k EXCEPT !.intents = @ \ {i},
              !.rejected = @ \cup {[key |-> KeyOf(i), at |-> at]}]
\* A rejection takes the intent and its receipt back; the key stays spent.
Reject(k, i, at) ==
    [k EXCEPT !.intents = @ \ {i},
              !.receipts = {r \in @ : r.key # KeyOf(i)},
              !.rejected = @ \cup {[key |-> KeyOf(i), at |-> at]}]

-----------------------------------------------------------------------------
(* Rehydration: one step of the fold over the durable transcript.          *)

Digest(k) == <<k.cursor, k.game>>

\* The checkpoint event at the end of a batch is compared with the digest of
\* the state rebuilt so far.
CheckDigest(r, b) ==
    IF b.checkpoint
    THEN [r EXCEPT !.state.checkpoint = r.state.cursor,
                   !.fault = @ \/ b.digest # Digest(r.state)]
    ELSE r

ReplayIntent(r, b) ==
    LET key == KeyOf(b.input)
    IN [r EXCEPT
         !.historical = @ \cup {key},
         !.state.intents = @ \cup {b.input},
         !.state.receipts = @ \cup
             {[key |-> key, cmd |-> b.input.cmd, effect |-> "intent",
               cursor |-> b.cursor, at |-> b.at]},
         !.fault = @ \/ b.input.seat \notin r.state.window
                     \/ b.input.seat \in Answered(r.state)]

\* Mutated ReplayInteraction: the id is not registered.
ReplayInteractionForgetting(r, b) ==
    LET shown == Show(r.state, <<[kind |-> "interaction", inputs |-> {b.input}]>>)
    IN [r EXCEPT !.state = [shown EXCEPT !.receipts = @ \cup
          {[key |-> KeyOf(b.input), cmd |-> b.input.cmd, effect |-> "interaction",
            cursor |-> b.cursor, at |-> b.at]}]]

ReplayInteraction(r, b) ==
    LET key   == KeyOf(b.input)
        shown == Show(r.state, <<[kind |-> "interaction", inputs |-> {b.input}]>>)
    IN [r EXCEPT
         !.historical = @ \cup {key},
         !.state = [shown EXCEPT !.receipts = @ \cup
             {[key |-> key, cmd |-> b.input.cmd, effect |-> "interaction",
               cursor |-> b.cursor, at |-> b.at]}],
         !.fault = @ \/ b.cursor # r.state.cursor
                     \/ key \in r.historical \cup ReceiptKeys(r.state)
                     \/ Participants(shown.game) # r.state.window]

ReplayInterest(r, b) ==
    LET key == KeyOf(b.input)
    IN [r EXCEPT
         !.historical = @ \cup {key},
         !.interests = @ \cup {[key |-> key, scope |-> b.scope]},
         !.state.scopes = @ \cup {<<b.input.seat, b.scope>>},
         !.fault = @ \/ b.cursor # r.state.cursor \/ key \in r.historical]

ReplayControl(r, b) ==
    LET key == KeyOf(b.input)
    IN [r EXCEPT
         !.state = [Show(r.state, <<[kind |-> "control", inputs |-> {b.input}]>>)
                      EXCEPT !.controls = @ \cup {key}],
         !.fault = @ \/ b.cursor # r.state.cursor
                     \/ key \in r.state.controls
                     \/ ~ValidParticipants(r.state.game \o
                           <<[kind |-> "control", inputs |-> {b.input}]>>)]

ReplayResolution(r, b) ==
    LET booked == Book(r.state, b.inputs)
        shown  == Show(booked, <<Tick(b.inputs)>> \o EmptyTicks(b.extra))
    IN [r EXCEPT
         !.state = Evict(OpenWindow(shown, b.cursor + 1 + b.extra)),
         !.fault = @ \/ ~BookValid(r.state, b.inputs)
                     \/ ~ValidParticipants(shown.game)]

ReplayRejection(r, b) ==
    LET seat == b.input.seat
        key  == KeyOf(b.input)
    IN [r EXCEPT
         !.state.intents = {i \in @ : i.seat # seat},
         !.state.receipts = {q \in @ : q.key # key},
         !.state.rejected = @ \cup {[key |-> key, at |-> b.at]}]

ReplayEvents(r, b) ==
    CASE b.kind = "intent"      -> ReplayIntent(r, b)
      [] b.kind = "interaction" -> ReplayInteraction(r, b)
      [] b.kind = "interest"    -> ReplayInterest(r, b)
      [] b.kind = "control"     -> ReplayControl(r, b)
      [] b.kind = "resolution"  -> ReplayResolution(r, b)
      [] b.kind = "rejection"   -> ReplayRejection(r, b)
      [] b.kind = "audit"       -> r

Replay(r, b) ==
    LET done == CheckDigest(ReplayEvents(r, b), b)
    IN [done EXCEPT !.state.revision = IF b.at > @ THEN b.at ELSE @]

-----------------------------------------------------------------------------
(* Preparing, committing, aborting.                                        *)

Blank(k) ==
    [kind |-> "audit", at |-> k.revision + 1, cursor |-> k.cursor,
     input |-> NoInput, inputs |-> {}, extra |-> 0, scope |-> OwnScope,
     checkpoint |-> FALSE, digest |-> <<0, <<>>>>]

\* makePrepared: seal the draft under the next revision and put it in a slot.
Prepare(slot, next, batch) ==
    /\ drafts[slot] = NoDraft
    /\ live.revision < MaxRevision
    /\ drafts' = [drafts EXCEPT ![slot] =
          [base |-> live.revision, noop |-> FALSE, batch |-> batch,
           next |-> [next EXCEPT !.revision = live.revision + 1]]]
    /\ UNCHANGED <<options, live, historical, interests, recovered>>

\* A duplicate is prepared too, as a transition without events.
PrepareNoop(slot) ==
    /\ drafts[slot] = NoDraft
    /\ drafts' = [drafts EXCEPT ![slot] =
          [base |-> live.revision, noop |-> TRUE, batch |-> Blank(live),
           next |-> live]]
    /\ UNCHANGED <<options, live, historical, interests, recovered>>

\* The clients this model assumes: when FreshInteractionIds holds, an id that
\* named an interaction is sent again only to repeat it while its receipt lasts.
InteractionKeys(g) ==
    {KeyOf(i) : i \in UNION {g[j].inputs :
                     j \in {l \in DOMAIN g : g[l].kind = "interaction"}}}
MayUse(key) == FreshInteractionIds => key \notin InteractionKeys(live.game)

\* The guards prepareCommand and prepareIntent share for a submission that no
\* receipt answers: it targets the open window, its seat takes part, and its id
\* is not known to be spent.
Admissible(key) ==
    /\ key[1] \in live.window
    /\ Playing(live)
    /\ key \notin ReceiptKeys(live) \cup ExpiredKeys(live)
                     \cup historical \cup InterestKeys
    /\ options.classifier => key \notin live.controls

\* An action's commitment envelope is checked when the intent is accepted.
EnvelopeValid(i) ==
    CASE i.cmd.op = "commit" ->
            /\ i.cmd.n = live.nextCommit[i.seat]
            /\ Cardinality(live.opened[i.seat]) < MaxOpenCommitments
      [] i.cmd.op \in {"reveal", "forge"} -> i.cmd.n \in live.opened[i.seat]
      [] OTHER -> i.cmd.n = 0

\* Mutated ReceiptOf: the receipt names the window before.
ReceiptOfPrevious(k, i, effect) ==
    [key |-> KeyOf(i), cmd |-> i.cmd, effect |-> effect,
     cursor |-> k.cursor - 1, at |-> k.revision + 1]
\* The receipt of a command accepted in state k.
ReceiptOf(k, i, effect) ==
    [key |-> KeyOf(i), cmd |-> i.cmd, effect |-> effect,
     cursor |-> k.cursor, at |-> k.revision + 1]

IntentDraft(k, i) ==
    [k EXCEPT !.intents = @ \cup {i},
              !.receipts = @ \cup {ReceiptOf(k, i, "intent")}]
IntentBatch(k, i) == [Blank(k) EXCEPT !.kind = "intent", !.input = i]

PrepareIntent(slot, i) ==
    /\ MayUse(KeyOf(i))
    /\ Admissible(KeyOf(i))
    /\ EnvelopeValid(i)
    /\ i.seat \notin Answered(live)
    /\ Prepare(slot, IntentDraft(live, i), IntentBatch(live, i))

\* An interaction changes the state at once and leaves the window open; it may
\* not change who takes part in it.
InteractionDraft(k, i) ==
    [Show(k, <<[kind |-> "interaction", inputs |-> {i}]>>)
       EXCEPT !.receipts = @ \cup {ReceiptOf(k, i, "interaction")}]
InteractionBatch(k, i) == [Blank(k) EXCEPT !.kind = "interaction", !.input = i]

PrepareInteraction(slot, i) ==
    /\ options.classifier
    /\ MayUse(KeyOf(i))
    /\ Admissible(KeyOf(i))
    /\ Participants(InteractionDraft(live, i).game) = live.window
    /\ Prepare(slot, InteractionDraft(live, i), InteractionBatch(live, i))

\* A retained receipt, a recorded interest or a recorded control answers a
\* repeated request.
PrepareDuplicate(slot) ==
    /\ \/ live.receipts # {}
       \/ interests # {}
       \/ live.controls \ (ReceiptKeys(live) \cup historical) # {}
    /\ PrepareNoop(slot)

\* The rejection of the first forged reveal, and the checkpoint after it.
RejectionDraft(k, i) ==
    [Reject(k, i, live.revision + 1) EXCEPT !.checkpoint = k.cursor]
RejectionBatch(k, i) ==
    LET after == RejectionDraft(k, i)
    IN [Blank(k) EXCEPT !.kind = "rejection", !.input = i,
                        !.checkpoint = TRUE, !.digest = Digest(after)]

\* A resolution and, when one is due, the checkpoint after it.
Due(k, after) == after.cursor - k.checkpoint >= CheckpointInterval
ResolutionDraft(k, inputs, extra) ==
    LET after == Resolve(k, inputs, extra)
    IN IF Due(k, after) THEN [after EXCEPT !.checkpoint = after.cursor] ELSE after
ResolutionBatch(k, inputs, extra) ==
    LET after == Resolve(k, inputs, extra)
    IN [Blank(k) EXCEPT !.kind = "resolution", !.inputs = inputs, !.extra = extra,
          !.checkpoint = Due(k, after),
          !.digest = IF Due(k, after) THEN Digest(after) ELSE @]

GameAfter(inputs, extra) == live.game \o (<<Tick(inputs)>> \o EmptyTicks(extra))

PrepareResolution(slot, inputs, extra) ==
    /\ BookValid(live, inputs)
    /\ \A e \in 0..extra : ValidParticipants(GameAfter(inputs, e))
    /\ Prepare(slot, ResolutionDraft(live, inputs, extra),
                     ResolutionBatch(live, inputs, extra))

PrepareRejection(slot) ==
    \E i \in live.intents :
        /\ FirstForged(live, i)
        /\ Prepare(slot, RejectionDraft(live, i), RejectionBatch(live, i))

\* Ticks beyond the first that a request for `ahead` ticks resolves: a timeout
\* policy stops at the new, unanswered window, the end of the session too.
CatchUp(ahead, extra) ==
    /\ extra <= ahead /\ extra < MaxCatchUpTicks
    /\ options.window > 0 => extra = 0
    /\ \A e \in 0..(extra - 1) : ~Ended(GameAfter(live.intents, e))
    /\ \/ extra = ahead
       \/ extra + 1 = MaxCatchUpTicks
       \/ options.window > 0
       \/ Ended(GameAfter(live.intents, extra))

\* prepareAdvance to the tick `ahead` of the current one (0 in turns mode).
PrepareAdvance(slot, ahead) ==
    /\ Playing(live)
    /\ options.ticks \/ (ahead = 0 /\ Ready(live))
    /\ ahead <= MaxFutureTicks
    /\ options.window > 0 => Ready(live)
    /\ IF Forged(live) # {}
       THEN PrepareRejection(slot)
       ELSE \E extra \in 0..ahead :
              /\ CatchUp(ahead, extra)
              /\ PrepareResolution(slot, live.intents, extra)

\* Under a timeout policy an unready window before its deadline is a no-op.
PrepareIdleAdvance(slot, ahead) ==
    /\ Playing(live)
    /\ options.window > 0 /\ ~Ready(live)
    /\ ahead < options.window /\ ahead <= MaxFutureTicks
    /\ PrepareNoop(slot)

\* Mutated PrepareTimeout: the named seat may have answered.
PrepareTimeoutAnswered(slot, p) ==
    /\ p \in live.window \cup {None}
    /\ Playing(live)
    /\ IF Forged(live) # {}
       THEN PrepareRejection(slot)
       ELSE PrepareResolution(slot,
              live.intents \cup {InputOf(p, None, "timeout", 0)}, 0)

\* A timeout resolves the window as it stands, with one system input for the
\* seat that did not answer (or for the window as a whole).
PrepareTimeout(slot, p) ==
    /\ p \in (live.window \ Answered(live)) \cup {None}
    /\ Playing(live)
    /\ IF Forged(live) # {}
       THEN PrepareRejection(slot)
       ELSE PrepareResolution(slot,
              live.intents \cup {InputOf(p, None, "timeout", 0)}, 0)

PrepareExtension(slot) ==
    /\ Playing(live)
    /\ Prepare(slot, live, Blank(live))

PrepareSeatSignature(slot) == options.signed /\ Prepare(slot, live, Blank(live))

\* Mutated ControlDraft: the transition opens a new window.
ControlDraftReopening(k, i) ==
    [Show(k, <<[kind |-> "control", inputs |-> {i}]>>)
       EXCEPT !.controls = @ \cup {KeyOf(i)}, !.intents = {}]
\* The host moves the state outside a window; the open window stays as it is.
ControlDraft(k, i) ==
    [Show(k, <<[kind |-> "control", inputs |-> {i}]>>)
       EXCEPT !.controls = @ \cup {KeyOf(i)}]
ControlBatch(k, i) == [Blank(k) EXCEPT !.kind = "control", !.input = i]

PrepareControlTransition(slot, key) ==
    LET i == InputOf(key[1], key[2], "control", 0)
    IN /\ options.controls
       /\ MayUse(key)
       /\ key \notin ReceiptKeys(live) \cup historical \cup live.controls
       /\ Playing(live)
       /\ ValidParticipants(ControlDraft(live, i).game)
       /\ Prepare(slot, ControlDraft(live, i), ControlBatch(live, i))

InterestDraft(k, key, scope) == [k EXCEPT !.scopes = @ \cup {<<key[1], scope>>}]
InterestBatch(k, key, scope) ==
    [Blank(k) EXCEPT !.kind = "interest", !.scope = scope,
                     !.input = InputOf(key[1], key[2], "play", 0)]

PrepareInterest(slot, key, scope) ==
    /\ options.interest
    /\ MayUse(key)
    /\ key \notin InterestKeys \cup historical
    /\ \/ <<key[1], scope>> \in live.scopes
       \/ Cardinality({p \in live.scopes : p[1] = key[1]}) < MaxScopesPerSeat
    /\ Prepare(slot, InterestDraft(live, key, scope),
                     InterestBatch(live, key, scope))

Close(slot) == drafts' = [drafts EXCEPT ![slot] = NoDraft]
Open(slot) == drafts[slot] # NoDraft

Durable(b) == recovered' = Replay(recovered, b)

\* The identity registers after a batch; the ids of interactions are not added.
HistoricalAfter(b) ==
    IF b.kind \in {"intent", "interest"} THEN historical \cup {KeyOf(b.input)}
                                         ELSE historical
InterestsAfter(b) ==
    IF b.kind = "interest"
    THEN interests \cup {[key |-> KeyOf(b.input), scope |-> b.scope]}
    ELSE interests

\* Mutated Commit: a stale draft is committed too.
CommitUnchecked(slot) ==
    LET d == drafts[slot]
    IN /\ Open(slot) /\ ~d.noop
       /\ live' = d.next
       /\ historical' = HistoricalAfter(d.batch)
       /\ interests' = InterestsAfter(d.batch)
       /\ Durable(d.batch)
       /\ Close(slot)
       /\ UNCHANGED options

\* The host persists the batch and commits it.
Commit(slot) ==
    LET d == drafts[slot]
    IN /\ Open(slot) /\ ~d.noop
       /\ d.base = live.revision
       /\ live' = d.next
       /\ historical' = HistoricalAfter(d.batch)
       /\ interests' = InterestsAfter(d.batch)
       /\ Durable(d.batch)
       /\ Close(slot)
       /\ UNCHANGED options

\* Nothing of a stale draft or of a duplicate's draft reaches the live state.
CommitStale(slot) ==
    /\ Open(slot) /\ drafts[slot].base # live.revision
    /\ Close(slot)
    /\ UNCHANGED <<options, live, historical, interests, recovered>>

CommitNoop(slot) ==
    /\ Open(slot) /\ drafts[slot].noop /\ drafts[slot].base = live.revision
    /\ Close(slot)
    /\ UNCHANGED <<options, live, historical, interests, recovered>>

Abort(slot) ==
    /\ Open(slot)
    /\ Close(slot)
    /\ UNCHANGED <<options, live, historical, interests, recovered>>

\* A restarted host rehydrates a new kernel; every draft is lost.
Rehydrate(r) ==
    /\ ~r.fault
    /\ live' = r.state
    /\ historical' = r.historical
    /\ interests' = r.interests
    /\ drafts' = [slot \in Slots |-> NoDraft]
    /\ UNCHANGED options

Restart == Rehydrate(recovered) /\ UNCHANGED recovered

\* The host stops between persisting a batch and committing it.
CrashAfterPersist(slot) ==
    LET d == drafts[slot]
    IN /\ Open(slot) /\ ~d.noop
       /\ d.base = live.revision
       /\ Durable(d.batch)
       /\ Rehydrate(Replay(recovered, d.batch))

-----------------------------------------------------------------------------
Fresh ==
    [revision |-> 0, cursor |-> 0, window |-> Participants(<<>>), intents |-> {},
     game |-> <<>>, viewRev |-> 0, checkpoint |-> 0, receipts |-> {},
     expired |-> {}, rejected |-> {},
     opened |-> [s \in Seats |-> {}], nextCommit |-> [s \in Seats |-> 0],
     scopes |-> Seats \X {OwnScope}, controls |-> {}]

Init ==
    /\ options \in SessionOptions
    /\ ValidParticipants(<<>>)
    /\ live = Fresh
    /\ historical = {} /\ interests = {}
    /\ drafts = [slot \in Slots |-> NoDraft]
    /\ recovered = [state |-> Fresh, historical |-> {}, interests |-> {},
                    fault |-> FALSE]

\* Commitment numbers a client can name.
Numbers(s, op) ==
    CASE op = "commit" -> {live.nextCommit[s]}
      [] op \in {"reveal", "forge"} -> live.opened[s]
      [] OTHER -> {0}

PrepareAny(slot) ==
    \/ \E s \in Seats, id \in Ids, op \in Ops : \E n \in Numbers(s, op) :
          LET i == InputOf(s, id, op, n)
          IN IF op = "touch" THEN PrepareInteraction(slot, i)
                             ELSE PrepareIntent(slot, i)
    \/ PrepareDuplicate(slot)
    \/ \E ahead \in 0..MaxFutureTicks :
          PrepareAdvance(slot, ahead) \/ PrepareIdleAdvance(slot, ahead)
    \/ \E p \in Seats \cup {None} : PrepareTimeout(slot, p)
    \/ PrepareExtension(slot)
    \/ PrepareSeatSignature(slot)
    \/ \E key \in Key : PrepareControlTransition(slot, key)
    \/ \E key \in Key, scope \in Scopes : PrepareInterest(slot, key, scope)

Next ==
    \/ Restart
    \/ \E slot \in Slots :
          \/ PrepareAny(slot)
          \/ Commit(slot) \/ CommitStale(slot) \/ CommitNoop(slot)
          \/ Abort(slot) \/ CrashAfterPersist(slot)

Spec == Init /\ [][Next]_vars

-----------------------------------------------------------------------------
(* Properties.                                                             *)

\* Type invariant of the kernel: the live state, the identity registers, every
\* draft and the rehydrated state are well formed.
TypeOK ==
    /\ options \in SessionOptions
    /\ live \in KernelState
    /\ historical \subseteq Key
    /\ interests \subseteq InterestCommand
    /\ drafts \in [Slots -> Draft \cup {NoDraft}]
    /\ recovered \in Recovered

TickIndexes(k) == {j \in DOMAIN k.game : k.game[j].kind = "tick"}
InputsAt(k, j) == k.game[j].inputs
\* Places where a command key took effect, was accepted or was turned down.
AppliedAt(k, key) == {j \in TickIndexes(k) : \E i \in InputsAt(k, j) : KeyOf(i) = key}
PendingKeys(k) == {KeyOf(i) : i \in k.intents}
RejectedKeys(k) == {t.key : t \in k.rejected}

\* Every accepted intent is in exactly one place: still in the open window,
\* applied by exactly one tick, or rejected.  No interaction, control
\* transition, timeout, catch-up, crash or stale draft loses or doubles one.
IntentAccounted ==
    \A key \in historical \ (InterestKeys \cup InteractionKeys(live.game)) :
        Cardinality(AppliedAt(live, key))
          + (IF key \in PendingKeys(live) THEN 1 ELSE 0)
          + (IF key \in RejectedKeys(live) THEN 1 ELSE 0) = 1

\* A tick takes at most one input of a seat: a timeout's system input never
\* meets the late answer it stands in for (resolveOnce, prepareTimeout).
OneInputPerSeat ==
    \A j \in TickIndexes(live) : \A a, b \in InputsAt(live, j) :
        a.seat = b.seat => a = b

\* What a repeated submission is told is true: a retained intent receipt says
\* "resolved" (its cursor is behind the live one) exactly when a tick took it.
ReceiptHonest ==
    \A r \in live.receipts : r.effect = "intent" =>
        (r.cursor < live.cursor) = (AppliedAt(live, r.key) # {})

\* A commitment is opened once, revealed at most once, and only in a later tick
\* (mapIntents, maxOpenCommitmentsPerSeat).
TicksOf(k, s, op, n) ==
    {j \in TickIndexes(k) : \E i \in InputsAt(k, j) :
        i.seat = s /\ i.cmd = [op |-> op, n |-> n]}
CommitmentsOrdered ==
    \A s \in Seats : \A n \in 0..(live.nextCommit[s] - 1) :
        LET made == TicksOf(live, s, "commit", n)
            told == TicksOf(live, s, "reveal", n)
        IN /\ Cardinality(made) = 1 /\ Cardinality(told) <= 1
           /\ \A a \in made, b \in told : a < b
           /\ n \in live.opened[s] <=> told = {}
           /\ Cardinality(live.opened[s]) <= MaxOpenCommitments

\* rehydrateKernel accepts every transcript the kernel produced and rebuilds the
\* live state exactly; its identity register also holds the interactions' ids.
RecoveryFaithful ==
    recovered = [state |-> live,
                 historical |-> historical \cup InteractionKeys(live.game),
                 interests |-> interests, fault |-> FALSE]

\* Committed history is only extended, by one transition at a time: no commit,
\* stale draft or restart takes an effect back.
IsExtension(old, new) ==
    /\ Len(old) <= Len(new)
    /\ \A j \in DOMAIN old : new[j] = old[j]
HistoryExtends ==
    [][/\ IsExtension(live.game, live'.game)
       /\ live'.revision \in {live.revision, live.revision + 1}
       /\ live'.revision = live.revision => live'.game = live.game
       /\ live.rejected \subseteq live'.rejected]_vars

\* docs/session-and-integrity.md: "Receipt eviction and compaction never permit
\* a submission id to be reused."  An id that named an interaction never names
\* an interest declaration or an intent.
SubmissionIdsPermanent ==
    \A key \in InteractionKeys(live.game) :
        key \notin InterestKeys \cup PendingKeys(live) /\ AppliedAt(live, key) = {}
-----------------------------------------------------------------------------
(* Small instances for TLC.                                                *)

CONSTANTS LastTick,   \* a modelled game ends after this many ticks
          MaxPlayed   \* bound on the transitions of a session without commitments

\* The reducer of the instance: a control transition benches its seat and an
\* interaction brings the seat back; a game without seats is open to all.
Benched(g, s) ==
    \E j \in DOMAIN g :
        /\ g[j].kind = "control" /\ \E i \in g[j].inputs : i.seat = s
        /\ \A l \in (j + 1)..Len(g) :
             ~(g[l].kind = "interaction" /\ \E i \in g[l].inputs : i.seat = s)
MCParticipants(g) ==
    LET in == {s \in Seats : ~Benched(g, s)} IN IF in = {} THEN Seats ELSE in

\* A game in which somebody committed lasts a tick longer.
MCEnded(g) ==
    LET committed == \E j \in DOMAIN g : \E i \in g[j].inputs : i.cmd.op = "commit"
    IN Cardinality({j \in DOMAIN g : g[j].kind = "tick"})
         >= IF committed THEN LastTick ELSE LastTick - 1

\* Turns with a command classifier and host controls; ticks with host time
\* only; signed ticks with a timeout policy and interest declarations; signed ticks
\* in which seats commit and reveal.
Turns == [classifier |-> TRUE, controls |-> TRUE, interest |-> FALSE,
          signed |-> FALSE, ticks |-> FALSE, window |-> 0]
Ticks == [Turns EXCEPT !.classifier = FALSE, !.controls = FALSE, !.ticks = TRUE]
Policy == [Ticks EXCEPT !.interest = TRUE, !.signed = TRUE, !.window = 2]
Revealing == [Ticks EXCEPT !.signed = TRUE]
MCAll == {Turns, Ticks, Policy, Revealing}
\* A signed session that has both a classifier and an interest policy.
MCSigned == {[Turns EXCEPT !.signed = TRUE, !.interest = TRUE, !.controls = FALSE]}

\* Bounds: a revealing session prepares one transition at a time, and its seats send only
\* commitments, the second seat under one id; in the other sessions every seat has one id
\* and sends no commitments, and fewer transitions are prepared.
Held == {slot \in Slots : drafts[slot] # NoDraft}
IsRevealing(i) == i.cmd.op \in {"commit", "reveal", "forge"}
RevealingFits ==
    /\ Cardinality(Held) <= 1
    /\ \A slot \in Held : LET i == drafts[slot].batch.input IN
          i # NoInput => IsRevealing(i) /\ (i.id = "a" \/ i.seat = 1)
PlayedFits ==
    \A slot \in Held : LET i == drafts[slot].batch.input IN
        /\ ~IsRevealing(i) /\ i.id \in {"a", None}
        /\ drafts[slot].next.revision <= IF options = Ticks THEN MaxPlayed - 1 ELSE MaxPlayed
Fits == IF options = Revealing THEN RevealingFits ELSE PlayedFits
MCSpec == Init /\ [][Next /\ Fits']_vars

SlotSymmetry == Permutations(Slots)
=============================================================================
