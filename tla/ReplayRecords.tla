---------------------------- MODULE ReplayRecords ----------------------------
(***************************************************************************)
(* The portable replay: the records a finished run projects to             *)
(* (finalizeReplay, finalizeRunReplay in session.ts) and the verifier that *)
(* anyone may run over them later (engine/replay-format.ts).  Seats sign a *)
(* hash chain of their submissions on the client; a hash is modelled by    *)
(* what is hashed, so a chain head is the sequence of its links and a      *)
(* signature is the value signed.  Extension and checkpoint records, which *)
(* the verifier only checks for shape, and the salt and other diagnostics  *)
(* are left out.                                                           *)
(***************************************************************************)
EXTENDS Naturals, Sequences, SequencesExt, FiniteSets, TLC

CONSTANTS Seats,        \* the seats in roster order, a sequence
          Habits,       \* whether a seat's client signs a submission: a set per seat
          SignEvery,    \* signingTier.N: ticks one signature may cover
          WindowTicks,  \* the header's timeout policy
          LevelTicks,   \* the small game ends after so many resolutions
          MaxLevels, MaxRecords,
          Perm,         \* the kind of action each wire id stands for, a bijection
          Controls,     \* the declared host controls, which are not permuted
          Careful,      \* a client sends nothing over its own open intent
          None

VARIABLES records, chain, live
vars == <<records, chain, live>>

Players == Range(Seats)
Play == [kind |-> "play"]
Commit(s, c, t) == [kind |-> "commit", id |-> c, hash |-> <<s, c, t, "kept">>]
Reveal(c, payload) == [kind |-> "reveal", id |-> c, payload |-> payload]
SystemAction(s) == [kind |-> "pass", seat |-> s]

\* The reducer (external): a level ends after LevelTicks resolutions, won when
\* the host passed for no seat.
NewGame == [ticks |-> 0, used |-> 0, passed |-> FALSE]
Advance(g, inputs) ==
    [ticks |-> g.ticks + 1, used |-> g.used + Len(inputs),
     passed |-> g.passed \/ \E i \in DOMAIN inputs : inputs[i].action.kind = "pass"]
TouchGame(g) == [g EXCEPT !.used = @ + 1]
Playing(g) == g.ticks < LevelTicks
Status(g) == IF Playing(g) THEN "playing" ELSE IF g.passed THEN "ended" ELSE "won"
ResultOf(g) == [status |-> Status(g), stars |-> IF Status(g) = "won" THEN 1 ELSE 0,
                used |-> g.used]

FreshLevel(n, results) ==
    [level |-> n, game |-> NewGame, results |-> results,
     pending |-> [s \in Players |-> None],
     hashes |-> [s \in Players |-> <<>>], revealed |-> [s \in Players |-> {}]]
Init == /\ records = <<>>
        /\ chain = [s \in Players |-> <<>>]
        /\ live = FreshLevel(1, <<>>)

----------------------------------------------------------------------------
(* What the clients sign and what the session writes down.                 *)

Tick == live.game.ticks
LinkOf(id, cursor, tick, command) ==
    [id |-> id, cursor |-> cursor, tick |-> tick, command |-> command]
Submission(s, command, signed) ==
    LET id   == Len(chain[s]) + 1
        next == Append(chain[s], LinkOf(id, Tick, Tick, command))
    IN  [seat |-> s, id |-> id, cursor |-> Tick, command |-> command, action |-> command,
         prev |-> chain[s], sig |-> IF signed THEN next ELSE None]
Extend(s, v) == chain' = [chain EXCEPT
    ![s] = Append(@, LinkOf(v.id, v.cursor, Tick, v.command))]

Room(n) == Playing(live.game) /\ Len(records) + n <= MaxRecords
Settled(s) == Careful => live.pending[s] = None
Stamp(kind, rest) == rest @@ [kind |-> kind, level |-> live.level, tick |-> Tick]

\* A commitment is for the open window; a reveal names a kept commitment.
CommandsOf(s) ==
    LET own == live.hashes[s] IN
    {Play, Commit(s, Len(own), Tick)}
    \cup {Reveal(c - 1, p) : c \in DOMAIN own \ live.revealed[s], p \in {"kept", "forged"}}
SubmitIntent(s, command, signed) ==
    /\ Room(1) /\ live.pending[s] = None
    /\ LET v == Submission(s, command, signed) IN
        /\ Extend(s, v)
        /\ live' = [live EXCEPT !.pending[s] = v]
    /\ UNCHANGED records

\* An interaction is applied, and recorded, at once.
Touch(s, signed) ==
    /\ Room(1) /\ Settled(s)
    /\ LET v == Submission(s, [kind |-> "touch"], signed) IN
        /\ Extend(s, v)
        /\ records' = Append(records, Stamp("interaction", [sub |-> v]))
        /\ live' = [live EXCEPT !.game = TouchGame(@)]

\* A declaration of interest is always signed.
Interest(s) ==
    /\ Room(1) /\ Settled(s)
    /\ LET v == Submission(s, [kind |-> "interest"], TRUE) IN
        /\ Extend(s, v)
        /\ records' = Append(records, Stamp("interest", [sub |-> v]))
    /\ UNCHANGED live

\* A signature over the head alone, without a new link.
SeatSignature(s) ==
    /\ Len(records) < MaxRecords /\ Settled(s) /\ chain[s] # <<>>
    /\ records' = Append(records, Stamp("seat-signature",
         [seat |-> s, prev |-> chain[s], sig |-> <<"head", Tick, chain[s]>>]))
    /\ UNCHANGED <<chain, live>>

Opens(s, v) == v.command.payload = live.hashes[s][v.command.id + 1][4]
Forged(s) == LET v == live.pending[s] IN
    v # None /\ v.command.kind = "reveal" /\ ~Opens(s, v)
Waiting == SelectSeq(Seats, LAMBDA s : live.pending[s] # None)
FirstForged == SelectSeq(Seats, Forged)[1]
NoForgery == \A s \in Players : ~Forged(s)

\* What a resolution of the open window leaves, and its record.
Resolved(inputs) ==
    LET sent(s, kind) == live.pending[s] # None /\ live.pending[s].command.kind = kind IN
    [live EXCEPT !.game = Advance(@, inputs), !.pending = [s \in Players |-> None],
        !.hashes = [s \in Players |-> IF sent(s, "commit")
                       THEN Append(@[s], live.pending[s].command.hash) ELSE @[s]],
        !.revealed = [s \in Players |-> IF sent(s, "reveal")
                       THEN @[s] \cup {live.pending[s].command.id + 1} ELSE @[s]]]
ResolutionRecord(cause, inputs, system) ==
    Stamp("resolution", [inputs |-> inputs, cause |-> cause, system |-> system])
MismatchRecord(s) ==
    LET v == live.pending[s] IN
    Stamp("mismatch", [sub |-> v, commitment |-> v.command.id, attempt |-> v.command.payload])
CloseWindow(before, cause, extra, system) ==
    IF NoForgery
    THEN LET inputs == [i \in DOMAIN Waiting |-> live.pending[Waiting[i]]] \o extra IN
         /\ records' = records \o before \o <<ResolutionRecord(cause, inputs, system)>>
         /\ live' = Resolved(inputs)
    ELSE /\ records' = records \o before \o <<MismatchRecord(FirstForged)>>
         /\ live' = [live EXCEPT !.pending[FirstForged] = None]

Complete == /\ Room(1) /\ \A s \in Players : live.pending[s] # None
            /\ CloseWindow(<<>>, "complete", <<>>, None)
            /\ UNCHANGED chain
\* The host closes the window for seat s with an action of its own.
SystemInput(s) == [seat |-> s, id |-> None, action |-> SystemAction(s)]
Timeout(s) ==
    /\ Room(2) /\ live.pending[s] = None
    /\ CloseWindow(<<[Stamp("timeout", [seat |-> s, windowRef |-> Tick])
                        EXCEPT !.tick = Tick + WindowTicks]>>,
                   "timeout", <<SystemInput(s)>>, SystemInput(s))
    /\ UNCHANGED chain

\* finalizeRunReplay: the next level of the same run, in a session of its own.
NextLevel ==
    /\ Status(live.game) = "won" /\ live.level < MaxLevels /\ Len(records) < MaxRecords
    /\ live' = FreshLevel(live.level + 1, Append(live.results, ResultOf(live.game)))
    /\ UNCHANGED <<records, chain>>

Next == \/ \E s \in Players : \E signed \in Habits[s] :
              \/ \E command \in CommandsOf(s) : SubmitIntent(s, command, signed)
              \/ Touch(s, signed)
        \/ \E s \in Players : Interest(s) \/ SeatSignature(s) \/ Timeout(s)
        \/ Complete \/ NextLevel
Spec == Init /\ [][Next]_vars

----------------------------------------------------------------------------
(* The projection of a finished run.                                       *)

Finished == ~Playing(live.game)

\* validateTimeoutAudit: a timeout stands right before what it led to.
OutcomeOf(recs, i) ==
    LET rec == recs[i]  next == recs[i + 1] IN
    /\ rec.tick = rec.windowRef + WindowTicks
    /\ i < Len(recs) /\ next.tick = rec.windowRef
    /\ \/ next.kind = "mismatch"
       \/ next.kind = "resolution" /\ next.cause = "timeout" /\ next.system.seat = rec.seat
TimeoutAudited(recs) ==
    \A i \in DOMAIN recs :
        /\ recs[i].kind = "timeout" => OutcomeOf(recs, i)
        /\ recs[i].kind = "resolution" /\ recs[i].cause = "timeout"
              => i > 1 /\ recs[i - 1].kind = "timeout"

\* Actions go out under their permuted ids; a host control keeps its name.
WireOf(kind) ==
    IF kind \in Range(Perm) THEN CHOOSE w \in DOMAIN Perm : Perm[w] = kind ELSE kind
WiredInput(v) == v @@ [wire |-> WireOf(v.action.kind)]
\* A replay for one seat keeps the failed reveals' payloads to itself.
ProjectedRecord(rec, full) ==
    CASE rec.kind = "resolution" ->
            [rec EXCEPT !.inputs = [j \in DOMAIN @ |-> WiredInput(@[j])],
                        !.system = IF @ = None THEN None ELSE WiredInput(@)]
      [] rec.kind = "mismatch" /\ ~full -> [rec EXCEPT !.attempt = None]
      [] OTHER -> rec
Numbered(recs) == [i \in DOMAIN recs |-> [n |-> i] @@ recs[i]]
Finalized(recs, full) ==
    Numbered([i \in DOMAIN recs |-> ProjectedRecord(recs[i], full)])

\* projectRecordActions: the inputs of the resolutions, one after the other.
ActionsOf(stream) ==
    FlattenSeq([i \in DOMAIN stream |->
        IF stream[i].kind # "resolution" THEN <<>>
        ELSE [j \in DOMAIN stream[i].inputs |->
                stream[i].inputs[j] @@ [level |-> stream[i].level, at |-> stream[i].tick]]])

\* createReplayArtifact: the lowest version that covers the records, a seed
\* derived for each level, and the totals.
NamesControl(rec) ==
    rec.kind = "resolution" /\ \E j \in DOMAIN rec.inputs : rec.inputs[j].wire \in Controls
LevelSeed(i) == <<"seed", i>>
TotalsOf(results) ==
    [stars |-> FoldLeft(LAMBDA sum, r : sum + r.stars, 0, results),
     used  |-> FoldLeft(LAMBDA sum, r : sum + r.used, 0, results)]
Header(stream) ==
    LET results == Append(live.results, ResultOf(live.game))
        control == \E i \in DOMAIN stream : NamesControl(stream[i])
        touched == \E i \in DOMAIN stream : stream[i].kind = "interaction"
    IN  [version |-> IF control THEN 5 ELSE IF touched THEN 4 ELSE 3,
         controls |-> IF control THEN Controls ELSE {},
         roster |-> Players, window |-> WindowTicks,
         levels |-> [i \in DOMAIN results |->
                        [index |-> i, seed |-> LevelSeed(i), result |-> results[i]]],
         totals |-> TotalsOf(results)]
\* Parsing the stored lines projects the actions again.
Parsed(header, stream) ==
    [header |-> header, records |-> stream, actions |-> ActionsOf(stream)]
Artifact(recs, full) ==
    LET stream == Finalized(recs, full) IN Parsed(Header(stream), stream)

----------------------------------------------------------------------------
(* The verifier.                                                           *)

\* signatureSubmissions: what each record contributes to the seats' chains.
Item(rec, v, tier) == [periodic |-> FALSE, seat |-> v.seat, level |-> rec.level,
                       tick |-> rec.tick, value |-> v, tier |-> tier]
ItemsOf(rec) ==
    CASE rec.kind = "resolution" ->
            LET own == SelectSeq(rec.inputs, LAMBDA v : v.id # None) IN
            [i \in DOMAIN own |->
                Item(rec, own[i], own[i].action.kind \in {"commit", "reveal"})]
      [] rec.kind \in {"mismatch", "interest"} -> <<Item(rec, rec.sub, TRUE)>>
      [] rec.kind = "interaction" -> <<Item(rec, rec.sub, FALSE)>>
      [] rec.kind = "seat-signature" ->
            <<[periodic |-> TRUE, seat |-> rec.seat, level |-> rec.level,
               tick |-> rec.tick, value |-> rec, tier |-> FALSE]>>
      [] OTHER -> <<>>
Items(recs) == FlattenSeq([i \in DOMAIN recs |-> ItemsOf(recs[i])])

NoCheck == [head |-> <<>>, broken |-> FALSE, reproduced |-> TRUE, policy |-> TRUE,
            submitted |-> <<>>, attested |-> <<>>, material |-> 0, valid |-> 0]
Place(item, order) == [level |-> item.level, tick |-> item.tick, order |-> order]
Attested(check, item, order) ==
    [check EXCEPT !.attested = Append(@, Place(item, order)), !.valid = @ + 1]

\* A periodic signature must be over the head the records lead to.
Attest(check, item, order) ==
    LET v == item.value
        seen == [check EXCEPT !.material = @ + 1] IN
    IF v.prev # check.head
    THEN [seen EXCEPT !.reproduced = FALSE, !.policy = FALSE]
    ELSE IF v.sig # <<"head", item.tick, v.prev>>
    THEN [seen EXCEPT !.policy = FALSE]
    ELSE Attested(seen, item, order)
\* Mutant: a signature is checked, the head it continues is not.
LinkUpAnywhere(check, item, order) ==
    LET v    == item.value
        seen == [check EXCEPT !.submitted = Append(@, Place(item, order)),
                              !.material = @ + (IF v.sig = None THEN 0 ELSE 1)]
        next == Append(v.prev, LinkOf(v.id, v.cursor, item.tick, v.command))
    IN  IF v.sig = next
        THEN Attested([seen EXCEPT !.head = next], item, order)
        ELSE [seen EXCEPT !.head = next, !.policy = @ /\ v.sig = None /\ ~item.tier]
\* A submission must name that head, and moves it.
LinkUp(check, item, order) ==
    LET v    == item.value
        seen == [check EXCEPT !.submitted = Append(@, Place(item, order)),
                              !.material = @ + (IF v.sig = None THEN 0 ELSE 1)]
        next == Append(check.head, LinkOf(v.id, v.cursor, item.tick, v.command))
    IN  IF check.broken \/ v.prev # check.head
        THEN [seen EXCEPT !.broken = TRUE, !.reproduced = FALSE, !.policy = FALSE]
        ELSE IF v.sig = next
        THEN Attested([seen EXCEPT !.head = next], item, order)
        ELSE [seen EXCEPT !.head = next, !.policy = @ /\ v.sig = None /\ ~item.tier]
ChecksOf(recs) ==
    LET items == Items(recs)
        step(checks, i) ==
            LET item == items[i] IN
            [checks EXCEPT ![item.seat] =
                IF item.periodic THEN Attest(@, item, i) ELSE LinkUp(@, item, i)]
    IN  FoldLeft(step, [s \in Players |-> NoCheck], [i \in DOMAIN items |-> i])

\* The first signature at or after a submission covers it, within its level.
Covered(check) ==
    \A i \in DOMAIN check.submitted :
        LET p     == check.submitted[i]
            later == SelectSeq(check.attested, LAMBDA q : q.order >= p.order)
        IN  /\ later # <<>>
            /\ later[1].level = p.level
            /\ later[1].tick <= p.tick + SignEvery
SignatureState(recs) ==
    LET checks   == ChecksOf(recs)
        complete == \A s \in Players :
            checks[s].reproduced /\ checks[s].policy /\ Covered(checks[s])
                /\ checks[s].valid = checks[s].material
    IN  IF \A s \in Players : checks[s].material = 0
        THEN IF \E s \in Players : checks[s].submitted # <<>> THEN "partial" ELSE "signed"
        ELSE IF complete THEN "signed" ELSE "partial"

\* validateReplayArtifact, part by part.
HeaderShape(h) == /\ h.version \in 3..5 /\ h.controls # {} => h.version >= 5
                  /\ h.roster = Players /\ h.window > 0
LevelsShape(h) ==
    \A i \in DOMAIN h.levels :
        LET l == h.levels[i] IN
        /\ l.index = i /\ l.seed = LevelSeed(i)
        /\ l.result.status \in {"won", "failed", "ended"}
        /\ l.result.status = "ended" => l.result.stars = 0

\* A submission carries its identity whole or not at all, and is chained or
\* signed only with it.
Given(v, fields) == {f \in fields \cap DOMAIN v : v[f] # None}
IntegrityFields(v) ==
    LET identity == {"id", "cursor", "command"}
        chained  == Given(v, {"prev"}) # {} IN
    /\ Given(v, identity) \in {{}, identity}
    /\ chained => Given(v, identity) = identity
    /\ Given(v, {"sig"}) # {} => chained
\* The ids of an action agree with the permutation, or both name one control.
InputShape(h, v) ==
    /\ IF {v.wire, v.action.kind} \cap h.controls # {} THEN v.wire = v.action.kind
       ELSE v.wire \in DOMAIN Perm /\ Perm[v.wire] = v.action.kind
    /\ IntegrityFields(v)
ResolutionShape(h, rec) ==
    /\ \A j \in DOMAIN rec.inputs : InputShape(h, rec.inputs[j])
    /\ (rec.cause = "timeout") = (rec.system # None)
    /\ rec.cause = "timeout" => rec.system \in Range(rec.inputs)
TimeoutShape(h, rec) == rec.tick = rec.windowRef + h.window
InteractionShape(h, rec) == h.version >= 4 /\ IntegrityFields(rec.sub)
InterestShape(rec) == IntegrityFields(rec.sub) /\ rec.sub.sig # None
MismatchShape(rec) == IntegrityFields(rec.sub)
SignatureShape(rec) == rec.sig # None /\ rec.prev # None
RecordShape(h, rec) ==
    CASE rec.kind = "resolution"  -> ResolutionShape(h, rec)
      [] rec.kind = "timeout"     -> TimeoutShape(h, rec)
      [] rec.kind = "interaction" -> InteractionShape(h, rec)
      [] rec.kind = "interest"    -> InterestShape(rec)
      [] rec.kind = "mismatch"    -> MismatchShape(rec)
      [] rec.kind = "seat-signature" -> SignatureShape(rec)

\* Numbered from the first, level after level, resolutions in tick order.
InOrder(h, recs) ==
    \A i \in DOMAIN recs :
        /\ recs[i].n = i /\ recs[i].level \in DOMAIN h.levels
        /\ \A j \in 1..(i - 1) :
              /\ recs[j].level <= recs[i].level
              /\ {recs[i].kind, recs[j].kind} = {"resolution"} /\ recs[i].level = recs[j].level
                    => recs[j].tick <= recs[i].tick
Identities(recs) ==
    FlattenSeq([i \in DOMAIN recs |->
        LET named == SelectSeq(ItemsOf(recs[i]), LAMBDA item : ~item.periodic) IN
        [j \in DOMAIN named |-> <<named[j].level, named[j].seat, named[j].value.id>>]])
UniqueIdentities(recs) == LET ids == Identities(recs) IN IsInjective(ids)
ActionsInOrder(art) ==
    /\ art.actions = ActionsOf(art.records)
    /\ \A i, j \in DOMAIN art.actions : i < j =>
          LET a == art.actions[i]  b == art.actions[j] IN
          a.level <= b.level /\ (a.level = b.level => a.at <= b.at)
Valid(art) ==
    /\ HeaderShape(art.header) /\ LevelsShape(art.header)
    /\ InOrder(art.header, art.records)
    /\ \A i \in DOMAIN art.records : RecordShape(art.header, art.records[i])
    /\ UniqueIdentities(art.records)
    /\ ActionsInOrder(art)

\* recheckGroupedLevel: replay one level through the reducer.
StartLevel == [game |-> NewGame, hashes |-> [s \in Players |-> <<>>],
               revealed |-> [s \in Players |-> {}], last |-> None,
               stopped |-> FALSE, ok |-> TRUE]
Wrong(acc) == [acc EXCEPT !.ok = FALSE]
Kept(acc, s, c) == c + 1 \in DOMAIN acc.hashes[s] /\ c + 1 \notin acc.revealed[s]
ReplayInput(acc, rec, v) ==
    LET s == v.seat  a == v.action IN
    CASE a.kind = "commit" ->
            IF a.id # Len(acc.hashes[s]) THEN Wrong(acc)
            ELSE [acc EXCEPT !.hashes[s] = Append(@, [hash |-> a.hash, ref |-> rec.tick])]
      [] a.kind = "reveal" ->
            IF ~Kept(acc, s, a.id) THEN Wrong(acc)
            ELSE LET c == acc.hashes[s][a.id + 1] IN
                 IF c.hash # <<s, a.id, c.ref, a.payload>> THEN Wrong(acc)
                 ELSE [acc EXCEPT !.revealed[s] = @ \cup {a.id + 1}]
      [] OTHER -> acc
ReplayResolution(acc, rec) ==
    IF ~Playing(acc.game) THEN [Wrong(acc) EXCEPT !.stopped = TRUE]
    ELSE LET read == FoldLeft(LAMBDA x, v : ReplayInput(x, rec, v), acc, rec.inputs) IN
         [read EXCEPT !.game = Advance(@, rec.inputs), !.last = rec.tick]
ReplayMismatch(acc, rec) ==
    LET s == rec.sub.seat
        c == rec.commitment
        late == acc.last # None /\ rec.tick # acc.last + 1 IN
    IF late \/ ~Kept(acc, s, c) THEN Wrong(acc)
    ELSE LET h == acc.hashes[s][c + 1] IN
         IF rec.attempt # None /\ h.hash = <<s, c, h.ref, rec.attempt>>
         THEN Wrong(acc) ELSE acc
ReplayInteraction(acc, rec) ==
    IF rec.sub.cursor # acc.game.ticks THEN Wrong(acc)
    ELSE [acc EXCEPT !.game = TouchGame(@)]
ReplayRecord(acc, rec) ==
    IF acc.stopped THEN acc
    ELSE CASE rec.kind = "interaction" -> ReplayInteraction(acc, rec)
           [] rec.kind = "resolution"  -> ReplayResolution(acc, rec)
           [] rec.kind = "mismatch"    -> ReplayMismatch(acc, rec)
           [] OTHER -> acc
Replayed(recs, level) ==
    FoldLeft(ReplayRecord, StartLevel, SelectSeq(recs, LAMBDA r : r.level = level))
LevelsAgree(art) ==
    LET levels == art.header.levels
        played == [l \in DOMAIN levels |-> Replayed(art.records, l)]
    IN  /\ \A l \in DOMAIN levels : played[l].ok /\ ResultOf(played[l].game) = levels[l].result
        /\ TotalsOf([l \in DOMAIN levels |-> ResultOf(played[l].game)]) = art.header.totals

\* recheckReplaySemantics: the signed command and the timeout rule give the action.
NextOutcome(recs, i) ==
    SelectSeq(SubSeq(recs, i + 1, Len(recs)), LAMBDA r :
        r.level = recs[i].level /\ r.kind \in {"resolution", "timeout", "mismatch"})
MapsToAction(recs, i) ==
    LET rec == recs[i] IN
    CASE rec.kind = "resolution" ->
            \A j \in DOMAIN rec.inputs : rec.inputs[j].id # None
                => rec.inputs[j].action = rec.inputs[j].command
      [] rec.kind = "mismatch" ->
            rec.attempt # None => rec.sub.command = Reveal(rec.commitment, rec.attempt)
      [] rec.kind = "timeout" ->
            LET next == NextOutcome(recs, i) IN
            next # <<>> /\ next[1].kind = "resolution" /\ next[1].cause = "timeout"
                => next[1].system.action = SystemAction(rec.seat)
      [] OTHER -> TRUE
Meanings(recs) == \A i \in DOMAIN recs : MapsToAction(recs, i)
\* Without the game's mapping from commands to actions nothing can be said.
Unmapped(recs) == Items(recs) # <<>> \/ \E i \in DOMAIN recs : recs[i].kind = "timeout"

\* recheckReplayArtifact, with or without the game's mapping.
Verdict(art, mapped) ==
    IF ~Valid(art) \/ ~LevelsAgree(art) \/ SignatureState(art.records) # "signed"
       \/ (mapped /\ ~Meanings(art.records)) THEN "rejected"
    ELSE IF ~mapped /\ Unmapped(art.records) THEN "unverifiable"
    ELSE "trusted"

----------------------------------------------------------------------------
(* Properties.                                                             *)

TypeOK ==
    /\ Len(records) <= MaxRecords
    /\ \A s \in Players : \A i \in DOMAIN chain[s] : chain[s][i].id = i
    /\ live.level \in 1..MaxLevels /\ live.game.ticks \in 0..LevelTicks

\* A seat signed enough: what must carry a signature of its own does, and
\* every submission is covered by a signature of its level, made at it or
\* after it and at most SignEvery ticks later.
SignedEnough(recs) ==
    LET items == Items(recs)
        signs(j, i) == /\ items[j].seat = items[i].seat /\ items[j].value.sig # None
                       /\ items[j].level = items[i].level
                       /\ items[j].tick - items[i].tick <= SignEvery
    IN  \A i \in DOMAIN items :
            /\ items[i].tier => items[i].value.sig # None
            /\ ~items[i].periodic => \E j \in i..Len(items) : signs(j, i)

\* The records a run leaves are a replay the verifier accepts, level by level,
\* complete or shown to one seat, and it is trusted when the seats signed enough.
HonestReplayAccepted ==
    Finished => /\ TimeoutAudited(records)
                /\ \A full \in BOOLEAN :
                    LET art == Artifact(records, full) IN
                    /\ Valid(art) /\ LevelsAgree(art) /\ Meanings(art.records)
                    /\ SignedEnough(records) => Verdict(art, TRUE) = "trusted"

\* One fault in a stored stream: a record lost, doubled or moved, and the lines
\* numbered anew; an input lost, or one whose action or wire id is not what the
\* seat signed; a result or a total that is not the run's.
Lost(recs) == {RemoveAt(recs, i) : i \in DOMAIN recs}
Doubled(recs) == {InsertAt(recs, i, recs[i]) : i \in DOMAIN recs}
Moved(recs) == {[recs EXCEPT ![i] = recs[i + 1], ![i + 1] = recs[i]] : i \in 1..(Len(recs) - 1)}
InputFaults(recs) ==
    UNION {UNION {{[recs EXCEPT ![i].inputs = RemoveAt(@, j)],
                   [recs EXCEPT ![i].inputs[j].action = Play],
                   [recs EXCEPT ![i].inputs[j].wire = WireOf("play")]}
                  : j \in DOMAIN recs[i].inputs}
           : i \in {k \in DOMAIN recs : recs[k].kind = "resolution"}}
Damaged(recs) ==
    {Numbered(fault) : fault \in Lost(recs) \cup Doubled(recs) \cup Moved(recs)}
    \cup InputFaults(recs)
HeaderFaults(h) ==
    {[h EXCEPT !.totals.used = @ + 1], [h EXCEPT !.levels[1].result.status = "won"],
     [h EXCEPT !.levels[1].result.used = @ + 1], [h EXCEPT !.levels = <<Last(@)>>]}

\* What a trusted replay vouches for: each seat's submissions are a prefix of
\* what that seat signed, in its order, with the actions it asked for, it
\* signed enough of them, and the results are the run's.
Authentic(art) ==
    /\ SignedEnough(art.records)
    /\ art.header.totals = TotalsOf(Append(live.results, ResultOf(live.game)))
    /\ \A s \in Players :
        LET made == SelectSeq(Items(art.records), LAMBDA x : x.seat = s /\ ~x.periodic) IN
        /\ IsPrefix([k \in DOMAIN made |->
                LinkOf(made[k].value.id, made[k].value.cursor, made[k].tick,
                       made[k].value.command)], chain[s])
        /\ \A k \in DOMAIN made : made[k].value.action = made[k].value.command
TrustedIsAuthentic ==
    Finished =>
        LET art    == Artifact(records, TRUE)
            stored == {art} \cup {Parsed(art.header, recs) : recs \in Damaged(art.records)}
                       \cup {Parsed(h, art.records) : h \in HeaderFaults(art.header)}
        IN  \A copy \in stored : Verdict(copy, TRUE) = "trusted" => Authentic(copy)

\* RFC-020: signed interaction and intent commands retain chain continuity.
ChainContinues ==
    \A s \in Players : ChecksOf(records)[s].reproduced

-----------------------------------------------------------------------------
\* An instance: clients that sign everything and may send over an intent of their own that
\* is still open.
MCSeats == <<"s1", "s2">>
MCHabits == [s1 |-> {TRUE}, s2 |-> {TRUE}]
MCPerm == [A |-> "commit", B |-> "reveal", C |-> "play"]
=============================================================================
