------------------------------- MODULE RoomTurns -------------------------------
(***************************************************************************)
(* Plain turns of a room (room-agent-runtime.ts, handleFinalInput): the    *)
(* agent an input is for, the intake lane that writes it to the transcript *)
(* and replaces the channel's turn, the utterances of the answer, and the  *)
(* one speech floor all channels share.  Every await is a step boundary.   *)
(* What is spoken, voices and the observer's events are left out.          *)
(***************************************************************************)
EXTENDS Naturals, Sequences, SequenceFilter

CONSTANTS Calls,         \* the calls of handleFinalInput
          InputOf,       \* the input of each call; a retry repeats it
          ChannelOf,     \* the channel of each call
          Addressed,     \* the agents each call names, in order; mostly none
          Agents,        \* the agents registered
          Sees,          \* the agents whose visibility admits the speaker
          PhaseAgents, Fallback, Phases,
          MaxUtterances, MaxRestarts, MaxSettings,
          None

VARIABLES transcript,  \* durable: what the store holds, per channel
          stored,      \* durable: the runtime state [focus, phase] last saved
          settings,    \* how many times focus or phase was set
          turn,        \* what each call is doing
          intake,      \* the calls in the intake lane
          active,      \* activeTurns: the call whose turn a channel runs
          lane,        \* the calls that wait for the speech floor
          floor,       \* the arbiter's active speech
          captions,    \* what the caption sink was told
          restarts
vars == <<transcript, stored, settings, turn, intake, active, lane, floor, captions, restarts>>

ChannelsUsed == {ChannelOf[c] : c \in Calls}
NewTurn == [at |-> "idle", agent |-> None, aborted |-> FALSE, left |-> 0]
Over == {"duplicate", "refused", "completed", "interrupted", "failed", "lost"}

Init == /\ transcript = [ch \in ChannelsUsed |-> {}]
        /\ stored = [focus |-> None, phase |-> None]
        /\ settings = 0
        /\ turn = [c \in Calls |-> NewTurn]
        /\ intake = <<>> /\ lane = <<>>
        /\ active = [ch \in ChannelsUsed |-> None]
        /\ floor = None
        /\ captions = <<>>
        /\ restarts = 0

\* resolveAgent: the first fit of the agents addressed; with none addressed, of
\* the speaker's focus, the phase's agent and the fallback.
Eligible == Agents \cap Sees
Candidates == <<stored.focus,
                IF stored.phase = None THEN None ELSE PhaseAgents[stored.phase], Fallback>>
Resolved(c) ==
    LET named == IF Addressed[c] = <<>> THEN Candidates ELSE Addressed[c]
        fit == Filtered(named, Eligible)
    IN IF fit = <<>> THEN None ELSE fit[1]

\* setFocus, setPhase: the new state replaces the old one and is saved whole.
Settable == settings < MaxSettings
SetFocus(agent) ==
    /\ Settable /\ agent # stored.focus /\ settings' = settings + 1
    /\ stored' = [stored EXCEPT !.focus = agent]
    /\ UNCHANGED <<transcript, turn, intake, active, lane, floor, captions, restarts>>
SetPhase(phase) ==
    /\ Settable /\ phase # stored.phase /\ settings' = settings + 1
    /\ stored' = [stored EXCEPT !.phase = phase]
    /\ UNCHANGED <<transcript, turn, intake, active, lane, floor, captions, restarts>>

Submit(c) ==
    /\ turn[c].at = "idle"
    /\ IF Resolved(c) = None
       THEN turn' = [turn EXCEPT ![c].at = "refused"] /\ intake' = intake
       ELSE /\ turn' = [turn EXCEPT ![c].at = "intake", ![c].agent = Resolved(c)]
            /\ intake' = Append(intake, c)
    /\ UNCHANGED <<transcript, stored, settings, active, lane, floor, captions, restarts>>

----------------------------------------------------------------------------
(* The intake lane: write down, replace, take over.                        *)

\* Transcript entries: the input, and what was said with so many left to say.
Heard(c) == <<InputOf[c], 0>>
Said(c) == <<InputOf[c], turn[c].left>>
First(c, queue) == queue # <<>> /\ queue[1] = c
AppendInput(c) ==
    /\ First(c, intake) /\ turn[c].at = "intake"
    /\ IF Heard(c) \in transcript[ChannelOf[c]]
       THEN /\ turn' = [turn EXCEPT ![c].at = "duplicate"]
            /\ intake' = Tail(intake) /\ transcript' = transcript
       ELSE /\ turn' = [turn EXCEPT ![c].at = "written"]
            /\ transcript' = [transcript EXCEPT ![ChannelOf[c]] = @ \cup {Heard(c)}]
            /\ intake' = intake
    /\ UNCHANGED <<stored, settings, active, lane, floor, captions, restarts>>

\* Interruptible speech is told to stop; other speech goes on to its end.
Stopped(channels) ==
    IF floor # None /\ floor.interruptible /\ floor.channel \in channels
    THEN [floor EXCEPT !.aborted = TRUE] ELSE floor
Replace(c) ==
    /\ First(c, intake) /\ turn[c].at = "written"
    /\ LET old == active[ChannelOf[c]] IN
       IF old = None
       THEN turn' = [turn EXCEPT ![c].at = "replacing"] /\ floor' = floor
       ELSE /\ turn' = [turn EXCEPT ![c].at = "replacing", ![old].aborted = TRUE]
            /\ floor' = Stopped({ChannelOf[c]})
    /\ UNCHANGED <<transcript, stored, settings, intake, active, lane, captions, restarts>>
Take(c) ==
    /\ First(c, intake) /\ turn[c].at = "replacing"
    /\ turn' = [turn EXCEPT ![c].at = "responding"]
    /\ active' = [active EXCEPT ![ChannelOf[c]] = c]
    /\ intake' = Tail(intake)
    /\ UNCHANGED <<transcript, stored, settings, lane, floor, captions, restarts>>

----------------------------------------------------------------------------
(* The turn.                                                               *)

Leave(c, how) ==
    /\ turn' = [turn EXCEPT ![c].at = how]
    /\ active' = [active EXCEPT ![ChannelOf[c]] = IF @ = c THEN None ELSE @]
\* How a turn ends that would otherwise have ended as `how`.
EndOf(c, how) == IF turn[c].aborted THEN "interrupted" ELSE how

\* The driver answers with n utterances, with nothing, or not at all.
Respond(c, n) ==
    /\ turn[c].at = "responding"
    /\ IF turn[c].aborted \/ n = 0 THEN Leave(c, EndOf(c, "completed"))
       ELSE turn' = [turn EXCEPT ![c].at = "uttering", ![c].left = n] /\ active' = active
    /\ UNCHANGED <<transcript, stored, settings, intake, lane, floor, captions, restarts>>
RespondFails(c) ==
    /\ turn[c].at = "responding" /\ Leave(c, EndOf(c, "failed"))
    /\ UNCHANGED <<transcript, stored, settings, intake, lane, floor, captions, restarts>>

\* An utterance is written down before it waits for the floor.
Utter(c) ==
    /\ turn[c].at = "uttering"
    /\ transcript' = [transcript EXCEPT ![ChannelOf[c]] = @ \cup {Said(c)}]
    /\ turn' = [turn EXCEPT ![c].at = "queued"]
    /\ lane' = Append(lane, c)
    /\ UNCHANGED <<stored, settings, intake, active, floor, captions, restarts>>

\* The head of the lane speaks, unless its turn was stopped while it waited.
Caption(c, status) == [call |-> c, said |-> Said(c), status |-> status]
\* Mutant: a turn that was stopped while it waited for the floor still speaks.
StartSpeechRegardless(c, interruptible) ==
    /\ First(c, lane) /\ turn[c].at = "queued"
    /\ floor' = [call |-> c, channel |-> ChannelOf[c],
                 interruptible |-> interruptible, aborted |-> FALSE]
    /\ captions' = Append(captions, Caption(c, "started"))
    /\ turn' = [turn EXCEPT ![c].at = "speaking"]
    /\ UNCHANGED <<active, lane, transcript, stored, settings, intake, restarts>>
StartSpeech(c, interruptible) ==
    /\ First(c, lane) /\ turn[c].at = "queued"
    /\ IF turn[c].aborted
       THEN /\ Leave(c, "interrupted") /\ lane' = Tail(lane)
            /\ UNCHANGED <<floor, captions>>
       ELSE /\ floor' = [call |-> c, channel |-> ChannelOf[c],
                         interruptible |-> interruptible, aborted |-> FALSE]
            /\ captions' = Append(captions, Caption(c, "started"))
            /\ turn' = [turn EXCEPT ![c].at = "speaking"]
            /\ UNCHANGED <<active, lane>>
    /\ UNCHANGED <<transcript, stored, settings, intake, restarts>>
\* A sink that throws here leaves the arbiter's record of the speech behind.
StartFails(c) ==
    /\ First(c, lane) /\ turn[c].at = "queued" /\ ~turn[c].aborted
    /\ floor' = [call |-> c, channel |-> ChannelOf[c], interruptible |-> TRUE, aborted |-> FALSE]
    /\ Leave(c, "failed") /\ lane' = Tail(lane)
    /\ UNCHANGED <<transcript, stored, settings, intake, captions, restarts>>

\* The adapter returns, or throws; either way the caption is closed.
EndSpeech(c, works) ==
    LET cut == floor.aborted \/ (turn[c].aborted /\ floor.interruptible)
        how == IF cut THEN "interrupted" ELSE IF works THEN "completed" ELSE "failed"
    IN
    /\ First(c, lane) /\ turn[c].at = "speaking"
    /\ captions' = Append(captions, Caption(c, how))
    /\ floor' = None /\ lane' = Tail(lane)
    /\ IF cut \/ ~works \/ turn[c].aborted
       THEN Leave(c, IF cut \/ turn[c].aborted THEN "interrupted" ELSE "failed")
       ELSE IF turn[c].left = 1 THEN Leave(c, "completed")
       ELSE /\ turn' = [turn EXCEPT ![c].at = "uttering", ![c].left = @ - 1]
            /\ active' = active
    /\ UNCHANGED <<transcript, stored, settings, intake, restarts>>

\* interrupt: every turn of the room, and what is being said.
Interrupt ==
    LET running == {active[ch] : ch \in ChannelsUsed} \ {None} IN
    /\ running # {} \/ floor # None
    /\ turn' = [c \in Calls |-> IF c \in running THEN [turn[c] EXCEPT !.aborted = TRUE] ELSE turn[c]]
    /\ floor' = Stopped(ChannelsUsed)
    /\ UNCHANGED <<transcript, stored, settings, intake, active, lane, captions, restarts>>

\* The host restarts: turns are lost, the transcript and the state are not,
\* and a focus on an agent that is not registered is dropped.
Restart ==
    /\ restarts < MaxRestarts /\ restarts' = restarts + 1
    /\ turn' = [c \in Calls |-> IF turn[c].at \in Over \cup {"idle"} THEN turn[c]
                                ELSE [turn[c] EXCEPT !.at = "lost"]]
    /\ stored' = [stored EXCEPT !.focus = IF @ \in Agents THEN @ ELSE None]
    /\ intake' = <<>> /\ lane' = <<>> /\ floor' = None
    /\ active' = [ch \in ChannelsUsed |-> None]
    /\ captions' = <<>>
    /\ UNCHANGED <<transcript, settings>>

Next == \/ \E c \in Calls :
              \/ Submit(c) \/ AppendInput(c) \/ Replace(c) \/ Take(c)
              \/ RespondFails(c) \/ Utter(c) \/ StartFails(c)
              \/ \E n \in 0..MaxUtterances : Respond(c, n)
              \/ \E yes \in BOOLEAN : StartSpeech(c, yes) \/ EndSpeech(c, yes)
        \/ \E agent \in Agents \cup {None} : SetFocus(agent)
        \/ \E phase \in Phases \cup {None} : SetPhase(phase)
        \/ Interrupt \/ Restart
Spec == Init /\ [][Next]_vars

----------------------------------------------------------------------------
(* Properties.                                                             *)

Distinct(queue) == \A j, k \in DOMAIN queue : queue[j] = queue[k] => j = k
TypeOK ==
    /\ \A c \in Calls : /\ turn[c].at \in Over \cup {"idle", "intake", "written", "replacing",
                               "responding", "uttering", "queued", "speaking"}
                        /\ turn[c].left \in 0..MaxUtterances
    /\ \A ch \in ChannelsUsed : active[ch] \in Calls \cup {None}
    /\ Distinct(intake) /\ Distinct(lane)

\* One floor: captions come in pairs, a start and its one end, and what was
\* started last is what is being said.
Starts(i) == captions[i].status = "started"
OneVoice ==
    \A i \in DOMAIN captions :
        IF Starts(i)
        THEN /\ i > 1 => ~Starts(i - 1)
             /\ i = Len(captions) => turn[captions[i].call].at = "speaking"
        ELSE i > 1 /\ Starts(i - 1) /\ captions[i].said = captions[i - 1].said

\* A channel speaks for its newest turn only: a turn that was replaced may end
\* what it is saying and starts nothing more.
StartsNewest ==
    \A c \in Calls : turn[c].at # "speaking" /\ turn'[c].at = "speaking"
          => active[ChannelOf[c]] = c /\ ~turn[c].aborted

\* What is heard was written first, and an input runs one turn at most.
Begun(c) == turn[c].at \notin {"idle", "refused", "intake", "duplicate", "lost"}
HeardIsWritten ==
    /\ \A i \in DOMAIN captions :
          captions[i].said \in transcript[ChannelOf[captions[i].call]]
    /\ \A c, d \in Calls : Begun(c) /\ Begun(d) /\ ChannelOf[c] = ChannelOf[d]
          /\ InputOf[c] = InputOf[d] => c = d

----------------------------------------------------------------------------
(* The inductive invariant of these properties: the lanes hold the calls   *)
(* that wait in them, only the head of a lane acts, and only the newest    *)
(* turn of a channel has not been told to stop.                            *)

Entries == {InputOf[c] : c \in Calls} \X Nat
Captions == [call : Calls, said : Entries,
             status : {"started", "completed", "interrupted", "failed"}]
Places == Over \cup {"idle", "intake", "written", "replacing", "responding", "uttering",
                     "queued", "speaking"}
TurnsTyped ==
    /\ turn \in [Calls -> [at : Places, agent : Agents \cup {None}, aborted : BOOLEAN,
                           left : 0..MaxUtterances]]
    /\ transcript \in [ChannelsUsed -> SUBSET Entries]
    /\ active \in [ChannelsUsed -> Calls \cup {None}]
    /\ captions \in Seq(Captions)
\* A lane: the calls at some place, the first of which acts.
Lane(queue, turns, waiting, acting) ==
    /\ queue \in Seq(Calls) /\ Distinct(queue)
    /\ \A c \in Calls : turns[c].at \in waiting <=> c \in Elements(queue)
    /\ \A c \in Calls : turns[c].at \in acting => queue # <<>> /\ queue[1] = c
InIntake == {"intake", "written", "replacing"}
TakenIn == {"written", "replacing"}
InLane == {"queued", "speaking"}
Lanes == Lane(intake, turn, InIntake, TakenIn) /\ Lane(lane, turn, InLane, {"speaking"})
\* Whoever speaks has the last caption.
Opens(c) == LET n == Len(captions) IN
            /\ captions # <<>> /\ Starts(n)
            /\ captions[n].call = c /\ captions[n].said = Said(c)
Speaks == /\ OneVoice
          /\ \A c \in Calls : turn[c].at = "speaking" => Opens(c)
IsWritten == /\ HeardIsWritten
             /\ \A c \in Calls :
                   /\ Begun(c) => Heard(c) \in transcript[ChannelOf[c]]
                   /\ turn[c].at \in {"queued", "speaking"} => Said(c) \in transcript[ChannelOf[c]]
Newest ==
    \A c \in Calls :
        /\ turn[c].at \in {"responding", "uttering", "queued", "speaking"} /\ ~turn[c].aborted
              => active[ChannelOf[c]] = c
        /\ turn[c].at = "replacing" => LET a == active[ChannelOf[c]] IN a = None \/ turn[a].aborted
        /\ turn[c].at \in {"uttering", "queued", "speaking"} => turn[c].left >= 1
TurnsInv == TurnsTyped /\ Lanes /\ Speaks /\ IsWritten /\ Newest
=============================================================================
