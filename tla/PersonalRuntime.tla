---------------------------- MODULE PersonalRuntime ----------------------------
(***************************************************************************)
(* The session loop of the personal assistant:                             *)
(* apps/personal-assistant-agent/internal/agent, Runtime.Run.  One         *)
(* goroutine owns the mapper, the tool gate and the provider's stream, and *)
(* selects among the client's commands, the stream's events, finished tool *)
(* jobs and two timers; a step here is one turn of its loop.  Jobs run on  *)
(* goroutines of their own.                                                *)
(*                                                                         *)
(* Left out: the session without tools, evidence files, metrics, message   *)
(* wording.  Recoverable errors (`continue') change nothing and are no     *)
(* step.  A write, send or read that fails ends the session: it is the     *)
(* handler followed by Lost.                                               *)
(***************************************************************************)
EXTENDS Integers, Sequences, FiniteSets

CONSTANTS
    Inputs, Generated, MaxTurns, MaxContents, MaxPairs, None,     \* the mapper's
    Items, Parts, CallIDs,                        \* the stream's
    Keys, Tools, ToolOf, Policy, DirectTools, UITools, Malformed, \* the gate's
    MaxCalls, TTL, MaxTime, Nil,
    MaxActive,   \* jobs that may run at once (4)
    MaxRenewals  \* bound of the model: streams opened after the first

Contents == Items \cup Parts \cup CallIDs

VARIABLES
    turnID, state, nextInput, answered, cancelled, contents, users, sequence, waitingUser,
    history, used, out, err,
    feed, openItems, openParts,
    pending, seen, cache, calls, attempted, intent, now, issued

Mapper == INSTANCE TurnMapper

Stream == INSTANCE RealtimeStream WITH Operations <- Keys \cup {Malformed}

Gate == INSTANCE ActionSession WITH Turns <- Inputs \cup Generated \cup {None}, None <- Nil

VARIABLES
    inputID,     \* the microphone input audio is accepted for
    usedInputs,  \* inputs ever begun
    timer,       \* the turn timer is armed
    userTexts,   \* the turn of each user content whose text is not final yet
    heard,       \* the last finalized utterance: its turn and what it says
    staged,      \* the tool call whose content is still open
    active,      \* running jobs, with the stream that asked for them
    stream,      \* streams opened before this one
    ended        \* why the session ended, or None

mapperVars == <<turnID, state, nextInput, answered, cancelled, contents, users, sequence,
                waitingUser, history, used, out, err>>
streamVars == <<feed, openItems, openParts>>
gateVars == <<pending, seen, cache, calls, attempted, intent, now, issued>>
runtimeVars == <<inputID, usedInputs, timer, userTexts, heard, staged, active, stream, ended>>

vars == <<mapperVars, streamVars, gateVars, runtimeVars>>

-----------------------------------------------------------------------------
NothingStaged == [call |-> None, key |-> None, turn |-> None, void |-> FALSE]
Silence == [turn |-> None, says |-> [says |-> "other", tool |-> Nil]]
Endings == {"timeout", "tool_running", "provider_failed", "provider_unavailable", "stopped", "lost"}

\* A content is of one kind, and a call is no content.
Calls == CallIDs \X (Keys \cup {Malformed})

ASSUME RuntimeAssumption ==
    /\ Mapper!MapperAssumption
    /\ Gate!ToolsAssumption /\ Gate!BoundsAssumption /\ Gate!NoneAssumption
    /\ MaxRenewals \in Nat
    /\ Items \cap (Parts \cup CallIDs) = {}
    /\ (Items \cup Parts \cup {None}) \cap Calls = {}
    /\ None \notin Endings

TypeOK ==
    /\ Mapper!MapperTypeOK /\ Stream!StreamTypeOK /\ Gate!TypeOK
    /\ inputID \in Inputs \cup {None} /\ usedInputs \subseteq Inputs
    /\ timer \in BOOLEAN
    /\ userTexts \in [Items -> Mapper!TurnIds \cup {None}]
    /\ heard \in [turn : Mapper!TurnIds \cup {None}, says : Gate!Utterances]
    /\ staged \in [call : CallIDs, key : Keys \cup {Malformed}, turn : Mapper!TurnIds \cup {None},
                   void : BOOLEAN] \cup {NothingStaged}
    /\ active \subseteq [job : Gate!Jobs, stream : Nat]
    /\ stream \in 0..MaxRenewals
    /\ ended \in Endings \cup {None}

Init ==
    /\ Mapper!MapperInit /\ Stream!OpenStream /\ Gate!Init
    /\ inputID = None /\ usedInputs = {}
    /\ timer = FALSE
    /\ userTexts = [x \in Items |-> None] /\ heard = Silence
    /\ staged = NothingStaged /\ active = {}
    /\ stream = 0
    /\ ended = None

Running == ended = None

-----------------------------------------------------------------------------
(* emit: what the mapper returned is sent, and moves the turn timer.       *)

\* Mutant: the timer is armed when a turn starts, not when it responds.
TimerFromTheStart(armed) ==
    IF \E e \in out' : e.type \in {"interrupted", "completed"} THEN FALSE
    ELSE armed \/ \E e \in out' : e.type = "started"

TimerAfter(armed) ==
    IF \E e \in out' : e.type \in {"interrupted", "completed"} THEN FALSE
    ELSE armed \/ \E e \in out' : e.type = "responding"

\* Mutant: consent outlives the stream.
KeepConsent == UNCHANGED gateVars

WithdrawConsent == Gate!Interrupt

\* Mutant: a call that was on its way stays staged.
KeepStaged == UNCHANGED staged

DropStaged == staged' = NothingStaged

\* A new stream and a new mapper, after the events in `said'.
Reopen(said) ==
    /\ stream < MaxRenewals
    /\ Mapper!Replace /\ out' = said
    /\ Stream!ReopenStream
    /\ DropStaged
    /\ stream' = stream + 1
    /\ ended' \in {None, "provider_unavailable"}
    /\ UNCHANGED <<userTexts, heard>>

\* rotate, while jobs go on.
Rotate(said) == Reopen(said) /\ WithdrawConsent /\ UNCHANGED active

-----------------------------------------------------------------------------
(* The timers.                                                             *)

TurnTimeout ==
    /\ Running /\ timer
    /\ Mapper!Interrupt
    /\ timer' = TimerAfter(timer)
    /\ ended' = "timeout"
    /\ UNCHANGED <<streamVars, gateVars, inputID, usedInputs, userTexts, heard, staged,
                   active, stream>>

\* Mutant: a renewal does not wait for running jobs.
MayRenewOverJobs(late) == active = {} \/ ~late

\* Postponed while a job runs or a turn is under way, unless it is late.
MayRenew(late) == active = {} /\ (state = "idle" \/ late)

\* `late': the stream is older than 7 min 50 s.
Renew ==
    /\ Running
    /\ \E late \in BOOLEAN :
         \/ /\ MayRenew(late)
            /\ Rotate(Mapper!InterruptEvents)
            /\ timer' = TimerAfter(timer)
            /\ UNCHANGED <<inputID, usedInputs>>
         \/ /\ ~MayRenew(late) /\ active # {} /\ late
            /\ ended' = "tool_running"
            /\ UNCHANGED <<mapperVars, streamVars, gateVars, inputID, usedInputs,
                           timer, userTexts, heard, staged, active, stream>>

-----------------------------------------------------------------------------
(* The client's commands.                                                  *)

\* A new input; further audio of it goes to the stream and changes nothing.
AudioAppend(id) ==
    /\ Running
    /\ id # inputID /\ id \notin usedInputs
    /\ Cardinality(usedInputs) < MaxTurns
    /\ inputID' = id
    /\ usedInputs' = usedInputs \cup {id}
    /\ Mapper!StartInput(id)
    /\ timer' = TimerAfter(timer)
    /\ UNCHANGED <<streamVars, gateVars, userTexts, heard, staged, active, stream, ended>>

TurnCommit(id) ==
    /\ Running
    /\ id = inputID
    /\ timer' = TRUE
    /\ UNCHANGED <<mapperVars, streamVars, gateVars, inputID, usedInputs,
                   userTexts, heard, staged, active, stream, ended>>

TurnCancel(id) ==
    /\ Running
    /\ id = turnID /\ state # "idle"
    /\ timer' = FALSE
    /\ \/ /\ active # {}
          /\ Mapper!Interrupt
          /\ ended' = "tool_running"
          /\ UNCHANGED <<streamVars, gateVars, inputID, usedInputs, userTexts, heard,
                         staged, active, stream>>
       \/ /\ active = {}
          /\ Rotate(Mapper!InterruptEvents)
          /\ inputID' = None
          /\ UNCHANGED usedInputs

ToolConfirm(op, yes) ==
    /\ Running
    /\ Gate!Confirm(op, yes)
    /\ UNCHANGED <<mapperVars, streamVars, runtimeVars>>

SessionStop ==
    /\ Running
    /\ ended' = "stopped"
    /\ UNCHANGED <<mapperVars, streamVars, gateVars, inputID, usedInputs, timer,
                   userTexts, heard, staged, active, stream>>

\* The client, the provider or the evidence file is gone.
Lost ==
    /\ Running
    /\ ended' = "lost"
    /\ UNCHANGED <<mapperVars, streamVars, gateVars, inputID, usedInputs, timer,
                   userTexts, heard, staged, active, stream>>

\* The clock the gate reads.
TimePasses ==
    /\ Running
    /\ Gate!Tick
    /\ UNCHANGED <<mapperVars, streamVars, runtimeVars>>

-----------------------------------------------------------------------------
(* A job is done: its result is stored and sent to the stream.             *)

ToolFinished(a, r) ==
    /\ Running
    /\ active' = active \ {a}
    /\ Gate!Complete(a.job, r)
    /\ UNCHANGED <<mapperVars, streamVars, inputID, usedInputs, timer, userTexts,
                   heard, staged, stream, ended>>

-----------------------------------------------------------------------------
(* The stream's events.                                                    *)

Take(kind) ==
    /\ Running
    /\ feed # <<>> /\ Head(feed).kind = kind
    /\ feed' = Tail(feed)
    /\ UNCHANGED <<openItems, openParts, inputID, usedInputs, stream>>

About == Head(feed).about

\* The mapper's verdict: an error ends the session, events are emitted.
Emit ==
    /\ timer' = TimerAfter(timer)
    /\ ended' = IF err' THEN "provider_failed" ELSE None

NoTools == UNCHANGED <<gateVars, userTexts, heard, staged, active>>

\* Events that concern the mapper alone.
Plain ==
    /\ \/ Take("interrupted") /\ Mapper!Interrupt
       \/ Take("completionEnd") /\ Mapper!CompletionEnd
       \/ Take("error") /\ Mapper!ProviderError
       \/ Take("audio") /\ \E valid \in BOOLEAN : Mapper!AudioOutput(About, valid)
       \/ /\ Take("text") /\ About \in Parts
          /\ \E fits, empty \in BOOLEAN : Mapper!TextOutput(About, fits, empty)
       \/ /\ Take("end") /\ About \in Parts
          /\ Mapper!ContentEnd(About, "other", TRUE)
       \/ /\ Take("start") /\ About \in Items
          /\ \E drawn \in Generated : Mapper!UserStarts(About, "user_text", drawn)
    /\ Emit /\ NoTools

\* The text counts for approval only if the mapper let it through.
UserText ==
    /\ Take("text") /\ About \in Items
    /\ \E fits, empty \in BOOLEAN : Mapper!TextOutput(About, fits, empty)
    /\ Emit
    /\ userTexts' = IF out' = {} THEN userTexts ELSE [userTexts EXCEPT ![About] = turnID]
    /\ UNCHANGED <<gateVars, heard, staged, active>>

\* Fragments of one turn are joined: what the whole says is any utterance.
UserEnd ==
    /\ Take("end") /\ About \in Items
    /\ \E fits \in BOOLEAN : Mapper!ContentEnd(About, "other", fits)
    /\ Emit
    /\ IF userTexts[About] = None \/ err' THEN UNCHANGED <<userTexts, heard>>
       ELSE /\ \E u \in Gate!Utterances : heard' = [turn |-> userTexts[About], says |-> u]
            /\ userTexts' = [userTexts EXCEPT ![About] = None]
    /\ UNCHANGED <<gateVars, staged, active>>

\* All that the user said is final: the gate may be told.
AllHeard == heard.turn # None /\ \A x \in Items : userTexts[x] = None

Observe == IF AllHeard THEN Gate!ObserveUser(heard.turn, heard.says) ELSE UNCHANGED gateVars

\* The start of an answer or of a tool call ends the user's utterance.
OutputBegins ==
    \/ Take("start_audio") /\ Mapper!OutputStarts(About, "audio")
    \/ Take("start_text") /\ Mapper!OutputStarts(About, "final")
    \/ /\ Take("start") /\ About \in Calls
       /\ Mapper!OutputStarts(About[1], "tool")

OutputStart ==
    /\ OutputBegins
    /\ Emit
    /\ IF err' THEN UNCHANGED gateVars ELSE Observe
    /\ UNCHANGED <<userTexts, heard, staged, active>>

\* The events of a call arrive together, so that at most one is staged.
ToolUse ==
    /\ Take("use")
    /\ Mapper!ToolUse(About[1])
    /\ staged' = [call |-> About[1], key |-> About[2], turn |-> turnID, void |-> out' = {}]
    /\ UNCHANGED <<gateVars, timer, userTexts, heard, active, ended>>

\* Mutant: a call is not void when its turn was left before its content ended.
VoidStaysAsStaged == staged.void

Void == staged.void \/ staged.turn # turnID

\* A job handed out runs if a place is free; else it is refused as busy.
Execute(id, k, t) ==
    \/ /\ Gate!Refuse(id, k)
       /\ UNCHANGED active
    \/ /\ k # Malformed
       /\ Gate!AnswerAtOnce(id, k, t) \/ Gate!AskConfirmation(id, k, t)
       /\ UNCHANGED active
    \/ /\ k # Malformed
       /\ Gate!Issue(id, k, t)
       /\ active' = IF Cardinality(active) < MaxActive
                    THEN active \cup {[job |-> [id |-> id, key |-> k, turn |-> t,
                                                confirmed |-> Gate!ConfirmLater(k)],
                                       stream |-> stream]}
                    ELSE active

ToolEnd ==
    /\ Take("end") /\ About \in Calls
    /\ Mapper!ContentEnd(About[1], "other", TRUE)
    /\ Emit
    /\ staged' = NothingStaged
    /\ IF Void \/ \E a \in active : a.job.id = staged.call
       THEN UNCHANGED <<gateVars, active>>
       ELSE Execute(staged.call, staged.key, staged.turn)
    /\ UNCHANGED <<userTexts, heard>>

-----------------------------------------------------------------------------
Receive ==
    /\ Running
    /\ Stream!Receive
    /\ UNCHANGED <<mapperVars, gateVars, runtimeVars>>

ClientStep ==
    \/ \E id \in Inputs : AudioAppend(id) \/ TurnCommit(id)
    \/ \E id \in Mapper!TurnIds : TurnCancel(id)
    \/ \E op \in CallIDs, yes \in BOOLEAN : ToolConfirm(op, yes)
    \/ SessionStop

StreamStep == Plain \/ UserText \/ UserEnd \/ OutputStart \/ ToolUse \/ ToolEnd

Next ==
    \/ ClientStep \/ StreamStep \/ Receive
    \/ \E a \in active, r \in Gate!Results : ToolFinished(a, r)
    \/ TurnTimeout \/ Renew \/ Lost \/ TimePasses

\* What the user is asked, approved or not; a step puts a new question.
Question(p) == IF p = Nil THEN Nil ELSE [p EXCEPT !.approved = FALSE]

NewQuestion == pending' # Nil /\ Question(pending') # Question(pending)

-----------------------------------------------------------------------------
(* Why the loop is right, in whatever session it runs.                     *)

\* A turn under way was not cancelled, and no turn is known that was not drawn.
MapperInd ==
    /\ Mapper!MapperTypeOK
    /\ cancelled \subseteq used
    /\ {turnID, nextInput} \subseteq used \cup {None}
    /\ state # "idle" => turnID \notin cancelled

\* Only an operation that needs consent is asked about.
GateInd == Gate!TypeOK /\ (pending # Nil => Gate!ConfirmLater(pending.key))

\* An event that is not of a call is about a content of its kind.
PlainEvent(e) ==
    /\ e.kind # "use" /\ e.about \notin Calls
    /\ e.kind \in {"start_audio", "start_text", "audio"} => e.about \in Parts

\* The events of a call pass one by one, and no other comes between them; the
\* call is staged between the last two.
FeedShape ==
    \/ /\ staged = NothingStaged
       /\ \A i \in DOMAIN feed : PlainEvent(feed[i])
    \/ /\ staged = NothingStaged
       /\ \E c \in Calls :
            feed \in {<<Stream!Event("start", c), Stream!Event("use", c), Stream!Event("end", c)>>,
                      <<Stream!Event("use", c), Stream!Event("end", c)>>}
    \/ /\ staged # NothingStaged
       /\ feed = <<Stream!Event("end", <<staged.call, staged.key>>)>>

\* The turn of a staged call is known, and was not cancelled if it is still
\* the mapper's.
StagedIsLive ==
    /\ staged.turn \in used \cup {None}
    /\ staged # NothingStaged /\ ~Void => turnID \notin cancelled

LoopInd ==
    /\ TypeOK
    /\ MapperInd /\ GateInd
    /\ Running => /\ FeedShape /\ StagedIsLive
                  /\ state = "responding" => timer

=============================================================================
