------------------------------ MODULE TurnMapper ------------------------------
(***************************************************************************)
(* The mapper of a realtime conversation: packages/go/realtime/mapper.go.  *)
(* It turns the provider's stream of contents, which knows no turns, into  *)
(* turn events for the client, and keeps the text history a replacement    *)
(* stream is opened with.  It is driven by its owner (StartInput,          *)
(* StartAssistant, QueueInput, Interrupt) and by Map, one action here per  *)
(* kind of provider event.                                                 *)
(*                                                                         *)
(* Text and PCM are reduced to what Map tests: empty or not, within its    *)
(* limits or not.  The metrics clock is left out.                          *)
(***************************************************************************)
EXTENDS Integers, Sequences, FiniteSets

CONSTANTS
    Inputs,       \* turn ids chosen by the client or by the agent
    Generated,    \* turn ids drawn by rand.Text
    Contents,     \* content ids of the provider
    MaxTurns,     \* answered plus cancelled turns of a session (128)
    MaxContents,  \* contents open at once (1024)
    MaxPairs,     \* question/answer pairs kept as history (16)
    None          \* the empty turn id, the nil content

ASSUME MapperAssumption ==
    /\ Inputs \cap Generated = {}
    /\ None \notin Inputs \cup Generated \cup Contents
    /\ MaxTurns \in Nat /\ MaxContents \in Nat /\ MaxPairs \in Nat \ {0}

VARIABLES
    turnID, state, nextInput, answered, cancelled,
    contents,     \* the open contents, by id
    users,        \* turns with a final transcript still unanswered in history
    sequence,     \* number of the last audio event of the turn
    waitingUser,  \* the microphone started a turn the provider has not heard of
    history,      \* the turns of the question/answer pairs kept
    used,         \* every turn id ever chosen or drawn
    out,          \* the events returned by the last call, as a set: within a call
                  \* an interruption always comes first and a state last
    err           \* the last call returned an error

mapperVars == <<turnID, state, nextInput, answered, cancelled, contents, users, sequence,
                waitingUser, history, used, out, err>>

-----------------------------------------------------------------------------
TurnIds == Inputs \cup Generated
Kinds == {"user_text", "user_other", "audio", "speculative", "final", "tool"}
UserKinds == {"user_text", "user_other"}
AssistantKinds == {"audio", "speculative", "final"}
Reasons == {"END_TURN", "INTERRUPTED", "other"}
\* `text': a user's final content that is not empty.
OpenContents == [turn : TurnIds \cup {None}, kind : Kinds, text : BOOLEAN]
EventTypes == {"started", "idle", "listening", "responding", "interrupted", "completed",
               "transcript", "audio", "tool"}
Events == [type : EventTypes, turn : TurnIds \cup {None}, n : Nat]

Ev(type, t) == [type |-> type, turn |-> t, n |-> 0]

MapperTypeOK ==
    /\ turnID \in TurnIds \cup {None}
    /\ state \in {"idle", "listening", "responding"}
    /\ nextInput \in TurnIds \cup {None}
    /\ answered \subseteq TurnIds \cup {None}
    /\ cancelled \subseteq TurnIds
    /\ contents \in [Contents -> OpenContents \cup {None}]
    /\ users \subseteq TurnIds \cup {None}
    /\ sequence \in Nat
    /\ waitingUser \in BOOLEAN
    /\ history \in Seq(TurnIds \cup {None})
    /\ used \subseteq TurnIds
    /\ out \subseteq Events
    /\ err \in BOOLEAN

NoContents == [c \in Contents |-> None]

MapperInit ==
    /\ turnID = None /\ state = "idle" /\ nextInput = None
    /\ answered = {} /\ cancelled = {}
    /\ contents = NoContents /\ users = {}
    /\ sequence = 0 /\ waitingUser = FALSE
    /\ history = <<>>
    /\ used = {} /\ out = {} /\ err = FALSE

\* NewMapper(history): the owner opens a new stream; only the history is kept.
Replace ==
    /\ turnID' = None /\ state' = "idle" /\ nextInput' = None
    /\ answered' = {} /\ cancelled' = {}
    /\ contents' = NoContents /\ users' = {}
    /\ sequence' = 0 /\ waitingUser' = FALSE
    /\ UNCHANGED <<history, used, err>>

-----------------------------------------------------------------------------
(* Interrupt, and what the owner starts.                                   *)

Interruptible == turnID # None /\ turnID \notin cancelled /\ state # "idle"

InterruptEvents ==
    IF Interruptible THEN {Ev("interrupted", turnID), Ev("idle", turnID)} ELSE {}

\* Mutant: an interrupted turn is not remembered as cancelled.
CancelledNowForgotten == cancelled

CancelledNow == IF Interruptible THEN cancelled \cup {turnID} ELSE cancelled

Interrupt ==
    /\ cancelled' = CancelledNow
    /\ state' = IF Interruptible THEN "idle" ELSE state
    /\ out' = InterruptEvents
    /\ UNCHANGED <<turnID, nextInput, answered, contents, users, sequence, waitingUser,
                   history, used, err>>

StartAssistant(id) ==
    /\ turnID' = id
    /\ state' = "responding"
    /\ waitingUser' = FALSE
    /\ sequence' = 0
    /\ used' = used \cup {id}
    /\ out' = {Ev("started", id), Ev("responding", id)}
    /\ UNCHANGED <<nextInput, answered, cancelled, contents, users, history, err>>

QueueInput(id) ==
    /\ nextInput' = id
    /\ used' = used \cup {id}
    /\ out' = {}
    /\ UNCHANGED <<turnID, state, answered, cancelled, contents, users, sequence, waitingUser,
                   history, err>>

StartInput(id) ==
    /\ cancelled' = IF state = "responding" THEN CancelledNow ELSE cancelled
    /\ nextInput' = id
    /\ turnID' = id
    /\ state' = "listening"
    /\ sequence' = 0
    /\ waitingUser' = TRUE
    /\ used' = used \cup {id}
    /\ out' = (IF state = "responding" THEN InterruptEvents ELSE {})
                \cup {Ev("started", id), Ev("listening", id)}
    /\ UNCHANGED <<answered, contents, users, history, err>>

-----------------------------------------------------------------------------
(* Map, by kind of event.                                                  *)

Nothing == out' = {} /\ UNCHANGED <<turnID, state, nextInput, answered, cancelled, contents,
                                      users, sequence, waitingUser, history, used, err>>

Fail ==
    /\ err' = TRUE
    /\ out' = {}

\* An error event of the stream.
ProviderError ==
    /\ Fail
    /\ UNCHANGED <<turnID, state, nextInput, answered, cancelled, contents, users, sequence,
                   waitingUser, history, used>>

Complete ==
    /\ state' = "idle"
    /\ answered' = answered \cup {turnID}
    /\ out' = {Ev("completed", turnID), Ev("idle", turnID)}

CompletionEnd ==
    IF state = "responding" /\ sequence > 0
    THEN Complete /\ UNCHANGED <<turnID, nextInput, cancelled, contents, users, sequence,
                                 waitingUser, history, used, err>>
    ELSE Nothing

\* contentStart of role USER: the turn it belongs to.  `drawn' is the id
\* rand.Text would return, which is new if it is needed.
Ended(t, gone) == t = None \/ t \in answered \/ t \in gone

\* Mutant: the queued input is begun again after it ended.
UserTurnAgain(drawn, gone) ==
    IF ~Ended(turnID, gone) THEN turnID
    ELSE IF nextInput # None THEN nextInput
    ELSE drawn

UserTurn(drawn, gone) ==
    IF ~Ended(turnID, gone) THEN turnID
    ELSE IF ~Ended(nextInput, gone) THEN nextInput
    ELSE drawn

\* Mutant: the audio numbering goes on from the turn before.
SequenceOfNewTurnKept(renew) == sequence

SequenceOfNewTurn(renew) == IF renew THEN 0 ELSE sequence

UserStarts(c, kind, drawn) ==
    LET cut == state = "responding"
        gone == IF cut THEN CancelledNow ELSE cancelled
        renew == Ended(turnID, gone)
        id == UserTurn(drawn, gone)
    IN  /\ renew /\ id = drawn => drawn \notin used
        /\ waitingUser' = FALSE
        /\ cancelled' = gone
        /\ turnID' = id
        /\ sequence' = SequenceOfNewTurn(renew)
        /\ state' = "listening"
        /\ used' = IF renew /\ id = drawn THEN used \cup {drawn} ELSE used
        /\ IF Cardinality(answered) + Cardinality(gone) >= MaxTurns
           THEN Fail /\ UNCHANGED contents
           ELSE /\ contents' = [contents EXCEPT ![c] = [turn |-> id, kind |-> kind, text |-> FALSE]]
                /\ out' = (IF cut THEN InterruptEvents ELSE {})
                            \cup (IF renew THEN {Ev("started", id)} ELSE {})
                            \cup {Ev("listening", id)}
                /\ err' = err
        /\ UNCHANGED <<nextInput, answered, users, history>>

\* contentStart of another role.
Opened == {c \in Contents : contents[c] # None}

OutputStarts(c, kind) ==
    IF waitingUser THEN Nothing
    ELSE IF Cardinality(Opened) >= MaxContents THEN ProviderError
    ELSE LET speaks == kind \in {"audio", "speculative"} /\ turnID \notin cancelled IN
         /\ contents' = [contents EXCEPT ![c] = [turn |-> turnID, kind |-> kind, text |-> FALSE]]
         /\ state' = IF speaks THEN "responding" ELSE state
         /\ out' = IF speaks THEN {Ev("responding", turnID)} ELSE {}
         /\ UNCHANGED <<turnID, nextInput, answered, cancelled, users, sequence, waitingUser,
                        history, used, err>>

\* Mutant: content of an earlier turn still counts.
LiveWhateverTurn(c) == contents[c] # None /\ contents[c].turn \notin cancelled

Live(c) == /\ contents[c] # None
           /\ contents[c].turn \notin cancelled
           /\ contents[c].turn = turnID

\* textOutput; `fits' is the 8192 byte limit, `empty' an empty delta.
TextOutput(c, fits, empty) ==
    IF ~Live(c) THEN Nothing
    ELSE IF ~fits THEN ProviderError
    ELSE /\ contents' = [contents EXCEPT ![c].text = @ \/ (contents[c].kind = "user_text" /\ ~empty)]
         /\ out' = {Ev("transcript", contents[c].turn)}
         /\ UNCHANGED <<turnID, state, nextInput, answered, cancelled, users, sequence,
                        waitingUser, history, used, err>>

\* audioOutput; `valid' is the PCM check.
AudioOutput(c, valid) ==
    IF ~Live(c) \/ state # "responding" THEN Nothing
    ELSE IF ~valid THEN ProviderError
    ELSE /\ sequence' = sequence + 1
         /\ out' = {[type |-> "audio", turn |-> contents[c].turn, n |-> sequence + 1]}
         /\ UNCHANGED <<turnID, state, nextInput, answered, cancelled, contents, users,
                        waitingUser, history, used, err>>

ToolUse(c) ==
    IF ~Live(c) THEN Nothing
    ELSE /\ out' = {Ev("tool", contents[c].turn)}
         /\ UNCHANGED <<turnID, state, nextInput, answered, cancelled, contents, users, sequence,
                        waitingUser, history, used, err>>

\* The newest pairs within both limits of the history; the newest always fits.
Remember(t) ==
    LET all == Append(history, t) IN
    \E n \in 1..Len(all) : n <= MaxPairs /\ history' = SubSeq(all, Len(all) - n + 1, Len(all))

\* The part of contentEnd that keeps the finalized speech of both sides.
KeepSpeech(c) ==
    LET t == contents[c].turn IN
    \/ /\ contents[c].kind = "user_text"
       /\ users' = IF contents[c].text THEN users \cup {t} ELSE users
       /\ UNCHANGED history
    \/ /\ contents[c].kind = "final" /\ t \in users
       /\ users' = users \ {t}
       /\ Remember(t)
    \/ /\ contents[c].kind # "user_text" /\ ~(contents[c].kind = "final" /\ t \in users)
       /\ UNCHANGED <<users, history>>

CompletesTurn(c, reason) ==
    /\ reason = "END_TURN"
    /\ state = "responding"
    /\ \/ contents[c].kind = "audio"
       \/ contents[c].kind = "final" /\ sequence > 0

\* contentEnd; `fits' is the 8192 byte limit of the joined user transcript.
ContentEnd(c, reason, fits) ==
    IF ~Live(c) THEN Nothing
    ELSE /\ contents' = [contents EXCEPT ![c] = None]
         /\ UNCHANGED <<turnID, nextInput, sequence, waitingUser, used>>
         /\ \/ /\ reason = "INTERRUPTED"
               /\ cancelled' = CancelledNow
               /\ state' = IF Interruptible THEN "idle" ELSE state
               /\ out' = InterruptEvents
               /\ UNCHANGED <<answered, users, history, err>>
            \/ /\ reason # "INTERRUPTED" /\ contents[c].kind = "user_text" /\ ~fits
               /\ Fail
               /\ UNCHANGED <<state, answered, cancelled, users, history>>
            \/ /\ reason # "INTERRUPTED" /\ (contents[c].kind = "user_text" => fits)
               /\ KeepSpeech(c)
               /\ IF CompletesTurn(c, reason) THEN Complete
                  ELSE out' = {} /\ UNCHANGED <<state, answered>>
               /\ UNCHANGED <<cancelled, err>>

=============================================================================
