------------------------------ MODULE TurnStory ------------------------------
(***************************************************************************)
(* The mapper (TurnMapper) under every owner and every provider: the owner *)
(* starts and interrupts turns with ids it has not used, as its own        *)
(* bookkeeping ensures, and the provider sends contents in any order.  Two *)
(* history variables record what the client was told.                      *)
(***************************************************************************)
EXTENDS TurnMapper

VARIABLES
    told,   \* turns announced to the client with turn.started
    cut,    \* turns the client was told were interrupted
    heard   \* number of audio events sent of each turn

vars == <<mapperVars, told, cut, heard>>

StoryTypeOK ==
    /\ MapperTypeOK
    /\ told \subseteq TurnIds /\ cut \subseteq TurnIds
    /\ heard \in [TurnIds \cup {None} -> Nat]

Init == MapperInit /\ told = {} /\ cut = {} /\ heard = [t \in TurnIds \cup {None} |-> 0]

Said(type) == {e.turn : e \in {x \in out' : x.type = type}}

Record ==
    /\ told' = told \cup Said("started")
    /\ cut' = cut \cup Said("interrupted")
    /\ heard' = [t \in TurnIds \cup {None} |-> IF t \in Said("audio") THEN heard[t] + 1 ELSE heard[t]]

\* A greeting, if any, is the first thing that happens to a mapper.
OwnerStep ==
    \/ Interrupt
    \/ \E id \in Inputs \ used : StartInput(id) \/ QueueInput(id)
    \/ \E id \in Inputs : used = {} /\ contents = NoContents /\ StartAssistant(id)

ContentStep ==
    \E c \in Contents :
        \/ \E kind \in UserKinds, drawn \in Generated : UserStarts(c, kind, drawn)
        \/ \E kind \in Kinds \ UserKinds : OutputStarts(c, kind)
        \/ \E fits, empty \in BOOLEAN : TextOutput(c, fits, empty)
        \/ \E valid \in BOOLEAN : AudioOutput(c, valid)
        \/ ToolUse(c)
        \/ \E reason \in Reasons, fits \in BOOLEAN : ContentEnd(c, reason, fits)

ProviderStep == ContentStep \/ Interrupt \/ CompletionEnd \/ ProviderError

\* An error is the owner's reason to stop.
Next == ~err /\ (OwnerStep \/ ProviderStep) /\ Record

Spec == Init /\ [][Next]_vars

-----------------------------------------------------------------------------
(* Once a client has been told that a turn is interrupted it is told no    *)
(* more about it: no transcript, audio, tool, state or end, however late   *)
(* the contents of the interrupted generation arrive (mapper.go 69-77,     *)
(* 96-101, 114, 121, 128).                                                 *)
InterruptedIsFinal == [][\A e \in out' : e.turn \notin cut]_vars

(* Output audio of a turn is numbered 1, 2, 3 ... without a gap or a       *)
(* repetition, across contents and interruptions (mapper.go 104, 146).     *)
AudioContiguous == [][\A e \in out' : e.type = "audio" => e.n = heard[e.turn] + 1]_vars

(* A turn is announced exactly once, before anything else is said of it;   *)
(* what is said of no turn at all is the case of a stream that speaks      *)
(* before its first user content (mapper.go 43, 62, 96-106).               *)
AnnouncedOnceFirst ==
    [][\A e \in out' : e.turn # None =>
         IF e.type = "started" THEN e.turn \notin told ELSE e.turn \in told']_vars

(* docs/nova-integration.md 15: interrupted turns are not rebuilt in the   *)
(* history of a replacement stream.                                        *)
NoCancelledTurnInHistory == \A i \in DOMAIN history : history[i] \notin cancelled

-----------------------------------------------------------------------------
(* Why they hold.                                                          *)
ActiveTurnIsLive == state # "idle" => turnID \notin cancelled

CurrentIsTold ==
    /\ turnID # None => turnID \in told
    /\ told \subseteq used
    /\ cancelled = cut /\ cut \subseteq told
    /\ nextInput # None => nextInput \in used

NumberedAsHeard == heard[turnID] = sequence

UnheardUntilTold == \A t \in TurnIds : t \notin told => heard[t] = 0

\* A turn that was queued but not begun is not begun twice.
NextInputIsFresh ==
    nextInput # None /\ nextInput \in told => nextInput = turnID \/ nextInput \in answered \cup cancelled

\* After an error the owner drops the mapper.
StoryInv ==
    /\ StoryTypeOK
    /\ ~err => /\ ActiveTurnIsLive
               /\ CurrentIsTold
               /\ NumberedAsHeard
               /\ UnheardUntilTold
               /\ NextInputIsFresh

=============================================================================
