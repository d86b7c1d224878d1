---------------------------- MODULE PersonalSession ----------------------------
(***************************************************************************)
(* The personal assistant's session loop (PersonalRuntime) under every     *)
(* client, provider and tool, and what must hold across its parts.  Two    *)
(* history variables remember when the question now pending was put.       *)
(***************************************************************************)
EXTENDS PersonalRuntime

VARIABLES
    askedOn,    \* the stream the pending question was put on
    heardSince  \* an utterance of the user has become final since

sessionVars == <<vars, askedOn, heardSince>>

SpeechEnded == \E x \in Items : userTexts[x] # None /\ userTexts'[x] = None

SessionInit == Init /\ askedOn = 0 /\ heardSince = FALSE

SessionNext ==
    /\ Next
    /\ askedOn' = IF NewQuestion THEN stream ELSE askedOn
    /\ heardSince' = (~NewQuestion /\ (heardSince \/ SpeechEnded))

Spec == SessionInit /\ [][SessionNext]_sessionVars

-----------------------------------------------------------------------------
(* A tool runs only for the turn under way: not for one the user has       *)
(* interrupted, cancelled or left while the call was on its way            *)
(* (runtime.go 305-333).                                                   *)
JobsOfTheLiveTurn ==
    [][\A a \in active' \ active : a.job.turn = turnID /\ turnID \notin cancelled]_sessionVars

(* The result of a job is sent to the stream that asked for it: no renewal *)
(* or cancellation replaces the stream under a running job (runtime.go     *)
(* 159-166, 229-232).                                                      *)
ResultsToTheirStream == Running => \A a \in active : a.stream = stream

(* While the assistant responds the turn timer is armed, however the turn  *)
(* came to respond: an interruption of the turn before, a renewal or a     *)
(* second answer does not leave it unguarded (runtime.go 102-129).         *)
RespondingIsTimed == Running /\ state = "responding" => timer

(* A call is staged only between its use and its end, whatever stream,     *)
(* turn or timer changes in between; so that one place for a staged call   *)
(* is enough, and a call of a stream that was left is never executed       *)
(* (runtime.go 135, 305-322).                                              *)
StagedIsClosing ==
    staged # NothingStaged =>
        feed = <<Stream!Event("end", <<staged.call, staged.key>>)>>

LoopInv ==
    /\ TypeOK
    /\ Running => StagedIsClosing
    /\ inputID # None => inputID \in usedInputs

(* Consent dies with the stream it was asked on: a removal that needed it  *)
(* runs on the stream whose user was asked, never after a cancellation or  *)
(* a renewal in between (runtime.go 133-136).                              *)
ConsentStaysOnItsStream ==
    [][\A a \in active' \ active : a.job.confirmed => askedOn = stream]_sessionVars

(* packages/go/actionruntime/tools.go 251: only a subsequent finalized     *)
(* utterance authorizes an action.  What approves a question put in a turn *)
(* became final after the question was put.                                *)
ApprovedByVoice ==
    /\ pending # Nil /\ pending.turn # None /\ ~pending.approved
    /\ pending' # Nil /\ pending'.approved
    /\ feed' # feed

ApprovalIsLaterSpeech == [][ApprovedByVoice => heardSince]_sessionVars

(* runtime.go 156: the provider timeout says that Nova did not complete    *)
(* the turn in time, so a turn is under way when it fires.                 *)
TimeoutHasATurn == [][ended' = "timeout" => state # "idle"]_sessionVars

(* contracts/voice/v1/README.md 70-72: a finalized phrase of the user that *)
(* follows the question approves it, once all that the user said on this   *)
(* stream is final and the answer begins.                                  *)
PhraseIsFinal ==
    /\ feed # <<>> /\ feed' = Tail(feed) /\ stream' = stream /\ ended' = None
    /\ Head(feed).kind \in {"start_audio", "start_text"}
    /\ openItems = {}
    /\ heard.turn # None

FinalPhraseApproves ==
    [][PhraseIsFinal /\ Gate!Approves(heard.turn, heard.says)
         => pending' # Nil /\ pending'.approved]_sessionVars

-----------------------------------------------------------------------------
(* Why they hold: the loop's own invariant; an input that was not begun is *)
(* no turn; the question pending was put on this stream.                   *)
SessionInd ==
    /\ LoopInd
    /\ used \cap Inputs \subseteq usedInputs
    /\ inputID # None => inputID \in usedInputs
    /\ ResultsToTheirStream
    /\ pending # Nil => askedOn = stream

=============================================================================
