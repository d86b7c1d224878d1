---------------------------- MODULE AccountSession ----------------------------
(***************************************************************************)
(* The account agent's session loop (AccountRuntime) under every client,   *)
(* provider and tool, and what must hold across its parts.                 *)
(***************************************************************************)
EXTENDS AccountRuntime

VARIABLE askedOn  \* the stream the pending question was put on

sessionVars == <<accountVars, askedOn>>

SessionInit == AccountInit /\ askedOn = 0

SessionNext ==
    /\ AccountNext
    /\ askedOn' = IF NewQuestion THEN stream ELSE askedOn

Spec == SessionInit /\ [][SessionNext]_sessionVars

-----------------------------------------------------------------------------
Started == active' \ active

(* The login is begun by the user's own answer to the invitation, once:    *)
(* not by the model, not by the words of the bootstrap, not by a second    *)
(* answer (runtime.go 126-139, 297-305, 423-432, 468-472).                 *)
LoginIsAnswered ==
    [][\A a \in Started : a.job.key = Login =>
         /\ \A b \in issued : b.key # Login
         /\ \/ feed' = feed /\ a.job.turn = Opening
            \/ answer = "yes" /\ a.job.turn = heard.turn]_sessionVars

(* A tool the model asked for runs only for the turn under way; what the   *)
(* app starts runs whatever the turn (runtime.go 463, 307-325).            *)
ModelJobsOfTheLiveTurn ==
    [][\A a \in Started : a.job.id \notin uiJobs' =>
         a.job.turn = turnID /\ turnID \notin cancelled]_sessionVars

(* Consent dies with the stream it was asked on, also when the end of a    *)
(* job replaces the stream (runtime.go 174-191, 352).                      *)
ConsentStaysOnItsStream ==
    [][\A a \in Started : a.job.confirmed => askedOn = stream]_sessionVars

(* While the assistant responds the turn timer is armed, from the greeting *)
(* on and across the streams (runtime.go 142-172, 192).                    *)
RespondingIsTimed == Running /\ state = "responding" => timer

(* As long as the first stream lasts, a pending greeting is under way: no  *)
(* input and no bootstrap event takes the turn from it unnoticed           *)
(* (runtime.go 144-146, 247-249, 373-387).                                 *)
GreetingIsUnderWay ==
    Running /\ Greeted /\ stream = 0 /\ greetingPending =>
        turnID = Opening /\ state = "responding"

(* What the provider hears before it speaks reaches neither the mapper nor *)
(* the words that may consent (runtime.go 370-387).                        *)
BootstrapIsUnheard ==
    openingBootstrap => \A x \in Items : contents[x] = None /\ userTexts[x] = None

\* One place for a staged call is enough, as in the personal assistant.
StagedIsClosing ==
    staged # NothingStaged => feed = <<Stream!Event("end", <<staged.call, staged.key>>)>>

AppJobsRun == \A i \in uiJobs : \E a \in active : a.job.id = i

AccountInv ==
    /\ AccountTypeOK
    /\ Running => StagedIsClosing /\ AppJobsRun
    /\ GreetingIsUnderWay

-----------------------------------------------------------------------------
(* Why they hold: the loop's own invariant; the greeting and the inputs    *)
(* are the only turns that were not drawn; the login was not begun while   *)
(* its invitation stands.                                                  *)
AccountInd ==
    /\ AccountTypeOK
    /\ LoopInd
    /\ used \cap Inputs \subseteq usedInputs \cup {Opening}
    /\ Running => AppJobsRun
    /\ GreetingIsUnderWay
    /\ BootstrapIsUnheard
    /\ pending # Nil => askedOn = stream
    /\ waitingWelcome => \A b \in issued : b.key # Login

=============================================================================
