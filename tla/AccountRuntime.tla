---------------------------- MODULE AccountRuntime ----------------------------
(***************************************************************************)
(* The session loop of the account agent:                                  *)
(* apps/account-agent/internal/account, Runtime.Run.  It is the loop of    *)
(* the personal assistant (PersonalRuntime), whose handlers it repeats,    *)
(* with an opening and with jobs that the app starts:                      *)
(*  - the agent speaks first (the greeting), and what the provider hears   *)
(*    before that is its own bootstrap and is dropped;                     *)
(*  - an anonymous user is invited to log in; only the answer to the       *)
(*    invitation, by voice or in the app, starts the login;                *)
(*  - a click that confirms an operation runs it at once, and the end of   *)
(*    such a job replaces the stream.                                      *)
(*                                                                         *)
(* Left out as in PersonalRuntime, and the surfaces shown to the user, the *)
(* note of a result added to the history, the fake conversation.  A client *)
(* gives its inputs other names than the opening turn.                     *)
(***************************************************************************)
EXTENDS PersonalRuntime

CONSTANTS
    Opening,  \* the turn of the greeting
    Welcome,  \* the id of the invitation, and of the login job
    Login     \* the operation identity.begin_login

ASSUME AccountAssumption ==
    /\ Opening \in Inputs /\ Welcome \in CallIDs /\ Login \in Keys
    /\ Policy[ToolOf[Login]] = "explicit_intent" /\ ToolOf[Login] \in DirectTools

VARIABLES
    waitingWelcome,    \* the invitation has not been answered
    greetingPending,   \* the greeting has not ended
    openingBootstrap,  \* the provider has not begun to speak
    bootstrap,         \* open user items that are the provider's own (bootstrapContents)
    uiJobs,            \* running jobs the app started, by id
    answer             \* what the last utterance says to the invitation

openingVars == <<waitingWelcome, openingBootstrap, bootstrap, uiJobs, answer>>
accountVars == <<vars, openingVars, greetingPending>>

-----------------------------------------------------------------------------
Answers == {"yes", "no", "unclear"}

AccountTypeOK ==
    /\ TypeOK
    /\ waitingWelcome \in BOOLEAN /\ greetingPending \in BOOLEAN
    /\ openingBootstrap \in BOOLEAN /\ bootstrap \subseteq Items
    /\ uiJobs \subseteq CallIDs
    /\ answer \in Answers

\* An authenticated user is greeted, not invited.
AccountInit ==
    /\ Init
    /\ waitingWelcome \in BOOLEAN
    /\ greetingPending = TRUE /\ openingBootstrap = TRUE
    /\ bootstrap = {} /\ uiJobs = {}
    /\ answer = "unclear"

\* The loop begins with the greeting.
Greeted == used # {}

Greet ==
    /\ ~Greeted
    /\ Mapper!StartAssistant(Opening)
    /\ timer' = TimerAfter(timer)
    /\ UNCHANGED <<streamVars, gateVars, inputID, usedInputs, userTexts, heard, staged,
                   active, stream, ended, openingVars>>

\* Mutant: only a completed greeting is over.
GreetingUntilCompleted ==
    greetingPending /\ ~\E e \in out' : e.turn = Opening /\ e.type = "completed"

\* emit: what it does beside TimerAfter.
GreetingAfter ==
    greetingPending /\ ~\E e \in out' : e.turn = Opening /\ e.type \in {"completed", "interrupted"}

-----------------------------------------------------------------------------
(* Timers and the client's commands.                                       *)

AccountTimeout == TurnTimeout /\ UNCHANGED openingVars

AccountRenew == Renew /\ UNCHANGED openingVars

\* While the greeting lasts an input waits for the user's first speech.
AccountAudio(id) ==
    /\ id # Opening
    /\ \/ ~greetingPending /\ AudioAppend(id)
       \/ /\ greetingPending /\ Running
          /\ id # inputID /\ id \notin usedInputs /\ Cardinality(usedInputs) < MaxTurns
          /\ inputID' = id
          /\ usedInputs' = usedInputs \cup {id}
          /\ Mapper!QueueInput(id)
          /\ UNCHANGED <<streamVars, gateVars, timer, userTexts, heard, staged, active, stream, ended>>
    /\ UNCHANGED openingVars

AccountCommit(id) == TurnCommit(id) /\ UNCHANGED openingVars

AccountCancel(id) == TurnCancel(id) /\ UNCHANGED openingVars

AccountStop == SessionStop /\ UNCHANGED openingVars

\* start, for a job of the app: no limit on running jobs.
StartForApp(id, k, t, confirmed) ==
    LET job == [id |-> id, key |-> k, turn |-> t, confirmed |-> confirmed] IN
    /\ Gate!Count(id, k)
    /\ attempted' = attempted \cup {k}
    /\ issued' = issued \cup {job}
    /\ active' = active \cup {[job |-> job, stream |-> stream]}
    /\ uiJobs' = uiJobs \cup {id}
    /\ UNCHANGED <<cache, now>>

NoneStarted == UNCHANGED <<calls, seen, attempted, issued, cache, now, active, uiJobs>>

NoLongerWaiting == waitingWelcome' = FALSE

\* beginWelcomeLogin: only here is the login attempted, so it is refused by the
\* limit on calls alone.  Consent (pending, intent) is left to the caller.
BeginLogin(turn) ==
    /\ NoLongerWaiting
    /\ IF Gate!Accepted(Welcome, Login) THEN StartForApp(Welcome, Login, turn, FALSE)
       ELSE NoneStarted

\* The answer to the invitation in the app.
ConfirmWelcome(yes) ==
    /\ Running /\ waitingWelcome
    /\ \/ yes /\ BeginLogin(Opening) /\ UNCHANGED ended
       \/ ~yes /\ ended' = "stopped" /\ NoneStarted /\ UNCHANGED waitingWelcome
    /\ UNCHANGED <<mapperVars, streamVars, pending, intent, inputID, usedInputs, timer,
                   userTexts, heard, staged, stream, openingBootstrap, bootstrap, answer>>

\* tools.confirm: a click approves and runs the operation in question.  In the
\* instant it lapses, or at the limit on calls, it is approved and not run.
ConfirmAndRun(op) ==
    /\ Gate!Confirmable(op)
    /\ IF calls < MaxCalls /\ now < pending.expires
       THEN /\ pending' = Nil
            /\ StartForApp(op, pending.key, pending.turn, TRUE)
       ELSE /\ pending' = [pending EXCEPT !.approved = TRUE]
            /\ IF calls < MaxCalls THEN Gate!Count(op, pending.key) ELSE UNCHANGED <<calls, seen>>
            /\ UNCHANGED <<attempted, issued, cache, now, active, uiJobs>>
    /\ UNCHANGED intent

AccountConfirm(op, yes) ==
    /\ Running
    /\ op # Welcome \/ ~waitingWelcome
    /\ IF yes /\ Gate!Confirmable(op) THEN ConfirmAndRun(op)
       ELSE Gate!Confirm(op, yes) /\ UNCHANGED <<active, uiJobs>>
    /\ UNCHANGED <<mapperVars, streamVars, inputID, usedInputs, timer, userTexts, heard, staged,
                   stream, ended, waitingWelcome, openingBootstrap, bootstrap, answer>>

AccountLost == Lost /\ UNCHANGED openingVars

AccountTime == TimePasses /\ UNCHANGED openingVars

-----------------------------------------------------------------------------
(* A job is done.                                                          *)

\* Mutant: consent outlives the stream that the end of a job replaces.
StoreAndKeepConsent(j, r) == Gate!Complete(j, r)

\* Complete, then the Interrupt of rotate.
StoreAndWithdraw(j, r) ==
    /\ cache' = IF Gate!Mutates(j.key) THEN [cache EXCEPT ![j.key] = r] ELSE cache
    /\ pending' = Nil
    /\ intent' = [intent EXCEPT !.asks = Nil]
    /\ UNCHANGED <<seen, calls, attempted, now, issued>>

\* A job of the app: its result goes to the history of a new stream, whatever
\* is under way, and no timer is stopped.
AppJobFinished(a, r) ==
    /\ Running
    /\ a.job.id \in uiJobs
    /\ Reopen({})
    /\ StoreAndWithdraw(a.job, r)
    /\ active' = active \ {a}
    /\ uiJobs' = uiJobs \ {a.job.id}
    /\ UNCHANGED <<timer, inputID, usedInputs, waitingWelcome, openingBootstrap, bootstrap, answer>>

ModelJobFinished(a, r) ==
    /\ a.job.id \notin uiJobs
    /\ ToolFinished(a, r)
    /\ UNCHANGED openingVars

-----------------------------------------------------------------------------
(* The stream's events.                                                    *)

\* Mutant: only the interruption that a bootstrap item causes is dropped.
BootstrapSpeech(e) == openingBootstrap /\ e.kind = "interrupted"

\* What the provider hears of its own bootstrap.
Bootstrap(e) ==
    \/ openingBootstrap /\ (e.kind = "interrupted" \/ (e.kind = "start" /\ e.about \in Items))
    \/ e.about \in bootstrap

DropBootstrap ==
    LET e == Head(feed) IN
    /\ Running /\ feed # <<>>
    /\ Bootstrap(e)
    /\ feed' = Tail(feed)
    /\ bootstrap' = IF e.kind = "start" THEN bootstrap \cup {e.about}
                    ELSE IF e.kind = "end" THEN bootstrap \ {e.about} ELSE bootstrap
    /\ UNCHANGED <<mapperVars, openItems, openParts, gateVars, runtimeVars,
                   waitingWelcome, openingBootstrap, uiJobs, answer>>

\* The bootstrap ends when the assistant begins to speak.
Heeded ==
    /\ feed # <<>> /\ ~Bootstrap(Head(feed))
    /\ openingBootstrap' = (openingBootstrap /\ Head(feed).kind \notin {"start_audio", "start_text"})
    /\ UNCHANGED bootstrap

AccountPlain ==
    /\ Heeded /\ (Plain \/ UserText \/ ToolUse)
    /\ UNCHANGED <<waitingWelcome, uiJobs, answer>>

\* welcomeAnswer: a refusal of the gate may refuse the invitation; consent to
\* log in is none of the gate's phrases.
AccountUserEnd ==
    /\ Heeded /\ UserEnd
    /\ IF heard' = heard /\ userTexts' = userTexts THEN UNCHANGED answer
       ELSE /\ answer' \in Answers
            /\ answer' = "yes" => heard'.says.says = "other"
            /\ answer' = "no" => heard'.says.says \in {"deny", "other"}
    /\ UNCHANGED <<waitingWelcome, uiJobs>>

\* ObserveUser, where a login may follow it.
ObservedConsent ==
    LET t == heard.turn  u == heard.says IN
    /\ intent' = [turn |-> t, asks |-> IF u.says = "ask" THEN u.tool ELSE Nil]
    /\ pending' = IF Gate!Withdraws(t, u) THEN Nil ELSE pending

Answered == waitingWelcome /\ AllHeard /\ ~err' /\ answer # "unclear"

\* An utterance that answers the invitation approves nothing: it is no phrase.
AnsweredByVoice ==
    /\ Heeded /\ OutputBegins /\ Answered
    /\ ObservedConsent
    /\ timer' = TimerAfter(timer)
    /\ \/ answer = "yes" /\ BeginLogin(heard.turn) /\ UNCHANGED ended
       \/ answer = "no" /\ ended' = "stopped" /\ NoneStarted /\ UNCHANGED waitingWelcome
    /\ UNCHANGED <<userTexts, heard, staged, answer>>

AccountOutputStart ==
    \/ AnsweredByVoice
    \/ Heeded /\ OutputStart /\ ~Answered /\ UNCHANGED <<waitingWelcome, uiJobs, answer>>

\* Mutant: the model may ask for the login as for any other tool.
AnyToolForTheModel(k) == TRUE

\* identity.begin_login is the supervisor's.
ForTheModel(k) == k # Login

AccountToolEnd ==
    /\ Heeded
    /\ \/ (ForTheModel(staged.key) \/ Void) /\ ToolEnd
       \/ /\ ~ForTheModel(staged.key) /\ ~Void
          /\ Take("end") /\ About \in CallIDs \X (Keys \cup {Malformed})
          /\ Mapper!ContentEnd(About[1], "other", TRUE)
          /\ Emit
          /\ staged' = NothingStaged
          /\ UNCHANGED <<gateVars, active, userTexts, heard>>
    /\ UNCHANGED <<waitingWelcome, uiJobs, answer>>

\* The provider's ids are not the invitation's.
AccountReceive ==
    /\ Receive /\ UNCHANGED openingVars
    /\ \A i \in DOMAIN feed' : feed'[i].about \notin {Welcome} \X (Keys \cup {Malformed})

-----------------------------------------------------------------------------
AccountClientStep ==
    \/ \E id \in Inputs : AccountAudio(id) \/ AccountCommit(id) \/ AccountCancel(id)
    \/ \E id \in Generated : AccountCancel(id)
    \/ \E yes \in BOOLEAN : ConfirmWelcome(yes) \/ \E op \in CallIDs : AccountConfirm(op, yes)
    \/ AccountStop

AccountStreamStep ==
    DropBootstrap \/ AccountPlain \/ AccountUserEnd \/ AccountOutputStart \/ AccountToolEnd

AccountStep ==
    \/ AccountClientStep \/ AccountStreamStep \/ AccountReceive
    \/ \E a \in active, r \in Gate!Results : AppJobFinished(a, r) \/ ModelJobFinished(a, r)
    \/ AccountTimeout \/ AccountRenew \/ AccountLost \/ AccountTime

AccountNext ==
    /\ Greet \/ (Greeted /\ AccountStep)
    /\ greetingPending' = GreetingAfter

=============================================================================
