-------------------------- MODULE AccountLoopProofs --------------------------
(***************************************************************************)
(* Proofs about the account agent's session: its inductive invariant       *)
(* AccountInd, and from it the properties of AccountSession.  The handlers *)
(* it shares with the personal assistant keep what LoopProofs says; what   *)
(* the account adds is proved here.                                        *)
(***************************************************************************)
EXTENDS AccountSession, LoopProofs

LEMMA AccountConstants ==
    /\ Opening \in Inputs /\ Opening \in Mapper!TurnIds /\ Opening # None
    /\ Welcome \in CallIDs /\ Login \in Keys /\ ~Gate!ConfirmLater(Login)
  BY AccountAssumption, Ids DEF Gate!ConfirmLater

LEMMA InitAccount == SessionInit => AccountInd
  <1> SUFFICES ASSUME SessionInit PROVE AccountInd
    OBVIOUS
  <1>1. LoopInd /\ TypeOK
    BY InitLoop DEF SessionInit, AccountInit, LoopInd
  <1>2. /\ Mapper!MapperInit /\ Gate!Init /\ userTexts = [x \in Items |-> None]
        /\ waitingWelcome \in BOOLEAN /\ greetingPending = TRUE /\ openingBootstrap = TRUE
        /\ bootstrap = {} /\ uiJobs = {} /\ answer = "unclear"
    BY DEF SessionInit, AccountInit, Init
  <1>3. used = {} /\ pending = Nil /\ issued = {} /\ contents = [x \in Contents |-> None]
    BY <1>2 DEF Mapper!MapperInit, Gate!Init, Mapper!NoContents
  <1>4. AccountTypeOK
    BY <1>1, <1>2 DEF AccountTypeOK, Answers
  <1>5. BootstrapIsUnheard
    BY <1>2, <1>3 DEF BootstrapIsUnheard, Contents
  <1>6. GreetingIsUnderWay /\ AppJobsRun
    BY <1>2, <1>3 DEF GreetingIsUnderWay, AppJobsRun, Greeted
  <1> QED BY <1>1, <1>3, <1>4, <1>5, <1>6 DEF AccountInd

-----------------------------------------------------------------------------
(* The parts of the invariant, and what keeps each of them.                *)

LoginIsOpen == waitingWelcome => \A b \in issued : b.key # Login

Unheard == \A x \in Items : contents[x] = None /\ userTexts[x] = None

LEMMA AccountParts ==
  ASSUME AccountInd
  PROVE  /\ LoopInd /\ MapperInd /\ GateInd /\ Stream!StreamTypeOK /\ RuntimeTypeOK
         /\ waitingWelcome \in BOOLEAN /\ greetingPending \in BOOLEAN
         /\ openingBootstrap \in BOOLEAN /\ bootstrap \subseteq Items
         /\ uiJobs \subseteq CallIDs /\ answer \in Answers
         /\ used \cap Inputs \subseteq usedInputs \cup {Opening}
         /\ Running => FeedShape /\ StagedIsLive /\ Guarded /\ AppJobsRun
         /\ GreetingIsUnderWay /\ LoginIsOpen
         /\ openingBootstrap => Unheard
         /\ pending # Nil => askedOn = stream
  BY LoopParts DEF AccountInd, AccountTypeOK, LoginIsOpen, BootstrapIsUnheard, Unheard

LEMMA AccountPartsNext ==
  ASSUME LoopInd',
         waitingWelcome' \in BOOLEAN, greetingPending' \in BOOLEAN,
         openingBootstrap' \in BOOLEAN, bootstrap' \subseteq Items,
         uiJobs' \subseteq CallIDs, answer' \in Answers,
         used' \cap Inputs \subseteq usedInputs' \cup {Opening},
         Running' => AppJobsRun',
         GreetingIsUnderWay', LoginIsOpen',
         openingBootstrap' => Unheard',
         pending' # Nil => askedOn' = stream'
  PROVE  AccountInd'
  BY DEF AccountInd, AccountTypeOK, LoginIsOpen, BootstrapIsUnheard, Unheard, LoopInd

(* The greeting stays under way as long as the client is not told that it  *)
(* is over.                                                                *)
LEMMA GreetingKept ==
  ASSUME AccountInd, Running, Greeted, greetingPending' = GreetingAfter, TurnKept,
         stream' \in {stream, stream + 1}
  PROVE  GreetingIsUnderWay' /\ greetingPending' \in BOOLEAN
  <1>0. greetingPending' \in BOOLEAN
    BY AccountParts DEF GreetingAfter
  <1>1. ASSUME Running', stream' = 0, greetingPending' = TRUE
        PROVE  turnID' = Opening /\ state' = "responding"
    <2>1. stream \in Nat
      BY AccountParts, RuntimeAssumption DEF RuntimeTypeOK
    <2>2. stream = 0 /\ stream' = stream
      BY <1>1, <2>1
    <2>3. greetingPending /\ ~Over(Opening)
      BY <1>1 DEF GreetingAfter, Over
    <2>4. turnID = Opening /\ state = "responding"
      BY <2>2, <2>3, AccountParts DEF GreetingIsUnderWay
    <2> QED BY <1>1, <2>2, <2>3, <2>4, AccountConstants DEF TurnKept
  <1> QED BY <1>0, <1>1 DEF GreetingIsUnderWay

LEMMA AskedOnThisStream ==
  ASSUME GateInd', pending # Nil => askedOn = stream,
         pending' # Nil => stream' = stream,
         askedOn' = IF NewQuestion THEN stream ELSE askedOn
  PROVE  pending' # Nil => askedOn' = stream'
  BY QuestionStays

\* Neither the running jobs nor those of the past hold a login more than before.
NoLoginBegun ==
    /\ \A a \in active' \ active : a.job.key # Login
    /\ \A j \in issued' \ issued : j.key # Login

(* The three properties of a step, of the jobs it starts. *)
StartedWell ==
    \A a \in Started :
      /\ a.job.key = Login =>
           /\ \A b \in issued : b.key # Login
           /\ \/ feed' = feed /\ a.job.turn = Opening
              \/ answer = "yes" /\ a.job.turn = heard.turn
      /\ a.job.id \notin uiJobs' => a.job.turn = turnID /\ turnID \notin cancelled
      /\ a.job.confirmed => askedOn = stream

(* A handler of the personal assistant, as the account runs it. *)
LEMMA SharedStep ==
  ASSUME AccountInd, Running, Greeted, Kept, NoLoginBegun,
         greetingPending' = GreetingAfter,
         askedOn' = IF NewQuestion THEN stream ELSE askedOn,
         UNCHANGED <<waitingWelcome, uiJobs>>, answer' \in Answers, bootstrap' \subseteq Items,
         openingBootstrap' \in BOOLEAN, openingBootstrap' => openingBootstrap /\ Unheard'
  PROVE  AccountInd' /\ StartedWell
  <1>1. /\ LoopInd' /\ used' \subseteq used \cup Generated /\ usedInputs' = usedInputs
        /\ active \subseteq active' /\ stream' \in {stream, stream + 1} /\ TurnKept
        /\ pending' # Nil => stream' = stream
    BY DEF Kept
  <1>2. GreetingIsUnderWay' /\ greetingPending' \in BOOLEAN
    BY <1>1, GreetingKept
  <1>3. GateInd' /\ (pending' # Nil => askedOn' = stream')
    BY <1>1, AccountParts, AskedOnThisStream DEF LoopInd
  <1>4. used' \cap Inputs \subseteq usedInputs' \cup {Opening}
    BY <1>1, AccountParts, MapperConstants
  <1>5. AppJobsRun'
    BY <1>1, AccountParts DEF AppJobsRun
  <1>6. LoginIsOpen'
    BY AccountParts DEF LoginIsOpen, NoLoginBegun
  <1>7. StartedWell
    BY AccountParts DEF StartedWell, Started, NoLoginBegun, Kept, NewJobs
  <1> QED BY <1>1, <1>2, <1>3, <1>4, <1>5, <1>6, <1>7, AccountParts, AccountPartsNext

-----------------------------------------------------------------------------
(* Handlers of the personal assistant that the account wraps.              *)

LEMMA UnheardStays ==
  ASSUME Unheard, UNCHANGED <<contents, userTexts>>
  PROVE  Unheard'
  BY DEF Unheard

LEMMA NoJobs ==
  ASSUME UNCHANGED <<active, issued>>
  PROVE  NoLoginBegun
  BY DEF NoLoginBegun

LEMMA GateLeavesJobs ==
  /\ UNCHANGED gateVars => issued' = issued
  /\ Gate!Interrupt => issued' = issued
  /\ Gate!Tick => issued' = issued
  /\ \A op, yes : Gate!Confirm(op, yes) => issued' = issued
  /\ \A t, u : Gate!ObserveUser(t, u) => issued' = issued
  BY DEF gateVars, Gate!Interrupt, Gate!Tick, Gate!Confirm, Gate!ObserveUser, Gate!Hear

LEMMA RotateSilent ==
  ASSUME NEW said, Rotate(said), Unheard
  PROVE  Unheard' /\ UNCHANGED <<active, issued>>
  <1>1. contents' = [c \in Contents |-> None] /\ userTexts' = userTexts
    BY DEF Rotate, Reopen, Mapper!Replace, Mapper!NoContents
  <1>2. UNCHANGED <<active, issued>>
    BY GateLeavesJobs DEF Rotate, WithdrawConsent
  <1> QED BY <1>1, <1>2 DEF Unheard, Contents

SilentStep ==
    \/ TurnTimeout \/ Renew \/ SessionStop \/ Lost \/ TimePasses \/ Receive
    \/ \E id \in Inputs : TurnCommit(id)
    \/ \E id \in Mapper!TurnIds : TurnCancel(id)

(* The timers, the commands and the provider's messages start no job, and  *)
(* nothing is heard by them.                                               *)
LEMMA SilentKept ==
  ASSUME LoopInd, SilentStep
  PROVE  Running /\ Kept /\ UNCHANGED <<active, issued>> /\ (Unheard => Unheard')
  <1>1. CASE TurnTimeout
    <2>1. UNCHANGED <<active, contents, userTexts, gateVars>> /\ Running
      BY <1>1 DEF TurnTimeout, Mapper!Interrupt
    <2> QED BY <1>1, <2>1, GateLeavesJobs, UnheardStays, TimeoutKept
  <1>2. CASE Renew
    <2>1. \/ Rotate(Mapper!InterruptEvents)
          \/ UNCHANGED <<active, mapperVars, userTexts, gateVars>>
      BY <1>2 DEF Renew
    <2>2. CASE Rotate(Mapper!InterruptEvents)
      <3>1. Running /\ UNCHANGED <<active, issued>>
        BY <1>2, <2>2, GateLeavesJobs DEF Renew, Rotate, WithdrawConsent
      <3> QED BY <1>2, <2>2, <3>1, RotateSilent, RenewKept
    <2>3. CASE UNCHANGED <<active, mapperVars, userTexts, gateVars>>
      <3>1. Running /\ contents' = contents
        BY <1>2, <2>3 DEF Renew, mapperVars
      <3> QED BY <1>2, <2>3, <3>1, GateLeavesJobs, UnheardStays, RenewKept
    <2> QED BY <2>1, <2>2, <2>3
  <1>3. CASE SessionStop \/ Lost \/ TimePasses \/ Receive \/ \E id \in Inputs : TurnCommit(id)
    <2>1. /\ Running /\ UNCHANGED <<active, mapperVars, userTexts>>
          /\ UNCHANGED gateVars \/ Gate!Tick
      BY <1>3 DEF SessionStop, Lost, TimePasses, Receive, TurnCommit, runtimeVars
    <2>2. contents' = contents
      BY <2>1 DEF mapperVars
    <2>3. Kept
      BY <1>3, EndKept, ClockKept, ReceiveKept, CommitKept
    <2> QED BY <2>1, <2>2, <2>3, GateLeavesJobs, UnheardStays
  <1>4. ASSUME NEW id \in Mapper!TurnIds, TurnCancel(id)
        PROVE  Running /\ Kept /\ UNCHANGED <<active, issued>> /\ (Unheard => Unheard')
    <2>1. Running /\ Kept
      BY <1>4, CancelKept DEF TurnCancel
    <2>2. CASE active # {}
      <3>1. UNCHANGED <<active, contents, userTexts, gateVars>>
        BY <1>4, <2>2 DEF TurnCancel, Mapper!Interrupt
      <3> QED BY <2>1, <3>1, GateLeavesJobs, UnheardStays
    <2>3. CASE Rotate(Mapper!InterruptEvents)
      <3>1. UNCHANGED <<active, issued>>
        BY <2>3, GateLeavesJobs DEF Rotate, WithdrawConsent
      <3> QED BY <2>1, <2>3, <3>1, RotateSilent
    <2> QED BY <1>4, <2>2, <2>3 DEF TurnCancel
  <1> QED BY <1>1, <1>2, <1>3, <1>4 DEF SilentStep

(* The content of anything but a user item leaves the user items alone. *)
LEMMA ItemsUntouched ==
  ASSUME MapperInd, NEW c \in Contents \ Items,
         \/ \E kind \in {"audio", "final", "tool"} : Mapper!OutputStarts(c, kind)
         \/ \E fits, empty \in BOOLEAN : Mapper!TextOutput(c, fits, empty)
         \/ \E valid \in BOOLEAN : Mapper!AudioOutput(c, valid)
         \/ Mapper!ToolUse(c)
         \/ Mapper!ContentEnd(c, "other", TRUE)
  PROVE  \A x \in Items : contents'[x] = contents[x]
  <1>0. contents \in [Contents -> Mapper!OpenContents \cup {None}]
    BY DEF MapperInd, Mapper!MapperTypeOK
  <1> DEFINE Same == \A x \in Items : contents'[x] = contents[x]
  <1>1. ASSUME contents' = contents PROVE Same
    BY <1>1
  <1>2. ASSUME NEW v, contents' = [contents EXCEPT ![c] = v] PROVE Same
    BY <1>0, <1>2 DEF Contents
  <1>3. ASSUME NEW v, contents' = [contents EXCEPT ![c].text = v] PROVE Same
    BY <1>0, <1>3 DEF Contents
  <1> HIDE DEF Same
  <1>4. ASSUME Mapper!Nothing \/ Mapper!ProviderError PROVE Same
    BY <1>1, <1>4 DEF Mapper!Nothing, Mapper!ProviderError
  <1>5. ASSUME NEW kind \in {"audio", "final", "tool"}, Mapper!OutputStarts(c, kind) PROVE Same
    <2>1. CASE ~(Mapper!Nothing \/ Mapper!ProviderError)
      <3>1. contents' = [contents EXCEPT ![c] = [turn |-> turnID, kind |-> kind, text |-> FALSE]]
        BY <1>5, <2>1 DEF Mapper!OutputStarts
      <3> QED BY <1>2, <3>1
    <2> QED BY <1>4, <2>1
  <1>6. ASSUME NEW fits \in BOOLEAN, NEW empty \in BOOLEAN, Mapper!TextOutput(c, fits, empty)
        PROVE  Same
    BY <1>3, <1>4, <1>6 DEF Mapper!TextOutput
  <1>7. ASSUME \/ \E valid \in BOOLEAN : Mapper!AudioOutput(c, valid)
               \/ Mapper!ToolUse(c)
        PROVE  Same
    BY <1>1, <1>4, <1>7 DEF Mapper!AudioOutput, Mapper!ToolUse
  <1>8. ASSUME Mapper!ContentEnd(c, "other", TRUE) PROVE Same
    BY <1>2, <1>4, <1>8 DEF Mapper!ContentEnd
  <1>9. Same
    BY <1>5, <1>6, <1>7, <1>8
  <1> QED BY <1>9 DEF Same

(* What every step of the account's loop does to the greeting and to the   *)
(* note of the stream a question is put on.                                *)
Framed ==
    /\ greetingPending' = GreetingAfter
    /\ askedOn' = IF NewQuestion THEN stream ELSE askedOn

LEMMA SilentAccountStep ==
  ASSUME AccountInd, Greeted, Framed, SilentStep, UNCHANGED openingVars
  PROVE  AccountInd' /\ StartedWell
  <1>1. Running /\ Kept /\ UNCHANGED <<active, issued>> /\ (Unheard => Unheard')
    BY AccountParts, SilentKept
  <1>2. UNCHANGED <<waitingWelcome, openingBootstrap, bootstrap, uiJobs, answer>>
    BY DEF openingVars
  <1> QED BY <1>1, <1>2, AccountParts, NoJobs, SharedStep DEF Framed

(* An event the account heeds, of the stream's. *)
LEMMA HeededStep ==
  ASSUME AccountInd, Running, Greeted, Framed, Heeded, Kept, NoLoginBegun,
         UNCHANGED <<waitingWelcome, uiJobs>>, answer' \in Answers,
         openingBootstrap' => Unheard'
  PROVE  AccountInd' /\ StartedWell
  <1>1. bootstrap' = bootstrap /\ openingBootstrap' \in BOOLEAN
        /\ (openingBootstrap' => openingBootstrap)
    BY AccountParts DEF Heeded
  <1> QED BY <1>1, AccountParts, SharedStep DEF Framed

(* Before the provider speaks it opens no item that is heeded. *)
LEMMA HeededBeforeSpeech ==
  ASSUME AccountInd, Heeded, openingBootstrap'
  PROVE  /\ Unheard /\ feed # <<>>
         /\ Head(feed).kind \notin {"interrupted", "start_audio", "start_text"}
         /\ ~(Head(feed).kind = "start" /\ Head(feed).about \in Items)
  BY AccountParts DEF Heeded, Bootstrap

\* An item that is not open is not live: its text and its end do nothing.
LEMMA ItemNotLive ==
  ASSUME Unheard, NEW x \in Items
  PROVE  ~Mapper!Live(x)
  BY DEF Unheard, Mapper!Live

LEMMA NotItems ==
  /\ \A p \in Parts : p \in Contents \ Items
  /\ \A c \in Calls : c[1] \in Contents \ Items
  BY StreamConstants DEF Contents, Calls

LEMMA PlainUnheard ==
  ASSUME AccountInd, Heeded, openingBootstrap', Plain
  PROVE  Unheard'
  <1>0. Unheard /\ MapperInd /\ userTexts' = userTexts
    BY AccountParts, HeededBeforeSpeech DEF Plain, NoTools
  <1>1. CASE \/ Take("completionEnd") /\ Mapper!CompletionEnd
             \/ Take("error") /\ Mapper!ProviderError
             \/ Take("audio") /\ \E valid \in BOOLEAN : Mapper!AudioOutput(About, valid)
    <2>1. contents' = contents
      BY <1>1 DEF Mapper!CompletionEnd, Mapper!ProviderError, Mapper!AudioOutput, Mapper!Nothing
    <2> QED BY <1>0, <2>1, UnheardStays
  <1>2. CASE /\ About \in Parts
             /\ \/ \E fits, empty \in BOOLEAN : Mapper!TextOutput(About, fits, empty)
                \/ Mapper!ContentEnd(About, "other", TRUE)
    <2>1. \A x \in Items : contents'[x] = contents[x]
      BY <1>0, <1>2, NotItems, ItemsUntouched
    <2> QED BY <1>0, <2>1 DEF Unheard
  <1>3. ~Take("interrupted") /\ ~(Take("start") /\ About \in Items)
    BY HeededBeforeSpeech DEF Take, About
  <1> QED BY <1>1, <1>2, <1>3 DEF Plain

LEMMA HeardUnheard ==
  ASSUME AccountInd, Heeded, openingBootstrap', UserText \/ UserEnd
  PROVE  Unheard'
  <1>0. Unheard /\ About \in Items
    BY HeededBeforeSpeech DEF UserText, UserEnd
  <1>1. ~Mapper!Live(About) /\ userTexts[About] = None
    BY <1>0, ItemNotLive DEF Unheard
  <1>2. Mapper!Nothing
    BY <1>1 DEF UserText, UserEnd, Mapper!TextOutput, Mapper!ContentEnd
  <1>3. contents' = contents /\ userTexts' = userTexts
    BY <1>1, <1>2 DEF Mapper!Nothing, UserText, UserEnd
  <1> QED BY <1>0, <1>3, UnheardStays

LEMMA OutputUnheard ==
  ASSUME AccountInd, Heeded, openingBootstrap', OutputBegins, userTexts' = userTexts
  PROVE  Unheard'
  <1>0. Unheard /\ MapperInd
    BY AccountParts, HeededBeforeSpeech
  <1>1. About \in Calls /\ Mapper!OutputStarts(About[1], "tool")
    BY HeededBeforeSpeech DEF OutputBegins, Take
  <1>2. \A x \in Items : contents'[x] = contents[x]
    BY <1>0, <1>1, NotItems, ItemsUntouched
  <1> QED BY <1>0, <1>2 DEF Unheard

LEMMA ToolUseUnheard ==
  ASSUME AccountInd, Heeded, openingBootstrap', ToolUse
  PROVE  Unheard'
  <1>1. contents' = contents /\ userTexts' = userTexts
    BY DEF ToolUse, Mapper!ToolUse, Mapper!Nothing
  <1> QED BY <1>1, HeededBeforeSpeech, UnheardStays

LEMMA CallEndUnheard ==
  ASSUME AccountInd, Heeded, openingBootstrap', About \in Calls,
         Mapper!ContentEnd(About[1], "other", TRUE), userTexts' = userTexts
  PROVE  Unheard'
  <1>0. Unheard /\ MapperInd
    BY AccountParts, HeededBeforeSpeech
  <1>1. \A x \in Items : contents'[x] = contents[x]
    BY <1>0, NotItems, ItemsUntouched
  <1> QED BY <1>0, <1>1 DEF Unheard

-----------------------------------------------------------------------------
(* The stream's events, as the account takes them.                         *)

LEMMA AccountPlainStep ==
  ASSUME AccountInd, Greeted, Framed, AccountPlain
  PROVE  AccountInd' /\ StartedWell
  <1>1. /\ Heeded /\ (Plain \/ UserText \/ ToolUse)
        /\ UNCHANGED <<waitingWelcome, uiJobs>> /\ answer' = answer
    BY DEF AccountPlain
  <1>2. LoopInd /\ answer' \in Answers
    BY <1>1, AccountParts
  <1>3. Kept
    BY <1>1, <1>2, PlainKept, UserTextKept, ToolUseKept
  <1>4. UNCHANGED <<active, gateVars>> /\ Running
    BY <1>1 DEF Plain, UserText, ToolUse, NoTools, Take
  <1>5. NoLoginBegun
    BY <1>4, GateLeavesJobs, NoJobs
  <1>6. openingBootstrap' => Unheard'
    BY <1>1, PlainUnheard, HeardUnheard, ToolUseUnheard
  <1> QED BY <1>1, <1>2, <1>3, <1>4, <1>5, <1>6, HeededStep

LEMMA AccountUserEndStep ==
  ASSUME AccountInd, Greeted, Framed, AccountUserEnd
  PROVE  AccountInd' /\ StartedWell
  <1>1. Heeded /\ UserEnd /\ UNCHANGED <<waitingWelcome, uiJobs>> /\ answer' \in Answers
    BY AccountParts DEF AccountUserEnd
  <1>2. Kept
    BY <1>1, AccountParts, UserEndKept
  <1>3. UNCHANGED <<active, gateVars>> /\ Running
    BY <1>1 DEF UserEnd, Take
  <1>4. NoLoginBegun
    BY <1>3, GateLeavesJobs, NoJobs
  <1>5. openingBootstrap' => Unheard'
    BY <1>1, HeardUnheard
  <1> QED BY <1>1, <1>2, <1>3, <1>4, <1>5, HeededStep

LEMMA AccountOutputStep ==
  ASSUME AccountInd, Greeted, Framed, Heeded, OutputStart,
         UNCHANGED <<waitingWelcome, uiJobs, answer>>
  PROVE  AccountInd' /\ StartedWell
  <1>1. Kept
    BY AccountParts, OutputStartKept
  <1>2. UNCHANGED gateVars \/ \E t, u : Gate!ObserveUser(t, u)
    BY DEF OutputStart, Observe
  <1>3. UNCHANGED <<active, userTexts>> /\ Running
    BY DEF OutputStart, OutputBegins, Take
  <1>4. NoLoginBegun
    BY <1>2, <1>3, GateLeavesJobs, NoJobs
  <1>5. openingBootstrap' => Unheard'
    BY <1>3, OutputUnheard DEF OutputStart
  <1>6. answer' \in Answers
    BY AccountParts
  <1> QED BY <1>1, <1>3, <1>4, <1>5, <1>6, HeededStep

LEMMA AccountToolEndStep ==
  ASSUME AccountInd, Greeted, Framed, AccountToolEnd
  PROVE  AccountInd' /\ StartedWell
  <1>1. Heeded /\ UNCHANGED <<waitingWelcome, uiJobs>> /\ answer' \in Answers /\ LoopInd
    BY AccountParts DEF AccountToolEnd
  <1>2. CASE (ForTheModel(staged.key) \/ Void) /\ ToolEnd
    <2>1. Kept
      BY <1>1, <1>2, ToolEndKept
    <2>2. NoLoginBegun
      BY <1>2, <2>1 DEF Kept, NewJobs, ForTheModel, NoLoginBegun
    <2>3. /\ Running /\ About \in Calls /\ Mapper!ContentEnd(About[1], "other", TRUE)
          /\ userTexts' = userTexts
      BY <1>2 DEF ToolEnd, Take
    <2>4. openingBootstrap' => Unheard'
      BY <1>1, <2>3, CallEndUnheard
    <2> QED BY <1>1, <2>1, <2>2, <2>3, <2>4, HeededStep
  <1>3. CASE ~((ForTheModel(staged.key) \/ Void) /\ ToolEnd)
    <2>1. /\ Take("end") /\ About \in Calls
          /\ Mapper!ContentEnd(About[1], "other", TRUE)
          /\ Emit /\ staged' = NothingStaged
          /\ UNCHANGED <<gateVars, active>> /\ UNCHANGED <<userTexts, heard>>
      BY <1>3 DEF AccountToolEnd, Calls
    <2>2. Kept
      BY <1>1, <2>1, CallEndKept
    <2>3. NoLoginBegun
      BY <2>1, GateLeavesJobs, NoJobs
    <2>4. Running /\ (openingBootstrap' => Unheard')
      BY <1>1, <2>1, CallEndUnheard DEF Take
    <2> QED BY <1>1, <2>2, <2>3, <2>4, HeededStep
  <1> QED BY <1>2, <1>3

LEMMA DropBootstrapStep ==
  ASSUME AccountInd, Greeted, Framed, DropBootstrap
  PROVE  AccountInd' /\ StartedWell
  <1>0. /\ LoopInd /\ MapperInd /\ GateInd /\ Stream!StreamTypeOK /\ RuntimeTypeOK
        /\ Running /\ FeedShape /\ StagedIsLive /\ Guarded /\ bootstrap \subseteq Items
    BY AccountParts DEF DropBootstrap
  <1>1. /\ feed # <<>> /\ feed' = Tail(feed) /\ Bootstrap(Head(feed))
        /\ UNCHANGED <<openItems, openParts, mapperVars, gateVars, waitingWelcome, openingBootstrap, uiJobs, answer>>
        /\ UNCHANGED <<inputID, usedInputs, timer, userTexts, heard, staged, active, stream, ended>>
    BY DEF DropBootstrap, runtimeVars
  <1>2. Head(feed).about \notin Calls
    <2>1. CASE Head(feed).kind = "interrupted"
      BY <1>0, <1>1, <2>1, KindsOfACall
    <2>2. CASE Head(feed).about \in Items
      BY <2>2, StreamConstants
    <2> QED BY <1>0, <1>1, <2>1, <2>2 DEF Bootstrap
  <1>3. FeedShape' /\ Stream!StreamTypeOK'
    BY <1>0, <1>1, <1>2, TakePlain, TakeType, StagedCall
  <1>4. MapperInd' /\ UNCHANGED <<turnID, state, cancelled, used, contents>>
    BY <1>0, <1>1, MapperStutter
  <1>5. GateInd' /\ UNCHANGED <<pending, issued>>
    BY <1>0, <1>1, GateStutter
  <1>6. RuntimeTypeOK' /\ Running' /\ StagedIsLive' /\ Guarded'
    BY <1>0, <1>1, <1>4, StagedStays DEF RuntimeTypeOK, Running, Guarded
  <1>7. LoopInd'
    BY <1>3, <1>4, <1>5, <1>6, LoopPartsNext
  <1>8. Kept
    BY <1>0, <1>1, <1>4, <1>5, <1>7 DEF Kept, NewJobs, TurnKept
  <1>9. bootstrap' \subseteq Items
    BY <1>0 DEF DropBootstrap, Bootstrap
  <1>10. openingBootstrap' => openingBootstrap /\ Unheard'
    BY <1>1, <1>4, AccountParts, UnheardStays
  <1> QED BY <1>0, <1>1, <1>4, <1>5, <1>8, <1>9, <1>10, AccountParts, NoJobs, SharedStep
          DEF Framed

-----------------------------------------------------------------------------
(* The opening.                                                            *)

LEMMA GreetStep ==
  ASSUME AccountInd, Framed, Greet
  PROVE  AccountInd' /\ StartedWell
  <1>0. /\ LoopInd /\ MapperInd /\ GateInd /\ Stream!StreamTypeOK /\ RuntimeTypeOK
        /\ Running => FeedShape /\ StagedIsLive /\ Guarded /\ AppJobsRun
        /\ LoginIsOpen
        /\ openingBootstrap => Unheard
        /\ pending # Nil => askedOn = stream
    BY AccountParts
  <1>1. /\ used = {} /\ Mapper!StartAssistant(Opening) /\ timer' = TimerAfter(timer)
        /\ UNCHANGED <<streamVars, gateVars>>
        /\ UNCHANGED <<inputID, usedInputs, userTexts, heard, staged, active, stream, ended>>
        /\ UNCHANGED <<waitingWelcome, openingBootstrap, bootstrap, uiJobs, answer>>
    BY DEF Greet, Greeted, openingVars
  <1>2. MapperInd' /\ Timed /\ used' = {Opening} /\ turnID' = Opening /\ state' = "responding"
    BY <1>0, <1>1, AccountConstants, StartAssistantStep
  <1>3. GateInd' /\ UNCHANGED <<pending, issued>>
    BY <1>0, <1>1, GateStutter
  <1>4. Stream!StreamTypeOK' /\ feed' = feed
    BY <1>0, <1>1, StreamStutter
  <1>5. timer' \in BOOLEAN /\ (Running' => Guarded')
    BY <1>0, <1>1, <1>2, TimerFollows DEF RuntimeTypeOK, Guarded, Running
  <1>6. RuntimeTypeOK'
    BY <1>0, <1>1, <1>5 DEF RuntimeTypeOK
  <1>7. Running' => FeedShape'
    BY <1>0, <1>1, <1>4, FeedStays DEF Running
  <1>8. Running' => StagedIsLive'
    <2>1. cancelled = {} /\ cancelled' = cancelled
      BY <1>0, <1>1 DEF MapperInd, Mapper!StartAssistant
    <2>2. Running' => staged.turn = None
      BY <1>0, <1>1 DEF StagedIsLive, Running
    <2> QED BY <1>1, <2>1, <2>2 DEF StagedIsLive
  <1>9. LoopInd'
    BY <1>2, <1>3, <1>4, <1>5, <1>6, <1>7, <1>8, LoopPartsNext
  <1>10. GreetingIsUnderWay'
    BY <1>2 DEF GreetingIsUnderWay
  <1>11. openingBootstrap' => Unheard'
    BY <1>0, <1>1, UnheardStays DEF Mapper!StartAssistant
  <1>12. used' \cap Inputs \subseteq usedInputs' \cup {Opening}
    BY <1>2
  <1>13. greetingPending' \in BOOLEAN
    BY AccountParts DEF Framed, GreetingAfter
  <1>14. pending' # Nil => askedOn' = stream'
    BY <1>0, <1>1, <1>3, AskedOnThisStream DEF Framed
  <1>15. LoginIsOpen' /\ (Running' => AppJobsRun')
    BY <1>0, <1>1, <1>3 DEF LoginIsOpen, AppJobsRun, Running
  <1>16. StartedWell
    BY <1>1 DEF StartedWell, Started
  <1> QED BY <1>1, <1>9, <1>10, <1>11, <1>12, <1>13, <1>14, <1>15, <1>16, AccountParts,
             AccountPartsNext

(* A step that starts or ends no job, and leaves what the account adds as  *)
(* it is, beside a new input.                                              *)
LEMMA InputStep ==
  ASSUME AccountInd, Framed, UNCHANGED openingVars, LoopInd', GreetingIsUnderWay',
         NEW id \in Inputs, used' = used \cup {id}, usedInputs' = usedInputs \cup {id},
         UNCHANGED <<active, issued, stream, pending, userTexts, contents>>, Running
  PROVE  AccountInd' /\ StartedWell
  <1>1. /\ GateInd' /\ UNCHANGED <<waitingWelcome, openingBootstrap, bootstrap, uiJobs, answer>>
    BY DEF openingVars, LoopInd
  <1>2. greetingPending' \in BOOLEAN
    BY AccountParts DEF Framed, GreetingAfter
  <1>3. pending' # Nil => askedOn' = stream'
    BY <1>1, AccountParts, AskedOnThisStream DEF Framed
  <1>4. LoginIsOpen' /\ AppJobsRun'
    BY <1>1, AccountParts DEF LoginIsOpen, AppJobsRun
  <1>5. openingBootstrap' => Unheard'
    BY <1>1, AccountParts, UnheardStays
  <1>6. StartedWell
    BY DEF StartedWell, Started
  <1>7. used' \cap Inputs \subseteq usedInputs' \cup {Opening}
    BY AccountParts
  <1> QED BY <1>1, <1>2, <1>3, <1>4, <1>5, <1>6, <1>7, AccountParts, AccountPartsNext

LEMMA AccountAudioStep ==
  ASSUME AccountInd, Greeted, Framed, NEW id \in Inputs, AccountAudio(id)
  PROVE  AccountInd' /\ StartedWell
  <1>0. /\ LoopInd /\ MapperInd /\ GateInd /\ Stream!StreamTypeOK /\ RuntimeTypeOK
        /\ Running => FeedShape /\ StagedIsLive /\ Guarded
        /\ used \cap Inputs \subseteq usedInputs \cup {Opening}
    BY AccountParts
  <1>1. id # Opening /\ UNCHANGED openingVars
    BY DEF AccountAudio
  <1>2. CASE ~greetingPending
    <2>0. AudioAppend(id)
      BY <1>2 DEF AccountAudio
    <2>1. id \notin used /\ Running
      BY <1>0, <1>1, <2>0 DEF AudioAppend
    <2>2. /\ LoopInd' /\ used' = used \cup {id} /\ usedInputs' = usedInputs \cup {id}
          /\ UNCHANGED <<active, issued, stream, pending, userTexts, contents>>
      BY <1>0, <2>0, <2>1, AudioKept
    <2>3. GreetingIsUnderWay'
      BY <1>2 DEF GreetingIsUnderWay, Framed, GreetingAfter
    <2> QED BY <1>1, <2>1, <2>2, <2>3, InputStep
  <1>3. CASE greetingPending
    <2>1. /\ Running /\ Mapper!QueueInput(id)
          /\ inputID' = id /\ usedInputs' = usedInputs \cup {id}
          /\ UNCHANGED <<streamVars, gateVars>>
          /\ UNCHANGED <<timer, userTexts, heard, staged, active, stream, ended>>
      BY <1>3 DEF AccountAudio
    <2>2. /\ MapperInd' /\ used' = used \cup {id} /\ turnID' = turnID
          /\ state' = state /\ cancelled' = cancelled /\ contents' = contents
      BY <1>0, <2>1, QueueInputStep DEF Mapper!QueueInput
    <2>3. GateInd' /\ UNCHANGED <<pending, issued>>
      BY <1>0, <2>1, GateStutter
    <2>4. Stream!StreamTypeOK' /\ feed' = feed
      BY <1>0, <2>1, StreamStutter
    <2>5. RuntimeTypeOK' /\ FeedShape' /\ Guarded'
      BY <1>0, <2>1, <2>2, <2>4, FeedStays DEF RuntimeTypeOK, Guarded
    <2>6. StagedIsLive'
      BY <1>0, <2>1, <2>2, StagedStays
    <2>7. LoopInd'
      BY <2>2, <2>3, <2>4, <2>5, <2>6, LoopPartsNext
    <2>8. GreetingIsUnderWay'
      BY <2>1, <2>2, GreetingKept DEF Framed, TurnKept
    <2> QED BY <1>1, <2>1, <2>2, <2>3, <2>7, <2>8, InputStep
  <1> QED BY <1>2, <1>3

-----------------------------------------------------------------------------
(* Jobs of the app: the gate.                                              *)

\* What a step may make of the gate's question and of what the user asked for.
Consents ==
    /\ pending' \in Gate!Pendings \cup {Nil}
    /\ pending' # Nil => Gate!ConfirmLater(pending'.key)
    /\ intent' \in [turn : Inputs \cup Generated \cup {None} \cup {Nil}, asks : Tools \cup {Nil}]

LEMMA ConsentsStay ==
  ASSUME GateInd, pending' \in {Nil, pending}, intent' = intent
  PROVE  Consents
  BY DEF GateInd, Gate!TypeOK, Consents

LEMMA ObservedConsents ==
  ASSUME GateInd, RuntimeTypeOK, ObservedConsent
  PROVE  Consents
  <1>1. pending' \in {Nil, pending}
    BY DEF ObservedConsent
  <1>2. heard.turn \in Inputs \cup Generated \cup {None} /\ heard.says \in Gate!Utterances
    BY DEF RuntimeTypeOK, Mapper!TurnIds
  <1>3. heard.says.says = "ask" => heard.says.tool \in Tools
    BY <1>2 DEF Gate!Utterances
  <1>4. intent' \in [turn : Inputs \cup Generated \cup {None} \cup {Nil}, asks : Tools \cup {Nil}]
    BY <1>2, <1>3 DEF ObservedConsent
  <1> QED BY <1>1, <1>4 DEF GateInd, Gate!TypeOK, Consents

LEMMA NoneStartedGate ==
  ASSUME GateInd, Consents, NoneStarted
  PROVE  GateInd' /\ UNCHANGED <<issued, active, uiJobs>>
  BY DEF GateInd, Consents, NoneStarted, Gate!TypeOK

LEMMA StartForAppGate ==
  ASSUME GateInd, RuntimeTypeOK, Consents, calls < MaxCalls,
         NEW id \in CallIDs, NEW k \in Keys, NEW t \in Mapper!TurnIds \cup {None},
         NEW confirmed \in BOOLEAN, StartForApp(id, k, t, confirmed)
  PROVE  LET job == [id |-> id, key |-> k, turn |-> t, confirmed |-> confirmed] IN
         /\ GateInd'
         /\ active' = active \cup {[job |-> job, stream |-> stream]}
         /\ active' \subseteq [job : Gate!Jobs, stream : Nat]
         /\ issued' = issued \cup {job}
         /\ uiJobs' = uiJobs \cup {id}
  <1> DEFINE job == [id |-> id, key |-> k, turn |-> t, confirmed |-> confirmed]
  <1>1. job \in Gate!Jobs
    BY DEF Gate!Jobs, Mapper!TurnIds
  <1>2. /\ Gate!Count(id, k)
        /\ attempted' = attempted \cup {k}
        /\ issued' = issued \cup {job}
        /\ active' = active \cup {[job |-> job, stream |-> stream]}
        /\ uiJobs' = uiJobs \cup {id}
        /\ UNCHANGED <<cache, now>>
    BY DEF StartForApp
  <1> HIDE DEF job
  <1>3. Gate!TypeOK /\ stream \in Nat
    BY RuntimeAssumption DEF GateInd, RuntimeTypeOK
  <1>4. seen' \in [CallIDs -> Keys \cup {Nil}] /\ calls' \in 0..MaxCalls
    BY <1>2, <1>3, CountTypes
  <1>5. attempted' \subseteq Keys /\ issued' \subseteq Gate!Jobs
        /\ cache' \in [Keys -> Gate!Results \cup {Nil}] /\ now' \in Nat
    BY <1>1, <1>2, <1>3 DEF Gate!TypeOK
  <1>6. GateInd'
    BY <1>4, <1>5 DEF Consents, GateInd, Gate!TypeOK
  <1>7. [job |-> job, stream |-> stream] \in [job : Gate!Jobs, stream : Nat]
    BY <1>1, <1>3
  <1>8. active' \subseteq [job : Gate!Jobs, stream : Nat]
    BY <1>2, <1>7 DEF RuntimeTypeOK
  <1> QED BY <1>2, <1>6, <1>8 DEF job

(* The step that runs what was confirmed starts that operation alone, and  *)
(* a question that stands stays the same question.                         *)
LEMMA ConfirmAndRunGate ==
  ASSUME GateInd, RuntimeTypeOK, NEW op \in CallIDs, ConfirmAndRun(op)
  PROVE  /\ GateInd' /\ active' \subseteq [job : Gate!Jobs, stream : Nat]
         /\ pending # Nil /\ Gate!ConfirmLater(pending.key)
         /\ \/ UNCHANGED <<active, issued, uiJobs>>
            \/ LET job == [id |-> op, key |-> pending.key, turn |-> pending.turn,
                           confirmed |-> TRUE] IN
               /\ active' = active \cup {[job |-> job, stream |-> stream]}
               /\ issued' = issued \cup {job}
               /\ uiJobs' = uiJobs \cup {op}
  <1>1. /\ pending # Nil /\ pending \in Gate!Pendings /\ Gate!ConfirmLater(pending.key)
        /\ intent' = intent
    BY DEF ConfirmAndRun, Gate!Confirmable, GateInd, Gate!TypeOK
  <1>2. pending.key \in Keys /\ pending.turn \in Mapper!TurnIds \cup {None}
    BY <1>1 DEF Gate!Pendings, Mapper!TurnIds
  <1>3. CASE calls < MaxCalls /\ now < pending.expires
    <2>1. pending' = Nil /\ StartForApp(op, pending.key, pending.turn, TRUE)
      BY <1>3 DEF ConfirmAndRun
    <2>2. Consents
      BY <1>1, <2>1, ConsentsStay
    <2> QED BY <1>1, <1>2, <1>3, <2>1, <2>2, StartForAppGate
  <1>4. CASE ~(calls < MaxCalls /\ now < pending.expires)
    <2>1. /\ pending' = [pending EXCEPT !.approved = TRUE]
          /\ IF calls < MaxCalls THEN Gate!Count(op, pending.key) ELSE UNCHANGED <<calls, seen>>
          /\ UNCHANGED <<attempted, issued, cache, now, active, uiJobs>>
      BY <1>4 DEF ConfirmAndRun
    <2>2. pending' \in Gate!Pendings /\ pending'.key = pending.key
      BY <1>1, <2>1 DEF Gate!Pendings
    <2>3. Gate!ConfirmLater(pending'.key)
      BY <1>1, <2>2
    <2>4. seen' \in [CallIDs -> Keys \cup {Nil}] /\ calls' \in 0..MaxCalls
      <3>1. CASE calls < MaxCalls
        BY <1>2, <2>1, <3>1, CountTypes DEF GateInd
      <3>2. CASE ~(calls < MaxCalls)
        BY <2>1, <3>2 DEF GateInd, Gate!TypeOK
      <3> QED BY <3>1, <3>2
    <2>5. Gate!TypeOK'
      BY <1>1, <2>1, <2>2, <2>4 DEF GateInd, Gate!TypeOK
    <2>6. active' \subseteq [job : Gate!Jobs, stream : Nat]
      BY <2>1 DEF RuntimeTypeOK
    <2> QED BY <1>1, <2>1, <2>3, <2>5, <2>6 DEF GateInd
  <1> QED BY <1>3, <1>4

LEMMA StoreAndWithdrawGate ==
  ASSUME GateInd, NEW j \in Gate!Jobs, NEW r \in Gate!Results, StoreAndWithdraw(j, r)
  PROVE  GateInd' /\ pending' = Nil /\ issued' = issued
  <1>1. Gate!TypeOK
    BY DEF GateInd
  <1>2. cache' \in [Keys -> Gate!Results \cup {Nil}]
    BY <1>1 DEF StoreAndWithdraw, Gate!TypeOK
  <1>3. intent' \in [turn : Inputs \cup Generated \cup {None} \cup {Nil}, asks : Tools \cup {Nil}]
    BY <1>1 DEF StoreAndWithdraw, Gate!TypeOK
  <1> QED BY <1>1, <1>2, <1>3 DEF StoreAndWithdraw, GateInd, Gate!TypeOK

-----------------------------------------------------------------------------
(* Jobs of the app: the loop.                                              *)

LEMMA QuietLoop ==
  ASSUME LoopInd, Running, UNCHANGED <<mapperVars, streamVars>>,
         UNCHANGED <<inputID, usedInputs, timer, userTexts, heard, staged, stream>>,
         GateInd', active' \subseteq [job : Gate!Jobs, stream : Nat],
         ended' \in Endings \cup {None}
  PROVE  LoopInd' /\ TurnKept /\ UNCHANGED <<used, contents, feed>>
  <1>0. /\ MapperInd /\ Stream!StreamTypeOK /\ RuntimeTypeOK
        /\ FeedShape /\ StagedIsLive /\ Guarded
    BY LoopParts
  <1>1. MapperInd' /\ UNCHANGED <<turnID, state, cancelled, used, contents>>
    BY <1>0, MapperStutter
  <1>2. Stream!StreamTypeOK' /\ feed' = feed
    BY <1>0, StreamStutter
  <1>3. RuntimeTypeOK' /\ FeedShape' /\ Guarded'
    BY <1>0, <1>1, <1>2, FeedStays DEF RuntimeTypeOK, Guarded
  <1>4. StagedIsLive'
    BY <1>0, <1>1, StagedStays
  <1>5. LoopInd'
    BY <1>1, <1>2, <1>3, <1>4, LoopPartsNext
  <1> QED BY <1>1, <1>2, <1>5 DEF TurnKept

\* A job of the app that starts is running.
LEMMA JobRuns ==
  ASSUME AppJobsRun, NEW job, active' = active \cup {[job |-> job, stream |-> stream]},
         uiJobs' = uiJobs \cup {job.id}
  PROVE  /\ AppJobsRun'
         /\ \A a \in Started : a.job = job
  <1>1. \A a \in Started : a.job = job
    BY DEF Started
  <1>2. ASSUME NEW i \in uiJobs' PROVE \E a \in active' : a.job.id = i
    <2>1. CASE i \in uiJobs
      BY <2>1 DEF AppJobsRun
    <2>2. CASE i = job.id
      <3> DEFINE a == [job |-> job, stream |-> stream]
      <3>1. a \in active' /\ a.job = job
        OBVIOUS
      <3> HIDE DEF a
      <3> QED BY <2>2, <3>1
    <2> QED BY <2>1, <2>2
  <1> QED BY <1>1, <1>2 DEF AppJobsRun

(* What the steps that may start a job of the app have in common. *)
LEMMA AppStep ==
  ASSUME AccountInd, Running, Greeted, Framed, LoopInd', TurnKept,
         used' \subseteq used \cup Generated, UNCHANGED <<usedInputs, stream, answer, bootstrap>>,
         waitingWelcome' \in BOOLEAN, LoginIsOpen',
         uiJobs' \subseteq CallIDs, Running' => AppJobsRun',
         openingBootstrap' \in BOOLEAN, openingBootstrap' => Unheard',
         pending' # Nil => pending # Nil
  PROVE  AccountInd'
  <1>1. GreetingIsUnderWay' /\ greetingPending' \in BOOLEAN
    BY GreetingKept DEF Framed
  <1>2. GateInd' /\ (pending' # Nil => askedOn' = stream')
    BY AccountParts, AskedOnThisStream DEF LoopInd, Framed
  <1>3. used' \cap Inputs \subseteq usedInputs' \cup {Opening}
    BY AccountParts, MapperConstants
  <1> QED BY <1>1, <1>2, <1>3, AccountParts, AccountPartsNext

(* The one login: it was not begun while its invitation stood, and the     *)
(* invitation does not stand after it.                                     *)
LEMMA BeginLoginStep ==
  ASSUME AccountInd, Consents, waitingWelcome, NEW t \in Mapper!TurnIds \cup {None},
         BeginLogin(t)
  PROVE  /\ GateInd' /\ active' \subseteq [job : Gate!Jobs, stream : Nat]
         /\ waitingWelcome' = FALSE /\ uiJobs' \subseteq CallIDs
         /\ AppJobsRun => AppJobsRun'
         /\ \A a \in Started :
              /\ a.job.key = Login => \A b \in issued : b.key # Login
              /\ a.job.id \in uiJobs' /\ a.job.turn = t /\ ~a.job.confirmed
  <1>0. GateInd /\ RuntimeTypeOK /\ LoginIsOpen /\ uiJobs \subseteq CallIDs
    BY AccountParts
  <1>1. waitingWelcome' = FALSE
    BY DEF BeginLogin, NoLongerWaiting
  <1>2. CASE Gate!Accepted(Welcome, Login)
    <2>1. calls < MaxCalls /\ StartForApp(Welcome, Login, t, FALSE)
      BY <1>2 DEF BeginLogin, Gate!Accepted
    <2> DEFINE job == [id |-> Welcome, key |-> Login, turn |-> t, confirmed |-> FALSE]
    <2>2. /\ GateInd' /\ active' \subseteq [job : Gate!Jobs, stream : Nat]
          /\ active' = active \cup {[job |-> job, stream |-> stream]}
          /\ uiJobs' = uiJobs \cup {Welcome}
      BY <1>0, <2>1, AccountConstants, StartForAppGate
    <2>3. job.id = Welcome /\ job.turn = t /\ ~job.confirmed
      OBVIOUS
    <2> HIDE DEF job
    <2>4. AppJobsRun => AppJobsRun'
      BY <2>2, <2>3, JobRuns
    <2>6. \A a \in Started : a.job = job
      BY <2>2 DEF Started
    <2>5. \A b \in issued : b.key # Login
      BY <1>0 DEF LoginIsOpen
    <2> QED BY <1>0, <1>1, <2>2, <2>3, <2>4, <2>5, <2>6, AccountConstants
  <1>3. CASE ~Gate!Accepted(Welcome, Login)
    <2>1. GateInd' /\ UNCHANGED <<issued, active, uiJobs>>
      BY <1>0, <1>3, NoneStartedGate DEF BeginLogin
    <2> QED BY <1>0, <1>1, <2>1 DEF AppJobsRun, Started, RuntimeTypeOK
  <1> QED BY <1>2, <1>3

(* The invitation is refused: the session stops. *)
LEMMA RefusedStep ==
  ASSUME AccountInd, Consents, NoneStarted, waitingWelcome' = waitingWelcome
  PROVE  /\ GateInd' /\ active' \subseteq [job : Gate!Jobs, stream : Nat]
         /\ UNCHANGED <<active, uiJobs>> /\ LoginIsOpen' /\ StartedWell
  <1>1. GateInd' /\ UNCHANGED <<issued, active, uiJobs>>
    BY AccountParts, NoneStartedGate
  <1> QED BY <1>1, AccountParts DEF LoginIsOpen, StartedWell, Started, RuntimeTypeOK

LEMMA ConfirmWelcomeStep ==
  ASSUME AccountInd, Greeted, Framed, NEW yes \in BOOLEAN, ConfirmWelcome(yes)
  PROVE  AccountInd' /\ StartedWell
  <1>0. /\ LoopInd /\ GateInd /\ Running /\ AppJobsRun /\ uiJobs \subseteq CallIDs
        /\ waitingWelcome
    BY AccountParts DEF ConfirmWelcome
  <1>1. /\ UNCHANGED <<mapperVars, streamVars>>
        /\ UNCHANGED <<inputID, usedInputs, timer, userTexts, heard, staged, stream>>
        /\ UNCHANGED <<pending, intent, openingBootstrap, bootstrap, answer>>
    BY DEF ConfirmWelcome
  <1>2. Consents
    BY <1>0, <1>1, ConsentsStay
  <1>3. ASSUME GateInd', active' \subseteq [job : Gate!Jobs, stream : Nat],
               ended' \in Endings \cup {None}, waitingWelcome' \in BOOLEAN, LoginIsOpen',
               uiJobs' \subseteq CallIDs, Running' => AppJobsRun'
        PROVE  AccountInd' /\ feed' = feed
    <2>1. LoopInd' /\ TurnKept /\ UNCHANGED <<used, contents, feed>>
      BY <1>0, <1>1, <1>3, QuietLoop
    <2>2. openingBootstrap' \in BOOLEAN /\ (openingBootstrap' => Unheard')
      BY <1>1, <2>1, AccountParts, UnheardStays
    <2> QED BY <1>0, <1>1, <1>3, <2>1, <2>2, AppStep
  <1>4. CASE BeginLogin(Opening) /\ ended' = ended
    <2>1. /\ GateInd' /\ active' \subseteq [job : Gate!Jobs, stream : Nat]
          /\ waitingWelcome' = FALSE /\ uiJobs' \subseteq CallIDs
          /\ AppJobsRun => AppJobsRun'
          /\ \A a \in Started :
               /\ a.job.key = Login => \A b \in issued : b.key # Login
               /\ a.job.id \in uiJobs' /\ a.job.turn = Opening /\ ~a.job.confirmed
      BY <1>0, <1>2, <1>4, AccountConstants, BeginLoginStep
    <2>2. AccountInd' /\ feed' = feed
      BY <1>0, <1>3, <1>4, <2>1 DEF LoginIsOpen, Running
    <2> QED BY <2>1, <2>2 DEF StartedWell
  <1>5. CASE ended' = "stopped" /\ NoneStarted /\ waitingWelcome' = waitingWelcome
    <2>1. /\ GateInd' /\ active' \subseteq [job : Gate!Jobs, stream : Nat]
          /\ UNCHANGED <<active, uiJobs>> /\ LoginIsOpen' /\ StartedWell
      BY <1>2, <1>5, RefusedStep
    <2>2. ended' \in Endings \cup {None} /\ ~Running'
      BY <1>5, RuntimeAssumption DEF Endings, Running
    <2> QED BY <1>0, <1>3, <1>5, <2>1, <2>2
  <1> QED BY <1>4, <1>5 DEF ConfirmWelcome

LEMMA AccountConfirmStep ==
  ASSUME AccountInd, Greeted, Framed, NEW op \in CallIDs, NEW yes \in BOOLEAN,
         AccountConfirm(op, yes)
  PROVE  AccountInd' /\ StartedWell
  <1>0. /\ LoopInd /\ GateInd /\ RuntimeTypeOK /\ Running /\ AppJobsRun /\ LoginIsOpen
        /\ uiJobs \subseteq CallIDs
        /\ pending # Nil => askedOn = stream
    BY AccountParts DEF AccountConfirm
  <1>1. /\ UNCHANGED <<mapperVars, streamVars>>
        /\ UNCHANGED <<inputID, usedInputs, timer, userTexts, heard, staged, stream, ended>>
        /\ UNCHANGED <<waitingWelcome, openingBootstrap, bootstrap, answer>>
    BY DEF AccountConfirm
  <1>2. CASE yes /\ Gate!Confirmable(op)
    <2>0. ConfirmAndRun(op)
      BY <1>2 DEF AccountConfirm
    <2> DEFINE job == [id |-> op, key |-> pending.key, turn |-> pending.turn, confirmed |-> TRUE]
    <2>1. /\ GateInd' /\ active' \subseteq [job : Gate!Jobs, stream : Nat]
          /\ pending # Nil /\ Gate!ConfirmLater(pending.key)
          /\ \/ UNCHANGED <<active, issued, uiJobs>>
             \/ /\ active' = active \cup {[job |-> job, stream |-> stream]}
                /\ issued' = issued \cup {job}
                /\ uiJobs' = uiJobs \cup {op}
      BY <1>0, <2>0, ConfirmAndRunGate
    <2>2. pending.key # Login
      BY <2>1, AccountConstants
    <2>3. LoopInd' /\ TurnKept /\ UNCHANGED <<used, contents, feed>>
      BY <1>0, <1>1, <2>1, QuietLoop DEF RuntimeTypeOK
    <2>4. openingBootstrap' \in BOOLEAN /\ (openingBootstrap' => Unheard')
      BY <1>1, <2>3, AccountParts, UnheardStays
    <2>5. LoginIsOpen' /\ AppJobsRun' /\ uiJobs' \subseteq CallIDs
      <3>1. job.id = op /\ job.key = pending.key
        OBVIOUS
      <3>2. CASE UNCHANGED <<active, issued, uiJobs>>
        BY <1>0, <1>1, <3>2 DEF LoginIsOpen, AppJobsRun
      <3>3. CASE /\ active' = active \cup {[job |-> job, stream |-> stream]}
                 /\ issued' = issued \cup {job}
                 /\ uiJobs' = uiJobs \cup {op}
        <4> HIDE DEF job
        <4>1. AppJobsRun'
          BY <1>0, <3>1, <3>3, JobRuns
        <4>2. LoginIsOpen'
          BY <1>0, <1>1, <2>2, <3>1, <3>3 DEF LoginIsOpen
        <4> QED BY <1>0, <3>3, <4>1, <4>2
      <3> QED BY <2>1, <3>2, <3>3
    <2>6. waitingWelcome' \in BOOLEAN
      BY <1>1, AccountParts
    <2>7. AccountInd'
      BY <1>0, <1>1, <2>1, <2>3, <2>4, <2>5, <2>6, AppStep
    <2>8. StartedWell
      BY <1>0, <2>1, <2>2 DEF StartedWell, Started
    <2> QED BY <2>7, <2>8
  <1>3. CASE ~(yes /\ Gate!Confirmable(op))
    <2>1. Gate!Confirm(op, yes) /\ UNCHANGED <<active, uiJobs>>
      BY <1>3 DEF AccountConfirm
    <2>2. ToolConfirm(op, yes)
      BY <1>0, <1>1, <2>1 DEF ToolConfirm, runtimeVars
    <2>3. Kept
      BY <1>0, <2>2, ClickKept
    <2>4. NoLoginBegun
      BY <2>1, GateLeavesJobs, NoJobs
    <2>5. contents' = contents
      BY <1>1 DEF mapperVars
    <2>6. openingBootstrap' => openingBootstrap /\ Unheard'
      BY <1>1, <2>5, AccountParts, UnheardStays
    <2> QED BY <1>0, <1>1, <2>1, <2>3, <2>4, <2>6, AccountParts, SharedStep DEF Framed
  <1> QED BY <1>2, <1>3

LEMMA AnsweredByVoiceStep ==
  ASSUME AccountInd, Greeted, Framed, AnsweredByVoice
  PROVE  AccountInd' /\ StartedWell
  <1>0. /\ LoopInd /\ GateInd /\ RuntimeTypeOK /\ uiJobs \subseteq CallIDs /\ bootstrap \subseteq Items
        /\ waitingWelcome /\ Heeded /\ OutputBegins /\ ObservedConsent /\ ~err'
        /\ timer' = TimerAfter(timer) /\ UNCHANGED <<userTexts, heard, staged, answer>>
    BY AccountParts DEF AnsweredByVoice, Answered
  <1>1. /\ Running /\ staged = NothingStaged /\ Stream!StreamTypeOK' /\ FeedShape' /\ MapperStep
        /\ UNCHANGED <<inputID, usedInputs, stream>>
    BY <1>0, OutputBeginsStep
  <1>2. AppJobsRun /\ (state = "responding" => timer)
    BY <1>1, AccountParts DEF Guarded
  <1>3. timer' \in BOOLEAN /\ (state' = "responding" => timer')
    BY <1>0, <1>1, <1>2, TimerFollows DEF RuntimeTypeOK, MapperStep
  <1>4. TurnKept
    BY <1>0, <1>1 DEF TurnKept, MapperStep, Announced
  <1>5. Consents
    BY <1>0, ObservedConsents
  <1>6. /\ heard.turn \in Mapper!TurnIds \cup {None}
        /\ pending' # Nil => pending # Nil
    BY <1>0 DEF RuntimeTypeOK, ObservedConsent
  <1>7. /\ bootstrap' = bootstrap /\ openingBootstrap' \in BOOLEAN
        /\ openingBootstrap' => Unheard'
    BY <1>0, AccountParts, OutputUnheard DEF Heeded
  <1>8. ASSUME GateInd', active' \subseteq [job : Gate!Jobs, stream : Nat],
               ended' \in Endings \cup {None}, waitingWelcome' \in BOOLEAN, LoginIsOpen',
               uiJobs' \subseteq CallIDs, Running' => AppJobsRun'
        PROVE  AccountInd'
    <2>1. RuntimeTypeOK'
      BY <1>0, <1>1, <1>3, <1>8 DEF RuntimeTypeOK
    <2>2. StagedIsLive' /\ Guarded'
      BY <1>0, <1>1, <1>3, NothingIsLive DEF Guarded
    <2>3. LoopInd' /\ used' \subseteq used \cup Generated
      BY <1>1, <1>8, <2>1, <2>2, LoopPartsNext DEF MapperStep
    <2> QED BY <1>0, <1>1, <1>4, <1>6, <1>7, <1>8, <2>3, AppStep
  <1>9. CASE answer = "yes" /\ BeginLogin(heard.turn) /\ ended' = ended
    <2>1. /\ GateInd' /\ active' \subseteq [job : Gate!Jobs, stream : Nat]
          /\ waitingWelcome' = FALSE /\ uiJobs' \subseteq CallIDs
          /\ AppJobsRun => AppJobsRun'
          /\ \A a \in Started :
               /\ a.job.key = Login => \A b \in issued : b.key # Login
               /\ a.job.id \in uiJobs' /\ a.job.turn = heard.turn /\ ~a.job.confirmed
      BY <1>0, <1>5, <1>6, <1>9, BeginLoginStep
    <2>2. AccountInd'
      BY <1>1, <1>2, <1>8, <1>9, <2>1 DEF LoginIsOpen, Running
    <2>3. StartedWell
      BY <1>9, <2>1 DEF StartedWell
    <2> QED BY <2>2, <2>3
  <1>10. CASE answer = "no" /\ ended' = "stopped" /\ NoneStarted /\ waitingWelcome' = waitingWelcome
    <2>1. /\ GateInd' /\ active' \subseteq [job : Gate!Jobs, stream : Nat]
          /\ UNCHANGED <<active, uiJobs>> /\ LoginIsOpen' /\ StartedWell
      BY <1>5, <1>10, RefusedStep
    <2>2. ended' \in Endings \cup {None} /\ ~Running'
      BY <1>10, RuntimeAssumption DEF Endings, Running
    <2> QED BY <1>0, <1>8, <1>10, <2>1, <2>2
  <1> QED BY <1>9, <1>10 DEF AnsweredByVoice

LEMMA ModelJobFinishedStep ==
  ASSUME AccountInd, Greeted, Framed, NEW a \in active, NEW r \in Gate!Results,
         ModelJobFinished(a, r)
  PROVE  AccountInd' /\ StartedWell
  <1>0. LoopInd /\ a.job.id \notin uiJobs /\ ToolFinished(a, r) /\ Running
        /\ UNCHANGED <<waitingWelcome, openingBootstrap, bootstrap, uiJobs, answer>>
    BY AccountParts DEF ModelJobFinished, ToolFinished, openingVars
  <1>1. /\ LoopInd' /\ active' = active \ {a}
        /\ UNCHANGED <<issued, pending, stream, used, usedInputs, turnID, state, contents, userTexts>>
    BY <1>0, FinishedStep
  <1>2. LoginIsOpen' /\ AppJobsRun'
    BY <1>0, <1>1, AccountParts DEF LoginIsOpen, AppJobsRun
  <1>3. openingBootstrap' => Unheard'
    BY <1>0, <1>1, AccountParts, UnheardStays
  <1>4. TurnKept
    BY <1>1 DEF TurnKept
  <1>5. StartedWell
    BY <1>1 DEF StartedWell, Started
  <1>6. /\ waitingWelcome' \in BOOLEAN /\ openingBootstrap' \in BOOLEAN
        /\ uiJobs' \subseteq CallIDs
    BY <1>0, AccountParts
  <1> QED BY <1>0, <1>1, <1>2, <1>3, <1>4, <1>5, <1>6, AppStep

LEMMA AppJobFinishedStep ==
  ASSUME AccountInd, Greeted, Framed, NEW a \in active, NEW r \in Gate!Results,
         AppJobFinished(a, r)
  PROVE  AccountInd' /\ StartedWell
  <1>0. /\ LoopInd /\ GateInd /\ RuntimeTypeOK /\ Running /\ AppJobsRun /\ LoginIsOpen
        /\ uiJobs \subseteq CallIDs
        /\ openingBootstrap => Unheard
    BY AccountParts DEF AppJobFinished
  <1>1. /\ Reopen({}) /\ StoreAndWithdraw(a.job, r)
        /\ active' = active \ {a} /\ uiJobs' = uiJobs \ {a.job.id}
        /\ UNCHANGED <<timer, inputID, usedInputs, waitingWelcome, openingBootstrap, bootstrap, answer>>
    BY DEF AppJobFinished
  <1>2. /\ timer' \in BOOLEAN /\ inputID' \in Inputs \cup {None} /\ active' \subseteq active
        /\ a.job \in Gate!Jobs
    BY <1>0, <1>1 DEF RuntimeTypeOK
  <1>3. /\ MapperInd' /\ Stream!StreamTypeOK' /\ RuntimeTypeOK'
        /\ FeedShape' /\ StagedIsLive' /\ Guarded'
        /\ used' = used /\ stream' = stream + 1 /\ stream' # stream
        /\ contents' = Mapper!NoContents /\ userTexts' = userTexts
    BY <1>0, <1>1, <1>2, ReopenStep
  <1>4. GateInd' /\ pending' = Nil /\ issued' = issued
    BY <1>0, <1>1, <1>2, StoreAndWithdrawGate
  <1>5. LoopInd'
    BY <1>3, <1>4, LoopPartsNext
  <1>6. GreetingIsUnderWay' /\ greetingPending' \in BOOLEAN
    BY <1>0, <1>3, GreetingKept DEF Framed, TurnKept
  <1>7. AppJobsRun' /\ LoginIsOpen'
    BY <1>0, <1>1, <1>4 DEF AppJobsRun, LoginIsOpen
  <1>8. openingBootstrap' => Unheard'
    BY <1>0, <1>1, <1>3 DEF Unheard, Mapper!NoContents, Contents
  <1>9. StartedWell
    BY <1>1 DEF StartedWell, Started
  <1>10. used' \cap Inputs \subseteq usedInputs' \cup {Opening}
    BY <1>1, <1>3, AccountParts
  <1> QED BY <1>1, <1>4, <1>5, <1>6, <1>7, <1>8, <1>9, <1>10, AccountParts, AccountPartsNext

-----------------------------------------------------------------------------
(* The whole session.                                                      *)

LEMMA AccountSteps ==
  ASSUME AccountInd, SessionNext
  PROVE  AccountInd' /\ StartedWell
  <1>1. Framed /\ (Greet \/ (Greeted /\ AccountStep))
    BY DEF SessionNext, AccountNext, Framed
  <1>2. CASE Greet
    BY <1>1, <1>2, GreetStep
  <1>3. CASE Greeted /\ AccountClientStep
    <2>1. CASE \E id \in Inputs : AccountAudio(id)
      BY <1>1, <1>3, <2>1, AccountAudioStep
    <2>2. CASE \/ \E id \in Inputs : AccountCommit(id) \/ AccountCancel(id)
               \/ \E id \in Generated : AccountCancel(id)
               \/ AccountStop
      <3>1. SilentStep /\ UNCHANGED openingVars
        BY <2>2, Ids DEF AccountCommit, AccountCancel, AccountStop, SilentStep
      <3> QED BY <1>1, <1>3, <3>1, SilentAccountStep
    <2>3. CASE \E yes \in BOOLEAN : ConfirmWelcome(yes)
      BY <1>1, <1>3, <2>3, ConfirmWelcomeStep
    <2>4. CASE \E yes \in BOOLEAN, op \in CallIDs : AccountConfirm(op, yes)
      BY <1>1, <1>3, <2>4, AccountConfirmStep
    <2> QED BY <1>3, <2>1, <2>2, <2>3, <2>4 DEF AccountClientStep
  <1>4. CASE Greeted /\ AccountStreamStep
    <2>1. CASE DropBootstrap \/ AccountPlain \/ AccountUserEnd \/ AccountToolEnd
      BY <1>1, <1>4, <2>1, DropBootstrapStep, AccountPlainStep, AccountUserEndStep, AccountToolEndStep
    <2>2. CASE AccountOutputStart
      BY <1>1, <1>4, <2>2, AnsweredByVoiceStep, AccountOutputStep DEF AccountOutputStart
    <2> QED BY <1>4, <2>1, <2>2 DEF AccountStreamStep
  <1>5. CASE Greeted /\ (AccountReceive \/ AccountTimeout \/ AccountRenew \/ AccountLost \/ AccountTime)
    <2>1. SilentStep /\ UNCHANGED openingVars
      BY <1>5 DEF AccountReceive, AccountTimeout, AccountRenew, AccountLost, AccountTime, SilentStep
    <2> QED BY <1>1, <1>5, <2>1, SilentAccountStep
  <1>6. CASE Greeted /\ \E a \in active, r \in Gate!Results :
                          AppJobFinished(a, r) \/ ModelJobFinished(a, r)
    BY <1>1, <1>6, AppJobFinishedStep, ModelJobFinishedStep
  <1> QED BY <1>1, <1>2, <1>3, <1>4, <1>5, <1>6 DEF AccountStep

LEMMA AccountStutter ==
  ASSUME AccountInd, UNCHANGED sessionVars
  PROVE  AccountInd'
  <1>1. /\ UNCHANGED vars /\ askedOn' = askedOn /\ greetingPending' = greetingPending
        /\ UNCHANGED <<waitingWelcome, openingBootstrap, bootstrap, uiJobs, answer>>
    BY DEF sessionVars, accountVars, openingVars
  <1>2. /\ UNCHANGED <<used, usedInputs, userTexts, active, stream, pending, issued, ended>>
        /\ UNCHANGED <<turnID, state, contents>>
    BY <1>1 DEF vars, mapperVars, gateVars, runtimeVars
  <1>3. LoopInd'
    BY <1>1, AccountParts, LoopStutter
  <1>4. GreetingIsUnderWay'
    BY <1>1, <1>2, AccountParts DEF GreetingIsUnderWay, Running, Greeted
  <1>5. LoginIsOpen' /\ (Running' => AppJobsRun')
    BY <1>1, <1>2, AccountParts DEF LoginIsOpen, AppJobsRun, Running
  <1>6. openingBootstrap' => Unheard'
    BY <1>1, <1>2, AccountParts, UnheardStays
  <1> QED BY <1>1, <1>2, <1>3, <1>4, <1>5, <1>6, AccountParts, AccountPartsNext

LEMMA StepAccount == AccountInd /\ [SessionNext]_sessionVars => AccountInd'
  BY AccountSteps, AccountStutter

(* What a step adds to the running jobs. *)
LEMMA StartedJobs ==
  AccountInd /\ [SessionNext]_sessionVars => StartedWell
  <1> SUFFICES ASSUME AccountInd, [SessionNext]_sessionVars PROVE StartedWell
    OBVIOUS
  <1>1. CASE SessionNext
    BY <1>1, AccountSteps
  <1>2. CASE UNCHANGED sessionVars
    BY <1>2 DEF sessionVars, accountVars, vars, runtimeVars, StartedWell, Started
  <1> QED BY <1>1, <1>2

-----------------------------------------------------------------------------
(* In every reachable state the account's session agrees with the loop it  *)
(* shares with the personal assistant, for any number of turns, calls,     *)
(* jobs of the app and of the model, and renewals.                         *)
THEOREM AccountInvariant == Spec => []AccountInd
  BY InitAccount, StepAccount, PTL DEF Spec

(* A staged call is the one whose content is about to end; every job of    *)
(* the app is running; and as long as the first stream lasts, a pending    *)
(* greeting is under way, so that an input that waits for it is not        *)
(* forgotten (runtime.go 144-146, 247-249, 373-387, 463).                  *)
THEOREM AccountLoopIsSound == Spec => []AccountInv
  <1>1. AccountInd => AccountInv
    <2> SUFFICES ASSUME AccountInd PROVE AccountInv
      OBVIOUS
    <2>1. AccountTypeOK /\ LoopInd /\ (Running => AppJobsRun) /\ GreetingIsUnderWay
      BY DEF AccountInd
    <2>2. Running => StagedIsClosing
      BY <2>1 DEF LoopInd, FeedShape, StagedIsClosing
    <2> QED BY <2>1, <2>2 DEF AccountInv
  <1> QED BY AccountInvariant, <1>1, PTL

(* While the assistant responds the turn timer is armed, from the greeting *)
(* on and across the streams (runtime.go 142-172, 192).                    *)
THEOREM AccountResponseIsTimed == Spec => []RespondingIsTimed
  <1>1. AccountInd => RespondingIsTimed
    BY DEF AccountInd, LoopInd, RespondingIsTimed
  <1> QED BY AccountInvariant, <1>1, PTL

(* What the provider hears before it speaks reaches neither the mapper nor *)
(* the words that may consent (runtime.go 370-387).                        *)
THEOREM OpeningIsUnheard == Spec => []BootstrapIsUnheard
  <1>1. AccountInd => BootstrapIsUnheard
    BY DEF AccountInd
  <1> QED BY AccountInvariant, <1>1, PTL

(* The login is begun at most once in a session, and only by the user's    *)
(* own answer to the invitation (runtime.go 126-139, 297-305, 423-432,     *)
(* 468-472).                                                               *)
THEOREM LoginByTheUser == Spec => LoginIsAnswered
  <1>1. AccountInd /\ [SessionNext]_sessionVars
          => [\A a \in Started : a.job.key = Login =>
                /\ \A b \in issued : b.key # Login
                /\ \/ feed' = feed /\ a.job.turn = Opening
                   \/ answer = "yes" /\ a.job.turn = heard.turn]_sessionVars
    BY StartedJobs DEF StartedWell
  <1> QED BY AccountInvariant, <1>1, PTL DEF Spec, LoginIsAnswered

(* A tool the model asked for runs only for the turn under way, whatever   *)
(* the jobs of the app do meanwhile (runtime.go 307-325, 463).             *)
THEOREM ModelToolsForTheLiveTurn == Spec => ModelJobsOfTheLiveTurn
  <1>1. AccountInd /\ [SessionNext]_sessionVars
          => [\A a \in Started : a.job.id \notin uiJobs' =>
                a.job.turn = turnID /\ turnID \notin cancelled]_sessionVars
    BY StartedJobs DEF StartedWell
  <1> QED BY AccountInvariant, <1>1, PTL DEF Spec, ModelJobsOfTheLiveTurn

(* Consent dies with the stream it was asked on, also when the end of a    *)
(* job of the app replaces the stream (runtime.go 174-191, 352).           *)
THEOREM AccountConsentDiesWithItsStream == Spec => ConsentStaysOnItsStream
  <1>1. AccountInd /\ [SessionNext]_sessionVars
          => [\A a \in Started : a.job.confirmed => askedOn = stream]_sessionVars
    BY StartedJobs DEF StartedWell
  <1> QED BY AccountInvariant, <1>1, PTL DEF Spec, ConsentStaysOnItsStream

================================================================================
