---------------------------- MODULE PersonalProofs ----------------------------
(***************************************************************************)
(* Proofs about the personal assistant's session: its inductive invariant  *)
(* SessionInd, and from it the properties of PersonalSession, for every    *)
(* set of inputs, contents and calls, every policy of the tools and every  *)
(* bound.                                                                  *)
(***************************************************************************)
EXTENDS PersonalSession, LoopProofs

LEMMA InitSession == SessionInit => SessionInd
  <1> SUFFICES ASSUME SessionInit PROVE SessionInd
    OBVIOUS
  <1>1. LoopInd
    BY InitLoop DEF SessionInit
  <1>2. used = {} /\ inputID = None /\ active = {} /\ pending = Nil
    BY DEF SessionInit, Init, Mapper!MapperInit, Gate!Init
  <1> QED BY <1>1, <1>2 DEF SessionInd, ResultsToTheirStream

(* Every handler but the two that begin an input and end a job. *)
HandlerStep ==
    \/ \E id \in Inputs : TurnCommit(id)
    \/ \E id \in Mapper!TurnIds : TurnCancel(id)
    \/ \E op \in CallIDs, yes \in BOOLEAN : ToolConfirm(op, yes)
    \/ SessionStop \/ Lost \/ TimePasses \/ TurnTimeout \/ Renew \/ Receive
    \/ StreamStep

LEMMA StepsOfTheLoop ==
  ASSUME Next
  PROVE  \/ \E id \in Inputs : AudioAppend(id)
         \/ \E a \in active, r \in Gate!Results : ToolFinished(a, r)
         \/ HandlerStep
  BY DEF Next, ClientStep, HandlerStep

LEMMA HandlerKept ==
  ASSUME LoopInd, HandlerStep
  PROVE  Kept
  <1>1. CASE StreamStep
    BY <1>1, PlainKept, UserTextKept, UserEndKept, OutputStartKept, ToolUseKept, ToolEndKept
       DEF StreamStep
  <1>2. CASE \/ \E id \in Inputs : TurnCommit(id)
             \/ \E id \in Mapper!TurnIds : TurnCancel(id)
             \/ \E op \in CallIDs, yes \in BOOLEAN : ToolConfirm(op, yes)
    BY <1>2, CommitKept, CancelKept, ClickKept
  <1>3. CASE SessionStop \/ Lost \/ TimePasses \/ TurnTimeout \/ Renew \/ Receive
    BY <1>3, EndKept, ClockKept, TimeoutKept, RenewKept, ReceiveKept
  <1> QED BY <1>1, <1>2, <1>3 DEF HandlerStep

(* The question pending was put on the stream that is open now. *)
LEMMA AskedOnThisStream ==
  ASSUME GateInd', pending # Nil => askedOn = stream,
         pending' # Nil => stream' = stream,
         askedOn' = IF NewQuestion THEN stream ELSE askedOn
  PROVE  pending' # Nil => askedOn' = stream'
  BY QuestionStays

LEMMA StepSession == SessionInd /\ [SessionNext]_sessionVars => SessionInd'
  <1> SUFFICES ASSUME SessionInd, [SessionNext]_sessionVars PROVE SessionInd'
    OBVIOUS
  <1>0. /\ LoopInd /\ GateInd /\ used \cap Inputs \subseteq usedInputs
        /\ inputID # None => inputID \in usedInputs
        /\ ResultsToTheirStream
        /\ pending # Nil => askedOn = stream
    BY LoopParts DEF SessionInd
  <1>1. CASE SessionNext
    <2>1. Next /\ askedOn' = IF NewQuestion THEN stream ELSE askedOn
      BY <1>1 DEF SessionNext
    <2>2. ASSUME NEW id \in Inputs, AudioAppend(id) PROVE SessionInd'
      <3>1. id \notin used
        BY <1>0, <2>2 DEF AudioAppend
      <3>2. /\ LoopInd' /\ used' = used \cup {id} /\ usedInputs' = usedInputs \cup {id}
            /\ inputID' = id /\ UNCHANGED <<active, stream, pending>>
        BY <1>0, <2>2, <3>1, AudioKept
      <3>3. GateInd'
        BY <3>2 DEF LoopInd
      <3>4. ResultsToTheirStream'
        BY <1>0, <2>2, <3>2 DEF ResultsToTheirStream, AudioAppend
      <3>5. pending' # Nil => askedOn' = stream'
        BY <1>0, <2>1, <3>2, <3>3, AskedOnThisStream
      <3> QED BY <1>0, <3>2, <3>4, <3>5 DEF SessionInd
    <2>3. ASSUME NEW a \in active, NEW r \in Gate!Results, ToolFinished(a, r) PROVE SessionInd'
      <3>1. /\ LoopInd' /\ active' = active \ {a}
            /\ UNCHANGED <<pending, stream, used, usedInputs, inputID>>
        BY <1>0, <2>3, FinishedStep
      <3>2. GateInd'
        BY <3>1 DEF LoopInd
      <3>3. ResultsToTheirStream'
        BY <1>0, <2>3, <3>1 DEF ResultsToTheirStream, ToolFinished
      <3>4. pending' # Nil => askedOn' = stream'
        BY <1>0, <2>1, <3>1, <3>2, AskedOnThisStream
      <3> QED BY <1>0, <3>1, <3>3, <3>4 DEF SessionInd
    <2>4. CASE HandlerStep
      <3>1. Kept
        BY <1>0, <2>4, HandlerKept
      <3>2. /\ LoopInd' /\ GateInd' /\ used' \subseteq used \cup Generated /\ usedInputs' = usedInputs
            /\ pending' # Nil => stream' = stream
        BY <3>1 DEF Kept, LoopInd
      <3>3. Running /\ inputID' \in {inputID, None}
        <4> USE <2>4 DEF HandlerStep
        <4>1. CASE \E id \in Inputs : TurnCommit(id)
          BY <4>1 DEF TurnCommit
        <4>2. CASE \E id \in Mapper!TurnIds : TurnCancel(id)
          BY <4>2 DEF TurnCancel
        <4>3. CASE \/ \E op \in CallIDs, yes \in BOOLEAN : ToolConfirm(op, yes)
                   \/ SessionStop \/ Lost \/ TimePasses \/ TurnTimeout \/ Receive
          BY <4>3 DEF ToolConfirm, SessionStop, Lost, TimePasses, TurnTimeout, Receive, runtimeVars
        <4>4. CASE Renew
          BY <4>4 DEF Renew
        <4>5. CASE StreamStep
          BY <4>5 DEF StreamStep, Plain, UserText, UserEnd, OutputStart, OutputBegins, ToolUse,
                      ToolEnd, Take
        <4> QED BY <4>1, <4>2, <4>3, <4>4, <4>5
      <3>4. ResultsToTheirStream'
        <4>1. \A a \in active' \ active : a.stream = stream
          BY <3>1 DEF Kept, NewJobs
        <4>2. \A a \in active : a.stream = stream
          BY <1>0, <3>3 DEF ResultsToTheirStream
        <4>3. stream' # stream => active' = {}
          BY <3>1 DEF Kept
        <4> QED BY <4>1, <4>2, <4>3 DEF ResultsToTheirStream
      <3>5. pending' # Nil => askedOn' = stream'
        BY <1>0, <2>1, <3>2, AskedOnThisStream
      <3>6. used' \cap Inputs \subseteq usedInputs'
        BY <1>0, <3>2, MapperConstants
      <3> QED BY <1>0, <3>2, <3>3, <3>4, <3>5, <3>6 DEF SessionInd
    <2> QED BY <2>1, <2>2, <2>3, <2>4, StepsOfTheLoop
  <1>2. CASE UNCHANGED sessionVars
    <2>1. UNCHANGED vars /\ askedOn' = askedOn
      BY <1>2 DEF sessionVars
    <2>2. UNCHANGED <<used, usedInputs, inputID, active, stream, pending, ended>>
      BY <2>1 DEF vars, mapperVars, gateVars, runtimeVars
    <2>3. LoopInd'
      BY <1>0, <2>1, LoopStutter
    <2> QED BY <1>0, <2>1, <2>2, <2>3 DEF SessionInd, ResultsToTheirStream, Running
  <1> QED BY <1>1, <1>2

-----------------------------------------------------------------------------
(* In every reachable state the loop's parts agree, for any number of      *)
(* turns, calls, jobs and renewals.                                        *)
THEOREM SessionInvariant == Spec => []SessionInd
  BY InitSession, StepSession, PTL DEF Spec

(* One place for a staged call is enough, whatever the stream, the turn    *)
(* and the timers do between a call's use and its end (runtime.go 135,     *)
(* 305-322); and the input under way is one the client began.              *)
THEOREM LoopIsSound == Spec => []LoopInv
  <1>1. SessionInd => LoopInv
    <2> SUFFICES ASSUME SessionInd PROVE LoopInv
      OBVIOUS
    <2>1. LoopInd /\ TypeOK /\ (inputID # None => inputID \in usedInputs)
      BY DEF SessionInd, LoopInd
    <2>2. Running => StagedIsClosing
      BY <2>1 DEF LoopInd, FeedShape, StagedIsClosing
    <2> QED BY <2>1, <2>2 DEF LoopInv
  <1> QED BY SessionInvariant, <1>1, PTL

(* No renewal and no cancellation replaces the stream under a running job  *)
(* (runtime.go 159-166, 229-232).                                          *)
THEOREM ResultsGoHome == Spec => []ResultsToTheirStream
  <1>1. SessionInd => ResultsToTheirStream
    BY DEF SessionInd
  <1> QED BY SessionInvariant, <1>1, PTL

(* While the assistant responds the turn timer is armed (runtime.go        *)
(* 102-129).                                                               *)
THEOREM ResponseIsTimed == Spec => []RespondingIsTimed
  <1>1. SessionInd => RespondingIsTimed
    BY DEF SessionInd, LoopInd, RespondingIsTimed
  <1> QED BY SessionInvariant, <1>1, PTL

(* What a step adds to the running jobs. *)
LEMMA StartedJobs ==
  ASSUME SessionInd, [SessionNext]_sessionVars, NEW a \in active' \ active
  PROVE  a.job.turn = turnID /\ turnID \notin cancelled /\ (a.job.confirmed => pending # Nil)
  <1>0. LoopInd
    BY DEF SessionInd
  <1>1. active' # active
    OBVIOUS
  <1>2. Next
    BY <1>1 DEF SessionNext, sessionVars, vars, runtimeVars
  <1>3. ASSUME NEW id \in Inputs, AudioAppend(id) PROVE FALSE
    BY <1>1, <1>3 DEF AudioAppend
  <1>4. ASSUME NEW b \in active, NEW r \in Gate!Results, ToolFinished(b, r) PROVE FALSE
    BY <1>4 DEF ToolFinished
  <1>5. HandlerStep
    BY <1>2, <1>3, <1>4, StepsOfTheLoop
  <1> QED BY <1>0, <1>5, HandlerKept DEF Kept, NewJobs

(* No tool runs for a turn the user has interrupted, cancelled or left     *)
(* while the call was on its way (runtime.go 305-333).                     *)
THEOREM NoToolForADeadTurn == Spec => JobsOfTheLiveTurn
  <1>1. SessionInd /\ [SessionNext]_sessionVars
          => [\A a \in active' \ active : a.job.turn = turnID /\ turnID \notin cancelled]_sessionVars
    BY StartedJobs
  <1> QED BY SessionInvariant, <1>1, PTL DEF Spec, JobsOfTheLiveTurn

(* A removal that needed consent runs on the stream whose user was asked   *)
(* (runtime.go 133-136).                                                   *)
THEOREM ConsentDiesWithItsStream == Spec => ConsentStaysOnItsStream
  <1>1. SessionInd /\ [SessionNext]_sessionVars
          => [\A a \in active' \ active : a.job.confirmed => askedOn = stream]_sessionVars
    BY StartedJobs DEF SessionInd
  <1> QED BY SessionInvariant, <1>1, PTL DEF Spec, ConsentStaysOnItsStream

================================================================================
