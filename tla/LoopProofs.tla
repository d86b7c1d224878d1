------------------------------ MODULE LoopProofs ------------------------------
(***************************************************************************)
(* Proofs about the session loop (PersonalRuntime) that do not depend on   *)
(* the session it runs in: what each step of the mapper, of the gate and   *)
(* of the stream keeps, and then what each handler of the loop keeps.      *)
(***************************************************************************)
EXTENDS PersonalRuntime, TLAPS, SequenceTheorems

-----------------------------------------------------------------------------
(* The mapper.  A turn that responds is announced to the timer, and a turn *)
(* that responds no more is announced to the client.                       *)

Timed ==
    state' = "responding" =>
        /\ \A e \in out' : e.type \notin {"interrupted", "completed"}
        /\ state = "responding" \/ \E e \in out' : e.type = "responding"

Over(t) == \E e \in out' : e.turn = t /\ e.type \in {"completed", "interrupted"}

Announced ==
    turnID # None /\ state = "responding" /\ ~err' /\ (turnID' # turnID \/ state' # "responding")
        => Over(turnID)

MapperStep ==
    /\ MapperInd' /\ Timed /\ Announced
    /\ used \subseteq used' /\ used' \subseteq used \cup Generated

(* What the mapper and the gate assume of the constants, in their own terms. *)
LEMMA MapperConstants ==
    /\ Inputs \cap Generated = {}
    /\ None \notin Inputs /\ None \notin Generated /\ None \notin Contents
    /\ MaxTurns \in Nat /\ MaxContents \in Nat /\ MaxPairs \in Nat \ {0}
  BY RuntimeAssumption DEF Mapper!MapperAssumption

LEMMA Ids == Inputs \subseteq Mapper!TurnIds /\ Generated \subseteq Mapper!TurnIds /\ None \notin Mapper!TurnIds
  BY MapperConstants DEF Mapper!TurnIds

(* The events of a call are events. *)
LEMMA EvType ==
  \A type \in Mapper!EventTypes, t \in Mapper!TurnIds \cup {None} : Mapper!Ev(type, t) \in Mapper!Events
  BY DEF Mapper!Ev, Mapper!Events

(* An interruption is of the turn under way, and cancels it. *)
LEMMA Interruption ==
  ASSUME MapperInd
  PROVE  /\ Mapper!InterruptEvents \subseteq Mapper!Events
         /\ Mapper!CancelledNow \subseteq Mapper!TurnIds /\ Mapper!CancelledNow \subseteq used
         /\ cancelled \subseteq Mapper!CancelledNow
         /\ Mapper!Interruptible <=> turnID # None /\ state # "idle"
         /\ Mapper!Interruptible =>
              \E e \in Mapper!InterruptEvents : e.turn = turnID /\ e.type = "interrupted"
         /\ \A e \in Mapper!InterruptEvents : e.type \notin {"completed", "responding"}
  <1> USE DEF MapperInd, Mapper!MapperTypeOK
  <1>1. Mapper!InterruptEvents \subseteq Mapper!Events
    BY EvType DEF Mapper!InterruptEvents, Mapper!EventTypes
  <1>2. /\ Mapper!CancelledNow \subseteq Mapper!TurnIds /\ Mapper!CancelledNow \subseteq used
        /\ cancelled \subseteq Mapper!CancelledNow
    BY Ids DEF Mapper!CancelledNow, Mapper!Interruptible
  <1>3. Mapper!Interruptible <=> turnID # None /\ state # "idle"
    BY DEF Mapper!Interruptible
  <1>4. Mapper!Interruptible =>
          \E e \in Mapper!InterruptEvents : e.turn = turnID /\ e.type = "interrupted"
    BY DEF Mapper!InterruptEvents, Mapper!Ev
  <1>5. \A e \in Mapper!InterruptEvents : e.type \notin {"completed", "responding"}
    BY DEF Mapper!InterruptEvents, Mapper!Ev
  <1> QED BY <1>1, <1>2, <1>3, <1>4, <1>5

(* Interrupt: the turn under way is cancelled, and nothing is under way -- *)
(* unless Nova speaks before its first turn.                               *)
LEMMA InterruptStep ==
  ASSUME MapperInd, Mapper!Interrupt
  PROVE  MapperStep
  <1> USE DEF Mapper!Interrupt
  <1>1. MapperInd'
    <2>1. /\ cancelled' = Mapper!CancelledNow /\ out' = Mapper!InterruptEvents
          /\ state' = IF Mapper!Interruptible THEN "idle" ELSE state
          /\ UNCHANGED <<turnID, nextInput, answered, contents, users, sequence, waitingUser,
                         history, used, err>>
      OBVIOUS
    <2>2. Mapper!MapperTypeOK'
      BY <2>1, Interruption DEF MapperInd, Mapper!MapperTypeOK
    <2>3. state' # "idle" => turnID' \notin cancelled'
      BY <2>1, Interruption DEF MapperInd, Mapper!CancelledNow
    <2> QED BY <2>1, <2>2, <2>3, Interruption DEF MapperInd
  <1>2. Timed
    BY Interruption DEF Timed, Mapper!InterruptEvents
  <1>3. Announced
    BY Interruption DEF Announced, Over
  <1> QED BY <1>1, <1>2, <1>3 DEF MapperStep

(* StartInput: a new input is under way, and the turn that responded is cancelled. *)
LEMMA StartInputStep ==
  ASSUME MapperInd, NEW id \in Inputs, id \notin used, Mapper!StartInput(id)
  PROVE  MapperInd' /\ Timed /\ Announced /\ used' = used \cup {id} /\ turnID' = id
         /\ cancelled' \subseteq used
  <1> DEFINE gone == IF state = "responding" THEN Mapper!CancelledNow ELSE cancelled
             said == IF state = "responding" THEN Mapper!InterruptEvents ELSE {}
  <1>0. id \in Mapper!TurnIds /\ id # None
    BY Ids
  <1>1. /\ gone \subseteq Mapper!TurnIds /\ gone \subseteq used /\ said \subseteq Mapper!Events
    BY Interruption DEF MapperInd, Mapper!MapperTypeOK
  <1>2. /\ cancelled' = gone /\ nextInput' = id /\ turnID' = id /\ state' = "listening"
        /\ sequence' = 0 /\ waitingUser' = TRUE /\ used' = used \cup {id}
        /\ out' = said \cup {Mapper!Ev("started", id), Mapper!Ev("listening", id)}
        /\ UNCHANGED <<answered, contents, users, history, err>>
    BY DEF Mapper!StartInput
  <1>3. {Mapper!Ev("started", id), Mapper!Ev("listening", id)} \subseteq Mapper!Events
    BY <1>0, EvType DEF Mapper!EventTypes
  <1>4. Announced
    BY <1>2, Interruption DEF Announced, Over
  <1> HIDE DEF gone, said
  <1>5. Mapper!MapperTypeOK'
    BY <1>0, <1>1, <1>2, <1>3 DEF MapperInd, Mapper!MapperTypeOK
  <1>6. MapperInd'
    BY <1>1, <1>2, <1>5 DEF MapperInd
  <1>7. Timed
    BY <1>2 DEF Timed
  <1> QED BY <1>1, <1>2, <1>4, <1>6, <1>7

(* QueueInput: an input waits, and nothing is said. *)
LEMMA QueueInputStep ==
  ASSUME MapperInd, NEW id \in Inputs, Mapper!QueueInput(id)
  PROVE  MapperInd' /\ Timed /\ Announced /\ used' = used \cup {id} /\ turnID' = turnID
         /\ state' = state /\ cancelled' = cancelled /\ out' = {}
  <1> USE DEF Mapper!QueueInput
  <1>1. Mapper!MapperTypeOK'
    BY Ids DEF MapperInd, Mapper!MapperTypeOK
  <1>2. MapperInd'
    BY <1>1 DEF MapperInd
  <1> QED BY <1>2 DEF Timed, Announced

(* StartAssistant: the greeting, before any other turn. *)
LEMMA StartAssistantStep ==
  ASSUME MapperInd, NEW id \in Inputs, used = {}, Mapper!StartAssistant(id)
  PROVE  MapperInd' /\ Timed /\ used' = {id} /\ turnID' = id /\ state' = "responding"
  <1> USE DEF Mapper!StartAssistant
  <1>1. id \in Mapper!TurnIds
    BY Ids
  <1>2. {Mapper!Ev("started", id), Mapper!Ev("responding", id)} \subseteq Mapper!Events
    BY <1>1, EvType DEF Mapper!EventTypes
  <1>3. Mapper!MapperTypeOK'
    BY <1>1, <1>2 DEF MapperInd, Mapper!MapperTypeOK
  <1>4. MapperInd'
    BY <1>3 DEF MapperInd
  <1>5. Timed
    BY DEF Timed, Mapper!Ev
  <1> QED BY <1>4, <1>5

(* An error and a message without effect. *)
LEMMA IdleStep ==
  ASSUME MapperInd, Mapper!Nothing \/ Mapper!ProviderError
  PROVE  MapperStep /\ UNCHANGED <<turnID, state, cancelled, contents>> /\ out' = {}
  <1>1. /\ out' = {} /\ err' \in {TRUE, err}
        /\ UNCHANGED <<turnID, state, nextInput, answered, cancelled, contents, users, sequence,
                       waitingUser, history, used>>
    BY DEF Mapper!Nothing, Mapper!ProviderError, Mapper!Fail
  <1>2. Mapper!MapperTypeOK'
    <2>1. err' \in BOOLEAN
      BY <1>1 DEF MapperInd, Mapper!MapperTypeOK
    <2> QED BY <1>1, <2>1 DEF MapperInd, Mapper!MapperTypeOK
  <1>3. MapperInd'
    BY <1>1, <1>2 DEF MapperInd
  <1> QED BY <1>1, <1>3 DEF MapperStep, Timed, Announced

(* The end of a completion ends the turn, if it was heard. *)
LEMMA CompletionEndStep ==
  ASSUME MapperInd, Mapper!CompletionEnd
  PROVE  MapperStep
  <1>1. CASE state = "responding" /\ sequence > 0
    <2>1. /\ state' = "idle" /\ answered' = answered \cup {turnID}
          /\ out' = {Mapper!Ev("completed", turnID), Mapper!Ev("idle", turnID)}
          /\ UNCHANGED <<turnID, nextInput, cancelled, contents, users, sequence, waitingUser,
                         history, used, err>>
      BY <1>1 DEF Mapper!CompletionEnd, Mapper!Complete
    <2>2. {Mapper!Ev("completed", turnID), Mapper!Ev("idle", turnID)} \subseteq Mapper!Events
      BY EvType DEF Mapper!EventTypes, MapperInd, Mapper!MapperTypeOK
    <2>3. Mapper!MapperTypeOK'
      BY <2>1, <2>2 DEF MapperInd, Mapper!MapperTypeOK
    <2>4. MapperInd'
      BY <2>1, <2>3 DEF MapperInd
    <2>5. Over(turnID)
      BY <2>1 DEF Over, Mapper!Ev
    <2> QED BY <2>1, <2>4, <2>5 DEF MapperStep, Timed, Announced
  <1>2. CASE ~(state = "responding" /\ sequence > 0)
    BY <1>2, IdleStep DEF Mapper!CompletionEnd
  <1> QED BY <1>1, <1>2

(* The user speaks: in the turn under way, the one that waits or a new one. *)
LEMMA UserStartsStep ==
  ASSUME MapperInd, NEW c \in Contents, NEW drawn \in Generated,
         Mapper!UserStarts(c, "user_text", drawn)
  PROVE  MapperStep
  <1> DEFINE gone == IF state = "responding" THEN Mapper!CancelledNow ELSE cancelled
             said == IF state = "responding" THEN Mapper!InterruptEvents ELSE {}
             id == Mapper!UserTurn(drawn, gone)
             content == [turn |-> id, kind |-> "user_text", text |-> FALSE]
  <1>0. /\ gone \subseteq Mapper!TurnIds /\ gone \subseteq used /\ said \subseteq Mapper!Events
        /\ drawn \in Mapper!TurnIds /\ drawn # None
    BY Interruption, Ids DEF MapperInd, Mapper!MapperTypeOK
  <1>1. id \in Mapper!TurnIds
    BY <1>0 DEF Mapper!UserTurn, Mapper!Ended, MapperInd, Mapper!MapperTypeOK
  <1>2. id \in used \/ (id = drawn /\ drawn \notin used /\ used' = used \cup {drawn})
    <2>1. CASE ~Mapper!Ended(turnID, gone)
      BY <2>1 DEF Mapper!UserTurn, Mapper!Ended, MapperInd
    <2>2. CASE Mapper!Ended(turnID, gone) /\ ~Mapper!Ended(nextInput, gone)
      BY <2>2 DEF Mapper!UserTurn, Mapper!Ended, MapperInd
    <2>3. CASE Mapper!Ended(turnID, gone) /\ Mapper!Ended(nextInput, gone)
      BY <2>3 DEF Mapper!UserTurn, Mapper!UserStarts
    <2> QED BY <2>1, <2>2, <2>3
  <1>3. id \notin gone
    <2>1. CASE ~Mapper!Ended(turnID, gone)
      BY <2>1 DEF Mapper!UserTurn, Mapper!Ended
    <2>2. CASE Mapper!Ended(turnID, gone) /\ ~Mapper!Ended(nextInput, gone)
      BY <2>2 DEF Mapper!UserTurn, Mapper!Ended
    <2>3. CASE Mapper!Ended(turnID, gone) /\ Mapper!Ended(nextInput, gone)
      BY <1>0, <2>3 DEF Mapper!UserTurn, Mapper!UserStarts
    <2> QED BY <2>1, <2>2, <2>3
  <1>4. {Mapper!Ev("started", id), Mapper!Ev("listening", id)} \subseteq Mapper!Events
    BY <1>1, EvType DEF Mapper!EventTypes
  <1>5. content \in Mapper!OpenContents
    BY <1>1 DEF Mapper!OpenContents, Mapper!Kinds
  <1>6. /\ turnID' = id /\ cancelled' = gone /\ state' = "listening" /\ waitingUser' = FALSE
        /\ used' \in {used, used \cup {drawn}} /\ sequence' \in {0, sequence}
        /\ UNCHANGED <<nextInput, answered, users, history>>
    BY DEF Mapper!UserStarts, Mapper!SequenceOfNewTurn
  <1>7. \/ /\ out' = {} /\ err' = TRUE /\ contents' = contents
        \/ /\ contents' = [contents EXCEPT ![c] = content] /\ err' = err
           /\ said \subseteq out'
           /\ out' \subseteq said \cup {Mapper!Ev("started", id), Mapper!Ev("listening", id)}
    BY DEF Mapper!UserStarts, Mapper!Fail
  <1>8. Announced
    BY <1>6, <1>7, Interruption DEF Announced, Over
  <1> HIDE DEF id, gone, said, content
  <1>9. Mapper!MapperTypeOK'
    <2>1. contents' \in [Contents -> Mapper!OpenContents \cup {None}]
      BY <1>5, <1>7 DEF MapperInd, Mapper!MapperTypeOK
    <2>2. out' \subseteq Mapper!Events /\ err' \in BOOLEAN
      BY <1>0, <1>4, <1>7 DEF MapperInd, Mapper!MapperTypeOK
    <2>3. used' \subseteq Mapper!TurnIds /\ sequence' \in Nat
      BY <1>0, <1>6 DEF MapperInd, Mapper!MapperTypeOK
    <2> QED BY <1>0, <1>1, <1>6, <2>1, <2>2, <2>3 DEF MapperInd, Mapper!MapperTypeOK
  <1>10. MapperInd'
    <2>1. used \subseteq used' /\ id \in used'
      BY <1>2, <1>6
    <2> QED BY <1>0, <1>3, <1>6, <1>9, <2>1 DEF MapperInd
  <1>11. used \subseteq used' /\ used' \subseteq used \cup Generated
    BY <1>6
  <1> QED BY <1>6, <1>8, <1>10, <1>11 DEF MapperStep, Timed

(* The assistant speaks, writes or calls a tool. *)
LEMMA OutputStartsStep ==
  ASSUME MapperInd, NEW c \in Contents, NEW kind \in {"audio", "final", "tool"},
         Mapper!OutputStarts(c, kind)
  PROVE  MapperStep /\ UNCHANGED <<turnID, cancelled>>
  <1>1. CASE Mapper!Nothing \/ Mapper!ProviderError
    BY <1>1, IdleStep
  <1>2. CASE ~(Mapper!Nothing \/ Mapper!ProviderError)
    <2> DEFINE speaks == kind \in {"audio", "speculative"} /\ turnID \notin cancelled
               content == [turn |-> turnID, kind |-> kind, text |-> FALSE]
    <2>1. /\ contents' = [contents EXCEPT ![c] = content]
          /\ state' = IF speaks THEN "responding" ELSE state
          /\ out' = IF speaks THEN {Mapper!Ev("responding", turnID)} ELSE {}
          /\ UNCHANGED <<turnID, nextInput, answered, cancelled, users, sequence, waitingUser,
                         history, used, err>>
      BY <1>2 DEF Mapper!OutputStarts
    <2>2. content \in Mapper!OpenContents
      BY DEF Mapper!OpenContents, Mapper!Kinds, MapperInd, Mapper!MapperTypeOK
    <2>3. Mapper!Ev("responding", turnID) \in Mapper!Events
      BY EvType DEF Mapper!EventTypes, MapperInd, Mapper!MapperTypeOK
    <2>4. speaks => turnID \notin cancelled
      OBVIOUS
    <2>5. Timed /\ Announced
      <3>1. CASE speaks
        <4>1. turnID' = turnID /\ state' = "responding" /\ out' = {Mapper!Ev("responding", turnID)}
          BY <2>1, <3>1
        <4> QED BY <4>1 DEF Timed, Announced, Mapper!Ev
      <3>2. CASE ~speaks
        BY <2>1, <3>2 DEF Timed, Announced
      <3> QED BY <3>1, <3>2
    <2> HIDE DEF speaks, content
    <2>6. Mapper!MapperTypeOK'
      <3>1. contents' \in [Contents -> Mapper!OpenContents \cup {None}]
        BY <2>1, <2>2 DEF MapperInd, Mapper!MapperTypeOK
      <3>2. out' \subseteq Mapper!Events /\ state' \in {"idle", "listening", "responding"}
        BY <2>1, <2>3 DEF MapperInd, Mapper!MapperTypeOK
      <3> QED BY <2>1, <3>1, <3>2 DEF MapperInd, Mapper!MapperTypeOK
    <2>7. MapperInd'
      BY <2>1, <2>4, <2>6 DEF MapperInd
    <2> QED BY <2>1, <2>5, <2>7 DEF MapperStep
  <1> QED BY <1>1, <1>2

(* A content that is live is of the turn under way, which was not cancelled. *)
LEMMA LiveContent ==
  ASSUME MapperInd, NEW c \in Contents, Mapper!Live(c)
  PROVE  /\ contents[c] \in Mapper!OpenContents
         /\ contents[c].turn = turnID /\ turnID \notin cancelled
  BY DEF Mapper!Live, MapperInd, Mapper!MapperTypeOK

LEMMA TextOutputStep ==
  ASSUME MapperInd, NEW c \in Contents, NEW fits \in BOOLEAN, NEW empty \in BOOLEAN,
         Mapper!TextOutput(c, fits, empty)
  PROVE  MapperStep /\ UNCHANGED <<turnID, state, cancelled>>
         /\ (out' # {} => Mapper!Live(c))
  <1>1. CASE Mapper!Live(c) /\ fits
    <2> DEFINE text == contents[c].text \/ (contents[c].kind = "user_text" /\ ~empty)
    <2>0. contents[c] \in Mapper!OpenContents
      BY <1>1, LiveContent
    <2>1. Mapper!Ev("transcript", contents[c].turn) \in Mapper!Events
      BY <2>0, EvType DEF Mapper!OpenContents, Mapper!EventTypes
    <2>2. text \in BOOLEAN
      OBVIOUS
    <2>3. /\ contents' = [contents EXCEPT ![c].text = text]
          /\ out' = {Mapper!Ev("transcript", contents[c].turn)}
          /\ UNCHANGED <<turnID, state, nextInput, answered, cancelled, users, sequence,
                         waitingUser, history, used, err>>
      BY <1>1 DEF Mapper!TextOutput
    <2> HIDE DEF text
    <2>4. [contents[c] EXCEPT !.text = text] \in Mapper!OpenContents
      BY <2>0, <2>2 DEF Mapper!OpenContents
    <2>5. contents' \in [Contents -> Mapper!OpenContents \cup {None}]
      BY <2>3, <2>4 DEF MapperInd, Mapper!MapperTypeOK
    <2>6. Mapper!MapperTypeOK'
      BY <2>1, <2>3, <2>5 DEF MapperInd, Mapper!MapperTypeOK
    <2>7. MapperInd'
      BY <2>3, <2>6 DEF MapperInd
    <2>8. Timed /\ Announced
      BY <2>3 DEF Timed, Announced, Mapper!Ev
    <2> QED BY <1>1, <2>3, <2>7, <2>8 DEF MapperStep
  <1>2. CASE ~(Mapper!Live(c) /\ fits)
    BY <1>2, IdleStep DEF Mapper!TextOutput
  <1> QED BY <1>1, <1>2

LEMMA AudioOutputStep ==
  ASSUME MapperInd, NEW c \in Contents, NEW valid \in BOOLEAN, Mapper!AudioOutput(c, valid)
  PROVE  MapperStep /\ UNCHANGED <<turnID, state, cancelled>>
  <1>1. CASE Mapper!Live(c) /\ state = "responding" /\ valid
    <2> DEFINE e == [type |-> "audio", turn |-> contents[c].turn, n |-> sequence + 1]
    <2>1. /\ sequence' = sequence + 1 /\ out' = {e}
          /\ UNCHANGED <<turnID, state, nextInput, answered, cancelled, contents, users,
                         waitingUser, history, used, err>>
      BY <1>1 DEF Mapper!AudioOutput
    <2>2. e \in Mapper!Events
      BY <1>1, LiveContent DEF Mapper!Events, Mapper!EventTypes, MapperInd, Mapper!MapperTypeOK
    <2>3. Timed /\ Announced
      BY <2>1 DEF Timed, Announced
    <2> HIDE DEF e
    <2>4. Mapper!MapperTypeOK'
      BY <2>1, <2>2 DEF MapperInd, Mapper!MapperTypeOK
    <2>5. MapperInd'
      BY <2>1, <2>4 DEF MapperInd
    <2> QED BY <2>1, <2>3, <2>5 DEF MapperStep
  <1>2. CASE ~(Mapper!Live(c) /\ state = "responding" /\ valid)
    BY <1>2, IdleStep DEF Mapper!AudioOutput
  <1> QED BY <1>1, <1>2

(* A call that is heeded is of a turn that was not cancelled. *)
LEMMA ToolUseStep ==
  ASSUME MapperInd, NEW c \in Contents, Mapper!ToolUse(c)
  PROVE  MapperStep /\ UNCHANGED <<turnID, state, cancelled, used, contents>>
         /\ (out' # {} => turnID \notin cancelled)
  <1>1. CASE Mapper!Live(c)
    <2>1. /\ out' = {Mapper!Ev("tool", contents[c].turn)}
          /\ UNCHANGED <<turnID, state, nextInput, answered, cancelled, contents, users, sequence,
                         waitingUser, history, used, err>>
      BY <1>1 DEF Mapper!ToolUse
    <2>2. Mapper!Ev("tool", contents[c].turn) \in Mapper!Events
      BY <1>1, LiveContent, EvType DEF Mapper!OpenContents, Mapper!EventTypes
    <2>3. Mapper!MapperTypeOK'
      BY <2>1, <2>2 DEF MapperInd, Mapper!MapperTypeOK
    <2>4. MapperInd'
      BY <2>1, <2>3 DEF MapperInd
    <2>5. Timed /\ Announced
      BY <2>1 DEF Timed, Announced, Mapper!Ev
    <2> QED BY <1>1, <2>1, <2>4, <2>5, LiveContent DEF MapperStep
  <1>2. CASE ~Mapper!Live(c)
    <2>1. Mapper!Nothing
      BY <1>2 DEF Mapper!ToolUse
    <2> QED BY <2>1, IdleStep DEF Mapper!Nothing
  <1> QED BY <1>1, <1>2

(* The history stays a sequence of turns, whatever the limits drop. *)
LEMMA RememberType ==
  ASSUME history \in Seq(Mapper!TurnIds \cup {None}), NEW t \in Mapper!TurnIds \cup {None},
         Mapper!Remember(t)
  PROVE  history' \in Seq(Mapper!TurnIds \cup {None})
  <1> DEFINE all == Append(history, t)
  <1>1. all \in Seq(Mapper!TurnIds \cup {None})
    OBVIOUS
  <1>2. PICK n \in 1..Len(all) : history' = SubSeq(all, Len(all) - n + 1, Len(all))
    BY DEF Mapper!Remember
  <1>3. Len(all) \in Nat /\ Len(all) - n + 1 \in 1..Len(all)
    BY <1>1
  <1> QED BY <1>1, <1>2, <1>3, SubSeqProperties

(* The end of a content, for any reason but an interruption or the end of  *)
(* the turn, changes neither.                                              *)
LEMMA ContentEndStep ==
  ASSUME MapperInd, NEW c \in Contents, NEW fits \in BOOLEAN, Mapper!ContentEnd(c, "other", fits)
  PROVE  MapperStep /\ UNCHANGED <<turnID, state, cancelled, used>> /\ out' = {}
  <1>1. CASE ~Mapper!Live(c)
    <2>1. Mapper!Nothing
      BY <1>1 DEF Mapper!ContentEnd
    <2> QED BY <2>1, IdleStep DEF Mapper!Nothing
  <1>2. CASE Mapper!Live(c)
    <2> DEFINE t == contents[c].turn
    <2>0. contents[c] \in Mapper!OpenContents /\ t \in Mapper!TurnIds \cup {None}
      BY <1>2, LiveContent DEF MapperInd, Mapper!MapperTypeOK
    <2>1. /\ contents' = [contents EXCEPT ![c] = None] /\ out' = {}
          /\ UNCHANGED <<turnID, nextInput, sequence, waitingUser, used, state, answered, cancelled>>
      BY <1>2 DEF Mapper!ContentEnd, Mapper!CompletesTurn, Mapper!Fail
    <2>2. \/ err' = TRUE /\ UNCHANGED <<users, history>>
          \/ err' = err /\ Mapper!KeepSpeech(c)
      BY <1>2 DEF Mapper!ContentEnd, Mapper!Fail
    <2>3. history' \in Seq(Mapper!TurnIds \cup {None}) /\ users' \subseteq Mapper!TurnIds \cup {None}
      <3>1. CASE Mapper!KeepSpeech(c)
        BY <2>0, <3>1, RememberType DEF Mapper!KeepSpeech, MapperInd, Mapper!MapperTypeOK
      <3>2. CASE UNCHANGED <<users, history>>
        BY <3>2 DEF MapperInd, Mapper!MapperTypeOK
      <3> QED BY <2>2, <3>1, <3>2
    <2>4. contents' \in [Contents -> Mapper!OpenContents \cup {None}] /\ err' \in BOOLEAN
      BY <2>1, <2>2 DEF MapperInd, Mapper!MapperTypeOK
    <2>5. Mapper!MapperTypeOK'
      BY <2>1, <2>3, <2>4 DEF MapperInd, Mapper!MapperTypeOK
    <2>6. MapperInd'
      BY <2>1, <2>5 DEF MapperInd
    <2>7. Timed /\ Announced
      BY <2>1 DEF Timed, Announced
    <2> QED BY <2>1, <2>6, <2>7 DEF MapperStep
  <1> QED BY <1>1, <1>2

(* A new mapper knows no turn. *)
LEMMA ReplaceStep ==
  ASSUME MapperInd, Mapper!Replace, out' \subseteq Mapper!Events
  PROVE  MapperInd' /\ state' = "idle" /\ used' = used /\ turnID' = None /\ contents' = Mapper!NoContents
  <1>0. /\ turnID' = None /\ state' = "idle" /\ nextInput' = None
        /\ answered' = {} /\ cancelled' = {}
        /\ contents' = Mapper!NoContents /\ users' = {}
        /\ sequence' = 0 /\ waitingUser' = FALSE
        /\ UNCHANGED <<history, used, err>>
    BY DEF Mapper!Replace
  <1>1. Mapper!MapperTypeOK'
    BY <1>0 DEF Mapper!NoContents, MapperInd, Mapper!MapperTypeOK
  <1> QED BY <1>0, <1>1 DEF MapperInd

LEMMA MapperStutter ==
  ASSUME MapperInd, UNCHANGED mapperVars
  PROVE  MapperInd' /\ UNCHANGED <<turnID, state, cancelled, used, contents>>
  <1>1. /\ UNCHANGED <<turnID, state, nextInput, answered, cancelled, contents, users, sequence>>
        /\ UNCHANGED <<waitingUser, history, used, out, err>>
    BY DEF mapperVars
  <1>2. Mapper!MapperTypeOK'
    BY <1>1 DEF MapperInd, Mapper!MapperTypeOK
  <1> QED BY <1>1, <1>2 DEF MapperInd

(* The timer follows the state. *)
LEMMA TimerFollows ==
  ASSUME timer \in BOOLEAN, timer' = TimerAfter(timer)
  PROVE  /\ timer' \in BOOLEAN
         /\ Timed /\ (state = "responding" => timer) => (state' = "responding" => timer')
  BY DEF TimerAfter, Timed

-----------------------------------------------------------------------------
(* The gate.                                                               *)

LEMMA GateConstants ==
    /\ ToolOf \in [Keys -> Tools]
    /\ Policy \in [Tools -> {"read_only", "explicit_intent", "confirm_later"}]
    /\ DirectTools \subseteq Tools /\ UITools \subseteq Tools
    /\ Nil \notin Keys /\ Nil \notin Tools /\ Nil \notin CallIDs
    /\ Nil \notin Mapper!TurnIds \cup {None}
    /\ Nil \notin Gate!Pendings
    /\ Malformed \notin Keys
    /\ MaxCalls \in Nat /\ TTL \in Nat /\ MaxTime \in Nat
  BY RuntimeAssumption DEF Gate!ToolsAssumption, Gate!BoundsAssumption, Gate!NoneAssumption,
     Mapper!TurnIds

(* A step of the gate that starts no job leaves the jobs of the past. *)
LEMMA GateStutter ==
  ASSUME GateInd, UNCHANGED gateVars
  PROVE  GateInd' /\ UNCHANGED <<pending, issued>>
  <1>1. UNCHANGED <<pending, seen, cache, calls, attempted, intent, now, issued>>
    BY DEF gateVars
  <1>2. Gate!TypeOK'
    BY <1>1 DEF GateInd, Gate!TypeOK
  <1> QED BY <1>1, <1>2 DEF GateInd

LEMMA CountTypes ==
  ASSUME Gate!TypeOK, NEW id \in CallIDs, NEW k \in Keys, calls < MaxCalls, Gate!Count(id, k)
  PROVE  seen' \in [CallIDs -> Keys \cup {Nil}] /\ calls' \in 0..MaxCalls
  BY GateConstants DEF Gate!TypeOK, Gate!Count

LEMMA InterruptGate ==
  ASSUME GateInd, Gate!Interrupt
  PROVE  GateInd' /\ pending' = Nil /\ issued' = issued
  <1> USE DEF Gate!Interrupt
  <1>1. intent' \in [turn : (Inputs \cup Generated \cup {None}) \cup {Nil}, asks : Tools \cup {Nil}]
    BY DEF GateInd, Gate!TypeOK
  <1>2. Gate!TypeOK'
    BY <1>1 DEF GateInd, Gate!TypeOK
  <1> QED BY <1>2 DEF GateInd

LEMMA TickGate ==
  ASSUME GateInd, Gate!Tick
  PROVE  GateInd' /\ UNCHANGED <<pending, issued>>
  <1> USE DEF Gate!Tick
  <1>1. Gate!TypeOK'
    BY DEF GateInd, Gate!TypeOK
  <1> QED BY <1>1 DEF GateInd

LEMMA CompleteGate ==
  ASSUME GateInd, NEW j \in Gate!Jobs, NEW r \in Gate!Results, Gate!Complete(j, r)
  PROVE  GateInd' /\ UNCHANGED <<pending, issued>>
  <1> USE DEF Gate!Complete
  <1>1. cache' \in [Keys -> Gate!Results \cup {Nil}]
    BY DEF GateInd, Gate!TypeOK, Gate!Jobs
  <1>2. Gate!TypeOK'
    BY <1>1 DEF GateInd, Gate!TypeOK
  <1> QED BY <1>2 DEF GateInd

(* What the user says or clicks approves or ends the question, and puts no new one. *)
LEMMA ConfirmGate ==
  ASSUME GateInd, NEW op \in CallIDs, NEW yes \in BOOLEAN, Gate!Confirm(op, yes)
  PROVE  /\ GateInd' /\ issued' = issued
         /\ pending' \in {Nil, pending, [pending EXCEPT !.approved = TRUE]}
         /\ pending = Nil => pending' = Nil
  <1>1. /\ pending' \in {Nil, pending, [pending EXCEPT !.approved = TRUE]}
        /\ pending = Nil => pending' = Nil
        /\ UNCHANGED <<seen, cache, calls, attempted, intent, now, issued>>
    BY DEF Gate!Confirm, Gate!Confirmable
  <1>2. pending' \in Gate!Pendings \cup {Nil} /\ (pending' # Nil => pending'.key = pending.key)
    BY <1>1 DEF GateInd, Gate!TypeOK, Gate!Pendings
  <1>3. Gate!TypeOK'
    BY <1>1, <1>2 DEF GateInd, Gate!TypeOK
  <1>4. pending' # Nil => Gate!ConfirmLater(pending'.key)
    BY <1>1, <1>2 DEF GateInd, Gate!TypeOK
  <1> QED BY <1>1, <1>3, <1>4 DEF GateInd, Gate!ConfirmLater

LEMMA ObserveGate ==
  ASSUME GateInd, NEW t \in Mapper!TurnIds \cup {None}, NEW u \in Gate!Utterances,
         Gate!ObserveUser(t, u)
  PROVE  /\ GateInd' /\ issued' = issued
         /\ pending' \in {Nil, pending, [pending EXCEPT !.approved = TRUE]}
         /\ pending = Nil => pending' = Nil
  <1>1. /\ pending' \in {Nil, pending, [pending EXCEPT !.approved = TRUE]}
        /\ pending = Nil => pending' = Nil
    BY DEF Gate!ObserveUser, Gate!Approves, Gate!Withdraws, Gate!Concerned
  <1>2. /\ intent' = [turn |-> t, asks |-> IF u.says = "ask" THEN u.tool ELSE Nil]
        /\ UNCHANGED <<seen, cache, calls, attempted, now, issued>>
    BY DEF Gate!ObserveUser, Gate!Hear
  <1>3. intent' \in [turn : (Inputs \cup Generated \cup {None}) \cup {Nil}, asks : Tools \cup {Nil}]
    BY <1>2 DEF Gate!Utterances, Mapper!TurnIds
  <1>4. pending' \in Gate!Pendings \cup {Nil} /\ (pending' # Nil => pending'.key = pending.key)
    BY <1>1 DEF GateInd, Gate!TypeOK, Gate!Pendings
  <1>5. Gate!TypeOK'
    BY <1>2, <1>3, <1>4 DEF GateInd, Gate!TypeOK
  <1>6. pending' # Nil => Gate!ConfirmLater(pending'.key)
    BY <1>1, <1>4 DEF GateInd, Gate!TypeOK
  <1> QED BY <1>1, <1>2, <1>5, <1>6 DEF GateInd, Gate!ConfirmLater

(* A call that is answered, asked about or handed out.  Only an operation  *)
(* that needs consent is confirmed, and then there was a question.         *)
LEMMA AnswerGate ==
  ASSUME GateInd, NEW id \in CallIDs, NEW k \in Keys, NEW t \in Mapper!TurnIds \cup {None},
         Gate!AnswerAtOnce(id, k, t) \/ Gate!AskConfirmation(id, k, t)
  PROVE  GateInd' /\ issued' = issued
  <1>1. /\ Gate!Count(id, k) /\ calls < MaxCalls
        /\ UNCHANGED <<cache, attempted, intent, now, issued>>
    BY DEF Gate!AnswerAtOnce, Gate!AskConfirmation, Gate!Accepted
  <1>2. seen' \in [CallIDs -> Keys \cup {Nil}] /\ calls' \in 0..MaxCalls
    BY <1>1, CountTypes DEF GateInd
  <1>3. pending' \in Gate!Pendings \cup {Nil} /\ (pending' # Nil => Gate!ConfirmLater(pending'.key))
    <2>1. CASE pending' = pending
      BY <2>1 DEF GateInd, Gate!TypeOK
    <2>2. CASE pending' # pending
      <3> DEFINE new == [id |-> id, key |-> k, turn |-> t, expires |-> now + TTL,
                         approved |-> FALSE]
      <3>1. pending' = new /\ Gate!ConfirmLater(k)
        BY <2>2 DEF Gate!AnswerAtOnce, Gate!AskConfirmation
      <3>2. new \in Gate!Pendings
        BY GateConstants DEF GateInd, Gate!TypeOK, Gate!Pendings, Mapper!TurnIds
      <3> QED BY <3>1, <3>2
    <2> QED BY <2>1, <2>2
  <1>4. Gate!TypeOK'
    BY <1>1, <1>2, <1>3 DEF GateInd, Gate!TypeOK
  <1> QED BY <1>1, <1>3, <1>4 DEF GateInd, Gate!ConfirmLater

LEMMA IssueGate ==
  ASSUME GateInd, NEW id \in CallIDs, NEW k \in Keys, NEW t \in Mapper!TurnIds \cup {None},
         Gate!Issue(id, k, t)
  PROVE  /\ GateInd' /\ pending' \in {Nil, pending}
         /\ [id |-> id, key |-> k, turn |-> t, confirmed |-> Gate!ConfirmLater(k)] \in Gate!Jobs
         /\ issued' = issued \cup
              {[id |-> id, key |-> k, turn |-> t, confirmed |-> Gate!ConfirmLater(k)]}
         /\ Gate!ConfirmLater(k) => pending # Nil
  <1> DEFINE job == [id |-> id, key |-> k, turn |-> t, confirmed |-> Gate!ConfirmLater(k)]
  <1>1. /\ Gate!Count(id, k) /\ calls < MaxCalls /\ pending' \in {Nil, pending}
        /\ attempted' \in {attempted, attempted \cup {k}}
        /\ issued' = issued \cup {job}
        /\ UNCHANGED <<cache, intent, now>>
        /\ Gate!ConfirmLater(k) => pending # Nil
    BY DEF Gate!Issue, Gate!Accepted, Gate!Redeemable
  <1>2. seen' \in [CallIDs -> Keys \cup {Nil}] /\ calls' \in 0..MaxCalls
    BY <1>1, CountTypes DEF GateInd
  <1>3. job \in Gate!Jobs
    BY DEF Gate!Jobs, Gate!ConfirmLater, Mapper!TurnIds
  <1> HIDE DEF job
  <1>4. Gate!TypeOK'
    BY <1>1, <1>2, <1>3 DEF GateInd, Gate!TypeOK
  <1>5. GateInd'
    BY <1>1, <1>4 DEF GateInd, Gate!ConfirmLater
  <1> QED BY <1>1, <1>3, <1>5 DEF job

-----------------------------------------------------------------------------
(* The stream.                                                             *)

PlainEvents == {e \in Stream!StreamEvents : PlainEvent(e)}

LEMMA StreamConstants ==
    /\ Items \cap (Parts \cup CallIDs) = {}
    /\ \A c \in Calls : c \notin Items /\ c \notin Parts /\ c # None
  BY RuntimeAssumption

(* The events about contents are of no call. *)
LEMMA PlainEventType ==
  /\ \A kind \in Stream!EventKinds, a \in Items \cup Parts \cup {None} :
       kind # "use" /\ (kind \in {"start_audio", "start_text", "audio"} => a \in Parts)
         => Stream!Event(kind, a) \in PlainEvents
  /\ \A kind \in Stream!EventKinds, c \in Calls : Stream!Event(kind, c) \in Stream!StreamEvents
  <1>1. ASSUME NEW kind \in Stream!EventKinds, NEW a \in Items \cup Parts \cup {None},
               kind # "use", kind \in {"start_audio", "start_text", "audio"} => a \in Parts
        PROVE  Stream!Event(kind, a) \in PlainEvents
    <2>1. a \notin Calls
      BY StreamConstants
    <2> QED BY <1>1, <2>1 DEF PlainEvents, PlainEvent, Stream!Event, Stream!StreamEvents
  <1>2. ASSUME NEW kind \in Stream!EventKinds, NEW c \in Calls
        PROVE  Stream!Event(kind, c) \in Stream!StreamEvents
    BY DEF Stream!Event, Stream!StreamEvents, Calls
  <1> QED BY <1>1, <1>2

(* A message of the provider is up to three events about contents, or a call. *)
LEMMA MessageShape ==
  ASSUME Stream!StreamTypeOK, Stream!Receive
  PROVE  /\ \/ feed' \in Seq(PlainEvents) /\ Len(feed') <= 3
            \/ \E c \in Calls : feed' = <<Stream!Event("start", c), Stream!Event("use", c),
                                          Stream!Event("end", c)>>
         /\ openItems' \subseteq Items
         /\ openParts' \in [Parts -> Stream!PartTypes \cup {None}]
  <1> DEFINE Plain3 == feed' \in Seq(PlainEvents) /\ Len(feed') <= 3
             Books == openItems' \subseteq Items /\ openParts' \in [Parts -> Stream!PartTypes \cup {None}]
  <1>1. CASE Stream!SpeechStarted \/ Stream!ResponseDone \/ Stream!ProviderFails
    <2>1. \A kind \in {"interrupted", "completionEnd", "error"} : Stream!Event(kind, None) \in PlainEvents
      BY PlainEventType DEF Stream!EventKinds
    <2>2. PICK e \in PlainEvents : feed' = <<e>> /\ UNCHANGED <<openItems, openParts>>
      BY <1>1, <2>1 DEF Stream!SpeechStarted, Stream!ResponseDone, Stream!ProviderFails
    <2> QED BY <2>2 DEF Stream!StreamTypeOK
  <1>2. ASSUME NEW x \in Items, Stream!TranscriptionDelta(x) \/ Stream!TranscriptionCompleted(x)
        PROVE  Plain3 /\ Books
    <2>1. \A kind \in {"start", "text", "end"} : Stream!Event(kind, x) \in PlainEvents
      BY PlainEventType DEF Stream!EventKinds
    <2>2. PICK a \in PlainEvents, b \in PlainEvents, c \in PlainEvents :
            feed' \in {<<b>>, <<a, b>>, <<c>>, <<a, b, c>>}
      BY <1>2, <2>1 DEF Stream!TranscriptionDelta, Stream!TranscriptionCompleted
    <2>3. Books
      BY <1>2 DEF Stream!TranscriptionDelta, Stream!TranscriptionCompleted, Stream!StreamTypeOK
    <2>4. Plain3
      <3>1. CASE feed' = <<b>>
        BY <3>1
      <3>2. CASE feed' = <<a, b>>
        BY <3>2
      <3>3. CASE feed' = <<c>>
        BY <3>3
      <3>4. CASE feed' = <<a, b, c>>
        BY <3>4
      <3> QED BY <2>2, <3>1, <3>2, <3>3, <3>4
    <2> QED BY <2>3, <2>4
  <1>3. ASSUME NEW p \in Parts,
               Stream!PartDone(p)
                 \/ \E type \in Stream!PartTypes : Stream!PartAdded(p, type) \/ Stream!PartDelta(p, type)
        PROVE  Plain3 /\ Books
    <2>1. \A kind \in {"start_audio", "start_text", "audio", "text", "end"} :
            Stream!Event(kind, p) \in PlainEvents
      BY PlainEventType DEF Stream!EventKinds
    <2>2. Plain3
      <3>1. CASE Stream!PartDone(p)
        BY <2>1, <3>1 DEF Stream!PartDone
      <3>2. CASE \E type \in Stream!PartTypes : Stream!PartAdded(p, type) \/ Stream!PartDelta(p, type)
        <4>1. PICK type \in Stream!PartTypes : Stream!PartAdded(p, type) \/ Stream!PartDelta(p, type)
          BY <3>2
        <4>2. Stream!PartStart(p, type) \in PlainEvents /\ Stream!Event(type, p) \in PlainEvents
          BY <2>1 DEF Stream!PartStart, Stream!PartTypes
        <4>3. PICK a \in PlainEvents, b \in PlainEvents : feed' \in {<<a>>, <<b>>, <<a, b>>}
          BY <4>1, <4>2 DEF Stream!PartAdded, Stream!PartDelta
        <4>4. CASE feed' = <<a>>
          BY <4>4
        <4>5. CASE feed' = <<b>>
          BY <4>5
        <4>6. CASE feed' = <<a, b>>
          BY <4>6
        <4> QED BY <4>3, <4>4, <4>5, <4>6
      <3> QED BY <1>3, <3>1, <3>2
    <2>3. Books
      BY <1>3 DEF Stream!PartDone, Stream!PartAdded, Stream!PartDelta, Stream!PartTypes,
                  Stream!StreamTypeOK
    <2> QED BY <2>2, <2>3
  <1>4. ASSUME NEW c \in Calls, Stream!FunctionCall(c)
        PROVE  /\ feed' = <<Stream!Event("start", c), Stream!Event("use", c), Stream!Event("end", c)>>
               /\ Books
    BY <1>4 DEF Stream!FunctionCall, Stream!StreamTypeOK
  <1> QED BY <1>1, <1>2, <1>3, <1>4 DEF Stream!Receive, Calls

LEMMA ReceiveStep ==
  ASSUME Stream!StreamTypeOK, Stream!Receive, staged = NothingStaged, staged' = staged
  PROVE  Stream!StreamTypeOK' /\ FeedShape'
  <1>1. CASE feed' \in Seq(PlainEvents) /\ Len(feed') <= 3
    <2>1. feed' \in Seq(Stream!StreamEvents)
      <3>1. PlainEvents \subseteq Stream!StreamEvents
        BY DEF PlainEvents
      <3> QED BY <1>1, <3>1
    <2>2. \A i \in DOMAIN feed' : PlainEvent(feed'[i])
      BY <1>1 DEF PlainEvents
    <2> QED BY <1>1, <2>1, <2>2, MessageShape DEF Stream!StreamTypeOK, FeedShape
  <1>2. ASSUME NEW c \in Calls,
               feed' = <<Stream!Event("start", c), Stream!Event("use", c), Stream!Event("end", c)>>
        PROVE  Stream!StreamTypeOK' /\ FeedShape'
    <2>1. /\ Stream!Event("start", c) \in Stream!StreamEvents
          /\ Stream!Event("use", c) \in Stream!StreamEvents
          /\ Stream!Event("end", c) \in Stream!StreamEvents
      BY PlainEventType DEF Stream!EventKinds
    <2>2. feed' \in Seq(Stream!StreamEvents) /\ Len(feed') = 3
      BY <1>2, <2>1
    <2> QED BY <1>2, <2>2, MessageShape DEF Stream!StreamTypeOK, FeedShape
  <1> QED BY <1>1, <1>2, MessageShape

(* Reading the next event. *)
LEMMA TakeType ==
  ASSUME Stream!StreamTypeOK, feed # <<>>, feed' = Tail(feed), UNCHANGED <<openItems, openParts>>
  PROVE  Stream!StreamTypeOK' /\ Head(feed) \in Stream!StreamEvents
  <1>1. feed \in Seq(Stream!StreamEvents) /\ Len(feed) <= 3
    BY DEF Stream!StreamTypeOK
  <1>2. feed' \in Seq(Stream!StreamEvents) /\ Len(feed') = Len(feed) - 1 /\ Len(feed) \in Nat
    BY <1>1
  <1> QED BY <1>1, <1>2 DEF Stream!StreamTypeOK

(* An event about a content is not between those of a call. *)
LEMMA TakePlain ==
  ASSUME Stream!StreamTypeOK, FeedShape, staged # NothingStaged => <<staged.call, staged.key>> \in Calls,
         feed # <<>>, Head(feed).about \notin Calls
  PROVE  /\ staged = NothingStaged /\ PlainEvent(Head(feed))
         /\ feed' = Tail(feed) /\ staged' = staged => FeedShape'
  <1>0. feed \in Seq(Stream!StreamEvents)
    BY DEF Stream!StreamTypeOK
  <1>1. CASE staged = NothingStaged /\ \A i \in DOMAIN feed : PlainEvent(feed[i])
    <2>1. PlainEvent(Head(feed))
      BY <1>0, <1>1
    <2>2. ASSUME feed' = Tail(feed), staged' = staged PROVE FeedShape'
      <3>1. \A i \in DOMAIN feed' : PlainEvent(feed'[i])
        <4>1. ASSUME NEW i \in DOMAIN feed' PROVE PlainEvent(feed'[i])
          <5>1. i + 1 \in DOMAIN feed /\ feed'[i] = feed[i + 1]
            BY <1>0, <2>2
          <5> QED BY <1>1, <5>1
        <4> QED BY <4>1
      <3> QED BY <1>1, <2>2, <3>1 DEF FeedShape
    <2> QED BY <1>1, <2>1, <2>2
  <1>2. CASE ~(staged = NothingStaged /\ \A i \in DOMAIN feed : PlainEvent(feed[i]))
    BY <1>2 DEF FeedShape, Stream!Event
  <1> QED BY <1>1, <1>2

(* The events of a call come in their order. *)
LEMMA TakeCall ==
  ASSUME FeedShape, Stream!StreamTypeOK, feed # <<>>, feed' = Tail(feed),
         Head(feed).about \in Calls \/ Head(feed).kind = "use"
  PROVE  /\ Head(feed).about \in Calls \/ staged # NothingStaged
         /\ Head(feed).kind = "start" /\ staged' = staged => staged = NothingStaged /\ FeedShape'
         /\ Head(feed).kind = "use" =>
              /\ staged = NothingStaged
              /\ feed' = <<Stream!Event("end", Head(feed).about)>>
         /\ Head(feed).kind = "end" => staged # NothingStaged /\ feed' = <<>>
  <1>0. feed \in Seq(Stream!StreamEvents)
    BY DEF Stream!StreamTypeOK
  <1>1. CASE staged = NothingStaged /\ \A i \in DOMAIN feed : PlainEvent(feed[i])
    <2>1. PlainEvent(Head(feed))
      BY <1>0, <1>1
    <2> QED BY <2>1 DEF PlainEvent
  <1>2. ASSUME staged = NothingStaged, NEW c \in Calls,
               feed = <<Stream!Event("start", c), Stream!Event("use", c), Stream!Event("end", c)>>
        PROVE  /\ Head(feed).kind = "start" /\ Head(feed).about = c
               /\ feed' = <<Stream!Event("use", c), Stream!Event("end", c)>>
    BY <1>2 DEF Stream!Event
  <1>3. ASSUME staged = NothingStaged, NEW c \in Calls,
               feed = <<Stream!Event("use", c), Stream!Event("end", c)>>
        PROVE  /\ Head(feed).kind = "use" /\ Head(feed).about = c
               /\ feed' = <<Stream!Event("end", c)>>
    BY <1>3 DEF Stream!Event
  <1>4. ASSUME staged # NothingStaged, feed = <<Stream!Event("end", <<staged.call, staged.key>>)>>
        PROVE  Head(feed).kind = "end" /\ feed' = <<>>
    BY <1>4 DEF Stream!Event
  <1> QED BY <1>1, <1>2, <1>3, <1>4 DEF FeedShape

-----------------------------------------------------------------------------
(* The loop.  Its invariant, by part.                                      *)

RuntimeTypeOK ==
    /\ inputID \in Inputs \cup {None} /\ usedInputs \subseteq Inputs
    /\ timer \in BOOLEAN
    /\ userTexts \in [Items -> Mapper!TurnIds \cup {None}]
    /\ heard \in [turn : Mapper!TurnIds \cup {None}, says : Gate!Utterances]
    /\ staged \in [call : CallIDs, key : Keys \cup {Malformed}, turn : Mapper!TurnIds \cup {None},
                   void : BOOLEAN] \cup {NothingStaged}
    /\ active \subseteq [job : Gate!Jobs, stream : Nat]
    /\ stream \in 0..MaxRenewals
    /\ ended \in Endings \cup {None}

Guarded == state = "responding" => timer

LEMMA LoopParts ==
    LoopInd <=> /\ MapperInd /\ GateInd /\ Stream!StreamTypeOK /\ RuntimeTypeOK
                /\ Running => FeedShape /\ StagedIsLive /\ Guarded
  BY DEF LoopInd, TypeOK, MapperInd, GateInd, RuntimeTypeOK, Guarded

(* A new job is the staged call's, for the turn under way, on this stream, *)
(* and has the user's consent if it needs it.                              *)
NewJobs ==
    /\ \A a \in active' \ active :
         /\ a.stream = stream /\ a.job.turn = turnID /\ turnID \notin cancelled
         /\ a.job.confirmed => pending # Nil
         /\ a.job.key = staged.key
    /\ \A j \in issued' \ issued : j.key = staged.key
    /\ active' \ active # {} \/ issued' \ issued # {} => ~Void

\* A turn that responds does so until the client is told that it is over.
TurnKept ==
    Running' /\ stream' = stream /\ turnID # None /\ state = "responding" =>
        (turnID' = turnID /\ state' = "responding") \/ Over(turnID)

(* What a step of the loop keeps that begins no new input and ends no job. *)
Kept ==
    /\ LoopInd'
    /\ used' \subseteq used \cup Generated /\ usedInputs' = usedInputs
    /\ pending' # Nil => stream' = stream
    /\ stream' \in {stream, stream + 1}
    /\ stream' # stream => active' = {}
    /\ active \subseteq active'
    /\ NewJobs /\ TurnKept

LEMMA StagedStays ==
  ASSUME StagedIsLive, used \subseteq used', UNCHANGED <<staged, turnID, cancelled>>
  PROVE  StagedIsLive'
  BY DEF StagedIsLive, Void, NothingStaged

LEMMA NothingIsLive ==
  ASSUME staged' = NothingStaged
  PROVE  StagedIsLive'
  BY DEF StagedIsLive, NothingStaged

LEMMA FeedStays ==
  ASSUME FeedShape, UNCHANGED <<feed, staged>>
  PROVE  FeedShape'
  BY DEF FeedShape

LEMMA StreamStutter ==
  ASSUME Stream!StreamTypeOK, UNCHANGED streamVars
  PROVE  Stream!StreamTypeOK' /\ feed' = feed
  BY DEF Stream!StreamTypeOK, streamVars

LEMMA StagedCall ==
  ASSUME RuntimeTypeOK
  PROVE  staged # NothingStaged => <<staged.call, staged.key>> \in Calls
  BY DEF RuntimeTypeOK, Calls

(* A session that ended has nothing to keep but its types. *)
LEMMA AtTheEnd ==
  ASSUME MapperInd', GateInd', Stream!StreamTypeOK', RuntimeTypeOK', ~Running',
         used' \subseteq used \cup Generated,
         UNCHANGED <<pending, issued, active, usedInputs, stream>>
  PROVE  Kept
  BY LoopParts DEF Kept, NewJobs, TurnKept, LoopInd, TypeOK, MapperInd, GateInd, RuntimeTypeOK

(* A step of the timer, the client or the clock that leaves the mapper alone. *)
LEMMA QuietStep ==
  ASSUME LoopInd, Running, UNCHANGED <<mapperVars, streamVars>>,
         UNCHANGED <<usedInputs, userTexts, heard, staged, active, stream>>,
         GateInd', issued' = issued,
         inputID' \in Inputs \cup {None}, timer' \in {timer, TRUE}, ended' \in Endings \cup {None}
  PROVE  Kept
  <1>1. /\ MapperInd /\ Stream!StreamTypeOK /\ RuntimeTypeOK
        /\ FeedShape /\ StagedIsLive /\ Guarded
    BY LoopParts
  <1>2. MapperInd' /\ UNCHANGED <<turnID, state, cancelled, used>>
    BY <1>1, MapperStutter
  <1>3. Stream!StreamTypeOK' /\ feed' = feed
    BY <1>1, StreamStutter
  <1>4. RuntimeTypeOK'
    BY <1>1 DEF RuntimeTypeOK
  <1>5. FeedShape' /\ StagedIsLive'
    BY <1>1, <1>2, <1>3, FeedStays, StagedStays
  <1>6. Guarded'
    BY <1>1, <1>2 DEF Guarded
  <1>7. LoopInd'
    BY <1>2, <1>3, <1>4, <1>5, <1>6, LoopParts DEF LoopInd, TypeOK, MapperInd, GateInd, RuntimeTypeOK, Guarded
  <1> QED BY <1>2, <1>7 DEF Kept, NewJobs, TurnKept

LEMMA LoopPartsNext ==
  ASSUME MapperInd', GateInd', Stream!StreamTypeOK', RuntimeTypeOK',
         Running' => FeedShape' /\ StagedIsLive' /\ Guarded'
  PROVE  LoopInd'
  BY DEF LoopInd, TypeOK, MapperInd, GateInd, RuntimeTypeOK, Guarded

(* The initial state. *)
LEMMA InitLoop == Init => LoopInd
  <1> SUFFICES ASSUME Init PROVE LoopInd
    OBVIOUS
  <1>1. MapperInd
    <2> USE DEF Init, Mapper!MapperInit
    <2>1. contents \in [Contents -> Mapper!OpenContents \cup {None}]
      BY DEF Mapper!NoContents
    <2>2. history \in Seq(Mapper!TurnIds \cup {None})
      OBVIOUS
    <2> QED BY <2>1, <2>2 DEF MapperInd, Mapper!MapperTypeOK
  <1>2. GateInd
    BY GateConstants DEF Init, Gate!Init, Gate!TypeOK, Gate!NoIntent, GateInd
  <1>3. Stream!StreamTypeOK
    BY DEF Init, Stream!OpenStream, Stream!NoParts, Stream!StreamTypeOK
  <1>4. RuntimeTypeOK
    <2>1. Silence \in [turn : Mapper!TurnIds \cup {None}, says : Gate!Utterances]
      BY DEF Silence, Gate!Utterances
    <2>2. /\ inputID = None /\ usedInputs = {} /\ timer = FALSE
          /\ userTexts = [x \in Items |-> None] /\ heard = Silence
          /\ staged = NothingStaged /\ active = {} /\ stream = 0 /\ ended = None
      BY DEF Init
    <2>3. MaxRenewals \in Nat
      BY RuntimeAssumption
    <2> HIDE DEF Init
    <2>4. userTexts \in [Items -> Mapper!TurnIds \cup {None}]
      BY <2>2
    <2>5. active \subseteq [job : Gate!Jobs, stream : Nat]
      BY <2>2
    <2>6. stream \in 0..MaxRenewals
      BY <2>2, <2>3
    <2>7. heard \in [turn : Mapper!TurnIds \cup {None}, says : Gate!Utterances]
      BY <2>1, <2>2
    <2> QED BY <2>2, <2>4, <2>5, <2>6, <2>7 DEF RuntimeTypeOK
  <1>5. FeedShape
    BY DEF Init, Stream!OpenStream, FeedShape
  <1>6. StagedIsLive /\ Guarded
    <2>1. staged = NothingStaged /\ state = "idle"
      BY DEF Init, Mapper!MapperInit
    <2> QED BY <2>1 DEF StagedIsLive, NothingStaged, Guarded
  <1> QED BY <1>1, <1>2, <1>3, <1>4, <1>5, <1>6, LoopParts

(* The turn timer ends the session. *)
LEMMA TimeoutKept ==
  ASSUME LoopInd, TurnTimeout
  PROVE  Kept
  <1>1. /\ Mapper!Interrupt /\ timer' = TimerAfter(timer) /\ ended' = "timeout"
        /\ UNCHANGED <<streamVars, gateVars>>
        /\ UNCHANGED <<inputID, usedInputs, userTexts, heard, staged, active, stream>>
    BY DEF TurnTimeout
  <1>2. MapperInd' /\ used' \subseteq used \cup Generated
    BY <1>1, LoopParts, InterruptStep DEF MapperStep
  <1>3. GateInd' /\ UNCHANGED <<pending, issued>> /\ Stream!StreamTypeOK'
    BY <1>1, LoopParts, GateStutter, StreamStutter
  <1>4. RuntimeTypeOK'
    BY <1>1, LoopParts, TimerFollows DEF RuntimeTypeOK, Endings
  <1>5. ~Running'
    BY <1>1, RuntimeAssumption DEF Running, Endings
  <1> QED BY <1>1, <1>2, <1>3, <1>4, <1>5, AtTheEnd

(* A new stream and a new mapper: no call is staged and no turn responds. *)
LEMMA ReopenStep ==
  ASSUME LoopInd, NEW said \in SUBSET Mapper!Events, Reopen(said),
         timer' \in BOOLEAN, inputID' \in Inputs \cup {None}, usedInputs' = usedInputs,
         active' \subseteq active
  PROVE  /\ MapperInd' /\ Stream!StreamTypeOK' /\ RuntimeTypeOK'
         /\ FeedShape' /\ StagedIsLive' /\ Guarded'
         /\ used' = used /\ stream' = stream + 1 /\ stream' # stream
         /\ contents' = Mapper!NoContents /\ userTexts' = userTexts
         /\ ended' \in {None, "provider_unavailable"}
  <1>0. MapperInd /\ Stream!StreamTypeOK /\ RuntimeTypeOK
    BY LoopParts
  <1>1. /\ stream < MaxRenewals /\ stream' = stream + 1
        /\ Mapper!Replace /\ out' = said /\ Stream!ReopenStream /\ staged' = NothingStaged
        /\ ended' \in {None, "provider_unavailable"}
        /\ UNCHANGED <<userTexts, heard>>
    BY DEF Reopen, DropStaged
  <1>2. /\ MapperInd' /\ state' = "idle" /\ used' = used /\ contents' = Mapper!NoContents
    BY <1>0, <1>1, ReplaceStep
  <1>3. Stream!StreamTypeOK' /\ feed' = <<>>
    BY <1>1 DEF Stream!ReopenStream, Stream!NoParts, Stream!StreamTypeOK
  <1>4. FeedShape'
    BY <1>1, <1>3 DEF FeedShape
  <1>5. StagedIsLive' /\ Guarded'
    BY <1>1, <1>2, NothingIsLive DEF Guarded
  <1>6. stream \in Nat /\ MaxRenewals \in Nat /\ stream' \in 0..MaxRenewals /\ stream' # stream
    BY <1>0, <1>1, RuntimeAssumption DEF RuntimeTypeOK
  <1>7. RuntimeTypeOK'
    BY <1>0, <1>1, <1>6 DEF RuntimeTypeOK, Endings
  <1> QED BY <1>1, <1>2, <1>3, <1>4, <1>5, <1>6, <1>7

(* rotate is called when no job runs, and withdraws the user's consent. *)
LEMMA RotateKept ==
  ASSUME LoopInd, NEW said \in SUBSET Mapper!Events, Rotate(said), active = {},
         timer' \in BOOLEAN, inputID' \in Inputs \cup {None}, usedInputs' = usedInputs
  PROVE  Kept
  <1>1. Reopen(said) /\ Gate!Interrupt /\ active' = active
    BY DEF Rotate, WithdrawConsent
  <1>2. GateInd' /\ pending' = Nil /\ issued' = issued
    BY <1>1, LoopParts, InterruptGate
  <1>3. LoopInd'
    BY <1>1, <1>2, ReopenStep, LoopPartsNext
  <1>4. used' = used /\ stream' = stream + 1 /\ stream' # stream
    BY <1>1, ReopenStep
  <1> QED BY <1>1, <1>2, <1>3, <1>4 DEF Kept, NewJobs, TurnKept

LEMMA RenewKept ==
  ASSUME LoopInd, Renew
  PROVE  Kept
  <1>0. MapperInd /\ GateInd /\ RuntimeTypeOK
    BY LoopParts
  <1>1. PICK late \in BOOLEAN :
          \/ /\ MayRenew(late)
             /\ Rotate(Mapper!InterruptEvents)
             /\ timer' = TimerAfter(timer)
             /\ UNCHANGED <<inputID, usedInputs>>
          \/ /\ ended' = "tool_running"
             /\ UNCHANGED <<mapperVars, streamVars, gateVars, inputID, usedInputs,
                            timer, userTexts, heard, staged, active, stream>>
    BY DEF Renew
  <1>2. CASE MayRenew(late) /\ Rotate(Mapper!InterruptEvents)
               /\ timer' = TimerAfter(timer) /\ UNCHANGED <<inputID, usedInputs>>
    <2>1. timer' \in BOOLEAN /\ inputID' \in Inputs \cup {None}
      BY <1>0, <1>2, TimerFollows DEF RuntimeTypeOK
    <2>2. active = {}
      BY <1>2 DEF MayRenew
    <2>3. Mapper!InterruptEvents \in SUBSET Mapper!Events
      BY <1>0, Interruption
    <2> QED BY <1>2, <2>1, <2>2, <2>3, RotateKept
  <1>3. CASE /\ ended' = "tool_running"
             /\ UNCHANGED <<mapperVars, streamVars, gateVars, inputID, usedInputs,
                            timer, userTexts, heard, staged, active, stream>>
    <2>1. Running
      BY DEF Renew
    <2>2. GateInd' /\ issued' = issued
      BY <1>0, <1>3, GateStutter
    <2> QED BY <1>0, <1>3, <2>1, <2>2, QuietStep DEF RuntimeTypeOK, Endings
  <1> QED BY <1>1, <1>2, <1>3

(* A new input. *)
LEMMA AudioKept ==
  ASSUME LoopInd, NEW id \in Inputs, id \notin used, AudioAppend(id)
  PROVE  /\ LoopInd' /\ used' = used \cup {id} /\ usedInputs' = usedInputs \cup {id}
         /\ inputID' = id
         /\ UNCHANGED <<active, issued, stream, pending, userTexts, contents>>
  <1>0. /\ MapperInd /\ GateInd /\ Stream!StreamTypeOK /\ RuntimeTypeOK
        /\ FeedShape /\ StagedIsLive /\ Guarded
    BY LoopParts DEF AudioAppend
  <1>1. /\ inputID' = id /\ usedInputs' = usedInputs \cup {id}
        /\ Mapper!StartInput(id) /\ timer' = TimerAfter(timer)
        /\ UNCHANGED <<streamVars, gateVars>>
        /\ UNCHANGED <<userTexts, heard, staged, active, stream, ended>>
    BY DEF AudioAppend
  <1>2. /\ MapperInd' /\ Timed /\ used' = used \cup {id} /\ turnID' = id
    BY <1>0, <1>1, StartInputStep
  <1>3. GateInd' /\ UNCHANGED <<pending, issued>> /\ Stream!StreamTypeOK' /\ feed' = feed
    BY <1>0, <1>1, GateStutter, StreamStutter
  <1>4. RuntimeTypeOK' /\ Guarded'
    BY <1>0, <1>1, <1>2, TimerFollows DEF RuntimeTypeOK, Guarded
  <1>5. FeedShape'
    BY <1>0, <1>1, <1>3, FeedStays
  <1>6. StagedIsLive'
    <2>1. id # None /\ staged.turn \in used \cup {None}
      BY <1>0, MapperConstants DEF StagedIsLive
    <2>2. staged.turn # id
      BY <2>1
    <2> QED BY <1>1, <1>2, <2>1, <2>2 DEF StagedIsLive, Void
  <1>7. contents' = contents
    BY <1>1 DEF Mapper!StartInput
  <1> QED BY <1>1, <1>2, <1>3, <1>4, <1>5, <1>6, <1>7, LoopPartsNext

LEMMA CommitKept ==
  ASSUME LoopInd, NEW id \in Inputs, TurnCommit(id)
  PROVE  Kept
  <1>1. /\ Running /\ timer' = TRUE
        /\ UNCHANGED <<mapperVars, streamVars, gateVars>>
        /\ UNCHANGED <<inputID, usedInputs, userTexts, heard, staged, active, stream, ended>>
    BY DEF TurnCommit
  <1>2. GateInd' /\ issued' = issued
    BY <1>1, LoopParts, GateStutter
  <1>3. inputID \in Inputs \cup {None} /\ ended \in Endings \cup {None}
    BY LoopParts DEF RuntimeTypeOK
  <1> QED BY <1>1, <1>2, <1>3, QuietStep

LEMMA CancelKept ==
  ASSUME LoopInd, NEW id \in Mapper!TurnIds, TurnCancel(id)
  PROVE  Kept
  <1>0. MapperInd /\ GateInd /\ RuntimeTypeOK
    BY LoopParts
  <1>1. timer' = FALSE
    BY DEF TurnCancel
  <1>2. CASE active # {}
    <2>1. /\ Mapper!Interrupt /\ ended' = "tool_running"
          /\ UNCHANGED <<streamVars, gateVars>>
          /\ UNCHANGED <<inputID, usedInputs, userTexts, heard, staged, active, stream>>
      BY <1>2 DEF TurnCancel
    <2>2. MapperInd' /\ used' \subseteq used \cup Generated
      BY <1>0, <2>1, InterruptStep DEF MapperStep
    <2>3. GateInd' /\ UNCHANGED <<pending, issued>> /\ Stream!StreamTypeOK'
      BY <1>0, <2>1, LoopParts, GateStutter, StreamStutter
    <2>4. RuntimeTypeOK' /\ ~Running'
      BY <1>0, <1>1, <2>1, RuntimeAssumption DEF RuntimeTypeOK, Endings, Running
    <2> QED BY <2>1, <2>2, <2>3, <2>4, AtTheEnd
  <1>3. CASE active = {}
    <2>1. Rotate(Mapper!InterruptEvents) /\ inputID' = None /\ usedInputs' = usedInputs
      BY <1>3 DEF TurnCancel
    <2>2. Mapper!InterruptEvents \in SUBSET Mapper!Events
      BY <1>0, Interruption
    <2> QED BY <1>1, <1>3, <2>1, <2>2, RotateKept
  <1> QED BY <1>2, <1>3

(* The click, the stop, the loss and the clock leave the mapper alone. *)
LEMMA ClickKept ==
  ASSUME LoopInd, NEW op \in CallIDs, NEW yes \in BOOLEAN, ToolConfirm(op, yes)
  PROVE  Kept
  <1>1. /\ Running /\ Gate!Confirm(op, yes) /\ UNCHANGED <<mapperVars, streamVars>>
        /\ UNCHANGED <<inputID, usedInputs, timer, userTexts, heard, staged, active, stream, ended>>
    BY DEF ToolConfirm, runtimeVars
  <1>2. GateInd' /\ issued' = issued
    BY <1>1, LoopParts, ConfirmGate
  <1>3. inputID \in Inputs \cup {None} /\ ended \in Endings \cup {None}
    BY LoopParts DEF RuntimeTypeOK
  <1> QED BY <1>1, <1>2, <1>3, QuietStep

LEMMA EndKept ==
  ASSUME LoopInd, SessionStop \/ Lost
  PROVE  Kept
  <1>1. /\ Running /\ ended' \in {"stopped", "lost"}
        /\ UNCHANGED <<mapperVars, streamVars, gateVars>>
        /\ UNCHANGED <<inputID, usedInputs, timer, userTexts, heard, staged, active, stream>>
    BY DEF SessionStop, Lost
  <1>2. GateInd' /\ issued' = issued
    BY <1>1, LoopParts, GateStutter
  <1>3. inputID \in Inputs \cup {None} /\ ended' \in Endings \cup {None}
    BY <1>1, LoopParts DEF RuntimeTypeOK, Endings
  <1> QED BY <1>1, <1>2, <1>3, QuietStep

LEMMA ClockKept ==
  ASSUME LoopInd, TimePasses
  PROVE  Kept
  <1>1. /\ Running /\ Gate!Tick /\ UNCHANGED <<mapperVars, streamVars>>
        /\ UNCHANGED <<inputID, usedInputs, timer, userTexts, heard, staged, active, stream, ended>>
    BY DEF TimePasses, runtimeVars
  <1>2. GateInd' /\ issued' = issued
    BY <1>1, LoopParts, TickGate
  <1>3. inputID \in Inputs \cup {None} /\ ended \in Endings \cup {None}
    BY LoopParts DEF RuntimeTypeOK
  <1> QED BY <1>1, <1>2, <1>3, QuietStep

(* A job is done. *)
LEMMA FinishedStep ==
  ASSUME LoopInd, NEW a \in active, NEW r \in Gate!Results, ToolFinished(a, r)
  PROVE  /\ LoopInd' /\ active' = active \ {a}
         /\ UNCHANGED <<issued, pending, stream, used, usedInputs, inputID, turnID, state, contents,
                        userTexts, ended>>
  <1>0. /\ MapperInd /\ GateInd /\ Stream!StreamTypeOK /\ RuntimeTypeOK
        /\ FeedShape /\ StagedIsLive /\ Guarded
    BY LoopParts DEF ToolFinished
  <1>1. /\ active' = active \ {a} /\ Gate!Complete(a.job, r)
        /\ UNCHANGED <<mapperVars, streamVars>>
        /\ UNCHANGED <<inputID, usedInputs, timer, userTexts, heard, staged, stream, ended>>
    BY DEF ToolFinished
  <1>2. a.job \in Gate!Jobs
    BY <1>0 DEF RuntimeTypeOK
  <1>3. GateInd' /\ UNCHANGED <<pending, issued>>
    BY <1>0, <1>1, <1>2, CompleteGate
  <1>4. MapperInd' /\ UNCHANGED <<turnID, state, cancelled, used, contents>>
    BY <1>0, <1>1, MapperStutter
  <1>5. Stream!StreamTypeOK' /\ feed' = feed
    BY <1>0, <1>1, StreamStutter
  <1>6. RuntimeTypeOK' /\ Guarded'
    BY <1>0, <1>1, <1>4 DEF RuntimeTypeOK, Guarded
  <1>7. FeedShape' /\ StagedIsLive'
    BY <1>0, <1>1, <1>4, <1>5, FeedStays, StagedStays
  <1> QED BY <1>1, <1>3, <1>4, <1>5, <1>6, <1>7, LoopPartsNext

(* The next message of the provider. *)
LEMMA ReceiveKept ==
  ASSUME LoopInd, Receive
  PROVE  Kept
  <1>0. /\ MapperInd /\ GateInd /\ Stream!StreamTypeOK /\ RuntimeTypeOK
        /\ FeedShape /\ StagedIsLive /\ Guarded
    BY LoopParts DEF Receive
  <1>1. /\ Stream!Receive /\ UNCHANGED <<mapperVars, gateVars>>
        /\ UNCHANGED <<inputID, usedInputs, timer, userTexts, heard, staged, active, stream, ended>>
    BY DEF Receive, runtimeVars
  <1>2. staged = NothingStaged
    <2>1. feed = <<>>
      BY <1>1 DEF Stream!Receive
    <2> QED BY <1>0, <2>1 DEF FeedShape
  <1>3. Stream!StreamTypeOK' /\ FeedShape'
    BY <1>0, <1>1, <1>2, ReceiveStep
  <1>4. MapperInd' /\ UNCHANGED <<turnID, state, cancelled, used>>
    BY <1>0, <1>1, MapperStutter
  <1>5. GateInd' /\ UNCHANGED <<pending, issued>>
    BY <1>0, <1>1, GateStutter
  <1>6. RuntimeTypeOK' /\ Guarded'
    BY <1>0, <1>1, <1>4 DEF RuntimeTypeOK, Guarded
  <1>7. StagedIsLive'
    BY <1>0, <1>1, <1>4, StagedStays
  <1>8. LoopInd'
    BY <1>3, <1>4, <1>5, <1>6, <1>7, LoopPartsNext
  <1> QED BY <1>1, <1>4, <1>5, <1>8 DEF Kept, NewJobs, TurnKept

(* An event that the mapper sees and that stages no call. *)
LEMMA EmitKept ==
  ASSUME LoopInd, Running, Stream!StreamTypeOK', staged = NothingStaged, FeedShape',
         MapperStep, Emit, GateInd', issued' = issued,
         UNCHANGED <<inputID, usedInputs, staged, active, stream>>,
         userTexts' \in [Items -> Mapper!TurnIds \cup {None}],
         heard' \in [turn : Mapper!TurnIds \cup {None}, says : Gate!Utterances]
  PROVE  Kept
  <1>0. RuntimeTypeOK /\ Guarded
    BY LoopParts
  <1>1. /\ MapperInd' /\ Timed /\ Announced /\ used' \subseteq used \cup Generated
    BY DEF MapperStep
  <1>2. /\ timer' = TimerAfter(timer) /\ ended' \in {"provider_failed", None}
        /\ Running' => ~err'
    BY RuntimeAssumption DEF Emit, Running, Endings
  <1>3. timer' \in BOOLEAN /\ Guarded'
    BY <1>0, <1>1, <1>2, TimerFollows DEF RuntimeTypeOK, Guarded
  <1>4. RuntimeTypeOK'
    BY <1>0, <1>2, <1>3 DEF RuntimeTypeOK, Endings
  <1>5. LoopInd'
    BY <1>1, <1>3, <1>4, NothingIsLive, LoopPartsNext
  <1>6. TurnKept
    BY <1>1, <1>2 DEF TurnKept, Announced
  <1> QED BY <1>1, <1>5, <1>6 DEF Kept, NewJobs

(* Only a start, a use or an end is of a call. *)
LEMMA KindsOfACall ==
  ASSUME FeedShape, Stream!StreamTypeOK, feed # <<>>, Head(feed).kind \notin {"start", "use", "end"}
  PROVE  Head(feed).about \notin Calls
  <1>0. feed \in Seq(Stream!StreamEvents)
    BY DEF Stream!StreamTypeOK
  <1>1. CASE staged = NothingStaged /\ \A i \in DOMAIN feed : PlainEvent(feed[i])
    <2>1. PlainEvent(Head(feed))
      BY <1>0, <1>1
    <2> QED BY <2>1 DEF PlainEvent
  <1>2. CASE ~(staged = NothingStaged /\ \A i \in DOMAIN feed : PlainEvent(feed[i]))
    <2>1. Head(feed).kind \in {"start", "use", "end"}
      BY <1>2 DEF FeedShape, Stream!Event
    <2> QED BY <2>1
  <1> QED BY <1>1, <1>2

(* What reading an event about a content gives every handler. *)
LEMMA TakenPlain ==
  ASSUME LoopInd, NEW kind, Take(kind), Head(feed).about \notin Calls, staged' = staged
  PROVE  /\ Running /\ staged = NothingStaged /\ PlainEvent(Head(feed)) /\ Head(feed).kind = kind
         /\ Stream!StreamTypeOK' /\ FeedShape'
         /\ UNCHANGED <<inputID, usedInputs, stream>>
  <1>0. Stream!StreamTypeOK /\ RuntimeTypeOK /\ FeedShape
    BY LoopParts DEF Take
  <1>1. /\ Running /\ feed # <<>> /\ feed' = Tail(feed) /\ Head(feed).kind = kind
        /\ UNCHANGED <<openItems, openParts, inputID, usedInputs, stream>>
    BY DEF Take
  <1> QED BY <1>0, <1>1, TakeType, TakePlain, StagedCall

LEMMA PlainKept ==
  ASSUME LoopInd, Plain
  PROVE  Kept
  <1>0. MapperInd /\ GateInd /\ RuntimeTypeOK /\ Stream!StreamTypeOK
    BY LoopParts
  <1>1. Emit /\ UNCHANGED <<gateVars, userTexts, heard, staged, active>>
    BY DEF Plain, NoTools
  <1>2. GateInd' /\ UNCHANGED <<pending, issued>>
    BY <1>0, <1>1, GateStutter
  <1>3. ASSUME NEW kind, Take(kind), kind \notin {"start", "use", "end"} \/ About \notin Calls, MapperStep
        PROVE  Kept
    <2>1. Head(feed).about \notin Calls
      BY <1>0, <1>3, LoopParts, KindsOfACall DEF Take, About
    <2>2. /\ Running /\ staged = NothingStaged /\ Stream!StreamTypeOK' /\ FeedShape'
          /\ UNCHANGED <<inputID, usedInputs, stream>>
      BY <1>1, <1>3, <2>1, TakenPlain
    <2> QED BY <1>0, <1>1, <1>2, <1>3, <2>2, EmitKept DEF RuntimeTypeOK
  <1>4. \A c \in Items \cup Parts : c \in Contents /\ c \notin Calls
    BY StreamConstants DEF Contents
  <1>5. CASE Take("interrupted") /\ Mapper!Interrupt
    BY <1>0, <1>3, <1>5, InterruptStep
  <1>6. CASE Take("completionEnd") /\ Mapper!CompletionEnd
    BY <1>0, <1>3, <1>6, CompletionEndStep
  <1>7. CASE Take("error") /\ Mapper!ProviderError
    BY <1>0, <1>3, <1>7, IdleStep
  <1>8. CASE Take("audio") /\ \E valid \in BOOLEAN : Mapper!AudioOutput(About, valid)
    <2>1. About \notin Calls
      BY <1>0, <1>8, LoopParts, KindsOfACall DEF Take, About
    <2>2. About \in Parts
      BY <1>1, <1>8, <2>1, TakenPlain DEF About, PlainEvent
    <2> QED BY <1>0, <1>3, <1>4, <1>8, <2>2, AudioOutputStep
  <1>9. CASE /\ Take("text") /\ About \in Parts
             /\ \E fits, empty \in BOOLEAN : Mapper!TextOutput(About, fits, empty)
    BY <1>0, <1>3, <1>4, <1>9, TextOutputStep
  <1>10. CASE Take("end") /\ About \in Parts /\ Mapper!ContentEnd(About, "other", TRUE)
    BY <1>0, <1>3, <1>4, <1>10, ContentEndStep
  <1>11. CASE /\ Take("start") /\ About \in Items
              /\ \E drawn \in Generated : Mapper!UserStarts(About, "user_text", drawn)
    BY <1>0, <1>3, <1>4, <1>11, UserStartsStep
  <1> QED BY <1>5, <1>6, <1>7, <1>8, <1>9, <1>10, <1>11 DEF Plain

(* The user's words, and the end of an utterance. *)
LEMMA UserTextKept ==
  ASSUME LoopInd, UserText
  PROVE  Kept
  <1>0. MapperInd /\ GateInd /\ RuntimeTypeOK
    BY LoopParts
  <1>1. /\ Take("text") /\ About \in Items
        /\ Emit /\ UNCHANGED <<gateVars, heard, staged, active>>
        /\ userTexts' = IF out' = {} THEN userTexts ELSE [userTexts EXCEPT ![About] = turnID]
    BY DEF UserText
  <1>2. About \notin Calls /\ About \in Contents
    BY <1>1, StreamConstants DEF Contents
  <1>3. /\ Running /\ staged = NothingStaged /\ Stream!StreamTypeOK' /\ FeedShape'
        /\ UNCHANGED <<inputID, usedInputs, stream>>
    BY <1>1, <1>2, TakenPlain DEF About
  <1>4. MapperStep
    BY <1>0, <1>2, TextOutputStep DEF UserText
  <1>5. userTexts' \in [Items -> Mapper!TurnIds \cup {None}]
    BY <1>0, <1>1 DEF RuntimeTypeOK, MapperInd, Mapper!MapperTypeOK
  <1> QED BY <1>0, <1>1, <1>3, <1>4, <1>5, EmitKept, GateStutter DEF RuntimeTypeOK

LEMMA UserEndKept ==
  ASSUME LoopInd, UserEnd
  PROVE  Kept
  <1>0. MapperInd /\ GateInd /\ RuntimeTypeOK
    BY LoopParts
  <1>1. /\ Take("end") /\ About \in Items
        /\ Emit /\ UNCHANGED <<gateVars, staged, active>>
    BY DEF UserEnd
  <1>2. About \notin Calls /\ About \in Contents
    BY <1>1, StreamConstants DEF Contents
  <1>3. /\ Running /\ staged = NothingStaged /\ Stream!StreamTypeOK' /\ FeedShape'
        /\ UNCHANGED <<inputID, usedInputs, stream>>
    BY <1>1, <1>2, TakenPlain DEF About
  <1>4. MapperStep
    BY <1>0, <1>2, ContentEndStep DEF UserEnd
  <1>5. \/ UNCHANGED <<userTexts, heard>>
        \/ /\ \E u \in Gate!Utterances : heard' = [turn |-> userTexts[About], says |-> u]
           /\ userTexts' = [userTexts EXCEPT ![About] = None]
    BY DEF UserEnd
  <1>6. /\ userTexts' \in [Items -> Mapper!TurnIds \cup {None}]
        /\ heard' \in [turn : Mapper!TurnIds \cup {None}, says : Gate!Utterances]
    BY <1>0, <1>1, <1>5 DEF RuntimeTypeOK
  <1> QED BY <1>0, <1>1, <1>3, <1>4, <1>6, EmitKept, GateStutter DEF RuntimeTypeOK

(* The start of an answer or of a tool call. *)
LEMMA OutputBeginsStep ==
  ASSUME LoopInd, OutputBegins, staged' = staged
  PROVE  /\ Running /\ staged = NothingStaged /\ Stream!StreamTypeOK' /\ FeedShape' /\ MapperStep
         /\ UNCHANGED <<inputID, usedInputs, stream>>
  <1>0. MapperInd /\ GateInd /\ RuntimeTypeOK /\ Stream!StreamTypeOK
    BY LoopParts
  <1>1. ASSUME NEW kind \in {"start_audio", "start_text"}, NEW type \in {"audio", "final"},
               Take(kind), Mapper!OutputStarts(About, type)
        PROVE  /\ Running /\ staged = NothingStaged /\ Stream!StreamTypeOK' /\ FeedShape' /\ MapperStep
               /\ UNCHANGED <<inputID, usedInputs, stream>>
    <2>1. Head(feed).about \notin Calls
      BY <1>0, <1>1, LoopParts, KindsOfACall DEF Take
    <2>2. /\ Running /\ staged = NothingStaged /\ PlainEvent(Head(feed)) /\ Head(feed).kind = kind
          /\ Stream!StreamTypeOK' /\ FeedShape'
          /\ UNCHANGED <<inputID, usedInputs, stream>>
      BY <1>1, <2>1, TakenPlain
    <2>3. About \in Contents
      BY <2>2 DEF About, PlainEvent, Contents
    <2>4. MapperStep
      BY <1>0, <1>1, <2>3, OutputStartsStep
    <2> QED BY <2>2, <2>4
  <1>2. ASSUME Take("start"), About \in Calls, Mapper!OutputStarts(About[1], "tool")
        PROVE  /\ Running /\ staged = NothingStaged /\ Stream!StreamTypeOK' /\ FeedShape' /\ MapperStep
               /\ UNCHANGED <<inputID, usedInputs, stream>>
    <2>1. /\ Running /\ feed # <<>> /\ feed' = Tail(feed) /\ Head(feed).kind = "start"
          /\ UNCHANGED <<openItems, openParts, inputID, usedInputs, stream>>
      BY <1>2 DEF Take
    <2>2. staged = NothingStaged /\ FeedShape'
      BY <1>0, <1>2, <2>1, LoopParts, TakeCall DEF About
    <2>3. Stream!StreamTypeOK'
      BY <1>0, <2>1, TakeType
    <2>4. About[1] \in Contents
      BY <1>2 DEF Calls, Contents
    <2>5. MapperStep
      BY <1>0, <1>2, <2>4, OutputStartsStep
    <2> QED BY <2>1, <2>2, <2>3, <2>5
  <1> QED BY <1>1, <1>2 DEF OutputBegins

LEMMA OutputStartKept ==
  ASSUME LoopInd, OutputStart
  PROVE  Kept
  <1>0. MapperInd /\ GateInd /\ RuntimeTypeOK
    BY LoopParts
  <1>1. /\ OutputBegins /\ Emit /\ UNCHANGED <<userTexts, heard, staged, active>>
        /\ UNCHANGED gateVars \/ Observe
    BY DEF OutputStart
  <1>2. GateInd' /\ issued' = issued
    <2>1. CASE UNCHANGED gateVars
      BY <1>0, <2>1, GateStutter
    <2>2. CASE Gate!ObserveUser(heard.turn, heard.says)
      <3>1. heard.turn \in Mapper!TurnIds \cup {None} /\ heard.says \in Gate!Utterances
        BY <1>0 DEF RuntimeTypeOK
      <3> QED BY <1>0, <2>2, <3>1, ObserveGate
    <2> QED BY <1>1, <2>1, <2>2 DEF Observe
  <1>3. /\ Running /\ staged = NothingStaged /\ Stream!StreamTypeOK' /\ FeedShape' /\ MapperStep
        /\ UNCHANGED <<inputID, usedInputs, stream>>
    BY <1>1, OutputBeginsStep
  <1>4. userTexts \in [Items -> Mapper!TurnIds \cup {None}]
        /\ heard \in [turn : Mapper!TurnIds \cup {None}, says : Gate!Utterances]
    BY <1>0 DEF RuntimeTypeOK
  <1> QED BY <1>1, <1>2, <1>3, <1>4, EmitKept

(* A call is staged, void if the mapper does not heed it. *)
LEMMA ToolUseKept ==
  ASSUME LoopInd, ToolUse
  PROVE  Kept
  <1>0. MapperInd /\ GateInd /\ RuntimeTypeOK /\ Stream!StreamTypeOK /\ StagedIsLive /\ Guarded /\ FeedShape
    BY LoopParts DEF ToolUse, Take
  <1>1. /\ Running /\ feed # <<>> /\ feed' = Tail(feed) /\ Head(feed).kind = "use"
        /\ UNCHANGED <<openItems, openParts, inputID, usedInputs, stream>>
        /\ Mapper!ToolUse(About[1])
        /\ staged' = [call |-> About[1], key |-> About[2], turn |-> turnID, void |-> out' = {}]
        /\ UNCHANGED <<gateVars, timer, userTexts, heard, active, ended>>
    BY DEF ToolUse, Take
  <1>2. staged = NothingStaged /\ About \in Calls /\ feed' = <<Stream!Event("end", About)>>
    BY <1>0, <1>1, TakeCall DEF About
  <1>3. PICK id \in CallIDs, k \in Keys \cup {Malformed} : About = <<id, k>>
    BY <1>2 DEF Calls
  <1>4. /\ staged' = [call |-> id, key |-> k, turn |-> turnID, void |-> out' = {}]
        /\ Mapper!ToolUse(id) /\ id \in Contents
    BY <1>1, <1>3 DEF Contents
  <1>5. /\ MapperInd' /\ UNCHANGED <<turnID, state, cancelled, used>>
        /\ out' # {} => turnID \notin cancelled
    BY <1>0, <1>4, ToolUseStep DEF MapperStep
  <1>6. staged' # NothingStaged /\ staged'.call = id /\ staged'.key = k /\ staged'.turn = turnID
        /\ (staged'.void <=> out' = {})
    <2>1. id # None
      BY <1>4, MapperConstants
    <2> QED BY <1>4, <2>1 DEF NothingStaged
  <1>7. FeedShape'
    <2>1. feed' = <<Stream!Event("end", <<staged'.call, staged'.key>>)>>
      BY <1>2, <1>3, <1>6
    <2> QED BY <1>6, <2>1 DEF FeedShape, Stream!Event
  <1>8. StagedIsLive'
    BY <1>0, <1>5, <1>6 DEF StagedIsLive, Void, MapperInd
  <1>9. Stream!StreamTypeOK'
    BY <1>0, <1>1, TakeType
  <1>10. GateInd' /\ UNCHANGED <<pending, issued>>
    BY <1>0, <1>1, GateStutter
  <1>11. RuntimeTypeOK'
    <2>1. (out' = {}) \in BOOLEAN
      OBVIOUS
    <2>2. staged' \in [call : CallIDs, key : Keys \cup {Malformed}, turn : Mapper!TurnIds \cup {None},
                       void : BOOLEAN]
      BY <1>0, <1>4, <2>1 DEF MapperInd, Mapper!MapperTypeOK
    <2> QED BY <1>0, <1>1, <2>2 DEF RuntimeTypeOK
  <1>12. Guarded'
    BY <1>0, <1>1, <1>5 DEF Guarded
  <1>13. LoopInd'
    BY <1>5, <1>7, <1>8, <1>9, <1>10, <1>11, <1>12, LoopPartsNext
  <1> QED BY <1>1, <1>5, <1>10, <1>13 DEF Kept, NewJobs, TurnKept

(* What the gate makes of a staged call: at most a job, and only with the  *)
(* consent it needs.                                                       *)
LEMMA ExecuteStep ==
  ASSUME GateInd, RuntimeTypeOK, NEW id \in CallIDs, NEW k \in Keys \cup {Malformed},
         NEW t \in Mapper!TurnIds \cup {None}, Execute(id, k, t)
  PROVE  /\ GateInd' /\ active \subseteq active'
         /\ active' \subseteq [job : Gate!Jobs, stream : Nat]
         /\ \A a \in active' \ active :
              /\ a.stream = stream /\ a.job.turn = t /\ a.job.key = k
              /\ a.job.confirmed => pending # Nil
         /\ \A j \in issued' \ issued : j.key = k
  <1>1. CASE Gate!Refuse(id, k) /\ UNCHANGED active
    <2>1. UNCHANGED gateVars
      BY <1>1 DEF Gate!Refuse, Gate!gateVars, gateVars
    <2> QED BY <1>1, <2>1, GateStutter DEF RuntimeTypeOK
  <1>2. CASE k # Malformed /\ (Gate!AnswerAtOnce(id, k, t) \/ Gate!AskConfirmation(id, k, t))
               /\ UNCHANGED active
    <2>1. k \in Keys
      BY <1>2
    <2> QED BY <1>2, <2>1, AnswerGate DEF RuntimeTypeOK
  <1>3. CASE /\ k # Malformed /\ Gate!Issue(id, k, t)
             /\ active' = IF Cardinality(active) < MaxActive
                          THEN active \cup {[job |-> [id |-> id, key |-> k, turn |-> t,
                                                      confirmed |-> Gate!ConfirmLater(k)],
                                             stream |-> stream]}
                          ELSE active
    <2> DEFINE job == [id |-> id, key |-> k, turn |-> t, confirmed |-> Gate!ConfirmLater(k)]
    <2>0. k \in Keys
      BY <1>3
    <2>1. /\ GateInd' /\ job \in Gate!Jobs /\ issued' = issued \cup {job}
          /\ job.confirmed => pending # Nil
          /\ job.turn = t /\ job.key = k
      BY <1>3, <2>0, IssueGate
    <2>2. active' \in {active, active \cup {[job |-> job, stream |-> stream]}}
      BY <1>3
    <2> HIDE DEF job
    <2>3. stream \in Nat /\ active \subseteq [job : Gate!Jobs, stream : Nat]
      BY RuntimeAssumption DEF RuntimeTypeOK
    <2> QED BY <2>1, <2>2, <2>3
  <1> QED BY <1>1, <1>2, <1>3 DEF Execute

(* The end of a call: it is executed unless it is void. *)
LEMMA CallEndKept ==
  ASSUME LoopInd, Take("end"), About \in Calls, Mapper!ContentEnd(About[1], "other", TRUE),
         Emit, staged' = NothingStaged, UNCHANGED <<userTexts, heard>>,
         \/ UNCHANGED <<gateVars, active>>
         \/ ~Void /\ Execute(staged.call, staged.key, staged.turn)
  PROVE  Kept
  <1>0. MapperInd /\ GateInd /\ RuntimeTypeOK /\ Stream!StreamTypeOK /\ StagedIsLive /\ Guarded /\ FeedShape
    BY LoopParts DEF Take
  <1>1. /\ Running /\ feed # <<>> /\ feed' = Tail(feed) /\ Head(feed).kind = "end" /\ About \in Calls
        /\ UNCHANGED <<openItems, openParts, inputID, usedInputs, stream>>
        /\ Mapper!ContentEnd(About[1], "other", TRUE)
        /\ Emit /\ staged' = NothingStaged /\ UNCHANGED <<userTexts, heard>>
    BY DEF Take
  <1>2. \/ UNCHANGED <<gateVars, active>>
        \/ ~Void /\ Execute(staged.call, staged.key, staged.turn)
    OBVIOUS
  <1>3. staged # NothingStaged /\ feed' = <<>>
    BY <1>0, <1>1, TakeCall DEF About
  <1>4. /\ staged.call \in CallIDs /\ staged.key \in Keys \cup {Malformed}
        /\ staged.turn \in Mapper!TurnIds \cup {None}
    BY <1>0, <1>3 DEF RuntimeTypeOK
  <1>5. About[1] \in Contents
    BY <1>1 DEF Calls, Contents
  <1>6. MapperStep /\ UNCHANGED <<turnID, state, cancelled, used>>
    BY <1>0, <1>1, <1>5, ContentEndStep
  <1>7. /\ GateInd' /\ active \subseteq active' /\ NewJobs
        /\ active' \subseteq [job : Gate!Jobs, stream : Nat]
    <2>1. CASE UNCHANGED <<gateVars, active>>
      <3>1. GateInd' /\ issued' = issued
        BY <1>0, <2>1, GateStutter
      <3> QED BY <1>0, <2>1, <3>1 DEF NewJobs, RuntimeTypeOK
    <2>2. CASE ~Void /\ Execute(staged.call, staged.key, staged.turn)
      <3>1. staged.turn = turnID /\ turnID \notin cancelled
        BY <1>0, <1>3, <2>2 DEF StagedIsLive, Void
      <3>2. /\ GateInd' /\ active \subseteq active'
            /\ active' \subseteq [job : Gate!Jobs, stream : Nat]
            /\ \A a \in active' \ active :
                 /\ a.stream = stream /\ a.job.turn = staged.turn /\ a.job.key = staged.key
                 /\ a.job.confirmed => pending # Nil
            /\ \A j \in issued' \ issued : j.key = staged.key
        BY <1>0, <1>4, <2>2, ExecuteStep
      <3> QED BY <2>2, <3>1, <3>2 DEF NewJobs
    <2> QED BY <1>2, <2>1, <2>2
  <1>8. timer' = TimerAfter(timer) /\ ended' \in {"provider_failed", None}
    BY <1>1 DEF Emit
  <1>9. timer' \in BOOLEAN /\ Guarded'
    BY <1>0, <1>6, <1>8, TimerFollows DEF MapperStep, Guarded, RuntimeTypeOK
  <1>10. RuntimeTypeOK'
    BY <1>0, <1>1, <1>7, <1>8, <1>9 DEF RuntimeTypeOK, Endings
  <1>11. Stream!StreamTypeOK' /\ FeedShape' /\ StagedIsLive'
    BY <1>0, <1>1, <1>3, TakeType, NothingIsLive DEF FeedShape
  <1>12. LoopInd'
    BY <1>6, <1>7, <1>9, <1>10, <1>11, LoopPartsNext DEF MapperStep
  <1> QED BY <1>1, <1>6, <1>7, <1>12 DEF Kept, TurnKept

LEMMA ToolEndKept ==
  ASSUME LoopInd, ToolEnd
  PROVE  Kept
  <1>1. /\ Take("end") /\ About \in Calls /\ Mapper!ContentEnd(About[1], "other", TRUE)
        /\ Emit /\ staged' = NothingStaged /\ UNCHANGED <<userTexts, heard>>
    BY DEF ToolEnd
  <1>2. \/ UNCHANGED <<gateVars, active>>
        \/ ~Void /\ Execute(staged.call, staged.key, staged.turn)
    BY DEF ToolEnd
  <1> QED BY <1>1, <1>2, CallEndKept

LEMMA LoopStutter ==
  ASSUME LoopInd, UNCHANGED vars
  PROVE  LoopInd'
  <1>0. MapperInd /\ GateInd /\ RuntimeTypeOK /\ Stream!StreamTypeOK
    BY LoopParts
  <1>1. /\ UNCHANGED <<mapperVars, streamVars, gateVars>>
        /\ UNCHANGED <<inputID, usedInputs, timer, userTexts, heard, staged, active, stream, ended>>
    BY DEF vars, runtimeVars
  <1>2. MapperInd' /\ UNCHANGED <<turnID, state, cancelled, used>>
    BY <1>0, <1>1, MapperStutter
  <1>3. GateInd' /\ Stream!StreamTypeOK' /\ feed' = feed
    BY <1>0, <1>1, GateStutter, StreamStutter
  <1>4. RuntimeTypeOK'
    BY <1>0, <1>1 DEF RuntimeTypeOK
  <1>5. Running' => FeedShape' /\ StagedIsLive' /\ Guarded'
    BY <1>1, <1>2, <1>3, LoopParts, FeedStays, StagedStays DEF Running, Guarded
  <1> QED BY <1>2, <1>3, <1>4, <1>5, LoopPartsNext

(* A step that leaves a question pending and puts no new one found it pending. *)
LEMMA QuestionStays ==
  ASSUME GateInd', pending' # Nil, ~NewQuestion
  PROVE  pending # Nil
  <1>1. Question(pending') = Question(pending)
    BY DEF NewQuestion
  <1>2. Question(pending') \in Gate!Pendings
    BY DEF Question, GateInd, Gate!TypeOK, Gate!Pendings
  <1> QED BY <1>1, <1>2, GateConstants DEF Question

================================================================================
