---------------------------- MODULE TurnStoryProofs ----------------------------
(***************************************************************************)
(* Proofs about the mapper, for every set of turn and content ids and every *)
(* limit: the inductive invariant StoryInv and the three promises made to  *)
(* the client.  A provider event is one of the shapes below, whatever its  *)
(* kind; each shape is dealt with once.  Then about the messages: what is  *)
(* told reaches the client, and what a client sends reaches the loop.      *)
(***************************************************************************)
EXTENDS TurnRelay, TLAPS, SequenceTheorems

USE MapperAssumption

(* The events of a call are events. *)
LEMMA EvType == \A type \in EventTypes, t \in TurnIds \cup {None} : Ev(type, t) \in Events
  BY DEF Ev, Events

LEMMA InterruptEventsType ==
  ASSUME turnID \in TurnIds \cup {None}
  PROVE  InterruptEvents \subseteq Events
  BY EvType DEF InterruptEvents, EventTypes

(* The initial state satisfies the invariant. *)
LEMMA InitStory == Init => StoryInv
  <1> SUFFICES ASSUME Init PROVE StoryInv
    OBVIOUS
  <1> USE DEF Init, MapperInit
  <1>a. contents \in [Contents -> OpenContents \cup {None}]
    BY DEF NoContents
  <1>b. history \in Seq(TurnIds \cup {None})
    OBVIOUS
  <1>1. MapperTypeOK
    BY <1>a, <1>b DEF MapperTypeOK
  <1>2. StoryTypeOK
    BY <1>1 DEF StoryTypeOK
  <1>3. ActiveTurnIsLive /\ CurrentIsTold /\ UnheardUntilTold /\ NextInputIsFresh
    BY DEF ActiveTurnIsLive, CurrentIsTold, UnheardUntilTold, NextInputIsFresh, TurnIds
  <1>4. NumberedAsHeard
    BY DEF NumberedAsHeard
  <1> QED BY <1>2, <1>3, <1>4 DEF StoryInv

(* The history stays a sequence of turns, whatever the limits drop. *)
LEMMA RememberType ==
  ASSUME history \in Seq(TurnIds \cup {None}), NEW t \in TurnIds \cup {None}, Remember(t)
  PROVE  history' \in Seq(TurnIds \cup {None})
  <1> DEFINE all == Append(history, t)
  <1>1. all \in Seq(TurnIds \cup {None})
    OBVIOUS
  <1>2. PICK n \in 1..Len(all) : history' = SubSeq(all, Len(all) - n + 1, Len(all))
    BY DEF Remember
  <1>3. Len(all) \in Nat /\ Len(all) - n + 1 \in 1..Len(all)
    BY <1>1
  <1> QED BY <1>1, <1>2, <1>3, SubSeqProperties

(* Types are kept by every step. *)
LEMMA TypeStep == StoryTypeOK /\ Next => StoryTypeOK'
  <1> SUFFICES ASSUME StoryTypeOK, Next PROVE StoryTypeOK'
    OBVIOUS
  <1>1. MapperTypeOK'
    <2> USE DEF StoryTypeOK, MapperTypeOK
    <2>0. CancelledNow \subseteq TurnIds /\ InterruptEvents \subseteq Events
      BY InterruptEventsType DEF CancelledNow, Interruptible
    <2>1. CASE Interrupt
      BY <2>0, <2>1 DEF Interrupt
    <2>2. CASE \E id \in Inputs : StartInput(id) \/ QueueInput(id) \/ StartAssistant(id)
      <3>1. PICK id \in Inputs : StartInput(id) \/ QueueInput(id) \/ StartAssistant(id)
        BY <2>2
      <3>2. id \in TurnIds
        BY DEF TurnIds
      <3>3. {Ev("started", id), Ev("listening", id), Ev("responding", id)} \subseteq Events
        BY <3>2, EvType DEF EventTypes
      <3>4. CASE StartInput(id)
        BY <2>0, <3>2, <3>3, <3>4 DEF StartInput
      <3>5. CASE QueueInput(id)
        BY <3>2, <3>5 DEF QueueInput
      <3>6. CASE StartAssistant(id)
        BY <3>2, <3>3, <3>6 DEF StartAssistant
      <3> QED BY <3>1, <3>4, <3>5, <3>6
    <2>3. ASSUME NEW c \in Contents, NEW kind \in UserKinds, NEW drawn \in Generated,
                 UserStarts(c, kind, drawn)
          PROVE  MapperTypeOK'
      <3> DEFINE gone == IF state = "responding" THEN CancelledNow ELSE cancelled
                 id == UserTurn(drawn, gone)
      <3>1. id \in TurnIds
        BY DEF UserTurn, Ended, TurnIds
      <3>2. {Ev("started", id), Ev("listening", id)} \subseteq Events
        BY <3>1, EvType DEF EventTypes
      <3>3. [turn |-> id, kind |-> kind, text |-> FALSE] \in OpenContents
        BY <3>1 DEF OpenContents, UserKinds, Kinds
      <3>4. gone \subseteq TurnIds /\ drawn \in TurnIds
        BY <2>0 DEF TurnIds
      <3> HIDE DEF id, gone
      <3>5. /\ turnID' = id /\ cancelled' = gone /\ state' = "listening" /\ waitingUser' = FALSE
            /\ used' \in {used, used \cup {drawn}} /\ sequence' \in {0, sequence}
            /\ UNCHANGED <<nextInput, answered, users, history>>
        BY <2>3 DEF UserStarts, SequenceOfNewTurn, id, gone
      <3>6. /\ out' \subseteq InterruptEvents \cup {Ev("started", id), Ev("listening", id)}
            /\ err' \in BOOLEAN
            /\ contents' \in {contents,
                              [contents EXCEPT ![c] = [turn |-> id, kind |-> kind, text |-> FALSE]]}
        BY <2>3 DEF UserStarts, Fail, id, gone
      <3>7. contents' \in [Contents -> OpenContents \cup {None}]
        <4> DEFINE content == [turn |-> id, kind |-> kind, text |-> FALSE]
        <4>1. content \in OpenContents /\ contents' \in {contents, [contents EXCEPT ![c] = content]}
          BY <3>3, <3>6
        <4>2. contents \in [Contents -> OpenContents \cup {None}]
          OBVIOUS
        <4> HIDE DEF content
        <4> QED BY <4>1, <4>2
      <3>8. out' \subseteq Events
        BY <2>0, <3>2, <3>6
      <3>9. sequence' \in Nat /\ used' \subseteq TurnIds
        BY <3>4, <3>5
      <3>10. err' \in BOOLEAN
        BY <3>6
      <3> QED BY <3>1, <3>4, <3>5, <3>7, <3>8, <3>9, <3>10
    <2>4. ASSUME NEW c \in Contents, NEW kind \in Kinds \ UserKinds, OutputStarts(c, kind)
          PROVE  MapperTypeOK'
      <3>1. [turn |-> turnID, kind |-> kind, text |-> FALSE] \in OpenContents
        BY DEF OpenContents
      <3>2. Ev("responding", turnID) \in Events
        BY EvType DEF EventTypes
      <3> QED BY <2>4, <3>1, <3>2 DEF OutputStarts, ProviderError, Nothing, Fail
    <2>5. ASSUME NEW c \in Contents, NEW fits \in BOOLEAN, NEW empty \in BOOLEAN,
                 TextOutput(c, fits, empty)
          PROVE  MapperTypeOK'
      <3>1. CASE Live(c) /\ fits
        <4>1. contents[c] \in OpenContents
          BY <3>1 DEF Live
        <4>2. Ev("transcript", contents[c].turn) \in Events
          BY <4>1, EvType DEF OpenContents, EventTypes
        <4> DEFINE text == contents[c].text \/ (contents[c].kind = "user_text" /\ ~empty)
        <4>a. text \in BOOLEAN
          OBVIOUS
        <4>b. contents' = [contents EXCEPT ![c].text = text]
          BY <2>5, <3>1 DEF TextOutput
        <4> HIDE DEF text
        <4>c. [contents[c] EXCEPT !.text = text] \in OpenContents
          BY <4>1, <4>a DEF OpenContents
        <4>3. contents' \in [Contents -> OpenContents \cup {None}]
          BY <4>b, <4>c
        <4> QED BY <2>5, <3>1, <4>2, <4>3 DEF TextOutput
      <3>2. CASE ~(Live(c) /\ fits)
        BY <2>5, <3>2 DEF TextOutput, ProviderError, Nothing, Fail
      <3> QED BY <3>1, <3>2
    <2>6. ASSUME NEW c \in Contents, NEW valid \in BOOLEAN, AudioOutput(c, valid)
          PROVE  MapperTypeOK'
      <3>1. CASE Live(c)
        <4>1. [type |-> "audio", turn |-> contents[c].turn, n |-> sequence + 1] \in Events
          BY <3>1 DEF Live, Events, EventTypes
        <4>2. out' \subseteq {[type |-> "audio", turn |-> contents[c].turn, n |-> sequence + 1]}
          BY <2>6 DEF AudioOutput, ProviderError, Nothing, Fail
        <4>3. sequence' \in {sequence, sequence + 1} /\ err' \in {TRUE, err}
          BY <2>6 DEF AudioOutput, ProviderError, Nothing, Fail
        <4>4. UNCHANGED <<turnID, state, nextInput, answered, cancelled, contents, users,
                          waitingUser, history, used>>
          BY <2>6 DEF AudioOutput, ProviderError, Nothing, Fail
        <4>5. out' \subseteq Events
          BY <4>1, <4>2
        <4>6. sequence' \in Nat
          BY <4>3
        <4>7. err' \in BOOLEAN
          BY <4>3
        <4> QED BY <4>4, <4>5, <4>6, <4>7
      <3>2. CASE ~Live(c)
        BY <2>6, <3>2 DEF AudioOutput, Nothing
      <3> QED BY <3>1, <3>2
    <2>7. ASSUME NEW c \in Contents, ToolUse(c) PROVE MapperTypeOK'
      <3>1. Live(c) => Ev("tool", contents[c].turn) \in Events
        BY EvType DEF Live, EventTypes
      <3> QED BY <2>7, <3>1 DEF ToolUse, Nothing
    <2>8. ASSUME NEW c \in Contents, NEW reason \in Reasons, NEW fits \in BOOLEAN,
                 ContentEnd(c, reason, fits)
          PROVE  MapperTypeOK'
      <3>1. CASE ~Live(c)
        BY <2>8, <3>1 DEF ContentEnd, Nothing
      <3>2. CASE Live(c)
        <4>0. {Ev("completed", turnID), Ev("idle", turnID)} \subseteq Events
          BY EvType DEF EventTypes
        <4> USE <2>8, <3>2 DEF ContentEnd, Live
        <4>1. contents[c].turn \in TurnIds \cup {None}
          BY DEF OpenContents
        <4>2. history' \in Seq(TurnIds \cup {None}) /\ users' \subseteq TurnIds \cup {None}
          BY <4>1, RememberType DEF KeepSpeech
        <4>3. /\ contents' \in [Contents -> OpenContents \cup {None}]
              /\ UNCHANGED <<turnID, nextInput, sequence, waitingUser, used>>
          OBVIOUS
        <4>4. /\ state' \in {"idle", "listening", "responding"}
              /\ cancelled' \subseteq TurnIds
              /\ err' \in BOOLEAN
          BY <2>0 DEF Complete, Fail
        <4>5. answered' \subseteq TurnIds \cup {None} /\ out' \subseteq Events
          BY <2>0, <4>0 DEF Complete, Fail
        <4> HIDE DEF ContentEnd, Live
        <4> QED BY <4>2, <4>3, <4>4, <4>5
      <3> QED BY <3>1, <3>2
    <2>9. CASE CompletionEnd \/ ProviderError
      <3>1. {Ev("completed", turnID), Ev("idle", turnID)} \subseteq Events
        BY EvType DEF EventTypes
      <3> QED BY <2>9, <3>1 DEF CompletionEnd, Complete, ProviderError, Nothing, Fail
    <2> QED BY <2>1, <2>2, <2>3, <2>4, <2>5, <2>6, <2>7, <2>8, <2>9
            DEF Next, OwnerStep, ProviderStep, ContentStep
  <1>2. told' \subseteq TurnIds /\ cut' \subseteq TurnIds
    <2>1. \A e \in out' : e.type \in {"started", "interrupted"} => e.turn \in TurnIds
      <3> USE DEF StoryTypeOK, MapperTypeOK, TurnIds, Ev, Nothing, Fail
      <3>1. CASE OwnerStep
        BY <3>1 DEF OwnerStep, Interrupt, StartInput, QueueInput, StartAssistant,
                    InterruptEvents, Interruptible
      <3>2. ASSUME NEW c \in Contents, NEW kind \in UserKinds, NEW drawn \in Generated,
                   UserStarts(c, kind, drawn)
            PROVE  \A e \in out' : e.type \in {"started", "interrupted"} => e.turn \in TurnIds
        BY <3>2 DEF UserStarts, UserTurn, Ended, InterruptEvents, Interruptible
      <3>3. ASSUME NEW c \in Contents, NEW reason \in Reasons, NEW fits \in BOOLEAN,
                   ContentEnd(c, reason, fits)
            PROVE  \A e \in out' : e.type \in {"started", "interrupted"} => e.turn \in TurnIds
        BY <3>3 DEF ContentEnd, Complete, InterruptEvents, Interruptible
      <3>4. CASE Interrupt
        BY <3>4 DEF Interrupt, InterruptEvents, Interruptible
      <3>5. CASE CompletionEnd \/ ProviderError
        BY <3>5 DEF CompletionEnd, Complete, ProviderError
      <3>6. ASSUME NEW c \in Contents,
                   \/ \E kind \in Kinds \ UserKinds : OutputStarts(c, kind)
                   \/ \E fits, empty \in BOOLEAN : TextOutput(c, fits, empty)
                   \/ \E valid \in BOOLEAN : AudioOutput(c, valid)
                   \/ ToolUse(c)
            PROVE  \A e \in out' : e.type \in {"started", "interrupted"} => e.turn \in TurnIds
        BY <3>6 DEF OutputStarts, TextOutput, AudioOutput, ToolUse, ProviderError
      <3> QED BY <3>1, <3>2, <3>3, <3>4, <3>5, <3>6 DEF Next, ProviderStep, ContentStep
    <2> QED BY <2>1 DEF Next, Record, Said, StoryTypeOK
  <1>3. heard' \in [TurnIds \cup {None} -> Nat]
    BY DEF Next, Record, StoryTypeOK
  <1> QED BY <1>1, <1>2, <1>3 DEF StoryTypeOK

-----------------------------------------------------------------------------
(* The shapes of a step that does not fail.  A step that keeps the turn    *)
(* and says at most that it goes on, was heard or is over.                 *)
Quiet ==
    /\ UNCHANGED <<turnID, cancelled, nextInput, used, sequence>>
    /\ answered \subseteq answered'
    /\ state' # "idle" => turnID \notin cancelled
    /\ \A e \in out' : /\ e.type \notin {"started", "interrupted", "audio"}
                       /\ e.turn = turnID /\ turnID \notin cancelled

Cutting ==
    /\ UNCHANGED <<turnID, nextInput, used, sequence, answered>>
    /\ cancelled' = CancelledNow
    /\ state' = IF Interruptible THEN "idle" ELSE state
    /\ out' = InterruptEvents

Speaking ==
    /\ UNCHANGED <<turnID, nextInput, used, answered, cancelled, state>>
    /\ sequence' = sequence + 1
    /\ out' = {[type |-> "audio", turn |-> turnID, n |-> sequence + 1]}
    /\ turnID \notin cancelled

Queueing ==
    /\ nextInput' \in TurnIds \ used
    /\ used' = used \cup {nextInput'}
    /\ out' = {}
    /\ UNCHANGED <<turnID, sequence, answered, cancelled, state>>

Starting ==
    /\ turnID' \in TurnIds \ told
    /\ sequence' = 0
    /\ answered' = answered
    /\ used \subseteq used' /\ turnID' \in used'
    /\ turnID' \notin cancelled'
    /\ \E said \in {"listening", "responding"} :
         \/ cancelled' = cancelled /\ out' = {Ev("started", turnID'), Ev(said, turnID')}
         \/ /\ cancelled' = CancelledNow
            /\ out' = InterruptEvents \cup {Ev("started", turnID'), Ev(said, turnID')}
    /\ \/ nextInput' = turnID'
       \/ /\ nextInput' = nextInput
          /\ nextInput # None /\ nextInput \in told
               => nextInput = turnID' \/ nextInput \in answered \cup cancelled'

Promises == \A e \in out' :
    /\ e.turn \notin cut
    /\ e.type = "audio" => e.n = heard[e.turn] + 1
    /\ e.turn # None => IF e.type = "started" THEN e.turn \notin told ELSE e.turn \in told'

(* A failing call says nothing. *)
LEMMA FailSilent == ~err /\ Next /\ err' => out' = {}
  <1> DEFINE Silent == err' = err \/ out' = {}
  <1>1. Nothing \/ ProviderError \/ Fail => Silent
    BY DEF Nothing, ProviderError, Fail
  <1>2. OwnerStep => Silent
    BY <1>1 DEF OwnerStep, Interrupt, StartInput, QueueInput, StartAssistant
  <1>3. \A c, kind, drawn : UserStarts(c, kind, drawn) => Silent
    BY <1>1 DEF UserStarts
  <1>4. \A c, kind : OutputStarts(c, kind) => Silent
    BY <1>1 DEF OutputStarts
  <1>5. \A c, fits, empty : TextOutput(c, fits, empty) => Silent
    BY <1>1 DEF TextOutput
  <1>6. \A c, valid : AudioOutput(c, valid) => Silent
    BY <1>1 DEF AudioOutput
  <1>7. \A c : ToolUse(c) => Silent
    BY <1>1 DEF ToolUse
  <1>8. \A c, reason, fits : ContentEnd(c, reason, fits) => Silent
    BY <1>1 DEF ContentEnd
  <1>9. CompletionEnd => Silent
    BY <1>1 DEF CompletionEnd
  <1> HIDE DEF Silent
  <1>10. ContentStep => Silent
    BY <1>3, <1>4, <1>5, <1>6, <1>7, <1>8, Zenon DEF ContentStep
  <1>11. Interrupt => Silent
    BY DEF Interrupt, Silent
  <1>12. Next => Silent
    BY <1>1, <1>2, <1>9, <1>10, <1>11 DEF Next, ProviderStep
  <1> QED BY <1>12 DEF Silent

(* Each shape keeps the invariant and the promises. *)
Kept == ActiveTurnIsLive' /\ CurrentIsTold' /\ NumberedAsHeard' /\ UnheardUntilTold'
          /\ NextInputIsFresh' /\ Promises

LEMMA QuietKeeps ==
  ASSUME StoryInv, ~err, Quiet, Record
  PROVE  Kept
  <1> USE DEF StoryInv, StoryTypeOK, MapperTypeOK
  <1>1. Said("started") = {} /\ Said("interrupted") = {} /\ Said("audio") = {}
    BY DEF Said, Quiet
  <1>2. told' = told /\ cut' = cut
    BY <1>1 DEF Record
  <1>3. heard' = heard
    BY <1>1 DEF Record
  <1>4. ActiveTurnIsLive' /\ CurrentIsTold' /\ NextInputIsFresh'
    BY <1>2 DEF Quiet, ActiveTurnIsLive, CurrentIsTold, NextInputIsFresh
  <1>5. NumberedAsHeard' /\ UnheardUntilTold'
    BY <1>2, <1>3 DEF Quiet, NumberedAsHeard, UnheardUntilTold
  <1>6. Promises
    BY <1>2 DEF Quiet, Promises, CurrentIsTold
  <1> QED BY <1>4, <1>5, <1>6 DEF Kept

LEMMA QueueingKeeps ==
  ASSUME StoryInv, ~err, Queueing, Record
  PROVE  Kept
  <1> USE DEF StoryInv, StoryTypeOK, MapperTypeOK
  <1>1. Said("started") = {} /\ Said("interrupted") = {} /\ Said("audio") = {}
    BY DEF Said, Queueing
  <1>2. told' = told /\ cut' = cut
    BY <1>1 DEF Record
  <1>3. heard' = heard
    BY <1>1 DEF Record
  <1>4. ActiveTurnIsLive' /\ CurrentIsTold' /\ NextInputIsFresh'
    BY <1>2 DEF Queueing, ActiveTurnIsLive, CurrentIsTold, NextInputIsFresh
  <1>5. NumberedAsHeard' /\ UnheardUntilTold'
    BY <1>2, <1>3 DEF Queueing, NumberedAsHeard, UnheardUntilTold
  <1> QED BY <1>4, <1>5 DEF Kept, Promises, Queueing

(* What the client is told of an interruption is what is remembered of it. *)
LEMMA InterruptSaid ==
  /\ \A e \in InterruptEvents :
       /\ e.type \in {"interrupted", "idle"}
       /\ e.turn = turnID /\ turnID # None /\ turnID \notin cancelled
  /\ {e.turn : e \in {x \in InterruptEvents : x.type = "interrupted"}}
       = IF Interruptible THEN {turnID} ELSE {}
  <1>1. \A e \in InterruptEvents :
          /\ e.type \in {"interrupted", "idle"}
          /\ e.turn = turnID /\ turnID # None /\ turnID \notin cancelled
    BY DEF InterruptEvents, Interruptible, Ev
  <1>2. CASE Interruptible
    <2>1. Ev("interrupted", turnID) \in {x \in InterruptEvents : x.type = "interrupted"}
      BY <1>2 DEF InterruptEvents, Ev
    <2>2. Ev("interrupted", turnID).turn = turnID
      BY DEF Ev
    <2> QED BY <1>1, <1>2, <2>1, <2>2
  <1>3. CASE ~Interruptible
    BY <1>3 DEF InterruptEvents
  <1> QED BY <1>1, <1>2, <1>3

LEMMA CuttingKeeps ==
  ASSUME StoryInv, ~err, Cutting, Record
  PROVE  Kept
  <1> USE DEF StoryInv, StoryTypeOK, MapperTypeOK
  <1>1. Said("started") = {} /\ Said("audio") = {}
    BY InterruptSaid DEF Said, Cutting
  <1>2. Said("interrupted") = IF Interruptible THEN {turnID} ELSE {}
    BY InterruptSaid DEF Said, Cutting
  <1>3. told' = told /\ cut' = (cut \cup IF Interruptible THEN {turnID} ELSE {})
    BY <1>1, <1>2 DEF Record
  <1>4. heard' = heard
    BY <1>1 DEF Record
  <1>5. ActiveTurnIsLive' /\ CurrentIsTold' /\ NextInputIsFresh'
    BY <1>3 DEF Cutting, CancelledNow, Interruptible, ActiveTurnIsLive, CurrentIsTold,
                NextInputIsFresh
  <1>6. NumberedAsHeard' /\ UnheardUntilTold'
    BY <1>3, <1>4 DEF Cutting, NumberedAsHeard, UnheardUntilTold
  <1>7. Promises
    BY <1>3, InterruptSaid DEF Cutting, Promises, CurrentIsTold
  <1> QED BY <1>5, <1>6, <1>7 DEF Kept

LEMMA SpeakingKeeps ==
  ASSUME StoryInv, ~err, Speaking, Record
  PROVE  Kept
  <1> USE DEF StoryInv, StoryTypeOK, MapperTypeOK
  <1> DEFINE e == [type |-> "audio", turn |-> turnID, n |-> sequence + 1]
  <1>0. out' = {e} /\ e.type = "audio" /\ e.turn = turnID /\ e.n = sequence + 1
    BY DEF Speaking
  <1> HIDE DEF e
  <1>1. Said("started") = {} /\ Said("interrupted") = {} /\ Said("audio") = {turnID}
    BY <1>0 DEF Said
  <1>2. told' = told /\ cut' = cut
    BY <1>1 DEF Record
  <1>3. heard' = [heard EXCEPT ![turnID] = heard[turnID] + 1]
    BY <1>1 DEF Record
  <1>4. ActiveTurnIsLive' /\ CurrentIsTold' /\ NextInputIsFresh'
    BY <1>2 DEF Speaking, ActiveTurnIsLive, CurrentIsTold, NextInputIsFresh
  <1>5. NumberedAsHeard'
    BY <1>3 DEF Speaking, NumberedAsHeard
  <1>a. None \notin TurnIds
    BY DEF TurnIds
  <1>6. UnheardUntilTold'
    BY <1>a, <1>2, <1>3 DEF UnheardUntilTold, CurrentIsTold
  <1>7. Promises
    BY <1>0, <1>2 DEF Speaking, Promises, CurrentIsTold, NumberedAsHeard
  <1> QED BY <1>4, <1>5, <1>6, <1>7 DEF Kept

LEMMA StartingKeeps ==
  ASSUME StoryInv, ~err, Starting, Record
  PROVE  Kept
  <1> USE DEF StoryInv, StoryTypeOK, MapperTypeOK
  <1> DEFINE id == turnID'
  <1>a. None \notin TurnIds
    BY DEF TurnIds
  <1>b. id \in TurnIds \ told /\ id \notin cut /\ id # turnID
    BY <1>a DEF Starting, CurrentIsTold
  <1>1. PICK said \in {"listening", "responding"} :
          \/ cancelled' = cancelled /\ out' = {Ev("started", id), Ev(said, id)}
          \/ /\ cancelled' = CancelledNow
             /\ out' = InterruptEvents \cup {Ev("started", id), Ev(said, id)}
    BY DEF Starting
  <1>2. /\ Ev("started", id) \in out'
        /\ \A e \in out' : \/ e.type \in {"interrupted", "idle"} /\ e.turn = turnID
                                /\ turnID # None /\ turnID \notin cancelled
                           \/ e.type \in {"started", "listening", "responding"} /\ e.turn = id
    BY <1>1, InterruptSaid DEF Ev
  <1>3. Said("started") = {id}
    BY <1>2 DEF Said, Ev
  <1>4. Said("audio") = {}
    BY <1>2 DEF Said
  <1>5. cancelled' = cancelled \cup Said("interrupted")
    <2>1. CASE out' = {Ev("started", id), Ev(said, id)} /\ cancelled' = cancelled
      BY <2>1 DEF Said, Ev
    <2>2. CASE /\ cancelled' = CancelledNow
               /\ out' = InterruptEvents \cup {Ev("started", id), Ev(said, id)}
      <3>1. \A e \in {Ev("started", id), Ev(said, id)} : e.type # "interrupted"
        BY DEF Ev
      <3>2. {x \in out' : x.type = "interrupted"}
              = {x \in InterruptEvents : x.type = "interrupted"}
        BY <2>2, <3>1
      <3>3. Said("interrupted") = IF Interruptible THEN {turnID} ELSE {}
        BY <3>2, InterruptSaid DEF Said
      <3> QED BY <2>2, <3>3 DEF CancelledNow
    <2> QED BY <1>1, <2>1, <2>2
  <1>6. told' = told \cup {id} /\ cut' = cancelled' /\ heard' = heard
    BY <1>3, <1>4, <1>5 DEF Record, CurrentIsTold
  <1>7. Said("interrupted") \subseteq {turnID} \ {None}
    BY <1>2 DEF Said
  <1>8. ActiveTurnIsLive'
    BY DEF Starting, ActiveTurnIsLive
  <1>9. CurrentIsTold'
    BY <1>5, <1>6, <1>7 DEF Starting, CurrentIsTold
  <1>10. NextInputIsFresh'
    BY <1>5, <1>6 DEF Starting, NextInputIsFresh
  <1>11. NumberedAsHeard' /\ UnheardUntilTold'
    BY <1>b, <1>6 DEF Starting, NumberedAsHeard, UnheardUntilTold
  <1>12. Promises
    BY <1>b, <1>2, <1>6, <1>a DEF Promises, CurrentIsTold
  <1> QED BY <1>8, <1>9, <1>10, <1>11, <1>12 DEF Kept

-----------------------------------------------------------------------------
(* Every step that does not fail has one of the shapes. *)
LEMMA StepShape ==
  ASSUME StoryInv, ~err, Next, ~err'
  PROVE  Quiet \/ Cutting \/ Speaking \/ Queueing \/ Starting
  <1> USE DEF StoryInv, StoryTypeOK, MapperTypeOK
  <1>a. None \notin TurnIds
    BY DEF TurnIds
  <1>1. CASE Interrupt
    BY <1>1 DEF Interrupt, Cutting
  <1>2. ASSUME NEW id \in Inputs \ used, StartInput(id)
        PROVE  Starting
    <2>1. id \in TurnIds \ told
      BY DEF TurnIds, CurrentIsTold
    <2>2. id \notin cancelled'
      BY <1>2, <2>1, <1>a DEF StartInput, CancelledNow, Interruptible, CurrentIsTold
    <2>3. \/ cancelled' = cancelled /\ out' = {Ev("started", id), Ev("listening", id)}
          \/ /\ cancelled' = CancelledNow
             /\ out' = InterruptEvents \cup {Ev("started", id), Ev("listening", id)}
      BY <1>2 DEF StartInput
    <2> QED BY <1>2, <2>1, <2>2, <2>3 DEF StartInput, Starting
  <1>3. ASSUME NEW id \in Inputs \ used, QueueInput(id)
        PROVE  Queueing
    BY <1>3 DEF QueueInput, Queueing, TurnIds
  <1>4. ASSUME NEW id \in Inputs, used = {}, StartAssistant(id)
        PROVE  Starting
    <2>1. id \in TurnIds \ told /\ id \notin cancelled /\ nextInput = None
      BY <1>4 DEF TurnIds, CurrentIsTold
    <2> QED BY <1>4, <2>1 DEF StartAssistant, Starting
  <1>5. ASSUME NEW c \in Contents, NEW kind \in UserKinds, NEW drawn \in Generated,
               UserStarts(c, kind, drawn)
        PROVE  Quiet \/ Starting
    <2> DEFINE cutting == state = "responding"
               gone == IF cutting THEN CancelledNow ELSE cancelled
               renew == Ended(turnID, gone)
               id == UserTurn(drawn, gone)
    <2>1. /\ renew /\ id = drawn => drawn \notin used
          /\ cancelled' = gone /\ turnID' = id /\ state' = "listening"
          /\ sequence' = (IF renew THEN 0 ELSE sequence)
          /\ used' = (IF renew /\ id = drawn THEN used \cup {drawn} ELSE used)
          /\ out' = (IF cutting THEN InterruptEvents ELSE {})
                      \cup (IF renew THEN {Ev("started", id)} ELSE {})
                      \cup {Ev("listening", id)}
          /\ UNCHANGED <<nextInput, answered>>
      BY <1>5 DEF UserStarts, SequenceOfNewTurn, Fail
    <2>2. gone \subseteq used /\ cancelled \subseteq gone
      BY DEF CancelledNow, Interruptible, CurrentIsTold
    <2>3. CASE ~renew
      <3>1. id = turnID /\ turnID \notin gone /\ turnID # None
        BY <2>3 DEF UserTurn, Ended
      <3>2. ~cutting
        BY <3>1 DEF CancelledNow, Interruptible
      <3>3. out' = {Ev("listening", id)} /\ gone = cancelled
        BY <2>1, <2>3, <3>2
      <3>4. \A e \in out' : e.type = "listening" /\ e.turn = turnID
        BY <3>3, <3>1 DEF Ev
      <3> QED BY <2>1, <2>3, <3>1, <3>3, <3>4 DEF Quiet
    <2>4. CASE renew
      <3>1. CASE ~Ended(nextInput, gone)
        <4>1. id = nextInput
          BY <2>4, <3>1 DEF UserTurn
        <4>2. nextInput # turnID
          BY <2>4, <3>1
        <4>3. id \in TurnIds \ told /\ id \notin gone /\ id \in used
          BY <2>2, <3>1, <4>1, <4>2 DEF Ended, NextInputIsFresh, CurrentIsTold
        <4> QED BY <2>1, <2>4, <4>1, <4>3 DEF Starting
      <3>2. CASE Ended(nextInput, gone)
        <4>1. id = drawn
          BY <2>4, <3>2 DEF UserTurn
        <4>2. id \in TurnIds \ told /\ id \notin gone
          BY <2>1, <2>2, <2>4, <4>1 DEF TurnIds, CurrentIsTold
        <4> QED BY <2>1, <2>4, <3>2, <4>1, <4>2 DEF Starting, Ended
      <3> QED BY <3>1, <3>2
    <2> QED BY <2>3, <2>4
  <1>6. ASSUME NEW c \in Contents, NEW kind \in Kinds \ UserKinds, OutputStarts(c, kind)
        PROVE  Quiet
    <2>1. /\ UNCHANGED <<turnID, nextInput, answered, cancelled, used, sequence>>
          /\ \/ out' = {} /\ state' = state
             \/ out' = {Ev("responding", turnID)} /\ turnID \notin cancelled
      BY <1>6 DEF OutputStarts, ProviderError, Nothing, Fail
    <2> QED BY <2>1 DEF Quiet, Ev, ActiveTurnIsLive
  <1>7. ASSUME NEW c \in Contents, NEW fits \in BOOLEAN, NEW empty \in BOOLEAN,
               TextOutput(c, fits, empty)
        PROVE  Quiet
    <2>1. /\ UNCHANGED <<turnID, state, nextInput, answered, cancelled, used, sequence>>
          /\ out' = {} \/ (out' = {Ev("transcript", turnID)} /\ turnID \notin cancelled)
      BY <1>7 DEF TextOutput, Live, Nothing, ProviderError, Fail
    <2> QED BY <2>1 DEF Quiet, Ev, ActiveTurnIsLive
  <1>8. ASSUME NEW c \in Contents, NEW valid \in BOOLEAN, AudioOutput(c, valid)
        PROVE  Quiet \/ Speaking
    <2>1. CASE Live(c) /\ state = "responding"
      BY <1>8, <2>1 DEF AudioOutput, Live, ProviderError, Fail, Speaking
    <2>2. CASE ~(Live(c) /\ state = "responding")
      BY <1>8, <2>2 DEF AudioOutput, Nothing, Quiet, ActiveTurnIsLive
    <2> QED BY <2>1, <2>2
  <1>9. ASSUME NEW c \in Contents, ToolUse(c)
        PROVE  Quiet
    <2>1. /\ UNCHANGED <<turnID, state, nextInput, answered, cancelled, used, sequence>>
          /\ out' = {} \/ (out' = {Ev("tool", turnID)} /\ turnID \notin cancelled)
      BY <1>9 DEF ToolUse, Live, Nothing
    <2> QED BY <2>1 DEF Quiet, Ev, ActiveTurnIsLive
  <1>10. Complete /\ state = "responding" /\ UNCHANGED <<turnID, nextInput, cancelled, used, sequence>>
           => Quiet
    BY DEF Complete, Quiet, Ev, ActiveTurnIsLive
  <1>11. ASSUME NEW c \in Contents, NEW reason \in Reasons, NEW fits \in BOOLEAN,
                ContentEnd(c, reason, fits)
         PROVE  Quiet \/ Cutting
    <2>1. CASE Live(c) /\ reason = "INTERRUPTED"
      BY <1>11, <2>1 DEF ContentEnd, Cutting
    <2>2. CASE Live(c) /\ reason # "INTERRUPTED"
      <3>1. UNCHANGED <<turnID, nextInput, sequence, used, cancelled>>
        BY <1>11, <2>2 DEF ContentEnd
      <3>2. \/ Complete /\ state = "responding"
            \/ out' = {} /\ UNCHANGED <<state, answered>>
        BY <1>11, <2>2 DEF ContentEnd, CompletesTurn, Fail
      <3> QED BY <3>1, <3>2, <1>10 DEF Quiet, ActiveTurnIsLive
    <2>3. CASE ~Live(c)
      BY <1>11, <2>3 DEF ContentEnd, Nothing, Quiet, ActiveTurnIsLive
    <2> QED BY <2>1, <2>2, <2>3
  <1>12. CASE CompletionEnd
    BY <1>12, <1>10 DEF CompletionEnd, Nothing, Quiet, ActiveTurnIsLive
  <1>13. ~ProviderError
    BY DEF ProviderError, Fail
  <1> QED
    BY <1>1, <1>2, <1>3, <1>4, <1>5, <1>6, <1>7, <1>8, <1>9, <1>11, <1>12, <1>13
       DEF Next, OwnerStep, ProviderStep, ContentStep

LEMMA StepKeeps ==
  ASSUME StoryInv, Next
  PROVE  StoryInv' /\ Promises
  <1>1. ~err /\ Record
    BY DEF Next
  <1>2. StoryTypeOK'
    BY TypeStep DEF StoryInv
  <1>3. CASE err'
    BY <1>1, <1>2, <1>3, FailSilent DEF StoryInv, Promises
  <1>4. CASE ~err'
    <2>1. Kept
      BY <1>1, <1>4, StepShape, QuietKeeps, CuttingKeeps, SpeakingKeeps, QueueingKeeps,
         StartingKeeps
    <2> QED BY <1>2, <2>1 DEF StoryInv, Kept
  <1> QED BY <1>3, <1>4

LEMMA StutterKeeps == StoryInv /\ UNCHANGED vars => StoryInv'
  BY DEF vars, mapperVars, StoryInv, StoryTypeOK, MapperTypeOK, ActiveTurnIsLive, CurrentIsTold,
         NumberedAsHeard, UnheardUntilTold, NextInputIsFresh

(* The invariant holds of every run of a mapper. *)
THEOREM StoryInvariant == Spec => []StoryInv
  <1>1. StoryInv /\ [Next]_vars => StoryInv'
    BY StepKeeps, StutterKeeps
  <1> QED BY <1>1, InitStory, PTL DEF Spec

LEMMA PromisesAlways == Spec => [][Promises]_vars
  <1>1. StoryInv /\ [Next]_vars => [Promises]_vars
    BY StepKeeps
  <1> QED BY <1>1, StoryInvariant, PTL DEF Spec

(* Nothing is said of a turn after its interruption was told. *)
THEOREM InterruptedTurnsStaySilent == Spec => InterruptedIsFinal
  <1>1. [Promises]_vars => [\A e \in out' : e.turn \notin cut]_vars
    BY DEF Promises
  <1> QED BY <1>1, PromisesAlways, PTL DEF InterruptedIsFinal

(* Audio of a turn is numbered without gaps. *)
THEOREM AudioIsContiguous == Spec => AudioContiguous
  <1>1. [Promises]_vars => [\A e \in out' : e.type = "audio" => e.n = heard[e.turn] + 1]_vars
    BY DEF Promises
  <1> QED BY <1>1, PromisesAlways, PTL DEF AudioContiguous

(* A turn is announced once, first. *)
THEOREM TurnsAnnouncedOnce == Spec => AnnouncedOnceFirst
  <1>1. [Promises]_vars =>
          [\A e \in out' : e.turn # None =>
             IF e.type = "started" THEN e.turn \notin told ELSE e.turn \in told']_vars
    BY DEF Promises
  <1> QED BY <1>1, PromisesAlways, PTL DEF AnnouncedOnceFirst

-----------------------------------------------------------------------------
(* The messages on their way.                                              *)

(* A name is found back from what it is renamed to. *)
LEMMA NameFoundBack ==
  ASSUME NEW names, NEW type \in DOMAIN names, \A x \in DOMAIN names : names[x] = names[type] => x = type
  PROVE  Wire!Named(names, names[type]) = type
  BY DEF Wire!Named

LEMMA CommandNamesDiffer ==
  /\ DOMAIN Wire!CommandNames = {"audio.append", "turn.commit", "turn.cancel", "tool.confirm", "session.stop"}
  /\ \A type \in DOMAIN Wire!CommandNames :
       Wire!Named(Wire!CommandNames, Wire!CommandNames[type]) = type
  /\ Wire!CommandNames["audio.append"] = "input.audio"
  /\ Wire!CommandNames["turn.commit"] = "input.commit"
  /\ Wire!CommandNames["turn.cancel"] = "input.cancel"
  /\ Wire!CommandNames["tool.confirm"] = "input.confirmation"
  /\ Wire!CommandNames["session.stop"] = "input.close"
  <1>1. DOMAIN Wire!CommandNames = {"audio.append", "turn.commit", "turn.cancel", "tool.confirm", "session.stop"}
    BY DEF Wire!CommandNames
  <1>3. /\ Wire!CommandNames["audio.append"] = "input.audio"
        /\ Wire!CommandNames["turn.commit"] = "input.commit"
        /\ Wire!CommandNames["turn.cancel"] = "input.cancel"
        /\ Wire!CommandNames["tool.confirm"] = "input.confirmation"
        /\ Wire!CommandNames["session.stop"] = "input.close"
    BY DEF Wire!CommandNames
  <1>2. \A x, y \in DOMAIN Wire!CommandNames :
          Wire!CommandNames[x] = Wire!CommandNames[y] => x = y
    BY DEF Wire!CommandNames
  <1> QED BY <1>1, <1>2, <1>3, NameFoundBack

LEMMA EventNamesDiffer ==
  /\ DOMAIN Wire!EventNames =
       {"session.ready", "session.state", "session.renewed", "session.stopped", "audio.output",
        "transcript", "error", "turn.started", "turn.completed", "turn.interrupted", "tool.started",
        "tool.result", "tool.confirmation"}
  /\ \A type \in DOMAIN Wire!EventNames :
       Wire!Named(Wire!EventNames, Wire!EventNames[type]) = type
  /\ \A type \in DOMAIN Wire!EventNames :
       /\ Wire!EventNames[type] # "ui.a2ui"
       /\ Wire!EventNames[type] = "output.audio" <=> type = "audio.output"
  /\ Wire!EventNames["session.ready"] = "agent.session.ready"
  /\ Wire!EventNames["session.state"] = "agent.session.state"
  /\ Wire!EventNames["session.renewed"] = "agent.session.renewed"
  /\ Wire!EventNames["session.stopped"] = "agent.session.closed"
  /\ Wire!EventNames["audio.output"] = "output.audio"
  /\ Wire!EventNames["transcript"] = "output.transcript"
  /\ Wire!EventNames["error"] = "agent.error"
  /\ \A type \in {"turn.started", "turn.completed", "turn.interrupted", "tool.started", "tool.result",
                   "tool.confirmation"} : Wire!EventNames[type] = type
  <1>1. DOMAIN Wire!EventNames =
       {"session.ready", "session.state", "session.renewed", "session.stopped", "audio.output",
        "transcript", "error", "turn.started", "turn.completed", "turn.interrupted", "tool.started",
        "tool.result", "tool.confirmation"}
    BY DEF Wire!EventNames
  <1>2. \A x, y \in DOMAIN Wire!EventNames :
          Wire!EventNames[x] = Wire!EventNames[y] => x = y
    BY DEF Wire!EventNames
  <1>3. /\ Wire!EventNames["session.ready"] = "agent.session.ready"
        /\ Wire!EventNames["session.state"] = "agent.session.state"
        /\ Wire!EventNames["session.renewed"] = "agent.session.renewed"
        /\ Wire!EventNames["session.stopped"] = "agent.session.closed"
        /\ Wire!EventNames["audio.output"] = "output.audio"
        /\ Wire!EventNames["transcript"] = "output.transcript"
        /\ Wire!EventNames["error"] = "agent.error"
    BY DEF Wire!EventNames
  <1>4. \A type \in {"turn.started", "turn.completed", "turn.interrupted", "tool.started", "tool.result",
                     "tool.confirmation"} : Wire!EventNames[type] = type
    BY DEF Wire!EventNames
  <1>5. \A type \in DOMAIN Wire!EventNames :
           /\ Wire!EventNames[type] # "ui.a2ui"
           /\ Wire!EventNames[type] = "output.audio" <=> type = "audio.output"
    BY <1>1, <1>3, <1>4
  <1> QED BY <1>1, <1>2, <1>3, <1>4, <1>5, NameFoundBack

\* The events a client may send, of any size and with any extra fields.
AllClientEvents ==
    [type : Wire!ClientTypes, session : {"absent", "own", "other"}, turn : Wire!Shapes, sequence : Nat,
     audio : Nat, rate : Nat, operation : Wire!Shapes \cup {None}, extra : SUBSET Wire!Extras]

(* The limits as numbers: the provers are slow on an interval up to one    *)
(* written out, so that the limits stay unexpanded elsewhere.              *)
LEMMA AudioLimits ==
  Wire!MaxAudioChunkBytes = 32000 /\ Wire!MaxAudioBytes = 131072 /\ MaxPcmBytes = 262144
  BY SMT DEF Wire!MaxAudioChunkBytes, Wire!MaxAudioBytes, MaxPcmBytes

LEMMA AudioLimitsOrdered ==
  /\ Wire!MaxAudioChunkBytes \in Nat /\ Wire!MaxAudioBytes \in Nat
  /\ Wire!MaxAudioChunkBytes <= Wire!MaxAudioBytes
  BY SMT, AudioLimits

(* Audio a client may send is within the agent's limits.                   *)
LEMMA AudioFits ==
  ASSUME NEW n, Wire!DecodeAudio(n)
  PROVE  n \in 1..Wire!MaxAudioBytes /\ n % 2 = 0 /\ n # 0
  <1>1. n \in 1..Wire!MaxAudioChunkBytes
    BY Zenon DEF Wire!DecodeAudio
  <1>2. n % 2 = 0
    BY Zenon DEF Wire!DecodeAudio
  <1>3. n \in 1..Wire!MaxAudioBytes /\ n # 0
    BY <1>1, AudioLimitsOrdered
  <1> QED BY <1>2, <1>3

(* What an event must be to pass the client's protocol, by its type.       *)
LEMMA Decoded ==
  ASSUME NEW version, NEW e, Wire!DecodeClient(version, e)
  PROVE  \/ e.type = "session.start"
         \/ /\ e.type = "audio.append" /\ e.turn \in {"plain", "marked"} /\ e.sequence # 0
            /\ e.rate = 16000 /\ Wire!DecodeAudio(e.audio) /\ e.operation = None
         \/ /\ e.type \in {"turn.commit", "turn.cancel"} /\ e.turn \in {"plain", "marked"}
            /\ e.sequence = 0 /\ e.rate = 0 /\ e.audio = 0 /\ e.operation = None
         \/ /\ e.type = "tool.confirm" /\ e.operation \in {"plain", "marked"}
            /\ e.sequence = 0 /\ e.rate = 0 /\ e.audio = 0
         \/ /\ e.type = "session.stop"
            /\ e.sequence = 0 /\ e.rate = 0 /\ e.audio = 0 /\ e.operation = None
  <1> DEFINE Shape ==
         \/ e.type = "session.start"
         \/ e.type = "audio.append" /\ e.turn # "absent" /\ e.sequence # 0 /\ e.rate = 16000 /\ Wire!DecodeAudio(e.audio)
         \/ e.type \in {"turn.commit", "turn.cancel"} /\ e.turn # "absent"
         \/ e.type = "session.stop"
         \/ e.type = "tool.confirm" /\ Wire!ValidID(e.operation)
  <1>1. Shape
    BY SMT DEF Wire!DecodeClient
  <1>2. e.turn # "absent" => e.turn \in {"plain", "marked"}
    BY DEF Wire!DecodeClient, Wire!ValidID
  <1>3. e.type # "tool.confirm" => e.operation = None
    BY DEF Wire!DecodeClient
  <1>4. e.type # "audio.append" => e.audio = 0 /\ e.rate = 0 /\ e.sequence = 0
    BY DEF Wire!DecodeClient
  <1> QED BY <1>1, <1>2, <1>3, <1>4 DEF Wire!ValidID

LEMMA RunningTypes ==
  ASSUME NEW version, NEW e \in AllClientEvents, Legal(version, e)
  PROVE  e.type \in DOMAIN Wire!CommandNames
  <1>1. Wire!DecodeClient(version, e) /\ e.type # "session.start"
    BY DEF Legal
  <1> QED BY <1>1, Decoded, CommandNamesDiffer

\* The command the gateway makes of a legal event.
LEMMA LegalCommand ==
  ASSUME NEW version, NEW e \in AllClientEvents, Legal(version, e)
  PROVE  LET c == Wire!CommandFromVoice(e) IN
         /\ c = [type |-> Wire!CommandNames[e.type], turn |-> e.turn, sequence |-> e.sequence,
                 audio |-> e.audio, operation |-> e.operation]
         /\ c # None
         /\ Wire!VoiceFromCommand(c) = Sent(e)
  <1> DEFINE c == [type |-> Wire!CommandNames[e.type], turn |-> e.turn, sequence |-> e.sequence,
                   audio |-> e.audio, operation |-> e.operation]
  <1>1. /\ e.type \in DOMAIN Wire!CommandNames
        /\ Wire!CommandNames[e.type] \in Renamed(Wire!CommandNames)
        /\ Wire!CommandNames[e.type] = "input.audio" <=> e.type = "audio.append"
    <2>1. e.type \in {"audio.append", "turn.commit", "turn.cancel", "tool.confirm", "session.stop"}
      BY RunningTypes, CommandNamesDiffer
    <2> QED BY <2>1, CommandNamesDiffer DEF Renamed
  <1>2. e.type = "audio.append" => Wire!DecodeAudio(e.audio) /\ e.rate = 16000
    BY DEF Legal, Wire!DecodeClient
  <1>3. e.type # "audio.append" => e.rate = 0
    BY DEF Legal, Wire!DecodeClient
  <1>4. Wire!CommandFromVoice(e) = c
    BY <1>1, <1>2 DEF Wire!CommandFromVoice
  <1>5. c # None
    BY <1>1, RelayAssumption DEF AllClientEvents, Commands
  <1>6. ~(c.type = "input.audio" /\ c.audio = 0)
    BY <1>1, <1>2 DEF Wire!DecodeAudio
  <1>7. Wire!Named(Wire!CommandNames, c.type) = e.type
    BY <1>1, CommandNamesDiffer
  <1>8. Wire!VoiceFromCommand(c) = Sent(e)
    BY <1>1, <1>2, <1>3, <1>6, <1>7 DEF Wire!VoiceFromCommand, Sent
  <1> QED BY <1>4, <1>5, <1>8

LEMMA LegalVerdict ==
  ASSUME NEW version, NEW e \in AllClientEvents, Legal(version, e)
  PROVE  Wire!Verdict(version, e) = IF Unsendable(e) THEN "provider_unavailable" ELSE "sent"
  <1> DEFINE c == Wire!CommandFromVoice(e)
  <1>1. /\ c = [type |-> Wire!CommandNames[e.type], turn |-> e.turn, sequence |-> e.sequence,
                audio |-> e.audio, operation |-> e.operation]
        /\ c # None
    BY LegalCommand
  <1> HIDE DEF c
  <1>2. Wire!ValidateCommand(c) <=> ~Unsendable(e)
    <2>0. e.type \in DOMAIN Wire!CommandNames
      BY RunningTypes
    <2>1. CASE e.type = "audio.append"
      <3>0. e.turn \in {"plain", "marked"} /\ e.sequence # 0 /\ Wire!DecodeAudio(e.audio)
        BY <2>1, Decoded DEF Legal
      <3>2. e.audio \in 1..Wire!MaxAudioBytes /\ e.audio % 2 = 0
        BY <3>0, AudioFits
      <3>3. c.type = "input.audio"
        BY <1>1, <2>1 DEF Wire!CommandNames
      <3> QED BY <1>1, <2>1, <3>0, <3>2, <3>3 DEF Wire!ValidateCommand, Wire!Identifier, Unsendable
    <2>2. CASE e.type \in {"turn.commit", "turn.cancel"}
      <3>1. e.turn \in {"plain", "marked"} /\ e.sequence = 0 /\ e.audio = 0
        BY <2>2 DEF Legal, Wire!DecodeClient, Wire!ValidID
      <3>2. c.type \in {"input.commit", "input.cancel"}
        BY <1>1, <2>2 DEF Wire!CommandNames
      <3> QED BY <1>1, <2>2, <3>1, <3>2 DEF Wire!ValidateCommand, Wire!Identifier, Unsendable
    <2>3. CASE e.type = "tool.confirm"
      <3>1. e.operation \in {"plain", "marked"} /\ e.sequence = 0 /\ e.audio = 0
        BY <2>3 DEF Legal, Wire!DecodeClient, Wire!ValidID
      <3>2. c.type = "input.confirmation"
        BY <1>1, <2>3 DEF Wire!CommandNames
      <3> QED BY <1>1, <2>3, <3>1, <3>2 DEF Wire!ValidateCommand, Wire!Identifier, Unsendable
    <2>4. CASE e.type = "session.stop"
      <3>1. e.sequence = 0 /\ e.audio = 0
        BY <2>4 DEF Legal, Wire!DecodeClient
      <3>2. c.type = "input.close"
        BY <1>1, <2>4 DEF Wire!CommandNames
      <3> QED BY <1>1, <2>4, <3>1, <3>2 DEF Wire!ValidateCommand, Unsendable
    <2> QED BY <2>0, <2>1, <2>2, <2>3, <2>4, CommandNamesDiffer
  <1> QED BY <1>1, <1>2 DEF Wire!Verdict, Legal, c

(* Of all events a client may send, of whatever size. *)
LEMMA EveryEventReachesTheLoop == EventsReachTheLoop(AllClientEvents)
  <1> SUFFICES ASSUME NEW version \in {1, 2}, NEW e \in AllClientEvents
               PROVE  LET verdict == Wire!Verdict(version, e) IN
                      /\ verdict = "sent" => Wire!VoiceFromCommand(Wire!CommandFromVoice(e)) = Sent(e)
                      /\ verdict = "sent" <=> Legal(version, e) /\ ~Unsendable(e)
                      /\ verdict = "provider_unavailable" <=> Legal(version, e) /\ Unsendable(e)
    BY DEF EventsReachTheLoop
  <1>1. CASE Legal(version, e)
    BY <1>1, LegalCommand, LegalVerdict
  <1>2. CASE ~Legal(version, e)
    <2>1. CASE ~Wire!DecodeClient(version, e) \/ e.session # "own"
      BY <1>2, <2>1 DEF Wire!Verdict
    <2>2. CASE Wire!DecodeClient(version, e) /\ e.session = "own"
      <3>1. e.type = "session.start"
        BY <1>2, <2>2 DEF Legal
      <3> QED BY <2>2, <3>1 DEF Wire!DecodeClient
    <2> QED BY <2>1, <2>2
  <1> QED BY <1>1, <1>2

LEMMA ClientEventsPass == ClientEventsReachTheLoop
  <1>1. ClientEvents \subseteq AllClientEvents
    BY DEF ClientEvents, AllClientEvents
  <1> QED BY <1>1, EveryEventReachesTheLoop DEF ClientEventsReachTheLoop, EventsReachTheLoop

-----------------------------------------------------------------------------
\* A message keeps its fields when it is renamed and named back.
LEMMA MessageFields ==
  ASSUME NEW m \in Messages, NEW type
  PROVE  /\ [m EXCEPT !.type = type] =
              [type |-> type, turn |-> m.turn, sequence |-> m.sequence, audio |-> m.audio, rate |-> m.rate,
               provider |-> m.provider, state |-> m.state, code |-> m.code, operation |-> m.operation, ui |-> m.ui]
         /\ [[m EXCEPT !.type = type] EXCEPT !.type = m.type] = m
  <1> DEFINE p == [m EXCEPT !.type = type]
  <1>1. p = [type |-> type, turn |-> m.turn, sequence |-> m.sequence, audio |-> m.audio, rate |-> m.rate,
             provider |-> m.provider, state |-> m.state, code |-> m.code, operation |-> m.operation, ui |-> m.ui]
    BY SMT DEF Messages
  <1>2. m = [type |-> m.type, turn |-> m.turn, sequence |-> m.sequence, audio |-> m.audio, rate |-> m.rate,
             provider |-> m.provider, state |-> m.state, code |-> m.code, operation |-> m.operation, ui |-> m.ui]
    BY SMT DEF Messages
  <1> HIDE DEF p
  <1>3. [p EXCEPT !.type = m.type] =
             [type |-> m.type, turn |-> m.turn, sequence |-> m.sequence, audio |-> m.audio, rate |-> m.rate,
              provider |-> m.provider, state |-> m.state, code |-> m.code, operation |-> m.operation, ui |-> m.ui]
    BY <1>1
  <1> QED BY <1>1, <1>2, <1>3 DEF p

(* A message of the agents comes out as it was put in, if it passes the    *)
(* test under its other name; otherwise the session ends.                  *)
LEMMA DeliveredBack ==
  ASSUME NEW protocol \in {"v1", "v2"}, NEW m \in Messages, m.type \in DOMAIN Wire!EventNames,
         NEW sent, sent = [m EXCEPT !.type = Wire!EventNames[m.type]],
         m.type = "audio.output" /\ Wire!ValidateEvent(protocol, sent) => m.audio # 0
  PROVE  Wire!Delivered(protocol, m) = m <=>
           /\ m.type = "audio.output" => Wire!DecodeAudio(m.audio)
           /\ Wire!ValidateEvent(protocol, sent)
  <1>1. m # None
    BY RelayAssumption
  <1>2. m.type # "ui.a2ui"
    BY EventNamesDiffer
  <1>3. /\ sent = [type |-> Wire!EventNames[m.type], turn |-> m.turn, sequence |-> m.sequence, audio |-> m.audio,
                  rate |-> m.rate, provider |-> m.provider, state |-> m.state, code |-> m.code,
                  operation |-> m.operation, ui |-> m.ui]
        /\ [sent EXCEPT !.type = m.type] = m
    BY MessageFields
  <1>4. Wire!Named(Wire!EventNames, sent.type) = m.type
    BY <1>3, EventNamesDiffer
  <1>5. sent # None
    <2>1. sent \in Messages
      <3>1. Wire!EventNames[m.type] \in Renamed(Wire!EventNames)
        BY DEF Renamed
      <3>2. sent = [m EXCEPT !.type = Wire!EventNames[m.type]]
        OBVIOUS
      <3> QED BY <3>1, <3>2, SMT DEF Messages
    <2> QED BY <2>1, RelayAssumption
  <1>6. sent.type = "output.audio" <=> m.type = "audio.output"
    BY <1>3, EventNamesDiffer
  <1>7. Wire!AgentFromAccountVoice(m) = Wire!AgentFromVoice(m)
    BY <1>2 DEF Wire!AgentFromAccountVoice
  <1>8. CASE m.type = "audio.output" /\ ~Wire!DecodeAudio(m.audio)
    <2>1. Wire!AgentFromVoice(m) = None
      BY <1>8 DEF Wire!AgentFromVoice
    <2>2. Wire!Delivered(protocol, m) = None
      BY <1>7, <2>1 DEF Wire!Delivered
    <2> QED BY <1>1, <1>8, <2>2
  <1>9. CASE m.type = "audio.output" => Wire!DecodeAudio(m.audio)
    <2>1. Wire!AgentFromVoice(m) = sent
      BY <1>9 DEF Wire!AgentFromVoice
    <2>2. Wire!ValidateEvent(protocol, sent) => Wire!VoiceFromAgent(sent) = m
      <3>1. sent.type # "ui.a2ui"
        BY <1>3, EventNamesDiffer
      <3>2. [sent EXCEPT !.type = m.type] = m
        BY MessageFields
      <3> QED BY <1>3, <1>4, <1>6, <3>1, <3>2 DEF Wire!VoiceFromAgent
    <2>3. Wire!Delivered(protocol, m) =
             IF ~Wire!ValidateEvent(protocol, sent) THEN None ELSE Wire!VoiceFromAgent(sent)
      BY <1>5, <1>7, <2>1 DEF Wire!Delivered
    <2> QED BY <1>1, <1>9, <2>2, <2>3
  <1> QED BY <1>8, <1>9

-----------------------------------------------------------------------------
(* The messages the agents emit.                                           *)
ShapeOf(t) == IF t = None THEN "absent" ELSE "plain"

LEMMA PlainMessage ==
  ASSUME NEW type \in DOMAIN Wire!EventNames
  PROVE  Message(type) \in Messages /\ Message(type).type = type
  BY SMT DEF Messages, Message, Wire!Shapes

LEMMA TurnMessage ==
  ASSUME NEW type \in DOMAIN Wire!EventNames, NEW t
  PROVE  /\ OfTurn(type, t) \in Messages
         /\ OfTurn(type, t).type = type /\ OfTurn(type, t).turn = ShapeOf(t)
  <1>1. Message(type) \in Messages /\ Message(type).type = type
    BY PlainMessage
  <1>2. ASSUME NEW m \in Messages
        PROVE  /\ [m EXCEPT !.turn = ShapeOf(t)] \in Messages
               /\ [m EXCEPT !.turn = ShapeOf(t)].type = m.type
               /\ [m EXCEPT !.turn = ShapeOf(t)].turn = ShapeOf(t)
    <2>1. ShapeOf(t) \in Wire!Shapes
      BY DEF ShapeOf, Wire!Shapes
    <2> QED BY <2>1, SMT DEF Messages
  <1>3. OfTurn(type, t) = [Message(type) EXCEPT !.turn = ShapeOf(t)]
    BY DEF OfTurn, ShapeOf
  <1> QED BY <1>1, <1>2, <1>3

LEMMA ToolMessage ==
  ASSUME NEW type \in DOMAIN Wire!EventNames, NEW t
  PROVE  /\ Tool(type, t, "plain") \in Messages
         /\ Tool(type, t, "plain").type = type /\ Tool(type, t, "plain").turn = ShapeOf(t)
         /\ Tool(type, t, "plain").operation = "plain"
  <1>1. ASSUME NEW m \in Messages
        PROVE  /\ [m EXCEPT !.operation = "plain"] \in Messages
               /\ [m EXCEPT !.operation = "plain"].type = m.type
               /\ [m EXCEPT !.operation = "plain"].turn = m.turn
               /\ [m EXCEPT !.operation = "plain"].operation = "plain"
    BY SMT DEF Messages, Wire!Shapes
  <1> QED BY <1>1, TurnMessage DEF Tool

\* A message that says something of the provider, the state or an error.
LEMMA Flagged ==
  ASSUME NEW m \in Messages
  PROVE  /\ [m EXCEPT !.state = TRUE] \in Messages
         /\ [m EXCEPT !.state = TRUE].type = m.type
         /\ [m EXCEPT !.state = TRUE].state
         /\ [m EXCEPT !.code = TRUE] \in Messages
         /\ [m EXCEPT !.code = TRUE].type = m.type
         /\ [m EXCEPT !.code = TRUE].code
         /\ [m EXCEPT !.provider = TRUE] \in Messages
         /\ [m EXCEPT !.provider = TRUE].type = m.type
         /\ [m EXCEPT !.provider = TRUE].provider
  <1>1. /\ [m EXCEPT !.state = TRUE] \in Messages /\ [m EXCEPT !.code = TRUE] \in Messages
        /\ [m EXCEPT !.provider = TRUE] \in Messages
    <2>1. \A b \in BOOLEAN : [m EXCEPT !.state = b] \in Messages
      BY SMT DEF Messages
    <2>2. \A b \in BOOLEAN : [m EXCEPT !.code = b] \in Messages
      BY SMT DEF Messages
    <2>3. \A b \in BOOLEAN : [m EXCEPT !.provider = b] \in Messages
      BY SMT DEF Messages
    <2> QED BY <2>1, <2>2, <2>3
  <1>2. [m EXCEPT !.state = TRUE].type = m.type /\ [m EXCEPT !.state = TRUE].state
    <2>1. [m EXCEPT !.state = TRUE].type = m.type
      BY SMT DEF Messages
    <2>2. [m EXCEPT !.state = TRUE].state
      BY SMT DEF Messages
    <2> QED BY <2>1, <2>2
  <1>3. [m EXCEPT !.code = TRUE].type = m.type /\ [m EXCEPT !.code = TRUE].code
    <2>1. [m EXCEPT !.code = TRUE].type = m.type
      BY SMT DEF Messages
    <2>2. [m EXCEPT !.code = TRUE].code
      BY SMT DEF Messages
    <2> QED BY <2>1, <2>2
  <1>4. [m EXCEPT !.provider = TRUE].type = m.type /\ [m EXCEPT !.provider = TRUE].provider
    <2>1. [m EXCEPT !.provider = TRUE].type = m.type
      BY SMT DEF Messages
    <2>2. [m EXCEPT !.provider = TRUE].provider
      BY SMT DEF Messages
    <2> QED BY <2>1, <2>2
  <1> QED BY <1>1, <1>2, <1>3, <1>4

LEMMA StateMessage ==
  ASSUME NEW t
  PROVE  /\ StateOf(t) \in Messages
         /\ StateOf(t).type = "session.state" /\ StateOf(t).state
  <1>1. "session.state" \in DOMAIN Wire!EventNames
    BY EventNamesDiffer
  <1>2. /\ OfTurn("session.state", t) \in Messages
        /\ OfTurn("session.state", t).type = "session.state"
    BY <1>1, TurnMessage
  <1> QED BY <1>2, Flagged, Zenon DEF StateOf

LEMMA AudioMessage ==
  ASSUME NEW t, NEW n \in Nat, NEW bytes \in Nat, n # 0
  PROVE  /\ Audio(t, n, bytes) \in Messages
         /\ Audio(t, n, bytes).type = "audio.output" /\ Audio(t, n, bytes).turn = ShapeOf(t)
         /\ Audio(t, n, bytes).sequence = 1 /\ Audio(t, n, bytes).audio = bytes
         /\ Audio(t, n, bytes).rate = 24000
  <1> DEFINE m == OfTurn("audio.output", t)
             p == [m EXCEPT !.sequence = 1]
             q == [p EXCEPT !.audio = bytes]
             r == [q EXCEPT !.rate = 24000]
  <1>1. m \in Messages /\ m.type = "audio.output" /\ m.turn = ShapeOf(t)
    BY TurnMessage, EventNamesDiffer
  <1>2. Audio(t, n, bytes) = r
    BY DEF Audio
  <1> HIDE DEF m
  <1>3. p \in Messages /\ p.type = m.type /\ p.turn = m.turn /\ p.sequence = 1
    BY <1>1, SMT DEF Messages
  <1> HIDE DEF p
  <1>4. q \in Messages /\ q.type = p.type /\ q.turn = p.turn /\ q.sequence = p.sequence /\ q.audio = bytes
    BY <1>3, SMT DEF Messages
  <1> HIDE DEF q
  <1>5. r \in Messages /\ r.type = q.type /\ r.turn = q.turn /\ r.sequence = q.sequence /\ r.audio = q.audio
        /\ r.rate = 24000
    BY <1>4, SMT DEF Messages
  <1> HIDE DEF r
  <1> QED BY <1>1, <1>2, <1>3, <1>4, <1>5

LEMMA OpeningMessage ==
  ASSUME NEW type \in DOMAIN Wire!EventNames
  PROVE  LET m == [Message(type) EXCEPT !.provider = TRUE, !.state = TRUE] IN
         m \in Messages /\ m.type = type /\ m.provider /\ m.state
  <1> DEFINE m == Message(type)
             p == [m EXCEPT !.provider = TRUE]
             q == [p EXCEPT !.state = TRUE]
  <1>1. m \in Messages /\ m.type = type
    BY PlainMessage
  <1>2. [Message(type) EXCEPT !.provider = TRUE, !.state = TRUE] = q
    OBVIOUS
  <1> HIDE DEF m
  <1>3. p \in Messages /\ p.type = m.type /\ p.provider
    BY <1>1, Flagged
  <1> HIDE DEF p
  <1>4. q \in Messages /\ q.type = p.type /\ q.state
    BY <1>3, Flagged
  <1>5. q.provider
    BY <1>3, SMT DEF Messages
  <1> HIDE DEF q
  <1> QED BY <1>1, <1>2, <1>3, <1>4, <1>5

-----------------------------------------------------------------------------
(* What the test between agent and gateway says of each of them.           *)
LEMMA Renaming ==
  ASSUME NEW protocol \in {"v1", "v2"}, NEW m \in Messages, m.type \in DOMAIN Wire!EventNames
  PROVE  LET sent == [m EXCEPT !.type = Wire!EventNames[m.type]] IN
         Wire!ValidateEvent(protocol, sent) <=>
           \/ m.type \in {"session.ready", "session.renewed"} /\ m.provider /\ m.state
           \/ m.type \in {"session.state", "session.stopped"} /\ m.state
           \/ m.type \in {"transcript", "turn.started", "turn.completed", "turn.interrupted"}
                /\ Wire!Identifier(m.turn)
           \/ m.type \in {"tool.started", "tool.result", "tool.confirmation"}
                /\ Wire!Identifier(m.turn) /\ Wire!Identifier(m.operation)
           \/ m.type = "error" /\ m.code
           \/ m.type = "audio.output" /\ Wire!Identifier(m.turn) /\ m.sequence # 0
                /\ m.audio \in 1..Wire!MaxAudioBytes /\ m.audio % 2 = 0 /\ m.rate > 0
  <1> DEFINE sent == [m EXCEPT !.type = Wire!EventNames[m.type]]
  <1>1. /\ sent.type = Wire!EventNames[m.type] /\ sent.turn = m.turn /\ sent.sequence = m.sequence
        /\ sent.audio = m.audio /\ sent.rate = m.rate /\ sent.operation = m.operation
    BY SMT DEF Messages
  <1>2. /\ sent.provider <=> m.provider
        /\ sent.state <=> m.state
        /\ sent.code <=> m.code
    BY SMT DEF Messages
  <1> HIDE DEF sent
  <1>3. m.type \in {"session.ready", "session.state", "session.renewed", "session.stopped", "audio.output",
                    "transcript", "error", "turn.started", "turn.completed", "turn.interrupted", "tool.started",
                    "tool.result", "tool.confirmation"}
    BY EventNamesDiffer
  <1>4. Wire!ValidateEvent(protocol, sent) <=>
           \/ sent.type \in {"agent.session.ready", "agent.session.renewed"} /\ sent.provider /\ sent.state
           \/ sent.type \in {"agent.session.state", "agent.session.closed"} /\ sent.state
           \/ sent.type \in {"output.transcript", "turn.started", "turn.completed", "turn.interrupted"}
                /\ Wire!Identifier(m.turn)
           \/ sent.type \in {"tool.started", "tool.result", "tool.confirmation"}
                /\ Wire!Identifier(m.turn) /\ Wire!Identifier(m.operation)
           \/ sent.type = "agent.error" /\ sent.code
           \/ sent.type = "output.audio" /\ Wire!Identifier(m.turn) /\ m.sequence # 0
                /\ m.audio \in 1..Wire!MaxAudioBytes /\ m.audio % 2 = 0 /\ m.rate > 0
    <2>1. sent.type # "ui.a2ui"
      BY <1>1, EventNamesDiffer
    <2> QED BY <1>1, <2>1, Zenon DEF Wire!ValidateEvent
  <1>5. /\ sent.type \in {"agent.session.ready", "agent.session.renewed"} <=> m.type \in {"session.ready", "session.renewed"}
        /\ sent.type \in {"agent.session.state", "agent.session.closed"} <=> m.type \in {"session.state", "session.stopped"}
        /\ sent.type \in {"output.transcript", "turn.started", "turn.completed", "turn.interrupted"}
             <=> m.type \in {"transcript", "turn.started", "turn.completed", "turn.interrupted"}
        /\ sent.type \in {"tool.started", "tool.result", "tool.confirmation"}
             <=> m.type \in {"tool.started", "tool.result", "tool.confirmation"}
        /\ sent.type = "agent.error" <=> m.type = "error"
        /\ sent.type = "output.audio" <=> m.type = "audio.output"
    BY <1>1, <1>3, EventNamesDiffer
  <1>6. Wire!ValidateEvent(protocol, sent) <=>
           \/ m.type \in {"session.ready", "session.renewed"} /\ m.provider /\ m.state
           \/ m.type \in {"session.state", "session.stopped"} /\ m.state
           \/ m.type \in {"transcript", "turn.started", "turn.completed", "turn.interrupted"}
                /\ Wire!Identifier(m.turn)
           \/ m.type \in {"tool.started", "tool.result", "tool.confirmation"}
                /\ Wire!Identifier(m.turn) /\ Wire!Identifier(m.operation)
           \/ m.type = "error" /\ m.code
           \/ m.type = "audio.output" /\ Wire!Identifier(m.turn) /\ m.sequence # 0
                /\ m.audio \in 1..Wire!MaxAudioBytes /\ m.audio % 2 = 0 /\ m.rate > 0
    BY <1>2, <1>4, <1>5, Zenon
  <1> QED BY <1>6 DEF sent

\* A message that is no audio arrives if it passes that test.
LEMMA Arrives ==
  ASSUME NEW protocol \in {"v1", "v2"}, NEW m \in Messages, m.type \in DOMAIN Wire!EventNames
  PROVE  Wire!Delivered(protocol, m) = m <=>
           \/ m.type \in {"session.ready", "session.renewed"} /\ m.provider /\ m.state
           \/ m.type \in {"session.state", "session.stopped"} /\ m.state
           \/ m.type \in {"transcript", "turn.started", "turn.completed", "turn.interrupted"}
                /\ Wire!Identifier(m.turn)
           \/ m.type \in {"tool.started", "tool.result", "tool.confirmation"}
                /\ Wire!Identifier(m.turn) /\ Wire!Identifier(m.operation)
           \/ m.type = "error" /\ m.code
           \/ m.type = "audio.output" /\ Wire!Identifier(m.turn) /\ m.sequence # 0 /\ m.rate > 0
                /\ Wire!DecodeAudio(m.audio)
  <1> DEFINE sent == [m EXCEPT !.type = Wire!EventNames[m.type]]
  <1>1. m.audio = 0 => m.audio \notin 1..Wire!MaxAudioBytes
    BY AudioLimitsOrdered
  <1>2. m.type = "audio.output" /\ Wire!ValidateEvent(protocol, sent) => m.audio # 0
    BY <1>1, Renaming
  <1>3. Wire!Delivered(protocol, m) = m <=>
           /\ m.type = "audio.output" => Wire!DecodeAudio(m.audio)
           /\ Wire!ValidateEvent(protocol, sent)
    <2> HIDE DEF sent
    <2>1. sent = [m EXCEPT !.type = Wire!EventNames[m.type]]
      BY DEF sent
    <2> QED BY <1>2, <2>1, DeliveredBack
  <1>4. Wire!DecodeAudio(m.audio) => m.audio \in 1..Wire!MaxAudioBytes /\ m.audio % 2 = 0
    BY AudioFits
  <1> QED BY <1>3, <1>4, Renaming

LEMMA LoopEventsPass == LoopEventsReachTheClient
  <1> SUFFICES ASSUME NEW protocol \in {"v1", "v2"}
               PROVE  /\ \A e \in LoopEvents : Wire!Delivered(protocol, e) = e
                      /\ Wire!Delivered(protocol, Surface) = IF protocol = "v2" THEN Surface ELSE None
    BY DEF LoopEventsReachTheClient
  <1>1. ASSUME NEW type \in {"session.ready", "session.renewed"}
        PROVE  LET m == [Message(type) EXCEPT !.provider = TRUE, !.state = TRUE] IN
               Wire!Delivered(protocol, m) = m
    <2> DEFINE m == [Message(type) EXCEPT !.provider = TRUE, !.state = TRUE]
    <2>1. type \in DOMAIN Wire!EventNames
      BY EventNamesDiffer
    <2>2. m \in Messages /\ m.type = type /\ m.provider /\ m.state
      BY <2>1, OpeningMessage
    <2> HIDE DEF m
    <2>3. Wire!Delivered(protocol, m) = m
      BY <2>1, <2>2, Arrives
    <2> QED BY <2>3 DEF m
  <1>2. LET m == [Message("session.stopped") EXCEPT !.state = TRUE] IN Wire!Delivered(protocol, m) = m
    <2> DEFINE m == [Message("session.stopped") EXCEPT !.state = TRUE]
    <2>1. "session.stopped" \in DOMAIN Wire!EventNames
      BY EventNamesDiffer
    <2>2. m \in Messages /\ m.type = "session.stopped" /\ m.state
      BY <2>1, PlainMessage, Flagged
    <2> HIDE DEF m
    <2>3. Wire!Delivered(protocol, m) = m
      BY <2>1, <2>2, Arrives
    <2> QED BY <2>3 DEF m
  <1>3. LET m == [Message("error") EXCEPT !.code = TRUE] IN Wire!Delivered(protocol, m) = m
    <2> DEFINE m == [Message("error") EXCEPT !.code = TRUE]
    <2>1. "error" \in DOMAIN Wire!EventNames
      BY EventNamesDiffer
    <2>2. m \in Messages /\ m.type = "error" /\ m.code
      BY <2>1, PlainMessage, Flagged
    <2> HIDE DEF m
    <2>3. Wire!Delivered(protocol, m) = m
      BY <2>1, <2>2, Arrives
    <2> QED BY <2>3 DEF m
  <1>4. ASSUME NEW type \in {"tool.started", "tool.result", "tool.confirmation"}
        PROVE  Wire!Delivered(protocol, Tool(type, "t", "plain")) = Tool(type, "t", "plain")
    <2> DEFINE m == Tool(type, "t", "plain")
    <2>1. type \in DOMAIN Wire!EventNames
      BY EventNamesDiffer
    <2>2. Wire!Identifier(ShapeOf("t")) /\ Wire!Identifier("plain")
      BY RelayAssumption DEF ShapeOf, Wire!Identifier
    <2>3. m \in Messages /\ m.type = type /\ m.turn = ShapeOf("t") /\ m.operation = "plain"
      BY <2>1, ToolMessage
    <2> HIDE DEF m
    <2>4. Wire!Delivered(protocol, m) = m
      BY <2>1, <2>2, <2>3, Arrives
    <2> QED BY <2>4 DEF m
  <1>5. Wire!Delivered(protocol, Surface) = IF protocol = "v2" THEN Surface ELSE None
    <2>1. Surface \in Messages /\ Surface.type = "ui.a2ui" /\ Surface.ui = 1
      <3> DEFINE m == Message("ui.a2ui")
      <3>1. m \in Messages /\ m.type = "ui.a2ui"
        BY SMT DEF Messages, Message, Wire!Shapes
      <3> HIDE DEF m
      <3>2. LET p == [m EXCEPT !.ui = 1] IN p \in Messages /\ p.type = m.type /\ p.ui = 1
        BY <3>1, SMT DEF Messages
      <3> QED BY <3>1, <3>2 DEF Surface, m
    <2>2. Surface # None
      BY <2>1, RelayAssumption
    <2>3. Wire!AgentFromAccountVoice(Surface) = Surface /\ Wire!AgentFromVoice(Surface) = None
      BY <2>1, EventNamesDiffer DEF Wire!AgentFromAccountVoice, Wire!AgentFromVoice
    <2>4. Wire!ValidateEvent("v2", Surface) /\ Wire!VoiceFromAgent(Surface) = Surface
      BY <2>1 DEF Wire!ValidateEvent, Wire!VoiceFromAgent, Wire!MaxSurfaceBytes
    <2> QED BY <2>2, <2>3, <2>4 DEF Wire!Delivered
  <1> QED BY <1>1, <1>2, <1>3, <1>4, <1>5 DEF LoopEvents

(* A turn that was told has an id the client's protocol and the agents'    *)
(* admit.                                                                  *)
LEMMA ToldTurnsPass ==
  ASSUME told \subseteq TurnIds
  PROVE  ToldTurnsCanBeNamed
  <1> SUFFICES ASSUME NEW t \in told, NEW type \in {"turn.commit", "turn.cancel"}, NEW version \in {1, 2}
               PROVE  Wire!Verdict(version,
                        [type |-> type, session |-> "own", turn |-> OfTurn("turn.started", t).turn, sequence |-> 0,
                         audio |-> 0, rate |-> 0, operation |-> None, extra |-> {}]) = "sent"
    BY DEF ToldTurnsCanBeNamed
  <1> DEFINE e == [type |-> type, session |-> "own", turn |-> OfTurn("turn.started", t).turn, sequence |-> 0,
                   audio |-> 0, rate |-> 0, operation |-> None, extra |-> {}]
  <1>1. t # None
    BY MapperAssumption DEF TurnIds
  <1>2. OfTurn("turn.started", t).turn = "plain"
    BY <1>1, TurnMessage, EventNamesDiffer DEF ShapeOf
  <1>3. /\ e.type = type /\ e.session = "own" /\ e.turn = "plain" /\ e.sequence = 0 /\ e.audio = 0
        /\ e.rate = 0 /\ e.operation = None /\ e.extra = {}
    BY <1>2
  <1>4. e \in AllClientEvents
    BY <1>2 DEF AllClientEvents, Wire!ClientTypes, Wire!Shapes
  <1> HIDE DEF e
  <1>5. Legal(version, e)
    BY <1>3 DEF Legal, Wire!DecodeClient, Wire!ValidID
  <1>6. ~Unsendable(e)
    BY <1>3 DEF Unsendable
  <1>7. Wire!Verdict(version, e) = "sent"
    BY <1>4, <1>5, <1>6, LegalVerdict
  <1> QED BY <1>7 DEF e

-----------------------------------------------------------------------------
(* What the mapper tells.                                                  *)
LEMMA PcmFacts ==
  ASSUME NEW bytes \in PcmSizes
  PROVE  /\ bytes \in Nat /\ bytes # 0
         /\ Wire!DecodeAudio(bytes) <=> bytes <= 32000
  <1>1. bytes \in {2, Wire!MaxAudioChunkBytes, Wire!MaxAudioChunkBytes + 2, Wire!MaxAudioBytes,
                   Wire!MaxAudioBytes + 2, MaxPcmBytes, MaxPcmBytes + 2}
    BY DEF PcmSizes
  <1>2. bytes % 2 = 0
    BY Zenon DEF PcmSizes
  <1>3. bytes \in Nat /\ bytes # 0
    BY <1>1, AudioLimits
  <1>4. Wire!DecodeAudio(bytes) <=> bytes \in 1..Wire!MaxAudioChunkBytes
    BY <1>2 DEF Wire!DecodeAudio
  <1>5. bytes \in 1..Wire!MaxAudioChunkBytes <=> bytes <= Wire!MaxAudioChunkBytes
    BY <1>3, AudioLimitsOrdered
  <1>6. bytes <= Wire!MaxAudioChunkBytes <=> bytes <= 32000
    BY <1>3, AudioLimits, SMT
  <1> QED BY <1>3, <1>4, <1>5, <1>6

\* The tests ask of a turn whether there is one, of a number whether it is 0.
LEMMA Emitting ==
  ASSUME NEW e \in Events, NEW bytes \in SizesOf(e.type)
  PROVE  Emitted(e, bytes) \in Emissions
  <1> DEFINE t == IF e.turn = None THEN None ELSE "t"
             n == IF e.n = 0 THEN 0 ELSE 1
             x == [type |-> e.type, turn |-> t, n |-> n]
  <1>1. e.type \in EventTypes
    BY DEF Events
  <1>2. Emitted(x, bytes) \in Emissions
    BY <1>1 DEF Emissions
  <1>3. t = None <=> e.turn = None
    BY RelayAssumption
  <1>4. n = 0 <=> e.n = 0
    OBVIOUS
  <1>5. x.type = e.type /\ x.turn = t /\ x.n = n
    OBVIOUS
  <1> HIDE DEF t, n, x
  <1>6. \A type : OfTurn(type, x.turn) = OfTurn(type, e.turn)
    BY <1>3, <1>5 DEF OfTurn
  <1>7. Audio(x.turn, x.n, bytes) = Audio(e.turn, e.n, bytes)
    <2> DEFINE Numbered(k) == IF k = 0 THEN 0 ELSE 1
               As(m, k) == [[[m EXCEPT !.sequence = k] EXCEPT !.audio = bytes] EXCEPT !.rate = 24000]
    <2>1. Numbered(x.n) = Numbered(e.n)
      BY <1>4, <1>5
    <2>2. OfTurn("audio.output", x.turn) = OfTurn("audio.output", e.turn)
      BY <1>6
    <2>3. Audio(x.turn, x.n, bytes) = As(OfTurn("audio.output", x.turn), Numbered(x.n))
      BY DEF Audio
    <2>4. Audio(e.turn, e.n, bytes) = As(OfTurn("audio.output", e.turn), Numbered(e.n))
      BY DEF Audio
    <2> HIDE DEF Numbered, As
    <2> QED BY <2>1, <2>2, <2>3, <2>4
  <1>8. StateOf(x.turn) = StateOf(e.turn)
    BY <1>6 DEF StateOf
  <1>9. Tool("tool.started", x.turn, "plain") = Tool("tool.started", e.turn, "plain")
    BY <1>6 DEF Tool
  <1>10. Emitted(x, bytes) = Emitted(e, bytes)
    BY <1>1, <1>5, <1>6, <1>7, <1>8, <1>9 DEF Emitted, EventTypes
  <1> QED BY <1>2, <1>10

LEMMA EmittedArrives ==
  ASSUME NEW e \in Events, NEW bytes \in SizesOf(e.type), e.type = "audio" => e.n # 0,
         NEW protocol \in {"v1", "v2"}
  PROVE  LET m == Emitted(e, bytes) IN
         Wire!Delivered(protocol, m) = m <=>
             /\ e.turn = None => m.type = "session.state"
             /\ e.type = "audio" => bytes <= 32000
  <1> DEFINE m == Emitted(e, bytes)
  <1>1. e.type \in EventTypes /\ e.n \in Nat
    BY DEF Events
  <1>2. Wire!Identifier(ShapeOf(e.turn)) <=> e.turn # None
    BY DEF Wire!Identifier, ShapeOf
  <1>3. CASE e.type \in {"started", "interrupted", "completed", "transcript"}
    <2>1. PICK type \in {"turn.started", "turn.interrupted", "turn.completed", "transcript"} :
             m = OfTurn(type, e.turn)
      BY <1>3 DEF Emitted
    <2>2. type \in DOMAIN Wire!EventNames
      BY EventNamesDiffer
    <2>3. m \in Messages /\ m.type = type /\ m.turn = ShapeOf(e.turn)
      BY <2>1, <2>2, TurnMessage
    <2> HIDE DEF m
    <2>4. Wire!Delivered(protocol, m) = m <=> e.turn # None
      BY <1>2, <2>2, <2>3, Arrives
    <2>5. m.type # "session.state" /\ e.type # "audio"
      BY <1>3, <2>3
    <2>6. Wire!Delivered(protocol, m) = m <=>
             /\ e.turn = None => m.type = "session.state"
             /\ e.type = "audio" => bytes <= 32000
      BY <2>4, <2>5
    <2> QED BY <2>6 DEF m
  <1>4. CASE e.type = "audio"
    <2>1. bytes \in Nat /\ bytes # 0 /\ (Wire!DecodeAudio(bytes) <=> bytes <= 32000)
      BY <1>4, PcmFacts DEF SizesOf
    <2>2. m = Audio(e.turn, e.n, bytes)
      BY <1>4 DEF Emitted
    <2>3. /\ m \in Messages /\ m.type = "audio.output" /\ m.turn = ShapeOf(e.turn)
          /\ m.sequence = 1 /\ m.audio = bytes /\ m.rate = 24000
      BY <1>1, <1>4, <2>1, <2>2, AudioMessage
    <2> HIDE DEF m
    <2>4. Wire!Delivered(protocol, m) = m <=> e.turn # None /\ Wire!DecodeAudio(bytes)
      <3>1. m.type \in DOMAIN Wire!EventNames
        BY <2>3, EventNamesDiffer
      <3>2. m.sequence # 0 /\ m.rate > 0
        BY <2>3
      <3> QED BY <1>2, <2>3, <3>1, <3>2, Arrives
    <2>5. Wire!Delivered(protocol, m) = m <=>
             /\ e.turn = None => m.type = "session.state"
             /\ e.type = "audio" => bytes <= 32000
      BY <1>4, <2>1, <2>3, <2>4
    <2> QED BY <2>5 DEF m
  <1>5. CASE e.type = "tool"
    <2>1. m = Tool("tool.started", e.turn, "plain")
      BY <1>5 DEF Emitted
    <2>2. "tool.started" \in DOMAIN Wire!EventNames
      BY EventNamesDiffer
    <2>3. m \in Messages /\ m.type = "tool.started" /\ m.turn = ShapeOf(e.turn) /\ m.operation = "plain"
      BY <2>1, <2>2, ToolMessage
    <2> HIDE DEF m
    <2>4. Wire!Delivered(protocol, m) = m <=> e.turn # None
      <3>1. Wire!Identifier(m.operation)
        BY <2>3 DEF Wire!Identifier
      <3> QED BY <1>2, <2>2, <2>3, <3>1, Arrives
    <2>5. Wire!Delivered(protocol, m) = m <=>
             /\ e.turn = None => m.type = "session.state"
             /\ e.type = "audio" => bytes <= 32000
      BY <1>5, <2>3, <2>4
    <2> QED BY <2>5 DEF m
  <1>6. CASE e.type \in {"idle", "listening", "responding"}
    <2>1. m = StateOf(e.turn)
      BY <1>6 DEF Emitted
    <2>2. m \in Messages /\ m.type = "session.state" /\ m.state
      BY <2>1, StateMessage
    <2> HIDE DEF m
    <2>3. Wire!Delivered(protocol, m) = m
      <3>1. m.type \in DOMAIN Wire!EventNames
        BY <2>2, EventNamesDiffer
      <3> QED BY <2>2, <3>1, Arrives
    <2>4. Wire!Delivered(protocol, m) = m <=>
             /\ e.turn = None => m.type = "session.state"
             /\ e.type = "audio" => bytes <= 32000
      BY <1>6, <2>2, <2>3
    <2> QED BY <2>4 DEF m
  <1> QED BY <1>1, <1>3, <1>4, <1>5, <1>6 DEF EventTypes

LEMMA StepReaches ==
  ASSUME StoryInv, Next
  PROVE  ToldArrives
  <1> SUFFICES ASSUME NEW e \in out', NEW bytes \in SizesOf(e.type)
               PROVE  Emitted(e, bytes) \in Delivered <=>
                        /\ e.turn = None => Emitted(e, bytes).type = "session.state"
                        /\ e.type = "audio" => bytes <= 32000
    BY DEF ToldArrives
  <1>1. StoryInv' /\ Promises
    BY StepKeeps
  <1>2. e \in Events
    BY <1>1 DEF StoryInv, StoryTypeOK, MapperTypeOK
  <1>3. e.type = "audio" => e.n # 0
    <2>1. heard[e.turn] \in Nat
      BY <1>2 DEF StoryInv, StoryTypeOK, Events
    <2> QED BY <1>1, <2>1 DEF Promises
  <1>4. Emitted(e, bytes) \in Emissions
    BY <1>2, Emitting
  <1>5. \A protocol \in {"v1", "v2"} :
           Wire!Delivered(protocol, Emitted(e, bytes)) = Emitted(e, bytes) <=>
             /\ e.turn = None => Emitted(e, bytes).type = "session.state"
             /\ e.type = "audio" => bytes <= 32000
    BY <1>2, <1>3, EmittedArrives
  <1>6. Emitted(e, bytes) \in Delivered <=>
          \A protocol \in {"v1", "v2"} : Wire!Delivered(protocol, Emitted(e, bytes)) = Emitted(e, bytes)
    BY <1>4, Zenon DEF Delivered
  <1> QED BY <1>5, <1>6

(* What the mapper tells of a turn reaches the client as it was told.      *)
THEOREM ToldIsDelivered == Spec => EventsReachTheClient
  <1>1. StoryInv /\ [Next]_vars => [ToldArrives]_vars
    BY StepReaches
  <1> QED BY <1>1, StoryInvariant, PTL DEF Spec, EventsReachTheClient

(* What a client may send and what the loops emit arrives as it was: the   *)
(* events TLC tries, and those with any number, size and extra fields.     *)
THEOREM MessagesAlwaysPass == Spec => [](MessagesPass /\ EventsReachTheLoop(AllClientEvents))
  <1>1. StoryInv => MessagesPass /\ EventsReachTheLoop(AllClientEvents)
    BY ClientEventsPass, EveryEventReachesTheLoop, LoopEventsPass, ToldTurnsPass
       DEF StoryInv, StoryTypeOK, MessagesPass
  <1> QED BY <1>1, StoryInvariant, PTL

================================================================================
