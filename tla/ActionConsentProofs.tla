-------------------------- MODULE ActionConsentProofs --------------------------
(***************************************************************************)
(* Proofs about the tool gate: its inductive invariant IInv, and from it   *)
(* the three properties of ActionConsent, for every set of keys, tools,    *)
(* call ids and turns, every policy and every bound.                       *)
(***************************************************************************)
EXTENDS ActionConsent, TLAPS

(* The initial state satisfies the inductive invariant. *)
LEMMA InitIInv == ConsentInit => IInv
  <1> SUFFICES ASSUME ConsentInit PROVE IInv
    OBVIOUS
  <1> USE BoundsAssumption, ToolsAssumption DEF ConsentInit, Init
  <1>1. ConsentTypeOK
    BY DEF ConsentTypeOK, TypeOK, NoIntent, Pendings, Jobs, Questions
  <1>2. AttemptedIsIssued /\ SeenIsIssued /\ PendingIsQuestion /\ IssuedOnce
    BY DEF AttemptedIsIssued, SeenIsIssued, PendingIsQuestion, IssuedOnce
  <1> QED
    BY <1>1, <1>2 DEF IInv

(* Accepting a call keeps its books in their types. *)
LEMMA CountTypes ==
  ASSUME TypeOK, NEW id \in CallIDs, NEW k \in Keys, Accepted(id, k), Count(id, k)
  PROVE  seen' \in [CallIDs -> Keys \cup {None}] /\ calls' \in 0..MaxCalls
  BY BoundsAssumption DEF TypeOK, Accepted, Count

(* Every way the model's call ends preserves the invariant (Session.Plan). *)
LEMMA PlanIInv ==
  ASSUME IInv, NEW id \in CallIDs, NEW k \in Keys, NEW t \in Turns,
         AnswerAtOnce(id, k, t) \/ AskConfirmation(id, k, t) \/ Issue(id, k, t),
         questions' = questions \cup Asked
  PROVE  IInv'
  <1> USE ToolsAssumption, BoundsAssumption
  <1>1. CASE AnswerAtOnce(id, k, t)
    <2> USE <1>1 DEF IInv, AnswerAtOnce, Count, Accepted
    <2>1. questions' = questions
      BY DEF Asked
    <2>2. ConsentTypeOK'
      BY <2>1 DEF ConsentTypeOK, TypeOK
    <2>3. SeenIsIssued'
      BY DEF SeenIsIssued, ConsentTypeOK, TypeOK, Jobs
    <2>4. AttemptedIsIssued' /\ PendingIsQuestion' /\ IssuedOnce'
      BY <2>1 DEF AttemptedIsIssued, PendingIsQuestion, IssuedOnce, Mutates
    <2> QED BY <2>2, <2>3, <2>4
  <1>2. CASE AskConfirmation(id, k, t)
    <2> DEFINE new == [id |-> id, key |-> k, turn |-> t, expires |-> now + TTL,
                       approved |-> FALSE]
    <2>0. /\ seen' \in [CallIDs -> Keys \cup {None}] /\ calls' \in 0..MaxCalls
          /\ UNCHANGED <<cache, attempted, intent, now, issued>>
      BY <1>2, CountTypes DEF IInv, ConsentTypeOK, AskConfirmation
    <2> USE <1>2 DEF IInv, AskConfirmation, Count, Accepted
    <2>1. CASE Standing(k)
      <3>1. pending' = pending /\ questions' = questions
        BY <2>1 DEF Asked
      <3>2. ConsentTypeOK'
        BY <2>0, <3>1 DEF ConsentTypeOK, TypeOK
      <3>3. SeenIsIssued'
        BY DEF SeenIsIssued, ConsentTypeOK, TypeOK, Jobs
      <3>4. AttemptedIsIssued' /\ PendingIsQuestion' /\ IssuedOnce'
        BY <3>1 DEF AttemptedIsIssued, PendingIsQuestion, IssuedOnce, Mutates
      <3> QED BY <3>2, <3>3, <3>4
    <2>2. CASE ~Standing(k)
      <3>1. pending' = new /\ new \in Pendings
        BY <2>2 DEF Pendings, ConsentTypeOK, TypeOK
      <3>2. ConsentTypeOK'
        <4> DEFINE q == [id |-> id, key |-> k, turn |-> t, until |-> now + TTL,
                         granted |-> FALSE]
        <4>a. q \in Questions
          BY DEF ConsentTypeOK, TypeOK, Questions
        <4>b. Asked \in {{q}, {}}
          BY <3>1 DEF Asked
        <4>1. Asked \subseteq Questions
          BY <4>a, <4>b
        <4> HIDE DEF new, AskConfirmation, Count, Accepted
        <4> QED BY <2>0, <3>1, <4>1 DEF ConsentTypeOK, TypeOK
      <3>3. SeenIsIssued'
        BY DEF SeenIsIssued, ConsentTypeOK, TypeOK, Jobs
      <3>4. AttemptedIsIssued' /\ IssuedOnce'
        BY DEF AttemptedIsIssued, IssuedOnce, Mutates
      <3>5. PendingIsQuestion'
        <4>1. CASE pending' = pending
          BY <3>1, <4>1 DEF PendingIsQuestion, Asked
        <4>2. CASE pending' # pending
          <5> DEFINE q == [id |-> id, key |-> k, turn |-> t, until |-> now + TTL,
                           granted |-> FALSE]
          <5>1. pending' # None
            BY <3>1, NoneAssumption
          <5>2. q \in questions'
            BY <3>1, <4>2, <5>1 DEF Asked
          <5> QED BY <3>1, <5>2 DEF PendingIsQuestion
        <4> QED BY <4>1, <4>2
      <3> QED BY <3>2, <3>3, <3>4, <3>5
    <2> QED BY <2>1, <2>2
  <1>3. CASE Issue(id, k, t)
    <2> USE <1>3 DEF IInv, Issue, Count, Accepted
    <2> DEFINE job == [id |-> id, key |-> k, turn |-> t, confirmed |-> ConfirmLater(k)]
    <2>1. questions' = questions
      BY DEF Asked
    <2>2. ConsentTypeOK'
      <3>1. seen' \in [CallIDs -> Keys \cup {None}] /\ calls' \in 0..MaxCalls
        BY CountTypes DEF ConsentTypeOK
      <3>2. pending' \in Pendings \cup {None} /\ attempted' \subseteq Keys
        BY DEF ConsentTypeOK, TypeOK
      <3>3. issued' \subseteq Jobs
        <4>1. job \in Jobs
          BY DEF Jobs, ConfirmLater
        <4> QED BY <4>1 DEF ConsentTypeOK, TypeOK
      <3>4. UNCHANGED <<cache, intent, now>>
        OBVIOUS
      <3> QED BY <2>1, <3>1, <3>2, <3>3, <3>4 DEF ConsentTypeOK, TypeOK
    <2>3. SeenIsIssued'
      BY DEF SeenIsIssued, ConsentTypeOK, TypeOK, Jobs
    <2>4. AttemptedIsIssued'
      <3>1. issued' = issued \cup {job} /\ job.key = k
        OBVIOUS
      <3>2. attempted' = IF Mutates(k) THEN attempted \cup {k} ELSE attempted
        OBVIOUS
      <3> HIDE DEF Issue, job
      <3> QED BY <3>1, <3>2 DEF AttemptedIsIssued, Mutates
    <2>5. IssuedOnce'
      BY DEF IssuedOnce, AttemptedIsIssued, Fresh, Mutates
    <2>6. PendingIsQuestion'
      BY <2>1 DEF PendingIsQuestion
    <2> QED BY <2>2, <2>3, <2>4, <2>5, <2>6
  <1> QED BY <1>1, <1>2, <1>3

(* What the user says, the finalized transcript of a turn, preserves it. *)
LEMMA SpeakIInv ==
  ASSUME IInv, NEW t \in Turns, NEW u \in Utterances, ObserveUser(t, u),
         questions' = CASE u.says = "confirm" -> Granting(AnsweredBy(t, u))
                        [] u.says = "deny" -> {q \in questions : q.turn = t}
                        [] OTHER -> questions
  PROVE  IInv'
  <1> USE ToolsAssumption, BoundsAssumption DEF IInv, ObserveUser, Hear
  <1>0. u.says \in {"confirm", "ask", "deny", "other"}
    BY DEF Utterances
  <1>1. questions' \subseteq Questions
    <2>1. questions \subseteq Questions
      BY DEF ConsentTypeOK
    <2>2. Granting(AnsweredBy(t, u)) \subseteq Questions
      BY <2>1 DEF Granting, Questions
    <2> QED BY <2>1, <2>2
  <1>2. pending' \in Pendings \cup {None}
    BY DEF ConsentTypeOK, TypeOK, Pendings, Approves, Concerned
  <1>3. ConsentTypeOK'
    BY <1>1, <1>2 DEF ConsentTypeOK, TypeOK, Utterances
  <1>4. AttemptedIsIssued' /\ SeenIsIssued' /\ IssuedOnce'
    BY DEF AttemptedIsIssued, SeenIsIssued, IssuedOnce, Mutates
  <1>5. PendingIsQuestion'
    <2> SUFFICES ASSUME pending' # None, now <= pending'.expires
                 PROVE  \E q \in questions' :
                          /\ q.id = pending'.id /\ q.key = pending'.key
                          /\ q.turn = pending'.turn /\ q.until = pending'.expires
                          /\ pending'.approved => q.granted
      BY DEF PendingIsQuestion
    <2>1. /\ pending # None /\ pending'.id = pending.id /\ pending'.key = pending.key
          /\ pending'.turn = pending.turn /\ pending'.expires = pending.expires
      BY DEF Approves, Concerned, ConsentTypeOK, TypeOK, Pendings
    <2>2. PICK q \in questions :
             /\ q.id = pending.id /\ q.key = pending.key /\ q.turn = pending.turn
             /\ q.until = pending.expires
             /\ pending.approved => q.granted
      BY <2>1 DEF PendingIsQuestion
    <2>3. q \in Questions
      BY DEF ConsentTypeOK
    <2>4. CASE u.says = "confirm"
      <3> DEFINE g == IF q \in AnsweredBy(t, u) THEN [q EXCEPT !.granted = TRUE] ELSE q
      <3>1. g \in questions'
        BY <2>4 DEF Granting
      <3>2. /\ g.id = q.id /\ g.key = q.key /\ g.turn = q.turn /\ g.until = q.until
            /\ q.granted => g.granted
            /\ q \in AnsweredBy(t, u) => g.granted
        BY <2>3 DEF Questions
      <3>3. pending'.approved => pending.approved \/ q \in AnsweredBy(t, u)
        BY <2>1, <2>2 DEF Approves, Concerned, AnsweredBy
      <3> QED BY <2>1, <2>2, <3>1, <3>2, <3>3
    <2>5. CASE u.says = "deny"
      <3>1. ~Concerned(t) /\ pending' = pending
        BY <2>1, <2>5 DEF Approves, Withdraws
      <3>2. q \in questions'
        BY <2>1, <2>2, <2>5, <3>1 DEF Concerned
      <3> QED BY <2>2, <3>1, <3>2
    <2>6. CASE u.says \notin {"confirm", "deny"}
      <3>1. questions' = questions /\ pending' = pending
        BY <2>1, <2>6 DEF Approves, Withdraws
      <3> QED BY <2>2, <3>1
    <2> QED BY <2>4, <2>5, <2>6
  <1> QED BY <1>3, <1>4, <1>5

(* The answer given in the UI preserves it (Session.Confirm). *)
LEMMA ClickIInv ==
  ASSUME IInv, NEW op \in CallIDs, NEW yes \in BOOLEAN, Confirm(op, yes),
         questions' = IF yes THEN Granting(ClickedOn(op)) ELSE questions \ ClickedOn(op)
  PROVE  IInv'
  <1> USE ToolsAssumption, BoundsAssumption DEF IInv, Confirm
  <1>1. questions' \subseteq Questions
    <2>1. \A q \in questions : q \in Questions /\ [q EXCEPT !.granted = TRUE] \in Questions
      BY DEF ConsentTypeOK, Questions
    <2>2. Granting(ClickedOn(op)) \subseteq Questions
      BY <2>1 DEF Granting
    <2> QED BY <2>1, <2>2
  <1>2. pending' \in Pendings \cup {None}
    BY DEF ConsentTypeOK, TypeOK, Pendings, Confirmable
  <1>3. ConsentTypeOK'
    BY <1>1, <1>2 DEF ConsentTypeOK, TypeOK
  <1>4. AttemptedIsIssued' /\ SeenIsIssued' /\ IssuedOnce'
    BY DEF AttemptedIsIssued, SeenIsIssued, IssuedOnce, Mutates
  <1>5. PendingIsQuestion'
    <2> SUFFICES ASSUME pending' # None, now <= pending'.expires
                 PROVE  \E q \in questions' :
                          /\ q.id = pending'.id /\ q.key = pending'.key
                          /\ q.turn = pending'.turn /\ q.until = pending'.expires
                          /\ pending'.approved => q.granted
      BY DEF PendingIsQuestion
    <2>1. /\ pending # None /\ pending'.id = pending.id /\ pending'.key = pending.key
          /\ pending'.turn = pending.turn /\ pending'.expires = pending.expires
      BY DEF Confirmable, ConsentTypeOK, TypeOK, Pendings
    <2>2. PICK q \in questions :
             /\ q.id = pending.id /\ q.key = pending.key /\ q.turn = pending.turn
             /\ q.until = pending.expires
             /\ pending.approved => q.granted
      BY <2>1 DEF PendingIsQuestion
    <2>3. q \in Questions
      BY DEF ConsentTypeOK
    <2>4. CASE yes
      <3> DEFINE g == IF q \in ClickedOn(op) THEN [q EXCEPT !.granted = TRUE] ELSE q
      <3>1. g \in questions'
        BY <2>4 DEF Granting
      <3>2. /\ g.id = q.id /\ g.key = q.key /\ g.turn = q.turn /\ g.until = q.until
            /\ q.granted => g.granted
            /\ q \in ClickedOn(op) => g.granted
        BY <2>3 DEF Questions
      <3>3. pending'.approved => pending.approved \/ q \in ClickedOn(op)
        BY <2>1, <2>2 DEF Confirmable, ClickedOn
      <3> QED BY <2>1, <2>2, <3>1, <3>2, <3>3
    <2>5. CASE ~yes
      <3>1. ~Confirmable(op) /\ pending' = pending
        BY <2>1, <2>5
      <3>2. q \notin ClickedOn(op)
        BY <2>1, <2>2, <3>1 DEF Confirmable, ClickedOn
      <3> QED BY <2>2, <2>5, <3>1, <3>2
    <2> QED BY <2>4, <2>5
  <1> QED BY <1>3, <1>4, <1>5

(* No step of the session breaks the inductive invariant. *)
LEMMA NextIInv == IInv /\ [Next]_vars => IInv'
  <1> SUFFICES ASSUME IInv, [Next]_vars PROVE IInv'
    OBVIOUS
  <1> USE ToolsAssumption, BoundsAssumption
  <1>1. CASE ModelCalls
    <2>1. PICK id \in CallIDs, k \in Keys \cup {Malformed}, t \in Turns :
             Plan(id, k, t) /\ questions' = questions \cup Asked
      BY <1>1 DEF ModelCalls
    <2>2. CASE Refuse(id, k)
      BY <2>1, <2>2 DEF Refuse, Asked, gateVars, IInv, ConsentTypeOK, TypeOK, AttemptedIsIssued,
                        SeenIsIssued, PendingIsQuestion, IssuedOnce, Mutates
    <2>3. CASE k # Malformed /\ (AnswerAtOnce(id, k, t) \/ AskConfirmation(id, k, t)
                                   \/ Issue(id, k, t))
      BY <2>1, <2>3, PlanIInv
    <2> QED BY <2>1, <2>2, <2>3 DEF Plan
  <1>2. CASE JobEnds
    <2>1. PICK j \in issued, r \in Results : Complete(j, r) /\ UNCHANGED questions
      BY <1>2 DEF JobEnds
    <2> QED BY <2>1 DEF Complete, IInv, ConsentTypeOK, TypeOK, AttemptedIsIssued, SeenIsIssued,
                        PendingIsQuestion, IssuedOnce, Mutates, Jobs, Results
  <1>3. CASE UserSpeaks
    BY <1>3, SpeakIInv DEF UserSpeaks
  <1>4. CASE UserClicks
    BY <1>4, ClickIInv DEF UserClicks
  <1>5. CASE Interrupted
    BY <1>5 DEF Interrupted, Interrupt, IInv, ConsentTypeOK, TypeOK, AttemptedIsIssued,
                SeenIsIssued, PendingIsQuestion, IssuedOnce, Mutates
  <1>6. CASE TimePasses
    <2> USE <1>6 DEF TimePasses, Tick, IInv
    <2>1. ConsentTypeOK'
      BY DEF ConsentTypeOK, TypeOK
    <2>2. AttemptedIsIssued' /\ SeenIsIssued' /\ IssuedOnce'
      BY DEF AttemptedIsIssued, SeenIsIssued, IssuedOnce, Mutates
    <2>3. PendingIsQuestion'
      BY DEF PendingIsQuestion, ConsentTypeOK, TypeOK, Pendings
    <2> QED BY <2>1, <2>2, <2>3
  <1>7. CASE UNCHANGED vars
    BY <1>7 DEF vars, gateVars, IInv, ConsentTypeOK, TypeOK, AttemptedIsIssued, SeenIsIssued,
                PendingIsQuestion, IssuedOnce, Mutates
  <1> QED BY <1>1, <1>2, <1>3, <1>4, <1>5, <1>6, <1>7 DEF Next

(* The inductive invariant, the types among it, holds in every reachable state. *)
THEOREM GateInvariant == Spec => []IInv
  BY InitIInv, NextIInv, PTL DEF Spec

(* A mutation is handed out at most once in a session. *)
THEOREM MutationIssuedOnce == Spec => []IssuedOnce
  <1>1. IInv => IssuedOnce
    BY DEF IInv
  <1> QED BY <1>1, GateInvariant, PTL

(* A call id stands for one operation. *)
THEOREM IdsNameOperations == Spec => []OneIdOneOperation
  <1>1. IInv => OneIdOneOperation
    BY DEF IInv, SeenIsIssued, OneIdOneOperation
  <1> QED BY <1>1, GateInvariant, PTL

(* A job that needs confirmation is issued only on the user's own consent. *)
THEOREM ConsentPrecedesIssue == Spec => ConsentBeforeIssue
  <1> DEFINE Consented ==
        \A j \in issued' \ issued :
          ConfirmLater(j.key) =>
            \E q \in questions : q.key = j.key /\ q.granted /\ now < q.until
  <1>1. ASSUME IInv, Next PROVE Consented
    <2> SUFFICES ASSUME NEW j \in issued' \ issued, ConfirmLater(j.key)
                 PROVE  \E q \in questions : q.key = j.key /\ q.granted /\ now < q.until
      OBVIOUS
    <2>1. ModelCalls
      BY <1>1 DEF Next, JobEnds, Complete, UserSpeaks, ObserveUser, Hear, UserClicks, Confirm,
                  Interrupted, Interrupt, TimePasses, Tick
    <2>2. PICK id \in CallIDs, k \in Keys, t \in Turns : Issue(id, k, t)
      BY <2>1 DEF ModelCalls, Plan, Refuse, AnswerAtOnce, AskConfirmation, gateVars
    <2>3. j.key = k /\ Redeemable(k)
      BY <2>2 DEF Issue
    <2>4. now \in Nat /\ pending.expires \in Nat
      BY <1>1, <2>3 DEF Redeemable, IInv, ConsentTypeOK, TypeOK, Pendings
    <2> QED BY <1>1, <2>3, <2>4 DEF Redeemable, IInv, PendingIsQuestion
  <1>2. IInv /\ [Next]_vars => [Consented]_vars
    BY <1>1
  <1> QED BY <1>2, GateInvariant, PTL DEF Spec, ConsentBeforeIssue

================================================================================
