--------------------------- MODULE AgentPipeProofs ---------------------------
(***************************************************************************)
(* Proofs about the way of a client's session to its agent.                *)
(*                                                                         *)
(* AgentPipe: no command and no event of a session is lost, repeated or    *)
(* overtaken between the gateway and the agent's runtime, for channels and *)
(* sockets of any depth.                                                   *)
(*                                                                         *)
(* Gateway: its inductive invariant GatewayInv, and from it its safety     *)
(* properties, for any set of clients, number of slots, depth of the       *)
(* channels and catalogue of agents.                                       *)
(***************************************************************************)
EXTENDS AgentPipe, Gateway, SequenceTheorems, FiniteSetTheorems, TLAPS

(* A channel holds a sequence of limited length; what is done with one.    *)
LEMMA QueuesAreSeqs ==
  ASSUME NEW S, NEW n \in Nat
  PROVE  \A s : s \in Queues(S, n) <=> s \in Seq(S) /\ Len(s) <= n
  <1>1. ASSUME NEW s \in Queues(S, n)
        PROVE  s \in Seq(S) /\ Len(s) <= n
    <2>1. PICK k \in 0..n : s \in [1..k -> S]
      BY <1>1 DEF Queues
    <2> QED BY <2>1
  <1>2. ASSUME NEW s \in Seq(S), Len(s) <= n
        PROVE  s \in Queues(S, n)
    <2>1. s \in [1..Len(s) -> S] /\ Len(s) \in 0..n
      BY <1>2, LenProperties
    <2> QED BY <2>1 DEF Queues
  <1> QED BY <1>1, <1>2

LEMMA QueueEmpty ==
  ASSUME NEW S, NEW n \in Nat
  PROVE  <<>> \in Queues(S, n) /\ Len(<<>>) = 0
  <1>1. <<>> \in Seq(S) /\ Len(<<>>) = 0 /\ Len(<<>>) <= n
    BY EmptySeq
  <1> QED BY <1>1, QueuesAreSeqs

LEMMA QueueOne ==
  ASSUME NEW S, NEW e \in S
  PROVE  <<e>> \in Queues(S, 1) /\ <<e>> \in Seq(S) /\ Len(<<e>>) = 1 /\ <<e>> # <<>> /\ <<e>>[1] = e
  <1>1. <<e>> \in Seq(S) /\ Len(<<e>>) = 1 /\ <<e>> # <<>> /\ <<e>>[1] = e
    OBVIOUS
  <1>2. 1 \in Nat /\ Len(<<e>>) <= 1
    BY <1>1
  <1> QED BY <1>1, <1>2, QueuesAreSeqs

LEMMA QueueTail ==
  ASSUME NEW S, NEW n \in Nat, NEW s \in Queues(S, n), s # <<>>
  PROVE  Tail(s) \in Queues(S, n) /\ Head(s) \in S /\ <<Head(s)>> \in Queues(S, 1) /\ <<Head(s)>> # <<>>
  <1>1. s \in Seq(S) /\ Len(s) <= n /\ Len(s) \in Nat
    BY QueuesAreSeqs, LenProperties
  <1>2. Tail(s) \in Seq(S) /\ Len(Tail(s)) = Len(s) - 1 /\ Head(s) \in S
    BY <1>1, HeadTailProperties
  <1>3. <<Head(s)>> \in Queues(S, 1) /\ <<Head(s)>> # <<>>
    BY <1>2, QueueOne
  <1>4. Len(Tail(s)) <= n
    BY <1>1, <1>2
  <1>5. Tail(s) \in Queues(S, n)
    BY <1>2, <1>4, QueuesAreSeqs
  <1> QED BY <1>2, <1>3, <1>5

LEMMA QueuePut ==
  ASSUME NEW S, NEW n \in Nat, NEW s \in Queues(S, n), NEW t \in Queues(S, 1), Len(s) < n
  PROVE  s \o t \in Queues(S, n)
  <1>1. s \in Seq(S) /\ Len(s) \in Nat /\ t \in Seq(S) /\ Len(t) \in Nat /\ Len(t) <= 1
    BY QueuesAreSeqs, LenProperties
  <1>2. s \o t \in Seq(S) /\ Len(s \o t) = Len(s) + Len(t)
    BY <1>1, ConcatProperties
  <1>3. Len(s \o t) <= n
    BY <1>1, <1>2
  <1> QED BY <1>2, <1>3, QueuesAreSeqs

LEMMA QueuePrefix ==
  ASSUME NEW S, NEW n \in Nat, NEW s \in Queues(S, n), NEW k \in 0..Len(s)
  PROVE  SubSeq(s, 1, k) \in Queues(S, n)
  <1>1. s \in Seq(S) /\ Len(s) \in Nat /\ Len(s) <= n
    BY QueuesAreSeqs, LenProperties
  <1>2. \A i \in 1..k : s[i] \in S
    BY <1>1, ElementOfSeq
  <1>3. SubSeq(s, 1, k) \in Seq(S) /\ Len(SubSeq(s, 1, k)) = IF 1 <= k THEN k - 1 + 1 ELSE 0
    BY <1>1, <1>2, SubSeqProperties
  <1>4. Len(SubSeq(s, 1, k)) <= n
    BY <1>1, <1>3
  <1> QED BY <1>3, <1>4, QueuesAreSeqs

(* What is numbered from a on, when its head is taken, something is added, *)
(* or its end is cut off.                                                  *)
LEMMA RunEmpty == \A a : Numbered(<<>>, a) /\ Len(<<>>) = 0
  BY DEF Numbered

LEMMA RunOne ==
  ASSUME NEW a \in Nat
  PROVE  Numbered(<<a + 1>>, a) /\ Len(<<a + 1>>) = 1
  BY DEF Numbered

LEMMA RunTail ==
  ASSUME NEW s \in Seq(Nat), s # <<>>, NEW a \in Nat
  PROVE  /\ Len(s) \in Nat \ {0} /\ Tail(s) \in Seq(Nat) /\ Len(Tail(s)) = Len(s) - 1
         /\ <<Head(s)>> \in Seq(Nat) /\ Len(<<Head(s)>>) = 1
         /\ Numbered(s, a) => Head(s) = a + 1 /\ Numbered(<<Head(s)>>, a) /\ Numbered(Tail(s), a + 1)
  <1>1. /\ Len(s) \in Nat \ {0} /\ Tail(s) \in Seq(Nat) /\ Len(Tail(s)) = Len(s) - 1 /\ Head(s) \in Nat
        /\ \A i \in 1..Len(Tail(s)) : Tail(s)[i] = s[i + 1]
        /\ DOMAIN s = 1..Len(s) /\ DOMAIN Tail(s) = 1..Len(Tail(s))
    BY HeadTailProperties, EmptySeq, LenProperties
  <1>2. Head(s) = s[1]
    OBVIOUS
  <1>3. ASSUME Numbered(s, a)
        PROVE  Head(s) = a + 1 /\ Numbered(Tail(s), a + 1)
    BY <1>1, <1>2, <1>3 DEF Numbered
  <1> QED BY <1>1, <1>3, RunOne

LEMMA RunConcat ==
  ASSUME NEW s \in Seq(Nat), NEW t \in Seq(Nat), NEW a \in Nat
  PROVE  /\ s \o t \in Seq(Nat) /\ Len(s \o t) = Len(s) + Len(t) /\ Len(s) \in Nat /\ Len(t) \in Nat
         /\ Numbered(s \o t, a) <=> Numbered(s, a) /\ Numbered(t, a + Len(s))
  <1> DEFINE st == s \o t
  <1>1. /\ st \in Seq(Nat) /\ Len(st) = Len(s) + Len(t) /\ Len(s) \in Nat /\ Len(t) \in Nat
        /\ \A i \in 1..(Len(s) + Len(t)) : st[i] = IF i <= Len(s) THEN s[i] ELSE t[i - Len(s)]
    BY ConcatProperties, LenProperties
  <1>2. DOMAIN s = 1..Len(s) /\ DOMAIN t = 1..Len(t) /\ DOMAIN st = 1..(Len(s) + Len(t))
    BY <1>1, LenProperties
  <1> HIDE DEF st
  <1>3. ASSUME Numbered(st, a)
        PROVE  Numbered(s, a) /\ Numbered(t, a + Len(s))
    <2>1. ASSUME NEW i \in 1..Len(s)
          PROVE  s[i] = a + i
      <3>1. i \in DOMAIN st /\ st[i] = s[i]
        BY <1>1, <1>2
      <3>2. st[i] = a + i
        BY <1>3, <3>1 DEF Numbered
      <3> QED BY <3>1, <3>2
    <2>2. ASSUME NEW i \in 1..Len(t)
          PROVE  t[i] = a + Len(s) + i
      <3>1. i + Len(s) \in 1..(Len(s) + Len(t)) /\ ~(i + Len(s) <= Len(s)) /\ i + Len(s) - Len(s) = i
        BY <1>1
      <3>2. st[i + Len(s)] = t[i]
        BY <1>1, <3>1
      <3>3. st[i + Len(s)] = a + (i + Len(s))
        BY <1>2, <1>3, <3>1 DEF Numbered
      <3> QED BY <1>1, <3>2, <3>3
    <2> QED BY <1>2, <2>1, <2>2 DEF Numbered
  <1>4. ASSUME Numbered(s, a), Numbered(t, a + Len(s))
        PROVE  Numbered(st, a)
    <2>1. ASSUME NEW i \in 1..(Len(s) + Len(t))
          PROVE  st[i] = a + i
      <3>1. CASE i <= Len(s)
        <4>1. i \in DOMAIN s /\ st[i] = s[i]
          BY <1>1, <1>2, <3>1
        <4> QED BY <1>4, <4>1 DEF Numbered
      <3>2. CASE ~(i <= Len(s))
        <4>1. i - Len(s) \in DOMAIN t /\ a + Len(s) + (i - Len(s)) = a + i
          BY <1>1, <1>2, <3>2
        <4>2. st[i] = t[i - Len(s)]
          BY <1>1, <3>2
        <4>3. t[i - Len(s)] = a + Len(s) + (i - Len(s))
          BY <1>4, <4>1 DEF Numbered
        <4> QED BY <4>1, <4>2, <4>3
      <3> QED BY <3>1, <3>2
    <2> QED BY <1>2, <2>1 DEF Numbered
  <1> QED BY <1>1, <1>3, <1>4 DEF st

LEMMA RunPrefix ==
  ASSUME NEW s \in Seq(Nat), NEW k \in 0..Len(s), NEW a \in Nat
  PROVE  /\ Len(SubSeq(s, 1, k)) = k
         /\ Numbered(s, a) => Numbered(SubSeq(s, 1, k), a)
         /\ SubSeq(s, 1, k) # <<>> => s # <<>> /\ Head(SubSeq(s, 1, k)) = Head(s)
  <1>1. Len(s) \in Nat /\ DOMAIN s = 1..Len(s) /\ \A i \in 1..k : s[i] \in Nat
    BY LenProperties, ElementOfSeq
  <1>2. /\ SubSeq(s, 1, k) \in Seq(Nat)
        /\ Len(SubSeq(s, 1, k)) = IF 1 <= k THEN k - 1 + 1 ELSE 0
        /\ \A i \in 1..(k - 1 + 1) : SubSeq(s, 1, k)[i] = s[1 + i - 1]
    BY <1>1, SubSeqProperties
  <1> DEFINE p == SubSeq(s, 1, k)
  <1> HIDE DEF p
  <1>3. p \in Seq(Nat) /\ Len(p) = k /\ DOMAIN p = 1..k /\ \A i \in 1..k : p[i] = s[i]
    BY <1>1, <1>2, LenProperties DEF p
  <1>4. Numbered(s, a) => Numbered(p, a)
    BY <1>1, <1>3 DEF Numbered
  <1>5. p # <<>> => s # <<>> /\ Head(p) = Head(s)
    <2>1. SUFFICES ASSUME p # <<>> PROVE s # <<>> /\ Head(p) = Head(s)
      OBVIOUS
    <2>2. k \in 1..k /\ 1 \in 1..k
      BY <1>3, <2>1, EmptySeq
    <2> QED BY <1>1, <1>3, <2>2
  <1> QED BY <1>3, <1>4, <1>5 DEF p

-----------------------------------------------------------------------------
(* A connection that breaks leaves the beginning of what was on its way.   *)
LEMMA BreakTypes ==
  ASSUME PipeTypeOK, Break
  PROVE  /\ link' = "down"
         /\ toAgent' \in Queues(Messages(MaxCommands), NetDepth)
         /\ toGateway' \in Queues({Accepted} \cup Messages(MaxEvents), NetDepth)
  <1>1. NetDepth \in Nat
    BY PipeAssumption
  <1>2. PICK k \in 0..Len(toAgent) : toAgent' = SubSeq(toAgent, 1, k)
    BY DEF Break
  <1>3. PICK n \in 0..Len(toGateway) : toGateway' = SubSeq(toGateway, 1, n)
    BY DEF Break
  <1>4. toAgent' \in Queues(Messages(MaxCommands), NetDepth)
    BY <1>1, <1>2, QueuePrefix DEF PipeTypeOK
  <1>5. toGateway' \in Queues({Accepted} \cup Messages(MaxEvents), NetDepth)
    BY <1>1, <1>3, QueuePrefix DEF PipeTypeOK
  <1> QED BY <1>4, <1>5 DEF Break

(* Every step keeps the types, every queue its capacity. *)
LEMMA PipeTypesStay ==
  ASSUME PipeTypeOK, PipeShape, [Next]_vars
  PROVE  PipeTypeOK'
  <1> DEFINE C == Messages(MaxCommands)
             E == Messages(MaxEvents)
             F == {Accepted} \cup E
  <1>1. /\ QueueDepth \in Nat /\ NetDepth \in Nat /\ 1 \in Nat /\ MaxCommands \in Nat /\ MaxEvents \in Nat
        /\ <<>> \in Queues(C, 1) /\ <<>> \in Queues(E, 1) /\ <<>> \in Queues(F, NetDepth)
    <2>1. QueueDepth \in Nat /\ NetDepth \in Nat /\ MaxCommands \in Nat /\ MaxEvents \in Nat
      BY PipeAssumption
    <2>2. <<>> \in Queues(C, 1) /\ <<>> \in Queues(E, 1) /\ <<>> \in Queues(F, NetDepth)
      BY <2>1, QueueEmpty
    <2> QED BY <2>1, <2>2
  <1>2. /\ C = 1..MaxCommands /\ E = 1..MaxEvents
    BY DEF Messages
  <1>3. /\ toAgent # <<>> => /\ Tail(toAgent) \in Queues(C, NetDepth) /\ <<Head(toAgent)>> \in Queues(C, 1)
        /\ commands # <<>> => /\ Tail(commands) \in Queues(C, QueueDepth) /\ <<Head(commands)>> \in Queues(C, 1)
        /\ input # <<>> => /\ Tail(input) \in Queues(C, QueueDepth) /\ Head(input) \in C
        /\ inbox # <<>> => /\ Tail(inbox) \in Queues(E, QueueDepth) /\ Head(inbox) \in E
        /\ events # <<>> => /\ Tail(events) \in Queues(E, QueueDepth) /\ <<Head(events)>> \in Queues(E, 1)
        /\ toGateway # <<>> => Tail(toGateway) \in Queues(F, NetDepth)
    BY <1>1, QueueTail DEF PipeTypeOK
  <1>4. reader = "reading" /\ toGateway # <<>> => <<Head(toGateway)>> \in Queues(E, 1)
    <2> SUFFICES ASSUME reader = "reading", toGateway # <<>> PROVE <<Head(toGateway)>> \in Queues(E, 1)
      OBVIOUS
    <2>1. Head(toGateway) \in F
      BY <1>1, QueueTail DEF PipeTypeOK
    <2>2. Head(toGateway) # Accepted
      <3>1. toGateway = EventFrames
        BY DEF PipeShape
      <3>2. Len(Tail(toGateway)) # Len(toGateway)
        <4>1. toGateway \in Seq(F)
          BY <1>1, QueuesAreSeqs DEF PipeTypeOK
        <4> QED BY <4>1, HeadTailProperties, EmptySeq
      <3> QED BY <3>1, <3>2 DEF EventFrames
    <2> QED BY <2>1, <2>2, QueueOne
  <1>5. /\ Len(toAgent) < NetDepth => toAgent \o outgoing \in Queues(C, NetDepth)
        /\ Len(commands) < QueueDepth => commands \o arriving \in Queues(C, QueueDepth)
        /\ Len(input) < QueueDepth => input \o passing \in Queues(C, QueueDepth)
        /\ Len(inbox) < QueueDepth => inbox \o fetched \in Queues(E, QueueDepth)
        /\ Len(events) < QueueDepth => events \o emitting \in Queues(E, QueueDepth)
    BY <1>1, QueuePut DEF PipeTypeOK
  <1>6. Len(toGateway) < NetDepth => toGateway \o writing \in Queues(F, NetDepth)
    <2>1. writing \in Queues(F, 1)
      BY DEF PipeTypeOK, Queues
    <2> QED BY <1>1, <2>1, QueuePut DEF PipeTypeOK
  <1>7. <<Accepted>> \in Queues(F, NetDepth)
    <2>1. <<Accepted>> \in Seq(F) /\ Len(<<Accepted>>) <= NetDepth
      BY PipeAssumption, QueueOne
    <2> QED BY <1>1, <2>1, QueuesAreSeqs
  <1>8. /\ sent \in 0..MaxCommands => (sent < MaxCommands => <<sent + 1>> \in Queues(C, 1) /\ sent + 1 \in 0..MaxCommands)
        /\ emitted \in 0..MaxEvents => (emitted < MaxEvents => <<emitted + 1>> \in Queues(E, 1) /\ emitted + 1 \in 0..MaxEvents)
    BY <1>1, <1>2, QueueOne
  <1>9. Break => /\ link' = "down" /\ toAgent' \in Queues(C, NetDepth) /\ toGateway' \in Queues(F, NetDepth)
    BY BreakTypes
  <1> USE DEF gatewayVars, readVars, wireVars, handlerVars, commandVars, sessionVars, runtimeVars
  <1>10. CASE Opened \/ Fetch \/ Put \/ PutStops \/ ReadFails
    <2>1. CASE Opened
      BY <1>1, <1>3, <1>4, <1>5, <2>1 DEF Opened, PipeTypeOK
    <2>2. CASE Fetch
      BY <1>1, <1>3, <1>4, <1>5, <2>2 DEF Fetch, PipeTypeOK
    <2>3. CASE Put
      BY <1>1, <1>3, <1>4, <1>5, <2>3 DEF Put, PipeTypeOK
    <2>4. CASE PutStops
      BY <1>1, <1>3, <1>4, <1>5, <2>4 DEF PutStops, PipeTypeOK
    <2>5. CASE ReadFails
      BY <1>1, <1>3, <1>4, <1>5, <2>5 DEF ReadFails, PipeTypeOK
    <2> QED BY <1>10, <2>1, <2>2, <2>3, <2>4, <2>5
  <1>11. CASE OpenFails \/ CloseSession \/ Refuse \/ HandlerReturns \/ Drop
    <2>1. CASE OpenFails
      BY <1>9, <2>1 DEF OpenFails, PipeTypeOK
    <2>2. CASE CloseSession
      BY <1>9, <2>2 DEF CloseSession, PipeTypeOK
    <2>3. CASE Refuse
      BY <1>9, <2>3 DEF Refuse, PipeTypeOK
    <2>4. CASE HandlerReturns
      BY <1>9, <2>4 DEF HandlerReturns, PipeTypeOK
    <2>5. CASE Drop
      BY <1>9, <2>5 DEF Drop, PipeTypeOK
    <2> QED BY <1>11, <2>1, <2>2, <2>3, <2>4, <2>5
  <1>12. CASE Send \/ Sent \/ SendFails \/ Leave \/ SeesEnd \/ CloseReturns
    <2>1. CASE Send
      BY <1>1, <1>5, <1>8, <2>1 DEF Send, PipeTypeOK
    <2>2. CASE Sent
      BY <1>1, <1>5, <1>8, <2>2 DEF Sent, PipeTypeOK
    <2>3. CASE SendFails
      BY <1>1, <1>5, <1>8, <2>3 DEF SendFails, PipeTypeOK
    <2>4. CASE Leave
      BY <1>1, <1>5, <1>8, <2>4 DEF Leave, PipeTypeOK
    <2>5. CASE SeesEnd
      BY <1>1, <1>5, <1>8, <2>5 DEF SeesEnd, Leave, PipeTypeOK
    <2>6. CASE CloseReturns
      BY <1>1, <1>5, <1>8, <2>6 DEF CloseReturns, PipeTypeOK
    <2> QED BY <1>12, <2>1, <2>2, <2>3, <2>4, <2>5, <2>6
  <1>13. CASE Relay
    BY <1>2, <1>3, <1>13 DEF Relay, PipeTypeOK
  <1>14. CASE Accept \/ Receive \/ Enqueue \/ EnqueueStops \/ ReceiveFails
    <2>1. CASE Accept
      BY <1>1, <1>3, <1>5, <1>7, <2>1 DEF Accept, PipeTypeOK
    <2>2. CASE Receive
      BY <1>1, <1>3, <1>5, <1>7, <2>2 DEF Receive, PipeTypeOK
    <2>3. CASE Enqueue
      BY <1>1, <1>3, <1>5, <1>7, <2>3 DEF Enqueue, PipeTypeOK
    <2>4. CASE EnqueueStops
      BY <1>1, <1>3, <1>5, <1>7, <2>4 DEF EnqueueStops, PipeTypeOK
    <2>5. CASE ReceiveFails
      BY <1>1, <1>3, <1>5, <1>7, <2>5 DEF ReceiveFails, PipeTypeOK
    <2> QED BY <1>14, <2>1, <2>2, <2>3, <2>4, <2>5
  <1>15. CASE TakeCommand \/ Pass \/ PassFails \/ HandlerLeaves \/ Shutdown
    <2>1. CASE TakeCommand
      BY <1>1, <1>3, <1>5, <2>1 DEF TakeCommand, PipeTypeOK
    <2>2. CASE Pass
      BY <1>1, <1>3, <1>5, <2>2 DEF Pass, PipeTypeOK
    <2>3. CASE PassFails
      BY <1>1, <1>3, <1>5, <2>3 DEF PassFails, PipeTypeOK
    <2>4. CASE HandlerLeaves
      BY <1>1, <1>3, <1>5, <2>4 DEF HandlerLeaves, PipeTypeOK
    <2>5. CASE Shutdown
      BY <1>1, <1>3, <1>5, <2>5 DEF Shutdown, PipeTypeOK
    <2> QED BY <1>15, <2>1, <2>2, <2>3, <2>4, <2>5
  <1>16. CASE TakeEvent \/ WriteEvent \/ WriteEventFails
    <2>1. CASE TakeEvent
      BY <1>1, <1>3, <1>6, <2>1 DEF TakeEvent, PipeTypeOK
    <2>2. CASE WriteEvent
      BY <1>1, <1>3, <1>6, <2>2 DEF WriteEvent, PipeTypeOK
    <2>3. CASE WriteEventFails
      BY <1>1, <1>3, <1>6, <2>3 DEF WriteEventFails, PipeTypeOK
    <2> QED BY <1>16, <2>1, <2>2, <2>3
  <1>17. CASE Take
    BY <1>2, <1>3, <1>17 DEF Take, PipeTypeOK
  <1>18. CASE Emit
    BY <1>1, <1>8, <1>18 DEF Emit, PipeTypeOK
  <1>19. CASE Emitted \/ Ends
    <2>1. /\ runtime' \in {"ended", "ready"} /\ events' \in Queues(E, QueueDepth)
          /\ emitting' = <<>> /\ last' = FALSE
          /\ UNCHANGED <<gatewayVars, readVars, wireVars, handlerVars, commandVars, input, emitted, taken,
                         stopped, shutdown>>
      <3>1. CASE Emitted
        BY <1>5, <3>1 DEF Emitted
      <3>2. CASE Ends
        BY <3>2 DEF Ends, PipeTypeOK
      <3> QED BY <1>19, <3>1, <3>2
    <2>2. {last', readError', shutdown'} \subseteq BOOLEAN
      BY <2>1 DEF PipeTypeOK
    <2>3. {fetched', writing', emitting'} \subseteq Queues(E, 1)
      BY <1>1, <2>1 DEF PipeTypeOK
    <2> QED BY <2>1, <2>2, <2>3 DEF PipeTypeOK
  <1>20. CASE UNCHANGED vars
    BY <1>20 DEF vars, PipeTypeOK
  <1> QED BY <1>10, <1>11, <1>12, <1>13, <1>14, <1>15, <1>16, <1>17, <1>18, <1>19, <1>20
       DEF Next, GatewayStep, ReaderStep, HandlerStep, CommandReaderStep, RuntimeStep, Choice

-----------------------------------------------------------------------------
(* The frames on the wire, when the first is taken, the end is cut off, or *)
(* an event is written.                                                    *)
LEMMA FramesTail ==
  ASSUME toGateway \in Seq(Nat), toGateway # <<>>, toGateway' = Tail(toGateway),
         NEW a \in Nat, Numbered(EventFrames, a)
  PROVE  /\ EventFrames' = toGateway' /\ EventFrames \in Seq(Nat) /\ EventFrames' \in Seq(Nat)
         /\ Head(toGateway) = Accepted => EventFrames' = EventFrames
         /\ Head(toGateway) # Accepted =>
              /\ EventFrames = toGateway /\ Numbered(EventFrames', a + 1)
              /\ Numbered(<<Head(toGateway)>>, a) /\ Len(EventFrames') = Len(EventFrames) - 1
  <1>1. /\ Tail(toGateway) \in Seq(Nat) /\ Head(toGateway) \in Nat
        /\ \A z \in Nat : Numbered(toGateway, z) =>
              /\ Numbered(Tail(toGateway), z + 1) /\ Numbered(<<Head(toGateway)>>, z)
        /\ Len(Tail(toGateway)) = Len(toGateway) - 1
    BY RunTail, HeadTailProperties
  <1>2. \E z \in Nat : Numbered(toGateway', z)
    <2>1. CASE Head(toGateway) = Accepted
      BY <2>1 DEF EventFrames
    <2>2. CASE Head(toGateway) # Accepted
      BY <1>1, <2>2 DEF EventFrames
    <2> QED BY <2>1, <2>2
  <1>3. toGateway' # <<>> => Head(toGateway') # Accepted
    <2> SUFFICES ASSUME toGateway' # <<>> PROVE Head(toGateway') # Accepted
      OBVIOUS
    <2>1. PICK z \in Nat : Numbered(toGateway', z)
      BY <1>2
    <2>2. toGateway' \in Seq(Nat)
      BY <1>1
    <2>3. Head(toGateway') = z + 1
      BY <2>1, <2>2, RunTail
    <2> QED BY <2>3 DEF Accepted
  <1>4. EventFrames' = toGateway'
    BY <1>3 DEF EventFrames
  <1> QED BY <1>1, <1>4 DEF EventFrames

LEMMA TailRead ==
  ASSUME NEW s \in Seq(Nat), s # <<>>
  PROVE  /\ Tail(s) \in Seq(Nat) /\ Len(Tail(s)) = Len(s) - 1
         /\ \A i \in 1..(Len(s) - 1) : Tail(s)[i] = s[i + 1]
         /\ DOMAIN Tail(s) = 1..(Len(s) - 1)
  BY HeadTailProperties, LenProperties

LEMMA FramesPrefix ==
  ASSUME toGateway \in Seq(Nat), NEW k \in 0..Len(toGateway), toGateway' = SubSeq(toGateway, 1, k)
  PROVE  /\ toGateway' # <<>> => toGateway # <<>> /\ Head(toGateway') = Head(toGateway)
         /\ \A a \in Nat : Numbered(EventFrames, a) => Numbered(EventFrames', a)
         /\ toGateway = EventFrames => toGateway' = EventFrames'
  <1>1. /\ \A a \in Nat : Numbered(toGateway, a) => Numbered(toGateway', a)
        /\ toGateway' # <<>> => toGateway # <<>> /\ Head(toGateway') = Head(toGateway)
    <2>1. 0 \in Nat
      OBVIOUS
    <2> QED BY <2>1, RunPrefix
  <1>2. CASE toGateway' = <<>>
    BY <1>1, <1>2, RunEmpty DEF EventFrames
  <1>3. CASE toGateway' # <<>> /\ Head(toGateway) # Accepted
    BY <1>1, <1>3 DEF EventFrames
  <1>4. CASE toGateway' # <<>> /\ Head(toGateway) = Accepted
    <2>1. EventFrames = Tail(toGateway) /\ EventFrames' = Tail(toGateway') /\ toGateway # <<>>
      BY <1>1, <1>4 DEF EventFrames
    <2>2. /\ Len(toGateway) \in Nat /\ \A i \in 1..k : toGateway[i] \in Nat
      BY LenProperties, ElementOfSeq
    <2>3. /\ toGateway' \in Seq(Nat)
          /\ Len(toGateway') = IF 1 <= k THEN k - 1 + 1 ELSE 0
          /\ \A i \in 1..(k - 1 + 1) : toGateway'[i] = toGateway[1 + i - 1]
      BY <2>2, SubSeqProperties
    <2>4. Len(toGateway') = k /\ \A i \in 1..k : toGateway'[i] = toGateway[i]
      BY <2>2, <2>3
    <2>5. /\ Tail(toGateway) \in Seq(Nat) /\ Len(Tail(toGateway)) = Len(toGateway) - 1
          /\ \A i \in 1..(Len(toGateway) - 1) : Tail(toGateway)[i] = toGateway[i + 1]
          /\ DOMAIN Tail(toGateway) = 1..(Len(toGateway) - 1)
      BY <2>1, TailRead
    <2>6. /\ Tail(toGateway') \in Seq(Nat) /\ Len(Tail(toGateway')) = k - 1
          /\ \A i \in 1..(k - 1) : Tail(toGateway')[i] = toGateway'[i + 1]
          /\ DOMAIN Tail(toGateway') = 1..(k - 1)
      BY <1>4, <2>3, <2>4, TailRead
    <2>7. ASSUME NEW a \in Nat, Numbered(EventFrames, a)
          PROVE  Numbered(EventFrames', a)
      <3>1. ASSUME NEW i \in 1..(k - 1)
            PROVE  Tail(toGateway')[i] = a + i
        <4>1. i + 1 \in 1..k /\ i \in 1..(Len(toGateway) - 1)
          BY <2>2
        <4>2. Tail(toGateway')[i] = Tail(toGateway)[i]
          BY <2>4, <2>5, <2>6, <4>1
        <4>3. Tail(toGateway)[i] = a + i
          BY <2>1, <2>5, <2>7, <4>1 DEF Numbered
        <4> QED BY <4>2, <4>3
      <3> QED BY <2>1, <2>6, <3>1 DEF Numbered
    <2>8. toGateway # EventFrames
      <3> DEFINE n == Len(toGateway)
                 m == Len(Tail(toGateway))
      <3>1. n \in Nat /\ m = n - 1
        BY <2>2, <2>5
      <3> HIDE DEF n, m
      <3>2. n # m
        BY <3>1
      <3>3. toGateway # Tail(toGateway)
        BY <3>2, Zenon DEF n, m
      <3> QED BY <2>1, <3>3, Zenon
    <2> QED BY <1>1, <2>7, <2>8
  <1> QED BY <1>2, <1>3, <1>4

LEMMA FramesAppend ==
  ASSUME toGateway \in Seq(Nat), NEW w \in Seq(Nat), w # <<>>, Head(w) # Accepted, toGateway' = toGateway \o w
  PROVE  /\ EventFrames \in Seq(Nat) /\ EventFrames' = EventFrames \o w
         /\ toGateway # <<>> => toGateway' # <<>> /\ Head(toGateway') = Head(toGateway)
         /\ toGateway = EventFrames => toGateway' = EventFrames'
  <1>1. /\ toGateway' \in Seq(Nat) /\ Len(toGateway') = Len(toGateway) + Len(w)
        /\ Len(toGateway) \in Nat /\ Len(w) \in Nat \ {0}
        /\ \A i \in 1..(Len(toGateway) + Len(w)) :
              toGateway'[i] = IF i <= Len(toGateway) THEN toGateway[i] ELSE w[i - Len(toGateway)]
    BY ConcatProperties, EmptySeq, LenProperties
  <1>2. CASE toGateway = <<>>
    <2>1. toGateway' = w /\ EventFrames = <<>>
      BY <1>2, ConcatEmptySeq DEF EventFrames
    <2> QED BY <1>2, <2>1, ConcatEmptySeq DEF EventFrames
  <1>3. CASE toGateway # <<>>
    <2>1. toGateway' # <<>> /\ Head(toGateway') = Head(toGateway) /\ Len(toGateway) \in Nat \ {0}
      <3>1. Len(toGateway) \in Nat \ {0}
        BY <1>3, EmptySeq
      <3>2. toGateway' # <<>> /\ toGateway'[1] = toGateway[1]
        BY <1>1, <3>1
      <3> HIDE DEF Accepted
      <3> QED BY <1>1, <1>3, <3>1, <3>2
    <2>2. CASE Head(toGateway) # Accepted
      BY <1>3, <2>1, <2>2 DEF EventFrames
    <2>3. CASE Head(toGateway) = Accepted
      <3>1. EventFrames = Tail(toGateway) /\ EventFrames' = Tail(toGateway')
        BY <1>3, <2>1, <2>3 DEF EventFrames
      <3> DEFINE l == Tail(toGateway')
                 x == Tail(toGateway)
                 r == x \o w
      <3>2. /\ x \in Seq(Nat) /\ Len(x) = Len(toGateway) - 1
            /\ \A i \in 1..Len(x) : x[i] = toGateway[i + 1]
        BY <1>3, HeadTailProperties
      <3>3. /\ l \in Seq(Nat) /\ Len(l) = Len(toGateway') - 1
            /\ \A i \in 1..Len(l) : l[i] = toGateway'[i + 1]
        BY <1>1, <2>1, HeadTailProperties
      <3> HIDE DEF x, l
      <3>4. /\ r \in Seq(Nat) /\ Len(r) = Len(x) + Len(w)
            /\ \A i \in 1..(Len(x) + Len(w)) : r[i] = IF i <= Len(x) THEN x[i] ELSE w[i - Len(x)]
        BY <3>2, ConcatProperties
      <3> HIDE DEF r
      <3>5. Len(l) = Len(r)
        BY <1>1, <3>2, <3>3, <3>4
      <3>6. ASSUME NEW i \in 1..Len(l)
            PROVE  l[i] = r[i]
        <4>1. /\ i + 1 \in 1..(Len(toGateway) + Len(w)) /\ i \in 1..(Len(x) + Len(w))
              /\ i + 1 - Len(toGateway) = i - Len(x) /\ (i + 1 <= Len(toGateway) <=> i <= Len(x))
          <5>1. Len(x) = Len(toGateway) - 1 /\ Len(l) = Len(toGateway) + Len(w) - 1
            BY <1>1, <3>2, <3>3
          <5> DEFINE n == Len(toGateway)
                     o == Len(w)
                     p == Len(x)
          <5>2. n \in Nat \ {0} /\ o \in Nat \ {0} /\ p = n - 1 /\ i \in 1..(n + o - 1)
            BY <1>1, <2>1, <5>1
          <5> HIDE DEF n, o, p
          <5>3. i + 1 \in 1..(n + o) /\ i \in 1..(p + o) /\ i + 1 - n = i - p /\ (i + 1 <= n <=> i <= p)
            BY <5>2
          <5> QED BY <5>3 DEF n, o, p
        <4>2. l[i] = IF i + 1 <= Len(toGateway) THEN toGateway[i + 1] ELSE w[i + 1 - Len(toGateway)]
          <5>1. l[i] = toGateway'[i + 1]
            BY <3>3, Zenon
          <5>2. i + 1 \in 1..(Len(toGateway) + Len(w))
            BY <4>1
          <5>3. \A j \in 1..(Len(toGateway) + Len(w)) :
                  toGateway'[j] = IF j <= Len(toGateway) THEN toGateway[j] ELSE w[j - Len(toGateway)]
            BY <1>1, Zenon
          <5> QED BY <5>1, <5>2, <5>3, SMTT(30)
        <4>3. r[i] = IF i <= Len(x) THEN x[i] ELSE w[i - Len(x)]
          <5>1. i \in 1..(Len(x) + Len(w))
            BY <4>1
          <5> QED BY <3>4, <5>1, Zenon
        <4>4. i <= Len(x) => x[i] = toGateway[i + 1]
          BY <3>2, <4>1
        <4> QED BY <4>1, <4>2, <4>3, <4>4
      <3>7. l = r
        BY <3>3, <3>4, <3>5, <3>6, SeqEqual
      <3>8. toGateway # EventFrames
        <4> DEFINE n == Len(toGateway)
                   m == Len(x)
        <4>1. n \in Nat /\ m = n - 1
          BY <1>1, <3>2
        <4> HIDE DEF n, m
        <4>2. n # m
          BY <4>1
        <4>3. toGateway # x
          BY <4>2, Zenon DEF n, m
        <4> QED BY <3>1, <4>3, Zenon DEF x
      <3> QED BY <2>1, <3>1, <3>2, <3>7, <3>8 DEF l, r, x
    <2> QED BY <2>1, <2>2, <2>3 DEF EventFrames
  <1> QED BY <1>2, <1>3

(* What the channels and the sockets hold are sequences of numbers.        *)
LEMMA PipeSeqs ==
  ASSUME PipeTypeOK
  PROVE  /\ input \in Seq(Nat) /\ passing \in Seq(Nat) /\ commands \in Seq(Nat) /\ arriving \in Seq(Nat)
         /\ toAgent \in Seq(Nat) /\ outgoing \in Seq(Nat)
         /\ inbox \in Seq(Nat) /\ fetched \in Seq(Nat) /\ toGateway \in Seq(Nat) /\ writing \in Seq(Nat)
         /\ events \in Seq(Nat) /\ emitting \in Seq(Nat) /\ EventFrames \in Seq(Nat)
         /\ taken \in Nat /\ sent \in Nat /\ delivered \in Nat /\ emitted \in Nat
         /\ writing # <<>> => Head(writing) # Accepted
  <1>1. ASSUME NEW S \in SUBSET Nat, NEW n \in Nat, NEW s \in Queues(S, n)
        PROVE  s \in Seq(Nat)
    <2>1. s \in Seq(S)
      BY <1>1, QueuesAreSeqs
    <2>2. s \in [1..Len(s) -> S] /\ Len(s) \in Nat
      BY <2>1, LenProperties
    <2>3. s \in [1..Len(s) -> Nat]
      BY <2>2
    <2> QED BY <2>2, <2>3
  <1>2. /\ \A n \in Nat : Messages(n) \in SUBSET Nat /\ {Accepted} \cup Messages(n) \in SUBSET Nat /\ Accepted \notin Messages(n)
        /\ QueueDepth \in Nat /\ NetDepth \in Nat /\ MaxCommands \in Nat /\ MaxEvents \in Nat
    BY PipeAssumption DEF Messages, Accepted
  <1>3. /\ input \in Seq(Nat) /\ passing \in Seq(Nat) /\ commands \in Seq(Nat) /\ arriving \in Seq(Nat)
        /\ toAgent \in Seq(Nat) /\ outgoing \in Seq(Nat)
    BY <1>1, <1>2 DEF PipeTypeOK
  <1>4. /\ inbox \in Seq(Nat) /\ fetched \in Seq(Nat) /\ toGateway \in Seq(Nat) /\ writing \in Seq(Nat)
        /\ events \in Seq(Nat) /\ emitting \in Seq(Nat)
    BY <1>1, <1>2 DEF PipeTypeOK
  <1>5. EventFrames \in Seq(Nat)
    BY <1>4, HeadTailProperties DEF EventFrames
  <1>6. writing # <<>> => Head(writing) # Accepted
    <2>1. writing \in Queues(Messages(MaxEvents), 1)
      BY DEF PipeTypeOK
    <2>2. writing # <<>> => Head(writing) \in Messages(MaxEvents)
      BY <2>1, QueueTail
    <2> QED BY <1>2, <2>2
  <1> QED BY <1>2, <1>3, <1>4, <1>5, <1>6 DEF PipeTypeOK

(* Where, in the order of what is sent, each of them stands. *)
LEMMA PipeNats ==
  ASSUME PipeTypeOK
  PROVE  /\ Len(input) \in Nat /\ Len(passing) \in Nat /\ Len(commands) \in Nat /\ Len(arriving) \in Nat
         /\ Len(toAgent) \in Nat /\ Len(outgoing) \in Nat /\ taken \in Nat /\ sent \in Nat
         /\ AtHandler \in Nat /\ AtCommands \in Nat /\ AtReader \in Nat /\ AtWire \in Nat /\ AtGateway \in Nat
         /\ Len(inbox) \in Nat /\ Len(fetched) \in Nat /\ Len(EventFrames) \in Nat /\ Len(writing) \in Nat
         /\ Len(events) \in Nat /\ Len(emitting) \in Nat /\ delivered \in Nat /\ emitted \in Nat
         /\ FromReader \in Nat /\ FromWire \in Nat /\ FromHandler \in Nat /\ FromSession \in Nat /\ FromRuntime \in Nat
  <1>1. \A s \in Seq(Nat) : Len(s) \in Nat
    BY LenProperties
  <1>2. /\ Len(input) \in Nat /\ Len(passing) \in Nat /\ Len(commands) \in Nat /\ Len(arriving) \in Nat
        /\ Len(toAgent) \in Nat /\ Len(outgoing) \in Nat /\ taken \in Nat /\ sent \in Nat
        /\ Len(inbox) \in Nat /\ Len(fetched) \in Nat /\ Len(EventFrames) \in Nat /\ Len(writing) \in Nat
        /\ Len(events) \in Nat /\ Len(emitting) \in Nat /\ delivered \in Nat /\ emitted \in Nat
    BY <1>1, PipeSeqs
  <1> DEFINE a == Len(input)  b == Len(passing)  c == Len(commands)  d == Len(arriving)  e == Len(toAgent)
             f == Len(inbox)  g == Len(fetched)  h == Len(EventFrames)  i == Len(writing)  j == Len(events)
  <1>3. /\ a \in Nat /\ b \in Nat /\ c \in Nat /\ d \in Nat /\ e \in Nat /\ f \in Nat /\ g \in Nat /\ h \in Nat
        /\ i \in Nat /\ j \in Nat
    BY <1>2
  <1>4. AtHandler = taken + a /\ AtCommands = AtHandler + b /\ AtReader = AtCommands + c /\ AtWire = AtReader + d /\ AtGateway = AtWire + e
    BY DEF AtHandler, AtCommands, AtReader, AtWire, AtGateway
  <1>5. FromReader = delivered + f /\ FromWire = FromReader + g /\ FromHandler = FromWire + h /\ FromSession = FromHandler + i /\ FromRuntime = FromSession + j
    BY DEF FromReader, FromWire, FromHandler, FromSession, FromRuntime
  <1> HIDE DEF a, b, c, d, e, f, g, h, i, j
  <1>6. AtHandler \in Nat /\ AtCommands \in Nat /\ AtReader \in Nat /\ AtWire \in Nat /\ AtGateway \in Nat
    BY <1>2, <1>3, <1>4
  <1>7. FromReader \in Nat /\ FromWire \in Nat /\ FromHandler \in Nat /\ FromSession \in Nat /\ FromRuntime \in Nat
    BY <1>2, <1>3, <1>5
  <1> QED BY <1>2, <1>6, <1>7

(* A connection that breaks, piece by piece. *)
LEMMA BreakFacts ==
  ASSUME PipeTypeOK, Break
  PROVE  /\ link' = "down"
         /\ toAgent' \in Seq(Nat) /\ \A a \in Nat : Numbered(toAgent, a) => Numbered(toAgent', a)
         /\ toGateway' # <<>> => toGateway # <<>> /\ Head(toGateway') = Head(toGateway)
         /\ \A a \in Nat : Numbered(EventFrames, a) => Numbered(EventFrames', a)
         /\ toGateway = EventFrames => toGateway' = EventFrames'
  <1>1. PICK k \in 0..Len(toAgent) : toAgent' = SubSeq(toAgent, 1, k)
    BY DEF Break
  <1>2. PICK n \in 0..Len(toGateway) : toGateway' = SubSeq(toGateway, 1, n)
    BY DEF Break
  <1>3. toAgent \in Seq(Nat) /\ toGateway \in Seq(Nat)
    BY PipeSeqs
  <1>4. toAgent' \in Seq(Nat) /\ \A a \in Nat : Numbered(toAgent, a) => Numbered(toAgent', a)
    <2>1. \A i \in 1..k : toAgent[i] \in Nat
      <3>1. Len(toAgent) \in Nat /\ DOMAIN toAgent = 1..Len(toAgent)
        BY <1>3, LenProperties
      <3> QED BY <1>1, <1>3, <3>1, ElementOfSeq
    <2>2. toAgent' \in Seq(Nat)
      BY <1>1, <2>1, SubSeqProperties
    <2>3. \A a \in Nat : Numbered(toAgent, a) => Numbered(SubSeq(toAgent, 1, k), a)
      BY <1>1, <1>3, RunPrefix
    <2> QED BY <1>1, <2>2, <2>3
  <1>5. /\ toGateway' # <<>> => toGateway # <<>> /\ Head(toGateway') = Head(toGateway)
        /\ \A a \in Nat : Numbered(EventFrames, a) => Numbered(EventFrames', a)
        /\ toGateway = EventFrames => toGateway' = EventFrames'
    BY <1>2, <1>3, FramesPrefix
  <1> QED BY <1>4, <1>5 DEF Break

(* Every step keeps the shape.                                             *)
LEMMA PipeShapeStays ==
  ASSUME PipeTypeOK, PipeShape, EventsInOrder, [Next]_vars
  PROVE  PipeShape'
  <1> USE DEF gatewayVars, readVars, wireVars, handlerVars, commandVars, sessionVars, runtimeVars
  <1>1. /\ toGateway \in Seq(Nat) /\ writing \in Seq(Nat) /\ delivered \in Nat /\ inbox \in Seq(Nat) /\ fetched \in Seq(Nat)
        /\ Len(inbox) \in Nat /\ Len(fetched) \in Nat /\ FromWire \in Nat
        /\ writing # <<>> => Head(writing) # Accepted
    <2>1. /\ toGateway \in Seq(Nat) /\ writing \in Seq(Nat) /\ delivered \in Nat
          /\ inbox \in Seq(Nat) /\ fetched \in Seq(Nat) /\ (writing # <<>> => Head(writing) # Accepted)
      BY PipeSeqs
    <2>2. Len(inbox) \in Nat /\ Len(fetched) \in Nat
      BY <2>1, LenProperties
    <2> QED BY <2>1, <2>2 DEF FromWire, FromReader
  <1>2. Break => /\ link' = "down"
                 /\ toGateway' # <<>> => toGateway # <<>> /\ Head(toGateway') = Head(toGateway)
                 /\ toGateway = EventFrames => toGateway' = EventFrames'
    BY BreakFacts
  <1>3. UNCHANGED toGateway => EventFrames' = EventFrames
    BY DEF EventFrames
  <1>4. Opened \/ Fetch => toGateway' = EventFrames'
    <2> SUFFICES ASSUME Opened \/ Fetch PROVE toGateway' = EventFrames'
      OBVIOUS
    <2>1. toGateway # <<>> /\ toGateway' = Tail(toGateway) /\ reader # "done"
      BY DEF Opened, Fetch, PipeShape
    <2> QED BY <1>1, <2>1, FramesTail DEF EventsInOrder
  <1>5. WriteEvent => /\ toGateway # <<>> => toGateway' # <<>> /\ Head(toGateway') = Head(toGateway)
                      /\ toGateway = EventFrames => toGateway' = EventFrames'
    <2> SUFFICES ASSUME WriteEvent PROVE <1>5!2
      OBVIOUS
    <2>1. \/ writing # <<>> /\ toGateway' = toGateway \o writing
          \/ UNCHANGED toGateway
      BY DEF WriteEvent, PipeShape
    <2> QED BY <1>1, <1>3, <2>1, FramesAppend
  <1>6. CASE Opened \/ Fetch \/ Put \/ PutStops
    <2>1. CASE Opened
      BY <1>3, <1>4, <2>1 DEF Opened, PipeShape
    <2>2. CASE Fetch
      BY <1>3, <1>4, <2>2 DEF Fetch, PipeShape
    <2>3. CASE Put
      BY <1>3, <1>4, <2>3 DEF Put, PipeShape
    <2>4. CASE PutStops
      BY <1>3, <1>4, <2>4 DEF PutStops, PipeShape
    <2> QED BY <1>6, <2>1, <2>2, <2>3, <2>4
  <1>7. CASE ReadFails
    BY <1>7 DEF ReadFails, PipeShape, EventFrames
  <1>8. CASE OpenFails \/ CloseSession \/ Refuse \/ HandlerReturns \/ Drop
    <2>1. CASE OpenFails
      BY <1>2, <2>1 DEF OpenFails, PipeShape
    <2>2. CASE CloseSession
      BY <1>2, <2>2 DEF CloseSession, PipeShape
    <2>3. CASE Refuse
      BY <1>2, <2>3 DEF Refuse, PipeShape
    <2>4. CASE HandlerReturns
      BY <1>2, <2>4 DEF HandlerReturns, PipeShape
    <2>5. CASE Drop
      BY <1>2, <2>5 DEF Drop, PipeShape
    <2> QED BY <1>8, <2>1, <2>2, <2>3, <2>4, <2>5
  <1>9. CASE Send \/ Sent \/ SendFails \/ Leave \/ SeesEnd \/ CloseReturns \/ Relay
    <2>1. CASE Send
      BY <1>3, <2>1 DEF Send, PipeShape
    <2>2. CASE Sent
      BY <1>3, <2>2 DEF Sent, PipeShape
    <2>3. CASE SendFails
      BY <1>3, <2>3 DEF SendFails, PipeShape
    <2>4. CASE Leave
      BY <1>3, <2>4 DEF Leave, PipeShape
    <2>5. CASE SeesEnd
      BY <1>3, <2>5 DEF SeesEnd, Leave, PipeShape
    <2>6. CASE CloseReturns
      BY <1>3, <2>6 DEF CloseReturns, PipeShape
    <2>7. CASE Relay
      BY <1>3, <2>7 DEF Relay, PipeShape
    <2> QED BY <1>9, <2>1, <2>2, <2>3, <2>4, <2>5, <2>6, <2>7
  <1>10. CASE Accept
    BY <1>10 DEF Accept, PipeShape
  <1>11. CASE Receive \/ Enqueue \/ EnqueueStops \/ ReceiveFails
    <2>1. CASE Receive
      BY <1>3, <2>1 DEF Receive, PipeShape
    <2>2. CASE Enqueue
      BY <1>3, <2>2 DEF Enqueue, PipeShape
    <2>3. CASE EnqueueStops
      BY <1>3, <2>3 DEF EnqueueStops, PipeShape
    <2>4. CASE ReceiveFails
      BY <1>3, <2>4 DEF ReceiveFails, PipeShape
    <2> QED BY <1>11, <2>1, <2>2, <2>3, <2>4
  <1>12. CASE TakeCommand \/ Pass \/ PassFails \/ HandlerLeaves \/ Shutdown
    <2>1. CASE TakeCommand
      BY <1>3, <2>1 DEF TakeCommand, PipeShape
    <2>2. CASE Pass
      BY <1>3, <2>2 DEF Pass, PipeShape
    <2>3. CASE PassFails
      BY <1>3, <2>3 DEF PassFails, PipeShape
    <2>4. CASE HandlerLeaves
      BY <1>3, <2>4 DEF HandlerLeaves, PipeShape
    <2>5. CASE Shutdown
      BY <1>3, <2>5 DEF Shutdown, PipeShape
    <2> QED BY <1>12, <2>1, <2>2, <2>3, <2>4, <2>5
  <1>13. CASE TakeEvent \/ WriteEventFails
    <2>1. CASE TakeEvent
      <3>1. /\ writing' # <<>> <=> handler' = "writing"
            /\ handler' \in {"writing", "closing"} /\ handler = "loop"
        BY <2>1 DEF TakeEvent
      <3> QED BY <1>3, <2>1, <3>1 DEF TakeEvent, PipeShape
    <2>2. CASE WriteEventFails
      BY <1>3, <2>2 DEF WriteEventFails, PipeShape
    <2> QED BY <1>13, <2>1, <2>2
  <1>14. CASE WriteEvent
    BY <1>5, <1>14 DEF WriteEvent, PipeShape
  <1>15. CASE Take \/ Emit \/ Emitted \/ Ends
    <2>1. CASE Take
      BY <1>3, <2>1 DEF Take, PipeShape
    <2>2. CASE Emit
      BY <1>3, <2>2 DEF Emit, PipeShape
    <2>3. CASE Emitted
      BY <1>3, <2>3 DEF Emitted, PipeShape
    <2>4. CASE Ends
      BY <1>3, <2>4 DEF Ends, PipeShape
    <2> QED BY <1>15, <2>1, <2>2, <2>3, <2>4
  <1>16. CASE UNCHANGED vars
    BY <1>3, <1>16 DEF vars, PipeShape
  <1> QED BY <1>6, <1>7, <1>8, <1>9, <1>10, <1>11, <1>12, <1>13, <1>14, <1>15, <1>16
       DEF Next, GatewayStep, ReaderStep, HandlerStep, CommandReaderStep, RuntimeStep, Choice

-----------------------------------------------------------------------------
(* Commands: what is given up is the end of what is underway, and the end  *)
(* stays behind where it was.                                              *)
LEMMA CommandsCut ==
  ASSUME PipeTypeOK, CommandsInOrder, UNCHANGED <<input, taken>>,
         HandlerGone => HandlerGone',
         ~HandlerGone' => UNCHANGED <<passing, commands>>,
         ~HandlerGone' /\ commandReader' # "done" =>
            /\ commandReader # "done" /\ UNCHANGED arriving
            /\ \A a \in Nat : Numbered(toAgent, a) => Numbered(toAgent', a)
            /\ link' = "up" => link = "up" /\ UNCHANGED toAgent /\ outgoing' \in {outgoing, <<>>},
         InUse' => InUse /\ UNCHANGED <<sent, outgoing>>
  PROVE  CommandsInOrder'
  <1>1. /\ Len(input) \in Nat /\ Len(passing) \in Nat /\ Len(commands) \in Nat /\ Len(arriving) \in Nat
        /\ Len(toAgent) \in Nat /\ taken \in Nat
        /\ AtHandler \in Nat /\ AtCommands \in Nat /\ AtReader \in Nat /\ AtWire \in Nat /\ AtGateway \in Nat
    BY PipeSeqs, PipeNats
  <1>2. AtHandler' = AtHandler
    BY DEF AtHandler
  <1>3. ~HandlerGone' => AtCommands' = AtCommands /\ AtReader' = AtReader
    BY <1>2 DEF AtCommands, AtReader
  <1>4. ~HandlerGone' /\ commandReader' # "done" =>
          AtWire' = AtWire /\ (link' = "up" => AtGateway' = AtGateway)
    BY <1>3 DEF AtWire, AtGateway
  <1>5. Numbered(input', taken')
    BY DEF CommandsInOrder
  <1>6. ~HandlerGone' => Numbered(passing', AtHandler') /\ Numbered(commands', AtCommands')
    BY <1>2, <1>3 DEF CommandsInOrder
  <1>7. ASSUME ~HandlerGone', commandReader' # "done"
        PROVE  /\ Numbered(arriving', AtReader') /\ Numbered(toAgent', AtWire')
               /\ link' = "up" => Numbered(outgoing', AtGateway')
    BY <1>1, <1>3, <1>4, <1>7, RunEmpty DEF CommandsInOrder
  <1>8. ASSUME InUse', commandReader' # "done"
        PROVE  AtGateway' + Len(outgoing') = sent'
    <2>1. ~HandlerGone' /\ link' = "up"
      BY <1>8 DEF InUse
    <2> QED BY <1>4, <1>8, <2>1 DEF CommandsInOrder
  <1> QED BY <1>5, <1>6, <1>7, <1>8 DEF CommandsInOrder

(* A command that moves on. *)
LEMMA CommandsMove ==
  ASSUME PipeTypeOK, PipeShape, CommandsInOrder,
         Send \/ Sent \/ Receive \/ Enqueue \/ TakeCommand \/ Pass \/ Take
  PROVE  CommandsInOrder'
  <1> USE DEF gatewayVars, readVars, wireVars, handlerVars, commandVars, sessionVars, runtimeVars
  <1>1. /\ input \in Seq(Nat) /\ passing \in Seq(Nat) /\ commands \in Seq(Nat) /\ arriving \in Seq(Nat)
        /\ toAgent \in Seq(Nat) /\ outgoing \in Seq(Nat) /\ taken \in Nat /\ sent \in Nat
        /\ Len(input) \in Nat /\ Len(passing) \in Nat /\ Len(commands) \in Nat /\ Len(arriving) \in Nat
        /\ Len(toAgent) \in Nat /\ Len(outgoing) \in Nat
        /\ AtHandler \in Nat /\ AtCommands \in Nat /\ AtReader \in Nat /\ AtWire \in Nat /\ AtGateway \in Nat
    BY PipeSeqs, PipeNats
  <1> DEFINE At == <<AtHandler, AtCommands, AtReader, AtWire, AtGateway>>
  <1>2. /\ AtHandler = taken + Len(input) /\ AtCommands = AtHandler + Len(passing) /\ AtReader = AtCommands + Len(commands)
        /\ AtWire = AtReader + Len(arriving) /\ AtGateway = AtWire + Len(toAgent)
        /\ AtHandler' = taken' + Len(input') /\ AtCommands' = AtHandler' + Len(passing') /\ AtReader' = AtCommands' + Len(commands')
        /\ AtWire' = AtReader' + Len(arriving') /\ AtGateway' = AtWire' + Len(toAgent')
    BY DEF AtHandler, AtCommands, AtReader, AtWire, AtGateway
  <1>3. \A a \in Nat : Numbered(<<>>, a) /\ Len(<<>>) = 0
    BY RunEmpty
  <1>4. CASE Send
    <2>1. CASE reader = "done"
      <3>1. /\ UNCHANGED <<input, taken, passing, commands, commandReader, arriving, toAgent, link, outgoing, handler>>
            /\ user' = "closing"
        BY <1>4, <2>1 DEF Send
      <3> QED BY <3>1, CommandsCut DEF InUse, HandlerGone
    <2>2. CASE reader # "done"
      <3>1. /\ UNCHANGED <<input, taken, passing, commands, commandReader, arriving, toAgent, link, handler>>
            /\ user = "loop" /\ user' = "sending" /\ sent' = sent + 1 /\ outgoing' = <<sent + 1>> /\ outgoing = <<>>
        BY <1>4, <2>2 DEF Send, PipeShape
      <3>2. Numbered(outgoing', sent) /\ Len(outgoing') = 1
        BY <1>1, <3>1, RunOne
      <3>3. InUse' <=> InUse
        BY <3>1 DEF InUse, HandlerGone
      <3>4. UNCHANGED At /\ (HandlerGone' <=> HandlerGone)
        BY <3>1 DEF AtHandler, AtCommands, AtReader, AtWire, AtGateway, HandlerGone
      <3>5. InUse /\ commandReader # "done" => AtGateway = sent
        BY <1>1, <1>3, <3>1 DEF CommandsInOrder
      <3>6. ~HandlerGone /\ link = "up" => InUse
        BY <3>1 DEF InUse
      <3>7. ~HandlerGone /\ commandReader # "done" /\ link = "up" => Numbered(outgoing', AtGateway)
        BY <3>2, <3>5, <3>6
      <3>8. InUse' /\ commandReader' # "done" => AtGateway' + Len(outgoing') = sent'
        BY <1>1, <3>1, <3>2, <3>3, <3>4, <3>5
      <3> QED BY <3>1, <3>4, <3>7, <3>8 DEF CommandsInOrder
    <2> QED BY <2>1, <2>2
  <1>5. CASE Sent /\ link = "up"
    <2>1. /\ UNCHANGED <<input, taken, passing, commands, commandReader, arriving, link, handler, sent>>
          /\ toAgent' = toAgent \o outgoing /\ outgoing' = <<>> /\ link = "up" /\ user = "sending" /\ user' = "loop"
      BY <1>5 DEF Sent
    <2>2. /\ Len(toAgent') = Len(toAgent) + Len(outgoing)
          /\ Numbered(toAgent, AtWire) /\ Numbered(outgoing, AtGateway) => Numbered(toAgent', AtWire)
      BY <1>1, <1>2, <2>1, RunConcat
    <2>3. /\ AtHandler' = AtHandler /\ AtCommands' = AtCommands /\ AtReader' = AtReader /\ AtWire' = AtWire
          /\ AtGateway' = AtGateway + Len(outgoing) /\ Len(outgoing') = 0 /\ Numbered(outgoing', AtGateway')
      BY <1>1, <1>2, <1>3, <2>1, <2>2
    <2>4. (InUse' <=> InUse) /\ (HandlerGone' <=> HandlerGone)
      BY <2>1 DEF InUse, HandlerGone
    <2>5. InUse' /\ commandReader' # "done" => AtGateway' + Len(outgoing') = sent'
      BY <1>1, <2>1, <2>3, <2>4 DEF CommandsInOrder
    <2> QED BY <2>1, <2>2, <2>3, <2>4, <2>5 DEF CommandsInOrder
  <1>6. CASE Receive
    <2>1. /\ UNCHANGED <<input, taken, passing, commands, link, handler, sent, outgoing, user>>
          /\ commandReader = "reading" /\ commandReader' = "putting" /\ toAgent # <<>> /\ arriving = <<>>
          /\ arriving' = <<Head(toAgent)>> /\ toAgent' = Tail(toAgent)
      BY <1>6 DEF Receive, PipeShape
    <2>2. /\ Len(toAgent') = Len(toAgent) - 1 /\ Len(arriving') = 1 /\ Len(arriving) = 0
          /\ Numbered(toAgent, AtWire) => Numbered(arriving', AtWire) /\ Numbered(toAgent', AtWire + 1)
      BY <1>1, <1>3, <2>1, RunTail
    <2>3. /\ AtHandler' = AtHandler /\ AtCommands' = AtCommands /\ AtReader' = AtReader /\ AtReader = AtWire
          /\ AtWire' = AtWire + 1 /\ AtGateway' = AtGateway
      BY <1>1, <1>2, <2>1, <2>2
    <2>4. (InUse' <=> InUse) /\ (HandlerGone' <=> HandlerGone)
      BY <2>1 DEF InUse, HandlerGone
    <2> QED BY <2>1, <2>2, <2>3, <2>4 DEF CommandsInOrder
  <1>7. CASE Enqueue
    <2>1. /\ UNCHANGED <<input, taken, passing, toAgent, link, handler, sent, outgoing, user>>
          /\ commandReader = "putting" /\ commandReader' = "reading"
          /\ commands' = commands \o arriving /\ arriving' = <<>>
      BY <1>7 DEF Enqueue
    <2>2. /\ Len(commands') = Len(commands) + Len(arriving)
          /\ Numbered(commands, AtCommands) /\ Numbered(arriving, AtReader) => Numbered(commands', AtCommands)
      BY <1>1, <1>2, <2>1, RunConcat
    <2>3. /\ AtHandler' = AtHandler /\ AtCommands' = AtCommands /\ AtReader' = AtWire
          /\ AtWire' = AtWire /\ AtGateway' = AtGateway /\ Numbered(arriving', AtReader')
      BY <1>1, <1>2, <1>3, <2>1, <2>2
    <2>4. (InUse' <=> InUse) /\ (HandlerGone' <=> HandlerGone)
      BY <2>1 DEF InUse, HandlerGone
    <2> QED BY <2>1, <2>2, <2>3, <2>4 DEF CommandsInOrder
  <1>8. CASE TakeCommand
    <2>1. /\ UNCHANGED <<input, taken, toAgent, link, sent, outgoing, user, commandReader, arriving>>
          /\ handler = "loop" /\ handler' = "sending" /\ commands # <<>> /\ passing = <<>>
          /\ passing' = <<Head(commands)>> /\ commands' = Tail(commands)
      BY <1>8 DEF TakeCommand, PipeShape
    <2>2. /\ Len(commands') = Len(commands) - 1 /\ Len(passing') = 1 /\ Len(passing) = 0
          /\ Numbered(commands, AtCommands) => Numbered(passing', AtCommands) /\ Numbered(commands', AtCommands + 1)
      BY <1>1, <1>3, <2>1, RunTail
    <2>3. /\ AtHandler' = AtHandler /\ AtCommands = AtHandler /\ AtCommands' = AtCommands + 1
          /\ AtReader' = AtReader /\ AtWire' = AtWire /\ AtGateway' = AtGateway
      BY <1>1, <1>2, <2>1, <2>2
    <2>4. (InUse' <=> InUse) /\ ~HandlerGone' /\ ~HandlerGone
      BY <2>1 DEF InUse, HandlerGone
    <2> QED BY <2>1, <2>2, <2>3, <2>4 DEF CommandsInOrder
  <1>9. CASE Pass
    <2>1. /\ UNCHANGED <<taken, commands, toAgent, link, sent, outgoing, user, commandReader, arriving>>
          /\ handler = "sending" /\ handler' = "loop" /\ input' = input \o passing /\ passing' = <<>>
      BY <1>9 DEF Pass
    <2>2. /\ Len(input') = Len(input) + Len(passing)
          /\ Numbered(input, taken) /\ Numbered(passing, AtHandler) => Numbered(input', taken)
      BY <1>1, <1>2, <2>1, RunConcat
    <2>3. /\ AtHandler' = AtCommands /\ AtCommands' = AtCommands /\ Numbered(passing', AtHandler')
          /\ AtReader' = AtReader /\ AtWire' = AtWire /\ AtGateway' = AtGateway
      BY <1>1, <1>2, <1>3, <2>1, <2>2
    <2>4. (InUse' <=> InUse) /\ ~HandlerGone' /\ ~HandlerGone
      BY <2>1 DEF InUse, HandlerGone
    <2> QED BY <2>1, <2>2, <2>3, <2>4 DEF CommandsInOrder
  <1>10. CASE Take
    <2>1. /\ UNCHANGED <<passing, commands, toAgent, link, sent, outgoing, user, commandReader, arriving, handler>>
          /\ input # <<>> /\ taken' = Head(input) /\ input' = Tail(input)
      BY <1>10 DEF Take
    <2>2. Numbered(input, taken)
      BY DEF CommandsInOrder
    <2>3. Len(input') = Len(input) - 1 /\ taken' = taken + 1 /\ Numbered(input', taken')
      <3>1. Len(Tail(input)) = Len(input) - 1 /\ Head(input) = taken + 1 /\ Numbered(Tail(input), taken + 1)
        BY <1>1, <2>1, <2>2, RunTail
      <3> QED BY <2>1, <3>1
    <2>4. /\ AtHandler' = AtHandler /\ AtCommands' = AtCommands /\ AtReader' = AtReader
          /\ AtWire' = AtWire /\ AtGateway' = AtGateway
      <3>1. AtHandler' = (taken + 1) + (Len(input) - 1) /\ AtHandler = taken + Len(input)
        BY <1>2, <2>3
      <3>2. AtHandler' = AtHandler
        BY <1>1, <3>1
      <3>3. Len(passing') = Len(passing) /\ Len(commands') = Len(commands) /\ Len(arriving') = Len(arriving) /\ Len(toAgent') = Len(toAgent)
        BY <2>1
      <3> QED BY <1>2, <3>2, <3>3
    <2>5. (InUse' <=> InUse) /\ (HandlerGone' <=> HandlerGone)
      BY <2>1 DEF InUse, HandlerGone
    <2> QED BY <2>1, <2>3, <2>4, <2>5 DEF CommandsInOrder
  <1>11. CASE Sent /\ link # "up"
    BY <1>11, CommandsCut DEF Sent, InUse, HandlerGone
  <1> QED BY <1>4, <1>5, <1>6, <1>7, <1>8, <1>9, <1>10, <1>11

(* Events: what is given up is the end of what is underway, too.           *)
LEMMA EventsCut ==
  ASSUME PipeTypeOK, EventsInOrder, UNCHANGED <<inbox, delivered>>,
         reader' # "done" =>
            /\ reader # "done" /\ UNCHANGED fetched
            /\ \A a \in Nat : Numbered(EventFrames, a) => Numbered(EventFrames', a),
         link' = "up" /\ ~HandlerGone' =>
            /\ link = "up" /\ ~HandlerGone /\ UNCHANGED <<fetched, EventFrames, writing, events>>
            /\ emitting' \in {emitting, <<>>}
            /\ runtime' # "ended" => runtime # "ended" /\ UNCHANGED <<emitting, emitted>>
  PROVE  EventsInOrder'
  <1>1. /\ FromReader \in Nat /\ FromWire \in Nat /\ FromHandler \in Nat /\ FromSession \in Nat /\ FromRuntime \in Nat
    BY PipeNats
  <1>2. FromReader' = FromReader
    BY DEF FromReader
  <1>3. reader' # "done" => FromWire' = FromWire
    BY <1>2 DEF FromWire
  <1>4. link' = "up" /\ ~HandlerGone' =>
          FromHandler' = FromHandler /\ FromSession' = FromSession /\ FromRuntime' = FromRuntime
    BY <1>2 DEF FromWire, FromHandler, FromSession, FromRuntime
  <1>5. Numbered(inbox', delivered')
    BY DEF EventsInOrder
  <1>6. reader' # "done" => Numbered(fetched', FromReader') /\ Numbered(EventFrames', FromWire')
    BY <1>1, <1>2, <1>3 DEF EventsInOrder
  <1>7. ASSUME link' = "up", ~HandlerGone'
        PROVE  /\ Numbered(writing', FromHandler') /\ Numbered(events', FromSession') /\ Numbered(emitting', FromRuntime')
               /\ runtime' # "ended" => FromRuntime' + Len(emitting') = emitted'
    BY <1>1, <1>4, <1>7, RunEmpty DEF EventsInOrder
  <1> QED BY <1>5, <1>6, <1>7 DEF EventsInOrder

(* An event that moves on. *)
LEMMA EventsMove ==
  ASSUME PipeTypeOK, PipeShape, EventsInOrder,
         Relay \/ Fetch \/ Put \/ TakeEvent \/ WriteEvent \/ Emit \/ Emitted
  PROVE  EventsInOrder'
  <1> USE DEF gatewayVars, readVars, wireVars, handlerVars, commandVars, sessionVars, runtimeVars
  <1>1. /\ inbox \in Seq(Nat) /\ fetched \in Seq(Nat) /\ toGateway \in Seq(Nat) /\ EventFrames \in Seq(Nat)
        /\ writing \in Seq(Nat) /\ events \in Seq(Nat) /\ emitting \in Seq(Nat)
        /\ Len(inbox) \in Nat /\ Len(fetched) \in Nat /\ Len(EventFrames) \in Nat /\ Len(writing) \in Nat
        /\ Len(events) \in Nat /\ Len(emitting) \in Nat /\ delivered \in Nat /\ emitted \in Nat
        /\ FromReader \in Nat /\ FromWire \in Nat /\ FromHandler \in Nat /\ FromSession \in Nat /\ FromRuntime \in Nat
        /\ writing # <<>> => Head(writing) # Accepted
    BY PipeSeqs, PipeNats
  <1>2. /\ FromReader = delivered + Len(inbox) /\ FromWire = FromReader + Len(fetched)
        /\ FromHandler = FromWire + Len(EventFrames) /\ FromSession = FromHandler + Len(writing)
        /\ FromRuntime = FromSession + Len(events)
        /\ FromReader' = delivered' + Len(inbox') /\ FromWire' = FromReader' + Len(fetched')
        /\ FromHandler' = FromWire' + Len(EventFrames') /\ FromSession' = FromHandler' + Len(writing')
        /\ FromRuntime' = FromSession' + Len(events')
    BY DEF FromReader, FromWire, FromHandler, FromSession, FromRuntime
  <1>3. \A a \in Nat : Numbered(<<>>, a) /\ Len(<<>>) = 0
    BY RunEmpty
  <1>4. UNCHANGED toGateway => UNCHANGED EventFrames
    BY DEF EventFrames
  <1>5. link = "up" => reader # "done"
    BY DEF PipeShape
  <1>6. CASE Relay
    <2>1. /\ UNCHANGED <<reader, fetched, toGateway, link, handler, writing, events, emitting, emitted, runtime>>
          /\ inbox # <<>> /\ delivered' = Head(inbox) /\ inbox' = Tail(inbox)
      BY <1>6 DEF Relay
    <2>2. Len(inbox') = Len(inbox) - 1 /\ delivered' = delivered + 1 /\ Numbered(inbox', delivered')
      <3>1. Len(Tail(inbox)) = Len(inbox) - 1 /\ Head(inbox) = delivered + 1 /\ Numbered(Tail(inbox), delivered + 1)
        BY <1>1, <2>1, RunTail DEF EventsInOrder
      <3> QED BY <2>1, <3>1
    <2>3. FromReader' = FromReader
      <3>1. FromReader' = (delivered + 1) + (Len(inbox) - 1) /\ FromReader = delivered + Len(inbox)
        BY <1>2, <2>2
      <3> QED BY <1>1, <3>1
    <2>4. UNCHANGED <<FromWire, FromHandler, FromSession, FromRuntime, EventFrames>> /\ (HandlerGone' <=> HandlerGone)
      BY <1>4, <2>1, <2>3 DEF FromWire, FromHandler, FromSession, FromRuntime, HandlerGone
    <2> QED BY <2>1, <2>2, <2>3, <2>4 DEF EventsInOrder
  <1>7. CASE Fetch
    <2>1. /\ UNCHANGED <<inbox, delivered, link, handler, writing, events, emitting, emitted, runtime>>
          /\ reader = "reading" /\ reader' = "putting" /\ toGateway # <<>> /\ fetched = <<>>
          /\ fetched' = <<Head(toGateway)>> /\ toGateway' = Tail(toGateway)
          /\ toGateway = EventFrames
      BY <1>7 DEF Fetch, PipeShape
    <2>2. Numbered(EventFrames, FromWire)
      BY <2>1 DEF EventsInOrder
    <2>3. Head(toGateway) # Accepted
      <3>1. Head(toGateway) = FromWire + 1
        BY <1>1, <2>1, <2>2, RunTail
      <3> QED BY <1>1, <3>1 DEF Accepted
    <2>4. /\ Numbered(EventFrames', FromWire + 1) /\ Numbered(fetched', FromWire)
          /\ Len(EventFrames') = Len(EventFrames) - 1 /\ Len(fetched') = 1 /\ Len(fetched) = 0
      <3>1. Len(<<Head(toGateway)>>) = 1
        OBVIOUS
      <3> QED BY <1>1, <1>3, <2>1, <2>2, <2>3, <3>1, FramesTail
    <2>5. FromReader' = FromReader /\ FromReader = FromWire /\ FromWire' = FromWire + 1
      BY <1>1, <1>2, <2>1, <2>4
    <2>6. FromHandler' = FromHandler
      <3>1. FromHandler' = (FromWire + 1) + (Len(EventFrames) - 1) /\ FromHandler = FromWire + Len(EventFrames)
        BY <1>2, <2>4, <2>5
      <3> QED BY <1>1, <3>1
    <2>7. UNCHANGED <<FromSession, FromRuntime>> /\ (HandlerGone' <=> HandlerGone)
      BY <2>1, <2>6 DEF FromSession, FromRuntime, HandlerGone
    <2> QED BY <2>1, <2>4, <2>5, <2>6, <2>7 DEF EventsInOrder
  <1>8. CASE Put
    <2>1. /\ UNCHANGED <<toGateway, delivered, link, handler, writing, events, emitting, emitted, runtime>>
          /\ reader = "putting" /\ reader' = "reading" /\ inbox' = inbox \o fetched /\ fetched' = <<>>
      BY <1>8 DEF Put
    <2>2. /\ Len(inbox') = Len(inbox) + Len(fetched)
          /\ Numbered(inbox', delivered)
      BY <1>1, <1>2, <2>1, RunConcat DEF EventsInOrder
    <2>3. FromReader' = FromWire /\ FromWire' = FromWire /\ Numbered(fetched', FromReader')
      BY <1>1, <1>2, <1>3, <2>1, <2>2
    <2>4. UNCHANGED <<FromHandler, FromSession, FromRuntime, EventFrames>> /\ (HandlerGone' <=> HandlerGone)
      BY <1>4, <2>1, <2>3 DEF FromHandler, FromSession, FromRuntime, HandlerGone
    <2> QED BY <2>1, <2>2, <2>3, <2>4 DEF EventsInOrder
  <1>9. CASE TakeEvent
    <2>1. /\ UNCHANGED <<inbox, delivered, reader, fetched, toGateway, link, emitting, emitted, runtime>>
          /\ handler = "loop" /\ events # <<>> /\ events' = Tail(events) /\ writing = <<>>
      BY <1>9 DEF TakeEvent, PipeShape
    <2>2. CASE handler' = "closing"
      BY <1>4, <2>1, <2>2, EventsCut DEF HandlerGone
    <2>3. CASE handler' # "closing"
      <3>1. writing' = <<Head(events)>> /\ handler' = "writing"
        BY <1>9, <2>3 DEF TakeEvent
      <3>2. /\ Len(events') = Len(events) - 1 /\ Len(writing') = 1 /\ Len(writing) = 0
            /\ Numbered(events, FromSession) => Numbered(writing', FromSession) /\ Numbered(events', FromSession + 1)
        BY <1>1, <1>3, <2>1, <3>1, RunTail
      <3>3. /\ UNCHANGED <<FromReader, FromWire, FromHandler, EventFrames>>
            /\ ~HandlerGone /\ ~HandlerGone'
        BY <1>4, <2>1, <3>1 DEF FromReader, FromWire, FromHandler, HandlerGone
      <3>4. FromHandler = FromSession /\ FromSession' = FromSession + 1
        BY <1>1, <1>2, <3>2, <3>3
      <3>5. FromRuntime' = FromRuntime
        <4>1. FromRuntime' = (FromSession + 1) + (Len(events) - 1) /\ FromRuntime = FromSession + Len(events)
          BY <1>2, <3>2, <3>4
        <4> QED BY <1>1, <4>1
      <3> QED BY <2>1, <3>2, <3>3, <3>4, <3>5 DEF EventsInOrder
    <2> QED BY <2>2, <2>3
  <1>10. CASE WriteEvent /\ link = "up"
    <2>1. /\ UNCHANGED <<inbox, delivered, reader, fetched, link, emitting, emitted, runtime, events>>
          /\ handler = "writing" /\ link = "up" /\ writing # <<>> /\ toGateway' = toGateway \o writing /\ writing' = <<>>
          /\ handler' \in {"closing", "loop"}
      BY <1>10 DEF WriteEvent, PipeShape
    <2>2. EventFrames' = EventFrames \o writing
      BY <1>1, <2>1, FramesAppend
    <2>3. Numbered(EventFrames, FromWire) /\ Numbered(writing, FromHandler)
      BY <1>5, <2>1 DEF EventsInOrder, HandlerGone
    <2>4. Len(EventFrames') = Len(EventFrames) + Len(writing) /\ Numbered(EventFrames', FromWire)
      BY <1>1, <1>2, <2>2, <2>3, RunConcat
    <2>5. /\ FromReader' = FromReader /\ FromWire' = FromWire /\ Len(writing') = 0
          /\ FromHandler' = FromSession /\ FromSession' = FromSession /\ FromRuntime' = FromRuntime
          /\ Numbered(writing', FromHandler')
      <3>1. FromReader' = FromReader /\ FromWire' = FromWire
        BY <2>1 DEF FromReader, FromWire
      <3>2. FromHandler' = FromSession
        BY <1>1, <1>2, <2>4, <3>1
      <3>3. FromSession' = FromSession /\ Len(writing') = 0
        BY <1>1, <1>2, <1>3, <2>1, <3>2
      <3> QED BY <1>1, <1>2, <1>3, <2>1, <3>1, <3>2, <3>3
    <2>6. ~HandlerGone
      BY <2>1 DEF HandlerGone
    <2> QED BY <1>5, <2>1, <2>4, <2>5, <2>6 DEF EventsInOrder
  <1>11. CASE Emit
    <2>1. /\ UNCHANGED <<inbox, delivered, reader, fetched, toGateway, link, handler, writing, events>>
          /\ runtime = "ready" /\ runtime' = "emitting" /\ emitted' = emitted + 1 /\ emitting' = <<emitted + 1>>
          /\ emitting = <<>>
      BY <1>11 DEF Emit, PipeShape
    <2>2. /\ UNCHANGED <<FromReader, FromWire, FromHandler, FromSession, FromRuntime, EventFrames>>
          /\ (HandlerGone' <=> HandlerGone)
      BY <1>4, <2>1 DEF FromReader, FromWire, FromHandler, FromSession, FromRuntime, HandlerGone
    <2>3. Numbered(emitting', emitted) /\ Len(emitting') = 1
      BY <1>1, <2>1, RunOne
    <2>4. link = "up" /\ ~HandlerGone => FromRuntime = emitted
      BY <1>1, <1>3, <2>1 DEF EventsInOrder
    <2> QED BY <2>1, <2>2, <2>3, <2>4 DEF EventsInOrder
  <1>12. CASE Emitted
    <2>1. /\ UNCHANGED <<inbox, delivered, reader, fetched, toGateway, link, handler, writing, emitted>>
          /\ runtime = "emitting" /\ events' = events \o emitting /\ emitting' = <<>>
      BY <1>12 DEF Emitted
    <2>2. /\ Len(events') = Len(events) + Len(emitting)
          /\ Numbered(events, FromSession) /\ Numbered(emitting, FromRuntime) => Numbered(events', FromSession)
      BY <1>1, <1>2, <2>1, RunConcat
    <2>3. /\ UNCHANGED <<FromReader, FromWire, FromHandler, FromSession, EventFrames>>
          /\ (HandlerGone' <=> HandlerGone)
      BY <1>4, <2>1 DEF FromReader, FromWire, FromHandler, FromSession, HandlerGone
    <2>4. FromRuntime' = FromRuntime + Len(emitting) /\ Numbered(emitting', FromRuntime') /\ Len(emitting') = 0
      BY <1>1, <1>2, <1>3, <2>1, <2>2, <2>3
    <2>5. FromRuntime' + Len(emitting') = FromRuntime + Len(emitting)
      BY <1>1, <2>4
    <2> QED BY <2>1, <2>2, <2>3, <2>4, <2>5 DEF EventsInOrder
  <1>13. CASE WriteEvent /\ link # "up"
    BY <1>4, <1>13, EventsCut DEF WriteEvent, HandlerGone
  <1> QED BY <1>6, <1>7, <1>8, <1>9, <1>10, <1>11, <1>12, <1>13

-----------------------------------------------------------------------------
(* Every step keeps the order of the commands.                             *)
LEMMA CommandsStay ==
  ASSUME PipeTypeOK, PipeShape, CommandsInOrder, [Next]_vars
  PROVE  CommandsInOrder'
  <1> USE DEF gatewayVars, readVars, wireVars, handlerVars, commandVars, sessionVars, runtimeVars
  <1>1. CASE Send \/ Sent \/ Receive \/ Enqueue \/ TakeCommand \/ Pass \/ Take
    BY <1>1, CommandsMove
  <1>2. Break => link' = "down" /\ \A a \in Nat : Numbered(toAgent, a) => Numbered(toAgent', a)
    BY BreakFacts
  <1>3. CASE OpenFails \/ CloseSession \/ Refuse \/ HandlerReturns \/ Drop
    <2>1. CASE OpenFails
      BY <1>2, <2>1, CommandsCut DEF OpenFails, HandlerGone, InUse
    <2>2. CASE CloseSession
      BY <1>2, <2>2, CommandsCut DEF CloseSession, HandlerGone, InUse
    <2>3. CASE Refuse
      BY <1>2, <2>3, CommandsCut DEF Refuse, HandlerGone, InUse
    <2>4. CASE HandlerReturns
      BY <1>2, <2>4, CommandsCut DEF HandlerReturns, HandlerGone, InUse
    <2>5. CASE Drop
      BY <1>2, <2>5, CommandsCut DEF Drop, HandlerGone, InUse
    <2> QED BY <1>3, <2>1, <2>2, <2>3, <2>4, <2>5
  <1>4. CASE Opened \/ SendFails \/ Relay \/ Leave \/ SeesEnd \/ CloseReturns
    <2>1. CASE Opened
      BY <2>1, CommandsCut DEF Opened, HandlerGone, InUse
    <2>2. CASE SendFails
      BY <2>2, CommandsCut DEF SendFails, HandlerGone, InUse
    <2>3. CASE Relay
      BY <2>3, CommandsCut DEF Relay, HandlerGone, InUse
    <2>4. CASE Leave
      BY <2>4, CommandsCut DEF Leave, HandlerGone, InUse
    <2>5. CASE SeesEnd
      BY <2>5, CommandsCut DEF SeesEnd, Leave, HandlerGone, InUse
    <2>6. CASE CloseReturns
      BY <2>6, CommandsCut DEF CloseReturns, HandlerGone, InUse
    <2> QED BY <1>4, <2>1, <2>2, <2>3, <2>4, <2>5, <2>6
  <1>5. CASE Fetch \/ Put \/ PutStops \/ ReadFails
    <2>1. CASE Fetch
      BY <2>1, CommandsCut DEF Fetch, HandlerGone, InUse
    <2>2. CASE Put
      BY <2>2, CommandsCut DEF Put, HandlerGone, InUse
    <2>3. CASE PutStops
      BY <2>3, CommandsCut DEF PutStops, HandlerGone, InUse
    <2>4. CASE ReadFails
      BY <2>4, CommandsCut DEF ReadFails, HandlerGone, InUse
    <2> QED BY <1>5, <2>1, <2>2, <2>3, <2>4
  <1>6. CASE Accept \/ PassFails \/ TakeEvent \/ WriteEvent \/ WriteEventFails \/ HandlerLeaves
    <2>1. CASE Accept
      BY <2>1, CommandsCut DEF Accept, PipeShape, HandlerGone, InUse
    <2>2. CASE PassFails
      BY <2>2, CommandsCut DEF PassFails, HandlerGone, InUse
    <2>3. CASE TakeEvent
      BY <2>3, CommandsCut DEF TakeEvent, HandlerGone, InUse
    <2>4. CASE WriteEvent
      BY <2>4, CommandsCut DEF WriteEvent, HandlerGone, InUse
    <2>5. CASE WriteEventFails
      BY <2>5, CommandsCut DEF WriteEventFails, HandlerGone, InUse
    <2>6. CASE HandlerLeaves
      BY <2>6, CommandsCut DEF HandlerLeaves, HandlerGone, InUse
    <2> QED BY <1>6, <2>1, <2>2, <2>3, <2>4, <2>5, <2>6
  <1>7. CASE EnqueueStops \/ ReceiveFails \/ Emit \/ Emitted \/ Ends \/ Shutdown
    <2>1. CASE EnqueueStops
      BY <2>1, CommandsCut DEF EnqueueStops, HandlerGone, InUse
    <2>2. CASE ReceiveFails
      BY <2>2, CommandsCut DEF ReceiveFails, HandlerGone, InUse
    <2>3. CASE Emit
      BY <2>3, CommandsCut DEF Emit, HandlerGone, InUse
    <2>4. CASE Emitted
      BY <2>4, CommandsCut DEF Emitted, HandlerGone, InUse
    <2>5. CASE Ends
      BY <2>5, CommandsCut DEF Ends, HandlerGone, InUse
    <2>6. CASE Shutdown
      BY <2>6, CommandsCut DEF Shutdown, HandlerGone, InUse
    <2> QED BY <1>7, <2>1, <2>2, <2>3, <2>4, <2>5, <2>6
  <1>8. CASE UNCHANGED vars
    BY <1>8, CommandsCut DEF vars, HandlerGone, InUse
  <1> QED BY <1>1, <1>3, <1>4, <1>5, <1>6, <1>7, <1>8
       DEF Next, GatewayStep, ReaderStep, HandlerStep, CommandReaderStep, RuntimeStep, Choice

(* Every step keeps the order of the events.                               *)
LEMMA EventsStay ==
  ASSUME PipeTypeOK, PipeShape, EventsInOrder, [Next]_vars
  PROVE  EventsInOrder'
  <1> USE DEF gatewayVars, readVars, wireVars, handlerVars, commandVars, sessionVars, runtimeVars
  <1>1. CASE Relay \/ Fetch \/ Put \/ TakeEvent \/ WriteEvent \/ Emit \/ Emitted
    BY <1>1, EventsMove
  <1>2. Break => link' = "down" /\ \A a \in Nat : Numbered(EventFrames, a) => Numbered(EventFrames', a)
    BY BreakFacts
  <1>3. UNCHANGED toGateway => UNCHANGED EventFrames
    BY DEF EventFrames
  <1>4. CASE Opened
    <2>1. /\ UNCHANGED <<inbox, delivered, fetched, link, handler, writing, events, emitting, emitted, runtime>>
          /\ reader = "off" /\ toGateway # <<>> /\ Head(toGateway) = Accepted /\ toGateway' = Tail(toGateway)
      BY <1>4 DEF Opened, PipeShape
    <2>2. UNCHANGED EventFrames
      <3>1. toGateway \in Seq(Nat) /\ FromWire \in Nat /\ Numbered(EventFrames, FromWire)
        BY <2>1, PipeSeqs, PipeNats DEF EventsInOrder
      <3> QED BY <2>1, <3>1, FramesTail
    <2> QED BY <2>1, <2>2, EventsCut DEF HandlerGone
  <1>5. CASE Accept
    <2>1. /\ UNCHANGED <<inbox, delivered, reader, fetched, link, writing, events, emitting, emitted>>
          /\ handler = "idle" /\ handler' = "loop" /\ runtime = "off" /\ runtime' = "ready"
          /\ toGateway = <<>> /\ toGateway' = <<Accepted>>
      BY <1>5 DEF Accept, PipeShape
    <2>2. UNCHANGED EventFrames
      <3>1. Tail(<<Accepted>>) = <<>> /\ Head(<<Accepted>>) = Accepted /\ <<Accepted>> # <<>>
        OBVIOUS
      <3> QED BY <2>1, <3>1 DEF EventFrames
    <2> QED BY <2>1, <2>2, EventsCut DEF HandlerGone
  <1>6. CASE ReadFails \/ PutStops
    <2>1. /\ UNCHANGED <<inbox, delivered, link>> /\ reader' = "done" /\ link = "down"
      BY <1>6 DEF ReadFails, PutStops, PipeShape
    <2> QED BY <2>1, EventsCut
  <1>7. CASE OpenFails \/ CloseSession \/ Refuse \/ HandlerReturns \/ Drop
    <2>1. CASE OpenFails
      BY <1>2, <2>1, EventsCut DEF OpenFails, HandlerGone
    <2>2. CASE CloseSession
      BY <1>2, <2>2, EventsCut DEF CloseSession, HandlerGone
    <2>3. CASE Refuse
      BY <1>2, <2>3, EventsCut DEF Refuse, HandlerGone
    <2>4. CASE HandlerReturns
      BY <1>2, <2>4, EventsCut DEF HandlerReturns, HandlerGone
    <2>5. CASE Drop
      BY <1>2, <2>5, EventsCut DEF Drop, HandlerGone
    <2> QED BY <1>7, <2>1, <2>2, <2>3, <2>4, <2>5
  <1>8. CASE Send \/ Sent \/ SendFails \/ Leave \/ SeesEnd \/ CloseReturns
    <2>1. CASE Send
      BY <1>3, <2>1, EventsCut DEF Send, HandlerGone
    <2>2. CASE Sent
      BY <1>3, <2>2, EventsCut DEF Sent, HandlerGone
    <2>3. CASE SendFails
      BY <1>3, <2>3, EventsCut DEF SendFails, HandlerGone
    <2>4. CASE Leave
      BY <1>3, <2>4, EventsCut DEF Leave, HandlerGone
    <2>5. CASE SeesEnd
      BY <1>3, <2>5, EventsCut DEF SeesEnd, Leave, HandlerGone
    <2>6. CASE CloseReturns
      BY <1>3, <2>6, EventsCut DEF CloseReturns, HandlerGone
    <2> QED BY <1>8, <2>1, <2>2, <2>3, <2>4, <2>5, <2>6
  <1>9. CASE Receive \/ Enqueue \/ EnqueueStops \/ ReceiveFails \/ TakeCommand \/ Pass
    <2>1. CASE Receive
      BY <1>3, <2>1, EventsCut DEF Receive, HandlerGone
    <2>2. CASE Enqueue
      BY <1>3, <2>2, EventsCut DEF Enqueue, HandlerGone
    <2>3. CASE EnqueueStops
      BY <1>3, <2>3, EventsCut DEF EnqueueStops, HandlerGone
    <2>4. CASE ReceiveFails
      BY <1>3, <2>4, EventsCut DEF ReceiveFails, HandlerGone
    <2>5. CASE TakeCommand
      BY <1>3, <2>5, EventsCut DEF TakeCommand, HandlerGone
    <2>6. CASE Pass
      BY <1>3, <2>6, EventsCut DEF Pass, HandlerGone
    <2> QED BY <1>9, <2>1, <2>2, <2>3, <2>4, <2>5, <2>6
  <1>10. CASE PassFails \/ WriteEventFails \/ HandlerLeaves \/ Take \/ Ends \/ Shutdown
    <2>1. CASE PassFails
      BY <1>3, <2>1, EventsCut DEF PassFails, HandlerGone
    <2>2. CASE WriteEventFails
      BY <1>3, <2>2, EventsCut DEF WriteEventFails, HandlerGone
    <2>3. CASE HandlerLeaves
      BY <1>3, <2>3, EventsCut DEF HandlerLeaves, HandlerGone
    <2>4. CASE Take
      BY <1>3, <2>4, EventsCut DEF Take, HandlerGone
    <2>5. CASE Ends
      BY <1>3, <2>5, EventsCut DEF Ends, HandlerGone
    <2>6. CASE Shutdown
      BY <1>3, <2>6, EventsCut DEF Shutdown, HandlerGone
    <2> QED BY <1>10, <2>1, <2>2, <2>3, <2>4, <2>5, <2>6
  <1>11. CASE UNCHANGED vars
    BY <1>3, <1>11, EventsCut DEF vars, HandlerGone
  <1> QED BY <1>1, <1>4, <1>5, <1>6, <1>7, <1>8, <1>9, <1>10, <1>11
       DEF Next, GatewayStep, ReaderStep, HandlerStep, CommandReaderStep, RuntimeStep, Choice

-----------------------------------------------------------------------------
(* The invariant holds at first and every step keeps it.                   *)
LEMMA PipeInvStarts == Init => PipeInv
  <1> SUFFICES ASSUME Init PROVE PipeInv
    OBVIOUS
  <1>1. QueueDepth \in Nat /\ NetDepth \in Nat /\ 1 \in Nat /\ MaxCommands \in Nat /\ MaxEvents \in Nat
    BY PipeAssumption
  <1> DEFINE C == Messages(MaxCommands)
             E == Messages(MaxEvents)
  <1>2. /\ <<>> \in Queues(C, QueueDepth) /\ <<>> \in Queues(C, NetDepth) /\ <<>> \in Queues(C, 1)
        /\ <<>> \in Queues(E, QueueDepth) /\ <<>> \in Queues({Accepted} \cup E, NetDepth) /\ <<>> \in Queues(E, 1)
    BY <1>1, QueueEmpty
  <1>3. PipeTypeOK
    <2>1. /\ user \in {"opening", "loop", "sending", "closing", "waiting", "closed"}
          /\ sent \in 0..MaxCommands /\ delivered \in 0..MaxEvents
          /\ emitted \in 0..MaxEvents /\ taken \in 0..MaxCommands /\ stopped \in 0..MaxEvents
      BY <1>1 DEF Init
    <2>6. {last, readError, shutdown} \subseteq BOOLEAN
      <3>1. last = FALSE /\ readError = FALSE /\ shutdown = FALSE
        BY Zenon DEF Init
      <3> QED BY <3>1
    <2>2. /\ outgoing = <<>> /\ passing = <<>> /\ arriving = <<>> /\ fetched = <<>> /\ writing = <<>> /\ emitting = <<>>
          /\ commands = <<>> /\ input = <<>> /\ toAgent = <<>> /\ events = <<>> /\ inbox = <<>> /\ toGateway = <<>>
      BY DEF Init
    <2>3. {outgoing, passing, arriving} \subseteq Queues(C, 1) /\ {fetched, writing, emitting} \subseteq Queues(E, 1)
      BY <1>2, <2>2
    <2>4. /\ commands \in Queues(C, QueueDepth) /\ input \in Queues(C, QueueDepth) /\ toAgent \in Queues(C, NetDepth)
          /\ events \in Queues(E, QueueDepth) /\ inbox \in Queues(E, QueueDepth)
          /\ toGateway \in Queues({Accepted} \cup E, NetDepth)
      BY <1>2, <2>2
    <2>5. /\ reader = "off" /\ link = "up" /\ handler = "idle" /\ why = "none" /\ commandReader = "off" /\ runtime = "off"
      BY DEF Init
    <2> QED BY <2>1, <2>3, <2>4, <2>5, <2>6 DEF PipeTypeOK
  <1>4. EventFrames = <<>> /\ PipeShape
    BY DEF Init, PipeShape, EventFrames
  <1>5. Len(<<>>) = 0 /\ \A a : Numbered(<<>>, a)
    BY RunEmpty
  <1>6. CommandsInOrder
    BY <1>5 DEF Init, CommandsInOrder, AtGateway, AtWire, AtReader, AtCommands, AtHandler
  <1>7. EventsInOrder
    BY <1>4, <1>5 DEF Init, EventsInOrder, FromRuntime, FromSession, FromHandler, FromWire, FromReader
  <1> QED BY <1>3, <1>4, <1>6, <1>7 DEF PipeInv

LEMMA PipeInvStays == PipeInv /\ [Next]_vars => PipeInv'
  BY PipeTypesStay, PipeShapeStays, CommandsStay, EventsStay DEF PipeInv

(* What stands in order, piece by piece, is in order as a whole. *)
LEMMA RunAppend ==
  ASSUME NEW s \in Seq(Nat), NEW t \in Seq(Nat), NEW u \in Seq(Nat), NEW a \in Nat
  PROVE  /\ s \o t \o u \in Seq(Nat) /\ Len(s \o t \o u) = Len(s) + Len(t) + Len(u)
         /\ Numbered(s, a) /\ Numbered(t, a + Len(s)) /\ Numbered(u, a + Len(s) + Len(t))
              => Numbered(s \o t \o u, a)
  <1> DEFINE st == s \o t
  <1>1. /\ st \in Seq(Nat) /\ Len(st) = Len(s) + Len(t) /\ Len(s) \in Nat /\ Len(t) \in Nat
        /\ Numbered(s, a) /\ Numbered(t, a + Len(s)) => Numbered(st, a)
    BY RunConcat
  <1> HIDE DEF st
  <1>2. a + Len(st) = a + Len(s) + Len(t)
    BY <1>1
  <1>3. /\ st \o u \in Seq(Nat) /\ Len(st \o u) = Len(st) + Len(u)
        /\ Numbered(st, a) /\ Numbered(u, a + Len(s) + Len(t)) => Numbered(st \o u, a)
    BY <1>1, <1>2, RunConcat
  <1> QED BY <1>1, <1>3 DEF st

LEMMA CommandsAsAWhole == PipeTypeOK /\ CommandsInOrder => NoCommandLost
  <1> SUFFICES ASSUME PipeTypeOK, CommandsInOrder PROVE NoCommandLost
    OBVIOUS
  <1>1. /\ input \in Seq(Nat) /\ passing \in Seq(Nat) /\ commands \in Seq(Nat) /\ arriving \in Seq(Nat)
        /\ toAgent \in Seq(Nat) /\ outgoing \in Seq(Nat) /\ <<>> \in Seq(Nat)
        /\ Len(input) \in Nat /\ Len(passing) \in Nat /\ Len(commands) \in Nat /\ Len(arriving) \in Nat
        /\ Len(toAgent) \in Nat /\ Len(outgoing) \in Nat /\ taken \in Nat /\ sent \in Nat
        /\ AtHandler \in Nat /\ AtCommands \in Nat /\ AtReader \in Nat /\ AtWire \in Nat /\ AtGateway \in Nat
    BY PipeSeqs, PipeNats, EmptySeq
  <1>2. /\ AtHandler = taken + Len(input) /\ AtCommands = AtHandler + Len(passing)
        /\ AtReader = AtCommands + Len(commands) /\ AtWire = AtReader + Len(arriving)
        /\ AtGateway = AtWire + Len(toAgent)
    BY DEF AtHandler, AtCommands, AtReader, AtWire, AtGateway
  <1> DEFINE w == If(link = "up", outgoing)
             x == arriving \o toAgent \o w
             y == If(commandReader # "done", x)
             z == passing \o commands \o y
             u == If(~HandlerGone, z)
             v == input \o u
  <1>3. /\ w \in Seq(Nat) /\ (link = "up" => Len(w) = Len(outgoing))
        /\ ~HandlerGone /\ commandReader # "done" => Numbered(w, AtGateway)
    BY <1>1, RunEmpty DEF If, CommandsInOrder
  <1> HIDE DEF w
  <1>4. /\ x \in Seq(Nat) /\ Len(x) = Len(arriving) + Len(toAgent) + Len(w)
        /\ ~HandlerGone /\ commandReader # "done" => Numbered(x, AtReader)
    <2>1. ~HandlerGone /\ commandReader # "done" =>
             /\ Numbered(arriving, AtReader) /\ Numbered(toAgent, AtReader + Len(arriving))
             /\ Numbered(w, AtReader + Len(arriving) + Len(toAgent))
      BY <1>2, <1>3 DEF CommandsInOrder
    <2> QED BY <1>1, <1>3, <2>1, RunAppend
  <1> HIDE DEF x
  <1>5. /\ y \in Seq(Nat) /\ (commandReader # "done" => Len(y) = Len(x))
        /\ ~HandlerGone => Numbered(y, AtReader)
    BY <1>1, <1>4, RunEmpty DEF If
  <1> HIDE DEF y
  <1>6. /\ z \in Seq(Nat) /\ Len(z) = Len(passing) + Len(commands) + Len(y)
        /\ ~HandlerGone => Numbered(z, AtHandler)
    <2>1. ~HandlerGone => /\ Numbered(passing, AtHandler) /\ Numbered(commands, AtHandler + Len(passing))
                          /\ Numbered(y, AtHandler + Len(passing) + Len(commands))
      BY <1>2, <1>5 DEF CommandsInOrder
    <2> QED BY <1>1, <1>5, <2>1, RunAppend
  <1> HIDE DEF z
  <1>7. /\ u \in Seq(Nat) /\ (~HandlerGone => Len(u) = Len(z)) /\ Numbered(u, AtHandler)
    BY <1>1, <1>6, RunEmpty DEF If
  <1> HIDE DEF u
  <1>8. Len(v) = Len(input) + Len(u) /\ Numbered(v, taken)
    BY <1>1, <1>2, <1>7, RunConcat DEF CommandsInOrder
  <1>9. v = CommandsUnderway
    BY DEF v, u, z, y, x, w, CommandsUnderway
  <1> HIDE DEF v
  <1>10. ASSUME InUse, commandReader # "done"
         PROVE  Len(v) = sent - taken
    <2>1. link = "up" /\ ~HandlerGone /\ AtGateway + Len(outgoing) = sent
      BY <1>10 DEF InUse, CommandsInOrder
    <2>2. Len(v) = Len(input) + (Len(passing) + Len(commands) + (Len(arriving) + Len(toAgent) + Len(outgoing)))
      BY <1>3, <1>4, <1>5, <1>6, <1>7, <1>8, <1>10, <2>1
    <2>3. sent = taken + Len(input) + Len(passing) + Len(commands) + Len(arriving) + Len(toAgent) + Len(outgoing)
      BY <1>2, <2>1
    <2> DEFINE a == Len(input)  b == Len(passing)  c == Len(commands)  d == Len(arriving)  e == Len(toAgent)
               f == Len(outgoing)
    <2>4. a \in Nat /\ b \in Nat /\ c \in Nat /\ d \in Nat /\ e \in Nat /\ f \in Nat /\ taken \in Nat
      BY <1>1
    <2> HIDE DEF a, b, c, d, e, f
    <2>5. (taken + a + b + c + d + e + f) - taken = a + (b + c + (d + e + f))
      BY <2>4
    <2> QED BY <2>2, <2>3, <2>5, Zenon DEF a, b, c, d, e, f
  <1> QED BY <1>8, <1>9, <1>10 DEF NoCommandLost

LEMMA EventsAsAWhole == PipeTypeOK /\ PipeShape /\ EventsInOrder => NoEventLost
  <1> SUFFICES ASSUME PipeTypeOK, PipeShape, EventsInOrder PROVE NoEventLost
    OBVIOUS
  <1>1. /\ inbox \in Seq(Nat) /\ fetched \in Seq(Nat) /\ EventFrames \in Seq(Nat) /\ writing \in Seq(Nat)
        /\ events \in Seq(Nat) /\ emitting \in Seq(Nat) /\ <<>> \in Seq(Nat)
        /\ Len(inbox) \in Nat /\ Len(fetched) \in Nat /\ Len(EventFrames) \in Nat /\ Len(writing) \in Nat
        /\ Len(events) \in Nat /\ Len(emitting) \in Nat /\ delivered \in Nat /\ emitted \in Nat
        /\ FromReader \in Nat /\ FromWire \in Nat /\ FromHandler \in Nat /\ FromSession \in Nat /\ FromRuntime \in Nat
    BY PipeSeqs, PipeNats, EmptySeq
  <1>2. /\ FromReader = delivered + Len(inbox) /\ FromWire = FromReader + Len(fetched)
        /\ FromHandler = FromWire + Len(EventFrames) /\ FromSession = FromHandler + Len(writing)
        /\ FromRuntime = FromSession + Len(events)
    BY DEF FromReader, FromWire, FromHandler, FromSession, FromRuntime
  <1>3. link = "up" => reader # "done"
    BY DEF PipeShape
  <1> DEFINE x == writing \o events \o emitting
             y == If(link = "up" /\ ~HandlerGone, x)
             z == fetched \o EventFrames \o y
             u == If(reader # "done", z)
             v == inbox \o u
  <1>4. /\ x \in Seq(Nat) /\ Len(x) = Len(writing) + Len(events) + Len(emitting)
        /\ link = "up" /\ ~HandlerGone => Numbered(x, FromHandler)
    <2>1. link = "up" /\ ~HandlerGone =>
             /\ Numbered(writing, FromHandler) /\ Numbered(events, FromHandler + Len(writing))
             /\ Numbered(emitting, FromHandler + Len(writing) + Len(events))
      BY <1>2 DEF EventsInOrder
    <2> QED BY <1>1, <2>1, RunAppend
  <1> HIDE DEF x
  <1>5. /\ y \in Seq(Nat) /\ (link = "up" /\ ~HandlerGone => Len(y) = Len(x))
        /\ Numbered(y, FromHandler)
    BY <1>1, <1>4, RunEmpty DEF If
  <1> HIDE DEF y
  <1>6. /\ z \in Seq(Nat) /\ Len(z) = Len(fetched) + Len(EventFrames) + Len(y)
        /\ reader # "done" => Numbered(z, FromReader)
    <2>1. reader # "done" => /\ Numbered(fetched, FromReader) /\ Numbered(EventFrames, FromReader + Len(fetched))
                             /\ Numbered(y, FromReader + Len(fetched) + Len(EventFrames))
      BY <1>2, <1>5 DEF EventsInOrder
    <2> QED BY <1>1, <1>5, <2>1, RunAppend
  <1> HIDE DEF z
  <1>7. u \in Seq(Nat) /\ (reader # "done" => Len(u) = Len(z)) /\ Numbered(u, FromReader)
    BY <1>1, <1>6, RunEmpty DEF If
  <1> HIDE DEF u
  <1>8. Len(v) = Len(inbox) + Len(u) /\ Numbered(v, delivered)
    BY <1>1, <1>2, <1>7, RunConcat DEF EventsInOrder
  <1>9. v = EventsUnderway
    BY DEF v, u, z, y, x, EventsUnderway
  <1> HIDE DEF v
  <1>10. ASSUME InUse, runtime # "ended"
         PROVE  Len(v) = emitted - delivered
    <2>1. link = "up" /\ ~HandlerGone /\ reader # "done" /\ FromRuntime + Len(emitting) = emitted
      BY <1>3, <1>10 DEF InUse, EventsInOrder
    <2>2. Len(v) = Len(inbox) + (Len(fetched) + Len(EventFrames) + (Len(writing) + Len(events) + Len(emitting)))
      BY <1>4, <1>5, <1>6, <1>7, <1>8, <2>1
    <2>3. emitted = delivered + Len(inbox) + Len(fetched) + Len(EventFrames) + Len(writing) + Len(events) + Len(emitting)
      BY <1>2, <2>1
    <2> DEFINE a == Len(inbox)  b == Len(fetched)  c == Len(EventFrames)  d == Len(writing)  e == Len(events)
               f == Len(emitting)
    <2>4. a \in Nat /\ b \in Nat /\ c \in Nat /\ d \in Nat /\ e \in Nat /\ f \in Nat /\ delivered \in Nat
      BY <1>1
    <2> HIDE DEF a, b, c, d, e, f
    <2>5. (delivered + a + b + c + d + e + f) - delivered = a + (b + c + (d + e + f))
      BY <2>4
    <2> QED BY <2>2, <2>3, <2>5, Zenon DEF a, b, c, d, e, f
  <1> QED BY <1>8, <1>9, <1>10 DEF NoEventLost

-----------------------------------------------------------------------------
(* What every piece of the pipe holds stands where its message's number    *)
(* says, and who holds a message is in the state for it.                   *)
THEOREM PipeInvariant == Spec => []PipeInv
  <1>1. Init => PipeInv
    BY PipeInvStarts
  <1>2. PipeInv /\ [Next]_vars => PipeInv'
    BY PipeInvStays
  <1> QED BY <1>1, <1>2, PTL DEF Spec

(* No channel of either process, no socket and no goroutine ever holds     *)
(* more than its capacity, whatever the other end does.                    *)
THEOREM PipeIsBounded == Spec => []PipeTypeOK
  <1>1. PipeInv => PipeTypeOK
    BY DEF PipeInv
  <1> QED BY <1>1, PipeInvariant, PTL

(* What can still come to the runtime is, in order, what the gateway sent  *)
(* and it did not take: all of it while both ends and the connection are   *)
(* in use, for channels and sockets of any depth.                          *)
THEOREM CommandsArrive == Spec => []NoCommandLost
  <1>1. PipeInv => NoCommandLost
    BY CommandsAsAWhole DEF PipeInv
  <1> QED BY <1>1, PipeInvariant, PTL

(* What can still come to the gateway is, in order, what the runtime       *)
(* emitted and the gateway did not relay: all of it while both ends and    *)
(* the connection are in use.                                              *)
THEOREM EventsArrive == Spec => []NoEventLost
  <1>1. PipeInv => NoEventLost
    BY EventsAsAWhole DEF PipeInv
  <1> QED BY <1>1, PipeInvariant, PTL

-----------------------------------------------------------------------------
(* Why a session comes to its end: what the steps of each goroutine bring  *)
(* nearer and no other step puts off.                                      *)

(* Who works has somebody to wait for: read, while the gateway may have to *)
(* wait for it, and the runtime, while the handler may.                    *)
BothRun ==
    /\ user \notin {"opening", "closed"} => reader # "off"
    /\ handler \notin {"idle", "done"} => runtime # "off"

\* What read can still do once the connection is closed.
Unread == 2 * Len(toGateway) + Len(fetched)

CloseNearer ==
    user = "waiting" =>
        \/ user' = "closed" /\ reader = "done"
        \/ /\ user' = "waiting" /\ Unread' <= Unread
           /\ reader = "done" => reader' = "done"
           /\ ReaderStep => reader' = "done" \/ Unread' < Unread

(* Close waits for read (remote.go 221-232): no step sends it back or      *)
(* gives it more to read, and each of its own steps ends it or leaves it   *)
(* less, whatever stands in the channel in front of it.                    *)
CloseComesNearer == [][CloseNearer]_vars

LEMMA BothRunStarts == Init => BothRun
  BY DEF Init, BothRun

LEMMA BothRunStays ==
  ASSUME PipeShape, BothRun, [Next]_vars
  PROVE  BothRun'
  <1> USE DEF BothRun, gatewayVars, readVars, wireVars, handlerVars, commandVars, sessionVars, runtimeVars
  <1>1. CASE GatewayStep
    BY <1>1 DEF GatewayStep, Opened, OpenFails, Sent, SendFails, Relay, SeesEnd, Leave, CloseSession,
                CloseReturns
  <1>2. CASE ReaderStep
    BY <1>2 DEF ReaderStep, Fetch, Put, PutStops, ReadFails
  <1>3. CASE HandlerStep
    BY <1>3 DEF HandlerStep, Accept, TakeCommand, Pass, PassFails, TakeEvent, WriteEvent,
                WriteEventFails, HandlerLeaves, HandlerReturns
  <1>4. CASE CommandReaderStep
    BY <1>4 DEF CommandReaderStep, Receive, Enqueue, EnqueueStops, ReceiveFails
  <1>5. CASE RuntimeStep
    BY <1>5 DEF RuntimeStep, Take, Emitted, Ends
  <1>6. CASE Choice
    BY <1>6 DEF Choice, Send, Leave, Refuse, Emit, Drop, Shutdown
  <1>7. CASE UNCHANGED vars
    BY <1>7 DEF vars
  <1> QED BY <1>1, <1>2, <1>3, <1>4, <1>5, <1>6, <1>7 DEF Next

(* Close's wait for read and the handler's for the runtime are waits for a *)
(* goroutine that was started.                                             *)
THEOREM WhoIsAwaitedRuns == Spec => []BothRun
  <1>1. PipeInv /\ BothRun /\ [Next]_vars => BothRun'
    BY BothRunStays DEF PipeInv
  <1> QED BY BothRunStarts, <1>1, PipeInvariant, PTL DEF Spec

(* Lengths, when the head is taken, a held message is added, or the end is *)
(* cut off.                                                                *)
LEMMA Lengths ==
  ASSUME NEW s \in Seq(Nat)
  PROVE  /\ Len(s) \in Nat /\ (s = <<>> => Len(s) = 0)
         /\ s # <<>> => Len(Tail(s)) = Len(s) - 1 /\ Len(<<Head(s)>>) = 1
         /\ \A t \in Seq(Nat) : Len(s \o t) = Len(s) + Len(t)
         /\ \A n \in 0..Len(s) : Len(SubSeq(s, 1, n)) = n
  <1>1. Len(s) \in Nat /\ (s = <<>> => Len(s) = 0)
    BY LenProperties, EmptySeq
  <1>2. s # <<>> => Len(Tail(s)) = Len(s) - 1 /\ Len(<<Head(s)>>) = 1
    BY RunTail
  <1>3. \A t \in Seq(Nat) : Len(s \o t) = Len(s) + Len(t)
    BY ConcatProperties
  <1>4. ASSUME NEW n \in 0..Len(s)
        PROVE  Len(SubSeq(s, 1, n)) = n
    <2>1. \A i \in 1..n : s[i] \in Nat
      BY <1>1, ElementOfSeq
    <2> QED BY <1>1, <2>1, SubSeqProperties
  <1> QED BY <1>1, <1>2, <1>3, <1>4

LEMMA BreakLengths ==
  ASSUME PipeTypeOK, Break
  PROVE  /\ Len(toAgent') \in Nat /\ Len(toAgent') <= Len(toAgent)
         /\ Len(toGateway') \in Nat /\ Len(toGateway') <= Len(toGateway)
  <1>1. toAgent \in Seq(Nat) /\ toGateway \in Seq(Nat)
    BY PipeSeqs
  <1>2. PICK k \in 0..Len(toAgent) : toAgent' = SubSeq(toAgent, 1, k)
    BY DEF Break
  <1>3. PICK n \in 0..Len(toGateway) : toGateway' = SubSeq(toGateway, 1, n)
    BY DEF Break
  <1>4. Len(toAgent') = k /\ Len(toGateway') = n /\ Len(toAgent) \in Nat /\ Len(toGateway) \in Nat
    BY <1>1, <1>2, <1>3, Lengths
  <1> QED BY <1>4

(* A goroutine that waits for read to return waits for less and less.      *)
THEOREM CloseOnlyComesNearer == Spec => CloseComesNearer
  <1>1. PipeInv /\ [Next]_vars => [CloseNearer]_vars
    <2> SUFFICES ASSUME PipeTypeOK, PipeShape, Next, user = "waiting"
                 PROVE  CloseNearer
      BY DEF PipeInv, CloseNearer
    <2> USE DEF gatewayVars, readVars, wireVars, handlerVars, commandVars, sessionVars, runtimeVars
    <2> DEFINE t == Len(toGateway)  f == Len(fetched)  u == Len(toGateway')  g == Len(fetched')
    <2>1. Unread = 2 * t + f /\ Unread' = 2 * u + g
      BY DEF Unread
    <2>2. /\ toGateway \in Seq(Nat) /\ fetched \in Seq(Nat) /\ t \in Nat /\ f \in Nat
          /\ toGateway = <<>> => t = 0
          /\ fetched = <<>> => f = 0
          /\ toGateway # <<>> => Len(Tail(toGateway)) = t - 1 /\ Len(<<Head(toGateway)>>) = 1
      BY PipeSeqs, Lengths
    <2>3. link = "down" /\ Len(<<>>) = 0 /\ (fetched # <<>> <=> reader = "putting")
      BY RunEmpty DEF PipeShape
    <2>4. fetched # <<>> => t \in Nat /\ f \in Nat \ {0}
      <3>1. fetched # <<>> => f # 0
        BY <2>2, EmptySeq
      <3> QED BY <2>2, <3>1
    <2> HIDE DEF t, f, u, g
    <2>5. CASE CloseReturns
      BY <2>5 DEF CloseReturns, CloseNearer
    <2>6. CASE Fetch
      <3>1. u = t - 1 /\ g = 1 /\ f = 0 /\ user' = "waiting" /\ reader = "reading"
        BY <2>2, <2>3, <2>6 DEF Fetch, u, g
      <3>2. Unread' < Unread
        BY <2>1, <2>2, <3>1
      <3>3. Unread' <= Unread
        BY <2>1, <2>2, <3>1
      <3> QED BY <3>1, <3>2, <3>3 DEF CloseNearer
    <2>7. CASE Put \/ PutStops
      <3>1. u = t /\ g = 0 /\ f \in Nat \ {0} /\ user' = "waiting" /\ reader = "putting"
        BY <2>3, <2>4, <2>7 DEF Put, PutStops, u, g, t
      <3>2. Unread' < Unread
        BY <2>1, <2>2, <3>1
      <3>3. Unread' <= Unread
        BY <2>1, <2>2, <3>1
      <3> QED BY <3>1, <3>2, <3>3 DEF CloseNearer
    <2>8. CASE ReadFails
      <3>1. u = 0 /\ g = f /\ user' = "waiting" /\ reader' = "done"
        BY <2>3, <2>8 DEF ReadFails, u, g, f
      <3>2. Unread' <= Unread
        BY <2>1, <2>2, <3>1
      <3> QED BY <3>1, <3>2 DEF CloseNearer
    <2>9. CASE ~CloseReturns /\ ~ReaderStep
      <3>1. user' = "waiting" /\ reader' = reader /\ g = f
        <4>1. CASE GatewayStep
          BY <2>9, <4>1 DEF GatewayStep, Opened, OpenFails, Sent, SendFails, Relay, SeesEnd, Leave,
                            CloseSession, g, f
        <4>2. CASE HandlerStep
          BY <4>2 DEF HandlerStep, Accept, TakeCommand, Pass, PassFails, TakeEvent, WriteEvent,
                      WriteEventFails, HandlerLeaves, HandlerReturns, g, f
        <4>3. CASE CommandReaderStep \/ RuntimeStep
          BY <4>3 DEF CommandReaderStep, Receive, Enqueue, EnqueueStops, ReceiveFails,
                      RuntimeStep, Take, Emitted, Ends, g, f
        <4>4. CASE Choice
          BY <4>4 DEF Choice, Send, Leave, Refuse, Emit, Drop, Shutdown, g, f
        <4> QED BY <2>9, <4>1, <4>2, <4>3, <4>4 DEF Next
      <3>2. u \in Nat /\ u <= t
        <4>1. CASE Break
          BY <4>1, BreakLengths DEF u, t
        <4>2. CASE ~Break
          <5>1. UNCHANGED toGateway
            <6>1. CASE GatewayStep
              BY <2>9, <4>2, <6>1 DEF GatewayStep, Opened, OpenFails, Sent, SendFails, Relay, SeesEnd,
                                      Leave, CloseSession
            <6>2. CASE HandlerStep
              BY <2>3, <4>2, <6>2 DEF HandlerStep, Accept, TakeCommand, Pass, PassFails, TakeEvent,
                                      WriteEvent, WriteEventFails, HandlerLeaves, HandlerReturns
            <6>3. CASE CommandReaderStep \/ RuntimeStep
              BY <6>3 DEF CommandReaderStep, Receive, Enqueue, EnqueueStops, ReceiveFails,
                          RuntimeStep, Take, Emitted, Ends
            <6>4. CASE Choice
              BY <4>2, <6>4 DEF Choice, Send, Leave, Refuse, Emit, Drop, Shutdown
            <6> QED BY <2>9, <6>1, <6>2, <6>3, <6>4 DEF Next
          <5> QED BY <2>2, <5>1 DEF u, t
        <4> QED BY <4>1, <4>2
      <3>3. Unread' <= Unread
        BY <2>1, <2>2, <3>1, <3>2
      <3> QED BY <2>9, <3>1, <3>3 DEF CloseNearer
    <2> QED BY <2>5, <2>6, <2>7, <2>8, <2>9 DEF ReaderStep
  <1> QED BY <1>1, PipeInvariant, PTL DEF Spec, CloseComesNearer

\* What the runtime of a session that is being closed can still do: take what
\* input holds, fill events, and end.
RuntimeAhead ==
    Len(input) + 2 * (QueueDepth - Len(events))
        + (CASE runtime = "ready" -> 2 [] runtime = "emitting" -> 1 [] OTHER -> 0)

WindsDown ==
    handler = "closing" =>
        /\ handler' \in {"closing", "done"}
        /\ RuntimeAhead' <= RuntimeAhead
        /\ RuntimeStep \/ Emit => RuntimeAhead' < RuntimeAhead

(* A handler that closes its session waits for the runtime (factory.go     *)
(* 104-109) and never goes back into its loop.  Nobody gives this runtime  *)
(* commands any more or takes its events: every step of it, events it      *)
(* still emits included, uses up what the two channels had left for it,    *)
(* which is limited by their capacity alone, whatever was sent before.     *)
SessionWindsDown == [][WindsDown]_vars

(* Every session that a handler closes has only so much left to do as its  *)
(* channels have room for.                                                 *)
THEOREM ClosedSessionWindsDown == Spec => SessionWindsDown
  <1>1. PipeInv /\ [Next]_vars => [WindsDown]_vars
    <2> SUFFICES ASSUME PipeTypeOK, PipeShape, Next, handler = "closing"
                 PROVE  WindsDown
      BY DEF PipeInv, WindsDown
    <2> USE DEF gatewayVars, readVars, wireVars, handlerVars, commandVars, sessionVars, runtimeVars
    <2> DEFINE Rank(r) == CASE r = "ready" -> 2 [] r = "emitting" -> 1 [] OTHER -> 0
               i == Len(input)   e == Len(events)   j == Len(input')  f == Len(events')
    <2>1. /\ RuntimeAhead = i + 2 * (QueueDepth - e) + Rank(runtime)
          /\ RuntimeAhead' = j + 2 * (QueueDepth - f) + Rank(runtime')
      BY DEF RuntimeAhead
    <2>2. /\ i \in Nat /\ e \in Nat /\ QueueDepth \in Nat
          /\ input # <<>> => Len(Tail(input)) = i - 1
          /\ Len(events \o emitting) = e + Len(emitting)
      BY PipeAssumption, PipeSeqs, Lengths
    <2>3. /\ Rank("ready") = 2 /\ Rank("emitting") = 1 /\ Rank("ended") = 0
          /\ \A r : Rank(r) \in Nat
      OBVIOUS
    <2>4. runtime = "emitting" => Len(emitting) = 1
      <3> DEFINE n == Len(emitting)
      <3>1. emitting \in Seq(Messages(MaxEvents)) /\ n <= 1
        BY QueuesAreSeqs DEF PipeTypeOK
      <3>2. runtime = "emitting" => n # 0 /\ n \in Nat
        BY <3>1, EmptySeq, LenProperties DEF PipeShape
      <3>3. runtime = "emitting" => n = 1
        <4> HIDE DEF n
        <4> QED BY <3>1, <3>2
      <3> QED BY <3>3
    <2> HIDE DEF Rank, i, e, j, f
    <2>5. CASE Take
      <3>1. j = i - 1 /\ f = e /\ runtime' = runtime /\ handler' = handler
        BY <2>2, <2>5 DEF Take, i, e, j, f
      <3> QED BY <2>1, <2>2, <2>3, <3>1 DEF WindsDown
    <2>6. CASE Emitted
      <3>1. j = i /\ f = e + 1 /\ runtime = "emitting" /\ runtime' \in {"ready", "ended"} /\ handler' = handler
        BY <2>2, <2>4, <2>6 DEF Emitted, i, e, j, f
      <3> QED BY <2>1, <2>2, <2>3, <3>1 DEF WindsDown
    <2>7. CASE Ends
      <3>1. j = i /\ f = e /\ runtime \in {"ready", "emitting"} /\ runtime' = "ended" /\ handler' = handler
        BY <2>7 DEF Ends, i, e, j, f
      <3> QED BY <2>1, <2>2, <2>3, <3>1 DEF WindsDown
    <2>8. CASE Emit
      <3>1. j = i /\ f = e /\ runtime = "ready" /\ runtime' = "emitting" /\ handler' = handler
        BY <2>8 DEF Emit, i, e, j, f
      <3> QED BY <2>1, <2>2, <2>3, <3>1 DEF WindsDown
    <2>9. CASE ~RuntimeStep /\ ~Emit
      <3>1. UNCHANGED <<input, events, runtime>> /\ handler' \in {"closing", "done"}
        <4>1. CASE GatewayStep \/ ReaderStep
          BY <4>1 DEF GatewayStep, Opened, OpenFails, Sent, SendFails, Relay, SeesEnd, Leave,
                      CloseSession, CloseReturns, ReaderStep, Fetch, Put, PutStops, ReadFails
        <4>2. CASE HandlerStep
          BY <4>2 DEF HandlerStep, Accept, TakeCommand, Pass, PassFails, TakeEvent, WriteEvent,
                      WriteEventFails, HandlerLeaves, HandlerReturns
        <4>3. CASE CommandReaderStep
          BY <4>3 DEF CommandReaderStep, Receive, Enqueue, EnqueueStops, ReceiveFails
        <4>4. CASE Choice
          BY <2>9, <4>4 DEF Choice, Send, Leave, Refuse, Drop, Shutdown
        <4> QED BY <2>9, <4>1, <4>2, <4>3, <4>4 DEF Next
      <3>2. j = i /\ f = e
        BY <3>1 DEF i, e, j, f
      <3> QED BY <2>1, <2>2, <2>3, <2>9, <3>1, <3>2 DEF WindsDown
    <2> QED BY <2>5, <2>6, <2>7, <2>8, <2>9 DEF RuntimeStep
  <1> QED BY <1>1, PipeInvariant, PTL DEF Spec, SessionWindsDown

-----------------------------------------------------------------------------
(* The gateway.                                                            *)

(* The initial states satisfy the inductive invariant. *)
LEMMA GatewayInitInv == GatewayInit => GatewayInv
  <1> SUFFICES ASSUME GatewayInit PROVE GatewayInv
    OBVIOUS
  <1> USE GatewayAssumption DEF GatewayInit
  <1>1. GatewayTypeOK
    BY DEF GatewayTypeOK, Asking, Running, Ending, NoOne, Closed
  <1>2. SlotsHaveRoom
    BY FS_EmptySet DEF SlotsHaveRoom
  <1>3. BooksAgree /\ HeldInTime /\ ClosedByClose
    BY DEF BooksAgree, HeldInTime, ClosedByClose, Registered, Running, Stopping, NoOne
  <1>4. AdmittedKnown /\ IdentityStaysOnV2
    BY DEF AdmittedKnown, IdentityStaysOnV2, NoOne
  <1> QED BY <1>1, <1>2, <1>3, <1>4 DEF GatewayInv

(* What an action does with a stage. *)
LEMMA MoveStages ==
  ASSUME GatewayTypeOK, NEW c \in Clients, NEW from, NEW to, Move(c, from, to),
         to \in Asking \cup Running \cup Ending
  PROVE  /\ stage[c] \in from /\ stage'[c] = to
         /\ \A d \in Clients \ {c} : stage'[d] = stage[d]
         /\ stage' \in [Clients -> Asking \cup Running \cup Ending]
  BY DEF GatewayTypeOK, Move

(* The steps of the request: the slot, the upgrade, the registration. *)
LEMMA RequestInv ==
  ASSUME GatewayInv, NEW c \in Clients, Request(c) \/ Admit(c) \/ Upgrade(c) \/ Register(c)
  PROVE  GatewayInv'
  <1> USE GatewayAssumption DEF GatewayInv, requestVars, socketVars
  <1>1. CASE Request(c)
    <2>1. PICK to \in {"asking", "done"} : Move(c, {"none"}, to)
      BY <1>1 DEF Request
    <2>2. /\ stage[c] = "none" /\ stage'[c] = to
          /\ \A d \in Clients \ {c} : stage'[d] = stage[d]
          /\ stage' \in [Clients -> Asking \cup Running \cup Ending]
      BY <2>1, MoveStages DEF Asking, Ending
    <2>3. GatewayTypeOK'
      BY <1>1, <2>2 DEF Request, GatewayTypeOK
    <2>4. SlotsHaveRoom' /\ BooksAgree'
      BY <1>1, <2>2 DEF Request, SlotsHaveRoom, BooksAgree, Registered, Running
    <2>5. HeldInTime' /\ ClosedByClose'
      BY <1>1, <2>2 DEF Request, HeldInTime, ClosedByClose, Registered, Running, Stopping, GatewayTypeOK
    <2>6. AdmittedKnown' /\ IdentityStaysOnV2'
      BY <1>1, <2>2 DEF Request, HeldInTime, AdmittedKnown, IdentityStaysOnV2, GatewayTypeOK
    <2> QED BY <2>3, <2>4, <2>5, <2>6
  <1>2. CASE Admit(c)
    <2>1. PICK to \in {"upgrading", "done"} :
            /\ Move(c, {"asking"}, to)
            /\ IF to = "done" THEN slots' = slots
               ELSE Cardinality(slots) < MaxSessions /\ slots' = slots \cup {c}
      BY <1>2 DEF Admit
    <2>2. /\ stage[c] = "asking" /\ stage'[c] = to
          /\ \A d \in Clients \ {c} : stage'[d] = stage[d]
          /\ stage' \in [Clients -> Asking \cup Running \cup Ending]
      BY <2>1, MoveStages DEF Asking, Ending
    <2>3. PICK p \in {"device", "account", principal[c]} :
            /\ version[c] = "v2" => p \in {"device", "account"}
            /\ principal' = [principal EXCEPT ![c] = p]
      BY <1>2 DEF Admit
    <2>4. GatewayTypeOK'
      BY <1>2, <2>1, <2>2, <2>3 DEF Admit, GatewayTypeOK
    <2>5. SlotsHaveRoom'
      <3>1. IsFiniteSet(slots) /\ Cardinality(slots) \in Nat /\ Cardinality(slots) <= MaxSessions
        BY FS_CardinalityType DEF SlotsHaveRoom
      <3>2. CASE slots' = slots
        BY <3>1, <3>2 DEF SlotsHaveRoom
      <3>3. CASE Cardinality(slots) < MaxSessions /\ slots' = slots \cup {c}
        <4>1. /\ IsFiniteSet(slots')
              /\ Cardinality(slots') \in {Cardinality(slots), Cardinality(slots) + 1}
          BY <3>1, <3>3, FS_AddElement
        <4> QED BY <3>1, <3>3, <4>1 DEF SlotsHaveRoom
      <3> QED BY <2>1, <3>2, <3>3
    <2>6. BooksAgree'
      BY <1>2, <2>1, <2>2 DEF Admit, BooksAgree, Registered, Running
    <2>7. HeldInTime' /\ ClosedByClose'
      BY <1>2, <2>2 DEF Admit, HeldInTime, ClosedByClose, Registered, Running, Stopping, GatewayTypeOK
    <2>8. AdmittedKnown' /\ IdentityStaysOnV2'
      BY <1>2, <2>2, <2>3 DEF Admit, HeldInTime, AdmittedKnown, IdentityStaysOnV2, GatewayTypeOK
    <2> QED BY <2>4, <2>5, <2>6, <2>7, <2>8
  <1>3. CASE Upgrade(c)
    <2>1. PICK to \in {"upgraded", "freeing"} :
            /\ Move(c, {"upgrading"}, to)
            /\ sockets' = IF to = "upgraded" THEN sockets \cup {c} ELSE sockets
      BY <1>3 DEF Upgrade
    <2>2. /\ stage[c] = "upgrading" /\ stage'[c] = to
          /\ \A d \in Clients \ {c} : stage'[d] = stage[d]
          /\ stage' \in [Clients -> Asking \cup Running \cup Ending]
      BY <2>1, MoveStages DEF Asking, Ending
    <2>3. GatewayTypeOK'
      BY <1>3, <2>1, <2>2 DEF Upgrade, GatewayTypeOK
    <2>4. SlotsHaveRoom' /\ BooksAgree'
      BY <1>3, <2>2 DEF Upgrade, SlotsHaveRoom, BooksAgree, Registered, Running
    <2>5. HeldInTime' /\ ClosedByClose'
      BY <1>3, <2>1, <2>2 DEF Upgrade, HeldInTime, ClosedByClose, Registered, Running, Stopping, GatewayTypeOK
    <2>6. AdmittedKnown' /\ IdentityStaysOnV2'
      BY <1>3, <2>2 DEF Upgrade, AdmittedKnown, IdentityStaysOnV2
    <2> QED BY <2>3, <2>4, <2>5, <2>6
  <1>4. CASE Register(c)
    <2>1. PICK to \in {"starting", "freeing"} :
            /\ Move(c, {"upgraded"}, to)
            /\ to = "freeing" <=> Stopping
      BY <1>4 DEF Register
    <2>2. /\ stage[c] = "upgraded" /\ stage'[c] = to
          /\ \A d \in Clients \ {c} : stage'[d] = stage[d]
          /\ stage' \in [Clients -> Asking \cup Running \cup Ending]
      BY <2>1, MoveStages DEF Ending, Running
    <2>3. GatewayTypeOK'
      BY <1>4, <2>2 DEF Register, GatewayTypeOK
    <2>4. SlotsHaveRoom' /\ BooksAgree'
      BY <1>4, <2>1, <2>2 DEF Register, SlotsHaveRoom, BooksAgree, Registered, Running
    <2>5. HeldInTime' /\ ClosedByClose'
      BY <1>4, <2>1, <2>2 DEF Register, HeldInTime, ClosedByClose, Registered, Running, Stopping, GatewayTypeOK
    <2>6. AdmittedKnown' /\ IdentityStaysOnV2'
      BY <1>4, <2>2 DEF Register, AdmittedKnown, IdentityStaysOnV2
    <2> QED BY <2>3, <2>4, <2>5, <2>6
  <1> QED BY <1>1, <1>2, <1>3, <1>4

(* A session that waits or works has its books unchanged, whatever it does *)
(* next; it has no agent before it opened one.                             *)
LEMMA GoesOnInv ==
  ASSUME GatewayInv, GoesOn, UNCHANGED session, inbound' \in [Clients -> 0..InboundDepth],
         NEW c \in Clients, NEW from, NEW to, Move(c, from, to),
         \/ from \subseteq {"starting"} /\ to \in {"starting", "opening", "leaving"}
         \/ from \subseteq {"starting", "serving"} /\ to = "leaving"
         \/ from \subseteq {"serving", "busy"} /\ to \in {"serving", "busy", "leaving"}
  PROVE  GatewayInv'
  <1> USE GatewayAssumption DEF GatewayInv, GoesOn, requestVars
  <1>1. /\ stage[c] \in from /\ stage'[c] = to
        /\ \A d \in Clients \ {c} : stage'[d] = stage[d]
        /\ stage' \in [Clients -> Asking \cup Running \cup Ending]
    <2>1. to \in Asking \cup Running \cup Ending
      BY DEF Running, Ending
    <2> QED BY <2>1, MoveStages
  <1>2. GatewayTypeOK'
    BY <1>1 DEF GatewayTypeOK
  <1>3. SlotsHaveRoom' /\ BooksAgree'
    BY <1>1 DEF SlotsHaveRoom, BooksAgree, Registered, Running
  <1>4. HeldInTime' /\ ClosedByClose'
    BY <1>1 DEF HeldInTime, ClosedByClose, Registered, Running, Stopping, GatewayTypeOK
  <1>5. AdmittedKnown' /\ IdentityStaysOnV2'
    BY <1>1 DEF AdmittedKnown, IdentityStaysOnV2
  <1> QED BY <1>2, <1>3, <1>4, <1>5

(* The steps of a session that goes on. *)
LEMMA ServingInv ==
  ASSUME GatewayInv, NEW c \in Clients,
         \/ StartLate(c) \/ Notice(c) \/ PingFails(c) \/ InputCase(c)
         \/ AgentSpeaks(c) \/ WorkDone(c) \/ AgentEnded(c)
  PROVE  GatewayInv'
  <1> USE GatewayAssumption
  <1>0. inbound \in [Clients -> 0..InboundDepth]
    BY DEF GatewayInv, GatewayTypeOK
  <1>1. CASE StartLate(c) \/ Notice(c) \/ PingFails(c) \/ AgentEnded(c)
    <2>1. inbound' = inbound /\ UNCHANGED session /\ GoesOn
      BY <1>1 DEF StartLate, Notice, PingFails, AgentEnded
    <2>2. PICK from \in SUBSET {"starting", "serving"} : Move(c, from, "leaving")
      BY <1>1 DEF StartLate, Notice, PingFails, AgentEnded
    <2> QED BY <1>0, <2>1, <2>2, GoesOnInv
  <1>2. CASE Hear(c)
    <2>1. PICK to \in {"starting", "opening", "leaving"} : Move(c, {"starting"}, to)
      BY <1>2 DEF Hear
    <2>2. inbound' \in [Clients -> 0..InboundDepth] /\ UNCHANGED session /\ GoesOn
      BY <1>0, <1>2 DEF Hear
    <2> QED BY <2>1, <2>2, GoesOnInv
  <1>3. CASE TakeInput(c) \/ AgentSpeaks(c)
    <2>1. inbound' \in [Clients -> 0..InboundDepth]
      BY <1>0, <1>3 DEF TakeInput, AgentSpeaks
    <2>2. Move(c, {"serving"}, "busy") /\ UNCHANGED session /\ GoesOn
      BY <1>3 DEF TakeInput, AgentSpeaks
    <2> QED BY <2>1, <2>2, GoesOnInv
  <1>4. CASE WorkDone(c)
    <2>1. PICK to \in {"serving", "leaving"} : Move(c, {"busy"}, to)
      BY <1>4 DEF WorkDone
    <2>2. inbound' = inbound /\ UNCHANGED session /\ GoesOn
      BY <1>4 DEF WorkDone
    <2> QED BY <1>0, <2>1, <2>2, GoesOnInv
  <1> QED BY <1>1, <1>2, <1>3, <1>4 DEF InputCase

(* The agent of a session is one the client may have, and is told no more  *)
(* of the client than it may know.                                         *)
LEMMA OpenAgentInv ==
  ASSUME GatewayInv, NEW c \in Clients, OpenAgent(c)
  PROVE  GatewayInv'
  <1> USE GatewayAssumption DEF GatewayInv, requestVars, socketVars
  <1>1. CASE Move(c, {"opening"}, "leaving") /\ UNCHANGED <<session, principal>>
    <2>1. inbound \in [Clients -> 0..InboundDepth] /\ UNCHANGED <<session, inbound>> /\ GoesOn
      BY <1>1 DEF OpenAgent, GoesOn, GatewayTypeOK
    <2>2. /\ stage[c] = "opening" /\ stage'[c] = "leaving"
          /\ \A d \in Clients \ {c} : stage'[d] = stage[d]
          /\ stage' \in [Clients -> Asking \cup Running \cup Ending]
      BY <1>1, MoveStages DEF Ending
    <2>3. GatewayTypeOK'
      BY <2>1, <2>2 DEF GatewayTypeOK, GoesOn
    <2>4. SlotsHaveRoom' /\ BooksAgree' /\ HeldInTime' /\ ClosedByClose'
      BY <2>1, <2>2 DEF GoesOn, SlotsHaveRoom, BooksAgree, HeldInTime, ClosedByClose, Registered, Running, Stopping, GatewayTypeOK
    <2>5. AdmittedKnown' /\ IdentityStaysOnV2'
      BY <2>1, <2>2 DEF GoesOn, AdmittedKnown, IdentityStaysOnV2
    <2> QED BY <2>3, <2>4, <2>5
  <1>2. CASE /\ Move(c, {"opening"}, "serving")
             /\ \E a \in Offered(c) :
                  session' = [session EXCEPT ![c] = a] /\ principal' = [principal EXCEPT ![c] = Shown(c, a)]
    <2>1. PICK a \in Offered(c) :
            session' = [session EXCEPT ![c] = a] /\ principal' = [principal EXCEPT ![c] = Shown(c, a)]
      BY <1>2
    <2>2. /\ stage[c] = "opening" /\ stage'[c] = "serving"
          /\ \A d \in Clients \ {c} : stage'[d] = stage[d]
          /\ stage' \in [Clients -> Asking \cup Running \cup Ending]
      BY <1>2, MoveStages DEF Running
    <2>3. a \in Agents /\ Shown(c, a) \in {NoOne, "development", "device", "account"}
      BY <2>1 DEF Offered, Shown, GatewayTypeOK
    <2>4. GatewayTypeOK'
      BY <2>1, <2>2, <2>3 DEF OpenAgent, GatewayTypeOK
    <2>5. SlotsHaveRoom' /\ BooksAgree' /\ HeldInTime' /\ ClosedByClose'
      BY <2>1, <2>2 DEF OpenAgent, SlotsHaveRoom, BooksAgree, HeldInTime, ClosedByClose, Registered, Running,
                        Stopping, GatewayTypeOK
    <2>6. AdmittedKnown'
      BY <2>1, <2>2 DEF OpenAgent, AdmittedKnown, GatewayTypeOK
    <2>7. IdentityStaysOnV2'
      <3>1. session'[c] = a /\ principal'[c] = Shown(c, a) /\ version' = version
        BY <2>1 DEF OpenAgent, GatewayTypeOK
      <3>2. AgentProtocol[a] = "v2" => version[c] = "v2" /\ principal[c] \in {"device", "account"}
        BY <2>1, <2>2 DEF Offered, AdmittedKnown
      <3>3. \A d \in Clients \ {c} : session'[d] = session[d] /\ principal'[d] = principal[d]
        BY <2>1 DEF GatewayTypeOK
      <3> QED BY <3>1, <3>2, <3>3 DEF IdentityStaysOnV2, Shown
    <2> QED BY <2>4, <2>5, <2>6, <2>7
  <1> QED BY <1>1, <1>2 DEF OpenAgent

(* The deferred calls, in their order. *)
LEMMA EndInv ==
  ASSUME GatewayInv, NEW c \in Clients,
         Cancel(c) \/ CloseAgent(c) \/ Unregister(c) \/ FreeSlot(c)
  PROVE  GatewayInv'
  <1> USE GatewayAssumption DEF GatewayInv, requestVars, socketVars
  <1>0. PICK step \in {<<"leaving", "closing">>, <<"closing", "joining">>,
                       <<"joining", "freeing">>, <<"freeing", "done">>} :
          /\ stage[c] = step[1] /\ stage'[c] = step[2]
          /\ \A d \in Clients \ {c} : stage'[d] = stage[d]
          /\ stage' \in [Clients -> Asking \cup Running \cup Ending]
    <2>1. /\ Cancel(c) => Move(c, {"leaving"}, "closing")
          /\ CloseAgent(c) => Move(c, {"closing"}, "joining")
          /\ Unregister(c) => Move(c, {"joining"}, "freeing")
          /\ FreeSlot(c) => Move(c, {"freeing"}, "done")
      BY DEF Cancel, CloseAgent, Unregister, FreeSlot
    <2> QED BY <2>1, MoveStages DEF Ending
  <1>1. CASE Cancel(c)
    <2>1. step = <<"leaving", "closing">>
      BY <1>0, <1>1 DEF Cancel, Move
    <2>2. GatewayTypeOK'
      BY <1>0, <1>1 DEF Cancel, GatewayTypeOK
    <2>3. SlotsHaveRoom' /\ BooksAgree' /\ HeldInTime' /\ ClosedByClose'
      BY <1>0, <1>1, <2>1 DEF Cancel, SlotsHaveRoom, BooksAgree, HeldInTime, ClosedByClose, Registered, Running,
                        Stopping, GatewayTypeOK
    <2>4. AdmittedKnown' /\ IdentityStaysOnV2'
      BY <1>0, <1>1, <2>1 DEF Cancel, AdmittedKnown, IdentityStaysOnV2
    <2> QED BY <2>2, <2>3, <2>4
  <1>2. CASE CloseAgent(c)
    <2>1. step = <<"closing", "joining">>
      BY <1>0, <1>2 DEF CloseAgent, Move
    <2>2. /\ \A d \in Clients \ {c} : session'[d] = session[d]
          /\ session'[c] \in {NoOne, Closed} /\ session'[c] \notin Agents
          /\ session' \in [Clients -> Agents \cup {NoOne, Closed}]
      BY <1>2 DEF CloseAgent, GatewayTypeOK, NoOne, Closed
    <2>3. GatewayTypeOK'
      BY <1>0, <1>2, <2>2 DEF CloseAgent, CloseSocket, GatewayTypeOK
    <2>4. SlotsHaveRoom' /\ BooksAgree' /\ HeldInTime' /\ ClosedByClose'
      BY <1>0, <1>2, <2>1, <2>2 DEF CloseAgent, CloseSocket, SlotsHaveRoom, BooksAgree, HeldInTime,
                        ClosedByClose, Registered, Running, Stopping, GatewayTypeOK
    <2>5. AdmittedKnown' /\ IdentityStaysOnV2'
      BY <1>0, <1>2, <2>1, <2>2 DEF CloseAgent, AdmittedKnown, IdentityStaysOnV2
    <2> QED BY <2>3, <2>4, <2>5
  <1>3. CASE Unregister(c)
    <2>1. step = <<"joining", "freeing">>
      BY <1>0, <1>3 DEF Unregister, Move
    <2>2. GatewayTypeOK'
      BY <1>0, <1>3 DEF Unregister, GatewayTypeOK
    <2>3. SlotsHaveRoom' /\ BooksAgree' /\ HeldInTime' /\ ClosedByClose'
      BY <1>0, <1>3, <2>1 DEF Unregister, SlotsHaveRoom, BooksAgree, HeldInTime, ClosedByClose, Registered,
                        Running, Stopping, GatewayTypeOK
    <2>4. AdmittedKnown' /\ IdentityStaysOnV2'
      BY <1>0, <1>3, <2>1 DEF Unregister, AdmittedKnown, IdentityStaysOnV2
    <2> QED BY <2>2, <2>3, <2>4
  <1>4. CASE FreeSlot(c)
    <2>1. step = <<"freeing", "done">>
      BY <1>0, <1>4 DEF FreeSlot, Move
    <2>2. GatewayTypeOK'
      BY <1>0, <1>4 DEF FreeSlot, GatewayTypeOK
    <2>3. SlotsHaveRoom'
      BY <1>4, FS_Subset, FS_CardinalityType DEF FreeSlot, SlotsHaveRoom
    <2>4. BooksAgree' /\ HeldInTime' /\ ClosedByClose'
      BY <1>0, <1>4, <2>1 DEF FreeSlot, BooksAgree, HeldInTime, ClosedByClose, Registered, Running, Stopping, GatewayTypeOK
    <2>5. AdmittedKnown' /\ IdentityStaysOnV2'
      BY <1>0, <1>4, <2>1 DEF FreeSlot, AdmittedKnown, IdentityStaysOnV2
    <2> QED BY <2>2, <2>3, <2>4, <2>5
  <1> QED BY <1>1, <1>2, <1>3, <1>4

(* The reader of a client lives as long as the client is registered. *)
LEMMA ListenerInv ==
  ASSUME GatewayInv, NEW c \in Clients, ListenerStep(c) \/ Listen(c)
  PROVE  GatewayInv'
  <1> USE GatewayAssumption DEF GatewayInv, requestVars
  <1>1. PICK from \in {"reading", "putting"}, to \in {"reading", "putting", "done"} :
          ListenerMoves(c, from, to)
    BY DEF ListenerStep, Listen, Push, PushStops, ListenFails
  <1>2. inbound' \in [Clients -> 0..InboundDepth] /\ cancelled' \subseteq Clients
    BY DEF ListenerStep, Listen, Push, PushStops, ListenFails, GatewayTypeOK
  <1>3. GatewayTypeOK'
    BY <1>1, <1>2 DEF ListenerMoves, GatewayTypeOK
  <1>4. SlotsHaveRoom' /\ BooksAgree' /\ HeldInTime' /\ ClosedByClose'
    BY <1>1 DEF ListenerMoves, SlotsHaveRoom, BooksAgree, HeldInTime, ClosedByClose, Stopping, GatewayTypeOK
  <1>5. AdmittedKnown' /\ IdentityStaysOnV2'
    BY <1>1 DEF ListenerMoves, AdmittedKnown, IdentityStaysOnV2
  <1> QED BY <1>3, <1>4, <1>5

(* The client's leaving, and Close, which leaves no registered socket and  *)
(* returns nil when nobody is registered any more.                         *)
LEMMA CloseInv ==
  ASSUME GatewayInv, (\E c \in Clients : ClientLeaves(c)) \/ Stop \/ StopReturns
  PROVE  GatewayInv'
  <1> USE GatewayAssumption DEF GatewayInv, requestVars, socketVars
  <1>1. /\ UNCHANGED <<stage, slots, connections, group, version, principal, listener, session>>
        /\ sockets' \subseteq sockets
    BY DEF ClientLeaves, Stop, StopReturns
  <1>2. GatewayTypeOK'
    BY DEF ClientLeaves, Stop, StopReturns, GatewayTypeOK
  <1>3. SlotsHaveRoom' /\ BooksAgree' /\ HeldInTime' /\ AdmittedKnown' /\ IdentityStaysOnV2'
    BY <1>1 DEF SlotsHaveRoom, BooksAgree, HeldInTime, AdmittedKnown, IdentityStaysOnV2
  <1>4. ClosedByClose'
    <2>1. CASE \E c \in Clients : ClientLeaves(c)
      BY <2>1 DEF ClientLeaves, ClosedByClose, Stopping
    <2>2. CASE Stop
      <3>1. \A c \in sockets' : c \in Clients /\ stage[c] = "upgraded"
        BY <2>2 DEF Stop, BooksAgree, HeldInTime, Registered, GatewayTypeOK
      <3> QED BY <1>1, <2>2, <3>1 DEF Stop, ClosedByClose
    <2>3. CASE StopReturns
      BY <2>3 DEF StopReturns, ClosedByClose, Stopping
    <2> QED BY <2>1, <2>2, <2>3
  <1> QED BY <1>2, <1>3, <1>4

(* Every step preserves the inductive invariant. *)
LEMMA GatewayNextInv == GatewayInv /\ [GatewayNext]_gatewayStateVars => GatewayInv'
  <1> SUFFICES ASSUME GatewayInv, [GatewayNext]_gatewayStateVars PROVE GatewayInv'
    OBVIOUS
  <1>1. CASE UNCHANGED gatewayStateVars
    BY <1>1 DEF gatewayStateVars, requestVars, socketVars, GatewayInv, GatewayTypeOK, SlotsHaveRoom, BooksAgree,
                HeldInTime, ClosedByClose, AdmittedKnown, IdentityStaysOnV2, Stopping
  <1>2. CASE Stop \/ StopReturns
    BY <1>2, CloseInv
  <1>3. ASSUME NEW c \in Clients,
               \/ SessionStep(c) \/ Notice(c) \/ InputCase(c) \/ StartLate(c)
               \/ ListenerStep(c) \/ OutsideStep(c)
        PROVE  GatewayInv'
    BY <1>3, RequestInv, ServingInv, OpenAgentInv, EndInv, ListenerInv, CloseInv DEF SessionStep, OutsideStep
  <1> QED BY <1>1, <1>2, <1>3 DEF GatewayNext

(* The inductive invariant holds in every reachable state. *)
THEOREM GatewayInvariant == GatewaySpec => []GatewayInv
  BY GatewayInitInv, GatewayNextInv, PTL DEF GatewaySpec

(* After Close no socket is left that nothing will close, and once it has  *)
(* returned nil no goroutine or agent session of a registered client.      *)
THEOREM NothingIsLeftOpen == GatewaySpec => []StoppedIsClosed
  <1>1. ASSUME GatewayInv PROVE StoppedIsClosed
    <2> USE <1>1 DEF GatewayInv
    <2>1. ASSUME closer = "returned", NEW c \in Clients
          PROVE  /\ stage[c] \notin Registered
                 /\ listener[c] \in {"off", "done"}
                 /\ session[c] \in {NoOne, Closed}
      <3>1. stage[c] \notin Registered
        BY <2>1 DEF ClosedByClose, BooksAgree
      <3> QED BY <2>1, <3>1 DEF HeldInTime, GatewayTypeOK, Registered, Running
    <2> QED BY <2>1 DEF StoppedIsClosed, ClosedByClose, Registered
  <1> QED BY <1>1, GatewayInvariant, PTL

(* The slots, never more than there are, the map and the wait group agree  *)
(* with the sessions, and who has left them has nothing open.              *)
THEOREM BooksFollowSessions == GatewaySpec => []CleanedUp
  <1>1. ASSUME GatewayInv PROVE CleanedUp
    <2> USE <1>1 DEF GatewayInv
    <2>1. ASSUME NEW c \in Clients, stage[c] \in {"joining", "freeing", "done"}
          PROVE  c \notin sockets /\ session[c] \in {NoOne, Closed}
      BY <2>1 DEF HeldInTime, GatewayTypeOK, Running
    <2>2. ASSUME NEW c \in Clients
          PROVE  /\ c \in connections <=> stage[c] \in Registered
                 /\ c \in slots <=> stage[c] \in Registered \cup {"upgrading", "upgraded", "freeing"}
      BY DEF BooksAgree
    <2> QED BY <2>1, <2>2 DEF CleanedUp, SlotsHaveRoom, BooksAgree, Registered
  <1> QED BY <1>1, GatewayInvariant, PTL

(* The identity of a client goes to agents of v2 only, and these serve     *)
(* clients of v2 only, whatever the catalogue.                             *)
THEOREM IdentityIsForV2 == GatewaySpec => []IdentityStaysOnV2
  <1>1. GatewayInv => IdentityStaysOnV2
    BY DEF GatewayInv
  <1> QED BY <1>1, GatewayInvariant, PTL

-----------------------------------------------------------------------------
(* Why the slots come back: how far a client is from its last stage, and   *)
(* what its reader has for its session.  A session that serves and one that *)
(* is busy are as far.                                                     *)
StagesAhead(st) ==
    CASE st = "none" -> 11 [] st = "asking" -> 10 [] st = "upgrading" -> 9 [] st = "upgraded" -> 8
      [] st = "starting" -> 7 [] st = "opening" -> 6 [] st \in {"serving", "busy"} -> 5
      [] st = "leaving" -> 4 [] st = "closing" -> 3 [] st = "joining" -> 2 [] st = "freeing" -> 1
      [] OTHER -> 0

ToHear(n, l) == n + (CASE l = "putting" -> 3 [] l = "reading" -> 1 [] OTHER -> 0)

AtStage(c) == StagesAhead(stage'[c]) = StagesAhead(stage[c])

Closer(c) ==
    \/ StagesAhead(stage'[c]) < StagesAhead(stage[c])
    \/ AtStage(c) /\ ToHear(inbound'[c], listener'[c]) < ToHear(inbound[c], listener[c])

AsFar(c) == AtStage(c) /\ ToHear(inbound'[c], listener'[c]) = ToHear(inbound[c], listener[c])

Onward(c) ==
    SessionStep(c) \/ Notice(c) \/ InputCase(c) \/ StartLate(c) \/ ListenerStep(c)

EndNearer ==
    \A c \in Clients : c \in gone \/ Stopping =>
        /\ \/ Closer(c) \/ AsFar(c)
           \/ c \notin gone /\ Listen(c) /\ AtStage(c)
        /\ Onward(c) => Closer(c) \/ (WorkDone(c) /\ AsFar(c))

(* Once the client is gone or the gateway stops, no step of anybody takes   *)
(* its session a stage back or gives it more to hear, but for what a socket *)
(* that Close closed still has buffered.  And each step of its goroutine or *)
(* its reader brings its slot nearer to being free, but for the return from *)
(* a send or a write to the select (agent_handler.go 159, 189, 215).  There *)
(* the done context and the agent's next event are chosen from at random:  *)
(* that is the one way to stay (agent_handler.go 64-71, 88-100, 231-247).  *)
EndComesNearer == [][EndNearer]_gatewayStateVars

(* The handler waits for its reader at the end (agent_handler.go 68-71),   *)
(* which was started, and whose context was cancelled by then; and a reader *)
(* that has ended has cancelled the handler's.                             *)
ReaderIsTold ==
    \A c \in Clients : /\ stage[c] \in Registered => listener[c] # "off"
                       /\ stage[c] \in {"closing", "joining"} => c \in cancelled
                       /\ listener[c] = "done" => c \in cancelled

LEMMA ReaderIsToldStays ==
  ASSUME GatewayInv, ReaderIsTold, [GatewayNext]_gatewayStateVars
  PROVE  ReaderIsTold'
  <1> USE DEF requestVars, socketVars
  <1> GatewayTypeOK
    BY DEF GatewayInv
  <1>1. ASSUME NEW c \in Clients, Onward(c) \/ OutsideStep(c), NEW d \in Clients
        PROVE  /\ stage'[d] \in Registered => listener'[d] # "off"
               /\ stage'[d] \in {"closing", "joining"} => d \in cancelled'
               /\ listener'[d] = "done" => d \in cancelled'
    <2> USE DEF ReaderIsTold, GatewayTypeOK, Registered, Running, Move
    <2>1. CASE Request(c) \/ Admit(c) \/ Upgrade(c) \/ Register(c)
      BY <2>1 DEF Request, Admit, Upgrade, Register
    <2>2. CASE StartLate(c) \/ Notice(c) \/ PingFails(c) \/ Hear(c) \/ OpenAgent(c)
      BY <2>2 DEF StartLate, Notice, PingFails, Hear, OpenAgent, GoesOn
    <2>3. CASE TakeInput(c) \/ AgentSpeaks(c) \/ WorkDone(c) \/ AgentEnded(c)
      BY <2>3 DEF TakeInput, AgentSpeaks, WorkDone, AgentEnded, GoesOn
    <2>4. CASE Cancel(c) \/ CloseAgent(c) \/ Unregister(c) \/ FreeSlot(c)
      BY <2>4 DEF Cancel, CloseAgent, Unregister, FreeSlot
    <2>5. CASE ListenerStep(c) \/ Listen(c)
      BY <2>5 DEF ListenerStep, Listen, Push, PushStops, ListenFails, ListenerMoves
    <2>6. CASE ClientLeaves(c)
      BY <2>6 DEF ClientLeaves
    <2> QED BY <1>1, <2>1, <2>2, <2>3, <2>4, <2>5, <2>6 DEF Onward, SessionStep, InputCase, OutsideStep
  <1>2. CASE Stop \/ StopReturns \/ UNCHANGED gatewayStateVars
    BY <1>2 DEF Stop, StopReturns, gatewayStateVars, ReaderIsTold
  <1> QED BY <1>1, <1>2 DEF GatewayNext, Onward, ReaderIsTold

(* The wait for the reader is never for one that was not started or not    *)
(* told to end, and the handler's select can choose to leave as soon as    *)
(* its reader has ended.                                                   *)
THEOREM ReaderIsAlwaysTold == GatewaySpec => []ReaderIsTold
  <1>1. GatewayInit => ReaderIsTold
    BY DEF GatewayInit, ReaderIsTold, Registered, Running
  <1>2. GatewayInv /\ ReaderIsTold /\ [GatewayNext]_gatewayStateVars => ReaderIsTold'
    BY ReaderIsToldStays
  <1> QED BY <1>1, <1>2, GatewayInvariant, PTL DEF GatewaySpec

(* What the client's own goroutines do, and what is asked of them. *)
LEMMA OwnStepsCloser ==
  ASSUME GatewayInv, NEW c \in Clients, c \in gone \/ Stopping,
         Onward(c) \/ Request(c) \/ PingFails(c) \/ AgentEnded(c)
  PROVE  Closer(c) \/ (WorkDone(c) /\ AsFar(c))
  <1> USE DEF requestVars, socketVars, StagesAhead, AtStage, Closer
  <1>1. /\ stage \in [Clients -> Asking \cup Running \cup Ending] /\ inbound[c] \in Nat
        /\ inbound \in [Clients -> 0..InboundDepth] /\ InboundDepth \in Nat
        /\ listener \in [Clients -> {"off", "reading", "putting", "done"}]
    BY GatewayAssumption DEF GatewayInv, GatewayTypeOK
  <1>3. CASE Request(c) \/ Admit(c) \/ Upgrade(c) \/ Register(c)
    BY <1>1, <1>3 DEF Request, Admit, Upgrade, Register, Move
  <1>4. CASE StartLate(c) \/ Notice(c) \/ PingFails(c) \/ OpenAgent(c) \/ AgentEnded(c)
    BY <1>1, <1>4 DEF StartLate, Notice, PingFails, OpenAgent, AgentEnded, Move
  <1>5. CASE InputCase(c)
    <2>1. /\ inbound'[c] = inbound[c] - 1 /\ listener'[c] = listener[c]
          /\ \/ stage[c] = "starting" /\ stage'[c] \in {"starting", "opening", "leaving"}
             \/ stage[c] = "serving" /\ stage'[c] = "busy"
      BY <1>1, <1>5 DEF InputCase, Hear, TakeInput, Move, GoesOn
    <2>2. ToHear(inbound'[c], listener'[c]) < ToHear(inbound[c], listener[c])
      BY <1>1, <2>1 DEF ToHear
    <2> QED BY <2>1, <2>2
  <1>6. CASE WorkDone(c)
    <2>1. /\ stage[c] = "busy" /\ stage'[c] \in {"serving", "leaving"}
          /\ inbound' = inbound /\ listener' = listener
      BY <1>1, <1>6 DEF WorkDone, Move, GoesOn
    <2> QED BY <1>6, <2>1 DEF AsFar
  <1>7. CASE Cancel(c) \/ CloseAgent(c) \/ Unregister(c) \/ FreeSlot(c)
    BY <1>1, <1>7 DEF Cancel, CloseAgent, Unregister, FreeSlot, Move
  <1>8. CASE ListenerStep(c)
    <2>1. stage'[c] = stage[c]
      BY <1>8 DEF ListenerStep, Push, PushStops, ListenFails, ListenerMoves
    <2>2. \/ listener[c] = "putting" /\ listener'[c] = "reading" /\ inbound'[c] = inbound[c] + 1
          \/ listener[c] \in {"putting", "reading"} /\ listener'[c] = "done" /\ inbound'[c] = inbound[c]
      BY <1>1, <1>8 DEF ListenerStep, Push, PushStops, ListenFails, ListenerMoves
    <2>3. ToHear(inbound'[c], listener'[c]) < ToHear(inbound[c], listener[c])
      BY <1>1, <2>2 DEF ToHear
    <2> QED BY <2>1, <2>3
  <1> QED BY <1>3, <1>4, <1>5, <1>6, <1>7, <1>8 DEF Onward, SessionStep

(* What the others do, the client itself and its agent among them. *)
LEMMA OtherStepsPutOffNothing ==
  ASSUME GatewayInv, NEW c \in Clients, GatewayNext,
         ~(Onward(c) \/ Request(c) \/ PingFails(c) \/ AgentEnded(c))
  PROVE  AsFar(c) \/ (c \notin gone /\ Listen(c) /\ AtStage(c))
  <1> USE DEF requestVars, socketVars, AtStage, AsFar
  <1> GatewayTypeOK
    BY DEF GatewayInv
  <1>1. CASE Listen(c)
    BY <1>1 DEF Listen, ListenerMoves
  <1>2. CASE AgentSpeaks(c)
    BY <1>2 DEF AgentSpeaks, Move, GoesOn, GatewayTypeOK, StagesAhead
  <1>3. ASSUME NEW d \in Clients, d # c, Onward(d) \/ OutsideStep(d)
        PROVE  stage'[c] = stage[c] /\ inbound'[c] = inbound[c] /\ listener'[c] = listener[c]
    <2> USE <1>3 DEF GatewayTypeOK, Move
    <2>1. CASE Request(d) \/ Admit(d) \/ Upgrade(d) \/ Register(d)
      BY <2>1 DEF Request, Admit, Upgrade, Register
    <2>2. CASE StartLate(d) \/ Notice(d) \/ PingFails(d) \/ Hear(d) \/ OpenAgent(d)
      BY <2>2 DEF StartLate, Notice, PingFails, Hear, OpenAgent, GoesOn
    <2>3. CASE TakeInput(d) \/ AgentSpeaks(d) \/ WorkDone(d) \/ AgentEnded(d)
      BY <2>3 DEF TakeInput, AgentSpeaks, WorkDone, AgentEnded, GoesOn
    <2>4. CASE Cancel(d) \/ CloseAgent(d) \/ Unregister(d) \/ FreeSlot(d)
      BY <2>4 DEF Cancel, CloseAgent, Unregister, FreeSlot
    <2>5. CASE ListenerStep(d) \/ Listen(d)
      BY <2>5 DEF ListenerStep, Listen, Push, PushStops, ListenFails, ListenerMoves
    <2>6. CASE ClientLeaves(d)
      BY <2>6 DEF ClientLeaves
    <2> QED BY <2>1, <2>2, <2>3, <2>4, <2>5, <2>6 DEF Onward, SessionStep, InputCase, OutsideStep
  <1>4. CASE ClientLeaves(c) \/ Stop \/ StopReturns
    BY <1>4 DEF ClientLeaves, Stop, StopReturns
  <1> QED BY <1>1, <1>2, <1>3, <1>4 DEF GatewayNext, Onward, OutsideStep

(* For any number of clients and slots: who has left is on the way out,    *)
(* and nothing sets it back.                                               *)
THEOREM EndOnlyComesNearer == GatewaySpec => EndComesNearer
  <1>1. GatewayInv /\ [GatewayNext]_gatewayStateVars => [EndNearer]_gatewayStateVars
    <2> SUFFICES ASSUME GatewayInv, GatewayNext, NEW c \in Clients, c \in gone \/ Stopping
                 PROVE  /\ \/ Closer(c) \/ AsFar(c)
                           \/ c \notin gone /\ Listen(c) /\ AtStage(c)
                        /\ Onward(c) => Closer(c) \/ (WorkDone(c) /\ AsFar(c))
      BY DEF EndNearer
    <2> QED BY OwnStepsCloser, OtherStepsPutOffNothing
  <1> QED BY <1>1, GatewayInvariant, PTL DEF GatewaySpec, EndComesNearer

================================================================================
