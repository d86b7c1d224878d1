-------------------------- MODULE MutationPathProofs --------------------------
(***************************************************************************)
(* PathInv is inductive, so that the safety properties of MutationPath     *)
(* hold for every number of sessions, operations and overlaps, every depth *)
(* of the pipes and whatever is asked for; and MutationPath implements     *)
(* OperationOnce.                                                          *)
(***************************************************************************)
EXTENDS MutationPath, TLAPS

(* A message taken out of a queue, and one put into it. *)
LEMMA QueueShrinks ==
    ASSUME NEW S, NEW n \in Nat, NEW q \in Queues(S, n), q # <<>>
    PROVE  /\ Head(q) \in S
           /\ Head(q) = q[1] /\ 1 \in 1..Len(q)
           /\ Tail(q) \in Queues(S, n)
           /\ \A i \in 1..Len(Tail(q)) : i + 1 \in 1..Len(q) /\ Tail(q)[i] = q[i + 1]
BY DEF Queues

LEMMA QueueGrows ==
    ASSUME NEW S, NEW n \in Nat, NEW q \in Queues(S, n), Len(q) < n, NEW e \in S
    PROVE  /\ Append(q, e) \in Queues(S, n)
           /\ \A i \in 1..Len(Append(q, e)) :
                  (i \in 1..Len(q) /\ Append(q, e)[i] = q[i]) \/ Append(q, e)[i] = e
BY DEF Queues

LEMMA QueuesOfOne ==
    ASSUME NEW S, NEW n \in Nat
    PROVE  /\ <<>> \in Queues(S, n)
           /\ \A e \in S : <<e>> \in Queues(S, 1) /\ Head(<<e>>) = e /\ <<e>> # <<>>
           /\ \A q \in Queues(S, n) : q # <<>> => Head(q) \in S
BY DEF Queues

LEMMA JobMoves ==
    ASSUME PathTypeOK, NEW s \in Sessions, NEW k \in Keys, NEW p \in Progress, JobBecomes(s, k, p)
    PROVE  /\ job' \in [Sessions -> [Keys -> Progress]]
           /\ \A o \in Sessions, i \in Keys :
                  job'[o][i] = IF o = s /\ i = k THEN p ELSE job[o][i]
BY DEF PathTypeOK, JobBecomes

LEMMA Phrases ==
    /\ {"none", "waiting", "writing", "receiving", "unknown"} \subseteq Progress
    /\ Results \subseteq Progress
BY DEF Progress, Underway

(* Every variable keeps its type, and the server its request. *)
LEMMA JobTyping ==
    ASSUME PathTypeOK, WorksForRequest, NEW s \in Sessions, NEW k \in Keys,
           Start(s, k) \/ JobStep(s, k)
    PROVE  PathTypeOK' /\ WorksForRequest'
<1> USE Phrases
<1> PipeDepth \in Nat
    BY PathAssumption
<1>1. CASE Start(s, k) \/ Acquire(s, k) \/ WriteFails(s, k) \/ ReceiveFails(s, k)
  <2>1. job' \in [Sessions -> [Keys -> Progress]]
    BY <1>1, JobMoves DEF Start, Acquire, WriteFails, ReceiveFails
  <2>2. UNCHANGED <<database, wire, process>>
    BY <1>1 DEF Start, Acquire, WriteFails, ReceiveFails
  <2> QED
    BY <2>1, <2>2 DEF PathTypeOK, WorksForRequest, database, wire, process
<1>2. CASE Expire(s, k)
  <2>1. job' \in [Sessions -> [Keys -> Progress]]
    BY <1>2, JobMoves DEF Expire, PathTypeOK
  <2>2. closing' \in [Sessions -> BOOLEAN]
    BY <1>2 DEF Expire, PathTypeOK, wire
  <2>3. UNCHANGED <<database, client, stdin, stdout, responses, process>>
    BY <1>2 DEF Expire, wire
  <2> QED
    BY <2>1, <2>2, <2>3 DEF PathTypeOK, WorksForRequest, database, process
<1>3. CASE Write(s, k)
  <2>1. stdin[s] \in Queues(Keys, PipeDepth) /\ Len(stdin[s]) < PipeDepth
    BY <1>3 DEF Write, PathTypeOK
  <2>2. Append(stdin[s], k) \in Queues(Keys, PipeDepth)
    BY <2>1, QueueGrows
  <2>3. stdin' \in [Sessions -> Queues(Keys, PipeDepth)]
    BY <1>3, <2>2 DEF Write, PathTypeOK
  <2>4. job' \in [Sessions -> [Keys -> Progress]]
    BY <1>3, JobMoves DEF Write
  <2> QED
    BY <1>3, <2>3, <2>4 DEF Write, PathTypeOK, WorksForRequest, database, process
<1>4. CASE Receive(s, k)
  <2>1. responses[s] \in Queues(Responses, PipeDepth) /\ responses[s] # <<>>
    BY <1>4 DEF Receive, PathTypeOK
  <2>2. /\ Head(responses[s]) \in Responses
        /\ Tail(responses[s]) \in Queues(Responses, PipeDepth)
    BY <2>1, QueueShrinks
  <2>3. Taken(k, Head(responses[s])) \in Progress
    BY <2>2 DEF Taken, Responses
  <2>4. job' \in [Sessions -> [Keys -> Progress]]
    BY <1>4, <2>3, JobMoves DEF Receive
  <2> QED
    BY <1>4, <2>2, <2>4 DEF Receive, PathTypeOK, WorksForRequest, database, process
<1> QED
  BY <1>1, <1>2, <1>3, <1>4 DEF JobStep

LEMMA ProcessTyping ==
    ASSUME PathTypeOK, WorksForRequest, NEW s \in Sessions,
           Close(s) \/ Read(s) \/ ServerStep(s) \/ SessionEnds(s) \/ Crash(s)
    PROVE  PathTypeOK' /\ WorksForRequest'
<1> PipeDepth \in Nat
    BY PathAssumption
<1> /\ <<>> \in Queues(Keys, PipeDepth) /\ <<>> \in Queues(Responses, PipeDepth)
    /\ <<>> \in Queues(Keys, 1)
    BY QueuesOfOne
<1>1. CASE SessionEnds(s)
  BY <1>1 DEF SessionEnds, PathTypeOK, WorksForRequest, database, process
<1>2. CASE Close(s)
  BY <1>2 DEF Close, Dies, PathTypeOK, WorksForRequest, database, Phases, Results
<1>3. CASE Crash(s)
  BY <1>3 DEF Crash, Dies, PathTypeOK, WorksForRequest, database, Phases, Results
<1>4. CASE Read(s)
  <2>1. /\ stdout[s] \in Queues(Responses, PipeDepth) /\ stdout[s] # <<>>
        /\ responses[s] \in Queues(Responses, PipeDepth) /\ Len(responses[s]) < PipeDepth
    BY <1>4 DEF Read, PathTypeOK
  <2>2. Head(stdout[s]) \in Responses /\ Tail(stdout[s]) \in Queues(Responses, PipeDepth)
    BY <2>1, QueueShrinks
  <2>3. Append(responses[s], Head(stdout[s])) \in Queues(Responses, PipeDepth)
    BY <2>1, <2>2, QueueGrows
  <2>4. stdout' \in [Sessions -> Queues(Responses, PipeDepth)]
    BY <1>4, <2>2 DEF Read, PathTypeOK
  <2>5. responses' \in [Sessions -> Queues(Responses, PipeDepth)]
    BY <1>4, <2>3 DEF Read, PathTypeOK
  <2>6. UNCHANGED <<database, job, closing, client, stdin, process>>
    BY <1>4 DEF Read
  <2> QED
    BY <2>4, <2>5, <2>6 DEF PathTypeOK, WorksForRequest, database, process
<1>5. CASE RefuseCall(s) \/ BeginTx(s)
  <2>1. stdin[s] \in Queues(Keys, PipeDepth) /\ stdin[s] # <<>>
    BY <1>5 DEF RefuseCall, BeginTx, PathTypeOK
  <2>2. Head(stdin[s]) \in Keys /\ Tail(stdin[s]) \in Queues(Keys, PipeDepth)
    BY <2>1, QueueShrinks
  <2>3. <<Head(stdin[s])>> \in Queues(Keys, 1) /\ <<Head(stdin[s])>> # <<>>
    BY <2>2, QueuesOfOne
  <2>4. /\ server' \in [Sessions -> Phases] /\ verdict' \in [Sessions -> Results]
        /\ server'[s] \in {"begun", "answering"}
        /\ \A o \in Sessions \ {s} : server'[o] = server[o]
    <3> server \in [Sessions -> Phases] /\ verdict \in [Sessions -> Results]
      BY DEF PathTypeOK
    <3> "begun" \in Phases /\ "answering" \in Phases /\ "failed" \in Results /\ "ok" \in Results
      BY DEF Phases, Results
    <3>1. CASE RefuseCall(s)
      BY <3>1 DEF RefuseCall, Answering
    <3>2. CASE BeginTx(s)
      BY <3>2 DEF BeginTx, Answering
    <3> QED BY <1>5, <3>1, <3>2
  <2>5. /\ stdin' = [stdin EXCEPT ![s] = Tail(@)]
        /\ request' = [request EXCEPT ![s] = <<Head(stdin[s])>>]
        /\ UNCHANGED <<database, job, closing, client, stdout, responses>>
    BY <1>5 DEF RefuseCall, BeginTx
  <2> QED
    BY <2>2, <2>3, <2>4, <2>5 DEF PathTypeOK, WorksForRequest, database
<1>6. CASE Change(s) \/ TxFails(s)
  BY <1>6 DEF Change, TxFails, Answering, PathTypeOK, WorksForRequest, database, wire, Phases, Results
<1>7. CASE Commit(s)
  <2>1. Now(s) \in Keys
    BY <1>7, QueuesOfOne DEF Commit, Now, PathTypeOK, WorksForRequest
  <2>2. rows' \subseteq Creates /\ ledger' \subseteq Keys
    BY <1>7, <2>1 DEF Commit, PathTypeOK
  <2> QED
    BY <1>7, <2>2 DEF Commit, Answering, PathTypeOK, WorksForRequest, wire, Phases, Results
<1>8. CASE Answer(s)
  <2>1. Now(s) \in Keys
    BY <1>8, QueuesOfOne DEF Answer, Now, PathTypeOK, WorksForRequest
  <2>2. [id |-> Now(s), says |-> verdict[s]] \in Responses
    BY <2>1 DEF PathTypeOK, Responses
  <2>3. Append(stdout[s], [id |-> Now(s), says |-> verdict[s]]) \in Queues(Responses, PipeDepth)
    BY <1>8, <2>2, QueueGrows DEF Answer, PathTypeOK
  <2> QED
    BY <1>8, <2>3 DEF Answer, PathTypeOK, WorksForRequest, database, Phases, Results
<1> QED
  BY <1>1, <1>2, <1>3, <1>4, <1>5, <1>6, <1>7, <1>8 DEF ServerStep

-----------------------------------------------------------------------------
(* A step of a job, which touches neither the database nor the process: a  *)
(* job becomes "ok" only by a truthful response to its own request.        *)
LEMMA JobKeepsInv ==
    ASSUME PathInv, NEW s \in Sessions, NEW k \in Keys, Start(s, k) \/ JobStep(s, k)
    PROVE  PathInv'
<1> USE DEF PathInv
<1>1. PathTypeOK' /\ WorksForRequest'
  BY JobTyping
<1>2. UNCHANGED <<rows, ledger, stdout, server, request, verdict>>
  BY DEF JobStep, Start, Acquire, Write, WriteFails, Receive, ReceiveFails, Expire, database, wire, process
<1>3. OneWriter' /\ ReadingsHold' /\ NoOverlap'
  BY <1>2 DEF OneWriter, ReadingsHold, NoOverlap, Now, Conflict
<1>4. AnswersAreTrue' /\ OkIsDurable'
  <2>1. CASE Receive(s, k)
    <3> DEFINE r == Head(responses[s])
    <3>1. /\ r = responses[s][1] /\ 1 \in 1..Len(responses[s]) /\ r \in Responses
          /\ \A i \in 1..Len(Tail(responses[s])) :
                 i + 1 \in 1..Len(responses[s]) /\ Tail(responses[s])[i] = responses[s][i + 1]
      BY <2>1, QueueShrinks, PathAssumption DEF Receive, PathTypeOK
    <3>2. Truthful(r)
      BY <3>1 DEF AnswersAreTrue
    <3>3. Taken(k, r) \in Progress /\ (Taken(k, r) = "ok" => k \in ledger)
      BY <3>1, <3>2, Phrases DEF Taken, Truthful, Responses
    <3>4. JobBecomes(s, k, Taken(k, r))
      BY <2>1 DEF Receive
    <3>5. OkIsDurable'
      BY <1>2, <3>3, <3>4, JobMoves DEF OkIsDurable
    <3>6. \A o \in Sessions : \A i \in 1..Len(responses'[o]) : Truthful(responses'[o][i])
      BY <2>1, <3>1 DEF Receive, AnswersAreTrue, PathTypeOK
    <3> QED
      BY <1>2, <3>5, <3>6 DEF AnswersAreTrue, Truthful, Now
  <2>2. CASE ~Receive(s, k)
    <3>1. UNCHANGED responses
      BY <2>2 DEF JobStep, Start, Acquire, Write, WriteFails, ReceiveFails, Expire, wire
    <3>2. OkIsDurable'
      <4>1. CASE UNCHANGED job
        BY <4>1, <1>2 DEF OkIsDurable
      <4>2. ASSUME NEW p \in {"waiting", "writing", "receiving", "unknown"}, JobBecomes(s, k, p)
            PROVE  OkIsDurable'
        BY <4>2, <1>2, Phrases, JobMoves DEF OkIsDurable
      <4> QED
        BY <2>2, <4>1, <4>2 DEF JobStep, Start, Acquire, Write, WriteFails, ReceiveFails, Expire
    <3> QED
      BY <1>2, <3>1, <3>2 DEF AnswersAreTrue, Truthful, Now
  <2> QED
    BY <2>1, <2>2
<1> QED
  BY <1>1, <1>3, <1>4

(* The steps by which a connection ends, or a response comes nearer. *)
LEMMA WireKeepsInv ==
    ASSUME PathInv, NEW s \in Sessions, Close(s) \/ Read(s) \/ SessionEnds(s) \/ Crash(s)
    PROVE  PathInv'
<1> USE DEF PathInv
<1>1. PathTypeOK' /\ WorksForRequest'
  BY ProcessTyping
<1>2. UNCHANGED <<rows, ledger, job>>
  BY DEF Close, Read, SessionEnds, Crash, database
<1>3. NoOverlap' /\ OkIsDurable'
  BY <1>2 DEF NoOverlap, OkIsDurable
<1>4. \/ /\ server' = [server EXCEPT ![s] = "dead"] /\ request' = [request EXCEPT ![s] = <<>>]
         /\ verdict' = [verdict EXCEPT ![s] = "failed"]
      \/ UNCHANGED <<server, request, verdict>>
  BY DEF Close, Read, SessionEnds, Crash, Dies, process
<1>5. \A o \in Sessions :
         server'[o] \in {"begun", "written", "answering"}
             => server'[o] = server[o] /\ request'[o] = request[o] /\ verdict'[o] = verdict[o]
  BY <1>4 DEF PathTypeOK
<1>6. OneWriter' /\ ReadingsHold'
  BY <1>2, <1>5 DEF OneWriter, ReadingsHold, Now, Conflict
<1>7. AnswersAreTrue'
  <2>1. /\ \A o \in Sessions : \A i \in 1..Len(stdout'[o]) : Truthful(stdout'[o][i])
        /\ \A o \in Sessions : \A i \in 1..Len(responses'[o]) : Truthful(responses'[o][i])
    <3>1. CASE SessionEnds(s) \/ Crash(s)
      BY <3>1 DEF SessionEnds, Crash, AnswersAreTrue
    <3>2. CASE Close(s)
      BY <3>2 DEF Close, AnswersAreTrue, PathTypeOK
    <3>3. CASE Read(s)
      <4> DEFINE r == Head(stdout[s])
      <4>1. /\ r = stdout[s][1] /\ 1 \in 1..Len(stdout[s]) /\ r \in Responses
            /\ \A i \in 1..Len(Tail(stdout[s])) :
                   i + 1 \in 1..Len(stdout[s]) /\ Tail(stdout[s])[i] = stdout[s][i + 1]
        BY <3>3, QueueShrinks, PathAssumption DEF Read, PathTypeOK
      <4>2. \A i \in 1..Len(Append(responses[s], r)) :
                (i \in 1..Len(responses[s]) /\ Append(responses[s], r)[i] = responses[s][i])
                \/ Append(responses[s], r)[i] = r
        BY <3>3, <4>1, QueueGrows, PathAssumption DEF Read, PathTypeOK
      <4>3. Truthful(r)
        BY <4>1 DEF AnswersAreTrue
      <4>4. \A o \in Sessions : \A i \in 1..Len(stdout'[o]) : Truthful(stdout'[o][i])
        BY <3>3, <4>1 DEF Read, AnswersAreTrue, PathTypeOK
      <4>5. \A o \in Sessions : \A i \in 1..Len(responses'[o]) : Truthful(responses'[o][i])
        <5>1. responses' = [responses EXCEPT ![s] = Append(@, r)]
          BY <3>3 DEF Read
        <5> HIDE DEF r
        <5> QED
          BY <5>1, <4>2, <4>3 DEF AnswersAreTrue, PathTypeOK
      <4> QED
        BY <4>4, <4>5
    <3> QED
      BY <3>1, <3>2, <3>3
  <2> QED
    BY <1>2, <1>5, <2>1 DEF AnswersAreTrue, Truthful, Now
<1> QED
  BY <1>1, <1>3, <1>6, <1>7

(* The steps of the transaction: what it reads stays so, because nobody    *)
(* commits while another has begun and only one is written at a time.      *)
LEMMA ServerKeepsInv ==
    ASSUME PathInv, NEW s \in Sessions, ServerStep(s)
    PROVE  PathInv'
<1> USE DEF PathInv
<1>1. PathTypeOK' /\ WorksForRequest'
  BY ProcessTyping
<1>2. UNCHANGED <<job, responses>>
  BY DEF ServerStep, RefuseCall, BeginTx, Change, Commit, TxFails, Answer, wire
<1>3. CASE RefuseCall(s) \/ BeginTx(s)
  <2>1. UNCHANGED <<rows, ledger, stdout>>
    BY <1>3 DEF RefuseCall, BeginTx, database
  <2>2. Now(s)' = Head(stdin[s])
    BY <1>3 DEF RefuseCall, BeginTx, Now, PathTypeOK
  <2>3. \A o \in Sessions \ {s} :
            server'[o] = server[o] /\ request'[o] = request[o] /\ verdict'[o] = verdict[o]
    BY <1>3 DEF RefuseCall, BeginTx, Answering, PathTypeOK
  <2>4. /\ server'[s] \in {"begun", "answering"}
        /\ server'[s] = "begun" => Head(stdin[s]) \notin ledger /\ ~Conflict(Head(stdin[s]))
        /\ server'[s] = "answering" /\ verdict'[s] = "ok" => Head(stdin[s]) \in ledger
    BY <1>3 DEF RefuseCall, BeginTx, Answering, Replayed, PathTypeOK
  <2>5. OneWriter' /\ NoOverlap' /\ OkIsDurable'
    BY <2>1, <2>3, <2>4, <1>2 DEF OneWriter, NoOverlap, OkIsDurable
  <2>6. ReadingsHold'
    BY <2>1, <2>2, <2>3, <2>4 DEF ReadingsHold, Now, Conflict
  <2>7. AnswersAreTrue'
    BY <2>1, <2>2, <2>3, <2>4, <1>2 DEF AnswersAreTrue, Truthful, Now
  <2> QED
    BY <1>1, <2>5, <2>6, <2>7
<1>4. CASE Change(s) \/ TxFails(s)
  <2>1. UNCHANGED <<rows, ledger, stdout, request>>
    BY <1>4 DEF Change, TxFails, database, wire
  <2>2. \A o \in Sessions \ {s} : server'[o] = server[o] /\ verdict'[o] = verdict[o]
    BY <1>4 DEF Change, TxFails, Answering, PathTypeOK
  <2>3. \/ server'[s] = "answering" /\ verdict'[s] = "failed"
        \/ /\ server[s] = "begun" /\ server'[s] = "written" /\ ~Reserved(s)
           /\ Now(s) \in Removes => Target[Now(s)] \in rows
    BY <1>4 DEF Change, TxFails, Answering, PathTypeOK
  <2>4. OneWriter' /\ NoOverlap' /\ OkIsDurable'
    BY <2>1, <2>2, <2>3, <1>2 DEF OneWriter, NoOverlap, OkIsDurable, Reserved
  <2>5. ReadingsHold'
    BY <2>1, <2>2, <2>3 DEF ReadingsHold, Now, Conflict
  <2>6. AnswersAreTrue'
    BY <2>1, <2>2, <2>3, <1>2 DEF AnswersAreTrue, Truthful, Now
  <2> QED
    BY <1>1, <2>4, <2>5, <2>6
<1>5. CASE Commit(s)
  <2>1. /\ UNCHANGED <<stdout, request>>
        /\ server[s] = "written" /\ server'[s] = "answering"
        /\ \A o \in Sessions \ {s} : server'[o] = server[o] /\ verdict'[o] = verdict[o]
    BY <1>5 DEF Commit, Answering, wire, PathTypeOK
  <2>2. \A o \in Sessions \ {s} : server[o] \notin {"begun", "written"}
    BY <1>5 DEF Commit, MayCommit, Locked
  <2>3. ledger' = ledger \cup {Now(s)}
    BY <1>5 DEF Commit
  <2>4. OneWriter' /\ ReadingsHold'
    BY <2>1, <2>2 DEF OneWriter, ReadingsHold
  <2>5. OkIsDurable' /\ AnswersAreTrue'
    BY <2>1, <2>3, <1>2 DEF OkIsDurable, AnswersAreTrue, Truthful, Now
  <2>6. NoOverlap'
    <3>1. CASE Now(s) \in Creates
      <4>1. rows' = rows \cup {Now(s)}
        BY <1>5, <3>1 DEF Commit
      <4>2. \A r \in rows : <<Now(s), r>> \notin Overlaps
        BY <2>1, <3>1 DEF ReadingsHold, Conflict
      <4>3. \A r \in rows : <<r, Now(s)>> \notin Overlaps
        <5> SUFFICES ASSUME NEW r \in rows, <<r, Now(s)>> \in Overlaps PROVE <<Now(s), r>> \in Overlaps
          BY <4>2
        <5> DEFINE p == <<r, Now(s)>>
        <5>1. <<p[2], p[1]>> \in Overlaps
          BY PathAssumption
        <5> QED
          BY <5>1
      <4> QED
        BY <4>1, <4>2, <4>3 DEF NoOverlap
    <3>2. CASE Now(s) \notin Creates
      BY <1>5, <3>2 DEF Commit, NoOverlap
    <3> QED
      BY <3>1, <3>2
  <2> QED
    BY <1>1, <2>4, <2>5, <2>6
<1>6. CASE Answer(s)
  <2> DEFINE r == [id |-> Now(s), says |-> verdict[s]]
  <2>1. UNCHANGED <<rows, ledger>>
    BY <1>6 DEF Answer, database
  <2>2. /\ server'[s] = "idle"
        /\ \A o \in Sessions \ {s} :
               server'[o] = server[o] /\ request'[o] = request[o] /\ verdict'[o] = verdict[o]
    BY <1>6 DEF Answer, PathTypeOK
  <2>3. OneWriter' /\ NoOverlap' /\ OkIsDurable'
    BY <2>1, <2>2, <1>2 DEF OneWriter, NoOverlap, OkIsDurable
  <2>4. ReadingsHold'
    BY <2>1, <2>2 DEF ReadingsHold, Now, Conflict
  <2>5. r \in Responses /\ Truthful(r)
    BY <1>6, QueuesOfOne DEF Answer, AnswersAreTrue, Truthful, Now, Responses, PathTypeOK, WorksForRequest
  <2>6. \A i \in 1..Len(Append(stdout[s], r)) :
            (i \in 1..Len(stdout[s]) /\ Append(stdout[s], r)[i] = stdout[s][i])
            \/ Append(stdout[s], r)[i] = r
    BY <1>6, <2>5, QueueGrows, PathAssumption DEF Answer, PathTypeOK
  <2>7. \A o \in Sessions : \A i \in 1..Len(stdout'[o]) : Truthful(stdout'[o][i])
    <3>1. stdout' = [stdout EXCEPT ![s] = Append(@, r)]
      BY <1>6 DEF Answer
    <3> HIDE DEF r
    <3> QED
      BY <3>1, <2>5, <2>6 DEF AnswersAreTrue, PathTypeOK
  <2>8. AnswersAreTrue'
    BY <2>1, <2>2, <2>7, <1>2 DEF AnswersAreTrue, Truthful, Now
  <2> QED
    BY <1>1, <2>3, <2>4, <2>8
<1> QED
  BY <1>3, <1>4, <1>5, <1>6 DEF ServerStep

-----------------------------------------------------------------------------
(* Type, locks, readings and answers are as PathInv says in every state,   *)
(* for every number of sessions, whatever ends, times out or crashes.      *)
THEOREM PathInvariant == Spec => []PathInv
<1>1. Init => PathInv
  <2> SUFFICES ASSUME Init PROVE PathInv
      OBVIOUS
  <2>1. PathTypeOK
    <3>1. /\ <<>> \in Queues(Keys, PipeDepth) /\ <<>> \in Queues(Responses, PipeDepth)
          /\ <<>> \in Queues(Keys, 1)
      BY QueuesOfOne, PathAssumption
    <3> QED
      BY <3>1, Phrases DEF Init, PathTypeOK, Phases, Results
  <2>2. WorksForRequest /\ OneWriter /\ ReadingsHold /\ OkIsDurable /\ NoOverlap
    BY DEF Init, WorksForRequest, OneWriter, ReadingsHold, OkIsDurable, NoOverlap
  <2>3. AnswersAreTrue
    BY DEF Init, AnswersAreTrue
  <2> QED
    BY <2>1, <2>2, <2>3 DEF PathInv
<1>2. PathInv /\ [Next]_vars => PathInv'
  <2> SUFFICES ASSUME PathInv, [Next]_vars PROVE PathInv'
      OBVIOUS
  <2>1. CASE UNCHANGED vars
    BY <2>1 DEF vars, database, wire, process, PathInv, PathTypeOK, WorksForRequest, OneWriter,
                ReadingsHold, AnswersAreTrue, Truthful, OkIsDurable, NoOverlap, Now, Conflict
  <2>2. CASE Next
    BY <2>2, JobKeepsInv, WireKeepsInv, ServerKeepsInv DEF Next, JobsMove
  <2> QED
    BY <2>1, <2>2
<1> QED
  BY <1>1, <1>2, PTL DEF Spec

(* No two active events overlap, although two processes may look for a     *)
(* conflict at the same time (mcp-agenda store.go 77-83, 178-184).         *)
THEOREM EventsNeverOverlap == Spec => []NoOverlap
<1>1. PathInv => NoOverlap
  BY DEF PathInv
<1> QED
  BY <1>1, PathInvariant, PTL

(* A job told "ok" is told of a committed effect of its own request        *)
(* (client.go 115-138, store.go 206-215).                                  *)
THEOREM OkAnswersAreDurable == Spec => []OkIsDurable
<1>1. PathInv => OkIsDurable
  BY DEF PathInv
<1> QED
  BY <1>1, PathInvariant, PTL

(* Every operation takes effect at one moment and at most once, on the     *)
(* rows as they then are, however often and by whom it is asked for: the   *)
(* path implements OperationOnce.                                          *)
THEOREM PathImplementsOnce == Spec => Once
<1>1. Init => Promised!Init
  BY DEF Init, Promised!Init
<1>2. PathInv /\ [Next]_vars => [Promised!Next]_Promised!vars
  <2> SUFFICES ASSUME PathInv, [Next]_vars PROVE [Promised!Next]_Promised!vars
      OBVIOUS
  <2> USE DEF PathInv, Promised!vars
  <2>0. Promised!Keys = Keys
    BY DEF Promised!Keys, Keys
  <2>1. CASE UNCHANGED vars
    BY <2>1 DEF vars, database
  <2>2. ASSUME NEW s \in Sessions, NEW k \in Keys, Start(s, k) \/ JobStep(s, k)
        PROVE  [Promised!Next]_Promised!vars
    <3>1. OkIsDurable' /\ UNCHANGED <<rows, ledger>>
      BY <2>2, JobKeepsInv DEF JobStep, Start, Acquire, Write, WriteFails, Receive, ReceiveFails,
                               Expire, database
    <3>2. CASE UNCHANGED job
      BY <3>1, <3>2
    <3>3. CASE job' # job
      <4>1. PICK p \in Progress : JobBecomes(s, k, p)
        <5>1. CASE Receive(s, k)
          <6>1. Head(responses[s]) \in Responses
            BY <5>1, QueuesOfOne, PathAssumption DEF Receive, PathTypeOK
          <6> QED
            BY <5>1, <6>1, Phrases DEF Receive, Taken, Responses
        <5> QED
          BY <2>2, <3>3, <5>1, Phrases DEF JobStep, Start, Acquire, Write, WriteFails, ReceiveFails,
                                           Expire
      <4>2. job[s][k] # "ok"
        BY <2>2, <3>3 DEF JobStep, Start, Acquire, Write, WriteFails, Receive, ReceiveFails, Expire
      <4>3. /\ job' \in [Sessions -> [Keys -> Progress]]
            /\ \A o \in Sessions, i \in Keys : job'[o][i] = IF o = s /\ i = k THEN p ELSE job[o][i]
        BY <4>1, JobMoves
      <4> DEFINE Told == {q \in Sessions \X Keys : job[q[1]][q[2]] = "ok"}
      <4>4. CASE p = "ok"
        <5>1. k \in ledger
          BY <3>1, <4>3, <4>4 DEF OkIsDurable
        <5>2. Told' = Told \cup {<<s, k>>}
          BY <4>3, <4>4
        <5> QED
          BY <3>1, <5>1, <5>2, <2>0 DEF Promised!Next, Promised!Tell
      <4>5. CASE p # "ok"
        <5>1. \A q \in Sessions \X Keys : job'[q[1]][q[2]] = "ok" <=> job[q[1]][q[2]] = "ok"
          BY <4>2, <4>3, <4>5
        <5>2. Told' = Told
          BY <5>1
        <5> HIDE DEF Told
        <5> QED
          BY <3>1, <5>2 DEF Told
      <4> QED
        BY <4>4, <4>5
    <3> QED
      BY <3>2, <3>3
  <2>3. ASSUME NEW s \in Sessions, Close(s) \/ Read(s) \/ SessionEnds(s) \/ Crash(s)
        PROVE  [Promised!Next]_Promised!vars
    BY <2>3 DEF Close, Read, SessionEnds, Crash, database
  <2>4. ASSUME NEW s \in Sessions, ServerStep(s)
        PROVE  [Promised!Next]_Promised!vars
    <3>1. CASE ~Commit(s)
      BY <2>4, <3>1 DEF ServerStep, RefuseCall, BeginTx, Change, TxFails, Answer, database, wire
    <3>2. CASE Commit(s)
      <4>1. Now(s) \in Keys /\ Now(s) \notin ledger /\ UNCHANGED job
        BY <3>2, QueuesOfOne DEF Commit, Now, PathTypeOK, WorksForRequest, ReadingsHold
      <4>2. Promised!Allowed(Now(s))
        BY <3>2, <4>1 DEF Commit, Promised!Allowed, ReadingsHold, Conflict, Keys
      <4>3. /\ rows' = Promised!Changed(Now(s))
            /\ ledger' = ledger \cup {Now(s)}
        BY <3>2 DEF Commit, Promised!Changed
      <4>4. Promised!Perform(Now(s))
        BY <4>1, <4>2, <4>3 DEF Promised!Perform
      <4> QED
        BY <4>1, <4>4, <2>0 DEF Promised!Next
    <3> QED
      BY <3>1, <3>2
  <2> QED
    BY <2>1, <2>2, <2>3, <2>4 DEF Next, JobsMove
<1> QED
  BY <1>1, <1>2, PathInvariant, PTL DEF Spec, Once, Promised!Spec

-----------------------------------------------------------------------------
(* What a job has before it: nothing, once it has its result.              *)
Ahead(p) ==
    CASE p = "none" -> 4 [] p = "waiting" -> 3 [] p = "writing" -> 2 [] p = "receiving" -> 1
      [] OTHER -> 0

(* A job goes forward only and keeps its result, a client that closes goes *)
(* on closing, and whatever a session's jobs do brings one of them forward *)
(* or closes the client, for which a write that is blocked waits: they do  *)
(* not go round in circles (client.go 93-138).                             *)
Forward(s) ==
    /\ \A k \in Keys : job'[s][k] # job[s][k] => Ahead(job'[s][k]) < Ahead(job[s][k])
    /\ closing[s] => closing'[s]
    /\ JobsMove(s) => \/ \E k \in Keys : job'[s][k] # job[s][k]
                      \/ ~closing[s] /\ closing'[s]

AllForward == \A s \in Sessions : Forward(s)

JobsGoForward == [][AllForward]_vars

LEMMA JobGoesForward ==
    ASSUME PathTypeOK, NEW s \in Sessions, NEW k \in Keys, Start(s, k) \/ JobStep(s, k)
    PROVE  /\ \A o \in Sessions, i \in Keys :
                  job'[o][i] # job[o][i] => Ahead(job'[o][i]) < Ahead(job[o][i])
           /\ \A o \in Sessions : closing[o] => closing'[o]
           /\ JobStep(s, k) => job'[s][k] # job[s][k] \/ (~closing[s] /\ closing'[s])
<1>1. CASE Expire(s, k) /\ job[s][k] = "writing"
  BY <1>1 DEF Expire, PathTypeOK
<1>2. CASE ~(Expire(s, k) /\ job[s][k] = "writing")
  <2>1. \A o \in Sessions : closing[o] => closing'[o]
    BY <1>2 DEF PathTypeOK, Start, JobStep, Acquire, Write, WriteFails, Receive, ReceiveFails, Expire,
                wire
  <2>2. PICK p \in Progress : JobBecomes(s, k, p) /\ Ahead(p) < Ahead(job[s][k])
    <3>1. CASE Receive(s, k)
      <4>0. Head(responses[s]) \in Responses
        BY <3>1, QueuesOfOne, PathAssumption DEF Receive, PathTypeOK
      <4>1. Taken(k, Head(responses[s])) \in Results \cup {"unknown"}
        BY <4>0 DEF Taken, Responses
      <4> QED
        BY <3>1, <4>1, Phrases DEF Receive, Ahead, Results
    <3>2. CASE ~Receive(s, k)
      BY <1>2, <3>2, Phrases DEF Start, JobStep, Acquire, Write, WriteFails, ReceiveFails, Expire, Ahead
    <3> QED
      BY <3>1, <3>2
  <2>3. \A o \in Sessions, i \in Keys : job'[o][i] = IF o = s /\ i = k THEN p ELSE job[o][i]
    BY <2>2, JobMoves
  <2>4. job'[s][k] # job[s][k]
    <3>1. Ahead(p) \in Int
      BY DEF Ahead
    <3> HIDE DEF Ahead
    <3> QED
      BY <2>2, <2>3, <3>1
  <2> QED
    BY <2>1, <2>2, <2>3, <2>4
<1> QED
  BY <1>1, <1>2

(* Every job of every session, whatever the server and the other sessions  *)
(* do, and however deep the pipes are.                                     *)
THEOREM JobsOnlyGoForward == Spec => JobsGoForward
<1>1. PathInv /\ [Next]_vars => [AllForward]_vars
  <2> SUFFICES ASSUME PathInv, Next, NEW s \in Sessions PROVE Forward(s)
      BY DEF AllForward
  <2> USE DEF PathInv
  <2>1. PICK o \in Sessions :
            \/ \E k \in Keys : Start(o, k) \/ JobStep(o, k)
            \/ Close(o) \/ Read(o) \/ ServerStep(o) \/ SessionEnds(o) \/ Crash(o)
    BY DEF Next, JobsMove
  <2>2. ASSUME NEW k \in Keys, JobStep(s, k)
        PROVE  Forward(s)
    BY <2>2, JobGoesForward DEF Forward
  <2>3. CASE ~JobsMove(s)
    <3>1. ASSUME NEW k \in Keys, Start(o, k) \/ JobStep(o, k)
          PROVE  Forward(s)
      BY <2>3, <3>1, JobGoesForward DEF Forward
    <3>2. CASE Close(o) \/ Read(o) \/ ServerStep(o) \/ SessionEnds(o) \/ Crash(o)
      <4>1. UNCHANGED job
        BY <3>2 DEF Close, Read, ServerStep, RefuseCall, BeginTx, Change, Commit, TxFails, Answer,
                    SessionEnds, Crash
      <4>2. closing[s] => closing'[s]
        BY <3>2 DEF PathTypeOK, Close, Read, ServerStep, RefuseCall, BeginTx, Change, Commit, TxFails,
                    Answer, SessionEnds, Crash, wire
      <4> QED
        BY <2>3, <4>1, <4>2 DEF Forward
    <3> QED
      BY <2>1, <3>1, <3>2
  <2> QED
    BY <2>2, <2>3 DEF JobsMove
<1> QED
  BY <1>1, PathInvariant, PTL DEF Spec, JobsGoForward

=============================================================================
