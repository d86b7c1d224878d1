----------------------------- MODULE MutationPath -----------------------------
(***************************************************************************)
(* The way of a mutation, from the job a session runs to the database:     *)
(*                                                                         *)
(*   job -> mcpwire Client -> pipe -> ServeTools -> MutateAgenda -> sqlite *)
(*   job <-   responses  <- read <- pipe <-/                               *)
(*                                                                         *)
(* packages/go/mcpwire (client.go, server.go) and the stores of mcp-agenda *)
(* and mcp-notes, whose Mutate has the same steps and no overlaps.  Every  *)
(* session starts a server process of its own; all of them open the same   *)
(* database.  The sessions here share a requestId, so that the same        *)
(* operation has the same idempotency key in all of them.  A session hands *)
(* out an operation once (ActionConsentProofs!MutationIssuedOnce); in a    *)
(* session the operation therefore also stands for the JSON-RPC id of its  *)
(* request.                                                                *)
(*                                                                         *)
(* The database is as SQLite makes it with a rollback journal: a           *)
(* transaction that has read holds a shared lock, its first write takes    *)
(* the one reserved lock or fails at once, and it commits when nobody else *)
(* holds a lock, or fails when the busy timeout passes.                    *)
(***************************************************************************)
EXTENDS Integers, Sequences, FiniteSets

CONSTANTS
    Sessions,
    Creates,    \* create_event (create): the operation stands for the row it makes
    Removes,    \* cancel_event (delete), confirmed
    Target,     \* the row each of them names
    Overlaps,   \* pairs of rows that overlap in time
    PipeDepth,  \* messages a pipe holds, and the channel of responses (16)
    Asks        \* bound of the model: the operations each session may ask for

Keys == Creates \cup Removes

ASSUME PathAssumption ==
    /\ Creates \cap Removes = {}
    /\ Target \in [Removes -> Creates]
    /\ Overlaps \subseteq Creates \X Creates
    /\ \A p \in Overlaps : <<p[2], p[1]>> \in Overlaps
    /\ PipeDepth \in Nat \ {0}
    /\ Asks \in [Sessions -> SUBSET Keys]

VARIABLES
    rows,       \* the active rows of the database
    ledger,     \* operations whose result is stored
    job,        \* where the job of an operation is, by session: its progress or its result
    closing,    \* Close was called on the session's client
    client,     \* the client's streams are open
    stdin, stdout,   \* the pipes of the session's server process
    responses,  \* the channel c.responses
    server,     \* what the server process is doing
    request,    \* the operation it does it for (a sequence of at most one)
    verdict     \* the result it answers

database == <<rows, ledger>>
wire == <<closing, client, stdin, stdout, responses>>
process == <<server, request, verdict>>
vars == <<database, job, wire, process>>

-----------------------------------------------------------------------------
Results == {"ok", "failed"}
Underway == {"waiting", "writing", "receiving"}
Progress == {"none", "unknown"} \cup Underway \cup Results
Responses == [id : Keys, says : Results]
Phases == {"idle", "begun", "written", "answering", "dead"}
Queues(S, n) == {q \in Seq(S) : Len(q) <= n}

PathTypeOK ==
    /\ rows \subseteq Creates
    /\ ledger \subseteq Keys
    /\ job \in [Sessions -> [Keys -> Progress]]
    /\ closing \in [Sessions -> BOOLEAN] /\ client \in [Sessions -> BOOLEAN]
    /\ stdin \in [Sessions -> Queues(Keys, PipeDepth)]
    /\ stdout \in [Sessions -> Queues(Responses, PipeDepth)]
    /\ responses \in [Sessions -> Queues(Responses, PipeDepth)]
    /\ server \in [Sessions -> Phases]
    /\ request \in [Sessions -> Queues(Keys, 1)]
    /\ verdict \in [Sessions -> Results]

Init ==
    /\ rows = {} /\ ledger = {}
    /\ job = [s \in Sessions |-> [k \in Keys |-> "none"]]
    /\ closing = [s \in Sessions |-> FALSE] /\ client = [s \in Sessions |-> TRUE]
    /\ stdin = [s \in Sessions |-> <<>>] /\ stdout = [s \in Sessions |-> <<>>]
    /\ responses = [s \in Sessions |-> <<>>]
    /\ server = [s \in Sessions |-> "idle"]
    /\ request = [s \in Sessions |-> <<>>]
    /\ verdict = [s \in Sessions |-> "failed"]

-----------------------------------------------------------------------------
(* The job and the client's request.                                       *)

JobBecomes(s, k, phase) == job' = [job EXCEPT ![s][k] = phase]

\* Once per session and operation.
Start(s, k) ==
    /\ k \in Asks[s]
    /\ job[s][k] = "none" /\ ~closing[s]
    /\ JobBecomes(s, k, "waiting")
    /\ UNCHANGED <<database, wire, process>>

\* c.gate: one request at a time.
Acquire(s, k) ==
    /\ job[s][k] = "waiting"
    /\ \A i \in Keys : job[s][i] \notin {"writing", "receiving"}
    /\ JobBecomes(s, k, "writing")
    /\ UNCHANGED <<database, wire, process>>

Write(s, k) ==
    /\ job[s][k] = "writing"
    /\ client[s] /\ server[s] # "dead" /\ Len(stdin[s]) < PipeDepth
    /\ stdin' = [stdin EXCEPT ![s] = Append(@, k)]
    /\ JobBecomes(s, k, "receiving")
    /\ UNCHANGED <<database, closing, client, stdout, responses, process>>

WriteFails(s, k) ==
    /\ job[s][k] = "writing"
    /\ ~client[s] \/ server[s] = "dead"
    /\ JobBecomes(s, k, "unknown")
    /\ UNCHANGED <<database, wire, process>>

\* Mutant: the response's id is not compared.
TakenFor(k, response) == response.says

Taken(k, response) == IF response.id = k THEN response.says ELSE "unknown"

\* The deadline may pass at this moment: AfterFunc still closes the client.
Receive(s, k) ==
    /\ job[s][k] = "receiving" /\ responses[s] # <<>>
    /\ JobBecomes(s, k, Taken(k, Head(responses[s])))
    /\ responses' = [responses EXCEPT ![s] = Tail(@)]
    /\ \E late \in BOOLEAN : closing' = [closing EXCEPT ![s] = @ \/ late]
    /\ UNCHANGED <<database, client, stdin, stdout, process>>

\* read has ended: the client is closed or the process has.
ReceiveFails(s, k) ==
    /\ job[s][k] = "receiving" /\ responses[s] = <<>>
    /\ ~client[s] \/ (server[s] = "dead" /\ stdout[s] = <<>>)
    /\ JobBecomes(s, k, "unknown")
    /\ UNCHANGED <<database, wire, process>>

\* Mutant: the deadline does not close the client.
ExpireLeavesOpen(s, k) ==
    /\ job[s][k] \in {"waiting", "receiving"}
    /\ JobBecomes(s, k, "unknown")
    /\ UNCHANGED <<database, wire, process>>

\* The deadline passes: in the queue for the gate the request gives up; later
\* the client is closed as well, on a goroutine of its own, unless a request
\* that receives sees the deadline and stops the AfterFunc before it runs.
Expire(s, k) ==
    \/ /\ job[s][k] = "waiting"
       /\ JobBecomes(s, k, "unknown")
       /\ UNCHANGED <<database, wire, process>>
    \/ /\ job[s][k] = "writing" /\ ~closing[s]
       /\ closing' = [closing EXCEPT ![s] = TRUE]
       /\ UNCHANGED <<database, job, client, stdin, stdout, responses, process>>
    \/ /\ job[s][k] = "receiving"
       /\ JobBecomes(s, k, "unknown")
       /\ \E late \in BOOLEAN : closing' = [closing EXCEPT ![s] = @ \/ late]
       /\ UNCHANGED <<database, client, stdin, stdout, responses, process>>

\* toolRuntime.Close, when the session ends: no further job is started.
SessionEnds(s) ==
    /\ ~closing[s]
    /\ closing' = [closing EXCEPT ![s] = TRUE]
    /\ UNCHANGED <<database, job, client, stdin, stdout, responses, process>>

\* A process that dies loses what it was doing; its transaction is rolled back.
Dies(s) ==
    /\ server' = [server EXCEPT ![s] = "dead"]
    /\ request' = [request EXCEPT ![s] = <<>>]
    /\ verdict' = [verdict EXCEPT ![s] = "failed"]

Close(s) ==
    /\ closing[s] /\ client[s]
    /\ client' = [client EXCEPT ![s] = FALSE]
    /\ stdin' = [stdin EXCEPT ![s] = <<>>] /\ stdout' = [stdout EXCEPT ![s] = <<>>]
    /\ Dies(s)
    /\ UNCHANGED <<database, job, closing, responses>>

Read(s) ==
    /\ client[s] /\ stdout[s] # <<>> /\ Len(responses[s]) < PipeDepth
    /\ responses' = [responses EXCEPT ![s] = Append(@, Head(stdout[s]))]
    /\ stdout' = [stdout EXCEPT ![s] = Tail(@)]
    /\ UNCHANGED <<database, job, closing, client, stdin, process>>

-----------------------------------------------------------------------------
(* The server process: ServeTools and the store's transaction.             *)

Now(s) == Head(request[s])

Answering(s, result) ==
    /\ server' = [server EXCEPT ![s] = "answering"]
    /\ verdict' = [verdict EXCEPT ![s] = result]

\* Another transaction holds the reserved lock; a lock of any kind.
Reserved(s) == \E o \in Sessions \ {s} : server[o] = "written"
Locked(s) == \E o \in Sessions \ {s} : server[o] \in {"begun", "written"}

\* Mutant: events are created without looking for a conflict.
ConflictUnchecked(k) == FALSE

\* The store's reading, in the transaction that will write.
Conflict(k) == k \in Creates /\ \E r \in rows : <<k, r>> \in Overlaps

\* Mutant: a result that is stored is not looked for.
ReplayedNever(k) == FALSE

Replayed(k) == k \in ledger

\* Arguments, envelope, confirmation, interval or title are refused; or the
\* database cannot be read.
RefuseCall(s) ==
    /\ server[s] = "idle" /\ stdin[s] # <<>>
    /\ stdin' = [stdin EXCEPT ![s] = Tail(@)]
    /\ request' = [request EXCEPT ![s] = <<Head(stdin[s])>>]
    /\ Answering(s, "failed")
    /\ UNCHANGED <<database, job, closing, client, stdout, responses>>

BeginTx(s) ==
    /\ server[s] = "idle" /\ stdin[s] # <<>>
    /\ stdin' = [stdin EXCEPT ![s] = Tail(@)]
    /\ request' = [request EXCEPT ![s] = <<Head(stdin[s])>>]
    /\ IF Replayed(Head(stdin[s])) THEN Answering(s, "ok")
       ELSE IF Conflict(Head(stdin[s])) THEN Answering(s, "failed")
       ELSE server' = [server EXCEPT ![s] = "begun"] /\ UNCHANGED verdict
    /\ UNCHANGED <<database, job, closing, client, stdout, responses>>

\* The change of the rows, which a removal without a row fails; and the
\* ledger's entry.
Change(s) ==
    /\ server[s] = "begun"
    /\ IF Reserved(s) \/ (Now(s) \in Removes /\ Target[Now(s)] \notin rows)
       THEN Answering(s, "failed")
       ELSE server' = [server EXCEPT ![s] = "written"] /\ UNCHANGED verdict
    /\ UNCHANGED <<database, job, wire, request>>

MayCommit(s) == ~Locked(s)

Commit(s) ==
    /\ server[s] = "written" /\ MayCommit(s)
    /\ rows' = IF Now(s) \in Creates THEN rows \cup {Now(s)} ELSE rows \ {Target[Now(s)]}
    /\ ledger' = ledger \cup {Now(s)}
    /\ Answering(s, "ok")
    /\ UNCHANGED <<job, wire, request>>

\* The busy timeout passes, or the disk fails: everything is rolled back.
TxFails(s) ==
    /\ server[s] \in {"begun", "written"}
    /\ Answering(s, "failed")
    /\ UNCHANGED <<database, job, wire, request>>

Answer(s) ==
    /\ server[s] = "answering" /\ Len(stdout[s]) < PipeDepth
    /\ stdout' = [stdout EXCEPT ![s] = Append(@, [id |-> Now(s), says |-> verdict[s]])]
    /\ server' = [server EXCEPT ![s] = "idle"]
    /\ request' = [request EXCEPT ![s] = <<>>]
    /\ verdict' = [verdict EXCEPT ![s] = "failed"]
    /\ UNCHANGED <<database, job, closing, client, stdin, responses>>

\* The process ends by itself, at any moment.
Crash(s) ==
    /\ server[s] # "dead"
    /\ Dies(s)
    /\ stdin' = [stdin EXCEPT ![s] = <<>>]
    /\ UNCHANGED <<database, job, closing, client, stdout, responses>>

-----------------------------------------------------------------------------
JobStep(s, k) ==
    \/ Acquire(s, k) \/ Write(s, k) \/ WriteFails(s, k)
    \/ Receive(s, k) \/ ReceiveFails(s, k) \/ Expire(s, k)

JobsMove(s) == \E k \in Keys : JobStep(s, k)

ServerStep(s) == RefuseCall(s) \/ BeginTx(s) \/ Change(s) \/ Commit(s) \/ TxFails(s) \/ Answer(s)

Next ==
    \E s \in Sessions :
        \/ \E k \in Keys : Start(s, k)
        \/ JobsMove(s) \/ Close(s) \/ Read(s) \/ ServerStep(s)
        \/ SessionEnds(s) \/ Crash(s)

\* Requests have a deadline and Close a goroutine; nothing is asked of a server.
\* Either may come first: neither of them can go on for ever.
Fairness == \A s \in Sessions : WF_vars(Close(s) \/ JobsMove(s))

Spec == Init /\ [][Next]_vars /\ Fairness

-----------------------------------------------------------------------------
(* Whatever sessions, timeouts, crashes and repetitions there are, the     *)
(* operations take effect one after the other, each at most once and on    *)
(* the rows as they then are; and a session is told "ok" only of what took *)
(* effect (store.go: effect and replay result are committed together).     *)
Promised == INSTANCE OperationOnce WITH
    done <- ledger,
    told <- {p \in Sessions \X Keys : job[p[1]][p[2]] = "ok"},
    Excludes <- Overlaps

Once == Promised!Spec

(* No two active events overlap, although two processes may look for a     *)
(* conflict at the same time (mcp-agenda store.go 77-83, 178-184).         *)
NoOverlap == \A a, b \in rows : a # b => <<a, b>> \notin Overlaps

(* An answer "ok" is about the operation it is given for: a late answer to *)
(* a request that timed out is never taken for the next one's (client.go   *)
(* 115-138), and it is given after the commit only.                        *)
OkIsDurable == \A s \in Sessions, k \in Keys : job[s][k] = "ok" => k \in ledger

(* Jobs end, whatever the server does: one whose request times out, that   *)
(* waits for the gate or whose write is blocked by a full pipe; so that    *)
(* the end of a session does not wait for ever (agent tools.go 98-105).    *)
Busy(s) == \E k \in Keys : job[s][k] \in Underway

JobsEnd == \A s \in Sessions : Busy(s) ~> ~Busy(s)

-----------------------------------------------------------------------------
(* Why they hold.                                                          *)

\* What is said to be stored is.
Truthful(r) == r.says = "ok" => r.id \in ledger

AnswersAreTrue ==
    \A s \in Sessions :
        /\ \A i \in 1..Len(stdout[s]) : Truthful(stdout[s][i])
        /\ \A i \in 1..Len(responses[s]) : Truthful(responses[s][i])
        /\ server[s] = "answering" /\ verdict[s] = "ok" => Now(s) \in ledger

\* What a transaction has read still is so.
ReadingsHold ==
    \A s \in Sessions :
        /\ server[s] \in {"begun", "written"} => Now(s) \notin ledger /\ ~Conflict(Now(s))
        /\ server[s] = "written" /\ Now(s) \in Removes => Target[Now(s)] \in rows

OneWriter == \A s, o \in Sessions : server[s] = "written" /\ server[o] = "written" => s = o

WorksForRequest ==
    \A s \in Sessions : server[s] \in {"begun", "written", "answering"} <=> request[s] # <<>>

PathInv ==
    /\ PathTypeOK /\ WorksForRequest
    /\ OneWriter
    /\ ReadingsHold
    /\ AnswersAreTrue
    /\ OkIsDurable
    /\ NoOverlap

=============================================================================
