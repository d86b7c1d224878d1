# Verification of the voice assistant

TLA+ models of this repository (a voice assistant: clients talk to a gateway, the gateway
relays to agents, an agent talks to a realtime speech model and to tools, some of them
services over a database), the TLC instances that check them, and TLAPS proofs of the properties that
must hold whatever the sizes are. Paths below are relative to `src/`.

Contents: 1 the system, 2 the models, 3 what is checked and what it shows, 4 bounds,
5 fairness, 6 what is proved, 7 disagreements found, 8 what is not modelled, 9 plan.

## 1. The system

```
client --ws--> voice gateway --ws--> agent process --ws--> Nova Sonic (LiteLLM)
 voice/v1,v2    handleVoice    v1,v2   Handler               realtime.Stream
                RemoteSession          runningSession            |
                                        Runtime.Run  <-----------+
                                        Mapper, tool gate
                                          | jobs (one goroutine each)
                                        Router -> mcpwire / LiteLLM -> MCP servers
                                                    notes, agenda (sqlite), profile,
                                                    identity (SQL, Spring)
```

| Component | State it keeps | Operations | Hard behaviour | What makes it correct |
|---|---|---|---|---|
| **Tool gate** `packages/go/actionruntime` | one pending confirmation, call ids seen, results, attempted mutations, the last utterance | `Plan`, `Complete`, `ObserveUser`, `Confirm`, `Interrupt` | model retries, questions that lapse, answers by voice and by UI | no mutation is handed out twice; none that needs consent without it; one id, one operation |
| **Turn mapper** `packages/go/realtime/mapper.go` | active turn, its state, open contents, ended turns, audio number, history | `StartInput`, `StartAssistant`, `QueueInput`, `Interrupt`, `Map` | microphone, provider and interruption disagree on the turn; contents that arrive late | what the client is told of turns is one consistent story |
| **Realtime stream** `packages/go/realtime/stream.go` | items and parts begun | `Open`, `decode`, `Recv`, `Close` | deltas without a beginning, completions out of order | every content is begun once and ended once |
| **Personal session loop** `apps/personal-assistant-agent/internal/agent` | mapper, gate, stream, timers, staged call, running jobs | one `select` loop: client, stream, jobs, turn timer, renewal | replacement of the stream at any moment, jobs that outlast turns | jobs, results, consent and timers stay with the turn and stream they belong to |
| **Agent session transport** `packages/go/agentwire/remote.go`, `session/factory.go` | four bounded channels, two sockets, five goroutines per session, slots | `Open`, `Send`, `Events`, `Close`; `ServeHTTP` | backpressure, disconnects, shutdown, queues full in both directions | order and completeness while in use; every end is reached and its slot freed |
| **Agent session messages** `packages/go/agentwire/protocol.go` | none | decode, validate | bounds of fields | exactly the documented events pass |
| **Voice gateway** `apps/voice-gateway/internal/adapters/voice` | slots, connections, wait group, one relaying loop and one reader per client | `handleVoice`, `Close`, account control | admission while shutting down, slow clients, cleanup through every early return | a connection is registered or closed; every slot comes back; who the client is goes to no agent of v1 |
| **Voice messages** `packages/go/voicewire` | none | decode, validate | bounds of fields | as above |
| **Account agent** `apps/account-agent` | mapper, gate, stream, greeting, invitation, jobs started by the app | its own `Runtime.Run` | greeting, bootstrap, queued input, end of an app's job replaces the stream | as the personal loop; the login is begun by the user's own answer, once |
| **MCP wire** `packages/go/mcpwire` | one process, a gate of one request, a response channel | `request`, `Call`, `Close`; `ServeTools` | timeout racing the answer, close racing the reader | an answer is of the request that waits; after a timeout the client is closed |
| **Router, LiteLLM client** `internal/adapters/mcpclient`, `internal/account/mcp.go` | tools discovered | discovery, `Call` | a server that fails in the middle of a mutation | a failed process is not restarted, a call not repeated |
| **Notes, agenda** `apps/mcp-notes`, `apps/mcp-agenda` | sqlite tables and a ledger of operations | `Mutate`, `MutateAgenda`, `Events`, `Slots`, migration | crash between commit and answer, concurrent sessions | effect and ledger entry together; at most one effect per key; no two overlapping events |
| **Identity** `apps/mcp-identity` | SQL tables: logins, sessions, consumed refresh tokens | `begin`, `prepare`, `complete`, `refresh`, `introspect`, `logout` | concurrent requests, rotation at the provider inside a transaction, replays | a login gives one session and a token one successor; what is revoked stays so |
| **Profile** `apps/mcp-profile` | one row per client and a ledger of operations | `get`, `update` | concurrent and repeated updates | updates take effect one after the other, each once, on the version it had seen |
| **Apple client** `apps/apple` | account (keychain, access token, login under way), conversation state, outbox | `login`, `cancelLogin`, `restore`, `logout`; client side of the protocol | answers that come after a deadline or to a cancelled task | the user stays signed in unless an answer was lost |
| **CLI client** `apps/voice-client` | | client side of the protocol | | |
| Fakes, scripts, deployment | | | | |

How they interact. Everything inside an agent session is owned by the goroutine of
`Runtime.Run`: mapper and gate are plain structures it calls; the stream's reader
goroutine, the jobs and the transport talk to it through channels. Across processes
there are websockets with read, write and idle deadlines. Durable state exists only
behind the MCP servers. The account of a client does not go through its voice session: the
Apple client posts to `/v2/auth/...`, which the gateway passes on to the identity service,
and presents the access token when it opens a voice session. The hazards this leads to are listed, with the line where each
one bites and the properties that watch it, in `PROJECT.json` under `hazards`.

## 2. The models

| Module | Models | Extends or instantiates |
|---|---|---|
| `ActionSession` | the tool gate, one action per operation (`Plan` by outcome) | |
| `ActionConsent` | the gate under every caller, and the user's side of the questions as history variable; properties | `ActionSession` |
| `TurnMapper` | the mapper: owner's calls, and `Map` as one action per kind of provider event | |
| `TurnStory` | the mapper under every owner and provider, and what the client was told; properties | `TurnMapper` |
| `RealtimeStream` | `decode`: a provider message becomes one to three events | |
| `PersonalRuntime` | the session loop, one action per case of its `select` and per kind of stream event | `TurnMapper`, `RealtimeStream`, `ActionSession` (INSTANCE) |
| `PersonalSession` | the loop with what its cross-component properties need | `PersonalRuntime` |
| `AgentPipe` | one session between gateway and agent: every channel, socket and goroutine | |
| `OperationOnce` | abstract: operations that take effect at one moment and at most once, and answers after it | |
| `MutationPath` | a mutation from job over `mcpwire` to the sqlite transaction of notes or agenda, in several sessions over one database | `OperationOnce` (INSTANCE, refinement) |
| `AccountRuntime` | the account agent's loop: the personal loop's handlers with greeting, bootstrap, invitation and the app's jobs | `PersonalRuntime` |
| `AccountSession` | that loop with what its properties need | `AccountRuntime` |
| `AgentMessages` | the tests and translations a message meets between client, gateway and agent | |
| `TurnRelay` | what the mapper tells, and what a client sends, through `AgentMessages`; properties | `TurnStory`, `AgentMessages` (INSTANCE) |
| `Gateway` | the sessions of several clients in one gateway, and `Close` | |
| `Identity` | concurrent requests to the identity service over its database | |
| `AccountApp` | the Apple client's account as the user of `Identity` | `Identity` |
| `Profile` | concurrent updates of a profile and their ledger | |
| `MC...` | the instances; `...Proofs` the theorems | |

**ActionSession.** `Keys` stands for the hash of namespace, tool and canonical
arguments. An utterance is what the gate distinguishes: exactly the confirmation phrase
of a tool, the intent pattern of a tool, a refusal, anything else. `Plan` is split by
what it returns: `Refuse`, `AnswerAtOnce` (stored result, unknown outcome,
clarification), `AskConfirmation`, `Issue`. The clock `now` is read by the gate and
advanced by `Tick`. `issued` is history: every job ever handed out.

**ActionConsent.** Adds `questions`, which evolves by rules about the *user* and never
reads the gate's decisions: a question opens when it is put, is granted by a matching
phrase in another turn or by a click, and closes on refusal, interruption and time. The
properties compare the gate with it. This is the abstract view of the gate, and the
gate's one pending entry is shown to be always one of the user's open questions.

**TurnMapper.** Variables carry the code's names (`turnID`, `state`, `nextInput`,
`answered`, `cancelled`, `contents`, `sequence`, `waitingUser`, `history`). Text and PCM
are reduced to what `Map` tests: empty or not, within the limit or not. `out` is the set
of events the last call returned, `err` whether it failed. Ids drawn by `rand.Text` are
fresh members of `Generated`.

**TurnStory.** The owner uses an input id once (both runtimes keep a set of used ids)
and greets only a mapper that has done nothing; the provider is unconstrained. `told`,
`cut` and `heard` record what the client has been told.

**RealtimeStream.** One provider message at a time: what a provider sends does not
depend on how far the owner has read. `openItems` and `openParts` are `s.users` and
`s.parts`.

**PersonalRuntime.** A step is a whole turn of the loop: `emit` with its effect on the
turn timer, `rotate` with mapper, gate and staged call, the observation of a finalized
utterance at the start of an answer, and `execute`, are parts of the actions that call
them. A failing write, send or read ends the session, as the handler followed by `Lost`;
a rotation that cannot open a new stream is the same `Rotate` with the session ended.

**AgentPipe.** Commands and events are numbers. A message a goroutine holds between two
channels is a variable of its own (`outgoing`, `arriving`, `passing`, `writing`,
`emitting`, `fetched`), so every point where a goroutine can block is a state. A
connection that breaks, or is closed, loses any end of what was on its way, and a write to it
may still succeed (`Sent`, `WriteEvent`), to be lost. A `select` in the code is a choice here.
Opening, authentication and the semaphore are one free choice to accept or refuse.

**MutationPath.** `job[s][k]` is where the job of operation `k` in session `s` is; the
answer "unknown" is the `mcp_unavailable_or_timeout` a call without a result becomes, "failed" an
answer with `isError`. Each session has a client, two pipes, the channel of responses and
a server process; `closing` is that `Close` was called (by a deadline or the end of the
session), `client` that its effect has not come yet, so that late answers still arrive
in between. A deadline closes the client on a goroutine of its own; a request that sees the
deadline first may stop that (`client.go` 119), so `Expire` may leave the client open. A server
takes one request at a time: `RefuseCall` is everything that is
decided before the transaction, `BeginTx` its reads, `Change` its first write, then
`Commit` or `TxFails`. SQLite's locks (a reader's shared lock is kept to the end of the
transaction, one reserved lock, no commit over readers) are external and modelled as the
store uses them: a rollback journal and deferred transactions, the driver's defaults,
which `Open` does not change. A create operation stands for the row it makes. Notes are
events that overlap nothing. The sessions share a `requestId`, so that the idempotency key
of an operation is the same in all of them; with different ones they are different
operations, and only `NoOverlap` relates them.

**AccountRuntime.** The account agent repeats the personal loop's code, so its actions are
those of `PersonalRuntime` with what differs: `Greet` is what the loop does before its first
`select`; `DropBootstrap` takes the events that never reach the mapper; a click on a pending
operation plans and starts the job at once (`ConfirmAndRun`), and its end replaces the stream
(`AppJobFinished`). `BeginLogin` is the invitation accepted, by voice (`AnsweredByVoice`) or
in the app (`ConfirmWelcome`). `answer` is what `welcomeAnswer` makes of the last utterance:
any utterance that is no phrase of the gate may mean yes.

**AgentMessages, TurnRelay.** No state: operators for each function on the way of a message.
An id is kept by its shape (letters and digits, beginning with `_` or `-`, with `.` or `:`),
audio by its size. `TurnRelay` states over every step of the mapper that what it tells
arrives, and over every event a client may send what becomes of it.

**Gateway.** `stage[c]` is where the goroutine of client `c` is, from the request to the slot
given back; the deferred calls of `handleVoice` are steps in the order Go runs them (`Cancel`,
`CloseAgent`, `Unregister`, `FreeSlot`). The reader is a second process (`Listen`, `Push`,
`PushStops`, `ListenFails`). `Register` and `Stop` are the two critical sections of the mutex.
`TakeInput` and `AgentSpeaks` begin a send or a write that may take as long as its deadline.
`WorkDone` ends it and, like the code, asks nothing on the way back to the `select`: a send does
not touch the client's socket, and a write to a peer that has just left may succeed, so a handler
whose client is gone or whose context is done may go round again. `Notice` is the case of the
done context, `PingFails` that of the ping. The agent's session is one variable here; `AgentPipe`
has its inside.

**Identity, AccountApp.** A request's record says which statement it has reached. A refresh is
one transaction: `Select` takes the row's lock, `RotateToken` commits, `Denied` and
`ServiceFails` roll back. `LookUp` is the test for a replay, which comes before the lock; who
waited for the lock finds no row with its token, as in PostgreSQL's read committed. Completion
of a login is three statements with the exchange at the provider between them. In the client
every `await` is a place where other methods run; an answer is `lost` when it comes too late
or its task was cancelled, and the request goes on.

**Profile.** `ReadProfile` is `SELECT ... FOR UPDATE`, then one of `RepeatUpdate`,
`WriteProfile`, `UpdateFails` ends the transaction.

**Side by side.** Two instances hold models that share no variable, one of which moves in a
behaviour (`part`): `MCAgentPipe` the pipe and the gateway, `MCAccountSession` the loop, the
account and the profile. What the gateway takes from the pipe is `CloseIsReturned`: that the
agent's `Close` comes back is why `CloseAgent` may be fair.

**OperationOnce.** `rows`, `done`, `told`: `Perform` changes rows if the operation is new
and allowed on the rows as they are, `Tell` informs a session of what was done.

## 3. What is checked

| Run | Question | Answer |
|---|---|---|
| `action_consent` | Can any order of model calls, job ends, utterances, clicks, interruptions and lapses make the gate hand out a mutation twice, or one without consent? | no (176 245 states) |
| `turn_story` | Can any order of provider contents, inputs and interruptions make the mapper tell an inconsistent story, and does the story reach the client? | no; yes, with the exceptions the property names (886 065 states) |
| `personal_session` | Do jobs, results, consent and the timer stay with the turn and stream they belong to, across a renewal or cancellation? | yes (1 386 690 states) |
| `agent_pipe` | Do both directions of a session keep order and lose nothing while in use; is a client's session cleaned up through every return, also when the gateway stops at that moment; do closing, leaving and shutdown always come to an end? | yes (154 543 states of the pipe, 83 495 of the gateway) |
| `account_session` | Is the login begun only by the user, and does what runs belong to the live turn and stream? Is a login or a refresh token used once, is what is revoked revoked for good, and what costs the user the session? Do concurrent updates of a profile take effect one after the other? | yes (858 699 states of the loop, 518 720 of the account, 17 377 of the profile) |
| `mutation_path` | Two processes over one database, deadlines, late answers, crashes, repetition: does an operation take effect at most once and is "ok" always true? Do jobs end? | yes (888 814 states) |
| `turn_history`, `personal_timeout`, `personal_later`, `personal_phrase`, `pipe_stuck`, `pipe_stop` | Does the code do what a document or comment says? | no: section 7 |

The properties:

- `IssuedOnce`, `OneIdOneOperation`, `ConsentBeforeIssue` (gate). The last one is the
  important one: a job of a tool that needs confirmation is handed out only while a
  question about that very operation is open, granted and in time.
- `InterruptedIsFinal`, `AudioContiguous`, `AnnouncedOnceFirst` (mapper): silence after
  an interruption, audio numbered 1, 2, 3 ... per turn, each turn announced once and
  before anything else. Events with an empty turn id, which a mapper emits when the
  provider speaks before the first user content, are outside `AnnouncedOnceFirst`.
- `JobsOfTheLiveTurn`, `ResultsToTheirStream`, `RespondingIsTimed`,
  `ConsentStaysOnItsStream`, and in `LoopInv` that one place for a staged call is enough
  (session loop).
- `NoCommandLost`, `NoEventLost`, `CloseIsReturned`, `ShutdownFreesSlot` (transport).
- `Once` (refinement of `OperationOnce`), `NoOverlap`, `OkIsDurable`, `JobsEnd` (path of a
  mutation).
- `MessagesPass`, `EventsReachTheClient` (messages): what is told and what is sent arrives as
  it was. The exceptions are written into the properties, and each ends the session: events
  of no turn, audio of more than 32 000 bytes, ids that begin with `_` or `-`, a stop that names
  a turn. The mutual strictness of four validations is what a unit test of any one misses.
- `StoppedIsClosed`, `CleanedUp`, `IdentityStaysOnV2`, `SlotsComeBack` (gateway): after `Close`
  nothing is left that nobody ends; map, wait group, slots and sockets agree with where each
  session is; device and account are shown to agents of v2 only; a slot comes back when the
  client leaves, when the gateway stops, and when a session is never started, although the
  handler tests none of the three between two rounds of its `select`.
- `LoginIsAnswered`, `ModelJobsOfTheLiveTurn`, `ConsentStaysOnItsStream`, `RespondingIsTimed`,
  `BootstrapIsUnheard` (account loop): as in the personal loop, and that nothing but the user's
  answer to the invitation begins a login, once, while the provider's own bootstrap is no speech.
- `RedeemedOnce`, `RevokedForGood`, `StaysSignedIn` (account): a login gives one session and a
  token one successor, however requests overlap, fail and repeat; after a logout or a refused
  replay was answered no token of the session works again; and a session ends by a logout or
  after a renewal whose answer was lost, never by anything else the client does.
- `UpdatedInOrder` (profile): versions, ledger and answers are those of a sequence of updates.
- `IInv`, `StoryInv`, `LoopInv`, `PipeTypeOK`, `PathInv`, `AccountInv` hold the type invariants and what the
  other properties rest on.

`PROJECT.json` lists, for each property of a passing run, a plausible defect of the code
(a dropped guard, a missing reset, a value remembered wrongly) under which it fails.

## 4. Bounds, and why they are enough

- **MCActionConsent**: two deletions and a cancellation (all needing confirmation, one
  only by voice), a direct creation and a read; two call ids, two turns, four calls, a
  question that lapses after one tick of two. Two operations of one tool are needed to
  mix up consent, two turns to answer a question, one call more than there are ids to
  reuse one, and time to pass the last instant a question stands by one.
- **MCTurnStory**: two turns of the client, one drawn by the agent, two contents open at
  once. `MaxTurns` and `MaxContents` are 2, so that both limits are reached. `StateBound`
  cuts a turn's audio after two events (a constraint: the event that passes it is still
  checked). `VIEW Control` drops the events returned and the texts kept, which nothing
  in the mapper's control reads; `turn_history` is about them and runs without a view.
- **MCPersonalSession**: one client turn, one drawn turn, one user item, one part, one
  call, one operation that needs confirmation, one stream opened after the first, one
  job at a time. That is enough for a call, its question, its answer and its job to fall
  on either side of an interruption, a cancellation and a renewal. `VIEW Control` keeps
  what the loop reads and says in the module what it drops. The limits on turns,
  contents and calls are out of reach here, the other two instances reach them.
- **MCAgentPipe**: every channel and socket holds one message, two commands and two
  events: each queue can be full with another message waiting before it, which is what
  blocks goroutines; longer queues only repeat it.
- **MCAgentPipe**, the gateway: two clients of either protocol, one slot, one event in a
  client's channel. Two clients make one be refused, or take the slot the other gave back,
  while `Close` meets each at every stage; a full channel blocks the reader. Of the two initial
  states in which the clients differ in their protocol only one is checked, as they differ in the
  clients' names alone. Clients interact
  only through slots, map and wait group, so more of them repeat it (three clients with two
  slots keep the safety properties).
- **MCAccountSession**: the loop with one client turn, one drawn turn, one item, one call of
  the model, the login and one operation to confirm; `Short` bounds turns, replacements and
  time together, so that each of them, and any two together, occur; the session of an
  authenticated user, which is that of an invited one without the invitation, is bounded
  tighter, and a malformed call, which MCPersonalSession has, is not followed. One login and four requests
  for the account: one to sign in, three to renew twice at a time, repeat and sign out; with
  two logins the properties hold as well. Three updates of two operations for the profile: a
  repetition, the same key with other changes, and a stale version. `VIEW Moving` is the loop's
  `Control`, as in MCPersonalSession, or everything of the account or the profile.
- **MCMutationPath**: two sessions, one of which creates and cancels an event, while the
  other creates the same event (same key) and one that overlaps it (`Asks`); pipes that
  hold one message. That is enough for a repetition, a conflict and a removal to meet at
  every step of the two transactions, and for a pipe to be full. That three sessions do
  nothing new is the theorems' part (section 6).
- Behaviours of all but the first end on purpose (a session ends, an owner stops after
  an error, the pipe is closed, the gateway stops, requests are used up), hence `CHECK_DEADLOCK FALSE` there.

## 5. Fairness

`MutationPath` assumes, for each session, weak fairness of "a job takes a step or `Close` does":
each request has a deadline, `Expire`, and is run by a goroutine, and `AfterFunc` and the end of
the session run `Close`. Which of the two comes first is left open. Nothing is assumed of the
server: it may block for ever, which is the point of `JobsEnd`.

`AgentPipe` assumes weak fairness of each goroutine's steps (`GatewayStep`, `ReaderStep`,
`HandlerStep`, `CommandReaderStep`, `RuntimeStep`), which is the Go scheduler running what can
run. What the client, the provider and the network do
(`Choice`: sending, leaving, emitting, refusing, breaking, stopping) is not fair. The
code's deadlines appear as alternatives that stay possible while a goroutine is blocked:
a write to a full socket fails, an open fails, a read fails when the other end is silent.
A select in which several cases stay ready is resolved freely; since a session has
finitely many messages in the model no case can be passed over for ever, in the code Go
chooses at random. No fairness is assumed for a wait the code puts no deadline on, which
is what `pipe_stuck` is about.

In `Gateway` the goroutine of a session (`SessionStep`) and its reader (`ListenerStep`) are weakly
fair, since each of their waits has a deadline (writes, sends, the handshake, opening the agent)
or is for the other of the two, and so is `StartLate`, the timer of a session never started.
Nothing bounds here how often a handler goes round: an agent that speaks each time the handler is
back at its `select` competes with the done context each time, and weak fairness of `Notice`,
which is disabled while the handler is busy, would not end that. What does is that `select` chooses
at random among the cases that are ready, so that with probability one none that is ready again
and again is passed over for ever: strong fairness of `Notice` and of `InputCase`. Requests,
clients and agents are not fair, and neither is `PingFails`: a ping may reach nobody and succeed.
The account and the profile promise safety only, and assume nothing.

## 6. What is proved

With TLAPS: every safety invariant and every action property of the passing runs, and the
refinement, for all values of the constants that satisfy the named assumptions. Each inductive
invariant was first checked by TLC on the instance of its run, with as many states as section 3
gives. The assumptions, which TLC evaluates on every run:

| Assumption | Says |
|---|---|
| `ToolsAssumption`, `BoundsAssumption`, `NoneAssumption` | each operation has a tool and each tool a policy; limits are naturals; the nil is no pending entry |
| `MapperAssumption` | ids drawn differ from the client's, `None` is no id, limits are naturals |
| `RelayAssumption` | the nil is no message and no id |
| `RuntimeAssumption`, `AccountAssumption` | those of mapper and gate; items, parts and calls have different ids; the greeting's turn, the invitation and the login are the account's, the login needs no second question |
| `PipeAssumption` | every queue holds one message at least |
| `GatewayAssumption` | one slot at least; each agent of the catalogue has a protocol |
| `IdentityAssumption` | a login transaction is no refresh token |
| `ProfileAssumption` | finitely many keys (so that versions can be counted by ledger entries) |
| `PathAssumption` | no operation creates and removes, removals name creations, overlap is symmetric, a pipe holds one message at least |

**`ActionConsentProofs`**: `GateInvariant`, `MutationIssuedOnce`, `IdsNameOperations`,
`ConsentPrecedesIssue`. The three properties are not inductive: whether a job may run
is decided from `pending`, `attempted` and `seen`, so the invariant `IInv` ties these
to history. `PendingIsQuestion` says that a pending entry in time is an open question
of the user, granted if it is approved; `AttemptedIsIssued` and `SeenIsIssued` that the
sets are exactly what was handed out. One lemma for the model's calls, one for
utterances, one for clicks; the rest is in `NextIInv`. Consent then follows from
`IInv` and the guard of `Issue`.

**`TurnStoryProofs`**: `StoryInvariant`, `InterruptedTurnsStaySilent`, `AudioIsContiguous`,
`TurnsAnnouncedOnce`; `ToldIsDelivered`, `MessagesAlwaysPass`. `StoryInv` needs that the active
turn of a mapper that is not idle is not cancelled, that the current turn was announced, that
`sequence` is what was heard of the current turn, that unannounced turns were not heard, and
that a queued input that was begun is the current or an ended one. All the mapper's actions fall
into four shapes (quiet, cutting, speaking, starting, with queueing beside them); a lemma per
shape shows that it keeps the invariant and the promises, `StepShape` that every step has one of
them. Of the messages, `Decoded` says what the client's protocol lets through and
`LegalVerdict` that the agent's refuses of it exactly what `Unsendable` names; `Arrives` gives,
for any message of an agent, the condition under which it comes out as it went in, and
`EmittedArrives` applies it to what the mapper tells: that audio has a number other than 0
is `AudioIsContiguous`, that a told turn has an id is the type invariant.
`EveryEventReachesTheLoop` is for events with any number, size and set of extra fields, of which
`MessagesPass` takes those at the limits.

**`MutationPathProofs`**: `PathInvariant`, `EventsNeverOverlap`, `OkAnswersAreDurable`,
`PathImplementsOnce`. `NoOverlap` is not inductive: that an insert finds no conflict is
known from a read some steps earlier. `ReadingsHold` says that what a transaction has
read is still so, which `Commit` keeps because it waits for every other transaction
(`MayCommit`) and `OneWriter`; `AnswersAreTrue` carries "committed" from the ledger
through verdict, pipe and channel to the job. The refinement maps `Commit` to `Perform`,
a received "ok" to `Tell` and everything else to a stutter.

**`LoopProofs`, `PersonalProofs`**: `SessionInvariant`, `LoopIsSound`, `ResultsGoHome`,
`ResponseIsTimed`, `NoToolForADeadTurn`, `ConsentDiesWithItsStream`. Why is one place for a staged
call enough, and why is the staged call's turn alive when it is executed? Because of what is still
to come on the stream: `FeedShape` says that the events of a call pass one by one with no other
between them and the call is staged only between the last two, and `StagedIsLive` that a
staged call which was not voided is of the turn under way. `MapperInd` and `GateInd` are what mapper
and gate contribute (a turn that is under way was not cancelled; only what needs consent is asked
about). `LoopInd` is their conjunction with "a turn that responds has a timer". `LoopProofs`
shows, handler by handler, `Kept`: `LoopInd`, and what the handler does to used ids, pending
question, stream, running jobs and the responding turn. It knows nothing of the session it runs in,
so both agents use it. `SessionInd` adds that drawn turns are new, that a running job is of the
stream that is open, and that a pending question was put on it; every property follows
from `SessionInd` and `Kept`.

**`AccountLoopProofs`**: `AccountInvariant`, `AccountLoopIsSound`, `AccountResponseIsTimed`,
`OpeningIsUnheard`, `LoginByTheUser`, `ModelToolsForTheLiveTurn`,
`AccountConsentDiesWithItsStream`. `AccountInd` adds to `LoopInd`: jobs of the app are among those
that run (`AppJobsRun`), on the first stream a pending greeting is under way
(`GreetingIsUnderWay`), before the provider speaks no content of the user is open
(`BootstrapIsUnheard`), and no login was issued while its invitation stands. The last one is why
the login is begun once: the invitation is answered once, and what the model may ask for does not
include the login (`ForTheModel`).

**`AgentPipeProofs`**: of the pipe `PipeInvariant`, `PipeIsBounded`, `CommandsArrive`,
`EventsArrive`; of the gateway `GatewayInvariant`, `NothingIsLeftOpen`, `BooksFollowSessions`,
`IdentityIsForV2`. `PipeInv` says of each queue and each goroutine that what it holds begins where
the one before it ends (`CommandsInOrder`, `EventsInOrder`), and `PipeShape` in which states a
goroutine may hold a message at all; a break or a close cuts the sequence at one place. In the
gateway `BooksAgree` says that map, wait group and slots are those of the clients' stages,
`HeldInTime` in which stages a client has a socket, a reader and an open agent session, and
`ClosedByClose` that once `Close` has begun the only sockets left are of clients not registered
yet, which will find the gateway stopping and close them. `NothingIsLeftOpen` is these three
together. `AdmittedKnown` carries a v2 client's identity to the moment its agent opens.
Finiteness and cardinality of the slots are where `FiniteSetTheorems` come in.

**`AccountProofs`**: `AccountsInvariant`, `TokensAreRedeemedOnce`, `RevocationIsFinal`,
`ClientStaysSignedIn`; `ProfileInvariant`, `UpdatesInOrder`, `LedgerIsForGood`. In `AccountsInv`
the heart is what a request knows while others run: whoever exchanges a login has consumed it,
alone, and nothing came of it yet (`OneExchange`); the session of whoever rotates keeps the token
it presented, unrevoked, and nobody else rotates it (`RowIsLocked`); and what the client holds:
a token on its way was nowhere before (`NewsIsNew`), one is presented again only if its answer
was lost or nothing was issued for it (`PresentedAgain`), so that a replay follows a loss
(`ReplayFollowsLoss`). In `ProfileInv` one transaction has the row, what it has read is the
profile, and no ledger entry has a later version. `LedgerIsForGood` is an action
property no run repeats. TLC has checked `AccountsInv` with two logins too (10.9 million states).

**The safety half of liveness.** That something ends takes three things: each step of the
goroutines in question brings the end nearer, nobody else's step puts it off, and until then one
of them can take a step. The first two are action properties, proved for every depth of the
queues with the exceptions named below, and the invariants behind the third as well:

| Liveness | Measure | Theorems |
|---|---|---|
| `JobsEnd` | `Ahead` of a job, and whether the client closes | `JobsOnlyGoForward` (of `JobsGoForward`, which also says that a job keeps its result) |
| `CloseIsReturned` | `Unread`: frames on the closed connection and the event `read` holds | `CloseOnlyComesNearer`, `WhoIsAwaitedRuns` (`BothRun`: `read` was started) |
| `ShutdownFreesSlot` | once the handler closes its session, `RuntimeAhead`: what the two channels leave the runtime to do | `ClosedSessionWindsDown` (`SessionWindsDown`), `WhoIsAwaitedRuns` (the runtime was started) |
| `SlotsComeBack` | `StagesAhead`, and within a stage `ToHear` | `EndOnlyComesNearer` (`EndComesNearer`), `ReaderIsAlwaysTold` (`ReaderIsTold`: the reader was started, its context is cancelled before it is waited for, and when it ends it has cancelled the handler's) |

None of the measures counts messages up to a bound of the instance; `RuntimeAhead` and `ToHear`
are limited by the capacities of channels, which the code has. Two things they leave to fairness
are said in the properties. `SessionWindsDown` is about a handler that has left its loop: in the
loop it may be given any number of commands and events, and that a shutdown ends this is
left to TLC and to the random choice of section 5. And in `EndComesNearer` a handler that serves
and one that is busy are equally far from the end: `WorkDone` leaves the measure as it is, the one
step of a session's own that does not lower it, and only strong fairness of `Notice` says that the
handler does not go round for ever. TLC has checked the four action properties (`JobsGoForward`,
`CloseComesNearer`, `SessionWindsDown`, `EndComesNearer`) and both invariants on the instances of
`mutation_path` and `agent_pipe`; no run repeats them.

Only model-checked: the liveness properties `JobsEnd`, `CloseIsReturned`, `ShutdownFreesSlot` and
`SlotsComeBack` themselves, for the third thing is `ENABLED` and the conclusion from it fairness,
both beyond the prover, as are induction over data and `RECURSIVE` operators; the modules here use
none of the latter. Not proved either are what the six runs of section 7 refute.

## 7. Disagreements found

1. `turn_history`: a turn interrupted after its final text but during its audio stays in
   the history; `docs/nova-integration.md` says cancelled turns are not rebuilt.
2. `personal_timeout`: `turn.commit` arms the turn timer even if no turn is under way;
   nothing disarms it, and an idle session ends with `provider_timeout`.
3. `personal_later`: a transcription that completes late makes words that were spoken in
   an earlier turn, before the question, its answer.
4. `personal_phrase`: a renewal in the middle of an utterance leaves its entry in
   `userTexts` for ever; no phrase approves anything any more.
5. `pipe_stuck`: handler and runtime wait for each other over two full channels, and a
   disconnect wakes neither.
6. `pipe_stop`: a command that follows the stop makes the handler leave before it writes
   the announcement of the end.

What the models show besides, and no document of the repository contradicts (each is a hazard
in `PROJECT.json`, with its line):

- The account loop replaces its stream at the end of a job of the app whatever is under way
  (`runtime.go:352`) and does not stop the turn timer, which then ends the session with
  `provider_timeout`. If that happens during the greeting, the greeting stays pending, later
  inputs are only queued, and `openingBootstrap` makes the new stream's first speech of the user
  be dropped. `GreetingIsUnderWay` is therefore stated of the first stream.
- A renewal whose answer is lost leaves a spent token in the client's keychain, so that the
  next renewal is a replay and revokes the session: the boundary `StaysSignedIn` draws.
- A second use of a refresh token *while* the first is under way is denied and revokes nothing;
  only a use after it was consumed is a replay (`IdentityService.java` 35, 36).
- The limit of open logins is tested and used in two statements, and can be passed.

## 8. What is not modelled, and why

- Parsing of JSON, wording, metrics, evidence files, surfaces, configuration: no state that
  interacts, and no property is about their content.
- The session without tools (a subset of the same branches of the personal loop).
- In the transport: several sessions sharing the agent's semaphore, and the messages that open
  a session, both a free choice to accept or refuse.
- In the path of a mutation: the MCP handshake, signed envelopes, the routers and the LiteLLM
  and account MCP clients (one stateless request per call), and sqlite itself. Nor the fixtures
  of the agenda (`SeedFixtures`, `mcp-agenda`'s `store.go` 217): opt-in, and inserted without the
  test for a conflict, so `NoOverlap` is about the operations only.
- In the identity service: `prepare` (a read), seeding, cryptography, and what the provider
  keeps of a rotation that was rolled back.
- The conversation of the Apple client and the command line client: clients of the voice
  protocol, of which the models take every message they may send, not the order they choose.
- The fakes (test doubles of the provider), scripts and deployment (process supervision and
  provisioning around the system).

## 9. Plan

| Order | Module | Composes | Properties and runs | Theorems |
|---|---|---|---|---|
| done | `ActionSession`, `ActionConsent` | | `action_consent` | all four properties |
| done | `TurnMapper`, `TurnStory` | | `turn_story`, `turn_history` | all four properties |
| done | `RealtimeStream`, `PersonalRuntime`, `PersonalSession` | mapper, stream, gate | `personal_session` and three of section 7 | all five properties |
| done | `AgentPipe` | handler, session, gateway loop | `agent_pipe` and two of section 7 | all three safety properties |
| done | `OperationOnce`, `MutationPath` | gate's job, `mcpwire` client and server, ledger of notes and agenda | `mutation_path` | all safety properties and the refinement |
| done | `AccountRuntime`, `AccountSession` | mapper, stream, gate through `PersonalRuntime` | `account_session` | all six properties |
| done | `AgentMessages`, `TurnRelay` | the mapper's story | `turn_story` | both properties |
| done | `Gateway` | several sessions, the pipe abstracted | `agent_pipe` | all three safety properties, for any number of clients |
| done | `Identity`, `AccountApp`, `Profile` | client and service | `account_session` | all four properties |
| done | what liveness rests on | `AgentPipe`, `Gateway`, `MutationPath` | | that a step of a fair goroutine brings a job or a closing session nearer to its end, and no step puts it off |
