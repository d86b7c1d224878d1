------------------------------- MODULE AgentPipe -------------------------------
(***************************************************************************)
(* One agent session between the gateway and the agent process, with every *)
(* queue and goroutine on the way:                                         *)
(*                                                                         *)
(*   gateway handler -> wire -> readCommands -> Handler -> input -> runtime *)
(*   gateway handler <- inbox <- read <- wire <- Handler <- events <-/      *)
(*                                                                         *)
(* packages/go/agentwire/remote.go (both ends), the personal assistant's   *)
(* session/factory.go (input, events, context) and the part of the gateway *)
(* that uses the session (agent_handler.go 149-222).  Commands and events  *)
(* are numbered in the order they are sent; what they say is abstracted,   *)
(* except that an event can be the last of a session, and the announcement *)
(* of its normal end.                                                      *)
(***************************************************************************)
EXTENDS Integers, Sequences

CONSTANTS
    QueueDepth,   \* capacity of every channel (RemoteQueueDepth = 8, factory.go 67-68)
    NetDepth,     \* frames the sockets of one direction hold
    MaxCommands,  \* bounds of the model: commands sent,
    MaxEvents     \* and events emitted

ASSUME PipeAssumption ==
    /\ QueueDepth \in Nat \ {0} /\ NetDepth \in Nat \ {0}
    /\ MaxCommands \in Nat /\ MaxEvents \in Nat

VARIABLES
    user,      \* the gateway's goroutine, the user of the remote session
    outgoing,  \* the command it is writing, if any (a sequence, like every `held' message)
    sent,      \* commands given to Send
    inbox,     \* s.events of the remote session
    reader,    \* its goroutine read
    fetched,   \* the event read holds
    delivered, \* events the gateway took
    link, toAgent, toGateway,   \* the connection and what is on its way
    handler,   \* ServeHTTP; it holds a slot in all states but "idle" and "done"
    passing,   \* the command it hands to the session
    writing,   \* the event it writes
    why,       \* why it left its loop, while it closes: the announcement was written, the
               \* session had ended, or a fault of the connection, the process, an event
    commands, readError,        \* the channels from readCommands
    commandReader, arriving,    \* readCommands and the command it holds
    input, events,              \* the channels of the running session
    runtime,   \* the goroutine of factory.go 71-91
    emitting,  \* the event it emits
    emitted, taken,             \* events emitted and commands taken by it
    last,      \* it returns after the event it emits
    stopped,   \* number of the event agent.session.closed, or 0
    shutdown   \* the agent process was told to stop

gatewayVars == <<user, outgoing, sent, delivered>>
readVars == <<inbox, reader, fetched>>
wireVars == <<link, toAgent, toGateway>>
handlerVars == <<handler, passing, writing, why>>
commandVars == <<commands, readError, commandReader, arriving>>
sessionVars == <<input, events>>
runtimeVars == <<runtime, emitting, emitted, taken, last, stopped>>
vars == <<gatewayVars, readVars, wireVars, handlerVars, commandVars, sessionVars, runtimeVars,
          shutdown>>

Messages(n) == 1..n
Queues(S, n) == UNION {[1..k -> S] : k \in 0..n}
Accepted == 0   \* session.accepted, on the wire

PipeTypeOK ==
    /\ user \in {"opening", "loop", "sending", "closing", "waiting", "closed"}
    /\ sent \in 0..MaxCommands /\ delivered \in 0..MaxEvents
    /\ reader \in {"off", "reading", "putting", "done"}
    /\ link \in {"up", "down"}
    /\ handler \in {"idle", "loop", "sending", "writing", "closing", "done"}
    /\ why \in {"none", "closed", "ended", "fault"}
    /\ commandReader \in {"off", "reading", "putting", "done"}
    /\ runtime \in {"off", "ready", "emitting", "ended"}
    /\ emitted \in 0..MaxEvents /\ taken \in 0..MaxCommands /\ stopped \in 0..MaxEvents
    /\ {last, readError, shutdown} \subseteq BOOLEAN
    /\ commands \in Queues(Messages(MaxCommands), QueueDepth)
    /\ input \in Queues(Messages(MaxCommands), QueueDepth)
    /\ toAgent \in Queues(Messages(MaxCommands), NetDepth)
    /\ {outgoing, passing, arriving} \subseteq Queues(Messages(MaxCommands), 1)
    /\ events \in Queues(Messages(MaxEvents), QueueDepth)
    /\ inbox \in Queues(Messages(MaxEvents), QueueDepth)
    /\ toGateway \in Queues({Accepted} \cup Messages(MaxEvents), NetDepth)
    /\ {fetched, writing, emitting} \subseteq Queues(Messages(MaxEvents), 1)

Init ==
    /\ user = "opening" /\ outgoing = <<>> /\ sent = 0 /\ delivered = 0
    /\ inbox = <<>> /\ reader = "off" /\ fetched = <<>>
    /\ link = "up" /\ toAgent = <<>> /\ toGateway = <<>>
    /\ handler = "idle" /\ passing = <<>> /\ writing = <<>> /\ why = "none"
    /\ commands = <<>> /\ readError = FALSE /\ commandReader = "off" /\ arriving = <<>>
    /\ input = <<>> /\ events = <<>>
    /\ runtime = "off" /\ emitting = <<>> /\ emitted = 0 /\ taken = 0
    /\ last = FALSE /\ stopped = 0
    /\ shutdown = FALSE

\* A connection that breaks loses an end of what was on its way.
Break ==
    /\ link' = "down"
    /\ \E n \in 0..Len(toAgent) : toAgent' = SubSeq(toAgent, 1, n)
    /\ \E n \in 0..Len(toGateway) : toGateway' = SubSeq(toGateway, 1, n)

-----------------------------------------------------------------------------
(* The gateway's end.                                                      *)

\* Open has read session.accepted.
Opened ==
    /\ user = "opening" /\ toGateway # <<>>
    /\ user' = "loop" /\ reader' = "reading" /\ toGateway' = Tail(toGateway)
    /\ UNCHANGED <<outgoing, sent, delivered, inbox, fetched, link, toAgent, handlerVars,
                   commandVars, sessionVars, runtimeVars, shutdown>>

\* Open fails: refused, a broken connection or no answer within five seconds.
OpenFails ==
    /\ user = "opening"
    /\ user' = "closed" /\ Break
    /\ UNCHANGED <<outgoing, sent, delivered, readVars, handlerVars, commandVars, sessionVars,
                   runtimeVars, shutdown>>

Send ==
    /\ user = "loop" /\ sent < MaxCommands
    /\ IF reader = "done"
       THEN user' = "closing" /\ UNCHANGED <<outgoing, sent>>
       ELSE user' = "sending" /\ sent' = sent + 1 /\ outgoing' = <<sent + 1>>
    /\ UNCHANGED <<delivered, readVars, wireVars, handlerVars, commandVars, sessionVars,
                   runtimeVars, shutdown>>

\* A write to a broken connection may succeed; nobody reads it.
Sent ==
    /\ user = "sending" /\ Len(toAgent) < NetDepth
    /\ toAgent' = IF link = "up" THEN toAgent \o outgoing ELSE toAgent
    /\ outgoing' = <<>> /\ user' = "loop"
    /\ UNCHANGED <<sent, delivered, readVars, link, toGateway, handlerVars, commandVars,
                   sessionVars, runtimeVars, shutdown>>

\* The connection is broken, or the write deadline passed with it full.
SendFails ==
    /\ user = "sending" /\ (link = "down" \/ Len(toAgent) = NetDepth)
    /\ outgoing' = <<>> /\ user' = "closing"
    /\ UNCHANGED <<sent, delivered, readVars, wireVars, handlerVars, commandVars, sessionVars,
                   runtimeVars, shutdown>>

Relay ==
    /\ user = "loop" /\ inbox # <<>>
    /\ delivered' = Head(inbox) /\ inbox' = Tail(inbox)
    /\ user' = IF Head(inbox) = stopped THEN "closing" ELSE user
    /\ UNCHANGED <<outgoing, sent, reader, fetched, wireVars, handlerVars, commandVars,
                   sessionVars, runtimeVars, shutdown>>

\* The client is gone or too slow, or the gateway stops; or Events was closed.
Leave ==
    /\ user = "loop"
    /\ user' = "closing"
    /\ UNCHANGED <<outgoing, sent, delivered, readVars, wireVars, handlerVars, commandVars,
                   sessionVars, runtimeVars, shutdown>>

SeesEnd == reader = "done" /\ inbox = <<>> /\ Leave

CloseSession ==
    /\ user = "closing"
    /\ user' = "waiting" /\ Break
    /\ UNCHANGED <<outgoing, sent, delivered, readVars, handlerVars, commandVars, sessionVars,
                   runtimeVars, shutdown>>

CloseReturns ==
    /\ user = "waiting" /\ reader = "done"
    /\ user' = "closed"
    /\ UNCHANGED <<outgoing, sent, delivered, readVars, wireVars, handlerVars, commandVars,
                   sessionVars, runtimeVars, shutdown>>

Fetch ==
    /\ reader = "reading" /\ toGateway # <<>>
    /\ fetched' = <<Head(toGateway)>> /\ toGateway' = Tail(toGateway) /\ reader' = "putting"
    /\ UNCHANGED <<gatewayVars, inbox, link, toAgent, handlerVars, commandVars, sessionVars,
                   runtimeVars, shutdown>>

\* Mutant: an event that finds the channel full is dropped.
PutOrDrop ==
    /\ reader = "putting"
    /\ inbox' = IF Len(inbox) < QueueDepth THEN inbox \o fetched ELSE inbox
    /\ fetched' = <<>> /\ reader' = "reading"
    /\ UNCHANGED <<gatewayVars, wireVars, handlerVars, commandVars, sessionVars, runtimeVars,
                   shutdown>>

Put ==
    /\ reader = "putting" /\ Len(inbox) < QueueDepth
    /\ inbox' = inbox \o fetched /\ fetched' = <<>> /\ reader' = "reading"
    /\ UNCHANGED <<gatewayVars, wireVars, handlerVars, commandVars, sessionVars, runtimeVars,
                   shutdown>>

\* Mutant: Close does not interrupt a read that waits for its channel.
PutNeverStops == FALSE /\ UNCHANGED vars

\* Close closed s.stop; its connection is already closed.
PutStops ==
    /\ reader = "putting" /\ user = "waiting"
    /\ fetched' = <<>> /\ reader' = "done"
    /\ UNCHANGED <<gatewayVars, inbox, wireVars, handlerVars, commandVars, sessionVars,
                   runtimeVars, shutdown>>

ReadFails ==
    /\ reader = "reading" /\ link = "down" /\ (toGateway = <<>> \/ user = "waiting")
    /\ reader' = "done" /\ toGateway' = <<>>
    /\ UNCHANGED <<gatewayVars, inbox, fetched, link, toAgent, handlerVars, commandVars,
                   sessionVars, runtimeVars, shutdown>>

-----------------------------------------------------------------------------
(* The agent's end: the handler and readCommands.                          *)

\* Authentication, a free slot, the upgrade, session.open and factory.Open.
Accept ==
    /\ handler = "idle" /\ user = "opening" /\ link = "up" /\ ~shutdown
    /\ handler' = "loop" /\ commandReader' = "reading" /\ runtime' = "ready"
    /\ toGateway' = <<Accepted>>
    /\ UNCHANGED <<gatewayVars, readVars, link, toAgent, passing, writing, why, commands, readError,
                   arriving, sessionVars, emitting, emitted, taken, last, stopped, shutdown>>

Refuse ==
    /\ handler = "idle"
    /\ handler' = "done" /\ Break
    /\ UNCHANGED <<gatewayVars, readVars, passing, writing, why, commandVars, sessionVars,
                   runtimeVars, shutdown>>

Receive ==
    /\ commandReader = "reading" /\ toAgent # <<>>
    /\ arriving' = <<Head(toAgent)>> /\ toAgent' = Tail(toAgent) /\ commandReader' = "putting"
    /\ UNCHANGED <<gatewayVars, readVars, link, toGateway, handlerVars, commands, readError,
                   sessionVars, runtimeVars, shutdown>>

\* Mutant: the channel of commands is taken to have room.
EnqueueAnyway ==
    /\ commandReader = "putting"
    /\ commands' = commands \o arriving /\ arriving' = <<>> /\ commandReader' = "reading"
    /\ UNCHANGED <<gatewayVars, readVars, wireVars, handlerVars, readError, sessionVars,
                   runtimeVars, shutdown>>

Enqueue ==
    /\ commandReader = "putting" /\ Len(commands) < QueueDepth
    /\ commands' = commands \o arriving /\ arriving' = <<>> /\ commandReader' = "reading"
    /\ UNCHANGED <<gatewayVars, readVars, wireVars, handlerVars, readError, sessionVars,
                   runtimeVars, shutdown>>

\* The context of a request ends with the process and when ServeHTTP returns.
EnqueueStops ==
    /\ commandReader = "putting" /\ (shutdown \/ handler = "done")
    /\ arriving' = <<>> /\ commandReader' = "done"
    /\ UNCHANGED <<gatewayVars, readVars, wireVars, handlerVars, commands, readError, sessionVars,
                   runtimeVars, shutdown>>

\* The other end closed or broke; or nothing came for the idle timeout: no
\* command, and no pong either, as the handler is busy and does not ping or
\* the gateway is busy and does not read.
Silent == reader # "reading" \/ handler # "loop"

ReceiveFails ==
    /\ commandReader = "reading" /\ toAgent = <<>> /\ (link = "down" \/ Silent)
    /\ readError' = TRUE /\ commandReader' = "done"
    /\ UNCHANGED <<gatewayVars, readVars, wireVars, handlerVars, commands, arriving, sessionVars,
                   runtimeVars, shutdown>>

TakeCommand ==
    /\ handler = "loop" /\ commands # <<>>
    /\ passing' = <<Head(commands)>> /\ commands' = Tail(commands) /\ handler' = "sending"
    /\ UNCHANGED <<gatewayVars, readVars, wireVars, writing, why, readError, commandReader,
                   arriving, sessionVars, runtimeVars, shutdown>>

\* runningSession.Send: a select between the channel, the end of the session
\* and the end of the request.
\* Mutant: a command that finds the channel full is dropped.
PassOrDrop ==
    /\ handler = "sending"
    /\ input' = IF Len(input) < QueueDepth THEN input \o passing ELSE input
    /\ passing' = <<>> /\ handler' = "loop"
    /\ UNCHANGED <<gatewayVars, readVars, wireVars, writing, why, commandVars, events,
                   runtimeVars, shutdown>>

Pass ==
    /\ handler = "sending" /\ Len(input) < QueueDepth
    /\ input' = input \o passing /\ passing' = <<>> /\ handler' = "loop"
    /\ UNCHANGED <<gatewayVars, readVars, wireVars, writing, why, commandVars, events,
                   runtimeVars, shutdown>>

PassFails ==
    /\ handler = "sending" /\ (runtime = "ended" \/ shutdown)
    /\ passing' = <<>> /\ handler' = "closing"
    /\ why' = IF runtime = "ended" THEN "ended" ELSE "fault"
    /\ UNCHANGED <<gatewayVars, readVars, wireVars, writing, commandVars, sessionVars,
                   runtimeVars, shutdown>>

TakeEvent ==
    /\ handler = "loop" /\ events # <<>>
    /\ events' = Tail(events)
    /\ \/ writing' = <<Head(events)>> /\ handler' = "writing" /\ why' = why
       \/ writing' = <<>> /\ handler' = "closing" /\ why' = "fault"
    /\ UNCHANGED <<gatewayVars, readVars, wireVars, passing, commandVars, input, runtimeVars,
                   shutdown>>

WriteEvent ==
    /\ handler = "writing" /\ Len(toGateway) < NetDepth
    /\ toGateway' = IF link = "up" THEN toGateway \o writing ELSE toGateway
    /\ writing' = <<>>
    /\ IF writing = <<stopped>> THEN handler' = "closing" /\ why' = "closed"
                                ELSE handler' = "loop" /\ why' = why
    /\ UNCHANGED <<gatewayVars, readVars, link, toAgent, passing, commandVars, sessionVars,
                   runtimeVars, shutdown>>

\* The connection is broken, or the write deadline passed with it full.
WriteEventFails ==
    /\ handler = "writing" /\ (link = "down" \/ Len(toGateway) = NetDepth)
    /\ writing' = <<>> /\ handler' = "closing" /\ why' = "fault"
    /\ UNCHANGED <<gatewayVars, readVars, wireVars, passing, commandVars, sessionVars, runtimeVars,
                   shutdown>>

\* The loop's other ways out; a ping fails on a broken connection.
HandlerLeaves ==
    /\ handler = "loop"
    /\ \/ (shutdown \/ readError \/ link = "down") /\ why' = "fault"
       \/ runtime = "ended" /\ events = <<>> /\ why' = "ended"
    /\ handler' = "closing"
    /\ UNCHANGED <<gatewayVars, readVars, wireVars, passing, writing, commandVars, sessionVars,
                   runtimeVars, shutdown>>

\* Close waits for the session; then the connection closes and the slot is free.
HandlerReturns ==
    /\ handler = "closing" /\ runtime = "ended"
    /\ handler' = "done" /\ why' = "none" /\ Break
    /\ UNCHANGED <<gatewayVars, readVars, passing, writing, commandVars, sessionVars,
                   runtimeVars, shutdown>>

-----------------------------------------------------------------------------
(* The running session.                                                    *)

\* Its context ends with the request's, and when the handler closes it.
Cancelled == shutdown \/ handler \in {"closing", "done"}

Take ==
    /\ runtime = "ready" /\ input # <<>>
    /\ taken' = Head(input) /\ input' = Tail(input)
    /\ UNCHANGED <<gatewayVars, readVars, wireVars, handlerVars, commandVars, events, runtime,
                   emitting, emitted, last, stopped, shutdown>>

\* The runtime emits an event; after the last one it returns.  The last one is
\* an error or, on a command, the announcement that the session was closed.
Emit ==
    /\ runtime = "ready" /\ emitted < MaxEvents
    /\ runtime' = "emitting" /\ emitted' = emitted + 1 /\ emitting' = <<emitted + 1>>
    /\ last' \in BOOLEAN
    /\ stopped' \in IF last' /\ taken > 0 THEN {0, emitted + 1} ELSE {0}
    /\ UNCHANGED <<gatewayVars, readVars, wireVars, handlerVars, commandVars, sessionVars, taken,
                   shutdown>>

Emitted ==
    /\ runtime = "emitting" /\ Len(events) < QueueDepth
    /\ events' = events \o emitting /\ emitting' = <<>>
    /\ runtime' = IF last THEN "ended" ELSE "ready"
    /\ last' = FALSE
    /\ UNCHANGED <<gatewayVars, readVars, wireVars, handlerVars, commandVars, input, emitted,
                   taken, stopped, shutdown>>

\* Mutant: emit waits for its channel only.
EndsWhenReady ==
    /\ runtime = "ready" /\ Cancelled
    /\ runtime' = "ended" /\ emitting' = <<>> /\ last' = FALSE
    /\ UNCHANGED <<gatewayVars, readVars, wireVars, handlerVars, commandVars, sessionVars, emitted,
                   taken, stopped, shutdown>>

Ends ==
    /\ runtime \in {"ready", "emitting"} /\ Cancelled
    /\ runtime' = "ended" /\ emitting' = <<>> /\ last' = FALSE
    /\ UNCHANGED <<gatewayVars, readVars, wireVars, handlerVars, commandVars, sessionVars, emitted,
                   taken, stopped, shutdown>>

-----------------------------------------------------------------------------
(* The environment.                                                        *)

Drop ==
    /\ link = "up" /\ Break
    /\ UNCHANGED <<gatewayVars, readVars, handlerVars, commandVars, sessionVars, runtimeVars,
                   shutdown>>

Shutdown ==
    /\ ~shutdown /\ shutdown' = TRUE
    /\ UNCHANGED <<gatewayVars, readVars, wireVars, handlerVars, commandVars, sessionVars,
                   runtimeVars>>

GatewayStep == Opened \/ OpenFails \/ Sent \/ SendFails \/ Relay \/ SeesEnd \/ CloseSession
                \/ CloseReturns
ReaderStep == Fetch \/ Put \/ PutStops \/ ReadFails
HandlerStep == Accept \/ TakeCommand \/ Pass \/ PassFails \/ TakeEvent \/ WriteEvent
                \/ WriteEventFails \/ HandlerLeaves \/ HandlerReturns
CommandReaderStep == Receive \/ Enqueue \/ EnqueueStops \/ ReceiveFails
RuntimeStep == Take \/ Emitted \/ Ends

\* What depends on the client, the provider and the network.
Choice == Send \/ Leave \/ Refuse \/ Emit \/ Drop \/ Shutdown

Next == GatewayStep \/ ReaderStep \/ HandlerStep \/ CommandReaderStep \/ RuntimeStep \/ Choice

\* Every goroutine that can go on does; every blocking call of the gateway
\* and every write of the handler has a deadline.
Fairness ==
    /\ WF_vars(GatewayStep) /\ WF_vars(ReaderStep) /\ WF_vars(HandlerStep)
    /\ WF_vars(CommandReaderStep) /\ WF_vars(RuntimeStep)

Spec == Init /\ [][Next]_vars /\ Fairness

-----------------------------------------------------------------------------
(* Nothing is lost, repeated or overtaken on the way: what can still come  *)
(* to one end is, in order, what the other sent and it did not take yet.   *)
(* While the connection and both ends are in use it is all of it (the      *)
(* contract's backpressure without dropped PCM); afterwards its beginning. *)
If(condition, s) == IF condition THEN s ELSE <<>>
Numbered(s, first) == \A i \in DOMAIN s : s[i] = first + i

HandlerGone == handler \in {"closing", "done"}

CommandsUnderway ==
    input \o If(~HandlerGone,
        passing \o commands \o If(commandReader # "done",
            arriving \o toAgent \o If(link = "up", outgoing)))

\* The events among the frames: session.accepted is the first frame.
EventFrames == IF toGateway # <<>> /\ Head(toGateway) = Accepted THEN Tail(toGateway) ELSE toGateway

EventsUnderway ==
    inbox \o If(reader # "done",
        fetched \o EventFrames
            \o If(link = "up" /\ ~HandlerGone, writing \o events \o emitting))

InUse == link = "up" /\ user \in {"opening", "loop", "sending"} /\ ~HandlerGone

NoCommandLost ==
    /\ Numbered(CommandsUnderway, taken)
    /\ InUse /\ commandReader # "done" => Len(CommandsUnderway) = sent - taken

NoEventLost ==
    /\ Numbered(EventsUnderway, delivered)
    /\ InUse /\ runtime # "ended" => Len(EventsUnderway) = emitted - delivered

-----------------------------------------------------------------------------
(* Why it holds: who holds a message and when; and where in the order what *)
(* each queue and goroutine holds begins.                                  *)
PipeShape ==
    /\ outgoing # <<>> <=> user = "sending"
    /\ fetched # <<>> <=> reader = "putting"
    /\ passing # <<>> <=> handler = "sending"
    /\ writing # <<>> <=> handler = "writing"
    /\ arriving # <<>> <=> commandReader = "putting"
    /\ emitting # <<>> <=> runtime = "emitting"
    /\ reader = "done" \/ user \in {"waiting", "closed"} => link = "down"
    /\ handler = "idle" => toGateway = <<>> /\ runtime = "off" /\ commandReader = "off"
    /\ user = "opening" =>
         /\ reader = "off" /\ (toGateway # <<>> => Head(toGateway) = Accepted)
         /\ link = "up" /\ handler # "idle" => toGateway # <<>>
    /\ reader # "off" => toGateway = EventFrames

AtHandler == taken + Len(input)
AtCommands == AtHandler + Len(passing)
AtReader == AtCommands + Len(commands)
AtWire == AtReader + Len(arriving)
AtGateway == AtWire + Len(toAgent)

CommandsInOrder ==
    /\ Numbered(input, taken)
    /\ ~HandlerGone => Numbered(passing, AtHandler) /\ Numbered(commands, AtCommands)
    /\ ~HandlerGone /\ commandReader # "done" =>
         /\ Numbered(arriving, AtReader) /\ Numbered(toAgent, AtWire)
         /\ link = "up" => Numbered(outgoing, AtGateway)
    /\ InUse /\ commandReader # "done" => AtGateway + Len(outgoing) = sent

FromReader == delivered + Len(inbox)
FromWire == FromReader + Len(fetched)
FromHandler == FromWire + Len(EventFrames)
FromSession == FromHandler + Len(writing)
FromRuntime == FromSession + Len(events)

EventsInOrder ==
    /\ Numbered(inbox, delivered)
    /\ reader # "done" => Numbered(fetched, FromReader) /\ Numbered(EventFrames, FromWire)
    /\ link = "up" /\ ~HandlerGone =>
         /\ Numbered(writing, FromHandler) /\ Numbered(events, FromSession) /\ Numbered(emitting, FromRuntime)
         /\ runtime # "ended" => FromRuntime + Len(emitting) = emitted

PipeInv == PipeTypeOK /\ PipeShape /\ CommandsInOrder /\ EventsInOrder

-----------------------------------------------------------------------------
(* Whatever the queues hold, a gateway that closes the session gets its    *)
(* goroutine back: Close does not wait for a reader that waits for it      *)
(* (remote.go 188-192, 221-232).                                           *)
CloseIsReturned == user = "closing" ~> user = "closed"

(* Stopping the agent process ends every session and frees its slot,       *)
(* also one whose handler and runtime wait for each other.                 *)
ShutdownFreesSlot == shutdown /\ handler \notin {"idle", "done"} ~> handler = "done"

(* voice/v1 README 116-118: a disconnect cancels all work and releases the *)
(* socket and the buffers.                                                 *)
DisconnectFreesSlot == link = "down" /\ handler # "idle" ~> handler = "done"

(* agent-session/v1 README, life cycle: a normal end is announced with     *)
(* agent.session.closed before the close frame; here, by a handler that    *)
(* leaves for no fault of the connection or of the process.                *)
NormalEndIsAnnounced ==
    handler = "closing" /\ stopped # 0 /\ ~shutdown => why # "ended"

=============================================================================
