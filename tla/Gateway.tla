------------------------------- MODULE Gateway -------------------------------
(***************************************************************************)
(* The voice gateway and its clients: apps/voice-gateway/internal/adapters *)
(* /voice, server.go (ServeHTTP, Close) and agent_handler.go (handleVoice, *)
(* readVoiceEvents).  Each client has a request, handled by a goroutine    *)
(* that becomes the session's when it is upgraded, and a reader goroutine. *)
(* They share the slots, the map of connections, the wait group and the    *)
(* context that Close cancels; the mutex guards the map.                   *)
(*                                                                         *)
(* The agent session is abstracted to whether it is open: AgentPipe has    *)
(* its inside, and shows that its Close returns.  An event read but not    *)
(* yet put in the channel, the messages there, and what a write or a send  *)
(* carries, are counted, not told apart.                                   *)
(***************************************************************************)
EXTENDS Integers, FiniteSets

CONSTANTS
    Clients,
    MaxSessions,   \* slots
    InboundDepth,  \* capacity of the channel of a client's events (8)
    Agents,        \* the catalogue,
    AgentProtocol  \* and the protocol of each agent, "v1" or "v2"

ASSUME GatewayAssumption ==
    /\ MaxSessions \in Nat \ {0} /\ InboundDepth \in Nat \ {0}
    /\ AgentProtocol \in [Agents -> {"v1", "v2"}]
    /\ Agents \cap {"none", "closed"} = {}  \* marks of the model, no agents

VARIABLES
    stage,        \* where the client's request or session is
    slots,        \* who holds a slot
    connections,  \* the map of connections
    group,        \* who the wait group waits for
    sockets,      \* open sockets
    gone,         \* clients that left, or whose connection broke
    listener,     \* the reader goroutine
    inbound,      \* events in its channel
    cancelled,    \* sessions whose context is cancelled
    version,      \* the protocol the client asked for
    principal,    \* who the gateway says the client is
    session,      \* the agent of the session, once open
    closer        \* Close: not called, waiting, returned or timed out

requestVars == <<slots, connections, group, version, principal>>
socketVars == <<sockets, gone, listener, inbound, cancelled>>
gatewayStateVars == <<stage, requestVars, socketVars, session, closer>>

-----------------------------------------------------------------------------
Closed == "closed"  \* an agent session that was closed
NoOne == "none"

\* Before there is a goroutine for the session; while it runs; while it ends.
Asking == {"none", "asking", "upgrading", "upgraded"}
Running == {"starting", "opening", "serving", "busy"}
Ending == {"leaving", "closing", "joining", "freeing", "done"}

GatewayTypeOK ==
    /\ stage \in [Clients -> Asking \cup Running \cup Ending]
    /\ slots \subseteq Clients /\ connections \subseteq Clients /\ group \subseteq Clients
    /\ sockets \subseteq Clients /\ gone \subseteq Clients
    /\ listener \in [Clients -> {"off", "reading", "putting", "done"}]
    /\ inbound \in [Clients -> 0..InboundDepth]
    /\ cancelled \subseteq Clients
    /\ version \in [Clients -> {"v1", "v2"}]
    /\ principal \in [Clients -> {NoOne, "development", "device", "account"}]
    /\ session \in [Clients -> Agents \cup {NoOne, Closed}]
    /\ closer \in {"off", "waiting", "returned", "late"}

GatewayInit ==
    /\ stage = [c \in Clients |-> "none"]
    /\ slots = {} /\ connections = {} /\ group = {} /\ sockets = {} /\ gone = {}
    /\ listener = [c \in Clients |-> "off"] /\ inbound = [c \in Clients |-> 0]
    /\ cancelled = {}
    /\ version \in [Clients -> {"v1", "v2"}]
    /\ principal = [c \in Clients |-> NoOne]
    /\ session = [c \in Clients |-> NoOne]
    /\ closer = "off"

Stopping == closer # "off"

Cancels(c) == c \in cancelled \/ Stopping

Move(c, from, to) == stage[c] \in from /\ stage' = [stage EXCEPT ![c] = to]

-----------------------------------------------------------------------------
(* The request.                                                            *)

\* ServeHTTP and authorize: refused by a gateway that stops, or for its token.
Request(c) ==
    /\ \E to \in IF Stopping THEN {"done"} ELSE {"asking", "done"} : Move(c, {"none"}, to)
    /\ principal' = [principal EXCEPT ![c] = "development"]
    /\ UNCHANGED <<slots, connections, group, version, socketVars, session, closer>>

\* accountPrincipal, by device or by the identity service's answer; then a slot.
Admit(c) ==
    /\ principal' \in {[principal EXCEPT ![c] = p] :
                          p \in IF version[c] = "v2" THEN {"device", "account"} ELSE {principal[c]}}
    /\ \/ /\ Cardinality(slots) < MaxSessions
          /\ slots' = slots \cup {c} /\ Move(c, {"asking"}, "upgrading")
       \/ /\ Cardinality(slots) >= MaxSessions \/ version[c] = "v2"
          /\ slots' = slots /\ Move(c, {"asking"}, "done")
    /\ UNCHANGED <<connections, group, version, socketVars, session, closer>>

Upgrade(c) ==
    /\ \/ Move(c, {"upgrading"}, "upgraded") /\ sockets' = sockets \cup {c}
       \/ Move(c, {"upgrading"}, "freeing") /\ sockets' = sockets
    /\ UNCHANGED <<requestVars, gone, listener, inbound, cancelled, session, closer>>

\* Mutant: whether the gateway stops is not asked under the mutex.
RegisterAnyway(c) ==
    /\ Move(c, {"upgraded"}, "starting")
    /\ connections' = connections \cup {c} /\ group' = group \cup {c}
    /\ listener' = [listener EXCEPT ![c] = "reading"]
    /\ UNCHANGED <<slots, version, principal, sockets, gone, inbound, cancelled, session, closer>>

\* One critical section: closed unseen, or registered and then closed by Close.
Register(c) ==
    /\ IF Stopping
       THEN /\ Move(c, {"upgraded"}, "freeing")
            /\ sockets' = sockets \ {c}
            /\ UNCHANGED <<connections, group, listener>>
       ELSE /\ Move(c, {"upgraded"}, "starting")
            /\ connections' = connections \cup {c} /\ group' = group \cup {c}
            /\ listener' = [listener EXCEPT ![c] = "reading"]
            /\ UNCHANGED sockets
    /\ UNCHANGED <<slots, version, principal, gone, inbound, cancelled, session, closer>>

-----------------------------------------------------------------------------
(* The session's goroutine.                                                *)

GoesOn == UNCHANGED <<requestVars, sockets, gone, listener, cancelled, closer>>

\* session.start did not come in time.
StartLate(c) ==
    /\ Move(c, {"starting"}, "leaving")
    /\ UNCHANGED <<inbound, session>> /\ GoesOn

\* The context is done, or the channel is closed and empty.
Notice(c) ==
    /\ Cancels(c) \/ (listener[c] = "done" /\ inbound[c] = 0)
    /\ Move(c, {"starting", "serving"}, "leaving")
    /\ UNCHANGED <<inbound, session>> /\ GoesOn

\* A ping may reach nobody and succeed.
PingFails(c) ==
    /\ c \in gone \/ c \notin sockets
    /\ Move(c, {"starting", "serving"}, "leaving")
    /\ UNCHANGED <<inbound, session>> /\ GoesOn

\* Before the start: an invalid event is answered, session.start opens the agent.
Hear(c) ==
    /\ inbound[c] > 0
    /\ inbound' = [inbound EXCEPT ![c] = @ - 1]
    /\ \E to \in {"starting", "opening", "leaving"} : Move(c, {"starting"}, to)
    /\ UNCHANGED session /\ GoesOn

\* Mutant: a client of v1 may choose any agent.
OfferedAll(c) == Agents

\* The agents a client may have.
Offered(c) == {a \in Agents : AgentProtocol[a] = "v1" \/ version[c] = "v2"}

\* Who the agent is told the client is.
Shown(c, a) == IF AgentProtocol[a] = "v2" THEN principal[c] ELSE "development"

\* agentFactory.Open succeeds or fails, within its deadlines.
OpenAgent(c) ==
    /\ \/ /\ Move(c, {"opening"}, "serving")
          /\ \E a \in Offered(c) :
               session' = [session EXCEPT ![c] = a] /\ principal' = [principal EXCEPT ![c] = Shown(c, a)]
       \/ Move(c, {"opening"}, "leaving") /\ UNCHANGED <<session, principal>>
    /\ UNCHANGED <<slots, connections, group, version, socketVars, closer>>

\* A client's event, to be sent to the agent or answered with an error.
TakeInput(c) ==
    /\ inbound[c] > 0
    /\ inbound' = [inbound EXCEPT ![c] = @ - 1]
    /\ Move(c, {"serving"}, "busy")
    /\ UNCHANGED session /\ GoesOn

\* An agent's event, to be written to the client.
AgentSpeaks(c) ==
    /\ Move(c, {"serving"}, "busy")
    /\ UNCHANGED <<inbound, session>> /\ GoesOn

\* Within the deadlines of a send and a write; both may succeed although the
\* client is gone and the context done.
WorkDone(c) ==
    /\ \E to \in {"serving", "leaving"} : Move(c, {"busy"}, to)
    /\ UNCHANGED <<inbound, session>> /\ GoesOn

\* Events was closed, or the agent's end was announced.
AgentEnded(c) ==
    /\ Move(c, {"serving"}, "leaving")
    /\ UNCHANGED <<inbound, session>> /\ GoesOn

\* The deferred calls, last first: cancel and agent.Close ...
Cancel(c) ==
    /\ Move(c, {"leaving"}, "closing")
    /\ cancelled' = cancelled \cup {c}
    /\ UNCHANGED <<requestVars, sockets, gone, listener, inbound, session, closer>>

\* Mutant: the socket is left to the peer.
KeepSocket(c) == UNCHANGED sockets

CloseSocket(c) == sockets' = sockets \ {c}

\* ... which returns, and conn.Close ...
CloseAgent(c) ==
    /\ Move(c, {"closing"}, "joining")
    /\ session' = [session EXCEPT ![c] = IF @ = NoOne THEN NoOne ELSE Closed]
    /\ CloseSocket(c)
    /\ UNCHANGED <<requestVars, gone, listener, inbound, cancelled, closer>>

\* ... the reader's end, then the map and the wait group ...
Unregister(c) ==
    /\ listener[c] = "done"
    /\ Move(c, {"joining"}, "freeing")
    /\ connections' = connections \ {c} /\ group' = group \ {c}
    /\ UNCHANGED <<slots, version, principal, socketVars, session, closer>>

\* ... and the slot.
FreeSlot(c) ==
    /\ Move(c, {"freeing"}, "done")
    /\ slots' = slots \ {c}
    /\ UNCHANGED <<connections, group, version, principal, socketVars, session, closer>>

-----------------------------------------------------------------------------
(* readVoiceEvents.                                                        *)

ListenerMoves(c, from, to) ==
    /\ listener[c] = from /\ listener' = [listener EXCEPT ![c] = to]
    /\ UNCHANGED <<stage, requestVars, sockets, gone, session, closer>>

\* What a closed connection has buffered is still read.
Listen(c) ==
    /\ c \notin gone
    /\ ListenerMoves(c, "reading", "putting")
    /\ UNCHANGED <<inbound, cancelled>>

Push(c) ==
    /\ inbound[c] < InboundDepth
    /\ ListenerMoves(c, "putting", "reading")
    /\ inbound' = [inbound EXCEPT ![c] = @ + 1]
    /\ UNCHANGED cancelled

\* Mutant: a full channel is waited for whatever happens.
PushNeverStops(c) == FALSE /\ UNCHANGED gatewayStateVars

\* The channel is full and the session ends.
PushStops(c) ==
    /\ Cancels(c)
    /\ ListenerMoves(c, "putting", "done")
    /\ cancelled' = cancelled \cup {c} /\ UNCHANGED inbound

\* The socket is closed on either side; the end cancels the session.
ListenFails(c) ==
    /\ c \notin sockets \/ c \in gone
    /\ ListenerMoves(c, "reading", "done")
    /\ cancelled' = cancelled \cup {c} /\ UNCHANGED inbound

-----------------------------------------------------------------------------
(* The client, and Close.                                                  *)

\* It leaves, or it is silent beyond the read deadline.
ClientLeaves(c) ==
    /\ c \in sockets \ gone
    /\ gone' = gone \cup {c}
    /\ UNCHANGED <<stage, requestVars, sockets, listener, inbound, cancelled, session, closer>>

\* One critical section: cancel, and close what is registered.
Stop ==
    /\ closer = "off" /\ closer' = "waiting"
    /\ sockets' = sockets \ connections
    /\ UNCHANGED <<stage, requestVars, gone, listener, inbound, cancelled, session>>

StopReturns ==
    /\ closer = "waiting"
    /\ \/ group = {} /\ closer' = "returned"
       \/ group # {} /\ closer' = "late"
    /\ UNCHANGED <<stage, requestVars, socketVars, session>>

\* What the goroutine does on its way, or waits for with a deadline.
SessionStep(c) ==
    \/ Admit(c) \/ Upgrade(c) \/ Register(c) \/ OpenAgent(c) \/ WorkDone(c)
    \/ Cancel(c) \/ CloseAgent(c) \/ Unregister(c) \/ FreeSlot(c)

\* The cases of its selects that the gateway itself makes ready; among the
\* ready cases Go chooses at random.
InputCase(c) == Hear(c) \/ TakeInput(c)

ListenerStep(c) == Push(c) \/ PushStops(c) \/ ListenFails(c)

\* What depends on the client, the agent and the operator.
OutsideStep(c) ==
    Request(c) \/ AgentSpeaks(c) \/ AgentEnded(c) \/ PingFails(c) \/ Listen(c) \/ ClientLeaves(c)

GatewayNext ==
    \/ \E c \in Clients : \/ SessionStep(c) \/ Notice(c) \/ InputCase(c) \/ StartLate(c)
                         \/ ListenerStep(c) \/ OutsideStep(c)
    \/ Stop \/ StopReturns

GatewaySpec == GatewayInit /\ [][GatewayNext]_gatewayStateVars

-----------------------------------------------------------------------------
(* A client that is upgraded while the gateway stops is either registered  *)
(* and closed by Close or closes itself: after Close no session of a       *)
(* client is left that nothing will end, and when Close has returned nil   *)
(* no goroutine, agent session or socket of a registered client is left    *)
(* (agent_handler.go 49-58, server.go 182-197).                            *)
StoppedIsClosed ==
    /\ Stopping => \A c \in sockets : stage[c] = "upgraded"
    /\ closer = "returned" =>
         \A c \in Clients : /\ stage[c] \notin Running \cup {"leaving", "closing", "joining"}
                            /\ listener[c] \in {"off", "done"}
                            /\ session[c] \in {NoOne, Closed}

(* The map, the wait group, the slots and the sockets agree with where the *)
(* sessions are, through every early return (agent_handler.go 37-71).      *)
CleanedUp ==
    /\ GatewayTypeOK
    /\ Cardinality(slots) <= MaxSessions
    /\ connections = group
    /\ \A c \in Clients :
         /\ c \in connections <=> stage[c] \in Running \cup {"leaving", "closing", "joining"}
         /\ c \in slots <=> stage[c] \in Running \cup {"upgrading", "upgraded", "leaving", "closing", "joining", "freeing"}
         /\ stage[c] \in {"joining", "freeing", "done"} => c \notin sockets /\ session[c] \in {NoOne, Closed}

(* What identity the client has shown goes only to agents of v2, and those *)
(* only serve clients of v2 (agent_handler.go 127-148).                    *)
IdentityStaysOnV2 ==
    \A c \in Clients : session[c] \in Agents =>
        /\ AgentProtocol[session[c]] = "v2" => version[c] = "v2" /\ principal[c] \in {"device", "account"}
        /\ AgentProtocol[session[c]] = "v1" => principal[c] = "development"

\* A session in use: its agent opens or is open, and nothing ends it yet.
Used(c) == stage[c] \in {"opening", "serving", "busy"} /\ c \notin gone /\ ~Stopping

(* No wait in the handler or the reader outlasts its peer, and no select   *)
(* goes on for ever once its context is done: the slot of a client that    *)
(* left, or that never starts a session, comes back wherever its session   *)
(* is, and all of them do when the gateway stops (agent_handler.go 64-71,  *)
(* 88-100, 159-162, 231-247).                                              *)
SlotsComeBack ==
    \A c \in Clients :
        c \in gone \/ Stopping \/ stage[c] = "starting" ~> c \notin slots \/ Used(c)

-----------------------------------------------------------------------------
(* Why the safety properties hold: what a client has at each stage.        *)

Registered == Running \cup {"leaving", "closing", "joining"}

SlotsHaveRoom == IsFiniteSet(slots) /\ Cardinality(slots) <= MaxSessions

\* The map, the wait group and the slots are those of the stages.
BooksAgree ==
    /\ connections = {c \in Clients : stage[c] \in Registered}
    /\ group = connections
    /\ slots = {c \in Clients : stage[c] \in Registered \cup {"upgrading", "upgraded", "freeing"}}

\* A socket, a reader and an open agent session are there at their stages only.
HeldInTime ==
    \A c \in Clients :
        /\ c \in sockets => stage[c] \in Running \cup {"upgraded", "leaving", "closing"}
        /\ listener[c] \in {"reading", "putting"} => stage[c] \in Registered
        /\ session[c] \in Agents => stage[c] \in {"serving", "busy", "leaving", "closing"}

\* Close leaves only who is not registered, and will close itself.
ClosedByClose ==
    /\ Stopping => \A c \in sockets : stage[c] = "upgraded"
    /\ closer = "returned" => group = {}

\* A client of v2 is admitted with an identity, and has it until its agent opens.
AdmittedKnown ==
    \A c \in Clients :
        stage[c] \in {"upgrading", "upgraded", "starting", "opening"} /\ version[c] = "v2" =>
            principal[c] \in {"device", "account"}

GatewayInv ==
    /\ GatewayTypeOK /\ SlotsHaveRoom /\ BooksAgree
    /\ HeldInTime /\ ClosedByClose /\ AdmittedKnown /\ IdentityStaysOnV2

=============================================================================
