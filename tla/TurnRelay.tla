------------------------------ MODULE TurnRelay ------------------------------
(***************************************************************************)
(* The story of the mapper (TurnStory) as the client gets it: what the     *)
(* mapper tells passes the messages and tests of AgentMessages, from the   *)
(* agent over the gateway, and the client's events pass the other way.     *)
(***************************************************************************)
EXTENDS TurnStory

Wire == INSTANCE AgentMessages WITH Nil <- None

Renamed(names) == {names[type] : type \in DOMAIN names}

\* What is sent is neither the nil nor an id.
Messages ==
    [type : DOMAIN Wire!EventNames \cup Renamed(Wire!EventNames) \cup {"ui.a2ui"},
     turn : Wire!Shapes, sequence : Nat, audio : Nat, rate : Nat, provider : BOOLEAN,
     state : BOOLEAN, code : BOOLEAN, operation : Wire!Shapes \cup {None}, ui : Nat]

Commands ==
    [type : Renamed(Wire!CommandNames), turn : Wire!Shapes, sequence : Nat, audio : Nat, operation : Wire!Shapes \cup {None}]

ASSUME RelayAssumption == None \notin Messages \cup Commands \cup Wire!Shapes \cup {"t"}

Message(type) ==
    [type |-> type, turn |-> "absent", sequence |-> 0, audio |-> 0, rate |-> 0, provider |-> FALSE,
     state |-> FALSE, code |-> FALSE, operation |-> None, ui |-> 0]

OfTurn(type, t) == [Message(type) EXCEPT !.turn = IF t = None THEN "absent" ELSE "plain"]

StateOf(t) == [OfTurn("session.state", t) EXCEPT !.state = TRUE]

\* Of a number the tests ask only whether it is 0.
Audio(t, n, bytes) ==
    [OfTurn("audio.output", t) EXCEPT !.sequence = IF n = 0 THEN 0 ELSE 1, !.audio = bytes, !.rate = 24000]

Tool(type, t, operation) == [OfTurn(type, t) EXCEPT !.operation = operation]

\* The event of the mapper as the agent emits it, its audio of a given size.
Emitted(e, bytes) ==
    CASE e.type = "started"     -> OfTurn("turn.started", e.turn)
      [] e.type = "interrupted" -> OfTurn("turn.interrupted", e.turn)
      [] e.type = "completed"   -> OfTurn("turn.completed", e.turn)
      [] e.type = "transcript"  -> OfTurn("transcript", e.turn)
      [] e.type = "audio"       -> Audio(e.turn, e.n, bytes)
      [] e.type = "tool"        -> Tool("tool.started", e.turn, "plain")
      [] OTHER                  -> StateOf(e.turn)

\* The sizes of audio the mapper lets through, around the limits on the way.
MaxPcmBytes == 256 * 1024

PcmSizes ==
    {bytes \in {2, Wire!MaxAudioChunkBytes, Wire!MaxAudioChunkBytes + 2, Wire!MaxAudioBytes,
                Wire!MaxAudioBytes + 2, MaxPcmBytes, MaxPcmBytes + 2} :
        bytes <= MaxPcmBytes /\ bytes % 2 = 0}

\* What the loops emit themselves: beginning, renewal, end, tools, errors, surfaces.
LoopEvents ==
    {[Message(type) EXCEPT !.provider = TRUE, !.state = TRUE] : type \in {"session.ready", "session.renewed"}}
        \cup {[Message("session.stopped") EXCEPT !.state = TRUE], [Message("error") EXCEPT !.code = TRUE]}
        \cup {Tool(type, "t", "plain") : type \in {"tool.started", "tool.result", "tool.confirmation"}}

Surface == [Message("ui.a2ui") EXCEPT !.ui = 1]

-----------------------------------------------------------------------------
SizesOf(type) == IF type = "audio" THEN PcmSizes ELSE {0}

\* All that may be emitted of the mapper's events, and what the client gets as it was told.
Emissions ==
    UNION {{Emitted([type |-> type, turn |-> t, n |-> n], bytes) : t \in {None, "t"}, n \in {0, 1}, bytes \in SizesOf(type)} :
              type \in EventTypes}

Delivered == {e \in Emissions : \A protocol \in {"v1", "v2"} : Wire!Delivered(protocol, e) = e}

ToldArrives ==
    \A e \in out' : \A bytes \in SizesOf(e.type) :
        LET emitted == Emitted(e, bytes) IN
        emitted \in Delivered <=>
            /\ e.turn = None => emitted.type = "session.state"
            /\ e.type = "audio" => bytes <= 32000

(* What the mapper tells of a turn reaches the client as it was told: no   *)
(* test on the way is stricter than the mapper.  Two exceptions, which end *)
(* the session: events of no turn but the states (mapper.go 120), and      *)
(* audio beyond 32,000 bytes, which the mapper accepts up to 256 KiB and   *)
(* the transport up to 128 KiB (mapper.go 143, event.go 153-162,           *)
(* protocol.go 134-172).                                                   *)
EventsReachTheClient == [][ToldArrives]_vars

\* Every event of a client in a running session, its extra fields one at a time.
ClientEvents ==
    [type : Wire!ClientTypes, session : {"absent", "own", "other"}, turn : Wire!Shapes, sequence : {0, 1},
     audio : {0, 3, 32000, 32002}, rate : {0, 16000}, operation : Wire!Shapes \cup {None},
     extra : {{}} \cup {{x} : x \in Wire!Extras}]

\* Legal for the client's protocol, and for this session.
Legal(version, e) ==
    Wire!DecodeClient(version, e) /\ e.session = "own" /\ e.type # "session.start"

\* Ids that only the client's protocol admits, and a stop that names a turn.
Unsendable(e) ==
    \/ e.type \in {"audio.append", "turn.commit", "turn.cancel"} /\ e.turn = "marked"
    \/ e.type = "tool.confirm" /\ e.operation = "marked"
    \/ e.type = "session.stop" /\ e.turn # "absent"

Sent(e) ==
    [type |-> e.type, turn |-> e.turn, sequence |-> e.sequence, audio |-> e.audio, rate |-> e.rate,
     operation |-> e.operation]

\* What becomes of each of these events.
EventsReachTheLoop(events) ==
    \A version \in {1, 2}, e \in events :
        LET verdict == Wire!Verdict(version, e) IN
        /\ verdict = "sent" => Wire!VoiceFromCommand(Wire!CommandFromVoice(e)) = Sent(e)
        /\ verdict = "sent" <=> Legal(version, e) /\ ~Unsendable(e)
        /\ verdict = "provider_unavailable" <=> Legal(version, e) /\ Unsendable(e)

(* A legal event of the client reaches the agent's loop as it was sent, an *)
(* illegal one is answered and changes nothing; what the client's protocol *)
(* admits and the agent's does not ends the session: an id that begins     *)
(* with _ or -, and a stop that names a turn (event.go 77-151,             *)
(* agent_handler.go 166-192, protocol.go 106-132).                         *)
ClientEventsReachTheLoop == EventsReachTheLoop(ClientEvents)

\* What the loops emit themselves reaches the client, surfaces only on v2.
LoopEventsReachTheClient ==
    \A protocol \in {"v1", "v2"} :
        /\ \A e \in LoopEvents : Wire!Delivered(protocol, e) = e
        /\ Wire!Delivered(protocol, Surface) = IF protocol = "v2" THEN Surface ELSE None

\* A turn that the client was told of it can commit and cancel.
ToldTurnsCanBeNamed ==
    \A t \in told, type \in {"turn.commit", "turn.cancel"}, version \in {1, 2} :
        Wire!Verdict(version, [type |-> type, session |-> "own", turn |-> OfTurn("turn.started", t).turn, sequence |-> 0,
                               audio |-> 0, rate |-> 0, operation |-> None, extra |-> {}]) = "sent"

MessagesPass == ClientEventsReachTheLoop /\ LoopEventsReachTheClient /\ ToldTurnsCanBeNamed

=============================================================================
