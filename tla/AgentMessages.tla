---------------------------- MODULE AgentMessages ----------------------------
(***************************************************************************)
(* The messages of a session and the tests they pass on their way: the     *)
(* client's protocol (packages/go/voicewire), the gateway's translation    *)
(* (agent_handler.go), the agent's protocol (packages/go/agentwire) and    *)
(* the agents' translation (session/factory.go, account/session.go).       *)
(*                                                                         *)
(* Of a message the model keeps what some test reads or a translation      *)
(* renames: an id by its shape, audio and surfaces by their size in bytes, *)
(* strings by whether they are there.  Audio that is not base64 has size   *)
(* 0.  Text, roles, stages, tool names, arguments, results and metrics are *)
(* copied field by field by every translation and tested by none.          *)
(***************************************************************************)
EXTENDS Integers, FiniteSets

CONSTANT Nil  \* no message: refused; no operation

\* An id is absent, of letters and digits, begins with _ or -, or has . or : in it.
Shapes == {"absent", "plain", "marked", "dotted"}

ValidID(id) == id \in {"plain", "marked"}

\* Mutant: an id may begin with _ or -.
IdentifierOrMarked(id) == id # "absent"

Identifier(id) == id \in {"plain", "dotted"}

MaxAudioChunkBytes == 32000
MaxAudioBytes == 128 * 1024
MaxSurfaceBytes == 16384

\* Mutant: the largest chunk is refused.
DecodeSmallerAudio(bytes) == bytes \in 1..MaxAudioChunkBytes - 1 /\ bytes % 2 = 0

DecodeAudio(bytes) == bytes \in 1..MaxAudioChunkBytes /\ bytes % 2 = 0

-----------------------------------------------------------------------------
(* From the client to the agent.                                           *)

\* Fields a client may send that most events must not have.
Extras == {"server", "ui", "agent", "request", "provider", "toolFields"}

ClientTypes == {"session.start", "audio.append", "turn.commit", "turn.cancel", "session.stop", "tool.confirm",
                "audio.output"}

\* The client's tool field is reduced to the operation it names.
DecodeClient(version, e) ==
    /\ e.turn # "absent" => ValidID(e.turn)
    /\ "ui" \notin e.extra
    /\ "agent" \in e.extra => version = 2 /\ e.type = "session.start"
    /\ \/ e.type = "session.start" /\ e.session = "absent" /\ e.turn = "absent" /\ e.sequence = 0
       \/ e.type = "audio.append" /\ e.turn # "absent" /\ e.sequence # 0 /\ e.rate = 16000 /\ DecodeAudio(e.audio)
       \/ e.type \in {"turn.commit", "turn.cancel"} /\ e.turn # "absent"
       \/ e.type = "session.stop"
       \/ e.type = "tool.confirm" /\ ValidID(e.operation) /\ "toolFields" \notin e.extra
    /\ e.type # "session.start" => e.session # "absent" /\ e.extra \cap {"request", "provider"} = {}
    /\ "server" \notin e.extra
    /\ e.type # "tool.confirm" => e.operation = Nil /\ "toolFields" \notin e.extra
    /\ e.type # "audio.append" => e.audio = 0 /\ e.rate = 0 /\ e.sequence = 0

\* The client's name of a message is another one between gateway and agent.
Named(names, name) == CHOOSE type \in DOMAIN names : names[type] = name

CommandNames ==
    [type \in {"audio.append", "turn.commit", "turn.cancel", "tool.confirm", "session.stop"} |->
        CASE type = "audio.append" -> "input.audio"
          [] type = "turn.commit"  -> "input.commit"
          [] type = "turn.cancel"  -> "input.cancel"
          [] type = "tool.confirm" -> "input.confirmation"
          [] OTHER                 -> "input.close"]

\* agentCommandFromVoice: a second session.start is refused.
CommandFromVoice(e) ==
    IF e.type \notin DOMAIN CommandNames \/ (e.type = "audio.append" /\ ~DecodeAudio(e.audio)) THEN Nil
    ELSE [type |-> CommandNames[e.type], turn |-> e.turn, sequence |-> e.sequence, audio |-> e.audio,
          operation |-> e.operation]

\* Tested before it is sent and when it is received.
ValidateCommand(c) ==
    \/ c.type = "input.audio" /\ Identifier(c.turn) /\ c.sequence # 0 /\ c.audio \in 1..MaxAudioBytes /\ c.audio % 2 = 0
    \/ c.type \in {"input.commit", "input.cancel"} /\ Identifier(c.turn) /\ c.sequence = 0 /\ c.audio = 0
    \/ c.type = "input.confirmation" /\ Identifier(c.operation) /\ c.sequence = 0 /\ c.audio = 0
    \/ c.type = "input.close" /\ c.turn = "absent" /\ c.sequence = 0 /\ c.audio = 0

\* voiceEventFromAgentCommand: the event the agent's loop reads.
VoiceFromCommand(c) ==
    IF c.type = "input.audio" /\ c.audio = 0 THEN Nil
    ELSE [type |-> Named(CommandNames, c.type),
          turn |-> c.turn, sequence |-> c.sequence, audio |-> c.audio,
          rate |-> IF c.type = "input.audio" THEN 16000 ELSE 0, operation |-> c.operation]

\* What the gateway answers in a running session: an error that the client may
\* go on after, the end of the session, or nothing.
Verdict(version, e) ==
    IF ~DecodeClient(version, e) THEN "invalid_event"
    ELSE IF e.session # "own" THEN "session_mismatch"
    ELSE IF CommandFromVoice(e) = Nil THEN "invalid_transition"
    ELSE IF ~ValidateCommand(CommandFromVoice(e)) THEN "provider_unavailable"
    ELSE "sent"

-----------------------------------------------------------------------------
(* From the agent to the client.                                           *)

EventNames ==
    [type \in {"session.ready", "session.state", "session.renewed", "session.stopped", "audio.output",
               "transcript", "error", "turn.started", "turn.completed", "turn.interrupted", "tool.started",
               "tool.result", "tool.confirmation"} |->
        CASE type = "session.ready"   -> "agent.session.ready"
          [] type = "session.state"   -> "agent.session.state"
          [] type = "session.renewed" -> "agent.session.renewed"
          [] type = "session.stopped" -> "agent.session.closed"
          [] type = "audio.output"    -> "output.audio"
          [] type = "transcript"      -> "output.transcript"
          [] type = "error"           -> "agent.error"
          [] OTHER                    -> type]

\* agentEventFromVoice of the personal assistant.
AgentFromVoice(e) ==
    IF e.type \notin DOMAIN EventNames \/ (e.type = "audio.output" /\ ~DecodeAudio(e.audio)) THEN Nil
    ELSE [e EXCEPT !.type = EventNames[e.type]]

\* agentEventFromVoice of the account agent, which shows surfaces too.
AgentFromAccountVoice(e) == IF e.type = "ui.a2ui" THEN e ELSE AgentFromVoice(e)

\* Tested before it is sent and when it is received.
ValidateEvent(protocol, e) ==
    \/ e.type \in {"agent.session.ready", "agent.session.renewed"} /\ e.provider /\ e.state
    \/ e.type \in {"agent.session.state", "agent.session.closed"} /\ e.state
    \/ e.type \in {"output.transcript", "turn.started", "turn.completed", "turn.interrupted"} /\ Identifier(e.turn)
    \/ e.type \in {"tool.started", "tool.result", "tool.confirmation"} /\ Identifier(e.turn) /\ Identifier(e.operation)
    \/ e.type = "ui.a2ui" /\ protocol = "v2" /\ e.ui \in 1..MaxSurfaceBytes
    \/ e.type = "agent.error" /\ e.code
    \/ e.type = "output.audio" /\ Identifier(e.turn) /\ e.sequence # 0 /\ e.audio \in 1..MaxAudioBytes /\ e.audio % 2 = 0 /\ e.rate > 0

\* voiceEventFromAgent.
VoiceFromAgent(e) ==
    IF e.type = "output.audio" /\ e.audio = 0 THEN Nil
    ELSE IF e.type = "ui.a2ui" THEN e
    ELSE [e EXCEPT !.type = Named(EventNames, e.type)]

\* What the client gets of an event an agent emits, or Nil: the session ends.
Delivered(protocol, e) ==
    LET sent == IF protocol = "v2" THEN AgentFromAccountVoice(e) ELSE AgentFromVoice(e) IN
    IF sent = Nil \/ ~ValidateEvent(protocol, sent) THEN Nil ELSE VoiceFromAgent(sent)

=============================================================================
