---------------------------- MODULE RealtimeStream ----------------------------
(***************************************************************************)
(* The provider's side of a session: packages/go/realtime/stream.go.  A    *)
(* message of the provider is decoded into one to three events, which the  *)
(* session's owner reads from a channel one at a time.  One message is     *)
(* under way at a time: what the provider sends does not depend on how far *)
(* the owner has read, so a longer backlog adds no behaviour.              *)
(*                                                                         *)
(* A content id belongs to a user item, to a part of the assistant's       *)
(* answer or to a tool call.  The provider is taken to keep the type of a  *)
(* part it has begun.                                                      *)
(***************************************************************************)
EXTENDS Integers, Sequences

CONSTANTS
    Items,       \* user items: what the provider hears
    Parts,       \* parts of the assistant's answer, spoken or written
    CallIDs,     \* tool calls
    Operations,  \* what a tool call may ask for
    None         \* an event that is about no content

VARIABLES
    feed,        \* the events of the message under way, not yet read
    openItems,   \* items whose transcription is not complete (s.users)
    openParts    \* the type of each part begun and not done (s.parts)

streamVars == <<feed, openItems, openParts>>

-----------------------------------------------------------------------------
PartTypes == {"audio", "text"}
EventKinds == {"start", "start_audio", "start_text", "text", "audio", "use", "end", "interrupted", "completionEnd", "error"}

\* `about' is a content id, or for a tool call the call and its operation.
StreamEvents ==
    [kind : EventKinds, about : Items \cup Parts \cup (CallIDs \X Operations) \cup {None}]

Event(kind, about) == [kind |-> kind, about |-> about]

StreamTypeOK ==
    /\ feed \in Seq(StreamEvents) /\ Len(feed) <= 3
    /\ openItems \subseteq Items
    /\ openParts \in [Parts -> PartTypes \cup {None}]

\* Open: a fresh connection, None said yet.  Close drops what was not read.
NoParts == [p \in Parts |-> None]

OpenStream == feed = <<>> /\ openItems = {} /\ openParts = NoParts

ReopenStream == feed' = <<>> /\ openItems' = {} /\ openParts' = NoParts

-----------------------------------------------------------------------------
(* decode, by type of message.                                             *)

SpeechStarted ==
    /\ feed' = <<Event("interrupted", None)>>
    /\ UNCHANGED <<openItems, openParts>>

TranscriptionDelta(x) ==
    /\ feed' = IF x \in openItems THEN <<Event("text", x)>>
               ELSE <<Event("start", x), Event("text", x)>>
    /\ openItems' = openItems \cup {x}
    /\ UNCHANGED openParts

TranscriptionCompleted(x) ==
    /\ feed' = IF x \in openItems THEN <<Event("end", x)>>
               ELSE <<Event("start", x), Event("text", x), Event("end", x)>>
    /\ openItems' = openItems \ {x}
    /\ UNCHANGED openParts

PartStart(p, type) == Event(IF type = "audio" THEN "start_audio" ELSE "start_text", p)

PartAdded(p, type) ==
    /\ feed' = <<PartStart(p, type)>>
    /\ openParts' = [openParts EXCEPT ![p] = type]
    /\ UNCHANGED openItems

PartDelta(p, type) ==
    /\ openParts[p] \in {None, type}
    /\ feed' = IF openParts[p] = None THEN <<PartStart(p, type), Event(type, p)>>
               ELSE <<Event(type, p)>>
    /\ openParts' = [openParts EXCEPT ![p] = type]
    /\ UNCHANGED openItems

PartDone(p) ==
    /\ feed' = <<Event("end", p)>>
    /\ openParts' = [openParts EXCEPT ![p] = None]
    /\ UNCHANGED openItems

\* A tool call is decoded only when its arguments are complete.
FunctionCall(call) ==
    /\ feed' = <<Event("start", call), Event("use", call), Event("end", call)>>
    /\ UNCHANGED <<openItems, openParts>>

ResponseDone ==
    /\ feed' = <<Event("completionEnd", None)>>
    /\ UNCHANGED <<openItems, openParts>>

\* An error, an invalid tool call or a response that failed.
ProviderFails ==
    /\ feed' = <<Event("error", None)>>
    /\ UNCHANGED <<openItems, openParts>>

Receive ==
    /\ feed = <<>>
    /\ \/ SpeechStarted \/ ResponseDone \/ ProviderFails
       \/ \E x \in Items : TranscriptionDelta(x) \/ TranscriptionCompleted(x)
       \/ \E p \in Parts : PartDone(p) \/ \E type \in PartTypes : PartAdded(p, type) \/ PartDelta(p, type)
       \/ \E call \in CallIDs \X Operations : FunctionCall(call)

=============================================================================
