---------------------------- MODULE ActionSession ----------------------------
(***************************************************************************)
(* The tool gate of an agent session: packages/go/actionruntime, type      *)
(* Session.  The model asks for a tool (Plan); the host answers at once    *)
(* (a refusal, a cached result, a request for confirmation) or hands out a *)
(* job that may run.  ObserveUser and Confirm carry the user's consent,    *)
(* Interrupt withdraws it, Complete stores what a job returned.            *)
(*                                                                         *)
(* A key stands for the hash of (namespace, tool, canonical arguments): two*)
(* calls have the same key iff they are the same operation.  An utterance  *)
(* is reduced to what the gate can tell apart: it is exactly the           *)
(* confirmation phrase of a tool, it matches the intent pattern of a tool, *)
(* it starts with a refusal, or it is something else (a quoted phrase, a   *)
(* bare "sim", a question).                                                *)
(***************************************************************************)
EXTENDS Integers, FiniteSets

CONSTANTS
    Keys,         \* operations: tool and canonical arguments
    Tools,        \* the tools the session was allowed to discover
    ToolOf,       \* the tool of each key
    Policy,       \* "read_only" | "explicit_intent" | "confirm_later"
    DirectTools,  \* explicit_intent tools whose profile is "direct"
    UITools,      \* tools whose profile allows confirmation by the UI
    CallIDs,      \* identifiers the model gives its tool calls
    Turns,        \* conversation turns
    MaxCalls,     \* calls a session accepts (128 in the code)
    TTL,          \* how long an unanswered confirmation stays valid (60 s)
    MaxTime,      \* bound of the model: the clock stops here
    None,         \* the nil of the code
    Malformed     \* a call with a bad id, unknown tool or invalid arguments

ASSUME ToolsAssumption ==
    /\ ToolOf \in [Keys -> Tools]
    /\ Policy \in [Tools -> {"read_only", "explicit_intent", "confirm_later"}]
    /\ DirectTools \subseteq Tools
    /\ UITools \subseteq Tools
    /\ None \notin Keys \cup Tools \cup CallIDs \cup Turns
    /\ Malformed \notin Keys

ASSUME BoundsAssumption == MaxCalls \in Nat /\ TTL \in Nat /\ MaxTime \in Nat

VARIABLES
    pending,    \* the one confirmation the user was asked for, or None
    seen,       \* the key each call id was accepted with
    cache,      \* the stored result of each mutation
    calls,      \* calls accepted so far
    attempted,  \* mutations a job was handed out for
    intent,     \* the last observed user turn and what it asked for
    now,        \* wall clock, in units of the model
    issued      \* every job handed out

gateVars == <<pending, seen, cache, calls, attempted, intent, now, issued>>

-----------------------------------------------------------------------------
ConfirmLater(k) == Policy[ToolOf[k]] = "confirm_later"
Mutates(k) == Policy[ToolOf[k]] # "read_only"

Results == {"ok", "failed"}
Utterances == [says : {"confirm", "ask"}, tool : Tools]
                \cup [says : {"deny", "other"}, tool : {None}]
Jobs == [id : CallIDs, key : Keys, turn : Turns, confirmed : BOOLEAN]
Pendings == [id : CallIDs, key : Keys, turn : Turns, expires : Nat, approved : BOOLEAN]
NoIntent == [turn |-> None, asks |-> None]

ASSUME NoneAssumption == None \notin Pendings

TypeOK ==
    /\ pending \in Pendings \cup {None}
    /\ seen \in [CallIDs -> Keys \cup {None}]
    /\ cache \in [Keys -> Results \cup {None}]
    /\ calls \in 0..MaxCalls
    /\ attempted \subseteq Keys
    /\ intent \in [turn : Turns \cup {None}, asks : Tools \cup {None}]
    /\ now \in Nat
    /\ issued \subseteq Jobs

Init ==
    /\ pending = None
    /\ seen = [i \in CallIDs |-> None]
    /\ cache = [k \in Keys |-> None]
    /\ calls = 0
    /\ attempted = {}
    /\ intent = NoIntent
    /\ now = 0
    /\ issued = {}

-----------------------------------------------------------------------------
(* Plan: what the gate makes of the call `id' of operation k in turn t.    *)

Redeemable(k) ==
    /\ pending # None
    /\ pending.key = k
    /\ pending.approved
    /\ now < pending.expires

\* The question put to the user stands: same operation, not yet expired.
Standing(k) ==
    /\ pending # None
    /\ pending.key = k
    /\ now <= pending.expires

\* Mutant: a call id may be used again for another operation.
AcceptedAnyId(id, k) ==
    /\ k # Malformed
    /\ calls < MaxCalls

Accepted(id, k) ==
    /\ k # Malformed
    /\ seen[id] \in {None, k}
    /\ calls < MaxCalls

\* Mutant: only a stored result stops a second job.
FreshUnlessCached(k) == Mutates(k) => cache[k] = None

Fresh(k) == Mutates(k) => cache[k] = None /\ k \notin attempted

Intended(k, t) ==
    Policy[ToolOf[k]] = "explicit_intent" /\ ToolOf[k] \notin DirectTools
        => intent.turn = t /\ intent.asks = ToolOf[k]

Count(id, k) ==
    /\ calls' = calls + 1
    /\ seen' = [seen EXCEPT ![id] = k]

\* invalid id, tool, arguments; id conflict; call limit: nothing changes.
Refuse(id, k) ==
    /\ ~Accepted(id, k)
    /\ UNCHANGED gateVars

\* cached result, outcome unknown, or clarification required.
AnswerAtOnce(id, k, t) ==
    /\ Accepted(id, k)
    /\ ~Fresh(k) \/ ~Intended(k, t)
    /\ Count(id, k)
    /\ UNCHANGED <<pending, cache, attempted, intent, now, issued>>

AskConfirmation(id, k, t) ==
    /\ Accepted(id, k) /\ Fresh(k)
    /\ ConfirmLater(k) /\ ~Redeemable(k)
    /\ Count(id, k)
    /\ pending' = IF Standing(k) THEN pending
                  ELSE [id |-> id, key |-> k, turn |-> t,
                        expires |-> now + TTL, approved |-> FALSE]
    /\ UNCHANGED <<cache, attempted, intent, now, issued>>

Issue(id, k, t) ==
    /\ Accepted(id, k) /\ Fresh(k) /\ Intended(k, t)
    /\ ConfirmLater(k) => Redeemable(k)
    /\ Count(id, k)
    /\ pending' = IF ConfirmLater(k) THEN None ELSE pending
    /\ attempted' = IF Mutates(k) THEN attempted \cup {k} ELSE attempted
    /\ issued' = issued \cup {[id |-> id, key |-> k, turn |-> t,
                               confirmed |-> ConfirmLater(k)]}
    /\ UNCHANGED <<cache, intent, now>>

Plan(id, k, t) ==
    \/ Refuse(id, k)
    \/ k # Malformed /\ (AnswerAtOnce(id, k, t) \/ AskConfirmation(id, k, t) \/ Issue(id, k, t))

\* Only read-only results are not stored; a failure is stored like a success.
Complete(j, r) ==
    /\ cache' = IF Mutates(j.key) THEN [cache EXCEPT ![j.key] = r] ELSE cache
    /\ UNCHANGED <<pending, seen, calls, attempted, intent, now, issued>>

-----------------------------------------------------------------------------
(* ObserveUser: the finalized utterance u of the user's turn t.            *)

\* Mutant: the turn that raised the question may also answer it.
ConcernedSameTurn(t) == pending # None

Concerned(t) == pending # None /\ pending.turn # t

Overdue == now > pending.expires

Hear(t, u) ==
    /\ intent' = [turn |-> t, asks |-> IF u.says = "ask" THEN u.tool ELSE None]
    /\ UNCHANGED <<seen, cache, calls, attempted, now, issued>>

Approves(t, u) ==
    Concerned(t) /\ ~Overdue /\ u.says = "confirm" /\ u.tool = ToolOf[pending.key]

Withdraws(t, u) == Concerned(t) /\ (Overdue \/ u.says = "deny")

ObserveUser(t, u) ==
    /\ Hear(t, u)
    /\ \/ Approves(t, u) /\ pending' = [pending EXCEPT !.approved = TRUE]
       \/ Withdraws(t, u) /\ pending' = None
       \/ ~Approves(t, u) /\ ~Withdraws(t, u) /\ pending' = pending

\* The UI's answer to the question named op; refused answers change nothing.
Confirmable(op) ==
    /\ pending # None
    /\ pending.id = op
    /\ now <= pending.expires
    /\ ToolOf[pending.key] \in UITools

Confirm(op, yes) ==
    /\ pending' = IF ~Confirmable(op) THEN pending
                  ELSE IF yes THEN [pending EXCEPT !.approved = TRUE] ELSE None
    /\ UNCHANGED <<seen, cache, calls, attempted, intent, now, issued>>

\* Mutant: an interruption forgets what was said but keeps the question.
InterruptKeepingPending ==
    /\ pending' = pending
    /\ intent' = [intent EXCEPT !.asks = None]
    /\ UNCHANGED <<seen, cache, calls, attempted, now, issued>>

Interrupt ==
    /\ pending' = None
    /\ intent' = [intent EXCEPT !.asks = None]
    /\ UNCHANGED <<seen, cache, calls, attempted, now, issued>>

Tick ==
    /\ now < MaxTime
    /\ now' = now + 1
    /\ UNCHANGED <<pending, seen, cache, calls, attempted, intent, issued>>

=============================================================================
