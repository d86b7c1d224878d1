---------------------------- MODULE ActionConsent ----------------------------
(***************************************************************************)
(* The tool gate (ActionSession) in the hands of every possible caller,    *)
(* with one history variable: `questions', what the user has been asked    *)
(* and has answered, kept by rules that are the user's and not the gate's. *)
(* A question is open until it is answered no, until the session is        *)
(* interrupted or until its time is over; nothing but an answer given in   *)
(* another turn, or in the UI, grants it.  The gate keeps one pending      *)
(* question where the user may have several open ones.                     *)
(***************************************************************************)
EXTENDS ActionSession

VARIABLE questions

vars == <<gateVars, questions>>

Questions == [id : CallIDs, key : Keys, turn : Turns, until : Nat, granted : BOOLEAN]

ConsentTypeOK == TypeOK /\ questions \subseteq Questions

ConsentInit == Init /\ questions = {}

\* Whatever the gate puts to the user is a question from then on.
Asked ==
    IF pending' \notin {None, pending}
    THEN {[id |-> pending'.id, key |-> pending'.key, turn |-> pending'.turn,
           until |-> pending'.expires, granted |-> FALSE]}
    ELSE {}

Granting(S) == {IF q \in S THEN [q EXCEPT !.granted = TRUE] ELSE q : q \in questions}

AnsweredBy(t, u) == {q \in questions : q.turn # t /\ ToolOf[q.key] = u.tool}

ClickedOn(op) == {q \in questions : q.id = op /\ ToolOf[q.key] \in UITools}

ModelCalls ==
    \E id \in CallIDs, k \in Keys \cup {Malformed}, t \in Turns :
        Plan(id, k, t) /\ questions' = questions \cup Asked

JobEnds ==
    \E j \in issued, r \in Results :
        Complete(j, r) /\ UNCHANGED questions

UserSpeaks ==
    \E t \in Turns, u \in Utterances :
        /\ ObserveUser(t, u)
        /\ questions' = CASE u.says = "confirm" -> Granting(AnsweredBy(t, u))
                          [] u.says = "deny" -> {q \in questions : q.turn = t}
                          [] OTHER -> questions

UserClicks ==
    \E op \in CallIDs, yes \in BOOLEAN :
        /\ Confirm(op, yes)
        /\ questions' = IF yes THEN Granting(ClickedOn(op)) ELSE questions \ ClickedOn(op)

Interrupted == Interrupt /\ questions' = {}

TimePasses == Tick /\ questions' = {q \in questions : now' <= q.until}

Next ==
    \/ ModelCalls \/ JobEnds
    \/ UserSpeaks \/ UserClicks \/ Interrupted
    \/ TimePasses

Spec == ConsentInit /\ [][Next]_vars

-----------------------------------------------------------------------------
(* A mutation is handed out at most once in a session, whatever call ids,  *)
(* turns and results come and go: tools.go 156-167, the cache and the      *)
(* attempted set together.                                                 *)
IssuedOnce ==
    \A i, j \in issued : i.key = j.key /\ Mutates(i.key) => i = j

(* Two jobs that carry the same call id carry the same operation, so that  *)
(* a result sent back under an id cannot be another operation's            *)
(* (tools.go 147-154).                                                     *)
OneIdOneOperation ==
    \A i, j \in issued : i.id = j.id => i.key = j.key

(* A job of a tool that needs confirmation is handed out only while a      *)
(* question about that very operation is open, granted and in time: not on *)
(* an answer to another operation, in the asking turn, after a refusal, an *)
(* interruption or the sixty seconds (tools.go 168-181, 253-296).          *)
ConsentBeforeIssue ==
    [][\A j \in issued' \ issued :
         ConfirmLater(j.key) =>
           \E q \in questions : q.key = j.key /\ q.granted /\ now < q.until]_vars

-----------------------------------------------------------------------------
(* Why they hold: what the gate remembers about what it did and asked.     *)
AttemptedIsIssued == attempted = {j.key : j \in {i \in issued : Mutates(i.key)}}

SeenIsIssued == \A j \in issued : seen[j.id] = j.key

PendingIsQuestion ==
    pending # None /\ now <= pending.expires =>
        \E q \in questions :
            /\ q.id = pending.id /\ q.key = pending.key /\ q.turn = pending.turn
            /\ q.until = pending.expires
            /\ pending.approved => q.granted

IInv ==
    /\ ConsentTypeOK
    /\ AttemptedIsIssued
    /\ SeenIsIssued
    /\ PendingIsQuestion
    /\ IssuedOnce

=============================================================================
