----------------------------- MODULE OperationOnce -----------------------------
(***************************************************************************)
(* What the durable tools promise: operations on one set of rows, each of  *)
(* which takes effect at one moment and at most once, however often, by    *)
(* whom and over whatever connection it is asked for; and an answer "ok"   *)
(* only after that moment.  Implemented by MutationPath.                   *)
(***************************************************************************)
CONSTANTS
    Sessions,   \* the conversations that ask
    Creates,    \* operations that add a row, and stand for it
    Removes,    \* operations that take a row away
    Target,     \* the row an operation of Removes takes
    Excludes    \* rows that must not be active together

VARIABLES
    rows,   \* the active rows
    done,   \* operations that took effect
    told    \* who was told of which effect

vars == <<rows, done, told>>

Keys == Creates \cup Removes

Allowed(k) ==
    IF k \in Creates THEN \A r \in rows : <<k, r>> \notin Excludes
    ELSE Target[k] \in rows

Changed(k) == IF k \in Creates THEN rows \cup {k} ELSE rows \ {Target[k]}

Init == rows = {} /\ done = {} /\ told = {}

Perform(k) ==
    /\ k \notin done
    /\ Allowed(k)
    /\ rows' = Changed(k)
    /\ done' = done \cup {k}
    /\ UNCHANGED told

Tell(s, k) ==
    /\ k \in done
    /\ told' = told \cup {<<s, k>>}
    /\ UNCHANGED <<rows, done>>

Next == \E k \in Keys : Perform(k) \/ \E s \in Sessions : Tell(s, k)

Spec == Init /\ [][Next]_vars

=============================================================================
