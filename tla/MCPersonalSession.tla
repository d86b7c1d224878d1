-------------------------- MODULE MCPersonalSession --------------------------
(***************************************************************************)
(* PersonalSession with one note that may be deleted after confirmation.   *)
(* StateBound cuts a turn's audio after one event.                         *)
(***************************************************************************)
EXTENDS PersonalSession, TLC

CONSTANTS remove, delete

MCToolOf == (remove :> delete)
MCPolicy == (delete :> "confirm_later")

StateBound == sequence <= 1

Symmetry == Permutations(Inputs) \cup Permutations(Items)

\* What the running loop reads.  Not: the events returned, the text kept, the
\* jobs of the past, limits out of reach here (calls, turns, contents), a
\* result beside the attempt it answers, contents that are live no more (a turn
\* that was left is never taken up again), the words of an utterance that
\* answers no question.  What follows the end is one state.
Answer(u) == IF u.says = "deny" THEN "no"
             ELSE IF u.says = "confirm" /\ u.tool = delete THEN "yes" ELSE "other"

Control ==
    IF ended # None THEN <<ended>>
    ELSE <<turnID, state, nextInput, Mapper!Ended(turnID, cancelled), turnID \in cancelled,
           Mapper!Ended(nextInput, cancelled), sequence, waitingUser, used,
           feed, openItems, openParts, pending, seen, attempted, now,
           inputID, usedInputs, timer, userTexts, heard.turn, Answer(heard.says), staged, active,
           stream, IF pending = Nil THEN 0 ELSE askedOn, {c \in Contents : Mapper!Live(c)}>>

=============================================================================
