----------------------------- MODULE MCTurnStory -----------------------------
(***************************************************************************)
(* TurnRelay with two turns of the client, one of the provider and two     *)
(* open contents.  StateBound cuts a turn's audio after MaxAudio events.   *)
(***************************************************************************)
EXTENDS TurnRelay, TLC

CONSTANT MaxAudio

StateBound == sequence <= MaxAudio

\* What the mapper's control reads: all but the events it returned and the
\* text it keeps (history, users and which contents have text).
Control ==
    <<turnID, state, nextInput, answered, cancelled, sequence, waitingUser, used, err, told, cut, heard,
      [c \in Contents |-> IF contents[c] = None THEN None
                          ELSE <<contents[c].turn, contents[c].kind>>]>>

Symmetry == Permutations(Inputs) \cup Permutations(Generated) \cup Permutations(Contents)

=============================================================================
