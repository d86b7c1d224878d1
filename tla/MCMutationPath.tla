---------------------------- MODULE MCMutationPath ----------------------------
(***************************************************************************)
(* MutationPath with two sessions and two events that overlap, one of      *)
(* which both ask for and one session may cancel.                          *)
(***************************************************************************)
EXTENDS MutationPath, TLC

CONSTANTS s1, s2, a, b, cancelA

MCTarget == (cancelA :> a)
MCAsks == (s1 :> {a, cancelA}) @@ (s2 :> {a, b})
MCOverlaps == {<<a, b>>, <<b, a>>}

=============================================================================
