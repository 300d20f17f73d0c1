------------------------------- MODULE MCCore -------------------------------
(***************************************************************************)
(* Instances of CoreState.                                                 *)
(***************************************************************************)
EXTENDS CoreState, TLC

CONSTANTS r1, r2, s1, s2

Symmetry == Permutations(Reboots) \cup Permutations(Signals)

=============================================================================
