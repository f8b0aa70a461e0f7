----------------------------- MODULE MCEnforcement -----------------------------
(***************************************************************************)
(* Enforcement for TLC.                                                    *)
(***************************************************************************)
EXTENDS Enforcement, TLC

CONSTANTS b1, b2, k1, k2, q1, none

Symmetry == Permutations(Call)

=============================================================================
