---------------------------- MODULE MCPromotion ----------------------------
(***************************************************************************)
(* Promotion for TLC.                                                       *)
(***************************************************************************)
EXTENDS Promotion, TLC

CONSTANTS p1, p2, j1, j2, j3

PodSymmetry == Permutations(Pods)
=============================================================================
