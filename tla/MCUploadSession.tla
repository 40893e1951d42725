-------------------------- MODULE MCUploadSession --------------------------
(***************************************************************************)
(* UploadSession for TLC.                                                   *)
(***************************************************************************)
EXTENDS UploadSession, TLC

CONSTANTS u1, r1, r2

ReqSymmetry == Permutations(Reqs)
=============================================================================
