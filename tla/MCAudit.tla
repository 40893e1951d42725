------------------------------ MODULE MCAudit -------------------------------
(***************************************************************************)
(* Audit for TLC: a buildx push (an image by digest, then an index by tag    *)
(* that names it and an attestation, which is not gated) beside an image     *)
(* pushed under another tag.                                                 *)
(***************************************************************************)
EXTENDS Audit

CONSTANTS img, idx, plain, att

TwoPushes == [p \in Pushes |->
    [kind |-> IF p = idx THEN "index" ELSE "image",
     ref |-> CASE p = img -> img [] p = idx -> "v1" [] p = plain -> "v2",
     digest |-> p,
     subs |-> IF p = idx THEN <<img, att>> ELSE <<>>,
     findings |-> p = plain,
     after |-> CASE p = img -> {} [] p = idx -> {img} [] p = plain -> {idx}]]
=============================================================================
