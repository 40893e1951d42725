----------------------------- MODULE MCStaging -----------------------------
(***************************************************************************)
(* Staging for TLC.                                                         *)
(***************************************************************************)
EXTENDS Staging, TLC

CONSTANTS a, b, c, d1, d2, d3

\* Every push is of one layer, d1, and no config.
NoConfig == [p \in Pushes |-> None]
OneLayer == [p \in Pushes |-> <<d1>>]

\* Images a and b share the layer d1, which a lists twice and no attestation has;
\* a and attestation c share d3, and b has a config of its own, d2.
ConfigOfB == [p \in Pushes |-> IF p = b THEN d2 ELSE None]
TwiceByA ==
    [p \in Pushes |-> CASE p = a -> <<d1, d1, d3>> [] p = b -> <<d1>> [] p = c -> <<d3>>]
=============================================================================
