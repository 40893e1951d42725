---------------------------- MODULE MCFreshness -----------------------------
(***************************************************************************)
(* Freshness for TLC: a rolling change from an observing pod with a wide     *)
(* window to an enforcing one with a narrow one.  Both take the same image,  *)
(* of which vulnerabilities become known, one of the threshold's severity    *)
(* and one of a severity nobody knows, and the old pod runs a promotion.     *)
(***************************************************************************)
EXTENDS Freshness

CONSTANTS old, new, app, p1, p2, p3

RollingChange == [q \in Pods |->
    [window |-> IF q = old THEN 4 ELSE 1, observe |-> q = old]]

OneImage == [d \in Digests |->
    [findings |-> {"LOW"}, news |-> {"CRITICAL", "Weird"}, since |-> 1,
     etc |-> None, usrlib |-> "ubi", created |-> 0]]

ThreePushes == [p \in Pushes |->
    [digest |-> app, pod |-> IF p = p2 THEN new ELSE old,
     promotion |-> p = p3]]
=============================================================================
