------------------------------ MODULE MCAlerts ------------------------------
(***************************************************************************)
(* Alerts for TLC: two replicas of a rollout with the default settings or a  *)
(* smaller limit on details, and an invalid block; one cause in two wordings *)
(* and one that is a killed scan.                                            *)
(***************************************************************************)
EXTENDS Alerts, TLC

CONSTANTS a, b

TwoCauses ==
    {[cause |-> "tls", push |-> 1], [cause |-> "tls", push |-> 2],
     [cause |-> "kill", push |-> 1]}

\* An empty block, and one with a window that is shorter than the interval.
Empty == [interval |-> 0, recent |-> 0, baseline |-> 0, cooldown |-> 0, details |-> 0]
Blind == [Empty EXCEPT !.recent = 1]

\* One whose queries return a single detail, and whose window is the interval.
Narrow == [Empty EXCEPT !.details = 1, !.interval = 3]

Blocks == {Empty, Blind, Narrow}

Usual == [interval |-> 2, recent |-> 3, baseline |-> 4, cooldown |-> 2,
          details |-> 2]

OneHalf == <<1, 2>>

Replicas == Permutations(Pods)
=============================================================================
