------------------------------ MODULE Delivery ------------------------------
(***************************************************************************)
(* What deferred promotion promises the request path, and nothing of how:   *)
(* a push that passed the gate is accepted or refused once; only a push     *)
(* whose handler let go of it is delivered to the registry or recorded as   *)
(* abandoned; neither is undone.  Delivery is at least once, and a push     *)
(* whose refusal only lost the queue's reply may be delivered all the same. *)
(* Promotion implements this specification; Gate is built on it.            *)
(***************************************************************************)
CONSTANT Jobs

VARIABLES
    push,         \* what the handler of each push did with it
    published,    \* pushes delivered to the registry
    contradicted  \* pushes with a recorded "acr promotion abandoned" row

deliveryVars == <<push, published, contradicted>>

DeliveryInit ==
    /\ push = [id \in Jobs |-> "gated"]
    /\ published = {}
    /\ contradicted = {}

Hand(id, from, to) ==
    /\ push[id] = from
    /\ push' = [push EXCEPT ![id] = to]
    /\ UNCHANGED <<published, contradicted>>

\* The hand-off succeeded (the client hears 201).
Accept(id) == Hand(id, "gated", "accepted")

\* The hand-off returned an error (502), and the handler cleans up after it.
Refuse(id) == Hand(id, "gated", "refusing")
Release(id) == Hand(id, "refusing", "refused")

\* A worker saw the registry take the image.
Deliver(id) ==
    /\ push[id] # "gated"
    /\ published' = published \cup {id}
    /\ UNCHANGED <<push, contradicted>>

\* A worker gave the job up and recorded the contradicting row.
Abandon(id) ==
    /\ push[id] # "gated"
    /\ contradicted' = contradicted \cup {id}
    /\ UNCHANGED <<push, published>>

DeliveryNext ==
    \E id \in Jobs :
        Accept(id) \/ Refuse(id) \/ Release(id) \/ Deliver(id) \/ Abandon(id)

DeliverySpec == DeliveryInit /\ [][DeliveryNext]_deliveryVars
=============================================================================
