---------------------------- MODULE ValkeyQueue ----------------------------
(***************************************************************************)
(* The durable promotion queue of internal/promote/valkey.go: three shared  *)
(* Valkey keys and the commands and scripts that change them.  Each         *)
(* operator below is what ONE command or ONE Lua script does, which is the  *)
(* unit Valkey runs atomically; an operation of the Queue interface that    *)
(* issues two commands (Ack) is two of them, with other pods in between.    *)
(*                                                                         *)
(* The module owns the variables of the queue and no behaviour of its own:  *)
(* Promotion.tla composes it with the workers and the request path.         *)
(***************************************************************************)
EXTENDS Naturals, Sequences, FiniteSets

CONSTANTS
    Jobs,         \* push IDs, one per manifest push that passed the gate
    Pods,         \* replicas; each runs one promotion worker
    MaxAttempts,  \* Worker.maxAttempts()
    None          \* "no value": an absent hash field, a worker without a job

ASSUME QueueAssumption ==
    /\ MaxAttempts \in Nat \ {0}
    /\ None \notin Pods

(***************************************************************************)
(* A scratch directory: the pod whose disk holds it, and the attempt that   *)
(* built it (0 is the handler's own layout).                                *)
(***************************************************************************)
Dir == Pods \X (0..MaxAttempts)

(***************************************************************************)
(* promote.Job, reduced to what the worker branches on: the push ID, the    *)
(* attempts spent and where its OCI layout was last built.                  *)
(***************************************************************************)
Job == [id : Jobs, attempts : 0..MaxAttempts, dir : Dir]

ASSUME NoneAssumption == None \notin Job

VARIABLES
    pending,   \* LIST of jobs, oldest first
    claimed,   \* HASH push ID -> the claimed payload
    stamp,     \* HASH push ID -> age of the claim: younger or older than RecoverAfter
    claimant   \* history: the pod that last claimed the push ID

queueVars == <<pending, claimed, stamp, claimant>>

\* Some job of the list s has the push ID id.
Has(s, id) == \E i \in 1..Len(s) : s[i].id = id

InPending(id) == Has(pending, id)

\* A claim Recover can find: it walks the stamps and re-queues the payload.
Recoverable(id) == claimed[id] # None /\ stamp[id] # "none"

QueueTypeOK ==
    /\ pending \in Seq(Job)
    /\ claimed \in [Jobs -> Job \cup {None}]
    /\ \A id \in Jobs : claimed[id] # None => claimed[id].id = id
    /\ stamp \in [Jobs -> {"none", "fresh", "stale"}]
    /\ claimant \in [Jobs -> Pods \cup {None}]

QueueInit ==
    /\ pending = <<>>
    /\ claimed = [id \in Jobs |-> None]
    /\ stamp = [id \in Jobs |-> "none"]
    /\ claimant = [id \in Jobs |-> None]

-----------------------------------------------------------------------------
(***************************************************************************)
(* Enqueue: RPUSH, so a job joins at the tail whoever enqueues it.          *)
(***************************************************************************)
Enqueue(j) ==
    /\ pending' = Append(pending, j)
    /\ UNCHANGED <<claimed, stamp, claimant>>

\* Plausible bug: pop without recording the claim in the same script.
ClaimScriptUnrecorded(p) ==
    /\ pending # <<>>
    /\ pending' = Tail(pending)
    /\ UNCHANGED <<claimed, stamp, claimant>>

(***************************************************************************)
(* claimScript: LPOP, then HSET the payload and the stamp, in one script.   *)
(* HSET overwrites a claim of the same push ID.                             *)
(***************************************************************************)
ClaimScript(p) ==
    /\ pending # <<>>
    /\ LET j == Head(pending)
       IN  /\ claimed' = [claimed EXCEPT ![j.id] = j]
           /\ stamp' = [stamp EXCEPT ![j.id] = "fresh"]
           /\ claimant' = [claimant EXCEPT ![j.id] = p]
    /\ pending' = Tail(pending)

\* Plausible bug: the stamp goes first, so a crash strands the payload.
AckPayloadStampFirst(id) ==
    /\ stamp' = [stamp EXCEPT ![id] = "none"]
    /\ UNCHANGED <<pending, claimed, claimant>>

(***************************************************************************)
(* Ack, first command: HDEL the payload of the push ID, whoever claimed it. *)
(***************************************************************************)
AckPayload(id) ==
    /\ claimed' = [claimed EXCEPT ![id] = None]
    /\ UNCHANGED <<pending, stamp, claimant>>

(***************************************************************************)
(* Ack, second command: HDEL the stamp of the push ID.                      *)
(***************************************************************************)
AckStamp(id) ==
    /\ stamp' = [stamp EXCEPT ![id] = "none"]
    /\ UNCHANGED <<pending, claimed, claimant>>

(***************************************************************************)
(* requeueScript: clear both fields and put the payload, if there is one,   *)
(* back at the head of pending.  It does not look at the stamp again.       *)
(***************************************************************************)
RequeueScript(id) ==
    /\ claimed' = [claimed EXCEPT ![id] = None]
    /\ stamp' = [stamp EXCEPT ![id] = "none"]
    /\ pending' = IF claimed[id] = None THEN pending
                  ELSE <<claimed[id]>> \o pending
    /\ UNCHANGED claimant

\* Plausible bug: a cutoff of zero, which no claim is older than.
StaleStampsNever == {}

\* Plausible bug: a zero window puts the cutoff at now, so every claim is old.
StaleStampsAll == {id \in Jobs : stamp[id] # "none"}

(***************************************************************************)
(* Recover's HGETALL and cutoff: the push IDs whose stamp is not after      *)
(* now - RecoverAfter.                                                      *)
(***************************************************************************)
StaleStamps == {id \in Jobs : stamp[id] = "stale"}

(***************************************************************************)
(* RecoverAfter elapses for a stamp.                                        *)
(***************************************************************************)
Age(id) ==
    /\ stamp[id] = "fresh"
    /\ stamp' = [stamp EXCEPT ![id] = "stale"]
    /\ UNCHANGED <<pending, claimed, claimant>>

=============================================================================
