----------------------------- MODULE Promotion -----------------------------
(***************************************************************************)
(* Deferred promotion: the request path hands a push that passed the gate   *)
(* to a durable queue and answers 201 (ingress/docker/manifest.go,          *)
(* publication.run); the promotion worker of every pod (promote/worker.go)  *)
(* claims jobs, makes the OCI layout local, pushes it to the registry and   *)
(* acks, retries or abandons the job.                                       *)
(*                                                                         *)
(* Every step of a worker is one command against shared state, so pods      *)
(* interleave and crash between any two of them.  A Valkey command may also *)
(* fail, either before or after the server applied it.                      *)
(***************************************************************************)
EXTENDS ValkeyQueue

CONSTANTS
    Unroutable,   \* jobs whose tenant prefix no pod resolves to a pusher
    Unreadable,   \* jobs whose payload this version cannot unmarshal
    MaxFaults,    \* bound: failed Valkey and staging calls
    MaxSlow,      \* bound: times a claim outlives RecoverAfter under a live worker
    MaxCrashes,   \* bound: pod crashes
    MaxDisturbances, \* bound: failed calls, slow pushes and crashes together
    MaxParked     \* bound: parked copies of one payload that are counted

ASSUME PromotionAssumption ==
    /\ Unroutable \subseteq Jobs
    /\ Unreadable \subseteq Jobs
    /\ {MaxFaults, MaxSlow, MaxCrashes, MaxDisturbances, MaxParked} \subseteq Nat

VARIABLES
    push,         \* the client's push: what its handler has done with it
    pc,           \* where each pod's worker is in Run and handle
    job,          \* the worker's own copy of the job it handles
    outcome,      \* what the ack in progress is for
    snap,         \* push IDs Recover read as stale and has yet to re-queue
    dead,         \* LIST of parked payloads, as a count per push ID
    published,    \* pushes a worker saw succeed
    contradicted, \* pushes with a recorded "acr promotion abandoned" row
    staged,       \* pushes whose blobs are all in the shared blob store
    scratch,      \* OCI layouts on the pods' local disks
    pushes,       \* history: registry pushes attempted per job
    foreignAck,   \* history: jobs a worker acked a claim of that was not its own
    faults,       \* failed calls so far
    slow,         \* claims that outlived RecoverAfter so far
    crashes       \* crashes so far

workerVars == <<pc, job, outcome, snap>>
storeVars == <<staged, scratch>>
resultVars == <<published, contradicted, pushes>>
faultVars == <<faults, slow, crashes>>
vars == <<queueVars, workerVars, storeVars, resultVars, faultVars,
          push, dead, foreignAck>>

\* The states of a worker that is handling a job.
Handling == {"start", "localize", "push", "requeue", "retire",
             "ackPayload", "ackStamp", "cleanup"}

TypeOK ==
    /\ QueueTypeOK
    /\ push \in [Jobs -> {"gated", "accepted", "refusing", "refused"}]
    /\ pc \in [Pods -> Handling \cup {"idle", "sweep", "down"}]
    /\ job \in [Pods -> Job \cup {None}]
    /\ \A p \in Pods : pc[p] \in Handling => job[p] # None
    /\ outcome \in [Pods -> {"none", "requeued", "published", "retired"}]
    /\ snap \in [Pods -> SUBSET Jobs]
    /\ dead \in [Jobs -> Nat]
    /\ published \subseteq Jobs
    /\ contradicted \subseteq Jobs
    /\ staged \subseteq Jobs
    /\ scratch \in [Jobs -> SUBSET Dir]
    /\ pushes \in [Jobs -> Nat]
    /\ foreignAck \subseteq Jobs
    /\ faults \in Nat
    /\ slow \in Nat
    /\ crashes \in Nat

Init ==
    /\ QueueInit
    /\ push = [id \in Jobs |-> "gated"]
    /\ pc = [p \in Pods |-> "idle"]
    /\ job = [p \in Pods |-> None]
    /\ outcome = [p \in Pods |-> "none"]
    /\ snap = [p \in Pods |-> {}]
    /\ dead = [id \in Jobs |-> 0]
    /\ published = {}
    /\ contradicted = {}
    /\ staged = Jobs
    /\ scratch = [id \in Jobs |-> {}]
    /\ pushes = [id \in Jobs |-> 0]
    /\ foreignAck = {}
    /\ faults = 0
    /\ slow = 0
    /\ crashes = 0

-----------------------------------------------------------------------------
\* The bound on everything that goes wrong is not used up.
MayDisturb == faults + slow + crashes < MaxDisturbances

\* One call fails; MaxFaults bounds how often.
Fault ==
    /\ MayDisturb
    /\ faults < MaxFaults
    /\ faults' = faults + 1
    /\ UNCHANGED <<slow, crashes>>

NoFault == UNCHANGED faultVars

\* handle returns: the worker is back in Run's loop with no job.
Return(p) ==
    /\ pc' = [pc EXCEPT ![p] = "idle"]
    /\ job' = [job EXCEPT ![p] = None]
    /\ outcome' = [outcome EXCEPT ![p] = "none"]
    /\ UNCHANGED snap

Goto(p, label) ==
    /\ pc' = [pc EXCEPT ![p] = label]
    /\ UNCHANGED <<job, outcome, snap>>

(***************************************************************************)
(* Store.Cleanup of one push: its blob references are released and the      *)
(* blobs deleted, unless a reference count cannot be read, which leaks      *)
(* them; the scratch directories go either way.                             *)
(***************************************************************************)
CleanupStores(id, dirs) ==
    /\ \/ staged' = staged \ {id} /\ NoFault
       \/ UNCHANGED staged /\ Fault
    /\ scratch' = [scratch EXCEPT ![id] = @ \ dirs]

-----------------------------------------------------------------------------
(***************************************************************************)
(* The request path.                                                        *)
(***************************************************************************)

\* The job a handler on pod p builds: no attempts, its own layout.
NewJob(p, id) == [id |-> id, attempts |-> 0, dir |-> <<p, 0>>]

\* Plausible bug: the job is queued before the handler has let go of the push.
PromoteTooEarly(p, id) ==
    /\ push[id] = "gated"
    /\ pc[p] # "down"
    /\ Enqueue(NewJob(p, id))
    /\ scratch' = [scratch EXCEPT ![id] = @ \cup {<<p, 0>>}]
    /\ NoFault
    /\ UNCHANGED <<workerVars, staged, resultVars, push, dead, foreignAck>>

(***************************************************************************)
(* publication.run with a promoter: Enqueue succeeded, so the worker owns   *)
(* the layout and the blob references, and the client is told 201.          *)
(***************************************************************************)
Promote(p, id) ==
    /\ push[id] = "gated"
    /\ pc[p] # "down"
    /\ Enqueue(NewJob(p, id))
    /\ push' = [push EXCEPT ![id] = "accepted"]
    /\ scratch' = [scratch EXCEPT ![id] = @ \cup {<<p, 0>>}]
    /\ NoFault
    /\ UNCHANGED <<workerVars, staged, resultVars, dead, foreignAck>>

(***************************************************************************)
(* Enqueue returned an error: the client is told 502 and handedOff stays    *)
(* FALSE.  When only the reply was lost the job is in the queue all the     *)
(* same.                                                                    *)
(***************************************************************************)
PromoteFails(p, id) ==
    /\ push[id] = "gated"
    /\ pc[p] # "down"
    /\ Fault
    /\ \/ Enqueue(NewJob(p, id))
       \/ UNCHANGED queueVars
    /\ push' = [push EXCEPT ![id] = "refusing"]
    /\ scratch' = [scratch EXCEPT ![id] = @ \cup {<<p, 0>>}]
    /\ UNCHANGED <<workerVars, staged, resultVars, dead, foreignAck>>

(***************************************************************************)
(* handleManifest's deferred Cleanup after a failed hand-off: the handler's *)
(* own layout and the push's blobs.                                         *)
(***************************************************************************)
RefusedCleanup(id) ==
    /\ push[id] = "refusing"
    /\ push' = [push EXCEPT ![id] = "refused"]
    /\ CleanupStores(id, Pods \X {0})
    /\ UNCHANGED <<queueVars, workerVars, resultVars, dead, foreignAck>>

-----------------------------------------------------------------------------
(***************************************************************************)
(* Worker.Run: claim.                                                       *)
(***************************************************************************)

\* Claim hands the job to handle.
Claim(p) ==
    /\ pc[p] = "idle"
    /\ ClaimScript(p)
    /\ Head(pending).id \notin Unreadable
    /\ job' = [job EXCEPT ![p] = Head(pending)]
    /\ pc' = [pc EXCEPT ![p] = "start"]
    /\ NoFault
    /\ UNCHANGED <<outcome, snap, storeVars, resultVars, push, dead, foreignAck>>

\* The script ran but its reply was lost: a claim nobody works on.
ClaimReplyLost(p) ==
    /\ pc[p] = "idle"
    /\ ClaimScript(p)
    /\ Fault
    /\ UNCHANGED <<workerVars, storeVars, resultVars, push, dead, foreignAck>>

\* The payload does not unmarshal: it is parked, and its claim stays.
ClaimUnreadable(p) ==
    /\ pc[p] = "idle"
    /\ ClaimScript(p)
    /\ LET id == Head(pending).id
       IN  /\ id \in Unreadable
           /\ dead' = [dead EXCEPT ![id] = IF @ < MaxParked THEN @ + 1 ELSE @]
    /\ NoFault
    /\ UNCHANGED <<workerVars, storeVars, resultVars, push, foreignAck>>

\* Claim found the queue empty; Run sleeps for PollInterval.
PollEmpty(p) ==
    /\ pc[p] = "idle"
    /\ pending = <<>>
    /\ UNCHANGED vars

-----------------------------------------------------------------------------
(***************************************************************************)
(* Worker.recover: a snapshot of the stale stamps, then one requeueScript   *)
(* per push ID of the snapshot, in no particular order.                     *)
(***************************************************************************)
RecoverScan(p) ==
    /\ pc[p] = "idle"
    /\ StaleStamps # {}
    /\ pc' = [pc EXCEPT ![p] = "sweep"]
    /\ snap' = [snap EXCEPT ![p] = StaleStamps]
    /\ UNCHANGED <<queueVars, job, outcome, storeVars, resultVars, faultVars,
                   push, dead, foreignAck>>

\* The sweep is over: nothing is left, or an error returned early.
SweepRest(p, rest) ==
    /\ snap' = [snap EXCEPT ![p] = rest]
    /\ pc' = [pc EXCEPT ![p] = IF rest = {} THEN "idle" ELSE "sweep"]
    /\ UNCHANGED <<job, outcome>>

RecoverOne(p, id) ==
    /\ pc[p] = "sweep"
    /\ id \in snap[p]
    /\ RequeueScript(id)
    /\ SweepRest(p, IF claimed[id] # None /\ id \in Unreadable
                    THEN {}            \* Unmarshal failed after the re-queue
                    ELSE snap[p] \ {id})
    /\ NoFault
    /\ UNCHANGED <<storeVars, resultVars, push, dead, foreignAck>>

\* The script failed, or its reply was lost: Recover returns what it has.
RecoverFails(p, id) ==
    /\ pc[p] = "sweep"
    /\ id \in snap[p]
    /\ Fault
    /\ \/ RequeueScript(id)
       \/ UNCHANGED queueVars
    /\ SweepRest(p, {})
    /\ UNCHANGED <<storeVars, resultVars, push, dead, foreignAck>>

-----------------------------------------------------------------------------
(***************************************************************************)
(* Worker.handle.                                                           *)
(***************************************************************************)

\* Pushers(j.Tenant), then Attempts++ on the worker's own copy.
Start(p) ==
    /\ pc[p] = "start"
    /\ \/ /\ job[p].id \in Unroutable
          /\ Goto(p, "retire")
       \/ /\ job[p].id \notin Unroutable
          /\ job' = [job EXCEPT ![p].attempts = @ + 1]
          /\ pc' = [pc EXCEPT ![p] = "localize"]
          /\ UNCHANGED <<outcome, snap>>
    /\ UNCHANGED <<queueVars, storeVars, resultVars, faultVars, push, dead, foreignAck>>

\* Plausible bug: the budget check is off by one.
FailOneMore(p) == Goto(p, IF job[p].attempts > MaxAttempts THEN "retire" ELSE "requeue")

\* fail, for a cause that is not terminal: retry while the budget lasts.
Fail(p) == Goto(p, IF job[p].attempts >= MaxAttempts THEN "retire" ELSE "requeue")

\* os.Stat(j.OCIPath) on this pod.
LayoutIsLocal(p) == job[p].dir[1] = p /\ job[p].dir \in scratch[job[p].id]

\* The layout is here, or Localize rebuilds it from the blob store.
Localize(p) ==
    /\ pc[p] = "localize"
    /\ \/ /\ LayoutIsLocal(p)
          /\ UNCHANGED <<job, scratch>>
       \/ /\ ~LayoutIsLocal(p)
          /\ job[p].id \in staged
          /\ LET d == <<p, job[p].attempts>>
             IN  /\ job' = [job EXCEPT ![p].dir = d]
                 /\ scratch' = [scratch EXCEPT ![job[p].id] = @ \cup {d}]
    /\ pc' = [pc EXCEPT ![p] = "push"]
    /\ UNCHANGED <<queueVars, outcome, snap, staged, resultVars, faultVars,
                   push, dead, foreignAck>>

\* Localize failed: a missing blob is terminal, anything else is retried.
LocalizeFails(p) ==
    /\ pc[p] = "localize"
    /\ ~LayoutIsLocal(p)
    /\ \/ job[p].id \notin staged /\ Goto(p, "retire") /\ NoFault
       \/ Fail(p) /\ Fault
    /\ UNCHANGED <<queueVars, storeVars, resultVars, push, dead, foreignAck>>

\* pusher.Push returned nil; finalize(ok) writes no row; Ack follows.
PushSucceeds(p) ==
    /\ pc[p] = "push"
    /\ published' = published \cup {job[p].id}
    /\ pushes' = [pushes EXCEPT ![job[p].id] = @ + 1]
    /\ pc' = [pc EXCEPT ![p] = "ackPayload"]
    /\ outcome' = [outcome EXCEPT ![p] = "published"]
    /\ UNCHANGED <<queueVars, job, snap, storeVars, contradicted, faultVars,
                   push, dead, foreignAck>>

\* pusher.Push returned an error (whether or not the registry took it).
PushFails(p) ==
    /\ pc[p] = "push"
    /\ pushes' = [pushes EXCEPT ![job[p].id] = @ + 1]
    /\ Fail(p)
    /\ UNCHANGED <<queueVars, storeVars, published, contradicted, faultVars,
                   push, dead, foreignAck>>

\* Plausible bug: fail acks and no copy goes back to the queue.
RequeueForgotten(p) ==
    /\ pc[p] = "requeue"
    /\ pc' = [pc EXCEPT ![p] = "ackPayload"]
    /\ outcome' = [outcome EXCEPT ![p] = "requeued"]
    /\ UNCHANGED <<queueVars, job, snap, storeVars, resultVars, faultVars,
                   push, dead, foreignAck>>

\* fail re-enqueues the worker's copy, attempts included, and then acks.
Requeue(p) ==
    /\ pc[p] = "requeue"
    /\ Enqueue(job[p])
    /\ pc' = [pc EXCEPT ![p] = "ackPayload"]
    /\ outcome' = [outcome EXCEPT ![p] = "requeued"]
    /\ NoFault
    /\ UNCHANGED <<job, snap, storeVars, resultVars, push, dead, foreignAck>>

\* The re-enqueue returned an error: the claim is left for Recover.
RequeueFails(p) ==
    /\ pc[p] = "requeue"
    /\ Fault
    /\ \/ Enqueue(job[p])
       \/ UNCHANGED queueVars
    /\ Return(p)
    /\ UNCHANGED <<storeVars, resultVars, push, dead, foreignAck>>

\* retire: FinalizePromotion(ok = false) records the contradicting row.
Retire(p) ==
    /\ pc[p] = "retire"
    /\ contradicted' = contradicted \cup {job[p].id}
    /\ pc' = [pc EXCEPT ![p] = "ackPayload"]
    /\ outcome' = [outcome EXCEPT ![p] = "retired"]
    /\ UNCHANGED <<queueVars, job, snap, storeVars, published, pushes, faultVars,
                   push, dead, foreignAck>>

\* Plausible bug: every path through Ack releases the staged bytes.
AfterAckAlwaysCleans(p) == Goto(p, "cleanup")

\* Ack returned, with or without an error, which is only logged.
AfterAck(p) ==
    IF outcome[p] = "requeued" THEN Return(p) ELSE Goto(p, "cleanup")

\* History: the claim this ack removes was written by another pod.
NoteForeign(p, hit) ==
    foreignAck' = IF hit /\ claimant[job[p].id] # p
                  THEN foreignAck \cup {job[p].id} ELSE foreignAck

AckPayloadStep(p) ==
    /\ pc[p] = "ackPayload"
    /\ \/ AckPayload(job[p].id) /\ Goto(p, "ackStamp") /\ NoFault
          /\ NoteForeign(p, claimed[job[p].id] # None)
       \/ AckPayload(job[p].id) /\ AfterAck(p) /\ Fault     \* reply lost
          /\ NoteForeign(p, claimed[job[p].id] # None)
       \/ UNCHANGED queueVars /\ AfterAck(p) /\ Fault /\ UNCHANGED foreignAck
    /\ UNCHANGED <<storeVars, resultVars, push, dead>>

AckStampStep(p) ==
    /\ pc[p] = "ackStamp"
    /\ \/ AckStamp(job[p].id) /\ NoteForeign(p, Recoverable(job[p].id))
          /\ (NoFault \/ Fault)
       \/ UNCHANGED queueVars /\ UNCHANGED foreignAck /\ Fault
    /\ AfterAck(p)
    /\ UNCHANGED <<storeVars, resultVars, push, dead>>

\* cleanup: this push's blob references and the layout the worker used.
Cleanup(p) ==
    /\ pc[p] = "cleanup"
    /\ CleanupStores(job[p].id, {job[p].dir})
    /\ Return(p)
    /\ UNCHANGED <<queueVars, resultVars, push, dead, foreignAck>>

-----------------------------------------------------------------------------
(***************************************************************************)
(* The environment.                                                         *)
(***************************************************************************)

\* A pod dies; its emptyDir outlives a container, not the pod.
Crash(p) ==
    /\ pc[p] # "down"
    /\ MayDisturb
    /\ crashes < MaxCrashes
    /\ crashes' = crashes + 1
    /\ pc' = [pc EXCEPT ![p] = "down"]
    /\ job' = [job EXCEPT ![p] = None]
    /\ outcome' = [outcome EXCEPT ![p] = "none"]
    /\ snap' = [snap EXCEPT ![p] = {}]
    /\ \/ UNCHANGED scratch
       \/ scratch' = [id \in Jobs |-> {d \in scratch[id] : d[1] # p}]
    /\ UNCHANGED <<queueVars, staged, resultVars, faults, slow, push, dead, foreignAck>>

\* The replacement starts its worker.
Restart(p) ==
    /\ pc[p] = "down"
    /\ Goto(p, "idle")
    /\ UNCHANGED <<queueVars, storeVars, resultVars, faultVars, push, dead, foreignAck>>

\* A live worker still handles the job it claimed.
HeldByClaimant(id) ==
    \E p \in Pods : pc[p] \in Handling /\ job[p].id = id /\ claimant[id] = p

\* RecoverAfter passes for an abandoned claim.
Expire(id) ==
    /\ ~HeldByClaimant(id)
    /\ Age(id)
    /\ UNCHANGED <<workerVars, storeVars, resultVars, faultVars, push, dead, foreignAck>>

\* RecoverAfter passes while the claimant still handles the job.
ExpireHeld(id) ==
    /\ HeldByClaimant(id)
    /\ MayDisturb
    /\ slow < MaxSlow
    /\ slow' = slow + 1
    /\ Age(id)
    /\ UNCHANGED <<workerVars, storeVars, resultVars, faults, crashes, push, dead,
                   foreignAck>>

-----------------------------------------------------------------------------
\* One pod's steps inside handle and inside a sweep.
HandleStep(p) ==
    \/ Start(p)
    \/ Localize(p)
    \/ LocalizeFails(p)
    \/ PushSucceeds(p)
    \/ PushFails(p)
    \/ Requeue(p)
    \/ RequeueFails(p)
    \/ Retire(p)
    \/ AckPayloadStep(p)
    \/ AckStampStep(p)
    \/ Cleanup(p)

SweepStep(p) == \E id \in Jobs : RecoverOne(p, id) \/ RecoverFails(p, id)

ClaimStep(p) == Claim(p) \/ ClaimReplyLost(p) \/ ClaimUnreadable(p)

Next ==
    \/ \E p \in Pods, id \in Jobs : Promote(p, id) \/ PromoteFails(p, id)
    \/ \E id \in Jobs : RefusedCleanup(id) \/ Expire(id) \/ ExpireHeld(id)
    \/ \E p \in Pods :
          \/ ClaimStep(p) \/ PollEmpty(p) \/ RecoverScan(p)
          \/ SweepStep(p) \/ HandleStep(p)
          \/ Crash(p) \/ Restart(p)

Spec == Init /\ [][Next]_vars

(***************************************************************************)
(* Fairness: Run loops for the life of the process and every step of handle *)
(* and of a sweep ends (each call has a deadline or an answer), claims are  *)
(* polled and swept on a cadence, dead pods are replaced, time passes.      *)
(* Claims are strongly fair per job because a claim outlives thousands of   *)
(* polls before it is stale (PollInterval 200ms, RecoverAfter 15min);       *)
(* recovery is, because Go visits the stamps in a random order.             *)
(* Nothing is assumed about clients, faults, crashes or how a push ends.    *)
(***************************************************************************)
Fairness ==
    /\ \A p \in Pods :
          /\ WF_vars(HandleStep(p))
          /\ WF_vars(SweepStep(p))
          /\ \A id \in Jobs :
                /\ SF_vars(ClaimStep(p) /\ Head(pending).id = id)
                /\ SF_vars(RecoverOne(p, id))
          /\ WF_vars(RecoverScan(p))
          /\ WF_vars(Restart(p))
    /\ \A id \in Jobs : WF_vars(Expire(id))

FairSpec == Spec /\ Fairness

-----------------------------------------------------------------------------
\* The push is settled: an image in the registry, or a row saying why not.
Resolved(id) == id \in published \/ id \in contradicted

Unresolved(id) == push[id] = "accepted" /\ ~Resolved(id)

\* No call failed, no pod crashed and no push outlived RecoverAfter.
Undisturbed == faults = 0 /\ crashes = 0 /\ slow = 0

(***************************************************************************)
(* A job whose client was told 201 stays in Valkey, pending or under a      *)
(* claim Recover can find, until it is published or recorded as abandoned;  *)
(* the only exception is a job one worker acked while another held the      *)
(* claim (fail's Enqueue-then-Ack racing a sibling's Claim).                *)
(***************************************************************************)
DurableUntilResolved ==
    \A id \in Jobs :
        Unresolved(id) => InPending(id) \/ Recoverable(id) \/ id \in foreignAck

(***************************************************************************)
(* Ack's command order and the atomic scripts never leave a payload in the  *)
(* claimed hash without the stamp Recover needs to find it, except under a  *)
(* foreign ack.                                                             *)
(***************************************************************************)
ClaimsAreStamped ==
    \A id \in Jobs : claimed[id] # None => stamp[id] # "none" \/ id \in foreignAck

(***************************************************************************)
(* A retry is never doomed: until a push is settled its blobs are in the    *)
(* shared store, so any pod can rebuild the layout (handle's ordering of    *)
(* Ack, Cleanup and the retry path).                                        *)
(***************************************************************************)
RetryNotDoomed == \A id \in Jobs : Unresolved(id) => id \in staged

(***************************************************************************)
(* No push that a client was told is accepted is ever lost: it is settled,  *)
(* in the queue, or in the hands of a live worker.  Holds for one replica.  *)
(***************************************************************************)
HeldByLiveWorker(id) ==
    \E p \in Pods : pc[p] \in Handling \ {"cleanup"} /\ job[p].id = id

NeverLost ==
    \A id \in Jobs :
        Unresolved(id) => InPending(id) \/ Recoverable(id) \/ HeldByLiveWorker(id)

(***************************************************************************)
(* While no call fails, no pod crashes and no push outlives RecoverAfter,   *)
(* the attempt budget bounds the pushes of a job: no sweep takes a claim a  *)
(* live worker holds, and fail counts every attempt.                        *)
(***************************************************************************)
BudgetBoundsPushes == Undisturbed => \A id \in Jobs : pushes[id] <= MaxAttempts

(***************************************************************************)
(* Under the same condition a job exists once, so no second copy finds its  *)
(* blobs gone and contradicts a published image.                            *)
(***************************************************************************)
VerdictsAgree == Undisturbed => published \cap contradicted = {}

(***************************************************************************)
(* Every accepted push is eventually published or recorded as abandoned,    *)
(* whatever fails or crashes finitely often (foreign acks and payloads      *)
(* this version cannot read excepted).                                      *)
(***************************************************************************)
AcceptedResolves ==
    \A id \in Jobs \ Unreadable :
        push[id] = "accepted" ~> Resolved(id) \/ id \in foreignAck

-----------------------------------------------------------------------------
(***************************************************************************)
(* Promotion implements Delivery: whatever fails, crashes or is delivered   *)
(* twice, no image is published and no row contradicts a push before its    *)
(* handler let go of it, a push is accepted or refused once, and neither a  *)
(* publication nor a contradiction is taken back.                           *)
(***************************************************************************)
Delivered == INSTANCE Delivery WITH
    Jobs <- Jobs, push <- push, published <- published, contradicted <- contradicted

ImplementsDelivery == Delivered!DeliverySpec
=============================================================================
