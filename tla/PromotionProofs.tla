-------------------------- MODULE PromotionProofs --------------------------
(***************************************************************************)
(* Theorems about Promotion, for every set of jobs and pods, every attempt  *)
(* budget and any number of faults, slow pushes and crashes.                *)
(*                                                                         *)
(* DurableUntilResolved is not inductive: a worker that has put a retry     *)
(* back in the queue is about to delete a claim, and what keeps the job in  *)
(* the queue then is who wrote that claim.  RequeuedCopy says where the     *)
(* copy is while the ack is under way, AckedOnce that the second half of    *)
(* an ack never meets a claim of the acking pod, Settled that every other   *)
(* ack follows a recorded result, BudgetLeft that a payload in Valkey has   *)
(* an attempt left (which makes the attempt counter stay in its type), and  *)
(* BlobsKept extends RetryNotDoomed to pushes not yet handed off.           *)
(* The theorems about undisturbed runs rest on a second invariant, Calm: a  *)
(* job has one copy, whose attempts cover its pushes.                       *)
(***************************************************************************)
EXTENDS Promotion, TLAPS

Acking == {"ackPayload", "ackStamp"}

\* Every job of the list s has an attempt left.
Budgeted(s) == \A i \in 1..Len(s) : s[i].attempts < MaxAttempts

BudgetLeft ==
    /\ Budgeted(pending)
    /\ \A id \in Jobs : claimed[id] # None => claimed[id].attempts < MaxAttempts
    /\ \A p \in Pods : pc[p] \in {"start", "requeue"} => job[p].attempts < MaxAttempts

Settled ==
    \A p \in Pods :
        /\ pc[p] \in Acking /\ outcome[p] # "requeued" => Resolved(job[p].id)
        /\ pc[p] = "cleanup" => Resolved(job[p].id)

BlobsKept ==
    \A id \in Jobs : push[id] \in {"gated", "accepted"} /\ ~Resolved(id) => id \in staged

RequeuedCopy ==
    \A p \in Pods :
        pc[p] \in Acking /\ outcome[p] = "requeued"
            => LET id == job[p].id
               IN  Unresolved(id) =>
                     \/ InPending(id)
                     \/ Recoverable(id) /\ claimant[id] # p
                     \/ id \in foreignAck

AckedOnce ==
    \A p \in Pods :
        pc[p] = "ackStamp" /\ claimed[job[p].id] # None => claimant[job[p].id] # p

\* The inductive invariant.
Inv ==
    /\ TypeOK
    /\ BudgetLeft
    /\ Settled
    /\ BlobsKept
    /\ DurableUntilResolved
    /\ ClaimsAreStamped
    /\ RequeuedCopy
    /\ AckedOnce

-----------------------------------------------------------------------------
(***************************************************************************)
(* What the list commands do to membership and to the budget: RPUSH.        *)
(***************************************************************************)
LEMMA ListAppend ==
    ASSUME NEW s \in Seq(Job), NEW j \in Job
    PROVE  /\ Append(s, j) \in Seq(Job)
           /\ \A id : Has(Append(s, j), id) <=> Has(s, id) \/ j.id = id
           /\ Budgeted(s) /\ j.attempts < MaxAttempts => Budgeted(Append(s, j))
<1>1. Append(s, j) \in Seq(Job) /\ Len(Append(s, j)) = Len(s) + 1
  OBVIOUS
<1>2. \A i \in 1..Len(s) : Append(s, j)[i] = s[i]
  OBVIOUS
<1>3. Append(s, j)[Len(s) + 1] = j
  OBVIOUS
<1>4. Len(s) \in Nat
  OBVIOUS
<1>5. \A i \in 1..(Len(s) + 1) : i \in 1..Len(s) \/ i = Len(s) + 1
  BY <1>4
<1>6. \A id : Has(Append(s, j), id) <=> Has(s, id) \/ j.id = id
  BY <1>1, <1>2, <1>3, <1>4, <1>5 DEF Has
<1>7. Budgeted(s) /\ j.attempts < MaxAttempts => Budgeted(Append(s, j))
  BY <1>1, <1>2, <1>3, <1>4, <1>5 DEF Budgeted
<1> QED
  BY <1>1, <1>6, <1>7

(***************************************************************************)
(* LPOP of a list that is not empty.                                        *)
(***************************************************************************)
LEMMA ListTail ==
    ASSUME NEW s \in Seq(Job), s # <<>>
    PROVE  /\ Head(s) \in Job
           /\ Tail(s) \in Seq(Job)
           /\ \A id : Has(s, id) <=> Head(s).id = id \/ Has(Tail(s), id)
           /\ Budgeted(s) => Head(s).attempts < MaxAttempts /\ Budgeted(Tail(s))
<1>1. /\ Len(s) \in Nat /\ Len(s) >= 1
      /\ Head(s) \in Job /\ Head(s) = s[1]
      /\ Tail(s) \in Seq(Job) /\ Len(Tail(s)) = Len(s) - 1
  OBVIOUS
<1>2. \A i \in 1..(Len(s) - 1) : Tail(s)[i] = s[i + 1]
  OBVIOUS
<1>3. \A i \in 1..Len(s) : i = 1 \/ (i - 1 \in 1..(Len(s) - 1) /\ (i - 1) + 1 = i)
  BY <1>1
<1>4. \A i \in 1..(Len(s) - 1) : i + 1 \in 1..Len(s)
  BY <1>1
<1>5. \A id : Has(s, id) => Head(s).id = id \/ Has(Tail(s), id)
  <2> SUFFICES ASSUME NEW id, NEW i \in 1..Len(s), s[i].id = id, i # 1
               PROVE  \E k \in 1..Len(Tail(s)) : Tail(s)[k].id = id
    BY <1>1 DEF Has
  <2>1. i - 1 \in 1..Len(Tail(s)) /\ Tail(s)[i - 1] = s[i]
    BY <1>1, <1>2, <1>3
  <2> QED
    BY <2>1
<1>6. \A id : Head(s).id = id \/ Has(Tail(s), id) => Has(s, id)
  BY <1>1, <1>2, <1>4 DEF Has
<1>7. Budgeted(s) => Head(s).attempts < MaxAttempts /\ Budgeted(Tail(s))
  BY <1>1, <1>2, <1>4 DEF Budgeted
<1> QED
  BY <1>1, <1>5, <1>6, <1>7

(***************************************************************************)
(* LPUSH.                                                                   *)
(***************************************************************************)
LEMMA ListPrepend ==
    ASSUME NEW s \in Seq(Job), NEW j \in Job
    PROVE  /\ <<j>> \o s \in Seq(Job)
           /\ \A id : Has(<<j>> \o s, id) <=> Has(s, id) \/ j.id = id
           /\ Budgeted(s) /\ j.attempts < MaxAttempts => Budgeted(<<j>> \o s)
<1> DEFINE t == <<j>> \o s
<1>1. t \in Seq(Job) /\ Len(t) = Len(s) + 1 /\ Len(s) \in Nat /\ t[1] = j
  OBVIOUS
<1>2. \A i \in 1..Len(s) : t[i + 1] = s[i]
  OBVIOUS
<1>3. \A i \in 1..(Len(s) + 1) : i = 1 \/ (i - 1 \in 1..Len(s) /\ (i - 1) + 1 = i)
  BY <1>1
<1>4. \A i \in 1..Len(s) : i + 1 \in 1..(Len(s) + 1)
  BY <1>1
<1> HIDE DEF t
<1>5. \A id : Has(t, id) => Has(s, id) \/ j.id = id
  <2> SUFFICES ASSUME NEW id, NEW i \in 1..Len(t), t[i].id = id, i # 1
               PROVE  \E k \in 1..Len(s) : s[k].id = id
    BY <1>1 DEF Has
  <2>1. i - 1 \in 1..Len(s) /\ t[i] = s[i - 1]
    BY <1>1, <1>2, <1>3
  <2> QED
    BY <2>1
<1>6. \A id : Has(s, id) \/ j.id = id => Has(t, id)
  BY <1>1, <1>2, <1>4 DEF Has
<1>7. Budgeted(s) /\ j.attempts < MaxAttempts => Budgeted(t)
  <2> SUFFICES ASSUME Budgeted(s), j.attempts < MaxAttempts, NEW i \in 1..Len(t)
               PROVE  t[i].attempts < MaxAttempts
    BY DEF Budgeted
  <2>1. CASE i = 1
    BY <1>1, <2>1
  <2>2. CASE i # 1
    BY <1>1, <1>2, <1>3, <2>2 DEF Budgeted
  <2> QED
    BY <2>1, <2>2
<1> QED
  BY <1>1, <1>5, <1>6, <1>7 DEF t

-----------------------------------------------------------------------------
(***************************************************************************)
(* What each command does to the queue, in terms of InPending.              *)
(***************************************************************************)
LEMMA EnqueueEffect ==
    ASSUME QueueTypeOK, NEW j \in Job, Enqueue(j)
    PROVE  /\ QueueTypeOK'
           /\ \A id : InPending(id)' <=> InPending(id) \/ j.id = id
           /\ Budgeted(pending) /\ j.attempts < MaxAttempts => Budgeted(pending)'
<1>1. pending \in Seq(Job) /\ pending' = Append(pending, j)
  BY DEF QueueTypeOK, Enqueue
<1>2. QueueTypeOK'
  BY <1>1, ListAppend DEF QueueTypeOK, Enqueue
<1> QED
  BY <1>1, <1>2, ListAppend DEF InPending, Has, Budgeted

\* claimScript: the head of pending becomes the recorded claim of its push ID.
LEMMA ClaimEffect ==
    ASSUME QueueTypeOK, NEW p \in Pods, ClaimScript(p)
    PROVE  LET j == Head(pending)
           IN  /\ QueueTypeOK'
               /\ j \in Job
               /\ \A id : InPending(id) => j.id = id \/ InPending(id)'
               /\ Budgeted(pending) => j.attempts < MaxAttempts /\ Budgeted(pending)'
               /\ claimed' = [claimed EXCEPT ![j.id] = j]
               /\ stamp' = [stamp EXCEPT ![j.id] = "fresh"]
               /\ claimant' = [claimant EXCEPT ![j.id] = p]
<1> DEFINE j == Head(pending)
<1>1. pending \in Seq(Job) /\ pending # <<>> /\ pending' = Tail(pending)
  BY DEF QueueTypeOK, ClaimScript
<1>2. j \in Job /\ pending' \in Seq(Job)
  BY <1>1, ListTail
<1>3. /\ claimed' = [claimed EXCEPT ![j.id] = j]
      /\ stamp' = [stamp EXCEPT ![j.id] = "fresh"]
      /\ claimant' = [claimant EXCEPT ![j.id] = p]
  BY DEF ClaimScript
<1>4. \A id : InPending(id) => j.id = id \/ InPending(id)'
  <2>1. \A id : Has(pending, id) => j.id = id \/ Has(Tail(pending), id)
    BY <1>1, ListTail
  <2>2. \A id : InPending(id)' <=> Has(Tail(pending), id)
    BY <1>1 DEF InPending, Has
  <2> QED
    BY <2>1, <2>2 DEF InPending
<1>5. Budgeted(pending) => j.attempts < MaxAttempts /\ Budgeted(pending)'
  BY <1>1, ListTail DEF Budgeted
<1> HIDE DEF j
<1>6. QueueTypeOK'
  <2>1. j.id \in Jobs
    BY <1>2 DEF Job
  <2> QED
    BY <1>2, <1>3, <2>1, QueueAssumption DEF QueueTypeOK
<1> QED
  BY <1>2, <1>3, <1>4, <1>5, <1>6 DEF j

\* requeueScript: a recorded payload is back in pending, and its claim is gone.
LEMMA RequeueEffect ==
    ASSUME QueueTypeOK, NEW i \in Jobs, RequeueScript(i)
    PROVE  /\ QueueTypeOK'
           /\ \A id : InPending(id) => InPending(id)'
           /\ claimed[i] # None => InPending(i)'
           /\ Budgeted(pending) /\ (claimed[i] # None => claimed[i].attempts < MaxAttempts)
                => Budgeted(pending)'
           /\ claimed' = [claimed EXCEPT ![i] = None]
           /\ stamp' = [stamp EXCEPT ![i] = "none"]
           /\ UNCHANGED claimant
<1>1. /\ claimed' = [claimed EXCEPT ![i] = None]
      /\ stamp' = [stamp EXCEPT ![i] = "none"]
      /\ UNCHANGED claimant
  BY DEF RequeueScript
<1>2. CASE claimed[i] = None
  BY <1>1, <1>2 DEF RequeueScript, QueueTypeOK, InPending, Has, Budgeted
<1>3. CASE claimed[i] # None
  <2>1. claimed[i] \in Job /\ claimed[i].id = i /\ pending \in Seq(Job)
    BY <1>3 DEF QueueTypeOK
  <2>2. pending' = <<claimed[i]>> \o pending
    BY <1>3 DEF RequeueScript
  <2>3. pending' \in Seq(Job)
    BY <2>1, <2>2, ListPrepend
  <2>4. /\ \A id : InPending(id) => InPending(id)'
        /\ InPending(i)'
    BY <2>1, <2>2, ListPrepend DEF InPending, Has
  <2>5. Budgeted(pending) /\ claimed[i].attempts < MaxAttempts => Budgeted(pending)'
    BY <2>1, <2>2, ListPrepend DEF Budgeted
  <2>6. QueueTypeOK'
    BY <1>1, <2>3 DEF QueueTypeOK
  <2> QED
    BY <1>1, <1>3, <2>4, <2>5, <2>6
<1> QED
  BY <1>2, <1>3

\* The commands of Ack, and time, leave pending and the claimants alone.
LEMMA AckEffect ==
    ASSUME QueueTypeOK, NEW i \in Jobs,
           AckPayload(i) \/ AckStamp(i) \/ Age(i) \/ UNCHANGED queueVars
    PROVE  /\ QueueTypeOK'
           /\ \A id : InPending(id)' <=> InPending(id)
           /\ Budgeted(pending) => Budgeted(pending)'
           /\ UNCHANGED claimant
<1>1. UNCHANGED <<pending, claimant>>
  BY DEF AckPayload, AckStamp, Age, queueVars
<1>2. QueueTypeOK'
  BY DEF AckPayload, AckStamp, Age, queueVars, QueueTypeOK
<1> QED
  BY <1>1, <1>2 DEF InPending, Has, Budgeted

-----------------------------------------------------------------------------
(***************************************************************************)
(* The steps of Next, one by one.                                           *)
(***************************************************************************)
LEMMA NextCases ==
    ASSUME [Next]_vars
    PROVE  \/ UNCHANGED vars
           \/ \E p \in Pods, id \in Jobs :
                 \/ Promote(p, id) \/ PromoteFails(p, id)
                 \/ RecoverOne(p, id) \/ RecoverFails(p, id)
           \/ \E id \in Jobs : RefusedCleanup(id) \/ Expire(id) \/ ExpireHeld(id)
           \/ \E p \in Pods :
                 \/ Claim(p) \/ ClaimReplyLost(p) \/ ClaimUnreadable(p)
                 \/ RecoverScan(p) \/ Start(p) \/ Localize(p) \/ LocalizeFails(p)
                 \/ PushSucceeds(p) \/ PushFails(p) \/ Requeue(p) \/ RequeueFails(p)
                 \/ Retire(p) \/ AckPayloadStep(p) \/ AckStampStep(p) \/ Cleanup(p)
                 \/ Crash(p) \/ Restart(p)
  BY DEF Next, HandleStep, SweepStep, ClaimStep, PollEmpty

(***************************************************************************)
(* The job of a worker inside handle.                                       *)
(***************************************************************************)
LEMMA HandlingJob ==
    ASSUME TypeOK, NEW p \in Pods, pc[p] \in Handling
    PROVE  job[p] \in Job /\ job[p].id \in Jobs /\ job[p].attempts \in 0..MaxAttempts
                /\ job[p].dir \in Dir
<1>1. job[p] \in Job
  BY DEF TypeOK
<1> QED
  BY <1>1 DEF Job

(***************************************************************************)
(* Type correctness is preserved; BudgetLeft keeps the attempt counter in   *)
(* its range when Start increments it.                                      *)
(***************************************************************************)
LEMMA TypeStep ==
    ASSUME TypeOK, BudgetLeft, [Next]_vars
    PROVE  TypeOK'
<1> USE DEF TypeOK, workerVars, storeVars, resultVars, faultVars, Fault, NoFault,
        Return, Goto, Fail, Handling
<1>q. QueueTypeOK
  OBVIOUS
<1>n. \A p \in Pods, i \in Jobs : NewJob(p, i) \in Job /\ <<p, 0>> \in Dir
  BY QueueAssumption DEF NewJob, Job, Dir
<1>u. CASE UNCHANGED vars
  BY <1>u DEF vars, queueVars, QueueTypeOK
<1>1. ASSUME NEW p \in Pods, NEW i \in Jobs, Promote(p, i) PROVE TypeOK'
  <2>1. QueueTypeOK'
    BY <1>1, <1>q, <1>n, EnqueueEffect DEF Promote
  <2> QED
    BY <1>1, <1>n, <2>1 DEF Promote, SweepRest
<1>2. ASSUME NEW p \in Pods, NEW i \in Jobs, PromoteFails(p, i) PROVE TypeOK'
  <2>1. QueueTypeOK'
    BY <1>2, <1>q, <1>n, EnqueueEffect, AckEffect DEF PromoteFails
  <2> QED
    BY <1>2, <1>n, <2>1 DEF PromoteFails, SweepRest
<1>3. ASSUME NEW p \in Pods, NEW i \in Jobs, RecoverOne(p, i) PROVE TypeOK'
  <2>1. QueueTypeOK'
    BY <1>3, <1>q, RequeueEffect DEF RecoverOne
  <2> QED
    BY <1>3, <1>n, <2>1 DEF RecoverOne, SweepRest
<1>4. ASSUME NEW p \in Pods, NEW i \in Jobs, RecoverFails(p, i) PROVE TypeOK'
  <2>1. QueueTypeOK'
    BY <1>4, <1>q, RequeueEffect, AckEffect DEF RecoverFails
  <2> QED
    BY <1>4, <1>n, <2>1 DEF RecoverFails, SweepRest
<1>5. ASSUME NEW i \in Jobs, RefusedCleanup(i) PROVE TypeOK'
  <2>1. QueueTypeOK'
    BY <1>5, <1>q, AckEffect DEF RefusedCleanup
  <2> QED
    BY <1>5, <2>1 DEF RefusedCleanup, CleanupStores
<1>6. ASSUME NEW i \in Jobs, Expire(i) PROVE TypeOK'
  <2>1. QueueTypeOK'
    BY <1>6, <1>q, AckEffect DEF Expire
  <2> QED
    BY <1>6, <2>1 DEF Expire
<1>7. ASSUME NEW i \in Jobs, ExpireHeld(i) PROVE TypeOK'
  <2>1. QueueTypeOK'
    BY <1>7, <1>q, AckEffect DEF ExpireHeld
  <2> QED
    BY <1>7, <2>1 DEF ExpireHeld
<1>8. ASSUME NEW p \in Pods, Claim(p) PROVE TypeOK'
  <2>1. QueueTypeOK' /\ Head(pending) \in Job
    BY <1>8, <1>q, ClaimEffect DEF Claim
  <2> QED
    BY <1>8, <2>1, NoneAssumption DEF Claim
<1>9. ASSUME NEW p \in Pods, ClaimReplyLost(p) PROVE TypeOK'
  <2>1. QueueTypeOK' /\ Head(pending) \in Job
    BY <1>9, <1>q, ClaimEffect DEF ClaimReplyLost
  <2> QED
    BY <1>9, <2>1 DEF ClaimReplyLost, Job
<1>10. ASSUME NEW p \in Pods, ClaimUnreadable(p) PROVE TypeOK'
  <2>1. QueueTypeOK' /\ Head(pending) \in Job
    BY <1>10, <1>q, ClaimEffect DEF ClaimUnreadable
  <2> QED
    BY <1>10, <2>1 DEF ClaimUnreadable, Job
<1>11. ASSUME NEW p \in Pods, RecoverScan(p) PROVE TypeOK'
  <2>2. QueueTypeOK'
    BY <1>11 DEF RecoverScan, QueueTypeOK, queueVars
  <2> QED
    BY <1>11, <2>2 DEF RecoverScan, StaleStamps
<1>12. ASSUME NEW p \in Pods, Start(p) PROVE TypeOK'
  <2>1. /\ job[p] \in Job /\ job[p].id \in Jobs
        /\ job[p].attempts \in 0..MaxAttempts /\ job[p].dir \in Dir
    BY <1>12, HandlingJob DEF Start
  <2>2. QueueTypeOK'
    BY <1>12, <2>1 DEF Start, QueueTypeOK, queueVars
  <2>3. job[p].attempts < MaxAttempts
    BY <1>12 DEF Start, BudgetLeft
  <2>4. [job[p] EXCEPT !.attempts = @ + 1] \in Job
    BY <2>1, <2>3, QueueAssumption DEF Job
  <2>5. job' \in [Pods -> Job \cup {None}] /\ \A q \in Pods : job'[q] = None => job[q] = None
    BY <1>12, <2>1, <2>4, NoneAssumption DEF Start
  <2> QED
    BY <1>12, <2>1, <2>2, <2>5, NoneAssumption DEF Start
<1>13. ASSUME NEW p \in Pods, Localize(p) PROVE TypeOK'
  <2>1. /\ job[p] \in Job /\ job[p].id \in Jobs
        /\ job[p].attempts \in 0..MaxAttempts /\ job[p].dir \in Dir
    BY <1>13, HandlingJob DEF Localize
  <2>2. QueueTypeOK'
    BY <1>13, <2>1 DEF Localize, QueueTypeOK, queueVars
  <2> DEFINE d == <<p, job[p].attempts>>
  <2>3. d \in Dir
    BY <2>1 DEF Dir
  <2>4. CASE LayoutIsLocal(p)
    BY <1>13, <2>1, <2>2, <2>4 DEF Localize
  <2>5. CASE ~LayoutIsLocal(p)
    <3>1. /\ job' = [job EXCEPT ![p] = [@ EXCEPT !.dir = d]]
          /\ scratch' = [scratch EXCEPT ![job[p].id] = @ \cup {d}]
      BY <1>13, <2>5 DEF Localize
    <3>2. [job[p] EXCEPT !.dir = d] \in Job
      BY <2>1, <2>3 DEF Job
    <3>3. job' \in [Pods -> Job \cup {None}] /\ job'[p] \in Job
      BY <3>1, <3>2
    <3>4. \A o \in Pods : job'[o] = None => o # p /\ job[o] = None
      BY <3>1, <3>3, NoneAssumption
    <3>5. scratch' \in [Jobs -> SUBSET Dir]
      BY <2>1, <2>3, <3>1
    <3> QED
      BY <1>13, <2>2, <3>3, <3>4, <3>5 DEF Localize
  <2> QED
    BY <2>4, <2>5
<1>14. ASSUME NEW p \in Pods, LocalizeFails(p) PROVE TypeOK'
  <2>1. /\ job[p] \in Job /\ job[p].id \in Jobs
        /\ job[p].attempts \in 0..MaxAttempts /\ job[p].dir \in Dir
    BY <1>14, HandlingJob DEF LocalizeFails
  <2>2. QueueTypeOK'
    BY <1>14, <2>1 DEF LocalizeFails, QueueTypeOK, queueVars
  <2> QED
    BY <1>14, <2>1, <2>2 DEF LocalizeFails
<1>15. ASSUME NEW p \in Pods, PushSucceeds(p) PROVE TypeOK'
  <2>1. /\ job[p] \in Job /\ job[p].id \in Jobs
        /\ job[p].attempts \in 0..MaxAttempts /\ job[p].dir \in Dir
    BY <1>15, HandlingJob DEF PushSucceeds
  <2>2. QueueTypeOK'
    BY <1>15, <2>1 DEF PushSucceeds, QueueTypeOK, queueVars
  <2> QED
    BY <1>15, <2>1, <2>2 DEF PushSucceeds
<1>16. ASSUME NEW p \in Pods, PushFails(p) PROVE TypeOK'
  <2>1. /\ job[p] \in Job /\ job[p].id \in Jobs
        /\ job[p].attempts \in 0..MaxAttempts /\ job[p].dir \in Dir
    BY <1>16, HandlingJob DEF PushFails
  <2>2. QueueTypeOK'
    BY <1>16, <2>1 DEF PushFails, QueueTypeOK, queueVars
  <2> QED
    BY <1>16, <2>1, <2>2 DEF PushFails
<1>17. ASSUME NEW p \in Pods, Requeue(p) PROVE TypeOK'
  <2>1. /\ job[p] \in Job /\ job[p].id \in Jobs
        /\ job[p].attempts \in 0..MaxAttempts /\ job[p].dir \in Dir
    BY <1>17, HandlingJob DEF Requeue
  <2>2. QueueTypeOK'
    BY <1>17, <2>1, <1>q, EnqueueEffect DEF Requeue
  <2> QED
    BY <1>17, <2>1, <2>2 DEF Requeue
<1>18. ASSUME NEW p \in Pods, RequeueFails(p) PROVE TypeOK'
  <2>1. /\ job[p] \in Job /\ job[p].id \in Jobs
        /\ job[p].attempts \in 0..MaxAttempts /\ job[p].dir \in Dir
    BY <1>18, HandlingJob DEF RequeueFails
  <2>2. QueueTypeOK'
    BY <1>18, <2>1, <1>q, EnqueueEffect DEF RequeueFails, QueueTypeOK, queueVars
  <2> QED
    BY <1>18, <2>1, <2>2 DEF RequeueFails
<1>19. ASSUME NEW p \in Pods, Retire(p) PROVE TypeOK'
  <2>1. /\ job[p] \in Job /\ job[p].id \in Jobs
        /\ job[p].attempts \in 0..MaxAttempts /\ job[p].dir \in Dir
    BY <1>19, HandlingJob DEF Retire
  <2>2. QueueTypeOK'
    BY <1>19, <2>1 DEF Retire, QueueTypeOK, queueVars
  <2> QED
    BY <1>19, <2>1, <2>2 DEF Retire
<1>20. ASSUME NEW p \in Pods, AckPayloadStep(p) PROVE TypeOK'
  <2>1. /\ job[p] \in Job /\ job[p].id \in Jobs
        /\ job[p].attempts \in 0..MaxAttempts /\ job[p].dir \in Dir
    BY <1>20, HandlingJob DEF AckPayloadStep
  <2>2. QueueTypeOK'
    BY <1>20, <2>1, <1>q, AckEffect DEF AckPayloadStep
  <2> QED
    BY <1>20, <2>1, <2>2 DEF AckPayloadStep, AfterAck, NoteForeign
<1>21. ASSUME NEW p \in Pods, AckStampStep(p) PROVE TypeOK'
  <2>1. /\ job[p] \in Job /\ job[p].id \in Jobs
        /\ job[p].attempts \in 0..MaxAttempts /\ job[p].dir \in Dir
    BY <1>21, HandlingJob DEF AckStampStep
  <2>2. QueueTypeOK'
    BY <1>21, <2>1, <1>q, AckEffect DEF AckStampStep
  <2> QED
    BY <1>21, <2>1, <2>2 DEF AckStampStep, AfterAck, NoteForeign
<1>22. ASSUME NEW p \in Pods, Cleanup(p) PROVE TypeOK'
  <2>1. /\ job[p] \in Job /\ job[p].id \in Jobs
        /\ job[p].attempts \in 0..MaxAttempts /\ job[p].dir \in Dir
    BY <1>22, HandlingJob DEF Cleanup
  <2>2. QueueTypeOK'
    BY <1>22, <2>1 DEF Cleanup, QueueTypeOK, queueVars
  <2> QED
    BY <1>22, <2>1, <2>2 DEF Cleanup, CleanupStores
<1>23. ASSUME NEW p \in Pods, Crash(p) PROVE TypeOK'
  <2>2. QueueTypeOK'
    BY <1>23 DEF Crash, QueueTypeOK, queueVars
  <2> QED
    BY <1>23, <2>2 DEF Crash
<1>24. ASSUME NEW p \in Pods, Restart(p) PROVE TypeOK'
  <2>2. QueueTypeOK'
    BY <1>24 DEF Restart, QueueTypeOK, queueVars
  <2> QED
    BY <1>24, <2>2 DEF Restart
<1> QED
  BY NextCases, <1>u, <1>1, <1>2, <1>3, <1>4, <1>5, <1>6, <1>7, <1>8, <1>9, <1>10,
     <1>11, <1>12, <1>13, <1>14, <1>15, <1>16, <1>17, <1>18, <1>19, <1>20, <1>21, <1>22,
     <1>23, <1>24

(***************************************************************************)
(* A job in Valkey has an attempt left: only fail re-enqueues, and only a   *)
(* job below the budget; Recover re-queues the payload as it was claimed.   *)
(***************************************************************************)
LEMMA BudgetStep ==
    ASSUME TypeOK, BudgetLeft, [Next]_vars
    PROVE  BudgetLeft'
<1> USE DEF BudgetLeft, workerVars, storeVars, resultVars, faultVars, Fault, NoFault,
        Return, Goto, Fail, Handling
<1>q. QueueTypeOK /\ MaxAttempts \in Nat \ {0}
  BY QueueAssumption DEF TypeOK
<1>t. /\ pc \in [Pods -> Handling \cup {"idle", "sweep", "down"}]
      /\ job \in [Pods -> Job \cup {None}]
      /\ claimed \in [Jobs -> Job \cup {None}]
  BY DEF TypeOK, QueueTypeOK
<1>n. \A p \in Pods, i \in Jobs : NewJob(p, i) \in Job /\ NewJob(p, i).attempts = 0
  BY <1>q DEF NewJob, Job, Dir
<1>u. CASE UNCHANGED <<queueVars, workerVars>>
  BY <1>u DEF queueVars, Budgeted
<1>1. ASSUME NEW p \in Pods, NEW i \in Jobs, Promote(p, i) PROVE BudgetLeft'
  BY <1>1, <1>q, <1>t, <1>n, EnqueueEffect DEF Promote, Enqueue
<1>2. ASSUME NEW p \in Pods, NEW i \in Jobs, PromoteFails(p, i) PROVE BudgetLeft'
  BY <1>2, <1>q, <1>t, <1>n, <1>u, EnqueueEffect DEF PromoteFails, Enqueue
<1>3. ASSUME NEW p \in Pods, NEW i \in Jobs, RecoverOne(p, i) PROVE BudgetLeft'
  BY <1>3, <1>q, <1>t, RequeueEffect DEF RecoverOne, SweepRest
<1>4. ASSUME NEW p \in Pods, NEW i \in Jobs, RecoverFails(p, i) PROVE BudgetLeft'
  BY <1>4, <1>q, <1>t, RequeueEffect DEF RecoverFails, SweepRest, queueVars, Budgeted
<1>5. ASSUME NEW i \in Jobs, RefusedCleanup(i) PROVE BudgetLeft'
  BY <1>5, <1>q, <1>t, <1>u DEF RefusedCleanup
<1>6. ASSUME NEW i \in Jobs, Expire(i) PROVE BudgetLeft'
  BY <1>6, <1>q, <1>t, AckEffect DEF Expire, Age
<1>7. ASSUME NEW i \in Jobs, ExpireHeld(i) PROVE BudgetLeft'
  BY <1>7, <1>q, <1>t, AckEffect DEF ExpireHeld, Age
<1>8. ASSUME NEW p \in Pods, Claim(p) PROVE BudgetLeft'
  BY <1>8, <1>q, <1>t, ClaimEffect DEF Claim, Job
<1>9. ASSUME NEW p \in Pods, ClaimReplyLost(p) PROVE BudgetLeft'
  BY <1>9, <1>q, <1>t, ClaimEffect DEF ClaimReplyLost, Job
<1>10. ASSUME NEW p \in Pods, ClaimUnreadable(p) PROVE BudgetLeft'
  BY <1>10, <1>q, <1>t, ClaimEffect DEF ClaimUnreadable, Job
<1>11. ASSUME NEW p \in Pods, RecoverScan(p) PROVE BudgetLeft'
  BY <1>11, <1>q, <1>t DEF RecoverScan, queueVars, Budgeted
<1>12. ASSUME NEW p \in Pods, Start(p) PROVE BudgetLeft'
  BY <1>12, <1>q, <1>t DEF Start, queueVars, Budgeted
<1>13. ASSUME NEW p \in Pods, Localize(p) PROVE BudgetLeft'
  BY <1>13, <1>q, <1>t DEF Localize, queueVars, Budgeted
<1>14. ASSUME NEW p \in Pods, LocalizeFails(p) PROVE BudgetLeft'
  BY <1>14, <1>q, <1>t, HandlingJob DEF LocalizeFails, queueVars, Budgeted
<1>15. ASSUME NEW p \in Pods, PushSucceeds(p) PROVE BudgetLeft'
  BY <1>15, <1>q, <1>t DEF PushSucceeds, queueVars, Budgeted
<1>16. ASSUME NEW p \in Pods, PushFails(p) PROVE BudgetLeft'
  BY <1>16, <1>q, <1>t, HandlingJob DEF PushFails, queueVars, Budgeted
<1>17. ASSUME NEW p \in Pods, Requeue(p) PROVE BudgetLeft'
  BY <1>17, <1>q, <1>t, HandlingJob, EnqueueEffect DEF Requeue, Enqueue
<1>18. ASSUME NEW p \in Pods, RequeueFails(p) PROVE BudgetLeft'
  BY <1>18, <1>q, <1>t, HandlingJob, EnqueueEffect DEF RequeueFails, Enqueue, queueVars, Budgeted
<1>19. ASSUME NEW p \in Pods, Retire(p) PROVE BudgetLeft'
  BY <1>19, <1>q, <1>t DEF Retire, queueVars, Budgeted
<1>20. ASSUME NEW p \in Pods, AckPayloadStep(p) PROVE BudgetLeft'
  BY <1>20, <1>q, <1>t, HandlingJob, AckEffect DEF AckPayloadStep, AckPayload, AfterAck, queueVars
<1>21. ASSUME NEW p \in Pods, AckStampStep(p) PROVE BudgetLeft'
  BY <1>21, <1>q, <1>t, HandlingJob, AckEffect DEF AckStampStep, AckStamp, AfterAck, queueVars
<1>22. ASSUME NEW p \in Pods, Cleanup(p) PROVE BudgetLeft'
  BY <1>22, <1>q, <1>t DEF Cleanup, queueVars, Budgeted
<1>23. ASSUME NEW p \in Pods, Crash(p) PROVE BudgetLeft'
  BY <1>23, <1>q, <1>t DEF Crash, queueVars, Budgeted
<1>24. ASSUME NEW p \in Pods, Restart(p) PROVE BudgetLeft'
  BY <1>24, <1>q, <1>t DEF Restart, queueVars, Budgeted
<1> QED
  BY NextCases, <1>u, <1>1, <1>2, <1>3, <1>4, <1>5, <1>6, <1>7, <1>8, <1>9, <1>10,
     <1>11, <1>12, <1>13, <1>14, <1>15, <1>16, <1>17, <1>18, <1>19, <1>20, <1>21, <1>22,
     <1>23, <1>24 DEF vars

(***************************************************************************)
(* Published and contradicted only grow.                                    *)
(***************************************************************************)
LEMMA ResolvedGrows ==
    ASSUME [Next]_vars
    PROVE  \A id : Resolved(id) => Resolved(id)'
<1>1. published \subseteq published' /\ contradicted \subseteq contradicted'
  BY NextCases DEF vars, resultVars, Promote, PromoteFails, RecoverOne, RecoverFails,
     RefusedCleanup, Expire, ExpireHeld, Claim, ClaimReplyLost, ClaimUnreadable,
     RecoverScan, Start, Localize, LocalizeFails, PushSucceeds, PushFails, Requeue,
     RequeueFails, Retire, AckPayloadStep, AckStampStep, Cleanup, Crash, Restart
<1> QED
  BY <1>1 DEF Resolved

(***************************************************************************)
(* An ack that is not for a re-enqueued retry, and every cleanup, follows a *)
(* recorded result: published, or contradicted.                             *)
(***************************************************************************)
LEMMA SettledStep ==
    ASSUME TypeOK, Settled, [Next]_vars
    PROVE  Settled'
<1> USE DEF Settled, Acking, workerVars, Return, Goto, Fail
<1>t. /\ pc \in [Pods -> Handling \cup {"idle", "sweep", "down"}]
      /\ job \in [Pods -> Job \cup {None}]
      /\ outcome \in [Pods -> {"none", "requeued", "published", "retired"}]
  BY DEF TypeOK
<1>u. CASE UNCHANGED workerVars
  BY <1>u, ResolvedGrows
<1>1. ASSUME NEW p \in Pods, NEW i \in Jobs, RecoverOne(p, i) PROVE Settled'
  BY <1>1, <1>t, ResolvedGrows DEF RecoverOne, SweepRest
<1>2. ASSUME NEW p \in Pods, NEW i \in Jobs, RecoverFails(p, i) PROVE Settled'
  BY <1>2, <1>t, ResolvedGrows DEF RecoverFails, SweepRest
<1>3. ASSUME NEW p \in Pods, Claim(p) PROVE Settled'
  BY <1>3, <1>t, ResolvedGrows DEF Claim
<1>4. ASSUME NEW p \in Pods, RecoverScan(p) PROVE Settled'
  BY <1>4, <1>t, ResolvedGrows DEF RecoverScan
<1>5. ASSUME NEW p \in Pods, Start(p) PROVE Settled'
  BY <1>5, <1>t, ResolvedGrows DEF Start
<1>6. ASSUME NEW p \in Pods, Localize(p) PROVE Settled'
  BY <1>6, <1>t, ResolvedGrows DEF Localize
<1>7. ASSUME NEW p \in Pods, LocalizeFails(p) PROVE Settled'
  BY <1>7, <1>t, ResolvedGrows DEF LocalizeFails
<1>8. ASSUME NEW p \in Pods, PushSucceeds(p) PROVE Settled'
  BY <1>8, <1>t, ResolvedGrows DEF PushSucceeds, Resolved
<1>9. ASSUME NEW p \in Pods, PushFails(p) PROVE Settled'
  BY <1>9, <1>t, ResolvedGrows DEF PushFails
<1>10. ASSUME NEW p \in Pods, Requeue(p) PROVE Settled'
  BY <1>10, <1>t, ResolvedGrows DEF Requeue
<1>11. ASSUME NEW p \in Pods, RequeueFails(p) PROVE Settled'
  BY <1>11, <1>t, ResolvedGrows DEF RequeueFails
<1>12. ASSUME NEW p \in Pods, Retire(p) PROVE Settled'
  BY <1>12, <1>t, ResolvedGrows DEF Retire, Resolved
<1>13. ASSUME NEW p \in Pods, AckPayloadStep(p) PROVE Settled'
  BY <1>13, <1>t, ResolvedGrows DEF AckPayloadStep, AfterAck
<1>14. ASSUME NEW p \in Pods, AckStampStep(p) PROVE Settled'
  BY <1>14, <1>t, ResolvedGrows DEF AckStampStep, AfterAck
<1>15. ASSUME NEW p \in Pods, Cleanup(p) PROVE Settled'
  BY <1>15, <1>t, ResolvedGrows DEF Cleanup
<1>16. ASSUME NEW p \in Pods, Crash(p) PROVE Settled'
  BY <1>16, <1>t, ResolvedGrows DEF Crash
<1>17. ASSUME NEW p \in Pods, Restart(p) PROVE Settled'
  BY <1>17, <1>t, ResolvedGrows DEF Restart
<1>18. ASSUME NEW p \in Pods, NEW i \in Jobs, Promote(p, i) \/ PromoteFails(p, i)
       PROVE  Settled'
  BY <1>18, <1>u DEF Promote, PromoteFails
<1>19. ASSUME NEW i \in Jobs, RefusedCleanup(i) \/ Expire(i) \/ ExpireHeld(i)
       PROVE  Settled'
  BY <1>19, <1>u DEF RefusedCleanup, Expire, ExpireHeld
<1>20. ASSUME NEW p \in Pods, ClaimReplyLost(p) \/ ClaimUnreadable(p) PROVE Settled'
  BY <1>20, <1>u DEF ClaimReplyLost, ClaimUnreadable
<1>21. CASE UNCHANGED vars
  BY <1>21, <1>u DEF vars
<1> HIDE DEF Settled, Acking, workerVars, Return, Goto, Fail
<1> QED
  BY NextCases, <1>1, <1>2, <1>3, <1>4, <1>5, <1>6, <1>7, <1>8, <1>9, <1>10, <1>11,
     <1>12, <1>13, <1>14, <1>15, <1>16, <1>17, <1>18, <1>19, <1>20, <1>21

(***************************************************************************)
(* The blobs of a push stay until its result is recorded: the handler       *)
(* cleans up only a push it refused, and a worker only a settled one.       *)
(***************************************************************************)
LEMMA BlobsStep ==
    ASSUME TypeOK, Settled, BlobsKept, [Next]_vars
    PROVE  BlobsKept'
<1>t. push \in [Jobs -> {"gated", "accepted", "refusing", "refused"}]
  BY DEF TypeOK
<1>1. ASSUME NEW i \in Jobs, RefusedCleanup(i) PROVE BlobsKept'
  BY <1>1, <1>t, ResolvedGrows DEF RefusedCleanup, CleanupStores, BlobsKept
<1>2. ASSUME NEW p \in Pods, Cleanup(p) PROVE BlobsKept'
  BY <1>2, ResolvedGrows DEF Cleanup, CleanupStores, BlobsKept, Settled
<1>3. CASE \E p \in Pods, i \in Jobs : Promote(p, i) \/ PromoteFails(p, i)
  BY <1>3, <1>t, ResolvedGrows DEF Promote, PromoteFails, BlobsKept
<1>4. CASE UNCHANGED <<push, staged>>
  BY <1>4, ResolvedGrows DEF BlobsKept
<1> QED
  BY NextCases, <1>1, <1>2, <1>3, <1>4 DEF vars, storeVars, RecoverOne, RecoverFails,
     Expire, ExpireHeld, Claim, ClaimReplyLost, ClaimUnreadable, RecoverScan, Start,
     Localize, LocalizeFails, PushSucceeds, PushFails, Requeue, RequeueFails, Retire,
     AckPayloadStep, AckStampStep, Crash, Restart

(***************************************************************************)
(* A push that is unresolved after a step was unresolved before it, or the  *)
(* step is the hand-off that put its job in the queue.                      *)
(***************************************************************************)
LEMMA UnresolvedStep ==
    ASSUME TypeOK, [Next]_vars
    PROVE  \A id \in Jobs : Unresolved(id)' => Unresolved(id) \/ InPending(id)'
<1>t. push \in [Jobs -> {"gated", "accepted", "refusing", "refused"}] /\ QueueTypeOK
  BY DEF TypeOK
<1>1. ASSUME NEW p \in Pods, NEW i \in Jobs, Promote(p, i)
      PROVE  \A id \in Jobs : Unresolved(id)' => Unresolved(id) \/ InPending(id)'
  <2>1. NewJob(p, i) \in Job /\ NewJob(p, i).id = i
    BY QueueAssumption DEF NewJob, Job, Dir
  <2>2. InPending(i)'
    BY <1>1, <1>t, <2>1, EnqueueEffect DEF Promote
  <2>3. \A id \in Jobs : id # i => push'[id] = push[id]
    BY <1>1, <1>t DEF Promote
  <2> QED
    BY <2>2, <2>3, ResolvedGrows DEF Unresolved
<1>2. CASE \A id \in Jobs : push'[id] = "accepted" => push[id] = "accepted"
  BY <1>2, ResolvedGrows DEF Unresolved
<1>3. ASSUME NEW p \in Pods, NEW i \in Jobs, PromoteFails(p, i)
      PROVE  \A id \in Jobs : push'[id] = "accepted" => push[id] = "accepted"
  BY <1>3, <1>t DEF PromoteFails
<1>4. ASSUME NEW i \in Jobs, RefusedCleanup(i)
      PROVE  \A id \in Jobs : push'[id] = "accepted" => push[id] = "accepted"
  BY <1>4, <1>t DEF RefusedCleanup
<1>5. CASE UNCHANGED push
  BY <1>2, <1>5
<1> QED
  BY NextCases, <1>1, <1>2, <1>3, <1>4, <1>5 DEF vars, RecoverOne, RecoverFails,
     Expire, ExpireHeld, Claim, ClaimReplyLost, ClaimUnreadable, RecoverScan, Start,
     Localize, LocalizeFails, PushSucceeds, PushFails, Requeue, RequeueFails, Retire,
     AckPayloadStep, AckStampStep, Cleanup, Crash, Restart

\* The parts of the invariant that are about the queue.
QueueInv == DurableUntilResolved /\ ClaimsAreStamped /\ RequeuedCopy /\ AckedOnce

(***************************************************************************)
(* Steps that leave the queue alone, start no ack of a retry and no second  *)
(* half of an ack.                                                          *)
(***************************************************************************)
LEMMA QueueFrame ==
    ASSUME TypeOK, QueueInv, [Next]_vars, UNCHANGED <<queueVars, foreignAck>>,
           \A p \in Pods : pc'[p] \in Acking /\ outcome'[p] = "requeued"
                => pc[p] \in Acking /\ outcome[p] = "requeued" /\ job'[p] = job[p],
           \A p \in Pods : pc'[p] = "ackStamp" => pc[p] = "ackStamp" /\ job'[p] = job[p]
    PROVE  QueueInv'
<1>1. /\ \A id : InPending(id)' <=> InPending(id)
      /\ \A id : Recoverable(id)' <=> Recoverable(id)
      /\ UNCHANGED <<claimed, stamp, claimant>>
  BY DEF queueVars, InPending, Has, Recoverable
<1>2. \A id \in Jobs : Unresolved(id)' => Unresolved(id) \/ InPending(id)
  BY <1>1, UnresolvedStep
<1>3. DurableUntilResolved'
  BY <1>1, <1>2 DEF QueueInv, DurableUntilResolved
<1>4. ClaimsAreStamped'
  BY <1>1 DEF QueueInv, ClaimsAreStamped
<1>5. RequeuedCopy'
  <2> SUFFICES ASSUME NEW p \in Pods, pc'[p] \in Acking, outcome'[p] = "requeued",
                      Unresolved(job[p].id)'
               PROVE  \/ InPending(job[p].id)
                      \/ Recoverable(job[p].id) /\ claimant[job[p].id] # p
                      \/ job[p].id \in foreignAck
    BY <1>1 DEF RequeuedCopy
  <2>1. pc[p] \in Handling
    BY DEF Acking, Handling
  <2> QED
    BY <1>2, <2>1, HandlingJob DEF QueueInv, RequeuedCopy
<1>6. AckedOnce'
  BY <1>1 DEF QueueInv, AckedOnce
<1> QED
  BY <1>3, <1>4, <1>5, <1>6 DEF QueueInv

(***************************************************************************)
(* Enqueue, by a handler or by fail.                                        *)
(***************************************************************************)
LEMMA QueueEnqueue ==
    ASSUME TypeOK, QueueInv, [Next]_vars, NEW j \in Job, Enqueue(j), UNCHANGED foreignAck,
           \A p \in Pods : pc'[p] \in Acking /\ outcome'[p] = "requeued"
                => /\ job'[p] = job[p]
                   /\ (pc[p] \in Acking /\ outcome[p] = "requeued") \/ job[p].id = j.id,
           \A p \in Pods : pc'[p] = "ackStamp" => pc[p] = "ackStamp" /\ job'[p] = job[p]
    PROVE  QueueInv'
<1>q. QueueTypeOK
  BY DEF TypeOK
<1>1. /\ \A id : InPending(id)' <=> InPending(id) \/ j.id = id
      /\ UNCHANGED <<claimed, stamp, claimant>>
  BY <1>q, EnqueueEffect DEF Enqueue
<1>2. \A id : Recoverable(id)' <=> Recoverable(id)
  BY <1>1 DEF Recoverable
<1>3. DurableUntilResolved'
  BY <1>1, <1>2, UnresolvedStep DEF QueueInv, DurableUntilResolved
<1>4. ClaimsAreStamped'
  BY <1>1 DEF QueueInv, ClaimsAreStamped
<1>5. RequeuedCopy'
  <2> SUFFICES ASSUME NEW p \in Pods, pc'[p] \in Acking, outcome'[p] = "requeued",
                      Unresolved(job[p].id)', job[p].id # j.id
               PROVE  \/ InPending(job[p].id)'
                      \/ Recoverable(job[p].id) /\ claimant[job[p].id] # p
                      \/ job[p].id \in foreignAck
    BY <1>1, <1>2 DEF RequeuedCopy
  <2>1. pc[p] \in Handling
    BY DEF Acking, Handling
  <2> QED
    BY <1>1, <2>1, HandlingJob, UnresolvedStep DEF QueueInv, RequeuedCopy
<1>6. AckedOnce'
  BY <1>1 DEF QueueInv, AckedOnce
<1> QED
  BY <1>3, <1>4, <1>5, <1>6 DEF QueueInv

(***************************************************************************)
(* Claim: the claimant is idle, so it is not in the middle of an ack, and   *)
(* the new claim is not that of any pod that is.                            *)
(***************************************************************************)
LEMMA QueueClaim ==
    ASSUME TypeOK, QueueInv, [Next]_vars, NEW c \in Pods, pc[c] = "idle", ClaimScript(c),
           UNCHANGED foreignAck,
           \A p \in Pods : p # c => /\ pc'[p] = pc[p] /\ job'[p] = job[p]
                                     /\ outcome'[p] = outcome[p],
           pc'[c] \in {"idle", "start"}
    PROVE  QueueInv'
<1>q. QueueTypeOK
  BY DEF TypeOK
<1>1. PICK j \in Job :
      /\ \A id : InPending(id) => j.id = id \/ InPending(id)'
      /\ claimed' = [claimed EXCEPT ![j.id] = j]
      /\ stamp' = [stamp EXCEPT ![j.id] = "fresh"]
      /\ claimant' = [claimant EXCEPT ![j.id] = c]
  BY <1>q, ClaimEffect
<1>2. j.id \in Jobs /\ j # None
  BY <1>1, NoneAssumption DEF Job
<1>3. /\ Recoverable(j.id)' /\ claimant'[j.id] = c
      /\ \A id \in Jobs : id # j.id => /\ Recoverable(id)' <=> Recoverable(id)
                                       /\ claimant'[id] = claimant[id]
                                       /\ claimed'[id] = claimed[id]
                                       /\ stamp'[id] = stamp[id]
  BY <1>q, <1>1, <1>2 DEF QueueTypeOK, Recoverable
<1>4. DurableUntilResolved'
  BY <1>1, <1>2, <1>3, UnresolvedStep DEF QueueInv, DurableUntilResolved
<1>5. ClaimsAreStamped'
  BY <1>2, <1>3 DEF QueueInv, ClaimsAreStamped, Recoverable
<1>6. RequeuedCopy'
  <2> SUFFICES ASSUME NEW p \in Pods, pc'[p] \in Acking, outcome'[p] = "requeued",
                      NEW id, id = job'[p].id, Unresolved(id)'
               PROVE  \/ InPending(id)'
                      \/ Recoverable(id)' /\ claimant'[id] # p
                      \/ id \in foreignAck
    BY DEF RequeuedCopy, Unresolved, Resolved, InPending, Recoverable
  <2>1. p # c /\ pc[p] \in Acking /\ outcome[p] = "requeued" /\ job'[p] = job[p]
    BY DEF Acking
  <2>2. job[p].id \in Jobs
    BY <2>1, HandlingJob DEF Acking, Handling
  <2> QED
    BY <1>1, <1>3, <2>1, <2>2, UnresolvedStep DEF QueueInv, RequeuedCopy
<1>7. AckedOnce'
  <2> SUFFICES ASSUME NEW p \in Pods, pc'[p] = "ackStamp", claimed'[job'[p].id] # None
               PROVE  claimant'[job'[p].id] # p
    BY DEF AckedOnce
  <2>1. p # c /\ pc[p] = "ackStamp" /\ job'[p] = job[p]
    OBVIOUS
  <2>2. job[p].id \in Jobs
    BY <2>1, HandlingJob DEF Handling
  <2> QED
    BY <1>3, <2>1, <2>2 DEF QueueInv, AckedOnce
<1> QED
  BY <1>4, <1>5, <1>6, <1>7 DEF QueueInv

(***************************************************************************)
(* Recover: what leaves the claimed hash is back in the list.               *)
(***************************************************************************)
LEMMA QueueRecover ==
    ASSUME TypeOK, QueueInv, [Next]_vars, NEW i \in Jobs, RequeueScript(i),
           UNCHANGED foreignAck,
           \A p \in Pods : pc'[p] \in Acking => pc'[p] = pc[p] /\ job'[p] = job[p]
                                                /\ outcome'[p] = outcome[p]
    PROVE  QueueInv'
<1>q. QueueTypeOK
  BY DEF TypeOK
<1>1. /\ \A id : InPending(id) => InPending(id)'
      /\ claimed[i] # None => InPending(i)'
      /\ claimed' = [claimed EXCEPT ![i] = None]
      /\ stamp' = [stamp EXCEPT ![i] = "none"]
      /\ UNCHANGED claimant
  BY <1>q, RequeueEffect
<1>2. /\ claimed'[i] = None
      /\ \A id \in Jobs : id # i => /\ Recoverable(id)' <=> Recoverable(id)
                                    /\ claimed'[id] = claimed[id]
                                    /\ stamp'[id] = stamp[id]
  BY <1>q, <1>1 DEF QueueTypeOK, Recoverable
<1>3. DurableUntilResolved'
  BY <1>1, <1>2, UnresolvedStep DEF QueueInv, DurableUntilResolved, Recoverable
<1>4. ClaimsAreStamped'
  BY <1>2 DEF QueueInv, ClaimsAreStamped
<1>5. RequeuedCopy'
  <2> SUFFICES ASSUME NEW p \in Pods, pc'[p] \in Acking, outcome'[p] = "requeued",
                      NEW id, id = job'[p].id, Unresolved(id)'
               PROVE  \/ InPending(id)'
                      \/ Recoverable(id)' /\ claimant'[id] # p
                      \/ id \in foreignAck
    BY DEF RequeuedCopy, Unresolved, Resolved, InPending, Recoverable
  <2>1. job[p].id \in Jobs
    BY HandlingJob DEF Acking, Handling
  <2> QED
    BY <1>1, <1>2, <2>1, UnresolvedStep DEF QueueInv, RequeuedCopy, Recoverable
<1>6. AckedOnce'
  <2> SUFFICES ASSUME NEW p \in Pods, pc'[p] = "ackStamp", claimed'[job'[p].id] # None
               PROVE  claimant'[job'[p].id] # p
    BY DEF AckedOnce
  <2>1. pc[p] = "ackStamp" /\ job'[p] = job[p]
    BY DEF Acking
  <2>2. job[p].id \in Jobs
    BY <2>1, HandlingJob DEF Handling
  <2> QED
    BY <1>1, <1>2, <2>1, <2>2 DEF QueueInv, AckedOnce
<1> QED
  BY <1>3, <1>4, <1>5, <1>6 DEF QueueInv

(***************************************************************************)
(* What an ack may take away: when the job is unresolved the ack is for a   *)
(* retry, so a copy is in the list, or the claim is another pod's and the   *)
(* ack is noted as foreign.                                                 *)
(***************************************************************************)
LEMMA AckedElsewhere ==
    ASSUME TypeOK, Settled, QueueInv, NEW p \in Pods, pc[p] \in Acking,
           Unresolved(job[p].id)
    PROVE  \/ InPending(job[p].id)
           \/ Recoverable(job[p].id) /\ claimant[job[p].id] # p
           \/ job[p].id \in foreignAck
<1>1. ~Resolved(job[p].id)
  BY DEF Unresolved
<1>2. outcome[p] = "requeued"
  BY <1>1 DEF Settled
<1> QED
  BY <1>2 DEF QueueInv, RequeuedCopy

\* The first command of an ack keeps the queue part of the invariant.
LEMMA QueueAckPayload ==
    ASSUME TypeOK, Settled, QueueInv, [Next]_vars, NEW p \in Pods, AckPayloadStep(p)
    PROVE  QueueInv'
<1>t. QueueTypeOK /\ pc \in [Pods -> Handling \cup {"idle", "sweep", "down"}]
      /\ job \in [Pods -> Job \cup {None}]
      /\ outcome \in [Pods -> {"none", "requeued", "published", "retired"}]
  BY DEF TypeOK
<1>p. pc[p] \in Acking /\ pc[p] = "ackPayload" /\ pc[p] \in Handling
  BY DEF AckPayloadStep, Acking, Handling
<1>1. PICK i \in Jobs : i = job[p].id
  BY <1>p, HandlingJob
<1>2. /\ \A o \in Pods : o # p => pc'[o] = pc[o] /\ job'[o] = job[o] /\ outcome'[o] = outcome[o]
      /\ pc'[p] \in {"ackStamp", "idle", "cleanup"}
      /\ pc'[p] = "ackStamp" => job'[p] = job[p] /\ outcome'[p] = outcome[p]
  BY <1>t DEF AckPayloadStep, AfterAck, Goto, Return
<1>3. CASE UNCHANGED <<queueVars, foreignAck>> /\ AfterAck(p)
  <2>1. pc'[p] \in {"idle", "cleanup"}
    BY <1>3, <1>t DEF AfterAck, Goto, Return
  <2> QED
    BY <1>2, <1>3, <2>1, QueueFrame DEF Acking
<1>4. CASE AckPayload(i) /\ NoteForeign(p, claimed[i] # None)
  <2>1. /\ claimed'[i] = None
        /\ \A id \in Jobs : id # i => claimed'[id] = claimed[id]
        /\ UNCHANGED <<pending, stamp, claimant>>
    BY <1>t, <1>4 DEF AckPayload, QueueTypeOK
  <2>2. /\ foreignAck \subseteq foreignAck'
        /\ claimed[i] # None /\ claimant[i] # p => i \in foreignAck'
    BY <1>1, <1>4 DEF NoteForeign
  <2>3. /\ \A id : InPending(id)' <=> InPending(id)
        /\ \A id \in Jobs : id # i => (Recoverable(id)' <=> Recoverable(id))
    BY <2>1 DEF InPending, Has, Recoverable
  <2>4. Unresolved(i)' => InPending(i)' \/ i \in foreignAck'
    BY <1>p, <1>1, <2>2, <2>3, UnresolvedStep, AckedElsewhere DEF Recoverable
  <2>5. DurableUntilResolved'
    BY <2>2, <2>3, <2>4, UnresolvedStep DEF QueueInv, DurableUntilResolved
  <2>6. ClaimsAreStamped'
    BY <2>1, <2>2 DEF QueueInv, ClaimsAreStamped
  <2>7. RequeuedCopy'
    <3> SUFFICES ASSUME NEW o \in Pods, pc'[o] \in Acking, outcome'[o] = "requeued",
                        NEW id, id = job'[o].id, Unresolved(id)', id # i
                 PROVE  \/ InPending(id)'
                        \/ Recoverable(id)' /\ claimant'[id] # o
                        \/ id \in foreignAck'
      BY <2>4 DEF RequeuedCopy, Unresolved, Resolved, InPending, Recoverable
    <3>1. o # p /\ pc[o] \in Acking /\ outcome[o] = "requeued" /\ job'[o] = job[o]
      BY <1>1, <1>2 DEF Acking
    <3>2. job[o].id \in Jobs
      BY <3>1, HandlingJob DEF Acking, Handling
    <3> QED
      BY <2>1, <2>2, <2>3, <3>1, <3>2, UnresolvedStep DEF QueueInv, RequeuedCopy
  <2>8. AckedOnce'
    <3> SUFFICES ASSUME NEW o \in Pods, pc'[o] = "ackStamp", claimed'[job'[o].id] # None
                 PROVE  claimant'[job'[o].id] # o
      BY DEF AckedOnce
    <3>1. o # p /\ pc[o] = "ackStamp" /\ job'[o] = job[o]
      BY <1>1, <1>2, <2>1
    <3>2. job[o].id \in Jobs
      BY <3>1, HandlingJob DEF Handling
    <3> QED
      BY <2>1, <3>1, <3>2 DEF QueueInv, AckedOnce
  <2> QED
    BY <2>5, <2>6, <2>7, <2>8 DEF QueueInv
<1> QED
  BY <1>1, <1>3, <1>4 DEF AckPayloadStep

\* The second command of an ack keeps the queue part of the invariant.
LEMMA QueueAckStamp ==
    ASSUME TypeOK, Settled, QueueInv, [Next]_vars, NEW p \in Pods, AckStampStep(p)
    PROVE  QueueInv'
<1>t. QueueTypeOK /\ pc \in [Pods -> Handling \cup {"idle", "sweep", "down"}]
      /\ job \in [Pods -> Job \cup {None}]
      /\ outcome \in [Pods -> {"none", "requeued", "published", "retired"}]
  BY DEF TypeOK
<1>p. pc[p] \in Acking /\ pc[p] = "ackStamp" /\ pc[p] \in Handling
  BY DEF AckStampStep, Acking, Handling
<1>1. PICK i \in Jobs : i = job[p].id
  BY <1>p, HandlingJob
<1>2. /\ \A o \in Pods : o # p => pc'[o] = pc[o] /\ job'[o] = job[o] /\ outcome'[o] = outcome[o]
      /\ pc'[p] \in {"idle", "cleanup"}
  BY <1>t DEF AckStampStep, AfterAck, Goto, Return
<1>3. CASE UNCHANGED <<queueVars, foreignAck>>
  BY <1>2, <1>3, QueueFrame DEF Acking
<1>4. CASE AckStamp(i) /\ NoteForeign(p, Recoverable(i))
  <2>1. /\ stamp'[i] = "none"
        /\ \A id \in Jobs : id # i => stamp'[id] = stamp[id]
        /\ UNCHANGED <<pending, claimed, claimant>>
    BY <1>t, <1>4 DEF AckStamp, QueueTypeOK
  <2>2. /\ foreignAck \subseteq foreignAck'
        /\ Recoverable(i) /\ claimant[i] # p => i \in foreignAck'
    BY <1>1, <1>4 DEF NoteForeign
  <2>3. /\ \A id : InPending(id)' <=> InPending(id)
        /\ \A id \in Jobs : id # i => (Recoverable(id)' <=> Recoverable(id))
    BY <2>1 DEF InPending, Has, Recoverable
  <2>4. Unresolved(i)' => InPending(i)' \/ i \in foreignAck'
    BY <1>p, <1>1, <2>2, <2>3, UnresolvedStep, AckedElsewhere
  <2>5. DurableUntilResolved'
    BY <2>2, <2>3, <2>4, UnresolvedStep DEF QueueInv, DurableUntilResolved
  <2>6. ClaimsAreStamped'
    <3>1. claimed[i] # None => claimant[i] # p
      BY <1>p, <1>1 DEF QueueInv, AckedOnce
    <3>2. claimed[i] # None => i \in foreignAck'
      BY <2>2, <3>1 DEF QueueInv, ClaimsAreStamped, Recoverable
    <3> QED
      BY <2>1, <2>2, <3>2 DEF QueueInv, ClaimsAreStamped
  <2>7. RequeuedCopy'
    <3> SUFFICES ASSUME NEW o \in Pods, pc'[o] \in Acking, outcome'[o] = "requeued",
                        NEW id, id = job'[o].id, Unresolved(id)', id # i
                 PROVE  \/ InPending(id)'
                        \/ Recoverable(id)' /\ claimant'[id] # o
                        \/ id \in foreignAck'
      BY <2>4 DEF RequeuedCopy, Unresolved, Resolved, InPending, Recoverable
    <3>1. o # p /\ pc[o] \in Acking /\ outcome[o] = "requeued" /\ job'[o] = job[o]
      BY <1>2 DEF Acking
    <3>2. job[o].id \in Jobs
      BY <3>1, HandlingJob DEF Acking, Handling
    <3> QED
      BY <2>1, <2>2, <2>3, <3>1, <3>2, UnresolvedStep DEF QueueInv, RequeuedCopy
  <2>8. AckedOnce'
    <3>1. \A o \in Pods : pc'[o] = "ackStamp" => o # p /\ pc[o] = pc'[o] /\ job'[o] = job[o]
      BY <1>2
    <3> QED
      BY <2>1, <3>1 DEF QueueInv, AckedOnce
  <2> QED
    BY <2>5, <2>6, <2>7, <2>8 DEF QueueInv
<1> QED
  BY <1>1, <1>3, <1>4 DEF AckStampStep

(***************************************************************************)
(* Time passing only turns a fresh stamp stale.                             *)
(***************************************************************************)
LEMMA QueueAge ==
    ASSUME TypeOK, QueueInv, [Next]_vars, NEW i \in Jobs, Age(i),
           UNCHANGED <<workerVars, foreignAck>>
    PROVE  QueueInv'
<1>q. QueueTypeOK
  BY DEF TypeOK
<1>1. UNCHANGED <<pending, claimed, claimant, pc, job, outcome>>
  BY DEF Age, workerVars
<1>2. \A id \in Jobs : stamp'[id] # "none" <=> stamp[id] # "none"
  BY <1>q DEF Age, QueueTypeOK
<1>3. /\ \A id : InPending(id)' <=> InPending(id)
      /\ \A id \in Jobs : Recoverable(id)' <=> Recoverable(id)
  BY <1>1, <1>2 DEF InPending, Has, Recoverable
<1>4. DurableUntilResolved' /\ ClaimsAreStamped' /\ AckedOnce'
  BY <1>1, <1>2, <1>3, UnresolvedStep
     DEF QueueInv, DurableUntilResolved, ClaimsAreStamped, AckedOnce
<1>5. RequeuedCopy'
  <2> SUFFICES ASSUME NEW p \in Pods, pc[p] \in Acking, outcome[p] = "requeued",
                      NEW id, id = job[p].id, Unresolved(id)'
               PROVE  \/ InPending(id)'
                      \/ Recoverable(id)' /\ claimant[id] # p
                      \/ id \in foreignAck
    BY <1>1 DEF RequeuedCopy, Unresolved, Resolved, InPending, Recoverable
  <2>1. job[p].id \in Jobs
    BY HandlingJob DEF Acking, Handling
  <2> QED
    BY <1>3, <2>1, UnresolvedStep DEF QueueInv, RequeuedCopy
<1> QED
  BY <1>4, <1>5 DEF QueueInv

(***************************************************************************)
(* The queue part of the invariant is preserved.                            *)
(***************************************************************************)
LEMMA QueueStep ==
    ASSUME TypeOK, Settled, QueueInv, [Next]_vars
    PROVE  QueueInv'
<1> USE DEF workerVars, Goto, Return, Fail, Acking
<1>t. /\ pc \in [Pods -> Handling \cup {"idle", "sweep", "down"}]
      /\ job \in [Pods -> Job \cup {None}]
      /\ outcome \in [Pods -> {"none", "requeued", "published", "retired"}]
  BY DEF TypeOK
<1>n. \A p \in Pods, i \in Jobs : NewJob(p, i) \in Job
  BY QueueAssumption DEF NewJob, Job, Dir
<1>1. ASSUME NEW p \in Pods, NEW i \in Jobs, Promote(p, i) PROVE QueueInv'
  BY <1>1, <1>n, QueueEnqueue DEF Promote
<1>2. ASSUME NEW p \in Pods, NEW i \in Jobs, PromoteFails(p, i) PROVE QueueInv'
  BY <1>2, <1>n, QueueEnqueue, QueueFrame DEF PromoteFails
<1>3. ASSUME NEW p \in Pods, NEW i \in Jobs, RecoverOne(p, i) PROVE QueueInv'
  BY <1>3, <1>t, QueueRecover DEF RecoverOne, SweepRest
<1>4. ASSUME NEW p \in Pods, NEW i \in Jobs, RecoverFails(p, i) PROVE QueueInv'
  BY <1>4, <1>t, QueueRecover, QueueFrame DEF RecoverFails, SweepRest
<1>5. ASSUME NEW i \in Jobs, RefusedCleanup(i) PROVE QueueInv'
  BY <1>5, QueueFrame DEF RefusedCleanup
<1>6. ASSUME NEW i \in Jobs, Expire(i) \/ ExpireHeld(i) PROVE QueueInv'
  BY <1>6, QueueAge DEF Expire, ExpireHeld
<1>7. ASSUME NEW p \in Pods, Claim(p) PROVE QueueInv'
  BY <1>7, <1>t, QueueClaim DEF Claim
<1>8. ASSUME NEW p \in Pods, ClaimReplyLost(p) \/ ClaimUnreadable(p) PROVE QueueInv'
  BY <1>8, <1>t, QueueClaim DEF ClaimReplyLost, ClaimUnreadable
<1>9. ASSUME NEW p \in Pods, RecoverScan(p) \/ Start(p) \/ Crash(p) \/ Restart(p)
      PROVE  QueueInv'
  BY <1>9, <1>t, QueueFrame DEF RecoverScan, Start, Crash, Restart
<1>10. ASSUME NEW p \in Pods, Localize(p) \/ LocalizeFails(p) PROVE QueueInv'
  BY <1>10, <1>t, QueueFrame DEF Localize, LocalizeFails
<1>11. ASSUME NEW p \in Pods, PushSucceeds(p) \/ PushFails(p) \/ Retire(p) \/ Cleanup(p)
       PROVE  QueueInv'
  BY <1>11, <1>t, QueueFrame DEF PushSucceeds, PushFails, Retire, Cleanup
<1>12. ASSUME NEW p \in Pods, Requeue(p) PROVE QueueInv'
  <2>1. job[p] \in Job
    BY <1>12, HandlingJob DEF Requeue, Handling
  <2> QED
    BY <1>12, <1>t, <2>1, QueueEnqueue DEF Requeue
<1>13. ASSUME NEW p \in Pods, RequeueFails(p) PROVE QueueInv'
  <2>1. job[p] \in Job
    BY <1>13, HandlingJob DEF RequeueFails, Handling
  <2>2. CASE Enqueue(job[p])
    BY <1>13, <1>t, <2>1, <2>2, QueueEnqueue DEF RequeueFails
  <2>3. CASE UNCHANGED queueVars
    BY <1>13, <1>t, <2>3, QueueFrame DEF RequeueFails
  <2> QED
    BY <1>13, <2>2, <2>3 DEF RequeueFails
<1>14. CASE UNCHANGED vars
  BY <1>14, QueueFrame DEF vars
<1> HIDE DEF workerVars, Goto, Return, Fail, Acking
<1> QED
  BY NextCases, QueueAckPayload, QueueAckStamp, <1>1, <1>2, <1>3, <1>4, <1>5, <1>6,
     <1>7, <1>8, <1>9, <1>10, <1>11, <1>12, <1>13, <1>14

-----------------------------------------------------------------------------
\* The invariant holds initially: nothing is queued and every push is staged.
LEMMA InvInit == Init => Inv
<1> SUFFICES ASSUME Init PROVE Inv
  OBVIOUS
<1>1. TypeOK
  BY QueueAssumption DEF Init, QueueInit, TypeOK, QueueTypeOK, Handling
<1>2. Len(pending) = 0
  BY DEF Init, QueueInit
<1>3. BudgetLeft
  BY <1>2 DEF Init, QueueInit, BudgetLeft, Budgeted
<1>4. Settled /\ RequeuedCopy /\ AckedOnce
  BY DEF Init, Settled, RequeuedCopy, AckedOnce, Acking
<1>5. BlobsKept /\ DurableUntilResolved /\ ClaimsAreStamped
  BY DEF Init, QueueInit, BlobsKept, DurableUntilResolved, ClaimsAreStamped, Unresolved
<1> QED
  BY <1>1, <1>3, <1>4, <1>5 DEF Inv

\* Every step of the request path, the workers and the environment keeps it.
LEMMA InvNext == Inv /\ [Next]_vars => Inv'
<1> SUFFICES ASSUME Inv, [Next]_vars PROVE Inv'
  OBVIOUS
<1>1. QueueInv
  BY DEF Inv, QueueInv
<1>2. QueueInv'
  BY <1>1, QueueStep DEF Inv
<1> QED
  BY <1>2, TypeStep, BudgetStep, SettledStep, BlobsStep DEF Inv, QueueInv

\* The inductive invariant holds in every reachable state.
THEOREM Invariance == Spec => []Inv
  BY InvInit, InvNext, PTL DEF Spec

(***************************************************************************)
(* Type correctness of every reachable state.                               *)
(***************************************************************************)
THEOREM TypeCorrect == Spec => []TypeOK
<1>1. Inv => TypeOK
  BY DEF Inv
<1> QED
  BY <1>1, Invariance, PTL

(***************************************************************************)
(* A job whose client was told 201 stays in Valkey until it is published or *)
(* recorded as abandoned, whatever crashes and fails, unless a worker acks  *)
(* a claim another worker wrote.                                            *)
(***************************************************************************)
THEOREM Durability == Spec => []DurableUntilResolved
<1>1. Inv => DurableUntilResolved
  BY DEF Inv
<1> QED
  BY <1>1, Invariance, PTL

(***************************************************************************)
(* No payload is left in the claimed hash where Recover cannot find it,     *)
(* foreign acks excepted.                                                   *)
(***************************************************************************)
THEOREM ClaimsFindable == Spec => []ClaimsAreStamped
<1>1. Inv => ClaimsAreStamped
  BY DEF Inv
<1> QED
  BY <1>1, Invariance, PTL

(***************************************************************************)
(* Until a push is settled its blobs are in the shared store.               *)
(***************************************************************************)
THEOREM RetriesHaveBlobs == Spec => []RetryNotDoomed
<1>1. Inv => RetryNotDoomed
  BY DEF Inv, BlobsKept, RetryNotDoomed, Unresolved
<1> QED
  BY <1>1, Invariance, PTL

-----------------------------------------------------------------------------
(***************************************************************************)
(* With one replica no ack is foreign: every claim names the pod that made  *)
(* it, and there is no other.                                               *)
(***************************************************************************)
ClaimsAreNamed == \A id \in Jobs : claimed[id] # None => claimant[id] \in Pods

\* Every step keeps a claimant for each claim.
LEMMA NamedStep ==
    ASSUME TypeOK, ClaimsAreNamed, [Next]_vars
    PROVE  ClaimsAreNamed'
<1>q. QueueTypeOK
  BY DEF TypeOK
<1>1. ASSUME NEW p \in Pods, ClaimScript(p) PROVE ClaimsAreNamed'
  <2>1. PICK j \in Job : /\ claimed' = [claimed EXCEPT ![j.id] = j]
                         /\ claimant' = [claimant EXCEPT ![j.id] = p]
    BY <1>1, <1>q, ClaimEffect
  <2> QED
    BY <1>q, <2>1 DEF ClaimsAreNamed, QueueTypeOK
<1>2. CASE /\ UNCHANGED claimant
           /\ \A id \in Jobs : claimed'[id] # None => claimed[id] # None
  BY <1>2 DEF ClaimsAreNamed
<1>3. ASSUME NEW j, Enqueue(j) PROVE ClaimsAreNamed'
  BY <1>2, <1>3 DEF Enqueue
<1>4. ASSUME NEW i \in Jobs, RequeueScript(i) PROVE ClaimsAreNamed'
  BY <1>q, <1>2, <1>4, RequeueEffect DEF QueueTypeOK
<1>5. ASSUME NEW i \in Jobs, AckPayload(i) \/ AckStamp(i) \/ Age(i) PROVE ClaimsAreNamed'
  BY <1>q, <1>2, <1>5 DEF AckPayload, AckStamp, Age, QueueTypeOK
<1>6. CASE UNCHANGED queueVars
  BY <1>2, <1>6 DEF queueVars
<1>7. ASSUME NEW p \in Pods, AckPayloadStep(p) \/ AckStampStep(p) PROVE ClaimsAreNamed'
  <2>1. job[p].id \in Jobs
    BY <1>7, HandlingJob DEF AckPayloadStep, AckStampStep, Handling
  <2> QED
    BY <1>5, <1>6, <1>7, <2>1 DEF AckPayloadStep, AckStampStep
<1> QED
  BY NextCases, <1>1, <1>3, <1>4, <1>5, <1>6, <1>7 DEF vars, Promote, PromoteFails,
     RecoverOne, RecoverFails, RefusedCleanup, Expire, ExpireHeld, Claim,
     ClaimReplyLost, ClaimUnreadable, RecoverScan, Start, Localize, LocalizeFails,
     PushSucceeds, PushFails, Requeue, RequeueFails, Retire, Cleanup, Crash, Restart

\* With one pod no ack removes the claim of another.
LEMMA NoForeignStep ==
    ASSUME \A p, q \in Pods : p = q,
           TypeOK, ClaimsAreNamed, foreignAck = {}, [Next]_vars
    PROVE  foreignAck' = {}
<1>1. ASSUME NEW p \in Pods, AckPayloadStep(p) \/ AckStampStep(p) PROVE foreignAck' = {}
  <2>1. job[p].id \in Jobs
    BY <1>1, HandlingJob DEF AckPayloadStep, AckStampStep, Handling
  <2>2. claimed[job[p].id] # None => claimant[job[p].id] = p
    BY <2>1 DEF ClaimsAreNamed
  <2> QED
    BY <1>1, <2>2 DEF AckPayloadStep, AckStampStep, NoteForeign, Recoverable
<1> QED
  BY NextCases, <1>1 DEF vars, Promote, PromoteFails,
     RecoverOne, RecoverFails, RefusedCleanup, Expire, ExpireHeld, Claim,
     ClaimReplyLost, ClaimUnreadable, RecoverScan, Start, Localize, LocalizeFails,
     PushSucceeds, PushFails, Requeue, RequeueFails, Retire, Cleanup, Crash, Restart

(***************************************************************************)
(* A deployment with one replica never loses a push it accepted, whatever   *)
(* calls fail and however often the pod crashes.                            *)
(***************************************************************************)
THEOREM SingleReplicaNeverLoses ==
    ASSUME \A p, q \in Pods : p = q
    PROVE  Spec => []NeverLost
<1> DEFINE Solo == ClaimsAreNamed /\ foreignAck = {}
<1>1. Init => Solo
  BY DEF Init, QueueInit, ClaimsAreNamed
<1>2. Inv /\ Solo /\ [Next]_vars => Solo'
  BY NamedStep, NoForeignStep DEF Inv
<1>3. Inv /\ Solo => NeverLost
  BY DEF Inv, DurableUntilResolved, NeverLost
<1> QED
  BY <1>1, <1>2, <1>3, Invariance, PTL DEF Spec

-----------------------------------------------------------------------------
(***************************************************************************)
(* The refinement: wherever a copy of a job is (in the list, under a claim, *)
(* in a worker's hands), its handler has let go of the push.                *)
(***************************************************************************)
LetGo(id) == push[id] # "gated"

HandedOff ==
    /\ \A id \in Jobs : InPending(id) \/ claimed[id] # None => LetGo(id)
    /\ \A p \in Pods : pc[p] \in Handling => LetGo(job[p].id)

\* No step gives a push back to its handler.
LEMMA LetGoStays ==
    ASSUME TypeOK, [Next]_vars, NEW id \in Jobs, LetGo(id)
    PROVE  LetGo(id)'
<1>t. push \in [Jobs -> {"gated", "accepted", "refusing", "refused"}]
  BY DEF TypeOK
<1>1. ASSUME NEW i \in Jobs, \/ RefusedCleanup(i)
                              \/ \E p \in Pods : Promote(p, i) \/ PromoteFails(p, i)
      PROVE  LetGo(id)'
  BY <1>1, <1>t DEF RefusedCleanup, Promote, PromoteFails, LetGo
<1>2. ASSUME NEW i \in Jobs, \/ Expire(i) \/ ExpireHeld(i)
                             \/ \E p \in Pods : RecoverOne(p, i) \/ RecoverFails(p, i)
      PROVE  push' = push
  BY <1>2 DEF Expire, ExpireHeld, RecoverOne, RecoverFails
<1>3. ASSUME NEW p \in Pods,
             \/ Claim(p) \/ ClaimReplyLost(p) \/ ClaimUnreadable(p) \/ RecoverScan(p)
             \/ Cleanup(p) \/ Crash(p) \/ Restart(p)
      PROVE  push' = push
  BY <1>3 DEF Claim, ClaimReplyLost, ClaimUnreadable, RecoverScan, Cleanup, Crash, Restart
<1>4. ASSUME NEW p \in Pods,
             \/ Start(p) \/ Localize(p) \/ LocalizeFails(p) \/ PushSucceeds(p) \/ PushFails(p)
             \/ Requeue(p) \/ RequeueFails(p) \/ Retire(p) \/ AckPayloadStep(p) \/ AckStampStep(p)
      PROVE  push' = push
  BY <1>4 DEF Start, Localize, LocalizeFails, PushSucceeds, PushFails, Requeue, RequeueFails,
     Retire, AckPayloadStep, AckStampStep
<1> QED
  BY <1>1, <1>2, <1>3, <1>4, NextCases DEF LetGo, vars

\* A queue command only moves copies of jobs that were let go of.
LEMMA HandedOffQueue ==
    ASSUME TypeOK, HandedOff, [Next]_vars,
           \/ UNCHANGED queueVars
           \/ \E j \in Job : Enqueue(j) /\ push'[j.id] # "gated"
           \/ \E p \in Pods : ClaimScript(p)
           \/ \E i \in Jobs : RequeueScript(i) \/ AckPayload(i) \/ AckStamp(i) \/ Age(i)
    PROVE  \A id \in Jobs : (InPending(id) \/ claimed[id] # None => LetGo(id))'
<1>q. QueueTypeOK
  BY DEF TypeOK
<1>s. \A id \in Jobs : InPending(id) \/ claimed[id] # None => LetGo(id)'
  BY LetGoStays DEF HandedOff
<1>1. CASE UNCHANGED queueVars
  BY <1>1, <1>s DEF queueVars, InPending, Has
<1>2. ASSUME NEW j \in Job, Enqueue(j), push'[j.id] # "gated"
      PROVE  \A id \in Jobs : (InPending(id) \/ claimed[id] # None => LetGo(id))'
  BY <1>2, <1>q, <1>s, EnqueueEffect DEF Enqueue, LetGo
<1>3. ASSUME NEW p \in Pods, ClaimScript(p)
      PROVE  \A id \in Jobs : (InPending(id) \/ claimed[id] # None => LetGo(id))'
  <2> DEFINE j == Head(pending)
  <2>1. pending \in Seq(Job) /\ pending # <<>> /\ pending' = Tail(pending)
    BY <1>3, <1>q DEF ClaimScript, QueueTypeOK
  <2>2. \A id : InPending(id) <=> j.id = id \/ Has(Tail(pending), id)
    BY <2>1, ListTail DEF InPending
  <2>3. \A id : InPending(id)' <=> Has(Tail(pending), id)
    BY <2>1 DEF InPending, Has
  <2>4. j \in Job /\ claimed' = [claimed EXCEPT ![j.id] = j]
    BY <1>3, <1>q, ClaimEffect
  <2>5. j.id \in Jobs
    BY <2>4 DEF Job
  <2> HIDE DEF j
  <2> QED
    BY <1>q, <1>s, <2>2, <2>3, <2>4, <2>5 DEF QueueTypeOK
<1>4. ASSUME NEW i \in Jobs, RequeueScript(i)
      PROVE  \A id \in Jobs : (InPending(id) \/ claimed[id] # None => LetGo(id))'
  <2>1. claimed' = [claimed EXCEPT ![i] = None]
    BY <1>4 DEF RequeueScript
  <2>2. \A id : InPending(id)' => InPending(id) \/ (claimed[i] # None /\ id = i)
    <3>1. CASE claimed[i] = None
      BY <1>4, <3>1 DEF RequeueScript, InPending, Has
    <3>2. CASE claimed[i] # None
      <4>1. claimed[i] \in Job /\ claimed[i].id = i /\ pending \in Seq(Job)
        BY <1>q, <3>2 DEF QueueTypeOK
      <4>2. pending' = <<claimed[i]>> \o pending
        BY <1>4, <3>2 DEF RequeueScript
      <4> QED
        BY <3>2, <4>1, <4>2, ListPrepend DEF InPending, Has
    <3> QED
      BY <3>1, <3>2
  <2> QED
    BY <1>q, <1>s, <2>1, <2>2 DEF QueueTypeOK
<1>5. ASSUME NEW i \in Jobs, AckPayload(i) \/ AckStamp(i) \/ Age(i)
      PROVE  \A id \in Jobs : (InPending(id) \/ claimed[id] # None => LetGo(id))'
  BY <1>5, <1>q, <1>s DEF AckPayload, AckStamp, Age, InPending, Has, QueueTypeOK
<1> QED
  BY <1>1, <1>2, <1>3, <1>4, <1>5

\* Every step keeps it: a worker's job comes from the list.
LEMMA HandedOffStep ==
    ASSUME TypeOK, HandedOff, [Next]_vars
    PROVE  HandedOff'
<1>q. QueueTypeOK
  BY DEF TypeOK
<1>1. ASSUME NEW p \in Pods, pc[p] \in Handling
      PROVE  job[p] \in Job /\ job[p].id \in Jobs /\ push'[job[p].id] # "gated"
  <2>1. job[p] \in Job /\ job[p].id \in Jobs /\ LetGo(job[p].id)
    BY <1>1, HandlingJob DEF HandedOff
  <2>2. \A id \in Jobs : LetGo(id) => push'[id] # "gated"
    BY LetGoStays DEF LetGo
  <2> QED
    BY <2>1, <2>2
<1>2. ASSUME NEW p \in Pods, NEW id \in Jobs, Promote(p, id) \/ PromoteFails(p, id)
      PROVE  NewJob(p, id) \in Job /\ push'[NewJob(p, id).id] # "gated"
  BY <1>2, QueueAssumption DEF Promote, PromoteFails, NewJob, Job, Dir, LetGo, TypeOK
<1>3. \A id \in Jobs : (InPending(id) \/ claimed[id] # None => LetGo(id))'
  <2>1. CASE \E p \in Pods, id \in Jobs : Promote(p, id) \/ PromoteFails(p, id)
    BY <1>2, <2>1, HandedOffQueue DEF Promote, PromoteFails
  <2>2. CASE \E p \in Pods : \/ Requeue(p) \/ RequeueFails(p)
                              \/ AckPayloadStep(p) \/ AckStampStep(p)
    <3>1. PICK p \in Pods : \/ Requeue(p) \/ RequeueFails(p)
                            \/ AckPayloadStep(p) \/ AckStampStep(p)
      BY <2>2
    <3>2. pc[p] \in Handling
      BY <3>1 DEF Requeue, RequeueFails, AckPayloadStep, AckStampStep, Handling
    <3> QED
      BY <1>1, <3>1, <3>2, HandedOffQueue
         DEF Requeue, RequeueFails, AckPayloadStep, AckStampStep
  <2>3. CASE \/ \E p \in Pods, id \in Jobs : RecoverOne(p, id) \/ RecoverFails(p, id)
             \/ \E id \in Jobs : Expire(id) \/ ExpireHeld(id)
             \/ \E p \in Pods : Claim(p) \/ ClaimReplyLost(p) \/ ClaimUnreadable(p)
    BY <2>3, HandedOffQueue DEF RecoverOne, RecoverFails, Expire, ExpireHeld, Claim,
       ClaimReplyLost, ClaimUnreadable
  <2>4. CASE UNCHANGED queueVars
    BY <2>4, HandedOffQueue
  <2> QED
    BY NextCases, <2>1, <2>2, <2>3, <2>4 DEF vars, RefusedCleanup, RecoverScan, Start,
       Localize, LocalizeFails, PushSucceeds, PushFails, Retire, Cleanup, Crash, Restart
<1>4. \A p \in Pods : (pc[p] \in Handling => LetGo(job[p].id))'
  <2> SUFFICES ASSUME NEW p \in Pods, pc'[p] \in Handling
               PROVE  LetGo(job[p].id)'
    OBVIOUS
  <2>1. CASE Claim(p)
    <3>1. Head(pending) \in Job /\ job'[p] = Head(pending)
          /\ claimed' = [claimed EXCEPT ![Head(pending).id] = Head(pending)]
      BY <1>q, <2>1, ClaimEffect DEF Claim, TypeOK
    <3>2. Head(pending).id \in Jobs
      BY <3>1 DEF Job
    <3>3. claimed'[Head(pending).id] # None
      BY <1>q, <3>1, <3>2, NoneAssumption DEF QueueTypeOK
    <3>4. \A id \in Jobs : claimed'[id] # None => push'[id] # "gated"
      BY <1>3 DEF LetGo
    <3> QED
      BY <3>1, <3>2, <3>3, <3>4 DEF LetGo
  <2>2. CASE ~Claim(p)
    <3> USE DEF TypeOK, Handling, workerVars, Goto, Return
    <3>1. UNCHANGED workerVars => pc[p] \in Handling /\ job'[p] = job[p]
      OBVIOUS
    <3>2. ASSUME NEW q \in Pods, \/ Claim(q) \/ RecoverScan(q) \/ Cleanup(q) \/ Crash(q)
                                 \/ Restart(q) \/ RequeueFails(q)
                                 \/ \E id \in Jobs : RecoverOne(q, id) \/ RecoverFails(q, id)
          PROVE  pc[p] \in Handling /\ job'[p] = job[p]
      BY <2>2, <3>2 DEF Claim, RecoverScan, Cleanup, Crash, Restart, RequeueFails,
         RecoverOne, RecoverFails, SweepRest
    <3>3. ASSUME NEW q \in Pods, \/ Start(q) \/ Localize(q) \/ LocalizeFails(q)
                                 \/ PushSucceeds(q) \/ PushFails(q) \/ Requeue(q)
          PROVE  pc[p] \in Handling /\ job'[p].id = job[p].id
      <4>1. pc[q] \in Handling
        BY <3>3 DEF Start, Localize, LocalizeFails, PushSucceeds, PushFails, Requeue
      <4>2. job'[p] = job[p] \/ (p = q /\ job[q] \in Job /\ job'[p].id = job[q].id)
        BY <3>3, <4>1, HandlingJob DEF Start, Localize, LocalizeFails, PushSucceeds,
           PushFails, Requeue, Fail, Job
      <4>3. p # q => pc'[p] = pc[p]
        BY <3>3 DEF Start, Localize, LocalizeFails, PushSucceeds, PushFails, Requeue, Fail
      <4> QED
        BY <4>1, <4>2, <4>3
    <3>4. ASSUME NEW q \in Pods, Retire(q) \/ AckPayloadStep(q) \/ AckStampStep(q)
          PROVE  pc[p] \in Handling /\ job'[p] = job[p]
      BY <3>4 DEF Retire, AckPayloadStep, AckStampStep, AfterAck
    <3>5. pc[p] \in Handling /\ job'[p].id = job[p].id
      BY NextCases, <3>1, <3>2, <3>3, <3>4 DEF vars, Promote, PromoteFails,
         RefusedCleanup, Expire, ExpireHeld, ClaimReplyLost, ClaimUnreadable
    <3> QED
      BY <1>1, <3>5 DEF LetGo
  <2> QED
    BY <2>1, <2>2
<1> QED
  BY <1>3, <1>4 DEF HandedOff

(***************************************************************************)
(* A worker publishes or contradicts only what was handed over, a push is   *)
(* handed over once, and every other step of Promotion is invisible to the  *)
(* request path.                                                            *)
(***************************************************************************)
LEMMA StepRefines ==
    ASSUME TypeOK, HandedOff, [Next]_vars
    PROVE  [Delivered!DeliveryNext]_(Delivered!deliveryVars)
<1> USE DEF Delivered!DeliveryNext, Delivered!deliveryVars, Delivered!Hand
<1>1. ASSUME NEW p \in Pods, NEW id \in Jobs, Promote(p, id)
      PROVE  Delivered!Accept(id)
  BY <1>1 DEF Promote, Delivered!Accept, resultVars
<1>2. ASSUME NEW p \in Pods, NEW id \in Jobs, PromoteFails(p, id)
      PROVE  Delivered!Refuse(id)
  BY <1>2 DEF PromoteFails, Delivered!Refuse, resultVars
<1>3. ASSUME NEW id \in Jobs, RefusedCleanup(id)
      PROVE  Delivered!Release(id)
  BY <1>3 DEF RefusedCleanup, Delivered!Release, resultVars
<1>4. ASSUME NEW p \in Pods, PushSucceeds(p)
      PROVE  job[p].id \in Jobs /\ Delivered!Deliver(job[p].id)
  <2>1. job[p].id \in Jobs /\ LetGo(job[p].id)
    BY <1>4, HandlingJob DEF PushSucceeds, Handling, HandedOff
  <2> QED
    BY <1>4, <2>1 DEF PushSucceeds, Delivered!Deliver, LetGo
<1>5. ASSUME NEW p \in Pods, Retire(p)
      PROVE  job[p].id \in Jobs /\ Delivered!Abandon(job[p].id)
  <2>1. job[p].id \in Jobs /\ LetGo(job[p].id)
    BY <1>5, HandlingJob DEF Retire, Handling, HandedOff
  <2> QED
    BY <1>5, <2>1 DEF Retire, Delivered!Abandon, LetGo
<1>6. CASE UNCHANGED <<push, published, contradicted>>
  BY <1>6
<1>7. ASSUME NEW id \in Jobs, \/ Expire(id) \/ ExpireHeld(id)
                              \/ \E p \in Pods : RecoverOne(p, id) \/ RecoverFails(p, id)
      PROVE  UNCHANGED <<push, published, contradicted>>
  BY <1>7 DEF RecoverOne, RecoverFails, Expire, ExpireHeld, resultVars
<1>8. ASSUME NEW p \in Pods,
             \/ Claim(p) \/ ClaimReplyLost(p) \/ ClaimUnreadable(p) \/ RecoverScan(p)
             \/ Cleanup(p) \/ Crash(p) \/ Restart(p)
      PROVE  UNCHANGED <<push, published, contradicted>>
  BY <1>8 DEF Claim, ClaimReplyLost, ClaimUnreadable, RecoverScan, Cleanup, Crash, Restart,
     resultVars
<1>9. ASSUME NEW p \in Pods,
             \/ Start(p) \/ Localize(p) \/ LocalizeFails(p) \/ PushFails(p) \/ Requeue(p)
             \/ RequeueFails(p) \/ AckPayloadStep(p) \/ AckStampStep(p)
      PROVE  UNCHANGED <<push, published, contradicted>>
  BY <1>9 DEF Start, Localize, LocalizeFails, PushFails, Requeue, RequeueFails,
     AckPayloadStep, AckStampStep, resultVars
<1> QED
  BY NextCases, <1>1, <1>2, <1>3, <1>4, <1>5, <1>6, <1>7, <1>8, <1>9 DEF vars, resultVars

(***************************************************************************)
(* Promotion implements Delivery for every number of jobs, pods and faults. *)
(***************************************************************************)
THEOREM Refinement == Spec => ImplementsDelivery
<1>1. Init => Delivered!DeliveryInit /\ HandedOff
  BY DEF Init, QueueInit, Delivered!DeliveryInit, HandedOff, InPending, Has, Handling
<1>2. Inv /\ HandedOff /\ [Next]_vars => HandedOff'
  BY HandedOffStep DEF Inv
<1>3. Inv /\ HandedOff /\ [Next]_vars => [Delivered!DeliveryNext]_(Delivered!deliveryVars)
  BY StepRefines DEF Inv
<1> QED
  BY <1>1, <1>2, <1>3, Invariance, PTL DEF Spec, ImplementsDelivery, Delivered!DeliverySpec

-----------------------------------------------------------------------------
(***************************************************************************)
(* One copy.  While nothing is disturbed a job is in the list or in the     *)
(* hands of one worker before its ack, never both (Copies); its attempts    *)
(* cover the pushes made (Effort); and a stamp belongs to a claim whose     *)
(* worker is still at it (Claims), so no sweep finds it stale.  Payloads    *)
(* this version cannot read are swept, and never pushed (Unread).           *)
(***************************************************************************)
Active == {"start", "localize", "push", "requeue", "retire"}

Works(p, id) == pc[p] \in Active /\ job[p].id = id

Sole(s, id) == \A i, k \in 1..Len(s) : s[i].id = id /\ s[k].id = id => i = k

Spent(s, id, n) == \A i \in 1..Len(s) : s[i].id = id => n <= s[i].attempts

Attends(p, id) ==
    pc[p] \in Handling \ {"cleanup"} /\ job[p].id = id /\ claimant[id] = p

Absent(id) == ~InPending(id) /\ \A p \in Pods : ~Works(p, id)

Copies(id) ==
    /\ Sole(pending, id)
    /\ \A p \in Pods : Works(p, id) => ~InPending(id)
    /\ \A p, q \in Pods : Works(p, id) /\ Works(q, id) => p = q
    /\ Resolved(id) => Absent(id)
    /\ ~(id \in published /\ id \in contradicted)

Effort(id) ==
    /\ pushes[id] <= MaxAttempts
    /\ push[id] = "gated" => Absent(id) /\ ~Resolved(id) /\ pushes[id] = 0
    /\ Spent(pending, id, pushes[id])
    /\ \A p \in Pods : Works(p, id) =>
          /\ pushes[id] <= job[p].attempts
          /\ pc[p] \in {"localize", "push"} => pushes[id] < job[p].attempts

Claims(id) ==
    stamp[id] # "none" => stamp[id] = "fresh" /\ \E p \in Pods : Attends(p, id)

Good(id) == Copies(id) /\ Effort(id) /\ Claims(id)

Unread ==
    /\ \A id \in Unreadable : id \notin published /\ id \notin contradicted /\ pushes[id] = 0
    /\ \A p \in Pods : pc[p] \in Handling => job[p].id \notin Unreadable

Calm ==
    Undisturbed =>
        /\ \A p \in Pods : snap[p] \subseteq Unreadable
        /\ \A id \in Jobs \ Unreadable : Good(id)

CalmInv == Inv /\ Unread /\ Calm

\* RPUSH, LPOP and LPUSH keep a job's copy the only one.
LEMMA SoleAppend ==
    ASSUME NEW s \in Seq(Job), NEW j \in Job, NEW id, NEW n,
           j.id = id => ~Has(s, id) /\ n <= j.attempts
    PROVE  /\ Sole(s, id) => Sole(Append(s, j), id)
           /\ Spent(s, id, n) => Spent(Append(s, j), id, n)
<1>1. Append(s, j) \in Seq(Job) /\ Len(Append(s, j)) = Len(s) + 1 /\ Len(s) \in Nat
  OBVIOUS
<1>2. \A i \in 1..Len(s) : Append(s, j)[i] = s[i]
  OBVIOUS
<1>3. Append(s, j)[Len(s) + 1] = j
  OBVIOUS
<1>5. \A i \in 1..(Len(s) + 1) : i \in 1..Len(s) \/ i = Len(s) + 1
  BY <1>1
<1>6. Sole(s, id) => Sole(Append(s, j), id)
  BY <1>1, <1>2, <1>3, <1>5 DEF Sole, Has
<1>7. Spent(s, id, n) => Spent(Append(s, j), id, n)
  BY <1>1, <1>2, <1>3, <1>5 DEF Spent
<1> QED
  BY <1>6, <1>7

LEMMA SoleTail ==
    ASSUME NEW s \in Seq(Job), s # <<>>, NEW id, NEW n
    PROVE  /\ Sole(s, id) => Sole(Tail(s), id)
           /\ Sole(s, id) /\ Head(s).id = id => ~Has(Tail(s), id)
           /\ Spent(s, id, n) => Spent(Tail(s), id, n)
           /\ Spent(s, id, n) /\ Head(s).id = id => n <= Head(s).attempts
<1>1. /\ Len(s) \in Nat /\ Len(s) >= 1 /\ Head(s) = s[1]
      /\ Tail(s) \in Seq(Job) /\ Len(Tail(s)) = Len(s) - 1
  OBVIOUS
<1>2. \A i \in 1..(Len(s) - 1) : Tail(s)[i] = s[i + 1] /\ i + 1 \in 1..Len(s) /\ i + 1 # 1
  OBVIOUS
<1>3. \A i, k \in 1..(Len(s) - 1) : i + 1 = k + 1 => i = k
  BY <1>1
<1>4. 1 \in 1..Len(s)
  BY <1>1
<1>5. Sole(s, id) => Sole(Tail(s), id)
  BY <1>1, <1>2, <1>3 DEF Sole
<1>6. Sole(s, id) /\ Head(s).id = id => ~Has(Tail(s), id)
  BY <1>1, <1>2, <1>4 DEF Sole, Has
<1>7. Spent(s, id, n) => Spent(Tail(s), id, n)
  BY <1>1, <1>2 DEF Spent
<1>8. Spent(s, id, n) /\ Head(s).id = id => n <= Head(s).attempts
  BY <1>1, <1>4 DEF Spent
<1> QED
  BY <1>5, <1>6, <1>7, <1>8

LEMMA SolePrepend ==
    ASSUME NEW s \in Seq(Job), NEW j \in Job, NEW id, NEW n, j.id # id
    PROVE  /\ Sole(s, id) => Sole(<<j>> \o s, id)
           /\ Spent(s, id, n) => Spent(<<j>> \o s, id, n)
<1> DEFINE t == <<j>> \o s
<1>1. t \in Seq(Job) /\ Len(t) = Len(s) + 1 /\ Len(s) \in Nat /\ t[1] = j
  OBVIOUS
<1>2. \A i \in 1..Len(s) : t[i + 1] = s[i]
  OBVIOUS
<1>3. \A i \in 1..Len(t) : i = 1 \/ (i - 1 \in 1..Len(s) /\ (i - 1) + 1 = i)
  BY <1>1
<1>4. \A i \in 1..Len(t) : t[i].id = id => i - 1 \in 1..Len(s) /\ t[i] = s[i - 1]
  BY <1>1, <1>2, <1>3
<1>5. \A i, k \in 1..Len(t) : i - 1 = k - 1 => i = k
  BY <1>1
<1> HIDE DEF t
<1>6. ASSUME Sole(s, id)
      PROVE  Sole(t, id)
  <2> SUFFICES ASSUME NEW i \in 1..Len(t), NEW k \in 1..Len(t), t[i].id = id, t[k].id = id
               PROVE  i = k
    BY DEF Sole
  <2>1. /\ i - 1 \in 1..Len(s) /\ s[i - 1].id = id
        /\ k - 1 \in 1..Len(s) /\ s[k - 1].id = id
    BY <1>4
  <2>2. i - 1 = k - 1
    BY <2>1, <1>6 DEF Sole
  <2> QED
    BY <2>2, <1>5
<1>7. Spent(s, id, n) => Spent(t, id, n)
  BY <1>4 DEF Spent
<1> QED
  BY <1>6, <1>7 DEF t

\* Pod p, and no other, moves.
Moves(p) == \A q \in Pods \ {p} : pc'[q] = pc[q] /\ job'[q] = job[q]

\* What a step may do to a job without a second copy, a push or a claim.
LEMMA GoodFrame ==
    ASSUME NEW id \in Jobs, Good(id),
           Sole(pending, id)', InPending(id)' => InPending(id),
           Spent(pending, id, pushes[id])',
           \A q \in Pods : Works(q, id)' =>
              /\ Works(q, id) /\ job'[q].attempts = job[q].attempts
              /\ pc'[q] \in {"localize", "push"} => pc[q] \in {"localize", "push"},
           \/ stamp'[id] = "none"
           \/ /\ stamp'[id] = stamp[id]
              /\ \A q \in Pods : Attends(q, id) => Attends(q, id)',
           id \in published' => id \in published, id \in contradicted' => id \in contradicted,
           pushes'[id] = pushes[id], push'[id] = "gated" => push[id] = "gated"
    PROVE  Good(id)'
<1>1. Absent(id) => Absent(id)'
  BY DEF Absent
<1>2. Resolved(id)' => Resolved(id)
  BY DEF Resolved
<1>3. Copies(id)'
  BY <1>1, <1>2 DEF Good, Copies
<1>4. Effort(id)'
  BY <1>1, <1>2 DEF Good, Effort
<1>5. Claims(id)'
  BY DEF Good, Claims
<1> QED
  BY <1>3, <1>4, <1>5 DEF Good
\* A calm state has a calm past.
LEMMA CalmBack ==
    ASSUME TypeOK, [Next]_vars, Undisturbed'
    PROVE  /\ Undisturbed /\ ~Fault
           /\ \A p \in Pods : ~Crash(p)
           /\ \A id \in Jobs : ~ExpireHeld(id)
<1>1. faults \in Nat /\ slow \in Nat /\ crashes \in Nat
  BY DEF TypeOK
<1>2. /\ ~Fault /\ \A p \in Pods : ~Crash(p)
      /\ \A id \in Jobs : ~ExpireHeld(id)
  BY <1>1 DEF Fault, Crash, ExpireHeld, Undisturbed
<1>3. UNCHANGED faultVars
  BY <1>2, NextCases DEF vars, Promote, PromoteFails,
     RecoverOne, RecoverFails, RefusedCleanup, CleanupStores, Expire, Claim,
     ClaimReplyLost, ClaimUnreadable, RecoverScan, Start, Localize, LocalizeFails,
     PushSucceeds, PushFails, Requeue, RequeueFails, Retire, AckPayloadStep,
     AckStampStep, Cleanup, Restart, NoFault
<1> QED
  BY <1>2, <1>3 DEF Undisturbed, faultVars

\* A worker moves, and the list and the results of the job stay.
LEMMA GoodMove ==
    ASSUME NEW id \in Jobs, Good(id), NEW p \in Pods, Moves(p), pending' = pending,
           claimant'[id] = claimant[id],
           Works(p, id)' =>
              /\ Works(p, id) /\ job'[p].attempts = job[p].attempts
              /\ pc'[p] \in {"localize", "push"} => pc[p] \in {"localize", "push"},
           \/ stamp'[id] = "none"
           \/ stamp'[id] = stamp[id] /\ (Attends(p, id) => Attends(p, id)'),
           id \in published' => id \in published, id \in contradicted' => id \in contradicted,
           pushes'[id] = pushes[id], push'[id] = push[id]
    PROVE  Good(id)'
<1>1. Sole(pending, id)' /\ (InPending(id)' => InPending(id)) /\ Spent(pending, id, pushes[id])'
  BY DEF Good, Copies, Effort, Sole, Spent, InPending, Has
<1>2. ASSUME NEW q \in Pods, Works(q, id)'
      PROVE  /\ Works(q, id) /\ job'[q].attempts = job[q].attempts
             /\ pc'[q] \in {"localize", "push"} => pc[q] \in {"localize", "push"}
  <2>1. CASE q = p
    BY <1>2, <2>1
  <2>2. CASE q # p
    BY <1>2, <2>2 DEF Works, Moves
  <2> QED
    BY <2>1, <2>2
<1>3. ASSUME stamp'[id] = stamp[id], Attends(p, id) => Attends(p, id)',
             NEW q \in Pods, Attends(q, id)
      PROVE  Attends(q, id)'
  <2>1. CASE q = p
    BY <1>3, <2>1
  <2>2. CASE q # p
    BY <1>3, <2>2 DEF Attends, Moves
  <2> QED
    BY <2>1, <2>2
<1> QED
  BY <1>1, <1>2, <1>3, GoodFrame

\* A worker moves on with its job, or another's list changes: what stays of
\* the hold the workers have on the job.
LEMMA WorksElsewhere ==
    ASSUME NEW id, NEW p \in Pods, Moves(p), NEW q \in Pods, q # p
    PROVE  Works(q, id)' <=> Works(q, id)
  BY DEF Works, Moves

-----------------------------------------------------------------------------
(***************************************************************************)
(* The steps that move a job's copy on.                                     *)
(***************************************************************************)

\* The hand-off puts the first copy in the list.
LEMMA PromoteGood ==
    ASSUME TypeOK, TypeOK', NEW id \in Jobs, Good(id),
           NEW p \in Pods, NEW i \in Jobs, Promote(p, i)
    PROVE  Good(id)'
<1>1. NewJob(p, i) \in Job /\ NewJob(p, i).id = i /\ NewJob(p, i).attempts = 0
  BY QueueAssumption DEF NewJob, Job, Dir
<1>q. QueueTypeOK /\ pending \in Seq(Job) /\ pushes[id] \in Nat
  BY DEF TypeOK, QueueTypeOK
<1>2. /\ push[i] = "gated" /\ push' = [push EXCEPT ![i] = "accepted"]
      /\ pending' = Append(pending, NewJob(p, i))
      /\ UNCHANGED <<pc, job, published, contradicted, pushes, stamp, claimant>>
  BY DEF Promote, Enqueue, workerVars, resultVars
<1>3. i = id => ~Has(pending, id) /\ pushes[id] <= 0
  BY <1>2, <1>q DEF Good, Effort, Absent, InPending
<1>4. Sole(pending, id)' /\ Spent(pending, id, pushes[id])'
  <2>1. NewJob(p, i).id = id => ~Has(pending, id) /\ pushes[id] <= NewJob(p, i).attempts
    BY <1>1, <1>3
  <2>2. Sole(Append(pending, NewJob(p, i)), id) /\ Spent(Append(pending, NewJob(p, i)), id, pushes[id])
    BY <1>q, <1>1, <2>1, SoleAppend DEF Good, Copies, Effort
  <2> QED
    BY <1>2, <2>2 DEF Sole, Spent
<1>5. \A q \in Pods : /\ Works(q, id)' <=> Works(q, id)
                      /\ Attends(q, id)' <=> Attends(q, id)
  BY <1>2 DEF Works, Attends
<1>6. InPending(id)' <=> InPending(id) \/ i = id
  <2>1. Has(Append(pending, NewJob(p, i)), id) <=> Has(pending, id) \/ i = id
    BY <1>q, <1>1, ListAppend
  <2> QED
    BY <1>2, <2>1 DEF InPending, Has
<1>7. CASE i # id
  <2>1. push'[id] = push[id]
    BY <1>2, <1>7 DEF TypeOK
  <2> QED
    BY <1>2, <1>4, <1>5, <1>6, <1>7, <2>1, GoodFrame
<1>8. CASE i = id
  <2>1. push'[id] = "accepted" /\ \A q \in Pods : ~Works(q, id)
    BY <1>2, <1>8 DEF TypeOK, Good, Effort, Absent
  <2>2. Copies(id)'
    BY <1>2, <1>4, <1>5, <1>8, <2>1 DEF Good, Copies, Effort, Resolved
  <2>3. Effort(id)'
    BY <1>2, <1>4, <1>5, <2>1 DEF Good, Effort
  <2>4. Claims(id)'
    BY <1>2, <1>5 DEF Good, Claims
  <2> QED
    BY <2>2, <2>3, <2>4 DEF Good
<1> QED
  BY <1>7, <1>8

\* claimScript takes the copy out of the list, for one worker.
LEMMA ClaimGood ==
    ASSUME TypeOK, TypeOK', NEW id \in Jobs, Good(id), NEW p \in Pods, pc[p] = "idle",
           ClaimScript(p), Head(pending).id = id => Claim(p),
           Claim(p) \/ UNCHANGED <<pc, job>>,
           UNCHANGED <<push, published, contradicted, pushes>>
    PROVE  Good(id)'
<1>q. QueueTypeOK /\ pending \in Seq(Job) /\ pending # <<>> /\ pending' = Tail(pending)
  BY DEF TypeOK, QueueTypeOK, ClaimScript
<1>j. PICK j \in Job : j = Head(pending)
  BY <1>q, ListTail
<1>i. j.id \in Jobs
  BY <1>j DEF Job
<1>1. /\ Sole(pending, id)' /\ Spent(pending, id, pushes[id])'
      /\ j.id = id => ~InPending(id)' /\ pushes[id] <= j.attempts
      /\ InPending(id) <=> j.id = id \/ InPending(id)'
  <2>1. /\ Sole(Tail(pending), id) /\ Spent(Tail(pending), id, pushes[id])
        /\ j.id = id => ~Has(Tail(pending), id) /\ pushes[id] <= j.attempts
    BY <1>q, <1>j, SoleTail DEF Good, Copies, Effort
  <2>2. InPending(id)' <=> Has(Tail(pending), id)
    BY <1>q DEF InPending, Has
  <2>3. InPending(id) <=> j.id = id \/ Has(Tail(pending), id)
    BY <1>q, <1>j, ListTail DEF InPending
  <2> QED
    BY <1>q, <2>1, <2>2, <2>3 DEF Sole, Spent
<1>2. /\ stamp' = [stamp EXCEPT ![j.id] = "fresh"]
      /\ claimant' = [claimant EXCEPT ![j.id] = p]
  BY <1>j DEF ClaimScript
<1>3. Moves(p) /\ (pc'[p] = "idle" \/ (pc'[p] = "start" /\ job'[p] = j))
  BY <1>j DEF Claim, Moves, TypeOK
<1>4. CASE j.id # id
  <2>1. stamp'[id] = stamp[id] /\ claimant'[id] = claimant[id]
    BY <1>2, <1>4, <1>i DEF TypeOK, QueueTypeOK
  <2>2. ASSUME NEW q \in Pods, Works(q, id)' PROVE q # p /\ Works(q, id) /\ pc'[q] = pc[q] /\ job'[q] = job[q]
    BY <1>3, <1>4, <2>2 DEF Works, Moves, Active
  <2>3. ASSUME NEW q \in Pods, Attends(q, id) PROVE Attends(q, id)'
    <3>1. q # p
      BY <2>3 DEF Attends, Handling
    <3> QED
      BY <1>3, <2>1, <2>3, <3>1 DEF Attends, Moves
  <2> QED
    BY <1>1, <2>1, <2>2, <2>3, GoodFrame
<1>5. CASE j.id = id
  <2>1. /\ stamp'[id] = "fresh" /\ claimant'[id] = p
        /\ pc'[p] = "start" /\ job'[p] = j /\ Claim(p)
    BY <1>2, <1>3, <1>5, <1>j DEF TypeOK, QueueTypeOK, Claim
  <2>2. Attends(p, id)' /\ Works(p, id)'
    BY <1>5, <2>1 DEF Attends, Works, Handling, Active
  <2>3. \A q \in Pods : ~Works(q, id)
    BY <1>1, <1>5 DEF Good, Copies
  <2>4. \A q \in Pods : Works(q, id)' => q = p
    BY <1>3, <2>3, WorksElsewhere
  <2>5. ~Resolved(id) /\ push[id] # "gated"
    BY <1>1, <1>5 DEF Good, Copies, Effort, Absent
  <2>6. Copies(id)'
    BY <1>1, <1>5, <2>4, <2>5 DEF Good, Copies, Resolved
  <2>7. Effort(id)'
    BY <1>1, <1>5, <2>1, <2>4, <2>5 DEF Good, Effort
  <2>8. Claims(id)'
    BY <2>1, <2>2 DEF Claims
  <2> QED
    BY <2>6, <2>7, <2>8 DEF Good
<1> QED
  BY <1>4, <1>5

\* requeueScript of another job's payload.
LEMMA SweepGood ==
    ASSUME TypeOK, TypeOK', NEW id \in Jobs, Good(id), NEW i \in Jobs, i # id, NEW p \in Pods,
           RequeueScript(i), UNCHANGED job,
           pc[p] = "sweep", Moves(p), pc'[p] \in {"idle", "sweep"},
           UNCHANGED <<push, published, contradicted, pushes>>
    PROVE  Good(id)'
<1>q. QueueTypeOK /\ pending \in Seq(Job)
  BY DEF TypeOK, QueueTypeOK
<1>1. Sole(pending, id)' /\ Spent(pending, id, pushes[id])' /\ (InPending(id)' => InPending(id))
  <2>1. CASE claimed[i] = None
    BY <2>1 DEF RequeueScript, Good, Copies, Effort, Sole, Spent, InPending, Has
  <2>2. CASE claimed[i] # None
    <3>1. claimed[i] \in Job /\ claimed[i].id = i
      BY <1>q, <2>2 DEF QueueTypeOK
    <3>2. pending' = <<claimed[i]>> \o pending
      BY <2>2 DEF RequeueScript
    <3>3. Sole(<<claimed[i]>> \o pending, id) /\ Spent(<<claimed[i]>> \o pending, id, pushes[id])
      BY <1>q, <3>1, SolePrepend DEF Good, Copies, Effort
    <3>4. Has(<<claimed[i]>> \o pending, id) <=> Has(pending, id)
      BY <1>q, <3>1, ListPrepend
    <3> QED
      BY <3>2, <3>3, <3>4 DEF Sole, Spent, InPending, Has
  <2> QED
    BY <2>1, <2>2
<1>2. stamp'[id] = stamp[id] /\ claimant' = claimant
  BY <1>q DEF RequeueScript, QueueTypeOK
<1>3. ASSUME NEW q \in Pods, Works(q, id)' PROVE Works(q, id) /\ pc'[q] = pc[q]
  <2>1. q # p
    BY <1>3 DEF Works, Active
  <2> QED
    BY <1>3, <2>1 DEF Works, Moves
<1>4. ASSUME NEW q \in Pods, Attends(q, id) PROVE Attends(q, id)'
  <2>1. q # p
    BY <1>4 DEF Attends, Handling
  <2> QED
    BY <1>2, <1>4, <2>1 DEF Attends, Moves
<1> QED
  BY <1>1, <1>2, <1>3, <1>4, GoodFrame
\* Attempts++, and the tenant has a pusher.
LEMMA StartGood ==
    ASSUME TypeOK, TypeOK', NEW id \in Jobs, Good(id), NEW p \in Pods, Start(p)
    PROVE  Good(id)'
<1>t. /\ job \in [Pods -> Job \cup {None}] /\ job[p] \in Job /\ job[p].attempts \in Nat
      /\ pc[p] = "start" /\ pushes[id] \in Nat
  BY HandlingJob, QueueAssumption DEF TypeOK, Start, Handling
<1>u. UNCHANGED <<pending, stamp, claimant, push, published, contradicted, pushes>>
  BY DEF Start, queueVars, resultVars
<1>1. CASE Goto(p, "retire")
  <2>1. Moves(p) /\ pc'[p] = "retire" /\ job' = job
    BY <1>1 DEF Goto, Moves, TypeOK
  <2>2. Works(p, id)' => Works(p, id)
    BY <1>t, <2>1 DEF Works, Active
  <2>3. Attends(p, id) => Attends(p, id)'
    BY <1>u, <2>1 DEF Attends, Handling
  <2> QED
    BY <1>u, <2>1, <2>2, <2>3, GoodMove
<1>2. CASE job' = [job EXCEPT ![p].attempts = @ + 1] /\ pc' = [pc EXCEPT ![p] = "localize"]
  <2>1. /\ Moves(p) /\ pc'[p] = "localize" /\ job'[p] = [job[p] EXCEPT !.attempts = @ + 1]
    BY <1>2, <1>t DEF Moves, TypeOK
  <2>2. job'[p].id = job[p].id /\ job'[p].attempts = job[p].attempts + 1
    BY <1>t, <2>1 DEF Job
  <2>3. CASE job[p].id # id
    <3>1. ~Works(p, id)' /\ ~Attends(p, id)
      BY <2>2, <2>3 DEF Works, Attends
    <3> QED
      BY <1>u, <2>1, <3>1, GoodMove
  <2>4. CASE job[p].id = id
    <3>1. Works(p, id)
      BY <1>t, <2>4 DEF Works, Active
    <3>2. \A q \in Pods : Works(q, id)' => q = p /\ Works(q, id)
      BY <2>1, <3>1, WorksElsewhere DEF Good, Copies
    <3>3. /\ pushes[id] <= job[p].attempts /\ ~InPending(id) /\ ~Resolved(id)
          /\ push[id] # "gated"
      BY <3>1 DEF Good, Copies, Effort, Absent
    <3>4. pushes[id] < job'[p].attempts /\ pushes[id] <= job'[p].attempts
      BY <1>t, <2>2, <3>3
    <3>5. Copies(id)'
      BY <1>u, <3>2, <3>3 DEF Good, Copies, Resolved, InPending, Has, Sole
    <3>6. Effort(id)'
      BY <1>u, <3>2, <3>3, <3>4 DEF Good, Effort, Spent
    <3>7. \A q \in Pods : Attends(q, id) => Attends(q, id)'
      BY <1>u, <2>1, <2>2 DEF Attends, Moves, Handling
    <3>8. Claims(id)'
      BY <1>u, <3>7 DEF Good, Claims
    <3> QED
      BY <3>5, <3>6, <3>8 DEF Good
  <2> QED
    BY <2>3, <2>4
<1> QED
  BY <1>1, <1>2 DEF Start

\* The layout is made local, or a missing blob retires the job.
LEMMA LocalizeGood ==
    ASSUME TypeOK, TypeOK', NEW id \in Jobs, Good(id), NEW p \in Pods, ~Fault,
           Localize(p) \/ LocalizeFails(p)
    PROVE  Good(id)'
<1>t. /\ job \in [Pods -> Job \cup {None}] /\ job[p] \in Job /\ pc[p] = "localize"
  BY HandlingJob DEF TypeOK, Localize, LocalizeFails, Handling
<1>u. UNCHANGED <<pending, stamp, claimant, push, published, contradicted, pushes>>
  BY DEF Localize, LocalizeFails, queueVars, resultVars
<1>1. /\ Moves(p) /\ pc'[p] \in {"push", "retire"}
      /\ job'[p].id = job[p].id /\ job'[p].attempts = job[p].attempts
  <2>1. CASE Localize(p)
    <3>1. Moves(p) /\ pc'[p] = "push"
      BY <1>t, <2>1 DEF Localize, Moves, TypeOK
    <3>2. job'[p] = job[p] \/ \E d : job'[p] = [job[p] EXCEPT !.dir = d]
      BY <1>t, <2>1 DEF Localize
    <3> QED
      BY <1>t, <3>1, <3>2 DEF Job
  <2>2. CASE LocalizeFails(p)
    BY <2>2 DEF LocalizeFails, Goto, Moves, TypeOK
  <2> QED
    BY <2>1, <2>2
<1>2. Works(p, id)' => Works(p, id)
  BY <1>t, <1>1 DEF Works, Active
<1>3. Attends(p, id) => Attends(p, id)'
  BY <1>u, <1>1 DEF Attends, Handling
<1> QED
  BY <1>t, <1>u, <1>1, <1>2, <1>3, GoodMove

\* A push, whatever comes of it, and an abandonment: the copy is used up, or
\* its attempts cover one push more.
LEMMA ResultGood ==
    ASSUME TypeOK, TypeOK', NEW id \in Jobs, Good(id), NEW p \in Pods,
           PushSucceeds(p) \/ PushFails(p) \/ Retire(p)
    PROVE  Good(id)'
<1>t. /\ job[p] \in Job /\ job[p].id \in Jobs /\ job[p].attempts \in 0..MaxAttempts
      /\ pc[p] \in {"push", "retire"} /\ pushes \in [Jobs -> Nat] /\ MaxAttempts \in Nat
  BY HandlingJob, QueueAssumption DEF TypeOK, PushSucceeds, PushFails, Retire, Handling
<1>u. UNCHANGED <<pending, stamp, claimant, push, job>>
  BY DEF PushSucceeds, PushFails, Retire, Fail, Goto, queueVars
<1>1. /\ Moves(p)
      /\ \/ PushFails(p) /\ pc'[p] \in {"requeue", "retire"}
         \/ ~PushFails(p) /\ pc'[p] = "ackPayload"
  <2>1. Moves(p)
    BY DEF PushSucceeds, PushFails, Retire, Fail, Goto, Moves, TypeOK
  <2>2. PushFails(p) => pc'[p] \in {"requeue", "retire"}
    BY DEF PushFails, Fail, Goto, TypeOK
  <2>3. PushSucceeds(p) \/ Retire(p) => pc'[p] = "ackPayload"
    BY DEF PushSucceeds, Retire, TypeOK
  <2> QED
    BY <2>1, <2>2, <2>3
<1>2. \A q \in Pods : Attends(q, id) => Attends(q, id)'
  BY <1>u, <1>1 DEF Attends, Moves, Handling
<1>3. Claims(id)'
  BY <1>u, <1>2 DEF Good, Claims
<1>4. CASE job[p].id # id
  <2>1. /\ pushes'[id] = pushes[id]
        /\ id \in published' => id \in published
        /\ id \in contradicted' => id \in contradicted
    BY <1>t, <1>4 DEF PushSucceeds, PushFails, Retire
  <2>2. ~Works(p, id)'
    BY <1>4, <1>u DEF Works
  <2> QED
    BY <1>u, <1>1, <1>2, <2>1, <2>2, GoodMove
<1>5. CASE job[p].id = id
  <2>1. Works(p, id)
    BY <1>5, <1>t DEF Works, Active
  <2>2. \A q \in Pods : Works(q, id)' => q = p
    BY <1>1, <2>1, WorksElsewhere DEF Good, Copies
  <2>3. /\ pushes[id] <= job[p].attempts /\ ~InPending(id) /\ ~InPending(id)'
        /\ ~Resolved(id) /\ push[id] # "gated"
        /\ pc[p] = "push" => pushes[id] < job[p].attempts
    BY <1>u, <2>1 DEF Good, Copies, Effort, Absent, InPending, Has
  <2>4. /\ pushes'[id] \in Nat /\ pushes'[id] <= job[p].attempts
        /\ pushes'[id] <= MaxAttempts
    <3>1. pc[p] = "push" => pushes'[id] = pushes[id] + 1
      BY <1>t, <1>5 DEF PushSucceeds, PushFails, Retire
    <3>2. pc[p] = "retire" => pushes'[id] = pushes[id]
      BY DEF PushSucceeds, PushFails, Retire
    <3> QED
      BY <1>t, <2>3, <3>1, <3>2
  <2>5. Works(p, id)' => PushFails(p) /\ pc'[p] \notin {"localize", "push"}
    BY <1>1 DEF Works, Active
  <2>6. /\ ~(id \in published' /\ id \in contradicted')
        /\ PushFails(p) => ~Resolved(id)'
    BY <1>5, <2>3 DEF PushSucceeds, PushFails, Retire, Resolved
  <2>7. Copies(id)'
    <3>1. Resolved(id)' => Absent(id)'
      BY <2>2, <2>3, <2>5, <2>6 DEF Absent
    <3>2. Sole(pending, id)'
      BY <1>u DEF Good, Copies, Sole
    <3> QED
      BY <2>2, <2>3, <2>6, <3>1, <3>2 DEF Copies
  <2>8. Effort(id)'
    <3>1. Spent(pending, id, pushes[id])'
      BY <2>3 DEF Spent, InPending, Has
    <3> QED
      BY <1>u, <2>2, <2>3, <2>4, <2>5, <3>1 DEF Effort
  <2> QED
    BY <1>3, <2>7, <2>8 DEF Good
<1> QED
  BY <1>4, <1>5

\* fail puts the worker's copy back, and the worker is no longer at it.
LEMMA RequeueGood ==
    ASSUME TypeOK, TypeOK', NEW id \in Jobs, Good(id), NEW p \in Pods, Requeue(p)
    PROVE  Good(id)'
<1>t. /\ job[p] \in Job /\ pc[p] = "requeue" /\ pending \in Seq(Job)
  BY HandlingJob DEF TypeOK, QueueTypeOK, Requeue, Handling
<1>u. /\ UNCHANGED <<stamp, claimant, push, job, published, contradicted, pushes>>
      /\ pending' = Append(pending, job[p])
  BY DEF Requeue, Enqueue, resultVars
<1>1. Moves(p) /\ pc'[p] = "ackPayload"
  BY DEF Requeue, Moves, TypeOK
<1>2. \A q \in Pods : Attends(q, id) => Attends(q, id)'
  BY <1>u, <1>1 DEF Attends, Moves, Handling
<1>3. \A q \in Pods : Works(q, id)' => q # p /\ Works(q, id) /\ pc'[q] = pc[q]
  BY <1>u, <1>1 DEF Works, Moves, Active
<1>4. job[p].id = id => Works(p, id)
  BY <1>t DEF Works, Active
<1>5. job[p].id = id => ~Has(pending, id) /\ pushes[id] <= job[p].attempts
  BY <1>4 DEF Good, Copies, Effort, InPending
<1>6. Sole(pending, id)' /\ Spent(pending, id, pushes[id])'
  <2>1. Sole(Append(pending, job[p]), id) /\ Spent(Append(pending, job[p]), id, pushes[id])
    BY <1>t, <1>5, SoleAppend DEF Good, Copies, Effort
  <2> QED
    BY <1>u, <2>1 DEF Sole, Spent
<1>7. InPending(id)' <=> InPending(id) \/ job[p].id = id
  <2>1. Has(Append(pending, job[p]), id) <=> Has(pending, id) \/ job[p].id = id
    BY <1>t, ListAppend
  <2> QED
    BY <1>u, <2>1 DEF InPending, Has
<1>8. CASE job[p].id # id
  BY <1>u, <1>2, <1>3, <1>6, <1>7, <1>8, GoodFrame
<1>9. CASE job[p].id = id
  <2>1. \A q \in Pods : ~Works(q, id)'
    BY <1>3, <1>4, <1>9 DEF Good, Copies
  <2>2. ~Resolved(id) /\ push[id] # "gated"
    BY <1>4, <1>9 DEF Good, Copies, Effort, Absent
  <2>3. Copies(id)'
    BY <1>u, <1>6, <2>1, <2>2 DEF Good, Copies, Resolved
  <2>4. Effort(id)'
    BY <1>u, <1>6, <2>1, <2>2 DEF Good, Effort
  <2>5. Claims(id)'
    BY <1>u, <1>2 DEF Good, Claims
  <2> QED
    BY <2>3, <2>4, <2>5 DEF Good
<1> QED
  BY <1>8, <1>9

\* Ack and cleanup: the worker leaves when the stamp of its job is gone.
LEMMA AckGood ==
    ASSUME TypeOK, TypeOK', NEW id \in Jobs, Good(id), NEW p \in Pods, ~Fault,
           AckPayloadStep(p) \/ AckStampStep(p) \/ Cleanup(p)
    PROVE  Good(id)'
<1>t. /\ job[p] \in Job /\ job[p].id \in Jobs /\ stamp \in [Jobs -> {"none", "fresh", "stale"}]
      /\ pc[p] \in {"ackPayload", "ackStamp", "cleanup"}
  BY HandlingJob DEF TypeOK, QueueTypeOK, AckPayloadStep, AckStampStep, Cleanup, Handling
<1>u. UNCHANGED <<pending, claimant, push, published, contradicted, pushes>>
  BY DEF AckPayloadStep, AckStampStep, Cleanup, AckPayload, AckStamp, queueVars, resultVars
<1>1. Moves(p) /\ pc'[p] \in {"ackStamp", "cleanup", "idle"}
  BY DEF AckPayloadStep, AckStampStep, Cleanup, AfterAck, Goto, Return, Moves, TypeOK
<1>2. ~Works(p, id)'
  BY <1>1 DEF Works, Active
<1>3. \/ stamp'[id] = "none"
      \/ stamp'[id] = stamp[id] /\ (Attends(p, id) => Attends(p, id)')
  <2>1. CASE AckPayloadStep(p)
    <3>1. stamp' = stamp /\ Goto(p, "ackStamp")
      BY <2>1 DEF AckPayloadStep, AckPayload
    <3>2. pc'[p] = "ackStamp" /\ job' = job
      BY <3>1 DEF Goto, TypeOK
    <3> QED
      BY <1>u, <3>1, <3>2 DEF Attends, Handling
  <2>2. CASE AckStampStep(p)
    <3>1. stamp' = [stamp EXCEPT ![job[p].id] = "none"]
      BY <2>2 DEF AckStampStep, AckStamp
    <3>2. CASE job[p].id = id
      BY <1>t, <3>1, <3>2
    <3>3. CASE job[p].id # id
      BY <1>t, <3>1, <3>3 DEF Attends
    <3> QED
      BY <3>2, <3>3
  <2>3. CASE Cleanup(p)
    BY <2>3 DEF Cleanup, queueVars, Attends
  <2> QED
    BY <2>1, <2>2, <2>3
<1> QED
  BY <1>u, <1>1, <1>2, <1>3, GoodMove
\* The steps that leave every copy where it is.
LEMMA StillGood ==
    ASSUME TypeOK, TypeOK', NEW id \in Jobs, Good(id),
           \/ UNCHANGED vars
           \/ \E i \in Jobs : RefusedCleanup(i) \/ Expire(i)
           \/ \E p \in Pods : RecoverScan(p) \/ Restart(p)
    PROVE  Good(id)'
<1>1. CASE UNCHANGED vars
  <2>1. /\ UNCHANGED <<pending, stamp, claimant, push, published, contradicted, pushes>>
        /\ UNCHANGED <<pc, job>>
    BY <1>1 DEF vars, queueVars, workerVars, resultVars
  <2>2. Sole(pending, id)' /\ (InPending(id)' => InPending(id)) /\ Spent(pending, id, pushes[id])'
    BY <2>1 DEF Good, Copies, Effort, Sole, Spent, InPending, Has
  <2>3. \A q \in Pods : (Works(q, id)' => Works(q, id)) /\ (Attends(q, id) => Attends(q, id)')
    BY <2>1 DEF Works, Attends
  <2> QED
    BY <2>1, <2>2, <2>3, GoodFrame
<1>2. ASSUME NEW i \in Jobs, RefusedCleanup(i) \/ Expire(i) PROVE Good(id)'
  <2>1. /\ UNCHANGED <<pending, claimant, published, contradicted, pushes>>
        /\ UNCHANGED <<pc, job>>
    BY <1>2 DEF RefusedCleanup, Expire, Age, queueVars, workerVars, resultVars
  <2>2. Sole(pending, id)' /\ (InPending(id)' => InPending(id)) /\ Spent(pending, id, pushes[id])'
    BY <2>1 DEF Good, Copies, Effort, Sole, Spent, InPending, Has
  <2>3. \A q \in Pods : (Works(q, id)' => Works(q, id)) /\ (Attends(q, id) => Attends(q, id)')
    BY <2>1 DEF Works, Attends
  <2>4. push'[id] = "gated" => push[id] = "gated"
    BY <1>2 DEF RefusedCleanup, Expire, TypeOK
  <2>5. stamp'[id] = stamp[id]
    <3>1. CASE RefusedCleanup(i)
      BY <3>1 DEF RefusedCleanup, queueVars
    <3>2. CASE Expire(i) /\ i # id
      BY <3>2 DEF Expire, Age, TypeOK, QueueTypeOK
    <3>3. CASE Expire(i) /\ i = id
      <4>1. stamp[id] = "fresh" /\ ~HeldByClaimant(id)
        BY <3>3 DEF Expire, Age
      <4> QED
        BY <4>1 DEF Good, Claims, Attends, HeldByClaimant
    <3> QED
      BY <1>2, <3>1, <3>2, <3>3
  <2> QED
    BY <2>1, <2>2, <2>3, <2>4, <2>5, GoodFrame
<1>3. ASSUME NEW p \in Pods, RecoverScan(p) \/ Restart(p) PROVE Good(id)'
  <2>1. UNCHANGED <<pending, stamp, claimant, push, published, contradicted, pushes, job>>
    BY <1>3 DEF RecoverScan, Restart, Goto, queueVars, resultVars
  <2>2. Moves(p) /\ pc[p] \in {"idle", "down"} /\ pc'[p] \in {"sweep", "idle"}
    BY <1>3 DEF RecoverScan, Restart, Goto, Moves, TypeOK
  <2>3. ~Works(p, id)' /\ ~Attends(p, id)
    BY <2>2 DEF Works, Attends, Active, Handling
  <2> QED
    BY <2>1, <2>2, <2>3, GoodMove
<1> QED
  BY <1>1, <1>2, <1>3

\* Every undisturbed step keeps a readable job's copy the only one.
LEMMA GoodStep ==
    ASSUME TypeOK, TypeOK', [Next]_vars, Undisturbed',
           \A p \in Pods : snap[p] \subseteq Unreadable,
           NEW id \in Jobs \ Unreadable, Good(id)
    PROVE  Good(id)'
<1>c. /\ ~Fault /\ \A p \in Pods : ~Crash(p)
      /\ \A i \in Jobs : ~ExpireHeld(i)
  BY CalmBack
<1>1. ASSUME NEW p \in Pods, NEW i \in Jobs, RecoverOne(p, i) PROVE Good(id)'
  <2>1. /\ i # id /\ pc[p] = "sweep" /\ RequeueScript(i) /\ UNCHANGED job
        /\ UNCHANGED <<push, published, contradicted, pushes>>
    BY <1>1 DEF RecoverOne, SweepRest, resultVars
  <2>2. Moves(p) /\ pc'[p] \in {"idle", "sweep"}
    BY <1>1 DEF RecoverOne, SweepRest, Moves, TypeOK
  <2> QED
    BY <2>1, <2>2, SweepGood
<1>2. ASSUME NEW p \in Pods, Claim(p) PROVE Good(id)'
  <2>1. /\ pc[p] = "idle" /\ ClaimScript(p)
        /\ UNCHANGED <<push, published, contradicted, pushes>>
    BY <1>2 DEF Claim, resultVars
  <2> QED
    BY <1>2, <2>1, ClaimGood
<1>3. ASSUME NEW p \in Pods, ClaimUnreadable(p) PROVE Good(id)'
  <2>1. /\ pc[p] = "idle" /\ ClaimScript(p) /\ Head(pending).id # id /\ UNCHANGED <<pc, job>>
        /\ UNCHANGED <<push, published, contradicted, pushes>>
    BY <1>3 DEF ClaimUnreadable, resultVars, workerVars
  <2> QED
    BY <2>1, ClaimGood
<1>4. ASSUME NEW p \in Pods,
             \/ Start(p) \/ Localize(p) \/ LocalizeFails(p) \/ PushSucceeds(p) \/ PushFails(p)
             \/ Requeue(p) \/ Retire(p) \/ AckPayloadStep(p) \/ AckStampStep(p) \/ Cleanup(p)
      PROVE  Good(id)'
  BY <1>4, <1>c, StartGood, LocalizeGood, ResultGood, RequeueGood, AckGood
<1>5. ASSUME NEW p \in Pods, NEW i \in Jobs, Promote(p, i) PROVE Good(id)'
  BY <1>5, PromoteGood
<1>6. ASSUME NEW p \in Pods, NEW i \in Jobs,
             PromoteFails(p, i) \/ RecoverFails(p, i) \/ ClaimReplyLost(p) \/ RequeueFails(p)
      PROVE  FALSE
  BY <1>6, <1>c DEF PromoteFails, RecoverFails, ClaimReplyLost, RequeueFails
<1> QED
  BY NextCases, <1>c, <1>1, <1>2, <1>3, <1>4, <1>5, <1>6, StillGood

\* No payload this version cannot read is ever in a worker's hands.
LEMMA UnreadStep ==
    ASSUME TypeOK, Unread, [Next]_vars
    PROVE  Unread'
<1>t. /\ pc \in [Pods -> Handling \cup {"idle", "sweep", "down"}]
      /\ job \in [Pods -> Job \cup {None}] /\ pushes \in [Jobs -> Nat]
  BY DEF TypeOK
<1>1. ASSUME NEW p \in Pods, Claim(p) PROVE Unread'
  BY <1>1, <1>t DEF Claim, resultVars, Unread
<1>2. ASSUME NEW p \in Pods, Start(p) \/ Localize(p) PROVE Unread'
  <2>1. pc[p] \in Handling /\ job[p] \in Job
    BY <1>2, HandlingJob DEF Start, Localize, Handling
  <2>2. \/ job' = job
        \/ job' = [job EXCEPT ![p].attempts = @ + 1]
        \/ \E d : job' = [job EXCEPT ![p].dir = d]
    BY <1>2 DEF Start, Localize, Goto
  <2>3. \A q \in Pods : q # p => job'[q] = job[q] /\ pc'[q] = pc[q]
    BY <1>2, <1>t, <2>2 DEF Start, Localize, Goto
  <2>4. job'[p].id = job[p].id
    <3>1. CASE job' = [job EXCEPT ![p].attempts = @ + 1]
      <4>1. job'[p] = [job[p] EXCEPT !.attempts = @ + 1]
        BY <1>t, <3>1
      <4> QED
        BY <2>1, <4>1 DEF Job
    <3>2. CASE \E d : job' = [job EXCEPT ![p].dir = d]
      <4>1. PICK d : job'[p] = [job[p] EXCEPT !.dir = d]
        BY <1>t, <3>2
      <4> QED
        BY <2>1, <4>1 DEF Job
    <3> QED
      BY <2>2, <3>1, <3>2
  <2>5. UNCHANGED <<published, contradicted, pushes>>
    BY <1>2 DEF Start, Localize, resultVars
  <2> QED
    BY <2>1, <2>3, <2>4, <2>5 DEF Unread
<1>3. ASSUME NEW p \in Pods,
             \/ PushSucceeds(p) \/ PushFails(p) \/ Retire(p)
      PROVE  Unread'
  <2>1. pc[p] \in Handling /\ job[p].id \in Jobs /\ job[p].id \notin Unreadable
    BY <1>3, HandlingJob DEF PushSucceeds, PushFails, Retire, Handling, Unread
  <2>2. job' = job /\ \A q \in Pods : q # p => pc'[q] = pc[q]
    BY <1>3, <1>t DEF PushSucceeds, PushFails, Retire, Fail, Goto
  <2>3. \A i \in Unreadable : /\ i \in published' => i \in published
                              /\ i \in contradicted' => i \in contradicted
                              /\ pushes'[i] = pushes[i]
    BY <1>3, <1>t, <2>1, PromotionAssumption DEF PushSucceeds, PushFails, Retire, PromotionAssumption
  <2> QED
    BY <2>1, <2>2, <2>3 DEF Unread
<1>4. ASSUME UNCHANGED <<published, contradicted, pushes>>,
             \A q \in Pods : pc'[q] \in Handling => pc[q] \in Handling /\ job'[q] = job[q]
      PROVE  Unread'
  BY <1>4 DEF Unread
<1>5. CASE UNCHANGED <<pc, job, published, contradicted, pushes>>
  BY <1>4, <1>5
<1>6. ASSUME NEW p \in Pods,
             \/ LocalizeFails(p) \/ Requeue(p) \/ RequeueFails(p) \/ AckPayloadStep(p)
             \/ AckStampStep(p) \/ Cleanup(p) \/ Crash(p) \/ Restart(p) \/ RecoverScan(p)
             \/ \E i \in Jobs : RecoverOne(p, i) \/ RecoverFails(p, i)
      PROVE  Unread'
  <2>1. UNCHANGED <<published, contradicted, pushes>>
    BY <1>6 DEF LocalizeFails, Requeue, RequeueFails, AckPayloadStep, AckStampStep, Cleanup,
                Crash, Restart, RecoverScan, RecoverOne, RecoverFails, resultVars
  <2>2. \A q \in Pods : q # p => pc'[q] = pc[q] /\ job'[q] = job[q]
    BY <1>6, <1>t DEF LocalizeFails, Requeue, RequeueFails, AckPayloadStep, AckStampStep,
                Cleanup, Crash, Restart, RecoverScan, RecoverOne, RecoverFails, SweepRest,
                Fail, Goto, Return, AfterAck
  <2>3. pc'[p] \in Handling => pc[p] \in Handling /\ job'[p] = job[p]
    BY <1>6, <1>t DEF LocalizeFails, Requeue, RequeueFails, AckPayloadStep, AckStampStep,
                Cleanup, Crash, Restart, RecoverScan, RecoverOne, RecoverFails, SweepRest,
                Fail, Goto, Return, AfterAck, Handling
  <2> QED
    BY <1>4, <2>1, <2>2, <2>3
<1>7. ASSUME NEW p \in Pods, NEW i \in Jobs,
             Promote(p, i) \/ PromoteFails(p, i)
      PROVE  UNCHANGED <<pc, job, published, contradicted, pushes>>
  BY <1>7 DEF Promote, PromoteFails, workerVars, resultVars
<1>8. ASSUME NEW i \in Jobs, RefusedCleanup(i) \/ Expire(i) \/ ExpireHeld(i)
      PROVE  UNCHANGED <<pc, job, published, contradicted, pushes>>
  BY <1>8 DEF RefusedCleanup, Expire, ExpireHeld, workerVars, resultVars
<1>9. ASSUME NEW p \in Pods, ClaimReplyLost(p) \/ ClaimUnreadable(p)
      PROVE  UNCHANGED <<pc, job, published, contradicted, pushes>>
  BY <1>9 DEF ClaimReplyLost, ClaimUnreadable, workerVars, resultVars
<1>10. CASE UNCHANGED vars
  BY <1>5, <1>10 DEF vars, workerVars, resultVars
<1> QED
  BY NextCases, <1>1, <1>2, <1>3, <1>5, <1>6, <1>7, <1>8, <1>9, <1>10

\* A sweep reads stamps of unreadable payloads only.
LEMMA SnapStep ==
    ASSUME TypeOK, [Next]_vars, \A p \in Pods : snap[p] \subseteq Unreadable,
           \A id \in Jobs \ Unreadable : Claims(id)
    PROVE  \A p \in Pods : snap'[p] \subseteq Unreadable
<1>t. snap \in [Pods -> SUBSET Jobs]
  BY DEF TypeOK
<1>1. ASSUME NEW p \in Pods, RecoverScan(p) PROVE \A q \in Pods : snap'[q] \subseteq Unreadable
  <2>1. StaleStamps \subseteq Unreadable
    BY DEF StaleStamps, Claims
  <2> QED
    BY <1>1, <1>t, <2>1 DEF RecoverScan
<1>2. ASSUME NEW p \in Pods, NEW i \in Jobs, RecoverOne(p, i) \/ RecoverFails(p, i)
      PROVE  \A q \in Pods : snap'[q] \subseteq Unreadable
  BY <1>2, <1>t DEF RecoverOne, RecoverFails, SweepRest
<1>3. ASSUME NEW p \in Pods, Crash(p) PROVE \A q \in Pods : snap'[q] \subseteq Unreadable
  BY <1>3, <1>t DEF Crash
<1>4. CASE UNCHANGED snap
  BY <1>4
<1> QED
  BY NextCases, <1>1, <1>2, <1>3, <1>4 DEF vars, workerVars, Promote, PromoteFails,
     RefusedCleanup, Expire, ExpireHeld, Claim,
     ClaimReplyLost, ClaimUnreadable, Start, Localize, LocalizeFails,
     PushSucceeds, PushFails, Fail, Requeue, RequeueFails, Retire, AckPayloadStep,
     AckStampStep, AfterAck, Cleanup, Restart, Goto, Return

LEMMA CalmInit == Init => Unread /\ Calm
<1> SUFFICES ASSUME Init PROVE Unread /\ Calm
  OBVIOUS
<1>1. Unread
  BY PromotionAssumption DEF Init, Unread, Handling, PromotionAssumption
<1>2. ASSUME NEW id \in Jobs PROVE Good(id)
  <2>1. /\ pending = <<>> /\ stamp[id] = "none" /\ pushes[id] = 0
        /\ published = {} /\ contradicted = {} /\ \A p \in Pods : pc[p] = "idle"
    BY DEF Init, QueueInit
  <2>2. Absent(id) /\ ~Resolved(id)
    BY <2>1 DEF Absent, InPending, Has, Works, Active, Resolved
  <2>3. Copies(id)
    BY <2>1, <2>2 DEF Copies, Absent, Sole
  <2>4. Effort(id)
    BY <2>1, <2>2, QueueAssumption DEF Effort, Absent, Spent
  <2> QED
    BY <2>1, <2>3, <2>4 DEF Good, Claims
<1>3. \A p \in Pods : snap[p] \subseteq Unreadable
  BY DEF Init
<1> QED
  BY <1>1, <1>2, <1>3 DEF Calm

LEMMA CalmInvariance == Spec => []CalmInv
<1>1. Init => CalmInv
  BY InvInit, CalmInit DEF CalmInv
<1>2. ASSUME CalmInv, [Next]_vars PROVE CalmInv'
  <2>1. Inv /\ Inv' /\ TypeOK /\ TypeOK' /\ Unread'
    BY <1>2, InvNext, UnreadStep DEF CalmInv, Inv
  <2>2. ASSUME Undisturbed'
        PROVE  /\ \A p \in Pods : snap'[p] \subseteq Unreadable
               /\ \A id \in Jobs \ Unreadable : Good(id)'
    <3>1. /\ \A p \in Pods : snap[p] \subseteq Unreadable
          /\ \A id \in Jobs \ Unreadable : Good(id)
      BY <1>2, <2>1, <2>2, CalmBack DEF CalmInv, Calm
    <3>2. \A id \in Jobs \ Unreadable : Claims(id)
      BY <3>1 DEF Good
    <3> QED
      BY <1>2, <2>1, <2>2, <3>1, <3>2, SnapStep, GoodStep
  <2> QED
    BY <2>1, <2>2 DEF CalmInv, Calm
<1> QED
  BY <1>1, <1>2, PTL DEF Spec

(***************************************************************************)
(* Undisturbed, the attempt budget bounds the registry pushes of a job, for *)
(* any number of replicas whose claims, acks and sweeps interleave (fail    *)
(* counts every attempt, and no sweep takes a claim a worker holds).        *)
(***************************************************************************)
THEOREM Budget == Spec => []BudgetBoundsPushes
<1>1. CalmInv => BudgetBoundsPushes
  <2> SUFFICES ASSUME CalmInv, Undisturbed, NEW id \in Jobs PROVE pushes[id] <= MaxAttempts
    BY DEF BudgetBoundsPushes
  <2>1. CASE id \in Unreadable
    BY <2>1, QueueAssumption DEF CalmInv, Unread
  <2>2. CASE id \notin Unreadable
    BY <2>2 DEF CalmInv, Calm, Good, Effort
  <2> QED
    BY <2>1, <2>2
<1> QED
  BY <1>1, CalmInvariance, PTL

(***************************************************************************)
(* Undisturbed, no replica contradicts an image another one published: the  *)
(* copy a worker publishes or retires is the only one.                      *)
(***************************************************************************)
THEOREM Verdicts == Spec => []VerdictsAgree
<1>1. CalmInv => VerdictsAgree
  <2> SUFFICES ASSUME CalmInv, Undisturbed, NEW id \in published, id \in contradicted
               PROVE  FALSE
    BY DEF VerdictsAgree
  <2>1. id \in Jobs
    BY DEF CalmInv, Inv, TypeOK
  <2>2. id \notin Unreadable
    BY DEF CalmInv, Unread
  <2> QED
    BY <2>1, <2>2 DEF CalmInv, Calm, Good, Copies
<1> QED
  BY <1>1, CalmInvariance, PTL

=============================================================================
