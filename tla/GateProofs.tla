----------------------------- MODULE GateProofs -----------------------------
(***************************************************************************)
(* Theorems about Gate, for every finite set of requests, any manifests,    *)
(* tenants, credentials, policies, slots and faults.                        *)
(*                                                                         *)
(* GatedOnly needs to know what a request past each point of the handler    *)
(* has earned: the tenant (Entitlement), the class of its manifest          *)
(* (Classified) and the verdict (Judged).  AcceptedBytesKept needs that a   *)
(* job is in one place and only after its hand-off (Owned), BacklogBounded  *)
(* that the pushes on their way count as well (RoomKept).                   *)
(***************************************************************************)
EXTENDS Gate, FiniteSetTheorems, TLAPS

Queued(p) == p \in backlog \cup working

Entitled(p) == TenantOf(p) \in Tenants /\ <<p, TenantOf(p)>> \in Entra

Entitlement ==
    \A p \in Requests :
        /\ token[p] # None => <<p, token[p]>> \in Entra
        /\ stage[p] \notin {"new", "sent", "done"} \/ Queued(p) => Entitled(p)

\* Only an image is staged, scanned and published; nothing else is forwarded.
Classified ==
    \A p \in Requests :
        /\ stage[p] \in {"admit", "stage", "slot", "scan", "publish"} \/ Queued(p) =>
              IsImage(Put[p])
        /\ stage[p] \in {"forward", "await", "unanswered"} => ~IsImage(Put[p])

\* The verdict is the one of this scan, and only a pass is published.
Judged ==
    \A p \in Requests :
        /\ stage[p] \notin {"publish", "stuck", "finish", "done"} => result[p] = "none"
        /\ stage[p] = "publish" => result[p] = "passed"
        /\ stage[p] = "finish" => result[p] # "none"
        /\ Queued(p) => result[p] \in {"passed", "unpublished"}

\* A job is in one place, after its hand-off.
Owned ==
    /\ backlog \cap working = {}
    /\ \A p \in Requests :
          /\ stage[p] \notin {"finish", "done"} => push[p] = "gated"
          /\ push[p] = "gated" => ~Queued(p)

\* What a failed call leaves behind, and what has no row yet.
Accounted ==
    \A p \in Requests :
        /\ result[p] \in {"infra", "unpublished"} => faults > 0
        /\ stage[p] # "done" => row[p] = "none"

\* The pushes the bound can see, in the queue or on their way to it.
Seen == (backlog \cup InFlight) \ uncounted

RoomKept == deferred /\ MaxPending > 0 => Cardinality(Seen) <= MaxPending

\* The inductive invariant.
Inv ==
    /\ TypeOK
    /\ Entitlement /\ Classified /\ Judged /\ Owned /\ Accounted
    /\ GatedOnly /\ AcceptedBytesKept /\ LeavingIsNoFailure /\ RoomKept

\* A request's call of the registry is not answered.
Halts(p) == PutHangs(p) \/ ExchangeHangs(p) \/ WaitForExchange(p)

-----------------------------------------------------------------------------
LEMMA NextCases ==
    ASSUME [Next]_vars
    PROVE  \/ UNCHANGED vars
           \/ \E p \in Requests :
                 \/ Mint(p) \/ TokenExpires(p) \/ Leave(p) \/ WorkerHangs(p) \/ Route(p)
                 \/ Read(p)
                 \/ Admit(p) \/ Stage(p) \/ AcquireSlot(p) \/ SlotWaitExpires(p)
                 \/ AbandonWait(p) \/ Scan(p) \/ PublishNow(p) \/ HandOff(p)
                 \/ Finish(p) \/ Forward(p) \/ Poll(p) \/ HungPutEnds(p) \/ AwaitEnds(p)
                 \/ Halts(p) \/ Claim(p)
                 \/ DeliverJob(p) \/ AbandonJob(p) \/ RetryJob(p)
  BY DEF Next, Handler, Worker, Hang, Halts

\* The verdict of a scan is one of three.
LEMMA VerdictType ==
    ASSUME NEW outcome
    PROVE  Verdict(outcome) \in {"passed", "rejected", "infra"}
  BY DEF Verdict

\* A scan moves to publication with a pass, and to the answer with anything else.
LEMMA JudgeEffect ==
    ASSUME NEW p \in Requests, Scan(p)
    PROVE  \E v \in {"passed", "rejected", "infra"} :
              /\ result' = [result EXCEPT ![p] = v]
              /\ stage' = [stage EXCEPT ![p] = IF v = "passed" THEN "publish" ELSE "finish"]
              /\ IF v = "infra" THEN Fault ELSE NoFault
  BY VerdictType DEF Scan, Judge, Goto

\* A call that is not answered moves its request and leaves the rest alone.
LEMMA HaltsEffect ==
    ASSUME NEW p \in Requests, Halts(p)
    PROVE  /\ stage[p] \in {"forward", "await", "publish"}
           /\ \E s \in {"unanswered", "stuck"} :
                 /\ stage' = [stage EXCEPT ![p] = s]
                 /\ s = "unanswered" => stage[p] # "publish"
           /\ UNCHANGED <<deferred, token, gone, result, row, answer, bytes, backlog, working,
                          uncounted, push, published, contradicted, registry, aliases>>
           /\ held' \subseteq held \cup {TenantOf(p)}
           /\ Fault \/ NoFault
  BY DEF Halts, PutHangs, ExchangeHangs, WaitForExchange, CallsRegistry, At, Proceed, Goto,
     NoFault, clientVars, recordVars, queueVars, deliveryVars

\* The fields of the requests, as the assumption gives them.
LEMMA PutType ==
    ASSUME NEW p \in Requests
    PROVE  /\ TenantOf(p) \in Tenants \cup {None}
           /\ Put[p].index \in BOOLEAN /\ Put[p].tag \in BOOLEAN
           /\ p \in Jobs
  BY GateAssumption DEF GateAssumption, RequestShape, TenantOf, ForHost

LEMMA FaultType ==
    ASSUME faults \in 0..MaxFaults, Fault \/ NoFault
    PROVE  faults' \in 0..MaxFaults /\ faults <= faults' /\ (Fault => faults' > 0)
  BY GateAssumption DEF GateAssumption, Fault, NoFault

\* The steps of the handler, as moves between stages.
Moves ==
    {"new"} \X {"sent"}
    \cup {"sent"} \X {"read", "done"}
    \cup {"read"} \X {"admit", "forward", "done"}
    \cup {"admit"} \X {"stage", "done"}
    \cup {"stage"} \X {"slot", "done"}
    \cup {"slot"} \X {"scan", "finish", "done"}
    \cup {"scan"} \X {"publish", "finish"}
    \cup {"publish"} \X {"finish", "stuck"}
    \cup {"finish"} \X {"done"}
    \cup {"forward"} \X {"await", "unanswered", "stuck", "done"}
    \cup {"await"} \X {"unanswered", "stuck", "done"}
    \cup {"unanswered"} \X {"done"}

Move(p, s) ==
    /\ stage' = [stage EXCEPT ![p] = s]
    /\ <<stage[p], s>> \in Moves
    /\ s = "scan" => SlotFree

\* No step moves more than one request, and none moves it otherwise.
LEMMA StageMoves ==
    ASSUME TypeOK, [Next]_vars
    PROVE  \/ UNCHANGED stage
           \/ \E p \in Requests, s \in Stages :
                 Move(p, s)
<1>1. ASSUME NEW p \in Requests,
             Mint(p) \/ Route(p) \/ Read(p) \/ Admit(p) \/ Stage(p)
      PROVE  \E s \in Stages : Move(p, s)
  BY <1>1 DEF Mint, Route, Read, Admit, Stage, At, Reply, Proceed, Goto, Move, Moves, Stages
<1>2. ASSUME NEW p \in Requests,
             AcquireSlot(p) \/ SlotWaitExpires(p) \/ AbandonWait(p) \/ Finish(p)
             \/ Scan(p) \/ PublishNow(p) \/ HandOff(p)
      PROVE  \E s \in Stages : Move(p, s)
  <2>1. CASE Scan(p)
    BY <2>1, JudgeEffect DEF Scan, At, Move, Moves, Stages
  <2> QED
    BY <1>2, <2>1 DEF AcquireSlot, SlotWaitExpires, AbandonWait, PublishNow, HandOff, Finish,
       SlotFree, At, Proceed, Goto, Move, Moves, Stages
<1>3. ASSUME NEW p \in Requests,
             Forward(p) \/ Poll(p) \/ HungPutEnds(p) \/ AwaitEnds(p)
      PROVE  \E s \in Stages : Move(p, s)
  BY <1>3 DEF Forward, Forwarded, NotForwarded, Poll, HungPutEnds, AwaitEnds, At, Reply,
     Proceed, Goto,
     Move, Moves, Stages
<1>5. ASSUME NEW p \in Requests, Halts(p)
      PROVE  \E s \in Stages : Move(p, s)
  BY <1>5, HaltsEffect DEF Move, Moves, Stages
<1>4. ASSUME NEW p \in Requests,
             TokenExpires(p) \/ Leave(p) \/ WorkerHangs(p) \/ Claim(p) \/ DeliverJob(p)
             \/ AbandonJob(p) \/ RetryJob(p)
      PROVE  UNCHANGED stage
  BY <1>4 DEF TokenExpires, Leave, WorkerHangs, Claim, DeliverJob, AbandonJob, Resolved,
     RetryJob
<1> QED
  BY <1>1, <1>2, <1>3, <1>4, <1>5, NextCases DEF vars

\* A scan begins only while a slot is free.
LEMMA SlotsStep ==
    ASSUME TypeOK, [Next]_vars
    PROVE  Cardinality({p \in Requests : stage'[p] = "scan"}) <= Slots
<1> DEFINE Held == {p \in Requests : stage[p] = "scan"}
           HeldNext == {p \in Requests : stage'[p] = "scan"}
<1> SUFFICES Cardinality(HeldNext) <= Slots
  OBVIOUS
<1>1. IsFiniteSet(Held) /\ Cardinality(Held) \in Nat /\ Cardinality(Held) <= Slots
  BY FS_Subset, FS_CardinalityType, GateAssumption DEF GateAssumption, TypeOK
<1>s. Slots \in Nat
  BY GateAssumption DEF GateAssumption
<1>2. ASSUME NEW p \in Requests, stage' = [stage EXCEPT ![p] = "scan"], SlotFree
      PROVE  Cardinality(HeldNext) <= Slots
  <2>1. HeldNext = Held \cup {p}
    BY <1>2 DEF TypeOK
  <2>2. Cardinality(Held) < Slots
    BY <1>2 DEF SlotFree
  <2> HIDE DEF Held, HeldNext
  <2>3. Cardinality(Held \cup {p}) <= Cardinality(Held) + 1
    BY <1>1, FS_AddElement
  <2>4. Cardinality(Held \cup {p}) \in Nat
    BY <1>1, FS_AddElement, FS_CardinalityType
  <2> QED
    BY <2>1, <2>2, <2>3, <2>4, <1>1, <1>s
<1>3. CASE HeldNext \subseteq Held
  <2> HIDE DEF Held, HeldNext
  <2>2. Cardinality(HeldNext) <= Cardinality(Held) /\ Cardinality(HeldNext) \in Nat
    BY <1>3, <1>1, FS_Subset, FS_CardinalityType
  <2> QED
    BY <2>2, <1>1, <1>s
<1>4. ASSUME NEW p \in Requests, NEW s \in Stages, Move(p, s), s # "scan"
      PROVE  HeldNext \subseteq Held
  BY <1>4 DEF TypeOK, Move
<1> QED
  BY <1>2, <1>3, <1>4, StageMoves DEF Move

\* A status for every result.
LEMMA StatusType ==
    ASSUME TypeOK, NEW p \in Requests, result[p] # "none"
    PROVE  StatusFor(p) \in {201, 400, 500, 502, 503} /\ RowFor(p) \in {"passed",
    "rejected", "infra"}
  BY DEF StatusFor, RowFor, TypeOK

LEMMA TypeStep ==
    ASSUME TypeOK, Entitlement, Judged, [Next]_vars
    PROVE  TypeOK'
<1> DEFINE SlotBound == Cardinality({q \in Requests : stage[q] = "scan"}) <= Slots
<1>0. SlotBound'
  BY SlotsStep
<1> HIDE DEF SlotBound
<1>s. stage' \in [Requests -> Stages]
  <2>1. stage \in [Requests -> Stages]
    BY DEF TypeOK
  <2> QED
    BY <2>1, StageMoves DEF Move
<1>e. ASSUME NEW p \in Requests, stage[p] \notin {"new", "sent", "done"} \/ Queued(p)
      PROVE  Landed(p) \subseteq Tenants \X {Put[q].digest : q \in Requests}
  <2>1. registry \subseteq Tenants \X {Put[q].digest : q \in Requests}
    BY DEF TypeOK
  <2>2. TenantOf(p) \in Tenants
    BY <1>e DEF Entitlement, Entitled
  <2> QED
    BY <2>1, <2>2 DEF Landed
<1>h. ASSUME NEW p \in Requests, Halts(p) \/ WorkerHangs(p)
      PROVE  held' \subseteq Tenants
  <2>1. stage[p] \notin {"new", "sent", "done"} \/ Queued(p)
    BY <1>h, HaltsEffect DEF WorkerHangs, Queued
  <2>2. TenantOf(p) \in Tenants
    BY <2>1 DEF Entitlement, Entitled
  <2>3. held \subseteq Tenants
    BY DEF TypeOK
  <2>4. held' \subseteq held \cup {TenantOf(p)}
    BY <1>h, HaltsEffect DEF WorkerHangs
  <2> QED
    BY <2>2, <2>3, <2>4
<1> USE DEF TypeOK, clientVars, recordVars, queueVars, deliveryVars, Goto, Reply, Proceed,
           Hand
<1> SUFFICES ASSUME ~UNCHANGED vars PROVE TypeOK'
  BY <1>0 DEF vars, SlotBound
<1> USE <1>0, <1>s, PutType DEF SlotBound
<1>1. ASSUME NEW p \in Requests, Mint(p) PROVE TypeOK'
  <2>1. ForHost(Put[p].tokenHost) \in Tenants \cup {None}
    BY GateAssumption DEF GateAssumption, RequestShape, ForHost
  <2> QED
    BY <1>1, <2>1 DEF Mint
<1>2. ASSUME NEW p \in Requests, TokenExpires(p) \/ Leave(p) PROVE TypeOK'
  BY <1>2, FaultType DEF TokenExpires, Leave
<1>11. ASSUME NEW p \in Requests, Halts(p) PROVE TypeOK'
  BY <1>11, <1>h, HaltsEffect, FaultType
<1>12. ASSUME NEW p \in Requests, WorkerHangs(p) PROVE TypeOK'
  BY <1>12, <1>h, FaultType DEF WorkerHangs
<1>3. ASSUME NEW p \in Requests, Route(p) \/ AcquireSlot(p) \/ SlotWaitExpires(p)
             \/ AbandonWait(p)
                                  \/ AwaitEnds(p) \/ Claim(p)
      PROVE TypeOK'
  BY <1>3 DEF Route, AcquireSlot, SlotWaitExpires, AbandonWait, AwaitEnds, Claim
<1>4. ASSUME NEW p \in Requests, Read(p) \/ Admit(p) \/ Stage(p) PROVE TypeOK'
  BY <1>4, FaultType DEF Read, Admit, Stage, Fails
<1>5. ASSUME NEW p \in Requests, Scan(p) PROVE TypeOK'
  BY <1>5, JudgeEffect, FaultType DEF Scan
<1>6. ASSUME NEW p \in Requests, PublishNow(p) PROVE TypeOK'
  BY <1>6, <1>e, FaultType DEF PublishNow, At
<1>7. ASSUME NEW p \in Requests, HandOff(p) PROVE TypeOK'
  BY <1>7, FaultType DEF HandOff, Accept, Refuse
<1>8. ASSUME NEW p \in Requests, Finish(p) PROVE TypeOK'
  <2>1. result[p] # "none"
    BY <1>8 DEF Finish, At, Judged
  <2> QED
    BY <1>8, <2>1, StatusType DEF Finish, AfterCleanup, Release
<1>9. ASSUME NEW p \in Requests, Forward(p) \/ Poll(p) \/ HungPutEnds(p) PROVE TypeOK'
  BY <1>9, <1>e, FaultType DEF Forward, Poll, HungPutEnds, At, Forwarded, NotForwarded, Fails
<1>10. ASSUME NEW p \in Requests, DeliverJob(p) \/ AbandonJob(p) \/ RetryJob(p) PROVE TypeOK'
  BY <1>10, <1>e, FaultType DEF DeliverJob, AbandonJob, RetryJob, Resolved, Queued,
     Deliver, Abandon
<1> HIDE <1>0, <1>s, PutType DEF TypeOK
<1> QED
  BY <1>1, <1>2, <1>3, <1>4, <1>5, <1>6, <1>7, <1>8, <1>9, <1>10, <1>11, <1>12,
     NextCases

\* A request is moved by the step of its handler that starts where it is.
LEMMA MovedBy ==
    ASSUME TypeOK, [Next]_vars, NEW p \in Requests, stage'[p] # stage[p]
    PROVE  CASE stage[p] = "new" -> Mint(p)
             [] stage[p] = "sent" -> Route(p)
             [] stage[p] = "read" -> Read(p)
             [] stage[p] = "admit" -> Admit(p)
             [] stage[p] = "stage" -> Stage(p)
             [] stage[p] = "slot" -> AcquireSlot(p) \/ SlotWaitExpires(p) \/ AbandonWait(p)
             [] stage[p] = "scan" -> Scan(p)
             [] stage[p] = "publish" -> PublishNow(p) \/ HandOff(p) \/ Halts(p)
             [] stage[p] = "finish" -> Finish(p)
             [] stage[p] = "forward" -> Forward(p) \/ Halts(p)
             [] stage[p] = "await" -> Poll(p) \/ AwaitEnds(p) \/ Halts(p)
             [] stage[p] = "unanswered" -> HungPutEnds(p)
             [] OTHER -> FALSE
<1>t. stage \in [Requests -> Stages]
  BY DEF TypeOK
<1> USE <1>t DEF At, Goto, Reply, Proceed
<1>1. ASSUME NEW q \in Requests,
             Mint(q) \/ Route(q) \/ Read(q) \/ Admit(q) \/ Stage(q)
      PROVE  q = p
  BY <1>1 DEF Mint, Route, Read, Admit, Stage
<1>2. ASSUME NEW q \in Requests,
             AcquireSlot(q) \/ SlotWaitExpires(q) \/ AbandonWait(q) \/ Finish(q)
             \/ PublishNow(q) \/ HandOff(q) \/ Forward(q) \/ Poll(q) \/ HungPutEnds(q)
             \/ AwaitEnds(q)
      PROVE  q = p
  BY <1>2 DEF AcquireSlot, SlotWaitExpires, AbandonWait, PublishNow, HandOff, Finish,
     Forward, Forwarded, NotForwarded, Poll, HungPutEnds, AwaitEnds
<1>3. ASSUME NEW q \in Requests, Scan(q) \/ Halts(q)
      PROVE  q = p
  BY <1>3, JudgeEffect, HaltsEffect
<1>4. ASSUME NEW q \in Requests,
             TokenExpires(q) \/ Leave(q) \/ WorkerHangs(q) \/ Claim(q) \/ DeliverJob(q)
             \/ AbandonJob(q)
             \/ RetryJob(q)
      PROVE  FALSE
  BY <1>4 DEF TokenExpires, Leave, WorkerHangs, Claim, DeliverJob, AbandonJob, Resolved,
     RetryJob
<1>5. \/ Mint(p) \/ Route(p) \/ Read(p) \/ Admit(p) \/ Stage(p)
      \/ AcquireSlot(p) \/ SlotWaitExpires(p) \/ AbandonWait(p) \/ Finish(p) \/ Scan(p)
      \/ PublishNow(p) \/ HandOff(p) \/ Forward(p) \/ Poll(p) \/ HungPutEnds(p)
      \/ AwaitEnds(p) \/ Halts(p)
  BY <1>1, <1>2, <1>3, <1>4, NextCases DEF vars
<1> QED
  BY <1>5, HaltsEffect DEF Mint, Route, Read, Admit, Stage, AcquireSlot, SlotWaitExpires,
     AbandonWait, Scan, PublishNow, HandOff, Finish, Forward, Poll, HungPutEnds, AwaitEnds

\* How jobs come into the queue: through the hand-off, which only a pass reaches.
LEMMA QueueMoves ==
    ASSUME TypeOK, Owned, [Next]_vars
    PROVE  \A q \in Requests : Queued(q)' =>
              \/ Queued(q)
              \/ HandOff(q)
<1> USE DEF Queued, queueVars
<1>1. ASSUME NEW p \in Requests,
             Mint(p) \/ TokenExpires(p) \/ Leave(p) \/ WorkerHangs(p) \/ Route(p)
             \/ Read(p) \/ Admit(p) \/ Stage(p)
             \/ AcquireSlot(p) \/ SlotWaitExpires(p) \/ AbandonWait(p) \/ Scan(p)
             \/ PublishNow(p)
             \/ Finish(p) \/ Forward(p) \/ Poll(p) \/ HungPutEnds(p) \/ AwaitEnds(p)
             \/ Halts(p)
      PROVE  UNCHANGED <<backlog, working>>
  BY <1>1, HaltsEffect DEF Mint, TokenExpires, Leave, WorkerHangs, Route, Read, Admit,
     Stage, AcquireSlot,
     SlotWaitExpires, AbandonWait, Scan, PublishNow, Finish, Forward, Poll, HungPutEnds,
     AwaitEnds
<1>2. ASSUME NEW p \in Requests,
             Claim(p) \/ DeliverJob(p) \/ AbandonJob(p) \/ RetryJob(p)
      PROVE  backlog' \cup working' \subseteq backlog \cup working
  BY <1>2 DEF Claim, DeliverJob, AbandonJob, RetryJob, Resolved
<1>3. ASSUME NEW p \in Requests, HandOff(p)
      PROVE  backlog' \cup working' \subseteq backlog \cup working \cup {p}
  BY <1>3 DEF HandOff
<1> QED
  BY <1>1, <1>2, <1>3, NextCases DEF vars

\* A request keeps what entitles it.
LEMMA EntitlementStep ==
    ASSUME TypeOK, Owned, Entitlement, [Next]_vars
    PROVE  Entitlement'
<1>1. ASSUME NEW p \in Requests
      PROVE  token'[p] # None => <<p, token'[p]>> \in Entra
  <2>1. ASSUME NEW q \in Requests, Mint(q)
        PROVE  token'[p] # None => <<p, token'[p]>> \in Entra
    BY <2>1 DEF Mint, Entitlement, TypeOK
  <2>2. ASSUME NEW q \in Requests, TokenExpires(q)
        PROVE  token'[p] # None => <<p, token'[p]>> \in Entra
    BY <2>2 DEF TokenExpires, Entitlement, TypeOK
  <2>3. CASE UNCHANGED token
    BY <2>3 DEF Entitlement
  <2> QED
    BY <2>1, <2>2, <2>3, NextCases, HaltsEffect DEF vars, clientVars, Leave, WorkerHangs,
       Route, Read, Admit, Stage,
       AcquireSlot, SlotWaitExpires, AbandonWait, Scan, PublishNow, HandOff, Finish,
       Forward, Poll, HungPutEnds, AwaitEnds, Claim, DeliverJob, AbandonJob, Resolved,
       RetryJob
<1>2. ASSUME NEW p \in Requests,
             stage'[p] \notin {"new", "sent", "done"} \/ Queued(p)'
      PROVE  Entitled(p)
  <2>1. CASE stage[p] \notin {"new", "sent", "done"} \/ Queued(p)
    BY <2>1 DEF Entitlement
  <2>2. CASE HandOff(p)
    BY <2>2 DEF HandOff, At, Entitlement
  <2>3. CASE stage[p] = "sent" /\ stage'[p] = "read"
    <3>1. Route(p)
      BY <2>3, MovedBy
    <3>2. TenantOf(p) # None /\ Authenticated(p)
      <4>1. stage \in [Requests -> Stages]
        BY DEF TypeOK
      <4> QED
        BY <3>1, <2>3, <4>1 DEF Route, Reply, Proceed, Goto
    <3> QED
      BY <3>2, PutType DEF Authenticated, Entitlement, Entitled
  <2> QED
    <3>1. stage \in [Requests -> Stages]
      BY DEF TypeOK
    <3> QED
      BY <1>2, <2>1, <2>2, <2>3, <3>1, StageMoves, QueueMoves DEF Move, Moves
<1> QED
  BY <1>1, <1>2 DEF Entitlement, Entitled

\* A request that is not moved keeps its verdict, its row and its hand-off.
LEMMA Framed ==
    ASSUME TypeOK, [Next]_vars, NEW p \in Requests, stage'[p] = stage[p]
    PROVE  result'[p] = result[p] /\ row'[p] = row[p] /\ push'[p] = push[p]
<1>t. /\ stage \in [Requests -> Stages]
      /\ result \in [Requests -> {"none", "passed", "rejected", "infra", "saturated", "unpublished"}]
      /\ row \in [Requests -> {"none", "passed", "rejected", "infra"}]
      /\ push \in [Requests -> {"gated", "accepted", "refusing", "refused"}]
  BY GateAssumption DEF TypeOK, GateAssumption
<1> USE <1>t DEF At, Goto, Reply, Proceed, recordVars, deliveryVars, queueVars, Hand
<1>1. ASSUME NEW q \in Requests,
             Mint(q) \/ Route(q) \/ Read(q) \/ Admit(q) \/ Stage(q) \/ TokenExpires(q)
             \/ Leave(q) \/ WorkerHangs(q)
             \/ AcquireSlot(q) \/ AbandonWait(q) \/ Forward(q) \/ Poll(q)
             \/ HungPutEnds(q) \/ AwaitEnds(q) \/ Halts(q)
             \/ Claim(q) \/ RetryJob(q)
      PROVE  UNCHANGED <<result, row, push>>
  BY <1>1, HaltsEffect DEF Mint, Route, Read, Admit, Stage, TokenExpires, Leave,
     WorkerHangs, AcquireSlot, AbandonWait,
     Forward, Forwarded, NotForwarded, Poll, HungPutEnds, AwaitEnds, Claim, RetryJob
<1>2. ASSUME NEW q \in Requests, SlotWaitExpires(q) \/ PublishNow(q) \/ HandOff(q)
             \/ Finish(q)
      PROVE  result'[p] = result[p] /\ row'[p] = row[p] /\ push'[p] = push[p]
  BY <1>2 DEF SlotWaitExpires, PublishNow, HandOff, Finish, Accept, Refuse, Release
<1>3. ASSUME NEW q \in Requests, Scan(q)
      PROVE  result'[p] = result[p] /\ row'[p] = row[p] /\ push'[p] = push[p]
  BY <1>3, JudgeEffect DEF Scan
<1>4. ASSUME NEW q \in Requests, DeliverJob(q) \/ AbandonJob(q)
      PROVE  UNCHANGED <<result, row, push>>
  BY <1>4 DEF DeliverJob, AbandonJob, Resolved, Deliver, Abandon
<1> QED
  BY <1>1, <1>2, <1>3, <1>4, NextCases DEF vars

\* Classification happens when the manifest is read.
LEMMA ClassifiedStep ==
    ASSUME TypeOK, Owned, Classified, [Next]_vars
    PROVE  Classified'
<1>t. stage \in [Requests -> Stages]
  BY DEF TypeOK
<1> SUFFICES ASSUME NEW p \in Requests
             PROVE  /\ stage'[p] \in {"admit", "stage", "slot", "scan", "publish"} \/ Queued(p)' =>
                          IsImage(Put[p])
                    /\ stage'[p] \in {"forward", "await", "unanswered"} => ~IsImage(Put[p])
  BY DEF Classified
<1>1. Queued(p)' => Queued(p) \/ stage[p] = "publish"
  BY QueueMoves DEF HandOff, At
<1>2. CASE stage[p] = "read" /\ stage'[p] # stage[p]
  <2>1. Read(p)
    BY <1>2, MovedBy
  <2> QED
    BY <1>t, <1>1, <1>2, <2>1 DEF Classified, Read, Reply, Proceed, Goto
<1>3. CASE ~(stage[p] = "read" /\ stage'[p] # stage[p])
  BY <1>t, <1>1, <1>3, StageMoves DEF Classified, Move, Moves
<1> QED
  BY <1>2, <1>3

LEMMA JudgedStep ==
    ASSUME TypeOK, Owned, Judged, [Next]_vars
    PROVE  Judged'
<1>t. /\ stage \in [Requests -> Stages]
      /\ result \in [Requests -> {"none", "passed", "rejected", "infra", "saturated", "unpublished"}]
  BY DEF TypeOK
<1> SUFFICES ASSUME NEW p \in Requests
             PROVE  /\ stage'[p] \notin {"publish", "stuck", "finish", "done"} => result'[p] = "none"
                    /\ stage'[p] = "publish" => result'[p] = "passed"
                    /\ stage'[p] = "finish" => result'[p] # "none"
                    /\ Queued(p)' => result'[p] \in {"passed", "unpublished"}
  BY DEF Judged
<1>q. Queued(p)' => Queued(p) \/ HandOff(p)
  BY QueueMoves
<1>o. Queued(p) => stage[p] \in {"finish", "done"}
  BY DEF Owned
<1>1. CASE stage'[p] = stage[p]
  <2>1. ~HandOff(p)
    BY <1>1, <1>t DEF HandOff, At, Goto
  <2> QED
    BY <1>1, <2>1, <1>q, Framed DEF Judged
<1>2. ASSUME stage'[p] # stage[p], Mint(p) \/ Route(p) \/ Read(p) \/ Admit(p) \/ Stage(p)
             \/ AcquireSlot(p) \/ AbandonWait(p) \/ Forward(p) \/ Poll(p) \/ HungPutEnds(p)
             \/ AwaitEnds(p)
      PROVE  /\ result' = result /\ ~HandOff(p)
             /\ stage[p] \notin {"finish", "done", "publish", "stuck"}
             /\ stage'[p] \notin {"finish", "publish"}
  BY <1>2, <1>t DEF Mint, Route, Read, Admit, Stage, AcquireSlot, AbandonWait, HandOff,
     Forward, Forwarded, NotForwarded, Poll, HungPutEnds, AwaitEnds, Reply, Proceed, At, Goto
<1>3. ASSUME SlotWaitExpires(p) \/ PublishNow(p) \/ HandOff(p)
      PROVE  result'[p] \in {"saturated", "unpublished", result[p]} /\ stage'[p] = "finish"
             /\ (SlotWaitExpires(p) => result'[p] = "saturated" /\ stage[p] = "slot")
             /\ (~SlotWaitExpires(p) => result'[p] # "saturated" \/ result[p] = "saturated")
             /\ (PublishNow(p) \/ HandOff(p) => stage[p] = "publish")
  BY <1>3, <1>t DEF SlotWaitExpires, PublishNow, HandOff, Goto, At
<1>4. ASSUME Finish(p)
      PROVE  result' = result /\ stage[p] = "finish" /\ stage'[p] = "done" /\ ~HandOff(p)
  BY <1>4, <1>t DEF Finish, HandOff, Goto, At
<1>5. ASSUME Scan(p)
      PROVE  /\ stage[p] = "scan" /\ ~HandOff(p)
             /\ \/ result'[p] = "passed" /\ stage'[p] = "publish"
                \/ result'[p] \in {"rejected", "infra"} /\ stage'[p] = "finish"
  BY <1>5, <1>t, JudgeEffect DEF Scan, HandOff, At
<1>7. ASSUME Halts(p)
      PROVE  /\ result' = result /\ stage[p] \in {"forward", "await", "publish"}
             /\ UNCHANGED <<backlog, working>>
             /\ stage'[p] = "stuck" \/ (stage'[p] = "unanswered" /\ stage[p] # "publish")
  BY <1>7, <1>t, HaltsEffect
<1>6. stage'[p] # stage[p] =>
        \/ Mint(p) \/ Route(p) \/ Read(p) \/ Admit(p) \/ Stage(p)
        \/ AcquireSlot(p) \/ AbandonWait(p) \/ Forward(p) \/ Poll(p) \/ HungPutEnds(p)
             \/ AwaitEnds(p)
        \/ SlotWaitExpires(p) \/ PublishNow(p) \/ HandOff(p) \/ Finish(p) \/ Scan(p)
        \/ Halts(p)
  BY MovedBy
<1>j. /\ stage[p] \notin {"publish", "stuck", "finish", "done"} => result[p] = "none"
      /\ stage[p] = "publish" => result[p] = "passed"
      /\ stage[p] = "finish" => result[p] # "none"
      /\ Queued(p) => result[p] \in {"passed", "unpublished"}
  BY DEF Judged
<1>8. CASE stage'[p] # stage[p] /\ (Mint(p) \/ Route(p) \/ Read(p) \/ Admit(p) \/ Stage(p)
             \/ AcquireSlot(p) \/ AbandonWait(p) \/ Forward(p) \/ Poll(p) \/ HungPutEnds(p)
             \/ AwaitEnds(p))
  BY <1>8, <1>2, <1>q, <1>o, <1>j
<1>9. CASE SlotWaitExpires(p) \/ PublishNow(p) \/ HandOff(p)
  BY <1>9, <1>3, <1>q, <1>o, <1>j
<1>10. CASE Finish(p) \/ Scan(p)
  BY <1>10, <1>4, <1>5, <1>q, <1>o, <1>j
<1>11. CASE Halts(p)
  BY <1>11, <1>7, <1>o, <1>j DEF Queued
<1> QED
  BY <1>1, <1>6, <1>8, <1>9, <1>10, <1>11

\* A push is handed over once, by its hand-off; its refusal ends with the answer.
LEMMA PushMoves ==
    ASSUME TypeOK, [Next]_vars, NEW p \in Requests
    PROVE  \/ push'[p] = push[p] /\ ~HandOff(p)
           \/ HandOff(p) /\ push'[p] \in {"accepted", "refusing"}
           \/ Finish(p) /\ push[p] = "refusing" /\ push'[p] = "refused"
<1>t. /\ stage \in [Requests -> Stages]
      /\ push \in [Requests -> {"gated", "accepted", "refusing", "refused"}]
  BY GateAssumption DEF TypeOK, GateAssumption
<1>1. CASE HandOff(p)
  BY <1>1, <1>t DEF HandOff, Accept, Refuse, Hand
<1>2. CASE Finish(p) /\ ~HandOff(p)
  BY <1>2, <1>t DEF Finish, Release, Hand, deliveryVars
<1>3. ASSUME ~HandOff(p), ~Finish(p), NEW q \in Requests, HandOff(q) \/ Finish(q)
      PROVE  push'[p] = push[p]
  BY <1>3, <1>t DEF HandOff, Finish, Accept, Refuse, Release, Hand, deliveryVars
<1>4. ASSUME NEW q \in Requests, DeliverJob(q) \/ AbandonJob(q)
      PROVE  push' = push
  BY <1>4 DEF DeliverJob, AbandonJob, Deliver, Abandon
<1>5. ASSUME NEW q \in Requests,
             Mint(q) \/ Route(q) \/ Read(q) \/ Admit(q) \/ Stage(q) \/ TokenExpires(q)
             \/ Leave(q) \/ WorkerHangs(q)
             \/ AcquireSlot(q) \/ AbandonWait(q) \/ Forward(q) \/ Poll(q)
             \/ HungPutEnds(q) \/ AwaitEnds(q) \/ Halts(q)
             \/ Claim(q) \/ RetryJob(q) \/ SlotWaitExpires(q) \/ Scan(q) \/ PublishNow(q)
      PROVE  push' = push
  BY <1>5, HaltsEffect DEF Mint, Route, Read, Admit, Stage, TokenExpires, Leave,
     WorkerHangs, AcquireSlot, AbandonWait,
     Forward, Poll, HungPutEnds, AwaitEnds, Claim, RetryJob, SlotWaitExpires, Scan,
     PublishNow,
     queueVars, deliveryVars
<1> QED
  BY <1>1, <1>2, <1>3, <1>4, <1>5, NextCases DEF vars, queueVars, deliveryVars

LEMMA OwnedStep ==
    ASSUME TypeOK, Owned, [Next]_vars
    PROVE  Owned'
<1>t. stage \in [Requests -> Stages]
  BY DEF TypeOK
<1>1. backlog' \cap working' = {}
  <2>1. ASSUME NEW p \in Requests, HandOff(p)
        PROVE  backlog' \cap working' = {}
    <3>1. p \notin backlog \cup working
      BY <2>1 DEF HandOff, At, Owned, Queued
    <3> QED
      BY <2>1, <3>1 DEF HandOff, Owned
  <2>2. ASSUME NEW p \in Requests, Claim(p) \/ DeliverJob(p) \/ AbandonJob(p) \/ RetryJob(p)
        PROVE  backlog' \cap working' = {}
    BY <2>2 DEF Claim, DeliverJob, AbandonJob, RetryJob, Resolved, Owned
  <2>3. CASE UNCHANGED <<backlog, working>>
    BY <2>3 DEF Owned
  <2>4. ASSUME NEW p \in Requests,
               Mint(p) \/ TokenExpires(p) \/ Leave(p) \/ WorkerHangs(p) \/ Route(p)
               \/ Read(p) \/ Admit(p) \/ Stage(p)
        PROVE  UNCHANGED <<backlog, working>>
    BY <2>4 DEF Mint, TokenExpires, Leave, WorkerHangs, Route, Read, Admit, Stage, queueVars
  <2>5. ASSUME NEW p \in Requests,
               AcquireSlot(p) \/ SlotWaitExpires(p) \/ AbandonWait(p) \/ Scan(p)
               \/ PublishNow(p)
               \/ Finish(p) \/ Forward(p) \/ Poll(p) \/ HungPutEnds(p) \/ AwaitEnds(p)
               \/ Halts(p)
        PROVE  UNCHANGED <<backlog, working>>
    BY <2>5, HaltsEffect DEF AcquireSlot, SlotWaitExpires, AbandonWait, Scan, PublishNow,
       Finish, Forward,
       Poll, HungPutEnds, AwaitEnds, queueVars
  <2> QED
    BY <2>1, <2>2, <2>3, <2>4, <2>5, NextCases DEF vars, queueVars
<1>2. ASSUME NEW p \in Requests, stage'[p] \notin {"finish", "done"}
      PROVE  push'[p] = "gated"
  <2>1. stage[p] \notin {"finish", "done"}
    BY <1>2, <1>t, StageMoves DEF Move, Moves
  <2>2. ~HandOff(p) /\ ~Finish(p)
    BY <1>2, <1>t DEF HandOff, Finish, Goto
  <2> QED
    BY <2>1, <2>2, PushMoves DEF Owned
<1>3. ASSUME NEW p \in Requests, push'[p] = "gated"
      PROVE  ~Queued(p)'
  BY <1>3, PushMoves, QueueMoves DEF Owned
<1> QED
  BY <1>1, <1>2, <1>3 DEF Owned, Queued

\* The registries grow by what passed, and by what is forwarded with its references.
LEMMA RegistryMoves ==
    ASSUME TypeOK, [Next]_vars
    PROVE  \/ UNCHANGED registry
           \/ \E p \in Requests :
                 /\ registry' = Landed(p)
                 /\ \/ stage[p] = "publish"
                    \/ p \in working
                    \/ stage[p] \in {"forward", "await", "unanswered"} /\ ReferencesPresent(p)
<1>1. ASSUME NEW p \in Requests, PublishNow(p)
      PROVE  registry' \in {registry, Landed(p)} /\ stage[p] = "publish"
  BY <1>1 DEF PublishNow, At
<1>2. ASSUME NEW p \in Requests, Forward(p) \/ Poll(p) \/ HungPutEnds(p)
      PROVE  \/ registry' = registry
             \/ /\ registry' = Landed(p) /\ ReferencesPresent(p)
                /\ stage[p] \in {"forward", "await", "unanswered"}
  BY <1>2 DEF Forward, Poll, HungPutEnds, Forwarded, NotForwarded, At
<1>3. ASSUME NEW p \in Requests, DeliverJob(p)
      PROVE  registry' = Landed(p) /\ p \in working
  BY <1>3 DEF DeliverJob
<1>4. ASSUME NEW q \in Requests,
             Mint(q) \/ Route(q) \/ Read(q) \/ Admit(q) \/ Stage(q) \/ TokenExpires(q)
             \/ Leave(q) \/ WorkerHangs(q)
             \/ AcquireSlot(q) \/ AbandonWait(q) \/ AwaitEnds(q) \/ Halts(q) \/ Claim(q)
             \/ RetryJob(q)
             \/ SlotWaitExpires(q) \/ Scan(q) \/ HandOff(q) \/ Finish(q) \/ AbandonJob(q)
      PROVE  registry' = registry
  BY <1>4, HaltsEffect DEF Mint, Route, Read, Admit, Stage, TokenExpires, Leave,
     WorkerHangs, AcquireSlot, AbandonWait,
     AwaitEnds, Claim, RetryJob, SlotWaitExpires, Scan, HandOff, Finish, AbandonJob
<1> QED
  BY <1>1, <1>2, <1>3, <1>4, NextCases DEF vars

\* A pass is never taken back; a failed publication is the only thing after it.
LEMMA PassStays ==
    ASSUME TypeOK, Judged, [Next]_vars, NEW p \in Requests,
           result[p] \in {"passed", "unpublished"}
    PROVE  result'[p] \in {"passed", "unpublished"}
<1>t. /\ stage \in [Requests -> Stages]
      /\ result \in [Requests -> {"none", "passed", "rejected", "infra", "saturated", "unpublished"}]
  BY DEF TypeOK
<1>1. CASE stage'[p] = stage[p]
  BY <1>1, Framed
<1>2. CASE stage'[p] # stage[p]
  <2>1. stage[p] \in {"publish", "stuck", "finish", "done"}
    BY DEF Judged
  <2>2. PublishNow(p) \/ HandOff(p) \/ Finish(p) \/ Halts(p)
    BY <1>2, <2>1, MovedBy
  <2> QED
    BY <2>2, <1>t, HaltsEffect DEF PublishNow, HandOff, Finish
<1> QED
  BY <1>1, <1>2

LEMMA GatedStep ==
    ASSUME TypeOK, Entitlement, Classified, Judged, GatedOnly, [Next]_vars
    PROVE  GatedOnly'
<1> DEFINE Clean(p, t) ==
              /\ /\ Put[p].manifests = {} /\ ~Put[p].index
                 /\ Put[p].layers \cap {"filesystem", "unknown"} # {}
                 => result[p] \in {"passed", "unpublished"}
              /\ Put[p].index => \A d \in Put[p].manifests : <<t, d>> \in registry
<1>1. registry \subseteq registry'
  BY RegistryMoves DEF Landed
<1>2. ASSUME NEW e \in registry
      PROVE  \E p \in Origin(e[1], e[2]) : Clean(p, e[1])'
  <2>1. PICK p \in Origin(e[1], e[2]) : Clean(p, e[1])
    BY DEF GatedOnly
  <2>2. p \in Requests
    BY DEF Origin
  <2>3. Clean(p, e[1])'
    BY <2>1, <2>2, <1>1, PassStays
  <2> QED
    BY <2>3
<1>3. ASSUME NEW p \in Requests, registry' = Landed(p),
             \/ stage[p] = "publish"
             \/ p \in working
             \/ stage[p] \in {"forward", "await", "unanswered"} /\ ReferencesPresent(p)
      PROVE  p \in Origin(TenantOf(p), Put[p].digest) /\ Clean(p, TenantOf(p))'
  <2>1. Entitled(p)
    BY <1>3 DEF Entitlement, Queued
  <2>2. p \in Origin(TenantOf(p), Put[p].digest)
    BY <2>1 DEF Entitled, Origin
  <2>3. CASE stage[p] \in {"forward", "await", "unanswered"} /\ ReferencesPresent(p)
    <3>1. ~IsImage(Put[p])
      BY <2>3 DEF Classified
    <3>2. Put[p].manifests = {} /\ ~Put[p].index =>
             Put[p].layers \cap {"filesystem", "unknown"} = {}
      BY <3>1, PutType DEF IsImage, IsIndex, IsAttestation
    <3>3. Put[p].index => \A d \in Put[p].manifests : <<TenantOf(p), d>> \in registry'
      BY <2>3, <1>1 DEF ReferencesPresent
    <3> QED
      BY <2>2, <3>2, <3>3
  <2>4. CASE stage[p] = "publish" \/ p \in working
    <3>1. IsImage(Put[p])
      BY <2>4 DEF Classified, Queued
    <3>2. Put[p].manifests = {}
      BY <3>1 DEF IsImage, IsIndex
    <3>3. result[p] \in {"passed", "unpublished"}
      BY <2>4 DEF Judged, Queued
    <3>4. result'[p] \in {"passed", "unpublished"}
      BY <3>3, PassStays
    <3> QED
      BY <2>2, <3>2, <3>4
  <2> QED
    BY <1>3, <2>3, <2>4
<1>4. ASSUME NEW e \in registry'
      PROVE  \E p \in Origin(e[1], e[2]) : Clean(p, e[1])'
  <2>1. CASE e \in registry
    BY <2>1, <1>2
  <2>2. CASE e \notin registry
    <3>1. PICK p \in Requests :
             /\ registry' = Landed(p)
             /\ \/ stage[p] = "publish"
                \/ p \in working
                \/ stage[p] \in {"forward", "await", "unanswered"} /\ ReferencesPresent(p)
      BY <2>2, RegistryMoves
    <3>2. e = <<TenantOf(p), Put[p].digest>>
      BY <3>1, <2>2 DEF Landed
    <3>3. p \in Origin(TenantOf(p), Put[p].digest) /\ Clean(p, TenantOf(p))'
      BY <3>1, <1>3
    <3>4. e[1] = TenantOf(p) /\ e[2] = Put[p].digest
      BY <3>2
    <3> HIDE DEF Clean
    <3> QED
      BY <3>3, <3>4
  <2> QED
    BY <2>1, <2>2
<1> QED
  BY <1>4 DEF GatedOnly, Origin

\* Faults are only ever added.
LEMMA FaultsGrow ==
    ASSUME TypeOK, [Next]_vars
    PROVE  faults \in Nat /\ faults' \in Nat /\ faults <= faults'
<1>0. faults \in 0..MaxFaults /\ MaxFaults \in Nat
  BY GateAssumption DEF TypeOK, GateAssumption
<1>1. ASSUME NEW p \in Requests,
             Mint(p) \/ Leave(p) \/ Route(p) \/ AcquireSlot(p) \/ SlotWaitExpires(p)
             \/ AbandonWait(p) \/ Finish(p) \/ AwaitEnds(p) \/ Claim(p)
      PROVE  NoFault
  BY <1>1 DEF Mint, Leave, Route, AcquireSlot, SlotWaitExpires, AbandonWait, Finish,
     AwaitEnds, Claim, NoFault
<1>2. ASSUME NEW p \in Requests, TokenExpires(p) \/ Read(p) \/ Admit(p) \/ Stage(p)
      PROVE  Fault \/ NoFault
  BY <1>2 DEF TokenExpires, Read, Admit, Stage, Fails
<1>3. ASSUME NEW p \in Requests, Scan(p)
      PROVE  Fault \/ NoFault
  BY <1>3, JudgeEffect
<1>4. ASSUME NEW p \in Requests, PublishNow(p) \/ HandOff(p) \/ RetryJob(p)
      PROVE  Fault \/ NoFault
  BY <1>4 DEF PublishNow, HandOff, RetryJob
<1>5. ASSUME NEW p \in Requests, DeliverJob(p) \/ AbandonJob(p)
      PROVE  Fault \/ NoFault
  BY <1>5 DEF DeliverJob, AbandonJob
<1>6. ASSUME NEW p \in Requests, Forward(p) \/ Poll(p) \/ HungPutEnds(p)
      PROVE  Fault \/ NoFault
  BY <1>6 DEF Forward, Forwarded, NotForwarded, Poll, HungPutEnds, Fails
<1>8. ASSUME NEW p \in Requests, Halts(p) \/ WorkerHangs(p)
      PROVE  Fault \/ NoFault
  BY <1>8, HaltsEffect DEF WorkerHangs
<1>7. Fault \/ NoFault
  BY <1>1, <1>2, <1>3, <1>4, <1>5, <1>6, <1>8, NextCases DEF vars, NoFault
<1> QED
  BY <1>0, <1>7, FaultType

\* Only the handler's last step records a row.
LEMMA RowMoves ==
    ASSUME TypeOK, [Next]_vars, NEW p \in Requests, row'[p] # row[p]
    PROVE  Finish(p)
<1> USE DEF Reply, Proceed, recordVars
<1>1. stage'[p] # stage[p]
  BY Framed
<1>2. ~(Mint(p) \/ Route(p) \/ Read(p) \/ Admit(p) \/ Stage(p))
  BY DEF Mint, Route, Read, Admit, Stage
<1>3. ~(AcquireSlot(p) \/ SlotWaitExpires(p) \/ AbandonWait(p) \/ Scan(p))
  BY DEF AcquireSlot, SlotWaitExpires, AbandonWait, Scan
<1>4. ~(PublishNow(p) \/ HandOff(p) \/ Forward(p) \/ Poll(p) \/ HungPutEnds(p)
\/ AwaitEnds(p) \/ Halts(p))
  BY HaltsEffect DEF PublishNow, HandOff, Forward, Forwarded, NotForwarded, Poll,
     HungPutEnds, AwaitEnds
<1> QED
  BY <1>1, <1>2, <1>3, <1>4, MovedBy


\* A verdict of failure is a fault's, and the row is written with the answer.
LEMMA AccountedStep ==
    ASSUME TypeOK, Judged, Accounted, [Next]_vars
    PROVE  Accounted'
<1>t. /\ stage \in [Requests -> Stages]
      /\ result \in [Requests -> {"none", "passed", "rejected", "infra", "saturated", "unpublished"}]
      /\ row \in [Requests -> {"none", "passed", "rejected", "infra"}]
      /\ faults \in 0..MaxFaults
  BY DEF TypeOK
<1>1. ASSUME NEW p \in Requests, result'[p] \in {"infra", "unpublished"}
      PROVE  faults' > 0
  <2>1. CASE result'[p] = result[p]
    BY <1>1, <2>1, FaultsGrow DEF Accounted
  <2>2. CASE result'[p] # result[p]
    <3>1. stage'[p] # stage[p]
      BY <2>2, Framed
    <3>2. Scan(p) \/ SlotWaitExpires(p) \/ PublishNow(p) \/ HandOff(p)
      <4> USE DEF Reply, Proceed
      <4>1. ~(Mint(p) \/ Route(p) \/ Read(p) \/ Admit(p) \/ Stage(p) \/ AcquireSlot(p))
        BY <2>2 DEF Mint, Route, Read, Admit, Stage, AcquireSlot
      <4>2. ~(AbandonWait(p) \/ Finish(p) \/ Forward(p) \/ Poll(p) \/ HungPutEnds(p)
      \/ AwaitEnds(p) \/ Halts(p))
        BY <2>2, HaltsEffect DEF AbandonWait, Finish, Forward, Forwarded, NotForwarded,
           Poll, HungPutEnds, AwaitEnds
      <4> QED
        BY <3>1, <4>1, <4>2, MovedBy
    <3>3. Fault
      BY <3>2, <1>1, <2>2, <1>t, JudgeEffect DEF SlotWaitExpires, PublishNow, HandOff
    <3> QED
      BY <3>3, <1>t, FaultType
  <2> QED
    BY <2>1, <2>2
<1>2. ASSUME NEW p \in Requests, stage'[p] # "done"
      PROVE  row'[p] = "none"
  <2>1. stage[p] # "done"
    BY <1>2, <1>t, StageMoves DEF Move, Moves
  <2>2. ~Finish(p)
    BY <1>2, <1>t DEF Finish, Goto
  <2> QED
    BY <2>1, <2>2, RowMoves DEF Accounted
<1> QED
  BY <1>1, <1>2 DEF Accounted

LEMMA LeavingStep ==
    ASSUME TypeOK, Judged, Accounted, LeavingIsNoFailure, [Next]_vars
    PROVE  LeavingIsNoFailure'
<1>t. /\ stage \in [Requests -> Stages]
      /\ row \in [Requests -> {"none", "passed", "rejected", "infra"}]
  BY DEF TypeOK
<1> SUFFICES ASSUME NEW p \in Requests, row'[p] = "infra"
             PROVE  faults' > 0 \/ result'[p] = "saturated"
  BY DEF LeavingIsNoFailure
<1>1. CASE stage'[p] = stage[p]
  BY <1>1, Framed, FaultsGrow DEF LeavingIsNoFailure
<1>2. CASE stage'[p] # stage[p]
  <2>1. row[p] = "none"
    BY <1>2, MovedBy DEF Accounted
  <2>2. Finish(p)
    BY <2>1, RowMoves
  <2>3. RowFor(p) = "infra" /\ UNCHANGED <<result, faults>>
    BY <2>2, <1>t DEF Finish
  <2> QED
    BY <2>3 DEF RowFor, Accounted
<1> QED
  BY <1>1, <1>2

\* Only its worker takes the bytes of an accepted push.
LEMMA BytesStep ==
    ASSUME TypeOK, Owned, AcceptedBytesKept, [Next]_vars
    PROVE  AcceptedBytesKept'
<1>t. bytes \in [Requests -> {"uploads", "handler", "worker", "released"}]
  BY DEF TypeOK
<1> SUFFICES ASSUME NEW p \in Requests, push'[p] = "accepted", Queued(p)'
             PROVE  bytes'[p] = "worker"
  BY DEF AcceptedBytesKept, Queued
<1>1. CASE HandOff(p)
  BY <1>1, <1>t DEF HandOff, Refuse, Hand, TypeOK, GateAssumption, Accept, Owned, Queued, At
<1>2. CASE ~HandOff(p)
  <2>1. push[p] = "accepted" /\ Queued(p)
    BY <1>2, PushMoves, QueueMoves
  <2>2. bytes[p] = "worker" /\ stage[p] \in {"finish", "done"}
    BY <2>1 DEF AcceptedBytesKept, Owned, Queued
  <2>3. ASSUME NEW q \in Requests, Stage(q) \/ AbandonWait(q) \/ HandOff(q)
        PROVE  bytes'[p] = bytes[p]
    BY <2>2, <2>3, <1>t DEF Stage, AbandonWait, HandOff, At
  <2>4. ASSUME NEW q \in Requests, Finish(q)
        PROVE  bytes'[p] = bytes[p]
    BY <2>1, <2>4, <1>t DEF Finish, AfterCleanup
  <2>5. ASSUME NEW q \in Requests, DeliverJob(q) \/ AbandonJob(q)
        PROVE  bytes'[p] = bytes[p]
    <3>1. q # p
      BY <2>5, <2>1 DEF DeliverJob, AbandonJob, Resolved, Owned, Queued
    <3> QED
      BY <3>1, <2>5, <1>t DEF DeliverJob, AbandonJob, Resolved
  <2> QED
    BY <2>2, <2>3, <2>4, <2>5, NextCases, HaltsEffect DEF vars, Mint, TokenExpires, Leave,
       WorkerHangs, Route, Read,
       Admit, AcquireSlot, SlotWaitExpires, Scan, PublishNow, Forward, Poll, HungPutEnds,
       AwaitEnds,
       Claim, RetryJob
<1> QED
  BY <1>1, <1>2

\* A push is in flight from its admission to its hand-off, and joins the flight
\* uncounted or with room seen for it and nobody else on the way.
LEMMA RoomStep ==
    ASSUME TypeOK, Owned, RoomKept, [Next]_vars
    PROVE  RoomKept'
<1>t. /\ stage \in [Requests -> Stages]
      /\ backlog \subseteq Requests
  BY DEF TypeOK
<1>f. /\ IsFiniteSet(Seen) /\ IsFiniteSet(backlog)
      /\ Cardinality(Seen) \in Nat /\ Cardinality(backlog) \in Nat
      /\ MaxPending \in Nat
  <2>1. Seen \subseteq Requests /\ backlog \subseteq Requests
    BY <1>t DEF Seen, InFlight
  <2> QED
    BY <2>1, FS_Subset, FS_CardinalityType, GateAssumption DEF GateAssumption
<1>d. deferred' = deferred
  <2>1. ASSUME NEW p \in Requests,
               Mint(p) \/ TokenExpires(p) \/ Leave(p) \/ WorkerHangs(p) \/ Route(p)
               \/ Read(p) \/ Admit(p)
               \/ Stage(p) \/ AcquireSlot(p) \/ SlotWaitExpires(p) \/ AbandonWait(p)
        PROVE  deferred' = deferred
    BY <2>1 DEF Mint, TokenExpires, Leave, WorkerHangs, Route, Read, Admit, Stage,
       AcquireSlot,
       SlotWaitExpires, AbandonWait
  <2>2. ASSUME NEW p \in Requests,
               Scan(p) \/ PublishNow(p) \/ HandOff(p) \/ Finish(p) \/ Forward(p)
               \/ Poll(p) \/ HungPutEnds(p)
               \/ AwaitEnds(p) \/ Halts(p)
        PROVE  deferred' = deferred
    BY <2>2, HaltsEffect DEF Scan, PublishNow, HandOff, Finish, Forward, Poll,
       HungPutEnds, AwaitEnds
  <2>3. ASSUME NEW p \in Requests, Claim(p) \/ DeliverJob(p) \/ AbandonJob(p) \/ RetryJob(p)
        PROVE  deferred' = deferred
    BY <2>3 DEF Claim, DeliverJob, AbandonJob, Resolved, RetryJob
  <2> QED
    BY <2>1, <2>2, <2>3, NextCases DEF vars
<1> SUFFICES ASSUME deferred, MaxPending > 0
             PROVE  Cardinality(Seen') <= MaxPending
  BY <1>d DEF RoomKept
<1>b. Cardinality(Seen) <= MaxPending
  BY DEF RoomKept
<1>s. CASE Seen' \subseteq Seen
  <2> HIDE DEF Seen
  <2>1. Cardinality(Seen') <= Cardinality(Seen) /\ Cardinality(Seen') \in Nat
    BY <1>s, <1>f, FS_Subset, FS_CardinalityType
  <2> QED
    BY <2>1, <1>b, <1>f
<1>1. ASSUME NEW p \in Requests,
             Mint(p) \/ Route(p) \/ Read(p) \/ Stage(p) \/ AcquireSlot(p)
             \/ SlotWaitExpires(p) \/ AbandonWait(p) \/ Finish(p)
      PROVE  Seen' \subseteq Seen
  <2>1. UNCHANGED <<backlog, uncounted>>
    BY <1>1 DEF Mint, Route, Read, Stage, AcquireSlot, SlotWaitExpires, AbandonWait, Finish,
       queueVars
  <2>2. CASE Mint(p) \/ Route(p) \/ Read(p) \/ Finish(p)
    <3>1. \E s \in {"sent", "read", "admit", "forward", "done"} :
             stage' = [stage EXCEPT ![p] = s]
      BY <2>2 DEF Mint, Route, Read, Finish, Reply, Proceed, Goto
    <3>2. InFlight' \subseteq InFlight
      BY <3>1, <1>t DEF InFlight
    <3> QED
      BY <2>1, <3>2 DEF Seen
  <2>3. CASE Stage(p) \/ AcquireSlot(p) \/ SlotWaitExpires(p) \/ AbandonWait(p)
    <3>1. p \in InFlight
      BY <2>3 DEF InFlight, Stage, AcquireSlot, SlotWaitExpires, AbandonWait, At
    <3>2. \E s \in Stages : stage' = [stage EXCEPT ![p] = s]
      BY <2>3 DEF Stage, AcquireSlot, SlotWaitExpires, AbandonWait, Reply, Proceed, Goto,
         Stages
    <3>3. InFlight' \subseteq InFlight
      BY <3>1, <3>2, <1>t DEF InFlight
    <3> QED
      BY <2>1, <3>3 DEF Seen
  <2> QED
    BY <1>1, <2>2, <2>3
<1>2. ASSUME NEW p \in Requests, Scan(p) \/ PublishNow(p)
      PROVE  Seen' \subseteq Seen
  <2>1. UNCHANGED <<backlog, uncounted>> /\ InFlight' \subseteq InFlight
    BY <1>2, <1>t, JudgeEffect DEF InFlight, Scan, PublishNow, Goto, At, queueVars
  <2> QED
    BY <2>1 DEF Seen
<1>3. ASSUME NEW p \in Requests, Forward(p) \/ Poll(p) \/ HungPutEnds(p) \/ AwaitEnds(p)
             \/ Halts(p)
      PROVE  Seen' \subseteq Seen
  <2>1. UNCHANGED <<backlog, uncounted>>
    BY <1>3, HaltsEffect DEF Forward, Poll, HungPutEnds, AwaitEnds, queueVars
  <2>2. \E s \in {"forward", "await", "unanswered", "stuck", "done"} :
           stage' = [stage EXCEPT ![p] = s]
    BY <1>3, HaltsEffect DEF Forward, Forwarded, NotForwarded, Poll, HungPutEnds,
       AwaitEnds, Reply, Proceed, Goto
  <2>3. InFlight' \subseteq InFlight
    BY <2>2, <1>t DEF InFlight
  <2> QED
    BY <2>1, <2>3 DEF Seen
<1>4. ASSUME NEW p \in Requests, HandOff(p)
      PROVE  Seen' \subseteq Seen
  <2>1. p \in InFlight
    BY <1>4 DEF HandOff, At, InFlight
  <2>2. InFlight' \subseteq InFlight
    BY <1>4, <1>t DEF HandOff, Goto, InFlight
  <2>3. backlog' \subseteq backlog \cup {p} /\ UNCHANGED uncounted
    BY <1>4 DEF HandOff
  <2> QED
    BY <2>1, <2>2, <2>3 DEF Seen
<1>5. ASSUME NEW p \in Requests,
             TokenExpires(p) \/ Leave(p) \/ WorkerHangs(p) \/ Claim(p) \/ DeliverJob(p)
             \/ AbandonJob(p)
             \/ RetryJob(p)
      PROVE  Seen' \subseteq Seen
  BY <1>5 DEF Seen, InFlight, TokenExpires, Leave, WorkerHangs, Claim, DeliverJob,
     AbandonJob, Resolved,
     RetryJob, queueVars
<1>6. ASSUME NEW p \in Requests, Admit(p)
      PROVE  Cardinality(Seen') <= MaxPending
  <2>1. backlog' = backlog
    BY <1>6 DEF Admit
  <2>2. CASE UNCHANGED uncounted /\ stage' = [stage EXCEPT ![p] = "done"]
    <3>1. Seen' \subseteq Seen
      BY <2>1, <2>2, <1>t DEF Seen, InFlight
    <3> QED
      BY <3>1, <1>s
  <2>3. CASE uncounted' = uncounted \cup {p} /\ stage' = [stage EXCEPT ![p] = "stage"]
    <3>1. Seen' \subseteq Seen
      BY <2>1, <2>3, <1>t DEF Seen, InFlight
    <3> QED
      BY <3>1, <1>s
  <2>4. CASE /\ ~BacklogFull /\ InFlight = {} /\ UNCHANGED uncounted
             /\ stage' = [stage EXCEPT ![p] = "stage"]
    <3>1. Seen' \subseteq backlog \cup {p}
      BY <2>1, <2>4, <1>t DEF Seen, InFlight
    <3>2. Cardinality(backlog) < MaxPending
      BY <2>4, <1>f DEF BacklogFull
    <3>3. /\ IsFiniteSet(backlog \cup {p})
          /\ Cardinality(backlog \cup {p}) <= Cardinality(backlog) + 1
          /\ Cardinality(backlog \cup {p}) \in Nat
      <4>1. /\ IsFiniteSet(backlog \cup {p})
            /\ Cardinality(backlog \cup {p}) \in {Cardinality(backlog), Cardinality(backlog) + 1}
        BY <1>f, FS_AddElement
      <4> QED
        BY <1>f, <4>1
    <3> HIDE DEF Seen
    <3>4. /\ Cardinality(Seen') <= Cardinality(backlog \cup {p})
          /\ Cardinality(Seen') \in Nat
      BY <3>1, <3>3, FS_Subset, FS_CardinalityType
    <3> QED
      BY <3>2, <3>3, <3>4, <1>f
  <2> QED
    BY <1>6, <2>2, <2>3, <2>4 DEF Admit, Reply, Proceed, Goto
<1> QED
  BY <1>s, <1>1, <1>2, <1>3, <1>4, <1>5, <1>6, NextCases
     DEF vars, Seen, InFlight, queueVars

LEMMA InitInv ==
    ASSUME Init
    PROVE  Inv
<1> USE DEF Init, DeliveryInit
<1>1. IsFiniteSet({}) /\ Cardinality({}) = 0
  BY FS_EmptySet
<1>2. TypeOK
  <2>1. {p \in Requests : stage[p] = "scan"} = {}
    OBVIOUS
  <2>2. Slots \in Nat /\ MaxFaults \in Nat /\ Jobs = Requests
    BY GateAssumption DEF GateAssumption
  <2>3. Cardinality({p \in Requests : stage[p] = "scan"}) <= Slots
    BY <1>1, <2>1, <2>2
  <2> QED
    BY <2>2, <2>3 DEF TypeOK, Stages
<1>3. RoomKept
  <2>1. Seen = {}
    BY DEF Seen, InFlight
  <2> QED
    BY <1>1, <2>1, GateAssumption DEF RoomKept, GateAssumption
<1>4. Entitlement /\ Classified /\ Judged /\ Owned /\ Accounted
  BY GateAssumption DEF Entitlement, Classified, Judged, Owned, Accounted, Queued,
     GateAssumption
<1>5. GatedOnly /\ AcceptedBytesKept /\ LeavingIsNoFailure
  BY DEF GatedOnly, AcceptedBytesKept, LeavingIsNoFailure
<1> QED
  BY <1>2, <1>3, <1>4, <1>5 DEF Inv

-----------------------------------------------------------------------------
\* The strengthened invariant holds in every reachable state of the gate.
THEOREM Invariance == Spec => []Inv
<1>1. Init => Inv
  BY InitInv
<1>2. Inv /\ [Next]_vars => Inv'
  <2> SUFFICES ASSUME Inv, [Next]_vars PROVE Inv'
    OBVIOUS
  <2>1. TypeOK /\ Entitlement /\ Classified /\ Judged /\ Owned /\ Accounted /\ GatedOnly
        /\ AcceptedBytesKept /\ LeavingIsNoFailure /\ RoomKept
    BY DEF Inv
  <2>2. TypeOK' /\ Entitlement' /\ Classified' /\ Judged' /\ Owned' /\ Accounted'
    BY <2>1, TypeStep, EntitlementStep, ClassifiedStep, JudgedStep, OwnedStep, AccountedStep
  <2>3. GatedOnly' /\ AcceptedBytesKept' /\ LeavingIsNoFailure' /\ RoomKept'
    BY <2>1, GatedStep, BytesStep, LeavingStep, RoomStep
  <2> QED
    BY <2>2, <2>3 DEF Inv
<1> QED
  BY <1>1, <1>2, PTL DEF Spec

\* Every variable of the gate keeps its type, and no more scans run than the
\* pool has slots (router.Pool).
THEOREM TypeCorrect == Spec => []TypeOK
  BY Invariance, PTL DEF Inv

\* What is in a registry was put there by a caller of that tenant; if it lists no
\* manifests, is no index by its media type and may have a filesystem, the policies
\* passed it; and an index is there with what it names (readManifestPush,
\* publication.run, forwardManifest), however the requests, the workers, the
\* failures and the clients that leave interleave.  A manifest with layers that
\* also lists manifests is forwarded unjudged.
THEOREM NothingAroundTheGate == Spec => []GatedOnly
  BY Invariance, PTL DEF Inv

\* The deferred clean-up of handleManifest never takes the bytes of a push whose
\* hand-off was acknowledged and which its worker still has to publish.
THEOREM AcceptedBytes == Spec => []AcceptedBytesKept
  BY Invariance, PTL DEF Inv

\* The jobs the bound of promotionBacklogFull could see coming never exceed it.
THEOREM Backlog == Spec => []BacklogBounded
<1>1. Inv => BacklogBounded
  <2> SUFFICES ASSUME Inv, deferred, MaxPending > 0
               PROVE  Cardinality(backlog \ uncounted) <= MaxPending
    BY DEF BacklogBounded
  <2>1. backlog \ uncounted \subseteq Seen /\ Seen \subseteq Requests
    BY DEF Seen, InFlight, Inv, TypeOK
  <2>2. Cardinality(Seen) <= MaxPending /\ MaxPending \in Nat
    BY GateAssumption DEF Inv, RoomKept, GateAssumption
  <2>3. IsFiniteSet(Seen) /\ IsFiniteSet(backlog \ uncounted)
    BY <2>1, FS_Subset, GateAssumption DEF GateAssumption
  <2>4. /\ Cardinality(backlog \ uncounted) <= Cardinality(Seen)
        /\ Cardinality(Seen) \in Nat /\ Cardinality(backlog \ uncounted) \in Nat
    BY <2>1, <2>3, FS_Subset, FS_CardinalityType
  <2> QED
    BY <2>2, <2>4
<1> QED
  BY <1>1, Invariance, PTL

\* A client that disconnects is not recorded as a failure of its push: the scan
\* and the publication are detached from its request.
THEOREM Leaving == Spec => []LeavingIsNoFailure
  BY Invariance, PTL DEF Inv
=============================================================================
