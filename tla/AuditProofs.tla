---------------------------- MODULE AuditProofs -----------------------------
(***************************************************************************)
(* Theorems about Audit, for any pushes, queue size, number of attempts,    *)
(* signals and faults.                                                      *)
(*                                                                         *)
(* The invariant follows a record through the buffer.  Released ties the    *)
(* order of the shutdown to what is left in memory; Quiet says what the     *)
(* drain has waited for; UnderWay what the goroutine has written of its     *)
(* job; Once that a decision is recorded once; Ordered that the tables, the *)
(* goroutine and the queue hold decisions in the order of Record.           *)
(***************************************************************************)
EXTENDS Audit, FiniteSetTheorems, WellFoundedInduction, TLAPS

\* What a backend that is released leaves behind.
Released ==
    /\ "writer" \notin opened => "auditor" \notin opened
    /\ "auditor" \notin opened => closed /\ queue = <<>> /\ hand = None
    /\ closed => phase \notin {"serving", "draining"}
    /\ phase \in {"exited", "dead"} => queue = <<>> /\ hand = None
    /\ panic # "none" => phase = "dead"

Quiet == phase = "releasing" /\ ~expired => ~InFlight

\* The rows the goroutine still has to write, and those it has written.
UnderWay ==
    hand # None =>
        /\ hand.left = <<"row">> <=> ~HasFindings(hand.job)
        /\ hand.left = <<"findings">> => hand.job \in ToSet(decisions)

Outages == down => faults > 0

\* A decision is recorded once: by its handler on its way out, or by the worker.
Once ==
    /\ \A i, k \in DOMAIN sent :
          i # k /\ sent[i] = sent[k] => sent[i].kind = "alias"
    /\ \A p \in Pushes :
          /\ step[p] \in {"new", "gate", "record"} =>
                {Decision(p, "passed"), Decision(p, "rejected")} \cap ToSet(sent) = {}
          /\ step[p] \in {"new", "gate"} => promotion[p] = "none"
          /\ step[p] = "record" => verdict[p] # "none"
          /\ Decision(p, "abandoned") \in ToSet(sent) => promotion[p] = "abandoned"

\* Recorded before, in the order of the calls of Record.
Before(a, b) == \E i, k \in DOMAIN sent : i < k /\ sent[i] = a /\ sent[k] = b

Ordered ==
    /\ ToSet(decisions) \cup ToSet(queue) \cup InHand \subseteq ToSet(sent)
    /\ \A i, k \in DOMAIN decisions :
          i < k => decisions[i] = decisions[k] \/ Before(decisions[i], decisions[k])
    /\ \A a \in ToSet(decisions), b \in InHand : a = b \/ Before(a, b)
    /\ \A a \in ToSet(decisions) \cup InHand, b \in ToSet(queue) : Before(a, b)
    /\ \A i, k \in DOMAIN queue : i < k => Before(queue[i], queue[k])

\* The inductive invariant.
Inv ==
    /\ TypeOK /\ Released /\ Quiet /\ UnderWay /\ Outages /\ Once /\ Ordered
    /\ RecordedOrReported /\ ShutdownDropsNothing /\ DrainProtectsHandlers

-----------------------------------------------------------------------------
(***************************************************************************)
(* Sequences.                                                               *)
(***************************************************************************)
LEMMA AppendFacts ==
    ASSUME NEW S, NEW s \in Seq(S), NEW e \in S
    PROVE  /\ Append(s, e) \in Seq(S)
           /\ Len(Append(s, e)) = Len(s) + 1
           /\ DOMAIN Append(s, e) = DOMAIN s \cup {Len(s) + 1}
           /\ DOMAIN s = 1..Len(s) /\ Len(s) \in Nat
           /\ \A i \in DOMAIN s : Append(s, e)[i] = s[i]
           /\ Append(s, e)[Len(s) + 1] = e
           /\ ToSet(Append(s, e)) = ToSet(s) \cup {e}
<1>1. /\ Append(s, e) \in Seq(S)
      /\ Len(Append(s, e)) = Len(s) + 1
      /\ DOMAIN s = 1..Len(s) /\ Len(s) \in Nat
      /\ DOMAIN Append(s, e) = 1..Len(s) + 1
  OBVIOUS
<1>2. DOMAIN Append(s, e) = DOMAIN s \cup {Len(s) + 1}
  BY <1>1
<1>3. (\A i \in DOMAIN s : Append(s, e)[i] = s[i]) /\ Append(s, e)[Len(s) + 1] = e
  BY <1>1
<1>4. ToSet(Append(s, e)) = ToSet(s) \cup {e}
  BY <1>1, <1>2, <1>3 DEF ToSet
<1> QED
  BY <1>1, <1>2, <1>3, <1>4

LEMMA TailFacts ==
    ASSUME NEW S, NEW s \in Seq(S), s # <<>>
    PROVE  /\ Tail(s) \in Seq(S) /\ Head(s) \in S
           /\ Len(Tail(s)) = Len(s) - 1
           /\ Head(s) = s[1] /\ 1 \in DOMAIN s
           /\ \A i \in DOMAIN Tail(s) : i + 1 \in DOMAIN s /\ Tail(s)[i] = s[i + 1] /\ i \in Nat \ {0}
           /\ ToSet(s) = {Head(s)} \cup ToSet(Tail(s))
<1>1. /\ Tail(s) \in Seq(S) /\ Head(s) \in S
      /\ Len(Tail(s)) = Len(s) - 1 /\ Len(s) \in Nat /\ Len(s) > 0
      /\ Head(s) = s[1] /\ DOMAIN s = 1..Len(s) /\ DOMAIN Tail(s) = 1..Len(s) - 1
  OBVIOUS
<1>2. \A i \in DOMAIN Tail(s) : i + 1 \in DOMAIN s /\ Tail(s)[i] = s[i + 1] /\ i \in Nat \ {0}
  BY <1>1
<1>3. \A k \in DOMAIN s : k = 1 \/ (k - 1 \in DOMAIN Tail(s) /\ Tail(s)[k - 1] = s[k])
  BY <1>1
<1>4. ToSet(s) \subseteq {Head(s)} \cup ToSet(Tail(s))
  BY <1>1, <1>3 DEF ToSet
<1>5. {Head(s)} \cup ToSet(Tail(s)) \subseteq ToSet(s)
  BY <1>1, <1>2 DEF ToSet
<1> QED
  BY <1>1, <1>2, <1>4, <1>5

LEMMA EmptyFacts ==
    ToSet(<<>>) = {} /\ DOMAIN <<>> = {} /\ Len(<<>>) = 0 /\ \A S : <<>> \in Seq(S)
  BY DEF ToSet

LEMMA LeftFacts ==
    /\ <<"row">> # <<"findings">> /\ <<"row">> # <<"row", "findings">>
    /\ <<"findings">> # <<"row", "findings">>
    /\ Len(<<"row">>) = 1 /\ Len(<<"findings">>) = 1 /\ Len(<<"row", "findings">>) = 2
    /\ Head(<<"row">>) = "row" /\ Head(<<"findings">>) = "findings"
    /\ Head(<<"row", "findings">>) = "row" /\ Tail(<<"row", "findings">>) = <<"findings">>
<1>1. Len(<<"row">>) = 1 /\ Len(<<"findings">>) = 1 /\ Len(<<"row", "findings">>) = 2
  OBVIOUS
<1>2. Head(<<"row">>) = "row" /\ Head(<<"findings">>) = "findings"
      /\ Head(<<"row", "findings">>) = "row"
  OBVIOUS
<1>3. Tail(<<"row", "findings">>) = <<"findings">>
  OBVIOUS
<1> QED
  BY <1>1, <1>2, <1>3

\* A bounded set of numbers has a greatest member.
LEMMA Greatest ==
    ASSUME NEW b \in Nat, NEW S, S \subseteq 0..b, S # {}
    PROVE  Max(S) \in S /\ \A y \in S : Max(S) >= y
<1> DEFINE R == OpToRel(<, Nat)
           T == {b - x : x \in S}
<1>1. IsWellFoundedOn(R, Nat)
  BY NatLessThanWellFounded
<1>2. T \subseteq Nat /\ T # {}
  <2>1. \A x \in S : b - x \in Nat
    OBVIOUS
  <2> QED
    BY <2>1
<1> HIDE DEF T, R
<1>3. PICK m \in T : \A y \in T : ~(<<y, m>> \in R)
  BY <1>1, <1>2, WFMin
<1>4. \A y \in T : ~(y < m)
  BY <1>2, <1>3 DEF R, OpToRel
<1>5. PICK x \in S : m = b - x
  BY DEF T
<1>6. \A y \in S : b - y \in T /\ y \in Nat
  BY DEF T
<1>7. \A y \in S : x >= y
  BY <1>4, <1>5, <1>6
<1> QED
  BY <1>7 DEF Max

-----------------------------------------------------------------------------
(***************************************************************************)
(* What a call of Record does, and the steps by what they do to the buffer. *)
(***************************************************************************)
Enqueue(j) ==
    /\ ~closed
    /\ sent' = Append(sent, j)
    /\ \/ Room /\ queue' = Append(queue, j) /\ reported' = reported
       \/ ~Room /\ queue' = queue /\ reported' = reported \cup {[job |-> j, err |-> "full"]}
    /\ UNCHANGED <<phase, panic, hand, forgotten, recordUnchanged>>

Panics(who) ==
    /\ closed
    /\ Die
    /\ panic' = who
    /\ UNCHANGED <<reported, sent, recordUnchanged>>

LEMMA Constants ==
    /\ QueueSize \in Nat /\ Attempts \in Nat \ {0} /\ MaxSignals \in Nat /\ MaxFaults \in Nat
    /\ None \notin Work
    /\ \A p \in Pushes : Put[p].findings \in BOOLEAN
  BY AuditAssumption DEF AuditAssumption, PushShape

LEMMA JobTypes ==
    /\ \A p \in Pushes, v \in {"passed", "rejected", "abandoned"} :
          Decision(p, v) \in Jobs
    /\ \A p \in Pushes, d \in Digests : TagAlias(p, d) \in Jobs
    /\ \A j \in Jobs : j.kind \in {"decision", "alias"} /\ j.push \in Pushes
    /\ \A j \in Jobs : j.kind = "decision" =>
          \E p \in Pushes, v \in {"passed", "rejected", "abandoned"} : j = Decision(p, v)
<1>1. /\ \A p \in Pushes, v \in {"passed", "rejected", "abandoned"} : Decision(p, v) \in Jobs
      /\ \A p \in Pushes, d \in Digests : TagAlias(p, d) \in Jobs
  BY DEF Jobs
<1>2. ASSUME NEW j \in Jobs
      PROVE  \/ \E p \in Pushes, v \in {"passed", "rejected", "abandoned"} : j = Decision(p, v)
             \/ \E p \in Pushes, d \in Digests : j = TagAlias(p, d)
  BY DEF Jobs
<1>3. \A p, v : Decision(p, v).kind = "decision" /\ Decision(p, v).push = p
  BY DEF Decision
<1>4. \A p, d : TagAlias(p, d).kind = "alias" /\ TagAlias(p, d).push = p
  BY DEF TagAlias
<1>5. ASSUME NEW j \in Jobs
      PROVE  j.kind \in {"decision", "alias"} /\ j.push \in Pushes
  BY <1>2, <1>3, <1>4
<1>6. ASSUME NEW j \in Jobs, j.kind = "decision"
      PROVE  \E p \in Pushes, v \in {"passed", "rejected", "abandoned"} : j = Decision(p, v)
  BY <1>2, <1>4, <1>6
<1> QED
  BY <1>1, <1>5, <1>6

LEMMA JobFields ==
    /\ \A p, v : Decision(p, v).kind = "decision" /\ Decision(p, v).push = p /\ Decision(p, v).what = v
    /\ \A p, d : TagAlias(p, d).kind = "alias" /\ TagAlias(p, d).push = p
  BY DEF Decision, TagAlias

LEMMA RecordCases ==
    ASSUME NEW j, NEW who, Record(j, who), UNCHANGED recordUnchanged
    PROVE  Enqueue(j) \/ Panics(who)
<1>1. CASE closed
  BY <1>1 DEF Record, Panics
<1>2. CASE ~closed /\ Room
  BY <1>2 DEF Record, Enqueue
<1>3. CASE ~closed /\ ~Room
  BY <1>3 DEF Record, Enqueue, Dropped
<1> QED
  BY <1>1, <1>2, <1>3

\* The handlers and the worker, by the record they make.
HandlerRecords(p) ==
    /\ Alive /\ step[p] = "record"
    /\ step' = [step EXCEPT ![p] = "done"]
    /\ UNCHANGED <<verdict, promotion>>
    /\ Enqueue(Decision(p, verdict[p])) \/ Panics("handler")

HandlerAliases(p) ==
    /\ Alive /\ step[p] = "alias"
    /\ UNCHANGED <<step, verdict, promotion>>
    /\ \E d \in Digests : Enqueue(TagAlias(p, d)) \/ Panics("handler")

HandlerEnds(p) ==
    /\ Alive /\ step[p] = "alias"
    /\ step' = [step EXCEPT ![p] = "done"]
    /\ UNCHANGED <<verdict, promotion, phase, panic, queue, hand, sent, reported, forgotten,
                   recordUnchanged>>

WorkerRecords(p) ==
    /\ Alive /\ promotion[p] = "working"
    /\ UNCHANGED <<step, verdict>>
    /\ \/ Enqueue(Decision(p, "abandoned")) /\ promotion' = [promotion EXCEPT ![p] = "abandoned"]
       \/ Panics("worker") /\ UNCHANGED promotion

LEMMA AliasCases ==
    ASSUME TypeOK, NEW p \in Pushes, RecordAlias(p)
    PROVE  HandlerAliases(p) \/ HandlerEnds(p)
<1> DEFINE D == {i \in DOMAIN sent : sent[i].push = p}
           k == Cardinality(D) + 1
<1>1. k \in Nat \ {0}
  <2>1. sent \in Seq(Jobs)
    BY DEF TypeOK
  <2>2. IsFiniteSet(DOMAIN sent)
    BY <2>1, FS_Interval
  <2>3. IsFiniteSet(D)
    BY <2>2, FS_Subset
  <2> HIDE DEF D
  <2> QED
    BY <2>3, FS_CardinalityType
<1> HIDE DEF k
<1>2. CASE k > Len(Put[p].subs)
  BY <1>2 DEF RecordAlias, HandlerEnds, Goto, k
<1>3. CASE ~(k > Len(Put[p].subs))
  <2>1. Put[p].subs \in Seq(ToSet(Put[p].subs))
    BY AuditAssumption DEF AuditAssumption, PushShape
  <2>2. k \in DOMAIN Put[p].subs
    BY <1>1, <1>3, <2>1
  <2>3. Put[p].subs[k] \in Digests
    BY <2>2 DEF Digests, ToSet
  <2>4. Record(TagAlias(p, Put[p].subs[k]), "handler") /\ UNCHANGED <<step, recordUnchanged>>
    BY <1>3 DEF RecordAlias, k
  <2>5. Enqueue(TagAlias(p, Put[p].subs[k])) \/ Panics("handler")
    BY <2>4, RecordCases
  <2> QED
    BY <2>3, <2>4, <2>5 DEF RecordAlias, HandlerAliases
<1> QED
  BY <1>2, <1>3

LEMMA RecorderCases ==
    ASSUME NEW p \in Pushes
    PROVE  /\ RecordDecision(p) => HandlerRecords(p)
           /\ Abandon(p) => WorkerRecords(p)
<1>1. ASSUME RecordDecision(p) PROVE HandlerRecords(p)
  <2>1. Enqueue(Decision(p, verdict[p])) \/ Panics("handler")
    BY <1>1, RecordCases DEF RecordDecision
  <2> QED
    BY <1>1, <2>1 DEF RecordDecision, HandlerRecords, Goto
<1>2. ASSUME Abandon(p) PROVE WorkerRecords(p)
  <2>1. Enqueue(Decision(p, "abandoned")) \/ Panics("worker")
    BY <1>2, RecordCases DEF Abandon
  <2> QED
    BY <1>2, <2>1 DEF Abandon, WorkerRecords, Enqueue, Panics
<1> QED
  BY <1>1, <1>2

LEMMA NextCases ==
    ASSUME TypeOK, [Next]_vars
    PROVE  \/ UNCHANGED vars
           \/ \E p \in Pushes :
                 \/ Begin(p) \/ Decide(p) \/ Claim(p) \/ Published(p)
                 \/ HandlerRecords(p) \/ HandlerAliases(p) \/ HandlerEnds(p) \/ WorkerRecords(p)
           \/ Take \/ WriteOK \/ WriteFails \/ WriteUnanswered \/ Outage \/ Recovery
           \/ StopServing \/ Drained \/ DrainExpires \/ CloseBackend \/ Exit \/ Crash \/ Start
  BY AliasCases, RecorderCases DEF Next, Auditor, Shutdown
-----------------------------------------------------------------------------
(***************************************************************************)
(* The goroutine.                                                           *)
(***************************************************************************)
Kinds(k) == {j \in Jobs : j.kind = k}

LEMMA HandFacts ==
    ASSUME TypeOK, hand # None
    PROVE  /\ hand \in Work /\ hand.job \in Jobs /\ hand.tries \in 0..Attempts - 1
           /\ hand.left \in {<<"row", "findings">>, <<"row">>, <<"findings">>}
           /\ InHand = {hand.job}
  BY DEF TypeOK, Work, InHand

\* What a write adds to the tables.
LEMMA LandFacts ==
    ASSUME TypeOK, hand # None, Land
    PROVE  /\ decisions' \in Seq(Kinds("decision"))
           /\ \/ decisions' = decisions
              \/ /\ decisions' = Append(decisions, hand.job)
                 /\ hand.job \in Kinds("decision")
                 /\ ToSet(decisions') = ToSet(decisions) \cup {hand.job}
           /\ aliases' \in Seq(Kinds("alias"))
           /\ ToSet(decisions) \subseteq ToSet(decisions')
           /\ ToSet(aliases) \subseteq ToSet(aliases')
           /\ hand.left # <<"findings">> => hand.job \in ToSet(decisions') \cup ToSet(aliases')
           /\ hand.left # <<"findings">> /\ hand.job.kind = "decision" => hand.job \in ToSet(decisions')
           /\ findings \subseteq findings' /\ findings' \subseteq Pushes
           /\ hand.left = <<"findings">> => hand.job.push \in findings'
<1>t. /\ decisions \in Seq(Kinds("decision")) /\ aliases \in Seq(Kinds("alias"))
      /\ findings \subseteq Pushes
  BY DEF TypeOK, Kinds
<1>h. /\ hand.job \in Jobs /\ hand.job.kind \in {"decision", "alias"} /\ hand.job.push \in Pushes
      /\ hand.left \in {<<"row", "findings">>, <<"row">>, <<"findings">>}
  BY HandFacts, JobTypes
<1>p. /\ hand.left = <<"findings">> => Head(hand.left) = "findings"
      /\ hand.left # <<"findings">> => Head(hand.left) = "row"
  BY <1>h, LeftFacts
<1>1. /\ decisions' \in Seq(Kinds("decision"))
      /\ \/ decisions' = decisions
         \/ /\ decisions' = Append(decisions, hand.job)
            /\ hand.job \in Kinds("decision")
            /\ ToSet(decisions') = ToSet(decisions) \cup {hand.job}
      /\ ToSet(decisions) \subseteq ToSet(decisions')
      /\ hand.left # <<"findings">> /\ hand.job.kind = "decision" => hand.job \in ToSet(decisions')
  <2>1. CASE Head(hand.left) = "row" /\ hand.job.kind = "decision"
    <3>1. decisions' = Append(decisions, hand.job) /\ hand.job \in Kinds("decision")
      BY <2>1, <1>h DEF Land, Kinds
    <3> QED
      BY <3>1, <1>t, AppendFacts
  <2>2. CASE ~(Head(hand.left) = "row" /\ hand.job.kind = "decision")
    BY <2>2, <1>t, <1>p DEF Land
  <2> QED
    BY <2>1, <2>2
<1>2. /\ aliases' \in Seq(Kinds("alias"))
      /\ ToSet(aliases) \subseteq ToSet(aliases')
      /\ hand.job.kind = "alias" => hand.job \in ToSet(aliases')
  <2>1. CASE hand.job.kind = "alias"
    <3>1. aliases' = Append(aliases, hand.job) /\ hand.job \in Kinds("alias")
      BY <2>1, <1>h DEF Land, Kinds
    <3> QED
      BY <3>1, <1>t, AppendFacts
  <2>2. CASE hand.job.kind # "alias"
    BY <2>2, <1>t DEF Land
  <2> QED
    BY <2>1, <2>2
<1>3. /\ findings \subseteq findings' /\ findings' \subseteq Pushes
      /\ hand.left = <<"findings">> => hand.job.push \in findings'
  BY <1>t, <1>h, <1>p DEF Land
<1> QED
  BY <1>1, <1>2, <1>3, <1>h

LEMMA TakeFacts ==
    ASSUME TypeOK, Take
    PROVE  /\ hand = None /\ hand' \in Work /\ hand'.job = Head(queue)
           /\ hand'.left = <<"row">> <=> ~HasFindings(hand'.job)
           /\ hand'.left # <<"findings">>
           /\ queue' = Tail(queue) /\ queue # <<>> /\ queue' \in Seq(Jobs)
           /\ Len(queue') <= QueueSize
           /\ ToSet(queue) = {hand'.job} \cup ToSet(queue')
<1>1. /\ queue \in Seq(Jobs) /\ queue # <<>> /\ queue' = Tail(queue) /\ Len(queue) <= QueueSize
      /\ hand = None
      /\ hand' = [job |-> Head(queue), left |-> Parts(Head(queue)), tries |-> 0]
  BY DEF Take, TypeOK
<1>2. /\ Tail(queue) \in Seq(Jobs) /\ Head(queue) \in Jobs /\ Len(Tail(queue)) = Len(queue) - 1
      /\ ToSet(queue) = {Head(queue)} \cup ToSet(Tail(queue)) /\ Len(queue) \in Nat
  BY <1>1, TailFacts
<1>3. /\ hand'.job = Head(queue) /\ hand'.left = Parts(Head(queue)) /\ hand' \in Work
  BY <1>1, <1>2, Constants DEF Work, Parts
<1>4. /\ hand'.left = <<"row">> <=> ~HasFindings(hand'.job)
      /\ hand'.left # <<"findings">>
  BY <1>3, LeftFacts DEF Parts
<1>5. Len(queue') <= QueueSize
  BY <1>1, <1>2, Constants
<1> QED
  BY <1>1, <1>2, <1>3, <1>4, <1>5

\* After a row: the next one, or the end of the job.
LEMMA WriteOKFacts ==
    ASSUME TypeOK, WriteOK
    PROVE  /\ hand # None /\ Land /\ Answers /\ UNCHANGED <<queue, lossVars, faults, auditorUnchanged>>
           /\ \/ hand' = None /\ hand.left \in {<<"row">>, <<"findings">>}
              \/ /\ hand' \in Work /\ hand'.job = hand.job /\ hand'.left = <<"findings">>
                 /\ hand.left = <<"row", "findings">>
<1>1. hand # None /\ Land /\ Answers /\ UNCHANGED <<queue, lossVars, faults, auditorUnchanged>>
      /\ hand' = IF Len(hand.left) = 1 THEN None ELSE [hand EXCEPT !.left = Tail(@), !.tries = 0]
  BY DEF WriteOK
<1>2. hand \in Work /\ hand.left \in {<<"row", "findings">>, <<"row">>, <<"findings">>}
  BY <1>1, HandFacts
<1>3. CASE Len(hand.left) = 1
  BY <1>1, <1>2, <1>3, LeftFacts
<1>4. CASE Len(hand.left) # 1
  <2>1. hand.left = <<"row", "findings">> /\ Tail(hand.left) = <<"findings">>
    BY <1>2, <1>4, LeftFacts
  <2>2. hand' = [hand EXCEPT !.left = <<"findings">>, !.tries = 0]
    BY <1>1, <1>4, <2>1
  <2>3. hand' = [job |-> hand.job, left |-> <<"findings">>, tries |-> 0]
    BY <1>2, <2>2 DEF Work
  <2>4. 0 \in 0..Attempts - 1 /\ hand.job \in Jobs
    BY <1>1, HandFacts, Constants
  <2>5. hand' \in Work /\ hand'.job = hand.job /\ hand'.left = <<"findings">>
    BY <2>3, <2>4 DEF Work
  <2> QED
    BY <1>1, <2>1, <2>5
<1> QED
  BY <1>3, <1>4

\* After a failed attempt: another one, or the end of the job.
LEMMA AgainFacts ==
    ASSUME TypeOK, hand # None, Again
    PROVE  /\ UNCHANGED <<queue, forgotten, auditorUnchanged>>
           /\ \/ /\ hand' \in Work /\ hand'.job = hand.job /\ hand'.left = hand.left
                 /\ UNCHANGED <<reported, silent>>
              \/ /\ hand' = None
                 /\ \/ /\ reported' = reported \cup {[job |-> hand.job, err |-> "write"]}
                       /\ UNCHANGED silent
                    \/ silent' = silent \cup {hand.job} /\ UNCHANGED reported
<1>h. hand \in Work /\ hand.job.kind \in {"decision", "alias"} /\ hand.tries \in 0..Attempts - 1
  BY HandFacts, JobTypes
<1>1. CASE hand.tries + 1 < Attempts
  <2>1. hand' = [hand EXCEPT !.tries = @ + 1] /\ UNCHANGED <<reported, silent>>
    BY <1>1 DEF Again
  <2>2. hand' \in Work /\ hand'.job = hand.job /\ hand'.left = hand.left
    BY <1>h, <1>1, <2>1, Constants DEF Work
  <2> QED
    BY <2>1, <2>2 DEF Again
<1>2. CASE ~(hand.tries + 1 < Attempts)
  BY <1>h, <1>2 DEF Again, Dropped
<1> QED
  BY <1>1, <1>2

LEMMA EnqueueFacts ==
    ASSUME TypeOK, NEW j \in Jobs, Enqueue(j)
    PROVE  /\ sent' \in Seq(Jobs) /\ queue' \in Seq(Jobs) /\ Len(queue') <= QueueSize
           /\ ToSet(sent') = ToSet(sent) \cup {j}
           /\ \/ /\ ToSet(queue') = ToSet(queue) \cup {j} /\ queue' = Append(queue, j)
                 /\ UNCHANGED reported
              \/ queue' = queue /\ reported' = reported \cup {[job |-> j, err |-> "full"]}
<1>t. sent \in Seq(Jobs) /\ queue \in Seq(Jobs) /\ Len(queue) <= QueueSize
  BY DEF TypeOK
<1>1. sent' \in Seq(Jobs) /\ ToSet(sent') = ToSet(sent) \cup {j}
  BY <1>t, AppendFacts DEF Enqueue
<1>2. CASE Room
  <2>1. queue' = Append(queue, j) /\ UNCHANGED reported
    BY <1>2 DEF Enqueue
  <2>2. /\ queue' \in Seq(Jobs) /\ ToSet(queue') = ToSet(queue) \cup {j}
        /\ Len(queue') = Len(queue) + 1 /\ Len(queue) \in Nat
    BY <1>t, <2>1, AppendFacts
  <2>3. Len(queue') <= QueueSize
    BY <2>2, <1>2, Constants DEF Room
  <2> QED
    BY <1>1, <2>1, <2>2, <2>3
<1>3. CASE ~Room
  BY <1>t, <1>1, <1>3 DEF Enqueue
<1> QED
  BY <1>2, <1>3

-----------------------------------------------------------------------------
(***************************************************************************)
(* Types, by the groups of variables.                                       *)
(***************************************************************************)
TProcess ==
    /\ phase \in {"serving", "draining", "releasing", "exited", "dead"}
    /\ {cancelled, expired, closed, down} \subseteq BOOLEAN
    /\ panic \in {"none", "handler", "worker"}
    /\ opened \subseteq Backends
    /\ signals \in 0..MaxSignals
    /\ faults \in 0..MaxFaults

THandlers ==
    /\ step \in [Pushes -> {"new", "gate", "record", "alias", "done"}]
    /\ verdict \in [Pushes -> {"none", "passed", "rejected"}]
    /\ promotion \in [Pushes -> {"none", "pending", "working", "published", "abandoned"}]

TBuffer ==
    /\ {queue, sent} \subseteq Seq(Jobs)
    /\ Len(queue) <= QueueSize
    /\ hand \in Work \cup {None}

TTables ==
    /\ decisions \in Seq({j \in Jobs : j.kind = "decision"})
    /\ aliases \in Seq({j \in Jobs : j.kind = "alias"})
    /\ findings \subseteq Pushes

TLosses ==
    /\ silent \cup forgotten \subseteq Jobs
    /\ reported \subseteq [job : Jobs, err : {"full", "write"}]

LEMMA TypeParts ==
    /\ TypeOK <=> TProcess /\ THandlers /\ TBuffer /\ TTables /\ TLosses
    /\ TypeOK' <=> TProcess' /\ THandlers' /\ TBuffer' /\ TTables' /\ TLosses'
  BY DEF TypeOK, TProcess, THandlers, TBuffer, TTables, TLosses

\* The job of a record is a job.
LEMMA RecordedJobs ==
    ASSUME TypeOK, Once, NEW p \in Pushes
    PROVE  /\ HandlerRecords(p) => Decision(p, verdict[p]) \in Jobs /\ verdict[p] \in {"passed", "rejected"}
           /\ Decision(p, "abandoned") \in Jobs
<1>1. verdict[p] \in {"none", "passed", "rejected"}
  BY DEF TypeOK
<1> QED
  BY <1>1, JobTypes DEF HandlerRecords, Once

\* Every step, by what it does to the buffer, the tables and the losses.
Dies ==
    /\ phase' = "dead" /\ queue' = <<>> /\ hand' = None
    /\ forgotten' = forgotten \cup ToSet(queue) \cup InHand
    /\ UNCHANGED <<sent, tableVars, reported, silent, faults, down, closed, opened, expired, cancelled>>

Keeps == UNCHANGED <<queue, hand, sent, tableVars, lossVars>>

LEMMA BufferCases ==
    ASSUME TypeOK, Once, [Next]_vars
    PROVE  \/ Keeps
           \/ \E j \in Jobs : Enqueue(j)
           \/ Dies
           \/ Start \/ Take \/ WriteOK \/ WriteFails \/ WriteUnanswered
<1>1. ASSUME NEW p \in Pushes,
             Begin(p) \/ Decide(p) \/ Claim(p) \/ Published(p) \/ HandlerEnds(p)
      PROVE  Keeps
  BY <1>1 DEF Begin, Decide, Claim, Published, HandlerEnds, Keeps, bufferVars, lossVars,
     recordUnchanged
<1>2. ASSUME NEW who, Panics(who)
      PROVE  Dies
  BY <1>2 DEF Panics, Die, Dies, recordUnchanged, boundVars, tableVars
<1>3. ASSUME NEW p \in Pushes, HandlerRecords(p) \/ HandlerAliases(p) \/ WorkerRecords(p)
      PROVE  Dies \/ \E j \in Jobs : Enqueue(j)
  <2>1. CASE HandlerRecords(p)
    BY <2>1, <1>2, RecordedJobs DEF HandlerRecords
  <2>2. CASE HandlerAliases(p)
    BY <2>2, <1>2, JobTypes DEF HandlerAliases
  <2>3. CASE WorkerRecords(p)
    BY <2>3, <1>2, RecordedJobs DEF WorkerRecords
  <2> QED
    BY <1>3, <2>1, <2>2, <2>3
<1>4. ASSUME Outage \/ Recovery \/ StopServing \/ Drained \/ DrainExpires \/ CloseBackend \/ Exit
      PROVE  Keeps
  BY <1>4 DEF Outage, Recovery, StopServing, Drained, DrainExpires, Release, CloseBackend, Exit,
     lifeUnchanged, Keeps, bufferVars, lossVars
<1>5. ASSUME Crash
      PROVE  Dies
  BY <1>5 DEF Crash, Die, Dies, lifeUnchanged, tableVars
<1>6. ASSUME UNCHANGED vars
      PROVE  Keeps
  BY <1>6 DEF vars, bufferVars, lossVars, Keeps
<1> QED
  BY <1>1, <1>3, <1>4, <1>5, <1>6, NextCases

LEMMA TypeStep ==
    ASSUME TypeOK, Once, [Next]_vars
    PROVE  TypeOK'
<1>t. TProcess /\ THandlers /\ TBuffer /\ TTables /\ TLosses
  BY TypeParts
<1>1. TBuffer' /\ TTables' /\ TLosses'
  <2>1. CASE Keeps
    BY <2>1, <1>t DEF Keeps, TBuffer, TTables, TLosses, tableVars, lossVars
  <2>2. ASSUME NEW j \in Jobs, Enqueue(j)
        PROVE  TBuffer' /\ TTables' /\ TLosses'
    <3>1. UNCHANGED <<hand, tableVars, forgotten, silent>>
      BY <2>2 DEF Enqueue, recordUnchanged
    <3>2. [job |-> j, err |-> "full"] \in [job : Jobs, err : {"full", "write"}]
      OBVIOUS
    <3>3. reported' \subseteq [job : Jobs, err : {"full", "write"}]
      BY <2>2, <3>2, <1>t, EnqueueFacts DEF TLosses
    <3>4. sent' \in Seq(Jobs) /\ queue' \in Seq(Jobs) /\ Len(queue') <= QueueSize
      BY <2>2, EnqueueFacts
    <3> QED
      BY <3>1, <3>3, <3>4, <1>t DEF TBuffer, TTables, TLosses, tableVars
  <2>3. CASE Dies
    <3>1. ToSet(queue) \subseteq Jobs /\ InHand \subseteq Jobs
      BY <1>t DEF TBuffer, ToSet, InHand, Work
    <3> QED
      BY <2>3, <3>1, <1>t, EmptyFacts, Constants DEF Dies, TBuffer, TTables, TLosses, tableVars
  <2>4. CASE Start
    <3>1. queue' = <<>> /\ hand' = None /\ UNCHANGED <<sent, tableVars, lossVars>>
      BY <2>4 DEF Start
    <3> QED
      BY <3>1, <1>t, EmptyFacts, Constants DEF TBuffer, TTables, TLosses, tableVars, lossVars
  <2>5. CASE Take
    <3>1. UNCHANGED <<sent, tableVars, lossVars>>
      BY <2>5 DEF Take, auditorUnchanged
    <3> QED
      BY <2>5, <3>1, <1>t, TakeFacts DEF TBuffer, TTables, TLosses, tableVars, lossVars
  <2>6. CASE WriteOK
    <3>1. UNCHANGED <<sent, queue, lossVars>> /\ hand' \in Work \cup {None}
      BY <2>6, WriteOKFacts DEF auditorUnchanged
    <3>2. TTables'
      BY <2>6, WriteOKFacts, LandFacts DEF TTables, Kinds
    <3> QED
      BY <3>1, <3>2, <1>t DEF TBuffer, TLosses, lossVars
  <2>7. CASE WriteFails \/ WriteUnanswered
    <3>1. hand # None /\ Again /\ (Land \/ UNCHANGED tableVars)
      BY <2>7 DEF WriteFails, WriteUnanswered
    <3>2. TTables'
      <4>1. CASE Land
        BY <4>1, <3>1, LandFacts DEF TTables, Kinds
      <4>2. CASE UNCHANGED tableVars
        BY <4>2, <1>t DEF TTables, tableVars
      <4> QED
        BY <3>1, <4>1, <4>2
    <3>3. UNCHANGED <<sent, queue, forgotten>> /\ hand' \in Work \cup {None}
      BY <3>1, AgainFacts DEF auditorUnchanged
    <3>4. hand.job \in Jobs
      BY <3>1, HandFacts
    <3>5. [job |-> hand.job, err |-> "write"] \in [job : Jobs, err : {"full", "write"}]
      BY <3>4
    <3>6. reported' \subseteq [job : Jobs, err : {"full", "write"}] /\ silent' \subseteq Jobs
      BY <3>1, <3>4, <3>5, <1>t, AgainFacts DEF TLosses
    <3> QED
      BY <3>2, <3>3, <3>6, <1>t DEF TBuffer, TLosses
  <2> QED
    BY <2>1, <2>2, <2>3, <2>4, <2>5, <2>6, <2>7, BufferCases
<1>2. THandlers'
  <2>1. ASSUME NEW p \in Pushes, Begin(p) \/ Decide(p) \/ Claim(p) \/ Published(p)
        PROVE  THandlers'
    BY <2>1, <1>t DEF THandlers, Begin, Decide, Claim, Published, Goto
  <2>2. ASSUME NEW p \in Pushes,
               HandlerRecords(p) \/ HandlerAliases(p) \/ HandlerEnds(p) \/ WorkerRecords(p)
        PROVE  THandlers'
    BY <2>2, <1>t DEF THandlers, HandlerRecords, HandlerAliases, HandlerEnds, WorkerRecords
  <2>3. CASE Start
    BY <2>3, <1>t DEF THandlers, Start
  <2>4. ASSUME Take \/ WriteOK \/ WriteFails \/ WriteUnanswered
        PROVE  UNCHANGED handlerVars
    BY <2>4 DEF Take, WriteOK, WriteFails, WriteUnanswered, Again, auditorUnchanged
  <2>5. ASSUME Outage \/ Recovery \/ StopServing \/ Drained \/ DrainExpires \/ CloseBackend \/ Exit
               \/ Crash \/ UNCHANGED vars
        PROVE  UNCHANGED handlerVars
    BY <2>5 DEF Outage, Recovery, StopServing, Drained, DrainExpires, Release, CloseBackend, Exit,
       Crash, lifeUnchanged, vars
  <2>6. CASE UNCHANGED handlerVars
    BY <2>6, <1>t DEF THandlers, handlerVars
  <2> QED
    BY <2>1, <2>2, <2>3, <2>4, <2>5, <2>6, NextCases
<1>3. TProcess'
  <2>0. MaxSignals \in Nat /\ MaxFaults \in Nat
    BY Constants
  <2>t. /\ cancelled \in BOOLEAN /\ expired \in BOOLEAN /\ closed \in BOOLEAN /\ down \in BOOLEAN
        /\ signals \in 0..MaxSignals /\ faults \in 0..MaxFaults
        /\ phase \in {"serving", "draining", "releasing", "exited", "dead"}
        /\ panic \in {"none", "handler", "worker"}
        /\ opened \subseteq Backends
    BY <1>t DEF TProcess
  <2>g. ASSUME cancelled' \in BOOLEAN, expired' \in BOOLEAN, closed' \in BOOLEAN, down' \in BOOLEAN,
               signals' \in 0..MaxSignals, faults' \in 0..MaxFaults,
               phase' \in {"serving", "draining", "releasing", "exited", "dead"},
               panic' \in {"none", "handler", "worker"},
               opened' \subseteq Backends
        PROVE  TProcess'
    BY <2>g DEF TProcess
  <2>1. ASSUME NEW p \in Pushes, Begin(p) \/ Decide(p) \/ Claim(p) \/ Published(p) \/ HandlerEnds(p)
        PROVE  TProcess'
    BY <2>1, <1>t DEF TProcess, Begin, Decide, Claim, Published, HandlerEnds, recordUnchanged,
       processVars, boundVars, bufferVars
  <2>2. ASSUME NEW j, Enqueue(j)
        PROVE  TProcess'
    BY <2>2, <1>t DEF TProcess, Enqueue, recordUnchanged, boundVars
  <2>3. ASSUME Panics("handler") \/ Panics("worker")
        PROVE  TProcess'
    BY <2>3, <1>t DEF TProcess, Panics, Die, recordUnchanged, boundVars
  <2>4. ASSUME NEW p \in Pushes, HandlerRecords(p) \/ HandlerAliases(p) \/ WorkerRecords(p)
        PROVE  TProcess'
    BY <2>2, <2>3, <2>4 DEF HandlerRecords, HandlerAliases, WorkerRecords
  <2>5. ASSUME Take \/ WriteOK \/ WriteFails
        PROVE  TProcess'
    BY <2>5, <1>t DEF TProcess, Take, WriteOK, WriteFails, Again, auditorUnchanged, processVars
  <2>6. CASE WriteUnanswered \/ Outage
    <3>1. faults' \in 0..MaxFaults
      BY <2>0, <2>t, <2>6 DEF WriteUnanswered, Outage
    <3>2. UNCHANGED <<cancelled, expired, closed, signals, phase, panic, opened>>
      BY <2>6 DEF WriteUnanswered, Again, auditorUnchanged, Outage, processVars, bufferVars
    <3>3. down' \in BOOLEAN
      BY <2>6, <2>t DEF WriteUnanswered, Again, auditorUnchanged, Outage
    <3> QED
      BY <3>1, <3>2, <3>3, <2>t, <2>g
  <2>7. CASE Recovery \/ CloseBackend \/ Exit
    BY <2>7, <1>t DEF TProcess, Recovery, CloseBackend, Exit, lifeUnchanged, processVars,
       bufferVars, boundVars
  <2>8. CASE StopServing \/ Drained \/ DrainExpires
    <3>1. signals' \in 0..MaxSignals
      BY <2>0, <2>t, <2>8 DEF StopServing, Drained, DrainExpires, Release
    <3>2. UNCHANGED <<closed, down, faults, panic, opened>>
      BY <2>8 DEF StopServing, Drained, DrainExpires, Release, lifeUnchanged, bufferVars
    <3>3. cancelled' \in BOOLEAN /\ expired' \in BOOLEAN /\ phase' \in {"draining", "releasing"}
      BY <2>8, <2>t DEF StopServing, Drained, DrainExpires, Release
    <3> QED
      BY <3>1, <3>2, <3>3, <2>t, <2>g
  <2>9. CASE Crash \/ Start
    <3>1. signals' \in 0..MaxSignals
      BY <2>0, <2>t, <2>9 DEF Crash, Start, boundVars
    <3>2. UNCHANGED <<down, faults>> /\ opened' \subseteq Backends
      BY <2>9, <2>t DEF Crash, Start, lifeUnchanged, boundVars
    <3>3. /\ cancelled' \in BOOLEAN /\ expired' \in BOOLEAN /\ closed' \in BOOLEAN
          /\ phase' \in {"serving", "dead"} /\ panic' \in {"none", panic}
      BY <2>9, <2>t DEF Crash, Die, Start
    <3> QED
      BY <3>1, <3>2, <3>3, <2>t, <2>g
  <2>10. CASE UNCHANGED vars
    BY <2>10, <1>t DEF TProcess, vars, processVars, bufferVars, boundVars
  <2> QED
    BY <2>1, <2>4, <2>5, <2>6, <2>7, <2>8, <2>9, <2>10, NextCases
<1> QED
  BY <1>1, <1>2, <1>3, TypeParts

-----------------------------------------------------------------------------
(***************************************************************************)
(* The shutdown.                                                            *)
(***************************************************************************)

\* The steps by what they do to the process.
LEMMA PhaseCases ==
    ASSUME TypeOK, Once, [Next]_vars
    PROVE  \/ UNCHANGED <<phase, closed, opened, expired, panic>>
           \/ Dies /\ panic' = panic
           \/ Panics("worker")
           \/ Panics("handler") /\ InFlight /\ Alive
           \/ Start \/ StopServing \/ Drained \/ DrainExpires \/ CloseBackend \/ Exit
<1>1. ASSUME NEW p \in Pushes, Begin(p) \/ Decide(p) \/ Claim(p) \/ Published(p) \/ HandlerEnds(p)
      PROVE  UNCHANGED <<phase, closed, opened, expired, panic>>
  BY <1>1 DEF Begin, Decide, Claim, Published, HandlerEnds, recordUnchanged, processVars, bufferVars
<1>2. ASSUME NEW j, Enqueue(j)
      PROVE  UNCHANGED <<phase, closed, opened, expired, panic>>
  BY <1>2 DEF Enqueue, recordUnchanged
<1>3. ASSUME NEW p \in Pushes, HandlerRecords(p) \/ HandlerAliases(p) \/ WorkerRecords(p)
      PROVE  \/ UNCHANGED <<phase, closed, opened, expired, panic>>
             \/ Panics("worker")
             \/ Panics("handler") /\ InFlight /\ Alive
  BY <1>2, <1>3 DEF HandlerRecords, HandlerAliases, WorkerRecords, InFlight
<1>4. ASSUME Take \/ WriteOK \/ WriteFails \/ WriteUnanswered
      PROVE  UNCHANGED <<phase, closed, opened, expired, panic>>
  BY <1>4 DEF Take, WriteOK, WriteFails, WriteUnanswered, Again, auditorUnchanged, processVars
<1>5. ASSUME Outage \/ Recovery \/ UNCHANGED vars
      PROVE  UNCHANGED <<phase, closed, opened, expired, panic>>
  BY <1>5 DEF Outage, Recovery, vars, processVars, bufferVars
<1>6. ASSUME Crash
      PROVE  Dies /\ panic' = panic
  BY <1>6 DEF Crash, Die, Dies, lifeUnchanged, tableVars
<1> QED
  BY <1>1, <1>3, <1>4, <1>5, <1>6, NextCases

\* The auditor goes before its writer, and only with nothing left in memory;
\* nothing gets into a queue that is closed.
LEMMA ReleasedStep ==
    ASSUME TypeOK, Once, Released, [Next]_vars
    PROVE  Released'
<1>t. /\ phase \in {"serving", "draining", "releasing", "exited", "dead"}
      /\ opened \subseteq Backends
  BY DEF TypeOK
<1>1. ASSUME UNCHANGED <<phase, closed, opened, queue, hand, panic>>
      PROVE  Released'
  BY <1>1 DEF Released
<1>2. ASSUME NEW p \in Pushes, Begin(p) \/ Decide(p) \/ Claim(p) \/ Published(p) \/ HandlerEnds(p)
      PROVE  UNCHANGED <<phase, closed, opened, queue, hand, panic>>
  BY <1>2 DEF Begin, Decide, Claim, Published, HandlerEnds, recordUnchanged, processVars, bufferVars
<1>3. ASSUME Outage \/ Recovery \/ UNCHANGED vars
      PROVE  UNCHANGED <<phase, closed, opened, queue, hand, panic>>
  BY <1>3 DEF Outage, Recovery, vars, processVars, bufferVars
<1>4. ASSUME NEW j, Enqueue(j), Alive
      PROVE  Released'
  BY <1>4 DEF Enqueue, recordUnchanged, Alive, Released
<1>5. CASE Dies
  BY <1>5 DEF Dies, Released
<1>6. ASSUME NEW p \in Pushes, HandlerRecords(p) \/ HandlerAliases(p) \/ WorkerRecords(p)
      PROVE  Released'
  <2>1. ASSUME NEW who, Panics(who)
        PROVE  Dies
    BY <2>1 DEF Panics, Die, Dies, recordUnchanged, boundVars, tableVars
  <2> QED
    BY <1>4, <1>5, <1>6, <2>1 DEF HandlerRecords, HandlerAliases, WorkerRecords
<1>7. ASSUME Take \/ WriteOK \/ WriteFails \/ WriteUnanswered
      PROVE  Released'
  <2>1. /\ UNCHANGED <<phase, closed, opened, panic>> /\ Alive
        /\ queue # <<>> \/ hand # None
    BY <1>7 DEF Take, WriteOK, WriteFails, WriteUnanswered, Again, auditorUnchanged, processVars
  <2> QED
    BY <2>1 DEF Released, Alive
<1>8. CASE Crash
  <2>1. Dies
    BY <1>8 DEF Crash, Die, Dies, lifeUnchanged, tableVars
  <2> QED
    BY <2>1, <1>5
<1>9. CASE StopServing \/ Drained \/ DrainExpires
  <2>1. UNCHANGED <<closed, opened, queue, hand, panic>> /\ phase \in {"serving", "draining"}
        /\ phase' \in {"draining", "releasing"}
    BY <1>9 DEF StopServing, Drained, DrainExpires, Release, bufferVars
  <2> QED
    BY <2>1 DEF Released
<1>10. CASE CloseBackend
  <2>1. UNCHANGED <<phase, queue, hand, panic>> /\ phase = "releasing"
    BY <1>10 DEF CloseBackend
  <2>2. PICK b \in Backends :
           /\ NextReleased(b)
           /\ \/ b = "auditor" /\ closed' = TRUE /\ UNCHANGED opened
              \/ /\ b = "auditor" => closed /\ queue = <<>> /\ hand = None
                 /\ opened' = opened \ {b}
                 /\ UNCHANGED closed
    BY <1>10 DEF CloseBackend
  <2>3. b = "writer" => "auditor" \notin opened
    BY <2>2 DEF NextReleased, Order, Backends
  <2> QED
    BY <2>1, <2>2, <2>3, <1>t DEF Released, Backends
<1>11. CASE Exit
  BY <1>11 DEF Exit, Released, bufferVars
<1>12. CASE Start
  BY <1>12 DEF Start, Released, Backends
<1> QED
  BY <1>1, <1>2, <1>3, <1>6, <1>7, <1>8, <1>9, <1>10, <1>11, <1>12, NextCases

\* The drain releases only when no handler is left, or out of time.
LEMMA QuietStep ==
    ASSUME TypeOK, Once, Quiet, [Next]_vars
    PROVE  Quiet'
<1>t. step \in [Pushes -> {"new", "gate", "record", "alias", "done"}]
  BY DEF TypeOK
<1> SUFFICES ASSUME phase' = "releasing", ~expired', NEW p \in Pushes, step'[p] \notin {"new", "done"}
             PROVE  FALSE
  BY DEF Quiet, InFlight
<1>1. CASE phase = "releasing" /\ ~expired
  <2>1. step[p] \in {"new", "done"}
    BY <1>1 DEF Quiet, InFlight
  <2>2. step'[p] # step[p]
    BY <2>1
  <2>3. ASSUME NEW q \in Pushes,
               Begin(q) \/ Decide(q) \/ Claim(q) \/ Published(q) \/ HandlerRecords(q)
               \/ HandlerAliases(q) \/ HandlerEnds(q) \/ WorkerRecords(q)
        PROVE  FALSE
    BY <1>1, <2>1, <2>2, <2>3, <1>t DEF Begin, Decide, Claim, Published, HandlerRecords,
       HandlerAliases, HandlerEnds, WorkerRecords, Goto
  <2>4. CASE UNCHANGED step
    BY <2>2, <2>4
  <2> QED
    BY <1>1, <2>3, <2>4, NextCases DEF vars, handlerVars, lifeUnchanged, auditorUnchanged, Take,
       WriteOK, WriteFails, WriteUnanswered, Again, Outage, Recovery, StopServing, Drained,
       DrainExpires, Release, CloseBackend, Exit, Crash, Start
<1>2. CASE phase # "releasing" \/ expired
  <2>1. Drained \/ DrainExpires
    BY <1>2, PhaseCases DEF Dies, Panics, Die, Start, StopServing, CloseBackend, Exit
  <2>2. Drained
    BY <2>1 DEF DrainExpires, Release
  <2> QED
    BY <2>2 DEF Drained, Release, InFlight, lifeUnchanged, handlerVars
<1> QED
  BY <1>1, <1>2

\* A handler meets the closed queue only if the drain did not wait for it.
LEMMA DrainStep ==
    ASSUME TypeOK, Once, Released, Quiet, DrainProtectsHandlers, [Next]_vars
    PROVE  DrainProtectsHandlers'
<1> SUFFICES ASSUME panic' = "handler" PROVE expired'
  BY DEF DrainProtectsHandlers
<1>1. CASE Panics("handler") /\ InFlight /\ Alive
  <2>1. closed /\ expired' = expired
    BY <1>1 DEF Panics, recordUnchanged
  <2>2. phase = "releasing"
    BY <1>1, <2>1 DEF Released, Alive
  <2> QED
    BY <1>1, <2>1, <2>2 DEF Quiet
<1>2. CASE panic' = panic /\ expired' = expired
  BY <1>2 DEF DrainProtectsHandlers
<1>3. ASSUME Drained \/ DrainExpires \/ StopServing \/ CloseBackend \/ Exit
      PROVE  panic' = panic /\ phase # "dead"
  BY <1>3 DEF Drained, DrainExpires, StopServing, CloseBackend, Exit, Release
<1>4. ~(Drained \/ DrainExpires \/ StopServing \/ CloseBackend \/ Exit)
  BY <1>3 DEF Released
<1> QED
  BY <1>1, <1>2, <1>4, PhaseCases DEF Dies, Panics, Start

LEMMA OutagesStep ==
    ASSUME TypeOK, Outages, [Next]_vars
    PROVE  Outages'
<1>t. faults \in 0..MaxFaults /\ MaxFaults \in Nat
  BY Constants DEF TypeOK
<1>1. CASE UNCHANGED <<down, faults>>
  BY <1>1 DEF Outages
<1>2. CASE Outage \/ WriteUnanswered \/ Recovery
  <2>1. CASE Recovery
    BY <2>1 DEF Recovery, Outages
  <2>2. CASE Outage \/ WriteUnanswered
    <3>1. faults' = faults + 1
      BY <2>2 DEF Outage, WriteUnanswered
    <3> QED
      BY <3>1, <1>t DEF Outages
  <2> QED
    BY <1>2, <2>1, <2>2
<1>3. ASSUME NEW p \in Pushes,
             Begin(p) \/ Decide(p) \/ Claim(p) \/ Published(p) \/ HandlerRecords(p)
             \/ HandlerAliases(p) \/ HandlerEnds(p) \/ WorkerRecords(p)
      PROVE  UNCHANGED <<down, faults>>
  BY <1>3 DEF Begin, Decide, Claim, Published, HandlerRecords, HandlerAliases, HandlerEnds,
     WorkerRecords, Enqueue, Panics, recordUnchanged, boundVars
<1> QED
  BY <1>1, <1>2, <1>3, NextCases DEF vars, boundVars, lifeUnchanged, auditorUnchanged, Take,
     WriteOK, WriteFails, Again, StopServing, Drained, DrainExpires, Release, CloseBackend,
     Exit, Crash, Start

-----------------------------------------------------------------------------
(***************************************************************************)
(* The records.                                                             *)
(***************************************************************************)
LEMMA UnderWayStep ==
    ASSUME TypeOK, Once, UnderWay, [Next]_vars
    PROVE  UnderWay'
<1>1. CASE Keeps
  BY <1>1 DEF Keeps, UnderWay, tableVars
<1>2. ASSUME NEW j \in Jobs, Enqueue(j)
      PROVE  UnderWay'
  BY <1>2 DEF Enqueue, recordUnchanged, UnderWay, tableVars
<1>3. CASE Dies \/ Start
  BY <1>3 DEF Dies, Start, UnderWay
<1>4. CASE Take
  BY <1>4, TakeFacts DEF UnderWay
<1>5. CASE WriteOK
  <2>1. CASE hand' = None
    BY <2>1 DEF UnderWay
  <2>2. CASE hand' # None
    <3>1. /\ hand # None /\ Land /\ hand'.job = hand.job /\ hand'.left = <<"findings">>
          /\ hand.left = <<"row", "findings">>
      BY <1>5, <2>2, WriteOKFacts
    <3>2. HasFindings(hand.job)
      BY <3>1, LeftFacts DEF UnderWay
    <3>3. hand.job \in ToSet(decisions')
      BY <3>1, <3>2, LandFacts, LeftFacts DEF HasFindings
    <3> QED
      BY <3>1, <3>2, <3>3, LeftFacts DEF UnderWay
  <2> QED
    BY <2>1, <2>2
<1>6. CASE WriteFails \/ WriteUnanswered
  <2>1. hand # None /\ Again /\ (Land \/ UNCHANGED tableVars)
    BY <1>6 DEF WriteFails, WriteUnanswered
  <2>2. ToSet(decisions) \subseteq ToSet(decisions')
    BY <2>1, LandFacts DEF tableVars
  <2>3. hand' = None \/ (hand'.job = hand.job /\ hand'.left = hand.left)
    BY <2>1, AgainFacts
  <2> QED
    BY <2>1, <2>2, <2>3 DEF UnderWay
<1> QED
  BY <1>1, <1>2, <1>3, <1>4, <1>5, <1>6, BufferCases

\* A record of a decision is a new one; so is what the handlers and the worker
\* know of it.
LEMMA OnceStep ==
    ASSUME TypeOK, Once, [Next]_vars
    PROVE  Once'
<1>t. /\ step \in [Pushes -> {"new", "gate", "record", "alias", "done"}]
      /\ verdict \in [Pushes -> {"none", "passed", "rejected"}]
      /\ promotion \in [Pushes -> {"none", "pending", "working", "published", "abandoned"}]
      /\ sent \in Seq(Jobs)
  BY DEF TypeOK
<1>d. \A p, q, v, w : Decision(p, v) = Decision(q, w) => p = q /\ v = w
  BY JobFields
<1>a. \A p, q, v, d : Decision(p, v) # TagAlias(q, d)
  BY JobFields
<1>1. ASSUME UNCHANGED <<step, verdict, promotion, sent>>
      PROVE  Once'
  BY <1>1 DEF Once
<1>2. ASSUME NEW p \in Pushes, Begin(p) \/ Decide(p) \/ Claim(p) \/ Published(p)
      PROVE  Once'
  <2>1. UNCHANGED sent
    BY <1>2 DEF Begin, Decide, Claim, Published
  <2>2. CASE Begin(p)
    BY <2>1, <2>2, <1>t DEF Begin, Goto, Once
  <2>3. CASE Decide(p)
    BY <2>1, <2>3, <1>t DEF Decide, Goto, Once
  <2>4. CASE Claim(p) \/ Published(p)
    BY <2>1, <2>4, <1>t DEF Claim, Published, Once
  <2> QED
    BY <1>2, <2>2, <2>3, <2>4
<1>u. ASSUME NEW j \in Jobs, Enqueue(j), j.kind = "alias" \/ j \notin ToSet(sent)
      PROVE  /\ \A i, k \in DOMAIN sent' : i # k /\ sent'[i] = sent'[k] => sent'[i].kind = "alias"
             /\ ToSet(sent') = ToSet(sent) \cup {j}
  <2>1. sent' = Append(sent, j)
    BY <1>u DEF Enqueue
  <2>2. /\ DOMAIN sent' = DOMAIN sent \cup {Len(sent) + 1}
        /\ \A i \in DOMAIN sent : sent'[i] = sent[i] /\ sent[i] \in ToSet(sent)
        /\ sent'[Len(sent) + 1] = j
        /\ ToSet(sent') = ToSet(sent) \cup {j}
    BY <2>1, <1>t, AppendFacts DEF ToSet
  <2> QED
    BY <2>2, <1>u DEF Once
<1>3. ASSUME NEW p \in Pushes, HandlerRecords(p)
      PROVE  Once'
  <2>1. CASE Panics("handler")
    BY <1>3, <2>1, <1>t DEF Panics, HandlerRecords, Once
  <2>2. CASE Enqueue(Decision(p, verdict[p]))
    <3>1. /\ Decision(p, verdict[p]) \in Jobs /\ verdict[p] \in {"passed", "rejected"}
          /\ Decision(p, verdict[p]) \notin ToSet(sent)
      BY <1>3, RecordedJobs DEF HandlerRecords, Once
    <3>2. /\ \A i, k \in DOMAIN sent' : i # k /\ sent'[i] = sent'[k] => sent'[i].kind = "alias"
          /\ ToSet(sent') = ToSet(sent) \cup {Decision(p, verdict[p])}
      BY <2>2, <3>1, <1>u
    <3> QED
      BY <1>3, <3>1, <3>2, <1>t, <1>d DEF HandlerRecords, Once
  <2> QED
    BY <1>3, <2>1, <2>2 DEF HandlerRecords
<1>4. ASSUME NEW p \in Pushes, HandlerAliases(p)
      PROVE  Once'
  <2>1. CASE Panics("handler")
    BY <1>4, <2>1, <1>1 DEF Panics, HandlerAliases
  <2>2. ASSUME NEW d \in Digests, Enqueue(TagAlias(p, d))
        PROVE  Once'
    <3>1. TagAlias(p, d) \in Jobs /\ TagAlias(p, d).kind = "alias"
      BY JobTypes, JobFields
    <3>2. /\ \A i, k \in DOMAIN sent' : i # k /\ sent'[i] = sent'[k] => sent'[i].kind = "alias"
          /\ ToSet(sent') = ToSet(sent) \cup {TagAlias(p, d)}
      BY <2>2, <3>1, <1>u
    <3> QED
      BY <1>4, <3>2, <1>t, <1>a DEF HandlerAliases, Once
  <2> QED
    BY <1>4, <2>1, <2>2 DEF HandlerAliases
<1>5. ASSUME NEW p \in Pushes, HandlerEnds(p)
      PROVE  Once'
  BY <1>5, <1>t DEF HandlerEnds, Once
<1>6. ASSUME NEW p \in Pushes, WorkerRecords(p)
      PROVE  Once'
  <2>1. CASE Panics("worker") /\ UNCHANGED promotion
    BY <1>6, <2>1, <1>1 DEF Panics, WorkerRecords
  <2>2. CASE Enqueue(Decision(p, "abandoned")) /\ promotion' = [promotion EXCEPT ![p] = "abandoned"]
    <3>1. Decision(p, "abandoned") \in Jobs /\ Decision(p, "abandoned") \notin ToSet(sent)
      BY <1>6, RecordedJobs DEF WorkerRecords, Once
    <3>2. /\ \A i, k \in DOMAIN sent' : i # k /\ sent'[i] = sent'[k] => sent'[i].kind = "alias"
          /\ ToSet(sent') = ToSet(sent) \cup {Decision(p, "abandoned")}
      BY <2>2, <3>1, <1>u
    <3> QED
      BY <1>6, <2>2, <3>2, <1>t, <1>d DEF WorkerRecords, Once
  <2> QED
    BY <1>6, <2>1, <2>2 DEF WorkerRecords
<1>7. CASE Start
  BY <1>7, <1>t DEF Start, Once
<1>8. ASSUME Take \/ WriteOK \/ WriteFails \/ WriteUnanswered
      PROVE  UNCHANGED <<step, verdict, promotion, sent>>
  BY <1>8 DEF Take, WriteOK, WriteFails, WriteUnanswered, Again, auditorUnchanged, handlerVars
<1>9. ASSUME Outage \/ Recovery \/ StopServing \/ Drained \/ DrainExpires \/ CloseBackend \/ Exit
             \/ Crash \/ UNCHANGED vars
      PROVE  UNCHANGED <<step, verdict, promotion, sent>>
  BY <1>9 DEF Outage, Recovery, StopServing, Drained, DrainExpires, Release, CloseBackend, Exit,
     Crash, lifeUnchanged, vars, handlerVars
<1> QED
  BY <1>1, <1>2, <1>3, <1>4, <1>5, <1>6, <1>7, <1>8, <1>9, NextCases

LEMMA BeforeGrows ==
    ASSUME sent \in Seq(Jobs), NEW j \in Jobs, sent' = Append(sent, j)
    PROVE  /\ \A a, b : Before(a, b) => Before(a, b)'
           /\ \A a \in ToSet(sent) : Before(a, j)'
<1>1. /\ DOMAIN sent' = DOMAIN sent \cup {Len(sent) + 1}
      /\ \A i \in DOMAIN sent : sent'[i] = sent[i] /\ i < Len(sent) + 1
      /\ sent'[Len(sent) + 1] = j
  BY AppendFacts
<1>2. ASSUME NEW a, NEW b, Before(a, b) PROVE Before(a, b)'
  BY <1>1, <1>2 DEF Before
<1>3. ASSUME NEW a \in ToSet(sent) PROVE Before(a, j)'
  BY <1>1 DEF Before, ToSet
<1> QED
  BY <1>2, <1>3

LEMMA OrderedStep ==
    ASSUME TypeOK, Once, Ordered, [Next]_vars
    PROVE  Ordered'
<1>t. sent \in Seq(Jobs) /\ queue \in Seq(Jobs) /\ decisions \in Seq(Kinds("decision"))
  BY DEF TypeOK, Kinds
<1>1. CASE UNCHANGED <<sent, queue, hand, decisions>>
  BY <1>1 DEF Ordered, Before, InHand
<1>2. ASSUME NEW j \in Jobs, Enqueue(j)
      PROVE  Ordered'
  <2>1. sent' = Append(sent, j) /\ UNCHANGED <<hand, decisions>> /\ InHand' = InHand
    BY <1>2 DEF Enqueue, recordUnchanged, tableVars, InHand
  <2>2. /\ \A a, b : Before(a, b) => Before(a, b)'
        /\ \A a \in ToSet(sent) : Before(a, j)'
    BY <2>1, <1>t, BeforeGrows
  <2>3. ToSet(sent') = ToSet(sent) \cup {j}
    BY <1>2, EnqueueFacts
  <2>4. CASE queue' = queue
    BY <2>1, <2>2, <2>3, <2>4 DEF Ordered
  <2>5. CASE queue' = Append(queue, j)
    <3>1. /\ DOMAIN queue' = DOMAIN queue \cup {Len(queue) + 1}
          /\ \A i \in DOMAIN queue : queue'[i] = queue[i] /\ queue[i] \in ToSet(queue)
          /\ DOMAIN queue = 1..Len(queue) /\ Len(queue) \in Nat
          /\ queue'[Len(queue) + 1] = j
          /\ ToSet(queue') = ToSet(queue) \cup {j}
      BY <2>5, <1>t, AppendFacts DEF ToSet
    <3>2. ASSUME NEW i \in DOMAIN queue', NEW k \in DOMAIN queue', i < k
          PROVE  Before(queue[i], queue[k])'
      <4>1. i \in DOMAIN queue
        BY <3>1, <3>2
      <4>2. CASE k \in DOMAIN queue
        BY <4>1, <4>2, <3>1, <3>2, <2>2 DEF Ordered
      <4>3. CASE k = Len(queue) + 1
        BY <4>1, <4>3, <3>1, <2>2 DEF Ordered
      <4> QED
        BY <4>2, <4>3, <3>1
    <3>3. \A a \in ToSet(decisions') \cup InHand', b \in ToSet(queue') : Before(a, b)'
      BY <2>1, <2>2, <3>1 DEF Ordered
    <3>4. /\ \A i, k \in DOMAIN decisions' :
                i < k => decisions'[i] = decisions'[k] \/ Before(decisions[i], decisions[k])'
          /\ \A a \in ToSet(decisions'), b \in InHand' : a = b \/ Before(a, b)'
      BY <2>1, <2>2 DEF Ordered
    <3>5. ToSet(decisions') \cup ToSet(queue') \cup InHand' \subseteq ToSet(sent')
      BY <2>1, <2>3, <3>1 DEF Ordered
    <3> QED
      BY <3>2, <3>3, <3>4, <3>5 DEF Ordered
  <2> QED
    BY <1>2, <2>4, <2>5, EnqueueFacts
<1>3. CASE Dies \/ Start
  <2>1. queue' = <<>> /\ InHand' = {} /\ UNCHANGED <<sent, decisions>>
    BY <1>3 DEF Dies, Start, InHand, tableVars
  <2> QED
    BY <2>1, EmptyFacts DEF Ordered, Before
<1>4. CASE Take
  <2>1. /\ UNCHANGED <<sent, decisions>> /\ queue # <<>> /\ queue' = Tail(queue)
        /\ InHand = {} /\ InHand' = {Head(queue)}
    <3>1. hand' # None
      BY <1>4, TakeFacts, Constants
    <3> QED
      BY <1>4, <3>1, TakeFacts DEF Take, auditorUnchanged, tableVars, InHand
  <2>2. /\ Head(queue) = queue[1] /\ 1 \in DOMAIN queue
        /\ \A i \in DOMAIN queue' : i + 1 \in DOMAIN queue /\ queue'[i] = queue[i + 1] /\ i \in Nat \ {0}
        /\ ToSet(queue) = {Head(queue)} \cup ToSet(queue')
    BY <2>1, <1>t, TailFacts
  <2>3. ASSUME NEW a, NEW b
        PROVE  Before(a, b)' <=> Before(a, b)
    BY <2>1 DEF Before
  <2>4. \A i, k \in DOMAIN queue' : i < k => Before(queue'[i], queue'[k])
    BY <2>2 DEF Ordered
  <2>5. \A b \in ToSet(queue') : Before(Head(queue), b)
    <3> SUFFICES ASSUME NEW i \in DOMAIN queue' PROVE Before(Head(queue), queue'[i])
      BY DEF ToSet
    <3> QED
      BY <2>2 DEF Ordered
  <2>6. \A a \in ToSet(decisions), b \in ToSet(queue) : Before(a, b)
    BY DEF Ordered
  <2>7. /\ ToSet(decisions') \cup ToSet(queue') \cup InHand' \subseteq ToSet(sent')
        /\ \A i, k \in DOMAIN decisions' :
              i < k => decisions'[i] = decisions'[k] \/ Before(decisions'[i], decisions'[k])
    BY <2>1, <2>2 DEF Ordered
  <2> QED
    BY <2>1, <2>2, <2>3, <2>4, <2>5, <2>6, <2>7 DEF Ordered
<1>5. ASSUME hand # None, UNCHANGED <<sent, queue>>, InHand' \subseteq InHand,
             \/ decisions' = decisions
             \/ /\ decisions' = Append(decisions, hand.job)
                /\ hand.job \in Kinds("decision")
      PROVE  Ordered'
  <2>1. InHand = {hand.job}
    BY <1>5, HandFacts
  <2>2. ASSUME NEW a, NEW b
        PROVE  Before(a, b)' <=> Before(a, b)
    BY <1>5 DEF Before
  <2>3. CASE decisions' = decisions
    BY <1>5, <2>2, <2>3 DEF Ordered
  <2>4. CASE decisions' = Append(decisions, hand.job) /\ hand.job \in Kinds("decision")
    <3>1. /\ DOMAIN decisions' = DOMAIN decisions \cup {Len(decisions) + 1}
          /\ \A i \in DOMAIN decisions : decisions'[i] = decisions[i] /\ decisions[i] \in ToSet(decisions)
          /\ DOMAIN decisions = 1..Len(decisions) /\ Len(decisions) \in Nat
          /\ decisions'[Len(decisions) + 1] = hand.job
          /\ ToSet(decisions') = ToSet(decisions) \cup {hand.job}
      BY <2>4, <1>t, AppendFacts DEF ToSet
    <3>2. ASSUME NEW i \in DOMAIN decisions', NEW k \in DOMAIN decisions', i < k
          PROVE  decisions'[i] = decisions'[k] \/ Before(decisions'[i], decisions'[k])
      <4>1. i \in DOMAIN decisions
        BY <3>1, <3>2
      <4>2. CASE k \in DOMAIN decisions
        BY <4>1, <4>2, <3>1, <3>2 DEF Ordered
      <4>3. CASE k = Len(decisions) + 1
        BY <4>1, <4>3, <3>1, <2>1 DEF Ordered
      <4> QED
        BY <4>2, <4>3, <3>1
    <3>3. \A a \in ToSet(decisions'), b \in InHand' : a = b \/ Before(a, b)
      BY <1>5, <2>1, <3>1 DEF Ordered
    <3>4. \A a \in ToSet(decisions') \cup InHand', b \in ToSet(queue') : Before(a, b)
      BY <1>5, <2>1, <3>1 DEF Ordered
    <3>5. /\ \A i, k \in DOMAIN queue' : i < k => Before(queue'[i], queue'[k])
          /\ ToSet(decisions') \cup ToSet(queue') \cup InHand' \subseteq ToSet(sent')
      BY <1>5, <2>1, <3>1 DEF Ordered
    <3> QED
      BY <2>2, <3>2, <3>3, <3>4, <3>5 DEF Ordered
  <2> QED
    BY <1>5, <2>3, <2>4
<1>6. CASE WriteOK
  <2>1. InHand' \subseteq InHand
    BY <1>6, WriteOKFacts, HandFacts DEF InHand
  <2> QED
    BY <1>6, <2>1, <1>5, WriteOKFacts, LandFacts DEF auditorUnchanged
<1>7. CASE WriteFails \/ WriteUnanswered
  <2>1. hand # None /\ Again /\ (Land \/ UNCHANGED tableVars)
    BY <1>7 DEF WriteFails, WriteUnanswered
  <2>2. InHand' \subseteq InHand /\ UNCHANGED <<sent, queue>>
    BY <2>1, AgainFacts, HandFacts DEF InHand, auditorUnchanged
  <2> QED
    BY <2>1, <2>2, <1>5, LandFacts DEF tableVars
<1> QED
  BY <1>1, <1>2, <1>3, <1>4, <1>6, <1>7, BufferCases DEF Keeps, tableVars

\* Where a record may be, whatever the phase.
Stored(j) ==
    /\ j \in ToSet(decisions) \cup ToSet(aliases)
    /\ HasFindings(j) => j.push \in findings

Accounted(j) ==
    \/ Stored(j)
    \/ j \in ToSet(queue) \cup InHand \cup {r.job : r \in reported} \cup silent \cup forgotten

\* A process that exits has nothing in memory.
LEMMA AccountedIs ==
    /\ Released => (RecordedOrReported <=> \A j \in ToSet(sent) : Accounted(j))
    /\ Released' => (RecordedOrReported' <=> \A j \in ToSet(sent') : Accounted(j)')
<1>1. ASSUME Released PROVE RecordedOrReported <=> \A j \in ToSet(sent) : Accounted(j)
  <2>1. phase = "exited" => ToSet(queue) = {} /\ InHand = {}
    BY <1>1, EmptyFacts DEF Released, InHand
  <2>2. InMemory = ToSet(queue) \cup InHand
    BY <2>1 DEF InMemory
  <2> QED
    BY <2>2 DEF RecordedOrReported, Accounted, Stored
<1>2. ASSUME Released' PROVE RecordedOrReported' <=> \A j \in ToSet(sent') : Accounted(j)'
  <2>1. phase' = "exited" => ToSet(queue') = {} /\ InHand' = {}
    BY <1>2, EmptyFacts DEF Released, InHand
  <2>2. InMemory' = ToSet(queue') \cup InHand'
    BY <2>1 DEF InMemory
  <2> QED
    BY <2>2 DEF RecordedOrReported, Accounted, Stored
<1> QED
  BY <1>1, <1>2

LEMMA RecordedStep ==
    ASSUME TypeOK, Once, Released, Released', UnderWay, RecordedOrReported, [Next]_vars
    PROVE  RecordedOrReported'
<1> SUFFICES \A j \in ToSet(sent') : Accounted(j)'
  BY AccountedIs
<1>0. \A j \in ToSet(sent) : Accounted(j)
  BY AccountedIs
<1>1. CASE Keeps
  BY <1>0, <1>1 DEF Keeps, Accounted, Stored, InHand, tableVars, lossVars
<1>2. ASSUME NEW j \in Jobs, Enqueue(j)
      PROVE  \A i \in ToSet(sent') : Accounted(i)'
  <2>1. ToSet(sent') = ToSet(sent) \cup {j}
    BY <1>2, EnqueueFacts
  <2>2. /\ UNCHANGED <<hand, tableVars, silent, forgotten>> /\ InHand' = InHand
    BY <1>2 DEF Enqueue, recordUnchanged, InHand
  <2>3. /\ reported \subseteq reported' /\ ToSet(queue) \subseteq ToSet(queue')
        /\ j \in ToSet(queue') \/ [job |-> j, err |-> "full"] \in reported'
    BY <1>2, EnqueueFacts
  <2>4. Accounted(j)'
    BY <2>3 DEF Accounted
  <2>5. ASSUME NEW i \in ToSet(sent) PROVE Accounted(i)'
    BY <1>0, <2>2, <2>3 DEF Accounted, Stored, tableVars
  <2> QED
    BY <2>1, <2>4, <2>5
<1>3. CASE Dies
  BY <1>0, <1>3 DEF Dies, Accounted, Stored, tableVars
<1>4. CASE Start
  <2>1. ToSet(queue) = {} /\ InHand = {}
    BY <1>4, EmptyFacts DEF Start, Released, InHand
  <2> QED
    BY <1>0, <1>4, <2>1 DEF Start, Accounted, Stored, tableVars, lossVars
<1>5. CASE Take
  <2>1. ToSet(queue) = InHand' \cup ToSet(queue') /\ InHand = {}
    BY <1>5, TakeFacts, Constants DEF InHand
  <2>2. UNCHANGED <<sent, tableVars, lossVars>>
    BY <1>5 DEF Take, auditorUnchanged
  <2> QED
    BY <1>0, <2>1, <2>2 DEF Accounted, Stored, tableVars, lossVars
<1>6. CASE WriteOK
  <2>1. /\ hand # None /\ Land /\ UNCHANGED <<sent, queue, lossVars>> /\ InHand = {hand.job}
    BY <1>6, WriteOKFacts, HandFacts DEF auditorUnchanged
  <2>w. PICK w : w = hand.job
    OBVIOUS
  <2>2. ASSUME NEW i, Stored(i)
        PROVE  Stored(i)'
    BY <2>1, <2>2, LandFacts DEF Stored
  <2>3. Accounted(w)'
    <3>1. CASE hand' = None
      <4>1. CASE hand.left = <<"row">>
        BY <2>w, <2>1, <4>1, LandFacts, LeftFacts DEF UnderWay, Stored, Accounted
      <4>2. CASE hand.left = <<"findings">>
        <5>1. w \in ToSet(decisions') /\ w.push \in findings'
          BY <2>w, <2>1, <4>2, LandFacts DEF UnderWay
        <5> QED
          BY <5>1 DEF Stored, Accounted
      <4> QED
        BY <1>6, <3>1, <4>1, <4>2, WriteOKFacts, Constants
    <3>2. CASE hand' # None
      <4>1. InHand' = {w}
        BY <2>w, <1>6, <3>2, WriteOKFacts DEF InHand
      <4> QED
        BY <4>1 DEF Accounted
    <3> QED
      BY <3>1, <3>2
  <2>4. ASSUME NEW i \in ToSet(sent), i # w
        PROVE  Accounted(i)'
    BY <2>w, <1>0, <2>1, <2>2, <2>4 DEF Accounted, lossVars
  <2> QED
    BY <2>1, <2>3, <2>4
<1>7. CASE WriteFails \/ WriteUnanswered
  <2>1. hand # None /\ Again /\ (Land \/ UNCHANGED tableVars) /\ InHand = {hand.job}
    BY <1>7, HandFacts DEF WriteFails, WriteUnanswered
  <2>2. UNCHANGED <<sent, queue, forgotten>> /\ reported \subseteq reported' /\ silent \subseteq silent'
    BY <2>1, AgainFacts DEF auditorUnchanged
  <2>w. PICK w : w = hand.job
    OBVIOUS
  <2>3. ASSUME NEW i, Stored(i)
        PROVE  Stored(i)'
    BY <2>1, <2>3, LandFacts DEF Stored, tableVars
  <2>4. Accounted(w)'
    <3>1. CASE hand' # None
      <4>1. InHand' = {w}
        BY <2>w, <2>1, <3>1, AgainFacts DEF InHand
      <4> QED
        BY <4>1 DEF Accounted
    <3>2. CASE hand' = None
      <4>1. [job |-> w, err |-> "write"] \in reported' \/ w \in silent'
        BY <2>w, <2>1, <3>2, AgainFacts, Constants
      <4> QED
        BY <4>1 DEF Accounted
    <3> QED
      BY <3>1, <3>2
  <2>5. ASSUME NEW i \in ToSet(sent), i # w
        PROVE  Accounted(i)'
    BY <2>w, <1>0, <2>1, <2>2, <2>3, <2>5 DEF Accounted
  <2> QED
    BY <2>2, <2>4, <2>5
<1> QED
  BY <1>1, <1>2, <1>3, <1>4, <1>5, <1>6, <1>7, BufferCases

\* While ClickHouse is up, the writer outlives what has to be written.
LEMMA ShutdownStep ==
    ASSUME TypeOK, Once, Released, Outages, ShutdownDropsNothing, [Next]_vars
    PROVE  ShutdownDropsNothing'
<1>t. faults \in Nat
  BY Constants DEF TypeOK
<1> SUFFICES ASSUME faults' = 0
             PROVE  silent' = {} /\ \A r \in reported' : r.err = "full"
  BY DEF ShutdownDropsNothing
<1>f. faults = 0 /\ ~WriteUnanswered
  <2>1. \/ faults' = faults \/ faults' = faults + 1
    BY NextCases DEF vars, boundVars, lifeUnchanged, auditorUnchanged, recordUnchanged, Begin, Decide,
       Claim, Published, HandlerRecords, HandlerAliases, HandlerEnds, WorkerRecords, Enqueue, Panics,
       Take, WriteOK, WriteFails, WriteUnanswered, Outage, Recovery, StopServing, Drained,
       DrainExpires, Release, CloseBackend, Exit, Crash, Start
  <2> QED
    BY <2>1, <1>t DEF WriteUnanswered
<1>g. silent = {} /\ \A r \in reported : r.err = "full"
  BY <1>f DEF ShutdownDropsNothing
<1>1. CASE UNCHANGED <<silent, reported>>
  BY <1>1, <1>g
<1>2. ASSUME NEW j \in Jobs, Enqueue(j)
      PROVE  silent' = {} /\ \A r \in reported' : r.err = "full"
  BY <1>2, <1>g DEF Enqueue, recordUnchanged
<1>3. ~WriteFails
  <2> SUFFICES ASSUME WriteFails PROVE FALSE
    OBVIOUS
  <2>1. hand # None /\ (down \/ "writer" \notin opened)
    BY DEF WriteFails, Answers
  <2> QED
    BY <2>1, <1>f, <1>t DEF Released, Outages
<1> QED
  BY <1>1, <1>2, <1>3, <1>f, BufferCases DEF Keeps, lossVars, Dies, Start, Take, WriteOK

-----------------------------------------------------------------------------
\* The newest row of a push that is there is its last record that is there.
LEMMA LastWord ==
    ASSUME TypeOK, Once, Ordered
    PROVE  LastWordStands
<1>t. decisions \in Seq(Kinds("decision")) /\ sent \in Seq(Jobs)
  BY DEF TypeOK, Kinds
<1> SUFFICES ASSUME NEW p \in Pushes
             PROVE  HeaderByPush(p) = Newest(sent, LAMBDA j : j.push = p /\ j \in ToSet(decisions))
  BY DEF LastWordStands
<1> DEFINE I == {i \in 1..Len(decisions) : decisions[i].push = p}
           K == {k \in 1..Len(sent) : sent[k].push = p /\ sent[k] \in ToSet(decisions)}
           m == IF I # {} THEN Max(I) ELSE 0
           n == IF K # {} THEN Max(K) ELSE 0
<1>1. /\ HeaderByPush(p) = IF m = 0 THEN None ELSE decisions[m]
      /\ Newest(sent, LAMBDA j : j.push = p /\ j \in ToSet(decisions))
            = IF n = 0 THEN None ELSE sent[n]
  BY DEF HeaderByPush, Newest, SelectLastInSeq
<1>2. /\ DOMAIN decisions = 1..Len(decisions) /\ DOMAIN sent = 1..Len(sent)
      /\ Len(decisions) \in Nat /\ Len(sent) \in Nat
      /\ ToSet(decisions) \subseteq ToSet(sent)
  BY <1>t DEF Ordered
<1>3. \A i \in I : \E k \in K : sent[k] = decisions[i]
  BY <1>2 DEF ToSet
<1>4. \A k \in K : \E i \in I : decisions[i] = sent[k]
  BY <1>2 DEF ToSet
<1>5. CASE I = {}
  <2>1. K = {}
    BY <1>4, <1>5
  <2>2. m = 0 /\ n = 0
    BY <2>1, <1>5
  <2> QED
    BY <1>1, <2>2
<1>6. CASE I # {}
  <2>1. K # {}
    BY <1>3, <1>6
  <2>2. I \subseteq 0..Len(decisions) /\ K \subseteq 0..Len(sent)
    BY <1>2
  <2> HIDE DEF I, K
  <2>3. m \in I /\ (\A y \in I : m >= y) /\ n \in K /\ (\A y \in K : n >= y)
    BY <1>2, <1>6, <2>1, <2>2, Greatest
  <2> USE DEF I, K
  <2> HIDE DEF m, n
  <2>4. m \in 1..Len(decisions) /\ n \in 1..Len(sent) /\ m # 0 /\ n # 0
    BY <2>3, <1>2
  <2>5. PICK i \in I : decisions[i] = sent[n]
    BY <1>4, <2>3
  <2>6. i \in DOMAIN decisions /\ m \in DOMAIN decisions /\ i <= m
    BY <1>2, <2>3
  <2>7. decisions[m] = sent[n]
    <3> SUFFICES ASSUME decisions[m] # sent[n] PROVE FALSE
      OBVIOUS
    <3>1. i < m
      BY <2>5, <2>6, <1>2
    <3>2. Before(decisions[i], decisions[m])
      BY <2>5, <2>6, <3>1 DEF Ordered
    <3>3. PICK x \in DOMAIN sent, y \in DOMAIN sent : x < y /\ sent[x] = sent[n] /\ sent[y] = decisions[m]
      BY <3>2, <2>5 DEF Before
    <3>4. sent[n].kind = "decision" /\ decisions[m] \in ToSet(decisions) /\ decisions[m].push = p
      BY <2>3, <2>5, <2>6, <1>t DEF Kinds, ToSet
    <3>5. x = n
      BY <3>3, <3>4, <2>4, <1>2 DEF Once
    <3>6. y \in K
      BY <3>3, <3>4, <1>2
    <3> QED
      BY <3>3, <3>5, <3>6, <2>3, <2>4, <1>2
  <2> QED
    BY <1>1, <2>4, <2>7
<1> QED
  BY <1>5, <1>6

LEMMA InitInv ==
    ASSUME Init
    PROVE  Inv
<1>1. TypeOK
  <2>b. cancelled \in BOOLEAN /\ expired \in BOOLEAN /\ closed \in BOOLEAN /\ down \in BOOLEAN
    BY DEF Init
  <2>0. signals \in 0..MaxSignals /\ faults \in 0..MaxFaults
    BY Constants DEF Init
  <2>1. TProcess /\ THandlers
    BY <2>b, <2>0 DEF Init, TProcess, THandlers
  <2>2. TBuffer /\ TTables /\ TLosses
    BY Constants, EmptyFacts DEF Init, TBuffer, TTables, TLosses
  <2> QED
    BY <2>1, <2>2, TypeParts
<1>2. Released /\ Quiet /\ UnderWay /\ Outages
  BY DEF Init, Released, Quiet, UnderWay, Outages, Backends
<1>3. Once /\ Ordered
  BY EmptyFacts DEF Init, Once, Ordered, InHand
<1>4. RecordedOrReported /\ ShutdownDropsNothing /\ DrainProtectsHandlers
  BY EmptyFacts DEF Init, RecordedOrReported, ShutdownDropsNothing, DrainProtectsHandlers
<1> QED
  BY <1>1, <1>2, <1>3, <1>4 DEF Inv

-----------------------------------------------------------------------------
\* The strengthened invariant holds in every reachable state of the process.
THEOREM Invariance == Spec => []Inv
<1>1. Inv /\ [Next]_vars => Inv'
  <2> SUFFICES ASSUME Inv, [Next]_vars PROVE Inv'
    OBVIOUS
  <2>1. /\ TypeOK /\ Released /\ Quiet /\ UnderWay /\ Outages /\ Once /\ Ordered
        /\ RecordedOrReported /\ ShutdownDropsNothing /\ DrainProtectsHandlers
    BY DEF Inv
  <2>2. TypeOK' /\ Released' /\ Quiet' /\ UnderWay' /\ Outages' /\ Once' /\ Ordered'
    BY <2>1, TypeStep, ReleasedStep, QuietStep, UnderWayStep, OutagesStep, OnceStep, OrderedStep
  <2>3. RecordedOrReported' /\ ShutdownDropsNothing' /\ DrainProtectsHandlers'
    BY <2>1, <2>2, RecordedStep, ShutdownStep, DrainStep
  <2> QED
    BY <2>2, <2>3 DEF Inv
<1> QED
  BY <1>1, InitInv, PTL DEF Spec

\* Every variable keeps its type, and the auditor's queue never exceeds its
\* capacity.
THEOREM TypeCorrect == Spec => []TypeOK
  BY Invariance, PTL DEF Inv

\* A decision handed to Record is in the tables with its findings, in memory, or
\* named to onDrop, through retries, full queues, outages and restarts; only a
\* crash or a panic takes one, and those are the forgotten.
THEOREM NoSilentLoss == Spec => []RecordedOrReported
  BY Invariance, PTL DEF Inv

\* closeAll releases the auditor before its writer, and Close drains the queue
\* first, so a shutdown fails no write.
THEOREM ReleaseOrder == Spec => []ShutdownDropsNothing
  BY Invariance, PTL DEF Inv

\* Close meets no Record of a handler that the drain had the time to wait for.
THEOREM DrainWaits == Spec => []DrainProtectsHandlers
  BY Invariance, PTL DEF Inv

\* DecisionHeaderByPush answers with the decision that was recorded last, of those
\* in the table: the goroutine keeps the order of Record, and a retry writes a row
\* again only before any later one.
THEOREM LastRowIsLastWord == Spec => []LastWordStands
<1>1. Inv => LastWordStands
  BY LastWord DEF Inv
<1> QED
  BY <1>1, Invariance, PTL
=============================================================================
