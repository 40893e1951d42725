-------------------------- MODULE FreshnessProofs ---------------------------
(***************************************************************************)
(* Theorems about Freshness, for any pods with windows of their own, any    *)
(* images, policies' settings, DB builds and token lives.                   *)
(*                                                                         *)
(* The action properties are about the step that uses a cached value; the   *)
(* invariant says what is known of the value by then: a reused report was   *)
(* within the window of its reader when it was read (WellReported), a kept  *)
(* token is not kept past its own expiry (WellKept), and an exchange holds  *)
(* its pod's mutex (Exclusive).                                             *)
(***************************************************************************)
EXTENDS Freshness, TLAPS

Entries == [readable : BOOLEAN, db : Times, expires : Nat]
Reports == [db : Times \cup {None}, at : Times, reused : BOOLEAN]
Tokens == [expiry : Nat, until : Nat]

\* A report is there from the scan or the reuse to the verdict.
WellReported ==
    \A p \in Pushes :
        /\ report[p] # None => report[p] \in Reports
        /\ stage[p] \in {"store", "judge"} =>
              /\ report[p] \in Reports
              /\ report[p].reused =>
                    report[p].db # None /\ report[p].at - report[p].db < Window(p)

\* Valkey's entries are live, and were made from a DB with a build time.
WellCached == \A d \in Digests : cache[d] # None => cache[d] \in Entries /\ cache[d].expires > now

WellKept == \A q \in Pods : kept[q] # None => kept[q] \in Tokens /\ kept[q].until <= kept[q].expiry

\* An exchange holds the mutex of its pod.
Exclusive == \A p \in Pushes : stage[p] = "exchange" => held[Pod(p)] = p

\* The functions, and the parts of the invariant that TypeOK repeats.
Shape ==
    /\ DOMAIN cache = Digests /\ cache = [d \in Digests |-> cache[d]]
    /\ DOMAIN report = Pushes /\ report = [p \in Pushes |-> report[p]]
    /\ DOMAIN kept = Pods /\ kept = [q \in Pods |-> kept[q]]

\* The inductive invariant.
Inv == TypeOK /\ Shape /\ WellReported /\ WellCached /\ WellKept /\ Exclusive

-----------------------------------------------------------------------------
LEMMA Constants ==
    /\ \A q \in Pods : Config[q].window \in Nat
    /\ \A p \in Pushes : Put[p].digest \in Digests /\ Pod(p) \in Pods /\ Window(p) \in Nat
    /\ MaxTime \in Nat /\ MaxFaults \in Nat
    /\ Builds \subseteq Nat /\ Lives \subseteq Nat
    /\ MaxAge \in Nat \cup {None}
    /\ \A d \in Digests : Image[d].since \in Nat /\ Image[d].created \in Nat \cup {None}
    /\ None \notin Pushes
  BY FreshnessAssumption DEF FreshnessAssumption, ImageShape, Pod, Window

LEMMA NextCases ==
    ASSUME [Next]_vars
    PROVE  \/ UNCHANGED vars \/ Tick
           \/ \E q \in Pods : UpdateDB(q)
           \/ \E d \in Digests : Garble(d)
           \/ \E p \in Pushes :
                 \/ Lookup(p) \/ Scan(p) \/ Store(p) \/ Judge(p) \/ Authorize(p)
                 \/ Exchanged(p) \/ ExchangeFails(p) \/ ExchangeHangs(p)
  BY DEF Next, Step

LEMMA EngineType ==
    ASSUME NEW p \in Pushes
    PROVE  EngineResult(p) \in {"passed", "unenforced", "rejected"}
  BY DEF EngineResult

LEMMA InitInv ==
    ASSUME Init
    PROVE  Inv
<1>1. TypeOK
  BY Constants DEF Init, TypeOK, Times
<1>2. Shape /\ WellReported /\ WellCached /\ WellKept /\ Exclusive
  BY DEF Init, Shape, WellReported, WellCached, WellKept, Exclusive
<1> QED
  BY <1>1, <1>2 DEF Inv

\* The clock and what runs beside the pushes.
LEMMA EnvironmentStep ==
    ASSUME Inv, \/ Tick
                \/ \E q \in Pods : UpdateDB(q)
                \/ \E d \in Digests : Garble(d)
    PROVE  Inv'
<1> USE Constants DEF Inv, Times
<1>1. CASE Tick
  <2>1. now' \in Nat /\ now' \in 0..MaxTime /\ now' > now
    BY <1>1 DEF Tick, TypeOK
  <2>2. WellCached' /\ Shape'
    BY <1>1, <2>1 DEF Tick, WellCached, Shape, Entries, tokenVars
  <2>3. TypeOK'
    BY <1>1, <2>1, <2>2 DEF Tick, TypeOK, WellCached, Entries, tokenVars
  <2>4. WellReported' /\ WellKept' /\ Exclusive'
    BY <1>1 DEF Tick, WellReported, WellKept, Exclusive, tokenVars
  <2> QED
    BY <2>2, <2>3, <2>4
<1>2. ASSUME NEW q \in Pods, UpdateDB(q) PROVE Inv'
  <2>t. /\ db \in [Pods -> Times \cup {None}] /\ faults \in 0..MaxFaults /\ now \in Times
    BY DEF TypeOK
  <2>b. \A b \in Builds : b <= now => b \in Times
    BY <2>t
  <2>1. /\ db' \in [Pods -> Times \cup {None}] /\ faults' \in 0..MaxFaults
    BY <1>2, <2>t, <2>b DEF UpdateDB, Fault
  <2>2. UNCHANGED <<now, cache, report, result, stage, tokenVars>>
    BY <1>2 DEF UpdateDB
  <2> QED
    BY <2>1, <2>2 DEF TypeOK, Shape, WellReported, WellCached, WellKept, Exclusive, tokenVars
<1>3. ASSUME NEW d \in Digests, Garble(d) PROVE Inv'
  <2>1. /\ faults' \in 0..MaxFaults /\ cache[d] # None
        /\ cache' = [cache EXCEPT ![d] = [cache[d] EXCEPT !.readable = FALSE]]
        /\ UNCHANGED <<now, db, report, result, stage, tokenVars>>
    BY <1>3 DEF Garble, Fault, TypeOK
  <2>2. cache'[d] \in Entries /\ cache'[d].db = cache[d].db /\ cache'[d].expires = cache[d].expires
    BY <2>1 DEF WellCached, Entries, Shape
  <2>3. \A e \in Digests \ {d} : cache'[e] = cache[e]
    BY <2>1 DEF Shape
  <2>4. DOMAIN cache' = Digests /\ cache' = [e \in Digests |-> cache'[e]]
    BY <2>1 DEF Shape
  <2>5. WellCached'
    BY <2>1, <2>2, <2>3 DEF WellCached
  <2>6. TypeOK'
    BY <2>1, <2>5 DEF TypeOK, WellCached, Entries, tokenVars
  <2> QED
    BY <2>1, <2>4, <2>5, <2>6 DEF Shape, WellReported, WellKept, Exclusive, tokenVars
<1> QED
  BY <1>1, <1>2, <1>3

\* From the look-up to the verdict.
LEMMA ScanStep ==
    ASSUME Inv, NEW p \in Pushes, Lookup(p) \/ Scan(p) \/ Store(p) \/ Judge(p)
    PROVE  Inv'
<1> USE Constants DEF Inv, Times
<1>t. /\ stage \in [Pushes -> {"lookup", "scan", "store", "judge", "lock", "exchange", "done"}]
      /\ now \in Times /\ db \in [Pods -> Times \cup {None}]
      /\ faults \in 0..MaxFaults
      /\ result \in [Pushes -> {"none", "passed", "unenforced", "rejected", "infra", "unpublished"}]
  BY DEF TypeOK
<1>1. ASSUME UNCHANGED <<now, db, cache, tokenVars>>, faults' \in 0..MaxFaults,
             NEW s \in {"scan", "store", "judge", "lock", "done"}, NEW r \in Reports \cup {None, report[p]},
             NEW res \in {"none", "passed", "unenforced", "rejected", "infra", "unpublished"},
             s \in {"store", "judge"} => /\ r \in Reports
                                         /\ r.reused => r.db # None /\ r.at - r.db < Window(p),
             stage' = [stage EXCEPT ![p] = s],
             report' = [report EXCEPT ![p] = r],
             result' = [result EXCEPT ![p] = res]
      PROVE  Inv'
  <2>1. stage' \in [Pushes -> {"lookup", "scan", "store", "judge", "lock", "exchange", "done"}]
        /\ result' \in [Pushes -> {"none", "passed", "unenforced", "rejected", "infra", "unpublished"}]
    BY <1>1, <1>t
  <2>2. Shape'
    BY <1>1 DEF Shape, tokenVars
  <2>3. WellReported'
    BY <1>1, <1>t DEF WellReported, Shape
  <2>4. WellCached' /\ WellKept'
    BY <1>1 DEF WellCached, WellKept, tokenVars
  <2>5. Exclusive'
    BY <1>1, <1>t DEF Exclusive, tokenVars
  <2>6. TypeOK'
    BY <1>1, <2>1, <2>3 DEF TypeOK, WellReported, Reports, tokenVars
  <2> QED
    BY <2>2, <2>3, <2>4, <2>5, <2>6
<1>u. report = [report EXCEPT ![p] = report[p]] /\ result = [result EXCEPT ![p] = result[p]]
  BY <1>t DEF Shape
<1>2. CASE Lookup(p)
  <2>1. CASE Reuse(p)
    <3> DEFINE e == cache[Put[p].digest]
               r == [db |-> e.db, at |-> now, reused |-> TRUE]
    <3>1. e \in Entries /\ ReportIsFresh(p, e.db)
      BY <2>1 DEF Reuse, Reusable, WellCached
    <3>2. r \in Reports /\ r.db # None /\ r.at - r.db < Window(p)
      BY <3>1, <1>t DEF Entries, Reports, ReportIsFresh
    <3>3. /\ stage' = [stage EXCEPT ![p] = "judge"]
          /\ report' = [report EXCEPT ![p] = r]
          /\ result' = [result EXCEPT ![p] = result[p]]
          /\ UNCHANGED <<now, db, cache, tokenVars>> /\ faults' \in 0..MaxFaults
      BY <1>2, <2>1, <1>t, <1>u DEF Reuse, Lookup, Goto
    <3> HIDE DEF r
    <3> QED
      BY <3>2, <3>3, <1>1, <1>t
  <2>2. CASE ~Reuse(p)
    <3>1. /\ stage' = [stage EXCEPT ![p] = "scan"]
          /\ report' = [report EXCEPT ![p] = report[p]]
          /\ result' = [result EXCEPT ![p] = result[p]]
          /\ UNCHANGED <<now, db, cache, tokenVars>> /\ faults' \in 0..MaxFaults
      BY <1>2, <2>2, <1>t, <1>u DEF Lookup, Unreadable, Fault, Goto
    <3> QED
      BY <3>1, <1>1, <1>t
  <2> QED
    BY <2>1, <2>2
<1>3. CASE Scan(p)
  <2> DEFINE r == [db |-> db[Pod(p)], at |-> now, reused |-> FALSE]
  <2>1. r \in Reports /\ ~r.reused
    BY <1>t DEF Reports
  <2>2. /\ \/ /\ stage' = [stage EXCEPT ![p] = "store"]
              /\ report' = [report EXCEPT ![p] = r]
              /\ result' = [result EXCEPT ![p] = result[p]]
           \/ /\ stage' = [stage EXCEPT ![p] = "done"]
              /\ report' = [report EXCEPT ![p] = None]
              /\ result' = [result EXCEPT ![p] = "infra"]
        /\ UNCHANGED <<now, db, cache, tokenVars>> /\ faults' \in 0..MaxFaults
    BY <1>3, <1>t, <1>u DEF Scan, Fault, Ended, Goto
  <2> HIDE DEF r
  <2> QED
    BY <2>1, <2>2, <1>1, <1>t
<1>4. CASE Store(p)
  <2>1. /\ stage[p] = "store" /\ report[p] \in Reports
        /\ stage' = [stage EXCEPT ![p] = "judge"]
        /\ UNCHANGED <<now, db, report, result, tokenVars>> /\ faults' \in 0..MaxFaults
    BY <1>4, <1>t DEF Store, Goto, Fault, WellReported
  <2>2. CASE UNCHANGED cache
    <3>1. /\ report[p].reused => report[p].db # None /\ report[p].at - report[p].db < Window(p)
          /\ report' = [report EXCEPT ![p] = report[p]]
          /\ result' = [result EXCEPT ![p] = result[p]]
          /\ UNCHANGED <<now, db, cache, tokenVars>>
      BY <2>1, <2>2, <1>u DEF WellReported
    <3> QED
      BY <2>1, <3>1, <1>1, <1>t
  <2>3. CASE ~UNCHANGED cache
    <3> DEFINE d == Put[p].digest
               e == [readable |-> TRUE, db |-> report[p].db, expires |-> now + EntryTTL(p)]
    <3>1. Storable(p) /\ cache' = [cache EXCEPT ![d] = e]
      BY <1>4, <2>3 DEF Store
    <3>2. e \in Entries /\ e.expires > now
      BY <3>1, <2>1, <1>t DEF Storable, EntryTTL, Reports, Entries
    <3> HIDE DEF e
    <3>3. WellCached' /\ Shape'
      BY <3>1, <3>2, <2>1 DEF WellCached, Shape, tokenVars
    <3>4. WellReported'
      BY <2>1, <1>t DEF WellReported
    <3>5. WellKept' /\ Exclusive'
      BY <2>1, <1>t DEF WellKept, Exclusive, tokenVars
    <3>6. TypeOK'
      BY <2>1, <1>t, <3>3, <3>4 DEF TypeOK, WellCached, WellReported, Entries, Reports, tokenVars
    <3> QED
      BY <3>3, <3>4, <3>5, <3>6
  <2> QED
    BY <2>2, <2>3
<1>5. CASE Judge(p)
  <2>1. /\ \E s \in {"lock", "done"}, res \in {"passed", "unenforced", "rejected"} :
              /\ stage' = [stage EXCEPT ![p] = s]
              /\ result' = [result EXCEPT ![p] = res]
        /\ report' = [report EXCEPT ![p] = None]
        /\ UNCHANGED <<now, db, cache, tokenVars>> /\ faults' \in 0..MaxFaults
    BY <1>5, <1>t, EngineType DEF Judge, Ended, Goto
  <2> QED
    BY <2>1, <1>1
<1> QED
  BY <1>2, <1>3, <1>4, <1>5

\* The authorisation of the push.
LEMMA AuthorizeStep ==
    ASSUME Inv, NEW p \in Pushes,
           Authorize(p) \/ Exchanged(p) \/ ExchangeFails(p) \/ ExchangeHangs(p)
    PROVE  Inv'
<1> USE Constants DEF Inv, Times
<1>t. /\ stage \in [Pushes -> {"lookup", "scan", "store", "judge", "lock", "exchange", "done"}]
      /\ now \in Times /\ faults \in 0..MaxFaults
      /\ held \in [Pods -> Pushes \cup {None}]
      /\ result \in [Pushes -> {"none", "passed", "unenforced", "rejected", "infra", "unpublished"}]
      /\ hung \subseteq Pods
  BY DEF TypeOK
<1>1. ASSUME NEW s \in {"exchange", "done"}, stage' = [stage EXCEPT ![p] = s],
             \A q \in Pushes : report'[q] \in {report[q], None},
             \A q \in Pushes : q # p => report'[q] = report[q]
      PROVE  WellReported'
  BY <1>1, <1>t DEF WellReported
<1>2. ASSUME UNCHANGED <<now, db, cache>>, Shape', WellReported', WellKept', Exclusive',
             stage' \in [Pushes -> {"lookup", "scan", "store", "judge", "lock", "exchange", "done"}],
             result' \in [Pushes -> {"none", "passed", "unenforced", "rejected", "infra", "unpublished"}],
             held' \in [Pods -> Pushes \cup {None}], hung' \subseteq Pods, faults' \in 0..MaxFaults
      PROVE  Inv'
  <2>1. WellCached'
    BY <1>2 DEF WellCached
  <2> QED
    BY <1>2, <2>1 DEF TypeOK, WellReported, Reports
<1>3. CASE Authorize(p)
  <2>1. /\ UNCHANGED <<now, db, cache, report, result, kept, hung, faults>>
        /\ held[Pod(p)] = None
    BY <1>3 DEF Authorize, scanVars
  <2>2. \/ stage' = [stage EXCEPT ![p] = "done"] /\ held' = held
        \/ stage' = [stage EXCEPT ![p] = "exchange"] /\ held' = [held EXCEPT ![Pod(p)] = p]
    BY <1>3 DEF Authorize, Goto
  <2>3. Exclusive'
    BY <2>1, <2>2, <1>t DEF Exclusive
  <2>4. Shape' /\ WellKept' /\ WellReported'
    BY <2>1, <2>2, <1>1 DEF Shape, WellKept
  <2> QED
    BY <2>1, <2>2, <2>3, <2>4, <1>2, <1>t
<1>4. CASE Exchanged(p)
  <2>1. /\ UNCHANGED <<now, db, cache, report, result, hung, faults>>
        /\ stage[p] = "exchange"
        /\ stage' = [stage EXCEPT ![p] = "done"]
        /\ held' = [held EXCEPT ![Pod(p)] = None]
    BY <1>4 DEF Exchanged, scanVars, Goto
  <2>2. \E k : /\ kept' = [kept EXCEPT ![Pod(p)] = k]
               /\ k # None => k \in Tokens /\ k.until <= k.expiry
    <3>1. CASE kept' = [kept EXCEPT ![Pod(p)] = None]
      BY <3>1
    <3>2. CASE \E e, a \in Lives : kept' = [kept EXCEPT ![Pod(p)] = KeepUntil(now + e, now + a)]
      <4>1. PICK e \in Lives, a \in Lives :
               kept' = [kept EXCEPT ![Pod(p)] = KeepUntil(now + e, now + a)]
        BY <3>2
      <4>2. e \in Nat /\ a \in Nat /\ now \in Nat
        BY <1>t
      <4>3. /\ KeepUntil(now + e, now + a) \in Tokens
            /\ KeepUntil(now + e, now + a).until <= KeepUntil(now + e, now + a).expiry
        BY <4>2 DEF KeepUntil, Min2, Tokens
      <4> QED
        BY <4>1, <4>3
    <3> QED
      BY <1>4, <3>1, <3>2 DEF Exchanged
  <2>3. Exclusive'
    BY <2>1, <1>t DEF Exclusive
  <2>4. Shape'
    <3>1. PICK k : kept' = [kept EXCEPT ![Pod(p)] = k]
      BY <2>2
    <3>2. DOMAIN kept' = Pods /\ kept' = [q \in Pods |-> kept'[q]]
      BY <3>1 DEF Shape
    <3> QED
      BY <2>1, <3>2 DEF Shape
  <2>5. WellKept'
    <3>1. PICK k : /\ kept' = [kept EXCEPT ![Pod(p)] = k]
                   /\ k # None => k \in Tokens /\ k.until <= k.expiry
      BY <2>2
    <3>2. ASSUME NEW q \in Pods
          PROVE  kept'[q] = IF q = Pod(p) THEN k ELSE kept[q]
      BY <3>1 DEF Shape
    <3> QED
      BY <3>1, <3>2 DEF WellKept
  <2> QED
    BY <2>1, <2>3, <2>4, <2>5, <1>1, <1>2, <1>t
<1>5. CASE ExchangeFails(p)
  <2>1. /\ UNCHANGED <<now, db, cache, kept, hung>> /\ faults' \in 0..MaxFaults
        /\ stage[p] = "exchange"
        /\ stage' = [stage EXCEPT ![p] = "done"]
        /\ held' = [held EXCEPT ![Pod(p)] = None]
        /\ result' = [result EXCEPT ![p] = "unpublished"]
        /\ report' = [report EXCEPT ![p] = None]
    BY <1>5, <1>t DEF ExchangeFails, Ended, Goto, Unlocked, Fault
  <2>2. Exclusive'
    BY <2>1, <1>t DEF Exclusive
  <2>3. Shape' /\ WellKept'
    BY <2>1 DEF Shape, WellKept
  <2>4. \A q \in Pushes : report'[q] \in {report[q], None} /\ (q # p => report'[q] = report[q])
    BY <2>1 DEF Shape
  <2>5. WellReported'
    BY <2>1, <2>4, <1>1
  <2> QED
    BY <2>1, <2>2, <2>3, <2>5, <1>2, <1>t
<1>6. CASE ExchangeHangs(p)
  <2>1. /\ UNCHANGED <<now, db, cache, report, result, stage, held, kept>>
        /\ faults' \in 0..MaxFaults /\ hung' \subseteq Pods
    BY <1>6, <1>t DEF ExchangeHangs, scanVars, Fault
  <2>2. Shape' /\ WellReported' /\ WellKept' /\ Exclusive'
    BY <2>1 DEF Shape, WellReported, WellKept, Exclusive
  <2> QED
    BY <2>1, <2>2, <1>2, <1>t
<1> QED
  BY <1>3, <1>4, <1>5, <1>6

LEMMA InvStep ==
    ASSUME Inv, [Next]_vars
    PROVE  Inv'
<1>1. CASE UNCHANGED vars
  BY <1>1 DEF vars, scanVars, tokenVars, Inv, TypeOK, Shape, WellReported, WellCached,
     WellKept, Exclusive
<1> QED
  BY <1>1, NextCases, EnvironmentStep, ScanStep, AuthorizeStep

-----------------------------------------------------------------------------
\* The strengthened invariant holds in every reachable state.
THEOREM Invariance == Spec => []Inv
  BY InitInv, InvStep, PTL DEF Spec

\* Every variable of the caches keeps its type, and Valkey holds no entry past
\* its life.
THEOREM TypeCorrect == Spec => []TypeOK
  BY Invariance, PTL DEF Inv

\* Only its own verdict moves a push from the policies to its publication.
LEMMA OnlyJudged ==
    ASSUME Inv, [Next]_vars, NEW p \in Pushes, LetThrough(p)
    PROVE  Judge(p) /\ EngineResult(p) # "rejected" /\ result'[p] = EngineResult(p)
<1>t. /\ stage \in [Pushes -> {"lookup", "scan", "store", "judge", "lock", "exchange", "done"}]
      /\ result \in [Pushes -> {"none", "passed", "unenforced", "rejected", "infra", "unpublished"}]
  BY DEF Inv, TypeOK
<1>1. ASSUME NEW q \in Pushes,
             Lookup(q) \/ Scan(q) \/ Store(q) \/ Authorize(q) \/ Exchanged(q)
             \/ ExchangeFails(q) \/ ExchangeHangs(q)
      PROVE  FALSE
  BY <1>1, <1>t DEF LetThrough, Lookup, Reuse, Unreadable, Scan, Store, Authorize, Exchanged,
     ExchangeFails, ExchangeHangs, Ended, Goto
<1>2. ASSUME NEW q \in Pushes, Judge(q)
      PROVE  q = p
  BY <1>2, <1>t DEF LetThrough, Judge, Ended, Goto
<1>3. Judge(p)
  BY <1>1, <1>2, NextCases DEF LetThrough, vars, Tick, UpdateDB, Garble
<1> QED
  BY <1>3, <1>t DEF Judge, Ended, Goto, LetThrough

\* scanOrReuse admits no staleness beyond the window of the pod that judges,
\* whichever pod, of whatever window, stored the report.
THEOREM StalenessBounded == Spec => DetectionDelayBounded
<1>1. ASSUME Inv, [Next]_vars, NEW p \in Pushes, LetThrough(p), result'[p] = "passed",
             report[p].reused \/ (report[p].db # None /\ report[p].at - report[p].db < Window(p)),
             \E s \in Img(p).news : Blocks(s)
      PROVE  Img(p).since > report[p].at - Window(p)
  <2>1. report[p] \in Reports /\ report[p].db # None /\ report[p].at - report[p].db < Window(p)
    BY <1>1 DEF Inv, WellReported, LetThrough
  <2>2. Blocking(Img(p), report[p].db) = {}
    BY <1>1, OnlyJudged DEF EngineResult
  <2>3. ~(report[p].db >= Img(p).since)
    BY <1>1, <2>1, <2>2 DEF Blocking, Findings
  <2>4. Img(p).since \in Nat /\ Window(p) \in Nat
    BY Constants DEF Img
  <2>5. report[p].db \in Nat /\ report[p].at \in Nat
    BY <2>1, Constants DEF Reports, Times
  <2> QED
    BY <2>1, <2>3, <2>4, <2>5
<1>2. Inv /\ [Next]_vars => [\A p \in Pushes :
          LET r == report[p] IN
          /\ LetThrough(p) /\ result'[p] = "passed"
          /\ r.reused \/ (r.db # None /\ r.at - r.db < Window(p))
          /\ \E s \in Img(p).news : Blocks(s)
          => Img(p).since > r.at - Window(p)]_vars
  BY <1>1
<1> QED
  BY <1>2, Invariance, PTL DEF Spec, DetectionDelayBounded

\* Authorization hands out a kept token only while the registry still takes it.
THEOREM LiveTokens == Spec => TokensAreLive
<1>1. ASSUME Inv, [Next]_vars, NEW p \in Pushes, stage[p] = "lock", stage'[p] = "done"
      PROVE  kept[Pod(p)].expiry > now
  <2>t. stage \in [Pushes -> {"lookup", "scan", "store", "judge", "lock", "exchange", "done"}]
    BY <1>1 DEF Inv, TypeOK
  <2>1. ASSUME NEW q \in Pushes,
               Lookup(q) \/ Scan(q) \/ Store(q) \/ Judge(q) \/ Exchanged(q)
               \/ ExchangeFails(q) \/ ExchangeHangs(q)
        PROVE  FALSE
    BY <1>1, <2>1, <2>t DEF Lookup, Reuse, Unreadable, Scan, Store, Judge, Exchanged,
       ExchangeFails, ExchangeHangs, Ended, Goto
  <2>2. ASSUME NEW q \in Pushes, Authorize(q)
        PROVE  q = p
    BY <1>1, <2>2, <2>t DEF Authorize, Goto
  <2>3. Authorize(p)
    BY <1>1, <2>1, <2>2, NextCases DEF vars, Tick, UpdateDB, Garble
  <2>4. StillKept(Pod(p))
    BY <1>1, <2>3, <2>t DEF Authorize, Goto
  <2>5. kept[Pod(p)] \in Tokens /\ kept[Pod(p)].until <= kept[Pod(p)].expiry
    BY <1>1, <2>4, Constants DEF StillKept, Inv, WellKept
  <2>6. now \in Nat
    BY <1>1, Constants DEF Inv, TypeOK, Times
  <2> QED
    BY <2>4, <2>5, <2>6 DEF StillKept, Tokens
<1>2. Inv /\ [Next]_vars => [\A p \in Pushes : stage[p] = "lock" /\ stage'[p] = "done" =>
          kept[Pod(p)].expiry > now]_vars
  BY <1>1
<1> QED
  BY <1>2, Invariance, PTL DEF Spec, TokensAreLive

\* The credential mutex: no two exchanges of a pod run at once, those that fail
\* and those that are never answered included.
THEOREM OneExchange ==
    Spec => [](\A p, q \in Pushes :
                  stage[p] = "exchange" /\ stage[q] = "exchange" /\ Pod(p) = Pod(q) => p = q)
<1>1. Inv => \A p, q \in Pushes :
                stage[p] = "exchange" /\ stage[q] = "exchange" /\ Pod(p) = Pod(q) => p = q
  BY DEF Inv, Exclusive
<1> QED
  BY <1>1, Invariance, PTL
=============================================================================
