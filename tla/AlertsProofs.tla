---------------------------- MODULE AlertsProofs ----------------------------
(***************************************************************************)
(* Theorems about Alerts, for any replicas, configuration, thresholds,      *)
(* errors, delays and faults.                                               *)
(*                                                                         *)
(* The invariant follows a finding from the row to the channel.  Watched    *)
(* says that a tick that was taken has fired, or is excused, for every      *)
(* first failure in its window; Accounted that what fired is in the     *)
(* channel, excused, or still in the hands of its run; Loads that a run     *)
(* knows every announcement of an earlier instant; Told that the table and  *)
(* the channel agree.                                                       *)
(***************************************************************************)
EXTENDS Alerts, FiniteSetTheorems, WellFoundedInduction, TLAPS

\* The findings of the novelty detector are the first ones, up to the cap.
Capped(S) ==
    \E k \in 0..MaxNovelPerRun : \A i \in DOMAIN S : S[i].detector = "novel_error" => i <= k

Shape ==
    /\ ValidConfig(config)
    /\ IsFiniteSet(rows)
    /\ last = [p \in Pods |-> last[p]]
    /\ \A p \in Pods : Capped(findings[p])

\* Every entry of the table is about a message, and a recorded message has one.
Told ==
    /\ \A m \in sent : m.at \in 0..now
    /\ \A m \in sent : m.recorded => [key |-> m.class, at |-> m.at] \in notified
    /\ \A n \in notified : \E m \in sent : m.class = n.key /\ m.at = n.at

\* The cooldowns of a run are entries of the table, and none of an earlier
\* instant is newer.
Loads ==
    \A p \in Pods :
        /\ stage[p] \in {"notify", "record"} =>
              /\ \A n \in notified : n.at < now =>
                    n.key \in DOMAIN last[p] /\ last[p][n.key] >= n.at
              /\ \A k \in DOMAIN last[p] :
                    \E n \in notified : n.key = k /\ n.at = last[p][k]
        /\ stage[p] = "record" => Message(p, FALSE) \in sent

\* In the channel for less than a cooldown, or given up.
Settled(f) ==
    \/ \E m \in sent : m.class = f.class /\ f.at - m.at \in 0..(config.cooldown - 1)
    \/ Excused(f.pod, f.class, f.at)

Pending(f) ==
    /\ f.at = now
    /\ f.pod \in Pods
    /\ stage[f.pod] # "idle"
    /\ \E i \in DOMAIN findings[f.pod] : Class(findings[f.pod][i]) = f.class

Accounted == \A f \in fired : f.at \in 0..now /\ (Settled(f) \/ Pending(f))

\* The pod p has taken its tick of time t.
Taken(p, t) ==
    /\ t > started[p]
    /\ (t - started[p]) % config.interval = 0
    /\ t < now \/ (t = now /\ ran[p] = now)

\* The row r lay in the recent window of time t, and no row with its signature
\* was older than that window.
Fresh(r, t) ==
    /\ r.landed < t
    /\ \A q \in Detailed(rows) :
          Signature(q.error) = Signature(r.error) => q.ts >= t - config.recent

Watched ==
    \A p \in Pods, t \in 0..now, r \in Detailed(rows) :
        Taken(p, t) /\ Fresh(r, t) =>
            LET c == <<"novel_error", Signature(r.error)>>
            IN  [pod |-> p, class |-> c, at |-> t] \in fired \/ Excused(p, c, t)

\* The inductive invariant.
Inv ==
    /\ TypeOK /\ Shape /\ Told /\ Loads /\ Accounted /\ Watched
    /\ QuietWithinCooldown

-----------------------------------------------------------------------------
(***************************************************************************)
(* Numbers and sequences.                                                   *)
(***************************************************************************)
LEMMA Constants ==
    /\ MaxTime \in Nat /\ MaxRows \in Nat /\ MaxDelay \in Nat /\ MaxFaults \in Nat
    /\ MaxNovelPerRun \in Nat \ {0} /\ MinSamples \in Nat \ {0} /\ MinFactor \in Nat \ {0}
    /\ KilledScanThreshold \in Nat \ {0}
  BY AlertsAssumption

\* A bounded, inhabited set of times has a last one.
LEMMA Latest ==
    ASSUME NEW b \in Nat, NEW S, S \subseteq 0..b, S # {}
    PROVE  \E x \in S : \A y \in S : y <= x
<1> DEFINE R == OpToRel(<, Nat)
           T == {b - x : x \in S}
<1>1. IsWellFoundedOn(R, Nat)
  BY NatLessThanWellFounded
<1>2. T \subseteq Nat /\ T # {}
  <2>1. \A x \in S : b - x \in Nat
    OBVIOUS
  <2> QED
    BY <2>1
<1> HIDE DEF T, R
<1>3. PICK m \in T : \A y \in T : ~(<<y, m>> \in R)
  BY <1>1, <1>2, WFMin
<1>4. \A y \in T : ~(y < m)
  BY <1>2, <1>3 DEF R, OpToRel
<1>5. PICK x \in S : m = b - x
  BY DEF T
<1>6. \A y \in S : b - y \in T /\ y \in Nat
  BY DEF T
<1> QED
  BY <1>4, <1>5, <1>6

\* Of any n instants in a row after the d-th, one is a tick.
LEMMA NextTick ==
    ASSUME NEW d \in Nat, NEW n \in Nat \ {0}
    PROVE  \E k \in (d + 1)..(d + n) : k % n = 0
<1> DEFINE q == d \div n
           k == (q + 1) * n
<1>1. q \in Nat /\ d = q * n + (d % n) /\ d % n \in 0..(n - 1)
  OBVIOUS
<1>2. k \in Int /\ k = q * n + n
  BY <1>1
<1>3. k \in (d + 1)..(d + n)
  BY <1>1, <1>2
<1>4. k % n = 0
  BY <1>1
<1> QED
  BY <1>3, <1>4

LEMMA TailFacts ==
    ASSUME NEW S, NEW s \in Seq(S), s # << >>
    PROVE  /\ Tail(s) \in Seq(S)
           /\ Head(s) = s[1] /\ 1 \in DOMAIN s /\ Head(s) \in S
           /\ \A i \in DOMAIN s : i = 1 \/ (i - 1 \in DOMAIN Tail(s) /\ Tail(s)[i - 1] = s[i])
           /\ \A i \in DOMAIN Tail(s) : i \in Nat /\ i + 1 \in DOMAIN s /\ Tail(s)[i] = s[i + 1]
  OBVIOUS

LEMMA AtMostOne ==
    ASSUME NEW S, NEW f \in S, NEW s, s = << >> \/ s = <<f>>
    PROVE  s \in Seq(S) /\ \A i \in DOMAIN s : s[i] = f
<1>1. CASE s = << >>
  BY <1>1
<1>2. CASE s = <<f>>
  <2>1. s \in Seq(S)
    BY <1>2
  <2>2. DOMAIN s = {1} /\ s[1] = f
    BY <1>2
  <2> QED
    BY <2>1, <2>2
<1> QED
  BY <1>1, <1>2

LEMMA SeqSubset ==
    ASSUME NEW S, NEW T, S \subseteq T, NEW s \in Seq(S)
    PROVE  s \in Seq(T)
<1>1. Len(s) \in Nat /\ s \in [1..Len(s) -> S]
  OBVIOUS
<1>2. s \in [1..Len(s) -> T]
  BY <1>1
<1> QED
  BY <1>1, <1>2

\* The cap bounds the findings of the novelty detector.
LEMMA CapBounds ==
    ASSUME NEW S, NEW s \in Seq(S), Capped(s)
    PROVE  Cardinality({i \in DOMAIN s : s[i].detector = "novel_error"}) <= MaxNovelPerRun
<1>1. PICK k \in 0..MaxNovelPerRun : \A i \in DOMAIN s : s[i].detector = "novel_error" => i <= k
  BY DEF Capped
<1> DEFINE I == {i \in DOMAIN s : s[i].detector = "novel_error"}
<1>2. I \subseteq 1..k
  BY <1>1, Constants
<1>3. IsFiniteSet(1..k) /\ Cardinality(1..k) = k
  BY <1>1, Constants, FS_Interval
<1> HIDE DEF I
<1>4. Cardinality(I) <= Cardinality(1..k)
  BY <1>2, <1>3, FS_Subset
<1>5. IsFiniteSet(I) /\ Cardinality(I) \in Nat
  BY <1>2, <1>3, FS_Subset, FS_CardinalityType
<1>6. Cardinality(I) <= MaxNovelPerRun
  BY <1>1, <1>3, <1>4, <1>5, Constants
<1> QED
  BY <1>6 DEF I

LEMMA CappedTail ==
    ASSUME NEW S, NEW s \in Seq(S), s # << >>, Capped(s)
    PROVE  Capped(Tail(s))
<1>1. PICK k \in 0..MaxNovelPerRun : \A i \in DOMAIN s : s[i].detector = "novel_error" => i <= k
  BY DEF Capped
<1>2. \A i \in DOMAIN Tail(s) : Tail(s)[i].detector = "novel_error" => i <= k
  BY <1>1, TailFacts, Constants
<1> QED
  BY <1>1, <1>2 DEF Capped

-----------------------------------------------------------------------------
(***************************************************************************)
(* The detectors.                                                           *)
(***************************************************************************)
LEMMA Counted ==
    ASSUME IsFiniteSet(rows), NEW R, R \subseteq rows
    PROVE  Cardinality(R) \in Nat
  BY FS_Subset, FS_CardinalityType

LEMMA DetailedFacts ==
    ASSUME NEW R, R \subseteq rows
    PROVE  /\ Detailed(R) \subseteq Infra(R) /\ Infra(R) \subseteq R
           /\ \A r \in Detailed(R) : r.error # NoError
           /\ \A r \in R : r \in Detailed(rows) <=> r \in Detailed(R)
  BY DEF Detailed, Infra

\* The rows behind what a query returns, and their signatures.
LEMMA ShownFacts ==
    ASSUME NEW R, R \subseteq rows, NEW n, NEW D \in InfraErrorDetails(R, n)
    PROVE  D \subseteq Detailed(R) /\ D \subseteq Detailed(rows)
<1>1. D \subseteq Detailed(R)
  BY Zenon DEF InfraErrorDetails
<1> QED
  BY <1>1, DetailedFacts

LEMMA NovelFindings ==
    ASSUME TypeOK, Shape, NEW D, D \subseteq Detailed(rows), NEW E
    PROVE  /\ Novel(D, E) \subseteq Findings
           /\ \A f \in Novel(D, E) : f.detector = "novel_error"
           /\ \A s \in Signatures(D) \ Signatures(E) :
                 \E f \in Novel(D, E) : Class(f) = <<"novel_error", s>>
<1> DEFINE N == Signatures(D) \ Signatures(E)
<1>1. Novel(D, E) = {Finding("novel_error", s, Count(D, s)) : s \in N}
  BY DEF Novel
<1>0. D \subseteq rows /\ \A r \in D : r.error # NoError
  BY DetailedFacts
<1>2. \A s : Count(D, s) \in Nat
  <2> TAKE s
  <2>1. {r \in D : Signature(r.error) = s} \subseteq rows
    BY <1>0
  <2> QED
    BY <2>1, Counted DEF Count, Shape
<1>3. N \subseteq {Signature(e) : e \in Errors}
  <2>1. \A r \in rows : r.error \in Errors \cup {NoError}
    BY DEF TypeOK
  <2> QED
    BY <1>0, <2>1 DEF Signatures
<1>4. Novel(D, E) \subseteq Findings
  <2> SUFFICES ASSUME NEW s \in N
               PROVE  Finding("novel_error", s, Count(D, s)) \in Findings
    BY <1>1
  <2>1. s \in {Signature(e) : e \in Errors} \cup {"step change", "killed"}
    BY <1>3
  <2>2. Count(D, s) \in Nat
    BY <1>2
  <2> HIDE DEF N
  <2> QED
    BY <2>1, <2>2 DEF Finding, Findings
<1>5. \A f \in Novel(D, E) : f.detector = "novel_error"
  BY <1>1 DEF Finding
<1>6. ASSUME NEW s \in N
      PROVE  \E f \in Novel(D, E) : Class(f) = <<"novel_error", s>>
  <2> DEFINE f == Finding("novel_error", s, Count(D, s))
  <2>1. f \in Novel(D, E)
    BY <1>1
  <2>2. Class(f) = <<"novel_error", s>>
    BY DEF Class, Finding
  <2> QED
    BY <2>1, <2>2
<1> QED
  BY <1>4, <1>5, <1>6

LEMMA RateFindings ==
    ASSUME TypeOK, Shape, NEW R, R \subseteq rows, NEW B, B \subseteq rows
    PROVE  /\ InfraErrorStepChange(R, B) \in Seq(Findings)
           /\ \A i \in DOMAIN InfraErrorStepChange(R, B) :
                InfraErrorStepChange(R, B)[i].detector = "infra_error_rate"
<1>1. Cardinality(Infra(R)) \in Nat
  BY Counted, DetailedFacts DEF Shape
<1>2. Finding("infra_error_rate", "step change", Cardinality(Infra(R))) \in Findings
  BY <1>1 DEF Finding, Findings
<1>3. \/ InfraErrorStepChange(R, B) = << >>
      \/ InfraErrorStepChange(R, B) =
            <<Finding("infra_error_rate", "step change", Cardinality(Infra(R)))>>
  BY Zenon DEF InfraErrorStepChange
<1>4. Finding("infra_error_rate", "step change", Cardinality(Infra(R))).detector
         = "infra_error_rate"
  BY DEF Finding
<1>5. /\ InfraErrorStepChange(R, B) \in Seq(Findings)
      /\ \A i \in DOMAIN InfraErrorStepChange(R, B) : InfraErrorStepChange(R, B)[i] =
            Finding("infra_error_rate", "step change", Cardinality(Infra(R)))
  BY <1>2, <1>3, AtMostOne
<1> QED
  BY <1>4, <1>5

LEMMA KilledFindings ==
    ASSUME TypeOK, Shape, NEW R, R \subseteq rows
    PROVE  /\ KilledScans(R) \in Seq(Findings)
           /\ \A i \in DOMAIN KilledScans(R) : KilledScans(R)[i].detector = "killed_scan"
<1> DEFINE n == Cardinality({r \in R : r.error.cause \in Killed})
<1>1. n \in Nat
  <2>1. {r \in R : r.error.cause \in Killed} \subseteq rows
    OBVIOUS
  <2> QED
    BY <2>1, Counted DEF Shape
<1>2. KilledScans(R) = << >> \/ KilledScans(R) = <<Finding("killed_scan", "killed", n)>>
  BY Zenon DEF KilledScans
<1> HIDE DEF n
<1>3. Finding("killed_scan", "killed", n) \in Findings
  BY <1>1 DEF Finding, Findings
<1>4. Finding("killed_scan", "killed", n).detector = "killed_scan"
  BY DEF Finding
<1>5. /\ KilledScans(R) \in Seq(Findings)
      /\ \A i \in DOMAIN KilledScans(R) :
            KilledScans(R)[i] = Finding("killed_scan", "killed", n)
  BY <1>2, <1>3, AtMostOne
<1> QED
  BY <1>4, <1>5

LEMMA LoudestFacts ==
    ASSUME NEW N, NEW S \in Loudest(N)
    PROVE  /\ S \in Seq(N) /\ Len(S) \in 0..MaxNovelPerRun /\ DOMAIN S = 1..Len(S)
           /\ ToSet(S) \subseteq N
  BY Constants DEF Loudest, KeepLoudest, SeqOf, ToSet

\* The findings of a run begin with those of the novelty detector.
LEMMA RunFindings ==
    ASSUME TypeOK, Shape, NEW R, R \subseteq rows, NEW B, B \subseteq rows,
           NEW D, D \subseteq Detailed(rows), NEW E, NEW S \in Loudest(Novel(D, E)),
           NEW F, F = S \o InfraErrorStepChange(R, B) \o KilledScans(D)
    PROVE  /\ F \in Seq(Findings) /\ Capped(F)
           /\ \A i \in DOMAIN S : i \in DOMAIN F /\ F[i] = S[i]
<1> DEFINE A == InfraErrorStepChange(R, B)
           K == KilledScans(D)
           k == Len(S)
<1>1. S \in Seq(Findings) /\ k \in 0..MaxNovelPerRun /\ DOMAIN S = 1..k
  <2>1. Novel(D, E) \subseteq Findings
    BY NovelFindings
  <2> QED
    BY <2>1, LoudestFacts, SeqSubset
<1>2. /\ A \in Seq(Findings) /\ K \in Seq(Findings)
      /\ \A i \in DOMAIN A : A[i].detector = "infra_error_rate"
      /\ \A i \in DOMAIN K : K[i].detector = "killed_scan"
  <2>1. D \subseteq rows
    BY DetailedFacts
  <2> QED
    BY <2>1, RateFindings, KilledFindings
<1>3. F = S \o A \o K
  OBVIOUS
<1> HIDE DEF A, K
<1>4. F \in Seq(Findings)
  BY <1>1, <1>2, <1>3
<1>5. \A i \in DOMAIN S : i \in DOMAIN F /\ F[i] = S[i]
  BY <1>1, <1>2, <1>3, Constants
<1>6. ASSUME NEW i \in DOMAIN F, F[i].detector = "novel_error" PROVE i <= k
  <2> SUFFICES ASSUME i > k PROVE FALSE
    BY <1>1, <1>4, Constants
  <2>0. i \in 1..(Len(S) + Len(A) + Len(K)) /\ Len(A) \in Nat /\ Len(K) \in Nat
    BY <1>1, <1>2, <1>3
  <2>1. CASE i <= k + Len(A)
    <3>1. F[i] = A[i - k] /\ i - k \in DOMAIN A
      BY <1>1, <1>2, <1>3, <2>0, <2>1, Constants
    <3> QED
      BY <1>2, <1>6, <3>1
  <2>2. CASE i > k + Len(A)
    <3>1. F[i] = K[i - (k + Len(A))] /\ i - (k + Len(A)) \in DOMAIN K
      BY <1>1, <1>2, <1>3, <2>0, <2>2, Constants
    <3> QED
      BY <1>2, <1>6, <3>1
  <2> QED
    BY <2>0, <2>1, <2>2, <1>1, Constants
<1>7. Capped(F)
  BY <1>1, <1>6 DEF Capped
<1> QED
  BY <1>4, <1>5, <1>7

-----------------------------------------------------------------------------
(***************************************************************************)
(* Types.                                                                   *)
(***************************************************************************)
RunTyped ==
    /\ stage \in [Pods -> {"idle", "load", "notify", "record"}]
    /\ findings \in [Pods -> Seq(Findings)]
    /\ last = [p \in Pods |-> last[p]]
    /\ \A p \in Pods : (findings[p] = << >>) = (stage[p] = "idle")
    /\ \A p \in Pods : Capped(findings[p])

ClockTyped ==
    /\ config \in [Settings -> Nat \ {0}] /\ ValidConfig(config)
    /\ now \in 0..MaxTime
    /\ rows \subseteq [ts : 0..now, landed : 0..now, error : Errors \cup {NoError}]
    /\ \A r \in rows : r.ts <= r.landed
    /\ IsFiniteSet(rows)
    /\ \A n \in notified : n.at \in 0..now
    /\ started \in [Pods -> Nat] /\ ran \in [Pods -> 0..now]
    /\ faults \in 0..MaxFaults

LEMMA Typed == TypeOK /\ Shape <=> ClockTyped /\ RunTyped
<1>1. TypeOK /\ Shape => ClockTyped /\ RunTyped
  BY DEF TypeOK, Shape, ClockTyped, RunTyped
<1>2. ASSUME ClockTyped, RunTyped PROVE TypeOK /\ Shape
  <2>1. ASSUME NEW p \in Pods
        PROVE  Cardinality({i \in DOMAIN findings[p] :
                  findings[p][i].detector = "novel_error"}) <= MaxNovelPerRun
    BY <1>2, CapBounds DEF RunTyped
  <2>2. TypeOK
    BY <1>2, <2>1 DEF TypeOK, ClockTyped, RunTyped
  <2>3. Shape
    BY <1>2 DEF Shape, ClockTyped, RunTyped
  <2> QED
    BY <2>2, <2>3
<1> QED
  BY <1>1, <1>2

LEMMA ConfigFacts ==
    ASSUME ClockTyped
    PROVE  /\ config.interval \in Nat \ {0} /\ config.recent \in Nat \ {0}
           /\ config.baseline \in Nat \ {0} /\ config.cooldown \in Nat \ {0}
           /\ config.recent >= config.interval /\ config.baseline > config.recent
           /\ now \in Nat
  BY Constants DEF ClockTyped, Settings, ValidConfig

\* What Continue does to the runs.
LEMMA ContinueFacts ==
    ASSUME RunTyped, NEW p \in Pods, NEW s \in {"load", "notify"},
           NEW F \in Seq(Findings), Capped(F), Continue(p, s, F)
    PROVE  /\ RunTyped'
           /\ \A q \in Pods \ {p} : /\ stage'[q] = stage[q]
                                    /\ findings'[q] = findings[q]
                                    /\ last'[q] = last[q]
           /\ findings'[p] = F
           /\ stage'[p] = IF F = << >> THEN "idle" ELSE s
           /\ F # << >> => last'[p] = last[p]
<1>1. \A q \in Pods \ {p} : /\ stage'[q] = stage[q]
                            /\ findings'[q] = findings[q]
                            /\ last'[q] = last[q]
  BY DEF Continue, RunTyped
<1>2. /\ findings'[p] = F
      /\ stage'[p] = IF F = << >> THEN "idle" ELSE s
      /\ F # << >> => last'[p] = last[p]
  BY DEF Continue, RunTyped
<1>3. findings' \in [Pods -> Seq(Findings)]
  BY DEF Continue, RunTyped
<1>4. stage' \in [Pods -> {"idle", "load", "notify", "record"}]
  BY DEF Continue, RunTyped
<1>5. last' = [q \in Pods |-> last'[q]]
  BY DEF Continue, RunTyped
<1>6. ASSUME NEW q \in Pods
      PROVE  (findings'[q] = << >>) = (stage'[q] = "idle") /\ Capped(findings'[q])
  BY <1>1, <1>2 DEF RunTyped
<1> QED
  BY <1>1, <1>2, <1>3, <1>4, <1>5, <1>6 DEF RunTyped, Capped

\* A run that is given up.
LEMMA GiveUpFacts ==
    ASSUME RunTyped, NEW p \in Pods, Continue(p, "idle", << >>)
    PROVE  /\ RunTyped'
           /\ \A q \in Pods \ {p} : /\ stage'[q] = stage[q]
                                    /\ findings'[q] = findings[q]
                                    /\ last'[q] = last[q]
           /\ stage'[p] = "idle"
<1>1. << >> \in Seq(Findings) /\ Capped(<< >>)
  BY Constants DEF Capped
<1>2. Continue(p, "load", << >>)
  BY DEF Continue
<1> QED
  BY <1>1, <1>2, ContinueFacts

LEMMA WindowFacts ==
    ASSUME NEW a, NEW b
    PROVE  Window(a, b) \subseteq rows
  BY DEF Window

\* A run that shows D of the recent window and E of the baseline, and keeps S of
\* what is novel.
Shows(p, D, E, S) ==
    LET recent == Window(RecentSince, now)
        baseline == Window(BaselineSince, RecentSince)
        F == S \o InfraErrorStepChange(recent, baseline) \o KilledScans(D)
    IN  /\ Continue(p, "load", F)
        /\ fired' = fired \cup {[pod |-> p, class |-> Class(F[i]), at |-> now] : i \in DOMAIN F}
        /\ excused' = excused
              \cup {<<p, Class(f), now>> : f \in Novel(D, E) \ ToSet(S)}
              \cup {<<p, <<"novel_error", s>>, now>> : s \in Hidden(recent, D)}

LEMMA EvaluateFacts ==
    ASSUME NEW p \in Pods, Evaluate(p)
    PROVE  /\ stage[p] = "idle" /\ ran' = [ran EXCEPT ![p] = now]
           /\ UNCHANGED <<config, now, rows, notified, started, faults, sent>>
           /\ fired \subseteq fired' /\ excused \subseteq excused'
           /\ \E D \in SUBSET Detailed(rows),
                 E \in SUBSET Detailed(Window(BaselineSince, RecentSince)) :
                 \E S \in Loudest(Novel(D, E)) : Shows(p, D, E, S)
<1>1. /\ stage[p] = "idle" /\ ran' = [ran EXCEPT ![p] = now]
      /\ UNCHANGED <<config, now, rows, notified, started, faults, sent>>
  BY DEF Evaluate
<1>2. PICK D \in InfraErrorDetails(Window(RecentSince, now), config.details),
           E \in InfraErrorDetails(Window(BaselineSince, RecentSince), config.details) :
        \E S \in Loudest(Novel(D, E)) : Shows(p, D, E, S)
  BY Zenon DEF Evaluate, Shows
<1>3. PICK S \in Loudest(Novel(D, E)) : Shows(p, D, E, S)
  BY <1>2
<1>4. fired \subseteq fired' /\ excused \subseteq excused'
  BY <1>3, Zenon DEF Shows
<1>5. /\ D \subseteq Detailed(rows)
      /\ E \subseteq Detailed(Window(BaselineSince, RecentSince))
  BY WindowFacts, ShownFacts
<1> QED
  BY <1>1, <1>3, <1>4, <1>5

\* The findings that are left after the first one.
LEMMA LeftFacts ==
    ASSUME RunTyped, NEW p \in Pods, stage[p] # "idle"
    PROVE  /\ findings[p] # << >> /\ findings[p] \in Seq(Findings)
           /\ Tail(findings[p]) \in Seq(Findings) /\ Capped(Tail(findings[p]))
<1>1. findings[p] # << >> /\ findings[p] \in Seq(Findings) /\ Capped(findings[p])
  BY DEF RunTyped
<1> QED
  BY <1>1, TailFacts, CappedTail

\* What no step takes back.
LEMMA Growth ==
    ASSUME ClockTyped, [Next]_vars
    PROVE  /\ config' = config
           /\ rows \subseteq rows' /\ notified \subseteq notified'
           /\ fired \subseteq fired' /\ excused \subseteq excused'
           /\ \A m \in sent : \E n \in sent' : n.class = m.class /\ n.at = m.at
           /\ now' = now \/ Tick
<1>1. CASE UNCHANGED vars
  BY <1>1 DEF vars, runVars, history
<1>2. ASSUME NEW error \in Errors \cup {NoError}, NEW delay \in 0..MaxDelay, Land(error, delay)
      PROVE  UNCHANGED <<config, now, notified, history>> /\ rows \subseteq rows'
  BY <1>2 DEF Land
<1>3. CASE Tick
  BY <1>3 DEF Tick, history
<1>4. ASSUME NEW p \in Pods,
             Evaluate(p) \/ EvaluateFails(p) \/ LoadCooldowns(p) \/ LoadFails(p) \/ Restart(p)
      PROVE  /\ UNCHANGED <<config, now, rows, notified, sent>>
             /\ fired \subseteq fired' /\ excused \subseteq excused'
  BY <1>4, EvaluateFacts DEF EvaluateFails, LoadCooldowns, LoadFails, Restart, history
<1>5. ASSUME NEW p \in Pods, Suppress(p) \/ Notify(p) \/ NotifyFails(p)
      PROVE  /\ UNCHANGED <<config, now, rows, notified, fired>>
             /\ sent \subseteq sent' /\ excused \subseteq excused'
  BY <1>5 DEF Suppress, Notify, NotifyFails, history
<1>6. ASSUME NEW p \in Pods, RecordNotified(p) \/ RecordFails(p)
      PROVE  /\ UNCHANGED <<config, now, rows, fired, excused>>
             /\ notified \subseteq notified'
             /\ \A m \in sent : \E n \in sent' : n.class = m.class /\ n.at = m.at
  <2>1. Message(p, TRUE).class = Message(p, FALSE).class
    BY DEF Message
  <2>2. Message(p, TRUE).at = Message(p, FALSE).at
    BY DEF Message
  <2>3. \/ sent' = sent
        \/ sent' = (sent \ {Message(p, FALSE)}) \cup {Message(p, TRUE)}
    BY <1>6 DEF RecordNotified, RecordFails
  <2>4. \A m \in sent : \E n \in sent' : n.class = m.class /\ n.at = m.at
    BY <2>1, <2>2, <2>3
  <2> QED
    BY <1>6, <2>4 DEF RecordNotified, RecordFails
<1> QED
  BY <1>1, <1>2, <1>3, <1>4, <1>5, <1>6, Zenon DEF Next, history

\* The clock and the rows are typed as long as a step leaves them alone.
LEMMA ClockSame ==
    ASSUME ClockTyped, UNCHANGED <<config, now, rows>>,
           started' \in [Pods -> Nat], ran' \in [Pods -> 0..now],
           \A n \in notified' : n.at \in 0..now, faults' \in 0..MaxFaults
    PROVE  ClockTyped'
  BY DEF ClockTyped, ValidConfig

LEMMA FaultTyped ==
    ASSUME ClockTyped, Fault
    PROVE  faults' \in 0..MaxFaults
  BY Constants DEF ClockTyped, Fault

LEMMA TypeStep ==
    ASSUME ClockTyped, RunTyped, [Next]_vars
    PROVE  ClockTyped' /\ RunTyped'
<1>t. /\ now \in Nat /\ faults \in 0..MaxFaults /\ started \in [Pods -> Nat]
      /\ ran \in [Pods -> 0..now] /\ \A n \in notified : n.at \in 0..now
  BY Constants DEF ClockTyped
<1>1. CASE UNCHANGED vars
  BY <1>1 DEF vars, runVars, ClockTyped, RunTyped, ValidConfig, Capped
<1>2. ASSUME NEW error \in Errors \cup {NoError}, NEW delay \in 0..MaxDelay, Land(error, delay)
      PROVE  ClockTyped' /\ RunTyped'
  <2> DEFINE r == [ts |-> now - delay, landed |-> now, error |-> error]
  <2>1. r \in [ts : 0..now, landed : 0..now, error : Errors \cup {NoError}] /\ r.ts <= r.landed
    BY <1>2, <1>t, Constants DEF Land
  <2>2. rows' = rows \cup {r} /\ UNCHANGED <<config, now, notified, started, runVars, faults>>
    BY <1>2 DEF Land
  <2> HIDE DEF r
  <2>3. IsFiniteSet(rows')
    BY <2>2, FS_AddElement DEF ClockTyped
  <2>4. ClockTyped'
    BY <2>1, <2>2, <2>3 DEF ClockTyped, ValidConfig, runVars
  <2> QED
    BY <2>2, <2>4 DEF RunTyped, runVars, Capped
<1>3. CASE Tick
  <2>1. /\ now' = now + 1 /\ now < MaxTime
        /\ UNCHANGED <<config, rows, notified, started, runVars, faults>>
    BY <1>3 DEF Tick
  <2>2. now' \in 0..MaxTime /\ 0..now \subseteq 0..now'
    BY <2>1, <1>t, Constants
  <2>3. rows' \subseteq [ts : 0..now', landed : 0..now', error : Errors \cup {NoError}]
    BY <2>1, <2>2 DEF ClockTyped
  <2>4. ran' \in [Pods -> 0..now'] /\ \A n \in notified' : n.at \in 0..now'
    BY <2>1, <2>2, <1>t DEF runVars
  <2>5. ClockTyped'
    BY <2>1, <2>2, <2>3, <2>4 DEF ClockTyped, ValidConfig
  <2> QED
    BY <2>1, <2>5 DEF RunTyped, runVars, Capped
<1>4. ASSUME NEW p \in Pods, Evaluate(p)
      PROVE  ClockTyped' /\ RunTyped'
  <2> DEFINE recent == Window(RecentSince, now)
             baseline == Window(BaselineSince, RecentSince)
  <2>0. PICK D \in SUBSET Detailed(rows), E \in SUBSET Detailed(baseline) :
          \E S \in Loudest(Novel(D, E)) : Shows(p, D, E, S)
    BY <1>4, EvaluateFacts
  <2> DEFINE Run(S) == S \o InfraErrorStepChange(recent, baseline) \o KilledScans(D)
  <2>1. PICK S \in Loudest(Novel(D, E)) : Continue(p, "load", Run(S))
    BY <2>0 DEF Shows
  <2>2. recent \subseteq rows /\ baseline \subseteq rows /\ TypeOK /\ Shape
    BY WindowFacts, Typed
  <2>3. Run(S) \in Seq(Findings) /\ Capped(Run(S))
    <3> HIDE DEF recent, baseline
    <3> QED
      BY <2>2, RunFindings
  <2> HIDE DEF Run
  <2>4. RunTyped'
    BY <2>1, <2>3, ContinueFacts
  <2>5. /\ ran' \in [Pods -> 0..now]
        /\ UNCHANGED <<config, now, rows, notified, started, faults>>
    BY <1>4, <1>t, EvaluateFacts
  <2> QED
    BY <2>4, <2>5, <1>t, ClockSame
<1>5. ASSUME NEW p \in Pods, EvaluateFails(p)
      PROVE  ClockTyped' /\ RunTyped'
  <2>1. /\ ran' \in [Pods -> 0..now] /\ Fault
        /\ UNCHANGED <<config, now, rows, notified, started, stage, findings, last>>
    BY <1>5, <1>t DEF EvaluateFails
  <2> QED
    BY <2>1, <1>t, ClockSame, FaultTyped DEF RunTyped, Capped
<1>6. ASSUME NEW p \in Pods, LoadCooldowns(p)
      PROVE  ClockTyped' /\ RunTyped'
  <2>1. UNCHANGED <<config, now, rows, notified, started, ran, faults, findings>>
    BY <1>6 DEF LoadCooldowns
  <2>2. /\ stage' \in [Pods -> {"idle", "load", "notify", "record"}]
        /\ last' = [q \in Pods |-> last'[q]]
        /\ \A q \in Pods : (stage'[q] = "idle") = (stage[q] = "idle")
    BY <1>6 DEF LoadCooldowns, RunTyped
  <2> QED
    BY <2>1, <2>2, <1>t, ClockSame DEF RunTyped, Capped
<1>7. ASSUME NEW p \in Pods, LoadFails(p)
      PROVE  ClockTyped' /\ RunTyped'
  <2>1. /\ Continue(p, "idle", << >>) /\ Fault
        /\ UNCHANGED <<config, now, rows, notified, started, ran>>
    BY <1>7 DEF LoadFails
  <2> QED
    BY <2>1, <1>t, ClockSame, FaultTyped, GiveUpFacts
<1>8. ASSUME NEW p \in Pods, Notify(p)
      PROVE  ClockTyped' /\ RunTyped'
  <2>1. UNCHANGED <<config, now, rows, notified, started, ran, faults, findings, last>>
    BY <1>8 DEF Notify
  <2>2. /\ stage' \in [Pods -> {"idle", "load", "notify", "record"}]
        /\ \A q \in Pods : (stage'[q] = "idle") = (stage[q] = "idle")
    BY <1>8 DEF Notify, RunTyped
  <2> QED
    BY <2>1, <2>2, <1>t, ClockSame DEF RunTyped, Capped
<1>9. ASSUME NEW p \in Pods,
             Suppress(p) \/ NotifyFails(p) \/ RecordNotified(p) \/ RecordFails(p)
      PROVE  ClockTyped' /\ RunTyped'
  <2>1. /\ Continue(p, "notify", Tail(findings[p])) /\ stage[p] # "idle"
        /\ UNCHANGED <<config, now, rows, started, ran>>
        /\ Fault \/ faults' = faults
    BY <1>9 DEF Suppress, NotifyFails, RecordNotified, RecordFails
  <2>2. \/ notified' = notified
        \/ notified' = notified \cup {[key |-> CooldownKey(Head(findings[p])), at |-> now]}
    BY <1>9 DEF Suppress, NotifyFails, RecordNotified, RecordFails
  <2>3. \A n \in notified' : n.at \in 0..now
    BY <2>2, <1>t
  <2>4. RunTyped'
    BY <2>1, LeftFacts, ContinueFacts
  <2> QED
    BY <2>1, <2>3, <2>4, <1>t, ClockSame, FaultTyped
<1>10. ASSUME NEW p \in Pods, Restart(p)
       PROVE  ClockTyped' /\ RunTyped'
  <2>1. /\ Continue(p, "idle", << >>) /\ Fault /\ started' \in [Pods -> Nat]
        /\ UNCHANGED <<config, now, rows, notified, ran>>
    BY <1>10, <1>t DEF Restart
  <2> QED
    BY <2>1, <1>t, ClockSame, FaultTyped, GiveUpFacts
<1> QED
  BY <1>1, <1>2, <1>3, <1>4, <1>5, <1>6, <1>7, <1>8, <1>9, <1>10, Zenon DEF Next

-----------------------------------------------------------------------------
(***************************************************************************)
(* The channel and the table.                                               *)
(***************************************************************************)
Announces(p) ==
    /\ stage[p] = "notify" /\ ~Quiet(p, Head(findings[p]))
    /\ sent' = sent \cup {Message(p, FALSE)}
    /\ notified' = notified

Records(p) ==
    /\ stage[p] = "record"
    /\ notified' = notified \cup {[key |-> CooldownKey(Head(findings[p])), at |-> now]}
    /\ sent' = (sent \ {Message(p, FALSE)}) \cup {Message(p, TRUE)}

LEMMA ChannelSteps ==
    ASSUME ClockTyped, [Next]_vars
    PROVE  \/ UNCHANGED <<sent, notified>> /\ (now' = now \/ Tick)
           \/ now' = now /\ \E p \in Pods : Announces(p) \/ Records(p)
<1>1. CASE UNCHANGED vars
  BY <1>1 DEF vars, history
<1>2. ASSUME NEW error \in Errors \cup {NoError}, NEW delay \in 0..MaxDelay, Land(error, delay)
      PROVE  UNCHANGED <<now, sent, notified>>
  BY <1>2 DEF Land, history
<1>3. CASE Tick
  BY <1>3 DEF Tick, history
<1>4. ASSUME NEW p \in Pods,
             \/ Evaluate(p) \/ EvaluateFails(p) \/ LoadCooldowns(p) \/ LoadFails(p)
             \/ Suppress(p) \/ Restart(p)
      PROVE  UNCHANGED <<now, sent, notified>>
  BY <1>4, EvaluateFacts DEF EvaluateFails, LoadCooldowns, LoadFails, Suppress, Restart, history
<1>5. ASSUME NEW p \in Pods,
             Notify(p) \/ NotifyFails(p) \/ RecordNotified(p) \/ RecordFails(p)
      PROVE  now' = now /\ (Announces(p) \/ Records(p) \/ UNCHANGED <<sent, notified>>)
  BY <1>5 DEF Notify, NotifyFails, RecordNotified, RecordFails, Announces, Records
<1> QED
  BY <1>1, <1>2, <1>3, <1>4, <1>5, Zenon DEF Next

LEMMA MessageFields ==
    ASSUME NEW p, NEW b \in BOOLEAN
    PROVE  /\ Message(p, b).class = Class(Head(findings[p]))
           /\ Message(p, b).at = now
           /\ Message(p, b).pod = p
           /\ Message(p, b).recorded = b
  BY DEF Message

LEMMA ToldStep ==
    ASSUME ClockTyped, Told, [Next]_vars
    PROVE  Told'
<1>t. now \in Nat /\ now' \in Nat /\ now <= now'
  BY Growth, ConfigFacts DEF Tick
<1>1. CASE UNCHANGED <<sent, notified>>
  BY <1>1, <1>t DEF Told
<1>2. ASSUME NEW p \in Pods, Announces(p), now' = now
      PROVE  Told'
  <2> DEFINE w == Message(p, FALSE)
  <2>1. sent' = sent \cup {w} /\ notified' = notified
    BY <1>2 DEF Announces
  <2>2. w.at = now /\ w.recorded = FALSE
    BY MessageFields
  <2> HIDE DEF w
  <2>3. \A m \in sent' : m.at \in 0..now'
    BY <1>2, <1>t, <2>1, <2>2 DEF Told
  <2>4. \A m \in sent' : m.recorded => [key |-> m.class, at |-> m.at] \in notified'
    BY <2>1, <2>2 DEF Told
  <2>5. \A n \in notified' : \E m \in sent' : m.class = n.key /\ m.at = n.at
    BY <2>1 DEF Told
  <2> QED
    BY <2>3, <2>4, <2>5 DEF Told
<1>3. ASSUME NEW p \in Pods, Records(p), now' = now
      PROVE  Told'
  <2> DEFINE c == Class(Head(findings[p]))
             x == [key |-> c, at |-> now]
             w == Message(p, TRUE)
             v == Message(p, FALSE)
  <2>1. notified' = notified \cup {x} /\ sent' = (sent \ {v}) \cup {w}
    BY <1>3 DEF Records, CooldownKey
  <2>2. w.class = c /\ w.at = now
    BY MessageFields
  <2>3. v.class = c /\ v.at = now
    BY MessageFields
  <2> HIDE DEF c, w, v
  <2>4. \A m \in sent' : m.at \in 0..now'
    BY <1>3, <1>t, <2>1, <2>2 DEF Told
  <2>5. \A m \in sent' : m.recorded => [key |-> m.class, at |-> m.at] \in notified'
    BY <2>1, <2>2 DEF Told
  <2>6. \A n \in notified' : \E m \in sent' : m.class = n.key /\ m.at = n.at
    BY <2>1, <2>2, <2>3 DEF Told
  <2> QED
    BY <2>4, <2>5, <2>6 DEF Told
<1> QED
  BY <1>1, <1>2, <1>3, ChannelSteps

\* A message of a class that was announced and recorded within the cooldown is
\* held back: the run has loaded the entry of the earlier one.
LEMMA QuietStep ==
    ASSUME ClockTyped, Told, Loads, QuietWithinCooldown, [Next]_vars
    PROVE  QuietWithinCooldown'
<1>t. now \in Nat /\ config' = config /\ config.cooldown \in Nat \ {0}
  BY Growth, ConfigFacts
<1>a. \A m \in sent : m.at \in 0..now
  BY DEF Told
<1>1. CASE UNCHANGED <<sent, notified>>
  BY <1>1, <1>t DEF QuietWithinCooldown
<1>2. ASSUME NEW p \in Pods, Announces(p)
      PROVE  QuietWithinCooldown'
  <2> DEFINE c == Class(Head(findings[p]))
             w == Message(p, FALSE)
  <2>1. sent' = sent \cup {w} /\ stage[p] = "notify" /\ ~Quiet(p, Head(findings[p]))
    BY <1>2 DEF Announces
  <2>2. w.class = c /\ w.at = now /\ w.recorded = FALSE
    BY MessageFields
  <2>3. ASSUME NEW m \in sent, m.recorded, m.class = c, m.at < now, now - m.at < config.cooldown
        PROVE  FALSE
    <3>1. [key |-> c, at |-> m.at] \in notified
      BY <2>3 DEF Told
    <3>2. c \in DOMAIN last[p] /\ last[p][c] >= m.at
      BY <3>1, <2>1, <2>3 DEF Loads
    <3>3. \E n \in notified : n.key = c /\ n.at = last[p][c]
      BY <3>2, <2>1 DEF Loads
    <3>4. last[p][c] \in 0..now
      BY <3>3 DEF ClockTyped
    <3>5. now - last[p][c] < config.cooldown
      BY <3>2, <3>4, <2>3, <1>a, <1>t
    <3> QED
      BY <3>2, <3>5, <2>1 DEF Quiet, CooldownKey
  <2> HIDE DEF c, w
  <2> SUFFICES ASSUME NEW m \in sent', NEW n \in sent', m.class = n.class, m.at < n.at,
                      n.at - m.at < config.cooldown, m.recorded
               PROVE  FALSE
    BY <1>t DEF QuietWithinCooldown
  <2>4. CASE m = w
    BY <2>4, <2>2
  <2>5. CASE m \in sent /\ n = w
    BY <2>5, <2>2, <2>3
  <2>6. CASE m \in sent /\ n \in sent
    BY <2>6 DEF QuietWithinCooldown
  <2> QED
    BY <2>1, <2>4, <2>5, <2>6
<1>3. ASSUME NEW p \in Pods, Records(p)
      PROVE  QuietWithinCooldown'
  <2> DEFINE w == Message(p, TRUE)
             v == Message(p, FALSE)
  <2>1. sent' = (sent \ {v}) \cup {w} /\ v \in sent
    BY <1>3 DEF Records, Loads
  <2>2. w.class = v.class /\ w.at = now /\ v.at = now
    <3>1. /\ Message(p, TRUE).class = Class(Head(findings[p])) /\ Message(p, TRUE).at = now
          /\ Message(p, FALSE).class = Class(Head(findings[p])) /\ Message(p, FALSE).at = now
      BY DEF Message
    <3> QED
      BY <3>1
  <2> HIDE DEF w, v
  <2> SUFFICES ASSUME NEW m \in sent', NEW n \in sent', m.class = n.class, m.at < n.at,
                      n.at - m.at < config.cooldown, m.recorded
               PROVE  FALSE
    BY <1>t DEF QuietWithinCooldown
  <2>3. n.at \in 0..now /\ m.at \in 0..now
    BY <2>1, <2>2, <1>a, <1>t
  <2>4. m # w /\ m \in sent
    BY <2>1, <2>2, <2>3, <1>t
  <2>5. PICK k \in sent : k.class = n.class /\ k.at = n.at
    BY <2>1, <2>2
  <2> QED
    BY <2>4, <2>5 DEF QuietWithinCooldown
<1> QED
  BY <1>1, <1>2, <1>3, ChannelSteps

\* The newest entry of a key that has one.
LEMMA NewestEntry ==
    ASSUME ClockTyped, NEW n \in notified
    PROVE  /\ LastNotified(n.key) >= n.at
           /\ \E m \in notified : m.key = n.key /\ m.at = LastNotified(n.key)
<1> DEFINE at == {x.at : x \in {m \in notified : m.key = n.key}}
<1>1. at \subseteq 0..now /\ n.at \in at /\ now \in Nat
  BY ConfigFacts DEF ClockTyped
<1>2. LastNotified(n.key) = CHOOSE t \in at : \A u \in at : u <= t
  <2>1. at # {}
    BY <1>1
  <2> HIDE DEF at
  <2>2. LastNotified(n.key) = IF at = {} THEN -1 ELSE CHOOSE t \in at : \A u \in at : u <= t
    BY Zenon DEF LastNotified, at
  <2> QED
    BY <2>1, <2>2
<1> HIDE DEF at
<1>3. \E t \in at : \A u \in at : u <= t
  BY <1>1, Latest
<1>4. LastNotified(n.key) \in at /\ \A u \in at : u <= LastNotified(n.key)
  BY <1>2, <1>3, Zenon
<1>5. \E m \in notified : m.key = n.key /\ m.at = LastNotified(n.key)
  BY <1>4 DEF at
<1> QED
  BY <1>1, <1>4, <1>5

LEMMA LoadedFacts ==
    ASSUME ClockTyped
    PROVE  /\ \A n \in notified : n.key \in DOMAIN Loaded /\ Loaded[n.key] >= n.at
           /\ \A k \in DOMAIN Loaded : \E n \in notified : n.key = k /\ n.at = Loaded[k]
<1>1. /\ DOMAIN Loaded = {n.key : n \in notified}
      /\ \A n \in notified : Loaded[n.key] = LastNotified(n.key)
  BY DEF Loaded
<1> QED
  BY <1>1, NewestEntry

\* A run that is past loading has just loaded, or has the cooldowns it had.
Holds(q) ==
    /\ stage[q] \in {"notify", "record"} /\ last'[q] = last[q]
    /\ stage'[q] = "record" =>
          \/ Notify(q)
          \/ /\ stage[q] = "record" /\ findings'[q] = findings[q]
             /\ Message(q, FALSE) \in sent => Message(q, FALSE) \in sent'

LEMMA LoadSteps ==
    ASSUME ClockTyped, RunTyped, [Next]_vars, NEW q \in Pods, stage'[q] \in {"notify", "record"}
    PROVE  now' = now /\ (LoadCooldowns(q) \/ Holds(q))
<1>1. CASE UNCHANGED vars
  BY <1>1 DEF vars, runVars, history, Holds
<1>2. ASSUME NEW error \in Errors \cup {NoError}, NEW delay \in 0..MaxDelay, Land(error, delay)
      PROVE  now' = now /\ Holds(q)
  BY <1>2 DEF Land, runVars, history, Holds
<1>3. CASE Tick
  BY <1>3 DEF Tick, runVars
<1>4. ASSUME NEW p \in Pods, Evaluate(p)
      PROVE  now' = now /\ Holds(q)
  <2>1. now' = now /\ sent' = sent
    BY <1>4, EvaluateFacts
  <2>2. PICK F : Continue(p, "load", F)
    BY <1>4, EvaluateFacts, Zenon DEF Shows
  <2>3. /\ stage'[p] \in {"idle", "load"}
        /\ q # p => stage'[q] = stage[q] /\ findings'[q] = findings[q] /\ last'[q] = last[q]
    BY <2>2 DEF Continue, RunTyped
  <2> QED
    BY <2>1, <2>3 DEF Holds
<1>5. ASSUME NEW p \in Pods, EvaluateFails(p)
      PROVE  now' = now /\ Holds(q)
  BY <1>5 DEF EvaluateFails, Holds
<1>6. ASSUME NEW p \in Pods, LoadCooldowns(p)
      PROVE  now' = now /\ (LoadCooldowns(q) \/ Holds(q))
  BY <1>6 DEF LoadCooldowns, Holds, RunTyped, history
<1>7. ASSUME NEW p \in Pods, LoadFails(p) \/ Restart(p)
      PROVE  now' = now /\ Holds(q)
  <2>1. now' = now /\ sent' = sent /\ Continue(p, "idle", << >>)
    BY <1>7 DEF LoadFails, Restart
  <2> QED
    BY <2>1, GiveUpFacts DEF Holds
<1>8. ASSUME NEW p \in Pods, Notify(p)
      PROVE  now' = now /\ Holds(q)
  BY <1>8 DEF Notify, Holds, RunTyped
<1>9. ASSUME NEW p \in Pods,
             Suppress(p) \/ NotifyFails(p) \/ RecordNotified(p) \/ RecordFails(p)
      PROVE  now' = now /\ Holds(q)
  <2>1. /\ now' = now /\ Continue(p, "notify", Tail(findings[p]))
        /\ stage[p] \in {"notify", "record"}
        /\ \/ sent \subseteq sent'
           \/ sent' = (sent \ {Message(p, FALSE)}) \cup {Message(p, TRUE)}
    BY <1>9 DEF Suppress, NotifyFails, RecordNotified, RecordFails, history
  <2>2. /\ stage'[p] \in {"idle", "notify"} /\ (stage'[p] # "idle" => last'[p] = last[p])
        /\ q # p => stage'[q] = stage[q] /\ findings'[q] = findings[q] /\ last'[q] = last[q]
    BY <2>1, LeftFacts, ContinueFacts
  <2>3. q # p /\ Message(q, FALSE) \in sent => Message(q, FALSE) \in sent'
    <3>1. Message(q, FALSE).pod = q /\ Message(p, FALSE).pod = p
      BY MessageFields
    <3> QED
      BY <2>1, <3>1
  <2>4. CASE q = p
    BY <2>1, <2>2, <2>4 DEF Holds
  <2>5. CASE q # p
    BY <2>1, <2>2, <2>3, <2>5 DEF Holds
  <2> QED
    BY <2>1, <2>4, <2>5
<1> QED
  BY <1>1, <1>2, <1>3, <1>4, <1>5, <1>6, <1>7, <1>8, <1>9, Zenon DEF Next

LEMMA LoadsStep ==
    ASSUME ClockTyped, RunTyped, Loads, [Next]_vars
    PROVE  Loads'
<1> SUFFICES ASSUME NEW q \in Pods, stage'[q] \in {"notify", "record"}
             PROVE  /\ \A n \in notified' : n.at < now' =>
                          n.key \in DOMAIN last'[q] /\ last'[q][n.key] >= n.at
                    /\ \A k \in DOMAIN last'[q] :
                          \E n \in notified' : n.key = k /\ n.at = last'[q][k]
                    /\ stage'[q] = "record" => (Message(q, FALSE) \in sent)'
  BY DEF Loads
<1>t. now' = now /\ now \in Nat
  BY LoadSteps, ConfigFacts
<1>1. CASE LoadCooldowns(q)
  <2>1. last'[q] = Loaded /\ stage'[q] = "notify" /\ notified' = notified
    BY <1>1 DEF LoadCooldowns, RunTyped
  <2> QED
    BY <2>1, LoadedFacts
<1>2. CASE Holds(q)
  <2>1. \A n \in notified' : n \in notified \/ n.at = now
    <3>1. \/ notified' = notified
          \/ \E p \in Pods :
                notified' = notified \cup {[key |-> CooldownKey(Head(findings[p])), at |-> now]}
      BY ChannelSteps DEF Announces, Records
    <3> QED
      BY <3>1
  <2>2. notified \subseteq notified'
    BY Growth
  <2>3. last'[q] = last[q] /\ stage[q] \in {"notify", "record"}
    BY <1>2 DEF Holds
  <2>4. \A n \in notified' : n.at < now' =>
          n.key \in DOMAIN last'[q] /\ last'[q][n.key] >= n.at
    <3>1. \A n \in notified : n.at < now => n.key \in DOMAIN last[q] /\ last[q][n.key] >= n.at
      BY <2>3 DEF Loads
    <3> QED
      BY <1>t, <2>1, <2>3, <3>1
  <2>5. \A k \in DOMAIN last'[q] : \E n \in notified' : n.key = k /\ n.at = last'[q][k]
    <3>1. \A k \in DOMAIN last[q] : \E n \in notified : n.key = k /\ n.at = last[q][k]
      BY <2>3 DEF Loads
    <3> QED
      BY <2>2, <2>3, <3>1
  <2>6. CASE Notify(q)
    <3>1. Message(q, FALSE) \in sent' /\ findings' = findings
      BY <2>6 DEF Notify
    <3> QED
      BY <3>1, <2>4, <2>5, <1>t DEF Message
  <2>7. CASE stage'[q] = "record" /\ ~Notify(q)
    <3>1. Message(q, FALSE) \in sent' /\ findings'[q] = findings[q]
      BY <1>2, <2>7 DEF Holds, Loads
    <3> QED
      BY <3>1, <2>4, <2>5, <1>t DEF Message
  <2> QED
    BY <2>4, <2>5, <2>6, <2>7
<1> QED
  BY <1>1, <1>2, LoadSteps

-----------------------------------------------------------------------------
(***************************************************************************)
(* What fired.                                                              *)
(***************************************************************************)
LEMMA SettledStays ==
    ASSUME ClockTyped, [Next]_vars, NEW f, Settled(f)
    PROVE  Settled(f)'
<1>1. config' = config /\ excused \subseteq excused'
  BY Growth
<1>2. CASE Excused(f.pod, f.class, f.at)
  BY <1>1, <1>2 DEF Settled, Excused
<1>3. ASSUME NEW m \in sent, m.class = f.class, f.at - m.at \in 0..(config.cooldown - 1)
      PROVE  Settled(f)'
  <2>1. PICK n \in sent' : n.class = m.class /\ n.at = m.at
    BY Growth
  <2> QED
    BY <1>1, <1>3, <2>1 DEF Settled
<1> QED
  BY <1>2, <1>3 DEF Settled

\* A message of this instant settles its finding.
LEMMA SettledNow ==
    ASSUME ClockTyped, config' = config, NEW f, f.at = now,
           NEW m \in sent', m.class = f.class, m.at = now
    PROVE  Settled(f)'
  BY ConfigFacts DEF Settled

\* The finding a run is done with is in the channel, or given up.
LEMMA HeadSettled ==
    ASSUME ClockTyped, RunTyped, Told, Loads, NEW p \in Pods,
           Suppress(p) \/ NotifyFails(p) \/ RecordNotified(p) \/ RecordFails(p),
           NEW f, f.pod = p, f.at = now, f.class = Class(Head(findings[p]))
    PROVE  Settled(f)'
<1>t. now \in Nat /\ config.cooldown \in Nat \ {0}
  BY ConfigFacts
<1>c. config' = config
  BY DEF Suppress, NotifyFails, RecordNotified, RecordFails
<1>m. \A b \in BOOLEAN : Message(p, b).class = f.class /\ Message(p, b).at = now
  BY MessageFields
<1>1. CASE Suppress(p)
  <2>1. /\ stage[p] = "notify" /\ sent' = sent
        /\ f.class \in DOMAIN last[p] /\ now - last[p][f.class] < config.cooldown
    BY <1>1 DEF Suppress, Quiet, CooldownKey, history
  <2>2. PICK n \in notified : n.key = f.class /\ n.at = last[p][f.class]
    BY <2>1 DEF Loads
  <2>3. PICK m \in sent : m.class = f.class /\ m.at = n.at
    BY <2>2 DEF Told
  <2>4. m.at \in 0..now
    BY DEF Told
  <2>5. f.at - m.at \in 0..(config.cooldown - 1)
    BY <1>t, <2>1, <2>2, <2>3, <2>4
  <2> QED
    BY <1>c, <2>1, <2>3, <2>5 DEF Settled
<1>2. CASE NotifyFails(p)
  <2>1. CASE sent' = sent \cup {Message(p, FALSE)}
    BY <1>c, <1>m, <2>1, SettledNow
  <2>2. CASE excused' = excused \cup {<<p, Class(Head(findings[p])), now>>}
    BY <2>2 DEF Settled, Excused
  <2> QED
    BY <1>2, <2>1, <2>2 DEF NotifyFails
<1>3. CASE RecordNotified(p)
  <2>1. Message(p, TRUE) \in sent'
    BY <1>3 DEF RecordNotified
  <2> QED
    BY <1>c, <1>m, <2>1, SettledNow
<1>4. CASE RecordFails(p)
  <2>1. stage[p] = "record"
    BY <1>4 DEF RecordFails
  <2>2. Message(p, TRUE) \in sent' \/ Message(p, FALSE) \in sent'
    BY <1>4, <2>1 DEF RecordFails, Loads
  <2> QED
    BY <1>c, <1>m, <2>2, SettledNow
<1> QED
  BY <1>1, <1>2, <1>3, <1>4

LEMMA PendingSame ==
    ASSUME NEW f, Pending(f), now' = now, findings'[f.pod] = findings[f.pod],
           stage'[f.pod] # "idle"
    PROVE  Pending(f)'
  BY DEF Pending, Class

LEMMA PendingStep ==
    ASSUME ClockTyped, RunTyped, Told, Loads, [Next]_vars, NEW f, Pending(f)
    PROVE  (Settled(f) \/ Pending(f))'
<1>f. f.pod \in Pods /\ f.at = now /\ stage[f.pod] # "idle"
  BY DEF Pending
<1>1. CASE UNCHANGED vars
  BY <1>1, <1>f, PendingSame DEF vars, runVars
<1>2. ASSUME NEW error \in Errors \cup {NoError}, NEW delay \in 0..MaxDelay, Land(error, delay)
      PROVE  Pending(f)'
  BY <1>2, <1>f, PendingSame DEF Land, runVars
<1>3. CASE Tick
  BY <1>3, <1>f DEF Tick
<1>4. ASSUME NEW p \in Pods, Evaluate(p)
      PROVE  Pending(f)'
  <2>1. now' = now /\ stage[p] = "idle"
    BY <1>4, EvaluateFacts
  <2>2. PICK F : Continue(p, "load", F)
    BY <1>4, EvaluateFacts, Zenon DEF Shows
  <2>3. stage'[f.pod] = stage[f.pod] /\ findings'[f.pod] = findings[f.pod]
    BY <1>f, <2>1, <2>2 DEF Continue, RunTyped
  <2> QED
    BY <1>f, <2>1, <2>3, PendingSame
<1>5. ASSUME NEW p \in Pods, EvaluateFails(p)
      PROVE  Pending(f)'
  BY <1>5, <1>f, PendingSame DEF EvaluateFails
<1>6. ASSUME NEW p \in Pods, LoadCooldowns(p) \/ Notify(p)
      PROVE  Pending(f)'
  <2>1. now' = now /\ findings' = findings /\ stage'[f.pod] # "idle"
    BY <1>6, <1>f DEF LoadCooldowns, Notify, RunTyped
  <2> QED
    BY <2>1, PendingSame
<1>7. ASSUME NEW p \in Pods, LoadFails(p) \/ Restart(p)
      PROVE  (Settled(f) \/ Pending(f))'
  <2>1. /\ now' = now /\ Continue(p, "idle", << >>)
        /\ excused' = excused \cup {<<p, Anything, now>>}
    BY <1>7 DEF LoadFails, Restart
  <2>2. CASE f.pod = p
    BY <1>f, <2>1, <2>2 DEF Settled, Excused
  <2>3. CASE f.pod # p
    <3>1. stage'[f.pod] = stage[f.pod] /\ findings'[f.pod] = findings[f.pod]
      BY <1>f, <2>1, <2>3, GiveUpFacts
    <3> QED
      BY <1>f, <2>1, <3>1, PendingSame
  <2> QED
    BY <2>2, <2>3
<1>8. ASSUME NEW p \in Pods,
             Suppress(p) \/ NotifyFails(p) \/ RecordNotified(p) \/ RecordFails(p)
      PROVE  (Settled(f) \/ Pending(f))'
  <2>1. now' = now /\ Continue(p, "notify", Tail(findings[p])) /\ stage[p] # "idle"
    BY <1>8 DEF Suppress, NotifyFails, RecordNotified, RecordFails
  <2>2. /\ \A q \in Pods \ {p} : stage'[q] = stage[q] /\ findings'[q] = findings[q]
        /\ findings'[p] = Tail(findings[p])
        /\ stage'[p] = IF Tail(findings[p]) = << >> THEN "idle" ELSE "notify"
    BY <2>1, LeftFacts, ContinueFacts
  <2>3. CASE f.pod # p
    BY <1>f, <2>1, <2>2, <2>3, PendingSame
  <2>4. CASE f.pod = p
    <3>1. PICK i \in DOMAIN findings[p] : Class(findings[p][i]) = f.class
      BY <2>4 DEF Pending
    <3>2. findings[p] # << >> /\ findings[p] \in Seq(Findings)
      BY <2>1, LeftFacts
    <3>3. CASE i = 1
      <4>1. f.class = Class(Head(findings[p]))
        BY <3>1, <3>2, <3>3, TailFacts
      <4> QED
        BY <1>8, <1>f, <2>4, <4>1, HeadSettled
    <3>4. CASE i # 1
      <4>1. i - 1 \in DOMAIN findings'[p] /\ findings'[p][i - 1] = findings[p][i]
        BY <2>2, <3>1, <3>2, <3>4, TailFacts
      <4>2. stage'[p] # "idle"
        BY <2>2, <4>1
      <4>3. Class(findings'[p][i - 1]) = f.class
        BY <3>1, <4>1
      <4>4. \E j \in DOMAIN findings'[p] : Class(findings'[p][j]) = f.class
        BY <4>1, <4>3
      <4> QED
        BY <1>f, <2>1, <2>4, <4>2, <4>4 DEF Pending, Class
    <3> QED
      BY <3>3, <3>4
  <2> QED
    BY <2>3, <2>4
<1> QED
  BY <1>1, <1>2, <1>3, <1>4, <1>5, <1>6, <1>7, <1>8, Zenon DEF Next

LEMMA AccountedStep ==
    ASSUME ClockTyped, RunTyped, Told, Loads, Accounted, [Next]_vars
    PROVE  Accounted'
<1>t. now \in Nat /\ now' \in Nat /\ now <= now'
  BY Growth, ConfigFacts DEF Tick
<1>1. ASSUME NEW f \in fired PROVE f.at \in 0..now' /\ (Settled(f) \/ Pending(f))'
  <2>1. f.at \in 0..now /\ (Settled(f) \/ Pending(f))
    BY DEF Accounted
  <2> QED
    BY <1>t, <2>1, SettledStays, PendingStep
<1>2. CASE fired' = fired
  BY <1>1, <1>2 DEF Accounted
<1>3. ASSUME NEW p \in Pods, Evaluate(p) PROVE Accounted'
  <2>1. PICK F : /\ Continue(p, "load", F)
                 /\ fired' = fired \cup
                      {[pod |-> p, class |-> Class(F[i]), at |-> now] : i \in DOMAIN F}
    BY <1>3, EvaluateFacts, Zenon DEF Shows
  <2>2. now' = now
    BY <1>3, EvaluateFacts
  <2>3. ASSUME NEW i \in DOMAIN F, NEW f, f = [pod |-> p, class |-> Class(F[i]), at |-> now]
        PROVE  f.at \in 0..now' /\ Pending(f)'
    <3>1. f.pod = p /\ f.at = now /\ f.class = Class(F[i])
      BY <2>3
    <3>2. findings'[p] = F /\ stage'[p] = "load"
      BY <2>1, <2>3 DEF Continue, RunTyped
    <3>3. \E j \in DOMAIN findings'[p] : Class(findings'[p][j]) = f.class
      BY <3>1, <3>2
    <3> QED
      BY <1>t, <2>2, <3>1, <3>2, <3>3 DEF Pending, Class
  <2>4. ASSUME NEW f \in fired' PROVE f.at \in 0..now' /\ (Settled(f) \/ Pending(f))'
    BY <1>1, <2>1, <2>3
  <2> QED
    BY <2>4 DEF Accounted
<1>4. fired' = fired \/ \E p \in Pods : Evaluate(p)
  <2>1. CASE UNCHANGED vars
    BY <2>1 DEF vars, history
  <2>2. ASSUME NEW error, NEW delay, Land(error, delay) PROVE fired' = fired
    BY <2>2 DEF Land, history
  <2>3. CASE Tick
    BY <2>3 DEF Tick, history
  <2>4. ASSUME NEW p \in Pods,
               \/ EvaluateFails(p) \/ LoadCooldowns(p) \/ LoadFails(p) \/ Suppress(p)
               \/ Notify(p) \/ NotifyFails(p) \/ RecordNotified(p) \/ RecordFails(p)
               \/ Restart(p)
        PROVE  fired' = fired
    BY <2>4 DEF EvaluateFails, LoadCooldowns, LoadFails, Suppress, Notify, NotifyFails,
                RecordNotified, RecordFails, Restart, history
  <2> QED
    BY <2>1, <2>2, <2>3, <2>4, Zenon DEF Next
<1> QED
  BY <1>2, <1>3, <1>4

-----------------------------------------------------------------------------
(***************************************************************************)
(* What a tick sees.                                                        *)
(***************************************************************************)
\* A tick is taken by a run: the clock does not pass one that is due.
LEMMA TakenStep ==
    ASSUME ClockTyped, [Next]_vars, NEW p \in Pods, NEW t \in 0..now', Taken(p, t)'
    PROVE  \/ Taken(p, t)
           \/ t = now /\ UNCHANGED <<config, now, rows>> /\ (Evaluate(p) \/ EvaluateFails(p))
<1>t. /\ now \in Nat /\ started \in [Pods -> Nat] /\ ran \in [Pods -> 0..now]
      /\ config.interval \in Nat \ {0}
  BY ConfigFacts DEF ClockTyped
<1>1. CASE UNCHANGED <<config, now, started, ran>>
  BY <1>1 DEF Taken
<1>2. CASE Tick
  <2>1. /\ now' = now + 1 /\ UNCHANGED <<config, started, ran>>
        /\ ~(now > started[p] /\ ran[p] # now /\ (now - started[p]) % config.interval = 0)
    BY <1>2 DEF Tick, Due, runVars
  <2>2. t > started[p] /\ (t - started[p]) % config.interval = 0 /\ t \in 0..now
    BY <1>t, <2>1 DEF Taken
  <2>3. CASE t < now
    BY <2>2, <2>3 DEF Taken
  <2>4. CASE t = now
    BY <2>1, <2>2, <2>4 DEF Taken
  <2> QED
    BY <1>t, <2>2, <2>3, <2>4
<1>3. ASSUME NEW q \in Pods, Evaluate(q) \/ EvaluateFails(q)
      PROVE  \/ Taken(p, t)
             \/ t = now /\ UNCHANGED <<config, now, rows>> /\ (Evaluate(p) \/ EvaluateFails(p))
  <2>1. /\ UNCHANGED <<config, now, rows, started>>
        /\ q # p => ran'[p] = ran[p]
    BY <1>3, <1>t, EvaluateFacts DEF EvaluateFails
  <2>2. CASE q = p /\ t = now
    BY <1>3, <2>1, <2>2
  <2>3. CASE q # p \/ t # now
    BY <1>t, <2>1, <2>3 DEF Taken
  <2> QED
    BY <2>2, <2>3
<1>4. ASSUME NEW q \in Pods, Restart(q)
      PROVE  Taken(p, t)
  <2>1. /\ UNCHANGED <<config, now, ran>>
        /\ started'[p] = IF q = p THEN now ELSE started[p]
    BY <1>4, <1>t DEF Restart
  <2> QED
    BY <1>t, <2>1 DEF Taken
<1>5. \/ UNCHANGED <<config, now, started, ran>>
      \/ Tick
      \/ \E q \in Pods : Evaluate(q) \/ EvaluateFails(q) \/ Restart(q)
  <2>1. CASE UNCHANGED vars
    BY <2>1 DEF vars, runVars
  <2>2. ASSUME NEW error, NEW delay, Land(error, delay)
        PROVE  UNCHANGED <<config, now, started, ran>>
    BY <2>2 DEF Land, runVars
  <2>3. ASSUME NEW q \in Pods,
               \/ LoadCooldowns(q) \/ LoadFails(q) \/ Suppress(q)
               \/ Notify(q) \/ NotifyFails(q) \/ RecordNotified(q) \/ RecordFails(q)
        PROVE  UNCHANGED <<config, now, started, ran>>
    BY <2>3 DEF LoadCooldowns, LoadFails, Suppress, Notify, NotifyFails, RecordNotified,
                RecordFails
  <2> QED
    BY <2>1, <2>2, <2>3, Zenon DEF Next
<1> QED
  BY <1>1, <1>2, <1>3, <1>4, <1>5

\* A row that a step adds is too young for every tick so far.
LEMMA RowSteps ==
    ASSUME ClockTyped, [Next]_vars, NEW r \in rows', r \notin rows
    PROVE  r.landed = now /\ now' = now
<1>1. ASSUME NEW error, NEW delay, Land(error, delay)
      PROVE  r.landed = now /\ now' = now
  BY <1>1 DEF Land
<1>2. \/ rows' = rows
      \/ \E error \in Errors \cup {NoError}, delay \in 0..MaxDelay : Land(error, delay)
  <2>1. CASE UNCHANGED vars
    BY <2>1 DEF vars
  <2>2. CASE Tick
    BY <2>2 DEF Tick
  <2>3. ASSUME NEW q \in Pods,
               \/ Evaluate(q) \/ EvaluateFails(q) \/ LoadCooldowns(q) \/ LoadFails(q)
               \/ Suppress(q) \/ Notify(q) \/ NotifyFails(q) \/ RecordNotified(q)
               \/ RecordFails(q) \/ Restart(q)
        PROVE  rows' = rows
    BY <2>3, EvaluateFacts DEF EvaluateFails, LoadCooldowns, LoadFails, Suppress, Notify,
                NotifyFails, RecordNotified, RecordFails, Restart
  <2> QED
    BY <2>1, <2>2, <2>3, Zenon DEF Next
<1> QED
  BY <1>1, <1>2

\* A run fires for every first failure its query shows of the recent window, up
\* to the cap.
LEMMA EvaluateSees ==
    ASSUME ClockTyped, RunTyped, NEW p \in Pods, Evaluate(p),
           NEW r \in Detailed(rows), Fresh(r, now),
           NEW c, c = <<"novel_error", Signature(r.error)>>
    PROVE  [pod |-> p, class |-> c, at |-> now] \in fired' \/ <<p, c, now>> \in excused'
<1> DEFINE recent == Window(RecentSince, now)
           baseline == Window(BaselineSince, RecentSince)
           s == Signature(r.error)
<1>0. PICK D \in SUBSET Detailed(rows), E \in SUBSET Detailed(baseline) :
        \E S \in Loudest(Novel(D, E)) : Shows(p, D, E, S)
  BY EvaluateFacts
<1> DEFINE novel == Novel(D, E)
           Run(S) == S \o InfraErrorStepChange(recent, baseline) \o KilledScans(D)
<1>1. PICK S \in Loudest(novel) :
        /\ fired' = fired \cup
              {[pod |-> p, class |-> Class(Run(S)[i]), at |-> now] : i \in DOMAIN Run(S)}
        /\ excused' = excused \cup {<<p, Class(f), now>> : f \in novel \ ToSet(S)}
                              \cup {<<p, <<"novel_error", x>>, now>> : x \in Hidden(recent, D)}
  BY <1>0 DEF Shows
<1>2. recent \subseteq rows /\ baseline \subseteq rows /\ TypeOK /\ Shape
  BY WindowFacts, Typed
<1>3. /\ now \in Nat /\ config.recent \in Nat
      /\ \A q \in rows : q.ts \in Nat /\ q.landed \in Nat /\ q.ts <= q.landed
  BY ConfigFacts DEF ClockTyped
<1>4. r \in rows /\ r.ts >= now - config.recent /\ r.ts < now
  BY <1>3, DetailedFacts DEF Fresh
<1>5. r \in Detailed(recent)
  <2>1. r \in recent
    BY <1>4 DEF Window, RecentSince
  <2> QED
    BY <1>2, <2>1, DetailedFacts
<1>6. ASSUME NEW q \in Detailed(baseline) PROVE Signature(q.error) # Signature(r.error)
  <2>1. q \in baseline /\ q \in Detailed(rows)
    BY <1>2, DetailedFacts
  <2>2. q \in rows /\ q.ts < now - config.recent
    BY <2>1 DEF Window, RecentSince
  <2> QED
    BY <1>3, <2>1, <2>2 DEF Fresh
<1>7. CASE s \notin Signatures(D)
  <2>1. s \in Hidden(recent, D)
    BY <1>5, <1>7 DEF Hidden, Signatures
  <2> QED
    BY <1>1, <2>1
<1> SUFFICES ASSUME s \in Signatures(D)
             PROVE  [pod |-> p, class |-> c, at |-> now] \in fired' \/ <<p, c, now>> \in excused'
  BY <1>7
<1>f. PICK f \in novel : Class(f) = c
  <2>1. s \notin Signatures(E)
    BY <1>6 DEF Signatures
  <2> HIDE DEF s
  <2> QED
    BY <1>2, <2>1, NovelFindings DEF s
<1>8. \A i \in DOMAIN S : i \in DOMAIN Run(S) /\ Run(S)[i] = S[i]
  <2>1. S \in Loudest(Novel(D, E))
    BY <1>1
  <2> HIDE DEF recent, baseline
  <2>2. PICK F : F = Run(S)
    OBVIOUS
  <2>3. \A i \in DOMAIN S : i \in DOMAIN F /\ F[i] = S[i]
    BY <1>2, <2>1, <2>2, RunFindings
  <2> QED
    BY <2>2, <2>3
<1> HIDE DEF Run, novel
<1>9. CASE f \in ToSet(S)
  <2>1. PICK i \in DOMAIN S : S[i] = f
    BY <1>9 DEF ToSet
  <2>2. i \in DOMAIN Run(S) /\ Class(Run(S)[i]) = c
    BY <1>f, <1>8, <2>1
  <2> QED
    BY <1>1, <2>2
<1>10. CASE f \notin ToSet(S)
  BY <1>1, <1>f, <1>10
<1> QED
  BY <1>9, <1>10

LEMMA WatchedStep ==
    ASSUME ClockTyped, RunTyped, Watched, [Next]_vars
    PROVE  Watched'
<1>g. /\ config' = config /\ rows \subseteq rows'
      /\ fired \subseteq fired' /\ excused \subseteq excused'
  BY Growth
<1>t. now \in Nat /\ now' \in Nat
  BY Growth, ConfigFacts DEF Tick
<1> SUFFICES ASSUME NEW p \in Pods, NEW t \in 0..now', NEW r \in Detailed(rows)',
                    Taken(p, t)', Fresh(r, t)',
                    NEW c, c = <<"novel_error", Signature(r.error)>>
             PROVE  [pod |-> p, class |-> c, at |-> t] \in fired' \/ Excused(p, c, t)'
  BY DEF Watched, Signature
<1>1. r \in Detailed(rows)
  <2>1. r \in rows'
    BY DEF Detailed, Infra
  <2>2. r.landed < t
    BY DEF Fresh
  <2>3. r \in rows
    BY <1>t, <2>1, <2>2, RowSteps
  <2> QED
    BY <2>3 DEF Detailed, Infra
<1>2. Fresh(r, t)
  <2>1. Detailed(rows) \subseteq Detailed(rows)'
    BY <1>g DEF Detailed, Infra
  <2> QED
    BY <1>g, <2>1 DEF Fresh, Signature
<1>3. CASE Taken(p, t)
  <2>1. t \in 0..now
    BY <1>t, <1>3 DEF Taken
  <2>2. [pod |-> p, class |-> c, at |-> t] \in fired \/ Excused(p, c, t)
    BY <1>1, <1>2, <1>3, <2>1 DEF Watched
  <2> QED
    BY <1>g, <2>2 DEF Excused
<1>4. CASE t = now /\ Evaluate(p)
  BY <1>1, <1>2, <1>4, EvaluateSees DEF Excused
<1>5. CASE t = now /\ EvaluateFails(p)
  BY <1>5 DEF EvaluateFails, Excused
<1> QED
  BY <1>3, <1>4, <1>5, TakenStep

-----------------------------------------------------------------------------
(***************************************************************************)
(* Theorems.                                                                *)
(***************************************************************************)
LEMMA InitInv == Init => Inv
<1> SUFFICES ASSUME Init PROVE Inv
  OBVIOUS
<1>1. config \in [Settings -> Nat \ {0}] /\ ValidConfig(config)
  <2>1. PICK r \in Raw : config = ConfigWithDefaults(r) /\ ValidConfig(config)
    BY DEF Init
  <2> QED
    BY <2>1, AlertsAssumption DEF ConfigWithDefaults
<1>2. ClockTyped
  <2>1. config.interval \in Nat
    BY <1>1 DEF Settings
  <2>2. started \in [Pods -> Nat]
    BY <2>1 DEF Init
  <2>3. IsFiniteSet(rows)
    BY FS_EmptySet DEF Init
  <2> QED
    BY <1>1, <2>2, <2>3, Constants DEF Init, ClockTyped
<1>3. RunTyped
  <2>1. Capped(<< >>)
    BY Constants DEF Capped
  <2> QED
    BY <2>1 DEF Init, RunTyped
<1>4. Detailed(rows) = {}
  BY DEF Init, Detailed, Infra
<1>5. Told /\ Accounted /\ Watched /\ QuietWithinCooldown
  BY <1>4 DEF Init, Told, Accounted, Watched, QuietWithinCooldown
<1>6. Loads
  BY DEF Init, Loads
<1> QED
  BY <1>2, <1>3, <1>5, <1>6, Typed DEF Inv

LEMMA NextInv == Inv /\ [Next]_vars => Inv'
<1> SUFFICES ASSUME Inv, [Next]_vars PROVE Inv'
  OBVIOUS
<1>1. ClockTyped /\ RunTyped
  BY Typed DEF Inv
<1>2. ClockTyped' /\ RunTyped'
  BY <1>1, TypeStep
<1>3. (TypeOK /\ Shape)'
  BY <1>2, Typed, PTL
<1>4. Told' /\ Loads' /\ Accounted' /\ Watched' /\ QuietWithinCooldown'
  BY <1>1, ToldStep, LoadsStep, AccountedStep, WatchedStep, QuietStep DEF Inv
<1> QED
  BY <1>3, <1>4 DEF Inv

\* Inv is inductive.
THEOREM Invariance == Spec => []Inv
  BY InitInv, NextInv, PTL DEF Spec

\* The alerter is typed, and the novelty findings of a run respect the cap
\* (detect.go NovelErrors).
THEOREM TypeCorrect == Spec => []TypeOK
<1>1. Inv => TypeOK
  BY DEF Inv
<1> QED
  BY <1>1, Invariance, PTL

\* A class that was announced and recorded is quiet for the cooldown (runner.go
\* RunOnce).
THEOREM Cooldown == Spec => []QuietWithinCooldown
<1>1. Inv => QuietWithinCooldown
  BY DEF Inv
<1> QED
  BY <1>1, Invariance, PTL

LEMMA RunsAreSettled == Inv => Resurfaces
<1> SUFFICES ASSUME Inv, NEW f \in fired, RunDone(f.pod, f.at)
             PROVE  Settled(f)
  BY DEF Resurfaces, Settled
<1>1. f.at \in 0..now /\ (Settled(f) \/ Pending(f)) /\ now \in Nat
  BY Typed, ConfigFacts DEF Inv, Accounted
<1> QED
  BY <1>1 DEF Pending, RunDone

\* What a run finds is in the channel for less than a cooldown once the run is
\* over, unless its delivery failed (runner.go RunOnce, Config.Cooldown).
THEOREM Resurfacing == Spec => []Resurfaces
  BY Invariance, RunsAreSettled, PTL

\* The first tick after a row is within the interval.
LEMMA FirstTickFacts ==
    ASSUME ClockTyped, NEW p \in Pods, NEW r \in rows, started[p] <= r.landed
    PROVE  /\ FirstTick(p, r) \in (r.landed + 1)..(r.landed + config.interval)
           /\ (FirstTick(p, r) - started[p]) % config.interval = 0
<1> DEFINE d == r.landed - started[p]
           n == config.interval
<1>1. d \in Nat /\ n \in Nat \ {0} /\ r.landed \in Nat /\ started[p] \in Nat
  BY ConfigFacts DEF ClockTyped
<1>2. PICK k \in (d + 1)..(d + n) : k % n = 0
  BY <1>1, NextTick
<1>3. /\ started[p] + k \in (r.landed + 1)..(r.landed + n)
      /\ (started[p] + k) - started[p] = k
  BY <1>1, <1>2
<1>4. \E t \in (r.landed + 1)..(r.landed + n) : (t - started[p]) % n = 0
  BY <1>2, <1>3
<1> QED
  BY <1>4, Zenon DEF FirstTick

LEMMA FailuresAreAnnounced == Inv => NovelAnnounced
<1> SUFFICES ASSUME Inv, NEW r \in Detailed(rows),
                    \A q \in Detailed(rows) :
                        Signature(q.error) = Signature(r.error) => q.ts >= r.ts,
                    \/ r.landed = r.ts
                    \/ r.landed - r.ts <= config.recent - config.interval,
                    NEW p \in Pods, started[p] <= r.landed, RunDone(p, FirstTick(p, r)),
                    NEW c, c = <<"novel_error", Signature(r.error)>>
             PROVE  \/ \E m \in sent : m.class = c /\ m.at <= FirstTick(p, r)
                    \/ Excused(p, c, FirstTick(p, r))
  BY DEF NovelAnnounced
<1> DEFINE t == FirstTick(p, r)
<1>1. ClockTyped /\ r \in rows
  BY Typed, DetailedFacts DEF Inv
<1>2. /\ config.interval \in Nat \ {0} /\ config.recent \in Nat /\ now \in Nat
      /\ config.recent >= config.interval
      /\ \A q \in Detailed(rows) : q.ts \in Nat
      /\ r.landed \in Nat /\ started[p] \in Nat
  BY <1>1, ConfigFacts, DetailedFacts DEF ClockTyped
<1>3. /\ t \in (r.landed + 1)..(r.landed + config.interval)
      /\ (t - started[p]) % config.interval = 0
  BY <1>1, FirstTickFacts
<1>4. t < now \/ (t = now /\ ran[p] = t)
  BY DEF RunDone
<1> HIDE DEF t
<1>5. Taken(p, t) /\ t \in 0..now
  BY <1>2, <1>3, <1>4 DEF Taken
<1>6. Fresh(r, t)
  BY <1>2, <1>3 DEF Fresh
<1>7. [pod |-> p, class |-> c, at |-> t] \in fired \/ Excused(p, c, t)
  BY <1>5, <1>6 DEF Inv, Watched
<1>8. ASSUME NEW f \in fired, f = [pod |-> p, class |-> c, at |-> t]
      PROVE  (\E m \in sent : m.class = c /\ m.at <= t) \/ Excused(p, c, t)
  <2>1. f.pod = p /\ f.class = c /\ f.at = t
    BY <1>8
  <2>2. RunDone(f.pod, f.at)
    BY <2>1 DEF t
  <2>3. \/ \E m \in sent : m.class = c /\ t - m.at \in 0..(config.cooldown - 1)
        \/ Excused(p, c, t)
    BY <2>1, <2>2, RunsAreSettled DEF Resurfaces
  <2>4. \A m \in sent : m.at \in 0..now
    BY DEF Inv, Told
  <2> QED
    BY <1>2, <1>5, <2>3, <2>4
<1>9. (\E m \in sent : m.class = c /\ m.at <= t) \/ Excused(p, c, t)
  BY <1>7, <1>8
<1> QED
  BY <1>9 DEF t

\* A failure the gate never had before is announced by the first tick of every
\* replica after its row is written, unless a fault, the cap or the limit on
\* details kept it from that run (runner.go RunOnce, detect.go NovelErrors,
\* clickhouse.go InfraErrorDetails).
THEOREM Novelty == Spec => []NovelAnnounced
  BY Invariance, FailuresAreAnnounced, PTL
=============================================================================
