----------------------------- MODULE Freshness ------------------------------
(***************************************************************************)
(* What a push takes from a cache (policies/grype, scancache, policies,     *)
(* acr/credential): the policies judge an image, the scan from a report that *)
(* replicas share in Valkey when one is recent enough, and a passed image is *)
(* pushed with a registry token that each pod keeps behind a mutex.  Time    *)
(* passes at any point; a unit is the margin the token cache leaves.         *)
(***************************************************************************)
EXTENDS Naturals, Integers, FiniteSets

CONSTANTS
    Pods,
    Config,       \* per pod: cache window (maxDBAge) and observe mode
    Digests,
    Image,        \* per digest: what the policies look at (ImageShape)
    Allowed,      \* permitted OS ids
    MaxAge,       \* the tenant's image-age rule, in units; None where it is disabled
    Pushes,
    Put,          \* per push: its digest, its pod, and whether it is a promotion,
                  \* which was judged before
    None,
    MaxTime,      \* bound: the clock
    Builds,       \* when the vulnerability DB is rebuilt
    Lives,        \* lifetimes of tokens
    MaxFaults     \* bound: calls that fail

Severities == <<"UNKNOWN", "NEGLIGIBLE", "LOW", "MEDIUM", "HIGH", "CRITICAL">>
Threshold == "CRITICAL"

\* findings: what any scan finds; news: what one finds with a DB built from
\* since on; etc, usrlib: the OS id in either
\* os-release file, None without the file.
ImageShape(m) ==
    /\ DOMAIN m = {"findings", "news", "since", "etc", "usrlib", "created"}
    /\ m.since \in Nat /\ m.created \in Nat \cup {None}

ASSUME FreshnessAssumption ==
    /\ \A d \in Digests : ImageShape(Image[d])
    /\ \A q \in Pods : Config[q].window \in Nat \ {0} /\ Config[q].observe \in BOOLEAN
    /\ \A p \in Pushes : Put[p].digest \in Digests /\ Put[p].pod \in Pods
    /\ MaxAge \in Nat \cup {None}
    /\ {MaxTime, MaxFaults} \cup Builds \cup Lives \subseteq Nat
    /\ 0 \in Builds
    /\ None \notin Pushes

VARIABLES
    now,
    db,        \* build time of each pod's vulnerability DB, None when not reported
    cache,     \* the shared store: an entry for each digest, or None
    stage,     \* how far each push got
    report,    \* the report its verdict is made from, None before and after
    result,    \* of the policies
    held,      \* the push that holds each pod's credential mutex, or None
    kept,      \* each pod's cached token, or None
    hung,      \* pods with an exchange that is never answered
    faults

scanVars == <<db, cache, report, result>>
tokenVars == <<held, kept, hung>>
vars == <<now, scanVars, stage, tokenVars, faults>>

Times == 0..MaxTime
Pod(p) == Put[p].pod
Img(p) == Image[Put[p].digest]
Window(p) == Config[Pod(p)].window

Init ==
    /\ now = 0
    /\ db = [q \in Pods |-> 0]
    /\ cache = [d \in Digests |-> None]
    /\ stage = [p \in Pushes |-> IF Put[p].promotion THEN "lock" ELSE "lookup"]
    /\ report = [p \in Pushes |-> None]
    /\ result = [p \in Pushes |-> IF Put[p].promotion THEN "passed" ELSE "none"]
    /\ held = [q \in Pods |-> None]
    /\ kept = [q \in Pods |-> None]
    /\ hung = {}
    /\ faults = 0

TypeOK ==
    /\ now \in Times
    /\ db \in [Pods -> Times \cup {None}]
    /\ \A d \in Digests : cache[d] # None =>
          cache[d].db \in Times /\ cache[d].expires > now
    /\ stage \in [Pushes -> {"lookup", "scan", "store", "judge", "lock", "exchange", "done"}]
    /\ \A p \in Pushes : report[p] # None =>
          report[p].db \in Times \cup {None} /\ report[p].at \in Times
    /\ result \in [Pushes -> {"none", "passed", "unenforced", "rejected", "infra", "unpublished"}]
    /\ held \in [Pods -> Pushes \cup {None}]
    /\ hung \subseteq Pods
    /\ faults \in 0..MaxFaults

-----------------------------------------------------------------------------
Fault == faults < MaxFaults /\ faults' = faults + 1
Goto(p, s) == stage' = [stage EXCEPT ![p] = s]
Ended(p, res) ==
    /\ Goto(p, "done")
    /\ result' = [result EXCEPT ![p] = res]
    /\ report' = [report EXCEPT ![p] = None]

\* Valkey drops an entry when its TTL is over.
Tick ==
    /\ now < MaxTime
    /\ now' = now + 1
    /\ cache' = [d \in Digests |->
          IF cache[d] # None /\ cache[d].expires <= now' THEN None ELSE cache[d]]
    /\ UNCHANGED <<db, report, result, stage, tokenVars, faults>>

\* grype downloads the newest DB, or one whose build time parseDBBuilt cannot read.
UpdateDB(q) ==
    /\ \/ \E b \in Builds :
             /\ b <= now /\ \A c \in Builds : c <= now => c <= b
             /\ db[q] # b /\ db' = [db EXCEPT ![q] = b] /\ UNCHANGED faults
       \/ Fault /\ db' = [db EXCEPT ![q] = None]
    /\ UNCHANGED <<now, cache, report, result, stage, tokenVars>>

\* An entry of another version, or one that does not decode.
Garble(d) ==
    /\ cache[d] # None
    /\ Fault
    /\ cache' = [cache EXCEPT ![d].readable = FALSE]
    /\ UNCHANGED <<now, db, report, result, stage, tokenVars>>

-----------------------------------------------------------------------------
(***************************************************************************)
(* scanOrReuse.                                                             *)
(***************************************************************************)

\* Plausible bug: an entry that is still there is taken to be fresh.
ReportIsFreshWhilePresent(p, built) == built # None

\* By the window of the pod that reads, whatever the one that wrote allowed.
ReportIsFresh(p, built) == built # None /\ now - built < Window(p)

Reusable(p) ==
    LET e == cache[Put[p].digest]
    IN e # None /\ e.readable /\ ReportIsFresh(p, e.db)

Reuse(p) ==
    LET e == cache[Put[p].digest] IN
    /\ Reusable(p)
    /\ report' = [report EXCEPT ![p] = [db |-> e.db, at |-> now, reused |-> TRUE]]
    /\ Goto(p, "judge")
    /\ UNCHANGED <<result, faults>>

\* "A cache that cannot be read is a throughput problem": scan.
Unreadable(p) == Fault /\ Goto(p, "scan") /\ UNCHANGED <<report, result>>

Lookup(p) ==
    /\ stage[p] = "lookup"
    /\ \/ Reuse(p)
       \/ ~Reusable(p) /\ Goto(p, "scan") /\ UNCHANGED <<report, result, faults>>
       \/ Unreadable(p)
    /\ UNCHANGED <<now, db, cache, tokenVars>>

\* execRunner.Scan: grype exits with a report, or the push is an infra failure.
Scan(p) ==
    /\ stage[p] = "scan"
    /\ \/ /\ report' = [report EXCEPT ![p] =
                [db |-> db[Pod(p)], at |-> now, reused |-> FALSE]]
          /\ Goto(p, "store")
          /\ UNCHANGED <<result, faults>>
       \/ Fault /\ Ended(p, "infra")
    /\ UNCHANGED <<now, db, cache, tokenVars>>

\* The entry dies when its DB leaves the window of the pod that wrote it.
EntryTTL(p) == report[p].db + Window(p) - now

\* Plausible bug: a report that is stale already is stored.
StorableStale(p) == report[p].db # None

Storable(p) == report[p].db # None /\ EntryTTL(p) > 0

\* storeReport: nothing without a build time or a life; a failed Set is not an error.
Store(p) ==
    /\ stage[p] = "store"
    /\ \/ /\ Storable(p)
          /\ cache' = [cache EXCEPT ![Put[p].digest] =
                [readable |-> TRUE, db |-> report[p].db, expires |-> now + EntryTTL(p)]]
          /\ UNCHANGED faults
       \/ ~Storable(p) /\ UNCHANGED <<cache, faults>>
       \/ Fault /\ UNCHANGED cache
    /\ Goto(p, "judge")
    /\ UNCHANGED <<now, db, report, result, tokenVars>>

-----------------------------------------------------------------------------
(***************************************************************************)
(* The policies.                                                            *)
(***************************************************************************)
Rank(s) == IF \E i \in DOMAIN Severities : Severities[i] = s
           THEN CHOOSE i \in DOMAIN Severities : Severities[i] = s ELSE None

\* The scan of an image with a DB; one without a build time is as old as any.
Findings(m, built) ==
    m.findings \cup (IF built # None /\ built >= m.since THEN m.news ELSE {})

\* Evaluate of grype: at or above the threshold, or of a severity nobody knows.
Blocks(s) == IF Rank(s) = None THEN TRUE ELSE Rank(s) >= Rank(Threshold)
Blocking(m, built) == {s \in Findings(m, built) : Blocks(s)}

\* Evaluate of baseimage: the first os-release that is there decides.
BasePermitted(m) == (IF m.etc # None THEN m.etc ELSE m.usrlib) \in Allowed

\* A date in the future counts as age 0.
AgeDays(created, at) == IF at < created THEN 0 ELSE at - created

OfAge(created, at) ==
    MaxAge # None => (created # None /\ AgeDays(created, at) <= MaxAge)

\* Evaluate of imageage: by the clock, and no date is no.
YoungEnough(p) == OfAge(Img(p).created, now)

\* Engine.Run: every verdict must pass; reasons on a passing one are unenforced.
EngineResult(p) ==
    LET reasons == Blocking(Img(p), report[p].db) IN
    IF ~BasePermitted(Img(p)) \/ ~YoungEnough(p) THEN "rejected"
    ELSE IF reasons = {} THEN "passed"
    ELSE IF Config[Pod(p)].observe THEN "unenforced" ELSE "rejected"

Judge(p) ==
    /\ stage[p] = "judge"
    /\ IF EngineResult(p) = "rejected" THEN Ended(p, "rejected")
       ELSE /\ Goto(p, "lock")
            /\ result' = [result EXCEPT ![p] = EngineResult(p)]
            /\ report' = [report EXCEPT ![p] = None]
    /\ UNCHANGED <<now, db, cache, tokenVars, faults>>

-----------------------------------------------------------------------------
(***************************************************************************)
(* Authorization, for the push of a passed image.                           *)
(***************************************************************************)
\* The mutex is taken; a token with more than the margin left is returned.
StillKept(q) == kept[q] # None /\ now < kept[q].until - 1

Authorize(p) ==
    /\ stage[p] = "lock"
    /\ held[Pod(p)] = None
    /\ \/ StillKept(Pod(p)) /\ Goto(p, "done") /\ UNCHANGED held
       \/ /\ ~StillKept(Pod(p))
          /\ held' = [held EXCEPT ![Pod(p)] = p]
          /\ Goto(p, "exchange")
    /\ UNCHANGED <<now, scanVars, kept, hung, faults>>

Min2(a, b) == IF a < b THEN a ELSE b

\* Plausible bug: the cache lives as long as the token of Entra.
KeepUntilEntra(expiry, entra) == [expiry |-> expiry, until |-> entra]

\* Its own expiry, and no longer than Entra's.
KeepUntil(expiry, entra) == [expiry |-> expiry, until |-> Min2(expiry, entra)]

\* An answer: Entra's token and the registry's have lives of their own, and an
\* expiry that cannot be read keeps the token out of the cache.
Exchanged(p) ==
    /\ stage[p] = "exchange"
    /\ Pod(p) \notin hung
    /\ kept' \in {[kept EXCEPT ![Pod(p)] = KeepUntil(now + e, now + a)] : e, a \in Lives}
                 \cup {[kept EXCEPT ![Pod(p)] = None]}
    /\ Goto(p, "done")
    /\ held' = [held EXCEPT ![Pod(p)] = None]
    /\ UNCHANGED <<now, scanVars, hung, faults>>

\* Plausible bug: the error returns without the unlock.
UnlockedForgotten(p) == held

Unlocked(p) == [held EXCEPT ![Pod(p)] = None]

ExchangeFails(p) ==
    /\ stage[p] = "exchange"
    /\ Pod(p) \notin hung
    /\ Fault
    /\ Ended(p, "unpublished")
    /\ held' = Unlocked(p)
    /\ UNCHANGED <<now, db, cache, kept, hung>>

\* The exchange runs under no deadline, and the mutex is held meanwhile.
ExchangeHangs(p) ==
    /\ stage[p] = "exchange"
    /\ Pod(p) \notin hung
    /\ Fault
    /\ hung' = hung \cup {Pod(p)}
    /\ UNCHANGED <<now, scanVars, stage, held, kept>>

-----------------------------------------------------------------------------
Step(p) ==
    \/ Lookup(p) \/ Scan(p) \/ Store(p) \/ Judge(p)
    \/ Authorize(p) \/ Exchanged(p) \/ ExchangeFails(p)

Next ==
    \/ \E p \in Pushes : Step(p) \/ ExchangeHangs(p)
    \/ \E q \in Pods : UpdateDB(q)
    \/ \E d \in Digests : Garble(d)
    \/ Tick

Spec == Init /\ [][Next]_vars

\* Calls return (one that does not is hung), and a Go mutex is handed on.
FairSpec == Spec /\ \A p \in Pushes : WF_vars(Step(p))

-----------------------------------------------------------------------------
\* The step in which the policies let p through, with what they said.
LetThrough(p) == stage[p] = "judge" /\ stage'[p] = "lock"

(***************************************************************************)
(* Reuse does not widen the window (DefaultScanCacheMaxDBAge, "admits no    *)
(* staleness the gate does not already tolerate"): an image called clean on *)
(* a reused report, or on a DB of the pod that is within the window, has no *)
(* critical vulnerability that was known a window before.  Pods of          *)
(* different windows share the entries.                                     *)
(***************************************************************************)
DetectionDelayBounded ==
    [][\A p \in Pushes :
          LET r == report[p] IN
          /\ LetThrough(p) /\ result'[p] = "passed"
          /\ r.reused \/ (r.db # None /\ r.at - r.db < Window(p))
          /\ \E s \in Img(p).news : Blocks(s)
          => Img(p).since > r.at - Window(p)]_vars

(***************************************************************************)
(* A push is given a token that is still valid (Authorization: "an          *)
(* already-expired refresh token be reused, which ACR's /oauth2/token leg   *)
(* rejects").                                                               *)
(***************************************************************************)
TokensAreLive ==
    [][\A p \in Pushes : stage[p] = "lock" /\ stage'[p] = "done" =>
          kept[Pod(p)].expiry > now]_vars

(***************************************************************************)
(* Every push taken up ends, failures of the exchange included, unless an   *)
(* exchange of its pod is never answered.                                   *)
(***************************************************************************)
PushesEnd ==
    \A p \in Pushes : stage[p] \in {"scan", "judge"} ~> stage[p] = "done" \/ Pod(p) \in hung
=============================================================================
