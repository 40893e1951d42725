------------------------------- MODULE Alerts -------------------------------
(***************************************************************************)
(* The alerter (internal/alert, app/alerts.go).  Every replica looks at the  *)
(* audit rows of a recent window and of the baseline before it, each on a    *)
(* ticker of its own, and announces in Slack what it finds.  Replicas share  *)
(* nothing but the table of what was announced when, which keeps a class of  *)
(* finding quiet for the cooldown.  A run is short against the interval:     *)
(* the clock waits for it.                                                   *)
(***************************************************************************)
EXTENDS Integers, FiniteSets, SequencesExt

CONSTANTS
    Pods,
    Raw,          \* values of Config, 0 for a field left out
    Defaults,     \* what ConfigWithDefaults fills in
    MinSamples, MinRate, MinFactor,   \* RateThresholds, the rate as a ratio
    KilledScanThreshold,
    MaxNovelPerRun,
    Errors,       \* error details: a cause, and what varies from push to push
    Blank,        \* the cause of a detail that is empty
    NoError,      \* of a decision the gate completed
    Killed,       \* causes that killSignature matches
    MaxTime,      \* bound: the clock
    MaxRows,      \* bound: rows of the audit trail
    MaxDelay,     \* bound: time the audit buffer holds a row back
    MaxFaults     \* bound: calls that fail, and pods that restart

\* The durations, and DetailLimit: how many distinct details a query returns.
Settings == {"interval", "recent", "baseline", "cooldown", "details"}

ASSUME AlertsAssumption ==
    /\ Raw \subseteq [Settings -> Nat]
    /\ Defaults \in [Settings -> Nat \ {0}]
    /\ MinRate \in Nat \X (Nat \ {0})
    /\ {MinSamples, MinFactor, KilledScanThreshold, MaxNovelPerRun} \subseteq Nat \ {0}
    /\ {MaxTime, MaxRows, MaxDelay, MaxFaults} \subseteq Nat

VARIABLES
    config,      \* the settings in use, the same for every replica
    now,
    rows,        \* gate_decisions
    notified,    \* alert_notifications: when each cooldown key was announced
    started,     \* when each pod's ticker began, which sets its phase
    ran,         \* when each pod last took its tick
    stage,       \* how far each pod's run got
    findings,    \* what the run has left to announce
    last,        \* the cooldowns the run loaded
    faults,
    fired,       \* history: the findings of every run, by class
    sent,        \* history: the messages in the channel
    excused      \* history: what a fault, the cap or DetailLimit kept from a run

runVars == <<ran, stage, findings, last>>
history == <<fired, sent, excused>>
vars == <<config, now, rows, notified, started, runVars, faults, history>>

-----------------------------------------------------------------------------
\* Configuration.

ConfigWithDefaults(c) == [f \in Settings |-> IF c[f] = 0 THEN Defaults[f] ELSE c[f]]

\* Plausible bug: a window shorter than the tick is accepted.
ValidConfigUnchecked(c) == c.baseline > c.recent

\* The two checks without which the process does not start.
ValidConfig(c) ==
    /\ c.recent >= c.interval
    /\ c.baseline > c.recent

-----------------------------------------------------------------------------
\* The detectors.

\* A signature drops from a detail what varies from push to push.
Signature(e) == e.cause

Window(since, until) == {r \in rows : r.ts >= since /\ r.ts < until}
Infra(R) == {r \in R : r.error # NoError}

Signatures(R) == {Signature(r.error) : r \in R}

\* The rows InfraErrorDetails groups: failures of the gate that say what failed.
Detailed(R) == {r \in Infra(R) : r.error.cause # Blank}

Details(R) == {r.error : r \in Detailed(R)}
Occurrences(R, e) == Cardinality({r \in R : r.error = e})

\* What the query may return, as the rows behind it: the most frequent details
\* up to the limit, any of those that are equally frequent.
InfraErrorDetails(R, limit) ==
    LET Top == {D \in SUBSET Details(R) :
                  /\ Cardinality(D) <= limit
                  /\ Cardinality(D) = limit \/ D = Details(R)
                  /\ \A e \in D, f \in Details(R) \ D : Occurrences(R, e) >= Occurrences(R, f)}
    IN  {{r \in Detailed(R) : r.error \in D} : D \in Top}

Findings ==
    [detector : {"novel_error", "infra_error_rate", "killed_scan"},
     signature : {Signature(e) : e \in Errors} \cup {"step change", "killed"},
     count : Nat]

Finding(detector, signature, count) ==
    [detector |-> detector, signature |-> signature, count |-> count]

Count(R, s) == Cardinality({r \in R : Signature(r.error) = s})

\* Of the details shown of the recent window and of the baseline.
Novel(recent, baseline) ==
    {Finding("novel_error", s, Count(recent, s)) : s \in Signatures(recent) \ Signatures(baseline)}

Louder(f, g) == f.count > g.count

KeepLoudest(F, max) ==
    {S \in SeqOf(F, max) :
        /\ IsInjective(S)
        /\ Len(S) = max \/ ToSet(S) = F
        /\ \A i, j \in DOMAIN S : i < j => ~Louder(S[j], S[i])
        /\ \A f \in ToSet(S), g \in F \ ToSet(S) : ~Louder(g, f)}

\* Plausible bug: the cap is one too high.
LoudestOneMore(F) == KeepLoudest(F, MaxNovelPerRun + 1)

\* Loudest first, equally loud ones in any order, and the cap keeps the first.
Loudest(F) == KeepLoudest(F, MaxNovelPerRun)

\* Shares are compared by cross-multiplication.  A baseline without failures
\* has no ratio to ask for.
InfraErrorStepChange(recent, baseline) ==
    LET total == Cardinality(recent)   infra == Cardinality(Infra(recent))
        baseTotal == Cardinality(baseline)
        baseInfra == Cardinality(Infra(baseline))
        rises == \/ baseInfra = 0
                 \/ infra * baseTotal >= MinFactor * baseInfra * total
    IN  IF total >= MinSamples /\ infra * MinRate[2] >= MinRate[1] * total /\ rises
          THEN <<Finding("infra_error_rate", "step change", infra)>>
          ELSE << >>

KilledScans(recent) ==
    LET total == Cardinality({r \in recent : r.error.cause \in Killed})
    IN  IF total >= KilledScanThreshold
          THEN <<Finding("killed_scan", "killed", total)>>
          ELSE << >>

-----------------------------------------------------------------------------
\* The notifications table.

\* What the message is about, whatever the key.
Class(f) == <<f.detector, f.signature>>

\* Stands for every class where a whole run is given up.
Anything == <<"any", "any">>

\* Plausible bug: the key varies with the occurrences of the run.
CooldownKeyCounted(f) == <<f.detector, f.signature, f.count>>

CooldownKey(f) == Class(f)

\* The merges of the table may not have happened: the newest row counts.
LastNotified(k) ==
    LET at == {n.at : n \in {m \in notified : m.key = k}}
    IN  IF at = {} THEN -1 ELSE CHOOSE t \in at : \A u \in at : u <= t

Loaded == [k \in {n.key : n \in notified} |-> LastNotified(k)]

Quiet(p, f) ==
    /\ CooldownKey(f) \in DOMAIN last[p]
    /\ now - last[p][CooldownKey(f)] < config.cooldown

-----------------------------------------------------------------------------
Init ==
    /\ config \in {c \in {ConfigWithDefaults(r) : r \in Raw} : ValidConfig(c)}
    /\ now = 0
    /\ rows = {}
    /\ notified = {}
    /\ started \in [Pods -> 0..(config.interval - 1)]
    /\ ran = [p \in Pods |-> 0]
    /\ stage = [p \in Pods |-> "idle"]
    /\ findings = [p \in Pods |-> << >>]
    /\ last = [p \in Pods |-> << >>]
    /\ faults = 0
    /\ fired = {}
    /\ sent = {}
    /\ excused = {}

TypeOK ==
    /\ config \in [Settings -> Nat \ {0}]
    /\ now \in 0..MaxTime
    /\ rows \subseteq [ts : 0..now, landed : 0..now, error : Errors \cup {NoError}]
    /\ \A r \in rows : r.ts <= r.landed
    /\ \A n \in notified : n.at \in 0..now
    /\ started \in [Pods -> Nat] /\ ran \in [Pods -> 0..now]
    /\ stage \in [Pods -> {"idle", "load", "notify", "record"}]
    /\ findings \in [Pods -> Seq(Findings)]
    /\ \A p \in Pods :
          /\ (findings[p] = << >>) = (stage[p] = "idle")
          /\ Cardinality({i \in DOMAIN findings[p] :
                findings[p][i].detector = "novel_error"}) <= MaxNovelPerRun
    /\ faults \in 0..MaxFaults

\* The audit buffer wrote a row: an error, or a decision the gate completed.
\* It bears the time of the decision.  No window includes the present: rows of
\* this instant are written before its runs, without loss, and late ones any time.
Land(error, delay) ==
    /\ Cardinality(rows) < MaxRows
    /\ delay = 0 => \A p \in Pods : stage[p] = "idle" /\ ran[p] # now
    /\ delay <= now
    /\ rows' = rows \cup {[ts |-> now - delay, landed |-> now, error |-> error]}
    /\ rows' # rows
    /\ UNCHANGED <<config, now, notified, started, runVars, faults, history>>

-----------------------------------------------------------------------------
\* RunOnce.

Due(p) ==
    /\ now > started[p] /\ ran[p] # now
    /\ (now - started[p]) % config.interval = 0

Fault == faults < MaxFaults /\ faults' = faults + 1

\* The run of p is over, or goes on at stage s with the findings F.
Continue(p, s, F) ==
    /\ findings' = [findings EXCEPT ![p] = F]
    /\ stage' = [stage EXCEPT ![p] = IF F = << >> THEN "idle" ELSE s]
    /\ last' = [last EXCEPT ![p] = IF F = << >> THEN << >> ELSE @]

RecentSince == now - config.recent
BaselineSince == RecentSince - config.baseline

\* The signatures of the window R that a query which shows D of it leaves out.
Hidden(R, D) == Signatures(Detailed(R)) \ Signatures(D)

\* Four queries of one instant, and the three detectors.  What the cap leaves
\* out is logged, what the limit leaves out nobody knows of.
Evaluate(p) ==
    LET recent == Window(RecentSince, now)
        baseline == Window(BaselineSince, RecentSince)
    IN  /\ stage[p] = "idle" /\ Due(p)
        /\ \E shown \in InfraErrorDetails(recent, config.details),
              known \in InfraErrorDetails(baseline, config.details) :
              \E S \in Loudest(Novel(shown, known)) :
                  LET F == S \o InfraErrorStepChange(recent, baseline) \o KilledScans(shown)
                  IN  /\ Continue(p, "load", F)
                      /\ fired' = fired \cup
                            {[pod |-> p, class |-> Class(F[i]), at |-> now] : i \in DOMAIN F}
                      /\ excused' = excused
                            \cup {<<p, Class(f), now>> : f \in Novel(shown, known) \ ToSet(S)}
                            \cup {<<p, <<"novel_error", s>>, now>> : s \in Hidden(recent, shown)}
        /\ ran' = [ran EXCEPT ![p] = now]
        /\ UNCHANGED <<config, now, rows, notified, started, faults, sent>>

\* A query fails: the run is given up, the next tick runs again.
EvaluateFails(p) ==
    /\ stage[p] = "idle" /\ Due(p)
    /\ Fault
    /\ ran' = [ran EXCEPT ![p] = now]
    /\ excused' = excused \cup {<<p, Anything, now>>}
    /\ UNCHANGED <<config, now, rows, notified, started, stage, findings, last, fired, sent>>

LoadCooldowns(p) ==
    /\ stage[p] = "load"
    /\ last' = [last EXCEPT ![p] = Loaded]
    /\ stage' = [stage EXCEPT ![p] = "notify"]
    /\ UNCHANGED <<config, now, rows, notified, started, ran, findings, faults, history>>

LoadFails(p) ==
    /\ stage[p] = "load"
    /\ Fault
    /\ Continue(p, "idle", << >>)
    /\ excused' = excused \cup {<<p, Anything, now>>}
    /\ UNCHANGED <<config, now, rows, notified, started, ran, fired, sent>>

\* Plausible bug: a suppressed finding rolls its cooldown forward.
SuppressRecorded(p) ==
    /\ stage[p] = "notify" /\ Quiet(p, Head(findings[p]))
    /\ Continue(p, "notify", Tail(findings[p]))
    /\ notified' = notified \cup {[key |-> CooldownKey(Head(findings[p])), at |-> now]}
    /\ UNCHANGED <<config, now, rows, started, ran, faults, history>>

\* Announced within the cooldown: logged, and deliberately not recorded.
Suppress(p) ==
    /\ stage[p] = "notify" /\ Quiet(p, Head(findings[p]))
    /\ Continue(p, "notify", Tail(findings[p]))
    /\ UNCHANGED <<config, now, rows, notified, started, ran, faults, history>>

Message(p, recorded) ==
    [class |-> Class(Head(findings[p])), at |-> now, pod |-> p, recorded |-> recorded]

Notify(p) ==
    /\ stage[p] = "notify" /\ ~Quiet(p, Head(findings[p]))
    /\ sent' = sent \cup {Message(p, FALSE)}
    /\ stage' = [stage EXCEPT ![p] = "record"]
    /\ UNCHANGED <<config, now, rows, notified, started, ran, findings, last, faults,
                   fired, excused>>

\* Slack refuses the message, or takes it and the answer is lost.  Either way
\* nothing is recorded and the run goes on.
NotifyFails(p) ==
    /\ stage[p] = "notify" /\ ~Quiet(p, Head(findings[p]))
    /\ Fault
    /\ \/ sent' = sent \cup {Message(p, FALSE)} /\ UNCHANGED excused
       \/ /\ excused' = excused \cup {<<p, Class(Head(findings[p])), now>>}
          /\ UNCHANGED sent
    /\ Continue(p, "notify", Tail(findings[p]))
    /\ UNCHANGED <<config, now, rows, notified, started, ran, fired>>

RecordNotified(p) ==
    /\ stage[p] = "record"
    /\ notified' = notified \cup {[key |-> CooldownKey(Head(findings[p])), at |-> now]}
    /\ sent' = (sent \ {Message(p, FALSE)}) \cup {Message(p, TRUE)}
    /\ Continue(p, "notify", Tail(findings[p]))
    /\ UNCHANGED <<config, now, rows, started, ran, faults, fired, excused>>

\* The message is out and may be repeated, unless only the answer was lost.
RecordFails(p) ==
    /\ stage[p] = "record"
    /\ Fault
    /\ \/ /\ notified' = notified \cup {[key |-> CooldownKey(Head(findings[p])), at |-> now]}
          /\ sent' = (sent \ {Message(p, FALSE)}) \cup {Message(p, TRUE)}
       \/ UNCHANGED <<notified, sent>>
    /\ Continue(p, "notify", Tail(findings[p]))
    /\ UNCHANGED <<config, now, rows, started, ran, fired, excused>>

\* The process ends at any point, and its successor starts a ticker of its own.
Restart(p) ==
    /\ now >= started[p]
    /\ Fault
    /\ Continue(p, "idle", << >>)
    /\ started' = [started EXCEPT ![p] = now]
    /\ excused' = excused \cup {<<p, Anything, now>>}
    /\ UNCHANGED <<config, now, rows, notified, ran, fired, sent>>

Tick ==
    /\ now < MaxTime
    /\ \A p \in Pods : stage[p] = "idle" /\ ~Due(p)
    /\ now' = now + 1
    /\ UNCHANGED <<config, rows, notified, started, runVars, faults, history>>

Next ==
    \/ \E error \in Errors \cup {NoError}, delay \in 0..MaxDelay : Land(error, delay)
    \/ \E p \in Pods :
          \/ Evaluate(p) \/ EvaluateFails(p)
          \/ LoadCooldowns(p) \/ LoadFails(p)
          \/ Suppress(p)
          \/ Notify(p) \/ NotifyFails(p)
          \/ RecordNotified(p) \/ RecordFails(p)
          \/ Restart(p)
    \/ Tick

Spec == Init /\ [][Next]_vars

-----------------------------------------------------------------------------
\* Properties.

\* A fault, the cap or DetailLimit kept the run p made at time t from announcing
\* class c.
Excused(p, c, t) == <<p, c, t>> \in excused \/ <<p, Anything, t>> \in excused

\* The run p was due for at time t is over.
RunDone(p, t) == t < now \/ (t = now /\ ran[p] = t /\ stage[p] = "idle")

\* The first tick of p after the row r was written.
FirstTick(p, r) ==
    CHOOSE t \in (r.landed + 1)..(r.landed + config.interval) :
        (t - started[p]) % config.interval = 0

\* A failure the gate never had before is announced by the first tick of every
\* replica after its row is written, unless that run met a fault or its cap, or
\* its details were not among those the query returned (clickhouse.go
\* InfraErrorDetails, LIMIT).
\* Rows may come late, by as much as the recent window exceeds the interval
\* (runner.go RunOnce, "findings that land in the gap are never seen").
NovelAnnounced ==
    \A r \in Detailed(rows) :
        LET s == Signature(r.error)
            first == \A q \in Detailed(rows) : Signature(q.error) = s => q.ts >= r.ts
            timely == \/ r.landed = r.ts
                      \/ r.landed - r.ts <= config.recent - config.interval
            c == <<"novel_error", s>>
        IN  first /\ timely =>
              \A p \in Pods :
                  started[p] <= r.landed /\ RunDone(p, FirstTick(p, r)) =>
                      \/ \E m \in sent : m.class = c /\ m.at <= FirstTick(p, r)
                      \/ Excused(p, c, FirstTick(p, r))

\* A class of findings is not repeated within the cooldown, unless two
\* replicas tick together or the first message could not be recorded
\* (runner.go: "noisy, but the safe direction").
QuietWithinCooldown ==
    \A m, n \in sent :
        m.class = n.class /\ m.at < n.at /\ n.at - m.at < config.cooldown =>
            ~m.recorded

\* What still fires is in the channel: there is a message of the last cooldown
\* for every finding of every run, unless its delivery failed (runner.go
\* Config.Cooldown, "a still-firing failure must resurface").
Resurfaces ==
    \A f \in fired : RunDone(f.pod, f.at) =>
        \/ \E m \in sent : m.class = f.class /\ f.at - m.at \in 0..(config.cooldown - 1)
        \/ Excused(f.pod, f.class, f.at)
=============================================================================
