# Merlin: TLA+ models, model checking and proofs

Merlin is a push gate in front of container registries. A client pushes an image
to Merlin over the Docker v2 protocol; Merlin stages the blobs, assembles the
image, runs policies over it (base image, age, vulnerabilities) and, on a pass,
publishes it to the tenant's registry (ACR). Several replicas run behind one
service. They share a Valkey server (upload sessions, reference counters, the
promotion queue, a scan cache), a blob store and an audit database; each has a
scratch directory of its own.

This directory holds the specifications of the path of a push (the gate, the
promotion queue, the staged bytes, the uploads), of what it relies on (scan
cache, registry tokens, policies) and of what accounts for it (audit trail,
alerting, shutdown). Paths below are relative to
`src/internal/` unless they start with `src/`.

## Inventory

| Component | State | Operations | Interacts with | Correct when |
|---|---|---|---|---|
| Promotion queue (`promote/valkey.go`) | pending list, claimed hash, stamp hash, dead list | Enqueue, Claim, Ack, Recover, Depth | handler, workers of all pods | an approved job is in Valkey until it is settled |
| Promotion worker (`promote/worker.go`) | its copy of one job; position in `handle` | claim, recover, localize, push, fail, retire, cleanup | queue, blob store, registry, audit | every accepted push is published or recorded as abandoned; no retry finds its inputs gone |
| Blob staging (`staging/staging.go`, `assemble.go`) | blob bytes; completion flags; reference counters | CompleteBlob, PutManifest, Assemble, Cleanup | uploads, manifest handler, worker | a blob stays while a push needs it and goes when none does |
| Upload sessions (`ingress/docker/upload.go`) | offset per upload; upload object; upload slots | POST, PATCH, PUT, abandon | blob store, Valkey | acknowledged chunks kept, only verified bytes under a digest, nothing stranded |
| Manifest handler (`ingress/docker/manifest.go`, `handler.go`, `classify.go`) | one request | route, read, backlog check, stage, gate, publish, forward an index or attestation | all of the above, scan pool | no image is published ungated; staged bytes have one owner; every request ends |
| Decision recording (`outcome.go`, `report.go`) | audit rows | Apply, render a report | audit, dashboard | the row a report shows is the push's outcome |
| Scan pool, policy engine (`router`, `policy`) | semaphore | acquire with a wait bound, run policies | handler | bound kept, fail closed |
| Policies (`policies/*`) | none | evaluate | scanner, cache | a verdict is true when it is given |
| Scan report cache (`policies/grype/reportcache.go`, `scancache`) | reports by digest | lookup, store, expire | Valkey | reuse tolerates no staleness a scan would not |
| Audit trail (`audit`) | bounded queue, one job in hand; three tables | Record, write with retries, Close, look up | ClickHouse | no decision lost in silence, the last word stands |
| Alerting (`alert`) | cooldown table; a ticker per replica | detect, load cooldowns, notify, record | audit tables, Slack | new failures are announced, repeats are quiet, nothing is silenced for good |
| Registry client (`acr`) | credential cache behind a mutex | authorize, push | Entra, registry | no expired token used |
| Authentication, tenants (`auth`, `tenant`) | prefix table, registry tokens | mint, verify, resolve a host | handler | requests reach their own tenant |
| Life cycle (`app`) | phase, contexts, closer stack | serve, drain, release | everything | shutdown ends and costs no record |
| Dashboard, configuration, metrics, process limits, scratch sweep, Azure adapter, in-memory stores | views, settings, counters | | | not modelled, see below |

What is hard here, and why tests hardly reach it:

- the queue is at-least-once over separate commands: pods interleave between a
  claim, a push, a re-enqueue and the two deletes of an ack, and may die or lose
  a reply at each of them;
- blob bytes and their reference counters live in two stores without a
  transaction, and digests are shared by concurrent pushes;
- an upload is a read-modify-write behind a compare-and-set, with clients that
  send a request again while the first still runs;
- keys expire, claims age, and both may happen to live work;
- a client may leave at any step of a request of which some steps follow its
  context and some do not, and what it pushed has to be released by somebody;
- what is read (a depth, a cached report, a token, a cooldown) is used later, when
  it may no longer be true;
- audit rows are in memory until a goroutine has written them, while the process
  is being shut down in an order of its own.

`PROJECT.json` lists each hazard at its line with the properties that cover it.

## Modules

| Module | Models |
|---|---|
| `ValkeyQueue` | the keys of `promote/valkey.go`; one operator per Valkey command or Lua script |
| `Promotion` | extends it with the hand-off, the workers of all pods, the staging store as seen by a promotion, crashes, failed calls and time |
| `Staging` | blobs, completion flags and reference counters over the life of pushes that share digests |
| `UploadSession` | the blob upload protocol of one or more uploads |
| `Delivery` | what deferred promotion promises the request path, without the how |
| `Gate` | the request path of a manifest PUT, built on `Delivery` |
| `Audit` | the auditor of a pod, the tables, the lookups of a report, serve-drain-release |
| `Freshness` | the policies, the shared scan reports, the registry token of a pod |
| `Alerts` | the alerters of all replicas, the cooldown table, the channel |
| `MC...` | the instances for TLC, one per module |
| `PromotionProofs`, `StagingProofs`, `UploadSessionProofs`, `GateProofs`, `AuditProofs`, `FreshnessProofs`, `AlertsProofs` | inductive invariants, lemmas and theorems about the module of the same name |

How they fit together: `Gate` ends a deferred publication with `Delivery`'s
`Accept` or `Refuse` and lets its workers `Deliver` and `Abandon`;
`Promotion` is the detailed account of the same promise and is proved to
implement it. The bytes that `Gate` and `Promotion` treat as one unit per push are
`Staging`'s blobs and counters, and come from `UploadSession`. The rows of `Gate`
and of an abandoned promotion are what `Audit` records, and the rows `Audit`
writes late are what `Alerts` looks at. `Freshness` opens the scan step of `Gate`
and the token of a push. In each module the parts next to it appear as
the environment the others' properties allow.

Operators whose comment starts with "Plausible bug" are not part of any
specification. Each is a wrong version of the definition that follows it and
shows which property notices that mistake.

### Promotion

The unit of atomicity is one Valkey command or script, one call of the registry
or of the blob store. `pc[p]` is the place of pod p's worker in `Run` and
`handle`; `job[p]` is the local copy of the job, whose attempts `handle`
increments without writing them back.

| Code | Actions |
|---|---|
| `publication.run`, `handleManifest`'s deferred Cleanup | `Promote`, `PromoteFails`, `RefusedCleanup` |
| `Claim` | `Claim`, `ClaimReplyLost`, `ClaimUnreadable`, `PollEmpty` |
| `Recover` | `RecoverScan` (the snapshot), `RecoverOne`, `RecoverFails` (one script each) |
| `handle`, `localize` | `Start`, `Localize`, `LocalizeFails`, `PushSucceeds`, `PushFails` |
| `fail` | `Fail` (the decision), `Requeue`, `RequeueFails` |
| `retire` | `Retire` |
| `Ack` | `AckPayloadStep`, `AckStampStep` |
| `cleanup` | `Cleanup` |
| environment | `Crash`, `Restart`, `Expire`, `ExpireHeld` |

Every call that can fail has a variant in which it was applied and only the
reply was lost. A stamp is young or older than `RecoverAfter`; `Expire` ages a
claim no live worker handles, `ExpireHeld` one that is still being handled (a
slow push), bounded by `MaxSlow`. The registry is external: a push succeeds or
fails at will. A job carries its push ID, its attempts and the directory of its
layout; tenant, repository, tag and manifest are abstracted to membership in
`Unroutable`. The blobs of a push are one unit, `staged`; the counters behind
them are `Staging`. `claimant`, `pushes` and `foreignAck` are history and guard
nothing but the distinction between the two expiries.

### Staging

A push uploads each digest of its manifest once (HEAD and GET of a blob are
answered 404, so a client never skips an upload), sends the manifest, is
assembled, gated, and either released by the handler or queued and released by
the worker. `Put`, `MarkComplete`, `IncBlobRef` and, in `Cleanup`, each
decrement and each delete are separate steps. `Repeat` handles a push again
without uploads: a client that re-sends its manifest, or a second copy of its
promotion job. `Expire` is the TTL of a flag or counter.

Three histories carry the statement of the properties. `holds[p]` is the set of
references push p took and has not released. `raced` has the references taken
when a delete of the bytes was already decided. `miscounted` has the digests
whose counter stopped counting holders: a decrement by a push that held nothing,
or a restart from zero over earlier holders.

### UploadSession

A blob is the sequence of chunks `1..N`; a body is a run of them, its digest
matches when the gathered sequence is the whole. Each request is at one of the
steps of `WriteChunk`, `CompleteBlob` or `AbandonUpload`. Clients repeat a PATCH
at the offset last acknowledged while earlier requests still run, and a PUT may
arrive at any time and may be short; a PUT that is repeated while the first still
runs is not modelled. Once verified, the bytes' further life is
`Staging`. `MaxReadFaults` counts reads of the upload object that fail, which
`readIfExists` takes for an empty object; every other failure is in `MaxFaults`.

### Delivery

Three variables, each mapped to the one of the same name in `Promotion`
(`Delivered == INSTANCE Delivery WITH ...`): what the handler did with each push,
which are published, which have a contradicting row. A push is
accepted or refused once; only a push its handler let go of is published or
abandoned; neither is undone. Delivery is at least once: nothing forbids to
publish twice, nor both to publish and to contradict, which the code can do.

### Gate

One process per manifest PUT. `stage[p]` is its place; `bytes[p]` who owes the
release of the staged bytes; `gone` are the requests whose context has ended.

| Code | Actions |
|---|---|
| `TokenHandler`, `Verify` (`auth`, `token.go`) | `Mint`, `TokenExpires` |
| `route`, `authenticate`, `PrefixFromHost` | `Route` |
| `readManifestPush`, `classifyManifest` | `Read`, `IsIndex`, `IsAttestation` |
| `promotionBacklogFull`, `Depth` | `Admit` |
| `stageImage` | `Stage` |
| `Pool.Acquire` under `waitContext` | `AcquireSlot`, `SlotWaitExpires`, `AbandonWait` |
| `runScan`, `Engine.Run` | `Scan`, `Verdict` |
| `publication.run` | `PublishNow`, `HandOff` |
| `Outcome.Apply`, `writeDecision`, the deferred `Cleanup` | `Finish` |
| `forwardManifest`, `awaitIndexReferences` | `Forward`, `Poll`, `AwaitEnds` |
| the promotion workers, as `Delivery` has them | `Claim`, `DeliverJob`, `AbandonJob`, `RetryJob` |
| the client | `Leave` |
| calls that are never answered | `PutHangs`, `HungPutEnds`, `ExchangeHangs`, `WaitForExchange`, `WorkerHangs` |

A call under the request's context fails for free once the client has left; a
detached one fails only as a fault. Two calls have no deadline. A manifest is put, and
its blobs are seeded, under the request's context alone: one that is never answered
leaves the handler "unanswered" until its client goes. The exchange of a tenant's
credential runs under `context.Background` with its mutex held (`held`): the request
that makes it, and every later one of that tenant that calls the registry, is "stuck".

A manifest has any mix of layers, manifests and media type. One that lists manifests
is an index to `classifyManifest` whatever layers it has, and `forwardManifest` puts it
as it is; the registry looks at the manifests of what has the media type of an index,
and at the blobs of anything else. `GatedOnly` says of such a manifest whose token put it
and, for an index, that what it names is there, but not that the policies passed it.

A credential is a pair of a request and a tenant; the client credential that all tenants
share is a pair with each of them. `uncounted` is the history of pushes the backlog bound
cannot see: admitted with an unreadable depth, or while another admitted push is on its
way, or put back by a worker. Whether publication is deferred is chosen in Init.

### Audit

One pod and its successors, over tables that outlive them. A job is a decision or a
tag alias; the goroutine's `hand` is the job, the rows of it still to be written
and the attempts made.

| Code | Actions |
|---|---|
| `Record`, `RecordTagAlias` (`audit/buffer.go`) | `Record`, within `RecordDecision`, `RecordAlias`, `Abandon` |
| `Auditor.run`, `withRetry` | `Take`, `WriteOK`, `WriteFails`, `WriteUnanswered` |
| `Outcome.Apply`, `forwardManifest` | `Begin`, `Decide`, `RecordDecision`, `RecordAlias` |
| worker, `FinalizePromotion` | `Claim`, `Published`, `Abandon` |
| `Run`, `drain`, `closeAll`, `Close` | `StopServing`, `Drained`, `DrainExpires`, `CloseBackend`, `Exit` |
| `pushIDByRef`, `DecisionHeaderByPush`, `handleReport` | `PushIDByRef`, `HeaderByPush`, `Report` |
| environment | `Outage`, `Recovery`, `Crash`, `Start` |

A send on the closed queue panics and ends the process. `sent` and `forgotten` are
history. Rows are ordered by the time of their write; two within one millisecond,
the resolution of the column, are not modelled as ties.

### Freshness

Time is a clock that ticks between any two steps; a unit is the minute that the
token cache keeps as margin, and the windows and ages are scaled down to a few of
them.

| Code | Actions |
|---|---|
| `scanOrReuse`, `reportIsFresh` | `Lookup` |
| `execRunner.Scan` | `Scan` |
| `storeReport`, `scancache.Set` | `Store` |
| `Evaluate` of the three policies, `Engine.Run` | `Judge`, `Blocking`, `BasePermitted`, `YoungEnough`, `EngineResult` |
| `Authorization` (`acr/credential.go`) | `Authorize`, `Exchanged`, `ExchangeFails`, `ExchangeHangs` |
| environment | `Tick`, `UpdateDB`, `Garble` |

### Alerts

| Code | Actions |
|---|---|
| `ConfigWithDefaults`, the checks of `app/alerts.go` | `ConfigWithDefaults`, `ValidConfig` |
| `RunOnce`: queries and detectors | `Evaluate`, `EvaluateFails`, `Novel`, `InfraErrorStepChange`, `KilledScans` |
| `RunOnce`: cooldowns and delivery | `LoadCooldowns`, `LoadFails`, `Suppress`, `Notify`, `NotifyFails`, `RecordNotified`, `RecordFails` |
| ticker | `Tick`, `Due`, `Restart` |
| the audit trail, with a delay | `Land` |

A run takes no time against the interval and its queries see one instant. `fired`,
`sent` and `excused` are history: what each run found, what is in the channel, and
what a fault, the cap or the limit on details kept a run from announcing.
`InfraErrorDetails` returns the most frequent details of a window up to `DetailLimit`,
any of equally frequent ones; a failure beyond it is not seen by that run, and one that
the baseline's query leaves out is new again. `alertConfig` leaves the limit at its
default of 500; here it is one of the settings, so that a run can make it small.

## Runs

Passing runs:

| Run | Bounds | States | Shows |
|---|---|---|---|
| PromotionFaults | 1 job, 2 pods, 2 attempts; any 2 of a failed call, a crash and a slow push | 2.3 M | `TypeOK`, `DurableUntilResolved`, `ClaimsAreStamped`, `RetryNotDoomed`; undisturbed, `BudgetBoundsPushes` and `VerdictsAgree` |
| PromotionOnePod | 3 jobs (one unreadable, one unroutable), 1 pod; a failed call or a crash; fairness | 28 k | `NeverLost`, `AcceptedResolves`, `ImplementsDelivery` |
| StagingShared | 2 images on a shared layer, which one lists twice, and an attestation that shares another layer with one of them; 1 repeat of each, 1 failed call or crash, 1 expiry | 3.1 M | `TypeOK`, `HeldBlobsStay`, `AcceptedRebuildable`, `RefsCoverHolders`, `NothingLeaks` |
| UploadOverlap | 2 requests over 1 or 2 slots, 3 chunks, 3 PATCHes, 2 failed calls, 1 failed read | 103 k | `TypeOK` (the slot bound), `OnlyVerifiedStored`, `AckedBytesStaged`, `NothingStranded` |
| Gate | 7 requests (a buildx push, an image with an odd layer, a manifest with layers that names another, a stray host, a foreign token), 1 scan slot, a backlog of 1, 2 policies; 1 call that fails or hangs or 1 client that leaves; fairness | 47 k | `TypeOK`, `GatedOnly`, `AcceptedBytesKept`, `BacklogBounded`, `LeavingIsNoFailure`, `EveryRequestEnds`, `StagedIsReleased` |
| Audit | 2 images and an index, a queue of 2, 2 attempts; 1 outage or lost reply, 1 stop or crash with a restart; fairness | 143 k | `TypeOK`, `RecordedOrReported`, `ShutdownDropsNothing`, `LastWordStands`, `DrainProtectsHandlers`, `ShutdownEnds` |
| Freshness | 2 pods with windows of 4 and 1, one observing; 3 pushes of an image that a vulnerability befalls; 4 instants, 2 databases, tokens of 1 or 3 units, 1 fault; fairness | 282 k | `TypeOK`, `DetectionDelayBounded`, `TokensAreLive`, `PushesEnd` |
| Alerts | 2 replicas, 2 causes in 3 wordings, 2 rows, 1 delay, an invalid block, a cap of 1, limits of 1 and 2 details; 5 instants, 1 fault or restart | 2.4 M | `TypeOK`, `NovelAnnounced`, `QuietWithinCooldown`, `Resurfaces` |

Two pods are the chart's replica count and enough for every race between a
worker, its sibling and a sweep; two attempts reach both sides of the budget;
one crash and one failed call reach every pair of steps between which they can
fall. Two pushes on a digest, each handled up to twice, reach the orders of references
taken, released and still held; the layer the two images share is in no attestation, so
`NothingLeaks` speaks of it. Three chunks allow a repeated, a skipped and a short body. In Gate
a slot and a backlog of one make the second image wait, be shed, or overshoot the
bound, and the index wait for a child that is promoted, rejected or abandoned; the
bound on troubles leaves room for the client of an unanswered call to leave. In
Audit a queue of two fills under an outage, and two attempts give a retry and a
drop. In Freshness the database of time 0 leaves the narrow window before the wide
one. In Alerts the baseline
holds a tick's findings and the cooldown ends within the clock; a cap of one lets
one new signature hide another, and so does a limit of one detail.

Deadlock is checked in Promotion, whose workers poll for ever. In the other
modules the clients' work or the clock ends, so those runs say
`CHECK_DEADLOCK FALSE`; that their requests do end is `EveryRequestEnds`,
`ShutdownEnds` and `PushesEnd`. Symmetry is used over pods, requests and replicas,
in runs of invariants only.

Fairness, in each module's `FairSpec`:

- Promotion: weak fairness of each worker's steps, of its sweeps, of the
  replacement of a dead pod and of the passing of `RecoverAfter`, and strong
  fairness of a claim of each job and of its recovery, as a
  claim outlives thousands of polls before it is stale (200 ms against 15 minutes)
  and Go visits the stamps of a sweep in a random order. That every call ends with an
  answer or an error is assumed: the worker's push has no deadline of its own
  (`promote/worker.go:221`), and one that never ends keeps its worker.
- Gate: weak fairness of some handler's step and of some worker's. The waits for a
  slot, a scan, a publication and an index's references have deadlines, so a handler
  there gets on. The calls without one, the PUT of a manifest and the exchange of a
  credential, may hang by an action, after which `EveryRequestEnds` and
  `StagedIsReleased` except the request or the tenant. Calls of Valkey, the blob store
  and ClickHouse are assumed to end.
- Audit: weak fairness of the auditor's goroutine, whose attempts have a timeout,
  and of `Run`'s way through drain and release. Nothing of handlers, worker or
  ClickHouse.
- Freshness: weak fairness of each push. A Go mutex is handed on to a waiter. An
  exchange that is never answered is an action, after which its pod is exempt.

Nothing is assumed of clients, of faults or of how a push ends.

Runs that refute a comment of the source:

| Run | The source says | The code does |
|---|---|---|
| PromotionLost | re-enqueue before ack means at worst a harmless duplicate (`promote/worker.go:195`) | the ack is by push ID and removes the claim of the sibling that took the retry; if it then dies, the accepted push is in no key |
| StagingWindow | a finished push never removes a blob another references (`staging/valkey.go:150`) | the decrement and the delete are two commands, and a reference taken between them does not stop the delete |
| UploadTruncated | a chunk is appended to the upload (`staging/staging.go:51`) | after a failed read it replaces what was acknowledged |
| AuditTagReport | aliases let "report lookups by repo:tag ... resolve to the gated image's decision" (`ingress/docker/manifest.go:69`) | the lookup follows the newest alias only; buildx names its attestation last, which has no decision, and the tag of a gated image answers 404 |

Three more disagreements are visible in the models without a run of their own. A
failed ack is called wasted bandwidth (`promote/worker.go:241`), but the cleanup
that follows takes the blobs, and the recovered copy records a published image as
abandoned: `VerdictsAgree` is stated for undisturbed runs. Each completing push is
said to hold one reference (`staging/staging.go:118`), but a layer listed twice is
counted once and released twice: `HeldBlobsStay` excepts `miscounted` digests. An
unrecognized layer is to be scanned, as "the gate must never be bypassed by an unknown
type" (`ingress/docker/classify.go:62`), but the first of the classification rules, that
what lists manifests is an index, comes before layers are looked at: `GatedOnly` leaves
such a manifest out.

Differences of less consequence, met while modelling and visible in the actions
of `Promotion`: `MaxAttempts` "bounds pushes per job" (`promote/worker.go:53`),
but attempts live in the worker's copy and a recovered claim gets them back, so
`BudgetBoundsPushes` is stated for undisturbed runs; a retry "goes back to the
head of the queue" (`promote/worker.go:285`), but `Requeue` appends; an
unreadable payload is parked lest it "poison the loop forever if re-queued"
(`promote/valkey.go:125`), but its claim stays and `RecoverOne` re-queues it; on
a publish error "the image is not published" (`ingress/docker/outcome.go:141`),
but `PromoteFails` may have enqueued it. In `Audit`: callers of `Close` "MUST"
have no Record in flight (`audit/buffer.go`), but the promotion worker is
cancelled and not waited for, so `DrainProtectsHandlers` speaks of handlers only.

## Proofs

Every invariant and every action property that a passing run checks is also a theorem, for
every value of the constants that meets the named assumptions (`QueueAssumption`,
`NoneAssumption`, `PromotionAssumption`, `StagingAssumption`, `UploadAssumption`,
`GateAssumption`, `AuditAssumption`, `FreshnessAssumption`, `AlertsAssumption`). These fix
the shape of the inputs; ask that the bounds on faults, time and rows be natural numbers,
and capacities, windows and attempts positive; that pushes, requests and upload
connections be finite sets where they are counted; and that `None` be no member of the set
it stands beside. In Freshness and Alerts the clock stops at `MaxTime`, of which nothing
is assumed either.

In each module the property by itself is not preserved by every step. What follows
is what had to be added, and why. The additions were model-checked on the runs'
instances before they were proved.

| Module | Theorem | States |
|---|---|---|
| `PromotionProofs` | `TypeCorrect`, `Durability`, `ClaimsFindable`, `RetriesHaveBlobs` | `TypeOK`, `DurableUntilResolved`, `ClaimsAreStamped`, `RetryNotDoomed` |
| | `SingleReplicaNeverLoses` | `NeverLost` where any two pods are equal |
| | `Budget`, `Verdicts` | `BudgetBoundsPushes`, `VerdictsAgree` |
| | `Refinement` | `ImplementsDelivery` |
| `StagingProofs` | `TypeCorrect`, `HeldBlobsAreKept`, `CountersCover`, `AcceptedCanBeRebuilt`, `NoLeak` | `TypeOK`, `HeldBlobsStay`, `RefsCoverHolders`, `AcceptedRebuildable`, `NothingLeaks` |
| `UploadSessionProofs` | `TypeCorrect`, `DigestIntegrity`, `AckedStaged`, `Stranding` | `TypeOK`, `OnlyVerifiedStored`, `AckedBytesStaged`, `NothingStranded` |
| `GateProofs` | `TypeCorrect`, `NothingAroundTheGate`, `AcceptedBytes`, `Backlog`, `Leaving` | `TypeOK`, `GatedOnly`, `AcceptedBytesKept`, `BacklogBounded`, `LeavingIsNoFailure` |
| `AuditProofs` | `TypeCorrect`, `NoSilentLoss`, `ReleaseOrder`, `DrainWaits`, `LastRowIsLastWord` | `TypeOK`, `RecordedOrReported`, `ShutdownDropsNothing`, `DrainProtectsHandlers`, `LastWordStands` |
| `FreshnessProofs` | `TypeCorrect`, `StalenessBounded`, `LiveTokens`, `OneExchange` | `TypeOK`, `DetectionDelayBounded`, `TokensAreLive`; the credential mutex excludes |
| `AlertsProofs` | `TypeCorrect`, `Cooldown`, `Resurfacing`, `Novelty` | `TypeOK`, `QuietWithinCooldown`, `Resurfaces`, `NovelAnnounced` |

**Promotion.** The first four follow from `Invariance`. Durability is not inductive
alone: a worker that has re-enqueued a job is about to delete a claim, and what
keeps the job in Valkey then depends on who wrote that claim. The invariant adds
`RequeuedCopy` (while such an ack is under way the copy is pending, or claimed
and stamped by another pod, or the ack was foreign), `AckedOnce` (the second
delete of an ack never meets a claim of the acking pod), `Settled` (every other
ack, and every cleanup, follows a recorded result), `BudgetLeft` (a payload in
Valkey has an attempt left, which keeps the counter in its type) and `BlobsKept`
(`RetryNotDoomed` from before the hand-off on). `SingleReplicaNeverLoses` adds
`ClaimsAreNamed`, every claim has a claimant, from which no ack is foreign.

`Budget` and `Verdicts` are about undisturbed runs, where the argument is that a
job exists once. `CalmInv` says so for every job that can be read: one copy, pending
or in one worker's hands, and none once it is settled (`Copies`); the registry pushes
made so far are covered by the attempts that copy carries (`Effort`); a stamp is fresh
and its claimant is at work, so no sweep takes it (`Claims`). Jobs that cannot be read
do come round again and never reach a worker (`Unread`).

`Refinement`: steps of the hand-off map to `Accept`, `Refuse` and `Release`,
`PushSucceeds` to `Deliver`, `Retire` to `Abandon`, every other step to a stutter.
The guard of `Deliver` and `Abandon`, that the handler let go of the push, needs
`HandedOff`: whatever is pending, claimed or in a worker's hands belongs to a push
no longer "gated". It is inductive with `TypeOK`.

**Staging.** The first four follow from an invariant of three parts: types; the
counting part, in which `RefsCoverHolders` and `HeldBlobsStay` need `DeletesDecided`
(a push about to delete has taken the counter to zero, so whoever still holds the
digest took the reference afterwards or was miscounted); and `AcceptedHolds` (a push
between its manifest and its release holds all its digests). Cardinality steps rest on
the library's theorems about finite sets. `NoLeak` is the converse: where nothing
failed or expired, no counter exceeds its holders and a blob without references is in
the hands of a push about to count or delete it (`Balanced`), and what a push holds is
what its Cleanup has still to visit (`AllOwed`). At the end both are empty.

**UploadSession.** `DigestIntegrity` needs that a request which stores, or answers
201, carries the whole file (`Carries`). `AckedStaged` is the compare-and-set argument:
of the PATCH requests of an upload at most one is between its `CAS` and its write
(`Sessions`), and while it is, the object and what it has read of it are the
acknowledged chunks exactly (`Kept`); between two of them the object may be longer,
where a write landed and its reply was lost. `Stranding` adds `Clean`: over one slot no
append is under way when an upload is answered.

**Gate.** `GatedOnly` needs what a request past each point of the handler has earned: its
tenant (`Entitlement`), the class of its manifest (`Classified`), its verdict (`Judged`).
`AcceptedBytesKept`, which is about acknowledged hand-offs, needs that a job is in one
place and only after its hand-off (`Owned`). `BacklogBounded` is not inductive, since a
push is counted when it is admitted and enqueued much later; `RoomKept` counts those on
their way too. `LeavingIsNoFailure` needs that a failed result had a fault (`Accounted`).

**Audit.** `Released` ties what closeAll has released to what is left in memory, from
which no write meets a closed writer; `Quiet` is what the drain waited for. `UnderWay`
says which rows of the job in hand are in the tables. `LastWordStands` needs that a
decision is recorded once (`Once`) and that the table, the job in hand and the queue are
ordered as Record was called, where only neighbours in the table may be one row written
twice (`Ordered`).

**Freshness.** Two of the theorems are action properties, about the step that uses a
cached value. The invariant says what is known of that value by then: a reused report
was within its reader's window when it was read (`WellReported`), an entry was made from
a database with a build time (`WellCached`), a token is not kept past its expiry
(`WellKept`), an exchange holds its pod's mutex (`Exclusive`).

**Alerts.** The invariant follows a finding from its row to the channel: a tick that was
taken has fired, or is excused, for every first failure in its window, one the limit on
details hides included among the excuses (`Watched`); what
has fired is in the channel, excused, or still with its run (`Accounted`); a run knows
every announcement of an earlier instant (`Loads`); table and channel agree (`Told`).
`Novelty` adds arithmetic: the first tick after a row is at most an interval away, so
that a row delayed by no more than the window's excess over the interval still lies in
the window of that tick, and the check of the configuration makes the window no shorter
than the interval.

That a bounded set of numbers has a greatest member (the last row of a push, the last
announcement of a class), which one would prove by induction, is proved from a minimal
counterexample with the library's `WFMin` over the order of the natural numbers.

Only model-checked: the liveness properties `AcceptedResolves`, `EveryRequestEnds`,
`StagedIsReleased`, `ShutdownEnds` and `PushesEnd`, because the prover handles neither
fairness nor ENABLED. The formulas that runs refute have no theorem.

## Not modelled

- Writing the OCI layout, decompressing and extracting layers, the registry
  transfer: only success or failure matters to the protocol. Running grype and
  parsing its JSON likewise.
- SQL of schema, retention and the dashboard's statistics; HTML; the dashboard's
  fan-out to open pages, which drops for slow readers by design; metrics; parsing of
  the configuration (the alerts block excepted); limits on subprocesses.
- Token cryptography and the mode without registry tokens, in which the bearer is
  Entra's own.
- The in-memory stores of the test wiring and the Azure adapter, whose calls are the
  atomic steps of `Staging` and `UploadSession`.
- The scratch sweep: it deletes directories a day old, against pushes of minutes.
- `Auditor.Flush`, which production code does not call; the TTL of the audit tables,
  which is taken to be longer than the baseline of the alerter; the truncation of a
  signature.
- `Promotion` and `Gate` keep one flag for a push's blobs, which is exact when
  pushes share no digests; the effects of sharing are `Staging`'s.
- `Promotion` takes the RPUSH of the hand-off and the handler's receipt as one step, so no
  worker runs between them; a receipt that is lost is `PromoteFails`.
- `Freshness` lets a judged push take the token of its own pod, as synchronous publication
  does; a promotion, which any pod may run, is a push of its own that was judged before.
- A PUT of an upload that is repeated while the first still runs; a failed `Cleanup` of the
  handler in `Gate`, which `Staging` has.
- Two jobs with one tag: a recovered job may move the tag back to the older image,
  which the comment at `promote/queue.go:74` accepts.
- A payload without a push ID, or one Lua cannot decode, is not written by any code
  of the repository. An error of `EXPIRE` after `INCR` only makes a counter immortal
  and is the absence of `Expire`.
- A worker whose last attempt is cut short by a shutdown records the push as
  abandoned although the job, not acked, is recovered and may be published by another
  process. `Audit` has the row and `Promotion` the recovery; which of the two is shown
  in the end the code leaves open.
- Attestation pushes never reach `Cleanup`, so their references stay until the
  counters expire; `Staging` models that and `NothingLeaks` excepts it.

## Plan

1. The composition of `Promotion` with `Staging`, for pushes that share digests, and
   the hand-off of `Gate` as a refinement of `Delivery`.
2. Jobs that share a tag, and a tag that moves back.
3. The token path without registry tokens; repeated PUTs of an upload.
