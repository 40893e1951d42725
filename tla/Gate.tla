-------------------------------- MODULE Gate --------------------------------
(***************************************************************************)
(* The request path of a manifest PUT (ingress/docker: route, handleManifest *)
(* and Outcome.Apply; router.Pool; policy.Engine): the caller is             *)
(* authenticated for the tenant of the host, the manifest is classified, an  *)
(* image is staged, scanned under a slot of the pool and published, an index *)
(* or an attestation is forwarded to the registry as it is.  Publication is  *)
(* synchronous, or handed to the promotion queue; for the latter this module *)
(* is built on Delivery, the specification Promotion implements.             *)
(*                                                                         *)
(* The client may leave at any step: the waits follow its request, the scan, *)
(* the publication and the clean-up do not.                                  *)
(***************************************************************************)
EXTENDS Naturals, FiniteSets, Delivery

CONSTANTS
    Requests,     \* manifest PUT requests
    Put,          \* what each request carries (RequestShape)
    Tenants,      \* tenant prefixes, each with a registry of its own
    Entra,        \* external: pairs <<request, tenant>> whose credential is valid; the
                  \* credential of a service all tenants share is in a pair with each
    Policies,
    Slots,        \* size of the scan pool
    MaxPending,   \* bound on the promotion backlog; 0 is none
    None,
    MaxFaults,    \* bound: calls that fail
    MaxTroubles   \* bound: calls that fail and clients that leave, together

\* One manifest PUT: where it is addressed, where the client got its token,
\* and what the manifest says of itself.
RequestShape(r) ==
    /\ DOMAIN r = {"host", "tokenHost", "digest", "tag", "index", "manifests",
                   "layers", "after"}
    /\ {r.host, r.tokenHost} \subseteq Tenants \cup {None}
    /\ {r.tag, r.index} \subseteq BOOLEAN
    /\ r.layers \subseteq {"filesystem", "in-toto", "unknown"}
    \* the client sends it when these were answered
    /\ r.after \subseteq Requests

ASSUME GateAssumption ==
    /\ \A p \in Requests : RequestShape(Put[p])
    /\ Jobs = Requests
    /\ IsFiniteSet(Requests)
    /\ Slots \in Nat \ {0}
    /\ {MaxPending, MaxFaults, MaxTroubles} \subseteq Nat

VARIABLES
    deferred,   \* a promoter is wired: publication goes through the queue
    held,       \* tenants whose credential is held by an exchange that never returns
    stage,      \* how far each request got
    token,      \* the tenant of the registry token the client holds, or None
    gone,       \* requests whose client has left
    result,     \* what the gate found
    row,        \* the decision recorded for the push
    answer,     \* the status written, 0 before
    bytes,      \* who owes the release of the staged bytes
    backlog,    \* jobs in the queue's pending list
    working,    \* jobs a worker has claimed
    registry,   \* manifests in the registries: pairs <<tenant, digest>>
    aliases,    \* tag alias rows: pairs <<index digest, digest>>
    uncounted,  \* history: pushes the backlog bound could not see coming
    faults

clientVars == <<token, gone>>
queueVars == <<backlog, working, uncounted, deliveryVars>>
recordVars == <<row, answer>>
vars == <<deferred, held, stage, clientVars, result, recordVars, bytes, queueVars,
          registry, aliases, faults>>

Stages == {"new", "sent", "read", "admit", "stage", "slot", "scan", "publish", "finish",
           "forward", "await", "unanswered", "stuck", "done"}

-----------------------------------------------------------------------------
(***************************************************************************)
(* Tenants and tokens.                                                      *)
(***************************************************************************)

\* PrefixFromHost and the tenant map: the tenant a host names, None for a host
\* that is not <prefix>.<base domain> of a configured prefix.
ForHost(host) == IF host \in Tenants THEN host ELSE None
TenantOf(p) == ForHost(Put[p].host)

\* Verify of the registry token and the comparison of its prefix claim.
Authenticated(p) == token[p] # None /\ token[p] = TenantOf(p)

\* The second verification, for the subject, does not look at the prefix.
ValidatedIdentity(p) == token[p] # None

(***************************************************************************)
(* classifyManifest: anything not known to be without a filesystem is an    *)
(* image.                                                                   *)
(***************************************************************************)
IsIndex(m) == m.manifests # {} \/ m.index

\* Plausible bug: one attestation layer makes the manifest an attestation.
IsAttestationByOne(m) == ~IsIndex(m) /\ "in-toto" \in m.layers

IsAttestation(m) == ~IsIndex(m) /\ m.layers # {} /\ m.layers \subseteq {"in-toto"}

IsImage(m) == ~IsIndex(m) /\ ~IsAttestation(m)

-----------------------------------------------------------------------------
Init ==
    /\ deferred \in BOOLEAN
    /\ held = {}
    /\ stage = [p \in Requests |-> "new"]
    /\ token = [p \in Requests |-> None]
    /\ gone = {}
    /\ result = [p \in Requests |-> "none"]
    /\ row = [p \in Requests |-> "none"]
    /\ answer = [p \in Requests |-> 0]
    /\ bytes = [p \in Requests |-> "uploads"]
    /\ backlog = {}
    /\ working = {}
    /\ registry = {}
    /\ aliases = {}
    /\ uncounted = {}
    /\ faults = 0
    /\ DeliveryInit

TypeOK ==
    /\ deferred \in BOOLEAN
    /\ held \subseteq Tenants
    /\ stage \in [Requests -> Stages]
    /\ token \in [Requests -> Tenants \cup {None}]
    /\ gone \subseteq Requests
    /\ result \in [Requests -> {"none", "passed", "rejected", "infra", "saturated", "unpublished"}]
    /\ row \in [Requests -> {"none", "passed", "rejected", "infra"}]
    /\ answer \in [Requests -> {0, 201, 400, 401, 404, 500, 502, 503}]
    /\ bytes \in [Requests -> {"uploads", "handler", "worker", "released"}]
    /\ push \in [Jobs -> {"gated", "accepted", "refusing", "refused"}]
    /\ published \cup contradicted \subseteq Jobs
    /\ backlog \subseteq Requests
    /\ working \subseteq Requests
    /\ registry \subseteq Tenants \X {Put[p].digest : p \in Requests}
    /\ aliases \subseteq {Put[p].digest : p \in Requests} \X UNION {Put[p].manifests : p \in Requests}
    /\ uncounted \subseteq Requests
    /\ faults \in 0..MaxFaults
    /\ Cardinality({p \in Requests : stage[p] = "scan"}) <= Slots

-----------------------------------------------------------------------------
Trouble == faults + Cardinality(gone) < MaxTroubles
Fault == Trouble /\ faults < MaxFaults /\ faults' = faults + 1
NoFault == UNCHANGED faults

\* A call under the request's context fails by itself, or because the client left.
Fails(p) == IF p \in gone THEN NoFault ELSE Fault

At(p, s) == stage[p] = s
Sent(p) == \A q \in Put[p].after : At(q, "done")
Goto(p, s) == stage' = [stage EXCEPT ![p] = s]

\* The handler writes its status and returns, before the gate has run.
Reply(p, code) ==
    /\ answer' = [answer EXCEPT ![p] = code]
    /\ Goto(p, "done")
    /\ UNCHANGED <<result, row>>

Proceed(p, s) == Goto(p, s) /\ UNCHANGED <<result, recordVars>>

\* TokenHandler: the credential is checked against the tenant of the host and
\* the token is minted for that tenant's prefix; a refusal leaves no token.
Mint(p) ==
    /\ At(p, "new") /\ Sent(p)
    /\ LET t == ForHost(Put[p].tokenHost) IN
       token' = [token EXCEPT ![p] = IF <<p, t>> \in Entra THEN t ELSE None]
    /\ Goto(p, "sent")
    /\ UNCHANGED <<deferred, held, gone, result, recordVars, bytes, queueVars,
                   registry, aliases, faults>>

\* The token's TTL passes while the request is on its way.
TokenExpires(p) ==
    /\ stage[p] \in {"sent", "read"}
    /\ token[p] # None
    /\ Fault
    /\ token' = [token EXCEPT ![p] = None]
    /\ UNCHANGED <<deferred, held, stage, gone, result, recordVars, bytes, queueVars,
                   registry, aliases>>

\* The request's context ends; the bound leaves room for the client of a call
\* that hangs.
Leave(p) ==
    /\ stage[p] \notin {"new", "sent", "done"}
    /\ p \notin gone
    /\ Trouble \/ At(p, "unanswered")
    /\ gone' = gone \cup {p}
    /\ UNCHANGED <<deferred, held, stage, token, result, recordVars, bytes, queueVars,
                   registry, aliases, faults>>

\* route and authenticate: an unknown host is 404 before any credential is read.
Route(p) ==
    /\ At(p, "sent")
    /\ \/ TenantOf(p) = None /\ Reply(p, 404)
       \/ TenantOf(p) # None /\ ~Authenticated(p) /\ Reply(p, 401)
       \/ TenantOf(p) # None /\ Authenticated(p) /\ Proceed(p, "read")
    /\ UNCHANGED <<deferred, held, clientVars, bytes, queueVars, registry, aliases, faults>>

\* readManifestPush: the identity (verified a second time), the path, the body and
\* its classification; what cannot be read or parsed is 400.
Read(p) ==
    /\ At(p, "read")
    /\ \/ ~ValidatedIdentity(p) /\ Reply(p, 401) /\ NoFault
       \/ ValidatedIdentity(p) /\ Reply(p, 400) /\ Fails(p)
       \/ /\ ValidatedIdentity(p)
          /\ Proceed(p, IF IsImage(Put[p]) THEN "admit" ELSE "forward")
          /\ NoFault
    /\ UNCHANGED <<deferred, held, clientVars, bytes, queueVars, registry, aliases>>

-----------------------------------------------------------------------------
(***************************************************************************)
(* The image.                                                               *)
(***************************************************************************)

\* Admitted, and not yet in the queue or turned away.
InFlight == {p \in Requests : stage[p] \in {"stage", "slot", "scan", "publish"}}

\* Plausible bug: the bound is off by one.
BacklogFullOneMore == deferred /\ MaxPending > 0 /\ Cardinality(backlog) > MaxPending

BacklogFull == deferred /\ MaxPending > 0 /\ Cardinality(backlog) >= MaxPending

\* promotionBacklogFull: a full backlog sheds the push, an unreadable one
\* admits it.
Admit(p) ==
    /\ At(p, "admit")
    /\ \/ BacklogFull /\ Reply(p, 503) /\ NoFault /\ UNCHANGED uncounted
       \/ /\ ~BacklogFull /\ Proceed(p, "stage") /\ NoFault
          /\ uncounted' = IF InFlight = {} THEN uncounted ELSE uncounted \cup {p}
       \/ Proceed(p, "stage") /\ Fails(p) /\ uncounted' = uncounted \cup {p}
    /\ UNCHANGED <<deferred, held, clientVars, bytes, backlog, working, deliveryVars,
                   registry, aliases>>

\* stageImage: an incomplete push is 400; a failed PutManifest or MkdirTemp is
\* 500 and leaves the uploads as they are; a failed Assemble is 500 and cleans up.
Stage(p) ==
    /\ At(p, "stage")
    /\ \/ /\ Proceed(p, "slot") /\ NoFault
          /\ bytes' = [bytes EXCEPT ![p] = "handler"]
       \/ \E code \in {400, 500} : Reply(p, code) /\ Fails(p) /\ UNCHANGED bytes
       \/ /\ Reply(p, 500) /\ Fails(p)
          /\ bytes' = [bytes EXCEPT ![p] = "released"]
    /\ UNCHANGED <<deferred, held, clientVars, queueVars, registry, aliases>>

\* Plausible bug: a channel with room for one more.
SlotFreeOneMore == Cardinality({q \in Requests : stage[q] = "scan"}) <= Slots

SlotFree == Cardinality({q \in Requests : stage[q] = "scan"}) < Slots

\* Pool.Acquire under waitContext: Go's select takes either ready case, so a
\* client that has left may still be given a slot.
AcquireSlot(p) ==
    /\ At(p, "slot")
    /\ SlotFree
    /\ Proceed(p, "scan")
    /\ UNCHANGED <<deferred, held, clientVars, bytes, queueVars, registry, aliases, faults>>

\* The gate budget passes first: ErrSaturated goes to the Outcome.
SlotWaitExpires(p) ==
    /\ At(p, "slot")
    /\ p \notin gone
    /\ Goto(p, "finish")
    /\ result' = [result EXCEPT ![p] = "saturated"]
    /\ UNCHANGED <<deferred, held, clientVars, recordVars, bytes, queueVars, registry,
                   aliases, faults>>

\* Plausible bug: the clean-up is registered after the gate.
AbandonWaitUnreleased(p) ==
    /\ At(p, "slot")
    /\ p \in gone
    /\ Proceed(p, "done")
    /\ UNCHANGED <<deferred, held, clientVars, bytes, queueVars, registry, aliases, faults>>

\* The client left while queued: no scan, no row, no answer, and the clean-up.
AbandonWait(p) ==
    /\ At(p, "slot")
    /\ p \in gone
    /\ Proceed(p, "done")
    /\ bytes' = [bytes EXCEPT ![p] = "released"]
    /\ UNCHANGED <<deferred, held, clientVars, queueVars, registry, aliases, faults>>

\* Engine.Run: every policy runs; an error is an infra failure, whatever the
\* other verdicts say, and otherwise one failed verdict rejects.
Verdict(outcome) ==
    IF \E c \in Policies : outcome[c] = "error" THEN "infra"
    ELSE IF \E c \in Policies : outcome[c] = "failed" THEN "rejected" ELSE "passed"

Judge(p, outcome) ==
    /\ result' = [result EXCEPT ![p] = Verdict(outcome)]
    /\ Goto(p, IF Verdict(outcome) = "passed" THEN "publish" ELSE "finish")
    /\ IF Verdict(outcome) = "infra" THEN Fault ELSE NoFault

\* Plausible bug: the scan runs under the request's context.
ScanFollowsRequest(p) ==
    /\ At(p, "scan")
    /\ IF p \in gone
       THEN result' = [result EXCEPT ![p] = "infra"] /\ Goto(p, "finish") /\ NoFault
       ELSE \E outcome \in [Policies -> {"passed", "failed", "error"}] : Judge(p, outcome)
    /\ UNCHANGED <<deferred, held, clientVars, recordVars, bytes, queueVars, registry, aliases>>

\* runScan under scanContext, detached from the client; the slot is released
\* when it returns.
Scan(p) ==
    /\ At(p, "scan")
    /\ \E outcome \in [Policies -> {"passed", "failed", "error"}] : Judge(p, outcome)
    /\ UNCHANGED <<deferred, held, clientVars, recordVars, bytes, queueVars, registry, aliases>>

\* The credential of p's tenant can be taken; a call that already has its token
\* is one that ended before the exchange hung.
Reachable(p) == TenantOf(p) \notin held

Landed(p) == registry \cup {<<TenantOf(p), Put[p].digest>>}

\* publication.run and SyncPublish: the image is pushed to the tenant's
\* registry, which may take it and lose the reply.
PublishNow(p) ==
    /\ At(p, "publish")
    /\ ~deferred
    /\ Reachable(p)
    /\ \/ registry' = Landed(p) /\ NoFault /\ UNCHANGED result
       \/ /\ registry' \in {registry, Landed(p)} /\ Fault
          /\ result' = [result EXCEPT ![p] = "unpublished"]
    /\ Goto(p, "finish")
    /\ UNCHANGED <<deferred, held, clientVars, recordVars, bytes, queueVars, aliases>>

\* publication.run with a promoter: the job is in the queue and the worker owns
\* the bytes, or the hand-off failed, with or without the job in the queue.
HandOff(p) ==
    /\ At(p, "publish")
    /\ deferred
    /\ \/ /\ Accept(p) /\ backlog' = backlog \cup {p} /\ NoFault
          /\ bytes' = [bytes EXCEPT ![p] = "worker"]
          /\ UNCHANGED result
       \/ /\ Refuse(p) /\ backlog' \in {backlog, backlog \cup {p}} /\ Fault
          /\ result' = [result EXCEPT ![p] = "unpublished"]
          /\ UNCHANGED bytes
    /\ Goto(p, "finish")
    /\ UNCHANGED <<deferred, held, clientVars, recordVars, working, uncounted, registry, aliases>>

\* The row recordDecision writes: an incomplete gate is not a rejection.
RowFor(p) == IF result[p] \in {"saturated", "unpublished"} THEN "infra" ELSE result[p]

\* The status Apply renders.
StatusFor(p) ==
    CASE result[p] = "passed" -> 201
      [] result[p] = "rejected" -> 400
      [] result[p] = "saturated" -> 503
      [] result[p] = "infra" -> 500
      [] result[p] = "unpublished" -> 502

\* Plausible bug: the clean-up does not ask who owns the bytes.
AfterCleanupAlways(p) == [bytes EXCEPT ![p] = "released"]

\* The deferred Cleanup of handleManifest, skipped once the worker owns the bytes.
AfterCleanup(p) == IF push[p] = "accepted" THEN bytes ELSE [bytes EXCEPT ![p] = "released"]

\* Apply records the decision and renders it, writeDecision answers, and the
\* handler returns through its deferred clean-up.
Finish(p) ==
    /\ At(p, "finish")
    /\ row' = [row EXCEPT ![p] = RowFor(p)]
    /\ answer' = [answer EXCEPT ![p] = StatusFor(p)]
    /\ Goto(p, "done")
    /\ bytes' = AfterCleanup(p)
    /\ IF push[p] = "refusing" THEN Release(p) ELSE UNCHANGED deliveryVars
    /\ UNCHANGED <<deferred, held, clientVars, result, backlog, working, uncounted, registry,
                   aliases, faults>>

-----------------------------------------------------------------------------
(***************************************************************************)
(* The index and the attestation.                                           *)
(***************************************************************************)

\* External: the registry takes an index, by its media type, if it has the
\* manifests it names; of any other manifest it looks at the blobs.
ReferencesPresent(p) ==
    Put[p].index => \A d \in Put[p].manifests : <<TenantOf(p), d>> \in registry

\* External: the blobs of what classifyManifest calls an index are not seeded,
\* and the registry may have them or not.
BlobsUnknown(p) == Put[p].layers # {}

\* The manifest is in the registry: an index addressed by tag leaves an alias
\* row for each of its manifests, and the client hears 201.
Forwarded(p) ==
    /\ ReferencesPresent(p)
    /\ registry' = Landed(p)
    /\ aliases' = IF IsIndex(Put[p]) /\ Put[p].tag
                  THEN aliases \cup ({Put[p].digest} \X Put[p].manifests) ELSE aliases
    /\ Reply(p, 201)
    /\ NoFault

\* The PUT failed for another reason than a missing reference: 400.
NotForwarded(p) ==
    /\ registry' \in {registry, IF ReferencesPresent(p) THEN Landed(p) ELSE registry}
    /\ Reply(p, 400)
    /\ Fails(p)
    /\ UNCHANGED aliases

\* forwardManifest: an attestation's blobs are seeded first (a failure is 400);
\* an index that misses a reference waits for it, and only an index does.
Forward(p) ==
    /\ At(p, "forward")
    /\ Reachable(p)
    /\ \/ Forwarded(p)
       \/ NotForwarded(p)
       \/ /\ IsIndex(Put[p]) /\ (~ReferencesPresent(p) \/ BlobsUnknown(p))
          /\ Proceed(p, "await") /\ NoFault
          /\ UNCHANGED <<registry, aliases>>
    /\ UNCHANGED <<deferred, held, clientVars, bytes, queueVars>>

\* One more attempt of awaitIndexReferences.
Poll(p) ==
    /\ At(p, "await")
    /\ Reachable(p)
    /\ Forwarded(p) \/ NotForwarded(p)
    /\ UNCHANGED <<deferred, held, clientVars, bytes, queueVars>>

\* Plausible bug: the wait has no deadline, and only a client that leaves ends it.
AwaitEndsOnLeave(p) ==
    /\ At(p, "await")
    /\ p \in gone
    /\ Reply(p, 400)
    /\ UNCHANGED <<deferred, held, clientVars, bytes, queueVars, registry, aliases, faults>>

\* The deadline passed, or the client left.
AwaitEnds(p) ==
    /\ At(p, "await")
    /\ Reply(p, 400)
    /\ UNCHANGED <<deferred, held, clientVars, bytes, queueVars, registry, aliases, faults>>

-----------------------------------------------------------------------------
(***************************************************************************)
(* Calls of the registry that are never answered.  A manifest is put, and    *)
(* its blobs are seeded, under the request's context, which has no deadline; *)
(* the exchange of a tenant's credential runs under no context at all and    *)
(* with its mutex held, so it keeps every later call of that tenant.         *)
(***************************************************************************)
CallsRegistry(p) == stage[p] \in {"forward", "await"} \/ (At(p, "publish") /\ ~deferred)

PutHangs(p) ==
    /\ stage[p] \in {"forward", "await"}
    /\ Reachable(p)
    /\ Fault
    /\ Proceed(p, "unanswered")
    /\ UNCHANGED <<deferred, held, clientVars, bytes, queueVars, registry, aliases>>

\* Only the client that leaves ends it, whether the registry had taken it or not.
HungPutEnds(p) ==
    /\ At(p, "unanswered")
    /\ p \in gone
    /\ NotForwarded(p)
    /\ UNCHANGED <<deferred, held, clientVars, bytes, queueVars>>

ExchangeHangs(p) ==
    /\ CallsRegistry(p)
    /\ Reachable(p)
    /\ Fault
    /\ held' = held \cup {TenantOf(p)}
    /\ Proceed(p, "stuck")
    /\ UNCHANGED <<deferred, clientVars, bytes, queueVars, registry, aliases>>

\* The next call waits for the mutex.
WaitForExchange(p) ==
    /\ CallsRegistry(p)
    /\ ~Reachable(p)
    /\ Proceed(p, "stuck")
    /\ UNCHANGED <<deferred, held, clientVars, bytes, queueVars, registry, aliases, faults>>

-----------------------------------------------------------------------------
(***************************************************************************)
(* The promotion workers, as Delivery has them: a job is claimed, its image *)
(* delivered to the registry of its tenant or given up with a contradicting *)
(* row, and its bytes are released; a failed attempt goes back to pending.  *)
(***************************************************************************)
Claim(id) ==
    /\ id \in backlog
    /\ backlog' = backlog \ {id}
    /\ working' = working \cup {id}
    /\ UNCHANGED <<deferred, held, stage, clientVars, result, recordVars, bytes, uncounted,
                   deliveryVars, registry, aliases, faults>>

Resolved(id) ==
    /\ working' = working \ {id}
    /\ bytes' = [bytes EXCEPT ![id] = "released"]
    /\ UNCHANGED <<deferred, held, stage, clientVars, result, recordVars, backlog, uncounted, aliases>>

\* Needs the bytes: a refused push whose handler cleaned up cannot be rebuilt.
DeliverJob(id) ==
    /\ id \in working
    /\ bytes[id] # "released"
    /\ Reachable(id)
    /\ Deliver(id)
    /\ registry' = Landed(id)
    /\ NoFault
    /\ Resolved(id)

AbandonJob(id) ==
    /\ id \in working
    /\ Abandon(id)
    /\ IF bytes[id] = "released" THEN NoFault ELSE Fault
    /\ UNCHANGED registry
    /\ Resolved(id)

RetryJob(id) ==
    /\ id \in working
    /\ Fault
    /\ working' = working \ {id}
    /\ backlog' = backlog \cup {id}
    /\ uncounted' = uncounted \cup {id}
    /\ UNCHANGED <<deferred, held, stage, clientVars, result, recordVars, bytes, deliveryVars,
                   registry, aliases>>

\* The exchange hangs under a worker.
WorkerHangs(id) ==
    /\ id \in working
    /\ bytes[id] # "released"
    /\ Reachable(id)
    /\ Fault
    /\ held' = held \cup {TenantOf(id)}
    /\ UNCHANGED <<deferred, stage, clientVars, result, recordVars, bytes, queueVars,
                   registry, aliases>>

-----------------------------------------------------------------------------
Handler(p) ==
    \/ Route(p) \/ Read(p) \/ Admit(p) \/ Stage(p)
    \/ AcquireSlot(p) \/ SlotWaitExpires(p) \/ AbandonWait(p) \/ Scan(p)
    \/ PublishNow(p) \/ HandOff(p) \/ Finish(p)
    \/ Forward(p) \/ Poll(p) \/ AwaitEnds(p) \/ HungPutEnds(p) \/ WaitForExchange(p)

Hang(p) == PutHangs(p) \/ ExchangeHangs(p) \/ WorkerHangs(p)

Worker(id) == Claim(id) \/ DeliverJob(id) \/ AbandonJob(id) \/ RetryJob(id)

Next ==
    \E p \in Requests :
        Mint(p) \/ TokenExpires(p) \/ Leave(p) \/ Hang(p) \/ Handler(p) \/ Worker(p)

Spec == Init /\ [][Next]_vars

(***************************************************************************)
(* The waits of a handler in the pool, in a scan, in a publication and for  *)
(* the references of an index have deadlines, and the calls without one are *)
(* either answered or taken by Hang; calls of Valkey, the blob store and    *)
(* ClickHouse are taken to end.  So a handler gets to a next step unless it *)
(* hangs; a worker polls for jobs, and Promotion shows that each one is     *)
(* resolved.  As neither goes on for ever, it is enough that some handler   *)
(* and some worker step.                                                    *)
(***************************************************************************)
FairSpec ==
    /\ Spec
    /\ WF_vars(\E p \in Requests : Handler(p))
    /\ WF_vars(\E p \in Requests : Worker(p))

-----------------------------------------------------------------------------
(***************************************************************************)
(* What reaches a registry past the gate (readManifestPush, "a rejected     *)
(* image cannot be published by reference"): every manifest there was put   *)
(* by a request that held a token of that tenant; one that lists no         *)
(* manifests and is no index by its media type, and has a layer not known   *)
(* to be without a filesystem, was passed by the policies first, by         *)
(* whichever way it was published; and what an index names is there.        *)
(* A manifest with layers that also lists manifests, or has the media type  *)
(* of an index, is not covered: classifyManifest calls it an index, and     *)
(* forwardManifest puts it as it is.                                        *)
(***************************************************************************)
Origin(t, d) == {p \in Requests : Put[p].digest = d /\ TenantOf(p) = t /\ <<p, t>> \in Entra}

GatedOnly ==
    \A e \in registry : \E p \in Origin(e[1], e[2]) :
        /\ /\ Put[p].manifests = {} /\ ~Put[p].index
           /\ Put[p].layers \cap {"filesystem", "unknown"} # {}
           => result[p] \in {"passed", "unpublished"}
        /\ Put[p].index => \A d \in Put[p].manifests : <<e[1], d>> \in registry

(***************************************************************************)
(* The bytes of an accepted push stay until its worker is through with them *)
(* (the deferred clean-up of handleManifest against publication.run).       *)
(***************************************************************************)
AcceptedBytesKept ==
    \A id \in Requests : push[id] = "accepted" /\ id \in backlog \cup working =>
        bytes[id] = "worker"

(***************************************************************************)
(* The bound on the backlog (promotionBacklogFull): the depth is read long  *)
(* before the job is enqueued, so the pushes it bounds are those admitted   *)
(* with a reading, with no other admitted push on its way, and not put back *)
(* by a worker; of those there are never more than MaxPending.              *)
(***************************************************************************)
BacklogBounded ==
    deferred /\ MaxPending > 0 => Cardinality(backlog \ uncounted) <= MaxPending

(***************************************************************************)
(* A client that leaves costs no verdict: a push is recorded as an infra    *)
(* failure only where a call failed or the pool was full (scanContext and   *)
(* publication.run are detached; an image nobody judged is not recorded).   *)
(***************************************************************************)
LeavingIsNoFailure ==
    \A p \in Requests :
        row[p] = "infra" => faults > 0 \/ result[p] = "saturated"

(***************************************************************************)
(* Every request that was taken up is answered or, if its client left while *)
(* queued, given up: an index does not wait for ever for an image that was  *)
(* rejected (awaitIndexReferences).  It may instead stand for ever in the   *)
(* exchange of its tenant's credential, or in a PUT nobody answers; the     *)
(* latter ends when the client leaves.                                      *)
(***************************************************************************)
Unanswered(p) == At(p, "unanswered") /\ p \notin gone

EveryRequestEnds ==
    \A p \in Requests :
        At(p, "read") \/ (At(p, "unanswered") /\ p \in gone)
            ~> At(p, "done") \/ At(p, "stuck") \/ Unanswered(p)

(***************************************************************************)
(* "Every path from here on, a client that disconnects while queued         *)
(* included, must release the staged bytes" (handleManifest): by the        *)
(* handler, or by the worker once it has published or given up; unless the  *)
(* exchange of the tenant's credential hangs under either.                  *)
(***************************************************************************)
StagedIsReleased ==
    \A p \in Requests : bytes[p] = "handler" ~> bytes[p] = "released" \/ ~Reachable(p)
=============================================================================
