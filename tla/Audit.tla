------------------------------- MODULE Audit --------------------------------
(***************************************************************************)
(* The audit trail of one pod and the life of its process: handlers and the *)
(* promotion worker Record decisions and tag aliases into a bounded queue    *)
(* (audit.Auditor), one goroutine writes them to ClickHouse with bounded     *)
(* retries, reports are read back from the tables (audit.Reader), and Run    *)
(* drains the servers and releases the backends when the process is told to  *)
(* stop.  The tables outlive the process.                                    *)
(***************************************************************************)
EXTENDS Naturals, Sequences, FiniteSets, SequencesExt

CONSTANTS
    Pushes,        \* manifest PUTs of one repository
    Put,           \* what each of them is (PushShape)
    QueueSize,     \* capacity of the auditor's queue
    Attempts,      \* writeAttempts
    None,
    MaxSignals,    \* bound: orders to stop, crashes
    MaxFaults      \* bound: outages of ClickHouse, replies it loses

\* ref is the tag or the digest the client addressed; subs are the digests an
\* index names, in order.
PushShape(r) ==
    /\ DOMAIN r = {"kind", "ref", "digest", "subs", "findings", "after"}
    /\ r.kind \in {"image", "index"}
    /\ r.findings \in BOOLEAN
    /\ r.after \subseteq Pushes
    /\ r.subs \in Seq(ToSet(r.subs))
    /\ r.kind = "image" => r.subs = <<>>

Digests == UNION {{Put[p].digest} \cup ToSet(Put[p].subs) : p \in Pushes}
Decision(p, v) == [kind |-> "decision", push |-> p, what |-> v]
TagAlias(p, d) == [kind |-> "alias", push |-> p, what |-> d]
Jobs == {Decision(p, v) : p \in Pushes, v \in {"passed", "rejected", "abandoned"}}
        \cup {TagAlias(p, d) : p \in Pushes, d \in Digests}

\* A job under way: the rows it still needs, and the attempts at the first.
Work == [job : Jobs, left : {<<"row", "findings">>, <<"row">>, <<"findings">>},
         tries : 0..Attempts - 1]

ASSUME AuditAssumption ==
    /\ \A p \in Pushes : PushShape(Put[p])
    /\ {QueueSize, Attempts} \subseteq Nat \ {0}
    /\ {MaxSignals, MaxFaults} \subseteq Nat
    /\ None \notin Work

VARIABLES
    phase,      \* of the process
    cancelled,  \* bctx is done
    expired,    \* the drain ran out of its budget
    panic,      \* who sent on the closed queue
    opened,     \* backends not released yet
    step,       \* how far the handler of each push got
    verdict,    \* what the gate found
    promotion,  \* the deferred publication of each push
    queue,      \* the auditor's channel
    closed,     \* the channel is closed
    hand,       \* the job the auditor's goroutine works on, or None
    decisions,  \* gate_decisions, in the order of ts
    findings,   \* pushes with rows in vulnerability_findings
    aliases,    \* tag_aliases, in the order of ts
    down,       \* ClickHouse does not answer
    sent,       \* history: every job handed to Record, in order
    reported,   \* the calls of onDrop
    silent,     \* aliases whose write failed
    forgotten,  \* history: jobs that died with the process
    signals, faults

processVars == <<phase, cancelled, expired, panic, opened>>
handlerVars == <<step, verdict, promotion>>
bufferVars == <<queue, closed, hand>>
tableVars == <<decisions, findings, aliases>>
lossVars == <<reported, silent, forgotten>>
boundVars == <<signals, faults>>
vars == <<processVars, handlerVars, bufferVars, tableVars, down, sent, lossVars, boundVars>>

\* buildAudit opens the writer, the auditor over it, then the reader.
Backends == {"writer", "auditor", "reader"}
Order == [writer |-> 1, auditor |-> 2, reader |-> 3]

Alive == phase \in {"serving", "draining", "releasing"}

Init ==
    /\ phase = "serving"
    /\ cancelled = FALSE
    /\ expired = FALSE
    /\ panic = "none"
    /\ opened = Backends
    /\ step = [p \in Pushes |-> "new"]
    /\ verdict = [p \in Pushes |-> "none"]
    /\ promotion = [p \in Pushes |-> "none"]
    /\ queue = <<>>
    /\ closed = FALSE
    /\ hand = None
    /\ decisions = <<>>
    /\ findings = {}
    /\ aliases = <<>>
    /\ down = FALSE
    /\ sent = <<>>
    /\ reported = {}
    /\ silent = {}
    /\ forgotten = {}
    /\ signals = 0
    /\ faults = 0

TypeOK ==
    /\ phase \in {"serving", "draining", "releasing", "exited", "dead"}
    /\ {cancelled, expired, closed, down} \subseteq BOOLEAN
    /\ panic \in {"none", "handler", "worker"}
    /\ opened \subseteq Backends
    /\ step \in [Pushes -> {"new", "gate", "record", "alias", "done"}]
    /\ verdict \in [Pushes -> {"none", "passed", "rejected"}]
    /\ promotion \in [Pushes -> {"none", "pending", "working", "published", "abandoned"}]
    /\ {queue, sent} \subseteq Seq(Jobs)
    /\ Len(queue) <= QueueSize
    /\ hand \in Work \cup {None}
    /\ decisions \in Seq({j \in Jobs : j.kind = "decision"})
    /\ aliases \in Seq({j \in Jobs : j.kind = "alias"})
    /\ silent \cup forgotten \subseteq Jobs
    /\ reported \subseteq [job : Jobs, err : {"full", "write"}]
    /\ findings \subseteq Pushes
    /\ signals \in 0..MaxSignals
    /\ faults \in 0..MaxFaults

-----------------------------------------------------------------------------
(***************************************************************************)
(* Record and RecordTagAlias: a send that never blocks.  A full queue drops *)
(* the job and says so; a closed one panics, which ends the process.        *)
(***************************************************************************)
InHand == IF hand = None THEN {} ELSE {hand.job}

\* What is in memory dies with the process.
Die ==
    /\ phase' = "dead"
    /\ forgotten' = forgotten \cup ToSet(queue) \cup InHand
    /\ queue' = <<>>
    /\ hand' = None

\* Plausible bug: a full queue drops the decision without a word.
DroppedSilently(j, err) == reported

\* onDrop names the decision and the cause.
Dropped(j, err) == reported \cup {[job |-> j, err |-> err]}

\* Plausible bug: room is found where there is none.
RoomOneMore == Len(queue) <= QueueSize

Room == Len(queue) < QueueSize

Record(j, who) ==
    \/ /\ closed
       /\ Die
       /\ panic' = who
       /\ UNCHANGED <<reported, sent>>
    \/ /\ ~closed
       /\ queue' = IF Room THEN Append(queue, j) ELSE queue
       /\ reported' = IF Room THEN reported ELSE Dropped(j, "full")
       /\ sent' = Append(sent, j)
       /\ UNCHANGED <<phase, panic, hand, forgotten>>

recordUnchanged == <<cancelled, expired, opened, closed, tableVars, down, silent, boundVars>>

(***************************************************************************)
(* The handlers.                                                            *)
(***************************************************************************)
Goto(p, s) == step' = [step EXCEPT ![p] = s]

\* The registry takes an index once the images it names are published, which the
\* handler waits for; after that it is refused.
Begin(p) ==
    /\ phase = "serving"
    /\ step[p] = "new"
    /\ \A q \in Put[p].after : step[q] = "done"
    /\ \/ Put[p].kind = "image" /\ Goto(p, "gate")
       \/ /\ Put[p].kind = "index"
          /\ LET named == {q \in Pushes : Put[q].digest \in ToSet(Put[p].subs)} IN
             Goto(p, IF \A q \in named : promotion[q] = "published" THEN "alias" ELSE "done")
    /\ UNCHANGED <<processVars, verdict, promotion, bufferVars, tableVars, down, sent,
                   lossVars, boundVars>>

\* The gate is through (an incomplete one is recorded like a rejection); a passed image has been handed to the promotion queue.
Decide(p) ==
    /\ Alive
    /\ step[p] = "gate"
    /\ \E v \in {"passed", "rejected"} :
          /\ verdict' = [verdict EXCEPT ![p] = v]
          /\ promotion' = IF v = "passed" THEN [promotion EXCEPT ![p] = "pending"] ELSE promotion
    /\ Goto(p, "record")
    /\ UNCHANGED <<processVars, bufferVars, tableVars, down, sent, lossVars, boundVars>>

\* Outcome.Apply through the dashboard's TeeRecorder.
RecordDecision(p) ==
    /\ Alive
    /\ step[p] = "record"
    /\ Record(Decision(p, verdict[p]), "handler")
    /\ Goto(p, "done")
    /\ UNCHANGED <<recordUnchanged, verdict, promotion>>

\* forwardManifest: the aliases of a tag-addressed index, one after the other.
RecordAlias(p) ==
    /\ Alive
    /\ step[p] = "alias"
    /\ LET k == Cardinality({i \in DOMAIN sent : sent[i].push = p}) + 1
       IN IF k > Len(Put[p].subs)
          THEN Goto(p, "done") /\ UNCHANGED <<phase, panic, queue, hand, sent, reported, forgotten>>
          ELSE Record(TagAlias(p, Put[p].subs[k]), "handler") /\ UNCHANGED step
    /\ UNCHANGED <<recordUnchanged, verdict, promotion>>

(***************************************************************************)
(* The promotion worker: it stops claiming when bctx is done, and nobody    *)
(* waits for the job it is at, which the cancellation may make it abandon.  *)
(***************************************************************************)
Claim(p) ==
    /\ phase \in {"serving", "draining"}
    /\ ~cancelled
    /\ promotion[p] = "pending"
    /\ \A q \in Pushes : promotion[q] # "working"
    /\ promotion' = [promotion EXCEPT ![p] = "working"]
    /\ UNCHANGED <<processVars, step, verdict, bufferVars, tableVars, down, sent, lossVars,
                   boundVars>>

\* FinalizePromotion writes nothing for a success.
Published(p) ==
    /\ Alive
    /\ promotion[p] = "working"
    /\ promotion' = [promotion EXCEPT ![p] = "published"]
    /\ UNCHANGED <<processVars, step, verdict, bufferVars, tableVars, down, sent, lossVars,
                   boundVars>>

\* retire and FinalizePromotion: the contradicting row, under the same push id;
\* a process that dies of it has not acknowledged the job.
Abandon(p) ==
    /\ Alive
    /\ promotion[p] = "working"
    /\ Record(Decision(p, "abandoned"), "worker")
    /\ promotion' = IF closed THEN promotion ELSE [promotion EXCEPT ![p] = "abandoned"]
    /\ UNCHANGED <<recordUnchanged, step, verdict>>

-----------------------------------------------------------------------------
(***************************************************************************)
(* Auditor.run: one goroutine, one job at a time.                           *)
(***************************************************************************)
auditorUnchanged == <<processVars, handlerVars, closed, down, sent, signals>>

\* FinalizePromotion records no findings.
HasFindings(j) == j.kind = "decision" /\ j.what # "abandoned" /\ Put[j.push].findings

\* The rows of a job, in the order they are written.
Parts(j) == IF HasFindings(j) THEN <<"row", "findings">> ELSE <<"row">>

Take ==
    /\ Alive
    /\ hand = None
    /\ queue # <<>>
    /\ hand' = [job |-> Head(queue), left |-> Parts(Head(queue)), tries |-> 0]
    /\ queue' = Tail(queue)
    /\ UNCHANGED <<auditorUnchanged, tableVars, lossVars, faults>>

Answers == ~down /\ "writer" \in opened

\* WriteDecision, WriteTagAlias or WriteFindings.
Land ==
    LET part == Head(hand.left) IN
    /\ decisions' = IF part = "row" /\ hand.job.kind = "decision"
                    THEN Append(decisions, hand.job) ELSE decisions
    /\ aliases' = IF hand.job.kind = "alias" THEN Append(aliases, hand.job) ELSE aliases
    /\ findings' = IF part = "findings" THEN findings \cup {hand.job.push} ELSE findings

WriteOK ==
    /\ Alive
    /\ hand # None
    /\ Answers
    /\ Land
    /\ hand' = IF Len(hand.left) = 1 THEN None
               ELSE [hand EXCEPT !.left = Tail(@), !.tries = 0]
    /\ UNCHANGED <<auditorUnchanged, queue, lossVars, faults>>

\* withRetry after a failed attempt: another one, or none is left and the job is
\* dropped, with a report unless it is an alias.
Again ==
    /\ IF hand.tries + 1 < Attempts
       THEN hand' = [hand EXCEPT !.tries = @ + 1] /\ UNCHANGED <<reported, silent>>
       ELSE /\ hand' = None
            /\ reported' = IF hand.job.kind = "decision" THEN Dropped(hand.job, "write") ELSE reported
            /\ silent' = IF hand.job.kind = "alias" THEN silent \cup {hand.job} ELSE silent
    /\ UNCHANGED <<auditorUnchanged, queue, forgotten>>

\* The attempt ends in an error, at the latest when writeTimeout passes.
WriteFails ==
    /\ Alive
    /\ hand # None
    /\ ~Answers
    /\ Again
    /\ UNCHANGED <<tableVars, faults>>

\* The row is in and the reply is lost: the next attempt writes it again.
WriteUnanswered ==
    /\ Alive
    /\ hand # None
    /\ Answers
    /\ faults < MaxFaults /\ faults' = faults + 1
    /\ Land
    /\ Again

Outage ==
    /\ ~down
    /\ faults < MaxFaults /\ faults' = faults + 1
    /\ down' = TRUE
    /\ UNCHANGED <<processVars, handlerVars, bufferVars, tableVars, sent, lossVars, signals>>

Recovery ==
    /\ down
    /\ down' = FALSE
    /\ UNCHANGED <<processVars, handlerVars, bufferVars, tableVars, sent, lossVars, boundVars>>

-----------------------------------------------------------------------------
(***************************************************************************)
(* Run: serve, drain, release.                                              *)
(***************************************************************************)
lifeUnchanged == <<handlerVars, tableVars, down, sent, reported, silent, faults>>

\* The signal ends ctx and bctx with it; a listener that dies ends neither.
StopServing ==
    /\ phase = "serving"
    /\ signals < MaxSignals /\ signals' = signals + 1
    /\ phase' = "draining"
    /\ cancelled' \in BOOLEAN
    /\ UNCHANGED <<lifeUnchanged, expired, panic, opened, bufferVars, forgotten>>

InFlight == \E p \in Pushes : step[p] \notin {"new", "done"}

\* The budget of the drain, or the last handler: then Close cancels bctx.
Release(outOfTime) ==
    /\ phase = "draining"
    /\ phase' = "releasing"
    /\ cancelled' = TRUE
    /\ expired' = outOfTime
    /\ UNCHANGED <<lifeUnchanged, panic, opened, bufferVars, forgotten, signals>>

\* Plausible bug: the budget hangs off the context that just ended.
DrainedAtOnce == Release(FALSE)

Drained == ~InFlight /\ Release(FALSE)

\* Plausible bug: the drain has no budget.
DrainExpiresNever == InFlight /\ Release(TRUE) /\ FALSE

DrainExpires == InFlight /\ Release(TRUE)

\* Plausible bug: the backends are released in the order they were opened.
NextReleasedFirst(b) == b \in opened /\ \A c \in opened : Order[b] <= Order[c]

\* closeAll: last opened, first released.
NextReleased(b) == b \in opened /\ \A c \in opened : Order[c] <= Order[b]

\* The auditor closes its queue and then waits for its goroutine to empty it.
CloseBackend ==
    /\ phase = "releasing"
    /\ \E b \in Backends :
          /\ NextReleased(b)
          /\ \/ /\ b = "auditor" /\ ~closed
                /\ closed' = TRUE
                /\ UNCHANGED opened
             \/ /\ b = "auditor" => closed /\ queue = <<>> /\ hand = None
                /\ opened' = opened \ {b}
                /\ UNCHANGED closed
    /\ UNCHANGED <<lifeUnchanged, phase, cancelled, expired, panic, queue, hand, forgotten, signals>>

Exit ==
    /\ phase = "releasing"
    /\ opened = {}
    /\ phase' = "exited"
    /\ UNCHANGED <<lifeUnchanged, cancelled, expired, panic, opened, bufferVars, forgotten, signals>>

Crash ==
    /\ Alive
    /\ signals < MaxSignals /\ signals' = signals + 1
    /\ Die
    /\ UNCHANGED <<lifeUnchanged, cancelled, expired, panic, opened, closed>>

\* Another process: its handlers and its queue are new; a promotion that was
\* being worked on is recovered from the queue.
Start ==
    /\ phase \in {"exited", "dead"}
    /\ phase' = "serving"
    /\ cancelled' = FALSE
    /\ expired' = FALSE
    /\ panic' = "none"
    /\ opened' = Backends
    /\ queue' = <<>>
    /\ closed' = FALSE
    /\ hand' = None
    /\ step' = [p \in Pushes |-> IF step[p] = "new" THEN "new" ELSE "done"]
    /\ promotion' = [p \in Pushes |-> IF promotion[p] = "working" THEN "pending" ELSE promotion[p]]
    /\ UNCHANGED <<verdict, tableVars, down, sent, lossVars, boundVars>>

-----------------------------------------------------------------------------
Auditor == Take \/ WriteOK \/ WriteFails \/ WriteUnanswered
Shutdown == Drained \/ DrainExpires \/ CloseBackend \/ Exit

Next ==
    \/ \E p \in Pushes : Begin(p) \/ Decide(p) \/ RecordDecision(p) \/ RecordAlias(p)
                          \/ Claim(p) \/ Published(p) \/ Abandon(p)
    \/ Auditor \/ Outage \/ Recovery
    \/ StopServing \/ Shutdown \/ Crash \/ Start

Spec == Init /\ [][Next]_vars

(***************************************************************************)
(* The auditor's goroutine is never held up, as every attempt has a         *)
(* timeout; neither is Run, whose drain has a budget.  Nothing is assumed   *)
(* of the handlers, the worker or ClickHouse.                               *)
(***************************************************************************)
FairSpec == Spec /\ WF_vars(Auditor) /\ WF_vars(Shutdown)

-----------------------------------------------------------------------------
(***************************************************************************)
(* The reader.  A push is looked up by its id or by repo:ref.               *)
(***************************************************************************)
Newest(s, Test(_)) == LET i == SelectLastInSeq(s, Test) IN IF i = 0 THEN None ELSE s[i]

\* Plausible bug: the rows are read oldest first.
HeaderByPushOldest(p) == LET i == SelectInSeq(decisions, LAMBDA j : j.push = p)
                         IN IF i = 0 THEN None ELSE decisions[i]

\* DecisionHeaderByPush: ORDER BY ts DESC LIMIT 1.
HeaderByPush(p) == Newest(decisions, LAMBDA j : j.push = p)

IsDigest(ref) == ref \in Digests

RefAllowsRepoFallback(ref) == IsDigest(ref)

\* pushIDByRef: an exact match, else the newest alias of a tag, else, for a
\* digest, the newest push of the repository.
PushIDByRef(ref) ==
    LET exact == Newest(decisions, LAMBDA j : ref \in {Put[j.push].ref, Put[j.push].digest})
        alias == Newest(aliases, LAMBDA a : ~IsDigest(ref) /\ Put[a.push].ref = ref)
        byAlias == IF alias = None THEN None
                   ELSE Newest(decisions, LAMBDA j : Put[j.push].digest = alias.what)
        newest == IF RefAllowsRepoFallback(ref) THEN Newest(decisions, LAMBDA j : TRUE) ELSE None
        hits == SelectSeq(<<exact, byAlias, newest>>, LAMBDA j : j # None)
    IN IF hits = <<>> THEN None ELSE Head(hits).push

\* handleReport: an outage is 500 and not a report of nothing.
Report(ref) ==
    LET p == PushIDByRef(ref) IN
    IF down THEN [status |-> 500, push |-> None, header |-> None]
    ELSE IF p = None THEN [status |-> 404, push |-> None, header |-> None]
    ELSE [status |-> 200, push |-> p, header |-> HeaderByPush(p)]

-----------------------------------------------------------------------------
(***************************************************************************)
(* No decision goes missing in silence (NewAuditor, "a silent drop is how a *)
(* passed-but-unrecorded scan goes invisible"): each one handed to Record   *)
(* is in the tables with its findings, still in memory, or was named to     *)
(* onDrop, unless a crash or a panic took it; a process that exits leaves   *)
(* none in memory.                                                          *)
(***************************************************************************)
InMemory == IF phase = "exited" THEN {} ELSE ToSet(queue) \cup InHand

RecordedOrReported ==
    \A j \in ToSet(sent) :
        \/ /\ j \in ToSet(decisions) \cup ToSet(aliases)
           /\ HasFindings(j) => j.push \in findings
        \/ j \in InMemory \cup {r.job : r \in reported} \cup silent \cup forgotten

(***************************************************************************)
(* Releasing the backends costs no record (closerStack, "the auditor drains *)
(* its queue into the ClickHouse writer when it closes"): without a fault   *)
(* of ClickHouse, only a full queue drops.                                  *)
(***************************************************************************)
ShutdownDropsNothing ==
    faults = 0 => silent = {} /\ \A r \in reported : r.err = "full"

(***************************************************************************)
(* The last word on a push is the one its report gives (AuditFinalizer, "a  *)
(* second row written under the same push_id becomes the authoritative      *)
(* one"), through retries, drops and restarts: of the decisions of a push   *)
(* that are in the table, the one recorded last.                            *)
(***************************************************************************)
LastWordStands ==
    \A p \in Pushes :
        HeaderByPush(p) = Newest(sent, LAMBDA j : j.push = p /\ j \in ToSet(decisions))

(***************************************************************************)
(* The queue is closed under no handler the drain could have waited for     *)
(* (Close, "the caller MUST ensure no Record or Flush calls are in          *)
(* flight"): a handler panics only when the budget ran out.  The promotion  *)
(* worker is not waited for, and may.                                       *)
(***************************************************************************)
DrainProtectsHandlers == panic = "handler" => expired

(***************************************************************************)
(* A process told to stop stops, whatever its handlers and ClickHouse do.   *)
(***************************************************************************)
ShutdownEnds == phase = "draining" ~> phase \in {"exited", "dead"}

(***************************************************************************)
(* "Record tag -> digest aliases for every referenced sub-manifest so       *)
(* report lookups by repo:tag can resolve to the gated image's decision"    *)
(* (forwardManifest): with the aliases of an index and the decision of an   *)
(* image it names in the tables, the tag has a report.                      *)
(***************************************************************************)
ReportByTag ==
    \A q, p \in Pushes :
        /\ Put[q].kind = "index"
        /\ \A d \in ToSet(Put[q].subs) : TagAlias(q, d) \in ToSet(aliases)
        /\ Put[p].digest \in ToSet(Put[q].subs)
        /\ HeaderByPush(p) # None
        => Report(Put[q].ref).status \in {200, 500}
=============================================================================
