------------------------------ MODULE Staging ------------------------------
(***************************************************************************)
(* The life of a staged blob (internal/staging): pushes that share layers   *)
(* store verified bytes under a content digest, count their references in   *)
(* Valkey, assemble an image from the bytes and release the references; the *)
(* release that takes a counter to zero deletes the bytes.                  *)
(*                                                                         *)
(* Bytes and counters live in two stores, so every command is a step of its *)
(* own and pushes interleave between any two of them.  How the bytes of one *)
(* upload are gathered and verified is UploadSession.tla.                   *)
(***************************************************************************)
EXTENDS Naturals, Sequences, FiniteSets

CONSTANTS
    Pushes,        \* image and attestation pushes
    Digests,       \* content digests
    ConfigDigest,  \* the config blob of each push, or None
    LayerDigests,  \* the layers of each push, in manifest order
    Attestations,  \* pushes whose manifest is an attestation
    None,
    MaxFaults,     \* bound: failed calls and crashes
    MaxExpiries,   \* bound: Valkey keys that reach their TTL
    MaxRepeats     \* bound: times one push is handled again without new uploads

ASSUME StagingAssumption ==
    /\ IsFiniteSet(Pushes)
    /\ None \notin Digests
    /\ ConfigDigest \in [Pushes -> Digests \cup {None}]
    /\ LayerDigests \in [Pushes -> Seq(Digests)]
    /\ Attestations \subseteq Pushes
    /\ {MaxFaults, MaxExpiries, MaxRepeats} \subseteq Nat

VARIABLES
    blobs,       \* digests whose bytes are in the blob store
    complete,    \* digests with a completion flag
    refs,        \* reference counters; 0 is an absent key
    pc,          \* where each push is
    todo,        \* digests the loop in progress has yet to visit
    holds,       \* references each push took and has not released
    raced,       \* history: references taken when a delete was already decided
    miscounted,  \* history: digests whose counter lost count of its holders
    faults,
    expiries,
    repeats      \* times each push was handled again

storeVars == <<blobs, complete, refs>>
boundVars == <<faults, expiries, repeats>>
vars == <<storeVars, pc, todo, holds, raced, miscounted, boundVars>>

ConfigOf(p) == IF ConfigDigest[p] = None THEN <<>> ELSE <<ConfigDigest[p]>>

\* PutManifest and Assemble visit the config first, Cleanup visits it last.
Required(p) == ConfigOf(p) \o LayerDigests[p]
CleanupOrder(p) == LayerDigests[p] \o ConfigOf(p)

Elements(s) == {s[i] : i \in 1..Len(s)}

Labels == {"upload", "mark", "inc", "check", "assemble", "seed", "gate", "queued",
           "localize", "release", "delete", "done", "gone"}

TypeOK ==
    /\ blobs \subseteq Digests
    /\ complete \subseteq Digests
    /\ refs \in [Digests -> Nat]
    /\ pc \in [Pushes -> Labels]
    /\ todo \in [Pushes -> Seq(Digests)]
    /\ \A p \in Pushes : pc[p] \in {"mark", "inc", "delete"} => todo[p] # <<>>
    /\ holds \in [Pushes -> SUBSET Digests]
    /\ raced \subseteq Pushes \X Digests
    /\ miscounted \subseteq Digests
    /\ faults \in Nat
    /\ expiries \in Nat
    /\ repeats \in [Pushes -> Nat]

Init ==
    /\ blobs = {}
    /\ complete = {}
    /\ refs = [d \in Digests |-> 0]
    /\ pc = [p \in Pushes |-> "upload"]
    /\ todo = [p \in Pushes |-> <<>>]
    /\ holds = [p \in Pushes |-> {}]
    /\ raced = {}
    /\ miscounted = {}
    /\ faults = 0
    /\ expiries = 0
    /\ repeats = [p \in Pushes |-> 0]

-----------------------------------------------------------------------------
Fault ==
    /\ faults < MaxFaults
    /\ faults' = faults + 1
    /\ UNCHANGED <<expiries, repeats>>

NoFault == UNCHANGED boundVars

\* Push p goes to label with the digests s left to visit.
Goto(p, label, s) ==
    /\ pc' = [pc EXCEPT ![p] = label]
    /\ todo' = [todo EXCEPT ![p] = s]

Stay == UNCHANGED <<holds, raced, miscounted>>

\* Some push has released its reference to d and is about to delete the bytes.
DeletePending(d) == \E q \in Pushes : pc[q] = "delete" /\ Head(todo[q]) = d

Holders(d) == {p \in Pushes : d \in holds[p]}

-----------------------------------------------------------------------------
(***************************************************************************)
(* CompleteBlob, once the digest is verified: Put, MarkComplete, IncBlobRef.*)
(* A call that fails, applied or not, answers 400 and the client uploads    *)
(* the blob again.  GET and HEAD of a blob are answered 404, so a client    *)
(* uploads every digest of its manifest, each once.                         *)
(***************************************************************************)
Put(p, d) ==
    /\ pc[p] = "upload"
    /\ d \in Elements(Required(p)) \ holds[p]
    /\ \/ blobs' = blobs \cup {d} /\ Goto(p, "mark", <<d>>) /\ NoFault
       \/ blobs' \in {blobs, blobs \cup {d}} /\ UNCHANGED <<pc, todo>> /\ Fault
    /\ Stay
    /\ UNCHANGED <<complete, refs>>

MarkComplete(p) ==
    /\ pc[p] = "mark"
    /\ \/ complete' = complete \cup {Head(todo[p])} /\ Goto(p, "inc", todo[p]) /\ NoFault
       \/ complete' \in {complete, complete \cup {Head(todo[p])}}
          /\ Goto(p, "upload", <<>>) /\ Fault
    /\ Stay
    /\ UNCHANGED <<blobs, refs>>

\* Plausible bug: SET to 1 in place of INCR.
IncrementedSet(d) == [refs EXCEPT ![d] = 1]

\* INCR creates an absent counter.
Incremented(d) == [refs EXCEPT ![d] = @ + 1]

(***************************************************************************)
(* IncBlobRef.  The history notes a reference taken when a delete of bytes  *)
(* was already decided or done, and a counter that restarts at 1 while      *)
(* earlier references are out.                                              *)
(***************************************************************************)
IncBlobRef(p) ==
    /\ pc[p] = "inc"
    /\ LET d == Head(todo[p])
       IN  /\ \/ /\ refs' = Incremented(d)
                 /\ holds' = [holds EXCEPT ![p] = @ \cup {d}]
                 /\ raced' = IF d \notin blobs \/ DeletePending(d)
                             THEN raced \cup {<<p, d>>} ELSE raced
                 /\ NoFault
              \/ /\ refs' \in {refs, Incremented(d)}
                 /\ UNCHANGED <<holds, raced>>
                 /\ Fault
           /\ miscounted' = IF refs' # refs /\ refs[d] = 0 /\ Holders(d) # {}
                            THEN miscounted \cup {d} ELSE miscounted
    /\ Goto(p, "upload", <<>>)
    /\ UNCHANGED <<blobs, complete>>

\* The client never sends the manifest; its references stay behind.
Leave(p) ==
    /\ pc[p] = "upload"
    /\ Goto(p, "gone", <<>>)
    /\ holds' = [holds EXCEPT ![p] = {}]
    /\ NoFault
    /\ UNCHANGED <<storeVars, raced, miscounted>>

-----------------------------------------------------------------------------
(***************************************************************************)
(* The manifest PUT.                                                        *)
(***************************************************************************)
SendManifest(p) ==
    /\ pc[p] = "upload"
    /\ Elements(Required(p)) \subseteq holds[p]
    /\ Goto(p, IF p \in Attestations THEN "seed" ELSE "check", Required(p))
    /\ Stay /\ NoFault
    /\ UNCHANGED storeVars

\* AllComplete: one EXISTS per digest, then MkdirTemp; a missing flag or an
\* error ends the request before Cleanup is registered.
CheckComplete(p) ==
    /\ pc[p] = "check"
    /\ \/ /\ todo[p] # <<>>
          /\ Head(todo[p]) \in complete
          /\ Goto(p, "check", Tail(todo[p]))
          /\ UNCHANGED holds /\ NoFault
       \/ /\ \/ todo[p] # <<>> /\ Head(todo[p]) \notin complete /\ NoFault
             \/ Fault
          /\ Goto(p, "gone", <<>>)
          /\ holds' = [holds EXCEPT ![p] = {}]
       \/ /\ todo[p] = <<>>
          /\ Goto(p, "assemble", Required(p))
          /\ UNCHANGED holds /\ NoFault
    /\ UNCHANGED <<storeVars, raced, miscounted>>

\* Plausible bug: stageImage answers 500 and returns.
AssembleFailedOnly(p) == Goto(p, "done", <<>>)

\* stageImage answers 500 and releases what the push had staged.
AssembleFailed(p) == Goto(p, "release", CleanupOrder(p))

\* Assemble: fetch every blob; one that is missing or unreadable ends the
\* request with 500 and a Cleanup.
Assemble(p) ==
    /\ pc[p] = "assemble"
    /\ \/ /\ todo[p] # <<>>
          /\ Head(todo[p]) \in blobs
          /\ Goto(p, "assemble", Tail(todo[p])) /\ NoFault
       \/ /\ todo[p] # <<>>
          /\ (Head(todo[p]) \notin blobs /\ NoFault) \/ Fault
          /\ AssembleFailed(p)
       \/ /\ todo[p] = <<>>
          /\ Goto(p, "gate", <<>>) /\ NoFault
    /\ Stay
    /\ UNCHANGED storeVars

\* seedAttestationBlobs: fetch every blob; no Cleanup follows either way.
SeedAttestation(p) ==
    /\ pc[p] = "seed"
    /\ \/ /\ todo[p] # <<>>
          /\ Head(todo[p]) \in blobs
          /\ Goto(p, "seed", Tail(todo[p])) /\ NoFault
          /\ UNCHANGED holds
       \/ /\ \/ todo[p] = <<>> /\ NoFault
             \/ todo[p] # <<>> /\ Head(todo[p]) \notin blobs /\ NoFault
             \/ Fault
          /\ Goto(p, "done", <<>>)
          /\ holds' = [holds EXCEPT ![p] = {}]
    /\ UNCHANGED <<storeVars, raced, miscounted>>

\* The gate answers: the worker takes the push over, or the handler releases it.
Gate(p) ==
    /\ pc[p] = "gate"
    /\ \/ Goto(p, "queued", <<>>)
       \/ Goto(p, "release", CleanupOrder(p))
    /\ Stay /\ NoFault
    /\ UNCHANGED storeVars

-----------------------------------------------------------------------------
(***************************************************************************)
(* The promotion worker, seen from the staging store: it rebuilds the       *)
(* layout from the blobs unless it is local, then releases the push.        *)
(***************************************************************************)
Claim(p) ==
    /\ pc[p] = "queued"
    /\ \/ Goto(p, "localize", Required(p))
       \/ Goto(p, "release", CleanupOrder(p))
    /\ Stay /\ NoFault
    /\ UNCHANGED storeVars

\* A whole layout is pushed and a missing blob retires the job, both with a
\* Cleanup; any other failed read or push leaves the job for a retry.
Localize(p) ==
    /\ pc[p] = "localize"
    /\ \/ /\ todo[p] # <<>>
          /\ Head(todo[p]) \in blobs
          /\ Goto(p, "localize", Tail(todo[p]))
       \/ /\ todo[p] # <<>> => Head(todo[p]) \notin blobs
          /\ Goto(p, "release", CleanupOrder(p))
       \/ Goto(p, "queued", <<>>)
    /\ Stay /\ NoFault
    /\ UNCHANGED storeVars

-----------------------------------------------------------------------------
(***************************************************************************)
(* Cleanup.                                                                 *)
(***************************************************************************)

\* Plausible bug: the bytes go whatever the counter says.
DecideDeleteAlways(p, remaining) == Goto(p, "delete", todo[p])

\* Delete the bytes when no reference remains, else go on with the next digest.
DecideDelete(p, remaining) ==
    IF remaining = 0 THEN Goto(p, "delete", todo[p])
    ELSE Goto(p, "release", Tail(todo[p]))

\* Plausible bug: an absent counter reads as zero references.
DecBlobRefMissingIsZero(p, d) ==
    LET remaining == IF refs[d] = 0 THEN 0 ELSE refs[d] - 1
    IN  refs' = [refs EXCEPT ![d] = remaining] /\ DecideDelete(p, remaining)

\* Plausible bug: a plain DECR, which takes an absent counter below zero.
DecBlobRefPlain(p, d) ==
    refs' = [refs EXCEPT ![d] = @ - 1] /\ DecideDelete(p, refs[d] - 1)

\* decrScript: an absent counter is an error and leaks the bytes.
DecBlobRef(p, d) ==
    \/ /\ refs[d] = 0
       /\ UNCHANGED refs
       /\ Goto(p, "release", Tail(todo[p]))
    \/ /\ refs[d] > 0
       /\ refs' = [refs EXCEPT ![d] = @ - 1]
       /\ DecideDelete(p, refs[d] - 1)

\* One turn of Cleanup's loop.  The history notes a counter decremented by a
\* push that holds no reference.
Release(p) ==
    /\ pc[p] = "release"
    /\ todo[p] # <<>>
    /\ LET d == Head(todo[p])
       IN  /\ \/ DecBlobRef(p, d) /\ NoFault
              \/ /\ refs' \in {refs, [refs EXCEPT ![d] = IF @ = 0 THEN 0 ELSE @ - 1]}
                 /\ Goto(p, "release", Tail(todo[p]))
                 /\ Fault
           /\ holds' = [holds EXCEPT ![p] = @ \ {d}]
           /\ miscounted' = IF refs' # refs /\ d \notin holds[p]
                            THEN miscounted \cup {d} ELSE miscounted
    /\ UNCHANGED <<blobs, complete, raced>>

\* The bytes of the digest just released; a failed delete is ignored.
Delete(p) ==
    /\ pc[p] = "delete"
    /\ \/ blobs' = blobs \ {Head(todo[p])} /\ NoFault
       \/ UNCHANGED blobs /\ Fault
    /\ Goto(p, "release", Tail(todo[p]))
    /\ Stay
    /\ UNCHANGED <<complete, refs>>

\* The loop is over: the scratch directory goes and the push is finished.
Released(p) ==
    /\ pc[p] = "release"
    /\ todo[p] = <<>>
    /\ Goto(p, "done", <<>>)
    /\ Stay /\ NoFault
    /\ UNCHANGED storeVars

-----------------------------------------------------------------------------
(***************************************************************************)
(* The environment.                                                         *)
(***************************************************************************)

\* A pod dies: a request is gone; a job in the queue is recovered.
Crash(p) ==
    /\ pc[p] \notin {"upload", "queued", "done", "gone"}
    /\ Fault
    /\ IF pc[p] = "localize"
       THEN Goto(p, "queued", <<>>) /\ UNCHANGED holds
       ELSE Goto(p, "gone", <<>>) /\ holds' = [holds EXCEPT ![p] = {}]
    /\ UNCHANGED <<storeVars, raced, miscounted>>

\* The push is handled again without uploading again: the client re-sends the
\* manifest after a 5xx, or a second copy of the promotion job is claimed.
Repeat(p) ==
    /\ pc[p] = "done"
    /\ p \notin Attestations
    /\ repeats[p] < MaxRepeats
    /\ repeats' = [repeats EXCEPT ![p] = @ + 1]
    /\ \/ Goto(p, "check", Required(p))
       \/ Goto(p, "queued", <<>>)
    /\ Stay
    /\ UNCHANGED <<storeVars, faults, expiries>>

\* The TTL of a completion flag or of a counter passes.
Expire(d) ==
    /\ expiries < MaxExpiries
    /\ expiries' = expiries + 1
    /\ \/ d \in complete /\ complete' = complete \ {d} /\ UNCHANGED refs
       \/ refs[d] > 0 /\ refs' = [refs EXCEPT ![d] = 0] /\ UNCHANGED complete
    /\ Stay
    /\ UNCHANGED <<blobs, pc, todo, faults, repeats>>

-----------------------------------------------------------------------------
Next ==
    \/ \E p \in Pushes :
          \/ \E d \in Digests : Put(p, d)
          \/ MarkComplete(p) \/ IncBlobRef(p) \/ Leave(p)
          \/ SendManifest(p) \/ CheckComplete(p) \/ Assemble(p)
          \/ SeedAttestation(p) \/ Gate(p)
          \/ Claim(p) \/ Localize(p)
          \/ Release(p) \/ Delete(p) \/ Released(p)
          \/ Crash(p) \/ Repeat(p)
    \/ \E d \in Digests : Expire(d)

Spec == Init /\ [][Next]_vars

-----------------------------------------------------------------------------
(***************************************************************************)
(* While push p needs the blob of a reference it took, from IncBlobRef to   *)
(* its own Cleanup, the bytes stay in the store: a Cleanup of another push  *)
(* never deletes them.  The exceptions are the two the code leaves open: a  *)
(* delete decided before the reference was taken, and a counter that lost   *)
(* count (the release of a push without a reference, a restart after the    *)
(* TTL).                                                                    *)
(***************************************************************************)
HeldBlobsStay ==
    \A p \in Pushes : \A d \in holds[p] :
        d \in blobs \/ <<p, d>> \in raced \/ d \in miscounted

(***************************************************************************)
(* A push handed to the promotion worker can be rebuilt on any pod: all its *)
(* blobs are in the store until the worker releases them, with the same     *)
(* exceptions.                                                              *)
(***************************************************************************)
AcceptedRebuildable ==
    \A p \in Pushes : pc[p] \in {"queued", "localize"} /\ repeats[p] = 0 =>
        \A d \in Elements(Required(p)) :
            d \in blobs \/ <<p, d>> \in raced \/ d \in miscounted

(***************************************************************************)
(* The counter of a digest covers the pushes that hold it, or is absent, in *)
(* which case DecBlobRef leaks instead of deleting.                         *)
(***************************************************************************)
RefsCoverHolders ==
    \A d \in Digests \ miscounted :
        refs[d] = 0 \/ refs[d] >= Cardinality(Holders(d))

(***************************************************************************)
(* When every push has ended through Cleanup and nothing failed or expired, *)
(* the store is empty: no interleaving of Put, IncBlobRef, DecBlobRef and   *)
(* Delete leaks bytes (attestations, which never reach Cleanup, excepted).  *)
(***************************************************************************)
NothingLeaks ==
    faults = 0 /\ expiries = 0 /\ (\A p \in Pushes : pc[p] = "done") =>
        \A d \in blobs : \E p \in Attestations : d \in Elements(Required(p))

-----------------------------------------------------------------------------
(***************************************************************************)
(* What comments in the source say and the code does not do; each is        *)
(* refuted by a run.                                                        *)
(***************************************************************************)

\* "a finished push never removes a blob a concurrent push still references"
\* (valkey.go, DecBlobRef).
SharedBlobsKept == \A p \in Pushes : holds[p] \subseteq blobs

=============================================================================
