--------------------------- MODULE UploadSession ---------------------------
(***************************************************************************)
(* How the bytes of a blob arrive (ingress/docker/upload.go over            *)
(* staging.go): POST opens a session, each PATCH advances the session's     *)
(* offset by compare-and-set and then appends to the upload object by       *)
(* read-modify-write, PUT verifies what was gathered against the digest and *)
(* stores it, and the upload object and the session are dropped.            *)
(*                                                                         *)
(* A file is the sequence 1..N of its chunks; its digest identifies it, so  *)
(* VerifyDigest compares with that sequence.  A client that loses patience  *)
(* sends again while its earlier request is still running on the server.    *)
(***************************************************************************)
EXTENDS Naturals, Sequences, FiniteSets

CONSTANTS
    Uploads,        \* upload IDs, each minted once by idgen
    Reqs,           \* requests the server can be running at once
    Slots,          \* bound: the most upload slots a handler is configured with
    N,              \* chunks of a file
    None,
    MaxPatches,     \* bound: PATCH requests a client sends
    MaxFaults,      \* bound: failed calls, expired sessions and shed requests
    MaxReadFaults   \* bound: upload objects whose Get fails

\* Chunks i to j of the file.
Chunks(i, j) == [k \in 1..(j + 1 - i) |-> i + k - 1]
Whole == Chunks(1, N)

Files == Seq(1..N)

(***************************************************************************)
(* A request: its upload, its method, the chunks off + 1..to of its body,   *)
(* what it read of the upload object, and how far it got.  A PUT that ends  *)
(* passes through "drop" and "clear" whatever its answer.                   *)
(***************************************************************************)
Request == [u : Uploads, kind : {"PATCH", "PUT", "POST"}, off : 0..N, to : 0..N,
            buf : Files, answer : {"none", "201", "400"},
            pc : {"slot", "cas", "read", "write", "verify", "store", "drop", "clear"}]

ASSUME UploadAssumption ==
    /\ {N, Slots} \subseteq Nat \ {0}
    /\ {MaxPatches, MaxFaults, MaxReadFaults} \subseteq Nat
    /\ None \notin Nat /\ None \notin Request
    /\ IsFiniteSet(Reqs)

VARIABLES
    offset,      \* session offset in Valkey; None is an absent key
    staged,      \* the upload object; <<>> is an absent one
    stored,      \* what is stored under the digest; <<>> is nothing
    client,      \* what each client is doing
    acked,       \* bytes the client was told are in (the Range of its last 202)
    patches,     \* PATCH requests sent
    req,         \* the requests being handled
    slots,       \* upload slots of this handler (config, fixed at start)
    faults,
    readFaults

storeVars == <<offset, staged, stored>>
clientVars == <<client, acked, patches>>
faultVars == <<faults, readFaults>>
vars == <<storeVars, clientVars, req, slots, faultVars>>

\* A request holds its slot from Acquire until its handler returns.
SlotsInUse == Cardinality({r \in Reqs : req[r] # None /\ req[r].pc # "slot"})

TypeOK ==
    /\ offset \in [Uploads -> (0..N) \cup {None}]
    /\ staged \in [Uploads -> Files]
    /\ stored \in [Uploads -> Files]
    /\ client \in [Uploads -> {"new", "open", "finishing", "201", "400"}]
    /\ acked \in [Uploads -> 0..N]
    /\ patches \in [Uploads -> 0..MaxPatches]
    /\ req \in [Reqs -> Request \cup {None}]
    /\ slots \in 1..Slots
    /\ SlotsInUse <= slots
    /\ faults \in Nat
    /\ readFaults \in Nat

Init ==
    /\ offset = [u \in Uploads |-> None]
    /\ staged = [u \in Uploads |-> <<>>]
    /\ stored = [u \in Uploads |-> <<>>]
    /\ client = [u \in Uploads |-> "new"]
    /\ acked = [u \in Uploads |-> 0]
    /\ patches = [u \in Uploads |-> 0]
    /\ req = [r \in Reqs |-> None]
    /\ slots \in 1..Slots
    /\ faults = 0
    /\ readFaults = 0

-----------------------------------------------------------------------------
Fault ==
    /\ faults < MaxFaults
    /\ faults' = faults + 1
    /\ UNCHANGED readFaults

NoFault == UNCHANGED faultVars

At(r, label) == req[r] # None /\ req[r].pc = label

Goto(r, label) == req' = [req EXCEPT ![r].pc = label]

\* The handler of r returns; its slot, if it has one, is free again.
Return(r) == req' = [req EXCEPT ![r] = None]

Arrive(r, u, kind, off, to) ==
    /\ req[r] = None
    /\ req' = [req EXCEPT ![r] = [u |-> u, kind |-> kind, off |-> off, to |-> to,
                                  buf |-> <<>>, answer |-> "none", pc |-> "slot"]]

-----------------------------------------------------------------------------
(***************************************************************************)
(* The client's requests.                                                   *)
(***************************************************************************)

\* POST without a digest: BeginUpload, and the client learns the ID.
Begin(u) ==
    /\ client[u] = "new"
    /\ offset' = [offset EXCEPT ![u] = 0]
    /\ client' = [client EXCEPT ![u] = "open"]
    /\ UNCHANGED <<staged, stored, acked, patches, req, faultVars>>

\* POST with a digest: BeginUpload, then the body is completed at once.
BeginMonolithic(u, r) ==
    /\ client[u] = "new"
    /\ offset' = [offset EXCEPT ![u] = 0]
    /\ client' = [client EXCEPT ![u] = "finishing"]
    /\ \E to \in 0..N : Arrive(r, u, "POST", 0, to)
    /\ UNCHANGED <<staged, stored, acked, patches, faultVars>>

\* PATCH of the next chunks at the offset last acknowledged, the first time
\* or again.
SendPatch(u, r) ==
    /\ client[u] = "open"
    /\ patches[u] < MaxPatches
    /\ patches' = [patches EXCEPT ![u] = @ + 1]
    /\ \E to \in (acked[u] + 1)..N : Arrive(r, u, "PATCH", acked[u], to)
    /\ UNCHANGED <<storeVars, client, acked, faultVars>>

\* PUT with the digest and whatever the client has not sent, or less.
SendPut(u, r) ==
    /\ client[u] = "open"
    /\ client' = [client EXCEPT ![u] = "finishing"]
    /\ \E to \in acked[u]..N : Arrive(r, u, "PUT", acked[u], to)
    /\ UNCHANGED <<storeVars, acked, patches, faultVars>>

-----------------------------------------------------------------------------
(***************************************************************************)
(* acquireUploadSlot.                                                       *)
(***************************************************************************)
\* Plausible bug: the bound is off by one.
SlotFreeOneMore == SlotsInUse <= slots

SlotFree == SlotsInUse < slots

Acquire(r) ==
    /\ At(r, "slot")
    /\ SlotFree
    /\ Goto(r, IF req[r].kind = "PATCH" THEN "cas" ELSE "read")
    /\ UNCHANGED <<storeVars, clientVars, faultVars>>

\* The wait ran out or the client left: a POST abandons the upload nobody
\* else knows of, the others leave it as it is for a retry.
Shed(r) ==
    /\ At(r, "slot")
    /\ Fault
    /\ \/ /\ req[r].kind = "POST"
          /\ offset' = [offset EXCEPT ![req[r].u] = None]
          /\ staged' = [staged EXCEPT ![req[r].u] = <<>>]
          /\ client' = [client EXCEPT ![req[r].u] = "400"]
       \/ /\ req[r].kind = "PUT"
          /\ client' = [client EXCEPT ![req[r].u] = "open"]
          /\ UNCHANGED <<offset, staged>>
       \/ /\ req[r].kind = "PATCH"
          /\ UNCHANGED <<offset, staged, client>>
    /\ Return(r)
    /\ UNCHANGED <<stored, acked, patches>>

-----------------------------------------------------------------------------
(***************************************************************************)
(* WriteChunk.                                                              *)
(***************************************************************************)

\* Plausible bug: the offset is set without being compared.
InOrderUnchecked(r) == TRUE

\* casScript's comparison; an absent key never matches.
InOrder(r) == offset[req[r].u] = req[r].off

\* CompareAndSetOffset; a mismatch is answered 416, an error 500.
CompareAndSet(r) ==
    /\ At(r, "cas")
    /\ LET advanced == [offset EXCEPT ![req[r].u] = req[r].to]
       IN  \/ InOrder(r) /\ offset' = advanced /\ Goto(r, "read") /\ NoFault
           \/ ~InOrder(r) /\ UNCHANGED offset /\ Return(r) /\ NoFault
           \/ offset' \in (IF InOrder(r) THEN {offset, advanced} ELSE {offset})
              /\ Return(r) /\ Fault
    /\ UNCHANGED <<staged, stored, clientVars>>

\* readIfExists, for PATCH and PUT: an error of Get reads as empty; an error
\* of the body ends a PATCH with 500 and a PUT with 400.
Read(r) ==
    /\ At(r, "read")
    /\ LET next == IF req[r].kind = "PATCH" THEN "write" ELSE "verify"
       IN  \/ /\ req' = [req EXCEPT ![r].pc = next, ![r].buf = staged[req[r].u]]
              /\ NoFault
           \/ /\ readFaults < MaxReadFaults
              /\ readFaults' = readFaults + 1
              /\ req' = [req EXCEPT ![r].pc = next]
              /\ UNCHANGED faults
           \/ /\ IF req[r].kind = "PATCH" THEN Return(r)
                 ELSE req' = [req EXCEPT ![r].pc = "drop", ![r].answer = "400"]
              /\ Fault
    /\ UNCHANGED <<storeVars, clientVars>>

\* What was read of the upload object followed by the body.
Combined(r) == req[r].buf \o Chunks(req[r].off + 1, req[r].to)

\* Put of the combined bytes, answered 202 with the new offset, or 500.
Write(r) ==
    /\ At(r, "write")
    /\ LET u == req[r].u
           appended == [staged EXCEPT ![u] = Combined(r)]
       IN  \/ /\ staged' = appended
              /\ acked' = [acked EXCEPT ![u] = req[r].to]
              /\ NoFault
           \/ /\ staged' \in {staged, appended}
              /\ UNCHANGED acked
              /\ Fault
    /\ Return(r)
    /\ UNCHANGED <<offset, stored, client, patches>>

-----------------------------------------------------------------------------
(***************************************************************************)
(* CompleteBlob and AbandonUpload.                                          *)
(***************************************************************************)

\* Plausible bug: the number of bytes is compared, not the bytes.
DigestMatchesLength(r) == Len(Combined(r)) = N

\* VerifyDigest over everything gathered, the final chunk included.
DigestMatches(r) == Combined(r) = Whole

Verify(r) ==
    /\ At(r, "verify")
    /\ req' = [req EXCEPT ![r].pc = IF DigestMatches(r) THEN "store" ELSE "drop",
                          ![r].answer = IF DigestMatches(r) THEN "201" ELSE "400"]
    /\ UNCHANGED <<storeVars, clientVars, faultVars>>

\* Put under the digest, MarkComplete and IncBlobRef (Staging.tla); one that
\* fails turns the answer into 400.
StoreBlob(r) ==
    /\ At(r, "store")
    /\ LET put == [stored EXCEPT ![req[r].u] = Combined(r)]
       IN  \/ stored' = put /\ Goto(r, "drop") /\ NoFault
           \/ /\ stored' \in {stored, put}
              /\ req' = [req EXCEPT ![r].pc = "drop", ![r].answer = "400"]
              /\ Fault
    /\ UNCHANGED <<offset, staged, clientVars>>

\* Delete of the upload object; an error is ignored.
DropUpload(r) ==
    /\ At(r, "drop")
    /\ \/ staged' = [staged EXCEPT ![req[r].u] = <<>>] /\ NoFault
       \/ UNCHANGED staged /\ Fault
    /\ Goto(r, "clear")
    /\ UNCHANGED <<offset, stored, clientVars>>

\* Plausible bug: only an abandoned upload clears its session.
ClearedAbandonedOnly(r) ==
    IF req[r].answer = "400" THEN [offset EXCEPT ![req[r].u] = None] ELSE offset

\* DEL of the session's offset.
Cleared(r) == [offset EXCEPT ![req[r].u] = None]

\* Clear; an error is ignored or logged, and the request is answered.
Clear(r) ==
    /\ At(r, "clear")
    /\ \/ offset' = Cleared(r) /\ NoFault
       \/ UNCHANGED offset /\ Fault
    /\ client' = [client EXCEPT ![req[r].u] = req[r].answer]
    /\ Return(r)
    /\ UNCHANGED <<staged, stored, acked, patches>>

-----------------------------------------------------------------------------
(***************************************************************************)
(* The session's TTL passes.                                                *)
(***************************************************************************)
Expire(u) ==
    /\ offset[u] # None
    /\ Fault
    /\ offset' = [offset EXCEPT ![u] = None]
    /\ UNCHANGED <<staged, stored, clientVars, req>>

Step ==
    \/ \E u \in Uploads :
          \/ Begin(u) \/ Expire(u)
          \/ \E r \in Reqs : BeginMonolithic(u, r) \/ SendPatch(u, r) \/ SendPut(u, r)
    \/ \E r \in Reqs :
          \/ Acquire(r) \/ Shed(r)
          \/ CompareAndSet(r) \/ Read(r) \/ Write(r)
          \/ Verify(r) \/ StoreBlob(r) \/ DropUpload(r) \/ Clear(r)

Next == Step /\ UNCHANGED slots

Spec == Init /\ [][Next]_vars

-----------------------------------------------------------------------------
(***************************************************************************)
(* Whatever fails, is retried or overlaps, the bytes under a digest are the *)
(* bytes of that digest (CompleteBlob verifies the buffer it stores), and a *)
(* client told 201 has them stored.                                         *)
(***************************************************************************)
OnlyVerifiedStored ==
    \A u \in Uploads :
        /\ stored[u] \in {<<>>, Whole}
        /\ client[u] = "201" => stored[u] = Whole

(***************************************************************************)
(* The bytes a client was told are in (WriteChunk's 202) are in the upload  *)
(* object until a PUT completes or abandons it, whatever is sent again.     *)
(* Refuted by a run in which a read of the upload object fails.             *)
(***************************************************************************)
Finishing(u) == \E r \in Reqs : req[r] # None /\ req[r].u = u /\ req[r].pc = "clear"

AckedBytesKept ==
    \A u \in Uploads : client[u] \in {"open", "finishing"} /\ ~Finishing(u) =>
        \E k \in acked[u]..N : staged[u] = Chunks(1, k)

(***************************************************************************)
(* It holds while no read of the upload object fails: neither overlapping   *)
(* retries nor the other failures of WriteChunk lose acknowledged bytes.    *)
(***************************************************************************)
AckedBytesStaged == readFaults = 0 => AckedBytesKept

(***************************************************************************)
(* With one upload slot, so without overlapping requests, and no failed     *)
(* call but a failed read, an upload that was answered leaves neither       *)
(* upload object nor session behind (the ends of CompleteBlob, and          *)
(* abandonUpload on its error paths).                                       *)
(***************************************************************************)
NothingStranded ==
    faults = 0 /\ slots = 1 => \A u \in Uploads : client[u] \in {"201", "400"} =>
        staged[u] = <<>> /\ offset[u] = None

=============================================================================
