------------------------ MODULE UploadSessionProofs ------------------------
(***************************************************************************)
(* The guarantees of the upload sessions, for every file length, any number *)
(* of uploads and overlapping requests, and any failed calls.               *)
(*                                                                         *)
(* What is stored under a digest is what the digest names: between Verify   *)
(* and the end of the request nothing changes the buffer that was verified, *)
(* and the answer 201 is only carried by a request whose bytes are stored.  *)
(* What was acknowledged is in the upload object, unless a read failed: the *)
(* compare-and-set lets one PATCH of an upload append at a time.  Without   *)
(* overlap and failures an answered upload leaves nothing behind.           *)
(***************************************************************************)
EXTENDS UploadSession, SequenceTheorems, FiniteSetTheorems, TLAPS

Shaped ==
    /\ req \in [Reqs -> Request \cup {None}]
    /\ staged \in [Uploads -> Files]
    /\ stored \in [Uploads -> Files]
    /\ client \in [Uploads -> {"new", "open", "finishing", "201", "400"}]
    /\ acked \in [Uploads -> 0..N]

\* A request about to store has verified bytes; one that will answer 201 has
\* stored them.
CarriesAt(r) ==
    /\ At(r, "store") => DigestMatches(r) /\ req[r].answer = "201"
    /\ At(r, "drop") \/ At(r, "clear") =>
          /\ req[r].answer \in {"201", "400"}
          /\ req[r].answer = "201" => stored[req[r].u] = Whole

Carries == \A r \in Reqs : CarriesAt(r)

UploadInv == Shaped /\ Carries /\ OnlyVerifiedStored

-----------------------------------------------------------------------------
\* A run of chunks is a sequence of chunks.
LEMMA ChunksType ==
    ASSUME NEW i \in 0..N, NEW j \in 0..N
    PROVE  Chunks(i + 1, j) \in Files
<1>n. N \in Nat
  BY UploadAssumption DEF UploadAssumption
<1>1. CASE j < i
  <2>1. 1..(j + 1 - (i + 1)) = {}
    BY <1>1, <1>n
  <2>2. Chunks(i + 1, j) \in [1..0 -> 1..N]
    BY <2>1 DEF Chunks
  <2> QED
    BY <2>2, SeqDef DEF Files
<1>2. CASE i <= j
  <2>1. j + 1 - (i + 1) \in Nat
    BY <1>2, <1>n
  <2>2. \A k \in 1..(j + 1 - (i + 1)) : i + 1 + k - 1 \in 1..N
    BY <1>n
  <2> QED
    BY <2>1, <2>2 DEF Chunks, Files
<1> QED
  BY <1>1, <1>2, <1>n

\* What a handler combines is a sequence of chunks.
LEMMA CombinedType ==
    ASSUME UploadAssumption, Shaped, NEW r \in Reqs, req[r] # None
    PROVE  Combined(r) \in Files
<1>1. req[r] \in Request
  BY DEF Shaped
<1>2. /\ req[r].off \in 0..N
      /\ req[r].to \in 0..N
      /\ req[r].buf \in Files
  BY <1>1 DEF Request
<1>3. Chunks(req[r].off + 1, req[r].to) \in Files
  BY <1>2, ChunksType
<1> QED
  BY <1>2, <1>3 DEF Combined, Files

\* The invariant holds before any request.
LEMMA UploadInit == Init => UploadInv
<1> SUFFICES ASSUME Init PROVE UploadInv
  OBVIOUS
<1>1. Shaped
  BY UploadAssumption DEF Init, Shaped, UploadAssumption, Files
<1>2. Carries /\ OnlyVerifiedStored
  BY DEF Init, Carries, CarriesAt, OnlyVerifiedStored, At
<1> QED
  BY <1>1, <1>2 DEF UploadInv
-----------------------------------------------------------------------------
(***************************************************************************)
(* A request that another request, or a client, leaves alone still carries  *)
(* what it carried, as long as stored bytes are only ever replaced by the   *)
(* whole file.                                                              *)
(***************************************************************************)
Undisturbed(r) ==
    /\ req'[r] = req[r]
    /\ \A u \in Uploads : stored[u] = Whole => stored'[u] = Whole

\* The frame: an undisturbed request keeps its part of Carries.
LEMMA CarriesFrame ==
    ASSUME Shaped, NEW r \in Reqs, CarriesAt(r), Undisturbed(r)
    PROVE  CarriesAt(r)'
  BY DEF Shaped, Request, CarriesAt, Undisturbed, At, DigestMatches, Combined, Whole, Chunks

(***************************************************************************)
(* The three steps that matter: Verify compares, StoreBlob stores what was  *)
(* compared, Clear answers.                                                 *)
(***************************************************************************)
LEMMA VerifyStep ==
    ASSUME UploadInv, NEW r \in Reqs, Verify(r)
    PROVE  UploadInv'
<1>1. req[r] \in Request /\ req[r].pc = "verify"
  BY DEF UploadInv, Shaped, Verify, At
<1>2. Shaped'
  BY <1>1 DEF UploadInv, Shaped, Request, Verify, storeVars, clientVars
<1>3. CarriesAt(r)'
  <2>1. req'[r] = [req[r] EXCEPT !.pc = IF DigestMatches(r) THEN "store" ELSE "drop",
                                 !.answer = IF DigestMatches(r) THEN "201" ELSE "400"]
    BY DEF UploadInv, Shaped, Verify
  <2>2. DigestMatches(r)' <=> DigestMatches(r)
    <3>1. /\ req'[r].buf = req[r].buf
          /\ req'[r].off = req[r].off
          /\ req'[r].to = req[r].to
      BY <1>1, <2>1 DEF Request
    <3> QED
      BY <3>1 DEF DigestMatches, Combined, Whole, Chunks
  <2>3. req'[r].pc = IF DigestMatches(r) THEN "store" ELSE "drop"
    BY <1>1, <2>1 DEF Request
  <2>4. req'[r].answer = IF DigestMatches(r) THEN "201" ELSE "400"
    BY <1>1, <2>1 DEF Request
  <2> QED
    BY <2>2, <2>3, <2>4 DEF CarriesAt, At
<1>4. ASSUME NEW q \in Reqs, q # r PROVE CarriesAt(q)'
  <2>1. Undisturbed(q)
    BY <1>4 DEF UploadInv, Shaped, Verify, Undisturbed, storeVars
  <2> QED
    BY <2>1, CarriesFrame DEF UploadInv, Carries
<1>5. OnlyVerifiedStored'
  BY DEF UploadInv, OnlyVerifiedStored, Verify, storeVars, clientVars, Whole, Chunks
<1> QED
  BY <1>2, <1>3, <1>4, <1>5 DEF UploadInv, Carries

\* The verified bytes are what is stored, applied or not, failed or not.
LEMMA StoreStep ==
    ASSUME UploadInv, NEW r \in Reqs, StoreBlob(r)
    PROVE  UploadInv'
<1> DEFINE put == [stored EXCEPT ![req[r].u] = Combined(r)]
<1>1. req[r] \in Request /\ req[r].pc = "store" /\ req[r] # None
  BY DEF UploadInv, Shaped, StoreBlob, At
<1>2. req[r].u \in Uploads
  BY <1>1 DEF Request
<1>3. Combined(r) = Whole /\ req[r].answer = "201"
  BY <1>1 DEF UploadInv, Carries, CarriesAt, At, DigestMatches
<1>4. Combined(r) \in Files
  BY <1>1, UploadAssumption, CombinedType DEF UploadInv
<1>5. stored' \in {stored, put}
  BY DEF StoreBlob
<1>6. \A u \in Uploads : stored'[u] = stored[u] \/ stored'[u] = Whole
  BY <1>3, <1>5 DEF UploadInv, Shaped
<1>7. \/ stored'[req[r].u] = Whole /\ req' = [req EXCEPT ![r].pc = "drop"]
      \/ req' = [req EXCEPT ![r].pc = "drop", ![r].answer = "400"]
  BY <1>2, <1>3 DEF StoreBlob, Goto, UploadInv, Shaped
<1>8. Shaped'
  <2>1. stored' \in [Uploads -> Files]
    BY <1>4, <1>5 DEF UploadInv, Shaped
  <2>2. /\ [req[r] EXCEPT !.pc = "drop"] \in Request
        /\ [req[r] EXCEPT !.pc = "drop", !.answer = "400"] \in Request
    BY <1>1 DEF Request
  <2>3. req \in [Reqs -> Request \cup {None}]
    BY DEF UploadInv, Shaped
  <2>4. req' \in [Reqs -> Request \cup {None}]
    BY <1>7, <2>2, <2>3
  <2> QED
    BY <2>1, <2>4 DEF UploadInv, Shaped, StoreBlob, clientVars
<1>9. CarriesAt(r)'
  <2>1. req'[r].pc = "drop" /\ req'[r].u = req[r].u
    BY <1>1, <1>7 DEF UploadInv, Shaped, Request
  <2>2. /\ req'[r].answer \in {req[r].answer, "400"}
        /\ req'[r].answer = "201" => stored'[req[r].u] = Whole
    BY <1>1, <1>7 DEF UploadInv, Shaped, Request
  <2>3. Whole' = Whole
    BY DEF Whole, Chunks
  <2> QED
    BY <1>3, <2>1, <2>2, <2>3 DEF CarriesAt, At
<1>10. ASSUME NEW q \in Reqs, q # r PROVE CarriesAt(q)'
  <2>1. Undisturbed(q)
    BY <1>6, <1>7, <1>10 DEF UploadInv, Shaped, Undisturbed
  <2> QED
    BY <2>1, CarriesFrame DEF UploadInv, Carries
<1>11. OnlyVerifiedStored'
  BY <1>6 DEF UploadInv, OnlyVerifiedStored, StoreBlob, clientVars, Whole, Chunks
<1> QED
  BY <1>8, <1>9, <1>10, <1>11 DEF UploadInv, Carries

\* A client told 201 was answered by a request that carried 201.
LEMMA ClearStep ==
    ASSUME UploadInv, NEW r \in Reqs, Clear(r)
    PROVE  UploadInv'
<1>1. req[r] \in Request /\ req[r].pc = "clear" /\ req[r] # None
  BY DEF UploadInv, Shaped, Clear, At
<1>2. /\ req[r].u \in Uploads
      /\ req[r].answer \in {"201", "400"}
      /\ req[r].answer = "201" => stored[req[r].u] = Whole
  BY <1>1 DEF UploadInv, Carries, CarriesAt, At, Request
<1>3. /\ req' = [req EXCEPT ![r] = None]
      /\ client' = [client EXCEPT ![req[r].u] = req[r].answer]
      /\ UNCHANGED <<staged, stored, acked>>
  BY DEF Clear, Return
<1>4. Shaped'
  BY <1>2, <1>3 DEF UploadInv, Shaped
<1>5. ASSUME NEW q \in Reqs PROVE CarriesAt(q)'
  <2>1. CASE q = r
    BY <1>3, <2>1 DEF UploadInv, Shaped, CarriesAt, At
  <2>2. CASE q # r
    <3>1. Undisturbed(q)
      BY <1>3, <2>2 DEF UploadInv, Shaped, Undisturbed
    <3> QED
      BY <3>1, CarriesFrame DEF UploadInv, Carries
  <2> QED
    BY <2>1, <2>2
<1>6. OnlyVerifiedStored'
  BY <1>2, <1>3 DEF UploadInv, OnlyVerifiedStored, Shaped, Whole, Chunks
<1> QED
  BY <1>4, <1>5, <1>6 DEF UploadInv, Carries

-----------------------------------------------------------------------------
(***************************************************************************)
(* Every other step stores nothing and answers nobody 201: it adds a        *)
(* request, moves one along, or ends one.                                   *)
(***************************************************************************)
Moved(r) ==
    \/ req'[r] = None
    \/ req'[r] = req[r]
    \/ req'[r].pc \notin {"store", "drop", "clear"}
    \/ req'[r].pc = "drop" /\ req'[r].answer = "400"
    \/ /\ At(r, "drop")
       /\ req'[r].pc = "clear"
       /\ req'[r].answer = req[r].answer
       /\ req'[r].u = req[r].u

\* A step that stores nothing and answers nobody 201 keeps the invariant.
LEMMA OtherStep ==
    ASSUME UploadInv, Shaped', UNCHANGED stored,
           \A r \in Reqs : Moved(r),
           \A u \in Uploads : client'[u] = "201" => client[u] = "201"
    PROVE  UploadInv'
<1>1. OnlyVerifiedStored'
  BY DEF UploadInv, OnlyVerifiedStored, Whole, Chunks
<1>2. ASSUME NEW r \in Reqs PROVE CarriesAt(r)'
  <2>1. CASE req'[r] = req[r]
    <3>1. Undisturbed(r)
      BY <2>1 DEF Undisturbed
    <3> QED
      BY <3>1, CarriesFrame DEF UploadInv, Carries
  <2>2. CASE req'[r] # req[r]
    <3>1. Whole' = Whole
      BY DEF Whole, Chunks
    <3>2. Moved(r)
      OBVIOUS
    <3> QED
      BY <2>2, <3>1, <3>2 DEF Moved, CarriesAt, At, UploadInv, Carries
  <2> QED
    BY <2>1, <2>2
<1> QED
  BY <1>1, <1>2 DEF UploadInv, Carries

(***************************************************************************)
(* The client's requests.                                                   *)
(***************************************************************************)
LEMMA ClientStep ==
    ASSUME UploadInv, NEW u \in Uploads, NEW r \in Reqs,
           BeginMonolithic(u, r) \/ SendPatch(u, r) \/ SendPut(u, r)
    PROVE  UploadInv'
<1>1. PICK kind \in {"PATCH", "PUT", "POST"}, off \in 0..N, to \in 0..N :
          Arrive(r, u, kind, off, to)
  <2>1. CASE BeginMonolithic(u, r)
    BY <2>1, UploadAssumption DEF BeginMonolithic, UploadAssumption
  <2>2. acked[u] \in 0..N
    BY DEF UploadInv, Shaped
  <2>3. CASE SendPatch(u, r)
    <3>1. \A to \in (acked[u] + 1)..N : to \in 0..N
      BY <2>2, UploadAssumption DEF UploadAssumption
    <3> QED
      BY <2>2, <2>3, <3>1 DEF SendPatch
  <2>4. CASE SendPut(u, r)
    <3>1. \A to \in acked[u]..N : to \in 0..N
      BY <2>2, UploadAssumption DEF UploadAssumption
    <3> QED
      BY <2>2, <2>4, <3>1 DEF SendPut
  <2> QED
    BY <2>1, <2>3, <2>4
<1> DEFINE new == [u |-> u, kind |-> kind, off |-> off, to |-> to,
                   buf |-> <<>>, answer |-> "none", pc |-> "slot"]
<1>2. new \in Request
  BY DEF Request, Files
<1>3. req' = [req EXCEPT ![r] = new]
  BY <1>1 DEF Arrive
<1>4. Shaped'
  <2>1. req' \in [Reqs -> Request \cup {None}]
    BY <1>2, <1>3 DEF UploadInv, Shaped
  <2> QED
    BY <2>1 DEF UploadInv, Shaped, BeginMonolithic, SendPatch, SendPut, storeVars
<1>5. \A q \in Reqs : Moved(q)
  BY <1>3 DEF UploadInv, Shaped, Moved
<1>6. \A v \in Uploads : client'[v] = "201" => client[v] = "201"
  BY DEF UploadInv, Shaped, BeginMonolithic, SendPatch, SendPut
<1>7. UNCHANGED stored
  BY DEF BeginMonolithic, SendPatch, SendPut, storeVars
<1> QED
  BY <1>4, <1>5, <1>6, <1>7, OtherStep

\* A session opens or expires; no request is touched.
LEMMA SessionStep ==
    ASSUME UploadInv, NEW u \in Uploads, Begin(u) \/ Expire(u)
    PROVE  UploadInv'
<1>1. Shaped' /\ UNCHANGED <<stored, req>>
  BY DEF UploadInv, Shaped, Begin, Expire, clientVars
<1>2. \A v \in Uploads : client'[v] = "201" => client[v] = "201"
  BY DEF UploadInv, Shaped, Begin, Expire, clientVars
<1>3. \A q \in Reqs : Moved(q)
  BY <1>1 DEF Moved
<1> QED
  BY <1>1, <1>2, <1>3, OtherStep

\* The steps of a handler that neither verify, store nor answer 201.
LEMMA HandlerStep ==
    ASSUME UploadInv, NEW r \in Reqs,
           \/ Acquire(r) \/ Shed(r) \/ CompareAndSet(r)
           \/ Read(r) \/ Write(r) \/ DropUpload(r)
    PROVE  UploadInv'
<1>1. req[r] \in Request /\ req[r] # None /\ req \in [Reqs -> Request \cup {None}]
  BY DEF UploadInv, Shaped, At, Acquire, Shed, CompareAndSet, Read, Write, DropUpload
<1>2. req[r].u \in Uploads
  BY <1>1 DEF Request
<1>3. /\ <<>> \in Files
      /\ staged[req[r].u] \in Files
      /\ Combined(r) \in Files
  BY <1>1, <1>2, UploadAssumption, CombinedType DEF UploadInv, Shaped, Files
<1>4. UNCHANGED stored
  BY DEF Acquire, Shed, CompareAndSet, Read, Write, DropUpload, storeVars
<1>5. /\ client' \in [Uploads -> {"new", "open", "finishing", "201", "400"}]
      /\ \A u \in Uploads : client'[u] = "201" => client[u] = "201"
  BY <1>2 DEF UploadInv, Shaped, Acquire, Shed, CompareAndSet, Read, Write, DropUpload,
              clientVars
<1>6. acked' \in [Uploads -> 0..N]
  <2>1. req[r].to \in 0..N
    BY <1>1 DEF Request
  <2> QED
    BY <2>1 DEF UploadInv, Shaped, Acquire, Shed, CompareAndSet, Read, Write, DropUpload,
                clientVars
<1>7. staged' \in [Uploads -> Files]
  <2>1. staged \in [Uploads -> Files]
    BY DEF UploadInv, Shaped
  <2>2. CASE Write(r)
    BY <1>3, <2>1, <2>2 DEF Write
  <2>3. CASE Acquire(r) \/ Shed(r) \/ CompareAndSet(r) \/ Read(r) \/ DropUpload(r)
    BY <1>3, <2>1, <2>3 DEF Acquire, Shed, CompareAndSet, Read, DropUpload, storeVars
  <2> QED
    BY <2>2, <2>3
<1>8. \/ req' = [req EXCEPT ![r] = None]
      \/ \E l \in {"cas", "read", "write", "verify"} : req' = [req EXCEPT ![r].pc = l]
      \/ \E l \in {"write", "verify"}, s \in Files :
            req' = [req EXCEPT ![r].pc = l, ![r].buf = s]
      \/ req' = [req EXCEPT ![r].pc = "drop", ![r].answer = "400"]
      \/ At(r, "drop") /\ req' = [req EXCEPT ![r].pc = "clear"]
  <2>1. CASE Read(r)
    BY <1>3, <2>1 DEF Read, Return
  <2>2. CASE Acquire(r) \/ Shed(r) \/ CompareAndSet(r) \/ Write(r) \/ DropUpload(r)
    BY <2>2 DEF Acquire, Shed, CompareAndSet, Write, DropUpload, Goto, Return
  <2> QED
    BY <2>1, <2>2
<1>9. req' \in [Reqs -> Request \cup {None}] /\ \A q \in Reqs : Moved(q)
  <2>1. CASE req' = [req EXCEPT ![r] = None]
    BY <1>1, <2>1 DEF Moved
  <2>2. CASE \E l \in {"cas", "read", "write", "verify"} : req' = [req EXCEPT ![r].pc = l]
    <3>1. PICK l \in {"cas", "read", "write", "verify"} : req' = [req EXCEPT ![r].pc = l]
      BY <2>2
    <3>2. [req[r] EXCEPT !.pc = l] \in Request /\ [req[r] EXCEPT !.pc = l].pc = l
      BY <1>1 DEF Request
    <3> QED
      BY <1>1, <3>1, <3>2 DEF Moved
  <2>3. CASE \E l \in {"write", "verify"}, s \in Files :
                req' = [req EXCEPT ![r].pc = l, ![r].buf = s]
    <3>1. PICK l \in {"write", "verify"}, s \in Files :
                req' = [req EXCEPT ![r].pc = l, ![r].buf = s]
      BY <2>3
    <3>2. /\ [req[r] EXCEPT !.pc = l, !.buf = s] \in Request
          /\ [req[r] EXCEPT !.pc = l, !.buf = s].pc = l
      BY <1>1 DEF Request
    <3> QED
      BY <1>1, <3>1, <3>2 DEF Moved
  <2>4. CASE req' = [req EXCEPT ![r].pc = "drop", ![r].answer = "400"]
    <3>1. /\ [req[r] EXCEPT !.pc = "drop", !.answer = "400"] \in Request
          /\ [req[r] EXCEPT !.pc = "drop", !.answer = "400"].pc = "drop"
          /\ [req[r] EXCEPT !.pc = "drop", !.answer = "400"].answer = "400"
      BY <1>1 DEF Request
    <3> QED
      BY <1>1, <2>4, <3>1 DEF Moved
  <2>5. CASE At(r, "drop") /\ req' = [req EXCEPT ![r].pc = "clear"]
    <3>1. /\ [req[r] EXCEPT !.pc = "clear"] \in Request
          /\ [req[r] EXCEPT !.pc = "clear"].pc = "clear"
          /\ [req[r] EXCEPT !.pc = "clear"].answer = req[r].answer
          /\ [req[r] EXCEPT !.pc = "clear"].u = req[r].u
      BY <1>1 DEF Request
    <3> QED
      BY <1>1, <2>5, <3>1 DEF Moved
  <2> QED
    BY <1>8, <2>1, <2>2, <2>3, <2>4, <2>5
<1>10. Shaped'
  BY <1>4, <1>5, <1>6, <1>7, <1>9 DEF UploadInv, Shaped
<1> QED
  BY <1>4, <1>5, <1>9, <1>10, OtherStep

-----------------------------------------------------------------------------
\* Every step of a client, a handler or the TTL keeps the invariant.
LEMMA UploadNext == UploadInv /\ [Next]_vars => UploadInv'
<1> SUFFICES ASSUME UploadInv, [Next]_vars PROVE UploadInv'
  OBVIOUS
<1>1. ASSUME NEW u \in Uploads, Begin(u) \/ Expire(u) PROVE UploadInv'
  BY <1>1, SessionStep
<1>2. ASSUME NEW u \in Uploads, NEW r \in Reqs,
             BeginMonolithic(u, r) \/ SendPatch(u, r) \/ SendPut(u, r)
      PROVE  UploadInv'
  BY <1>2, ClientStep
<1>3. ASSUME NEW r \in Reqs,
             \/ Acquire(r) \/ Shed(r) \/ CompareAndSet(r)
             \/ Read(r) \/ Write(r) \/ DropUpload(r)
      PROVE  UploadInv'
  BY <1>3, HandlerStep
<1>4. ASSUME NEW r \in Reqs, Verify(r) \/ StoreBlob(r) \/ Clear(r) PROVE UploadInv'
  BY <1>4, VerifyStep, StoreStep, ClearStep
<1>5. CASE UNCHANGED vars
  <2>1. Shaped' /\ UNCHANGED <<stored, client, req>>
    BY <1>5 DEF UploadInv, Shaped, vars, storeVars, clientVars
  <2>2. \A q \in Reqs : Moved(q)
    BY <2>1 DEF Moved
  <2> QED
    BY <2>1, <2>2, OtherStep
<1> QED
  BY <1>1, <1>2, <1>3, <1>4, <1>5 DEF Next, Step

(***************************************************************************)
(* The bytes stored under a digest are the bytes it names and a client told *)
(* 201 has them stored, whatever overlaps, fails or is sent again.          *)
(***************************************************************************)
THEOREM DigestIntegrity == Spec => []OnlyVerifiedStored
<1>1. UploadInv => OnlyVerifiedStored
  BY DEF UploadInv
<1> QED
  BY <1>1, UploadInit, UploadNext, PTL DEF Spec

-----------------------------------------------------------------------------
(***************************************************************************)
(* The bytes a client was told are in.  A PATCH passes the comparison only  *)
(* at the offset that was acknowledged, and leaves the session ahead of it  *)
(* until it is acknowledged itself: no two of an upload append at once, and *)
(* what the one that appends has read is what was acknowledged.             *)
(***************************************************************************)
Appends(r, u) ==
    req[r] # None /\ req[r].u = u /\ req[r].kind = "PATCH" /\ req[r].pc \in {"read", "write"}

\* An upload before its POST, and its offset.
SessionOK(u) ==
    /\ client[u] = "new" => /\ acked[u] = 0 /\ staged[u] = <<>> /\ offset[u] = None
                            /\ \A r \in Reqs : req[r] # None => req[r].u # u
    /\ offset[u] # None => acked[u] <= offset[u]

\* Only the request that finishes an upload is not a PATCH.
RequestOK(r) ==
    req[r] # None =>
        /\ req[r].kind # "PATCH" =>
              /\ client[req[r].u] = "finishing"
              /\ req[r].pc \notin {"cas", "write"}
        /\ req[r].kind = "PATCH" =>
              /\ req[r].pc \in {"slot", "cas", "read", "write"}
              /\ req[r].off <= acked[req[r].u] /\ req[r].off < req[r].to
              /\ req[r].pc \in {"read", "write"} =>
                    req[r].off = acked[req[r].u] /\ offset[req[r].u] \in {req[r].to, None}

\* Two requests of an upload do not both finish it, and do not both append.
Apart(r, q) ==
    req[r] # None /\ req[q] # None /\ req[r].u = req[q].u =>
        /\ req[r].kind = "PATCH" \/ req[q].kind = "PATCH"
        /\ ~(Appends(r, req[r].u) /\ Appends(q, req[r].u))

Sessions ==
    /\ \A u \in Uploads : SessionOK(u)
    /\ \A r \in Reqs : RequestOK(r)
    /\ \A r, q \in Reqs : r # q => Apart(r, q)

Intact(u) == readFaults = 0 /\ client[u] \in {"open", "finishing"} /\ ~Finishing(u)

KeptAt(u) ==
    Intact(u) =>
        /\ \E k \in acked[u]..N : staged[u] = Chunks(1, k)
        /\ offset[u] = acked[u] \/ (\E r \in Reqs : Appends(r, u)) =>
              staged[u] = Chunks(1, acked[u])
        /\ \A r \in Reqs : Appends(r, u) /\ req[r].pc = "write" =>
              req[r].buf = Chunks(1, acked[u])

Kept == \A u \in Uploads : KeptAt(u)

(***************************************************************************)
(* What an upload leaves behind when its requests do not overlap.           *)
(***************************************************************************)
Answered(u) == client[u] \in {"201", "400"}

Clean ==
    faults = 0 /\ slots = 1 =>
        /\ \A u \in Uploads : Answered(u) => staged[u] = <<>> /\ offset[u] = None
        /\ \A r \in Reqs : At(r, "clear") => staged[req[r].u] = <<>>
        /\ \A r \in Reqs, u \in Uploads : Appends(r, u) => ~Answered(u)

SessionInv == UploadInv /\ TypeOK /\ Sessions /\ Kept /\ Clean

-----------------------------------------------------------------------------
\* The fields of a request.
LEMMA Fields ==
    ASSUME Shaped, NEW r \in Reqs, req[r] # None
    PROVE  /\ req[r] \in Request
           /\ req[r].u \in Uploads /\ req[r].off \in Nat /\ req[r].to \in 0..N
           /\ req[r].kind \in {"PATCH", "PUT", "POST"}
  BY UploadAssumption DEF Shaped, Request, UploadAssumption

\* The handler of r, and no other, moves; its request stays the same.
Works(r, l) ==
    /\ \A q \in Reqs \ {r} : req'[q] = req[q]
    /\ req'[r] # None /\ req'[r].pc = l
    /\ req'[r].u = req[r].u /\ req'[r].kind = req[r].kind
    /\ req'[r].off = req[r].off /\ req'[r].to = req[r].to

Ends(r) ==
    /\ \A q \in Reqs \ {r} : req'[q] = req[q]
    /\ req'[r] = None

LEMMA GotoFacts ==
    ASSUME Shaped, NEW r \in Reqs, req[r] # None,
           NEW l \in {"cas", "read", "write", "verify", "store", "drop", "clear"},
           Goto(r, l)
    PROVE  Works(r, l) /\ req'[r].buf = req[r].buf
<1>1. req[r] \in Request /\ req \in [Reqs -> Request \cup {None}]
  BY Fields DEF Shaped
<1>2. req'[r] = [req[r] EXCEPT !.pc = l] /\ \A q \in Reqs \ {r} : req'[q] = req[q]
  BY <1>1 DEF Goto
<1>3. req'[r] \in Request
  BY <1>1, <1>2 DEF Request
<1> QED
  BY <1>1, <1>2, <1>3, UploadAssumption DEF Works, Request, UploadAssumption

LEMMA ReturnFacts ==
    ASSUME Shaped, NEW r \in Reqs, Return(r)
    PROVE  Ends(r)
  BY DEF Return, Ends, Shaped

LEMMA BufferFacts ==
    ASSUME Shaped, NEW r \in Reqs, req[r] # None, NEW l \in {"write", "verify"}, NEW b \in Files,
           req' = [req EXCEPT ![r].pc = l, ![r].buf = b]
    PROVE  Works(r, l) /\ req'[r].buf = b
<1>1. req[r] \in Request /\ req \in [Reqs -> Request \cup {None}]
  BY Fields DEF Shaped
<1>2. /\ req'[r] = [req[r] EXCEPT !.pc = l, !.buf = b]
      /\ \A q \in Reqs \ {r} : req'[q] = req[q]
  BY <1>1
<1>3. req'[r] \in Request
  BY <1>1, <1>2 DEF Request
<1>4. req'[r] # None
  BY <1>3, UploadAssumption DEF UploadAssumption
<1>5. /\ req'[r].pc = l /\ req'[r].buf = b
      /\ req'[r].u = req[r].u /\ req'[r].kind = req[r].kind
      /\ req'[r].off = req[r].off /\ req'[r].to = req[r].to
  BY <1>1, <1>2 DEF Request
<1> QED
  BY <1>2, <1>4, <1>5 DEF Works

LEMMA AnswerFacts ==
    ASSUME Shaped, NEW r \in Reqs, req[r] # None, NEW l \in {"store", "drop"},
           NEW a \in {"201", "400"}, req' = [req EXCEPT ![r].pc = l, ![r].answer = a]
    PROVE  Works(r, l)
<1>1. req[r] \in Request /\ req \in [Reqs -> Request \cup {None}]
  BY Fields DEF Shaped
<1>2. /\ req'[r] = [req[r] EXCEPT !.pc = l, !.answer = a]
      /\ \A q \in Reqs \ {r} : req'[q] = req[q]
  BY <1>1
<1>3. req'[r] \in Request
  BY <1>1, <1>2 DEF Request
<1>4. req'[r] # None
  BY <1>3, UploadAssumption DEF UploadAssumption
<1>5. /\ req'[r].pc = l
      /\ req'[r].u = req[r].u /\ req'[r].kind = req[r].kind
      /\ req'[r].off = req[r].off /\ req'[r].to = req[r].to
  BY <1>1, <1>2 DEF Request
<1> QED
  BY <1>2, <1>4, <1>5 DEF Works

LEMMA ArriveFacts ==
    ASSUME Shaped, NEW r \in Reqs, NEW u \in Uploads, NEW kind \in {"PATCH", "PUT", "POST"},
           NEW off \in 0..N, NEW to \in 0..N, Arrive(r, u, kind, off, to)
    PROVE  /\ \A q \in Reqs \ {r} : req'[q] = req[q]
           /\ req[r] = None /\ req'[r] # None /\ req'[r].pc = "slot"
           /\ req'[r].u = u /\ req'[r].kind = kind /\ req'[r].off = off /\ req'[r].to = to
<1> DEFINE new == [u |-> u, kind |-> kind, off |-> off, to |-> to,
                   buf |-> <<>>, answer |-> "none", pc |-> "slot"]
<1>1. new \in Request
  BY DEF Request, Files
<1>2. /\ req'[r] = new /\ req[r] = None
      /\ \A q \in Reqs \ {r} : req'[q] = req[q]
  BY DEF Arrive, Shaped
<1> QED
  BY <1>1, <1>2, UploadAssumption DEF UploadAssumption

(***************************************************************************)
(* Chunks that follow one another.                                          *)
(***************************************************************************)
LEMMA ChunksJoin ==
    ASSUME NEW a \in Nat, NEW b \in Nat, a <= b
    PROVE  Chunks(1, a) \o Chunks(a + 1, b) = Chunks(1, b)
<1> DEFINE s == Chunks(1, a)
           t == Chunks(a + 1, b)
<1>1. /\ a + 1 - 1 = a /\ b + 1 - (a + 1) = b - a /\ b + 1 - 1 = b /\ b - a \in Nat
      /\ \A k \in Nat : 1 + k - 1 = k /\ a + 1 + k - 1 = a + k
  OBVIOUS
<1>2. s = [k \in 1..a |-> k] /\ t = [k \in 1..(b - a) |-> a + k]
  BY <1>1 DEF Chunks
<1>3. Chunks(1, b) = [k \in 1..b |-> k]
  BY <1>1 DEF Chunks
<1> DEFINE v == Chunks(1, b)
<1> HIDE DEF s, t, v
<1>4. /\ s \in [1..a -> Nat] /\ \A k \in 1..a : s[k] = k
      /\ t \in [1..(b - a) -> Nat] /\ \A k \in 1..(b - a) : t[k] = a + k
      /\ v \in [1..b -> Nat] /\ \A k \in 1..b : v[k] = k
  BY <1>1, <1>2, <1>3 DEF v
<1>5. s \in Seq(Nat) /\ t \in Seq(Nat) /\ v \in Seq(Nat)
  BY <1>1, <1>4
<1>6. Len(s) = a /\ Len(t) = b - a /\ Len(v) = b
  <2>1. DOMAIN s = 1..Len(s) /\ DOMAIN t = 1..Len(t) /\ DOMAIN v = 1..Len(v)
    BY <1>5, LenProperties
  <2>2. Len(s) \in Nat /\ Len(t) \in Nat /\ Len(v) \in Nat
    BY <1>5, LenProperties
  <2>3. 1..Len(s) = 1..a /\ 1..Len(t) = 1..(b - a) /\ 1..Len(v) = 1..b
    BY <1>4, <2>1
  <2> QED
    BY <1>1, <2>2, <2>3
<1>7. s \o t \in Seq(Nat) /\ Len(s \o t) = b
  <2>1. s \o t \in Seq(Nat) /\ Len(s \o t) = Len(s) + Len(t)
    BY <1>5, ConcatProperties
  <2> QED
    BY <1>1, <1>6, <2>1
<1>8. ASSUME NEW k \in 1..b PROVE (s \o t)[k] = v[k]
  <2>1. (s \o t)[k] = IF k <= a THEN s[k] ELSE t[k - a]
    BY <1>1, <1>5, <1>6, ConcatProperties
  <2>2. CASE k <= a
    BY <1>4, <2>1, <2>2
  <2>3. CASE ~(k <= a)
    <3>1. k - a \in 1..(b - a) /\ a + (k - a) = k
      BY <1>1, <2>3
    <3> QED
      BY <1>4, <2>1, <2>3, <3>1
  <2> QED
    BY <2>2, <2>3
<1>9. s \o t = v
  BY <1>5, <1>6, <1>7, <1>8, SeqEqual
<1> QED
  BY <1>9 DEF s, t, v

LEMMA NoChunks == Chunks(1, 0) = <<>>
  BY DEF Chunks

(***************************************************************************)
(* What a step leaves alone.                                                *)
(***************************************************************************)
LEMMA RequestFrame ==
    ASSUME NEW q \in Reqs, RequestOK(q), req'[q] = req[q],
           req[q] # None =>
              /\ acked'[req[q].u] = acked[req[q].u]
              /\ offset'[req[q].u] \in {offset[req[q].u], None}
              /\ req[q].kind # "PATCH" => client'[req[q].u] = client[req[q].u]
    PROVE  RequestOK(q)'
  BY DEF RequestOK

\* No other request of the upload is there to be moved.
LEMMA ApartFrame ==
    ASSUME \A r, q \in Reqs : r # q => Apart(r, q),
           NEW r \in Reqs, \A q \in Reqs \ {r} : req'[q] = req[q],
           \/ req'[r] = None
           \/ /\ req[r] # None /\ req'[r].u = req[r].u /\ req'[r].kind = req[r].kind
              /\ Appends(r, req[r].u)' => Appends(r, req[r].u)
    PROVE  \A p, q \in Reqs : p # q => Apart(p, q)'
<1> SUFFICES ASSUME NEW p \in Reqs, NEW q \in Reqs, p # q PROVE Apart(p, q)'
  OBVIOUS
<1>1. Apart(p, q) /\ Apart(q, p)
  OBVIOUS
<1>2. CASE p # r /\ q # r
  BY <1>1, <1>2 DEF Apart, Appends
<1>3. CASE p = r
  BY <1>1, <1>3 DEF Apart, Appends
<1>4. CASE q = r
  BY <1>1, <1>4 DEF Apart, Appends
<1> QED
  BY <1>2, <1>3, <1>4

LEMMA KeptFrame ==
    ASSUME NEW u \in Uploads, KeptAt(u), Shaped,
           readFaults' = 0 => readFaults = 0,
           client'[u] \in {"open", "finishing"} => client[u] \in {"open", "finishing"},
           Finishing(u) => Finishing(u)',
           staged'[u] = staged[u], acked'[u] = acked[u], offset'[u] \in {offset[u], None},
           \A q \in Reqs : Appends(q, u)' =>
              /\ Appends(q, u)
              /\ req'[q].pc = "write" => req[q].pc = "write" /\ req'[q].buf = req[q].buf
    PROVE  KeptAt(u)'
<1>n. acked[u] \in Nat /\ acked[u] # None
  BY UploadAssumption DEF Shaped, UploadAssumption
<1> SUFFICES ASSUME Intact(u)'
             PROVE  /\ \E k \in acked[u]..N : staged[u] = Chunks(1, k)
                    /\ offset'[u] = acked[u] \/ (\E r \in Reqs : Appends(r, u)') =>
                          staged[u] = Chunks(1, acked[u])
                    /\ \A r \in Reqs : Appends(r, u)' /\ req'[r].pc = "write" =>
                          req'[r].buf = Chunks(1, acked[u])
  BY DEF KeptAt, Chunks
<1>1. Intact(u)
  BY DEF Intact
<1> QED
  BY <1>1, <1>n DEF KeptAt

(***************************************************************************)
(* The upload slots.                                                        *)
(***************************************************************************)
Holders == {r \in Reqs : req[r] # None /\ req[r].pc # "slot"}

LEMMA HoldersFinite == IsFiniteSet(Holders) /\ Cardinality(Holders) \in Nat
  BY UploadAssumption, FS_Subset, FS_CardinalityType DEF Holders, UploadAssumption

\* With one slot, one request is past the slot.
LEMMA Alone ==
    ASSUME TypeOK, slots = 1, NEW r \in Holders, NEW q \in Holders
    PROVE  r = q
<1> SUFFICES ASSUME r # q PROVE FALSE
  OBVIOUS
<1>1. Cardinality(Holders) <= 1
  BY DEF TypeOK, SlotsInUse, Holders
<1>2. IsFiniteSet({q}) /\ Cardinality({q}) = 1
  BY FS_Singleton
<1>3. IsFiniteSet({q} \cup {r}) /\ Cardinality({q} \cup {r}) = Cardinality({q}) + 1
  BY <1>2, FS_AddElement
<1>4. {q} \cup {r} \subseteq Holders
  OBVIOUS
<1>5. Cardinality({q} \cup {r}) <= Cardinality(Holders)
  BY <1>4, HoldersFinite, FS_Subset
<1> QED
  BY <1>1, <1>2, <1>3, <1>5, HoldersFinite

\* Only Acquire gives a slot away.
LEMMA SlotsStep ==
    ASSUME TypeOK, slots' = slots,
           \/ Holders' \subseteq Holders
           \/ SlotFree /\ \E r \in Reqs : Holders' \subseteq Holders \cup {r}
    PROVE  SlotsInUse' <= slots'
<1>1. /\ SlotsInUse = Cardinality(Holders) /\ SlotsInUse' = Cardinality(Holders)'
      /\ Cardinality(Holders)' = Cardinality(Holders') /\ slots \in Nat
      /\ SlotsInUse <= slots
  BY UploadAssumption DEF SlotsInUse, Holders, TypeOK, UploadAssumption
<1>2. Cardinality(Holders) \in Nat /\ IsFiniteSet(Holders)
  BY HoldersFinite
<1>3. CASE Holders' \subseteq Holders
  <2>1. /\ Cardinality(Holders') <= Cardinality(Holders)
        /\ IsFiniteSet(Holders')
    BY <1>2, <1>3, FS_Subset
  <2>2. Cardinality(Holders') \in Nat
    BY <2>1, FS_CardinalityType
  <2> QED
    BY <1>1, <1>2, <2>1, <2>2
<1>4. ASSUME SlotFree, NEW r \in Reqs, Holders' \subseteq Holders \cup {r}
      PROVE  SlotsInUse' <= slots'
  <2>1. /\ IsFiniteSet(Holders \cup {r})
        /\ Cardinality(Holders \cup {r}) \in {Cardinality(Holders), Cardinality(Holders) + 1}
    BY <1>2, FS_AddElement
  <2>2. /\ Cardinality(Holders') <= Cardinality(Holders \cup {r})
        /\ IsFiniteSet(Holders')
    BY <2>1, <1>4, FS_Subset
  <2>3. Cardinality(Holders') \in Nat
    BY <2>2, FS_CardinalityType
  <2>4. Cardinality(Holders) < slots
    BY <1>1, <1>4 DEF SlotFree
  <2> QED
    BY <1>1, <1>2, <2>1, <2>2, <2>3, <2>4
<1> QED
  BY <1>3, <1>4

(***************************************************************************)
(* Types.                                                                   *)
(***************************************************************************)
LEMMA ClientTypes ==
    ASSUME TypeOK, Shaped, NEW u \in Uploads, NEW r \in Reqs,
           BeginMonolithic(u, r) \/ SendPatch(u, r) \/ SendPut(u, r)
    PROVE  \E kind \in {"PATCH", "PUT", "POST"}, off \in 0..N, to \in 0..N :
              /\ Arrive(r, u, kind, off, to)
              /\ \/ kind = "POST" /\ BeginMonolithic(u, r)
                 \/ kind = "PATCH" /\ SendPatch(u, r) /\ off = acked[u] /\ off < to
                 \/ kind = "PUT" /\ SendPut(u, r)
<1>n. N \in Nat /\ acked[u] \in 0..N
  BY UploadAssumption DEF UploadAssumption, Shaped
<1>1. CASE BeginMonolithic(u, r)
  <2>1. PICK to \in 0..N : Arrive(r, u, "POST", 0, to)
    BY <1>1 DEF BeginMonolithic
  <2>2. 0 \in 0..N
    BY <1>n
  <2> QED
    BY <1>1, <2>1, <2>2, Zenon
<1>2. CASE SendPatch(u, r)
  <2>1. PICK to \in (acked[u] + 1)..N : Arrive(r, u, "PATCH", acked[u], to)
    BY <1>2 DEF SendPatch
  <2>2. to \in 0..N /\ acked[u] < to
    BY <1>n
  <2> QED
    BY <1>2, <1>n, <2>1, <2>2, Zenon
<1>3. CASE SendPut(u, r)
  <2>1. PICK to \in acked[u]..N : Arrive(r, u, "PUT", acked[u], to)
    BY <1>3 DEF SendPut
  <2>2. to \in 0..N
    BY <1>n
  <2> QED
    BY <1>3, <1>n, <2>1, <2>2, Zenon
<1> QED
  BY <1>1, <1>2, <1>3

LEMMA FaultTypes ==
    ASSUME TypeOK, Fault \/ NoFault
    PROVE  faults' \in Nat /\ readFaults' \in Nat
  BY DEF TypeOK, Fault, NoFault, faultVars

LEMMA HolderStep ==
    ASSUME NEW r \in Reqs, (req[r] # None /\ req[r].pc # "slot") \/ req'[r] = None,
           \A q \in Reqs \ {r} : req'[q] = req[q]
    PROVE  Holders' \subseteq Holders
  BY DEF Holders

LEMMA TypeStep ==
    ASSUME UploadInv, TypeOK, Shaped', [Next]_vars
    PROVE  TypeOK'
<1>t. /\ offset \in [Uploads -> (0..N) \cup {None}] /\ patches \in [Uploads -> 0..MaxPatches]
      /\ slots \in 1..Slots /\ faults \in Nat /\ readFaults \in Nat
  BY DEF TypeOK
<1>c. N \in Nat /\ MaxPatches \in Nat /\ Shaped
  BY UploadAssumption DEF UploadAssumption, UploadInv
<1>s. slots' = slots
  BY DEF Next, vars
<1> SUFFICES /\ offset' \in [Uploads -> (0..N) \cup {None}]
             /\ patches' \in [Uploads -> 0..MaxPatches]
             /\ faults' \in Nat /\ readFaults' \in Nat
             /\ \/ Holders' \subseteq Holders
                \/ SlotFree /\ \E r \in Reqs : Holders' \subseteq Holders \cup {r}
  BY <1>s, <1>t, SlotsStep DEF TypeOK, Shaped
<1> DEFINE Goal == /\ offset' \in [Uploads -> (0..N) \cup {None}]
                   /\ patches' \in [Uploads -> 0..MaxPatches]
                   /\ faults' \in Nat /\ readFaults' \in Nat
                   /\ \/ Holders' \subseteq Holders
                      \/ SlotFree /\ \E r \in Reqs : Holders' \subseteq Holders \cup {r}
<1>1. ASSUME NEW u \in Uploads, Begin(u) \/ Expire(u) PROVE Goal
  <2>1. Holders' = Holders
    BY <1>1 DEF Begin, Expire, Holders
  <2>2. offset' \in [Uploads -> (0..N) \cup {None}] /\ patches' = patches
    BY <1>1, <1>t, <1>c DEF Begin, Expire, clientVars
  <2>3. Fault \/ NoFault
    BY <1>1 DEF Begin, Expire, NoFault
  <2> QED
    BY <1>t, <2>1, <2>2, <2>3, FaultTypes
<1>2. ASSUME NEW u \in Uploads, NEW r \in Reqs,
             BeginMonolithic(u, r) \/ SendPatch(u, r) \/ SendPut(u, r)
      PROVE  Goal
  <2>1. PICK kind \in {"PATCH", "PUT", "POST"}, off \in 0..N, to \in 0..N :
            Arrive(r, u, kind, off, to)
    BY <1>2, <1>c, ClientTypes
  <2>2. Holders' \subseteq Holders
    BY <1>c, <2>1, ArriveFacts DEF Holders
  <2>3. offset' \in [Uploads -> (0..N) \cup {None}]
    BY <1>2, <1>t, <1>c DEF BeginMonolithic, SendPatch, SendPut, storeVars
  <2>4. patches' \in [Uploads -> 0..MaxPatches]
    BY <1>2, <1>t, <1>c DEF BeginMonolithic, SendPatch, SendPut
  <2>5. NoFault
    BY <1>2 DEF BeginMonolithic, SendPatch, SendPut, NoFault
  <2> QED
    BY <2>2, <2>3, <2>4, <2>5, FaultTypes
<1>3. ASSUME NEW r \in Reqs, Acquire(r) PROVE Goal
  <2>1. SlotFree /\ Holders' \subseteq Holders \cup {r}
    <3>1. \A q \in Reqs \ {r} : req'[q] = req[q]
      BY <1>3, <1>c DEF Acquire, Goto, Shaped
    <3> QED
      BY <1>3, <3>1 DEF Acquire, Holders
  <2>2. UNCHANGED <<offset, patches, faultVars>>
    BY <1>3 DEF Acquire, storeVars, clientVars
  <2> QED
    BY <1>t, <2>1, <2>2 DEF faultVars
<1>4. ASSUME NEW r \in Reqs,
             \/ Shed(r) \/ CompareAndSet(r) \/ Read(r) \/ Write(r)
             \/ Verify(r) \/ StoreBlob(r) \/ DropUpload(r) \/ Clear(r)
      PROVE  Goal
  <2>1. /\ (req[r] # None /\ req[r].pc # "slot") \/ req'[r] = None
        /\ \A q \in Reqs \ {r} : req'[q] = req[q]
    BY <1>4, <1>c DEF Shed, CompareAndSet, Read, Write, Verify, StoreBlob, DropUpload, Clear,
                      At, Goto, Return, Shaped
  <2>2. req[r] # None
    BY <1>4 DEF Shed, CompareAndSet, Read, Write, Verify, StoreBlob, DropUpload, Clear, At
  <2>3. req[r].to \in 0..N
    BY <1>c, <2>2, Fields
  <2>4. offset' \in [Uploads -> (0..N) \cup {None}]
    BY <1>4, <1>t, <2>3 DEF Shed, CompareAndSet, Read, Write, Verify, StoreBlob, DropUpload,
                            Clear, Cleared, storeVars
  <2>5. patches' = patches
    BY <1>4 DEF Shed, CompareAndSet, Read, Write, Verify, StoreBlob, DropUpload, Clear,
                clientVars
  <2>6. faults' \in Nat /\ readFaults' \in Nat
    BY <1>4, <1>t DEF Shed, CompareAndSet, Read, Write, Verify, StoreBlob, DropUpload, Clear,
                Fault, NoFault, faultVars
  <2> QED
    BY <1>t, <2>1, <2>4, <2>5, <2>6, HolderStep
<1>5. CASE UNCHANGED vars
  BY <1>5, <1>t DEF vars, storeVars, clientVars, faultVars, Holders
<1> QED
  BY <1>1, <1>2, <1>3, <1>4, <1>5 DEF Next, Step

-----------------------------------------------------------------------------
(***************************************************************************)
(* The steps.                                                               *)
(***************************************************************************)
Ground == Sessions /\ Kept /\ Clean

LEMMA Numbers ==
    ASSUME SessionInv
    PROVE  /\ Shaped /\ TypeOK /\ N \in Nat /\ None \notin Nat
           /\ \A u \in Uploads : acked[u] \in Nat /\ acked[u] \in 0..N /\ acked[u] # None
           /\ \A u \in Uploads : offset[u] # None => offset[u] \in Nat
  BY UploadAssumption DEF SessionInv, UploadInv, Shaped, TypeOK, UploadAssumption

\* An upload is opened by its POST.
LEMMA BeginStep ==
    ASSUME SessionInv, NEW u \in Uploads, client[u] = "new",
           offset' = [offset EXCEPT ![u] = 0],
           client' \in {[client EXCEPT ![u] = "open"], [client EXCEPT ![u] = "finishing"]},
           UNCHANGED <<staged, acked, slots, faults, readFaults>>,
           \/ req' = req
           \/ \E r \in Reqs :
                /\ \A q \in Reqs \ {r} : req'[q] = req[q]
                /\ req[r] = None /\ req'[r].u = u /\ req'[r].kind = "POST"
                /\ req'[r].pc = "slot" /\ client' = [client EXCEPT ![u] = "finishing"]
    PROVE  Ground'
<1>n. /\ Shaped /\ N \in Nat /\ None \notin Nat /\ Sessions /\ Kept /\ Clean
      /\ \A v \in Uploads : acked[v] \in Nat /\ acked[v] # None
  BY Numbers DEF SessionInv
<1>1. /\ offset'[u] = 0 /\ client'[u] \in {"open", "finishing"}
      /\ \A v \in Uploads \ {u} : offset'[v] = offset[v] /\ client'[v] = client[v]
  BY DEF SessionInv, TypeOK
<1>2. /\ acked[u] = 0 /\ staged[u] = <<>>
      /\ \A r \in Reqs : req[r] # None => req[r].u # u
  BY <1>n DEF Sessions, SessionOK
<1>3. \A q \in Reqs :
        \/ req'[q] = req[q]
        \/ /\ req[q] = None /\ req'[q].u = u /\ req'[q].kind = "POST" /\ req'[q].pc = "slot"
           /\ client'[u] = "finishing"
  BY <1>n DEF Shaped
<1>4. ASSUME NEW v \in Uploads PROVE SessionOK(v)'
  <2>1. SessionOK(v)
    BY <1>n DEF Sessions
  <2> QED
    BY <1>1, <1>2, <1>3, <2>1 DEF SessionOK
<1>5. ASSUME NEW q \in Reqs PROVE RequestOK(q)'
  <2>1. RequestOK(q)
    BY <1>n DEF Sessions
  <2>2. CASE req'[q] = req[q]
    <3>1. req[q] # None => req[q].u \in Uploads \ {u}
      BY <1>2, <1>n, Fields
    <3> QED
      BY <1>1, <2>1, <2>2, <3>1, RequestFrame
  <2>3. CASE req'[q] # req[q]
    BY <1>1, <1>3, <2>3 DEF RequestOK
  <2> QED
    BY <2>2, <2>3
<1>6. ASSUME NEW p \in Reqs, NEW q \in Reqs, p # q PROVE Apart(p, q)'
  <2>1. Apart(p, q)
    BY <1>n, <1>6 DEF Sessions
  <2>2. CASE req'[p] = req[p] /\ req'[q] = req[q]
    BY <2>1, <2>2 DEF Apart, Appends
  <2>3. CASE req'[p] # req[p] \/ req'[q] # req[q]
    <3>1. ~(req'[p] # req[p] /\ req'[q] # req[q])
      BY <1>6
    <3> QED
      BY <1>2, <1>3, <2>3, <3>1 DEF Apart
  <2> QED
    BY <2>2, <2>3
<1>7. ASSUME NEW v \in Uploads PROVE KeptAt(v)'
  <2>1. \A q \in Reqs : Appends(q, v)' => Appends(q, v) /\ req'[q] = req[q]
    BY <1>3 DEF Appends
  <2>2. Finishing(v) => Finishing(v)'
    BY <1>3 DEF Finishing
  <2>3. CASE v # u
    <3>1. KeptAt(v)
      BY <1>n DEF Kept
    <3> QED
      BY <1>n, <1>1, <2>1, <2>2, <2>3, <3>1, KeptFrame
  <2>4. CASE v = u
    <3>1. \A q \in Reqs : ~Appends(q, u)'
      BY <1>2, <2>1, <2>4 DEF Appends
    <3>2. acked'[u] = 0 /\ staged'[u] = Chunks(1, 0) /\ 0 \in 0..N
      BY <1>n, <1>2, NoChunks
    <3> QED
      BY <2>4, <3>1, <3>2 DEF KeptAt, Chunks
  <2> QED
    BY <2>3, <2>4
<1>8. Clean'
  <2> SUFFICES ASSUME faults = 0, slots = 1
               PROVE  /\ \A v \in Uploads : Answered(v)' => staged'[v] = <<>> /\ offset'[v] = None
                      /\ \A r \in Reqs : At(r, "clear")' => staged'[req'[r].u] = <<>>
                      /\ \A r \in Reqs, v \in Uploads : Appends(r, v)' => ~Answered(v)'
    BY DEF Clean
  <2>1. \A v \in Uploads : Answered(v)' => Answered(v) /\ v # u
    BY <1>1 DEF Answered
  <2>2. \A r \in Reqs : At(r, "clear")' => At(r, "clear") /\ req'[r] = req[r]
    BY <1>3 DEF At
  <2>3. \A r \in Reqs, v \in Uploads : Appends(r, v)' => Appends(r, v)
    BY <1>3 DEF Appends
  <2> QED
    BY <1>n, <1>1, <2>1, <2>2, <2>3 DEF Clean
<1> QED
  BY <1>4, <1>5, <1>6, <1>7, <1>8 DEF Ground, Sessions, Kept

\* What Clean says of one upload.
CleanAt(u) ==
    faults = 0 /\ slots = 1 =>
        /\ Answered(u) => staged[u] = <<>> /\ offset[u] = None
        /\ \A r \in Reqs : At(r, "clear") /\ req[r].u = u => staged[u] = <<>>
        /\ \A r \in Reqs : Appends(r, u) => ~Answered(u)

LEMMA CleanParts ==
    ASSUME Shaped
    PROVE  Clean <=> \A u \in Uploads : CleanAt(u)
<1>1. \A r \in Reqs : At(r, "clear") => req[r].u \in Uploads
  BY Fields DEF At
<1> QED
  BY <1>1 DEF Clean, CleanAt

\* A step of r, about upload w, has to answer for w alone.
Local(r, w) ==
    /\ \A v \in Uploads \ {w} : /\ offset'[v] = offset[v] /\ staged'[v] = staged[v]
                                /\ acked'[v] = acked[v] /\ client'[v] = client[v]
    /\ slots' = slots
    /\ readFaults' = 0 => readFaults = 0
    /\ faults' = 0 => faults = 0
    /\ \A q \in Reqs \ {r} : req'[q] = req[q]
    /\ req[r] # None => req[r].u = w
    /\ req'[r] # None => req'[r].u = w

LEMMA LocalStep ==
    ASSUME SessionInv, Shaped', NEW w \in Uploads, NEW r \in Reqs, Local(r, w),
           SessionOK(w)', KeptAt(w)', CleanAt(w)',
           \A q \in Reqs : req'[q] # None /\ req'[q].u = w => RequestOK(q)',
           \A q \in Reqs \ {r} : Apart(r, q)' /\ Apart(q, r)'
    PROVE  Ground'
<1>n. Shaped /\ Sessions /\ Kept /\ Clean
  BY Numbers DEF SessionInv
<1>1. ASSUME NEW v \in Uploads, v # w PROVE SessionOK(v)' /\ KeptAt(v)' /\ CleanAt(v)'
  <2>1. \A q \in Reqs : /\ req'[q] # None /\ req'[q].u = v => req'[q] = req[q]
                        /\ req[q] # None /\ req[q].u = v => req'[q] = req[q]
    BY <1>1 DEF Local
  <2>2. SessionOK(v)'
    BY <1>1, <1>n, <2>1 DEF Local, Sessions, SessionOK
  <2>3. \A q \in Reqs : Appends(q, v)' => Appends(q, v) /\ req'[q] = req[q]
    BY <2>1 DEF Appends
  <2>4. Finishing(v) => Finishing(v)'
    BY <2>1 DEF Finishing
  <2>5. KeptAt(v)
    BY <1>n DEF Kept
  <2>6. KeptAt(v)'
    BY <1>1, <1>n, <2>3, <2>4, <2>5, KeptFrame DEF Local
  <2>7. CleanAt(v)
    BY <1>n, CleanParts
  <2>8. \A q \in Reqs : At(q, "clear")' /\ req'[q].u = v => At(q, "clear") /\ req[q].u = v
    BY <2>1 DEF At
  <2>9. CleanAt(v)'
    BY <1>1, <2>3, <2>7, <2>8 DEF CleanAt, Local, Answered
  <2> QED
    BY <2>2, <2>6, <2>9
<1>2. ASSUME NEW q \in Reqs PROVE RequestOK(q)'
  <2>1. CASE req'[q] = None
    BY <2>1 DEF RequestOK
  <2>2. CASE req'[q] # None /\ req'[q].u = w
    BY <2>2
  <2>3. CASE req'[q] # None /\ req'[q].u # w
    <3>1. req'[q] = req[q] /\ req[q] # None /\ req[q].u \in Uploads \ {w}
      BY <2>3, <1>n, Fields DEF Local
    <3>2. RequestOK(q)
      BY <1>n DEF Sessions
    <3> QED
      BY <3>1, <3>2, RequestFrame DEF Local
  <2> QED
    BY <2>1, <2>2, <2>3
<1>3. ASSUME NEW p \in Reqs, NEW q \in Reqs, p # q PROVE Apart(p, q)'
  <2>1. CASE p = r \/ q = r
    BY <1>3, <2>1
  <2>2. CASE p # r /\ q # r
    <3>1. req'[p] = req[p] /\ req'[q] = req[q] /\ Apart(p, q)
      BY <1>3, <1>n, <2>2 DEF Local, Sessions
    <3> QED
      BY <3>1 DEF Apart, Appends
  <2> QED
    BY <2>1, <2>2
<1>4. \A u \in Uploads : CleanAt(u)'
  BY <1>1
<1>5. Clean'
  <2>1. \A q \in Reqs : At(q, "clear")' => req'[q].u \in Uploads
    BY DEF At, Shaped, Request
  <2> QED
    BY <1>4, <2>1 DEF Clean, CleanAt
<1> QED
  BY <1>1, <1>2, <1>3, <1>5 DEF Ground, Sessions, Kept

\* The parts of the invariant that a step of r about w can rely on.
LEMMA Here ==
    ASSUME SessionInv, NEW w \in Uploads
    PROVE  /\ Shaped /\ TypeOK /\ N \in Nat /\ None \notin Nat
           /\ acked[w] \in Nat /\ acked[w] \in 0..N /\ acked[w] # None
           /\ offset[w] # None => offset[w] \in Nat
           /\ SessionOK(w) /\ KeptAt(w) /\ CleanAt(w)
           /\ \A q \in Reqs : RequestOK(q)
           /\ \A p, q \in Reqs : p # q => Apart(p, q)
<1>1. Shaped /\ Sessions /\ Kept /\ Clean
  BY Numbers DEF SessionInv
<1> QED
  BY <1>1, Numbers, CleanParts DEF Sessions, Kept

\* A client sends a PATCH or a PUT.
LEMMA SendStep ==
    ASSUME SessionInv, Shaped', slots' = slots, NEW w \in Uploads, NEW r \in Reqs,
           SendPatch(w, r) \/ SendPut(w, r)
    PROVE  Ground'
<1>h. /\ Shaped /\ TypeOK /\ N \in Nat /\ None \notin Nat
      /\ acked[w] \in Nat /\ SessionOK(w) /\ KeptAt(w) /\ CleanAt(w)
      /\ \A q \in Reqs : RequestOK(q)
      /\ \A p, q \in Reqs : p # q => Apart(p, q)
  BY Here
<1>1. PICK kind \in {"PATCH", "PUT", "POST"}, off \in 0..N, to \in 0..N :
        /\ Arrive(r, w, kind, off, to)
        /\ \/ kind = "POST" /\ BeginMonolithic(w, r)
           \/ kind = "PATCH" /\ SendPatch(w, r) /\ off = acked[w] /\ off < to
           \/ kind = "PUT" /\ SendPut(w, r)
  BY <1>h, ClientTypes
<1>2. /\ client[w] = "open" /\ UNCHANGED <<offset, staged, acked, faults, readFaults>>
      /\ client'[w] \in {"open", "finishing"}
      /\ \A v \in Uploads \ {w} : client'[v] = client[v]
  BY <1>h DEF SendPatch, SendPut, storeVars, faultVars, Shaped
<1>3. /\ \A q \in Reqs \ {r} : req'[q] = req[q]
      /\ req[r] = None /\ req'[r] # None /\ req'[r].pc = "slot"
      /\ req'[r].u = w /\ req'[r].kind = kind /\ req'[r].off = off /\ req'[r].to = to
  BY <1>h, <1>1, ArriveFacts
<1>4. Local(r, w)
  BY <1>2, <1>3 DEF Local
<1>5. SessionOK(w)'
  BY <1>h, <1>2 DEF SessionOK
<1>6. \A q \in Reqs : Appends(q, w)' => Appends(q, w) /\ req'[q] = req[q]
  BY <1>3 DEF Appends
<1>7. KeptAt(w)'
  <2>1. Finishing(w) => Finishing(w)'
    BY <1>3 DEF Finishing
  <2> QED
    BY <1>h, <1>2, <1>6, <2>1, KeptFrame
<1>8. CleanAt(w)'
  <2>1. ~Answered(w)'
    BY <1>2 DEF Answered
  <2>2. \A q \in Reqs : At(q, "clear")' /\ req'[q].u = w => At(q, "clear") /\ req[q].u = w
    BY <1>3 DEF At
  <2> QED
    BY <1>h, <1>2, <1>4, <2>1, <2>2 DEF CleanAt, Local
<1>9. ASSUME NEW q \in Reqs, req'[q] # None, req'[q].u = w PROVE RequestOK(q)'
  <2>1. CASE q # r
    <3>1. req'[q] = req[q] /\ req[q].kind = "PATCH"
      BY <1>h, <1>2, <1>3, <1>9, <2>1 DEF RequestOK
    <3> QED
      BY <1>h, <1>2, <3>1, RequestFrame
  <2>2. CASE q = r
    <3>1. kind = "POST" => client[w] = "new"
      BY <1>1 DEF BeginMonolithic
    <3>2. kind = "PUT" => client'[w] = "finishing"
      BY <1>1, <1>2, <1>h DEF SendPut, Shaped, BeginMonolithic
    <3> QED
      BY <1>1, <1>2, <1>3, <1>h, <2>2, <3>1, <3>2 DEF RequestOK
  <2> QED
    BY <2>1, <2>2
<1>10. ASSUME NEW q \in Reqs \ {r} PROVE Apart(r, q)' /\ Apart(q, r)'
  <2>1. req'[q] = req[q] /\ ~Appends(r, w)'
    BY <1>3 DEF Appends
  <2>2. req[q] # None /\ req[q].u = w => req[q].kind = "PATCH"
    BY <1>h, <1>2 DEF RequestOK
  <2> QED
    BY <1>3, <2>1, <2>2 DEF Apart
<1> QED
  BY <1>4, <1>5, <1>7, <1>8, <1>9, <1>10, LocalStep

\* A handler moves on, or returns, and changes nothing of the session.
LEMMA CalmStep ==
    ASSUME SessionInv, Shaped', NEW r \in Reqs, req[r] # None, req[r].pc # "clear",
           UNCHANGED <<offset, staged, acked, client, slots>>,
           readFaults' = 0 => readFaults = 0, faults' = 0 => faults = 0,
           \/ Ends(r)
           \/ Works(r, "cas") /\ req[r].kind = "PATCH"
           \/ \E l \in {"read", "verify", "store", "drop"} :
                Works(r, l) /\ req[r].kind # "PATCH"
           \/ /\ Works(r, "write") /\ req[r].kind = "PATCH" /\ req[r].pc = "read"
              /\ readFaults' = 0 => req'[r].buf = staged[req[r].u]
    PROVE  Ground'
<1>w. PICK w \in Uploads : w = req[r].u
  BY Numbers, Fields
<1>h. /\ Shaped /\ TypeOK /\ N \in Nat /\ None \notin Nat
      /\ acked[w] \in Nat /\ acked[w] # None /\ SessionOK(w) /\ KeptAt(w) /\ CleanAt(w)
      /\ \A q \in Reqs : RequestOK(q)
      /\ \A p, q \in Reqs : p # q => Apart(p, q)
  BY <1>w, Here
<1>1. /\ \A q \in Reqs \ {r} : req'[q] = req[q]
      /\ \/ req'[r] = None
         \/ /\ req'[r].u = w /\ req'[r].kind = req[r].kind
            /\ req'[r].off = req[r].off /\ req'[r].to = req[r].to
            /\ \/ req'[r].pc = "cas" /\ req[r].kind = "PATCH"
               \/ req'[r].pc \in {"read", "verify", "store", "drop"} /\ req[r].kind # "PATCH"
               \/ /\ req'[r].pc = "write" /\ req[r].kind = "PATCH" /\ req[r].pc = "read"
                  /\ readFaults' = 0 => req'[r].buf = staged[w]
  BY <1>w DEF Works, Ends
<1>2. Local(r, w)
  BY <1>w, <1>1 DEF Local
<1>3. SessionOK(w)'
  BY <1>w, <1>h, <1>1 DEF SessionOK
<1>4. \A q \in Reqs : Appends(q, w)' =>
        /\ Appends(q, w)
        /\ req'[q] = req[q] \/ (q = r /\ req'[q].pc = "write" /\ req[q].pc = "read")
  BY <1>w, <1>1 DEF Appends
<1>5. KeptAt(w)'
  <2> SUFFICES ASSUME Intact(w)'
               PROVE  /\ \E k \in acked[w]..N : staged[w] = Chunks(1, k)
                      /\ offset[w] = acked[w] \/ (\E q \in Reqs : Appends(q, w)') =>
                            staged[w] = Chunks(1, acked[w])
                      /\ \A q \in Reqs : Appends(q, w)' /\ req'[q].pc = "write" =>
                            req'[q].buf = Chunks(1, acked[w])
    BY DEF KeptAt, Chunks
  <2>1. Finishing(w) => Finishing(w)'
    BY <1>1 DEF Finishing
  <2>2. Intact(w) /\ readFaults' = 0
    BY <2>1 DEF Intact
  <2>3. /\ \E k \in acked[w]..N : staged[w] = Chunks(1, k)
        /\ offset[w] = acked[w] \/ (\E q \in Reqs : Appends(q, w)) =>
              staged[w] = Chunks(1, acked[w])
        /\ \A q \in Reqs : Appends(q, w) /\ req[q].pc = "write" =>
              req[q].buf = Chunks(1, acked[w])
    BY <1>h, <2>2 DEF KeptAt
  <2>4. ASSUME NEW q \in Reqs, Appends(q, w)', req'[q].pc = "write"
        PROVE  req'[q].buf = Chunks(1, acked[w])
    <3>1. CASE req'[q] = req[q]
      BY <1>4, <2>3, <2>4, <3>1
    <3>2. CASE q = r /\ req'[q].pc = "write" /\ req[q].pc = "read"
      <4>1. req'[r].buf = staged[w]
        BY <1>1, <2>2, <2>4, <3>2 DEF Appends
      <4> QED
        BY <1>4, <2>3, <2>4, <3>2, <4>1
    <3> QED
      BY <1>4, <2>4, <3>1, <3>2
  <2> QED
    BY <1>4, <2>3, <2>4
<1>6. CleanAt(w)'
  <2>1. \A q \in Reqs : At(q, "clear")' /\ req'[q].u = w => At(q, "clear") /\ req[q].u = w
    BY <1>1 DEF At
  <2> QED
    BY <1>h, <1>4, <2>1 DEF CleanAt, Answered
<1>7. ASSUME NEW q \in Reqs, req'[q] # None, req'[q].u = w PROVE RequestOK(q)'
  <2>1. CASE q # r
    BY <1>1, <1>h, <2>1, RequestFrame
  <2>2. CASE q = r
    <3>1. RequestOK(r)
      BY <1>h
    <3> QED
      BY <1>w, <1>1, <1>7, <2>2, <3>1 DEF RequestOK
  <2> QED
    BY <2>1, <2>2
<1>8. \A p, q \in Reqs : p # q => Apart(p, q)'
  BY <1>w, <1>1, <1>4, <1>h, ApartFrame
<1> QED
  BY <1>w, <1>2, <1>3, <1>5, <1>6, <1>7, <1>8, LocalStep

\* A POST that is shed abandons its upload, a PUT that is shed hands it back.
LEMMA ShedStep ==
    ASSUME SessionInv, Shaped', NEW r \in Reqs, Shed(r), slots' = slots
    PROVE  Ground'
<1>a. req[r] # None /\ req[r].pc = "slot"
  BY DEF Shed, At
<1>w. PICK w \in Uploads : w = req[r].u
  BY <1>a, Numbers, Fields
<1>h. /\ Shaped /\ TypeOK /\ N \in Nat /\ None \notin Nat
      /\ acked[w] \in Nat /\ acked[w] # None /\ SessionOK(w) /\ KeptAt(w) /\ CleanAt(w)
      /\ \A q \in Reqs : RequestOK(q)
      /\ \A p, q \in Reqs : p # q => Apart(p, q)
  BY <1>w, Here
<1>1. Ends(r)
  BY <1>h, ReturnFacts DEF Shed
<1>2. faults' # 0 /\ readFaults' = readFaults /\ acked' = acked
  <2>1. faults' = faults + 1 /\ faults \in Nat
    BY <1>h DEF Shed, Fault, TypeOK
  <2> QED
    BY <2>1 DEF Shed, Fault
<1>3. CASE req[r].kind = "PATCH"
  <2>1. UNCHANGED <<offset, staged, client>>
    BY <1>3 DEF Shed
  <2> QED
    BY <1>1, <1>2, <1>a, <2>1, CalmStep
<1>4. CASE req[r].kind # "PATCH"
  <2>1. client[w] = "finishing"
    BY <1>w, <1>4, <1>a, <1>h DEF RequestOK
  <2>2. /\ offset'[w] \in {offset[w], None}
        /\ \/ client'[w] = "400"
           \/ client'[w] = "open" /\ staged'[w] = staged[w]
        /\ \A v \in Uploads \ {w} : /\ offset'[v] = offset[v] /\ staged'[v] = staged[v]
                                    /\ client'[v] = client[v]
    BY <1>4, <1>h, <1>w DEF Shed, TypeOK
  <2>3. \A q \in Reqs \ {r} : /\ req'[q] = req[q]
                              /\ req[q] # None /\ req[q].u = w => req[q].kind = "PATCH"
    BY <1>w, <1>1, <1>4, <1>a, <1>h DEF Ends, Apart
  <2>4. req'[r] = None
    BY <1>1 DEF Ends
  <2>5. Local(r, w)
    BY <1>w, <1>2, <2>2, <2>3, <2>4 DEF Local
  <2>6. SessionOK(w)'
    BY <1>2, <1>h, <2>2 DEF SessionOK
  <2>7. KeptAt(w)'
    <3>1. CASE client'[w] = "400"
      BY <3>1 DEF KeptAt, Intact
    <3>2. CASE client'[w] = "open" /\ staged'[w] = staged[w]
      <4>1. \A q \in Reqs : Appends(q, w)' => Appends(q, w) /\ req'[q] = req[q]
        BY <2>3, <2>4 DEF Appends
      <4>2. Finishing(w) => Finishing(w)'
        BY <1>a, <2>3 DEF Finishing
      <4> QED
        BY <1>2, <1>h, <1>w, <2>1, <2>2, <3>2, <4>1, <4>2, KeptFrame
    <3> QED
      BY <2>2, <3>1, <3>2
  <2>8. CleanAt(w)'
    BY <1>2 DEF CleanAt
  <2>9. ASSUME NEW q \in Reqs, req'[q] # None, req'[q].u = w PROVE RequestOK(q)'
    <3>1. q # r /\ req'[q] = req[q] /\ req[q].kind = "PATCH"
      BY <2>3, <2>4, <2>9
    <3> QED
      BY <1>2, <1>h, <2>2, <2>9, <3>1, RequestFrame
  <2>10. \A p, q \in Reqs : p # q => Apart(p, q)'
    BY <1>h, <2>3, <2>4, ApartFrame
  <2> QED
    BY <1>w, <2>5, <2>6, <2>7, <2>8, <2>9, <2>10, LocalStep
<1> QED
  BY <1>3, <1>4

\* A PATCH at the acknowledged offset takes the session ahead of it, which no
\* other PATCH can pass until the bytes are acknowledged.
LEMMA AdvanceStep ==
    ASSUME SessionInv, Shaped', NEW r \in Reqs, At(r, "cas"), InOrder(r),
           offset' = [offset EXCEPT ![req[r].u] = req[r].to],
           UNCHANGED <<staged, acked, client, slots, readFaults>>,
           \/ Works(r, "read") /\ faults' = faults
           \/ Ends(r) /\ faults' # 0
    PROVE  Ground'
<1>a. req[r] # None /\ req[r].pc = "cas"
  BY DEF At
<1>w. PICK w \in Uploads : w = req[r].u
  BY <1>a, Numbers, Fields
<1>h. /\ Shaped /\ TypeOK /\ N \in Nat /\ None \notin Nat
      /\ acked[w] \in Nat /\ acked[w] # None /\ SessionOK(w) /\ KeptAt(w) /\ CleanAt(w)
      /\ \A q \in Reqs : RequestOK(q)
      /\ \A p, q \in Reqs : p # q => Apart(p, q)
  BY <1>w, Here
<1>f. req[r].off \in Nat /\ req[r].to \in Nat
  BY <1>a, <1>h, Fields
<1>1. /\ req[r].kind = "PATCH" /\ req[r].off <= acked[w] /\ req[r].off < req[r].to
  BY <1>a, <1>w, <1>h DEF RequestOK
<1>2. offset[w] = req[r].off /\ offset[w] = acked[w] /\ offset[w] # None
  <2>1. offset[w] = req[r].off
    BY <1>w DEF InOrder
  <2>2. acked[w] <= offset[w]
    BY <1>f, <1>h, <2>1 DEF SessionOK
  <2> QED
    BY <1>1, <1>f, <1>h, <2>1, <2>2
<1>3. \A q \in Reqs : ~Appends(q, w)
  <2> SUFFICES ASSUME NEW q \in Reqs, Appends(q, w) PROVE FALSE
    OBVIOUS
  <2>1. /\ req[q] # None /\ req[q].off = acked[w] /\ req[q].off < req[q].to
        /\ offset[w] \in {req[q].to, None}
    BY <1>h DEF Appends, RequestOK
  <2> QED
    BY <1>2, <1>h, <2>1
<1>4. /\ offset'[w] = req[r].to /\ acked'[w] < offset'[w]
      /\ \A v \in Uploads \ {w} : offset'[v] = offset[v]
  BY <1>w, <1>1, <1>2, <1>f, <1>h DEF TypeOK
<1>5. /\ \A q \in Reqs \ {r} : req'[q] = req[q]
      /\ \/ req'[r] = None /\ faults' # 0
         \/ /\ req'[r].u = w /\ req'[r].kind = "PATCH" /\ req'[r].pc = "read"
            /\ req'[r].off = req[r].off /\ req'[r].to = req[r].to
            /\ faults' = faults
  BY <1>w, <1>1 DEF Works, Ends
<1>6. Local(r, w)
  <2>1. faults' = 0 => faults = 0
    BY <1>5
  <2> QED
    BY <1>w, <1>4, <1>5, <2>1 DEF Local
<1>7. SessionOK(w)'
  <2>1. client[w] # "new"
    BY <1>w, <1>a, <1>h DEF SessionOK
  <2>2. acked'[w] <= offset'[w]
    BY <1>4, <1>h, <1>f
  <2> QED
    BY <2>1, <2>2 DEF SessionOK
<1>8. \A q \in Reqs : Appends(q, w)' => q = r /\ req'[q].pc = "read"
  BY <1>3, <1>5 DEF Appends
<1>9. KeptAt(w)'
  <2> SUFFICES ASSUME Intact(w)'
               PROVE  /\ \E k \in acked[w]..N : staged[w] = Chunks(1, k)
                      /\ staged[w] = Chunks(1, acked[w])
    BY <1>8 DEF KeptAt, Chunks
  <2>1. Finishing(w) => Finishing(w)'
    BY <1>5, <1>a DEF Finishing
  <2>2. Intact(w)
    BY <2>1 DEF Intact
  <2> QED
    BY <1>2, <1>h, <2>2 DEF KeptAt
<1>10. CleanAt(w)'
  <2> SUFFICES ASSUME faults = 0, slots = 1
               PROVE  /\ ~Answered(w)
                      /\ \A q \in Reqs : At(q, "clear")' /\ req'[q].u = w => staged[w] = <<>>
    BY <1>5 DEF CleanAt, Answered
  <2>1. \A q \in Reqs : At(q, "clear")' /\ req'[q].u = w => At(q, "clear") /\ req[q].u = w
    BY <1>5 DEF At
  <2> QED
    BY <1>2, <1>h, <2>1 DEF CleanAt
<1>11. ASSUME NEW q \in Reqs, req'[q] # None, req'[q].u = w PROVE RequestOK(q)'
  <2>0. RequestOK(q)
    BY <1>h
  <2>1. CASE q # r
    <3>1. req'[q] = req[q] /\ ~Appends(q, w)
      BY <1>3, <1>5, <2>1
    <3> QED
      BY <1>11, <2>0, <3>1 DEF RequestOK, Appends
  <2>2. CASE q = r
    BY <1>1, <1>2, <1>4, <1>5, <1>11, <1>h, <2>2 DEF RequestOK
  <2> QED
    BY <2>1, <2>2
<1>12. ASSUME NEW q \in Reqs \ {r} PROVE Apart(r, q)' /\ Apart(q, r)'
  <2>1. ~Appends(q, w)' /\ (req'[r] # None => req'[r].u = w /\ req'[r].kind = "PATCH")
    BY <1>5, <1>8
  <2> QED
    BY <2>1 DEF Apart
<1> QED
  BY <1>6, <1>7, <1>9, <1>10, <1>11, <1>12, LocalStep

\* The PATCH that appends leaves what was acknowledged, and its own chunks.
LEMMA WriteStep ==
    ASSUME SessionInv, Shaped', NEW r \in Reqs, Write(r), slots' = slots
    PROVE  Ground'
<1>a. req[r] # None /\ req[r].pc = "write"
  BY DEF Write, At
<1>w. PICK w \in Uploads : w = req[r].u
  BY <1>a, Numbers, Fields
<1>h. /\ Shaped /\ TypeOK /\ N \in Nat /\ None \notin Nat
      /\ acked[w] \in Nat /\ acked[w] # None /\ SessionOK(w) /\ KeptAt(w) /\ CleanAt(w)
      /\ \A q \in Reqs : RequestOK(q)
      /\ \A p, q \in Reqs : p # q => Apart(p, q)
  BY <1>w, Here
<1>f. req[r].off \in Nat /\ req[r].to \in Nat /\ req[r].to \in 0..N
  BY <1>a, <1>h, Fields
<1>1. /\ req[r].kind = "PATCH" /\ req[r].off = acked[w] /\ acked[w] < req[r].to
      /\ offset[w] \in {req[r].to, None}
  BY <1>a, <1>w, <1>h DEF RequestOK
<1>2. Appends(r, w)
  BY <1>a, <1>w, <1>1 DEF Appends
<1>3. \A q \in Reqs \ {r} : ~Appends(q, w)
  BY <1>2, <1>a, <1>w, <1>h DEF Apart, Appends
<1>4. (\A q \in Reqs \ {r} : req'[q] = req[q]) /\ req'[r] = None
  BY <1>h, ReturnFacts DEF Write, Ends
<1>5. /\ UNCHANGED <<offset, client>> /\ readFaults' = readFaults
      /\ faults' = faults \/ faults' # 0
      /\ staged'[w] \in {staged[w], Combined(r)}
      /\ \/ staged'[w] = Combined(r) /\ acked'[w] = req[r].to
         \/ acked'[w] = acked[w] /\ faults' # 0
      /\ \A v \in Uploads \ {w} : staged'[v] = staged[v] /\ acked'[v] = acked[v]
  <2>1. faults \in Nat /\ staged \in [Uploads -> Files] /\ acked \in [Uploads -> 0..N]
    BY <1>h DEF TypeOK
  <2>2. UNCHANGED <<offset, client>> /\ readFaults' = readFaults
    BY DEF Write, Fault, NoFault, faultVars
  <2>3. CASE NoFault /\ staged' = [staged EXCEPT ![w] = Combined(r)]
             /\ acked' = [acked EXCEPT ![w] = req[r].to]
    BY <2>1, <2>2, <2>3 DEF NoFault, faultVars
  <2>4. CASE Fault /\ staged' \in {staged, [staged EXCEPT ![w] = Combined(r)]}
             /\ acked' = acked
    <3>1. faults' # 0
      BY <2>1, <2>4 DEF Fault
    <3> QED
      BY <2>1, <2>2, <2>4, <3>1
  <2> QED
    BY <1>w, <2>3, <2>4 DEF Write
<1>6. Local(r, w)
  <2>1. faults' = 0 => faults = 0
    BY <1>5
  <2> QED
    BY <1>w, <1>4, <1>5, <2>1 DEF Local
<1>7. acked'[w] \in {acked[w], req[r].to} /\ acked[w] <= acked'[w] /\ acked'[w] \in Nat
  BY <1>1, <1>5, <1>f, <1>h
<1>8. SessionOK(w)'
  <2>1. client[w] # "new"
    BY <1>w, <1>a, <1>h DEF SessionOK
  <2>2. offset[w] # None => acked'[w] <= offset[w]
    BY <1>1, <1>7, <1>f, <1>h
  <2> QED
    BY <1>5, <2>1, <2>2 DEF SessionOK
<1>9. \A q \in Reqs : ~Appends(q, w)'
  BY <1>3, <1>4 DEF Appends
<1>10. KeptAt(w)'
  <2> SUFFICES ASSUME Intact(w)'
               PROVE  /\ \E k \in acked'[w]..N : staged'[w] = Chunks(1, k)
                      /\ offset'[w] = acked'[w] => staged'[w] = Chunks(1, acked'[w])
    BY <1>9 DEF KeptAt, Chunks
  <2>1. Finishing(w) => Finishing(w)'
    BY <1>4, <1>a DEF Finishing
  <2>2. Intact(w)
    BY <1>5, <2>1 DEF Intact
  <2>3. /\ staged[w] = Chunks(1, acked[w]) /\ req[r].buf = Chunks(1, acked[w])
    BY <1>2, <1>a, <1>h, <2>2 DEF KeptAt
  <2>4. Combined(r) = Chunks(1, req[r].to)
    <3>1. Combined(r) = Chunks(1, acked[w]) \o Chunks(acked[w] + 1, req[r].to)
      BY <1>1, <2>3 DEF Combined
    <3>2. acked[w] \in Nat /\ req[r].to \in Nat /\ acked[w] <= req[r].to
      BY <1>1, <1>f, <1>h
    <3> QED
      BY <3>1, <3>2, ChunksJoin
  <2>5. CASE staged'[w] = Combined(r) /\ acked'[w] = req[r].to
    <3>1. req[r].to \in acked'[w]..N
      BY <1>f, <1>h, <2>5
    <3> QED
      BY <2>4, <2>5, <3>1
  <2>6. CASE acked'[w] = acked[w] /\ faults' # 0
    <3>1. offset'[w] # acked'[w]
      BY <1>1, <1>5, <1>f, <1>h, <2>6
    <3>2. acked[w] \in acked'[w]..N /\ req[r].to \in acked'[w]..N
      BY <1>1, <1>f, <1>h, <2>6
    <3> QED
      BY <1>5, <2>3, <2>4, <3>1, <3>2
  <2> QED
    BY <1>5, <2>5, <2>6
<1>11. CleanAt(w)'
  <2> SUFFICES ASSUME faults = 0, slots = 1, faults' = 0
               PROVE  /\ ~Answered(w)
                      /\ \A q \in Reqs : ~(At(q, "clear")' /\ req'[q].u = w)
    BY <1>5, <1>9 DEF CleanAt, Answered
  <2>1. \A q \in Reqs : At(q, "clear")' => q # r /\ q \in Holders
    BY <1>4 DEF At, Holders
  <2>2. r \in Holders
    BY <1>a DEF Holders
  <2> QED
    BY <1>2, <1>h, <2>1, <2>2, Alone DEF CleanAt
<1>12. ASSUME NEW q \in Reqs, req'[q] # None, req'[q].u = w PROVE RequestOK(q)'
  <2>1. q # r /\ req'[q] = req[q] /\ ~Appends(q, w) /\ RequestOK(q)
    BY <1>3, <1>4, <1>12, <1>h
  <2>2. req[q].off \in Nat
    BY <1>12, <1>h, <2>1, Fields
  <2> QED
    BY <1>5, <1>7, <1>12, <1>h, <2>1, <2>2 DEF RequestOK, Appends
<1>13. ASSUME NEW q \in Reqs \ {r} PROVE Apart(r, q)' /\ Apart(q, r)'
  BY <1>4 DEF Apart
<1> QED
  BY <1>6, <1>8, <1>10, <1>11, <1>12, <1>13, LocalStep

\* The request that finishes the upload drops what was gathered.
LEMMA DropStep ==
    ASSUME SessionInv, Shaped', NEW r \in Reqs, DropUpload(r), slots' = slots
    PROVE  Ground'
<1>a. req[r] # None /\ req[r].pc = "drop"
  BY DEF DropUpload, At
<1>w. PICK w \in Uploads : w = req[r].u
  BY <1>a, Numbers, Fields
<1>h. /\ Shaped /\ TypeOK /\ SessionOK(w) /\ KeptAt(w) /\ CleanAt(w)
      /\ \A q \in Reqs : RequestOK(q)
      /\ \A p, q \in Reqs : p # q => Apart(p, q)
  BY <1>w, Here
<1>1. req[r].kind # "PATCH" /\ client[w] = "finishing"
  BY <1>a, <1>w, <1>h DEF RequestOK
<1>2. Works(r, "clear")
  BY <1>a, <1>h, GotoFacts DEF DropUpload
<1>3. /\ UNCHANGED <<offset, acked, client>> /\ readFaults' = readFaults
      /\ \/ staged'[w] = <<>> /\ faults' = faults
         \/ staged'[w] = staged[w] /\ faults' # 0
      /\ \A v \in Uploads \ {w} : staged'[v] = staged[v]
  <2>1. faults \in Nat /\ staged \in [Uploads -> Files]
    BY <1>h DEF TypeOK
  <2> QED
    BY <1>w, <2>1 DEF DropUpload, Fault, NoFault, faultVars, clientVars
<1>4. /\ \A q \in Reqs \ {r} : req'[q] = req[q]
      /\ req'[r] # None /\ req'[r].u = w /\ req'[r].kind = req[r].kind /\ req'[r].pc = "clear"
  BY <1>w, <1>2 DEF Works
<1>5. Local(r, w)
  <2>1. faults' = 0 => faults = 0
    BY <1>3
  <2> QED
    BY <1>w, <1>3, <1>4, <2>1 DEF Local
<1>6. SessionOK(w)'
  BY <1>1, <1>3, <1>h DEF SessionOK
<1>7. KeptAt(w)'
  <2>1. Finishing(w)'
    BY <1>4 DEF Finishing
  <2> QED
    BY <2>1 DEF KeptAt, Intact
<1>8. CleanAt(w)'
  <2>1. ~Answered(w)' /\ (faults' = 0 => staged'[w] = <<>>)
    BY <1>1, <1>3 DEF Answered
  <2> QED
    BY <2>1 DEF CleanAt
<1>9. ASSUME NEW q \in Reqs, req'[q] # None, req'[q].u = w PROVE RequestOK(q)'
  <2>1. CASE q # r
    BY <1>3, <1>4, <1>h, <2>1, RequestFrame
  <2>2. CASE q = r
    BY <1>1, <1>3, <1>4, <2>2 DEF RequestOK
  <2> QED
    BY <2>1, <2>2
<1>10. \A p, q \in Reqs : p # q => Apart(p, q)'
  <2>1. ~Appends(r, w)'
    BY <1>4 DEF Appends
  <2> QED
    BY <1>w, <1>a, <1>4, <1>h, <2>1, ApartFrame
<1> QED
  BY <1>5, <1>6, <1>7, <1>8, <1>9, <1>10, LocalStep

\* The session is cleared and the client answered.
LEMMA AnswerStep ==
    ASSUME SessionInv, Shaped', NEW r \in Reqs, Clear(r), slots' = slots
    PROVE  Ground'
<1>a. req[r] # None /\ req[r].pc = "clear"
  BY DEF Clear, At
<1>w. PICK w \in Uploads : w = req[r].u
  BY <1>a, Numbers, Fields
<1>h. /\ Shaped /\ TypeOK /\ SessionOK(w) /\ KeptAt(w) /\ CleanAt(w)
      /\ \A q \in Reqs : RequestOK(q)
      /\ \A p, q \in Reqs : p # q => Apart(p, q)
  BY <1>w, Here
<1>1. req[r].kind # "PATCH" /\ req[r].answer \in {"201", "400"}
  <2>1. CarriesAt(r)
    BY DEF SessionInv, UploadInv, Carries
  <2> QED
    BY <1>a, <1>h, <2>1 DEF RequestOK, CarriesAt, At
<1>2. \A q \in Reqs \ {r} : req[q] # None /\ req[q].u = w => req[q].kind = "PATCH"
  BY <1>1, <1>a, <1>w, <1>h DEF Apart
<1>3. (\A q \in Reqs \ {r} : req'[q] = req[q]) /\ req'[r] = None
  BY <1>h, ReturnFacts DEF Clear, Ends
<1>4. /\ UNCHANGED <<staged, acked>> /\ readFaults' = readFaults
      /\ client'[w] \in {"201", "400"}
      /\ \/ offset'[w] = None /\ faults' = faults
         \/ offset'[w] = offset[w] /\ faults' # 0
      /\ \A v \in Uploads \ {w} : offset'[v] = offset[v] /\ client'[v] = client[v]
  <2>1. /\ faults \in Nat /\ offset \in [Uploads -> (0..N) \cup {None}]
        /\ client \in [Uploads -> {"new", "open", "finishing", "201", "400"}]
    BY <1>h DEF TypeOK
  <2> QED
    BY <1>w, <1>1, <2>1 DEF Clear, Cleared, Fault, NoFault, faultVars
<1>5. Local(r, w)
  <2>1. faults' = 0 => faults = 0
    BY <1>4
  <2> QED
    BY <1>w, <1>3, <1>4, <2>1 DEF Local
<1>6. SessionOK(w)'
  BY <1>4, <1>h DEF SessionOK
<1>7. KeptAt(w)'
  BY <1>4 DEF KeptAt, Intact
<1>8. CleanAt(w)'
  <2> SUFFICES ASSUME faults' = 0, faults = 0, slots = 1
               PROVE  /\ staged[w] = <<>> /\ offset'[w] = None
                      /\ \A q \in Reqs : ~Appends(q, w)'
    BY <1>4, <1>5 DEF CleanAt, Local
  <2>1. staged[w] = <<>>
    BY <1>a, <1>w, <1>h DEF CleanAt, At
  <2>2. r \in Holders
    BY <1>a DEF Holders
  <2>3. \A q \in Reqs : Appends(q, w)' => q # r /\ q \in Holders
    BY <1>3 DEF Appends, Holders
  <2> QED
    BY <1>4, <1>h, <2>1, <2>2, <2>3, Alone
<1>9. ASSUME NEW q \in Reqs, req'[q] # None, req'[q].u = w PROVE RequestOK(q)'
  <2>1. q # r /\ req'[q] = req[q] /\ req[q].kind = "PATCH"
    BY <1>2, <1>3, <1>9
  <2> QED
    BY <1>4, <1>9, <1>h, <2>1, RequestFrame
<1>10. ASSUME NEW q \in Reqs \ {r} PROVE Apart(r, q)' /\ Apart(q, r)'
  BY <1>3 DEF Apart
<1> QED
  BY <1>5, <1>6, <1>7, <1>8, <1>9, <1>10, LocalStep

\* The session's TTL passes, or nothing happens.
LEMMA ExpireStep ==
    ASSUME SessionInv, Shaped', UNCHANGED <<staged, acked, client, req, slots, readFaults>>,
           \/ offset' = offset /\ faults' = faults
           \/ faults' # 0 /\ \A v \in Uploads : offset'[v] \in {offset[v], None}
    PROVE  Ground'
<1>1. \A v \in Uploads : offset'[v] \in {offset[v], None}
  OBVIOUS
<1>2. ASSUME NEW v \in Uploads PROVE SessionOK(v)' /\ KeptAt(v)' /\ CleanAt(v)'
  <2>h. Shaped /\ SessionOK(v) /\ KeptAt(v) /\ CleanAt(v)
    BY Here
  <2>1. SessionOK(v)'
    BY <1>1, <2>h DEF SessionOK
  <2>2. \A q \in Reqs : Appends(q, v)' => Appends(q, v) /\ req'[q] = req[q]
    BY DEF Appends
  <2>3. Finishing(v) => Finishing(v)'
    BY DEF Finishing
  <2>4. KeptAt(v)'
    BY <1>1, <2>h, <2>2, <2>3, KeptFrame
  <2>5. CleanAt(v)'
    BY <2>h DEF CleanAt, At, Appends, Answered
  <2> QED
    BY <2>1, <2>4, <2>5
<1>3. ASSUME NEW q \in Reqs PROVE RequestOK(q)'
  <2>1. RequestOK(q) /\ Shaped
    BY Numbers DEF SessionInv, Sessions
  <2>2. req[q] # None => req[q].u \in Uploads
    BY <2>1, Fields
  <2> QED
    BY <1>1, <2>1, <2>2, RequestFrame
<1>4. ASSUME NEW p \in Reqs, NEW q \in Reqs, p # q PROVE Apart(p, q)'
  BY <1>4 DEF SessionInv, Sessions, Apart, Appends
<1>5. Clean'
  <2>1. \A q \in Reqs : At(q, "clear")' => req'[q].u \in Uploads
    BY DEF At, Shaped, Request
  <2> QED
    BY <1>2, <2>1 DEF Clean, CleanAt
<1> QED
  BY <1>2, <1>3, <1>4, <1>5 DEF Ground, Sessions, Kept

-----------------------------------------------------------------------------
LEMMA SessionInit == Init => SessionInv
<1> SUFFICES ASSUME Init PROVE SessionInv
  OBVIOUS
<1>1. UploadInv
  BY UploadInit
<1>2. \A r \in Reqs : req[r] = None
  BY DEF Init
<1>3. SlotsInUse = 0
  <2>1. {r \in Reqs : req[r] # None /\ req[r].pc # "slot"} = {}
    BY <1>2
  <2> QED
    BY <2>1, FS_EmptySet DEF SlotsInUse
<1>4. TypeOK
  <2>1. N \in Nat /\ MaxPatches \in Nat /\ Shaped
    BY <1>1, UploadAssumption DEF UploadAssumption, UploadInv
  <2>2. /\ offset \in [Uploads -> (0..N) \cup {None}]
        /\ patches \in [Uploads -> 0..MaxPatches]
        /\ slots \in 1..Slots /\ SlotsInUse <= slots
        /\ faults \in Nat /\ readFaults \in Nat
    BY <1>3, <2>1 DEF Init
  <2> QED
    BY <2>1, <2>2 DEF TypeOK, Shaped
<1>5. Sessions
  BY <1>2 DEF Init, Sessions, SessionOK, RequestOK, Apart
<1>6. Kept /\ Clean
  BY <1>2 DEF Init, Kept, KeptAt, Intact, Clean, Answered, At, Appends
<1> QED
  BY <1>1, <1>4, <1>5, <1>6 DEF SessionInv

\* The requests of the clients.
LEMMA GroundClients ==
    ASSUME SessionInv, Shaped', slots' = slots, NEW u \in Uploads,
           \/ Begin(u) \/ Expire(u)
           \/ \E r \in Reqs : BeginMonolithic(u, r) \/ SendPatch(u, r) \/ SendPut(u, r)
    PROVE  Ground'
<1>t. Shaped /\ TypeOK /\ faults \in Nat /\ offset \in [Uploads -> (0..N) \cup {None}]
  BY Numbers DEF TypeOK
<1>1. CASE Begin(u)
  <2>1. client[u] = "new" /\ offset' = [offset EXCEPT ![u] = 0]
        /\ client' = [client EXCEPT ![u] = "open"]
        /\ UNCHANGED <<staged, acked, slots, faults, readFaults>> /\ req' = req
    BY <1>1 DEF Begin, faultVars
  <2> QED
    BY <2>1, BeginStep
<1>2. CASE Expire(u)
  <2>1. faults' # 0 /\ UNCHANGED <<staged, acked, client, req, slots, readFaults>>
    BY <1>2, <1>t DEF Expire, Fault, clientVars
  <2>2. \A v \in Uploads : offset'[v] \in {offset[v], None}
    BY <1>2, <1>t DEF Expire
  <2> QED
    BY <2>1, <2>2, ExpireStep
<1>3. ASSUME NEW r \in Reqs, BeginMonolithic(u, r) PROVE Ground'
  <2>1. PICK kind \in {"PATCH", "PUT", "POST"}, off \in 0..N, to \in 0..N :
          /\ Arrive(r, u, kind, off, to)
          /\ \/ kind = "POST" /\ BeginMonolithic(u, r)
             \/ kind = "PATCH" /\ SendPatch(u, r) /\ off = acked[u] /\ off < to
             \/ kind = "PUT" /\ SendPut(u, r)
    BY <1>3, <1>t, ClientTypes
  <2>2. client[u] = "new" /\ offset' = [offset EXCEPT ![u] = 0]
        /\ client' = [client EXCEPT ![u] = "finishing"]
        /\ UNCHANGED <<staged, acked, slots, faults, readFaults>>
    BY <1>3 DEF BeginMonolithic, faultVars
  <2>3. kind = "POST"
    BY <2>1, <2>2 DEF SendPatch, SendPut
  <2>4. /\ \A q \in Reqs \ {r} : req'[q] = req[q]
        /\ req[r] = None /\ req'[r].u = u /\ req'[r].kind = "POST" /\ req'[r].pc = "slot"
    BY <1>t, <2>1, <2>3, ArriveFacts
  <2> QED
    BY <2>2, <2>4, BeginStep
<1> QED
  BY <1>1, <1>2, <1>3, SendStep

\* The steps of a request that touch neither session nor upload object.
LEMMA GroundQuiet ==
    ASSUME SessionInv, Shaped', slots' = slots, NEW r \in Reqs,
           Acquire(r) \/ Verify(r) \/ StoreBlob(r)
    PROVE  Ground'
<1>t. Shaped /\ TypeOK /\ faults \in Nat /\ RequestOK(r)
  BY Numbers DEF TypeOK, SessionInv, Sessions
<1>u. /\ UNCHANGED <<offset, staged, acked, client, slots>> /\ readFaults' = readFaults
      /\ faults' = 0 => faults = 0
  <2>1. UNCHANGED <<offset, staged, acked, client, slots>>
    BY DEF Acquire, Verify, StoreBlob, storeVars, clientVars
  <2>2. Fault \/ NoFault
    BY DEF Acquire, Verify, StoreBlob, NoFault
  <2> QED
    BY <1>t, <2>1, <2>2 DEF Fault, NoFault, faultVars
<1>1. CASE Acquire(r)
  <2>1. req[r] # None /\ req[r].pc = "slot"
    BY <1>1 DEF Acquire, At
  <2>2. CASE req[r].kind = "PATCH"
    <3>1. Works(r, "cas")
      BY <1>1, <1>t, <2>1, <2>2, GotoFacts DEF Acquire
    <3> QED
      BY <1>u, <2>1, <2>2, <3>1, CalmStep
  <2>3. CASE req[r].kind # "PATCH"
    <3>1. Works(r, "read")
      BY <1>1, <1>t, <2>1, <2>3, GotoFacts DEF Acquire
    <3> QED
      BY <1>u, <2>1, <2>3, <3>1, CalmStep
  <2> QED
    BY <2>2, <2>3
<1>2. CASE Verify(r)
  <2>1. req[r] # None /\ req[r].pc = "verify"
    BY <1>2 DEF Verify, At
  <2>2. req[r].kind # "PATCH"
    BY <1>t, <2>1 DEF RequestOK
  <2>3. Works(r, "store") \/ Works(r, "drop")
    <3>1. CASE DigestMatches(r)
      BY <1>2, <1>t, <2>1, <3>1, AnswerFacts DEF Verify
    <3>2. CASE ~DigestMatches(r)
      BY <1>2, <1>t, <2>1, <3>2, AnswerFacts DEF Verify
    <3> QED
      BY <3>1, <3>2
  <2> QED
    BY <1>u, <2>1, <2>2, <2>3, CalmStep
<1>3. CASE StoreBlob(r)
  <2>1. req[r] # None /\ req[r].pc = "store"
    BY <1>3 DEF StoreBlob, At
  <2>2. req[r].kind # "PATCH"
    BY <1>t, <2>1 DEF RequestOK
  <2>3. Goto(r, "drop") \/ req' = [req EXCEPT ![r].pc = "drop", ![r].answer = "400"]
    BY <1>3 DEF StoreBlob
  <2>4. Works(r, "drop")
    BY <1>t, <2>1, <2>3, GotoFacts, AnswerFacts
  <2> QED
    BY <1>u, <2>1, <2>2, <2>4, CalmStep
<1> QED
  BY <1>1, <1>2, <1>3

LEMMA GroundCompare ==
    ASSUME SessionInv, Shaped', slots' = slots, NEW r \in Reqs, CompareAndSet(r)
    PROVE  Ground'
<1>t. Shaped /\ TypeOK /\ faults \in Nat
  BY Numbers DEF TypeOK
<1>a. At(r, "cas") /\ req[r] # None /\ req[r].pc = "cas"
  BY DEF CompareAndSet, At
<1>u. UNCHANGED <<staged, acked, client, slots>>
  BY DEF CompareAndSet, clientVars
<1> DEFINE advanced == [offset EXCEPT ![req[r].u] = req[r].to]
<1>1. CASE InOrder(r) /\ offset' = advanced /\ Goto(r, "read") /\ NoFault
  <2>1. Works(r, "read")
    BY <1>1, <1>a, <1>t, GotoFacts
  <2>2. faults' = faults /\ readFaults' = readFaults
    BY <1>1 DEF NoFault, faultVars
  <2> QED
    BY <1>1, <1>a, <1>u, <2>1, <2>2, AdvanceStep
<1>2. CASE UNCHANGED offset /\ Return(r) /\ (NoFault \/ Fault)
  <2>1. Ends(r)
    BY <1>2, <1>t, ReturnFacts
  <2>2. readFaults' = readFaults /\ (faults' = 0 => faults = 0)
    BY <1>2, <1>t DEF NoFault, Fault, faultVars
  <2> QED
    BY <1>2, <1>a, <1>u, <2>1, <2>2, CalmStep
<1>3. CASE InOrder(r) /\ offset' = advanced /\ Return(r) /\ Fault
  <2>1. Ends(r)
    BY <1>3, <1>t, ReturnFacts
  <2>2. readFaults' = readFaults /\ faults' # 0
    BY <1>3, <1>t DEF Fault
  <2> QED
    BY <1>3, <1>a, <1>u, <2>1, <2>2, AdvanceStep
<1> QED
  BY <1>1, <1>2, <1>3 DEF CompareAndSet

LEMMA GroundRead ==
    ASSUME SessionInv, Shaped', slots' = slots, NEW r \in Reqs, Read(r)
    PROVE  Ground'
<1>t. /\ Shaped /\ TypeOK /\ faults \in Nat /\ readFaults \in Nat
      /\ staged \in [Uploads -> Files] /\ RequestOK(r)
  BY Numbers DEF TypeOK, SessionInv, Sessions
<1>a. req[r] # None /\ req[r].pc = "read"
  BY DEF Read, At
<1>w. PICK w \in Uploads : w = req[r].u
  BY <1>a, <1>t, Fields
<1>u. UNCHANGED <<offset, staged, acked, client, slots>>
  BY DEF Read, storeVars, clientVars
<1> DEFINE next == IF req[r].kind = "PATCH" THEN "write" ELSE "verify"
<1>1. CASE /\ req' = [req EXCEPT ![r].pc = next, ![r].buf = staged[req[r].u]]
           /\ NoFault
  <2>1. Works(r, next) /\ req'[r].buf = staged[w]
    BY <1>1, <1>a, <1>t, <1>w, BufferFacts
  <2>2. faults' = faults /\ readFaults' = readFaults
    BY <1>1 DEF NoFault, faultVars
  <2> QED
    BY <1>a, <1>u, <1>w, <2>1, <2>2, CalmStep
<1>2. CASE /\ readFaults' = readFaults + 1 /\ UNCHANGED faults
           /\ req' = [req EXCEPT ![r].pc = next]
  <2>1. Goto(r, next)
    BY <1>2 DEF Goto
  <2>2. Works(r, next)
    BY <1>a, <1>t, <2>1, GotoFacts
  <2>3. readFaults' # 0 /\ faults' = faults
    BY <1>2, <1>t
  <2> QED
    BY <1>a, <1>u, <2>2, <2>3, CalmStep
<1>3. CASE /\ IF req[r].kind = "PATCH" THEN Return(r)
              ELSE req' = [req EXCEPT ![r].pc = "drop", ![r].answer = "400"]
           /\ Fault
  <2>1. readFaults' = readFaults /\ faults' # 0
    BY <1>3, <1>t DEF Fault
  <2>2. CASE req[r].kind = "PATCH"
    <3>1. Ends(r)
      BY <1>3, <1>t, <2>2, ReturnFacts
    <3> QED
      BY <1>a, <1>u, <2>1, <3>1, CalmStep
  <2>3. CASE req[r].kind # "PATCH"
    <3>1. Works(r, "drop")
      BY <1>3, <1>a, <1>t, <2>3, AnswerFacts
    <3> QED
      BY <1>a, <1>u, <2>1, <2>3, <3>1, CalmStep
  <2> QED
    BY <2>2, <2>3
<1> QED
  BY <1>1, <1>2, <1>3 DEF Read

LEMMA SessionNext == SessionInv /\ [Next]_vars => SessionInv'
<1> SUFFICES ASSUME SessionInv, [Next]_vars PROVE SessionInv'
  OBVIOUS
<1>1. UploadInv' /\ Shaped'
  BY UploadNext DEF SessionInv, UploadInv
<1>2. TypeOK'
  BY <1>1, TypeStep DEF SessionInv
<1>3. slots' = slots
  BY DEF Next, vars
<1>4. Ground'
  <2>1. CASE UNCHANGED vars
    <3>1. /\ UNCHANGED <<staged, acked, client, req, slots, readFaults>>
          /\ offset' = offset /\ faults' = faults
      BY <2>1 DEF vars, storeVars, clientVars, faultVars
    <3> QED
      BY <1>1, <3>1, ExpireStep
  <2>2. CASE Next
    BY <1>1, <1>3, <2>2, GroundClients, GroundQuiet, GroundCompare, GroundRead,
       ShedStep, WriteStep, DropStep, AnswerStep DEF Next, Step
  <2> QED
    BY <2>1, <2>2
<1> QED
  BY <1>1, <1>2, <1>4 DEF SessionInv, Ground

LEMMA SessionInvariance == Spec => []SessionInv
  BY SessionInit, SessionNext, PTL DEF Spec

(***************************************************************************)
(* The sessions, the upload objects and the requests keep their shape, and  *)
(* no more requests are past acquireUploadSlot than the handler has slots.  *)
(***************************************************************************)
THEOREM TypeCorrect == Spec => []TypeOK
<1>1. SessionInv => TypeOK
  BY DEF SessionInv
<1> QED
  BY <1>1, SessionInvariance, PTL

(***************************************************************************)
(* Until a read of the upload object fails, the bytes WriteChunk            *)
(* acknowledged are in the upload object until the upload is finished,      *)
(* however many PATCH requests are sent again and overlap.                  *)
(***************************************************************************)
THEOREM AckedStaged == Spec => []AckedBytesStaged
<1>1. SessionInv => AckedBytesStaged
  BY DEF SessionInv, Kept, KeptAt, Intact, AckedBytesStaged, AckedBytesKept
<1> QED
  BY <1>1, SessionInvariance, PTL

(***************************************************************************)
(* With one slot and no failed call but a failed read, an answered upload   *)
(* has left neither upload object nor session behind (CompleteBlob,         *)
(* abandonUpload).                                                          *)
(***************************************************************************)
THEOREM Stranding == Spec => []NothingStranded
<1>1. SessionInv => NothingStranded
  BY DEF SessionInv, Clean, Answered, NothingStranded
<1> QED
  BY <1>1, SessionInvariance, PTL

=============================================================================
