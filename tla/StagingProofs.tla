--------------------------- MODULE StagingProofs ---------------------------
(***************************************************************************)
(* Theorems about Staging, for every finite set of pushes, any manifests,   *)
(* faults, expiries and repeats.                                            *)
(*                                                                         *)
(* HeldBlobsStay is not inductive: a push that is about to delete a blob    *)
(* must be known to have decided so when nobody held it.  DeletesDecided    *)
(* says that, and rests on RefsCoverHolders: a counter that goes from one   *)
(* to zero had one holder, the push that released it.  AcceptedHolds says   *)
(* that a push in the worker's hands still has all its references.          *)
(* NothingLeaks rests on Owed (Cleanup's loop has every reference of its    *)
(* push ahead of it) and Balanced (no counter exceeds its holders, and no   *)
(* bytes are without a counter, a push or a delete in progress).            *)
(***************************************************************************)
EXTENDS Staging, FiniteSetTheorems, TLAPS

Excused(p, d) == <<p, d>> \in raced \/ d \in miscounted

DeletesDecided ==
    \A q \in Pushes : pc[q] = "delete" =>
        \A p \in Pushes : Head(todo[q]) \in holds[p] => Excused(p, Head(todo[q]))

AcceptedHolds ==
    \A p \in Pushes :
        pc[p] \in {"check", "assemble", "gate", "queued", "localize"} /\ repeats[p] = 0
            => Elements(Required(p)) \subseteq holds[p]

\* The part about counters and bytes.
Counted == RefsCoverHolders /\ HeldBlobsStay /\ DeletesDecided

\* The inductive invariant.
Inv == TypeOK /\ Counted /\ AcceptedHolds

-----------------------------------------------------------------------------
\* The digests a manifest requires, and the order Cleanup visits them in.
LEMMA ManifestType ==
    ASSUME NEW p \in Pushes
    PROVE  Required(p) \in Seq(Digests) /\ CleanupOrder(p) \in Seq(Digests)
<1>1. LayerDigests[p] \in Seq(Digests) /\ ConfigOf(p) \in Seq(Digests)
  BY StagingAssumption DEF StagingAssumption, ConfigOf
<1> QED
  BY <1>1 DEF Required, CleanupOrder

\* A push moves to a label that fits the digests it has left.
LEMMA GotoType ==
    ASSUME TypeOK, NEW p \in Pushes, NEW l \in Labels, NEW s \in Seq(Digests),
           Goto(p, l, s), l \in {"mark", "inc", "delete"} => s # <<>>
    PROVE  /\ pc' \in [Pushes -> Labels]
           /\ todo' \in [Pushes -> Seq(Digests)]
           /\ \A q \in Pushes : pc'[q] \in {"mark", "inc", "delete"} => todo'[q] # <<>>
  BY DEF TypeOK, Goto

\* The first digest of a loop that is not over.
LEMMA HeadTail ==
    ASSUME TypeOK, NEW p \in Pushes, todo[p] # <<>>
    PROVE  Head(todo[p]) \in Digests /\ Tail(todo[p]) \in Seq(Digests)
  BY DEF TypeOK

Labelled ==
    /\ pc' \in [Pushes -> Labels]
    /\ todo' \in [Pushes -> Seq(Digests)]
    /\ \A q \in Pushes : pc'[q] \in {"mark", "inc", "delete"} => todo'[q] # <<>>

\* Labels and loops stay in their types.
LEMMA LabelStep ==
    ASSUME TypeOK, [Next]_vars
    PROVE  Labelled
<1> USE DEF Labelled
<1>e. <<>> \in Seq(Digests)
  OBVIOUS
<1>1. ASSUME NEW p \in Pushes, NEW d \in Digests, Put(p, d) PROVE Labelled
  <2>1. CASE Goto(p, "mark", <<d>>)
    <3>1. <<d>> \in Seq(Digests) /\ <<d>> # <<>>
      OBVIOUS
    <3> QED
      BY <2>1, <3>1, GotoType DEF Labels
  <2>2. CASE UNCHANGED <<pc, todo>>
    BY <2>2 DEF TypeOK
  <2> QED
    BY <1>1, <2>1, <2>2 DEF Put
<1>2. ASSUME NEW p \in Pushes, MarkComplete(p) PROVE Labelled
  <2>1. todo[p] \in Seq(Digests) /\ todo[p] # <<>>
    BY <1>2 DEF TypeOK, MarkComplete
  <2>2. Goto(p, "inc", todo[p]) \/ Goto(p, "upload", <<>>)
    BY <1>2 DEF MarkComplete
  <2> QED
    BY <1>e, <2>1, <2>2, GotoType DEF Labels
<1>3. ASSUME NEW p \in Pushes, IncBlobRef(p) \/ Leave(p) PROVE Labelled
  <2>1. Goto(p, "upload", <<>>) \/ Goto(p, "gone", <<>>)
    BY <1>3 DEF IncBlobRef, Incremented, Leave
  <2> QED
    BY <1>e, <2>1, GotoType DEF Labels
<1>4. ASSUME NEW p \in Pushes, SendManifest(p) \/ Gate(p) \/ Claim(p) \/ Repeat(p)
      PROVE  Labelled
  <2>1. \E l \in {"seed", "check", "queued", "release", "localize"} :
           \E s \in {Required(p), CleanupOrder(p), <<>>} : Goto(p, l, s)
    BY <1>4 DEF SendManifest, Gate, Claim, Repeat
  <2> QED
    BY <1>e, <2>1, ManifestType, GotoType DEF Labels
<1>5. ASSUME NEW p \in Pushes,
             CheckComplete(p) \/ Assemble(p) \/ SeedAttestation(p) \/ Localize(p)
      PROVE  Labelled
  <2>1. \/ \E l \in {"gone", "assemble", "release", "gate", "done", "queued"} :
             \E s \in {Required(p), CleanupOrder(p), <<>>} : Goto(p, l, s)
        \/ /\ todo[p] # <<>>
           /\ \E l \in {"check", "assemble", "seed", "localize"} : Goto(p, l, Tail(todo[p]))
    BY <1>5 DEF CheckComplete, Assemble, AssembleFailed, SeedAttestation, Localize
  <2>2. CASE \E l \in {"gone", "assemble", "release", "gate", "done", "queued"} :
             \E s \in {Required(p), CleanupOrder(p), <<>>} : Goto(p, l, s)
    BY <1>e, <2>2, ManifestType, GotoType DEF Labels
  <2>3. CASE /\ todo[p] # <<>>
             /\ \E l \in {"check", "assemble", "seed", "localize"} : Goto(p, l, Tail(todo[p]))
    BY <2>3, HeadTail, GotoType DEF Labels
  <2> QED
    BY <2>1, <2>2, <2>3
<1>6. ASSUME NEW p \in Pushes, Release(p) PROVE Labelled
  <2>1. todo[p] # <<>>
    BY <1>6 DEF Release
  <2>2. Goto(p, "delete", todo[p]) \/ Goto(p, "release", Tail(todo[p]))
    BY <1>6 DEF Release, DecBlobRef, DecideDelete
  <2>3. todo[p] \in Seq(Digests) /\ Tail(todo[p]) \in Seq(Digests)
    BY <2>1, HeadTail DEF TypeOK
  <2> QED
    BY <2>1, <2>2, <2>3, GotoType DEF Labels
<1>7. ASSUME NEW p \in Pushes, Delete(p) PROVE Labelled
  <2>1. todo[p] # <<>> /\ Goto(p, "release", Tail(todo[p]))
    BY <1>7 DEF TypeOK, Delete
  <2> QED
    BY <2>1, HeadTail, GotoType DEF Labels
<1>8. ASSUME NEW p \in Pushes, Released(p) \/ Crash(p) PROVE Labelled
  <2>1. \E l \in {"done", "queued", "gone"} : Goto(p, l, <<>>)
    BY <1>8 DEF Released, Crash
  <2> QED
    BY <1>e, <2>1, GotoType DEF Labels
<1>9. ASSUME NEW d \in Digests, Expire(d) PROVE Labelled
  BY <1>9 DEF Expire, TypeOK
<1>10. CASE UNCHANGED vars
  BY <1>10 DEF vars, TypeOK
<1> QED
  BY <1>1, <1>2, <1>3, <1>4, <1>5, <1>6, <1>7, <1>8, <1>9, <1>10 DEF Next

\* Every other variable stays in its type.
StoresTyped ==
    /\ blobs' \subseteq Digests
    /\ complete' \subseteq Digests
    /\ refs' \in [Digests -> Nat]
    /\ holds' \in [Pushes -> SUBSET Digests]
    /\ raced' \subseteq Pushes \X Digests
    /\ miscounted' \subseteq Digests

\* The stores, the counters and the history stay in their types.
LEMMA StoresStep ==
    ASSUME TypeOK, [Next]_vars
    PROVE  StoresTyped
<1> USE DEF TypeOK, StoresTyped
<1>1. ASSUME NEW p \in Pushes, NEW d \in Digests, Put(p, d) PROVE StoresTyped
  BY <1>1 DEF Put, Stay
<1>2. ASSUME NEW p \in Pushes, MarkComplete(p) PROVE StoresTyped
  <2>1. Head(todo[p]) \in Digests
    BY <1>2, HeadTail DEF MarkComplete
  <2> QED
    BY <1>2, <2>1 DEF MarkComplete, Stay
<1>3. ASSUME NEW p \in Pushes, IncBlobRef(p) PROVE StoresTyped
  <2>1. Head(todo[p]) \in Digests
    BY <1>3, HeadTail DEF IncBlobRef, Incremented
  <2>2. [refs EXCEPT ![Head(todo[p])] = @ + 1] \in [Digests -> Nat]
    BY <2>1
  <2>3. refs' \in {refs, [refs EXCEPT ![Head(todo[p])] = @ + 1]}
    BY <1>3 DEF IncBlobRef, Incremented
  <2>4. holds' \in {holds, [holds EXCEPT ![p] = @ \cup {Head(todo[p])}]}
    BY <1>3 DEF IncBlobRef, Incremented
  <2>5. raced' \in {raced, raced \cup {<<p, Head(todo[p])>>}}
    BY <1>3 DEF IncBlobRef, Incremented
  <2>6. miscounted' \in {miscounted, miscounted \cup {Head(todo[p])}}
    BY <1>3 DEF IncBlobRef, Incremented
  <2>7. refs' \in [Digests -> Nat]
    BY <2>2, <2>3
  <2>8. holds' \in [Pushes -> SUBSET Digests]
    <3>1. holds[p] \cup {Head(todo[p])} \in SUBSET Digests
      BY <2>1
    <3>2. holds \in [Pushes -> SUBSET Digests]
      OBVIOUS
    <3>3. [holds EXCEPT ![p] = holds[p] \cup {Head(todo[p])}] \in [Pushes -> SUBSET Digests]
      BY <3>1, <3>2, Zenon
    <3> QED
      BY <2>4, <3>2, <3>3
  <2>9. raced' \subseteq Pushes \X Digests
    BY <2>1, <2>5
  <2> QED
    BY <1>3, <2>1, <2>6, <2>7, <2>8, <2>9 DEF IncBlobRef, Incremented
<1>4. ASSUME NEW p \in Pushes, Release(p) PROVE StoresTyped
  <2>1. Head(todo[p]) \in Digests
    BY <1>4, HeadTail DEF Release
  <2>2. [refs EXCEPT ![Head(todo[p])] = IF @ = 0 THEN 0 ELSE @ - 1] \in [Digests -> Nat]
    BY <2>1
  <2>3. refs[Head(todo[p])] > 0 =>
            [refs EXCEPT ![Head(todo[p])] = @ - 1] \in [Digests -> Nat]
    BY <2>1
  <2>4. refs' \in [Digests -> Nat]
    BY <1>4, <2>2, <2>3 DEF Release, DecBlobRef
  <2> QED
    BY <1>4, <2>1, <2>4 DEF Release
<1>5. ASSUME NEW p \in Pushes, Delete(p) \/ Released(p) \/ Repeat(p) \/ Gate(p) \/ Claim(p)
                                \/ SendManifest(p) \/ Assemble(p) \/ Localize(p)
      PROVE  StoresTyped
  BY <1>5 DEF Delete, Released, Repeat, Gate, Claim, SendManifest, Assemble, Localize, Stay,
              storeVars
<1>6. ASSUME NEW p \in Pushes,
             Leave(p) \/ CheckComplete(p) \/ SeedAttestation(p) \/ Crash(p)
      PROVE  StoresTyped
  <2>1. /\ holds' \in {holds, [holds EXCEPT ![p] = {}]}
        /\ UNCHANGED <<storeVars, raced, miscounted>>
    BY <1>6 DEF Leave, CheckComplete, SeedAttestation, Crash
  <2> QED
    BY <2>1 DEF storeVars
<1>7. ASSUME NEW d \in Digests, Expire(d) PROVE StoresTyped
  <2>1. [refs EXCEPT ![d] = 0] \in [Digests -> Nat]
    OBVIOUS
  <2>2. refs' \in {refs, [refs EXCEPT ![d] = 0]} /\ complete' \subseteq complete
    BY <1>7 DEF Expire
  <2> QED
    BY <1>7, <2>1, <2>2 DEF Expire, Stay
<1>8. CASE UNCHANGED vars
  BY <1>8 DEF vars, storeVars
<1> QED
  BY <1>1, <1>2, <1>3, <1>4, <1>5, <1>6, <1>7, <1>8 DEF Next

\* The bounded counters stay natural numbers, and repeats only grow.
LEMMA BoundsStep ==
    ASSUME TypeOK, [Next]_vars
    PROVE  /\ faults' \in Nat /\ expiries' \in Nat /\ repeats' \in [Pushes -> Nat]
           /\ faults <= faults' /\ expiries <= expiries'
           /\ \A p \in Pushes : repeats'[p] >= repeats[p]
<1>1. Fault \/ NoFault
        \/ (\E d \in Digests : Expire(d)) \/ (\E p \in Pushes : Repeat(p))
  BY DEF Next, Put, MarkComplete, IncBlobRef, Incremented, Leave, SendManifest,
         CheckComplete, Assemble,
         SeedAttestation, Gate, Claim, Localize, Release, Delete, Released, Crash, vars,
         NoFault
<1>2. CASE Fault \/ NoFault \/ \E d \in Digests : Expire(d)
  BY <1>2 DEF TypeOK, Fault, NoFault, Expire, boundVars
<1>3. CASE \E p \in Pushes : Repeat(p)
  BY <1>3 DEF TypeOK, Repeat
<1> QED
  BY <1>1, <1>2, <1>3

\* Type correctness is preserved.
LEMMA TypeStep ==
    ASSUME TypeOK, [Next]_vars
    PROVE  TypeOK'
  BY LabelStep, StoresStep, BoundsStep DEF TypeOK, Labelled, StoresTyped

-----------------------------------------------------------------------------
(***************************************************************************)
(* A quiet step touches no counter, removes no bytes, decides no delete and *)
(* takes no reference.                                                      *)
(***************************************************************************)
Quiet ==
    /\ blobs \subseteq blobs'
    /\ refs' = refs
    /\ \A p \in Pushes : holds'[p] \subseteq holds[p]
    /\ UNCHANGED <<raced, miscounted>>
    /\ \A q \in Pushes : pc'[q] = "delete" => pc[q] = "delete" /\ todo'[q] = todo[q]

\* Holders are pushes, of which there are finitely many.
LEMMA HoldersFinite ==
    ASSUME NEW d
    PROVE  IsFiniteSet(Holders(d)) /\ Cardinality(Holders(d)) \in Nat
<1>1. Holders(d) \subseteq Pushes /\ IsFiniteSet(Pushes)
  BY StagingAssumption DEF Holders, StagingAssumption
<1> QED
  BY <1>1, FS_Subset, FS_CardinalityType

\* Fewer holders are covered by the same counter.
LEMMA FewerHolders ==
    ASSUME NEW S, IsFiniteSet(S), NEW T \in SUBSET S
    PROVE  Cardinality(T) <= Cardinality(S) /\ Cardinality(T) \in Nat
  BY FS_Subset, FS_CardinalityType

\* A quiet step keeps the counted part of the invariant.
LEMMA QuietStep ==
    ASSUME TypeOK, TypeOK', Counted, Quiet
    PROVE  Counted'
<1>1. RefsCoverHolders'
  <2> SUFFICES ASSUME NEW d \in Digests, d \notin miscounted', refs'[d] # 0
               PROVE  refs'[d] >= Cardinality(Holders(d)')
    BY DEF RefsCoverHolders, Holders
  <2>1. refs[d] >= Cardinality(Holders(d)) /\ refs[d] \in Nat
    BY DEF Counted, RefsCoverHolders, Quiet, TypeOK
  <2>2. Holders(d)' \subseteq Holders(d)
    BY DEF Holders, Quiet
  <2>3. /\ Cardinality(Holders(d)') <= Cardinality(Holders(d))
        /\ Cardinality(Holders(d)') \in Nat
    BY <2>2, HoldersFinite, FewerHolders
  <2> QED
    BY <2>1, <2>3, HoldersFinite DEF Quiet
<1>2. HeldBlobsStay' /\ DeletesDecided'
  BY DEF Counted, HeldBlobsStay, DeletesDecided, Excused, Quiet
<1> QED
  BY <1>1, <1>2 DEF Counted

-----------------------------------------------------------------------------
(***************************************************************************)
(* The four steps that are not quiet.                                       *)
(***************************************************************************)

\* A reference is taken: the counter covers one more holder, unless it
\* restarted, and a delete already decided is on record.
LEMMA IncStep ==
    ASSUME TypeOK, TypeOK', Counted, NEW p \in Pushes, IncBlobRef(p)
    PROVE  Counted'
<1> DEFINE d == Head(todo[p])
<1>1. d \in Digests /\ todo[p] # <<>>
  BY HeadTail DEF IncBlobRef, Incremented, TypeOK
<1>2. /\ pc' = [pc EXCEPT ![p] = "upload"]
      /\ todo' = [todo EXCEPT ![p] = <<>>]
      /\ UNCHANGED blobs
  BY DEF IncBlobRef, Incremented, Goto
<1>3. /\ refs' \in {refs, [refs EXCEPT ![d] = @ + 1]}
      /\ holds' \in {holds, [holds EXCEPT ![p] = @ \cup {d}]}
      /\ holds' # holds => refs' = [refs EXCEPT ![d] = @ + 1]
      /\ holds' # holds => (d \notin blobs \/ DeletePending(d) => <<p, d>> \in raced')
      /\ raced \subseteq raced'
      /\ miscounted' = IF refs' # refs /\ refs[d] = 0 /\ Holders(d) # {}
                       THEN miscounted \cup {d} ELSE miscounted
  BY DEF IncBlobRef, Incremented
<1>4. /\ \A q \in Pushes : q # p => holds'[q] = holds[q]
      /\ holds'[p] = holds[p] \/ (holds' # holds /\ holds'[p] = holds[p] \cup {d})
  BY <1>3 DEF TypeOK
<1>5. RefsCoverHolders'
  <2> SUFFICES ASSUME NEW e \in Digests, e \notin miscounted', refs'[e] # 0
               PROVE  refs'[e] >= Cardinality(Holders(e)')
    BY DEF RefsCoverHolders, Holders
  <2>1. e \notin miscounted /\ refs[e] \in Nat
    BY <1>3 DEF TypeOK
  <2>2. refs[e] = 0 \/ refs[e] >= Cardinality(Holders(e))
    BY <2>1 DEF Counted, RefsCoverHolders
  <2>3. IsFiniteSet(Holders(e)) /\ Cardinality(Holders(e)) \in Nat
    BY HoldersFinite
  <2>4. CASE e # d
    <3>1. refs'[e] = refs[e]
      BY <1>3, <2>4 DEF TypeOK
    <3>2. Holders(e)' = Holders(e)
      BY <1>4, <2>4 DEF Holders
    <3> QED
      BY <2>2, <3>1, <3>2
  <2>5. CASE e = d /\ refs' = refs
    <3>1. [refs EXCEPT ![d] = @ + 1] # refs
      BY <1>1 DEF TypeOK
    <3>2. holds' = holds
      BY <1>3, <2>5, <3>1
    <3>3. Holders(e)' = Holders(e)
      BY <3>2 DEF Holders
    <3> QED
      BY <2>2, <2>5, <3>3
  <2>6. CASE e = d /\ refs' # refs
    <3>1. refs'[e] = refs[e] + 1
      BY <1>3, <2>6 DEF TypeOK
    <3>2. Holders(e)' \subseteq Holders(e) \cup {p}
      BY <1>4 DEF Holders
    <3>3. /\ IsFiniteSet(Holders(e) \cup {p})
          /\ Cardinality(Holders(e) \cup {p}) <= Cardinality(Holders(e)) + 1
      BY <2>3, FS_AddElement
    <3>4. /\ Cardinality(Holders(e)') <= Cardinality(Holders(e) \cup {p})
          /\ Cardinality(Holders(e)') \in Nat
      BY <3>2, <3>3, FewerHolders
    <3>5. Cardinality(Holders(e) \cup {p}) \in Nat
      BY <3>3, FS_CardinalityType
    <3>6. refs[e] >= Cardinality(Holders(e))
      <4>1. CASE refs[e] = 0
        <5>1. Holders(e) = {}
          BY <1>3, <2>6, <4>1
        <5> QED
          BY <4>1, <5>1, FS_EmptySet
      <4> QED
        BY <2>2, <4>1
    <3> QED
      BY <2>1, <2>3, <3>1, <3>3, <3>4, <3>5, <3>6
  <2> QED
    BY <2>4, <2>5, <2>6
<1>6. HeldBlobsStay'
  <2> SUFFICES ASSUME NEW q \in Pushes, NEW e \in holds'[q]
               PROVE  e \in blobs' \/ <<q, e>> \in raced' \/ e \in miscounted'
    BY DEF HeldBlobsStay
  <2>1. CASE e \in holds[q]
    BY <1>2, <1>3, <2>1 DEF Counted, HeldBlobsStay
  <2>2. CASE e \notin holds[q]
    <3>1. q = p /\ e = d /\ holds' # holds
      BY <1>4, <2>2
    <3> QED
      BY <1>2, <1>3, <3>1
  <2> QED
    BY <2>1, <2>2
<1>7. DeletesDecided'
  <2> SUFFICES ASSUME NEW q \in Pushes, pc'[q] = "delete", NEW r \in Pushes,
                      Head(todo'[q]) \in holds'[r]
               PROVE  Excused(r, Head(todo[q]))' /\ todo'[q] = todo[q]
    BY DEF DeletesDecided, Excused
  <2>1. q # p /\ pc[q] = "delete" /\ todo'[q] = todo[q]
    BY <1>2 DEF TypeOK
  <2>2. CASE Head(todo[q]) \in holds[r]
    BY <1>3, <2>1, <2>2 DEF Counted, DeletesDecided, Excused
  <2>3. CASE Head(todo[q]) \notin holds[r]
    <3>1. r = p /\ Head(todo[q]) = d /\ holds' # holds
      BY <1>4, <2>1, <2>3
    <3>2. DeletePending(d)
      BY <2>1, <3>1 DEF DeletePending
    <3> QED
      BY <1>3, <2>1, <3>1, <3>2 DEF Excused
  <2> QED
    BY <2>1, <2>2, <2>3
<1> QED
  BY <1>5, <1>6, <1>7 DEF Counted

\* A reference is released: the counter covers the holders that remain, and
\* one that reached zero has none left.
LEMMA ReleaseStep ==
    ASSUME TypeOK, TypeOK', Counted, NEW p \in Pushes, Release(p)
    PROVE  Counted'
<1>0. PICK d \in Digests : d = Head(todo[p])
  BY HeadTail DEF Release
<1>1. d \in Digests /\ todo[p] # <<>> /\ pc[p] = "release" /\ refs[d] \in Nat
  BY DEF Release, TypeOK
<1>2. /\ holds' = [holds EXCEPT ![p] = @ \ {d}]
      /\ miscounted' = IF refs' # refs /\ d \notin holds[p]
                       THEN miscounted \cup {d} ELSE miscounted
      /\ UNCHANGED <<blobs, raced>>
  BY <1>0 DEF Release
<1>3. \/ refs' = refs
      \/ refs[d] > 0 /\ refs' = [refs EXCEPT ![d] = @ - 1]
  <2>1. CASE DecBlobRef(p, d)
    BY <2>1 DEF DecBlobRef
  <2>2. CASE refs' \in {refs, [refs EXCEPT ![d] = IF @ = 0 THEN 0 ELSE @ - 1]}
    <3>1. refs[d] = 0 => [refs EXCEPT ![d] = IF @ = 0 THEN 0 ELSE @ - 1] = refs
      BY <1>1 DEF TypeOK
    <3>2. refs[d] # 0 => refs[d] > 0
                 /\ [refs EXCEPT ![d] = IF @ = 0 THEN 0 ELSE @ - 1] = [refs EXCEPT ![d] = @ - 1]
      BY <1>1
    <3> QED
      BY <2>2, <3>1, <3>2
  <2> QED
    BY <1>0, <2>1, <2>2 DEF Release
<1>4. \/ Goto(p, "release", Tail(todo[p]))
      \/ /\ Goto(p, "delete", todo[p])
         /\ refs[d] - 1 = 0 /\ refs[d] > 0 /\ refs' = [refs EXCEPT ![d] = @ - 1]
  BY <1>0 DEF Release, DecBlobRef, DecideDelete
<1>5. /\ \A q \in Pushes : q # p => holds'[q] = holds[q]
      /\ holds'[p] = holds[p] \ {d}
  BY <1>2 DEF TypeOK
<1>6. Holders(d)' = Holders(d) \ {p} /\ \A e : e # d => Holders(e)' = Holders(e)
  BY <1>5 DEF Holders
<1>7. /\ IsFiniteSet(Holders(d)) /\ Cardinality(Holders(d)) \in Nat
      /\ Cardinality(Holders(d) \ {p}) =
            IF p \in Holders(d) THEN Cardinality(Holders(d)) - 1 ELSE Cardinality(Holders(d))
  BY HoldersFinite, FS_RemoveElement
<1>8. RefsCoverHolders'
  <2> SUFFICES ASSUME NEW e \in Digests, e \notin miscounted', refs'[e] # 0
               PROVE  refs'[e] >= Cardinality(Holders(e)')
    BY DEF RefsCoverHolders, Holders
  <2>1. e \notin miscounted
    BY <1>2
  <2>2. refs[e] = 0 \/ refs[e] >= Cardinality(Holders(e))
    BY <2>1 DEF Counted, RefsCoverHolders
  <2>3. CASE e # d
    BY <1>3, <1>6, <2>2, <2>3 DEF TypeOK
  <2>4. e = d => /\ Cardinality(Holders(e)') = Cardinality(Holders(d) \ {p})
                 /\ Cardinality(Holders(e)) = Cardinality(Holders(d))
    BY <1>6 DEF Holders
  <2>5. CASE e = d /\ refs' = refs
    BY <1>1, <1>7, <2>2, <2>5, <2>4
  <2>6. CASE e = d /\ refs' # refs
    <3>1. refs'[d] = refs[d] - 1 /\ refs[d] > 0
      BY <1>1, <1>3, <2>6 DEF TypeOK
    <3>2. p \in Holders(d)
      BY <1>2, <2>6 DEF Holders
    <3> QED
      BY <1>1, <1>7, <2>2, <2>6, <2>4, <3>1, <3>2
  <2> QED
    BY <2>3, <2>5, <2>6
<1>9. HeldBlobsStay'
  BY <1>2, <1>5 DEF Counted, HeldBlobsStay
<1>10. DeletesDecided'
  <2> SUFFICES ASSUME NEW q \in Pushes, pc'[q] = "delete", NEW r \in Pushes,
                      Head(todo'[q]) \in holds'[r]
               PROVE  <<r, Head(todo'[q])>> \in raced' \/ Head(todo'[q]) \in miscounted'
    BY DEF DeletesDecided, Excused
  <2>1. CASE q # p
    <3>1. pc[q] = "delete" /\ todo'[q] = todo[q]
      BY <1>4, <2>1 DEF TypeOK, Goto
    <3>2. Head(todo[q]) \in holds[r]
      BY <1>5, <3>1
    <3> QED
      BY <1>2, <3>1, <3>2 DEF Counted, DeletesDecided, Excused
  <2>2. CASE q = p
    <3>1. /\ todo'[p] = todo[p] /\ refs[d] = 1 /\ refs' # refs
      BY <1>1, <1>4, <2>2 DEF TypeOK, Goto
    <3>2. CASE p \notin Holders(d)
      BY <1>0, <1>2, <2>2, <3>1, <3>2 DEF Holders
    <3>3. CASE p \in Holders(d) /\ d \notin miscounted
      <4>1. Cardinality(Holders(d)) <= 1
        BY <1>1, <1>7, <3>1, <3>3 DEF Counted, RefsCoverHolders
      <4>2. Cardinality(Holders(d) \ {p}) = 0
        <5>1. Cardinality(Holders(d) \ {p}) = Cardinality(Holders(d)) - 1
          BY <1>7, <3>3
        <5>2. IsFiniteSet(Holders(d) \ {p}) /\ Cardinality(Holders(d) \ {p}) \in Nat
          BY <1>7, FS_RemoveElement, FS_CardinalityType
        <5> QED
          BY <1>7, <4>1, <5>1, <5>2
      <4>3. Holders(d) \ {p} = {}
        BY <1>7, <4>2, FS_RemoveElement, FS_EmptySet
      <4>4. r \in Holders(d)'
        BY <1>0, <2>2, <3>1 DEF Holders
      <4> QED
        BY <1>6, <4>3, <4>4
    <3> QED
      BY <1>0, <1>2, <2>2, <3>1, <3>2, <3>3
  <2> QED
    BY <2>1, <2>2
<1> QED
  BY <1>8, <1>9, <1>10 DEF Counted

\* Bytes are deleted: whoever holds the digest is excused by DeletesDecided.
LEMMA DeleteStep ==
    ASSUME TypeOK, TypeOK', Counted, NEW p \in Pushes, Delete(p)
    PROVE  Counted'
<1>1. /\ pc[p] = "delete"
      /\ blobs \ {Head(todo[p])} \subseteq blobs'
      /\ pc' = [pc EXCEPT ![p] = "release"]
      /\ todo' = [todo EXCEPT ![p] = Tail(todo[p])]
      /\ UNCHANGED <<refs, holds, raced, miscounted>>
  BY DEF Delete, Goto, Stay
<1>2. RefsCoverHolders'
  BY <1>1 DEF Counted, RefsCoverHolders, Holders
<1>3. HeldBlobsStay'
  BY <1>1 DEF Counted, HeldBlobsStay, DeletesDecided, Excused
<1>4. DeletesDecided'
  BY <1>1 DEF Counted, DeletesDecided, Excused, TypeOK
<1> QED
  BY <1>2, <1>3, <1>4 DEF Counted

\* A key reaches its TTL: an absent counter deletes nothing.
LEMMA ExpireStep ==
    ASSUME TypeOK, TypeOK', Counted, NEW d \in Digests, Expire(d)
    PROVE  Counted'
<1>1. UNCHANGED <<blobs, pc, todo, holds, raced, miscounted>>
  BY DEF Expire, Stay
<1>2. refs' = refs \/ refs' = [refs EXCEPT ![d] = 0]
  BY DEF Expire
<1>3. RefsCoverHolders'
  BY <1>1, <1>2 DEF Counted, RefsCoverHolders, Holders, TypeOK
<1>4. HeldBlobsStay' /\ DeletesDecided'
  BY <1>1 DEF Counted, HeldBlobsStay, DeletesDecided, Excused
<1> QED
  BY <1>3, <1>4 DEF Counted

-----------------------------------------------------------------------------
\* Which steps are quiet.
LEMMA QuietSteps ==
    ASSUME TypeOK, NEW p \in Pushes,
           \/ \E d \in Digests : Put(p, d)
           \/ MarkComplete(p) \/ Leave(p) \/ SendManifest(p) \/ CheckComplete(p)
           \/ Assemble(p) \/ SeedAttestation(p) \/ Gate(p) \/ Claim(p) \/ Localize(p)
           \/ Released(p) \/ Crash(p) \/ Repeat(p)
    PROVE  Quiet
<1>1. /\ blobs \subseteq blobs'
      /\ refs' = refs
      /\ UNCHANGED <<raced, miscounted>>
      /\ holds' = holds \/ holds' = [holds EXCEPT ![p] = {}]
  BY DEF Put, MarkComplete, Leave, SendManifest, CheckComplete, Assemble, SeedAttestation,
         Gate, Claim, Localize, Released, Crash, Repeat, Stay, storeVars
<1>2. \/ UNCHANGED <<pc, todo>>
      \/ \E l \in Labels \ {"delete"} : \E s : Goto(p, l, s)
  BY DEF Put, MarkComplete, Leave, SendManifest, CheckComplete, Assemble, AssembleFailed,
         SeedAttestation, Gate, Claim, Localize, Released, Crash, Repeat, Labels
<1>3. \A q \in Pushes : holds'[q] \subseteq holds[q]
  BY <1>1 DEF TypeOK
<1>4. \A q \in Pushes : pc'[q] = "delete" => pc[q] = "delete" /\ todo'[q] = todo[q]
  <2>1. CASE UNCHANGED <<pc, todo>>
    BY <2>1
  <2>2. CASE \E l \in Labels \ {"delete"} : \E s : Goto(p, l, s)
    BY <2>2 DEF Goto, TypeOK
  <2> QED
    BY <1>2, <2>1, <2>2
<1> QED
  BY <1>1, <1>3, <1>4 DEF Quiet

\* Every step keeps the counted part of the invariant.
LEMMA CountedStep ==
    ASSUME TypeOK, TypeOK', Counted, [Next]_vars
    PROVE  Counted'
<1>1. ASSUME NEW p \in Pushes, NEW d \in Digests, Put(p, d) PROVE Counted'
  BY <1>1, QuietSteps, QuietStep
<1>2. ASSUME NEW p \in Pushes,
             \/ MarkComplete(p) \/ Leave(p) \/ SendManifest(p) \/ CheckComplete(p)
             \/ Assemble(p) \/ SeedAttestation(p) \/ Gate(p) \/ Claim(p) \/ Localize(p)
             \/ Released(p) \/ Crash(p) \/ Repeat(p)
      PROVE  Counted'
  BY <1>2, QuietSteps, QuietStep
<1>3. ASSUME NEW p \in Pushes, IncBlobRef(p) \/ Release(p) \/ Delete(p) PROVE Counted'
  BY <1>3, IncStep, ReleaseStep, DeleteStep
<1>4. ASSUME NEW d \in Digests, Expire(d) PROVE Counted'
  BY <1>4, ExpireStep
<1>5. CASE UNCHANGED vars
  <2>1. Quiet
    BY <1>5 DEF Quiet, vars, storeVars
  <2> QED
    BY <2>1, QuietStep
<1> QED
  BY <1>1, <1>2, <1>3, <1>4, <1>5 DEF Next

(***************************************************************************)
(* A push between its manifest and its Cleanup keeps every reference it     *)
(* took: the label is entered with all of them, and nothing but the push's  *)
(* own release drops one.                                                   *)
(***************************************************************************)
Inside == {"check", "assemble", "gate", "queued", "localize"}

\* Every step keeps AcceptedHolds.
LEMMA AcceptedStep ==
    ASSUME TypeOK, AcceptedHolds, [Next]_vars
    PROVE  AcceptedHolds'
<1>1. SUFFICES ASSUME NEW q \in Pushes, pc'[q] \in Inside, repeats'[q] = 0
               PROVE  Elements(Required(q)) \subseteq holds'[q]
  BY DEF AcceptedHolds, Inside, Elements, Required, ConfigOf
<1>2. repeats[q] = 0
  BY <1>1, BoundsStep DEF TypeOK
<1> DEFINE Kept == pc[q] \in Inside /\ holds[q] \subseteq holds'[q]
<1>3. Kept => Elements(Required(q)) \subseteq holds'[q]
  BY <1>2 DEF AcceptedHolds, Inside
<1>4. ASSUME NEW p \in Pushes, SendManifest(p) PROVE Elements(Required(q)) \subseteq holds'[q]
  <2>1. CASE p = q
    BY <1>4, <2>1 DEF SendManifest, Stay
  <2>2. CASE p # q
    BY <1>1, <1>3, <1>4, <2>2 DEF SendManifest, Stay, Goto, TypeOK
  <2> QED
    BY <2>1, <2>2
<1>5. ASSUME NEW p \in Pushes, Repeat(p) PROVE Elements(Required(q)) \subseteq holds'[q]
  <2>1. p # q
    BY <1>1, <1>2, <1>5 DEF Repeat, TypeOK
  <2> QED
    BY <1>1, <1>3, <1>5, <2>1 DEF Repeat, Stay, Goto, TypeOK
<1>6. ASSUME NEW p \in Pushes,
             \/ (\E d \in Digests : Put(p, d)) \/ MarkComplete(p) \/ IncBlobRef(p)
             \/ Leave(p) \/ SeedAttestation(p) \/ Release(p) \/ Delete(p) \/ Released(p)
      PROVE  Elements(Required(q)) \subseteq holds'[q]
  <2>1. pc'[p] \notin Inside \/ (UNCHANGED pc /\ pc[p] \notin Inside)
    BY <1>6 DEF Put, MarkComplete, IncBlobRef, Incremented, Leave,
                 SeedAttestation, Release, DecBlobRef,
                 DecideDelete, Delete, Released, Goto, Inside, TypeOK
  <2>2. p # q
    BY <1>1, <2>1
  <2>3. pc'[q] = pc[q] /\ holds'[q] = holds[q]
    BY <1>6, <2>2 DEF Put, MarkComplete, IncBlobRef, Incremented, Leave,
                 SeedAttestation, Release,
                 DecBlobRef, DecideDelete, Delete, Released, Goto, Stay, TypeOK
  <2> QED
    BY <1>1, <1>3, <2>3
<1>7. ASSUME NEW p \in Pushes,
             CheckComplete(p) \/ Assemble(p) \/ Gate(p) \/ Claim(p) \/ Localize(p) \/ Crash(p)
      PROVE  Elements(Required(q)) \subseteq holds'[q]
  <2>1. CASE p # q
    BY <1>1, <1>3, <1>7, <2>1 DEF CheckComplete, Assemble, AssembleFailed, Gate, Claim,
                Localize, Crash, Goto, Stay, TypeOK
  <2>2. CASE p = q
    BY <1>1, <1>3, <1>7, <2>2 DEF CheckComplete, Assemble, AssembleFailed, Gate, Claim,
                Localize, Crash, Goto, Stay, Inside, TypeOK
  <2> QED
    BY <2>1, <2>2
<1>8. ASSUME NEW d \in Digests, Expire(d) PROVE Elements(Required(q)) \subseteq holds'[q]
  BY <1>1, <1>3, <1>8 DEF Expire, Stay
<1>9. CASE UNCHANGED vars
  BY <1>1, <1>3, <1>9 DEF vars
<1> QED
  BY <1>4, <1>5, <1>6, <1>7, <1>8, <1>9 DEF Next

-----------------------------------------------------------------------------
\* Nothing is staged and nothing is held at first.
LEMMA InvInit == Init => Inv
<1> SUFFICES ASSUME Init PROVE Inv
  OBVIOUS
<1>1. TypeOK
  BY DEF Init, TypeOK, Labels
<1>2. Counted
  BY DEF Init, Counted, RefsCoverHolders, HeldBlobsStay, DeletesDecided
<1>3. AcceptedHolds
  BY DEF Init, AcceptedHolds
<1> QED
  BY <1>1, <1>2, <1>3 DEF Inv

\* The inductive invariant holds in every reachable state.
THEOREM Invariance == Spec => []Inv
<1>1. Inv /\ [Next]_vars => Inv'
  BY TypeStep, CountedStep, AcceptedStep DEF Inv
<1> QED
  BY <1>1, InvInit, PTL DEF Spec

(***************************************************************************)
(* While a push holds a reference its bytes stay, except after a delete     *)
(* decided earlier or under a counter that lost count.                      *)
(***************************************************************************)
THEOREM HeldBlobsAreKept == Spec => []HeldBlobsStay
<1>1. Inv => HeldBlobsStay
  BY DEF Inv, Counted
<1> QED
  BY <1>1, Invariance, PTL

(***************************************************************************)
(* The reference counter of a digest covers its holders or is absent.       *)
(***************************************************************************)
THEOREM CountersCover == Spec => []RefsCoverHolders
<1>1. Inv => RefsCoverHolders
  BY DEF Inv, Counted
<1> QED
  BY <1>1, Invariance, PTL

(***************************************************************************)
(* A push the promotion worker owns can be rebuilt on any pod, with the     *)
(* same exceptions.                                                         *)
(***************************************************************************)
THEOREM AcceptedCanBeRebuilt == Spec => []AcceptedRebuildable
<1>1. Inv => AcceptedRebuildable
  BY DEF Inv, Counted, HeldBlobsStay, AcceptedHolds, AcceptedRebuildable
<1> QED
  BY <1>1, Invariance, PTL
-----------------------------------------------------------------------------
(***************************************************************************)
(* Nothing leaks.  Cleanup's loop is entered with every reference of its    *)
(* push ahead of it (Owed).  While nothing fails, expires or is left, a     *)
(* counter never exceeds its holders, and bytes are in the store only while *)
(* they are counted, on their way to be counted or about to be deleted.     *)
(***************************************************************************)
Owed(p) ==
    /\ holds[p] \subseteq Elements(Required(p))
    /\ pc[p] \in {"mark", "inc"} => Head(todo[p]) \in Elements(Required(p)) \ holds[p]
    /\ pc[p] = "release" => holds[p] \subseteq Elements(todo[p])
    /\ pc[p] = "delete" => holds[p] \subseteq Elements(Tail(todo[p]))
    /\ pc[p] = "done" => holds[p] = {}
    /\ pc[p] = "seed" => p \in Attestations

AllOwed == \A p \in Pushes : Owed(p)

Smooth == faults = 0 /\ expiries = 0 /\ \A p \in Pushes : pc[p] # "gone"

Attested(d) == \E p \in Attestations : d \in Elements(Required(p))

InHand(p, d) == pc[p] \in {"mark", "inc", "delete"} /\ Head(todo[p]) = d

BalancedAt(d) ==
    /\ refs[d] <= Cardinality(Holders(d))
    /\ d \in blobs => refs[d] # 0 \/ \E p \in Pushes : InHand(p, d)

Balanced == Smooth => \A d \in Digests : ~Attested(d) => BalancedAt(d)

LeakInv == Inv /\ AllOwed /\ Balanced

\* Cleanup visits the digests PutManifest required.
LEMMA SameElements ==
    ASSUME NEW p \in Pushes
    PROVE  Elements(CleanupOrder(p)) = Elements(Required(p))
<1>1. LayerDigests[p] \in Seq(Digests) /\ ConfigOf(p) \in Seq(Digests)
  BY StagingAssumption DEF StagingAssumption, ConfigOf
<1>2. ASSUME NEW s \in Seq(Digests), NEW t \in Seq(Digests)
      PROVE  Elements(s \o t) = Elements(s) \cup Elements(t)
  <2>1. ASSUME NEW e \in Elements(s) \cup Elements(t) PROVE e \in Elements(s \o t)
    <3>1. CASE e \in Elements(s)
      <4>1. PICK i \in 1..Len(s) : e = s[i]
        BY <3>1 DEF Elements
      <4>2. i \in 1..Len(s \o t) /\ (s \o t)[i] = e
        BY <4>1
      <4> QED
        BY <4>2 DEF Elements
    <3>2. CASE e \in Elements(t)
      <4>1. PICK i \in 1..Len(t) : e = t[i]
        BY <3>2 DEF Elements
      <4>2. Len(s) + i \in 1..Len(s \o t) /\ (s \o t)[Len(s) + i] = e
        BY <4>1
      <4> QED
        BY <4>2 DEF Elements
    <3> QED
      BY <2>1, <3>1, <3>2
  <2>2. ASSUME NEW e \in Elements(s \o t) PROVE e \in Elements(s) \cup Elements(t)
    <3>1. PICK i \in 1..Len(s \o t) : e = (s \o t)[i]
      BY DEF Elements
    <3>2. CASE i <= Len(s)
      BY <3>1, <3>2 DEF Elements
    <3>3. CASE i > Len(s)
      <4>1. i - Len(s) \in 1..Len(t) /\ t[i - Len(s)] = e
        BY <3>1, <3>3
      <4> QED
        BY <4>1 DEF Elements
    <3> QED
      BY <3>2, <3>3
  <2> QED
    BY <2>1, <2>2
<1>3. /\ Elements(ConfigOf(p) \o LayerDigests[p]) =
            Elements(ConfigOf(p)) \cup Elements(LayerDigests[p])
      /\ Elements(LayerDigests[p] \o ConfigOf(p)) =
            Elements(LayerDigests[p]) \cup Elements(ConfigOf(p))
  BY <1>1, <1>2
<1> QED
  BY <1>3 DEF CleanupOrder, Required

\* A loop that has visited its first digest has the others left.
LEMMA TailElements ==
    ASSUME NEW s \in Seq(Digests), s # <<>>
    PROVE  Elements(s) \subseteq {Head(s)} \cup Elements(Tail(s))
<1> SUFFICES ASSUME NEW i \in 1..Len(s), s[i] # Head(s) PROVE s[i] \in Elements(Tail(s))
  BY DEF Elements
<1>1. i # 1 /\ i - 1 \in 1..Len(Tail(s)) /\ Tail(s)[i - 1] = s[i]
  OBVIOUS
<1> QED
  BY <1>1 DEF Elements

\* Push p, and no other, moves.
Alone(p) ==
    \A q \in Pushes \ {p} : pc'[q] = pc[q] /\ todo'[q] = todo[q] /\ holds'[q] = holds[q]

LEMMA OwedAlone ==
    ASSUME AllOwed, NEW p \in Pushes, Alone(p), Owed(p)'
    PROVE  AllOwed'
<1> SUFFICES ASSUME NEW q \in Pushes, q # p PROVE Owed(q)'
  BY DEF AllOwed
<1> QED
  BY DEF AllOwed, Owed, Alone

LEMMA GotoAlone ==
    ASSUME TypeOK, NEW p \in Pushes, NEW l, NEW s, Goto(p, l, s)
    PROVE  /\ pc'[p] = l /\ todo'[p] = s
           /\ \A q \in Pushes \ {p} : pc'[q] = pc[q] /\ todo'[q] = todo[q]
  BY DEF TypeOK, Goto

\* What a push owes after each of its steps.
LEMMA OwedStep ==
    ASSUME TypeOK, AllOwed, [Next]_vars
    PROVE  AllOwed'
<1>h. holds \in [Pushes -> SUBSET Digests] /\ todo \in [Pushes -> Seq(Digests)]
  BY DEF TypeOK
<1>1. ASSUME NEW p \in Pushes, NEW d \in Digests, Put(p, d) PROVE AllOwed'
  <2>1. CASE Goto(p, "mark", <<d>>)
    <3>1. /\ pc'[p] = "mark" /\ todo'[p] = <<d>> /\ holds' = holds
          /\ d \in Elements(Required(p)) \ holds[p]
      BY <1>1, <2>1, GotoAlone DEF Put, Stay
    <3>2. Alone(p)
      BY <2>1, <3>1, GotoAlone DEF Alone
    <3>3. Owed(p)'
      BY <3>1 DEF AllOwed, Owed
    <3> QED
      BY <3>2, <3>3, OwedAlone
  <2>2. CASE UNCHANGED <<pc, todo>>
    BY <1>1, <2>2 DEF Put, Stay, AllOwed, Owed
  <2> QED
    BY <1>1, <2>1, <2>2 DEF Put
<1>2. ASSUME NEW p \in Pushes, MarkComplete(p) PROVE AllOwed'
  <2>1. pc[p] = "mark" /\ holds' = holds
        /\ (Goto(p, "inc", todo[p]) \/ Goto(p, "upload", <<>>))
    BY <1>2 DEF MarkComplete, Stay
  <2>2. Alone(p)
    BY <2>1, GotoAlone DEF Alone
  <2>3. \/ pc'[p] = "inc" /\ todo'[p] = todo[p]
        \/ pc'[p] = "upload"
    BY <2>1, GotoAlone
  <2>4. Owed(p)'
    BY <2>1, <2>3 DEF AllOwed, Owed
  <2> QED
    BY <2>2, <2>4, OwedAlone
<1>3. ASSUME NEW p \in Pushes, IncBlobRef(p) PROVE AllOwed'
  <2>1. /\ pc[p] = "inc" /\ Goto(p, "upload", <<>>)
        /\ holds' \in {holds, [holds EXCEPT ![p] = @ \cup {Head(todo[p])}]}
    BY <1>3 DEF IncBlobRef
  <2>2. Alone(p) /\ holds'[p] \subseteq holds[p] \cup {Head(todo[p])}
    BY <1>h, <2>1, GotoAlone DEF Alone
  <2>3. pc'[p] = "upload"
    BY <2>1, GotoAlone
  <2>4. Owed(p)'
    BY <2>1, <2>2, <2>3 DEF AllOwed, Owed
  <2> QED
    BY <2>2, <2>4, OwedAlone
<1>4. ASSUME NEW p \in Pushes, Leave(p) \/ Crash(p) PROVE AllOwed'
  <2>1. \/ Goto(p, "gone", <<>>) /\ holds' = [holds EXCEPT ![p] = {}]
        \/ Goto(p, "queued", <<>>) /\ holds' = holds
    BY <1>4 DEF Leave, Crash
  <2>2. Alone(p) /\ holds'[p] \subseteq holds[p]
    BY <1>h, <2>1, GotoAlone DEF Alone
  <2>3. pc'[p] \in {"gone", "queued"}
    BY <2>1, GotoAlone
  <2>4. Owed(p)'
    BY <2>2, <2>3 DEF AllOwed, Owed
  <2> QED
    BY <2>2, <2>4, OwedAlone
<1>5. ASSUME NEW p \in Pushes, NEW l \in {"release", "check", "assemble", "gate", "queued", "localize"},
             NEW s, Goto(p, l, s), holds' = holds,
             l = "release" => s = CleanupOrder(p)
      PROVE  AllOwed'
  <2>1. Alone(p) /\ pc'[p] = l /\ todo'[p] = s
    BY <1>5, GotoAlone DEF Alone
  <2>2. Owed(p)'
    <3>1. holds'[p] \subseteq Elements(Required(p))
      BY <1>5 DEF AllOwed, Owed
    <3>2. pc'[p] = "release" => holds'[p] \subseteq Elements(todo'[p])
      BY <1>5, <2>1, <3>1, SameElements
    <3> QED
      BY <2>1, <3>1, <3>2 DEF Owed
  <2> QED
    BY <2>1, <2>2, OwedAlone
<1>6. ASSUME NEW p \in Pushes, NEW l, NEW s, Goto(p, l, s), l \in {"done", "gone"},
             holds' = [holds EXCEPT ![p] = {}]
      PROVE  AllOwed'
  <2>1. Alone(p) /\ pc'[p] = l /\ holds'[p] = {}
    BY <1>6, <1>h, GotoAlone DEF Alone
  <2>2. Owed(p)'
    BY <1>6, <2>1 DEF Owed
  <2> QED
    BY <2>1, <2>2, OwedAlone
<1>7. ASSUME NEW p \in Pushes, SendManifest(p) PROVE AllOwed'
  <2>1. CASE p \in Attestations
    <3>1. Goto(p, "seed", Required(p)) /\ holds' = holds
      BY <1>7, <2>1 DEF SendManifest, Stay
    <3>2. Alone(p) /\ pc'[p] = "seed" /\ holds'[p] = holds[p]
      BY <3>1, GotoAlone DEF Alone
    <3>3. Owed(p)'
      BY <2>1, <3>2 DEF AllOwed, Owed
    <3> QED
      BY <3>2, <3>3, OwedAlone
  <2>2. CASE p \notin Attestations
    BY <1>5, <1>7, <2>2 DEF SendManifest, Stay
  <2> QED
    BY <2>1, <2>2
<1>8. ASSUME NEW p \in Pushes, CheckComplete(p) PROVE AllOwed'
  <2>1. \/ Goto(p, "check", Tail(todo[p])) /\ holds' = holds
        \/ Goto(p, "gone", <<>>) /\ holds' = [holds EXCEPT ![p] = {}]
        \/ Goto(p, "assemble", Required(p)) /\ holds' = holds
    BY <1>8 DEF CheckComplete
  <2> QED
    BY <1>5, <1>6, <2>1
<1>9. ASSUME NEW p \in Pushes, Assemble(p) \/ Gate(p) \/ Claim(p) \/ Localize(p) \/ Repeat(p)
      PROVE  AllOwed'
  <2>1. /\ holds' = holds
        /\ \/ \E l \in {"assemble", "check", "gate", "queued", "localize"} :
                 \E s \in {Tail(todo[p]), <<>>, Required(p)} : Goto(p, l, s)
           \/ Goto(p, "release", CleanupOrder(p))
    BY <1>9 DEF Assemble, AssembleFailed, Gate, Claim, Localize, Repeat, Stay
  <2> QED
    BY <1>5, <2>1
<1>10. ASSUME NEW p \in Pushes, SeedAttestation(p) PROVE AllOwed'
  <2>1. CASE Goto(p, "seed", Tail(todo[p])) /\ holds' = holds
    <3>1. Alone(p) /\ pc'[p] = "seed" /\ holds'[p] = holds[p] /\ pc[p] = "seed"
      BY <1>10, <2>1, GotoAlone DEF Alone, SeedAttestation
    <3>2. Owed(p)'
      BY <3>1 DEF AllOwed, Owed
    <3> QED
      BY <3>1, <3>2, OwedAlone
  <2>2. CASE Goto(p, "done", <<>>) /\ holds' = [holds EXCEPT ![p] = {}]
    BY <1>6, <2>2
  <2> QED
    BY <1>10, <2>1, <2>2 DEF SeedAttestation
<1>11. ASSUME NEW p \in Pushes, Release(p) PROVE AllOwed'
  <2>1. pc[p] = "release" /\ todo[p] # <<>> /\ holds' = [holds EXCEPT ![p] = @ \ {Head(todo[p])}]
    BY <1>11 DEF Release
  <2>2. Goto(p, "delete", todo[p]) \/ Goto(p, "release", Tail(todo[p]))
    BY <1>11 DEF Release, DecBlobRef, DecideDelete
  <2>3. Alone(p) /\ holds'[p] = holds[p] \ {Head(todo[p])}
    BY <1>h, <2>1, <2>2, GotoAlone DEF Alone
  <2>4. holds'[p] \subseteq Elements(Tail(todo[p]))
    <3>1. holds[p] \subseteq Elements(todo[p])
      BY <2>1 DEF AllOwed, Owed
    <3> QED
      BY <1>h, <2>1, <2>3, <3>1, TailElements
  <2>5. \/ pc'[p] = "delete" /\ todo'[p] = todo[p]
        \/ pc'[p] = "release" /\ todo'[p] = Tail(todo[p])
    BY <2>2, GotoAlone
  <2>6. holds'[p] \subseteq Elements(Required(p))
    BY <2>3 DEF AllOwed, Owed
  <2>7. Owed(p)'
    BY <2>4, <2>5, <2>6 DEF Owed
  <2> QED
    BY <2>3, <2>7, OwedAlone
<1>12. ASSUME NEW p \in Pushes, Delete(p) \/ Released(p) PROVE AllOwed'
  <2>1. holds' = holds
        /\ \/ pc[p] = "delete" /\ Goto(p, "release", Tail(todo[p]))
           \/ pc[p] = "release" /\ todo[p] = <<>> /\ Goto(p, "done", <<>>)
    BY <1>12 DEF Delete, Released, Stay
  <2>2. Alone(p) /\ holds'[p] = holds[p]
    BY <2>1, GotoAlone DEF Alone
  <2>3. \/ pc[p] = "delete" /\ pc'[p] = "release" /\ todo'[p] = Tail(todo[p])
        \/ pc[p] = "release" /\ todo[p] = <<>> /\ pc'[p] = "done"
    BY <2>1, GotoAlone
  <2>4. Elements(<<>>) = {}
    BY DEF Elements
  <2>5. Owed(p)'
    BY <2>2, <2>3, <2>4 DEF AllOwed, Owed
  <2> QED
    BY <2>2, <2>5, OwedAlone
<1>13. ASSUME NEW d \in Digests, Expire(d) PROVE AllOwed'
  BY <1>13 DEF Expire, Stay, AllOwed, Owed
<1>14. CASE UNCHANGED vars
  BY <1>14 DEF vars, AllOwed, Owed
<1> QED
  BY <1>1, <1>2, <1>3, <1>4, <1>7, <1>8, <1>9, <1>10, <1>11, <1>12, <1>13, <1>14 DEF Next

\* A smooth past: a push that is gone stays gone, and faults are not undone.
LEMMA SmoothBack ==
    ASSUME TypeOK, [Next]_vars, Smooth'
    PROVE  Smooth /\ ~Fault /\ \A d \in Digests : ~Expire(d)
<1>1. faults \in Nat /\ expiries \in Nat /\ pc \in [Pushes -> Labels]
  BY DEF TypeOK
<1>2. ~Fault /\ \A d \in Digests : ~Expire(d)
  BY <1>1 DEF Fault, Expire, Smooth
<1>3. faults = 0 /\ expiries = 0
  <2>1. faults' = 0 /\ expiries' = 0
    BY DEF Smooth
  <2>2. faults <= faults' /\ expiries <= expiries'
    BY BoundsStep
  <2> QED
    BY <1>1, <2>1, <2>2
<1>4. ASSUME NEW p \in Pushes, pc[p] = "gone" PROVE FALSE
  <2>1. pc'[p] = "gone"
    <3>1. ASSUME NEW q \in Pushes,
                 \/ \E d \in Digests : Put(q, d)
                 \/ MarkComplete(q) \/ IncBlobRef(q) \/ Leave(q)
                 \/ SendManifest(q) \/ CheckComplete(q) \/ Assemble(q)
                 \/ SeedAttestation(q) \/ Gate(q) \/ Claim(q) \/ Localize(q)
                 \/ Release(q) \/ Delete(q) \/ Released(q) \/ Crash(q) \/ Repeat(q)
          PROVE  pc'[p] = "gone"
      <4>1. pc[q] # "gone"
        BY <3>1 DEF Put, MarkComplete, IncBlobRef, Leave, SendManifest, CheckComplete,
              Assemble, SeedAttestation, Gate, Claim, Localize, Release, Delete, Released,
              Crash, Repeat
      <4>2. UNCHANGED pc \/ \E l : pc' = [pc EXCEPT ![q] = l]
        BY <3>1 DEF Put, MarkComplete, IncBlobRef, Leave, SendManifest, CheckComplete,
              Assemble, AssembleFailed, SeedAttestation, Gate, Claim, Localize, Release,
              DecBlobRef, DecideDelete, Delete, Released, Crash, Repeat, Goto
      <4> QED
        BY <1>1, <1>4, <4>1, <4>2
    <3>2. CASE UNCHANGED vars
      BY <1>4, <3>2 DEF vars
    <3> QED
      BY <1>2, <3>1, <3>2 DEF Next
  <2> QED
    BY <2>1 DEF Smooth
<1> QED
  BY <1>2, <1>3, <1>4 DEF Smooth

\* A step that counts nothing and touches no bytes, of a push with no blob in hand.
LEMMA CalmBalance ==
    ASSUME TypeOK, TypeOK', AllOwed, NEW p \in Pushes, Alone(p),
           refs' = refs, blobs' = blobs, pc[p] \notin {"mark", "inc", "delete"},
           holds'[p] = holds[p] \/ (p \in Attestations /\ holds'[p] = {}),
           NEW d \in Digests, ~Attested(d), BalancedAt(d)
    PROVE  BalancedAt(d)'
<1>1. Holders(d)' = Holders(d)
  <2>1. p \in Attestations => d \notin holds[p]
    BY DEF Attested, AllOwed, Owed
  <2> QED
    BY <2>1 DEF Holders, Alone
<1>2. ASSUME NEW q \in Pushes, InHand(q, d) PROVE InHand(q, d)'
  <2>1. q # p
    BY <1>2 DEF InHand
  <2> QED
    BY <1>2, <2>1 DEF InHand, Alone
<1> QED
  BY <1>1, <1>2 DEF BalancedAt

\* The pushes with the blob in hand, of which p keeps or drops it.
LEMMA HandFrame ==
    ASSUME NEW p \in Pushes, Alone(p), NEW d, InHand(p, d) => InHand(p, d)',
           \E q \in Pushes : InHand(q, d)
    PROVE  \E q \in Pushes : InHand(q, d)'
<1>1. PICK q \in Pushes : InHand(q, d)
  OBVIOUS
<1>2. InHand(q, d)'
  BY <1>1 DEF InHand, Alone
<1> QED
  BY <1>2

\* Put stores the bytes of a blob, and its push has it in hand.
LEMMA PutBalance ==
    ASSUME TypeOK, TypeOK', NEW p \in Pushes, NEW e \in Digests, pc[p] = "upload",
           Goto(p, "mark", <<e>>), blobs' = blobs \cup {e}, holds' = holds, refs' = refs,
           NEW d \in Digests, BalancedAt(d)
    PROVE  BalancedAt(d)'
<1>1. pc'[p] = "mark" /\ todo'[p] = <<e>> /\ Alone(p)
  BY GotoAlone DEF Alone
<1>2. Holders(d)' = Holders(d)
  BY DEF Holders
<1>3. InHand(p, e)'
  BY <1>1 DEF InHand
<1>4. ~InHand(p, d)
  BY DEF InHand
<1>5. (\E q \in Pushes : InHand(q, d)) => \E q \in Pushes : InHand(q, d)'
  BY <1>1, <1>4, HandFrame
<1> QED
  BY <1>2, <1>3, <1>5 DEF BalancedAt

LEMMA MarkBalance ==
    ASSUME TypeOK, TypeOK', NEW p \in Pushes, pc[p] = "mark",
           Goto(p, "inc", todo[p]), blobs' = blobs, holds' = holds, refs' = refs,
           NEW d \in Digests, BalancedAt(d)
    PROVE  BalancedAt(d)'
<1>1. pc'[p] = "inc" /\ todo'[p] = todo[p] /\ Alone(p)
  BY GotoAlone DEF Alone
<1>2. Holders(d)' = Holders(d)
  BY DEF Holders
<1>3. InHand(p, d) => InHand(p, d)'
  BY <1>1 DEF InHand
<1>4. (\E q \in Pushes : InHand(q, d)) => \E q \in Pushes : InHand(q, d)'
  BY <1>1, <1>3, HandFrame
<1> QED
  BY <1>2, <1>4 DEF BalancedAt

\* IncBlobRef counts the blob for a push that did not hold it.
LEMMA IncBalance ==
    ASSUME TypeOK, TypeOK', AllOwed, NEW p \in Pushes, pc[p] = "inc", NEW e \in Digests,
           e = Head(todo[p]), refs' = [refs EXCEPT ![e] = @ + 1],
           holds' = [holds EXCEPT ![p] = @ \cup {e}],
           Goto(p, "upload", <<>>), blobs' = blobs,
           NEW d \in Digests, BalancedAt(d)
    PROVE  BalancedAt(d)'
<1>t. refs \in [Digests -> Nat] /\ holds \in [Pushes -> SUBSET Digests]
  BY DEF TypeOK
<1>1. e \notin holds[p]
  BY DEF AllOwed, Owed
<1>2. /\ holds'[p] = holds[p] \cup {e} /\ \A q \in Pushes \ {p} : holds'[q] = holds[q]
      /\ pc'[p] = "upload" /\ Alone(p)
  BY <1>t, GotoAlone DEF Alone
<1>3. CASE d = e
  <2>1. refs'[d] = refs[d] + 1 /\ refs[d] \in Nat
    BY <1>3, <1>t
  <2>2. Holders(d)' = Holders(d) \cup {p} /\ p \notin Holders(d)
    BY <1>1, <1>2, <1>3 DEF Holders
  <2>3. Cardinality(Holders(d)') = Cardinality(Holders(d)) + 1
    BY <2>2, HoldersFinite, FS_AddElement
  <2> QED
    BY <2>1, <2>3, HoldersFinite DEF BalancedAt
<1>4. CASE d # e
  <2>1. refs'[d] = refs[d]
    BY <1>4, <1>t
  <2>2. Holders(d)' = Holders(d)
    BY <1>2, <1>4 DEF Holders
  <2>3. ~InHand(p, d)
    BY <1>4 DEF InHand
  <2>4. (\E q \in Pushes : InHand(q, d)) => \E q \in Pushes : InHand(q, d)'
    BY <1>2, <2>3, HandFrame
  <2> QED
    BY <2>1, <2>2, <2>4 DEF BalancedAt
<1> QED
  BY <1>3, <1>4

\* DecBlobRef: one reference less, for at most one holder less; at zero the
\* push has the delete in hand.
LEMMA ReleaseBalance ==
    ASSUME TypeOK, TypeOK', NEW p \in Pushes, pc[p] = "release", todo[p] # <<>>,
           NEW e \in Digests, e = Head(todo[p]), DecBlobRef(p, e),
           holds' = [holds EXCEPT ![p] = @ \ {e}], blobs' = blobs,
           NEW d \in Digests, BalancedAt(d)
    PROVE  BalancedAt(d)'
<1>t. refs \in [Digests -> Nat] /\ holds \in [Pushes -> SUBSET Digests]
  BY DEF TypeOK
<1>1. Goto(p, "delete", todo[p]) \/ Goto(p, "release", Tail(todo[p]))
  BY DEF DecBlobRef, DecideDelete
<1>2. /\ holds'[p] = holds[p] \ {e} /\ \A q \in Pushes \ {p} : holds'[q] = holds[q]
      /\ Alone(p)
  BY <1>1, <1>t, GotoAlone DEF Alone
<1>3. ~InHand(p, d)
  BY DEF InHand
<1>4. (\E q \in Pushes : InHand(q, d)) => \E q \in Pushes : InHand(q, d)'
  BY <1>2, <1>3, HandFrame
<1>5. CASE d # e
  <2>1. refs'[d] = refs[d]
    BY <1>5, <1>t DEF DecBlobRef
  <2>2. Holders(d)' = Holders(d)
    BY <1>2, <1>5 DEF Holders
  <2> QED
    BY <1>4, <2>1, <2>2 DEF BalancedAt
<1>6. CASE d = e /\ refs[e] = 0
  <2>1. refs'[d] = 0
    BY <1>6, <1>t DEF DecBlobRef
  <2>2. Cardinality(Holders(d))' \in Nat
    <3>1. Holders(d)' \subseteq Holders(d)
      BY <1>2 DEF Holders
    <3> QED
      BY <3>1, HoldersFinite, FewerHolders
  <2> QED
    BY <1>4, <1>6, <2>1, <2>2 DEF BalancedAt
<1>7. CASE d = e /\ refs[e] # 0
  <2>1. refs'[d] = refs[d] - 1 /\ refs[d] \in Nat /\ refs[d] > 0 /\ DecideDelete(p, refs[e] - 1)
    BY <1>7, <1>t DEF DecBlobRef
  <2>2. refs'[d] = 0 => InHand(p, d)'
    <3> SUFFICES ASSUME refs'[d] = 0 PROVE InHand(p, d)'
      OBVIOUS
    <3>1. Goto(p, "delete", todo[p])
      BY <1>7, <2>1 DEF DecideDelete
    <3>2. pc'[p] = "delete" /\ todo'[p] = todo[p]
      BY <3>1, GotoAlone
    <3> QED
      BY <1>7, <3>2 DEF InHand
  <2>3. refs'[d] <= Cardinality(Holders(d)')
    <3>1. Holders(d)' = Holders(d) \ {p}
      BY <1>2, <1>7 DEF Holders
    <3>2. /\ Cardinality(Holders(d) \ {p}) =
             (IF p \in Holders(d) THEN Cardinality(Holders(d)) - 1 ELSE Cardinality(Holders(d)))
      BY HoldersFinite, FS_RemoveElement
    <3>3. refs[d] <= Cardinality(Holders(d))
      BY DEF BalancedAt
    <3> QED
      BY <2>1, <3>1, <3>2, <3>3, HoldersFinite
  <2> QED
    BY <2>2, <2>3 DEF BalancedAt
<1> QED
  BY <1>5, <1>6, <1>7

LEMMA DeleteBalance ==
    ASSUME TypeOK, TypeOK', NEW p \in Pushes, pc[p] = "delete",
           NEW e \in Digests, e = Head(todo[p]), blobs' = blobs \ {e},
           Goto(p, "release", Tail(todo[p])), holds' = holds, refs' = refs,
           NEW d \in Digests, BalancedAt(d)
    PROVE  BalancedAt(d)'
<1>1. Alone(p) /\ Holders(d)' = Holders(d)
  BY GotoAlone DEF Alone, Holders
<1>2. CASE d = e
  BY <1>1, <1>2 DEF BalancedAt
<1>3. CASE d # e
  <2>1. ~InHand(p, d)
    BY <1>3 DEF InHand
  <2>2. (\E q \in Pushes : InHand(q, d)) => \E q \in Pushes : InHand(q, d)'
    BY <1>1, <2>1, HandFrame
  <2> QED
    BY <1>1, <2>2 DEF BalancedAt
<1> QED
  BY <1>2, <1>3

LEMMA BalancedStep ==
    ASSUME TypeOK, TypeOK', AllOwed, Balanced, [Next]_vars
    PROVE  Balanced'
<1> SUFFICES ASSUME Smooth', NEW d \in Digests, ~Attested(d) PROVE BalancedAt(d)'
  BY DEF Balanced, Attested, Elements, Required, ConfigOf
<1>s. Smooth /\ ~Fault /\ \A c \in Digests : ~Expire(c)
  BY SmoothBack
<1>b. BalancedAt(d)
  BY <1>s DEF Balanced
<1>h. holds \in [Pushes -> SUBSET Digests]
  BY DEF TypeOK
<1>1. ASSUME NEW p \in Pushes, NEW e \in Digests, Put(p, e) PROVE BalancedAt(d)'
  BY <1>1, <1>b, <1>s, PutBalance DEF Put, Stay
<1>2. ASSUME NEW p \in Pushes, MarkComplete(p) PROVE BalancedAt(d)'
  BY <1>2, <1>b, <1>s, MarkBalance DEF MarkComplete, Stay
<1>3. ASSUME NEW p \in Pushes, IncBlobRef(p) PROVE BalancedAt(d)'
  <2>1. pc[p] = "inc" /\ todo[p] # <<>>
    BY <1>3 DEF IncBlobRef, TypeOK
  <2>2. PICK e \in Digests : e = Head(todo[p])
    BY <2>1, HeadTail
  <2>3. /\ refs' = [refs EXCEPT ![e] = @ + 1] /\ holds' = [holds EXCEPT ![p] = @ \cup {e}]
        /\ Goto(p, "upload", <<>>) /\ blobs' = blobs
    BY <1>3, <1>s, <2>2 DEF IncBlobRef, Incremented
  <2> QED
    BY <1>b, <2>1, <2>2, <2>3, IncBalance
<1>4. ASSUME NEW p \in Pushes, NEW l, NEW s, Goto(p, l, s), holds' = holds, refs' = refs,
             blobs' = blobs, pc[p] \notin {"mark", "inc", "delete"}
      PROVE  BalancedAt(d)'
  <2>1. Alone(p)
    BY <1>4, GotoAlone DEF Alone
  <2> QED
    BY <1>4, <1>b, <2>1, CalmBalance
<1>5. ASSUME NEW p \in Pushes, Leave(p) \/ Crash(p) PROVE FALSE
  <2>1. Leave(p)
    BY <1>5, <1>s DEF Crash
  <2>2. pc'[p] = "gone"
    BY <2>1, GotoAlone DEF Leave
  <2> QED
    BY <2>2 DEF Smooth
<1>6. ASSUME NEW p \in Pushes,
             \/ SendManifest(p) \/ Assemble(p) \/ Gate(p) \/ Claim(p) \/ Localize(p)
             \/ Released(p) \/ Repeat(p)
      PROVE  BalancedAt(d)'
  <2>1. /\ holds' = holds /\ refs' = refs /\ blobs' = blobs
        /\ pc[p] \notin {"mark", "inc", "delete"}
    BY <1>6 DEF SendManifest, Assemble, Gate, Claim, Localize, Released, Repeat, Stay, storeVars
  <2>2. \E l, s : Goto(p, l, s)
    BY <1>6, Zenon DEF SendManifest, Assemble, AssembleFailed, Gate, Claim, Localize, Released, Repeat
  <2> QED
    BY <1>4, <2>1, <2>2
<1>7. ASSUME NEW p \in Pushes, CheckComplete(p) PROVE BalancedAt(d)'
  <2>1. ~Goto(p, "gone", <<>>)
    BY GotoAlone DEF Smooth
  <2>2. /\ holds' = holds /\ refs' = refs /\ blobs' = blobs /\ pc[p] = "check"
        /\ Goto(p, "check", Tail(todo[p])) \/ Goto(p, "assemble", Required(p))
    BY <1>7, <2>1 DEF CheckComplete, storeVars
  <2> QED
    BY <1>4, <2>2
<1>8. ASSUME NEW p \in Pushes, SeedAttestation(p) PROVE BalancedAt(d)'
  <2>1. pc[p] = "seed" /\ refs' = refs /\ blobs' = blobs /\ p \in Attestations
    BY <1>8 DEF SeedAttestation, storeVars, AllOwed, Owed
  <2>2. CASE Goto(p, "seed", Tail(todo[p])) /\ holds' = holds
    BY <1>4, <2>1, <2>2
  <2>3. CASE Goto(p, "done", <<>>) /\ holds' = [holds EXCEPT ![p] = {}]
    <3>1. Alone(p) /\ holds'[p] = {}
      BY <1>h, <2>3, GotoAlone DEF Alone
    <3> QED
      BY <1>b, <2>1, <3>1, CalmBalance
  <2> QED
    BY <1>8, <2>2, <2>3 DEF SeedAttestation
<1>9. ASSUME NEW p \in Pushes, Release(p) PROVE BalancedAt(d)'
  <2>1. pc[p] = "release" /\ todo[p] # <<>>
    BY <1>9 DEF Release
  <2>2. PICK e \in Digests : e = Head(todo[p])
    BY <2>1, HeadTail
  <2>3. DecBlobRef(p, e) /\ holds' = [holds EXCEPT ![p] = @ \ {e}] /\ blobs' = blobs
    BY <1>9, <1>s, <2>2 DEF Release
  <2> QED
    BY <1>b, <2>1, <2>2, <2>3, ReleaseBalance
<1>10. ASSUME NEW p \in Pushes, Delete(p) PROVE BalancedAt(d)'
  <2>1. pc[p] = "delete" /\ todo[p] # <<>>
    BY <1>10 DEF Delete, TypeOK
  <2>2. PICK e \in Digests : e = Head(todo[p])
    BY <2>1, HeadTail
  <2>3. /\ blobs' = blobs \ {e} /\ Goto(p, "release", Tail(todo[p]))
        /\ holds' = holds /\ refs' = refs
    BY <1>10, <1>s, <2>2 DEF Delete, Stay
  <2> QED
    BY <1>b, <2>1, <2>2, <2>3, DeleteBalance
<1>11. CASE UNCHANGED vars
  BY <1>11, <1>b DEF vars, storeVars, BalancedAt, Holders, InHand
<1> QED
  BY <1>1, <1>2, <1>3, <1>5, <1>6, <1>7, <1>8, <1>9, <1>10, <1>11, <1>s DEF Next

LEMMA LeakInit == Init => AllOwed /\ Balanced
<1> SUFFICES ASSUME Init PROVE AllOwed /\ Balanced
  OBVIOUS
<1>1. AllOwed
  BY DEF Init, AllOwed, Owed
<1>2. ASSUME NEW d \in Digests PROVE BalancedAt(d)
  <2>1. refs[d] = 0 /\ d \notin blobs
    BY DEF Init
  <2> QED
    BY <2>1, HoldersFinite DEF BalancedAt
<1> QED
  BY <1>1, <1>2 DEF Balanced

LEMMA LeakInvariance == Spec => []LeakInv
<1>1. Init => LeakInv
  BY InvInit, LeakInit DEF LeakInv
<1>2. LeakInv /\ [Next]_vars => LeakInv'
  BY TypeStep, CountedStep, AcceptedStep, OwedStep, BalancedStep DEF LeakInv, Inv
<1> QED
  BY <1>1, <1>2, PTL DEF Spec

(***************************************************************************)
(* The stores, counters and loops keep their shape; no counter goes below   *)
(* zero (decrScript).                                                       *)
(***************************************************************************)
THEOREM TypeCorrect == Spec => []TypeOK
<1>1. Inv => TypeOK
  BY DEF Inv
<1> QED
  BY <1>1, Invariance, PTL

(***************************************************************************)
(* When every push has ended through Cleanup and nothing failed, expired or *)
(* was left, no bytes remain, those of attestations excepted, however the   *)
(* pushes interleave and repeat.                                            *)
(***************************************************************************)
THEOREM NoLeak == Spec => []NothingLeaks
<1>1. LeakInv => NothingLeaks
  <2> SUFFICES ASSUME LeakInv, faults = 0, expiries = 0, \A p \in Pushes : pc[p] = "done",
                      NEW d \in blobs, ~Attested(d)
               PROVE  FALSE
    BY DEF NothingLeaks, Attested
  <2>1. d \in Digests /\ refs \in [Digests -> Nat]
    BY DEF LeakInv, Inv, TypeOK
  <2>2. BalancedAt(d)
    BY <2>1 DEF LeakInv, Balanced, Smooth
  <2>3. Holders(d) = {}
    BY DEF LeakInv, AllOwed, Owed, Holders
  <2>4. refs[d] = 0
    BY <2>1, <2>2, <2>3, FS_EmptySet DEF BalancedAt
  <2> QED
    BY <2>2, <2>4 DEF BalancedAt, InHand
<1> QED
  BY <1>1, LeakInvariance, PTL

=============================================================================
