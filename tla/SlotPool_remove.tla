----------------------------- MODULE SlotPool_remove -----------------------------
(***************************************************************************)
(* The steps of remove and of return_slot, which clears a slot and gives   *)
(* it back, keep the invariant of SlotPool.                                *)
(***************************************************************************)
EXTENDS SlotPool_frames

USE SizeAssumption, SlotAssumption

\* A slot in state Allocated, with the generation of an Idx that was handed out, is in
\* use: it has no owner.
LEMMA AllocatedNotOwned ==
  ASSUME PoolInv, NEW x \in issued, lifecycle[x.index].state = "Allocated",
         lifecycle[x.index].generation = x.generation, NEW q \in Procs
  PROVE  ~Owner(q, x.index)
<1> SUFFICES ASSUME Owner(q, x.index) PROVE FALSE
  OBVIOUS
<1>1. OwnerAt(q) /\ pc[q] \in OwnerSteps /\ idx[q].index = x.index
  BY DEF PoolInv, Owner
<1>2. pc[q] = "allocate_write"
  BY <1>1 DEF OwnerAt, OwnerSteps, AllocateSteps
<1>3. IssuedAt(x)
  BY DEF PoolInv
<1> QED
  BY <1>1, <1>2, <1>3 DEF IssuedAt

\* A slot with a reference has no owner.
LEMMA ReferencedNotOwned ==
  ASSUME PoolInv, NEW i \in Slots, lifecycle[i].refcount # 0, NEW q \in Procs
  PROVE  ~Owner(q, i)
BY DEF PoolInv, Owner, OwnerAt

\* What an exchange of the word of a slot in use keeps, whatever it does to Refs.
LEMMA ExchangeKeeps ==
  ASSUME PoolInv, NEW p \in Procs, NEW i \in Slots, i = idx[p].index, NEW word \in Words,
         NEW s \in {"idle", "clear_load"}, \A q \in Procs : ~Owner(q, i),
         lifecycle' = [lifecycle EXCEPT ![i] = word], GoOn(p, s, idx[p], word),
         UNCHANGED <<contents, processor, pool, issued>>,
         ref' \in [RefVars -> Idxs \cup {None}],
         \A q \in Procs \ {p}, k \in Locals : ref'[<<q, k>>] = ref[<<q, k>>],
         removed \subseteq removed', removed' \subseteq issued,
         lifecycle[i].state # "Unallocated", word.generation = lifecycle[i].generation,
         word.state = "Allocated" => lifecycle[i].state = "Allocated",
         word.state = "Unallocated" => word.refcount = 0,
         s = "idle" => word.state # "Unallocated",
         s = "clear_load" => word.refcount = 0 /\ word.state # "Allocated"
  PROVE  /\ PoolTypeOK' /\ OneOwner' /\ NoAssertFails'
         /\ \A j \in Slots : SlotAt(j)'
         /\ \A q \in Procs : OwnerAt(q)'
         /\ \A q \in Procs : LoopAt(q)'
         /\ \A x \in issued' : IssuedAt(x)'
         /\ \A x \in removed : lifecycle'[x.index].generation = x.generation =>
                                 lifecycle'[x.index].state # "Allocated"
<1>1. s \in Steps /\ (s \in OwnerSteps <=> s = "clear_load")
  BY OwnerStepsAreSteps DEF OwnerSteps, ClearSteps
<1>2. /\ pc' \in [Procs -> Steps] /\ idx' \in [Procs -> Idxs] /\ prev' \in [Procs -> Words]
      /\ Others(p) /\ pc'[p] = s /\ (s # "idle" => idx'[p] = idx[p])
  <2>1. PoolTypeOK /\ idx[p] \in Idxs
    BY Located
  <2> QED
    BY <1>1, <2>1, GoOnLocals
<1>3. /\ lifecycle' \in [Slots -> Words] /\ lifecycle'[i] = word
      /\ \A j \in Slots \ {i} : lifecycle'[j] = lifecycle[j]
  BY Located DEF PoolTypeOK, SlotTypeOK
<1>4. PoolTypeOK'
  <2>1. removed' \in SUBSET Idxs
    BY Located DEF PoolTypeOK, SlotTypeOK
  <2> QED
    BY <1>2, <1>3, <2>1, Located DEF PoolTypeOK, SlotTypeOK
<1>5. /\ SlotAt(i) /\ i \notin pool /\ contents[i] = lifecycle[i].generation
      /\ lifecycle[i].generation # 0
  BY Located DEF SlotAt
<1>6. OwnerAt(p)' /\ LoopAt(p)'
  BY <1>1, <1>2, <1>3, <1>5 DEF OwnerAt, LoopAt, ClearSteps, ReturnSteps
<1>7. SlotAt(i)'
  <2>1. s = "clear_load" => Owner(p, i)'
    BY <1>1, <1>2 DEF Owner
  <2> QED
    BY <1>3, <1>5, <2>1 DEF SlotAt
<1>8. \A j \in Slots \ {i} : ~Owner(p, j) /\ ~Owner(p, j)'
  <2>1. pc[p] \notin OwnerSteps
    BY DEF Owner
  <2> QED
    BY <1>1, <1>2, <2>1 DEF Owner
<1>9. /\ OneOwner' /\ NoAssertFails'
      /\ \A j \in Slots : SlotAt(j)'
      /\ \A q \in Procs : OwnerAt(q)'
      /\ \A q \in Procs : LoopAt(q)'
  <2>1. pc'[p] # "assert_failed" /\ issued \subseteq issued'
    BY <1>2
  <2>2. \A j \in Slots \ {i} : lifecycle'[j] = lifecycle[j] /\ contents'[j] = contents[j]
                               /\ (j \in pool' <=> j \in pool)
    BY <1>3
  <2> QED
    BY <1>2, <1>4, <1>6, <1>7, <1>8, <2>1, <2>2, SlotStepKeeps
<1>10. pc'[p] # "allocate_write"
  BY <1>2
<1>11. /\ \A x \in issued : IssuedAt(x)'
       /\ \A x \in removed : lifecycle'[x.index].generation = x.generation =>
                               lifecycle'[x.index].state # "Allocated"
  BY <1>2, <1>3, <1>10, GenerationsSame
<1> QED
  BY <1>4, <1>9, <1>11

\* remove: with references the slot becomes a zombie, without it has an owner.
LEMMA RemoveCasKeeps ==
  ASSUME PoolInv, NEW p \in Procs, RemoveCas(p), UNCHANGED pool
  PROVE  PoolInv'
<1>0. PICK i \in Slots : i = idx[p].index
  BY Located
<1> DEFINE old == lifecycle[i]
           word == MarkedWord(old)
           s == IF word.state = "Zombie" THEN "idle" ELSE "clear_load"
<1>1. /\ pc[p] = "remove_cas" /\ prev[p] = old /\ old \in Words /\ idx[p] \in issued
      /\ old.state = "Allocated" /\ old.generation = idx[p].generation
  BY <1>0, Located DEF RemoveCas, Exchanges, LoopAt
<1>2. /\ word \in Words /\ word.generation = old.generation /\ word.refcount = old.refcount
      /\ word.state = IF old.refcount = 0 THEN "Unallocated" ELSE "Zombie"
  BY <1>1, MarkedFields
<1>3. /\ lifecycle' = [lifecycle EXCEPT ![i] = word]
      /\ removed' = removed \cup {idx[p]}
      /\ GoOn(p, s, idx[p], word)
      /\ UNCHANGED <<contents, processor, ref, issued, pool>>
  BY <1>0, <1>1 DEF RemoveCas, StoreWord
<1>4. /\ s \in {"idle", "clear_load"} /\ word.state # "Allocated"
      /\ s = "idle" => word.state # "Unallocated"
      /\ word.state = "Unallocated" => word.refcount = 0
      /\ s = "clear_load" => word.refcount = 0
  BY <1>2
<1> HIDE DEF word, s
<1>5. \A q \in Procs : ~Owner(q, i)
  BY <1>0, <1>1, AllocatedNotOwned
<1>6. /\ PoolTypeOK' /\ OneOwner' /\ NoAssertFails'
      /\ \A j \in Slots : SlotAt(j)'
      /\ \A q \in Procs : OwnerAt(q)'
      /\ \A q \in Procs : LoopAt(q)'
      /\ \A x \in issued' : IssuedAt(x)'
      /\ \A x \in removed : lifecycle'[x.index].generation = x.generation =>
                              lifecycle'[x.index].state # "Allocated"
  <2>1. removed \subseteq removed' /\ removed' \subseteq issued
    BY <1>1, <1>3 DEF PoolInv
  <2>2. /\ ref' \in [RefVars -> Idxs \cup {None}]
        /\ \A q \in Procs \ {p}, l \in Locals : ref'[<<q, l>>] = ref[<<q, l>>]
    BY <1>3, Located DEF PoolTypeOK, SlotTypeOK
  <2> QED
    BY <1>0, <1>1, <1>2, <1>3, <1>4, <1>5, <2>1, <2>2, ExchangeKeeps
<1>7. lifecycle'[i] = word /\ \A j \in Slots \ {i} : lifecycle'[j] = lifecycle[j]
  BY <1>3, Located DEF PoolTypeOK, SlotTypeOK
<1>8. RemovedStaysDead'
  BY <1>0, <1>3, <1>4, <1>6, <1>7 DEF RemovedStaysDead
<1>9. (removed \subseteq issued)'
  BY <1>1, <1>3 DEF PoolInv
<1>10. RefProtectsValue'
  <2> SUFFICES ASSUME NEW t \in RefVars, ref[t] # None
               PROVE  /\ lifecycle'[ref[t].index].generation = ref[t].generation
                      /\ lifecycle'[ref[t].index].state \in {"Allocated", "Zombie"}
                      /\ contents'[ref[t].index] = ref[t].generation
    BY <1>3 DEF RefProtectsValue
  <2>1. /\ ref[t].index \in Slots /\ lifecycle[ref[t].index].refcount # 0
        /\ lifecycle[ref[t].index].generation = ref[t].generation
        /\ lifecycle[ref[t].index].state \in {"Allocated", "Zombie"}
        /\ contents[ref[t].index] = ref[t].generation
    BY Counted DEF PoolInv, RefProtectsValue
  <2> QED
    BY <1>2, <1>3, <1>7, <2>1
<1>11. RefCountExact'
  BY <1>2, <1>3, <1>7, CountsSame DEF PoolInv
<1> QED
  BY <1>6, <1>8, <1>9, <1>10, <1>11 DEF PoolInv
-----------------------------------------------------------------------------
(* return_slot                                                             *)

\* clear finds no reference.
LEMMA ClearLoadKeeps ==
  ASSUME PoolInv, NEW p \in Procs, ClearLoad(p), UNCHANGED pool
  PROVE  PoolInv'
<1> DEFINE word == lifecycle[idx[p].index]
<1>1. /\ pc[p] = "clear_load" /\ word.refcount = 0 /\ word.state # "Allocated" /\ word.generation # 0
      /\ contents[idx[p].index] = word.generation
  BY Located DEF ClearLoad, OwnerAt, OwnerSteps, ClearSteps
<1>2. /\ GoOn(p, "clear_store", idx[p], word)
      /\ UNCHANGED <<lifecycle, contents, processor, ref, issued, removed, pool>>
  BY <1>1 DEF ClearLoad
<1>3. "clear_store" \in OwnerSteps \ {"allocate_write"} /\ pc[p] \in OwnerSteps
  BY <1>1 DEF OwnerSteps, ClearSteps
<1>4. pc'[p] = "clear_store" /\ idx'[p] = idx[p] /\ prev'[p] = word
  BY <1>2, <1>3, Located, GoOnLocals, OwnerStepsAreSteps
<1>5. OwnerAt(p)'
  BY <1>1, <1>2, <1>4 DEF OwnerAt, OwnerSteps, AllocateSteps, ClearSteps, ReturnSteps
<1> QED
  BY <1>2, <1>3, <1>5, OwnerLoads

\* The owner's steps that begin no generation and hand out no Idx.
LEMMA OwnerStepKeeps ==
  ASSUME PoolInv, NEW p \in Procs, NEW i \in Slots, i = idx[p].index, pc[p] \in OwnerSteps,
         PoolTypeOK', Others(p), UNCHANGED <<ref, issued, removed>>,
         pc'[p] \notin {"assert_failed", "allocate_write"},
         pc'[p] \in OwnerSteps => idx'[p] = idx[p],
         \A j \in Slots \ {i} : lifecycle'[j] = lifecycle[j] /\ contents'[j] = contents[j]
                                /\ (j \in pool' <=> j \in pool),
         /\ lifecycle'[i].generation = lifecycle[i].generation
         /\ lifecycle'[i].refcount = 0 /\ lifecycle'[i].state # "Allocated",
         SlotAt(i)', OwnerAt(p)', LoopAt(p)'
  PROVE  PoolInv'
<1>1. \A j \in Slots \ {i} : Owner(p, j)' <=> Owner(p, j)
  BY DEF Owner
<1>2. /\ \A q \in Procs \ {p} : ~Owner(q, i)
      /\ \A q \in Procs \ {p}, k \in Locals : ref'[<<q, k>>] = ref[<<q, k>>]
      /\ issued \subseteq issued'
  BY OwnedAlone
<1>3. /\ OneOwner' /\ NoAssertFails'
      /\ \A j \in Slots : SlotAt(j)'
      /\ \A q \in Procs : OwnerAt(q)'
      /\ \A q \in Procs : LoopAt(q)'
  BY <1>1, <1>2, SlotStepKeeps
<1>4. RefProtectsValue' /\ RefCountExact'
  BY OwnerKeepsRefs
<1>5. \A j \in Slots : /\ lifecycle'[j].generation = lifecycle[j].generation
                       /\ lifecycle'[j].state = "Allocated" => lifecycle[j].state = "Allocated"
  OBVIOUS
<1>6. /\ \A x \in issued : IssuedAt(x)'
      /\ RemovedStaysDead'
  BY <1>5, GenerationsSame DEF RemovedStaysDead
<1>7. (removed \subseteq issued)' /\ \A x \in issued' : IssuedAt(x)'
  BY <1>6 DEF PoolInv
<1> QED
  BY <1>3, <1>4, <1>6, <1>7 DEF PoolInv

\* clear makes the slot unallocated, while its value is still there.
LEMMA ClearStoreKeeps ==
  ASSUME PoolInv, NEW p \in Procs, ClearStore(p), UNCHANGED pool
  PROVE  PoolInv'
<1>0. PICK i \in Slots : i = idx[p].index
  BY Located
<1> DEFINE old == lifecycle[i]
           word == ClearedWord(prev[p])
<1>1. /\ pc[p] = "clear_store" /\ prev[p] = old /\ old \in Words /\ old.refcount = 0
      /\ old.generation # 0 /\ contents[i] = old.generation
  BY <1>0, Located DEF ClearStore, OwnerAt, OwnerSteps, ClearSteps
<1>2. pc[p] \in OwnerSteps /\ "clear_contents" \in OwnerSteps
  BY <1>1 DEF OwnerSteps, ClearSteps
<1>3. /\ word \in Words /\ word.state = "Unallocated" /\ word.generation = old.generation
      /\ word.refcount = 0
  BY <1>1, ClearedFields
<1>4. /\ lifecycle' = [lifecycle EXCEPT ![i] = word] /\ GoOn(p, "clear_contents", idx[p], NewWord)
      /\ UNCHANGED <<contents, processor, ref, issued, removed, pool>>
  BY <1>0 DEF ClearStore, StoreWord
<1> HIDE DEF word
<1>5. /\ pc' \in [Procs -> Steps] /\ idx' \in [Procs -> Idxs] /\ prev' \in [Procs -> Words]
      /\ Others(p) /\ pc'[p] = "clear_contents" /\ idx'[p] = idx[p]
  BY <1>2, <1>4, Located, GoOnLocals, OwnerStepsAreSteps, ConstantTypes
<1>6. /\ lifecycle' \in [Slots -> Words] /\ lifecycle'[i] = word
      /\ \A j \in Slots \ {i} : lifecycle'[j] = lifecycle[j]
  BY <1>3, <1>4, Located DEF PoolTypeOK, SlotTypeOK
<1>7. PoolTypeOK'
  BY <1>4, <1>5, <1>6, Located DEF PoolTypeOK, SlotTypeOK
<1>8. OwnerAt(p)' /\ LoopAt(p)'
  BY <1>0, <1>1, <1>3, <1>4, <1>5, <1>6 DEF OwnerAt, LoopAt, ReturnSteps
<1>9. SlotAt(i)'
  <2>1. i \notin pool' /\ Owner(p, i)'
    BY <1>0, <1>2, <1>4, <1>5, OwnedAlone DEF Owner
  <2> QED
    BY <1>3, <1>6, <2>1 DEF SlotAt
<1> QED
  BY <1>0, <1>2, <1>3, <1>4, <1>5, <1>6, <1>7, <1>8, <1>9, OwnerStepKeeps

\* clear drops the value.
LEMMA ClearContentsKeeps ==
  ASSUME PoolInv, NEW p \in Procs, ClearContents(p), UNCHANGED pool
  PROVE  PoolInv'
<1>0. PICK i \in Slots : i = idx[p].index
  BY Located
<1> DEFINE s == IF processor[i] = p THEN "return_local" ELSE "return_global"
<1>1. /\ pc[p] = "clear_contents" /\ lifecycle[i].refcount = 0 /\ lifecycle[i].state = "Unallocated"
  BY <1>0, Located DEF ClearContents, OwnerAt, OwnerSteps, ClearSteps
<1>2. pc[p] \in OwnerSteps /\ s \in ReturnSteps /\ s \in OwnerSteps
  BY <1>1 DEF OwnerSteps, ClearSteps, ReturnSteps
<1>3. /\ contents' = [contents EXCEPT ![i] = 0] /\ processor' = [processor EXCEPT ![i] = None]
      /\ GoOn(p, s, idx[p], prev[p])
      /\ UNCHANGED <<lifecycle, ref, issued, removed, pool>>
  BY <1>0 DEF ClearContents, ClearedContents
<1> HIDE DEF s
<1>4. /\ pc' \in [Procs -> Steps] /\ idx' \in [Procs -> Idxs] /\ prev' \in [Procs -> Words]
      /\ Others(p) /\ pc'[p] = s /\ idx'[p] = idx[p]
  BY <1>2, <1>3, Located, GoOnLocals, OwnerStepsAreSteps
<1>5. /\ contents' \in [Slots -> Nat] /\ contents'[i] = 0
      /\ \A j \in Slots \ {i} : contents'[j] = contents[j]
  BY <1>3, Located DEF PoolTypeOK, SlotTypeOK
<1>6. PoolTypeOK'
  BY <1>3, <1>4, <1>5, Located DEF PoolTypeOK, SlotTypeOK
<1>7. OwnerAt(p)' /\ LoopAt(p)' /\ s \notin {"assert_failed", "allocate_write"}
  BY <1>0, <1>1, <1>2, <1>3, <1>4, <1>5 DEF OwnerAt, LoopAt, ReturnSteps, ClearSteps
<1>8. SlotAt(i)'
  <2>1. i \notin pool' /\ Owner(p, i)'
    BY <1>0, <1>2, <1>3, <1>4, OwnedAlone DEF Owner
  <2> QED
    BY <1>1, <1>3, <2>1 DEF SlotAt
<1> QED
  BY <1>0, <1>1, <1>2, <1>3, <1>4, <1>5, <1>6, <1>7, <1>8, OwnerStepKeeps

\* The slot is free again, and its owner has forgotten it.
LEMMA GiveSlotKeeps ==
  ASSUME PoolInv, NEW p \in Procs, GiveSlot(p)
  PROVE  PoolInv'
<1>0. PICK i \in Slots : i = idx[p].index
  BY Located
<1>1. pc[p] \in ReturnSteps /\ pc[p] \in OwnerSteps
  BY DEF GiveSlot, OwnerSteps
<1>2. lifecycle[i].refcount = 0 /\ lifecycle[i].state = "Unallocated" /\ contents[i] = 0
  BY <1>0, <1>1, Located DEF OwnerAt
<1>3. /\ pool' = pool \cup {i} /\ GoOn(p, "idle", idx[p], prev[p])
      /\ UNCHANGED <<lifecycle, contents, processor, ref, issued, removed>>
  BY <1>0 DEF GiveSlot, EndReturn
<1>4. /\ pc' \in [Procs -> Steps] /\ idx' \in [Procs -> Idxs] /\ prev' \in [Procs -> Words]
      /\ Others(p) /\ pc'[p] = "idle"
  BY <1>3, Located, GoOnLocals, OwnerStepsAreSteps
<1>5. PoolTypeOK'
  BY <1>3, <1>4, Located DEF PoolTypeOK, SlotTypeOK
<1>6. OwnerAt(p)' /\ LoopAt(p)'
  BY <1>4, OwnerStepsAreSteps DEF OwnerAt, LoopAt, ClearSteps, ReturnSteps
<1>7. \A q \in Procs : ~Owner(q, i)'
  BY <1>0, <1>1, <1>4, OwnedAlone, OwnerStepsAreSteps DEF Others, Owner
<1>8. SlotAt(i)'
  BY <1>2, <1>3, <1>7 DEF SlotAt
<1> QED
  BY <1>0, <1>1, <1>2, <1>3, <1>4, <1>5, <1>6, <1>8, OwnerStepKeeps, OwnerStepsAreSteps
=============================================================================
