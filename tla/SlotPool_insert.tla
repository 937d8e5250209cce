----------------------------- MODULE SlotPool_insert -----------------------------
(***************************************************************************)
(* The steps of insert keep the invariant of SlotPool.                     *)
(***************************************************************************)
EXTENDS SlotPool_frames

USE SizeAssumption, SlotAssumption

\* insert takes a free slot, which nobody owned.
LEMMA TakeSlotKeeps ==
  ASSUME PoolInv, NEW p \in Procs, TakeSlot(p)
  PROVE  PoolInv'
<1>1. PICK i \in pool : pc[p] = "idle" /\ BeginAllocate(p, i) /\ pool' = pool \ {i}
  BY DEF TakeSlot
<1>2. i \in Slots /\ SlotAt(i)
  BY DEF PoolInv, PoolTypeOK
<1>3. /\ lifecycle[i].state = "Unallocated" /\ lifecycle[i].refcount = 0 /\ contents[i] = 0
      /\ \A q \in Procs : ~Owner(q, i)
  BY <1>2 DEF SlotAt
<1> DEFINE x == [index |-> i, generation |-> 0]
<1>4. x \in Idxs /\ x.index = i
  BY <1>2 DEF Idxs
<1>5. /\ GoOn(p, "allocate_load", x, NewWord)
      /\ UNCHANGED <<lifecycle, contents, processor, ref, issued, removed>>
  BY <1>1 DEF BeginAllocate
<1> HIDE DEF x
<1>6. "allocate_load" \in OwnerSteps
  BY DEF OwnerSteps, AllocateSteps
<1>7. /\ pc' \in [Procs -> Steps] /\ idx' \in [Procs -> Idxs] /\ prev' \in [Procs -> Words]
      /\ Others(p) /\ pc'[p] = "allocate_load" /\ idx'[p] = x
  BY <1>4, <1>5, <1>6, Located, GoOnLocals, OwnerStepsAreSteps, ConstantTypes
<1>8. PoolTypeOK'
  BY <1>1, <1>5, <1>7, Located DEF PoolTypeOK, SlotTypeOK
<1>9. \A j \in Slots : ~Owner(p, j) /\ (Owner(p, j)' <=> j = i)
  BY <1>1, <1>4, <1>6, <1>7, OwnerStepsAreSteps DEF Owner
<1>10. OwnerAt(p)' /\ LoopAt(p)'
  BY <1>3, <1>4, <1>5, <1>7 DEF OwnerAt, LoopAt, ClearSteps, ReturnSteps
<1>11. SlotAt(i)'
  BY <1>1, <1>2, <1>3, <1>5, <1>9 DEF SlotAt
<1>12. /\ OneOwner' /\ NoAssertFails'
       /\ \A j \in Slots : SlotAt(j)'
       /\ \A q \in Procs : OwnerAt(q)'
       /\ \A q \in Procs : LoopAt(q)'
  <2>1. /\ \A j \in Slots \ {i} : lifecycle'[j] = lifecycle[j] /\ contents'[j] = contents[j]
                                  /\ (j \in pool' <=> j \in pool)
        /\ \A j \in Slots \ {i} : Owner(p, j)' <=> Owner(p, j)
    BY <1>1, <1>5, <1>9
  <2>2. /\ \A q \in Procs \ {p} : ~Owner(q, i)
        /\ \A q \in Procs \ {p}, k \in Locals : ref'[<<q, k>>] = ref[<<q, k>>]
        /\ issued \subseteq issued' /\ pc'[p] # "assert_failed"
    BY <1>3, <1>5, <1>7
  <2> QED
    BY <1>2, <1>7, <1>8, <1>10, <1>11, <2>1, <2>2, SlotStepKeeps
<1>13. RefProtectsValue' /\ RefCountExact'
  BY <1>5, CountsSame DEF PoolInv, RefProtectsValue
<1>14. /\ \A y \in issued : IssuedAt(y)'
       /\ RemovedStaysDead'
  BY <1>5, <1>7, GenerationsSame DEF RemovedStaysDead
<1>15. (removed \subseteq issued)' /\ \A y \in issued' : IssuedAt(y)'
  BY <1>5, <1>14 DEF PoolInv
<1> QED
  BY <1>8, <1>12, <1>13, <1>14, <1>15 DEF PoolInv

\* allocate finds a word without references.
LEMMA AllocateLoadKeeps ==
  ASSUME PoolInv, NEW p \in Procs, AllocateLoad(p), UNCHANGED pool
  PROVE  PoolInv'
<1> DEFINE word == lifecycle[idx[p].index]
           s == IF word.generation >= GenLimit THEN "generation_overflow" ELSE "allocate_store"
<1>1. pc[p] = "allocate_load" /\ word.refcount = 0 /\ word.state = "Unallocated" /\ contents[idx[p].index] = 0
  BY Located DEF AllocateLoad, OwnerAt, OwnerSteps, AllocateSteps
<1>2. /\ GoOn(p, s, idx[p], word)
      /\ UNCHANGED <<lifecycle, contents, processor, ref, issued, removed, pool>>
  BY <1>1 DEF AllocateLoad
<1>3. s \in OwnerSteps \ {"allocate_write"} /\ pc[p] \in OwnerSteps
  BY <1>1 DEF OwnerSteps, AllocateSteps
<1>4. pc'[p] = s /\ idx'[p] = idx[p] /\ prev'[p] = word
  BY <1>2, <1>3, Located, GoOnLocals, OwnerStepsAreSteps
<1>5. s = "allocate_store" => word.generation < GenLimit
  BY Located DEF Words
<1>6. OwnerAt(p)'
  BY <1>1, <1>2, <1>4, <1>5 DEF OwnerAt, OwnerSteps, AllocateSteps, ClearSteps, ReturnSteps
<1> HIDE DEF s
<1> QED
  BY <1>2, <1>3, <1>6, OwnerLoads

\* Another generation begins: every Idx of the slot is now older.
LEMMA AllocateStoreKeeps ==
  ASSUME PoolInv, NEW p \in Procs, AllocateStore(p), UNCHANGED pool
  PROVE  PoolInv'
<1>0. PICK i \in Slots : i = idx[p].index
  BY Located
<1> DEFINE old == lifecycle[i]
           word == AllocatedWord(prev[p])
           x == [index |-> i, generation |-> word.generation]
<1>1. /\ pc[p] = "allocate_store" /\ prev[p] = old /\ old.generation < GenLimit /\ old.refcount = 0
      /\ contents[i] = 0 /\ old \in Words
  BY <1>0, Located DEF AllocateStore, OwnerAt, OwnerSteps, AllocateSteps
<1>2. pc[p] \in OwnerSteps /\ "allocate_write" \in OwnerSteps
  BY <1>1 DEF OwnerSteps, AllocateSteps
<1>3. /\ word \in Words /\ word.state = "Allocated" /\ word.generation = old.generation + 1
      /\ word.refcount = 0
  BY <1>1, AllocatedFields
<1>4. x \in Idxs
  BY <1>1, <1>3 DEF Idxs, Words
<1>5. /\ lifecycle' = [lifecycle EXCEPT ![i] = word] /\ GoOn(p, "allocate_write", x, word)
      /\ UNCHANGED <<contents, processor, ref, issued, removed, pool>>
  BY <1>0 DEF AllocateStore
<1> HIDE DEF word, x
<1>6. /\ pc' \in [Procs -> Steps] /\ idx' \in [Procs -> Idxs] /\ prev' \in [Procs -> Words]
      /\ Others(p) /\ pc'[p] = "allocate_write" /\ idx'[p] = x
  BY <1>2, <1>3, <1>4, <1>5, Located, GoOnLocals, OwnerStepsAreSteps
<1>7. x.index = i /\ x.generation = word.generation
  BY DEF x
<1>8. lifecycle' \in [Slots -> Words] /\ lifecycle'[i] = word /\ \A j \in Slots \ {i} : lifecycle'[j] = lifecycle[j]
  BY <1>1, <1>3, <1>5, Located DEF PoolTypeOK, SlotTypeOK
<1>9. PoolTypeOK'
  BY <1>5, <1>6, <1>8, Located DEF PoolTypeOK, SlotTypeOK
<1>10. \A j \in Slots : Owner(p, j) <=> j = i
  BY <1>0, <1>2 DEF Owner
<1>11. \A j \in Slots : Owner(p, j)' <=> j = i
  BY <1>2, <1>6, <1>7 DEF Owner
<1>12. OwnerAt(p)' /\ LoopAt(p)'
  BY <1>1, <1>3, <1>5, <1>6, <1>7, <1>8 DEF OwnerAt, LoopAt, ClearSteps, ReturnSteps
<1>13. old.generation + 1 # 0
  BY <1>1 DEF Words
<1>14. SlotAt(i)'
  <2>1. i \notin pool' /\ Owner(p, i)'
    BY <1>0, <1>2, <1>5, <1>11, OwnedAlone
  <2> QED
    BY <1>3, <1>8, <1>13, <2>1 DEF SlotAt
<1>15. /\ OneOwner' /\ NoAssertFails'
       /\ \A j \in Slots : SlotAt(j)'
       /\ \A q \in Procs : OwnerAt(q)'
       /\ \A q \in Procs : LoopAt(q)'
  <2>1. /\ \A j \in Slots \ {i} : lifecycle'[j] = lifecycle[j] /\ contents'[j] = contents[j]
                                  /\ (j \in pool' <=> j \in pool)
        /\ \A j \in Slots \ {i} : Owner(p, j)' <=> Owner(p, j)
    BY <1>5, <1>8, <1>10, <1>11
  <2>2. /\ \A q \in Procs \ {p} : ~Owner(q, i)
        /\ \A q \in Procs \ {p}, k \in Locals : ref'[<<q, k>>] = ref[<<q, k>>]
        /\ issued \subseteq issued'
    BY <1>0, <1>2, <1>5, OwnedAlone
  <2>3. pc'[p] # "assert_failed"
    BY <1>6
  <2> QED
    BY <1>6, <1>9, <1>12, <1>14, <2>1, <2>2, <2>3, SlotStepKeeps
<1>16. RefProtectsValue' /\ RefCountExact'
  BY <1>0, <1>2, <1>3, <1>5, <1>8, OwnerKeepsRefs
<1>17. ASSUME NEW y \in issued
       PROVE  /\ IssuedAt(y)'
              /\ y.index = i => y.generation # lifecycle'[i].generation
  <2>1. y.index \in Slots /\ y.generation \in Nat /\ IssuedAt(y)
    BY DEF PoolInv, PoolTypeOK, SlotTypeOK, Idxs
  <2>2. CASE y.index = i
    <3>1. y.generation < lifecycle'[i].generation
      BY <1>1, <1>3, <1>8, <2>1, <2>2 DEF IssuedAt, Words
    <3>2. lifecycle'[i].generation \in Nat
      BY <1>3, <1>8 DEF Words
    <3> QED
      BY <2>1, <2>2, <3>1, <3>2 DEF IssuedAt
  <2>3. CASE y.index # i
    <3>1. \A q \in Procs : pc'[q] = "allocate_write" /\ idx'[q].index = y.index =>
            pc[q] = "allocate_write" /\ idx[q].index = y.index
      BY <1>6, <1>7, <2>3 DEF Others
    <3> QED
      BY <1>8, <2>1, <2>3, <3>1 DEF IssuedAt
  <2> QED
    BY <2>2, <2>3
<1>18. (removed \subseteq issued)' /\ \A y \in issued' : IssuedAt(y)'
  BY <1>5, <1>17 DEF PoolInv
<1>19. RemovedStaysDead'
  <2> SUFFICES ASSUME NEW y \in removed, lifecycle'[y.index].generation = y.generation
               PROVE  lifecycle'[y.index].state # "Allocated"
    BY <1>5 DEF RemovedStaysDead
  <2>1. y \in issued /\ y.index \in Slots
    BY DEF PoolInv, PoolTypeOK, SlotTypeOK, Idxs
  <2>2. y.index # i
    BY <1>17, <2>1
  <2> QED
    BY <1>8, <2>1, <2>2 DEF PoolInv, RemovedStaysDead
<1> QED
  BY <1>9, <1>15, <1>16, <1>18, <1>19 DEF PoolInv

\* insert returns: the Idx it hands out is of the current generation.
LEMMA AllocateWriteKeeps ==
  ASSUME PoolInv, NEW p \in Procs, AllocateWrite(p), UNCHANGED pool
  PROVE  PoolInv'
<1>0. PICK i \in Slots : i = idx[p].index
  BY Located
<1> DEFINE word == lifecycle[i]
<1>1. /\ pc[p] = "allocate_write" /\ word.state = "Allocated" /\ word.generation = idx[p].generation
      /\ word.refcount = 0
  BY <1>0, Located DEF AllocateWrite, OwnerAt, OwnerSteps, AllocateSteps
<1>2. pc[p] \in OwnerSteps
  BY <1>1 DEF OwnerSteps, AllocateSteps
<1>3. /\ contents' = [contents EXCEPT ![i] = word.generation]
      /\ processor' = [processor EXCEPT ![i] = p]
      /\ issued' = issued \cup {idx[p]}
      /\ GoOn(p, "idle", idx[p], prev[p])
      /\ UNCHANGED <<lifecycle, ref, removed, pool>>
  BY <1>0, <1>1 DEF AllocateWrite
<1>4. /\ pc' \in [Procs -> Steps] /\ idx' \in [Procs -> Idxs] /\ prev' \in [Procs -> Words]
      /\ Others(p) /\ pc'[p] = "idle"
  BY <1>3, Located, GoOnLocals, OwnerStepsAreSteps
<1>5. /\ contents' \in [Slots -> Nat] /\ contents'[i] = word.generation
      /\ \A j \in Slots \ {i} : contents'[j] = contents[j]
  BY <1>3, Located DEF PoolTypeOK, SlotTypeOK, Words
<1>6. PoolTypeOK'
  BY <1>3, <1>4, <1>5, Located DEF PoolTypeOK, SlotTypeOK
<1>7. \A j \in Slots : ~Owner(p, j)' /\ (Owner(p, j) => j = i)
  BY <1>0, <1>4, OwnerStepsAreSteps DEF Owner
<1>8. OwnerAt(p)' /\ LoopAt(p)'
  BY <1>4, OwnerStepsAreSteps DEF OwnerAt, LoopAt, ClearSteps, ReturnSteps
<1>9. SlotAt(i)'
  <2>1. i \notin pool' /\ SlotAt(i)
    BY <1>0, <1>2, <1>3, OwnedAlone, Located
  <2> QED
    BY <1>1, <1>3, <1>5, <2>1 DEF SlotAt
<1>10. /\ OneOwner' /\ NoAssertFails'
       /\ \A j \in Slots : SlotAt(j)'
       /\ \A q \in Procs : OwnerAt(q)'
       /\ \A q \in Procs : LoopAt(q)'
  <2>1. /\ \A j \in Slots \ {i} : lifecycle'[j] = lifecycle[j] /\ contents'[j] = contents[j]
                                  /\ (j \in pool' <=> j \in pool)
        /\ \A j \in Slots \ {i} : Owner(p, j)' <=> Owner(p, j)
    BY <1>3, <1>5, <1>7
  <2>2. /\ \A q \in Procs \ {p} : ~Owner(q, i)
        /\ \A q \in Procs \ {p}, k \in Locals : ref'[<<q, k>>] = ref[<<q, k>>]
        /\ issued \subseteq issued'
    BY <1>0, <1>2, <1>3, OwnedAlone
  <2>3. pc'[p] # "assert_failed"
    BY <1>4
  <2> QED
    BY <1>4, <1>6, <1>8, <1>9, <2>1, <2>2, <2>3, SlotStepKeeps
<1>11. RefProtectsValue' /\ RefCountExact'
  BY <1>0, <1>1, <1>2, <1>3, <1>5, OwnerKeepsRefs
<1>12. /\ \A x \in issued : IssuedAt(x)'
       /\ RemovedStaysDead'
  BY <1>3, <1>4, GenerationsSame DEF RemovedStaysDead
<1>13. \A x \in issued' : IssuedAt(x)'
  <2>1. \A q \in Procs : ~(pc'[q] = "allocate_write" /\ idx'[q].index = i)
    BY <1>0, <1>2, <1>4, OwnedAlone DEF Others, Owner, OwnerSteps, AllocateSteps
  <2>2. ASSUME NEW x \in Idxs, x = idx[p] PROVE IssuedAt(x)'
    <3>1. x.generation = lifecycle'[x.index].generation /\ x.generation \in Nat
      BY <1>0, <1>1, <1>3, <2>2 DEF Idxs
    <3> QED
      BY <1>0, <2>1, <2>2, <3>1 DEF IssuedAt
  <2> QED
    BY <1>3, <1>12, <2>2, Located
<1>14. (removed \subseteq issued)'
  BY <1>3 DEF PoolInv
<1> QED
  BY <1>6, <1>10, <1>11, <1>12, <1>13, <1>14 DEF PoolInv
=============================================================================
