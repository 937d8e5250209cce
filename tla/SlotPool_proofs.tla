----------------------------- MODULE SlotPool_proofs -----------------------------
(***************************************************************************)
(* Theorems about SlotPool, for any processors, Ref variables, number of   *)
(* slots, generations and references.                                      *)
(***************************************************************************)
EXTENDS SlotPool_insert, SlotPool_remove

USE SizeAssumption, SlotAssumption
-----------------------------------------------------------------------------
(* The exchanges of get and drop                                           *)

\* get counts its reference in the word and keeps what the word protects.
LEMMA GetCasKeeps ==
  ASSUME PoolInv, NEW p \in Procs, NEW k \in Locals, GetCas(p, k), UNCHANGED pool
  PROVE  PoolInv'
<1>0. PICK i \in Slots : i = idx[p].index
  BY Located
<1> DEFINE old == lifecycle[i]
           word == AcquiredWord(old)
           r == <<p, k>>
<1>1. /\ pc[p] = "get_cas" /\ prev[p] = old /\ old \in Words /\ idx[p] \in issued
      /\ old.state = "Allocated" /\ old.generation = idx[p].generation /\ old.refcount # RefLimit
      /\ r \in RefVars /\ ref[r] = None /\ idx[p] \in Idxs /\ idx[p] # None
  BY <1>0, Located, ConstantTypes DEF GetCas, Exchanges, LoopAt, RefVars
<1>2. /\ word \in Words /\ word.state = "Allocated" /\ word.generation = old.generation
      /\ word.refcount = old.refcount + 1
  BY <1>1, AcquiredFields
<1>3. /\ lifecycle' = [lifecycle EXCEPT ![i] = word]
      /\ ref' = [ref EXCEPT ![r] = idx[p]]
      /\ pc' = [pc EXCEPT ![p] = "idle"]
      /\ UNCHANGED <<contents, processor, issued, removed, pool>>
  BY <1>0, <1>1 DEF GetCas, StoreWord, GoOn
<1>4. GoOn(p, "idle", idx[p], word)
  BY DEF GetCas, GoOn
<1> HIDE DEF word
<1>5. \A q \in Procs : ~Owner(q, i)
  BY <1>0, <1>1, AllocatedNotOwned
<1>6. /\ ref' \in [RefVars -> Idxs \cup {None}] /\ ref'[r] = idx[p]
      /\ \A t \in RefVars \ {r} : ref'[t] = ref[t]
  BY <1>1, <1>3, Located DEF PoolTypeOK, SlotTypeOK
<1>7. \A q \in Procs \ {p}, l \in Locals : ref'[<<q, l>>] = ref[<<q, l>>]
  BY <1>6 DEF RefVars
<1>8. /\ PoolTypeOK' /\ OneOwner' /\ NoAssertFails'
      /\ \A j \in Slots : SlotAt(j)'
      /\ \A q \in Procs : OwnerAt(q)'
      /\ \A q \in Procs : LoopAt(q)'
      /\ \A x \in issued' : IssuedAt(x)'
      /\ \A x \in removed : lifecycle'[x.index].generation = x.generation =>
                              lifecycle'[x.index].state # "Allocated"
  <2>1. removed \subseteq removed' /\ removed' \subseteq issued
    BY <1>3 DEF PoolInv
  <2>2. word \in Words /\ word.generation = old.generation /\ word.state = "Allocated" /\ old.state = "Allocated"
    BY <1>1, <1>2
  <2>3. ref' \in [RefVars -> Idxs \cup {None}]
    BY <1>6
  <2>4. /\ lifecycle' = [lifecycle EXCEPT ![i] = word]
        /\ UNCHANGED <<contents, processor, pool, issued>>
    BY <1>3
  <2> HIDE DEF r
  <2> QED
    BY <1>0, <1>4, <1>5, <1>7, <2>1, <2>2, <2>3, <2>4, ExchangeKeeps
<1>9. (removed \subseteq issued)' /\ RemovedStaysDead'
  BY <1>3, <1>8 DEF PoolInv, RemovedStaysDead
<1>10. lifecycle'[i] = word /\ \A j \in Slots \ {i} : lifecycle'[j] = lifecycle[j]
  BY <1>3, Located DEF PoolTypeOK, SlotTypeOK
<1>11. RefProtectsValue'
  <2> SUFFICES ASSUME NEW t \in RefVars, ref'[t] # None
               PROVE  /\ lifecycle'[ref'[t].index].generation = ref'[t].generation
                      /\ lifecycle'[ref'[t].index].state \in {"Allocated", "Zombie"}
                      /\ contents'[ref'[t].index] = ref'[t].generation
    BY DEF RefProtectsValue
  <2>1. CASE t = r
    <3>1. contents[i] = old.generation
      BY <1>0, <1>1, <1>5, Located DEF SlotAt
    <3> QED
      BY <1>0, <1>1, <1>2, <1>3, <1>6, <1>10, <2>1, <3>1
  <2>2. CASE t # r
    <3>1. /\ ref'[t] = ref[t] /\ ref[t].index \in Slots
          /\ lifecycle[ref[t].index].generation = ref[t].generation
          /\ lifecycle[ref[t].index].state \in {"Allocated", "Zombie"}
          /\ contents[ref[t].index] = ref[t].generation
      BY <1>6, <2>2, Counted DEF PoolInv, RefProtectsValue
    <3> QED
      BY <1>2, <1>3, <1>10, <3>1
  <2> QED
    BY <2>1, <2>2
<1>12. RefCountExact'
  <2>1. r \notin RefsTo(i) /\ RefsTo(i) \subseteq RefVars
    BY <1>1 DEF RefsTo
  <2>2. IsFiniteSet(RefsTo(i))
    BY <2>1, RefsFinite, FS_Subset
  <2>3. RefsTo(i)' = RefsTo(i) \cup {r}
    BY <1>0, <1>1, <1>6 DEF RefsTo
  <2>4. Cardinality(RefsTo(i)') = Cardinality(RefsTo(i)) + 1
    BY <2>1, <2>2, <2>3, FS_AddElement
  <2>5. \A j \in Slots \ {i} : RefsTo(j)' = RefsTo(j)
    BY <1>0, <1>1, <1>6 DEF RefsTo
  <2>6. \A j \in Slots : lifecycle[j].refcount = Cardinality(RefsTo(j))
    BY DEF PoolInv, RefCountExact
  <2>7. \A j \in Slots : lifecycle'[j].refcount = Cardinality(RefsTo(j)')
    BY <1>2, <1>10, <2>4, <2>5, <2>6
  <2> QED
    BY <2>7 DEF RefCountExact
<1> QED
  BY <1>8, <1>9, <1>11, <1>12 DEF PoolInv

\* The last reference to a zombie makes its processor the owner.
LEMMA ReleaseCasKeeps ==
  ASSUME PoolInv, NEW p \in Procs, NEW k \in Locals, ReleaseCas(p, k), UNCHANGED pool
  PROVE  PoolInv'
<1>0. PICK i \in Slots : i = idx[p].index
  BY Located
<1> DEFINE old == lifecycle[i]
           word == ReleasedWord(old)
           s == IF ShouldClear(word) THEN "clear_load" ELSE "idle"
           r == <<p, k>>
<1>1. /\ pc[p] = "release_cas" /\ prev[p] = old /\ old \in Words
      /\ old.state # "Unallocated" /\ old.refcount # 0
      /\ r \in RefVars /\ ref[r] = idx[p] /\ idx[p] # None
  BY <1>0, Located, ConstantTypes DEF ReleaseCas, Exchanges, LoopAt, RefVars
<1>2. /\ word \in Words /\ word.state = old.state /\ word.generation = old.generation
      /\ word.refcount = old.refcount - 1
  BY <1>1, ReleasedFields
<1>3. /\ lifecycle' = [lifecycle EXCEPT ![i] = word]
      /\ ref' = [ref EXCEPT ![r] = None]
      /\ GoOn(p, s, idx[p], word)
      /\ UNCHANGED <<contents, processor, issued, removed, pool>>
  BY <1>0, <1>1 DEF ReleaseCas, StoreWord
<1>4. /\ s \in {"idle", "clear_load"}
      /\ s = "clear_load" => word.refcount = 0 /\ word.state # "Allocated"
  BY DEF ShouldClear
<1> HIDE DEF word, s
<1>5. \A q \in Procs : ~Owner(q, i)
  BY <1>1, ReferencedNotOwned
<1>6. /\ ref' \in [RefVars -> Idxs \cup {None}] /\ ref'[r] = None
      /\ \A t \in RefVars \ {r} : ref'[t] = ref[t]
  BY <1>1, <1>3, Located DEF PoolTypeOK, SlotTypeOK
<1>7. \A q \in Procs \ {p}, l \in Locals : ref'[<<q, l>>] = ref[<<q, l>>]
  BY <1>6 DEF RefVars
<1>8. /\ PoolTypeOK' /\ OneOwner' /\ NoAssertFails'
      /\ \A j \in Slots : SlotAt(j)'
      /\ \A q \in Procs : OwnerAt(q)'
      /\ \A q \in Procs : LoopAt(q)'
      /\ \A x \in issued' : IssuedAt(x)'
      /\ \A x \in removed : lifecycle'[x.index].generation = x.generation =>
                              lifecycle'[x.index].state # "Allocated"
  <2>1. removed \subseteq removed' /\ removed' \subseteq issued
    BY <1>3 DEF PoolInv
  <2>2. /\ word \in Words /\ word.generation = old.generation /\ old.state # "Unallocated"
        /\ word.state = "Allocated" => old.state = "Allocated"
        /\ word.state # "Unallocated"
    BY <1>1, <1>2
  <2>3. ref' \in [RefVars -> Idxs \cup {None}]
    BY <1>6
  <2>4. /\ lifecycle' = [lifecycle EXCEPT ![i] = word] /\ GoOn(p, s, idx[p], word)
        /\ UNCHANGED <<contents, processor, pool, issued>>
    BY <1>3
  <2> HIDE DEF r
  <2> QED
    BY <1>0, <1>4, <1>5, <1>7, <2>1, <2>2, <2>3, <2>4, ExchangeKeeps
<1>9. (removed \subseteq issued)' /\ RemovedStaysDead'
  BY <1>3, <1>8 DEF PoolInv, RemovedStaysDead
<1>10. lifecycle'[i] = word /\ \A j \in Slots \ {i} : lifecycle'[j] = lifecycle[j]
  BY <1>3, Located DEF PoolTypeOK, SlotTypeOK
<1>11. RefProtectsValue'
  <2> SUFFICES ASSUME NEW t \in RefVars, ref'[t] # None
               PROVE  /\ lifecycle'[ref'[t].index].generation = ref'[t].generation
                      /\ lifecycle'[ref'[t].index].state \in {"Allocated", "Zombie"}
                      /\ contents'[ref'[t].index] = ref'[t].generation
    BY DEF RefProtectsValue
  <2>1. /\ ref'[t] = ref[t] /\ ref[t].index \in Slots
        /\ lifecycle[ref[t].index].generation = ref[t].generation
        /\ lifecycle[ref[t].index].state \in {"Allocated", "Zombie"}
        /\ contents[ref[t].index] = ref[t].generation
    BY <1>6, Counted DEF PoolInv, RefProtectsValue
  <2> QED
    BY <1>2, <1>3, <1>10, <2>1
<1>12. RefCountExact'
  <2>1. r \in RefsTo(i) /\ RefsTo(i) \subseteq RefVars
    BY <1>0, <1>1 DEF RefsTo
  <2>2. IsFiniteSet(RefsTo(i))
    BY <2>1, RefsFinite, FS_Subset
  <2>3. RefsTo(i)' = RefsTo(i) \ {r}
    BY <1>0, <1>1, <1>6 DEF RefsTo
  <2>4. Cardinality(RefsTo(i)') = Cardinality(RefsTo(i)) - 1
    <3>1. Cardinality(RefsTo(i) \ {r}) = Cardinality(RefsTo(i)) - 1
      BY <2>1, <2>2, FS_RemoveElement
    <3> QED
      BY <2>3, <3>1
  <2>5. \A j \in Slots \ {i} : RefsTo(j)' = RefsTo(j)
    BY <1>0, <1>1, <1>6 DEF RefsTo
  <2>6. \A j \in Slots : lifecycle[j].refcount = Cardinality(RefsTo(j))
    BY DEF PoolInv, RefCountExact
  <2>7. \A j \in Slots : lifecycle'[j].refcount = Cardinality(RefsTo(j)')
    BY <1>2, <1>10, <2>4, <2>5, <2>6
  <2> QED
    BY <2>7 DEF RefCountExact
<1> QED
  BY <1>8, <1>9, <1>11, <1>12 DEF PoolInv
-----------------------------------------------------------------------------
(* Results                                                                 *)

\* Initially all slots are free.
LEMMA PoolInvInit == PoolInit => PoolInv
<1> SUFFICES ASSUME PoolInit PROVE PoolInv
  OBVIOUS
<1> USE DEF PoolInit, SlotInit
<1>1. PoolTypeOK
  BY ConstantTypes DEF PoolTypeOK, SlotTypeOK, Steps
<1>2. \A p \in Procs : pc[p] = "idle" /\ pc[p] \notin OwnerSteps
  BY OwnerStepsAreSteps
<1>3. OneOwner /\ NoAssertFails
  BY <1>2 DEF OneOwner, NoAssertFails
<1>4. \A i \in Slots : SlotAt(i)
  BY <1>2 DEF SlotAt, Owner, NewWord
<1>5. \A p \in Procs : OwnerAt(p) /\ LoopAt(p)
  BY <1>2 DEF OwnerAt, LoopAt, OwnerSteps, AllocateSteps, ClearSteps, ReturnSteps
<1>6. RefProtectsValue /\ RemovedStaysDead
  BY DEF RefProtectsValue, RemovedStaysDead
<1>7. RefCountExact
  <2>1. \A i \in Slots : RefsTo(i) = {}
    BY DEF RefsTo
  <2>2. Cardinality({}) = 0
    BY FS_EmptySet
  <2> QED
    BY <2>1, <2>2 DEF RefCountExact, NewWord
<1> QED
  BY <1>1, <1>3, <1>4, <1>5, <1>6, <1>7 DEF PoolInv

\* Every step keeps the invariant.
LEMMA PoolInvNext == PoolInv /\ [PoolNext]_poolVars => PoolInv'
<1> SUFFICES ASSUME PoolInv, [PoolNext]_poolVars PROVE PoolInv'
  OBVIOUS
<1>1. CASE UNCHANGED poolVars
  <2>1. UNCHANGED <<lifecycle, contents, processor, pc, idx, prev, ref, issued, removed, pool>>
    BY <1>1 DEF poolVars, slotVars
  <2>2. PoolTypeOK' /\ OneOwner' /\ NoAssertFails' /\ RefProtectsValue' /\ RemovedStaysDead'
    BY <2>1 DEF PoolInv, PoolTypeOK, SlotTypeOK, OneOwner, NoAssertFails, RefProtectsValue, RemovedStaysDead
  <2>3. \A i \in Slots : SlotAt(i)'
    BY <2>1 DEF PoolInv, SlotAt, Owner
  <2>4. \A p \in Procs : OwnerAt(p)'
    BY <2>1 DEF PoolInv, OwnerAt
  <2>5. \A p \in Procs : LoopAt(p)'
    BY <2>1 DEF PoolInv, LoopAt
  <2>6. (removed \subseteq issued)' /\ \A x \in issued' : IssuedAt(x)'
    BY <2>1 DEF PoolInv, IssuedAt
  <2>7. RefCountExact'
    BY <2>1, CountsSame DEF PoolInv
  <2> QED
    BY <2>2, <2>3, <2>4, <2>5, <2>6, <2>7 DEF PoolInv
<1>2. ASSUME NEW p \in Procs, TakeSlot(p) PROVE PoolInv'
  BY <1>2, TakeSlotKeeps
<1>3. ASSUME NEW p \in Procs, GiveSlot(p) PROVE PoolInv'
  BY <1>3, GiveSlotKeeps
<1>4. ASSUME NEW p \in Procs, SlotCall(p), UNCHANGED pool PROVE PoolInv'
  <2>0. pc[p] = "idle" => pc[p] \notin OwnerSteps
    BY OwnerStepsAreSteps
  <2>1. ASSUME NEW x \in issued, GetLoad(p, x) PROVE PoolInv'
    BY <1>4, <2>0, <2>1, AcquireLoads DEF GetLoad
  <2>2. ASSUME NEW x \in issued, RemoveLoad(p, x) PROVE PoolInv'
    BY <1>4, <2>0, <2>2, MarkLoads DEF RemoveLoad
  <2>3. ASSUME NEW k \in Locals, DropLoad(p, k) PROVE PoolInv'
    BY <1>4, <2>0, <2>3, ReleaseLoads DEF DropLoad
  <2> QED
    BY <1>4, <2>1, <2>2, <2>3 DEF SlotCall
<1>5. ASSUME NEW p \in Procs, SlotStep(p), UNCHANGED pool PROVE PoolInv'
  <2>0. pc[p] \in {"get_cas", "release_cas", "remove_cas"} => pc[p] \notin OwnerSteps
    BY DEF OwnerSteps, AllocateSteps, ClearSteps, ReturnSteps
  <2>1. CASE AllocateLoad(p)
    BY <1>5, <2>1, AllocateLoadKeeps
  <2>2. CASE AllocateStore(p)
    BY <1>5, <2>2, AllocateStoreKeeps
  <2>3. CASE AllocateWrite(p)
    BY <1>5, <2>3, AllocateWriteKeeps
  <2>4. ASSUME NEW k \in Locals, GetCas(p, k) PROVE PoolInv'
    BY <1>5, <2>4, GetCasKeeps
  <2>5. ASSUME NEW k \in Locals, ReleaseCas(p, k) PROVE PoolInv'
    BY <1>5, <2>5, ReleaseCasKeeps
  <2>6. CASE GetCasFails(p)
    BY <1>5, <2>0, <2>6, Located, AcquireLoads DEF GetCasFails, LoopAt
  <2>7. CASE ReleaseCasFails(p)
    <3>1. PICK k \in Locals : ref[<<p, k>>] = idx[p]
      BY <2>7, Located DEF ReleaseCasFails, LoopAt
    <3>2. ref[<<p, k>>] # None
      BY <3>1, Located, ConstantTypes
    <3>3. LoadWord(p, ref[<<p, k>>], ReleaseCheck(lifecycle[ref[<<p, k>>].index], ref[<<p, k>>]))
      BY <2>7, <3>1 DEF ReleaseCasFails
    <3> QED
      BY <1>5, <2>0, <2>7, <3>2, <3>3, ReleaseLoads DEF ReleaseCasFails
  <2>8. CASE RemoveCas(p)
    BY <1>5, <2>8, RemoveCasKeeps
  <2>9. CASE RemoveCasFails(p)
    BY <1>5, <2>0, <2>9, Located, MarkLoads DEF RemoveCasFails, LoopAt
  <2>10. CASE ClearLoad(p)
    BY <1>5, <2>10, ClearLoadKeeps
  <2>11. CASE ClearStore(p)
    BY <1>5, <2>11, ClearStoreKeeps
  <2>12. CASE ClearContents(p)
    BY <1>5, <2>12, ClearContentsKeeps
  <2> QED
    BY <1>5, <2>1, <2>2, <2>3, <2>4, <2>5, <2>6, <2>7, <2>8, <2>9, <2>10, <2>11, <2>12 DEF SlotStep
<1> QED
  BY <1>1, <1>2, <1>3, <1>4, <1>5 DEF PoolNext, PoolStep

\* The slots over a pool of free slots keep the invariant, whatever the numbers of
\* processors, slots, Refs, generations and references.
THEOREM PoolInvariant == PoolSpec => []PoolInv
BY PoolInvInit, PoolInvNext, PTL DEF PoolSpec

\* Active references prevent slab entries from being removed: Deref always sees the
\* value that get found.
THEOREM RefsProtect == PoolSpec => []RefProtectsValue
<1>1. PoolInv => RefProtectsValue
  BY DEF PoolInv
<1> QED
  BY <1>1, PoolInvariant, PTL

\* The count packed in the lifecycle word is the number of Refs.
THEOREM RefsCounted == PoolSpec => []RefCountExact
<1>1. PoolInv => RefCountExact
  BY DEF PoolInv
<1> QED
  BY <1>1, PoolInvariant, PTL

\* The assertions of drop_reference, allocate and clear hold.
THEOREM AssertionsHold == PoolSpec => []NoAssertFails
<1>1. PoolInv => NoAssertFails
  BY DEF PoolInv
<1> QED
  BY <1>1, PoolInvariant, PTL

\* An Idx that remove accepted is never accepted again.
THEOREM RemovedIsDead == PoolSpec => []RemovedStaysDead
<1>1. PoolInv => RemovedStaysDead
  BY DEF PoolInv
<1> QED
  BY <1>1, PoolInvariant, PTL

\* A slot is free, in one operation's hands or in use, and clear drops the value of the
\* slot's generation.
THEOREM SlotsHaveOneOwner == PoolSpec => []SlotsOwned
<1>1. PoolInv => SlotsOwned
  <2> SUFFICES ASSUME PoolInv PROVE SlotsOwned
    OBVIOUS
  <2>1. PoolTypeOK /\ OneOwner
    BY DEF PoolInv
  <2>2. PoolIsFree
    BY DEF PoolInv, PoolIsFree, SlotAt, Owner
  <2>3. DropsLiveValue
    BY DEF PoolInv, DropsLiveValue, OwnerAt, ClearSteps
  <2> QED
    BY <2>1, <2>2, <2>3 DEF SlotsOwned
<1> QED
  BY <1>1, PoolInvariant, PTL
=============================================================================
