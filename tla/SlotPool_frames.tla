----------------------------- MODULE SlotPool_frames -----------------------------
(***************************************************************************)
(* The inductive invariant of SlotPool, what a step keeps of it without    *)
(* being looked at, and the steps that only load a word.                   *)
(***************************************************************************)
EXTENDS SlotPool, FiniteSetTheorems, TLAPS

\* Processor p alone works on slot i.
Owner(p, i) == pc[p] \in OwnerSteps /\ idx[p].index = i

\* A slot is free, owned, or in use and holds the value of its generation.
SlotAt(i) ==
  LET word == lifecycle[i]
  IN  /\ word.state = "Unallocated" => word.refcount = 0
      /\ word.state # "Unallocated" => word.generation # 0
      /\ i \in pool => word.state = "Unallocated" /\ contents[i] = 0
      /\ i \in pool => \A p \in Procs : ~Owner(p, i)
      /\ i \notin pool => \/ \E p \in Procs : Owner(p, i)
                          \/ word.state # "Unallocated" /\ contents[i] = word.generation

\* What an owner has found and done so far.
OwnerAt(p) ==
  LET i == idx[p].index
      word == lifecycle[i]
  IN  /\ pc[p] \in OwnerSteps => word.refcount = 0
      /\ pc[p] \in {"allocate_load", "allocate_store", "generation_overflow"} \cup ReturnSteps =>
           word.state = "Unallocated" /\ contents[i] = 0
      /\ pc[p] = "allocate_store" => prev[p] = word /\ word.generation < GenLimit
      /\ pc[p] = "allocate_write" =>
           word.state = "Allocated" /\ word.generation = idx[p].generation /\ contents[i] = 0
      /\ pc[p] \in ClearSteps =>
           word.state # "Allocated" /\ word.generation # 0 /\ contents[i] = word.generation
      /\ pc[p] = "clear_store" => prev[p] = word
      /\ pc[p] = "clear_contents" => word.state = "Unallocated"

\* What the loops have checked of the word they are about to exchange.
LoopAt(p) ==
  /\ pc[p] \in {"get_cas", "remove_cas"} =>
       idx[p] \in issued /\ prev[p].state = "Allocated" /\ prev[p].generation = idx[p].generation
  /\ pc[p] = "get_cas" => prev[p].refcount # RefLimit
  /\ pc[p] = "release_cas" =>
       /\ prev[p].state # "Unallocated" /\ prev[p].refcount # 0
       /\ prev[p].generation = idx[p].generation
       /\ \E k \in Locals : ref[<<p, k>>] = idx[p]

\* An Idx is from the current generation of its slot or an earlier one, and a value
\* that is still being inserted has none.
IssuedAt(x) ==
  /\ x.generation <= lifecycle[x.index].generation
  /\ \A p \in Procs : pc[p] = "allocate_write" /\ idx[p].index = x.index =>
       x.generation # lifecycle[x.index].generation

\* The inductive invariant.
PoolInv ==
  /\ PoolTypeOK
  /\ OneOwner
  /\ \A i \in Slots : SlotAt(i)
  /\ \A p \in Procs : OwnerAt(p)
  /\ \A p \in Procs : LoopAt(p)
  /\ \A x \in issued : IssuedAt(x)
  /\ removed \subseteq issued
  /\ RemovedStaysDead
  /\ RefProtectsValue
  /\ RefCountExact
  /\ NoAssertFails
-----------------------------------------------------------------------------
(* Types, the words that steps store, and counting of references           *)

\* A step of p leaves the local variables of other processors alone.
Others(p) == \A q \in Procs \ {p} : pc'[q] = pc[q] /\ idx'[q] = idx[q] /\ prev'[q] = prev[q]

USE SizeAssumption, SlotAssumption

\* The initial word and Idx, and None.
LEMMA ConstantTypes ==
  NewWord \in Words /\ NoIdx \in Idxs /\ None \notin Idxs
BY DEF NewWord, NoIdx, Words, Idxs, States, Slots

\* The owner's steps among all.
LEMMA OwnerStepsAreSteps ==
  OwnerSteps \subseteq Steps /\ "idle" \in Steps /\ "idle" \notin OwnerSteps
BY DEF Steps, OwnerSteps, AllocateSteps, ClearSteps, ReturnSteps

\* What GoOn does to the local variables.
LEMMA GoOnLocals ==
  ASSUME PoolTypeOK, NEW p \in Procs, NEW s \in Steps, NEW x \in Idxs, NEW w \in Words, GoOn(p, s, x, w)
  PROVE  /\ pc' \in [Procs -> Steps] /\ idx' \in [Procs -> Idxs] /\ prev' \in [Procs -> Words]
         /\ Others(p) /\ pc'[p] = s
         /\ s # "idle" => idx'[p] = x /\ prev'[p] = w
<1>1. pc \in [Procs -> Steps] /\ idx \in [Procs -> Idxs] /\ prev \in [Procs -> Words]
  BY DEF PoolTypeOK, SlotTypeOK
<1>2. pc' \in [Procs -> Steps] /\ pc'[p] = s /\ \A q \in Procs \ {p} : pc'[q] = pc[q]
  BY <1>1 DEF GoOn
<1>3. idx' \in [Procs -> Idxs] /\ (s # "idle" => idx'[p] = x) /\ \A q \in Procs \ {p} : idx'[q] = idx[q]
  BY <1>1, ConstantTypes DEF GoOn
<1>4. prev' \in [Procs -> Words] /\ (s # "idle" => prev'[p] = w) /\ \A q \in Procs \ {p} : prev'[q] = prev[q]
  BY <1>1, ConstantTypes DEF GoOn
<1> QED
  BY <1>2, <1>3, <1>4 DEF Others

\* The word that allocate stores.
LEMMA AllocatedFields ==
  ASSUME NEW w \in Words, w.generation < GenLimit
  PROVE  /\ AllocatedWord(w) \in Words /\ AllocatedWord(w).state = "Allocated"
         /\ AllocatedWord(w).generation = w.generation + 1 /\ AllocatedWord(w).refcount = w.refcount
<1>1. w.generation \in 0 .. GenLimit
  BY DEF Words
<1>2. w.generation + 1 \in 0 .. GenLimit
  BY <1>1
<1> QED
  BY <1>2 DEF AllocatedWord, Words, States

\* The word that get stores.
LEMMA AcquiredFields ==
  ASSUME NEW w \in Words, w.refcount # RefLimit
  PROVE  /\ AcquiredWord(w) \in Words /\ AcquiredWord(w).state = w.state
         /\ AcquiredWord(w).generation = w.generation /\ AcquiredWord(w).refcount = w.refcount + 1
BY DEF AcquiredWord, Words, States

\* The word that the drop of a Ref stores.
LEMMA ReleasedFields ==
  ASSUME NEW w \in Words, w.refcount # 0
  PROVE  /\ ReleasedWord(w) \in Words /\ ReleasedWord(w).state = w.state
         /\ ReleasedWord(w).generation = w.generation /\ ReleasedWord(w).refcount = w.refcount - 1
BY DEF ReleasedWord, Words, States

\* The word that remove stores.
LEMMA MarkedFields ==
  ASSUME NEW w \in Words
  PROVE  /\ MarkedWord(w) \in Words
         /\ MarkedWord(w).state = IF w.refcount = 0 THEN "Unallocated" ELSE "Zombie"
         /\ MarkedWord(w).generation = w.generation /\ MarkedWord(w).refcount = w.refcount
BY DEF MarkedWord, Words, States

\* The word that clear stores.
LEMMA ClearedFields ==
  ASSUME NEW w \in Words
  PROVE  /\ ClearedWord(w) \in Words /\ ClearedWord(w).state = "Unallocated"
         /\ ClearedWord(w).generation = w.generation /\ ClearedWord(w).refcount = w.refcount
BY DEF ClearedWord, Words, States

\* There are finitely many variables for Refs.
LEMMA RefsFinite == IsFiniteSet(RefVars)
BY FS_Product DEF RefVars

\* A slot with a Ref has a count.
LEMMA Counted ==
  ASSUME PoolTypeOK, RefCountExact, NEW r \in RefVars, ref[r] # None
  PROVE  ref[r].index \in Slots /\ lifecycle[ref[r].index].refcount # 0
<1> DEFINE i == ref[r].index
<1>1. ref[r] \in Idxs /\ i \in Slots
  BY DEF PoolTypeOK, SlotTypeOK, Idxs
<1>2. r \in RefsTo(i) /\ RefsTo(i) \subseteq RefVars
  BY DEF RefsTo
<1>3. IsFiniteSet(RefsTo(i))
  BY <1>2, RefsFinite, FS_Subset
<1>4. Cardinality(RefsTo(i)) # 0
  BY <1>2, <1>3, FS_EmptySet
<1> QED
  BY <1>1, <1>4 DEF RefCountExact

\* A step that changes no Ref and no count keeps counts exact.
LEMMA CountsSame ==
  ASSUME RefCountExact, ref' = ref, \A i \in Slots : lifecycle'[i].refcount = lifecycle[i].refcount
  PROVE  RefCountExact'
<1>1. \A i : RefsTo(i)' = RefsTo(i)
  BY DEF RefsTo
<1> QED
  BY <1>1 DEF RefCountExact
-----------------------------------------------------------------------------
(* Frames: what a step keeps without being looked at                       *)

\* A step of p inside a loop or at its start, which touches local variables only.
LEMMA LocalStep ==
  ASSUME PoolInv, NEW p \in Procs, PoolTypeOK', Others(p),
         UNCHANGED <<lifecycle, contents, ref, issued, removed, pool>>,
         \A i \in Slots : Owner(p, i)' <=> Owner(p, i),
         OwnerAt(p)', LoopAt(p)', pc'[p] \notin {"assert_failed", "allocate_write"}
  PROVE  PoolInv'
<1>1. \A q \in Procs, i \in Slots : Owner(q, i)' <=> Owner(q, i)
  BY DEF Others, Owner
<1>2. \A q \in Procs : idx[q].index \in Slots /\ idx'[q].index \in Slots
  BY DEF PoolInv, PoolTypeOK, SlotTypeOK, Idxs
<1>3. OneOwner'
  BY <1>1, <1>2 DEF PoolInv, OneOwner, Owner
<1>4. \A i \in Slots : SlotAt(i)'
  BY <1>1 DEF PoolInv, SlotAt
<1>5. \A q \in Procs : OwnerAt(q)'
  BY DEF PoolInv, OwnerAt, Others
<1>6. \A q \in Procs : LoopAt(q)'
  BY DEF PoolInv, LoopAt, Others
<1>7. \A x \in issued' : IssuedAt(x)'
  BY DEF PoolInv, IssuedAt, Others
<1>8. RefCountExact'
  BY CountsSame DEF PoolInv
<1>9. (removed \subseteq issued)' /\ RemovedStaysDead' /\ RefProtectsValue'
  BY DEF PoolInv, RemovedStaysDead, RefProtectsValue
<1>10. NoAssertFails'
  BY DEF PoolInv, NoAssertFails, Others
<1> QED
  BY <1>3, <1>4, <1>5, <1>6, <1>7, <1>8, <1>9, <1>10 DEF PoolInv

\* A step that begins no generation keeps what is known of every Idx.
LEMMA GenerationsSame ==
  ASSUME PoolInv, NEW p \in Procs, Others(p), pc'[p] # "allocate_write",
         \A j \in Slots : /\ lifecycle'[j].generation = lifecycle[j].generation
                          /\ lifecycle'[j].state = "Allocated" => lifecycle[j].state = "Allocated"
  PROVE  /\ \A x \in issued : IssuedAt(x)'
         /\ \A x \in removed : lifecycle'[x.index].generation = x.generation =>
                                 lifecycle'[x.index].state # "Allocated"
<1>1. \A x \in issued : x.index \in Slots /\ IssuedAt(x)
  BY DEF PoolInv, PoolTypeOK, SlotTypeOK, Idxs
<1>2. \A q \in Procs : pc'[q] = "allocate_write" => pc[q] = "allocate_write" /\ idx'[q] = idx[q]
  BY DEF Others
<1>3. \A x \in issued : IssuedAt(x)'
  BY <1>1, <1>2 DEF IssuedAt
<1>4. removed \subseteq issued /\ RemovedStaysDead
  BY DEF PoolInv
<1> QED
  BY <1>1, <1>3, <1>4 DEF RemovedStaysDead

\* A step of p on slot i, which nobody else owns: what p and i keep, all keep.
LEMMA SlotStepKeeps ==
  ASSUME PoolInv, NEW p \in Procs, NEW i \in Slots, PoolTypeOK', Others(p),
         \A j \in Slots \ {i} : lifecycle'[j] = lifecycle[j] /\ contents'[j] = contents[j]
                                /\ (j \in pool' <=> j \in pool),
         \A j \in Slots \ {i} : Owner(p, j)' <=> Owner(p, j),
         \A q \in Procs \ {p} : ~Owner(q, i),
         \A q \in Procs \ {p}, k \in Locals : ref'[<<q, k>>] = ref[<<q, k>>],
         issued \subseteq issued',
         SlotAt(i)', OwnerAt(p)', LoopAt(p)', pc'[p] # "assert_failed"
  PROVE  /\ OneOwner' /\ NoAssertFails'
         /\ \A j \in Slots : SlotAt(j)'
         /\ \A q \in Procs : OwnerAt(q)'
         /\ \A q \in Procs : LoopAt(q)'
<1>1. \A q \in Procs \ {p}, j \in Slots : Owner(q, j)' <=> Owner(q, j)
  BY DEF Others, Owner
<1>2. \A q \in Procs, j \in Slots \ {i} : Owner(q, j)' <=> Owner(q, j)
  BY <1>1
<1>3. \A q \in Procs : idx[q].index \in Slots /\ idx'[q].index \in Slots
  BY DEF PoolInv, PoolTypeOK, SlotTypeOK, Idxs
<1>4. OneOwner'
  <2> SUFFICES ASSUME NEW q \in Procs, NEW r \in Procs, NEW j \in Slots, Owner(q, j)', Owner(r, j)'
               PROVE  q = r
    BY <1>3 DEF OneOwner, Owner
  <2>1. CASE j = i
    BY <1>1, <2>1
  <2>2. CASE j # i
    BY <1>2, <2>2 DEF PoolInv, OneOwner, Owner
  <2> QED
    BY <2>1, <2>2
<1>5. ASSUME NEW j \in Slots PROVE SlotAt(j)'
  <2>1. CASE j # i
    <3>1. SlotAt(j)
      BY DEF PoolInv
    <3> QED
      BY <1>2, <2>1, <3>1 DEF SlotAt
  <2> QED
    BY <2>1
<1>6. ASSUME NEW q \in Procs PROVE OwnerAt(q)'
  <2>1. CASE q # p
    <3>1. pc'[q] = pc[q] /\ idx'[q] = idx[q] /\ prev'[q] = prev[q] /\ OwnerAt(q)
      BY <2>1 DEF Others, PoolInv
    <3>2. CASE pc[q] \in OwnerSteps
      <4>1. idx[q].index # i
        BY <2>1, <3>2 DEF Owner
      <4>2. lifecycle'[idx[q].index] = lifecycle[idx[q].index] /\ contents'[idx[q].index] = contents[idx[q].index]
        BY <1>3, <4>1
      <4> QED
        BY <3>1, <4>2 DEF OwnerAt
    <3>3. CASE pc[q] \notin OwnerSteps
      BY <3>1, <3>3 DEF OwnerAt, OwnerSteps, AllocateSteps, ClearSteps, ReturnSteps
    <3> QED
      BY <3>2, <3>3
  <2> QED
    BY <2>1
<1>7. ASSUME NEW q \in Procs PROVE LoopAt(q)'
  <2>1. CASE q # p
    <3>1. pc'[q] = pc[q] /\ idx'[q] = idx[q] /\ prev'[q] = prev[q] /\ LoopAt(q)
      BY <2>1 DEF Others, PoolInv
    <3> QED
      BY <2>1, <3>1 DEF LoopAt
  <2> QED
    BY <2>1
<1>8. NoAssertFails'
  BY DEF PoolInv, NoAssertFails, Others
<1> QED
  BY <1>4, <1>5, <1>6, <1>7, <1>8
-----------------------------------------------------------------------------
(* Loading a word, and the steps of a loop that do not exchange it         *)

\* Facts about the operation that p is in.
LEMMA Located ==
  ASSUME PoolInv, NEW p \in Procs
  PROVE  /\ PoolTypeOK /\ OwnerAt(p) /\ LoopAt(p)
         /\ pc[p] \in Steps /\ idx[p] \in Idxs /\ prev[p] \in Words
         /\ idx[p].index \in Slots /\ lifecycle[idx[p].index] \in Words
         /\ SlotAt(idx[p].index)
BY DEF PoolInv, PoolTypeOK, SlotTypeOK, Idxs

\* A load outside the owner's steps: the step it goes on with is one of a loop whose
\* check the loaded word has passed.
LEMMA LoadKeeps ==
  ASSUME PoolInv, NEW p \in Procs, NEW x \in Idxs, NEW s \in Steps \ OwnerSteps,
         pc[p] \notin OwnerSteps, LoadWord(p, x, s), UNCHANGED pool, s # "assert_failed",
         LET word == lifecycle[x.index]
         IN  /\ s \in {"get_cas", "remove_cas"} =>
                  x \in issued /\ word.state = "Allocated" /\ word.generation = x.generation
             /\ s = "get_cas" => word.refcount # RefLimit
             /\ s = "release_cas" =>
                  /\ word.state # "Unallocated" /\ word.refcount # 0 /\ word.generation = x.generation
                  /\ \E k \in Locals : ref[<<p, k>>] = x
  PROVE  PoolInv'
<1>1. PoolTypeOK /\ lifecycle[x.index] \in Words
  BY DEF PoolInv, PoolTypeOK, SlotTypeOK, Idxs
<1>2. /\ GoOn(p, s, x, lifecycle[x.index])
      /\ UNCHANGED <<lifecycle, contents, processor, ref, issued, removed, pool>>
  BY DEF LoadWord
<1>3. /\ pc' \in [Procs -> Steps] /\ idx' \in [Procs -> Idxs] /\ prev' \in [Procs -> Words]
      /\ Others(p) /\ pc'[p] = s
      /\ s # "idle" => idx'[p] = x /\ prev'[p] = lifecycle[x.index]
  BY <1>1, <1>2, GoOnLocals
<1>4. PoolTypeOK'
  BY <1>1, <1>2, <1>3 DEF PoolTypeOK, SlotTypeOK
<1>5. \A i \in Slots : ~Owner(p, i) /\ ~Owner(p, i)'
  BY <1>3 DEF Owner
<1>6. OwnerAt(p)'
  BY <1>3 DEF OwnerAt, OwnerSteps, AllocateSteps, ClearSteps, ReturnSteps
<1>7. LoopAt(p)'
  <2>1. s # "idle" \/ pc'[p] = "idle"
    BY <1>3
  <2> QED
    BY <1>2, <1>3, <2>1 DEF LoopAt
<1>8. s # "allocate_write"
  BY DEF OwnerSteps, AllocateSteps
<1> QED
  BY <1>2, <1>3, <1>4, <1>5, <1>6, <1>7, <1>8, LocalStep

\* get, when it loads a word at first or after a failed exchange.
LEMMA AcquireLoads ==
  ASSUME PoolInv, NEW p \in Procs, NEW x \in issued, pc[p] \notin OwnerSteps, UNCHANGED pool,
         LoadWord(p, x, AcquireCheck(lifecycle[x.index], x))
  PROVE  PoolInv'
<1>1. x \in Idxs
  BY DEF PoolInv, PoolTypeOK, SlotTypeOK
<1>2. AcquireCheck(lifecycle[x.index], x) \in Steps \ OwnerSteps
  BY DEF AcquireCheck, Steps, OwnerSteps, AllocateSteps, ClearSteps, ReturnSteps
<1> QED
  BY <1>1, <1>2, LoadKeeps DEF AcquireCheck

\* remove, likewise.
LEMMA MarkLoads ==
  ASSUME PoolInv, NEW p \in Procs, NEW x \in issued, pc[p] \notin OwnerSteps, UNCHANGED pool,
         LoadWord(p, x, MarkCheck(lifecycle[x.index], x))
  PROVE  PoolInv'
<1>1. x \in Idxs
  BY DEF PoolInv, PoolTypeOK, SlotTypeOK
<1>2. MarkCheck(lifecycle[x.index], x) \in Steps \ OwnerSteps
  BY DEF MarkCheck, Steps, OwnerSteps, AllocateSteps, ClearSteps, ReturnSteps
<1> QED
  BY <1>1, <1>2, LoadKeeps DEF MarkCheck

\* The drop of a Ref: its own reference is counted, so that no check fails.
LEMMA ReleaseLoads ==
  ASSUME PoolInv, NEW p \in Procs, NEW k \in Locals, ref[<<p, k>>] # None, pc[p] \notin OwnerSteps,
         UNCHANGED pool,
         LoadWord(p, ref[<<p, k>>], ReleaseCheck(lifecycle[ref[<<p, k>>].index], ref[<<p, k>>]))
  PROVE  PoolInv'
<1> DEFINE x == ref[<<p, k>>]
           word == lifecycle[x.index]
<1>1. <<p, k>> \in RefVars
  BY DEF RefVars
<1>2. x \in Idxs
  BY <1>1 DEF PoolInv, PoolTypeOK, SlotTypeOK
<1>3. word.refcount # 0
  BY <1>1, Counted DEF PoolInv
<1>4. word.generation = x.generation /\ word.state # "Unallocated"
  BY <1>1 DEF PoolInv, RefProtectsValue
<1>5. ReleaseCheck(word, x) = "release_cas"
  BY <1>3, <1>4 DEF ReleaseCheck
<1>6. "release_cas" \in Steps \ OwnerSteps
  BY DEF Steps, OwnerSteps, AllocateSteps, ClearSteps, ReturnSteps
<1>7. LoadWord(p, x, "release_cas")
  BY <1>5
<1> HIDE DEF x
<1> QED
  BY <1>2, <1>3, <1>4, <1>6, <1>7, LoadKeeps DEF x
-----------------------------------------------------------------------------
(* What an owner keeps                                                     *)

\* An owner that only loads the word.
LEMMA OwnerLoads ==
  ASSUME PoolInv, NEW p \in Procs, NEW s \in OwnerSteps \ {"allocate_write"}, pc[p] \in OwnerSteps,
         GoOn(p, s, idx[p], lifecycle[idx[p].index]),
         UNCHANGED <<lifecycle, contents, processor, ref, issued, removed, pool>>,
         OwnerAt(p)'
  PROVE  PoolInv'
<1>1. /\ pc' \in [Procs -> Steps] /\ idx' \in [Procs -> Idxs] /\ prev' \in [Procs -> Words]
      /\ Others(p) /\ pc'[p] = s /\ idx'[p] = idx[p]
  BY Located, GoOnLocals, OwnerStepsAreSteps
<1>2. PoolTypeOK'
  BY <1>1, Located DEF PoolTypeOK, SlotTypeOK
<1>3. \A i \in Slots : Owner(p, i)' <=> Owner(p, i)
  BY <1>1 DEF Owner
<1>4. LoopAt(p)' /\ s # "assert_failed"
  BY <1>1 DEF LoopAt, OwnerSteps, AllocateSteps, ClearSteps, ReturnSteps
<1> QED
  BY <1>1, <1>2, <1>3, <1>4, LocalStep

\* A slot that p owns has no other owner and no Ref.
LEMMA OwnedAlone ==
  ASSUME PoolInv, NEW p \in Procs, pc[p] \in OwnerSteps
  PROVE  /\ \A q \in Procs \ {p} : ~Owner(q, idx[p].index)
         /\ \A r \in RefVars : ref[r] # None => ref[r].index # idx[p].index
         /\ idx[p].index \notin pool
<1>1. \A q \in Procs \ {p} : ~Owner(q, idx[p].index)
  BY DEF PoolInv, OneOwner, Owner
<1>2. lifecycle[idx[p].index].refcount = 0
  BY Located DEF OwnerAt
<1>3. \A r \in RefVars : ref[r] # None => ref[r].index # idx[p].index
  BY <1>2, Counted DEF PoolInv
<1>4. idx[p].index \notin pool
  BY Located DEF SlotAt, Owner
<1> QED
  BY <1>1, <1>3, <1>4

\* What is left to show for a step of an owner on its slot i: Refs are elsewhere.
LEMMA OwnerKeepsRefs ==
  ASSUME PoolInv, NEW p \in Procs, pc[p] \in OwnerSteps, ref' = ref,
         \A j \in Slots \ {idx[p].index} : lifecycle'[j] = lifecycle[j] /\ contents'[j] = contents[j],
         lifecycle'[idx[p].index].refcount = 0
  PROVE  RefProtectsValue' /\ RefCountExact'
<1>1. lifecycle[idx[p].index].refcount = 0
  BY Located DEF OwnerAt
<1>2. RefCountExact'
  BY <1>1, CountsSame DEF PoolInv
<1>3. ASSUME NEW r \in RefVars, ref[r] # None
      PROVE  ref[r].index \in Slots \ {idx[p].index}
  BY <1>3, OwnedAlone, Counted DEF PoolInv
<1>4. RefProtectsValue'
  BY <1>3 DEF PoolInv, RefProtectsValue
<1> QED
  BY <1>2, <1>4
=============================================================================
