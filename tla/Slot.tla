-------------------------------- MODULE Slot --------------------------------
(***************************************************************************)
(* Slot<T> of slab/src/slot.rs and the operations of Slab (slab/src/lib.rs)*)
(* that use it: insert, get, remove and the drop of a Ref, down to their   *)
(* atomic accesses of the packed lifecycle word.  Where a free slot comes  *)
(* from and where it goes is left to the modules that extend this one.     *)
(*                                                                         *)
(* The value stored in a slot is represented by the generation it was      *)
(* inserted under; 0 stands for uninitialised (or dropped) contents, since *)
(* the first allocation of a slot has generation 1.                        *)
(***************************************************************************)
EXTENDS SlabConstants, FiniteSets

CONSTANTS
  Locals,      \* the Ref variables each processor may keep at once
  GenLimit,    \* 2^46 - 1, the largest generation its bit field holds
  RefLimit,    \* 2^16 - 1, the largest reference count its bit field holds
  None         \* no processor, no Ref

VARIABLES
  lifecycle,   \* AtomicU64 of every slot: state, generation, refcount
  contents,    \* what every slot holds
  processor,   \* the processor every slot was allocated on
  pc,          \* per processor: the step of the operation it is in
  idx,         \* per processor: the Idx the operation is about
  prev,        \* per processor: the lifecycle word it loaded last
  ref,         \* the Refs held, by processor and variable
  issued,      \* history: every Idx that insert returned
  removed      \* history: every Idx that remove accepted

slotVars ==
  <<lifecycle, contents, processor, pc, idx, prev, ref, issued, removed>>

States == {"Allocated", "Unallocated", "Zombie"}
Words == [state : States, generation : 0 .. GenLimit, refcount : 0 .. RefLimit]
Idxs == [index : Slots, generation : 0 .. GenLimit]
RefVars == Procs \X Locals

ASSUME SlotAssumption ==
  /\ IsFiniteSet(Procs) /\ IsFiniteSet(Locals)
  /\ GenLimit \in Nat /\ RefLimit \in Nat
  /\ None \notin Procs /\ None \notin Idxs

\* The steps in which a processor is the only one to own the slot it works on.
AllocateSteps == {"allocate_load", "allocate_store", "allocate_write", "generation_overflow"}
ClearSteps == {"clear_load", "clear_store", "clear_contents"}
ReturnSteps == {"return_local", "return_global"}
OwnerSteps == AllocateSteps \cup ClearSteps \cup ReturnSteps
Steps == OwnerSteps \cup {"idle", "get_cas", "release_cas", "remove_cas",
                          "refcount_overflow", "assert_failed"}

\* Among the types are the widths of the bit fields: no generation and no
\* reference count ever leaves its own.
SlotTypeOK ==
  /\ lifecycle \in [Slots -> Words]
  /\ contents \in [Slots -> Nat]
  /\ processor \in [Slots -> Procs \cup {None}]
  /\ pc \in [Procs -> Steps]
  /\ idx \in [Procs -> Idxs]
  /\ prev \in [Procs -> Words]
  /\ ref \in [RefVars -> Idxs \cup {None}]
  /\ issued \in SUBSET Idxs
  /\ removed \in SUBSET Idxs

\* Slot::new_unallocated
NewWord == [state |-> "Unallocated", generation |-> 0, refcount |-> 0]
NoIdx == [index |-> 0, generation |-> 0]

SlotInit ==
  /\ lifecycle = [i \in Slots |-> NewWord]
  /\ contents = [i \in Slots |-> 0]
  /\ processor = [i \in Slots |-> None]
  /\ pc = [p \in Procs |-> "idle"]
  /\ idx = [p \in Procs |-> NoIdx]
  /\ prev = [p \in Procs |-> NewWord]
  /\ ref = [r \in RefVars |-> None]
  /\ issued = {}
  /\ removed = {}

\* The operation of processor p is about x, has loaded word, and goes on with
\* step; when it returns, its local variables are gone.
GoOn(p, step, x, word) ==
  /\ pc' = [pc EXCEPT ![p] = step]
  /\ idx' = [idx EXCEPT ![p] = IF step = "idle" THEN NoIdx ELSE x]
  /\ prev' = [prev EXCEPT ![p] = IF step = "idle" THEN NewWord ELSE word]
-----------------------------------------------------------------------------
(* insert, once a free slot i has been popped: Slot::allocate              *)

BeginAllocate(p, i) ==
  /\ GoOn(p, "allocate_load", [index |-> i, generation |-> 0], NewWord)
  /\ UNCHANGED <<lifecycle, contents, processor, ref, issued, removed>>

AllocateLoad(p) ==
  LET word == lifecycle[idx[p].index]
  IN  /\ pc[p] = "allocate_load"
      /\ GoOn(p, IF word.generation >= GenLimit THEN "generation_overflow"
                 ELSE IF word.refcount # 0 THEN "assert_failed" ELSE "allocate_store",
              idx[p], word)
      /\ UNCHANGED <<lifecycle, contents, processor, ref, issued, removed>>

\* Mutant: the generation is not advanced.
AllocatedWord_SameGeneration(word) == [word EXCEPT !.state = "Allocated"]

AllocatedWord(word) ==
  [word EXCEPT !.state = "Allocated", !.generation = word.generation + 1]

AllocateStore(p) ==
  LET word == AllocatedWord(prev[p])
  IN  /\ pc[p] = "allocate_store"
      /\ lifecycle' = [lifecycle EXCEPT ![idx[p].index] = word]
      /\ GoOn(p, "allocate_write",
              [index |-> idx[p].index, generation |-> word.generation], word)
      /\ UNCHANGED <<contents, processor, ref, issued, removed>>

AllocateWrite(p) ==
  /\ pc[p] = "allocate_write"
  /\ contents' = [contents EXCEPT ![idx[p].index] = idx[p].generation]
  /\ processor' = [processor EXCEPT ![idx[p].index] = p]
  /\ issued' = issued \cup {idx[p]}
  /\ GoOn(p, "idle", idx[p], prev[p])
  /\ UNCHANGED <<lifecycle, ref, removed>>
-----------------------------------------------------------------------------
(* The loops of acquire_reference, release_reference and fetch_update in   *)
(* mark_unallocated: a loaded word is checked, then exchanged; a failed    *)
(* exchange checks the word it found instead.                              *)

AcquireCheck(word, x) ==
  IF word.generation # x.generation \/ word.state # "Allocated" THEN "idle"
  ELSE IF word.refcount = RefLimit THEN "refcount_overflow"
  ELSE "get_cas"

ReleaseCheck(word, x) ==
  IF word.generation # x.generation \/ word.state = "Unallocated" \/ word.refcount = 0
  THEN "assert_failed" ELSE "release_cas"

\* Mutant: remove accepts a slot in any state.
MarkCheck_AnyState(word, x) ==
  IF word.generation # x.generation THEN "idle" ELSE "remove_cas"

MarkCheck(word, x) ==
  IF word.generation # x.generation \/ word.state # "Allocated"
  THEN "idle" ELSE "remove_cas"

LoadWord(p, x, step) ==
  /\ GoOn(p, step, x, lifecycle[x.index])
  /\ UNCHANGED <<lifecycle, contents, processor, ref, issued, removed>>

\* Mutant: a plain store in place of the compare-and-exchange.
Exchanges_Always(p) == TRUE

Exchanges(p) == lifecycle[idx[p].index] = prev[p]

StoreWord(p, word) == lifecycle' = [lifecycle EXCEPT ![idx[p].index] = word]

\* Slab::get
GetLoad(p, x) ==
  /\ pc[p] = "idle"
  /\ \E k \in Locals : ref[<<p, k>>] = None
  /\ LoadWord(p, x, AcquireCheck(lifecycle[x.index], x))

AcquiredWord(word) == [word EXCEPT !.refcount = word.refcount + 1]

GetCas(p, k) ==
  /\ pc[p] = "get_cas"
  /\ ref[<<p, k>>] = None
  /\ Exchanges(p)
  /\ StoreWord(p, AcquiredWord(prev[p]))
  /\ ref' = [ref EXCEPT ![<<p, k>>] = idx[p]]
  /\ GoOn(p, "idle", idx[p], prev[p])
  /\ UNCHANGED <<contents, processor, issued, removed>>

GetCasFails(p) ==
  /\ pc[p] = "get_cas"
  /\ ~Exchanges(p)
  /\ LoadWord(p, idx[p], AcquireCheck(lifecycle[idx[p].index], idx[p]))

\* Ref::drop and Slab::drop_reference
DropLoad(p, k) ==
  LET x == ref[<<p, k>>]
  IN  /\ pc[p] = "idle"
      /\ x # None
      /\ LoadWord(p, x, ReleaseCheck(lifecycle[x.index], x))

ReleasedWord(word) == [word EXCEPT !.refcount = word.refcount - 1]

\* Mutant: the last Ref of a slot clears it although it was not removed.
ShouldClear_AnyState(word) == word.refcount = 0

\* Mutant: nobody clears a zombie.
ShouldClear_Never(word) == FALSE

ShouldClear(word) == word.state = "Zombie" /\ word.refcount = 0

\* The processor's Refs to the same Idx are alike, so k need not be remembered.
ReleaseCas(p, k) ==
  LET word == ReleasedWord(prev[p])
  IN  /\ pc[p] = "release_cas"
      /\ ref[<<p, k>>] = idx[p]
      /\ Exchanges(p)
      /\ StoreWord(p, word)
      /\ ref' = [ref EXCEPT ![<<p, k>>] = None]
      /\ GoOn(p, IF ShouldClear(word) THEN "clear_load" ELSE "idle", idx[p], word)
      /\ UNCHANGED <<contents, processor, issued, removed>>

ReleaseCasFails(p) ==
  /\ pc[p] = "release_cas"
  /\ ~Exchanges(p)
  /\ LoadWord(p, idx[p], ReleaseCheck(lifecycle[idx[p].index], idx[p]))

\* Slab::remove and Slot::mark_unallocated
RemoveLoad(p, x) ==
  /\ pc[p] = "idle"
  /\ LoadWord(p, x, MarkCheck(lifecycle[x.index], x))

\* Mutant: a slot with Refs stays allocated.
MarkedWord_KeepsAllocated(word) ==
  IF word.refcount > 0 THEN word ELSE [word EXCEPT !.state = "Unallocated"]

\* Mutant: a slot with Refs is unallocated at once.
MarkedWord_NoZombie(word) == [word EXCEPT !.state = "Unallocated"]

MarkedWord(word) ==
  [word EXCEPT !.state = IF word.refcount > 0 THEN "Zombie" ELSE "Unallocated"]

RemoveCas(p) ==
  LET word == MarkedWord(prev[p])
  IN  /\ pc[p] = "remove_cas"
      /\ Exchanges(p)
      /\ StoreWord(p, word)
      /\ removed' = removed \cup {idx[p]}
      /\ GoOn(p, IF word.state = "Zombie" THEN "idle" ELSE "clear_load", idx[p], word)
      /\ UNCHANGED <<contents, processor, ref, issued>>

RemoveCasFails(p) ==
  /\ pc[p] = "remove_cas"
  /\ ~Exchanges(p)
  /\ LoadWord(p, idx[p], MarkCheck(lifecycle[idx[p].index], idx[p]))
-----------------------------------------------------------------------------
(* Slab::return_slot: Slot::clear, then the choice of a free list          *)

ClearLoad(p) ==
  LET word == lifecycle[idx[p].index]
  IN  /\ pc[p] = "clear_load"
      /\ GoOn(p, IF word.refcount # 0 THEN "assert_failed" ELSE "clear_store", idx[p], word)
      /\ UNCHANGED <<lifecycle, contents, processor, ref, issued, removed>>

\* Mutant: the state of the slot is left as it is.
ClearedWord_Kept(word) == word

ClearedWord(word) == [word EXCEPT !.state = "Unallocated"]

ClearStore(p) ==
  /\ pc[p] = "clear_store"
  /\ StoreWord(p, ClearedWord(prev[p]))
  /\ GoOn(p, "clear_contents", idx[p], NewWord)
  /\ UNCHANGED <<contents, processor, ref, issued, removed>>

ClearedContents(i) == 0

ClearContents(p) ==
  LET i == idx[p].index
  IN  /\ pc[p] = "clear_contents"
      /\ contents' = [contents EXCEPT ![i] = ClearedContents(i)]
      /\ processor' = [processor EXCEPT ![i] = None]
      /\ GoOn(p, IF processor[i] = p THEN "return_local" ELSE "return_global",
              idx[p], prev[p])
      /\ UNCHANGED <<lifecycle, ref, issued, removed>>

\* The slot has been pushed on a free list, and the operation returns.
EndReturn(p) ==
  /\ GoOn(p, "idle", idx[p], prev[p])
  /\ UNCHANGED <<lifecycle, contents, processor, ref, issued, removed>>
-----------------------------------------------------------------------------
\* The steps that need no free list, inside an operation ...
SlotStep(p) ==
  \/ AllocateLoad(p) \/ AllocateStore(p) \/ AllocateWrite(p)
  \/ \E k \in Locals : GetCas(p, k) \/ ReleaseCas(p, k)
  \/ GetCasFails(p) \/ ReleaseCasFails(p)
  \/ RemoveCas(p) \/ RemoveCasFails(p)
  \/ ClearLoad(p) \/ ClearStore(p) \/ ClearContents(p)

\* ... and those that start one.  An Idx is Copy: any processor may use any Idx
\* it was ever given, a stale one included.  A Ref is dropped where it was made.
SlotCall(p) ==
  \/ \E x \in issued : GetLoad(p, x) \/ RemoveLoad(p, x)
  \/ \E k \in Locals : DropLoad(p, k)
-----------------------------------------------------------------------------
(* Properties                                                              *)

RefsTo(i) == {r \in RefVars : ref[r] # None /\ ref[r].index = i}

\* "Active references prevent slab entries from being removed": as long as a
\* Ref exists, its slot keeps the generation and the value it was made for, so
\* Deref never sees another value, a dropped one or uninitialised memory.
RefProtectsValue == \A r \in RefVars :
  ref[r] # None =>
    LET word == lifecycle[ref[r].index]
    IN  /\ word.generation = ref[r].generation
        /\ word.state \in {"Allocated", "Zombie"}
        /\ contents[ref[r].index] = ref[r].generation

\* The refcount packed in the lifecycle word is the number of Refs that exist:
\* no interleaving of the CAS loops loses an increment or a decrement.
RefCountExact == \A i \in Slots : lifecycle[i].refcount = Cardinality(RefsTo(i))

\* No assertion of the crate fails: drop_reference's expect("slot was mutated
\* with an active reference") and "refcount was 0", and the debug_asserts of
\* allocate and clear.
NoAssertFails == \A p \in Procs : pc[p] # "assert_failed"

\* An Idx that remove accepted is dead for good: its slot never again carries
\* its generation in state Allocated, so no later get or remove accepts it.
RemovedStaysDead == \A x \in removed :
  lifecycle[x.index].generation = x.generation => lifecycle[x.index].state # "Allocated"

\* clear drops contents that are there: the value of the slot's generation, once.
DropsLiveValue == \A p \in Procs :
  pc[p] = "clear_contents" =>
    /\ contents[idx[p].index] # 0
    /\ contents[idx[p].index] = lifecycle[idx[p].index].generation

\* The owner steps are exclusive: two processors never allocate, clear or
\* return the same slot at the same time.
OneOwner == \A p, q \in Procs :
  pc[p] \in OwnerSteps /\ pc[q] \in OwnerSteps /\ idx[p].index = idx[q].index => p = q

=============================================================================
