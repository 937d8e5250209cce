------------------------------ MODULE SlotPool ------------------------------
(***************************************************************************)
(* The slab over free lists that work: a pool of free slots from which     *)
(* insert takes any slot, and to which return_slot gives it back.  What    *)
(* Slab does with its local and global lists implements this (see Slab).   *)
(***************************************************************************)
EXTENDS Slot

VARIABLE pool   \* the slots on some free list

poolVars == <<slotVars, pool>>

PoolInit == SlotInit /\ pool = Slots

\* insert pops a slot.  (When it finds none it returns the value, which changes
\* nothing.)
TakeSlot(p) == \E i \in pool :
  /\ pc[p] = "idle"
  /\ BeginAllocate(p, i)
  /\ pool' = pool \ {i}

GiveSlot(p) ==
  /\ pc[p] \in ReturnSteps
  /\ EndReturn(p)
  /\ pool' = pool \cup {idx[p].index}

PoolStep(p) == GiveSlot(p) \/ (SlotStep(p) /\ UNCHANGED pool)

PoolNext == \E p \in Procs :
  TakeSlot(p) \/ PoolStep(p) \/ (SlotCall(p) /\ UNCHANGED pool)

PoolSpec == PoolInit /\ [][PoolNext]_poolVars

\* A processor inside an operation keeps running, and sooner or later drops the
\* Refs it holds.
FairPoolSpec ==
  /\ PoolSpec
  /\ \A p \in Procs : WF_poolVars(PoolStep(p))
  /\ \A p \in Procs, k \in Locals : SF_poolVars(DropLoad(p, k) /\ UNCHANGED pool)
-----------------------------------------------------------------------------
(* Properties                                                              *)

PoolTypeOK == SlotTypeOK /\ pool \in SUBSET Slots

\* A slot in the pool is free: unallocated, without contents, and in no
\* operation's hands.  A slot outside is owned by an operation or in use.
PoolIsFree == \A i \in Slots :
  IF i \in pool
  THEN /\ lifecycle[i].state = "Unallocated" /\ contents[i] = 0
       /\ \A p \in Procs : pc[p] \in OwnerSteps => idx[p].index # i
  ELSE \/ \E p \in Procs : pc[p] \in OwnerSteps /\ idx[p].index = i
       \/ /\ lifecycle[i].state # "Unallocated"
          /\ contents[i] = lifecycle[i].generation

\* Every slot is in one place: free in the pool, in the hands of the one operation
\* that allocates, clears or returns it, or in use; and clear drops the value of
\* the slot's generation, once, whichever of remove and the last drop runs it.
SlotsOwned == PoolTypeOK /\ PoolIsFree /\ OneOwner /\ DropsLiveValue

\* What remove accepted is reclaimed: the value is dropped, at the latest after
\* the last Ref, and its slot comes back to the free slots.
RemovedReclaimed == \A i \in Slots, g \in 1 .. GenLimit :
  [index |-> i, generation |-> g] \in removed /\ contents[i] = g ~> i \in pool
=============================================================================
