-------------------------------- MODULE Slab --------------------------------
(***************************************************************************)
(* Slab of slab/src/lib.rs: the slots, the global free list, and a local   *)
(* free list per processor, put together as insert, get, remove and the    *)
(* drop of a Ref use them.                                                 *)
(*                                                                         *)
(* A local list is only touched by its own processor, so each of its       *)
(* operations is one step.  Its links are plain slot numbers, which read   *)
(* as an Entry have tag 0.                                                 *)
(***************************************************************************)
EXTENDS Slot, GlobalFreeList

VARIABLE local   \* LocalFreeList: per processor, the link to its first slot

slabVars == <<slotVars, listVars, local>>

\* Slab::new: every slot is unallocated and on the global list, in order.
SlabInit ==
  /\ SlotInit
  /\ ListInitChain
  /\ local = [p \in Procs |-> EMPTY]
-----------------------------------------------------------------------------
(* insert: a slot from the local list, else from the global list           *)

\* Mutant: pop leaves the slot at the head of the local list.
InsertLocal_KeepsHead(p) ==
  /\ pc[p] = "idle" /\ fl[p] = "idle"
  /\ local[p] # EMPTY
  /\ BeginAllocate(p, Index(local[p]))
  /\ UNCHANGED <<listVars, local>>

InsertLocal(p) ==
  /\ pc[p] = "idle" /\ fl[p] = "idle"
  /\ local[p] # EMPTY
  /\ BeginAllocate(p, Index(local[p]))
  /\ local' = [local EXCEPT ![p] = next[Index(local[p])]]
  /\ UNCHANGED listVars

\* The call of the global pop; on an empty list insert returns its value.
InsertGlobal(p) ==
  /\ pc[p] = "idle" /\ fl[p] = "idle"
  /\ local[p] = EMPTY
  /\ PopLoad(p) \/ PopEmpty(p)
  /\ UNCHANGED <<slotVars, local>>

InsertPopping(p) ==
  /\ \/ PopNext(p) \/ PopCasFails(p)
     \/ fl[p] = "pop_load" /\ (PopLoad(p) \/ PopEmpty(p))
  /\ UNCHANGED <<slotVars, local>>

InsertPopped(p) ==
  /\ PopCas(p)
  /\ BeginAllocate(p, Index(old_head[p]))
  /\ UNCHANGED local
-----------------------------------------------------------------------------
(* return_slot: to the local list if the slot was allocated here           *)

ReturnLocal(p) ==
  LET i == idx[p].index
  IN  /\ pc[p] = "return_local"
      /\ next' = [next EXCEPT ![i] = local[p]]
      /\ local' = [local EXCEPT ![p] = <<i, 0>>]
      /\ EndReturn(p)
      /\ UNCHANGED <<head, tag, fl, old_head, new_head, out, stack>>

ReturnGlobal(p) ==
  /\ pc[p] = "return_global" /\ fl[p] = "idle"
  /\ PushTag(p, idx[p].index)
  /\ UNCHANGED <<slotVars, local>>

ReturnPushing(p) ==
  /\ PushLoad(p) \/ PushSetNext(p) \/ PushCasFails(p)
  /\ UNCHANGED <<slotVars, local>>

ReturnPushed(p) ==
  /\ PushCas(p)
  /\ EndReturn(p)
  /\ UNCHANGED local
-----------------------------------------------------------------------------
SlabNext == \E p \in Procs :
  \/ InsertLocal(p) \/ InsertGlobal(p) \/ InsertPopping(p) \/ InsertPopped(p)
  \/ ReturnLocal(p) \/ ReturnGlobal(p) \/ ReturnPushing(p) \/ ReturnPushed(p)
  \/ (SlotStep(p) /\ UNCHANGED <<listVars, local>>)
  \/ (fl[p] = "idle" /\ SlotCall(p) /\ UNCHANGED <<listVars, local>>)

SlabSpec == SlabInit /\ [][SlabNext]_slabVars
-----------------------------------------------------------------------------
(* Properties                                                              *)

\* The slots of the list that starts at a link, by following Slot::next.
SlotsFrom(link) ==
  LET reach[n \in 0 .. SIZE] ==
        IF n = 0 THEN {link}
        ELSE reach[n - 1] \cup {next[Index(l)] : l \in reach[n - 1] \ {EMPTY}}
  IN  {Index(l) : l \in reach[SIZE] \ {EMPTY}}

FreeSlots == SlotsFrom(head) \cup UNION {SlotsFrom(local[p]) : p \in Procs}

SlabTypeOK == SlotTypeOK /\ ListTypeOK /\ local \in [Procs -> Links]

\* The free lists do not share slots, whatever pushes and pops are under way.
ListsDisjoint ==
  /\ \A p \in Procs : SlotsFrom(local[p]) \cap SlotsFrom(head) = {}
  /\ \A p, q \in Procs : p # q => SlotsFrom(local[p]) \cap SlotsFrom(local[q]) = {}

Pool == INSTANCE SlotPool WITH pool <- FreeSlots

\* The three lists together are the pool that the slots are used from: insert
\* only ever takes a free slot, and what return_slot gives back becomes free.
ImplementsPool == Pool!PoolSpec

\* The slab keeps the contract of the global list: it pushes only slots that it
\* popped and that nobody else has, and links only such slots into local lists.
HonoursListContract == ChainSpec

\* free_lists.rs: "a Treiber stack using a tag to avoid the ABA problem".  The
\* slot that insert is about to allocate is unallocated.
AllocatesFreeSlot == \A p \in Procs :
  pc[p] = "allocate_load" => lifecycle[idx[p].index].state = "Unallocated"

\* Between them the lists never offer a slot twice: they share none, and what
\* insert took from one of them is unallocated.
FreeListsSound == SlabTypeOK /\ ListsDisjoint /\ AllocatesFreeSlot
=============================================================================
