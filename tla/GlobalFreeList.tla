---------------------------- MODULE GlobalFreeList ----------------------------
(***************************************************************************)
(* GlobalFreeList of slab/src/free_lists.rs: a Treiber stack of slot       *)
(* indices.  Every atomic access of push and pop, and every access to the  *)
(* link `next` of a slot, is a step of its own, so the steps of different  *)
(* processors interleave as they may on the machine.                       *)
(*                                                                         *)
(* A link is EMPTY or an Entry <<index, tag>>; packing the two fields in a *)
(* u64 is injective, so the pair stands for the packed word.               *)
(*                                                                         *)
(* `out` and `stack` are history variables: no guard of a step of push or  *)
(* pop reads them.                                                         *)
(***************************************************************************)
EXTENDS SlabConstants, Sequences, FiniteSets

CONSTANT TagLimit   \* 2^46: Entry::with_tag panics from this value on

ASSUME TagAssumption == TagLimit \in Nat

VARIABLES
  head,       \* AtomicU64: the top of the stack
  tag,        \* AtomicU64: the next tag to hand out
  next,       \* Slot::next of every slot
  fl,         \* per processor: where in push or pop it is
  old_head,   \* per processor: local variable of push and pop
  new_head,   \* per processor: local variable of push and pop
  out,        \* the slots that callers hold: neither on the list nor being pushed
  stack       \* the entries on the list, top first, by the order of the CASes

listVars == <<head, tag, next, fl, old_head, new_head, out, stack>>

Entries == Slots \X Nat
Links == Entries \cup {EMPTY}
Index(e) == e[1]
Tag(e) == e[2]

PushSteps == {"push_load", "push_set_next", "push_cas"}
PopSteps == {"pop_load", "pop_next", "pop_cas"}

\* The processors that hold a slot inside push; a panic keeps the slot.
Pushing == {p \in Procs : fl[p] \in PushSteps \cup {"panicked"}}

ListTypeOK ==
  /\ head \in Links
  /\ tag \in Nat
  /\ next \in [Slots -> Links]
  /\ fl \in [Procs -> {"idle", "panicked"} \cup PushSteps \cup PopSteps]
  /\ old_head \in [Procs -> Links]
  /\ new_head \in [Procs -> Links]
  /\ out \in SUBSET Slots
  /\ stack \in Seq(Entries)
-----------------------------------------------------------------------------
\* GlobalFreeList::new_empty, the slots still with the caller.
ListInitEmpty ==
  /\ head = EMPTY
  /\ tag = 0
  /\ next = [i \in Slots |-> EMPTY]
  /\ fl = [p \in Procs |-> "idle"]
  /\ old_head = [p \in Procs |-> EMPTY]
  /\ new_head = [p \in Procs |-> EMPTY]
  /\ out = Slots
  /\ stack = << >>

\* GlobalFreeList::new(0) over the chain of slots that Slab::new links: the
\* link of slot i is the number i + 1, which unpacks to tag 0.
ListInitChain ==
  /\ head = <<0, 0>>
  /\ tag = 0
  /\ next = [i \in Slots |-> IF i = SIZE - 1 THEN EMPTY ELSE <<i + 1, 0>>]
  /\ fl = [p \in Procs |-> "idle"]
  /\ old_head = [p \in Procs |-> EMPTY]
  /\ new_head = [p \in Procs |-> EMPTY]
  /\ out = {}
  /\ stack = [k \in 1 .. SIZE |-> <<k - 1, 0>>]

\* The local variables of a call end with it, those of a loop body with the
\* iteration.
EndOld(p) == old_head' = [old_head EXCEPT ![p] = EMPTY]
EndNew(p) == new_head' = [new_head EXCEPT ![p] = EMPTY]
-----------------------------------------------------------------------------
(* push(index)                                                             *)

\* Mutant: the tag counter is read but not advanced.
FetchAddTag_Lost == tag

\* self.tag.fetch_add(1): what the counter holds afterwards.
FetchAddTag == tag + 1

PushTag(p, i) ==
  /\ fl[p] = "idle"
  /\ tag' = FetchAddTag
  /\ new_head' = [new_head EXCEPT ![p] = <<i, tag>>]
  /\ fl' = [fl EXCEPT ![p] = IF tag < TagLimit THEN "push_load" ELSE "panicked"]
  /\ out' = out \ {i}
  /\ UNCHANGED <<head, next, old_head, stack>>

PushLoad(p) ==
  /\ fl[p] = "push_load"
  /\ old_head' = [old_head EXCEPT ![p] = head]
  /\ fl' = [fl EXCEPT ![p] = "push_set_next"]
  /\ UNCHANGED <<head, tag, next, new_head, out, stack>>

PushSetNext(p) ==
  /\ fl[p] = "push_set_next"
  /\ next' = [next EXCEPT ![Index(new_head[p])] = old_head[p]]
  /\ fl' = [fl EXCEPT ![p] = "push_cas"]
  /\ UNCHANGED <<head, tag, old_head, new_head, out, stack>>

PushCas(p) ==
  /\ fl[p] = "push_cas"
  /\ head = old_head[p]
  /\ head' = new_head[p]
  /\ fl' = [fl EXCEPT ![p] = "idle"]
  /\ stack' = <<new_head[p]>> \o stack
  /\ EndOld(p) /\ EndNew(p)
  /\ UNCHANGED <<tag, next, out>>

\* Back to the load.
PushCasFails(p) ==
  /\ fl[p] = "push_cas"
  /\ head # old_head[p]
  /\ fl' = [fl EXCEPT ![p] = "push_load"]
  /\ EndOld(p)
  /\ UNCHANGED <<head, tag, next, new_head, out, stack>>
-----------------------------------------------------------------------------
(* pop()                                                                   *)

\* A pop starts, or starts over, with a load of the head.
PopEmpty(p) ==
  /\ fl[p] \in {"idle", "pop_load"}
  /\ head = EMPTY
  /\ fl' = [fl EXCEPT ![p] = "idle"]
  /\ UNCHANGED <<head, tag, next, old_head, new_head, out, stack>>

PopLoad(p) ==
  /\ fl[p] \in {"idle", "pop_load"}
  /\ head # EMPTY
  /\ old_head' = [old_head EXCEPT ![p] = head]
  /\ fl' = [fl EXCEPT ![p] = "pop_next"]
  /\ UNCHANGED <<head, tag, next, new_head, out, stack>>

PopNext(p) ==
  /\ fl[p] = "pop_next"
  /\ new_head' = [new_head EXCEPT ![p] = next[Index(old_head[p])]]
  /\ fl' = [fl EXCEPT ![p] = "pop_cas"]
  /\ UNCHANGED <<head, tag, next, old_head, out, stack>>

\* Mutant: the exchange compares the index of the entry and not its tag.
PopExchanges_IndexOnly(p) == head # EMPTY /\ Index(head) = Index(old_head[p])

\* The comparison of compare_exchange: the whole packed word.
PopExchanges(p) == head = old_head[p]

PopCas(p) ==
  /\ fl[p] = "pop_cas"
  /\ PopExchanges(p)
  /\ head' = new_head[p]
  /\ fl' = [fl EXCEPT ![p] = "idle"]
  /\ out' = out \cup {Index(old_head[p])}
  /\ stack' = IF Len(stack) = 0 THEN stack ELSE Tail(stack)
  /\ EndOld(p) /\ EndNew(p)
  /\ UNCHANGED <<tag, next>>

\* Mutant: the CAS is retried with the stale head.
PopCasFails_NoReload(p) ==
  /\ fl[p] = "pop_cas"
  /\ ~PopExchanges(p)
  /\ UNCHANGED listVars

PopCasFails(p) ==
  /\ fl[p] = "pop_cas"
  /\ ~PopExchanges(p)
  /\ fl' = [fl EXCEPT ![p] = "pop_load"]
  /\ EndOld(p) /\ EndNew(p)
  /\ UNCHANGED <<head, tag, next, out, stack>>
-----------------------------------------------------------------------------
(* The list on its own: callers push slots they hold, and write the links  *)
(* of slots they hold (a slot on a local free list reuses Slot::next).     *)

PushStart(p) == \E i \in out : PushTag(p, i)

HolderSetsNext ==
  /\ \E i \in out, link \in {<<j, 0>> : j \in Slots} \cup {EMPTY} :
       next' = [next EXCEPT ![i] = link]
  /\ UNCHANGED <<head, tag, fl, old_head, new_head, out, stack>>

\* The steps inside a call: what a processor does until push or pop returns.
ListStep(p) ==
  \/ PushLoad(p) \/ PushSetNext(p) \/ PushCas(p) \/ PushCasFails(p)
  \/ fl[p] = "pop_load" /\ (PopEmpty(p) \/ PopLoad(p))
  \/ PopNext(p) \/ PopCas(p) \/ PopCasFails(p)

ListNext ==
  \/ \E p \in Procs : PushStart(p) \/ PopEmpty(p) \/ PopLoad(p) \/ ListStep(p)
  \/ HolderSetsNext

ListSpec == ListInitEmpty /\ [][ListNext]_listVars

\* Started from the chain that Slab::new builds.
ChainSpec == ListInitChain /\ [][ListNext]_listVars

\* A processor inside push or pop keeps running: the two loops never sleep.
FairListSpec == ListSpec /\ \A p \in Procs : WF_listVars(ListStep(p))
-----------------------------------------------------------------------------
(* Properties                                                              *)

\* The list in memory, followed from `head` through Slot::next, is at every
\* moment the stack of the pushes and pops whose CAS succeeded: no CAS of pop
\* installs a link that was read before the slot was popped and pushed again.
ListIsStack ==
  /\ head = IF Len(stack) = 0 THEN EMPTY ELSE stack[1]
  /\ \A k \in 1 .. Len(stack) :
       next[Index(stack[k])] = IF k = Len(stack) THEN EMPTY ELSE stack[k + 1]

NoSlotTwice ==
  /\ \A j, k \in 1 .. Len(stack) : Index(stack[j]) = Index(stack[k]) => j = k
  /\ \A p, q \in Pushing : Index(new_head[p]) = Index(new_head[q]) => p = q
  /\ \A k \in 1 .. Len(stack) : Index(stack[k]) \notin out
  /\ \A p \in Pushing : Index(new_head[p]) \notin out
  /\ \A k \in 1 .. Len(stack), p \in Pushing : Index(stack[k]) # Index(new_head[p])

NoSlotLost == \A i \in Slots :
  \/ i \in out
  \/ \E k \in 1 .. Len(stack) : i = Index(stack[k])
  \/ \E p \in Pushing : i = Index(new_head[p])

\* Every slot is in exactly one place: once on the list, with the callers, or
\* inside one push.  So pop never returns a slot that somebody else holds, and
\* no slot is lost.
SlotInOnePlace == NoSlotTwice /\ NoSlotLost

\* The mapping: the slots of the history, and the slots that callers hold or
\* are still pushing.
StackOfSlots == [k \in 1 .. Len(stack) |-> Index(stack[k])]
HeldSlots == out \cup {Index(new_head[p]) : p \in Pushing}

AbstractStack == INSTANCE SlotStack WITH stack <- StackOfSlots, held <- HeldSlots

\* The list implements a stack whose push and pop are atomic: they take effect
\* at their successful CAS, and pop returns the slot on top.
ImplementsStack == AbstractStack!StackSpec

\* Every push and every pop returns (or panics on the tag): with finitely many
\* tags to hand out, only finitely many CASes can make another one fail.
CallsReturn == \A p \in Procs :
  fl[p] \in PushSteps \cup PopSteps ~> fl[p] \in {"idle", "panicked"}
-----------------------------------------------------------------------------
(* The inductive invariant behind the properties                           *)

\* The processors of pop that have loaded a head, perhaps a stale one by now.
Popping == {p \in Procs : fl[p] \in {"pop_next", "pop_cas"}}

\* The entries a call works with are entries, with tags handed out before.
SpentTags ==
  /\ \A k \in 1 .. Len(stack) : Tag(stack[k]) < tag
  /\ \A p \in Pushing : new_head[p] \in Entries /\ Tag(new_head[p]) < tag
  /\ \A p \in Popping : old_head[p] \in Entries /\ Tag(old_head[p]) < tag

\* The tag at work: an entry that a pop loaded is never pushed again.
LoadedNeverPushed ==
  \A p \in Popping, q \in Pushing : old_head[p] # new_head[q]

\* As long as the entry that a pop loaded is on the list, the link it read is
\* current; and a push about to CAS has linked its slot to the head it loaded.
LinksCurrent ==
  /\ \A p \in Procs, k \in 1 .. Len(stack) :
       fl[p] = "pop_cas" /\ stack[k] = old_head[p]
         => next[Index(old_head[p])] = new_head[p]
  /\ \A p \in Procs :
       fl[p] = "push_cas" => next[Index(new_head[p])] = old_head[p]

\* Inductive: the free list keeps its list, its slots and its tags in order
\* through every interleaving of the steps of push and pop.
ListInv ==
  /\ ListTypeOK
  /\ ListIsStack
  /\ SlotInOnePlace
  /\ SpentTags
  /\ LoadedNeverPushed
  /\ LinksCurrent
=============================================================================
