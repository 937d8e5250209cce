---------------------------- MODULE PageAllocator ----------------------------
(***************************************************************************)
(* What the root allocator promises: an allocation is a stretch of free    *)
(* pages that nobody else gets until it is given back.                     *)
(***************************************************************************)
EXTENDS Integers

VARIABLES
  free,     \* the pages that can be allocated
  taken,    \* <<name, range>> for every allocation that was not given back
  halted    \* the allocator has panicked

pageVars == <<free, taken, halted>>

PagesOf(r) == r.start .. r.start + r.size - 1

Take ==
  /\ \E t \in taken' :
       /\ t \notin taken
       /\ taken' = taken \cup {t}
       /\ PagesOf(t[2]) \subseteq free
       /\ free' = free \ PagesOf(t[2])
  /\ UNCHANGED halted

Give ==
  /\ \E t \in taken :
       /\ taken' = taken \ {t}
       /\ PagesOf(t[2]) \cap free = {}
       /\ free' = free \cup PagesOf(t[2])
  /\ UNCHANGED halted

\* After a panic nothing is promised about the free pages.
Halt == halted' = TRUE /\ UNCHANGED taken

PageNext == ~halted /\ (Take \/ Give \/ Halt)

PageSpec == taken = {} /\ [][PageNext]_pageVars
=============================================================================
