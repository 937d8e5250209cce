---------------------------- MODULE RootAllocator ----------------------------
(***************************************************************************)
(* The allocator of page frames, kernel/src/mm/root_allocator.rs, with the *)
(* ranges of kernel/src/mm/address.rs.  Addresses count page frames.  A    *)
(* Run is a number; the intrusive lists are sequences of runs, and a       *)
(* cursor into `runs` is a position.                                       *)
(*                                                                         *)
(* allocate and deallocate run under the allocator's InterruptSafeMutex,   *)
(* so each is one step.  A panic inside them never releases that mutex:    *)
(* the allocator stops.                                                    *)
(***************************************************************************)
EXTENDS Integers, SequencesExt

CONSTANTS
  MemoryMaps,       \* the memory maps (sequences of regions) the firmware may report
  Counts,           \* the sizes callers of allocate ask for
  RUN_COUNT,        \* how many Runs fit in the initial tracking space
  Builds            \* whether debug_assert! is compiled in: a subset of BOOLEAN

VARIABLES
  inner,    \* AllocatorInner: the lists runs, free and unused, and every Run
  debug,    \* this build checks debug_assert!
  held,     \* history: <<run, range>> for every range that a caller holds
  usable    \* history: the page frames the memory map calls usable

allocatorVars == <<inner, debug, held, usable>>

ASSUME RunCountAssumption == RUN_COUNT \in Nat \ {0}
ASSUME BuildsAssumption == Builds \subseteq BOOLEAN

\* The order that sort_unstable_by_key gives ranges with equal starts is not
\* specified, so no two usable regions of a map start together.
ASSUME MapsAssumption == \A map \in MemoryMaps : \A i, j \in 1 .. Len(map) :
  map[i].usable /\ map[j].usable /\ map[i].start = map[j].start => i = j

SCRATCH_PAGES == 2
MIN_TRACKING_PAGES == 2

Runs == 1 .. RUN_COUNT
Status == {"Free", "Allocated", "Tracking", "Unused"}
Panics == {"none", "no_scratch", "overlap", "no_runs", "reinitialized"}
-----------------------------------------------------------------------------
(* AddressRange                                                            *)

range(start, size) == [start |-> start, size |-> size]
NoRange == range(0, 0)
end(r) == r.start + r.size
shrink_left(r, n) == [r EXCEPT !.start = @ + n, !.size = @ - n]
extend_left(r, n) == [r EXCEPT !.start = @ - n, !.size = @ + n]
extend_right(r, n) == [r EXCEPT !.size = @ + n]
intersects(r, s) == r.start <= end(s) /\ end(r) >= s.start
pages(r) == r.start .. end(r) - 1
-----------------------------------------------------------------------------
(* The list of runs.  These operators take an AllocatorInner and give the  *)
(* one the code leaves behind.                                             *)

status(a, r) == a.run[r].status
rangeOf(a, r) == a.run[r].range

Mergeable(a, k) ==
  /\ 1 <= k /\ k < Len(a.runs)
  /\ status(a, a.runs[k]) = status(a, a.runs[k + 1])
  /\ end(rangeOf(a, a.runs[k])) = rangeOf(a, a.runs[k + 1]).start

\* Mutant: a run that is merged away is not kept for later use.
Retire_Leaked(a, k) ==
  [a EXCEPT !.free = IF status(a, a.runs[k]) = "Free" THEN Remove(@, a.runs[k]) ELSE @,
            !.runs = RemoveAt(@, k)]

\* The run at position k leaves the lists and keeps its status.  (It keeps its
\* range too, which is overwritten before it is read again: NoRange.)
Retire(a, k) ==
  [a EXCEPT !.free = IF status(a, a.runs[k]) = "Free" THEN Remove(@, a.runs[k]) ELSE @,
            !.runs = RemoveAt(@, k),
            !.run[a.runs[k]].range = NoRange,
            !.unused = Append(@, a.runs[k])]

CoalesceNext(a, k) ==
  IF Mergeable(a, k)
  THEN [Retire(a, k) EXCEPT
          !.run[a.runs[k + 1]].range = extend_left(@, rangeOf(a, a.runs[k]).size)]
  ELSE a

CoalescePrev(a, k) ==
  IF Mergeable(a, k - 1)
  THEN [Retire(a, k) EXCEPT
          !.run[a.runs[k - 1]].range = extend_right(@, rangeOf(a, a.runs[k]).size)]
  ELSE a

\* Mutant: a run is merged with the next one, or else with the previous one.
coalesce_OneSide(a, k) ==
  IF Mergeable(a, k) THEN CoalesceNext(a, k) ELSE CoalescePrev(a, k)

\* Removing a run moves the cursor to the next one: the position is the same.
coalesce(a, k) == CoalescePrev(CoalesceNext(a, k), k)

Overlaps(a, r, k) ==
  \/ k <= Len(a.runs) /\ rangeOf(a, a.runs[k]).start < end(rangeOf(a, r))
  \/ k > 1 /\ end(rangeOf(a, a.runs[k - 1])) > rangeOf(a, r).start

\* Inserts run r before position k.
add_run(a, r, k) ==
  LET listed == IF status(a, r) = "Free" THEN [a EXCEPT !.free = Append(@, r)] ELSE a
      linked == [listed EXCEPT !.runs = InsertAt(@, k, r)]
  IN  IF Overlaps(a, r, k) THEN [listed EXCEPT !.panic = "overlap"]
      ELSE IF status(a, r) # "Allocated" THEN coalesce(linked, k) ELSE linked

find_next(a, r) ==
  Min({k \in 1 .. Len(a.runs) : rangeOf(a, a.runs[k]).start >= rangeOf(a, r).start}
        \cup {Len(a.runs) + 1})

\* Takes the first unused run out of the list and gives it a range and a status.
TakeRun(a, rng, st) ==
  [a EXCEPT !.unused = Tail(@), !.run[Head(a.unused)] = [range |-> rng, status |-> st]]
-----------------------------------------------------------------------------
(* build                                                                   *)

\* The tracking space comes from the start of a region, which gives it up.
CollectedRange(region, tracking) ==
  LET r == range(region.start, region.size)
  IN  IF region.start = tracking.start THEN shrink_left(r, MIN_TRACKING_PAGES) ELSE r

UsableRegions(map) == SelectSeq(map, LAMBDA region : region.usable)

\* The usable region that gives scratch and tracking space, 0 if there is none.
\* (The kernel reserves no memory of its own: `reserved` is empty.)
ScratchRegion(map) ==
  SelectInSeq(map, LAMBDA region :
    region.usable /\ region.size >= MIN_TRACKING_PAGES + SCRATCH_PAGES)

SortedRanges(map, tracking) ==
  LET regions == UsableRegions(map)
  IN  SortSeq([k \in 1 .. Len(regions) |-> CollectedRange(regions[k], tracking)],
              LAMBDA r, s : r.start < s.start)

\* Mutant: the combined range has the size of the second one.
Combine_LastSize(ranges, cur) ==
  IF Len(ranges) > 0 /\ intersects(Last(ranges), cur)
  THEN [ranges EXCEPT ![Len(ranges)] = range(@.start, cur.size)]
  ELSE Append(ranges, cur)

\* One turn of the loop that combines overlapping ranges: the last range of the
\* result so far is `prev`.
Combine(ranges, cur) ==
  IF Len(ranges) > 0 /\ intersects(Last(ranges), cur)
  THEN [ranges EXCEPT ![Len(ranges)] = range(@.start, end(cur) - @.start)]
  ELSE Append(ranges, cur)

add_allocatable_range(a, rng) ==
  IF a.panic # "none" THEN a
  ELSE IF Len(a.unused) = 0 THEN [a EXCEPT !.panic = "no_runs"]
  ELSE LET b == TakeRun(a, rng, "Free") IN add_run(b, Head(a.unused), find_next(b, Head(a.unused)))

\* AllocatorInner::new followed by init_tracking_space.
NewInner ==
  [runs |-> << >>, free |-> << >>, unused |-> [k \in Runs |-> k],
   run |-> [r \in Runs |-> [range |-> NoRange, status |-> "Unused"]],
   panic |-> "none"]

init_tracking_space(rng) == add_run(TakeRun(NewInner, rng, "Tracking"), 1, 1)

build(map) ==
  IF ScratchRegion(map) = 0 THEN [NewInner EXCEPT !.panic = "no_scratch"]
  ELSE LET tracking == range(map[ScratchRegion(map)].start, SCRATCH_PAGES)
       IN  FoldLeft(add_allocatable_range, init_tracking_space(tracking),
                    FoldLeft(Combine, << >>, SortedRanges(map, tracking)))

AllocatorInit == \E map \in MemoryMaps :
  /\ inner = build(map)
  /\ debug \in Builds
  /\ held = {}
  /\ usable = UNION {pages(r) : r \in ToSet(UsableRegions(map))}
-----------------------------------------------------------------------------
(* allocate(count)                                                         *)

\* First fit, 0 if no free run is large enough.
Fitting(count) == SelectInSeq(inner.free, LAMBDA r : rangeOf(inner, r).size >= count)

AllocateFails(count) ==
  /\ inner.panic = "none"
  /\ Fitting(count) = 0
  /\ UNCHANGED allocatorVars

AllocateWhole(count) ==
  LET r == inner.free[Fitting(count)]
  IN  /\ inner.panic = "none"
      /\ Fitting(count) # 0
      /\ rangeOf(inner, r).size = count
      /\ inner' = [inner EXCEPT !.run[r].status = "Allocated",
                                !.free = RemoveAt(@, Fitting(count))]
      /\ held' = held \cup {<<r, rangeOf(inner, r)>>}
      /\ UNCHANGED <<debug, usable>>

\* The free run gives up its first pages before a run to describe them is found.
AllocateSplit(count) ==
  LET r == inner.free[Fitting(count)]
      rng == range(rangeOf(inner, r).start, count)
      shrunk == [inner EXCEPT !.run[r].range = shrink_left(@, count)]
      u == Head(inner.unused)
      k == CHOOSE j \in 1 .. Len(inner.runs) : inner.runs[j] = r
  IN  /\ inner.panic = "none"
      /\ Fitting(count) # 0
      /\ rangeOf(inner, r).size # count
      /\ UNCHANGED <<debug, usable>>
      /\ \/ /\ Len(inner.unused) = 0
            /\ inner' = [shrunk EXCEPT !.panic = "no_runs"]
            /\ UNCHANGED held
         \/ /\ Len(inner.unused) # 0
            /\ debug /\ status(inner, u) # "Unused"
            /\ inner' = [shrunk EXCEPT !.unused = Tail(@), !.panic = "reinitialized"]
            /\ UNCHANGED held
         \/ /\ Len(inner.unused) # 0
            /\ ~debug \/ status(inner, u) = "Unused"
            /\ inner' = add_run(TakeRun(shrunk, rng, "Allocated"), u, k)
            /\ held' = held \cup {<<u, rng>>}
-----------------------------------------------------------------------------
(* deallocate(range)                                                       *)

\* The first run with this range, 0 if there is none.
Matching(rng) == SelectInSeq(inner.runs, LAMBDA r : rangeOf(inner, r) = rng)

\* Mutant: the status of the run is not looked at.
Deallocatable_AnyStatus(rng) == Matching(rng) # 0

Deallocatable(rng) ==
  Matching(rng) # 0 /\ status(inner, inner.runs[Matching(rng)]) = "Allocated"

DeallocateFails(rng) ==
  /\ inner.panic = "none"
  /\ ~Deallocatable(rng)
  /\ UNCHANGED allocatorVars

DeallocateRun(rng) ==
  LET r == inner.runs[Matching(rng)]
      freed == [inner EXCEPT !.run[r].status = "Free", !.free = <<r>> \o @]
  IN  /\ inner.panic = "none"
      /\ Deallocatable(rng)
      /\ inner' = coalesce(freed, Matching(rng))
      /\ held' = held \ {<<r, rng>>}
      /\ UNCHANGED <<debug, usable>>
-----------------------------------------------------------------------------
\* A caller may pass any range, also one it has given back before.
Ranges == [start : usable, size : Counts]

AllocatorNext ==
  \/ \E count \in Counts : AllocateFails(count) \/ AllocateWhole(count) \/ AllocateSplit(count)
  \/ \E rng \in Ranges : DeallocateFails(rng) \/ DeallocateRun(rng)

AllocatorSpec == AllocatorInit /\ [][AllocatorNext]_allocatorVars
-----------------------------------------------------------------------------
(* Properties                                                              *)

AllocatorTypeOK ==
  /\ inner.runs \in Seq(Runs) /\ inner.free \in Seq(Runs) /\ inner.unused \in Seq(Runs)
  /\ DOMAIN inner.run = Runs
  /\ \A r \in Runs : /\ status(inner, r) \in Status
                     /\ rangeOf(inner, r).start \in Nat /\ rangeOf(inner, r).size \in Nat
  /\ inner.panic \in Panics /\ debug \in BOOLEAN
  /\ \A h \in held : h[1] \in Runs /\ h[2] \in Ranges

Running == inner.panic = "none"

PagesWith(st) == UNION {pages(rangeOf(inner, r)) :
                          r \in {r \in ToSet(inner.runs) : status(inner, r) = st}}

\* "Ranges cannot overlap": the runs are in address order and disjoint, however
\* they were split and merged.
RunsOrdered == Running => \A j, k \in 1 .. Len(inner.runs) :
  j < k => end(rangeOf(inner, inner.runs[j])) <= rangeOf(inner, inner.runs[k]).start

\* "All usable memory is tracked by a linked list of ranges": no operation loses
\* a page frame or takes in one that is not usable.
AllUsableTracked == Running =>
  usable = PagesWith("Free") \cup PagesWith("Allocated") \cup PagesWith("Tracking")

\* The free list ("only set if the status is Free") has every free run of the
\* main list, once, and no other.
FreeListExact == Running =>
  /\ ToSet(inner.free) = {r \in ToSet(inner.runs) : status(inner, r) = "Free"}
  /\ \A j, k \in 1 .. Len(inner.free) : inner.free[j] = inner.free[k] => j = k

\* Every Run is on the main list or among the unused ones, and only once: none is
\* leaked when runs are split and merged.
RunsConserved == inner.panic \in {"none", "no_runs"} =>
  \A r \in Runs : Cardinality({k \in 1 .. Len(inner.runs) : inner.runs[k] = r})
                    + Cardinality({k \in 1 .. Len(inner.unused) : inner.unused[k] = r}) = 1

\* The ranges that callers hold are the allocated runs, unchanged since they were
\* handed out.
HeldAreAllocated == Running =>
  held = {<<r, rangeOf(inner, r)>> :
            r \in {r \in ToSet(inner.runs) : status(inner, r) = "Allocated"}}

\* allocate reports InsufficientMemory only if there are not `count` contiguous
\* free page frames: deallocate always merges what can be merged.
FailsOnlyWithoutGap == Running => \A count \in Counts :
  Fitting(count) = 0 =>
    ~\E start \in usable : start .. start + count - 1 \subseteq PagesWith("Free")

\* "Deallocate the physical memory allocation range": deallocate accepts exactly
\* the ranges that callers hold, so a second deallocation of a range is refused.
FreesExactlyHeld == Running => \A rng \in Ranges :
  Deallocatable(rng) <=> \E r \in Runs : <<r, rng>> \in held

\* The lists stay in step through every order of splits, exact fits and merges on
\* either side: runs ordered, free list exact, no Run leaked, and what callers
\* hold, allocated and possible to deallocate exactly once.
RunListsInStep ==
  /\ AllocatorTypeOK
  /\ RunsOrdered /\ FreeListExact /\ RunsConserved /\ HeldAreAllocated /\ FreesExactlyHeld

\* "Tried to reinitialize in-use run", the debug_assert! of Run::initialize,
\* never fires: a run taken from unused_runs has status Unused.
NeverReinitializes == inner.panic # "reinitialized"

FreeMemory == INSTANCE PageAllocator WITH
  free <- PagesWith("Free"), taken <- held, halted <- ~Running

\* The lists of runs implement the allocator of pages.
ImplementsPages == FreeMemory!PageSpec
=============================================================================
