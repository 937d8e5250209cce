# A TLA+ verification of PlatypOS

TLA+ models of PlatypOS, from its lock-free slab to the tool that runs it, the TLC
configurations that check them on small instances, and TLAPS proofs of the
properties that matter most.  `PROJECT.json` maps every definition to the source
lines it models and lists the runs, the mutants that show each property can fail,
the findings, the hazards and the theorems.

## 1. The system

| Part | Source | What changes state, who runs it |
|---|---|---|
| Slab | `slab/src` | A fixed array of slots used by all processors without locks. `insert` takes a slot from the processor's local free list or from the global one (a Treiber stack), `get` and dropping a `Ref` count references in a packed word, `remove` marks the value; whoever drops the last reference clears the slot and gives it back. |
| Root allocator | `kernel/src/mm/root_allocator.rs`, `address.rs`, `map.rs` | Page frames as runs in an address-ordered list, a free list, and a list of unused run structures. Built from the memory map at boot, then used under a mutex. |
| InterruptSafeMutex, interrupt guards | `common/src/sync.rs`, `hal/src/interrupts.rs`, `hal-x86_64/src/interrupts.rs` | A spinlock whose holder has interrupts disabled; nested guards restore the flag. Threads and interrupt handlers. |
| Global | `common/src/sync.rs` | A value set once in boot and read from everywhere. |
| ktrace | `ktrace/src`, `kernel/src/trace.rs` | A tracing subscriber: spans live in a slab, messages go through a bounded queue to a worker that writes them to the serial port. |
| ktrace decoder, formatter | `ktrace/proto`, `ktrace/decoder` | The host looks for the marker in the byte stream, decodes messages and keeps the open spans. |
| Boot, panic | `kernel/src/arch/x86_64`, `main.rs`, `panic.rs` | `start` and `kmain` set everything up in a fixed order and end in an idle loop; the panic handler reports and idles too. |
| Heap | `kernel/src/mm/heap_allocator.rs` | Wraps an external allocator. |
| Console, display | `kernel/src/console.rs`, `display.rs` | Cursor, wrapping and clearing of a text screen on the frame buffer. |
| Topology, PerProcessor | `hal/src/topology.rs` | Per-processor data; on x86-64 the current processor is always 0. |
| APIC, serial port, handlers | `hal-x86_64/src` | Device registers; handlers that record an event. |
| ktest | `ktest` | Runs the tests in the kernel and exits the virtual machine with the result. |
| xtask | `xtask` | Processes on the host that build, run, test and debug the kernel; they share the gdb socket and configuration. |

They meet as follows.  ktrace keeps its spans in a Slab; the root allocator and the
trace worker sit behind an InterruptSafeMutex; those mutexes, the allocator and the
interrupt controller are Globals, initialised by `entry.rs` in a fixed order.  What the
worker writes to the serial port is the standard output of a QEMU process that xtask
reads, decodes and shows; ktest's exit code is what `xtask test` reports.

## 2. Modules

| Module | Models | Correspondence |
|---|---|---|
| `SlabConstants` | parameters of the slab | processors, number of slots, the link `u64::MAX` |
| `GlobalFreeList` | `GlobalFreeList::push`, `pop` | one step per atomic access or access to `Slot::next`; a link is `EMPTY` or the pair of index and tag |
| `SlotStack` | (abstract) a stack with atomic push and pop | |
| `Slot` | `slot.rs` and the operations of `Slab` on a slot | one step per load, exchange or store of the lifecycle word, and per access to the contents; a value is named by the generation it was inserted under |
| `SlotPool` | slots over free lists that work | the free slots are a set |
| `Slab` | `Slab` over local lists and the global list | composes `Slot` and `GlobalFreeList` |
| `RootAllocator` | `build`, `allocate`, `deallocate` | the three intrusive lists are sequences; `build`, `coalesce`, `add_run`, ... are operators on the allocator's record with the code's names; a panic is recorded and stops the allocator |
| `PageAllocator` | (abstract) sets of free and taken pages | |
| `InterruptSafeMutex` | `lock`, `try_lock`, drop of a guard, interrupts | one step per access to the flag or to a lock |
| `Global` | `init`, `try_init`, `get`, `try_get` | the flag and the value are separate steps |
| `Wire` | `ktrace/proto`: messages, fields, what is left of a message that does not fit, and what postcard may read | a word stands for the bytes of a message's head or of one field; `CAPACITY` words fit in a slot |
| `KTrace` | the subscriber, the queue, `flush` and `Worker::work` | one step per access to the slab of spans, to a count, to a slot of the queue or to the worker's lock |
| `Decoder` | `Decoder::decode` and `Formatter::receive` | one step per read of the input and per message |
| `TracePipe` | the two with the serial port between them, and the end of the virtual machine | what the properties of tracing speak of |
| `Trace` | contexts that may trace anything at any time | composes `TracePipe` |
| `Console` | `Console` and where `draw_iter` panics | `write` is an operator on the state of a write, one turn of the loop per character |
| `Kernel` | `start`, `kmain`, `run_tests`, the panic handler and the interrupt handlers | composes `TracePipe` and `Console`. The boot context follows a script: the list of the calls of the source, in order, built by operators with the names of the functions; a panic replaces it by that of the handler |
| `XTask` | `xtask/src`: invocations as processes | one step per operation on a file or process, each with its failure |
| `*_proofs`, `SlotPool_frames`, `SlotPool_insert`, `SlotPool_remove` | theorems and their lemmas | section 5 |
| `MC*` | instances for TLC | section 3 |

History variables (`stack`, `out`, `issued`, `removed`, `held`, `usable`, `base`,
`seen`, `winners`, `accepted`, `dropped`, `shown`, `drawn`, `typed`, `screen`, `stale`, `overlap`, and
`by` and `stack` of a message) record what properties speak of; the code has no such state.
Operators whose comment begins with "Mutant" are plausible bugs; nothing uses them in
the specifications.

Memory is sequentially consistent in all models: the difference between the
Relaxed, Acquire and Release orderings of the slab is out of scope.

## 3. Runs

| Run | Instance | Shows |
|---|---|---|
| `free_list` | 2 processors, 2 slots, 4 tags | The global list, from empty, is a linearizable stack; no slot is duplicated or lost; every push and pop returns; the inductive invariant of section 5. |
| `slots` | 3 processors with one `Ref` each, 1 slot, 3 generations, 2 references (proved for any numbers, section 5) | A reference protects the value; counts are exact; a removed `Idx` stays dead; a value is dropped once, by one owner; no assertion of the crate fails; a removed value is reclaimed. |
| `slab` | 2 processors, 2 slots, 2 tags | Slots, local lists and global list together implement `SlotPool` and keep the contract of `GlobalFreeList`. |
| `slab_aba` (violation) | 3 processors | `insert` allocates a slot that is in use (finding 1). |
| `root` | 5 memory maps of up to 8 usable pages, 5 runs, sizes 1 to 3, with and without debug assertions | The run list is ordered, disjoint and complete, the free list is exact, runs are not leaked, callers' ranges are intact, `allocate` fails only without a gap, `deallocate` accepts exactly what is held, and the lists implement `PageAllocator`. |
| `root_reuse` (violation) | 6 pages, 4 runs | A debug assertion fails (finding 2). |
| `mutex` | 2 processors with a thread and a handler each, 2 nested mutexes | Holders take no interrupts, handlers do not wait for the thread under them, flags are restored, a held mutex is released, no deadlock. |
| `global` | 3 threads, in boot order or not | One initializer, one write; no uninitialized memory is read if readers start after `init`. |
| `trace` | 2 contexts, 2 spans of which 1 at a time, 3 messages, a queue of 2, reads of up to 3 words; fields that fit, that do not and that panic | Reference counts of spans are exact; the queue, the worker and its lock lose, repeat and reorder nothing; the host is given what was written however reads cut it; text before the marker is passed on; whoever has the worker empties the queue. |
| `kernel` | 25 machines: a good one and ones with bad memory maps, missing features, small screens, tests; 2 interrupts; a queue of 16 | Nothing is used before it is initialized or set up twice, the idle loop has its handlers, a panic anywhere is reported in full, the host's span stack follows the kernel's, text is drawn once and in order, boot ends. |
| `kernel_exit` (violation) | the same | Output of the tests is lost (finding 3). |
| `xtask` | 2 invocations of any two commands, which may fail at any step or be ended by a signal, to the tool alone or to its process group | A QEMU is left behind only by a signal to the tool alone; a file of gdb stays only if the invocation that made it was interrupted or failed to write or remove one, whatever became of others; sessions that do not overlap keep their files; a test run succeeds only if the tests passed; an invocation ends when its QEMU has. |

**Bounds.**  `TagLimit`, `GenLimit` and `RefLimit` stand for the widths of bit
fields (reaching one is the panic the code has there, or stops the history);
`RUN_COUNT` for the runs that fit the tracking pages; `LockCount`, `SIZE` and
the sets of processors and threads for sizes.  They are chosen so that the
interesting cases occur: two slots, two processors and four tags are what ABA needs in
the global list alone (one processor delayed in `pop`, one that reorders the list), and
three processors in the slab, where a processor frees its own slots to its local list;
three generations reuse a slot twice, so that an `Idx` is stale by one or two; two references and three
processors let `get`, drop and `remove` overlap on one slot; five runs are few enough
to run out of runs and to reuse each, and enough for an allocated run between two free
ones, merged on both sides.  The maps of `root` have adjacent, overlapping,
unordered and reserved regions, one has no region large enough for the tracking
space, and one has more regions than runs.  Usable regions of a map start at different
pages, since the order of equal keys in `sort_unstable_by_key` is unspecified.

In `trace`, three messages and a queue of two fill the queue, drop a message and leave one
behind a slot that is still reserved; one span at a time fills the slab; a second context
is what the races on counts and on the worker's lock need, and reads of one to three
words cut the marker of four and every message in all ways.  `MaxHandles` bounds the
handles of a span on a context, `MaxMessages` and `SpanIds` the history.  `GarbledKinds`
bounds what bytes that are not a message may be read as.  In `kernel` the queue of 16
stands for 64: only memory maps of four or more regions overflow it, while the allocator is
built, so that both cases of `HostFollowsKernel` and `PanicReported`
occur; `StateFits` says from how many regions on the allocator's state is longer than
a slot, and with a `RUN_COUNT` of 5 the map of five regions has one too many to add (another
has a region that overlaps the tracking space; both panic in `add_allocatable_range`).  Two interrupts show one before and one after another.  A backtrace has up to
two frames, with or without more omitted.  Two invocations are all that a race for the
gdb files takes; the proofs of section 5 are for any number.

**Deadlock** is checked where the system cannot stop (`mutex`).  It is off where the
code panics (for want of tags or runs), where a bound ends the history, and where the
system ends: a virtual machine that is off, invocations that have finished.

**Symmetry** on processors is used in the runs of the slab, which have no liveness
properties.

**Fairness.**  `FairListSpec` and `FairPoolSpec`: a processor inside an operation
keeps executing (weak fairness of its steps); these operations take no locks.
`FairPoolSpec` also has every held `Ref` dropped at some time, which is what
`RemovedReclaimed` is conditional on in the code; it is strong because a processor
may do other operations in between.  `MutexFairSpec`: a running context keeps
executing, and what it does while it holds a mutex ends; this is strong because the
holder may try other mutexes meanwhile.  No fairness among waiters is assumed: a
spinlock gives none, and so `LockReleased` is about the innermost mutex, whose holder
waits for no other.  `CallsReturn` holds because a failed exchange means another call succeeded, and the
tags bound how often that happens.  `TraceSpec` and `KernelSpec`: a context that has begun
an operation of tracing goes on with it, since nothing in it blocks, and the boot context makes
its next call; no interrupt, flush or end of the machine has to come.  `XTaskSpec`: the
tool takes its next step; QEMU, its user and errors have no fairness, so that a QEMU
that never ends is a behaviour and `InvocationEnds` starts when it has.

## 4. Findings

1. *ABA in the slab.*  `GlobalFreeList::new` links all slots with tag 0 and starts the
   tag counter at 0, so the first `push` repeats an entry of the initial list.  From
   an empty list the tag works (`free_list`, theorem `NoAba`).
2. *Reused runs.*  `coalesce` does not reset the status of a run it puts on
   `unused_runs`; `Run::initialize` asserts that it is `Unused`.
3. *Output of tests.*  `run_tests` exits the virtual machine with its messages queued;
   the comment in `Worker`'s Drop says that they are flushed on exit.

Three more disagreements can be seen with the same modules and other constants; each takes
a changed line or two in a configuration and is not among the runs:

* *Nested regions* (`root_allocator.rs:187`).  Combining ranges takes the end of the later
  one, even if the earlier one reaches further.  `MCRootAllocator` with
  `MemoryMaps <- NestedMaps` and `RUN_COUNT = 4`: `AllUsableTracked` fails in the initial state.
* *Order of guards* (`hal/src/interrupts.rs:57`).  An interrupt guard "keeps interrupts
  disabled while it is held" only if guards are dropped last first.
  `MCInterruptSafeMutex` with `AnyDropOrder = TRUE` and `MutexSpec`: `HeldWithInterruptsOff` fails.
* *Global* (`common/src/sync.rs:139`).  `try_init` sets the flag before the value; a
  concurrent `try_get` sees uninitialized memory.  `MCGlobal` with
  `BootOrders = {FALSE}`: `NoUninitRead` fails.

Met while modelling, and left as hazards: `insert` fails while free slots are on
another processor's local list, and two allocations of zero pages share a range (no
caller asks for zero pages).  A message that does not fit in a slot, such as the state of
an allocator with many regions, garbles what the host reads after it, and a dropped
message about an entered span makes the formatter's assertion fail: `HostShowsWritten` and
`HostFollowsKernel` say up to where the host is right.  Lines that wrap within one
`write` can be drawn beyond the right edge (`FirstLineFits` is about the others), and a letter
with a descender on the last row panics.  A killed debug run leaves its socket, and later ones
refuse to start; if only the tool was killed its QEMU runs on (`QemuOwned` excludes
exactly this), and one that had yet to make its socket, or two sessions that start at once,
share the files with the other (which `SessionIntact` excludes).

## 5. Proofs

`GlobalFreeList_proofs`, for any processors, number of slots and of tags (assumptions:
`SIZE` is a positive natural, `EMPTY` is no entry, `TagLimit` is natural):

* `ListInvariant`: `ListInv` is inductive.  `ListIsStack` alone is not: a step of
  `pop` installs a link that was read earlier.  The strengthening says that tags handed
  out are spent (`SpentTags`), that an entry a pop has loaded is never pushed again
  (`LoadedNeverPushed`, which is where the tag is used), and that while such an entry
  is on the list its link is as read (`LinksCurrent`).
* `ListTypeCorrect`, `NoAba` (the list in memory is the stack of successful exchanges),
  `SlotsExclusive`: consequences.
* `ListRefinesStack`: every step is a push or pop of `SlotStack` or changes nothing
  there; they take effect at the successful exchange.

`SlotPool_proofs`, for any finite sets of processors and of Ref variables and any number of
slots, generations and references (`SizeAssumption`, `SlotAssumption`):

* `PoolInvariant`: `PoolInv` is inductive.  The properties of the `slots` run are not by
  themselves: that an exchange is right depends on what the loop checked of the word it
  expects (`LoopAt`: since state, generation and count are one word, the check holds of the
  slot when the exchange succeeds), on what an owner has found and done (`OwnerAt`: its slot
  has no references, and only a slot that is being inserted is `Allocated`), on every slot
  being free, owned or in use (`SlotAt`), and on no `Idx` being of a generation that is
  still being inserted (`IssuedAt`, which keeps `get` and `remove` off such a slot).
  `SlotPool_frames` has the invariant, lemmas on what a step keeps of other slots and
  processors, and the steps that only load; `SlotPool_insert` and `SlotPool_remove` the
  steps of those operations; `SlotPool_proofs` the exchanges of `get` and drop.  Counts
  are cardinalities of sets of Refs, which grow and shrink by one element.
* `RefsProtect`, `RefsCounted`, `AssertionsHold`, `RemovedIsDead`, `SlotsHaveOneOwner`:
  consequences.  `ImplementsPool`, which carries them over to the slab with its lists,
  is model-checked, and holds as far as the global list works (finding 1).

`InterruptSafeMutex_proofs`, for any processors and number of mutexes, with guards
dropped last first:

* `MutexInvariant`: `MutexInv` is inductive.  A guard is the spinlock
  (`GuardIsLock`); only the oldest guard of a context has something to restore; the
  flag is determined by where the running context is (`Active`); a thread under a
  handler has no guard and has not disabled interrupts yet (`Preempted`).
* `GuardsKeepInterruptsOff`, `HandlersDoNotDeadlock`, `FlagIsRestored`.

`Global_proofs`, for any threads:

* `GlobalInvariant`: between the exchange of the flag and the write exactly one thread
  is writing.  `InitializedOnce`, `ValueStable`, and in boot order
  `BootReadsWritten`.

`XTask_proofs`, for any number of invocations (assumption: `Nobody` is none of them):

* `XTaskInvariant`: `XTaskInv` is inductive.  Its conjuncts say who holds what: where an
  invocation is determines whether it has a Server and a QEMU (`Holders`, `QemuOwned`), and
  a QEMU with a debugger has no Server only if that was left behind (`Orphans`); a file that
  exists was made by somebody who has still to remove it, or is in `stale` (`Files`); as long
  as there was no overlap there is one session at a time, and its configuration is its own
  (`OneSession`, which `SessionIntact` needs when a session is set up); a code that an
  invocation got is that of its QEMU, and 3 only comes from tests that passed (`Codes`).
  The proof has one case per action for the invocation that takes the step, and a frame
  lemma for the others.
* `QemuIsOwned`, `FilesCleanedUp`, `SessionsIntact`, `TestVerdictRight`: consequences.

Only model-checked: liveness (fairness is out of TLAPS's reach); everything about
`Slab`, `RootAllocator`, tracing, the console and the kernel, the
refinements `ImplementsPool` and `ImplementsPages` among it.  (What `serialize`,
`write` or `build` compute is a fold over a sequence, and induction over data is out of the
prover's reach.)

## 6. Not modelled

* The inside of the heap (an external allocator; expansion is not implemented), page
  tables and the pointers of `MemoryAccess`; the values of device registers.
* Weak memory orderings; wrapping of generations; more than one processor tracing in
  `Kernel`: the kernel starts no other processor, and `processor_id` is always 0
  (`Trace` has two contexts).
* The encoding of single bytes, metadata, formatting and colours: data without control.
* Interrupts during boot: the code enables them only in its idle loops.
* `Drop` of a Global (all are statics), `ktrace/src/stack.rs` (not compiled), `test_alloc`
  (no caller), `record` and `follows_from` of the subscriber (`todo!()`, which panics; nothing calls
  them).
* Reserved memory ranges (`entry.rs` passes none, and removing them is a TODO).
* The disk image that two runs of one binary share; the symbolizer; xtask's output;
  the command lines of cargo, QEMU and gdb.

## 7. Plan

1. Done: the slab, its free lists and their composition; the root allocator; the mutex;
   Global; tracing from the subscriber to the terminal; boot, panic, tests and console;
   xtask.
2. Proofs: the inductive invariant of `RootAllocator`'s lists; counts and order of
   `KTrace`; that `Slab` implements `SlotPool` from a list that starts empty.
3. When the kernel starts other processors or handlers do more than record an event:
   `Kernel` with several boot contexts, and interrupts during slab operations.
