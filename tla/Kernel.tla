-------------------------------- MODULE Kernel --------------------------------
(***************************************************************************)
(* The kernel from its entry point on: start (arch/x86_64/entry.rs), kmain *)
(* (main.rs), the allocator's tracing while it is built, the in-kernel     *)
(* tests (ktest), the panic handler (panic.rs) and the interrupt handlers, *)
(* composed with the tracing pipe and the console.  What the boot context  *)
(* does is a script, the list of the calls in the order of the source; a   *)
(* panic replaces it by the script of the panic handler.                   *)
(***************************************************************************)
EXTENDS TracePipe, Console

CONSTANTS
  boot,         \* the context of the bootstrap processor
  irq,          \* the context of interrupt handlers on it
  Machines,     \* what the bootloader and the machine provide, see below
  BACKTRACE_DEPTH,  \* the frames of a backtrace (16)
  RUN_COUNT,    \* the runs that fit in the tracking pages
  StateFits,    \* the usable regions whose runs can be described in a queue slot
  MaxInterrupts \* bound: the interrupts in a behaviour

VARIABLES
  machine,      \* a member of Machines
  script,       \* the calls that the boot context makes
  at,           \* the next of them
  ready,        \* the Globals and subsystems that were initialized
  interrupts,   \* [on, idt, pic, apic]: enabled; our IDT loaded; PIC masked;
                \*   local APIC enabled
  fault,        \* why the kernel panicked, or "none"
  irqs          \* the number of interrupts so far

kernelVars == <<machine, script, at, ready, interrupts, fault, irqs>>

ASSUME KernelAssumption == boot \in Contexts /\ irq \in Contexts /\ boot # irq

PAGE_SIZE == 4      \* in the unit of the addresses of a memory map

Call(op, what) == <<[op |-> op, what |-> what]>>
Repeat(n, calls) == FlattenSeq([i \in 1 .. n |-> calls])

\* The fields of the calls: a text that fits in a queue slot or does not.
message == <<[name |-> "message", kind |-> "debug"]>>
long_message == <<[name |-> "range", kind |-> "debug"], [name |-> "message", kind |-> "debug"]>>

flush_ == Call("flush", "")
event_ == Call("event", "short")
entered_ == Call("span", "") \o Call("enter", "")

\* Drop of the guard of a span and of the span.
dropped_ == Call("exit", "") \o Call("close", "")

\* Mutant: the descriptor table is not published.
interrupts_init_NoTable == Call("disable_pic", "") \o Call("init", "GLOBAL")

\* hal interrupts::init.
interrupts_init == Call("disable_pic", "") \o Call("init", "IDT") \o Call("init", "GLOBAL")

\* trace::init: the serial port, the subscriber, which is on the heap, the worker.
trace_init == Call("need", "heap") \o Call("marker", "") \o Call("init", "dispatch") \o Call("init", "WORKER")

\* The regions of the memory map that start reports: neighbours of a kind are one.
logged(map) ==
  LET combine(regions, r) ==
        IF regions # << >> /\ Last(regions).kind = r.kind /\ Last(regions).end = r.start
        THEN [regions EXCEPT ![Len(regions)].end = r.end] ELSE Append(regions, r)
  IN  FoldLeft(combine, << >>, map)

\* The ranges that build adds, given the usable regions and which of them gives the
\* tracking space: sorted, and those that overlap or touch combined.
allocatable(usable, scratch) ==
  LET tracking == usable[scratch].start
      collected == [k \in DOMAIN usable |->
                      IF usable[k].start = tracking
                      THEN [usable[k] EXCEPT !.start = @ + 2 * PAGE_SIZE] ELSE usable[k]]
      combine(ranges, cur) ==
        IF ranges # << >> /\ Last(ranges).start <= cur.end /\ Last(ranges).end >= cur.start
        THEN [ranges EXCEPT ![Len(ranges)].end = cur.end] ELSE Append(ranges, cur)
  IN  FoldLeft(combine, << >>, SortSeq(collected, LAMBDA r, s : r.start < s.start))

\* add_allocatable_range panics when no run is unused, and at a range that overlaps the
\* tracking space.  (Combined ranges lie apart, so each keeps its run.)
cannot_add(ranges, tracking) ==
  \/ Len(ranges) + 1 > RUN_COUNT
  \/ \E k \in DOMAIN ranges :
       ranges[k].start < tracking + 2 * PAGE_SIZE /\ ranges[k].end > tracking

\* Allocator::build, with a span for each usable region.  It fails when no region
\* has the scratch space, and panics at a region that is not made of whole pages or
\* that cannot be added.
root_allocator_init(map) ==
  LET usable == SelectSeq(map, LAMBDA r : r.kind = "Usable")
      aligned(r) == r.start % PAGE_SIZE = 0 /\ (r.end - r.start) % PAGE_SIZE = 0
      scratch == SelectInSeq(usable, LAMBDA r : r.end - r.start >= 4 * PAGE_SIZE)
      bad == SelectInSeq(usable, LAMBDA r : ~aligned(r))
  IN  entered_
      \o (IF scratch = 0 THEN dropped_ \o Call("panic", "no memory")
          ELSE IF usable[scratch].start % PAGE_SIZE # 0 THEN Call("panic", "unaligned")
          ELSE event_ \o event_
               \o Repeat(IF bad = 0 THEN Len(usable) ELSE bad - 1, entered_ \o dropped_)
               \o (IF bad = 0 THEN << >> ELSE entered_ \o Call("panic", "unaligned"))
               \o event_
               \o (IF cannot_add(allocatable(usable, scratch), usable[scratch].start)
                   THEN Call("panic", "add range") ELSE << >>)
               \o Call("event", IF Len(usable) > StateFits THEN "long" ELSE "short")
               \o dropped_ \o Call("init", "RootAllocator"))

\* Mutant: the processor keeps the descriptor table of the bootloader.
init_local_NoIdt(m) ==
  entered_
  \o (IF m.x2apic THEN << >> ELSE Call("panic", "x2apic"))
  \o event_ \o Call("enable_apic", "") \o event_ \o dropped_

\* hal interrupts::init_local: the local APIC, then the IDT.
init_local(m) ==
  entered_
  \o (IF m.x2apic THEN << >> ELSE Call("panic", "x2apic"))
  \o event_ \o Call("enable_apic", "") \o event_ \o dropped_
  \o Call("need", "IDT") \o Call("load_idt", "")

\* ktassert and ktassert_eq report a failure and return from the test.
report_failure == event_

\* The function that the macro `test` makes of a test's body.
test_impl(outcome) ==
  entered_
  \o (CASE outcome = "pass" -> << >>
        [] outcome = "fail" -> report_failure
        [] outcome = "panic" -> Call("panic", "test"))
  \o dropped_

\* ktest::run_tests, which exits the machine and does not return.
run_tests(m) ==
  entered_ \o event_
  \o FlattenSeq([i \in DOMAIN m.tests |-> test_impl(m.tests[i]) \o event_])
  \o event_
  \o Call("exit_vm", IF \E i \in DOMAIN m.tests : m.tests[i] = "fail" THEN "failure" ELSE "success")

\* kmain.  In a test build run_tests comes first; the flush after it is never
\* reached.
kmain(m) ==
  entered_ \o flush_
  \o (IF m.test_build THEN run_tests(m) \o flush_ ELSE << >>)
  \o (IF m.display = "none" THEN Call("panic", "display") ELSE << >>)
  \o Call("clear", "")
  \o FlattenSeq([i \in DOMAIN m.hello |-> Call("write_str", m.hello[i])])
  \o Call("wait", "")

\* start.
start(m) ==
  Call("init", "heap") \o interrupts_init \o trace_init \o flush_
  \o entered_ \o flush_
  \o event_ \o event_ \o flush_
  \o Repeat(Len(logged(m.map)), event_) \o flush_
  \o event_ \o flush_
  \o (IF m.offset THEN << >> ELSE Call("panic", "offset"))
  \o Call("init", "MemoryAccess") \o flush_
  \o event_ \o flush_
  \o root_allocator_init(m.map) \o flush_
  \o event_ \o flush_
  \o Call("init", "KERNEL_HEAP.root")
  \o init_local(m)
  \o event_ \o flush_
  \o kmain(m)

\* Mutant: what the handler records is left to the worker.
panic_NoFlush(frames, omitted) ==
  flush_ \o entered_ \o event_
  \o Repeat(frames, event_) \o (IF omitted THEN event_ ELSE << >>)
  \o dropped_ \o Call("wait", "")

\* The panic handler.  Nothing is unwound: the spans that were entered stay so.
panic(frames, omitted) ==
  flush_ \o entered_ \o event_
  \o Repeat(frames, event_) \o (IF omitted THEN event_ ELSE << >>)
  \o dropped_ \o flush_ \o Call("wait", "")
-----------------------------------------------------------------------------
NoInterrupts == [on |-> FALSE, idt |-> FALSE, pic |-> FALSE, apic |-> FALSE]

KernelInit ==
  /\ machine \in Machines
  /\ PipeInit
  /\ ConsoleInit({machine.size})
  /\ script = start(machine)
  /\ at = 1
  /\ ready = {}
  /\ interrupts = NoInterrupts
  /\ fault = "none"
  /\ irqs = 0

Now(op) == running /\ Idle(boot) /\ script[at].op = op
What == script[at].what

hostVars == <<decoderVars, formatterVars>>

Advance == at' = at + 1 /\ UNCHANGED <<machine, script, fault, irqs, running, hostVars>>

Panic(why) ==
  /\ \E frames \in 0 .. BACKTRACE_DEPTH, omitted \in BOOLEAN :
       /\ omitted => frames = BACKTRACE_DEPTH
       /\ script' = panic(frames, omitted)
  /\ at' = 1
  /\ fault' = why
  /\ UNCHANGED <<machine, irqs, running, hostVars, serial, ktraceVars>>

\* The calls of the boot context that trace.
Fields == IF What = "long" THEN long_message ELSE message
Tracing ==
  /\ \/ Now("span") /\ new_span(boot, Current, << >>)
     \/ Now("event") /\ event(boot, Current, Fields)
     \/ Now("enter") /\ enter(boot, created)
     \/ Now("exit") /\ exit(boot)
     \/ Now("close") /\ \E id \in SpanIds : try_close(boot, id)
     \/ Now("flush") /\ flush(boot)
  /\ Advance
  /\ UNCHANGED <<ready, interrupts, consoleVars>>

\* ktrace::init writes the marker.
WriteMarker ==
  /\ Now("marker")
  /\ send_raw(START_OF_OUTPUT)
  /\ Advance
  /\ UNCHANGED <<ktraceVars, ready, interrupts, consoleVars>>

\* Global::init, and what else can be initialized only once.
InitOnce ==
  /\ Now("init")
  /\ IF What \in ready THEN Panic("initialized twice") /\ UNCHANGED ready
     ELSE Advance /\ ready' = ready \cup {What} /\ UNCHANGED <<serial, ktraceVars>>
  /\ UNCHANGED <<interrupts, consoleVars>>

\* Global::get, and what else must have been initialized.
Need ==
  /\ Now("need")
  /\ IF What \notin ready THEN Panic("not initialized") ELSE Advance /\ UNCHANGED <<serial, ktraceVars>>
  /\ UNCHANGED <<ready, interrupts, consoleVars>>

Fails ==
  /\ Now("panic")
  /\ Panic(What)
  /\ UNCHANGED <<ready, interrupts, consoleVars>>

\* apic::disable_pic remaps and masks the legacy controller.
disable_pic == Now("disable_pic") /\ interrupts' = [interrupts EXCEPT !.pic = TRUE] /\ Advance

\* The writes of apic::init_local to the base and spurious vector registers.
enable_apic == Now("enable_apic") /\ interrupts' = [interrupts EXCEPT !.apic = TRUE] /\ Advance

load_idt == Now("load_idt") /\ interrupts' = [interrupts EXCEPT !.idt = TRUE] /\ Advance

\* The idle loops of kmain and fatal_error: they only wait, with interrupts on.
wait ==
  /\ Now("wait")
  /\ interrupts' = [interrupts EXCEPT !.on = TRUE]
  /\ UNCHANGED <<at, machine, script, fault, irqs, running, hostVars>>

SetInterrupts ==
  /\ disable_pic \/ enable_apic \/ load_idt \/ wait
  /\ UNCHANGED <<serial, ktraceVars, ready, consoleVars>>

\* Console::clear and write_str; draw_iter panics at a format it does not know.
Show ==
  /\ \/ /\ Now("clear")
        /\ IF machine.display = "unsupported" THEN Panic("draw") /\ UNCHANGED consoleVars
           ELSE clear /\ Advance
     \/ /\ Now("write_str")
        /\ write_str(What)
        /\ IF write(What).panicked THEN Panic("draw") ELSE Advance
  /\ UNCHANGED <<serial, ktraceVars, ready, interrupts>>

\* handle_remapped_pic and handle_spurious record an event.  The boot context
\* waits meanwhile.
Interrupt ==
  /\ running /\ interrupts.on /\ interrupts.idt /\ interrupts.apic
  /\ irqs < MaxInterrupts
  /\ event(irq, Current, message)
  /\ irqs' = irqs + 1
  /\ UNCHANGED <<machine, script, at, ready, interrupts, fault, running, hostVars, consoleVars>>

Carry(c) ==
  /\ running
  /\ Continue(c)
  /\ UNCHANGED <<kernelVars, consoleVars, running, hostVars>>

\* The machine stops: ktest::exit, or somebody ends it.
PowerOff ==
  /\ Stop
  /\ script' = start(machine) /\ at' = 1 /\ ready' = {} /\ interrupts' = NoInterrupts
  /\ fault' = "none" /\ irqs' = 0
  /\ UNCHANGED <<machine, consoleVars>>

HostStep == Host /\ UNCHANGED <<kernelVars, consoleVars>>

KernelNext ==
  \/ Tracing \/ WriteMarker \/ InitOnce \/ Need \/ Fails \/ SetInterrupts \/ Show
  \/ Interrupt
  \/ \E c \in {boot, irq} : Carry(c)
  \/ PowerOff \/ HostStep

allVars == <<pipeVars, consoleVars, kernelVars>>

\* The processor runs: the boot context does not stop between two calls.
KernelSpec ==
  /\ KernelInit
  /\ [][KernelNext]_allVars
  /\ WF_allVars(Tracing \/ WriteMarker \/ InitOnce \/ Need \/ Fails \/ SetInterrupts \/ Show)
  /\ \A c \in {boot, irq} : WF_allVars(Carry(c))
-----------------------------------------------------------------------------
AtRest == running /\ Idle(boot) /\ script[at].op \in {"wait", "exit_vm"}

\* The kernel waits for interrupts only when they have a handler: the idle loop of
\* kmain is reached with the PIC masked, the local APIC enabled and the IDT loaded.
\* (After an early panic fatal_error waits as well, then only the PIC is silent.)
InterruptsReady ==
  interrupts.on => interrupts.pic /\ (fault = "none" => interrupts.apic /\ interrupts.idt)

\* The order of start and kmain is right for every machine: nothing is used before
\* it is initialized or initialized twice, and tracing neither runs out of spans
\* nor panics, also if the kernel panics somewhere on the way.
BootInOrder ==
  /\ fault \notin {"initialized twice", "not initialized"}
  /\ \A c \in {boot, irq} : step[c] \notin {"fatal", "panicked"}

\* "An emphasis on being able to get traces during a panic": when the panic handler
\* is done, its span and all it has reported are on the serial port, and so is
\* all that was recorded before, unless the queue was full.
PanicReported ==
  (AtRest /\ fault # "none") =>
    LET mine == SelectSeq(Written, LAMBDA m : m.by = boot)
        inside(m) == m.stack # << >> /\ Last(m.stack) = created
        events == SelectSeq(script, LAMBDA call : call.op = "event")
    IN  /\ \A i \in DOMAIN queue : queue[i].message.by # boot
        /\ mine # << >> /\ Last(mine).kind = "SpanExited" /\ Last(mine).id = created
        /\ Len(SelectSeq(mine, LAMBDA m : m.kind = "Event" /\ inside(m))) = Len(events)

\* Whatever the machine provides, boot ends: in the idle loop, in the one of the
\* panic handler, or with the exit of the tests.
BootEnds == <>(AtRest \/ ~running)

\* "Ensure any queued events are flushed on exit": when the tests end the machine,
\* what they have recorded was written.
FlushedOnExit == (AtRest /\ script[at].op = "exit_vm") => queue = << >>
=============================================================================
