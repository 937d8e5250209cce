-------------------------------- MODULE KTrace --------------------------------
(***************************************************************************)
(* The kernel's tracing subscriber (ktrace/src/lib.rs) and the worker that *)
(* writes its queue to the serial port (kernel/src/trace.rs).  A context   *)
(* is a processor or an interrupt handler.  The slab of spans is the one   *)
(* of Slab.tla: an id is not used again.                                   *)
(***************************************************************************)
EXTENDS Wire, Functions, FiniteSetsExt

CONSTANTS
  Contexts,     \* who may trace
  MAX_SPANS,    \* the spans that can exist at once (128)
  QUEUE_SLOTS,  \* the messages that can be queued (64)
  ParentKinds,  \* the kinds of parents that spans and events are given
  SpanIds,      \* bound: the spans created in a behaviour, 1 .. n
  MaxHandles    \* bound: the handles of a span on a context

VARIABLES
  references,   \* span id -> SpanState.references, for the spans of the slab
  created,      \* the number of span ids given out
  handles,      \* context -> span id -> Span values it holds outside of guards
  entered,      \* context -> the spans of the guards it holds, the newest last
  queue,        \* QUEUE: slots [owner, message, data, committed]
  worker,       \* the context that holds the lock of WORKER
  step,         \* context -> what it does next
  arg,          \* context -> the span or message of the operation under way
  accepted,     \* history: the messages that got a slot
  dropped       \* history: the kinds of the messages that found the queue full

ktraceVars == <<references, created, handles, entered, queue, worker, step, arg, accepted, dropped>>

NoArg == [id |-> 0, message |-> Unreadable]

KTraceInit ==
  /\ references = << >>
  /\ created = 0
  /\ handles = [c \in Contexts |-> [id \in SpanIds |-> 0]]
  /\ entered = [c \in Contexts |-> << >>]
  /\ queue = << >>
  /\ worker = NoContext
  /\ step = [c \in Contexts |-> "idle"]
  /\ arg = [c \in Contexts |-> NoArg]
  /\ accepted = << >>
  /\ dropped = << >>

Goto(c, where, id, message) ==
  /\ step' = [step EXCEPT ![c] = where]
  /\ arg' = [arg EXCEPT ![c] = [id |-> id, message |-> message]]

Done(c) == Goto(c, "idle", 0, Unreadable)

Idle(c) == step[c] = "idle"

\* The spans that a context can name.
Names(c) == {id \in SpanIds : handles[c][id] > 0} \cup Range(entered[c])
-----------------------------------------------------------------------------
(* Subscriber.  Each operation that reports ends in push_ref.               *)

Parents(c) ==
  {p \in {Root, Current} \cup {Explicit(id) : id \in Names(c)} : p[1] \in ParentKinds}

\* new_span: a full slab is a fatal_error, which never returns.
new_span(c, parent, fields) ==
  /\ Idle(c)
  /\ parent \in Parents(c)
  /\ IF Cardinality(DOMAIN references) = MAX_SPANS
     THEN /\ Goto(c, "fatal", 0, Unreadable)
          /\ UNCHANGED <<references, created, handles>>
     ELSE /\ created' = created + 1
          /\ created' \in SpanIds
          /\ references' = [id \in DOMAIN references \cup {created'} |->
                              IF id = created' THEN 1 ELSE references[id]]
          /\ handles' = [handles EXCEPT ![c][created'] = 1]
          /\ Goto(c, "push", 0, Message("SpanCreated", created', parent, fields, c, entered[c]))
  /\ UNCHANGED <<entered, queue, worker, accepted, dropped, serial>>

event(c, parent, fields) ==
  /\ Idle(c)
  /\ parent \in Parents(c)
  /\ Goto(c, "push", 0, Message("Event", 0, parent, fields, c, entered[c]))
  /\ UNCHANGED <<references, created, handles, entered, queue, worker, accepted, dropped, serial>>

\* enter: the Span value becomes the guard Entered.
enter(c, id) ==
  /\ Idle(c)
  /\ handles[c][id] > 0
  /\ handles' = [handles EXCEPT ![c][id] = @ - 1]
  /\ entered' = [entered EXCEPT ![c] = Append(@, id)]
  /\ Goto(c, "push", 0, Message("SpanEntered", id, Root, << >>, c, entered[c]))
  /\ UNCHANGED <<references, created, queue, worker, accepted, dropped, serial>>

\* exit: guards end in the order of their scopes, the newest first.
exit(c) ==
  /\ Idle(c)
  /\ entered[c] # << >>
  /\ handles' = [handles EXCEPT ![c][Last(entered[c])] = @ + 1]
  /\ entered' = [entered EXCEPT ![c] = Front(@)]
  /\ Goto(c, "push", 0, Message("SpanExited", Last(entered[c]), Root, << >>, c, entered[c]))
  /\ UNCHANGED <<references, created, queue, worker, accepted, dropped, serial>>

\* QUEUE.push_ref: a slot is reserved, or the queue is full and nothing is said.
push_ref(c) ==
  /\ step[c] = "push"
  /\ IF Len(queue) < QUEUE_SLOTS
     THEN /\ queue' = Append(queue, [user |-> c, state |-> "reserved",
                                     message |-> arg[c].message, data |-> << >>])
          /\ accepted' = Append(accepted, arg[c].message)
          /\ Goto(c, "write", 0, arg[c].message)
          /\ UNCHANGED dropped
     ELSE /\ Done(c)
          /\ dropped' = Append(dropped, arg[c].message.kind)
          /\ UNCHANGED <<queue, accepted>>
  /\ UNCHANGED <<references, created, handles, entered, worker, serial>>

\* Message::write_message, then the drop of the slot's guard, which commits the
\* slot.  A panic in the visitor of the fields leaves the slot reserved.
write_message(c) ==
  /\ step[c] = "write"
  /\ LET result == serialize(arg[c].message)
         committed(slot) == [slot EXCEPT !.state = "committed", !.data = result.words]
     IN  IF result.state = "panic"
         THEN Goto(c, "panicked", 0, Unreadable) /\ UNCHANGED queue
         ELSE /\ Done(c)
              /\ queue' = [i \in DOMAIN queue |->
                             IF queue[i].user = c /\ queue[i].state = "reserved"
                             THEN committed(queue[i]) ELSE queue[i]]
  /\ UNCHANGED <<references, created, handles, entered, worker, accepted, dropped, serial>>
-----------------------------------------------------------------------------
(* clone_span and try_close: the span is looked up, then counted.           *)

clone_span(c, id) ==
  /\ Idle(c)
  /\ id \in Names(c)
  /\ Goto(c, "clone", id, Unreadable)
  /\ UNCHANGED <<references, created, handles, entered, queue, worker, accepted, dropped, serial>>

\* The new handle may be for another context.
clone_count(c, to) ==
  /\ step[c] = "clone"
  /\ handles[to][arg[c].id] < MaxHandles
  /\ LET id == arg[c].id
     IN  /\ references' = IF id \in DOMAIN references
                          THEN [references EXCEPT ![id] = @ + 1] ELSE references
         /\ handles' = [handles EXCEPT ![to][id] = @ + 1]
  /\ Done(c)
  /\ UNCHANGED <<created, entered, queue, worker, accepted, dropped, serial>>

\* Drop of a Span: the handle is gone before the subscriber counts it.
try_close(c, id) ==
  /\ Idle(c)
  /\ handles[c][id] > 0
  /\ handles' = [handles EXCEPT ![c][id] = @ - 1]
  /\ IF id \in DOMAIN references THEN Goto(c, "close", id, Unreadable) ELSE UNCHANGED <<step, arg>>
  /\ UNCHANGED <<references, created, entered, queue, worker, accepted, dropped, serial>>

\* Mutant: fetch_sub is taken to return the new value.
close_count_NewValue(c) ==
  /\ step[c] = "close"
  /\ LET id == arg[c].id
     IN  /\ references' = [references EXCEPT ![id] = @ - 1]
         /\ IF references'[id] = 1 THEN Goto(c, "remove", id, Unreadable) ELSE Done(c)
  /\ UNCHANGED <<created, handles, entered, queue, worker, accepted, dropped, serial>>

\* fetch_sub returns the value before.
close_count(c) ==
  /\ step[c] = "close"
  /\ LET id == arg[c].id
     IN  /\ references' = [references EXCEPT ![id] = @ - 1]
         /\ IF references[id] = 1 THEN Goto(c, "remove", id, Unreadable) ELSE Done(c)
  /\ UNCHANGED <<created, handles, entered, queue, worker, accepted, dropped, serial>>

close_remove(c) ==
  /\ step[c] = "remove"
  /\ references' = Restrict(references, DOMAIN references \ {arg[c].id})
  /\ Done(c)
  /\ UNCHANGED <<created, handles, entered, queue, worker, accepted, dropped, serial>>
-----------------------------------------------------------------------------
(* trace::flush and Worker::work.                                           *)

\* Mutant: the worker is used without its lock.
flush_NoLock(c) ==
  /\ Idle(c)
  /\ worker' = c
  /\ Goto(c, "work", 0, Unreadable)
  /\ UNCHANGED <<references, created, handles, entered, queue, accepted, dropped, serial>>

\* flush: try_lock, and nothing if another context has the worker.
flush(c) ==
  /\ Idle(c)
  /\ IF worker = NoContext
     THEN worker' = c /\ Goto(c, "work", 0, Unreadable)
     ELSE UNCHANGED <<worker, step, arg>>
  /\ UNCHANGED <<references, created, handles, entered, queue, accepted, dropped, serial>>

\* Mutant: the worker waits for a message.
pop_ref_Waits(c) ==
  /\ step[c] = "work"
  /\ LET next == SelectInSeq(queue, LAMBDA slot : slot.state # "taken")
     IN  /\ next # 0 /\ queue[next].state = "committed"
         /\ queue' = [queue EXCEPT ![next].state = "taken", ![next].user = c]
         /\ Goto(c, "output", 0, queue[next].message)
  /\ UNCHANGED <<references, created, handles, entered, worker, accepted, dropped, serial>>

\* QUEUE.pop_ref: the oldest message that nobody is reading, if it is committed.
\* A slot that is only reserved hides all those behind it.
pop_ref(c) ==
  /\ step[c] = "work"
  /\ LET next == SelectInSeq(queue, LAMBDA slot : slot.state # "taken")
     IN  IF next # 0 /\ queue[next].state = "committed"
         THEN /\ queue' = [queue EXCEPT ![next].state = "taken", ![next].user = c]
              /\ Goto(c, "output", 0, queue[next].message)
         ELSE Goto(c, "unlock", 0, Unreadable) /\ UNCHANGED queue
  /\ UNCHANGED <<references, created, handles, entered, worker, accepted, dropped, serial>>

\* Mutant: the worker stops after one message.
write_all_Once(c) ==
  /\ step[c] = "output"
  /\ LET i == SelectInSeq(queue, LAMBDA slot : slot.state = "taken" /\ slot.user = c)
     IN  /\ send_raw(queue[i].data)
         /\ queue' = RemoveAt(queue, i)
  /\ Goto(c, "unlock", 0, Unreadable)
  /\ UNCHANGED <<references, created, handles, entered, worker, accepted, dropped>>

\* writer.write_all, whatever the slot's error says; then the slot is free.
write_all(c) ==
  /\ step[c] = "output"
  /\ LET i == SelectInSeq(queue, LAMBDA slot : slot.state = "taken" /\ slot.user = c)
     IN  /\ send_raw(queue[i].data)
         /\ queue' = RemoveAt(queue, i)
  /\ Goto(c, "work", 0, Unreadable)
  /\ UNCHANGED <<references, created, handles, entered, worker, accepted, dropped>>

\* Drop of the lock's guard: the window between the last pop_ref and this one is
\* when a message can be committed that nobody looks for.
unlock(c) ==
  /\ step[c] = "unlock"
  /\ worker' = NoContext
  /\ Done(c)
  /\ UNCHANGED <<references, created, handles, entered, queue, accepted, dropped, serial>>

\* What a context does by itself once it has begun an operation.
Continue(c) ==
  \/ push_ref(c) \/ write_message(c)
  \/ \E to \in Contexts : clone_count(c, to)
  \/ close_count(c) \/ close_remove(c)
  \/ pop_ref(c) \/ write_all(c) \/ unlock(c)
=============================================================================
