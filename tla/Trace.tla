--------------------------------- MODULE Trace ---------------------------------
(***************************************************************************)
(* Tracing by contexts that may begin any operation at any time, once      *)
(* ktrace::init has run.                                                   *)
(***************************************************************************)
EXTENDS TracePipe

CONSTANTS
  Payloads,     \* the sequences of fields that spans and events are given
  MaxMessages   \* bound: the messages recorded in a behaviour

TraceInit ==
  /\ \E n \in BootText : serial = Text(n) \o START_OF_OUTPUT
  /\ KTraceInit
  /\ DecoderInit
  /\ running = TRUE

Recorded == Len(accepted) + Len(dropped) + Cardinality({c \in Contexts : step[c] = "push"})

\* A context begins an operation.
Begin(c) ==
  \/ /\ Recorded < MaxMessages
     /\ \/ \E parent \in Parents(c), fields \in Payloads :
             new_span(c, parent, fields) \/ event(c, parent, fields)
        \/ \E id \in SpanIds : enter(c, id)
        \/ exit(c)
  \/ \E id \in SpanIds : clone_span(c, id) \/ try_close(c, id)
  \/ flush(c)

Kernel(c) == running /\ (Begin(c) \/ Continue(c)) /\ UNCHANGED <<decoderVars, formatterVars, running>>

TraceNext == (\E c \in Contexts : Kernel(c)) \/ Stop \/ Host

\* A context that has begun an operation goes on with it, and the host reads what
\* arrives.  Nothing makes a context begin one.
TraceSpec ==
  /\ TraceInit
  /\ [][TraceNext]_pipeVars
  /\ \A c \in Contexts :
       WF_pipeVars(running /\ Continue(c) /\ UNCHANGED <<decoderVars, formatterVars, running>>)
  /\ WF_pipeVars(Host)
-----------------------------------------------------------------------------
\* A context that has the worker, and finds the oldest message committed, goes on
\* until all messages are written up to the first that is not committed: flush
\* leaves nothing behind that it has seen.
WorkerDrains ==
  LET Drained == queue = << >> \/ queue[1].state = "reserved"
  IN  (worker # NoContext /\ step[worker] \in {"work", "output"} /\ ~Drained)
        ~> (Drained \/ ~running)
=============================================================================
