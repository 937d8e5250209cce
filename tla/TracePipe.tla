------------------------------ MODULE TracePipe ------------------------------
(***************************************************************************)
(* The kernel's tracing, the serial port and the host that shows the       *)
(* trace, put together; modules that extend this one say what the contexts *)
(* do.  The virtual machine may stop at any time.  The serial port goes    *)
(* one way, so what the host does is the same whether it reads while the   *)
(* machine runs or after it has stopped, as it does here: a read returns   *)
(* any part of what has not been read.                                     *)
(***************************************************************************)
EXTENDS KTrace, Decoder

CONSTANTS
  BootText      \* the lengths of what the bootloader may print first

VARIABLES
  running       \* whether the virtual machine still runs

pipeVars == <<serial, ktraceVars, decoderVars, formatterVars, running>>

\* Before ktrace::init.
PipeInit ==
  /\ \E n \in BootText : serial = Text(n)
  /\ KTraceInit
  /\ DecoderInit
  /\ running = TRUE

\* The machine stops, and the kernel's memory is gone: the queue with it.
Stop ==
  /\ running
  /\ running' = FALSE
  /\ references' = << >>
  /\ created' = 0
  /\ handles' = [c \in Contexts |-> [id \in SpanIds |-> 0]]
  /\ entered' = [c \in Contexts |-> << >>]
  /\ queue' = << >>
  /\ worker' = NoContext
  /\ step' = [c \in Contexts |-> "idle"]
  /\ arg' = [c \in Contexts |-> NoArg]
  /\ accepted' = << >>
  /\ UNCHANGED <<serial, dropped, decoderVars, formatterVars>>

Host ==
  /\ ~running
  /\ read_initial \/ read \/ decode \/ end_of_input
  /\ UNCHANGED <<ktraceVars, running>>

-----------------------------------------------------------------------------
Headers(words) == SelectSeq(words, LAMBDA w : w[1] = "header")

\* The messages that were written to the serial port, in order.
Written == LET headers == Headers(serial) IN [i \in DOMAIN headers |-> headers[i][2]]

Queued == [i \in DOMAIN queue |-> queue[i].message]

\* A message is whole when all its fields were written.
Whole(m) == serialize(m).state = "ok"

Count(id) ==
  LET held(c) == handles[c][id] + Cardinality({i \in DOMAIN entered[c] : entered[c][i] = id})
                   + (IF step[c] = "close" /\ arg[c].id = id THEN 1 ELSE 0)
  IN  MapThenSumSet(held, Contexts)

\* A span's reference count is the number of its handles and guards, on all
\* contexts, and of those being closed; so a span that anyone can name is in the
\* slab, and try_close removes it only after the last of them is gone, whatever
\* order clone_span and try_close of several contexts come in.
SpansCounted ==
  \A id \in 1 .. created :
    IF id \in DOMAIN references
    THEN /\ references[id] = Count(id)
         /\ references[id] = 0 => \E c \in Contexts : step[c] = "remove" /\ arg[c].id = id
    ELSE Count(id) = 0

\* What is written and what is queued are all the messages that got a slot, in the
\* order in which they got it: the queue, the worker and flush on several contexts
\* lose, repeat and reorder nothing.
WrittenInOrder == running => Written \o Queued = accepted

\* The host is given the messages that were written, with their fields and in
\* order, however the input is cut into reads, up to the first message that was
\* only written in part.  At the end it was given all of them, unless the read that
\* completed the marker was the last one: what that read brought is not decoded.
HostShowsWritten ==
  LET cut == SelectInSeq(Written, LAMBDA m : ~Whole(m))
      sound == IF cut = 0 THEN Written ELSE SubSeq(Written, 1, cut - 1)
      given == [i \in DOMAIN shown |-> shown[i].message]
      common == IF Len(given) < Len(sound) THEN Len(given) ELSE Len(sound)
  IN  /\ SubSeq(given, 1, common) = SubSeq(sound, 1, common)
      /\ cut = 0 => /\ Len(given) <= Len(sound) /\ phase # "error"
                    /\ phase = "end" /\ given # << >> => given = sound

\* What the bootloader printed, and nothing of the trace, is passed on, however the
\* marker is cut into reads; and the decoder gives up for want of a marker only if
\* none was written.
BootTextPassedOn ==
  LET text == SelectSeq(serial, LAMBDA w : w[1] = "text")
  IN  /\ IsPrefix(drained, text)
      /\ phase \notin {"initial", "no marker"} => drained = text
      /\ phase = "no marker" => text = serial

\* As long as no message was cut off, none that a span was entered or exited was
\* dropped, and spans were entered on one context only, the host's stack at a
\* message of that context is what it had entered then, so that the assertion of
\* receive that an exited span was current holds.  Messages of other contexts, an
\* interrupt handler for instance, do no harm.
HostFollowsKernel ==
  LET entrants == {m.by : m \in {x \in Range(Written) : x.kind = "SpanEntered"}}
      sound == /\ Range(dropped) \cap {"SpanEntered", "SpanExited"} = {}
               /\ Cardinality(entrants) <= 1
               /\ \A i \in DOMAIN Written : Whole(Written[i])
  IN  sound => /\ \A i \in DOMAIN shown :
                    shown[i].message.by \in entrants => shown[i].stack = shown[i].message.stack
               /\ phase # "panicked"
=============================================================================
