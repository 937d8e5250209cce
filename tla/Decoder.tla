-------------------------------- MODULE Decoder --------------------------------
(***************************************************************************)
(* The host's side: ktrace/decoder/src/lib.rs finds the start of the trace *)
(* in what comes from the serial port and reads messages from it, and      *)
(* fmt.rs keeps the spans and the stack of entered spans that the messages *)
(* tell of, for the indentation of what it prints.                         *)
(***************************************************************************)
EXTENDS Wire, Functions

CONSTANTS
  READ_SIZE     \* the words that one read may return (64 bytes)

VARIABLES
  received,     \* the number of words of `serial` that were read
  buf,          \* Decoder.buf
  phase,        \* "initial", "read", "decode", or how decode ended
  drained,      \* what was passed on as not being trace output
  spans,        \* Formatter.spans: span id -> depth
  span_stack,   \* Formatter.span_stacks of processor 0, the only one
  shown         \* history: the messages given to receive, with span_stack then

decoderVars == <<received, buf, phase, drained>>
formatterVars == <<spans, span_stack, shown>>

DecoderInit ==
  /\ received = 0
  /\ buf = << >>
  /\ phase = "initial"
  /\ drained = << >>
  /\ spans = << >>
  /\ span_stack = << >>
  /\ shown = << >>

\* input.read: some of what has arrived.
Chunks == {SubSeq(serial, received + 1, received + n) :
             n \in {k \in 1 .. READ_SIZE : received + k <= Len(serial)}}

\* Finder::find: the first place of the marker, or 0.
find(words) ==
  SelectInSeq([i \in 1 .. Len(words) - Len(START_OF_OUTPUT) + 1 |->
                 SubSeq(words, i, i + Len(START_OF_OUTPUT) - 1)],
              LAMBDA w : w = START_OF_OUTPUT)

\* Mutant: all is passed on when the marker is not found.
read_initial_KeepsNothing ==
  /\ phase = "initial"
  /\ \E chunk \in Chunks :
       LET slice == buf \o chunk
           pos == find(slice)
       IN  /\ received' = received + Len(chunk)
           /\ IF pos # 0
              THEN /\ drained' = drained \o SubSeq(slice, 1, pos - 1)
                   /\ buf' = SubSeq(slice, pos + Len(START_OF_OUTPUT), Len(slice))
                   /\ phase' = "read"
              ELSE /\ drained' = drained \o slice
                   /\ buf' = << >>
                   /\ UNCHANGED phase
  /\ UNCHANGED <<serial, formatterVars>>

\* One turn of the loop of read_initial.
read_initial ==
  /\ phase = "initial"
  /\ \E chunk \in Chunks :
       LET slice == buf \o chunk
           pos == find(slice)
           to_write == IF pos # 0 THEN pos - 1
                       ELSE IF Len(slice) > Len(START_OF_OUTPUT)
                       THEN Len(slice) - Len(START_OF_OUTPUT) ELSE 0
       IN  /\ received' = received + Len(chunk)
           /\ drained' = drained \o SubSeq(slice, 1, to_write)
           /\ buf' = SubSeq(slice, to_write + 1 + (IF pos # 0 THEN Len(START_OF_OUTPUT) ELSE 0),
                            Len(slice))
           /\ phase' = IF pos # 0 THEN "read" ELSE "initial"
  /\ UNCHANGED <<serial, formatterVars>>

\* The end of the input: read returns 0.  It is an error before the marker, and
\* what the buffer holds after it is not looked at.
end_of_input ==
  /\ phase \in {"initial", "read"}
  /\ received = Len(serial)
  /\ phase' = IF phase = "initial" THEN "no marker" ELSE "end"
  /\ UNCHANGED <<serial, received, buf, drained, formatterVars>>

\* decode: a read of more input, after which the buffer is decoded.
read ==
  /\ phase = "read"
  /\ \E chunk \in Chunks :
       /\ received' = received + Len(chunk)
       /\ buf' = buf \o chunk
  /\ phase' = "decode"
  /\ UNCHANGED <<serial, drained, formatterVars>>

-----------------------------------------------------------------------------
(* Formatter::receive.                                                      *)

\* resolve_parent, as the set of the one parent or none.
resolve_parent(parent) ==
  CASE parent[1] = "Root" -> {}
    [] parent[1] = "Current" -> IF span_stack = << >> THEN {} ELSE {Last(span_stack)}
    [] parent[1] = "Explicit" -> {parent[2]}

\* The depth a message is shown at: a span below its parent, an event one deeper
\* than the span it belongs to.
depth(m) ==
  LET known == resolve_parent(m.parent) \cap DOMAIN spans
  IN  IF known # {} THEN spans[CHOOSE id \in known : TRUE] + 1
      ELSE IF m.kind = "Event" THEN 1 ELSE 0

\* The assertion that an exited span was the current one.
WasCurrent(m) == span_stack # << >> /\ Last(span_stack) = m.id

\* Mutant: an exited span stays on the stack.
receive_KeepsExited(m) ==
  /\ shown' = Append(shown, [message |-> m, stack |-> span_stack, depth |-> depth(m)])
  /\ spans' = IF m.kind # "SpanCreated" THEN spans
              ELSE [id \in DOMAIN spans \cup {m.id} |-> IF id = m.id THEN depth(m) ELSE spans[id]]
  /\ span_stack' = IF m.kind = "SpanEntered" THEN Append(span_stack, m.id) ELSE span_stack

receive(m) ==
  /\ shown' = Append(shown, [message |-> m, stack |-> span_stack, depth |-> depth(m)])
  /\ spans' = CASE m.kind = "SpanCreated" ->
                     [id \in DOMAIN spans \cup {m.id} |-> IF id = m.id THEN depth(m) ELSE spans[id]]
                [] m.kind = "SpanClosed" -> Restrict(spans, DOMAIN spans \ {m.id})
                [] OTHER -> spans
  /\ span_stack' = CASE m.kind = "SpanEntered" -> Append(span_stack, m.id)
                     [] m.kind = "SpanExited" /\ span_stack # << >> -> Front(span_stack)
                     [] OTHER -> span_stack

\* Mutant: what follows a message in the buffer is drained off with it.
consumed_All(outcome) == Len(buf)

consumed(outcome) == outcome.used

\* One turn of the loop that decodes the buffer.
decode ==
  /\ phase = "decode"
  /\ \E outcome \in Decodings(buf) :
       CASE outcome.kind = "end" -> phase' = "read" /\ UNCHANGED <<buf, formatterVars>>
         [] outcome.kind = "err" -> phase' = "error" /\ UNCHANGED <<buf, formatterVars>>
         [] outcome.kind = "ok" ->
              /\ receive(outcome.message)
              /\ IF outcome.message.kind = "SpanExited" /\ ~WasCurrent(outcome.message)
                 THEN phase' = "panicked" /\ UNCHANGED buf
                 ELSE /\ buf' = SubSeq(buf, consumed(outcome) + 1, Len(buf))
                      /\ UNCHANGED phase
  /\ UNCHANGED <<serial, received, drained>>
=============================================================================
