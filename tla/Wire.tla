--------------------------------- MODULE Wire ---------------------------------
(***************************************************************************)
(* The messages of ktrace/proto and their serialized form.  What the       *)
(* kernel writes to the serial port is a sequence of words: one for the    *)
(* variant of a message with its id, parent, metadata and number of        *)
(* fields, and one per field.  A word stands for the bytes postcard        *)
(* writes for it; CAPACITY words fit in the 1024 bytes of a queue slot.    *)
(***************************************************************************)
EXTENDS Integers, FiniteSets, SequencesExt

CONSTANTS
  CAPACITY,     \* the words that fit in heapless::Vec<u8, 1024>
  GarbledKinds, \* bound: the kinds of messages that garbled words are read as
  NoContext     \* no context: nobody recorded this, nobody holds the worker

VARIABLES
  serial        \* all that was written to the serial port so far

ASSUME CapacityAssumption == CAPACITY \in Nat \ {0}

START_OF_OUTPUT == << <<"byte", 255>>, <<"byte", 0>>, <<"byte", 255>>, <<"byte", 0>> >>

\* What a bootloader prints: text, which has neither of the marker's bytes.
Text(n) == [i \in 1 .. n |-> <<"text", 0>>]

\* SerialPort::write_all: every byte as it is, with send_raw.
send_raw(words) == serial' = serial \o words

Root == <<"Root", 0>>
Current == <<"Current", 0>>         \* on processor 0: processor_id() is constant
Explicit(id) == <<"Explicit", id>>

\* `by` and `stack` are history and are not sent: the context that recorded the
\* message, and the spans that it had entered.
Message(kind, id, parent, fields, by, stack) ==
  [kind |-> kind, id |-> id, parent |-> parent, fields |-> fields, by |-> by, stack |-> stack]
-----------------------------------------------------------------------------
(* fields.rs.  A field is a name and the kind of value that tracing         *)
(* records for it.                                                          *)

TYPES ==
  [at |-> "KernelAddress", message |-> "String", count |-> "U64", size |-> "U64",
   vaddr |-> "VirtualAddress", paddr |-> "PhysicalAddress", range |-> "String"]

\* write_u64, write_str and write_debug refuse a value of the wrong type.
Accepts(type, kind) ==
  \/ type = "String" /\ kind \in {"str", "debug"}
  \/ type # "String" /\ kind = "u64"

\* A FieldVisitor: what is written so far, and whether an error or a panic ended
\* the writing.
Visited(words, state) == [words |-> words, state |-> state]

\* One call of Visit.  No field has a type for kinds other than these three.
Record(visitor, field) ==
  IF visitor.state = "panic" THEN visitor
  ELSE IF field.kind \notin {"u64", "str", "debug"} THEN [visitor EXCEPT !.state = "panic"]
  ELSE IF visitor.state = "error" THEN visitor
  ELSE IF field.name \notin DOMAIN TYPES THEN [visitor EXCEPT !.state = "panic"]
  ELSE IF \/ ~Accepts(TYPES[field.name], field.kind)
          \/ Len(visitor.words) = CAPACITY
       THEN [visitor EXCEPT !.state = "error"]
  ELSE Visited(Append(visitor.words, <<"field", field.name, field.kind>>), "ok")

\* Message::write_message: the number of fields is written before they are, and
\* what was written before an error stays.
serialize(m) ==
  FoldLeft(Record, Visited(<< <<"header", m, Len(m.fields)>> >>, "ok"), m.fields)

-----------------------------------------------------------------------------
(* postcard::take_from_bytes.                                               *)

\* The field that a word is read as.  Its type comes from its name: a number is
\* read back as a number, text as text.
ReadsBack(word) ==
  word[1] = "field" /\ (TYPES[word[2]] = "String" <=> word[3] \in {"str", "debug"})

\* What reading may give: "end", more bytes are needed; "err", no message can be
\* read; "ok", a message and the number of words it used.
Outcome(kind, message, used) == [kind |-> kind, message |-> message, used |-> used]

Unreadable == Message("none", 0, Root, << >>, NoContext, << >>)

\* Words that are not those of one whole message may be read as anything: text
\* whose length was sent takes in one word that follows it, or all of them.
Garbled(buf) ==
  {Outcome("end", Unreadable, 0), Outcome("err", Unreadable, 0)}
    \cup {Outcome("ok", Message(kind, 1, Current, << >>, NoContext, << >>), k) :
            kind \in GarbledKinds, k \in {1, Len(buf)}}

Decodings(buf) ==
  IF buf = << >> THEN {Outcome("end", Unreadable, 0)}
  ELSE LET word == buf[1]
           n == IF word[1] = "header" THEN word[3] ELSE 0
       IN  IF word[1] # "header" \/ \E i \in 2 .. n + 1 : i <= Len(buf) /\ ~ReadsBack(buf[i])
           THEN Garbled(buf)
           ELSE IF Len(buf) > n THEN {Outcome("ok", word[2], n + 1)}
           ELSE {Outcome("end", Unreadable, 0)}
=============================================================================
