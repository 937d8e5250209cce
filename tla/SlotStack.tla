------------------------------ MODULE SlotStack ------------------------------
(***************************************************************************)
(* What the global free list promises: push and pop take effect at one     *)
(* moment, and pop hands out the slot that was pushed last.                *)
(***************************************************************************)
EXTENDS Sequences

VARIABLES
  stack,   \* the free slots, most recently pushed first
  held     \* the slots that callers hold

Push == \E i \in held :
  /\ stack' = <<i>> \o stack
  /\ held' = held \ {i}

Pop ==
  /\ stack # << >>
  /\ Head(stack) \notin held
  /\ stack' = Tail(stack)
  /\ held' = held \cup {Head(stack)}

StackNext == Push \/ Pop

StackSpec == stack = << >> /\ [][StackNext]_<<stack, held>>
=============================================================================
