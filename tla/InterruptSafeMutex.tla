-------------------------- MODULE InterruptSafeMutex --------------------------
(***************************************************************************)
(* InterruptSafeMutex of common/src/sync.rs over the interrupt guards of   *)
(* hal/src/interrupts.rs: a spinlock whose holder has interrupts off.      *)
(*                                                                         *)
(* A context is the thread of a processor or the interrupt handler that    *)
(* preempts it.  Every access to the interrupt flag or to a lock word is a *)
(* step, and an interrupt may arrive between any two.                      *)
(***************************************************************************)
EXTENDS Naturals, SequencesExt

CONSTANTS
  Processors,
  LockCount,      \* the mutexes, numbered in the order callers nest them
  AnyDropOrder    \* callers may drop guards in any order, not only last first

VARIABLES
  enabled,    \* the interrupt flag of each processor
  base,       \* history: the flag each processor's thread started with
  running,    \* the context each processor executes
  owner,      \* the context that has each spinlock, or Nobody
  guards,     \* the guards each context holds, oldest first
  op          \* where each context is in lock, try_lock or drop

mutexVars == <<enabled, base, running, owner, guards, op>>

ASSUME MutexAssumption ==
  LockCount \in Nat \ {0} /\ AnyDropOrder \in BOOLEAN

Locks == 1 .. LockCount
Contexts == Processors \X {"thread", "handler"}
Nobody == <<"nobody", "nobody">>

Guards == [lock : Locks, enable_flag : BOOLEAN]

Idle == [pc |-> "idle", lock |-> 0, try |-> FALSE, enable_flag |-> FALSE]

Ops == [pc : {"idle", "disable", "acquire", "restore"}, lock : Locks \cup {0},
        try : BOOLEAN, enable_flag : BOOLEAN]

MutexInit ==
  /\ enabled \in [Processors -> BOOLEAN]
  /\ base = enabled
  /\ running = [p \in Processors |-> "thread"]
  /\ owner = [l \in Locks |-> Nobody]
  /\ guards = [c \in Contexts |-> << >>]
  /\ op = [c \in Contexts |-> Idle]

At(c, pc) == running[c[1]] = c[2] /\ op[c].pc = pc
-----------------------------------------------------------------------------
(* lock and try_lock                                                       *)

\* The first half of Controller::disable: read the flag.  Callers of lock nest
\* mutexes in order; try_lock never waits, so it may also find a mutex that its
\* own context holds (trace::flush in a panic).
ReadEnabled(c, l, try) ==
  /\ At(c, "idle")
  /\ try \/ \A i \in DOMAIN guards[c] : guards[c][i].lock < l
  /\ op' = [op EXCEPT ![c] = [pc |-> "disable", lock |-> l, try |-> try,
                              enable_flag |-> enabled[c[1]]]]
  /\ UNCHANGED <<enabled, base, running, owner, guards>>

\* Mutant: interrupts are not disabled.
Disabled_Never(c) == enabled

Disabled(c) == IF op[c].enable_flag THEN [enabled EXCEPT ![c[1]] = FALSE] ELSE enabled

ForceDisable(c) ==
  /\ At(c, "disable")
  /\ enabled' = Disabled(c)
  /\ op' = [op EXCEPT ![c].pc = "acquire"]
  /\ UNCHANGED <<base, running, owner, guards>>

\* Mutant: the spinlock is taken without looking whether it is.
Acquirable_Always(l) == TRUE

Acquirable(l) == owner[l] = Nobody

\* The guard records the flag that was read.
NewGuard(c) == [lock |-> op[c].lock, enable_flag |-> op[c].enable_flag]

Acquire(c) ==
  /\ At(c, "acquire")
  /\ Acquirable(op[c].lock)
  /\ owner' = [owner EXCEPT ![op[c].lock] = c]
  /\ guards' = [guards EXCEPT ![c] = Append(@, NewGuard(c))]
  /\ op' = [op EXCEPT ![c] = Idle]
  /\ UNCHANGED <<enabled, base, running>>

\* try_lock drops its interrupt guard when the spinlock is taken.
TryFails(c) ==
  /\ At(c, "acquire") /\ op[c].try
  /\ ~Acquirable(op[c].lock)
  /\ op' = [op EXCEPT ![c] = [Idle EXCEPT !.pc = "restore", !.enable_flag = op[c].enable_flag]]
  /\ UNCHANGED <<enabled, base, running, owner, guards>>
-----------------------------------------------------------------------------
(* Dropping an InterruptSafeMutexGuard: the fields in order.               *)

Droppable(c) == IF AnyDropOrder THEN DOMAIN guards[c]
                ELSE {i \in DOMAIN guards[c] : i = Len(guards[c])}

\* Mutant: the interrupt guard is the first field, so interrupts come back in a
\* step before the spinlock is released.
Unlock_InterruptsFirst(c, i) ==
  /\ At(c, "idle")
  /\ i \in Droppable(c)
  /\ \/ /\ guards[c][i].enable_flag /\ ~enabled[c[1]]
        /\ enabled' = [enabled EXCEPT ![c[1]] = TRUE]
        /\ UNCHANGED <<owner, guards>>
     \/ /\ guards[c][i].enable_flag => enabled[c[1]]
        /\ owner' = [owner EXCEPT ![guards[c][i].lock] = Nobody]
        /\ guards' = [guards EXCEPT ![c] = RemoveAt(@, i)]
        /\ UNCHANGED enabled
  /\ UNCHANGED <<base, running, op>>

Unlock(c, i) ==
  /\ At(c, "idle")
  /\ i \in Droppable(c)
  /\ owner' = [owner EXCEPT ![guards[c][i].lock] = Nobody]
  /\ guards' = [guards EXCEPT ![c] = RemoveAt(@, i)]
  /\ op' = [op EXCEPT ![c] = [Idle EXCEPT !.pc = "restore", !.enable_flag = guards[c][i].enable_flag]]
  /\ UNCHANGED <<enabled, base, running>>

\* Mutant: interrupts are enabled whatever the flag was.
Restored_Always(c) == [enabled EXCEPT ![c[1]] = TRUE]

Restored(c) == IF op[c].enable_flag THEN [enabled EXCEPT ![c[1]] = TRUE] ELSE enabled

Restore(c) ==
  /\ At(c, "restore")
  /\ enabled' = Restored(c)
  /\ op' = [op EXCEPT ![c] = Idle]
  /\ UNCHANGED <<base, running, owner, guards>>
-----------------------------------------------------------------------------
(* The processor: an interrupt gate clears the flag, iret restores it.     *)

Interrupt(p) ==
  /\ enabled[p] /\ running[p] = "thread"
  /\ running' = [running EXCEPT ![p] = "handler"]
  /\ enabled' = [enabled EXCEPT ![p] = FALSE]
  /\ UNCHANGED <<base, owner, guards, op>>

Iret(p) ==
  /\ At(<<p, "handler">>, "idle")
  /\ Len(guards[<<p, "handler">>]) = 0
  /\ running' = [running EXCEPT ![p] = "thread"]
  /\ enabled' = [enabled EXCEPT ![p] = TRUE]
  /\ UNCHANGED <<base, owner, guards, op>>
-----------------------------------------------------------------------------
Finish(c) == ForceDisable(c) \/ Acquire(c) \/ TryFails(c) \/ Restore(c)

MutexNext ==
  \/ \E c \in Contexts :
       \/ \E l \in Locks, try \in BOOLEAN : ReadEnabled(c, l, try)
       \/ Finish(c)
       \/ \E i \in DOMAIN guards[c] : Unlock(c, i)
  \/ \E p \in Processors : Interrupt(p) \/ Iret(p)

MutexSpec == MutexInit /\ [][MutexNext]_mutexVars

\* A running context goes on, and a mutex is not held for ever (whatever other
\* mutexes its holder tries meanwhile, and however often).
MutexFairSpec ==
  /\ MutexSpec
  /\ \A c \in Contexts : WF_mutexVars(Finish(c))
  /\ \A l \in Locks : SF_mutexVars(\E c \in Contexts, i \in 1 .. LockCount :
       i \in DOMAIN guards[c] /\ guards[c][i].lock = l /\ Unlock(c, i))
-----------------------------------------------------------------------------
(* Properties                                                              *)

MutexTypeOK ==
  /\ enabled \in [Processors -> BOOLEAN]
  /\ base \in [Processors -> BOOLEAN]
  /\ running \in [Processors -> {"thread", "handler"}]
  /\ owner \in [Locks -> Contexts \cup {Nobody}]
  /\ guards \in [Contexts -> Seq(Guards)]
  /\ op \in [Contexts -> Ops]

\* The interrupt flag a context starts with: a handler's is off.
StartFlag(c) == c[2] = "thread" /\ base[c[1]]

\* What the flag and a guard in the making are in the running context.
Active(c) ==
  /\ op[c].pc # "idle" => (op[c].enable_flag <=> Len(guards[c]) = 0 /\ StartFlag(c))
  /\ enabled[c[1]] <=> /\ op[c].pc \in {"idle", "disable"}
                       /\ Len(guards[c]) = 0 /\ StartFlag(c)

\* A handler that does not run, or a thread under a running handler.
Preempted(c) ==
  /\ Len(guards[c]) = 0
  /\ c[2] = "handler" => op[c].pc = "idle"
  /\ c[2] = "thread" => /\ base[c[1]]
                        /\ op[c].pc \in {"idle", "disable"}
                        /\ op[c].pc = "disable" => op[c].enable_flag

\* A guard is the spinlock: a context holds a guard of a mutex exactly if it owns
\* the mutex, and then holds one.
GuardIsLock == \A c \in Contexts :
  /\ \A l \in Locks : owner[l] = c <=> \E i \in 1 .. Len(guards[c]) : guards[c][i].lock = l
  /\ \A i, j \in 1 .. Len(guards[c]) : guards[c][i].lock = guards[c][j].lock => i = j

\* "Guard that keeps interrupts disabled while it is held": a processor with a
\* guard, of its thread or its handler, takes no interrupt.
HeldWithInterruptsOff == \A c \in Contexts :
  Len(guards[c]) > 0 => ~enabled[c[1]] /\ running[c[1]] = c[2]

\* The deadlock that the order of the guard's fields is there to prevent: an
\* interrupt handler spins on a lock of the thread it preempted.
NoHandlerDeadlock == \A p \in Processors :
  running[p] = "handler" /\ op[<<p, "handler">>].pc = "acquire"
    => owner[op[<<p, "handler">>].lock] # <<p, "thread">>

\* "When the guard is dropped, the previous interrupt state is restored": a
\* context without guards has the flag it started with, off for a handler.
FlagRestored == \A c \in Contexts :
  At(c, "idle") /\ Len(guards[c]) = 0 => (enabled[c[1]] <=> StartFlag(c))

ContextInv(c) ==
  /\ op[c].pc \in {"disable", "acquire"} => op[c].lock \in Locks
  /\ \A i \in 1 .. Len(guards[c]) : guards[c][i].enable_flag <=> i = 1 /\ StartFlag(c)
  /\ running[c[1]] = c[2] => Active(c)
  /\ running[c[1]] # c[2] => Preempted(c)

\* Why, if guards are dropped last first: only the oldest guard of a context has
\* something to restore, and a thread is preempted only while it has no guard and
\* has not yet disabled interrupts for one.
MutexInv == GuardIsLock /\ \A c \in Contexts : ContextInv(c)

\* A mutex that is held is released: its holder is never stuck behind an
\* interrupt handler of its own processor.  (The mutex that nests innermost: the
\* holder of another one may starve waiting for it, as the spinlock is not fair.)
LockReleased == owner[LockCount] # Nobody ~> owner[LockCount] = Nobody
=============================================================================
