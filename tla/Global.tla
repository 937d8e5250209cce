-------------------------------- MODULE Global --------------------------------
(***************************************************************************)
(* Global of common/src/sync.rs: a value that is set once, during boot.    *)
(* The flag `initialized` and the value are two memory locations, each     *)
(* accessed in a step of its own.  Thread t initializes with the value t.  *)
(***************************************************************************)
EXTENDS FiniteSets

CONSTANTS
  Threads,
  Boot,         \* the thread that boots the kernel
  BootOrders,   \* the values of boot_order to consider: a subset of BOOLEAN
  Uninit,       \* what a read of the value gives before it is written
  None          \* nothing was read

VARIABLES
  boot_order,   \* no other thread uses the Global before init has returned
  initialized,
  value,
  pc,       \* where each thread is
  seen,     \* history: the last value each thread read
  winners   \* history: the threads to which init or try_init returned the value

globalVars == <<boot_order, initialized, value, pc, seen, winners>>

ASSUME GlobalAssumption ==
  /\ Boot \in Threads /\ BootOrders \subseteq BOOLEAN
  /\ Uninit \notin Threads /\ None \notin Threads /\ Uninit # None

GlobalInit ==
  /\ boot_order \in BootOrders
  /\ initialized = FALSE
  /\ value = Uninit
  /\ pc = [t \in Threads |-> "idle"]
  /\ seen = [t \in Threads |-> None]
  /\ winners = {}

\* A thread between two calls.
Ready(t) == pc[t] = "idle" /\ (boot_order => t = Boot \/ winners # {})

\* Mutant: the flag is read but not exchanged with the check.
InitCas_NotSet(t) ==
  /\ Ready(t)
  /\ ~initialized
  /\ pc' = [pc EXCEPT ![t] = "write"]
  /\ UNCHANGED <<boot_order, initialized, value, seen, winners>>

InitCas(t) ==
  /\ Ready(t)
  /\ ~initialized
  /\ initialized' = TRUE
  /\ pc' = [pc EXCEPT ![t] = "write"]
  /\ UNCHANGED <<boot_order, value, seen, winners>>

\* try_init returns Err, init panics.
InitFails(t) ==
  /\ Ready(t)
  /\ initialized
  /\ \E next \in {"idle", "panicked"} : pc' = [pc EXCEPT ![t] = next]
  /\ UNCHANGED <<boot_order, initialized, value, seen, winners>>

Written(t) == t

InitWrite(t) ==
  /\ pc[t] = "write"
  /\ value' = Written(t)
  /\ winners' = winners \cup {t}
  /\ pc' = [pc EXCEPT ![t] = "idle"]
  /\ UNCHANGED <<boot_order, initialized, seen>>

\* Mutant: the flag is not checked.
GetChecks_Always == TRUE

GetChecks == initialized

GetLoad(t) ==
  /\ Ready(t)
  /\ GetChecks
  /\ pc' = [pc EXCEPT ![t] = "read"]
  /\ UNCHANGED <<boot_order, initialized, value, seen, winners>>

\* try_get returns None, get panics.
GetFails(t) ==
  /\ Ready(t)
  /\ ~GetChecks
  /\ \E next \in {"idle", "panicked"} : pc' = [pc EXCEPT ![t] = next]
  /\ UNCHANGED <<boot_order, initialized, value, seen, winners>>

GetRead(t) ==
  /\ pc[t] = "read"
  /\ seen' = [seen EXCEPT ![t] = value]
  /\ pc' = [pc EXCEPT ![t] = "idle"]
  /\ UNCHANGED <<boot_order, initialized, value, winners>>

GlobalNext == \E t \in Threads :
  \/ InitCas(t) \/ InitFails(t) \/ InitWrite(t)
  \/ GetLoad(t) \/ GetFails(t) \/ GetRead(t)

GlobalSpec == GlobalInit /\ [][GlobalNext]_globalVars
-----------------------------------------------------------------------------
(* Properties                                                              *)

GlobalTypeOK ==
  /\ boot_order \in BOOLEAN /\ initialized \in BOOLEAN
  /\ value \in Threads \cup {Uninit}
  /\ pc \in [Threads -> {"idle", "write", "read", "panicked"}]
  /\ seen \in [Threads -> Threads \cup {Uninit, None}]
  /\ winners \subseteq Threads

\* "Any other thread attempting initialization will fail": of all the threads
\* that are writing the value or have written it there is one.
OneInitializer == \A t, u \in Threads :
  /\ t \in winners \/ pc[t] = "write"
  /\ u \in winners \/ pc[u] = "write"
  => t = u

\* References to the value stay good: it is written once and never again.
WrittenOnce == [][value' # value => value = Uninit]_value

\* "We know that this value has been initialized from checking initialized": a
\* reference that try_get returns is to a value that was written.
NoUninitRead == \A t \in Threads : seen[t] # Uninit

\* The claim of NoUninitRead for values "known to be initialized in a specific
\* order": it holds if nobody else uses the Global before init has returned.
NoUninitReadInOrder == boot_order => NoUninitRead

\* Why: between the exchange of the flag and the write, exactly one thread is
\* writing; before the exchange nobody writes or reads; and in boot order that
\* thread is Boot, which does not read meanwhile.
GlobalInv ==
  /\ OneInitializer
  /\ value = Uninit <=> winners = {}
  /\ initialized /\ winners = {} => \E t \in Threads : pc[t] = "write"
  /\ ~initialized => winners = {} /\ \A t \in Threads : pc[t] \notin {"write", "read"}
  /\ \A t \in Threads : pc[t] = "write" => winners = {}
  /\ boot_order => /\ \A t \in Threads : pc[t] = "write" => t = Boot
                   /\ \A t \in Threads : pc[t] = "read" => winners # {}
                   /\ NoUninitRead
=============================================================================
