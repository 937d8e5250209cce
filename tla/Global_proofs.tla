----------------------------- MODULE Global_proofs -----------------------------
(* Proofs about Global, for every set of threads. *)
EXTENDS Global, TLAPS

\* GlobalTypeOK and GlobalInv are inductive: try_init's exchange of the flag picks
\* the one thread that writes.
THEOREM GlobalInvariant == GlobalSpec => [](GlobalTypeOK /\ GlobalInv)
<1>1. GlobalInit => GlobalTypeOK /\ GlobalInv
  BY GlobalAssumption
  DEF GlobalInit, GlobalTypeOK, GlobalInv, OneInitializer, NoUninitRead
<1>2. GlobalTypeOK /\ GlobalInv /\ [GlobalNext]_globalVars => (GlobalTypeOK /\ GlobalInv)'
  <2> SUFFICES ASSUME GlobalTypeOK, GlobalInv, [GlobalNext]_globalVars
               PROVE  GlobalTypeOK' /\ GlobalInv'
    OBVIOUS
  <2> USE GlobalAssumption DEF GlobalTypeOK, GlobalInv, OneInitializer, NoUninitRead
  <2>1. ASSUME NEW t \in Threads, InitCas(t) PROVE GlobalTypeOK' /\ GlobalInv'
    BY <2>1 DEF InitCas, Ready
  <2>2. ASSUME NEW t \in Threads, InitFails(t) PROVE GlobalTypeOK' /\ GlobalInv'
    BY <2>2 DEF InitFails, Ready
  <2>3. ASSUME NEW t \in Threads, InitWrite(t) PROVE GlobalTypeOK' /\ GlobalInv'
    BY <2>3 DEF InitWrite, Written
  <2>4. ASSUME NEW t \in Threads, GetLoad(t) PROVE GlobalTypeOK' /\ GlobalInv'
    BY <2>4 DEF GetLoad, GetChecks, Ready
  <2>5. ASSUME NEW t \in Threads, GetFails(t) PROVE GlobalTypeOK' /\ GlobalInv'
    BY <2>5 DEF GetFails, GetChecks, Ready
  <2>6. ASSUME NEW t \in Threads, GetRead(t) PROVE GlobalTypeOK' /\ GlobalInv'
    BY <2>6 DEF GetRead
  <2>7. CASE UNCHANGED globalVars
    BY <2>7 DEF globalVars
  <2> QED BY <2>1, <2>2, <2>3, <2>4, <2>5, <2>6, <2>7 DEF GlobalNext
<1> QED BY <1>1, <1>2, PTL DEF GlobalSpec

\* Every value in a state has its type.
THEOREM GlobalTypeCorrect == GlobalSpec => []GlobalTypeOK
BY GlobalInvariant, PTL

\* At most one thread initializes a Global.
THEOREM InitializedOnce == GlobalSpec => []OneInitializer
<1>1. GlobalInv => OneInitializer
  BY DEF GlobalInv
<1> QED BY <1>1, GlobalInvariant, PTL

\* The value that init and try_get hand out references to is never overwritten.
THEOREM ValueStable == GlobalSpec => WrittenOnce
<1>1. GlobalTypeOK /\ GlobalInv /\ [GlobalNext]_globalVars
        => [value' # value => value = Uninit]_value
  BY DEF GlobalTypeOK, GlobalInv, GlobalNext, globalVars, InitCas, InitFails,
         InitWrite, GetLoad, GetFails, GetRead
<1> QED BY <1>1, GlobalInvariant, PTL DEF GlobalSpec, WrittenOnce

\* If the other threads start after init has returned, as the kernel's boot
\* arranges, get never returns memory that was not written.
THEOREM BootReadsWritten == GlobalSpec => []NoUninitReadInOrder
<1>1. GlobalInv => NoUninitReadInOrder
  BY DEF GlobalInv, NoUninitReadInOrder
<1> QED BY <1>1, GlobalInvariant, PTL
=============================================================================
