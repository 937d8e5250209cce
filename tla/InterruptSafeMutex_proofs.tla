---------------------- MODULE InterruptSafeMutex_proofs ----------------------
(* Proofs about InterruptSafeMutex, for every number of processors and locks. *)
EXTENDS InterruptSafeMutex, SequenceTheorems, TLAPS


\* A context is determined by its processor and its kind, and Nobody is none.
LEMMA ContextPairs ==
  /\ \A c \in Contexts : c[1] \in Processors /\ c[2] \in {"thread", "handler"}
  /\ \A c, d \in Contexts : c[1] = d[1] /\ c[2] = d[2] => c = d
  /\ \A p \in Processors, k \in {"thread", "handler"} :
       <<p, k>> \in Contexts /\ <<p, k>>[1] = p /\ <<p, k>>[2] = k
  /\ Nobody \notin Contexts
BY DEF Contexts, Nobody

\* A prefix of a sequence.
LEMMA Prefix ==
  ASSUME NEW S, NEW s \in Seq(S), NEW m \in Nat, m < Len(s)
  PROVE  /\ SubSeq(s, 1, m) \in Seq(S)
         /\ Len(SubSeq(s, 1, m)) = m
         /\ \A i \in 1 .. m : SubSeq(s, 1, m)[i] = s[i]
<1>1. SubSeq(s, 1, m) \in Seq(S)
  OBVIOUS
<1>2. Len(SubSeq(s, 1, m)) = m
  OBVIOUS
<1>3. \A i \in 1 .. m : SubSeq(s, 1, m)[i] = s[i]
  OBVIOUS
<1> QED BY <1>1, <1>2, <1>3

\* Dropping the newest guard leaves the older ones as they are.
LEMMA RemoveNewest ==
  ASSUME NEW S, NEW s \in Seq(S), Len(s) > 0
  PROVE  /\ RemoveAt(s, Len(s)) \in Seq(S)
         /\ Len(RemoveAt(s, Len(s))) = Len(s) - 1
         /\ \A i \in 1 .. Len(s) - 1 : RemoveAt(s, Len(s))[i] = s[i]
<1>1. Len(s) \in Nat
  OBVIOUS
<1>2. SubSeq(s, Len(s) + 1, Len(s)) = << >>
  BY <1>1, SubSeqEmpty
<1>3. /\ SubSeq(s, 1, Len(s) - 1) \in Seq(S)
      /\ Len(SubSeq(s, 1, Len(s) - 1)) = Len(s) - 1
      /\ \A i \in 1 .. Len(s) - 1 : SubSeq(s, 1, Len(s) - 1)[i] = s[i]
  <2>1. Len(s) - 1 \in Nat /\ Len(s) - 1 < Len(s)
    BY <1>1
  <2> QED BY <2>1, Prefix, Zenon
<1>4. RemoveAt(s, Len(s)) = SubSeq(s, 1, Len(s) - 1)
  BY <1>2, <1>3, ConcatEmptySeq DEF RemoveAt
<1> QED BY <1>3, <1>4

\* Changing where a context is keeps the record's type.
LEMMA OpsAt ==
  ASSUME NEW o \in Ops
  PROVE  [o EXCEPT !.pc = "acquire"] \in Ops
BY DEF Ops

\* A step keeps the invariant of a context that it does not touch.
LEMMA OtherContext ==
  ASSUME NEW d \in Contexts, ContextInv(d), base' = base,
         guards'[d] = guards[d], op'[d] = op[d], running'[d[1]] = running[d[1]],
         running[d[1]] = d[2] => enabled'[d[1]] = enabled[d[1]]
  PROVE  ContextInv(d)'
BY DEF ContextInv, Active, Preempted, StartFlag

\* With the guards and the locks unchanged, guards are still locks.
LEMMA SameGuards ==
  ASSUME GuardIsLock, guards' = guards, owner' = owner
  PROVE  GuardIsLock'
BY DEF GuardIsLock

\* One step keeps the type and the invariant.
LEMMA MutexStep ==
  ASSUME AnyDropOrder = FALSE, MutexTypeOK, MutexInv, [MutexNext]_mutexVars
  PROVE  MutexTypeOK' /\ MutexInv'
<1> USE ContextPairs DEF MutexTypeOK, MutexInv
<1>0. \A c \in Contexts : Len(guards[c]) \in Nat
  OBVIOUS
<1>1. ASSUME NEW c \in Contexts, NEW l \in Locks, NEW try \in BOOLEAN, ReadEnabled(c, l, try)
      PROVE  MutexTypeOK' /\ MutexInv'
  <2>1. MutexTypeOK'
    BY <1>1 DEF ReadEnabled, Ops
  <2>2. ContextInv(c)'
    BY <1>1 DEF ReadEnabled, At, ContextInv, Active, StartFlag
  <2>3. ASSUME NEW d \in Contexts, d # c PROVE ContextInv(d)'
    BY <1>1, <2>3, OtherContext DEF ReadEnabled
  <2> QED BY <1>1, <2>1, <2>2, <2>3, SameGuards DEF ReadEnabled
<1>2. ASSUME NEW c \in Contexts, ForceDisable(c)
      PROVE  MutexTypeOK' /\ MutexInv'
  <2>1. MutexTypeOK'
    <3>1. [op[c] EXCEPT !.pc = "acquire"] \in Ops
      <4>1. op[c] \in Ops
        OBVIOUS
      <4> QED BY <4>1, OpsAt
    <3>2. enabled' \in [Processors -> BOOLEAN]
      BY <1>2 DEF ForceDisable, Disabled
    <3> QED BY <1>2, <3>1, <3>2 DEF ForceDisable
  <2>2. ContextInv(c)'
    BY <1>2 DEF ForceDisable, Disabled, At, ContextInv, Active, StartFlag, Ops
  <2>3. ASSUME NEW d \in Contexts, d # c PROVE ContextInv(d)'
    <3>1. running[d[1]] = d[2] => d[1] # c[1]
      BY <1>2, <2>3 DEF ForceDisable, At
    <3>2. d[1] # c[1] => enabled'[d[1]] = enabled[d[1]]
      BY <1>2 DEF ForceDisable, Disabled
    <3> QED BY <1>2, <2>3, <3>1, <3>2, OtherContext DEF ForceDisable
  <2> QED BY <1>2, <2>1, <2>2, <2>3, SameGuards DEF ForceDisable
<1>3. ASSUME NEW c \in Contexts, Acquire(c)
      PROVE  MutexTypeOK' /\ MutexInv'
  <2> DEFINE g == NewGuard(c)
  <2>1. op[c].lock \in Locks /\ owner[op[c].lock] = Nobody /\ running[c[1]] = c[2]
    BY <1>3 DEF Acquire, Acquirable, At, ContextInv
  <2>2. g \in Guards /\ g.lock = op[c].lock /\ g.enable_flag = op[c].enable_flag
    BY <2>1 DEF NewGuard, Guards, Ops
  <2> HIDE DEF g
  <2>3. /\ Append(guards[c], g) \in Seq(Guards)
        /\ Len(Append(guards[c], g)) = Len(guards[c]) + 1
        /\ \A i \in 1 .. Len(guards[c]) : Append(guards[c], g)[i] = guards[c][i]
        /\ Append(guards[c], g)[Len(guards[c]) + 1] = g
    BY <2>2, AppendProperties
  <2>4. guards' = [guards EXCEPT ![c] = Append(guards[c], g)]
    BY <1>3 DEF Acquire, g
  <2>a. /\ guards'[c] = Append(guards[c], g)
        /\ \A d \in Contexts : d # c => guards'[d] = guards[d]
    BY <2>4
  <2>5. MutexTypeOK'
    BY <1>3, <2>1, <2>3, <2>4 DEF Acquire, Ops, Idle
  <2>6. op'[c].pc = "idle"
    BY <1>3 DEF Acquire, Idle
  <2>7. \A i \in 1 .. Len(guards'[c]) : guards'[c][i].enable_flag <=> i = 1 /\ StartFlag(c)'
    <3> SUFFICES ASSUME NEW i \in 1 .. Len(guards[c]) + 1
                 PROVE  Append(guards[c], g)[i].enable_flag <=> i = 1 /\ StartFlag(c)
      <4>1. StartFlag(c)' <=> StartFlag(c)
        BY <1>3 DEF Acquire, StartFlag
      <4>2. Len(guards'[c]) = Len(guards[c]) + 1
        BY <2>3, <2>a
      <4> QED BY <2>a, <4>1, <4>2
    <3>1. CASE i <= Len(guards[c])
      BY <1>0, <2>3, <3>1 DEF ContextInv
    <3>2. CASE i = Len(guards[c]) + 1
      <4>1. op[c].enable_flag <=> Len(guards[c]) = 0 /\ StartFlag(c)
        BY <1>3 DEF Acquire, At, ContextInv, Active
      <4> QED BY <1>0, <2>2, <2>3, <3>2, <4>1
    <3> QED BY <1>0, <3>1, <3>2
  <2>8. ~enabled[c[1]]
    BY <1>3, Zenon DEF Acquire, At, ContextInv, Active
  <2>9. ContextInv(c)'
    BY <1>0, <1>3, <2>1, <2>3, <2>4, <2>6, <2>7, <2>8
    DEF Acquire, ContextInv, Active
  <2>10. ASSUME NEW d \in Contexts, d # c PROVE ContextInv(d)'
    BY <1>3, <2>10, OtherContext DEF Acquire
  <2>11. GuardIsLock'
    <3> SUFFICES ASSUME NEW d \in Contexts
                 PROVE  /\ \A l \in Locks : owner'[l] = d <=>
                             \E i \in 1 .. Len(guards'[d]) : guards'[d][i].lock = l
                        /\ \A i, j \in 1 .. Len(guards'[d]) :
                             guards'[d][i].lock = guards'[d][j].lock => i = j
      BY DEF GuardIsLock
    <3>1. \A l \in Locks : owner'[l] = IF l = op[c].lock THEN c ELSE owner[l]
      BY <1>3, <2>1 DEF Acquire
    <3>2. \A e \in Contexts : \A i \in 1 .. Len(guards[e]) : guards[e][i].lock # op[c].lock
      <4> SUFFICES ASSUME NEW e \in Contexts, NEW i \in 1 .. Len(guards[e]),
                          guards[e][i].lock = op[c].lock
                   PROVE  FALSE
        OBVIOUS
      <4>1. owner[op[c].lock] = e
        BY <2>1 DEF GuardIsLock
      <4> QED BY <2>1, <4>1
    <3>3. CASE d # c
      <4>1. guards'[d] = guards[d]
        BY <2>a, <3>3
      <4>2. \A i, j \in 1 .. Len(guards[d]) : guards[d][i].lock = guards[d][j].lock => i = j
        BY DEF GuardIsLock
      <4>3. ASSUME NEW l \in Locks
            PROVE  owner'[l] = d <=> \E i \in 1 .. Len(guards[d]) : guards[d][i].lock = l
        <5>1. owner[l] = d <=> \E i \in 1 .. Len(guards[d]) : guards[d][i].lock = l
          BY DEF GuardIsLock
        <5> QED BY <3>1, <3>2, <3>3, <5>1, SMTT(30)
      <4> QED BY <4>1, <4>2, <4>3
    <3>4. CASE d = c
      <4> DEFINE n == Len(guards[c])
                 gs == guards'[c]
      <4>1. /\ Len(gs) = n + 1 /\ n \in Nat
            /\ \A i \in 1 .. n : gs[i] = guards[c][i]
            /\ gs[n + 1].lock = op[c].lock
        BY <1>0, <2>2, <2>3, <2>a
      <4>2. /\ \A i, j \in 1 .. n : guards[c][i].lock = guards[c][j].lock => i = j
            /\ \A l \in Locks : owner[l] = c <=> \E i \in 1 .. n : guards[c][i].lock = l
        BY Zenon DEF GuardIsLock
      <4>3. \A i \in 1 .. n : guards[c][i].lock # op[c].lock
        BY <3>2
      <4>a. \A i : i \in 1 .. n + 1 <=> i \in 1 .. n \/ i = n + 1
        BY <4>1
      <4> HIDE DEF n, gs
      <4>4. ASSUME NEW i \in 1 .. n + 1, NEW j \in 1 .. n + 1, gs[i].lock = gs[j].lock
            PROVE  i = j
        <5>1. CASE i \in 1 .. n /\ j \in 1 .. n
          <6>1. gs[i] = guards[c][i] /\ gs[j] = guards[c][j]
            BY <4>1, <5>1
          <6> QED BY <4>2, <4>4, <5>1, <6>1
        <5>2. CASE i \in 1 .. n /\ j = n + 1
          <6>1. gs[i] = guards[c][i] /\ gs[i].lock = op[c].lock
            BY <4>1, <4>4, <5>2
          <6> QED BY <4>3, <5>2, <6>1
        <5>3. CASE i = n + 1 /\ j \in 1 .. n
          <6>1. gs[j] = guards[c][j] /\ gs[j].lock = op[c].lock
            BY <4>1, <4>4, <5>3
          <6> QED BY <4>3, <5>3, <6>1
        <5> QED BY <4>a, <5>1, <5>2, <5>3
      <4>5. ASSUME NEW l \in Locks
            PROVE  owner'[l] = c <=> \E i \in 1 .. n + 1 : gs[i].lock = l
        <5>1. owner'[l] = c <=> l = op[c].lock \/ owner[l] = c
          BY <3>1
        <5>2. ASSUME NEW i \in 1 .. n + 1, gs[i].lock = l PROVE owner'[l] = c
          BY <4>1, <4>2, <4>a, <5>1, <5>2, ZenonT(30)
        <5>3. CASE l = op[c].lock
          <6>1. n + 1 \in 1 .. n + 1 /\ gs[n + 1].lock = l
            BY <4>1, <4>a, <5>3
          <6> QED BY <5>1, <5>3, <6>1
        <5>4. CASE owner[l] = c
          <6>1. PICK i \in 1 .. n : guards[c][i].lock = l
            BY <4>2, <5>4
          <6>2. i \in 1 .. n + 1 /\ gs[i].lock = l
            BY <4>1, <4>a, <6>1
          <6> QED BY <5>1, <5>4, <6>2
        <5> QED BY <5>1, <5>2, <5>3, <5>4, Zenon
      <4> QED BY <3>4, <4>1, <4>4, <4>5, ZenonT(30) DEF gs
    <3> QED BY <3>3, <3>4
  <2> QED BY <2>5, <2>9, <2>10, <2>11
<1>4. ASSUME NEW c \in Contexts, TryFails(c)
      PROVE  MutexTypeOK' /\ MutexInv'
  <2>1. MutexTypeOK'
    BY <1>4, Zenon DEF TryFails, Ops, Idle
  <2>2. ContextInv(c)'
    <3>1. op'[c].pc = "restore" /\ op'[c].enable_flag = op[c].enable_flag
      BY <1>4 DEF TryFails, Idle
    <3> QED BY <1>4, <3>1, Zenon DEF TryFails, At, ContextInv, Active, StartFlag
  <2>3. ASSUME NEW d \in Contexts, d # c PROVE ContextInv(d)'
    BY <1>4, <2>3, OtherContext DEF TryFails
  <2> QED BY <1>4, <2>1, <2>2, <2>3, SameGuards DEF TryFails
<1>5. ASSUME NEW c \in Contexts, NEW i \in DOMAIN guards[c], Unlock(c, i)
      PROVE  MutexTypeOK' /\ MutexInv'
  <2> DEFINE n == Len(guards[c])
             older == RemoveAt(guards[c], n)
  <2>1. i = n /\ n \in Nat /\ n > 0 /\ running[c[1]] = c[2]
    BY <1>5 DEF Unlock, Droppable, At
  <2>2. older \in Seq(Guards) /\ Len(older) = n - 1 /\ \A k \in 1 .. n - 1 : older[k] = guards[c][k]
    BY <2>1, RemoveNewest
  <2>3. guards' = [guards EXCEPT ![c] = older]
    BY <1>5, <2>1 DEF Unlock
  <2>4. guards[c][n] \in Guards /\ guards[c][n].lock \in Locks /\ guards[c][n].enable_flag \in BOOLEAN
    <3>1. guards[c] \in Seq(Guards) /\ n \in 1 .. Len(guards[c])
      BY <2>1
    <3>2. guards[c][n] \in Guards
      BY <3>1, ElementOfSeq
    <3> QED BY <3>2 DEF Guards
  <2> HIDE DEF older
  <2>5. /\ op' = [op EXCEPT ![c] = [Idle EXCEPT !.pc = "restore",
                                                !.enable_flag = guards[c][n].enable_flag]]
        /\ owner' = [owner EXCEPT ![guards[c][n].lock] = Nobody]
        /\ enabled' = enabled /\ base' = base /\ running' = running
    BY <1>5, <2>1 DEF Unlock
  <2>6. op'[c].pc = "restore" /\ op'[c].enable_flag = guards[c][n].enable_flag
    BY <2>5 DEF Idle
  <2>7. MutexTypeOK'
    BY <2>2, <2>3, <2>4, <2>5, Zenon DEF Ops, Idle
  <2>8. ~enabled[c[1]]
    BY <2>1 DEF ContextInv, Active
  <2>9. guards[c][n].enable_flag <=> n = 1 /\ StartFlag(c)
    BY <2>1 DEF ContextInv
  <2>10. ContextInv(c)'
    <3>1. guards'[c] = older
      BY <2>3
    <3>2. \A k \in 1 .. n - 1 : older[k].enable_flag <=> k = 1 /\ StartFlag(c)
      <4>1. \A k \in 1 .. n : guards[c][k].enable_flag <=> k = 1 /\ StartFlag(c)
        BY DEF ContextInv
      <4> HIDE DEF n
      <4> QED BY <2>1, <2>2, <4>1
    <3>3. StartFlag(c)' <=> StartFlag(c)
      BY <2>5 DEF StartFlag
    <3>4. Active(c)'
      BY <2>1, <2>2, <2>5, <2>6, <2>8, <2>9, <3>1, <3>3 DEF Active
    <3> QED BY <2>1, <2>2, <2>5, <2>6, <3>1, <3>2, <3>3, <3>4 DEF ContextInv
  <2>11. ASSUME NEW d \in Contexts, d # c PROVE ContextInv(d)'
    BY <2>3, <2>5, <2>11, OtherContext
  <2>12. GuardIsLock'
    <3> SUFFICES ASSUME NEW d \in Contexts
                 PROVE  /\ \A l \in Locks : owner'[l] = d <=>
                             \E k \in 1 .. Len(guards'[d]) : guards'[d][k].lock = l
                        /\ \A j, k \in 1 .. Len(guards'[d]) :
                             guards'[d][j].lock = guards'[d][k].lock => j = k
      BY SMTT(30) DEF GuardIsLock
    <3>1. \A l \in Locks : owner'[l] = IF l = guards[c][n].lock THEN Nobody ELSE owner[l]
      BY <2>4, <2>5
    <3>2. owner[guards[c][n].lock] = c
      BY <2>1, <2>4 DEF GuardIsLock
    <3>3. CASE d # c
      BY <2>3, <2>4, <3>1, <3>2, <3>3 DEF GuardIsLock
    <3>4. CASE d = c
      <4>1. guards'[c] = older
        BY <2>3
      <4>3. \A j, k \in 1 .. n : guards[c][j].lock = guards[c][k].lock => j = k
        BY DEF GuardIsLock
      <4>4. \A l \in Locks : owner[l] = c <=> \E k \in 1 .. n : guards[c][k].lock = l
        BY Zenon DEF GuardIsLock
      <4>5. Len(older) = n - 1
        BY <2>2
      <4> HIDE DEF n
      <4>6. \A k \in 1 .. n - 1 : older[k].lock = guards[c][k].lock
        BY <2>2
      <4>7. \A k \in 1 .. n - 1 : k \in 1 .. n /\ k # n
        BY <2>1
      <4>8. \A k \in 1 .. n - 1 : older[k].lock # guards[c][n].lock
        BY <2>1, <4>3, <4>6, <4>7
      <4>9. \A l \in Locks : owner'[l] = c <=> \E k \in 1 .. n - 1 : older[k].lock = l
        <5> SUFFICES ASSUME NEW l \in Locks
                     PROVE  owner'[l] = c <=> \E k \in 1 .. n - 1 : older[k].lock = l
          OBVIOUS
        <5>1. CASE l = guards[c][n].lock
          <6>1. owner'[l] = Nobody
            BY <3>1, <5>1
          <6> QED BY <4>8, <5>1, <6>1
        <5>2. CASE l # guards[c][n].lock
          <6>1. owner'[l] = owner[l]
            BY <3>1, <5>2
          <6>2. (\E k \in 1 .. n : guards[c][k].lock = l) <=> \E k \in 1 .. n - 1 : older[k].lock = l
            <7>1. \A k \in 1 .. n : k # n => k \in 1 .. n - 1
              BY <2>1
            <7> QED BY <4>6, <4>7, <5>2, <7>1, Zenon
          <6> QED BY <4>4, <6>1, <6>2
        <5> QED BY <5>1, <5>2, Zenon
      <4>10. \A j, k \in 1 .. n - 1 : older[j].lock = older[k].lock => j = k
        BY <4>3, <4>6, <4>7
      <4> QED BY <3>4, <4>1, <4>5, <4>9, <4>10
    <3> QED BY <3>3, <3>4
  <2> QED BY <2>7, <2>10, <2>11, <2>12
<1>6. ASSUME NEW c \in Contexts, Restore(c)
      PROVE  MutexTypeOK' /\ MutexInv'
  <2>1. MutexTypeOK'
    BY <1>6 DEF Restore, Restored, Ops, Idle
  <2>2. ContextInv(c)'
    BY <1>6, SMTT(30) DEF Restore, Restored, At, ContextInv, Active, StartFlag, Ops, Idle
  <2>3. ASSUME NEW d \in Contexts, d # c PROVE ContextInv(d)'
    <3>1. running[d[1]] = d[2] => d[1] # c[1]
      BY <1>6, <2>3, SMTT(30) DEF Restore, At
    <3>2. d[1] # c[1] => enabled'[d[1]] = enabled[d[1]]
      BY <1>6 DEF Restore, Restored
    <3> QED BY <1>6, <2>3, <3>1, <3>2, OtherContext DEF Restore
  <2> QED BY <1>6, <2>1, <2>2, <2>3, SameGuards DEF Restore
<1>7. ASSUME NEW p \in Processors, Interrupt(p)
      PROVE  MutexTypeOK' /\ MutexInv'
  <2>1. MutexTypeOK'
    BY <1>7 DEF Interrupt
  <2>2. ASSUME NEW d \in Contexts, d[1] = p PROVE ContextInv(d)'
    <3>1. CASE d[2] = "thread"
      BY <1>7, <2>2, <3>1, SMTT(30) DEF Interrupt, ContextInv, Active, Preempted, StartFlag
    <3>2. CASE d[2] = "handler"
      BY <1>7, <2>2, <3>2, SMTT(30) DEF Interrupt, ContextInv, Active, Preempted, StartFlag
    <3> QED BY <3>1, <3>2
  <2>3. ASSUME NEW d \in Contexts, d[1] # p PROVE ContextInv(d)'
    BY <1>7, <2>3, OtherContext, Zenon DEF Interrupt
  <2> QED BY <1>7, <2>1, <2>2, <2>3, SameGuards, Zenon DEF Interrupt
<1>8. ASSUME NEW p \in Processors, Iret(p)
      PROVE  MutexTypeOK' /\ MutexInv'
  <2>1. MutexTypeOK'
    BY <1>8 DEF Iret
  <2>2. ASSUME NEW d \in Contexts, d[1] = p PROVE ContextInv(d)'
    <3>1. CASE d[2] = "thread"
      BY <1>8, <2>2, <3>1, SMTT(30) DEF Iret, At, ContextInv, Active, Preempted, StartFlag
    <3>2. CASE d[2] = "handler"
      <4>1. d = <<p, "handler">>
        BY <2>2, <3>2 DEF Contexts
      <4>2. op[d].pc = "idle" /\ Len(guards[d]) = 0
        BY <1>8, <4>1 DEF Iret, At
      <4>3. /\ op'[d] = op[d] /\ guards'[d] = guards[d] /\ base' = base
            /\ running'[d[1]] = "thread"
        BY <1>8, <2>2 DEF Iret
      <4> QED BY <3>2, <4>2, <4>3, SMTT(30) DEF ContextInv, Preempted
    <3> QED BY <3>1, <3>2
  <2>3. ASSUME NEW d \in Contexts, d[1] # p PROVE ContextInv(d)'
    BY <1>8, <2>3, OtherContext, Zenon DEF Iret
  <2> QED BY <1>8, <2>1, <2>2, <2>3, SameGuards, Zenon DEF Iret
<1>9. CASE UNCHANGED mutexVars
  BY <1>9, SameGuards, OtherContext DEF mutexVars
<1> QED BY <1>1, <1>2, <1>3, <1>4, <1>5, <1>6, <1>7, <1>8, <1>9 DEF MutexNext, Finish

\* If guards are dropped last first, MutexTypeOK and MutexInv hold throughout.
THEOREM MutexInvariant ==
  ASSUME AnyDropOrder = FALSE
  PROVE  MutexSpec => [](MutexTypeOK /\ MutexInv)
<1>1. MutexInit => MutexTypeOK /\ MutexInv
  <2> SUFFICES ASSUME MutexInit PROVE MutexTypeOK /\ MutexInv
    OBVIOUS
  <2> USE ContextPairs DEF MutexInit
  <2>1. MutexTypeOK
    BY DEF MutexTypeOK, Ops, Idle
  <2>2. \A c \in Contexts : Len(guards[c]) = 0
    OBVIOUS
  <2>3. GuardIsLock
    BY <2>2 DEF GuardIsLock
  <2>4. ASSUME NEW c \in Contexts PROVE ContextInv(c)
    BY <2>2 DEF ContextInv, Active, Preempted, StartFlag, Idle
  <2> QED BY <2>1, <2>3, <2>4 DEF MutexInv
<1>2. MutexTypeOK /\ MutexInv /\ [MutexNext]_mutexVars => (MutexTypeOK /\ MutexInv)'
  BY MutexStep
<1> QED BY <1>1, <1>2, PTL DEF MutexSpec

\* While a guard of a mutex is held, its processor takes no interrupts.
THEOREM GuardsKeepInterruptsOff ==
  ASSUME AnyDropOrder = FALSE
  PROVE  MutexSpec => []HeldWithInterruptsOff
<1>1. MutexTypeOK /\ MutexInv => HeldWithInterruptsOff
  BY ContextPairs
  DEF MutexTypeOK, MutexInv, ContextInv, Active, Preempted, HeldWithInterruptsOff
<1> QED BY <1>1, MutexInvariant, PTL

\* An interrupt handler never spins on a mutex of the thread that it preempted.
THEOREM HandlersDoNotDeadlock ==
  ASSUME AnyDropOrder = FALSE
  PROVE  MutexSpec => []NoHandlerDeadlock
<1>1. MutexTypeOK /\ MutexInv => NoHandlerDeadlock
  <2> SUFFICES ASSUME MutexTypeOK, MutexInv, NEW p \in Processors,
                      running[p] = "handler", op[<<p, "handler">>].pc = "acquire"
               PROVE  owner[op[<<p, "handler">>].lock] # <<p, "thread">>
    BY DEF NoHandlerDeadlock
  <2> DEFINE t == <<p, "thread">>
             h == <<p, "handler">>
  <2>1. t \in Contexts /\ h \in Contexts /\ t[1] = p /\ t[2] = "thread"
    BY ContextPairs
  <2> HIDE DEF t, h
  <2>2. Len(guards[t]) = 0
    BY <2>1 DEF MutexInv, ContextInv, Preempted
  <2>3. op[h].lock \in Locks
    BY <2>1 DEF MutexInv, ContextInv, h
  <2>4. owner[op[h].lock] # t
    BY <2>1, <2>2, <2>3 DEF MutexInv, GuardIsLock
  <2> QED BY <2>4 DEF t, h
<1> QED BY <1>1, MutexInvariant, PTL

\* A context that has dropped its guards has the interrupt flag it began with.
THEOREM FlagIsRestored ==
  ASSUME AnyDropOrder = FALSE
  PROVE  MutexSpec => []FlagRestored
<1>1. MutexTypeOK /\ MutexInv => FlagRestored
  BY ContextPairs
  DEF MutexTypeOK, MutexInv, ContextInv, Active, At, FlagRestored
<1> QED BY <1>1, MutexInvariant, PTL
=============================================================================
