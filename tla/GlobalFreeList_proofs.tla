------------------------ MODULE GlobalFreeList_proofs ------------------------
(***************************************************************************)
(* Proofs about GlobalFreeList, for any number of processors and slots.    *)
(***************************************************************************)
EXTENDS GlobalFreeList, TLAPS

USE SizeAssumption, EmptyAssumption, TagAssumption

\* What pushing an entry on the history of the list does to its positions.
LEMMA ConsFacts ==
  ASSUME NEW S, NEW s \in Seq(S), NEW e \in S
  PROVE  LET t == <<e>> \o s
         IN  /\ t \in Seq(S)
             /\ Len(t) = Len(s) + 1
             /\ t[1] = e
             /\ \A k \in 1 .. Len(s) : t[k + 1] = s[k]
             /\ \A k \in 2 .. Len(t) : t[k] = s[k - 1] /\ k - 1 \in 1 .. Len(s)
  OBVIOUS

\* What popping does to the positions.
LEMMA TailFacts ==
  ASSUME NEW S, NEW s \in Seq(S), Len(s) # 0
  PROVE  LET t == Tail(s)
         IN  /\ t \in Seq(S)
             /\ Len(s) \in Nat \ {0}
             /\ Len(t) = Len(s) - 1
             /\ \A k \in 1 .. Len(t) : t[k] = s[k + 1] /\ k + 1 \in 1 .. Len(s)
  OBVIOUS

\* The empty list satisfies the invariant.
LEMMA InitInv == ListInitEmpty => ListInv
  BY DEF ListInitEmpty, ListInv, ListTypeOK, ListIsStack, SlotInOnePlace, NoSlotTwice, NoSlotLost,
         SpentTags, LoadedNeverPushed, LinksCurrent, Links, Entries, Pushing, Popping, Index,
         PushSteps, PopSteps, Slots

\* A step that leaves the list, the tag and the slots being pushed alone keeps
\* the part of the invariant that is about them.
LEMMA QuietStep ==
  ASSUME ListInv, UNCHANGED <<head, tag, out, stack>>, Pushing' = Pushing,
         \A q \in Pushing : new_head'[q] = new_head[q],
         \A k \in 1 .. Len(stack) : next'[Index(stack[k])] = next[Index(stack[k])]
  PROVE  ListIsStack' /\ SlotInOnePlace'
<1> USE DEF ListInv, SlotInOnePlace
<1>1. ListIsStack'
  BY DEF ListIsStack
<1>2. NoSlotTwice'
  BY DEF NoSlotTwice
<1>3. NoSlotLost'
  BY DEF NoSlotLost
<1> QED BY <1>1, <1>2, <1>3

\* The step PushStart preserves the invariant: the tag it takes is larger than
\* that of every entry a pop may have loaded.
LEMMA PushStartInv ==
  ASSUME ListInv, NEW p \in Procs, PushStart(p)
  PROVE  ListInv'
<1> USE DEF ListInv, SlotInOnePlace
<1>1. PICK i \in out : PushTag(p, i)
  BY DEF PushStart
<1>2. /\ Pushing' = Pushing \cup {p} /\ p \notin Pushing /\ Popping' = Popping
      /\ new_head'[p] = <<i, tag>> /\ \A q \in Pushing : new_head'[q] = new_head[q]
      /\ tag \in Nat /\ tag' = tag + 1 /\ out' = out \ {i} /\ i \in Slots
      /\ UNCHANGED <<head, next, old_head, stack>> /\ stack \in Seq(Entries)
  BY <1>1 DEF PushTag, FetchAddTag, ListTypeOK, Pushing, Popping, PushSteps, PopSteps
<1>3. ListTypeOK'
  BY <1>1, <1>2 DEF PushTag, ListTypeOK, Links, Entries, PushSteps, PopSteps
<1>4. ListIsStack'
  BY <1>2 DEF ListIsStack
<1>5. NoSlotTwice'
  BY <1>1, <1>2 DEF NoSlotTwice, Index
<1>6. NoSlotLost'
  BY <1>1, <1>2 DEF NoSlotLost, Index
<1>7. SpentTags'
  <2>1. \A e \in Entries : Tag(e) < tag => Tag(e) < tag'
    BY <1>2 DEF Entries, Tag
  <2>2. <<i, tag>> \in Entries /\ Tag(<<i, tag>>) < tag'
    BY <1>2 DEF Entries, Tag
  <2> QED BY <1>2, <2>1, <2>2 DEF SpentTags
<1>8. LoadedNeverPushed'
  BY <1>2 DEF LoadedNeverPushed, SpentTags, Tag
<1>9. LinksCurrent'
  <2>1. \A q \in Procs : fl'[q] \in {"pop_cas", "push_cas"} =>
          fl'[q] = fl[q] /\ new_head'[q] = new_head[q]
    BY <1>1 DEF PushTag, ListTypeOK
  <2> QED BY <1>2, <2>1 DEF LinksCurrent
<1> QED BY <1>3, <1>4, <1>5, <1>6, <1>7, <1>8, <1>9

\* The step PushLoad preserves the invariant.
LEMMA PushLoadInv ==
  ASSUME ListInv, NEW p \in Procs, PushLoad(p)
  PROVE  ListInv'
<1> USE DEF ListInv
<1>1. /\ Pushing' = Pushing /\ Popping' = Popping
      /\ \A q \in Pushing : new_head'[q] = new_head[q]
      /\ \A q \in Popping' : old_head'[q] = old_head[q]
      /\ UNCHANGED <<head, tag, next, out, stack>>
  BY DEF PushLoad, ListTypeOK, Pushing, Popping, PushSteps, PopSteps
<1>2. ListTypeOK'
  BY DEF PushLoad, ListTypeOK, Links, PushSteps, PopSteps
<1>3. ListIsStack' /\ SlotInOnePlace'
  BY <1>1, QuietStep
<1>4. SpentTags'
  BY <1>1 DEF SpentTags
<1>5. LoadedNeverPushed'
  BY <1>1 DEF LoadedNeverPushed
<1>6. LinksCurrent'
  <2>1. \A q \in Procs : fl'[q] \in {"pop_cas", "push_cas"} =>
          fl'[q] = fl[q] /\ old_head'[q] = old_head[q] /\ new_head'[q] = new_head[q]
    BY DEF PushLoad, ListTypeOK
  <2> QED BY <1>1, <2>1 DEF LinksCurrent
<1> QED BY <1>2, <1>3, <1>4, <1>5, <1>6

\* The step PushSetNext preserves the invariant: the slot it links is on no list.
LEMMA PushSetNextInv ==
  ASSUME ListInv, NEW p \in Procs, PushSetNext(p)
  PROVE  ListInv'
<1> USE DEF ListInv
<1>1. /\ p \in Pushing /\ Pushing' = Pushing /\ Popping' = Popping
      /\ UNCHANGED <<head, tag, old_head, new_head, out, stack>>
      /\ new_head[p] \in Entries /\ Index(new_head[p]) \in Slots
      /\ next' = [next EXCEPT ![Index(new_head[p])] = old_head[p]]
  BY DEF PushSetNext, ListTypeOK, Pushing, Popping, PushSteps, PopSteps, SpentTags, Entries, Index
<1>2. ListTypeOK'
  BY <1>1 DEF PushSetNext, ListTypeOK, PushSteps, PopSteps
<1>3. \A k \in 1 .. Len(stack) : next'[Index(stack[k])] = next[Index(stack[k])]
  BY <1>1 DEF SlotInOnePlace, NoSlotTwice, ListTypeOK
<1>4. ListIsStack' /\ SlotInOnePlace'
  BY <1>1, <1>3, QuietStep
<1>5. SpentTags' /\ LoadedNeverPushed'
  BY <1>1 DEF SpentTags, LoadedNeverPushed
<1>6. LinksCurrent'
  <2>1. ASSUME NEW q \in Procs, fl'[q] = "push_cas"
        PROVE  next'[Index(new_head[q])] = old_head[q]
    <3>1. CASE q = p
      BY <3>1, <1>1 DEF ListTypeOK
    <3>2. CASE q # p
      <4>1. fl[q] = "push_cas" /\ q \in Pushing
        BY <2>1, <3>2 DEF PushSetNext, ListTypeOK, Pushing, PushSteps
      <4>2. Index(new_head[q]) # Index(new_head[p])
        BY <4>1, <3>2, <1>1 DEF SlotInOnePlace, NoSlotTwice
      <4>3. Index(new_head[q]) \in Slots
        BY <4>1 DEF SpentTags, Entries, Index
      <4> QED BY <4>1, <4>2, <4>3, <1>1 DEF LinksCurrent, ListTypeOK
    <3> QED BY <3>1, <3>2
  <2>2. \A q \in Procs : fl'[q] = "pop_cas" => fl[q] = "pop_cas"
    BY DEF PushSetNext, ListTypeOK
  <2>3. \A q \in Procs, k \in 1 .. Len(stack) :
          fl'[q] = "pop_cas" /\ stack[k] = old_head[q]
            => next'[Index(old_head[q])] = new_head[q]
    BY <1>3, <2>2 DEF LinksCurrent
  <2> QED BY <1>1, <2>1, <2>3 DEF LinksCurrent
<1> QED BY <1>2, <1>4, <1>5, <1>6

\* The step PushCas preserves the invariant.
LEMMA PushCasInv ==
  ASSUME ListInv, NEW p \in Procs, PushCas(p)
  PROVE  ListInv'
<1> DEFINE e == new_head[p]
<1> USE DEF ListInv, SlotInOnePlace
<1>1. /\ p \in Pushing /\ Pushing' = Pushing \ {p} /\ Popping' = Popping
      /\ e \in Entries /\ Tag(e) < tag
      /\ head = old_head[p] /\ next[Index(e)] = head
      /\ head' = e /\ stack' = <<e>> \o stack
      /\ UNCHANGED <<tag, next, out>>
      /\ \A q \in Pushing' : new_head'[q] = new_head[q]
      /\ \A q \in Popping' : old_head'[q] = old_head[q]
      /\ stack \in Seq(Entries) /\ Len(stack) \in Nat
  BY DEF PushCas, EndOld, EndNew, ListTypeOK, Pushing, Popping, PushSteps, PopSteps, SpentTags, LinksCurrent
<1>2. /\ stack' \in Seq(Entries)
      /\ Len(stack') = Len(stack) + 1
      /\ stack'[1] = e
      /\ \A k \in 1 .. Len(stack) : stack'[k + 1] = stack[k] /\ k + 1 \in 1 .. Len(stack')
      /\ \A k \in 1 .. Len(stack') : k # 1 => stack'[k] = stack[k - 1] /\ k - 1 \in 1 .. Len(stack)
  BY <1>1, ConsFacts
<1> HIDE DEF e
<1>3. ListTypeOK'
  BY <1>1, <1>2 DEF PushCas, EndOld, EndNew, ListTypeOK, Links, PushSteps, PopSteps
<1>4. ListIsStack'
  <2>1. head' = IF Len(stack') = 0 THEN EMPTY ELSE stack'[1]
    BY <1>1, <1>2
  <2>2. ASSUME NEW k \in 1 .. Len(stack')
        PROVE  next[Index(stack'[k])] = IF k = Len(stack') THEN EMPTY ELSE stack'[k + 1]
    <3>1. CASE k = 1
      BY <3>1, <1>1, <1>2 DEF ListIsStack
    <3>2. CASE k # 1
      BY <3>2, <1>1, <1>2 DEF ListIsStack
    <3> QED BY <3>1, <3>2
  <2> QED BY <1>1, <2>1, <2>2 DEF ListIsStack
<1>5. NoSlotTwice'
  <2>1. \A k \in 1 .. Len(stack) : Index(stack[k]) # Index(e)
    BY <1>1 DEF NoSlotTwice, e
  <2>2. Index(e) \notin out /\ \A q \in Pushing \ {p} : Index(new_head[q]) # Index(e)
    BY <1>1 DEF NoSlotTwice, e
  <2>3. \A j, k \in 1 .. Len(stack') : Index(stack'[j]) = Index(stack'[k]) => j = k
    <3>1. \A j, k \in 1 .. Len(stack) : Index(stack[j]) = Index(stack[k]) => j = k
      BY DEF NoSlotTwice
    <3> TAKE j, k \in 1 .. Len(stack')
    <3>2. ASSUME NEW m \in 1 .. Len(stack'), m # 1
          PROVE  Index(stack'[m]) # Index(stack'[1])
      <4>1. stack'[m] = stack[m - 1] /\ m - 1 \in 1 .. Len(stack) /\ stack'[1] = e
        BY <1>2, <3>2
      <4>2. Index(stack[m - 1]) # Index(e)
        BY <2>1, <4>1
      <4> QED BY <4>1, <4>2
    <3>3. CASE j # 1 /\ k # 1
      <4>1. /\ stack'[j] = stack[j - 1] /\ j - 1 \in 1 .. Len(stack)
            /\ stack'[k] = stack[k - 1] /\ k - 1 \in 1 .. Len(stack)
        BY <3>3, <1>2
      <4>2. j - 1 = k - 1 => j = k
        OBVIOUS
      <4> QED BY <4>1, <4>2, <3>1
    <3>4. CASE j = 1 \/ k = 1
      BY <3>2, <3>4
    <3> QED BY <3>3, <3>4
  <2>4. \A k \in 1 .. Len(stack') : Index(stack'[k]) \notin out
    BY <1>2, <2>2 DEF NoSlotTwice
  <2>5. \A k \in 1 .. Len(stack'), q \in Pushing \ {p} : Index(stack'[k]) # Index(new_head[q])
    <3> TAKE k \in 1 .. Len(stack'), q \in Pushing \ {p}
    <3>1. CASE k = 1
      BY <3>1, <1>2, <2>2
    <3>2. CASE k # 1
      BY <3>2, <1>2 DEF NoSlotTwice
    <3> QED BY <3>1, <3>2
  <2> QED BY <1>1, <2>3, <2>4, <2>5 DEF NoSlotTwice
<1>6. NoSlotLost'
  <2> SUFFICES ASSUME NEW i \in Slots, i \notin out
               PROVE  \/ \E k \in 1 .. Len(stack') : i = Index(stack'[k])
                      \/ \E q \in Pushing \ {p} : i = Index(new_head[q])
    BY <1>1 DEF NoSlotLost
  <2>1. CASE i = Index(e)
    BY <2>1, <1>1, <1>2
  <2>2. CASE \E k \in 1 .. Len(stack) : i = Index(stack[k])
    BY <2>2, <1>2
  <2>3. CASE \E q \in Pushing : i = Index(new_head[q])
    BY <2>1, <2>3 DEF e
  <2> QED BY <2>2, <2>3 DEF NoSlotLost
<1>7. SpentTags'
  BY <1>1, <1>2 DEF SpentTags
<1>8. LoadedNeverPushed'
  BY <1>1 DEF LoadedNeverPushed
<1>9. LinksCurrent'
  <2>1. ASSUME NEW q \in Procs, NEW k \in 1 .. Len(stack'), fl'[q] = "pop_cas",
               stack'[k] = old_head[q]
        PROVE  next[Index(old_head[q])] = new_head[q]
    <3>1. q # p /\ fl[q] = "pop_cas" /\ q \in Popping
      BY <2>1 DEF PushCas, ListTypeOK, Popping
    <3>2. old_head[q] # e
      BY <3>1, <1>1 DEF LoadedNeverPushed, e
    <3> QED BY <2>1, <3>1, <3>2, <1>2 DEF LinksCurrent
  <2>2. \A q \in Procs : fl'[q] \in {"pop_cas", "push_cas"} =>
          fl'[q] = fl[q] /\ old_head'[q] = old_head[q] /\ new_head'[q] = new_head[q]
    BY DEF PushCas, EndOld, EndNew, ListTypeOK
  <2>3. \A q \in Procs, k \in 1 .. Len(stack') :
          fl'[q] = "pop_cas" /\ stack'[k] = old_head'[q]
            => next'[Index(old_head'[q])] = new_head'[q]
    BY <1>1, <2>1, <2>2
  <2>4. \A q \in Procs :
          fl'[q] = "push_cas" => next'[Index(new_head'[q])] = old_head'[q]
    BY <1>1, <2>2 DEF LinksCurrent
  <2> QED BY <2>3, <2>4 DEF LinksCurrent
<1> QED BY <1>3, <1>4, <1>5, <1>6, <1>7, <1>8, <1>9

\* The step PushCasFails preserves the invariant.
LEMMA PushCasFailsInv ==
  ASSUME ListInv, NEW p \in Procs, PushCasFails(p)
  PROVE  ListInv'
<1> USE DEF ListInv
<1>1. /\ Pushing' = Pushing /\ Popping' = Popping
      /\ \A q \in Pushing : new_head'[q] = new_head[q]
      /\ \A q \in Popping' : old_head'[q] = old_head[q]
      /\ UNCHANGED <<head, tag, next, out, stack>>
  BY DEF PushCasFails, EndOld, ListTypeOK, Pushing, Popping, PushSteps, PopSteps
<1>2. ListTypeOK'
  BY DEF PushCasFails, EndOld, ListTypeOK, Links, PushSteps, PopSteps
<1>3. ListIsStack' /\ SlotInOnePlace'
  BY <1>1, QuietStep
<1>4. SpentTags'
  BY <1>1 DEF SpentTags
<1>5. LoadedNeverPushed'
  BY <1>1 DEF LoadedNeverPushed
<1>6. LinksCurrent'
  <2>1. \A q \in Procs : fl'[q] \in {"pop_cas", "push_cas"} =>
          fl'[q] = fl[q] /\ old_head'[q] = old_head[q] /\ new_head'[q] = new_head[q]
    BY DEF PushCasFails, EndOld, ListTypeOK
  <2> QED BY <1>1, <2>1 DEF LinksCurrent
<1> QED BY <1>2, <1>3, <1>4, <1>5, <1>6

\* The step PopEmpty preserves the invariant.
LEMMA PopEmptyInv ==
  ASSUME ListInv, NEW p \in Procs, PopEmpty(p)
  PROVE  ListInv'
<1> USE DEF ListInv
<1>1. /\ Pushing' = Pushing /\ Popping' = Popping
      /\ \A q \in Pushing : new_head'[q] = new_head[q]
      /\ \A q \in Popping' : old_head'[q] = old_head[q]
      /\ UNCHANGED <<head, tag, next, out, stack>>
  BY DEF PopEmpty, ListTypeOK, Pushing, Popping, PushSteps, PopSteps
<1>2. ListTypeOK'
  BY DEF PopEmpty, ListTypeOK, Links, PushSteps, PopSteps
<1>3. ListIsStack' /\ SlotInOnePlace'
  BY <1>1, QuietStep
<1>4. SpentTags'
  BY <1>1 DEF SpentTags
<1>5. LoadedNeverPushed'
  BY <1>1 DEF LoadedNeverPushed
<1>6. LinksCurrent'
  <2>1. \A q \in Procs : fl'[q] \in {"pop_cas", "push_cas"} =>
          fl'[q] = fl[q] /\ old_head'[q] = old_head[q] /\ new_head'[q] = new_head[q]
    BY DEF PopEmpty, ListTypeOK
  <2> QED BY <1>1, <2>1 DEF LinksCurrent
<1> QED BY <1>2, <1>3, <1>4, <1>5, <1>6

\* The step PopLoad preserves the invariant.
LEMMA PopLoadInv ==
  ASSUME ListInv, NEW p \in Procs, PopLoad(p)
  PROVE  ListInv'
<1> USE DEF ListInv
<1>1. /\ Pushing' = Pushing /\ Popping' = Popping \cup {p}
      /\ \A q \in Pushing : new_head'[q] = new_head[q]
      /\ \A q \in Popping' \ {p} : old_head'[q] = old_head[q]
      /\ UNCHANGED <<head, tag, next, out, stack>>
  BY DEF PopLoad, ListTypeOK, Pushing, Popping, PushSteps, PopSteps
<1>2. ListTypeOK'
  BY DEF PopLoad, ListTypeOK, Links, PushSteps, PopSteps
<1>3. ListIsStack' /\ SlotInOnePlace'
  BY <1>1, QuietStep
<1>a. 1 \in 1 .. Len(stack) /\ head = stack[1] /\ head \in Entries /\ old_head'[p] = head
  BY DEF PopLoad, ListIsStack, ListTypeOK, Links
<1>b. \A q \in Pushing : head # new_head[q]
  BY <1>a DEF SlotInOnePlace, NoSlotTwice
<1>4. SpentTags'
  BY <1>1, <1>a, <1>b DEF SpentTags
<1>5. LoadedNeverPushed'
  BY <1>1, <1>a, <1>b DEF LoadedNeverPushed
<1>6. LinksCurrent'
  <2>1. \A q \in Procs : fl'[q] \in {"pop_cas", "push_cas"} =>
          fl'[q] = fl[q] /\ old_head'[q] = old_head[q] /\ new_head'[q] = new_head[q]
    BY DEF PopLoad, ListTypeOK
  <2> QED BY <1>1, <2>1 DEF LinksCurrent
<1> QED BY <1>2, <1>3, <1>4, <1>5, <1>6

\* The step PopNext preserves the invariant.
LEMMA PopNextInv ==
  ASSUME ListInv, NEW p \in Procs, PopNext(p)
  PROVE  ListInv'
<1> USE DEF ListInv
<1>1. /\ Pushing' = Pushing /\ Popping' = Popping
      /\ \A q \in Pushing : new_head'[q] = new_head[q]
      /\ \A q \in Popping' : old_head'[q] = old_head[q]
      /\ UNCHANGED <<head, tag, next, out, stack>>
  BY DEF PopNext, ListTypeOK, Pushing, Popping, PushSteps, PopSteps
<1>2. ListTypeOK'
  BY DEF PopNext, ListTypeOK, Links, PushSteps, PopSteps, SpentTags, Popping, Entries, Index
<1>3. ListIsStack' /\ SlotInOnePlace'
  BY <1>1, QuietStep
<1>a. old_head' = old_head
  BY DEF PopNext
<1>4. SpentTags'
  BY <1>1, <1>a DEF SpentTags
<1>5. LoadedNeverPushed'
  BY <1>1, <1>a DEF LoadedNeverPushed
<1>6. LinksCurrent'
  <2>1. \A q \in Procs : q # p /\ fl'[q] \in {"pop_cas", "push_cas"} =>
          fl'[q] = fl[q] /\ new_head'[q] = new_head[q]
    BY DEF PopNext, ListTypeOK
  <2>2. fl'[p] = "pop_cas" /\ new_head'[p] = next[Index(old_head[p])]
    BY DEF PopNext, ListTypeOK
  <2> QED BY <1>1, <1>a, <2>1, <2>2 DEF LinksCurrent
<1> QED BY <1>2, <1>3, <1>4, <1>5, <1>6

\* The step PopCas preserves the invariant: the link that the pop read is the
\* link of the slot on top, so the head becomes the entry below it.
LEMMA PopCasInv ==
  ASSUME ListInv, NEW p \in Procs, PopCas(p)
  PROVE  ListInv'
<1> DEFINE i == Index(old_head[p])
<1> USE DEF ListInv, SlotInOnePlace
<1>1. /\ Pushing' = Pushing /\ Popping' = Popping \ {p} /\ p \in Popping
      /\ old_head[p] \in Entries /\ head = old_head[p]
      /\ head' = new_head[p] /\ out' = out \cup {i}
      /\ stack' = IF Len(stack) = 0 THEN stack ELSE Tail(stack)
      /\ UNCHANGED <<tag, next>> /\ p \notin Pushing
      /\ \A q \in Pushing' : new_head'[q] = new_head[q]
      /\ \A q \in Popping' : old_head'[q] = old_head[q]
      /\ stack \in Seq(Entries) /\ Len(stack) \in Nat
  BY DEF PopCas, EndOld, EndNew, PopExchanges, ListTypeOK, Pushing, Popping, PushSteps, PopSteps, SpentTags
<1>2. Len(stack) # 0 /\ stack[1] = old_head[p] /\ i \in Slots
  BY <1>1 DEF ListIsStack, Entries, Index
<1>3. /\ stack' \in Seq(Entries)
      /\ Len(stack') = Len(stack) - 1
      /\ \A k \in 1 .. Len(stack') : stack'[k] = stack[k + 1] /\ k + 1 \in 1 .. Len(stack)
  BY <1>1, <1>2, TailFacts
<1>4. new_head[p] = IF Len(stack) = 1 THEN EMPTY ELSE stack[2]
  <2>1. 1 \in 1 .. Len(stack) /\ fl[p] = "pop_cas"
    BY <1>1, <1>2 DEF PopCas
  <2>2. next[Index(stack[1])] = new_head[p]
    BY <2>1, <1>2 DEF LinksCurrent
  <2>3. next[Index(stack[1])] = IF 1 = Len(stack) THEN EMPTY ELSE stack[1 + 1]
    BY <2>1 DEF ListIsStack
  <2> QED BY <2>2, <2>3
<1>5. i \notin out /\ i = Index(stack[1])
  BY <1>1, <1>2 DEF NoSlotTwice
<1> HIDE DEF i
<1>6. ListTypeOK'
  BY <1>1, <1>2, <1>3 DEF PopCas, EndOld, EndNew, ListTypeOK, Links, PushSteps, PopSteps
<1>7. ListIsStack'
  <2>1. head' = IF Len(stack') = 0 THEN EMPTY ELSE stack'[1]
    BY <1>1, <1>2, <1>3, <1>4
  <2>2. ASSUME NEW k \in 1 .. Len(stack')
        PROVE  next[Index(stack'[k])] = IF k = Len(stack') THEN EMPTY ELSE stack'[k + 1]
    <3>0. Len(stack) \in Nat /\ Len(stack') \in Nat /\ k \in Int
      BY <1>1, <1>3
    <3>1. /\ stack'[k] = stack[k + 1] /\ k + 1 \in 1 .. Len(stack)
          /\ (k = Len(stack')) <=> (k + 1 = Len(stack))
      BY <1>3, <3>0
    <3>1a. k # Len(stack') => k + 1 \in 1 .. Len(stack')
      BY <3>0
    <3>2. k # Len(stack') => stack'[k + 1] = stack[(k + 1) + 1]
      BY <3>1a, <1>3
    <3> QED BY <3>1, <3>2 DEF ListIsStack
  <2> QED BY <1>1, <2>1, <2>2 DEF ListIsStack
<1>8. NoSlotTwice'
  <2>1. \A k \in 1 .. Len(stack') : Index(stack'[k]) # i
    BY <1>1, <1>2, <1>3, <1>5 DEF NoSlotTwice
  <2>2. \A q \in Pushing : Index(new_head[q]) # i
    BY <1>1, <1>2, <1>5 DEF NoSlotTwice
  <2>3. \A j, k \in 1 .. Len(stack') : Index(stack'[j]) = Index(stack'[k]) => j = k
    BY <1>1, <1>3 DEF NoSlotTwice
  <2>4. \A k \in 1 .. Len(stack') : Index(stack'[k]) \notin out'
    BY <1>1, <1>3, <2>1 DEF NoSlotTwice
  <2>5. \A k \in 1 .. Len(stack'), q \in Pushing : Index(stack'[k]) # Index(new_head[q])
    BY <1>3 DEF NoSlotTwice
  <2> QED BY <1>1, <2>2, <2>3, <2>4, <2>5 DEF NoSlotTwice
<1>9. NoSlotLost'
  <2> SUFFICES ASSUME NEW j \in Slots, j \notin out'
               PROVE  \/ \E k \in 1 .. Len(stack') : j = Index(stack'[k])
                      \/ \E q \in Pushing : j = Index(new_head[q])
    BY <1>1 DEF NoSlotLost
  <2>1. j \notin out /\ j # i
    BY <1>1
  <2>2. CASE \E k \in 1 .. Len(stack) : j = Index(stack[k])
    <3>1. PICK k \in 1 .. Len(stack) : j = Index(stack[k])
      BY <2>2
    <3>2. k # 1
      BY <2>1, <3>1, <1>5
    <3>3. k - 1 \in 1 .. Len(stack') /\ stack'[k - 1] = stack[k]
      BY <3>2, <1>1, <1>3
    <3> QED BY <3>1, <3>3
  <2>3. CASE \E q \in Pushing : j = Index(new_head[q])
    BY <2>3
  <2> QED BY <2>1, <2>2, <2>3 DEF NoSlotLost
<1>10. SpentTags'
  BY <1>1, <1>3 DEF SpentTags
<1>11. LoadedNeverPushed'
  BY <1>1 DEF LoadedNeverPushed
<1>12. LinksCurrent'
  <2>1. \A q \in Procs : fl'[q] \in {"pop_cas", "push_cas"} =>
          fl'[q] = fl[q] /\ old_head'[q] = old_head[q] /\ new_head'[q] = new_head[q]
    BY DEF PopCas, EndOld, EndNew, ListTypeOK
  <2>2. ASSUME NEW q \in Procs, NEW k \in 1 .. Len(stack'), fl'[q] = "pop_cas",
               stack'[k] = old_head'[q]
        PROVE  next'[Index(old_head'[q])] = new_head'[q]
    BY <1>1, <1>3, <2>1, <2>2 DEF LinksCurrent
  <2>3. \A q \in Procs :
          fl'[q] = "push_cas" => next'[Index(new_head'[q])] = old_head'[q]
    BY <1>1, <2>1 DEF LinksCurrent
  <2> QED BY <2>2, <2>3 DEF LinksCurrent
<1> QED BY <1>6, <1>7, <1>8, <1>9, <1>10, <1>11, <1>12

\* The step PopCasFails preserves the invariant.
LEMMA PopCasFailsInv ==
  ASSUME ListInv, NEW p \in Procs, PopCasFails(p)
  PROVE  ListInv'
<1> USE DEF ListInv
<1>1. /\ Pushing' = Pushing /\ Popping' = Popping \ {p}
      /\ \A q \in Pushing : new_head'[q] = new_head[q]
      /\ \A q \in Popping' : old_head'[q] = old_head[q]
      /\ UNCHANGED <<head, tag, next, out, stack>>
  BY DEF PopCasFails, EndOld, EndNew, ListTypeOK, Pushing, Popping, PushSteps, PopSteps
<1>2. ListTypeOK'
  BY DEF PopCasFails, EndOld, EndNew, ListTypeOK, Links, PushSteps, PopSteps
<1>3. ListIsStack' /\ SlotInOnePlace'
  BY <1>1, QuietStep
<1>4. SpentTags'
  BY <1>1 DEF SpentTags
<1>5. LoadedNeverPushed'
  BY <1>1 DEF LoadedNeverPushed
<1>6. LinksCurrent'
  <2>1. \A q \in Procs : fl'[q] \in {"pop_cas", "push_cas"} =>
          fl'[q] = fl[q] /\ old_head'[q] = old_head[q] /\ new_head'[q] = new_head[q]
    BY DEF PopCasFails, EndOld, EndNew, ListTypeOK
  <2> QED BY <1>1, <2>1 DEF LinksCurrent
<1> QED BY <1>2, <1>3, <1>4, <1>5, <1>6

\* A caller writing the link of a slot it holds preserves the invariant.
LEMMA HolderSetsNextInv ==
  ASSUME ListInv, HolderSetsNext
  PROVE  ListInv'
<1> USE DEF ListInv
<1>1. PICK i \in out, link \in {<<j, 0>> : j \in Slots} \cup {EMPTY} :
        next' = [next EXCEPT ![i] = link]
  BY DEF HolderSetsNext
<1>2. UNCHANGED <<head, tag, fl, old_head, new_head, out, stack>>
  BY DEF HolderSetsNext
<1>3. Pushing' = Pushing /\ Popping' = Popping
  BY <1>2 DEF Pushing, Popping
<1>4. ListTypeOK'
  BY <1>1, <1>2 DEF ListTypeOK, Links, Entries
<1>5. /\ \A k \in 1 .. Len(stack) : next'[Index(stack[k])] = next[Index(stack[k])]
      /\ \A p \in Pushing : next'[Index(new_head[p])] = next[Index(new_head[p])]
  BY <1>1 DEF SlotInOnePlace, NoSlotTwice, ListTypeOK
<1>6. ListIsStack' /\ SlotInOnePlace'
  BY <1>2, <1>3, <1>5, QuietStep
<1>7. SpentTags' /\ LoadedNeverPushed'
  BY <1>2, <1>3 DEF SpentTags, LoadedNeverPushed
<1>8. LinksCurrent'
  BY <1>2, <1>5 DEF LinksCurrent, Pushing, PushSteps
<1> QED BY <1>4, <1>6, <1>7, <1>8

LEMMA StepInv == ListInv /\ [ListNext]_listVars => ListInv'
<1> SUFFICES ASSUME ListInv, [ListNext]_listVars PROVE ListInv'
  OBVIOUS
<1>1. CASE UNCHANGED listVars
  BY <1>1 DEF listVars, ListInv, ListTypeOK, ListIsStack, SlotInOnePlace, NoSlotTwice,
     NoSlotLost, SpentTags, LoadedNeverPushed, LinksCurrent, Pushing, Popping
<1>2. CASE HolderSetsNext
  BY <1>2, HolderSetsNextInv
<1>3. ASSUME NEW p \in Procs,
             PushStart(p) \/ PopEmpty(p) \/ PopLoad(p) \/ ListStep(p)
      PROVE  ListInv'
  BY <1>3, PushStartInv, PushLoadInv, PushSetNextInv, PushCasInv, PushCasFailsInv,
     PopEmptyInv, PopLoadInv, PopNextInv, PopCasInv, PopCasFailsInv DEF ListStep
<1> QED BY <1>1, <1>2, <1>3 DEF ListNext

\* Whatever the number of processors and slots, and however their steps
\* interleave, GlobalFreeList keeps its inductive invariant when it starts from
\* new_empty.
THEOREM ListInvariant == ListSpec => []ListInv
<1>1. ListInitEmpty => ListInv
  BY InitInv
<1>2. ListInv /\ [ListNext]_listVars => ListInv'
  BY StepInv
<1> QED BY <1>1, <1>2, PTL DEF ListSpec

\* Push and pop of the free list are type correct.
THEOREM ListTypeCorrect == ListSpec => []ListTypeOK
<1>1. ListInv => ListTypeOK
  BY DEF ListInv
<1> QED BY <1>1, ListInvariant, PTL

\* The tag prevents the ABA problem: the list in memory is always the stack of
\* the successful pushes and pops.
THEOREM NoAba == ListSpec => []ListIsStack
<1>1. ListInv => ListIsStack
  BY DEF ListInv
<1> QED BY <1>1, ListInvariant, PTL

\* No slot is ever in two hands, and none is lost.
THEOREM SlotsExclusive == ListSpec => []SlotInOnePlace
<1>1. ListInv => SlotInOnePlace
  BY DEF ListInv
<1> QED BY <1>1, ListInvariant, PTL

\* The step of a successful CAS of push is the push of the abstract stack.
LEMMA PushCasIsPush ==
  ASSUME ListInv, NEW p \in Procs, PushCas(p)
  PROVE  AbstractStack!Push
<1> DEFINE e == new_head[p]
<1>1. /\ p \in Pushing /\ Pushing' = Pushing \ {p} /\ e \in Entries
      /\ stack' = <<e>> \o stack /\ UNCHANGED out
      /\ \A q \in Pushing' : new_head'[q] = new_head[q]
      /\ stack \in Seq(Entries)
  BY DEF ListInv, PushCas, EndNew, ListTypeOK, Pushing, PushSteps, PopSteps, SpentTags
<1>2. /\ Len(stack') = Len(stack) + 1 /\ stack'[1] = e
      /\ \A k \in 1 .. Len(stack') : k # 1 => stack'[k] = stack[k - 1] /\ k - 1 \in 1 .. Len(stack)
  BY <1>1, ConsFacts
<1>3. StackOfSlots' = <<Index(e)>> \o StackOfSlots
  BY <1>1, <1>2 DEF StackOfSlots
<1>4. HeldSlots' = HeldSlots \ {Index(e)} /\ Index(e) \in HeldSlots
  <2>1. Index(e) \notin out /\ \A q \in Pushing \ {p} : Index(new_head[q]) # Index(e)
    BY <1>1 DEF ListInv, SlotInOnePlace, NoSlotTwice
  <2>2. HeldSlots' = out \cup {Index(new_head[q]) : q \in Pushing \ {p}}
    BY <1>1 DEF HeldSlots
  <2> QED BY <1>1, <2>1, <2>2 DEF HeldSlots
<1> QED BY <1>3, <1>4 DEF AbstractStack!Push

\* The step of a successful CAS of pop is the pop of the abstract stack.
LEMMA PopCasIsPop ==
  ASSUME ListInv, NEW p \in Procs, PopCas(p)
  PROVE  AbstractStack!Pop
<1>1. /\ Pushing' = Pushing /\ \A q \in Pushing : new_head'[q] = new_head[q]
      /\ out' = out \cup {Index(old_head[p])}
      /\ stack' = IF Len(stack) = 0 THEN stack ELSE Tail(stack)
      /\ head = old_head[p] /\ old_head[p] \in Entries
      /\ stack \in Seq(Entries) /\ Len(stack) \in Nat
  BY DEF ListInv, PopCas, EndNew, PopExchanges, ListTypeOK, Pushing, Popping, PushSteps, PopSteps,
         SpentTags
<1>2. Len(stack) # 0 /\ stack[1] = old_head[p]
  BY <1>1 DEF ListInv, ListIsStack, Entries
<1>3. /\ Len(stack') = Len(stack) - 1
      /\ \A k \in 1 .. Len(stack') : stack'[k] = stack[k + 1] /\ k + 1 \in 1 .. Len(stack)
  BY <1>1, <1>2, TailFacts
<1>4. /\ StackOfSlots # << >> /\ Head(StackOfSlots) = Index(old_head[p])
      /\ StackOfSlots' = Tail(StackOfSlots)
  BY <1>1, <1>2, <1>3 DEF StackOfSlots
<1>5. Index(old_head[p]) \notin HeldSlots
  BY <1>1, <1>2 DEF HeldSlots, ListInv, SlotInOnePlace, NoSlotTwice
<1>6. HeldSlots' = HeldSlots \cup {Index(old_head[p])}
  BY <1>1 DEF HeldSlots
<1> QED BY <1>4, <1>5, <1>6 DEF AbstractStack!Pop

\* No other step changes the abstract stack.
LEMMA OthersStutter ==
  ASSUME ListInv, NEW p \in Procs,
         \/ PushStart(p) \/ PushLoad(p) \/ PushSetNext(p) \/ PushCasFails(p)
         \/ PopEmpty(p) \/ PopLoad(p) \/ PopNext(p) \/ PopCasFails(p)
  PROVE  UNCHANGED <<StackOfSlots, HeldSlots>>
<1>1. UNCHANGED stack
  BY DEF PushStart, PushTag, PushLoad, PushSetNext, PushCasFails, PopEmpty, PopLoad,
         PopNext, PopCasFails
<1>2. CASE PushStart(p)
  <2>1. PICK i \in out : PushTag(p, i)
    BY <1>2 DEF PushStart
  <2>2. /\ Pushing' = Pushing \cup {p} /\ p \notin Pushing /\ out' = out \ {i}
        /\ Index(new_head'[p]) = i /\ \A q \in Pushing : new_head'[q] = new_head[q]
    BY <2>1 DEF PushTag, Pushing, PushSteps, ListInv, ListTypeOK, Index
  <2>3. HeldSlots' = HeldSlots
    BY <2>1, <2>2 DEF HeldSlots
  <2> QED BY <1>1, <2>3 DEF StackOfSlots
<1>3. CASE ~PushStart(p)
  <2>1. Pushing' = Pushing /\ out' = out /\ \A q \in Pushing : new_head'[q] = new_head[q]
    BY <1>3 DEF PushLoad, PushSetNext, PushCasFails, PopEmpty, PopLoad, PopNext,
       PopCasFails, EndNew, Pushing, PushSteps, ListInv, ListTypeOK
  <2>2. HeldSlots' = HeldSlots
    BY <2>1 DEF HeldSlots
  <2> QED BY <1>1, <2>2 DEF StackOfSlots
<1> QED BY <1>2, <1>3

\* The free list implements the stack with atomic push and pop.
THEOREM ListRefinesStack == ListSpec => ImplementsStack
<1>1. ListInitEmpty => StackOfSlots = << >>
  BY DEF ListInitEmpty, StackOfSlots
<1>2. ListInv /\ [ListNext]_listVars
        => [AbstractStack!StackNext]_<<StackOfSlots, HeldSlots>>
  <2> SUFFICES ASSUME ListInv, [ListNext]_listVars
               PROVE  AbstractStack!StackNext \/ UNCHANGED <<StackOfSlots, HeldSlots>>
    OBVIOUS
  <2>1. CASE UNCHANGED listVars \/ HolderSetsNext
    BY <2>1 DEF listVars, HolderSetsNext, StackOfSlots, HeldSlots, Pushing
  <2>2. ASSUME NEW p \in Procs, PushStart(p) \/ PopEmpty(p) \/ PopLoad(p) \/ ListStep(p)
        PROVE  AbstractStack!StackNext \/ UNCHANGED <<StackOfSlots, HeldSlots>>
    BY <2>2, PushCasIsPush, PopCasIsPop, OthersStutter DEF ListStep, AbstractStack!StackNext
  <2> QED BY <2>1, <2>2 DEF ListNext
<1> QED BY <1>1, <1>2, ListInvariant, PTL
     DEF ListSpec, ImplementsStack, AbstractStack!StackSpec
=============================================================================
