-------------------------- MODULE FifoReadout_proofs --------------------------
(* The FIFO: type correctness, the order of its pointer pipelines, from    *)
(* which it follows that it never overwrites an unread word and never      *)
(* reads an unwritten slot, and that it is a bounded queue.  Its reader:   *)
(* the polling loop never reads an empty FIFO, and stores each word the    *)
(* FIFO takes once and in its turn.  All for every depth, package length   *)
(* and timing of the bus accesses.                                         *)
EXTENDS FifoReadout, TLAPS

-----------------------------------------------------------------------------
(* The FIFO, whoever reads it. *)

LEMMA AfterType == ASSUME NEW p \in Pointers PROVE After(p) \in Pointers
  BY FifoAssumption DEF After, Pointers

LEMMA SlotType == ASSUME NEW p \in Pointers PROVE Slot(p) \in Slots
  BY FifoAssumption DEF Slot, Pointers, Slots

\* The ring's distances, as far as the invariant needs them.
LEMMA DistType ==
  ASSUME NEW a \in Pointers, NEW b \in Pointers
  PROVE  Dist(a, b) \in Pointers /\ (Dist(a, b) = 0 <=> a = b)
  BY FifoAssumption DEF Dist, Pointers

LEMMA DistNat ==
  ASSUME NEW a \in Pointers, NEW b \in Pointers
  PROVE  Dist(a, b) \in Nat
  BY FifoAssumption DEF Dist, Pointers

LEMMA DistAfter ==
  ASSUME NEW p \in Pointers
  PROVE  Dist(After(p), p) = 1
  BY FifoAssumption DEF Dist, After, Pointers

LEMMA DistStep ==
  ASSUME NEW a \in Pointers, NEW b \in Pointers, a # b
  PROVE  Dist(a, After(b)) = Dist(a, b) - 1
  BY FifoAssumption DEF Dist, After, Pointers

LEMMA DistAhead ==
  ASSUME NEW a \in Pointers, NEW b \in Pointers, Dist(a, b) < Depth
  PROVE  Dist(After(a), b) = Dist(a, b) + 1
  BY FifoAssumption DEF Dist, After, Pointers

LEMMA DistSum ==
  ASSUME NEW a \in Pointers, NEW b \in Pointers, NEW c \in Pointers,
         Dist(a, b) + Dist(b, c) < 2 * Depth
  PROVE  Dist(a, c) = Dist(a, b) + Dist(b, c)
  BY FifoAssumption DEF Dist, Pointers

-----------------------------------------------------------------------------
(* Both properties need no fairness: they are proved of FifoSafe, for the  *)
(* specifications of modules that extend PulseFifo to cite.                *)

LEMMA FifoTypeSafe == FifoSafe => []FifoTypeOK
<1>1. FifoInit => FifoTypeOK
  <2>1. 0 \in Pointers
    BY FifoAssumption DEF Pointers
  <2> QED BY <2>1, Zenon DEF FifoInit, FifoTypeOK
<1>2. FifoTypeOK /\ [FifoNext]_fifoVars => FifoTypeOK'
  <2> SUFFICES ASSUME FifoTypeOK, [FifoNext]_fifoVars PROVE FifoTypeOK'
    OBVIOUS
  <2>1. CASE UNCHANGED fifoVars
    BY <2>1 DEF FifoTypeOK, fifoVars, pointers
  <2>2. CASE FifoNext
    <3>1. ram' \in [Slots -> Words] /\ wrptr' \in Pointers
      <4>1. CASE valid_wrreq
        BY <2>2, <4>1, AfterType, SlotType
        DEF FifoNext, FifoTick, WriteSide, FifoTypeOK, valid_wrreq, wrreq
      <4>2. CASE ~valid_wrreq
        BY <2>2, <4>2 DEF FifoNext, FifoTick, WriteSide, FifoTypeOK
      <4> QED BY <4>1, <4>2
    <3>2. q' \in Words /\ rdptr' \in Pointers
      <4>1. CASE valid_rdreq
        BY <2>2, <4>1, AfterType, SlotType DEF FifoNext, FifoTick, ReadSide, FifoTypeOK
      <4>2. CASE ~valid_rdreq
        BY <2>2, <4>2 DEF FifoNext, FifoTick, ReadSide, FifoTypeOK
      <4> QED BY <4>1, <4>2
    <3> QED
      BY <2>2, <3>1, <3>2, Zenon DEF FifoNext, FifoTick, Synchronize, FifoTypeOK
  <2> QED BY <2>1, <2>2
<1> QED BY <1>1, <1>2, PTL DEF FifoSafe

\* Pointers, RAM and output register keep to their ranges (dcfifo_d982.tdf).
THEOREM FifoTypeCorrect == FifoSpec => []FifoTypeOK
  BY FifoTypeSafe, PTL DEF FifoSpec

-----------------------------------------------------------------------------
LEMMA PipelineSafe == FifoSafe => []PipelineOrder
<1>1. FifoInit => PipelineOrder
  BY FifoAssumption DEF FifoInit, PipelineOrder, Dist
<1>2. FifoTypeOK /\ FifoTypeOK' /\ PipelineOrder /\ [FifoNext]_fifoVars => PipelineOrder'
  <2> SUFFICES ASSUME FifoTypeOK, FifoTypeOK', PipelineOrder, [FifoNext]_fifoVars
               PROVE  PipelineOrder'
    OBVIOUS
  <2>1. CASE UNCHANGED fifoVars
    BY <2>1 DEF PipelineOrder, fifoVars, pointers, Dist
  <2>2. CASE FifoNext
    <3>6. /\ wrptr \in Pointers /\ rdptr \in Pointers /\ delayed \in Pointers
          /\ dgwp1 \in Pointers /\ dgwp2 \in Pointers /\ dgrp1 \in Pointers
          /\ dgrp2 \in Pointers /\ wrptr' \in Pointers /\ rdptr' \in Pointers
      BY DEF FifoTypeOK
    <3>7. /\ Dist(wrptr, delayed) \in Nat /\ Dist(delayed, dgwp1) \in Nat
          /\ Dist(dgwp1, dgwp2) \in Nat /\ Dist(dgwp2, rdptr) \in Nat
          /\ Dist(rdptr, dgrp1) \in Nat /\ Dist(dgrp1, dgrp2) \in Nat
          /\ Dist(wrptr', wrptr) \in Nat /\ Dist(rdptr', rdptr) \in Nat
          /\ Dist(dgwp1, rdptr') \in Nat /\ Depth \in Nat /\ Depth > 0
      BY <3>6, DistNat, FifoAssumption, Zenon
    <3>1. /\ delayed' = wrptr /\ dgwp1' = delayed /\ dgwp2' = dgwp1
          /\ dgrp1' = rdptr /\ dgrp2' = dgrp1
      BY <2>2 DEF FifoNext, FifoTick, Synchronize
    <3>2. Dist(wrptr, dgrp2) =
              Dist(wrptr, delayed) + Dist(delayed, dgwp1) + Dist(dgwp1, dgwp2)
            + Dist(dgwp2, rdptr) + Dist(rdptr, dgrp1) + Dist(dgrp1, dgrp2)
      BY <3>6, FifoAssumption DEF PipelineOrder, Dist, Pointers
    <3>3. Dist(wrptr', wrptr) + Dist(wrptr, delayed) + Dist(delayed, dgwp1)
            + Dist(dgwp1, dgwp2) + Dist(dgwp2, rdptr) + Dist(rdptr, dgrp1) <= Depth
      <4>1. CASE wrptr' = wrptr
        <5>1. Dist(wrptr', wrptr) = 0
          BY <3>6, <4>1, DistType
        <5> QED BY <3>7, <5>1 DEF PipelineOrder
      <4>2. CASE valid_wrreq /\ wrptr' = After(wrptr)
        <5>1. Dist(wrptr, dgrp2) # Depth
          BY <4>2 DEF valid_wrreq, int_wrfull
        <5>2. Dist(wrptr', wrptr) = 1
          BY <3>6, <4>2, DistAfter
        <5> QED
          BY <3>7, <3>2, <5>1, <5>2 DEF PipelineOrder
      <4> QED BY <2>2, <4>1, <4>2 DEF FifoNext, FifoTick, WriteSide
    <3>4. Dist(dgwp1, rdptr') + Dist(rdptr', rdptr) = Dist(dgwp1, dgwp2) + Dist(dgwp2, rdptr)
      <4>1. Dist(dgwp1, rdptr) = Dist(dgwp1, dgwp2) + Dist(dgwp2, rdptr)
        <5>1. Dist(dgwp1, dgwp2) + Dist(dgwp2, rdptr) < 2 * Depth
          BY <3>7 DEF PipelineOrder
        <5> QED BY <3>6, <5>1, DistSum
      <4>2. CASE rdptr' = rdptr
        BY <3>6, <4>1, <4>2, DistType DEF Pointers
      <4>3. CASE valid_rdreq /\ rdptr' = After(rdptr)
        <5>1. Dist(dgwp2, rdptr) # 0
          BY <3>6, <4>3, DistType DEF valid_rdreq, rdempty
        <5>2. Dist(dgwp1, rdptr) # 0
          BY <3>6, <4>1, <5>1, DistType DEF Pointers
        <5>3. dgwp1 # rdptr
          BY <3>6, <5>2, DistType
        <5>4. Dist(dgwp1, rdptr') = Dist(dgwp1, rdptr) - 1
          BY <3>6, <4>3, <5>3, DistStep
        <5>5. Dist(rdptr', rdptr) = 1
          BY <3>6, <4>3, DistAfter
        <5> QED BY <3>6, <4>1, <5>4, <5>5, DistType DEF Pointers
      <4> QED BY <2>2, <4>2, <4>3 DEF FifoNext, FifoTick, ReadSide
    <3>5. Dist(wrptr', wrptr) + Dist(wrptr, delayed) + Dist(delayed, dgwp1)
            + Dist(dgwp1, rdptr') + Dist(rdptr', rdptr) + Dist(rdptr, dgrp1) <= Depth
      BY <3>7, <3>3, <3>4
    <3> QED BY <3>1, <3>5 DEF PipelineOrder, Dist
  <2> QED BY <2>1, <2>2
<1> QED BY <1>1, <1>2, FifoTypeSafe, PTL DEF FifoSafe

\* The pipelines stay in order round the ring and within Depth of the
\* writer.  It is inductive by itself: the full comparator tests exactly its
\* bound, the empty comparator exactly the place where the reader would pass
\* the writer's oldest copy.
THEOREM PipelineOrdered == FifoSpec => []PipelineOrder
  BY PipelineSafe, PTL DEF FifoSpec

-----------------------------------------------------------------------------
(* The bounded queue. *)

\* The slot of the k-th word from pointer p on, counted from 0.
At(p, k) == Slot(Wrap(p + k))

LEMMA AtType ==
  ASSUME NEW p \in Pointers, NEW k \in 0 .. Depth
  PROVE  At(p, k) \in Slots
  BY FifoAssumption DEF At, Wrap, Slot, Slots, Pointers

LEMMA AtFirst ==
  ASSUME NEW p \in Pointers
  PROVE  At(p, 0) = Slot(p)
  BY FifoAssumption DEF At, Wrap, Pointers

LEMMA AtAfter ==
  ASSUME NEW p \in Pointers, NEW k \in 0 .. Depth
  PROVE  At(After(p), k) = At(p, k + 1)
  BY FifoAssumption DEF At, Wrap, Slot, After, Pointers

LEMMA AtEnd ==
  ASSUME NEW a \in Pointers, NEW b \in Pointers
  PROVE  At(b, Dist(a, b)) = Slot(a)
  BY FifoAssumption DEF At, Wrap, Slot, Dist, Pointers

\* Less than Depth words from one pointer on have slots of their own.
LEMMA AtDistinct ==
  ASSUME NEW p \in Pointers, NEW n \in 0 .. Depth - 1, NEW k \in 0 .. n - 1
  PROVE  At(p, k) # At(p, n)
  BY FifoAssumption DEF At, Wrap, Slot, Pointers

LEMMA EmptySeq ==
  ASSUME NEW S, NEW s \in Seq(S), Len(s) = 0
  PROVE  s = <<>>
  OBVIOUS

LEMMA SameSeq ==
  ASSUME NEW S, NEW s \in Seq(S), NEW r \in Seq(S), Len(s) = Len(r),
         \A k \in 1 .. Len(s) : s[k] = r[k]
  PROVE  s = r
  OBVIOUS

LEMMA AppendFacts ==
  ASSUME NEW S, NEW s \in Seq(S), NEW e \in S
  PROVE  /\ Append(s, e) \in Seq(S)
         /\ Len(s) \in Nat /\ Len(Append(s, e)) = Len(s) + 1
         /\ \A k \in 1 .. Len(s) : Append(s, e)[k] = s[k]
         /\ Append(s, e)[Len(s) + 1] = e
  OBVIOUS

LEMMA TailFacts ==
  ASSUME NEW S, NEW s \in Seq(S), s # <<>>
  PROVE  /\ Head(s) \in S /\ Head(s) = s[1]
         /\ Tail(s) \in Seq(S)
         /\ Len(s) \in Nat \ {0} /\ Len(Tail(s)) = Len(s) - 1
         /\ \A k \in 1 .. Len(s) - 1 : Tail(s)[k] = s[k + 1]
  OBVIOUS

LEMMA FunctionIsSeq ==
  ASSUME NEW S, NEW n \in Nat, NEW f \in [1 .. n -> S]
  PROVE  f \in Seq(S) /\ Len(f) = n
  OBVIOUS

Count == Dist(wrptr, rdptr)

\* What the pipelines tell of the number of words.
CountBounds ==
  /\ Count \in 0 .. Depth
  /\ Count + Dist(rdptr, dgrp1) + Dist(dgrp1, dgrp2) = Dist(wrptr, dgrp2)
  /\ Dist(wrptr, dgrp2) <= Depth
  /\ ~rdempty => Count > 0

LEMMA CountFacts == FifoTypeOK /\ PipelineOrder => CountBounds
<1> SUFFICES ASSUME FifoTypeOK, PipelineOrder PROVE CountBounds
  OBVIOUS
<1>1. /\ wrptr \in Pointers /\ rdptr \in Pointers /\ delayed \in Pointers
      /\ dgwp1 \in Pointers /\ dgwp2 \in Pointers /\ dgrp1 \in Pointers
      /\ dgrp2 \in Pointers
  BY DEF FifoTypeOK
<1>2. /\ Dist(wrptr, delayed) \in Nat /\ Dist(delayed, dgwp1) \in Nat
      /\ Dist(dgwp1, dgwp2) \in Nat /\ Dist(dgwp2, rdptr) \in Nat
      /\ Dist(rdptr, dgrp1) \in Nat /\ Dist(dgrp1, dgrp2) \in Nat
      /\ Depth \in Nat /\ Depth > 0
  BY <1>1, DistNat, FifoAssumption, Zenon
<1>3. Dist(wrptr, rdptr) = Dist(wrptr, delayed) + Dist(delayed, dgwp1)
                           + Dist(dgwp1, dgwp2) + Dist(dgwp2, rdptr)
  BY <1>1, FifoAssumption DEF PipelineOrder, Dist, Pointers
<1>4. Dist(wrptr, dgrp2) =
          Dist(wrptr, delayed) + Dist(delayed, dgwp1) + Dist(dgwp1, dgwp2)
        + Dist(dgwp2, rdptr) + Dist(rdptr, dgrp1) + Dist(dgrp1, dgrp2)
  BY <1>1, FifoAssumption DEF PipelineOrder, Dist, Pointers
<1>5. ~rdempty => Dist(dgwp2, rdptr) > 0
  <2>1. Dist(dgwp2, rdptr) = 0 <=> dgwp2 = rdptr
    BY <1>1, DistType
  <2> QED BY <1>2, <2>1 DEF rdempty
<1> QED BY <1>2, <1>3, <1>4, <1>5 DEF PipelineOrder, Count, CountBounds

ContentIsRam ==
  /\ Content \in Seq(Words) /\ Len(Content) = Count
  /\ \A k \in 1 .. Count : Content[k] = ram[At(rdptr, k - 1)]

LEMMA ContentFacts == FifoTypeOK /\ Count \in 0 .. Depth => ContentIsRam
<1> SUFFICES ASSUME FifoTypeOK, Count \in 0 .. Depth PROVE ContentIsRam
  OBVIOUS
<1>1. /\ rdptr \in Pointers /\ ram \in [Slots -> Words] /\ Depth \in Nat /\ Count \in Nat
  BY FifoAssumption DEF FifoTypeOK
<1>2. Content = [k \in 1 .. Count |-> ram[Slot(Wrap(rdptr + k - 1))]]
  BY Zenon DEF Content, Count
<1>3. ASSUME NEW k \in 1 .. Count
      PROVE  /\ ram[Slot(Wrap(rdptr + k - 1))] \in Words
             /\ ram[Slot(Wrap(rdptr + k - 1))] = ram[At(rdptr, k - 1)]
  <2>1. k - 1 \in 0 .. Depth /\ rdptr + k - 1 = rdptr + (k - 1)
    BY <1>1 DEF Pointers
  <2>2. At(rdptr, k - 1) \in Slots
    BY <1>1, <2>1, AtType
  <2> QED BY <1>1, <2>1, <2>2 DEF At
<1>4. Content \in [1 .. Count -> Words]
  BY <1>2, <1>3
<1>5. Content \in Seq(Words) /\ Len(Content) = Count
  BY <1>1, <1>4, FunctionIsSeq
<1> QED BY <1>2, <1>3, <1>5 DEF ContentIsRam

\* One tick of the queue: what is read is its head, what is written goes to
\* its end, and there is room for it.
LEMMA ContentStep ==
  ASSUME FifoTypeOK, FifoTypeOK', PipelineOrder, PipelineOrder', FifoTick
  PROVE  LET rest == IF valid_rdreq THEN Tail(Content) ELSE Content IN
         /\ Content \in Seq(Words)
         /\ valid_rdreq => Content # <<>> /\ q' = Head(Content)
         /\ ~valid_rdreq => q' = q
         /\ valid_wrreq => Len(Content) < Depth /\ Content' = Append(rest, data)
         /\ ~valid_wrreq => Content' = rest
<1> DEFINE rest == IF valid_rdreq THEN Tail(Content) ELSE Content
           n == IF valid_rdreq THEN Count - 1 ELSE Count
           m == IF valid_wrreq THEN n + 1 ELSE n
<1>1. /\ Count \in 0 .. Depth /\ Count' \in 0 .. Depth
      /\ Dist(wrptr, dgrp2) <= Depth /\ Count <= Dist(wrptr, dgrp2)
      /\ ~rdempty => Count > 0
      /\ Depth \in Nat /\ Depth > 0
  <2>1. /\ Count \in 0 .. Depth /\ Dist(wrptr, dgrp2) <= Depth
        /\ Count + Dist(rdptr, dgrp1) + Dist(dgrp1, dgrp2) = Dist(wrptr, dgrp2)
        /\ ~rdempty => Count > 0
    BY CountFacts DEF CountBounds
  <2>2. Count' \in 0 .. Depth
    <3>1. CountBounds'
      BY CountFacts, PTL
    <3> QED BY <3>1 DEF CountBounds
  <2>3. Dist(rdptr, dgrp1) \in Nat /\ Dist(dgrp1, dgrp2) \in Nat
    BY DistNat DEF FifoTypeOK
  <2> QED BY <2>1, <2>2, <2>3, FifoAssumption
<1>2. /\ wrptr \in Pointers /\ rdptr \in Pointers /\ dgrp2 \in Pointers
      /\ wrptr' \in Pointers /\ rdptr' \in Pointers
      /\ ram \in [Slots -> Words]
  BY DEF FifoTypeOK
<1>3. /\ Content \in Seq(Words) /\ Len(Content) = Count
      /\ \A k \in 1 .. Count : Content[k] = ram[At(rdptr, k - 1)]
  BY <1>1, ContentFacts DEF ContentIsRam
<1>4. /\ Content' \in Seq(Words) /\ Len(Content') = Count'
      /\ \A k \in 1 .. Count' : Content'[k] = ram'[At(rdptr', k - 1)]
  <2>1. (FifoTypeOK /\ Count \in 0 .. Depth => ContentIsRam)'
    BY ContentFacts, PTL
  <2> QED BY <1>1, <2>1 DEF ContentIsRam, At, Slot, Wrap
<1>5. valid_rdreq => Count > 0 /\ Content # <<>> /\ q' = Head(Content)
  <2> SUFFICES ASSUME valid_rdreq PROVE Count > 0 /\ Content # <<>> /\ q' = Head(Content)
    OBVIOUS
  <2>1. Count > 0
    BY <1>1 DEF valid_rdreq
  <2>2. Content # <<>>
    BY <1>1, <1>3, <2>1
  <2>3. Head(Content) = ram[At(rdptr, 0)]
    BY <1>1, <1>3, <2>1, <2>2, TailFacts
  <2>4. q' = ram[Slot(rdptr)]
    BY DEF FifoTick, ReadSide
  <2> QED BY <1>2, <2>1, <2>2, <2>3, <2>4, AtFirst
<1>6. ~valid_rdreq => q' = q
  BY DEF FifoTick, ReadSide
<1>7. valid_wrreq => Count < Depth /\ data \in Words
  <2>1. valid_wrreq => data \in Words /\ Dist(wrptr, dgrp2) # Depth
    BY DEF valid_wrreq, int_wrfull, wrreq, FifoTypeOK
  <2>2. Dist(wrptr, dgrp2) \in Nat
    BY <1>2, DistNat
  <2> QED BY <1>1, <2>1, <2>2
\* The rest, and the words of it where the read pointer will be.
<1>8. /\ n \in 0 .. Depth /\ (valid_wrreq => n \in 0 .. Depth - 1)
      /\ rest \in Seq(Words) /\ Len(rest) = n
      /\ \A k \in 1 .. n : rest[k] = ram[At(rdptr', k - 1)]
      /\ Dist(wrptr, rdptr') = n
  <2>1. CASE valid_rdreq
    <3>1. rdptr' = After(rdptr)
      BY <2>1 DEF FifoTick, ReadSide
    <3>2. /\ rest \in Seq(Words) /\ Len(rest) = Count - 1
          /\ \A k \in 1 .. Count - 1 : rest[k] = Content[k + 1]
      BY <1>3, <1>5, <2>1, TailFacts
    <3>3. ASSUME NEW k \in 1 .. Count - 1 PROVE rest[k] = ram[At(rdptr', k - 1)]
      <4>1. rest[k] = ram[At(rdptr, (k + 1) - 1)]
        BY <1>1, <1>3, <3>2
      <4>2. k - 1 \in 0 .. Depth /\ (k + 1) - 1 = (k - 1) + 1
        BY <1>1
      <4>3. At(rdptr', k - 1) = At(rdptr, (k - 1) + 1)
        BY <1>2, <3>1, <4>2, AtAfter
      <4> QED BY <4>1, <4>2, <4>3
    <3>4. Dist(wrptr, rdptr') = Count - 1
      <4>1. wrptr # rdptr
        BY <1>2, <1>5, <2>1, DistType DEF Count
      <4> QED BY <1>2, <3>1, <4>1, DistStep DEF Count
    <3> QED BY <1>1, <1>5, <1>7, <2>1, <3>2, <3>3, <3>4
  <2>2. CASE ~valid_rdreq
    <3>1. rdptr' = rdptr
      BY <2>2 DEF FifoTick, ReadSide
    <3> QED BY <1>1, <1>3, <1>7, <2>2, <3>1 DEF Count
  <2> QED BY <2>1, <2>2
<1>9. CASE valid_wrreq
  <2>1. wrptr' = After(wrptr) /\ ram' = [ram EXCEPT ![Slot(wrptr)] = data]
    BY <1>9 DEF FifoTick, WriteSide
  <2>2. /\ Append(rest, data) \in Seq(Words) /\ Len(Append(rest, data)) = n + 1
        /\ \A k \in 1 .. n : Append(rest, data)[k] = rest[k]
        /\ Append(rest, data)[n + 1] = data
    <3> HIDE DEF rest, n
    <3> QED BY <1>7, <1>8, <1>9, AppendFacts
  <2>3. Count' = n + 1
    <3> HIDE DEF n
    <3>1. Dist(wrptr, rdptr') < Depth
      BY <1>1, <1>8, <1>9
    <3>2. Dist(After(wrptr), rdptr') = Dist(wrptr, rdptr') + 1
      BY <1>2, <3>1, DistAhead
    <3> QED BY <1>8, <2>1, <3>2 DEF Count
  <2>4. Slot(wrptr) = At(rdptr', n)
    BY <1>2, <1>8, AtEnd
  <2>5. Slot(wrptr) \in Slots
    BY <1>2, SlotType
  <2>6. ASSUME NEW k \in 1 .. n + 1
        PROVE  Content'[k] = Append(rest, data)[k]
    <3> HIDE DEF rest, n
    <3>1. Content'[k] = ram'[At(rdptr', k - 1)]
      BY <1>4, <2>3
    <3>2. CASE k = n + 1
      <4>1. ram'[At(rdptr', n)] = data
        BY <1>2, <2>1, <2>4, <2>5
      <4>2. k - 1 = n
        BY <1>8, <3>2
      <4> QED BY <2>2, <3>1, <3>2, <4>1, <4>2
    <3>3. CASE k \in 1 .. n
      <4>1. /\ k - 1 \in 0 .. n - 1 /\ n \in 0 .. Depth - 1
        BY <1>1, <1>8, <1>9, <3>3
      <4>2. At(rdptr', k - 1) # At(rdptr', n)
        BY <1>2, <4>1, AtDistinct
      <4>3. At(rdptr', k - 1) \in Slots
        <5>1. k - 1 \in 0 .. Depth
          BY <1>1, <4>1
        <5> QED BY <1>2, <5>1, AtType
      <4>4. ram'[At(rdptr', k - 1)] = ram[At(rdptr', k - 1)]
        BY <1>2, <2>1, <2>4, <4>2, <4>3
      <4> QED BY <1>8, <2>2, <3>1, <3>3, <4>4
    <3> QED BY <1>8, <3>2, <3>3
  <2>7. Content' = Append(rest, data)
    <3> HIDE DEF rest, n
    <3>1. Len(Content') = Len(Append(rest, data)) /\ Len(Content') = n + 1
      BY <1>4, <2>2, <2>3
    <3> QED BY <1>4, <2>2, <2>6, <3>1, SameSeq
  <2> QED BY <1>1, <1>3, <1>5, <1>6, <1>7, <1>9, <2>7
<1>10. CASE ~valid_wrreq
  <2>1. wrptr' = wrptr /\ ram' = ram
    BY <1>10 DEF FifoTick, WriteSide
  <2>2. Count' = n
    BY <1>8, <2>1 DEF Count
  <2>3. ASSUME NEW k \in 1 .. n PROVE Content'[k] = rest[k]
    <3> HIDE DEF rest, n
    <3> QED BY <1>4, <1>8, <2>1, <2>2
  <2>4. Content' = rest
    <3> HIDE DEF rest, n
    <3>1. Len(Content') = Len(rest) /\ Len(Content') = n
      BY <1>4, <1>8, <2>2
    <3> QED BY <1>4, <1>8, <2>3, <3>1, SameSeq
  <2> QED BY <1>3, <1>5, <1>6, <1>10, <2>4
<1> QED BY <1>9, <1>10

\* The writer's copy of the read pointer is at most two words old.
ReadLag == Dist(rdptr, dgrp1) <= 1 /\ Dist(dgrp1, dgrp2) <= 1

LEMMA KeepsReadLag == FifoTypeOK /\ ReadLag /\ [FifoNext]_fifoVars => ReadLag'
<1> SUFFICES ASSUME FifoTypeOK, ReadLag, [FifoNext]_fifoVars PROVE ReadLag'
  OBVIOUS
<1>1. CASE UNCHANGED fifoVars
  BY <1>1 DEF ReadLag, fifoVars, pointers, Dist
<1>2. CASE FifoNext
  <2>1. rdptr \in Pointers
    BY DEF FifoTypeOK
  <2>2. rdptr' = rdptr \/ rdptr' = After(rdptr)
    BY <1>2 DEF FifoNext, FifoTick, ReadSide
  <2>3. Dist(rdptr', rdptr) <= 1
    <3>1. Dist(rdptr, rdptr) = 0
      BY <2>1, DistType
    <3>2. Dist(After(rdptr), rdptr) = 1
      BY <2>1, DistAfter
    <3> QED BY <2>2, <3>1, <3>2
  <2>4. dgrp1' = rdptr /\ dgrp2' = dgrp1
    BY <1>2 DEF FifoNext, FifoTick, Synchronize
  <2> QED BY <2>3, <2>4 DEF ReadLag, Dist
<1> QED BY <1>1, <1>2

\* A word is refused only within three words of full.
LEMMA RefusedNearFull ==
  ASSUME FifoTypeOK, PipelineOrder, ReadLag, int_wrfull
  PROVE  Count + 2 >= Depth
<1>1. Count + Dist(rdptr, dgrp1) + Dist(dgrp1, dgrp2) = Depth
  BY CountFacts DEF CountBounds, int_wrfull
<1>2. Count \in Nat
  BY CountFacts DEF CountBounds
<1>3. Dist(rdptr, dgrp1) \in Nat /\ Dist(dgrp1, dgrp2) \in Nat
  BY DistNat DEF FifoTypeOK
<1> QED BY <1>1, <1>2, <1>3, FifoAssumption DEF ReadLag

\* The FIFO is a bounded queue for every depth, whoever writes and reads.
\* Slack is what the two registers of ws_dgrp cost the writer.
THEOREM FifoIsQueue ==
  ASSUME Slack \in Nat, Slack >= 3
  PROVE  FifoSafe => ImplementsQueue
<1>1. FifoInit /\ FifoTypeOK /\ PipelineOrder => Queue!SQInit
  <2> SUFFICES ASSUME FifoInit, FifoTypeOK, PipelineOrder PROVE Queue!SQInit
    OBVIOUS
  <2>1. wrptr = rdptr /\ wrptr \in Pointers
    BY DEF FifoInit, FifoTypeOK
  <2>2. Count = 0
    BY <2>1, DistType DEF Count
  <2>3. Count \in 0 .. Depth
    BY CountFacts DEF CountBounds
  <2>4. Content \in Seq(Words) /\ Len(Content) = 0
    BY <2>2, <2>3, ContentFacts DEF ContentIsRam
  <2>5. Content = <<>>
    BY <2>4, EmptySeq
  <2> QED BY <2>5 DEF Queue!SQInit, FifoInit
<1>2. FifoInit => ReadLag
  <2> SUFFICES ASSUME FifoInit PROVE ReadLag
    OBVIOUS
  <2>1. 0 \in Pointers
    BY FifoAssumption DEF Pointers
  <2>2. Dist(0, 0) = 0
    BY <2>1, DistType
  <2> QED BY <2>2 DEF FifoInit, ReadLag
<1>3. /\ FifoTypeOK /\ FifoTypeOK' /\ PipelineOrder /\ PipelineOrder' /\ ReadLag
      /\ [FifoNext]_fifoVars
      => [Queue!SQNext]_(Queue!sqVars)
  <2> SUFFICES ASSUME FifoTypeOK, FifoTypeOK', PipelineOrder, PipelineOrder', ReadLag,
                      [FifoNext]_fifoVars
               PROVE  [Queue!SQNext]_(Queue!sqVars)
    OBVIOUS
  <2>1. CASE UNCHANGED fifoVars
    BY <2>1 DEF fifoVars, pointers, Queue!sqVars, Content, Dist, Slot, Wrap
  <2>2. CASE FifoNext
    <3> DEFINE rest == IF valid_rdreq THEN Tail(Content) ELSE Content
    <3>1. FifoTick /\ data' \in Words \cup {NoWord} /\ rdreq' \in BOOLEAN
      BY <2>2 DEF FifoNext
    <3>2. /\ Content \in Seq(Words)
          /\ valid_rdreq => Content # <<>> /\ q' = Head(Content)
          /\ ~valid_rdreq => q' = q
          /\ valid_wrreq => Len(Content) < Depth /\ Content' = Append(rest, data)
          /\ ~valid_wrreq => Content' = rest
      BY <3>1, ContentStep
    <3>3. Queue!Put(rest)
      <4>1. CASE valid_wrreq
        BY <3>2, <4>1 DEF Queue!Put, Queue!Stored, valid_wrreq, wrreq
      <4>2. CASE ~valid_wrreq
        <5>1. Len(Content) = Count /\ Count \in Nat
          BY CountFacts, ContentFacts DEF CountBounds, ContentIsRam
        <5>2. data # NoWord => Len(Content) + Slack > Depth
          BY <4>2, <5>1, RefusedNearFull, FifoAssumption DEF valid_wrreq, wrreq
        <5> QED BY <3>2, <4>2, <5>2 DEF Queue!Put, Queue!NotStored
      <4> QED BY <4>1, <4>2
    <3>4. Queue!Get \/ Queue!NoGet
      <4>1. CASE valid_rdreq
        BY <3>2, <3>3, <4>1 DEF Queue!Get, valid_rdreq
      <4>2. CASE ~valid_rdreq
        BY <3>2, <3>3, <4>2 DEF Queue!NoGet
      <4> QED BY <4>1, <4>2
    <3> QED BY <3>1, <3>4 DEF Queue!SQNext
  <2> QED BY <2>1, <2>2
<1>4. FifoTypeOK /\ ReadLag /\ [FifoNext]_fifoVars => ReadLag'
  BY KeepsReadLag
<1>5. FifoSafe => []FifoTypeOK /\ []PipelineOrder
  BY FifoTypeSafe, PipelineSafe
<1> QED
  BY <1>1, <1>2, <1>3, <1>4, <1>5, PTL DEF FifoSafe, ImplementsQueue, Queue!SQSpec

-----------------------------------------------------------------------------
(* The polling loop. *)

\* The status may be late, but only reset and a read can make it wrong: it is
\* right again before it is polled, and what it said stays so until the read.
StatusTrue == pc \notin {"store", "done"} /\ ~status_empty_q => ~rdempty
TestTrue == pc = "test" /\ ~readdata => ~rdempty
ReadTrue == pc = "read" => ~rdempty
ReadOnly == rdreq => pc = "read"
Trusted == pc # "absent" => StatusTrue /\ TestTrue /\ ReadTrue /\ ReadOnly

\* A FIFO that shows a word shows one until it is read: the reader's copy of
\* the write pointer only moves on.
LEMMA NotEmptyStays ==
  ASSUME FifoTypeOK, PipelineOrder, FifoTick, ~rdreq, ~rdempty
  PROVE  ~rdempty'
<1>1. rdptr' = rdptr /\ dgwp2' = dgwp1
  BY DEF FifoTick, ReadSide, valid_rdreq, Synchronize
<1>2. /\ dgwp1 \in Pointers /\ dgwp2 \in Pointers /\ rdptr \in Pointers
      /\ wrptr \in Pointers /\ delayed \in Pointers
      /\ dgrp1 \in Pointers /\ dgrp2 \in Pointers
  BY DEF FifoTypeOK
<1>3. /\ Dist(wrptr, delayed) \in Nat /\ Dist(delayed, dgwp1) \in Nat
      /\ Dist(dgwp1, dgwp2) \in Nat /\ Dist(dgwp2, rdptr) \in Nat
      /\ Dist(rdptr, dgrp1) \in Nat /\ Dist(dgrp1, dgrp2) \in Nat
      /\ Dist(dgwp1, rdptr) \in Nat /\ Depth \in Nat /\ Depth > 0
  BY <1>2, DistNat, FifoAssumption, Zenon
<1>4. Dist(dgwp1, rdptr) = Dist(dgwp1, dgwp2) + Dist(dgwp2, rdptr)
  <2>1. Dist(dgwp1, dgwp2) + Dist(dgwp2, rdptr) < 2 * Depth
    BY <1>3 DEF PipelineOrder
  <2> QED BY <1>2, <2>1, DistSum
<1>5. Dist(dgwp2, rdptr) # 0
  BY <1>2, DistType DEF rdempty
<1>6. dgwp1 # rdptr
  BY <1>2, <1>3, <1>4, <1>5, DistType
<1> QED BY <1>1, <1>6 DEF rdempty

LEMMA KeepsTrusted ==
  ASSUME FifoTypeOK, PipelineOrder, Trusted, [ReadoutNext]_readoutVars
  PROVE  Trusted'
<1>1. CASE UNCHANGED readoutVars
  BY <1>1, Zenon DEF Trusted, StatusTrue, TestTrue, ReadTrue, ReadOnly, rdempty,
     readoutVars, fifoVars, pointers, cpuVars
<1>2. CASE ReadoutNext
  <2>0. CASE pc = "absent"
    BY <1>2, <2>0, Zenon DEF ReadoutNext, Working, ReadStatus, NotEmpty, Empty, ReadData,
       Store, NextPackage, Elsewhere, Absent, cpuVars, Trusted
  <2> SUFFICES ASSUME pc # "absent" PROVE Trusted'
    BY <2>0
  <2>1. FifoTick /\ status_empty_q' = rdempty
    BY <1>2 DEF ReadoutNext, Working, Hardware, StatusRegister
  <2>2. pc # "read" /\ ~rdempty => ~rdempty'
    BY <2>1, NotEmptyStays DEF Trusted, ReadOnly
  <2>3. CASE ReadStatus
    <3>1. ~status_empty_q => ~rdempty'
      BY <2>2, <2>3 DEF ReadStatus, Trusted, StatusTrue
    <3> QED
      BY <2>1, <2>2, <2>3, <3>1
      DEF ReadStatus, Trusted, StatusTrue, TestTrue, ReadTrue, ReadOnly
  <2>4. CASE NotEmpty
    BY <2>1, <2>2, <2>4 DEF NotEmpty, Trusted, StatusTrue, TestTrue, ReadTrue, ReadOnly
  <2>5. CASE Empty
    BY <2>1, <2>2, <2>5 DEF Empty, Trusted, StatusTrue, TestTrue, ReadTrue, ReadOnly
  <2>6. CASE ReadData
    BY <2>6 DEF ReadData, Trusted, StatusTrue, TestTrue, ReadTrue, ReadOnly
  <2>7. CASE Store
    BY <2>1, <2>2, <2>7 DEF Store, Trusted, StatusTrue, TestTrue, ReadTrue, ReadOnly
  <2>8. CASE NextPackage
    BY <2>1, <2>2, <2>8 DEF NextPackage, Trusted, StatusTrue, TestTrue, ReadTrue, ReadOnly
  <2>9. CASE Elsewhere
    BY <2>1, <2>2, <2>9
    DEF Elsewhere, cpuVars, Trusted, StatusTrue, TestTrue, ReadTrue, ReadOnly
  <2> QED
    BY <1>2, <2>3, <2>4, <2>5, <2>6, <2>7, <2>8, <2>9, Zenon DEF ReadoutNext, Working,
       Absent
<1> QED BY <1>1, <1>2

\* The registered, late status never leads the loop to read an empty FIFO
\* (main.c:80-84).
THEOREM NeverUnderflows == ReadoutSpec => []NoUnderflow
<1>1. ReadoutInit => FifoInit /\ Trusted
  BY Zenon DEF ReadoutInit, FifoInit, Trusted, StatusTrue, TestTrue, ReadTrue, ReadOnly
<1>2. [ReadoutNext]_readoutVars => [FifoNext]_fifoVars
  <2>1. ReadoutNext => FifoNext
    BY Zenon DEF ReadoutNext, Working, Hardware, ReadStatus, NotEmpty, Empty, ReadData,
       Store, NextPackage, Elsewhere, Absent, FifoNext
  <2> QED BY <2>1 DEF readoutVars
<1>3. ReadoutSpec => FifoSafe
  BY <1>1, <1>2, PTL DEF ReadoutSpec, FifoSafe
<1>4. FifoTypeOK /\ PipelineOrder /\ Trusted /\ [ReadoutNext]_readoutVars => Trusted'
  BY KeepsTrusted
<1>5. Trusted => NoUnderflow
  BY DEF Trusted, ReadTrue, ReadOnly, NoUnderflow
<1> QED
  BY <1>1, <1>3, <1>4, <1>5, FifoTypeSafe, PipelineSafe, PTL DEF ReadoutSpec

-----------------------------------------------------------------------------
(* What the loop stores is what the FIFO took. *)

\* Outside the store the words not yet in data[] are those in the FIFO; at
\* the store the output register holds one more, the next.
Held ==
  IF pc = "store"
  THEN unread # <<>> /\ q = Head(unread) /\ Content = Tail(unread)
  ELSE unread = Content
Asked == pc = "read" => rdreq
Accounted == pc # "absent" => unread \in Seq(Words) /\ Held /\ Asked

LEMMA AppendToMore ==
  ASSUME NEW S, NEW s \in Seq(S), s # <<>>, NEW e \in S
  PROVE  /\ Append(s, e) # <<>>
         /\ Head(Append(s, e)) = Head(s)
         /\ Tail(Append(s, e)) = Append(Tail(s), e)
<1>1. /\ Append(s, e) \in Seq(S) /\ Len(Append(s, e)) = Len(s) + 1
      /\ Len(s) \in Nat \ {0} /\ Tail(s) \in Seq(S)
      /\ Append(s, e)[1] = s[1] /\ Head(s) = s[1]
  BY AppendFacts, TailFacts
<1>2. Append(s, e) # <<>>
  BY <1>1
<1>3. Head(Append(s, e)) = Head(s)
  BY <1>1, <1>2, TailFacts
<1>4. Tail(Append(s, e)) = Append(Tail(s), e)
  <2>1. /\ Tail(Append(s, e)) \in Seq(S) /\ Len(Tail(Append(s, e))) = Len(s)
        /\ \A k \in 1 .. Len(s) : Tail(Append(s, e))[k] = Append(s, e)[k + 1]
    BY <1>1, <1>2, TailFacts
  <2>2. /\ Append(Tail(s), e) \in Seq(S) /\ Len(Append(Tail(s), e)) = Len(s)
        /\ \A k \in 1 .. Len(s) - 1 : Append(Tail(s), e)[k] = s[k + 1]
        /\ Append(Tail(s), e)[Len(s)] = e
    BY <1>1, AppendFacts, TailFacts
  <2>3. /\ \A k \in 1 .. Len(s) : Append(s, e)[k] = s[k]
        /\ Append(s, e)[Len(s) + 1] = e
    BY AppendFacts
  <2>4. ASSUME NEW k \in 1 .. Len(s)
        PROVE  Tail(Append(s, e))[k] = Append(Tail(s), e)[k]
    <3>1. CASE k = Len(s)
      BY <2>1, <2>2, <2>3, <3>1
    <3>2. CASE k # Len(s)
      <4>1. k \in 1 .. Len(s) - 1 /\ k + 1 \in 1 .. Len(s)
        BY <1>1, <3>2
      <4> QED BY <2>1, <2>2, <2>3, <4>1
    <3> QED BY <3>1, <3>2
  <2> QED BY <2>1, <2>2, <2>4, SameSeq
<1> QED BY <1>2, <1>3, <1>4

LEMMA KeepsAccounted ==
  ASSUME FifoTypeOK, FifoTypeOK', PipelineOrder, PipelineOrder', Trusted, Accounted,
         [ReadoutNext]_readoutVars
  PROVE  Accounted'
<1>1. CASE UNCHANGED readoutVars
  BY <1>1 DEF readoutVars, fifoVars, pointers, cpuVars, Accounted, Held, Asked, Content,
     Dist, Slot, Wrap
<1>2. CASE ReadoutNext
  <2>0. CASE pc = "absent"
    BY <1>2, <2>0, Zenon DEF ReadoutNext, Working, ReadStatus, NotEmpty, Empty, ReadData,
       Store, NextPackage, Elsewhere, Absent, cpuVars, Accounted
  <2> SUFFICES ASSUME pc # "absent" PROVE Accounted'
    BY <2>0
  <2>1. FifoTick
    BY <1>2 DEF ReadoutNext, Working, Hardware
  <2> DEFINE rest == IF valid_rdreq THEN Tail(Content) ELSE Content
  <2>2. /\ Content \in Seq(Words)
        /\ valid_rdreq => Content # <<>> /\ q' = Head(Content)
        /\ ~valid_rdreq => q' = q
        /\ valid_wrreq => Len(Content) < Depth /\ Content' = Append(rest, data)
        /\ ~valid_wrreq => Content' = rest
    BY <2>1, ContentStep
  <2>3. valid_wrreq => data \in Words
    BY DEF valid_wrreq, wrreq, FifoTypeOK
  <2>4. unread \in Seq(Words) /\ Held /\ Asked
    BY DEF Accounted
  <2>5. valid_rdreq <=> pc = "read"
    BY <2>4 DEF valid_rdreq, Asked, Trusted, ReadTrue, ReadOnly
  <2>6. CASE pc = "read" \* the word leaves the FIFO for the output register
    <3>1. ReadData /\ Watch(unread)
      BY <1>2, <2>6 DEF ReadoutNext, Working, ReadStatus, NotEmpty, Empty, Store,
         NextPackage, Elsewhere, Absent
    <3>2. unread = Content /\ Content # <<>> /\ q' = Head(Content) /\ rest = Tail(Content)
      BY <2>2, <2>4, <2>5, <2>6 DEF Held
    <3>3. CASE valid_wrreq
      <4>1. unread' = Append(Content, data) /\ Content' = Append(Tail(Content), data)
        BY <2>2, <3>1, <3>2, <3>3 DEF Watch
      <4>2. /\ unread' # <<>> /\ Head(unread') = q' /\ Tail(unread') = Content'
            /\ unread' \in Seq(Words)
        BY <2>2, <2>3, <3>2, <3>3, <4>1, AppendToMore, AppendFacts
      <4> QED BY <3>1, <4>2 DEF ReadData, Accounted, Held, Asked
    <3>4. CASE ~valid_wrreq
      <4>1. unread' = Content /\ Content' = Tail(Content)
        BY <2>2, <3>1, <3>2, <3>4 DEF Watch
      <4> QED BY <2>2, <3>1, <3>2, <4>1 DEF ReadData, Accounted, Held, Asked
    <3> QED BY <3>3, <3>4
  <2>7. CASE Store \* the register's word leaves for data[]
    <3>1. pc = "store" /\ pc' # "store" /\ pc' # "read"
      BY <2>7 DEF Store
    <3>2. unread # <<>> /\ Content = Tail(unread) /\ rest = Content
      BY <2>4, <2>5, <3>1 DEF Held
    <3>3. Watch(Tail(unread))
      BY <1>2, <3>1, <3>2 DEF ReadoutNext, Working, ReadStatus, NotEmpty, Empty, ReadData,
         NextPackage, Elsewhere, Absent, Store, cpuVars
    <3>4. unread' = Content' /\ Content' \in Seq(Words)
      BY <2>2, <2>3, <3>2, <3>3, AppendFacts DEF Watch
    <3> QED BY <3>1, <3>4 DEF Accounted, Held, Asked
  <2>8. CASE pc # "read" /\ ~Store /\ pc # "store"
    <3>1. unread = Content /\ rest = Content
      BY <2>4, <2>5, <2>8 DEF Held
    <3>2. Watch(unread) /\ pc' # "store" /\ Asked'
      BY <1>2, <2>8 DEF ReadoutNext, Working, ReadStatus, NotEmpty, Empty, ReadData,
         NextPackage, Elsewhere, Absent, cpuVars, Asked
    <3>3. unread' = Content' /\ Content' \in Seq(Words)
      BY <2>2, <2>3, <3>1, <3>2, AppendFacts DEF Watch
    <3> QED BY <3>2, <3>3 DEF Accounted, Held
  <2>9. CASE pc = "store" /\ ~Store
    <3>1. Watch(unread) /\ pc' = "store"
      BY <1>2, <2>9 DEF ReadoutNext, Working, ReadStatus, NotEmpty, Empty, ReadData,
         NextPackage, Elsewhere, Absent, cpuVars
    <3>2. /\ unread # <<>> /\ q = Head(unread) /\ Content = Tail(unread)
          /\ rest = Content /\ q' = q
      BY <2>2, <2>4, <2>5, <2>9 DEF Held
    <3>3. CASE valid_wrreq
      <4>1. unread' = Append(unread, data) /\ Content' = Append(Tail(unread), data)
        BY <2>2, <3>1, <3>2, <3>3 DEF Watch
      <4>2. /\ unread' # <<>> /\ Head(unread') = q' /\ Tail(unread') = Content'
            /\ unread' \in Seq(Words)
        BY <2>3, <2>4, <3>2, <3>3, <4>1, AppendToMore, AppendFacts
      <4> QED BY <3>1, <4>2 DEF Accounted, Held, Asked
    <3>4. CASE ~valid_wrreq
      <4>1. unread' = unread /\ Content' = Content
        BY <2>2, <3>1, <3>2, <3>4 DEF Watch
      <4> QED BY <2>4, <3>1, <3>2, <4>1 DEF Accounted, Held, Asked
    <3> QED BY <3>3, <3>4
  <2> QED BY <2>6, <2>7, <2>8, <2>9
<1> QED BY <1>1, <1>2

\* Every word the FIFO takes is stored in data[] once and in its turn, for
\* every depth, package length and timing of the bus (main.c:79-88).
THEOREM StoredInTurn == ReadoutSpec => StoresNextWord
<1>1. ReadoutInit => FifoInit /\ Trusted
  BY Zenon DEF ReadoutInit, FifoInit, Trusted, StatusTrue, TestTrue, ReadTrue, ReadOnly
<1>2. [ReadoutNext]_readoutVars => [FifoNext]_fifoVars
  <2>1. ReadoutNext => FifoNext
    BY Zenon DEF ReadoutNext, Working, Hardware, ReadStatus, NotEmpty, Empty, ReadData,
       Store, NextPackage, Elsewhere, Absent, FifoNext
  <2> QED BY <2>1 DEF readoutVars
<1>3. ReadoutSpec => FifoSafe
  BY <1>1, <1>2, PTL DEF ReadoutSpec, FifoSafe
<1>4. FifoTypeOK /\ PipelineOrder /\ Trusted /\ [ReadoutNext]_readoutVars => Trusted'
  BY KeepsTrusted
<1>5. ReadoutInit /\ FifoTypeOK /\ PipelineOrder => Accounted
  <2> SUFFICES ASSUME ReadoutInit, FifoTypeOK, PipelineOrder PROVE Accounted
    OBVIOUS
  <2>1. wrptr = rdptr /\ wrptr \in Pointers /\ pc \in {"done", "absent"} /\ unread = <<>>
    BY DEF ReadoutInit, FifoInit, FifoTypeOK
  <2>2. Count = 0
    BY <2>1, DistType DEF Count
  <2>3. Content \in Seq(Words) /\ Len(Content) = 0
    BY <2>2, CountFacts, ContentFacts DEF CountBounds, ContentIsRam
  <2>4. Content = <<>>
    BY <2>3, EmptySeq
  <2> QED BY <2>1, <2>3, <2>4 DEF Accounted, Held, Asked
<1>6. /\ FifoTypeOK /\ FifoTypeOK' /\ PipelineOrder /\ PipelineOrder' /\ Trusted
      /\ Accounted /\ [ReadoutNext]_readoutVars
      => Accounted'
  BY KeepsAccounted
<1>7. Accounted => [Store => unread # <<>> /\ q = Head(unread)]_readoutVars
  BY DEF Accounted, Held, Store
<1>8. FifoSafe => []FifoTypeOK /\ []PipelineOrder
  BY FifoTypeSafe, PipelineSafe
<1> QED
  BY <1>1, <1>3, <1>4, <1>5, <1>6, <1>7, <1>8, PTL DEF ReadoutSpec, StoresNextWord
=============================================================================
