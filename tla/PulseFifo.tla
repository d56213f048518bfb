----------------------------- MODULE PulseFifo -----------------------------
(***************************************************************************)
(* The dual-clock FIFO between the FPGA and the processor:                 *)
(* db/dcfifo_d982.tdf as instantiated by soc_system_fifo_pls.v, its write  *)
(* and read clock being the same.  The pointers run modulo 2 * Depth and   *)
(* each side knows the other's pointer only through a pipeline of          *)
(* registers.  Gray code is left out: it changes the pointers' encoding,   *)
(* not which of them are equal.  A step is one clock tick.                 *)
(***************************************************************************)
EXTENDS Integers

CONSTANTS
  Depth,     \* lpm_numwords, 8192
  Words,     \* what a slot can hold
  NoWord     \* what data carries while nothing is written

ASSUME FifoAssumption ==
  /\ Depth \in Nat /\ Depth > 0
  /\ NoWord \notin Words

VARIABLES
  ram, wrptr, rdptr,
  delayed,         \* delayed_wrptr_g
  dgwp1, dgwp2,    \* the two stages of rs_dgwp: wrptr as the reader knows it
  dgrp1, dgrp2,    \* the two stages of ws_dgrp: rdptr as the writer knows it
  q,               \* the output register
  data,            \* input: the word to write, NoWord while wrreq is low
  rdreq            \* input

pointers == <<wrptr, rdptr, delayed, dgwp1, dgwp2, dgrp1, dgrp2>>
fifoVars == <<ram, pointers, q, data, rdreq>>

Pointers == 0 .. 2 * Depth - 1
Slots == 0 .. Depth - 1

FifoTypeOK ==
  /\ ram \in [Slots -> Words]
  /\ wrptr \in Pointers /\ rdptr \in Pointers /\ delayed \in Pointers
  /\ dgwp1 \in Pointers /\ dgwp2 \in Pointers
  /\ dgrp1 \in Pointers /\ dgrp2 \in Pointers
  /\ q \in Words
  /\ data \in Words \cup {NoWord}
  /\ rdreq \in BOOLEAN

\* The pointer after p, the steps from b up to a, the RAM address of p.

\* Mutant: the pointers do not wrap.
AfterOn(p) == p + 1

After(p) == IF p = 2 * Depth - 1 THEN 0 ELSE p + 1
Dist(a, b) == IF a >= b THEN a - b ELSE a - b + 2 * Depth
Slot(p) == IF p < Depth THEN p ELSE p - Depth

FifoInit ==
  /\ \E w \in Words : ram = [s \in Slots |-> w] /\ q = w
  /\ wrptr = 0 /\ rdptr = 0 /\ delayed = 0
  /\ dgwp1 = 0 /\ dgwp2 = 0 /\ dgrp1 = 0 /\ dgrp2 = 0
  /\ data = NoWord /\ rdreq = FALSE

wrreq == data # NoWord

\* Mutant: the full comparator is one word late.
int_wrfull_late == Dist(wrptr, dgrp2) = Depth + 1

int_wrfull == Dist(wrptr, dgrp2) = Depth
rdempty == dgwp2 = rdptr

\* Mutant: no overflow checking.
valid_wrreq_unchecked == wrreq

valid_wrreq == wrreq /\ ~int_wrfull

\* Mutant: no underflow checking.
valid_rdreq_unchecked == rdreq

valid_rdreq == rdreq /\ ~rdempty

WriteSide ==
  IF valid_wrreq
  THEN /\ ram' = [ram EXCEPT ![Slot(wrptr)] = data]
       /\ wrptr' = After(wrptr)
  ELSE UNCHANGED <<ram, wrptr>>

ReadSide ==
  IF valid_rdreq
  THEN /\ q' = ram[Slot(rdptr)]
       /\ rdptr' = After(rdptr)
  ELSE UNCHANGED <<q, rdptr>>

\* Mutant: the write pointer is only passed on while a word is written.
SynchronizeOnWrite ==
  /\ delayed' = IF wrreq THEN wrptr ELSE delayed
  /\ dgwp1' = delayed /\ dgwp2' = dgwp1
  /\ dgrp1' = rdptr /\ dgrp2' = dgrp1

Synchronize ==
  /\ delayed' = wrptr /\ dgwp1' = delayed /\ dgwp2' = dgwp1
  /\ dgrp1' = rdptr /\ dgrp2' = dgrp1

FifoTick == WriteSide /\ ReadSide /\ Synchronize

\* Alone, the FIFO is offered any word and asked for a word at any tick.
FifoNext ==
  /\ FifoTick
  /\ data' \in Words \cup {NoWord}
  /\ rdreq' \in BOOLEAN

FifoSafe == FifoInit /\ [][FifoNext]_fifoVars
FifoSpec == FifoSafe /\ WF_fifoVars(FifoNext)

-----------------------------------------------------------------------------
CONSTANT Slack    \* how far from full the FIFO may refuse a word

Wrap(p) == IF p >= 2 * Depth THEN p - 2 * Depth ELSE p
Content == [i \in 1 .. Dist(wrptr, rdptr) |-> ram[Slot(Wrap(rdptr + i - 1))]]

Queue == INSTANCE SampleQueue
  WITH queue <- Content, out <- q, offer <- data, ask <- rdreq

\* The FIFO is a bounded queue: in order, nothing lost or repeated, nothing
\* overwritten, and a word is refused only within Slack of full, for the
\* read pointer reaches the writer two ticks late (dcfifo_d982.tdf, ws_dgrp).
ImplementsQueue == Queue!SQSpec

\* The pipelines never run past what they copy: going round the ring from
\* the writer one meets its ever older copies, the reader, and the reader's
\* ever older copies, all within Depth of the writer (dcfifo_d982.tdf, both
\* synchronisers and the two full and empty comparators).
PipelineOrder ==
    Dist(wrptr, delayed) + Dist(delayed, dgwp1) + Dist(dgwp1, dgwp2)
  + Dist(dgwp2, rdptr) + Dist(rdptr, dgrp1) + Dist(dgrp1, dgrp2) <= Depth

\* A word in the FIFO eventually shows on the reader's side.
StoredWordShows == wrptr # rdptr ~> ~rdempty
=============================================================================
