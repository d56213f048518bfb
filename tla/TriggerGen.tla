----------------------------- MODULE TriggerGen -----------------------------
(***************************************************************************)
(* The pulse generator TRI_gen (fpga-rtl/TRI_gen.v).  The board has two:   *)
(* `trigger' on GPIO_0[2] and `trigger_sim' on GPIO_0[3].  One action per  *)
(* branch of the clocked block; all registers are written without blocking.*)
(***************************************************************************)
EXTENDS Naturals

CONSTANTS
  GenMod,     \* tmp_cnt counts modulo this: 2^32 in the source
  PowerTao,   \* 8'hff, what Tao_cnt powers up with
  Periods     \* values the bus may write to Tao_cnt

ASSUME GenAssumption ==
  /\ GenMod \in Nat /\ GenMod > 1
  /\ PowerTao \in 0 .. GenMod - 1
  /\ Periods \subseteq 0 .. GenMod - 1

VARIABLES Tao_cnt, tmp_cnt, ready, ready2

tgVars == <<Tao_cnt, tmp_cnt, ready, ready2>>

\* The count is never past the period: it would have to overflow, 86
\* seconds later, to meet it again (TRI_gen.v:24-33).
TGTypeOK ==
  /\ Tao_cnt \in 0 .. GenMod - 1
  /\ tmp_cnt \in 0 .. Tao_cnt
  /\ ready \in BOOLEAN
  /\ ready2 \in BOOLEAN

TGInit ==
  /\ Tao_cnt = PowerTao
  /\ tmp_cnt = 0
  /\ ready = FALSE
  /\ ready2 = FALSE      \* no initialiser: powers up as zero

Clear == tmp_cnt' = 0 /\ ready' = FALSE /\ ready2' = FALSE

GenReset == Clear /\ UNCHANGED Tao_cnt

\* Mutant: a write does not restart the count.
GenWriteRunsOn(q) == Tao_cnt' = q /\ ready' = FALSE /\ ready2' = FALSE /\ UNCHANGED tmp_cnt

GenWrite(q) == Tao_cnt' = q /\ Clear

Step == tmp_cnt' = (tmp_cnt + 1) % GenMod

Accumulate ==
  /\ tmp_cnt # Tao_cnt /\ ~ready2
  /\ Step
  /\ ready' = FALSE
  /\ UNCHANGED <<Tao_cnt, ready2>>

\* Mutant: the count is not restarted by the pulse.
PulseFirstRunsOn ==
  /\ tmp_cnt = Tao_cnt /\ ~ready2
  /\ ready' = TRUE /\ ready2' = TRUE
  /\ UNCHANGED <<Tao_cnt, tmp_cnt>>

PulseFirst ==
  /\ tmp_cnt = Tao_cnt /\ ~ready2
  /\ ready' = TRUE /\ ready2' = TRUE
  /\ tmp_cnt' = 0
  /\ UNCHANGED Tao_cnt

\* Mutant: the second cycle already drops the output.
PulseSecondLow ==
  /\ tmp_cnt # Tao_cnt /\ ready2
  /\ Step
  /\ ready' = FALSE /\ ready2' = FALSE
  /\ UNCHANGED Tao_cnt

\* Mutant: the second cycle does not count.
PulseSecondHolds ==
  /\ tmp_cnt # Tao_cnt /\ ready2
  /\ ready' = TRUE /\ ready2' = FALSE
  /\ UNCHANGED <<Tao_cnt, tmp_cnt>>

PulseSecond ==
  /\ tmp_cnt # Tao_cnt /\ ready2
  /\ Step
  /\ ready' = TRUE /\ ready2' = FALSE
  /\ UNCHANGED Tao_cnt

\* No branch of the if-chain covers this case: every register holds.
NoBranch ==
  /\ tmp_cnt = Tao_cnt /\ ready2
  /\ UNCHANGED tgVars

GenRun == Accumulate \/ PulseFirst \/ PulseSecond \/ NoBranch

TGNext == GenReset \/ (\E q \in Periods : GenWrite(q)) \/ GenRun
TGSpec == TGInit /\ [][TGNext]_tgVars
=============================================================================
