------------------------------- MODULE DqsEnable -------------------------------
(***************************************************************************)
(* The search for the position of the read gate of one DQS group           *)
(* (rw_mgr_mem_calibrate_vfifo_find_dqs_en_phase, sequencer.c:4043-4616).  *)
(* The gate is opened vfifo clock cycles, phase phase taps and delay delay *)
(* taps after the read command; a test read passes when it opens inside a  *)
(* window of the board.  The function runs alone on its processor, so a    *)
(* step is one of its loops: an index at which the loop leaves is the      *)
(* least one at which its condition holds.                                 *)
(***************************************************************************)
EXTENDS Integers, FiniteSets

CONSTANTS
  VFIFO_SIZE,    \* cycles the gate can be put off by, a ring
  PHASE_MAX,     \* IO_DQS_EN_PHASE_MAX: a cycle has PHASE_MAX + 1 phase taps
  DELAY_MAX,     \* IO_DQS_EN_DELAY_MAX
  OpaTap,        \* IO_DELAY_PER_OPA_TAP, picoseconds
  DTap           \* IO_DELAY_PER_DQS_EN_DCHAIN_TAP, picoseconds

ASSUME GateAssumption ==
  /\ VFIFO_SIZE \in Nat /\ VFIFO_SIZE > 1
  /\ PHASE_MAX \in Nat /\ PHASE_MAX > 1
  /\ DTap \in Nat /\ DTap > 0
  /\ OpaTap \in Nat /\ OpaTap > DTap
  /\ DELAY_MAX \in Nat /\ OpaTap <= (DELAY_MAX - 1) * DTap

VARIABLES
  window,              \* where the gate may open: first picosecond and length
  step,                \* the loop the function is about to enter
  vfifo, phase, delay, \* what is written to the hardware
  i, p, d,             \* locals
  work_bgn, work_end,
  dtaps_per_ptap       \* as reported for the tracking of DQS

gateRegs == <<vfifo, phase, delay>>
gateVars == <<window, step, gateRegs, i, p, d, work_bgn, work_end, dtaps_per_ptap>>

Ptaps == PHASE_MAX + 1
Clock == Ptaps * OpaTap
Round == VFIFO_SIZE * Clock
StaticTaps == (OpaTap - 1) \div DTap
Windows == [first : 0 .. Round - 1, length : 0 .. Round]

\* A loop that began at a leaves at n, the first index at which Holds.
NoneBefore(Holds(_), a, n) == \A m \in a .. n - 1 : ~Holds(m)
Meets(Holds(_), a, n) == Holds(n) /\ NoneBefore(Holds, a, n)
CeilDiv(a, b) == (a + b - 1) \div b
Cycle(n) == n % VFIFO_SIZE

\* A test read with the gate at cycle v, phase q and delay e.
Past(v, q, e) == (v * Clock + q * OpaTap + e * DTap - window.first) % Round
Opens(v, q, e) == Past(v, q, e) < window.length

GateInit ==
  /\ window = [first |-> 0, length |-> 0]
  /\ step = "idle"
  /\ vfifo = 0 /\ phase = 0 /\ delay = 0
  /\ i = 0 /\ p = 0 /\ d = 0
  /\ work_bgn = 0 /\ work_end = 0 /\ dtaps_per_ptap = 0

Lost == step' = "lost"

\* The call: delay 0, phase 1 and the computed number of taps.
SearchGate(w) ==
  /\ window' = w
  /\ step' = "push"
  /\ phase' = 1 /\ delay' = 0
  /\ dtaps_per_ptap' = StaticTaps
  /\ UNCHANGED <<vfifo, i, p, d, work_bgn, work_end>>

\* Put the gate off until the second failing read.
Push ==
  LET fails(n) == ~Opens(vfifo + n, 1, 0)
      second(n) == fails(n) /\ \E m \in 0 .. n - 1 : fails(m)
  IN
  /\ step = "push"
  /\ \/ /\ \A n \in 0 .. VFIFO_SIZE - 1 : ~second(n)
        /\ Lost
        /\ UNCHANGED vfifo
     \/ \E n \in 0 .. VFIFO_SIZE - 1 :
          /\ Meets(second, 0, n)
          /\ step' = "begin"
          /\ vfifo' = Cycle(vfifo + n)
  /\ UNCHANGED <<window, phase, delay, i, p, d, work_bgn, work_end, dtaps_per_ptap>>

\* The first passing read: by cycles and phases (phase 0 is never used),
\* and all of them again one delay tap later.
FindBegin ==
  LET passes(e, n, q) == q # 0 /\ Opens(vfifo + n, q, e)
      inCycle(e, n) == \E q \in 1 .. PHASE_MAX : passes(e, n, q)
      anywhere(e) == \E n \in 0 .. VFIFO_SIZE - 1 : inCycle(e, n)
  IN
  /\ step = "begin"
  /\ \/ /\ \A e \in 0 .. StaticTaps : ~anywhere(e)
        /\ Lost
        /\ phase' = PHASE_MAX /\ delay' = StaticTaps
        /\ UNCHANGED <<vfifo, i, p, d, work_bgn, work_end>>
     \/ \E e \in 0 .. StaticTaps, n \in 0 .. VFIFO_SIZE - 1, q \in 1 .. PHASE_MAX :
          /\ passes(e, n, q)
          /\ NoneBefore(LAMBDA k : passes(e, n, k), 1, q)
          /\ NoneBefore(LAMBDA k : inCycle(e, k), 0, n)
          /\ NoneBefore(anywhere, 0, e)
          /\ step' = IF e = 0 THEN "back" ELSE "edge"
          /\ vfifo' = Cycle(vfifo + n) /\ phase' = q /\ delay' = e
          /\ i' = n /\ p' = q /\ d' = e
          /\ work_bgn' = n * Clock + q * OpaTap + e * DTap
          /\ work_end' = work_bgn'
  /\ UNCHANGED <<window, dtaps_per_ptap>>

\* One phase back, the edge is approached by delay taps; phase 1 cannot go
\* back, the edge stays.  The phase is then raised twice.
BackOff ==
  LET q == IF p = 1 THEN 1 ELSE p - 1
      from == IF p = 1 THEN work_bgn ELSE work_bgn - OpaTap
      early(e) == from + e * DTap < work_bgn
      passes(e) == early(e) /\ Opens(vfifo, q, e)
  IN
  /\ step = "back"
  /\ step' = "end"
  /\ \/ (\A e \in 0 .. DELAY_MAX : ~passes(e)) /\ UNCHANGED work_bgn
     \/ \E e \in 0 .. DELAY_MAX : Meets(passes, 0, e) /\ work_bgn' = from + e * DTap
  /\ work_end' = work_end + OpaTap
  /\ phase' = q /\ delay' = 0
  /\ p' = (q + 2) % Ptaps
  /\ vfifo' = Cycle(vfifo + (q + 2) \div Ptaps)
  /\ UNCHANGED <<window, i, d, dtaps_per_ptap>>

\* Mutant: the loop over the cycles ends one early.
LastTapEarly == (VFIFO_SIZE - i) * Ptaps - p - 1

\* The last phase of cycle VFIFO_SIZE: the begin may be in the cycle before.
LastTap == (VFIFO_SIZE + 1 - i) * Ptaps - p - 1

\* On by phases until a read fails.  A failure of the very first read only
\* moves the beginning of the window.
FindEnd ==
  LET q(n) == (p + n) % Ptaps
      v(n) == vfifo + (p + n) \div Ptaps
      fails(n) == q(n) # 0 /\ ~Opens(v(n), q(n), 0)
  IN
  /\ step = "end"
  /\ work_bgn' = IF fails(0) THEN work_end ELSE work_bgn
  /\ \/ /\ \A n \in 1 .. LastTap : ~fails(n)
        /\ Lost
        /\ vfifo' = Cycle(v(LastTap + 1)) /\ phase' = PHASE_MAX
        /\ UNCHANGED <<p, d, work_end>>
     \/ \E n \in 1 .. LastTap :
          /\ Meets(fails, 1, n)
          /\ step' = "edge"
          /\ IF q(n) = 1
             THEN /\ p' = PHASE_MAX /\ vfifo' = Cycle(v(n) + VFIFO_SIZE - 1)
                  /\ work_end' = work_end + (n - 2) * OpaTap
             ELSE /\ p' = q(n) - 1 /\ vfifo' = Cycle(v(n))
                  /\ work_end' = work_end + (n - 1) * OpaTap
          /\ phase' = p'
          /\ d' = 0
  /\ UNCHANGED <<window, delay, i, dtaps_per_ptap>>

\* On by delay taps until a read fails.
FindEdge ==
  LET fails(e) == e > DELAY_MAX \/ ~Opens(vfifo, p, e) IN
  /\ step = "edge"
  /\ \E e \in d .. DELAY_MAX + 1 :
       /\ Meets(fails, d, e)
       /\ work_end' = work_end + (e - d) * DTap - (IF e = 0 THEN 0 ELSE DTap)
       /\ d' = e
       /\ delay' = IF e > DELAY_MAX THEN DELAY_MAX ELSE e
  /\ step' = IF work_end' >= work_bgn THEN "track" ELSE "lost"
  /\ UNCHANGED <<window, vfifo, phase, i, p, work_bgn, dtaps_per_ptap>>

\* Back one phase, or to the cycle before, and to the same edge again.
TrackTaps ==
  LET wraps == p \in {0, 1}
      v == IF wraps THEN vfifo + VFIFO_SIZE - 1 ELSE vfifo
      q == IF wraps THEN PHASE_MAX ELSE p - 1
      passes(e) == Opens(v, q, e)
      edge(e) == ~passes(e) /\ \E m \in d .. e - 1 : passes(m)
  IN
  /\ step = "track"
  /\ step' = "centre"
  /\ vfifo' = Cycle(v) /\ phase' = q /\ p' = q
  /\ \/ /\ \A e \in d .. DELAY_MAX : ~edge(e)
        /\ delay' = DELAY_MAX
        /\ UNCHANGED dtaps_per_ptap
     \/ \E e \in d .. DELAY_MAX :
          /\ Meets(edge, d, e)
          /\ delay' = e
          /\ dtaps_per_ptap' = e - d
  /\ UNCHANGED <<window, i, d, work_bgn, work_end>>

\* Half way, in phases and delays of one cycle; the cycle is found again by
\* reading.
CentreGate ==
  LET mid == (((work_bgn + work_end) \div 2 - 1) % Clock) + 1
      ptap == CeilDiv(mid, OpaTap)
      q == IF ptap = 1 THEN 2 ELSE ptap
      e == IF ptap = 1 THEN 0 ELSE CeilDiv(mid - (ptap - 1) * OpaTap, DTap)
      passes(n) == Opens(vfifo + n, q - 1, e)
  IN
  /\ step = "centre"
  /\ phase' = q - 1 /\ delay' = e
  /\ p' = q /\ d' = e
  /\ \/ /\ \A n \in 0 .. VFIFO_SIZE - 1 : ~passes(n)
        /\ Lost
        /\ UNCHANGED vfifo
     \/ \E n \in 0 .. VFIFO_SIZE - 1 :
          /\ Meets(passes, 0, n)
          /\ step' = "found"
          /\ vfifo' = Cycle(vfifo + n)
  /\ UNCHANGED <<window, i, work_bgn, work_end, dtaps_per_ptap>>

GateStep ==
  Push \/ FindBegin \/ BackOff \/ FindEnd \/ FindEdge \/ TrackTaps \/ CentreGate

-----------------------------------------------------------------------------
\* Distance of the gate from the middle of the window, doubled.
OffCentre == LET x == 2 * Past(vfifo, phase, delay) - window.length
             IN  IF x >= 0 THEN x ELSE -x
=============================================================================
