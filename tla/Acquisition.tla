----------------------------- MODULE Acquisition -----------------------------
(***************************************************************************)
(* The acquisition side of the FPGA: both pulse generators, the photon     *)
(* counter and the hand-over to the FIFO, all on the same 50 MHz clock     *)
(* (fpga-rtl/ghrd.v:146-280, soc_system.v).  A step is one clock tick and  *)
(* every block sees the other blocks' registers as they were before it.    *)
(*                                                                         *)
(* Power-on: the registers run with their configured values until the      *)
(* reset controller asserts RESET for three ticks, once; reset_reset_n is  *)
(* tied high (ghrd.v:199), so that RESET never comes again.                *)
(***************************************************************************)
EXTENDS PulseCounter

CONSTANTS
  GenMod, PowerTao, TrigPeriods, SimPeriods,
  FreeEdges,   \* may the photon input rise when nothing is wired to it?
  BusGap,      \* ticks the bus is silent after a write
  WarmResets   \* with which wirings the processor may be reset meanwhile

ASSUME AcqAssumption ==
  /\ GenMod \in Nat /\ GenMod > 1
  /\ PowerTao \in 0 .. GenMod - 1
  /\ TrigPeriods \subseteq 0 .. GenMod - 1 /\ SimPeriods \subseteq 0 .. GenMod - 1
  /\ FreeEdges \subseteq BOOLEAN /\ FreeEdges # {}
  /\ BusGap \in Nat /\ WarmResets \subseteq BOOLEAN

VARIABLES
  wired,     \* GPIO_0[2] drives GPIO_0[1], and [3] drives [0] (README.md:26-27)
  trTao, trTmp, trReady, trReady2,       \* the generator `trigger'
  siTao, siTmp, siReady, siReady2,       \* the generator `trigger_sim'
  counter_state, data_buffer, data_buffer_valid,
  por,       \* 4: just configured, 3..1: RESET asserted, 0: running
  busy,      \* ticks until the bus can write again
  hpsReset   \* hps_fpga_reset_n is low, a warm reset of the processor

Trig == INSTANCE TriggerGen WITH Periods <- TrigPeriods,
  Tao_cnt <- trTao, tmp_cnt <- trTmp, ready <- trReady, ready2 <- trReady2
Sim == INSTANCE TriggerGen WITH Periods <- SimPeriods,
  Tao_cnt <- siTao, tmp_cnt <- siTmp, ready <- siReady, ready2 <- siReady2
Xfer == INSTANCE SampleTransfer WITH Words <- Samples

trVars == <<trTao, trTmp, trReady, trReady2>>
siVars == <<siTao, siTmp, siReady, siReady2>>
xfVars == <<counter_state, data_buffer, data_buffer_valid>>
acqVars == <<pcVars, wired, trVars, siVars, xfVars, por, busy, hpsReset>>

AcqTypeOK ==
  /\ PCTypeOK /\ Trig!TGTypeOK /\ Sim!TGTypeOK /\ Xfer!STTypeOK
  /\ wired \in BOOLEAN
  /\ por \in 0 .. 4 /\ busy \in 0 .. BusGap /\ hpsReset \in BOOLEAN

AcqInit ==
  /\ PCInit /\ Trig!TGInit /\ Sim!TGInit
  /\ Xfer!STInit(Blank)
  /\ wired \in BOOLEAN
  /\ por = 4 /\ busy = 0 /\ hpsReset = FALSE

RESET == por \in 1 .. 3

PowerOn == por' \in IF por = 4 THEN {4, 3} ELSE {IF por = 0 THEN 0 ELSE por - 1}

Targets == {"none", "counter", "trigger", "sim"}

\* At most one bus write per tick, none while the fabric is in reset.  A
\* generator whose pulses go nowhere is left alone.
Bus(target) ==
  /\ target # "none" => por = 0 /\ busy = 0
  /\ target \in {"trigger", "sim"} => wired
  /\ busy' = IF target # "none" THEN BusGap ELSE IF busy = 0 THEN 0 ELSE busy - 1

TrigStep(target) ==
  IF RESET THEN Trig!GenReset
  ELSE IF target = "trigger" THEN \E q \in TrigPeriods : Trig!GenWrite(q)
  ELSE Trig!GenRun

SimStep(target) ==
  IF RESET THEN Sim!GenReset
  ELSE IF target = "sim" THEN \E q \in SimPeriods : Sim!GenWrite(q)
  ELSE Sim!GenRun

Events == {"reset", "write", "count", "emit"}

CounterStep(event, target) ==
  \/ event = "reset" /\ RESET /\ Reset
  \/ event = "write" /\ target = "counter" /\ \E q \in Taos : Write(q)
  \/ event = "count" /\ ~RESET /\ target # "counter" /\ (MarkWindow \/ Count)
  \/ event = "emit" /\ ~RESET /\ target # "counter" /\ Emit(FALSE)

\* A wired pin carries the generator's register; the photon counter sees
\* the simulated pulse right after the tick that raises it.
TriggerPin ==
  IF wired THEN TriSample(IF trReady THEN "high" ELSE "low")
  ELSE \E level \in {"high", "low"} : TriSample(level)

PhotonPin ==
  IF wired THEN PhotonAtTick(siReady' /\ ~siReady)
  ELSE \E edge \in FreeEdges : PhotonAtTick(edge)

AcqTick(event, target) ==
  /\ PowerOn
  /\ Bus(target)
  /\ TrigStep(target)
  /\ SimStep(target)
  /\ TriggerPin
  /\ PhotonPin
  /\ CounterStep(event, target)
  /\ Xfer!Transfer(hpsReset, RDY, Cnt_Stream)
  /\ hpsReset' \in BOOLEAN /\ (hpsReset' => wired \in WarmResets)
  /\ UNCHANGED wired

AcqNext == \E event \in Events, target \in Targets : AcqTick(event, target)

AcqSpec == AcqInit /\ [][AcqNext]_acqVars
=============================================================================
