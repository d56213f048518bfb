---------------------------- MODULE PulseCounter ----------------------------
(***************************************************************************)
(* The photon counter PlsCnt (fpga-rtl/Pulse_cnt.v).                       *)
(*                                                                         *)
(* Every Tao clock ticks the circuit reports how many photon pulses came   *)
(* since its last report, with a time stamp CLK_cnt that a trigger pulse   *)
(* restarts.  Registers keep the names of the source.  One action of the   *)
(* main block is one branch of its if-chain; a clock tick runs one of them *)
(* and the trigger sampler together, both on the old register values.      *)
(* Cnt_tmp2 is a temporary of the reporting branches and is left out.      *)
(***************************************************************************)
EXTENDS Naturals

CONSTANTS
  StampMod,    \* CLK_cnt counts modulo this: 2^32 in the source
  CountMod,    \* the count field's modulus: 2^31, bit 63 holds the flag
  ResetTao,    \* 16'hffff, the integration time after RESET
  Taos,        \* integration times the bus may write
  AsyncPins    \* TRUE: a pin may change at the very clock edge that samples it

ASSUME PulseAssumption ==
  /\ StampMod \in Nat /\ StampMod > 1
  /\ CountMod \in Nat /\ CountMod > 0
  /\ ResetTao \in Nat
  /\ Taos \subseteq Nat
  /\ AsyncPins \in BOOLEAN

VARIABLES
  Tao, PHO_cnt, tri_1, tmp, CLK_cnt, Cnt_tmp1,
  Cnt_Stream,  \* the 64-bit word: count [62:32], flag [63], stamp [31:0]
  RDY

mainVars == <<Tao, tmp, CLK_cnt, Cnt_tmp1, Cnt_Stream, RDY>>
pcVars == <<mainVars, PHO_cnt, tri_1>>

PhoMod == 2 * CountMod          \* PHO_cnt is one bit wider than the count
Counts == 0 .. PhoMod - 1
Stamps == 0 .. StampMod - 1
Blank == [count |-> 0, stamp |-> 0, flag |-> FALSE]
Samples == [count : 0 .. CountMod - 1, stamp : Stamps, flag : BOOLEAN]

PCTypeOK ==
  /\ Tao \in Nat
  /\ PHO_cnt \in Counts
  /\ tri_1 \in 0 .. 3
  /\ tmp \in BOOLEAN
  /\ CLK_cnt \in Stamps
  /\ Cnt_tmp1 \in Counts
  /\ Cnt_Stream \in Samples
  /\ RDY \in BOOLEAN

\* An m-state up-counter's next value, and subtraction of photon counts.
Up(a, m) == IF a = m - 1 THEN 0 ELSE a + 1
Minus(a, b) == IF a >= b THEN a - b ELSE a + PhoMod - b

\* FPGA registers without an initialiser, like Tao, power up as zero.
PCInit ==
  /\ Tao = 0
  /\ PHO_cnt = 0
  /\ tri_1 = 0
  /\ tmp = FALSE
  /\ CLK_cnt = 1
  /\ Cnt_tmp1 = 0
  /\ Cnt_Stream = Blank
  /\ RDY = FALSE

-----------------------------------------------------------------------------
(* The trigger sampler.  A level that changes at the sampling edge reaches  *)
(* the two flip-flops of tri_1 independently: each takes its bit of the     *)
(* incremented value or of zero.                                            *)
Levels == IF AsyncPins THEN {"low", "high", "edge"} ELSE {"low", "high"}

TriSample(level) ==
  LET n == Up(tri_1, 4)
  IN \/ level = "high" /\ tri_1' = n
     \/ level = "low"  /\ tri_1' = 0
     \/ level = "edge" /\ tri_1' \in {v \in 0 .. 3 : v % 2 <= n % 2 /\ v \div 2 <= n \div 2}

(* The photon counter runs on the photon pulse itself.  A read that meets   *)
(* the pulse's edge sees, bit by bit, the value before or after it: any     *)
(* value that agrees with the old one on the bits the carry does not reach. *)
PhotonEdge == PHO_cnt' = Up(PHO_cnt, PhoMod)

Torn(c) == {d \in Counts : \A p \in 2 .. PhoMod :
                (PhoMod % p = 0 /\ c % p # p - 1) => d \div p = c \div p}

Reads(edge) == IF edge THEN Torn(PHO_cnt) ELSE {PHO_cnt}

-----------------------------------------------------------------------------
(* The main block.  A divider circuit whose divisor Tao is zero subtracts   *)
(* nothing and leaves the dividend as the remainder.                        *)
Remainder == IF Tao = 0 THEN CLK_cnt ELSE CLK_cnt % Tao
AtBoundary == Remainder = 0
OffBoundary == Remainder # 0
Triggered == tri_1 = 1

Reset ==
  /\ RDY' = FALSE
  /\ Cnt_Stream' = Blank
  /\ CLK_cnt' = 1
  /\ Cnt_tmp1' = 0
  /\ tmp' = FALSE
  /\ Tao' = ResetTao

Write(q) ==
  /\ Tao' = q
  /\ UNCHANGED <<tmp, CLK_cnt, Cnt_tmp1, Cnt_Stream, RDY>>

Marked(word) == [count |-> word.count, stamp |-> word.stamp, flag |-> TRUE]

\* A trigger inside a window: the window's report will carry the flag.
MarkWindow ==
  /\ Triggered /\ OffBoundary
  /\ CLK_cnt' = Up(CLK_cnt, StampMod)
  /\ RDY' = FALSE
  /\ Cnt_Stream' = Marked(Cnt_Stream)
  /\ tmp' = TRUE
  /\ UNCHANGED <<Tao, Cnt_tmp1>>

Count ==
  /\ ~Triggered /\ OffBoundary
  /\ CLK_cnt' = Up(CLK_cnt, StampMod)
  /\ RDY' = FALSE
  /\ UNCHANGED <<Tao, Cnt_tmp1, Cnt_Stream, tmp>>

\* Mutant: the count is written after the flag bit and runs into it.
ReportWide(seen, latched, mark) ==
  /\ Cnt_Stream' = [count |-> Minus(seen, Cnt_tmp1), stamp |-> CLK_cnt, flag |-> mark]
  /\ Cnt_tmp1' = latched
  /\ RDY' = TRUE
  /\ UNCHANGED Tao

\* Mutant: the count at the last report is not kept.
ReportCumulative(seen, latched, mark) ==
  /\ Cnt_Stream' = [count |-> Minus(seen, Cnt_tmp1) % CountMod,
                    stamp |-> CLK_cnt, flag |-> mark]
  /\ RDY' = TRUE
  /\ UNCHANGED <<Tao, Cnt_tmp1>>

\* What the three reporting branches share.  PHO_cnt is read twice.
Report(seen, latched, mark) ==
  /\ Cnt_Stream' = [count |-> Minus(seen, Cnt_tmp1) % CountMod,
                    stamp |-> CLK_cnt, flag |-> mark]
  /\ Cnt_tmp1' = latched
  /\ RDY' = TRUE
  /\ UNCHANGED Tao

\* Mutant: the flag of a trigger on the boundary is forgotten.
ReportOnTriggerPlain(seen, latched) ==
  /\ Triggered /\ AtBoundary
  /\ Report(seen, latched, FALSE)
  /\ CLK_cnt' = 1
  /\ UNCHANGED tmp

ReportOnTrigger(seen, latched) ==
  /\ Triggered /\ AtBoundary
  /\ Report(seen, latched, TRUE)
  /\ CLK_cnt' = 1
  /\ UNCHANGED tmp

\* Mutant: the test of tmp is dropped.
ReportAlwaysPlain(seen, latched) ==
  /\ ~Triggered /\ AtBoundary
  /\ Report(seen, latched, FALSE)
  /\ CLK_cnt' = Up(CLK_cnt, StampMod)
  /\ UNCHANGED tmp

ReportPlain(seen, latched) ==
  /\ ~Triggered /\ AtBoundary /\ ~tmp
  /\ Report(seen, latched, FALSE)
  /\ CLK_cnt' = Up(CLK_cnt, StampMod)
  /\ UNCHANGED tmp

\* Mutant: a marked report does not restart the stamps.
ReportMarkedRunsOn(seen, latched) ==
  /\ ~Triggered /\ AtBoundary /\ tmp
  /\ Report(seen, latched, TRUE)
  /\ CLK_cnt' = Up(CLK_cnt, StampMod)
  /\ tmp' = FALSE

\* Mutant: a marked report leaves the mark for the next one.
ReportMarkedSticky(seen, latched) ==
  /\ ~Triggered /\ AtBoundary /\ tmp
  /\ Report(seen, latched, TRUE)
  /\ CLK_cnt' = 1
  /\ UNCHANGED tmp

ReportMarked(seen, latched) ==
  /\ ~Triggered /\ AtBoundary /\ tmp
  /\ Report(seen, latched, TRUE)
  /\ CLK_cnt' = 1
  /\ tmp' = FALSE

Emit(edge) ==
  \E seen \in Reads(edge), latched \in Reads(edge) :
    \/ ReportOnTrigger(seen, latched)
    \/ ReportPlain(seen, latched)
    \/ ReportMarked(seen, latched)

Main(edge) ==
  \/ Reset
  \/ \E q \in Taos : Write(q)
  \/ MarkWindow
  \/ Count
  \/ Emit(edge)

-----------------------------------------------------------------------------
\* The pins: a photon edge away from clock edges, and a clock tick that
\* samples TRIIN and, with asynchronous pins, may coincide with a photon edge.
Photon == PhotonEdge /\ UNCHANGED <<mainVars, tri_1>>

PhotonAtTick(edge) == IF edge THEN PhotonEdge ELSE UNCHANGED PHO_cnt

Tick ==
  \E level \in Levels, edge \in {FALSE, AsyncPins} :
    /\ TriSample(level)
    /\ PhotonAtTick(edge)
    /\ Main(edge)

PCNext == Photon \/ Tick
PCSpec == PCInit /\ [][PCNext]_pcVars

-----------------------------------------------------------------------------
Stream == INSTANCE SampleStream
  WITH PendingMod <- PhoMod, pending <- Minus(PHO_cnt, Cnt_tmp1),
       owed <- tmp, sample <- Cnt_Stream, ready <- RDY

\* The circuit implements the abstract sample stream (Pulse_cnt.v:46-88):
\* every report counts exactly the photons since the last one, modulo the
\* field's width, and a trigger is announced by the next report.
ImplementsStream == Stream!SSSpec
=============================================================================
