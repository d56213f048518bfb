-------------------------- MODULE Acquisition_proofs --------------------------
(* The acquisition side for every width of the counters, every set of       *)
(* integration times and periods and every timing of the bus: its types;    *)
(* that samples reach the FIFO's port once and in order, but for every      *)
(* second one of those that follow each other at once; that flags are exact *)
(* once an unflagged sample has come after a write; and that a window       *)
(* counts the simulated photons that fit in it.                             *)
EXTENDS AcquisitionHistory, Integers, TLAPS

-----------------------------------------------------------------------------
(* Types: the photon counter. *)

LEMMA CountFieldType ==
  ASSUME NEW a \in Counts, NEW b \in Counts
  PROVE  Minus(a, b) % CountMod \in 0 .. CountMod - 1
<1>1. Minus(a, b) \in Nat
  BY PulseAssumption DEF Minus, Counts, PhoMod
<1> QED BY <1>1, PulseAssumption

LEMMA BlankSample == Blank \in Samples
<1>1. 0 \in 0 .. CountMod - 1 /\ 0 \in Stamps
  BY PulseAssumption DEF Stamps
<1> QED BY <1>1, Zenon DEF Blank, Samples

\* Both pins, and the main block in each of its branches.
LEMMA PinsKeepTypes ==
  ASSUME PCTypeOK, TriggerPin, PhotonPin
  PROVE  tri_1' \in 0 .. 3 /\ PHO_cnt' \in Counts
<1>1. PICK level : TriSample(level)
  BY Zenon DEF TriggerPin
<1>2. tri_1' \in 0 .. 3
  BY <1>1 DEF TriSample, Up, PCTypeOK
<1>3. PICK edge : PhotonAtTick(edge)
  BY Zenon DEF PhotonPin
<1>4. PHO_cnt' = PHO_cnt \/ PHO_cnt' = Up(PHO_cnt, PhoMod)
  BY <1>3, Zenon DEF PhotonAtTick, PhotonEdge
<1>5. PHO_cnt' \in Counts
  BY <1>4, PulseAssumption DEF Up, PCTypeOK, Counts, PhoMod
<1> QED BY <1>2, <1>5

LEMMA MainKeepsTypes ==
  ASSUME PCTypeOK, NEW event \in Events, NEW target \in Targets,
         CounterStep(event, target)
  PROVE  /\ Tao' \in Nat /\ tmp' \in BOOLEAN /\ CLK_cnt' \in Stamps
         /\ Cnt_tmp1' \in Counts /\ Cnt_Stream' \in Samples /\ RDY' \in BOOLEAN
<1> DEFINE Goal == /\ Tao' \in Nat /\ tmp' \in BOOLEAN /\ CLK_cnt' \in Stamps
                   /\ Cnt_tmp1' \in Counts /\ Cnt_Stream' \in Samples /\ RDY' \in BOOLEAN
<1> SUFFICES Goal OBVIOUS
<1>1. Up(CLK_cnt, StampMod) \in Stamps /\ 1 \in Stamps /\ 0 \in Counts
  BY PulseAssumption DEF Up, PCTypeOK, Stamps, Counts, PhoMod
<1>2. CASE Reset
  <2>1. ResetTao \in Nat
    BY PulseAssumption
  <2> QED BY <1>1, <1>2, <2>1, BlankSample, Zenon DEF Reset
<1>3. CASE \E q \in Taos : Write(q)
  BY <1>3, PulseAssumption DEF Write, PCTypeOK
<1>4. CASE MarkWindow
  BY <1>1, <1>4 DEF MarkWindow, Marked, Samples, PCTypeOK
<1>5. CASE Count
  BY <1>1, <1>5 DEF Count, PCTypeOK
<1>6. CASE Emit(FALSE)
  <2>1. \/ ReportOnTrigger(PHO_cnt, PHO_cnt)
        \/ ReportPlain(PHO_cnt, PHO_cnt)
        \/ ReportMarked(PHO_cnt, PHO_cnt)
    BY <1>6 DEF Emit, Reads
  <2>2. ASSUME NEW mark \in BOOLEAN, Report(PHO_cnt, PHO_cnt, mark)
        PROVE  /\ Cnt_Stream' \in Samples /\ Cnt_tmp1' \in Counts
               /\ RDY' \in BOOLEAN /\ Tao' \in Nat
    <3>1. Minus(PHO_cnt, Cnt_tmp1) % CountMod \in 0 .. CountMod - 1
      BY CountFieldType DEF PCTypeOK
    <3> QED BY <2>2, <3>1 DEF Report, PCTypeOK, Samples
  <2> QED
    BY <1>1, <2>1, <2>2 DEF ReportOnTrigger, ReportPlain, ReportMarked, PCTypeOK
<1> QED BY <1>2, <1>3, <1>4, <1>5, <1>6, Zenon DEF CounterStep

-----------------------------------------------------------------------------
(* Types: the generators and the hand-over. *)

LEMMA GenWidths ==
  /\ GenMod \in Nat /\ GenMod > 1 /\ PowerTao \in 0 .. GenMod - 1
  /\ TrigPeriods \subseteq 0 .. GenMod - 1 /\ SimPeriods \subseteq 0 .. GenMod - 1
  /\ BusGap \in Nat
  BY AcqAssumption, Zenon

LEMMA TrigKeepsTypes ==
  ASSUME Trig!TGTypeOK, NEW target \in Targets, TrigStep(target)
  PROVE  Trig!TGTypeOK'
<1>1. trTao' \in 0 .. GenMod - 1 /\ trTmp' \in 0 .. trTao'
  <2>1. CASE Trig!GenReset
    BY <2>1, GenWidths DEF Trig!GenReset, Trig!Clear, Trig!TGTypeOK
  <2>2. ASSUME NEW q \in TrigPeriods, Trig!GenWrite(q)
        PROVE  trTao' \in 0 .. GenMod - 1 /\ trTmp' \in 0 .. trTao'
    BY <2>2, GenWidths DEF Trig!GenWrite, Trig!Clear
  <2>3. CASE Trig!GenRun
    <3>1. /\ trTao' = trTao
          /\ \/ trTmp # trTao /\ trTmp' = (trTmp + 1) % GenMod
             \/ trTmp' \in {0, trTmp}
      BY <2>3, Zenon DEF Trig!GenRun, Trig!Accumulate, Trig!PulseFirst, Trig!PulseSecond,
         Trig!NoBranch, Trig!Step, Trig!tgVars
    <3>2. trTao \in 0 .. GenMod - 1 /\ trTmp \in 0 .. trTao
      BY Zenon DEF Trig!TGTypeOK
    <3> QED BY <3>1, <3>2, GenWidths
  <2> QED BY <2>1, <2>2, <2>3, Zenon DEF TrigStep
<1>2. trReady' \in BOOLEAN /\ trReady2' \in BOOLEAN
  BY Zenon DEF TrigStep, Trig!GenReset, Trig!GenWrite, Trig!Clear, Trig!GenRun, Trig!Accumulate,
     Trig!PulseFirst, Trig!PulseSecond, Trig!NoBranch, Trig!tgVars, Trig!TGTypeOK
<1> QED BY <1>1, <1>2, Zenon DEF Trig!TGTypeOK

LEMMA SimKeepsTypes ==
  ASSUME Sim!TGTypeOK, NEW target \in Targets, SimStep(target)
  PROVE  Sim!TGTypeOK'
<1>1. siTao' \in 0 .. GenMod - 1 /\ siTmp' \in 0 .. siTao'
  <2>1. CASE Sim!GenReset
    BY <2>1, GenWidths DEF Sim!GenReset, Sim!Clear, Sim!TGTypeOK
  <2>2. ASSUME NEW q \in SimPeriods, Sim!GenWrite(q)
        PROVE  siTao' \in 0 .. GenMod - 1 /\ siTmp' \in 0 .. siTao'
    BY <2>2, GenWidths DEF Sim!GenWrite, Sim!Clear
  <2>3. CASE Sim!GenRun
    <3>1. /\ siTao' = siTao
          /\ \/ siTmp # siTao /\ siTmp' = (siTmp + 1) % GenMod
             \/ siTmp' \in {0, siTmp}
      BY <2>3, Zenon DEF Sim!GenRun, Sim!Accumulate, Sim!PulseFirst, Sim!PulseSecond,
         Sim!NoBranch, Sim!Step, Sim!tgVars
    <3>2. siTao \in 0 .. GenMod - 1 /\ siTmp \in 0 .. siTao
      BY Zenon DEF Sim!TGTypeOK
    <3> QED BY <3>1, <3>2, GenWidths
  <2> QED BY <2>1, <2>2, <2>3, Zenon DEF SimStep
<1>2. siReady' \in BOOLEAN /\ siReady2' \in BOOLEAN
  BY Zenon DEF SimStep, Sim!GenReset, Sim!GenWrite, Sim!Clear, Sim!GenRun, Sim!Accumulate,
     Sim!PulseFirst, Sim!PulseSecond, Sim!NoBranch, Sim!tgVars, Sim!TGTypeOK
<1> QED BY <1>1, <1>2, Zenon DEF Sim!TGTypeOK

LEMMA TransferKeepsTypes ==
  ASSUME Xfer!STTypeOK, NEW hreset, NEW ready, NEW word \in Samples,
         Xfer!Transfer(hreset, ready, word)
  PROVE  Xfer!STTypeOK'
  BY DEF Xfer!Transfer, Xfer!Take, Xfer!Release, Xfer!stVars, Xfer!STTypeOK

-----------------------------------------------------------------------------
(* Types: the whole. *)

\* What a tick keeps of its own: the wiring, power-on, the bus, the reset.
Frame ==
  wired \in BOOLEAN /\ por \in 0 .. 4 /\ busy \in 0 .. BusGap /\ hpsReset \in BOOLEAN

\* Every register of the acquisition side keeps to its width, and neither
\* generator counts past its period (Pulse_cnt.v:4-8, TRI_gen.v:11-39,
\* ghrd.v:151-175), whatever is written and however the pins move.
THEOREM AcquisitionTyped == HSpec => []AcqTypeOK
<1>1. HInit => AcqTypeOK
  <2> SUFFICES ASSUME HInit PROVE AcqTypeOK
    OBVIOUS
  <2>1. PCTypeOK
    <3>1. 0 \in Nat /\ 0 \in Counts /\ 0 \in 0 .. 3 /\ 1 \in Stamps
      BY PulseAssumption DEF Counts, PhoMod, Stamps
    <3> QED BY <3>1, BlankSample, Zenon DEF HInit, AcqInit, PCInit, PCTypeOK
  <2>2. Trig!TGTypeOK
    <3>1. 0 \in 0 .. PowerTao
      BY GenWidths
    <3> QED BY <3>1, GenWidths, Zenon DEF HInit, AcqInit, Trig!TGInit, Trig!TGTypeOK
  <2>3. Sim!TGTypeOK
    <3>1. 0 \in 0 .. PowerTao
      BY GenWidths
    <3> QED BY <3>1, GenWidths, Zenon DEF HInit, AcqInit, Sim!TGInit, Sim!TGTypeOK
  <2>4. Xfer!STTypeOK
    BY BlankSample DEF HInit, AcqInit, Xfer!STInit, Xfer!STTypeOK
  <2>5. Frame
    <3>1. 4 \in 0 .. 4 /\ 0 \in 0 .. BusGap
      BY GenWidths
    <3> QED BY <3>1, Zenon DEF HInit, AcqInit, Frame
  <2> QED BY <2>1, <2>2, <2>3, <2>4, <2>5, Zenon DEF AcqTypeOK, Frame
<1>2. AcqTypeOK /\ [HNext]_acqHistVars => AcqTypeOK'
  <2> SUFFICES ASSUME AcqTypeOK, [HNext]_acqHistVars PROVE AcqTypeOK'
    OBVIOUS
  <2>1. PCTypeOK /\ Trig!TGTypeOK /\ Sim!TGTypeOK /\ Xfer!STTypeOK /\ Frame
    BY Zenon DEF AcqTypeOK, Frame
  <2>2. CASE HNext
    <3> PICK event \in Events, target \in Targets : AcqTick(event, target)
      BY <2>2, Zenon DEF HNext
    <3>1. /\ PowerOn /\ Bus(target) /\ TrigStep(target) /\ SimStep(target)
          /\ TriggerPin /\ PhotonPin /\ CounterStep(event, target)
          /\ Xfer!Transfer(hpsReset, RDY, Cnt_Stream)
          /\ hpsReset' \in BOOLEAN /\ UNCHANGED wired
      BY Zenon DEF AcqTick
    <3>2. PCTypeOK'
      BY <2>1, <3>1, PinsKeepTypes, MainKeepsTypes, Zenon DEF PCTypeOK
    <3>3. Trig!TGTypeOK' /\ Sim!TGTypeOK'
      BY <2>1, <3>1, TrigKeepsTypes, SimKeepsTypes, Zenon
    <3>4. Xfer!STTypeOK'
      <4>1. Cnt_Stream \in Samples
        BY <2>1, Zenon DEF PCTypeOK
      <4> QED BY <2>1, <3>1, <4>1, TransferKeepsTypes, Zenon
    <3>5. Frame'
      <4>1. por' \in 0 .. 4
        BY <2>1, <3>1 DEF Frame, PowerOn
      <4>2. busy' \in 0 .. BusGap
        BY <2>1, <3>1, GenWidths DEF Frame, Bus
      <4> QED BY <2>1, <3>1, <4>1, <4>2, Zenon DEF Frame
    <3> QED BY <3>2, <3>3, <3>4, <3>5, Zenon DEF AcqTypeOK, Frame
  <2>3. CASE UNCHANGED acqHistVars
    <3>1. UNCHANGED <<pcVars, wired, trVars, siVars, xfVars, por, busy, hpsReset>>
      BY <2>3, Zenon DEF acqHistVars, acqVars
    <3>2. PCTypeOK'
      BY <2>1, <3>1 DEF pcVars, mainVars, PCTypeOK
    <3>3. Trig!TGTypeOK' /\ Sim!TGTypeOK'
      BY <2>1, <3>1 DEF trVars, siVars, Trig!TGTypeOK, Sim!TGTypeOK
    <3>4. Xfer!STTypeOK' /\ Frame'
      BY <2>1, <3>1 DEF xfVars, Xfer!STTypeOK, Frame
    <3> QED BY <3>2, <3>3, <3>4, Zenon DEF AcqTypeOK, Frame
  <2> QED BY <2>2, <2>3
<1> QED BY <1>1, <1>2, PTL DEF HSpec

-----------------------------------------------------------------------------
(* The hand-over. *)

LEMMA OneSample ==
  ASSUME NEW w
  PROVE  /\ <<w>> # <<>> /\ Head(<<w>>) = w /\ Tail(<<w>>) = <<>>
         /\ Len(<<w>>) = 1 /\ Append(<<>>, w) = <<w>> /\ Len(<<>>) = 0
  OBVIOUS

Handing ==
  /\ counter_state \in {0, 1} /\ data_buffer_valid \in BOOLEAN
  /\ counter_state = 1 <=> data_buffer_valid

\* A word on offer is taken when none was taken in the tick before.
LEMMA TransferFacts ==
  ASSUME Handing, NEW hreset, NEW ready, NEW word, Xfer!Transfer(hreset, ready, word)
  PROVE  /\ Handing'
         /\ data_buffer_valid => ~data_buffer_valid'
         /\ ~data_buffer_valid /\ ready => data_buffer_valid' /\ data_buffer' = word
         /\ ~data_buffer_valid /\ ~ready => ~data_buffer_valid'
<1>1. CASE ready /\ counter_state = 0 /\ Xfer!Take(word)
  <2>1. counter_state' = 1 /\ data_buffer' = word /\ data_buffer_valid' = TRUE
    BY <1>1 DEF Xfer!Take
  <2>2. ~data_buffer_valid
    BY <1>1 DEF Handing
  <2>3. Handing'
    BY <2>1 DEF Handing
  <2> QED BY <1>1, <2>1, <2>2, <2>3, Zenon
<1>2. CASE (counter_state = 1 \/ ~ready) /\ Xfer!Release
  <2>1. counter_state' = 0 /\ data_buffer_valid' = FALSE
    BY <1>2 DEF Xfer!Release
  <2>2. data_buffer_valid \/ ~ready
    BY <1>2 DEF Handing
  <2>3. Handing'
    <3>1. counter_state' # 1 /\ counter_state' \in {0, 1}
      BY <2>1
    <3> QED BY <2>1, <3>1, Zenon DEF Handing
  <2> QED BY <2>1, <2>2, <2>3, Zenon
<1>3. CASE ~ready /\ counter_state = 0 /\ UNCHANGED Xfer!stVars
  <2>1. counter_state' = counter_state /\ data_buffer_valid' = data_buffer_valid
    BY <1>3 DEF Xfer!stVars
  <2> QED BY <1>3, <2>1 DEF Handing
<1> QED BY <1>1, <1>2, <1>3, Zenon DEF Xfer!Transfer

\* A report raises RDY, and without one or a write RDY goes down.
LEMMA ReadyFacts ==
  /\ Emit(FALSE) => RDY' = TRUE
  /\ MarkWindow \/ Count => RDY' = FALSE
  /\ \A q \in Taos : Write(q) => RDY' = RDY /\ Cnt_Stream' = Cnt_Stream
  BY DEF Emit, ReportOnTrigger, ReportPlain, ReportMarked, Report, MarkWindow, Count, Write

-----------------------------------------------------------------------------
(* The invariant. *)

\* The configuration, and the three ticks of reset.
Starting ==
  /\ por \in 0 .. 4
  /\ por \in 1 .. 2 => ~RDY
  /\ por = 1 => ~data_buffer_valid
  /\ por # 0 => inFlight = <<>>

\* Afterwards: no sample on its way, one just reported, one at the port, or
\* one at the port and another at the counter that comes too early.  A write
\* may have kept RDY up for the one at the port; then no other write follows.
Nothing == turn = "none" /\ ~RDY /\ ~data_buffer_valid /\ inFlight = <<>>

Reported == turn = "due" /\ RDY /\ ~data_buffer_valid /\ inFlight = <<Cnt_Stream>>

AtPort ==
  /\ turn = "none" /\ (RDY => busy > 0)
  /\ data_buffer_valid /\ inFlight = <<data_buffer>>

TooEarly == turn = "spare" /\ RDY /\ data_buffer_valid /\ inFlight = <<data_buffer>>

Running == por = 0 => Nothing \/ Reported \/ AtPort \/ TooEarly

Delivering == Handing /\ Starting /\ Running

LEMMA InitDelivering == HInit => Delivering
<1> SUFFICES ASSUME HInit PROVE Delivering
  OBVIOUS
<1>1. counter_state = 0 /\ data_buffer_valid = FALSE /\ por = 4 /\ inFlight = <<>>
  BY DEF HInit, AcqInit, Xfer!STInit
<1>2. Handing
  <2>1. counter_state # 1 /\ counter_state \in {0, 1}
    BY <1>1
  <2> QED BY <1>1, <2>1, Zenon DEF Handing
<1>3. Starting /\ Running
  BY <1>1 DEF Starting, Running
<1> QED BY <1>2, <1>3 DEF Delivering

LEMMA StartDelivers ==
  ASSUME Delivering, por # 0, NEW event \in Events, NEW target \in Targets,
         AcqTick(event, target), Watch(event, target)
  PROVE  Delivering'
<1>1. Handing /\ Starting
  BY DEF Delivering
<1>2. /\ PowerOn /\ Bus(target) /\ CounterStep(event, target)
      /\ Xfer!Transfer(hpsReset, RDY, Cnt_Stream)
  BY DEF AcqTick
<1>3. /\ Handing'
      /\ data_buffer_valid => ~data_buffer_valid'
      /\ ~data_buffer_valid /\ ~RDY => ~data_buffer_valid'
  BY <1>1, <1>2, TransferFacts
<1>4. por' \in IF por = 4 THEN {4, 3} ELSE {por - 1}
  BY <1>2 DEF PowerOn
<1>5. inFlight' = <<>>
  BY DEF Watch
<1>6. CASE RESET
  <2>1. por \in 1 .. 3 /\ por' = por - 1 /\ por' \in 0 .. 2
    BY <1>4, <1>6 DEF RESET
  <2>2. event = "reset" /\ Reset
    BY <1>2, <1>6 DEF CounterStep, Bus
  <2>3. RDY' = FALSE /\ turn' = "none"
    BY <2>2 DEF Reset, Watch, Due
  <2>4. por' \in {0, 1} => ~data_buffer_valid'
    <3>1. CASE por = 1
      BY <1>1, <1>3, <3>1 DEF Starting
    <3>2. CASE por = 2
      BY <1>1, <1>3, <3>2 DEF Starting
    <3> QED BY <2>1, <3>1, <3>2
  <2>5. Starting'
    BY <1>5, <2>1, <2>3, <2>4 DEF Starting
  <2>6. Running'
    BY <1>5, <2>3, <2>4 DEF Running, Nothing
  <2> QED BY <1>3, <2>5, <2>6 DEF Delivering
<1>7. CASE ~RESET
  <2>1. por' \in {4, 3}
    BY <1>1, <1>4, <1>7 DEF RESET, Starting
  <2>2. Starting' /\ Running'
    BY <1>5, <2>1 DEF Starting, Running
  <2> QED BY <1>3, <2>2 DEF Delivering
<1> QED BY <1>6, <1>7

LEMMA TickDelivers ==
  ASSUME BusGap > 0, Delivering, NEW event \in Events, NEW target \in Targets,
         AcqTick(event, target), Watch(event, target)
  PROVE  Delivering'
<1> SUFFICES ASSUME por = 0 PROVE Delivering'
  BY StartDelivers
<1>1. Handing /\ (Nothing \/ Reported \/ AtPort \/ TooEarly)
  BY DEF Delivering, Running
<1>2. /\ PowerOn /\ Bus(target) /\ CounterStep(event, target)
      /\ Xfer!Transfer(hpsReset, RDY, Cnt_Stream)
  BY DEF AcqTick
<1>3. /\ Handing'
      /\ data_buffer_valid => ~data_buffer_valid'
      /\ ~data_buffer_valid /\ RDY => data_buffer_valid' /\ data_buffer' = Cnt_Stream
      /\ ~data_buffer_valid /\ ~RDY => ~data_buffer_valid'
  BY <1>1, <1>2, TransferFacts
<1>4. por' = 0 /\ ~RESET
  BY <1>2 DEF PowerOn, RESET
<1>5. Starting'
  BY <1>4 DEF Starting
<1>6. Pushed = IF Reported THEN <<Cnt_Stream>> ELSE <<>>
  <2>1. CASE Nothing
    BY <2>1 DEF Nothing, Reported, Pushed
  <2>2. CASE Reported
    BY <2>2 DEF Reported, Pushed
  <2>3. CASE AtPort \/ TooEarly
    BY <2>3, OneSample DEF AtPort, TooEarly, Reported, Pushed
  <2> QED BY <1>1, <2>1, <2>2, <2>3
<1>7. /\ inFlight' = IF Due(event) THEN Append(Pushed, Cnt_Stream') ELSE Pushed
      /\ turn' = IF Due(event) THEN "due" ELSE IF event = "emit" THEN "spare" ELSE "none"
  BY DEF Watch
<1>8. Nothing' \/ Reported' \/ AtPort' \/ TooEarly'
  <2>1. CASE event = "emit" /\ Emit(FALSE)
    <3>1. RDY' = TRUE /\ (Due(event) <=> turn # "due")
      BY <2>1, ReadyFacts DEF Due
    <3>2. CASE Reported
      <4>1. ~Due(event) /\ inFlight' = <<Cnt_Stream>> /\ turn' = "spare"
        BY <1>6, <1>7, <2>1, <3>1, <3>2 DEF Reported
      <4>2. data_buffer_valid' /\ data_buffer' = Cnt_Stream
        BY <1>3, <3>2 DEF Reported
      <4> QED BY <3>1, <4>1, <4>2 DEF TooEarly
    <3>3. CASE Nothing \/ AtPort \/ TooEarly
      <4>1. turn # "due" /\ ~data_buffer_valid'
        BY <1>3, <3>3 DEF Nothing, AtPort, TooEarly
      <4>2. inFlight' = <<Cnt_Stream'>> /\ turn' = "due"
        BY <1>6, <1>7, <3>1, <4>1, OneSample DEF Reported
      <4> QED BY <3>1, <4>1, <4>2 DEF Reported
    <3> QED BY <1>1, <3>2, <3>3
  <2>2. CASE event = "write" /\ target = "counter" /\ \E q \in Taos : Write(q)
    <3>1. RDY' = RDY /\ Cnt_Stream' = Cnt_Stream /\ (Due(event) <=> turn = "spare")
      BY <2>2, ReadyFacts DEF Due
    <3>2. busy = 0 /\ busy' > 0
      BY <1>2, <2>2 DEF Bus
    <3>3. CASE Nothing
      <4>1. ~Due(event) /\ inFlight' = <<>> /\ turn' = "none"
        BY <1>6, <1>7, <2>2, <3>1, <3>3 DEF Nothing, Reported
      <4> QED BY <1>3, <3>1, <3>3, <4>1 DEF Nothing
    <3>4. CASE Reported
      <4>1. ~Due(event) /\ inFlight' = <<Cnt_Stream>> /\ turn' = "none"
        BY <1>6, <1>7, <2>2, <3>1, <3>4 DEF Reported
      <4> QED BY <1>3, <3>2, <3>4, <4>1 DEF Reported, AtPort
    <3>5. CASE AtPort
      <4>1. ~Due(event) /\ inFlight' = <<>> /\ turn' = "none"
        BY <1>6, <1>7, <2>2, <3>1, <3>5 DEF AtPort, Reported
      <4>2. ~RDY /\ ~data_buffer_valid'
        BY <1>3, <3>2, <3>5 DEF AtPort
      <4> QED BY <3>1, <4>1, <4>2 DEF Nothing
    <3>6. CASE TooEarly
      <4>1. inFlight' = <<Cnt_Stream'>> /\ turn' = "due"
        BY <1>6, <1>7, <3>1, <3>6, OneSample DEF TooEarly, Reported
      <4>2. RDY' /\ ~data_buffer_valid'
        BY <1>3, <3>1, <3>6 DEF TooEarly
      <4> QED BY <4>1, <4>2 DEF Reported
    <3> QED BY <1>1, <3>3, <3>4, <3>5, <3>6
  <2>3. CASE event = "count" /\ (MarkWindow \/ Count)
    <3>1. RDY' = FALSE /\ inFlight' = Pushed /\ turn' = "none"
      BY <1>7, <2>3, ReadyFacts DEF Due
    <3>2. CASE Reported
      BY <1>3, <1>6, <3>1, <3>2 DEF Reported, AtPort
    <3>3. CASE Nothing \/ AtPort \/ TooEarly
      <4>1. ~data_buffer_valid' /\ Pushed = <<>>
        BY <1>3, <1>6, <3>3 DEF Nothing, AtPort, TooEarly, Reported
      <4> QED BY <3>1, <4>1 DEF Nothing
    <3> QED BY <1>1, <3>2, <3>3
  <2> QED BY <1>2, <1>4, <2>1, <2>2, <2>3 DEF CounterStep
<1> QED BY <1>3, <1>5, <1>8 DEF Delivering, Running

\* Of the reports, every one but the second of two in consecutive ticks
\* reaches the FIFO's write port once, in order and unchanged (ghrd.v:162-171),
\* whatever Tao is, whatever is written to the counter and the generators and
\* however the pins move, if the bus never writes in two consecutive ticks.
THEOREM OnceInOrder ==
  ASSUME BusGap > 0
  PROVE  HSpec => []InOrderOnce
<1>1. HInit => Delivering
  BY InitDelivering
<1>2. Delivering /\ [HNext]_acqHistVars => Delivering'
  <2> SUFFICES ASSUME Delivering, [HNext]_acqHistVars PROVE Delivering'
    OBVIOUS
  <2>1. CASE HNext
    BY <2>1, TickDelivers DEF HNext
  <2>2. CASE UNCHANGED acqHistVars
    <3>1. UNCHANGED <<counter_state, data_buffer, data_buffer_valid, por, busy, inFlight, turn>>
      BY <2>2 DEF acqHistVars, acqVars, xfVars, hist
    <3>2. UNCHANGED <<Cnt_Stream, RDY>>
      BY <2>2 DEF acqHistVars, acqVars, pcVars, mainVars
    <3> QED BY <3>1, <3>2
         DEF Delivering, Handing, Starting, Running, Nothing, Reported, AtPort, TooEarly
  <2> QED BY <2>1, <2>2
<1>3. Delivering => InOrderOnce
  <2> SUFFICES ASSUME Delivering PROVE InOrderOnce
    OBVIOUS
  <2>1. \/ inFlight = <<>> /\ (por = 0 => ~data_buffer_valid)
        \/ inFlight = <<Cnt_Stream>> /\ ~data_buffer_valid
        \/ inFlight = <<data_buffer>>
    BY DEF Delivering, Starting, Running, Nothing, Reported, AtPort, TooEarly
  <2>2. Len(<<>>) <= 1 /\ Len(<<Cnt_Stream>>) <= 1 /\ Len(<<data_buffer>>) <= 1
    OBVIOUS
  <2>3. <<data_buffer>> # <<>> /\ Head(<<data_buffer>>) = data_buffer
    BY OneSample
  <2> QED BY <2>1, <2>2, <2>3 DEF InOrderOnce
<1> QED BY <1>1, <1>2, <1>3, PTL DEF HSpec

-----------------------------------------------------------------------------
(* The trigger output, wired back to the counter. *)

\* While the output is up, ready2 tells the tick of its rise, and with room
\* to fall the sampler counts along.
Pulsing ==
  /\ ~trReady => ~trReady2
  /\ trReady => (trReady2 <=> trTmp = 0)
  /\ trReady /\ trTao >= 2 => tri_1 \in {0, 1} /\ trTmp = tri_1

\* No pulse that a write cut short is on its way through the sampler.
Regular == Pulsing /\ (~trReady => tri_1 # 1)

\* Ticks between two triggers: a period too short for the output to fall
\* leaves tri_1 counting to 4.  Ticks to the next one.
Apart == IF trTao >= 2 THEN trTao + 1 ELSE 4
Away == IF ~trReady THEN trTao - trTmp + 2
        ELSE IF tri_1 <= 1 THEN 1 - tri_1 ELSE 5 - tri_1

Ranges ==
  /\ trTao \in Nat /\ trTmp \in 0 .. trTao /\ tri_1 \in 0 .. 3
  /\ GenMod \in Nat /\ trTao < GenMod

LEMMA TypedRanges ==
  ASSUME AcqTypeOK
  PROVE  Ranges /\ trReady \in BOOLEAN /\ trReady2 \in BOOLEAN
<1>1. trTao \in 0 .. GenMod - 1 /\ trTmp \in 0 .. trTao /\ tri_1 \in 0 .. 3
      /\ trReady \in BOOLEAN /\ trReady2 \in BOOLEAN
  BY Zenon DEF AcqTypeOK, Trig!TGTypeOK, PCTypeOK
<1>2. Ranges
  BY <1>1, GenWidths DEF Ranges
<1> QED BY <1>1, <1>2

\* The sampler sees the output as it was before the tick.
LEMMA SamplerFollows ==
  ASSUME wired, TriggerPin
  PROVE  /\ trReady => tri_1' = Up(tri_1, 4)
         /\ ~trReady => tri_1' = 0
  BY DEF TriggerPin, TriSample

\* The four branches, as far as the output is concerned.
LEMMA RunFacts ==
  ASSUME Trig!GenRun, Ranges
  PROVE  /\ trTao' = trTao
         /\ \/ /\ trTmp # trTao /\ ~trReady2
               /\ trTmp' = trTmp + 1 /\ ~trReady' /\ trReady2' = trReady2
            \/ trTmp = trTao /\ ~trReady2 /\ trTmp' = 0 /\ trReady' /\ trReady2'
            \/ trTmp # trTao /\ trReady2 /\ trTmp' = trTmp + 1 /\ trReady' /\ ~trReady2'
            \/ /\ trTmp = trTao /\ trReady2
               /\ trTmp' = trTmp /\ trReady' = trReady /\ trReady2' = trReady2
<1>1. trTmp # trTao => (trTmp + 1) % GenMod = trTmp + 1
  BY DEF Ranges
<1> QED
  BY <1>1, Zenon DEF Trig!GenRun, Trig!Accumulate, Trig!PulseFirst, Trig!PulseSecond,
     Trig!NoBranch, Trig!Step, Trig!tgVars

LEMMA PulsingKept ==
  ASSUME AcqTypeOK, wired, Pulsing, TriggerPin, Trig!GenRun
  PROVE  Pulsing'
<1>1. Ranges /\ trReady \in BOOLEAN /\ trReady2 \in BOOLEAN
  BY TypedRanges
<1>2. trReady => tri_1' = (IF tri_1 = 3 THEN 0 ELSE tri_1 + 1)
  BY <1>1, SamplerFollows DEF Up, Ranges
<1>3. ~trReady => tri_1' = 0
  BY SamplerFollows
<1> QED BY <1>1, <1>2, <1>3, RunFacts DEF Pulsing, Ranges

\* A write or a reset leaves the output down.
LEMMA PulsingAfterStop ==
  ASSUME Trig!GenReset \/ \E q \in TrigPeriods : Trig!GenWrite(q)
  PROVE  Pulsing'
<1>1. ~trReady' /\ ~trReady2'
  BY Zenon DEF Trig!GenReset, Trig!GenWrite, Trig!Clear
<1> QED BY <1>1 DEF Pulsing

\* Left to run, the trigger comes when Away has counted down to zero, and
\* the next one Apart ticks later.
LEMMA AwayCountsDown ==
  ASSUME AcqTypeOK, wired, Regular, TriggerPin, Trig!GenRun
  PROVE  /\ Regular'
         /\ Away \in Nat /\ (Triggered <=> Away = 0)
         /\ Apart \in Nat /\ Apart >= 3 /\ Apart' = Apart
         /\ Away' = IF Triggered THEN Apart - 1 ELSE Away - 1
<1>1. Ranges /\ trReady \in BOOLEAN /\ trReady2 \in BOOLEAN
  BY TypedRanges
<1>2. trReady => tri_1' = (IF tri_1 = 3 THEN 0 ELSE tri_1 + 1)
  BY <1>1, SamplerFollows DEF Up, Ranges
<1>3. ~trReady => tri_1' = 0
  BY SamplerFollows
<1>4. Pulsing'
  BY PulsingKept DEF Regular
<1>5. Regular'
  BY <1>1, <1>2, <1>3, <1>4, RunFacts DEF Regular, Pulsing, Ranges
<1>6. trTao' = trTao
  BY <1>1, RunFacts
<1>7. Apart \in Nat /\ Apart >= 3 /\ Apart' = Apart
  BY <1>1, <1>6 DEF Apart, Ranges
<1>8. Away \in Nat /\ (Triggered <=> Away = 0)
  BY <1>1 DEF Away, Triggered, Regular, Pulsing, Ranges
<1>9. Away' = IF Triggered THEN Apart - 1 ELSE Away - 1
  <2>1. CASE ~trReady
    <3>1. ~trReady2 /\ tri_1 # 1 /\ tri_1' = 0
      BY <1>3, <2>1 DEF Regular, Pulsing
    <3>2. \/ trTmp # trTao /\ trTmp' = trTmp + 1 /\ ~trReady'
          \/ trTmp = trTao /\ trReady'
      BY <1>1, <3>1, RunFacts, Zenon
    <3>3. Away = trTao - trTmp + 2 /\ ~Triggered
      BY <2>1, <3>1 DEF Away, Triggered
    <3>4. Away' = IF ~trReady' THEN trTao' - trTmp' + 2 ELSE 1
      BY <3>1 DEF Away
    <3> QED BY <1>1, <1>6, <3>2, <3>3, <3>4 DEF Ranges
  <2>2. CASE trReady /\ trTao >= 2
    <3>1. tri_1 \in {0, 1} /\ trTmp = tri_1 /\ (trReady2 <=> trTmp = 0) /\ trTmp # trTao
      BY <1>1, <2>2 DEF Regular, Pulsing, Ranges
    <3>2. CASE tri_1 = 0
      <4>1. trReady' /\ tri_1' = 1
        <5>1. trReady2 /\ trTmp # trTao
          BY <3>1, <3>2, Zenon
        <5>2. trReady'
          BY <1>1, <5>1, RunFacts, Zenon
        <5>3. tri_1' = 1
          BY <1>2, <2>2, <3>2
        <5> QED BY <5>2, <5>3
      <4>2. Away' = 0 /\ Away = 1 /\ ~Triggered
        BY <2>2, <3>2, <4>1 DEF Away, Triggered
      <4> QED BY <4>2
    <3>3. CASE tri_1 = 1
      <4>1. ~trReady' /\ trTmp' = 2
        BY <1>1, <3>1, <3>3, RunFacts
      <4> QED BY <1>1, <1>6, <2>2, <3>3, <4>1 DEF Away, Apart, Triggered, Ranges
    <3> QED BY <3>1, <3>2, <3>3
  <2>3. CASE trReady /\ trTao < 2
    <3>1. trReady'
      <4>1. trReady2 <=> trTmp = 0
        BY <2>3, Zenon DEF Regular, Pulsing
      <4>2. trTmp = 0 \/ trTmp = trTao
        BY <1>1, <2>3 DEF Ranges
      <4> QED BY <1>1, <2>3, <4>1, <4>2, RunFacts, Zenon
    <3>2. Away' = IF tri_1' <= 1 THEN 1 - tri_1' ELSE 5 - tri_1'
      BY <3>1 DEF Away
    <3> QED BY <1>1, <1>2, <2>3, <3>2 DEF Away, Apart, Triggered, Ranges
  <2> QED BY <1>1, <2>1, <2>2, <2>3 DEF Ranges
<1> QED BY <1>5, <1>7, <1>8, <1>9

-----------------------------------------------------------------------------
(* The window. *)

\* Ticks to the boundary that closes the window.
Left == IF CLK_cnt % Tao = 0 THEN 0 ELSE Tao - (CLK_cnt % Tao)

LEMMA ModuloIs ==
  ASSUME NEW t \in Nat, t > 0, NEW d \in Nat, NEW r \in 0 .. t - 1, NEW c \in Nat,
         c = t * d + r
  PROVE  c % t = r
<1>1. /\ c \div t \in Nat /\ c % t \in 0 .. t - 1
      /\ c = t * (c \div t) + (c % t)
  OBVIOUS
<1>2. PICK k \in Int : k = (c \div t) - d
  BY <1>1
<1>3. r - (c % t) = t * k
  BY <1>1, <1>2
<1>4. CASE k >= 1
  <2>1. t * k >= t
    BY <1>4
  <2> QED BY <1>1, <1>3, <2>1
<1>5. CASE k <= -1
  <2>1. t * k <= -t
    BY <1>5
  <2> QED BY <1>1, <1>3, <2>1
<1>6. CASE k = 0
  BY <1>1, <1>3, <1>6
<1> QED BY <1>4, <1>5, <1>6

LEMMA ModuloRange ==
  ASSUME NEW c \in Nat, NEW t \in Nat, t # 0
  PROVE  (c % t) \in 0 .. t - 1
  OBVIOUS

LEMMA UpModulo ==
  ASSUME NEW c \in Nat, NEW t \in Nat, t > 0
  PROVE  (c + 1) % t = IF c % t = t - 1 THEN 0 ELSE (c % t) + 1
<1>1. PICK d \in Nat, r \in 0 .. t - 1 : c = t * d + r /\ r = c % t
  <2>1. /\ c \div t \in Nat /\ c % t \in 0 .. t - 1
        /\ c = t * (c \div t) + (c % t)
    OBVIOUS
  <2> QED BY <2>1
<1>2. CASE r = t - 1
  <2>1. c + 1 = t * (d + 1) + 0 /\ d + 1 \in Nat /\ 0 \in 0 .. t - 1 /\ c + 1 \in Nat
    BY <1>1, <1>2
  <2>2. (c + 1) % t = 0
    BY ONLY <2>1, ModuloIs, t \in Nat, t > 0
  <2> QED BY <1>1, <1>2, <2>2
<1>3. CASE r # t - 1
  <2>1. c + 1 = t * d + (r + 1) /\ r + 1 \in 0 .. t - 1 /\ c + 1 \in Nat
    BY <1>1, <1>3
  <2>2. (c + 1) % t = r + 1
    BY ONLY <2>1, ModuloIs, t \in Nat, t > 0, d \in Nat
  <2> QED BY <1>1, <1>3, <2>2
<1> QED BY <1>2, <1>3

LEMMA LeftFacts ==
  ASSUME CLK_cnt \in Stamps, Tao \in Nat, Tao # 0
  PROVE  /\ Left \in 0 .. Tao - 1 /\ (AtBoundary <=> Left = 0)
         /\ OffBoundary <=> ~AtBoundary
  BY PulseAssumption DEF Left, AtBoundary, OffBoundary, Stamps, Remainder

LEMMA LeftCountsDown ==
  ASSUME CLK_cnt \in Stamps, Tao \in Nat, Tao # 0, Tao' = Tao,
         OffBoundary, CLK_cnt' = Up(CLK_cnt, StampMod)
  PROVE  Left' <= Left - 1
<1> DEFINE r == CLK_cnt % Tao
           n == CLK_cnt' % Tao
<1>1. CLK_cnt \in Nat /\ r \in 1 .. Tao - 1 /\ StampMod \in Nat /\ Tao > 0
  <2>1. CLK_cnt \in Nat /\ StampMod \in Nat /\ Tao > 0
    BY PulseAssumption DEF Stamps
  <2>2. r \in 0 .. Tao - 1
    BY <2>1
  <2>3. r # 0
    BY DEF OffBoundary, Remainder
  <2> HIDE DEF r
  <2> QED BY <2>1, <2>2, <2>3
<1>2. Left = Tao - r
  BY <1>1 DEF Left
<1>3. Left' = IF n = 0 THEN 0 ELSE Tao - n
  BY Zenon DEF Left
<1>4. CASE CLK_cnt = StampMod - 1
  <2>1. CLK_cnt' = 0
    BY <1>4 DEF Up
  <2>2. n = 0
    BY <2>1
  <2> HIDE DEF r, n
  <2> QED BY <1>1, <1>2, <1>3, <2>2
<1>5. CASE CLK_cnt # StampMod - 1
  <2>1. CLK_cnt' = CLK_cnt + 1
    BY <1>5 DEF Up
  <2>2. n = IF r = Tao - 1 THEN 0 ELSE r + 1
    BY <1>1, <2>1, UpModulo, Zenon
  <2> HIDE DEF r, n
  <2> QED BY <1>1, <1>2, <1>3, <2>2
<1> QED BY <1>4, <1>5

-----------------------------------------------------------------------------
(* Marks and flags. *)

\* Tao is no wider than CLK_cnt (Pulse_cnt.v:6,25).
SameWidth == \A q \in Taos \cup {ResetTao} : q < StampMod

\* No mark; the mark of a window that had a trigger, with another one before
\* the boundary only if they are less than a window apart; or a mark that an
\* earlier window left, and a trigger that will come before the boundary.
Clean == ~tmp /\ ~marks
Marking == tmp /\ marks /\ Apart + Left + 1 <= Tao + Away
LeftOver == tmp /\ ~marks /\ CLK_cnt \in 1 .. Tao - 1 /\ Away < Tao - CLK_cnt

\* After RESET, Tao holds ResetTao or what the bus wrote.
TaoWritten == por \in 0 .. 2 => Tao \in Taos \cup {ResetTao}

Flagging ==
  /\ TaoWritten
  /\ wired /\ por \in 0 .. 2 => Pulsing
  /\ settled => por = 0
  /\ wired /\ settled /\ Tao # 0 => Regular /\ (Clean \/ Marking \/ LeftOver)

\* The tick of a report: what it says and what it leaves.
LEMMA ReportLeaves ==
  ASSUME tmp \in BOOLEAN, Emit(FALSE)
  PROVE  /\ AtBoundary /\ Tao' = Tao
         /\ Triggered => Cnt_Stream'.flag = TRUE /\ tmp' = tmp /\ CLK_cnt' = 1
         /\ ~Triggered => Cnt_Stream'.flag = tmp /\ tmp' = FALSE
<1>1. PICK counted, latched :
         \/ ReportOnTrigger(counted, latched)
         \/ ReportPlain(counted, latched)
         \/ ReportMarked(counted, latched)
  BY Zenon DEF Emit
<1>2. CASE ReportOnTrigger(counted, latched)
  BY <1>2 DEF ReportOnTrigger, Report
<1>3. CASE ReportPlain(counted, latched)
  BY <1>3 DEF ReportPlain, Report
<1>4. CASE ReportMarked(counted, latched)
  BY <1>4 DEF ReportMarked, Report
<1> QED BY <1>1, <1>2, <1>3, <1>4

LEMMA CountLeaves ==
  ASSUME MarkWindow \/ Count
  PROVE  /\ OffBoundary /\ Tao' = Tao /\ CLK_cnt' = Up(CLK_cnt, StampMod)
         /\ Triggered => tmp' = TRUE
         /\ ~Triggered => tmp' = tmp
  BY DEF MarkWindow, Count

\* What a running tick without a write to counter or trigger is made of.
LEMMA QuietTick ==
  ASSUME NEW event \in Events, NEW target \in Targets, por = 0,
         target \notin {"counter", "trigger"}, AcqTick(event, target), Watch(event, target)
  PROVE  /\ por' = 0 /\ wired' = wired /\ Trig!GenRun /\ TriggerPin
         /\ \/ /\ event = "count" /\ (MarkWindow \/ Count)
               /\ marks' = (marks \/ Triggered) /\ emitted' = FALSE
            \/ event = "emit" /\ Emit(FALSE) /\ marks' = FALSE /\ emitted' = TRUE
         /\ settled' = (settled \/ (event = "emit" /\ ~Cnt_Stream'.flag))
<1>1. /\ PowerOn /\ TrigStep(target) /\ TriggerPin /\ CounterStep(event, target)
      /\ wired' = wired
  BY Zenon DEF AcqTick
<1>2. ~RESET /\ por' = 0
  BY <1>1 DEF RESET, PowerOn
<1>3. Trig!GenRun
  BY <1>1, <1>2, Zenon DEF TrigStep
<1>4. \/ event = "count" /\ (MarkWindow \/ Count)
      \/ event = "emit" /\ Emit(FALSE)
  BY <1>1, <1>2, Zenon DEF CounterStep
<1>5. /\ event = "count" => marks' = (marks \/ Triggered)
      /\ event = "emit" => marks' = FALSE
      /\ emitted' = (event = "emit")
  BY DEF Watch
<1>6. settled' = (settled \/ (event = "emit" /\ ~Cnt_Stream'.flag))
  BY DEF Watch
<1> QED BY <1>1, <1>2, <1>3, <1>4, <1>5, <1>6

\* What the invariant makes of a report.
LEMMA ReportIsExact ==
  ASSUME AcqTypeOK, Flagging, wired, settled, Tao # 0, Emit(FALSE)
  PROVE  Cnt_Stream'.flag <=> (marks \/ Triggered)
<1>1. tmp \in BOOLEAN /\ Tao \in Nat /\ CLK_cnt \in Stamps
  BY Zenon DEF AcqTypeOK, PCTypeOK
<1>2. AtBoundary
  BY <1>1, ReportLeaves
<1>3. ~LeftOver
  BY <1>1, <1>2 DEF LeftOver, AtBoundary, Remainder
<1>4. tmp <=> marks
  BY <1>3 DEF Flagging, Clean, Marking
<1> QED BY <1>1, <1>4, ReportLeaves

LEMMA OneLess ==
  ASSUME NEW a \in Int, NEW t \in Int, NEW x \in Int, NEW y \in Int, NEW z \in Int,
         y <= x - 1, a + x + 1 <= t + z
  PROVE  a + y + 1 <= t + (z - 1)
  OBVIOUS

\* A tick in which a settled counter counts.
LEMMA CountKeepsMarks ==
  ASSUME SameWidth, AcqTypeOK, Flagging, wired, settled, Tao # 0,
         TriggerPin, Trig!GenRun, MarkWindow \/ Count, marks' = (marks \/ Triggered)
  PROVE  Regular' /\ (Clean' \/ Marking' \/ LeftOver')
<1>1. CLK_cnt \in Stamps /\ Tao \in Nat /\ tmp \in BOOLEAN
  BY Zenon DEF AcqTypeOK, PCTypeOK
<1>2. /\ OffBoundary /\ Tao' = Tao /\ CLK_cnt' = Up(CLK_cnt, StampMod)
      /\ Triggered => tmp' = TRUE
      /\ ~Triggered => tmp' = tmp
  BY CountLeaves
<1>3. Regular /\ (Clean \/ Marking \/ LeftOver)
  BY DEF Flagging
<1>4. /\ Regular'
      /\ Away \in Nat /\ (Triggered <=> Away = 0)
      /\ Apart \in Nat /\ Apart >= 3 /\ Apart' = Apart
      /\ Away' = IF Triggered THEN Apart - 1 ELSE Away - 1
  BY <1>3, AwayCountsDown
<1>5. Left \in 0 .. Tao - 1 /\ Left' <= Left - 1
  BY <1>1, <1>2, LeftFacts, LeftCountsDown
<1>6. Left' \in Int
  <2>1. CLK_cnt' \in Nat
    BY <1>1, <1>2, PulseAssumption DEF Up, Stamps
  <2>2. Tao' \in Nat /\ Tao' # 0
    BY <1>1, <1>2
  <2>3. (CLK_cnt' % Tao') \in 0 .. Tao' - 1
    BY <2>1, <2>2, ModuloRange, Zenon
  <2>4. Left' = 0 \/ Left' = Tao' - (CLK_cnt' % Tao')
    BY Zenon DEF Left
  <2> QED BY <2>2, <2>3, <2>4
<1>7. CASE Triggered
  <2>1. tmp' /\ marks' /\ Away' = Apart - 1
    BY <1>2, <1>4, <1>7
  <2>2. Left' <= Tao - 2
    BY <1>1, <1>5, <1>6
  <2>3. Apart' + Left' + 1 <= Tao' + Away'
    <3>1. Tao' = Tao /\ Apart' = Apart /\ Tao \in Nat /\ Apart \in Nat
      BY <1>1, <1>2, <1>4
    <3>2. Apart + (Tao - 1) + 1 <= Tao + Apart /\ Left' <= (Tao - 1) - 1
          /\ Tao - 1 \in Int /\ Apart \in Int /\ Tao \in Int
      BY <1>6, <2>2, <3>1
    <3>3. Apart + Left' + 1 <= Tao + (Apart - 1)
      BY <1>6, <3>2, OneLess, Zenon
    <3> QED BY <2>1, <3>1, <3>3, Zenon
  <2> QED BY <1>4, <2>1, <2>3 DEF Marking
<1>8. CASE ~Triggered
  <2>1. tmp' = tmp /\ marks' = (marks \/ FALSE) /\ Away' = Away - 1
    BY <1>2, <1>4, <1>8
  <2>2. CASE Clean
    BY <1>4, <2>1, <2>2 DEF Clean
  <2>3. CASE Marking
    <3>1. Apart' + Left' + 1 <= Tao' + Away'
      <4>1. Apart + Left + 1 <= Tao + Away
        BY <2>3 DEF Marking
      <4>2. Tao' = Tao /\ Apart' = Apart /\ Tao \in Nat /\ Apart \in Nat /\ Away \in Nat
        BY <1>1, <1>2, <1>4
      <4>3. Apart + Left' + 1 <= Tao + (Away - 1)
        <5>1. Apart \in Int /\ Tao \in Int /\ Away \in Int /\ Left \in Int
          BY <1>5, <4>2
        <5> QED BY <1>5, <1>6, <4>1, <5>1, OneLess, Zenon
      <4> QED BY <2>1, <4>2, <4>3, Zenon
    <3> QED BY <1>4, <2>1, <2>3, <3>1 DEF Marking
  <2>4. CASE LeftOver
    <3>1. CLK_cnt \in 1 .. Tao - 1 /\ Away < Tao - CLK_cnt /\ Away >= 1
      BY <1>4, <1>8, <2>4 DEF LeftOver
    <3>2. Tao < StampMod /\ StampMod \in Nat
      <4>1. Tao \in Taos \cup {ResetTao}
        BY DEF Flagging, TaoWritten
      <4> QED BY <4>1, PulseAssumption DEF SameWidth
    <3>3. CLK_cnt' = CLK_cnt + 1
      BY <1>1, <1>2, <3>1, <3>2 DEF Up
    <3>4. CLK_cnt' \in 1 .. Tao' - 1 /\ Away' < Tao' - CLK_cnt'
      BY <1>1, <1>2, <1>4, <2>1, <3>1, <3>3
    <3> QED BY <1>4, <2>1, <2>4, <3>4 DEF LeftOver
  <2> QED BY <1>3, <2>2, <2>3, <2>4
<1> QED BY <1>7, <1>8

\* A tick in which it reports.  The mark stays if a trigger comes with the
\* boundary; then triggers are less than a window apart.
LEMMA ReportKeepsMarks ==
  ASSUME AcqTypeOK, Flagging, wired, settled, Tao # 0,
         TriggerPin, Trig!GenRun, Emit(FALSE), marks' = FALSE
  PROVE  Regular' /\ (Clean' \/ Marking' \/ LeftOver')
<1>1. CLK_cnt \in Stamps /\ Tao \in Nat /\ tmp \in BOOLEAN
  BY Zenon DEF AcqTypeOK, PCTypeOK
<1>2. /\ AtBoundary /\ Tao' = Tao
      /\ Triggered => tmp' = tmp /\ CLK_cnt' = 1
      /\ ~Triggered => tmp' = FALSE
  BY <1>1, ReportLeaves
<1>3. Regular /\ (Clean \/ Marking \/ LeftOver)
  BY DEF Flagging
<1>4. /\ Regular'
      /\ Away \in Nat /\ (Triggered <=> Away = 0)
      /\ Apart \in Nat /\ Apart >= 3 /\ Apart' = Apart
      /\ Away' = IF Triggered THEN Apart - 1 ELSE Away - 1
  BY <1>3, AwayCountsDown
<1>5. CASE Triggered /\ tmp
  <2>1. ~LeftOver
    BY <1>1, <1>2 DEF LeftOver, AtBoundary, Remainder
  <2>2. Apart + Left + 1 <= Tao + Away
    BY <1>3, <1>5, <2>1 DEF Clean, Marking
  <2>3. Left = 0 /\ Away = 0
    BY <1>1, <1>2, <1>4, <1>5, LeftFacts
  <2>4. CLK_cnt' = 1 /\ Away' = Apart - 1 /\ tmp'
    BY <1>2, <1>4, <1>5
  <2>5. CLK_cnt' \in 1 .. Tao' - 1 /\ Away' < Tao' - CLK_cnt'
    BY <1>1, <1>2, <1>4, <2>2, <2>3, <2>4
  <2> QED BY <1>4, <2>4, <2>5 DEF LeftOver
<1>6. CASE ~Triggered \/ ~tmp
  <2>1. ~tmp'
    BY <1>1, <1>2, <1>6
  <2> QED BY <1>4, <2>1 DEF Clean
<1> QED BY <1>5, <1>6

-----------------------------------------------------------------------------
(* The invariant of the flags. *)

LEMMA InitFlagging == HInit => Flagging
<1> SUFFICES ASSUME HInit PROVE Flagging
  OBVIOUS
<1>1. por = 4 /\ settled = FALSE
  BY DEF HInit, AcqInit
<1> QED BY <1>1 DEF Flagging, TaoWritten

\* The first unflagged report after a write finds no trigger at the sampler
\* and leaves no mark.
LEMMA SettlesClean ==
  ASSUME AcqTypeOK, wired, Pulsing, Tao # 0, TriggerPin, Trig!GenRun,
         Emit(FALSE), ~Cnt_Stream'.flag, marks' = FALSE
  PROVE  Regular' /\ Clean'
<1>1. tmp \in BOOLEAN
  BY Zenon DEF AcqTypeOK, PCTypeOK
<1>2. ~Triggered /\ tmp' = FALSE
  BY <1>1, ReportLeaves
<1>3. Regular
  BY <1>2, Zenon DEF Regular, Triggered
<1>4. Regular'
  BY <1>3, AwayCountsDown
<1> QED BY <1>2, <1>4 DEF Clean

LEMMA TickKeepsTao ==
  ASSUME AcqTypeOK, TaoWritten, NEW event \in Events, NEW target \in Targets,
         AcqTick(event, target)
  PROVE  TaoWritten'
<1> SUFFICES ASSUME por' \in 0 .. 2 PROVE Tao' \in Taos \cup {ResetTao}
  BY DEF TaoWritten
<1>1. PowerOn /\ Bus(target) /\ CounterStep(event, target)
  BY Zenon DEF AcqTick
<1>2. CASE RESET
  <2>1. target # "counter"
    BY <1>1, <1>2 DEF Bus, RESET
  <2>2. Reset
    BY <1>1, <1>2, <2>1, Zenon DEF CounterStep, Bus
  <2> QED BY <2>2 DEF Reset
<1>3. CASE ~RESET
  <2>1. por = 0
    <3>1. por \in 0 .. 4
      BY Zenon DEF AcqTypeOK
    <3> QED BY <1>1, <1>3, <3>1 DEF PowerOn, RESET
  <2>2. Tao \in Taos \cup {ResetTao}
    BY <2>1 DEF TaoWritten
  <2>3. CASE Reset
    BY <2>3 DEF Reset
  <2>4. CASE \E q \in Taos : Write(q)
    BY <2>4 DEF Write
  <2>5. CASE MarkWindow \/ Count
    BY <2>2, <2>5, CountLeaves
  <2>6. CASE Emit(FALSE)
    <3>1. tmp \in BOOLEAN
      BY Zenon DEF AcqTypeOK, PCTypeOK
    <3> QED BY <2>2, <2>6, <3>1, ReportLeaves
  <2> QED BY <1>1, <2>3, <2>4, <2>5, <2>6, Zenon DEF CounterStep
<1> QED BY <1>2, <1>3

LEMMA TickKeepsPulsing ==
  ASSUME AcqTypeOK, Flagging, NEW event \in Events, NEW target \in Targets,
         AcqTick(event, target), wired, por' \in 0 .. 2
  PROVE  Pulsing'
<1>1. PowerOn /\ TrigStep(target) /\ TriggerPin
  BY Zenon DEF AcqTick
<1>2. CASE Trig!GenReset
  BY <1>2, PulsingAfterStop
<1>3. CASE \E q \in TrigPeriods : Trig!GenWrite(q)
  BY <1>3, PulsingAfterStop
<1>4. CASE Trig!GenRun /\ ~RESET
  <2>1. por = 0
    <3>1. por \in 0 .. 4
      BY Zenon DEF AcqTypeOK
    <3> QED BY <1>1, <1>4, <3>1 DEF PowerOn, RESET
  <2>2. Pulsing
    BY <2>1 DEF Flagging
  <2> QED BY <1>1, <1>4, <2>2, PulsingKept
<1> QED BY <1>1, <1>2, <1>3, <1>4, Zenon DEF TrigStep

LEMMA TickKeepsFlagging ==
  ASSUME SameWidth, AcqTypeOK, Flagging, NEW event \in Events, NEW target \in Targets,
         AcqTick(event, target), Watch(event, target)
  PROVE  Flagging'
<1>1. wired' = wired
  BY Zenon DEF AcqTick
<1>2. settled' => por = 0 /\ target \notin {"counter", "trigger"}
  BY DEF Watch
<1>3. settled' => por' = 0
  BY <1>2, QuietTick
<1>4. ASSUME wired', settled', Tao' # 0
      PROVE  Regular' /\ (Clean' \/ Marking' \/ LeftOver')
  <2>1. /\ wired /\ Trig!GenRun /\ TriggerPin
        /\ \/ (MarkWindow \/ Count) /\ marks' = (marks \/ Triggered) /\ event = "count"
           \/ Emit(FALSE) /\ marks' = FALSE
        /\ settled' = (settled \/ (event = "emit" /\ ~Cnt_Stream'.flag))
    BY <1>1, <1>2, <1>4, QuietTick
  <2>2. tmp \in BOOLEAN
    BY Zenon DEF AcqTypeOK, PCTypeOK
  <2>3. Tao # 0
    BY <1>4, <2>1, <2>2, CountLeaves, ReportLeaves
  <2>4. CASE settled
    BY <2>1, <2>3, <2>4, CountKeepsMarks, ReportKeepsMarks
  <2>5. CASE ~settled
    <3>1. Emit(FALSE) /\ marks' = FALSE /\ ~Cnt_Stream'.flag
      BY <1>4, <2>1, <2>5
    <3>2. Pulsing
      BY <1>2, <1>4, <2>1 DEF Flagging
    <3> QED BY <2>1, <2>3, <3>1, <3>2, SettlesClean
  <2> QED BY <2>4, <2>5
<1> QED BY <1>1, <1>3, <1>4, TickKeepsTao, TickKeepsPulsing DEF Flagging

\* Flags say that the window held a trigger, from the first unflagged
\* sample to the next write, for every pair of periods (Pulse_cnt.v:46-88,
\* TRI_gen.v:24-38).  Flagging is the inductive invariant: a mark is of
\* this window, or a trigger is due before the window ends.
THEOREM FlagsExact ==
  ASSUME SameWidth
  PROVE  HSpec => FlagsOnceSettled
<1>1. HInit => Flagging
  BY InitFlagging
<1>2. AcqTypeOK /\ Flagging /\ [HNext]_acqHistVars => Flagging'
  <2> SUFFICES ASSUME AcqTypeOK, Flagging, [HNext]_acqHistVars PROVE Flagging'
    OBVIOUS
  <2>1. CASE HNext
    BY <2>1, TickKeepsFlagging DEF HNext
  <2>2. CASE UNCHANGED acqHistVars
    <3>1. UNCHANGED <<pcVars, trVars, wired, por, hist>>
      BY <2>2, Zenon DEF acqHistVars, acqVars
    <3>2. UNCHANGED <<Tao, tmp, CLK_cnt, tri_1>>
      BY <3>1 DEF pcVars, mainVars
    <3>3. UNCHANGED <<trTao, trTmp, trReady, trReady2, marks, settled>>
      BY <3>1 DEF trVars, hist
    <3> QED BY <3>1, <3>2, <3>3
         DEF Flagging, TaoWritten, Pulsing, Regular, Clean, Marking, LeftOver, Apart, Away, Left
  <2> QED BY <2>1, <2>2
<1>3. AcqTypeOK /\ Flagging /\ [HNext]_acqHistVars =>
        [wired /\ emitted' /\ settled /\ Tao # 0 =>
           (Cnt_Stream'.flag <=> (marks \/ Triggered))]_acqHistVars
  <2> SUFFICES ASSUME AcqTypeOK, Flagging, HNext, wired, emitted', settled, Tao # 0
               PROVE  Cnt_Stream'.flag <=> (marks \/ Triggered)
    OBVIOUS
  <2>1. PICK event \in Events, target \in Targets :
          AcqTick(event, target) /\ Watch(event, target)
    BY Zenon DEF HNext
  <2>2. event = "emit"
    BY <2>1 DEF Watch
  <2>3. Emit(FALSE)
    BY <2>1, <2>2, Zenon DEF AcqTick, CounterStep
  <2> QED BY <2>3, ReportIsExact
<1> QED BY <1>1, <1>2, <1>3, AcquisitionTyped, PTL DEF HSpec, FlagsOnceSettled

-----------------------------------------------------------------------------
(* Simulated photons. *)

\* PHO_cnt is as wide as CLK_cnt (Pulse_cnt.v:7,25), and no integration time
\* is zero: the settings server refuses it.
CountsFit ==
  /\ StampMod <= PhoMod /\ CountMod > 1
  /\ 0 \notin Taos \cup {ResetTao}

\* With room to fall the output is up right after it rose, and rises next
\* when Rise has counted down.
SimPhase ==
  /\ siReady2 => siReady /\ siTmp = 0
  /\ siReady /\ siTao >= 2 => siTmp <= 1

Rise == siTao - siTmp

\* Ticks and photons since the last report.
Elapsed == IF CLK_cnt % Tao = 0 THEN Tao ELSE CLK_cnt % Tao
Pulses == Minus(PHO_cnt, Cnt_tmp1)

\* Elapsed + Rise - (siTao + 1) * Pulses is what Rise was at the report.
Balanced ==
  /\ (siTao + 1) * Pulses <= Elapsed + Rise
  /\ Elapsed + Rise <= (siTao + 1) * Pulses + siTao

Simulating ==
  /\ TaoWritten
  /\ SimPhase
  /\ calm => por = 0
  /\ wired /\ calm /\ siTao >= 2 /\ CLK_cnt # 0 => Balanced

SimRanges ==
  /\ siTao \in Nat /\ siTmp \in 0 .. siTao
  /\ GenMod \in Nat /\ siTao < GenMod

LEMMA TypedSim ==
  ASSUME AcqTypeOK
  PROVE  SimRanges /\ siReady \in BOOLEAN /\ siReady2 \in BOOLEAN
<1>1. siTao \in 0 .. GenMod - 1 /\ siTmp \in 0 .. siTao
      /\ siReady \in BOOLEAN /\ siReady2 \in BOOLEAN
  BY Zenon DEF AcqTypeOK, Sim!TGTypeOK
<1>2. SimRanges
  BY <1>1, GenWidths DEF SimRanges
<1> QED BY <1>1, <1>2

LEMMA SimRunFacts ==
  ASSUME Sim!GenRun, SimRanges
  PROVE  /\ siTao' = siTao
         /\ \/ /\ siTmp # siTao /\ ~siReady2
               /\ siTmp' = siTmp + 1 /\ ~siReady' /\ siReady2' = siReady2
            \/ siTmp = siTao /\ ~siReady2 /\ siTmp' = 0 /\ siReady' /\ siReady2'
            \/ siTmp # siTao /\ siReady2 /\ siTmp' = siTmp + 1 /\ siReady' /\ ~siReady2'
            \/ /\ siTmp = siTao /\ siReady2
               /\ siTmp' = siTmp /\ siReady' = siReady /\ siReady2' = siReady2
<1>1. siTmp # siTao => (siTmp + 1) % GenMod = siTmp + 1
  BY DEF SimRanges
<1> QED
  BY <1>1, Zenon DEF Sim!GenRun, Sim!Accumulate, Sim!PulseFirst, Sim!PulseSecond,
     Sim!NoBranch, Sim!Step, Sim!tgVars

LEMMA SimPhaseKept ==
  ASSUME AcqTypeOK, SimPhase, NEW target \in Targets, SimStep(target)
  PROVE  SimPhase'
<1>1. SimRanges /\ siReady \in BOOLEAN /\ siReady2 \in BOOLEAN
  BY TypedSim
<1>2. CASE Sim!GenReset \/ \E q \in SimPeriods : Sim!GenWrite(q)
  <2>1. ~siReady' /\ ~siReady2'
    BY <1>2, Zenon DEF Sim!GenReset, Sim!GenWrite, Sim!Clear
  <2> QED BY <2>1 DEF SimPhase
<1>3. CASE Sim!GenRun
  BY <1>1, <1>3, SimRunFacts DEF SimPhase, SimRanges
<1> QED BY <1>2, <1>3, Zenon DEF SimStep

\* A photon comes when Rise is zero, and only then.
LEMMA RiseCountsDown ==
  ASSUME AcqTypeOK, SimPhase, siTao >= 2, Sim!GenRun
  PROVE  /\ siTao' = siTao /\ Rise \in 0 .. siTao
         /\ Rise = 0 => siReady' /\ ~siReady /\ Rise' = siTao
         /\ Rise # 0 => ~(siReady' /\ ~siReady) /\ Rise' = Rise - 1
<1>1. SimRanges /\ siReady \in BOOLEAN /\ siReady2 \in BOOLEAN
  BY TypedSim
<1>2. siTao' = siTao /\ Rise \in 0 .. siTao /\ (Rise = 0 <=> siTmp = siTao)
  BY <1>1, SimRunFacts DEF Rise, SimRanges
<1>3. CASE siTmp = siTao
  <2>1. ~siReady2 /\ ~siReady
    BY <1>1, <1>3 DEF SimPhase, SimRanges
  <2>2. siTmp' = 0 /\ siReady'
    BY <1>1, <1>3, <2>1, SimRunFacts, Zenon
  <2>3. Rise' = siTao
    BY <1>1, <1>2, <2>2 DEF Rise, SimRanges
  <2> QED BY <1>2, <1>3, <2>1, <2>2, <2>3, Zenon
<1>4. CASE siTmp # siTao
  <2>1. siTmp' = siTmp + 1 /\ ~(siReady' /\ ~siReady2)
    BY <1>1, <1>4, SimRunFacts, Zenon
  <2>2. ~(siReady' /\ ~siReady)
    BY <2>1, Zenon DEF SimPhase
  <2>3. Rise' = Rise - 1
    BY <1>1, <1>2, <2>1 DEF Rise, SimRanges
  <2> QED BY <1>2, <1>4, <2>2, <2>3, Zenon
<1> QED BY <1>3, <1>4

LEMMA PulsesUp ==
  ASSUME NEW a \in Counts, NEW b \in Counts, Minus(a, b) < PhoMod - 1
  PROVE  Minus(Up(a, PhoMod), b) = Minus(a, b) + 1
  BY PulseAssumption DEF Minus, Up, Counts, PhoMod

LEMMA PulsesSince ==
  ASSUME NEW a \in Counts
  PROVE  Minus(a, a) = 0 /\ Minus(Up(a, PhoMod), a) = 1
  BY PulseAssumption DEF Minus, Up, Counts, PhoMod

\* The inputs of the inequalities.
LEMMA MorePulses ==
  ASSUME NEW s \in Nat, NEW n \in Nat
  PROVE  /\ (s + 1) * (n + 1) = (s + 1) * n + s + 1 /\ (s + 1) * n \in Nat
         /\ (s + 1) * 0 = 0 /\ (s + 1) * 1 = s + 1
  OBVIOUS

\* A balanced count fits its field with room for one more.
LEMMA BalanceBounds ==
  ASSUME NEW s \in Nat, s >= 2, NEW n \in Nat, NEW c \in Nat, NEW t \in Nat,
         c > 1, t < 2 * c, (s + 1) * n <= t + s
  PROVE  n < c
<1> SUFFICES ASSUME n >= c PROVE FALSE
  OBVIOUS
<1>1. PICK d \in Nat : n = c + d
  <2>1. n - c \in Nat /\ n = c + (n - c)
    OBVIOUS
  <2> QED BY <2>1
<1>2. (s + 1) * n >= (s + 1) * c
  <2>1. (s + 1) * n = (s + 1) * c + (s + 1) * d /\ (s + 1) * d \in Nat
    BY <1>1
  <2>2. (s + 1) * n \in Nat /\ (s + 1) * c \in Nat
    OBVIOUS
  <2> QED BY <2>1, <2>2
<1>3. PICK e \in Nat : s = 2 + e
  <2>1. s - 2 \in Nat /\ s = 2 + (s - 2)
    OBVIOUS
  <2> QED BY <2>1
<1>4. (s + 1) * c = 3 * c + e * c /\ e * c >= e
  <2>1. (s + 1) * c = 3 * c + e * c
    BY <1>3
  <2>2. PICK f \in Nat : c = 1 + f
    <3>1. c - 1 \in Nat /\ c = 1 + (c - 1)
      OBVIOUS
    <3> QED BY <3>1
  <2>3. e * c = e + e * f /\ e * f \in Nat
    BY <2>2
  <2> QED BY <2>1, <2>3
<1>5. e * c \in Nat /\ (s + 1) * c \in Nat /\ (s + 1) * n \in Nat
  OBVIOUS
<1> QED BY <1>2, <1>3, <1>4, <1>5

\* What a tick with no write to counter or simulator is made of.
LEMMA CalmTick ==
  ASSUME NEW event \in Events, NEW target \in Targets, por = 0,
         target \notin {"counter", "sim"}, AcqTick(event, target)
  PROVE  /\ por' = 0 /\ wired' = wired /\ Sim!GenRun /\ PhotonPin
         /\ \/ event = "count" /\ (MarkWindow \/ Count)
            \/ event = "emit" /\ Emit(FALSE)
<1>1. /\ PowerOn /\ SimStep(target) /\ PhotonPin /\ CounterStep(event, target)
      /\ wired' = wired
  BY Zenon DEF AcqTick
<1>2. ~RESET /\ por' = 0
  BY <1>1 DEF RESET, PowerOn
<1>3. Sim!GenRun
  BY <1>1, <1>2, Zenon DEF SimStep
<1>4. \/ event = "count" /\ (MarkWindow \/ Count)
      \/ event = "emit" /\ Emit(FALSE)
  BY <1>1, <1>2, Zenon DEF CounterStep
<1> QED BY <1>1, <1>2, <1>3, <1>4

LEMMA PhotonsFollow ==
  ASSUME AcqTypeOK, SimPhase, wired, siTao >= 2, Sim!GenRun, PhotonPin
  PROVE  PHO_cnt' = IF Rise = 0 THEN Up(PHO_cnt, PhoMod) ELSE PHO_cnt
<1>1. PhotonAtTick(siReady' /\ ~siReady)
  BY Zenon DEF PhotonPin
<1>2. CASE Rise = 0
  <2>1. siReady' /\ ~siReady
    BY <1>2, RiseCountsDown
  <2>2. PhotonEdge
    BY <1>1, <2>1, Zenon DEF PhotonAtTick
  <2> QED BY <1>2, <2>2, Zenon DEF PhotonEdge
<1>3. CASE Rise # 0
  <2>1. ~(siReady' /\ ~siReady)
    BY <1>3, RiseCountsDown
  <2>2. UNCHANGED PHO_cnt
    BY <1>1, <2>1, Zenon DEF PhotonAtTick
  <2> QED BY <1>3, <2>2, Zenon
<1> QED BY <1>2, <1>3

\* The window's clock, off the boundary and at the report.
LEMMA ElapsedUp ==
  ASSUME CLK_cnt \in Stamps, Tao \in Nat, Tao # 0, Tao' = Tao,
         OffBoundary, CLK_cnt' = Up(CLK_cnt, StampMod), CLK_cnt' # 0
  PROVE  CLK_cnt # 0 /\ Elapsed' = Elapsed + 1
<1> DEFINE r == CLK_cnt % Tao
           n == CLK_cnt' % Tao
<1>1. CLK_cnt \in Nat /\ StampMod \in Nat /\ Tao > 0
  BY PulseAssumption DEF Stamps
<1>2. r \in 0 .. Tao - 1
  BY <1>1, ModuloRange, Zenon
<1>3. r # 0
  BY DEF OffBoundary, Remainder
<1>4. CLK_cnt' = CLK_cnt + 1
  BY DEF Up
<1>5. n = IF r = Tao - 1 THEN 0 ELSE r + 1
  BY <1>1, <1>4, UpModulo, Zenon
<1>6. CLK_cnt # 0
  BY <1>1, <1>3
<1>7. Elapsed = r
  BY <1>3, Zenon DEF Elapsed
<1>8. Elapsed' = IF n = 0 THEN Tao ELSE n
  BY Zenon DEF Elapsed
<1> HIDE DEF r, n
<1>9. Elapsed' = r + 1
  BY <1>1, <1>2, <1>5, <1>8
<1> QED BY <1>6, <1>7, <1>9

LEMMA ElapsedAtReport ==
  ASSUME CLK_cnt \in Stamps, Tao \in Nat, Tao # 0, Tao' = Tao, AtBoundary,
         CLK_cnt' = 1 \/ CLK_cnt' = Up(CLK_cnt, StampMod), CLK_cnt' # 0
  PROVE  Elapsed = Tao /\ Elapsed' = 1
<1> DEFINE n == CLK_cnt' % Tao
<1>1. CLK_cnt \in Nat /\ Tao > 0 /\ CLK_cnt % Tao = 0
  BY PulseAssumption DEF Stamps, AtBoundary, Remainder
<1>2. n = IF 0 = Tao - 1 THEN 0 ELSE 0 + 1
  <2>1. CASE CLK_cnt' = 1
    <3>1. (0 + 1) % Tao = IF 0 % Tao = Tao - 1 THEN 0 ELSE (0 % Tao) + 1
      BY <1>1, UpModulo
    <3>2. 0 % Tao = 0 /\ 0 + 1 = 1
      BY <1>1
    <3> QED BY <2>1, <3>1, <3>2, Zenon
  <2>2. CASE CLK_cnt' # 1
    <3>1. CLK_cnt' = CLK_cnt + 1
      BY <2>2 DEF Up
    <3>2. (CLK_cnt + 1) % Tao = IF CLK_cnt % Tao = Tao - 1 THEN 0 ELSE (CLK_cnt % Tao) + 1
      BY <1>1, UpModulo
    <3> QED BY <1>1, <3>1, <3>2, Zenon
  <2> QED BY <2>1, <2>2
<1>3. Elapsed' = IF n = 0 THEN Tao ELSE n
  BY Zenon DEF Elapsed
<1>4. Elapsed = Tao
  BY <1>1, Zenon DEF Elapsed
<1> HIDE DEF n
<1> QED BY <1>1, <1>2, <1>3, <1>4

LEMMA ElapsedRange ==
  ASSUME CLK_cnt \in Stamps, Tao \in Nat, Tao # 0
  PROVE  Elapsed \in 1 .. Tao
<1> DEFINE r == CLK_cnt % Tao
<1>1. CLK_cnt \in Nat
  BY PulseAssumption DEF Stamps
<1>2. r \in 0 .. Tao - 1
  BY <1>1, ModuloRange, Zenon
<1>3. Elapsed = IF r = 0 THEN Tao ELSE r
  BY Zenon DEF Elapsed
<1> HIDE DEF r
<1> QED BY <1>2, <1>3

\* No window has more photons than the field holds.
LEMMA PulsesFit ==
  ASSUME SameWidth, CountsFit, AcqTypeOK, SimPhase, siTao >= 2, Balanced,
         Tao \in Taos \cup {ResetTao}, Tao # 0
  PROVE  Pulses \in 0 .. CountMod - 1 /\ Pulses < PhoMod - 1
<1>1. /\ CLK_cnt \in Stamps /\ Tao \in Nat /\ PHO_cnt \in Counts /\ Cnt_tmp1 \in Counts
  BY Zenon DEF AcqTypeOK, PCTypeOK
<1>2. CountMod \in Nat /\ CountMod > 1 /\ PhoMod = 2 * CountMod
  BY PulseAssumption, Zenon DEF CountsFit, PhoMod
<1>3. Pulses \in Nat
  BY <1>1, PulseAssumption DEF Pulses, Minus, Counts, PhoMod
<1>4. Elapsed \in 1 .. Tao
  BY <1>1, ElapsedRange
<1>5. Tao < 2 * CountMod
  <2>1. Tao < StampMod /\ StampMod \in Nat /\ StampMod <= PhoMod
    BY PulseAssumption DEF SameWidth, CountsFit
  <2> QED BY <1>1, <1>2, <2>1
<1>6. siTao \in Nat /\ Rise \in 0 .. siTao
  BY TypedSim DEF SimRanges, Rise
<1>7. (siTao + 1) * Pulses <= Tao + siTao
  <2>1. (siTao + 1) * Pulses <= Elapsed + Rise
    BY DEF Balanced
  <2>2. Elapsed + Rise <= Tao + siTao
    BY <1>1, <1>4, <1>6
  <2>3. (siTao + 1) * Pulses \in Nat /\ Elapsed + Rise \in Nat /\ Tao + siTao \in Nat
    BY <1>1, <1>3, <1>4, <1>6, MorePulses
  <2> HIDE DEF Pulses
  <2> QED BY <2>1, <2>2, <2>3
<1>8. Pulses < CountMod
  BY <1>1, <1>2, <1>3, <1>5, <1>6, <1>7, BalanceBounds
<1> QED BY <1>2, <1>3, <1>8

LEMMA BalanceUp ==
  ASSUME NEW s \in Nat, NEW m \in Nat, NEW e \in Nat, NEW r \in 0 .. s,
         NEW m1, NEW r1,
         (s + 1) * m <= e + r, e + r <= (s + 1) * m + s,
         r = 0 => m1 = m + 1 /\ r1 = s,
         r # 0 => m1 = m /\ r1 = r - 1
  PROVE  (s + 1) * m1 <= e + 1 + r1 /\ e + 1 + r1 <= (s + 1) * m1 + s
<1>1. (s + 1) * m \in Nat /\ (s + 1) * (m + 1) = (s + 1) * m + s + 1
  BY MorePulses
<1> DEFINE p == (s + 1) * m
           q == (s + 1) * m1
<1>2. CASE r = 0
  <2>1. q = p + s + 1 /\ p \in Nat /\ p <= e + r /\ e + r <= p + s
    BY <1>1, <1>2
  <2> HIDE DEF p, q
  <2>2. q <= e + 1 + r1 /\ e + 1 + r1 <= q + s
    BY <1>2, <2>1
  <2> QED BY <2>2 DEF q
<1>3. CASE r # 0
  <2>1. q = p /\ p \in Nat /\ p <= e + r /\ e + r <= p + s
    BY <1>1, <1>3
  <2> HIDE DEF p, q
  <2>2. q <= e + 1 + r1 /\ e + 1 + r1 <= q + s
    BY <1>3, <2>1
  <2> QED BY <2>2 DEF q
<1> QED BY <1>2, <1>3

LEMMA CountKeepsBalance ==
  ASSUME SameWidth, CountsFit, AcqTypeOK, SimPhase, wired, siTao >= 2,
         Tao \in Taos \cup {ResetTao}, CLK_cnt # 0 => Balanced,
         Sim!GenRun, PhotonPin, MarkWindow \/ Count, CLK_cnt' # 0
  PROVE  Balanced'
<1>1. /\ CLK_cnt \in Stamps /\ Tao \in Nat /\ PHO_cnt \in Counts /\ Cnt_tmp1 \in Counts
  BY Zenon DEF AcqTypeOK, PCTypeOK
<1>2. Tao # 0
  BY DEF CountsFit
<1>3. /\ OffBoundary /\ Tao' = Tao /\ CLK_cnt' = Up(CLK_cnt, StampMod)
      /\ Cnt_tmp1' = Cnt_tmp1
  BY DEF MarkWindow, Count
<1>4. CLK_cnt # 0 /\ Elapsed' = Elapsed + 1
  BY <1>1, <1>2, <1>3, ElapsedUp
<1>5. Elapsed \in Nat
  BY <1>1, <1>2, ElapsedRange
<1>6. Pulses \in Nat /\ Pulses < PhoMod - 1
  BY <1>2, <1>4, PulsesFit
<1>7. /\ siTao' = siTao /\ Rise \in 0 .. siTao
      /\ Rise = 0 => Rise' = siTao
      /\ Rise # 0 => Rise' = Rise - 1
  BY RiseCountsDown
<1>8. PHO_cnt' = IF Rise = 0 THEN Up(PHO_cnt, PhoMod) ELSE PHO_cnt
  BY PhotonsFollow
<1>9. /\ Rise = 0 => Pulses' = Pulses + 1
      /\ Rise # 0 => Pulses' = Pulses
  <2>1. Pulses' = Minus(PHO_cnt', Cnt_tmp1)
    BY <1>3, Zenon DEF Pulses, Minus
  <2>2. Minus(PHO_cnt, Cnt_tmp1) < PhoMod - 1
    BY <1>6 DEF Pulses
  <2>3. Minus(Up(PHO_cnt, PhoMod), Cnt_tmp1) = Minus(PHO_cnt, Cnt_tmp1) + 1
    BY <1>1, <2>2, PulsesUp
  <2> QED BY <1>8, <2>1, <2>3, Zenon DEF Pulses
<1>10. /\ (siTao + 1) * Pulses <= Elapsed + Rise
       /\ Elapsed + Rise <= (siTao + 1) * Pulses + siTao
  BY <1>4, Zenon DEF Balanced
<1>11. siTao \in Nat
  BY TypedSim DEF SimRanges
<1>12. /\ (siTao + 1) * Pulses' <= Elapsed + 1 + Rise'
       /\ Elapsed + 1 + Rise' <= (siTao + 1) * Pulses' + siTao
  BY <1>5, <1>6, <1>7, <1>9, <1>10, <1>11, BalanceUp, Zenon
<1> QED BY <1>4, <1>7, <1>12, Zenon DEF Balanced

LEMMA ReportBalances ==
  ASSUME CountsFit, AcqTypeOK, SimPhase, wired, siTao >= 2,
         Tao \in Taos \cup {ResetTao},
         Sim!GenRun, PhotonPin, Emit(FALSE), CLK_cnt' # 0
  PROVE  Balanced'
<1>1. /\ CLK_cnt \in Stamps /\ Tao \in Nat /\ PHO_cnt \in Counts
  BY Zenon DEF AcqTypeOK, PCTypeOK
<1>2. Tao # 0
  BY DEF CountsFit
<1>3. /\ AtBoundary /\ Tao' = Tao /\ Cnt_tmp1' = PHO_cnt
      /\ CLK_cnt' = 1 \/ CLK_cnt' = Up(CLK_cnt, StampMod)
  BY DEF Emit, Reads, ReportOnTrigger, ReportPlain, ReportMarked, Report
<1>4. Elapsed' = 1
  BY <1>1, <1>2, <1>3, ElapsedAtReport
<1>5. /\ siTao' = siTao /\ Rise \in 0 .. siTao
      /\ Rise = 0 => Rise' = siTao
      /\ Rise # 0 => Rise' = Rise - 1
  BY RiseCountsDown
<1>6. PHO_cnt' = IF Rise = 0 THEN Up(PHO_cnt, PhoMod) ELSE PHO_cnt
  BY PhotonsFollow
<1>7. /\ Rise = 0 => Pulses' = 0 + 1
      /\ Rise # 0 => Pulses' = 0
  <2>1. Pulses' = Minus(PHO_cnt', PHO_cnt)
    BY <1>3, Zenon DEF Pulses, Minus
  <2>2. Minus(PHO_cnt, PHO_cnt) = 0 /\ Minus(Up(PHO_cnt, PhoMod), PHO_cnt) = 0 + 1
    BY <1>1, PulsesSince
  <2> QED BY <1>6, <2>1, <2>2, Zenon
<1>8. siTao \in Nat
  BY TypedSim DEF SimRanges
<1>9. (siTao + 1) * 0 <= 0 + Rise /\ 0 + Rise <= (siTao + 1) * 0 + siTao
  BY <1>5, <1>8
<1>10. /\ (siTao + 1) * Pulses' <= 0 + 1 + Rise'
       /\ 0 + 1 + Rise' <= (siTao + 1) * Pulses' + siTao
  <2>1. 0 \in Nat
    OBVIOUS
  <2> QED BY <1>5, <1>7, <1>8, <1>9, <2>1, BalanceUp, Zenon
<1>11. 0 + 1 = 1
  OBVIOUS
<1> QED BY <1>4, <1>5, <1>10, <1>11, Zenon DEF Balanced

LEMMA InitSimulating == HInit => Simulating
<1> SUFFICES ASSUME HInit PROVE Simulating
  OBVIOUS
<1>1. por = 4 /\ calm = FALSE /\ siReady = FALSE /\ siReady2 = FALSE
  BY DEF HInit, AcqInit, Sim!TGInit
<1> QED BY <1>1 DEF Simulating, TaoWritten, SimPhase

LEMMA TickKeepsSimulating ==
  ASSUME SameWidth, CountsFit, AcqTypeOK, Simulating,
         NEW event \in Events, NEW target \in Targets,
         AcqTick(event, target), Watch(event, target)
  PROVE  Simulating'
<1>1. TaoWritten /\ SimPhase /\ (calm => por = 0)
  BY DEF Simulating
<1>2. TaoWritten'
  BY <1>1, TickKeepsTao
<1>3. SimPhase'
  BY <1>1, SimPhaseKept, Zenon DEF AcqTick
<1>4. calm' => /\ por = 0 /\ target \notin {"counter", "sim"}
               /\ event # "emit" => calm
  BY <1>1 DEF Watch
<1>5. calm' => por' = 0
  BY <1>4, CalmTick
<1>6. ASSUME wired', calm', siTao' >= 2, CLK_cnt' # 0
      PROVE  Balanced'
  <2>1. /\ wired' = wired /\ Sim!GenRun /\ PhotonPin
        /\ \/ event = "count" /\ (MarkWindow \/ Count)
           \/ event = "emit" /\ Emit(FALSE)
    BY <1>4, <1>6, CalmTick
  <2>2. siTao' = siTao
    BY <2>1, TypedSim, SimRunFacts
  <2>3. Tao \in Taos \cup {ResetTao}
    BY <1>1, <1>4, <1>6 DEF TaoWritten
  <2>4. wired /\ siTao >= 2
    BY <1>6, <2>1, <2>2
  <2>5. CASE event = "count" /\ (MarkWindow \/ Count)
    <3>1. CLK_cnt # 0 => Balanced
      BY <1>4, <1>6, <2>4, <2>5 DEF Simulating
    <3> QED BY <1>1, <1>6, <2>1, <2>3, <2>4, <2>5, <3>1, CountKeepsBalance
  <2>6. CASE event = "emit" /\ Emit(FALSE)
    BY <1>1, <1>6, <2>1, <2>3, <2>4, <2>6, ReportBalances
  <2> QED BY <2>1, <2>5, <2>6
<1> QED BY <1>2, <1>3, <1>5, <1>6 DEF Simulating

LEMMA ReportCounts ==
  ASSUME SameWidth, CountsFit, AcqTypeOK, Simulating, wired, calm, siTao >= 2,
         Emit(FALSE), Cnt_Stream'.stamp # 0
  PROVE  LET n == Cnt_Stream'.count * (siTao + 1)
         IN n < Tao + siTao + 1 /\ Tao < n + siTao + 1
<1>1. /\ CLK_cnt \in Stamps /\ Tao \in Nat /\ PHO_cnt \in Counts /\ Cnt_tmp1 \in Counts
  BY Zenon DEF AcqTypeOK, PCTypeOK
<1>2. /\ AtBoundary
      /\ Cnt_Stream'.count = Pulses % CountMod /\ Cnt_Stream'.stamp = CLK_cnt
  BY DEF Emit, Reads, ReportOnTrigger, ReportPlain, ReportMarked, Report, Pulses
<1>3. Balanced /\ SimPhase /\ Tao \in Taos \cup {ResetTao}
  BY <1>2 DEF Simulating, TaoWritten
<1>4. Tao # 0
  BY <1>3 DEF CountsFit
<1>5. Elapsed = Tao
  BY <1>2, <1>4, Zenon DEF Elapsed, AtBoundary, Remainder
<1>6. Pulses \in 0 .. CountMod - 1
  BY <1>3, <1>4, PulsesFit
<1>7. Cnt_Stream'.count = Pulses
  <2>1. CountMod \in Nat /\ CountMod > 0
    BY PulseAssumption, Zenon
  <2>2. Pulses % CountMod = Pulses
    BY <1>6, <2>1
  <2> QED BY <1>2, <2>2, Zenon
<1>8. siTao \in Nat /\ Rise \in 0 .. siTao
  BY TypedSim DEF SimRanges, Rise
<1> DEFINE n == Cnt_Stream'.count * (siTao + 1)
<1>9. n = (siTao + 1) * Pulses /\ n \in Nat
  <2>1. Pulses \in Nat /\ siTao + 1 \in Nat
    BY <1>6, <1>8
  <2>2. Pulses * (siTao + 1) = (siTao + 1) * Pulses /\ (siTao + 1) * Pulses \in Nat
    BY <2>1
  <2> QED BY <1>7, <2>2, Zenon
<1>10. n <= Tao + Rise /\ Tao + Rise <= n + siTao
  BY <1>3, <1>5, <1>9, Zenon DEF Balanced
<1> HIDE DEF n
<1>11. n < Tao + siTao + 1 /\ Tao < n + siTao + 1
  BY <1>1, <1>8, <1>9, <1>10
<1> QED BY <1>11 DEF n

\* With the simulator wired to the photon input an undisturbed window counts
\* the simulated pulses that fit in it, give or take the fraction at either
\* end (Pulse_cnt.v:46-88, TRI_gen.v:24-38), and the 31 bits of the count
\* are enough for every Tao.  The invariant is that Elapsed + Rise and
\* (siTao + 1) * Pulses grow alike.
THEOREM PhotonsCounted ==
  ASSUME SameWidth, CountsFit
  PROVE  HSpec => SimulatedCount
<1>1. HInit => Simulating
  BY InitSimulating
<1>2. AcqTypeOK /\ Simulating /\ [HNext]_acqHistVars => Simulating'
  <2> SUFFICES ASSUME AcqTypeOK, Simulating, [HNext]_acqHistVars PROVE Simulating'
    OBVIOUS
  <2>1. CASE HNext
    BY <2>1, TickKeepsSimulating DEF HNext
  <2>2. CASE UNCHANGED acqHistVars
    <3>1. UNCHANGED <<pcVars, siVars, wired, por, hist>>
      BY <2>2, Zenon DEF acqHistVars, acqVars
    <3>2. UNCHANGED <<Tao, CLK_cnt, PHO_cnt, Cnt_tmp1>>
      BY <3>1 DEF pcVars, mainVars
    <3>3. UNCHANGED <<siTao, siTmp, siReady, siReady2, calm>>
      BY <3>1 DEF siVars, hist
    <3> QED BY <3>1, <3>2, <3>3, Zenon
         DEF Simulating, TaoWritten, SimPhase, Balanced, Elapsed, Rise, Pulses, Minus
  <2> QED BY <2>1, <2>2
<1>3. AcqTypeOK /\ Simulating /\ [HNext]_acqHistVars =>
        [wired /\ emitted' /\ calm /\ siTao >= 2 /\ Cnt_Stream'.stamp # 0 =>
           LET n == Cnt_Stream'.count * (siTao + 1)
           IN n < Tao + siTao + 1 /\ Tao < n + siTao + 1]_acqHistVars
  <2> SUFFICES ASSUME AcqTypeOK, Simulating, HNext,
                      wired, emitted', calm, siTao >= 2, Cnt_Stream'.stamp # 0
               PROVE  LET n == Cnt_Stream'.count * (siTao + 1)
                      IN n < Tao + siTao + 1 /\ Tao < n + siTao + 1
    OBVIOUS
  <2>1. PICK event \in Events, target \in Targets :
          AcqTick(event, target) /\ Watch(event, target)
    BY Zenon DEF HNext
  <2>2. event = "emit"
    BY <2>1 DEF Watch
  <2>3. Emit(FALSE)
    BY <2>1, <2>2, Zenon DEF AcqTick, CounterStep
  <2> QED BY <2>3, ReportCounts
<1> QED BY <1>1, <1>2, <1>3, AcquisitionTyped, PTL DEF HSpec, SimulatedCount
=============================================================================
