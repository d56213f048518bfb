------------------------ MODULE PulseCounter_proofs ------------------------
(* Type correctness of the photon counter, that it implements the abstract *)
(* sample stream when the pins keep away from the clock's edges, and what  *)
(* its flags and stamps tell the client that cuts the stream by them.      *)
EXTENDS ClientPlot, TLAPS

-----------------------------------------------------------------------------
(* The operators the actions are built from. *)

LEMMA UpType ==
  ASSUME NEW m \in Nat, m > 0, NEW a \in 0 .. m - 1
  PROVE  Up(a, m) \in 0 .. m - 1
  BY DEF Up

LEMMA MinusType ==
  ASSUME NEW a \in Counts, NEW b \in Counts
  PROVE  Minus(a, b) \in Counts
  BY PulseAssumption DEF Minus, Counts, PhoMod

LEMMA FieldType ==
  ASSUME NEW a \in Counts
  PROVE  a % CountMod \in 0 .. CountMod - 1
  BY PulseAssumption DEF Counts, PhoMod

LEMMA ReadsType ==
  ASSUME PHO_cnt \in Counts, NEW edge \in BOOLEAN
  PROVE  Reads(edge) \subseteq Counts
  BY DEF Reads, Torn

LEMMA BlankType == Blank \in Samples
<1>1. 0 \in 0 .. CountMod - 1 /\ 0 \in Stamps
  BY PulseAssumption DEF Stamps
<1> QED BY <1>1, Zenon DEF Blank, Samples

LEMMA TriType ==
  ASSUME tri_1 \in 0 .. 3, NEW level, TriSample(level)
  PROVE  tri_1' \in 0 .. 3
  BY DEF TriSample, Up

-----------------------------------------------------------------------------
(* Type correctness. *)

\* The registers keep to their widths (Pulse_cnt.v:4-8,24-25).
THEOREM TypeCorrect == PCSpec => []PCTypeOK
<1>1. PCInit => PCTypeOK
  <2>1. 0 \in Nat /\ 0 \in Counts /\ 0 \in 0 .. 3 /\ 1 \in Stamps
    BY PulseAssumption DEF Counts, PhoMod, Stamps
  <2> QED BY <2>1, BlankType, Zenon DEF PCInit, PCTypeOK
<1>2. PCTypeOK /\ [PCNext]_pcVars => PCTypeOK'
  <2> SUFFICES ASSUME PCTypeOK, [PCNext]_pcVars PROVE PCTypeOK'
    OBVIOUS
  <2> USE PulseAssumption
  <2>1. CASE UNCHANGED pcVars
    BY <2>1 DEF PCTypeOK, pcVars, mainVars
  <2>2. CASE Photon
    <3>1. PHO_cnt' \in Counts
      BY <2>2, UpType DEF Photon, PhotonEdge, PCTypeOK, Counts, PhoMod
    <3> QED BY <2>2, <3>1 DEF PCTypeOK, Photon, mainVars
  <2>3. CASE Tick
    <3> PICK level \in Levels, edge \in {FALSE, AsyncPins} :
           TriSample(level) /\ PhotonAtTick(edge) /\ Main(edge)
      BY <2>3 DEF Tick
    <3>1. tri_1' \in 0 .. 3
      BY TriType DEF PCTypeOK
    <3>2. PHO_cnt' \in Counts
      BY UpType DEF PhotonAtTick, PhotonEdge, PCTypeOK, Counts, PhoMod
    <3>3. Up(CLK_cnt, StampMod) \in Stamps /\ 1 \in Stamps
      BY UpType DEF PCTypeOK, Stamps
    <3>4. CASE Reset
      <4>1. 0 \in Counts /\ ResetTao \in Nat
        BY DEF Counts, PhoMod
      <4> QED BY <4>1, <3>1, <3>2, <3>3, <3>4, BlankType, Zenon DEF Reset, PCTypeOK
    <3>5. CASE \E x \in Taos : Write(x)
      BY <3>1, <3>2, <3>5 DEF Write, PCTypeOK
    <3>6. CASE MarkWindow
      BY <3>1, <3>2, <3>3, <3>6 DEF MarkWindow, Marked, Samples, PCTypeOK
    <3>7. CASE Count
      BY <3>1, <3>2, <3>3, <3>7 DEF Count, PCTypeOK
    <3>8. CASE Emit(edge)
      <4> PICK counted \in Reads(edge), latched \in Reads(edge) :
             \/ ReportOnTrigger(counted, latched)
             \/ ReportPlain(counted, latched)
             \/ ReportMarked(counted, latched)
        BY <3>8 DEF Emit
      <4>1. counted \in Counts /\ latched \in Counts
        BY ReadsType DEF PCTypeOK
      <4>2. ASSUME NEW mark \in BOOLEAN, Report(counted, latched, mark)
            PROVE  /\ Cnt_Stream' \in Samples /\ Cnt_tmp1' \in Counts
                   /\ RDY' \in BOOLEAN /\ Tao' \in Nat
        <5>1. Minus(counted, Cnt_tmp1) % CountMod \in 0 .. CountMod - 1
          BY <4>1, MinusType, FieldType DEF PCTypeOK
        <5> QED BY <4>1, <4>2, <5>1 DEF Report, PCTypeOK, Samples
      <4> QED
        BY <3>1, <3>2, <3>3, <4>2 DEF ReportOnTrigger, ReportPlain, ReportMarked, PCTypeOK
    <3> QED
      BY <3>1, <3>2, <3>4, <3>5, <3>6, <3>7, <3>8 DEF Main, PCTypeOK
  <2> QED BY <2>1, <2>2, <2>3 DEF PCNext
<1> QED BY <1>1, <1>2, PTL DEF PCSpec

-----------------------------------------------------------------------------
(* The refinement. *)

LEMMA MinusUp ==
  ASSUME NEW a \in Counts, NEW b \in Counts
  PROVE  Minus(Up(a, PhoMod), b) =
           IF Minus(a, b) = PhoMod - 1 THEN 0 ELSE Minus(a, b) + 1
  BY PulseAssumption DEF Minus, Up, Counts, PhoMod

LEMMA MinusSelf == ASSUME NEW a \in Counts PROVE Minus(a, a) = 0
  BY PulseAssumption DEF Minus, Counts, PhoMod

\* With pins that keep away from the clock's edges, every photon is counted
\* in exactly one sample and no taken trigger is forgotten (Pulse_cnt.v:46-88).
THEOREM CounterImplementsStream ==
  AsyncPins = FALSE => (PCSpec => ImplementsStream)
<1>1. PCInit => Stream!SSInit
  <2> SUFFICES ASSUME PCInit PROVE Stream!SSInit
    OBVIOUS
  <2>1. 0 \in Counts
    BY PulseAssumption DEF Counts, PhoMod
  <2>2. Minus(PHO_cnt, Cnt_tmp1) = 0
    BY <2>1, MinusSelf DEF PCInit
  <2> QED BY <2>2, Zenon DEF PCInit, Stream!SSInit, Stream!Blank, Blank
<1>2. ASSUME AsyncPins = FALSE, PCTypeOK, PCTypeOK', [PCNext]_pcVars
      PROVE  [Stream!SSNext]_(Stream!ssVars)
  <2>1. CASE UNCHANGED pcVars
    BY <2>1 DEF pcVars, mainVars, Stream!ssVars, Minus
  <2>2. CASE Photon
    <3>1. UNCHANGED <<tmp, Cnt_Stream, RDY, Cnt_tmp1>> /\ PHO_cnt' = Up(PHO_cnt, PhoMod)
      BY <2>2 DEF Photon, PhotonEdge, mainVars
    <3>2. Minus(PHO_cnt, Cnt_tmp1)' =
            IF Minus(PHO_cnt, Cnt_tmp1) = PhoMod - 1 THEN 0
            ELSE Minus(PHO_cnt, Cnt_tmp1) + 1
      BY <1>2, <3>1, MinusUp DEF PCTypeOK
    <3> QED BY <3>1, <3>2 DEF Stream!Arrive, Stream!SSNext
  <2>3. CASE Tick
    <3>1. UNCHANGED PHO_cnt /\ Main(FALSE)
      BY <1>2, <2>3 DEF Tick, PhotonAtTick
    <3>2. CASE Reset
      <4>1. Minus(PHO_cnt, Cnt_tmp1)' \in 0 .. PhoMod - 1
        BY <1>2, MinusType DEF PCTypeOK, Counts
      <4> QED
        BY <3>2, <4>1, Zenon DEF Reset, Blank, Stream!Blank, Stream!Restart, Stream!SSNext
    <3>3. CASE \E x \in Taos : Write(x)
      BY <3>1, <3>3 DEF Write, Minus, Stream!ssVars
    <3>4. CASE MarkWindow
      <4>1. Minus(PHO_cnt, Cnt_tmp1)' = Minus(PHO_cnt, Cnt_tmp1)
        BY <3>1, <3>4 DEF MarkWindow, Minus
      <4> QED BY <3>4, <4>1, Zenon DEF MarkWindow, Marked, Stream!TakeTrigger, Stream!SSNext
    <3>5. CASE Count
      <4>1. Minus(PHO_cnt, Cnt_tmp1)' = Minus(PHO_cnt, Cnt_tmp1)
        BY <3>1, <3>5 DEF Count, Minus
      <4> QED BY <3>5, <4>1, Zenon DEF Count, Stream!Withdraw, Stream!SSNext
    <3>6. CASE Emit(FALSE)
      <4>1. \/ ReportOnTrigger(PHO_cnt, PHO_cnt)
            \/ ReportPlain(PHO_cnt, PHO_cnt)
            \/ ReportMarked(PHO_cnt, PHO_cnt)
        BY <3>6 DEF Emit, Reads
      <4>2. PICK mark \in BOOLEAN : /\ tmp => mark
                                   /\ tmp' \in {FALSE, tmp}
                                   /\ Report(PHO_cnt, PHO_cnt, mark)
        BY <4>1, Zenon DEF ReportOnTrigger, ReportPlain, ReportMarked
      <4>3. Stream!Deliver
        <5>1. Minus(PHO_cnt, Cnt_tmp1)' = 0
          BY <1>2, <3>1, <4>2, MinusSelf DEF Report, PCTypeOK
        <5>2. CLK_cnt \in Stamps
          BY <1>2 DEF PCTypeOK
        <5>3. /\ RDY' = TRUE
              /\ Cnt_Stream' = [count |-> Minus(PHO_cnt, Cnt_tmp1) % CountMod,
                               stamp |-> CLK_cnt, flag |-> mark]
          BY <4>2 DEF Report
        <5> QED BY <4>2, <5>1, <5>2, <5>3 DEF Stream!Deliver
      <4> QED BY <4>3 DEF Stream!SSNext
    <3> QED BY <3>1, <3>2, <3>3, <3>4, <3>5, <3>6 DEF Main
  <2> QED BY <1>2, <2>1, <2>2, <2>3 DEF PCNext
<1> QED
  <2> SUFFICES ASSUME AsyncPins = FALSE PROVE PCSpec => ImplementsStream
    OBVIOUS
  <2>1. PCTypeOK /\ PCTypeOK' /\ [PCNext]_pcVars => [Stream!SSNext]_(Stream!ssVars)
    BY <1>2
  <2> QED
    BY <1>1, <2>1, TypeCorrect, PTL DEF PCSpec, ImplementsStream, Stream!SSSpec

-----------------------------------------------------------------------------
(* The reports as the client sees them. *)

\* From one multiple of q the next one is q away.
LEMMA NextMultiple ==
  ASSUME NEW q \in Nat, q > 0, NEW b \in Nat, b % q = 0, NEW k \in 1 .. q
  PROVE  (b + k) % q = 0 <=> k = q
<1>1. PICK d \in Nat : b = q * d
  <2>1. b \div q \in Nat /\ b = q * (b \div q)
    OBVIOUS
  <2> QED BY <2>1
<1>2. (b + q) % q = 0
  <2>1. PICK e \in Nat, r \in 0 .. q - 1 : b + q = q * e + r /\ r = (b + q) % q
    <3>1. /\ (b + q) \div q \in Nat /\ (b + q) % q \in 0 .. q - 1
          /\ b + q = q * ((b + q) \div q) + ((b + q) % q)
      OBVIOUS
    <3> QED BY <3>1
  <2>2. r = q * (d + 1 - e)
    BY <1>1, <2>1
  <2>3. CASE d + 1 - e <= 0
    <3>1. q * (d + 1 - e) <= 0
      BY <2>3
    <3> QED BY <2>1, <2>2, <3>1
  <2>4. CASE d + 1 - e >= 1
    <3>1. q * (d + 1 - e) >= q
      BY <2>4
    <3> QED BY <2>1, <2>2, <3>1
  <2> QED BY <2>3, <2>4
<1>3. ASSUME k # q, (b + k) % q = 0 PROVE FALSE
  <2>1. PICK e \in Nat : b + k = q * e
    <3>1. (b + k) \div q \in Nat /\ b + k = q * ((b + k) \div q)
      BY <1>3
    <3> QED BY <3>1
  <2>2. k = q * (e - d)
    BY <1>1, <2>1
  <2>3. CASE e - d <= 0
    <3>1. q * (e - d) <= 0
      BY <2>3
    <3> QED BY <2>2, <3>1
  <2>4. CASE e - d >= 1
    <3>1. q * (e - d) >= q
      BY <2>4
    <3> QED BY <1>3, <2>2, <3>1
  <2> QED BY <2>3, <2>4
<1> QED BY <1>2, <1>3

LEMMA EmitFacts ==
  ASSUME PCTypeOK, NEW edge \in BOOLEAN, Emit(edge)
  PROVE  /\ AtBoundary /\ Tao' = Tao /\ Cnt_Stream'.stamp = CLK_cnt
         /\ Cnt_Stream'.flag \in BOOLEAN /\ (Cnt_Stream'.flag <=> Triggered \/ tmp)
         /\ CLK_cnt' = IF Cnt_Stream'.flag THEN 1 ELSE Up(CLK_cnt, StampMod)
<1>1. PICK x, y : ReportOnTrigger(x, y) \/ ReportPlain(x, y) \/ ReportMarked(x, y)
  BY DEF Emit
<1>2. ASSUME NEW mark \in BOOLEAN, Report(x, y, mark)
      PROVE  Cnt_Stream'.stamp = CLK_cnt /\ Cnt_Stream'.flag = mark /\ Tao' = Tao
  BY <1>2 DEF Report
<1>3. CASE ReportOnTrigger(x, y)
  BY <1>2, <1>3 DEF ReportOnTrigger
<1>4. CASE ReportPlain(x, y)
  BY <1>2, <1>4 DEF ReportPlain
<1>5. CASE ReportMarked(x, y)
  BY <1>2, <1>5 DEF ReportMarked
<1> QED BY <1>1, <1>3, <1>4, <1>5

\* Where the window in progress began to count.
Base == IF lastMark THEN 0 ELSE Cnt_Stream.stamp

SeenTypes ==
  /\ since \in Nat
  /\ emitted \in BOOLEAN /\ steady \in BOOLEAN /\ wrapped \in BOOLEAN
  /\ lastMark \in BOOLEAN /\ took \in BOOLEAN

\* An undisturbed window began on a multiple of Tao and is not yet over.
Measured ==
  /\ steady => Tao # 0 /\ Cnt_Stream.stamp % Tao = 0
  /\ steady /\ ~wrapped => since + 1 <= Tao /\ CLK_cnt = Base + since + 1

Growing == ~lastMark /\ ~wrapped => CLK_cnt > Cnt_Stream.stamp
Promised == took => tmp
Observed == SeenTypes /\ Measured /\ Growing /\ Promised

\* The client holds the last stamp, or none.
Following == clientTmp # 0 /\ steady => clientTmp = Cnt_Stream.stamp

LEMMA InitObserved == HInit => Observed
<1> SUFFICES ASSUME HInit PROVE Observed
  OBVIOUS
<1>1. /\ CLK_cnt = 1 /\ Cnt_Stream.stamp = 0 /\ since = 0
      /\ steady = FALSE /\ took = FALSE /\ emitted = FALSE
      /\ wrapped = FALSE /\ lastMark = FALSE
  BY DEF HInit, PCInit, Blank
<1>2. SeenTypes
  BY <1>1 DEF SeenTypes
<1> QED BY <1>1, <1>2 DEF Observed, Measured, Growing, Promised

\* A tick inside a window.
LEMMA AgeObserved ==
  ASSUME PCTypeOK, PCTypeOK', Observed, MarkWindow \/ Count, Age
  PROVE  Observed'
<1>1. /\ OffBoundary /\ CLK_cnt' = Up(CLK_cnt, StampMod) /\ Tao' = Tao
      /\ Cnt_Stream'.stamp = Cnt_Stream.stamp
      /\ tmp \/ Triggered => tmp'
  BY DEF MarkWindow, Count, Marked
<1>2. /\ CLK_cnt \in Stamps /\ Tao \in Nat /\ Cnt_Stream.stamp \in Nat
      /\ StampMod \in Nat /\ CLK_cnt \in Nat
  BY PulseAssumption DEF PCTypeOK, Samples, Stamps
<1>3. /\ emitted' = FALSE /\ since' = (IF steady THEN since + 1 ELSE 0)
      /\ wrapped' = (wrapped \/ CLK_cnt' = 0) /\ took' = (took \/ Triggered)
      /\ steady' = steady /\ lastMark' = lastMark
  BY DEF Age
<1>4. SeenTypes /\ Measured /\ Growing /\ Promised
  BY DEF Observed
<1>5. SeenTypes'
  <2>1. since' \in Nat
    BY <1>3, <1>4 DEF SeenTypes
  <2>2. /\ emitted' \in BOOLEAN /\ wrapped' \in BOOLEAN /\ took' \in BOOLEAN
        /\ steady' \in BOOLEAN /\ lastMark' \in BOOLEAN
    BY <1>3, <1>4, Zenon DEF SeenTypes
  <2> QED BY <2>1, <2>2 DEF SeenTypes
<1>6. CLK_cnt' # 0 => CLK_cnt' = CLK_cnt + 1
  BY <1>1 DEF Up
<1>7. Measured'
  <2>1. steady' => Tao' # 0 /\ Cnt_Stream'.stamp % Tao' = 0
    BY <1>1, <1>3, <1>4 DEF Measured
  <2>2. ASSUME steady', ~wrapped'
        PROVE  since' + 1 <= Tao' /\ CLK_cnt' = Base' + since' + 1
    <3>1. /\ steady /\ ~wrapped /\ CLK_cnt' = CLK_cnt + 1
          /\ since' = since + 1 /\ Base' = Base
      BY <1>1, <1>3, <1>6, <2>2 DEF Base
    <3>2. /\ Tao # 0 /\ Base \in Nat /\ Base % Tao = 0 /\ since \in Nat
          /\ since + 1 <= Tao /\ CLK_cnt = Base + since + 1
      BY <1>2, <1>4, <3>1 DEF Measured, Base, SeenTypes
    <3>3. CLK_cnt % Tao # 0 /\ CLK_cnt = Base + (since + 1)
      BY <1>1, <1>2, <3>2 DEF OffBoundary, Remainder
    <3>4. since + 1 # Tao
      BY <1>2, <3>2, <3>3, NextMultiple
    <3> QED BY <1>1, <1>2, <3>1, <3>2, <3>4
  <2> QED BY <2>1, <2>2 DEF Measured
<1>8. Growing'
  <2>1. ~wrapped' => ~wrapped /\ CLK_cnt' # 0
    BY <1>3, Zenon
  <2> QED BY <1>1, <1>2, <1>3, <1>4, <1>6, <2>1 DEF Growing
<1>9. Promised'
  BY <1>1, <1>3, <1>4 DEF Promised
<1> QED BY <1>5, <1>7, <1>8, <1>9 DEF Observed

\* A report.
LEMMA CloseObserved ==
  ASSUME PCTypeOK, PCTypeOK', Observed, NEW edge \in BOOLEAN, Emit(edge), Close
  PROVE  Observed'
<1>1. /\ AtBoundary /\ Tao' = Tao /\ Cnt_Stream'.stamp = CLK_cnt
      /\ Cnt_Stream'.flag \in BOOLEAN
      /\ CLK_cnt' = IF Cnt_Stream'.flag THEN 1 ELSE Up(CLK_cnt, StampMod)
  BY EmitFacts
<1>2. /\ CLK_cnt \in Stamps /\ Tao \in Nat /\ StampMod \in Nat /\ CLK_cnt \in Nat
  BY PulseAssumption DEF PCTypeOK, Stamps
<1>3. /\ emitted' = TRUE /\ since' = 0 /\ took' = FALSE /\ lastMark' = Cnt_Stream'.flag
      /\ steady' = (Tao # 0) /\ wrapped' = (CLK_cnt' = 0)
  BY DEF Close
<1>4. SeenTypes'
  BY <1>1, <1>3, Zenon DEF SeenTypes
<1>5. ~lastMark' /\ ~wrapped' => CLK_cnt' = CLK_cnt + 1
  BY <1>1, <1>3 DEF Up
<1>6. Measured'
  <2>1. steady' => Tao' # 0 /\ Cnt_Stream'.stamp % Tao' = 0
    BY <1>1, <1>3 DEF AtBoundary, Remainder
  <2>2. Base' = IF lastMark' THEN 0 ELSE CLK_cnt
    BY <1>1 DEF Base
  <2>3. ~wrapped' => CLK_cnt' = Base' + since' + 1
    BY <1>1, <1>2, <1>3, <1>5, <2>2
  <2>4. steady' => since' + 1 <= Tao'
    <3>1. steady' => Tao # 0
      BY <1>3, Zenon
    <3> QED BY <1>1, <1>2, <1>3, <3>1
  <2> QED BY <2>1, <2>3, <2>4 DEF Measured
<1>7. Growing' /\ Promised'
  BY <1>1, <1>2, <1>3, <1>5 DEF Growing, Promised
<1> QED BY <1>4, <1>6, <1>7 DEF Observed

LEMMA KeepsObserved ==
  ASSUME PCTypeOK, PCTypeOK', Observed, [CNext]_plotVars
  PROVE  Observed'
<1>1. SeenTypes /\ Measured /\ Growing /\ Promised
  BY DEF Observed
<1>2. CASE UNCHANGED mainVars /\ UNCHANGED seen /\ emitted' \in BOOLEAN
  BY <1>1, <1>2 DEF mainVars, seen, Observed, SeenTypes, Measured, Base, Growing, Promised
<1>3. CASE HTick
  <2> PICK level \in Levels, edge \in {FALSE, AsyncPins} :
         \/ Reset /\ Forget
         \/ \E q \in Taos : Write(q) /\ Disturb
         \/ (MarkWindow \/ Count) /\ Age
         \/ Emit(edge) /\ Close
    BY <1>3 DEF HTick
  <2>1. CASE Reset /\ Forget
    <3>1. /\ CLK_cnt' = 1 /\ Cnt_Stream'.stamp = 0 /\ since' = 0
          /\ steady' = FALSE /\ took' = FALSE /\ emitted' = FALSE
          /\ wrapped' = FALSE /\ lastMark' = FALSE
      BY <2>1 DEF Reset, Forget, Blank
    <3>2. SeenTypes'
      BY <3>1 DEF SeenTypes
    <3> QED BY <3>1, <3>2 DEF Observed, Measured, Growing, Promised
  <2>2. CASE \E q \in Taos : Write(q) /\ Disturb
    <3>1. /\ UNCHANGED <<tmp, CLK_cnt, Cnt_Stream, wrapped, lastMark, took>>
          /\ emitted' = FALSE /\ since' = 0 /\ steady' = FALSE
      BY <2>2 DEF Write, Disturb
    <3>2. SeenTypes'
      BY <1>1, <3>1, Zenon DEF SeenTypes
    <3> QED BY <1>1, <3>1, <3>2 DEF Observed, Measured, Growing, Promised
  <2>3. CASE (MarkWindow \/ Count) /\ Age
    BY <2>3, AgeObserved
  <2>4. CASE Emit(edge) /\ Close
    <3>1. edge \in BOOLEAN
      BY PulseAssumption
    <3> QED BY <2>4, <3>1, CloseObserved
  <2> QED BY <2>1, <2>2, <2>3, <2>4
<1>4. CASE Photon /\ emitted' = FALSE /\ UNCHANGED seen
  BY <1>2, <1>4 DEF Photon
<1>5. CASE NewPackage
  BY <1>2, <1>5 DEF NewPackage, pcVars
<1>6. CASE UNCHANGED plotVars
  BY <1>1, <1>2, <1>6 DEF plotVars, histVars, pcVars, SeenTypes
<1> QED BY <1>3, <1>4, <1>5, <1>6 DEF CNext, HNext

LEMMA KeepsFollowing ==
  ASSUME PCTypeOK, Observed, Following, [CNext]_plotVars
  PROVE  Following'
<1>1. CASE HNext /\ emitted' /\ Plot(Cnt_Stream')
  BY <1>1 DEF Plot, Collect, Draw, Following
<1>2. CASE HNext /\ ~emitted' /\ UNCHANGED clientTmp
  <2>1. CASE UNCHANGED Cnt_Stream /\ UNCHANGED steady
    BY <1>2, <2>1 DEF Following
  <2>2. CASE steady' = FALSE
    BY <2>2 DEF Following
  <2>3. CASE MarkWindow /\ UNCHANGED steady
    BY <1>2, <2>3 DEF MarkWindow, Marked, Following
  <2> QED
    BY <1>2, <2>1, <2>2, <2>3 DEF HNext, HTick, Photon, mainVars, seen, Forget, Disturb,
       Count, Age, Close
<1>3. CASE NewPackage
  BY <1>3 DEF NewPackage, Following
<1>4. CASE UNCHANGED plotVars
  BY <1>4 DEF plotVars, histVars, pcVars, mainVars, seen, Following
<1> QED BY <1>1, <1>2, <1>3, <1>4 DEF CNext

\* The invariant, of the counter with its client.
Reported == PCTypeOK /\ Observed /\ Following

LEMMA ReportedAlways == CSpec => []Reported
<1>1. CInit => PCInit /\ Observed /\ Following
  BY InitObserved DEF CInit, HInit, Following
<1>2. [CNext]_plotVars => [PCNext]_pcVars
  <2>1. CNext => [PCNext]_pcVars
    <3>1. HTick => Tick
      BY DEF HTick, Tick, Main
    <3> QED BY <3>1 DEF CNext, HNext, NewPackage, PCNext
  <2> QED BY <2>1 DEF plotVars, histVars, pcVars
<1>3. CSpec => PCSpec
  BY <1>1, <1>2, PTL DEF CSpec, PCSpec
<1>4. PCTypeOK /\ PCTypeOK' /\ Observed /\ [CNext]_plotVars => Observed'
  BY KeepsObserved
<1>5. PCTypeOK /\ Observed /\ Following /\ [CNext]_plotVars => Following'
  BY KeepsFollowing
<1> QED BY <1>1, <1>3, <1>4, <1>5, TypeCorrect, PTL DEF CSpec, Reported

\* What a step that reports has in common.
LEMMA ReportingStep ==
  ASSUME Reported, CNext, emitted'
  PROVE  /\ AtBoundary /\ Cnt_Stream'.stamp = CLK_cnt
         /\ Cnt_Stream'.flag <=> Triggered \/ tmp
         /\ Plot(Cnt_Stream')
<1>1. HNext /\ Plot(Cnt_Stream')
  BY DEF CNext, NewPackage
<1>2. PICK edge \in {FALSE, AsyncPins} : Emit(edge)
  BY <1>1 DEF HNext, HTick, Forget, Disturb, Age
<1>3. edge \in BOOLEAN
  BY PulseAssumption
<1> QED BY <1>1, <1>2, <1>3, EmitFacts DEF Reported

\* The end of an undisturbed window.
LEMMA WindowEnds ==
  ASSUME PCTypeOK, Observed, AtBoundary, steady, ~wrapped
  PROVE  since + 1 = Tao /\ CLK_cnt = Tao + Base
<1>1. /\ Tao \in Nat /\ CLK_cnt \in Nat /\ Cnt_Stream.stamp \in Nat /\ since \in Nat
  BY PulseAssumption DEF PCTypeOK, Samples, Stamps, Observed, SeenTypes
<1>2. /\ Tao # 0 /\ Cnt_Stream.stamp % Tao = 0
      /\ since + 1 <= Tao /\ CLK_cnt = Base + since + 1
  BY DEF Observed, Measured
<1>3. Base \in Nat /\ Base % Tao = 0
  BY <1>1, <1>2 DEF Base
<1>4. (Base + (since + 1)) % Tao = 0
  <2>1. CLK_cnt % Tao = 0
    BY <1>2 DEF AtBoundary, Remainder
  <2> QED BY <1>1, <1>2, <1>3, <2>1
<1>5. since + 1 = Tao
  <2>1. since + 1 \in 1 .. Tao /\ Tao > 0
    BY <1>1, <1>2
  <2> QED BY <1>1, <1>3, <1>4, <2>1, NextMultiple
<1> QED BY <1>1, <1>2, <1>3, <1>5

\* The law of the stamps (Pulse_cnt.v:46-88), for every width of the stamp,
\* every Tao and pins that may change at any time.
THEOREM StampsAreLawful == CSpec => StampLaw
<1>1. Reported /\ [CNext]_plotVars =>
        [emitted' /\ steady /\ ~wrapped =>
           /\ since + 1 = Tao
           /\ Cnt_Stream'.stamp = Tao + (IF lastMark THEN 0 ELSE Cnt_Stream.stamp)]_histVars
  <2> SUFFICES ASSUME Reported, [CNext]_plotVars, ~UNCHANGED histVars,
                      emitted', steady, ~wrapped
               PROVE  /\ since + 1 = Tao
                      /\ Cnt_Stream'.stamp = Tao + (IF lastMark THEN 0 ELSE Cnt_Stream.stamp)
    OBVIOUS
  <2>1. AtBoundary /\ Cnt_Stream'.stamp = CLK_cnt
    BY ReportingStep DEF plotVars
  <2> QED BY <2>1, WindowEnds DEF Reported, Base
<1> QED BY <1>1, ReportedAlways, PTL DEF CSpec, StampLaw

\* A drop of the stamp means a flag before it, or an overflow.
THEOREM DropsFollowFlags == CSpec => StampsDropOnlyAfterFlag
<1>1. Reported /\ [CNext]_plotVars =>
        [emitted' /\ ~lastMark /\ ~wrapped =>
           Cnt_Stream'.stamp > Cnt_Stream.stamp]_histVars
  BY ReportingStep DEF Reported, Observed, Growing, plotVars
<1> QED BY <1>1, ReportedAlways, PTL DEF CSpec, StampsDropOnlyAfterFlag

\* A trigger the main block has taken is flagged by the report that closes
\* its window (Pulse_cnt.v:46-51, 53-62, 79-88).
THEOREM TriggersAreFlagged == CSpec => TakenTriggerIsFlagged
<1>1. Reported /\ [CNext]_plotVars =>
        [emitted' /\ (took \/ Triggered) => Cnt_Stream'.flag]_histVars
  BY ReportingStep DEF Reported, Observed, Promised, plotVars
<1> QED BY <1>1, ReportedAlways, PTL DEF CSpec, TakenTriggerIsFlagged

\* The client cuts the stream where the counter has flagged it (client.py:79,
\* Pulse_cnt.v:60,87), in windows that nothing disturbs.
THEOREM ClientCutsAfterFlag == CSpec => CutsAfterFlag
<1>1. Reported /\ [CNext]_plotVars =>
        [emitted' /\ steady /\ ~wrapped /\ clientTmp # 0 =>
           (clientTmp' = 0 <=> lastMark)]_plotVars
  <2> SUFFICES ASSUME Reported, [CNext]_plotVars, ~UNCHANGED plotVars,
                      emitted', steady, ~wrapped, clientTmp # 0
               PROVE  clientTmp' = 0 <=> lastMark
    OBVIOUS
  <2>1. AtBoundary /\ Cnt_Stream'.stamp = CLK_cnt /\ Plot(Cnt_Stream')
    BY ReportingStep
  <2>2. clientTmp = Cnt_Stream.stamp
    BY DEF Reported, Following
  <2>3. /\ Tao \in Nat /\ Tao # 0 /\ Cnt_Stream.stamp \in Nat
        /\ Cnt_Stream.stamp % Tao = 0
    BY PulseAssumption DEF Reported, PCTypeOK, Samples, Stamps, Observed, Measured
  <2>4. Cnt_Stream'.stamp = Tao + (IF lastMark THEN 0 ELSE Cnt_Stream.stamp)
    BY <2>1, WindowEnds DEF Reported, Base
  <2>5. Cnt_Stream.stamp >= Tao
    BY <2>2, <2>3
  <2> QED BY <2>1, <2>2, <2>3, <2>4, <2>5 DEF Plot, Collect, Draw
<1> QED BY <1>1, ReportedAlways, PTL DEF CSpec, CutsAfterFlag
=============================================================================
