-------------------------- MODULE TriggerGen_proofs --------------------------
(* Type correctness of the pulse generator: its count never runs past the  *)
(* period, whatever is written and whenever; and the timing of its pulses. *)
EXTENDS TriggerGenHistory, TLAPS

\* The two halves of TGTypeOK: the counters and the outputs.
Within == Tao_cnt \in 0 .. GenMod - 1 /\ tmp_cnt \in 0 .. Tao_cnt
Outputs == ready \in BOOLEAN /\ ready2 \in BOOLEAN

LEMMA StepsWithin ==
  ASSUME Within, Step, tmp_cnt # Tao_cnt, UNCHANGED Tao_cnt
  PROVE  Within'
  BY GenAssumption DEF Within, Step

LEMMA KeepsWithin ==
  ASSUME Within, [TGNext]_tgVars
  PROVE  Within'
<1>1. CASE GenReset
  BY <1>1, GenAssumption DEF GenReset, Clear, Within
<1>2. ASSUME NEW x \in Periods, GenWrite(x) PROVE Within'
  BY <1>2, GenAssumption DEF GenWrite, Clear, Within
<1>3. CASE Accumulate \/ PulseSecond
  BY <1>3, StepsWithin, Zenon DEF Accumulate, PulseSecond
<1>4. CASE PulseFirst
  BY <1>4, GenAssumption DEF PulseFirst, Within
<1>5. CASE NoBranch \/ UNCHANGED tgVars
  BY <1>5 DEF NoBranch, tgVars, Within
<1> QED BY <1>1, <1>2, <1>3, <1>4, <1>5, Zenon DEF TGNext, GenRun

LEMMA KeepsOutputs ==
  ASSUME Outputs, [TGNext]_tgVars
  PROVE  Outputs'
  BY Zenon DEF Outputs, TGNext, GenReset, GenWrite, Clear, GenRun,
     Accumulate, PulseFirst, PulseSecond, NoBranch, tgVars

\* No write, reset or branch leaves tmp_cnt above Tao_cnt (TRI_gen.v:11-39),
\* from where the generator would be silent until the counter overflows.
THEOREM GenTypeCorrect == TGSpec => []TGTypeOK
<1>1. TGInit => Within /\ Outputs
  <2>1. TGInit => Within
    BY GenAssumption DEF TGInit, Within
  <2>2. TGInit => Outputs
    BY Zenon DEF TGInit, Outputs
  <2> QED BY <2>1, <2>2
<1>2. Within /\ Outputs /\ [TGNext]_tgVars => (Within /\ Outputs)'
  BY KeepsWithin, KeepsOutputs
<1>3. Within /\ Outputs => TGTypeOK
  BY Zenon DEF Within, Outputs, TGTypeOK
<1> QED BY <1>1, <1>2, <1>3, PTL DEF TGSpec

-----------------------------------------------------------------------------
(* The timing of the pulses, for every counter width, period and writes. *)

\* The second cycle of a pulse is still to come right after the first.
Widths ==
  /\ ready2 => ready
  /\ Tao_cnt >= 2 =>
       /\ ready2 => tmp_cnt = 0 /\ high = 1
       /\ ready /\ ~ready2 => tmp_cnt = 1 /\ high = 2
       /\ ~ready => high = 0

\* Since the last pulse rose the count has been running, and a period too
\* short for the output to fall leaves it high.
Spacing ==
  sinceUp # 0 =>
    IF Tao_cnt >= 2
    THEN sinceUp = tmp_cnt + 1 /\ (ready <=> tmp_cnt <= 1) /\ (ready2 <=> tmp_cnt = 0)
    ELSE ready /\ (ready2 \/ tmp_cnt = Tao_cnt)

Numbers == sinceUp \in Nat /\ high \in Nat
Timed == Within /\ Outputs /\ Numbers /\ Widths /\ Spacing

LEMMA InitTimed == HInit => Timed
<1> SUFFICES ASSUME HInit PROVE Timed
  OBVIOUS
<1>1. ready = FALSE /\ ready2 = FALSE /\ high = 0 /\ sinceUp = 0
  BY DEF HInit, TGInit
<1>2. Within
  BY GenAssumption DEF HInit, TGInit, Within
<1> QED BY <1>1, <1>2 DEF Timed, Outputs, Numbers, Widths, Spacing

LEMMA RunTimed ==
  ASSUME Timed, HRun
  PROVE  Timed'
<1>1. Within' /\ Outputs'
  <2>1. TGNext
    BY DEF HRun, TGNext
  <2> QED BY <2>1, KeepsWithin, KeepsOutputs DEF Timed
<1>2. /\ Tao_cnt \in Nat /\ tmp_cnt \in Nat /\ Tao_cnt <= GenMod - 1 /\ tmp_cnt <= Tao_cnt
      /\ GenMod \in Nat /\ sinceUp \in Nat /\ high \in Nat
  BY GenAssumption DEF Timed, Within, Numbers
<1>3. Widths /\ Spacing /\ ready \in BOOLEAN /\ ready2 \in BOOLEAN
  BY DEF Timed, Outputs
<1>4. /\ Tao_cnt' = Tao_cnt
      /\ sinceUp' = IF ready' /\ ~ready THEN 1
                    ELSE IF sinceUp \in 1 .. GenMod + 2 THEN sinceUp + 1 ELSE sinceUp
      /\ high' = IF ~ready' THEN 0 ELSE IF high < GenMod + 3 THEN high + 1 ELSE high
  BY DEF HRun, GenRun, Accumulate, PulseFirst, PulseSecond, NoBranch, tgVars, Watch, Rising
<1>5. Numbers'
  BY <1>2, <1>4 DEF Numbers
<1>6. CASE Accumulate
  <2>1. /\ tmp_cnt # Tao_cnt /\ ~ready2 /\ ready' = FALSE /\ ready2' = ready2
        /\ tmp_cnt' = tmp_cnt + 1
    BY <1>2, <1>6 DEF Accumulate, Step
  <2>2. Widths'
    BY <1>2, <1>3, <1>4, <2>1 DEF Widths
  <2>3. Spacing'
    BY <1>2, <1>3, <1>4, <2>1 DEF Spacing
  <2> QED BY <1>1, <1>5, <2>2, <2>3 DEF Timed
<1>7. CASE PulseFirst
  <2>1. /\ tmp_cnt = Tao_cnt /\ ~ready2 /\ ready' = TRUE /\ ready2' = TRUE
        /\ tmp_cnt' = 0
    BY <1>7 DEF PulseFirst
  <2>2. Widths'
    BY <1>2, <1>3, <1>4, <2>1 DEF Widths
  <2>3. Spacing'
    BY <1>2, <1>3, <1>4, <2>1 DEF Widths, Spacing
  <2> QED BY <1>1, <1>5, <2>2, <2>3 DEF Timed
<1>8. CASE PulseSecond
  <2>1. /\ tmp_cnt # Tao_cnt /\ ready2 /\ ready' = TRUE /\ ready2' = FALSE
        /\ tmp_cnt' = tmp_cnt + 1
    BY <1>2, <1>8 DEF PulseSecond, Step
  <2>2. Widths'
    BY <1>2, <1>3, <1>4, <2>1 DEF Widths
  <2>3. Spacing'
    BY <1>2, <1>3, <1>4, <2>1 DEF Widths, Spacing
  <2> QED BY <1>1, <1>5, <2>2, <2>3 DEF Timed
<1>9. CASE NoBranch
  <2>1. /\ tmp_cnt = Tao_cnt /\ ready2 /\ ready' = ready /\ ready2' = ready2
        /\ tmp_cnt' = tmp_cnt
    BY <1>9 DEF NoBranch, tgVars
  <2>2. ready /\ ~(Tao_cnt >= 2)
    BY <1>2, <1>3, <2>1 DEF Widths
  <2> QED BY <1>1, <1>4, <1>5, <2>1, <2>2 DEF Timed, Widths, Spacing
<1> QED BY <1>6, <1>7, <1>8, <1>9 DEF HRun, GenRun

LEMMA KeepsTimed ==
  ASSUME Timed, [HNext]_histVars
  PROVE  Timed'
<1>1. ASSUME NEW q \in Periods, GenWrite(q), Forget PROVE Timed'
  <2>1. Within' /\ Outputs'
    BY <1>1, KeepsWithin, KeepsOutputs DEF Timed, TGNext
  <2>2. ready' = FALSE /\ ready2' = FALSE /\ high' = 0 /\ sinceUp' = 0
    BY <1>1 DEF GenWrite, Clear, Forget
  <2> QED BY <2>1, <2>2 DEF Timed, Numbers, Widths, Spacing
<1>2. ASSUME GenReset, Forget PROVE Timed'
  <2>1. Within' /\ Outputs'
    BY <1>2, KeepsWithin, KeepsOutputs DEF Timed, TGNext
  <2>2. ready' = FALSE /\ ready2' = FALSE /\ high' = 0 /\ sinceUp' = 0
    BY <1>2 DEF GenReset, Clear, Forget
  <2> QED BY <2>1, <2>2 DEF Timed, Numbers, Widths, Spacing
<1>3. CASE HRun
  BY <1>3, RunTimed
<1>4. CASE UNCHANGED histVars
  BY <1>4 DEF histVars, hist, tgVars, Timed, Within, Outputs, Numbers, Widths, Spacing
<1> QED BY <1>1, <1>2, <1>3, <1>4 DEF HNext

\* A pulse is high for the two cycles the code gives it (TRI_gen.v:29-39),
\* and no longer, for every period of at least two.
THEOREM TwoTicksHigh == HSpec => PulseIsTwoTicks
<1>1. Timed => [HRun /\ Tao_cnt >= 2 /\ Falling => high = 2]_histVars
  <2> SUFFICES ASSUME Timed, HRun, Tao_cnt >= 2, Falling PROVE high = 2
    OBVIOUS
  <2>1. ready /\ ~ready'
    BY DEF Falling
  <2>2. ~ready2
    <3>1. ready2 => tmp_cnt = 0
      BY DEF Timed, Widths
    <3>2. tmp_cnt # Tao_cnt \/ ~ready2
      BY <3>1 DEF Timed, Within
    <3> QED BY <2>1, <3>2 DEF HRun, GenRun, Accumulate, PulseFirst, PulseSecond, NoBranch
  <2> QED BY <2>1, <2>2 DEF Timed, Widths
<1> QED BY <1>1, InitTimed, KeepsTimed, PTL DEF HSpec, PulseIsTwoTicks

\* From one pulse to the next it is Tao_cnt + 1 ticks, not Tao_cnt
\* (TRI_gen.v:24-39): the pulse's first cycle restarts the count at zero.
THEOREM PeriodsAreTaoPlusOne == HSpec => PeriodIsTaoPlusOne
<1>1. Timed => [HRun /\ Rising /\ sinceUp # 0 => sinceUp = Tao_cnt + 1]_histVars
  <2> SUFFICES ASSUME Timed, HRun, Rising, sinceUp # 0 PROVE sinceUp = Tao_cnt + 1
    OBVIOUS
  <2>1. ready' = TRUE /\ ~ready /\ ~ready2
    BY DEF Rising, Timed, Outputs, Widths, HRun, GenRun, Accumulate, PulseFirst,
       PulseSecond, NoBranch
  <2>2. tmp_cnt = Tao_cnt
    BY <2>1 DEF HRun, GenRun, Accumulate, PulseFirst, PulseSecond, NoBranch
  <2> QED BY <2>1, <2>2 DEF Timed, Spacing
<1> QED BY <1>1, InitTimed, KeepsTimed, PTL DEF HSpec, PeriodIsTaoPlusOne
=============================================================================
