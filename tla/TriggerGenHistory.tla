------------------------- MODULE TriggerGenHistory -------------------------
(***************************************************************************)
(* TriggerGen with history variables that time its pulses, and a bounded   *)
(* number of bus writes so that it is eventually left to run.              *)
(***************************************************************************)
EXTENDS TriggerGen

CONSTANT MaxWrites    \* bound: writes in one behaviour

VARIABLES
  writes,   \* writes so far
  sinceUp,  \* ticks since the output last rose, zero when that is unknown
  high      \* ticks the output has been high

hist == <<writes, sinceUp, high>>
histVars == <<tgVars, hist>>

Rising == ready' /\ ~ready
Falling == ~ready' /\ ready

HInit == TGInit /\ writes = 0 /\ sinceUp = 0 /\ high = 0

Forget == sinceUp' = 0 /\ high' = 0

\* Both clocks stop at a bound, GenMod + 3, that no regular pulse reaches.
Watch ==
  /\ sinceUp' = IF Rising THEN 1
                ELSE IF sinceUp \in 1 .. GenMod + 2 THEN sinceUp + 1 ELSE sinceUp
  /\ high' = IF ~ready' THEN 0 ELSE IF high < GenMod + 3 THEN high + 1 ELSE high

HRun == GenRun /\ Watch /\ UNCHANGED writes

HNext ==
  \/ GenReset /\ Forget /\ writes < MaxWrites /\ writes' = writes + 1
  \/ \E q \in Periods :
       GenWrite(q) /\ Forget /\ writes < MaxWrites /\ writes' = writes + 1
  \/ HRun

HSpec == HInit /\ [][HNext]_histVars /\ WF_histVars(HRun)

-----------------------------------------------------------------------------
\* A pulse is high for two ticks, "first" and "second cycle positive on
\* ready" (TRI_gen.v:29,35), for every period that leaves room for it.
PulseIsTwoTicks ==
  [][HRun /\ Tao_cnt >= 2 /\ Falling => high = 2]_histVars

\* Two pulses start Tao_cnt + 1 ticks apart.
PeriodIsTaoPlusOne ==
  [][HRun /\ Rising /\ sinceUp # 0 => sinceUp = Tao_cnt + 1]_histVars

\* Once nobody writes it the generator pulses forever, if its period is at
\* least two ticks.
KeepsPulsing ==
  (Tao_cnt >= 2 ~> (ready \/ Tao_cnt < 2)) /\ (ready ~> (~ready \/ Tao_cnt < 2))
=============================================================================
