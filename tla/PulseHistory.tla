---------------------------- MODULE PulseHistory ----------------------------
(***************************************************************************)
(* PulseCounter with history variables that watch its reports.  They only  *)
(* record; every step of PulseCounter stays possible.                      *)
(***************************************************************************)
EXTENDS PulseCounter

VARIABLES
  emitted,   \* the last step was a tick that reported a sample
  since,     \* ticks since the last report, counted while steady
  steady,    \* since the last report: no RESET, no write, Tao not zero
  wrapped,   \* since the last report: CLK_cnt overflowed to zero
  lastMark,  \* the last report carried the flag
  took       \* since the last report: a trigger was taken

seen == <<since, steady, wrapped, lastMark, took>>
histVars == <<pcVars, seen, emitted>>

HInit ==
  /\ PCInit
  /\ emitted = FALSE /\ since = 0 /\ steady = FALSE /\ wrapped = FALSE
  /\ lastMark = FALSE /\ took = FALSE

Forget ==
  /\ emitted' = FALSE /\ since' = 0 /\ steady' = FALSE /\ wrapped' = FALSE
  /\ lastMark' = FALSE /\ took' = FALSE

Disturb ==
  /\ emitted' = FALSE /\ since' = 0 /\ steady' = FALSE
  /\ UNCHANGED <<wrapped, lastMark, took>>

Age ==
  /\ emitted' = FALSE
  /\ since' = IF steady THEN since + 1 ELSE 0
  /\ wrapped' = (wrapped \/ CLK_cnt' = 0)
  /\ took' = (took \/ Triggered)
  /\ UNCHANGED <<steady, lastMark>>

Close ==
  /\ emitted' = TRUE /\ since' = 0
  /\ steady' = (Tao # 0)
  /\ wrapped' = (CLK_cnt' = 0)
  /\ lastMark' = Cnt_Stream'.flag
  /\ took' = FALSE

HTick ==
  \E level \in Levels, edge \in {FALSE, AsyncPins} :
    /\ TriSample(level)
    /\ PhotonAtTick(edge)
    /\ \/ Reset /\ Forget
       \/ \E q \in Taos : Write(q) /\ Disturb
       \/ (MarkWindow \/ Count) /\ Age
       \/ Emit(edge) /\ Close

HNext ==
  \/ Photon /\ emitted' = FALSE /\ UNCHANGED seen
  \/ HTick

HSpec == HInit /\ [][HNext]_histVars

-----------------------------------------------------------------------------
\* A window nobody disturbs lasts exactly Tao ticks, and its stamp is Tao
\* after the last one, or Tao itself after a flagged report (the restart at
\* lines 60 and 87): the law the client draws its time axis by.  It does not
\* cover a window in which CLK_cnt overflowed.
StampLaw ==
  [][emitted' /\ steady /\ ~wrapped =>
       /\ since + 1 = Tao
       /\ Cnt_Stream'.stamp = Tao + (IF lastMark THEN 0 ELSE Cnt_Stream.stamp)]_histVars

\* Stamps only grow until a flagged report, whatever is written meanwhile:
\* a drop tells the client (client.py:79) that a trigger interval ended.
StampsDropOnlyAfterFlag ==
  [][emitted' /\ ~lastMark /\ ~wrapped => Cnt_Stream'.stamp > Cnt_Stream.stamp]_histVars

\* Every trigger the counter took is announced by the flag of the report
\* that closes its window, also when it falls on the window's last tick.
TakenTriggerIsFlagged ==
  [][emitted' /\ (took \/ Triggered) => Cnt_Stream'.flag]_histVars

\* A report counts the photons up to its tick, give or take one that comes
\* with the tick itself, and the next report starts from there (Pulse_cnt.v:
\* 54-55, 71-72, 81-82, where PHO_cnt is read twice from another clock).
EveryPhotonCounted ==
  [][emitted' /\ steady =>
       /\ Cnt_tmp1' \in {PHO_cnt, PHO_cnt'}
       /\ Cnt_Stream'.count = Minus(Cnt_tmp1', Cnt_tmp1) % CountMod]_histVars

\* The flag of a report means a trigger in that report's window, at least in
\* a window that nobody disturbs (README.md:40, Pulse_cnt.v:53-62).
FlagMeansTrigger ==
  [][emitted' /\ steady /\ Cnt_Stream'.flag => took \/ Triggered]_histVars
=============================================================================
