------------------------- MODULE AcquisitionHistory -------------------------
(***************************************************************************)
(* Acquisition with history variables for what the receiver relies on.     *)
(***************************************************************************)
EXTENDS Acquisition, Sequences

VARIABLES
  inFlight,   \* samples due and not yet offered to the FIFO, in order
  turn,       \* the last tick made a sample "due", left one "spare", or neither
  calm,       \* since the last report: no write to counter or simulator
  marks,      \* since the last report: a trigger was taken
  settled,    \* an unflagged report came after the last write to counter or trigger
  emitted     \* the last tick reported a sample

hist == <<inFlight, turn, calm, marks, settled, emitted>>
acqHistVars == <<acqVars, hist>>

HInit ==
  /\ AcqInit
  /\ inFlight = <<>> /\ turn = "none" /\ calm = FALSE /\ marks = FALSE
  /\ settled = FALSE /\ emitted = FALSE

\* A report in the tick after another is spare; a write that follows at once
\* leaves it on offer (Pulse_cnt.v:38-45) and makes it due.
Due(event) == (event = "emit" /\ turn # "due") \/ (event = "write" /\ turn = "spare")

Pushed == IF data_buffer_valid /\ inFlight # <<>> THEN Tail(inFlight) ELSE inFlight

Watch(event, target) ==
  /\ inFlight' = IF por # 0 THEN <<>>
                 ELSE IF Due(event) THEN Append(Pushed, Cnt_Stream') ELSE Pushed
  /\ turn' = IF Due(event) THEN "due" ELSE IF event = "emit" THEN "spare" ELSE "none"
  /\ calm' = IF event = "emit" THEN por = 0 /\ target = "none"
             ELSE calm /\ target \notin {"counter", "sim"}
  /\ marks' = CASE event = "count" -> marks \/ Triggered
                [] event = "write" -> marks
                [] OTHER -> FALSE
  /\ settled' = IF por # 0 \/ target \in {"counter", "trigger"} THEN FALSE
                ELSE settled \/ (event = "emit" /\ ~Cnt_Stream'.flag)
  /\ emitted' = (event = "emit")

HNext == \E event \in Events, target \in Targets :
           AcqTick(event, target) /\ Watch(event, target)

HSpec == HInit /\ [][HNext]_acqHistVars

-----------------------------------------------------------------------------
\* Every sample that is due reaches the FIFO's write port once, in order and
\* unchanged, and nothing else does (ghrd.v:162-171).  The hand-over looks at
\* the counter every other tick: of reports in consecutive ticks it leaves
\* out every second one.  So it is with a Tao of 1, and where CLK_cnt
\* overflows with a Tao that divides 2^32 - 1, as the 0xffff of RESET does.
InOrderOnce ==
  /\ por = 0 /\ data_buffer_valid => inFlight # <<>> /\ Head(inFlight) = data_buffer
  /\ Len(inFlight) <= 1

\* With the simulator wired to the photon input, an undisturbed window
\* counts the simulated pulses that fit in it, one more or one less than
\* the exact quotient at most (a zero stamp is CLK_cnt's overflow).
SimulatedCount ==
  [][wired /\ emitted' /\ calm /\ siTao >= 2 /\ Cnt_Stream'.stamp # 0 =>
       LET n == Cnt_Stream'.count * (siTao + 1)
       IN n < Tao + siTao + 1 /\ Tao < n + siTao + 1]_acqHistVars

\* Whatever the trigger's period and the window are, and whatever was
\* flagged under earlier settings: from the first unflagged sample to the
\* next write of the counter or the trigger every flag is exact.  A mark
\* that a second trigger, on the boundary, leaves behind (Pulse_cnt.v:53-62)
\* is harmless then, as the next window holds a trigger too.
FlagsOnceSettled ==
  [][wired /\ emitted' /\ settled /\ Tao # 0 =>
       (Cnt_Stream'.flag <=> (marks \/ Triggered))]_acqHistVars
=============================================================================
