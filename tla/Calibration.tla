------------------------------ MODULE Calibration ------------------------------
(***************************************************************************)
(* The calibration of the SDRAM interface, which the preloader runs before *)
(* anything else (run_mem_calibrate, mem_calibrate and what they call in   *)
(* hps_isw_handoff/soc_system_hps_0/sequencer.c), in the configuration of  *)
(* sequencer_defines.h: DDR3, hard PHY, one rank, no shadow registers.     *)
(* The search for the read gate is DqsEnable, the sweeps are DelayCentre.  *)
(* The board is what the program does not know: where each gate may open,  *)
(* which distances between strobe and data read or write each bit right.   *)
(***************************************************************************)
EXTENDS DqsEnable, DelayCentre

CONSTANTS
  GroupCount,    \* RW_MGR_MEM_IF_WRITE_DQS_WIDTH, the width for reads as well
  InReserve,     \* IO_DQS_IN_RESERVE
  OutReserve,    \* IO_DQS_OUT_RESERVE
  LatencyMax     \* max_latency

ASSUME CalibrationAssumption ==
  /\ GroupCount \in Nat \ {0}
  /\ InReserve \in Taps /\ OutReserve \in Taps
  /\ LatencyMax \in Nat \ {0}
  /\ StaticTaps <= TapMax

VARIABLES
  board,              \* never changes
  pc,                 \* what is called next
  group,              \* write_group, which is read_group too
  out_d, taps, orig,  \* locals of ..._vfifo: d, dqs_in_dtaps, orig_start_dqs
  failed_substage,
  dqs_in, dq_in, dqs_out, oct_out, dq_out, dm_out,  \* delays, per group
  curr_read_lat,
  error,              \* gbl->error_stage, _substage, _group
  passed,             \* pass of run_mem_calibrate
  mux, ctrlcfg, status

delays == <<dqs_in, dq_in, dqs_out, oct_out, dq_out, dm_out>>
locals == <<group, out_d, taps, orig, failed_substage>>
report == <<error, passed, mux, ctrlcfg, status>>
calVars == <<gateVars, board, pc, locals, delays, curr_read_lat, report>>

Groups == 0 .. GroupCount - 1
BitCount == Cardinality(Bits)
Eyes == [Bits -> {e \in (-TapMax .. TapMax) \X (-TapMax .. TapMax) : e[1] <= e[2]}]
GroupBoards == [gate : Windows,
                read : Eyes, write : Eyes,       \* first and last good distance
                mask : SUBSET (-TapMax .. TapMax),
                pattern : Nat]                    \* least output delay that writes
Boards == [groups : [Groups -> GroupBoards], rlat : Nat, enough : Nat]

NoError == [stage |-> "nil", substage |-> "nil", group |-> 255]
Errors == [stage : {"nil", "vfifo", "writes", "vfifo after writes", "lfifo"},
           substage : {"nil", "guaranteed read", "dqs enable phase", "vfifo centre",
                       "writes centre", "read latency"},
           group : Nat]

\* The bits that pass with the strobe at s and the bits at dq.
ReadsRight(g, s, dq) ==
  {b \in Bits : LET e == board.groups[g].read[b] IN s - dq[b] \in e[1] .. e[2]}
WritesRight(g, s, dq) ==
  {b \in Bits : LET e == board.groups[g].write[b] IN s - dq[b] \in e[1] .. e[2]}
AtTap(n) == [b \in Bits |-> n]

\* set_failing_group_stage: the first call stays.
Failed(g, stage, substage) ==
  error' = IF error.stage = "nil"
           THEN [stage |-> stage, substage |-> substage, group |-> g] ELSE error

CalInit ==
  /\ GateInit
  /\ board \in Boards
  /\ pc = "start"
  /\ group = 0 /\ out_d = 0 /\ taps = 0 /\ orig = 0 /\ failed_substage = "nil"
  /\ dqs_in = [g \in Groups |-> 0] /\ dq_in = [g \in Groups |-> AtTap(0)]
  /\ dqs_out = [g \in Groups |-> 0] /\ oct_out = [g \in Groups |-> 0]
  /\ dq_out = [g \in Groups |-> AtTap(0)] /\ dm_out = [g \in Groups |-> 0]
  /\ curr_read_lat = 0
  /\ error = NoError /\ passed = FALSE
  /\ mux = 2 /\ ctrlcfg = "configured" /\ status = "reset"

\* The path to the memory is taken over; mem_config, scc_mgr_zero_all.
Start ==
  /\ pc = "start"
  /\ pc' = "group"
  /\ group' = 0
  /\ status' = "reset" /\ ctrlcfg' = "calibrating" /\ mux' = 3
  /\ error' = NoError
  /\ curr_read_lat' = IF board.rlat + 16 > LatencyMax THEN LatencyMax ELSE board.rlat + 16
  /\ dqs_in' = [g \in Groups |-> InReserve]
  /\ oct_out' = [g \in Groups |-> OutReserve]
  /\ phase' = 0 /\ delay' = 0
  /\ UNCHANGED <<board, window, step, vfifo, i, p, d, work_bgn, work_end, dtaps_per_ptap,
                 out_d, taps, orig, failed_substage, dq_in, dqs_out, dq_out, dm_out, passed>>

\* Mutant: the strobe's output enable keeps its delay.
ZeroOutputsHalf ==
  /\ dq_out' = [dq_out EXCEPT ![group] = AtTap(0)]
  /\ dm_out' = [dm_out EXCEPT ![group] = 0]
  /\ dqs_out' = [dqs_out EXCEPT ![group] = OutReserve]
  /\ UNCHANGED oct_out

\* scc_mgr_zero_group, for the outputs.
ZeroOutputs ==
  /\ dq_out' = [dq_out EXCEPT ![group] = AtTap(0)]
  /\ dm_out' = [dm_out EXCEPT ![group] = 0]
  /\ dqs_out' = [dqs_out EXCEPT ![group] = OutReserve]
  /\ oct_out' = [oct_out EXCEPT ![group] = OutReserve]

\* The gate registers are those of the group at hand, untouched since Start.
ZeroGroup ==
  /\ pc = "group"
  /\ pc' = "pattern"
  /\ ZeroOutputs
  /\ dq_in' = [dq_in EXCEPT ![group] = AtTap(0)]
  /\ out_d' = 0 /\ failed_substage' = "guaranteed read"
  /\ vfifo' = 0 /\ phase' = 0 /\ delay' = 0
  /\ UNCHANGED <<window, step, i, p, d, work_bgn, work_end, dtaps_per_ptap,
                 board, group, taps, orig, dqs_in, curr_read_lat, report>>

\* The loop over d goes on, or ends.
NextOutDelay ==
  /\ out_d' = out_d + 2
  /\ pc' = IF out_d' <= StaticTaps THEN "pattern" ELSE "vfifo failed"

\* Mutant: the loop stays where it is while the strobe can be put off.
NextInDelayStays ==
  /\ UNCHANGED taps
  /\ IF taps < TapMax THEN pc' = "gate" /\ UNCHANGED out_d ELSE NextOutDelay

NextInDelay ==
  /\ taps' = taps + 1
  /\ IF taps < TapMax THEN pc' = "gate" /\ UNCHANGED out_d ELSE NextOutDelay

\* Patterns are written with the output delays put at d and must be read
\* back; failing that, every phase is tried.
LoadPattern ==
  /\ pc = "pattern"
  /\ IF out_d > 0
     THEN /\ dqs_out' = [dqs_out EXCEPT ![group] = out_d]
          /\ oct_out' = [oct_out EXCEPT ![group] = out_d]
     ELSE UNCHANGED <<dqs_out, oct_out>>
  /\ IF board.groups[group].pattern <= out_d
     THEN /\ pc' = "gate"
          /\ taps' = dqs_in[group] /\ orig' = dqs_in[group]
          /\ UNCHANGED <<out_d, phase>>
     ELSE /\ NextOutDelay
          /\ phase' = PHASE_MAX
          /\ UNCHANGED <<taps, orig>>
  /\ UNCHANGED <<window, step, vfifo, delay, i, p, d, work_bgn, work_end, dtaps_per_ptap,
                 board, group, failed_substage, dqs_in, dq_in, dq_out, dm_out,
                 curr_read_lat, report>>

\* The gate is searched with the bits put off by steps over the whole chain,
\* which widens the range of strobe delays at which one of them reads.
SweepStep == TapMax \div (BitCount - 1)

CallGate ==
  LET dq == [b \in Bits |-> b * SweepStep]
      nowhere == [board.groups[group].gate EXCEPT !.length = 0]
  IN
  /\ pc = "gate"
  /\ pc' = "search"
  /\ dqs_in' = [dqs_in EXCEPT ![group] = taps]
  /\ dq_in' = [dq_in EXCEPT ![group] = dq]
  /\ SearchGate(IF ReadsRight(group, taps, dq) = {} THEN nowhere ELSE board.groups[group].gate)
  /\ UNCHANGED <<board, locals, dqs_out, oct_out, dq_out, dm_out, curr_read_lat, report>>

SearchStep ==
  /\ pc = "search"
  /\ GateStep
  /\ UNCHANGED <<board, pc, locals, delays, curr_read_lat, report>>

GateFound ==
  /\ pc = "search" /\ step = "found"
  /\ pc' = "centre"
  /\ dq_in' = [dq_in EXCEPT ![group] = AtTap(0)]
  /\ dqs_in' = [dqs_in EXCEPT ![group] = orig]
  /\ step' = "idle"
  /\ UNCHANGED <<window, gateRegs, i, p, d, work_bgn, work_end, dtaps_per_ptap, board,
                 locals, dqs_out, oct_out, dq_out, dm_out, curr_read_lat, report>>

GateLost ==
  /\ pc = "search" /\ step = "lost"
  /\ dq_in' = [dq_in EXCEPT ![group] = AtTap(0)]
  /\ failed_substage' = "dqs enable phase"
  /\ NextInDelay
  /\ step' = "idle"
  /\ UNCHANGED <<window, gateRegs, i, p, d, work_bgn, work_end, dtaps_per_ptap, board,
                 group, orig, dqs_in, dqs_out, oct_out, dq_out, dm_out, curr_read_lat, report>>

\* ..._vfifo_center: the edges, by the bits first and the strobe after.
ReadEdges ==
  LET start == dqs_in[group]
      n == TapMax - start + 1
  IN  RightSweep([k \in 0 .. n - 1 |-> ReadsRight(group, start + k, AtTap(0))], n,
                 LeftSweep([k \in Taps |-> ReadsRight(group, start, AtTap(k))]), FALSE)

\* A bit without an edge leaves the strobe where it was.
ReadEdgeMissing(edges, stage) ==
  LET b == Min(EdgeMissing(edges)) IN
  /\ Failed(group * BitCount + b, stage, "vfifo centre")
  /\ dq_in' = [dq_in EXCEPT ![group] = AtTap(0)]
  /\ UNCHANGED dqs_in

SetReadDelays(c) ==
  /\ dqs_in' = [dqs_in EXCEPT ![group] = c.dqs]
  /\ dq_in' = [dq_in EXCEPT ![group] = c.dq]

Inside(c) == c.dqMargin >= 0 /\ c.dqsMargin >= 0

\* After success d has been raised once more: above 2 there were delays to undo.
CentreRead ==
  LET edges == ReadEdges
      c == Centre(edges, dqs_in[group], FALSE)
      again == /\ failed_substage' = "vfifo centre"
               /\ NextInDelay
               /\ UNCHANGED <<dqs_out, oct_out, dq_out, dm_out>>
  IN
  /\ pc = "centre"
  /\ \/ EdgeMissing(edges) # {} /\ ReadEdgeMissing(edges, "vfifo") /\ again
     \/ /\ EdgeMissing(edges) = {} /\ ~Inside(c)
        /\ SetReadDelays(c) /\ again
        /\ UNCHANGED error
     \/ /\ EdgeMissing(edges) = {} /\ Inside(c)
        /\ SetReadDelays(c)
        /\ pc' = "writes"
        /\ out_d' = out_d + 2
        /\ IF out_d' > 2 THEN ZeroOutputs ELSE UNCHANGED <<dqs_out, oct_out, dq_out, dm_out>>
        /\ UNCHANGED <<taps, failed_substage, error>>
  /\ UNCHANGED <<gateVars, board, group, orig, curr_read_lat, passed, mux, ctrlcfg, status>>

VfifoFailed ==
  /\ pc = "vfifo failed"
  /\ Failed(group, "vfifo", failed_substage)
  /\ pc' = "hand over"
  /\ UNCHANGED <<gateVars, board, locals, delays, curr_read_lat, passed, mux, ctrlcfg, status>>

\* ..._writes_center, where the strobe stays, and the data mask with all
\* bits of the group.
WriteEdges ==
  LET start == dqs_out[group]
      n == TapMax - start + 1
  IN  RightSweep([k \in 0 .. n - 1 |-> WritesRight(group, start + k, AtTap(0))], n,
                 LeftSweep([k \in Taps |-> WritesRight(group, start, AtTap(k))]), TRUE)

MaskRun(start, dq) ==
  LET all(s) == WritesRight(group, s, dq) = Bits
      mask(x) == x \in board.groups[group].mask
      n == TapMax - start + 1
      delayed == [k \in Taps |-> mask(start - k) /\ all(start)]
      strobed == [k \in 0 .. n - 1 |-> mask(start + k) /\ all(start + k)]
  IN  StrobeScan(strobed, n, MaskScan(delayed))

CentreWrites ==
  LET start == dqs_out[group]
      edges == WriteEdges
      swept == start + Min({edges.end, TapMax - start})
      c == Centre(edges, start, TRUE)
      run == MaskRun(start, c.dq)
      good == Inside(c) /\ MaskMargin(run) >= 0
  IN
  /\ pc = "writes"
  /\ \/ /\ EdgeMissing(edges) # {}
        /\ dqs_out' = [dqs_out EXCEPT ![group] = swept]
        /\ oct_out' = [oct_out EXCEPT ![group] = swept]
        /\ dq_out' = [dq_out EXCEPT ![group] = AtTap(0)]
        /\ Failed(group * BitCount + Min(EdgeMissing(edges)), "writes", "writes centre")
        /\ pc' = "hand over"
        /\ UNCHANGED dm_out
     \/ /\ EdgeMissing(edges) = {}
        /\ dq_out' = [dq_out EXCEPT ![group] = c.dq]
        /\ dm_out' = [dm_out EXCEPT ![group] = MaskDelay(run)]
        /\ oct_out' = [oct_out EXCEPT ![group] = start]
        /\ \/ good /\ pc' = "read again" /\ UNCHANGED error
           \/ ~good /\ pc' = "hand over" /\ Failed(group, "writes", "writes centre")
        /\ UNCHANGED dqs_out
  /\ UNCHANGED <<gateVars, board, locals, dqs_in, dq_in, curr_read_lat,
                 passed, mux, ctrlcfg, status>>

\* ..._vfifo_end: the read delays once more, now with written data.
CentreAfterWrites ==
  LET edges == ReadEdges
      c == Centre(edges, dqs_in[group], FALSE)
  IN
  /\ pc = "read again"
  /\ \/ /\ EdgeMissing(edges) # {}
        /\ ReadEdgeMissing(edges, "vfifo after writes")
        /\ pc' = "hand over"
        /\ UNCHANGED group
     \/ /\ EdgeMissing(edges) = {} /\ ~Inside(c)
        /\ SetReadDelays(c)
        /\ Failed(group, "vfifo after writes", "vfifo centre")
        /\ pc' = "hand over"
        /\ UNCHANGED group
     \/ /\ EdgeMissing(edges) = {} /\ Inside(c)
        /\ SetReadDelays(c)
        /\ IF group + 1 < GroupCount
           THEN pc' = "group" /\ group' = group + 1
           ELSE pc' = "latency" /\ UNCHANGED group
        /\ UNCHANGED error
  /\ UNCHANGED <<gateVars, board, out_d, taps, orig, failed_substage, dqs_out, oct_out,
                 dq_out, dm_out, curr_read_lat, passed, mux, ctrlcfg, status>>

\* ..._lfifo: the latency is lowered until reads fail or it is 0, and two
\* are given back.
CentreLatency ==
  LET fails(n) == n = 0 \/ n < board.enough IN
  /\ pc = "latency"
  /\ pc' = "hand over"
  /\ \/ /\ curr_read_lat < board.enough
        /\ Failed(255, "lfifo", "read latency")
        /\ UNCHANGED <<curr_read_lat, passed>>
     \/ /\ curr_read_lat >= board.enough
        /\ \E n \in 0 .. curr_read_lat - 1 :
             /\ fails(n) /\ \A m \in n + 1 .. curr_read_lat - 1 : ~fails(m)
             /\ curr_read_lat' = n + 2
        /\ passed' = TRUE
        /\ UNCHANGED error
  /\ UNCHANGED <<gateVars, board, locals, delays, mux, ctrlcfg, status>>

\* Mutant: only a calibrated memory is handed over.
HandOverPassed ==
  /\ pc = "hand over"
  /\ pc' = "tell"
  /\ IF passed THEN mux' = 2 /\ ctrlcfg' = "configured" ELSE UNCHANGED <<mux, ctrlcfg>>
  /\ UNCHANGED <<gateVars, board, locals, delays, curr_read_lat, error, passed, status>>

\* Whatever the outcome, the memory goes to the controller as it was
\* configured, and then the outcome is told.
HandOver ==
  /\ pc = "hand over"
  /\ pc' = "tell"
  /\ mux' = 2 /\ ctrlcfg' = "configured"
  /\ UNCHANGED <<gateVars, board, locals, delays, curr_read_lat, error, passed, status>>

Tell ==
  /\ pc = "tell"
  /\ pc' = "done"
  /\ status' = IF passed THEN "success" ELSE "fail"
  /\ UNCHANGED <<gateVars, board, locals, delays, curr_read_lat, error, passed, mux, ctrlcfg>>

CalNext ==
  \/ Start \/ ZeroGroup \/ LoadPattern
  \/ CallGate \/ SearchStep \/ GateFound \/ GateLost \/ CentreRead \/ VfifoFailed
  \/ CentreWrites \/ CentreAfterWrites \/ CentreLatency
  \/ HandOver \/ Tell

-----------------------------------------------------------------------------
\* What every variable is: delays that the chains have (sequencer_defines.h
\* gives their lengths), locals that stay inside their loops, a latency of at
\* most two taps above the first one that failed.
CalTypeOK ==
  /\ window \in Windows
  /\ vfifo \in 0 .. VFIFO_SIZE - 1 /\ phase \in 0 .. PHASE_MAX /\ delay \in 0 .. DELAY_MAX
  /\ group \in Groups
  /\ out_d \in 0 .. StaticTaps + 2 /\ taps \in 0 .. TapMax + 1 /\ orig \in Taps
  /\ dqs_in \in [Groups -> Taps] /\ dq_in \in [Groups -> [Bits -> Taps]]
  /\ dqs_out \in [Groups -> Taps] /\ oct_out \in [Groups -> Taps]
  /\ dq_out \in [Groups -> [Bits -> Taps]] /\ dm_out \in [Groups -> Taps]
  /\ curr_read_lat \in 0 .. LatencyMax + 1
  /\ error \in Errors
  /\ passed \in BOOLEAN

\* When the preloader reads success (9602-9645), the delays that the sweeps
\* left in the hardware read and write every bit of every group, the mask is
\* taken, and the latency is one more than the board needs at least.
SuccessIsReal ==
  status = "success" =>
    /\ \A g \in Groups :
         /\ ReadsRight(g, dqs_in[g], dq_in[g]) = Bits
         /\ WritesRight(g, dqs_out[g], dq_out[g]) = Bits
         /\ dqs_out[g] - dm_out[g] \in board.groups[g].mask
    /\ curr_read_lat > board.enough

\* Room of bit b below and above, with its strobe at s and itself at dq.
Below(eye, s, dq) == s - dq - eye[1]
Above(eye, s, dq) == eye[2] - s + dq

\* The sweeps reach both ends of every eye of a group where the eyes lie
\* within the length of a delay chain, those of the reads from wherever the
\* strobe ends up, that of a written bit from the strobe's reserve.  Beyond,
\* the end of the chain is taken for the edge (5185-5235).
ReadsReached(G) == \A a, b \in Bits : G.read[a][2] - G.read[b][1] <= TapMax
WriteReached(G, b) == OutReserve - G.write[b][1] <= TapMax

\* After the second centring of the reads (5301-5379) the strobe lies in the
\* middle: the least room below it and the least room above it, over the
\* bits, differ by one tap at most, whatever edges the sweeps had to guess.
ReadCentred ==
  status = "success" =>
    \A g \in Groups :
      LET least(Room(_, _, _)) ==
            Min({Room(board.groups[g].read[b], dqs_in[g], dq_in[g][b]) : b \in Bits})
      IN  ReadsReached(board.groups[g]) => least(Below) - least(Above) \in -1 .. 1

\* The writes are centred bit by bit, as the strobe stays (7414-7491): a bit
\* whose delay is not at a limit has as much room below as above, within one
\* tap.
WriteCentred ==
  status = "success" =>
    \A g \in Groups, b \in Bits :
      LET room(Room(_, _, _)) ==
            Room(board.groups[g].write[b], dqs_out[g], dq_out[g][b])
      IN  WriteReached(board.groups[g], b) =>
            dq_out[g][b] \in {0, TapMax} \/ room(Below) - room(Above) \in -1 .. 1

\* The data mask is put into the longest run of positions that pass
\* (7648-7763), although the sweep by the strobe ends early (7724-7727).
MaskRuns ==
  LET start == dqs_out[group]
      reach == start - TapMax .. TapMax
      good(x) == /\ x \in board.groups[group].mask
                 /\ WritesRight(group, Max({x, start}), dq_out[group]) = Bits
  IN  {r \in reach \X reach : r[1] <= r[2] /\ \A x \in r[1] .. r[2] : good(x)}

LongestRun ==
  pc = "read again" =>
    LET runs == MaskRuns IN
    \E r \in runs :
      /\ dqs_out[group] - dm_out[group] \in r[1] .. r[2]
      /\ \A q \in runs : q[2] - q[1] <= r[2] - r[1]

\* A board with room calibrates (rw_mgr_mem_calibrate_vfifo tries every
\* strobe and output delay for this, 5794-5990): gates from half a cycle to
\* nearly two wide, patterns that some output delay writes, a bit that reads
\* at some strobe delay while the gate is searched, bits within reach of the
\* strobe's reserve whose eyes have their middles no further apart than a
\* delay chain, written bits that some delay of theirs puts right, a mask
\* around the strobe, a latency that can be set.
Roomy(G) ==
  /\ G.gate.length \in Clock \div 2 .. 2 * Clock - 2 * OpaTap - DTap
  /\ \E n \in 0 .. StaticTaps : n % 2 = 0 /\ G.pattern <= n
  /\ \E n \in InReserve .. TapMax, b \in Bits :
       n - b * SweepStep \in G.read[b][1] .. G.read[b][2]
  /\ \A b \in Bits : InReserve - G.read[b][2] <= TapMax
  /\ \A a, b \in Bits : G.read[a][1] + G.read[a][2] - (G.read[b][1] + G.read[b][2]) <= 2 * TapMax
  /\ \A b \in Bits : \E n \in Taps : OutReserve - n \in G.write[b][1] .. G.write[b][2]
  /\ OutReserve \in G.mask
  /\ \A x, y \in G.mask : x .. y \subseteq G.mask

CalibratesRoomyBoards ==
  /\ pc = "done"
  /\ \A g \in Groups : Roomy(board.groups[g])
  /\ board.enough <= Min({board.rlat + 16, LatencyMax})
  => passed

\* A gate window of half a cycle to nearly two cycles is never missed,
\* wherever it lies in the ring of the VFIFO, and the gate is put within one
\* phase tap and half a delay tap of its middle (4043-4616; OffCentre counts
\* half picoseconds).  In a longer window the gate also opens a cycle before
\* its middle, and the reads by which the cycle is found may find that one.
GateNearMiddle ==
  window.length \in Clock \div 2 .. 2 * Clock - 2 * OpaTap - DTap =>
    /\ step # "lost"
    /\ step = "found" => OffCentre <= 2 * OpaTap + DTap

\* The preloader learns the outcome after the memory has been handed back to
\* the controller and its configuration restored (9520-9580), and a failure
\* comes with the stage that failed (591-611).
ToldAfterHandOver ==
  status \in {"success", "fail"} =>
    /\ mux = 2 /\ ctrlcfg = "configured"
    /\ status = "fail" => error.stage # "nil"

\* The output delays that were tried for the patterns are gone when the
\* writes are centred (5999-6004): the strobe is at its reserve again, the
\* bits and the mask at 0.
WritesStartAtReserve ==
  pc = "writes" => /\ dqs_out[group] = OutReserve /\ oct_out[group] = OutReserve
                   /\ dq_out[group] = AtTap(0) /\ dm_out[group] = 0

\* What the tracking of DQS is told (4541), "the number of dtaps that equal a
\* ptap", found by backing up a ptap (4475-4477), is a phase tap in length,
\* within two delay taps, when the window is half a cycle or more.
TrackTapsOK ==
  step = "centre" /\ window.length >= Clock \div 2 =>
    dtaps_per_ptap * DTap \in OpaTap - 2 * DTap .. OpaTap + 2 * DTap

\* Whatever the board, the program ends and tells an outcome (9602-9645).
Ends == <>(status \in {"success", "fail"})
=============================================================================
