# TLA+ models of DE0-nano-photon-count

The repository turns a DE0-nano-SoC board into a photon counter: an FPGA
design counts TTL pulses in windows of a programmable number of clock ticks,
two C programs on the board's ARM processor offer the samples and the settings
over TCP, and a Python client sets, fetches and plots.  Before any of that the
board's preloader calibrates the SDRAM.  This directory holds TLA+ modules of
the hand-written parts, of the generated FIFO on the data path and of the
calibration, the TLC configurations that check them, and proofs for TLAPS.

    tlc -config pulse.cfg ClientPlot       (module and .cfg of each run: section 3)
    tlapm PulseCounter_proofs.tla

## 1. Inventory

| Component | Source | State | Operations |
|---|---|---|---|
| Photon counter `PlsCnt` | `fpga-rtl/Pulse_cnt.v` | `Tao`, `PHO_cnt` (photon clock), `tri_1`, `tmp`, `CLK_cnt`, `Cnt_tmp1`, the output word and `RDY` | RESET, bus write, count, mark, three kinds of report; photon edge; trigger sampling |
| Pulse generators `trigger`, `trigger_sim` | `fpga-rtl/TRI_gen.v` | `Tao_cnt`, `tmp_cnt`, `ready`, `ready2` | reset, write, accumulate, first and second cycle, a case no branch covers |
| Top level | `fpga-rtl/ghrd.v`, `soc_system.v` | `counter_state`, `data_buffer`, `data_buffer_valid`; resets | hand-over of a sample to the FIFO; wiring |
| Sample FIFO | `soc_system_fifo_pls.v`, `db/dcfifo_d982.tdf` | RAM, pointers, their delayed copies, `q`, status register | write, read, synchronise |
| Readout server `Pls_FIFO` | `hps-c/Pulse_counter_FIFO_read_out/main.c` | connection, `data[MAX]`, loop counter | accept, poll, read, send, close |
| Settings server `Pls_controller` | `hps-c/Pulse_counter_controller/main.c` | connection, `buff`, three settings | accept, one read, decode, test, three writes, answer, close |
| Client | `client/client.py` | connection, last stamp, interval | set, fetch a package, split it, draw |
| SDRAM calibration | `hps_isw_handoff/soc_system_hps_0/sequencer.c` | gate, strobe, bit, mask delays per group; read latency; multiplexer, controller mode, status | pattern, gate search, centring of reads and writes, mask, latency, retries, hand-over |
| Not modelled | see section 8 | | |

How they interact.  Counter, generators and hand-over share a 50 MHz clock;
each sees the others' registers as they were before the tick.  The photon
input is a clock of its own.  The settings server writes the three `Tao`
registers over the bus at any tick.  The counter offers a word with `RDY`, the
hand-over copies it to the FIFO (and does not look at "full"), the readout
server polls a status register and reads words, 8192 to a package.  The two
servers are separate processes and share nothing but the FPGA.  The
calibration runs once, alone, on its own small processor, and tells the
preloader its outcome in a register.

What is hard: a trigger on any tick of a window; writes and resets in the
middle of one; counters that overflow; the asynchronous inputs; pointers and a
status that are several ticks old; a FIFO that overflows in silence; samples
that outlive the settings they were taken under; requests in pieces; clients
that leave; a process that a signal ends; sweeps that start inside, before or
after the eye they look for, and retries that leave their delays behind.
`PROJECT.json` lists each at its line with the properties that watch it.

## 2. Modules

| Module | Models | Extends / instantiates |
|---|---|---|
| `PulseCounter` | `Pulse_cnt.v`, one action per branch of the if-chain | |
| `SampleStream` | what the counter promises: every photon in one sample, no trigger forgotten | instance in `PulseCounter` |
| `PulseHistory` | history variables over `PulseCounter` | `PulseCounter` |
| `ClientPlot` | the client's split into intervals, on the counter's reports | `PulseHistory` |
| `TriggerGen`, `TriggerGenHistory` | `TRI_gen.v`; pulse timing | |
| `SampleTransfer` | the hand-over in `ghrd.v` | |
| `Acquisition`, `AcquisitionHistory` | counter, two generators, hand-over, power-on, bus | `PulseCounter`, `TriggerGen` twice, `SampleTransfer` |
| `PulseFifo` | the FIFO's pointers and comparators | `SampleQueue` |
| `SampleQueue` | what the FIFO promises: a bounded queue that refuses only near full | |
| `FifoReadout` | FIFO, status register and `hps_data_get`, tick by tick | `PulseFifo` |
| `SettingServer` | settings server and its clients | |
| `Session` | clients, settings, readout server and an abstract FIFO | |
| `DqsEnable` | the search for the read gate of a group | |
| `DelayCentre` | what the sweeps of bit, strobe and mask delays leave behind | |
| `Calibration` | `run_mem_calibrate`: the calls in order, their retries and the hand-over | `DqsEnable`, `DelayCentre` |
| `SdramBoards` | the boards the run tries | `Calibration` |
| `*_proofs` | theorems | the module they name; `PulseCounter_proofs` extends `ClientPlot`, `TriggerGen_proofs` extends `TriggerGenHistory`, `Acquisition_proofs` extends `AcquisitionHistory`, `FifoReadout_proofs` has those of `PulseFifo` too, and `SequencerLoops_proofs` has the lemmas about the loops of `DqsEnable` and `DelayCentre` on which `Calibration_proofs` builds |

How they correspond to the code:

* **PulseCounter.**  Registers keep their names.  `Main` is the if-chain of
  lines 28-88: `Reset`, `Write`, `MarkWindow` (46), `ReportOnTrigger` (53),
  `Count` (64), `ReportPlain` (70), `ReportMarked` (79).  A `Tick` runs it
  together with the trigger sampler (9-18); `Photon` is the block on `PHO`
  (20-22).  The word is a record of count (31 bits, since bit 63 is the flag),
  flag and stamp.  `Cnt_tmp2` is a temporary and left out.  `CLK_cnt % Tao` with
  `Tao = 0`, as before RESET, is X in a simulator; the divider circuit leaves
  the dividend (`Remainder`), so that the counter reports at `CLK_cnt = 0` only.
  With `AsyncPins` a pin may change at the clock edge: the two
  bits of `tri_1` resolve each for itself, and a read of `PHO_cnt` gives any mix
  of old and new bits that the carry makes possible (`Torn`).
* **TriggerGen.**  One action per branch; `NoBranch` is the case
  `tmp_cnt == Tao_cnt && ready2`, reached when the period is zero.
* **SampleTransfer.**  The three `if`s of `ghrd.v:157-172` in one action: the
  last non-blocking assignment wins, so the reset's lose against a hand-over.
* **Acquisition.**  A step is a tick of all blocks.  RESET comes once, after
  power-on, for three ticks; `reset_reset_n` is tied high.  The variable `wired`
  never changes: TRUE is the loop-back set-up of `README.md:26-27` (both
  generator outputs wired to the counter's pins), FALSE leaves the trigger pin
  free.  `FreeEdges` says whether the photon pin moves then, `WarmResets` with
  which of the two the processor may be reset meanwhile.
* **PulseFifo.**  Both clocks of the dual-clock FIFO are `clk_clk`.  Gray code
  only changes the pointers' encoding and is left out; the delays are kept:
  three registers from `wrptr` to the reader, two from `rdptr` to the writer.
* **FifoReadout.**  A step is a tick; each bus access of lines 80 and 84 takes a
  step, with any number of ticks between (`Elsewhere`).  The status register
  copies `rdempty` one tick late.  `pc = "absent"` is the FIFO without the
  server: the read port may be asked at any tick, also when it is empty.
* **SettingServer.**  A request is three words of `FieldBytes` bytes; the network
  delivers a prefix; the single `read` (161) takes what is there and the rest of
  the zeroed buffer decodes as zeros (`Decode`).  `char` is unsigned on the
  processor, so there is no sign extension.  Bytes left unread make the close a
  reset, which can cost the client its answer.  The listening socket is
  non-blocking, the accepted one is not: `read` blocks.
* **Session.**  A sample carries two marks, "samples were lost just before it"
  and "its window began under replaced settings".  A write of settings marks
  whatever exists as old.  The server is a process among others and `Int` is
  the client's, so a window may end at any moment (`Report`), however often or
  seldom the FIFO was polled in it.  Where the server falls behind during a fill
  (`FallsBehind`), the history variable `slow` remembers it for that package and
  the next.  `Sigpipe` is `send` on a connection the client has
  reset: the process dies before `send_all` can return false (91-107).
* **DqsEnable.**  A step is one loop of
  `rw_mgr_mem_calibrate_vfifo_find_dqs_en_phase`.  The function is alone on its
  processor, so a loop's result is the least index at which its exit condition
  holds (`Meets`); the hardware it leaves behind is the registers at that index.
  A test read passes when the gate, `vfifo` cycles, `phase` phase taps and
  `delay` delay taps after the command, opens inside the board's window.
* **DelayCentre.**  Operators on the outcome of a sweep: where it stops, which
  edge each bit has, which are guessed and with which sign, what is clamped.
  Division is C's, towards zero.
* **Calibration.**  The configuration of `sequencer_defines.h`: DDR3, hard PHY,
  one rank, no shadow registers, `SKIP_PTAP_0_DQS_EN_CAL`.  The board is what
  the program cannot know and never changes: gate windows, the distances
  between strobe and bit that read or write each bit right, mask positions, the
  least output delay at which a pattern is written, the latency.  Reading in
  the same group uses the same strobe as writing in it (`write_group` is
  `read_group`).  `HandOver` and `Tell` come after success and failure alike.

## 3. Runs

| Run | Module | Shows |
|---|---|---|
| `pulse` | `ClientPlot` | the counter implements `SampleStream`; the stamps' law; stamps drop only after a flag; each taken trigger flagged; the client cuts exactly after a flag |
| `trigger_gen` | `TriggerGenHistory` | pulses two ticks wide, `Tao_cnt + 1` apart, for ever |
| `acquire` | `AcquisitionHistory` | from power-on, every sample reaches the FIFO port once and in order, but for every second one of reports in consecutive ticks; in the loop-back set-up flags match triggers exactly from the first unflagged sample to the next write, and counts match the simulated pulses within one |
| `fifo_readout` | `FifoReadout` | with or without the server the FIFO implements `SampleQueue`, its pipelines stay in order, words become visible; with it, no read of an empty FIFO, each word stored once and in order, packages end |
| `settings` | `SettingServer` | no zero integration time, not even from a request cut short; "done" means all three registers; nobody waits for ever |
| `session` | `Session` | a package has no inner gap if the server kept up in it and in the one before; the second package after new settings is free of old samples; nobody waits for ever |
| `sdram` | `SdramBoards` | on 1352 boards: success means that what is left in the hardware reads and writes right; gate, strobe, bits and mask are where they should be; boards with room (`Roomy`) calibrate; every board gets an answer, after the memory has been handed back |

Five runs show where the code and its documentation disagree:

| Run | Property | What happens |
|---|---|---|
| `pulse_stale_flag` | `FlagMeansTrigger` | a window with a trigger inside and one on its last tick leaves `tmp` set (line 53-62 does not clear it): the next window is flagged without a trigger, here with the `Tao` of RESET |
| `pulse_async` | `EveryPhotonCounted` | a photon at the sampling edge is read torn, twice |
| `client_flag` | `UnflaggedIsCount` | the client takes the flag bit off the sample *after* the flagged one (`client.py:86`): the flagged one is drawn with its bit, the next one 2^31 too low |
| `stale_package` | `PackageHasMySettings` | the FIFO is never emptied: the first package after new settings holds old samples |
| `sdram_tracking` | `TrackTapsOK` | when the gate window ends in phase tap 1, the code backs up two phase taps where its comment says one (`sequencer.c:4475-4484`): the tracking is told 8 delay taps here instead of 4, and with the board's constants 25 instead of 12 |

Things met on the way that no run is spent on: an overflow of `CLK_cnt` (86 s
without a trigger) cuts a window unless `Tao` divides 2^32; if `Tao` divides
2^32 - 1 (3, 5, 17, 257, and the 0xffff that RESET sets) the reports before and
after that overflow come in consecutive ticks and the hand-over, which looks
every other tick, passes over the second, as it does with every other sample if
`Tao` is 1 (`InOrderOnce` says that it passes over no more); where the readout
server polls too seldom during a fill, a package has a gap inside and nothing
tells; a trigger that `tri_1` shows in the very tick of a bus write is lost; a
generator's period is `Tao_cnt + 1` ticks, where `README.md:32-33` calls the
number sent the period; periods 0 and 1 leave its output high; the calibrated
latency may be written as 32 to a field of five bits.

## 4. Bounds

Widths are moduli.  `StampMod` 8 to 16 and `CountMod` 1 to 4 instead of 2^32 and
2^31 make both counters overflow within a few windows; in `pulse`, `Taos`
{1, 2, 3} with `StampMod` 9 has values that do and do not divide it, and 1.
`GenMod` 8 with periods 0, 1, 2, 3, 6, 7 has both ends of the range; `MaxWrites`
3 writes leave the generator alone in the end.

`acquire` has windows of one, two and four ticks, and after RESET of seven, which
divides `StampMod - 1` as 0xffff divides 2^32 - 1: reports in consecutive ticks
come from both; simulated periods of 2 and 4
ticks, and triggers 3 ticks apart (as configured), 4 and 8: closer than the
windows, as after RESET (256 ticks against 65535), as far apart, and further, as
in the documented set-up.  In some of its states a mark is left over from a
window with two triggers.  `BusGap` 3 is the ticks between bus writes, of which the
documented bus needs many more.  The photon pin is still while nothing is
wired to it (`FreeEdges`), for what it counts there is the subject of `pulse`.

FIFO depth 4 with `Slack` 3 covers full, empty and both pointer wraps; two
words are enough to tell an order.  A package of two words makes the loop end
and start again.  `settings` has two clients, one place in the backlog and
words of two bytes of two values, so that a request is cut at every byte of
every word.  `session` has packages and FIFO of three words and two clients.
A window may end after any number of polls, none included; `Pace` 2 is the number
with which the server counts as keeping up (a window of the default, 5000 ticks,
has time for many).  Two are needed: with one poll in a window the FIFO can
refuse a word in the middle of a fill, for the writer learns late of a read.
The packages with a gap inside are reached, and with `slow <= 1` for a premise
`PackageContiguous` would be false.

`sdram` scales the board down and keeps its ratios: about 4 delay taps to a
phase tap (12.5 on the board), a delay chain of 2.4 phase taps, 8 phase taps to
a cycle (`PHASE_MAX` 7, as on the board).  `VFIFO_SIZE` is 8 (16), `DELAY_MAX`
10 (31), `OpaTap` 50 ps (312), `DTap` 12 (25), a group has 3 bits (8), delays up
to 7 (31), two groups (4), reserves 1 and 2 (4).  One group of a board is
varied at a time, over every position of the gate in the ring and windows from
half a delay tap to nearly two cycles, over eyes that lie before, around and
after where the sweeps start, over all bits alike at every distance (where no bit
may read while the gate is searched), over every mask inside eight positions, over
output delays that can and cannot write the pattern, and over latencies at both
ends.  The second group differs in some boards, so that a retry in one meets
what the other left.  50303 states.  With the board's own constants for the
gate (not a run: it takes hours) windows of half a cycle to two cycles were
never missed; `GateNearMiddle`, which `GateInMiddle` proves for every constant
that is fine enough, says how near the middle the gate lies.

## 5. Fairness

* `TriggerGenHistory`: the clock ticks (`WF` of the running step).
* `FifoReadout`: the clock ticks (`WF(ReadoutNext)`), and the processor goes on
  inside the loop (`WF(Working)`); nothing is assumed about its speed.
  `PackageFills` has its own premise, that words keep coming.
* `SettingServer`: the process runs, the network delivers, and a client that
  has connected sends or dies.  The last is needed: `read` has no time-out
  (the one set at line 132 is on the listening socket and too short a structure
  to be taken), so that a silent client would hold everyone up.
* `Session`: the counter reports and the server's process runs.  Restarting the
  server is an operator's step and not assumed.
* `SdramBoards`: the sequencer's processor does nothing else and is never
  stopped.  `GoesOn` says so without `ENABLED`, which would run every sweep
  again; it equals weak fairness of `CalNext`, since the run finds no deadlock.

## 6. Proofs

They hold for all values of the constants that the modules' assumptions, and
the assumptions named here, admit.

| Theorem | Module | Argument |
|---|---|---|
| `TypeCorrect` | `PulseCounter_proofs` | `PCTypeOK` is inductive; lemmas on modular counters |
| `CounterImplementsStream` | | step simulation with `pending = PHO_cnt - Cnt_tmp1` modulo 2^32 and `owed = tmp`, for synchronous pins |
| `StampsAreLawful` | | `Measured`: in a steady window `CLK_cnt` is the window's base, a multiple of `Tao`, plus the ticks since; the next multiple is `Tao` away (`NextMultiple`) |
| `DropsFollowFlags`, `TriggersAreFlagged` | | `Growing`, `Promised`: unless flagged or overflowed, `CLK_cnt` is past the last stamp; a taken trigger sets `tmp` |
| `ClientCutsAfterFlag` | | with `Following`: the client holds the last stamp, which is a multiple of `Tao` and so at least the stamp `Tao` that follows a flag |
| `GenTypeCorrect` | `TriggerGen_proofs` | `tmp_cnt <= Tao_cnt` is kept because a write clears the count |
| `TwoTicksHigh`, `PeriodsAreTaoPlusOne` | | `Timed`: the count is the ticks since the rise less one, and the outputs follow from it |
| `FifoTypeCorrect`, `PipelineOrdered` | `FifoReadout_proofs` | going round the ring from the writer, the distances between consecutive copies add up to at most `Depth`; inductive as it stands, since the comparators test exactly its bounds |
| `FifoIsQueue` | | assumes `Slack >= 3`.  `Content` is what lies between the pointers; a read takes its head, a write goes to a slot no unread word has (`AtDistinct`); the writer's copy of `rdptr` is at most two words old (`ReadLag`), so that a refusal means nearly full |
| `NeverUnderflows` | | `Trusted`: what a status said stays true until the loop itself reads, because the reader's copy of `wrptr` only moves on (from `PipelineOrdered`) |
| `StoredInTurn` | | `Accounted`: what `data[]` has not got is the FIFO's content, and between the data access and the store also the word in `q` (from the queue lemma `ContentStep`) |
| `AcquisitionTyped` | `Acquisition_proofs` | `AcqTypeOK` and the frame of each tick: a trigger generator's, a simulator's, the counter's and the hand-over's step keep their part |
| `FlagsExact` | | assumes `SameWidth`.  `Flagging`: a settled mark belongs to this window, and then another trigger follows before the boundary only if triggers are less than a window apart (`Marking`); or an earlier window left it, and then a trigger is due before the boundary (`LeftOver`).  `Left`, `Away` and `Apart` are the ticks to the boundary, to the next trigger and between triggers |
| `PhotonsCounted` | | assumes `SameWidth` and `CountsFit`.  `Simulating`: the ticks since the report and `siTao + 1` times the pulses counted grow alike (`Balanced`) |
| `OnceInOrder` | | assumes `BusGap > 0`: no bus writes in two consecutive ticks.  `Delivering`: the sample that is due is nowhere (`Nothing`), reported (`Reported`) or at the port (`AtPort`), or at the port while a report follows that the hand-over passes over (`TooEarly`) |
| `NeverZeroHolds` | `SettingServer_proofs` | strengthened with "a request being written has passed the test" |
| `SettingsTyped`, `DoneIsApplied` | | what each stage of the server has written by then, and that nobody else writes |
| `SessionTyped` | `Session_proofs` | connections: each client is at most once in the backlog or served |
| `PackagesWithoutGaps` | | assumes `MAX = Depth`; that the server kept up is the property's own premise.  `Whole`: in such a package the FIFO has room again before a sample comes (`Drains`), so that words are lost only where a package begins (`GapsBetween`); the first such package takes in whatever gaps the FIFO held, at most one remains behind its end (`GapsLeft`), and once it is gone that one is in front (`Healed`) |
| `SecondPackagesAreFresh` | | assumes `Depth <= MAX`.  `Renewed`: the old words in the FIFO fit into the rest of the first package, but for its last one |
| `OutcomeTold` | `Calibration_proofs` | `InOrder`: who reaches the hand-over has passed or named a stage; of the steps alone, for any board |
| `WritesPrepared` | | `Prepared`: as long as no output delay was tried the strobe is at its reserve; after one was, the counter is above 2 |
| `CalibrationTyped` | | `CalTyped`: every delay is in its chain, also in the middle of a retry; on lemmas that bound what `Centre` and the mask scan return (`SequencerLoops_proofs`) |
| `SuccessReal`, `WritesInMiddle`, `ReadsInMiddle` | | `Calibrated`: a group that the program has left behind is centred, and what is done to a later group does not touch it.  `LeftSweepExact`, `RightSweepExact`: the least index at which a sweep stops has every bit at its edge or past the chain, and whether an edge was seen or guessed the centre comes to the same |
| `GateInMiddle` | | assumes `FineGate`.  `Gating` says loop by loop where the gate is in the window: on the second failing cycle (`Pushed`), less than a tap behind its beginning (`Begun`), with the beginning known to a delay tap, or to two phase taps where phase 0 lay between (`Bracketed`), a tap before its end (`AtEdge`), with both known (`Measured`); half way between them only one cycle opens the gate (`OneCycleOpens`).  `work_bgn` and `work_end` count from an unknown cycle, so the invariant relates them to the window modulo a cycle |
| `MaskInLongestRun` | | `MaskScanIs`, `StrobeScanIs`: what the two scans report is the longest run of what each of them sees, and where the second ends early no longer run follows |
| `RoomyCalibrated` | | assumes `FineGate`.  `OnItsWay`: an output delay that writes the patterns is still to come, then a strobe delay at which some bit reads, so that the search has a gate and, by `Gating`, does not lose it; the strobe is back at its reserve when the reads are centred, and the reads are right when they are centred again.  From there `ReadSucceeds`, `WriteSucceeds` and `MaskSucceeds` show that the sweeps find every edge and leave no negative margin: the strobe and every bit, clamped to their chains, still meet their eyes.  So no retry is needed after the gate is found and no stage fails |

Besides those above, three assumptions are named in the theorems that need
them.  `SameWidth`: no `Tao` exceeds what `CLK_cnt` can hold, which two
registers of 32 bits each guarantee.  `CountsFit`: the photon counter is at least as
wide as the clock counter (it is as wide), the count has a bit at least, and no
`Tao` is zero, which the settings server refuses (`NeverZeroHolds`).
`FineGate`: the ring has four cycles at least and a cycle eight phase taps (16
and 8 in `sequencer_defines.h`), so that a failing read can follow the window
and half a cycle is four phase taps.

Some properties turned out to be false or too narrow when a proof was tried:

* `ReadCentred` and `WriteCentred` do not hold of every board.  Where an eye
  lies further off than the chain is long, the sweep takes the end of the chain
  for the edge; TLC finds such boards once chains have four taps or more.  The
  hypotheses `ReadsReached` and `WriteReached` say which boards are left; in
  return the bound is one tap either way.
* That a sample is flagged exactly when its window held a trigger is not so
  from the start, as an earlier run with a trigger period longer than every
  window had it: RESET leaves `Tao` at 65535 and the trigger at 256 ticks, and
  what is written later finds `tmp` set.  `FlagsOnceSettled` says what is true
  whatever the periods are, from the first unflagged sample on: the mark that a
  trigger on the boundary leaves over is harmless when both triggers come from
  the generator, for then they are less than a window apart and the next window
  holds one as well.
* `GateNearMiddle` was stated for windows up to two cycles and with the gate
  within one phase tap of the middle.  Both are a little too much: a window
  longer than two cycles less two phase taps and a delay tap also opens the
  gate a cycle before its middle, and as the cycle is found again by reading
  from wherever the search ended (`sequencer.c:4575-4615`), that one may be
  taken; and with the board's constants the distance reaches 625 half
  picoseconds, where two phase taps are 624.  The statement now stops short of
  two cycles and allows half a delay tap more; the proof shows that this is
  enough.
* `CalibratesRoomyBoards` asked too little of a board with room.  While the gate
  is searched the bits are put off by steps over the whole chain
  (`Calibration`'s `SweepStep`), and the strobe's delays are tried upwards from
  the reserve only: there are eyes for which no bit reads at any of them.  Such
  a board fails with "dqs enable phase" although every bit could be read.
  `Roomy` now asks for one strobe delay at which one bit reads, and for eyes
  within a chain of the reserve; in return it asks less of written bits, which
  need only some delay that puts them right, and admits gates of nearly two
  cycles.

There is no induction over data: that a sweep stops at a least index comes
from the well-foundedness of `<` on the finite set of its indices (`LeastNat`),
which is why `DelayCentre` assumes that there are finitely many bits, numbered
from 0.

Constants carry further assumptions for the proofs' sake: `PowersAssumption`
(`SettingServer`: powers of the byte modulus are positive naturals, for the
provers know nothing of `^`), `IsFiniteSet(Clients)` (`Session`),
`FifoAssumption` (`NoWord` is no word), `CentreAssumption` (`DelayCentre`) and
`AcqAssumption` (the generators' periods fit their width).  TLC evaluates them
in the runs.

Only model-checked: the liveness properties `KeepsPulsing`, `StoredWordShows`,
`PackageFills`, `EveryoneIsServed`, `EveryoneGetsAnAnswer` and `Ends` (`ENABLED`
and fairness are out of the prover's reach).  Every other property that a
passing run checks is stated by a theorem above.

## 7. Plan

Done: counter, generators, hand-over and acquisition, FIFO, readout loop,
settings server, client split, session, SDRAM calibration, and the proofs above.

Worth doing next, in this order:

1. A measure of the calibration's progress that every step raises, and the same
   for the settings server's requests: the safety half of `Ends` and
   `EveryoneIsServed`, for every value of the constants.
2. `send_all` in pieces and the client's short package; the FIFO's fill-level
   registers.
3. The push-button debouncers and edge detectors.

## 8. Not modelled

`design.py` (generated form), `cnt_stream.v` (instantiated nowhere), the reset
probe and the interrupt capturer (vendor aids the program does not use), the
debouncers and edge detectors (off the data path), the Qsys interconnect and
processor configuration (generated tables and bus adapters), the opening of
`/dev/mem` and of the listening sockets, and drawing.

Of the calibration: the figures of merit, the initialisation commands to the
memory (`rw_mgr_mem_initialize`, which keeps no state the program reads again)
and the debugging loop.

Most lines of the repository are in `sequencer.c` and its companions, and most
of those are code for other memories, other PHYs, several ranks or shadow
registers that the configuration in `sequencer_defines.h` does not compile;
`tclrpt.c` is compiled out (`ENABLE_TCL_DEBUG` is 0), and
`soc_system/synthesis/submodules/sequencer` holds the same text a second time
as `*.pre.c`.  A model of what never runs would say nothing about the program,
so that the part of all lines that is modelled stays small.
