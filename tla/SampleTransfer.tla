--------------------------- MODULE SampleTransfer ---------------------------
(***************************************************************************)
(* The hand-over of samples from the photon counter to the FIFO in the top *)
(* level (fpga-rtl/ghrd.v:151-175).  One action, the whole clocked block:  *)
(* its three ifs follow one another and the last assignment wins.          *)
(***************************************************************************)
EXTENDS Naturals

CONSTANT Words    \* the counter's 64-bit words

VARIABLES counter_state, data_buffer, data_buffer_valid

stVars == <<counter_state, data_buffer, data_buffer_valid>>

STTypeOK ==
  /\ counter_state \in {0, 1}
  /\ data_buffer \in Words
  /\ data_buffer_valid \in BOOLEAN

STInit(word) ==
  /\ counter_state = 0
  /\ data_buffer = word
  /\ data_buffer_valid = FALSE

Take(word) ==
  /\ counter_state' = 1
  /\ data_buffer' = word
  /\ data_buffer_valid' = TRUE

Release ==
  /\ counter_state' = 0
  /\ data_buffer_valid' = FALSE
  /\ UNCHANGED data_buffer

\* Mutant: a word that is still ready is taken again, without the delay.
TransferAtOnce(hreset, counter_ready, word) ==
  \/ counter_ready /\ Take(word)
  \/ ~counter_ready /\ (counter_state = 1 \/ hreset) /\ Release
  \/ ~counter_ready /\ counter_state = 0 /\ ~hreset /\ UNCHANGED stVars

\* hreset: hps_fpga_reset_n is low.  Its assignments lose against Take.
Transfer(hreset, counter_ready, word) ==
  \/ counter_ready /\ counter_state = 0 /\ Take(word)
  \/ counter_state = 1 /\ Release
  \/ ~counter_ready /\ counter_state = 0 /\ hreset /\ Release
  \/ ~counter_ready /\ counter_state = 0 /\ ~hreset /\ UNCHANGED stVars

\* The FIFO's wrreq is data_buffer_valid, its data is data_buffer.
Pushing == data_buffer_valid
=============================================================================
