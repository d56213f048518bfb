---------------------------- MODULE SampleStream ----------------------------
(***************************************************************************)
(* What the photon counter promises whoever consumes its samples: every    *)
(* photon is in exactly one sample, and a trigger is never forgotten: the  *)
(* next sample after it carries the flag.                                  *)
(***************************************************************************)
EXTENDS Naturals

CONSTANTS PendingMod, CountMod, Stamps

VARIABLES
  pending,   \* photons no sample has reported yet
  owed,      \* a trigger was taken and no sample has announced it
  sample,    \* the word on offer
  ready      \* the consumer may take it

ssVars == <<pending, owed, sample, ready>>

Blank == [count |-> 0, stamp |-> 0, flag |-> FALSE]

SSInit == pending = 0 /\ owed = FALSE /\ sample = Blank /\ ready = FALSE

Arrive ==
  /\ pending' = IF pending = PendingMod - 1 THEN 0 ELSE pending + 1
  /\ UNCHANGED <<owed, sample, ready>>

\* Nothing is reported: the word is withdrawn, or stays on offer unchanged.
Hold == UNCHANGED ssVars

Withdraw ==
  /\ ready' = FALSE
  /\ UNCHANGED <<pending, owed, sample>>

TakeTrigger ==
  /\ owed' = TRUE
  /\ ready' = FALSE
  /\ sample' = [count |-> sample.count, stamp |-> sample.stamp, flag |-> TRUE]
  /\ UNCHANGED pending

\* A sample reports all that is pending.  An owed trigger forces its flag;
\* a trigger taken in this very step may flag it as well.
Deliver ==
  /\ \E t \in Stamps, mark \in BOOLEAN :
       /\ owed => mark
       /\ sample' = [count |-> pending % CountMod, stamp |-> t, flag |-> mark]
       /\ owed' \in {FALSE, owed}
  /\ pending' = 0
  /\ ready' = TRUE

\* RESET zeroes the count remembered from the last sample but not the photon
\* counter: what is pending after it is the whole of that, any number.
Restart(p) ==
  /\ pending' = p
  /\ owed' = FALSE /\ sample' = Blank /\ ready' = FALSE

SSNext ==
  \/ Arrive
  \/ Hold
  \/ Withdraw
  \/ TakeTrigger
  \/ Deliver
  \/ \E p \in 0 .. PendingMod - 1 : Restart(p)

SSSpec == SSInit /\ [][SSNext]_ssVars
=============================================================================
