---------------------------- MODULE SampleQueue ----------------------------
(***************************************************************************)
(* What the FIFO promises: a bounded queue of words.  A word leaves once,  *)
(* in order; a word that is offered while the queue is at least Slack      *)
(* words short of full is kept; one offered to a fuller queue may be lost, *)
(* and nothing ever pushes the queue over its bound.                       *)
(***************************************************************************)
EXTENDS Sequences, Naturals

CONSTANTS Words, NoWord, Depth, Slack

VARIABLES queue, out, offer, ask

sqVars == <<queue, out, offer, ask>>

SQInit == queue = <<>> /\ out \in Words /\ offer = NoWord /\ ask = FALSE

Stored(rest) ==
  /\ offer # NoWord /\ Len(queue) < Depth
  /\ queue' = Append(rest, offer)

NotStored(rest) ==
  /\ offer # NoWord => Len(queue) + Slack > Depth
  /\ queue' = rest

Put(rest) == Stored(rest) \/ NotStored(rest)

Get == ask /\ queue # <<>> /\ out' = Head(queue) /\ Put(Tail(queue))
NoGet == out' = out /\ Put(queue)

SQNext ==
  /\ Get \/ NoGet
  /\ offer' \in Words \cup {NoWord}
  /\ ask' \in BOOLEAN

SQSpec == SQInit /\ [][SQNext]_sqVars
=============================================================================
