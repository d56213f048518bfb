----------------------------- MODULE FifoReadout -----------------------------
(***************************************************************************)
(* The FIFO of PulseFifo, the status register of its read side             *)
(* (soc_system_fifo_pls.v) and the loop of the readout server that polls   *)
(* the one and reads the other (hps_data_get, Pulse_counter_FIFO_read_out/ *)
(* main.c:75-90).  A step is a clock tick; the processor takes any number  *)
(* of ticks between two bus accesses.  The build does not optimise, so     *)
(* that each pass of the loop does access the bus.  Without the server     *)
(* (pc = "absent") the bus may ask for a word at any tick.                 *)
(***************************************************************************)
EXTENDS PulseFifo, Sequences

CONSTANT MAX   \* words in a package, 8192

ASSUME ReadoutAssumption == MAX \in Nat \ {0}

VARIABLES
  status_empty_q,   \* the "empty" bit of the status register
  readdata,         \* that bit as the last status read returned it
  pc,               \* where hps_data_get is
  i,                \* its loop counter
  unread            \* history: words the FIFO took and data[] has not got

cpuVars == <<readdata, pc, i>>
readoutVars == <<fifoVars, status_empty_q, cpuVars, unread>>

ReadoutInit ==
  /\ FifoInit
  /\ status_empty_q = FALSE   \* its reset value, for a tick
  /\ readdata = TRUE
  /\ pc \in {"done", "absent"} /\ i = MAX
  /\ unread = <<>>

\* The register copies the comparator one tick late.
StatusRegister == status_empty_q' = rdempty

ReadStatus ==
  /\ pc = "poll"
  /\ readdata' = status_empty_q
  /\ pc' = "test"
  /\ rdreq' = FALSE
  /\ UNCHANGED i

\* Mutant: the wrong bit of the status is tested.
NotEmptyUntested ==
  /\ pc = "test"
  /\ pc' = "read"
  /\ rdreq' = TRUE
  /\ UNCHANGED <<readdata, i>>

NotEmpty ==
  /\ pc = "test" /\ ~readdata
  /\ pc' = "read"
  /\ rdreq' = TRUE
  /\ UNCHANGED <<readdata, i>>

\* Mutant: the status is not read again, as if the read had been hoisted.
EmptyStale ==
  /\ pc = "test" /\ readdata
  /\ rdreq' = FALSE
  /\ UNCHANGED cpuVars

Empty ==
  /\ pc = "test" /\ readdata
  /\ pc' = "poll"
  /\ rdreq' = FALSE
  /\ UNCHANGED <<readdata, i>>

\* The data access: rdreq is high for this tick, q follows.
ReadData ==
  /\ pc = "read"
  /\ pc' = "store"
  /\ rdreq' = FALSE
  /\ UNCHANGED <<readdata, i>>

Store ==
  /\ pc = "store"
  /\ i' = i + 1
  /\ pc' = IF i + 1 = MAX THEN "done" ELSE "poll"
  /\ rdreq' = FALSE
  /\ UNCHANGED readdata

\* The next client: the loop starts again.
NextPackage ==
  /\ pc = "done"
  /\ i' = 0
  /\ pc' = "poll"
  /\ rdreq' = FALSE
  /\ UNCHANGED readdata

\* Between two accesses.  The data access itself takes one tick.
Elsewhere ==
  /\ pc \notin {"read", "absent"}
  /\ rdreq' = FALSE
  /\ UNCHANGED cpuVars

\* In the place of the server, a reader that pays no heed to the status.
Absent ==
  /\ pc = "absent"
  /\ rdreq' \in BOOLEAN
  /\ UNCHANGED cpuVars

Hardware ==
  /\ FifoTick
  /\ StatusRegister
  /\ data' \in Words \cup {NoWord}

Watch(rest) == unread' = IF valid_wrreq THEN Append(rest, data) ELSE rest

Working ==
  /\ Hardware
  /\ \/ (ReadStatus \/ NotEmpty \/ Empty \/ ReadData) /\ Watch(unread)
     \/ Store /\ Watch(IF unread = <<>> THEN unread ELSE Tail(unread))

ReadoutNext ==
  \/ Working
  \/ Hardware /\ (NextPackage \/ Elsewhere) /\ Watch(unread)
  \/ Hardware /\ Absent /\ UNCHANGED unread

\* The clock runs, and the processor does not stop in the middle of a package.
ReadoutSpec ==
  /\ ReadoutInit /\ [][ReadoutNext]_readoutVars
  /\ WF_readoutVars(ReadoutNext) /\ WF_readoutVars(Working)

-----------------------------------------------------------------------------
\* Although the status is two registers old when it is tested, a data access
\* never meets an empty FIFO (main.c:80-84): the dcfifo would ignore it and
\* the loop would store the previous word once more.
NoUnderflow == pc # "absent" /\ rdreq => ~rdempty

\* data[] receives the words the FIFO took, each once and in order, however
\* the bus accesses fall on the clock.
StoresNextWord ==
  [][Store => unread # <<>> /\ q = Head(unread)]_readoutVars

\* While words keep coming the package is filled (main.c:79-88), and the
\* processor comes back from the polling loop.
PackageFills == []<>wrreq => (pc = "poll" ~> pc = "done")
=============================================================================
