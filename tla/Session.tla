------------------------------- MODULE Session -------------------------------
(***************************************************************************)
(* The measurement as a whole: clients that write settings and then ask    *)
(* for a package (client/client.py:60-98), the readout server (hps-c/      *)
(* Pulse_counter_FIFO_read_out/main.c:108-166) and the FIFO between it and *)
(* the counter.  SettingServer, FifoReadout and PulseFifo have the details *)
(* of what is one step here.  A sample is known by two marks: that samples *)
(* were lost just before it, and that its window began under settings      *)
(* that have been replaced since.                                          *)
(***************************************************************************)
EXTENDS Naturals, Sequences, FiniteSets

CONSTANTS
  Clients,
  MAX,     \* words in a package, 8192
  Depth,   \* words in the FIFO, 8192
  Pace     \* polls in a window with which the server keeps up

ASSUME SessionAssumption ==
  /\ MAX \in Nat \ {0} /\ Depth \in Nat \ {0} /\ Pace \in Nat /\ Pace > 1
  /\ IsFiniteSet(Clients)

VARIABLES
  queue,     \* the FIFO
  lost,      \* a sample was refused and none accepted since
  began,     \* the window in progress began under replaced settings
  lag,       \* the writer has not learnt yet of a read from a full FIFO
  polls,     \* polls since the last sample, up to Pace
  pc,        \* where the readout server is, "dead" without its process
  connfd,    \* the client it serves
  package,   \* its array data, until the connection is closed
  backlog,   \* connections not accepted yet
  client,    \* where each client is
  nth,       \* history: packages begun since settings were written, up to 2
  slow       \* history: packages, this one included, since the server fell behind

fifo == <<queue, lost, began, lag, polls>>
server == <<pc, connfd, package, backlog>>
sessionVars == <<fifo, server, client, nth, slow>>

Samples == [gap : BOOLEAN, old : BOOLEAN]

\* "left" is a client that went away while the server has its connection.
\* One whose script has stopped is idle: it may be started again or not.
ClientStates == {"idle", "set", "waiting", "got", "left"}

SessionTypeOK ==
  /\ queue \in Seq(Samples) /\ Len(queue) <= Depth
  /\ lost \in BOOLEAN /\ began \in BOOLEAN /\ lag \in BOOLEAN /\ polls \in 0 .. Pace
  /\ pc \in {"accept", "fill", "send", "close", "dead"}
  /\ connfd \in Clients \cup {"none"}
  /\ package \in Seq(Samples) /\ Len(package) <= MAX
  /\ backlog \in Seq(Clients) /\ Len(backlog) <= Cardinality(Clients)
  /\ client \in [Clients -> ClientStates]
  /\ nth \in 0 .. 2 /\ slow \in 0 .. 2

SessionInit ==
  /\ queue = <<>> /\ lost = FALSE /\ began = FALSE /\ lag = FALSE /\ polls = Pace
  /\ pc = "accept" /\ connfd = "none" /\ package = <<>> /\ backlog = <<>>
  /\ client = [c \in Clients |-> "idle"]
  /\ nth = 0 /\ slow = 0

-----------------------------------------------------------------------------
(* The FPGA. *)

\* The writer learns late of a read (PulseFifo, Slack).
MayRefuse == Len(queue) = Depth \/ lag

\* Mutant: the FIFO holds one word more.
MayAcceptOneMore == Len(queue) <= Depth

MayAccept == Len(queue) < Depth

\* The server is a process among others, and a window may be a few ticks
\* long: any number of polls, none included, fall into it.  It falls behind
\* when a window ends with words left and fewer than Pace polls in it, or so
\* soon after a poll that the writer has not learnt of it.
FallsBehind ==
  /\ polls < Pace
  /\ (pc = "fill" /\ queue # <<>>) \/ (lost' /\ Len(queue) < Depth)

\* A window ends.
Report ==
  /\ began' = FALSE
  /\ polls' = IF pc = "fill" THEN 0 ELSE polls
  /\ \/ MayAccept
        /\ queue' = Append(queue, [gap |-> lost, old |-> began])
        /\ lost' = FALSE
     \/ MayRefuse
        /\ lost' = TRUE
        /\ UNCHANGED queue
  /\ slow' = IF FallsBehind THEN 2 ELSE slow
  /\ UNCHANGED <<lag, server, client, nth>>

-----------------------------------------------------------------------------
(* The clients. *)

Older(s) == [k \in DOMAIN s |-> [s[k] EXCEPT !.old = TRUE]]

\* fifo_control: the settings are written, and "done" comes back.
Set(c) ==
  /\ client[c] = "idle"
  /\ client' = [client EXCEPT ![c] = "set"]
  /\ queue' = Older(queue) /\ package' = Older(package) /\ began' = TRUE
  /\ nth' = 0
  /\ UNCHANGED <<lost, lag, polls, pc, connfd, backlog, slow>>

Connect(c) ==
  /\ client[c] = "set"
  /\ IF pc = "dead"
     THEN /\ client' = [client EXCEPT ![c] = "idle"]
          /\ UNCHANGED backlog
     ELSE /\ client' = [client EXCEPT ![c] = "waiting"]
          /\ backlog' = Append(backlog, c)
  /\ UNCHANGED <<fifo, pc, connfd, package, nth, slow>>

\* The package is drawn; the loop goes round.
NextRound(c) ==
  /\ client[c] = "got"
  /\ client' = [client EXCEPT ![c] = "idle"]
  /\ UNCHANGED <<fifo, server, nth, slow>>

Leave(c) ==
  /\ client[c] = "waiting"
  /\ client' = [client EXCEPT ![c] = "left"]
  /\ UNCHANGED <<fifo, server, nth, slow>>

-----------------------------------------------------------------------------
(* The readout server. *)

Accept ==
  /\ pc = "accept" /\ backlog # <<>>
  /\ pc' = "fill" /\ connfd' = Head(backlog) /\ backlog' = Tail(backlog)
  /\ nth' = IF nth = 2 THEN 2 ELSE nth + 1
  /\ slow' = IF slow = 0 THEN 0 ELSE slow - 1
  /\ UNCHANGED <<fifo, package, client>>

\* Mutants: a package one word longer or shorter than the FIFO is deep.
LongPackage(n) == n = MAX + 1
ShortPackage(n) == n + 1 = MAX

Full(n) == n = MAX

\* hps_data_get, one word; a poll that finds nothing changes nothing.
Fill ==
  /\ pc = "fill" /\ queue # <<>>
  /\ package' = Append(package, Head(queue)) /\ queue' = Tail(queue)
  /\ lag' = (Len(queue) = Depth)
  /\ polls' = IF polls = Pace THEN Pace ELSE polls + 1
  /\ pc' = IF Full(Len(package')) THEN "send" ELSE "fill"
  /\ UNCHANGED <<lost, began, connfd, backlog, client, nth, slow>>

\* send_all; for a client that has left the kernel may still take it all.
Send ==
  /\ pc = "send" /\ pc' = "close"
  /\ client' = [client EXCEPT ![connfd] = IF @ = "waiting" THEN "got" ELSE "idle"]
  /\ UNCHANGED <<fifo, connfd, package, backlog, nth, slow>>

\* A send on a connection the client has reset raises SIGPIPE, which ends
\* the process; its other connections are reset.
Sigpipe ==
  /\ pc = "send" /\ client[connfd] = "left"
  /\ pc' = "dead" /\ connfd' = "none" /\ backlog' = <<>>
  /\ client' = [c \in Clients |->
       IF client[c] \in {"waiting", "left"} THEN "idle" ELSE client[c]]
  /\ package' = <<>> /\ polls' = Pace /\ lag' = FALSE
  /\ UNCHANGED <<queue, lost, began, nth, slow>>

\* Mutant: main.c:167-178, commented out: the same client is served on.
CloseNever ==
  /\ pc = "close" /\ pc' = "fill" /\ package' = <<>>
  /\ UNCHANGED <<fifo, connfd, backlog, client, nth, slow>>

Close ==
  /\ pc = "close" /\ pc' = "accept" /\ connfd' = "none"
  /\ package' = <<>> /\ polls' = Pace /\ lag' = FALSE
  /\ UNCHANGED <<queue, lost, began, backlog, client, nth, slow>>

\* Somebody starts the server again.
Restart ==
  /\ pc = "dead" /\ pc' = "accept"
  /\ UNCHANGED <<fifo, connfd, package, backlog, client, nth, slow>>

ServerStep == Accept \/ Fill \/ Send \/ Sigpipe \/ Close

SessionNext ==
  \/ Report
  \/ ServerStep
  \/ Restart
  \/ \E c \in Clients : Set(c) \/ Connect(c) \/ NextRound(c) \/ Leave(c)

\* The counter reports for ever and the server's process runs; clients come
\* and go as they like, and nobody has to start anything again.
SessionSpec ==
  SessionInit /\ [][SessionNext]_sessionVars
  /\ WF_sessionVars(Report) /\ WF_sessionVars(ServerStep)

-----------------------------------------------------------------------------
\* No sample is missing inside a package if the server kept up while it and
\* the one before were filled, however long the FIFO has been full between
\* them or earlier and whoever has left: losses then fall between packages,
\* because a package is as long as the FIFO is deep (main.c:79, ghrd.v:191).
\* Nothing makes the server keep up; where it did not, a gap may be anywhere
\* in that package and in the next.
PackageContiguous ==
  slow = 0 => \A k \in 2 .. Len(package) : ~package[k].gap

\* The second package begun after settings were written has none of the
\* samples of the old ones, but for a first window they were replaced in
\* (main.c:79, Pulse_cnt.v:38-45).
SecondPackageIsFresh ==
  nth = 2 => \A k \in 2 .. Len(package) : ~package[k].old

\* Whoever waits for a package gets it, or an end of the connection.
EveryoneGetsAnAnswer ==
  \A c \in Clients : client[c] = "waiting" ~> client[c] # "waiting"

\* Where one client alone writes settings: the package it gets after them
\* was measured under them (README.md:31,40, client.py:60-72).
PackageHasMySettings ==
  pc = "send" => \A k \in 1 .. Len(package) : ~package[k].old
=============================================================================
