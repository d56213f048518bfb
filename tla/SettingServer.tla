--------------------------- MODULE SettingServer ---------------------------
(***************************************************************************)
(* The settings server Pls_controller (hps-c/Pulse_counter_controller/     *)
(* main.c) and its clients (fifo_control, client/client.py:24-41).  The    *)
(* server takes one connection at a time, reads a request with a single    *)
(* read, decodes three little-endian words, writes them to the counter,    *)
(* the simulator and the trigger, one after the other, and answers "done". *)
(* A word is FieldBytes bytes of ByteMod values each; TCP may deliver the  *)
(* bytes of a request in pieces.                                           *)
(***************************************************************************)
EXTENDS Naturals, Sequences

CONSTANTS
  Clients,
  FieldBytes,   \* 4 in the source
  ByteMod,      \* 256 in the source
  Intgs,        \* integration times a client may ask for
  Tris, Sims,   \* periods of the trigger and of the simulator
  DefaultIntg,  \* 5000
  DefaultTri,   \* 10000000
  DefaultSim,   \* 10
  Backlog       \* connections the kernel holds for accept, listen(sockfd, 5)

Width == ByteMod ^ FieldBytes
Total == 3 * FieldBytes

ASSUME SettingAssumption ==
  /\ FieldBytes \in Nat \ {0} /\ ByteMod \in Nat \ {0, 1} /\ Backlog \in Nat \ {0}
  /\ Intgs \cup Tris \cup Sims \subseteq 0 .. Width - 1
  /\ DefaultIntg \in 1 .. Width - 1
  /\ DefaultTri \in 0 .. Width - 1 /\ DefaultSim \in 0 .. Width - 1

\* Arithmetic, but the provers know nothing of ^.
ASSUME PowersAssumption == \A n \in 0 .. 3 * FieldBytes : ByteMod ^ n \in Nat \ {0}

VARIABLES
  pc,        \* where the server is
  connfd,    \* the client it serves
  request,   \* its variables Intg, Tri_intg and sim_intg
  regs,      \* the three registers in the FPGA
  got,       \* history: bytes the read returned
  backlog,   \* connections not accepted yet
  conn,      \* each client's connection
  asked,     \* what each client asks for
  arrived    \* bytes of it the server's socket has received

serverVars == <<pc, connfd, request, regs, got>>
clientVars == <<conn, asked, arrived>>
ssvVars == <<serverVars, backlog, clientVars>>

Settings == [intg : 0 .. Width - 1, tri : 0 .. Width - 1, sim : 0 .. Width - 1]
Asked == [intg : Intgs, tri : Tris, sim : Sims]
Defaults == [intg |-> DefaultIntg, tri |-> DefaultTri, sim |-> DefaultSim]

\* A connection: none, made, all bytes handed to the kernel, "done" sent, and
\* what the client's recv came back with.  "left": the client died.
Connections == {"none", "made", "sent", "answered", "done", "failed", "left"}

SettingTypeOK ==
  /\ pc \in {"counter", "sim", "trigger", "answer", "accept", "read", "decode", "close"}
  /\ connfd \in Clients \cup {"none"}
  /\ request \in Settings
  /\ regs \in Settings
  /\ got \in 0 .. Total
  /\ conn \in [Clients -> Connections]
  /\ asked \in [Clients -> Settings]
  /\ arrived \in [Clients -> 0 .. Total]

\* main has written the default settings (main.c:156) and goes to accept.
SettingInit ==
  /\ pc = "accept" /\ connfd = "none"
  /\ request = Defaults
  /\ regs = Defaults
  /\ got = Total
  /\ backlog = <<>>
  /\ conn = [c \in Clients |-> "none"]
  /\ asked = [c \in Clients |-> Defaults]
  /\ arrived = [c \in Clients |-> 0]

-----------------------------------------------------------------------------
(* The clients. *)

Connect(c) ==
  /\ conn[c] = "none" /\ Len(backlog) < Backlog
  /\ \E a \in Asked : asked' = [asked EXCEPT ![c] = a]
  /\ conn' = [conn EXCEPT ![c] = "made"]
  /\ backlog' = Append(backlog, c)
  /\ UNCHANGED <<serverVars, arrived>>

SendAll(c) ==
  /\ conn[c] = "made"
  /\ conn' = [conn EXCEPT ![c] = "sent"]
  /\ UNCHANGED <<serverVars, backlog, asked, arrived>>

\* The network delivers some more of the bytes.
Deliver(c) ==
  /\ conn[c] = "sent" /\ arrived[c] < Total
  /\ \E n \in arrived[c] + 1 .. Total : arrived' = [arrived EXCEPT ![c] = n]
  /\ UNCHANGED <<serverVars, backlog, conn, asked>>

Receive(c) ==
  /\ conn[c] = "answered"
  /\ conn' = [conn EXCEPT ![c] = "done"]
  /\ UNCHANGED <<serverVars, backlog, asked, arrived>>

\* A client dies before it sends.
Leave(c) ==
  /\ conn[c] = "made"
  /\ conn' = [conn EXCEPT ![c] = "left"]
  /\ UNCHANGED <<serverVars, backlog, asked, arrived>>

\* s.close(), when the server is done with the connection; then again.
Finish(c) ==
  /\ conn[c] \in {"done", "failed"} /\ connfd # c
  /\ conn' = [conn EXCEPT ![c] = "none"]
  /\ asked' = [asked EXCEPT ![c] = Defaults]
  /\ arrived' = [arrived EXCEPT ![c] = 0]
  /\ UNCHANGED <<serverVars, backlog>>

-----------------------------------------------------------------------------
(* The server. *)

\* The three writes of setting(), main.c:68-73.
WriteCounter ==
  /\ pc = "counter" /\ pc' = "sim"
  /\ regs' = [regs EXCEPT !.intg = request.intg]
  /\ UNCHANGED <<connfd, request, got, backlog, clientVars>>

WriteSim ==
  /\ pc = "sim" /\ pc' = "trigger"
  /\ regs' = [regs EXCEPT !.sim = request.sim]
  /\ UNCHANGED <<connfd, request, got, backlog, clientVars>>

\* Mutant: the trigger gets the simulator's period.
WriteTriggerSim ==
  /\ pc = "trigger" /\ pc' = "answer"
  /\ regs' = [regs EXCEPT !.tri = request.sim]
  /\ UNCHANGED <<connfd, request, got, backlog, clientVars>>

WriteTrigger ==
  /\ pc = "trigger" /\ pc' = "answer"
  /\ regs' = [regs EXCEPT !.tri = request.tri]
  /\ UNCHANGED <<connfd, request, got, backlog, clientVars>>

Accept ==
  /\ pc = "accept" /\ backlog # <<>>
  /\ pc' = "read"
  /\ connfd' = Head(backlog) /\ backlog' = Tail(backlog)
  /\ UNCHANGED <<request, regs, got, clientVars>>

\* What n bytes of a buffer that was zeroed first decode to.
Low(v, n) == v % ByteMod ^ (IF n < FieldBytes THEN n ELSE FieldBytes)
Past(n, m) == IF n > m THEN n - m ELSE 0
Decode(a, n) ==
  [intg |-> Low(a.intg, n),
   tri  |-> Low(a.tri, Past(n, FieldBytes)),
   sim  |-> Low(a.sim, Past(n, 2 * FieldBytes))]

\* Mutant: a server that goes on although nothing has arrived.
ReadAtOnce ==
  /\ pc = "read" /\ pc' = "decode"
  /\ got' = arrived[connfd]
  /\ request' = Decode(asked[connfd], got')
  /\ UNCHANGED <<connfd, regs, backlog, clientVars>>

\* Mutant: the read may go one byte beyond the buffer.
ReadPastBuffer ==
  /\ pc = "read" /\ pc' = "decode"
  /\ arrived[connfd] > 0
  /\ got' = arrived[connfd] + 1
  /\ request' = Decode(asked[connfd], got')
  /\ UNCHANGED <<connfd, regs, backlog, clientVars>>

\* read blocks until there are bytes, or the peer is gone; one call only.
Read ==
  /\ pc = "read" /\ pc' = "decode"
  /\ arrived[connfd] > 0 \/ conn[connfd] = "left"
  /\ got' = arrived[connfd]
  /\ request' = Decode(asked[connfd], got')
  /\ UNCHANGED <<connfd, regs, backlog, clientVars>>

\* Mutant: no test for zero.
GuardNothing ==
  /\ pc = "decode" /\ pc' = "counter"
  /\ UNCHANGED <<connfd, request, regs, got, backlog, clientVars>>

Guard ==
  /\ pc = "decode"
  /\ pc' = IF request.intg # 0 THEN "counter" ELSE "close"
  /\ UNCHANGED <<connfd, request, regs, got, backlog, clientVars>>

Answer ==
  /\ pc = "answer" /\ pc' = "close"
  /\ conn' = [conn EXCEPT ![connfd] = "answered"]
  /\ UNCHANGED <<connfd, request, regs, got, backlog, asked, arrived>>

\* Mutant: main.c:172 forgotten, a refused client is never told.
CloseAnswered ==
  /\ pc = "close" /\ pc' = "accept" /\ connfd' = "none"
  /\ conn' = [conn EXCEPT ![connfd] =
       IF @ = "left" THEN "none" ELSE @]
  /\ UNCHANGED <<request, regs, got, backlog, asked, arrived>>

\* Bytes the read left behind turn the close into a reset, which may
\* overtake the answer.
Close ==
  /\ pc = "close" /\ pc' = "accept" /\ connfd' = "none"
  /\ \E lost \in {FALSE, got < Total} :
       conn' = [conn EXCEPT ![connfd] =
         IF @ = "left" THEN "none"
         ELSE IF @ = "sent" \/ (@ = "answered" /\ lost) THEN "failed" ELSE @]
  /\ UNCHANGED <<request, regs, got, backlog, asked, arrived>>

ServerStep ==
  \/ WriteCounter \/ WriteSim \/ WriteTrigger
  \/ Accept \/ Read \/ Guard \/ Answer \/ Close

ClientStep(c) == Connect(c) \/ SendAll(c) \/ Deliver(c) \/ Receive(c) \/ Leave(c) \/ Finish(c)

SettingNext == ServerStep \/ \E c \in Clients : ClientStep(c)

\* The server's process runs, the network delivers, and a client that has
\* connected goes on to send (client.py:36) or dies.
SettingFairness ==
  /\ WF_ssvVars(ServerStep)
  /\ \A c \in Clients : WF_ssvVars(SendAll(c) \/ Leave(c)) /\ WF_ssvVars(Deliver(c))

SettingSpec == SettingInit /\ [][SettingNext]_ssvVars /\ SettingFairness

-----------------------------------------------------------------------------
\* A client that reads "done" was answered with the registers set to all it
\* had asked for, if the one read got all of its bytes (main.c:161-168).
DoneMeansApplied ==
  [][\A c \in Clients : conn[c] # "answered" /\ conn'[c] = "answered" /\ got = Total
       => regs = asked[c]]_ssvVars

\* The counter's integration time never becomes zero, not even through a
\* request of which only the first bytes came (main.c:166, Pulse_cnt.v:46).
NeverZero == regs.intg # 0

\* Whoever connects is served in the end: answered or refused.
EveryoneIsServed ==
  \A c \in Clients : conn[c] = "made" ~> conn[c] \in {"answered", "done", "failed", "none"}
=============================================================================
