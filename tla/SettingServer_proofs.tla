------------------------- MODULE SettingServer_proofs -------------------------
(* The settings server, for any clients, requests and word size: its       *)
(* types, that it never stores an integration time of zero, and that       *)
(* "done" means that all three registers hold what was asked for.          *)
EXTENDS SettingServer, TLAPS

\* What NeverZero needs to be inductive: a request that is being written
\* has passed the test, and regs is a record.
Tested == pc = "counter" => request.intg # 0
ThreeRegs == regs = [intg |-> regs.intg, tri |-> regs.tri, sim |-> regs.sim]
Guarded == NeverZero /\ Tested /\ ThreeRegs

\* A zero in the counter would make CLK_cnt % Tao undefined; neither a
\* client that asks for it nor a request cut short gets it there
\* (main.c:161-167).
THEOREM NeverZeroHolds == SettingSpec => []NeverZero
<1>1. SettingInit => Guarded
  <2> SUFFICES ASSUME SettingInit PROVE Guarded
    OBVIOUS
  <2>1. regs = Defaults /\ pc = "accept" /\ DefaultIntg # 0
    BY SettingAssumption DEF SettingInit
  <2> QED BY <2>1 DEF Guarded, NeverZero, Tested, ThreeRegs, Defaults
<1>2. Guarded /\ [SettingNext]_ssvVars => Guarded'
  <2> SUFFICES ASSUME Guarded, [SettingNext]_ssvVars PROVE Guarded'
    OBVIOUS
  <2> USE DEF Guarded, NeverZero, Tested, ThreeRegs
  <2>1. CASE UNCHANGED ssvVars
    BY <2>1 DEF ssvVars, serverVars
  <2>2. ASSUME NEW c \in Clients, ClientStep(c) PROVE Guarded'
    <3>1. UNCHANGED serverVars
      BY <2>2, Zenon DEF ClientStep, Connect, SendAll, Deliver, Receive, Leave, Finish
    <3> QED BY <3>1 DEF serverVars
  <2>3. CASE WriteCounter
    BY <2>3 DEF WriteCounter
  <2>4. CASE WriteSim
    BY <2>4 DEF WriteSim
  <2>5. CASE WriteTrigger
    BY <2>5 DEF WriteTrigger
  <2>6. CASE Guard
    BY <2>6 DEF Guard
  <2>7. CASE Accept \/ Read \/ Answer \/ Close
    <3>1. pc' # "counter" /\ UNCHANGED regs
      BY <2>7, Zenon DEF Accept, Read, Answer, Close
    <3> QED BY <3>1
  <2> QED
    BY <2>1, <2>2, <2>3, <2>4, <2>5, <2>6, <2>7, Zenon DEF SettingNext, ServerStep
<1>3. Guarded => NeverZero
  BY DEF Guarded
<1> QED BY <1>1, <1>2, <1>3, PTL DEF SettingSpec

-----------------------------------------------------------------------------
LEMMA WidthIsNat == Width \in Nat \ {0} /\ Total \in Nat
  BY SettingAssumption, PowersAssumption DEF Width, Total

\* A remainder is no larger than the number.
LEMMA ModBelow == ASSUME NEW v \in Nat, NEW m \in Nat \ {0}, NEW w \in Nat, v < w
                  PROVE  v % m \in 0 .. w - 1
  OBVIOUS

LEMMA ModSame == ASSUME NEW v \in Nat, NEW m \in Nat \ {0}, v < m PROVE v % m = v
  OBVIOUS

\* A word cut short is a word.
LEMMA LowTyped == ASSUME NEW v \in 0 .. Width - 1, NEW n \in Nat
                  PROVE  Low(v, n) \in 0 .. Width - 1
<1> DEFINE k == IF n < FieldBytes THEN n ELSE FieldBytes
<1>1. k \in 0 .. 3 * FieldBytes
  BY SettingAssumption
<1>2. ByteMod ^ k \in Nat \ {0}
  BY <1>1, PowersAssumption
<1>3. v \in Nat /\ v < Width /\ Width \in Nat
  BY WidthIsNat
<1>4. Low(v, n) = v % ByteMod ^ k
  BY DEF Low
<1> HIDE DEF k
<1> QED BY <1>2, <1>3, <1>4, ModBelow

\* A word of which all bytes came is unchanged.
LEMMA LowWhole == ASSUME NEW v \in 0 .. Width - 1, NEW n \in Nat, n >= FieldBytes
                  PROVE  Low(v, n) = v
<1>1. Low(v, n) = v % Width
  BY SettingAssumption DEF Low, Width
<1> QED BY <1>1, WidthIsNat, ModSame

LEMMA DecodeTyped == ASSUME NEW a \in Settings, NEW n \in 0 .. Total
                     PROVE  Decode(a, n) \in Settings
<1>1. n \in Nat /\ Past(n, FieldBytes) \in Nat /\ Past(n, 2 * FieldBytes) \in Nat
  <2>1. n \in Nat
    BY WidthIsNat
  <2> QED BY <2>1, SettingAssumption DEF Past
<1>2. a.intg \in 0 .. Width - 1 /\ a.tri \in 0 .. Width - 1 /\ a.sim \in 0 .. Width - 1
  BY DEF Settings
<1> QED BY <1>1, <1>2, LowTyped DEF Decode, Settings

LEMMA DecodeWhole == ASSUME NEW a \in Settings PROVE Decode(a, Total) = a
<1>1. /\ Total \in Nat /\ Total >= FieldBytes
      /\ Past(Total, FieldBytes) \in Nat /\ Past(Total, FieldBytes) >= FieldBytes
      /\ Past(Total, 2 * FieldBytes) \in Nat /\ Past(Total, 2 * FieldBytes) >= FieldBytes
  BY SettingAssumption DEF Total, Past
<1>2. a.intg \in 0 .. Width - 1 /\ a.tri \in 0 .. Width - 1 /\ a.sim \in 0 .. Width - 1
  BY DEF Settings
<1>3. Decode(a, Total) = [intg |-> a.intg, tri |-> a.tri, sim |-> a.sim]
  BY <1>1, <1>2, LowWhole DEF Decode
<1> QED BY <1>3 DEF Settings

Serving == pc \in {"read", "decode", "counter", "sim", "trigger", "answer"}

\* The types, and what typing needs: whoever is served is a client.
Typed ==
  /\ SettingTypeOK
  /\ backlog \in Seq(Clients)
  /\ pc # "accept" => connfd \in Clients

LEMMA InitTyped == SettingInit => Typed
<1> SUFFICES ASSUME SettingInit PROVE Typed
  OBVIOUS
<1>1. Defaults \in Settings
  BY SettingAssumption, WidthIsNat DEF Defaults, Settings
<1>2. backlog \in Seq(Clients)
  BY DEF SettingInit
<1>3. 0 \in 0 .. Total /\ Total \in 0 .. Total
  BY WidthIsNat
<1> QED BY <1>1, <1>2, <1>3 DEF SettingInit, Typed, SettingTypeOK, Connections

LEMMA NextTyped == Typed /\ [SettingNext]_ssvVars => Typed'
<1> SUFFICES ASSUME Typed, [SettingNext]_ssvVars PROVE Typed'
  OBVIOUS
<1> USE DEF Typed, SettingTypeOK
<1>1. CASE UNCHANGED ssvVars
  BY <1>1 DEF ssvVars, serverVars, clientVars
<1>2. ASSUME NEW c \in Clients, Connect(c) PROVE Typed'
  <2>1. PICK a \in Asked : asked' = [asked EXCEPT ![c] = a]
    BY <1>2 DEF Connect
  <2>2. a \in Settings
    BY SettingAssumption, WidthIsNat DEF Asked, Settings
  <2>3. asked' \in [Clients -> Settings]
    BY <2>1, <2>2
  <2>4. backlog' \in Seq(Clients)
    BY <1>2 DEF Connect
  <2>5. conn' \in [Clients -> Connections]
    BY <1>2 DEF Connect, Connections
  <2>6. UNCHANGED <<serverVars, arrived>>
    BY <1>2 DEF Connect
  <2> QED BY <2>3, <2>4, <2>5, <2>6 DEF serverVars
<1>3. ASSUME NEW c \in Clients, SendAll(c) \/ Receive(c) \/ Leave(c) PROVE Typed'
  <2>1. conn' \in [Clients -> Connections]
    BY <1>3 DEF SendAll, Receive, Leave, Connections
  <2>2. UNCHANGED <<serverVars, backlog, asked, arrived>>
    BY <1>3 DEF SendAll, Receive, Leave
  <2> QED BY <2>1, <2>2 DEF serverVars
<1>4. ASSUME NEW c \in Clients, Deliver(c) PROVE Typed'
  <2>1. PICK n \in arrived[c] + 1 .. Total : arrived' = [arrived EXCEPT ![c] = n]
    BY <1>4 DEF Deliver
  <2>2. n \in 0 .. Total
    BY WidthIsNat
  <2>3. arrived' \in [Clients -> 0 .. Total]
    BY <2>1, <2>2
  <2>4. UNCHANGED <<serverVars, backlog, conn, asked>>
    BY <1>4 DEF Deliver
  <2> QED BY <2>3, <2>4 DEF serverVars
<1>5. ASSUME NEW c \in Clients, Finish(c) PROVE Typed'
  <2>1. Defaults \in Settings
    BY SettingAssumption, WidthIsNat DEF Defaults, Settings
  <2>2. asked' \in [Clients -> Settings] /\ conn' \in [Clients -> Connections]
    BY <1>5, <2>1 DEF Finish, Connections
  <2>3. arrived' \in [Clients -> 0 .. Total]
    BY <1>5, WidthIsNat DEF Finish
  <2>4. UNCHANGED <<serverVars, backlog>>
    BY <1>5 DEF Finish
  <2> QED BY <2>2, <2>3, <2>4 DEF serverVars
<1>6. CASE WriteCounter \/ WriteSim \/ WriteTrigger
  <2>1. regs' \in Settings
    BY <1>6 DEF WriteCounter, WriteSim, WriteTrigger, Settings
  <2>2. /\ pc \in {"counter", "sim", "trigger"} /\ pc' \in {"sim", "trigger", "answer"}
        /\ UNCHANGED <<connfd, request, got, backlog, clientVars>>
    BY <1>6 DEF WriteCounter, WriteSim, WriteTrigger
  <2> QED BY <2>1, <2>2 DEF clientVars
<1>7. CASE Accept
  <2>1. connfd' \in Clients /\ backlog' \in Seq(Clients)
    BY <1>7 DEF Accept
  <2> QED BY <1>7, <2>1 DEF Accept, clientVars
<1>8. CASE Read
  <2>1. connfd \in Clients
    BY <1>8 DEF Read
  <2>2. request' \in Settings /\ got' \in 0 .. Total
    BY <1>8, <2>1, DecodeTyped DEF Read
  <2>3. pc' = "decode" /\ UNCHANGED <<connfd, regs, backlog, clientVars>>
    BY <1>8 DEF Read
  <2> QED BY <2>1, <2>2, <2>3 DEF clientVars
<1>9. CASE Guard
  BY <1>9 DEF Guard, clientVars
<1>10. CASE Answer
  BY <1>10 DEF Answer, Connections
<1>11. CASE Close
  <2>1. PICK lost \in {FALSE, got < Total} :
          conn' = [conn EXCEPT ![connfd] =
            IF @ = "left" THEN "none"
            ELSE IF @ = "sent" \/ (@ = "answered" /\ lost) THEN "failed" ELSE @]
    BY <1>11 DEF Close
  <2>2. conn' \in [Clients -> Connections]
    BY <2>1 DEF Connections
  <2>3. /\ pc' = "accept" /\ connfd' = "none"
        /\ UNCHANGED <<request, regs, got, backlog, asked, arrived>>
    BY <1>11 DEF Close
  <2> QED BY <2>2, <2>3
<1> QED
  BY <1>1, <1>2, <1>3, <1>4, <1>5, <1>6, <1>7, <1>8, <1>9, <1>10, <1>11, Zenon
     DEF SettingNext, ServerStep, ClientStep

\* Registers, requests and connections keep to their types, whatever arrives
\* (main.c:110-174).
THEOREM SettingsTyped == SettingSpec => []SettingTypeOK
<1>1. Typed => SettingTypeOK
  BY DEF Typed
<1> QED BY <1>1, InitTyped, NextTyped, PTL DEF SettingSpec

Waiting == {"made", "sent", "left"}

\* Who waits in the backlog is waiting, once, and is not the one served; who
\* is served has not been answered yet, and stays until the close.
InTurn ==
  /\ \A k \in 1 .. Len(backlog) : conn[backlog[k]] \in Waiting
  /\ \A j, k \in 1 .. Len(backlog) : backlog[j] = backlog[k] => j = k
  /\ pc # "accept" => /\ conn[connfd] # "none"
                      /\ \A k \in 1 .. Len(backlog) : backlog[k] # connfd
  /\ Serving => conn[connfd] \in Waiting

LEMMA NextInTurn == Typed /\ InTurn /\ [SettingNext]_ssvVars => InTurn'
<1> SUFFICES ASSUME Typed, InTurn, [SettingNext]_ssvVars PROVE InTurn'
  OBVIOUS
<1>0. /\ conn \in [Clients -> Connections] /\ backlog \in Seq(Clients)
      /\ pc # "accept" => connfd \in Clients
      /\ \A k \in 1 .. Len(backlog) : backlog[k] \in Clients
  BY DEF Typed, SettingTypeOK
<1> USE DEF InTurn, Serving, Waiting
<1>1. CASE UNCHANGED ssvVars
  BY <1>1 DEF ssvVars, serverVars, clientVars
<1>2. ASSUME NEW c \in Clients, Connect(c) PROVE InTurn'
  <2>1. /\ conn[c] = "none" /\ conn' = [conn EXCEPT ![c] = "made"]
        /\ backlog' = Append(backlog, c)
        /\ pc' = pc /\ connfd' = connfd
    BY <1>2 DEF Connect, serverVars
  <2>2. \A k \in 1 .. Len(backlog) : backlog[k] # c
    BY <1>0, <2>1
  <2>3. /\ Len(backlog') = Len(backlog) + 1 /\ Len(backlog) \in Nat
        /\ \A k \in 1 .. Len(backlog) : backlog'[k] = backlog[k]
        /\ backlog'[Len(backlog) + 1] = c
    BY <1>0, <2>1
  <2>4. \A k \in 1 .. Len(backlog') : conn'[backlog'[k]] \in Waiting
    BY <1>0, <2>1, <2>2, <2>3
  <2>5. \A j, k \in 1 .. Len(backlog') : backlog'[j] = backlog'[k] => j = k
    BY <2>2, <2>3
  <2>6. pc # "accept" => connfd # c
    BY <2>1
  <2> QED BY <1>0, <2>1, <2>2, <2>3, <2>4, <2>5, <2>6
<1>3. ASSUME NEW c \in Clients, SendAll(c) \/ Leave(c) PROVE InTurn'
  <2>1. PICK x \in Waiting : conn' = [conn EXCEPT ![c] = x]
    BY <1>3 DEF SendAll, Leave
  <2>2. UNCHANGED <<pc, connfd, backlog>>
    BY <1>3 DEF SendAll, Leave, serverVars
  <2> QED BY <1>0, <2>1, <2>2
<1>4. ASSUME NEW c \in Clients, Deliver(c) PROVE InTurn'
  BY <1>4 DEF Deliver, serverVars
<1>5. ASSUME NEW c \in Clients, Receive(c) PROVE InTurn'
  BY <1>0, <1>5 DEF Receive, serverVars
<1>6. ASSUME NEW c \in Clients, Finish(c) PROVE InTurn'
  BY <1>0, <1>6 DEF Finish, serverVars
<1>7. CASE WriteCounter \/ WriteSim \/ WriteTrigger
  BY <1>7 DEF WriteCounter, WriteSim, WriteTrigger, clientVars
<1>8. CASE Accept
  <2>1. /\ backlog # <<>> /\ connfd' = Head(backlog) /\ backlog' = Tail(backlog)
        /\ conn' = conn /\ pc' = "read"
    BY <1>8 DEF Accept, clientVars
  <2>2. /\ Len(backlog) \in Nat \ {0} /\ connfd' = backlog[1]
        /\ Len(backlog') = Len(backlog) - 1
        /\ \A k \in 1 .. Len(backlog') : backlog'[k] = backlog[k + 1]
    BY <1>0, <2>1
  <2> QED BY <2>1, <2>2
<1>9. CASE Read \/ Guard
  BY <1>9 DEF Read, Guard, clientVars
<1>10. CASE Answer
  BY <1>0, <1>10 DEF Answer
<1>11. CASE Close
  <2>1. /\ pc = "close" /\ pc' = "accept" /\ backlog' = backlog
    BY <1>11 DEF Close
  <2>2. \A c \in Clients : c # connfd => conn'[c] = conn[c]
    BY <1>0, <1>11 DEF Close
  <2> QED BY <1>0, <2>1, <2>2
<1> QED
  BY <1>1, <1>2, <1>3, <1>4, <1>5, <1>6, <1>7, <1>8, <1>9, <1>10, <1>11, Zenon
     DEF SettingNext, ServerStep, ClientStep

\* How far a request has got: the registers written so far hold it, and it
\* is what the client asked for if all its bytes were read.
Written ==
  /\ pc \in {"sim", "trigger", "answer"} => regs.intg = request.intg
  /\ pc \in {"trigger", "answer"} => regs.sim = request.sim
  /\ pc = "answer" => regs.tri = request.tri
  /\ pc \in {"decode", "counter", "sim", "trigger", "answer"} /\ got = Total
       => request = asked[connfd]

LEMMA NextWritten == Typed /\ InTurn /\ Written /\ [SettingNext]_ssvVars => Written'
<1> SUFFICES ASSUME Typed, InTurn, Written, [SettingNext]_ssvVars PROVE Written'
  OBVIOUS
<1>0. /\ asked \in [Clients -> Settings]
      /\ regs \in Settings
      /\ pc # "accept" => connfd \in Clients
  BY DEF Typed, SettingTypeOK
<1> USE DEF Written
<1>1. CASE UNCHANGED ssvVars
  BY <1>1 DEF ssvVars, serverVars, clientVars
<1>2. ASSUME NEW c \in Clients, Connect(c) \/ Finish(c) PROVE Written'
  <2>1. /\ UNCHANGED serverVars
        /\ \A b \in Clients : b # c => asked'[b] = asked[b]
    BY <1>0, <1>2 DEF Connect, Finish
  <2>2. pc # "accept" => connfd # c
    BY <1>2 DEF Connect, Finish, InTurn
  <2> QED BY <1>0, <2>1, <2>2 DEF serverVars
<1>3. ASSUME NEW c \in Clients, SendAll(c) \/ Deliver(c) \/ Receive(c) \/ Leave(c)
      PROVE  Written'
  BY <1>3 DEF SendAll, Deliver, Receive, Leave, serverVars
<1>4. CASE WriteCounter
  BY <1>0, <1>4 DEF WriteCounter, clientVars, Settings
<1>5. CASE WriteSim
  BY <1>0, <1>5 DEF WriteSim, clientVars, Settings
<1>6. CASE WriteTrigger
  BY <1>0, <1>6 DEF WriteTrigger, clientVars, Settings
<1>7. CASE Accept \/ Close
  <2>1. pc' \in {"read", "accept"}
    BY <1>7 DEF Accept, Close
  <2> QED BY <2>1
<1>8. CASE Read
  <2>1. pc' = "decode" /\ got' = arrived[connfd] /\ connfd' = connfd /\ asked' = asked
        /\ request' = Decode(asked[connfd], got')
    BY <1>8 DEF Read, clientVars
  <2>2. asked[connfd] \in Settings
    BY <1>0, <1>8 DEF Read
  <2>3. got' = Total => request' = asked[connfd]
    BY <2>1, <2>2, DecodeWhole
  <2> QED BY <2>1, <2>3
<1>9. CASE Guard
  BY <1>9 DEF Guard, clientVars
<1>10. CASE Answer
  BY <1>10 DEF Answer
<1> QED
  BY <1>1, <1>2, <1>3, <1>4, <1>5, <1>6, <1>7, <1>8, <1>9, <1>10, Zenon
     DEF SettingNext, ServerStep, ClientStep

\* A client that is told "done" finds the registers at all it asked for,
\* if the single read got its whole request: no other client's request comes
\* between the writes and the answer (main.c:158-174).
THEOREM DoneIsApplied == SettingSpec => DoneMeansApplied
<1> DEFINE
  Told == \A c \in Clients : conn[c] # "answered" /\ conn'[c] = "answered" /\ got = Total
            => regs = asked[c]
  Inv == Typed /\ InTurn /\ Written
<1>1. SettingInit => Inv
  <2>1. SettingInit => InTurn /\ Written
    BY DEF SettingInit, InTurn, Serving, Written
  <2> QED BY <2>1, InitTyped
<1>2. Inv /\ [SettingNext]_ssvVars => Inv'
  BY NextTyped, NextInTurn, NextWritten
<1>3. Inv /\ [SettingNext]_ssvVars => [Told]_ssvVars
  <2> SUFFICES ASSUME Inv, SettingNext,
                      NEW c \in Clients, conn[c] # "answered", conn'[c] = "answered", got = Total
               PROVE  regs = asked[c]
    BY DEF ssvVars, clientVars
  <2>0. conn \in [Clients -> Connections] /\ asked \in [Clients -> Settings] /\ regs \in Settings
    BY DEF Typed, SettingTypeOK
  <2>1. Answer /\ c = connfd
    <3>1. CASE Answer
      BY <2>0, <3>1 DEF Answer
    <3>2. CASE \E b \in Clients : ClientStep(b)
      BY <2>0, <3>2 DEF ClientStep, Connect, SendAll, Deliver, Receive, Leave, Finish
    <3>3. CASE Close
      BY <2>0, <3>3 DEF Close
    <3>4. CASE WriteCounter \/ WriteSim \/ WriteTrigger \/ Accept \/ Read \/ Guard
      BY <3>4 DEF WriteCounter, WriteSim, WriteTrigger, Accept, Read, Guard, clientVars
    <3> QED BY <3>1, <3>2, <3>3, <3>4, Zenon DEF SettingNext, ServerStep
  <2>2. request = asked[c] /\ regs.intg = request.intg /\ regs.sim = request.sim
        /\ regs.tri = request.tri
    BY <2>1 DEF Answer, Written
  <2> QED BY <2>0, <2>2 DEF Settings
<1> QED BY <1>1, <1>2, <1>3, PTL DEF SettingSpec, DoneMeansApplied
=============================================================================
