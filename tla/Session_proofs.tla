---------------------------- MODULE Session_proofs ----------------------------
(* The session, for any clients: types, packages without a gap when they are *)
(* as long as the FIFO is deep and the server keeps up, and second packages  *)
(* without old samples when they are at least as long.                       *)
EXTENDS Session, FiniteSetTheorems, TLAPS

-----------------------------------------------------------------------------
(* Sequences. *)

LEMMA AppendFacts ==
  ASSUME NEW S, NEW s \in Seq(S), NEW e \in S
  PROVE  /\ Append(s, e) \in Seq(S)
         /\ Len(s) \in Nat /\ Len(Append(s, e)) = Len(s) + 1
         /\ \A k \in 1 .. Len(s) : Append(s, e)[k] = s[k]
         /\ Append(s, e)[Len(s) + 1] = e
  OBVIOUS

LEMMA TailFacts ==
  ASSUME NEW S, NEW s \in Seq(S), s # <<>>
  PROVE  /\ Head(s) \in S /\ Head(s) = s[1]
         /\ Tail(s) \in Seq(S)
         /\ Len(s) \in Nat \ {0} /\ Len(Tail(s)) = Len(s) - 1
         /\ \A k \in 1 .. Len(s) - 1 : Tail(s)[k] = s[k + 1]
  OBVIOUS

LEMMA FunctionIsSeq ==
  ASSUME NEW S, NEW n \in Nat, NEW f \in [1 .. n -> S]
  PROVE  f \in Seq(S) /\ Len(f) = n
  OBVIOUS

\* Samples that have become old are as many as before, with the same gaps.
LEMMA OlderFacts ==
  ASSUME NEW s \in Seq(Samples)
  PROVE  /\ Older(s) \in Seq(Samples) /\ Len(Older(s)) = Len(s) /\ Len(s) \in Nat
         /\ \A k \in 1 .. Len(s) : Older(s)[k].gap = s[k].gap
<1>1. /\ Len(s) \in Nat /\ DOMAIN s = 1 .. Len(s)
      /\ \A k \in 1 .. Len(s) : s[k] \in Samples
  OBVIOUS
<1>2. \A k \in 1 .. Len(s) : /\ [s[k] EXCEPT !.old = TRUE] \in Samples
                             /\ [s[k] EXCEPT !.old = TRUE].gap = s[k].gap
  <2> SUFFICES ASSUME NEW k \in 1 .. Len(s)
               PROVE  /\ [s[k] EXCEPT !.old = TRUE] \in Samples
                      /\ [s[k] EXCEPT !.old = TRUE].gap = s[k].gap
    OBVIOUS
  <2>1. s[k] \in Samples
    BY <1>1
  <2> QED BY <2>1 DEF Samples
<1> DEFINE f == [k \in 1 .. Len(s) |-> [s[k] EXCEPT !.old = TRUE]]
<1>3. Older(s) = f
  BY <1>1 DEF Older
<1>4. f \in [1 .. Len(s) -> Samples]
  BY <1>2
<1>5. f \in Seq(Samples) /\ Len(f) = Len(s)
  <2> HIDE DEF f
  <2> QED BY <1>1, <1>4, FunctionIsSeq
<1>6. \A k \in 1 .. Len(s) : f[k].gap = s[k].gap
  BY <1>2
<1> QED BY <1>1, <1>3, <1>5, <1>6

-----------------------------------------------------------------------------
(* Types, and the order of clients. *)

\* Clients in the backlog have an open connection, once each, and are not
\* the one served.
Queued ==
  /\ \A k \in 1 .. Len(backlog) : client[backlog[k]] \in {"waiting", "left"}
  /\ \A j, k \in 1 .. Len(backlog) : backlog[j] = backlog[k] => j = k
  /\ pc \in {"fill", "send"} => /\ client[connfd] \in {"waiting", "left"}
                                /\ \A k \in 1 .. Len(backlog) : backlog[k] # connfd

Shapes ==
  /\ queue \in Seq(Samples) /\ Len(queue) <= Depth
  /\ lost \in BOOLEAN /\ began \in BOOLEAN /\ lag \in BOOLEAN /\ polls \in 0 .. Pace
  /\ pc \in {"accept", "fill", "send", "close", "dead"}
  /\ connfd \in Clients \cup {"none"}
  /\ package \in Seq(Samples) /\ Len(package) <= MAX
  /\ backlog \in Seq(Clients)
  /\ client \in [Clients -> ClientStates]
  /\ nth \in 0 .. 2 /\ slow \in 0 .. 2
  /\ pc \in {"fill", "send"} => connfd \in Clients

\* How far a package is.
Lengths ==
  /\ pc \in {"accept", "dead"} => package = <<>>
  /\ pc = "fill" => Len(package) < MAX
  /\ pc \in {"send", "close"} => Len(package) = MAX

Typed == Shapes /\ Lengths /\ Queued

\* Distinct clients are no more than there are clients.
LEMMA BacklogFits == Typed => SessionTypeOK
<1> SUFFICES ASSUME Typed PROVE Len(backlog) <= Cardinality(Clients)
  BY DEF Typed, Shapes, SessionTypeOK
<1>1. backlog \in [1 .. Len(backlog) -> Clients] /\ Len(backlog) \in Nat
  BY DEF Typed, Shapes
<1>2. IsFiniteSet(1 .. Len(backlog)) /\ Cardinality(1 .. Len(backlog)) = Len(backlog)
  <2> DEFINE n == Len(backlog)
  <2>1. 1 \in Int /\ n \in Int
    BY <1>1
  <2>2. IsFiniteSet(1 .. n) /\ Cardinality(1 .. n) = IF 1 > n THEN 0 ELSE n - 1 + 1
    <3> HIDE DEF n
    <3> QED BY <2>1, FS_Interval
  <2> QED BY <1>1, <2>2
<1>3. IsFiniteSet(Clients) /\ Cardinality(Clients) \in Nat
  BY SessionAssumption, FS_CardinalityType
<1>4. ~(Cardinality(Clients) < Cardinality(1 .. Len(backlog)))
  <2> SUFFICES ASSUME Cardinality(Clients) < Cardinality(1 .. Len(backlog)) PROVE FALSE
    OBVIOUS
  <2>1. \E x, y \in 1 .. Len(backlog) : x # y /\ backlog[x] = backlog[y]
    BY <1>1, <1>2, <1>3, FS_PigeonHole
  <2> QED BY <2>1 DEF Typed, Queued
<1> QED BY <1>1, <1>2, <1>3, <1>4

LEMMA InitTyped == SessionInit => Typed
<1> SUFFICES ASSUME SessionInit PROVE Typed
  OBVIOUS
<1>1. /\ queue = <<>> /\ package = <<>> /\ backlog = <<>> /\ polls = Pace
      /\ Len(<<>>) = 0 /\ <<>> \in Seq(Samples) /\ <<>> \in Seq(Clients)
  BY DEF SessionInit
<1>2. client \in [Clients -> ClientStates]
  BY DEF SessionInit, ClientStates
<1>3. /\ pc = "accept" /\ connfd = "none" /\ nth = 0 /\ slow = 0
      /\ lost \in BOOLEAN /\ began \in BOOLEAN /\ lag \in BOOLEAN
  BY DEF SessionInit
<1>4. Shapes
  BY <1>1, <1>2, <1>3, SessionAssumption DEF Shapes
<1>5. Lengths /\ Queued
  BY <1>1, <1>3 DEF Lengths, Queued
<1> QED BY <1>4, <1>5 DEF Typed

LEMMA ReportTyped == Typed /\ Report => Typed'
<1> SUFFICES ASSUME Typed, Report PROVE Typed'
  OBVIOUS
<1> DEFINE e == [gap |-> lost, old |-> began]
<1>1. UNCHANGED <<lag, pc, connfd, package, backlog, client, nth>>
  BY DEF Report, server
<1>2. e \in Samples
  BY DEF Typed, Shapes, Samples
<1>3. /\ queue' \in Seq(Samples) /\ Len(queue') <= Depth
  <2>1. CASE queue' = Append(queue, e) /\ Len(queue) < Depth
    <3> HIDE DEF e
    <3> QED BY <1>2, <2>1, AppendFacts, SessionAssumption DEF Typed, Shapes
  <2>2. CASE queue' = queue
    BY <2>2 DEF Typed, Shapes
  <2> QED BY <2>1, <2>2 DEF Report, MayAccept
<1>4. lost' \in BOOLEAN /\ began' \in BOOLEAN /\ slow' \in 0 .. 2
  <2>1. lost' \in BOOLEAN /\ began' \in BOOLEAN
    BY Zenon DEF Report
  <2>2. slow' = 2 \/ slow' = slow
    BY Zenon DEF Report
  <2>3. slow' \in 0 .. 2
    BY <2>2 DEF Typed, Shapes
  <2> QED BY <2>1, <2>3
<1>5. polls' \in 0 .. Pace
  BY SessionAssumption DEF Report, Typed, Shapes
<1>6. Shapes'
  BY <1>1, <1>3, <1>4, <1>5 DEF Typed, Shapes
<1>7. Lengths' /\ Queued'
  BY <1>1 DEF Typed, Lengths, Queued
<1> QED BY <1>6, <1>7 DEF Typed

LEMMA ClientTyped ==
  ASSUME Typed, NEW c \in Clients, Set(c) \/ Connect(c) \/ NextRound(c) \/ Leave(c)
  PROVE  Typed'
<1>0. /\ client \in [Clients -> ClientStates] /\ backlog \in Seq(Clients)
      /\ pc \in {"fill", "send"} => connfd \in Clients
      /\ \A k \in 1 .. Len(backlog) : backlog[k] \in Clients
  BY DEF Typed, Shapes
<1>1. CASE Set(c)
  <2>1. Older(queue) \in Seq(Samples) /\ Len(Older(queue)) = Len(queue)
    BY OlderFacts DEF Typed, Shapes
  <2>2. Older(package) \in Seq(Samples) /\ Len(Older(package)) = Len(package)
    BY OlderFacts DEF Typed, Shapes
  <2>3. client' \in [Clients -> ClientStates]
    BY <1>0, <1>1 DEF Set, ClientStates
  <2>4. /\ queue' = Older(queue) /\ package' = Older(package) /\ began' = TRUE /\ nth' = 0
        /\ UNCHANGED <<lost, lag, polls, pc, connfd, backlog, slow>>
    BY <1>1 DEF Set
  <2>5. Shapes'
    BY <2>1, <2>2, <2>3, <2>4 DEF Typed, Shapes
  <2>6. Lengths'
    <3>1. pc \in {"accept", "dead"} => Older(package) = <<>>
      BY <2>2 DEF Typed, Lengths
    <3> QED BY <2>2, <2>4, <3>1 DEF Typed, Lengths
  <2>7. Queued'
    BY <1>0, <1>1, <2>4 DEF Set, Typed, Queued
  <2> QED BY <2>5, <2>6, <2>7 DEF Typed
<1>2. CASE Connect(c) /\ pc = "dead"
  <2>1. client' \in [Clients -> ClientStates]
    BY <1>0, <1>2 DEF Connect, ClientStates
  <2>2. UNCHANGED <<queue, lost, began, lag, polls, pc, connfd, package, backlog, nth, slow>>
    BY <1>2 DEF Connect, fifo
  <2>3. Shapes' /\ Lengths'
    BY <2>1, <2>2 DEF Typed, Shapes, Lengths
  <2>4. Queued'
    BY <1>0, <1>2, <2>2 DEF Connect, Typed, Queued
  <2> QED BY <2>3, <2>4 DEF Typed
<1>3. CASE Connect(c) /\ pc # "dead"
  <2>1. /\ client[c] = "set" /\ client' = [client EXCEPT ![c] = "waiting"]
        /\ backlog' = Append(backlog, c)
        /\ UNCHANGED <<queue, lost, began, lag, polls, pc, connfd, package, nth, slow>>
    BY <1>3 DEF Connect, fifo
  <2>2. client' \in [Clients -> ClientStates]
    BY <1>0, <2>1 DEF ClientStates
  <2>3. /\ backlog' \in Seq(Clients)
        /\ Len(backlog') = Len(backlog) + 1 /\ Len(backlog) \in Nat
        /\ \A k \in 1 .. Len(backlog) : backlog'[k] = backlog[k]
        /\ backlog'[Len(backlog) + 1] = c
    BY <1>0, <2>1, AppendFacts
  <2>4. Shapes' /\ Lengths'
    BY <2>1, <2>2, <2>3 DEF Typed, Shapes, Lengths
  <2>5. /\ \A k \in 1 .. Len(backlog) : backlog[k] # c
        /\ pc \in {"fill", "send"} => connfd # c
    BY <2>1 DEF Typed, Queued
  <2>6. Queued'
    BY <1>0, <2>1, <2>3, <2>5 DEF Typed, Queued
  <2> QED BY <2>4, <2>6 DEF Typed
<1>4. CASE NextRound(c) \/ Leave(c)
  <2>1. PICK x \in {"idle", "left"} :
          /\ client' = [client EXCEPT ![c] = x]
          /\ client[c] = IF x = "idle" THEN "got" ELSE "waiting"
    BY <1>4 DEF NextRound, Leave
  <2>2. UNCHANGED <<queue, lost, began, lag, polls, pc, connfd, package, backlog, nth, slow>>
    BY <1>4 DEF NextRound, Leave, fifo, server
  <2>3. client' \in [Clients -> ClientStates]
    BY <1>0, <2>1 DEF ClientStates
  <2>4. Shapes' /\ Lengths'
    BY <2>2, <2>3 DEF Typed, Shapes, Lengths
  <2>5. Queued'
    BY <1>0, <2>1, <2>2 DEF Typed, Queued
  <2> QED BY <2>4, <2>5 DEF Typed
<1> QED BY <1>1, <1>2, <1>3, <1>4

LEMMA ServerTyped == Typed /\ (ServerStep \/ Restart) => Typed'
<1> SUFFICES ASSUME Typed, ServerStep \/ Restart PROVE Typed'
  OBVIOUS
<1>0. /\ client \in [Clients -> ClientStates] /\ backlog \in Seq(Clients)
      /\ pc \in {"fill", "send"} => connfd \in Clients
      /\ queue \in Seq(Samples) /\ package \in Seq(Samples)
      /\ Len(queue) \in Nat /\ Len(package) \in Nat
      /\ MAX \in Nat \ {0} /\ Depth \in Nat \ {0} /\ Pace \in Nat
      /\ \A k \in 1 .. Len(backlog) : backlog[k] \in Clients
  BY SessionAssumption DEF Typed, Shapes
<1>1. CASE Accept
  <2>1. /\ pc = "accept" /\ pc' = "fill" /\ backlog # <<>>
        /\ connfd' = Head(backlog) /\ backlog' = Tail(backlog)
        /\ nth' = IF nth = 2 THEN 2 ELSE nth + 1
        /\ slow' = IF slow = 0 THEN 0 ELSE slow - 1
        /\ UNCHANGED <<queue, lost, began, lag, polls, package, client>>
    BY <1>1 DEF Accept, fifo
  <2>2. /\ connfd' = backlog[1] /\ connfd' \in Clients /\ backlog' \in Seq(Clients)
        /\ Len(backlog) \in Nat \ {0} /\ Len(backlog') = Len(backlog) - 1
        /\ \A k \in 1 .. Len(backlog) - 1 : backlog'[k] = backlog[k + 1]
    BY <1>0, <2>1, TailFacts
  <2>3. Shapes'
    BY <2>1, <2>2 DEF Typed, Shapes
  <2>4. Lengths'
    BY <1>0, <2>1 DEF Typed, Lengths
  <2>5. Queued'
    BY <1>0, <2>1, <2>2 DEF Typed, Queued
  <2> QED BY <2>3, <2>4, <2>5 DEF Typed
<1>2. CASE Fill
  <2>1. /\ pc = "fill" /\ queue # <<>>
        /\ package' = Append(package, Head(queue)) /\ queue' = Tail(queue)
        /\ lag' \in BOOLEAN
        /\ polls' = IF polls = Pace THEN Pace ELSE polls + 1
        /\ pc' = IF Len(package') = MAX THEN "send" ELSE "fill"
        /\ UNCHANGED <<lost, began, connfd, backlog, client, nth, slow>>
    BY <1>2 DEF Fill, Full
  <2>2. /\ Head(queue) \in Samples /\ queue' \in Seq(Samples)
        /\ Len(queue') = Len(queue) - 1
    BY <1>0, <2>1, TailFacts
  <2>3. package' \in Seq(Samples) /\ Len(package') = Len(package) + 1
    BY <1>0, <2>1, <2>2, AppendFacts
  <2>4. Shapes'
    BY <1>0, <2>1, <2>2, <2>3 DEF Typed, Shapes, Lengths
  <2>5. Lengths'
    BY <1>0, <2>1, <2>3 DEF Typed, Lengths
  <2>6. Queued'
    BY <2>1 DEF Typed, Queued
  <2> QED BY <2>4, <2>5, <2>6 DEF Typed
<1>3. CASE Send
  <2>1. PICK x \in ClientStates : client' = [client EXCEPT ![connfd] = x]
    BY <1>3 DEF Send, ClientStates
  <2>2. /\ pc = "send" /\ pc' = "close"
        /\ UNCHANGED <<queue, lost, began, lag, polls, connfd, package, backlog, nth, slow>>
    BY <1>3 DEF Send, fifo
  <2>3. Shapes' /\ Lengths'
    BY <1>0, <2>1, <2>2 DEF Typed, Shapes, Lengths
  <2>4. Queued'
    BY <1>0, <2>1, <2>2 DEF Typed, Queued
  <2> QED BY <2>3, <2>4 DEF Typed
<1>4. CASE Sigpipe
  <2>1. /\ pc' = "dead" /\ connfd' = "none" /\ backlog' = <<>> /\ package' = <<>>
        /\ polls' = Pace /\ lag' = FALSE
        /\ UNCHANGED <<queue, lost, began, nth, slow>>
    BY <1>4 DEF Sigpipe
  <2>2. client' \in [Clients -> ClientStates]
    BY <1>0, <1>4 DEF Sigpipe, ClientStates
  <2>3. Len(<<>>) = 0 /\ <<>> \in Seq(Samples) /\ <<>> \in Seq(Clients)
    OBVIOUS
  <2>4. polls' \in 0 .. Pace /\ lag' \in BOOLEAN /\ Len(package') <= MAX
    <3>1. Pace \in 0 .. Pace /\ 0 <= MAX
      BY <1>0
    <3>2. polls' \in 0 .. Pace
      BY <2>1, <3>1
    <3>3. Len(package') = 0
      BY <2>1
    <3>4. lag' \in BOOLEAN
      BY <2>1
    <3> QED BY <3>1, <3>2, <3>3, <3>4
  <2>5. package' \in Seq(Samples) /\ backlog' \in Seq(Clients)
    BY <2>1, <2>3
  <2>6. Shapes'
    BY <2>1, <2>2, <2>4, <2>5 DEF Typed, Shapes
  <2>7. Lengths' /\ Queued'
    BY <2>1, <2>3 DEF Lengths, Queued
  <2> QED BY <2>6, <2>7 DEF Typed
<1>5. CASE Close
  <2>1. /\ pc = "close" /\ pc' = "accept" /\ connfd' = "none" /\ package' = <<>>
        /\ polls' = Pace /\ lag' = FALSE
        /\ UNCHANGED <<queue, lost, began, backlog, client, nth, slow>>
    BY <1>5 DEF Close
  <2>2. Len(<<>>) = 0 /\ <<>> \in Seq(Samples)
    OBVIOUS
  <2>3. polls' \in 0 .. Pace /\ lag' \in BOOLEAN /\ Len(package') <= MAX
    <3>1. Pace \in 0 .. Pace /\ 0 <= MAX
      BY <1>0
    <3>2. polls' \in 0 .. Pace
      BY <2>1, <3>1
    <3>3. Len(package') = 0
      BY <2>1
    <3>4. lag' \in BOOLEAN
      BY <2>1
    <3> QED BY <3>1, <3>2, <3>3, <3>4
  <2>4. package' \in Seq(Samples)
    BY <2>1, <2>2
  <2>5. Shapes'
    BY <2>1, <2>3, <2>4 DEF Typed, Shapes
  <2>6. Lengths' /\ Queued'
    BY <2>1 DEF Typed, Lengths, Queued
  <2> QED BY <2>5, <2>6 DEF Typed
<1>6. CASE Restart
  <2>1. /\ pc = "dead" /\ pc' = "accept"
        /\ UNCHANGED <<queue, lost, began, lag, polls, connfd, package, backlog, client, nth, slow>>
    BY <1>6 DEF Restart, fifo
  <2> QED BY <2>1 DEF Typed, Shapes, Lengths, Queued
<1> QED BY <1>1, <1>2, <1>3, <1>4, <1>5, <1>6 DEF ServerStep

LEMMA NextTyped == Typed /\ [SessionNext]_sessionVars => Typed'
<1> SUFFICES ASSUME Typed, [SessionNext]_sessionVars PROVE Typed'
  OBVIOUS
<1>1. CASE UNCHANGED sessionVars
  BY <1>1 DEF sessionVars, fifo, server, Typed, Shapes, Lengths, Queued
<1>2. CASE SessionNext
  BY <1>2, ReportTyped, ClientTyped, ServerTyped, Zenon DEF SessionNext
<1> QED BY <1>1, <1>2

\* Queue, package and backlog keep within the FIFO, the array and the number
\* of clients, whoever comes, leaves or is cut off (main.c:108-166).
THEOREM SessionTyped == SessionSpec => []SessionTypeOK
  BY InitTyped, NextTyped, BacklogFits, PTL DEF SessionSpec

-----------------------------------------------------------------------------
(* What a step does to the words, seen as one sequence: the package and     *)
(* after it the queue.                                                      *)

Taken == Len(package)
Held == Len(queue)

LEMMA Numbers ==
  Typed => /\ Taken \in 0 .. MAX /\ Held \in 0 .. Depth /\ polls \in 0 .. Pace
           /\ MAX \in Nat \ {0} /\ Depth \in Nat \ {0} /\ Pace \in Nat /\ Pace > 1
           /\ queue \in Seq(Samples) /\ package \in Seq(Samples)
  BY SessionAssumption DEF Typed, Shapes, Taken, Held

\* At a report: the server has not fallen behind.
KeptUp ==
  /\ pc = "fill" => polls = Pace \/ Held = 0
  /\ lost' /\ Held < Depth => polls = Pace

\* A report adds a word at the end, or none.
LEMMA ReportWords ==
  ASSUME Typed, Report
  PROVE  /\ UNCHANGED <<lag, pc, connfd, package, backlog, client, nth>>
         /\ Taken' = Taken
         /\ polls' = IF pc = "fill" THEN 0 ELSE polls
         /\ slow' = 2 \/ (slow' = slow /\ KeptUp)
         /\ ~began'
         /\ \/ /\ Held < Depth /\ Held' = Held + 1 /\ ~lost'
               /\ \A j \in 1 .. Held : queue'[j] = queue[j]
               /\ queue'[Held + 1].gap = lost /\ queue'[Held + 1].old = began
            \/ /\ Held = Depth \/ lag
               /\ lost' /\ queue' = queue /\ Held' = Held
<1> DEFINE e == [gap |-> lost, old |-> began]
<1>1. UNCHANGED <<lag, pc, connfd, package, backlog, client, nth>>
  BY DEF Report, server
<1>2. e \in Samples /\ e.gap = lost /\ e.old = began
  BY DEF Typed, Shapes, Samples
<1>3. Taken' = Taken
  BY <1>1 DEF Taken
<1>4. /\ polls' = IF pc = "fill" THEN 0 ELSE polls
      /\ slow' = 2 \/ (slow' = slow /\ KeptUp)
  <2>1. slow' = IF FallsBehind THEN 2 ELSE slow
    BY DEF Report
  <2>2. ~FallsBehind => KeptUp
    <3>1. queue = <<>> => Held = 0
      BY DEF Held
    <3> QED BY <3>1, Numbers DEF FallsBehind, KeptUp, Held
  <2> QED BY <2>1, <2>2 DEF Report
<1>5. ~began'
  BY DEF Report
<1>6. CASE MayAccept /\ queue' = Append(queue, e) /\ lost' = FALSE
  <2>1. /\ Len(queue') = Len(queue) + 1
        /\ \A j \in 1 .. Len(queue) : queue'[j] = queue[j]
        /\ queue'[Len(queue) + 1] = e
    <3> HIDE DEF e
    <3> QED BY <1>2, <1>6, Numbers, AppendFacts
  <2>2. Held < Depth
    BY <1>6 DEF MayAccept, Held
  <2> HIDE DEF e
  <2> QED BY <1>1, <1>2, <1>3, <1>4, <1>5, <1>6, <2>1, <2>2 DEF Held
<1>7. CASE MayRefuse /\ lost' = TRUE /\ queue' = queue
  BY <1>1, <1>3, <1>4, <1>5, <1>7 DEF MayRefuse, Held
<1> QED BY <1>6, <1>7 DEF Report

\* A client's step leaves the words and their gaps, and at most makes all
\* of them old.
LEMMA ClientWords ==
  ASSUME Typed, NEW c \in Clients, Set(c) \/ Connect(c) \/ NextRound(c) \/ Leave(c)
  PROVE  /\ UNCHANGED <<lost, lag, polls, pc, slow>>
         /\ Taken' = Taken /\ Held' = Held
         /\ \A k \in 1 .. Taken : package'[k].gap = package[k].gap
         /\ \A j \in 1 .. Held : queue'[j].gap = queue[j].gap
         /\ nth' = 0 \/ UNCHANGED <<queue, package, began, nth>>
<1>1. CASE Set(c)
  <2>1. /\ queue' = Older(queue) /\ package' = Older(package) /\ nth' = 0
        /\ UNCHANGED <<lost, lag, polls, pc, slow>>
    BY <1>1 DEF Set
  <2> QED BY <2>1, Numbers, OlderFacts DEF Taken, Held
<1>2. CASE Connect(c) \/ NextRound(c) \/ Leave(c)
  <2>1. UNCHANGED <<queue, lost, began, lag, polls, pc, package, nth, slow>>
    BY <1>2 DEF Connect, NextRound, Leave, fifo, server
  <2> QED BY <2>1 DEF Taken, Held
<1> QED BY <1>1, <1>2

\* A word goes from the front of the queue to the end of the package.
LEMMA FillWords ==
  ASSUME Typed, Fill
  PROVE  /\ UNCHANGED <<lost, began, nth, slow>>
         /\ pc = "fill" /\ pc' \in {"fill", "send"}
         /\ Taken' = Taken + 1 /\ Held' = Held - 1 /\ Held > 0
         /\ \A k \in 1 .. Taken : package'[k] = package[k]
         /\ package'[Taken + 1] = queue[1]
         /\ \A j \in 1 .. Held - 1 : queue'[j] = queue[j + 1]
         /\ lag' <=> Held = Depth
         /\ polls' = IF polls = Pace THEN Pace ELSE polls + 1
<1>1. /\ pc = "fill" /\ queue # <<>>
      /\ package' = Append(package, Head(queue)) /\ queue' = Tail(queue)
      /\ lag' = (Len(queue) = Depth)
      /\ polls' = IF polls = Pace THEN Pace ELSE polls + 1
      /\ pc' \in {"send", "fill"}
      /\ UNCHANGED <<lost, began, nth, slow>>
  BY DEF Fill
<1>2. /\ Head(queue) \in Samples /\ Head(queue) = queue[1]
      /\ Len(queue) \in Nat \ {0} /\ Len(queue') = Len(queue) - 1
      /\ \A k \in 1 .. Len(queue) - 1 : queue'[k] = queue[k + 1]
  BY <1>1, Numbers, TailFacts
<1>3. /\ Len(package) \in Nat /\ Len(package') = Len(package) + 1
      /\ \A k \in 1 .. Len(package) : package'[k] = package[k]
      /\ package'[Len(package) + 1] = Head(queue)
  BY <1>1, <1>2, Numbers, AppendFacts
<1>4. lag' <=> Held = Depth
  BY <1>1, Zenon DEF Held
<1> QED BY <1>1, <1>2, <1>3, <1>4 DEF Taken, Held

\* The other steps leave the queue; Close and Sigpipe clear the package.
LEMMA OtherWords ==
  ASSUME Typed, Accept \/ Send \/ Sigpipe \/ Close \/ Restart
  PROVE  /\ UNCHANGED <<queue, lost, began>> /\ Held' = Held
         /\ \/ /\ pc \in {"send", "close"} /\ pc' \in {"accept", "dead"}
               /\ Taken = MAX /\ Taken' = 0 /\ polls' = Pace /\ ~lag'
               /\ nth' = nth /\ slow' = slow
            \/ /\ UNCHANGED <<package, polls, lag>> /\ Taken' = Taken
               /\ \/ /\ pc = "accept" /\ pc' = "fill" /\ Taken = 0
                     /\ nth' = IF nth = 2 THEN 2 ELSE nth + 1
                     /\ slow' = IF slow = 0 THEN 0 ELSE slow - 1
                  \/ pc = "send" /\ pc' = "close" /\ nth' = nth /\ slow' = slow
                  \/ pc = "dead" /\ pc' = "accept" /\ nth' = nth /\ slow' = slow
<1>1. CASE Accept
  BY <1>1 DEF Accept, fifo, Typed, Lengths, Taken, Held
<1>2. CASE Send \/ Restart
  BY <1>2 DEF Send, Restart, fifo, Taken, Held
<1>3. CASE Sigpipe \/ Close
  BY <1>3 DEF Sigpipe, Close, Typed, Lengths, Taken, Held
<1> QED BY <1>1, <1>2, <1>3

-----------------------------------------------------------------------------
(* Packages as long as the FIFO is deep. *)

\* Polls since the last sample, as far as they matter.
Polled == IF polls = 0 THEN 0 ELSE IF polls = 1 THEN 1 ELSE 2

\* Between packages the polls are not counted and the writer knows of all.
Rested == pc \in {"accept", "dead"} => polls = Pace /\ ~lag

\* If the server keeps up, the FIFO has room again before a sample comes once
\* a package is begun.
Drains ==
  /\ Taken = 0 => polls \in {0, Pace}
  /\ pc = "fill" /\ Taken >= 1 =>
       Held + Polled <= Depth \/ (Taken = 1 /\ Held = Depth - 1)
  /\ lag => Taken >= 1
  /\ lag /\ polls = Pace => Taken = 1 /\ Held >= Depth - 1

\* Then gaps are at the end of a package, in the words and for the next word.
GapsBetween ==
  /\ \A k \in 2 .. Taken : ~package[k].gap
  /\ \A j \in 1 .. Held : queue[j].gap => Taken + j \in {1, MAX + 1}
  /\ lost => Taken + Held \in {0, MAX} \/ (Taken = MAX /\ Held = Depth)

\* The package after the one in which the server fell behind takes in what
\* gaps the FIFO still had, but for one at its very end.
GapsLeft ==
  /\ \A j \in 1 .. Held : queue[j].gap => Taken + j <= MAX + 1
  /\ lost => Taken + Held <= MAX \/ (Taken = MAX /\ Held = Depth)

Healed == pc \in {"accept", "dead"} => GapsBetween

Whole ==
  /\ Typed /\ Rested
  /\ slow < 2 => Drains
  /\ slow = 1 => GapsLeft /\ Healed
  /\ slow = 0 => GapsBetween

LEMMA InitWhole == SessionInit => Whole
<1> SUFFICES ASSUME SessionInit PROVE Whole
  OBVIOUS
<1>1. Typed
  BY InitTyped
<1>2. Taken = 0 /\ Held = 0 /\ polls = Pace /\ slow = 0
  BY DEF SessionInit, Taken, Held
<1>3. pc = "accept" /\ ~lost /\ ~lag
  BY DEF SessionInit
<1>4. Rested
  BY <1>2, <1>3 DEF Rested
<1>5. Drains /\ GapsBetween
  BY <1>2, <1>3, SessionAssumption DEF Drains, GapsBetween
<1> QED BY <1>1, <1>2, <1>4, <1>5 DEF Whole

LEMMA WholeNumbers ==
  ASSUME Typed
  PROVE  /\ Taken \in 0 .. MAX /\ Held \in 0 .. Depth /\ polls \in 0 .. Pace
         /\ MAX \in Nat \ {0} /\ Depth \in Nat \ {0} /\ Pace \in Nat /\ Pace > 1
         /\ pc \in {"accept", "fill", "send", "close", "dead"}
         /\ pc \in {"accept", "dead"} => Taken = 0
         /\ pc = "fill" => Taken < MAX
         /\ pc \in {"send", "close"} => Taken = MAX
         /\ Polled \in 0 .. 2 /\ (polls = Pace => Polled = 2) /\ (Polled = 0 => polls = 0)
<1>1. Taken \in 0 .. MAX /\ Held \in 0 .. Depth /\ polls \in 0 .. Pace
  BY Numbers
<1>2. MAX \in Nat \ {0} /\ Depth \in Nat \ {0} /\ Pace \in Nat /\ Pace > 1
  BY SessionAssumption
<1>3. /\ pc \in {"accept", "fill", "send", "close", "dead"}
      /\ pc \in {"accept", "dead"} => Taken = 0
      /\ pc = "fill" => Taken < MAX
      /\ pc \in {"send", "close"} => Taken = MAX
  BY DEF Typed, Shapes, Lengths, Taken
<1>4. Polled \in 0 .. 2 /\ (polls = Pace => Polled = 2) /\ (Polled = 0 => polls = 0)
  BY <1>1, <1>2 DEF Polled
<1> QED BY <1>1, <1>2, <1>3, <1>4

LEMMA BetweenIsLeft == Typed /\ GapsBetween => GapsLeft
<1> SUFFICES ASSUME Typed, GapsBetween PROVE GapsLeft
  OBVIOUS
<1>1. Taken \in Nat /\ Held \in Nat /\ MAX \in Nat
  BY Numbers
<1> QED BY <1>1 DEF GapsBetween, GapsLeft

\* A report while the server keeps up, refused only where a package ends.
LEMMA ReportKeeps ==
  ASSUME MAX = Depth, Typed, Drains, Report, KeptUp
  PROVE  /\ Drains'
         /\ GapsBetween => GapsBetween'
         /\ GapsLeft => GapsLeft'
<1>1. /\ UNCHANGED <<lag, pc, package>> /\ Taken' = Taken
      /\ pc = "fill" => (polls = Pace \/ Held = 0) /\ polls' = 0
      /\ pc # "fill" => polls' = polls
  BY ReportWords DEF KeptUp
<1>2. CASE /\ Held < Depth /\ Held' = Held + 1 /\ ~lost'
           /\ \A j \in 1 .. Held : queue'[j] = queue[j]
           /\ queue'[Held + 1].gap = lost
  <2>1. Drains'
    BY <1>1, <1>2, WholeNumbers DEF Drains, Polled
  <2>2. ASSUME NEW j \in 1 .. Held', queue'[j].gap
        PROVE  (j \in 1 .. Held /\ queue[j].gap) \/ (j = Held + 1 /\ lost)
    <3>1. j \in 1 .. Held \/ j = Held + 1
      BY <1>2, WholeNumbers
    <3> QED BY <1>2, <2>2, <3>1
  <2>3. ASSUME GapsBetween PROVE GapsBetween'
    <3>1. \A j \in 1 .. Held' : queue'[j].gap => Taken' + j \in {1, MAX + 1}
      <4> SUFFICES ASSUME NEW j \in 1 .. Held', queue'[j].gap
                   PROVE  Taken + j \in {1, MAX + 1}
        BY <1>1
      <4>1. CASE j \in 1 .. Held /\ queue[j].gap
        BY <2>3, <4>1 DEF GapsBetween
      <4>2. CASE j = Held + 1 /\ lost
        BY <1>2, <2>3, <4>2, WholeNumbers DEF GapsBetween
      <4> QED BY <2>2, <4>1, <4>2
    <3> QED BY <1>1, <1>2, <2>3, <3>1 DEF GapsBetween
  <2>4. ASSUME GapsLeft PROVE GapsLeft'
    <3>1. \A j \in 1 .. Held' : queue'[j].gap => Taken' + j <= MAX + 1
      <4> SUFFICES ASSUME NEW j \in 1 .. Held', queue'[j].gap
                   PROVE  Taken + j <= MAX + 1
        BY <1>1
      <4>1. CASE j \in 1 .. Held /\ queue[j].gap
        BY <2>4, <4>1 DEF GapsLeft
      <4>2. CASE j = Held + 1 /\ lost
        BY <1>2, <2>4, <4>2, WholeNumbers DEF GapsLeft
      <4> QED BY <2>2, <4>1, <4>2
    <3> QED BY <1>2, <3>1 DEF GapsLeft
  <2> QED BY <2>1, <2>3, <2>4
<1>3. CASE (Held = Depth \/ lag) /\ lost' /\ queue' = queue /\ Held' = Held
  <2>1. lag /\ Held # Depth => polls = Pace
    BY <1>3, WholeNumbers DEF KeptUp
  <2>2. Drains'
    BY <1>1, <1>3, <2>1, WholeNumbers DEF Drains, Polled
  <2>3. Taken + Held \in {0, MAX} \/ (Taken = MAX /\ Held = Depth)
    <3>1. CASE pc \in {"accept", "dead"}
      BY <1>3, <3>1, WholeNumbers DEF Drains
    <3>2. CASE pc = "fill"
      BY <1>1, <1>3, <2>1, <3>2, WholeNumbers DEF Drains
    <3>3. CASE pc \in {"send", "close"}
      BY <1>3, <2>1, <3>3, WholeNumbers DEF Drains
    <3> QED BY <3>1, <3>2, <3>3, WholeNumbers
  <2>4. ASSUME GapsBetween PROVE GapsBetween'
    BY <1>1, <1>3, <2>3, <2>4 DEF GapsBetween
  <2>5. ASSUME GapsLeft PROVE GapsLeft'
    <3>1. Taken + Held <= MAX \/ (Taken = MAX /\ Held = Depth)
      BY <2>3, WholeNumbers
    <3> QED BY <1>1, <1>3, <2>5, <3>1 DEF GapsLeft
  <2> QED BY <2>2, <2>4, <2>5
<1> QED BY <1>2, <1>3, ReportWords

\* A word taken from the FIFO keeps its place in the words.
LEMMA FillKeeps ==
  ASSUME MAX = Depth, Typed, Drains, Fill
  PROVE  /\ Drains'
         /\ GapsBetween => GapsBetween'
         /\ GapsLeft => GapsLeft'
<1>1. /\ lost' = lost /\ pc = "fill" /\ pc' \in {"fill", "send"}
      /\ Taken' = Taken + 1 /\ Held' = Held - 1 /\ Held > 0
      /\ \A k \in 1 .. Taken : package'[k] = package[k]
      /\ package'[Taken + 1] = queue[1]
      /\ \A j \in 1 .. Held - 1 : queue'[j] = queue[j + 1]
      /\ lag' <=> Held = Depth
      /\ polls' = IF polls = Pace THEN Pace ELSE polls + 1
  BY FillWords
<1>2. PICK d \in 0 .. 2 : Polled' = d /\ d <= Polled + 1
  BY <1>1, WholeNumbers DEF Polled
<1>3. Drains'
  <2>1. Held' + d <= Depth \/ (Taken' = 1 /\ Held' = Depth - 1)
    <3>1. CASE Taken = 0
      BY <1>1, <1>2, <3>1, WholeNumbers
    <3>2. CASE Taken >= 1
      BY <1>1, <1>2, <3>2, WholeNumbers DEF Drains
    <3>3. Taken = 0 \/ Taken >= 1
      BY WholeNumbers
    <3> QED BY <3>1, <3>2, <3>3, Zenon
  <2>2. lag' /\ polls' = Pace => Taken' = 1 /\ Held' >= Depth - 1
    <3>1. CASE Taken = 0
      BY <1>1, <3>1, WholeNumbers
    <3>2. CASE Taken >= 1
      BY <1>1, <3>2, WholeNumbers DEF Drains
    <3>3. Taken = 0 \/ Taken >= 1
      BY WholeNumbers
    <3> QED BY <3>1, <3>2, <3>3, Zenon
  <2>3. Taken' # 0 /\ Taken' >= 1
    BY <1>1, WholeNumbers
  <2> QED BY <1>2, <2>1, <2>2, <2>3 DEF Drains
<1>4. ASSUME NEW j \in 1 .. Held', queue'[j].gap
      PROVE  /\ j + 1 \in 1 .. Held /\ queue[j + 1].gap
             /\ Taken' + j = Taken + (j + 1)
  BY <1>1, <1>4, WholeNumbers
<1>5. Taken' + Held' = Taken + Held /\ Taken < MAX
  BY <1>1, WholeNumbers
<1>6. ASSUME GapsBetween PROVE GapsBetween'
  <2>1. \A k \in 2 .. Taken' : ~package'[k].gap
    <3> SUFFICES ASSUME NEW k \in 2 .. Taken + 1 PROVE ~package'[k].gap
      BY <1>1
    <3>1. CASE k \in 2 .. Taken
      BY <1>1, <1>6, <3>1, WholeNumbers DEF GapsBetween
    <3>2. CASE k = Taken + 1
      <4>1. Taken + 1 \notin {1, MAX + 1} /\ 1 \in 1 .. Held
        BY <1>1, <1>5, <3>2, WholeNumbers
      <4>2. ~queue[1].gap
        BY <1>6, <4>1 DEF GapsBetween
      <4> QED BY <1>1, <3>2, <4>2
    <3> QED BY <3>1, <3>2, WholeNumbers
  <2>2. \A j \in 1 .. Held' : queue'[j].gap => Taken' + j \in {1, MAX + 1}
    BY <1>4, <1>6 DEF GapsBetween
  <2>3. lost' => Taken' + Held' \in {0, MAX} \/ (Taken' = MAX /\ Held' = Depth)
    BY <1>1, <1>5, <1>6, WholeNumbers DEF GapsBetween
  <2> QED BY <2>1, <2>2, <2>3 DEF GapsBetween
<1>7. ASSUME GapsLeft PROVE GapsLeft'
  <2>1. \A j \in 1 .. Held' : queue'[j].gap => Taken' + j <= MAX + 1
    BY <1>4, <1>7 DEF GapsLeft
  <2>2. lost' => Taken' + Held' <= MAX
    BY <1>1, <1>5, <1>7, WholeNumbers DEF GapsLeft
  <2> QED BY <2>1, <2>2 DEF GapsLeft
<1> QED BY <1>3, <1>6, <1>7

LEMMA ClientKeeps ==
  ASSUME Typed, NEW c \in Clients, Set(c) \/ Connect(c) \/ NextRound(c) \/ Leave(c)
  PROVE  /\ Rested => Rested'
         /\ Drains => Drains'
         /\ GapsBetween => GapsBetween'
         /\ GapsLeft => GapsLeft'
<1>1. /\ UNCHANGED <<lost, lag, polls, pc>> /\ Taken' = Taken /\ Held' = Held
      /\ \A k \in 1 .. Taken : package'[k].gap = package[k].gap
      /\ \A j \in 1 .. Held : queue'[j].gap = queue[j].gap
  BY ClientWords
<1>2. (Rested => Rested') /\ (Drains => Drains')
  BY <1>1 DEF Rested, Drains, Polled
<1>3. GapsBetween => GapsBetween'
  BY <1>1, WholeNumbers DEF GapsBetween
<1>4. GapsLeft => GapsLeft'
  BY <1>1 DEF GapsLeft
<1> QED BY <1>2, <1>3, <1>4

\* Nothing but the server's place changes, or nothing at all.
LEMMA StillKeeps ==
  ASSUME UNCHANGED <<queue, package, lost, polls, lag>>
  PROVE  /\ GapsBetween => GapsBetween'
         /\ GapsLeft => GapsLeft'
         /\ pc' # "fill" \/ pc' = pc => (Drains => Drains')
<1>1. Taken' = Taken /\ Held' = Held
  BY DEF Taken, Held
<1>2. GapsBetween => GapsBetween'
  BY <1>1 DEF GapsBetween
<1>3. GapsLeft => GapsLeft'
  BY <1>1 DEF GapsLeft
<1>4. pc' # "fill" \/ pc' = pc => (Drains => Drains')
  BY <1>1 DEF Drains, Polled
<1> QED BY <1>2, <1>3, <1>4

\* A package that begins with the server rested finds no more gaps than the
\* FIFO has words.
LEMMA BeginKeeps ==
  ASSUME MAX = Depth, Typed, Rested, pc = "accept", Taken' = 0, Held' = Held,
         UNCHANGED <<lost, polls, lag>>
  PROVE  Drains' /\ GapsLeft'
<1>1. polls' = Pace /\ ~lag'
  BY DEF Rested
<1>2. Drains'
  BY <1>1, SessionAssumption DEF Drains
<1>3. \A j \in 1 .. Held' : Taken' + j <= MAX + 1
  BY Numbers
<1>4. Taken' + Held' <= MAX
  BY Numbers
<1> QED BY <1>2, <1>3, <1>4 DEF GapsLeft

\* A package goes: a gap left at its very end is in front of the next.
LEMMA ClearKeeps ==
  ASSUME MAX = Depth, Typed, Taken = MAX, Taken' = 0, Held' = Held,
         queue' = queue, lost' = lost, polls' = Pace, ~lag'
  PROVE  /\ Rested' /\ Drains'
         /\ GapsLeft => GapsBetween'
<1>1. Rested' /\ Drains'
  <2>1. Taken' >= 1 <=> FALSE
    OBVIOUS
  <2> QED BY <2>1 DEF Rested, Drains
<1>2. ASSUME GapsLeft PROVE GapsBetween'
  <2>1. \A j \in 1 .. Held' : queue'[j].gap => Taken' + j \in {1, MAX + 1}
    BY <1>2, Numbers DEF GapsLeft
  <2>2. lost' => Taken' + Held' \in {0, MAX}
    BY <1>2, Numbers DEF GapsLeft
  <2>3. \A k \in 2 .. Taken' : ~package'[k].gap
    OBVIOUS
  <2> QED BY <2>1, <2>2, <2>3 DEF GapsBetween
<1> QED BY <1>1, <1>2

LEMMA NextWhole ==
  ASSUME MAX = Depth, Whole, [SessionNext]_sessionVars
  PROVE  Whole'
<1>1. Typed /\ Rested /\ Typed' /\ slow \in 0 .. 2 /\ slow' \in 0 .. 2
  BY NextTyped DEF Whole, Typed, Shapes
<1>2. CASE Report
  <2>1. /\ UNCHANGED <<lag, pc>>
        /\ polls' = IF pc = "fill" THEN 0 ELSE polls
        /\ slow' = 2 \/ (slow' = slow /\ KeptUp)
    BY <1>1, <1>2, ReportWords
  <2>2. Rested'
    BY <1>1, <2>1 DEF Rested
  <2>3. CASE slow' = 2
    BY <1>1, <2>2, <2>3 DEF Whole
  <2>4. CASE slow' = slow /\ KeptUp
    <3>1. slow < 2 => /\ Drains'
                      /\ GapsBetween => GapsBetween'
                      /\ GapsLeft => GapsLeft'
      BY <1>1, <1>2, <2>4, ReportKeeps DEF Whole
    <3> QED BY <1>1, <2>1, <2>2, <2>4, <3>1 DEF Whole, Healed
  <2> QED BY <2>1, <2>3, <2>4
<1>3. ASSUME NEW c \in Clients, Set(c) \/ Connect(c) \/ NextRound(c) \/ Leave(c)
      PROVE  Whole'
  <2>1. pc' = pc /\ slow' = slow
    BY <1>1, <1>3, ClientWords
  <2>2. /\ Rested => Rested'
        /\ Drains => Drains'
        /\ GapsBetween => GapsBetween'
        /\ GapsLeft => GapsLeft'
    BY <1>1, <1>3, ClientKeeps
  <2> QED BY <1>1, <2>1, <2>2 DEF Whole, Healed
<1>4. CASE Fill
  <2>1. slow' = slow /\ pc' \in {"fill", "send"}
    BY <1>1, <1>4, FillWords
  <2>2. slow < 2 => /\ Drains'
                    /\ GapsBetween => GapsBetween'
                    /\ GapsLeft => GapsLeft'
    BY <1>1, <1>4, FillKeeps DEF Whole
  <2>3. Rested' /\ Healed'
    BY <2>1 DEF Rested, Healed
  <2> QED BY <1>1, <2>1, <2>2, <2>3 DEF Whole
<1>5. CASE Accept \/ Send \/ Sigpipe \/ Close \/ Restart
  <2>1. UNCHANGED <<queue, lost>> /\ Held' = Held
    BY <1>1, <1>5, OtherWords
  <2>2. CASE /\ Taken = MAX /\ Taken' = 0 /\ polls' = Pace /\ ~lag'
             /\ slow' = slow
    <3>1. /\ Rested' /\ Drains'
          /\ GapsLeft => GapsBetween'
      BY <1>1, <2>1, <2>2, ClearKeeps
    <3>2. GapsBetween => GapsLeft
      BY <1>1, BetweenIsLeft
    <3>3. GapsBetween' => GapsLeft'
      BY <1>1, BetweenIsLeft, PTL
    <3> QED BY <1>1, <2>2, <3>1, <3>2, <3>3 DEF Whole, Healed
  <2>3. CASE /\ UNCHANGED <<package, polls, lag>> /\ Taken' = Taken
             /\ pc = "accept" /\ pc' = "fill" /\ Taken = 0
             /\ slow' = IF slow = 0 THEN 0 ELSE slow - 1
    <3>1. Drains' /\ GapsLeft'
      BY <1>1, <2>1, <2>3, BeginKeeps
    <3>2. GapsBetween => GapsBetween'
      BY <2>1, <2>3, StillKeeps
    <3>3. slow' = 0 => GapsBetween
      BY <1>1, <2>3 DEF Whole, Healed
    <3>4. Rested' /\ Healed'
      BY <2>3 DEF Rested, Healed
    <3> QED BY <1>1, <3>1, <3>2, <3>3, <3>4 DEF Whole
  <2>4. CASE /\ UNCHANGED <<package, polls, lag>>
             /\ \/ pc = "send" /\ pc' = "close" /\ slow' = slow
                \/ pc = "dead" /\ pc' = "accept" /\ slow' = slow
    <3>1. /\ GapsBetween => GapsBetween'
          /\ GapsLeft => GapsLeft'
          /\ Drains => Drains'
      BY <2>1, <2>4, StillKeeps
    <3>2. Rested'
      BY <1>1, <2>4 DEF Rested
    <3> QED BY <1>1, <2>4, <3>1, <3>2 DEF Whole, Healed
  <2> QED BY <1>1, <1>5, <2>2, <2>3, <2>4, OtherWords
<1>6. CASE UNCHANGED sessionVars
  <2>1. UNCHANGED <<queue, lost, lag, polls, pc, package, slow>>
    BY <1>6 DEF sessionVars, fifo, server
  <2>2. /\ GapsBetween => GapsBetween'
        /\ GapsLeft => GapsLeft'
        /\ Drains => Drains'
    BY <2>1, StillKeeps
  <2> QED BY <1>1, <2>1, <2>2 DEF Whole, Healed, Rested
<1> QED BY <1>2, <1>3, <1>4, <1>5, <1>6, Zenon DEF SessionNext, ServerStep

\* A package as long as the FIFO is deep has no gap inside if the server kept
\* up, that is polled the FIFO Pace times in every window, while it and the
\* package before it were filled: whatever the depth, however many clients
\* there are and whatever the server missed earlier (main.c:79, ghrd.v:191).
THEOREM PackagesWithoutGaps ==
  ASSUME MAX = Depth
  PROVE  SessionSpec => []PackageContiguous
<1>1. SessionInit => Whole
  BY InitWhole
<1>2. Whole /\ [SessionNext]_sessionVars => Whole'
  BY NextWhole
<1>3. Whole => PackageContiguous
  BY DEF Whole, GapsBetween, PackageContiguous, Taken
<1> QED BY <1>1, <1>2, <1>3, PTL DEF SessionSpec

-----------------------------------------------------------------------------
(* Packages at least as long as the FIFO is deep. *)

\* While the first package is taken the old samples fit into it but for the
\* last of them; once it is gone, they are nowhere but in front.
Renewed ==
  /\ nth = 1 /\ pc \in {"fill", "send", "close"} =>
       /\ \A j \in 1 .. Held : queue[j].old => Taken + j <= MAX + 1
       /\ began => Taken + Held <= MAX
  /\ nth = 2 \/ (nth = 1 /\ pc \in {"accept", "dead"}) =>
       /\ \A k \in 2 .. Taken : ~package[k].old
       /\ \A j \in 1 .. Held : queue[j].old => Taken + j <= 1
       /\ began => Taken + Held = 0

LEMMA NextRenewed ==
  ASSUME Depth <= MAX, Typed, Renewed, [SessionNext]_sessionVars
  PROVE  Renewed'
<1>1. /\ Taken \in 0 .. MAX /\ Held \in 0 .. Depth
      /\ MAX \in Nat \ {0} /\ Depth \in Nat \ {0}
      /\ nth \in 0 .. 2 /\ began \in BOOLEAN
      /\ pc \in {"accept", "fill", "send", "close", "dead"}
  BY Numbers DEF Typed, Shapes
<1>2. /\ pc \in {"accept", "dead"} => Taken = 0
      /\ pc = "fill" => Taken < MAX
      /\ pc \in {"send", "close"} => Taken = MAX
  BY DEF Typed, Lengths, Taken
<1>3. CASE Report
  <2>1. /\ UNCHANGED <<pc, package, nth>> /\ Taken' = Taken /\ ~began'
    BY <1>3, ReportWords
  <2>2. CASE /\ Held' = Held + 1
             /\ \A j \in 1 .. Held : queue'[j] = queue[j]
             /\ queue'[Held + 1].old = began
    <3>1. ASSUME NEW j \in 1 .. Held', queue'[j].old
          PROVE  (j \in 1 .. Held /\ queue[j].old) \/ (j = Held + 1 /\ began)
      <4>1. CASE j \in 1 .. Held
        BY <2>2, <3>1, <4>1
      <4>2. CASE j = Held + 1
        BY <2>2, <3>1, <4>2
      <4> QED BY <1>1, <2>2, <4>1, <4>2
    <3>2. ASSUME nth = 1, pc \in {"fill", "send", "close"}
          PROVE  \A j \in 1 .. Held' : queue'[j].old => Taken + j <= MAX + 1
      <4> TAKE j \in 1 .. Held'
      <4> HAVE queue'[j].old
      <4> QED BY <1>1, <3>1, <3>2 DEF Renewed
    <3>3. ASSUME nth = 2 \/ (nth = 1 /\ pc \in {"accept", "dead"})
          PROVE  \A j \in 1 .. Held' : queue'[j].old => Taken + j <= 1
      <4> TAKE j \in 1 .. Held'
      <4> HAVE queue'[j].old
      <4> QED BY <1>1, <3>1, <3>3 DEF Renewed
    <3> QED BY <2>1, <3>2, <3>3 DEF Renewed
  <2>3. CASE queue' = queue /\ Held' = Held
    BY <2>1, <2>3 DEF Renewed
  <2> QED BY <1>3, <2>2, <2>3, ReportWords
<1>4. ASSUME NEW c \in Clients, Set(c) \/ Connect(c) \/ NextRound(c) \/ Leave(c)
      PROVE  Renewed'
  <2>1. /\ pc' = pc /\ Taken' = Taken /\ Held' = Held
        /\ nth' = 0 \/ UNCHANGED <<queue, package, began, nth>>
    BY <1>4, ClientWords
  <2> QED BY <2>1 DEF Renewed
<1>5. CASE Fill
  <2>1. /\ UNCHANGED <<began, nth>> /\ pc = "fill" /\ pc' \in {"fill", "send"}
        /\ Taken' = Taken + 1 /\ Held' = Held - 1 /\ Held > 0
        /\ \A k \in 1 .. Taken : package'[k] = package[k]
        /\ package'[Taken + 1] = queue[1]
        /\ \A j \in 1 .. Held - 1 : queue'[j] = queue[j + 1]
    BY <1>5, FillWords
  <2>2. ASSUME NEW j \in 1 .. Held', queue'[j].old
        PROVE  j + 1 \in 1 .. Held /\ queue[j + 1].old /\ Taken' + j = Taken + (j + 1)
    BY <1>1, <2>1, <2>2
  <2>3. Taken' + Held' = Taken + Held
    BY <1>1, <2>1
  <2>4. CASE nth = 1
    <3>1. \A j \in 1 .. Held' : queue'[j].old => Taken' + j <= MAX + 1
      BY <2>1, <2>2, <2>4 DEF Renewed
    <3>2. began => Taken' + Held' <= MAX
      BY <2>1, <2>3, <2>4 DEF Renewed
    <3> QED BY <2>1, <2>4, <3>1, <3>2 DEF Renewed
  <2>5. CASE nth = 2
    <3>1. \A j \in 1 .. Held' : queue'[j].old => Taken' + j <= 1
      BY <2>1, <2>2, <2>5 DEF Renewed
    <3>2. began => Taken' + Held' = 0
      BY <2>1, <2>3, <2>5 DEF Renewed
    <3>3. \A k \in 2 .. Taken' : ~package'[k].old
      <4> SUFFICES ASSUME NEW k \in 2 .. Taken + 1 PROVE ~package'[k].old
        BY <2>1
      <4>1. CASE k \in 2 .. Taken
        BY <1>1, <2>1, <2>5, <4>1 DEF Renewed
      <4>2. CASE k = Taken + 1
        <5>1. ~(Taken + 1 <= 1) /\ 1 \in 1 .. Held
          BY <1>1, <2>1, <4>2
        <5>2. ~queue[1].old
          BY <2>5, <5>1 DEF Renewed
        <5> QED BY <2>1, <4>2, <5>2
      <4> QED BY <1>1, <4>1, <4>2
    <3> QED BY <2>1, <2>5, <3>1, <3>2, <3>3 DEF Renewed
  <2>6. CASE nth = 0
    BY <2>1, <2>6 DEF Renewed
  <2> QED BY <1>1, <2>4, <2>5, <2>6
<1>6. CASE Accept \/ Send \/ Sigpipe \/ Close \/ Restart
  <2>1. UNCHANGED <<queue, began>> /\ Held' = Held
    BY <1>6, OtherWords
  <2>2. CASE /\ pc \in {"send", "close"} /\ pc' \in {"accept", "dead"}
             /\ Taken = MAX /\ Taken' = 0 /\ nth' = nth
    <3>1. ASSUME nth \in {1, 2}
          PROVE  /\ \A j \in 1 .. Held : queue[j].old => j <= 1
                 /\ began => Held = 0
      BY <1>1, <2>2, <3>1 DEF Renewed
    <3>2. \A k \in 2 .. Taken' : ~package'[k].old
      BY <2>2
    <3>3. nth' \in {1, 2} => /\ \A j \in 1 .. Held' : queue'[j].old => Taken' + j <= 1
                             /\ began' => Taken' + Held' = 0
      BY <1>1, <2>1, <2>2, <3>1
    <3> QED BY <2>2, <3>2, <3>3 DEF Renewed
  <2>3. CASE /\ package' = package /\ Taken' = Taken /\ nth' = nth
             /\ \/ pc = "send" /\ pc' = "close"
                \/ pc = "dead" /\ pc' = "accept"
    BY <2>1, <2>3 DEF Renewed
  <2>4. CASE /\ package' = package /\ Taken' = Taken
             /\ pc = "accept" /\ pc' = "fill" /\ Taken = 0
             /\ nth' = IF nth = 2 THEN 2 ELSE nth + 1
    <3>1. CASE nth = 0
      <4>1. nth' = 1
        BY <2>4, <3>1
      <4>2. \A j \in 1 .. Held' : Taken' + j <= MAX + 1
        BY <1>1, <2>1, <2>4
      <4>3. Taken' + Held' <= MAX
        BY <1>1, <2>1, <2>4
      <4> QED BY <2>4, <4>1, <4>2, <4>3 DEF Renewed
    <3>2. CASE nth \in {1, 2}
      <4>1. nth' = 2
        BY <2>4, <3>2
      <4>2. /\ \A k \in 2 .. Taken : ~package[k].old
            /\ \A j \in 1 .. Held : queue[j].old => Taken + j <= 1
            /\ began => Taken + Held = 0
        BY <2>4, <3>2 DEF Renewed
      <4> QED BY <2>1, <2>4, <4>1, <4>2 DEF Renewed
    <3> QED BY <1>1, <3>1, <3>2
  <2> QED BY <1>6, <2>2, <2>3, <2>4, OtherWords
<1>7. CASE UNCHANGED sessionVars
  <2>1. UNCHANGED <<queue, began, pc, package, nth>>
    BY <1>7 DEF sessionVars, fifo, server
  <2> QED BY <2>1 DEF Renewed, Taken, Held
<1> QED BY <1>3, <1>4, <1>5, <1>6, <1>7, Zenon DEF SessionNext, ServerStep

\* If a package is at least as long as the FIFO is deep, the second one after
\* settings has no sample of the old ones but for a first window they were
\* replaced in (main.c:79, ghrd.v:191, Pulse_cnt.v:38-45).
THEOREM SecondPackagesAreFresh ==
  ASSUME Depth <= MAX
  PROVE  SessionSpec => []SecondPackageIsFresh
<1>1. SessionInit => Typed /\ Renewed
  <2>1. SessionInit => nth = 0
    BY DEF SessionInit
  <2> QED BY <2>1, InitTyped DEF Renewed
<1>2. Typed /\ Renewed /\ [SessionNext]_sessionVars => (Typed /\ Renewed)'
  BY NextTyped, NextRenewed
<1>3. Typed /\ Renewed => SecondPackageIsFresh
  BY DEF Renewed, SecondPackageIsFresh, Taken
<1> QED BY <1>1, <1>2, <1>3, PTL DEF SessionSpec
=============================================================================
