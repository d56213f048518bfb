-------------------------- MODULE Calibration_proofs --------------------------
(* What the calibration does for any board, any number of groups and bits  *)
(* and delay chains of any length: what is told and when, what the centring *)
(* of the writes starts from, that every delay is one the chains have, that *)
(* success means bits that read and write, where the strobe, the bits and   *)
(* the mask end up.                                                        *)
EXTENDS Calibration, SequencerLoops_proofs

-----------------------------------------------------------------------------
(* The outcome. *)

\* A failure on its way to the preloader has its stage, the memory is back
\* with the controller before the outcome is told, and nothing follows that.
InOrder ==
  /\ status # "reset" => pc = "done"
  /\ pc \in {"tell", "done"} => mux = 2 /\ ctrlcfg = "configured"
  /\ pc \in {"hand over", "tell", "done"} => passed = TRUE \/ error.stage # "nil"
  /\ status = "fail" => passed # TRUE

\* The stage of a failure is kept or set.
LEMMA FailedHasStage ==
  ASSUME NEW g, NEW stage, stage # "nil", NEW substage, Failed(g, stage, substage)
  PROVE  error'.stage # "nil"
<1>1. CASE error.stage = "nil"
  BY <1>1, Zenon DEF Failed
<1>2. CASE error.stage # "nil"
  BY <1>2, Zenon DEF Failed
<1> QED BY <1>1, <1>2

LEMMA InitInOrder == CalInit => InOrder
<1> SUFFICES ASSUME CalInit PROVE InOrder
  OBVIOUS
<1>1. pc = "start" /\ status = "reset"
  BY DEF CalInit
<1> QED BY <1>1 DEF InOrder

\* Steps after which the calibration goes on.
LEMMA GoingOn ==
  ASSUME InOrder, pc \notin {"hand over", "tell", "done"}, status' = status,
         pc' \notin {"hand over", "tell", "done"}
  PROVE  InOrder'
<1>1. status = "reset"
  BY DEF InOrder
<1> QED BY <1>1 DEF InOrder

\* Steps that end it.
LEMMA Ending ==
  ASSUME InOrder, pc \notin {"hand over", "tell", "done"}, status' = status,
         pc' = "hand over", passed' = TRUE \/ error'.stage # "nil"
  PROVE  InOrder'
<1>1. status = "reset"
  BY DEF InOrder
<1> QED BY <1>1 DEF InOrder

LEMMA NextInOrder ==
  ASSUME InOrder, [CalNext]_calVars
  PROVE  InOrder'
<1>1. CASE Start
  <2>1. pc = "start" /\ pc' = "group" /\ status' = "reset"
    BY <1>1 DEF Start
  <2> QED BY <2>1 DEF InOrder
<1>2. CASE ZeroGroup \/ CallGate \/ SearchStep \/ GateFound
  <2>1. /\ pc \in {"group", "gate", "search"} /\ status' = status
        /\ pc' \in {"pattern", "search", "centre"}
    BY <1>2 DEF ZeroGroup, CallGate, SearchStep, GateFound, report
  <2> QED BY <2>1, GoingOn
<1>3. CASE LoadPattern
  <2>1. /\ pc = "pattern" /\ status' = status
        /\ pc' \in {"gate", "pattern", "vfifo failed"}
    BY <1>3 DEF LoadPattern, NextOutDelay, report
  <2> QED BY <2>1, GoingOn
<1>4. CASE GateLost
  <2>1. /\ pc = "search" /\ status' = status
        /\ pc' \in {"gate", "pattern", "vfifo failed"}
    BY <1>4 DEF GateLost, NextInDelay, NextOutDelay, report
  <2> QED BY <2>1, GoingOn
<1>5. CASE CentreRead
  <2>1. /\ pc = "centre" /\ status' = status
        /\ pc' \in {"gate", "pattern", "vfifo failed", "writes"}
    BY <1>5, Zenon DEF CentreRead, NextInDelay, NextOutDelay
  <2> QED BY <2>1, GoingOn
<1>6. CASE VfifoFailed
  <2>1. pc = "vfifo failed" /\ pc' = "hand over" /\ status' = status
    BY <1>6 DEF VfifoFailed
  <2>2. error'.stage # "nil"
    BY <1>6, FailedHasStage DEF VfifoFailed
  <2> QED BY <2>1, <2>2, Ending
<1>7. CASE CentreWrites
  <2>1. pc = "writes" /\ status' = status
    BY <1>7, Zenon DEF CentreWrites
  <2>2. \/ pc' = "read again"
        \/ pc' = "hand over" /\ \E g : Failed(g, "writes", "writes centre")
    BY <1>7, Zenon DEF CentreWrites
  <2>3. CASE pc' = "read again"
    BY <2>1, <2>3, GoingOn
  <2>4. CASE pc' = "hand over" /\ error'.stage # "nil"
    BY <2>1, <2>4, Ending
  <2> QED BY <2>2, <2>3, <2>4, FailedHasStage
<1>8. CASE CentreAfterWrites
  <2>1. pc = "read again" /\ status' = status
    BY <1>8, Zenon DEF CentreAfterWrites
  <2>2. \/ pc' \in {"group", "latency"}
        \/ /\ pc' = "hand over"
           /\ \E g, substage : Failed(g, "vfifo after writes", substage)
    BY <1>8, Zenon DEF CentreAfterWrites, ReadEdgeMissing
  <2>3. CASE pc' \in {"group", "latency"}
    BY <2>1, <2>3, GoingOn
  <2>4. CASE pc' = "hand over" /\ error'.stage # "nil"
    BY <2>1, <2>4, Ending
  <2> QED BY <2>2, <2>3, <2>4, FailedHasStage
<1>9. CASE CentreLatency
  <2>1. pc = "latency" /\ pc' = "hand over" /\ status' = status
    BY <1>9 DEF CentreLatency
  <2>2. passed' = TRUE \/ Failed(255, "lfifo", "read latency")
    BY <1>9, Zenon DEF CentreLatency
  <2>3. passed' = TRUE \/ error'.stage # "nil"
    BY <2>2, FailedHasStage
  <2> QED BY <2>1, <2>3, Ending
<1>10. CASE HandOver
  BY <1>10 DEF HandOver, InOrder
<1>11. CASE Tell
  BY <1>11 DEF Tell, InOrder
<1>12. CASE UNCHANGED calVars
  BY <1>12 DEF calVars, report, InOrder
<1> QED
  BY <1>1, <1>2, <1>3, <1>4, <1>5, <1>6, <1>7, <1>8, <1>9, <1>10, <1>11, <1>12,
     Zenon DEF CalNext

\* Whatever the board, the outcome is told after the memory has been handed
\* back, and a failure with its stage (sequencer.c:9520-9580, 591-611).
THEOREM OutcomeTold ==
  CalInit /\ [][CalNext]_calVars => []ToldAfterHandOver
<1>1. InOrder => ToldAfterHandOver
  <2> SUFFICES ASSUME InOrder, status \in {"success", "fail"}
               PROVE  /\ mux = 2 /\ ctrlcfg = "configured"
                      /\ status = "fail" => error.stage # "nil"
    BY Zenon DEF ToldAfterHandOver
  <2>1. pc = "done"
    BY DEF InOrder
  <2> QED BY <2>1 DEF InOrder
<1>2. InOrder /\ [CalNext]_calVars => InOrder'
  BY NextInOrder
<1> QED BY <1>1, <1>2, InitInOrder, PTL

-----------------------------------------------------------------------------
(* The output delays. *)

AtReserve == dqs_out[group] = OutReserve /\ oct_out[group] = OutReserve
AtZero == dq_out[group] = AtTap(0) /\ dm_out[group] = 0

OutputDomains ==
  /\ DOMAIN dqs_out = Groups /\ DOMAIN oct_out = Groups
  /\ DOMAIN dq_out = Groups /\ DOMAIN dm_out = Groups

\* As long as no delay has been tried the strobe is at its reserve; the bits
\* and the mask are at 0 until the writes are centred.
Prepared ==
  /\ group \in Groups /\ out_d \in Nat /\ OutputDomains
  /\ pc \in {"pattern", "gate", "search", "centre"} => AtZero /\ (out_d = 0 => AtReserve)
  /\ pc = "writes" => AtZero /\ AtReserve

LEMMA ZeroedOutputs ==
  ASSUME group \in Groups, OutputDomains, ZeroOutputs, group' = group
  PROVE  OutputDomains' /\ AtZero' /\ AtReserve'
  BY DEF OutputDomains, ZeroOutputs, AtZero, AtReserve, AtTap

LEMMA SameOutputs ==
  ASSUME UNCHANGED <<group, dqs_out, oct_out, dq_out, dm_out>>
  PROVE  OutputDomains' = OutputDomains /\ AtZero' = AtZero /\ AtReserve' = AtReserve
  BY DEF OutputDomains, AtZero, AtReserve, AtTap

LEMMA InitPrepared == CalInit => Prepared
<1> SUFFICES ASSUME CalInit PROVE Prepared
  OBVIOUS
<1>1. pc = "start" /\ group = 0 /\ out_d = 0
  BY DEF CalInit
<1>2. OutputDomains
  BY DEF CalInit, OutputDomains
<1>3. 0 \in Groups
  BY CalibrationAssumption DEF Groups
<1> QED BY <1>1, <1>2, <1>3 DEF Prepared

\* The loops over the delays of the strobe and of the outputs go on.
LEMMA Retrying ==
  ASSUME Prepared, pc \in {"search", "centre"}, NextInDelay,
         UNCHANGED <<group, dqs_out, oct_out, dq_out, dm_out>>
  PROVE  Prepared'
<1>1. \/ pc' = "gate" /\ out_d' = out_d
      \/ pc' \in {"pattern", "vfifo failed"} /\ out_d' = out_d + 2
  BY DEF NextInDelay, NextOutDelay
<1>2. OutputDomains' = OutputDomains /\ AtZero' = AtZero /\ AtReserve' = AtReserve
  BY SameOutputs
<1>3. group' \in Groups /\ out_d \in Nat /\ OutputDomains' /\ AtZero' /\ (out_d = 0 => AtReserve')
  BY <1>2 DEF Prepared
<1>4. out_d \in Nat /\ (out_d' = out_d \/ out_d' = out_d + 2)
  BY <1>1, <1>3, Zenon
<1>5. out_d' \in Nat /\ (out_d' = 0 => out_d = 0)
  BY <1>4
<1> QED BY <1>1, <1>3, <1>5 DEF Prepared

LEMMA NextPrepared ==
  ASSUME Prepared, [CalNext]_calVars
  PROVE  Prepared'
<1>0. group \in Groups /\ out_d \in Nat /\ OutputDomains
  BY DEF Prepared
<1>1. CASE Start
  <2>1. /\ pc' = "group" /\ group' = 0 /\ out_d' = out_d
        /\ UNCHANGED <<dqs_out, dq_out, dm_out>>
        /\ oct_out' = [g \in Groups |-> OutReserve]
    BY <1>1 DEF Start
  <2>2. 0 \in Groups
    BY CalibrationAssumption DEF Groups
  <2> QED BY <1>0, <2>1, <2>2 DEF Prepared, OutputDomains
<1>2. CASE ZeroGroup
  <2>1. ZeroOutputs /\ pc' = "pattern" /\ group' = group /\ out_d' = 0
    BY <1>2 DEF ZeroGroup
  <2> QED BY <1>0, <2>1, ZeroedOutputs DEF Prepared
<1>3. CASE LoadPattern
  <2>1. /\ pc = "pattern" /\ group' = group /\ UNCHANGED <<dq_out, dm_out>>
        /\ \/ pc' = "gate" /\ out_d' = out_d
           \/ pc' \in {"pattern", "vfifo failed"} /\ out_d' = out_d + 2
    BY <1>3 DEF LoadPattern, NextOutDelay
  <2>2. \/ /\ out_d > 0
           /\ dqs_out' = [dqs_out EXCEPT ![group] = out_d]
           /\ oct_out' = [oct_out EXCEPT ![group] = out_d]
        \/ ~(out_d > 0) /\ UNCHANGED <<dqs_out, oct_out>>
    BY <1>3 DEF LoadPattern
  <2>3. OutputDomains' /\ AtZero'
    BY <1>0, <2>1, <2>2 DEF Prepared, OutputDomains, AtZero, AtTap
  <2>4. out_d' \in Nat /\ (out_d' = 0 => ~(out_d > 0))
    <3>1. out_d' = out_d \/ out_d' = out_d + 2
      BY <2>1, Zenon
    <3>2. out_d \in Nat
      BY <1>0, Zenon
    <3> QED BY <3>1, <3>2
  <2>5. out_d' = 0 => AtReserve'
    <3> SUFFICES ASSUME out_d' = 0 PROVE AtReserve'
      OBVIOUS
    <3>1. out_d = 0 /\ UNCHANGED <<dqs_out, oct_out>>
      BY <1>0, <2>2, <2>4
    <3> QED BY <2>1, <3>1 DEF Prepared, AtReserve
  <2> QED BY <1>0, <2>1, <2>3, <2>4, <2>5 DEF Prepared
<1>4. CASE CallGate \/ SearchStep \/ GateFound
  <2>1. /\ pc \in {"gate", "search"} /\ pc' \in {"search", "centre"} /\ out_d' = out_d
        /\ UNCHANGED <<group, dqs_out, oct_out, dq_out, dm_out>>
    BY <1>4 DEF CallGate, SearchStep, GateFound, locals, delays
  <2> QED BY <1>0, <2>1, SameOutputs DEF Prepared
<1>5. CASE GateLost
  <2>1. /\ pc = "search" /\ NextInDelay
        /\ UNCHANGED <<group, dqs_out, oct_out, dq_out, dm_out>>
    BY <1>5, Zenon DEF GateLost
  <2> QED BY <2>1, Retrying
<1>6. CASE CentreRead
  <2>1. pc = "centre" /\ group' = group
    BY <1>6, Zenon DEF CentreRead
  <2>2. CASE NextInDelay /\ UNCHANGED <<dqs_out, oct_out, dq_out, dm_out>>
    BY <2>1, <2>2, Retrying
  <2>3. CASE /\ pc' = "writes" /\ out_d' = out_d + 2
             /\ IF out_d' > 2 THEN ZeroOutputs
                ELSE UNCHANGED <<dqs_out, oct_out, dq_out, dm_out>>
    <3>1. out_d' \in Nat
      BY <1>0, <2>3
    <3>2. CASE out_d' > 2
      BY <1>0, <2>1, <2>3, <3>1, <3>2, ZeroedOutputs DEF Prepared
    <3>3. CASE ~(out_d' > 2)
      <4>1. out_d = 0
        BY <1>0, <2>3, <3>3
      <4>2. AtZero' /\ AtReserve' /\ OutputDomains'
        BY <2>1, <2>3, <3>3, <4>1, SameOutputs DEF Prepared
      <4> QED BY <1>0, <2>1, <2>3, <3>1, <4>2 DEF Prepared
    <3> QED BY <3>2, <3>3
  <2> QED BY <1>6, <2>2, <2>3, Zenon DEF CentreRead
<1>7. CASE CentreWrites
  <2>1. UNCHANGED <<group, out_d>>
    BY <1>7, Zenon DEF CentreWrites, locals
  <2>2. pc' \in {"hand over", "read again"}
    BY <1>7, Zenon DEF CentreWrites
  <2>3. /\ \/ UNCHANGED dqs_out
           \/ \E e : dqs_out' = [dqs_out EXCEPT ![group] = e]
        /\ \E e : oct_out' = [oct_out EXCEPT ![group] = e]
        /\ \E e : dq_out' = [dq_out EXCEPT ![group] = e]
        /\ \/ UNCHANGED dm_out
           \/ \E e : dm_out' = [dm_out EXCEPT ![group] = e]
    BY <1>7, Zenon DEF CentreWrites
  <2>4. OutputDomains'
    BY <1>0, <2>3 DEF OutputDomains
  <2> QED BY <1>0, <2>1, <2>2, <2>4 DEF Prepared
<1>8. CASE CentreAfterWrites
  <2>1. /\ out_d' = out_d /\ UNCHANGED <<dqs_out, oct_out, dq_out, dm_out>>
        /\ pc' \in {"hand over", "group", "latency"}
        /\ group' = group \/ (group + 1 < GroupCount /\ group' = group + 1)
    BY <1>8, Zenon DEF CentreAfterWrites
  <2>2. group' \in Groups
    <3>1. GroupCount \in Nat /\ group \in Groups
      BY <1>0, CalibrationAssumption, Zenon
    <3>2. group' = group \/ (group + 1 < GroupCount /\ group' = group + 1)
      BY <2>1, Zenon
    <3> QED BY <3>1, <3>2 DEF Groups
  <2>3. OutputDomains'
    BY <1>0, <2>1 DEF OutputDomains
  <2> QED BY <1>0, <2>1, <2>2, <2>3 DEF Prepared
<1>9. CASE VfifoFailed \/ CentreLatency \/ HandOver \/ Tell
  <2>1. /\ UNCHANGED <<group, out_d, dqs_out, oct_out, dq_out, dm_out>>
        /\ pc' \in {"hand over", "tell", "done"}
    BY <1>9 DEF VfifoFailed, CentreLatency, HandOver, Tell, locals, delays
  <2> QED BY <1>0, <2>1, SameOutputs DEF Prepared
<1>10. CASE UNCHANGED calVars
  <2>1. UNCHANGED <<pc, group, out_d, dqs_out, oct_out, dq_out, dm_out>>
    BY <1>10 DEF calVars, locals, delays
  <2> QED BY <2>1, SameOutputs DEF Prepared
<1> QED
  BY <1>1, <1>2, <1>3, <1>4, <1>5, <1>6, <1>7, <1>8, <1>9, <1>10, Zenon DEF CalNext

\* The centring of the writes starts from the reserve, whatever delays were
\* tried before and whatever board made them necessary (sequencer.c:5999-6004).
THEOREM WritesPrepared ==
  CalInit /\ [][CalNext]_calVars => []WritesStartAtReserve
<1>1. Prepared => WritesStartAtReserve
  BY DEF Prepared, AtZero, AtReserve, WritesStartAtReserve
<1>2. Prepared /\ [CalNext]_calVars => Prepared'
  BY NextPrepared
<1> QED BY <1>1, <1>2, InitPrepared, PTL

-----------------------------------------------------------------------------
(* The sweeps of one group, for reads and writes alike. *)

\* The bits whose distance from the strobe lies in their eye.
Right(eyes, s, dq) == {b \in Bits : s - dq[b] \in eyes[b][1] .. eyes[b][2]}

Swept(eyes, start, write) ==
  LET n == TapMax - start + 1
  IN  RightSweep([k \in 0 .. n - 1 |-> Right(eyes, start + k, AtTap(0))], n,
                 LeftSweep([k \in Taps |-> Right(eyes, start, AtTap(k))]), write)

LEMMA ReadEdgesSwept ==
  ReadEdges = Swept(board.groups[group].read, dqs_in[group], FALSE)
  BY Zenon DEF ReadEdges, ReadsRight, Swept, Right

LEMMA WriteEdgesSwept ==
  WriteEdges = Swept(board.groups[group].write, dqs_out[group], TRUE)
  BY Zenon DEF WriteEdges, WritesRight, Swept, Right

LEMMA RightIs ==
  ASSUME NEW eyes, NEW s \in Int, NEW n \in Int, NEW b \in Bits
  PROVE  b \in Right(eyes, s, AtTap(n)) <=> s - n \in eyes[b][1] .. eyes[b][2]
  BY DEF Right, AtTap

\* The edges are taps at which the bit passed.
LEMMA SweptInEye ==
  ASSUME NEW eyes \in Eyes, NEW start \in Taps, NEW write \in BOOLEAN
  PROVE  LET E == Swept(eyes, start, write)
         IN  /\ Edged(E) /\ E.end \in 0 .. TapMax - start + 1
             /\ EdgeMissing(E) = {} =>
                  \A b \in Bits :
                    /\ start - E.left[b] \in eyes[b][1] .. eyes[b][2]
                    /\ start + E.right[b] \in eyes[b][1] .. eyes[b][2]
<1> DEFINE n == TapMax - start + 1
           late == [k \in Taps |-> Right(eyes, start, AtTap(k))]
           pass == [k \in 0 .. n - 1 |-> Right(eyes, start + k, AtTap(0))]
           first == LeftSweep(late)
           E == RightSweep(pass, n, first, write)
           In(b, x) == x \in eyes[b][1] .. eyes[b][2]
           Goal == /\ Edged(E) /\ E.end \in 0 .. TapMax - start + 1
                   /\ EdgeMissing(E) = {} =>
                        \A b \in Bits : In(b, start - E.left[b]) /\ In(b, start + E.right[b])
<1>0. Swept(eyes, start, write) = E
  BY Zenon DEF Swept
<1> SUFFICES Goal
  BY <1>0
<1>1. /\ TapMax \in Nat /\ start \in Int /\ start \in 0 .. TapMax /\ NoEdge = TapMax + 1
      /\ n \in 1 .. TapMax + 1
  BY TapFacts DEF Taps
<1>2. \A b \in Bits, k \in Taps : b \in late[k] <=> In(b, start - k)
  BY <1>1, RightIs DEF Taps
<1>3. \A b \in Bits, k \in 0 .. n - 1 : b \in pass[k] <=> In(b, start + k)
  <2> HIDE DEF late, first, E, Goal
  <2>1. \A k \in 0 .. n - 1 : start + k \in Int /\ (start + k) - 0 = start + k
    BY <1>1
  <2>2. \A s \in Int, m \in Int, b \in Bits :
          b \in Right(eyes, s, AtTap(m)) <=> s - m \in eyes[b][1] .. eyes[b][2]
    BY RightIs, Zenon
  <2>3. \A b \in Bits, k \in 0 .. n - 1 :
          b \in Right(eyes, start + k, AtTap(0)) <=> In(b, (start + k) - 0)
    <3>1. 0 \in Int
      OBVIOUS
    <3> QED BY <2>1, <2>2, <3>1, Zenon
  <2> QED BY <2>1, <2>3
<1>4. 0 \in Taps /\ 0 \in 0 .. n - 1
  BY <1>1 DEF Taps
<1> HIDE DEF late, pass, n, In
<1>5. ASSUME NEW b \in Bits
      PROVE  /\ E.left[b] \in EdgeSet /\ E.right[b] \in EdgeSet /\ E.end \in 0 .. n
             /\ b \notin EdgeMissing(E) =>
                  In(b, start - E.left[b]) /\ In(b, start + E.right[b])
  <2> DEFINE L == first.left[b]
             R == first.right[b]
  <2>1. /\ L \in EdgeSet /\ R \in EdgeSet
        /\ L = NoEdge \/ (L \in Taps /\ b \in late[L])
        /\ R = NoEdge \/ (-R \in 1 .. TapMax /\ b \in late[-R])
        /\ L # NoEdge /\ R = NoEdge => b \in late[0]
    BY LeftSweepFacts, Zenon
  <2>2. b \in late[0] => b \in pass[0]
    <3>1. start - 0 = start + 0
      BY <1>1
    <3> QED BY <1>2, <1>3, <1>4, <3>1
  <2>3. n \in Nat /\ n \in 1 .. TapMax + 1 /\ (L # NoEdge /\ R = NoEdge => b \in pass[0])
    BY <1>1, <2>1, <2>2
  <2>4. /\ E.left[b] \in EdgeSet /\ E.right[b] \in EdgeSet /\ E.end \in 0 .. n
        /\ b \notin EdgeMissing(E) =>
             /\ \/ E.left[b] = L
                \/ -E.left[b] \in 1 .. n - 1 /\ b \in pass[-E.left[b]]
             /\ \/ E.right[b] = R
                \/ E.right[b] \in 0 .. n - 1 /\ b \in pass[E.right[b]]
             /\ E.left[b] # NoEdge /\ E.right[b] # NoEdge
    BY <2>1, <2>3, RightSweepFacts, Zenon
  <2> HIDE DEF E, first
  <2>5. ASSUME b \notin EdgeMissing(E) PROVE In(b, start - E.left[b])
    <3>1. CASE E.left[b] = L
      BY <1>2, <2>1, <2>4, <2>5, <3>1
    <3>2. CASE -E.left[b] \in 1 .. n - 1 /\ b \in pass[-E.left[b]]
      <4>1. E.left[b] \in Int
        BY <1>1, <2>4 DEF EdgeSet
      <4>2. -E.left[b] \in 0 .. n - 1
        BY <1>1, <3>2
      <4>3. start + (-E.left[b]) = start - E.left[b]
        BY <1>1, <4>1
      <4> QED BY <1>3, <3>2, <4>2, <4>3
    <3> QED BY <2>4, <2>5, <3>1, <3>2
  <2>6. ASSUME b \notin EdgeMissing(E) PROVE In(b, start + E.right[b])
    <3>1. CASE E.right[b] = R
      <4>1. E.right[b] \in Int
        BY <1>1, <2>4 DEF EdgeSet
      <4>2. -E.right[b] \in Taps /\ b \in late[-E.right[b]]
        BY <1>1, <2>1, <2>4, <2>6, <3>1 DEF Taps
      <4>3. start - (-E.right[b]) = start + E.right[b]
        BY <1>1, <4>1
      <4> QED BY <1>2, <4>2, <4>3
    <3>2. CASE E.right[b] \in 0 .. n - 1 /\ b \in pass[E.right[b]]
      BY <1>3, <3>2
    <3> QED BY <2>4, <2>6, <3>1, <3>2
  <2> QED BY <2>4, <2>5, <2>6
<1>6. E.left \in [Bits -> EdgeSet] /\ E.right \in [Bits -> EdgeSet]
  <2>1. E.left = [b \in Bits |-> E.left[b]] /\ E.right = [b \in Bits |-> E.right[b]]
    BY Zenon DEF RightSweep
  <2> HIDE DEF E
  <2> QED BY <1>5, <2>1
<1>7. E.end \in 0 .. n
  BY <1>5, TapFacts
<1> HIDE DEF E
<1> QED BY <1>5, <1>6, <1>7 DEF Edged, n

\* Margins that are not negative leave every bit right.
LEMMA CentredInEye ==
  ASSUME NEW eyes \in Eyes, NEW start \in Taps, NEW write \in BOOLEAN,
         EdgeMissing(Swept(eyes, start, write)) = {}
  PROVE  LET c == Centre(Swept(eyes, start, write), start, write)
         IN  /\ c.dqs \in Taps /\ c.dq \in [Bits -> Taps]
             /\ write => c.dqs = start
             /\ Inside(c) => Right(eyes, c.dqs, c.dq) = Bits
<1> DEFINE E == Swept(eyes, start, write)
           c == Centre(E, start, write)
           Goal == /\ c.dqs \in Taps /\ c.dq \in [Bits -> Taps]
                   /\ write => c.dqs = start
                   /\ Inside(c) => Right(eyes, c.dqs, c.dq) = Bits
<1> SUFFICES Goal
  OBVIOUS
<1>1. /\ Edged(E) /\ EdgeMissing(E) = {}
      /\ \A b \in Bits : /\ start - E.left[b] \in eyes[b][1] .. eyes[b][2]
                         /\ start + E.right[b] \in eyes[b][1] .. eyes[b][2]
  BY SweptInEye
<1> HIDE DEF E
<1>2. /\ c.dqs \in Taps /\ c.dq \in [Bits -> Taps]
      /\ write => c.dqs = start
      /\ c.dqMargin >= 0 /\ c.dqsMargin >= 0 =>
           \A b \in Bits : /\ start - E.left[b] <= c.dqs - c.dq[b]
                           /\ c.dqs - c.dq[b] <= start + E.right[b]
  BY <1>1, CentreFacts, Zenon
<1> HIDE DEF c
<1>3. ASSUME Inside(c), NEW b \in Bits
      PROVE  c.dqs - c.dq[b] \in eyes[b][1] .. eyes[b][2]
  <2>1. /\ start - E.left[b] <= c.dqs - c.dq[b]
        /\ c.dqs - c.dq[b] <= start + E.right[b]
    BY <1>2, <1>3 DEF Inside
  <2>2. c.dqs \in Int /\ c.dq[b] \in Int /\ start \in Int
    BY <1>2, TapFacts DEF Taps
  <2>3. E.left[b] \in Int /\ E.right[b] \in Int
    BY <1>1, TapFacts DEF Edged, EdgeSet
  <2>4. eyes[b][1] \in Int /\ eyes[b][2] \in Int
    BY TapFacts DEF Eyes
  <2>5. /\ start - E.left[b] \in eyes[b][1] .. eyes[b][2]
        /\ start + E.right[b] \in eyes[b][1] .. eyes[b][2]
    BY <1>1
  <2> DEFINE x == c.dqs - c.dq[b]
             lo == start - E.left[b]
             hi == start + E.right[b]
             e1 == eyes[b][1]
             e2 == eyes[b][2]
  <2>6. x \in Int /\ lo \in Int /\ hi \in Int /\ lo <= x /\ x <= hi
    BY <2>1, <2>2, <2>3
  <2>7. e1 \in Int /\ e2 \in Int /\ lo \in e1 .. e2 /\ hi \in e1 .. e2
    BY <2>4, <2>5
  <2>8. x \in e1 .. e2
    <3> HIDE DEF x, lo, hi, e1, e2
    <3> QED BY <2>6, <2>7
  <2> QED BY <2>8
<1>4. Inside(c) => Right(eyes, c.dqs, c.dq) = Bits
  BY <1>3 DEF Right
<1> QED BY <1>2, <1>4

-----------------------------------------------------------------------------
(* Where a sweep meets both ends of an eye. *)

\* The edges of an eye of which the sweep reaches the upper end: below, the
\* end of the chain may be taken for the edge.
LEMMA SweptReach ==
  ASSUME NEW eyes \in Eyes, NEW start \in Taps, NEW write \in BOOLEAN, NEW b \in Bits,
         start - eyes[b][2] <= TapMax
  PROVE  /\ Swept(eyes, start, write).left[b]
              = IF start - eyes[b][1] <= TapMax THEN start - eyes[b][1] ELSE TapMax
         /\ Swept(eyes, start, write).right[b] = eyes[b][2] - start
<1> DEFINE n == TapMax - start + 1
           late == [k \in Taps |-> Right(eyes, start, AtTap(k))]
           pass == [k \in 0 .. n - 1 |-> Right(eyes, start + k, AtTap(0))]
           first == LeftSweep(late)
           E == RightSweep(pass, n, first, write)
           e1 == eyes[b][1]
           e2 == eyes[b][2]
           lo == IF start - e1 <= TapMax THEN e1 - start ELSE -TapMax
           hi == e2 - start
<1>0. Swept(eyes, start, write) = E
  BY Zenon DEF Swept
<1>1. /\ TapMax \in Nat /\ start \in Int /\ start \in 0 .. TapMax /\ NoEdge = TapMax + 1
      /\ n \in 1 .. TapMax + 1 /\ TapMax + 1 - 1 = TapMax /\ Taps = 0 .. TapMax
  BY TapFacts DEF Taps
<1>2. e1 \in Int /\ e2 \in Int /\ -TapMax <= e1 /\ e1 <= e2 /\ e2 <= TapMax /\ start - e2 <= TapMax
  BY <1>1 DEF Eyes
<1> HIDE DEF e1, e2
<1>3. /\ lo \in Int /\ hi \in Int /\ lo <= hi /\ hi < n /\ -TapMax <= lo
      /\ -hi \in Int /\ -lo \in Int /\ -hi <= -lo /\ -lo <= TapMax
      /\ -lo = IF start - e1 <= TapMax THEN start - e1 ELSE TapMax
  BY <1>1, <1>2
<1>4. \A s \in Int, m \in Int :
        b \in Right(eyes, s, AtTap(m)) <=> s - m \in e1 .. e2
  BY RightIs, Zenon DEF e1, e2
<1>5. PassesIn(late, TapMax + 1, b, -hi, -lo)
  <2>1. \A k \in 0 .. TapMax : b \in late[k] <=> start - k \in e1 .. e2
    BY <1>1, <1>4
  <2> HIDE DEF late, n, lo, hi
  <2>2. \A k \in 0 .. TapMax : start - k \in e1 .. e2 <=> (-hi <= k /\ k <= -lo)
    BY <1>1, <1>2 DEF lo, hi
  <2> QED BY <1>1, <1>3, <2>1, <2>2 DEF PassesIn
<1>6. PassesIn(pass, n, b, lo, hi)
  <2>0. 0 \in Int /\ \A k \in 0 .. n - 1 : start + k \in Int
    BY <1>1
  <2>1. \A k \in 0 .. n - 1 : b \in pass[k] <=> (start + k) - 0 \in e1 .. e2
    BY <1>4, <2>0
  <2> HIDE DEF pass, n
  <2>2. \A k \in 0 .. n - 1 : (start + k) - 0 \in e1 .. e2 <=> (lo <= k /\ k <= hi)
    BY <1>1, <1>2
  <2> QED BY <2>1, <2>2 DEF PassesIn
<1> HIDE DEF late, pass, n
<1>7. /\ first.left[b] = IF -lo < 0 THEN NoEdge ELSE -lo
      /\ first.right[b] = IF -lo < 0 \/ -hi <= 0 THEN NoEdge ELSE -(-hi)
  <2> HIDE DEF lo, hi
  <2> QED BY <1>3, <1>5, LeftSweepExact, Zenon
<1> HIDE DEF first
<1>8. /\ first.left[b] = (IF lo <= 0 THEN -lo ELSE NoEdge)
      /\ first.right[b] = (IF hi < 0 THEN hi ELSE NoEdge)
  <2> HIDE DEF lo, hi
  <2> QED BY <1>3, <1>7
<1>9. E.left[b] = -lo /\ E.right[b] = hi
  <2> HIDE DEF lo, hi
  <2>1. n \in 1 .. TapMax + 1 /\ lo \in Int /\ hi \in Int
    BY <1>1, <1>3
  <2>2. lo <= hi /\ hi < n /\ -TapMax <= lo
    BY <1>3, Zenon
  <2>3. /\ RightSweep(pass, n, first, write).left[b] = -lo
        /\ RightSweep(pass, n, first, write).right[b] = hi
    BY <1>6, <1>8, <2>1, <2>2, RightSweepExact
  <2> QED BY <2>3
<1> HIDE DEF lo
<1> QED BY <1>0, <1>3, <1>9 DEF e1, e2

LEMMA SweptExact ==
  ASSUME NEW eyes \in Eyes, NEW start \in Taps, NEW write \in BOOLEAN, NEW b \in Bits,
         start - eyes[b][1] <= TapMax
  PROVE  /\ Swept(eyes, start, write).left[b] = start - eyes[b][1]
         /\ Swept(eyes, start, write).right[b] = eyes[b][2] - start
<1>1. start - eyes[b][2] <= TapMax
  BY TapFacts DEF Eyes, Taps
<1> QED BY <1>1, SweptReach

\* The delays of a bit, before they are clamped, and of the strobe.
LEMMA CentreUnfolded ==
  ASSUME NEW edges, Edged(edges), NEW start \in Taps, NEW write \in BOOLEAN
  PROVE  \E least \in Int, mid \in Int :
           LET c == Centre(edges, start, write)
               spread(b) == edges.left[b] - edges.right[b]
           IN  /\ \A b \in Bits : least <= spread(b)
               /\ \E b \in Bits : least = spread(b)
               /\ mid = Half(IF least > 0 THEN least + 1 ELSE least)
               /\ c.dqs = IF write THEN start ELSE Clamp(start - mid)
               /\ \A b \in Bits :
                    c.dq[b] = Clamp(Half(spread(b) - least) + mid - (start - c.dqs))
<1> DEFINE spread == [b \in Bits |-> edges.left[b] - edges.right[b]]
           least == Min({spread[b] : b \in Bits})
           mid == Half(IF least > 0 THEN least + 1 ELSE least)
           n == Min({edges.left[b] - edges.right[b] : b \in Bits})
           h == Half(IF n > 0 THEN n + 1 ELSE n)
           t == IF write THEN start ELSE Clamp(start - h)
           g == [b \in Bits |-> Clamp(Half((edges.left[b] - edges.right[b]) - n) + h - (start - t))]
           c == Centre(edges, start, write)
<1>1. TapMax \in Nat /\ NoEdge = TapMax + 1 /\ 2 * NoEdge \in Nat
  BY TapFacts
<1>2. \A b \in Bits : /\ edges.left[b] \in Int /\ -NoEdge <= edges.left[b] /\ edges.left[b] <= NoEdge
                      /\ edges.right[b] \in Int /\ -NoEdge <= edges.right[b] /\ edges.right[b] <= NoEdge
  BY <1>1 DEF Edged, EdgeSet
<1>3. spread \in [Bits -> Int] /\ \A b \in Bits : -(2 * NoEdge) <= spread[b]
  BY <1>1, <1>2
<1>4. least \in Int /\ (\A b \in Bits : least <= spread[b]) /\ \E b \in Bits : least = spread[b]
  <2> HIDE DEF spread
  <2> QED BY <1>1, <1>3, LeastOfBits
<1>5. {spread[b] : b \in Bits} = {edges.left[b] - edges.right[b] : b \in Bits}
  OBVIOUS
<1>6. n = least /\ \A b \in Bits : spread[b] = edges.left[b] - edges.right[b]
  BY <1>5
<1>7. c.dqs = t /\ c.dq = g
  BY Zenon DEF Centre
<1>8. h \in Int
  <2>1. n \in Int
    BY <1>4, <1>6
  <2> HIDE DEF n
  <2> QED BY <2>1, HalfIs
<1>9. \A b \in Bits : c.dq[b] = Clamp(Half((edges.left[b] - edges.right[b]) - n) + h - (start - c.dqs))
  <2> HIDE DEF c, n, h, t
  <2> QED BY <1>7
<1>10. /\ n \in Int
       /\ \A b \in Bits : n <= edges.left[b] - edges.right[b]
       /\ \E b \in Bits : n = edges.left[b] - edges.right[b]
  <2> HIDE DEF n, least, spread
  <2> QED BY <1>4, <1>6
<1>11. h = Half(IF n > 0 THEN n + 1 ELSE n) /\ c.dqs = IF write THEN start ELSE Clamp(start - h)
  BY <1>7, Zenon
<1> HIDE DEF n, h, t, c
<1> QED BY <1>8, <1>9, <1>10, <1>11, Zenon DEF c

\* The strobe is moved to half the least spread, a bit by half its own.
LEMMA CentreHalves ==
  ASSUME NEW edges, Edged(edges), NEW start \in Taps, NEW write \in BOOLEAN
  PROVE  \E least \in Int, mid \in Int, half \in [Bits -> Int] :
           LET c == Centre(edges, start, write)
               spread(b) == edges.left[b] - edges.right[b]
           IN  /\ 2 * mid \in least .. least + 1
               /\ \A b \in Bits : /\ half[b] >= 0
                                  /\ 2 * half[b] \in spread(b) - least - 1 .. spread(b) - least
               /\ \E b \in Bits : least = spread(b) /\ half[b] = 0
               /\ c.dqs = IF write THEN start ELSE Clamp(start - mid)
               /\ \A b \in Bits : c.dq[b] = Clamp(half[b] + mid - (start - c.dqs))
<1> DEFINE c == Centre(edges, start, write)
           spread(b) == edges.left[b] - edges.right[b]
<1>1. PICK least \in Int, mid \in Int :
        /\ \A b \in Bits : least <= spread(b)
        /\ \E b \in Bits : least = spread(b)
        /\ mid = Half(IF least > 0 THEN least + 1 ELSE least)
        /\ c.dqs = IF write THEN start ELSE Clamp(start - mid)
        /\ \A b \in Bits : c.dq[b] = Clamp(Half(spread(b) - least) + mid - (start - c.dqs))
  BY CentreUnfolded, Zenon
<1>2. \A b \in Bits : spread(b) \in Int
  BY TapFacts DEF Edged, EdgeSet
<1> HIDE DEF c, spread
<1> DEFINE half == [b \in Bits |-> Half(spread(b) - least)]
<1>3. \A n \in Int : /\ Half(n) \in Int
                     /\ n >= 0 => 2 * Half(n) \in n - 1 .. n
                     /\ n <= 0 => 2 * Half(n) \in n .. n + 1
  BY HalfIs
<1>4. 2 * mid \in least .. least + 1
  <2>1. CASE least > 0
    <3>1. least + 1 \in Int /\ least + 1 >= 0 /\ mid = Half(least + 1)
      BY <1>1, <2>1
    <3>2. 2 * Half(least + 1) \in least + 1 - 1 .. least + 1
      BY <1>3, <3>1
    <3> QED BY <3>1, <3>2
  <2>2. CASE ~(least > 0)
    <3>1. mid = Half(least)
      BY <1>1, <2>2
    <3>2. 2 * Half(least) \in least .. least + 1
      BY <1>3, <2>2
    <3> QED BY <3>1, <3>2
  <2> QED BY <2>1, <2>2
<1>5. ASSUME NEW b \in Bits
      PROVE  /\ half[b] \in Int /\ half[b] >= 0
             /\ 2 * half[b] \in spread(b) - least - 1 .. spread(b) - least
             /\ least = spread(b) => half[b] = 0
  <2> DEFINE n == spread(b) - least
             h == Half(n)
  <2>1. n \in Int /\ n >= 0 /\ (least = spread(b) => n = 0)
    BY <1>1, <1>2
  <2>2. half[b] = h
    OBVIOUS
  <2>3. h \in Int /\ 2 * h \in n - 1 .. n
    <3> HIDE DEF n
    <3> QED BY <1>3, <2>1
  <2>4. h \in Int /\ h >= 0 /\ (n = 0 => h = 0)
    <3> HIDE DEF n, h
    <3> QED BY <2>1, <2>3
  <2> HIDE DEF h, half
  <2> QED BY <2>1, <2>2, <2>3, <2>4
<1>6. half \in [Bits -> Int]
  BY <1>5
<1>7. \A b \in Bits : c.dq[b] = Clamp(half[b] + mid - (start - c.dqs))
  BY <1>1
<1> HIDE DEF half
<1>8. \E b \in Bits : least = spread(b) /\ half[b] = 0
  BY <1>1, <1>5
<1> QED BY <1>1, <1>4, <1>5, <1>6, <1>7, <1>8, Zenon DEF c, spread

\* A bit whose delay is not clamped is in the middle of its eye.
LEMMA WriteRoom ==
  ASSUME NEW eyes \in Eyes, NEW start \in Taps, NEW b \in Bits,
         start - eyes[b][1] <= TapMax
  PROVE  LET dq == Centre(Swept(eyes, start, TRUE), start, TRUE).dq[b]
         IN  \/ dq \in {0, TapMax}
             \/ Below(eyes[b], start, dq) - Above(eyes[b], start, dq) \in -1 .. 1
<1> DEFINE E == Swept(eyes, start, TRUE)
           c == Centre(E, start, TRUE)
           e1 == eyes[b][1]
           e2 == eyes[b][2]
           spread(x) == E.left[x] - E.right[x]
           dq == c.dq[b]
           Goal == dq \in {0, TapMax} \/ Below(eyes[b], start, dq) - Above(eyes[b], start, dq) \in -1 .. 1
<1> SUFFICES Goal
  OBVIOUS
<1>1. Edged(E)
  BY SweptInEye
<1>2. E.left[b] = start - e1 /\ E.right[b] = e2 - start
  BY SweptExact
<1>3. start \in Int /\ e1 \in Int /\ e2 \in Int /\ TapMax \in Nat
  BY TapFacts DEF Taps, Eyes
<1>4. TRUE \in BOOLEAN
  OBVIOUS
<1> HIDE DEF E
<1>5. PICK least \in Int, mid \in Int, half \in [Bits -> Int] :
        /\ 2 * mid \in least .. least + 1
        /\ \A x \in Bits : /\ half[x] >= 0
                           /\ 2 * half[x] \in spread(x) - least - 1 .. spread(x) - least
        /\ \E x \in Bits : least = spread(x) /\ half[x] = 0
        /\ c.dqs = IF TRUE THEN start ELSE Clamp(start - mid)
        /\ \A x \in Bits : c.dq[x] = Clamp(half[x] + mid - (start - c.dqs))
  BY <1>1, <1>4, CentreHalves, Zenon
<1>6. dq = Clamp(half[b] + mid - (start - start))
  <2>1. c.dqs = start
    BY <1>5
  <2> HIDE DEF c
  <2> QED BY <1>5, <2>1
<1> DEFINE v == half[b] + mid
<1>7. v \in Int /\ dq = Clamp(v)
  <2>1. v \in Int /\ half[b] + mid - (start - start) = v
    BY <1>3
  <2> HIDE DEF v, c
  <2> QED BY <1>6, <2>1
<1>8. 2 * v \in (2 * start - e1 - e2) - 1 .. (2 * start - e1 - e2) + 1
  <2>1. spread(b) = 2 * start - e1 - e2
    BY <1>2, <1>3
  <2>2. 2 * half[b] \in spread(b) - least - 1 .. spread(b) - least /\ half[b] \in Int
    BY <1>5
  <2>3. 2 * mid \in least .. least + 1
    BY <1>5
  <2> DEFINE hb == half[b]
  <2>4. hb \in Int /\ 2 * hb \in (2 * start - e1 - e2) - least - 1 .. (2 * start - e1 - e2) - least
    BY <2>1, <2>2
  <2> HIDE DEF hb, e1, e2, spread
  <2>5. v = hb + mid
    BY DEF v, hb
  <2> QED BY <1>3, <2>3, <2>4, <2>5
<1> HIDE DEF v, c, dq
<1>9. Below(eyes[b], start, dq) - Above(eyes[b], start, dq) = (start - dq - e1) - (e2 - start + dq)
  BY DEF Below, Above
<1> HIDE DEF e1, e2
<1>10. v < 0 => dq = 0
  BY <1>7, ClampIs
<1>11. v > TapMax => dq = TapMax
  BY <1>7, ClampIs
<1>12. v \in Taps => dq = v
  BY <1>7, ClampIs
<1>13. CASE v \in Taps
  BY <1>3, <1>7, <1>8, <1>9, <1>12, <1>13
<1>14. CASE v \notin Taps
  BY <1>3, <1>7, <1>10, <1>11, <1>14 DEF Taps
<1> QED BY <1>13, <1>14

\* After a centring with room every eye is within reach.
LEMMA ReadReach ==
  ASSUME NEW eyes \in Eyes, NEW start \in Taps,
         EdgeMissing(Swept(eyes, start, FALSE)) = {},
         Inside(Centre(Swept(eyes, start, FALSE), start, FALSE)),
         \A a, b \in Bits : eyes[a][2] - eyes[b][1] <= TapMax,
         NEW b \in Bits
  PROVE  Centre(Swept(eyes, start, FALSE), start, FALSE).dqs - eyes[b][1] <= TapMax
<1> DEFINE E == Swept(eyes, start, FALSE)
           c == Centre(E, start, FALSE)
           s == c.dqs
           spread(x) == E.left[x] - E.right[x]
           Goal == s - eyes[b][1] <= TapMax
<1> SUFFICES Goal
  OBVIOUS
<1>1. /\ FALSE \in BOOLEAN /\ Edged(E) /\ c.dqs \in Taps /\ c.dq \in [Bits -> Taps]
      /\ Right(eyes, c.dqs, c.dq) = Bits
  BY SweptInEye, CentredInEye
<1> HIDE DEF E
<1>2. PICK least \in Int, mid \in Int, half \in [Bits -> Int] :
        /\ 2 * mid \in least .. least + 1
        /\ \A x \in Bits : /\ half[x] >= 0
                           /\ 2 * half[x] \in spread(x) - least - 1 .. spread(x) - least
        /\ \E x \in Bits : least = spread(x) /\ half[x] = 0
        /\ c.dqs = IF FALSE THEN start ELSE Clamp(start - mid)
        /\ \A x \in Bits : c.dq[x] = Clamp(half[x] + mid - (start - c.dqs))
  BY <1>1, CentreHalves, Zenon
<1> HIDE DEF c
<1>3. PICK a \in Bits : half[a] = 0
  BY <1>2
<1>4. /\ s \in Int /\ 0 <= s /\ start \in Int /\ TapMax \in Nat
      /\ eyes[b][1] \in Int /\ -TapMax <= eyes[b][1]
      /\ eyes[a][2] \in Int /\ eyes[a][2] - eyes[b][1] <= TapMax
  BY <1>1, TapFacts DEF Taps, Eyes
<1>5. s = Clamp(start - mid) /\ c.dq[a] = Clamp(0 + mid - (start - s))
  BY <1>2, <1>3
<1>6. CASE start - mid < 0
  <2>1. s = 0
    BY <1>4, <1>5, <1>6, ClampIs
  <2> QED BY <1>4, <2>1
<1>7. CASE ~(start - mid < 0)
  <2> HIDE DEF s
  <2>1. s <= start - mid /\ start - mid \in Int
    <3>1. CASE start - mid \in Taps
      BY <1>4, <1>5, <3>1, ClampIs
    <3>2. CASE start - mid > TapMax
      BY <1>4, <1>5, <3>2, ClampIs
    <3> QED BY <1>4, <1>7, <3>1, <3>2 DEF Taps
  <2>2. c.dq[a] = 0
    <3> DEFINE v == 0 + mid - (start - s)
    <3>1. v \in Int /\ v <= 0
      BY <1>4, <2>1
    <3>2. v = 0 => v \in Taps
      BY <1>4 DEF Taps
    <3>3. c.dq[a] = Clamp(v)
      BY <1>5
    <3> HIDE DEF v
    <3> QED BY <3>1, <3>2, <3>3, ClampIs
  <2>3. s - c.dq[a] \in eyes[a][1] .. eyes[a][2]
    BY <1>1 DEF Right, s
  <2>4. s <= eyes[a][2]
    <3>1. s - 0 \in eyes[a][1] .. eyes[a][2]
      BY <2>2, <2>3
    <3>2. eyes[a][1] \in Int
      BY TapFacts DEF Eyes
    <3> QED BY <1>4, <3>1, <3>2
  <2>5. s - eyes[b][1] <= TapMax
    BY <1>4, <2>4
  <2> QED BY <2>5 DEF s
<1> QED BY <1>6, <1>7

\* From where every eye is within reach, the strobe and the bits are put
\* into the middle of each.
LEMMA ReadRoom ==
  ASSUME NEW eyes \in Eyes, NEW start \in Taps,
         \A a, b \in Bits : eyes[a][2] - eyes[b][1] <= TapMax,
         \A b \in Bits : start - eyes[b][1] <= TapMax,
         NEW b \in Bits
  PROVE  LET c == Centre(Swept(eyes, start, FALSE), start, FALSE)
         IN  Below(eyes[b], c.dqs, c.dq[b]) - Above(eyes[b], c.dqs, c.dq[b]) \in -1 .. 1
<1> DEFINE E == Swept(eyes, start, FALSE)
           c == Centre(E, start, FALSE)
           s == c.dqs
           dq == c.dq[b]
           e1 == eyes[b][1]
           e2 == eyes[b][2]
           spread(x) == E.left[x] - E.right[x]
           Goal == Below(eyes[b], s, dq) - Above(eyes[b], s, dq) \in -1 .. 1
<1> SUFFICES Goal
  OBVIOUS
<1>1. /\ FALSE \in BOOLEAN /\ Edged(E)
      /\ \A x \in Bits : E.left[x] = start - eyes[x][1] /\ E.right[x] = eyes[x][2] - start
  BY SweptInEye, SweptExact
<1> HIDE DEF E
<1>2. PICK least \in Int, mid \in Int, half \in [Bits -> Int] :
        /\ 2 * mid \in least .. least + 1
        /\ \A x \in Bits : /\ half[x] >= 0
                           /\ 2 * half[x] \in spread(x) - least - 1 .. spread(x) - least
        /\ \E x \in Bits : least = spread(x) /\ half[x] = 0
        /\ c.dqs = IF FALSE THEN start ELSE Clamp(start - mid)
        /\ \A x \in Bits : c.dq[x] = Clamp(half[x] + mid - (start - c.dqs))
  BY <1>1, CentreHalves, Zenon
<1>3. PICK a \in Bits : least = spread(a) /\ half[a] = 0
  BY <1>2
<1> HIDE DEF c
<1> DEFINE a1 == eyes[a][1]
           a2 == eyes[a][2]
           hb == half[b]
           v == hb + mid - (start - s)
<1>4. /\ start \in Int /\ TapMax \in Nat /\ 0 <= start /\ start <= TapMax
      /\ e1 \in Int /\ e2 \in Int /\ -TapMax <= e1 /\ e1 <= e2
      /\ a1 \in Int /\ a2 \in Int /\ a1 <= a2 /\ a2 <= TapMax
      /\ a2 - e1 <= TapMax
  BY TapFacts DEF Taps, Eyes
<1>5. /\ least = 2 * start - a1 - a2
      /\ spread(b) = 2 * start - e1 - e2
  BY <1>1, <1>3, <1>4
<1>6. /\ hb \in Int /\ hb >= 0
      /\ 2 * hb \in (a1 + a2) - (e1 + e2) - 1 .. (a1 + a2) - (e1 + e2)
  <2>1. hb \in Int /\ hb >= 0 /\ 2 * hb \in spread(b) - least - 1 .. spread(b) - least
    BY <1>2
  <2> HIDE DEF hb, spread, a1, a2, e1, e2
  <2> QED BY <1>4, <1>5, <2>1
<1>7. s = Clamp(start - mid) /\ dq = Clamp(v)
  BY <1>2
<1>8. 2 * mid \in least .. least + 1
  BY <1>2
<1>9. Below(eyes[b], s, dq) - Above(eyes[b], s, dq) = (s - dq - e1) - (e2 - s + dq)
  BY DEF Below, Above
<1>10. v = hb + mid - (start - s)
  OBVIOUS
<1> HIDE DEF s, dq, e1, e2, a1, a2, hb, v, spread
<1>11. start - mid \in Int /\ start - mid <= TapMax
  BY <1>4, <1>5, <1>8
<1>12. CASE 0 <= start - mid
  <2>1. s = start - mid
    BY <1>4, <1>7, <1>11, <1>12, ClampIs DEF Taps
  <2>2. v = hb
    BY <1>4, <1>6, <1>10, <2>1
  <2>3. 2 * hb <= 2 * TapMax
    BY <1>4, <1>6
  <2>4. v \in Taps
    BY <1>4, <1>6, <2>2, <2>3 DEF Taps
  <2>5. dq = hb
    BY <1>4, <1>6, <1>7, <2>2, <2>4, ClampIs
  <2> DEFINE u == 2 * start - 2 * mid
             w == 2 * hb
             y == a1 + a2
             z == e1 + e2
  <2>6. (s - dq - e1) - (e2 - s + dq) = u - w - z
    BY <1>4, <1>6, <2>1, <2>5
  <2>7. u \in Int /\ y - 1 <= u /\ u <= y
    BY <1>4, <1>5, <1>8
  <2>8. w \in Int /\ y - z - 1 <= w /\ w <= y - z
    BY <1>4, <1>6
  <2>9. y \in Int /\ z \in Int
    BY <1>4
  <2>10. u - w - z \in -1 .. 1
    <3> HIDE DEF u, w, y, z
    <3> QED BY <2>7, <2>8, <2>9
  <2> QED BY <1>9, <2>6, <2>10
<1>13. CASE start - mid < 0
  <2>1. s = 0
    BY <1>7, <1>11, <1>13, ClampIs
  <2>2. v = hb + mid - start
    BY <1>4, <1>6, <1>10, <2>1
  <2>3. 2 * v \in -(e1 + e2) - 1 .. -(e1 + e2) + 1
    BY <1>4, <1>5, <1>6, <1>8, <2>2
  <2>4. v \in Int /\ 0 <= v /\ 2 * v <= 2 * TapMax + 1
    BY <1>4, <1>6, <1>13, <2>2, <2>3
  <2>5. v \in Taps
    BY <1>4, <2>4 DEF Taps
  <2>6. dq = v
    BY <1>7, <2>4, <2>5, ClampIs
  <2> QED BY <1>4, <1>9, <2>1, <2>3, <2>4, <2>6
<1> QED BY <1>11, <1>12, <1>13

-----------------------------------------------------------------------------
(* The data mask. *)

\* The positions that pass, seen from the strobe at start: below 0 the mask is
\* put off, above 0 the strobe.
MaskPlaces(start, dq) ==
  {x \in -TapMax .. TapMax - start :
     /\ start + x \in board.groups[group].mask
     /\ WritesRight(group, start + (IF x <= 0 THEN 0 ELSE x), dq) = Bits}

\* The mask is put into the longest run of them.
LEMMA MaskRunIs ==
  ASSUME NEW start \in Taps, NEW dq
  PROVE  LET run == MaskRun(start, dq)
             G == MaskPlaces(start, dq)
         IN  /\ Longest(run, G, -TapMax, TapMax - start + 1)
             /\ run \in Runs
             /\ MaskDelay(run) \in Taps
             /\ MaskMargin(run) >= 0 =>
                  /\ run.win # 0 /\ -MaskDelay(run) \in run.bgn .. run.end
                  /\ start - MaskDelay(run) \in board.groups[group].mask
<1> DEFINE G == MaskPlaces(start, dq)
           n == TapMax - start + 1
           all(s) == WritesRight(group, s, dq) = Bits
           mask(x) == x \in board.groups[group].mask
           delayed == [k \in Taps |-> mask(start - k) /\ all(start)]
           strobed == [k \in 0 .. n - 1 |-> mask(start + k) /\ all(start + k)]
           found == MaskScan(delayed)
           run == StrobeScan(strobed, n, found)
           Goal == /\ Longest(run, G, -TapMax, n)
                   /\ run \in Runs
                   /\ MaskDelay(run) \in Taps
                   /\ MaskMargin(run) >= 0 =>
                        /\ run.win # 0 /\ -MaskDelay(run) \in run.bgn .. run.end
                        /\ start - MaskDelay(run) \in board.groups[group].mask
<1>0. MaskRun(start, dq) = run
  BY Zenon DEF MaskRun
<1> SUFFICES Goal
  BY <1>0
<1>1. /\ TapMax \in Nat /\ start \in Int /\ start \in 0 .. TapMax /\ NoEdge = TapMax + 1
      /\ n \in 1 .. NoEdge
  BY TapFacts DEF Taps
<1> HIDE DEF all, mask
<1>2. \A x \in -TapMax .. TapMax - start :
        x \in G <=> mask(start + x) /\ all(start + (IF x <= 0 THEN 0 ELSE x))
  BY DEF MaskPlaces, mask, all
<1>3. \A k \in Taps : -k \in G <=> delayed[k]
  <2> SUFFICES ASSUME NEW k \in Taps PROVE -k \in G <=> delayed[k]
    OBVIOUS
  <2>1. -k \in -TapMax .. TapMax - start /\ -k <= 0 /\ start + (-k) = start - k
        /\ start + 0 = start
    BY <1>1 DEF Taps
  <2>2. -k \in G <=> mask(start + (-k)) /\ all(start + (IF -k <= 0 THEN 0 ELSE -k))
    BY <1>2, <2>1
  <2>3. delayed[k] <=> mask(start - k) /\ all(start)
    BY Zenon
  <2>4. start + (IF -k <= 0 THEN 0 ELSE -k) = start
    BY <2>1
  <2> QED BY <2>1, <2>2, <2>3, <2>4, Zenon
<1>4. \A x \in 0 .. n - 1 : x \in G <=> strobed[x]
  <2> SUFFICES ASSUME NEW x \in 0 .. n - 1 PROVE x \in G <=> strobed[x]
    OBVIOUS
  <2>1. x \in -TapMax .. TapMax - start /\ start + (IF x <= 0 THEN 0 ELSE x) = start + x
    BY <1>1
  <2>2. x \in G <=> mask(start + x) /\ all(start + (IF x <= 0 THEN 0 ELSE x))
    BY <1>2, <2>1
  <2>3. strobed[x] <=> mask(start + x) /\ all(start + x)
    BY Zenon
  <2> QED BY <2>1, <2>2, <2>3, Zenon
<1> HIDE DEF G, delayed, strobed, n
<1>5. Scanned(found, G, -TapMax, 1) /\ ~found.stop
  BY <1>3, MaskScanIs, Zenon
<1> HIDE DEF found
<1>6. Longest(run, G, -TapMax, n) /\ run \in Runs
  BY <1>1, <1>4, <1>5, StrobeScanIs, Zenon
<1> HIDE DEF run
<1>7. /\ MaskDelay(run) \in Taps
      /\ MaskMargin(run) >= 0 => run.win # 0 /\ -MaskDelay(run) \in run.bgn .. run.end
  BY <1>1, <1>6, MaskDelayIs, Zenon
<1>8. MaskMargin(run) >= 0 => start - MaskDelay(run) \in board.groups[group].mask
  <2> SUFFICES ASSUME MaskMargin(run) >= 0
               PROVE  start - MaskDelay(run) \in board.groups[group].mask
    OBVIOUS
  <2>1. -MaskDelay(run) \in G
    BY <1>6, <1>7, Zenon DEF Longest
  <2>2. start + (-MaskDelay(run)) \in board.groups[group].mask
    BY <2>1, Zenon DEF G, MaskPlaces
  <2>3. start + (-MaskDelay(run)) = start - MaskDelay(run)
    BY <1>1, <1>7 DEF Taps
  <2> QED BY <2>2, <2>3
<1> QED BY <1>6, <1>7, <1>8

-----------------------------------------------------------------------------
(* Types. *)

Searching == {"gate", "search", "centre"}
Afterwards == {"hand over", "tell", "done"}

LocalsTyped ==
  /\ group \in Groups /\ out_d \in 0 .. StaticTaps + 2
  /\ taps \in 0 .. TapMax + 1 /\ orig \in Taps
  /\ failed_substage \in {"nil", "guaranteed read", "dqs enable phase", "vfifo centre"}

DelaysTyped ==
  /\ dqs_in \in [Groups -> Taps] /\ dq_in \in [Groups -> [Bits -> Taps]]
  /\ dqs_out \in [Groups -> Taps] /\ oct_out \in [Groups -> Taps]
  /\ dq_out \in [Groups -> [Bits -> Taps]] /\ dm_out \in [Groups -> Taps]

\* The loops test their locals before they go on, and the latency is not
\* raised before it has been lowered.
LoopsTyped ==
  /\ pc \in Searching \cup {"pattern"} => out_d \in 0 .. StaticTaps
  /\ pc \in Searching => taps \in Taps
  /\ pc \notin Afterwards => curr_read_lat \in 0 .. LatencyMax

CalTyped ==
  /\ GateTyped
  /\ board \in Boards
  /\ LocalsTyped /\ DelaysTyped /\ LoopsTyped
  /\ curr_read_lat \in 0 .. LatencyMax + 1
  /\ error \in Errors /\ passed \in BOOLEAN

LEMMA CalConstants ==
  /\ GroupCount \in Nat /\ 0 \in Groups /\ Groups \subseteq Nat
  /\ InReserve \in Taps /\ OutReserve \in Taps /\ LatencyMax \in Nat
  /\ StaticTaps \in Nat /\ StaticTaps <= TapMax
  /\ BitCount \in Nat /\ BitCount > 1 /\ Bits = 0 .. BitCount - 1
  /\ TapMax \in Nat /\ Taps = 0 .. TapMax /\ 0 \in Taps
  /\ AtTap(0) \in [Bits -> Taps]
<1>1. /\ GroupCount \in Nat \ {0} /\ InReserve \in Taps /\ OutReserve \in Taps
      /\ LatencyMax \in Nat /\ StaticTaps <= TapMax
  BY CalibrationAssumption
<1>2. 0 \in Groups /\ Groups \subseteq Nat
  BY <1>1 DEF Groups
<1>3. StaticTaps \in Nat
  BY GateConstants
<1>4. BitCount \in Nat /\ BitCount > 1 /\ Bits = 0 .. BitCount - 1
  BY CentreAssumption, FS_CardinalityType DEF BitCount
<1>5. TapMax \in Nat /\ Taps = 0 .. TapMax /\ 0 \in Taps
  BY TapFacts DEF Taps
<1>6. AtTap(0) \in [Bits -> Taps]
  BY <1>5 DEF AtTap
<1> QED BY <1>1, <1>2, <1>3, <1>4, <1>5, <1>6

LEMMA BoardIs ==
  ASSUME board \in Boards, NEW g \in Groups
  PROVE  /\ board.groups[g].gate \in Windows
         /\ board.groups[g].read \in Eyes /\ board.groups[g].write \in Eyes
         /\ board.groups[g].mask \in SUBSET (-TapMax .. TapMax)
         /\ board.groups[g].pattern \in Nat
         /\ board.rlat \in Nat /\ board.enough \in Nat
<1>1. board.groups[g] \in GroupBoards /\ board.rlat \in Nat /\ board.enough \in Nat
  BY Zenon DEF Boards
<1> QED BY <1>1, Zenon DEF GroupBoards

LEMMA FailedTyped ==
  ASSUME error \in Errors, NEW g \in Nat,
         NEW stage \in {"vfifo", "writes", "vfifo after writes", "lfifo"},
         NEW substage \in {"nil", "guaranteed read", "dqs enable phase", "vfifo centre",
                           "writes centre", "read latency"},
         Failed(g, stage, substage)
  PROVE  error' \in Errors
<1>1. error' = error \/ error' = [stage |-> stage, substage |-> substage, group |-> g]
  BY Zenon DEF Failed
<1>2. [stage |-> stage, substage |-> substage, group |-> g] \in Errors
  BY DEF Errors
<1> QED BY <1>1, <1>2

\* The number of a bit of the group at hand.
LEMMA BitNumber ==
  ASSUME group \in Groups, NEW edges, EdgeMissing(edges) # {}
  PROVE  group * BitCount + Min(EdgeMissing(edges)) \in Nat
<1> DEFINE S == EdgeMissing(edges)
<1>1. S \in SUBSET Int /\ S # {} /\ \A x \in S : 0 <= x
  BY CalConstants DEF EdgeMissing
<1>2. Min(S) \in S
  <2> HIDE DEF S
  <2> QED BY <1>1, MinIs
<1>3. Min(S) \in Nat
  BY <1>2, CalConstants DEF EdgeMissing
<1>4. group \in Nat /\ BitCount \in Nat
  BY CalConstants
<1>5. group * BitCount \in Nat
  BY <1>4
<1> HIDE DEF S
<1>6. group * BitCount + Min(S) \in Nat
  BY <1>3, <1>5
<1> QED BY <1>6 DEF S

LEMMA SweepDelays ==
  [b \in Bits |-> b * SweepStep] \in [Bits -> Taps]
<1>1. BitCount \in Nat /\ BitCount - 1 \in Nat /\ BitCount - 1 > 0 /\ TapMax \in Nat
  BY CalConstants
<1>2. /\ SweepStep \in Int /\ (BitCount - 1) * SweepStep <= TapMax
      /\ TapMax < (BitCount - 1) * SweepStep + (BitCount - 1)
  BY <1>1, DivIs DEF SweepStep
<1>3. SweepStep >= 0
  <2> DEFINE s == SweepStep + 1
             m == BitCount - 1
  <2>1. s \in Int /\ m \in Nat /\ m > 0 /\ m * SweepStep + m = s * m
    BY <1>1, <1>2
  <2>2. 0 * m < s * m
    BY <1>1, <1>2, <2>1
  <2>3. 0 < s
    <3> HIDE DEF s, m
    <3> QED BY <2>1, <2>2, ProductOrder
  <2> QED BY <1>2, <2>3
<1>4. ASSUME NEW b \in Bits PROVE b * SweepStep \in Taps
  <2> DEFINE m == BitCount - 1
  <2>1. b \in Nat /\ b <= m /\ m \in Nat /\ m * SweepStep <= TapMax /\ SweepStep \in Nat
    BY <1>1, <1>2, <1>3, CalConstants
  <2>2. b * SweepStep <= m * SweepStep /\ b * SweepStep \in Nat
    <3> HIDE DEF m
    <3> QED BY <2>1
  <2> HIDE DEF m
  <2>3. b * SweepStep <= TapMax
    BY <1>1, <2>1, <2>2
  <2> QED BY <1>1, <2>2, <2>3 DEF Taps
<1> QED BY <1>4

LEMMA InitTyped == CalInit => CalTyped
<1> SUFFICES ASSUME CalInit PROVE CalTyped
  OBVIOUS
<1> USE CalConstants
<1>1. GateTyped
  <2>1. GateInit
    BY DEF CalInit
  <2>2. [first |-> 0, length |-> 0] \in Windows
    BY GateConstants DEF Windows
  <2> QED BY <2>1, <2>2, GateConstants DEF GateInit, GateTyped
<1>2. LocalsTyped /\ pc = "start" /\ board \in Boards /\ passed \in BOOLEAN
  <2>1. /\ pc = "start" /\ board \in Boards /\ passed = FALSE
        /\ group = 0 /\ out_d = 0 /\ taps = 0 /\ orig = 0 /\ failed_substage = "nil"
    BY Zenon DEF CalInit
  <2>2. group \in Groups /\ orig \in Taps
    BY <2>1
  <2>3. out_d \in 0 .. StaticTaps + 2 /\ taps \in 0 .. TapMax + 1
    BY <2>1
  <2> QED BY <2>1, <2>2, <2>3, Zenon DEF LocalsTyped
<1>3. DelaysTyped
  BY DEF CalInit, DelaysTyped
<1>4. error \in Errors
  BY DEF CalInit, NoError, Errors
<1>5. curr_read_lat = 0
  BY DEF CalInit
<1> QED BY <1>1, <1>2, <1>3, <1>4, <1>5 DEF CalTyped, LoopsTyped, Searching, Afterwards

LEMMA SameGate ==
  ASSUME GateTyped, UNCHANGED gateVars
  PROVE  GateTyped'
  BY DEF GateTyped, gateVars, gateRegs

LEMMA NextInDelayTyped ==
  ASSUME LocalsTyped, LoopsTyped, pc \in Searching, NextInDelay,
         UNCHANGED curr_read_lat
  PROVE  /\ out_d' \in 0 .. StaticTaps + 2 /\ taps' \in 0 .. TapMax + 1
         /\ LoopsTyped'
<1>1. out_d \in 0 .. StaticTaps /\ taps \in Taps /\ pc \notin Afterwards
      /\ curr_read_lat \in 0 .. LatencyMax
  BY DEF LoopsTyped, Searching, Afterwards
<1>2. /\ taps' = taps + 1
      /\ \/ taps < TapMax /\ pc' = "gate" /\ out_d' = out_d
         \/ /\ out_d' = out_d + 2
            /\ pc' \in {"pattern", "vfifo failed"}
            /\ pc' = "pattern" => out_d' <= StaticTaps
  BY DEF NextInDelay, NextOutDelay
<1>3. taps \in Int /\ taps >= 0 /\ taps <= TapMax /\ out_d \in Int
  BY <1>1, CalConstants
<1>4. CASE taps < TapMax /\ pc' = "gate" /\ out_d' = out_d
  <2>1. taps' \in Taps /\ taps' \in 0 .. TapMax + 1
    BY <1>2, <1>3, <1>4, CalConstants
  <2>2. out_d' \in 0 .. StaticTaps /\ out_d' \in 0 .. StaticTaps + 2
    BY <1>1, <1>4, CalConstants
  <2> QED BY <1>1, <1>4, <2>1, <2>2 DEF LoopsTyped
<1>5. CASE /\ out_d' = out_d + 2
           /\ pc' \in {"pattern", "vfifo failed"}
           /\ pc' = "pattern" => out_d' <= StaticTaps
  <2>0. taps' = taps + 1 /\ out_d' = out_d + 2 /\ StaticTaps \in Nat
    BY <1>2, <1>5, CalConstants, Zenon
  <2>1. taps' \in 0 .. TapMax + 1
    BY <1>3, <2>0, CalConstants
  <2>2. out_d' \in 0 .. StaticTaps + 2 /\ out_d' \in Nat
    BY <1>1, <2>0
  <2>4. pc' = "pattern" => out_d' \in 0 .. StaticTaps
    BY <1>5, <2>0, <2>2
  <2>3. pc' \notin Searching
    BY <1>5 DEF Searching
  <2> QED BY <1>1, <1>5, <2>1, <2>2, <2>3, <2>4 DEF LoopsTyped
<1> QED BY <1>2, <1>4, <1>5

\* What the two centrings of the reads leave.
LEMMA ReadCentre ==
  ASSUME board \in Boards, group \in Groups, DelaysTyped
  PROVE  LET c == Centre(ReadEdges, dqs_in[group], FALSE)
         IN  EdgeMissing(ReadEdges) = {} =>
               /\ c.dqs \in Taps /\ c.dq \in [Bits -> Taps]
               /\ Inside(c) => ReadsRight(group, c.dqs, c.dq) = Bits
<1> DEFINE eyes == board.groups[group].read
           start == dqs_in[group]
           c == Centre(ReadEdges, start, FALSE)
           Goal == EdgeMissing(ReadEdges) = {} =>
                     /\ c.dqs \in Taps /\ c.dq \in [Bits -> Taps]
                     /\ Inside(c) => ReadsRight(group, c.dqs, c.dq) = Bits
<1> SUFFICES Goal
  OBVIOUS
<1>1. eyes \in Eyes /\ start \in Taps
  BY BoardIs DEF DelaysTyped
<1>2. ReadEdges = Swept(eyes, start, FALSE)
  BY ReadEdgesSwept
<1>3. \A s, dq : ReadsRight(group, s, dq) = Right(eyes, s, dq)
  BY Zenon DEF ReadsRight, Right
<1> HIDE DEF eyes, start
<1>4. FALSE \in BOOLEAN
  OBVIOUS
<1>5. LET E == Swept(eyes, start, FALSE)
          k == Centre(E, start, FALSE)
      IN  EdgeMissing(E) = {} =>
            /\ k.dqs \in Taps /\ k.dq \in [Bits -> Taps]
            /\ Inside(k) => Right(eyes, k.dqs, k.dq) = Bits
  BY <1>1, <1>4, CentredInEye
<1>6. Right(eyes, c.dqs, c.dq) = ReadsRight(group, c.dqs, c.dq)
  BY <1>3, Zenon
<1> QED BY <1>2, <1>5, <1>6

LEMMA WriteCentre ==
  ASSUME board \in Boards, group \in Groups, DelaysTyped
  PROVE  LET start == dqs_out[group]
             c == Centre(WriteEdges, start, TRUE)
             run == MaskRun(start, c.dq)
         IN  /\ start + Min({WriteEdges.end, TapMax - start}) \in Taps
             /\ EdgeMissing(WriteEdges) = {} =>
                  /\ c.dq \in [Bits -> Taps] /\ MaskDelay(run) \in Taps
                  /\ Inside(c) => WritesRight(group, start, c.dq) = Bits
                  /\ MaskMargin(run) >= 0 =>
                       start - MaskDelay(run) \in board.groups[group].mask
<1> DEFINE eyes == board.groups[group].write
           start == dqs_out[group]
           end == WriteEdges.end
           c == Centre(WriteEdges, start, TRUE)
           run == MaskRun(start, c.dq)
           Goal == /\ start + Min({end, TapMax - start}) \in Taps
                   /\ EdgeMissing(WriteEdges) = {} =>
                        /\ c.dq \in [Bits -> Taps] /\ MaskDelay(run) \in Taps
                        /\ Inside(c) => WritesRight(group, start, c.dq) = Bits
                        /\ MaskMargin(run) >= 0 =>
                             start - MaskDelay(run) \in board.groups[group].mask
<1> SUFFICES Goal
  OBVIOUS
<1>1. eyes \in Eyes /\ start \in Taps
  BY BoardIs DEF DelaysTyped
<1>2. WriteEdges = Swept(eyes, start, TRUE)
  BY WriteEdgesSwept
<1>3. \A s, dq : WritesRight(group, s, dq) = Right(eyes, s, dq)
  BY Zenon DEF WritesRight, Right
<1>4. TRUE \in BOOLEAN
  OBVIOUS
<1> HIDE DEF eyes, start
<1>5. end \in 0 .. TapMax - start + 1
  BY <1>1, <1>2, <1>4, SweptInEye, Zenon
<1> HIDE DEF end
<1>6. start + Min({end, TapMax - start}) \in Taps
  <2> DEFINE S == {end, TapMax - start}
  <2>1. TapMax \in Int /\ start \in Int /\ start >= 0 /\ start <= TapMax /\ end \in Int
        /\ end >= 0
    BY <1>1, <1>5, CalConstants
  <2>2. S \in SUBSET Int /\ S # {} /\ \A x \in S : 0 <= x
    BY <2>1
  <2> HIDE DEF S
  <2>3. Min(S) \in S /\ \A x \in S : Min(S) <= x
    BY <2>2, MinIs
  <2>4. Min(S) \in 0 .. TapMax - start
    BY <2>1, <2>2, <2>3 DEF S
  <2>5. start + Min(S) \in Taps
    BY <2>1, <2>4, CalConstants
  <2> QED BY <2>5 DEF S
<1>7. ASSUME EdgeMissing(WriteEdges) = {}
      PROVE  /\ c.dq \in [Bits -> Taps] /\ c.dqs = start
             /\ Inside(c) => WritesRight(group, start, c.dq) = Bits
  <2>1. LET E == Swept(eyes, start, TRUE)
            k == Centre(E, start, TRUE)
        IN  EdgeMissing(E) = {} =>
              /\ k.dqs \in Taps /\ k.dq \in [Bits -> Taps]
              /\ k.dqs = start
              /\ Inside(k) => Right(eyes, k.dqs, k.dq) = Bits
    BY <1>1, <1>4, CentredInEye
  <2>2. Right(eyes, start, c.dq) = WritesRight(group, start, c.dq)
    BY <1>3, Zenon
  <2> QED BY <1>2, <1>7, <2>1, <2>2
<1>8. /\ MaskDelay(run) \in Taps
      /\ MaskMargin(run) >= 0 => start - MaskDelay(run) \in board.groups[group].mask
  <2> HIDE DEF c
  <2> QED BY <1>1, MaskRunIs, Zenon
<1> QED BY <1>6, <1>7, <1>8

\* Delays of one group are set.
LEMMA GroupSet ==
  ASSUME NEW f, NEW S, f \in [Groups -> S], NEW g \in Groups, NEW x \in S
  PROVE  [f EXCEPT ![g] = x] \in [Groups -> S]
  OBVIOUS

LEMMA ZeroedTyped ==
  ASSUME CalTyped, ZeroOutputs
  PROVE  /\ dqs_out' \in [Groups -> Taps] /\ oct_out' \in [Groups -> Taps]
         /\ dq_out' \in [Groups -> [Bits -> Taps]] /\ dm_out' \in [Groups -> Taps]
<1>1. /\ group \in Groups
      /\ dqs_out \in [Groups -> Taps] /\ oct_out \in [Groups -> Taps]
      /\ dq_out \in [Groups -> [Bits -> Taps]] /\ dm_out \in [Groups -> Taps]
  BY Zenon DEF CalTyped, DelaysTyped, LocalsTyped
<1>2. OutReserve \in Taps /\ 0 \in Taps /\ AtTap(0) \in [Bits -> Taps]
  BY CalConstants, Zenon
<1> QED BY <1>1, <1>2, GroupSet DEF ZeroOutputs

\* A bit without an edge.
LEMMA EdgeMissingTyped ==
  ASSUME CalTyped, NEW edges, EdgeMissing(edges) # {},
         NEW stage \in {"vfifo", "vfifo after writes"}, ReadEdgeMissing(edges, stage)
  PROVE  /\ error' \in Errors
         /\ dqs_in' \in [Groups -> Taps] /\ dq_in' \in [Groups -> [Bits -> Taps]]
<1>1. /\ error \in Errors /\ group \in Groups
      /\ dqs_in \in [Groups -> Taps] /\ dq_in \in [Groups -> [Bits -> Taps]]
  BY Zenon DEF CalTyped, LocalsTyped, DelaysTyped
<1>2. /\ Failed(group * BitCount + Min(EdgeMissing(edges)), stage, "vfifo centre")
      /\ dqs_in' = dqs_in /\ dq_in' = [dq_in EXCEPT ![group] = AtTap(0)]
  BY Zenon DEF ReadEdgeMissing
<1>3. group * BitCount + Min(EdgeMissing(edges)) \in Nat
  BY <1>1, BitNumber
<1>4. error' \in Errors
  BY <1>1, <1>2, <1>3, FailedTyped
<1> QED BY <1>1, <1>2, <1>4, CalConstants, GroupSet

LEMMA SetReadTyped ==
  ASSUME CalTyped, NEW c, c.dqs \in Taps, c.dq \in [Bits -> Taps], SetReadDelays(c)
  PROVE  dqs_in' \in [Groups -> Taps] /\ dq_in' \in [Groups -> [Bits -> Taps]]
<1>1. /\ group \in Groups
      /\ dqs_in \in [Groups -> Taps] /\ dq_in \in [Groups -> [Bits -> Taps]]
  BY Zenon DEF CalTyped, LocalsTyped, DelaysTyped
<1> QED BY <1>1, GroupSet DEF SetReadDelays

LEMMA StartTyped ==
  ASSUME CalTyped, Start
  PROVE  CalTyped'
<1>1. /\ pc' = "group" /\ group' = 0 /\ error' = NoError
      /\ curr_read_lat' = IF board.rlat + 16 > LatencyMax THEN LatencyMax ELSE board.rlat + 16
      /\ dqs_in' = [g \in Groups |-> InReserve] /\ oct_out' = [g \in Groups |-> OutReserve]
      /\ phase' = 0 /\ delay' = 0
      /\ UNCHANGED <<board, window, step, vfifo, i, p, d, work_bgn, work_end,
                     out_d, taps, orig, failed_substage, dq_in, dqs_out, dq_out, dm_out, passed>>
  BY Zenon DEF Start
<1>2. GateTyped'
  BY <1>1, GateConstants DEF CalTyped, GateTyped
<1>3. LocalsTyped'
  BY <1>1, CalConstants DEF CalTyped, LocalsTyped
<1>4. DelaysTyped'
  BY <1>1, CalConstants DEF CalTyped, DelaysTyped
<1>5. curr_read_lat' \in 0 .. LatencyMax
  <2>1. board.rlat \in Nat
    <3>1. board \in Boards /\ 0 \in Groups
      BY CalConstants, Zenon DEF CalTyped
    <3> QED BY <3>1, BoardIs, Zenon
  <2> QED BY <1>1, <2>1, CalConstants
<1>6. LoopsTyped' /\ error' \in Errors /\ curr_read_lat' \in 0 .. LatencyMax + 1
  BY <1>1, <1>5, CalConstants DEF LoopsTyped, Searching, NoError, Errors
<1> QED BY <1>1, <1>2, <1>3, <1>4, <1>6 DEF CalTyped

LEMMA ZeroGroupTyped ==
  ASSUME CalTyped, ZeroGroup
  PROVE  CalTyped'
<1>1. /\ pc = "group" /\ pc' = "pattern"
      /\ ZeroOutputs /\ dq_in' = [dq_in EXCEPT ![group] = AtTap(0)]
      /\ out_d' = 0 /\ failed_substage' = "guaranteed read"
      /\ vfifo' = 0 /\ phase' = 0 /\ delay' = 0
      /\ UNCHANGED <<window, step, i, p, d, work_bgn, work_end, dtaps_per_ptap,
                     board, group, taps, orig, dqs_in, curr_read_lat, error, passed>>
  BY Zenon DEF ZeroGroup, report
<1>2. GateTyped'
  <2>1. /\ vfifo' = 0 /\ phase' = 0 /\ delay' = 0
        /\ UNCHANGED <<window, step, i, p, d, work_bgn, work_end>>
    BY <1>1, Zenon
  <2> QED BY <2>1, GateConstants DEF CalTyped, GateTyped
<1>3. LocalsTyped'
  <2>1. /\ group' \in Groups /\ taps' \in 0 .. TapMax + 1 /\ orig' \in Taps
        /\ failed_substage' = "guaranteed read" /\ out_d' = 0
    BY <1>1, Zenon DEF CalTyped, LocalsTyped
  <2>2. out_d' \in 0 .. StaticTaps + 2
    <3>1. out_d' = 0 /\ StaticTaps \in Nat
      BY <2>1, CalConstants, Zenon
    <3> QED BY <3>1
  <2> QED BY <2>1, <2>2, Zenon DEF LocalsTyped
<1>4. DelaysTyped'
  <2>1. group \in Groups /\ dqs_in \in [Groups -> Taps] /\ dq_in \in [Groups -> [Bits -> Taps]]
    BY Zenon DEF CalTyped, DelaysTyped, LocalsTyped
  <2>2. dqs_in' \in [Groups -> Taps] /\ dq_in' \in [Groups -> [Bits -> Taps]]
    BY <1>1, <2>1, CalConstants, GroupSet
  <2> QED BY <1>1, <2>2, ZeroedTyped DEF DelaysTyped
<1>5. curr_read_lat \in 0 .. LatencyMax /\ curr_read_lat \in 0 .. LatencyMax + 1
  <2>1. pc = "group" /\ curr_read_lat \in 0 .. LatencyMax + 1 /\ LoopsTyped
    BY <1>1, Zenon DEF CalTyped
  <2> QED BY <2>1 DEF LoopsTyped, Afterwards
<1>6. LoopsTyped'
  <2>1. pc' = "pattern" /\ out_d' = 0 /\ curr_read_lat' = curr_read_lat
    BY <1>1, Zenon
  <2> QED BY <1>5, <2>1, CalConstants DEF LoopsTyped, Searching
<1> QED BY <1>1, <1>2, <1>3, <1>4, <1>5, <1>6 DEF CalTyped

LEMMA LoadPatternTyped ==
  ASSUME CalTyped, LoadPattern
  PROVE  CalTyped'
<1>0. /\ group \in Groups /\ taps \in 0 .. TapMax + 1 /\ orig \in Taps
      /\ failed_substage \in {"nil", "guaranteed read", "dqs enable phase", "vfifo centre"}
      /\ dqs_in \in [Groups -> Taps] /\ dqs_out \in [Groups -> Taps]
      /\ oct_out \in [Groups -> Taps]
  BY Zenon DEF CalTyped, LocalsTyped, DelaysTyped
<1>1. /\ pc = "pattern"
      /\ UNCHANGED <<window, step, vfifo, delay, i, p, d, work_bgn, work_end, dtaps_per_ptap,
                     board, group, failed_substage, dqs_in, dq_in, dq_out, dm_out,
                     curr_read_lat, error, passed>>
      /\ \/ /\ dqs_out' = [dqs_out EXCEPT ![group] = out_d]
            /\ oct_out' = [oct_out EXCEPT ![group] = out_d]
         \/ UNCHANGED <<dqs_out, oct_out>>
  BY Zenon DEF LoadPattern, report
<1>2. \/ /\ pc' = "gate" /\ taps' = dqs_in[group] /\ orig' = dqs_in[group]
         /\ UNCHANGED <<out_d, phase>>
      \/ /\ NextOutDelay /\ phase' = PHASE_MAX /\ UNCHANGED <<taps, orig>>
  BY Zenon DEF LoadPattern
<1>3. /\ out_d \in 0 .. StaticTaps /\ out_d \in Taps /\ out_d \in Int
      /\ curr_read_lat \in 0 .. LatencyMax /\ curr_read_lat \in 0 .. LatencyMax + 1
  <2>1. out_d \in 0 .. StaticTaps /\ curr_read_lat \in 0 .. LatencyMax
    BY <1>1 DEF CalTyped, LoopsTyped, Afterwards
  <2> QED BY <2>1, CalConstants
<1>4. DelaysTyped'
  <2>1. dqs_out' \in [Groups -> Taps] /\ oct_out' \in [Groups -> Taps]
    BY <1>0, <1>1, <1>3, GroupSet
  <2> QED BY <1>1, <2>1 DEF CalTyped, DelaysTyped
<1>5. CASE /\ pc' = "gate" /\ taps' = dqs_in[group] /\ orig' = dqs_in[group]
           /\ UNCHANGED <<out_d, phase>>
  <2>1. GateTyped'
    <3>1. UNCHANGED <<window, step, vfifo, phase, delay, i, p, d, work_bgn, work_end>>
      BY <1>1, <1>5, Zenon
    <3> QED BY <3>1 DEF CalTyped, GateTyped
  <2>2. taps' \in Taps /\ orig' \in Taps /\ taps' \in 0 .. TapMax + 1
    <3>1. taps' \in Taps /\ orig' \in Taps
      BY <1>0, <1>5
    <3>2. Taps \subseteq 0 .. TapMax + 1
      BY CalConstants
    <3> QED BY <3>1, <3>2, Zenon
  <2>3. LocalsTyped'
    BY <1>1, <1>5, <2>2 DEF CalTyped, LocalsTyped
  <2>4. LoopsTyped'
    BY <1>1, <1>3, <1>5, <2>2 DEF LoopsTyped
  <2> QED BY <1>1, <1>3, <1>4, <2>1, <2>3, <2>4 DEF CalTyped
<1>6. CASE NextOutDelay /\ phase' = PHASE_MAX /\ UNCHANGED <<taps, orig>>
  <2>1. GateTyped'
    BY <1>1, <1>6, GateConstants DEF CalTyped, GateTyped
  <2>2. /\ out_d' = out_d + 2 /\ pc' \in {"pattern", "vfifo failed"}
        /\ pc' = "pattern" => out_d' <= StaticTaps
    BY <1>6 DEF NextOutDelay
  <2>3. out_d' \in 0 .. StaticTaps + 2 /\ (pc' = "pattern" => out_d' \in 0 .. StaticTaps)
    <3>1. out_d' = out_d + 2
      BY <2>2, Zenon
    <3>2. StaticTaps \in Nat /\ out_d \in 0 .. StaticTaps
      BY <1>3, CalConstants, Zenon
    <3>3. out_d' \in 0 .. StaticTaps + 2
      BY <3>1, <3>2
    <3>4. ASSUME pc' = "pattern" PROVE out_d' \in 0 .. StaticTaps
      <4>1. out_d' <= StaticTaps
        BY <2>2, <3>4
      <4> QED BY <3>1, <3>2, <4>1
    <3> QED BY <3>3, <3>4
  <2>4. LocalsTyped'
    BY <1>0, <1>1, <1>6, <2>3 DEF LocalsTyped
  <2>5. LoopsTyped'
    BY <1>1, <1>3, <2>2, <2>3 DEF LoopsTyped, Searching
  <2> QED BY <1>1, <1>3, <1>4, <2>1, <2>4, <2>5 DEF CalTyped
<1> QED BY <1>2, <1>5, <1>6

LEMMA CallGateTyped ==
  ASSUME CalTyped, CallGate
  PROVE  CalTyped'
<1> DEFINE dq == [b \in Bits |-> b * SweepStep]
           there == board.groups[group].gate
           nowhere == [there EXCEPT !.length = 0]
<1>1. /\ pc = "gate" /\ pc' = "search"
      /\ dqs_in' = [dqs_in EXCEPT ![group] = taps]
      /\ dq_in' = [dq_in EXCEPT ![group] = dq]
      /\ SearchGate(nowhere) \/ SearchGate(there)
      /\ UNCHANGED <<board, group, out_d, taps, orig, failed_substage,
                     dqs_out, oct_out, dq_out, dm_out, curr_read_lat, error, passed>>
  <2>1. /\ pc = "gate" /\ pc' = "search"
        /\ dqs_in' = [dqs_in EXCEPT ![group] = taps]
        /\ dq_in' = [dq_in EXCEPT ![group] = dq]
        /\ SearchGate(IF ReadsRight(group, taps, dq) = {} THEN nowhere ELSE there)
        /\ UNCHANGED <<board, group, out_d, taps, orig, failed_substage,
                       dqs_out, oct_out, dq_out, dm_out, curr_read_lat, error, passed>>
    BY Zenon DEF CallGate, locals, report
  <2> HIDE DEF dq, nowhere, there
  <2> QED BY <2>1, Zenon
<1>2. there \in Windows /\ nowhere \in Windows
  <2>1. there \in Windows
    BY BoardIs, Zenon DEF CalTyped, LocalsTyped
  <2> HIDE DEF there
  <2> QED BY <2>1, GateConstants DEF Windows
<1>3. taps \in Taps /\ dq \in [Bits -> Taps]
  BY <1>1, SweepDelays DEF CalTyped, LoopsTyped, Searching
<1> HIDE DEF there, nowhere, dq
<1>4. GateTyped'
  BY <1>1, <1>2, SearchGateTyped, Zenon DEF CalTyped
<1>5. DelaysTyped'
  <2>1. group \in Groups /\ dqs_in \in [Groups -> Taps] /\ dq_in \in [Groups -> [Bits -> Taps]]
    BY Zenon DEF CalTyped, DelaysTyped, LocalsTyped
  <2>2. dqs_in' \in [Groups -> Taps] /\ dq_in' \in [Groups -> [Bits -> Taps]]
    BY <1>1, <1>3, <2>1, GroupSet
  <2> QED BY <1>1, <2>2 DEF CalTyped, DelaysTyped
<1>6. LocalsTyped'
  BY <1>1 DEF CalTyped, LocalsTyped
<1>7. LoopsTyped'
  BY <1>1 DEF CalTyped, LoopsTyped, Searching, Afterwards
<1> QED BY <1>1, <1>4, <1>5, <1>6, <1>7 DEF CalTyped

LEMMA SearchStepTyped ==
  ASSUME CalTyped, SearchStep
  PROVE  CalTyped'
<1>1. /\ GateStep
      /\ UNCHANGED <<board, pc, group, out_d, taps, orig, failed_substage,
                     dqs_in, dq_in, dqs_out, oct_out, dq_out, dm_out,
                     curr_read_lat, error, passed>>
  BY Zenon DEF SearchStep, locals, delays, report
<1>2. GateTyped'
  BY <1>1, GateStepTyped DEF CalTyped
<1>3. LocalsTyped' /\ DelaysTyped'
  BY <1>1 DEF CalTyped, LocalsTyped, DelaysTyped
<1>4. LoopsTyped'
  BY <1>1 DEF CalTyped, LoopsTyped
<1> QED BY <1>1, <1>2, <1>3, <1>4 DEF CalTyped

LEMMA GateFoundTyped ==
  ASSUME CalTyped, GateFound
  PROVE  CalTyped'
<1>1. /\ pc = "search" /\ pc' = "centre"
      /\ dq_in' = [dq_in EXCEPT ![group] = AtTap(0)]
      /\ dqs_in' = [dqs_in EXCEPT ![group] = orig]
      /\ step' = "idle"
      /\ UNCHANGED <<window, vfifo, phase, delay, i, p, d, work_bgn, work_end, board,
                     group, out_d, taps, orig, failed_substage, dqs_out, oct_out, dq_out,
                     dm_out, curr_read_lat, error, passed>>
  BY Zenon DEF GateFound, locals, report, gateRegs
<1>2. GateTyped'
  BY <1>1 DEF CalTyped, GateTyped
<1>3. DelaysTyped'
  <2>1. /\ group \in Groups /\ dqs_in \in [Groups -> Taps] /\ orig \in Taps
        /\ dq_in \in [Groups -> [Bits -> Taps]]
    BY Zenon DEF CalTyped, DelaysTyped, LocalsTyped
  <2>2. dqs_in' \in [Groups -> Taps] /\ dq_in' \in [Groups -> [Bits -> Taps]]
    BY <1>1, <2>1, GroupSet, CalConstants
  <2> QED BY <1>1, <2>2 DEF CalTyped, DelaysTyped
<1>4. LocalsTyped'
  BY <1>1 DEF CalTyped, LocalsTyped
<1>5. LoopsTyped'
  BY <1>1 DEF CalTyped, LoopsTyped, Searching, Afterwards
<1> QED BY <1>1, <1>2, <1>3, <1>4, <1>5 DEF CalTyped

LEMMA GateLostTyped ==
  ASSUME CalTyped, GateLost
  PROVE  CalTyped'
<1>1. /\ pc = "search" /\ NextInDelay
      /\ dq_in' = [dq_in EXCEPT ![group] = AtTap(0)]
      /\ failed_substage' = "dqs enable phase" /\ step' = "idle"
      /\ UNCHANGED <<window, vfifo, phase, delay, i, p, d, work_bgn, work_end, board,
                     group, orig, dqs_in, dqs_out, oct_out, dq_out, dm_out, curr_read_lat,
                     error, passed>>
  BY Zenon DEF GateLost, report, gateRegs
<1>2. GateTyped'
  BY <1>1 DEF CalTyped, GateTyped
<1>3. DelaysTyped'
  <2>1. group \in Groups /\ dq_in \in [Groups -> [Bits -> Taps]]
    BY Zenon DEF CalTyped, DelaysTyped, LocalsTyped
  <2>2. dq_in' \in [Groups -> [Bits -> Taps]]
    BY <1>1, <2>1, GroupSet, CalConstants
  <2> QED BY <1>1, <2>2 DEF CalTyped, DelaysTyped
<1>4. /\ out_d' \in 0 .. StaticTaps + 2 /\ taps' \in 0 .. TapMax + 1
      /\ LoopsTyped'
  <2>1. pc \in Searching /\ UNCHANGED curr_read_lat
    BY <1>1, Zenon DEF Searching
  <2> QED BY <1>1, <2>1, NextInDelayTyped, Zenon DEF CalTyped
<1>5. LocalsTyped'
  BY <1>1, <1>4 DEF CalTyped, LocalsTyped
<1> QED BY <1>1, <1>2, <1>3, <1>4, <1>5 DEF CalTyped

LEMMA CentreReadTyped ==
  ASSUME CalTyped, CentreRead
  PROVE  CalTyped'
<1> DEFINE edges == ReadEdges
           c == Centre(edges, dqs_in[group], FALSE)
           again == /\ failed_substage' = "vfifo centre"
                    /\ NextInDelay
                    /\ UNCHANGED <<dqs_out, oct_out, dq_out, dm_out>>
<1>1. /\ pc = "centre"
      /\ UNCHANGED <<gateVars, board, group, orig, curr_read_lat, passed>>
      /\ \/ EdgeMissing(edges) # {} /\ ReadEdgeMissing(edges, "vfifo") /\ again
         \/ /\ EdgeMissing(edges) = {}
            /\ SetReadDelays(c) /\ again
            /\ UNCHANGED error
         \/ /\ EdgeMissing(edges) = {}
            /\ SetReadDelays(c)
            /\ pc' = "writes"
            /\ out_d' = out_d + 2
            /\ ZeroOutputs \/ UNCHANGED <<dqs_out, oct_out, dq_out, dm_out>>
            /\ UNCHANGED <<taps, failed_substage, error>>
  BY Zenon DEF CentreRead
<1>2. /\ board \in Boards /\ group \in Groups /\ DelaysTyped /\ GateTyped
      /\ LocalsTyped /\ LoopsTyped /\ pc \in Searching /\ UNCHANGED curr_read_lat
      /\ error \in Errors /\ UNCHANGED gateVars
  BY <1>1, Zenon DEF CalTyped, LocalsTyped, Searching
<1>3. EdgeMissing(edges) = {} => c.dqs \in Taps /\ c.dq \in [Bits -> Taps]
  BY <1>2, ReadCentre, Zenon
<1> HIDE DEF c, edges
<1>4. /\ error' \in Errors
      /\ dqs_in' \in [Groups -> Taps] /\ dq_in' \in [Groups -> [Bits -> Taps]]
  <2>1. CASE EdgeMissing(edges) # {} /\ ReadEdgeMissing(edges, "vfifo")
    BY <2>1, EdgeMissingTyped
  <2>2. CASE EdgeMissing(edges) = {} /\ SetReadDelays(c) /\ UNCHANGED error
    BY <1>2, <1>3, <2>2, SetReadTyped
  <2> QED BY <1>1, <2>1, <2>2, Zenon
<1>5. GateTyped'
  BY <1>2, SameGate
<1>6. CASE again
  <2>1. /\ out_d' \in 0 .. StaticTaps + 2 /\ taps' \in 0 .. TapMax + 1
        /\ LoopsTyped'
    BY <1>2, <1>6, NextInDelayTyped, Zenon
  <2>2. LocalsTyped'
    BY <1>1, <1>2, <1>6, <2>1 DEF LocalsTyped
  <2>3. DelaysTyped'
    BY <1>2, <1>4, <1>6, Zenon DEF DelaysTyped
  <2>4. UNCHANGED <<board, passed, curr_read_lat>>
    BY <1>1, Zenon
  <2> QED BY <1>4, <1>5, <2>1, <2>2, <2>3, <2>4, Zenon DEF CalTyped
<1>7. CASE /\ pc' = "writes"
           /\ out_d' = out_d + 2
           /\ ZeroOutputs \/ UNCHANGED <<dqs_out, oct_out, dq_out, dm_out>>
           /\ UNCHANGED <<taps, failed_substage, error>>
  <2>1. out_d' \in 0 .. StaticTaps + 2
    <3>1. out_d \in 0 .. StaticTaps /\ StaticTaps \in Nat /\ out_d' = out_d + 2
      BY <1>2, <1>7, CalConstants, Zenon DEF LoopsTyped
    <3> QED BY <3>1
  <2>2. LocalsTyped'
    <3>1. UNCHANGED <<group, taps, orig, failed_substage>>
      BY <1>1, <1>7, Zenon
    <3> QED BY <1>2, <2>1, <3>1, Zenon DEF LocalsTyped
  <2>3. DelaysTyped'
    BY <1>2, <1>4, <1>7, ZeroedTyped DEF DelaysTyped
  <2>4. UNCHANGED <<board, passed, curr_read_lat>>
    BY <1>1, Zenon
  <2>5. LoopsTyped'
    <3>1. pc' = "writes" /\ curr_read_lat' \in 0 .. LatencyMax
      BY <1>1, <1>2, <1>7 DEF LoopsTyped, Afterwards
    <3> QED BY <3>1 DEF LoopsTyped, Searching
  <2> QED BY <1>4, <1>5, <2>2, <2>3, <2>4, <2>5, Zenon DEF CalTyped
<1> QED BY <1>1, <1>6, <1>7, Zenon

LEMMA CentreWritesTyped ==
  ASSUME CalTyped, CentreWrites
  PROVE  CalTyped'
<1> DEFINE start == dqs_out[group]
           edges == WriteEdges
           swept == start + Min({edges.end, TapMax - start})
           c == Centre(edges, start, TRUE)
           run == MaskRun(start, c.dq)
<1>1. /\ pc = "writes"
      /\ UNCHANGED <<gateVars, board, locals, dqs_in, dq_in, curr_read_lat, passed>>
      /\ \/ /\ EdgeMissing(edges) # {}
            /\ dqs_out' = [dqs_out EXCEPT ![group] = swept]
            /\ oct_out' = [oct_out EXCEPT ![group] = swept]
            /\ dq_out' = [dq_out EXCEPT ![group] = AtTap(0)]
            /\ Failed(group * BitCount + Min(EdgeMissing(edges)), "writes", "writes centre")
            /\ pc' = "hand over"
            /\ UNCHANGED dm_out
         \/ /\ EdgeMissing(edges) = {}
            /\ dq_out' = [dq_out EXCEPT ![group] = c.dq]
            /\ dm_out' = [dm_out EXCEPT ![group] = MaskDelay(run)]
            /\ oct_out' = [oct_out EXCEPT ![group] = start]
            /\ \/ pc' = "read again" /\ UNCHANGED error
               \/ pc' = "hand over" /\ Failed(group, "writes", "writes centre")
            /\ UNCHANGED dqs_out
  BY Zenon DEF CentreWrites
<1>2. /\ board \in Boards /\ group \in Groups /\ DelaysTyped /\ GateTyped
      /\ LocalsTyped /\ LoopsTyped /\ UNCHANGED curr_read_lat
      /\ error \in Errors /\ UNCHANGED gateVars
  BY <1>1, Zenon DEF CalTyped, LocalsTyped
<1>3. /\ swept \in Taps
      /\ EdgeMissing(edges) = {} =>
           c.dq \in [Bits -> Taps] /\ MaskDelay(run) \in Taps
  BY <1>2, WriteCentre, Zenon
<1>4. start \in Taps
  BY <1>2 DEF DelaysTyped
<1>5. EdgeMissing(edges) # {} => group * BitCount + Min(EdgeMissing(edges)) \in Nat
  BY <1>2, BitNumber, Zenon
<1> DEFINE places == MaskDelay(run)
           delayed == c.dq
<1> HIDE DEF start, edges, swept, places, delayed
<1>6. error' \in Errors
  <2>1. group \in Nat
    BY <1>2, CalConstants
  <2>2. \A g \in Nat : Failed(g, "writes", "writes centre") => error' \in Errors
    BY <1>2, FailedTyped
  <2> QED BY <1>1, <1>2, <1>5, <2>1, <2>2, Zenon
<1>7. DelaysTyped'
  <2>1. /\ dqs_in \in [Groups -> Taps] /\ dq_in \in [Groups -> [Bits -> Taps]]
        /\ dqs_out \in [Groups -> Taps] /\ oct_out \in [Groups -> Taps]
        /\ dq_out \in [Groups -> [Bits -> Taps]] /\ dm_out \in [Groups -> Taps]
    BY <1>2, Zenon DEF DelaysTyped
  <2>2. /\ \/ dqs_out' = [dqs_out EXCEPT ![group] = swept]
           \/ dqs_out' = dqs_out
        /\ \/ oct_out' = [oct_out EXCEPT ![group] = swept]
           \/ oct_out' = [oct_out EXCEPT ![group] = start]
        /\ \/ dq_out' = [dq_out EXCEPT ![group] = AtTap(0)]
           \/ dq_out' = [dq_out EXCEPT ![group] = delayed] /\ EdgeMissing(edges) = {}
        /\ \/ dm_out' = dm_out
           \/ dm_out' = [dm_out EXCEPT ![group] = places] /\ EdgeMissing(edges) = {}
        /\ dqs_in' = dqs_in /\ dq_in' = dq_in
    BY <1>1, Zenon DEF places, delayed
  <2>3. EdgeMissing(edges) = {} => delayed \in [Bits -> Taps] /\ places \in Taps
    BY <1>3, Zenon DEF places, delayed
  <2>4. group \in Groups /\ swept \in Taps /\ start \in Taps /\ AtTap(0) \in [Bits -> Taps]
    BY <1>2, <1>3, <1>4, CalConstants, Zenon
  <2>5. dqs_out' \in [Groups -> Taps]
    BY <2>1, <2>2, <2>4, GroupSet, Zenon
  <2>6. oct_out' \in [Groups -> Taps]
    BY <2>1, <2>2, <2>4, GroupSet, Zenon
  <2>7. dq_out' \in [Groups -> [Bits -> Taps]]
    <3>1. CASE dq_out' = [dq_out EXCEPT ![group] = AtTap(0)]
      BY <2>1, <2>4, <3>1, GroupSet, Zenon
    <3>2. CASE dq_out' = [dq_out EXCEPT ![group] = delayed] /\ EdgeMissing(edges) = {}
      BY <2>1, <2>3, <2>4, <3>2, GroupSet, Zenon
    <3> QED BY <2>2, <3>1, <3>2, Zenon
  <2>8. dm_out' \in [Groups -> Taps]
    <3>1. CASE dm_out' = [dm_out EXCEPT ![group] = places] /\ EdgeMissing(edges) = {}
      BY <2>1, <2>3, <2>4, <3>1, GroupSet, Zenon
    <3> QED BY <2>1, <2>2, <3>1, Zenon
  <2> QED BY <2>1, <2>2, <2>5, <2>6, <2>7, <2>8, Zenon DEF DelaysTyped
<1>8. LocalsTyped'
  BY <1>1, <1>2, Zenon DEF LocalsTyped, locals
<1>9. LoopsTyped'
  <2>1. pc = "writes" /\ pc' \in {"read again", "hand over"} /\ curr_read_lat' = curr_read_lat
    BY <1>1, Zenon
  <2> QED BY <1>2, <2>1 DEF LoopsTyped, Searching, Afterwards
<1>10. GateTyped' /\ UNCHANGED <<board, passed, curr_read_lat>>
  BY <1>1, <1>2, SameGate, Zenon
<1> QED BY <1>6, <1>7, <1>8, <1>9, <1>10, Zenon DEF CalTyped

LEMMA CentreAfterWritesTyped ==
  ASSUME CalTyped, CentreAfterWrites
  PROVE  CalTyped'
<1> DEFINE edges == ReadEdges
           c == Centre(edges, dqs_in[group], FALSE)
<1>1. /\ pc = "read again"
      /\ UNCHANGED <<gateVars, board, out_d, taps, orig, failed_substage, dqs_out, oct_out,
                     dq_out, dm_out, curr_read_lat, passed>>
      /\ \/ /\ EdgeMissing(edges) # {}
            /\ ReadEdgeMissing(edges, "vfifo after writes")
         \/ /\ EdgeMissing(edges) = {} /\ SetReadDelays(c)
            /\ Failed(group, "vfifo after writes", "vfifo centre") \/ UNCHANGED error
      /\ pc' \in {"hand over", "group", "latency"}
      /\ group' = group \/ (group + 1 < GroupCount /\ group' = group + 1)
  BY Zenon DEF CentreAfterWrites
<1>2. /\ board \in Boards /\ group \in Groups /\ DelaysTyped /\ GateTyped
      /\ LocalsTyped /\ LoopsTyped /\ UNCHANGED curr_read_lat
      /\ error \in Errors /\ UNCHANGED gateVars
  BY <1>1, Zenon DEF CalTyped, LocalsTyped
<1>3. EdgeMissing(edges) = {} => c.dqs \in Taps /\ c.dq \in [Bits -> Taps]
  BY <1>2, ReadCentre, Zenon
<1> HIDE DEF c, edges
<1>4. /\ error' \in Errors
      /\ dqs_in' \in [Groups -> Taps] /\ dq_in' \in [Groups -> [Bits -> Taps]]
  <2>1. CASE EdgeMissing(edges) # {} /\ ReadEdgeMissing(edges, "vfifo after writes")
    BY <2>1, EdgeMissingTyped
  <2>2. CASE /\ EdgeMissing(edges) = {} /\ SetReadDelays(c)
             /\ Failed(group, "vfifo after writes", "vfifo centre") \/ UNCHANGED error
    <3>1. error' \in Errors
      <4>1. group \in Nat
        BY <1>2, CalConstants
      <4> QED BY <1>2, <2>2, <4>1, FailedTyped
    <3> QED BY <1>3, <2>2, <3>1, SetReadTyped
  <2> QED BY <1>1, <2>1, <2>2, Zenon
<1>5. group' \in Groups
  <2>1. GroupCount \in Nat /\ group \in Groups
    BY <1>2, CalConstants, Zenon
  <2>2. group' = group \/ (group + 1 < GroupCount /\ group' = group + 1)
    BY <1>1, Zenon
  <2> QED BY <2>1, <2>2 DEF Groups
<1>6. LocalsTyped'
  BY <1>1, <1>2, <1>5, Zenon DEF LocalsTyped
<1>7. DelaysTyped'
  BY <1>1, <1>2, <1>4, Zenon DEF DelaysTyped
<1>8. LoopsTyped'
  <2>1. pc = "read again" /\ pc' \in {"hand over", "group", "latency"}
        /\ curr_read_lat' = curr_read_lat
    BY <1>1, Zenon
  <2> QED BY <1>2, <2>1 DEF LoopsTyped, Searching, Afterwards
<1>9. GateTyped' /\ UNCHANGED <<board, passed, curr_read_lat>>
  BY <1>1, <1>2, SameGate, Zenon
<1> QED BY <1>4, <1>6, <1>7, <1>8, <1>9, Zenon DEF CalTyped

LEMMA CentreLatencyTyped ==
  ASSUME CalTyped, CentreLatency
  PROVE  CalTyped'
<1>1. /\ pc = "latency" /\ pc' = "hand over"
      /\ UNCHANGED <<gateVars, board, locals, delays>>
      /\ \/ /\ Failed(255, "lfifo", "read latency")
            /\ UNCHANGED <<curr_read_lat, passed>>
         \/ /\ \E n \in 0 .. curr_read_lat - 1 : curr_read_lat' = n + 2
            /\ passed' = TRUE
            /\ UNCHANGED error
  BY Zenon DEF CentreLatency
<1>2. curr_read_lat \in 0 .. LatencyMax /\ LatencyMax \in Nat
  <2>1. pc \notin Afterwards
    BY <1>1 DEF Afterwards
  <2> QED BY <2>1, CalConstants, Zenon DEF CalTyped, LoopsTyped
<1>3. curr_read_lat' \in 0 .. LatencyMax + 1
  <2>1. curr_read_lat' = curr_read_lat \/ \E n \in 0 .. curr_read_lat - 1 : curr_read_lat' = n + 2
    BY <1>1, Zenon
  <2> QED BY <1>2, <2>1
<1>4. error' \in Errors /\ passed' \in BOOLEAN
  <2>1. CASE Failed(255, "lfifo", "read latency") /\ UNCHANGED <<curr_read_lat, passed>>
    <3>1. error \in Errors /\ passed \in BOOLEAN
      BY Zenon DEF CalTyped
    <3>2. 255 \in Nat
      OBVIOUS
    <3>3. error' \in Errors
      BY <2>1, <3>1, <3>2, FailedTyped
    <3> QED BY <2>1, <3>1, <3>3
  <2>2. CASE passed' = TRUE /\ UNCHANGED error
    <3>1. error \in Errors
      BY Zenon DEF CalTyped
    <3> QED BY <2>2, <3>1
  <2> QED BY <1>1, <2>1, <2>2, Zenon
<1>5. GateTyped' /\ LocalsTyped' /\ DelaysTyped' /\ board' \in Boards
  <2>1. GateTyped /\ LocalsTyped /\ DelaysTyped /\ board \in Boards
    BY Zenon DEF CalTyped
  <2>2. GateTyped'
    BY <1>1, <2>1, SameGate, Zenon
  <2>3. LocalsTyped' /\ DelaysTyped' /\ board' \in Boards
    BY <1>1, <2>1, Zenon DEF LocalsTyped, DelaysTyped, locals, delays
  <2> QED BY <2>2, <2>3
<1>6. LoopsTyped'
  BY <1>1 DEF LoopsTyped, Searching, Afterwards
<1> QED BY <1>3, <1>4, <1>5, <1>6, Zenon DEF CalTyped

\* The steps that touch neither locals nor delays.
LEMMA EndTyped ==
  ASSUME CalTyped, pc' \in Afterwards, error' \in Errors,
         UNCHANGED <<gateVars, board, locals, delays, curr_read_lat, passed>>
  PROVE  CalTyped'
<1>1. /\ GateTyped /\ LocalsTyped /\ DelaysTyped /\ board \in Boards /\ passed \in BOOLEAN
      /\ curr_read_lat \in 0 .. LatencyMax + 1
  BY Zenon DEF CalTyped
<1>2. GateTyped'
  BY <1>1, SameGate, Zenon
<1>3. /\ LocalsTyped' /\ DelaysTyped' /\ board' \in Boards /\ passed' \in BOOLEAN
      /\ curr_read_lat' \in 0 .. LatencyMax + 1
  BY <1>1, Zenon DEF LocalsTyped, DelaysTyped, locals, delays
<1>4. LoopsTyped'
  BY DEF LoopsTyped, Searching, Afterwards
<1> QED BY <1>2, <1>3, <1>4, Zenon DEF CalTyped

LEMMA NextTyped ==
  ASSUME CalTyped, [CalNext]_calVars
  PROVE  CalTyped'
<1>1. CASE VfifoFailed
  <2>1. /\ Failed(group, "vfifo", failed_substage) /\ pc' = "hand over"
        /\ UNCHANGED <<gateVars, board, locals, delays, curr_read_lat, passed>>
    BY <1>1, Zenon DEF VfifoFailed
  <2>2. /\ group \in Nat /\ error \in Errors
        /\ failed_substage \in {"nil", "guaranteed read", "dqs enable phase", "vfifo centre"}
    BY CalConstants DEF CalTyped, LocalsTyped
  <2>3. error' \in Errors
    BY <2>1, <2>2, FailedTyped
  <2> QED BY <2>1, <2>3, EndTyped DEF Afterwards
<1>2. CASE HandOver \/ Tell
  <2>1. /\ pc' \in {"tell", "done"} /\ UNCHANGED error
        /\ UNCHANGED <<gateVars, board, locals, delays, curr_read_lat, passed>>
    BY <1>2, Zenon DEF HandOver, Tell
  <2>2. error' \in Errors
    BY <2>1, Zenon DEF CalTyped
  <2> QED BY <2>1, <2>2, EndTyped DEF Afterwards
<1>3. CASE UNCHANGED calVars
  <2>1. /\ UNCHANGED <<gateVars, board, locals, delays, curr_read_lat, passed>>
        /\ UNCHANGED <<pc, error>>
    BY <1>3, Zenon DEF calVars, report
  <2>2. /\ GateTyped /\ LocalsTyped /\ DelaysTyped /\ board \in Boards /\ passed \in BOOLEAN
        /\ curr_read_lat \in 0 .. LatencyMax + 1 /\ LoopsTyped /\ error \in Errors
    BY Zenon DEF CalTyped
  <2>3. GateTyped'
    BY <2>1, <2>2, SameGate, Zenon
  <2>4. /\ LocalsTyped' /\ DelaysTyped' /\ board' \in Boards /\ passed' \in BOOLEAN
        /\ curr_read_lat' \in 0 .. LatencyMax + 1 /\ LoopsTyped' /\ error' \in Errors
    BY <2>1, <2>2, Zenon DEF LocalsTyped, DelaysTyped, LoopsTyped, locals, delays
  <2> QED BY <2>3, <2>4, Zenon DEF CalTyped
<1> QED
  BY <1>1, <1>2, <1>3, StartTyped, ZeroGroupTyped, LoadPatternTyped, CallGateTyped,
     SearchStepTyped, GateFoundTyped, GateLostTyped, CentreReadTyped, CentreWritesTyped,
     CentreAfterWritesTyped, CentreLatencyTyped, Zenon DEF CalNext

\* Whatever the board, every delay that is set is one that its chain has, the
\* locals stay within their loops and the latency within what the code can
\* reach (sequencer_defines.h:94-102).
THEOREM CalibrationTyped ==
  CalInit /\ [][CalNext]_calVars => []CalTypeOK
<1>1. CalTyped => CalTypeOK
  BY Zenon DEF CalTyped, GateTyped, LocalsTyped, DelaysTyped, CalTypeOK
<1>2. CalTyped /\ [CalNext]_calVars => CalTyped'
  BY NextTyped
<1> QED BY <1>1, <1>2, InitTyped, PTL

-----------------------------------------------------------------------------
(* Success. *)

\* The writes of a group are right, and so are its reads, and each lies in the
\* middle of what the sweeps have reached.
WritesMiddle(g) ==
  \A b \in Bits :
    WriteReached(board.groups[g], b) =>
      \/ dq_out[g][b] \in {0, TapMax}
      \/ Below(board.groups[g].write[b], dqs_out[g], dq_out[g][b])
           - Above(board.groups[g].write[b], dqs_out[g], dq_out[g][b]) \in -1 .. 1

ReadsMiddle(g) ==
  ReadsReached(board.groups[g]) =>
    \A b \in Bits : Below(board.groups[g].read[b], dqs_in[g], dq_in[g][b])
                     - Above(board.groups[g].read[b], dqs_in[g], dq_in[g][b]) \in -1 .. 1

WritesGood(g) ==
  /\ WritesRight(g, dqs_out[g], dq_out[g]) = Bits
  /\ dqs_out[g] - dm_out[g] \in board.groups[g].mask
  /\ WritesMiddle(g)

GroupGood(g) ==
  /\ ReadsRight(g, dqs_in[g], dq_in[g]) = Bits
  /\ ReadsMiddle(g)
  /\ WritesGood(g)

\* A sweep from where the strobe is reaches the lower end of every eye.
Reaching ==
  ReadsReached(board.groups[group]) =>
    \A b \in Bits : dqs_in[group] - board.groups[group].read[b][1] <= TapMax

\* The groups done with stay right, the one at hand has its strobe within
\* reach of the eyes once it has been centred and writes right when its reads
\* are centred again, and all of them are right when the latency is.
Calibrated ==
  /\ \A g \in Groups : g < group => GroupGood(g)
  /\ pc \in {"writes", "read again"} => Reaching
  /\ pc = "read again" => WritesGood(group)
  /\ pc = "latency" => \A g \in Groups : GroupGood(g)
  /\ passed = TRUE => /\ pc \in Afterwards
                      /\ \A g \in Groups : GroupGood(g)
                      /\ curr_read_lat > board.enough
  /\ status = "success" => passed = TRUE

LEMMA InitCalibrated == CalInit => Calibrated
<1> SUFFICES ASSUME CalInit PROVE Calibrated
  OBVIOUS
<1>1. pc = "start" /\ group = 0 /\ passed = FALSE /\ status = "reset"
  BY Zenon DEF CalInit
<1>2. \A g \in Groups : ~(g < 0)
  BY DEF Groups
<1> QED BY <1>1, <1>2 DEF Calibrated

\* A group whose delays are not touched.
LEMMA GoodKept ==
  ASSUME NEW g \in Groups, board' = board,
         /\ dqs_in'[g] = dqs_in[g] /\ dq_in'[g] = dq_in[g]
         /\ dqs_out'[g] = dqs_out[g] /\ dq_out'[g] = dq_out[g] /\ dm_out'[g] = dm_out[g],
         GroupGood(g)
  PROVE  GroupGood(g)'
<1> DEFINE G == board.groups[g]
           s == dqs_in[g]
           dq == dq_in[g]
           t == dqs_out[g]
           out == dq_out[g]
<1>1. board'.groups[g] = G /\ dqs_in'[g] = s /\ dq_in'[g] = dq /\ dqs_out'[g] = t /\ dq_out'[g] = out
  BY Zenon
<1>2. ReadsMiddle(g) => ReadsMiddle(g)'
  BY <1>1, Zenon DEF ReadsMiddle, ReadsReached, Below, Above
<1>3. WritesMiddle(g) => WritesMiddle(g)'
  BY <1>1, Zenon DEF WritesMiddle, WriteReached, Below, Above
<1> QED BY <1>2, <1>3, Zenon DEF GroupGood, WritesGood, ReadsRight, WritesRight

\* Only the delays of the group at hand change.
AtHand ==
  /\ board' = board
  /\ \A g \in Groups : g # group =>
       /\ dqs_in'[g] = dqs_in[g] /\ dq_in'[g] = dq_in[g]
       /\ dqs_out'[g] = dqs_out[g] /\ dq_out'[g] = dq_out[g] /\ dm_out'[g] = dm_out[g]

LEMMA OthersGood ==
  ASSUME CalTyped, Calibrated, AtHand, NEW g \in Groups, g < group
  PROVE  GroupGood(g)'
<1>1. g # group
  <2>1. g \in Nat
    BY CalConstants
  <2> QED BY <2>1
<1>2. GroupGood(g)
  BY Zenon DEF Calibrated
<1> QED BY <1>1, <1>2, GoodKept, Zenon DEF AtHand

\* Delays of the group at hand are set.
Touched(f) == f' = f \/ \E x : f' = [f EXCEPT ![group] = x]

LEMMA TouchedIs ==
  ASSUME CalTyped, board' = board, Touched(dqs_in), Touched(dq_in),
         Touched(dqs_out), Touched(dq_out), Touched(dm_out)
  PROVE  AtHand
<1>1. /\ DOMAIN dqs_in = Groups /\ DOMAIN dq_in = Groups
      /\ DOMAIN dqs_out = Groups /\ DOMAIN dq_out = Groups /\ DOMAIN dm_out = Groups
  BY DEF CalTyped, DelaysTyped
<1>2. ASSUME NEW f, DOMAIN f = Groups, NEW x, NEW g \in Groups, g # group
      PROVE  [f EXCEPT ![group] = x][g] = f[g]
  BY <1>2
<1> QED BY <1>1, <1>2, Zenon DEF AtHand, Touched

\* Steps on the way: no group is finished.
LEMMA Underway ==
  ASSUME CalTyped, Calibrated, AtHand, pc \notin Afterwards, UNCHANGED <<group, passed, status>>,
         pc' \notin {"writes", "read again", "latency"}
  PROVE  Calibrated'
<1>1. \A g \in Groups : g < group => GroupGood(g)'
  BY OthersGood
<1>2. passed # TRUE /\ status # "success"
  BY DEF Calibrated
<1> QED BY <1>1, <1>2 DEF Calibrated

LEMMA ReadSet ==
  ASSUME CalTyped, EdgeMissing(ReadEdges) = {},
         LET c == Centre(ReadEdges, dqs_in[group], FALSE) IN Inside(c) /\ SetReadDelays(c)
  PROVE  ReadsRight(group, dqs_in'[group], dq_in'[group]) = Bits
<1> DEFINE c == Centre(ReadEdges, dqs_in[group], FALSE)
<1>1. /\ board \in Boards /\ group \in Groups /\ DelaysTyped
      /\ dqs_in \in [Groups -> Taps] /\ dq_in \in [Groups -> [Bits -> Taps]]
  BY Zenon DEF CalTyped, LocalsTyped, DelaysTyped
<1>2. ReadsRight(group, c.dqs, c.dq) = Bits
  BY <1>1, ReadCentre, Zenon
<1>3. /\ dqs_in' = [dqs_in EXCEPT ![group] = c.dqs]
      /\ dq_in' = [dq_in EXCEPT ![group] = c.dq]
  BY Zenon DEF SetReadDelays
<1> HIDE DEF c
<1>4. dqs_in'[group] = c.dqs /\ dq_in'[group] = c.dq
  BY <1>1, <1>3
<1> QED BY <1>2, <1>4, Zenon

LEMMA ReachingKept ==
  ASSUME Reaching, UNCHANGED <<board, group, dqs_in>>
  PROVE  Reaching'
  BY Zenon DEF Reaching, ReadsReached

\* The delays that a centring of reads chooses.
LEMMA ReadDelaysSet ==
  ASSUME CalTyped, SetReadDelays(Centre(ReadEdges, dqs_in[group], FALSE)), board' = board
  PROVE  LET eyes == board.groups[group].read
             c == Centre(Swept(eyes, dqs_in[group], FALSE), dqs_in[group], FALSE)
         IN  /\ eyes \in Eyes /\ dqs_in[group] \in Taps
             /\ ReadEdges = Swept(eyes, dqs_in[group], FALSE)
             /\ dqs_in'[group] = c.dqs /\ dq_in'[group] = c.dq
<1> DEFINE eyes == board.groups[group].read
           start == dqs_in[group]
           c == Centre(Swept(eyes, start, FALSE), start, FALSE)
           Goal == /\ eyes \in Eyes /\ start \in Taps
                   /\ ReadEdges = Swept(eyes, start, FALSE)
                   /\ dqs_in'[group] = c.dqs /\ dq_in'[group] = c.dq
<1> SUFFICES Goal
  OBVIOUS
<1>1. /\ board \in Boards /\ group \in Groups
      /\ dqs_in \in [Groups -> Taps] /\ dq_in \in [Groups -> [Bits -> Taps]]
  BY Zenon DEF CalTyped, LocalsTyped, DelaysTyped
<1>2. eyes \in Eyes /\ start \in Taps
  BY <1>1, BoardIs
<1>3. ReadEdges = Swept(eyes, start, FALSE)
  BY ReadEdgesSwept
<1>4. /\ dqs_in' = [dqs_in EXCEPT ![group] = c.dqs]
      /\ dq_in' = [dq_in EXCEPT ![group] = c.dq]
  BY <1>3, Zenon DEF SetReadDelays
<1>5. dqs_in'[group] = c.dqs /\ dq_in'[group] = c.dq
  <2> HIDE DEF c
  <2> QED BY <1>1, <1>4
<1> QED BY <1>2, <1>3, <1>5

LEMMA ReadSetReaching ==
  ASSUME CalTyped, EdgeMissing(ReadEdges) = {},
         Inside(Centre(ReadEdges, dqs_in[group], FALSE)),
         SetReadDelays(Centre(ReadEdges, dqs_in[group], FALSE)), UNCHANGED <<board, group>>
  PROVE  Reaching'
<1> DEFINE eyes == board.groups[group].read
           start == dqs_in[group]
           c == Centre(Swept(eyes, start, FALSE), start, FALSE)
<1>1. /\ eyes \in Eyes /\ start \in Taps
      /\ EdgeMissing(Swept(eyes, start, FALSE)) = {} /\ Inside(c)
      /\ dqs_in'[group] = c.dqs
  BY ReadDelaysSet, Zenon
<1>2. ASSUME ReadsReached(board.groups[group]), NEW b \in Bits
      PROVE  dqs_in'[group] - eyes[b][1] <= TapMax
  <2>1. \A x, y \in Bits : eyes[x][2] - eyes[y][1] <= TapMax
    BY <1>2, Zenon DEF ReadsReached
  <2> HIDE DEF eyes, start
  <2>2. c.dqs - eyes[b][1] <= TapMax
    BY <1>1, <2>1, ReadReach, Zenon
  <2> HIDE DEF c
  <2> QED BY <1>1, <2>2
<1> HIDE DEF c, start
<1> QED BY <1>2, Zenon DEF Reaching, ReadsReached

LEMMA ReadSetMiddle ==
  ASSUME CalTyped, Reaching,
         SetReadDelays(Centre(ReadEdges, dqs_in[group], FALSE)), board' = board,
         NEW g \in Groups, g = group
  PROVE  ReadsMiddle(g)'
<1> DEFINE eyes == board.groups[group].read
           start == dqs_in[group]
           c == Centre(Swept(eyes, start, FALSE), start, FALSE)
<1>1. /\ eyes \in Eyes /\ start \in Taps
      /\ dqs_in'[group] = c.dqs /\ dq_in'[group] = c.dq
  BY ReadDelaysSet, Zenon
<1>2. ASSUME ReadsReached(board.groups[group]), NEW b \in Bits
      PROVE  Below(eyes[b], c.dqs, c.dq[b]) - Above(eyes[b], c.dqs, c.dq[b]) \in -1 .. 1
  <2>1. \A x, y \in Bits : eyes[x][2] - eyes[y][1] <= TapMax
    BY <1>2, Zenon DEF ReadsReached
  <2>2. \A x \in Bits : start - eyes[x][1] <= TapMax
    BY <1>2, Zenon DEF Reaching
  <2> HIDE DEF eyes, start
  <2> QED BY <1>1, <2>1, <2>2, ReadRoom, Zenon
<1> HIDE DEF c, start
<1> QED BY <1>1, <1>2, Zenon DEF ReadsMiddle, ReadsReached, Below, Above

LEMMA WriteSetMiddle ==
  ASSUME CalTyped, dqs_out[group] = OutReserve, UNCHANGED <<board, group>>,
         dqs_out'[group] = dqs_out[group],
         dq_out'[group] = Centre(WriteEdges, dqs_out[group], TRUE).dq
  PROVE  WritesMiddle(group)'
<1> DEFINE eyes == board.groups[group].write
           start == dqs_out[group]
           dq == Centre(Swept(eyes, start, TRUE), start, TRUE).dq
<1>1. /\ board \in Boards /\ group \in Groups /\ dqs_out \in [Groups -> Taps]
  BY Zenon DEF CalTyped, LocalsTyped, DelaysTyped
<1>2. eyes \in Eyes /\ start \in Taps
  BY <1>1, BoardIs
<1>3. dq_out'[group] = dq
  BY WriteEdgesSwept
<1>4. ASSUME NEW b \in Bits, WriteReached(board.groups[group], b)
      PROVE  dq[b] \in {0, TapMax}
               \/ Below(eyes[b], start, dq[b]) - Above(eyes[b], start, dq[b]) \in -1 .. 1
  <2>1. start - eyes[b][1] <= TapMax
    BY <1>4, Zenon DEF WriteReached
  <2> HIDE DEF eyes, start
  <2> QED BY <1>2, <2>1, WriteRoom
<1> HIDE DEF dq
<1> QED BY <1>3, <1>4, Zenon DEF WritesMiddle, WriteReached, Below, Above

LEMMA CentreReadCalibrated ==
  ASSUME CalTyped, Calibrated, CentreRead
  PROVE  Calibrated'
<1> DEFINE edges == ReadEdges
           c == Centre(edges, dqs_in[group], FALSE)
<1>1. /\ pc = "centre" /\ UNCHANGED <<board, group, passed, status>>
      /\ Touched(dqs_in) /\ Touched(dq_in)
      /\ Touched(dqs_out) /\ Touched(dq_out) /\ Touched(dm_out)
  BY Zenon DEF CentreRead, ReadEdgeMissing, SetReadDelays, ZeroOutputs, Touched
<1>2. \/ pc' \in {"gate", "pattern", "vfifo failed"}
      \/ pc' = "writes" /\ EdgeMissing(edges) = {} /\ Inside(c) /\ SetReadDelays(c)
  BY Zenon DEF CentreRead, NextInDelay, NextOutDelay
<1>3. AtHand
  BY <1>1, TouchedIs, Zenon
<1>4. CASE pc' \in {"gate", "pattern", "vfifo failed"}
  BY <1>1, <1>3, <1>4, Underway DEF Afterwards
<1>5. CASE pc' = "writes" /\ EdgeMissing(edges) = {} /\ Inside(c) /\ SetReadDelays(c)
  <2>1. Reaching'
    BY <1>1, <1>5, ReadSetReaching, Zenon
  <2>2. \A g \in Groups : g < group => GroupGood(g)'
    BY <1>3, OthersGood
  <2>3. passed # TRUE /\ status # "success"
    BY <1>1 DEF Calibrated, Afterwards
  <2>4. pc' = "writes"
    BY <1>5
  <2> HIDE DEF c, edges
  <2> QED BY <1>1, <2>1, <2>2, <2>3, <2>4 DEF Calibrated
<1> QED BY <1>2, <1>4, <1>5, Zenon

LEMMA CentreWritesCalibrated ==
  ASSUME CalTyped, Calibrated, WritesStartAtReserve, CentreWrites
  PROVE  Calibrated'
<1> DEFINE start == dqs_out[group]
           edges == WriteEdges
           c == Centre(edges, start, TRUE)
           run == MaskRun(start, c.dq)
<1>1. /\ pc = "writes" /\ UNCHANGED <<board, group, dqs_in, dq_in, passed, status>>
      /\ Touched(dqs_out) /\ Touched(dq_out) /\ Touched(dm_out)
      /\ \/ pc' = "hand over"
         \/ /\ pc' = "read again" /\ EdgeMissing(edges) = {}
            /\ Inside(c) /\ MaskMargin(run) >= 0
            /\ dqs_out' = dqs_out
            /\ dq_out' = [dq_out EXCEPT ![group] = c.dq]
            /\ dm_out' = [dm_out EXCEPT ![group] = MaskDelay(run)]
  BY Zenon DEF CentreWrites, locals, Touched
<1>2. AtHand
  BY <1>1, TouchedIs, Zenon DEF Touched
<1>3. pc \notin Afterwards
  BY <1>1 DEF Afterwards
<1>4. CASE pc' = "hand over"
  BY <1>1, <1>2, <1>3, <1>4, Underway
<1>5. CASE /\ pc' = "read again" /\ EdgeMissing(edges) = {}
           /\ Inside(c) /\ MaskMargin(run) >= 0
           /\ dqs_out' = dqs_out
           /\ dq_out' = [dq_out EXCEPT ![group] = c.dq]
           /\ dm_out' = [dm_out EXCEPT ![group] = MaskDelay(run)]
  <2>1. /\ board \in Boards /\ group \in Groups /\ DelaysTyped
        /\ dq_out \in [Groups -> [Bits -> Taps]] /\ dm_out \in [Groups -> Taps]
    BY Zenon DEF CalTyped, LocalsTyped, DelaysTyped
  <2>2. /\ WritesRight(group, start, c.dq) = Bits
        /\ start - MaskDelay(run) \in board.groups[group].mask
    BY <1>5, <2>1, WriteCentre, Zenon
  <2>3. dqs_out'[group] = start
    BY <1>5
  <2> DEFINE bits == c.dq
             mask == MaskDelay(run)
  <2>4. dq_out'[group] = bits /\ dm_out'[group] = mask
    <3>1. dq_out' = [dq_out EXCEPT ![group] = bits] /\ dm_out' = [dm_out EXCEPT ![group] = mask]
      BY <1>5
    <3> HIDE DEF bits, mask
    <3> QED BY <2>1, <3>1
  <2>5. WritesGood(group)'
    <3>1. /\ WritesRight(group, start, bits) = Bits
          /\ start - mask \in board.groups[group].mask
      BY <2>2
    <3>2. dqs_out[group] = OutReserve
      BY <1>1, Zenon DEF WritesStartAtReserve
    <3>3. WritesMiddle(group)'
      BY <1>1, <2>3, <2>4, <3>2, WriteSetMiddle, Zenon
    <3> HIDE DEF bits, mask, start
    <3> QED BY <1>1, <2>3, <2>4, <3>1, <3>3, Zenon DEF WritesGood, WritesRight
  <2>6. \A g \in Groups : g < group => GroupGood(g)'
    BY <1>2, OthersGood
  <2>7. passed # TRUE /\ status # "success"
    BY <1>3 DEF Calibrated
  <2> HIDE DEF c, run, start, edges
  <2>8. pc' = "read again" /\ UNCHANGED <<group, passed, status>>
    BY <1>1, <1>5, Zenon
  <2>9. Reaching'
    BY <1>1, ReachingKept, Zenon DEF Calibrated
  <2> QED BY <2>5, <2>6, <2>7, <2>8, <2>9 DEF Calibrated
<1> QED BY <1>1, <1>4, <1>5, Zenon

LEMMA CentreAfterWritesCalibrated ==
  ASSUME CalTyped, Calibrated, CentreAfterWrites
  PROVE  Calibrated'
<1> DEFINE edges == ReadEdges
           c == Centre(edges, dqs_in[group], FALSE)
<1>1. /\ pc = "read again"
      /\ UNCHANGED <<board, dqs_out, dq_out, dm_out, passed, status>>
      /\ Touched(dqs_in) /\ Touched(dq_in)
      /\ \/ pc' = "hand over" /\ UNCHANGED group
         \/ /\ EdgeMissing(edges) = {} /\ Inside(c) /\ SetReadDelays(c)
            /\ \/ pc' = "group" /\ group' = group + 1
               \/ ~(group + 1 < GroupCount) /\ pc' = "latency" /\ group' = group
  BY Zenon DEF CentreAfterWrites, Touched, ReadEdgeMissing, SetReadDelays
<1>2. AtHand
  BY <1>1, TouchedIs, Zenon DEF Touched
<1>3. pc \notin Afterwards
  BY <1>1 DEF Afterwards
<1>4. CASE pc' = "hand over" /\ UNCHANGED group
  BY <1>1, <1>2, <1>3, <1>4, Underway
<1>5. CASE /\ EdgeMissing(edges) = {} /\ Inside(c) /\ SetReadDelays(c)
           /\ \/ pc' = "group" /\ group' = group + 1
              \/ ~(group + 1 < GroupCount) /\ pc' = "latency" /\ group' = group
  <2>1. \A g \in Groups : g = group => ReadsMiddle(g)'
    <3>1. Reaching
      BY <1>1, Zenon DEF Calibrated
    <3> QED BY <1>1, <1>5, <3>1, ReadSetMiddle, Zenon
  <2>2. ReadsRight(group, dqs_in'[group], dq_in'[group]) = Bits
    BY <1>5, ReadSet, Zenon
  <2>3. WritesGood(group)
    BY <1>1 DEF Calibrated
  <2>4. ASSUME NEW g \in Groups, g = group PROVE GroupGood(g)'
    <3>1. WritesMiddle(g)'
      BY <1>1, <2>3, <2>4, Zenon DEF WritesGood, WritesMiddle, WriteReached, Below, Above
    <3> QED BY <1>1, <2>1, <2>2, <2>3, <2>4, <3>1, Zenon
            DEF GroupGood, WritesGood, ReadsRight, WritesRight
  <2>5. \A g \in Groups : g < group \/ g = group => GroupGood(g)'
    BY <1>2, <2>4, OthersGood
  <2>6. passed' # TRUE /\ status' # "success"
    BY <1>1, <1>3 DEF Calibrated
  <2>7. group \in Groups /\ GroupCount \in Nat
    BY CalConstants, Zenon DEF CalTyped, LocalsTyped
  <2> HIDE DEF c, edges
  <2>8. CASE pc' = "group" /\ group' = group + 1
    <3>1. \A g \in Groups : g < group' => g < group \/ g = group
      BY <2>7, <2>8 DEF Groups
    <3> QED BY <2>5, <2>6, <2>8, <3>1 DEF Calibrated
  <2>9. CASE ~(group + 1 < GroupCount) /\ pc' = "latency" /\ group' = group
    <3>1. \A g \in Groups : g < group \/ g = group
      BY <2>7, <2>9 DEF Groups
    <3>2. \A g \in Groups : GroupGood(g)'
      BY <2>5, <3>1
    <3> QED BY <2>6, <2>9, <3>2 DEF Calibrated
  <2> QED BY <1>5, <2>8, <2>9, Zenon
<1> QED BY <1>1, <1>4, <1>5, Zenon

LEMMA CentreLatencyCalibrated ==
  ASSUME CalTyped, Calibrated, CentreLatency
  PROVE  Calibrated'
<1>1. /\ pc = "latency" /\ pc' = "hand over"
      /\ UNCHANGED <<board, group, dqs_in, dq_in, dqs_out, dq_out, dm_out, status>>
      /\ \/ passed' = passed
         \/ /\ curr_read_lat >= board.enough
            /\ \E n \in 0 .. curr_read_lat - 1 :
                 /\ \A m \in n + 1 .. curr_read_lat - 1 : ~(m = 0 \/ m < board.enough)
                 /\ curr_read_lat' = n + 2
            /\ passed' = TRUE
  BY Zenon DEF CentreLatency, locals, delays
<1>2. \A g \in Groups : GroupGood(g)'
  <2>1. \A g \in Groups : GroupGood(g)
    BY <1>1, Zenon DEF Calibrated
  <2> QED BY <1>1, <2>1, GoodKept, Zenon
<1>3. passed # TRUE /\ status # "success"
  BY <1>1 DEF Calibrated, Afterwards
<1>4. ASSUME passed' = TRUE PROVE curr_read_lat' > board'.enough
  <2>1. PICK n \in 0 .. curr_read_lat - 1 :
          /\ \A m \in n + 1 .. curr_read_lat - 1 : ~(m = 0 \/ m < board.enough)
          /\ curr_read_lat' = n + 2
    BY <1>1, <1>3, <1>4
  <2>2. curr_read_lat \in Nat
    BY CalConstants DEF CalTyped
  <2>3. board.enough \in Nat /\ curr_read_lat >= board.enough /\ board' = board
    <3>1. board \in Boards /\ 0 \in Groups
      BY CalConstants, Zenon DEF CalTyped
    <3>2. board.enough \in Nat
      BY <3>1, BoardIs, Zenon
    <3> QED BY <1>1, <1>3, <1>4, <3>2
  <2> DEFINE e == board.enough
  <2>4. e \in Nat /\ e <= n + 1
    <3>0. e \in Nat /\ curr_read_lat >= e
      BY <2>3
    <3> HIDE DEF e
    <3>1. CASE n + 1 <= curr_read_lat - 1
      <4>1. n + 1 \in n + 1 .. curr_read_lat - 1
        BY <2>2, <3>1
      <4>2. ~(n + 1 < e)
        BY <2>1, <4>1 DEF e
      <4> QED BY <3>0, <4>2
    <3>2. CASE ~(n + 1 <= curr_read_lat - 1)
      BY <2>2, <3>0, <3>2
    <3> QED BY <3>1, <3>2
  <2>5. n + 2 > e
    <3> HIDE DEF e
    <3> QED BY <2>4
  <2> QED BY <2>1, <2>3, <2>5
<1>5. pc' \in Afterwards /\ status' # "success"
  BY <1>1, <1>3 DEF Afterwards
<1> QED BY <1>1, <1>2, <1>4, <1>5 DEF Calibrated

\* The steps after the last delay.
LEMMA EndCalibrated ==
  ASSUME Calibrated, pc' \in Afterwards,
         UNCHANGED <<board, group, delays, curr_read_lat, passed>>,
         pc \in Afterwards \/ passed # TRUE,
         status' = status \/ (status' = "success" => passed = TRUE)
  PROVE  Calibrated'
<1>1. \A g \in Groups : GroupGood(g) => GroupGood(g)'
  BY GoodKept, Zenon DEF delays
<1>2. pc' \notin {"writes", "read again", "latency"}
  BY DEF Afterwards
<1> QED BY <1>1, <1>2 DEF Calibrated

LEMMA NextCalibrated ==
  ASSUME CalTyped, Calibrated, WritesStartAtReserve, [CalNext]_calVars
  PROVE  Calibrated'
<1>1. CASE Start
  <2>1. pc = "start" /\ pc' = "group" /\ group' = 0 /\ status' = "reset" /\ passed' = passed
    BY <1>1, Zenon DEF Start
  <2>2. passed # TRUE
    BY <2>1 DEF Calibrated, Afterwards
  <2>3. \A g \in Groups : ~(g < 0)
    BY DEF Groups
  <2> QED BY <2>1, <2>2, <2>3 DEF Calibrated
<1>2. CASE ZeroGroup
  <2>1. /\ pc = "group" /\ pc' = "pattern" /\ UNCHANGED <<board, group, passed, status>>
        /\ Touched(dqs_in) /\ Touched(dq_in)
        /\ Touched(dqs_out) /\ Touched(dq_out) /\ Touched(dm_out)
    BY <1>2, Zenon DEF ZeroGroup, ZeroOutputs, Touched, report
  <2>2. AtHand
    BY <2>1, TouchedIs, Zenon
  <2> QED BY <2>1, <2>2, Underway DEF Afterwards
<1>3. CASE LoadPattern
  <2>1. /\ pc = "pattern" /\ pc' \in {"pattern", "vfifo failed", "gate"}
        /\ UNCHANGED <<board, group, passed, status>>
        /\ Touched(dqs_in) /\ Touched(dq_in)
        /\ Touched(dqs_out) /\ Touched(dq_out) /\ Touched(dm_out)
    BY <1>3, Zenon DEF LoadPattern, NextOutDelay, Touched, report
  <2>2. AtHand
    BY <2>1, TouchedIs, Zenon
  <2> QED BY <2>1, <2>2, Underway DEF Afterwards
<1>4. CASE CallGate
  <2>1. /\ pc = "gate" /\ pc' = "search" /\ UNCHANGED <<board, group, passed, status>>
        /\ Touched(dqs_in) /\ Touched(dq_in)
        /\ Touched(dqs_out) /\ Touched(dq_out) /\ Touched(dm_out)
    BY <1>4, Zenon DEF CallGate, Touched, report, locals
  <2>2. AtHand
    BY <2>1, TouchedIs, Zenon
  <2> QED BY <2>1, <2>2, Underway DEF Afterwards
<1>5. CASE SearchStep
  <2>1. /\ pc = "search" /\ pc' = "search" /\ UNCHANGED <<board, group, passed, status>>
        /\ Touched(dqs_in) /\ Touched(dq_in)
        /\ Touched(dqs_out) /\ Touched(dq_out) /\ Touched(dm_out)
    BY <1>5, Zenon DEF SearchStep, Touched, report, locals, delays
  <2>2. AtHand
    BY <2>1, TouchedIs, Zenon
  <2> QED BY <2>1, <2>2, Underway DEF Afterwards
<1>6. CASE GateFound \/ GateLost
  <2>1. /\ pc = "search" /\ pc' \in {"centre", "gate", "pattern", "vfifo failed"}
        /\ UNCHANGED <<board, group, passed, status>>
        /\ Touched(dqs_in) /\ Touched(dq_in)
        /\ Touched(dqs_out) /\ Touched(dq_out) /\ Touched(dm_out)
    BY <1>6, Zenon DEF GateFound, GateLost, NextInDelay, NextOutDelay, Touched, report, locals
  <2>2. AtHand
    BY <2>1, TouchedIs, Zenon
  <2> QED BY <2>1, <2>2, Underway DEF Afterwards
<1>7. CASE VfifoFailed
  <2>1. /\ pc = "vfifo failed" /\ pc' = "hand over"
        /\ UNCHANGED <<board, group, delays, curr_read_lat, passed, status>>
    BY <1>7, Zenon DEF VfifoFailed, locals
  <2>2. passed # TRUE /\ pc' \in Afterwards
    BY <2>1 DEF Calibrated, Afterwards
  <2> QED BY <2>1, <2>2, EndCalibrated, Zenon
<1>8. CASE HandOver
  <2>1. /\ pc = "hand over" /\ pc' = "tell"
        /\ UNCHANGED <<board, group, delays, curr_read_lat, passed, status>>
    BY <1>8, Zenon DEF HandOver, locals
  <2>2. pc \in Afterwards /\ pc' \in Afterwards
    BY <2>1 DEF Afterwards
  <2> QED BY <2>1, <2>2, EndCalibrated, Zenon
<1>9. CASE Tell
  <2>1. /\ pc = "tell" /\ pc' = "done"
        /\ UNCHANGED <<board, group, delays, curr_read_lat, passed>>
        /\ status' = IF passed THEN "success" ELSE "fail"
    BY <1>9, Zenon DEF Tell, locals
  <2>2. pc \in Afterwards /\ pc' \in Afterwards /\ passed \in BOOLEAN
    BY <2>1 DEF Afterwards, CalTyped
  <2>3. status' = "success" => passed = TRUE
    BY <2>1, <2>2
  <2> QED BY <2>1, <2>2, <2>3, EndCalibrated, Zenon
<1>10. CASE UNCHANGED calVars
  <2>1. UNCHANGED <<pc, board, group, delays, curr_read_lat, passed, status>>
    BY <1>10, Zenon DEF calVars, locals, report
  <2>2. \A g \in Groups : GroupGood(g) => GroupGood(g)'
    BY <2>1, GoodKept, Zenon DEF delays
  <2>3. WritesGood(group) => WritesGood(group)'
    <3>1. UNCHANGED <<board, group, dqs_out, dq_out, dm_out>>
      BY <2>1, Zenon DEF delays
    <3>2. WritesMiddle(group) => WritesMiddle(group)'
      BY <3>1, Zenon DEF WritesMiddle, WriteReached, Below, Above
    <3> QED BY <3>1, <3>2, Zenon DEF WritesGood, WritesRight
  <2>4. Reaching => Reaching'
    BY <2>1, ReachingKept, Zenon DEF delays
  <2> QED BY <2>1, <2>2, <2>3, <2>4 DEF Calibrated
<1> QED
  BY <1>1, <1>2, <1>3, <1>4, <1>5, <1>6, <1>7, <1>8, <1>9, <1>10,
     CentreReadCalibrated, CentreWritesCalibrated, CentreAfterWritesCalibrated, CentreLatencyCalibrated,
     Zenon DEF CalNext

LEMMA AlwaysCalibrated ==
  CalInit /\ [][CalNext]_calVars => []Calibrated
<1>1. CalTyped /\ [CalNext]_calVars => CalTyped'
  BY NextTyped
<1>2. CalTyped /\ Calibrated /\ WritesStartAtReserve /\ [CalNext]_calVars => Calibrated'
  BY NextCalibrated
<1> QED BY <1>1, <1>2, InitTyped, InitCalibrated, WritesPrepared, PTL

\* Whatever the board, success is told only when every bit of every group
\* reads and writes, the mask is taken and the latency is more than enough
\* (sequencer.c:9602-9645).
THEOREM SuccessReal ==
  CalInit /\ [][CalNext]_calVars => []SuccessIsReal
<1>1. Calibrated => SuccessIsReal
  BY Zenon DEF Calibrated, GroupGood, WritesGood, SuccessIsReal
<1> QED BY <1>1, AlwaysCalibrated, PTL

\* The writes of every bit that the sweep has reached are in the middle of its
\* eye, within a tap, unless its delay is at a limit (sequencer.c:7414-7491).
THEOREM WritesInMiddle ==
  CalInit /\ [][CalNext]_calVars => []WriteCentred
<1>1. Calibrated => WriteCentred
  BY Zenon DEF Calibrated, GroupGood, WritesGood, WritesMiddle, WriteCentred
<1> QED BY <1>1, AlwaysCalibrated, PTL

\* Rooms that differ by a tap at most, bit by bit, have least values that do.
LEMMA LeastDiffer ==
  ASSUME NEW f \in [Bits -> Int], NEW g \in [Bits -> Int], NEW n \in Nat,
         \A b \in Bits : -n <= f[b] /\ -n <= g[b] /\ f[b] - g[b] \in -1 .. 1
  PROVE  Min({f[b] : b \in Bits}) - Min({g[b] : b \in Bits}) \in -1 .. 1
<1> DEFINE F == Min({f[b] : b \in Bits})
           G == Min({g[b] : b \in Bits})
<1>1. F \in Int /\ (\A b \in Bits : F <= f[b]) /\ \E b \in Bits : F = f[b]
  BY LeastOfBits
<1>2. G \in Int /\ (\A b \in Bits : G <= g[b]) /\ \E b \in Bits : G = g[b]
  BY LeastOfBits
<1> HIDE DEF F, G
<1>3. PICK x \in Bits : F = f[x]
  BY <1>1
<1>4. PICK y \in Bits : G = g[y]
  BY <1>2
<1>5. /\ f[x] \in Int /\ g[x] \in Int /\ f[x] - g[x] \in -1 .. 1
      /\ f[y] \in Int /\ g[y] \in Int /\ f[y] - g[y] \in -1 .. 1
      /\ F <= f[y] /\ G <= g[x]
  BY <1>1, <1>2
<1>6. F - G \in -1 .. 1
  BY <1>1, <1>2, <1>3, <1>4, <1>5
<1> QED BY <1>6 DEF F, G

\* The strobe is in the middle of the eyes of its group, within a tap, after
\* the second centring of the reads (sequencer.c:5301-5379).
THEOREM ReadsInMiddle ==
  CalInit /\ [][CalNext]_calVars => []ReadCentred
<1>1. ASSUME CalTyped, Calibrated PROVE ReadCentred
  <2> SUFFICES ASSUME status = "success", NEW g \in Groups, ReadsReached(board.groups[g])
               PROVE  Min({Below(board.groups[g].read[b], dqs_in[g], dq_in[g][b]) : b \in Bits})
                        - Min({Above(board.groups[g].read[b], dqs_in[g], dq_in[g][b]) : b \in Bits})
                      \in -1 .. 1
    BY Zenon DEF ReadCentred
  <2> DEFINE eyes == board.groups[g].read
             s == dqs_in[g]
             dq == dq_in[g]
             f == [b \in Bits |-> Below(eyes[b], s, dq[b])]
             h == [b \in Bits |-> Above(eyes[b], s, dq[b])]
  <2>1. /\ board \in Boards /\ s \in Taps /\ dq \in [Bits -> Taps]
    <3>1. board \in Boards /\ dqs_in \in [Groups -> Taps] /\ dq_in \in [Groups -> [Bits -> Taps]]
      BY <1>1, Zenon DEF CalTyped, DelaysTyped
    <3> HIDE DEF f, h, eyes
    <3> QED BY <3>1
  <2>2. eyes \in Eyes
    BY <2>1, BoardIs
  <2>3. \A b \in Bits : Below(eyes[b], s, dq[b]) - Above(eyes[b], s, dq[b]) \in -1 .. 1
    <3>1. GroupGood(g)
      BY <1>1, Zenon DEF Calibrated
    <3> QED BY <3>1, Zenon DEF GroupGood, ReadsMiddle
  <2> HIDE DEF eyes, s, dq
  <2>4. TapMax \in Nat /\ 3 * TapMax \in Nat
    BY TapFacts
  <2>5. \A b \in Bits : /\ f[b] \in Int /\ -(3 * TapMax) <= f[b]
                        /\ h[b] \in Int /\ -(3 * TapMax) <= h[b]
                        /\ f[b] - h[b] \in -1 .. 1
    <3> SUFFICES ASSUME NEW b \in Bits
                 PROVE  /\ f[b] \in Int /\ -(3 * TapMax) <= f[b]
                        /\ h[b] \in Int /\ -(3 * TapMax) <= h[b]
                        /\ f[b] - h[b] \in -1 .. 1
      OBVIOUS
    <3>1. f[b] = s - dq[b] - eyes[b][1] /\ h[b] = eyes[b][2] - s + dq[b]
      BY DEF Below, Above
    <3>2. f[b] - h[b] \in -1 .. 1
      BY <2>3
    <3> DEFINE e1 == eyes[b][1]
               e2 == eyes[b][2]
               k == dq[b]
    <3>3. /\ e1 \in Int /\ e2 \in Int /\ e1 <= TapMax /\ -TapMax <= e2
          /\ s \in Int /\ 0 <= s /\ s <= TapMax /\ k \in Int /\ 0 <= k /\ k <= TapMax
      BY <2>1, <2>2, <2>4 DEF Taps, Eyes
    <3>4. f[b] = s - k - e1 /\ h[b] = e2 - s + k
      BY <3>1
    <3> HIDE DEF f, h, e1, e2, k
    <3> QED BY <2>4, <3>2, <3>3, <3>4
  <2>6. f \in [Bits -> Int] /\ h \in [Bits -> Int]
    <3> HIDE DEF f, h
    <3>1. f = [b \in Bits |-> f[b]] /\ h = [b \in Bits |-> h[b]]
      BY DEF f, h
    <3> QED BY <2>5, <3>1
  <2>7. /\ {f[b] : b \in Bits} = {Below(eyes[b], s, dq[b]) : b \in Bits}
        /\ {h[b] : b \in Bits} = {Above(eyes[b], s, dq[b]) : b \in Bits}
    OBVIOUS
  <2> HIDE DEF f, h
  <2>8. Min({f[b] : b \in Bits}) - Min({h[b] : b \in Bits}) \in -1 .. 1
    BY <2>4, <2>5, <2>6, LeastDiffer
  <2>9. Min({Below(eyes[b], s, dq[b]) : b \in Bits}) - Min({Above(eyes[b], s, dq[b]) : b \in Bits})
          \in -1 .. 1
    BY <2>7, <2>8, Zenon
  <2> QED BY <2>9, Zenon DEF eyes, s, dq
<1>2. CalTyped /\ [CalNext]_calVars => CalTyped'
  BY NextTyped
<1>3. CalTyped /\ Calibrated => ReadCentred
  BY <1>1
<1> QED BY <1>2, <1>3, InitTyped, AlwaysCalibrated, PTL

-----------------------------------------------------------------------------
(* The longest run. *)

LEMMA MaxOfTwo ==
  ASSUME NEW x \in Int, NEW y \in Int
  PROVE  Max({x, y}) = IF x <= y THEN y ELSE x
<1> DEFINE S == {x, y}
           hi == IF x <= y THEN y ELSE x
<1>1. S \in SUBSET Int /\ S # {} /\ hi \in Int /\ \A z \in S : z <= hi
  OBVIOUS
<1>2. Max(S) \in S /\ \A z \in S : z <= Max(S)
  <2> HIDE DEF S, hi
  <2> QED BY <1>1, MaxIs
<1>3. Max(S) \in Int /\ (Max(S) = x \/ Max(S) = y) /\ x <= Max(S) /\ y <= Max(S)
  BY <1>2
<1> HIDE DEF S
<1>4. Max(S) = hi
  BY <1>3
<1> QED BY <1>4 DEF S

\* Runs of places, seen from the strobe, are runs of positions.
RunsOf(start, dq) ==
  LET reach == start - TapMax .. TapMax
      good(x) == /\ x \in board.groups[group].mask
                 /\ WritesRight(group, Max({x, start}), dq) = Bits
  IN  {r \in reach \X reach : r[1] <= r[2] /\ \A x \in r[1] .. r[2] : good(x)}

LEMMA RunsAre ==
  ASSUME NEW start \in Taps, NEW dq, NEW a \in Int, NEW b \in Int
  PROVE  <<a, b>> \in RunsOf(start, dq) <=>
           /\ a - start \in -TapMax .. TapMax - start /\ b - start \in -TapMax .. TapMax - start
           /\ a <= b
           /\ a - start .. b - start \subseteq MaskPlaces(start, dq)
<1> DEFINE reach == start - TapMax .. TapMax
           good(x) == /\ x \in board.groups[group].mask
                      /\ WritesRight(group, Max({x, start}), dq) = Bits
           G == MaskPlaces(start, dq)
           lo == a - start
           hi == b - start
           Goal == <<a, b>> \in RunsOf(start, dq) <=>
                     /\ lo \in -TapMax .. TapMax - start /\ hi \in -TapMax .. TapMax - start
                     /\ a <= b /\ lo .. hi \subseteq G
<1> SUFFICES Goal
  OBVIOUS
<1>1. start \in Int /\ start \in 0 .. TapMax /\ TapMax \in Nat
  BY CalConstants
<1>2. <<a, b>> \in RunsOf(start, dq) <=>
        a \in reach /\ b \in reach /\ a <= b /\ \A x \in a .. b : good(x)
  <2>1. RunsOf(start, dq) = {r \in reach \X reach : r[1] <= r[2] /\ \A x \in r[1] .. r[2] : good(x)}
    BY Zenon DEF RunsOf
  <2> HIDE DEF good, reach
  <2> QED BY <2>1
<1>3. /\ a \in reach <=> lo \in -TapMax .. TapMax - start
      /\ b \in reach <=> hi \in -TapMax .. TapMax - start
  BY <1>1
<1>4. ASSUME NEW x \in reach PROVE good(x) <=> x - start \in G
  <2>1. x \in Int /\ x - start \in -TapMax .. TapMax - start /\ start + (x - start) = x
    BY <1>1
  <2>2. start + (IF x - start <= 0 THEN 0 ELSE x - start) = Max({x, start})
    <3>1. Max({x, start}) = IF x <= start THEN start ELSE x
      BY <1>1, <2>1, MaxOfTwo
    <3> QED BY <1>1, <2>1, <3>1
  <2>3. x - start \in G <=>
          /\ start + (x - start) \in board.groups[group].mask
          /\ WritesRight(group, start + (IF x - start <= 0 THEN 0 ELSE x - start),
                         dq) = Bits
    <3> DEFINE y == x - start
    <3>1. y \in -TapMax .. TapMax - start
      BY <2>1
    <3> HIDE DEF y
    <3>2. y \in G <=>
            /\ start + y \in board.groups[group].mask
            /\ WritesRight(group, start + (IF y <= 0 THEN 0 ELSE y), dq) = Bits
      BY <3>1, Zenon DEF MaskPlaces
    <3> QED BY <3>2, Zenon DEF y
  <2> QED BY <2>1, <2>2, <2>3, Zenon
<1>5. a \in reach /\ b \in reach =>
        ((\A x \in a .. b : good(x)) <=> lo .. hi \subseteq G)
  <2> SUFFICES ASSUME a \in reach, b \in reach
               PROVE  (\A x \in a .. b : good(x)) <=> lo .. hi \subseteq G
    OBVIOUS
  <2> HIDE DEF good, G
  <2>1. ASSUME \A x \in a .. b : good(x), NEW y \in lo .. hi PROVE y \in G
    <3>1. y \in Int /\ start + y \in a .. b /\ start + y \in reach /\ (start + y) - start = y
      BY <1>1
    <3> QED BY <1>4, <2>1, <3>1
  <2>2. ASSUME lo .. hi \subseteq G, NEW x \in a .. b PROVE good(x)
    <3>1. x \in reach /\ x - start \in lo .. hi
      BY <1>1
    <3> QED BY <1>4, <2>2, <3>1
  <2> QED BY <2>1, <2>2
<1> HIDE DEF reach, good, G, lo, hi
<1> QED BY <1>2, <1>3, <1>5

\* The writes were centred, with room for the mask.
Masked ==
  LET start == dqs_out[group]
      c == Centre(WriteEdges, start, TRUE)
      run == MaskRun(start, c.dq)
  IN  /\ UNCHANGED <<board, group, dqs_out>>
      /\ MaskMargin(run) >= 0
      /\ dq_out' = [dq_out EXCEPT ![group] = c.dq]
      /\ dm_out' = [dm_out EXCEPT ![group] = MaskDelay(run)]

LEMMA MaskedLongest ==
  ASSUME CalTyped, Masked
  PROVE  LongestRun'
<1> DEFINE start == dqs_out[group]
           c == Centre(WriteEdges, start, TRUE)
           run == MaskRun(start, c.dq)
           G == MaskPlaces(start, c.dq)
           n == TapMax - start + 1
           first == start + run.bgn
           last == start + run.end
           mask == MaskDelay(run)
           bits == c.dq
<1>1. /\ UNCHANGED <<board, group, dqs_out>>
      /\ MaskMargin(run) >= 0
      /\ dq_out' = [dq_out EXCEPT ![group] = bits]
      /\ dm_out' = [dm_out EXCEPT ![group] = mask]
  BY Zenon DEF Masked
<1>2. /\ group \in Groups /\ start \in Taps
      /\ dq_out \in [Groups -> [Bits -> Taps]] /\ dm_out \in [Groups -> Taps]
  BY DEF CalTyped, LocalsTyped, DelaysTyped
<1>3. /\ Longest(run, G, -TapMax, n) /\ run \in Runs /\ mask \in Taps
      /\ run.win # 0 /\ -mask \in run.bgn .. run.end
  <2> HIDE DEF c, start
  <2> QED BY <1>1, <1>2, MaskRunIs, Zenon
<1>4. dq_out'[group] = bits /\ dm_out'[group] = mask
  <2> HIDE DEF bits, mask, c, run
  <2> QED BY <1>1, <1>2
<1>5. MaskRuns' = RunsOf(start, bits)
  <2>1. dqs_out'[group'] = start /\ dq_out'[group'] = bits
    BY <1>1, <1>4
  <2> HIDE DEF start, bits
  <2> QED BY <1>1, <2>1, Zenon DEF MaskRuns, RunsOf, WritesRight
<1>0. dqs_out'[group'] - dm_out'[group'] = start - mask
  BY <1>1, <1>4
<1> DEFINE bgn == run.bgn
           end == run.end
           win == run.win
<1> HIDE DEF c, run, G, mask, bits, start, n
<1>6. /\ bgn \in Int /\ end \in Int /\ win \in Nat /\ mask \in Int
      /\ start \in Int /\ start \in 0 .. TapMax /\ TapMax \in Nat
  <2>1. run \in Runs /\ mask \in Taps /\ start \in Taps
    BY <1>2, <1>3, Zenon
  <2>2. bgn \in Int /\ end \in Int /\ win \in Nat
    BY <2>1 DEF Runs
  <2> HIDE DEF bgn, end, win
  <2>3. mask \in Taps /\ start \in Taps /\ Taps = 0 .. TapMax /\ TapMax \in Nat
    BY <2>1, CalConstants, Zenon
  <2>4. mask \in Int /\ start \in Int /\ start \in 0 .. TapMax
    BY <2>3
  <2> QED BY <2>2, <2>3, <2>4, Zenon
<1>7. /\ bgn \in -TapMax .. end /\ end < n
      /\ win = end - bgn + 1
      /\ bgn .. end \subseteq G
      /\ \A a, b \in -TapMax .. n - 1 : a <= b /\ a .. b \subseteq G => b - a + 1 <= win
  BY <1>3, Zenon DEF Longest
<1>8. -mask \in bgn .. end /\ n - 1 = TapMax - start /\ n \in Int
  BY <1>3, <1>6 DEF n
<1>9. G = MaskPlaces(start, bits)
  BY Zenon DEF G, bits
<1> HIDE DEF bgn, end, win
<1>10. ASSUME NEW a \in Int, NEW b \in Int
       PROVE  <<a, b>> \in MaskRuns' <=>
                /\ a - start \in -TapMax .. n - 1 /\ b - start \in -TapMax .. n - 1
                /\ a <= b
                /\ a - start .. b - start \subseteq G
  BY <1>2, <1>5, <1>8, <1>9, RunsAre, Zenon
<1>11. <<first, last>> \in MaskRuns'
  <2>1. /\ first \in Int /\ last \in Int /\ first - start = bgn /\ last - start = end
        /\ first <= last /\ bgn \in -TapMax .. n - 1 /\ end \in -TapMax .. n - 1
    BY <1>6, <1>7, <1>8 DEF bgn, end
  <2> HIDE DEF first, last
  <2> QED BY <1>7, <1>10, <2>1
<1>12. start - mask \in first .. last
  BY <1>6, <1>8 DEF bgn, end
<1>13. last - first = win - 1
  BY <1>6, <1>7 DEF bgn, end
<1> HIDE DEF first, last
<1>14. ASSUME NEW q \in MaskRuns' PROVE q[2] - q[1] <= last - first
  <2>1. PICK a \in Int, b \in Int : q = <<a, b>>
    <3>1. MaskRuns' \subseteq (start - TapMax .. TapMax) \X (start - TapMax .. TapMax)
      BY <1>5, Zenon DEF RunsOf
    <3>2. start - TapMax .. TapMax \subseteq Int
      BY <1>6
    <3> QED BY <1>14, <3>1, <3>2
  <2>2. <<a, b>> \in MaskRuns'
    BY <1>14, <2>1
  <2> DEFINE x == a - start
             y == b - start
  <2>3. /\ x \in -TapMax .. n - 1 /\ y \in -TapMax .. n - 1 /\ a <= b /\ x .. y \subseteq G
    BY <1>10, <2>2
  <2>4. x <= y /\ y - x = b - a
    BY <1>6, <2>3
  <2>5. y - x + 1 <= win
    <3> HIDE DEF x, y
    <3> QED BY <1>7, <2>3, <2>4, Zenon
  <2>6. b - a <= win - 1
    <3>1. x \in Int /\ y \in Int
      BY <1>6
    <3> HIDE DEF x, y
    <3> QED BY <1>6, <2>4, <2>5, <3>1
  <2> QED BY <1>13, <2>1, <2>6
<1> DEFINE r == <<first, last>>
<1>15. r[1] = first /\ r[2] = last /\ r \in MaskRuns'
  BY <1>11
<1>16. \E x \in MaskRuns' :
         /\ dqs_out'[group'] - dm_out'[group'] \in x[1] .. x[2]
         /\ \A q \in MaskRuns' : q[2] - q[1] <= x[2] - x[1]
  <2> HIDE DEF r
  <2> QED BY <1>0, <1>12, <1>14, <1>15, Zenon
<1> QED BY <1>16, Zenon DEF LongestRun

LEMMA NextLongest ==
  ASSUME CalTyped, LongestRun, [CalNext]_calVars
  PROVE  LongestRun'
<1>1. CASE pc' # "read again"
  BY <1>1, Zenon DEF LongestRun
<1>2. CASE pc' = "read again"
  <2>1. CASE CentreWrites
    <3>1. Masked
      BY <1>2, <2>1, Zenon DEF CentreWrites, Masked, locals
    <3> QED BY <3>1, MaskedLongest
  <2>2. CASE UNCHANGED calVars
    <3>1. UNCHANGED <<pc, board, group, dqs_out, dq_out, dm_out>>
      BY <2>2, Zenon DEF calVars, locals, delays
    <3>2. MaskRuns' = MaskRuns
      BY <3>1, Zenon DEF MaskRuns, WritesRight
    <3> QED BY <3>1, <3>2, Zenon DEF LongestRun
  <2>3. CASE CalNext /\ ~CentreWrites
    <3>1. /\ Start => pc' = "group"
          /\ ZeroGroup => pc' = "pattern"
          /\ LoadPattern => pc' \in {"pattern", "gate", "vfifo failed"}
          /\ CallGate => pc' = "search"
          /\ GateFound => pc' = "centre"
          /\ GateLost => pc' \in {"gate", "pattern", "vfifo failed"}
          /\ CentreRead => pc' \in {"gate", "pattern", "vfifo failed", "writes"}
          /\ VfifoFailed => pc' = "hand over"
          /\ CentreLatency => pc' = "hand over"
          /\ HandOver => pc' = "tell"
          /\ Tell => pc' = "done"
      BY Zenon DEF Start, ZeroGroup, LoadPattern, CallGate, GateFound, GateLost, CentreRead,
         VfifoFailed, CentreLatency, HandOver, Tell, NextInDelay, NextOutDelay
    <3>2. SearchStep => pc = "search" /\ pc' = pc
      BY Zenon DEF SearchStep
    <3>3. CentreAfterWrites => pc' \in {"hand over", "group", "latency"}
      BY Zenon DEF CentreAfterWrites
    <3> QED BY <1>2, <2>3, <3>1, <3>2, <3>3 DEF CalNext
  <2> QED BY <2>1, <2>2, <2>3, Zenon
<1> QED BY <1>1, <1>2

\* The mask is put into the longest run of positions that pass, although the
\* sweep by the strobe ends early (sequencer.c:7648-7763).
THEOREM MaskInLongestRun ==
  CalInit /\ [][CalNext]_calVars => []LongestRun
<1>1. CalInit => LongestRun
  <2>1. CalInit => pc # "read again"
    BY DEF CalInit
  <2> QED BY <2>1, Zenon DEF LongestRun
<1>2. CalTyped /\ [CalNext]_calVars => CalTyped'
  BY NextTyped
<1>3. CalTyped /\ LongestRun /\ [CalNext]_calVars => LongestRun'
  BY NextLongest
<1> QED BY <1>1, <1>2, <1>3, InitTyped, PTL

-----------------------------------------------------------------------------
(* The gate. *)

\* A search is under way only in its own state of the program.
Searched == pc # "search" => step = "idle"

LEMMA InitGating == CalInit => Searched /\ Gating
<1> SUFFICES ASSUME CalInit PROVE step = "idle"
  BY Zenon DEF Searched, Gating
<1> QED BY DEF CalInit, GateInit

\* What the search knows is about its own variables.
LEMMA SameGating ==
  ASSUME Gating, UNCHANGED gateVars
  PROVE  Gating'
<1>1. UNCHANGED <<window, step, vfifo, phase, delay, i, p, work_bgn, work_end, d>>
  BY DEF gateVars, gateRegs
<1>2. Pushed' = Pushed /\ Here' = Here /\ OffCentre' = OffCentre /\ InRange' = InRange
  BY <1>1 DEF Pushed, Here, OffCentre, InRange, Opens, Past
<1>3. Bracketed' = Bracketed
  BY <1>1, <1>2, Zenon DEF Bracketed, Sharp, Late, Aligned
<1>4. Begun' = Begun /\ Backed' = Backed /\ AtEdge' = AtEdge /\ Measured' = Measured
  BY <1>1, <1>2, <1>3, Zenon
     DEF Begun, Backed, AtEdge, Measured, Sharp, Late, Aligned, Opens, Past
<1> QED BY <1>1, <1>2, <1>4, Zenon DEF Gating

LEMMA NextGating ==
  ASSUME FineGate, CalTyped, Searched, Gating, [CalNext]_calVars
  PROVE  (Searched /\ Gating)'
<1>1. CASE SearchStep
  <2>1. GateStep /\ pc' = "search" /\ GateTyped
    BY <1>1, Zenon DEF SearchStep, CalTyped
  <2>2. Gating'
    BY <2>1, GateStepKept, Zenon
  <2> QED BY <2>1, <2>2 DEF Searched
<1>2. CASE CallGate
  <2>1. step' = "push" /\ pc' = "search"
    BY <1>2, Zenon DEF CallGate, SearchGate
  <2> QED BY <2>1 DEF Searched, Gating
<1>3. CASE GateFound \/ GateLost
  <2>1. step' = "idle"
    BY <1>3, Zenon DEF GateFound, GateLost
  <2> QED BY <2>1 DEF Searched, Gating
<1>4. CASE UNCHANGED calVars
  <2>1. UNCHANGED gateVars /\ pc' = pc /\ step' = step
    BY <1>4, Zenon DEF calVars, gateVars
  <2>2. Gating'
    BY <2>1, SameGating
  <2> QED BY <2>1, <2>2, Zenon DEF Searched
<1>5. CASE \/ Start \/ ZeroGroup \/ LoadPattern \/ CentreRead \/ VfifoFailed
           \/ CentreWrites \/ CentreAfterWrites \/ CentreLatency \/ HandOver \/ Tell
  <2>1. pc # "search"
    BY <1>5, Zenon DEF Start, ZeroGroup, LoadPattern, CentreRead, VfifoFailed, CentreWrites,
       CentreAfterWrites, CentreLatency, HandOver, Tell
  <2>2. step' = step
    BY <1>5, Zenon DEF Start, ZeroGroup, LoadPattern, CentreRead, VfifoFailed, CentreWrites,
       CentreAfterWrites, CentreLatency, HandOver, Tell, gateVars
  <2>3. step' = "idle"
    BY <2>1, <2>2 DEF Searched
  <2> QED BY <2>3 DEF Searched, Gating
<1> QED BY <1>1, <1>2, <1>3, <1>4, <1>5, Zenon DEF CalNext

\* The gate is found and put near the middle of its window, wherever the
\* window lies, for every length of the ring, the cycle and the taps
\* (sequencer.c:4043-4616).
THEOREM GateInMiddle ==
  ASSUME FineGate
  PROVE  CalInit /\ [][CalNext]_calVars => []GateNearMiddle
<1>1. Gating => GateNearMiddle
  BY DEF Gating, InRange, GateNearMiddle
<1>2. CalTyped /\ [CalNext]_calVars => CalTyped'
  BY NextTyped
<1>3. CalTyped /\ Searched /\ Gating /\ [CalNext]_calVars => (Searched /\ Gating)'
  BY NextGating
<1> QED BY <1>1, <1>2, <1>3, InitTyped, InitGating, PTL

-----------------------------------------------------------------------------
(* Boards with room: the sweeps find the edges and the delays fit. *)

\* A value between the edges, kept inside the chain, stays between the edges
\* when some delay of the chain does.
LEMMA ClampBetween ==
  ASSUME NEW l \in Int, NEW r \in Int, NEW q \in Int, NEW moved \in Int,
         -r <= q, q <= l, moved <= l, -r <= moved + TapMax
  PROVE  /\ l - Clamp(q - moved) - moved >= 0
         /\ r + Clamp(q - moved) + moved >= 0
<1>1. TapMax \in Nat /\ q - moved \in Int /\ Taps = 0 .. TapMax
  BY TapFacts DEF Taps
<1>2. CASE q - moved < 0
  <2>1. Clamp(q - moved) = 0
    BY <1>1, <1>2, ClampIs
  <2> QED BY <1>1, <1>2, <2>1
<1>3. CASE q - moved > TapMax
  <2>1. Clamp(q - moved) = TapMax
    BY <1>1, <1>3, ClampIs
  <2> QED BY <1>1, <1>3, <2>1
<1>4. CASE q - moved >= 0 /\ q - moved <= TapMax
  <2>1. Clamp(q - moved) = q - moved
    BY <1>1, <1>4, ClampIs
  <2> QED BY <1>1, <1>4, <2>1
<1> QED BY <1>1, <1>2, <1>3, <1>4

\* The least of margins that are not negative.
LEMMA LeastIsMargin ==
  ASSUME NEW f \in [Bits -> Int], \A b \in Bits : f[b] >= 0
  PROVE  Min({NoEdge} \cup {f[b] : b \in Bits}) >= 0
<1> DEFINE S == {NoEdge} \cup {f[b] : b \in Bits}
<1>1. S \in SUBSET Int /\ S # {} /\ \A x \in S : 0 <= x
  BY TapFacts
<1>2. Min(S) \in S
  <2> HIDE DEF S
  <2> QED BY <1>1, MinIs
<1>3. Min(S) >= 0
  <2> HIDE DEF S
  <2> QED BY <1>1, <1>2
<1> QED BY <1>3

\* Margins are not negative where the strobe ends up so that some delay of
\* each bit puts it between its edges.
LEMMA CentreInside ==
  ASSUME NEW edges, Edged(edges), NEW start \in Taps, NEW write \in BOOLEAN,
         \A b \in Bits : -edges.right[b] <= edges.left[b],
         LET moved == start - Centre(edges, start, write).dqs
         IN  \A b \in Bits : moved <= edges.left[b] /\ -edges.right[b] <= moved + TapMax
  PROVE  Inside(Centre(edges, start, write))
<1> DEFINE c == Centre(edges, start, write)
           spread(b) == edges.left[b] - edges.right[b]
           moved == start - c.dqs
           dqRoom == [b \in Bits |-> edges.left[b] - c.dq[b] - moved]
           dqsRoom == [b \in Bits |-> edges.right[b] + c.dq[b] + moved]
<1>1. PICK l \in Int, mid \in Int, half \in [Bits -> Int] :
        /\ 2 * mid \in l .. l + 1
        /\ \A b \in Bits : /\ half[b] >= 0
                           /\ 2 * half[b] \in spread(b) - l - 1 .. spread(b) - l
        /\ \E b \in Bits : l = spread(b) /\ half[b] = 0
        /\ c.dqs = IF write THEN start ELSE Clamp(start - mid)
        /\ \A b \in Bits : c.dq[b] = Clamp(half[b] + mid - moved)
  BY CentreHalves, Zenon
<1>2. c.dqs \in Taps /\ c.dq \in [Bits -> Taps]
  BY CentreFacts, Zenon
<1>3. TapMax \in Nat /\ moved \in Int /\ \A b \in Bits : c.dq[b] \in Int
  <2> HIDE DEF c
  <2> QED BY <1>2, TapFacts DEF Taps
<1>4. \A b \in Bits : edges.left[b] \in Int /\ edges.right[b] \in Int
  BY TapFacts DEF Edged, EdgeSet
<1>5. \A b \in Bits : moved <= edges.left[b] /\ -edges.right[b] <= moved + TapMax
  OBVIOUS
<1>6. /\ c.dqMargin = Min({NoEdge} \cup {dqRoom[b] : b \in Bits})
      /\ c.dqsMargin = Min({NoEdge} \cup {dqsRoom[b] : b \in Bits})
  <2>1. {dqRoom[b] : b \in Bits} = {edges.left[b] - c.dq[b] - moved : b \in Bits}
    <3> HIDE DEF c, moved
    <3> QED OBVIOUS
  <2>2. {dqsRoom[b] : b \in Bits} = {edges.right[b] + c.dq[b] + moved : b \in Bits}
    <3> HIDE DEF c, moved
    <3> QED OBVIOUS
  <2>3. /\ c.dqMargin = Min({NoEdge} \cup {edges.left[b] - c.dq[b] - moved : b \in Bits})
        /\ c.dqsMargin = Min({NoEdge} \cup {edges.right[b] + c.dq[b] + moved : b \in Bits})
    BY Zenon DEF Centre
  <2> HIDE DEF c, moved, dqRoom, dqsRoom
  <2> QED BY <2>1, <2>2, <2>3, Zenon
<1> HIDE DEF c, moved
<1>7. ASSUME NEW b \in Bits PROVE dqRoom[b] >= 0 /\ dqsRoom[b] >= 0
  <2> DEFINE L == edges.left[b]
             R == edges.right[b]
             q == half[b] + mid
  <2>1. L \in Int /\ R \in Int /\ -R <= L /\ moved <= L /\ -R <= moved + TapMax
    BY <1>4, <1>5
  <2>2. half[b] \in Int /\ 2 * half[b] \in L - R - l - 1 .. L - R - l
    <3>1. 2 * half[b] \in spread(b) - l - 1 .. spread(b) - l
      BY <1>1, Zenon
    <3> QED BY <3>1
  <2>6. c.dq[b] = Clamp(q - moved)
    <3>1. half[b] + mid - moved = q - moved
      BY <1>3, <2>2
    <3>2. c.dq[b] = Clamp(half[b] + mid - moved)
      BY <1>1, Zenon
    <3> QED BY <3>1, <3>2, Zenon
  <2>3. dqRoom[b] = L - c.dq[b] - moved /\ dqsRoom[b] = R + c.dq[b] + moved
    OBVIOUS
  <2> HIDE DEF L, R, dqRoom, dqsRoom
  <2>4. q \in Int /\ -R <= q /\ q <= L
    BY <1>1, <2>1, <2>2
  <2> HIDE DEF q
  <2>5. /\ L - Clamp(q - moved) - moved >= 0
        /\ R + Clamp(q - moved) + moved >= 0
    BY <1>3, <2>1, <2>4, ClampBetween
  <2> QED BY <2>3, <2>5, <2>6
<1>8. dqRoom \in [Bits -> Int] /\ dqsRoom \in [Bits -> Int]
  BY <1>3, <1>4
<1>9. c.dqMargin >= 0 /\ c.dqsMargin >= 0
  <2> HIDE DEF dqRoom, dqsRoom
  <2> QED BY <1>6, <1>7, <1>8, LeastIsMargin
<1> QED BY <1>9 DEF Inside, c

\* Edges of eyes whose upper ends the sweep reaches.
LEMMA EdgesReached ==
  ASSUME NEW eyes \in Eyes, NEW start \in Taps, NEW write \in BOOLEAN,
         \A b \in Bits : start - eyes[b][2] <= TapMax
  PROVE  LET E == Swept(eyes, start, write)
         IN  /\ Edged(E) /\ EdgeMissing(E) = {}
             /\ \A b \in Bits :
                  /\ E.left[b] = IF start - eyes[b][1] <= TapMax THEN start - eyes[b][1] ELSE TapMax
                  /\ E.right[b] = eyes[b][2] - start
                  /\ -E.right[b] <= E.left[b]
<1> DEFINE E == Swept(eyes, start, write)
<1>1. Edged(E)
  BY SweptInEye, Zenon
<1>2. \A b \in Bits :
        /\ E.left[b] = IF start - eyes[b][1] <= TapMax THEN start - eyes[b][1] ELSE TapMax
        /\ E.right[b] = eyes[b][2] - start
  BY SweptReach, Zenon
<1> HIDE DEF E
<1>3. TapMax \in Nat /\ NoEdge = TapMax + 1 /\ start \in Int /\ 0 <= start /\ start <= TapMax
  BY TapFacts DEF Taps
<1>4. \A b \in Bits : E.left[b] # NoEdge /\ E.right[b] # NoEdge /\ -E.right[b] <= E.left[b]
  <2> SUFFICES ASSUME NEW b \in Bits
               PROVE  E.left[b] # NoEdge /\ E.right[b] # NoEdge /\ -E.right[b] <= E.left[b]
    OBVIOUS
  <2> DEFINE e1 == eyes[b][1]
             e2 == eyes[b][2]
             L == E.left[b]
             R == E.right[b]
  <2>1. e1 \in Int /\ e2 \in Int /\ e1 <= e2 /\ e2 <= TapMax /\ start - e2 <= TapMax
    BY <1>3 DEF Eyes
  <2>2. L = (IF start - e1 <= TapMax THEN start - e1 ELSE TapMax) /\ R = e2 - start
    BY <1>2, Zenon
  <2> HIDE DEF e1, e2, L, R
  <2>3. L # NoEdge /\ R # NoEdge /\ -R <= L
    BY <1>3, <2>1, <2>2
  <2> QED BY <2>3 DEF L, R
<1>5. EdgeMissing(E) = {}
  BY <1>4 DEF EdgeMissing
<1> QED BY <1>1, <1>2, <1>4, <1>5, Zenon DEF E

\* Writes whose bits can each be put right are centred.
LEMMA WriteSucceeds ==
  ASSUME NEW eyes \in Eyes, NEW start \in Taps,
         \A b \in Bits : \E n \in Taps : start - n \in eyes[b][1] .. eyes[b][2]
  PROVE  LET E == Swept(eyes, start, TRUE)
         IN  EdgeMissing(E) = {} /\ Inside(Centre(E, start, TRUE))
<1> DEFINE E == Swept(eyes, start, TRUE)
           c == Centre(E, start, TRUE)
<1>1. TapMax \in Nat /\ Taps = 0 .. TapMax /\ start \in Int /\ TRUE \in BOOLEAN
  BY TapFacts DEF Taps
<1>2. \A b \in Bits : /\ eyes[b][1] \in Int /\ eyes[b][2] \in Int
                      /\ eyes[b][1] <= start /\ start - eyes[b][2] <= TapMax
  <2> SUFFICES ASSUME NEW b \in Bits
               PROVE  /\ eyes[b][1] \in Int /\ eyes[b][2] \in Int
                      /\ eyes[b][1] <= start /\ start - eyes[b][2] <= TapMax
    OBVIOUS
  <2>1. PICK n \in Taps : start - n \in eyes[b][1] .. eyes[b][2]
    OBVIOUS
  <2>2. eyes[b][1] \in Int /\ eyes[b][2] \in Int
    BY <1>1 DEF Eyes
  <2> QED BY <1>1, <2>1, <2>2
<1>3. /\ Edged(E) /\ EdgeMissing(E) = {}
      /\ \A b \in Bits :
           /\ E.left[b] = IF start - eyes[b][1] <= TapMax THEN start - eyes[b][1] ELSE TapMax
           /\ E.right[b] = eyes[b][2] - start
           /\ -E.right[b] <= E.left[b]
  BY <1>1, <1>2, EdgesReached, Zenon
<1> HIDE DEF E
<1>4. c.dqs = start
  BY <1>1, <1>3, CentreFacts, Zenon
<1> DEFINE moved == start - c.dqs
<1>5. \A b \in Bits : moved <= E.left[b] /\ -E.right[b] <= moved + TapMax
  <2> HIDE DEF c
  <2>1. moved = 0
    BY <1>1, <1>4
  <2> HIDE DEF moved
  <2> QED BY <1>1, <1>2, <1>3, <2>1
<1>6. Inside(c)
  BY <1>1, <1>3, <1>5, CentreInside, Zenon
<1> QED BY <1>3, <1>6, Zenon DEF E

\* Spreads differ by the length of two chains at most if the sums of the ends
\* of the eyes do.
LEMMA SpreadsDiffer ==
  ASSUME NEW T \in Nat, NEW s \in 0 .. T, NEW a1 \in Int, NEW a2 \in Int,
         NEW b1 \in Int, NEW b2 \in Int, a1 <= a2, a2 <= T, b1 <= b2, b2 <= T,
         s - a2 <= T, s - b2 <= T, a1 + a2 - (b1 + b2) <= 2 * T
  PROVE  (IF s - b1 <= T THEN s - b1 ELSE T) - (b2 - s)
           - ((IF s - a1 <= T THEN s - a1 ELSE T) - (a2 - s)) <= 2 * T
  OBVIOUS

\* The strobe goes where some delay of each bit meets its eye.
LEMMA StrobeMeets ==
  ASSUME NEW T \in Nat, NEW s \in 0 .. T, NEW L \in Int, NEW R \in Int, NEW mid \in Int,
         NEW half \in Int, NEW l \in Int, NEW moved \in Int,
         -R <= L, -R <= T, R <= T - s, 2 * mid \in l .. l + 1, half >= 0,
         2 * half \in L - R - l - 1 .. L - R - l, L - R - l <= 2 * T, l >= 2 * s - 2 * T,
         \/ moved = mid
         \/ moved = s /\ s - mid < 0
         \/ moved = s - T /\ s - mid > T
  PROVE  moved <= L /\ -R <= moved + T
  OBVIOUS

\* Reads whose eyes are within reach, with middles no further apart than a
\* delay chain, are centred.
LEMMA ReadSucceeds ==
  ASSUME NEW eyes \in Eyes, NEW start \in Taps,
         \A b \in Bits : start - eyes[b][2] <= TapMax,
         \A a, b \in Bits : eyes[a][1] + eyes[a][2] - (eyes[b][1] + eyes[b][2]) <= 2 * TapMax
  PROVE  LET E == Swept(eyes, start, FALSE)
         IN  EdgeMissing(E) = {} /\ Inside(Centre(E, start, FALSE))
<1> DEFINE E == Swept(eyes, start, FALSE)
           c == Centre(E, start, FALSE)
           spread(b) == E.left[b] - E.right[b]
           moved == start - c.dqs
<1>1. /\ TapMax \in Nat /\ Taps = 0 .. TapMax /\ start \in Int /\ start \in 0 .. TapMax
      /\ FALSE \in BOOLEAN
  BY TapFacts DEF Taps
<1>2. \A b \in Bits : /\ eyes[b][1] \in Int /\ eyes[b][2] \in Int
                      /\ eyes[b][1] <= eyes[b][2] /\ eyes[b][2] <= TapMax
                      /\ -TapMax <= eyes[b][1]
  BY <1>1 DEF Eyes
<1>3. /\ Edged(E) /\ EdgeMissing(E) = {}
      /\ \A b \in Bits :
           /\ E.left[b] = IF start - eyes[b][1] <= TapMax THEN start - eyes[b][1] ELSE TapMax
           /\ E.right[b] = eyes[b][2] - start
           /\ -E.right[b] <= E.left[b]
  BY <1>1, EdgesReached, Zenon
<1> HIDE DEF E
<1>4. \A b \in Bits : E.left[b] \in Int /\ E.right[b] \in Int
  BY TapFacts, <1>3 DEF Edged, EdgeSet
<1>5. PICK l \in Int, mid \in Int, half \in [Bits -> Int] :
        /\ 2 * mid \in l .. l + 1
        /\ \A b \in Bits : /\ half[b] >= 0
                           /\ 2 * half[b] \in spread(b) - l - 1 .. spread(b) - l
        /\ \E b \in Bits : l = spread(b) /\ half[b] = 0
        /\ c.dqs = IF FALSE THEN start ELSE Clamp(start - mid)
        /\ \A b \in Bits : c.dq[b] = Clamp(half[b] + mid - moved)
  BY <1>1, <1>3, CentreHalves, Zenon
<1>6. c.dqs = Clamp(start - mid)
  BY <1>5, Zenon
<1>7. \A a, b \in Bits : spread(b) - spread(a) <= 2 * TapMax
  <2> SUFFICES ASSUME NEW a \in Bits, NEW b \in Bits PROVE spread(b) - spread(a) <= 2 * TapMax
    OBVIOUS
  <2> DEFINE a1 == eyes[a][1]
             a2 == eyes[a][2]
             b1 == eyes[b][1]
             b2 == eyes[b][2]
  <2>1. /\ a1 \in Int /\ a2 \in Int /\ a1 <= a2 /\ a2 <= TapMax /\ start - a2 <= TapMax
        /\ b1 \in Int /\ b2 \in Int /\ b1 <= b2 /\ b2 <= TapMax /\ start - b2 <= TapMax
    BY <1>2
  <2>2. a1 + a2 - (b1 + b2) <= 2 * TapMax
    BY Zenon
  <2>3. /\ E.left[a] = (IF start - a1 <= TapMax THEN start - a1 ELSE TapMax)
        /\ E.right[a] = a2 - start
        /\ E.left[b] = (IF start - b1 <= TapMax THEN start - b1 ELSE TapMax)
        /\ E.right[b] = b2 - start
    BY <1>3, Zenon
  <2> HIDE DEF a1, a2, b1, b2
  <2>4. (IF start - b1 <= TapMax THEN start - b1 ELSE TapMax) - (b2 - start)
          - ((IF start - a1 <= TapMax THEN start - a1 ELSE TapMax) - (a2 - start)) <= 2 * TapMax
    BY <1>1, <2>1, <2>2, SpreadsDiffer
  <2> QED BY <2>3, <2>4
<1>8. \A b \in Bits : E.right[b] <= TapMax - start /\ -E.right[b] <= TapMax
                      /\ spread(b) >= 2 * start - 2 * TapMax
  <2> SUFFICES ASSUME NEW b \in Bits
               PROVE  /\ E.right[b] <= TapMax - start /\ -E.right[b] <= TapMax
                      /\ spread(b) >= 2 * start - 2 * TapMax
    OBVIOUS
  <2> DEFINE b1 == eyes[b][1]
             b2 == eyes[b][2]
             L == E.left[b]
             R == E.right[b]
  <2>1. b1 \in Int /\ b2 \in Int /\ b1 <= b2 /\ b2 <= TapMax /\ start - b2 <= TapMax
    BY <1>2
  <2>2. L = (IF start - b1 <= TapMax THEN start - b1 ELSE TapMax) /\ R = b2 - start
    BY <1>3, Zenon
  <2> HIDE DEF b1, b2, L, R
  <2>3. R <= TapMax - start /\ -R <= TapMax /\ L - R >= 2 * start - 2 * TapMax
    BY <1>1, <2>1, <2>2
  <2> QED BY <2>3 DEF L, R
<1>9. PICK x \in Bits : l = spread(x)
  BY <1>5, Zenon
<1>10. l >= 2 * start - 2 * TapMax /\ \A b \in Bits : spread(b) - l <= 2 * TapMax
  BY <1>7, <1>8, <1>9
<1>60. moved = start - c.dqs
  OBVIOUS
<1> HIDE DEF c, moved
<1>11. \/ moved = mid
       \/ moved = start /\ start - mid < 0
       \/ moved = start - TapMax /\ start - mid > TapMax
  <2> DEFINE z == start - mid
  <2>1. z \in Int
    BY <1>1
  <2>2. \/ Clamp(z) = z
        \/ Clamp(z) = 0 /\ z < 0
        \/ Clamp(z) = TapMax /\ z > TapMax
    <3> HIDE DEF z
    <3> QED BY <1>1, <2>1 DEF Clamp
  <2>3. c.dqs = Clamp(z)
    BY <1>6
  <2> DEFINE k == c.dqs
  <2>4. k = z \/ (k = 0 /\ z < 0) \/ (k = TapMax /\ z > TapMax)
    BY <2>2, <2>3, Zenon
  <2>5. mid \in Int /\ z = start - mid /\ moved = start - k
    BY <1>60
  <2> HIDE DEF k, z
  <2>6. \/ moved = mid
        \/ moved = start /\ z < 0
        \/ moved = start - TapMax /\ z > TapMax
    BY <1>1, <2>1, <2>4, <2>5
  <2> QED BY <2>6 DEF z
<1>12. moved \in Int
  BY <1>1, <1>11
<1>13. \A b \in Bits : moved <= E.left[b] /\ -E.right[b] <= moved + TapMax
  <2> SUFFICES ASSUME NEW b \in Bits
               PROVE  moved <= E.left[b] /\ -E.right[b] <= moved + TapMax
    OBVIOUS
  <2> DEFINE L == E.left[b]
             R == E.right[b]
             h == half[b]
  <2>1. /\ L \in Int /\ R \in Int /\ -R <= L /\ -R <= TapMax /\ R <= TapMax - start
        /\ L - R - l <= 2 * TapMax
    BY <1>3, <1>4, <1>8, <1>10
  <2>2. h \in Int /\ h >= 0 /\ 2 * h \in L - R - l - 1 .. L - R - l
    <3>1. half[b] >= 0 /\ 2 * half[b] \in spread(b) - l - 1 .. spread(b) - l
      BY <1>5, Zenon
    <3> QED BY <3>1
  <2>3. 2 * mid \in l .. l + 1
    BY <1>5, Zenon
  <2> HIDE DEF L, R, h
  <2>4. moved <= L /\ -R <= moved + TapMax
    BY <1>1, <1>10, <1>11, <1>12, <2>1, <2>2, <2>3, StrobeMeets
  <2> QED BY <2>4 DEF L, R
<1>14. Inside(c)
  BY <1>1, <1>3, <1>13, CentreInside, Zenon DEF moved, c
<1> QED BY <1>3, <1>14, Zenon DEF E, c

\* A mask around the strobe is taken by the middle of the run it is in.
LEMMA MaskSucceeds ==
  ASSUME board \in Boards, group \in Groups, NEW start \in Taps, NEW dq \in [Bits -> Taps],
         WritesRight(group, start, dq) = Bits, start \in board.groups[group].mask,
         \A x, y \in board.groups[group].mask : x .. y \subseteq board.groups[group].mask
  PROVE  MaskMargin(MaskRun(start, dq)) >= 0
<1> DEFINE run == MaskRun(start, dq)
           G == MaskPlaces(start, dq)
           eyes == board.groups[group].write
           mask == board.groups[group].mask
           put(x) == start + (IF x <= 0 THEN 0 ELSE x)
           sum == -run.bgn - run.end
           mid == Half(sum)
<1>1. /\ TapMax \in Nat /\ start \in Int /\ start \in 0 .. TapMax /\ NoEdge = TapMax + 1
  BY TapFacts DEF Taps
<1>2. eyes \in Eyes /\ mask \in SUBSET (-TapMax .. TapMax)
  BY BoardIs
<1>3. \A x \in -TapMax .. TapMax - start :
        x \in G <=> start + x \in mask /\ WritesRight(group, put(x), dq) = Bits
  BY DEF MaskPlaces
<1>4. \A s : WritesRight(group, s, dq) = Bits
               <=> \A b \in Bits : s - dq[b] \in eyes[b][1] .. eyes[b][2]
  BY DEF WritesRight
<1>5. /\ \A b \in Bits : start - dq[b] \in eyes[b][1] .. eyes[b][2]
      /\ start \in mask /\ \A x, y \in mask : x .. y \subseteq mask
  BY <1>4
<1>6. G \subseteq -TapMax .. TapMax - start
  BY DEF MaskPlaces
<1>7. Longest(run, G, -TapMax, TapMax - start + 1) /\ run \in Runs
  BY MaskRunIs, Zenon
<1>8. \A b \in Bits : dq[b] \in Int /\ eyes[b][1] \in Int /\ eyes[b][2] \in Int
  BY <1>1, <1>2 DEF Eyes, Taps
<1> HIDE DEF run, G, eyes, mask
<1>9. 0 \in G
  <2>1. 0 \in -TapMax .. TapMax - start /\ start + 0 = start /\ put(0) = start
    BY <1>1
  <2> QED BY <1>3, <1>4, <1>5, <2>1
<1>10. ASSUME NEW z \in G, NEW y \in 0 .. z PROVE y \in G
  <2>1. z \in Int /\ y \in Int /\ 0 <= y /\ y <= z /\ z <= TapMax - start /\ z >= 0
    BY <1>1, <1>6
  <2>2. /\ y \in -TapMax .. TapMax - start /\ z \in -TapMax .. TapMax - start
        /\ put(y) = start + y /\ put(z) = start + z
    BY <1>1, <2>1
  <2>3. start + z \in mask /\ WritesRight(group, start + z, dq) = Bits
    BY <1>3, <2>2
  <2>4. start + y \in mask
    <3>1. start + y \in start .. start + z
      BY <1>1, <2>1
    <3> QED BY <1>5, <2>3, <3>1
  <2>5. \A b \in Bits : (start + y) - dq[b] \in eyes[b][1] .. eyes[b][2]
    <3> SUFFICES ASSUME NEW b \in Bits PROVE (start + y) - dq[b] \in eyes[b][1] .. eyes[b][2]
      OBVIOUS
    <3> DEFINE e1 == eyes[b][1]
               e2 == eyes[b][2]
               k == dq[b]
    <3>1. start - k \in e1 .. e2 /\ (start + z) - k \in e1 .. e2
      BY <1>4, <1>5, <2>3
    <3>2. e1 \in Int /\ e2 \in Int /\ k \in Int
      BY <1>8
    <3> HIDE DEF e1, e2, k
    <3>3. (start + y) - k \in e1 .. e2
      BY <1>1, <2>1, <3>1, <3>2
    <3> QED BY <3>3 DEF e1, e2, k
  <2>6. WritesRight(group, put(y), dq) = Bits
    BY <1>4, <2>2, <2>5
  <2> QED BY <1>3, <2>2, <2>4, <2>6
<1> DEFINE bgn == run.bgn
           end == run.end
           win == run.win
<1>11. /\ bgn \in Int /\ end \in Int /\ win \in Nat
       /\ win # 0 => bgn <= end /\ win = end - bgn + 1 /\ end \in bgn .. end /\ end <= TapMax - start
                     /\ bgn .. end \subseteq G
       /\ \A a, b \in -TapMax .. TapMax - start : a <= b /\ a .. b \subseteq G => b - a + 1 <= win
  <2>1. bgn \in Int /\ end \in Int /\ win \in Nat
    BY <1>7 DEF Runs
  <2>2. /\ win # 0 => /\ bgn \in -TapMax .. end /\ end < TapMax - start + 1
                      /\ win = end - bgn + 1 /\ bgn .. end \subseteq G
        /\ \A a, b \in -TapMax .. (TapMax - start + 1) - 1 :
             a <= b /\ a .. b \subseteq G => b - a + 1 <= win
    BY <1>7, Zenon DEF Longest
  <2>3. -TapMax .. (TapMax - start + 1) - 1 = -TapMax .. TapMax - start
    BY <1>1
  <2> HIDE DEF bgn, end, win
  <2> QED BY <1>1, <2>1, <2>2, <2>3
<1> HIDE DEF bgn, end, win
<1>12. win # 0
  <2>1. 0 \in -TapMax .. TapMax - start /\ 0 .. 0 \subseteq G
    BY <1>1, <1>9
  <2>2. 0 - 0 + 1 <= win
    BY <1>11, <2>1
  <2> QED BY <1>11, <2>2
<1>13. bgn <= 0
  <2> SUFFICES ASSUME bgn > 0 PROVE FALSE
    BY <1>11
  <2>1. end \in G /\ end > 0 /\ end \in -TapMax .. TapMax - start /\ 0 \in -TapMax .. TapMax - start
    BY <1>1, <1>11, <1>12
  <2>2. 0 .. end \subseteq G
    BY <1>10, <2>1
  <2>3. end - 0 + 1 <= win
    BY <1>11, <2>1, <2>2
  <2> QED BY <1>11, <1>12, <2>3
<1>14. MaskMargin(run) = -bgn - MaskDelay(run) /\ MaskDelay(run) = IF mid < 0 THEN 0 ELSE mid
  BY <1>12, Zenon DEF MaskMargin, MaskDelay, bgn, end, win
<1>15. sum = -bgn - end /\ sum \in Int
  BY <1>11 DEF bgn, end
<1>16. mid \in Int /\ (sum >= 0 => 2 * mid \in sum - 1 .. sum) /\ (sum <= 0 => 2 * mid \in sum .. sum + 1)
  <2> HIDE DEF sum
  <2> QED BY <1>15, HalfIs
<1> HIDE DEF sum, mid
<1>17. MaskMargin(run) >= 0
  BY <1>11, <1>12, <1>13, <1>14, <1>15, <1>16
<1> QED BY <1>17 DEF run

RoomyBoard ==
  /\ \A g \in Groups : Roomy(board.groups[g])
  /\ board.enough <= Min({board.rlat + 16, LatencyMax})

\* Groups whose turn has not come.
Ahead == \A g \in Groups : g > group => dqs_in[g] = InReserve

\* Some bit reads in the search for the gate, with the strobe put off by n.
SearchReads(n) == ReadsRight(group, n, [b \in Bits |-> b * SweepStep]) # {}

\* A board with room is on its way: an output delay that writes the patterns
\* is still to come, then a strobe delay with which the search has a gate to
\* find, and the strobe is back at its reserve when the reads are centred.
OnItsWay ==
  /\ pc # "vfifo failed"
  /\ pc \in Afterwards => passed = TRUE
  /\ pc \notin Afterwards \cup {"start"} => Ahead /\ curr_read_lat >= board.enough
  /\ pc \in {"group", "pattern", "centre"} => dqs_in[group] = InReserve
  /\ pc = "pattern" => out_d % 2 = 0 /\ \E n \in 0 .. StaticTaps :
                         n % 2 = 0 /\ board.groups[group].pattern <= n /\ out_d <= n
  /\ pc \in {"gate", "search"} =>
       orig = InReserve /\ \E n \in InReserve .. TapMax : taps <= n /\ SearchReads(n)
  /\ pc = "search" /\ SearchReads(taps) => window = board.groups[group].gate
  /\ pc \in {"writes", "read again"} => ReadsRight(group, dqs_in[group], dq_in[group]) = Bits

LEMMA AheadKept ==
  ASSUME CalTyped, Ahead, Touched(dqs_in), group' = group
  PROVE  Ahead'
<1>1. DOMAIN dqs_in = Groups /\ group \in Nat
  BY CalConstants DEF CalTyped, DelaysTyped, LocalsTyped
<1>2. ASSUME NEW g \in Groups, g > group PROVE dqs_in'[g] = dqs_in[g]
  <2>1. g # group
    BY <1>1, <1>2
  <2> QED BY <1>1, <2>1, Zenon DEF Touched
<1> QED BY <1>2 DEF Ahead

LEMMA RoomyIs ==
  ASSUME CalTyped, RoomyBoard, NEW g \in Groups
  PROVE  LET G == board.groups[g] IN
         /\ G \in GroupBoards
         /\ G.gate.length \in Clock \div 2 .. 2 * Clock - 2 * OpaTap - DTap
         /\ \E n \in 0 .. StaticTaps : n % 2 = 0 /\ G.pattern <= n
         /\ \E n \in InReserve .. TapMax, b \in Bits :
              n - b * SweepStep \in G.read[b][1] .. G.read[b][2]
         /\ \A b \in Bits : InReserve - G.read[b][2] <= TapMax
         /\ \A a, b \in Bits :
              G.read[a][1] + G.read[a][2] - (G.read[b][1] + G.read[b][2]) <= 2 * TapMax
         /\ \A b \in Bits : \E n \in Taps : OutReserve - n \in G.write[b][1] .. G.write[b][2]
         /\ OutReserve \in G.mask
         /\ \A x, y \in G.mask : x .. y \subseteq G.mask
<1>1. board \in Boards
  BY Zenon DEF CalTyped
<1>2. board.groups[g] \in GroupBoards
  BY <1>1, Zenon DEF Boards
<1>3. Roomy(board.groups[g])
  BY Zenon DEF RoomyBoard
<1> QED BY <1>2, <1>3, Zenon DEF Roomy

LEMMA InitOnItsWay == CalInit => OnItsWay
<1> SUFFICES ASSUME CalInit PROVE OnItsWay
  OBVIOUS
<1>1. pc = "start"
  BY Zenon DEF CalInit
<1> QED BY <1>1 DEF OnItsWay, Afterwards

LEMMA StartOnItsWay ==
  ASSUME CalTyped, RoomyBoard, Start
  PROVE  OnItsWay'
<1>1. /\ pc' = "group" /\ group' = 0 /\ board' = board
      /\ curr_read_lat' = IF board.rlat + 16 > LatencyMax THEN LatencyMax ELSE board.rlat + 16
      /\ dqs_in' = [g \in Groups |-> InReserve]
  BY Zenon DEF Start
<1>2. 0 \in Groups /\ LatencyMax \in Nat /\ board \in Boards
  BY CalConstants, Zenon DEF CalTyped
<1>3. board.rlat \in Nat /\ board.enough \in Nat
  BY <1>2, BoardIs
<1> DEFINE r == board.rlat + 16
           e == board.enough
           S == {r, LatencyMax}
<1>4. r \in Int /\ e \in Int /\ e <= Min(S)
  <2>1. e <= Min(S)
    BY Zenon DEF RoomyBoard
  <2> QED BY <1>3, <2>1
<1>5. S \in SUBSET Int /\ S # {} /\ (\A x \in S : 0 <= x) /\ r \in S /\ LatencyMax \in S
  BY <1>2, <1>3
<1>6. Min(S) \in Int /\ \A x \in S : Min(S) <= x
  <2> HIDE DEF S
  <2>1. Min(S) \in S /\ \A x \in S : Min(S) <= x
    BY <1>5, MinIs
  <2> QED BY <1>5, <2>1
<1>7. e <= r /\ e <= LatencyMax
  <2> HIDE DEF r, e, S
  <2> QED BY <1>2, <1>4, <1>5, <1>6
<1>8. curr_read_lat' >= board'.enough
  <2>1. curr_read_lat' = r \/ curr_read_lat' = LatencyMax
    BY <1>1
  <2> HIDE DEF r
  <2> QED BY <1>1, <1>2, <1>3, <1>4, <1>7, <2>1
<1>9. Ahead' /\ dqs_in'[group'] = InReserve
  BY <1>1, <1>2 DEF Ahead
<1> QED BY <1>1, <1>8, <1>9 DEF OnItsWay, Afterwards

LEMMA ZeroGroupOnItsWay ==
  ASSUME CalTyped, RoomyBoard, OnItsWay, ZeroGroup
  PROVE  OnItsWay'
<1>1. /\ pc = "group" /\ pc' = "pattern" /\ out_d' = 0
      /\ UNCHANGED <<board, group, dqs_in, curr_read_lat>>
  BY Zenon DEF ZeroGroup
<1>2. Ahead /\ curr_read_lat >= board.enough /\ dqs_in[group] = InReserve
  BY <1>1 DEF OnItsWay, Afterwards
<1>3. Ahead'
  BY <1>1, <1>2, AheadKept DEF Touched
<1>4. group \in Groups
  BY Zenon DEF CalTyped, LocalsTyped
<1>5. \E n \in 0 .. StaticTaps : n % 2 = 0 /\ board.groups[group].pattern <= n
  BY <1>4, RoomyIs, Zenon
<1>6. 0 % 2 = 0 /\ \A n \in 0 .. StaticTaps : 0 <= n
  OBVIOUS
<1>7. out_d' % 2 = 0 /\ \E n \in 0 .. StaticTaps :
        n % 2 = 0 /\ board'.groups[group'].pattern <= n /\ out_d' <= n
  BY <1>1, <1>5, <1>6, Zenon
<1> QED BY <1>1, <1>2, <1>3, <1>7 DEF OnItsWay, Afterwards

LEMMA NextEven ==
  ASSUME NEW o \in Nat, NEW n \in Nat, o < n, o % 2 = 0, n % 2 = 0
  PROVE  o + 2 <= n /\ (o + 2) % 2 = 0
  OBVIOUS

LEMMA LoadPatternOnItsWay ==
  ASSUME CalTyped, RoomyBoard, OnItsWay, LoadPattern
  PROVE  OnItsWay'
<1>1. /\ pc = "pattern" /\ UNCHANGED <<board, group, dqs_in, curr_read_lat>>
      /\ \/ /\ board.groups[group].pattern <= out_d
            /\ pc' = "gate" /\ taps' = dqs_in[group] /\ orig' = dqs_in[group]
         \/ /\ ~(board.groups[group].pattern <= out_d)
            /\ out_d' = out_d + 2
            /\ pc' = IF out_d' <= StaticTaps THEN "pattern" ELSE "vfifo failed"
  BY Zenon DEF LoadPattern, NextOutDelay
<1>2. /\ Ahead /\ curr_read_lat >= board.enough /\ dqs_in[group] = InReserve
      /\ out_d % 2 = 0 /\ \E n \in 0 .. StaticTaps :
           n % 2 = 0 /\ board.groups[group].pattern <= n /\ out_d <= n
  BY <1>1 DEF OnItsWay, Afterwards
<1>3. Ahead'
  BY <1>1, <1>2, AheadKept DEF Touched
<1>4. group \in Groups /\ board \in Boards /\ out_d \in Nat
  <2>1. group \in Groups /\ board \in Boards /\ out_d \in 0 .. StaticTaps + 2
    BY Zenon DEF CalTyped, LocalsTyped
  <2> QED BY <2>1
<1>5. CASE pc' = "gate" /\ taps' = dqs_in[group] /\ orig' = dqs_in[group]
  <2>1. PICK n \in InReserve .. TapMax, b \in Bits :
          n - b * SweepStep \in board.groups[group].read[b][1] .. board.groups[group].read[b][2]
    BY <1>4, RoomyIs, Zenon
  <2>2. SearchReads(n)
    <3> DEFINE dq == [x \in Bits |-> x * SweepStep]
    <3>1. dq[b] = b * SweepStep
      OBVIOUS
    <3>2. b \in ReadsRight(group, n, dq)
      <4> HIDE DEF dq
      <4> QED BY <2>1, <3>1 DEF ReadsRight
    <3> QED BY <3>2, Zenon DEF SearchReads
  <2>3. SearchReads(n)' <=> SearchReads(n)
    BY <1>1, Zenon DEF SearchReads, ReadsRight
  <2>4. InReserve <= n
    BY CalConstants
  <2>5. orig' = InReserve /\ \E m \in InReserve .. TapMax : taps' <= m /\ SearchReads(m)'
    BY <1>2, <1>5, <2>2, <2>3, <2>4, Zenon
  <2> QED BY <1>1, <1>2, <1>3, <1>5, <2>5 DEF OnItsWay, Afterwards
<1>6. CASE /\ ~(board.groups[group].pattern <= out_d)
           /\ out_d' = out_d + 2
           /\ pc' = IF out_d' <= StaticTaps THEN "pattern" ELSE "vfifo failed"
  <2>1. PICK n \in 0 .. StaticTaps :
          n % 2 = 0 /\ board.groups[group].pattern <= n /\ out_d <= n
    BY <1>2, Zenon
  <2>2. PICK least \in Nat : least = board.groups[group].pattern
    BY <1>4, BoardIs
  <2>3. out_d + 2 <= n /\ (out_d + 2) % 2 = 0
    <3>1. ~(least <= out_d) /\ least <= n
      BY <1>6, <2>1, <2>2, Zenon
    <3>2. n \in Nat /\ out_d < n /\ n % 2 = 0 /\ out_d % 2 = 0
      <4>1. StaticTaps \in Nat /\ n % 2 = 0 /\ out_d % 2 = 0
        BY <1>2, <2>1, CalConstants
      <4> QED BY <1>4, <2>2, <3>1, <4>1
    <3> QED BY <1>4, <3>2, NextEven
  <2>4. out_d' <= StaticTaps /\ out_d' <= n /\ out_d' % 2 = 0 /\ n % 2 = 0
    <3>1. out_d' = out_d + 2 /\ n % 2 = 0
      BY <1>6, <2>1, Zenon
    <3>2. out_d' <= n /\ out_d' % 2 = 0
      BY <2>3, <3>1, Zenon
    <3>3. out_d' \in Int /\ StaticTaps \in Nat
      BY <1>4, <3>1, CalConstants
    <3> QED BY <3>1, <3>2, <3>3
  <2>5. pc' = "pattern"
    BY <1>6, <2>4
  <2>6. board'.groups[group'].pattern <= n
    BY <1>1, <2>1, Zenon
  <2> QED BY <1>1, <1>2, <1>3, <2>1, <2>4, <2>5, <2>6 DEF OnItsWay, Afterwards
<1> QED BY <1>1, <1>5, <1>6

LEMMA CallGateOnItsWay ==
  ASSUME CalTyped, RoomyBoard, OnItsWay, CallGate
  PROVE  OnItsWay'
<1>1. /\ pc = "gate" /\ pc' = "search" /\ Touched(dqs_in)
      /\ UNCHANGED <<board, group, taps, orig, curr_read_lat>>
      /\ SearchReads(taps) => window' = board.groups[group].gate
  BY Zenon DEF CallGate, SearchGate, SearchReads, Touched, locals
<1>2. /\ Ahead /\ curr_read_lat >= board.enough
      /\ orig = InReserve /\ \E n \in InReserve .. TapMax : taps <= n /\ SearchReads(n)
  BY <1>1 DEF OnItsWay, Afterwards
<1>3. Ahead'
  BY <1>1, <1>2, AheadKept
<1>4. \A n \in InReserve .. TapMax : SearchReads(n)' <=> SearchReads(n)
  BY <1>1, Zenon DEF SearchReads, ReadsRight
<1>5. SearchReads(taps)' <=> SearchReads(taps)
  BY <1>1, Zenon DEF SearchReads, ReadsRight
<1>6. orig' = InReserve /\ \E n \in InReserve .. TapMax : taps' <= n /\ SearchReads(n)'
  BY <1>1, <1>2, <1>4, Zenon
<1>7. SearchReads(taps)' => window' = board'.groups[group'].gate
  BY <1>1, <1>5, Zenon
<1> QED BY <1>1, <1>2, <1>3, <1>6, <1>7 DEF OnItsWay, Afterwards

LEMMA SameOnItsWay ==
  ASSUME OnItsWay,
         UNCHANGED <<pc, passed, group, out_d, taps, orig, dqs_in, dq_in, board,
                     curr_read_lat, window>>
  PROVE  OnItsWay'
<1>1. Ahead' <=> Ahead
  BY Zenon DEF Ahead
<1>2. \A n : SearchReads(n)' <=> SearchReads(n)
  BY Zenon DEF SearchReads, ReadsRight
<1>3. SearchReads(taps)' <=> SearchReads(taps)
  BY Zenon DEF SearchReads, ReadsRight
<1>4. ReadsRight(group, dqs_in[group], dq_in[group])'
        = ReadsRight(group, dqs_in[group], dq_in[group])
  BY Zenon DEF ReadsRight
<1> QED BY <1>1, <1>2, <1>3, <1>4, Zenon DEF OnItsWay

LEMMA GateFoundOnItsWay ==
  ASSUME CalTyped, RoomyBoard, OnItsWay, GateFound
  PROVE  OnItsWay'
<1>1. /\ pc = "search" /\ pc' = "centre" /\ dqs_in' = [dqs_in EXCEPT ![group] = orig]
      /\ UNCHANGED <<board, group, curr_read_lat>>
  BY Zenon DEF GateFound, locals
<1>2. Ahead /\ curr_read_lat >= board.enough /\ orig = InReserve
  BY <1>1 DEF OnItsWay, Afterwards
<1>3. Ahead'
  BY <1>1, <1>2, AheadKept, Zenon DEF Touched
<1>4. DOMAIN dqs_in = Groups /\ group \in Groups
  BY DEF CalTyped, DelaysTyped, LocalsTyped
<1>5. dqs_in'[group'] = InReserve
  BY <1>1, <1>2, <1>4
<1> QED BY <1>1, <1>2, <1>3, <1>5 DEF OnItsWay, Afterwards

LEMMA GateLostOnItsWay ==
  ASSUME CalTyped, RoomyBoard, OnItsWay, GateNearMiddle, GateLost
  PROVE  OnItsWay'
<1>1. /\ pc = "search" /\ step = "lost" /\ taps' = taps + 1
      /\ taps < TapMax => pc' = "gate"
      /\ UNCHANGED <<board, group, dqs_in, orig, curr_read_lat>>
  BY Zenon DEF GateLost, NextInDelay
<1>2. /\ Ahead /\ curr_read_lat >= board.enough /\ orig = InReserve
      /\ SearchReads(taps) => window = board.groups[group].gate
  BY <1>1 DEF OnItsWay, Afterwards
<1>3. PICK n \in InReserve .. TapMax : taps <= n /\ SearchReads(n)
  BY <1>1 DEF OnItsWay
<1>4. ~SearchReads(taps)
  <2>1. group \in Groups
    BY Zenon DEF CalTyped, LocalsTyped
  <2>2. board.groups[group].gate.length \in Clock \div 2 .. 2 * Clock - 2 * OpaTap - DTap
    BY <2>1, RoomyIs, Zenon
  <2> QED BY <1>1, <1>2, <2>2, Zenon DEF GateNearMiddle
<1>5. taps < TapMax /\ taps' <= n
  <2>1. taps # n /\ taps <= n
    BY <1>3, <1>4, Zenon
  <2>2. taps \in 0 .. TapMax + 1
    BY Zenon DEF CalTyped, LocalsTyped
  <2>3. InReserve \in Nat /\ TapMax \in Nat
    BY CalConstants
  <2>4. taps' = taps + 1
    BY <1>1
  <2> QED BY <2>1, <2>2, <2>3, <2>4
<1>6. pc' = "gate"
  BY <1>1, <1>5, Zenon
<1>7. Ahead'
  BY <1>1, <1>2, AheadKept, Zenon DEF Touched
<1>8. SearchReads(n)' <=> SearchReads(n)
  BY <1>1, Zenon DEF SearchReads, ReadsRight
<1>9. orig' = InReserve /\ \E m \in InReserve .. TapMax : taps' <= m /\ SearchReads(m)'
  BY <1>1, <1>2, <1>3, <1>5, <1>8, Zenon
<1> QED BY <1>1, <1>2, <1>6, <1>7, <1>9 DEF OnItsWay, Afterwards

\* The sweeps of a group with room find every edge, and the strobe and the
\* bits are put inside, from any delay of the strobe that leaves the eyes
\* within reach.
LEMMA RoomyReads ==
  ASSUME CalTyped, RoomyBoard,
         \A b \in Bits : dqs_in[group] - board.groups[group].read[b][2] <= TapMax
  PROVE  /\ EdgeMissing(ReadEdges) = {}
         /\ Inside(Centre(ReadEdges, dqs_in[group], FALSE))
<1> DEFINE eyes == board.groups[group].read
           start == dqs_in[group]
<1>1. group \in Groups /\ board \in Boards /\ dqs_in \in [Groups -> Taps]
  BY Zenon DEF CalTyped, LocalsTyped, DelaysTyped
<1>2. eyes \in Eyes /\ start \in Taps
  BY <1>1, BoardIs
<1>3. \A a, b \in Bits : eyes[a][1] + eyes[a][2] - (eyes[b][1] + eyes[b][2]) <= 2 * TapMax
  BY <1>1, RoomyIs, Zenon
<1>4. ReadEdges = Swept(eyes, start, FALSE)
  BY ReadEdgesSwept
<1>5. \A b \in Bits : start - eyes[b][2] <= TapMax
  OBVIOUS
<1> HIDE DEF eyes, start
<1>6. /\ EdgeMissing(Swept(eyes, start, FALSE)) = {}
      /\ Inside(Centre(Swept(eyes, start, FALSE), start, FALSE))
  BY <1>2, <1>3, <1>5, ReadSucceeds, Zenon
<1> QED BY <1>4, <1>6, Zenon DEF start

LEMMA CentreReadOnItsWay ==
  ASSUME CalTyped, RoomyBoard, OnItsWay, CentreRead
  PROVE  OnItsWay'
<1> DEFINE c == Centre(ReadEdges, dqs_in[group], FALSE)
<1>1. pc = "centre" /\ UNCHANGED <<board, group, curr_read_lat>>
  BY Zenon DEF CentreRead
<1>2. Ahead /\ curr_read_lat >= board.enough /\ dqs_in[group] = InReserve
  BY <1>1 DEF OnItsWay, Afterwards
<1>3. EdgeMissing(ReadEdges) = {} /\ Inside(c)
  <2>1. group \in Groups
    BY Zenon DEF CalTyped, LocalsTyped
  <2>2. \A b \in Bits : InReserve - board.groups[group].read[b][2] <= TapMax
    BY <2>1, RoomyIs, Zenon
  <2> QED BY <1>2, <2>2, RoomyReads, Zenon
<1>4. SetReadDelays(c) /\ pc' = "writes"
  BY <1>3, Zenon DEF CentreRead
<1>5. ReadsRight(group, dqs_in'[group], dq_in'[group]) = Bits
  BY <1>3, <1>4, ReadSet, Zenon
<1>6. ReadsRight(group, dqs_in[group], dq_in[group])' = Bits
  BY <1>1, <1>5, Zenon DEF ReadsRight
<1>7. Ahead'
  BY <1>1, <1>2, <1>4, AheadKept, Zenon DEF Touched, SetReadDelays
<1> HIDE DEF c
<1> QED BY <1>1, <1>2, <1>4, <1>6, <1>7 DEF OnItsWay, Afterwards

LEMMA CentreWritesOnItsWay ==
  ASSUME CalTyped, RoomyBoard, OnItsWay, WritesStartAtReserve, CentreWrites
  PROVE  OnItsWay'
<1> DEFINE start == dqs_out[group]
           eyes == board.groups[group].write
           c == Centre(WriteEdges, start, TRUE)
           run == MaskRun(start, c.dq)
<1>1. pc = "writes" /\ UNCHANGED <<board, group, dqs_in, dq_in, curr_read_lat>>
  BY Zenon DEF CentreWrites, locals
<1>2. /\ Ahead /\ curr_read_lat >= board.enough
      /\ ReadsRight(group, dqs_in[group], dq_in[group]) = Bits
  BY <1>1 DEF OnItsWay, Afterwards
<1>3. start = OutReserve
  BY <1>1, Zenon DEF WritesStartAtReserve
<1>4. /\ board \in Boards /\ group \in Groups /\ DelaysTyped /\ dqs_out \in [Groups -> Taps]
  BY Zenon DEF CalTyped, LocalsTyped, DelaysTyped
<1>5. EdgeMissing(WriteEdges) = {} /\ Inside(c)
  <2>1. eyes \in Eyes /\ start \in Taps
    BY <1>4, BoardIs
  <2>2. \A b \in Bits : \E n \in Taps : start - n \in eyes[b][1] .. eyes[b][2]
    BY <1>3, <1>4, RoomyIs, Zenon
  <2>3. WriteEdges = Swept(eyes, start, TRUE)
    BY WriteEdgesSwept
  <2> HIDE DEF eyes, start
  <2>4. /\ EdgeMissing(Swept(eyes, start, TRUE)) = {}
        /\ Inside(Centre(Swept(eyes, start, TRUE), start, TRUE))
    BY <2>1, <2>2, WriteSucceeds, Zenon
  <2> QED BY <2>3, <2>4, Zenon
<1>6. c.dq \in [Bits -> Taps] /\ WritesRight(group, start, c.dq) = Bits
  BY <1>4, <1>5, WriteCentre, Zenon
<1>7. MaskMargin(run) >= 0
  <2> DEFINE mask == board.groups[group].mask
  <2>1. OutReserve \in mask /\ \A x, y \in mask : x .. y \subseteq mask
    BY <1>4, RoomyIs, Zenon
  <2>2. start \in Taps /\ start \in mask
    BY <1>3, <2>1, CalConstants, Zenon
  <2>3. PICK dq \in [Bits -> Taps] : dq = c.dq
    BY <1>6
  <2>4. WritesRight(group, start, dq) = Bits
    BY <1>6, <2>3, Zenon
  <2> HIDE DEF c, start
  <2>5. MaskMargin(MaskRun(start, dq)) >= 0
    BY <1>4, <2>1, <2>2, <2>4, MaskSucceeds, Zenon
  <2> QED BY <2>3, <2>5, Zenon
<1>8. pc' = "read again"
  BY <1>5, <1>7, Zenon DEF CentreWrites
<1>9. Ahead'
  BY <1>1, <1>2, AheadKept, Zenon DEF Touched
<1>10. ReadsRight(group, dqs_in[group], dq_in[group])' = Bits
  BY <1>1, <1>2, Zenon DEF ReadsRight
<1> HIDE DEF c, run, start, eyes
<1> QED BY <1>1, <1>2, <1>8, <1>9, <1>10 DEF OnItsWay, Afterwards

LEMMA CentreAfterWritesOnItsWay ==
  ASSUME CalTyped, RoomyBoard, OnItsWay, CentreAfterWrites
  PROVE  OnItsWay'
<1> DEFINE c == Centre(ReadEdges, dqs_in[group], FALSE)
<1>1. pc = "read again" /\ UNCHANGED <<board, curr_read_lat>>
  BY Zenon DEF CentreAfterWrites
<1>2. /\ Ahead /\ curr_read_lat >= board.enough
      /\ ReadsRight(group, dqs_in[group], dq_in[group]) = Bits
  BY <1>1 DEF OnItsWay, Afterwards
<1>3. /\ board \in Boards /\ group \in Groups
      /\ dqs_in \in [Groups -> Taps] /\ dq_in \in [Groups -> [Bits -> Taps]]
  BY Zenon DEF CalTyped, LocalsTyped, DelaysTyped
<1>4. EdgeMissing(ReadEdges) = {} /\ Inside(c)
  <2>1. ASSUME NEW b \in Bits
        PROVE  dqs_in[group] - board.groups[group].read[b][2] <= TapMax
    <3>1. b \in ReadsRight(group, dqs_in[group], dq_in[group])
      BY <1>2
    <3>2. dqs_in[group] - dq_in[group][b]
            \in board.groups[group].read[b][1] .. board.groups[group].read[b][2]
      BY <3>1, Zenon DEF ReadsRight
    <3>3. PICK s \in Taps, n \in Taps : s = dqs_in[group] /\ n = dq_in[group][b]
      BY <1>3
    <3>4. PICK e1 \in Int, e2 \in Int : /\ e1 = board.groups[group].read[b][1]
                                       /\ e2 = board.groups[group].read[b][2]
      <4>1. board.groups[group].read \in Eyes
        BY <1>3, BoardIs
      <4> QED BY <4>1 DEF Eyes
    <3>5. s - n \in e1 .. e2
      BY <3>2, <3>3, <3>4, Zenon
    <3>6. s - e2 <= TapMax
      BY <3>5, TapFacts DEF Taps
    <3> QED BY <3>3, <3>4, <3>6, Zenon
  <2> QED BY <2>1, RoomyReads, Zenon
<1>5. /\ SetReadDelays(c)
      /\ \/ group + 1 < GroupCount /\ pc' = "group" /\ group' = group + 1
         \/ pc' = "latency" /\ group' = group
  BY <1>4, Zenon DEF CentreAfterWrites
<1>6. \A g \in Groups : g # group => dqs_in'[g] = dqs_in[g]
  <2>1. dqs_in' = [dqs_in EXCEPT ![group] = c.dqs]
    BY <1>5, Zenon DEF SetReadDelays
  <2> HIDE DEF c
  <2> QED BY <1>3, <2>1
<1> HIDE DEF c
<1>7. CASE group + 1 < GroupCount /\ pc' = "group" /\ group' = group + 1
  <2>1. group \in Nat /\ GroupCount \in Nat /\ Groups = 0 .. GroupCount - 1
    BY <1>3, CalConstants DEF Groups
  <2>2. group + 1 \in Groups /\ group + 1 > group /\ group + 1 # group
    BY <1>7, <2>1
  <2>3. dqs_in'[group'] = InReserve
    BY <1>2, <1>6, <1>7, <2>2, Zenon DEF Ahead
  <2>4. Ahead'
    <3>1. ASSUME NEW g \in Groups, g > group' PROVE g > group /\ g # group
      <4>1. g \in Int /\ g > group + 1
        BY <1>7, <2>1, <3>1
      <4> QED BY <2>1, <4>1
    <3> QED BY <1>2, <1>6, <3>1, Zenon DEF Ahead
  <2> QED BY <1>1, <1>2, <1>7, <2>3, <2>4 DEF OnItsWay, Afterwards
<1>8. CASE pc' = "latency" /\ group' = group
  <2>1. Ahead'
    <3>1. Touched(dqs_in)
      BY <1>5, Zenon DEF Touched, SetReadDelays
    <3> QED BY <1>2, <1>8, <3>1, AheadKept, Zenon
  <2> QED BY <1>1, <1>2, <1>8, <2>1 DEF OnItsWay, Afterwards
<1> QED BY <1>5, <1>7, <1>8, Zenon

LEMMA EndOnItsWay ==
  ASSUME CalTyped, RoomyBoard, OnItsWay, VfifoFailed \/ CentreLatency \/ HandOver \/ Tell
  PROVE  OnItsWay'
<1>1. ~VfifoFailed
  BY Zenon DEF OnItsWay, VfifoFailed
<1>2. CASE CentreLatency
  <2>1. pc = "latency" /\ pc' = "hand over"
    BY <1>2, Zenon DEF CentreLatency
  <2>2. curr_read_lat >= board.enough
    BY <2>1 DEF OnItsWay, Afterwards
  <2>3. ~(curr_read_lat < board.enough)
    <3>1. board.enough \in Nat /\ curr_read_lat \in Int
      <4>1. board \in Boards /\ curr_read_lat \in 0 .. LatencyMax + 1
        BY Zenon DEF CalTyped
      <4> QED BY <4>1, BoardIs, CalConstants
    <3> QED BY <2>2, <3>1
  <2>4. passed' = TRUE
    BY <1>2, <2>3, Zenon DEF CentreLatency
  <2> QED BY <2>1, <2>4 DEF OnItsWay, Afterwards
<1>3. CASE HandOver \/ Tell
  <2>1. pc \in Afterwards /\ pc' \in Afterwards /\ passed' = passed
    BY <1>3, Zenon DEF HandOver, Tell, Afterwards
  <2>2. passed' = TRUE
    BY <2>1, Zenon DEF OnItsWay
  <2> QED BY <2>1, <2>2 DEF OnItsWay, Afterwards
<1> QED BY <1>1, <1>2, <1>3

LEMMA NextOnItsWay ==
  ASSUME CalTyped, RoomyBoard => OnItsWay, WritesStartAtReserve, GateNearMiddle,
         [CalNext]_calVars
  PROVE  (RoomyBoard => OnItsWay)'
<1>1. board' = board
  BY Zenon DEF CalNext, calVars, Start, ZeroGroup, LoadPattern, CallGate, SearchStep, GateFound,
     GateLost, CentreRead, VfifoFailed, CentreWrites, CentreAfterWrites, CentreLatency,
     HandOver, Tell
<1> SUFFICES ASSUME RoomyBoard' PROVE OnItsWay'
  OBVIOUS
<1>2. RoomyBoard
  BY <1>1, Zenon DEF RoomyBoard
<1>3. OnItsWay
  BY <1>2
<1>4. CASE SearchStep
  <2>1. UNCHANGED <<pc, passed, group, out_d, taps, orig, dqs_in, dq_in, board, curr_read_lat>>
    BY <1>4, Zenon DEF SearchStep, locals, delays, report
  <2>2. window' = window
    BY <1>4, Zenon DEF SearchStep, GateStep, Push, FindBegin, BackOff, FindEnd, FindEdge,
       TrackTaps, CentreGate
  <2> QED BY <1>3, <2>1, <2>2, SameOnItsWay, Zenon
<1>5. CASE UNCHANGED calVars
  <2>1. UNCHANGED <<pc, passed, group, out_d, taps, orig, dqs_in, dq_in, board, curr_read_lat, window>>
    BY <1>5, Zenon DEF calVars, gateVars, locals, delays, report
  <2> QED BY <1>3, <2>1, SameOnItsWay, Zenon
<1>6. CASE VfifoFailed \/ CentreLatency \/ HandOver \/ Tell
  BY <1>2, <1>3, <1>6, EndOnItsWay, Zenon
<1> QED BY <1>2, <1>3, <1>4, <1>5, <1>6, StartOnItsWay, ZeroGroupOnItsWay, LoadPatternOnItsWay,
        CallGateOnItsWay, GateFoundOnItsWay, GateLostOnItsWay, CentreReadOnItsWay,
        CentreWritesOnItsWay, CentreAfterWritesOnItsWay, Zenon DEF CalNext

\* A board with room calibrates, for every length of the ring, the cycle and
\* the chains: rw_mgr_mem_calibrate_vfifo (sequencer.c:5794-5990) comes to a
\* strobe delay at which the search has a gate to find, the sweeps find every
\* edge from there, and no later stage fails.
THEOREM RoomyCalibrated ==
  ASSUME FineGate
  PROVE  CalInit /\ [][CalNext]_calVars => []CalibratesRoomyBoards
<1>1. (RoomyBoard => OnItsWay) => CalibratesRoomyBoards
  BY DEF OnItsWay, Afterwards, RoomyBoard, CalibratesRoomyBoards
<1>2. CalInit => (RoomyBoard => OnItsWay)
  BY InitOnItsWay
<1>3. Gating => GateNearMiddle
  BY DEF Gating, InRange, GateNearMiddle
<1>4. CalTyped /\ [CalNext]_calVars => CalTyped'
  BY NextTyped
<1>5. CalTyped /\ Searched /\ Gating /\ [CalNext]_calVars => (Searched /\ Gating)'
  BY NextGating
<1>6. CalTyped /\ (RoomyBoard => OnItsWay) /\ WritesStartAtReserve /\ GateNearMiddle
        /\ [CalNext]_calVars => (RoomyBoard => OnItsWay)'
  BY NextOnItsWay
<1> QED BY <1>1, <1>2, <1>3, <1>4, <1>5, <1>6, WritesPrepared, InitTyped, InitGating, PTL
=============================================================================
