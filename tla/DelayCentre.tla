------------------------------ MODULE DelayCentre ------------------------------
(***************************************************************************)
(* How the sequencer centres the data bits of a group on its strobe        *)
(* (rw_mgr_mem_calibrate_vfifo_center and ..._writes_center), and the data *)
(* mask after them.  The code sweeps a delay and keeps, per bit, where it  *)
(* read right; here the end of a sweep and its edges are stated as what    *)
(* the loops leave behind, for any outcome of the test reads.  A left edge *)
(* is how far the bit can be put off, a right edge how far the strobe can. *)
(***************************************************************************)
EXTENDS Integers, FiniteSets, FiniteSetsExt

CONSTANTS
  Bits,       \* data bits of a group, RW_MGR_MEM_DQ_PER_READ_DQS of them
  TapMax      \* the longest delay: IO_IO_IN, IO_DQS_IN and IO_IO_OUT1_DELAY_MAX

ASSUME CentreAssumption ==
  /\ IsFiniteSet(Bits) /\ Cardinality(Bits) > 1 /\ Bits = 0 .. Cardinality(Bits) - 1
  /\ TapMax \in Nat \ {0}

Taps == 0 .. TapMax
NoEdge == TapMax + 1

\* Mutant: only delays below 0 are put right.
ClampBelow(n) == IF n < 0 THEN 0 ELSE n

Clamp(n) == IF n < 0 THEN 0 ELSE IF n > TapMax THEN TapMax ELSE n

\* Division of C, towards zero.
Half(n) == IF n >= 0 THEN n \div 2 ELSE -((-n) \div 2)

\* Where a sweep over 0 .. n - 1 ends: when no bit passes and every bit has
\* passed, or its edge was known before.
SweepEnd(pass, n, known) ==
  LET ends(k) == k < n => /\ pass[k] = {}
                          /\ Bits = known \cup UNION {pass[m] : m \in 0 .. k - 1}
  IN  CHOOSE k \in 0 .. n : ends(k) /\ \A m \in 0 .. k - 1 : ~ends(m)

Passing(pass, n, b) == {k \in 0 .. n - 1 : b \in pass[k]}

\* Mutant: the sign of a right edge is lost.
LeftSweepSign(pass) ==
  LET n == SweepEnd(pass, TapMax + 1, {})
      seen(b) == Passing(pass, n, b)
  IN  [left |-> [b \in Bits |-> IF seen(b) = {} THEN NoEdge ELSE Max(seen(b))],
       right |-> [b \in Bits |-> IF seen(b) = {} \/ 0 \in seen(b)
                                 THEN NoEdge ELSE Min(seen(b))]]

\* The edges after the data bits have been swept.  A right edge shows where
\* a bit begins to pass late, and is forgotten if it never does.
LeftSweep(pass) ==
  LET n == SweepEnd(pass, TapMax + 1, {})
      seen(b) == Passing(pass, n, b)
  IN  [left |-> [b \in Bits |-> IF seen(b) = {} THEN NoEdge ELSE Max(seen(b))],
       right |-> [b \in Bits |-> IF seen(b) = {} \/ 0 \in seen(b)
                                 THEN NoEdge ELSE -Min(seen(b))]]

\* Mutant: a bit that passed with both delays at rest has no right edge.
RightSweepNever(pass, n, edges, write) ==
  LET known == {b \in Bits : edges.left[b] # NoEdge
                             /\ (write \/ edges.right[b] # NoEdge)}
      m == SweepEnd(pass, n, known)
      seen(b) == Passing(pass, m, b)
  IN  [left |-> edges.left, end |-> m,
       right |-> [b \in Bits |-> IF seen(b) # {} THEN Max(seen(b)) ELSE edges.right[b]]]

\* The edges after the strobe has been swept over 0 .. n - 1.
RightSweep(pass, n, edges, write) ==
  LET known == {b \in Bits : edges.left[b] # NoEdge
                             /\ (write \/ edges.right[b] # NoEdge)}
      m == SweepEnd(pass, n, known)
      seen(b) == Passing(pass, m, b)
      first(b) == IF seen(b) = {} THEN m ELSE Min(seen(b))
      right(b) == IF seen(b) # {} THEN Max(seen(b))
                  ELSE IF edges.right[b] = NoEdge /\ edges.left[b] # NoEdge
                          /\ (m > 0 \/ write)
                  THEN -1
                  ELSE edges.right[b]
      left(b) == IF edges.left[b] = NoEdge /\ edges.right[b] = NoEdge /\ first(b) > 0
                 THEN -first(b)
                 ELSE edges.left[b]
  IN  [left |-> [b \in Bits |-> left(b)],
       right |-> [b \in Bits |-> right(b)],
       end |-> m]

EdgeMissing(edges) ==
  {b \in Bits : edges.left[b] = NoEdge \/ edges.right[b] = NoEdge}

\* Mutant: the way the strobe has moved is not taken off the bits.
CentreUnmoved(edges, start, write) ==
  LET spread(b) == edges.left[b] - edges.right[b]
      least == Min({spread(b) : b \in Bits})
      mid == Half(IF least > 0 THEN least + 1 ELSE least)
      dqs == IF write THEN start ELSE Clamp(start - mid)
      dq == [b \in Bits |-> Clamp(Half(spread(b) - least))]
  IN  [dqs |-> dqs, dq |-> dq,
       dqMargin |-> Min({NoEdge} \cup {edges.left[b] - dq[b] - mid : b \in Bits}),
       dqsMargin |-> Min({NoEdge} \cup {edges.right[b] + dq[b] + mid : b \in Bits})]

\* The delays chosen: the strobe moves towards the bit whose eye lies latest
\* (only when it reads), the other bits are put off by what they differ.
Centre(edges, start, write) ==
  LET spread(b) == edges.left[b] - edges.right[b]
      least == Min({spread(b) : b \in Bits})
      mid == Half(IF least > 0 THEN least + 1 ELSE least)
      dqs == IF write THEN start ELSE Clamp(start - mid)
      moved == start - dqs
      dq == [b \in Bits |-> Clamp(Half(spread(b) - least) + mid - moved)]
  IN  [dqs |-> dqs,
       dq |-> dq,
       dqMargin |-> Min({NoEdge} \cup {edges.left[b] - dq[b] - moved : b \in Bits}),
       dqsMargin |-> Min({NoEdge} \cup {edges.right[b] + dq[b] + moved : b \in Bits})]

-----------------------------------------------------------------------------
\* The data mask: the longest run of passing positions, put off by a mask
\* delay first, then by a strobe delay.

NoRun == [bgn |-> NoEdge, end |-> NoEdge, win |-> 0]
NoScan == [bgn |-> NoEdge, best |-> NoRun, stop |-> FALSE]

\* Mutant: the first run is kept.
HitFirst(s, x) ==
  LET bgn == IF s.bgn = NoEdge THEN x ELSE s.bgn
  IN  [s EXCEPT !.bgn = bgn,
                !.best = IF @.win = 0 \/ @.bgn = bgn
                         THEN [bgn |-> bgn, end |-> x, win |-> x - bgn + 1] ELSE @]

Hit(s, x) ==
  LET bgn == IF s.bgn = NoEdge THEN x ELSE s.bgn
      win == x - bgn + 1
  IN  [s EXCEPT !.bgn = bgn,
                !.best = IF win > @.win THEN [bgn |-> bgn, end |-> x, win |-> win] ELSE @]

\* The rest of the sweep is left out when it has no room for a longer run.
Miss(s, rest) == [s EXCEPT !.bgn = NoEdge, !.stop = s.best.win - 1 > rest]

\* What is known before position x: -TapMax .. 0 by the mask, where all of
\* the sweep is made, and then 0 .. n - 1 by the strobe.
MaskScan(pass) ==
  LET before[x \in -TapMax .. 1] ==
        IF x = -TapMax THEN NoScan
        ELSE LET s == before[x - 1]
             IN  IF pass[1 - x] THEN Hit(s, x - 1) ELSE [s EXCEPT !.bgn = NoEdge]
  IN  before[1]

StrobeScan(pass, n, found) ==
  LET before[x \in 0 .. n] ==
        IF x = 0 THEN found
        ELSE LET s == before[x - 1]
             IN  IF s.stop THEN s
                 ELSE IF pass[x - 1] THEN Hit(s, x - 1)
                 ELSE Miss(s, n - x)
  IN  before[n].best

\* The middle of the run, which a mask delay can only reach on one side.
MaskDelay(run) == LET mid == Half(-run.bgn - run.end) IN IF mid < 0 THEN 0 ELSE mid
MaskMargin(run) == IF run.win = 0 THEN -1 ELSE -run.bgn - MaskDelay(run)
=============================================================================
