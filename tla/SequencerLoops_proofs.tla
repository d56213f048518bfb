------------------------ MODULE SequencerLoops_proofs ------------------------
(* The calibration's two searches, for groups and delay chains of any      *)
(* size: what the sweeps and the centring return from whatever outcome the *)
(* test reads have; and loop by loop where the search for the read gate    *)
(* is, up to the middle of the window.                                     *)
EXTENDS DqsEnable, DelayCentre, FiniteSetTheorems, TLAPS

-----------------------------------------------------------------------------
(* Least elements and recursion.  The library's induction theorems are     *)
(* about operators; these are about sets and functions, and rest on the    *)
(* subsets of a finite set being well-founded.                             *)

LEMMA LeastNat ==
  ASSUME NEW S \in SUBSET Nat, S # {}
  PROVE  \E x \in S : \A y \in S : x <= y
<1> PICK n \in S : TRUE
  OBVIOUS
<1> DEFINE below == {m \in S : m <= n}
           upTo == {0 .. m : m \in below}
           R == StrictSubsetOrdering(0 .. n)
           F == FiniteSubsetsOf(0 .. n)
<1>1. IsWellFoundedOn(R, F)
  BY FS_StrictSubsetOrderingWellFounded, Zenon
<1>2. upTo \subseteq F
  <2>1. ASSUME NEW m \in below PROVE 0 .. m \in F
    <3>1. m \in Int /\ 0 .. m \in SUBSET (0 .. n)
      OBVIOUS
    <3>2. IsFiniteSet(0 .. m)
      BY <3>1, FS_Interval
    <3> QED BY <3>1, <3>2 DEF FiniteSubsetsOf
  <2> QED BY <2>1
<1>3. upTo # {}
  <2>1. n \in below
    OBVIOUS
  <2> QED BY <2>1
<1>4. PICK A \in upTo : \A B \in upTo : <<B, A>> \notin R
  <2> HIDE DEF R, F, upTo
  <2> QED BY <1>1, <1>2, <1>3, WFMin, Zenon
<1>5. PICK x \in below : A = 0 .. x
  BY <1>4, Zenon
<1>6. ASSUME NEW y \in S, y < x PROVE FALSE
  <2>1. y \in below
    BY <1>6
  <2>2. 0 .. y \in upTo
    BY <2>1
  <2>3. <<0 .. y, 0 .. x>> \notin R
    BY <1>4, <1>5, <2>2
  <2>4. 0 .. y \in SUBSET (0 .. n) /\ 0 .. x \in SUBSET (0 .. n)
    BY <2>1
  <2>5. 0 .. y \subseteq 0 .. x /\ x \in 0 .. x /\ x \notin 0 .. y
    BY <1>6
  <2> QED BY <2>3, <2>4, <2>5 DEF StrictSubsetOrdering
<1> QED BY <1>6

LEMMA MinIs ==
  ASSUME NEW S \in SUBSET Int, S # {}, NEW lo \in Int, \A x \in S : lo <= x
  PROVE  Min(S) \in S /\ \A x \in S : Min(S) <= x
<1> DEFINE N == {x - lo : x \in S}
<1>1. N \in SUBSET Nat /\ N # {}
  <2>1. \A x \in S : x - lo \in Nat
    OBVIOUS
  <2>2. PICK x \in S : TRUE
    OBVIOUS
  <2>3. x - lo \in N
    OBVIOUS
  <2> QED BY <2>1, <2>3
<1>2. PICK n \in N : \A m \in N : n <= m
  BY <1>1, LeastNat
<1>3. n + lo \in S /\ \A x \in S : n + lo <= x
  BY <1>2
<1> QED BY <1>3 DEF Min

LEMMA MaxIs ==
  ASSUME NEW S \in SUBSET Int, S # {}, NEW hi \in Int, \A x \in S : x <= hi
  PROVE  Max(S) \in S /\ \A x \in S : x <= Max(S)
<1> DEFINE N == {hi - x : x \in S}
<1>1. N \in SUBSET Nat /\ N # {}
  <2>1. \A x \in S : hi - x \in Nat
    OBVIOUS
  <2>2. PICK x \in S : TRUE
    OBVIOUS
  <2>3. hi - x \in N
    OBVIOUS
  <2> QED BY <2>1, <2>3
<1>2. PICK n \in N : \A m \in N : n <= m
  BY <1>1, LeastNat
<1>3. hi - n \in S /\ \A x \in S : x <= hi - n
  BY <1>2
<1> QED BY <1>3 DEF Max

\* A set that goes on from each of its members contains the interval.
LEMMA Upwards ==
  ASSUME NEW lo \in Int, NEW hi \in Int, NEW S,
         lo \in S, \A x \in lo .. hi - 1 : x \in S => x + 1 \in S
  PROVE  lo .. hi \subseteq S
<1> DEFINE N == {n \in Nat : lo + n <= hi /\ lo + n \notin S}
<1>1. ASSUME N # {} PROVE FALSE
  <2>1. PICK n \in N : \A m \in N : n <= m
    BY <1>1, LeastNat
  <2>2. n # 0 /\ n - 1 \in Nat
    BY <2>1
  <2>3. n - 1 \notin N
    BY <2>1, <2>2
  <2>4. lo + (n - 1) \in S /\ lo + (n - 1) \in lo .. hi - 1
    BY <2>1, <2>2, <2>3
  <2>5. (lo + (n - 1)) + 1 = lo + n
    BY <2>1
  <2> QED BY <2>1, <2>4, <2>5
<1>2. ASSUME NEW x \in lo .. hi, x \notin S PROVE FALSE
  <2>1. x - lo \in N
    BY <1>2
  <2> QED BY <1>1, <2>1
<1> QED BY <1>2

\* A value for lo and a step determine a function on lo .. hi.
Recursive(f, lo, hi, s0, next) ==
  f[lo] = s0 /\ \A x \in lo + 1 .. hi : f[x] = next[<<x, f[x - 1]>>]

Steps(lo, hi, S) == [(lo + 1 .. hi) \X S -> S]

LEMMA Recursion ==
  ASSUME NEW lo \in Int, NEW hi \in Int, lo <= hi,
         NEW S, NEW s0 \in S, NEW next \in Steps(lo, hi, S)
  PROVE  \E f \in [lo .. hi -> S] : Recursive(f, lo, hi, s0, next)
<1> DEFINE Good(m, f) == /\ f[lo] = s0
                         /\ \A x \in lo + 1 .. m : f[x] = next[<<x, f[x - 1]>>]
           T == {m \in lo .. hi : \E f \in [lo .. m -> S] : Good(m, f)}
<1>0. next \in [(lo + 1 .. hi) \X S -> S]
  BY DEF Steps
<1>1. lo \in T
  <2> DEFINE f == [x \in lo .. lo |-> s0]
  <2>1. f \in [lo .. lo -> S] /\ Good(lo, f)
    OBVIOUS
  <2> HIDE DEF f
  <2> QED BY <2>1
<1>2. ASSUME NEW m \in lo .. hi - 1, m \in T PROVE m + 1 \in T
  <2> PICK f \in [lo .. m -> S] : Good(m, f)
    BY <1>2
  <2> DEFINE g == [x \in lo .. m + 1 |-> IF x = m + 1 THEN next[<<m + 1, f[m]>>] ELSE f[x]]
  <2>1. f[m] \in S /\ m + 1 \in lo + 1 .. hi
    OBVIOUS
  <2>2. next[<<m + 1, f[m]>>] \in S
    BY <1>0, <2>1
  <2>3. g \in [lo .. m + 1 -> S]
    <3>1. \A x \in lo .. m + 1 : x # m + 1 => x \in lo .. m
      OBVIOUS
    <3>2. \A x \in lo .. m + 1 : (IF x = m + 1 THEN next[<<m + 1, f[m]>>] ELSE f[x]) \in S
      BY <2>2, <3>1, Zenon
    <3> QED BY <3>2, Zenon
  <2>4. g[lo] = s0
    OBVIOUS
  <2>5. ASSUME NEW x \in lo + 1 .. m + 1 PROVE g[x] = next[<<x, g[x - 1]>>]
    <3>1. CASE x = m + 1
      <4>1. x - 1 = m /\ m \in lo .. m + 1 /\ m # m + 1
        BY <3>1
      <4>2. g[x - 1] = f[m] /\ g[x] = next[<<m + 1, f[m]>>]
        BY <3>1, <4>1
      <4> QED BY <3>1, <4>2
    <3>2. CASE x # m + 1
      <4>1. x \in lo + 1 .. m /\ g[x] = f[x] /\ g[x - 1] = f[x - 1]
        BY <3>2
      <4> QED BY <4>1
    <3> QED BY <3>1, <3>2
  <2>6. Good(m + 1, g)
    BY <2>4, <2>5
  <2> HIDE DEF g
  <2> QED BY <2>3, <2>6
<1>3. lo .. hi \subseteq T
  <2> HIDE DEF T
  <2> QED BY <1>1, <1>2, Upwards
<1>4. hi \in T
  <2> HIDE DEF T
  <2> QED BY <1>3
<1> QED BY <1>4 DEF Recursive

-----------------------------------------------------------------------------
(* The sweeps.  Edges run over -NoEdge .. NoEdge. *)

EdgeSet == -NoEdge .. NoEdge

LEMMA TapFacts ==
  /\ TapMax \in Nat /\ TapMax >= 1 /\ NoEdge = TapMax + 1 /\ NoEdge \in EdgeSet
  /\ Bits # {}
<1>1. TapMax \in Nat /\ TapMax >= 1
  BY CentreAssumption
<1>2. Bits # {}
  <2>1. Bits = 0 .. Cardinality(Bits) - 1 /\ Cardinality(Bits) > 1
    BY CentreAssumption
  <2>2. IsFiniteSet(Bits) => Cardinality(Bits) \in Nat
    BY FS_CardinalityType
  <2>3. Bits # {}
    <3> SUFFICES ASSUME Bits = {} PROVE FALSE
      OBVIOUS
    <3>1. Cardinality(Bits) = 0
      BY FS_EmptySet
    <3> QED BY <2>1, <3>1
  <2> QED BY <2>3
<1> QED BY <1>1, <1>2 DEF NoEdge, EdgeSet

Stops(pass, n, known, k) ==
  k < n => /\ pass[k] = {}
           /\ Bits = known \cup UNION {pass[m] : m \in 0 .. k - 1}

LEMMA SweepEndIs ==
  ASSUME NEW pass, NEW n \in Nat, NEW known
  PROVE  /\ SweepEnd(pass, n, known) \in 0 .. n
         /\ Stops(pass, n, known, SweepEnd(pass, n, known))
         /\ \A m \in 0 .. SweepEnd(pass, n, known) - 1 : ~Stops(pass, n, known, m)
<1> DEFINE S == {k \in 0 .. n : Stops(pass, n, known, k)}
<1>1. n \in S
  BY DEF Stops
<1>2. S \in SUBSET Nat /\ S # {}
  BY <1>1
<1>3. PICK k \in S : \A m \in S : k <= m
  <2> HIDE DEF S
  <2> QED BY <1>2, LeastNat
<1>4. k \in 0 .. n /\ Stops(pass, n, known, k)
      /\ \A m \in 0 .. k - 1 : ~Stops(pass, n, known, m)
  BY <1>3
<1>5. SweepEnd(pass, n, known) =
        CHOOSE x \in 0 .. n : Stops(pass, n, known, x)
                              /\ \A m \in 0 .. x - 1 : ~Stops(pass, n, known, m)
  BY Zenon DEF SweepEnd, Stops
<1> QED BY <1>4, <1>5, Zenon

LEMMA PassingIs ==
  ASSUME NEW pass, NEW n \in Nat, NEW b
  PROVE  /\ Passing(pass, n, b) \in SUBSET (0 .. n - 1)
         /\ \A k \in 0 .. n - 1 : k \in Passing(pass, n, b) <=> b \in pass[k]
         /\ Passing(pass, n, b) # {} =>
              /\ Max(Passing(pass, n, b)) \in Passing(pass, n, b)
              /\ Min(Passing(pass, n, b)) \in Passing(pass, n, b)
              /\ \A k \in Passing(pass, n, b) :
                   Min(Passing(pass, n, b)) <= k /\ k <= Max(Passing(pass, n, b))
<1> DEFINE P == Passing(pass, n, b)
<1>1. P \in SUBSET (0 .. n - 1) /\ \A k \in 0 .. n - 1 : k \in P <=> b \in pass[k]
  BY DEF Passing
<1>2. P \in SUBSET Int /\ (\A x \in P : 0 <= x) /\ (\A x \in P : x <= n) /\ 0 \in Int /\ n \in Int
  BY <1>1
<1>3. P # {} => Min(P) \in P /\ \A x \in P : Min(P) <= x
  <2> HIDE DEF P
  <2> QED BY <1>2, MinIs
<1>4. P # {} => Max(P) \in P /\ \A x \in P : x <= Max(P)
  <2> HIDE DEF P
  <2> QED BY <1>2, MaxIs
<1> QED BY <1>1, <1>3, <1>4

\* Edges known after the data bits have been swept are taps at which the bit
\* passed; a bit with a left edge only passed at 0.
LEMMA LeftSweepFacts ==
  ASSUME NEW pass, NEW b \in Bits
  PROVE  LET L == LeftSweep(pass).left[b]
             R == LeftSweep(pass).right[b]
         IN  /\ L \in EdgeSet /\ R \in EdgeSet
             /\ L = NoEdge \/ (L \in Taps /\ b \in pass[L])
             /\ R = NoEdge \/ (-R \in 1 .. TapMax /\ b \in pass[-R])
             /\ L = NoEdge => R = NoEdge
             /\ L # NoEdge /\ R = NoEdge => b \in pass[0]
<1> DEFINE n == SweepEnd(pass, TapMax + 1, {})
           P == Passing(pass, n, b)
           L == LeftSweep(pass).left[b]
           R == LeftSweep(pass).right[b]
           Goal == /\ L \in EdgeSet /\ R \in EdgeSet
                   /\ L = NoEdge \/ (L \in Taps /\ b \in pass[L])
                   /\ R = NoEdge \/ (-R \in 1 .. TapMax /\ b \in pass[-R])
                   /\ L = NoEdge => R = NoEdge
                   /\ L # NoEdge /\ R = NoEdge => b \in pass[0]
<1> SUFFICES Goal
  OBVIOUS
<1>1. n \in 0 .. TapMax + 1
  BY SweepEndIs, TapFacts
<1>2. n \in Nat /\ n <= TapMax + 1
  BY <1>1, TapFacts
<1>3. L = (IF P = {} THEN NoEdge ELSE Max(P))
      /\ R = (IF P = {} \/ 0 \in P THEN NoEdge ELSE -Min(P))
  BY Zenon DEF LeftSweep
<1> HIDE DEF n
<1>4. /\ P \in SUBSET (0 .. n - 1) /\ \A k \in 0 .. n - 1 : k \in P <=> b \in pass[k]
      /\ P # {} => Max(P) \in P /\ Min(P) \in P
  BY <1>2, PassingIs
<1> HIDE DEF P, L, R
<1>5. \A k \in P : k \in 0 .. TapMax /\ b \in pass[k]
  BY <1>2, <1>4, TapFacts
<1>6. CASE P = {}
  BY <1>3, <1>6, TapFacts
<1>7. CASE P # {} /\ 0 \in P
  <2>1. L = Max(P) /\ R = NoEdge /\ b \in pass[0]
    BY <1>3, <1>5, <1>7
  <2>2. L \in 0 .. TapMax /\ b \in pass[L]
    BY <1>4, <1>5, <1>7, <2>1
  <2> QED BY <2>1, <2>2, TapFacts DEF EdgeSet, Taps
<1>8. CASE P # {} /\ 0 \notin P
  <2>1. L = Max(P) /\ R = -Min(P)
    BY <1>3, <1>8
  <2>2. L \in 0 .. TapMax /\ b \in pass[L]
    BY <1>4, <1>5, <1>8, <2>1
  <2>3. Min(P) \in 0 .. TapMax /\ b \in pass[Min(P)] /\ Min(P) # 0
    BY <1>4, <1>5, <1>8
  <2>4. Min(P) \in 1 .. TapMax /\ -R = Min(P)
    BY <2>1, <2>3, TapFacts
  <2>5. R \in EdgeSet /\ R # NoEdge /\ L \in EdgeSet /\ L # NoEdge
    BY <2>1, <2>2, <2>4, TapFacts DEF EdgeSet
  <2> QED BY <2>1, <2>2, <2>3, <2>4, <2>5 DEF Taps
<1> QED BY <1>6, <1>7, <1>8

\* After the strobe has been swept too, an edge is an old one or a tap at
\* which the bit passed; the guess of -1 is never made when a bit that has a
\* left edge alone passes at 0.
LEMMA RightSweepFacts ==
  ASSUME NEW pass, NEW n \in 1 .. TapMax + 1, NEW edges, NEW write \in BOOLEAN,
         NEW b \in Bits, edges.left[b] \in EdgeSet, edges.right[b] \in EdgeSet,
         edges.left[b] # NoEdge /\ edges.right[b] = NoEdge => b \in pass[0]
  PROVE  LET L == RightSweep(pass, n, edges, write).left[b]
             R == RightSweep(pass, n, edges, write).right[b]
             e == RightSweep(pass, n, edges, write).end
         IN  /\ L \in EdgeSet /\ R \in EdgeSet /\ e \in 0 .. n
             /\ b \notin EdgeMissing(RightSweep(pass, n, edges, write)) =>
                  /\ \/ L = edges.left[b]
                     \/ -L \in 1 .. n - 1 /\ b \in pass[-L]
                  /\ \/ R = edges.right[b]
                     \/ R \in 0 .. n - 1 /\ b \in pass[R]
                  /\ L # NoEdge /\ R # NoEdge
<1> DEFINE known == {x \in Bits : edges.left[x] # NoEdge
                                  /\ (write \/ edges.right[x] # NoEdge)}
           m == SweepEnd(pass, n, known)
           P == Passing(pass, m, b)
           first == IF P = {} THEN m ELSE Min(P)
           E == RightSweep(pass, n, edges, write)
           Goal == /\ E.left[b] \in EdgeSet /\ E.right[b] \in EdgeSet /\ E.end \in 0 .. n
                   /\ b \notin EdgeMissing(E) =>
                        /\ \/ E.left[b] = edges.left[b]
                           \/ -E.left[b] \in 1 .. n - 1 /\ b \in pass[-E.left[b]]
                        /\ \/ E.right[b] = edges.right[b]
                           \/ E.right[b] \in 0 .. n - 1 /\ b \in pass[E.right[b]]
                        /\ E.left[b] # NoEdge /\ E.right[b] # NoEdge
<1> SUFFICES Goal
  OBVIOUS
<1>1. n \in Nat
  OBVIOUS
<1>2. /\ m \in 0 .. n /\ Stops(pass, n, known, m)
      /\ \A k \in 0 .. m - 1 : ~Stops(pass, n, known, k)
  BY <1>1, SweepEndIs
<1>3. /\ E.end = m
      /\ E.right[b] = (IF P # {} THEN Max(P)
                       ELSE IF edges.right[b] = NoEdge /\ edges.left[b] # NoEdge
                               /\ (m > 0 \/ write)
                       THEN -1 ELSE edges.right[b])
      /\ E.left[b] = (IF edges.left[b] = NoEdge /\ edges.right[b] = NoEdge /\ first > 0
                      THEN -first ELSE edges.left[b])
  BY Zenon DEF RightSweep
<1>4. b \in EdgeMissing(E) <=> E.left[b] = NoEdge \/ E.right[b] = NoEdge
  BY Zenon DEF EdgeMissing
<1> HIDE DEF known, m, E
<1>5. /\ P \in SUBSET (0 .. m - 1) /\ \A k \in 0 .. m - 1 : k \in P <=> b \in pass[k]
      /\ P # {} => Max(P) \in P /\ Min(P) \in P
  <2>1. m \in Nat
    BY <1>2
  <2> QED BY <2>1, PassingIs
<1> HIDE DEF P
<1>6. \A k \in P : k \in 0 .. n - 1 /\ b \in pass[k] /\ m > 0
  BY <1>2, <1>5
<1>7. edges.left[b] # NoEdge /\ edges.right[b] = NoEdge => P # {}
  <2> SUFFICES ASSUME edges.left[b] # NoEdge, edges.right[b] = NoEdge, P = {} PROVE FALSE
    OBVIOUS
  <2>1. b \in pass[0]
    OBVIOUS
  <2>2. m = 0
    BY <1>2, <1>5, <2>1
  <2> QED BY <1>2, <2>1, <2>2 DEF Stops
<1>8. first \in 0 .. TapMax + 1 /\ (P # {} => first \in P)
  <2>1. m \in 0 .. TapMax + 1
    BY <1>2, TapFacts
  <2>2. P # {} => first \in P /\ first \in 0 .. n - 1
    BY <1>5, <1>6
  <2>3. P = {} => first = m
    OBVIOUS
  <2> QED BY <2>1, <2>2, <2>3, TapFacts
<1> HIDE DEF first
<1>9. P # {} => E.right[b] = Max(P) /\ Max(P) \in 0 .. n - 1 /\ b \in pass[Max(P)]
                /\ Max(P) \in EdgeSet /\ Max(P) # NoEdge
  BY <1>3, <1>5, <1>6, TapFacts DEF EdgeSet
<1>10. P = {} => E.right[b] = edges.right[b]
  BY <1>3, <1>7
<1>11. CASE ~(edges.left[b] = NoEdge /\ edges.right[b] = NoEdge /\ first > 0)
  <2>1. E.left[b] = edges.left[b]
    BY <1>3, <1>11
  <2> QED BY <1>2, <1>3, <1>4, <1>9, <1>10, <2>1
<1>12. CASE edges.left[b] = NoEdge /\ edges.right[b] = NoEdge /\ first > 0
  <2>1. E.left[b] = -first /\ -first \in EdgeSet
    BY <1>3, <1>8, <1>12, TapFacts DEF EdgeSet
  <2>2. CASE P = {}
    BY <1>2, <1>3, <1>4, <1>10, <1>12, <2>1, <2>2
  <2>3. CASE P # {}
    <3>1. first \in 1 .. n - 1 /\ b \in pass[first] /\ -(-first) = first /\ -first # NoEdge
      BY <1>6, <1>8, <1>12, <2>3, TapFacts
    <3> QED BY <1>2, <1>3, <1>9, <2>1, <2>3, <3>1
  <2> QED BY <2>2, <2>3
<1> QED BY <1>11, <1>12

-----------------------------------------------------------------------------
(* The centring. *)

LEMMA HalfIs ==
  ASSUME NEW n \in Int
  PROVE  /\ Half(n) \in Int
         /\ n >= 0 => 2 * Half(n) \in n - 1 .. n
         /\ n <= 0 => 2 * Half(n) \in n .. n + 1
<1>1. CASE n >= 0
  <2>1. Half(n) = n \div 2
    BY <1>1 DEF Half
  <2> QED BY <1>1, <2>1
<1>2. CASE n < 0
  <2>1. Half(n) = -((-n) \div 2) /\ -n \in Nat
    BY <1>2 DEF Half
  <2>2. (-n) \div 2 \in Int /\ 2 * ((-n) \div 2) \in -n - 1 .. -n
    BY <2>1
  <2> QED BY <1>2, <2>1, <2>2
<1> QED BY <1>1, <1>2

LEMMA ClampIs ==
  ASSUME NEW n \in Int
  PROVE  Clamp(n) \in Taps /\ (n \in Taps => Clamp(n) = n)
         /\ (n < 0 => Clamp(n) = 0) /\ (n > TapMax => Clamp(n) = TapMax)
  BY TapFacts DEF Clamp, Taps

\* The least of what the bits have.
LEMMA LeastOfBits ==
  ASSUME NEW f \in [Bits -> Int], NEW n \in Nat, \A b \in Bits : -n <= f[b]
  PROVE  /\ Min({f[a] : a \in Bits}) \in Int
         /\ \A b \in Bits : Min({f[a] : a \in Bits}) <= f[b]
         /\ \E b \in Bits : Min({f[a] : a \in Bits}) = f[b]
<1> DEFINE S == {f[b] : b \in Bits}
<1>1. S \in SUBSET Int /\ (\A x \in S : -n <= x) /\ -n \in Int
  OBVIOUS
<1>2. S # {}
  <2>1. PICK a \in Bits : TRUE
    BY TapFacts
  <2>2. f[a] \in S
    BY <2>1
  <2> QED BY <2>2
<1>3. Min(S) \in S /\ \A x \in S : Min(S) <= x
  <2> HIDE DEF S
  <2> QED BY <1>1, <1>2, MinIs
<1> QED BY <1>1, <1>3

\* The same with a bound.
LEMMA LeastOfBitsOr ==
  ASSUME NEW f \in [Bits -> Int], NEW n \in Nat, \A b \in Bits : -n <= f[b],
         NEW m \in Int, Min({m} \cup {f[b] : b \in Bits}) >= 0
  PROVE  \A b \in Bits : f[b] >= 0
<1> DEFINE S == {m} \cup {f[b] : b \in Bits}
           lo == IF m < -n THEN m ELSE -n
<1>1. S \in SUBSET Int /\ S # {} /\ (\A x \in S : lo <= x) /\ lo \in Int
  OBVIOUS
<1>2. Min(S) \in S /\ \A x \in S : Min(S) <= x
  <2> HIDE DEF S, lo
  <2> QED BY <1>1, MinIs
<1>3. \A b \in Bits : Min(S) <= f[b]
  BY <1>2
<1> QED BY <1>1, <1>2, <1>3

Edged(edges) ==
  edges.left \in [Bits -> EdgeSet] /\ edges.right \in [Bits -> EdgeSet]

\* The delays stay inside their chains, and margins that are not negative
\* put every bit between its edges.
LEMMA CentreFacts ==
  ASSUME NEW edges, Edged(edges), NEW start \in Taps, NEW write \in BOOLEAN
  PROVE  LET c == Centre(edges, start, write)
         IN  /\ c.dqs \in Taps /\ c.dq \in [Bits -> Taps]
             /\ write => c.dqs = start
             /\ c.dqMargin >= 0 /\ c.dqsMargin >= 0 =>
                  \A b \in Bits : /\ start - edges.left[b] <= c.dqs - c.dq[b]
                                  /\ c.dqs - c.dq[b] <= start + edges.right[b]
<1> DEFINE spread == [b \in Bits |-> edges.left[b] - edges.right[b]]
           least == Min({spread[b] : b \in Bits})
           mid == Half(IF least > 0 THEN least + 1 ELSE least)
           dqs == IF write THEN start ELSE Clamp(start - mid)
           moved == start - dqs
           dq == [b \in Bits |-> Clamp(Half(spread[b] - least) + mid - moved)]
           dqRoom == [b \in Bits |-> edges.left[b] - dq[b] - moved]
           dqsRoom == [b \in Bits |-> edges.right[b] + dq[b] + moved]
           c == Centre(edges, start, write)
           Goal == /\ c.dqs \in Taps /\ c.dq \in [Bits -> Taps]
                   /\ write => c.dqs = start
                   /\ c.dqMargin >= 0 /\ c.dqsMargin >= 0 =>
                        \A b \in Bits : /\ start - edges.left[b] <= c.dqs - c.dq[b]
                                        /\ c.dqs - c.dq[b] <= start + edges.right[b]
<1> SUFFICES Goal
  OBVIOUS
<1>1. TapMax \in Nat /\ NoEdge = TapMax + 1
  BY TapFacts
<1>2. \A b \in Bits : /\ edges.left[b] \in Int /\ -NoEdge <= edges.left[b] /\ edges.left[b] <= NoEdge
                      /\ edges.right[b] \in Int /\ -NoEdge <= edges.right[b] /\ edges.right[b] <= NoEdge
  BY <1>1 DEF Edged, EdgeSet
<1>3. spread \in [Bits -> Int] /\ \A b \in Bits : -(2 * NoEdge) <= spread[b]
  BY <1>1, <1>2
<1>4. least \in Int
  <2>1. 2 * NoEdge \in Nat
    BY <1>1
  <2> HIDE DEF spread
  <2> QED BY <1>3, <2>1, LeastOfBits
<1>5. \A b \in Bits : Half(spread[b] - least) \in Int
  <2> HIDE DEF least
  <2>1. \A b \in Bits : spread[b] - least \in Int
    BY <1>3, <1>4
  <2> QED BY <2>1, HalfIs
<1>6. mid \in Int
  <2> HIDE DEF least
  <2> QED BY <1>4, HalfIs
<1>7. start - mid \in Int /\ start \in Int
  <2> HIDE DEF mid
  <2> QED BY <1>1, <1>6 DEF Taps
<1>8. dqs \in Taps /\ dqs \in Int
  <2> HIDE DEF mid
  <2> QED BY <1>7, ClampIs, TapFacts DEF Taps
<1>9. moved \in Int /\ -TapMax <= moved /\ moved <= TapMax /\ start - moved = dqs
  <2> HIDE DEF dqs
  <2> QED BY <1>1, <1>8 DEF Taps
<1>10. dq \in [Bits -> Taps] /\ \A b \in Bits : dq[b] \in Int /\ 0 <= dq[b] /\ dq[b] <= TapMax
  <2> HIDE DEF spread, least, mid, moved
  <2>1. \A b \in Bits : Half(spread[b] - least) + mid - moved \in Int
    BY <1>5, <1>6, <1>9
  <2> QED BY <1>1, <2>1, ClampIs DEF Taps
<1>11. /\ c.dqs = dqs /\ c.dq = dq
       /\ c.dqMargin = Min({NoEdge} \cup {dqRoom[b] : b \in Bits})
       /\ c.dqsMargin = Min({NoEdge} \cup {dqsRoom[b] : b \in Bits})
  <2>1. {spread[b] : b \in Bits} = {edges.left[b] - edges.right[b] : b \in Bits}
    OBVIOUS
  <2>2. {dqRoom[b] : b \in Bits} = {edges.left[b] - dq[b] - moved : b \in Bits}
    <3> HIDE DEF dq, moved
    <3> QED OBVIOUS
  <2>3. {dqsRoom[b] : b \in Bits} = {edges.right[b] + dq[b] + moved : b \in Bits}
    <3> HIDE DEF dq, moved
    <3> QED OBVIOUS
  <2>4. dq = [b \in Bits |-> Clamp(Half((edges.left[b] - edges.right[b]) - least) + mid - moved)]
    <3> HIDE DEF least, mid, moved
    <3> QED OBVIOUS
  <2> DEFINE n == Min({edges.left[b] - edges.right[b] : b \in Bits})
             h == Half(IF n > 0 THEN n + 1 ELSE n)
             t == IF write THEN start ELSE Clamp(start - h)
             g == [b \in Bits |-> Clamp(Half((edges.left[b] - edges.right[b]) - n) + h - (start - t))]
  <2>5. least = n /\ mid = h /\ dqs = t /\ moved = start - t /\ dq = g
    <3>1. least = n
      BY <2>1, Zenon
    <3>2. mid = h
      BY <3>1, Zenon
    <3>3. dqs = t
      BY <3>2, Zenon
    <3>4. moved = start - t
      BY <3>3, Zenon
    <3>5. dq = g
      BY <2>4, <3>1, <3>2, <3>4, Zenon
    <3> QED BY <3>1, <3>2, <3>3, <3>4, <3>5
  <2>6. /\ c.dqs = t /\ c.dq = g
        /\ c.dqMargin = Min({NoEdge} \cup {edges.left[b] - g[b] - (start - t) : b \in Bits})
        /\ c.dqsMargin = Min({NoEdge} \cup {edges.right[b] + g[b] + (start - t) : b \in Bits})
    BY Zenon DEF Centre
  <2> HIDE DEF n, h, t, g, dqs, dq, moved, dqRoom, dqsRoom, c
  <2> QED BY <2>2, <2>3, <2>5, <2>6, Zenon
<1> HIDE DEF spread, least, mid, dqs, dq, moved, c
<1>12. ASSUME c.dqMargin >= 0, c.dqsMargin >= 0, NEW b \in Bits
       PROVE  start - edges.left[b] <= dqs - dq[b] /\ dqs - dq[b] <= start + edges.right[b]
  <2>1. dqRoom \in [Bits -> Int] /\ \A x \in Bits : -(4 * NoEdge) <= dqRoom[x]
    BY <1>1, <1>2, <1>9, <1>10
  <2>2. dqsRoom \in [Bits -> Int] /\ \A x \in Bits : -(4 * NoEdge) <= dqsRoom[x]
    BY <1>1, <1>2, <1>9, <1>10
  <2>3. NoEdge \in Int /\ 4 * NoEdge \in Nat
    BY <1>1
  <2>4. dqRoom[b] >= 0 /\ dqsRoom[b] >= 0
    <3> HIDE DEF dqRoom, dqsRoom
    <3> QED BY <1>11, <1>12, <2>1, <2>2, <2>3, LeastOfBitsOr
  <2>5. edges.left[b] - dq[b] - moved >= 0 /\ edges.right[b] + dq[b] + moved >= 0
    BY <2>4
  <2> QED BY <1>2, <1>7, <1>8, <1>9, <1>10, <2>5
<1>13. write => c.dqs = start
  BY <1>11 DEF dqs
<1> QED BY <1>8, <1>10, <1>11, <1>12, <1>13

-----------------------------------------------------------------------------
(* The data mask: the scan keeps the longest run of passing positions. *)

Runs == [bgn : Int, end : Int, win : Nat]
Scans == [bgn : Int, best : Runs, stop : BOOLEAN]

\* r is a longest run among the positions from lo up to x that are in G.
Longest(r, G, lo, x) ==
  /\ r.win # 0 => /\ r.bgn \in lo .. r.end /\ r.end < x
                  /\ r.win = r.end - r.bgn + 1
                  /\ r.bgn .. r.end \subseteq G
  /\ r.win = 0 => r.bgn = NoEdge /\ r.end = NoEdge
  /\ \A a, b \in lo .. x - 1 : a <= b /\ a .. b \subseteq G => b - a + 1 <= r.win

\* What is known before position x.
Scanned(s, G, lo, x) ==
  /\ s \in Scans
  /\ Longest(s.best, G, lo, x)
  /\ s.bgn = NoEdge => x = lo \/ x - 1 \notin G
  /\ s.bgn # NoEdge => /\ s.bgn \in lo .. x - 1 /\ s.bgn .. x - 1 \subseteq G
                       /\ s.bgn = lo \/ s.bgn - 1 \notin G
                       /\ s.best.win >= x - s.bgn

LEMMA HitIs ==
  ASSUME NEW s \in Scans, NEW x \in Int
  PROVE  LET bgn == IF s.bgn = NoEdge THEN x ELSE s.bgn
             run == [bgn |-> bgn, end |-> x, win |-> x - bgn + 1]
         IN  /\ Hit(s, x) \in Scans
             /\ Hit(s, x).bgn = bgn /\ Hit(s, x).stop = s.stop
             /\ x - bgn + 1 > s.best.win => Hit(s, x).best = run
             /\ ~(x - bgn + 1 > s.best.win) => Hit(s, x).best = s.best
<1> DEFINE bgn == IF s.bgn = NoEdge THEN x ELSE s.bgn
           win == x - bgn + 1
           run == [bgn |-> bgn, end |-> x, win |-> win]
           best == IF win > s.best.win THEN run ELSE s.best
<1>1. s.best.win \in Nat /\ s.bgn \in Int /\ s.best \in Runs /\ s.stop \in BOOLEAN
  BY DEF Scans, Runs
<1>2. bgn \in Int /\ win \in Int
  BY <1>1
<1>3. best \in Runs
  <2>1. CASE win > s.best.win
    <3>1. win \in Nat
      BY <1>1, <1>2, <2>1
    <3> HIDE DEF bgn, win
    <3> QED BY <1>2, <2>1, <3>1 DEF Runs
  <2>2. CASE ~(win > s.best.win)
    BY <1>1, <2>2
  <2> QED BY <2>1, <2>2
<1>4. Hit(s, x) = [s EXCEPT !.bgn = bgn, !.best = best]
  BY Zenon DEF Hit
<1>5. /\ Hit(s, x).bgn = bgn /\ Hit(s, x).best = best /\ Hit(s, x).stop = s.stop
      /\ Hit(s, x) \in Scans
  <2> HIDE DEF bgn, best
  <2> QED BY <1>1, <1>2, <1>3, <1>4 DEF Scans
<1> QED BY <1>5

LEMMA HitKeeps ==
  ASSUME NEW s \in Scans, NEW x \in Int, s.bgn # NoEdge, ~(x - s.bgn + 1 > s.best.win)
  PROVE  Hit(s, x) = s
<1>1. Hit(s, x).bgn = s.bgn /\ Hit(s, x).best = s.best /\ Hit(s, x).stop = s.stop
      /\ Hit(s, x) \in Scans
  BY HitIs
<1> DEFINE h == Hit(s, x)
<1> HIDE DEF h
<1>2. h = s
  BY <1>1 DEF Scans, h
<1> QED BY <1>2 DEF h

LEMMA HitScanned ==
  ASSUME NEW s, NEW G, NEW lo \in Int, NEW x \in Int, lo <= x, x < NoEdge,
         Scanned(s, G, lo, x), x \in G
  PROVE  Scanned(Hit(s, x), G, lo, x + 1) /\ Hit(s, x).stop = s.stop
<1> DEFINE bgn == IF s.bgn = NoEdge THEN x ELSE s.bgn
           run == [bgn |-> bgn, end |-> x, win |-> x - bgn + 1]
           h == Hit(s, x)
<1>1. s \in Scans /\ s.bgn \in Int /\ s.best.win \in Nat /\ s.best \in Runs
      /\ s.best.bgn \in Int /\ s.best.end \in Int
  BY DEF Scanned, Scans, Runs
<1>2. /\ h \in Scans /\ h.bgn = bgn /\ h.stop = s.stop
      /\ x - bgn + 1 > s.best.win => h.best = run
      /\ ~(x - bgn + 1 > s.best.win) => h.best = s.best
  BY <1>1, HitIs
<1> HIDE DEF h
<1>3. /\ bgn \in lo .. x /\ bgn .. x \subseteq G /\ (bgn = lo \/ bgn - 1 \notin G)
      /\ bgn # NoEdge
  <2>1. CASE s.bgn = NoEdge
    BY <2>1, TapFacts DEF Scanned
  <2>2. CASE s.bgn # NoEdge
    BY <2>2, TapFacts DEF Scanned
  <2> QED BY <2>1, <2>2
<1>4. Longest(s.best, G, lo, x)
  BY DEF Scanned
<1>5. ASSUME NEW a \in lo .. x, NEW b \in lo .. x, a <= b, a .. b \subseteq G
      PROVE  b - a + 1 <= s.best.win \/ (b = x /\ b - a + 1 <= x - bgn + 1)
  <2>1. CASE b < x
    BY <1>4, <1>5, <2>1 DEF Longest
  <2>2. CASE b = x
    <3>1. bgn - 1 \notin a .. b \/ bgn = lo
      BY <1>3, <1>5
    <3> HIDE DEF bgn
    <3> QED BY <1>3, <1>5, <2>2, <3>1
  <2> QED BY <2>1, <2>2
<1>6. Longest(h.best, G, lo, x + 1) /\ h.best.win >= x + 1 - bgn
  <2>1. CASE x - bgn + 1 > s.best.win
    <3>1. h.best.bgn = bgn /\ h.best.end = x /\ h.best.win = x - bgn + 1
      BY <1>2, <2>1
    <3> HIDE DEF bgn
    <3>2. \A a, b \in lo .. x : a <= b /\ a .. b \subseteq G => b - a + 1 <= h.best.win
      BY <1>1, <1>3, <1>5, <2>1, <3>1
    <3>3. lo .. (x + 1) - 1 = lo .. x /\ x < x + 1
      OBVIOUS
    <3> QED BY <1>3, <3>1, <3>2, <3>3 DEF Longest
  <2>2. CASE ~(x - bgn + 1 > s.best.win)
    <3>1. h.best = s.best
      BY <1>2, <2>2
    <3> HIDE DEF bgn
    <3>2. \A a, b \in lo .. x : a <= b /\ a .. b \subseteq G => b - a + 1 <= s.best.win
      BY <1>1, <1>3, <1>5, <2>2
    <3>3. lo .. (x + 1) - 1 = lo .. x
      OBVIOUS
    <3>4. s.best.end < x => s.best.end < x + 1
      BY <1>1
    <3>5. Longest(s.best, G, lo, x + 1)
      BY <1>4, <3>2, <3>3, <3>4 DEF Longest
    <3> QED BY <1>1, <1>3, <2>2, <3>1, <3>5
  <2> QED BY <2>1, <2>2
<1>7. bgn \in lo .. (x + 1) - 1 /\ bgn .. (x + 1) - 1 \subseteq G
  BY <1>3
<1> HIDE DEF bgn
<1> QED BY <1>2, <1>3, <1>6, <1>7 DEF Scanned, h

LEMMA MissScanned ==
  ASSUME NEW s, NEW G, NEW lo \in Int, NEW x \in Int, lo <= x,
         Scanned(s, G, lo, x), x \notin G, NEW stop \in BOOLEAN
  PROVE  Scanned([s EXCEPT !.bgn = NoEdge, !.stop = stop], G, lo, x + 1)
<1> DEFINE t == [s EXCEPT !.bgn = NoEdge, !.stop = stop]
<1>1. s \in Scans /\ NoEdge \in Int
  BY TapFacts DEF Scanned
<1>2. t \in Scans /\ t.bgn = NoEdge /\ t.best = s.best
  BY <1>1 DEF Scans
<1> HIDE DEF t
<1>3. Longest(s.best, G, lo, x) /\ s.best \in Runs
  BY <1>1 DEF Scanned, Scans
<1>4. \A a, b \in lo .. (x + 1) - 1 : a <= b /\ a .. b \subseteq G => b - a + 1 <= s.best.win
  <2> SUFFICES ASSUME NEW a \in lo .. x, NEW b \in lo .. x, a <= b, a .. b \subseteq G
               PROVE  b - a + 1 <= s.best.win
    OBVIOUS
  <2>1. b # x
    OBVIOUS
  <2> QED BY <1>3, <2>1 DEF Longest
<1>5. s.best.end < x => s.best.end < x + 1
  BY <1>3 DEF Runs
<1>6. Longest(s.best, G, lo, x + 1)
  BY <1>3, <1>4, <1>5 DEF Longest
<1> QED BY <1>2, <1>6 DEF Scanned, t

\* Nothing longer lies in the rest of a sweep that is cut short.
LEMMA MissLongest ==
  ASSUME NEW s, NEW G, NEW lo \in Int, NEW x \in Int, NEW n \in Int, lo <= x, x < n,
         Scanned(s, G, lo, x), x \notin G, s.best.win - 1 > n - (x + 1)
  PROVE  Longest(s.best, G, lo, n)
<1>1. Longest(s.best, G, lo, x) /\ s.best.win \in Nat /\ s.best.end \in Int
  BY DEF Scanned, Scans, Runs
<1>2. ASSUME NEW a \in lo .. n - 1, NEW b \in lo .. n - 1, a <= b, a .. b \subseteq G
      PROVE  b - a + 1 <= s.best.win
  <2>1. x \notin a .. b
    BY <1>2
  <2>2. CASE b < x
    BY <1>1, <1>2, <2>2 DEF Longest
  <2>3. CASE a > x
    BY <1>1, <1>2, <2>3
  <2> QED BY <2>1, <2>2, <2>3
<1>3. s.best.end < x => s.best.end < n
  BY <1>1
<1> QED BY <1>1, <1>2, <1>3 DEF Longest

LEMMA NoScanScanned ==
  ASSUME NEW G, NEW lo \in Int
  PROVE  Scanned(NoScan, G, lo, lo) /\ ~NoScan.stop
<1>1. NoEdge \in Int
  BY TapFacts
<1>2. NoScan \in Scans /\ NoScan.bgn = NoEdge /\ NoScan.best = NoRun /\ NoScan.stop = FALSE
      /\ NoRun.win = 0 /\ NoRun.bgn = NoEdge /\ NoRun.end = NoEdge
  BY <1>1 DEF NoScan, NoRun, Scans, Runs
<1>3. lo .. lo - 1 = {}
  OBVIOUS
<1> QED BY <1>2, <1>3 DEF Scanned, Longest

\* The sweep by the mask delay meets position -k with the mask put off by k.
LEMMA MaskScanIs ==
  ASSUME NEW pass, NEW G, \A k \in Taps : -k \in G <=> pass[k]
  PROVE  Scanned(MaskScan(pass), G, -TapMax, 1) /\ ~MaskScan(pass).stop
<1> DEFINE D == -TapMax .. 1
           Step(s, x) == IF pass[1 - x] THEN Hit(s, x - 1) ELSE [s EXCEPT !.bgn = NoEdge]
           next == [xs \in (-TapMax + 1 .. 1) \X Scans |-> Step(xs[2], xs[1])]
           Rec(f) == [x \in D |-> IF x = -TapMax THEN NoScan ELSE Step(f[x - 1], x)]
<1>1. TapMax \in Nat /\ -TapMax \in Int /\ -TapMax <= 1 /\ NoEdge \in Int /\ NoEdge > 1
  BY TapFacts
<1>2. NoScan \in Scans
  BY <1>1, NoScanScanned DEF Scanned
<1>3. ASSUME NEW s \in Scans, NEW x \in Int PROVE Step(s, x) \in Scans
  <2>1. Hit(s, x - 1) \in Scans
    <3>1. x - 1 \in Int
      OBVIOUS
    <3> QED BY <3>1, HitIs
  <2>2. [s EXCEPT !.bgn = NoEdge] \in Scans
    BY <1>1 DEF Scans
  <2> QED BY <2>1, <2>2
<1>4. next \in [(-TapMax + 1 .. 1) \X Scans -> Scans]
  <2> HIDE DEF Step
  <2> QED BY <1>1, <1>3
<1>5. PICK f \in [-TapMax .. 1 -> Scans] : Recursive(f, -TapMax, 1, NoScan, next)
  <2>1. next \in Steps(-TapMax, 1, Scans)
    BY <1>4 DEF Steps
  <2> HIDE DEF next
  <2> QED BY <1>1, <1>2, <2>1, Recursion
<1>6. ASSUME NEW x \in -TapMax + 1 .. 1 PROVE f[x] = Step(f[x - 1], x)
  <2>1. f[x - 1] \in Scans
    <3>1. x - 1 \in D
      BY <1>1
    <3> QED BY <3>1
  <2>2. <<x, f[x - 1]>> \in (-TapMax + 1 .. 1) \X Scans
    BY <2>1
  <2>3. next[<<x, f[x - 1]>>] = Step(f[x - 1], x)
    <3> HIDE DEF Step
    <3> QED BY <2>2
  <2> HIDE DEF Step, next
  <2> QED BY <1>5, <2>3 DEF Recursive
<1>7. f = Rec(f)
  <2> HIDE DEF Step
  <2> QED BY <1>1, <1>5, <1>6 DEF Recursive
<1> DEFINE g == CHOOSE h : h = Rec(h)
<1>8. g = Rec(g)
  <2> HIDE DEF Rec
  <2> QED BY <1>7, Zenon
<1>9. MaskScan(pass) = g[1]
  BY Zenon DEF MaskScan
<1> HIDE DEF g
<1> DEFINE T == {x \in D : Scanned(g[x], G, -TapMax, x) /\ ~g[x].stop}
<1>10. -TapMax \in T
  <2>1. g[-TapMax] = NoScan
    <3> HIDE DEF Step
    <3> QED BY <1>1, <1>8
  <2> QED BY <1>1, <2>1, NoScanScanned
<1>11. ASSUME NEW x \in -TapMax .. 0, x \in T PROVE x + 1 \in T
  <2>1. g[x + 1] = Step(g[x], x + 1)
    <3>1. x + 1 \in D /\ x + 1 # -TapMax /\ (x + 1) - 1 = x
      BY <1>1
    <3> HIDE DEF Step
    <3> QED BY <1>8, <3>1
  <2>2. 1 - (x + 1) = -x /\ (x + 1) - 1 = x /\ -x \in Taps /\ x = -(-x)
    BY <1>1 DEF Taps
  <2>3. g[x + 1] = IF x \in G THEN Hit(g[x], x) ELSE [g[x] EXCEPT !.bgn = NoEdge]
    <3>1. x \in G <=> pass[-x]
      BY <2>2
    <3> QED BY <2>1, <2>2, <3>1
  <2>4. /\ Scanned(g[x], G, -TapMax, x) /\ ~g[x].stop /\ x < NoEdge /\ -TapMax <= x
        /\ -TapMax \in Int /\ x \in Int /\ x + 1 \in D
    BY <1>1, <1>11
  <2>5. CASE x \in G
    BY <2>3, <2>4, <2>5, HitScanned
  <2>6. CASE x \notin G
    <3>1. g[x] \in Scans /\ g[x].stop = FALSE
      BY <2>4 DEF Scanned, Scans
    <3>2. [g[x] EXCEPT !.bgn = NoEdge] = [g[x] EXCEPT !.bgn = NoEdge, !.stop = FALSE]
      BY <3>1 DEF Scans
    <3>3. g[x + 1] = [g[x] EXCEPT !.bgn = NoEdge, !.stop = FALSE]
      BY <2>3, <2>6, <3>2
    <3>4. Scanned(g[x + 1], G, -TapMax, x + 1)
      <4>1. FALSE \in BOOLEAN
        OBVIOUS
      <4>2. Scanned([g[x] EXCEPT !.bgn = NoEdge, !.stop = FALSE], G, -TapMax, x + 1)
        BY <2>4, <2>6, <4>1, MissScanned
      <4> QED BY <3>3, <4>2, Zenon
    <3>5. g[x + 1].stop = FALSE
      BY <3>1, <3>3 DEF Scans
    <3> QED BY <2>4, <3>4, <3>5
  <2> QED BY <2>5, <2>6
<1>12. D \subseteq T
  <2> HIDE DEF T
  <2>1. 1 - 1 = 0 /\ 1 \in Int
    OBVIOUS
  <2>2. \A x \in -TapMax .. 1 - 1 : x \in T => x + 1 \in T
    BY <1>11, <2>1
  <2> QED BY <1>1, <1>10, <2>1, <2>2, Upwards, Zenon
<1>13. 1 \in T
  <2> HIDE DEF T
  <2> QED BY <1>1, <1>12
<1> QED BY <1>9, <1>13

\* The sweep by the strobe begins with position 0, which the mask has met.
LEMMA StrobeScanIs ==
  ASSUME NEW pass, NEW n \in 1 .. NoEdge, NEW G, NEW found,
         \A x \in 0 .. n - 1 : x \in G <=> pass[x],
         Scanned(found, G, -TapMax, 1), ~found.stop
  PROVE  Longest(StrobeScan(pass, n, found), G, -TapMax, n)
         /\ StrobeScan(pass, n, found) \in Runs
<1> DEFINE D == 0 .. n
           Step(s, x) == IF s.stop THEN s
                         ELSE IF pass[x - 1] THEN Hit(s, x - 1)
                         ELSE Miss(s, n - x)
           next == [xs \in (0 + 1 .. n) \X Scans |-> Step(xs[2], xs[1])]
           Rec(f) == [x \in D |-> IF x = 0 THEN found ELSE Step(f[x - 1], x)]
<1>1. /\ TapMax \in Nat /\ -TapMax \in Int /\ -TapMax < 0 /\ NoEdge \in Int
      /\ n \in Int /\ 0 \in Int /\ 0 <= n /\ n <= NoEdge
  BY TapFacts
<1>2. found \in Scans
  BY DEF Scanned
<1>3. ASSUME NEW s \in Scans, NEW x \in Int PROVE Step(s, x) \in Scans
  <2>1. Hit(s, x - 1) \in Scans
    <3>1. x - 1 \in Int
      OBVIOUS
    <3> QED BY <3>1, HitIs
  <2>2. Miss(s, n - x) \in Scans
    <3> DEFINE stop == s.best.win - 1 > n - x
    <3>1. stop \in BOOLEAN
      OBVIOUS
    <3>2. Miss(s, n - x) = [s EXCEPT !.bgn = NoEdge, !.stop = stop]
      BY DEF Miss
    <3> HIDE DEF stop
    <3> QED BY <1>1, <3>1, <3>2 DEF Scans
  <2> QED BY <2>1, <2>2
<1>4. next \in [(0 + 1 .. n) \X Scans -> Scans]
  <2> HIDE DEF Step
  <2> QED BY <1>1, <1>3
<1>5. PICK f \in [0 .. n -> Scans] : Recursive(f, 0, n, found, next)
  <2>1. next \in Steps(0, n, Scans)
    BY <1>4 DEF Steps
  <2> HIDE DEF next
  <2> QED BY <1>1, <1>2, <2>1, Recursion
<1>6. ASSUME NEW x \in 0 + 1 .. n PROVE f[x] = Step(f[x - 1], x)
  <2>1. f[x - 1] \in Scans
    <3>1. x - 1 \in D
      BY <1>1
    <3> QED BY <3>1
  <2>2. <<x, f[x - 1]>> \in (0 + 1 .. n) \X Scans
    BY <2>1
  <2>3. next[<<x, f[x - 1]>>] = Step(f[x - 1], x)
    <3> HIDE DEF Step
    <3> QED BY <2>2
  <2> HIDE DEF Step, next
  <2> QED BY <1>5, <2>3 DEF Recursive
<1>7. f = Rec(f)
  <2> HIDE DEF Step
  <2> QED BY <1>1, <1>5, <1>6 DEF Recursive
<1> DEFINE g == CHOOSE h : h = Rec(h)
<1>8. g = Rec(g)
  <2> HIDE DEF Rec
  <2> QED BY <1>7, Zenon
<1>9. StrobeScan(pass, n, found) = g[n].best
  BY Zenon DEF StrobeScan
<1> HIDE DEF g
<1> DEFINE past(x) == IF x = 0 THEN 1 ELSE x
           T == {x \in D : /\ g[x] \in Scans
                           /\ g[x].stop => Longest(g[x].best, G, -TapMax, n)
                           /\ ~g[x].stop => Scanned(g[x], G, -TapMax, past(x))}
<1>10. 0 \in T
  <2>1. g[0] = found
    <3> HIDE DEF Step
    <3> QED BY <1>1, <1>8
  <2> QED BY <1>1, <1>2, <2>1
<1>11. ASSUME NEW x \in 0 .. n - 1, x \in T PROVE x + 1 \in T
  <2>1. g[x + 1] = Step(g[x], x + 1) /\ x + 1 \in D /\ past(x + 1) = x + 1 /\ x \in Int
    <3>1. x + 1 \in D /\ x + 1 # 0 /\ (x + 1) - 1 = x
      BY <1>1
    <3> HIDE DEF Step
    <3> QED BY <1>8, <3>1
  <2>2. (x + 1) - 1 = x
    OBVIOUS
  <2>3. g[x] \in Scans /\ g[x].best.win \in Nat
    BY <1>11 DEF Scans, Runs
  <2>4. CASE g[x].stop
    <3>1. g[x + 1] = g[x]
      BY <2>1, <2>4
    <3> QED BY <1>11, <2>1, <2>4, <3>1
  <2>5. CASE ~g[x].stop /\ x \in G
    <3>1. g[x + 1] = Hit(g[x], x)
      BY <2>1, <2>2, <2>5
    <3>2. CASE x = 0
      <4>1. Scanned(g[x], G, -TapMax, 1)
        BY <1>11, <2>5, <3>2
      <4>2. g[x].bgn # NoEdge /\ g[x].best.win >= 1 - g[x].bgn /\ g[x].bgn \in Int
        BY <1>1, <2>3, <2>5, <3>2, <4>1 DEF Scanned, Scans
      <4>3. ~(x - g[x].bgn + 1 > g[x].best.win) /\ x \in Int
        BY <2>3, <3>2, <4>2
      <4>4. g[x + 1] = g[x]
        BY <2>3, <3>1, <4>2, <4>3, HitKeeps
      <4> QED BY <2>1, <2>3, <2>5, <3>2, <4>1, <4>4
    <3>3. CASE x # 0
      <4>1. Scanned(g[x], G, -TapMax, x) /\ -TapMax <= x /\ x < NoEdge
        BY <1>1, <1>11, <2>5, <3>3
      <4>2. Scanned(g[x + 1], G, -TapMax, x + 1) /\ g[x + 1].stop = g[x].stop
        BY <1>1, <2>1, <2>5, <3>1, <4>1, HitScanned
      <4> QED BY <2>1, <2>5, <4>2 DEF Scanned
    <3> QED BY <3>2, <3>3
  <2>6. CASE ~g[x].stop /\ x \notin G
    <3> DEFINE stop == g[x].best.win - 1 > n - (x + 1)
               h == [g[x] EXCEPT !.bgn = NoEdge, !.stop = stop]
    <3>1. g[x + 1] = h
      BY <2>1, <2>2, <2>6 DEF Miss
    <3>2. h \in Scans /\ h.best = g[x].best /\ h.stop = stop /\ h.bgn = NoEdge
      <4>1. stop \in BOOLEAN
        OBVIOUS
      <4> HIDE DEF stop
      <4> QED BY <1>1, <2>3, <4>1 DEF Scans
    <3> HIDE DEF h
    <3>3. CASE x = 0
      <4>1. Scanned(g[x], G, -TapMax, 1)
        BY <1>11, <2>6, <3>3
      <4>2. Longest(g[x].best, G, -TapMax, 1) /\ Scanned(h, G, -TapMax, 1)
        BY <2>6, <3>2, <3>3, <4>1 DEF Scanned
      <4>3. stop => Longest(g[x].best, G, -TapMax, n)
        <5> SUFFICES ASSUME stop PROVE Longest(g[x].best, G, -TapMax, n)
          OBVIOUS
        <5>1. g[x].best.win > n /\ g[x].best.end \in Int
          <6>1. g[x].best \in Runs
            BY <2>3 DEF Scans
          <6>2. g[x].best.win - 1 > n - 1
            BY <3>3
          <6> QED BY <2>3, <6>1, <6>2 DEF Runs
        <5>2. ASSUME NEW a \in -TapMax .. n - 1, NEW b \in -TapMax .. n - 1,
                     a <= b, a .. b \subseteq G
              PROVE  b - a + 1 <= g[x].best.win
          <6>1. CASE b < 0
            BY <4>2, <5>2, <6>1 DEF Longest
          <6>2. CASE a > 0
            BY <1>1, <2>3, <5>1, <5>2, <6>2
          <6>3. CASE a <= 0 /\ b >= 0
            BY <2>6, <3>3, <5>2, <6>3
          <6> QED BY <6>1, <6>2, <6>3
        <5>3. g[x].best.end < 1 => g[x].best.end < n
          BY <1>1, <5>1
        <5> QED BY <4>2, <5>1, <5>2, <5>3 DEF Longest
      <4>4. past(x + 1) = 1
        BY <2>1, <3>3
      <4> HIDE DEF past, stop
      <4> QED BY <2>1, <3>1, <3>2, <4>2, <4>3, <4>4
    <3>4. CASE x # 0
      <4>1. Scanned(g[x], G, -TapMax, x) /\ -TapMax <= x /\ x < n
        BY <1>1, <1>11, <2>6, <3>4
      <4>2. stop \in BOOLEAN
        OBVIOUS
      <4>3. Scanned(h, G, -TapMax, x + 1)
        <5> HIDE DEF stop
        <5> QED BY <1>1, <2>1, <2>6, <4>1, <4>2, MissScanned DEF h
      <4>4. stop => Longest(g[x].best, G, -TapMax, n)
        BY <1>1, <2>1, <2>6, <4>1, MissLongest
      <4> QED BY <2>1, <3>1, <3>2, <4>3, <4>4
    <3> QED BY <3>3, <3>4
  <2> QED BY <2>4, <2>5, <2>6
<1>12. 0 .. n \subseteq T
  <2> HIDE DEF T
  <2> QED BY <1>1, <1>10, <1>11, Upwards
<1>13. n \in T /\ n # 0
  <2> HIDE DEF T
  <2> QED BY <1>1, <1>12
<1>14. Longest(g[n].best, G, -TapMax, n) /\ g[n] \in Scans
  BY <1>13 DEF Scanned
<1>15. g[n].best \in Runs
  BY <1>14 DEF Scans
<1> QED BY <1>9, <1>14, <1>15

\* The mask lies in the run when the margin is not negative.
LEMMA MaskDelayIs ==
  ASSUME NEW run \in Runs, NEW G, NEW n \in 1 .. NoEdge, Longest(run, G, -TapMax, n)
  PROVE  /\ MaskDelay(run) \in Taps
         /\ MaskMargin(run) >= 0 => run.win # 0 /\ -MaskDelay(run) \in run.bgn .. run.end
<1> DEFINE sum == -run.bgn - run.end
           mid == Half(sum)
<1>1. /\ run.bgn \in Int /\ run.end \in Int /\ run.win \in Nat /\ sum \in Int
      /\ TapMax \in Nat /\ NoEdge = TapMax + 1 /\ n <= NoEdge
  BY TapFacts DEF Runs
<1>2. MaskDelay(run) = IF mid < 0 THEN 0 ELSE mid
  BY Zenon DEF MaskDelay
<1>3. /\ mid \in Int
      /\ sum >= 0 => 2 * mid \in sum - 1 .. sum
      /\ sum <= 0 => 2 * mid \in sum .. sum + 1
  <2> HIDE DEF sum
  <2> QED BY <1>1, HalfIs
<1> HIDE DEF mid
<1>4. /\ run.win # 0 => /\ -TapMax <= run.bgn /\ run.bgn <= run.end
      /\ run.win = 0 => run.bgn = NoEdge /\ run.end = NoEdge
  BY <1>1 DEF Longest
<1>5. sum <= 2 * TapMax
  BY <1>1, <1>4
<1>6. mid <= TapMax
  <2> HIDE DEF sum
  <2> QED BY <1>1, <1>3, <1>5
<1>7. MaskDelay(run) \in Taps
  BY <1>1, <1>2, <1>3, <1>6 DEF Taps
<1>8. ASSUME MaskMargin(run) >= 0
      PROVE  run.win # 0 /\ -MaskDelay(run) \in run.bgn .. run.end
  <2>1. run.win # 0 /\ -run.bgn - MaskDelay(run) >= 0
    BY <1>8 DEF MaskMargin
  <2>2. run.bgn <= run.end
    BY <1>4, <2>1
  <2>3. MaskDelay(run) \in Int
    BY <1>7, TapFacts DEF Taps
  <2>4. run.bgn <= -MaskDelay(run)
    BY <1>1, <2>1, <2>3
  <2>5. -MaskDelay(run) <= run.end
    <3>1. CASE mid < 0
      BY <1>1, <1>2, <1>3, <2>2, <2>4, <3>1
    <3>2. CASE mid >= 0
      BY <1>1, <1>2, <1>3, <2>2, <2>4, <3>2
    <3> QED BY <1>3, <3>1, <3>2
  <2> QED BY <1>1, <2>1, <2>3, <2>4, <2>5
<1> QED BY <1>7, <1>8

-----------------------------------------------------------------------------
(* A bit that passes between two taps, and at no others. *)

\* A bit passes at the taps lo .. hi of a sweep, and at no others.
PassesIn(pass, n, b, lo, hi) ==
  \A k \in 0 .. n - 1 : b \in pass[k] <=> lo <= k /\ k <= hi

\* A bit that has passed is followed to its last tap: the sweep does not end
\* before.
LEMMA SweepPassed ==
  ASSUME NEW pass, NEW n \in Nat, NEW known, NEW b \in Bits, NEW lo \in Int, NEW hi \in Int,
         lo <= hi, hi < n, PassesIn(pass, n, b, lo, hi),
         b \notin known \/ Passing(pass, SweepEnd(pass, n, known), b) # {}
  PROVE  LET P == Passing(pass, SweepEnd(pass, n, known), b)
         IN  /\ \A k \in P : lo <= k /\ k <= hi
             /\ hi >= 0 => /\ P # {} /\ Max(P) = hi
                           /\ Min(P) = IF lo <= 0 THEN 0 ELSE lo
                           /\ 0 \in P <=> lo <= 0
             /\ hi < 0 => P = {}
<1> DEFINE m == SweepEnd(pass, n, known)
           P == Passing(pass, m, b)
           Goal == /\ \A k \in P : lo <= k /\ k <= hi
                   /\ hi >= 0 => /\ P # {} /\ Max(P) = hi
                                 /\ Min(P) = IF lo <= 0 THEN 0 ELSE lo
                                 /\ 0 \in P <=> lo <= 0
                   /\ hi < 0 => P = {}
<1> SUFFICES Goal
  OBVIOUS
<1>1. m \in 0 .. n /\ Stops(pass, n, known, m)
  BY SweepEndIs
<1>2. m \in Nat /\ m <= n
  BY <1>1
<1>3. b \notin known \/ P # {}
  OBVIOUS
<1> HIDE DEF m
<1>4. /\ P \in SUBSET (0 .. m - 1) /\ \A k \in 0 .. m - 1 : k \in P <=> b \in pass[k]
      /\ P # {} => /\ Max(P) \in P /\ Min(P) \in P
                   /\ \A k \in P : Min(P) <= k /\ k <= Max(P)
  BY <1>2, PassingIs
<1> HIDE DEF P
<1>5. \A k \in 0 .. n - 1 : b \in pass[k] <=> lo <= k /\ k <= hi
  BY DEF PassesIn
<1>6. \A k \in 0 .. m - 1 : k \in P <=> lo <= k /\ k <= hi
  BY <1>2, <1>4, <1>5
<1>7. \A k \in P : k \in Int /\ 0 <= k /\ lo <= k /\ k <= hi
  BY <1>2, <1>4, <1>6
<1>8. ASSUME hi >= 0 PROVE m > hi
  <2>1. CASE m = n
    BY <1>2, <2>1
  <2>2. CASE m < n
    <3>1. /\ pass[m] = {}
          /\ Bits = known \cup UNION {pass[k] : k \in 0 .. m - 1}
      BY <1>1, <2>2 DEF Stops
    <3>2. ~(lo <= m /\ m <= hi)
      BY <1>2, <1>5, <2>2, <3>1
    <3>3. PICK k \in 0 .. m - 1 : b \in pass[k]
      <4>1. CASE b \notin known
        BY <3>1, <4>1
      <4>2. CASE P # {}
        BY <1>4, <4>2
      <4> QED BY <1>3, <4>1, <4>2
    <3>4. lo <= k
      BY <1>2, <1>5, <3>3
    <3> QED BY <1>2, <3>2, <3>3, <3>4
  <2> QED BY <1>2, <2>1, <2>2
<1>9. ASSUME hi >= 0
      PROVE  /\ P # {} /\ Max(P) = hi
             /\ Min(P) = IF lo <= 0 THEN 0 ELSE lo
             /\ 0 \in P <=> lo <= 0
  <2> DEFINE low == IF lo <= 0 THEN 0 ELSE lo
  <2>1. hi \in P
    BY <1>2, <1>6, <1>8, <1>9
  <2>2. low \in P
    BY <1>2, <1>6, <1>8, <1>9
  <2>3. \A k \in P : low <= k
    BY <1>7
  <2>4. P # {} /\ Max(P) \in P /\ Min(P) \in P /\ hi <= Max(P) /\ Min(P) <= low
    BY <1>4, <2>1, <2>2
  <2>5. Max(P) \in Int /\ Max(P) <= hi /\ Min(P) \in Int /\ low <= Min(P)
    BY <1>7, <2>3, <2>4
  <2>6. Max(P) = hi /\ Min(P) = low
    BY <2>4, <2>5
  <2>7. 0 \in P <=> lo <= 0
    BY <1>2, <1>6, <1>7, <1>8, <1>9
  <2> QED BY <2>4, <2>6, <2>7
<1>10. ASSUME hi < 0 PROVE P = {}
  BY <1>7, <1>10
<1>11. \A k \in P : lo <= k /\ k <= hi
  BY <1>7
<1> QED BY <1>9, <1>10, <1>11

\* The edges of a bit that passes in lo .. hi of the data sweep.
LEMMA LeftSweepExact ==
  ASSUME NEW pass, NEW b \in Bits, NEW lo \in Int, NEW hi \in Int, lo <= hi, hi <= TapMax,
         PassesIn(pass, TapMax + 1, b, lo, hi)
  PROVE  /\ LeftSweep(pass).left[b] = IF hi < 0 THEN NoEdge ELSE hi
         /\ LeftSweep(pass).right[b] = IF hi < 0 \/ lo <= 0 THEN NoEdge ELSE -lo
<1> DEFINE n == SweepEnd(pass, TapMax + 1, {})
           P == Passing(pass, n, b)
           L == LeftSweep(pass).left[b]
           R == LeftSweep(pass).right[b]
<1>1. L = (IF P = {} THEN NoEdge ELSE Max(P))
      /\ R = (IF P = {} \/ 0 \in P THEN NoEdge ELSE -Min(P))
  BY Zenon DEF LeftSweep
<1>2. TapMax + 1 \in Nat /\ hi < TapMax + 1 /\ b \notin {}
  BY TapFacts
<1>3. /\ hi >= 0 => /\ P # {} /\ Max(P) = hi
                    /\ Min(P) = IF lo <= 0 THEN 0 ELSE lo
                    /\ 0 \in P <=> lo <= 0
      /\ hi < 0 => P = {}
  BY <1>2, SweepPassed, Zenon
<1> HIDE DEF P, L, R
<1>4. CASE hi < 0
  BY <1>1, <1>3, <1>4 DEF L, R
<1>5. CASE hi >= 0
  BY <1>1, <1>3, <1>5 DEF L, R
<1> QED BY <1>4, <1>5

\* The edges of a bit that passes from lo to hi, seen from the strobe at rest.
LEMMA RightSweepExact ==
  ASSUME NEW pass, NEW n \in 1 .. TapMax + 1, NEW edges, NEW write \in BOOLEAN,
         NEW b \in Bits, NEW lo \in Int, NEW hi \in Int, lo <= hi, hi < n, -TapMax <= lo,
         PassesIn(pass, n, b, lo, hi),
         edges.left[b] = (IF lo <= 0 THEN -lo ELSE NoEdge),
         edges.right[b] = (IF hi < 0 THEN hi ELSE NoEdge)
  PROVE  /\ RightSweep(pass, n, edges, write).left[b] = -lo
         /\ RightSweep(pass, n, edges, write).right[b] = hi
<1> DEFINE known == {x \in Bits : edges.left[x] # NoEdge
                                  /\ (write \/ edges.right[x] # NoEdge)}
           m == SweepEnd(pass, n, known)
           P == Passing(pass, m, b)
           first == IF P = {} THEN m ELSE Min(P)
           E == RightSweep(pass, n, edges, write)
<1>1. n \in Nat /\ n > 0 /\ TapMax \in Nat /\ NoEdge = TapMax + 1 /\ n <= TapMax + 1
  BY TapFacts
<1>2. m \in 0 .. n /\ Stops(pass, n, known, m)
  BY <1>1, SweepEndIs
<1>3. /\ E.right[b] = (IF P # {} THEN Max(P)
                       ELSE IF edges.right[b] = NoEdge /\ edges.left[b] # NoEdge
                               /\ (m > 0 \/ write)
                       THEN -1 ELSE edges.right[b])
      /\ E.left[b] = (IF edges.left[b] = NoEdge /\ edges.right[b] = NoEdge /\ first > 0
                      THEN -first ELSE edges.left[b])
  BY Zenon DEF RightSweep
<1>4. (b \notin known \/ P # {}) =>
        /\ hi >= 0 => /\ P # {} /\ Max(P) = hi
                      /\ Min(P) = IF lo <= 0 THEN 0 ELSE lo
        /\ hi < 0 => P = {}
  <2> SUFFICES ASSUME b \notin known \/ P # {}
               PROVE  /\ hi >= 0 => /\ P # {} /\ Max(P) = hi
                                    /\ Min(P) = IF lo <= 0 THEN 0 ELSE lo
                      /\ hi < 0 => P = {}
    OBVIOUS
  <2>1. b \notin known \/ Passing(pass, SweepEnd(pass, n, known), b) # {}
    OBVIOUS
  <2> HIDE DEF known
  <2>2. /\ \A k \in P : lo <= k /\ k <= hi
        /\ hi >= 0 => /\ P # {} /\ Max(P) = hi
                      /\ Min(P) = IF lo <= 0 THEN 0 ELSE lo
                      /\ 0 \in P <=> lo <= 0
        /\ hi < 0 => P = {}
    BY <1>1, <2>1, SweepPassed, Zenon
  <2> HIDE DEF P, m
  <2> QED BY <2>2
<1>5. P \in SUBSET (0 .. m - 1) /\ \A k \in 0 .. m - 1 : k \in P <=> b \in pass[k]
  <2>1. m \in Nat
    BY <1>2
  <2> HIDE DEF m
  <2> QED BY <2>1, PassingIs
<1>6. \A k \in 0 .. n - 1 : b \in pass[k] <=> lo <= k /\ k <= hi
  BY DEF PassesIn
<1>7. lo > 0 => b \notin known
  BY <1>1
<1> HIDE DEF known, m, P, E
<1>8. CASE lo > 0
  <2>1. P # {} /\ Max(P) = hi /\ Min(P) = lo
    BY <1>4, <1>7, <1>8
  <2>2. edges.left[b] = NoEdge /\ edges.right[b] = NoEdge /\ first = lo
    BY <1>8, <2>1
  <2>3. E.right[b] = hi /\ E.left[b] = -lo
    BY <1>3, <1>8, <2>1, <2>2
  <2> QED BY <2>3 DEF E
<1>9. CASE lo <= 0 /\ hi >= 0
  <2>1. 0 \in 0 .. n - 1 /\ b \in pass[0]
    BY <1>1, <1>6, <1>9
  <2>2. m # 0
    BY <1>1, <1>2, <2>1 DEF Stops
  <2>3. 0 \in P
    BY <1>2, <1>5, <2>1, <2>2
  <2>4. Max(P) = hi /\ P # {}
    BY <1>4, <1>9, <2>3
  <2>5. edges.left[b] = -lo /\ -lo # NoEdge
    BY <1>1, <1>9
  <2>6. E.right[b] = hi /\ E.left[b] = -lo
    BY <1>3, <2>4, <2>5
  <2> QED BY <2>6 DEF E
<1>10. CASE lo <= 0 /\ hi < 0
  <2>1. P = {}
    <3> SUFFICES ASSUME P # {} PROVE FALSE
      OBVIOUS
    <3> QED BY <1>4, <1>10
  <2>2. edges.left[b] = -lo /\ -lo # NoEdge /\ edges.right[b] = hi /\ hi # NoEdge
    BY <1>1, <1>10
  <2>3. E.right[b] = hi /\ E.left[b] = -lo
    BY <1>3, <2>1, <2>2
  <2> QED BY <2>3 DEF E
<1> QED BY <1>8, <1>9, <1>10

-----------------------------------------------------------------------------
(* The registers of the gate. *)

LEMMA DivIs ==
  ASSUME NEW a \in Int, NEW b \in Nat, b > 0
  PROVE  a \div b \in Int /\ b * (a \div b) <= a /\ a < b * (a \div b) + b
  OBVIOUS

LEMMA ProductOrder ==
  ASSUME NEW a \in Int, NEW b \in Int, NEW c \in Nat, c > 0
  PROVE  a * c < b * c <=> a < b
  OBVIOUS

LEMMA GateConstants ==
  /\ VFIFO_SIZE \in Nat /\ VFIFO_SIZE > 1 /\ PHASE_MAX \in Nat /\ PHASE_MAX > 1
  /\ DTap \in Nat /\ DTap > 0 /\ OpaTap \in Nat /\ OpaTap > DTap /\ DELAY_MAX \in Nat
  /\ Ptaps = PHASE_MAX + 1 /\ Clock \in Nat /\ Clock > 0 /\ Clock = Ptaps * OpaTap
  /\ Round \in Nat /\ Round > 0
  /\ StaticTaps \in 0 .. DELAY_MAX
<1>1. /\ VFIFO_SIZE \in Nat /\ VFIFO_SIZE > 1 /\ PHASE_MAX \in Nat /\ PHASE_MAX > 1
      /\ DTap \in Nat /\ DTap > 0 /\ OpaTap \in Nat /\ OpaTap > DTap /\ DELAY_MAX \in Nat
      /\ Ptaps = PHASE_MAX + 1
  BY GateAssumption DEF Ptaps
<1>2. Clock \in Nat /\ Clock > 0 /\ Clock = Ptaps * OpaTap
  BY <1>1 DEF Clock
<1>3. Round \in Nat /\ Round > 0
  BY <1>1, <1>2 DEF Round
<1>4. OpaTap <= (DELAY_MAX - 1) * DTap
  BY GateAssumption
<1>5. /\ StaticTaps \in Int /\ DTap * StaticTaps <= OpaTap - 1
      /\ OpaTap - 1 < DTap * StaticTaps + DTap
  BY <1>1, DivIs DEF StaticTaps
<1>6. StaticTaps < DELAY_MAX
  <2>1. StaticTaps * DTap < (DELAY_MAX - 1) * DTap
    BY <1>1, <1>4, <1>5
  <2>2. DELAY_MAX - 1 \in Int
    BY <1>1
  <2>3. StaticTaps < DELAY_MAX - 1
    BY <1>1, <1>5, <2>1, <2>2, ProductOrder
  <2> QED BY <1>1, <1>5, <2>3
<1>7. StaticTaps >= 0
  <2>1. 0 * DTap < (StaticTaps + 1) * DTap
    BY <1>1, <1>5
  <2>2. 0 < StaticTaps + 1
    BY <1>1, <1>5, <2>1, ProductOrder
  <2> QED BY <1>5, <2>2
<1> QED BY <1>1, <1>2, <1>3, <1>5, <1>6, <1>7

LEMMA CycleIs ==
  ASSUME NEW n \in Int
  PROVE  Cycle(n) \in 0 .. VFIFO_SIZE - 1
  BY GateConstants DEF Cycle

GateTyped ==
  /\ window \in Windows
  /\ step \in {"idle", "push", "begin", "back", "end", "edge", "track", "centre",
               "found", "lost"}
  /\ vfifo \in 0 .. VFIFO_SIZE - 1 /\ phase \in 0 .. PHASE_MAX /\ delay \in 0 .. DELAY_MAX
  /\ i \in Int /\ p \in Int /\ d \in 0 .. DELAY_MAX + 1
  /\ work_bgn \in Int /\ work_end \in Int
  /\ step = "back" => p \in 1 .. PHASE_MAX
  /\ step \in {"end", "edge", "track"} => p \in 0 .. PHASE_MAX

\* The gate is put at a phase and a delay of the cycle's first half of the
\* ring that the registers can hold.
LEMMA MiddleIs ==
  ASSUME NEW work \in Int
  PROVE  LET mid == ((work - 1) % Clock) + 1
             ptap == CeilDiv(mid, OpaTap)
         IN  /\ ptap \in 1 .. Ptaps
             /\ CeilDiv(mid - (ptap - 1) * OpaTap, DTap) \in 1 .. DELAY_MAX
<1> DEFINE mid == ((work - 1) % Clock) + 1
           ptap == CeilDiv(mid, OpaTap)
           rest == mid - (ptap - 1) * OpaTap
           e == CeilDiv(rest, DTap)
<1> SUFFICES ptap \in 1 .. Ptaps /\ e \in 1 .. DELAY_MAX
  OBVIOUS
<1>1. mid \in Int /\ 1 <= mid /\ mid <= Ptaps * OpaTap
  BY GateConstants
<1> HIDE DEF mid
<1>2. ptap \in Int /\ OpaTap * ptap <= mid + OpaTap - 1 /\ mid + OpaTap - 1 < OpaTap * ptap + OpaTap
  BY <1>1, GateConstants, DivIs DEF CeilDiv
<1> HIDE DEF ptap
<1>3. ptap < Ptaps + 1
  <2>1. ptap * OpaTap < (Ptaps + 1) * OpaTap
    BY <1>1, <1>2, GateConstants
  <2> QED BY <1>2, <2>1, GateConstants, ProductOrder
<1>4. ptap >= 1
  <2>1. 0 * OpaTap < ptap * OpaTap
    BY <1>1, <1>2, GateConstants
  <2>2. 0 < ptap
    BY <1>2, <2>1, GateConstants, ProductOrder
  <2> QED BY <1>2, <2>2
<1>5. rest \in Int /\ 1 <= rest /\ rest <= OpaTap
  BY <1>1, <1>2, GateConstants
<1> HIDE DEF rest
<1>6. e \in Int /\ DTap * e <= rest + DTap - 1 /\ rest + DTap - 1 < DTap * e + DTap
  BY <1>5, GateConstants, DivIs DEF CeilDiv
<1> HIDE DEF e
<1>7. e >= 1
  <2>1. 0 * DTap < e * DTap
    BY <1>5, <1>6, GateConstants
  <2>2. 0 < e
    BY <1>6, <2>1, GateConstants, ProductOrder
  <2> QED BY <1>6, <2>2
<1>8. e < DELAY_MAX
  <2>1. OpaTap <= (DELAY_MAX - 1) * DTap
    BY GateAssumption
  <2>2. e * DTap < DELAY_MAX * DTap
    BY <1>5, <1>6, <2>1, GateConstants
  <2> QED BY <1>6, <2>2, GateConstants, ProductOrder
<1> QED BY <1>2, <1>3, <1>4, <1>6, <1>7, <1>8, GateConstants

LEMMA SearchGateTyped ==
  ASSUME GateTyped, NEW w \in Windows, SearchGate(w)
  PROVE  GateTyped'
  BY GateConstants DEF SearchGate, GateTyped

LEMMA GateStepTyped ==
  ASSUME GateTyped, GateStep
  PROVE  GateTyped'
<1> USE GateConstants
<1>0. /\ window \in Windows /\ vfifo \in 0 .. VFIFO_SIZE - 1 /\ vfifo \in Int
      /\ phase \in 0 .. PHASE_MAX /\ delay \in 0 .. DELAY_MAX
      /\ i \in Int /\ p \in Int /\ d \in 0 .. DELAY_MAX + 1
      /\ work_bgn \in Int /\ work_end \in Int
  BY DEF GateTyped
<1>1. CASE Push
  <2>1. /\ UNCHANGED <<window, phase, delay, i, p, d, work_bgn, work_end>>
        /\ step' \in {"lost", "begin"}
        /\ vfifo' = vfifo \/ \E n \in 0 .. VFIFO_SIZE - 1 : vfifo' = Cycle(vfifo + n)
    BY <1>1, Zenon DEF Push, Lost
  <2>2. vfifo' \in 0 .. VFIFO_SIZE - 1
    <3>1. \A n \in 0 .. VFIFO_SIZE - 1 : vfifo + n \in Int
      BY <1>0
    <3> QED BY <1>0, <2>1, <3>1, CycleIs
  <2> QED BY <1>0, <2>1, <2>2 DEF GateTyped
<1>2. CASE FindBegin
  <2>1. CASE /\ step' = "lost" /\ phase' = PHASE_MAX /\ delay' = StaticTaps
             /\ UNCHANGED <<window, vfifo, i, p, d, work_bgn, work_end>>
    BY <1>0, <2>1 DEF GateTyped
  <2>2. ASSUME NEW e \in 0 .. StaticTaps, NEW n \in 0 .. VFIFO_SIZE - 1,
               NEW k \in 1 .. PHASE_MAX,
               step' \in {"back", "edge"}, vfifo' = Cycle(vfifo + n), phase' = k, delay' = e,
               i' = n, p' = k, d' = e,
               work_bgn' = n * Clock + k * OpaTap + e * DTap, work_end' = work_bgn',
               window' = window
        PROVE  GateTyped'
    <3>1. vfifo' \in 0 .. VFIFO_SIZE - 1
      BY <1>0, <2>2, CycleIs
    <3>2. n * Clock \in Int /\ k * OpaTap \in Int /\ e * DTap \in Int
      OBVIOUS
    <3>3. work_bgn' \in Int
      BY <2>2, <3>2
    <3>4. k \in Int /\ n \in Int /\ k \in 0 .. PHASE_MAX /\ e \in 0 .. DELAY_MAX
          /\ e \in 0 .. DELAY_MAX + 1
      OBVIOUS
    <3> QED BY <1>0, <2>2, <3>1, <3>3, <3>4 DEF GateTyped
  <2>3. \/ /\ step' = "lost" /\ phase' = PHASE_MAX /\ delay' = StaticTaps
           /\ UNCHANGED <<window, vfifo, i, p, d, work_bgn, work_end>>
        \/ \E e \in 0 .. StaticTaps, n \in 0 .. VFIFO_SIZE - 1, k \in 1 .. PHASE_MAX :
             /\ step' \in {"back", "edge"} /\ vfifo' = Cycle(vfifo + n)
             /\ phase' = k /\ delay' = e /\ i' = n /\ p' = k /\ d' = e
             /\ work_bgn' = n * Clock + k * OpaTap + e * DTap
             /\ work_end' = work_bgn' /\ window' = window
    BY <1>2, Zenon DEF FindBegin, Lost
  <2> QED BY <2>1, <2>2, <2>3, Zenon
<1>3. CASE BackOff
  <2> DEFINE k == IF p = 1 THEN 1 ELSE p - 1
             from == IF p = 1 THEN work_bgn ELSE work_bgn - OpaTap
  <2>1. p \in 1 .. PHASE_MAX
    BY <1>3 DEF BackOff, GateTyped
  <2>2. /\ UNCHANGED <<window, i, d>> /\ step' = "end"
        /\ work_end' = work_end + OpaTap
        /\ phase' = k /\ delay' = 0
        /\ p' = (k + 2) % Ptaps
        /\ vfifo' = Cycle(vfifo + (k + 2) \div Ptaps)
        /\ work_bgn' = work_bgn \/ \E e \in 0 .. DELAY_MAX : work_bgn' = from + e * DTap
    BY <1>3, Zenon DEF BackOff
  <2>3. k \in 1 .. PHASE_MAX
    BY <2>1
  <2>4. from \in Int
    BY <1>0
  <2> HIDE DEF k, from
  <2>5. work_bgn' \in Int
    <3>1. \A e \in 0 .. DELAY_MAX : from + e * DTap \in Int
      BY <2>4
    <3> QED BY <1>0, <2>2, <3>1
  <2>6. p' \in 0 .. PHASE_MAX /\ vfifo' \in 0 .. VFIFO_SIZE - 1
    <3>1. (k + 2) % Ptaps \in 0 .. PHASE_MAX /\ (k + 2) \div Ptaps \in Int
      BY <2>3
    <3>2. vfifo + (k + 2) \div Ptaps \in Int
      BY <1>0, <3>1
    <3> QED BY <2>2, <3>1, <3>2, CycleIs
  <2> QED BY <1>0, <2>2, <2>3, <2>5, <2>6 DEF GateTyped
<1>4. CASE FindEnd
  <2> DEFINE k(n) == (p + n) % Ptaps
             v(n) == vfifo + (p + n) \div Ptaps
             last == (VFIFO_SIZE + 1 - i) * Ptaps - p - 1
  <2>1. /\ UNCHANGED <<window, delay, i>>
        /\ work_bgn' = work_end \/ work_bgn' = work_bgn
        /\ \/ /\ step' = "lost" /\ vfifo' = Cycle(v(last + 1)) /\ phase' = PHASE_MAX
              /\ UNCHANGED <<p, d, work_end>>
           \/ \E n \in 1 .. last :
                /\ k(n) # 0
                /\ step' = "edge"
                /\ IF k(n) = 1
                   THEN /\ p' = PHASE_MAX /\ vfifo' = Cycle(v(n) + VFIFO_SIZE - 1)
                        /\ work_end' = work_end + (n - 2) * OpaTap
                   ELSE /\ p' = k(n) - 1 /\ vfifo' = Cycle(v(n))
                        /\ work_end' = work_end + (n - 1) * OpaTap
                /\ phase' = p' /\ d' = 0
    BY <1>4, Zenon DEF FindEnd, Lost, Meets, LastTap
  <2>2. last \in Int
    BY <1>0
  <2>3. ASSUME NEW n \in Int PROVE k(n) \in 0 .. PHASE_MAX /\ v(n) \in Int
    BY <1>0
  <2>4. work_bgn' \in Int
    BY <1>0, <2>1
  <2>5. CASE /\ step' = "lost" /\ vfifo' = Cycle(v(last + 1)) /\ phase' = PHASE_MAX
             /\ UNCHANGED <<p, d, work_end>>
    <3> HIDE DEF last
    <3>1. v(last + 1) \in Int
      BY <2>2, <2>3
    <3> HIDE DEF v
    <3> QED BY <1>0, <2>1, <2>4, <2>5, <3>1, CycleIs DEF GateTyped
  <2>6. ASSUME NEW n \in 1 .. last,
               k(n) # 0, step' = "edge",
               IF k(n) = 1
               THEN /\ p' = PHASE_MAX /\ vfifo' = Cycle(v(n) + VFIFO_SIZE - 1)
                    /\ work_end' = work_end + (n - 2) * OpaTap
               ELSE /\ p' = k(n) - 1 /\ vfifo' = Cycle(v(n))
                    /\ work_end' = work_end + (n - 1) * OpaTap,
               phase' = p', d' = 0
        PROVE  GateTyped'
    <3>1. n \in Int /\ k(n) \in 0 .. PHASE_MAX /\ v(n) \in Int
      <4> HIDE DEF last
      <4> QED BY <2>2, <2>3
    <3> HIDE DEF k, v, last
    <3>2. v(n) + VFIFO_SIZE - 1 \in Int /\ (n - 2) * OpaTap \in Int /\ (n - 1) * OpaTap \in Int
      BY <3>1
    <3>3. vfifo' \in 0 .. VFIFO_SIZE - 1
      BY <2>6, <3>1, <3>2, CycleIs
    <3>4. work_end' \in Int
      BY <1>0, <2>6, <3>2
    <3>5. p' \in 0 .. PHASE_MAX
      BY <2>6, <3>1
    <3> QED BY <1>0, <2>1, <2>4, <2>6, <3>3, <3>4, <3>5 DEF GateTyped
  <2> HIDE DEF k, v, last
  <2> QED BY <2>1, <2>5, <2>6, Zenon
<1>5. CASE FindEdge
  <2>1. PICK e \in d .. DELAY_MAX + 1 :
          /\ work_end' = work_end + (e - d) * DTap - (IF e = 0 THEN 0 ELSE DTap)
          /\ d' = e /\ delay' = IF e > DELAY_MAX THEN DELAY_MAX ELSE e
    BY <1>5, Zenon DEF FindEdge
  <2>2. /\ UNCHANGED <<window, vfifo, phase, i, p, work_bgn>>
        /\ step = "edge" /\ step' \in {"track", "lost"}
    BY <1>5, Zenon DEF FindEdge
  <2>3. e \in 0 .. DELAY_MAX + 1 /\ delay' \in 0 .. DELAY_MAX
    BY <1>0, <2>1
  <2>4. work_end' \in Int
    <3>1. (e - d) * DTap \in Int
      BY <1>0, <2>3
    <3> QED BY <1>0, <2>1, <3>1
  <2>5. p \in 0 .. PHASE_MAX
    BY <2>2 DEF GateTyped
  <2> QED BY <1>0, <2>1, <2>2, <2>3, <2>4, <2>5 DEF GateTyped
<1>6. CASE TrackTaps
  <2> DEFINE wraps == p \in {0, 1}
             v == IF wraps THEN vfifo + VFIFO_SIZE - 1 ELSE vfifo
             k == IF wraps THEN PHASE_MAX ELSE p - 1
  <2>1. /\ UNCHANGED <<window, i, d, work_bgn, work_end>>
        /\ step = "track" /\ step' = "centre"
        /\ vfifo' = Cycle(v) /\ phase' = k /\ p' = k
        /\ delay' = DELAY_MAX \/ \E e \in d .. DELAY_MAX : delay' = e
    BY <1>6, Zenon DEF TrackTaps
  <2>2. p \in 0 .. PHASE_MAX
    BY <2>1 DEF GateTyped
  <2>3. v \in Int /\ k \in 0 .. PHASE_MAX
    BY <1>0, <2>2
  <2> HIDE DEF v, k
  <2>4. delay' \in 0 .. DELAY_MAX /\ vfifo' \in 0 .. VFIFO_SIZE - 1
    BY <1>0, <2>1, <2>3, CycleIs
  <2> QED BY <1>0, <2>1, <2>3, <2>4 DEF GateTyped
<1>7. CASE CentreGate
  <2> DEFINE work == (work_bgn + work_end) \div 2
             mid == ((work - 1) % Clock) + 1
             ptap == CeilDiv(mid, OpaTap)
             e == CeilDiv(mid - (ptap - 1) * OpaTap, DTap)
  <2>1. /\ UNCHANGED <<window, i, work_bgn, work_end>>
        /\ step' \in {"lost", "found"}
        /\ phase' = (IF ptap = 1 THEN 2 ELSE ptap) - 1
        /\ p' = (IF ptap = 1 THEN 2 ELSE ptap)
        /\ delay' = (IF ptap = 1 THEN 0 ELSE e) /\ d' = delay'
        /\ vfifo' = vfifo \/ \E n \in 0 .. VFIFO_SIZE - 1 : vfifo' = Cycle(vfifo + n)
    BY <1>7, Zenon DEF CentreGate, Lost
  <2>2. work \in Int
    BY <1>0
  <2> HIDE DEF work
  <2>3. ptap \in 1 .. Ptaps /\ e \in 1 .. DELAY_MAX
    BY <2>2, MiddleIs
  <2> HIDE DEF mid, ptap, e
  <2>4. vfifo' \in 0 .. VFIFO_SIZE - 1
    <3>1. \A n \in 0 .. VFIFO_SIZE - 1 : vfifo + n \in Int
      BY <1>0
    <3> QED BY <1>0, <2>1, <3>1, CycleIs
  <2>5. phase' \in 0 .. PHASE_MAX /\ delay' \in 0 .. DELAY_MAX /\ p' \in Int
        /\ d' \in 0 .. DELAY_MAX + 1
    BY <2>1, <2>3
  <2> QED BY <1>0, <2>1, <2>4, <2>5 DEF GateTyped
<1> QED BY <1>1, <1>2, <1>3, <1>4, <1>5, <1>6, <1>7 DEF GateStep

-----------------------------------------------------------------------------
(* The loops of the search for the gate.  Past counts from the first       *)
(* picosecond of the window round the ring; work_bgn and work_end count    *)
(* from where the cycles of the search began, which is unknown: an         *)
(* invariant relates the two modulo a cycle.                               *)

\* Enough cycles that a failing read follows the window, phase taps a
\* quarter of the window long at most.
FineGate == VFIFO_SIZE >= 4 /\ PHASE_MAX >= 7

InRange == window.length \in Clock \div 2 .. 2 * Clock - 2 * OpaTap - DTap

\* The window begins a whole number of cycles from x.
Aligned(x) == (x - window.first) % Clock = 0

\* x is where the window begins, on the clock of work_bgn and work_end: the
\* beginning found is a delay tap late, or the edge was not sought.
Sharp(x) == Aligned(x) /\ work_bgn - x \in 0 .. DTap - 1
Late(x) == /\ Aligned(x) /\ work_bgn - x \in 0 .. 2 * OpaTap - 1
           /\ (work_bgn - OpaTap) % Clock = 0

Here == Past(vfifo, p, 0)

Pushed == ~Opens(vfifo, 1, 0)

Begun ==
  /\ i \in 0 .. VFIFO_SIZE - 1 /\ p \in 1 .. PHASE_MAX
  /\ work_bgn = work_end /\ Aligned(work_end - Here)
  /\ Here < IF p = 1 THEN 2 * OpaTap ELSE OpaTap
  /\ p = 1 => (work_bgn - OpaTap) % Clock = 0
  /\ i = VFIFO_SIZE - 1 => ~Opens(vfifo + 1, 1, 0)

Bracketed ==
  \/ Sharp(work_end - Here)
  \/ Late(work_end + OpaTap - Here)

Backed ==
  /\ i \in 0 .. VFIFO_SIZE - 1 /\ p \in 0 .. PHASE_MAX
  /\ Here \in OpaTap .. 4 * OpaTap - 1
  /\ Bracketed
  /\ i = VFIFO_SIZE - 1 => ~Opens(IF p = 0 THEN vfifo ELSE vfifo + 1, 1, 0)

AtEdge ==
  /\ d = 0 /\ p \in 0 .. PHASE_MAX
  /\ window.length - Here \in 1 .. 2 * OpaTap
  /\ Bracketed

Measured ==
  \E x \in work_bgn - (2 * OpaTap - 1) .. work_bgn :
    LET rest == x + window.length - work_end IN
    \/ Sharp(x) /\ rest \in 1 .. OpaTap - 1
    \/ Late(x) /\ rest \in OpaTap + 1 .. 2 * OpaTap - 1

Gating ==
  InRange =>
    /\ step # "lost"
    /\ step = "begin" => Pushed
    /\ step = "back" => Begun
    /\ step = "end" => Backed
    /\ step = "edge" => AtEdge
    /\ step \in {"track", "centre"} => Measured
    /\ step = "found" => OffCentre <= 2 * OpaTap + DTap

-----------------------------------------------------------------------------
(* Places in the ring. *)

LEMMA ModIs ==
  ASSUME NEW n \in Nat, n > 0, NEW m \in Int, NEW r \in 0 .. n - 1
  PROVE  (m * n + r) % n = r
<1> DEFINE x == m * n + r
<1>1. /\ x \in Int /\ x \div n \in Int /\ x % n \in 0 .. n - 1
      /\ x = n * (x \div n) + (x % n)
  OBVIOUS
<1>2. PICK k \in Int : k = (x \div n) - m
  BY <1>1
<1>3. r - (x % n) = n * k
  BY <1>1, <1>2
<1>4. CASE k >= 1
  <2>1. n * k >= n
    BY <1>4
  <2> QED BY <1>1, <1>3, <2>1
<1>5. CASE k <= -1
  <2>1. n * k <= -n
    BY <1>5
  <2> QED BY <1>1, <1>3, <2>1
<1>6. CASE k = 0
  BY <1>1, <1>3, <1>6
<1> QED BY <1>4, <1>5, <1>6

LEMMA ModSplit ==
  ASSUME NEW n \in Nat, n > 0, NEW x \in Int
  PROVE  /\ x \div n \in Int /\ x % n \in 0 .. n - 1
         /\ x = n * (x \div n) + (x % n)
  OBVIOUS

\* Multiples have no remainder, and taking them away changes none.
LEMMA ModWhole ==
  ASSUME NEW n \in Nat, n > 0, NEW k \in Int
  PROVE  (k * n) % n = 0
<1>1. k * n = k * n + 0 /\ 0 \in 0 .. n - 1
  OBVIOUS
<1> QED BY ONLY <1>1, ModIs, n \in Nat, n > 0, k \in Int

LEMMA GateSizes ==
  ASSUME FineGate
  PROVE  /\ OpaTap \in Nat /\ DTap \in Nat /\ 1 <= DTap /\ DTap < OpaTap
         /\ Ptaps \in Nat /\ 8 <= Ptaps /\ PHASE_MAX = Ptaps - 1
         /\ Clock \in Nat /\ Clock = Ptaps * OpaTap /\ 8 * OpaTap <= Clock
         /\ Round \in Nat /\ Round = VFIFO_SIZE * Clock /\ 4 * Clock <= Round
         /\ VFIFO_SIZE \in Nat /\ 4 <= VFIFO_SIZE
         /\ DELAY_MAX \in Nat /\ OpaTap + DTap <= DELAY_MAX * DTap
<1>1. /\ VFIFO_SIZE \in Nat /\ 4 <= VFIFO_SIZE /\ PHASE_MAX \in Nat /\ 7 <= PHASE_MAX
      /\ DTap \in Nat /\ DTap > 0 /\ OpaTap \in Nat /\ OpaTap > DTap /\ DELAY_MAX \in Nat
      /\ OpaTap <= (DELAY_MAX - 1) * DTap
  BY GateAssumption DEF FineGate
<1>2. Ptaps = PHASE_MAX + 1 /\ Clock = Ptaps * OpaTap /\ Round = VFIFO_SIZE * Clock
  BY DEF Ptaps, Clock, Round
<1>3. Clock \in Nat /\ 8 * OpaTap <= Clock
  <2>1. Ptaps \in Nat /\ 8 <= Ptaps
    BY <1>1, <1>2
  <2> QED BY <1>1, <1>2, <2>1
<1>4. Round \in Nat /\ 4 * Clock <= Round
  BY <1>1, <1>2, <1>3
<1>5. (DELAY_MAX - 1) * DTap = DELAY_MAX * DTap - DTap /\ DELAY_MAX * DTap \in Int
  BY <1>1
<1> QED BY <1>1, <1>2, <1>3, <1>4, <1>5

\* The window, against the grid.
LEMMA WindowSizes ==
  ASSUME FineGate, window \in Windows, InRange
  PROVE  /\ window.length \in Nat /\ window.first \in Int
         /\ 4 * OpaTap <= window.length /\ window.length + 2 * OpaTap + DTap <= 2 * Clock
<1>1. window.length \in 0 .. Round /\ window.first \in 0 .. Round - 1
  BY DEF Windows
<1>2. Clock \div 2 >= 4 * OpaTap
  BY GateSizes
<1>3. /\ Clock \div 2 \in Int /\ window.length >= Clock \div 2
      /\ window.length <= 2 * Clock - 2 * OpaTap - DTap
  BY GateSizes DEF InRange
<1> QED BY <1>1, <1>2, <1>3, GateSizes

\* Where a read is in the window, by its place on the grid.
LEMMA PastIn ==
  ASSUME FineGate, window \in Windows, NEW v \in Int, NEW q \in Int, NEW e \in Int
  PROVE  Past(v, q, e) \in 0 .. Round - 1
<1>1. window.first \in Int
  BY DEF Windows
<1>2. v * Clock + q * OpaTap + e * DTap - window.first \in Int
  BY <1>1, GateSizes
<1>3. Round \in Nat /\ Round > 0
  BY GateSizes
<1> DEFINE x == v * Clock + q * OpaTap + e * DTap - window.first
<1>4. Past(v, q, e) = x % Round
  BY DEF Past
<1> HIDE DEF x
<1> QED BY <1>2, <1>3, <1>4, ModSplit DEF x

LEMMA PastMoves ==
  ASSUME FineGate, window \in Windows,
         NEW v \in Int, NEW q \in Int, NEW e \in Int, NEW u \in Int, NEW r \in Int, NEW f \in Int,
         NEW k \in Int, NEW w \in Int,
         u * Clock + r * OpaTap + f * DTap = v * Clock + q * OpaTap + e * DTap + k + w * Round,
         Past(v, q, e) + k \in 0 .. Round - 1
  PROVE  Past(u, r, f) = Past(v, q, e) + k
<1> DEFINE x == v * Clock + q * OpaTap + e * DTap - window.first
           y == u * Clock + r * OpaTap + f * DTap - window.first
<1>1. window.first \in Int
  BY DEF Windows
<1>2. x \in Int /\ y \in Int
  BY <1>1, GateSizes
<1>3. y = x + k + w * Round
  <2>1. /\ v * Clock \in Int /\ q * OpaTap \in Int /\ e * DTap \in Int
        /\ u * Clock \in Int /\ r * OpaTap \in Int /\ f * DTap \in Int /\ w * Round \in Int
    BY GateSizes
  <2> QED BY <1>1, <2>1
<1>4. Past(v, q, e) = x % Round /\ Past(u, r, f) = y % Round
  BY DEF Past
<1>5. (x % Round) + k \in 0 .. Round - 1
  BY <1>4
<1>6. Round \in Nat /\ Round > 0
  BY GateSizes
<1> HIDE DEF x, y
<1>7. y % Round = (x % Round) + k
  <2>1. PICK m \in Int, s \in 0 .. Round - 1 : x = m * Round + s /\ s = x % Round
    <3>1. /\ x \div Round \in Int /\ x % Round \in 0 .. Round - 1
          /\ x = Round * (x \div Round) + (x % Round)
      BY <1>2, <1>6, ModSplit
    <3>2. x = (x \div Round) * Round + (x % Round)
      BY <1>6, <3>1
    <3> QED BY <3>1, <3>2
  <2>2. m + w \in Int /\ s + k \in 0 .. Round - 1
    BY <1>5, <2>1
  <2>3. y = (m + w) * Round + (s + k)
    BY <1>3, <1>6, <2>1
  <2>4. ((m + w) * Round + (s + k)) % Round = s + k
    BY ONLY <1>6, <2>2, ModIs
  <2> QED BY <2>1, <2>3, <2>4
<1> QED BY <1>4, <1>7

\* The ring: a cycle is the one VFIFO_SIZE before it.
LEMMA CycleSplit ==
  ASSUME FineGate, NEW n \in Int
  PROVE  Cycle(n) \in Int /\ \E w \in Int : Cycle(n) = n - w * VFIFO_SIZE
<1>0. VFIFO_SIZE \in Nat /\ VFIFO_SIZE > 0
  BY GateSizes
<1>1. /\ n \div VFIFO_SIZE \in Int /\ n % VFIFO_SIZE \in Int
      /\ n = VFIFO_SIZE * (n \div VFIFO_SIZE) + (n % VFIFO_SIZE)
  BY <1>0
<1>2. Cycle(n) = n - (n \div VFIFO_SIZE) * VFIFO_SIZE
  BY <1>0, <1>1 DEF Cycle
<1>3. Cycle(n) \in Int
  BY <1>1 DEF Cycle
<1> QED BY <1>1, <1>2, <1>3

LEMMA PastRound ==
  ASSUME FineGate, window \in Windows,
         NEW n \in Int, NEW m \in Int, NEW q \in Int, NEW e \in Int
  PROVE  Past(Cycle(n) + m, q, e) = Past(n + m, q, e)
<1>1. PICK w \in Int : Cycle(n) = n - w * VFIFO_SIZE
  BY CycleSplit
<1>2. Cycle(n) \in Int /\ n + m \in Int /\ Cycle(n) + m \in Int
  BY CycleSplit
<1>3. Past(n + m, q, e) + 0 \in 0 .. Round - 1
  <2>1. Past(n + m, q, e) \in 0 .. Round - 1
    BY <1>2, PastIn
  <2> HIDE DEF Past
  <2> QED BY <2>1, GateSizes
<1>4. (Cycle(n) + m) * Clock = (n + m) * Clock + (-w) * Round
  <2>1. (Cycle(n) + m) * Clock = (n + m) * Clock - (w * VFIFO_SIZE) * Clock
    BY <1>1, GateSizes
  <2>2. (w * VFIFO_SIZE) * Clock = w * Round
    BY GateSizes
  <2>3. (-w) * Round = -(w * Round) /\ w * Round \in Int /\ (n + m) * Clock \in Int
    BY GateSizes
  <2> QED BY <2>1, <2>2, <2>3
<1>5. (Cycle(n) + m) * Clock + q * OpaTap + e * DTap
        = (n + m) * Clock + q * OpaTap + e * DTap + 0 + (-w) * Round
  <2>1. /\ (n + m) * Clock \in Int /\ q * OpaTap \in Int /\ e * DTap \in Int
        /\ (-w) * Round \in Int
    BY <1>2, GateSizes
  <2> QED BY <1>4, <2>1
<1>6. Past(Cycle(n) + m, q, e) = Past(n + m, q, e) + 0
  BY ONLY FineGate, window \in Windows, <1>2, <1>3, <1>5, PastMoves,
     q \in Int, e \in Int, -w \in Int, 0 \in Int
<1>7. Past(n + m, q, e) \in Int
  BY <1>2, PastIn
<1> QED BY <1>6, <1>7

LEMMA PastCycle ==
  ASSUME FineGate, window \in Windows, NEW n \in Int, NEW q \in Int, NEW e \in Int
  PROVE  Past(Cycle(n), q, e) = Past(n, q, e)
<1>1. Past(Cycle(n) + 0, q, e) = Past(n + 0, q, e)
  BY PastRound
<1>2. Cycle(n) \in Int
  BY GateSizes, CycleSplit
<1> QED BY <1>1, <1>2

\* A number of phase taps further on, by cycles and phases.
LEMMA PastTaps ==
  ASSUME FineGate, window \in Windows,
         NEW v \in Int, NEW q \in Int, NEW u \in Int, NEW r \in Int, NEW n \in Int,
         u * Ptaps + r = v * Ptaps + q + n,
         Past(v, q, 0) + n * OpaTap \in 0 .. Round - 1
  PROVE  Past(u, r, 0) = Past(v, q, 0) + n * OpaTap
<1>1. u * Clock + r * OpaTap = (u * Ptaps + r) * OpaTap
  BY GateSizes
<1>2. v * Clock + q * OpaTap + n * OpaTap = (v * Ptaps + q + n) * OpaTap
  BY GateSizes
<1>3. u * Clock + r * OpaTap = v * Clock + q * OpaTap + n * OpaTap
  BY <1>1, <1>2
<1>4. /\ u * Clock \in Int /\ r * OpaTap \in Int /\ v * Clock \in Int /\ q * OpaTap \in Int
      /\ n * OpaTap \in Int /\ 0 * DTap = 0 /\ 0 * Round = 0
  BY GateSizes
<1>5. u * Clock + r * OpaTap + 0 * DTap
        = v * Clock + q * OpaTap + 0 * DTap + n * OpaTap + 0 * Round
  BY <1>3, <1>4
<1> QED
  BY ONLY FineGate, window \in Windows, <1>4, <1>5, PastMoves, v \in Int, q \in Int,
     u \in Int, r \in Int, 0 \in Int, Past(v, q, 0) + n * OpaTap \in 0 .. Round - 1

\* A number of cycles further on.
LEMMA PastCycles ==
  ASSUME FineGate, window \in Windows, NEW v \in Int, NEW q \in Int, NEW n \in Int,
         Past(v, q, 0) + n * Clock \in 0 .. Round - 1
  PROVE  Past(v + n, q, 0) = Past(v, q, 0) + n * Clock
<1>1. /\ (v + n) * Clock = v * Clock + n * Clock
      /\ v * Clock \in Int /\ n * Clock \in Int /\ q * OpaTap \in Int
      /\ 0 * DTap = 0 /\ 0 * Round = 0
  BY GateSizes
<1>2. (v + n) * Clock + q * OpaTap + 0 * DTap
        = v * Clock + q * OpaTap + 0 * DTap + n * Clock + 0 * Round
  BY <1>1
<1> QED
  BY ONLY FineGate, window \in Windows, <1>1, <1>2, PastMoves, v \in Int, q \in Int,
     v + n \in Int, 0 \in Int, Past(v, q, 0) + n * Clock \in 0 .. Round - 1

\* A number of delay taps further on, a phase later perhaps.
LEMMA PastDelays ==
  ASSUME FineGate, window \in Windows, NEW v \in Int, NEW q \in Int, NEW n \in Int,
         NEW e \in Int,
         Past(v, q, 0) + n * OpaTap + e * DTap \in 0 .. Round - 1
  PROVE  Past(v, q + n, e) = Past(v, q, 0) + n * OpaTap + e * DTap
<1>1. /\ (q + n) * OpaTap = q * OpaTap + n * OpaTap
      /\ v * Clock \in Int /\ n * OpaTap \in Int /\ q * OpaTap \in Int /\ e * DTap \in Int
      /\ 0 * DTap = 0 /\ 0 * Round = 0
  BY GateSizes
<1> DEFINE k == n * OpaTap + e * DTap
<1>2. v * Clock + (q + n) * OpaTap + e * DTap
        = v * Clock + q * OpaTap + 0 * DTap + k + 0 * Round
  BY <1>1
<1>3. Past(v, q, 0) \in Int
  BY PastIn
<1>4. k \in Int /\ Past(v, q, 0) + k \in 0 .. Round - 1
  BY <1>1, <1>3
<1> HIDE DEF k
<1>5. Past(v, q + n, e) = Past(v, q, 0) + k
  BY ONLY FineGate, window \in Windows, <1>2, <1>4, PastMoves, v \in Int, q \in Int,
     q + n \in Int, e \in Int, 0 \in Int
<1> QED BY <1>1, <1>3, <1>5 DEF k

-----------------------------------------------------------------------------
(* Putting the gate off, and the first read that passes. *)

\* Of four cycles two do not read: the gate is put off until the second.
LEMMA PushGates ==
  ASSUME FineGate, GateTyped, InRange, Push
  PROVE  step' = "begin" /\ Pushed' /\ UNCHANGED window
<1>1. window \in Windows /\ vfifo \in Int
  BY DEF GateTyped
<1>2. /\ Clock \in Nat /\ Clock > 0 /\ Round \in Nat /\ 4 * Clock <= Round
      /\ VFIFO_SIZE \in Nat /\ 4 <= VFIFO_SIZE
      /\ window.length \in Nat /\ 4 * OpaTap <= window.length /\ OpaTap \in Nat /\ OpaTap > 0
      /\ window.length < 2 * Clock
  BY <1>1, GateSizes, WindowSizes
<1> DEFINE L == window.length
           at(n) == Past(vfifo + n, 1, 0)
           fails(n) == ~Opens(vfifo + n, 1, 0)
           second(n) == fails(n) /\ \E m \in 0 .. n - 1 : fails(m)
<1>3. \A n \in Int : at(n) \in 0 .. Round - 1 /\ (fails(n) <=> ~(at(n) < L))
  BY <1>1, PastIn DEF Opens
<1>4. \A n, m \in Int : at(n) + m * Clock \in 0 .. Round - 1 => at(n + m) = at(n) + m * Clock
  <2> SUFFICES ASSUME NEW n \in Int, NEW m \in Int, at(n) + m * Clock \in 0 .. Round - 1
               PROVE  at(n + m) = at(n) + m * Clock
    OBVIOUS
  <2>1. vfifo + n \in Int /\ vfifo + (n + m) = vfifo + n + m
    BY <1>1
  <2>2. Past(vfifo + n + m, 1, 0) = Past(vfifo + n, 1, 0) + m * Clock
    BY <1>1, <2>1, PastCycles
  <2> QED BY <2>1, <2>2
<1> HIDE DEF at, L
<1>5. \E m, n \in 0 .. 3 : m < n /\ fails(m) /\ fails(n)
  <2> HIDE DEF fails
  <2>1. \A n \in Int : fails(n) \/ fails(n + 2)
    <3> SUFFICES ASSUME NEW n \in Int, ~fails(n), ~fails(n + 2)
                 PROVE  FALSE
      OBVIOUS
    <3>1. at(n) \in 0 .. Round - 1 /\ at(n) < L /\ at(n + 2) < L /\ L < 2 * Clock /\ L \in Nat
      BY <1>2, <1>3 DEF L
    <3>2. at(n) + 2 * Clock \in 0 .. Round - 1
      BY <1>2, <3>1
    <3>3. at(n + 2) = at(n) + 2 * Clock
      BY <1>4, <3>2
    <3> QED BY <1>2, <3>1, <3>3
  <2>2. (fails(0) \/ fails(2)) /\ (fails(1) \/ fails(3))
    BY <2>1
  <2> QED BY <2>2
<1>6. \E n \in 0 .. VFIFO_SIZE - 1 : second(n)
  <2>1. PICK m \in 0 .. 3, n \in 0 .. 3 : m < n /\ fails(m) /\ fails(n)
    BY <1>5
  <2> HIDE DEF fails
  <2>2. m \in 0 .. n - 1 /\ n \in 0 .. VFIFO_SIZE - 1
    BY <1>2, <2>1
  <2> QED BY <2>1, <2>2
<1>7. PICK n \in 0 .. VFIFO_SIZE - 1 : second(n) /\ step' = "begin" /\ vfifo' = Cycle(vfifo + n)
  BY <1>6, Zenon DEF Push, Meets
<1>8. window' = window
  BY DEF Push
<1>9. Past(vfifo', 1, 0) = Past(vfifo + n, 1, 0)
  <2>1. vfifo + n \in Int
    BY <1>1
  <2> QED BY <1>1, <1>7, <2>1, PastCycle
<1>10. ~(Past(vfifo', 1, 0) < window.length)
  BY <1>7, <1>9 DEF Opens
<1>11. Pushed'
  BY <1>8, <1>10 DEF Pushed, Opens, Past
<1> QED BY <1>7, <1>8, <1>11

\* The next cycle's phases, where the one at hand has none.
LEMMA TapsOn ==
  ASSUME FineGate, window \in Windows,
         NEW v \in Int, NEW q \in Int, NEW n \in Int,
         Past(v, q, 0) + n * OpaTap \in 0 .. Round - 1
  PROVE  Past(v + (q + n) \div Ptaps, (q + n) % Ptaps, 0) = Past(v, q, 0) + n * OpaTap
<1>1. Ptaps \in Nat /\ Ptaps > 0
  BY GateSizes
<1>2. /\ (q + n) \div Ptaps \in Int /\ (q + n) % Ptaps \in 0 .. Ptaps - 1
      /\ q + n = Ptaps * ((q + n) \div Ptaps) + ((q + n) % Ptaps)
  BY <1>1, ModSplit
<1> DEFINE c == (q + n) \div Ptaps
           r == (q + n) % Ptaps
<1>3. c \in Int /\ r \in Int /\ q + n = Ptaps * c + r
  BY <1>2
<1> HIDE DEF c, r
<1>4. (v + c) * Ptaps + r = v * Ptaps + q + n
  BY <1>1, <1>3
<1>5. v + c \in Int
  BY <1>3
<1>6. Past(v + c, r, 0) = Past(v, q, 0) + n * OpaTap
  BY ONLY FineGate, window \in Windows, <1>3, <1>4, <1>5, PastTaps, v \in Int, q \in Int,
     n \in Int, Past(v, q, 0) + n * OpaTap \in 0 .. Round - 1
<1> QED BY <1>6 DEF c, r

\* Some phase of some cycle opens: the first one inside the window, or the
\* one after it if that is phase 0.
LEMMA SomeOpens ==
  ASSUME FineGate, window \in Windows, vfifo \in 0 .. VFIFO_SIZE - 1, InRange, Pushed
  PROVE  \E n \in 0 .. VFIFO_SIZE - 1, q \in 1 .. PHASE_MAX : Opens(vfifo + n, q, 0)
<1> DEFINE x == Past(vfifo, 1, 0)
           g == (Round - x + OpaTap - 1) \div OpaTap
<1>1. /\ Clock \in Nat /\ Clock > 0 /\ Round \in Nat /\ 4 * Clock <= Round
      /\ VFIFO_SIZE \in Nat /\ 4 <= VFIFO_SIZE /\ Ptaps \in Nat /\ 8 <= Ptaps
      /\ PHASE_MAX = Ptaps - 1 /\ 8 * OpaTap <= Clock
      /\ window.length \in Nat /\ 4 * OpaTap <= window.length /\ OpaTap \in Nat /\ OpaTap > 0
      /\ window.length < 2 * Clock /\ vfifo \in Int
  BY GateSizes, WindowSizes
<1>2. x \in window.length .. Round - 1
  <2>1. x \in 0 .. Round - 1
    BY ONLY FineGate, window \in Windows, <1>1, PastIn, 1 \in Int, 0 \in Int
  <2>2. ~(x < window.length)
    BY DEF Pushed, Opens
  <2> HIDE DEF x
  <2> QED BY <1>1, <2>1, <2>2
<1> HIDE DEF x
<1>3. /\ g \in Int /\ OpaTap * g <= Round - x + OpaTap - 1
      /\ Round - x + OpaTap - 1 < OpaTap * g + OpaTap
  BY <1>1, <1>2, DivIs
<1> HIDE DEF g
<1>4. g * OpaTap = OpaTap * g /\ (g + 1) * OpaTap = OpaTap * g + OpaTap
  BY <1>1, <1>3
<1>5. x + g * OpaTap - Round \in 0 .. OpaTap - 1
  BY <1>1, <1>2, <1>3, <1>4
<1>6. g >= 1 /\ g + 2 < VFIFO_SIZE * Ptaps
  <2>1. Round = (VFIFO_SIZE * Ptaps) * OpaTap /\ VFIFO_SIZE * Ptaps \in Int
    BY GateSizes
  <2> DEFINE N == VFIFO_SIZE * Ptaps
  <2> HIDE DEF N
  <2>2. 0 * OpaTap < g * OpaTap
    BY <1>1, <1>2, <1>3, <1>4
  <2>3. (g + 2) * OpaTap < N * OpaTap
    <3>1. (g + 2) * OpaTap = OpaTap * g + 2 * OpaTap
      BY <1>1, <1>3
    <3>2. N * OpaTap = Round
      BY <2>1 DEF N
    <3> QED BY <1>1, <1>2, <1>3, <3>1, <3>2
  <2>4. 0 < g /\ g + 2 < N
    <3>1. N \in Int /\ g + 2 \in Int /\ OpaTap \in Nat /\ OpaTap > 0 /\ 0 \in Int
      BY <1>1, <1>3, <2>1 DEF N
    <3>2. 0 < g
      BY ONLY <2>2, <3>1, <1>3, ProductOrder
    <3>3. g + 2 < N
      BY ONLY <2>3, <3>1, ProductOrder
    <3> QED BY <3>2, <3>3
  <2> QED BY <1>3, <2>4 DEF N
\* h is an index of a phase in the window, counted from phase 0 of vfifo.
<1>7. ASSUME NEW h \in Int, 1 <= h, h < VFIFO_SIZE * Ptaps, h % Ptaps # 0,
             x + (h - 1) * OpaTap - Round \in 0 .. window.length - 1
      PROVE  \E n \in 0 .. VFIFO_SIZE - 1, q \in 1 .. PHASE_MAX : Opens(vfifo + n, q, 0)
  <2>1. PICK n \in Int, q \in Int : n = h \div Ptaps /\ q = h % Ptaps
    BY <1>1, ModSplit
  <2>2. q \in 1 .. PHASE_MAX /\ h = Ptaps * n + q
    <3>1. q \in 0 .. Ptaps - 1 /\ h = Ptaps * n + q /\ q # 0
      BY <1>1, <1>7, <2>1, ModSplit
    <3> QED BY <1>1, <3>1
  <2>3. n \in 0 .. VFIFO_SIZE - 1
    <3>1. n * Ptaps < VFIFO_SIZE * Ptaps /\ (0 - 1) * Ptaps < n * Ptaps
      <4>1. n * Ptaps = Ptaps * n /\ Ptaps * n \in Int /\ (0 - 1) * Ptaps = -Ptaps
            /\ VFIFO_SIZE * Ptaps \in Int
        BY <1>1, <2>1
      <4> QED BY <1>1, <1>7, <2>2, <4>1
    <3>2. n < VFIFO_SIZE
      BY ONLY <1>1, <2>1, <3>1, ProductOrder
    <3>3. 0 - 1 < n
      <4>1. 0 - 1 \in Int /\ Ptaps > 0
        BY <1>1
      <4> QED BY ONLY <1>1, <2>1, <3>1, <4>1, ProductOrder
    <3> QED BY <1>1, <2>1, <3>2, <3>3
  <2>4. Past(vfifo + n, q, 0) = x + (h - 1) * OpaTap - Round
    <3> DEFINE k == (h - 1) * OpaTap - Round
    <3>1. k \in Int /\ x + k = x + (h - 1) * OpaTap - Round /\ x \in Int
      <4>1. (h - 1) * OpaTap \in Int
        BY <1>1
      <4> QED BY <1>1, <1>2, <4>1
    <3>2. x + k \in 0 .. Round - 1
      BY <1>1, <1>7, <3>1
    <3>3. (vfifo + n) * Clock + q * OpaTap + 0 * DTap
            = vfifo * Clock + 1 * OpaTap + 0 * DTap + k + 1 * Round
      <4>1. (vfifo + n) * Clock = vfifo * Clock + (n * Ptaps) * OpaTap
        BY <1>1, <2>1, GateSizes
      <4>2. (n * Ptaps) * OpaTap + q * OpaTap = h * OpaTap
        BY <1>1, <2>1, <2>2
      <4>3. h * OpaTap = (h - 1) * OpaTap + OpaTap
        BY <1>1
      <4>4. /\ vfifo * Clock \in Int /\ (n * Ptaps) * OpaTap \in Int /\ q * OpaTap \in Int
            /\ (h - 1) * OpaTap \in Int /\ 0 * DTap = 0
        BY <1>1, <2>1, <2>2, GateSizes
      <4> QED BY <1>1, <4>1, <4>2, <4>3, <4>4
    <3>4. Past(vfifo, 1, 0) + k \in 0 .. Round - 1
      BY <3>2 DEF x
    <3> HIDE DEF k
    <3>5. vfifo + n \in Int /\ q \in Int /\ 1 \in Int /\ 0 \in Int /\ vfifo \in Int
      BY <1>1, <2>1
    <3>6. Past(vfifo + n, q, 0) = Past(vfifo, 1, 0) + k
      BY ONLY FineGate, window \in Windows, <3>1, <3>3, <3>4, <3>5, PastMoves
    <3> QED BY <3>1, <3>6 DEF x
  <2>5. Opens(vfifo + n, q, 0)
    BY <1>1, <1>7, <2>4 DEF Opens
  <2> QED BY <2>2, <2>3, <2>5
<1>8. VFIFO_SIZE * Ptaps \in Int
  BY <1>1
<1>9. CASE (g + 1) % Ptaps # 0
  <2>1. g + 1 \in Int /\ 1 <= g + 1 /\ g + 1 < VFIFO_SIZE * Ptaps
    BY <1>3, <1>6, <1>8
  <2>2. x + ((g + 1) - 1) * OpaTap - Round \in 0 .. window.length - 1
    <3>1. ((g + 1) - 1) * OpaTap = g * OpaTap
      BY <1>3
    <3> QED BY <1>1, <1>2, <1>5, <3>1
  <2> QED BY <1>7, <1>9, <2>1, <2>2
<1>10. CASE (g + 1) % Ptaps = 0
  <2>1. g + 2 \in Int /\ 1 <= g + 2 /\ g + 2 < VFIFO_SIZE * Ptaps
    BY <1>3, <1>6, <1>8
  <2>2. x + ((g + 2) - 1) * OpaTap - Round \in 0 .. window.length - 1
    <3>1. (g + 2) - 1 = g + 1 /\ (g + 1) * OpaTap = g * OpaTap + OpaTap /\ g * OpaTap \in Int
      BY <1>1, <1>3, <1>4
    <3> QED BY <1>1, <1>2, <1>5, <3>1
  <2>3. (g + 2) % Ptaps # 0
    <3>1. PICK c \in Int : g + 1 = Ptaps * c + 0
      BY <1>1, <1>3, <1>10, ModSplit
    <3>2. g + 2 = c * Ptaps + 1 /\ 1 \in 0 .. Ptaps - 1 /\ Ptaps > 0
      BY <1>1, <1>3, <3>1
    <3>3. (c * Ptaps + 1) % Ptaps = 1
      BY ONLY <1>1, <3>1, <3>2, ModIs
    <3> QED BY <3>2, <3>3
  <2> QED BY <1>7, <2>1, <2>2, <2>3
<1> QED BY <1>9, <1>10

\* The first read that passes is less than a phase tap behind where the
\* window begins, two where the read between would have been at phase 0.
LEMMA BeginFound ==
  ASSUME FineGate, GateTyped, InRange, Pushed, FindBegin
  PROVE  step' = "back" /\ Begun' /\ UNCHANGED window
<1>1. /\ window \in Windows /\ vfifo \in 0 .. VFIFO_SIZE - 1 /\ vfifo \in Int
      /\ window.first \in Int
  BY DEF GateTyped, Windows
<1>2. /\ Clock \in Nat /\ Clock > 0 /\ Round \in Nat /\ Round = VFIFO_SIZE * Clock
      /\ 4 * Clock <= Round /\ VFIFO_SIZE \in Nat /\ 4 <= VFIFO_SIZE
      /\ window.length \in Nat /\ 4 * OpaTap <= window.length /\ OpaTap \in Nat /\ OpaTap > 0
      /\ PHASE_MAX \in Nat /\ PHASE_MAX >= 7 /\ Ptaps = PHASE_MAX + 1
      /\ Clock = Ptaps * OpaTap /\ DTap \in Nat
      /\ StaticTaps \in 0 .. DELAY_MAX /\ DELAY_MAX \in Nat
  BY <1>1, GateSizes, WindowSizes, GateConstants
<1> DEFINE passes(e, n, q) == q # 0 /\ Opens(vfifo + n, q, e)
           inCycle(e, n) == \E q \in 1 .. PHASE_MAX : passes(e, n, q)
           anywhere(e) == \E n \in 0 .. VFIFO_SIZE - 1 : inCycle(e, n)
<1>3. anywhere(0)
  <2>1. PICK n \in 0 .. VFIFO_SIZE - 1, q \in 1 .. PHASE_MAX : Opens(vfifo + n, q, 0)
    BY <1>1, SomeOpens
  <2>2. passes(0, n, q)
    <3>1. q # 0
      BY <1>2
    <3> QED BY <2>1, <3>1
  <2> HIDE DEF passes
  <2> QED BY <2>2
<1>4. 0 \in 0 .. StaticTaps
  BY <1>2
<1>5. PICK e \in 0 .. StaticTaps, n \in 0 .. VFIFO_SIZE - 1, q \in 1 .. PHASE_MAX :
          /\ passes(e, n, q)
          /\ NoneBefore(LAMBDA k : passes(e, n, k), 1, q)
          /\ NoneBefore(LAMBDA k : inCycle(e, k), 0, n)
          /\ NoneBefore(anywhere, 0, e)
          /\ step' = IF e = 0 THEN "back" ELSE "edge"
          /\ vfifo' = Cycle(vfifo + n) /\ phase' = q /\ delay' = e
          /\ i' = n /\ p' = q /\ d' = e
          /\ work_bgn' = n * Clock + q * OpaTap + e * DTap
          /\ work_end' = work_bgn'
  BY <1>3, <1>4, Zenon DEF FindBegin
<1>6. e = 0
  <2>1. \A m \in 0 .. e - 1 : ~anywhere(m)
    BY <1>5, Zenon DEF NoneBefore
  <2> HIDE DEF anywhere
  <2>2. e \in Int /\ e >= 0
    BY <1>2
  <2> QED BY <1>3, <2>1, <2>2
<1>7. /\ Opens(vfifo + n, q, 0)
      /\ \A k \in 1 .. q - 1 : ~passes(0, n, k)
      /\ \A k \in 0 .. n - 1 : ~inCycle(0, k)
  BY <1>5, <1>6, Zenon DEF NoneBefore
<1>8. n \in Int /\ q \in Int /\ vfifo + n \in Int /\ n >= 0 /\ q >= 1 /\ q <= PHASE_MAX
  BY <1>1, <1>2
<1>9. PICK a \in Int : a = Past(vfifo + n, q, 0) /\ a \in 0 .. window.length - 1
  <2>1. Past(vfifo + n, q, 0) \in 0 .. Round - 1
    BY ONLY FineGate, <1>1, <1>8, PastIn, 0 \in Int
  <2>2. Past(vfifo + n, q, 0) < window.length
    BY <1>7 DEF Opens
  <2> HIDE DEF Past
  <2> QED BY <1>2, <2>1, <2>2
<1>10. /\ step' = "back" /\ vfifo' = Cycle(vfifo + n) /\ i' = n /\ p' = q
       /\ work_bgn' = n * Clock + q * OpaTap /\ work_end' = work_bgn' /\ window' = window
  <2>1. n * Clock \in Int /\ q * OpaTap \in Int /\ 0 * DTap = 0
    BY <1>2, <1>8
  <2>2. work_bgn' = n * Clock + q * OpaTap + 0 * DTap
    BY <1>5, <1>6
  <2>3. window' = window
    BY DEF FindBegin
  <2> QED BY <1>5, <1>6, <2>1, <2>2, <2>3
<1>11. Here' = a
  <2>1. Past(Cycle(vfifo + n), q, 0) = Past(vfifo + n, q, 0)
    BY ONLY FineGate, <1>1, <1>8, PastCycle, 0 \in Int
  <2> QED BY <1>9, <1>10, <2>1 DEF Here, Past
<1>12. a < IF q = 1 THEN 2 * OpaTap ELSE OpaTap
  <2>1. CASE q > 1
    <3>1. q - 1 \in 1 .. q - 1 /\ q - 1 # 0
      BY <1>8, <2>1
    <3>2. ~Opens(vfifo + n, q - 1, 0)
      BY <1>7, <3>1
    <3>3. ASSUME a >= OpaTap
          PROVE  FALSE
      <4>1. a + (-1) * OpaTap \in 0 .. Round - 1 /\ (-1) * OpaTap + a < window.length
        BY <1>2, <1>9, <3>3, WindowSizes, <1>1
      <4>2. (vfifo + n) * Ptaps + (q - 1) = (vfifo + n) * Ptaps + q + (-1)
        BY <1>1, <1>2, <1>8
      <4>3. q - 1 \in Int /\ -1 \in Int
        BY <1>8
      <4>4. Past(vfifo + n, q, 0) + (-1) * OpaTap \in 0 .. Round - 1
        BY <1>9, <4>1
      <4>5. Past(vfifo + n, q - 1, 0) = Past(vfifo + n, q, 0) + (-1) * OpaTap
        BY ONLY FineGate, <1>1, <1>8, <4>2, <4>3, <4>4, PastTaps
      <4>6. Past(vfifo + n, q - 1, 0) < window.length
        BY <1>2, <1>9, <4>1, <4>5
      <4> QED BY <3>2, <4>6 DEF Opens
    <3> QED BY <1>2, <1>9, <2>1, <3>3
  <2>2. CASE q = 1
    <3>1. n # 0
      <4>1. ~Opens(vfifo, 1, 0) /\ vfifo + 0 = vfifo
        BY <1>1 DEF Pushed
      <4> QED BY <1>7, <2>2, <4>1
    <3>2. n - 1 \in 0 .. n - 1 /\ PHASE_MAX \in 1 .. PHASE_MAX /\ PHASE_MAX # 0
      BY <1>2, <1>8, <3>1
    <3>3. ~inCycle(0, n - 1)
      BY <1>7, <3>2
    <3>4. ~Opens(vfifo + (n - 1), PHASE_MAX, 0)
      BY <3>2, <3>3
    <3>5. ASSUME a >= 2 * OpaTap
          PROVE  FALSE
      <4>1. a + (-2) * OpaTap \in 0 .. Round - 1 /\ (-2) * OpaTap + a < window.length
        BY <1>1, <1>2, <1>9, <3>5, WindowSizes
      <4>2. (vfifo + (n - 1)) * Ptaps + PHASE_MAX = (vfifo + n) * Ptaps + 1 + (-2)
        <5>1. (vfifo + (n - 1)) * Ptaps = (vfifo + n) * Ptaps - Ptaps /\ (vfifo + n) * Ptaps \in Int
          BY <1>1, <1>2, <1>8
        <5> QED BY <1>2, <5>1
      <4>3. vfifo + (n - 1) \in Int /\ -2 \in Int /\ PHASE_MAX \in Int /\ 1 \in Int
        BY <1>1, <1>2, <1>8
      <4>4. Past(vfifo + n, 1, 0) + (-2) * OpaTap \in 0 .. Round - 1
        BY <1>9, <2>2, <4>1
      <4>5. Past(vfifo + (n - 1), PHASE_MAX, 0) = Past(vfifo + n, 1, 0) + (-2) * OpaTap
        BY ONLY FineGate, <1>1, <1>8, <4>2, <4>3, <4>4, PastTaps
      <4>6. Past(vfifo + (n - 1), PHASE_MAX, 0) < window.length
        BY <1>2, <1>9, <2>2, <4>1, <4>5
      <4> QED BY <3>4, <4>6 DEF Opens
    <3> QED BY <1>2, <1>9, <2>2, <3>5
  <2> QED BY <1>8, <2>1, <2>2
<1>13. (n * Clock + q * OpaTap - a - window.first) % Clock = 0
  <2> DEFINE y == (vfifo + n) * Clock + q * OpaTap + 0 * DTap - window.first
  <2>1. y \in Int /\ y = (vfifo + n) * Clock + q * OpaTap - window.first
    BY <1>1, <1>2, <1>8
  <2>2. a = y % Round
    BY <1>9 DEF Past
  <2>3. PICK w \in Int : y = Round * w + a
    <3> HIDE DEF y
    <3>0. y \in Int /\ Round \in Nat /\ Round > 0
      BY <1>2, <2>1
    <3>1. y \div Round \in Int /\ y = Round * (y \div Round) + (y % Round)
      BY ONLY <3>0, ModSplit
    <3> QED BY <2>2, <3>1
  <2>4. n * Clock + q * OpaTap - a - window.first = (w * VFIFO_SIZE - vfifo) * Clock
    <3>1. (w * VFIFO_SIZE - vfifo) * Clock = (w * VFIFO_SIZE) * Clock - vfifo * Clock
      BY <1>1, <1>2
    <3>2. (w * VFIFO_SIZE) * Clock = Round * w
      BY <1>2
    <3>3. (vfifo + n) * Clock = vfifo * Clock + n * Clock
      BY <1>1, <1>2, <1>8
    <3>4. /\ vfifo * Clock \in Int /\ n * Clock \in Int /\ q * OpaTap \in Int
          /\ Round * w \in Int
      BY <1>1, <1>2, <1>8
    <3> HIDE DEF y
    <3> QED BY <1>1, <1>9, <2>1, <2>3, <3>1, <3>2, <3>3, <3>4
  <2>5. w * VFIFO_SIZE - vfifo \in Int
    BY <1>1, <1>2
  <2>6. ((w * VFIFO_SIZE - vfifo) * Clock) % Clock = 0
    BY ONLY <1>2, <2>5, ModWhole
  <2> QED BY <2>4, <2>6
<1>14. q = 1 => ((n * Clock + q * OpaTap) - OpaTap) % Clock = 0
  <2> SUFFICES ASSUME q = 1 PROVE ((n * Clock + q * OpaTap) - OpaTap) % Clock = 0
    OBVIOUS
  <2>1. (n * Clock + q * OpaTap) - OpaTap = n * Clock
    BY <1>2, <1>8
  <2>2. (n * Clock) % Clock = 0
    BY ONLY <1>2, <1>8, ModWhole
  <2> QED BY <2>1, <2>2
<1>15. n = VFIFO_SIZE - 1 => ~Opens(Cycle(vfifo + n) + 1, 1, 0)
  <2> SUFFICES ASSUME n = VFIFO_SIZE - 1 PROVE ~Opens(Cycle(vfifo + n) + 1, 1, 0)
    OBVIOUS
  <2>1. Past(Cycle(vfifo + n) + 1, 1, 0) = Past(vfifo + n + 1, 1, 0)
    BY ONLY FineGate, <1>1, <1>8, PastRound, 0 \in Int, 1 \in Int
  <2>2. vfifo + n + 1 = vfifo + VFIFO_SIZE /\ vfifo + n + 1 \in Int
    BY <1>1, <1>2
  <2>3. (vfifo + n + 1) * Clock + 1 * OpaTap + 0 * DTap
          = vfifo * Clock + 1 * OpaTap + 0 * DTap + 0 + 1 * Round
    <3>1. (vfifo + VFIFO_SIZE) * Clock = vfifo * Clock + Round /\ vfifo * Clock \in Int
      BY <1>1, <1>2
    <3> QED BY <1>2, <2>2, <3>1
  <2>4. Past(vfifo, 1, 0) \in 0 .. Round - 1
    BY ONLY FineGate, <1>1, PastIn, 0 \in Int, 1 \in Int
  <2>5. Past(vfifo, 1, 0) + 0 \in 0 .. Round - 1 /\ Past(vfifo, 1, 0) + 0 = Past(vfifo, 1, 0)
    <3> HIDE DEF Past
    <3> QED BY <1>2, <2>4
  <2>6. Past(vfifo + n + 1, 1, 0) = Past(vfifo, 1, 0) + 0
    BY ONLY FineGate, <1>1, <2>2, <2>3, <2>5, PastMoves, 0 \in Int, 1 \in Int
  <2>7. Past(Cycle(vfifo + n) + 1, 1, 0) = Past(vfifo, 1, 0)
    BY <2>1, <2>5, <2>6
  <2> QED BY <2>7 DEF Pushed, Opens
<1>16. work_end' - Here' - window.first = n * Clock + q * OpaTap - a - window.first
  <2>1. n * Clock \in Int /\ q * OpaTap \in Int
    BY <1>2, <1>8
  <2> QED BY <1>1, <1>9, <1>10, <1>11, <2>1
<1>17. Begun'
  <2>1. i' \in 0 .. VFIFO_SIZE - 1 /\ p' \in 1 .. PHASE_MAX /\ work_bgn' = work_end'
    BY <1>10
  <2>2. Aligned(work_end - Here)'
    BY <1>10, <1>13, <1>16 DEF Aligned
  <2>3. Here' < IF p' = 1 THEN 2 * OpaTap ELSE OpaTap
    <3>1. p' = q /\ p' \in Int /\ Here' = a
      BY <1>8, <1>10, <1>11
    <3>2. CASE q = 1
      <4>1. a < 2 * OpaTap /\ p' = 1
        BY <1>12, <3>1, <3>2
      <4> QED BY <3>1, <4>1
    <3>3. CASE q # 1
      <4>1. a < OpaTap /\ p' # 1
        BY <1>12, <3>1, <3>3
      <4> QED BY <3>1, <4>1
    <3> QED BY <3>2, <3>3
  <2>4. p' = 1 => (work_bgn' - OpaTap) % Clock = 0
    <3>1. p' = q /\ work_bgn' = n * Clock + q * OpaTap
      BY <1>10
    <3> QED BY <1>14, <3>1, Zenon
  <2>5. i' = VFIFO_SIZE - 1 => ~Opens(vfifo + 1, 1, 0)'
    BY <1>10, <1>15 DEF Opens, Past
  <2> HIDE DEF Here
  <2> QED BY <2>1, <2>2, <2>3, <2>4, <2>5 DEF Begun
<1> QED BY <1>10, <1>17

-----------------------------------------------------------------------------
(* One phase back, and the edge. *)

\* The delay tap at which the edge is crossed, one phase before a read that
\* passes less than a phase tap behind it.
LEMMA EdgeNear ==
  ASSUME FineGate, window \in Windows, InRange, NEW v \in Int, NEW q \in Int,
         NEW a \in Int, a = Past(v, q, 0), 0 <= a, a < OpaTap
  PROVE  \A e \in 0 .. DELAY_MAX : e * DTap < OpaTap =>
           (Opens(v, q - 1, e) <=> a - OpaTap + e * DTap >= 0)
<1> SUFFICES ASSUME NEW e \in 0 .. DELAY_MAX, e * DTap < OpaTap
             PROVE  Opens(v, q - 1, e) <=> a - OpaTap + e * DTap >= 0
  OBVIOUS
<1>1. /\ OpaTap \in Nat /\ DTap \in Nat /\ DTap > 0 /\ Round \in Nat
      /\ window.length \in Nat /\ 4 * OpaTap <= window.length
      /\ window.length + 4 * OpaTap <= Round /\ DELAY_MAX \in Nat /\ e \in Int /\ e >= 0
  <2>1. /\ OpaTap \in Nat /\ DTap \in Nat /\ DTap > 0 /\ Round \in Nat /\ Clock \in Nat
        /\ 4 * Clock <= Round /\ 8 * OpaTap <= Clock /\ DELAY_MAX \in Nat
    BY GateSizes
  <2>2. /\ window.length \in Nat /\ 4 * OpaTap <= window.length
        /\ window.length + 2 * OpaTap + DTap <= 2 * Clock
    BY WindowSizes
  <2> QED BY <2>1, <2>2
<1>2. e * DTap \in Int /\ e * DTap >= 0 /\ (-1) * OpaTap = -OpaTap
  BY <1>1
<1>3. CASE a - OpaTap + e * DTap >= 0
  <2>1. a + (-1) * OpaTap + e * DTap \in 0 .. Round - 1
    BY <1>1, <1>2, <1>3
  <2>2. Past(v, q, 0) + (-1) * OpaTap + e * DTap \in 0 .. Round - 1
    BY <2>1
  <2>3. -1 \in Int /\ e \in Int /\ q + (-1) = q - 1
    BY <1>1
  <2>4. Past(v, q + (-1), e) = Past(v, q, 0) + (-1) * OpaTap + e * DTap
    BY ONLY FineGate, window \in Windows, <2>2, <2>3, PastDelays, v \in Int, q \in Int
  <2>5. Past(v, q - 1, e) = a + (-1) * OpaTap + e * DTap
    BY <2>3, <2>4
  <2>6. a + (-1) * OpaTap + e * DTap < window.length
    BY <1>1, <1>2
  <2>7. Opens(v, q - 1, e)
    BY <2>5, <2>6 DEF Opens
  <2> QED BY <1>3, <2>7
<1>4. CASE a - OpaTap + e * DTap < 0
  <2> DEFINE k == e * DTap - OpaTap + Round
  <2>1. k \in Int /\ a + k \in 0 .. Round - 1 /\ a + k >= window.length
    BY <1>1, <1>2, <1>4
  <2>0. PICK w \in Int : w = -1
    OBVIOUS
  <2>2. v * Clock + (q - 1) * OpaTap + e * DTap
          = v * Clock + q * OpaTap + 0 * DTap + k + w * Round
    <3>1. (q - 1) * OpaTap = q * OpaTap - OpaTap /\ q * OpaTap \in Int
      BY <1>1
    <3>2. v * Clock \in Int /\ 0 * DTap = 0 /\ w * Round = -Round
      BY <1>1, <2>0, GateSizes
    <3> QED BY <1>1, <1>2, <3>1, <3>2
  <2> HIDE DEF k
  <2>3. q - 1 \in Int /\ k \in Int /\ e \in Int /\ 0 \in Int /\ Past(v, q, 0) + k \in 0 .. Round - 1
    BY <1>1, <2>1
  <2>4. Past(v, q - 1, e) = Past(v, q, 0) + k
    BY ONLY FineGate, window \in Windows, <2>2, <2>3, PastMoves, w \in Int, v \in Int, q \in Int
  <2>5. ~(Past(v, q - 1, e) < window.length)
    BY <1>1, <2>1, <2>4
  <2>6. ~Opens(v, q - 1, e)
    BY <2>5 DEF Opens
  <2>7. ~(a - OpaTap + e * DTap >= 0)
    BY <1>1, <1>2, <1>4
  <2> QED BY <2>6, <2>7
<1> QED BY <1>1, <1>2, <1>3, <1>4

\* The edge is crossed within a delay tap.
LEMMA EdgeCrossed ==
  ASSUME FineGate, window \in Windows, InRange, NEW v \in Int, NEW q \in Int,
         NEW a \in Int, a = Past(v, q, 0), 0 <= a, a < OpaTap
  PROVE  /\ (\A e \in 0 .. DELAY_MAX : ~(e * DTap < OpaTap /\ Opens(v, q - 1, e)))
              => a < DTap
         /\ \A e \in 0 .. DELAY_MAX :
              /\ e * DTap < OpaTap /\ Opens(v, q - 1, e)
              /\ \A m \in 0 .. e - 1 : ~(m * DTap < OpaTap /\ Opens(v, q - 1, m))
              => a - OpaTap + e * DTap \in 0 .. DTap - 1
<1>1. /\ OpaTap \in Nat /\ DTap \in Nat /\ DTap > 0 /\ DELAY_MAX \in Nat
      /\ OpaTap + DTap <= DELAY_MAX * DTap
  BY GateSizes
<1>2. \A e \in 0 .. DELAY_MAX : e * DTap < OpaTap =>
           (Opens(v, q - 1, e) <=> a - OpaTap + e * DTap >= 0)
  BY EdgeNear
<1>3. ASSUME a >= DTap
      PROVE  \E e \in 0 .. DELAY_MAX : e * DTap < OpaTap /\ Opens(v, q - 1, e)
  <2> DEFINE e == (OpaTap - a + DTap - 1) \div DTap
  <2>1. /\ e \in Int /\ DTap * e <= OpaTap - a + DTap - 1
        /\ OpaTap - a + DTap - 1 < DTap * e + DTap
    BY <1>1, DivIs
  <2> HIDE DEF e
  <2>2. e * DTap = DTap * e /\ e * DTap \in Int
    BY <1>1, <2>1
  <2>3. e * DTap < OpaTap /\ a - OpaTap + e * DTap >= 0 /\ e * DTap > 0
    BY <1>1, <1>3, <2>1, <2>2
  <2>4. e \in 0 .. DELAY_MAX
    <3>1. 0 * DTap < e * DTap /\ e * DTap < DELAY_MAX * DTap /\ 0 \in Int /\ DELAY_MAX \in Int
      <4>1. 0 * DTap = 0 /\ DELAY_MAX * DTap \in Int
        BY <1>1
      <4> QED BY <1>1, <2>2, <2>3, <4>1
    <3>2. 0 < e /\ e < DELAY_MAX
      BY ONLY <1>1, <2>1, <3>1, ProductOrder
    <3> QED BY <1>1, <2>1, <3>2
  <2> QED BY <1>2, <2>3, <2>4
<1>4. ASSUME NEW e \in 0 .. DELAY_MAX,
             e * DTap < OpaTap /\ Opens(v, q - 1, e),
             \A m \in 0 .. e - 1 : ~(m * DTap < OpaTap /\ Opens(v, q - 1, m))
      PROVE  a - OpaTap + e * DTap \in 0 .. DTap - 1
  <2>1. a - OpaTap + e * DTap >= 0
    BY <1>2, <1>4
  <2>2. e \in Int /\ e >= 1
    <3>1. e # 0
      BY <1>1, <2>1
    <3> QED BY <1>1, <3>1
  <2>3. (e - 1) * DTap = e * DTap - DTap /\ e * DTap \in Int
    BY <1>1, <2>2
  <2>4. e - 1 \in 0 .. e - 1 /\ e - 1 \in 0 .. DELAY_MAX /\ (e - 1) * DTap < OpaTap
    BY <1>1, <1>4, <2>2, <2>3
  <2>5. ~Opens(v, q - 1, e - 1)
    BY <1>4, <2>4
  <2>6. ~(a - OpaTap + (e - 1) * DTap >= 0)
    BY <1>2, <2>4, <2>5
  <2> QED BY <1>1, <2>1, <2>3, <2>6
<1>5. (\A e \in 0 .. DELAY_MAX : ~(e * DTap < OpaTap /\ Opens(v, q - 1, e))) => a < DTap
  BY <1>1, <1>3
<1>6. \A e \in 0 .. DELAY_MAX :
              /\ e * DTap < OpaTap /\ Opens(v, q - 1, e)
              /\ \A m \in 0 .. e - 1 : ~(m * DTap < OpaTap /\ Opens(v, q - 1, m))
              => a - OpaTap + e * DTap \in 0 .. DTap - 1
  BY <1>4
<1> QED BY <1>5, <1>6

\* The beginning is known to a delay tap, or as before; the phase goes on
\* to one behind it.
LEMMA BackedOff ==
  ASSUME FineGate, GateTyped, InRange, Begun, BackOff
  PROVE  step' = "end" /\ Backed' /\ UNCHANGED window
<1> DEFINE a == Here
           q == IF p = 1 THEN 1 ELSE p - 1
           from == IF p = 1 THEN work_bgn ELSE work_bgn - OpaTap
           early(e) == from + e * DTap < work_bgn
           passes(e) == early(e) /\ Opens(vfifo, q, e)
<1>1. /\ window \in Windows /\ vfifo \in 0 .. VFIFO_SIZE - 1 /\ vfifo \in Int
      /\ window.first \in Int /\ work_bgn \in Int /\ work_end \in Int
      /\ i \in 0 .. VFIFO_SIZE - 1 /\ p \in 1 .. PHASE_MAX /\ work_bgn = work_end
  BY DEF GateTyped, Windows, Begun
<1>2. /\ Clock \in Nat /\ Round \in Nat /\ 4 * Clock <= Round /\ VFIFO_SIZE \in Nat
      /\ window.length \in Nat /\ 4 * OpaTap <= window.length /\ OpaTap \in Nat /\ OpaTap > 0
      /\ window.length < 2 * Clock /\ 8 * OpaTap <= Clock
      /\ PHASE_MAX \in Nat /\ PHASE_MAX >= 7 /\ Ptaps = PHASE_MAX + 1
      /\ DTap \in Nat /\ DTap > 0 /\ DTap < OpaTap /\ DELAY_MAX \in Nat
  BY <1>1, GateSizes, WindowSizes
<1>3. a \in 0 .. Round - 1 /\ a = Past(vfifo, p, 0) /\ p \in Int
  <2>1. p \in Int
    BY <1>1
  <2>2. Past(vfifo, p, 0) \in 0 .. Round - 1
    BY ONLY FineGate, <1>1, <2>1, PastIn, 0 \in Int
  <2> QED BY <2>1, <2>2 DEF Here
<1>4. /\ Aligned(work_end - a) /\ (p = 1 => (work_bgn - OpaTap) % Clock = 0)
      /\ i = VFIFO_SIZE - 1 => ~Opens(vfifo + 1, 1, 0)
  BY DEF Begun
<1>5. (p = 1 => a < 2 * OpaTap) /\ (p # 1 => a < OpaTap)
  <2>1. a < IF p = 1 THEN 2 * OpaTap ELSE OpaTap
    BY DEF Begun
  <2> HIDE DEF a
  <2> QED BY <2>1, <1>3
<1> HIDE DEF a
<1>6. /\ step' = "end" /\ window' = window /\ i' = i /\ work_end' = work_end + OpaTap
      /\ p' = (q + 2) % Ptaps /\ vfifo' = Cycle(vfifo + (q + 2) \div Ptaps)
      /\ \/ (\A e \in 0 .. DELAY_MAX : ~passes(e)) /\ work_bgn' = work_bgn
         \/ \E e \in 0 .. DELAY_MAX : Meets(passes, 0, e) /\ work_bgn' = from + e * DTap
  BY Zenon DEF BackOff
\* Where the phase goes on.
<1>7. ASSUME NEW n \in Int, q + 2 = p + n, n \in {1, 2}
      PROVE  Here' = a + n * OpaTap
  <2>1. /\ a + n * OpaTap \in 0 .. Round - 1 /\ Past(vfifo, p, 0) + n * OpaTap \in 0 .. Round - 1
    <3>1. n * OpaTap \in 0 .. 2 * OpaTap
      BY <1>2, <1>7
    <3>2. a + n * OpaTap \in 0 .. Round - 1
      BY <1>2, <1>3, <1>5, <3>1
    <3> QED BY <1>3, <3>2
  <2>2. Past(vfifo + (p + n) \div Ptaps, (p + n) % Ptaps, 0) = Past(vfifo, p, 0) + n * OpaTap
    BY ONLY FineGate, <1>1, <1>3, <1>7, <2>1, TapsOn
  <2>3. PICK c \in Int, r \in Int : c = (p + n) \div Ptaps /\ r = (p + n) % Ptaps
    BY <1>2, <1>3
  <2>4. Past(Cycle(vfifo + c), r, 0) = Past(vfifo + c, r, 0)
    <3>1. vfifo + c \in Int
      BY <1>1
    <3> QED BY ONLY FineGate, <1>1, <3>1, <2>3, PastCycle, 0 \in Int
  <2>5. vfifo' = Cycle(vfifo + c) /\ p' = r
    BY <1>6, <1>7, <2>3
  <2>6. Here' = Past(Cycle(vfifo + c), r, 0)
    BY <1>6, <2>5 DEF Here, Past
  <2> QED BY <1>3, <2>2, <2>3, <2>4, <2>6
<1>8. \A x \in Int : Aligned(x)' <=> Aligned(x)
  BY <1>6 DEF Aligned
<1>9. CASE p = 1
  <2>1. q = 1 /\ from = work_bgn /\ q + 2 = p + 2 /\ q + 2 = 3
    BY <1>9
  <2>2. \A e \in 0 .. DELAY_MAX : ~passes(e)
    <3> SUFFICES ASSUME NEW e \in 0 .. DELAY_MAX PROVE ~early(e)
      BY Zenon
    <3>1. e * DTap >= 0 /\ e * DTap \in Int
      BY <1>2
    <3> QED BY <1>1, <2>1, <3>1
  <2>3. work_bgn' = work_bgn
    BY <1>6, <2>2, Zenon DEF Meets
  <2>4. 3 \div Ptaps = 0 /\ 3 % Ptaps = 3
    BY <1>2
  <2>5. p' = 3 /\ vfifo' = vfifo
    <3>1. vfifo + 0 = vfifo /\ Cycle(vfifo) = vfifo
      BY <1>1, <1>2 DEF Cycle
    <3> QED BY <1>6, <2>1, <2>4, <3>1
  <2>6. Here' = a + 2 * OpaTap
    BY <1>7, <2>1
  <2>7. work_end' + OpaTap - Here' = work_end - a
    BY <1>1, <1>2, <1>3, <1>6, <2>6
  <2>8. Late(work_end + OpaTap - Here)'
    <3>1. work_end - a \in Int /\ work_bgn' - (work_end - a) \in 0 .. 2 * OpaTap - 1
      BY <1>1, <1>2, <1>3, <1>5, <1>9, <2>3
    <3>2. Aligned(work_end + OpaTap - Here)'
      BY <1>4, <1>6, <2>7 DEF Aligned
    <3>3. work_bgn' - (work_end' + OpaTap - Here') \in 0 .. 2 * OpaTap - 1
      BY <2>7, <3>1
    <3>4. (work_bgn' - OpaTap) % Clock = 0
      BY <1>4, <1>9, <2>3
    <3> QED BY <3>2, <3>3, <3>4 DEF Late
  <2>9. Backed'
    <3>1. i' \in 0 .. VFIFO_SIZE - 1 /\ p' \in 0 .. PHASE_MAX /\ p' # 0
      BY <1>1, <1>2, <1>6, <2>5
    <3>2. Here' \in OpaTap .. 4 * OpaTap - 1
      BY <1>2, <1>3, <1>5, <1>9, <2>6
    <3>3. i' = VFIFO_SIZE - 1 => ~Opens(IF p = 0 THEN vfifo ELSE vfifo + 1, 1, 0)'
      <4>1. (IF p = 0 THEN vfifo ELSE vfifo + 1)' = vfifo + 1
        BY <2>5, <3>1
      <4> QED BY <1>4, <1>6, <4>1 DEF Opens, Past
    <3>4. Bracketed'
      BY <2>8 DEF Bracketed
    <3> QED BY <3>1, <3>2, <3>3, <3>4 DEF Backed
  <2> QED BY <1>6, <2>9
<1>10. CASE p # 1
  <2>1. q = p - 1 /\ from = work_bgn - OpaTap /\ q + 2 = p + 1
    BY <1>3, <1>10
  <2>2. \A e \in 0 .. DELAY_MAX :
          passes(e) <=> (e * DTap < OpaTap /\ Opens(vfifo, p - 1, e))
    <3> SUFFICES ASSUME NEW e \in 0 .. DELAY_MAX PROVE early(e) <=> e * DTap < OpaTap
      BY <2>1, Zenon
    <3>1. e * DTap \in Int
      BY <1>2
    <3> QED BY <1>1, <1>2, <2>1, <3>1
  <2>3. /\ (\A e \in 0 .. DELAY_MAX : ~(e * DTap < OpaTap /\ Opens(vfifo, p - 1, e)))
              => a < DTap
        /\ \A e \in 0 .. DELAY_MAX :
              /\ e * DTap < OpaTap /\ Opens(vfifo, p - 1, e)
              /\ \A m \in 0 .. e - 1 : ~(m * DTap < OpaTap /\ Opens(vfifo, p - 1, m))
              => a - OpaTap + e * DTap \in 0 .. DTap - 1
    <3>1. a \in Int /\ 0 <= a /\ a < OpaTap
      BY <1>2, <1>3, <1>5, <1>10
    <3> QED BY ONLY FineGate, InRange, <1>1, <1>3, <3>1, EdgeCrossed
  <2>4. work_bgn' - (work_end - a) \in 0 .. DTap - 1
    <3>1. CASE (\A e \in 0 .. DELAY_MAX : ~passes(e)) /\ work_bgn' = work_bgn
      <4>1. a < DTap
        BY <2>2, <2>3, <3>1, Zenon
      <4> QED BY <1>1, <1>2, <1>3, <3>1, <4>1
    <3>2. CASE \E e \in 0 .. DELAY_MAX : Meets(passes, 0, e) /\ work_bgn' = from + e * DTap
      <4>1. PICK e \in 0 .. DELAY_MAX : Meets(passes, 0, e) /\ work_bgn' = from + e * DTap
        BY <3>2
      <4>2. passes(e) /\ \A m \in 0 .. e - 1 : ~passes(m)
        BY <4>1, Zenon DEF Meets, NoneBefore
      <4>3. \A m \in 0 .. e - 1 : m \in 0 .. DELAY_MAX
        BY <1>2
      <4>4. a - OpaTap + e * DTap \in 0 .. DTap - 1
        <5> HIDE DEF passes
        <5>1. \A m \in 0 .. e - 1 : ~(m * DTap < OpaTap /\ Opens(vfifo, p - 1, m))
          BY <2>2, <4>2, <4>3, Zenon
        <5>2. e * DTap < OpaTap /\ Opens(vfifo, p - 1, e)
          BY <2>2, <4>2, Zenon
        <5> QED BY <2>3, <5>1, <5>2, Zenon
      <4>5. e * DTap \in Int
        BY <1>2
      <4>6. work_bgn' - (work_end - a) = a - OpaTap + e * DTap
        BY <1>1, <1>2, <1>3, <2>1, <4>1, <4>5
      <4> QED BY <4>4, <4>6
    <3> QED BY <1>6, <3>1, <3>2
  <2>5. Here' = a + OpaTap
    <3>1. Here' = a + 1 * OpaTap
      BY <1>7, <2>1
    <3> QED BY <1>2, <1>3, <3>1
  <2>6. work_end' - Here' = work_end - a
    BY <1>1, <1>2, <1>3, <1>6, <2>5
  <2>7. Sharp(work_end - Here)'
    <3>1. Aligned(work_end - Here)'
      BY <1>4, <1>6, <2>6 DEF Aligned
    <3>2. work_bgn' - (work_end' - Here') \in 0 .. DTap - 1
      BY <2>4, <2>6
    <3> QED BY <3>1, <3>2 DEF Sharp
  <2>8. p' \in 0 .. PHASE_MAX
    BY <1>2, <1>3, <1>6, <2>1
  <2>9. i' = VFIFO_SIZE - 1 => ~Opens(IF p = 0 THEN vfifo ELSE vfifo + 1, 1, 0)'
    <3>1. CASE p = PHASE_MAX
      <4>1. (p + 1) % Ptaps = 0 /\ (p + 1) \div Ptaps = 1
        BY <1>2, <3>1
      <4>2. p' = 0 /\ vfifo' = Cycle(vfifo + 1)
        BY <1>6, <2>1, <4>1
      <4>3. Past(Cycle(vfifo + 1), 1, 0) = Past(vfifo + 1, 1, 0)
        <5>1. vfifo + 1 \in Int
          BY <1>1
        <5> QED BY ONLY FineGate, <1>1, <5>1, PastCycle, 0 \in Int, 1 \in Int
      <4>4. (IF p = 0 THEN vfifo ELSE vfifo + 1)' = Cycle(vfifo + 1)
        BY <4>2
      <4> QED BY <1>4, <1>6, <4>3, <4>4 DEF Opens, Past
    <3>2. CASE p # PHASE_MAX
      <4>1. (p + 1) % Ptaps = p + 1 /\ (p + 1) \div Ptaps = 0
        BY <1>1, <1>2, <3>2
      <4>2. p' = p + 1 /\ p' # 0 /\ vfifo' = vfifo
        <5>1. vfifo + 0 = vfifo /\ Cycle(vfifo) = vfifo /\ p + 1 # 0
          BY <1>1, <1>2 DEF Cycle
        <5> QED BY <1>6, <2>1, <4>1, <5>1
      <4>3. (IF p = 0 THEN vfifo ELSE vfifo + 1)' = vfifo + 1
        BY <4>2
      <4> QED BY <1>4, <1>6, <4>3 DEF Opens, Past
    <3> QED BY <3>1, <3>2
  <2>10. Backed'
    <3>1. Here' \in OpaTap .. 4 * OpaTap - 1
      BY <1>2, <1>3, <1>5, <1>10, <2>5
    <3>2. Bracketed'
      BY <2>7 DEF Bracketed
    <3>3. i' \in 0 .. VFIFO_SIZE - 1
      BY <1>1, <1>6
    <3> QED BY <2>8, <2>9, <3>1, <3>2, <3>3 DEF Backed
  <2> QED BY <1>6, <2>10
<1> QED BY <1>9, <1>10

-----------------------------------------------------------------------------
(* On to the end of the window. *)

LEMMA ModBack ==
  ASSUME NEW n \in Nat, n > 0, NEW x \in Int
  PROVE  (x - 1) % n = IF x % n = 0 THEN n - 1 ELSE (x % n) - 1
<1>1. PICK m \in Int, r \in 0 .. n - 1 : x = m * n + r /\ r = x % n
  <2>1. x \div n \in Int /\ x % n \in 0 .. n - 1 /\ x = n * (x \div n) + (x % n)
    BY ModSplit
  <2>2. x = (x \div n) * n + (x % n)
    BY <2>1
  <2> QED BY <2>1, <2>2
<1>2. CASE r = 0
  <2>1. PICK k \in Int : k = m - 1
    OBVIOUS
  <2>2. PICK s \in 0 .. n - 1 : s = n - 1
    OBVIOUS
  <2>3. x - 1 = k * n + s
    BY <1>1, <1>2, <2>1, <2>2
  <2>4. (k * n + s) % n = s
    BY ONLY n \in Nat, n > 0, k \in Int, s \in 0 .. n - 1, ModIs
  <2> QED BY <1>1, <1>2, <2>2, <2>3, <2>4
<1>3. CASE r # 0
  <2>1. PICK s \in 0 .. n - 1 : s = r - 1
    BY <1>3
  <2>2. x - 1 = m * n + s
    BY <1>1, <2>1
  <2>3. (m * n + s) % n = s
    BY ONLY n \in Nat, n > 0, m \in Int, s \in 0 .. n - 1, ModIs
  <2> QED BY <1>1, <1>3, <2>1, <2>2, <2>3
<1> QED BY <1>2, <1>3

\* The last phase tap that reads is found, or the one before if it is
\* followed by phase 0.
LEMMA EndFound ==
  ASSUME FineGate, GateTyped, InRange, Backed, FindEnd
  PROVE  step' = "edge" /\ AtEdge' /\ UNCHANGED window
<1> DEFINE a == Here
           L == window.length
           q(n) == (p + n) % Ptaps
           v(n) == vfifo + (p + n) \div Ptaps
           fails(n) == q(n) # 0 /\ ~Opens(v(n), q(n), 0)
           last == (VFIFO_SIZE + 1 - i) * Ptaps - p - 1
<1>1. /\ window \in Windows /\ vfifo \in 0 .. VFIFO_SIZE - 1 /\ vfifo \in Int
      /\ work_bgn \in Int /\ work_end \in Int
      /\ i \in 0 .. VFIFO_SIZE - 1 /\ p \in 0 .. PHASE_MAX
  BY DEF GateTyped, Backed
<1>2. /\ Clock \in Nat /\ Round \in Nat /\ 4 * Clock <= Round /\ VFIFO_SIZE \in Nat
      /\ VFIFO_SIZE >= 4 /\ L \in Nat /\ 4 * OpaTap <= L /\ OpaTap \in Nat /\ OpaTap > 0
      /\ L + 2 * OpaTap + DTap <= 2 * Clock /\ 8 * OpaTap <= Clock /\ Clock = Ptaps * OpaTap
      /\ PHASE_MAX \in Nat /\ PHASE_MAX >= 7 /\ Ptaps = PHASE_MAX + 1 /\ Ptaps \in Nat
      /\ DTap \in Nat /\ DTap > 0 /\ DTap < OpaTap
  BY <1>1, GateSizes, WindowSizes
<1>3. a \in OpaTap .. 4 * OpaTap - 1 /\ a = Past(vfifo, p, 0) /\ p \in Int /\ a < L
  <2>1. Here \in OpaTap .. 4 * OpaTap - 1
    BY DEF Backed
  <2>2. Here < L
    BY <1>2, <2>1
  <2> QED BY <1>1, <2>1, <2>2 DEF Here
<1>4. i = VFIFO_SIZE - 1 => ~Opens(IF p = 0 THEN vfifo ELSE vfifo + 1, 1, 0)
  BY DEF Backed
<1> HIDE DEF a, L
<1>5. \A n \in Int : q(n) \in 0 .. PHASE_MAX /\ v(n) \in Int
  BY <1>1, <1>2, <1>3
<1>6. \A n \in Int : a + n * OpaTap \in 0 .. Round - 1 => Past(v(n), q(n), 0) = a + n * OpaTap
  <2> SUFFICES ASSUME NEW n \in Int, a + n * OpaTap \in 0 .. Round - 1
               PROVE  Past(v(n), q(n), 0) = a + n * OpaTap
    OBVIOUS
  <2>1. Past(vfifo, p, 0) + n * OpaTap \in 0 .. Round - 1
    BY <1>3
  <2>2. Past(vfifo + (p + n) \div Ptaps, (p + n) % Ptaps, 0) = Past(vfifo, p, 0) + n * OpaTap
    BY ONLY FineGate, <1>1, <1>3, <2>1, TapsOn, n \in Int
  <2> QED BY <1>3, <2>2
<1>7. \A n \in Int : q(n - 1) = IF q(n) = 0 THEN PHASE_MAX ELSE q(n) - 1
  <2> SUFFICES ASSUME NEW n \in Int PROVE q(n - 1) = IF q(n) = 0 THEN PHASE_MAX ELSE q(n) - 1
    OBVIOUS
  <2>1. PICK x \in Int : x = p + n
    BY <1>3
  <2>2. (x - 1) % Ptaps = IF x % Ptaps = 0 THEN Ptaps - 1 ELSE (x % Ptaps) - 1
    <3>1. Ptaps > 0
      BY <1>2
    <3> QED BY <1>2, <3>1, ModBack
  <2>3. p + (n - 1) = x - 1 /\ PHASE_MAX = Ptaps - 1
    BY <1>2, <1>3, <2>1
  <2> QED BY <2>1, <2>2, <2>3
<1> HIDE DEF q, v
<1>8. \A n \in Int : a + n * OpaTap \in 0 .. Round - 1 =>
        (fails(n) <=> q(n) # 0 /\ a + n * OpaTap >= L)
  <2> SUFFICES ASSUME NEW n \in Int, a + n * OpaTap \in 0 .. Round - 1
               PROVE  Opens(v(n), q(n), 0) <=> ~(a + n * OpaTap >= L)
    BY Zenon
  <2>1. Past(v(n), q(n), 0) = a + n * OpaTap
    BY <1>6
  <2>2. Opens(v(n), q(n), 0) <=> a + n * OpaTap < L
    BY <2>1 DEF Opens, L
  <2>3. a + n * OpaTap \in Int
    BY <1>2, <1>3
  <2> QED BY <1>2, <2>2, <2>3
<1>9. ~fails(0)
  <2>1. a + 0 * OpaTap = a /\ a \in 0 .. Round - 1
    BY <1>2, <1>3
  <2>2. a + 0 * OpaTap \in 0 .. Round - 1 /\ ~(a + 0 * OpaTap >= L)
    BY <1>2, <1>3, <2>1
  <2> HIDE DEF fails
  <2> QED BY <1>8, <2>2
\* n is where reads fail by their place, n or n + 1 is not phase 0.
<1>10. PICK m \in Int : /\ m >= 1 /\ m + 1 <= 2 * Ptaps - 2
                        /\ a + m * OpaTap >= L /\ a + m * OpaTap < L + OpaTap
  <2> DEFINE m == (L - a + OpaTap - 1) \div OpaTap
  <2>1. /\ m \in Int /\ OpaTap * m <= L - a + OpaTap - 1
        /\ L - a + OpaTap - 1 < OpaTap * m + OpaTap
    BY <1>2, <1>3, DivIs
  <2> HIDE DEF m
  <2>2. m * OpaTap = OpaTap * m
    BY <1>2, <2>1
  <2>3. m >= 1
    <3>1. 0 * OpaTap < m * OpaTap /\ 0 \in Int
      BY <1>2, <1>3, <2>1, <2>2
    <3>2. 0 < m
      BY ONLY <1>2, <2>1, <3>1, ProductOrder
    <3> QED BY <2>1, <3>2
  <2>4. m + 1 <= 2 * Ptaps - 2
    <3>1. (2 * Ptaps - 2) * OpaTap = 2 * Clock - 2 * OpaTap
      BY <1>2
    <3>2. m * OpaTap < (2 * Ptaps - 2) * OpaTap
      BY <1>2, <1>3, <2>1, <2>2, <3>1
    <3>3. 2 * Ptaps - 2 \in Int
      BY <1>2
    <3>4. m < 2 * Ptaps - 2
      BY ONLY <1>2, <2>1, <3>2, <3>3, ProductOrder
    <3> QED BY <2>1, <3>3, <3>4
  <2>5. a + m * OpaTap >= L /\ a + m * OpaTap < L + OpaTap
    BY <1>2, <1>3, <2>1, <2>2
  <2> QED BY <2>1, <2>3, <2>4, <2>5
<1>11. PICK t \in {m, m + 1} : fails(t)
  <2>1. /\ a + m * OpaTap \in 0 .. Round - 1 /\ (m + 1) * OpaTap = m * OpaTap + OpaTap
        /\ a + (m + 1) * OpaTap \in 0 .. Round - 1 /\ a + (m + 1) * OpaTap >= L /\ m + 1 \in Int
    <3>1. (m + 1) * OpaTap = m * OpaTap + OpaTap /\ m * OpaTap \in Int
      BY <1>2
    <3> QED BY <1>2, <1>3, <1>10, <3>1
  <2>2. q(m) # 0 \/ q(m + 1) # 0
    <3>1. q((m + 1) - 1) = IF q(m + 1) = 0 THEN PHASE_MAX ELSE q(m + 1) - 1
      BY <1>7
    <3>2. (m + 1) - 1 = m
      OBVIOUS
    <3> QED BY <1>2, <3>1, <3>2
  <2> HIDE DEF fails
  <2>3. (q(m) # 0 => fails(m)) /\ (q(m + 1) # 0 => fails(m + 1))
    BY <1>8, <1>10, <2>1
  <2> QED BY <2>2, <2>3
<1>12. t \in Int /\ t >= 1 /\ t <= 2 * Ptaps - 2
  BY <1>2, <1>10, <1>11
<1>13. last \in Int /\ \E n \in 1 .. last : fails(n)
  <2>0. last \in Int
    BY <1>1, <1>2, <1>3
  <2>1. CASE i <= VFIFO_SIZE - 2
    <3>1. (VFIFO_SIZE + 1 - i) * Ptaps >= 3 * Ptaps
      BY <1>1, <1>2, <2>1
    <3>2. last >= 2 * Ptaps
      <4>1. (VFIFO_SIZE + 1 - i) * Ptaps \in Int
        BY <1>1, <1>2
      <4> QED BY <1>1, <1>2, <3>1, <4>1
    <3> HIDE DEF last, fails
    <3>3. t \in 1 .. last
      BY <1>2, <1>12, <2>0, <3>2
    <3> QED BY <1>11, <2>0, <3>3
  <2>2. CASE i = VFIFO_SIZE - 1
    <3>1. last = 2 * Ptaps - p - 1
      BY <1>2, <1>3, <2>2
    <3>2. CASE p = 0
      <4>1. q(1) = 1 /\ v(1) = vfifo
        <5>1. (0 + 1) % Ptaps = 1 /\ (0 + 1) \div Ptaps = 0
          BY <1>2
        <5> QED BY <1>1, <3>2, <5>1 DEF q, v
      <4>2. ~Opens(vfifo, 1, 0)
        BY <1>4, <2>2, <3>2
      <4>3. fails(1)
        BY <4>1, <4>2
      <4> HIDE DEF last, fails
      <4>4. 1 \in 1 .. last
        BY <1>2, <2>0, <3>1, <3>2
      <4> QED BY <2>0, <4>3, <4>4
    <3>3. CASE p # 0
      <4> DEFINE n == Ptaps + 1 - p
      <4>1. q(n) = 1 /\ v(n) = vfifo + 1
        <5>1. (Ptaps + 1) % Ptaps = 1 /\ (Ptaps + 1) \div Ptaps = 1
          <6>1. Ptaps + 1 = 1 * Ptaps + 1 /\ 1 \in 0 .. Ptaps - 1 /\ 1 \in Int /\ Ptaps > 0
            BY <1>2
          <6>2. (1 * Ptaps + 1) % Ptaps = 1
            BY ONLY <1>2, <6>1, ModIs
          <6> QED BY <1>2, <6>1, <6>2
        <5>2. p + n = Ptaps + 1
          BY <1>2, <1>3
        <5> QED BY <5>1, <5>2 DEF q, v
      <4>2. ~Opens(vfifo + 1, 1, 0)
        BY <1>4, <2>2, <3>3
      <4>3. fails(n)
        <5> HIDE DEF n
        <5> QED BY <4>1, <4>2
      <4> HIDE DEF last, fails
      <4>4. n \in 1 .. last
        BY <1>1, <1>2, <1>3, <2>0, <3>1, <3>3
      <4> QED BY <2>0, <4>3, <4>4
    <3> QED BY <3>2, <3>3
  <2> HIDE DEF last
  <2> QED BY <1>1, <1>2, <2>0, <2>1, <2>2
<1>14. PICK n \in 1 .. last :
          /\ Meets(fails, 1, n)
          /\ step' = "edge"
          /\ IF q(n) = 1
             THEN /\ p' = PHASE_MAX /\ vfifo' = Cycle(v(n) + VFIFO_SIZE - 1)
                  /\ work_end' = work_end + (n - 2) * OpaTap
             ELSE /\ p' = q(n) - 1 /\ vfifo' = Cycle(v(n))
                  /\ work_end' = work_end + (n - 1) * OpaTap
          /\ d' = 0
  <2>1. \/ \A n \in 1 .. last : ~fails(n)
        \/ \E n \in 1 .. last :
          /\ Meets(fails, 1, n)
          /\ step' = "edge"
          /\ IF q(n) = 1
             THEN /\ p' = PHASE_MAX /\ vfifo' = Cycle(v(n) + VFIFO_SIZE - 1)
                  /\ work_end' = work_end + (n - 2) * OpaTap
             ELSE /\ p' = q(n) - 1 /\ vfifo' = Cycle(v(n))
                  /\ work_end' = work_end + (n - 1) * OpaTap
          /\ d' = 0
    BY Zenon DEF FindEnd, LastTap, q, v
  <2> QED BY <1>13, <2>1, Zenon
<1>15. work_bgn' = work_bgn /\ window' = window
  <2>1. work_bgn' = IF fails(0) THEN work_end ELSE work_bgn
    BY Zenon DEF FindEnd, q, v
  <2>2. window' = window
    BY DEF FindEnd
  <2> HIDE DEF fails
  <2> QED BY <1>9, <2>1, <2>2
<1>16. fails(n) /\ (\A k \in 1 .. n - 1 : ~fails(k)) /\ n \in Int /\ n >= 1
  <2>1. fails(n) /\ \A k \in 1 .. n - 1 : ~fails(k)
    BY <1>14, Zenon DEF Meets, NoneBefore
  <2>2. n \in Int /\ n >= 1
    BY <1>13
  <2> HIDE DEF fails
  <2> QED BY <2>1, <2>2
<1>17. q(n) # 0
  BY <1>16
<1> HIDE DEF fails
<1>18. n <= m + 1
  <2>1. n <= t
    <3> SUFFICES ASSUME n > t PROVE FALSE
      BY <1>12, <1>16
    <3>1. t \in 1 .. n - 1
      BY <1>12, <1>16
    <3> QED BY <1>11, <1>16, <3>1
  <2> QED BY <1>11, <1>12, <1>16, <2>1
\* Places of the reads made.
<1>19. \A k \in Int : k >= -1 /\ k <= n => /\ k * OpaTap \in Int
                                           /\ a + k * OpaTap \in 0 .. Round - 1
  <2> SUFFICES ASSUME NEW k \in Int, k >= -1, k <= n
               PROVE  k * OpaTap \in Int /\ a + k * OpaTap \in 0 .. Round - 1
    OBVIOUS
  <2>1. (m + 1) * OpaTap = m * OpaTap + OpaTap /\ m * OpaTap \in Int /\ k * OpaTap \in Int
    BY <1>2
  <2>2. k * OpaTap <= (m + 1) * OpaTap
    <3>1. PICK j \in Nat : m + 1 = k + j
      <4>1. m + 1 - k \in Nat /\ m + 1 = k + (m + 1 - k)
        BY <1>16, <1>18
      <4> QED BY <4>1
    <3>2. (k + j) * OpaTap = k * OpaTap + j * OpaTap /\ j * OpaTap >= 0 /\ j * OpaTap \in Int
      BY <1>2
    <3> QED BY <2>1, <3>1, <3>2
  <2>3. k * OpaTap >= -OpaTap
    <3>1. PICK j \in Nat : k = j - 1
      <4>1. k + 1 \in Nat /\ k = (k + 1) - 1
        OBVIOUS
      <4> QED BY <4>1
    <3>2. (j - 1) * OpaTap = j * OpaTap - OpaTap /\ j * OpaTap >= 0 /\ j * OpaTap \in Int
      BY <1>2
    <3> QED BY <1>2, <3>1, <3>2
  <2> QED BY <1>2, <1>3, <1>10, <2>1, <2>2, <2>3
<1>20. a + n * OpaTap >= L
  <2>1. a + n * OpaTap \in 0 .. Round - 1
    BY <1>16, <1>19
  <2> QED BY <1>8, <1>16, <2>1
<1>21. ASSUME NEW k \in Int, k >= -1, k <= n - 1, k <= 0 \/ q(k) # 0
       PROVE  a + k * OpaTap < L
  <2>1. k * OpaTap \in Int /\ a + k * OpaTap \in 0 .. Round - 1
    <3>1. k <= n
      BY <1>16, <1>21
    <3> QED BY <1>19, <1>21, <3>1
  <2>2. CASE k = 0 \/ k = -1
    <3>1. 0 * OpaTap = 0 /\ (-1) * OpaTap = -OpaTap
      BY <1>2
    <3> QED BY <1>2, <1>3, <2>2, <3>1
  <2>3. CASE k >= 1
    <3>1. k \in 1 .. n - 1 /\ q(k) # 0
      BY <1>16, <1>21, <2>3
    <3>2. ~(a + k * OpaTap >= L)
      BY <1>8, <1>16, <2>1, <3>1
    <3> QED BY <1>2, <1>3, <2>1, <3>2
  <2> QED BY <1>21, <2>2, <2>3
<1>23. ASSUME NEW k \in Int, k >= -1, k <= n - 1, a + k * OpaTap < L,
              a + k * OpaTap >= L - 2 * OpaTap, p' \in 0 .. PHASE_MAX,
              Here' = a + k * OpaTap, work_end' = work_end + k * OpaTap
       PROVE  AtEdge'
  <2>1. k * OpaTap \in Int
    BY <1>2
  <2>2. window'.length - Here' \in 1 .. 2 * OpaTap
    <3>1. window'.length = L
      BY <1>15 DEF L
    <3> QED BY <1>2, <1>3, <1>23, <2>1, <3>1
  <2>3. work_end' - Here' = work_end - a
    BY <1>1, <1>3, <1>23, <2>1
  <2>4. work_end' + OpaTap - Here' = work_end + OpaTap - a
    BY <1>1, <1>2, <1>3, <1>23, <2>1
  <2>5. Bracketed'
    <3>1. Sharp(work_end - a) \/ Late(work_end + OpaTap - a)
      BY DEF Backed, Bracketed, a
    <3>2. CASE Sharp(work_end - a)
      <4>1. Sharp(work_end - Here)'
        BY <1>15, <2>3, <3>2 DEF Sharp, Aligned
      <4> QED BY <4>1 DEF Bracketed
    <3>3. CASE Late(work_end + OpaTap - a)
      <4>1. Late(work_end + OpaTap - Here)'
        BY <1>15, <2>4, <3>3 DEF Late, Aligned
      <4> QED BY <4>1 DEF Bracketed
    <3> QED BY <3>1, <3>2, <3>3
  <2> QED BY <1>14, <1>23, <2>2, <2>5 DEF AtEdge
\* The read's place, a phase tap before the failing one.
<1>24. CASE q(n) # 1
  <2>1. p' = q(n) - 1 /\ vfifo' = Cycle(v(n)) /\ work_end' = work_end + (n - 1) * OpaTap
    BY <1>14, <1>24
  <2>2. q(n) \in 2 .. PHASE_MAX /\ v(n) \in Int /\ q(n) - 1 \in Int /\ q(n) \in Int /\ n - 1 \in Int
    BY <1>2, <1>5, <1>16, <1>17, <1>24
  <2>3. (n - 1) * OpaTap = n * OpaTap - OpaTap /\ n * OpaTap \in Int
    BY <1>2, <1>16
  <2>4. q(n - 1) # 0
    <3>1. q(n - 1) = q(n) - 1
      BY <1>7, <1>16, <1>17
    <3> QED BY <2>2, <3>1
  <2>5. a + (n - 1) * OpaTap < L
    BY <1>16, <1>21, <2>2, <2>4
  <2>6. Here' = a + (n - 1) * OpaTap
    <3>1. Past(v(n), q(n), 0) = a + n * OpaTap
      BY <1>6, <1>16, <1>19 DEF q, v
    <3>2. PICK w \in Int : w = -1
      OBVIOUS
    <3>3. w * OpaTap = -OpaTap
      BY <1>2, <3>2
    <3>4. Past(v(n), q(n), 0) + w * OpaTap \in 0 .. Round - 1
      <4>1. a + (n - 1) * OpaTap \in 0 .. Round - 1
        BY <1>16, <1>19, <2>2
      <4> QED BY <1>2, <1>3, <2>3, <3>1, <3>3, <4>1
    <3>5. v(n) * Ptaps + (q(n) - 1) = v(n) * Ptaps + q(n) + w
      <4>1. v(n) * Ptaps \in Int
        BY <1>2, <2>2
      <4> QED BY <2>2, <3>2, <4>1
    <3>6. Past(v(n), q(n) - 1, 0) = Past(v(n), q(n), 0) + w * OpaTap
      BY ONLY FineGate, <1>1, <2>2, <3>4, <3>5, w \in Int, PastTaps
    <3>7. Past(Cycle(v(n)), q(n) - 1, 0) = Past(v(n), q(n) - 1, 0)
      BY ONLY FineGate, <1>1, <2>2, PastCycle, 0 \in Int
    <3>8. Here' = Past(Cycle(v(n)), q(n) - 1, 0)
      BY <1>15, <2>1 DEF Here, Past
    <3>9. a + n * OpaTap + w * OpaTap = a + (n - 1) * OpaTap
      BY <1>2, <1>3, <2>3, <3>3
    <3> QED BY <3>1, <3>6, <3>7, <3>8, <3>9
  <2>7. a + (n - 1) * OpaTap >= L - 2 * OpaTap
    BY <1>2, <1>3, <1>20, <2>3
  <2>8. n - 1 >= -1 /\ n - 1 <= n - 1 /\ p' \in 0 .. PHASE_MAX
    BY <1>2, <1>16, <2>1, <2>2
  <2>9. AtEdge'
    BY <1>23, <2>1, <2>2, <2>5, <2>6, <2>7, <2>8
  <2> QED BY <1>14, <1>15, <2>9
<1>25. CASE q(n) = 1
  <2>1. p' = PHASE_MAX /\ vfifo' = Cycle(v(n) + VFIFO_SIZE - 1)
        /\ work_end' = work_end + (n - 2) * OpaTap
    BY <1>14, <1>25
  <2>2. v(n) \in Int /\ n - 2 \in Int /\ v(n) + VFIFO_SIZE - 1 \in Int /\ PHASE_MAX \in Int
    BY <1>2, <1>5, <1>16
  <2>3. (n - 2) * OpaTap = n * OpaTap - 2 * OpaTap /\ n * OpaTap \in Int
    BY <1>2, <1>16
  <2>4. q(n - 2) # 0
    <3>1. q(n - 1) = 0
      BY <1>7, <1>16, <1>25
    <3>2. q((n - 1) - 1) = IF q(n - 1) = 0 THEN PHASE_MAX ELSE q(n - 1) - 1
      <4>1. n - 1 \in Int
        BY <1>16
      <4> QED BY <1>7, <4>1
    <3>3. (n - 1) - 1 = n - 2
      BY <1>16
    <3> QED BY <1>2, <3>1, <3>2, <3>3
  <2>5. n - 2 >= -1 /\ n - 2 <= n - 1 /\ p' \in 0 .. PHASE_MAX
    BY <1>2, <1>16, <2>1
  <2>6. a + (n - 2) * OpaTap < L
    BY <1>21, <2>2, <2>4, <2>5
  <2>7. Here' = a + (n - 2) * OpaTap
    <3>1. Past(v(n), q(n), 0) = a + n * OpaTap
      BY <1>6, <1>16, <1>19 DEF q, v
    <3> DEFINE k == -2 * OpaTap
    <3>2. k \in Int /\ k = -(2 * OpaTap)
      BY <1>2
    <3>3. Past(v(n), 1, 0) + k \in 0 .. Round - 1
      <4>1. a + (n - 2) * OpaTap \in 0 .. Round - 1
        <5>1. n - 2 <= n
          BY <1>16
        <5> QED BY <1>19, <2>2, <2>5, <5>1
      <4>2. a + n * OpaTap + k = a + (n - 2) * OpaTap
        BY <1>2, <1>3, <2>3, <3>2
      <4> QED BY <1>25, <3>1, <4>1, <4>2
    <3>4. (v(n) + VFIFO_SIZE - 1) * Clock + PHASE_MAX * OpaTap + 0 * DTap
            = v(n) * Clock + 1 * OpaTap + 0 * DTap + k + 1 * Round
      <4>1. (v(n) + VFIFO_SIZE - 1) * Clock = v(n) * Clock + Round - Clock
        BY <1>2, <2>2, GateSizes
      <4>2. PHASE_MAX * OpaTap = Clock - OpaTap /\ v(n) * Clock \in Int
        BY <1>2, <2>2
      <4> HIDE DEF k
      <4> QED BY <1>2, <3>2, <4>1, <4>2
    <3> HIDE DEF k
    <3>5. Past(v(n) + VFIFO_SIZE - 1, PHASE_MAX, 0) = Past(v(n), 1, 0) + k
      BY ONLY FineGate, <1>1, <2>2, <3>2, <3>3, <3>4, PastMoves, 0 \in Int, 1 \in Int
    <3>6. Past(Cycle(v(n) + VFIFO_SIZE - 1), PHASE_MAX, 0)
            = Past(v(n) + VFIFO_SIZE - 1, PHASE_MAX, 0)
      BY ONLY FineGate, <1>1, <2>2, PastCycle, 0 \in Int
    <3>7. Here' = Past(Cycle(v(n) + VFIFO_SIZE - 1), PHASE_MAX, 0)
      BY <1>15, <2>1 DEF Here, Past
    <3>8. a + n * OpaTap + k = a + (n - 2) * OpaTap
      BY <1>2, <1>3, <2>3, <3>2
    <3> QED BY <1>25, <3>1, <3>5, <3>6, <3>7, <3>8
  <2>8. a + (n - 2) * OpaTap >= L - 2 * OpaTap
    BY <1>2, <1>3, <1>20, <2>3
  <2>9. AtEdge'
    BY <1>23, <2>1, <2>2, <2>5, <2>6, <2>7, <2>8
  <2> QED BY <1>14, <1>15, <2>9
<1> QED BY <1>24, <1>25

\* The end is known to a delay tap, or to a phase tap where the delay taps
\* do not reach it.
LEMMA EdgeFound ==
  ASSUME FineGate, GateTyped, InRange, AtEdge, FindEdge
  PROVE  step' = "track" /\ Measured' /\ UNCHANGED window
<1> DEFINE a == Here
           L == window.length
           fails(e) == e > DELAY_MAX \/ ~Opens(vfifo, p, e)
<1>1. /\ window \in Windows /\ vfifo \in Int /\ work_bgn \in Int /\ work_end \in Int
      /\ p \in Int /\ d = 0
  BY DEF GateTyped, AtEdge
<1>2. /\ Clock \in Nat /\ Round \in Nat /\ 4 * Clock <= Round
      /\ L \in Nat /\ 4 * OpaTap <= L /\ OpaTap \in Nat /\ OpaTap > 0
      /\ L + 2 * OpaTap + DTap <= 2 * Clock /\ 8 * OpaTap <= Clock
      /\ DTap \in Nat /\ DTap > 0 /\ DTap < OpaTap
      /\ DELAY_MAX \in Nat /\ OpaTap + DTap <= DELAY_MAX * DTap
  BY <1>1, GateSizes, WindowSizes
<1>3. a \in 0 .. Round - 1 /\ a = Past(vfifo, p, 0) /\ L - a \in 1 .. 2 * OpaTap
  <2>1. Past(vfifo, p, 0) \in 0 .. Round - 1
    BY ONLY FineGate, <1>1, PastIn, 0 \in Int
  <2> QED BY <2>1 DEF AtEdge, Here
<1>4. Sharp(work_end - a) \/ Late(work_end + OpaTap - a)
  BY DEF AtEdge, Bracketed
<1> HIDE DEF a, L
<1>5. /\ window' = window /\ work_bgn' = work_bgn
      /\ \E e \in 0 .. DELAY_MAX + 1 :
           /\ Meets(fails, 0, e)
           /\ work_end' = work_end + (e - 0) * DTap - (IF e = 0 THEN 0 ELSE DTap)
      /\ step' = IF work_end' >= work_bgn THEN "track" ELSE "lost"
  BY <1>1, Zenon DEF FindEdge
<1>6. \A e \in 0 .. DELAY_MAX : e * DTap <= 2 * OpaTap + DTap =>
        (fails(e) <=> a + e * DTap >= L)
  <2> SUFFICES ASSUME NEW e \in 0 .. DELAY_MAX, e * DTap <= 2 * OpaTap + DTap
               PROVE  fails(e) <=> a + e * DTap >= L
    OBVIOUS
  <2>1. e \in Int /\ e * DTap \in Int /\ e * DTap >= 0 /\ ~(e > DELAY_MAX) /\ 0 * OpaTap = 0
    BY <1>2
  <2>2. Past(vfifo, p, 0) + 0 * OpaTap + e * DTap \in 0 .. Round - 1
    BY <1>2, <1>3, <2>1
  <2>3. Past(vfifo, p + 0, e) = Past(vfifo, p, 0) + 0 * OpaTap + e * DTap
    BY ONLY FineGate, <1>1, <2>1, <2>2, PastDelays, 0 \in Int
  <2>4. Past(vfifo, p, e) = a + e * DTap
    BY <1>1, <1>3, <2>1, <2>3
  <2>5. Opens(vfifo, p, e) <=> a + e * DTap < L
    BY <2>4 DEF Opens, L
  <2>6. (a + e * DTap < L) <=> ~(a + e * DTap >= L)
    BY <1>2, <1>3, <2>1
  <2> QED BY <2>1, <2>5, <2>6, Zenon
<1>7. PICK e \in 0 .. DELAY_MAX + 1 :
           /\ Meets(fails, 0, e)
           /\ work_end' = work_end + (e - 0) * DTap - (IF e = 0 THEN 0 ELSE DTap)
  BY <1>5
<1>8. fails(e) /\ \A k \in 0 .. e - 1 : ~fails(k)
  BY <1>7, Zenon DEF Meets, NoneBefore
<1>9. e \in Int /\ e >= 0 /\ e <= DELAY_MAX + 1
  BY <1>2
<1>10. PICK m \in Int : /\ m >= 1 /\ m * DTap \in Int
                        /\ a + m * DTap >= L /\ a + m * DTap < L + DTap
  <2> DEFINE m == (L - a + DTap - 1) \div DTap
  <2>1. /\ m \in Int /\ DTap * m <= L - a + DTap - 1
        /\ L - a + DTap - 1 < DTap * m + DTap
    BY <1>2, <1>3, DivIs
  <2> HIDE DEF m
  <2>2. m * DTap = DTap * m /\ m * DTap \in Int
    BY <1>2, <2>1
  <2>3. m >= 1
    <3>1. 0 * DTap < m * DTap /\ 0 \in Int
      BY <1>2, <1>3, <2>1, <2>2
    <3>2. 0 < m
      BY ONLY <1>2, <2>1, <3>1, ProductOrder
    <3> QED BY <2>1, <3>2
  <2>4. a + m * DTap >= L /\ a + m * DTap < L + DTap
    BY <1>2, <1>3, <2>1, <2>2
  <2> QED BY <2>1, <2>2, <2>3, <2>4
<1> HIDE DEF fails
<1>11. e <= m
  <2> SUFFICES ASSUME e > m PROVE FALSE
    BY <1>9, <1>10
  <2>1. m \in 0 .. DELAY_MAX /\ m \in 0 .. e - 1
    BY <1>2, <1>9, <1>10
  <2>2. m * DTap <= 2 * OpaTap + DTap
    BY <1>2, <1>3, <1>10
  <2>3. fails(m)
    BY <1>6, <1>10, <2>1, <2>2
  <2> QED BY <1>8, <2>1, <2>3
<1>12. \A k \in Int : 0 <= k /\ k <= e => /\ k * DTap \in Int /\ k * DTap <= 2 * OpaTap + DTap
  <2> SUFFICES ASSUME NEW k \in Int, 0 <= k, k <= e
               PROVE  k * DTap \in Int /\ k * DTap <= 2 * OpaTap + DTap
    OBVIOUS
  <2>1. PICK j \in Nat : m = k + j
    <3>1. m - k \in Nat /\ m = k + (m - k)
      BY <1>9, <1>11
    <3> QED BY <3>1
  <2>2. (k + j) * DTap = k * DTap + j * DTap /\ j * DTap >= 0 /\ j * DTap \in Int
        /\ k * DTap \in Int
    BY <1>2
  <2> QED BY <1>2, <1>3, <1>10, <2>1, <2>2
<1>13. e >= 1
  <2>1. ~fails(0)
    <3>1. 0 * DTap = 0 /\ 0 \in 0 .. DELAY_MAX
      BY <1>2
    <3>2. 0 * DTap <= 2 * OpaTap + DTap /\ ~(a + 0 * DTap >= L)
      BY <1>2, <1>3, <3>1
    <3> QED BY <1>6, <3>1, <3>2
  <2>2. e # 0
    BY <1>8, <2>1
  <2> QED BY <1>9, <2>2
<1>14. PICK f \in Int : f = e - 1
  BY <1>9
<1>15. f >= 0 /\ f <= DELAY_MAX /\ f * DTap \in Int /\ e * DTap = f * DTap + DTap
  <2>1. e = f + 1
    BY <1>9, <1>14
  <2>2. (f + 1) * DTap = f * DTap + DTap /\ f * DTap \in Int
    BY <1>2
  <2> QED BY <1>2, <1>9, <1>13, <1>14, <2>1, <2>2
<1>16. a + f * DTap < L
  <2>1. ~fails(f)
    <3>1. f \in 0 .. e - 1
      BY <1>9, <1>14, <1>15
    <3> QED BY <1>8, <3>1
  <2>2. f \in 0 .. DELAY_MAX /\ f * DTap <= 2 * OpaTap + DTap
    <3>1. 0 <= f /\ f <= e
      BY <1>9, <1>14, <1>15
    <3> QED BY <1>2, <1>12, <1>15, <3>1
  <2>3. ~(a + f * DTap >= L)
    BY <1>6, <2>1, <2>2
  <2> QED BY <1>2, <1>3, <1>15, <2>3
<1>17. L - a - f * DTap < OpaTap
  <2>1. CASE e <= DELAY_MAX
    <3>1. e \in 0 .. DELAY_MAX /\ e * DTap <= 2 * OpaTap + DTap
      <4>1. 0 <= e /\ e <= e
        BY <1>9
      <4> QED BY <1>9, <1>12, <2>1, <4>1
    <3>2. a + e * DTap >= L
      BY <1>6, <1>8, <3>1
    <3> QED BY <1>2, <1>3, <1>15, <3>2
  <2>2. CASE e > DELAY_MAX
    <3>1. f = DELAY_MAX
      BY <1>2, <1>9, <1>14, <2>2
    <3>2. f * DTap >= OpaTap + DTap
      BY <1>2, <3>1
    <3> QED BY <1>2, <1>3, <1>15, <3>2
  <2> QED BY <1>2, <1>9, <2>1, <2>2
<1>18. work_end' = work_end + f * DTap
  <2>1. work_end' = work_end + (e - 0) * DTap - DTap /\ e - 0 = e
    BY <1>7, <1>9, <1>13
  <2> QED BY <1>1, <1>2, <1>15, <2>1
<1> DEFINE rest == L - a - f * DTap
<1>19. rest \in Int /\ rest \in 1 .. OpaTap - 1
  BY <1>2, <1>3, <1>15, <1>16, <1>17
<1>20. CASE Sharp(work_end - a)
  <2>1. PICK x \in Int : x = work_end - a
    BY <1>1, <1>3
  <2>2. Sharp(x)' /\ work_bgn - x \in 0 .. DTap - 1
    BY <1>5, <1>20, <2>1 DEF Sharp, Aligned
  <2>3. x \in work_bgn' - (2 * OpaTap - 1) .. work_bgn'
    BY <1>1, <1>2, <1>5, <2>2
  <2>4. x + window'.length - work_end' = rest
    <3>1. window'.length = L
      BY <1>5 DEF L
    <3> QED BY <1>1, <1>2, <1>3, <1>15, <1>18, <2>1, <3>1
  <2>5. Measured'
    BY <1>19, <2>2, <2>3, <2>4 DEF Measured
  <2>6. work_end' >= work_bgn
    <3>1. work_end' = x + L - rest
      BY <1>1, <1>2, <1>3, <1>15, <1>18, <2>1
    <3> HIDE DEF rest
    <3> QED BY <1>1, <1>2, <1>19, <2>2, <3>1
  <2> QED BY <1>5, <2>5, <2>6
<1>21. CASE Late(work_end + OpaTap - a)
  <2>1. PICK x \in Int : x = work_end + OpaTap - a
    BY <1>1, <1>2, <1>3
  <2>2. Late(x)' /\ work_bgn - x \in 0 .. 2 * OpaTap - 1
    BY <1>5, <1>21, <2>1 DEF Late, Aligned
  <2>3. x \in work_bgn' - (2 * OpaTap - 1) .. work_bgn'
    BY <1>1, <1>2, <1>5, <2>2
  <2>4. x + window'.length - work_end' = OpaTap + rest
    <3>1. window'.length = L
      BY <1>5 DEF L
    <3> QED BY <1>1, <1>2, <1>3, <1>15, <1>18, <2>1, <3>1
  <2>5. OpaTap + rest \in OpaTap + 1 .. 2 * OpaTap - 1
    <3> HIDE DEF rest
    <3> QED BY <1>2, <1>19
  <2>6. Measured'
    BY <2>2, <2>3, <2>4, <2>5 DEF Measured
  <2>7. work_end' >= work_bgn
    <3>1. work_end' = x + L - OpaTap - rest
      BY <1>1, <1>2, <1>3, <1>15, <1>18, <2>1
    <3> HIDE DEF rest
    <3> QED BY <1>1, <1>2, <1>19, <2>2, <3>1
  <2> QED BY <1>5, <2>6, <2>7
<1> QED BY <1>4, <1>20, <1>21

LEMMA TapsTracked ==
  ASSUME GateTyped, InRange, Measured, TrackTaps
  PROVE  step' = "centre" /\ Measured' /\ UNCHANGED window
<1>1. step' = "centre" /\ UNCHANGED <<window, work_bgn, work_end>>
  BY DEF TrackTaps
<1>2. Measured'
  BY <1>1 DEF Measured, Sharp, Late, Aligned
<1> QED BY <1>1, <1>2

-----------------------------------------------------------------------------
(* Half way. *)

\* Half way between the beginning and the end found, rounded up to where
\* the gate can be put, is near the middle of the window: x is where the
\* window begins, s half way, g by how much it is put later.
LEMMA HalfWay ==
  ASSUME NEW O \in Nat, NEW D \in Nat, D > 0, D < O, NEW C \in Nat,
         NEW L \in Nat, 4 * O <= L, L + 2 * O + D <= 2 * C,
         NEW x \in Int, NEW b \in Int, NEW w \in Int, NEW s \in Int, NEW g \in Int,
         2 * s <= b + w, b + w <= 2 * s + 1,
         \/ b - x \in 0 .. D - 1 /\ x + L - w \in 1 .. O - 1 /\ g \in 0 .. O - 1
         \/ b - x \in 0 .. 2 * O - 1 /\ x + L - w \in O + 1 .. 2 * O - 1 /\ g \in 0 .. D - 1
  PROVE  LET t == s + g - x IN
         /\ 0 <= t /\ t < L /\ t < C /\ t + C >= L
         /\ 2 * t - L <= 2 * O + D /\ L - 2 * t <= 2 * O + D
  OBVIOUS

\* The phase and the delay chosen put the gate just behind the middle.
LEMMA PutBehind ==
  ASSUME FineGate, NEW s \in Int
  PROVE  LET mid == ((s - 1) % Clock) + 1
             ptap == CeilDiv(mid, OpaTap)
             q == IF ptap = 1 THEN 2 ELSE ptap
             e == IF ptap = 1 THEN 0 ELSE CeilDiv(mid - (ptap - 1) * OpaTap, DTap)
         IN  /\ q - 1 \in Int /\ e \in Int
             /\ \E k \in Int, g \in Int :
                  /\ (q - 1) * OpaTap + e * DTap = s - k * Clock + g
                  /\ \/ g \in 0 .. DTap - 1
                     \/ s - k * Clock \in 1 .. OpaTap /\ g \in 0 .. OpaTap - 1
<1> DEFINE mid == ((s - 1) % Clock) + 1
           ptap == CeilDiv(mid, OpaTap)
           q == IF ptap = 1 THEN 2 ELSE ptap
           e == IF ptap = 1 THEN 0 ELSE CeilDiv(mid - (ptap - 1) * OpaTap, DTap)
<1>1. /\ Clock \in Nat /\ Clock > 0 /\ OpaTap \in Nat /\ OpaTap > 0
      /\ DTap \in Nat /\ DTap > 0 /\ DTap < OpaTap
  BY GateSizes, GateConstants
<1>2. PICK k \in Int : mid \in Int /\ mid = s - k * Clock /\ mid >= 1
  <2>1. PICK z \in Int : z = s - 1
    OBVIOUS
  <2>2. /\ z \div Clock \in Int /\ z % Clock \in 0 .. Clock - 1
        /\ z = Clock * (z \div Clock) + (z % Clock)
    BY <1>1, ModSplit
  <2>3. PICK k \in Int, r \in 0 .. Clock - 1 : z = Clock * k + r /\ r = z % Clock
    BY <2>2
  <2>4. mid = r + 1
    BY <2>1, <2>3
  <2>5. Clock * k = k * Clock /\ k * Clock \in Int
    BY <1>1, <2>3
  <2> HIDE DEF mid
  <2>6. mid \in Int /\ mid = s - k * Clock /\ mid >= 1
    BY <1>1, <2>1, <2>3, <2>4, <2>5
  <2> QED BY <2>6
<1> HIDE DEF mid
<1>3. /\ ptap \in Int /\ OpaTap * ptap <= mid + OpaTap - 1
      /\ mid + OpaTap - 1 < OpaTap * ptap + OpaTap
  BY <1>1, <1>2, DivIs DEF CeilDiv
<1> HIDE DEF ptap
<1>4. CASE ptap = 1
  <2>1. q = 2 /\ e = 0
    BY <1>4
  <2>2. mid \in 1 .. OpaTap
    BY <1>1, <1>2, <1>3, <1>4
  <2>3. PICK g \in Int : g = OpaTap - mid
    BY <1>1, <1>2
  <2>4. (q - 1) * OpaTap + e * DTap = OpaTap
    BY <1>1, <2>1
  <2>5. k * Clock \in Int
    BY <1>1
  <2>6. OpaTap = s - k * Clock + g /\ g \in 0 .. OpaTap - 1
    BY <1>1, <1>2, <2>2, <2>3, <2>5
  <2>7. q - 1 \in Int /\ e \in Int
    BY <2>1
  <2>8. s - k * Clock \in 1 .. OpaTap
    BY <1>2, <2>2
  <2>9. (q - 1) * OpaTap + e * DTap = s - k * Clock + g
    BY <2>4, <2>6
  <2> HIDE DEF q, e
  <2>10. \E kk \in Int, gg \in Int :
                  /\ (q - 1) * OpaTap + e * DTap = s - kk * Clock + gg
                  /\ \/ gg \in 0 .. DTap - 1
                     \/ s - kk * Clock \in 1 .. OpaTap /\ gg \in 0 .. OpaTap - 1
    BY <2>6, <2>8, <2>9, Zenon
  <2> QED BY <2>7, <2>10, Zenon DEF q, e, ptap, mid
<1>5. CASE ptap # 1
  <2>1. q = ptap /\ e = CeilDiv(mid - (ptap - 1) * OpaTap, DTap)
    BY <1>5
  <2>2. PICK rest \in Int : rest = mid - (ptap - 1) * OpaTap
    BY <1>1, <1>2, <1>3
  <2>3. /\ e \in Int /\ DTap * e <= rest + DTap - 1
        /\ rest + DTap - 1 < DTap * e + DTap
    <3>1. e = (rest + DTap - 1) \div DTap
      BY <2>1, <2>2 DEF CeilDiv
    <3>2. PICK z \in Int : z = rest + DTap - 1
      BY <1>1, <2>2
    <3>3. /\ z \div DTap \in Int /\ DTap * (z \div DTap) <= z
          /\ z < DTap * (z \div DTap) + DTap
      BY <1>1, DivIs
    <3> HIDE DEF e
    <3> QED BY <3>1, <3>2, <3>3
  <2> HIDE DEF e
  <2>4. PICK g \in Int : g = e * DTap - rest
    BY <1>1, <2>3
  <2>5. g \in 0 .. DTap - 1
    <3>1. e * DTap = DTap * e /\ e * DTap \in Int
      BY <1>1, <2>3
    <3> QED BY <1>1, <2>3, <2>4, <3>1
  <2>6. (q - 1) * OpaTap + e * DTap = s - k * Clock + g
    <3>1. (ptap - 1) * OpaTap \in Int /\ e * DTap \in Int /\ k * Clock \in Int
      BY <1>1, <1>3, <2>3
    <3>2. (q - 1) * OpaTap = (ptap - 1) * OpaTap
      BY <2>1
    <3> QED BY <1>2, <2>2, <2>4, <3>1, <3>2
  <2>7. q - 1 \in Int /\ e \in Int
    BY <1>3, <2>1, <2>3
  <2> HIDE DEF q
  <2>8. \E kk \in Int, gg \in Int :
                  /\ (q - 1) * OpaTap + e * DTap = s - kk * Clock + gg
                  /\ \/ gg \in 0 .. DTap - 1
                     \/ s - kk * Clock \in 1 .. OpaTap /\ gg \in 0 .. OpaTap - 1
    BY <2>5, <2>6, Zenon
  <2> QED BY <2>7, <2>8, Zenon DEF q, e, ptap, mid
<1> QED BY <1>4, <1>5

\* Only one cycle of the ring has the gate open there, in the middle.
LEMMA OneCycleOpens ==
  ASSUME FineGate, window \in Windows, NEW v \in Int, NEW q \in Int, NEW e \in Int,
         NEW t \in Int, 0 <= t, t < window.length, t < Clock, t + Clock >= window.length,
         window.length < Round, NEW j \in Int,
         v * Clock + q * OpaTap + e * DTap - window.first = t + j * Clock
  PROVE  /\ \E n \in 0 .. VFIFO_SIZE - 1 : Opens(v + n, q, e)
         /\ \A n \in Int : Opens(v + n, q, e) => Past(v + n, q, e) = t
<1>1. /\ window.first \in Int /\ window.length \in Int
      /\ Clock \in Nat /\ Clock > 0 /\ Round \in Nat /\ Round > 0
      /\ VFIFO_SIZE \in Nat /\ VFIFO_SIZE > 0 /\ Round = VFIFO_SIZE * Clock
  BY GateSizes, GateConstants DEF Windows
<1> DEFINE y(n) == (v + n) * Clock + q * OpaTap + e * DTap - window.first
<1>2. \A n \in Int : y(n) \in Int /\ y(n) = t + (j + n) * Clock
  <2> SUFFICES ASSUME NEW n \in Int PROVE y(n) \in Int /\ y(n) = t + (j + n) * Clock
    OBVIOUS
  <2>1. (v + n) * Clock = v * Clock + n * Clock /\ (j + n) * Clock = j * Clock + n * Clock
    BY <1>1
  <2>2. /\ v * Clock \in Int /\ n * Clock \in Int /\ j * Clock \in Int
        /\ q * OpaTap \in Int /\ e * DTap \in Int
    BY <1>1, GateSizes
  <2> QED BY <1>1, <2>1, <2>2
<1>3. \A n \in Int : Past(v + n, q, e) = y(n) % Round
  BY DEF Past
<1> HIDE DEF y
<1>4. \E n \in 0 .. VFIFO_SIZE - 1 : Opens(v + n, q, e)
  <2>1. PICK z \in Int : z = -j
    OBVIOUS
  <2>2. PICK m \in Int, n \in 0 .. VFIFO_SIZE - 1 : z = VFIFO_SIZE * m + n
    <3>1. /\ z \div VFIFO_SIZE \in Int /\ z % VFIFO_SIZE \in 0 .. VFIFO_SIZE - 1
          /\ z = VFIFO_SIZE * (z \div VFIFO_SIZE) + (z % VFIFO_SIZE)
      BY <1>1, ModSplit
    <3> QED BY <3>1
  <2>3. PICK u \in Int : u = -m
    OBVIOUS
  <2>4. n \in Int /\ j + n = u * VFIFO_SIZE
    BY <1>1, <2>1, <2>2, <2>3
  <2>5. y(n) = u * Round + t
    <3>1. (u * VFIFO_SIZE) * Clock = u * Round /\ u * Round \in Int
      BY <1>1
    <3> QED BY <1>2, <2>4, <3>1
  <2>6. t \in 0 .. Round - 1
    BY <1>1
  <2>7. (u * Round + t) % Round = t
    BY ONLY <1>1, <2>3, <2>6, ModIs
  <2>8. Past(v + n, q, e) < window.length
    BY <1>3, <2>4, <2>5, <2>7
  <2> QED BY <2>8 DEF Opens
<1>5. ASSUME NEW n \in Int, Opens(v + n, q, e)
      PROVE  Past(v + n, q, e) = t
  <2>1. PICK r \in Int : r = Past(v + n, q, e) /\ 0 <= r /\ r < window.length
    <3>1. v + n \in Int
      OBVIOUS
    <3>2. Past(v + n, q, e) \in 0 .. Round - 1
      BY ONLY FineGate, window \in Windows, <3>1, PastIn, q \in Int, e \in Int
    <3>3. Past(v + n, q, e) < window.length
      BY <1>5 DEF Opens
    <3> QED BY <1>1, <3>2, <3>3
  <2>2. PICK u \in Int : y(n) = Round * u + r
    <3>1. y(n) \in Int
      BY <1>2
    <3>2. y(n) \div Round \in Int /\ y(n) = Round * (y(n) \div Round) + (y(n) % Round)
      BY ONLY <1>1, <3>1, ModSplit
    <3> QED BY <1>3, <2>1, <3>2
  <2>3. PICK z \in Int : z = j + n - u * VFIFO_SIZE
    BY <1>1
  <2>4. r - t = z * Clock
    <3>1. z * Clock = (j + n) * Clock - (u * VFIFO_SIZE) * Clock
      BY <1>1, <2>3
    <3>2. (u * VFIFO_SIZE) * Clock = Round * u /\ Round * u \in Int /\ (j + n) * Clock \in Int
      BY <1>1
    <3>3. y(n) = t + (j + n) * Clock
      BY <1>2
    <3> QED BY <1>1, <2>1, <2>2, <3>1, <3>2, <3>3
  <2>5. CASE z >= 1
    <3>1. z * Clock >= Clock
      BY <1>1, <2>5
    <3> QED BY <1>1, <2>1, <2>4, <3>1
  <2>6. CASE z <= -1
    <3>1. z * Clock <= -Clock
      BY <1>1, <2>6
    <3> QED BY <1>1, <2>1, <2>4, <3>1
  <2>7. CASE z = 0
    <3>1. z * Clock = 0
      BY <1>1, <2>7
    <3> QED BY <1>1, <2>1, <2>4, <3>1
  <2> QED BY <2>5, <2>6, <2>7
<1> QED BY <1>4, <1>5

\* The gate ends near the middle of the window.
LEMMA CentreFound ==
  ASSUME FineGate, GateTyped, InRange, Measured, CentreGate
  PROVE  step' = "found" /\ (OffCentre <= 2 * OpaTap + DTap)' /\ UNCHANGED window
<1> DEFINE L == window.length
           s == (work_bgn + work_end) \div 2
           mid == ((s - 1) % Clock) + 1
           ptap == CeilDiv(mid, OpaTap)
           q == IF ptap = 1 THEN 2 ELSE ptap
           e == IF ptap = 1 THEN 0 ELSE CeilDiv(mid - (ptap - 1) * OpaTap, DTap)
           passes(n) == Opens(vfifo + n, q - 1, e)
<1>1. /\ window \in Windows /\ vfifo \in Int /\ work_bgn \in Int /\ work_end \in Int
      /\ window.first \in Int
  BY DEF GateTyped, Windows
<1>2. /\ Clock \in Nat /\ Clock > 0 /\ Round \in Nat /\ 4 * Clock <= Round
      /\ L \in Nat /\ 4 * OpaTap <= L /\ OpaTap \in Nat /\ OpaTap > 0
      /\ L + 2 * OpaTap + DTap <= 2 * Clock /\ 8 * OpaTap <= Clock
      /\ DTap \in Nat /\ DTap > 0 /\ DTap < OpaTap
  BY <1>1, GateSizes, WindowSizes
<1>3. s \in Int /\ 2 * s <= work_bgn + work_end /\ work_bgn + work_end <= 2 * s + 1
  BY <1>1
<1>4. PICK x \in Int :
        \/ Sharp(x) /\ x + L - work_end \in 1 .. OpaTap - 1
        \/ Late(x) /\ x + L - work_end \in OpaTap + 1 .. 2 * OpaTap - 1
  BY <1>1, <1>2 DEF Measured
<1>5. /\ phase' = q - 1 /\ delay' = e /\ window' = window
      /\ \/ \A n \in 0 .. VFIFO_SIZE - 1 : ~passes(n)
         \/ \E n \in 0 .. VFIFO_SIZE - 1 :
              passes(n) /\ step' = "found" /\ vfifo' = Cycle(vfifo + n)
  BY Zenon DEF CentreGate, Meets, Lost
<1>6. /\ q - 1 \in Int /\ e \in Int
      /\ \E k \in Int, g \in Int :
           /\ (q - 1) * OpaTap + e * DTap = s - k * Clock + g
           /\ \/ g \in 0 .. DTap - 1
              \/ s - k * Clock \in 1 .. OpaTap /\ g \in 0 .. OpaTap - 1
  <2> HIDE DEF s
  <2> QED BY <1>3, PutBehind, Zenon
<1> HIDE DEF s, q, e
<1>7. PICK k \in Int, g \in Int :
           /\ (q - 1) * OpaTap + e * DTap = s - k * Clock + g
           /\ \/ g \in 0 .. DTap - 1
              \/ s - k * Clock \in 1 .. OpaTap /\ g \in 0 .. OpaTap - 1
  BY <1>6
<1>8. \/ work_bgn - x \in 0 .. DTap - 1 /\ x + L - work_end \in 1 .. OpaTap - 1
         /\ g \in 0 .. OpaTap - 1
      \/ work_bgn - x \in 0 .. 2 * OpaTap - 1 /\ x + L - work_end \in OpaTap + 1 .. 2 * OpaTap - 1
         /\ g \in 0 .. DTap - 1
  <2>1. g \in 0 .. OpaTap - 1
    BY <1>2, <1>7
  <2>2. CASE Sharp(x) /\ x + L - work_end \in 1 .. OpaTap - 1
    BY <2>1, <2>2 DEF Sharp
  <2>3. CASE Late(x) /\ x + L - work_end \in OpaTap + 1 .. 2 * OpaTap - 1
    <3>1. work_bgn - x \in 0 .. 2 * OpaTap - 1 /\ (work_bgn - OpaTap) % Clock = 0
      BY <2>3 DEF Late
    <3>2. ASSUME s - k * Clock \in 1 .. OpaTap
          PROVE  FALSE
      <4>1. PICK l \in Int : work_bgn - OpaTap = l * Clock
        <5>1. PICK z \in Int : z = work_bgn - OpaTap
          BY <1>1, <1>2
        <5>2. z \div Clock \in Int /\ z = Clock * (z \div Clock) + (z % Clock)
          BY <1>2, <5>1, ModSplit
        <5>3. z = (z \div Clock) * Clock
          BY <1>2, <3>1, <5>1, <5>2
        <5> QED BY <5>1, <5>2, <5>3
      <4>2. s - work_bgn >= 1 /\ s - work_bgn <= Clock - OpaTap - 1
        BY <1>1, <1>2, <1>3, <2>3, <3>1
      <4>3. PICK z \in Int : z = k - l
        BY <1>7
      <4>4. s - work_bgn = (s - k * Clock) - OpaTap + z * Clock
        <5>1. z * Clock = k * Clock - l * Clock /\ k * Clock \in Int /\ l * Clock \in Int
          BY <1>2, <1>7, <4>3
        <5> QED BY <1>1, <1>2, <1>3, <4>1, <5>1
      <4>5. k * Clock \in Int /\ z * Clock \in Int
        BY <1>2, <1>7
      <4>6. CASE z >= 1
        <5>1. z * Clock >= Clock
          BY <1>2, <4>6
        <5> QED BY <1>1, <1>2, <1>3, <3>2, <4>2, <4>4, <4>5, <5>1
      <4>7. CASE z <= 0
        <5>1. z * Clock <= 0
          BY <1>2, <4>7
        <5> QED BY <1>1, <1>2, <1>3, <3>2, <4>2, <4>4, <4>5, <5>1
      <4> QED BY <4>6, <4>7
    <3>3. g \in 0 .. DTap - 1
      BY <1>7, <3>2
    <3> QED BY <2>3, <3>1, <3>3
  <2> QED BY <1>4, <2>2, <2>3
<1>9. PICK t \in Int : t = s + g - x
  BY <1>3, <1>4, <1>7
<1>10. /\ 0 <= t /\ t < L /\ t < Clock /\ t + Clock >= L
       /\ 2 * t - L <= 2 * OpaTap + DTap /\ L - 2 * t <= 2 * OpaTap + DTap
  <2> HIDE DEF L
  <2> QED BY ONLY <1>1, <1>2, <1>3, <1>4, <1>7, <1>8, <1>9, HalfWay
<1>11. PICK j \in Int :
         vfifo * Clock + (q - 1) * OpaTap + e * DTap - window.first = t + j * Clock
  <2>1. PICK m \in Int : x - window.first = m * Clock
    <3>1. (x - window.first) % Clock = 0
      BY <1>4 DEF Sharp, Late, Aligned
    <3>2. PICK z \in Int : z = x - window.first
      BY <1>1, <1>4
    <3>3. z \div Clock \in Int /\ z = Clock * (z \div Clock) + (z % Clock)
      BY <1>2, <3>2, ModSplit
    <3>4. z = (z \div Clock) * Clock
      BY <1>2, <3>1, <3>2, <3>3
    <3> QED BY <3>2, <3>3, <3>4
  <2>2. PICK j \in Int : j = vfifo - k + m
    BY <1>1, <1>7
  <2>3. j * Clock = vfifo * Clock - k * Clock + m * Clock
    BY <1>1, <1>2, <1>7, <2>2
  <2>4. /\ vfifo * Clock \in Int /\ k * Clock \in Int /\ m * Clock \in Int
        /\ (q - 1) * OpaTap \in Int /\ e * DTap \in Int
    BY <1>1, <1>2, <1>6, <1>7
  <2>5. vfifo * Clock + (q - 1) * OpaTap + e * DTap - window.first = t + j * Clock
    BY <1>1, <1>3, <1>4, <1>7, <1>9, <2>1, <2>3, <2>4
  <2> QED BY <2>2, <2>5
<1>12. L < Round
  BY <1>2
<1>13. /\ \E n \in 0 .. VFIFO_SIZE - 1 : Opens(vfifo + n, q - 1, e)
       /\ \A n \in Int : Opens(vfifo + n, q - 1, e) => Past(vfifo + n, q - 1, e) = t
  <2>1. PICK r \in Int, f \in Int : r = q - 1 /\ f = e
    BY <1>6
  <2>2. vfifo * Clock + r * OpaTap + f * DTap - window.first = t + j * Clock
    BY <1>11, <2>1
  <2>3. /\ 0 <= t /\ t < window.length /\ t < Clock /\ t + Clock >= window.length
        /\ window.length < Round
    BY <1>10, <1>12
  <2>4. /\ \E n \in 0 .. VFIFO_SIZE - 1 : Opens(vfifo + n, r, f)
        /\ \A n \in Int : Opens(vfifo + n, r, f) => Past(vfifo + n, r, f) = t
    BY ONLY FineGate, r \in Int, f \in Int, t \in Int,
       j \in Int, <1>1, <2>2, <2>3, OneCycleOpens
  <2> QED BY <2>1, <2>4
<1>14. PICK n \in 0 .. VFIFO_SIZE - 1 :
         passes(n) /\ step' = "found" /\ vfifo' = Cycle(vfifo + n)
  BY <1>5, <1>13, Zenon
<1>15. Past(vfifo', phase', delay') = t
  <2>1. n \in Int /\ vfifo + n \in Int
    BY <1>1, <1>2, GateSizes
  <2>2. Past(vfifo + n, q - 1, e) = t
    BY <1>13, <1>14, <2>1
  <2>3. Past(Cycle(vfifo + n), q - 1, e) = Past(vfifo + n, q - 1, e)
    BY ONLY FineGate, <1>1, <1>6, <2>1, PastCycle
  <2> QED BY <1>5, <1>14, <2>2, <2>3
<1>16. Past(vfifo, phase, delay)' = t /\ window'.length = L
  BY <1>5, <1>15 DEF Past
<1>17. (OffCentre <= 2 * OpaTap + DTap)'
  <2>1. OffCentre' = IF 2 * t - L >= 0 THEN 2 * t - L ELSE -(2 * t - L)
    BY <1>16 DEF OffCentre
  <2> HIDE DEF L
  <2> QED BY <1>2, <1>9, <1>10, <2>1
<1> QED BY <1>5, <1>14, <1>17

LEMMA GateStepKept ==
  ASSUME FineGate, GateTyped, Gating, GateStep
  PROVE  Gating'
<1> SUFFICES ASSUME InRange' PROVE
             (/\ step # "lost"
              /\ step = "begin" => Pushed
              /\ step = "back" => Begun
              /\ step = "end" => Backed
              /\ step = "edge" => AtEdge
              /\ step \in {"track", "centre"} => Measured
              /\ step = "found" => OffCentre <= 2 * OpaTap + DTap)'
  BY DEF Gating
<1>1. window' = window
  BY Zenon DEF GateStep, Push, FindBegin, BackOff, FindEnd, FindEdge, TrackTaps, CentreGate
<1>2. InRange
  BY <1>1 DEF InRange
<1>3. CASE Push
  <2>1. step' = "begin" /\ Pushed'
    BY <1>2, <1>3, PushGates
  <2> QED BY <2>1
<1>4. CASE FindBegin
  <2>1. Pushed
    BY <1>2, <1>4 DEF Gating, FindBegin
  <2>2. step' = "back" /\ Begun'
    BY <1>2, <1>4, <2>1, BeginFound
  <2> QED BY <2>2
<1>5. CASE BackOff
  <2>1. Begun
    BY <1>2, <1>5 DEF Gating, BackOff
  <2>2. step' = "end" /\ Backed'
    BY <1>2, <1>5, <2>1, BackedOff
  <2> QED BY <2>2
<1>6. CASE FindEnd
  <2>1. Backed
    BY <1>2, <1>6 DEF Gating, FindEnd
  <2>2. step' = "edge" /\ AtEdge'
    BY <1>2, <1>6, <2>1, EndFound
  <2> QED BY <2>2
<1>7. CASE FindEdge
  <2>1. AtEdge
    BY <1>2, <1>7 DEF Gating, FindEdge
  <2>2. step' = "track" /\ Measured'
    BY <1>2, <1>7, <2>1, EdgeFound
  <2> QED BY <2>2
<1>8. CASE TrackTaps
  <2>1. Measured
    BY <1>2, <1>8 DEF Gating, TrackTaps
  <2>2. step' = "centre" /\ Measured'
    BY <1>2, <1>8, <2>1, TapsTracked
  <2> QED BY <2>2
<1>9. CASE CentreGate
  <2>1. Measured
    BY <1>2, <1>9 DEF Gating, CentreGate
  <2>2. step' = "found" /\ (OffCentre <= 2 * OpaTap + DTap)'
    BY <1>2, <1>9, <2>1, CentreFound
  <2> QED BY <2>2
<1> QED BY <1>3, <1>4, <1>5, <1>6, <1>7, <1>8, <1>9 DEF GateStep
=============================================================================
