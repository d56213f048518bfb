------------------------------ MODULE SdramBoards ------------------------------
(***************************************************************************)
(* Calibration on families of boards around an ordinary one: in one group  *)
(* the gate lies elsewhere, or bits read or write at other distances, or   *)
(* the mask is taken elsewhere; or the memory answers later.               *)
(***************************************************************************)
EXTENDS Calibration

Ordinary == [gate |-> [first |-> 950, length |-> Clock],
             read |-> [b \in Bits |-> <<-1, 3>>],
             write |-> [b \in Bits |-> <<-2, 3>>],
             mask |-> -2 .. 3,
             pattern |-> 0]

Shifted(lows, widths) == {<<lo, lo + w>> : lo \in lows, w \in widths}
WithEyes(eyes) ==
  {e \in Eyes : e[0] \in eyes /\ e[1] \in eyes /\ e[2] = <<-1, 3>>}

Gates == {[first |-> n, length |-> m] :
            n \in {k \in 0 .. Round - 1 : k % 37 = 0},
            m \in {20, 100, 200, 310, 400, 688}}
ReadEyesTried == WithEyes(Shifted({-5, -3, -1, 1, 2, 5}, {0, 2, 5}))
WriteEyesTried == WithEyes(Shifted({-7, -3, -2, 0, 2}, {0, 2, 4}))

OneGroup ==
  {[Ordinary EXCEPT !.gate = w] : w \in Gates}
  \cup {[Ordinary EXCEPT !.read = e, !.pattern = 2] : e \in ReadEyesTried}
  \cup {[Ordinary EXCEPT !.read = [b \in Bits |-> e]] : e \in Shifted(-TapMax .. TapMax - 1, {0, 1})}
  \cup {[Ordinary EXCEPT !.write = e, !.pattern = 4] : e \in WriteEyesTried}
  \cup {[Ordinary EXCEPT !.mask = m] : m \in SUBSET (-3 .. 4)}
  \cup {[Ordinary EXCEPT !.pattern = n] : n \in {1, 3, StaticTaps + 1}}

FewBoards ==
  {[groups |-> [g \in Groups |-> IF g = 0 THEN x ELSE Ordinary], rlat |-> 7, enough |-> 10]
     : x \in OneGroup}
  \cup {[groups |-> [g \in Groups |-> Ordinary], rlat |-> n, enough |-> m]
          : n \in {7, 20}, m \in {0, 1, 10, 23, 24, 31, 32}}
  \cup {[groups |-> [g \in Groups |-> IF g = 0 THEN Ordinary ELSE [Ordinary EXCEPT !.read = e]],
         rlat |-> 7, enough |-> 10] : e \in WithEyes(Shifted({-5, 4}, {0, 2}))}

\* The program has ended, the board goes on.
Over == pc = "done" /\ UNCHANGED calVars

\* The sequencer's processor does nothing else and is never stopped: until it
\* is done it goes on.  (This is WF_calVars(CalNext), as CalNext is enabled
\* until then, which the run checks as the absence of deadlock; TLC would
\* compute ENABLED CalNext by running the sweeps without remembering
\* anything.)
GoesOn == []<>(pc = "done") \/ []<><<CalNext>>_calVars

SdramInit == board \in FewBoards /\ CalInit

SdramSpec ==
  /\ SdramInit
  /\ [][CalNext \/ Over]_calVars
  /\ GoesOn
=============================================================================
