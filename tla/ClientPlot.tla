----------------------------- MODULE ClientPlot -----------------------------
(***************************************************************************)
(* How the client (client/client.py:73-97) cuts the samples into trigger   *)
(* intervals and takes the flag off their counts.  It gets the counter's   *)
(* reports in order, so that each report is handed to it as it is made;    *)
(* what delays and packages them is modelled in other modules.             *)
(***************************************************************************)
EXTENDS PulseHistory, Integers

VARIABLES
  clientTmp,   \* tmp: the last stamp of the interval being collected, or 0
  drawn        \* the y of the last point

plotVars == <<histVars, clientTmp, drawn>>

CInit == HInit /\ clientTmp = 0 /\ drawn = 0

\* The second half of a word: the count with the flag in its top bit.
Raw(word) == word.count + (IF word.flag THEN CountMod ELSE 0)

\* Mutant: equal stamps count as going on.
CollectEqual(word) ==
  /\ word.stamp >= clientTmp
  /\ drawn' = Raw(word)
  /\ clientTmp' = word.stamp

Collect(word) ==
  /\ word.stamp > clientTmp
  /\ drawn' = Raw(word)
  /\ clientTmp' = word.stamp

\* The interval is drawn and the next one starts empty.
Draw(word) ==
  /\ word.stamp <= clientTmp
  /\ drawn' = Raw(word) - CountMod
  /\ clientTmp' = 0

Plot(word) == Collect(word) \/ Draw(word)

\* The next connection, and with it the next package.
NewPackage ==
  /\ clientTmp' = 0
  /\ emitted' = FALSE
  /\ UNCHANGED <<pcVars, seen, drawn>>

CNext ==
  \/ HNext /\ IF emitted' THEN Plot(Cnt_Stream') ELSE UNCHANGED <<clientTmp, drawn>>
  \/ NewPackage

CSpec == CInit /\ [][CNext]_plotVars

-----------------------------------------------------------------------------
\* In a window nobody disturbs, the client starts a new interval exactly at
\* the sample that follows a flagged one (client.py:79, Pulse_cnt.v:60,87),
\* unless the sample before opened a package or an interval.
CutsAfterFlag ==
  [][emitted' /\ steady /\ ~wrapped /\ clientTmp # 0 =>
       (clientTmp' = 0 <=> lastMark)]_plotVars

\* The sample from which the client takes the flag off is drawn as the count
\* it reports (client.py:84-86, README.md:40), in windows nobody disturbs.
UnflaggedIsCount ==
  [][emitted' /\ steady /\ ~wrapped /\ clientTmp # 0 /\ clientTmp' = 0 =>
       drawn' = Cnt_Stream'.count]_plotVars
=============================================================================
