--------------------------- MODULE DaemonRunsProofs ---------------------------
(***************************************************************************)
(* Theorems about DaemonRuns, for any KEEP_RUNS, threshold, delays and     *)
(* bounds, and wherever a run ends.                                        *)
(***************************************************************************)
EXTENDS DaemonRuns, FiniteSetTheorems, TLAPS

(***************************************************************************)
(* The inductive invariant                                                 *)
(***************************************************************************)

\* Runs since the last recorded clean end, the running one included.
Since == crashes + (IF Recorded THEN 1 ELSE 0)

\* The table is an unbroken range that ends with the newest run, and a row is
\* only missing from it when KeepRuns newer ones are there.
RangeFrom(a) ==
  /\ rows = a .. last
  /\ a = 1 \/ a <= last - KeepRuns + 1

\* The running process has its row, which is the newest; a start may insert one.
RunOk ==
  /\ Recorded => last \in rows
  /\ pc = "boot" => last < MaxRuns

\* The run before the last Since ones ended cleanly, and none after it.
StreakOk ==
  /\ Since <= last
  /\ \A i \in rows : i > last - Since => i \notin stopped
  /\ last - Since \in rows => last - Since \in stopped

IInv ==
  /\ TypeOK /\ RunOk /\ StreakOk
  /\ \E a \in 1 .. (last + 1) : RangeFrom(a)

(***************************************************************************)
(* The streak                                                              *)
(***************************************************************************)

\* The trailing streak of a table that starts at row a: as far back as the last
\* clean end, or as the table goes.
LEMMA StreakIsRange ==
  ASSUME IInv, NEW a \in 1 .. (last + 1), RangeFrom(a)
  PROVE  TrailingUnclean = (IF a > last - Since THEN a ELSE last - Since + 1) .. last
<1>1. Since \in Nat /\ last \in Nat /\ Since <= last
  BY DEF IInv, TypeOK, Since, StreakOk
<1>2. \A i \in rows : i > last - Since => i \notin stopped
  BY DEF IInv, StreakOk
<1>3. last - Since \in rows => last - Since \in stopped
  BY DEF IInv, StreakOk
<1> HIDE DEF Since
<1>4. rows = a .. last
  BY DEF RangeFrom
<1>5. ASSUME NEW i \in TrailingUnclean
      PROVE  i \in (IF a > last - Since THEN a ELSE last - Since + 1) .. last
  <2>1. i \in rows /\ \A j \in rows : j >= i => j \notin stopped
    BY DEF TrailingUnclean
  <2>2. i \in Int /\ a <= i /\ i <= last
    BY <1>4, <2>1
  <2>3. CASE a > last - Since
    BY <2>2, <2>3, <1>1
  <2>4. CASE ~(a > last - Since)
    <3>1. last - Since \in rows
      BY <1>1, <1>4, <2>4
    <3>2. ~(last - Since >= i)
      BY <1>3, <2>1, <3>1
    <3> QED  BY <1>1, <2>2, <2>4, <3>2
  <2> QED  BY <2>3, <2>4
<1>6. ASSUME NEW i \in (IF a > last - Since THEN a ELSE last - Since + 1) .. last
      PROVE  i \in TrailingUnclean
  <2>1. i \in Int /\ a <= i /\ i <= last /\ i > last - Since
    BY <1>1
  <2>2. i \in rows
    BY <1>4, <2>1
  <2>3. \A j \in rows : j >= i => j \notin stopped
    <3> SUFFICES ASSUME NEW j \in rows, j >= i PROVE j \notin stopped
      OBVIOUS
    <3>1. j \in Int /\ j > last - Since
      BY <1>1, <1>4, <2>1
    <3> QED  BY <1>2, <3>1
  <2> QED  BY <2>2, <2>3 DEF TrailingUnclean
<1> QED
  BY <1>5, <1>6

\* With the journal an unbroken range, its count is that of the history.
LEMMA IInvStreak == IInv => StreakCounts
<1> SUFFICES ASSUME IInv PROVE StreakCounts
  OBVIOUS
<1>1. PICK a \in 1 .. (last + 1) : RangeFrom(a)
  BY DEF IInv
<1> DEFINE b == IF a > last - Since THEN a ELSE last - Since + 1
<1>2. Since \in Nat /\ last \in Nat /\ Since <= last /\ KeepRuns \in Nat \ {0}
  BY DaemonAssumption DEF IInv, TypeOK, Since, StreakOk
<1>3. b \in Int /\ Cardinality(TrailingUnclean) = IF b > last THEN 0 ELSE last - b + 1
  <2>1. TrailingUnclean = b .. last
    BY <1>1, StreakIsRange
  <2>2. b \in Int /\ last \in Int
    BY <1>1, <1>2
  <2> HIDE DEF b
  <2> QED  BY <2>1, <2>2, FS_Interval
<1>4. Since = crashes + (IF Recorded THEN 1 ELSE 0)
  BY DEF Since
<1>5. a \in 1 .. (last + 1) /\ (a = 1 \/ a <= last - KeepRuns + 1)
  BY <1>1 DEF RangeFrom
<1> DEFINE c == Cardinality(TrailingUnclean)
<1>6. c <= Since /\ (c = Since \/ c >= KeepRuns)
  <2> HIDE DEF Since, c
  <2>1. c = IF b > last THEN 0 ELSE last - b + 1
    BY <1>3 DEF c
  <2> QED  BY <1>2, <1>5, <2>1
<1> QED
  BY <1>4, <1>6 DEF StreakCounts

(***************************************************************************)
(* One step of each kind                                                   *)
(***************************************************************************)

\* The table, the clock and the streak stay as they are.
SameTable == UNCHANGED <<rows, last, stopped>>

\* A step that neither ends a run nor touches the table.
LEMMA QuietStep ==
  ASSUME IInv, SameTable, UNCHANGED crashes, Recorded' <=> Recorded,
         pc' = "boot" => pc = "boot" \/ last < MaxRuns
  PROVE  RunOk' /\ StreakOk' /\ \E a \in 1 .. (last' + 1) : RangeFrom(a)'
<1>1. rows' = rows /\ last' = last /\ stopped' = stopped /\ crashes' = crashes /\ Since' = Since
  BY DEF SameTable, Since
<1>2. RunOk' /\ StreakOk'
  BY <1>1 DEF IInv, RunOk, StreakOk
<1> QED
  BY <1>1, <1>2 DEF IInv, RangeFrom

\* The end of a run that leaves its row open: one crash more, no run under way.
LEMMA EndUncleanStep ==
  ASSUME IInv, Recorded, SameTable, crashes' = crashes + 1, pc' = "down"
  PROVE  RunOk' /\ StreakOk' /\ crashes' \in 0 .. MaxRuns
         /\ \E a \in 1 .. (last' + 1) : RangeFrom(a)'
<1>1. rows' = rows /\ last' = last /\ stopped' = stopped /\ ~Recorded'
  BY DEF SameTable, Recorded
<1>2. Since' = Since /\ crashes \in Nat /\ Since = crashes + 1
  BY <1>1 DEF Since, IInv, TypeOK
<1>3. RunOk' /\ StreakOk'
  BY <1>1, <1>2 DEF IInv, RunOk, StreakOk
<1>4. crashes' \in 0 .. MaxRuns
  BY <1>2, DaemonAssumption DEF IInv, StreakOk, TypeOK
<1> QED
  BY <1>1, <1>3, <1>4 DEF IInv, RangeFrom

\* finish_run, written or not.
LEMMA FinishStep ==
  ASSUME IInv, Recorded, FinishRun, pc' = "down", UNCHANGED <<rows, last>>
  PROVE  /\ RunOk' /\ StreakOk' /\ \E a \in 1 .. (last' + 1) : RangeFrom(a)'
         /\ crashes' \in 0 .. MaxRuns /\ stopped' \subseteq rows'
<1>1. CASE stopped' = stopped \cup {last} /\ crashes' = 0
  <2>1. ~Recorded' /\ Since' = 0 /\ last \in Nat
    BY <1>1 DEF Recorded, Since, IInv, TypeOK
  <2>2. rows \subseteq 1 .. last
    BY DEF IInv, TypeOK
  <2>3. StreakOk'
    BY <1>1, <2>1, <2>2 DEF StreakOk
  <2>4. RunOk'
    BY <2>1 DEF RunOk
  <2>5. stopped' \subseteq rows' /\ crashes' \in 0 .. MaxRuns
    BY <1>1, DaemonAssumption DEF IInv, RunOk, TypeOK
  <2> QED  BY <2>3, <2>4, <2>5 DEF IInv, RangeFrom
<1>2. CASE crashes' = crashes + 1 /\ UNCHANGED stopped
  BY <1>2, EndUncleanStep DEF SameTable, IInv, TypeOK
<1> QED
  BY <1>1, <1>2 DEF FinishRun

\* The INSERT of begin_run appends to the journal.
LEMMA BeginRunStep ==
  ASSUME IInv, BeginRun
  PROVE  IInv'
<1>1. PICK a \in 1 .. (last + 1) : RangeFrom(a)
  BY DEF IInv
<1>2. /\ pc = "boot" /\ pc' = "inserted" /\ last' = last + 1 /\ rows' = rows \cup {last + 1}
      /\ started' = [started EXCEPT ![last + 1] = now]
      /\ streak' = Cardinality(TrailingUnclean) /\ lastCrash' = NewestUnclean
      /\ UNCHANGED <<stopped, handler, until, now, asked, crashes>>
  BY DEF BeginRun
<1>3. TypeOK /\ last \in Nat /\ last + 1 \in 1 .. MaxRuns /\ rows \subseteq 1 .. last /\ stopped \subseteq rows
  BY <1>2, DaemonAssumption DEF IInv, TypeOK, RunOk
<1>4. ~Recorded /\ Recorded' /\ crashes \in Nat
  BY <1>2 DEF Recorded, Pcs, IInv, TypeOK
<1>5. Since' = Since + 1 /\ Since \in Nat /\ Since <= last
  BY <1>2, <1>4 DEF Since, IInv, StreakOk
<1>6. RunOk'
  BY <1>2, <1>4 DEF RunOk
<1>7. StreakOk'
  <2>1. last' - Since' = last - Since /\ Since' <= last'
    BY <1>2, <1>3, <1>5
  <2>2. last + 1 \notin stopped /\ last - Since # last + 1
    BY <1>3, <1>5
  <2>3. /\ \A i \in rows : i > last - Since => i \notin stopped
        /\ last - Since \in rows => last - Since \in stopped
    BY DEF IInv, StreakOk
  <2> HIDE DEF Since
  <2> QED  BY <1>2, <2>1, <2>2, <2>3 DEF StreakOk
<1>8. RangeFrom(a)' /\ a \in 1 .. (last' + 1)
  <2>1. rows = a .. last /\ (a = 1 \/ a <= last - KeepRuns + 1)
    BY <1>1 DEF RangeFrom
  <2>2. rows' = a .. (last + 1)
    BY <1>1, <1>2, <1>3, <2>1
  <2> QED  BY <1>1, <1>2, <1>3, <2>1, <2>2, DaemonAssumption DEF RangeFrom
<1>9. streak' \in 0 .. MaxRuns
  <2>1. TrailingUnclean \in SUBSET (1 .. last)
    BY <1>3 DEF TrailingUnclean
  <2>2. IsFiniteSet(1 .. last) /\ Cardinality(1 .. last) = last
    BY <1>3, FS_Interval
  <2>3. Cardinality(TrailingUnclean) <= last /\ Cardinality(TrailingUnclean) \in Nat
    BY <2>1, <2>2, FS_Subset, FS_CardinalityType
  <2> QED  BY <1>2, <1>3, <2>3, DaemonAssumption
<1>10. lastCrash' \in (0 .. MaxTime) \cup {NoTime}
  <2>1. last \in TrailingUnclean => last \in 1 .. MaxRuns
    BY <1>3, DaemonAssumption DEF TrailingUnclean
  <2> QED  BY <1>2, <1>3, <2>1 DEF NewestUnclean, TypeOK
<1>11. TypeOK'
  <2>1. started' \in [1 .. MaxRuns -> 0 .. MaxTime]
    BY <1>2, <1>3 DEF TypeOK
  <2>2. last' \in 0 .. MaxRuns /\ rows' \subseteq 1 .. last' /\ stopped' \subseteq rows'
    BY <1>2, <1>3
  <2>3. pc' \in Pcs
    BY <1>2 DEF Pcs
  <2> QED  BY <1>2, <1>3, <1>9, <1>10, <2>1, <2>2, <2>3 DEF TypeOK
<1> QED
  BY <1>6, <1>7, <1>8, <1>11 DEF IInv

\* The DELETE leaves the newest KeepRuns rows, the process's own among them.
LEMMA PruneRunsStep ==
  ASSUME IInv, PruneRuns
  PROVE  IInv'
<1>1. PICK a \in 1 .. (last + 1) : RangeFrom(a)
  BY DEF IInv
<1>2. /\ pc = "inserted" /\ pc' = "begun" /\ rows' = Kept /\ stopped' = stopped \cap Kept
      /\ UNCHANGED <<last, started, handler, streak, lastCrash, until, now, asked, crashes>>
  BY DEF PruneRuns
<1>3. last \in Nat /\ KeepRuns \in Nat \ {0} /\ Recorded /\ Recorded' /\ last \in rows
  BY <1>2, DaemonAssumption DEF IInv, TypeOK, RunOk, Recorded, Pcs
<1>4. Since' = Since
  BY <1>2, <1>3 DEF Since
<1>5. RunOk' /\ StreakOk'
  BY <1>2, <1>3, <1>4 DEF RunOk, StreakOk, IInv, Kept
<1>6. PICK b \in 1 .. (last + 1) : Kept = b .. last /\ (b = 1 \/ b <= last - KeepRuns + 1)
  <2>1. rows = a .. last /\ (a = 1 \/ a <= last - KeepRuns + 1)
    BY <1>1 DEF RangeFrom
  <2> DEFINE b == IF a > last - KeepRuns THEN a ELSE last - KeepRuns + 1
  <2>2. b \in 1 .. (last + 1) /\ (b = 1 \/ b <= last - KeepRuns + 1)
    BY <1>1, <1>3, <2>1
  <2>3. Kept = b .. last
    BY <1>1, <1>3, <2>1 DEF Kept
  <2> HIDE DEF b
  <2> QED  BY <2>2, <2>3
<1>7. TypeOK'
  <2>1. pc' \in Pcs
    BY <1>2 DEF Pcs
  <2> QED  BY <1>2, <2>1 DEF TypeOK, IInv, Kept
<1>8. RangeFrom(b)' /\ b \in 1 .. (last' + 1)
  BY <1>2, <1>6 DEF RangeFrom
<1> QED
  BY <1>5, <1>7, <1>8 DEF IInv

\* A power of two counts the subsets of an interval, so it is a natural number.
LEMMA PowerType ==
  ASSUME NEW n \in Nat
  PROVE  2^n \in Nat
<1>1. IsFiniteSet(1 .. n) /\ Cardinality(1 .. n) = n
  BY FS_Interval
<1>2. IsFiniteSet(SUBSET (1 .. n)) /\ Cardinality(SUBSET (1 .. n)) = 2^n
  BY <1>1, FS_SUBSET
<1> QED
  BY <1>2, FS_CardinalityType

\* The delay never passes CRASH_BACKOFF_CAP.
LEMMA CrashBackoffType ==
  ASSUME IInv
  PROVE  CrashBackoff \in 0 .. Cap
<1>1. CASE streak >= Threshold /\ lastCrash # NoTime /\ now - lastCrash <= Window
  <2>1. streak - Threshold \in Nat
    BY <1>1, DaemonAssumption DEF IInv, TypeOK
  <2>2. 2^(streak - Threshold) \in Nat
    BY <2>1, PowerType
  <2>3. Base * 2^(streak - Threshold) \in Nat
    BY <2>2, DaemonAssumption
  <2> QED  BY <1>1, <2>3, DaemonAssumption DEF CrashBackoff
<1> QED
  BY <1>1, DaemonAssumption DEF CrashBackoff

\* An empty journal.
LEMMA InitIInv == Init => IInv
<1> SUFFICES ASSUME Init PROVE IInv
  OBVIOUS
<1>1. TypeOK
  <2>1. 0 \in 0 .. MaxTime /\ 0 \in 0 .. MaxRuns
    BY DaemonAssumption
  <2>2. started \in [1 .. MaxRuns -> 0 .. MaxTime]
    BY <2>1 DEF Init
  <2>3. handler \in BOOLEAN /\ asked \in BOOLEAN /\ lastCrash \in (0 .. MaxTime) \cup {NoTime}
    BY DEF Init
  <2> QED  BY <2>1, <2>2, <2>3 DEF Init, TypeOK, Pcs
<1>2. Since = 0 /\ ~Recorded
  BY DEF Init, Since, Recorded
<1>3. RunOk /\ StreakOk
  BY <1>2 DEF Init, RunOk, StreakOk
<1>4. 1 \in 1 .. (last + 1) /\ RangeFrom(1)
  BY DEF Init, RangeFrom
<1> QED
  BY <1>1, <1>3, <1>4 DEF IInv

\* No step of the process breaks the invariant.
LEMMA NextIInv == IInv /\ [Next]_vars => IInv'
<1> SUFFICES ASSUME IInv, [Next]_vars PROVE IInv'
  OBVIOUS
<1> USE DEF journal, process
<1>0. TypeOK
  BY DEF IInv
<1>1. CASE BeginRun
  BY <1>1, BeginRunStep
<1>2. CASE PruneRuns
  BY <1>2, PruneRunsStep
<1>3. CASE DecideBackoff
  <2>1. CrashBackoff \in 0 .. Cap
    BY CrashBackoffType
  <2>2. TypeOK'
    BY <1>0, <1>3, <2>1, DaemonAssumption DEF DecideBackoff, TypeOK, Pcs
  <2> QED  BY <1>3, <2>2, QuietStep DEF DecideBackoff, IInv, SameTable, Recorded, Pcs
<1>4. CASE BackoffElapses
  <2>1. TypeOK'
    BY <1>0, <1>4 DEF BackoffElapses, TypeOK, Pcs
  <2> QED  BY <1>4, <2>1, QuietStep DEF BackoffElapses, IInv, SameTable, Recorded, Pcs
<1>5. CASE BackoffInterrupted \/ ServeRunEnds
  <2>1. Recorded /\ FinishRun /\ Down /\ UNCHANGED <<rows, last, started, streak, lastCrash, until, now>>
    BY <1>5 DEF BackoffInterrupted, ServeRunEnds, Recorded, Pcs
  <2>2. /\ RunOk' /\ StreakOk' /\ \E a \in 1 .. (last' + 1) : RangeFrom(a)'
        /\ crashes' \in 0 .. MaxRuns /\ stopped' \subseteq rows'
    BY <2>1, FinishStep DEF Down
  <2>3. TypeOK'
    BY <1>0, <2>1, <2>2 DEF TypeOK, Down, Pcs
  <2> QED  BY <2>2, <2>3 DEF IInv
<1>6. CASE InitFails \/ Killed \/ (Recorded /\ EndUnclean)
  <2>1. Recorded /\ EndUnclean
    BY <1>6 DEF InitFails, Killed, Recorded, Pcs
  <2>2. RunOk' /\ StreakOk' /\ crashes' \in 0 .. MaxRuns /\ \E a \in 1 .. (last' + 1) : RangeFrom(a)'
    BY <2>1, EndUncleanStep DEF EndUnclean, Down, SameTable
  <2>3. TypeOK'
    BY <1>0, <2>1, <2>2 DEF TypeOK, EndUnclean, Down, Pcs
  <2> QED  BY <2>2, <2>3 DEF IInv
<1>7. CASE InitDone
  <2>1. TypeOK'
    BY <1>0, <1>7 DEF InitDone, TypeOK, Pcs
  <2> QED  BY <1>7, <2>1, QuietStep DEF InitDone, IInv, SameTable, Recorded, Pcs
<1>8. CASE StopComponent
  <2>1. pc \in {"mcp", "scheduler", "drainer"} /\ pc' \in {"scheduler", "drainer", "finish"}
    BY <1>8 DEF StopComponent, Stages
  <2>2. TypeOK'
    BY <1>0, <1>8, <2>1 DEF StopComponent, TypeOK, Pcs
  <2> QED  BY <1>8, <2>1, <2>2, QuietStep DEF StopComponent, IInv, SameTable, Recorded, Pcs
<1>9. CASE Start
  <2>1. TypeOK'
    BY <1>0, <1>9 DEF Start, TypeOK, Pcs
  <2> QED  BY <1>9, <2>1, QuietStep DEF Start, IInv, SameTable, Recorded
<1>10. CASE BootFails \/ (pc = "boot" /\ Down /\ UNCHANGED <<journal, streak, lastCrash, until, now, crashes>>)
  <2>1. TypeOK'
    BY <1>0, <1>10 DEF BootFails, Down, TypeOK, Pcs
  <2> QED  BY <1>10, <2>1, QuietStep DEF BootFails, Down, IInv, SameTable, Recorded
<1>11. CASE Sigterm
  <2>1. CASE pc = "boot" /\ Down /\ UNCHANGED <<journal, streak, lastCrash, until, now, crashes>>
    BY <2>1, <1>10
  <2>2. CASE Recorded /\ EndUnclean
    BY <2>2, <1>6
  <2>3. CASE /\ pc # "down" /\ asked' = TRUE
             /\ pc' = IF pc = "serving" THEN "mcp" ELSE pc
             /\ UNCHANGED <<journal, handler, streak, lastCrash, until, now, crashes>>
    <3>1. TypeOK'
      BY <1>0, <2>3 DEF TypeOK, Pcs
    <3> QED  BY <2>3, <3>1, QuietStep DEF IInv, SameTable, Recorded, Pcs
  <2> QED  BY <1>11, <2>1, <2>2, <2>3 DEF Sigterm
<1>12. CASE Tick
  <2>1. TypeOK'
    BY <1>0, <1>12, DaemonAssumption DEF Tick, TypeOK
  <2> QED  BY <1>12, <2>1, QuietStep DEF Tick, IInv, SameTable, Recorded
<1>13. CASE UNCHANGED vars
  <2>1. TypeOK'
    BY <1>0, <1>13 DEF vars, TypeOK
  <2> QED  BY <1>13, <2>1, QuietStep DEF vars, IInv, SameTable, Recorded
<1> QED
  BY <1>1, <1>2, <1>3, <1>4, <1>5, <1>6, <1>7, <1>8, <1>9, <1>10, <1>11, <1>12, <1>13
     DEF Next, ProcessStep

\* The invariant of the journal holds always.
LEMMA Invariance == Spec => []IInv
BY InitIInv, NextIInv, PTL DEF Spec

(***************************************************************************)
(* Theorems                                                                *)
(***************************************************************************)

\* Every variable keeps its type: in particular the delay of crash_backoff ends
\* within Cap, and finish_run closes a row that is there.
THEOREM TypeCorrect == Spec => []TypeOK
<1>1. IInv => TypeOK
  BY DEF IInv
<1> QED  BY <1>1, Invariance, PTL

\* The streak begin_run computes is the number of runs since the last recorded
\* clean end, as far as the journal reaches, for every KEEP_RUNS and wherever
\* runs were cut off.
THEOREM StreakIsCounted == Spec => []StreakCounts
BY Invariance, IInvStreak, PTL
=============================================================================
