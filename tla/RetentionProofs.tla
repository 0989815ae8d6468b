--------------------------- MODULE RetentionProofs ---------------------------
(***************************************************************************)
(* For any number of tenants, monitors, days and batches: every result is  *)
(* summarised before it is deleted, a summary keeps its numbers, and the   *)
(* page shows all of today.                                                *)
(***************************************************************************)
EXTENDS Retention, TLAPS

\* A result is in the summary of its day, or there is a reason that it is not.
Counted(r) == KeyOf(r) \in DOMAIN summaries /\ r \in summaries[KeyOf(r)]
Accounted(r) == Counted(r) \/ r \in early \/ r.day \in crossed

\* A row of daily_uptime is about a day that is over.
RowsAreOfTheirDay ==
    \A k \in DOMAIN summaries :
        k[2] < today /\ \A r \in summaries[k] : KeyOf(r) = k

\* What the rollup has still to look at is there to be looked at, or was deleted
\* early; a row it wrote without recording its progress has all of its day.
AheadIsThere ==
    \A r \in recorded : AheadOfProgress(r) => r \in results \cup early
AheadIsSummarised ==
    \A k \in DOMAIN summaries : \A r \in recorded :
        KeyOf(r) = k /\ AheadOfProgress(r) => r \in summaries[k] \cup early

TodayIsThere == \A r \in recorded : r.day = today => r \in results

\* What a stage of a pass may rely on.
RollupReadProgress == pass.stage = "rollup" => pass.last = last
RollupCounted ==
    pass.stage \in {"downtime", "progress"} =>
        \A r \in recorded : r.day < today => Accounted(r)
PruneFollowsRollup ==
    pass.stage = "prune" /\ faults = 0 =>
        last # None /\ today - 1 - last <= pass.midnights

RowsInv == TypeOK /\ RowsAreOfTheirDay /\ AheadIsThere /\ AheadIsSummarised /\ TodayIsThere
PassInv == RollupReadProgress /\ RollupCounted /\ PruneFollowsRollup
IInv == RowsInv /\ PassInv /\ NothingIsLost

-----------------------------------------------------------------------------

(* The loop of PruneBatch is never offered a result of today or, in a pass     *)
(* without failures, one ahead of the progress: a pass is shorter than any     *)
(* plan keeps results.                                                         *)
LEMMA ExpiredIsBehind ==
    ASSUME TypeOK, NEW r \in Expired
    PROVE  /\ r \in results /\ r \in recorded
           /\ r.day < today
           /\ PruneFollowsRollup /\ pass.stage = "prune" /\ faults = 0
                => ~AheadOfProgress(r)
<1> DEFINE kept == keep[TenantOf[r.monitor]]
<1>1. r \in results /\ r \in recorded /\ r \in Result
  BY DEF Expired, TypeOK
<1>2. r.day \in Nat /\ TenantOf[r.monitor] \in Tenants
  BY <1>1, RetentionAssumption DEF Result
<1>3. kept \in Nat /\ kept > MaxMidnights /\ MaxMidnights \in Nat
  BY <1>2, RetentionAssumption DEF TypeOK
<1>4. r.day < today - kept \/ r.day = today - kept
  BY DEF Expired
<1>5. today \in Nat /\ last \in Int \cup {None} /\ pass.midnights \in 0 .. MaxMidnights
  BY DEF TypeOK, Pass
<1> HIDE DEF kept
<1>6. r.day < today
  BY <1>2, <1>3, <1>4, <1>5
<1>7. last # None /\ today - 1 - last <= pass.midnights => r.day <= last
  BY <1>2, <1>3, <1>4, <1>5
<1>8. QED
  BY <1>1, <1>2, <1>5, <1>6, <1>7 DEF PruneFollowsRollup, AheadOfProgress

(* last_rollup_day only moves on. *)
LEMMA ProgressMovesOn ==
    ASSUME TypeOK, RecordProgress, NEW r, r.day \in Nat
    PROVE  /\ last' # None
           /\ AheadOfProgress(r)' => AheadOfProgress(r)
<1>1. today \in Nat /\ last' = today - 1 /\ today - 1 # None
  BY RetentionAssumption DEF TypeOK, RecordProgress
<1>2. last # None => last \in Int /\ last <= today - 1
  BY <1>1, RetentionAssumption DEF TypeOK
<1>3. QED
  BY <1>1, <1>2 DEF AheadOfProgress

-----------------------------------------------------------------------------
(* Rollup. *)

\* What a statement that writes neither tables nor the clock keeps.
LEMMA RowsStay ==
    ASSUME RowsInv, NothingIsLost, pass' \in Pass, faults' \in Nat, faults' >= faults,
           measured' \subseteq DOMAIN summaries, clock' = clock,
           results' = results, summaries' = summaries, last' = last, early' = early
    PROVE  RowsInv' /\ NothingIsLost' /\ \A r : Accounted(r)' <=> Accounted(r)
<1>1. TypeOK'
  BY DEF RowsInv, TypeOK, clock, Result
<1>2. RowsAreOfTheirDay' /\ TodayIsThere'
  BY DEF RowsInv, RowsAreOfTheirDay, TodayIsThere, clock, KeyOf
<1>3. AheadIsThere' /\ AheadIsSummarised'
  BY DEF RowsInv, AheadIsThere, AheadIsSummarised, AheadOfProgress, clock, KeyOf
<1>4. NothingIsLost'
  BY DEF RowsInv, NothingIsLost, clock, KeyOf, TypeOK
<1>5. \A r : Accounted(r)' <=> Accounted(r)
  BY DEF Accounted, Counted, clock, KeyOf
<1>6. QED
  BY <1>1, <1>2, <1>3, <1>4, <1>5 DEF RowsInv

LEMMA RollupStartsStep == ASSUME IInv, RollupStarts PROVE IInv'
<1>1. pass' = [stage |-> "rollup", last |-> last, midnights |-> 0]
  BY DEF RollupStarts
<1>2. pass' \in Pass
  BY <1>1, RetentionAssumption DEF IInv, RowsInv, TypeOK, Pass, Stages
<1>3. RowsInv' /\ NothingIsLost'
  BY <1>2, RowsStay DEF IInv, RowsInv, TypeOK, RollupStarts
<1>4. PassInv'
  BY <1>1 DEF PassInv, RollupReadProgress, RollupCounted, PruneFollowsRollup, RollupStarts
<1>5. QED
  BY <1>3, <1>4 DEF IInv

LEMMA MeasureDowntimeStep == ASSUME IInv, MeasureDowntime PROVE IInv'
<1>1. pass.stage = "downtime" /\ pass' = [pass EXCEPT !.stage = "progress"] /\ pass \in Pass
  BY DEF MeasureDowntime, IInv, RowsInv, TypeOK
<1>2. pass' \in Pass /\ pass'.stage = "progress"
  BY <1>1 DEF Pass, Stages
<1>3. RowsInv' /\ NothingIsLost' /\ \A r : Accounted(r)' <=> Accounted(r)
  <2>1. faults' \in Nat /\ faults' >= faults /\ measured' \subseteq DOMAIN summaries
    BY DEF MeasureDowntime, Fault, IInv, RowsInv, TypeOK
  <2>2. QED
    BY <1>2, <2>1, RowsStay DEF IInv, MeasureDowntime
<1>4. RollupCounted'
  BY <1>1, <1>2, <1>3 DEF IInv, PassInv, RollupCounted, MeasureDowntime, clock
<1>5. RollupReadProgress' /\ PruneFollowsRollup'
  BY <1>2 DEF RollupReadProgress, PruneFollowsRollup
<1>6. QED
  BY <1>3, <1>4, <1>5 DEF IInv, PassInv

LEMMA RollupFailsStep == ASSUME IInv, RollupFails PROVE IInv'
<1>1. pass' = [pass EXCEPT !.stage = "prune"] /\ pass \in Pass
  BY DEF RollupFails, IInv, RowsInv, TypeOK
<1>2. pass' \in Pass /\ pass'.stage = "prune"
  BY <1>1 DEF Pass, Stages
<1>3. faults' \in Nat /\ faults' > 0 /\ faults' >= faults
  BY DEF RollupFails, Fault, IInv, RowsInv, TypeOK
<1>4. RowsInv' /\ NothingIsLost'
  BY <1>2, <1>3, RowsStay DEF IInv, RowsInv, TypeOK, RollupFails
<1>5. PassInv'
  BY <1>2, <1>3 DEF PassInv, RollupReadProgress, RollupCounted, PruneFollowsRollup
<1>6. QED
  BY <1>4, <1>5 DEF IInv

LEMMA PassEndsStep == ASSUME IInv, PassEnds PROVE IInv'
<1>1. pass' = Idle
  BY DEF PassEnds
<1>2. pass' \in Pass /\ pass'.stage = "idle"
  BY <1>1, RetentionAssumption DEF Pass, Stages, Idle
<1>3. faults' \in Nat /\ faults' >= faults
  BY DEF PassEnds, Fault, IInv, RowsInv, TypeOK
<1>4. RowsInv' /\ NothingIsLost'
  BY <1>2, <1>3, RowsStay DEF IInv, RowsInv, TypeOK, PassEnds
<1>5. PassInv'
  BY <1>2 DEF PassInv, RollupReadProgress, RollupCounted, PruneFollowsRollup
<1>6. QED
  BY <1>4, <1>5 DEF IInv

LEMMA RecordProgressStep == ASSUME IInv, RecordProgress PROVE IInv'
<1>1. /\ pass.stage = "progress" /\ pass' = [pass EXCEPT !.stage = "prune"]
      /\ last' = today - 1 /\ pass \in Pass /\ today \in Nat
      /\ UNCHANGED <<clock, results, summaries, measured, early, faults>>
  BY DEF RecordProgress, IInv, RowsInv, TypeOK
<1>2. pass' \in Pass /\ pass'.stage = "prune" /\ pass'.midnights \in Nat
  BY <1>1, RetentionAssumption DEF Pass, Stages
<1>3. \A r \in recorded : r.day \in Nat
  BY DEF IInv, RowsInv, TypeOK, Result
<1>4. last' # None /\ \A r \in recorded : AheadOfProgress(r)' => AheadOfProgress(r)
  <2>1. last' # None
    BY <1>1, RetentionAssumption
  <2>2. ASSUME NEW r \in recorded PROVE AheadOfProgress(r)' => AheadOfProgress(r)
    BY <1>3, ProgressMovesOn DEF IInv, RowsInv
  <2>3. QED
    BY <2>1, <2>2
<1>5. TypeOK'
  BY <1>1, <1>2 DEF IInv, RowsInv, TypeOK, clock, Result
<1>6. RowsAreOfTheirDay' /\ TodayIsThere'
  BY <1>1 DEF IInv, RowsInv, RowsAreOfTheirDay, TodayIsThere, clock, KeyOf
<1>7. AheadIsThere' /\ AheadIsSummarised'
  BY <1>1, <1>4 DEF IInv, RowsInv, AheadIsThere, AheadIsSummarised, clock, KeyOf
<1>8. NothingIsLost'
  <2>1. \A r \in recorded : r.day < today => Accounted(r)
    BY <1>1 DEF IInv, PassInv, RollupCounted
  <2>2. \A r \in recorded' : r.day <= last' => Accounted(r)
    BY <1>1, <1>3, <2>1 DEF clock
  <2>3. QED
    BY <1>1, <2>2 DEF IInv, NothingIsLost, Accounted, Counted, clock, KeyOf
<1>9. PassInv'
  <2>1. today' - 1 - last' <= pass'.midnights
    BY <1>1, <1>2 DEF clock
  <2>2. QED
    BY <1>2, <1>4, <2>1 DEF PassInv, RollupReadProgress, RollupCounted, PruneFollowsRollup
<1>10. QED
  BY <1>5, <1>6, <1>7, <1>8, <1>9 DEF IInv, RowsInv

(* The INSERT summarises days that are over, from all that is left of them.    *)
LEMMA SummariseStep == ASSUME IInv, Summarise PROVE IInv'
<1> DEFINE keys == {KeyOf(r) : r \in Completed}
           left(k) == {r \in results : KeyOf(r) = k}
<1>1. /\ pass.stage = "rollup" /\ pass' = [pass EXCEPT !.stage = "downtime"]
      /\ summaries' = [k \in DOMAIN summaries \cup keys |->
             IF k \in keys THEN left(k) ELSE summaries[k]]
      /\ UNCHANGED <<clock, results, measured, last, early, faults>>
  BY DEF Summarise
<1>2. pass.last = last /\ pass' \in Pass /\ pass'.stage = "downtime"
  BY <1>1 DEF IInv, PassInv, RollupReadProgress, RowsInv, TypeOK, Pass, Stages
<1>3. ASSUME NEW k \in keys
      PROVE  /\ k \in monitors \X Nat /\ k[2] < today
             /\ \A r \in recorded : KeyOf(r) = k => AheadOfProgress(r)
  <2>1. PICK c \in Completed : KeyOf(c) = k
    OBVIOUS
  <2>2. /\ c \in recorded /\ c.monitor \in monitors /\ c.day \in Nat
        /\ c.day < today /\ AheadOfProgress(c)
    BY <1>2 DEF Completed, AheadOfProgress, IInv, RowsInv, TypeOK, Result
  <2>3. k = <<c.monitor, c.day>>
    BY <2>1 DEF KeyOf
  <2>4. ASSUME NEW r \in recorded, KeyOf(r) = k PROVE AheadOfProgress(r)
    BY <2>2, <2>3, <2>4 DEF KeyOf, AheadOfProgress
  <2>5. QED
    BY <2>2, <2>3, <2>4
<1>4. \A k \in keys : left(k) \subseteq recorded /\ \A r \in left(k) : KeyOf(r) = k
  BY DEF IInv, RowsInv, TypeOK
<1> HIDE DEF keys, left
<1>5. DOMAIN summaries' = DOMAIN summaries \cup keys
  BY <1>1
<1>6. ASSUME NEW k \in DOMAIN summaries', k \in keys PROVE summaries'[k] = left(k)
  BY <1>1, <1>6
<1>7. ASSUME NEW k \in DOMAIN summaries', k \notin keys
      PROVE  k \in DOMAIN summaries /\ summaries'[k] = summaries[k]
  BY <1>1, <1>5, <1>7
<1>8. TypeOK'
  <2>1. DOMAIN summaries' \subseteq monitors' \X Nat
    BY <1>1, <1>3, <1>5 DEF IInv, RowsInv, TypeOK, clock
  <2>2. \A k \in DOMAIN summaries' : summaries'[k] \in SUBSET recorded'
    BY <1>1, <1>4, <1>6, <1>7 DEF IInv, RowsInv, TypeOK, clock
  <2>3. summaries' \in [DOMAIN summaries' -> SUBSET recorded']
    BY <1>1, <1>5, <2>2
  <2>4. measured' \subseteq DOMAIN summaries'
    BY <1>1, <1>5 DEF IInv, RowsInv, TypeOK
  <2>5. QED
    BY <1>1, <1>2, <2>1, <2>3, <2>4 DEF IInv, RowsInv, TypeOK, clock, Result
<1>9. RowsAreOfTheirDay' /\ TodayIsThere'
  <2>1. ASSUME NEW k \in DOMAIN summaries'
        PROVE  k[2] < today' /\ \A r \in summaries'[k] : KeyOf(r) = k
    <3>1. CASE k \in keys
      BY <1>1, <1>3, <1>4, <1>6, <3>1 DEF clock
    <3>2. CASE k \notin keys
      BY <1>1, <1>7, <3>2 DEF IInv, RowsInv, RowsAreOfTheirDay, clock
    <3>3. QED
      BY <3>1, <3>2
  <2>2. QED
    BY <1>1, <2>1 DEF IInv, RowsInv, RowsAreOfTheirDay, TodayIsThere, clock, KeyOf
<1>10. AheadIsThere'
  BY <1>1 DEF IInv, RowsInv, AheadIsThere, AheadOfProgress, clock
<1>11. AheadIsSummarised'
  <2>1. ASSUME NEW k \in DOMAIN summaries', NEW r \in recorded,
               KeyOf(r) = k, AheadOfProgress(r)
        PROVE  r \in summaries'[k] \cup early
    <3>1. CASE k \in keys
      BY <1>6, <2>1, <3>1 DEF IInv, RowsInv, AheadIsThere, left
    <3>2. CASE k \notin keys
      BY <1>7, <2>1, <3>2 DEF IInv, RowsInv, AheadIsSummarised
    <3>3. QED
      BY <3>1, <3>2
  <2>2. QED
    BY <1>1, <2>1 DEF AheadIsSummarised, AheadOfProgress, clock, KeyOf
<1>12. ASSUME NEW r \in recorded, ~AheadOfProgress(r), Accounted(r)
       PROVE  Accounted(r)'
  <2>1. KeyOf(r) \notin keys
    BY <1>3, <1>12
  <2>2. QED
    BY <1>1, <1>5, <1>7, <1>12, <2>1 DEF Accounted, Counted, clock, KeyOf
<1>13. ASSUME NEW r \in recorded, last # None, r.day <= last
       PROVE  Accounted(r) /\ ~AheadOfProgress(r)
  <2>1. r.day \in Nat /\ last \in Int
    BY <1>13 DEF IInv, RowsInv, TypeOK, Result
  <2>2. QED
    BY <1>13, <2>1 DEF IInv, NothingIsLost, Accounted, Counted, AheadOfProgress
<1>14. NothingIsLost'
  BY <1>1, <1>12, <1>13 DEF IInv, NothingIsLost, Accounted, Counted, clock, KeyOf
<1>15. RollupCounted'
  <2>1. ASSUME NEW r \in recorded, r.day < today PROVE Accounted(r)'
    <3>1. r.day \in Nat /\ (last # None => last \in Int) /\ today \in Nat
      BY DEF IInv, RowsInv, TypeOK, Result
    <3>2. CASE ~AheadOfProgress(r)
      BY <1>12, <1>13, <3>1, <3>2 DEF AheadOfProgress
    <3>3. CASE AheadOfProgress(r) /\ r \in results
      <4>1. r \in Completed
        BY <1>2, <2>1, <3>3 DEF Completed, AheadOfProgress
      <4>2. KeyOf(r) \in keys
        BY <4>1 DEF keys
      <4>3. r \in summaries'[KeyOf(r)]
        BY <1>5, <1>6, <3>3, <4>2 DEF left
      <4>4. QED
        BY <1>5, <4>2, <4>3 DEF Accounted, Counted, KeyOf
    <3>4. CASE AheadOfProgress(r) /\ r \notin results
      BY <1>1, <3>4 DEF IInv, RowsInv, AheadIsThere, Accounted
    <3>5. QED
      BY <3>2, <3>3, <3>4
  <2>2. QED
    BY <1>1, <2>1 DEF RollupCounted, clock
<1>16. RollupReadProgress' /\ PruneFollowsRollup'
  BY <1>2 DEF RollupReadProgress, PruneFollowsRollup
<1>17. QED
  BY <1>8, <1>9, <1>10, <1>11, <1>14, <1>15, <1>16 DEF IInv, RowsInv, PassInv

-----------------------------------------------------------------------------
(* Prune. *)

LEMMA PruneStep == ASSUME IInv, NEW batch \in SUBSET Expired, PruneBatch(batch) PROVE IInv'
<1> DEFINE ahead == {r \in batch : AheadOfProgress(r)}
<1>1. /\ pass.stage = "prune" /\ pass \in Pass
      /\ results' = results \ batch
      /\ early' = early \cup ahead
      /\ UNCHANGED <<clock, summaries, measured, last, faults>>
  BY DEF PruneBatch, IInv, RowsInv, TypeOK
<1>2. pass' = pass \/ pass' = Idle
  BY DEF PruneBatch
<1>3. pass' \in Pass
  BY <1>1, <1>2, RetentionAssumption DEF Pass, Stages, Idle
<1>4. \A r \in batch : r \in recorded /\ r.day < today
  BY ExpiredIsBehind DEF IInv, RowsInv
<1>5. faults = 0 => \A r \in batch : ~AheadOfProgress(r)
  BY <1>1, ExpiredIsBehind DEF IInv, RowsInv, PassInv
<1>6. ahead \subseteq recorded /\ (faults = 0 => ahead = {})
  BY <1>4, <1>5
<1>7. \A r \in batch : AheadOfProgress(r) => r \in ahead
  OBVIOUS
<1> HIDE DEF ahead
<1>8. TypeOK'
  <2>1. results' \subseteq recorded' /\ early' \subseteq recorded'
    BY <1>1, <1>6 DEF IInv, RowsInv, TypeOK, clock
  <2>2. QED
    BY <1>1, <1>3, <2>1 DEF IInv, RowsInv, TypeOK, clock, Result
<1>9. RowsAreOfTheirDay'
  BY <1>1 DEF IInv, RowsInv, RowsAreOfTheirDay, clock, KeyOf
<1>10. TodayIsThere'
  <2>1. \A r \in recorded : r.day \in Nat
    BY DEF IInv, RowsInv, TypeOK, Result
  <2>2. today \in Nat
    BY DEF IInv, RowsInv, TypeOK
  <2>3. \A r \in batch : r.day # today
    BY <1>4, <2>1, <2>2
  <2>4. QED
    BY <1>1, <2>3 DEF IInv, RowsInv, TodayIsThere, clock
<1>11. AheadIsThere' /\ AheadIsSummarised'
  BY <1>1, <1>7 DEF IInv, RowsInv, AheadIsThere, AheadIsSummarised, AheadOfProgress,
     clock, KeyOf
<1>12. NothingIsLost'
  <2>1. early' # {} => faults > 0
    BY <1>1, <1>6 DEF IInv, RowsInv, TypeOK, NothingIsLost
  <2>2. QED
    BY <1>1, <2>1 DEF IInv, NothingIsLost, clock, KeyOf
<1>13. PassInv'
  BY <1>1, <1>2 DEF IInv, PassInv, RollupReadProgress, RollupCounted, PruneFollowsRollup,
     Idle, clock
<1>14. QED
  BY <1>8, <1>9, <1>10, <1>11, <1>12, <1>13 DEF IInv, RowsInv

-----------------------------------------------------------------------------
(* The rest of the system. *)

LEMMA RecordResultStep == ASSUME IInv, NEW m, RecordResult(m) PROVE IInv'
<1> DEFINE new == [monitor |-> m, day |-> today, hour |-> hour]
<1>1. /\ m \in monitors
      /\ results' = results \cup {new} /\ recorded' = recorded \cup {new}
      /\ UNCHANGED <<today, hour, monitors, keep, crossed, summaries, measured,
                     last, pass, early, faults>>
  BY DEF RecordResult
<1>2. new \in Result /\ new.monitor = m /\ new.day = today /\ today \in Nat
  BY <1>1 DEF IInv, RowsInv, TypeOK, Result
<1>3. KeyOf(new) = <<m, today>>
  BY <1>2 DEF KeyOf
<1> HIDE DEF new
<1>4. \A k \in DOMAIN summaries : KeyOf(new) # k
  BY <1>2, <1>3 DEF IInv, RowsInv, RowsAreOfTheirDay, TypeOK
<1>5. TypeOK'
  <2>1. \A r \in recorded' : r.monitor \in monitors' /\ r.day <= today'
    BY <1>1, <1>2 DEF IInv, RowsInv, TypeOK
  <2>2. summaries' \in [DOMAIN summaries' -> SUBSET recorded']
    BY <1>1 DEF IInv, RowsInv, TypeOK
  <2>3. recorded' \subseteq Result /\ results' \subseteq recorded'
    BY <1>1, <1>2 DEF IInv, RowsInv, TypeOK
  <2>4. early' \subseteq recorded'
    BY <1>1 DEF IInv, RowsInv, TypeOK
  <2>5. QED
    BY <1>1, <2>1, <2>2, <2>3, <2>4 DEF IInv, RowsInv, TypeOK
<1>6. RowsAreOfTheirDay' /\ TodayIsThere' /\ AheadIsThere'
  BY <1>1 DEF IInv, RowsInv, RowsAreOfTheirDay, TodayIsThere, AheadIsThere,
     AheadOfProgress, KeyOf
<1>7. AheadIsSummarised'
  BY <1>1, <1>4 DEF IInv, RowsInv, AheadIsSummarised, AheadOfProgress, KeyOf
<1>8. NothingIsLost'
  <2>1. last # None => ~(new.day <= last)
    BY <1>2, RetentionAssumption DEF IInv, RowsInv, TypeOK
  <2>2. QED
    BY <1>1, <2>1 DEF IInv, NothingIsLost, KeyOf
<1>9. PassInv'
  <2>1. ~(new.day < today)
    BY <1>2
  <2>2. RollupCounted'
    BY <1>1, <2>1 DEF IInv, PassInv, RollupCounted, Accounted, Counted, KeyOf
  <2>3. QED
    BY <1>1, <2>2 DEF IInv, PassInv, RollupReadProgress, PruneFollowsRollup
<1>10. QED
  BY <1>5, <1>6, <1>7, <1>8, <1>9 DEF IInv, RowsInv

LEMMA DeleteMonitorStep == ASSUME IInv, NEW m, DeleteMonitor(m) PROVE IInv'
<1> DEFINE Others(s) == {r \in s : r.monitor # m}
           keys == {k \in DOMAIN summaries : k[1] # m}
<1>1. /\ monitors' = monitors \ {m}
      /\ results' = Others(results) /\ recorded' = Others(recorded)
      /\ early' = Others(early)
      /\ summaries' = [k \in keys |-> summaries[k]] /\ measured' = measured \cap keys
  BY DEF DeleteMonitor
<1>2. UNCHANGED <<today, hour, keep, crossed, last, pass, faults>>
  BY DEF DeleteMonitor
<1>3. /\ DOMAIN summaries' = keys /\ keys \subseteq DOMAIN summaries
      /\ \A k \in keys : summaries'[k] = summaries[k] /\ k[1] # m
  BY <1>1
<1>4. \A r \in recorded' :
          /\ r \in recorded /\ r.monitor # m
          /\ r \in results => r \in results'
          /\ r \in early => r \in early'
  BY <1>1
<1>5. \A r \in recorded' : KeyOf(r) \in DOMAIN summaries => KeyOf(r) \in keys
  BY <1>1 DEF KeyOf
<1>6. results' \subseteq results /\ early' \subseteq early
  BY <1>1
<1>7. TypeOK'
  <2>1. recorded' \subseteq Result /\ results' \subseteq recorded' /\ early' \subseteq recorded'
    BY <1>1 DEF IInv, RowsInv, TypeOK
  <2>2. \A r \in recorded' : r.monitor \in monitors' /\ r.day <= today'
    BY <1>1, <1>2, <1>4 DEF IInv, RowsInv, TypeOK
  <2>3. DOMAIN summaries' \subseteq monitors' \X Nat
    BY <1>1, <1>3 DEF IInv, RowsInv, TypeOK
  <2>4. ASSUME NEW k \in keys PROVE summaries'[k] \subseteq recorded'
    <3>1. ASSUME NEW r \in summaries[k] PROVE r \in recorded /\ r.monitor # m
      BY <1>3 DEF IInv, RowsInv, TypeOK, RowsAreOfTheirDay, KeyOf
    <3>2. QED
      BY <1>1, <1>3, <3>1
  <2>5. summaries' \in [DOMAIN summaries' -> SUBSET recorded']
    BY <1>1, <1>3, <2>4
  <2>6. measured' \subseteq DOMAIN summaries' /\ monitors' \subseteq Monitors
    BY <1>1, <1>3 DEF IInv, RowsInv, TypeOK
  <2>7. QED
    BY <1>1, <1>2, <2>1, <2>2, <2>3, <2>5, <2>6 DEF IInv, RowsInv, TypeOK
<1> HIDE DEF keys, Others
<1>8. RowsAreOfTheirDay' /\ TodayIsThere' /\ AheadIsThere'
  <2>1. RowsAreOfTheirDay'
    BY <1>2, <1>3 DEF IInv, RowsInv, RowsAreOfTheirDay, KeyOf
  <2>2. TodayIsThere'
    BY <1>2, <1>4 DEF IInv, RowsInv, TodayIsThere
  <2>3. AheadIsThere'
    BY <1>2, <1>4 DEF IInv, RowsInv, AheadIsThere, AheadOfProgress
  <2>4. QED
    BY <2>1, <2>2, <2>3
<1>9. AheadIsSummarised'
  BY <1>2, <1>3, <1>4 DEF IInv, RowsInv, AheadIsSummarised, AheadOfProgress, KeyOf
<1>10. ASSUME NEW r \in recorded', Accounted(r) PROVE Accounted(r)'
  BY <1>2, <1>3, <1>4, <1>5, <1>10 DEF Accounted, Counted, KeyOf
<1>11. NothingIsLost'
  <2>1. last' # None => \A r \in recorded' : r.day <= last' => Accounted(r)'
    BY <1>2, <1>4, <1>10 DEF IInv, NothingIsLost, Accounted, Counted
  <2>2. QED
    BY <1>2, <1>6, <2>1 DEF IInv, NothingIsLost, Accounted, Counted, KeyOf
<1>12. PassInv'
  <2>1. RollupCounted'
    BY <1>2, <1>4, <1>10 DEF IInv, PassInv, RollupCounted
  <2>2. QED
    BY <1>2, <2>1 DEF IInv, PassInv, RollupReadProgress, PruneFollowsRollup
<1>13. QED
  BY <1>7, <1>8, <1>9, <1>11, <1>12 DEF IInv, RowsInv

LEMMA ClockStep ==
    ASSUME IInv,
           HourPasses \/ \E t \in Tenants, days \in Periods : ChangePlan(t, days)
    PROVE  IInv'
<1>1. /\ UNCHANGED <<today, monitors, recorded, crossed, results, summaries, measured,
                      last, pass, early, faults>>
      /\ hour' \in 0 .. Hours - 1 /\ keep' \in [Tenants -> Periods]
  BY RetentionAssumption DEF HourPasses, ChangePlan, IInv, RowsInv, TypeOK
<1>2. TypeOK'
  BY <1>1 DEF IInv, RowsInv, TypeOK
<1>3. RowsAreOfTheirDay' /\ TodayIsThere' /\ AheadIsThere' /\ AheadIsSummarised'
  BY <1>1 DEF IInv, RowsInv, RowsAreOfTheirDay, TodayIsThere, AheadIsThere,
     AheadIsSummarised, AheadOfProgress, KeyOf
<1>4. NothingIsLost'
  BY <1>1 DEF IInv, NothingIsLost, KeyOf
<1>5. PassInv'
  BY <1>1 DEF IInv, PassInv, RollupReadProgress, RollupCounted, PruneFollowsRollup,
     Accounted, Counted, KeyOf
<1>6. QED
  BY <1>2, <1>3, <1>4, <1>5 DEF IInv, RowsInv

LEMMA MidnightStep == ASSUME IInv, Midnight PROVE IInv'
<1>1. /\ today' = today + 1 /\ hour' = 0 /\ today \in Nat
      /\ UNCHANGED <<monitors, keep, recorded, results, summaries, measured, last,
                     early, faults>>
  BY DEF Midnight, IInv, RowsInv, TypeOK
<1>2. /\ pass' \in Pass /\ pass'.stage = pass.stage /\ pass'.last = pass.last
      /\ pass.stage = "prune" => pass'.midnights = pass.midnights + 1
      /\ pass.midnights \in Nat
  BY RetentionAssumption DEF Midnight, IInv, RowsInv, TypeOK, Pass, Stages
<1>3. /\ crossed \subseteq crossed' /\ crossed' \subseteq Nat
      /\ pass.stage \in {"downtime", "progress"} => today \in crossed'
  BY <1>1 DEF Midnight, IInv, RowsInv, TypeOK
<1>4. \A r \in recorded : r.day \in Nat /\ r.day <= today
  BY DEF IInv, RowsInv, TypeOK, Result
<1>5. TypeOK'
  <2>1. hour' \in 0 .. Hours - 1 /\ (last' # None => last' < today')
    BY <1>1, RetentionAssumption DEF IInv, RowsInv, TypeOK
  <2>2. QED
    BY <1>1, <1>2, <1>3, <1>4, <2>1 DEF IInv, RowsInv, TypeOK
<1>6. RowsAreOfTheirDay'
  <2>1. \A k \in DOMAIN summaries : k[2] \in Nat
    BY DEF IInv, RowsInv, TypeOK
  <2>2. QED
    BY <1>1, <2>1 DEF IInv, RowsInv, RowsAreOfTheirDay, KeyOf
<1>7. TodayIsThere'
  BY <1>1, <1>4 DEF TodayIsThere
<1>8. AheadIsThere' /\ AheadIsSummarised'
  BY <1>1 DEF IInv, RowsInv, AheadIsThere, AheadIsSummarised, AheadOfProgress, KeyOf
<1>9. ASSUME NEW r, Accounted(r) PROVE Accounted(r)'
  BY <1>1, <1>3, <1>9 DEF Accounted, Counted, KeyOf
<1>10. NothingIsLost'
  BY <1>1, <1>3 DEF IInv, NothingIsLost, KeyOf
<1>11. RollupCounted'
  <2>1. ASSUME pass.stage \in {"downtime", "progress"}, NEW r \in recorded, r.day < today'
        PROVE  Accounted(r)'
    <3>1. CASE r.day = today
      BY <1>3, <2>1, <3>1 DEF Accounted
    <3>2. CASE r.day # today
      BY <1>1, <1>4, <1>9, <2>1, <3>2 DEF IInv, PassInv, RollupCounted
    <3>3. QED
      BY <3>1, <3>2
  <2>2. QED
    BY <1>1, <1>2, <2>1 DEF RollupCounted
<1>12. RollupReadProgress' /\ PruneFollowsRollup'
  <2>1. pass.stage = "prune" /\ faults = 0 => last # None /\ last \in Int
    BY DEF IInv, PassInv, PruneFollowsRollup, RowsInv, TypeOK
  <2>2. QED
    BY <1>1, <1>2, <2>1 DEF IInv, PassInv, RollupReadProgress, PruneFollowsRollup
<1>13. QED
  BY <1>5, <1>6, <1>7, <1>8, <1>10, <1>11, <1>12 DEF IInv, RowsInv, PassInv

-----------------------------------------------------------------------------

LEMMA Invariant == Spec => []IInv
<1>1. Init => IInv
  <2>1. SUFFICES ASSUME Init PROVE IInv
    OBVIOUS
  <2>2. /\ DOMAIN summaries = {} /\ summaries = [k \in {} |-> {}]
        /\ results = {} /\ recorded = {} /\ early = {} /\ crossed = {} /\ measured = {}
        /\ last = None /\ pass.stage = "idle"
    BY <2>1 DEF Init, Idle
  <2>3. pass \in Pass /\ hour \in 0 .. Hours - 1
    BY <2>1, RetentionAssumption DEF Init, Pass, Stages, Idle
  <2>4. TypeOK
    <3>1. summaries \in [DOMAIN summaries -> SUBSET recorded]
      BY <2>2
    <3>2. /\ today \in Nat /\ monitors \subseteq Monitors
          /\ keep \in [Tenants -> Periods] /\ faults \in Nat
      BY <2>1 DEF Init
    <3>3. QED
      BY <2>2, <2>3, <3>1, <3>2 DEF TypeOK
  <2>5. RowsInv /\ PassInv /\ NothingIsLost
    BY <2>2, <2>4 DEF RowsInv, RowsAreOfTheirDay, AheadIsThere, AheadIsSummarised,
       TodayIsThere, PassInv, RollupReadProgress, RollupCounted, PruneFollowsRollup,
       NothingIsLost
  <2>6. QED
    BY <2>5 DEF IInv
<1>2. IInv /\ [Next]_vars => IInv'
  <2>1. SUFFICES ASSUME IInv, [Next]_vars PROVE IInv'
    OBVIOUS
  <2>2. CASE Rollup
    BY <2>1, <2>2, RollupStartsStep, SummariseStep, MeasureDowntimeStep, RecordProgressStep,
       RollupFailsStep DEF Rollup
  <2>3. CASE Prune
    BY <2>1, <2>3, PruneStep DEF Prune
  <2>4. CASE PassEnds
    BY <2>1, <2>4, PassEndsStep
  <2>5. CASE Environment
    BY <2>1, <2>5, RecordResultStep, DeleteMonitorStep, ClockStep, MidnightStep DEF Environment
  <2>6. CASE UNCHANGED vars
    <3>1. RowsInv' /\ NothingIsLost' /\ \A r : Accounted(r)' <=> Accounted(r)
      BY <2>1, <2>6, RowsStay DEF IInv, RowsInv, TypeOK, vars
    <3>2. PassInv'
      BY <2>1, <2>6, <3>1 DEF IInv, PassInv, RollupReadProgress, RollupCounted,
         PruneFollowsRollup, vars, clock
    <3>3. QED
      BY <3>1, <3>2 DEF IInv
  <2>7. QED
    BY <2>1, <2>2, <2>3, <2>4, <2>5, <2>6 DEF Next
<1>3. QED
  BY <1>1, <1>2, PTL DEF Spec

(* Rows belong to monitors there are, and no row or progress is ahead of time. *)
THEOREM TypeCorrect == Spec => []TypeOK
<1>1. IInv => TypeOK
  BY DEF IInv, RowsInv
<1>2. QED
  BY Invariant, <1>1, PTL

(* However long the service runs, whatever fails and whatever plans change to, *)
(* a result behind the progress is in the summary of its day; the only         *)
(* exceptions are a failed rollup and a midnight between its two halves.       *)
THEOREM ResultsAreSummarised == Spec => []NothingIsLost
<1>1. IInv => NothingIsLost
  BY DEF IInv
<1>2. QED
  BY Invariant, <1>1, PTL

(* The page shows all the results of the current day: no pass summarises it,   *)
(* and none deletes from it.                                                   *)
THEOREM TodayIsShown == Spec => []TodayIsLive
<1>1. IInv => TodayIsLive
  <2>1. SUFFICES ASSUME IInv, NEW m \in monitors
                 PROVE  Shown(m, today) = {r \in recorded : KeyOf(r) = <<m, today>>}
    BY DEF TodayIsLive
  <2>2. today \in Nat /\ results \subseteq recorded
    BY <2>1 DEF IInv, RowsInv, TypeOK
  <2>3. ASSUME <<m, today>> \in DOMAIN summaries PROVE FALSE
    <3>1. <<m, today>>[2] < today
      BY <2>1, <2>3 DEF IInv, RowsInv, RowsAreOfTheirDay
    <3>2. QED
      BY <2>2, <3>1
  <2>4. Shown(m, today) = {r \in results : KeyOf(r) = <<m, today>>}
    BY <2>3 DEF Shown
  <2>5. ASSUME NEW r \in recorded, KeyOf(r) = <<m, today>> PROVE r \in results
    <3>1. r.day = today
      BY <2>5 DEF KeyOf
    <3>2. QED
      BY <2>1, <2>5, <3>1 DEF IInv, RowsInv, TodayIsThere
  <2>6. {r \in results : KeyOf(r) = <<m, today>>} = {r \in recorded : KeyOf(r) = <<m, today>>}
    BY <2>2, <2>5 DEF KeyOf
  <2>7. QED
    BY <2>4, <2>6
<1>2. QED
  BY Invariant, <1>1, PTL

(* A day that is summarised again keeps its numbers, but for what was deleted  *)
(* ahead of the progress: all that is left of a day is all there was of it.    *)
THEOREM RollupIsRepeatable == Spec => SameNumbersAgain
<1> DEFINE Same == \A k \in DOMAIN summaries \cap DOMAIN summaries' :
                      summaries'[k] \ early = summaries[k] \ early
<1>1. ASSUME IInv, Summarise PROVE Same
  <2> DEFINE keys == {KeyOf(r) : r \in Completed}
             left(k) == {r \in results : KeyOf(r) = k}
  <2>1. SUFFICES ASSUME NEW k \in DOMAIN summaries, k \in DOMAIN summaries'
                 PROVE  summaries'[k] \ early = summaries[k] \ early
    OBVIOUS
  <2>2. pass.last = last
    BY <1>1 DEF Summarise, IInv, PassInv, RollupReadProgress
  <2>3. summaries'[k] = IF k \in keys THEN left(k) ELSE summaries[k]
    BY <1>1, <2>1 DEF Summarise
  <2>4. ASSUME k \in keys PROVE left(k) \ early = summaries[k] \ early
    <3>1. PICK c \in Completed : KeyOf(c) = k
      BY <2>4
    <3>2. AheadOfProgress(c)
      BY <2>2 DEF Completed, AheadOfProgress
    <3>3. \A r \in recorded : KeyOf(r) = k => AheadOfProgress(r)
      BY <3>1, <3>2 DEF KeyOf, AheadOfProgress
    <3>4. left(k) \subseteq summaries[k] \cup early
      BY <1>1, <3>3 DEF IInv, RowsInv, AheadIsSummarised, TypeOK
    <3>5. summaries[k] \subseteq left(k) \cup early
      <4>1. ASSUME NEW r \in summaries[k] PROVE r \in recorded /\ KeyOf(r) = k
        BY <1>1 DEF IInv, RowsInv, RowsAreOfTheirDay, TypeOK
      <4>2. QED
        BY <1>1, <3>3, <4>1 DEF IInv, RowsInv, AheadIsThere
    <3>6. QED
      BY <3>4, <3>5
  <2>5. QED
    BY <2>3, <2>4
<1>2. ASSUME IInv, [Next]_vars, ~Summarise PROVE Same
  BY <1>2 DEF Next, Rollup, Prune, Environment, RollupStarts, MeasureDowntime, RecordProgress,
     RollupFails, PruneBatch, PassEnds, RecordResult, DeleteMonitor, ChangePlan, HourPasses,
     Midnight, vars
<1>3. IInv /\ [Next]_vars => [Same]_vars
  BY <1>1, <1>2
<1>4. QED
  BY Invariant, <1>3, PTL DEF Spec, SameNumbersAgain
=============================================================================
