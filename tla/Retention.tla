------------------------------ MODULE Retention ------------------------------
(***************************************************************************)
(* The retention service (internal/retention, apps/retention) and what the *)
(* public page shows of its work (public_handlers.go): check results are   *)
(* summarised by the day, and deleted once they are older than the plan of *)
(* their tenant keeps them.                                                *)
(*                                                                         *)
(* A pass is a sequence of statements, each committed on its own; results  *)
(* arrive, midnight comes and the process dies between any two of them.    *)
(* Every column of a summary is a function of the results it was computed  *)
(* from, so a summary is modelled as that set.                             *)
(***************************************************************************)
EXTENDS Integers, FiniteSets

CONSTANTS
    Tenants,        \* tenant ids
    Monitors,       \* monitor ids
    TenantOf,       \* monitor -> its tenant
    Periods,        \* values of plans.retention_days
    Hours,          \* parts of a day that are told apart
    BatchSize,      \* rows one DELETE removes at most
    None,           \* NULL
    MaxMidnights,   \* bound: midnights during one pass
    MaxDay,         \* bound: the last day
    MaxResults,     \* bound: results recorded in all
    MaxFaults       \* bound: statements that fail and processes that die

\* A pass never takes as long as a plan keeps its results, which is 30 days at least.
ASSUME RetentionAssumption ==
    /\ TenantOf \in [Monitors -> Tenants]
    /\ Hours \in Nat \ {0} /\ BatchSize \in Nat \ {0} /\ MaxDay \in Nat
    /\ MaxMidnights \in Nat /\ MaxResults \in Nat /\ MaxFaults \in Nat
    /\ Periods \subseteq Nat /\ \A p \in Periods : p > MaxMidnights
    /\ None \notin Int

VARIABLES
    today, hour,    \* now()
    monitors,       \* monitors: ids
    keep,           \* tenant -> retention_days of its plan
    results,        \* check_results: [monitor, day, hour]
    summaries,      \* daily_uptime: <<monitor, day>> -> the results it was computed from
    measured,       \* daily_uptime: keys of the rows with downtime_minutes
    last,           \* retention_state.last_rollup_day
    pass,           \* runPass: [stage, last, midnights]
    recorded,       \* history: the results of the monitors there are
    early,          \* history: results deleted before last reached their day
    crossed,        \* history: days that ended between the two halves of a rollup
    faults

clock == <<today, hour, monitors, keep, recorded, crossed>>
vars == <<clock, results, summaries, measured, last, pass, early, faults>>

\* Results of one hour are one element: they are summarised and deleted alike.
Result == [monitor : Monitors, day : Nat, hour : 0 .. Hours - 1]
Stages == {"idle", "rollup", "downtime", "progress", "prune"}
Pass == [stage : Stages, last : Nat \cup {-1, None}, midnights : 0 .. MaxMidnights]

Idle == [stage |-> "idle", last |-> None, midnights |-> 0]

KeyOf(r) == <<r.monitor, r.day>>

Fault == faults < MaxFaults /\ faults' = faults + 1

-----------------------------------------------------------------------------
(* Rollup. *)

\* Mutant: today counts as completed.
CompletedWithToday ==
    {r \in results : r.day <= today /\ (pass.last # None => r.day > pass.last)}

\* Mutant: the day after the last one is taken for done.
CompletedFromTheNext ==
    {r \in results : r.day < today /\ (pass.last # None => r.day > pass.last + 1)}

\* Results of the days the INSERT is about: from the day after the last one, or
\* from the oldest result, to yesterday.
Completed ==
    {r \in results : r.day < today /\ (pass.last # None => r.day > pass.last)}

RollupStarts ==
    /\ pass.stage = "idle"
    /\ pass' = [stage |-> "rollup", last |-> last, midnights |-> 0]
    /\ UNCHANGED <<clock, results, summaries, measured, last, early, faults>>

\* A day without results gets no row, and keeps the one it has.
Summarise ==
    LET keys == {KeyOf(r) : r \in Completed}
    IN  /\ pass.stage = "rollup"
        /\ summaries' = [k \in DOMAIN summaries \cup keys |->
              IF k \in keys THEN {r \in results : KeyOf(r) = k} ELSE summaries[k]]
        /\ pass' = [pass EXCEPT !.stage = "downtime"]
        /\ UNCHANGED <<clock, results, measured, last, early, faults>>

\* The minutes of every row are computed again, from incidents.  A failure is
\* only logged.
MeasureDowntime ==
    /\ pass.stage = "downtime"
    /\ pass' = [pass EXCEPT !.stage = "progress"]
    /\ \/ measured' = DOMAIN summaries /\ UNCHANGED faults
       \/ Fault /\ UNCHANGED measured
    /\ UNCHANGED <<clock, results, summaries, last, early>>

\* Mutant: progress is only recorded when a day was summarised.
ProgressWithRows ==
    /\ pass.stage = "progress"
    /\ pass' = [pass EXCEPT !.stage = "prune"]
    /\ last' = IF \E k \in DOMAIN summaries : k[2] = today - 1 THEN today - 1 ELSE last
    /\ UNCHANGED <<clock, results, summaries, measured, early, faults>>

\* CURRENT_DATE is read again.
RecordProgress ==
    /\ pass.stage = "progress"
    /\ pass' = [pass EXCEPT !.stage = "prune"]
    /\ last' = today - 1
    /\ UNCHANGED <<clock, results, summaries, measured, early, faults>>

\* The SELECT, the INSERT or the UPDATE of the progress fails: runPass goes on to
\* prune.
RollupFails ==
    /\ pass.stage \in {"rollup", "progress"} /\ Fault
    /\ pass' = [pass EXCEPT !.stage = "prune"]
    /\ UNCHANGED <<clock, results, summaries, measured, last, early>>

-----------------------------------------------------------------------------
(* Prune. *)

\* Older than now() minus the days of the plan.
Expired ==
    {r \in results :
        LET first == today - keep[TenantOf[r.monitor]]
        IN  r.day < first \/ (r.day = first /\ r.hour < hour)}

AheadOfProgress(r) == last = None \/ r.day > last

\* One DELETE: the loop ends with the first that is not full.
PruneBatch(batch) ==
    /\ pass.stage = "prune"
    /\ batch \subseteq Expired
    /\ \/ Cardinality(batch) = BatchSize /\ UNCHANGED pass
       \/ batch = Expired /\ Cardinality(batch) < BatchSize /\ pass' = Idle
    /\ results' = results \ batch
    /\ early' = early \cup {r \in batch : AheadOfProgress(r)}
    /\ UNCHANGED <<clock, summaries, measured, last, faults>>

\* The DELETE fails or, anywhere in a pass, the process dies.
PassEnds ==
    /\ pass.stage # "idle" /\ Fault
    /\ pass' = Idle
    /\ UNCHANGED <<clock, results, summaries, measured, last, early>>

-----------------------------------------------------------------------------
(* The rest of the system. *)

\* saveResult of the worker; checked_at is now().
RecordResult(m) ==
    LET r == [monitor |-> m, day |-> today, hour |-> hour]
    IN  /\ m \in monitors /\ Cardinality(recorded) < MaxResults
        /\ results' = results \cup {r}
        /\ recorded' = recorded \cup {r}
        /\ UNCHANGED <<today, hour, monitors, keep, crossed, summaries, measured,
                       last, pass, early, faults>>

\* With its cascades.
DeleteMonitor(m) ==
    LET Others(s) == {r \in s : r.monitor # m}
        keys == {k \in DOMAIN summaries : k[1] # m}
    IN  /\ m \in monitors
        /\ monitors' = monitors \ {m}
        /\ results' = Others(results)
        /\ summaries' = [k \in keys |-> summaries[k]]
        /\ measured' = measured \cap keys
        /\ recorded' = Others(recorded)
        /\ early' = Others(early)
        /\ UNCHANGED <<today, hour, keep, crossed, last, pass, faults>>

ChangePlan(t, days) ==
    /\ keep' = [keep EXCEPT ![t] = days]
    /\ UNCHANGED <<today, hour, monitors, recorded, crossed, results, summaries,
                   measured, last, pass, early, faults>>

HourPasses ==
    /\ hour < Hours - 1
    /\ hour' = hour + 1
    /\ UNCHANGED <<today, monitors, keep, recorded, crossed, results, summaries,
                   measured, last, pass, early, faults>>

Midnight ==
    /\ today < MaxDay /\ hour = Hours - 1
    /\ today' = today + 1 /\ hour' = 0
    /\ IF pass.stage = "idle"
         THEN UNCHANGED pass
         ELSE /\ pass.midnights < MaxMidnights
              /\ pass' = [pass EXCEPT !.midnights = @ + 1]
    /\ crossed' = IF pass.stage \in {"downtime", "progress"}
                    THEN crossed \cup {today} ELSE crossed
    /\ UNCHANGED <<monitors, keep, recorded, results, summaries, measured, last,
                   early, faults>>

-----------------------------------------------------------------------------

Init ==
    /\ today = 0 /\ hour = 0
    /\ monitors = Monitors
    /\ keep \in [Tenants -> Periods]
    /\ results = {} /\ recorded = {} /\ early = {} /\ crossed = {}
    /\ summaries = [k \in {} |-> {}] /\ measured = {}
    /\ last = None
    /\ pass = Idle
    /\ faults = 0

Rollup ==
    RollupStarts \/ Summarise \/ MeasureDowntime \/ RecordProgress \/ RollupFails

Prune == \E batch \in SUBSET Expired : PruneBatch(batch)

Environment ==
    \/ \E m \in monitors : RecordResult(m) \/ DeleteMonitor(m)
    \/ \E t \in Tenants, days \in Periods : ChangePlan(t, days)
    \/ HourPasses \/ Midnight

Next == Rollup \/ Prune \/ PassEnds \/ Environment

Spec == Init /\ [][Next]_vars

\* The loop of main runs a pass every hour and every statement returns.
FairSpec == Spec /\ WF_vars(Rollup \/ Prune \/ PassEnds)

-----------------------------------------------------------------------------
(* The page. *)

\* The results the bar of a day is computed from: the row of daily_uptime, or for
\* today the results themselves.
Shown(m, day) ==
    CASE <<m, day>> \in DOMAIN summaries -> summaries[<<m, day>>]
      [] day = today -> {r \in results : KeyOf(r) = <<m, day>>}
      [] OTHER -> {}

-----------------------------------------------------------------------------
(* Properties. *)

(* Rows belong to monitors there are, and no row or progress is ahead of time. *)
TypeOK ==
    /\ today \in Nat /\ hour \in 0 .. Hours - 1
    /\ monitors \subseteq Monitors
    /\ keep \in [Tenants -> Periods]
    /\ results \subseteq recorded /\ recorded \subseteq Result
    /\ \A r \in recorded : r.monitor \in monitors /\ r.day <= today
    /\ DOMAIN summaries \subseteq monitors \X Nat
    /\ summaries \in [DOMAIN summaries -> SUBSET recorded]
    /\ measured \subseteq DOMAIN summaries
    /\ last \in Nat \cup {-1, None}
    /\ last # None => last < today
    /\ pass \in Pass
    /\ early \subseteq recorded
    /\ crossed \subseteq Nat
    /\ faults \in Nat

(* "Rollup aggregates every completed day that has not been rolled up yet":    *)
(* behind last_rollup_day every result of a monitor is in the summary of its   *)
(* day, although results go on being deleted.  The code owes two exceptions:   *)
(* results pruned ahead of it, which takes a statement that failed or a process *)
(* that died, and a day that ended between the INSERT of a rollup and the      *)
(* UPDATE that records how far it got.                                         *)
NothingIsLost ==
    /\ last # None =>
           \A r \in recorded :
               r.day <= last
                   => \/ KeyOf(r) \in DOMAIN summaries /\ r \in summaries[KeyOf(r)]
                      \/ r \in early
                      \/ r.day \in crossed
    /\ early # {} => faults > 0

(* "Today is deliberately excluded": whatever passes ran today, the page shows *)
(* for the current day all the results there are.                              *)
TodayIsLive ==
    \A m \in monitors :
        Shown(m, today) = {r \in recorded : KeyOf(r) = <<m, today>>}

(* "Re-running is safe: a day already rolled up is overwritten with the same   *)
(* numbers": a summary changes only by results that were pruned before the     *)
(* progress was recorded, which takes a failed statement.                      *)
SameNumbersAgain ==
    [][\A k \in DOMAIN summaries \cap DOMAIN summaries' :
          summaries'[k] \ early = summaries[k] \ early]_vars

(* The rollup catches up with yesterday, the minutes of downtime that a failed *)
(* statement left out are made up for, and what is older than the plan keeps   *)
(* it is deleted, again and again.                                             *)
CatchesUp ==
    /\ []<>(last = today - 1)
    /\ []<>(measured = DOMAIN summaries)
    /\ []<>(Expired = {})
=============================================================================
