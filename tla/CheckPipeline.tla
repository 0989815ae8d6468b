---------------------------- MODULE CheckPipeline ----------------------------
(***************************************************************************)
(* How a due monitor comes to be checked: apps/scheduler claims it, the    *)
(* Redis list of internal/queue carries its id, apps/worker probes it,     *)
(* saves the result and hands it to ProcessResult.                         *)
(*                                                                         *)
(* Nothing is acknowledged on the way: next_run_at has moved before the id *)
(* is pushed, and the id has left the list before anything is done with    *)
(* it.  A check lost in between is made up for by the next interval.       *)
(***************************************************************************)
EXTENDS Integers, Sequences, FiniteSets, SequencesExt

CONSTANTS
    Monitors,       \* monitor ids
    Schedulers,     \* replicas of the scheduler
    Workers,        \* replicas of the worker
    Limit,          \* monitors claimed at once (500 in the code)
    Faults,         \* whether processes die and statements fail
    MaxInFlight,    \* bound: checks under way of a monitor that falls due again
    Kept            \* bound: check results remembered per monitor

ASSUME PipelineAssumption ==
    /\ IsFiniteSet(Schedulers) /\ IsFiniteSet(Workers)
    /\ Limit \in Nat \ {0}
    /\ Faults \in BOOLEAN
    /\ MaxInFlight \in Nat \ {0}
    /\ Kept \in Nat

VARIABLES
    enabled,        \* monitors: id -> the column enabled
    agenda,         \* ids with next_run_at <= now(), in the order of next_run_at
    claimed,        \* scheduler -> ids the claim returned, not pushed yet
    queue,          \* the Redis list, the oldest id first
    work,           \* worker -> {} or the check it is busy with
    results,        \* check_results: id -> outcomes saved, the latest last
    site            \* whether the target answers as the monitor expects

pipeline == <<enabled, agenda, claimed, queue, work, results, site>>

Stages == {"load", "save", "process"}
Check == [id : Monitors, stage : Stages, ok : BOOLEAN]

-----------------------------------------------------------------------------

Exists(m) == m \in DOMAIN enabled

Count(m, seq) == Cardinality({k \in DOMAIN seq : seq[k] = m})

\* How many copies of m are on their way through the pipeline.
UnderWay(m) ==
    Cardinality({s \in Schedulers : m \in claimed[s]})
    + Count(m, queue)
    + Cardinality({w \in Workers : \E c \in work[w] : c.id = m})

\* The end of a sequence, of at most n elements.
Latest(seq, n) == SubSeq(seq, IF Len(seq) > n THEN Len(seq) - n + 1 ELSE 1, Len(seq))

\* The monitors a claim returns: the first Limit of those that are enabled.
Claimable ==
    LET due == {k \in DOMAIN agenda : enabled[agenda[k]]}
    IN  {agenda[k] : k \in {j \in due : Cardinality({i \in due : i <= j}) <= Limit}}

\* The agenda without some monitors, in the order it has.
AgendaWithout(gone) ==
    {rest \in SetToSeqs(ToSet(agenda) \ gone) :
        \A i, j \in DOMAIN rest : i < j =>
            \E k, l \in DOMAIN agenda :
                k < l /\ agenda[k] = rest[i] /\ agenda[l] = rest[j]}

-----------------------------------------------------------------------------
(* Time: next_run_at of m passes, whether or not m is enabled. *)

Interval(m) ==
    /\ Exists(m) /\ m \notin ToSet(agenda)
    /\ UnderWay(m) < MaxInFlight
    /\ agenda' = Append(agenda, m)
    /\ UNCHANGED <<enabled, claimed, queue, work, results, site>>

\* The target starts or stops answering.
Flip(m) ==
    /\ site' = [site EXCEPT ![m] = ~@]
    /\ UNCHANGED <<enabled, agenda, claimed, queue, work, results>>

-----------------------------------------------------------------------------
(* apps/scheduler *)

\* Mutant: the claim does not move next_run_at.
ClaimOnly(s) ==
    /\ claimed[s] = {} /\ Claimable # {}
    /\ claimed' = [claimed EXCEPT ![s] = Claimable]
    /\ UNCHANGED <<enabled, agenda, queue, work, results, site>>

\* Mutant: next_run_at of every monitor that is due moves, beyond LIMIT too.
ClaimMovesAll(s) ==
    /\ claimed[s] = {} /\ Claimable # {}
    /\ claimed' = [claimed EXCEPT ![s] = Claimable]
    /\ agenda' = <<>>
    /\ UNCHANGED <<enabled, queue, work, results, site>>

\* One statement: the rows it returns are those whose next_run_at it moved.
Claim(s) ==
    /\ claimed[s] = {} /\ Claimable # {}
    /\ claimed' = [claimed EXCEPT ![s] = Claimable]
    /\ agenda' \in AgendaWithout(Claimable)
    /\ UNCHANGED <<enabled, queue, work, results, site>>

Push(s, m) ==
    /\ m \in claimed[s]
    /\ claimed' = [claimed EXCEPT ![s] = @ \ {m}]
    /\ queue' = Append(queue, m)
    /\ UNCHANGED <<enabled, agenda, work, results, site>>

\* LPUSH fails: the id is dropped.
PushFails(s, m) ==
    /\ Faults
    /\ m \in claimed[s]
    /\ claimed' = [claimed EXCEPT ![s] = @ \ {m}]
    /\ UNCHANGED <<enabled, agenda, queue, work, results, site>>

SchedulerDies(s) ==
    /\ Faults
    /\ claimed[s] # {}
    /\ claimed' = [claimed EXCEPT ![s] = {}]
    /\ UNCHANGED <<enabled, agenda, queue, work, results, site>>

-----------------------------------------------------------------------------
(* apps/worker *)

Pop(w) ==
    /\ work[w] = {} /\ queue # <<>>
    /\ queue' = Tail(queue)
    /\ work' = [work EXCEPT ![w] = {[id |-> Head(queue), stage |-> "load", ok |-> FALSE]}]
    /\ UNCHANGED <<enabled, agenda, claimed, results, site>>

\* The monitor is read and its target probed.  enabled is not read.  A monitor
\* deleted since is an error of the read: the worker takes the next id.
Probe(w) ==
    \E c \in work[w] :
        /\ c.stage = "load"
        /\ work' = [work EXCEPT ![w] =
                IF Exists(c.id) THEN {[c EXCEPT !.stage = "save", !.ok = site[c.id]]}
                                ELSE {}]
        /\ UNCHANGED <<enabled, agenda, claimed, queue, results, site>>

\* Mutant: INSERT ... VALUES.
SaveUnchecked(w) ==
    \E c \in work[w] :
        /\ c.stage = "save"
        /\ work' = [work EXCEPT ![w] = {[c EXCEPT !.stage = "process"]}]
        /\ results' = [m \in DOMAIN results \cup {c.id} |->
                IF m = c.id THEN <<c.ok>> ELSE results[m]]
        /\ UNCHANGED <<enabled, agenda, claimed, queue, site>>

\* INSERT ... SELECT: no row for a monitor deleted meanwhile, and no error.
Save(w) ==
    \E c \in work[w] :
        /\ c.stage = "save"
        /\ work' = [work EXCEPT ![w] = {[c EXCEPT !.stage = "process"]}]
        /\ results' = IF Exists(c.id)
                        THEN [results EXCEPT ![c.id] = Latest(Append(@, c.ok), Kept)]
                        ELSE results
        /\ UNCHANGED <<enabled, agenda, claimed, queue, site>>

\* The worker is done with the check c; what ProcessResult does is not told here.
Process(w, c) ==
    /\ c \in work[w] /\ c.stage = "process"
    /\ work' = [work EXCEPT ![w] = {}]
    /\ UNCHANGED <<enabled, agenda, claimed, queue, results, site>>

\* A statement fails, whatever the stage, or the process dies: the check is
\* dropped.
WorkerDrops(w) ==
    /\ Faults
    /\ work[w] # {}
    /\ work' = [work EXCEPT ![w] = {}]
    /\ UNCHANGED <<enabled, agenda, claimed, queue, results, site>>

-----------------------------------------------------------------------------
(* The API, as far as the pipeline sees it. *)

\* CreateMonitor: enabled and due, by the defaults of the columns.  Ids are
\* fresh: nobody remembers one.
Appear(m) ==
    /\ ~Exists(m) /\ UnderWay(m) = 0
    /\ enabled' = [k \in DOMAIN enabled \cup {m} |-> IF k = m THEN TRUE ELSE enabled[k]]
    /\ results' = [k \in DOMAIN enabled \cup {m} |-> IF k = m THEN <<>> ELSE results[k]]
    /\ agenda' = Append(agenda, m)
    /\ UNCHANGED <<claimed, queue, work, site>>

\* DeleteMonitor, with its results.  Copies under way stay.
Disappear(m) ==
    /\ Exists(m)
    /\ enabled' = [k \in DOMAIN enabled \ {m} |-> enabled[k]]
    /\ results' = [k \in DOMAIN enabled \ {m} |-> results[k]]
    /\ agenda' \in AgendaWithout({m})
    /\ UNCHANGED <<claimed, queue, work, site>>

Pause(m) ==
    /\ Exists(m) /\ enabled[m]
    /\ enabled' = [enabled EXCEPT ![m] = FALSE]
    /\ UNCHANGED <<agenda, claimed, queue, work, results, site>>

\* UpdateMonitor with enabled = true: next_run_at becomes now().
Resume(m) ==
    /\ Exists(m) /\ ~enabled[m]
    /\ UnderWay(m) < MaxInFlight
    /\ enabled' = [enabled EXCEPT ![m] = TRUE]
    /\ \E rest \in AgendaWithout({m}) : agenda' = Append(rest, m)
    /\ UNCHANGED <<claimed, queue, work, results, site>>

-----------------------------------------------------------------------------

Init ==
    /\ enabled = [m \in {} |-> TRUE]
    /\ agenda = <<>>
    /\ claimed = [s \in Schedulers |-> {}]
    /\ queue = <<>>
    /\ work = [w \in Workers |-> {}]
    /\ results = [m \in {} |-> <<>>]
    /\ site = [m \in Monitors |-> TRUE]

Schedule(s) ==
    \/ Claim(s) \/ SchedulerDies(s)
    \/ \E m \in Monitors : Push(s, m) \/ PushFails(s, m)

\* The steps of a worker before ProcessResult.
Prepare(w) == Pop(w) \/ Probe(w) \/ Save(w) \/ WorkerDrops(w)

Configure(m) == Appear(m) \/ Disappear(m) \/ Pause(m) \/ Resume(m)

Next ==
    \/ \E s \in Schedulers : Schedule(s)
    \/ \E w \in Workers : Prepare(w) \/ \E c \in work[w] : Process(w, c)
    \/ \E m \in Monitors : Interval(m) \/ Flip(m) \/ Configure(m)

Spec == Init /\ [][Next]_pipeline

\* A worker's step of one stage on a check of m.
At(w, m, stage) == \E c \in work[w] : c.id = m /\ c.stage = stage

\* The loops of the schedulers and workers run and intervals pass.  A push, a
\* probe or a statement may fail and a process may die, but not every time for
\* the same monitor.
PipelineFairness ==
    /\ \A m \in Monitors : WF_pipeline(Interval(m))
    /\ \A s \in Schedulers :
          /\ WF_pipeline(Claim(s))
          /\ \A m \in Monitors : WF_pipeline(Push(s, m) \/ PushFails(s, m))
    /\ \A m \in Monitors : SF_pipeline(\E s \in Schedulers : Push(s, m))
    /\ \A w \in Workers : WF_pipeline(Pop(w)) /\ WF_pipeline(Probe(w))
                          /\ WF_pipeline(Save(w) \/ WorkerDrops(w))
    /\ \A m \in Monitors :
          /\ SF_pipeline(\E w \in Workers : At(w, m, "load") /\ Probe(w))
          /\ SF_pipeline(\E w \in Workers : At(w, m, "save") /\ Save(w))

FairSpec ==
    /\ Spec /\ PipelineFairness
    /\ \A w \in Workers : WF_pipeline(\E c \in work[w] : Process(w, c))

-----------------------------------------------------------------------------
(* Properties. *)

TypeOK ==
    /\ enabled \in [DOMAIN enabled -> BOOLEAN] /\ DOMAIN enabled \subseteq Monitors
    /\ agenda \in Seq(DOMAIN enabled) /\ IsInjective(agenda)
    /\ claimed \in [Schedulers -> SUBSET Monitors]
    /\ queue \in Seq(Monitors)
    /\ work \in [Workers -> SUBSET Check]
    /\ \A w \in Workers : Cardinality(work[w]) <= 1
    /\ DOMAIN results = DOMAIN enabled
    /\ \A m \in DOMAIN results : results[m] \in Seq(BOOLEAN) /\ Len(results[m]) <= Kept
    /\ site \in [Monitors -> BOOLEAN]

(* A due instant leads to one check at most, whatever the number of schedulers *)
(* (ADR 0001: SKIP LOCKED makes "a second replica safe"): as long as no        *)
(* monitor falls due while MaxInFlight checks of it are under way, no more     *)
(* than MaxInFlight ever are.                                                  *)
OneCheckPerDueInstant == \A m \in Monitors : UnderWay(m) <= MaxInFlight

(* "A lost check is acceptable (the next interval re-checks)" (ADR 0001): an   *)
(* enabled monitor is checked again and again, in spite of failed pushes, of   *)
(* crashes, and of other monitors competing for LIMIT.                         *)
EnabledMonitorsAreChecked ==
    \A m \in Monitors :
        []<>(\/ ~Exists(m) \/ ~enabled[m]
             \/ \E w \in Workers : At(w, m, "process"))
=============================================================================
