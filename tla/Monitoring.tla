----------------------------- MODULE Monitoring -----------------------------
(***************************************************************************)
(* From the schedule to the incident: the check pipeline and Alerting put  *)
(* together.  A worker's last step is ProcessResult, with the outcome the  *)
(* worker saved; creating or deleting a monitor is one step of both.       *)
(***************************************************************************)
EXTENDS Alerting, Sequences

CONSTANTS Schedulers, Workers, Limit, Faults, MaxInFlight, Kept, MaxFlips

ASSUME MonitoringAssumption ==
    /\ IsFiniteSet(Schedulers) /\ IsFiniteSet(Workers)
    /\ Limit \in Nat \ {0} /\ MaxInFlight \in Nat \ {0} /\ Kept \in Nat
    /\ Faults \in BOOLEAN /\ MaxFlips \in Nat

VARIABLES enabled, agenda, claimed, queue, work, results, site,
          flips     \* bound: how often targets have started or stopped answering

P == INSTANCE CheckPipeline

pipeline == <<enabled, agenda, claimed, queue, work, results, site>>

allVars == <<vars, pipeline, flips>>

-----------------------------------------------------------------------------
(* Steps of one part only. *)

Schedule(s) == P!Schedule(s) /\ UNCHANGED <<vars, flips>>
Prepare(w) == P!Prepare(w) /\ UNCHANGED <<vars, flips>>
Interval(m) == P!Interval(m) /\ UNCHANGED <<vars, flips>>
Flip(m) ==
    /\ flips < MaxFlips /\ flips' = flips + 1
    /\ P!Flip(m)
    /\ UNCHANGED vars

\* The sweep, the clock and the handlers that leave the rows of monitors be.
Alert == (Sweep \/ Clock \/ Settings) /\ UNCHANGED <<pipeline, flips>>

-----------------------------------------------------------------------------
(* Steps of both. *)

\* UpdateMonitor with enabled supplied; it may change the delay as well.
PauseOrResume(m) ==
    /\ P!Pause(m) \/ P!Resume(m)
    /\ UNCHANGED vars \/ \E d \in Delays : UpdateMonitor(m, d)
    /\ UNCHANGED flips

Add(m, d) == CreateMonitor(m, d) /\ P!Appear(m) /\ UNCHANGED flips
Delete(m) == DeleteMonitor(m) /\ P!Disappear(m) /\ UNCHANGED flips

\* A monitor deleted since is an error that is logged.
Process(w, c) ==
    /\ P!Process(w, c)
    /\ IF c.id \in DOMAIN monitors THEN ProcessResult(c.id, c.ok) ELSE UNCHANGED vars
    /\ UNCHANGED flips

-----------------------------------------------------------------------------

MonitoringInit == Init /\ P!Init /\ flips = 0

MonitoringNext ==
    \/ \E s \in Schedulers : Schedule(s)
    \/ \E w \in Workers : Prepare(w) \/ \E c \in work[w] : Process(w, c)
    \/ \E m \in Monitors :
          \/ Interval(m) \/ Flip(m) \/ PauseOrResume(m) \/ Delete(m)
          \/ \E d \in Delays : Add(m, d)
    \/ Alert

MonitoringSpec == MonitoringInit /\ [][MonitoringNext]_allVars

\* The fairness of the pipeline; ProcessResult, too, may fail for a monitor, but
\* not every time.
MonitoringFairSpec ==
    /\ MonitoringSpec /\ P!PipelineFairness
    /\ \A w \in Workers : WF_allVars(\E c \in work[w] : Process(w, c))
    /\ \A m \in Monitors : SF_allVars(\E w \in Workers : \E c \in work[w] :
                                       c.id = m /\ Process(w, c))

-----------------------------------------------------------------------------
(* Properties. *)

(* The promise of the product: the status of an enabled monitor follows its    *)
(* target.  Once the target stays up (down), the monitor comes to be marked up *)
(* (down) and stays so, although pushes fail, processes die and two workers    *)
(* apply old results after new ones.                                           *)
StatusFollowsTarget ==
    \A m \in Monitors : \A up \in BOOLEAN :
        <>[](m \in DOMAIN monitors /\ enabled[m] /\ site[m] = up)
            => <>[](m \in DOMAIN monitors
                    /\ monitors[m].status = IF up THEN "up" ELSE "down")

(* A due instant leads to one check at most, whatever the number of schedulers *)
(* and workers, and whatever customers do to the monitor meanwhile.            *)
OneCheckPerDueInstant == P!OneCheckPerDueInstant
=============================================================================
