------------------------------ MODULE Alerting ------------------------------
(***************************************************************************)
(* internal/alerting and the API handlers that write the tables it reads:  *)
(* check results become incidents, incidents become rows of the            *)
(* notifications table.                                                    *)
(*                                                                         *)
(* The state is the database.  A table is a function from the primary keys *)
(* of its rows to the columns that decide something; a step is one         *)
(* transaction, or one statement where the code commits each statement on  *)
(* its own.  The only state outside the database is what a notifier        *)
(* replica holds between the SELECT of SweepDelayedAlerts and the          *)
(* transactions it runs for the rows it read.                              *)
(***************************************************************************)
EXTENDS Integers, FiniteSets

CONSTANTS
    Tenants,        \* customers
    Monitors,       \* monitor ids
    Channels,       \* alert channel ids
    EmailChannels,  \* the channels of type 'email'; the others are 'slack'
    Windows,        \* maintenance window ids
    IncidentIds,    \* incident ids
    TenantOf,       \* the tenant that creates a monitor, channel or window
    Delays,         \* values of alert_delay_seconds, in ticks of the clock
    Sweepers,       \* notifier replicas running SweepDelayedAlerts
    MaxFails,       \* bound: larger failure counts are not told apart
    MaxAge          \* bound: larger ages are not told apart

FailureThreshold == 2

ASSUME AlertingAssumption ==
    /\ EmailChannels \subseteq Channels
    /\ TenantOf \in [Monitors \cup Channels \cup Windows -> Tenants]
    /\ Delays \subseteq Nat /\ 0 \in Delays
    /\ MaxFails \in Nat /\ MaxFails >= FailureThreshold
    /\ MaxAge \in Nat /\ \A d \in Delays : d < MaxAge

VARIABLES
    monitors,       \* monitors: id -> [status, fails, delay]
    channels,       \* alert_channels: ids of the rows
    verified,       \* the channels whose verified_at is set
    routes,         \* monitor_channels: pairs <<monitor, channel>>
    windows,        \* maintenance_windows: id -> [phase, covers]
    incidents,      \* incidents: id -> [monitor, planned, notified, resolved, age]
    notifications,  \* notifications: the UNIQUE key -> delivery state of the row
    sweep           \* replica -> incidents its sweep has read and not handled yet

vars == <<monitors, channels, verified, routes, windows, incidents,
          notifications, sweep>>

config == <<channels, verified, routes, windows>>

-----------------------------------------------------------------------------
(* Rows. *)

Statuses == {"unknown", "up", "down"}
Kinds == {"down", "recovered"}
Phases == {"before", "during", "after"}    \* now() against starts_at and ends_at

MonitorRow == [status : Statuses, fails : 0..MaxFails, delay : Delays]
IncidentRow == [monitor : Monitors, planned : BOOLEAN, notified : BOOLEAN,
                resolved : BOOLEAN, age : 0..MaxAge]
\* covers: the rows of maintenance_monitors.
WindowRow == [phase : Phases, covers : SUBSET Monitors]
NotificationKey == [incident : IncidentIds, channel : Channels, kind : Kinds]

\* A notifications row; wait: minutes from now() to next_try_at.  Alerting only
\* inserts rows, with the column defaults; Notifier moves them.
DeliveryRow == [status : {"pending", "failed", "sent", "dead"},
                attempts : Nat, wait : Nat]
Pending == [status |-> "pending", attempts |-> 0, wait |-> 0]

\* INSERT of one row, DELETE of the rows of a set of keys.
Put(table, key, row) ==
    [k \in DOMAIN table \cup {key} |-> IF k = key THEN row ELSE table[k]]
Drop(table, keys) == [k \in DOMAIN table \ keys |-> table[k]]

-----------------------------------------------------------------------------
(* Reads. *)

IncidentsOf(m) == {i \in DOMAIN incidents : incidents[i].monitor = m}
OpenIncidents(m) == {i \in IncidentsOf(m) : ~incidents[i].resolved}

\* An id gen_random_uuid() may return: of no row, and remembered by nobody.
FreshIncidents ==
    IncidentIds \ (DOMAIN incidents \cup UNION {sweep[s] : s \in Sweepers})

\* Mutant: no fallback when no routed channel is left.
TargetsWithoutFallback(m) ==
    {c \in channels : /\ TenantOf[c] = TenantOf[m]
                      /\ c \in EmailChannels => c \in verified
                      /\ <<m, c>> \in routes}

\* Mutant: the channels of every tenant.
TargetsOfAnyTenant(m) ==
    LET routed == {c \in channels : <<m, c>> \in routes}
    IN  {c \in channels : /\ c \in EmailChannels => c \in verified
                          /\ routed = {} \/ c \in routed}

\* The channels queueNotifications selects for a monitor.
Targets(m) ==
    LET routed == {c \in channels : <<m, c>> \in routes}
    IN  {c \in channels : /\ TenantOf[c] = TenantOf[m]
                          /\ c \in EmailChannels => c \in verified
                          /\ routed = {} \/ c \in routed}

\* notifications after one row per target channel is added for each incident of
\* is, keeping the rows already there (ON CONFLICT DO NOTHING).
WithQueued(m, is, kind) ==
    LET keys == [incident : is, channel : Targets(m), kind : {kind}]
    IN  [k \in DOMAIN notifications \cup keys |->
            IF k \in DOMAIN notifications THEN notifications[k] ELSE Pending]

\* A window with no maintenance_monitors rows covers the whole tenant.
InMaintenance(m) ==
    \E w \in DOMAIN windows :
        /\ TenantOf[w] = TenantOf[m]
        /\ windows[w].phase = "during"
        /\ windows[w].covers = {} \/ m \in windows[w].covers

\* Mutant: planned incidents are swept too.
DueWithPlanned ==
    {i \in DOMAIN incidents :
        LET delay == monitors[incidents[i].monitor].delay
        IN  /\ ~incidents[i].resolved
            /\ ~incidents[i].notified
            /\ delay > 0
            /\ incidents[i].age > delay}

\* Mutant: an incident is due at one moment only.
DueOnTheTick ==
    {i \in DOMAIN incidents :
        LET delay == monitors[incidents[i].monitor].delay
        IN  /\ ~incidents[i].resolved
            /\ ~incidents[i].notified
            /\ ~incidents[i].planned
            /\ delay > 0
            /\ incidents[i].age = delay}

\* What the SELECT of SweepDelayedAlerts returns.
Due ==
    {i \in DOMAIN incidents :
        LET delay == monitors[incidents[i].monitor].delay
        IN  /\ ~incidents[i].resolved
            /\ ~incidents[i].notified
            /\ ~incidents[i].planned
            /\ delay > 0
            /\ incidents[i].age > delay}

-----------------------------------------------------------------------------
(* ProcessResult: one transaction holding the monitor's row. *)

\* Mutant: the alert is queued and notified_at is forgotten.
OpenIncidentUnmarked(m) ==
    \E i \in FreshIncidents :
        LET planned == InMaintenance(m)
        IN  /\ incidents' = Put(incidents, i,
                    [monitor |-> m, planned |-> planned, notified |-> FALSE,
                     resolved |-> FALSE, age |-> 0])
            /\ notifications' = IF ~planned /\ monitors[m].delay = 0
                                    THEN WithQueued(m, {i}, "down") ELSE notifications

OpenIncident(m) ==
    \E i \in FreshIncidents :
        LET planned == InMaintenance(m)
            notify  == ~planned /\ monitors[m].delay = 0
        IN  /\ incidents' = Put(incidents, i,
                    [monitor |-> m, planned |-> planned, notified |-> notify,
                     resolved |-> FALSE, age |-> 0])
            /\ notifications' = IF notify THEN WithQueued(m, {i}, "down")
                                          ELSE notifications

\* Mutant: the recovery is announced whether or not the outage was.
ResolveAndAnnounce(m) ==
    /\ incidents' = [i \in DOMAIN incidents |->
          IF i \in OpenIncidents(m) THEN [incidents[i] EXCEPT !.resolved = TRUE]
                                    ELSE incidents[i]]
    /\ notifications' = WithQueued(m, OpenIncidents(m), "recovered")

\* The UPDATE closes every open incident of the monitor; OneOpenIncidentWhileDown
\* says there is exactly one, the row RETURNING hands back.
ResolveIncident(m) ==
    LET open == OpenIncidents(m)
        announced == {i \in open : ~incidents[i].planned /\ incidents[i].notified}
    IN  /\ incidents' = [i \in DOMAIN incidents |->
              IF i \in open THEN [incidents[i] EXCEPT !.resolved = TRUE]
                            ELSE incidents[i]]
        /\ notifications' = WithQueued(m, announced, "recovered")

\* consecutive_fails is only compared with the threshold: beyond MaxFails the
\* counts are not told apart.
CountFail(n) == IF n < MaxFails THEN n + 1 ELSE n

\* Mutant: a success leaves the count alone.
NewFailsWithoutReset(m, ok) ==
    IF ok THEN monitors[m].fails ELSE CountFail(monitors[m].fails)

NewFails(m, ok) == IF ok THEN 0 ELSE CountFail(monitors[m].fails)

\* Mutant: a success only ends an outage.
NewStatusOnRecovery(m, ok) ==
    IF ok /\ monitors[m].status = "down" THEN "up"
    ELSE IF NewFails(m, ok) >= FailureThreshold THEN "down"
    ELSE monitors[m].status

NewStatus(m, ok) ==
    IF ok THEN "up"
    ELSE IF NewFails(m, ok) >= FailureThreshold THEN "down"
    ELSE monitors[m].status

\* Mutant: every failure at the threshold counts as the transition.
IsDown(m, ok) == NewStatus(m, ok) = "down"

GoesDown(m, ok) == NewStatus(m, ok) = "down" /\ monitors[m].status # "down"
ComesBack(m, ok) == NewStatus(m, ok) = "up" /\ monitors[m].status = "down"

ProcessResult(m, ok) ==
    /\ m \in DOMAIN monitors
    /\ monitors' = [monitors EXCEPT ![m].fails = NewFails(m, ok),
                                    ![m].status = NewStatus(m, ok)]
    /\ \/ GoesDown(m, ok) /\ OpenIncident(m)
       \/ ComesBack(m, ok) /\ ResolveIncident(m)
       \/ /\ ~GoesDown(m, ok) /\ ~ComesBack(m, ok)
          /\ UNCHANGED <<incidents, notifications>>
    /\ UNCHANGED <<config, sweep>>

-----------------------------------------------------------------------------
(* SweepDelayedAlerts, in a replica s: the SELECT, then one transaction per *)
(* row read.                                                                *)

SweepSelect(s) ==
    /\ sweep[s] = {}
    /\ sweep' = [sweep EXCEPT ![s] = Due]
    /\ UNCHANGED <<monitors, config, incidents, notifications>>

\* The transaction does not read resolved_at again.
SweepItem(s, i) ==
    /\ i \in sweep[s] \cap DOMAIN incidents
    /\ sweep' = [sweep EXCEPT ![s] = @ \ {i}]
    /\ incidents' = [incidents EXCEPT ![i].notified = TRUE]
    /\ notifications' = WithQueued(incidents[i].monitor, {i}, "down")
    /\ UNCHANGED <<monitors, config>>

\* The transaction of one row fails and the loop continues; a row deleted since
\* the SELECT always ends here (foreign key) or updates nothing.
SweepItemFails(s, i) ==
    /\ i \in sweep[s]
    /\ sweep' = [sweep EXCEPT ![s] = @ \ {i}]
    /\ UNCHANGED <<monitors, config, incidents, notifications>>

\* Begin fails, or the process dies: the rest of the list is forgotten.
SweepAborts(s) ==
    /\ sweep[s] # {}
    /\ sweep' = [sweep EXCEPT ![s] = {}]
    /\ UNCHANGED <<monitors, config, incidents, notifications>>

-----------------------------------------------------------------------------
(* The API handlers. *)

CreateMonitor(m, d) ==
    /\ m \notin DOMAIN monitors
    /\ monitors' = Put(monitors, m, [status |-> "unknown", fails |-> 0, delay |-> d])
    /\ UNCHANGED <<config, incidents, notifications, sweep>>

\* UpdateMonitor with alert_delay_seconds supplied.
UpdateMonitor(m, d) ==
    /\ m \in DOMAIN monitors
    /\ monitors' = [monitors EXCEPT ![m].delay = d]
    /\ UNCHANGED <<config, incidents, notifications, sweep>>

\* With its cascades: incidents, notifications, monitor_channels and
\* maintenance_monitors.
DeleteMonitor(m) ==
    /\ m \in DOMAIN monitors
    /\ monitors' = Drop(monitors, {m})
    /\ incidents' = Drop(incidents, IncidentsOf(m))
    /\ notifications' = Drop(notifications, {k \in DOMAIN notifications :
                                                k.incident \in IncidentsOf(m)})
    /\ routes' = {r \in routes : r[1] # m}
    /\ windows' = [w \in DOMAIN windows |-> [windows[w] EXCEPT !.covers = @ \ {m}]]
    /\ UNCHANGED <<channels, verified, sweep>>

CreateChannel(c) ==
    /\ c \notin channels
    /\ channels' = channels \cup {c}
    /\ verified' = IF c \in EmailChannels THEN verified ELSE verified \cup {c}
    /\ UNCHANGED <<monitors, routes, windows, incidents, notifications, sweep>>

\* verify_token is NULL once redeemed, and was never set for slack.
VerifyChannel(c) ==
    /\ c \in channels \ verified
    /\ verified' = verified \cup {c}
    /\ UNCHANGED <<monitors, channels, routes, windows, incidents, notifications,
                   sweep>>

\* Mutant: the routes of the channel stay.
DeleteChannelOnly(c) ==
    /\ c \in channels
    /\ channels' = channels \ {c}
    /\ verified' = verified \ {c}
    /\ notifications' = Drop(notifications, {k \in DOMAIN notifications : k.channel = c})
    /\ UNCHANGED <<monitors, routes, windows, incidents, sweep>>

\* With its cascades: monitor_channels and notifications.
DeleteChannel(c) ==
    /\ c \in channels
    /\ channels' = channels \ {c}
    /\ verified' = verified \ {c}
    /\ routes' = {r \in routes : r[2] # c}
    /\ notifications' = Drop(notifications, {k \in DOMAIN notifications : k.channel = c})
    /\ UNCHANGED <<monitors, windows, incidents, sweep>>

\* A selection naming a channel that is not the tenant's is rejected.
SetMonitorChannels(m, selection) ==
    /\ m \in DOMAIN monitors
    /\ \A c \in selection : c \in channels /\ TenantOf[c] = TenantOf[m]
    /\ routes' = {r \in routes : r[1] # m} \cup ({m} \X selection)
    /\ UNCHANGED <<monitors, channels, verified, windows, incidents, notifications,
                   sweep>>

\* A selected id that is not one of the tenant's monitors inserts no row.
CreateMaintenance(w, selection, phase) ==
    /\ w \notin DOMAIN windows
    /\ windows' = Put(windows, w,
            [phase |-> phase,
             covers |-> {m \in selection \cap DOMAIN monitors :
                            TenantOf[m] = TenantOf[w]}])
    /\ UNCHANGED <<monitors, channels, verified, routes, incidents, notifications,
                   sweep>>

DeleteMaintenance(w) ==
    /\ w \in DOMAIN windows
    /\ windows' = Drop(windows, {w})
    /\ UNCHANGED <<monitors, channels, verified, routes, incidents, notifications,
                   sweep>>

-----------------------------------------------------------------------------
(* Time: now() moves past the age of incidents and the ends of windows. *)

Tick ==
    /\ incidents' = [i \in DOMAIN incidents |->
          [incidents[i] EXCEPT !.age = IF @ < MaxAge THEN @ + 1 ELSE @]]
    /\ UNCHANGED <<monitors, config, notifications, sweep>>

WindowStarts(w) ==
    /\ w \in DOMAIN windows /\ windows[w].phase = "before"
    /\ windows' = [windows EXCEPT ![w].phase = "during"]
    /\ UNCHANGED <<monitors, channels, verified, routes, incidents, notifications,
                   sweep>>

WindowEnds(w) ==
    /\ w \in DOMAIN windows /\ windows[w].phase = "during"
    /\ windows' = [windows EXCEPT ![w].phase = "after"]
    /\ UNCHANGED <<monitors, channels, verified, routes, incidents, notifications,
                   sweep>>

-----------------------------------------------------------------------------

Init ==
    /\ monitors = [m \in {} |-> 0]
    /\ channels = {}
    /\ verified = {}
    /\ routes = {}
    /\ windows = [w \in {} |-> 0]
    /\ incidents = [i \in {} |-> 0]
    /\ notifications = [k \in {} |-> 0]
    /\ sweep = [s \in Sweepers |-> {}]

Check == \E m \in Monitors, ok \in BOOLEAN : ProcessResult(m, ok)

Sweep ==
    \E s \in Sweepers :
        \/ SweepSelect(s)
        \/ SweepAborts(s)
        \/ \E i \in IncidentIds : SweepItem(s, i) \/ SweepItemFails(s, i)

\* Handlers that add and remove rows of monitors, and those that do not.
Registry ==
    \E m \in Monitors : DeleteMonitor(m) \/ \E d \in Delays : CreateMonitor(m, d)

Settings ==
    \/ \E m \in Monitors :
          \/ \E d \in Delays : UpdateMonitor(m, d)
          \/ \E selection \in SUBSET Channels : SetMonitorChannels(m, selection)
    \/ \E c \in Channels : CreateChannel(c) \/ VerifyChannel(c) \/ DeleteChannel(c)
    \/ \E w \in Windows :
          \/ DeleteMaintenance(w)
          \/ \E selection \in SUBSET Monitors, phase \in Phases :
                CreateMaintenance(w, selection, phase)

Configure == Registry \/ Settings

Clock == Tick \/ \E w \in Windows : WindowStarts(w) \/ WindowEnds(w)

Next == Check \/ Sweep \/ Configure \/ Clock

Spec == Init /\ [][Next]_vars

\* Every replica keeps running its five second loop, and time passes.  A
\* transaction of the sweep may fail, but not every time it is tried for the
\* same incident.
Fairness ==
    /\ WF_vars(Tick)
    /\ \A s \in Sweepers : WF_vars(SweepSelect(s))
    /\ \A s \in Sweepers, i \in IncidentIds :
          /\ SF_vars(SweepItem(s, i))
          /\ WF_vars(SweepItem(s, i) \/ SweepItemFails(s, i))

FairSpec == Spec /\ Fairness

-----------------------------------------------------------------------------
(* Properties. *)

(* Every table holds rows of its type, and foreign keys point at rows. *)
TypeOK ==
    /\ monitors \in [DOMAIN monitors -> MonitorRow]
    /\ DOMAIN monitors \subseteq Monitors
    /\ verified \subseteq channels /\ channels \subseteq Channels
    /\ routes \subseteq (DOMAIN monitors) \X channels
    /\ windows \in [DOMAIN windows -> WindowRow]
    /\ DOMAIN windows \subseteq Windows
    /\ incidents \in [DOMAIN incidents -> IncidentRow]
    /\ DOMAIN incidents \subseteq IncidentIds
    /\ \A i \in DOMAIN incidents : incidents[i].monitor \in DOMAIN monitors
    /\ DOMAIN notifications \subseteq NotificationKey
    /\ notifications \in [DOMAIN notifications -> DeliveryRow]
    /\ \A k \in DOMAIN notifications :
          k.incident \in DOMAIN incidents /\ k.channel \in channels
    /\ sweep \in [Sweepers -> SUBSET IncidentIds]

(* A monitor is marked down exactly while one incident of it is open: never    *)
(* "a monitor marked down with no incident recorded", and never two incidents  *)
(* for one outage, whatever order results and configuration changes come in.   *)
OneOpenIncidentWhileDown ==
    \A m \in DOMAIN monitors :
        /\ monitors[m].status = "down" <=> OpenIncidents(m) # {}
        /\ \A i, j \in OpenIncidents(m) : i = j

(* "A single blip never pages anyone": a monitor is down exactly when its last *)
(* FailureThreshold results were failures, so status and consecutive_fails,    *)
(* two columns kept by the same UPDATE, never tell different stories.          *)
DownFromThreshold ==
    \A m \in DOMAIN monitors :
        monitors[m].status = "down" <=> monitors[m].fails >= FailureThreshold

(* What was announced agrees with the history: rows exist only for incidents   *)
(* marked notified, an incident that opened in a window is never announced,    *)
(* and a recovery only for a resolved incident.                                *)
AnnouncementsAreCoherent ==
    /\ \A i \in DOMAIN incidents : incidents[i].planned => ~incidents[i].notified
    /\ \A k \in DOMAIN notifications :
          /\ incidents[k.incident].notified
          /\ k.kind = "recovered" => incidents[k.incident].resolved

(* Rows that cross tenants never appear: an alert goes to the tenant whose     *)
(* monitor failed, and routing and windows relate rows of one tenant.          *)
TenantIsolation ==
    /\ \A k \in DOMAIN notifications :
          TenantOf[k.channel] = TenantOf[incidents[k.incident].monitor]
    /\ \A r \in routes : TenantOf[r[1]] = TenantOf[r[2]]
    /\ \A w \in DOMAIN windows :
          \A m \in windows[w].covers : TenantOf[m] = TenantOf[w]

\* Incidents, respectively notifications, that the step resolves or inserts.
ResolvedNow ==
    {i \in DOMAIN incidents \cap DOMAIN incidents' :
        ~incidents[i].resolved /\ incidents'[i].resolved}
QueuedNow == DOMAIN notifications' \ DOMAIN notifications

(* "Recovery is announced too": when an outage that was announced ends, every  *)
(* channel that was paged for it and is still one the monitor alerts on gets   *)
(* the recovery, and nobody hears of the end of an outage that was not         *)
(* announced.                                                                  *)
RecoveryReachesPagedChannels ==
    [][/\ \A k \in DOMAIN notifications :
            k.incident \in ResolvedNow /\ k.channel \in Targets(incidents[k.incident].monitor)
                => [k EXCEPT !.kind = "recovered"] \in DOMAIN notifications'
       /\ \A k \in QueuedNow :
            k.kind = "recovered" => k.incident \in ResolvedNow
                                    /\ incidents[k.incident].notified]_vars

(* A monitor left with no routed channel, because it never had one or because  *)
(* they were deleted, "falls back to all channels rather than going silent":   *)
(* an outage marked notified has paged somebody if the tenant has a channel    *)
(* that may be sent to.                                                        *)
FallsBackToAllChannels ==
    [][\A i \in DOMAIN incidents' :
          LET m == incidents'[i].monitor
          IN  /\ incidents'[i].notified
              /\ i \in DOMAIN incidents => ~incidents[i].notified
              /\ \A c \in channels : <<m, c>> \notin routes
              /\ \E c \in verified : TenantOf[c] = TenantOf[m]
              => \E k \in DOMAIN notifications' : k.incident = i /\ k.kind = "down"]_vars

Waiting(i) ==
    /\ i \in DOMAIN incidents
    /\ ~incidents[i].resolved /\ ~incidents[i].notified /\ ~incidents[i].planned

(* A delayed alert survives failed transactions and restarts of the notifier:  *)
(* no incident stays open and unannounced for ever on a monitor with a delay.  *)
DelayedAlertsAreSent ==
    \A i \in IncidentIds :
        []<>~(Waiting(i) /\ monitors[incidents[i].monitor].delay > 0)

-----------------------------------------------------------------------------
(* What the tables amount to: a ledger of outages and of who was told.       *)

Down == {m \in DOMAIN monitors : monitors[m].status = "down"}

History ==
    [i \in DOMAIN incidents |->
        [monitor |-> incidents[i].monitor, planned |-> incidents[i].planned,
         announced |-> incidents[i].notified, over |-> incidents[i].resolved]]

Told(kind) ==
    {<<k.incident, k.channel>> : k \in {q \in DOMAIN notifications : q.kind = kind}}

Ledger == INSTANCE Outages WITH
    Ids <- IncidentIds, down <- Down, outages <- History,
    paged <- Told("down"), cleared <- Told("recovered")

(* Whatever the order of results, sweeps and configuration, monitors.status,   *)
(* incidents and notifications change together as the ledger allows: an outage *)
(* begins and ends once, is announced unless it is planned, and its end is     *)
(* told when it comes, and only of an announced one.                           *)
ImplementsOutages == Ledger!Spec
=============================================================================
