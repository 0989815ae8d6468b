--------------------------- MODULE AlertingProofs ---------------------------
(* Proofs about Alerting, for every set of tenants, monitors, channels,     *)
(* windows, incidents and notifier replicas, and every set of delays, and   *)
(* about Alerting as a part of Monitoring.                                  *)
EXTENDS Monitoring, TLAPS

-----------------------------------------------------------------------------
(* Tables. *)

(* Inserting a row keeps a table a table: used for every INSERT of the code. *)
LEMMA PutRow ==
    ASSUME NEW t, NEW R, t \in [DOMAIN t -> R], NEW key, NEW row \in R
    PROVE  /\ Put(t, key, row) \in [DOMAIN t \cup {key} -> R]
           /\ DOMAIN Put(t, key, row) = DOMAIN t \cup {key}
           /\ Put(t, key, row)[key] = row
           /\ \A k \in DOMAIN t : k # key => Put(t, key, row)[k] = t[k]
BY DEF Put

(* Deleting rows leaves the others alone: used for every DELETE and cascade. *)
LEMMA DropRows ==
    ASSUME NEW t, NEW R, t \in [DOMAIN t -> R], NEW keys
    PROVE  /\ Drop(t, keys) \in [DOMAIN t \ keys -> R]
           /\ DOMAIN Drop(t, keys) = DOMAIN t \ keys
           /\ \A k \in DOMAIN t \ keys : Drop(t, keys)[k] = t[k]
BY DEF Drop

(* queueNotifications adds rows of the given incidents, kind and of channels *)
(* that exist and belong to the monitor's tenant, and keeps every other row. *)
LEMMA QueuedRows ==
    ASSUME TypeOK, NEW m \in Monitors, NEW is \in SUBSET IncidentIds,
           NEW kind \in Kinds
    PROVE  /\ WithQueued(m, is, kind)
                \in [DOMAIN WithQueued(m, is, kind) -> DeliveryRow]
           /\ DOMAIN notifications \subseteq DOMAIN WithQueued(m, is, kind)
           /\ DOMAIN WithQueued(m, is, kind) \subseteq NotificationKey
           /\ \A k \in DOMAIN WithQueued(m, is, kind) :
                 k \in DOMAIN notifications
                 \/ /\ k.incident \in is /\ k.kind = kind
                    /\ k.channel \in channels
                    /\ TenantOf[k.channel] = TenantOf[m]
<1> DEFINE keys == [incident : is, channel : Targets(m), kind : {kind}]
<1>1. /\ Targets(m) \subseteq channels
      /\ \A c \in Targets(m) : TenantOf[c] = TenantOf[m]
  BY DEF Targets
<1>2. channels \subseteq Channels /\ DOMAIN notifications \subseteq NotificationKey
      /\ notifications \in [DOMAIN notifications -> DeliveryRow]
  BY DEF TypeOK
<1>3. keys \subseteq NotificationKey
  BY <1>1, <1>2 DEF NotificationKey
<1>4. \A k \in keys : /\ k.incident \in is /\ k.kind = kind
                      /\ k.channel \in Targets(m)
  OBVIOUS
<1>5. DOMAIN WithQueued(m, is, kind) = DOMAIN notifications \cup keys
  BY DEF WithQueued
<1>6. WithQueued(m, is, kind) \in [DOMAIN notifications \cup keys -> DeliveryRow]
  <2>1. Pending \in DeliveryRow
    BY DEF Pending, DeliveryRow
  <2> QED BY <1>2, <2>1 DEF WithQueued
<1> QED BY <1>1, <1>2, <1>3, <1>4, <1>5, <1>6

(* The same for one incident, the way OpenIncident and SweepItem queue. *)
LEMMA QueuedRowsOfOne ==
    ASSUME TypeOK, NEW m \in Monitors, NEW i \in IncidentIds
    PROVE  \A k \in DOMAIN WithQueued(m, {i}, "down") :
              k \in DOMAIN notifications \/ (k.incident = i /\ k.kind = "down")
<1> DEFINE keys == [incident : {i}, channel : Targets(m), kind : {"down"}]
<1>1. DOMAIN WithQueued(m, {i}, "down") = DOMAIN notifications \cup keys
  BY DEF WithQueued
<1>2. \A k \in keys : k.incident = i /\ k.kind = "down"
  OBVIOUS
<1> QED BY <1>1, <1>2

-----------------------------------------------------------------------------
(* Type correctness. *)

(* The initial tables are empty. *)
LEMMA InitTypeOK == Init => TypeOK
BY DEF Init, TypeOK, NotificationKey

(* A check result, with the incident it opens or closes, keeps the types. *)
LEMMA ProcessResultTypeOK ==
    ASSUME AlertingAssumption, TypeOK,
           NEW m \in Monitors, NEW ok \in BOOLEAN, ProcessResult(m, ok)
    PROVE  TypeOK'
<1> DEFINE newFails  == NewFails(m, ok)
           newStatus == NewStatus(m, ok)
<1>1. /\ m \in DOMAIN monitors
      /\ monitors' = [monitors EXCEPT ![m].fails = newFails, ![m].status = newStatus]
      /\ UNCHANGED <<channels, verified, routes, windows, sweep>>
  BY DEF ProcessResult, config
<1>2. monitors[m] \in MonitorRow /\ MaxFails \in Nat
  BY <1>1 DEF TypeOK, AlertingAssumption
<1>3. newFails \in 0..MaxFails /\ newStatus \in Statuses
  BY <1>1, <1>2 DEF MonitorRow, Statuses, NewFails, NewStatus, CountFail
<1>4. /\ monitors' \in [DOMAIN monitors' -> MonitorRow]
      /\ DOMAIN monitors' = DOMAIN monitors
  <2>1. [monitors[m] EXCEPT !.fails = newFails, !.status = newStatus] \in MonitorRow
    BY <1>2, <1>3 DEF MonitorRow
  <2> QED BY <1>1, <2>1, Zenon DEF TypeOK
<1>5. CASE OpenIncident(m)
  <2>1. PICK i \in FreshIncidents :
          LET planned == InMaintenance(m)
              notify  == ~planned /\ monitors[m].delay = 0
          IN  /\ incidents' = Put(incidents, i,
                     [monitor |-> m, planned |-> planned, notified |-> notify,
                      resolved |-> FALSE, age |-> 0])
              /\ notifications' = IF notify THEN WithQueued(m, {i}, "down")
                                            ELSE notifications
    BY <1>5 DEF OpenIncident
  <2> DEFINE row == [monitor |-> m, planned |-> InMaintenance(m),
                     notified |-> ~InMaintenance(m) /\ monitors[m].delay = 0,
                     resolved |-> FALSE, age |-> 0]
  <2>2. i \in IncidentIds /\ i \notin DOMAIN incidents
    BY DEF FreshIncidents
  <2>3. row \in IncidentRow
    <3>1. 0 \in 0..MaxAge
      BY DEF AlertingAssumption
    <3>2. InMaintenance(m) \in BOOLEAN
      BY DEF InMaintenance
    <3> QED BY <3>1, <3>2 DEF IncidentRow
  <2>4. incidents' = Put(incidents, i, row)
    BY <2>1
  <2>5. /\ incidents' \in [DOMAIN incidents' -> IncidentRow]
        /\ DOMAIN incidents' = DOMAIN incidents \cup {i}
        /\ incidents'[i] = row
        /\ \A j \in DOMAIN incidents : incidents'[j] = incidents[j]
    <3>1. incidents \in [DOMAIN incidents -> IncidentRow]
      BY DEF TypeOK
    <3> HIDE DEF row
    <3>2. /\ Put(incidents, i, row) \in [DOMAIN incidents \cup {i} -> IncidentRow]
          /\ Put(incidents, i, row)[i] = row
          /\ \A j \in DOMAIN incidents : j # i => Put(incidents, i, row)[j] = incidents[j]
      BY <2>3, <3>1 DEF Put
    <3> QED BY <2>2, <2>4, <3>2
  <2>6. \A j \in DOMAIN incidents' : incidents'[j].monitor \in DOMAIN monitors'
    BY <1>1, <1>4, <2>5 DEF TypeOK
  <2>7. /\ DOMAIN notifications' \subseteq NotificationKey
        /\ notifications' \in [DOMAIN notifications' -> DeliveryRow]
        /\ \A k \in DOMAIN notifications' :
              k.incident \in DOMAIN incidents' /\ k.channel \in channels'
    <3>1. "down" \in Kinds
      BY DEF Kinds
    <3>2. CASE notifications' = WithQueued(m, {i}, "down")
      <4>1. {i} \in SUBSET IncidentIds
        BY <2>2
      <4>2. /\ notifications' \in [DOMAIN notifications' -> DeliveryRow]
            /\ DOMAIN notifications' \subseteq NotificationKey
            /\ \A k \in DOMAIN notifications' :
                  k \in DOMAIN notifications \/ (k.incident \in {i} /\ k.channel \in channels)
        <5> DEFINE queued == WithQueued(m, {i}, "down")
        <5>1. /\ queued \in [DOMAIN queued -> DeliveryRow]
              /\ DOMAIN queued \subseteq NotificationKey
              /\ \A k \in DOMAIN queued :
                    k \in DOMAIN notifications \/ (k.incident \in {i} /\ k.channel \in channels)
          BY <3>1, <4>1, QueuedRows
        <5> QED BY <3>2, <5>1, Zenon
      <4> QED BY <1>1, <2>5, <4>2 DEF TypeOK
    <3>3. CASE notifications' = notifications
      BY <1>1, <2>5, <3>3 DEF TypeOK
    <3> QED BY <2>1, <3>2, <3>3
  <2> QED BY <1>1, <1>4, <2>2, <2>5, <2>6, <2>7 DEF TypeOK
<1>6. CASE ResolveIncident(m)
  <2> DEFINE open == OpenIncidents(m)
             announced == {i \in open : ~incidents[i].planned /\ incidents[i].notified}
  <2>1. /\ incidents' = [i \in DOMAIN incidents |->
              IF i \in open THEN [incidents[i] EXCEPT !.resolved = TRUE]
                            ELSE incidents[i]]
        /\ notifications' = WithQueued(m, announced, "recovered")
    BY <1>6 DEF ResolveIncident
  <2>2. /\ incidents' \in [DOMAIN incidents' -> IncidentRow]
        /\ DOMAIN incidents' = DOMAIN incidents
        /\ \A i \in DOMAIN incidents : incidents'[i].monitor = incidents[i].monitor
    <3>1. \A i \in DOMAIN incidents :
            /\ [incidents[i] EXCEPT !.resolved = TRUE] \in IncidentRow
            /\ [incidents[i] EXCEPT !.resolved = TRUE].monitor = incidents[i].monitor
            /\ incidents[i] \in IncidentRow
      BY DEF TypeOK, IncidentRow
    <3> QED BY <2>1, <3>1
  <2>3. announced \in SUBSET IncidentIds /\ announced \subseteq DOMAIN incidents
    BY DEF OpenIncidents, IncidentsOf, TypeOK
  <2>4. "recovered" \in Kinds
    BY DEF Kinds
  <2>5. /\ DOMAIN notifications' \subseteq NotificationKey
        /\ notifications' \in [DOMAIN notifications' -> DeliveryRow]
        /\ \A k \in DOMAIN notifications' :
              k.incident \in DOMAIN incidents /\ k.channel \in channels
    <3> HIDE DEF announced
    <3>1. /\ notifications' \in [DOMAIN notifications' -> DeliveryRow]
          /\ DOMAIN notifications' \subseteq NotificationKey
          /\ \A k \in DOMAIN notifications' :
                k \in DOMAIN notifications
                \/ (k.incident \in announced /\ k.channel \in channels)
      BY <2>1, <2>3, <2>4, QueuedRows
    <3> QED BY <2>3, <3>1 DEF TypeOK
  <2> QED BY <1>1, <1>4, <2>2, <2>5 DEF TypeOK
<1>7. CASE UNCHANGED <<incidents, notifications>>
  BY <1>1, <1>4, <1>7 DEF TypeOK
<1> QED BY <1>5, <1>6, <1>7 DEF ProcessResult

(* The sweep keeps the types, whatever happened since its SELECT. *)
LEMMA SweepTypeOK ==
    ASSUME TypeOK, Sweep
    PROVE  TypeOK'
<1>1. ASSUME NEW s \in Sweepers, SweepSelect(s)
      PROVE  TypeOK'
  <2>1. Due \in SUBSET IncidentIds
    BY DEF Due, TypeOK
  <2> QED BY <1>1, <2>1 DEF SweepSelect, config, TypeOK
<1>2. ASSUME NEW s \in Sweepers, SweepAborts(s)
      PROVE  TypeOK'
  BY <1>2 DEF SweepAborts, config, TypeOK
<1>3. ASSUME NEW s \in Sweepers, NEW i \in IncidentIds, SweepItemFails(s, i)
      PROVE  TypeOK'
  BY <1>3 DEF SweepItemFails, config, TypeOK
<1>4. ASSUME NEW s \in Sweepers, NEW i \in IncidentIds, SweepItem(s, i)
      PROVE  TypeOK'
  <2>1. /\ i \in DOMAIN incidents
        /\ sweep' = [sweep EXCEPT ![s] = @ \ {i}]
        /\ incidents' = [incidents EXCEPT ![i].notified = TRUE]
        /\ notifications' = WithQueued(incidents[i].monitor, {i}, "down")
        /\ UNCHANGED <<monitors, channels, verified, routes, windows>>
    BY <1>4 DEF SweepItem, config
  <2>2. incidents[i] \in IncidentRow /\ incidents[i].monitor \in Monitors
    BY <2>1 DEF TypeOK
  <2>3. /\ incidents' \in [DOMAIN incidents' -> IncidentRow]
        /\ DOMAIN incidents' = DOMAIN incidents
        /\ \A j \in DOMAIN incidents : incidents'[j].monitor = incidents[j].monitor
    <3>1. /\ [incidents[i] EXCEPT !.notified = TRUE] \in IncidentRow
          /\ [incidents[i] EXCEPT !.notified = TRUE].monitor = incidents[i].monitor
      BY <2>2 DEF IncidentRow
    <3> QED BY <2>1, <3>1 DEF TypeOK
  <2>4. /\ DOMAIN notifications' \subseteq NotificationKey
        /\ notifications' \in [DOMAIN notifications' -> DeliveryRow]
        /\ \A k \in DOMAIN notifications' :
              k.incident \in DOMAIN incidents /\ k.channel \in channels
    <3>1. "down" \in Kinds /\ {i} \in SUBSET IncidentIds
      BY DEF Kinds
    <3>2. /\ notifications' \in [DOMAIN notifications' -> DeliveryRow]
          /\ DOMAIN notifications' \subseteq NotificationKey
          /\ \A k \in DOMAIN notifications' :
                k \in DOMAIN notifications \/ (k.incident \in {i} /\ k.channel \in channels)
      BY <2>1, <2>2, <3>1, QueuedRows
    <3> QED BY <2>1, <3>2 DEF TypeOK
  <2>5. sweep' \in [Sweepers -> SUBSET IncidentIds]
    BY <2>1 DEF TypeOK
  <2> QED BY <2>1, <2>3, <2>4, <2>5 DEF TypeOK
<1> QED BY <1>1, <1>2, <1>3, <1>4 DEF Sweep

(* The API handlers, with their cascades, keep the types. *)
LEMMA MonitorHandlersTypeOK ==
    ASSUME AlertingAssumption, TypeOK, NEW m \in Monitors,
           \/ DeleteMonitor(m)
           \/ \E d \in Delays : CreateMonitor(m, d) \/ UpdateMonitor(m, d)
           \/ \E selection \in SUBSET Channels : SetMonitorChannels(m, selection)
    PROVE  TypeOK'
<1>1. ASSUME NEW d \in Delays, CreateMonitor(m, d)
      PROVE  TypeOK'
  <2> DEFINE row == [status |-> "unknown", fails |-> 0, delay |-> d]
  <2>1. row \in MonitorRow
    BY DEF MonitorRow, Statuses, AlertingAssumption, FailureThreshold
  <2>2. monitors' = Put(monitors, m, row)
        /\ UNCHANGED <<channels, verified, routes, windows, incidents,
                       notifications, sweep>>
    BY <1>1 DEF CreateMonitor, config
  <2>3. monitors \in [DOMAIN monitors -> MonitorRow] /\ DOMAIN monitors \subseteq Monitors
    BY DEF TypeOK
  <2> HIDE DEF row
  <2>4. /\ monitors' \in [DOMAIN monitors' -> MonitorRow]
        /\ DOMAIN monitors' = DOMAIN monitors \cup {m}
    BY <2>1, <2>2, <2>3 DEF Put
  <2> QED BY <2>2, <2>3, <2>4 DEF TypeOK
<1>2. ASSUME NEW d \in Delays, UpdateMonitor(m, d)
      PROVE  TypeOK'
  <2>1. /\ m \in DOMAIN monitors
        /\ monitors' = [monitors EXCEPT ![m].delay = d]
        /\ UNCHANGED <<channels, verified, routes, windows, incidents,
                       notifications, sweep>>
    BY <1>2 DEF UpdateMonitor, config
  <2>2. [monitors[m] EXCEPT !.delay = d] \in MonitorRow
    BY <2>1 DEF TypeOK, MonitorRow
  <2>3. /\ monitors' \in [DOMAIN monitors' -> MonitorRow]
        /\ DOMAIN monitors' = DOMAIN monitors
    BY <2>1, <2>2, Zenon DEF TypeOK
  <2> QED BY <2>1, <2>3 DEF TypeOK
<1>3. ASSUME NEW selection \in SUBSET Channels, SetMonitorChannels(m, selection)
      PROVE  TypeOK'
  BY <1>3 DEF SetMonitorChannels, TypeOK
<1>4. ASSUME DeleteMonitor(m)
      PROVE  TypeOK'
  <2>1. /\ monitors' = Drop(monitors, {m})
        /\ incidents' = Drop(incidents, IncidentsOf(m))
        /\ notifications' = Drop(notifications,
              {k \in DOMAIN notifications : k.incident \in IncidentsOf(m)})
        /\ routes' = {r \in routes : r[1] # m}
        /\ windows' = [w \in DOMAIN windows |-> [windows[w] EXCEPT !.covers = @ \ {m}]]
        /\ UNCHANGED <<channels, verified, sweep>>
    BY <1>4 DEF DeleteMonitor
  <2>2. /\ monitors' \in [DOMAIN monitors' -> MonitorRow]
        /\ DOMAIN monitors' = DOMAIN monitors \ {m}
        /\ DOMAIN monitors' \subseteq Monitors
    BY <2>1 DEF Drop, TypeOK
  <2>3. /\ incidents' \in [DOMAIN incidents' -> IncidentRow]
        /\ DOMAIN incidents' = DOMAIN incidents \ IncidentsOf(m)
        /\ DOMAIN incidents' \subseteq IncidentIds
        /\ \A i \in DOMAIN incidents' : incidents'[i] = incidents[i]
    BY <2>1 DEF Drop, TypeOK
  <2>4. \A i \in DOMAIN incidents' : incidents'[i].monitor \in DOMAIN monitors'
    BY <2>2, <2>3 DEF IncidentsOf, TypeOK
  <2>5. /\ notifications' \in [DOMAIN notifications' -> DeliveryRow]
        /\ DOMAIN notifications' =
              {k \in DOMAIN notifications : k.incident \notin IncidentsOf(m)}
    BY <2>1 DEF Drop, TypeOK
  <2>6. /\ windows' \in [DOMAIN windows' -> WindowRow]
        /\ DOMAIN windows' = DOMAIN windows
    <3>1. \A w \in DOMAIN windows : [windows[w] EXCEPT !.covers = @ \ {m}] \in WindowRow
      BY DEF TypeOK, WindowRow
    <3> QED BY <2>1, <3>1
  <2>7. routes' \subseteq (DOMAIN monitors') \X channels'
    BY <2>1, <2>2 DEF TypeOK
  <2> QED BY <2>1, <2>2, <2>3, <2>4, <2>5, <2>6, <2>7 DEF TypeOK
<1> QED BY <1>1, <1>2, <1>3, <1>4

(* Handlers of channels: a deleted channel takes its routes and rows along. *)
LEMMA ChannelHandlersTypeOK ==
    ASSUME TypeOK, NEW c \in Channels,
           CreateChannel(c) \/ VerifyChannel(c) \/ DeleteChannel(c)
    PROVE  TypeOK'
<1>1. CASE CreateChannel(c)
  BY <1>1 DEF CreateChannel, TypeOK
<1>2. CASE VerifyChannel(c)
  BY <1>2 DEF VerifyChannel, TypeOK
<1>3. CASE DeleteChannel(c)
  <2>1. /\ notifications' \in [DOMAIN notifications' -> DeliveryRow]
        /\ DOMAIN notifications' = {k \in DOMAIN notifications : k.channel # c}
    BY <1>3 DEF DeleteChannel, Drop, TypeOK
  <2> QED BY <1>3, <2>1 DEF DeleteChannel, TypeOK
<1> QED BY <1>1, <1>2, <1>3

(* Handlers of windows, and the passing of their ends. *)
LEMMA WindowHandlersTypeOK ==
    ASSUME TypeOK, NEW w \in Windows,
           \/ DeleteMaintenance(w)
           \/ \E selection \in SUBSET Monitors, phase \in Phases :
                 CreateMaintenance(w, selection, phase)
           \/ WindowStarts(w)
           \/ WindowEnds(w)
    PROVE  TypeOK'
<1>1. ASSUME NEW selection \in SUBSET Monitors, NEW phase \in Phases,
             CreateMaintenance(w, selection, phase)
      PROVE  TypeOK'
  <2> DEFINE row == [phase |-> phase,
                     covers |-> {m \in selection \cap DOMAIN monitors :
                                    TenantOf[m] = TenantOf[w]}]
  <2>1. row \in WindowRow
    BY DEF WindowRow
  <2>2. windows' = Put(windows, w, row)
    BY <1>1 DEF CreateMaintenance
  <2> HIDE DEF row
  <2>3. /\ windows' \in [DOMAIN windows' -> WindowRow]
        /\ DOMAIN windows' \subseteq Windows
    BY <2>1, <2>2 DEF Put, TypeOK
  <2> QED BY <1>1, <2>3 DEF CreateMaintenance, TypeOK
<1>2. CASE DeleteMaintenance(w)
  BY <1>2 DEF DeleteMaintenance, Drop, TypeOK
<1>3. CASE WindowStarts(w) \/ WindowEnds(w)
  <2>1. \A p \in {"during", "after"} : w \in DOMAIN windows =>
           [windows[w] EXCEPT !.phase = p] \in WindowRow
    BY DEF TypeOK, WindowRow, Phases
  <2>2. /\ windows' \in [DOMAIN windows' -> WindowRow]
        /\ DOMAIN windows' = DOMAIN windows
    BY <1>3, <2>1, Zenon DEF WindowStarts, WindowEnds, TypeOK
  <2> QED BY <1>3, <2>2 DEF WindowStarts, WindowEnds, TypeOK
<1> QED BY <1>1, <1>2, <1>3

(* The clock only moves ages, within their bound. *)
LEMMA TickTypeOK ==
    ASSUME AlertingAssumption, TypeOK, Tick
    PROVE  TypeOK'
<1>1. \A i \in DOMAIN incidents :
        LET row == [incidents[i] EXCEPT !.age = IF @ < MaxAge THEN @ + 1 ELSE @]
        IN  row \in IncidentRow /\ row.monitor = incidents[i].monitor
  BY DEF TypeOK, IncidentRow, AlertingAssumption
<1>2. /\ incidents' \in [DOMAIN incidents' -> IncidentRow]
      /\ DOMAIN incidents' = DOMAIN incidents
      /\ \A i \in DOMAIN incidents : incidents'[i].monitor = incidents[i].monitor
  BY <1>1 DEF Tick
<1> QED BY <1>2 DEF Tick, config, TypeOK

(* The handlers, the sweep, the clock and the workers together. *)
LEMMA NextTypeOK == AlertingAssumption /\ TypeOK /\ [Next]_vars => TypeOK'
<1> SUFFICES ASSUME AlertingAssumption, TypeOK, [Next]_vars
             PROVE  TypeOK'
  OBVIOUS
<1>1. CASE Check
  BY <1>1, ProcessResultTypeOK DEF Check
<1>2. CASE Sweep
  BY <1>2, SweepTypeOK
<1>3. CASE Configure
  BY <1>3, MonitorHandlersTypeOK, ChannelHandlersTypeOK, WindowHandlersTypeOK
     DEF Configure, Registry, Settings
<1>4. CASE Clock
  BY <1>4, TickTypeOK, WindowHandlersTypeOK DEF Clock
<1>5. CASE UNCHANGED vars
  BY <1>5 DEF vars, TypeOK
<1> QED BY <1>1, <1>2, <1>3, <1>4, <1>5 DEF Next

(* Every reachable database is well typed: in particular no incident, route or *)
(* notification outlives the monitor or the channel it points at.              *)
THEOREM TypeCorrect == Spec => []TypeOK
<1>1. Init => TypeOK
  BY InitTypeOK
<1>2. TypeOK /\ [Next]_vars => TypeOK'
  BY AlertingAssumption, NextTypeOK
<1> QED BY <1>1, <1>2, PTL DEF Spec

-----------------------------------------------------------------------------
(* Outages: the status of a monitor and its incidents.                      *)
(*                                                                          *)
(* OneOpenIncidentWhileDown is inductive beside TypeOK, whose foreign keys   *)
(* say that a monitor being created has no incident yet.                     *)

(* Nothing but a check result moves a monitor's status, its failure count or *)
(* the set of its open incidents; a new monitor has no outage.               *)
LEMMA OnlyResultsMoveOutages ==
    ASSUME TypeOK, Sweep \/ Configure \/ Clock \/ UNCHANGED vars,
           NEW m \in DOMAIN monitors'
    PROVE  \/ /\ m \in DOMAIN monitors
              /\ monitors'[m].status = monitors[m].status
              /\ monitors'[m].fails = monitors[m].fails
              /\ OpenIncidents(m)' = OpenIncidents(m)
           \/ /\ m \notin DOMAIN monitors
              /\ monitors'[m].status = "unknown"
              /\ monitors'[m].fails = 0
              /\ OpenIncidents(m)' = {}
<1> DEFINE Same == /\ m \in DOMAIN monitors
                   /\ monitors'[m].status = monitors[m].status
                   /\ monitors'[m].fails = monitors[m].fails
                   /\ OpenIncidents(m)' = OpenIncidents(m)
           New == /\ m \notin DOMAIN monitors
                  /\ monitors'[m].status = "unknown"
                  /\ monitors'[m].fails = 0
                  /\ OpenIncidents(m)' = {}
<1>1. ASSUME UNCHANGED <<monitors, incidents>>
      PROVE  Same
  BY <1>1 DEF OpenIncidents, IncidentsOf
<1>2. CASE Sweep
  <2>1. ASSUME NEW s \in Sweepers, NEW i \in IncidentIds, SweepItem(s, i)
        PROVE  Same
    <3>1. /\ UNCHANGED monitors
          /\ i \in DOMAIN incidents
          /\ incidents' = [incidents EXCEPT ![i].notified = TRUE]
      BY <2>1 DEF SweepItem
    <3>2. /\ incidents[i] \in IncidentRow
          /\ [incidents[i] EXCEPT !.notified = TRUE].monitor = incidents[i].monitor
          /\ [incidents[i] EXCEPT !.notified = TRUE].resolved = incidents[i].resolved
      BY <3>1 DEF TypeOK, IncidentRow
    <3>3. /\ DOMAIN incidents' = DOMAIN incidents
          /\ \A j \in DOMAIN incidents :
                /\ incidents'[j].monitor = incidents[j].monitor
                /\ incidents'[j].resolved = incidents[j].resolved
      BY <3>1, <3>2 DEF TypeOK
    <3> QED BY <3>1, <3>3 DEF OpenIncidents, IncidentsOf
  <2> QED BY <1>1, <1>2, <2>1 DEF Sweep, SweepSelect, SweepAborts, SweepItemFails
<1>3. CASE Configure
  <2>1. ASSUME NEW n \in Monitors, NEW d \in Delays, CreateMonitor(n, d)
        PROVE  Same \/ New
    <3>1. CASE m = n
      <4>1. m \notin DOMAIN monitors /\ monitors'[m].status = "unknown"
            /\ monitors'[m].fails = 0 /\ UNCHANGED incidents
        BY <2>1, <3>1 DEF CreateMonitor, Put
      <4> QED BY <4>1 DEF OpenIncidents, IncidentsOf, TypeOK
    <3>2. CASE m # n
      <4>1. m \in DOMAIN monitors /\ monitors'[m] = monitors[m] /\ UNCHANGED incidents
        BY <2>1, <3>2 DEF CreateMonitor, Put
      <4> QED BY <4>1 DEF OpenIncidents, IncidentsOf
    <3> QED BY <3>1, <3>2
  <2>2. ASSUME NEW n \in Monitors, NEW d \in Delays, UpdateMonitor(n, d)
        PROVE  Same
    <3>1. /\ n \in DOMAIN monitors /\ UNCHANGED incidents
          /\ monitors' = [monitors EXCEPT ![n].delay = d]
      BY <2>2 DEF UpdateMonitor
    <3>2. /\ [monitors[n] EXCEPT !.delay = d].status = monitors[n].status
          /\ [monitors[n] EXCEPT !.delay = d].fails = monitors[n].fails
      BY <3>1 DEF TypeOK, MonitorRow
    <3>3. /\ m \in DOMAIN monitors
          /\ monitors'[m].status = monitors[m].status
          /\ monitors'[m].fails = monitors[m].fails
      BY <3>1, <3>2 DEF TypeOK
    <3> QED BY <3>1, <3>3 DEF OpenIncidents, IncidentsOf
  <2>3. ASSUME NEW n \in Monitors, DeleteMonitor(n)
        PROVE  Same
    <3>1. /\ m \in DOMAIN monitors \ {n} /\ monitors'[m] = monitors[m]
          /\ DOMAIN incidents' = DOMAIN incidents \ IncidentsOf(n)
          /\ \A i \in DOMAIN incidents' : incidents'[i] = incidents[i]
      BY <2>3 DEF DeleteMonitor, Drop
    <3> QED BY <3>1 DEF OpenIncidents, IncidentsOf
  <2>4. ASSUME NEW n \in Monitors, NEW selection \in SUBSET Channels,
               SetMonitorChannels(n, selection)
        PROVE  Same
    BY <1>1, <2>4 DEF SetMonitorChannels
  <2>5. ASSUME NEW c \in Channels,
               CreateChannel(c) \/ VerifyChannel(c) \/ DeleteChannel(c)
        PROVE  Same
    BY <1>1, <2>5 DEF CreateChannel, VerifyChannel, DeleteChannel
  <2>6. ASSUME NEW w \in Windows,
               \/ DeleteMaintenance(w)
               \/ \E selection \in SUBSET Monitors, phase \in Phases :
                     CreateMaintenance(w, selection, phase)
        PROVE  Same
    BY <1>1, <2>6 DEF CreateMaintenance, DeleteMaintenance
  <2> QED BY <1>3, <2>1, <2>2, <2>3, <2>4, <2>5, <2>6
     DEF Configure, Registry, Settings
<1>4. CASE Clock
  <2>1. CASE Tick
    <3>1. \A i \in DOMAIN incidents :
            LET row == [incidents[i] EXCEPT !.age = IF @ < MaxAge THEN @ + 1 ELSE @]
            IN  /\ row.monitor = incidents[i].monitor
                /\ row.resolved = incidents[i].resolved
      BY DEF TypeOK, IncidentRow
    <3>2. /\ DOMAIN incidents' = DOMAIN incidents /\ UNCHANGED monitors
          /\ \A i \in DOMAIN incidents :
                /\ incidents'[i].monitor = incidents[i].monitor
                /\ incidents'[i].resolved = incidents[i].resolved
      BY <2>1, <3>1 DEF Tick
    <3> QED BY <3>2 DEF OpenIncidents, IncidentsOf
  <2>2. ASSUME NEW w \in Windows, WindowStarts(w) \/ WindowEnds(w)
        PROVE  Same
    BY <1>1, <2>2 DEF WindowStarts, WindowEnds
  <2> QED BY <1>4, <2>1, <2>2 DEF Clock
<1>5. CASE UNCHANGED vars
  BY <1>1, <1>5 DEF vars
<1> QED BY <1>2, <1>3, <1>4, <1>5

\* The two facts about outages, as one formula.
OutageInv == OneOpenIncidentWhileDown /\ DownFromThreshold

(* A check result opens an incident exactly when it makes the monitor down,  *)
(* and closes the one there is exactly when it brings the monitor back.      *)
LEMMA ResultKeepsOutages ==
    ASSUME AlertingAssumption, TypeOK, OutageInv,
           NEW n \in Monitors, NEW ok \in BOOLEAN, ProcessResult(n, ok)
    PROVE  OutageInv'
<1> DEFINE newFails  == NewFails(n, ok)
           old == monitors[n].status
           newStatus == NewStatus(n, ok)
<1>1. /\ n \in DOMAIN monitors
      /\ monitors' = [monitors EXCEPT ![n].fails = newFails, ![n].status = newStatus]
  BY DEF ProcessResult
<1>2. /\ monitors[n] \in MonitorRow
      /\ monitors \in [DOMAIN monitors -> MonitorRow]
      /\ incidents \in [DOMAIN incidents -> IncidentRow]
  BY <1>1 DEF TypeOK
<1>3. /\ DOMAIN monitors' = DOMAIN monitors
      /\ monitors'[n].fails = newFails /\ monitors'[n].status = newStatus
      /\ \A m \in DOMAIN monitors : m # n => monitors'[m] = monitors[m]
  <2>1. /\ [monitors[n] EXCEPT !.fails = newFails, !.status = newStatus].fails = newFails
        /\ [monitors[n] EXCEPT !.fails = newFails, !.status = newStatus].status = newStatus
    BY <1>2 DEF MonitorRow
  <2> HIDE DEF newFails, newStatus
  <2> QED BY <1>1, <1>2, <2>1
<1>4. newStatus = "down" <=> newFails >= FailureThreshold
  BY <1>1, <1>2 DEF OutageInv, DownFromThreshold, MonitorRow, FailureThreshold,
                    NewFails, NewStatus, CountFail, AlertingAssumption
<1>5. DownFromThreshold'
  <2> HIDE DEF newFails, newStatus
  <2> QED BY <1>3, <1>4 DEF OutageInv, DownFromThreshold
<1>6. \A m \in DOMAIN monitors : m # n => OpenIncidents(m)' = OpenIncidents(m)
  <2>1. CASE OpenIncident(n)
    <3>1. PICK i, row :
            /\ i \in FreshIncidents
            /\ incidents' = Put(incidents, i, row) /\ row.monitor = n
      BY <2>1 DEF OpenIncident
    <3>2. i \notin DOMAIN incidents
      BY <3>1 DEF FreshIncidents
    <3> QED BY <3>1, <3>2 DEF Put, OpenIncidents, IncidentsOf
  <2>2. CASE ResolveIncident(n)
    <3>1. /\ DOMAIN incidents' = DOMAIN incidents
          /\ \A i \in DOMAIN incidents :
                /\ incidents'[i].monitor = incidents[i].monitor
                /\ i \notin OpenIncidents(n) => incidents'[i] = incidents[i]
      <4>1. \A i \in DOMAIN incidents :
              [incidents[i] EXCEPT !.resolved = TRUE].monitor = incidents[i].monitor
        BY <1>2 DEF IncidentRow
      <4> QED BY <2>2, <4>1 DEF ResolveIncident
    <3> QED BY <3>1 DEF OpenIncidents, IncidentsOf
  <2>3. CASE UNCHANGED incidents
    BY <2>3 DEF OpenIncidents, IncidentsOf
  <2> QED BY <2>1, <2>2, <2>3 DEF ProcessResult
<1>7. CASE newStatus = "down" /\ old # "down"
  <2>1. OpenIncident(n)
    BY <1>7 DEF ProcessResult, GoesDown, ComesBack
  <2>2. OpenIncidents(n) = {}
    BY <1>1, <1>7 DEF OutageInv, OneOpenIncidentWhileDown
  <2>3. PICK i, row :
          /\ i \in FreshIncidents
          /\ incidents' = Put(incidents, i, row)
          /\ row.monitor = n /\ row.resolved = FALSE
    BY <2>1 DEF OpenIncident
  <2>4. i \notin DOMAIN incidents
    BY <2>3 DEF FreshIncidents
  <2>5. OpenIncidents(n)' = {i}
    BY <2>2, <2>3, <2>4 DEF Put, OpenIncidents, IncidentsOf
  <2> HIDE DEF newFails, newStatus, old
  <2>6. OneOpenIncidentWhileDown'
    BY <1>3, <1>6, <1>7, <2>5 DEF OutageInv, OneOpenIncidentWhileDown
  <2> QED BY <1>5, <2>6 DEF OutageInv
<1>8. CASE newStatus = "up" /\ old = "down"
  <2>1. ResolveIncident(n)
    BY <1>8 DEF ProcessResult, GoesDown, ComesBack
  <2>2. \A i \in DOMAIN incidents :
          /\ [incidents[i] EXCEPT !.resolved = TRUE].monitor = incidents[i].monitor
          /\ [incidents[i] EXCEPT !.resolved = TRUE].resolved = TRUE
    BY <1>2 DEF IncidentRow
  <2>3. OpenIncidents(n)' = {}
    BY <2>1, <2>2 DEF ResolveIncident, OpenIncidents, IncidentsOf
  <2> HIDE DEF newFails, newStatus, old
  <2>4. OneOpenIncidentWhileDown'
    BY <1>3, <1>6, <1>8, <2>3 DEF OutageInv, OneOpenIncidentWhileDown
  <2> QED BY <1>5, <2>4 DEF OutageInv
<1>9. CASE /\ ~(newStatus = "down" /\ old # "down")
           /\ ~(newStatus = "up" /\ old = "down")
  <2>1. UNCHANGED incidents
    BY <1>9 DEF ProcessResult, GoesDown, ComesBack
  <2>2. OpenIncidents(n)' = OpenIncidents(n)
    BY <2>1 DEF OpenIncidents, IncidentsOf
  <2>3. newStatus = "down" <=> old = "down"
    BY <1>9 DEF NewStatus
  <2> HIDE DEF newFails, newStatus
  <2>4. OneOpenIncidentWhileDown'
    BY <1>1, <1>3, <1>6, <2>2, <2>3 DEF OutageInv, OneOpenIncidentWhileDown
  <2> QED BY <1>5, <2>4 DEF OutageInv
<1> QED BY <1>7, <1>8, <1>9

(* OutageInv is inductive relative to TypeOK. *)
LEMMA NextKeepsOutages ==
    AlertingAssumption /\ TypeOK /\ OutageInv /\ [Next]_vars => OutageInv'
<1> SUFFICES ASSUME AlertingAssumption, TypeOK, OutageInv, [Next]_vars
             PROVE  OutageInv'
  OBVIOUS
<1>1. CASE Check
  BY <1>1, ResultKeepsOutages DEF Check
<1>2. CASE Sweep \/ Configure \/ Clock \/ UNCHANGED vars
  <2>1. ASSUME NEW m \in DOMAIN monitors'
        PROVE  /\ monitors'[m].status = "down" <=> OpenIncidents(m)' # {}
               /\ \A i, j \in OpenIncidents(m)' : i = j
               /\ monitors'[m].status = "down"
                     <=> monitors'[m].fails >= FailureThreshold
    BY <1>2, <2>1, OnlyResultsMoveOutages
       DEF OutageInv, OneOpenIncidentWhileDown, DownFromThreshold, FailureThreshold
  <2> QED BY <2>1 DEF OutageInv, OneOpenIncidentWhileDown, DownFromThreshold
<1> QED BY <1>1, <1>2 DEF Next

(* Both facts hold of every reachable state. *)
LEMMA OutagesInvariant == Spec => []OutageInv
<1>1. Init => OutageInv
  BY DEF Init, OutageInv, OneOpenIncidentWhileDown, DownFromThreshold
<1>2. TypeOK /\ OutageInv /\ [Next]_vars => OutageInv'
  BY AlertingAssumption, NextKeepsOutages
<1> QED BY <1>1, <1>2, TypeCorrect, PTL DEF Spec

(* No monitor is ever down without exactly one open incident, nor has an open *)
(* incident without being down.                                               *)
THEOREM OutagesAreRecordedOnce == Spec => []OneOpenIncidentWhileDown
<1>1. OutageInv => OneOpenIncidentWhileDown
  BY DEF OutageInv
<1> QED BY <1>1, OutagesInvariant, PTL

(* A monitor is down exactly when its last FailureThreshold results failed.   *)
THEOREM DownMeansThresholdReached == Spec => []DownFromThreshold
<1>1. OutageInv => DownFromThreshold
  BY DEF OutageInv
<1> QED BY <1>1, OutagesInvariant, PTL

-----------------------------------------------------------------------------
(* Announcements.                                                           *)
(*                                                                          *)
(* AnnouncementsAreCoherent alone is not inductive: SweepItem announces an   *)
(* incident without looking at it again, so that what a sweep remembers must *)
(* be part of the invariant.                                                 *)

\* An incident a sweep has in hand did not open inside a window, so that paging it
\* late pages no planned outage.
SweptIncidentsAreUnplanned ==
    \A s \in Sweepers : \A i \in sweep[s] \cap DOMAIN incidents :
        ~incidents[i].planned

AnnounceInv == AnnouncementsAreCoherent /\ SweptIncidentsAreUnplanned

(* A step that adds no announcement and only moves incidents forward.        *)
LEMMA QuietStepsStayCoherent ==
    ASSUME TypeOK, TypeOK', AnnounceInv,
           DOMAIN incidents' \subseteq DOMAIN incidents,
           \A i \in DOMAIN incidents' :
              /\ incidents'[i].planned = incidents[i].planned
              /\ incidents'[i].notified = incidents[i].notified
              /\ incidents[i].resolved => incidents'[i].resolved,
           DOMAIN notifications' \subseteq DOMAIN notifications,
           \A s \in Sweepers : sweep'[s] \subseteq sweep[s]
    PROVE  AnnounceInv'
<1>1. \A k \in DOMAIN notifications' :
        /\ k \in DOMAIN notifications
        /\ k.incident \in DOMAIN incidents'
  BY DEF TypeOK
<1>2. AnnouncementsAreCoherent'
  BY <1>1 DEF AnnounceInv, AnnouncementsAreCoherent
<1>3. SweptIncidentsAreUnplanned'
  BY DEF AnnounceInv, SweptIncidentsAreUnplanned
<1> QED BY <1>2, <1>3 DEF AnnounceInv

(* AnnounceInv is inductive relative to TypeOK and OutageInv. *)
LEMMA NextKeepsAnnouncements ==
    ASSUME TypeOK, TypeOK', AnnounceInv, [Next]_vars
    PROVE  AnnounceInv'
<1>0. incidents \in [DOMAIN incidents -> IncidentRow]
  BY DEF TypeOK
<1>1. ASSUME NEW m \in Monitors, NEW ok \in BOOLEAN, ProcessResult(m, ok)
      PROVE  AnnounceInv'
  <2>1. UNCHANGED sweep
    BY <1>1 DEF ProcessResult
  <2>2. CASE OpenIncident(m)
    <3>1. PICK i \in FreshIncidents :
            LET planned == InMaintenance(m)
                notify  == ~planned /\ monitors[m].delay = 0
            IN  /\ incidents' = Put(incidents, i,
                       [monitor |-> m, planned |-> planned, notified |-> notify,
                        resolved |-> FALSE, age |-> 0])
                /\ notifications' = IF notify THEN WithQueued(m, {i}, "down")
                                              ELSE notifications
      BY <2>2 DEF OpenIncident
    <3>2. /\ i \in IncidentIds /\ i \notin DOMAIN incidents
          /\ \A s \in Sweepers : i \notin sweep[s]
      BY DEF FreshIncidents
    <3>3. /\ DOMAIN incidents' = DOMAIN incidents \cup {i}
          /\ incidents'[i].planned => ~incidents'[i].notified
          /\ \A j \in DOMAIN incidents : incidents'[j] = incidents[j]
      BY <3>1, <3>2 DEF Put
    <3>4. SweptIncidentsAreUnplanned'
      BY <2>1, <3>2, <3>3 DEF AnnounceInv, SweptIncidentsAreUnplanned
    <3>5. \A k \in DOMAIN notifications' :
            \/ k \in DOMAIN notifications
            \/ k.incident = i /\ k.kind = "down" /\ incidents'[i].notified
      <4>1. CASE ~InMaintenance(m) /\ monitors[m].delay = 0
        <5>1. notifications' = WithQueued(m, {i}, "down") /\ incidents'[i].notified
          BY <3>1, <4>1 DEF Put
        <5> QED BY <3>2, <5>1, QueuedRowsOfOne
      <4>2. CASE ~(~InMaintenance(m) /\ monitors[m].delay = 0)
        BY <3>1, <4>2
      <4> QED BY <4>1, <4>2
    <3>6. \A k \in DOMAIN notifications : k.incident \in DOMAIN incidents
      BY DEF TypeOK
    <3>7. AnnouncementsAreCoherent'
      BY <3>3, <3>5, <3>6 DEF AnnounceInv, AnnouncementsAreCoherent
    <3> QED BY <3>4, <3>7 DEF AnnounceInv
  <2>3. CASE ResolveIncident(m)
    <3> DEFINE announced == {i \in OpenIncidents(m) :
                                ~incidents[i].planned /\ incidents[i].notified}
    <3>1. /\ incidents' = [i \in DOMAIN incidents |->
                IF i \in OpenIncidents(m) THEN [incidents[i] EXCEPT !.resolved = TRUE]
                                          ELSE incidents[i]]
          /\ notifications' = WithQueued(m, announced, "recovered")
      BY <2>3 DEF ResolveIncident
    <3>2. \A i \in DOMAIN incidents :
            LET row == [incidents[i] EXCEPT !.resolved = TRUE]
            IN  /\ row.planned = incidents[i].planned
                /\ row.notified = incidents[i].notified
                /\ row.resolved = TRUE
      BY <1>0 DEF IncidentRow
    <3>3. /\ DOMAIN incidents' = DOMAIN incidents
          /\ \A i \in DOMAIN incidents :
                /\ incidents'[i].planned = incidents[i].planned
                /\ incidents'[i].notified = incidents[i].notified
                /\ incidents[i].resolved => incidents'[i].resolved
                /\ i \in OpenIncidents(m) => incidents'[i].resolved
      BY <3>1, <3>2
    <3>4. /\ announced \in SUBSET IncidentIds /\ announced \subseteq DOMAIN incidents
          /\ "recovered" \in Kinds
      BY DEF OpenIncidents, IncidentsOf, TypeOK, Kinds
    <3>5. \A i \in announced : incidents[i].notified /\ i \in OpenIncidents(m)
      OBVIOUS
    <3> HIDE DEF announced
    <3>6. \A k \in DOMAIN notifications' :
            k \in DOMAIN notifications \/ k.incident \in announced
      BY <3>1, <3>4, QueuedRows
    <3>7. \A k \in DOMAIN notifications : k.incident \in DOMAIN incidents
      BY DEF TypeOK
    <3>8. AnnouncementsAreCoherent'
      BY <3>3, <3>4, <3>5, <3>6, <3>7 DEF AnnounceInv, AnnouncementsAreCoherent
    <3>9. SweptIncidentsAreUnplanned'
      BY <2>1, <3>3 DEF AnnounceInv, SweptIncidentsAreUnplanned
    <3> QED BY <3>8, <3>9 DEF AnnounceInv
  <2>4. CASE UNCHANGED <<incidents, notifications>>
    BY <2>1, <2>4, QuietStepsStayCoherent
  <2> QED BY <1>1, <2>2, <2>3, <2>4 DEF ProcessResult
<1>2. ASSUME NEW s \in Sweepers, SweepSelect(s)
      PROVE  AnnounceInv'
  <2>1. UNCHANGED <<incidents, notifications>> /\ sweep' = [sweep EXCEPT ![s] = Due]
    BY <1>2 DEF SweepSelect
  <2>2. SweptIncidentsAreUnplanned'
    BY <2>1 DEF AnnounceInv, SweptIncidentsAreUnplanned, Due, TypeOK
  <2> QED BY <2>1, <2>2 DEF AnnounceInv, AnnouncementsAreCoherent
<1>3. ASSUME NEW s \in Sweepers, NEW i \in IncidentIds, SweepItem(s, i)
      PROVE  AnnounceInv'
  <2>1. /\ i \in sweep[s] /\ i \in DOMAIN incidents
        /\ sweep' = [sweep EXCEPT ![s] = @ \ {i}]
        /\ incidents' = [incidents EXCEPT ![i].notified = TRUE]
        /\ notifications' = WithQueued(incidents[i].monitor, {i}, "down")
    BY <1>3 DEF SweepItem
  <2>2. LET row == [incidents[i] EXCEPT !.notified = TRUE]
        IN  /\ row.planned = incidents[i].planned
            /\ row.notified = TRUE
            /\ row.resolved = incidents[i].resolved
    BY <1>0, <2>1 DEF IncidentRow
  <2>3. /\ DOMAIN incidents' = DOMAIN incidents
        /\ incidents'[i].notified
        /\ \A j \in DOMAIN incidents :
              /\ incidents'[j].planned = incidents[j].planned
              /\ incidents'[j].resolved = incidents[j].resolved
              /\ j # i => incidents'[j].notified = incidents[j].notified
    BY <1>0, <2>1, <2>2
  <2>4. ~incidents[i].planned
    BY <2>1 DEF AnnounceInv, SweptIncidentsAreUnplanned
  <2>5. \A k \in DOMAIN notifications' :
          k \in DOMAIN notifications \/ (k.incident = i /\ k.kind = "down")
    <3>1. incidents[i].monitor \in Monitors
      BY <2>1 DEF TypeOK
    <3> QED BY <2>1, <3>1, QueuedRowsOfOne
  <2>6. \A k \in DOMAIN notifications : k.incident \in DOMAIN incidents
    BY DEF TypeOK
  <2>7. AnnouncementsAreCoherent'
    <3>1. \A j \in DOMAIN incidents' : incidents'[j].planned => ~incidents'[j].notified
      BY <2>3, <2>4 DEF AnnounceInv, AnnouncementsAreCoherent
    <3>2. \A k \in DOMAIN notifications' :
            /\ incidents'[k.incident].notified
            /\ k.kind = "recovered" => incidents'[k.incident].resolved
      BY <2>3, <2>5, <2>6 DEF AnnounceInv, AnnouncementsAreCoherent
    <3> QED BY <3>1, <3>2 DEF AnnouncementsAreCoherent
  <2>8. SweptIncidentsAreUnplanned'
    BY <2>1, <2>3 DEF AnnounceInv, SweptIncidentsAreUnplanned, TypeOK
  <2> QED BY <2>7, <2>8 DEF AnnounceInv
<1>4. ASSUME NEW s \in Sweepers,
             SweepAborts(s) \/ \E i \in IncidentIds : SweepItemFails(s, i)
      PROVE  AnnounceInv'
  <2>1. UNCHANGED <<incidents, notifications>>
        /\ \A r \in Sweepers : sweep'[r] \subseteq sweep[r]
    BY <1>4 DEF SweepAborts, SweepItemFails, TypeOK
  <2> QED BY <2>1, QuietStepsStayCoherent
<1>5. ASSUME NEW m \in Monitors, DeleteMonitor(m)
      PROVE  AnnounceInv'
  <2>1. /\ DOMAIN incidents' \subseteq DOMAIN incidents
        /\ \A i \in DOMAIN incidents' : incidents'[i] = incidents[i]
        /\ DOMAIN notifications' \subseteq DOMAIN notifications
        /\ UNCHANGED sweep
    BY <1>5 DEF DeleteMonitor, Drop
  <2> QED BY <2>1, QuietStepsStayCoherent
<1>6. ASSUME NEW c \in Channels, DeleteChannel(c)
      PROVE  AnnounceInv'
  <2>1. /\ DOMAIN notifications' \subseteq DOMAIN notifications
        /\ UNCHANGED <<incidents, sweep>>
    BY <1>6 DEF DeleteChannel, Drop
  <2> QED BY <2>1, QuietStepsStayCoherent
<1>7. ASSUME Tick
      PROVE  AnnounceInv'
  <2>1. \A i \in DOMAIN incidents :
          LET row == [incidents[i] EXCEPT !.age = IF @ < MaxAge THEN @ + 1 ELSE @]
          IN  /\ row.planned = incidents[i].planned
              /\ row.notified = incidents[i].notified
              /\ row.resolved = incidents[i].resolved
    BY <1>0 DEF IncidentRow
  <2>2. /\ DOMAIN incidents' = DOMAIN incidents
        /\ \A i \in DOMAIN incidents :
              /\ incidents'[i].planned = incidents[i].planned
              /\ incidents'[i].notified = incidents[i].notified
              /\ incidents'[i].resolved = incidents[i].resolved
        /\ UNCHANGED <<notifications, sweep>>
    BY <1>7, <2>1 DEF Tick
  <2> QED BY <2>2, QuietStepsStayCoherent
<1>8. ASSUME UNCHANGED <<incidents, notifications, sweep>>
      PROVE  AnnounceInv'
  BY <1>8, QuietStepsStayCoherent
<1>9. CASE Check
  BY <1>1, <1>9 DEF Check
<1>10. CASE Sweep
  BY <1>2, <1>3, <1>4, <1>10 DEF Sweep
<1>11. CASE Configure
  BY <1>5, <1>6, <1>8, <1>11
     DEF Configure, Registry, Settings, CreateMonitor, UpdateMonitor, SetMonitorChannels, CreateChannel,
         VerifyChannel, CreateMaintenance, DeleteMaintenance
<1>12. CASE Clock
  BY <1>7, <1>8, <1>12 DEF Clock, WindowStarts, WindowEnds
<1>13. CASE UNCHANGED vars
  BY <1>8, <1>13 DEF vars
<1> QED BY <1>9, <1>10, <1>11, <1>12, <1>13 DEF Next

(* What is announced, and what sweeps have in hand, in every reachable state. *)
LEMMA AnnouncementsInvariant == Spec => []AnnounceInv
<1>1. Init => AnnounceInv
  BY DEF Init, AnnounceInv, AnnouncementsAreCoherent, SweptIncidentsAreUnplanned
<1>2. TypeOK /\ TypeOK' /\ AnnounceInv /\ [Next]_vars => AnnounceInv'
  BY NextKeepsAnnouncements
<1> QED BY <1>1, <1>2, TypeCorrect, PTL DEF Spec

(* Nothing is announced of an incident that opened in a window, nothing is   *)
(* queued for an incident not marked notified, and no recovery is queued     *)
(* before the incident is resolved.                                          *)
THEOREM AnnouncementsStayCoherent == Spec => []AnnouncementsAreCoherent
<1>1. AnnounceInv => AnnouncementsAreCoherent
  BY DEF AnnounceInv
<1> QED BY <1>1, AnnouncementsInvariant, PTL

(* No replica of the notifier ever holds a planned incident to page for.     *)
THEOREM SweepsHoldUnplanned == Spec => []SweptIncidentsAreUnplanned
<1>1. AnnounceInv => SweptIncidentsAreUnplanned
  BY DEF AnnounceInv
<1> QED BY <1>1, AnnouncementsInvariant, PTL

-----------------------------------------------------------------------------
(* Tenants.                                                                 *)

(* Steps that queue nothing and leave the monitor of every incident alone.  *)
LEMMA QuietStepsKeepTenantsApart ==
    ASSUME TypeOK, TypeOK', TenantIsolation,
           DOMAIN incidents' \subseteq DOMAIN incidents,
           \A i \in DOMAIN incidents' : incidents'[i].monitor = incidents[i].monitor,
           DOMAIN notifications' \subseteq DOMAIN notifications,
           routes' \subseteq routes,
           DOMAIN windows' \subseteq DOMAIN windows,
           \A w \in DOMAIN windows' : windows'[w].covers \subseteq windows[w].covers
    PROVE  TenantIsolation'
<1>1. \A k \in DOMAIN notifications' : k.incident \in DOMAIN incidents'
  BY DEF TypeOK
<1> QED BY <1>1 DEF TenantIsolation

(* Rows queued for incidents of a monitor go to channels of its tenant.     *)
LEMMA QueuedRowsStayInTenant ==
    ASSUME TypeOK, TypeOK', TenantIsolation,
           NEW m \in Monitors, NEW is \in SUBSET IncidentIds, NEW kind \in Kinds,
           DOMAIN incidents \subseteq DOMAIN incidents',
           \A i \in DOMAIN incidents : incidents'[i].monitor = incidents[i].monitor,
           \A i \in is : incidents'[i].monitor = m,
           notifications' = WithQueued(m, is, kind),
           UNCHANGED <<routes, windows>>
    PROVE  TenantIsolation'
<1>1. \A k \in DOMAIN notifications' :
        \/ k \in DOMAIN notifications
        \/ k.incident \in is /\ TenantOf[k.channel] = TenantOf[m]
  BY QueuedRows
<1>2. \A k \in DOMAIN notifications : k.incident \in DOMAIN incidents
  BY DEF TypeOK
<1> QED BY <1>1, <1>2 DEF TenantIsolation

(* TenantIsolation is inductive relative to TypeOK. *)
LEMMA NextKeepsTenantsApart ==
    ASSUME TypeOK, TypeOK', TenantIsolation, [Next]_vars
    PROVE  TenantIsolation'
<1>0. incidents \in [DOMAIN incidents -> IncidentRow] /\ DOMAIN incidents \subseteq IncidentIds
  BY DEF TypeOK
<1>1. ASSUME NEW m \in Monitors, NEW ok \in BOOLEAN, ProcessResult(m, ok)
      PROVE  TenantIsolation'
  <2>1. UNCHANGED <<routes, windows>>
    BY <1>1 DEF ProcessResult, config
  <2>2. CASE OpenIncident(m)
    <3>1. PICK i \in FreshIncidents :
            LET planned == InMaintenance(m)
                notify  == ~planned /\ monitors[m].delay = 0
            IN  /\ incidents' = Put(incidents, i,
                       [monitor |-> m, planned |-> planned, notified |-> notify,
                        resolved |-> FALSE, age |-> 0])
                /\ notifications' = IF notify THEN WithQueued(m, {i}, "down")
                                              ELSE notifications
      BY <2>2 DEF OpenIncident
    <3>2. i \in IncidentIds /\ i \notin DOMAIN incidents /\ "down" \in Kinds
      BY DEF FreshIncidents, Kinds
    <3>3. /\ DOMAIN incidents' = DOMAIN incidents \cup {i}
          /\ incidents'[i].monitor = m
          /\ \A j \in DOMAIN incidents : incidents'[j] = incidents[j]
      BY <3>1, <3>2 DEF Put
    <3>4. CASE notifications' = WithQueued(m, {i}, "down")
      BY <2>1, <3>2, <3>3, <3>4, QueuedRowsStayInTenant
    <3>5. CASE notifications' = notifications
      BY <2>1, <3>3, <3>5 DEF TenantIsolation, TypeOK
    <3> QED BY <3>1, <3>4, <3>5
  <2>3. CASE ResolveIncident(m)
    <3> DEFINE announced == {i \in OpenIncidents(m) :
                                ~incidents[i].planned /\ incidents[i].notified}
    <3>1. /\ incidents' = [i \in DOMAIN incidents |->
                IF i \in OpenIncidents(m) THEN [incidents[i] EXCEPT !.resolved = TRUE]
                                          ELSE incidents[i]]
          /\ notifications' = WithQueued(m, announced, "recovered")
      BY <2>3 DEF ResolveIncident
    <3>2. \A i \in DOMAIN incidents :
            [incidents[i] EXCEPT !.resolved = TRUE].monitor = incidents[i].monitor
      BY <1>0 DEF IncidentRow
    <3>3. /\ DOMAIN incidents' = DOMAIN incidents
          /\ \A i \in DOMAIN incidents : incidents'[i].monitor = incidents[i].monitor
      BY <3>1, <3>2
    <3>4. /\ announced \in SUBSET IncidentIds /\ announced \subseteq DOMAIN incidents
          /\ \A i \in announced : incidents[i].monitor = m
          /\ "recovered" \in Kinds
      BY <1>0 DEF OpenIncidents, IncidentsOf, Kinds
    <3> HIDE DEF announced
    <3> QED BY <2>1, <3>1, <3>3, <3>4, QueuedRowsStayInTenant
  <2>4. CASE UNCHANGED <<incidents, notifications>>
    BY <2>1, <2>4 DEF TenantIsolation
  <2> QED BY <1>1, <2>2, <2>3, <2>4 DEF ProcessResult
<1>2. ASSUME NEW s \in Sweepers, NEW i \in IncidentIds, SweepItem(s, i)
      PROVE  TenantIsolation'
  <2>1. /\ i \in DOMAIN incidents
        /\ incidents' = [incidents EXCEPT ![i].notified = TRUE]
        /\ notifications' = WithQueued(incidents[i].monitor, {i}, "down")
        /\ UNCHANGED <<routes, windows>>
    BY <1>2 DEF SweepItem, config
  <2>2. [incidents[i] EXCEPT !.notified = TRUE].monitor = incidents[i].monitor
    BY <1>0, <2>1 DEF IncidentRow
  <2>3. /\ DOMAIN incidents' = DOMAIN incidents
        /\ \A j \in DOMAIN incidents : incidents'[j].monitor = incidents[j].monitor
    BY <1>0, <2>1, <2>2
  <2>4. incidents[i].monitor \in Monitors /\ "down" \in Kinds
    BY <2>1 DEF TypeOK, Kinds
  <2> QED BY <2>1, <2>3, <2>4, QueuedRowsStayInTenant
<1>3. ASSUME NEW m \in Monitors, DeleteMonitor(m)
      PROVE  TenantIsolation'
  <2>1. /\ DOMAIN incidents' \subseteq DOMAIN incidents
        /\ \A i \in DOMAIN incidents' : incidents'[i] = incidents[i]
        /\ DOMAIN notifications' \subseteq DOMAIN notifications
        /\ routes' \subseteq routes
        /\ windows' = [w \in DOMAIN windows |-> [windows[w] EXCEPT !.covers = @ \ {m}]]
    BY <1>3 DEF DeleteMonitor, Drop
  <2>2. \A w \in DOMAIN windows :
          [windows[w] EXCEPT !.covers = @ \ {m}].covers = windows[w].covers \ {m}
    BY DEF TypeOK, WindowRow
  <2> QED BY <2>1, <2>2, QuietStepsKeepTenantsApart
<1>4. ASSUME NEW m \in Monitors, NEW selection \in SUBSET Channels,
             SetMonitorChannels(m, selection)
      PROVE  TenantIsolation'
  <2>1. /\ \A c \in selection : TenantOf[c] = TenantOf[m]
        /\ routes' = {r \in routes : r[1] # m} \cup ({m} \X selection)
        /\ UNCHANGED <<windows, incidents, notifications>>
    BY <1>4 DEF SetMonitorChannels
  <2> QED BY <2>1 DEF TenantIsolation
<1>5. ASSUME NEW c \in Channels, DeleteChannel(c)
      PROVE  TenantIsolation'
  <2>1. /\ DOMAIN notifications' \subseteq DOMAIN notifications
        /\ routes' \subseteq routes
        /\ UNCHANGED <<windows, incidents>>
    BY <1>5 DEF DeleteChannel, Drop
  <2> QED BY <2>1, QuietStepsKeepTenantsApart
<1>6. ASSUME NEW w \in Windows, NEW selection \in SUBSET Monitors, NEW phase \in Phases,
             CreateMaintenance(w, selection, phase)
      PROVE  TenantIsolation'
  <2> DEFINE row == [phase |-> phase, covers |-> {m \in selection \cap DOMAIN monitors :
                                                    TenantOf[m] = TenantOf[w]}]
  <2>1. windows' = Put(windows, w, row) /\ UNCHANGED <<routes, incidents, notifications>>
    BY <1>6 DEF CreateMaintenance
  <2>2. \A m \in row.covers : TenantOf[m] = TenantOf[w]
    OBVIOUS
  <2> HIDE DEF row
  <2> QED BY <2>1, <2>2 DEF TenantIsolation, Put
<1>7. ASSUME NEW w \in Windows, DeleteMaintenance(w) \/ WindowStarts(w) \/ WindowEnds(w)
      PROVE  TenantIsolation'
  <2>1. UNCHANGED <<routes, incidents, notifications>>
    BY <1>7 DEF DeleteMaintenance, WindowStarts, WindowEnds
  <2>2. /\ DOMAIN windows' \subseteq DOMAIN windows
        /\ \A v \in DOMAIN windows' : windows'[v].covers = windows[v].covers
    <3>1. CASE DeleteMaintenance(w)
      BY <3>1 DEF DeleteMaintenance, Drop
    <3>2. \A v \in DOMAIN windows, phase \in Phases :
            [windows[v] EXCEPT !.phase = phase].covers = windows[v].covers
      BY DEF TypeOK, WindowRow
    <3>3. CASE WindowStarts(w) \/ WindowEnds(w)
      BY <3>2, <3>3 DEF WindowStarts, WindowEnds, Phases, TypeOK
    <3> QED BY <1>7, <3>1, <3>3
  <2> QED BY <2>1, <2>2, QuietStepsKeepTenantsApart
<1>8. CASE Tick
  <2>1. \A i \in DOMAIN incidents :
          [incidents[i] EXCEPT !.age = IF @ < MaxAge THEN @ + 1 ELSE @].monitor
             = incidents[i].monitor
    BY <1>0 DEF IncidentRow
  <2>2. /\ DOMAIN incidents' = DOMAIN incidents
        /\ \A i \in DOMAIN incidents : incidents'[i].monitor = incidents[i].monitor
        /\ UNCHANGED <<notifications, routes, windows>>
    BY <1>8, <2>1 DEF Tick, config
  <2> QED BY <2>2, QuietStepsKeepTenantsApart
<1>9. ASSUME UNCHANGED <<incidents, notifications, routes, windows>>
      PROVE  TenantIsolation'
  BY <1>9 DEF TenantIsolation
<1>10. CASE Sweep
  BY <1>2, <1>9, <1>10 DEF Sweep, SweepSelect, SweepAborts, SweepItemFails, config
<1>11. CASE Configure
  BY <1>3, <1>4, <1>5, <1>6, <1>7, <1>9, <1>11
     DEF Configure, Registry, Settings, CreateMonitor, UpdateMonitor, CreateChannel,
         VerifyChannel, config
<1>12. CASE Check \/ Clock \/ UNCHANGED vars
  BY <1>1, <1>7, <1>8, <1>9, <1>12 DEF Check, Clock, vars
<1> QED BY <1>10, <1>11, <1>12 DEF Next

(* Alerts, routes and windows never relate rows of two tenants.              *)
THEOREM TenantsStayApart == Spec => []TenantIsolation
<1>1. Init => TenantIsolation
  BY DEF Init, TenantIsolation
<1>2. TypeOK /\ TypeOK' /\ TenantIsolation /\ [Next]_vars => TenantIsolation'
  BY NextKeepsTenantsApart
<1> QED BY <1>1, <1>2, TypeCorrect, PTL DEF Spec

-----------------------------------------------------------------------------
(* Refinement: the tables implement the ledger of Outages.                  *)

(* What queueing rows adds to the ledger: everybody the monitor alerts on   *)
(* has been told, and nobody is told of anything else.                      *)
LEMMA QueuedRowsTell ==
    ASSUME TypeOK, NEW m \in Monitors, NEW is \in SUBSET IncidentIds,
           NEW kind \in Kinds, notifications' = WithQueued(m, is, kind)
    PROVE  /\ Told(kind)' = Told(kind) \cup (is \X Targets(m))
           /\ \A other \in Kinds : other # kind => Told(other)' = Told(other)
<1> DEFINE keys == [incident : is, channel : Targets(m), kind : {kind}]
<1>1. DOMAIN notifications' = DOMAIN notifications \cup keys
  BY DEF WithQueued
<1>2. \A k \in keys : k.incident \in is /\ k.channel \in Targets(m) /\ k.kind = kind
  OBVIOUS
<1>3. ASSUME NEW i \in is, NEW c \in Targets(m)
      PROVE  \E k \in keys : k.incident = i /\ k.channel = c /\ k.kind = kind
  <2>1. [incident |-> i, channel |-> c, kind |-> kind] \in keys
    OBVIOUS
  <2> QED BY <2>1
<1> HIDE DEF keys
<1>4. Told(kind)' = Told(kind) \cup (is \X Targets(m))
  <2>1. ASSUME NEW p \in Told(kind)'
        PROVE  p \in Told(kind) \cup (is \X Targets(m))
    <3>1. PICK k \in DOMAIN notifications' :
            k.kind = kind /\ p = <<k.incident, k.channel>>
      BY <2>1 DEF Told
    <3> QED BY <1>1, <1>2, <3>1 DEF Told
  <2>2. ASSUME NEW p \in Told(kind)
        PROVE  p \in Told(kind)'
    BY <1>1, <2>2 DEF Told
  <2>3. ASSUME NEW p \in is \X Targets(m)
        PROVE  p \in Told(kind)'
    <3>1. PICK i \in is, c \in Targets(m) : p = <<i, c>>
      BY <2>3
    <3>2. PICK k \in keys : k.incident = i /\ k.channel = c /\ k.kind = kind
      BY <1>3
    <3>3. k \in {q \in DOMAIN notifications' : q.kind = kind} /\ p = <<k.incident, k.channel>>
      BY <1>1, <3>1, <3>2
    <3> QED BY <3>3 DEF Told
  <2> QED BY <2>1, <2>2, <2>3
<1>5. ASSUME NEW other \in Kinds, other # kind
      PROVE  Told(other)' = Told(other)
  <2>1. \A k \in DOMAIN notifications' : k.kind = other <=> k.kind = other /\ k \in DOMAIN notifications
    BY <1>1, <1>2, <1>5
  <2> QED BY <1>1, <2>1 DEF Told
<1> QED BY <1>4, <1>5

\* What the refinement relies on in every reachable state.
TablesInv == TypeOK /\ OutageInv /\ AnnounceInv

(* The current outage of the ledger is the open incident of the tables.     *)
LEMMA CurrentIsOpen ==
    ASSUME NEW m PROVE Ledger!Current(m) = OpenIncidents(m)
BY DEF Ledger!Current, History, OpenIncidents, IncidentsOf

(* Two entries of the ledger that differ in one column.                     *)
LEMMA LedgerRow ==
    ASSUME NEW r \in Ledger!Outage, NEW q \in Ledger!Outage,
           q.monitor = r.monitor, q.planned = r.planned
    PROVE  /\ q.announced = r.announced /\ q.over = TRUE => q = [r EXCEPT !.over = TRUE]
           /\ q.announced = TRUE /\ q.over = r.over => q = [r EXCEPT !.announced = TRUE]
BY DEF Ledger!Outage

(* A check result begins an outage, ends the current one, or changes nothing *)
(* of the ledger.                                                            *)
LEMMA ResultsAreLedgerSteps ==
    ASSUME TablesInv, NEW m \in Monitors, NEW ok \in BOOLEAN, ProcessResult(m, ok)
    PROVE  [Ledger!Next]_(Ledger!vars)
<1>0. /\ incidents \in [DOMAIN incidents -> IncidentRow]
      /\ monitors \in [DOMAIN monitors -> MonitorRow]
      /\ DOMAIN incidents \subseteq IncidentIds
      /\ Targets(m) \in SUBSET Channels
      /\ "down" \in Kinds /\ "recovered" \in Kinds
  BY DEF TablesInv, TypeOK, Targets, Kinds
<1>1. /\ m \in DOMAIN monitors /\ DOMAIN monitors' = DOMAIN monitors
      /\ monitors'[m].status = NewStatus(m, ok)
      /\ \A n \in DOMAIN monitors : n # m => monitors'[n] = monitors[n]
  <2>1. /\ m \in DOMAIN monitors
        /\ monitors' = [monitors EXCEPT ![m].fails = NewFails(m, ok),
                                        ![m].status = NewStatus(m, ok)]
    BY DEF ProcessResult
  <2>2. monitors' = [monitors EXCEPT ![m] =
            [monitors[m] EXCEPT !.fails = NewFails(m, ok), !.status = NewStatus(m, ok)]]
    BY <2>1
  <2>3. [monitors[m] EXCEPT !.fails = NewFails(m, ok), !.status = NewStatus(m, ok)].status
          = NewStatus(m, ok)
    BY <1>0, <2>1 DEF MonitorRow
  <2> QED BY <1>0, <2>1, <2>2, <2>3
<1>2. CASE GoesDown(m, ok)
  <2>1. m \notin Down /\ Down' = Down \cup {m}
    BY <1>1, <1>2 DEF GoesDown, Down
  <2>2. OpenIncidents(m) = {}
    BY <1>1, <2>1 DEF TablesInv, OutageInv, OneOpenIncidentWhileDown, Down
  <2>3. OpenIncident(m)
    BY <1>2 DEF ProcessResult, GoesDown, ComesBack
  <2>4. PICK i \in FreshIncidents :
          LET planned == InMaintenance(m)
              notify  == ~planned /\ monitors[m].delay = 0
          IN  /\ incidents' = Put(incidents, i,
                     [monitor |-> m, planned |-> planned, notified |-> notify,
                      resolved |-> FALSE, age |-> 0])
              /\ notifications' = IF notify THEN WithQueued(m, {i}, "down")
                                            ELSE notifications
    BY <2>3 DEF OpenIncident
  <2> DEFINE planned == InMaintenance(m)
             notify  == ~planned /\ monitors[m].delay = 0
  <2>5. i \in IncidentIds /\ i \notin DOMAIN incidents
    BY DEF FreshIncidents
  <2>6. planned \in BOOLEAN /\ notify \in BOOLEAN /\ (planned => ~notify)
    BY DEF InMaintenance
  <2>7. History' = [j \in DOMAIN History \cup {i} |->
                      IF j = i THEN [monitor |-> m, planned |-> planned,
                                     announced |-> notify, over |-> FALSE]
                               ELSE History[j]]
    <3> HIDE DEF planned, notify
    <3>1. /\ DOMAIN incidents' = DOMAIN incidents \cup {i}
          /\ incidents'[i] = [monitor |-> m, planned |-> planned, notified |-> notify,
                              resolved |-> FALSE, age |-> 0]
          /\ \A j \in DOMAIN incidents : incidents'[j] = incidents[j]
      BY <2>4, <2>5 DEF Put, planned, notify
    <3>2. DOMAIN History = DOMAIN incidents
      BY DEF History
    <3>3. History' = [j \in DOMAIN incidents \cup {i} |->
                [monitor |-> incidents'[j].monitor, planned |-> incidents'[j].planned,
                 announced |-> incidents'[j].notified, over |-> incidents'[j].resolved]]
      BY <3>1 DEF History
    <3>4. \A j \in DOMAIN incidents : History[j] =
                [monitor |-> incidents[j].monitor, planned |-> incidents[j].planned,
                 announced |-> incidents[j].notified, over |-> incidents[j].resolved]
      BY DEF History
    <3>5. ASSUME NEW j \in DOMAIN incidents \cup {i}
          PROVE  [monitor |-> incidents'[j].monitor, planned |-> incidents'[j].planned,
                  announced |-> incidents'[j].notified, over |-> incidents'[j].resolved]
                   = IF j = i THEN [monitor |-> m, planned |-> planned,
                                    announced |-> notify, over |-> FALSE]
                              ELSE History[j]
      <4>1. CASE j = i
        <5>1. /\ incidents'[j].monitor = m /\ incidents'[j].planned = planned
              /\ incidents'[j].notified = notify /\ incidents'[j].resolved = FALSE
          BY <3>1, <4>1
        <5> QED BY <4>1, <5>1
      <4>2. CASE j # i
        BY <3>1, <3>4, <4>2
      <4> QED BY <4>1, <4>2
    <3> QED BY <3>2, <3>3, <3>5
  <2>8. /\ Told("recovered")' = Told("recovered")
        /\ IF notify THEN \E told \in SUBSET Channels :
                             Told("down")' = Told("down") \cup ({i} \X told)
                     ELSE Told("down")' = Told("down")
    <3>1. CASE notify
      <4>1. notifications' = WithQueued(m, {i}, "down")
        BY <2>4, <3>1
      <4>2. /\ Told("down")' = Told("down") \cup ({i} \X Targets(m))
            /\ Told("recovered")' = Told("recovered")
        BY <1>0, <2>5, <4>1, QueuedRowsTell DEF TablesInv
      <4> QED BY <1>0, <3>1, <4>2
    <3>2. CASE ~notify
      <4>1. notifications' = notifications
        BY <2>4, <3>2
      <4> QED BY <3>2, <4>1 DEF Told
    <3> QED BY <3>1, <3>2
  <2>9. Ledger!Current(m) = {} /\ i \notin DOMAIN History
    BY <2>2, <2>5, CurrentIsOpen DEF History
  <2> HIDE DEF planned, notify
  <2>10. Ledger!Begins(m, i)
    BY <2>1, <2>6, <2>7, <2>8, <2>9 DEF Ledger!Begins
  <2> QED BY <2>5, <2>10 DEF Ledger!Next
<1>3. CASE ComesBack(m, ok)
  <2>1. m \in Down /\ Down' = Down \ {m}
    BY <1>1, <1>3 DEF ComesBack, Down
  <2>2. PICK i : OpenIncidents(m) = {i}
    <3>1. OpenIncidents(m) # {} /\ \A j, k \in OpenIncidents(m) : j = k
      BY <1>1, <2>1 DEF TablesInv, OutageInv, OneOpenIncidentWhileDown, Down
    <3>2. PICK j : j \in OpenIncidents(m)
      BY <3>1
    <3>3. OpenIncidents(m) = {j}
      BY <3>1, <3>2
    <3> QED BY <3>3
  <2>3. ResolveIncident(m)
    BY <1>3 DEF ProcessResult, GoesDown, ComesBack
  <2>4. /\ i \in DOMAIN incidents /\ i \in IncidentIds
        /\ incidents[i].notified => ~incidents[i].planned
        /\ incidents[i].notified \in BOOLEAN /\ incidents[i].planned \in BOOLEAN
    BY <1>0, <2>2 DEF OpenIncidents, IncidentsOf, TablesInv, AnnounceInv,
                      AnnouncementsAreCoherent, IncidentRow
  <2>5. History' = [History EXCEPT ![i].over = TRUE]
    <3>1. incidents' = [j \in DOMAIN incidents |->
              IF j = i THEN [incidents[i] EXCEPT !.resolved = TRUE] ELSE incidents[j]]
      BY <2>2, <2>3 DEF ResolveIncident
    <3>2. LET row == [incidents[i] EXCEPT !.resolved = TRUE]
          IN  /\ row.monitor = incidents[i].monitor /\ row.planned = incidents[i].planned
              /\ row.notified = incidents[i].notified /\ row.resolved = TRUE
      BY <1>0, <2>4 DEF IncidentRow
    <3>3. /\ DOMAIN History = DOMAIN incidents /\ DOMAIN History' = DOMAIN incidents
          /\ \A j \in DOMAIN incidents : j # i => History'[j] = History[j]
      BY <3>1 DEF History
    <3>4. History[i] = [monitor |-> incidents[i].monitor, planned |-> incidents[i].planned,
                        announced |-> incidents[i].notified, over |-> incidents[i].resolved]
      BY <2>4 DEF History
    <3>5. History'[i] = [monitor |-> incidents[i].monitor, planned |-> incidents[i].planned,
                         announced |-> incidents[i].notified, over |-> TRUE]
      BY <2>4, <3>1, <3>2 DEF History
    <3>6. History'[i] = [History[i] EXCEPT !.over = TRUE]
      <4>1. incidents[i] \in IncidentRow
        BY <1>0, <2>4
      <4>2. History[i] \in Ledger!Outage
        BY <3>4, <4>1 DEF Ledger!Outage, IncidentRow
      <4>3. History'[i] \in Ledger!Outage
        BY <3>5, <4>1 DEF Ledger!Outage, IncidentRow
      <4>4. /\ History'[i].monitor = History[i].monitor /\ History'[i].planned = History[i].planned
            /\ History'[i].announced = History[i].announced /\ History'[i].over = TRUE
        BY <3>4, <3>5
      <4> QED BY <4>2, <4>3, <4>4, LedgerRow
    <3>7. /\ History = [j \in DOMAIN incidents |-> History[j]]
          /\ History' = [j \in DOMAIN incidents |-> History'[j]]
      BY <3>1 DEF History
    <3> QED BY <2>4, <3>3, <3>6, <3>7
  <2>6. /\ Told("down")' = Told("down")
        /\ IF History[i].announced
             THEN \E told \in SUBSET Channels :
                     Told("recovered")' = Told("recovered") \cup ({i} \X told)
             ELSE Told("recovered")' = Told("recovered")
    <3> DEFINE announced == {j \in OpenIncidents(m) :
                                ~incidents[j].planned /\ incidents[j].notified}
    <3>1. notifications' = WithQueued(m, announced, "recovered")
      BY <2>3 DEF ResolveIncident
    <3>2. announced = IF incidents[i].notified THEN {i} ELSE {}
      BY <2>2, <2>4
    <3>3. History[i].announced = incidents[i].notified
      BY <2>4 DEF History
    <3>4. announced \in SUBSET IncidentIds
      BY <2>4, <3>2
    <3> HIDE DEF announced
    <3>5. /\ Told("recovered")' = Told("recovered") \cup (announced \X Targets(m))
          /\ Told("down")' = Told("down")
      BY <1>0, <3>1, <3>4, QueuedRowsTell DEF TablesInv
    <3>6. CASE incidents[i].notified
      BY <1>0, <3>2, <3>3, <3>5, <3>6
    <3>7. CASE ~incidents[i].notified
      BY <3>2, <3>3, <3>5, <3>7
    <3> QED BY <3>5, <3>6, <3>7
  <2>7. Ledger!Current(m) = {i}
    BY <2>2, CurrentIsOpen
  <2>8. Ledger!Ends(m, i)
    BY <2>1, <2>5, <2>6, <2>7 DEF Ledger!Ends
  <2> QED BY <2>4, <2>8 DEF Ledger!Next
<1>4. CASE ~GoesDown(m, ok) /\ ~ComesBack(m, ok)
  <2>1. UNCHANGED <<incidents, notifications>>
    BY <1>4 DEF ProcessResult
  <2>2. monitors'[m].status = "down" <=> monitors[m].status = "down"
    BY <1>1, <1>4 DEF GoesDown, ComesBack, NewStatus
  <2>3. Down' = Down
    BY <1>1, <2>2 DEF Down
  <2> QED BY <2>1, <2>3 DEF Ledger!vars, History, Told
<1> QED BY <1>2, <1>3, <1>4

(* The transaction of the sweep announces an outage, late or not.           *)
LEMMA SweepsAreLedgerSteps ==
    ASSUME TablesInv, NEW s \in Sweepers, NEW i \in IncidentIds, SweepItem(s, i)
    PROVE  Ledger!Pages(i)
<1>0. incidents \in [DOMAIN incidents -> IncidentRow]
  BY DEF TablesInv, TypeOK
<1>1. /\ i \in sweep[s] /\ i \in DOMAIN incidents /\ UNCHANGED monitors
      /\ incidents' = [incidents EXCEPT ![i].notified = TRUE]
      /\ notifications' = WithQueued(incidents[i].monitor, {i}, "down")
  BY DEF SweepItem
<1> DEFINE m == incidents[i].monitor
<1>2. m \in Monitors /\ Targets(m) \in SUBSET Channels /\ "down" \in Kinds /\ "recovered" \in Kinds
  BY <1>1 DEF TablesInv, TypeOK, Targets, Kinds
<1>3. ~History[i].planned /\ i \in DOMAIN History
  BY <1>1 DEF TablesInv, AnnounceInv, SweptIncidentsAreUnplanned, History
<1>4. /\ Told("down")' = Told("down") \cup ({i} \X Targets(m))
      /\ Told("recovered")' = Told("recovered")
  BY <1>1, <1>2, QueuedRowsTell DEF TablesInv
<1>5. Down' = Down
  BY <1>1 DEF Down
<1>6. History' = [History EXCEPT ![i].announced = TRUE]
  <2>1. LET row == [incidents[i] EXCEPT !.notified = TRUE]
        IN  /\ row.monitor = incidents[i].monitor /\ row.planned = incidents[i].planned
            /\ row.notified = TRUE /\ row.resolved = incidents[i].resolved
    BY <1>0, <1>1 DEF IncidentRow
  <2>2. /\ DOMAIN incidents' = DOMAIN incidents
        /\ incidents'[i] = [incidents[i] EXCEPT !.notified = TRUE]
        /\ \A j \in DOMAIN incidents : j # i => incidents'[j] = incidents[j]
    BY <1>0, <1>1
  <2>3. History[i] = [monitor |-> incidents[i].monitor, planned |-> incidents[i].planned,
                      announced |-> incidents[i].notified, over |-> incidents[i].resolved]
    BY <1>1 DEF History
  <2>4. History'[i] = [monitor |-> incidents[i].monitor, planned |-> incidents[i].planned,
                       announced |-> TRUE, over |-> incidents[i].resolved]
    BY <1>1, <2>1, <2>2 DEF History
  <2>5. incidents[i] \in IncidentRow
    BY <1>0, <1>1
  <2>6. History'[i] = [History[i] EXCEPT !.announced = TRUE]
    <3>1. History[i] \in Ledger!Outage
      BY <2>3, <2>5 DEF Ledger!Outage, IncidentRow
    <3>2. History'[i] \in Ledger!Outage
      BY <2>4, <2>5 DEF Ledger!Outage, IncidentRow
    <3>3. /\ History'[i].monitor = History[i].monitor /\ History'[i].planned = History[i].planned
          /\ History'[i].announced = TRUE /\ History'[i].over = History[i].over
      BY <2>3, <2>4
    <3> QED BY <3>1, <3>2, <3>3, LedgerRow
  <2>7. /\ DOMAIN History = DOMAIN incidents /\ DOMAIN History' = DOMAIN incidents
        /\ \A j \in DOMAIN incidents : j # i => History'[j] = History[j]
        /\ History = [j \in DOMAIN incidents |-> History[j]]
        /\ History' = [j \in DOMAIN incidents |-> History'[j]]
    BY <2>2 DEF History
  <2> QED BY <1>1, <2>6, <2>7
<1> QED BY <1>2, <1>3, <1>4, <1>5, <1>6 DEF Ledger!Pages

(* A deleted monitor takes its outages along, a deleted channel what it was *)
(* told.                                                                    *)
LEMMA DeletionsAreLedgerSteps ==
    ASSUME TablesInv
    PROVE  /\ \A m \in Monitors : DeleteMonitor(m) => Ledger!Forgets(m)
           /\ \A c \in Channels : DeleteChannel(c) => Ledger!Disconnects(c)
<1>1. ASSUME NEW m \in Monitors, DeleteMonitor(m)
      PROVE  Ledger!Forgets(m)
  <2> DEFINE kept == {i \in DOMAIN History : History[i].monitor # m}
  <2>1. /\ monitors' = [n \in DOMAIN monitors \ {m} |-> monitors[n]]
        /\ incidents' = [i \in DOMAIN incidents \ IncidentsOf(m) |-> incidents[i]]
        /\ DOMAIN notifications' =
              {k \in DOMAIN notifications : k.incident \notin IncidentsOf(m)}
    BY <1>1 DEF DeleteMonitor, Drop
  <2>2. Down' = Down \ {m}
    BY <2>1 DEF Down
  <2>3. kept = DOMAIN incidents \ IncidentsOf(m)
    BY DEF History, IncidentsOf
  <2>4. History' = [i \in kept |-> History[i]]
    BY <2>1, <2>3 DEF History
  <2>5. \A k \in DOMAIN notifications : k.incident \in DOMAIN incidents
    BY DEF TablesInv, TypeOK
  <2> HIDE DEF kept
  <2>6. ASSUME NEW kind PROVE Told(kind)' = {p \in Told(kind) : p[1] \in kept}
    <3>1. \A k \in DOMAIN notifications :
            /\ k \in DOMAIN notifications' <=> k.incident \in kept
            /\ <<k.incident, k.channel>>[1] = k.incident
      BY <2>1, <2>3, <2>5
    <3>2. DOMAIN notifications' \subseteq DOMAIN notifications
      BY <2>1
    <3> QED BY <3>1, <3>2 DEF Told
  <2> QED BY <2>2, <2>4, <2>6 DEF Ledger!Forgets, kept
<1>2. ASSUME NEW c \in Channels, DeleteChannel(c)
      PROVE  Ledger!Disconnects(c)
  <2>1. /\ DOMAIN notifications' = {k \in DOMAIN notifications : k.channel # c}
        /\ UNCHANGED <<monitors, incidents>>
    BY <1>2 DEF DeleteChannel, Drop
  <2>2. ASSUME NEW kind PROVE Told(kind)' = {p \in Told(kind) : p[2] # c}
    <3>1. \A k \in DOMAIN notifications :
            /\ k \in DOMAIN notifications' <=> k.channel # c
            /\ <<k.incident, k.channel>>[2] = k.channel
      BY <2>1
    <3>2. DOMAIN notifications' \subseteq DOMAIN notifications
      BY <2>1
    <3> QED BY <3>1, <3>2 DEF Told
  <2>3. UNCHANGED <<Down, History>>
    BY <2>1 DEF Down, History
  <2> QED BY <2>2, <2>3 DEF Ledger!Disconnects
<1> QED BY <1>1, <1>2

(* Every other step leaves the ledger alone.                                *)
LEMMA QuietStepsLeaveTheLedger ==
    ASSUME TablesInv,
           \/ \E m \in Monitors, d \in Delays : CreateMonitor(m, d) \/ UpdateMonitor(m, d)
           \/ Tick
           \/ UNCHANGED <<monitors, incidents, notifications>>
    PROVE  UNCHANGED Ledger!vars
<1>0. /\ incidents \in [DOMAIN incidents -> IncidentRow]
      /\ monitors \in [DOMAIN monitors -> MonitorRow]
  BY DEF TablesInv, TypeOK
<1>1. ASSUME NEW m \in Monitors, NEW d \in Delays, CreateMonitor(m, d)
      PROVE  UNCHANGED Ledger!vars
  <2>1. /\ m \notin DOMAIN monitors /\ UNCHANGED <<incidents, notifications>>
        /\ DOMAIN monitors' = DOMAIN monitors \cup {m}
        /\ monitors'[m].status = "unknown"
        /\ \A n \in DOMAIN monitors : monitors'[n] = monitors[n]
    BY <1>1 DEF CreateMonitor, Put
  <2>2. Down' = Down
    BY <2>1 DEF Down
  <2> QED BY <2>1, <2>2 DEF Ledger!vars, History, Told
<1>2. ASSUME NEW m \in Monitors, NEW d \in Delays, UpdateMonitor(m, d)
      PROVE  UNCHANGED Ledger!vars
  <2>1. /\ m \in DOMAIN monitors /\ UNCHANGED <<incidents, notifications>>
        /\ monitors' = [monitors EXCEPT ![m].delay = d]
    BY <1>2 DEF UpdateMonitor
  <2>2. [monitors[m] EXCEPT !.delay = d].status = monitors[m].status
    BY <1>0, <2>1 DEF MonitorRow
  <2>3. DOMAIN monitors' = DOMAIN monitors
        /\ \A n \in DOMAIN monitors : monitors'[n].status = monitors[n].status
    BY <1>0, <2>1, <2>2
  <2>4. Down' = Down
    BY <2>3 DEF Down
  <2> QED BY <2>1, <2>4 DEF Ledger!vars, History, Told
<1>3. ASSUME Tick
      PROVE  UNCHANGED Ledger!vars
  <2>1. \A i \in DOMAIN incidents :
          LET row == [incidents[i] EXCEPT !.age = IF @ < MaxAge THEN @ + 1 ELSE @]
          IN  /\ row.monitor = incidents[i].monitor /\ row.planned = incidents[i].planned
              /\ row.notified = incidents[i].notified /\ row.resolved = incidents[i].resolved
    BY <1>0 DEF IncidentRow
  <2>2. /\ DOMAIN incidents' = DOMAIN incidents /\ UNCHANGED <<monitors, notifications>>
        /\ \A i \in DOMAIN incidents :
              /\ incidents'[i].monitor = incidents[i].monitor
              /\ incidents'[i].planned = incidents[i].planned
              /\ incidents'[i].notified = incidents[i].notified
              /\ incidents'[i].resolved = incidents[i].resolved
    BY <1>3, <2>1 DEF Tick
  <2>3. History' = History
    BY <2>2 DEF History
  <2> QED BY <2>2, <2>3 DEF Ledger!vars, Down, Told
<1>4. ASSUME UNCHANGED <<monitors, incidents, notifications>>
      PROVE  UNCHANGED Ledger!vars
  BY <1>4 DEF Ledger!vars, Down, History, Told
<1> QED BY <1>1, <1>2, <1>3, <1>4

(* Every step of the tables is a step of the ledger, or leaves it alone.    *)
LEMMA StepsAreLedgerSteps ==
    ASSUME TablesInv, [Next]_vars
    PROVE  [Ledger!Next]_(Ledger!vars)
<1>1. ASSUME UNCHANGED <<monitors, incidents, notifications>>
      PROVE  UNCHANGED Ledger!vars
  BY <1>1, QuietStepsLeaveTheLedger
<1>2. CASE Check
  BY <1>2, ResultsAreLedgerSteps DEF Check
<1>3. CASE Sweep
  <2>1. ASSUME NEW s \in Sweepers, NEW i \in IncidentIds, SweepItem(s, i)
        PROVE  Ledger!Next
    BY <2>1, SweepsAreLedgerSteps DEF Ledger!Next
  <2> QED BY <1>1, <1>3, <2>1 DEF Sweep, SweepSelect, SweepAborts, SweepItemFails
<1>4. CASE Configure
  <2>1. ASSUME NEW m \in Monitors, NEW d \in Delays, CreateMonitor(m, d) \/ UpdateMonitor(m, d)
        PROVE  UNCHANGED Ledger!vars
    BY <2>1, QuietStepsLeaveTheLedger
  <2>2. ASSUME NEW m \in Monitors, DeleteMonitor(m)
        PROVE  Ledger!Next
    BY <2>2, DeletionsAreLedgerSteps DEF Ledger!Next
  <2>3. ASSUME NEW c \in Channels, DeleteChannel(c)
        PROVE  Ledger!Next
    BY <2>3, DeletionsAreLedgerSteps DEF Ledger!Next
  <2> QED BY <1>1, <1>4, <2>1, <2>2, <2>3
     DEF Configure, Registry, Settings, SetMonitorChannels, CreateChannel, VerifyChannel,
         CreateMaintenance, DeleteMaintenance
<1>5. CASE Clock
  <2>1. CASE Tick
    BY <2>1, QuietStepsLeaveTheLedger
  <2> QED BY <1>1, <1>5, <2>1 DEF Clock, WindowStarts, WindowEnds
<1>6. CASE UNCHANGED vars
  BY <1>1, <1>6 DEF vars
<1> QED BY <1>2, <1>3, <1>4, <1>5, <1>6 DEF Next

(* The tables of Alerting, with their sweeps, stale reads and cascades,     *)
(* implement the ledger of Outages.                                         *)
THEOREM AlertingImplementsOutages == Spec => ImplementsOutages
<1>1. Init => Ledger!Init
  BY DEF Init, Ledger!Init, Down, History, Told
<1>2. TablesInv /\ [Next]_vars => [Ledger!Next]_(Ledger!vars)
  BY StepsAreLedgerSteps
<1>3. TypeOK /\ OutageInv /\ AnnounceInv => TablesInv
  BY DEF TablesInv
<1> QED BY <1>1, <1>2, <1>3, TypeCorrect, OutagesInvariant, AnnouncementsInvariant, PTL
     DEF Spec, ImplementsOutages, Ledger!Spec

-----------------------------------------------------------------------------
(* Who is told, step by step.                                               *)

\* A step that announces nothing and ends nothing.
Quiet ==
    /\ DOMAIN notifications' \subseteq DOMAIN notifications
    /\ DOMAIN incidents' \subseteq DOMAIN incidents
    /\ \A i \in DOMAIN incidents' : /\ incidents'[i].notified = incidents[i].notified
                                    /\ incidents'[i].resolved = incidents[i].resolved

(* Only opening, resolving and sweeping announce anything.                  *)
LEMMA WhoAnnounces ==
    ASSUME TypeOK, [Next]_vars
    PROVE  \/ \E m \in Monitors : OpenIncident(m) \/ ResolveIncident(m)
           \/ \E s \in Sweepers, i \in IncidentIds : SweepItem(s, i)
           \/ Quiet
<1>1. ASSUME UNCHANGED <<incidents, notifications>> PROVE Quiet
  BY <1>1 DEF Quiet
<1>2. CASE UNCHANGED vars
  BY <1>1, <1>2 DEF vars
<1>3. ASSUME Check
      PROVE  Quiet \/ \E m \in Monitors : OpenIncident(m) \/ ResolveIncident(m)
  BY <1>1, <1>3 DEF Check, ProcessResult
<1>4. ASSUME Sweep
      PROVE  Quiet \/ \E s \in Sweepers, i \in IncidentIds : SweepItem(s, i)
  BY <1>1, <1>4 DEF Sweep, SweepSelect, SweepAborts, SweepItemFails
<1>5. ASSUME Registry PROVE Quiet
  <2>1. ASSUME NEW m \in Monitors, DeleteMonitor(m) PROVE Quiet
    BY <2>1 DEF DeleteMonitor, Drop, Quiet
  <2>2. ASSUME NEW m \in Monitors, NEW d \in Delays, CreateMonitor(m, d) PROVE Quiet
    BY <1>1, <2>2 DEF CreateMonitor
  <2> QED BY <1>5, <2>1, <2>2 DEF Registry
<1>6. ASSUME Settings PROVE Quiet
  <2>1. ASSUME NEW c \in Channels, DeleteChannel(c) PROVE Quiet
    BY <2>1 DEF DeleteChannel, Drop, Quiet
  <2>2. ASSUME UNCHANGED <<incidents, notifications>> \/ \E c \in Channels : DeleteChannel(c)
        PROVE Quiet
    BY <1>1, <2>1, <2>2
  <2> QED BY <1>6, <2>2 DEF Settings, UpdateMonitor, SetMonitorChannels, CreateChannel,
                             VerifyChannel, CreateMaintenance, DeleteMaintenance
<1>7. ASSUME Clock PROVE Quiet
  <2>1. CASE Tick
    <3>1. \A i \in DOMAIN incidents :
            LET row == [incidents[i] EXCEPT !.age = IF @ < MaxAge THEN @ + 1 ELSE @]
            IN  row.notified = incidents[i].notified /\ row.resolved = incidents[i].resolved
      BY DEF TypeOK, IncidentRow
    <3> QED BY <2>1, <3>1 DEF Tick, Quiet
  <2> QED BY <1>1, <1>7, <2>1 DEF Clock, WindowStarts, WindowEnds
<1> QED BY <1>2, <1>3, <1>4, <1>5, <1>6, <1>7 DEF Next, Configure

\* The incidents a step marks notified.
AnnouncedNow ==
    {i \in DOMAIN incidents' :
        incidents'[i].notified /\ (i \in DOMAIN incidents => ~incidents[i].notified)}

(* An incident is marked notified by the step that queues its rows, and that *)
(* step leaves everything alone that the choice of channels depends on.      *)
LEMMA MarkedAsItIsQueued ==
    ASSUME TypeOK, [Next]_vars, NEW i \in AnnouncedNow
    PROVE  /\ i \in IncidentIds /\ incidents'[i].monitor \in Monitors
           /\ notifications' = WithQueued(incidents'[i].monitor, {i}, "down")
           /\ ~\E m \in Monitors : ResolveIncident(m)
<1>0. incidents \in [DOMAIN incidents -> IncidentRow] /\ DOMAIN incidents \subseteq IncidentIds
  BY DEF TypeOK
<1>1. i \in DOMAIN incidents' /\ incidents'[i].notified
      /\ (i \in DOMAIN incidents => ~incidents[i].notified)
  BY DEF AnnouncedNow
<1>2. ~Quiet
  BY <1>1 DEF Quiet
<1>3. ASSUME NEW m \in Monitors PROVE ~ResolveIncident(m)
  <2> SUFFICES ASSUME ResolveIncident(m) PROVE FALSE
    OBVIOUS
  <2>1. incidents' = [j \in DOMAIN incidents |->
            IF j \in OpenIncidents(m) THEN [incidents[j] EXCEPT !.resolved = TRUE]
                                      ELSE incidents[j]]
    BY DEF ResolveIncident
  <2>2. \A j \in DOMAIN incidents :
          [incidents[j] EXCEPT !.resolved = TRUE].notified = incidents[j].notified
    BY <1>0 DEF IncidentRow
  <2> QED BY <1>1, <2>1, <2>2
<1>4. ASSUME NEW m \in Monitors, OpenIncident(m)
      PROVE  /\ i \in IncidentIds /\ incidents'[i].monitor = m
             /\ notifications' = WithQueued(m, {i}, "down")
  <2>1. PICK j \in FreshIncidents :
          LET planned == InMaintenance(m)
              notify  == ~planned /\ monitors[m].delay = 0
          IN  /\ incidents' = Put(incidents, j,
                     [monitor |-> m, planned |-> planned, notified |-> notify,
                      resolved |-> FALSE, age |-> 0])
              /\ notifications' = IF notify THEN WithQueued(m, {j}, "down")
                                            ELSE notifications
    BY <1>4 DEF OpenIncident
  <2> DEFINE planned == InMaintenance(m)
             notify  == ~planned /\ monitors[m].delay = 0
             row     == [monitor |-> m, planned |-> planned, notified |-> notify,
                         resolved |-> FALSE, age |-> 0]
  <2>2. row.monitor = m /\ row.notified = notify
    OBVIOUS
  <2>3. incidents' = Put(incidents, j, row)
        /\ (notify => notifications' = WithQueued(m, {j}, "down"))
    BY <2>1
  <2> HIDE DEF row, notify
  <2>4. i = j
    BY <1>1, <2>3 DEF Put
  <2>5. incidents'[i] = row
    BY <2>3, <2>4 DEF Put
  <2> QED BY <1>1, <2>2, <2>3, <2>4, <2>5 DEF FreshIncidents
<1>5. ASSUME NEW s \in Sweepers, NEW j \in IncidentIds, SweepItem(s, j)
      PROVE  /\ i \in IncidentIds
             /\ incidents'[i].monitor = incidents[i].monitor /\ i \in DOMAIN incidents
             /\ notifications' = WithQueued(incidents[i].monitor, {i}, "down")
  <2>1. /\ j \in DOMAIN incidents /\ incidents' = [incidents EXCEPT ![j].notified = TRUE]
        /\ notifications' = WithQueued(incidents[j].monitor, {j}, "down")
    BY <1>5 DEF SweepItem
  <2>2. i = j
    BY <1>1, <2>1
  <2>3. [incidents[j] EXCEPT !.notified = TRUE].monitor = incidents[j].monitor
    BY <1>0, <2>1 DEF IncidentRow
  <2>4. incidents'[j].monitor = incidents[j].monitor
    BY <2>1, <2>3
  <2> QED BY <2>1, <2>2, <2>4
<1>6. \A j \in DOMAIN incidents : incidents[j].monitor \in Monitors
  BY <1>0 DEF IncidentRow
<1> QED BY <1>2, <1>3, <1>4, <1>5, <1>6, WhoAnnounces

(* An outage marked notified has paged somebody if the tenant has a channel  *)
(* that may be sent to and the monitor has no routed one left.               *)
THEOREM NoMonitorGoesSilent == Spec => FallsBackToAllChannels
<1> DEFINE FallsBack ==
      \A i \in DOMAIN incidents' :
          LET m == incidents'[i].monitor
          IN  /\ incidents'[i].notified
              /\ i \in DOMAIN incidents => ~incidents[i].notified
              /\ \A c \in channels : <<m, c>> \notin routes
              /\ \E c \in verified : TenantOf[c] = TenantOf[m]
              => \E k \in DOMAIN notifications' : k.incident = i /\ k.kind = "down"
<1>1. TypeOK /\ [Next]_vars => [FallsBack]_vars
  <2> SUFFICES ASSUME TypeOK, [Next]_vars, NEW i \in AnnouncedNow,
                      \A c \in channels : <<incidents'[i].monitor, c>> \notin routes,
                      NEW c \in verified, TenantOf[c] = TenantOf[incidents'[i].monitor]
               PROVE  \E k \in DOMAIN notifications' : k.incident = i /\ k.kind = "down"
    BY DEF AnnouncedNow
  <2> DEFINE m == incidents'[i].monitor
             k == [incident |-> i, channel |-> c, kind |-> "down"]
  <2>1. notifications' = WithQueued(m, {i}, "down")
    BY MarkedAsItIsQueued
  <2>2. c \in Targets(m)
    BY DEF Targets, TypeOK
  <2> HIDE DEF m
  <2>3. k \in DOMAIN notifications'
    BY <2>1, <2>2 DEF WithQueued
  <2>4. k.incident = i /\ k.kind = "down"
    OBVIOUS
  <2> QED BY <2>3, <2>4
<1> QED BY <1>1, TypeCorrect, PTL DEF Spec, FallsBackToAllChannels

(* The end of an announced outage is told to every channel that was paged for *)
(* it and that the monitor still alerts on, and no other end is told.         *)
THEOREM RecoveriesReachTheRightPeople == Spec => RecoveryReachesPagedChannels
<1> DEFINE Reaches ==
      /\ \A k \in DOMAIN notifications :
            k.incident \in ResolvedNow /\ k.channel \in Targets(incidents[k.incident].monitor)
                => [k EXCEPT !.kind = "recovered"] \in DOMAIN notifications'
      /\ \A k \in QueuedNow :
            k.kind = "recovered" => k.incident \in ResolvedNow
                                    /\ incidents[k.incident].notified
<1>1. TypeOK /\ AnnounceInv /\ [Next]_vars => [Reaches]_vars
  <2> SUFFICES ASSUME TypeOK, AnnounceInv, [Next]_vars PROVE Reaches
    OBVIOUS
  <2>0. incidents \in [DOMAIN incidents -> IncidentRow] /\ DOMAIN incidents \subseteq IncidentIds
        /\ DOMAIN notifications \subseteq NotificationKey
    BY DEF TypeOK
  <2>1. CASE Quiet
    BY <2>1 DEF Quiet, ResolvedNow, QueuedNow
  <2>2. ASSUME NEW m \in Monitors, ResolveIncident(m) PROVE Reaches
    <3> DEFINE announced ==
                 {i \in OpenIncidents(m) : ~incidents[i].planned /\ incidents[i].notified}
               keys == [incident : announced, channel : Targets(m), kind : {"recovered"}]
    <3>1. /\ incidents' = [j \in DOMAIN incidents |->
                IF j \in OpenIncidents(m) THEN [incidents[j] EXCEPT !.resolved = TRUE]
                                          ELSE incidents[j]]
          /\ DOMAIN notifications' = DOMAIN notifications \cup keys
      BY <2>2 DEF ResolveIncident, WithQueued
    <3>2. ResolvedNow = OpenIncidents(m)
      <4>1. \A j \in DOMAIN incidents : [incidents[j] EXCEPT !.resolved = TRUE].resolved
        BY <2>0 DEF IncidentRow
      <4> QED BY <3>1, <4>1 DEF ResolvedNow, OpenIncidents, IncidentsOf
    <3>3. ASSUME NEW k \in DOMAIN notifications, k.incident \in ResolvedNow,
                 k.channel \in Targets(incidents[k.incident].monitor)
          PROVE  [k EXCEPT !.kind = "recovered"] \in DOMAIN notifications'
      <4>1. incidents[k.incident].monitor = m
        BY <3>2, <3>3 DEF OpenIncidents, IncidentsOf
      <4>2. k.incident \in announced
        BY <3>2, <3>3 DEF AnnounceInv, AnnouncementsAreCoherent, OpenIncidents, IncidentsOf
      <4>3. [k EXCEPT !.kind = "recovered"]
              = [incident |-> k.incident, channel |-> k.channel, kind |-> "recovered"]
        BY <2>0 DEF NotificationKey
      <4>4. [k EXCEPT !.kind = "recovered"] \in keys
        BY <3>3, <4>1, <4>2, <4>3
      <4> QED BY <3>1, <4>4
    <3>4. ASSUME NEW k \in QueuedNow, k.kind = "recovered"
          PROVE  k.incident \in ResolvedNow /\ incidents[k.incident].notified
      <4>1. k \in keys
        BY <3>1, <3>4 DEF QueuedNow
      <4>2. k.incident \in announced
        BY <4>1
      <4> QED BY <3>2, <4>2
    <3> QED BY <3>3, <3>4
  <2>3. ASSUME NEW m \in Monitors, OpenIncident(m) PROVE Reaches
    <3>1. PICK i \in FreshIncidents :
            /\ \E row : incidents' = Put(incidents, i, row)
            /\ notifications' \in {notifications, WithQueued(m, {i}, "down")}
      BY <2>3 DEF OpenIncident
    <3>2. i \in IncidentIds /\ i \notin DOMAIN incidents
      BY DEF FreshIncidents
    <3>3. ResolvedNow = {}
      BY <3>1, <3>2 DEF ResolvedNow, Put
    <3>4. \A k \in QueuedNow : k.kind = "down"
      BY <3>1, <3>2, QueuedRowsOfOne DEF QueuedNow
    <3> QED BY <3>3, <3>4
  <2>4. ASSUME NEW s \in Sweepers, NEW i \in IncidentIds, SweepItem(s, i) PROVE Reaches
    <3>1. /\ i \in DOMAIN incidents /\ incidents' = [incidents EXCEPT ![i].notified = TRUE]
          /\ notifications' = WithQueued(incidents[i].monitor, {i}, "down")
      BY <2>4 DEF SweepItem
    <3>2. incidents[i].monitor \in Monitors
          /\ [incidents[i] EXCEPT !.notified = TRUE].resolved = incidents[i].resolved
      BY <2>0, <3>1 DEF IncidentRow
    <3>3. \A j \in DOMAIN incidents : incidents'[j].resolved = incidents[j].resolved
      BY <3>1, <3>2
    <3>4. ResolvedNow = {}
      BY <3>3 DEF ResolvedNow
    <3>5. \A k \in QueuedNow : k.kind = "down"
      BY <3>1, <3>2, QueuedRowsOfOne DEF QueuedNow
    <3> QED BY <3>4, <3>5
  <2> QED BY <2>1, <2>2, <2>3, <2>4, WhoAnnounces
<1> QED BY <1>1, TypeCorrect, AnnouncementsInvariant, PTL
     DEF Spec, RecoveryReachesPagedChannels

-----------------------------------------------------------------------------
(* Alerting in the composed system: whatever the scheduler, the queue and    *)
(* the workers do, its tables only move by steps of Alerting, so that        *)
(* everything proved above holds of the whole system.                        *)

(* Every step of the composed system is a step of the pipeline or leaves it  *)
(* alone.                                                                    *)
LEMMA PipelineStep == [MonitoringNext]_allVars => [P!Next]_pipeline
<1> SUFFICES ASSUME [MonitoringNext]_allVars PROVE [P!Next]_pipeline
  OBVIOUS
<1>1. CASE UNCHANGED allVars
  BY <1>1 DEF allVars
<1>2. ASSUME NEW s \in Schedulers, Schedule(s) PROVE P!Next
  BY <1>2 DEF Schedule, P!Next
<1>3. ASSUME NEW w \in Workers, Prepare(w) PROVE P!Next
  BY <1>3 DEF Prepare, P!Next
<1>4. ASSUME NEW w \in Workers, NEW c \in work[w], Process(w, c) PROVE P!Next
  BY <1>4 DEF Process, P!Next
<1>5. ASSUME NEW m \in Monitors, Interval(m) \/ Flip(m) PROVE P!Next
  BY <1>5 DEF Interval, Flip, P!Next
<1>6. ASSUME NEW m \in Monitors, PauseOrResume(m) PROVE P!Next
  BY <1>6 DEF PauseOrResume, P!Next, P!Configure
<1>7. ASSUME NEW m \in Monitors, Delete(m) PROVE P!Next
  BY <1>7 DEF Delete, P!Next, P!Configure
<1>8. ASSUME NEW m \in Monitors, NEW d \in Delays, Add(m, d) PROVE P!Next
  BY <1>8 DEF Add, P!Next, P!Configure
<1>9. CASE Alert
  BY <1>9 DEF Alert, pipeline
<1> QED BY <1>1, <1>2, <1>3, <1>4, <1>5, <1>6, <1>7, <1>8, <1>9 DEF MonitoringNext

(* Every step of the composed system is a step of Alerting or leaves its     *)
(* tables alone.                                                             *)
LEMMA AlertingStep == P!TypeOK /\ [MonitoringNext]_allVars => [Next]_vars
<1> SUFFICES ASSUME P!TypeOK, [MonitoringNext]_allVars PROVE [Next]_vars
  OBVIOUS
<1>1. CASE UNCHANGED allVars
  BY <1>1 DEF allVars
<1>2. ASSUME NEW s \in Schedulers, Schedule(s) PROVE [Next]_vars
  BY <1>2 DEF Schedule
<1>3. ASSUME NEW w \in Workers, Prepare(w) PROVE [Next]_vars
  BY <1>3 DEF Prepare
<1>4. ASSUME NEW w \in Workers, NEW c \in work[w], Process(w, c) PROVE [Next]_vars
  <2>1. c.id \in Monitors /\ c.ok \in BOOLEAN
    BY DEF P!TypeOK, P!Check
  <2>2. CASE c.id \in DOMAIN monitors
    <3>1. ProcessResult(c.id, c.ok)
      BY <1>4, <2>2 DEF Process
    <3> QED BY <2>1, <3>1 DEF Next, Check
  <2> QED BY <1>4, <2>2 DEF Process
<1>5. ASSUME NEW m \in Monitors, Interval(m) \/ Flip(m) PROVE [Next]_vars
  BY <1>5 DEF Interval, Flip
<1>6. ASSUME NEW m \in Monitors, PauseOrResume(m) PROVE [Next]_vars
  BY <1>6 DEF PauseOrResume, Next, Configure, Settings
<1>7. ASSUME NEW m \in Monitors, Delete(m) PROVE [Next]_vars
  BY <1>7 DEF Delete, Next, Configure, Registry
<1>8. ASSUME NEW m \in Monitors, NEW d \in Delays, Add(m, d) PROVE [Next]_vars
  BY <1>8 DEF Add, Next, Configure, Registry
<1>9. CASE Alert
  BY <1>9 DEF Alert, Next, Configure
<1> QED BY <1>1, <1>2, <1>3, <1>4, <1>5, <1>6, <1>7, <1>8, <1>9 DEF MonitoringNext

(* The composed system implements the pipeline: alerting neither adds to it  *)
(* nor takes from it.                                                        *)
THEOREM MonitoringImplementsPipeline == MonitoringSpec => P!Spec
<1>1. MonitoringInit => P!Init
  BY DEF MonitoringInit
<1>2. [P!Next]_pipeline => [P!Next]_(P!pipeline)
  BY DEF pipeline, P!pipeline
<1> QED BY <1>1, <1>2, PipelineStep, PTL DEF MonitoringSpec, P!Spec

(* The proofs about the pipeline, over the variables of the system.          *)
PP == INSTANCE CheckPipelineProofs

(* They are about its part of the system.                                    *)
LEMMA PipelineIsTheSame ==
    /\ (P!Init <=> PP!Init) /\ (P!Next <=> PP!Next)
    /\ (P!TypeOK <=> PP!TypeOK)
    /\ (P!OneCheckPerDueInstant <=> PP!OneCheckPerDueInstant)
<1>1. \A S : P!Cardinality(S) = PP!Cardinality(S)
  BY DEF P!Cardinality, PP!Cardinality
<1>2. /\ \A m : P!UnderWay(m) = PP!UnderWay(m)
      /\ P!Claimable = PP!Claimable
      /\ \A gone : P!AgendaWithout(gone) = PP!AgendaWithout(gone)
  BY <1>1 DEF P!UnderWay, PP!UnderWay, P!Count, PP!Count, P!Claimable, PP!Claimable,
              P!AgendaWithout, PP!AgendaWithout, P!SetToSeqs, PP!SetToSeqs,
              P!ToSet, PP!ToSet
<1>3. P!Init <=> PP!Init
  BY DEF P!Init, PP!Init
<1>4. P!TypeOK <=> PP!TypeOK
  BY <1>1 DEF P!TypeOK, PP!TypeOK, P!Check, PP!Check, P!Stages, PP!Stages,
              P!IsInjective, PP!IsInjective
<1>5. P!OneCheckPerDueInstant <=> PP!OneCheckPerDueInstant
  BY <1>2 DEF P!OneCheckPerDueInstant, PP!OneCheckPerDueInstant
<1>6. \A s : P!Schedule(s) <=> PP!Schedule(s)
  BY <1>2 DEF P!Schedule, PP!Schedule, P!Claim, PP!Claim, P!SchedulerDies,
       PP!SchedulerDies, P!Push, PP!Push, P!PushFails, PP!PushFails
<1>7. \A w : /\ P!Prepare(w) <=> PP!Prepare(w)
             /\ \A c : P!Process(w, c) <=> PP!Process(w, c)
  BY DEF P!Prepare, PP!Prepare, P!Pop, PP!Pop, P!Probe, PP!Probe, P!Save, PP!Save,
       P!WorkerDrops, PP!WorkerDrops, P!Process, PP!Process, P!Exists, PP!Exists,
       P!Latest, PP!Latest
<1>8. \A m : P!Interval(m) <=> PP!Interval(m)
  BY <1>2 DEF P!Interval, PP!Interval, P!Exists, PP!Exists, P!ToSet, PP!ToSet
<1>9. \A m : P!Flip(m) <=> PP!Flip(m)
  BY DEF P!Flip, PP!Flip
<1>10. \A m : P!Appear(m) <=> PP!Appear(m)
  BY <1>2 DEF P!Appear, PP!Appear, P!Exists, PP!Exists
<1>11. \A m : P!Disappear(m) <=> PP!Disappear(m)
  BY <1>2 DEF P!Disappear, PP!Disappear, P!Exists, PP!Exists
<1>12. \A m : P!Pause(m) <=> PP!Pause(m)
  BY DEF P!Pause, PP!Pause, P!Exists, PP!Exists
<1>13. \A m : P!Resume(m) <=> PP!Resume(m)
  BY <1>2 DEF P!Resume, PP!Resume, P!Exists, PP!Exists
<1>14. P!Next <=> PP!Next
  BY <1>6, <1>7, <1>8, <1>9, <1>10, <1>11, <1>12, <1>13
     DEF P!Next, PP!Next, P!Configure, PP!Configure
<1> QED BY <1>3, <1>4, <1>5, <1>14

(* What the pipeline assumes of its constants, the system assumes, too.      *)
LEMMA PipelineAssumed ==
    /\ PP!IsFiniteSet(Schedulers) /\ PP!IsFiniteSet(Workers)
    /\ Limit \in Nat \ {0}
    /\ Faults \in BOOLEAN
    /\ MaxInFlight \in Nat \ {0}
    /\ Kept \in Nat
<1>1. \A S : PP!IsFiniteSet(S) <=> IsFiniteSet(S)
  BY DEF PP!IsFiniteSet, IsFiniteSet
<1> QED BY <1>1, MonitoringAssumption

(* In the system, too, the pipeline is type correct.                         *)
THEOREM PipelineTypeCorrectBySystem == MonitoringSpec => []P!TypeOK
<1>1. PP!Spec => []PP!TypeOK
  BY PipelineAssumed, PP!TypeCorrect
<1>2. [P!Next]_(P!pipeline) <=> [PP!Next]_(PP!pipeline)
  BY PipelineIsTheSame DEF P!pipeline, PP!pipeline
<1> QED BY <1>1, <1>2, PipelineIsTheSame, MonitoringImplementsPipeline, PTL
        DEF P!Spec, PP!Spec

(* A due instant leads to one check at most in the whole system.             *)
THEOREM DueOnceCheckedOnceBySystem == MonitoringSpec => []OneCheckPerDueInstant
<1>1. PP!Spec => []PP!OneCheckPerDueInstant
  BY PipelineAssumed, PP!DueOnceCheckedOnce
<1>2. [P!Next]_(P!pipeline) <=> [PP!Next]_(PP!pipeline)
  BY PipelineIsTheSame DEF P!pipeline, PP!pipeline
<1> QED BY <1>1, <1>2, PipelineIsTheSame, MonitoringImplementsPipeline, PTL
        DEF P!Spec, PP!Spec, OneCheckPerDueInstant

(* The composed system implements Alerting, with ProcessResult called by the *)
(* workers on what they took from the queue.                                 *)
THEOREM MonitoringImplementsAlerting == MonitoringSpec => Spec
<1>1. MonitoringInit => Init
  BY DEF MonitoringInit
<1> QED BY <1>1, PipelineTypeCorrectBySystem, AlertingStep, PTL DEF MonitoringSpec, Spec

(* With any number of schedulers and workers, losing and reordering checks,  *)
(* a monitor is down exactly while one incident of it is open.               *)
THEOREM OutagesAreRecordedOnceBySystem ==
    MonitoringSpec => []OneOpenIncidentWhileDown
BY MonitoringImplementsAlerting, OutagesAreRecordedOnce, PTL

(* The whole path from the scheduler to the queued alert implements the      *)
(* ledger of outages.                                                        *)
THEOREM SystemImplementsOutages == MonitoringSpec => ImplementsOutages
BY MonitoringImplementsAlerting, AlertingImplementsOutages, PTL

(* And its alerts are right: results that workers apply late and out of      *)
(* order do not make a monitor go down early, announce a recovery before its *)
(* incident is resolved or mix tenants, nobody who was paged misses the      *)
(* all-clear and no monitor goes silent.                                     *)
THEOREM AlertsAreRightInTheSystem ==
    MonitoringSpec =>
        /\ [](TypeOK /\ DownFromThreshold /\ AnnouncementsAreCoherent
              /\ SweptIncidentsAreUnplanned /\ TenantIsolation)
        /\ RecoveryReachesPagedChannels
        /\ FallsBackToAllChannels
BY MonitoringImplementsAlerting, TypeCorrect, DownMeansThresholdReached,
   AnnouncementsStayCoherent, SweepsHoldUnplanned, TenantsStayApart,
   RecoveriesReachTheRightPeople, NoMonitorGoesSilent, PTL

(* Alerting and the pipeline keep their own rows of monitors, which are      *)
(* columns of one table in the code: they always speak of the same monitors. *)
SameMonitors == DOMAIN monitors = DOMAIN enabled

THEOREM ComponentsAgreeOnMonitors == MonitoringSpec => []SameMonitors
<1>1. MonitoringInit => SameMonitors
  BY DEF MonitoringInit, Init, P!Init, SameMonitors
<1>2. SameMonitors /\ [MonitoringNext]_allVars => SameMonitors'
  <2> SUFFICES ASSUME SameMonitors, [MonitoringNext]_allVars PROVE SameMonitors'
    OBVIOUS
  <2> USE DEF SameMonitors
  <2>1. ASSUME NEW s \in Schedulers, Schedule(s) PROVE SameMonitors'
    <3>1. enabled' = enabled
      BY <2>1 DEF Schedule, P!Schedule, P!Claim, P!SchedulerDies, P!Push, P!PushFails
    <3> QED BY <2>1, <3>1 DEF Schedule, vars
  <2>2. ASSUME NEW w \in Workers, Prepare(w) PROVE SameMonitors'
    <3>1. enabled' = enabled
      BY <2>2 DEF Prepare, P!Prepare, P!Pop, P!Probe, P!Save, P!WorkerDrops
    <3> QED BY <2>2, <3>1 DEF Prepare, vars
  <2>3. ASSUME NEW w \in Workers, NEW c \in work[w], Process(w, c) PROVE SameMonitors'
    <3>1. enabled' = enabled
      BY <2>3 DEF Process, P!Process
    <3>2. CASE c.id \in DOMAIN monitors
      BY <2>3, <3>1, <3>2 DEF Process, ProcessResult
    <3>3. CASE c.id \notin DOMAIN monitors
      BY <2>3, <3>1, <3>3 DEF Process, vars
    <3> QED BY <3>2, <3>3
  <2>4. ASSUME NEW m \in Monitors, Interval(m) \/ Flip(m) PROVE SameMonitors'
    BY <2>4 DEF Interval, Flip, P!Interval, P!Flip, vars
  <2>5. ASSUME NEW m \in Monitors, PauseOrResume(m) PROVE SameMonitors'
    <3>1. DOMAIN enabled' = DOMAIN enabled
      BY <2>5 DEF PauseOrResume, P!Pause, P!Resume
    <3>2. DOMAIN monitors' = DOMAIN monitors
      BY <2>5 DEF PauseOrResume, UpdateMonitor, vars
    <3> QED BY <3>1, <3>2
  <2>6. ASSUME NEW m \in Monitors, Delete(m) PROVE SameMonitors'
    BY <2>6 DEF Delete, DeleteMonitor, P!Disappear, Drop
  <2>7. ASSUME NEW m \in Monitors, NEW d \in Delays, Add(m, d) PROVE SameMonitors'
    BY <2>7 DEF Add, CreateMonitor, P!Appear, Put
  <2>8. CASE Alert
    <3>1. enabled' = enabled
      BY <2>8 DEF Alert, pipeline
    <3>2. Sweep => monitors' = monitors
      BY DEF Sweep, SweepSelect, SweepAborts, SweepItem, SweepItemFails
    <3>3. Clock => monitors' = monitors
      BY DEF Clock, Tick, WindowStarts, WindowEnds
    <3>4. Settings => DOMAIN monitors' = DOMAIN monitors
      BY DEF Settings, UpdateMonitor, SetMonitorChannels, CreateChannel, VerifyChannel,
             DeleteChannel, DeleteMaintenance, CreateMaintenance
    <3> QED BY <2>8, <3>1, <3>2, <3>3, <3>4 DEF Alert
  <2>9. CASE UNCHANGED allVars
    BY <2>9 DEF allVars, vars, pipeline
  <2> QED BY <2>1, <2>2, <2>3, <2>4, <2>5, <2>6, <2>7, <2>8, <2>9 DEF MonitoringNext
<1> QED BY <1>1, <1>2, PTL DEF MonitoringSpec
=============================================================================
