------------------------- MODULE CertificatesProofs -------------------------
(***************************************************************************)
(* For any number of monitors, certificates, channels and replicas: every  *)
(* channel is sent one mail about a certificate, unless there is a reason, *)
(* and a certificate that counts as warned of was mailed to somebody.      *)
(***************************************************************************)
EXTENDS Certificates, TLAPS

Mails(x, a) == mails[<<x[1], x[2], a>>]
WasMailed(x) == \E a \in Channels : Mails(x, a) > 0
Held(n, x) == x \in scans[n].todo \/ scans[n].item = x

\* A replica that has mailed knows that it has.
SentMeansMailed == \A n \in Replicas : scans[n].sent => WasMailed(scans[n].item)

\* One replica at most has the warning in hand; before it is the item nothing was
\* mailed, while it is who is still to be mailed was not, and after it the monitor
\* remembers, or is gone.
NotYet(x) ==
    \A n \in Replicas : x \in scans[n].todo => scans[n].item # x /\ ~WasMailed(x)
Underway(x) ==
    \A n \in Replicas : scans[n].item = x =>
        /\ \A a \in scans[n].addrs : Mails(x, a) = 0
        /\ WasMailed(x) => scans[n].sent
OneHolder(x) == \A n, o \in Replicas : Held(n, x) /\ Held(o, x) => n = o
Remembered(x) ==
    WasMailed(x) => \/ \E n \in Replicas : scans[n].item = x
                    \/ x[1] \notin DOMAIN monitors
                    \/ monitors[x[1]].alertedFor = x[2]
Once(x) ==
    /\ \A a \in Channels : Mails(x, a) <= 1
    /\ NotYet(x) /\ Underway(x) /\ OneHolder(x) /\ Remembered(x)
OnceInv == \A x \in Warning : x \notin excused => Once(x)

IInv == TypeOK /\ SentMeansMailed /\ MarkedMeansWarned /\ OnceInv

-----------------------------------------------------------------------------
(* Steps that are not of a scan. *)

(* A row that keeps what it was warned of, that goes, or that is new and was   *)
(* never warned of, changes nothing.                                           *)
LEMMA RowsOnly ==
    ASSUME IInv, UNCHANGED <<scans, mails, excused>>,
           \A m \in DOMAIN monitors' :
               \/ m \in DOMAIN monitors /\ monitors'[m].alertedFor = monitors[m].alertedFor
               \/ /\ monitors'[m].alertedFor = None
                  /\ \A y \in DOMAIN mails : y[1] = m => mails[y] = 0
    PROVE  SentMeansMailed' /\ MarkedMeansWarned' /\ OnceInv'
<1>1. \A x : (WasMailed(x)' <=> WasMailed(x)) /\ \A a : Mails(x, a)' = Mails(x, a)
  BY DEF WasMailed, Mails
<1>2. SentMeansMailed'
  BY <1>1 DEF IInv, SentMeansMailed, WasMailed, Mails
<1>3. MarkedMeansWarned'
  BY DEF IInv, MarkedMeansWarned
<1>4. ASSUME NEW x \in Warning, x \notin excused PROVE Once(x)'
  <2>1. NotYet(x)' /\ Underway(x)' /\ OneHolder(x)' /\ \A a \in Channels : Mails(x, a)' <= 1
    BY <1>1, <1>4 DEF IInv, OnceInv, Once, NotYet, Underway, OneHolder, Held
  <2>2. Remembered(x)'
    <3>1. SUFFICES ASSUME WasMailed(x), x[1] \in DOMAIN monitors'
                   PROVE  \/ \E n \in Replicas : scans[n].item = x
                          \/ monitors'[x[1]].alertedFor = x[2]
      BY <1>1 DEF Remembered
    <3>2. PICK a \in Channels : mails[<<x[1], x[2], a>>] > 0
      BY <3>1 DEF WasMailed, Mails
    <3>3. <<x[1], x[2], a>> \in DOMAIN mails /\ <<x[1], x[2], a>>[1] = x[1]
      BY DEF IInv, TypeOK, Warning
    <3>4. mails[<<x[1], x[2], a>>] # 0
      BY <3>2, <3>3 DEF IInv, TypeOK
    <3>5. x[1] \in DOMAIN monitors /\ monitors'[x[1]].alertedFor = monitors[x[1]].alertedFor
      BY <3>1, <3>3, <3>4
    <3>6. Remembered(x)
      BY <1>4 DEF IInv, OnceInv, Once
    <3>7. QED
      BY <3>1, <3>5, <3>6 DEF Remembered
  <2>3. QED
    BY <2>1, <2>2 DEF Once
<1>5. QED
  BY <1>2, <1>3, <1>4 DEF OnceInv

LEMMA WorkStep == ASSUME IInv, Work PROVE IInv'
<1>1. UNCHANGED <<world, verified, scans, mails, excused>> /\ faults' \in Nat
  BY DEF Work, SaveCert, SaveCertFails, Probe, Fault, IInv, TypeOK
<1>2. probes' \in [Workers -> Warning \cup {None}]
  <2>1. \A m \in Monitors : sites[m].cert # None => <<m, sites[m].cert>> \in Warning
    BY DEF IInv, TypeOK, Site, Warning
  <2>2. QED
    BY <2>1 DEF Work, SaveCert, SaveCertFails, Probe, Learns, IInv, TypeOK
<1>3. /\ DOMAIN monitors' = DOMAIN monitors
      /\ monitors' \in [DOMAIN monitors' -> MonitorRow]
      /\ \A m \in DOMAIN monitors : monitors'[m].alertedFor = monitors[m].alertedFor
  <2>1. CASE monitors' = monitors
    BY <2>1 DEF IInv, TypeOK
  <2>2. CASE monitors' # monitors
    <3>1. PICK w \in Workers : SaveCert(w)
      BY <2>2 DEF Work, SaveCertFails, Probe
    <3>2. probes[w] \in Warning /\ probes[w][2] \in Certs
      BY <3>1 DEF SaveCert, IInv, TypeOK, Warning
    <3>3. PICK m \in DOMAIN monitors : monitors' = [monitors EXCEPT ![m].expires = probes[w][2]]
      BY <2>2, <3>1 DEF SaveCert
    <3>4. monitors'[m] = [monitors[m] EXCEPT !.expires = probes[w][2]]
          /\ monitors[m] \in MonitorRow
      BY <3>3 DEF IInv, TypeOK
    <3>5. monitors'[m] \in MonitorRow /\ monitors'[m].alertedFor = monitors[m].alertedFor
      BY <3>2, <3>4 DEF MonitorRow
    <3>6. QED
      BY <3>3, <3>5 DEF IInv, TypeOK
  <2>3. QED
    BY <2>1, <2>2
<1>4. TypeOK'
  BY <1>1, <1>2, <1>3 DEF IInv, TypeOK, world
<1>5. QED
  BY <1>1, <1>3, <1>4, RowsOnly DEF IInv

LEMMA ConfigureStep == ASSUME IInv, Configure PROVE IInv'
<1>1. UNCHANGED <<world, probes, scans, mails, excused, faults>>
  BY DEF Configure, DeleteMonitor, CreateMonitor, UpdateMonitor, SetChannels
<1>2. verified' \in [Tenants -> SUBSET Channels]
  BY DEF Configure, DeleteMonitor, CreateMonitor, UpdateMonitor, SetChannels, IInv, TypeOK
<1> DEFINE Rows ==
      /\ DOMAIN monitors' \subseteq Monitors
      /\ \A m \in DOMAIN monitors' :
            /\ monitors'[m] \in MonitorRow
            /\ \/ m \in DOMAIN monitors /\ monitors'[m].alertedFor = monitors[m].alertedFor
               \/ /\ monitors'[m].alertedFor = None
                  /\ \A y \in DOMAIN mails : y[1] = m => mails[y] = 0
      /\ monitors' = [m \in DOMAIN monitors' |-> monitors'[m]]
<1>3. Rows
  <2>1. CASE monitors' = monitors
    BY <2>1 DEF IInv, TypeOK
  <2>2. ASSUME NEW m \in Monitors, DeleteMonitor(m) PROVE Rows
    BY <2>2 DEF DeleteMonitor, IInv, TypeOK
  <2>3. ASSUME NEW m \in Monitors, NEW warn \in WarnDays, CreateMonitor(m, warn) PROVE Rows
    <3> DEFINE new == [mode |-> "on", warn |-> warn, expires |-> None, alertedFor |-> None]
    <3>1. new \in MonitorRow /\ new.alertedFor = None
      BY DEF MonitorRow, Modes
    <3> HIDE DEF new
    <3>2. /\ DOMAIN monitors' = DOMAIN monitors \cup {m}
          /\ \A k \in DOMAIN monitors' : monitors'[k] = IF k = m THEN new ELSE monitors[k]
          /\ monitors' = [k \in DOMAIN monitors' |-> monitors'[k]]
      BY <2>3 DEF CreateMonitor, new
    <3>3. \A y \in DOMAIN mails : y[1] = m => mails[y] = 0
      BY <2>3 DEF CreateMonitor, Fresh
    <3>4. QED
      BY <3>1, <3>2, <3>3 DEF IInv, TypeOK
  <2>4. ASSUME NEW m \in Monitors, NEW mode \in Modes, NEW warn \in WarnDays,
               UpdateMonitor(m, mode, warn)
        PROVE Rows
    <3>1. /\ m \in DOMAIN monitors /\ DOMAIN monitors' = DOMAIN monitors
          /\ monitors'[m] = [monitors[m] EXCEPT !.mode = mode, !.warn = warn]
          /\ \A k \in DOMAIN monitors : k # m => monitors'[k] = monitors[k]
          /\ monitors' = [k \in DOMAIN monitors' |-> monitors'[k]]
      BY <2>4 DEF UpdateMonitor, IInv, TypeOK
    <3>2. monitors[m] \in MonitorRow
      BY <3>1 DEF IInv, TypeOK
    <3>3. monitors'[m] \in MonitorRow /\ monitors'[m].alertedFor = monitors[m].alertedFor
      BY <3>1, <3>2 DEF MonitorRow
    <3>4. QED
      BY <3>1, <3>3 DEF IInv, TypeOK
  <2>5. QED
    BY <2>1, <2>2, <2>3, <2>4 DEF Configure, SetChannels
<1>4. TypeOK'
  BY <1>1, <1>2, <1>3 DEF IInv, TypeOK, world
<1>5. QED
  BY <1>1, <1>3, <1>4, RowsOnly DEF IInv

LEMMA EnvironmentStep == ASSUME IInv, Environment PROVE IInv'
<1>1. /\ UNCHANGED <<monitors, verified, probes, scans, mails, excused, faults>>
      /\ sites' \in [Monitors -> Site] /\ renewals' \in Nat
  BY DEF Environment, SiteChanges, DayPasses, IInv, TypeOK
<1>2. left' \in [Certs -> 0 .. MaxLeft]
  <2>1. CASE left' = left
    BY <2>1 DEF IInv, TypeOK
  <2>2. ASSUME NEW c \in Certs, DayPasses(c) PROVE left' \in [Certs -> 0 .. MaxLeft]
    <3>1. left[c] - 1 \in 0 .. MaxLeft
      BY <2>2, CertificatesAssumption DEF DayPasses, IInv, TypeOK
    <3>2. QED
      BY <2>2, <3>1 DEF DayPasses, IInv, TypeOK
  <2>3. QED
    BY <2>1, <2>2 DEF Environment, SiteChanges
<1>3. TypeOK'
  BY <1>1, <1>2 DEF IInv, TypeOK
<1>4. QED
  BY <1>1, <1>3, RowsOnly DEF IInv

-----------------------------------------------------------------------------
(* The scan. *)

LEMMA ScanSelectStep == ASSUME IInv, NEW n \in Replicas, ScanSelect(n) PROVE IInv'
<1>1. /\ scans[n] = NoScan /\ scans' = [scans EXCEPT ![n].todo = Due]
      /\ excused' = excused \cup (Due \cap InHandOf(Replicas \ {n}))
      /\ UNCHANGED <<world, monitors, verified, probes, mails, faults>>
  BY DEF ScanSelect
<1>2. /\ scans'[n] = [scans[n] EXCEPT !.todo = Due]
      /\ \A o \in Replicas : o # n => scans'[o] = scans[o]
  BY <1>1 DEF IInv, TypeOK
<1>3. Due \subseteq Warning /\ \A x \in Warning : None # x
  BY CertificatesAssumption DEF Due, Warning
<1>4. /\ scans[n].todo = {} /\ scans[n].item = None /\ scans[n].addrs = {} /\ ~scans[n].sent
      /\ scans[n] \in Scan
  <2>1. scans[n] \in Scan
    BY DEF IInv, TypeOK
  <2>2. QED
    BY <1>1, <2>1 DEF NoScan
<1>5. /\ scans'[n] \in Scan /\ scans'[n].todo = Due /\ scans'[n].item = None
      /\ scans'[n].addrs = {} /\ ~scans'[n].sent
  BY <1>2, <1>3, <1>4 DEF Scan
<1>6. TypeOK'
  <2>1. scans' \in [Replicas -> Scan]
    BY <1>1, <1>5 DEF IInv, TypeOK
  <2>2. \A o \in Replicas : scans'[o].addrs # {} \/ scans'[o].sent => scans'[o].item # None
    BY <1>2, <1>5 DEF IInv, TypeOK
  <2>3. excused' \subseteq Warning
    BY <1>1, <1>3 DEF IInv, TypeOK
  <2>4. QED
    BY <1>1, <2>1, <2>2, <2>3 DEF IInv, TypeOK, world
<1>7. SentMeansMailed'
  BY <1>1, <1>2, <1>5 DEF IInv, SentMeansMailed, WasMailed, Mails
<1>8. MarkedMeansWarned'
  BY <1>1 DEF IInv, MarkedMeansWarned
<1>9. ASSUME NEW x \in Warning, x \notin excused' PROVE Once(x)'
  <2>1. Once(x) /\ x \notin excused
    BY <1>1, <1>9 DEF IInv, OnceInv
  <2>2. /\ \A o \in Replicas : scans'[o].item = scans[o].item /\ scans'[o].sent = scans[o].sent
                               /\ scans'[o].addrs = scans[o].addrs
        /\ \A o \in Replicas : o # n => scans'[o].todo = scans[o].todo
        /\ (WasMailed(x)' <=> WasMailed(x)) /\ \A a : Mails(x, a)' = Mails(x, a)
    BY <1>1, <1>2, <1>4, <1>5 DEF WasMailed, Mails
  <2>3. ASSUME x \in Due
        PROVE  ~WasMailed(x) /\ \A o \in Replicas : o # n => ~Held(o, x)
    <3>1. ASSUME NEW o \in Replicas, o # n PROVE ~Held(o, x)
      <4>1. x \notin InHandOf(Replicas \ {n})
        BY <1>1, <1>9, <2>3
      <4>2. QED
        BY <1>3, <3>1, <4>1 DEF InHandOf, Held
    <3>2. x[1] \in DOMAIN monitors /\ monitors[x[1]].alertedFor # x[2]
      BY <2>3 DEF Due, Wanted, Scheduled
    <3>3. \A o \in Replicas : scans[o].item # x
      BY <1>3, <1>4, <3>1 DEF Held
    <3>4. QED
      BY <2>1, <3>1, <3>2, <3>3 DEF Once, Remembered
  <2>4. NotYet(x)' /\ OneHolder(x)'
    <3>1. CASE x \in Due
      BY <1>3, <1>5, <2>2, <2>3, <3>1 DEF NotYet, OneHolder, Held
    <3>2. CASE x \notin Due
      BY <1>3, <1>5, <2>1, <2>2, <3>2 DEF Once, NotYet, OneHolder, Held
    <3>3. QED
      BY <3>1, <3>2
  <2>5. Underway(x)' /\ Remembered(x)' /\ \A a \in Channels : Mails(x, a)' <= 1
    BY <1>1, <2>1, <2>2 DEF Once, Underway, Remembered
  <2>6. QED
    BY <2>4, <2>5 DEF Once
<1>10. QED
  BY <1>6, <1>7, <1>8, <1>9 DEF IInv, OnceInv

LEMMA RecipientsStep ==
    ASSUME IInv, NEW n \in Replicas, NEW x \in scans[n].todo, Recipients(n, x) PROVE IInv'
<1>1. /\ scans[n].item = None
      /\ scans' = [scans EXCEPT ![n].todo = @ \ {x}, ![n].item = x,
                                ![n].addrs = verified[TenantOf[x[1]]]]
      /\ UNCHANGED <<world, monitors, verified, probes, mails, excused, faults>>
  BY DEF Recipients
<1>2. scans[n] \in Scan /\ x \in Warning /\ x # None /\ ~scans[n].sent
  BY <1>1, CertificatesAssumption DEF IInv, TypeOK, Scan, Warning
<1>3. verified[TenantOf[x[1]]] \subseteq Channels
  BY <1>2, CertificatesAssumption DEF IInv, TypeOK, Warning
<1> DEFINE new == [scans[n] EXCEPT !.todo = @ \ {x}, !.item = x,
                                   !.addrs = verified[TenantOf[x[1]]]]
<1>4. scans' = [scans EXCEPT ![n] = new]
  BY <1>1
<1>5. /\ new \in Scan /\ new.item = x /\ new.todo = scans[n].todo \ {x}
      /\ new.addrs \subseteq Channels /\ ~new.sent
  BY <1>2, <1>3 DEF Scan
<1> HIDE DEF new
<1>6. scans'[n] = new /\ \A o \in Replicas : o # n => scans'[o] = scans[o]
  BY <1>4 DEF IInv, TypeOK
<1>7. /\ scans'[n] \in Scan /\ scans'[n].item = x /\ scans'[n].todo = scans[n].todo \ {x}
      /\ scans'[n].addrs \subseteq Channels /\ ~scans'[n].sent
  BY <1>6, <1>5
<1>8. TypeOK'
  <2>1. scans' \in [Replicas -> Scan]
    BY <1>4, <1>5 DEF IInv, TypeOK
  <2>2. \A o \in Replicas : scans'[o].addrs # {} \/ scans'[o].sent => scans'[o].item # None
    BY <1>2, <1>6, <1>7 DEF IInv, TypeOK
  <2>3. QED
    BY <1>1, <2>1, <2>2 DEF IInv, TypeOK, world
<1>9. SentMeansMailed'
  BY <1>1, <1>6, <1>7 DEF IInv, SentMeansMailed, WasMailed, Mails
<1>10. MarkedMeansWarned'
  BY <1>1 DEF IInv, MarkedMeansWarned
<1>11. ASSUME NEW y \in Warning, y \notin excused' PROVE Once(y)'
  <2>1. Once(y)
    BY <1>1, <1>11 DEF IInv, OnceInv
  <2>2. (WasMailed(y)' <=> WasMailed(y)) /\ \A a : Mails(y, a)' = Mails(y, a)
    BY <1>1 DEF WasMailed, Mails
  <2>3. \A o \in Replicas : Held(o, y)' => Held(o, y)
    BY <1>6, <1>7, <1>2 DEF Held
  <2>4. OneHolder(y)' /\ \A a \in Channels : Mails(y, a)' <= 1
    BY <2>1, <2>2, <2>3 DEF Once, OneHolder
  <2>5. NotYet(y)'
    BY <1>2, <1>6, <1>7, <2>1, <2>2 DEF Once, NotYet
  <2>6. Underway(y)'
    <3>1. ASSUME y = x PROVE \A a \in Channels : ~(Mails(x, a) > 0)
      BY <2>1, <3>1 DEF Once, NotYet, WasMailed
    <3>2. \A a \in Channels : Mails(x, a) \in Nat
      BY <1>2 DEF Mails, IInv, TypeOK, Warning
    <3>3. ASSUME y = x PROVE ~WasMailed(x) /\ \A a \in Channels : Mails(x, a) = 0
      BY <3>1, <3>2, <3>3 DEF WasMailed
    <3>4. ASSUME NEW o \in Replicas, scans'[o].item = y
          PROVE  /\ \A a \in scans'[o].addrs : Mails(y, a) = 0
                 /\ WasMailed(y) => scans'[o].sent
      <4>1. CASE o = n
        BY <1>7, <3>3, <3>4, <4>1
      <4>2. CASE o # n
        BY <1>6, <2>1, <3>4, <4>2 DEF Once, Underway
      <4>3. QED
        BY <4>1, <4>2
    <3>5. QED
      BY <2>2, <3>4 DEF Underway
  <2>7. Remembered(y)'
    <3>1. \A o \in Replicas : scans[o].item = y => scans'[o].item = y
      BY <1>1, <1>2, <1>6, <1>11, CertificatesAssumption DEF Warning
    <3>2. QED
      BY <1>1, <2>1, <2>2, <3>1 DEF Once, Remembered
  <2>8. QED
    BY <2>4, <2>5, <2>6, <2>7 DEF Once
<1>12. QED
  BY <1>8, <1>9, <1>10, <1>11 DEF IInv, OnceInv

LEMMA RecipientsFailStep ==
    ASSUME IInv, NEW n \in Replicas, NEW x \in scans[n].todo, RecipientsFail(n, x) PROVE IInv'
<1>1. /\ scans' = [scans EXCEPT ![n].todo = @ \ {x}] /\ faults' \in Nat
      /\ UNCHANGED <<world, monitors, verified, probes, mails, excused>>
  BY DEF RecipientsFail, Fault, IInv, TypeOK
<1>2. /\ scans'[n] = [scans[n] EXCEPT !.todo = @ \ {x}] /\ scans[n] \in Scan
      /\ \A o \in Replicas : o # n => scans'[o] = scans[o]
  BY <1>1 DEF IInv, TypeOK
<1>3. scans'[n] \in Scan
  BY <1>2 DEF Scan
<1>4. \A o \in Replicas :
          /\ scans'[o].item = scans[o].item /\ scans'[o].sent = scans[o].sent
          /\ scans'[o].addrs = scans[o].addrs /\ scans'[o].todo \subseteq scans[o].todo
  BY <1>2 DEF Scan
<1>5. TypeOK'
  <2>1. scans' \in [Replicas -> Scan]
    BY <1>1, <1>3 DEF IInv, TypeOK
  <2>2. \A o \in Replicas : scans'[o].addrs # {} \/ scans'[o].sent => scans'[o].item # None
    BY <1>4 DEF IInv, TypeOK
  <2>3. QED
    BY <1>1, <2>1, <2>2 DEF IInv, TypeOK, world
<1>6. SentMeansMailed' /\ MarkedMeansWarned'
  BY <1>1, <1>4 DEF IInv, SentMeansMailed, WasMailed, Mails, MarkedMeansWarned
<1>7. ASSUME NEW y \in Warning, y \notin excused' PROVE Once(y)'
  <2>1. Once(y)
    BY <1>1, <1>7 DEF IInv, OnceInv
  <2>2. (WasMailed(y)' <=> WasMailed(y)) /\ \A a : Mails(y, a)' = Mails(y, a)
    BY <1>1 DEF WasMailed, Mails
  <2>3. QED
    BY <1>1, <1>4, <2>1, <2>2 DEF Once, NotYet, Underway, OneHolder, Held, Remembered
<1>8. QED
  BY <1>5, <1>6, <1>7 DEF IInv, OnceInv

(* A mail that is taken is counted for its warning and its channel. *)
LEMMA AcceptFacts ==
    ASSUME IInv, NEW n \in Replicas, NEW a \in Channels, scans[n].item \in Warning,
           Accept(n, a)
    PROVE  /\ mails' \in [Monitors \X Certs \X Channels -> 0 .. 2]
           /\ \A x \in Warning, b \in Channels :
                 IF x = scans[n].item /\ b = a
                   THEN Mails(x, b)' > 0 /\ (Mails(x, b) = 0 => Mails(x, b)' = 1)
                   ELSE Mails(x, b)' = Mails(x, b)
           /\ \A y \in DOMAIN mails : mails[y] > 0 => mails'[y] > 0
<1> DEFINE item == scans[n].item
           mail == <<item[1], item[2], a>>
           count == mails[mail]
<1>1. mails' = [mails EXCEPT ![mail] = IF count < 2 THEN count + 1 ELSE count]
  BY DEF Accept
<1>2. item \in Warning /\ mail \in Monitors \X Certs \X Channels
  BY DEF Warning
<1>3. mails \in [Monitors \X Certs \X Channels -> 0 .. 2]
  BY DEF IInv, TypeOK
<1>4. \A x \in Warning, b \in Channels :
          /\ <<x[1], x[2], b>> \in Monitors \X Certs \X Channels
          /\ <<x[1], x[2], b>> = mail <=> x = item /\ b = a
  BY <1>2 DEF Warning
<1>5. count \in 0 .. 2
  BY <1>2, <1>3
<1> HIDE DEF mail, item
<1>6. mails'[mail] = (IF count < 2 THEN count + 1 ELSE count) /\ mails'[mail] > 0
      /\ mails'[mail] \in 0 .. 2
  BY <1>1, <1>2, <1>3, <1>5
<1>7. \A y \in Monitors \X Certs \X Channels : y # mail => mails'[y] = mails[y]
  BY <1>1, <1>3
<1>8. mails' \in [Monitors \X Certs \X Channels -> 0 .. 2]
  BY <1>1, <1>3, <1>6
<1>9. ASSUME NEW x \in Warning, NEW b \in Channels
      PROVE  IF x = item /\ b = a
               THEN Mails(x, b)' > 0 /\ (Mails(x, b) = 0 => Mails(x, b)' = 1)
               ELSE Mails(x, b)' = Mails(x, b)
  <2>1. CASE x = item /\ b = a
    BY <1>4, <1>6, <2>1 DEF Mails
  <2>2. CASE ~(x = item /\ b = a)
    BY <1>4, <1>7, <2>2 DEF Mails
  <2>3. QED
    BY <2>1, <2>2
<1>10. \A y \in DOMAIN mails : mails[y] > 0 => mails'[y] > 0
  BY <1>3, <1>6, <1>7
<1>11. QED
  BY <1>8, <1>9, <1>10 DEF item

LEMMA SendMailStep ==
    ASSUME IInv, NEW n \in Replicas, NEW a \in scans[n].addrs, SendMail(n, a) PROVE IInv'
<1>1. /\ Accept(n, a)
      /\ scans' = [scans EXCEPT ![n].addrs = @ \ {a}, ![n].sent = TRUE]
      /\ UNCHANGED <<world, monitors, verified, probes, excused, faults>>
  BY DEF SendMail
<1>2. scans[n] \in Scan /\ a \in Channels /\ scans[n].item \in Warning
  BY DEF IInv, TypeOK, Scan
<1>3. /\ scans'[n] = [scans[n] EXCEPT !.addrs = @ \ {a}, !.sent = TRUE]
      /\ \A o \in Replicas : o # n => scans'[o] = scans[o]
  BY <1>1 DEF IInv, TypeOK
<1>4. /\ scans'[n] \in Scan /\ scans'[n].sent /\ scans'[n].item = scans[n].item
      /\ scans'[n].addrs = scans[n].addrs \ {a} /\ scans'[n].todo = scans[n].todo
  BY <1>2, <1>3 DEF Scan
<1>5. /\ mails' \in [Monitors \X Certs \X Channels -> 0 .. 2]
      /\ \A x \in Warning, b \in Channels :
            IF x = scans[n].item /\ b = a
              THEN Mails(x, b)' > 0 /\ (Mails(x, b) = 0 => Mails(x, b)' = 1)
              ELSE Mails(x, b)' = Mails(x, b)
      /\ \A y \in DOMAIN mails : mails[y] > 0 => mails'[y] > 0
  BY <1>1, <1>2, AcceptFacts
<1>6. TypeOK'
  <2>1. scans' \in [Replicas -> Scan]
    BY <1>1, <1>4 DEF IInv, TypeOK
  <2>2. \A o \in Replicas : scans'[o].addrs # {} \/ scans'[o].sent => scans'[o].item # None
    BY <1>3, <1>4 DEF IInv, TypeOK
  <2>3. QED
    BY <1>1, <1>5, <2>1, <2>2 DEF IInv, TypeOK, world
<1>7. SentMeansMailed'
  <2>1. ASSUME NEW o \in Replicas, scans'[o].sent PROVE WasMailed(scans[o].item)'
    <3>1. CASE o = n
      <4>1. mails'[<<scans[n].item[1], scans[n].item[2], a>>] > 0
        BY <1>2, <1>5 DEF Mails
      <4>2. QED
        BY <1>2, <1>4, <3>1, <4>1 DEF WasMailed, Mails
    <3>2. CASE o # n
      <4>1. scans[o].sent /\ scans[o].item \in Warning
        BY <1>3, <2>1, <3>2 DEF IInv, TypeOK, Scan
      <4>2. PICK b \in Channels : mails[<<scans[o].item[1], scans[o].item[2], b>>] > 0
        BY <4>1 DEF IInv, SentMeansMailed, WasMailed, Mails
      <4>3. <<scans[o].item[1], scans[o].item[2], b>> \in DOMAIN mails
        BY <4>1 DEF IInv, TypeOK, Warning
      <4>4. mails'[<<scans[o].item[1], scans[o].item[2], b>>] > 0
        BY <1>5, <4>2, <4>3
      <4>5. QED
        BY <1>3, <3>2, <4>4 DEF WasMailed, Mails
    <3>3. QED
      BY <3>1, <3>2
  <2>2. \A o \in Replicas : scans'[o].item = scans[o].item
    BY <1>3, <1>4
  <2>3. QED
    BY <2>1, <2>2 DEF SentMeansMailed, WasMailed, Mails
<1>8. MarkedMeansWarned'
  <2>1. ASSUME NEW m \in DOMAIN monitors, monitors[m].alertedFor # None
        PROVE  \E b \in Channels : mails'[<<m, monitors[m].alertedFor, b>>] > 0
    <3>1. PICK b \in Channels : mails[<<m, monitors[m].alertedFor, b>>] > 0
      BY <2>1 DEF IInv, MarkedMeansWarned
    <3>2. <<m, monitors[m].alertedFor, b>> \in DOMAIN mails
      BY <2>1 DEF IInv, TypeOK, MonitorRow
    <3>3. QED
      BY <1>5, <3>1, <3>2
  <2>2. QED
    BY <1>1, <2>1 DEF MarkedMeansWarned
<1>9. ASSUME NEW x \in Warning, x \notin excused' PROVE Once(x)'
  <2>1. Once(x)
    BY <1>1, <1>9 DEF IInv, OnceInv
  <2>2. \A o \in Replicas : /\ scans'[o].item = scans[o].item
                            /\ scans'[o].todo = scans[o].todo
                            /\ scans'[o].addrs \subseteq scans[o].addrs
                            /\ scans[o].sent => scans'[o].sent
                            /\ o # n => scans'[o].addrs = scans[o].addrs
    BY <1>3, <1>4
  <2>3. OneHolder(x)'
    BY <2>1, <2>2 DEF Once, OneHolder, Held
  <2>4. CASE x = scans[n].item
    <3>1. Held(n, x) /\ \A o \in Replicas : Held(o, x) => o = n
      BY <2>1, <2>4 DEF Once, OneHolder, Held
    <3>2. Mails(x, a) = 0
      BY <2>1, <2>4 DEF Once, Underway
    <3>3. \A b \in Channels : Mails(x, b)' <= 1
      BY <1>2, <1>5, <2>1, <2>4, <3>2 DEF Once
    <3>4. NotYet(x)'
      BY <2>1, <2>2, <2>4, <3>1 DEF Once, NotYet, Held
    <3>5. Underway(x)'
      <4>1. \A b \in scans'[n].addrs : Mails(x, b)' = 0
        <5>1. \A b \in scans'[n].addrs : b \in Channels /\ b # a /\ b \in scans[n].addrs
          BY <1>2, <1>4 DEF Scan
        <5>2. QED
          BY <1>5, <2>1, <2>4, <5>1 DEF Once, Underway
      <4>2. \A o \in Replicas : scans'[o].item = x => o = n
        BY <2>2, <3>1 DEF Held
      <4>3. QED
        BY <1>4, <4>1, <4>2 DEF Underway
    <3>6. Remembered(x)'
      BY <2>2, <2>4 DEF Remembered
    <3>7. QED
      BY <2>3, <3>3, <3>4, <3>5, <3>6 DEF Once
  <2>5. CASE x # scans[n].item
    <3>1. (WasMailed(x)' <=> WasMailed(x)) /\ \A b \in Channels : Mails(x, b)' = Mails(x, b)
      BY <1>5, <2>5 DEF WasMailed
    <3>2. \A o \in Replicas : scans[o].addrs \subseteq Channels
      BY DEF IInv, TypeOK, Scan
    <3>3. NotYet(x)' /\ Underway(x)'
      BY <2>1, <2>2, <3>1, <3>2 DEF Once, NotYet, Underway
    <3>4. Remembered(x)' /\ \A b \in Channels : Mails(x, b)' <= 1
      BY <1>1, <2>1, <2>2, <3>1 DEF Once, Remembered
    <3>5. QED
      BY <2>3, <3>3, <3>4 DEF Once
  <2>6. QED
    BY <2>4, <2>5
<1>10. QED
  BY <1>6, <1>7, <1>8, <1>9 DEF IInv, OnceInv

LEMMA SendMailFailsStep ==
    ASSUME IInv, NEW n \in Replicas, NEW a \in scans[n].addrs, SendMailFails(n, a) PROVE IInv'
<1>1. /\ \/ UNCHANGED <<mails, excused>>
         \/ Accept(n, a) /\ excused' = excused \cup {scans[n].item}
      /\ scans' = [scans EXCEPT ![n].addrs = @ \ {a}] /\ faults' \in Nat
      /\ UNCHANGED <<world, monitors, verified, probes>>
  BY DEF SendMailFails, Fault, IInv, TypeOK
<1>2. scans[n] \in Scan /\ a \in Channels /\ scans[n].item \in Warning
  BY DEF IInv, TypeOK, Scan
<1>3. /\ scans'[n] = [scans[n] EXCEPT !.addrs = @ \ {a}]
      /\ \A o \in Replicas : o # n => scans'[o] = scans[o]
  BY <1>1 DEF IInv, TypeOK
<1>4. scans'[n] \in Scan
  BY <1>2, <1>3 DEF Scan
<1>5. \A o \in Replicas : /\ scans'[o].item = scans[o].item
                          /\ scans'[o].todo = scans[o].todo
                          /\ scans'[o].addrs \subseteq scans[o].addrs
                          /\ scans'[o].sent = scans[o].sent
  BY <1>2, <1>3 DEF Scan
<1>6. /\ mails' \in [Monitors \X Certs \X Channels -> 0 .. 2]
      /\ \A y \in DOMAIN mails : mails[y] > 0 => mails'[y] > 0
      /\ excused \subseteq excused' /\ excused' \subseteq Warning
      /\ \A x \in Warning : x \notin excused' =>
            \A b \in Channels : Mails(x, b)' = Mails(x, b)
  <2>1. CASE UNCHANGED <<mails, excused>>
    BY <2>1 DEF Mails, IInv, TypeOK
  <2>2. CASE Accept(n, a) /\ excused' = excused \cup {scans[n].item}
    BY <1>2, <2>2, AcceptFacts DEF IInv, TypeOK
  <2>3. QED
    BY <1>1, <2>1, <2>2
<1>7. TypeOK'
  <2>1. scans' \in [Replicas -> Scan]
    BY <1>1, <1>4 DEF IInv, TypeOK
  <2>2. \A o \in Replicas : scans'[o].addrs # {} \/ scans'[o].sent => scans'[o].item # None
    BY <1>5 DEF IInv, TypeOK
  <2>3. QED
    BY <1>1, <1>6, <2>1, <2>2 DEF IInv, TypeOK, world
<1>8. SentMeansMailed'
  <2>1. ASSUME NEW o \in Replicas, scans[o].sent PROVE WasMailed(scans[o].item)'
    <3>1. scans[o].item \in Warning
      BY <2>1 DEF IInv, TypeOK, Scan
    <3>2. PICK b \in Channels : mails[<<scans[o].item[1], scans[o].item[2], b>>] > 0
      BY <2>1 DEF IInv, SentMeansMailed, WasMailed, Mails
    <3>3. <<scans[o].item[1], scans[o].item[2], b>> \in DOMAIN mails
      BY <3>1 DEF IInv, TypeOK, Warning
    <3>4. mails'[<<scans[o].item[1], scans[o].item[2], b>>] > 0
      BY <1>6, <3>2, <3>3
    <3>5. QED
      BY <1>5, <3>4 DEF WasMailed, Mails
  <2>2. QED
    BY <1>5, <2>1 DEF SentMeansMailed, WasMailed, Mails
<1>9. MarkedMeansWarned'
  <2>1. ASSUME NEW m \in DOMAIN monitors, monitors[m].alertedFor # None
        PROVE  \E b \in Channels : mails'[<<m, monitors[m].alertedFor, b>>] > 0
    <3>1. PICK b \in Channels : mails[<<m, monitors[m].alertedFor, b>>] > 0
      BY <2>1 DEF IInv, MarkedMeansWarned
    <3>2. <<m, monitors[m].alertedFor, b>> \in DOMAIN mails
      BY <2>1 DEF IInv, TypeOK, MonitorRow
    <3>3. QED
      BY <1>6, <3>1, <3>2
  <2>2. QED
    BY <1>1, <2>1 DEF MarkedMeansWarned
<1>10. ASSUME NEW x \in Warning, x \notin excused' PROVE Once(x)'
  <2>1. Once(x)
    BY <1>6, <1>10 DEF IInv, OnceInv
  <2>2. (WasMailed(x)' <=> WasMailed(x)) /\ \A b \in Channels : Mails(x, b)' = Mails(x, b)
    BY <1>6, <1>10 DEF WasMailed
  <2>3. \A o \in Replicas : scans[o].addrs \subseteq Channels
    BY DEF IInv, TypeOK, Scan
  <2>4. NotYet(x)' /\ Underway(x)' /\ OneHolder(x)'
    BY <1>5, <2>1, <2>2, <2>3 DEF Once, NotYet, Underway, OneHolder, Held
  <2>5. Remembered(x)' /\ \A b \in Channels : Mails(x, b)' <= 1
    BY <1>1, <1>5, <2>1, <2>2 DEF Once, Remembered
  <2>6. QED
    BY <2>4, <2>5 DEF Once
<1>11. QED
  BY <1>7, <1>8, <1>9, <1>10 DEF IInv, OnceInv

(* What is in hand is let go of, and the mark takes the place of what it names. *)
LEMMA MarkStep == ASSUME IInv, NEW n \in Replicas, Mark(n) PROVE IInv'
<1> DEFINE x == scans[n].item
           marks == scans[n].sent /\ x[1] \in DOMAIN monitors
           new == [NoScan EXCEPT !.todo = scans[n].todo]
<1>1. /\ x # None /\ scans[n].addrs = {}
      /\ IF marks
           THEN /\ monitors' = [monitors EXCEPT ![x[1]].alertedFor = x[2]]
                /\ excused' = excused \cup
                      {<<x[1], c>> : c \in {monitors[x[1]].alertedFor} \ {None, x[2]}}
           ELSE UNCHANGED <<monitors, excused>>
      /\ scans' = [scans EXCEPT ![n] = new]
      /\ UNCHANGED <<world, verified, probes, mails, faults>>
  BY DEF Mark
<1>2. x \in Warning /\ scans[n] \in Scan /\ \A y \in Warning : y # None
  BY <1>1, CertificatesAssumption DEF IInv, TypeOK, Scan, Warning
<1>3. /\ new \in Scan /\ new.todo = scans[n].todo /\ new.item = None /\ new.addrs = {}
      /\ ~new.sent
  BY <1>2 DEF Scan, NoScan
<1> HIDE DEF new
<1>4. scans'[n] = new /\ \A o \in Replicas : o # n => scans'[o] = scans[o]
  BY <1>1 DEF IInv, TypeOK
<1>5. /\ DOMAIN monitors' = DOMAIN monitors
      /\ monitors' \in [DOMAIN monitors' -> MonitorRow]
      /\ \A m \in DOMAIN monitors :
            \/ monitors'[m].alertedFor = monitors[m].alertedFor
            \/ marks /\ m = x[1] /\ monitors'[m].alertedFor = x[2]
      /\ marks => monitors'[x[1]].alertedFor = x[2]
  <2>1. CASE marks
    <3>1. /\ monitors'[x[1]] = [monitors[x[1]] EXCEPT !.alertedFor = x[2]]
          /\ monitors[x[1]] \in MonitorRow /\ x[2] \in Certs
      BY <1>1, <1>2, <2>1 DEF IInv, TypeOK, Warning
    <3>2. monitors'[x[1]] \in MonitorRow /\ monitors'[x[1]].alertedFor = x[2]
      BY <3>1 DEF MonitorRow
    <3>3. QED
      BY <1>1, <2>1, <3>2 DEF IInv, TypeOK
  <2>2. CASE ~marks
    BY <1>1, <2>2 DEF IInv, TypeOK
  <2>3. QED
    BY <2>1, <2>2
<1>6. /\ excused \subseteq excused' /\ excused' \subseteq Warning
      /\ \A c \in Certs : marks /\ monitors[x[1]].alertedFor = c /\ c # x[2]
                              => <<x[1], c>> \in excused'
  <2>1. CASE marks
    <3>1. monitors[x[1]].alertedFor \in Certs \cup {None}
      BY <2>1 DEF IInv, TypeOK, MonitorRow
    <3>2. QED
      BY <1>1, <1>2, <2>1, <3>1, CertificatesAssumption DEF IInv, TypeOK, Warning
  <2>2. CASE ~marks
    BY <1>1, <2>2 DEF IInv, TypeOK
  <2>3. QED
    BY <2>1, <2>2
<1>7. TypeOK'
  <2>1. scans' \in [Replicas -> Scan]
    BY <1>1, <1>3 DEF IInv, TypeOK
  <2>2. \A o \in Replicas : scans'[o].addrs # {} \/ scans'[o].sent => scans'[o].item # None
    BY <1>3, <1>4 DEF IInv, TypeOK
  <2>3. QED
    BY <1>1, <1>5, <1>6, <2>1, <2>2 DEF IInv, TypeOK, world
<1>8. \A y : (WasMailed(y)' <=> WasMailed(y)) /\ \A a : Mails(y, a)' = Mails(y, a)
  BY <1>1 DEF WasMailed, Mails
<1>9. SentMeansMailed'
  BY <1>1, <1>3, <1>4 DEF IInv, SentMeansMailed, WasMailed, Mails
<1>10. MarkedMeansWarned'
  <2>1. ASSUME NEW m \in DOMAIN monitors', monitors'[m].alertedFor # None
        PROVE  \E a \in Channels : mails[<<m, monitors'[m].alertedFor, a>>] > 0
    <3>1. CASE monitors'[m].alertedFor = monitors[m].alertedFor
      BY <1>5, <2>1, <3>1 DEF IInv, MarkedMeansWarned
    <3>2. CASE marks /\ m = x[1] /\ monitors'[m].alertedFor = x[2]
      BY <3>2 DEF IInv, SentMeansMailed, WasMailed, Mails
    <3>3. QED
      BY <1>5, <2>1, <3>1, <3>2
  <2>2. QED
    BY <1>1, <2>1 DEF MarkedMeansWarned
<1>11. ASSUME NEW y \in Warning, y \notin excused' PROVE Once(y)'
  <2>1. Once(y)
    BY <1>6, <1>11 DEF IInv, OnceInv
  <2>2. \A o \in Replicas : /\ scans'[o].todo = scans[o].todo
                            /\ scans'[o].item = y => scans'[o] = scans[o]
    BY <1>2, <1>3, <1>4
  <2>3. NotYet(y)'
    BY <1>2, <1>3, <1>4, <1>8, <2>1 DEF Once, NotYet
  <2>4. Underway(y)' /\ OneHolder(y)' /\ \A a \in Channels : Mails(y, a)' <= 1
    BY <1>8, <2>1, <2>2 DEF Once, Underway, OneHolder, Held
  <2>5. Remembered(y)'
    <3>1. SUFFICES ASSUME WasMailed(y), y[1] \in DOMAIN monitors,
                          \A o \in Replicas : scans'[o].item # y
                   PROVE  monitors'[y[1]].alertedFor = y[2]
      BY <1>5, <1>8 DEF Remembered
    <3>2. CASE y = x
      <4>1. scans[n].sent
        BY <2>1, <3>1, <3>2 DEF Once, Underway
      <4>2. QED
        BY <1>5, <3>1, <3>2, <4>1
    <3>3. CASE y # x
      <4>1. \A o \in Replicas : scans[o].item # y
        BY <1>4, <3>1, <3>3
      <4>2. monitors[y[1]].alertedFor = y[2]
        BY <2>1, <3>1, <4>1 DEF Once, Remembered
      <4>3. y[2] \in Certs /\ y = <<y[1], y[2]>> /\ x = <<x[1], x[2]>>
        BY <1>2 DEF Warning
      <4>4. CASE marks /\ y[1] = x[1]
        <5>1. y[2] # x[2]
          BY <3>3, <4>3, <4>4
        <5>2. y \in excused'
          BY <1>6, <4>2, <4>3, <4>4, <5>1
        <5>3. QED
          BY <1>11, <5>2
      <4>5. CASE ~(marks /\ y[1] = x[1])
        BY <1>5, <3>1, <4>2, <4>5
      <4>6. QED
        BY <4>4, <4>5
    <3>4. QED
      BY <3>2, <3>3
  <2>6. QED
    BY <2>3, <2>4, <2>5 DEF Once
<1>12. QED
  BY <1>7, <1>9, <1>10, <1>11 DEF IInv, OnceInv

LEMMA MarkFailsStep == ASSUME IInv, NEW n \in Replicas, MarkFails(n) PROVE IInv'
<1> DEFINE rest == [NoScan EXCEPT !.todo = scans[n].todo]
<1>1. /\ scans[n].item # None /\ excused' = excused \cup {scans[n].item} /\ faults' \in Nat
      /\ scans' = [scans EXCEPT ![n] = rest] \/ scans' = [scans EXCEPT ![n] = NoScan]
      /\ UNCHANGED <<world, monitors, verified, probes, mails>>
  BY DEF MarkFails, Fault, IInv, TypeOK
<1>2. scans[n].item \in Warning /\ scans[n] \in Scan /\ \A y \in Warning : y # None
  BY <1>1, CertificatesAssumption DEF IInv, TypeOK, Scan, Warning
<1>3. /\ rest \in Scan /\ rest.todo = scans[n].todo /\ rest.item = None /\ rest.addrs = {}
      /\ ~rest.sent
      /\ NoScan \in Scan /\ NoScan.todo = {} /\ NoScan.item = None /\ NoScan.addrs = {}
      /\ ~NoScan.sent
  BY <1>2 DEF Scan, NoScan
<1> HIDE DEF rest
<1>4. /\ scans' \in [Replicas -> Scan] /\ \A o \in Replicas : o # n => scans'[o] = scans[o]
      /\ scans'[n].todo \subseteq scans[n].todo /\ scans'[n].item = None
      /\ scans'[n].addrs = {} /\ ~scans'[n].sent
  <2>1. scans \in [Replicas -> Scan]
    BY DEF IInv, TypeOK
  <2>2. CASE scans' = [scans EXCEPT ![n] = rest]
    BY <1>3, <2>1, <2>2
  <2>3. CASE scans' = [scans EXCEPT ![n] = NoScan]
    BY <1>3, <2>1, <2>3
  <2>4. QED
    BY <1>1, <2>2, <2>3
<1>5. TypeOK'
  <2>1. \A o \in Replicas : scans'[o].addrs # {} \/ scans'[o].sent => scans'[o].item # None
    BY <1>4 DEF IInv, TypeOK
  <2>2. QED
    BY <1>1, <1>2, <1>4, <2>1 DEF IInv, TypeOK, world
<1>6. SentMeansMailed' /\ MarkedMeansWarned'
  BY <1>1, <1>4 DEF IInv, SentMeansMailed, WasMailed, Mails, MarkedMeansWarned
<1>7. ASSUME NEW y \in Warning, y \notin excused' PROVE Once(y)'
  <2>1. Once(y) /\ y # scans[n].item
    BY <1>1, <1>7 DEF IInv, OnceInv
  <2>2. (WasMailed(y)' <=> WasMailed(y)) /\ \A a : Mails(y, a)' = Mails(y, a)
    BY <1>1 DEF WasMailed, Mails
  <2>3. \A o \in Replicas : /\ scans'[o].todo \subseteq scans[o].todo
                            /\ scans'[o].item = y => scans'[o] = scans[o]
                            /\ scans[o].item = y => scans'[o].item = y
    BY <1>2, <1>4, <2>1
  <2>4. NotYet(y)' /\ OneHolder(y)'
    BY <1>2, <1>4, <2>1, <2>2, <2>3 DEF Once, NotYet, OneHolder, Held
  <2>5. Underway(y)' /\ Remembered(y)' /\ \A a \in Channels : Mails(y, a)' <= 1
    BY <1>1, <2>1, <2>2, <2>3 DEF Once, Underway, Remembered
  <2>6. QED
    BY <2>4, <2>5 DEF Once
<1>8. QED
  BY <1>5, <1>6, <1>7 DEF IInv, OnceInv

-----------------------------------------------------------------------------

LEMMA Invariant == Spec => []IInv
<1>1. Init => IInv
  <2>1. SUFFICES ASSUME Init PROVE IInv
    OBVIOUS
  <2>2. /\ DOMAIN monitors = {} /\ monitors \in [DOMAIN monitors -> MonitorRow]
        /\ sites \in [Monitors -> Site] /\ left \in [Certs -> 0 .. MaxLeft]
        /\ verified \in [Tenants -> SUBSET Channels]
        /\ probes \in [Workers -> Warning \cup {None}]
        /\ excused = {} /\ renewals = 0 /\ faults = 0
    BY <2>1, CertificatesAssumption DEF Init
  <2>3. /\ NoScan \in Scan /\ NoScan.todo = {} /\ NoScan.item = None /\ NoScan.addrs = {}
        /\ ~NoScan.sent
    BY DEF NoScan, Scan
  <2>4. scans \in [Replicas -> Scan] /\ \A n \in Replicas : scans[n] = NoScan
    BY <2>1, <2>3 DEF Init
  <2>5. mails \in [Monitors \X Certs \X Channels -> 0 .. 2]
        /\ \A y \in Monitors \X Certs \X Channels : mails[y] = 0
    BY <2>1 DEF Init
  <2>6. TypeOK
    BY <2>2, <2>3, <2>4, <2>5 DEF TypeOK
  <2>7. SentMeansMailed /\ MarkedMeansWarned
    BY <2>2, <2>3, <2>4 DEF SentMeansMailed, MarkedMeansWarned
  <2>8. ASSUME NEW x \in Warning PROVE Once(x)
    <3>1. \A a \in Channels : Mails(x, a) = 0
      BY <2>5 DEF Mails, Warning
    <3>2. ~WasMailed(x)
      BY <3>1 DEF WasMailed
    <3>3. x # None
      BY CertificatesAssumption DEF Warning
    <3>4. QED
      BY <2>3, <2>4, <3>1, <3>2, <3>3
         DEF Once, NotYet, Underway, OneHolder, Held, Remembered
  <2>9. QED
    BY <2>6, <2>7, <2>8 DEF IInv, OnceInv
<1>2. IInv /\ [Next]_vars => IInv'
  <2>1. SUFFICES ASSUME IInv, [Next]_vars PROVE IInv'
    OBVIOUS
  <2>2. CASE Work
    BY <2>1, <2>2, WorkStep
  <2>3. CASE Configure
    BY <2>1, <2>3, ConfigureStep
  <2>4. CASE Environment
    BY <2>1, <2>4, EnvironmentStep
  <2>5. ASSUME NEW n \in Replicas, ScanStep(n) \/ ScanFails(n) PROVE IInv'
    BY <2>1, <2>5, ScanSelectStep, MarkStep, RecipientsStep, SendMailStep, MarkFailsStep,
       RecipientsFailStep, SendMailFailsStep DEF ScanStep, ScanFails
  <2>6. CASE UNCHANGED vars
    <3>1. TypeOK'
      BY <2>1, <2>6 DEF IInv, TypeOK, vars, world
    <3>2. QED
      BY <2>1, <2>6, <3>1, RowsOnly DEF IInv, vars
  <2>7. QED
    BY <2>1, <2>2, <2>3, <2>4, <2>5, <2>6 DEF Next
<1>3. QED
  BY <1>1, <1>2, PTL DEF Spec

(* Rows are of their type, and a replica that mails has a warning in hand.     *)
THEOREM TypeCorrect == Spec => []TypeOK
<1>1. IInv => TypeOK
  BY DEF IInv
<1>2. QED
  BY Invariant, <1>1, PTL

(* A channel is sent one mail about a certificate, and an address so one for   *)
(* each channel that names it, however scans, deletions, renewals and failures *)
(* interleave, but for the named reasons.                                      *)
THEOREM WarnsOnce == Spec => []OneWarningPerCertificate
<1>1. IInv => OneWarningPerCertificate
  <2>1. SUFFICES ASSUME IInv, NEW m \in Monitors, NEW c \in Certs, <<m, c>> \notin excused,
                        NEW a \in Channels
                 PROVE  mails[<<m, c, a>>] <= 1
    BY DEF OneWarningPerCertificate
  <2>2. <<m, c>> \in Warning /\ <<m, c>>[1] = m /\ <<m, c>>[2] = c
    BY DEF Warning
  <2>3. Mails(<<m, c>>, a) <= 1
    BY <2>1, <2>2 DEF IInv, OnceInv, Once
  <2>4. QED
    BY <2>2, <2>3 DEF Mails
<1>2. QED
  BY Invariant, <1>1, PTL

(* A certificate that a monitor remembers was mailed to somebody: no failure   *)
(* makes a warning count as given that nobody was given.                       *)
THEOREM MarksAreEarned == Spec => []MarkedMeansWarned
<1>1. IInv => MarkedMeansWarned
  BY DEF IInv
<1>2. QED
  BY Invariant, <1>1, PTL
=============================================================================
