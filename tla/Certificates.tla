----------------------------- MODULE Certificates -----------------------------
(***************************************************************************)
(* Warnings of certificates that are about to expire: what a probe learns  *)
(* (checks.HTTP), the worker that writes it down, and CheckCertExpiry,     *)
(* which every replica of the notifier runs.                               *)
(*                                                                         *)
(* Nothing here is a transaction of more than one statement, and between   *)
(* any two of them the target may be given another certificate, a monitor  *)
(* or a channel may change, and a process may die.                         *)
(***************************************************************************)
EXTENDS Integers, FiniteSets

CONSTANTS
    Tenants,        \* customers
    Monitors,       \* ids of https monitors
    TenantOf,       \* monitor -> its tenant
    Certs,          \* certificates, told apart by NotAfter as the code does
    Channels,       \* email channels; several of them may name one address
    WarnDays,       \* values of ssl_warn_days
    Workers,        \* slots of a worker
    Replicas,       \* notifier replicas
    None,           \* NULL
    MaxLeft,        \* bound: days a certificate is valid when first seen
    MaxRenewals,    \* bound: changes of what targets present and how they answer
    MaxFaults       \* bound: statements and mails that fail, processes that die

ASSUME CertificatesAssumption ==
    /\ TenantOf \in [Monitors -> Tenants]
    /\ None \notin Certs /\ None \notin Monitors \X Certs /\ WarnDays \subseteq Nat
    /\ MaxLeft \in Nat /\ MaxRenewals \in Nat /\ MaxFaults \in Nat

VARIABLES
    sites,          \* target of a monitor: [cert, passes]
    left,           \* certificate -> days left
    monitors,       \* monitors: id -> [mode, warn, expires, alertedFor]
    verified,       \* alert_channels: tenant -> its verified, enabled email channels
    probes,         \* worker slot -> the certificate it has learned, or None
    scans,          \* replica -> [todo, item, addrs, sent]; addrs has an entry a channel
    mails,          \* history: <<monitor, certificate, channel>> -> mails accepted
    excused,        \* history: warnings that may be given again
    renewals, faults

world == <<sites, left, renewals>>
vars == <<world, monitors, verified, probes, scans, mails, excused, faults>>

\* cert: None if the target speaks no TLS, does not answer, or is not trusted.  passes: it answers
\* with the status and the body that are expected.
Site == [cert : Certs \cup {None}, passes : BOOLEAN]
\* on: enabled with check_ssl.  paused: not enabled.  off: without check_ssl.
Modes == {"on", "paused", "off"}
MonitorRow == [mode : Modes, warn : WarnDays,
               expires : Certs \cup {None}, alertedFor : Certs \cup {None}]
Warning == Monitors \X Certs
Scan == [todo : SUBSET Warning, item : Warning \cup {None},
         addrs : SUBSET Channels, sent : BOOLEAN]

NoScan == [todo |-> {}, item |-> None, addrs |-> {}, sent |-> FALSE]

Scheduled(m) == m \in DOMAIN monitors /\ monitors[m].mode = "on"

Fault == faults < MaxFaults /\ faults' = faults + 1

-----------------------------------------------------------------------------
(* The worker. *)

\* Mutant: a check that failed teaches nothing.
LearnsOfPassing(m) ==
    sites[m].passes /\ sites[m].cert # None /\ left[sites[m].cert] > 0

\* checks.HTTP has a certificate to report, whatever it thinks of the answer.  With
\* one that has expired, or is not trusted, the handshake fails: nothing is learned.
Learns(m) == sites[m].cert # None /\ left[sites[m].cert] > 0

\* A check that was queued before the monitor was paused still runs.
Probe(w, m) ==
    /\ probes[w] = None
    /\ m \in DOMAIN monitors /\ monitors[m].mode # "off"
    /\ Learns(m)
    /\ probes' = [probes EXCEPT ![w] = <<m, sites[m].cert>>]
    /\ UNCHANGED <<world, monitors, verified, scans, mails, excused, faults>>

\* The monitor may have been deleted: the UPDATE finds no row.
SaveCert(w) ==
    LET m == probes[w][1]
    IN  /\ probes[w] # None
        /\ monitors' = IF m \in DOMAIN monitors
                         THEN [monitors EXCEPT ![m].expires = probes[w][2]]
                         ELSE monitors
        /\ probes' = [probes EXCEPT ![w] = None]
        /\ UNCHANGED <<world, verified, scans, mails, excused, faults>>

\* The INSERT of the result or the UPDATE fails, or the process dies.
SaveCertFails(w) ==
    /\ probes[w] # None /\ Fault
    /\ probes' = [probes EXCEPT ![w] = None]
    /\ UNCHANGED <<world, monitors, verified, scans, mails, excused>>

-----------------------------------------------------------------------------
(* CheckCertExpiry, in replica n. *)

Wanted(m, c) ==
    /\ Scheduled(m)
    /\ monitors[m].expires = c /\ left[c] < monitors[m].warn

\* Mutant: a warning is given once per monitor.
DueOnce ==
    {x \in Warning : Wanted(x[1], x[2]) /\ monitors[x[1]].alertedFor = None}

\* Mutant: what was warned of is not looked at.
DueAlways == {x \in Warning : Wanted(x[1], x[2])}

Due == {x \in Warning : Wanted(x[1], x[2]) /\ monitors[x[1]].alertedFor # x[2]}

\* Warnings some replicas have before them.
InHandOf(ns) == (UNION {scans[n].todo \cup {scans[n].item} : n \in ns}) \ {None}

ScanSelect(n) ==
    /\ scans[n] = NoScan /\ Due # {}
    /\ scans' = [scans EXCEPT ![n].todo = Due]
    /\ excused' = excused \cup (Due \cap InHandOf(Replicas \ {n}))
    /\ UNCHANGED <<world, monitors, verified, probes, mails, faults>>

\* verifiedEmails: an entry for each channel, also where two name one address.
Recipients(n, x) ==
    /\ scans[n].item = None /\ x \in scans[n].todo
    /\ scans' = [scans EXCEPT ![n].todo = @ \ {x}, ![n].item = x,
                              ![n].addrs = verified[TenantOf[x[1]]]]
    /\ UNCHANGED <<world, monitors, verified, probes, mails, excused, faults>>

RecipientsFail(n, x) ==
    /\ scans[n].item = None /\ x \in scans[n].todo /\ Fault
    /\ scans' = [scans EXCEPT ![n].todo = @ \ {x}]
    /\ UNCHANGED <<world, monitors, verified, probes, mails, excused>>

Accept(n, a) ==
    LET mail == <<scans[n].item[1], scans[n].item[2], a>>
    IN  mails' = [mails EXCEPT ![mail] = IF @ < 2 THEN @ + 1 ELSE @]

SendMail(n, a) ==
    /\ a \in scans[n].addrs
    /\ Accept(n, a)
    /\ scans' = [scans EXCEPT ![n].addrs = @ \ {a}, ![n].sent = TRUE]
    /\ UNCHANGED <<world, monitors, verified, probes, excused, faults>>

\* The server refuses, or takes the mail and the answer is lost.
SendMailFails(n, a) ==
    /\ a \in scans[n].addrs /\ Fault
    /\ \/ UNCHANGED <<mails, excused>>
       \/ Accept(n, a) /\ excused' = excused \cup {scans[n].item}
    /\ scans' = [scans EXCEPT ![n].addrs = @ \ {a}]
    /\ UNCHANGED <<world, monitors, verified, probes>>

\* Mutant: a warning is done when it was tried.
MarkTried(n) ==
    LET x == scans[n].item
    IN  /\ x # None /\ scans[n].addrs = {}
        /\ monitors' = IF x[1] \in DOMAIN monitors
                         THEN [monitors EXCEPT ![x[1]].alertedFor = x[2]] ELSE monitors
        /\ scans' = [scans EXCEPT ![n] = [NoScan EXCEPT !.todo = scans[n].todo]]
        /\ UNCHANGED <<world, verified, probes, mails, excused, faults>>

\* One mail that was taken is enough.  What was warned of before is
\* forgotten, and warned of again if it comes back.
Mark(n) ==
    LET x == scans[n].item
        marks == scans[n].sent /\ x[1] \in DOMAIN monitors
    IN  /\ x # None /\ scans[n].addrs = {}
        /\ IF marks
             THEN /\ monitors' = [monitors EXCEPT ![x[1]].alertedFor = x[2]]
                  /\ excused' = excused \cup
                        {<<x[1], c>> : c \in {monitors[x[1]].alertedFor} \ {None, x[2]}}
             ELSE UNCHANGED <<monitors, excused>>
        /\ scans' = [scans EXCEPT ![n] = [NoScan EXCEPT !.todo = scans[n].todo]]
        /\ UNCHANGED <<world, verified, probes, mails, faults>>

\* The UPDATE fails, which is logged, or the process dies.
MarkFails(n) ==
    /\ scans[n].item # None /\ Fault
    /\ excused' = excused \cup {scans[n].item}
    /\ \/ /\ scans[n].addrs = {} /\ scans[n].sent
          /\ scans' = [scans EXCEPT ![n] = [NoScan EXCEPT !.todo = scans[n].todo]]
       \/ scans' = [scans EXCEPT ![n] = NoScan]
    /\ UNCHANGED <<world, monitors, verified, probes, mails>>

-----------------------------------------------------------------------------
(* Handlers that change what the scan reads. *)

\* An id that nobody remembers.
Fresh(m) ==
    /\ m \notin DOMAIN monitors
    /\ \A w \in Workers : probes[w] # None => probes[w][1] # m
    /\ \A x \in InHandOf(Replicas) \cup excused : x[1] # m
    /\ \A x \in DOMAIN mails : x[1] = m => mails[x] = 0

CreateMonitor(m, warn) ==
    /\ Fresh(m)
    /\ monitors' = [k \in DOMAIN monitors \cup {m} |->
          IF k = m THEN [mode |-> "on", warn |-> warn,
                         expires |-> None, alertedFor |-> None]
                   ELSE monitors[k]]
    /\ UNCHANGED <<world, verified, probes, scans, mails, excused, faults>>

\* It leaves expires and alertedFor as they are.
UpdateMonitor(m, mode, warn) ==
    /\ m \in DOMAIN monitors
    /\ monitors' = [monitors EXCEPT ![m].mode = mode, ![m].warn = warn]
    /\ UNCHANGED <<world, verified, probes, scans, mails, excused, faults>>

DeleteMonitor(m) ==
    /\ m \in DOMAIN monitors
    /\ monitors' = [k \in DOMAIN monitors \ {m} |-> monitors[k]]
    /\ UNCHANGED <<world, verified, probes, scans, mails, excused, faults>>

\* An email channel is verified, or deleted.
SetChannels(t, set) ==
    /\ verified' = [verified EXCEPT ![t] = set]
    /\ UNCHANGED <<world, monitors, probes, scans, mails, excused, faults>>

-----------------------------------------------------------------------------
(* The targets and time. *)

\* A certificate is replaced, or UpdateMonitor names another target.
SiteChanges(m, site) ==
    /\ renewals < MaxRenewals /\ renewals' = renewals + 1
    /\ sites' = [sites EXCEPT ![m] = site]
    /\ UNCHANGED <<left, monitors, verified, probes, scans, mails, excused, faults>>

DayPasses(c) ==
    /\ left[c] > 0
    /\ left' = [left EXCEPT ![c] = @ - 1]
    /\ UNCHANGED <<sites, renewals, monitors, verified, probes, scans, mails,
                   excused, faults>>

-----------------------------------------------------------------------------

Init ==
    /\ sites \in [Monitors -> {site \in Site : site.passes}]
    /\ left = [c \in Certs |-> MaxLeft]
    /\ monitors = [m \in {} |-> 0]
    /\ verified = [t \in Tenants |-> {}]
    /\ probes = [w \in Workers |-> None]
    /\ scans = [n \in Replicas |-> NoScan]
    /\ mails = [x \in Monitors \X Certs \X Channels |-> 0]
    /\ excused = {}
    /\ renewals = 0 /\ faults = 0

Work ==
    \E w \in Workers :
        SaveCert(w) \/ SaveCertFails(w) \/ \E m \in Monitors : Probe(w, m)

ScanStep(n) ==
    \/ ScanSelect(n) \/ Mark(n)
    \/ \E x \in scans[n].todo : Recipients(n, x)
    \/ \E a \in scans[n].addrs : SendMail(n, a)

ScanFails(n) ==
    \/ MarkFails(n)
    \/ \E x \in scans[n].todo : RecipientsFail(n, x)
    \/ \E a \in scans[n].addrs : SendMailFails(n, a)

Configure ==
    \/ \E m \in Monitors :
          \/ DeleteMonitor(m)
          \/ \E warn \in WarnDays :
                CreateMonitor(m, warn) \/ \E mode \in Modes : UpdateMonitor(m, mode, warn)
    \/ \E t \in Tenants, set \in SUBSET Channels : SetChannels(t, set)

Environment ==
    \/ \E m \in Monitors, site \in Site : SiteChanges(m, site)
    \/ \E c \in Certs : DayPasses(c)

Next ==
    Work \/ Configure \/ Environment \/ \E n \in Replicas : ScanStep(n) \/ ScanFails(n)

Spec == Init /\ [][Next]_vars

\* Enabled monitors are checked again and again, which is the business of the check
\* pipeline; workers go on, and so does the loop over the tick of six hours.
FairSpec ==
    /\ Spec
    /\ \A w \in Workers :
          WF_vars(SaveCert(w)) /\ \A m \in Monitors : SF_vars(Scheduled(m) /\ Probe(w, m))
    /\ \A n \in Replicas : WF_vars(ScanStep(n))

-----------------------------------------------------------------------------
(* Properties. *)

(* Rows are of their type, and a replica that mails has a warning in hand.     *)
TypeOK ==
    /\ sites \in [Monitors -> Site]
    /\ left \in [Certs -> 0 .. MaxLeft]
    /\ monitors \in [DOMAIN monitors -> MonitorRow] /\ DOMAIN monitors \subseteq Monitors
    /\ verified \in [Tenants -> SUBSET Channels]
    /\ probes \in [Workers -> Warning \cup {None}]
    /\ scans \in [Replicas -> Scan]
    /\ \A n \in Replicas :
          scans[n].addrs # {} \/ scans[n].sent => scans[n].item # None
    /\ mails \in [Monitors \X Certs \X Channels -> 0 .. 2]
    /\ excused \subseteq Warning
    /\ renewals \in Nat /\ faults \in Nat

(* "The same cert never warns twice": each channel is sent one mail about a    *)
(* certificate, so an address one for each channel that names it, unless       *)
(* another replica had the same warning in hand, something failed between the  *)
(* mail and the mark, or another certificate came in between.                  *)
OneWarningPerCertificate ==
    \A m \in Monitors, c \in Certs :
        <<m, c>> \notin excused => \A a \in Channels : mails[<<m, c, a>>] <= 1

(* ssl_alerted_for "records which certificate we warned about": a certificate  *)
(* it names was mailed to somebody, so that no warning is silently dropped.    *)
MarkedMeansWarned ==
    \A m \in DOMAIN monitors :
        monitors[m].alertedFor # None =>
            \E a \in Channels : mails[<<m, monitors[m].alertedFor, a>>] > 0

(* "Certificate details are recorded whenever we learn them, independent of    *)
(* whether the check passed": the row comes to name the certificate that the   *)
(* target keeps presenting, while it is valid, although workers write what     *)
(* they learned late.                                                          *)
CertificatesAreFollowed ==
    \A m \in Monitors, c \in Certs :
        <>[](Scheduled(m) /\ sites[m].cert = c /\ left[c] > 0)
            => <>[](m \in DOMAIN monitors /\ monitors[m].expires = c)

(* A certificate that is about to expire is warned of in the end, "renewing    *)
(* the cert re-arms the warning" included, if there is a channel to mail.      *)
WarningsGoOut ==
    \A m \in Monitors, c \in Certs :
        <>[](Wanted(m, c) /\ verified[TenantOf[m]] # {})
            => <>[](m \in DOMAIN monitors /\ monitors[m].alertedFor = c)
=============================================================================
