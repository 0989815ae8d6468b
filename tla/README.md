# Pulse: TLA+ models, checks and proofs

Pulse is an uptime monitor: an API where tenants configure monitors, alert
channels and maintenance windows, a scheduler that decides which monitors are
due, a Redis list of due monitors, workers that probe them, a package that turns
results into incidents and incidents into queued notifications, and a notifier
that delivers them. Billing, teams, retention and the public status page sit
around that path. PostgreSQL holds all durable state, and every process talks to
it directly; most of what can go wrong is a matter of which statements share a
transaction.

This directory holds TLA+ modules of that code, TLC configurations that check
them on small instances, and theorems with proofs that TLAPS checks.
`PROJECT.json` lists the runs, the theorems, the lines every definition models,
the hazards of the code and the disagreements found between code and comments.

    tlc -workers 2 -config MCAlerting_channels.cfg MCAlerting
    tlapm AlertingProofs.tla

The first line model-checks a run of section 3, the second checks every proof of
a module of section 4.

## 1. Inventory

| Component | State | Operations | Talks to | What is hard |
|---|---|---|---|---|
| Scheduler (`apps/scheduler`) | `monitors.next_run_at` | every 5 s: claim due monitors, push each | Redis | the claim commits before the push; a failed push is dropped |
| Check queue (`internal/queue`) | a Redis list | LPUSH, BRPOP | scheduler, workers | the pop is destructive: at most once |
| Worker (`apps/worker`) | none of its own | load, probe, save, record the certificate, ProcessResult | Redis, PostgreSQL, targets | crash between any two steps; results of two workers out of order; paused monitors |
| Alerting (`internal/alerting`) | `monitors.status/consecutive_fails`, `incidents`, `notifications` | ProcessResult, SweepDelayedAlerts, CheckCertExpiry | called by worker and notifier | transitions under concurrency; a sweep that acts on what it read earlier |
| Notifier (`apps/notifier`) | `notifications.status/attempts/next_try_at` | drain: claim, send, record | SMTP, Slack | locks that end with the claim; crash between send and record; retries |
| Monitors API | `monitors` | create, update, pause, delete | | cascades; plan limits; delay changed while an incident waits |
| Channels and routing API | `alert_channels`, `monitor_channels` | create, verify, delete, set routing | | empty routing means all channels |
| Maintenance API | `maintenance_windows`, `maintenance_monitors` | create, delete | | empty selection means all monitors |
| Teams API | `users`, `invitations` | invite, revoke, accept, change role, remove | | roles come from tokens that outlive role changes; seat limit checked at invitation |
| Accounts | `users`, `tenants`, `auth_tokens` | signup, login, verify, forgot, reset, change password | SMTP | single-use tokens; row locks and deadlocks of concurrent resets; pairs of statements without a transaction |
| Billing | `tenants.plan_code, stripe_*`, `stripe_events` | checkout, portal, webhook | Stripe | events duplicated, reordered, lost between record and handling; several subscriptions of one tenant |
| Account deletion | `tenants`, `deletion_log` | delete with cascade | Stripe | a checkout that completes meanwhile |
| Retention (`internal/retention`, `apps/retention`) | `daily_uptime`, `check_results`, `retention_state` | rollup, prune in batches | read by the status page | midnight between statements; prune after a failed rollup; days summarised twice |
| Certificate warnings (`internal/checks`, worker, `CheckCertExpiry`) | `monitors.ssl_expires_at`, `ssl_alerted_for` | learn, write down, scan, mail, mark | targets, SMTP | a scan of several replicas; mail and mark are two steps; late writes |
| Rate limiter | counters in Redis | allow | | fixed window |
| Plan limits (`internal/plans`) | none | count under the tenant lock | | limits checked outside the lock on update |
| Status page, dashboards, metrics, deployment | presentation and I/O | | | |

What makes each part correct:

* Alerting: down exactly while one incident is open; down exactly when the
  threshold is reached; announcements agree with incidents; recovery is told to
  those who were paged; delayed alerts are not lost; tenants stay apart.
* Notifier: attempts are bounded, settled rows are final, sent means delivered,
  every row settles.
* Check pipeline: an enabled monitor keeps being checked in spite of lost pushes
  and crashes, and its status follows its target.
* Teams: at least one owner, at most the seats of the plan. Billing: a plan is
  one that was bought, is not taken away while its subscription runs and is paid,
  and no event is dropped without a cause.
* Retention: no result is pruned before it is summarised, a summary keeps its
  numbers, today is shown in full, and the service catches up after failures.
* Links: single use; dead once the password changes and not before; a spent
  verification verifies. Certificates: one warning of each to a channel, none lost.

What the project covers of them, component by component, is in the
"components" of `PROJECT.json`; what it leaves out is in section 6.

## 2. Modules

| Module | Models | State in the code |
|---|---|---|
| `Alerting` | `internal/alerting/incidents.go` and the API handlers that write what it reads | the tables of migrations 1, 2 and 11, one variable each; `sweep` is the list `items` a notifier replica holds |
| `Notifier` | `drain` of `apps/notifier` | `rows` is the `notifications` table, `line` the order of `next_try_at` among due rows, `jobs` and `sending` the local variables of a replica |
| `CheckPipeline` | `apps/scheduler`, `internal/queue`, `apps/worker` up to `ProcessResult` | `enabled` and `agenda` are columns of `monitors` (`agenda` the order of `next_run_at` among due ones), `claimed` and `work` what a scheduler and a worker hold, `queue` the Redis list, `site` the target |
| `Monitoring` | the composition of `CheckPipeline` and `Alerting`: the last step of a worker is `ProcessResult` | the variables of both |
| `Teams` | signup, login, invitations, roles, removal, account deletion, the seats of a plan | `tenants`, `users`, `invitations`; `tokens` are the JWTs customers hold; `inviting` and `accepting` are requests between two of their steps |
| `Billing` | `CreateCheckout`, the Stripe webhook, the billing half of `DeleteAccount`, and Stripe as they use it | `tenants` is the row's `stripe_customer_id`, `stripe_subscription_id` and `plan_code`; `recorded` is `stripe_events`; `handling`, `checkouts` and `deletions` are requests between two of their statements; `subs`, `customers`, `events` and `acked` are Stripe's |
| `Outages` | nothing of its own: what `Alerting` promises, as a ledger of outages with who was paged and who was told of the end | `down`, `outages`, `paged` and `cleared` are read off `monitors.status`, `incidents` and `notifications` by the refinement mapping at the end of `Alerting` |
| `Retention` | `internal/retention`, the loop of `apps/retention`, the daily bars of the public page | `results` is `check_results`, `summaries` is `daily_uptime`, `last` is `retention_state.last_rollup_day`, `keep` the period of each tenant's plan; `pass` is where the process is and what it has read; `today` and `hour` are `now()` |
| `AuthTokens` | `password_handlers.go`, the verification mail of `Signup` | `users` and `tokens` are `users` and `auth_tokens`; `resets` are transactions of `ResetPassword`, `changes`, `verifying` and `signups` requests between two statements |
| `Certificates` | the certificate a probe learns, the worker's `UPDATE`, `CheckCertExpiry`, the handlers it depends on | `monitors` has the columns `enabled` and `check_ssl` (as one `mode`), `ssl_warn_days`, `ssl_expires_at`, `ssl_alerted_for`; `probes` and `scans` are local variables of a worker and a replica; `sites` and `left` are the targets and their certificates |
| `AlertingProofs`, `NotifierProofs`, `CheckPipelineProofs`, `TeamsProofs`, `BillingProofs`, `RetentionProofs`, `AuthTokensProofs`, `CertificatesProofs` | theorems | |
| `MCAlerting`, `MCNotifier`, `MCCheckPipeline`, `MCMonitoring`, `MCTeams`, `MCBilling`, `MCRetention`, `MCAuthTokens`, `MCCertificates` | small instances for TLC | |

**Steps.** An action is a transaction, or a single statement where the code
commits each statement on its own. `ProcessResult` is one action because it runs
in a transaction that holds the monitor's row; the sweep is a `SELECT`
(`SweepSelect`) followed by one transaction per row read (`SweepItem`), with
everything else in between. A notifier replica claims, sends and records in three
actions; a scheduler claims and then pushes one id at a time; a worker pops,
loads and probes, saves, and processes. Each may die between any two.

**History variables** record what the code forgets, for the properties only:
`applied`, `doubtful`, `abandoned` and `overlooked` in `Billing`,
`recorded`, `early` and `crossed` in `Retention`, `uses`, `overtaken`, `untimely`
and `excused` in `AuthTokens`, `mails` and `excused` in `Certificates`, `shared`
and `delivered` in `Notifier`. No guard reads them, but for bounds and for ids
that must be fresh.

**Composition.** `Monitoring` instantiates `CheckPipeline` and extends
`Alerting`. Everything but the last step of a worker is a step of the pipeline
alone; `Process` is at once the end of the pipeline's check and an
`Alerting!Check`. Pausing, creating and deleting a monitor are steps of both.
The two refinements (`Monitoring` implements each of them) are proved.

**Abstraction.** `Alerting` instantiates `Outages` with a refinement mapping:
monitors that are down, incidents as outages (over, planned, announced), rows of
kind `down` as pages and of kind `recovered` as all-clears. `ImplementsOutages` is
checked for `Alerting` and proved for it and for the composed system.

**Transactions under READ COMMITTED.** Modelling a transaction as one step is
justified case by case.

* Two `ProcessResult`s of a monitor, or one and a handler that updates or deletes
  that monitor, exclude each other on the row lock. `ProcessResult` reads windows
  and channels in separate statements, but no handler writes both in one
  transaction, so each interleaving is a serial one.
* `SweepItem` only inserts rows and sets one column, and `ProcessResult` reads
  that column in the statement that resolves the incident.
* Two concurrent `SetMonitorChannels` can leave the union of the two selections:
  a selection that a caller may also send, so it adds no state.
* `ChangeRole` writes the caller's row and then the target's, and reads neither
  before its `UPDATE` locks it; two of them that lock the rows in opposite orders
  are aborted by the database, which is no step.
* `InviteMember` looks for an account before its transaction (`InviteRequest`)
  and is one step from there (`Invite`): it holds the row of the tenant, and
  waits for an acceptance that holds the invitation it would overwrite.
* `AcceptInvitation` consumes the invitation, hashes a password and inserts the
  user; the invitation may expire meanwhile and other people may be invited, so
  it is two steps (`AcceptBegins`, `Accept`). To everybody else the invitation
  stays live until the commit.

* `ResetPassword` is where serialising would hide the behaviour of interest, so
  its statements are steps (`ClaimToken`, `WritePassword`, `VoidOthers`,
  `CommitReset`), with the locks each takes as guards of everybody else's, writes
  visible at the commit, rollback, and the deadlock that the database resolves by
  failing one of the two (`DeadlockVictim`).

`VerifyUser`, `ChangePassword`, a pass of retention and `CheckCertExpiry` have no
transaction: every statement, and every mail, is a step that may fail or be the
last one of the process.

* A pass of `Retention` reads the progress (`RollupStarts`), summarises
  (`Summarise`), computes the downtime (`MeasureDowntime`), records the progress
  (`RecordProgress`, which reads the date again) and deletes a batch at a time
  (`PruneBatch`). A failed rollup goes on to prune, as `runPass` does. A summary
  is modelled as the set of results it was computed from, of which each column
  is a function. A result's `checked_at` is the moment it is committed, and one
  process of the service runs, as the deployment has it.
* `CheckCertExpiry` selects (`ScanSelect`), reads the addresses of one item
  (`Recipients`), mails them one by one (`SendMail`), and marks (`Mark`). Two
  replicas do so at the same time. `verifiedEmails` returns an entry for each
  verified channel, and nothing makes addresses unique among the channels of a
  tenant; so the model's entries are channels, and an address that two of them name
  is mailed twice. A certificate is told apart by `NotAfter`, as in the code. One
  that has expired, or is not trusted, fails the handshake and teaches nothing
  (`Learns`); an untrusted one is a target without a certificate.

No handler of billing has a transaction. A webhook records the event
(`Deliver`), handles it with one `UPDATE` (`Handle`), and takes the record back
when that failed (`HandleFails`), be it that the statement did take effect and
the connection broke; when the process dies, or the record cannot be taken back,
it stays (`Abandon`). A deletion reads, cancels at Stripe and deletes in three
actions; a checkout reads, creates a customer and opens a page. The events of a
subscription (`OfSubscription`: it is paid, or past due) lead to
`applySubscription`, which has two outcomes. It returns nil without doing anything
when there are no items, when the price is of no plan and whenever the `SELECT` of
the plan fails (`Overlook`); otherwise its `UPDATE` assigns two columns twice, for
which PostgreSQL refuses it every time: `Accepted` is false for these events.
`After` says all the same what the `UPDATE` would write.

**Data.** Ids, channels, tenants and addresses are model values; a table is a
function from ids to the columns that decide something. Time is relative: an
incident has an age, a window is before, during or after `now()`, a notification
waits a number of minutes, an invitation or a token has expired or has not. The
order of `next_try_at` and `next_run_at` among due rows matters to `LIMIT` and is
kept as a sequence. A day of `Retention` has `Hours` parts, so that a prune can
fall between two results of one day. A password is an element of a set; a hash is
the password.

## 3. Runs

| Run | Instance | Shows |
|---|---|---|
| `channels` | 1 monitor, an email and a slack channel, a slack channel of another tenant, 1 window, delays 0 and 1, 1 sweeping replica, 2 incident ids | `TypeOK`, `OneOpenIncidentWhileDown`, `DownFromThreshold`, `AnnouncementsAreCoherent`, `TenantIsolation`, `RecoveryReachesPagedChannels`, `FallsBackToAllChannels`, and the refinement `ImplementsOutages` |
| `delays` | 2 sweeping replicas, fairness | `DelayedAlertsAreSent` |
| `pipeline` | 2 schedulers and 2 monitors with a claim of one, 1 worker, all faults, fairness | `TypeOK`, `EnabledMonitorsAreChecked` |
| `follows` | the composed system with 2 schedulers and 2 workers, all faults, fairness | `OneCheckPerDueInstant`, `StatusFollowsTarget` |
| `notifier` | 2 replicas, 2 rows, a claim of one row, 1 fault, fairness | `TypeOK` (with the bound on attempts), `SentWasDelivered`, `DuplicatesNeedACause`, `SettledRowsStaySettled`, `EveryRowSettles` |
| `teams` | 1 tenant, 3 people, 2 tokens alive, an invitation being sent, plans of 1 and 3 seats | `TypeOK`, `AlwaysAnOwner`, `TransfersKeepOneOwner`, `SeatsStayWithinPlan` |
| `billing` | 1 tenant, 2 customers, 2 subscriptions, 2 paid plans, a purchase at a time, 1 fault | `PlansWereBought`, `PaidForIsNotRevoked`, `EventsAreHandledOnce`, `DroppedOnlyWithCause`, `DeletionCancelsFirst` |
| `retention` | 1 monitor, days 0 to 3 of two halves, 2 results, plans that keep 2 and 3 days, batches of one, 2 faults, fairness | `NothingIsLost`, `TodayIsLive`, `SameNumbersAgain`, `CatchesUp` |
| `tokens` | 1 user, 3 links, 2 requests at a time, 1 fault, fairness | `TokensAreSingleUse`, `LinksDieOnlyWithThePassword`, `OldLinksAreDead`, `SpentLinksVerify`, `RequestsEnd` |
| `certificates` | 1 monitor, 2 certificates, 1 worker, 2 scanning replicas, 1 channel, 1 change of the target, 1 fault, fairness | `OneWarningPerCertificate`, `MarkedMeansWarned`, `CertificatesAreFollowed`, `WarningsGoOut` |
| `handed`, `two_owners` | | comments that the code does not live up to, see below |

The type invariants of `Billing`, `Retention`, `AuthTokens` and `Certificates` are
proved (section 4), so their runs do not evaluate them again.

**Bounds.** `MaxFails = 3` tells a count below, at and above the threshold of 2
apart. `MaxAge = 2` tells an incident younger than, as old as and older than a
delay of 1 apart. Two incident ids allow an outage after an outage; ids are
recycled only when no row and no replica remembers them, so longer histories are
covered as monitors are deleted. `MaxDelivered` and `MaxFaults` bound history
variables of the notifier. `maxAttempts` is 6 in the code and 3 in the run: first,
middle and last attempt, with waits of 1, 2 and 4 minutes. `Limit` is the 50 of
the notifier and the 500 of the scheduler; 1 is the value at which competition for
the claim is hardest; that copies grow stale, as those at the end of a longer batch
do, is the work of the second replica. `MaxInFlight` bounds the
checks of one monitor under way: without it a queue grows without bound while
no worker runs. `Kept` is the number of results remembered per monitor.
`MaxFlips` bounds how often a target changes. `MaxTokens = 2` is what a transfer
after a transfer needs; `MaxRequests = 1` invitation being sent is enough because
any number of acceptances may be under way beside it. Plans of 1 and 3 seats for
three people reach a full plan, an upgrade and a downgrade below the seats taken.

In `billing`, two subscriptions and two customers are what one stray purchase
needs; a second customer appears only when saving the first one fails
(`MaxFaults = 1`), as two checkouts at once would create it too. `MaxEvents = 4`
lets both subscriptions begin, or one of them begin and change its plan or fall
due; either may end at any time, by itself or through a deletion. What a purchase
after a failed payment does is left to the proofs. `MaxHandling = 1` request of the webhook between
its record and its outcome at a time: handling an event is one statement, so two
requests are in some order anyway, and duplicates are delivered during it all the
same.

In `retention`, a pass that spans a midnight (`MaxMidnights = 1`) is the case at
which its statements disagree about the date; `MaxDay = 3` has a day to lose, a
day that is summarised twice, and one after them, and plans of 2 and 3 days let
results expire on the last days. That a pass never takes as long as a plan keeps
results is an assumption of the module (`RetentionAssumption`); the shortest plan
keeps 30 days. `MaxResults = 2` results may be of one day, or of two, or one day
apart from the oldest, and a batch of one row makes every prune partial.

In `tokens`, three links are a verification and two resets that lock each other's
rows, or three resets; two requests are what a lock, and a deadlock, take. One
password is enough, since no property compares two: which links are alive does not
depend on what the password is. Token ids are used in their order and run out, for
which deadlock is not checked there.

In `certificates`, `MaxRenewals = 1` lets a target change its certificate, or fail
its checks with either. `MaxLeft = 2` and a warning period of two days tell apart a
certificate that is not due, one that is due and still learned, and one that has
expired and is still warned of. One worker is late already when the target changes
while it holds what it learned; two replicas race for a warning. The count of mails
is capped at 2, which is one too many. Two channels, of which one refuses, two
workers, and a target that goes back to a certificate make the graph too large for
liveness; of the safety properties the proofs cover them.

The proofs have none of these bounds.

**Deadlock** is checked in every run but `billing`, where nothing happens any more
once every tenant has deleted its account, and `tokens`, where link ids run out.

**Fairness.** `Alerting`: the notifier's five second loop runs the sweep, so
`SweepSelect` is weakly fair, as is handling what was read; the transaction of
one incident may fail or the process may restart, but not every time
(`SF(SweepItem)`). Time passes. Nothing is assumed of results or of the
customers. `Notifier`: minutes pass and each replica keeps claiming, sending and
recording; crashes and lost UPDATEs are bounded by `MaxFaults`. Whether a
provider accepts a message is never assumed, but that an exchange with it returns
is: `SendSlack` gives up after 10 seconds, while `SendEmail` has no timeout
(`send.go:19-30`), so a mail server that accepts the connection and never answers
holds a replica for ever. `EveryRowSettles` rests on that assumption, and so do
`DelayedAlertsAreSent`, since the sweep runs in the loop that drains, and
`WarningsGoOut`, since a scan mails one channel after the other (in a goroutine of
its own, `main.go:71-80`). `CheckPipeline`: intervals pass and
the loops of schedulers and workers run (weak fairness); a push, a load, a save
or a `ProcessResult` may fail, and a process may die, but not every time for the
same monitor (strong fairness per monitor). A target may fail for ever.
`Retention`: the loop of the service runs, its statements may fail a bounded number
of times. `AuthTokens`: a request that has begun goes on, or waits for a lock; that
a client comes back, or that anybody begins one, is not assumed. `Certificates`:
the worker writes what it learned and the scan goes on (weak fairness), and a
monitor that is scheduled again and again is probed again and again (strong
fairness), which is what the pipeline's `EnabledMonitorsAreChecked` provides.
`Teams` and `Billing` have no fairness: they promise nothing that must happen.

### Where code and comments disagree

* `handed`: the row locks of `FOR UPDATE SKIP LOCKED` last as long as the
  `SELECT`, so two replicas are handed the same row.
* `two_owners`: `ChangeRole` believes the token. A former owner whose token still
  says owner can transfer the ownership once more; only the caller steps down, so
  the tenant has two owners, and neither can be demoted or removed. Middleware
  notes that a role change takes up to a day to be felt, not this consequence.

More disagreements are known from reading the code beside the models, and have no
run of their own.

About alerts: the sweep does not look at `resolved_at` again (`incidents.go:309`).
A recovery that commits between its `SELECT` and its transaction announces nothing
(89-91), and then the page goes out, for an outage that is over and whose recovery
nobody will hear of; `Outages` allows a page after the end for that reason. When
no channel can receive an alert, `notified_at` is set all the same (101), and the
recovery believes that somebody was paged. An incident opened under a delay is
picked up only while
`alert_delay_seconds > 0`, so setting the delay to 0 during the outage strands it
(migration 11: "0 means alert immediately"). A window with no
`maintenance_monitors` rows covers the tenant, and deleting the monitors a window
selected leaves it with none (`docs/CHANGELOG.md:153`). A delayed page is queued inside a
window that started after the incident (`incidents.go:281`, migration 11: "Alerts
are suppressed during a window"). Two workers that hold the same monitor can
apply a success after both failures around it, and two single blips open an
incident (`README.md:48` of the repository: "a single blip never pages anyone").

About teams: an invitation that expires while it is being accepted frees its seat
for another one, so that a plan can be exceeded; `SeatsStayWithinPlan` allows
exactly that.

About retention: `Rollup` reads `CURRENT_DATE` in one statement and again when it
records its progress (`retention.go:107`). A pass that spans midnight records the
day it has not summarised, which no later pass comes back to ("every completed day
not yet summarised", 19); `NothingIsLost` excuses exactly these days
(`crossed`). After a failed rollup the prune deletes results nobody summarised; a
day that a later rollup then summarises has the rest of them only (69-70: nothing
is said of it); `early` names those.

About certificates: "The same cert never warns twice" (`incidents.go:172-173`)
fails in a single scan when two verified channels of a tenant name one address:
`verifiedEmails` (234-251) has no `DISTINCT`, and the address is mailed once for
each. For a channel it fails when two replicas of the notifier have the warning
before them at the same time, when the process dies or the `UPDATE` fails between
the mail and the mark, when the server takes a mail and its answer is lost, and when
a target goes back to a certificate after a warning of another one.
`OneWarningPerCertificate` speaks of channels and excuses exactly these, and the
proof says that for a channel there are no more. An untrusted or expired
certificate is never learned (`checks.go:92-99`), although "certificate details are
recorded whenever we learn them"; the row keeps naming the one before it.

About accounts: a verification mail that cannot be sent at signup is only logged,
the comment counts on a resend (`password_handlers.go:148-149`), and no endpoint
resends it. `ChangePassword` checks the current password two statements before it
writes the new one (200): a reset that commits in between is overwritten by who
knew the old password. A link requested while the password changes may be voided
although it is newer, or survive although it is older than the change
(`untimely`); one whose voiding failed survives (`excused`).

About limits: the smallest interval of a plan is read outside the `UPDATE`
(`monitor_handlers.go:216`), so a downgrade in between leaves a shorter one. The
rate limiter has a fixed window (`ratelimit.go:37`), which lets through twice the
limit around its edge.

About billing: the doubled assignments of `applySubscription` keep changes made
in the portal from flowing back (`billing_handlers.go:284-287`). They also hide that
two comments disagree: "Anything past due, unpaid or cancelled falls back to free"
(312), which the code below it does, and "Don't downgrade on a single failure"
(270), since Stripe announces the first failed payment as a subscription past due
too. As the code is, the `UPDATE` is refused and only the end of a subscription
takes a plan away; were it accepted, the first failure would.
`PaidForIsNotRevoked` holds on either reading, and the lemma it is proved by
(`ApplyRevokes`) does not use the refusal. "Better a duplicate delivery than a
silently dropped subscription change" (191-192) fails where the `SELECT` of the
plan fails for any reason (298-309): the event is recorded, answered with 200 and
lost, as if its price had no plan. It fails, too, when a process dies after it
recorded an event, when a record cannot be taken back, and when a duplicate is
answered while the first request is still to fail. `DroppedOnlyWithCause` says that
these are all the ways (`overlooked`, `abandoned`). Two checkouts at once create two customers (74-75). A
completion delivered after the end of its subscription brings the plan back, and
nothing takes it away again. `DeleteAccount` cancels the subscription the row names
(`data_handlers.go:229`); a checkout page still open is not expired, and the
subscription that begins on it later belongs to nobody who could end it. A tenant
whose subscription has ended at Stripe
cannot be deleted until the event has arrived, because cancelling fails.

## 4. Proofs

Everything below holds for every value of the constants that the named
assumptions of the modules allow.

`AlertingProofs`:

* `TypeCorrect`: `Spec => []TypeOK`, which includes every foreign key: this is
  where the cascades of the delete handlers are needed.
* `OutagesAreRecordedOnce`: `Spec => []OneOpenIncidentWhileDown`.
* `DownMeansThresholdReached`: `Spec => []DownFromThreshold`.
* `AnnouncementsStayCoherent`: `Spec => []AnnouncementsAreCoherent`.
* `SweepsHoldUnplanned`: `Spec => []SweptIncidentsAreUnplanned`, what a replica of
  the sweep holds was not planned.
* `TenantsStayApart`: `Spec => []TenantIsolation`.
* `AlertingImplementsOutages`: `Spec => ImplementsOutages`, the refinement.

`OutageInv` is `TypeOK`, `OneOpenIncidentWhileDown` and `DownFromThreshold`
together and is inductive: `ProcessResult` opens an incident only when the status
was not down, hence none was open. `AnnounceInv` adds `SweptIncidentsAreUnplanned`
to `AnnouncementsAreCoherent`: the transaction of the sweep does not check
`planned` again, so that a planned incident is never announced depends on what
replicas remember, and on incident ids never being used twice while remembered.
Tenants stay apart because the channels of a routing are of the monitor's tenant
when they are inserted and no tenant of either changes. For the refinement each
action is mapped to a step of the ledger or to a stutter: `SweepItem` to `Pages`,
which is why `Outages!Pages` needs the incident unplanned, and `AnnounceInv`
provides it; a deletion to `Forgets` or `Disconnects`, which needs the cascades.

`NoMonitorGoesSilent` (`Spec => FallsBackToAllChannels`) and
`RecoveriesReachTheRightPeople` (`Spec => RecoveryReachesPagedChannels`) are about
single steps: only opening, resolving and sweeping announce anything
(`WhoAnnounces`), and the step that marks an incident notified queues its rows and
leaves alone what the choice of channels depends on (`MarkedAsItIsQueued`).

`NotifierProofs`:

* `SentMeansDelivered`: `Spec => []SentWasDelivered`. The inductive invariant
  `SentInv` adds that a success a replica has not recorded yet was a delivery, and
  that no replica remembers a fresh id. It says nothing of attempts: stale counts
  cannot make an undelivered row sent.
* `DuplicatesHaveACause` (`Spec => []DuplicatesNeedACause`) and `SettledIsFinal`
  (`Spec => SettledRowsStaySettled`) from `HeldInv`: a row that two replicas hold is
  known to be `shared`, one that a single replica holds has not been settled by
  another (`Exclusive`), and a row never shared was delivered at most once per fault,
  and once more when it is settled or about to be (`Counted`). The line and the
  batches hold each row once (`HeldTypes`), or one replica would share with itself.
* `GivenUpAfterMaxAttempts`: `Spec => []AttemptsAreBounded`, because a copy was made
  of a row that was due, and its count is written plus one (`AttemptsInv`).

* `OneReplicaRepeatsOnlyWhatWasLost`: with one replica nothing is ever `shared`, so
  that a notification is delivered at most once, and once more for each crash, lost
  answer or lost `UPDATE`, and settled rows are final without exception. With the
  run `handed` it says that several replicas, which the claim does not keep apart,
  are the whole cause of the other duplicates.
* `TypeCorrect`: `Spec => []TypeOK`. What is hard in it is that the line is exactly the
  rows that are due, each once, while replicas settle and postpone rows they took
  from it: `HeldTypes` says that the line holds due rows only, `TableInv` that it
  holds all of them, and a row that becomes due joins its end, wherever it was
  before. A row that failed must wait, or it would be due without being in the
  line: its backoff `2 ^ (attempts - 1)` is not zero (`BackoffIsPositive`), which the
  provers, who know no powers, are shown by counting subsets.

`CheckPipelineProofs`:

* `TypeCorrect`: `Spec => []TypeOK`. The agenda holds monitors that exist, none
  twice (`RestOfAgenda`: what a claim or a deletion leaves of it is as it was), and
  exactly they have results: a result saved for a monitor that was deleted
  meanwhile would break it.
* `DueOnceCheckedOnce`: `Spec => []OneCheckPerDueInstant`. The inductive `InFlight`
  adds that a monitor on the agenda has room for one check more: a claim takes it
  off the agenda in the statement that returns it, and afterwards a copy only moves
  from a scheduler to the queue to a worker, or is lost. That a claim is one
  statement, which moves the rows it returns, is what it rests on.

About `Monitoring`, at the end of `AlertingProofs`, which extends it and has the
proofs about the pipeline as the instance `PP`:

* `MonitoringImplementsPipeline` and `MonitoringImplementsAlerting`: every step of
  the composed system is a step of the component or leaves it alone. The second
  rests on the first, and on the type of what workers hold: a check names a monitor
  and an outcome, although the monitor may be gone.
* What holds of the components therefore holds of the system, with any number of
  schedulers and workers that apply results late, out of order or not at all:
  `DueOnceCheckedOnceBySystem`, `OutagesAreRecordedOnceBySystem`,
  `SystemImplementsOutages` (the refinement), and `AlertsAreRightInTheSystem` for
  the other properties of `Alerting`.
* `ComponentsAgreeOnMonitors`: both components keep rows of the same monitors, the
  one its status, the other its schedule, which in the code are columns of one row.

`TeamsProofs`:

* `TypeCorrect`: foreign keys, one account per address, and no acceptance without
  its invitation, whose lock is what keeps a deletion away.
* `TenantsAreOwned`: `Spec => []AlwaysAnOwner`. Only `ChangeRole` can take the
  role from an owner, and then the target, in the same tenant, has it at the
  commit. It holds whatever the tokens say.
* `TransfersAreClean`: `Spec => TransfersKeepOneOwner`. If the tokens are true
  the caller is the only owner (`Single`), steps down, and the target is the only
  one. Together with `two_owners` it says that stale tokens are the whole cause.
* `SeatsFitThePlan`: `Spec => SeatsStayWithinPlan`. Only an invitation promises a
  seat more, and it counts the others first, but for those that expired while they
  were being accepted (`InvitesFitThePlan`); accepting one turns a promised seat into
  a taken one (`AcceptingTakesNoMore`). The cardinalities need `SeatsInv`, that there
  are finitely many invitations and that none is accepted twice.

`BillingProofs`:

* `TypeCorrect`, `PlansAreBought` (`Spec => []PlansWereBought`),
  `PlansAreNotRevoked` (`Spec => PaidForIsNotRevoked`) and
  `DeletionsCancelFirst` (`Spec => DeletionCancelsFirst`) from the inductive
  `BillInv`: besides `TypeOK` and `PlansWereBought` it holds what requests refer
  to (`References`), and that an end at Stripe, once announced or relied on by a
  deletion, is the end (`EndsAreTrue`). A statement that takes a plan away is of an
  `ended` event for the tracked subscription, and that one is true, or would be of
  a `lapsed` one (`ApplyRevokes`, which covers the statement the database refuses).
* `DuplicatesAreNoOps` (`Spec => []EventsAreHandledOnce`) and `DropsHaveACause`
  (`Spec => []DroppedOnlyWithCause`) from `RecordInv`: a recorded event is being
  handled, took effect, was abandoned or was overlooked.

`RetentionProofs`: `TypeCorrect`, `ResultsAreSummarised` (`Spec => []NothingIsLost`),
`TodayIsShown` (`Spec => []TodayIsLive`) and `RollupIsRepeatable`
(`Spec => SameNumbersAgain`). The inductive invariant has two parts. `RowsInv`
relates the tables to the progress: a summary is of a day that is over, results
ahead of the progress are in the table or were deleted early, and a summary ahead
of the progress has all of them, but for those. `PassInv` relates a pass to what it
has read: the progress has not moved since, after the `INSERT` every result of a
day that was over is accounted for, and a prune without faults follows a rollup of
the same pass, so that what it deletes is behind the progress
(`ExpiredIsBehind`, which is where periods longer than a pass are needed).

`AuthTokensProofs`: `TypeCorrect`, `LinksWorkOnce`, `LinksDieWithThePassword`,
`OldLinksDie` and `VerificationsStick`, each of an invariant of the run. Two open
transactions never hold the same link (`LocksAreDisjoint`), and what one holds is
unspent until its commit, so a commit spends links that nobody else has claimed.
`LinksOfResets` and `LinksOfChanges` say what is true between the statements: once
a reset has voided the others, every link of the user that is alive is held by it
or was requested since, and between the two statements of a change every link is
older than the password or was requested since.

`CertificatesProofs`: `TypeCorrect`, `WarnsOnce` (`Spec => []OneWarningPerCertificate`)
and `MarksAreEarned` (`Spec => []MarkedMeansWarned`). For a warning without an
excuse, at most one replica has it in hand (`OneHolder`), it was mailed to nobody
before it is the item and to nobody still to be mailed while it is
(`NotYet`, `Underway`), and once mailed it is in hand, or the monitor remembers it,
or the monitor is gone (`Remembered`). It follows that a warning that is selected
again has an excuse.

Only model-checked: liveness (`DelayedAlertsAreSent`, `EveryRowSettles`,
`EnabledMonitorsAreChecked`, `StatusFollowsTarget`, `CatchesUp`, `RequestsEnd`,
`CertificatesAreFollowed`, `WarningsGoOut`), which TLAPS does not reach. Every
invariant and every action property of the passing runs is proved.

## 5. Plan

Written: `Alerting` with `Outages`, `Notifier`, `CheckPipeline`, `Monitoring`,
`Teams`, `Billing`, `Retention`, `AuthTokens`, `Certificates`, and proofs about
each; those about `Monitoring` are in `AlertingProofs`.
What would come next, in order of importance:

1. `Delivery`: `Alerting` and `Notifier` over the shared table, for the order of
   the page and the all-clear of one outage.
2. `PlanLimits`: the limits on monitors, channels and intervals beside upgrades and
   downgrades; `Routing`, statement by statement.

## 6. Not modelled

* Probes beyond their answer and the certificate they learn: network I/O, matching
  of bodies, and the validation of addresses (parsing).
* The rate limiter, one counter in Redis for an address and a minute: it decides
  nothing about the state the other parts keep.
* The status page and the list handlers but for the daily bars: they only read.
* Messages: wording and layout of mails and Slack blocks, SMTP and HTTP exchanges.
  Whether a message is taken, and whether the answer arrives, is modelled.
* Columns nothing decides on: `deletion_log`, `subscription_status`,
  `rows_deleted`, `last_run_at`.
* Process plumbing, metrics, middleware, frontends, infrastructure, and the script
  that provisions Stripe, which is run once, by hand.
