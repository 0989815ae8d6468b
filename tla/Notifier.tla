------------------------------ MODULE Notifier ------------------------------
(***************************************************************************)
(* apps/notifier: drain claims due rows of the notifications table, sends  *)
(* each one and writes down what happened.                                 *)
(*                                                                         *)
(* Every statement commits on its own.  The claim is a SELECT: the row     *)
(* locks of FOR UPDATE SKIP LOCKED last as long as that statement, and the *)
(* row it leaves behind is still pending.  Between the claim and the       *)
(* UPDATE a replica works from the copy of the row it read.                *)
(***************************************************************************)
EXTENDS Integers, Sequences, FiniteSets, SequencesExt

CONSTANTS
    Ids,            \* notification ids
    Notifiers,      \* replicas of the notifier
    Limit,          \* rows claimed at once (50 in the code)
    maxAttempts,    \* attempts after which a row is dead (6 in the code)
    MaxFaults,      \* bound: crashes, lost UPDATEs and lost acknowledgements
    MaxDelivered    \* bound: deliveries of a notification counted

ASSUME NotifierAssumption ==
    /\ Limit \in Nat \ {0}
    /\ maxAttempts \in Nat \ {0}
    /\ MaxFaults \in Nat
    /\ MaxDelivered \in Nat \ {0}

VARIABLES
    rows,       \* notifications: id -> [status, attempts, wait]
    line,       \* the due rows, in the order of next_try_at
    jobs,       \* replica -> copies of the rows it claimed and has not sent yet
    sending,    \* replica -> the row it has sent and not recorded yet
    delivered,  \* history: how often the provider accepted the notification
    shared,     \* history: rows that two replicas held at the same time
    faults      \* history: faults so far

vars == <<rows, line, jobs, sending, delivered, shared, faults>>

\* wait: minutes from now() to next_try_at.
Row == [status : {"pending", "failed", "sent", "dead"}, attempts : Nat, wait : Nat]
Job == [id : Ids, attempts : Nat]
Outcome == [id : Ids, attempts : Nat, ok : BOOLEAN]

-----------------------------------------------------------------------------

NewRow == [status |-> "pending", attempts |-> 0, wait |-> 0]

\* Exponential backoff, in minutes; attempts counts the failure being recorded.
Backoff(attempts) == 2 ^ (attempts - 1)

Copies(r) == ToSet(jobs[r]) \cup sending[r]

\* Ids are never used twice: a fresh one is of no row and of no copy.
FreshIds ==
    Ids \ (DOMAIN rows \cup {j.id : j \in UNION {Copies(r) : r \in Notifiers}})

Unsettled == {n \in DOMAIN rows : rows[n].status \in {"pending", "failed"}}
Due == {n \in Unsettled : rows[n].wait = 0}

-----------------------------------------------------------------------------
(* The rest of the system: rows are queued, and deleted by cascade. *)

Queue(n) ==
    /\ n \in FreshIds
    /\ rows' = [k \in DOMAIN rows \cup {n} |-> IF k = n THEN NewRow ELSE rows[k]]
    /\ line' = Append(line, n)
    /\ delivered' = [delivered EXCEPT ![n] = 0]
    /\ shared' = shared \ {n}
    /\ UNCHANGED <<jobs, sending, faults>>

Delete(n) ==
    /\ n \in DOMAIN rows
    /\ rows' = [k \in DOMAIN rows \ {n} |-> rows[k]]
    /\ line' = RemoveFirst(line, n)
    /\ UNCHANGED <<jobs, sending, delivered, shared, faults>>

\* now() passes next_try_at of some rows: they join the line.
Minute ==
    /\ \E n \in DOMAIN rows : rows[n].wait > 0
    /\ rows' = [n \in DOMAIN rows |->
                  [rows[n] EXCEPT !.wait = IF @ > 0 THEN @ - 1 ELSE 0]]
    /\ \E joining \in SetToSeqs(Due' \ Due) : line' = line \o joining
    /\ UNCHANGED <<jobs, sending, delivered, shared, faults>>

-----------------------------------------------------------------------------
(* drain, in a replica r. *)

Idle(r) == jobs[r] = <<>> /\ sending[r] = {}

\* The copies a replica makes of the rows it reads.
CopiesOf(batch) ==
    [k \in DOMAIN batch |-> [id |-> batch[k], attempts |-> rows[batch[k]].attempts]]

HeldByOthers(r) == {j.id : j \in UNION {Copies(q) : q \in Notifiers \ {r}}}

\* The first Limit elements of a sequence.
Batch(s) == SubSeq(s, 1, IF Len(s) > Limit THEN Limit ELSE Len(s))

\* Mutant: the line is claimed from its end.
ClaimLatest(r) ==
    /\ Idle(r)
    /\ LET batch == Batch(Reverse(line))
       IN  /\ jobs' = [jobs EXCEPT ![r] = CopiesOf(batch)]
           /\ shared' = shared \cup (ToSet(batch) \cap HeldByOthers(r))
    /\ UNCHANGED <<rows, line, sending, delivered, faults>>

Claim(r) ==
    /\ Idle(r)
    /\ LET batch == Batch(line)
       IN  /\ jobs' = [jobs EXCEPT ![r] = CopiesOf(batch)]
           /\ shared' = shared \cup (ToSet(batch) \cap HeldByOthers(r))
    /\ UNCHANGED <<rows, line, sending, delivered, faults>>

\* SendEmail or SendSlack: the provider accepts the message or not, and the call
\* returns an error or not.  An error after the message was accepted (the answer
\* is lost) is a fault; success without acceptance does not occur.
Send(r, accepted, ok) ==
    /\ jobs[r] # <<>> /\ sending[r] = {}
    /\ ok => accepted
    /\ faults' = IF accepted /\ ~ok THEN faults + 1 ELSE faults
    /\ faults' <= MaxFaults
    /\ LET j == Head(jobs[r])
       IN  /\ sending' = [sending EXCEPT ![r] =
                 {[id |-> j.id, attempts |-> j.attempts, ok |-> ok]}]
           /\ delivered' = IF accepted /\ delivered[j.id] < MaxDelivered
                             THEN [delivered EXCEPT ![j.id] = @ + 1] ELSE delivered
    /\ jobs' = [jobs EXCEPT ![r] = Tail(@)]
    /\ UNCHANGED <<rows, line, shared>>

\* Mutant: the last attempt is retried like the others.
FailedForever(j) ==
    [status |-> "failed", attempts |-> j.attempts + 1,
     wait |-> Backoff(j.attempts + 1)]

\* The two UPDATEs.  A failure writes the count of the copy, a success increments
\* the column.
Failed(j) ==
    [status   |-> IF j.attempts + 1 >= maxAttempts THEN "dead" ELSE "failed",
     attempts |-> j.attempts + 1,
     wait     |-> Backoff(j.attempts + 1)]

Succeeded(row) == [row EXCEPT !.status = "sent", !.attempts = @ + 1]

\* Mutant: the outcome of the send is not looked at.
RecordAlwaysSent(r) ==
    /\ \E j \in sending[r] :
          /\ rows' = IF j.id \in DOMAIN rows
                       THEN [rows EXCEPT ![j.id] = Succeeded(@)] ELSE rows
          /\ line' = RemoveFirst(line, j.id)
    /\ sending' = [sending EXCEPT ![r] = {}]
    /\ UNCHANGED <<jobs, delivered, shared, faults>>

\* Mutant: a row that was sent is still due.
RecordKeepsDue(r) ==
    /\ \E j \in sending[r] :
          /\ rows' = IF j.id \in DOMAIN rows
                       THEN [rows EXCEPT ![j.id] =
                               IF j.ok THEN Succeeded(@) ELSE Failed(j)]
                       ELSE rows
          /\ line' = IF j.ok THEN line ELSE RemoveFirst(line, j.id)
    /\ sending' = [sending EXCEPT ![r] = {}]
    /\ UNCHANGED <<jobs, delivered, shared, faults>>

\* The row may be gone: the UPDATE then changes nothing.
Record(r) ==
    /\ \E j \in sending[r] :
          /\ rows' = IF j.id \in DOMAIN rows
                       THEN [rows EXCEPT ![j.id] =
                               IF j.ok THEN Succeeded(@) ELSE Failed(j)]
                       ELSE rows
          /\ line' = RemoveFirst(line, j.id)
    /\ sending' = [sending EXCEPT ![r] = {}]
    /\ UNCHANGED <<jobs, delivered, shared, faults>>

\* The error of the UPDATE is discarded and the loop goes on.
RecordFails(r) ==
    /\ sending[r] # {}
    /\ sending' = [sending EXCEPT ![r] = {}]
    /\ faults' = faults + 1 /\ faults' <= MaxFaults
    /\ UNCHANGED <<rows, line, jobs, delivered, shared>>

\* The process dies, between any two steps, and is started again.
Crash(r) ==
    /\ ~Idle(r)
    /\ jobs' = [jobs EXCEPT ![r] = <<>>]
    /\ sending' = [sending EXCEPT ![r] = {}]
    /\ faults' = faults + 1 /\ faults' <= MaxFaults
    /\ UNCHANGED <<rows, line, delivered, shared>>

-----------------------------------------------------------------------------

Init ==
    /\ rows = [n \in {} |-> NewRow]
    /\ line = <<>>
    /\ jobs = [r \in Notifiers |-> <<>>]
    /\ sending = [r \in Notifiers |-> {}]
    /\ delivered = [n \in Ids |-> 0]
    /\ shared = {}
    /\ faults = 0

Sends(r) == \E accepted, ok \in BOOLEAN : Send(r, accepted, ok)

Drain(r) ==
    Claim(r) \/ Sends(r) \/ Record(r) \/ RecordFails(r) \/ Crash(r)

Next ==
    \/ \E n \in Ids : Queue(n) \/ Delete(n)
    \/ Minute
    \/ \E r \in Notifiers : Drain(r)

Spec == Init /\ [][Next]_vars

\* Minutes pass, and every replica keeps draining: claiming, sending what it
\* claimed and recording what it sent.
Fairness ==
    /\ WF_vars(Minute)
    /\ \A r \in Notifiers :
          WF_vars(Claim(r)) /\ WF_vars(Sends(r)) /\ WF_vars(Record(r))

FairSpec == Spec /\ Fairness

-----------------------------------------------------------------------------
(* Properties. *)

(* A row is given up after maxAttempts attempts and not before, although a     *)
(* replica writes the count of its copy over whatever another one has written  *)
(* since.                                                                      *)
AttemptsAreBounded ==
    \A n \in DOMAIN rows :
        /\ n \in Unsettled => rows[n].attempts < maxAttempts
        /\ rows[n].status = "dead" => rows[n].attempts = maxAttempts

(* The line holds the due rows once each, and attempts stay within bounds. *)
TypeOK ==
    /\ rows \in [DOMAIN rows -> Row] /\ DOMAIN rows \subseteq Ids
    /\ AttemptsAreBounded
    /\ ToSet(line) = Due /\ IsInjective(line)
    /\ \A r \in Notifiers : ToSet(jobs[r]) \subseteq Job
    /\ sending \in [Notifiers -> SUBSET Outcome]
    /\ \A r \in Notifiers : \A j, k \in sending[r] : j = k
    /\ delivered \in [Ids -> 0..MaxDelivered]
    /\ shared \subseteq Ids
    /\ faults \in 0..MaxFaults

(* A row is marked sent only if a provider accepted the notification, however  *)
(* many replicas wrote to it and whatever they lost.                           *)
SentWasDelivered ==
    \A n \in DOMAIN rows : rows[n].status = "sent" => delivered[n] >= 1

(* A notification goes out twice only when something was lost between the      *)
(* provider and the table, or when two replicas held the row at the same time. *)
DuplicatesNeedACause ==
    \A n \in Ids : delivered[n] > 1 + faults => n \in shared

(* A row that was sent or given up is never written again, but by a replica    *)
(* that read it before that and held it together with the one that settled it. *)
SettledRowsStaySettled ==
    [][\A n \in DOMAIN rows \ (Unsettled \cup shared) :
          n \in DOMAIN rows' =>
              /\ rows'[n].status = rows[n].status
              /\ rows'[n].attempts = rows[n].attempts]_vars

(* Every queued notification is eventually sent, given up as dead, or deleted  *)
(* with its incident or channel, in spite of crashes, lost UPDATEs and stale   *)
(* writes of another replica, and however many newer rows compete for LIMIT.   *)
EveryRowSettles == \A n \in Ids : n \in Unsettled ~> n \notin Unsettled

(* "FOR UPDATE SKIP LOCKED lets several notifier replicas drain the same table *)
(* without ever handing the same row to two of them" (drain).                  *)
NoRowHandedToTwo ==
    \A r, q \in Notifiers : r # q =>
        \A j \in Copies(r), k \in Copies(q) : j.id # k.id
=============================================================================
