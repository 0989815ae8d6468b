---------------------------- MODULE NotifierProofs ----------------------------
(* What the table of notifications says was sent was sent, how often a row  *)
(* can go out and be tried, and when a settled row can change: for any       *)
(* number of replicas, rows and faults.                                      *)
EXTENDS Notifier, SequenceTheorems, FiniteSetTheorems, TLAPS

(* A success that a replica has not recorded yet was a delivery: it may      *)
(* become the status of the row.  A fresh id is of no such copy, so that     *)
(* queueing a row, which starts a new history, takes nothing from it.        *)
SentInv ==
    /\ DOMAIN rows \subseteq Ids
    /\ \A n \in DOMAIN rows : "status" \in DOMAIN rows[n]
    /\ delivered \in [Ids -> Nat]
    /\ DOMAIN sending = Notifiers
    /\ SentWasDelivered
    /\ \A r \in Notifiers : \A j \in sending[r] :
          j.id \in Ids /\ j.ok => delivered[j.id] >= 1

LEMMA SentStep == SentInv /\ [Next]_vars => SentInv'
<1> SUFFICES ASSUME SentInv, [Next]_vars PROVE SentInv'
  OBVIOUS
<1> USE DEF SentInv, SentWasDelivered
<1>1. CASE UNCHANGED vars
  BY <1>1 DEF vars
<1>2. ASSUME NEW n \in Ids, Queue(n) PROVE SentInv'
  <2>1. n \notin DOMAIN rows
    BY <1>2 DEF Queue, FreshIds
  <2>2. \A r \in Notifiers : \A j \in sending[r] : j.id # n
    BY <1>2 DEF Queue, FreshIds, Copies
  <2>3. rows' = [k \in DOMAIN rows \cup {n} |-> IF k = n THEN NewRow ELSE rows[k]]
        /\ delivered' = [delivered EXCEPT ![n] = 0] /\ sending' = sending
    BY <1>2 DEF Queue
  <2>4. NewRow.status = "pending" /\ "status" \in DOMAIN NewRow
    BY DEF NewRow
  <2> QED BY <2>1, <2>2, <2>3, <2>4
<1>3. ASSUME NEW n \in Ids, Delete(n) PROVE SentInv'
  BY <1>3 DEF Delete
<1>4. CASE Minute
  <2>1. rows' = [n \in DOMAIN rows |->
                  [rows[n] EXCEPT !.wait = IF @ > 0 THEN @ - 1 ELSE 0]]
        /\ delivered' = delivered /\ sending' = sending
    BY <1>4 DEF Minute
  <2>2. \A n \in DOMAIN rows : "status" \in DOMAIN rows'[n]
                               /\ rows'[n].status = rows[n].status
    BY <2>1
  <2> QED BY <2>1, <2>2
<1>5. ASSUME NEW r \in Notifiers, Claim(r) \/ RecordFails(r) \/ Crash(r) PROVE SentInv'
  BY <1>5 DEF Claim, RecordFails, Crash
<1>6. ASSUME NEW r \in Notifiers, NEW accepted \in BOOLEAN, NEW ok \in BOOLEAN,
             Send(r, accepted, ok)
      PROVE SentInv'
  <2> DEFINE j == Head(jobs[r])
             o == [id |-> j.id, attempts |-> j.attempts, ok |-> ok]
  <2>1. ok => accepted
    BY <1>6 DEF Send
  <2>2. rows' = rows /\ sending' = [sending EXCEPT ![r] = {o}]
    BY <1>6 DEF Send
  <2>3. delivered' = IF accepted /\ delivered[j.id] < MaxDelivered
                       THEN [delivered EXCEPT ![j.id] = @ + 1] ELSE delivered
    BY <1>6 DEF Send
  <2> HIDE DEF j
  <2>4. delivered' \in [Ids -> Nat] /\ \A n \in Ids : delivered'[n] >= delivered[n]
    <3>1. CASE delivered' = delivered
      BY <3>1
    <3>2. CASE j.id \in Ids /\ delivered' = [delivered EXCEPT ![j.id] = delivered[j.id] + 1]
      <4>1. delivered[j.id] + 1 \in Nat
        BY <3>2
      <4> QED BY <3>2, <4>1
    <3>3. CASE j.id \notin Ids /\ delivered' = [delivered EXCEPT ![j.id] = delivered[j.id] + 1]
      <4>1. delivered' = delivered
        BY <3>3
      <4> QED BY <4>1
    <3> QED BY <2>3, <3>1, <3>2, <3>3
  <2>5. j.id \in Ids /\ ok => delivered'[j.id] >= 1
    BY <2>1, <2>3, NotifierAssumption
  <2> QED BY <2>2, <2>4, <2>5
<1>7. ASSUME NEW r \in Notifiers, Record(r) PROVE SentInv'
  <2>1. PICK j \in sending[r] :
          rows' = IF j.id \in DOMAIN rows
                    THEN [rows EXCEPT ![j.id] =
                            IF j.ok THEN Succeeded(rows[j.id]) ELSE Failed(j)]
                    ELSE rows
    BY <1>7 DEF Record
  <2>2. delivered' = delivered /\ sending' = [sending EXCEPT ![r] = {}]
    BY <1>7 DEF Record
  <2>3. Failed(j).status # "sent" /\ "status" \in DOMAIN Failed(j)
    BY DEF Failed
  <2>4. \A row : DOMAIN Succeeded(row) = DOMAIN row
    BY DEF Succeeded
  <2>5. DOMAIN rows' = DOMAIN rows /\ \A n \in DOMAIN rows : "status" \in DOMAIN rows'[n]
    BY <2>1, <2>3, <2>4
  <2>6. \A n \in DOMAIN rows : rows'[n].status = "sent" => delivered[n] >= 1
    <3>1. CASE j.id \in DOMAIN rows /\ ~j.ok
      BY <3>1, <2>1, <2>3
    <3>2. CASE j.id \in DOMAIN rows /\ j.ok
      BY <3>2, <2>1
    <3>3. CASE j.id \notin DOMAIN rows
      BY <3>3, <2>1
    <3> QED BY <3>1, <3>2, <3>3
  <2> QED BY <2>2, <2>5, <2>6
<1> QED BY <1>1, <1>2, <1>3, <1>4, <1>5, <1>6, <1>7 DEF Next, Drain, Sends

(* A row is marked sent only if a provider accepted the notification,        *)
(* however many replicas write to it and whatever they lose.                 *)
THEOREM SentMeansDelivered == Spec => []SentWasDelivered
<1>1. Init => SentInv
  BY DEF Init, SentInv, SentWasDelivered
<1>2. SentInv => SentWasDelivered
  BY DEF SentInv
<1> QED BY <1>1, <1>2, SentStep, PTL DEF Spec

-----------------------------------------------------------------------------
(* The line of due rows. *)

(* Where the elements of a concatenation come from. *)
LEMMA Concatenation ==
    ASSUME NEW S, NEW a \in Seq(S), NEW b \in Seq(S)
    PROVE  /\ a \o b \in Seq(S) /\ Len(a \o b) = Len(a) + Len(b)
           /\ DOMAIN (a \o b) = 1 .. Len(a \o b)
           /\ \A k \in 1 .. Len(a \o b) :
                 (a \o b)[k] = IF k <= Len(a) THEN a[k] ELSE b[k - Len(a)]
BY ConcatProperties

(* Removing an element from a sequence without repetitions leaves the others. *)
LEMMA RemoveFirstLeavesTheRest ==
    ASSUME NEW S, NEW s \in Seq(S), IsInjective(s), NEW e
    PROVE  LET t == RemoveFirst(s, e)
           IN  t \in Seq(S) /\ IsInjective(t) /\ ToSet(t) = ToSet(s) \ {e}
<1> DEFINE t == RemoveFirst(s, e)
<1>1. CASE ~\E i \in 1 .. Len(s) : s[i] = e
  <2>1. t = s
    BY <1>1 DEF RemoveFirst
  <2>2. e \notin ToSet(s)
    BY <1>1 DEF ToSet
  <2>3. QED
    BY <2>1, <2>2
<1>2. CASE \E i \in 1 .. Len(s) : s[i] = e
  <2>1. PICK i \in 1 .. Len(s) : s[i] = e
    BY <1>2
  <2>2. {k \in 1 .. Len(s) : s[k] = e} = {i}
    BY <2>1 DEF IsInjective
  <2>3. SelectInSeq(s, LAMBDA v : v = e) = i
    <3>1. Min({i}) = i
      BY <2>1 DEF Min
    <3>2. QED
      BY <2>2, <3>1 DEF SelectInSeq
  <2>4. t = SubSeq(s, 1, i - 1) \o SubSeq(s, i + 1, Len(s))
    BY <1>2, <2>3 DEF RemoveFirst, RemoveAt
  <2> DEFINE a == SubSeq(s, 1, i - 1)
             b == SubSeq(s, i + 1, Len(s))
  <2>5. /\ a \in Seq(S) /\ Len(a) = i - 1 /\ \A k \in 1 .. Len(a) : a[k] = s[k]
        /\ b \in Seq(S) /\ Len(b) = Len(s) - i /\ \A k \in 1 .. Len(b) : b[k] = s[k + i]
    BY <2>1
  <2> HIDE DEF a, b
  <2>6. /\ t \in Seq(S) /\ Len(t) = Len(s) - 1 /\ DOMAIN t = 1 .. Len(t)
        /\ \A k \in 1 .. Len(t) : t[k] = IF k < i THEN s[k] ELSE s[k + 1]
    <3>1. t = a \o b
      BY <2>4 DEF a, b
    <3> HIDE DEF t
    <3>2. /\ t \in Seq(S) /\ Len(t) = Len(a) + Len(b) /\ DOMAIN t = 1 .. Len(t)
          /\ \A k \in 1 .. Len(t) : t[k] = IF k <= Len(a) THEN a[k] ELSE b[k - Len(a)]
      <4>1. a \in Seq(S) /\ b \in Seq(S)
        BY <2>5
      <4>2. /\ a \o b \in Seq(S) /\ Len(a \o b) = Len(a) + Len(b)
            /\ DOMAIN (a \o b) = 1 .. Len(a \o b)
            /\ \A k \in 1 .. Len(a \o b) :
                  (a \o b)[k] = IF k <= Len(a) THEN a[k] ELSE b[k - Len(a)]
        BY <4>1, Concatenation, Zenon
      <4>3. QED
        BY <3>1, <4>2
    <3>3. ASSUME NEW k \in 1 .. Len(t) PROVE t[k] = IF k < i THEN s[k] ELSE s[k + 1]
      <4>1. CASE k < i
        BY <2>1, <2>5, <3>2, <4>1
      <4>2. CASE k >= i
        <5>1. /\ i \in Nat /\ Len(s) \in Nat /\ k \in Nat
              /\ Len(a) = i - 1 /\ Len(b) = Len(s) - i /\ k <= Len(a) + Len(b)
          BY <2>1, <2>5, <3>2
        <5>2. /\ k - Len(a) \in 1 .. Len(b) /\ k - Len(a) + i = k + 1
              /\ ~(k <= Len(a)) /\ ~(k < i)
          BY <4>2, <5>1
        <5>3. t[k] = b[k - Len(a)]
          BY <3>2, <5>2
        <5>4. b[k - Len(a)] = s[k - Len(a) + i]
          BY <2>5, <5>2
        <5>5. QED
          BY <5>2, <5>3, <5>4
      <4>3. QED
        BY <2>1, <4>1, <4>2
    <3>4. Len(t) = Len(s) - 1
      <4>1. Len(s) \in Nat /\ i \in Nat
        BY <2>1
      <4>2. QED
        BY <2>5, <3>2, <4>1
    <3>5. QED
      BY <3>2, <3>3, <3>4
  <2> HIDE DEF t
  <2>7. IsInjective(t)
    BY <2>1, <2>6 DEF IsInjective
  <2>8. ToSet(t) \subseteq ToSet(s) \ {e}
    <3>1. ASSUME NEW k \in 1 .. Len(t)
          PROVE  \E j \in 1 .. Len(s) : j # i /\ t[k] = s[j]
      <4>1. CASE k < i
        BY <2>1, <2>6, <4>1
      <4>2. CASE ~(k < i)
        <5>1. k + 1 \in 1 .. Len(s) /\ k + 1 # i
          BY <2>1, <2>6, <4>2
        <5>2. QED
          BY <2>6, <4>2, <5>1
      <4>3. QED
        BY <4>1, <4>2
    <3>2. \A j \in 1 .. Len(s) : j # i => s[j] # e
      BY <2>1 DEF IsInjective
    <3>3. ASSUME NEW k \in 1 .. Len(t) PROVE t[k] \in ToSet(s) \ {e}
      <4>1. PICK j \in 1 .. Len(s) : j # i /\ t[k] = s[j]
        BY <3>1
      <4>2. QED
        BY <3>2, <4>1 DEF ToSet
    <3>4. QED
      BY <2>6, <3>3 DEF ToSet
  <2>9. ASSUME NEW k \in 1 .. Len(s), s[k] # e PROVE s[k] \in ToSet(t)
    <3>1. CASE k < i
      <4>1. k \in 1 .. Len(t) /\ t[k] = s[k]
        BY <2>1, <2>6, <3>1
      <4>2. QED
        BY <2>6, <4>1 DEF ToSet
    <3>2. CASE k > i
      <4>1. k - 1 \in 1 .. Len(t) /\ t[k - 1] = s[k]
        BY <2>1, <2>6, <3>2
      <4>2. QED
        BY <2>6, <4>1 DEF ToSet
    <3>3. QED
      BY <2>1, <2>9, <3>1, <3>2
  <2>10. ToSet(t) = ToSet(s) \ {e}
    <3>1. ASSUME NEW x \in ToSet(s) \ {e} PROVE x \in ToSet(t)
      <4>1. PICK k \in 1 .. Len(s) : s[k] = x
        BY <3>1 DEF ToSet
      <4>2. QED
        BY <2>9, <3>1, <4>1
    <3>2. QED
      BY <2>8, <3>1
  <2>11. QED
    BY <2>6, <2>7, <2>10 DEF t
<1>3. QED
  BY <1>1, <1>2

(* What joins the line is not in it yet. *)
LEMMA JoiningKeepsTheLine ==
    ASSUME NEW S, NEW s \in Seq(S), IsInjective(s),
           NEW D \in SUBSET S, IsFiniteSet(D), ToSet(s) \cap D = {}, NEW j \in SetToSeqs(D)
    PROVE  s \o j \in Seq(S) /\ IsInjective(s \o j) /\ ToSet(s \o j) = ToSet(s) \cup D
<1>1. Cardinality(D) \in Nat
  BY FS_CardinalityType
<1>2. /\ j \in [1 .. Cardinality(D) -> D]
      /\ \A k, l \in 1 .. Cardinality(D) : k # l => j[k] # j[l]
  BY DEF SetToSeqs
<1>3. j \in Seq(S) /\ Len(j) = Cardinality(D) /\ DOMAIN j = 1 .. Len(j) /\ IsInjective(j)
      /\ \A k \in DOMAIN j : j[k] \in D
  BY <1>1, <1>2 DEF IsInjective
<1> DEFINE t == s \o j
<1>4. /\ t \in Seq(S) /\ Len(t) = Len(s) + Len(j) /\ DOMAIN t = 1 .. Len(t)
      /\ \A k \in 1 .. Len(t) : t[k] = IF k <= Len(s) THEN s[k] ELSE j[k - Len(s)]
  BY <1>3, Concatenation
<1> HIDE DEF t
<1>5. DOMAIN s = 1 .. Len(s) /\ Len(s) \in Nat /\ Len(j) \in Nat
  BY <1>3
<1>6. ASSUME NEW k \in DOMAIN t
      PROVE  \/ k \in DOMAIN s /\ t[k] = s[k] /\ t[k] \in ToSet(s)
             \/ k - Len(s) \in DOMAIN j /\ k > Len(s) /\ t[k] = j[k - Len(s)] /\ t[k] \in D
  BY <1>3, <1>4, <1>5 DEF ToSet
<1>7. ASSUME NEW k \in DOMAIN t, NEW l \in DOMAIN t, t[k] = t[l] PROVE k = l
  <2>1. CASE k \in DOMAIN s /\ t[k] = s[k] /\ t[k] \in ToSet(s)
    <3>1. l \in DOMAIN s /\ t[l] = s[l]
      BY <1>6, <1>7, <2>1
    <3>2. QED
      BY <1>7, <2>1, <3>1 DEF IsInjective
  <2>2. CASE k - Len(s) \in DOMAIN j /\ k > Len(s) /\ t[k] = j[k - Len(s)] /\ t[k] \in D
    <3>1. l - Len(s) \in DOMAIN j /\ t[l] = j[l - Len(s)]
      BY <1>6, <1>7, <2>2
    <3>2. k - Len(s) = l - Len(s)
      BY <1>3, <1>7, <2>2, <3>1 DEF IsInjective
    <3>3. QED
      BY <1>4, <1>5, <3>2
  <2>3. QED
    BY <1>6, <2>1, <2>2
<1>8. ToSet(t) \subseteq ToSet(s) \cup D
  BY <1>6 DEF ToSet
<1>9. \A d \in D : \E k \in DOMAIN j : j[k] = d
  <2>1. j \in Injection(1 .. Cardinality(D), D)
    BY <1>2 DEF Injection, IsInjective
  <2>2. Cardinality(1 .. Cardinality(D)) = Cardinality(D)
    BY <1>1, FS_Interval
  <2>3. j \in Surjection(1 .. Cardinality(D), D)
    BY <2>1, <2>2, FS_Injection
  <2>4. QED
    BY <1>3, <2>3 DEF Surjection
<1>10. ToSet(s) \cup D \subseteq ToSet(t)
  <2>1. \A k \in DOMAIN s : k \in DOMAIN t /\ t[k] = s[k]
    BY <1>4, <1>5
  <2>2. ASSUME NEW k \in DOMAIN j PROVE k + Len(s) \in DOMAIN t /\ t[k + Len(s)] = j[k]
    <3>1. /\ k \in 1 .. Len(j) /\ k + Len(s) \in 1 .. Len(t)
          /\ ~(k + Len(s) <= Len(s)) /\ k + Len(s) - Len(s) = k
      BY <1>3, <1>4, <1>5
    <3>2. QED
      BY <1>4, <3>1
  <2>3. ToSet(s) \subseteq ToSet(t)
    BY <2>1 DEF ToSet
  <2>4. D \subseteq ToSet(t)
    BY <1>9, <2>2 DEF ToSet
  <2>5. QED
    BY <2>3, <2>4
<1>11. QED
  BY <1>4, <1>7, <1>8, <1>10 DEF t, IsInjective

-----------------------------------------------------------------------------
(* Who holds which rows. *)

\* The rows a replica has claimed and not sent, the one it has sent and not
\* recorded, and both.
Waits(r) == {j.id : j \in ToSet(jobs[r])}
Goes(r) == {j.id : j \in sending[r]}
Holds(r) == Waits(r) \cup Goes(r)

\* A replica knows that the provider took n, and has not recorded it.
Accepted(n) == \E r \in Notifiers : \E j \in sending[r] : j.id = n /\ j.ok

(* The line holds due rows, once each, and so does what a replica claimed. *)
HeldTypes ==
    /\ DOMAIN rows \subseteq Ids /\ IsFiniteSet(DOMAIN rows)
    /\ \A n \in DOMAIN rows : /\ DOMAIN rows[n] = {"status", "attempts", "wait"}
                              /\ rows[n].attempts \in Nat
    /\ line \in Seq(Ids) /\ IsInjective(line) /\ ToSet(line) \subseteq Due
    /\ jobs \in [Notifiers -> Seq(Job)]
    /\ sending \in [Notifiers -> SUBSET Outcome]
    /\ \A r \in Notifiers : \A j, k \in sending[r] : j = k
    /\ \A r \in Notifiers : \A i, k \in DOMAIN jobs[r] :
          jobs[r][i].id = jobs[r][k].id => i = k
    /\ \A r \in Notifiers : Waits(r) \cap Goes(r) = {}
    /\ delivered \in [Ids -> Nat] /\ faults \in Nat

(* A row two replicas hold is known to be shared; one that a single replica *)
(* holds has not been settled by another.                                   *)
Exclusive ==
    /\ \A r, q \in Notifiers : r # q => Holds(r) \cap Holds(q) \subseteq shared
    /\ \A r \in Notifiers : (Holds(r) \cap DOMAIN rows) \ shared \subseteq Unsettled

(* A row that was never shared was delivered at most once per fault, and once  *)
(* more when it is settled or about to be.                                     *)
Counted ==
    \A n \in Ids \ shared :
        /\ delivered[n] <= faults + 1
        /\ ~Accepted(n) /\ (n \in Unsettled \/ \E r \in Notifiers : n \in Waits(r))
              => delivered[n] <= faults

HeldInv == HeldTypes /\ Exclusive /\ Counted

-----------------------------------------------------------------------------
(* What the steps of a replica do to what it holds. *)

LEMMA ClaimHolds ==
    ASSUME HeldTypes, NEW r \in Notifiers, Claim(r)
    PROVE  /\ Waits(r) = {} /\ Goes(r) = {} /\ Waits(r)' \subseteq Due
           /\ jobs' \in [Notifiers -> Seq(Job)]
           /\ \A k \in DOMAIN jobs'[r] : jobs'[r][k].id \in Due
                 /\ jobs'[r][k].attempts = rows[jobs'[r][k].id].attempts
           /\ \A i, k \in DOMAIN jobs'[r] : jobs'[r][i].id = jobs'[r][k].id => i = k
           /\ \A q \in Notifiers \ {r} : jobs'[q] = jobs[q] /\ Waits(q)' = Waits(q)
           /\ \A q \in Notifiers : Goes(q)' = Goes(q)
           /\ shared \subseteq shared'
           /\ \A q \in Notifiers \ {r} : Waits(r)' \cap Holds(q) \subseteq shared'
<1> DEFINE n == IF Len(line) > Limit THEN Limit ELSE Len(line)
           batch == SubSeq(line, 1, n)
<1>1. jobs[r] = <<>> /\ sending[r] = {}
  BY DEF Claim, Idle
<1>2. /\ jobs' = [jobs EXCEPT ![r] = CopiesOf(batch)]
      /\ shared' = shared \cup (ToSet(batch) \cap HeldByOthers(r))
      /\ sending' = sending
  BY DEF Claim, Batch
<1>3. line \in Seq(Ids) /\ n \in Nat /\ n <= Len(line)
  BY NotifierAssumption DEF HeldTypes
<1> HIDE DEF n
<1>4. batch \in Seq(Ids) /\ DOMAIN batch = 1 .. n /\ \A k \in 1 .. n : batch[k] = line[k]
  BY <1>3
<1> HIDE DEF batch
<1>5. \A k \in 1 .. n : batch[k] \in Due
  BY <1>3, <1>4 DEF HeldTypes, ToSet
<1> DEFINE copies == CopiesOf(batch)
<1>6. /\ DOMAIN copies = 1 .. n
      /\ \A k \in 1 .. n : /\ copies[k] = [id |-> batch[k], attempts |-> rows[batch[k]].attempts]
                           /\ copies[k] \in Job /\ copies[k].id = batch[k]
      /\ copies \in Seq(Job)
  <2>1. /\ DOMAIN copies = 1 .. n
        /\ copies = [k \in 1 .. n |-> [id |-> batch[k], attempts |-> rows[batch[k]].attempts]]
    BY <1>4 DEF CopiesOf
  <2>2. \A k \in 1 .. n : [id |-> batch[k], attempts |-> rows[batch[k]].attempts] \in Job
    BY <1>5 DEF HeldTypes, Due, Unsettled, Job
  <2> HIDE DEF copies
  <2>3. copies \in [1 .. n -> Job]
    BY <2>1, <2>2
  <2>4. QED
    BY <1>3, <2>1, <2>2, <2>3
<1> HIDE DEF copies
<1>7. jobs'[r] = copies /\ jobs' \in [Notifiers -> Seq(Job)]
      /\ \A q \in Notifiers \ {r} : jobs'[q] = jobs[q]
  BY <1>2, <1>6 DEF HeldTypes, copies
<1>8. \A i, k \in 1 .. n : batch[i] = batch[k] => i = k
  <2>1. IsInjective(line) /\ DOMAIN line = 1 .. Len(line)
    BY <1>3 DEF HeldTypes
  <2>2. \A i, k \in 1 .. Len(line) : line[i] = line[k] => i = k
    BY <2>1 DEF IsInjective
  <2>3. \A k \in 1 .. n : k \in 1 .. Len(line)
    BY <1>3
  <2>4. QED
    BY <1>4, <2>2, <2>3
<1>9. \A i, k \in DOMAIN copies : copies[i].id = copies[k].id => i = k
  BY <1>6, <1>8
<1>10. Waits(r)' = ToSet(batch)
  BY <1>4, <1>6, <1>7 DEF Waits, ToSet
<1>11. ToSet(batch) \subseteq Due
  BY <1>4, <1>5 DEF ToSet
<1>12. \A q \in Notifiers \ {r} : Holds(q) \subseteq HeldByOthers(r)
  BY DEF Holds, Waits, Goes, HeldByOthers, Copies
<1>13. Waits(r) = {} /\ Goes(r) = {}
  BY <1>1 DEF Waits, Goes, ToSet
<1>14. \A q \in Notifiers : (q # r => Waits(q)' = Waits(q)) /\ Goes(q)' = Goes(q)
  BY <1>2, <1>7 DEF Waits, Goes
<1>15. \A q \in Notifiers \ {r} : Waits(r)' \cap Holds(q) \subseteq shared'
  BY <1>2, <1>10, <1>12
<1>16. \A k \in DOMAIN jobs'[r] : jobs'[r][k].id \in Due
            /\ jobs'[r][k].attempts = rows[jobs'[r][k].id].attempts
  BY <1>5, <1>6, <1>7
<1>17. QED
  BY <1>2, <1>7, <1>9, <1>10, <1>11, <1>13, <1>14, <1>15, <1>16

LEMMA SendHolds ==
    ASSUME HeldTypes, NEW r \in Notifiers, NEW accepted \in BOOLEAN, NEW ok \in BOOLEAN,
           Send(r, accepted, ok)
    PROVE  \E j \in Job :
             /\ j.id \in Waits(r) /\ Goes(r) = {} /\ sending[r] = {}
             /\ sending' = [sending EXCEPT ![r] =
                              {[id |-> j.id, attempts |-> j.attempts, ok |-> ok]}]
             /\ delivered' = IF accepted /\ delivered[j.id] < MaxDelivered
                               THEN [delivered EXCEPT ![j.id] = @ + 1] ELSE delivered
             /\ jobs' \in [Notifiers -> Seq(Job)]
             /\ \A i, k \in DOMAIN jobs'[r] : jobs'[r][i].id = jobs'[r][k].id => i = k
             /\ \A q \in Notifiers \ {r} : jobs'[q] = jobs[q] /\ Waits(q)' = Waits(q)
                                           /\ Goes(q)' = Goes(q)
             /\ Waits(r)' \subseteq Waits(r) \ {j.id} /\ Goes(r)' = {j.id}
<1> DEFINE s == jobs[r]
           j == Head(s)
<1>1. /\ s # <<>> /\ sending[r] = {}
      /\ sending' = [sending EXCEPT ![r] =
                       {[id |-> j.id, attempts |-> j.attempts, ok |-> ok]}]
      /\ delivered' = IF accepted /\ delivered[j.id] < MaxDelivered
                        THEN [delivered EXCEPT ![j.id] = @ + 1] ELSE delivered
      /\ jobs' = [jobs EXCEPT ![r] = Tail(s)]
  BY DEF Send
<1>2. s \in Seq(Job) /\ DOMAIN s = 1 .. Len(s) /\ Len(s) \in Nat
      /\ \A i, k \in DOMAIN s : s[i].id = s[k].id => i = k
  BY DEF HeldTypes
<1> HIDE DEF s
<1>3. /\ 1 \in DOMAIN s /\ j = s[1] /\ j \in Job /\ Tail(s) \in Seq(Job)
      /\ Len(Tail(s)) = Len(s) - 1 /\ DOMAIN Tail(s) = 1 .. Len(Tail(s))
      /\ \A i \in DOMAIN Tail(s) : Tail(s)[i] = s[i + 1] /\ i + 1 \in DOMAIN s /\ i + 1 # 1
  BY <1>1, <1>2
<1> HIDE DEF j
<1>4. /\ jobs'[r] = Tail(s) /\ jobs' \in [Notifiers -> Seq(Job)]
      /\ \A q \in Notifiers \ {r} : jobs'[q] = jobs[q]
      /\ sending'[r] = {[id |-> j.id, attempts |-> j.attempts, ok |-> ok]}
      /\ \A q \in Notifiers \ {r} : sending'[q] = sending[q]
  BY <1>1, <1>3 DEF HeldTypes
<1>5. \A i, k \in DOMAIN Tail(s) : Tail(s)[i].id = Tail(s)[k].id => i = k
  <2>1. ASSUME NEW i \in DOMAIN Tail(s), NEW k \in DOMAIN Tail(s),
               Tail(s)[i].id = Tail(s)[k].id
        PROVE i = k
    <3>1. i + 1 = k + 1
      BY <1>2, <1>3, <2>1
    <3>2. QED
      BY <1>3, <3>1
  <2>2. QED
    BY <2>1
<1>6. j.id \in Waits(r)
  BY <1>3 DEF Waits, ToSet, s
<1>7. Waits(r)' \subseteq Waits(r) \ {j.id}
  <2>1. ASSUME NEW i \in DOMAIN Tail(s)
        PROVE Tail(s)[i].id \in Waits(r) /\ Tail(s)[i].id # j.id
    <3>1. Tail(s)[i] = s[i + 1] /\ i + 1 \in DOMAIN s /\ i + 1 # 1
      BY <1>3
    <3>2. s[i + 1].id # s[1].id
      BY <1>2, <1>3, <3>1
    <3>3. QED
      BY <1>3, <3>1, <3>2 DEF Waits, ToSet, s
  <2>2. Waits(r)' = {Tail(s)[i].id : i \in DOMAIN Tail(s)}
    BY <1>4 DEF Waits, ToSet
  <2>3. QED
    BY <2>1, <2>2
<1>8. Goes(r)' = {j.id} /\ Goes(r) = {}
  <2> DEFINE o == [id |-> j.id, attempts |-> j.attempts, ok |-> ok]
  <2>1. o.id = j.id /\ sending'[r] = {o} /\ sending[r] = {}
    BY <1>1, <1>4
  <2> HIDE DEF o
  <2>2. QED
    BY <2>1 DEF Goes
<1>9. \A q \in Notifiers \ {r} : Waits(q)' = Waits(q) /\ Goes(q)' = Goes(q)
  BY <1>4 DEF Waits, Goes
<1>10. QED
  BY <1>1, <1>3, <1>4, <1>5, <1>6, <1>7, <1>8, <1>9

-----------------------------------------------------------------------------
(* Each step keeps HeldInv. *)

LEMMA ClaimStep == ASSUME HeldInv, NEW r \in Notifiers, Claim(r) PROVE HeldInv'
<1>1. UNCHANGED <<rows, line, sending, delivered, faults>>
  BY DEF Claim
<1>2. /\ Waits(r) = {} /\ Goes(r) = {} /\ Waits(r)' \subseteq Due
      /\ jobs' \in [Notifiers -> Seq(Job)]
      /\ \A i, k \in DOMAIN jobs'[r] : jobs'[r][i].id = jobs'[r][k].id => i = k
      /\ \A q \in Notifiers \ {r} : jobs'[q] = jobs[q] /\ Waits(q)' = Waits(q)
      /\ \A q \in Notifiers : Goes(q)' = Goes(q)
      /\ shared \subseteq shared'
      /\ \A q \in Notifiers \ {r} : Waits(r)' \cap Holds(q) \subseteq shared'
  BY ClaimHolds DEF HeldInv
<1>3. Unsettled' = Unsettled /\ Due' = Due /\ Due \subseteq Unsettled
      /\ \A n : Accepted(n)' = Accepted(n)
  BY <1>1 DEF Unsettled, Due, Accepted
<1>4. HeldTypes'
  <2>1. \A q \in Notifiers : \A i, k \in DOMAIN jobs'[q] :
          jobs'[q][i].id = jobs'[q][k].id => i = k
    BY <1>2 DEF HeldInv, HeldTypes
  <2>2. \A q \in Notifiers : (Waits(q) \cap Goes(q))' = {}
    <3>1. \A q \in Notifiers : Waits(q) \cap Goes(q) = {}
      BY DEF HeldInv, HeldTypes
    <3>2. Goes(r)' = {}
      BY <1>2
    <3>3. \A q \in Notifiers \ {r} : (Waits(q) \cap Goes(q))' = {}
      BY <1>2, <3>1
    <3>4. QED
      BY <3>2, <3>3
  <2>3. QED
    BY <1>1, <1>2, <1>3, <2>1, <2>2 DEF HeldInv, HeldTypes
<1>5. Exclusive'
  <2>1. \A q \in Notifiers \ {r} : Holds(q)' = Holds(q)
    BY <1>2 DEF Holds
  <2>2. Holds(r)' = Waits(r)'
    BY <1>2 DEF Holds
  <2>3. ASSUME NEW p \in Notifiers, NEW q \in Notifiers, p # q
        PROVE Holds(p)' \cap Holds(q)' \subseteq shared'
    <3>1. CASE p = r
      BY <1>2, <2>1, <2>2, <2>3, <3>1
    <3>2. CASE q = r
      BY <1>2, <2>1, <2>2, <2>3, <3>2
    <3>3. CASE p # r /\ q # r
      BY <1>2, <2>1, <2>3, <3>3 DEF HeldInv, Exclusive
    <3>4. QED
      BY <3>1, <3>2, <3>3
  <2>4. ASSUME NEW q \in Notifiers
        PROVE (Holds(q)' \cap DOMAIN rows) \ shared' \subseteq Unsettled
    <3>1. CASE q = r
      BY <1>2, <1>3, <2>2, <3>1
    <3>2. CASE q # r
      <4>1. (Holds(q) \cap DOMAIN rows) \ shared \subseteq Unsettled
        BY DEF HeldInv, Exclusive
      <4>2. QED
        BY <1>2, <2>1, <3>2, <4>1
    <3>3. QED
      BY <3>1, <3>2
  <2>5. QED
    BY <1>1, <1>3, <2>3, <2>4 DEF Exclusive
<1>6. Counted'
  <2>1. ASSUME NEW n \in Ids \ shared' PROVE
          /\ delivered[n] <= faults + 1
          /\ ~Accepted(n) /\ (n \in Unsettled \/ \E q \in Notifiers : n \in Waits(q)')
                => delivered[n] <= faults
    BY <1>2, <1>3, <2>1 DEF HeldInv, Counted
  <2>2. QED
    BY <1>1, <1>3, <2>1 DEF Counted
<1>7. QED
  BY <1>4, <1>5, <1>6 DEF HeldInv

LEMMA SendStep ==
    ASSUME HeldInv, NEW r \in Notifiers, NEW accepted \in BOOLEAN, NEW ok \in BOOLEAN,
           Send(r, accepted, ok)
    PROVE  HeldInv'
<1>1. /\ UNCHANGED <<rows, line, shared>> /\ (ok => accepted)
      /\ faults' = IF accepted /\ ~ok THEN faults + 1 ELSE faults
  BY DEF Send
<1>2. PICK j \in Job :
        /\ j.id \in Waits(r) /\ Goes(r) = {} /\ sending[r] = {}
        /\ sending' = [sending EXCEPT ![r] =
                         {[id |-> j.id, attempts |-> j.attempts, ok |-> ok]}]
        /\ delivered' = IF accepted /\ delivered[j.id] < MaxDelivered
                          THEN [delivered EXCEPT ![j.id] = @ + 1] ELSE delivered
        /\ jobs' \in [Notifiers -> Seq(Job)]
        /\ \A i, k \in DOMAIN jobs'[r] : jobs'[r][i].id = jobs'[r][k].id => i = k
        /\ \A q \in Notifiers \ {r} : jobs'[q] = jobs[q] /\ Waits(q)' = Waits(q)
                                      /\ Goes(q)' = Goes(q)
        /\ Waits(r)' \subseteq Waits(r) \ {j.id} /\ Goes(r)' = {j.id}
  BY SendHolds DEF HeldInv
<1> DEFINE o == [id |-> j.id, attempts |-> j.attempts, ok |-> ok]
<1>3. j.id \in Ids /\ o \in Outcome /\ o.id = j.id /\ o.ok = ok
      /\ sending' = [sending EXCEPT ![r] = {o}]
  BY <1>2 DEF Job, Outcome
<1> HIDE DEF o
<1>4. /\ sending' \in [Notifiers -> SUBSET Outcome] /\ sending'[r] = {o}
      /\ \A q \in Notifiers \ {r} : sending'[q] = sending[q]
  BY <1>3 DEF HeldInv, HeldTypes
<1>5. faults' \in Nat /\ faults <= faults' /\ delivered' \in [Ids -> Nat]
      /\ \A n \in Ids : delivered'[n] <= IF n = j.id /\ accepted THEN delivered[n] + 1
                                          ELSE delivered[n]
  <2>1. faults \in Nat /\ delivered \in [Ids -> Nat]
    BY DEF HeldInv, HeldTypes
  <2>2. CASE delivered' = delivered
    BY <1>1, <2>1, <2>2
  <2>3. CASE accepted /\ delivered' = [delivered EXCEPT ![j.id] = @ + 1]
    BY <1>1, <1>3, <2>1, <2>3
  <2>4. QED
    BY <1>2, <2>2, <2>3
<1>6. Unsettled' = Unsettled /\ Due' = Due
  BY <1>1 DEF Unsettled, Due
<1>7. HeldTypes'
  <2>1. \A q \in Notifiers : \A i, k \in DOMAIN jobs'[q] :
          jobs'[q][i].id = jobs'[q][k].id => i = k
    BY <1>2 DEF HeldInv, HeldTypes
  <2>2. \A q \in Notifiers : (Waits(q) \cap Goes(q))' = {}
    BY <1>2 DEF HeldInv, HeldTypes
  <2>3. \A q \in Notifiers : \A i, k \in sending'[q] : i = k
    <3>1. \A q \in Notifiers : \A i, k \in sending[q] : i = k
      BY DEF HeldInv, HeldTypes
    <3>2. \A i, k \in sending'[r] : i = k
      BY <1>4
    <3>3. QED
      BY <1>4, <3>1, <3>2
  <2>4. QED
    BY <1>1, <1>2, <1>4, <1>5, <1>6, <2>1, <2>2, <2>3 DEF HeldInv, HeldTypes
<1>8. Exclusive'
  <2>1. \A q \in Notifiers : Holds(q)' \subseteq Holds(q)
    BY <1>2 DEF Holds
  <2>2. QED
    BY <1>1, <1>6, <2>1 DEF HeldInv, Exclusive
<1>9. ASSUME NEW n \in Ids \ shared PROVE
        /\ delivered'[n] <= faults' + 1
        /\ ~Accepted(n)' /\ (n \in Unsettled \/ \E q \in Notifiers : n \in Waits(q)')
              => delivered'[n] <= faults'
  <2>1. /\ faults \in Nat /\ faults' \in Nat /\ delivered[n] \in Nat /\ delivered'[n] \in Nat
        /\ delivered[n] <= faults + 1
        /\ ~Accepted(n) /\ (n \in Unsettled \/ \E q \in Notifiers : n \in Waits(q))
              => delivered[n] <= faults
    BY <1>5, <1>9 DEF HeldInv, HeldTypes, Counted
  <2>2. CASE n = j.id
    <3>1. ~Accepted(n)
      <4>1. ASSUME NEW q \in Notifiers, NEW k \in sending[q], k.id = n PROVE FALSE
        <5>1. q # r
          BY <1>2, <4>1
        <5>2. n \in Holds(q) \cap Holds(r)
          BY <1>2, <2>2, <4>1 DEF Holds, Goes
        <5>3. QED
          BY <1>9, <5>1, <5>2 DEF HeldInv, Exclusive
      <4>2. QED
        BY <4>1 DEF Accepted
    <3>2. delivered[n] <= faults
      BY <1>2, <2>1, <2>2, <3>1
    <3>3. CASE accepted /\ ok
      <4>1. Accepted(n)'
        BY <1>3, <1>4, <2>2, <3>3 DEF Accepted
      <4>2. QED
        BY <1>1, <1>5, <2>1, <3>2, <4>1
    <3>4. CASE ~(accepted /\ ok)
      BY <1>1, <1>5, <2>1, <2>2, <3>2, <3>4
    <3>5. QED
      BY <3>3, <3>4
  <2>3. CASE n # j.id
    <3>1. Accepted(n) => Accepted(n)'
      <4>1. ASSUME NEW q \in Notifiers, NEW k \in sending[q], k.id = n, k.ok
            PROVE Accepted(n)'
        <5>1. q # r
          BY <1>2, <4>1
        <5>2. k \in sending'[q]
          BY <1>4, <4>1, <5>1
        <5>3. QED
          BY <4>1, <5>2 DEF Accepted
      <4>2. QED
        BY <4>1 DEF Accepted
    <3>2. \A q \in Notifiers : Waits(q)' \subseteq Waits(q)
      BY <1>2
    <3>3. QED
      BY <1>5, <2>1, <2>3, <3>1, <3>2
  <2>4. QED
    BY <2>2, <2>3
<1>10. Counted'
  BY <1>1, <1>6, <1>9 DEF Counted
<1>11. QED
  BY <1>7, <1>8, <1>10 DEF HeldInv

LEMMA QueueStep == ASSUME HeldInv, NEW n \in Ids, Queue(n) PROVE HeldInv'
<1>1. /\ n \notin DOMAIN rows /\ \A r \in Notifiers : n \notin Holds(r)
      /\ rows' = [k \in DOMAIN rows \cup {n} |-> IF k = n THEN NewRow ELSE rows[k]]
      /\ line' = Append(line, n) /\ delivered' = [delivered EXCEPT ![n] = 0]
      /\ shared' = shared \ {n} /\ UNCHANGED <<jobs, sending, faults>>
  BY DEF Queue, FreshIds, Holds, Waits, Goes, Copies
<1>2. /\ DOMAIN NewRow = {"status", "attempts", "wait"} /\ NewRow.attempts = 0
      /\ NewRow.status = "pending" /\ NewRow.wait = 0
  BY DEF NewRow
<1>3. DOMAIN rows' = DOMAIN rows \cup {n} /\ rows'[n] = NewRow
      /\ \A k \in DOMAIN rows : rows'[k] = rows[k]
  BY <1>1
<1>4. Unsettled' = Unsettled \cup {n} /\ Due' = Due \cup {n}
  BY <1>1, <1>2, <1>3 DEF Unsettled, Due
<1>5. \A r \in Notifiers : Waits(r)' = Waits(r) /\ Goes(r)' = Goes(r) /\ Holds(r)' = Holds(r)
  BY <1>1 DEF Holds, Waits, Goes
<1>6. \A k : Accepted(k)' = Accepted(k)
  BY <1>1 DEF Accepted
<1>7. line' \in Seq(Ids) /\ IsInjective(line') /\ ToSet(line') \subseteq Due'
  <2>1. line \in Seq(Ids) /\ IsInjective(line) /\ ToSet(line) \subseteq Due /\ n \notin ToSet(line)
    BY <1>1 DEF HeldInv, HeldTypes, Due, Unsettled
  <2>2. /\ line' \in Seq(Ids) /\ DOMAIN line' = 1 .. Len(line) + 1 /\ DOMAIN line = 1 .. Len(line)
        /\ \A k \in 1 .. Len(line) : line'[k] = line[k] /\ line'[Len(line) + 1] = n
        /\ Len(line) \in Nat /\ line'[Len(line) + 1] = n
    BY <1>1, <2>1
  <2>3. \A k \in 1 .. Len(line) : line[k] \in ToSet(line)
    BY <2>2 DEF ToSet
  <2>4. IsInjective(line')
    BY <2>1, <2>2, <2>3 DEF IsInjective
  <2>5. ToSet(line') \subseteq ToSet(line) \cup {n}
    BY <2>2, <2>3 DEF ToSet
  <2>6. QED
    BY <1>4, <2>1, <2>2, <2>4, <2>5
<1>8. HeldTypes'
  <2>1. IsFiniteSet(DOMAIN rows')
    BY <1>3, FS_AddElement DEF HeldInv, HeldTypes
  <2>2. \A k \in DOMAIN rows' : DOMAIN rows'[k] = {"status", "attempts", "wait"}
                                /\ rows'[k].attempts \in Nat
    BY <1>2, <1>3 DEF HeldInv, HeldTypes
  <2>3. delivered' \in [Ids -> Nat]
    BY <1>1 DEF HeldInv, HeldTypes
  <2>4. QED
    BY <1>1, <1>3, <1>5, <1>7, <2>1, <2>2, <2>3 DEF HeldInv, HeldTypes
<1>9. Exclusive'
  BY <1>1, <1>3, <1>4, <1>5 DEF HeldInv, Exclusive
<1>10. Counted'
  <2>1. ASSUME NEW k \in Ids \ shared' PROVE
          /\ delivered'[k] <= faults + 1
          /\ ~Accepted(k) /\ (k \in Unsettled' \/ \E r \in Notifiers : k \in Waits(r))
                => delivered'[k] <= faults
    <3>1. faults \in Nat /\ delivered \in [Ids -> Nat]
      BY DEF HeldInv, HeldTypes
    <3>2. CASE k = n
      BY <1>1, <3>1, <3>2
    <3>3. CASE k # n
      BY <1>1, <1>4, <2>1, <3>1, <3>3 DEF HeldInv, Counted
    <3>4. QED
      BY <3>2, <3>3
  <2>2. QED
    BY <1>1, <1>5, <1>6, <2>1 DEF Counted
<1>11. QED
  BY <1>8, <1>9, <1>10 DEF HeldInv

LEMMA DeleteStep == ASSUME HeldInv, NEW n \in Ids, Delete(n) PROVE HeldInv'
<1>1. /\ rows' = [k \in DOMAIN rows \ {n} |-> rows[k]] /\ line' = RemoveFirst(line, n)
      /\ UNCHANGED <<jobs, sending, delivered, shared, faults>>
  BY DEF Delete
<1>2. DOMAIN rows' = DOMAIN rows \ {n} /\ \A k \in DOMAIN rows' : rows'[k] = rows[k]
  BY <1>1
<1>3. Unsettled' = Unsettled \ {n} /\ Due' = Due \ {n}
  BY <1>2 DEF Unsettled, Due
<1>4. \A r \in Notifiers : Waits(r)' = Waits(r) /\ Goes(r)' = Goes(r) /\ Holds(r)' = Holds(r)
  BY <1>1 DEF Holds, Waits, Goes
<1>5. \A k : Accepted(k)' = Accepted(k)
  BY <1>1 DEF Accepted
<1>6. line' \in Seq(Ids) /\ IsInjective(line') /\ ToSet(line') \subseteq Due'
  <2>1. line \in Seq(Ids) /\ IsInjective(line) /\ ToSet(line) \subseteq Due
    BY DEF HeldInv, HeldTypes
  <2>2. QED
    BY <1>1, <1>3, <2>1, RemoveFirstLeavesTheRest
<1>7. HeldTypes'
  <2>1. IsFiniteSet(DOMAIN rows')
    BY <1>2, FS_Subset DEF HeldInv, HeldTypes
  <2>2. QED
    BY <1>1, <1>2, <1>4, <1>6, <2>1 DEF HeldInv, HeldTypes
<1>8. Exclusive'
  BY <1>1, <1>2, <1>3, <1>4 DEF HeldInv, Exclusive
<1>9. Counted'
  BY <1>1, <1>3, <1>4, <1>5 DEF HeldInv, Counted
<1>10. QED
  BY <1>7, <1>8, <1>9 DEF HeldInv

LEMMA MinuteStep == ASSUME HeldInv, Minute PROVE HeldInv'
<1>1. /\ rows' = [n \in DOMAIN rows |-> [rows[n] EXCEPT !.wait = IF @ > 0 THEN @ - 1 ELSE 0]]
      /\ UNCHANGED <<jobs, sending, delivered, shared, faults>>
  BY DEF Minute
<1>2. PICK joining \in SetToSeqs(Due' \ Due) : line' = line \o joining
  BY DEF Minute
<1>3. /\ DOMAIN rows' = DOMAIN rows
      /\ \A n \in DOMAIN rows : /\ DOMAIN rows'[n] = {"status", "attempts", "wait"}
                                /\ rows'[n].status = rows[n].status
                                /\ rows'[n].attempts = rows[n].attempts
                                /\ rows[n].wait = 0 => rows'[n].wait = 0
  BY <1>1 DEF HeldInv, HeldTypes
<1>4. Unsettled' = Unsettled /\ Due \subseteq Due' /\ Due' \subseteq DOMAIN rows
  BY <1>3 DEF Unsettled, Due
<1>5. \A r \in Notifiers : Waits(r)' = Waits(r) /\ Goes(r)' = Goes(r) /\ Holds(r)' = Holds(r)
  BY <1>1 DEF Holds, Waits, Goes
<1>6. \A k : Accepted(k)' = Accepted(k)
  BY <1>1 DEF Accepted
<1>7. line' \in Seq(Ids) /\ IsInjective(line') /\ ToSet(line') \subseteq Due'
  <2>1. /\ line \in Seq(Ids) /\ IsInjective(line) /\ ToSet(line) \subseteq Due
        /\ DOMAIN rows \subseteq Ids /\ IsFiniteSet(DOMAIN rows)
    BY DEF HeldInv, HeldTypes
  <2> DEFINE D == Due' \ Due
  <2>2. D \subseteq DOMAIN rows /\ D \in SUBSET Ids /\ ToSet(line) \cap D = {}
        /\ joining \in SetToSeqs(D)
    BY <1>2, <1>4, <2>1
  <2>3. IsFiniteSet(D)
    BY <2>1, <2>2, FS_Subset
  <2>4. ToSet(line) \cup D \subseteq Due'
    BY <1>4, <2>1
  <2> HIDE DEF D
  <2>5. /\ line \o joining \in Seq(Ids) /\ IsInjective(line \o joining)
        /\ ToSet(line \o joining) = ToSet(line) \cup D
    BY <2>1, <2>2, <2>3, JoiningKeepsTheLine
  <2>6. QED
    BY <1>2, <2>4, <2>5
<1>8. HeldTypes'
  BY <1>1, <1>3, <1>5, <1>7 DEF HeldInv, HeldTypes
<1>9. Exclusive'
  BY <1>1, <1>3, <1>4, <1>5 DEF HeldInv, Exclusive
<1>10. Counted'
  BY <1>1, <1>4, <1>5, <1>6 DEF HeldInv, Counted
<1>11. QED
  BY <1>8, <1>9, <1>10 DEF HeldInv

LEMMA RecordStep == ASSUME HeldInv, NEW r \in Notifiers, Record(r) PROVE HeldInv'
<1>1. PICK j \in sending[r] :
        /\ rows' = IF j.id \in DOMAIN rows
                     THEN [rows EXCEPT ![j.id] = IF j.ok THEN Succeeded(rows[j.id]) ELSE Failed(j)]
                     ELSE rows
        /\ line' = RemoveFirst(line, j.id)
  BY DEF Record
<1>2. sending' = [sending EXCEPT ![r] = {}] /\ UNCHANGED <<jobs, delivered, shared, faults>>
  BY DEF Record
<1>3. sending \in [Notifiers -> SUBSET Outcome] /\ sending[r] = {j}
  BY <1>1 DEF HeldInv, HeldTypes
<1>4. j.id \in Ids /\ j.attempts \in Nat /\ j.ok \in BOOLEAN
  BY <1>1, <1>3 DEF Outcome
<1> DEFINE n == j.id
<1>5. /\ DOMAIN rows' = DOMAIN rows /\ \A k \in DOMAIN rows \ {n} : rows'[k] = rows[k]
      /\ n \in DOMAIN rows => rows'[n] = IF j.ok THEN Succeeded(rows[n]) ELSE Failed(j)
  BY <1>1
<1>6. \A k \in DOMAIN rows : DOMAIN rows'[k] = {"status", "attempts", "wait"}
                             /\ rows'[k].attempts \in Nat
  <2>1. DOMAIN Failed(j) = {"status", "attempts", "wait"} /\ Failed(j).attempts = j.attempts + 1
    BY DEF Failed
  <2>2. n \in DOMAIN rows => /\ DOMAIN Succeeded(rows[n]) = {"status", "attempts", "wait"}
                            /\ Succeeded(rows[n]).attempts = rows[n].attempts + 1
    BY DEF Succeeded, HeldInv, HeldTypes
  <2>3. \A k \in DOMAIN rows : DOMAIN rows[k] = {"status", "attempts", "wait"}
                               /\ rows[k].attempts \in Nat
    BY DEF HeldInv, HeldTypes
  <2> HIDE DEF n
  <2>4. j.attempts + 1 \in Nat /\ \A k \in DOMAIN rows : rows[k].attempts + 1 \in Nat
    BY <1>4, <2>3
  <2>5. n \in DOMAIN rows => DOMAIN rows'[n] = {"status", "attempts", "wait"}
                            /\ rows'[n].attempts \in Nat
    <3>1. CASE j.ok
      BY <1>5, <2>2, <2>4, <3>1
    <3>2. CASE ~j.ok
      BY <1>5, <2>1, <2>4, <3>2
    <3>3. QED
      BY <3>1, <3>2
  <2>6. QED
    BY <1>5, <2>3, <2>5
<1>7. j.ok => n \notin Unsettled'
  <2>1. n \in DOMAIN rows => Succeeded(rows[n]).status = "sent"
    BY DEF Succeeded, HeldInv, HeldTypes
  <2>2. QED
    BY <1>5, <2>1 DEF Unsettled
<1>8. \A k \in Ids \ {n} : (k \in Unsettled' <=> k \in Unsettled) /\ (k \in Due' <=> k \in Due)
  BY <1>5 DEF Unsettled, Due
<1>9. Unsettled \subseteq Ids /\ Due \subseteq Ids /\ Unsettled \subseteq DOMAIN rows
      /\ Unsettled' \subseteq DOMAIN rows
  BY <1>5 DEF HeldInv, HeldTypes, Unsettled, Due
<1>10. /\ sending'[r] = {} /\ Goes(r)' = {} /\ Goes(r) = {n}
       /\ \A q \in Notifiers \ {r} : sending'[q] = sending[q] /\ Goes(q)' = Goes(q)
       /\ \A q \in Notifiers : Waits(q)' = Waits(q) /\ Holds(q)' \subseteq Holds(q)
  <2>1. sending'[r] = {} /\ \A q \in Notifiers \ {r} : sending'[q] = sending[q]
    BY <1>2, <1>3
  <2>2. Goes(r)' = {} /\ Goes(r) = {n} /\ \A q \in Notifiers \ {r} : Goes(q)' = Goes(q)
    BY <1>3, <2>1 DEF Goes
  <2>3. \A q \in Notifiers : Waits(q)' = Waits(q)
    BY <1>2 DEF Waits
  <2>4. QED
    BY <2>1, <2>2, <2>3 DEF Holds
<1> HIDE DEF n
<1>11. n \notin shared => \A q \in Notifiers : n \notin Waits(q) /\ (q # r => n \notin Holds(q))
  <2>1. Waits(r) \cap Goes(r) = {}
    BY DEF HeldInv, HeldTypes
  <2>2. n \in Holds(r) /\ n \notin Waits(r)
    BY <1>10, <2>1 DEF Holds
  <2>3. n \notin shared => \A q \in Notifiers \ {r} : n \notin Holds(q)
    BY <2>2 DEF HeldInv, Exclusive
  <2>4. QED
    BY <2>2, <2>3 DEF Holds
<1>12. HeldTypes'
  <2>1. line' \in Seq(Ids) /\ IsInjective(line') /\ ToSet(line') \subseteq Due'
    <3>1. line \in Seq(Ids) /\ IsInjective(line) /\ ToSet(line) \subseteq Due
      BY DEF HeldInv, HeldTypes
    <3>2. line' \in Seq(Ids) /\ IsInjective(line') /\ ToSet(line') = ToSet(line) \ {n}
      BY <1>1, <3>1, RemoveFirstLeavesTheRest DEF n
    <3>3. QED
      BY <1>8, <1>9, <3>1, <3>2
  <2>2. sending' \in [Notifiers -> SUBSET Outcome]
    BY <1>2, <1>3
  <2>3. \A q \in Notifiers : \A i, k \in sending'[q] : i = k
    <3>1. \A q \in Notifiers : \A i, k \in sending[q] : i = k
      BY DEF HeldInv, HeldTypes
    <3>2. QED
      BY <1>10, <3>1
  <2>4. \A q \in Notifiers : (Waits(q) \cap Goes(q))' = {}
    <3>1. \A q \in Notifiers : Waits(q) \cap Goes(q) = {}
      BY DEF HeldInv, HeldTypes
    <3>2. \A q \in Notifiers : Goes(q)' \subseteq Goes(q)
      BY <1>10
    <3>3. QED
      BY <1>10, <3>1, <3>2
  <2>5. QED
    BY <1>2, <1>5, <1>6, <2>1, <2>2, <2>3, <2>4 DEF HeldInv, HeldTypes
<1>13. Exclusive'
  <2>1. \A p, q \in Notifiers : p # q => Holds(p)' \cap Holds(q)' \subseteq shared'
    BY <1>2, <1>10 DEF HeldInv, Exclusive
  <2>2. ASSUME NEW q \in Notifiers, NEW x \in Holds(q)', x \in DOMAIN rows, x \notin shared
        PROVE x \in Unsettled'
    <3>1. x # n
      BY <1>10, <1>11, <2>2 DEF Holds
    <3>2. x \in Unsettled
      BY <1>10, <2>2 DEF HeldInv, Exclusive
    <3>3. QED
      BY <1>8, <1>9, <3>1, <3>2
  <2>3. QED
    BY <1>2, <1>5, <2>1, <2>2 DEF Exclusive
<1>14. ASSUME NEW k \in Ids \ shared PROVE
          /\ delivered[k] <= faults + 1
          /\ ~Accepted(k)' /\ (k \in Unsettled' \/ \E q \in Notifiers : k \in Waits(q))
                => delivered[k] <= faults
  <2>1. /\ delivered[k] <= faults + 1
        /\ ~Accepted(k) /\ (k \in Unsettled \/ \E q \in Notifiers : k \in Waits(q))
              => delivered[k] <= faults
    BY <1>14 DEF HeldInv, Counted
  <2>2. CASE k # n
    <3>1. Accepted(k) => Accepted(k)'
      BY <1>3, <1>10, <2>2 DEF Accepted, n
    <3>2. QED
      BY <1>8, <1>14, <2>1, <2>2, <3>1
  <2>3. CASE k = n
    <3>1. ASSUME k \in Unsettled' PROVE delivered[k] <= faults
      <4>1. ~j.ok
        BY <1>7, <2>3, <3>1
      <4>2. ~Accepted(k)
        <5>1. \A q \in Notifiers \ {r} : \A i \in sending[q] : i.id # n
          BY <1>11, <1>14, <2>3 DEF Holds, Goes
        <5>2. QED
          BY <1>3, <2>3, <4>1, <5>1 DEF Accepted
      <4>3. k \in Unsettled
        BY <1>9, <1>10, <1>14, <2>3, <3>1 DEF HeldInv, Exclusive, Holds
      <4>4. QED
        BY <2>1, <4>2, <4>3
    <3>2. QED
      BY <1>11, <1>14, <2>1, <2>3, <3>1
  <2>4. QED
    BY <2>2, <2>3
<1>15. Counted'
  BY <1>2, <1>10, <1>14 DEF Counted
<1>16. QED
  BY <1>12, <1>13, <1>15 DEF HeldInv

\* An UPDATE that is lost, or a crash: the replica forgets, at the price of a fault.
LEMMA ForgetStep ==
    ASSUME HeldInv, NEW r \in Notifiers, RecordFails(r) \/ Crash(r)
    PROVE  HeldInv'
<1>1. /\ sending' = [sending EXCEPT ![r] = {}] /\ faults' = faults + 1
      /\ jobs' = jobs \/ jobs' = [jobs EXCEPT ![r] = <<>>]
      /\ UNCHANGED <<rows, line, delivered, shared>>
  BY DEF RecordFails, Crash
<1>2. /\ jobs \in [Notifiers -> Seq(Job)] /\ sending \in [Notifiers -> SUBSET Outcome]
      /\ faults \in Nat /\ delivered \in [Ids -> Nat]
  BY DEF HeldInv, HeldTypes
<1>3. /\ jobs' \in [Notifiers -> Seq(Job)] /\ sending' \in [Notifiers -> SUBSET Outcome]
      /\ \A q \in Notifiers : /\ jobs'[q] = jobs[q] \/ jobs'[q] = <<>>
                              /\ sending'[q] \subseteq sending[q]
  <2>1. jobs' \in [Notifiers -> Seq(Job)]
        /\ \A q \in Notifiers : jobs'[q] = jobs[q] \/ jobs'[q] = <<>>
    <3>1. <<>> \in Seq(Job)
      OBVIOUS
    <3>2. CASE jobs' = jobs
      BY <1>2, <3>2
    <3>3. CASE jobs' = [jobs EXCEPT ![r] = <<>>]
      BY <1>2, <3>1, <3>3
    <3>4. QED
      BY <1>1, <3>2, <3>3
  <2>2. sending' \in [Notifiers -> SUBSET Outcome]
        /\ \A q \in Notifiers : sending'[q] \subseteq sending[q]
    BY <1>1, <1>2
  <2>3. QED
    BY <2>1, <2>2
<1>4. \A q \in Notifiers : /\ Waits(q)' \subseteq Waits(q) /\ Goes(q)' \subseteq Goes(q)
                           /\ Holds(q)' \subseteq Holds(q)
  <2>1. \A q \in Notifiers : Waits(q)' \subseteq Waits(q)
    BY <1>3 DEF Waits, ToSet
  <2>2. \A q \in Notifiers : Goes(q)' \subseteq Goes(q)
    BY <1>3 DEF Goes
  <2>3. QED
    BY <2>1, <2>2 DEF Holds
<1>5. Unsettled' = Unsettled /\ Due' = Due
  BY <1>1 DEF Unsettled, Due
<1>6. HeldTypes'
  <2>1. \A q \in Notifiers : \A i, k \in DOMAIN jobs'[q] :
          jobs'[q][i].id = jobs'[q][k].id => i = k
    BY <1>3 DEF HeldInv, HeldTypes
  <2>2. \A q \in Notifiers : (Waits(q) \cap Goes(q))' = {}
    <3>1. \A q \in Notifiers : Waits(q) \cap Goes(q) = {}
      BY DEF HeldInv, HeldTypes
    <3>2. QED
      BY <1>4, <3>1
  <2>3. \A q \in Notifiers : \A i, k \in sending'[q] : i = k
    BY <1>3 DEF HeldInv, HeldTypes
  <2>4. QED
    BY <1>1, <1>2, <1>3, <1>5, <2>1, <2>2, <2>3 DEF HeldInv, HeldTypes
<1>7. Exclusive'
  BY <1>1, <1>4, <1>5 DEF HeldInv, Exclusive
<1>8. Counted'
  <2>1. \A n \in Ids \ shared : delivered[n] <= faults + 1 /\ delivered[n] \in Nat
    BY <1>2 DEF HeldInv, Counted
  <2>2. \A n \in Ids \ shared : delivered[n] <= (faults + 1) + 1
    BY <1>2, <2>1
  <2>3. QED
    BY <1>1, <2>1, <2>2 DEF Counted
<1>9. QED
  BY <1>6, <1>7, <1>8 DEF HeldInv

LEMMA HeldStep == HeldInv /\ [Next]_vars => HeldInv'
<1> SUFFICES ASSUME HeldInv, [Next]_vars PROVE HeldInv'
  OBVIOUS
<1>1. CASE UNCHANGED vars
  BY <1>1 DEF vars, HeldInv, HeldTypes, Exclusive, Counted, Accepted, Holds, Waits, Goes, Due,
              Unsettled
<1>2. ASSUME NEW n \in Ids, Queue(n) \/ Delete(n) PROVE HeldInv'
  BY <1>2, QueueStep, DeleteStep
<1>3. CASE Minute
  BY <1>3, MinuteStep
<1>4. ASSUME NEW r \in Notifiers, Drain(r) PROVE HeldInv'
  BY <1>4, ClaimStep, SendStep, RecordStep, ForgetStep DEF Drain, Sends
<1>5. QED
  BY <1>1, <1>2, <1>3, <1>4 DEF Next

LEMMA HeldInit == Init => HeldInv
<1> SUFFICES ASSUME Init PROVE HeldInv
  OBVIOUS
<1>1. DOMAIN rows = {} /\ line = <<>> /\ delivered = [n \in Ids |-> 0] /\ shared = {}
      /\ faults = 0
      /\ jobs = [r \in Notifiers |-> <<>>] /\ sending = [r \in Notifiers |-> {}]
  BY DEF Init
<1>2. \A r \in Notifiers : Waits(r) = {} /\ Goes(r) = {}
  BY <1>1 DEF Waits, Goes, ToSet
<1>3. HeldTypes
  <2>1. line \in Seq(Ids) /\ IsInjective(line) /\ ToSet(line) = {}
    BY <1>1 DEF IsInjective, ToSet
  <2>2. jobs \in [Notifiers -> Seq(Job)]
    BY <1>1
  <2>3. QED
    BY <1>1, <1>2, <2>1, <2>2, FS_EmptySet DEF HeldTypes
<1>4. Exclusive /\ Counted
  BY <1>1, <1>2 DEF Exclusive, Counted, Holds
<1>5. QED
  BY <1>3, <1>4 DEF HeldInv

LEMMA HeldInvariant == Spec => []HeldInv
BY HeldInit, HeldStep, PTL DEF Spec

(* A notification goes out twice only when something was lost between the    *)
(* provider and the table, or when two replicas held the row together.       *)
THEOREM DuplicatesHaveACause == Spec => []DuplicatesNeedACause
<1>1. HeldInv => DuplicatesNeedACause
  BY DEF HeldInv, HeldTypes, Counted, DuplicatesNeedACause
<1>2. QED
  BY <1>1, HeldInvariant, PTL

(* A row that was sent or given up is written again only if two replicas held *)
(* it together.                                                              *)
THEOREM SettledIsFinal == Spec => SettledRowsStaySettled
<1> DEFINE Stays == \A n \in DOMAIN rows \ (Unsettled \cup shared) :
          n \in DOMAIN rows' =>
              /\ rows'[n].status = rows[n].status
              /\ rows'[n].attempts = rows[n].attempts
<1>1. HeldInv /\ [Next]_vars => [Stays]_vars
  <2> SUFFICES ASSUME HeldInv, Next, NEW n \in DOMAIN rows \ (Unsettled \cup shared),
                      n \in DOMAIN rows'
               PROVE  rows'[n].status = rows[n].status /\ rows'[n].attempts = rows[n].attempts
    OBVIOUS
  <2>1. ASSUME NEW k \in Ids, Queue(k) PROVE rows'[n] = rows[n]
    BY <2>1 DEF Queue, FreshIds
  <2>2. ASSUME NEW k \in Ids, Delete(k) PROVE rows'[n] = rows[n]
    BY <2>2 DEF Delete
  <2>3. CASE Minute
    BY <2>3 DEF Minute, HeldInv, HeldTypes
  <2>4. ASSUME NEW r \in Notifiers, Record(r) PROVE rows'[n] = rows[n]
    <3>1. PICK j \in sending[r] :
            rows' = IF j.id \in DOMAIN rows
                      THEN [rows EXCEPT ![j.id] =
                              IF j.ok THEN Succeeded(rows[j.id]) ELSE Failed(j)]
                      ELSE rows
      BY <2>4 DEF Record
    <3>2. j.id # n
      BY DEF HeldInv, Exclusive, Holds, Goes
    <3>3. QED
      BY <3>1, <3>2
  <2>5. ASSUME NEW r \in Notifiers, Claim(r) \/ Sends(r) \/ RecordFails(r) \/ Crash(r)
        PROVE rows'[n] = rows[n]
    BY <2>5 DEF Claim, Sends, Send, RecordFails, Crash
  <2>6. QED
    BY <2>1, <2>2, <2>3, <2>4, <2>5 DEF Next, Drain
<1>2. QED
  BY <1>1, HeldInvariant, PTL DEF Spec, SettledRowsStaySettled

(* With one replica no row is ever held by two: several replicas, which the  *)
(* claim does not keep apart once its transaction is over, are the whole     *)
(* cause of shared rows.                                                     *)
OneReplica == \A r, q \in Notifiers : r = q

LEMMA OneReplicaSharesNothing == ASSUME OneReplica PROVE Spec => [](shared = {})
<1>1. Init => shared = {}
  BY DEF Init
<1>2. shared = {} /\ [Next]_vars => (shared = {})'
  <2> SUFFICES ASSUME shared = {}, [Next]_vars PROVE shared' = {}
    OBVIOUS
  <2>1. ASSUME NEW r \in Notifiers, Claim(r) PROVE shared' = {}
    <3>1. HeldByOthers(r) = {}
      BY OneReplica DEF OneReplica, HeldByOthers
    <3> QED BY <2>1, <3>1 DEF Claim
  <2>2. CASE UNCHANGED vars
    BY <2>2 DEF vars
  <2>3. ASSUME NEW n \in Ids, Queue(n) \/ Delete(n) PROVE shared' = {}
    BY <2>3 DEF Queue, Delete
  <2>4. CASE Minute
    BY <2>4 DEF Minute
  <2>5. ASSUME NEW r \in Notifiers, Sends(r) \/ Record(r) \/ RecordFails(r) \/ Crash(r)
        PROVE shared' = {}
    BY <2>5 DEF Sends, Send, Record, RecordFails, Crash
  <2> QED BY <2>1, <2>2, <2>3, <2>4, <2>5 DEF Next, Drain
<1> QED BY <1>1, <1>2, PTL DEF Spec

(* Then a notification goes out again only after a crash, a lost answer or a *)
(* lost UPDATE, once for each of them, and a row that was sent or given up   *)
(* is never written again.                                                   *)
THEOREM OneReplicaRepeatsOnlyWhatWasLost ==
    ASSUME OneReplica
    PROVE  Spec => /\ [](\A n \in Ids : delivered[n] <= 1 + faults)
                   /\ [][\A n \in DOMAIN rows \ Unsettled :
                            n \in DOMAIN rows' =>
                                /\ rows'[n].status = rows[n].status
                                /\ rows'[n].attempts = rows[n].attempts]_vars
<1> DEFINE Stays(S) == \A n \in DOMAIN rows \ S :
                          n \in DOMAIN rows' =>
                              /\ rows'[n].status = rows[n].status
                              /\ rows'[n].attempts = rows[n].attempts
           OncePerLoss == \A n \in Ids : delivered[n] <= 1 + faults
<1>1. shared = {} /\ HeldInv => OncePerLoss
  BY DEF HeldInv, HeldTypes, Counted
<1>2. shared = {} /\ [Stays(Unsettled \cup shared)]_vars => [Stays(Unsettled)]_vars
  OBVIOUS
<1>3. Spec => [][Stays(Unsettled \cup shared)]_vars
  BY SettledIsFinal DEF SettledRowsStaySettled
<1> HIDE DEF Stays, OncePerLoss
<1>4. Spec => []OncePerLoss /\ [][Stays(Unsettled)]_vars
  BY <1>1, <1>2, <1>3, OneReplicaSharesNothing, HeldInvariant, PTL
<1> QED BY <1>4 DEF Stays, OncePerLoss

-----------------------------------------------------------------------------
(* How often a row is tried. *)

(* A copy was made of a row that was due, so that one more attempt does not   *)
(* take its count past maxAttempts.                                           *)
AttemptsInv ==
    /\ AttemptsAreBounded
    /\ \A r \in Notifiers :
          /\ \A k \in DOMAIN jobs[r] : jobs[r][k].attempts < maxAttempts
          /\ \A j \in sending[r] : j.attempts < maxAttempts

LEMMA AttemptsStep == HeldInv /\ AttemptsInv /\ [Next]_vars => AttemptsInv'
<1> SUFFICES ASSUME HeldInv, AttemptsInv, [Next]_vars PROVE AttemptsInv'
  OBVIOUS
<1>1. CASE UNCHANGED vars
  BY <1>1 DEF vars, AttemptsInv, AttemptsAreBounded, Unsettled
<1>2. ASSUME NEW n \in Ids, Queue(n) PROVE AttemptsInv'
  <2>1. NewRow.attempts = 0 /\ NewRow.status = "pending" /\ 0 < maxAttempts
    BY NotifierAssumption DEF NewRow
  <2>2. DOMAIN rows' = DOMAIN rows \cup {n}
        /\ \A k \in DOMAIN rows' : rows'[k] = NewRow \/ (k \in DOMAIN rows /\ rows'[k] = rows[k])
    BY <1>2 DEF Queue
  <2>3. AttemptsAreBounded'
    BY <2>1, <2>2 DEF AttemptsInv, AttemptsAreBounded, Unsettled
  <2>4. QED
    BY <1>2, <2>3 DEF Queue, AttemptsInv
<1>3. ASSUME NEW n \in Ids, Delete(n) PROVE AttemptsInv'
  BY <1>3 DEF Delete, AttemptsInv, AttemptsAreBounded, Unsettled
<1>4. CASE Minute
  <2>1. DOMAIN rows' = DOMAIN rows
        /\ \A n \in DOMAIN rows : rows'[n].status = rows[n].status
                                  /\ rows'[n].attempts = rows[n].attempts
    BY <1>4 DEF Minute, HeldInv, HeldTypes
  <2>2. AttemptsAreBounded'
    BY <2>1 DEF AttemptsInv, AttemptsAreBounded, Unsettled
  <2>3. QED
    BY <1>4, <2>2 DEF Minute, AttemptsInv
<1>5. ASSUME NEW r \in Notifiers, Claim(r) PROVE AttemptsInv'
  <2>1. UNCHANGED <<rows, sending>>
    BY <1>5 DEF Claim
  <2>2. /\ \A k \in DOMAIN jobs'[r] : jobs'[r][k].id \in Due
              /\ jobs'[r][k].attempts = rows[jobs'[r][k].id].attempts
        /\ \A q \in Notifiers \ {r} : jobs'[q] = jobs[q]
    BY <1>5, ClaimHolds DEF HeldInv
  <2>3. \A n \in Due : rows[n].attempts < maxAttempts
    BY DEF Due, Unsettled, AttemptsInv, AttemptsAreBounded
  <2>4. AttemptsAreBounded'
    BY <2>1 DEF AttemptsInv, AttemptsAreBounded, Unsettled
  <2>5. \A k \in DOMAIN jobs'[r] : jobs'[r][k].attempts < maxAttempts
    BY <2>2, <2>3
  <2>6. QED
    BY <2>1, <2>2, <2>4, <2>5 DEF AttemptsInv
<1>6. ASSUME NEW r \in Notifiers, NEW accepted \in BOOLEAN, NEW ok \in BOOLEAN,
             Send(r, accepted, ok)
      PROVE AttemptsInv'
  <2> DEFINE s == jobs[r]
  <2>1. /\ s # <<>> /\ rows' = rows /\ jobs' = [jobs EXCEPT ![r] = Tail(s)]
        /\ sending' = [sending EXCEPT ![r] =
              {[id |-> Head(s).id, attempts |-> Head(s).attempts, ok |-> ok]}]
    BY <1>6 DEF Send
  <2>2. s \in Seq(Job) /\ \A k \in 1 .. Len(s) : s[k].attempts < maxAttempts
    BY DEF HeldInv, HeldTypes, AttemptsInv
  <2> HIDE DEF s
  <2>3. Head(s).attempts < maxAttempts /\ DOMAIN Tail(s) = 1 .. Len(s) - 1
        /\ \A k \in DOMAIN Tail(s) : Tail(s)[k].attempts < maxAttempts
    BY <2>1, <2>2
  <2>4. \A q \in Notifiers :
          /\ jobs'[q] = IF q = r THEN Tail(s) ELSE jobs[q]
          /\ q # r => sending'[q] = sending[q]
    BY <2>1 DEF HeldInv, HeldTypes
  <2>5. \A j \in sending'[r] : j.attempts < maxAttempts
    BY <2>1, <2>3 DEF HeldInv, HeldTypes
  <2>6. AttemptsAreBounded'
    BY <2>1 DEF AttemptsInv, AttemptsAreBounded, Unsettled
  <2>7. QED
    BY <2>3, <2>4, <2>5, <2>6 DEF AttemptsInv
<1>7. ASSUME NEW r \in Notifiers, Record(r) PROVE AttemptsInv'
  <2>1. PICK j \in sending[r] :
          rows' = IF j.id \in DOMAIN rows
                    THEN [rows EXCEPT ![j.id] =
                            IF j.ok THEN Succeeded(rows[j.id]) ELSE Failed(j)]
                    ELSE rows
    BY <1>7 DEF Record
  <2>2. jobs' = jobs /\ \A q \in Notifiers : sending'[q] \subseteq sending[q]
    BY <1>7 DEF Record, HeldInv, HeldTypes
  <2>3. j.attempts \in Nat /\ j.attempts < maxAttempts /\ maxAttempts \in Nat
    BY NotifierAssumption DEF HeldInv, HeldTypes, Outcome, AttemptsInv
  <2>4. /\ Failed(j).attempts = j.attempts + 1
        /\ Failed(j).status = IF j.attempts + 1 >= maxAttempts THEN "dead" ELSE "failed"
    BY DEF Failed
  <2>5. \A n \in DOMAIN rows : Succeeded(rows[n]).status = "sent"
    BY DEF Succeeded, HeldInv, HeldTypes
  <2>6. DOMAIN rows' = DOMAIN rows
        /\ \A n \in DOMAIN rows :
              rows'[n] \in {rows[n], Failed(j), Succeeded(rows[n])}
    BY <2>1
  <2>7. AttemptsAreBounded'
    <3>1. \A n \in DOMAIN rows : rows'[n] = Failed(j) =>
            /\ rows'[n].status \in {"pending", "failed"} => rows'[n].attempts < maxAttempts
            /\ rows'[n].status = "dead" => rows'[n].attempts = maxAttempts
      BY <2>3, <2>4
    <3>2. QED
      BY <2>5, <2>6, <3>1 DEF AttemptsInv, AttemptsAreBounded, Unsettled
  <2>8. QED
    BY <2>2, <2>7 DEF AttemptsInv
<1>8. ASSUME NEW r \in Notifiers, RecordFails(r) \/ Crash(r) PROVE AttemptsInv'
  <2>1. rows' = rows /\ \A q \in Notifiers : /\ jobs'[q] = jobs[q] \/ DOMAIN jobs'[q] = {}
                                             /\ sending'[q] \subseteq sending[q]
    <3>1. CASE RecordFails(r)
      BY <3>1 DEF RecordFails, HeldInv, HeldTypes
    <3>2. CASE Crash(r)
      <4>1. jobs' = [jobs EXCEPT ![r] = <<>>] /\ sending' = [sending EXCEPT ![r] = {}]
            /\ rows' = rows
        BY <3>2 DEF Crash
      <4>2. DOMAIN <<>> = {}
        OBVIOUS
      <4>3. QED
        BY <4>1, <4>2 DEF HeldInv, HeldTypes
    <3>3. QED
      BY <1>8, <3>1, <3>2
  <2>2. AttemptsAreBounded'
    BY <2>1 DEF AttemptsInv, AttemptsAreBounded, Unsettled
  <2>3. QED
    BY <2>1, <2>2 DEF AttemptsInv
<1>9. QED
  BY <1>1, <1>2, <1>3, <1>4, <1>5, <1>6, <1>7, <1>8 DEF Next, Drain, Sends

(* A row is given up after maxAttempts attempts and not before, although      *)
(* replicas overwrite each other's counts.                                    *)
THEOREM GivenUpAfterMaxAttempts == Spec => []AttemptsAreBounded
<1>1. Init => AttemptsInv
  BY DEF Init, AttemptsInv, AttemptsAreBounded
<1>2. AttemptsInv => AttemptsAreBounded
  BY DEF AttemptsInv
<1>3. QED
  BY <1>1, <1>2, AttemptsStep, HeldInvariant, PTL DEF Spec

-----------------------------------------------------------------------------
(* The tables. *)

(* A failed row waits a minute at least: 2 ^ k is the number of subsets of a  *)
(* set of k elements.                                                         *)
LEMMA BackoffIsPositive ==
    ASSUME NEW k \in Nat
    PROVE  Backoff(k + 1) \in Nat \ {0}
<1> DEFINE S == 1 .. k
<1>1. IsFiniteSet(S) /\ Cardinality(S) = k
  BY FS_Interval
<1>2. IsFiniteSet(SUBSET S) /\ Cardinality(SUBSET S) = 2 ^ k
  <2>1. Cardinality(SUBSET S) = 2 ^ Cardinality(S) /\ IsFiniteSet(SUBSET S)
    BY <1>1, FS_SUBSET
  <2>2. QED
    BY <1>1, <2>1
<1>3. Cardinality(SUBSET S) \in Nat /\ Cardinality(SUBSET S) # 0
  <2>1. SUBSET S # {}
    OBVIOUS
  <2>2. QED
    BY <1>2, <2>1, FS_CardinalityType, FS_EmptySet
<1>4. (k + 1) - 1 = k
  OBVIOUS
<1>5. Backoff(k + 1) = 2 ^ k
  BY <1>4 DEF Backoff
<1>6. QED
  BY <1>2, <1>3, <1>5

(* No due row is missing from the line, so that every replica sees it.        *)
TableInv ==
    /\ rows \in [DOMAIN rows -> Row]
    /\ Due \subseteq ToSet(line)
    /\ delivered \in [Ids -> 0 .. MaxDelivered]
    /\ shared \subseteq Ids
    /\ faults <= MaxFaults

LEMMA QueueTables ==
    ASSUME HeldInv, TableInv, NEW n \in Ids, Queue(n) PROVE TableInv'
<1>1. /\ n \notin DOMAIN rows
      /\ rows' = [k \in DOMAIN rows \cup {n} |-> IF k = n THEN NewRow ELSE rows[k]]
      /\ line' = Append(line, n) /\ delivered' = [delivered EXCEPT ![n] = 0]
      /\ shared' = shared \ {n} /\ faults' = faults
  BY DEF Queue, FreshIds
<1>2. DOMAIN rows' = DOMAIN rows \cup {n} /\ \A k \in DOMAIN rows : rows'[k] = rows[k]
  BY <1>1
<1>3. rows' \in [DOMAIN rows' -> Row]
  BY <1>1 DEF TableInv, NewRow, Row
<1>4. Due' \subseteq Due \cup {n}
  BY <1>2 DEF Due, Unsettled
<1>5. ToSet(line) \cup {n} \subseteq ToSet(line')
  <2>1. line \in Seq(Ids) /\ DOMAIN line = 1 .. Len(line) /\ Len(line) \in Nat
    BY DEF HeldInv, HeldTypes
  <2>2. /\ DOMAIN line' = 1 .. Len(line) + 1 /\ line'[Len(line) + 1] = n
        /\ \A k \in 1 .. Len(line) : line'[k] = line[k]
    BY <1>1, <2>1
  <2>3. n \in ToSet(line')
    BY <2>1, <2>2 DEF ToSet
  <2>4. \A k \in 1 .. Len(line) : k \in 1 .. Len(line) + 1
    BY <2>1
  <2>5. ToSet(line) \subseteq ToSet(line')
    BY <2>1, <2>2, <2>4 DEF ToSet
  <2>6. QED
    BY <2>3, <2>5
<1>6. delivered' \in [Ids -> 0 .. MaxDelivered]
  BY <1>1, NotifierAssumption DEF TableInv
<1>7. Due' \subseteq ToSet(line)'
  BY <1>4, <1>5 DEF TableInv
<1>8. QED
  BY <1>1, <1>3, <1>6, <1>7 DEF TableInv

LEMMA DeleteTables ==
    ASSUME HeldInv, TableInv, NEW n \in Ids, Delete(n) PROVE TableInv'
<1>1. /\ rows' = [k \in DOMAIN rows \ {n} |-> rows[k]] /\ line' = RemoveFirst(line, n)
      /\ UNCHANGED <<delivered, shared, faults>>
  BY DEF Delete
<1>2. Due' \subseteq Due \ {n}
  BY <1>1 DEF Due, Unsettled
<1>3. ToSet(line') = ToSet(line) \ {n}
  BY <1>1, RemoveFirstLeavesTheRest DEF HeldInv, HeldTypes
<1>4. Due' \subseteq ToSet(line)'
  BY <1>2, <1>3 DEF TableInv
<1>5. rows' \in [DOMAIN rows' -> Row]
  BY <1>1 DEF TableInv
<1>6. QED
  BY <1>1, <1>4, <1>5 DEF TableInv

LEMMA MinuteTables == ASSUME HeldInv, TableInv, Minute PROVE TableInv'
<1>1. /\ rows' = [n \in DOMAIN rows |-> [rows[n] EXCEPT !.wait = IF @ > 0 THEN @ - 1 ELSE 0]]
      /\ UNCHANGED <<delivered, shared, faults>>
  BY DEF Minute
<1>2. PICK joining \in SetToSeqs(Due' \ Due) : line' = line \o joining
  BY DEF Minute
<1>3. rows' \in [DOMAIN rows' -> Row]
  <2>1. ASSUME NEW n \in DOMAIN rows PROVE rows'[n] \in Row
    <3>1. rows[n] \in Row
      BY DEF TableInv
    <3>2. rows'[n] = [rows[n] EXCEPT !.wait = IF rows[n].wait > 0 THEN rows[n].wait - 1 ELSE 0]
      BY <1>1
    <3>3. (IF rows[n].wait > 0 THEN rows[n].wait - 1 ELSE 0) \in Nat
      BY <3>1 DEF Row
    <3>4. QED
      BY <3>1, <3>2, <3>3 DEF Row
  <2>2. QED
    BY <1>1, <2>1
<1>4. Due' \subseteq ToSet(line)'
  <2> DEFINE D == Due' \ Due
  <2>1. /\ line \in Seq(Ids) /\ IsInjective(line) /\ ToSet(line) \subseteq Due
        /\ DOMAIN rows \subseteq Ids /\ IsFiniteSet(DOMAIN rows)
    BY DEF HeldInv, HeldTypes
  <2>2. D \subseteq DOMAIN rows /\ D \in SUBSET Ids /\ ToSet(line) \cap D = {}
        /\ joining \in SetToSeqs(D)
    BY <1>1, <1>2, <2>1 DEF Due, Unsettled
  <2>3. IsFiniteSet(D)
    BY <2>1, <2>2, FS_Subset
  <2>4. Due' \subseteq Due \cup D
    OBVIOUS
  <2> HIDE DEF D
  <2>5. ToSet(line \o joining) = ToSet(line) \cup D
    BY <2>1, <2>2, <2>3, JoiningKeepsTheLine
  <2>6. QED
    BY <1>2, <2>4, <2>5 DEF TableInv
<1>5. QED
  BY <1>1, <1>3, <1>4 DEF TableInv

LEMMA ClaimTables ==
    ASSUME HeldInv, TableInv, NEW r \in Notifiers, Claim(r) PROVE TableInv'
<1>1. /\ UNCHANGED <<rows, line, delivered, faults>>
      /\ shared' \subseteq shared \cup HeldByOthers(r)
  BY DEF Claim
<1>2. HeldByOthers(r) \subseteq Ids
  <2>1. ASSUME NEW q \in Notifiers, NEW j \in Copies(q) PROVE j.id \in Ids
    <3>1. jobs[q] \in Seq(Job) /\ sending[q] \subseteq Outcome
      BY DEF HeldInv, HeldTypes
    <3>2. CASE j \in ToSet(jobs[q])
      <4>1. PICK k \in DOMAIN jobs[q] : j = jobs[q][k]
        BY <3>2 DEF ToSet
      <4>2. j \in Job
        BY <3>1, <4>1
      <4>3. QED
        BY <4>2 DEF Job
    <3>3. CASE j \in sending[q]
      BY <3>1, <3>3 DEF Outcome
    <3>4. QED
      BY <2>1, <3>2, <3>3 DEF Copies
  <2>2. QED
    BY <2>1 DEF HeldByOthers
<1>3. Due' = Due
  BY <1>1 DEF Due, Unsettled
<1>4. QED
  BY <1>1, <1>2, <1>3 DEF TableInv

LEMMA SendTables ==
    ASSUME HeldInv, TableInv, NEW r \in Notifiers, NEW accepted \in BOOLEAN,
           NEW ok \in BOOLEAN, Send(r, accepted, ok)
    PROVE  TableInv'
<1>1. UNCHANGED <<rows, line, shared>> /\ faults' <= MaxFaults
  BY DEF Send
<1>2. PICK j \in Job :
        delivered' = IF accepted /\ delivered[j.id] < MaxDelivered
                       THEN [delivered EXCEPT ![j.id] = @ + 1] ELSE delivered
  BY SendHolds DEF HeldInv
<1>3. delivered' \in [Ids -> 0 .. MaxDelivered]
  <2>1. j.id \in Ids /\ delivered \in [Ids -> 0 .. MaxDelivered] /\ MaxDelivered \in Nat
    BY NotifierAssumption DEF Job, TableInv
  <2>2. CASE delivered[j.id] < MaxDelivered
    <3>1. delivered[j.id] + 1 \in 0 .. MaxDelivered
      BY <2>1, <2>2
    <3>2. QED
      BY <1>2, <2>1, <3>1
  <2>3. QED
    BY <1>2, <2>1, <2>2
<1>4. Due' = Due
  BY <1>1 DEF Due, Unsettled
<1>5. QED
  BY <1>1, <1>3, <1>4 DEF TableInv

LEMMA RecordTables ==
    ASSUME HeldInv, TableInv, NEW r \in Notifiers, Record(r) PROVE TableInv'
<1>1. PICK j \in sending[r] :
        /\ rows' = IF j.id \in DOMAIN rows
                     THEN [rows EXCEPT ![j.id] = IF j.ok THEN Succeeded(rows[j.id]) ELSE Failed(j)]
                     ELSE rows
        /\ line' = RemoveFirst(line, j.id)
  BY DEF Record
<1>2. UNCHANGED <<delivered, shared, faults>>
  BY DEF Record
<1>3. j.id \in Ids /\ j.attempts \in Nat
  BY <1>1 DEF HeldInv, HeldTypes, Outcome
<1> DEFINE n == j.id
<1>4. /\ DOMAIN rows' = DOMAIN rows /\ \A k \in DOMAIN rows \ {n} : rows'[k] = rows[k]
      /\ n \in DOMAIN rows => rows'[n] = IF j.ok THEN Succeeded(rows[n]) ELSE Failed(j)
  BY <1>1
<1> HIDE DEF n
<1>5. Failed(j) \in Row /\ Failed(j).wait # 0
  <2>1. Backoff(j.attempts + 1) \in Nat \ {0} /\ j.attempts + 1 \in Nat
    BY <1>3, BackoffIsPositive
  <2>2. QED
    BY <2>1 DEF Failed, Row
<1>6. n \in DOMAIN rows => Succeeded(rows[n]) \in Row /\ Succeeded(rows[n]).status = "sent"
  <2>1. ASSUME n \in DOMAIN rows PROVE rows[n] \in Row
    BY <2>1 DEF TableInv
  <2>2. ASSUME NEW row \in Row PROVE Succeeded(row) \in Row /\ Succeeded(row).status = "sent"
    <3>1. row.attempts + 1 \in Nat
      BY DEF Row
    <3>2. [row EXCEPT !.status = "sent"] \in Row
      BY DEF Row
    <3> DEFINE sent == [row EXCEPT !.status = "sent"]
    <3>3. [sent EXCEPT !.attempts = row.attempts + 1] \in Row
      <4> HIDE DEF sent
      <4>1. sent \in Row
        BY <3>2 DEF sent
      <4>2. QED
        BY <3>1, <4>1 DEF Row
    <3>4. Succeeded(row) = [sent EXCEPT !.attempts = row.attempts + 1]
      BY DEF Succeeded
    <3>5. Succeeded(row).status = "sent"
      BY DEF Succeeded, Row
    <3>6. QED
      BY <3>3, <3>4, <3>5
  <2>3. QED
    BY <2>1, <2>2
<1>7. rows' \in [DOMAIN rows' -> Row]
  <2>1. \A k \in DOMAIN rows : rows[k] \in Row
    BY DEF TableInv
  <2>2. \A k \in DOMAIN rows' : rows'[k] \in Row
    BY <1>4, <1>5, <1>6, <2>1
  <2>3. rows' = [k \in DOMAIN rows' |-> rows'[k]]
    BY <1>1 DEF TableInv
  <2>4. QED
    BY <2>2, <2>3
<1>8. Due' \subseteq Due \ {n}
  <2>1. n \notin Due'
    BY <1>4, <1>5, <1>6 DEF Due, Unsettled
  <2>2. \A k \in Due' \ {n} : k \in Due
    BY <1>4 DEF Due, Unsettled
  <2>3. QED
    BY <2>1, <2>2
<1>9. ToSet(line') = ToSet(line) \ {n}
  BY <1>1, RemoveFirstLeavesTheRest DEF HeldInv, HeldTypes, n
<1>10. Due' \subseteq ToSet(line)'
  BY <1>8, <1>9 DEF TableInv
<1>11. QED
  BY <1>2, <1>7, <1>10 DEF TableInv

LEMMA TableStep == HeldInv /\ TableInv /\ [Next]_vars => TableInv'
<1> SUFFICES ASSUME HeldInv, TableInv, [Next]_vars PROVE TableInv'
  OBVIOUS
<1>1. CASE UNCHANGED vars
  BY <1>1 DEF vars, TableInv, Due, Unsettled
<1>2. ASSUME NEW n \in Ids, Queue(n) \/ Delete(n) PROVE TableInv'
  BY <1>2, QueueTables, DeleteTables
<1>3. CASE Minute
  BY <1>3, MinuteTables
<1>4. ASSUME NEW r \in Notifiers, Drain(r) PROVE TableInv'
  <2>1. ASSUME RecordFails(r) \/ Crash(r) PROVE TableInv'
    <3>1. UNCHANGED <<rows, line, delivered, shared>> /\ faults' <= MaxFaults
      BY <2>1 DEF RecordFails, Crash
    <3>2. Due' = Due
      BY <3>1 DEF Due, Unsettled
    <3>3. QED
      BY <3>1, <3>2 DEF TableInv
  <2>2. QED
    BY <1>4, <2>1, ClaimTables, SendTables, RecordTables DEF Drain, Sends
<1>5. QED
  BY <1>1, <1>2, <1>3, <1>4 DEF Next

(* The line holds the due rows once each, neither more nor less, a failed row *)
(* waits a positive number of minutes, and attempts stay within bounds.       *)
THEOREM TypeCorrect == Spec => []TypeOK
<1>1. Init => TableInv
  <2> SUFFICES ASSUME Init PROVE TableInv
    OBVIOUS
  <2>1. DOMAIN rows = {} /\ rows \in [DOMAIN rows -> Row] /\ shared = {} /\ faults = 0
        /\ delivered = [n \in Ids |-> 0]
    BY DEF Init
  <2>2. Due = {}
    BY <2>1 DEF Due, Unsettled
  <2>3. QED
    BY <2>1, <2>2, NotifierAssumption DEF TableInv
<1>2. HeldInv /\ TableInv /\ AttemptsAreBounded => TypeOK
  <2> SUFFICES ASSUME HeldInv, TableInv, AttemptsAreBounded PROVE TypeOK
    OBVIOUS
  <2>1. \A r \in Notifiers : ToSet(jobs[r]) \subseteq Job
    BY DEF HeldInv, HeldTypes, ToSet
  <2>2. ToSet(line) = Due /\ IsInjective(line) /\ DOMAIN rows \subseteq Ids
    BY DEF HeldInv, HeldTypes, TableInv
  <2>3. faults \in 0 .. MaxFaults
    BY NotifierAssumption DEF HeldInv, HeldTypes, TableInv
  <2>4. QED
    BY <2>1, <2>2, <2>3 DEF TypeOK, HeldInv, HeldTypes, TableInv
<1>3. QED
  BY <1>1, <1>2, TableStep, HeldInvariant, GivenUpAfterMaxAttempts, PTL DEF Spec
=============================================================================
