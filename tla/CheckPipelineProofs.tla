------------------------- MODULE CheckPipelineProofs -------------------------
(* Proofs about the check pipeline, for any number of schedulers, workers   *)
(* and monitors.                                                            *)
EXTENDS CheckPipeline, FiniteSetTheorems, TLAPS

-----------------------------------------------------------------------------
(* What travels through the pipeline: ids of monitors, and outcomes that are *)
(* successes or failures.                                                    *)
Travelling ==
    /\ agenda \in Seq(Monitors)
    /\ claimed \in [Schedulers -> SUBSET Monitors]
    /\ queue \in Seq(Monitors)
    /\ work \in [Workers -> SUBSET Check]
    /\ site \in [Monitors -> BOOLEAN]

(* What is left of the agenda: a sequence of monitors, none of them gone. *)
LEMMA RestOfAgenda ==
    ASSUME NEW T, agenda \in Seq(T), NEW gone, NEW rest \in AgendaWithout(gone)
    PROVE  /\ rest \in Seq(T \ gone) /\ rest \in Seq(T)
           /\ ToSet(rest) \subseteq ToSet(agenda) \ gone
           /\ \A i, j \in DOMAIN rest : rest[i] = rest[j] => i = j
<1> DEFINE S == ToSet(agenda) \ gone
<1>1. IsFiniteSet(ToSet(agenda)) /\ ToSet(agenda) \subseteq T
  <2>1. agenda \in Surjection(1 .. Len(agenda), ToSet(agenda))
    BY DEF Surjection, ToSet
  <2>2. IsFiniteSet(1 .. Len(agenda))
    BY FS_Interval
  <2>3. ToSet(agenda) \subseteq T
    BY DEF ToSet
  <2> QED BY <2>1, <2>2, <2>3, FS_Surjection
<1>2. IsFiniteSet(S) /\ Cardinality(S) \in Nat
  BY <1>1, FS_Subset, FS_CardinalityType
<1>3. rest \in [1 .. Cardinality(S) -> S]
      /\ \A i, j \in 1 .. Cardinality(S) : i # j => rest[i] # rest[j]
  BY DEF AgendaWithout, SetToSeqs
<1>4. S \subseteq T \ gone
  BY <1>1
<1> HIDE DEF S
<1>5. rest \in Seq(S) /\ DOMAIN rest = 1 .. Cardinality(S)
  BY <1>2, <1>3
<1>6. ToSet(rest) \subseteq S
  BY <1>3 DEF ToSet
<1>7. rest \in Seq(T \ gone)
  BY <1>4, <1>5
<1>8. rest \in Seq(T)
  BY <1>7
<1> QED BY <1>3, <1>5, <1>6, <1>7, <1>8 DEF S

(* A claim returns monitors of the agenda. *)
LEMMA ClaimableIsDue ==
    /\ Claimable \subseteq ToSet(agenda)
    /\ agenda \in Seq(Monitors) => Claimable \subseteq Monitors
<1>1. Claimable \subseteq {agenda[k] : k \in DOMAIN agenda}
  <2> DEFINE due == {k \in DOMAIN agenda : enabled[agenda[k]]}
             first == {j \in due : Cardinality({i \in due : i <= j}) <= Limit}
  <2>1. Claimable = {agenda[k] : k \in first}
    BY DEF Claimable
  <2>2. first \subseteq DOMAIN agenda
    OBVIOUS
  <2> HIDE DEF first
  <2> QED BY <2>1, <2>2
<1> QED BY <1>1 DEF ToSet

LEMMA TravellingStep == Travelling /\ [Next]_pipeline => Travelling'
<1> SUFFICES ASSUME Travelling, [Next]_pipeline PROVE Travelling'
  OBVIOUS
<1> USE DEF Travelling
<1>1. CASE UNCHANGED pipeline
  BY <1>1 DEF pipeline
<1>2. ASSUME NEW s \in Schedulers, Claim(s) \/ SchedulerDies(s) PROVE Travelling'
  <2>1. Claimable \subseteq Monitors
    BY ClaimableIsDue
  <2>2. \A rest \in AgendaWithout(Claimable) : rest \in Seq(Monitors)
    BY RestOfAgenda
  <2>3. CASE Claim(s)
    BY <2>1, <2>2, <2>3 DEF Claim
  <2>4. CASE SchedulerDies(s)
    BY <2>4 DEF SchedulerDies
  <2> QED BY <1>2, <2>3, <2>4
<1>3. ASSUME NEW s \in Schedulers, NEW m \in Monitors, Push(s, m) \/ PushFails(s, m)
      PROVE Travelling'
  <2>1. Append(queue, m) \in Seq(Monitors)
    OBVIOUS
  <2>2. claimed' = [claimed EXCEPT ![s] = @ \ {m}] /\ agenda' = agenda
        /\ work' = work /\ site' = site
    BY <1>3 DEF Push, PushFails
  <2>3. queue' \in {queue, Append(queue, m)}
    BY <1>3 DEF Push, PushFails
  <2> QED BY <2>1, <2>2, <2>3
<1>4. ASSUME NEW w \in Workers, Pop(w) PROVE Travelling'
  <2>1. Head(queue) \in Monitors /\ Tail(queue) \in Seq(Monitors)
    BY <1>4 DEF Pop
  <2>2. {[id |-> Head(queue), stage |-> "load", ok |-> FALSE]} \subseteq Check
    BY <2>1 DEF Check, Stages
  <2> QED BY <1>4, <2>1, <2>2 DEF Pop
<1>5. ASSUME NEW w \in Workers, Probe(w) PROVE Travelling'
  <2>1. PICK c \in work[w] :
          work' = [work EXCEPT ![w] =
                IF Exists(c.id) THEN {[c EXCEPT !.stage = "save", !.ok = site[c.id]]}
                                  ELSE {}]
    BY <1>5 DEF Probe
  <2>2. c \in Check
    OBVIOUS
  <2>3. [c EXCEPT !.stage = "save", !.ok = site[c.id]] \in Check
    BY <2>2 DEF Check, Stages
  <2>4. work' \in [Workers -> SUBSET Check]
    BY <2>1, <2>3
  <2> QED BY <1>5, <2>4 DEF Probe
<1>6. ASSUME NEW w \in Workers, Save(w) PROVE Travelling'
  <2>1. PICK c \in work[w] : work' = [work EXCEPT ![w] = {[c EXCEPT !.stage = "process"]}]
    BY <1>6 DEF Save
  <2>2. [c EXCEPT !.stage = "process"] \in Check
    BY DEF Check, Stages
  <2>3. work' \in [Workers -> SUBSET Check]
    BY <2>1, <2>2
  <2> QED BY <1>6, <2>3 DEF Save
<1>7. ASSUME NEW w \in Workers, WorkerDrops(w) \/ \E c \in work[w] : Process(w, c)
      PROVE Travelling'
  BY <1>7 DEF WorkerDrops, Process
<1>8. ASSUME NEW m \in Monitors, Interval(m) \/ Flip(m) \/ Configure(m)
      PROVE Travelling'
  <2>1. CASE Flip(m)
    BY <2>1 DEF Flip
  <2>2. CASE Interval(m) \/ Configure(m)
    <3>1. \A rest \in AgendaWithout({m}) :
            rest \in Seq(Monitors) /\ Append(rest, m) \in Seq(Monitors)
      <4>1. agenda \in Seq(Monitors)
        OBVIOUS
      <4> HIDE DEF Travelling
      <4>2. \A rest \in AgendaWithout({m}) : rest \in Seq(Monitors)
        BY <4>1, RestOfAgenda
      <4> QED BY <4>2
    <3>2. Append(agenda, m) \in Seq(Monitors)
      OBVIOUS
    <3> QED BY <2>2, <3>1, <3>2
            DEF Interval, Configure, Appear, Disappear, Pause, Resume
  <2> QED BY <1>8, <2>1, <2>2
<1> QED BY <1>1, <1>2, <1>3, <1>4, <1>5, <1>6, <1>7, <1>8
        DEF Next, Schedule, Prepare

-----------------------------------------------------------------------------
(* Type correctness. *)

(* The tables of the pipeline, next to what travels. *)
Tables ==
    /\ enabled \in [DOMAIN enabled -> BOOLEAN] /\ DOMAIN enabled \subseteq Monitors
    /\ agenda \in Seq(DOMAIN enabled) /\ IsInjective(agenda)
    /\ \A w \in Workers : work[w] = {} \/ \E c : work[w] = {c}
    /\ DOMAIN results = DOMAIN enabled
    /\ \A m \in DOMAIN results : results[m] \in Seq(BOOLEAN) /\ Len(results[m]) <= Kept

(* At the end of a sequence there is as much of it as was asked for. *)
LEMMA LatestIsShort ==
    ASSUME NEW seq \in Seq(BOOLEAN), NEW n \in Nat
    PROVE  Latest(seq, n) \in Seq(BOOLEAN) /\ Len(Latest(seq, n)) <= n
<1> DEFINE first == IF Len(seq) > n THEN Len(seq) - n + 1 ELSE 1
<1>1. first \in Nat \ {0} /\ Len(seq) - first + 1 <= n /\ Len(seq) \in Nat
  OBVIOUS
<1>2. Latest(seq, n) = SubSeq(seq, first, Len(seq))
  BY DEF Latest
<1> HIDE DEF first
<1>3. SubSeq(seq, first, Len(seq)) \in Seq(BOOLEAN)
      /\ Len(SubSeq(seq, first, Len(seq)))
           = IF first <= Len(seq) THEN Len(seq) - first + 1 ELSE 0
  BY <1>1
<1> QED BY <1>1, <1>2, <1>3

LEMMA TablesStep == Travelling /\ Tables /\ [Next]_pipeline => Tables'
<1> SUFFICES ASSUME Travelling, Tables, [Next]_pipeline PROVE Tables'
  OBVIOUS
<1>1. CASE UNCHANGED pipeline
  BY <1>1 DEF pipeline, Tables, IsInjective
<1>2. ASSUME NEW s \in Schedulers, Claim(s) PROVE Tables'
  <2>1. agenda' \in AgendaWithout(Claimable) /\ agenda \in Seq(DOMAIN enabled)
        /\ UNCHANGED <<enabled, work, results>>
    BY <1>2 DEF Claim, Tables
  <2>2. agenda' \in Seq(DOMAIN enabled)
        /\ \A i, j \in DOMAIN agenda' : agenda'[i] = agenda'[j] => i = j
    BY <2>1, RestOfAgenda
  <2> QED BY <2>1, <2>2 DEF Tables, IsInjective
<1>3. ASSUME NEW s \in Schedulers,
             SchedulerDies(s) \/ \E m \in Monitors : Push(s, m) \/ PushFails(s, m)
      PROVE  Tables'
  BY <1>3 DEF Push, PushFails, SchedulerDies, Tables, IsInjective
<1>4. ASSUME NEW w \in Workers,
             Pop(w) \/ Probe(w) \/ WorkerDrops(w) \/ \E c \in work[w] : Process(w, c)
      PROVE  Tables'
  <2>1. UNCHANGED <<enabled, agenda, results>>
    BY <1>4 DEF Pop, Probe, WorkerDrops, Process
  <2>2. \E b : work' = [work EXCEPT ![w] = b] /\ (b = {} \/ \E c : b = {c})
    BY <1>4 DEF Pop, Probe, WorkerDrops, Process
  <2>3. \A v \in Workers : work'[v] = {} \/ \E c : work'[v] = {c}
    BY <2>2 DEF Tables, Travelling
  <2> QED BY <2>1, <2>3 DEF Tables, IsInjective
<1>5. ASSUME NEW w \in Workers, Save(w) PROVE Tables'
  <2>1. PICK c \in work[w] :
          /\ work' = [work EXCEPT ![w] = {[c EXCEPT !.stage = "process"]}]
          /\ results' = IF Exists(c.id)
                THEN [results EXCEPT ![c.id] = Latest(Append(@, c.ok), Kept)]
                ELSE results
    BY <1>5 DEF Save
  <2>2. \A v \in Workers : work'[v] = {} \/ \E k : work'[v] = {k}
    BY <2>1 DEF Tables, Travelling
  <2>3. UNCHANGED <<enabled, agenda>>
    BY <1>5 DEF Save
  <2>4. c.ok \in BOOLEAN
    BY DEF Travelling, Check
  <2>5. DOMAIN results' = DOMAIN enabled
    BY <2>1 DEF Tables
  <2>6. ASSUME NEW m \in DOMAIN results'
        PROVE  results'[m] \in Seq(BOOLEAN) /\ Len(results'[m]) <= Kept
    <3>1. results[m] \in Seq(BOOLEAN) /\ Len(results[m]) <= Kept /\ m \in DOMAIN results
      BY <2>5, <2>6 DEF Tables
    <3>2. Append(results[m], c.ok) \in Seq(BOOLEAN)
      BY <2>4, <3>1
    <3>3. results'[m] \in {results[m], Latest(Append(results[m], c.ok), Kept)}
      BY <2>1, <3>1
    <3> QED BY <3>1, <3>2, <3>3, LatestIsShort, PipelineAssumption
  <2> QED BY <2>2, <2>3, <2>5, <2>6 DEF Tables, IsInjective
<1>6. ASSUME NEW m \in Monitors, Interval(m) \/ Flip(m) \/ Pause(m) PROVE Tables'
  <2>1. CASE Interval(m)
    <3>1. agenda' = Append(agenda, m) /\ m \in DOMAIN enabled
          /\ UNCHANGED <<enabled, work, results>>
          /\ \A i \in DOMAIN agenda : agenda[i] # m
      BY <2>1 DEF Interval, Exists, ToSet
    <3>2. agenda' \in Seq(DOMAIN enabled) /\ IsInjective(agenda')
      BY <3>1 DEF Tables, IsInjective
    <3> QED BY <3>1, <3>2 DEF Tables, IsInjective
  <2>2. CASE Flip(m) \/ Pause(m)
    BY <2>2 DEF Flip, Pause, Tables, IsInjective
  <2> QED BY <1>6, <2>1, <2>2
<1>7. ASSUME NEW m \in Monitors, Appear(m) PROVE Tables'
  <2>1. /\ agenda' = Append(agenda, m) /\ m \notin DOMAIN enabled /\ UNCHANGED work
        /\ enabled' = [k \in DOMAIN enabled \cup {m} |-> IF k = m THEN TRUE ELSE enabled[k]]
        /\ results' = [k \in DOMAIN enabled \cup {m} |-> IF k = m THEN <<>> ELSE results[k]]
    BY <1>7 DEF Appear, Exists
  <2>2. \A i \in DOMAIN agenda : agenda[i] # m
    BY <2>1 DEF Tables
  <2>3. agenda' \in Seq(DOMAIN enabled') /\ IsInjective(agenda')
    <3>1. agenda \in Seq(DOMAIN enabled') /\ m \in DOMAIN enabled'
      BY <2>1 DEF Tables
    <3> QED BY <2>1, <2>2, <3>1 DEF Tables, IsInjective
  <2>4. \A k \in DOMAIN results' : results'[k] \in Seq(BOOLEAN) /\ Len(results'[k]) <= Kept
    <3>1. \A k \in DOMAIN results' :
            results'[k] = <<>> \/ (k \in DOMAIN results /\ results'[k] = results[k])
      BY <2>1 DEF Tables
    <3>2. <<>> \in Seq(BOOLEAN) /\ Len(<<>>) <= Kept
      BY PipelineAssumption
    <3> QED BY <3>1, <3>2 DEF Tables
  <2> QED BY <2>1, <2>3, <2>4 DEF Tables, IsInjective
<1>8. ASSUME NEW m \in Monitors, Disappear(m) PROVE Tables'
  <2>1. /\ agenda' \in AgendaWithout({m}) /\ agenda \in Seq(DOMAIN enabled)
        /\ enabled' = [k \in DOMAIN enabled \ {m} |-> enabled[k]]
        /\ results' = [k \in DOMAIN enabled \ {m} |-> results[k]]
        /\ UNCHANGED work
    BY <1>8 DEF Disappear, Tables
  <2>2. agenda' \in Seq(DOMAIN enabled \ {m})
        /\ \A i, j \in DOMAIN agenda' : agenda'[i] = agenda'[j] => i = j
    BY <2>1, RestOfAgenda
  <2> QED BY <2>1, <2>2 DEF Tables, IsInjective
<1>9. ASSUME NEW m \in Monitors, Resume(m) PROVE Tables'
  <2>1. PICK rest \in AgendaWithout({m}) : agenda' = Append(rest, m)
    BY <1>9 DEF Resume
  <2>2. /\ agenda \in Seq(DOMAIN enabled) /\ m \in DOMAIN enabled
        /\ enabled' = [enabled EXCEPT ![m] = TRUE] /\ UNCHANGED <<work, results>>
    BY <1>9 DEF Resume, Exists, Tables
  <2>3. /\ rest \in Seq(DOMAIN enabled) /\ rest \in Seq(DOMAIN enabled \ {m})
        /\ \A i, j \in DOMAIN rest : rest[i] = rest[j] => i = j
    BY <2>2, RestOfAgenda
  <2>4. \A i \in DOMAIN rest : rest[i] # m
    BY <2>3
  <2>5. agenda' \in Seq(DOMAIN enabled)
        /\ \A i, j \in DOMAIN agenda' : agenda'[i] = agenda'[j] => i = j
    BY <2>1, <2>2, <2>3, <2>4
  <2>6. enabled' \in [DOMAIN enabled -> BOOLEAN] /\ DOMAIN enabled' = DOMAIN enabled
    BY <2>2 DEF Tables
  <2>7. DOMAIN enabled' \subseteq Monitors /\ DOMAIN results' = DOMAIN enabled'
        /\ \A w \in Workers : work'[w] = {} \/ \E c : work'[w] = {c}
    BY <2>2, <2>6 DEF Tables
  <2>8. \A k \in DOMAIN results' : results'[k] \in Seq(BOOLEAN) /\ Len(results'[k]) <= Kept
    BY <2>2 DEF Tables
  <2>9. /\ enabled' \in [DOMAIN enabled' -> BOOLEAN]
        /\ agenda' \in Seq(DOMAIN enabled') /\ IsInjective(agenda')
    BY <2>5, <2>6 DEF IsInjective
  <2> QED BY <2>7, <2>8, <2>9 DEF Tables, IsInjective
<1> QED BY <1>1, <1>2, <1>3, <1>4, <1>5, <1>6, <1>7, <1>8, <1>9
        DEF Next, Schedule, Prepare, Configure

(* The pipeline is type correct: the agenda holds existing monitors, none of *)
(* them twice, a worker has one check at most, and exactly the existing      *)
(* monitors have results.                                                    *)
THEOREM TypeCorrect == Spec => []TypeOK
<1>1. Init => Travelling /\ Tables
  <2>1. Init => Travelling
    BY DEF Init, Travelling
  <2>2. Init => Tables
    BY DEF Init, Tables, IsInjective
  <2> QED BY <2>1, <2>2
<1>2. Travelling /\ Tables /\ [Next]_pipeline => (Travelling /\ Tables)'
  BY TravellingStep, TablesStep
<1>3. Travelling /\ Tables => TypeOK
  <2> SUFFICES ASSUME Travelling, Tables PROVE TypeOK
    OBVIOUS
  <2>1. \A w \in Workers : Cardinality(work[w]) <= 1
    <3> SUFFICES ASSUME NEW w \in Workers PROVE Cardinality(work[w]) <= 1
      OBVIOUS
    <3>1. CASE work[w] = {}
      BY <3>1, FS_EmptySet
    <3>2. CASE \E c : work[w] = {c}
      <4>1. PICK c : work[w] = {c}
        BY <3>2
      <4>2. Cardinality({c}) = 1
        BY FS_Singleton
      <4> QED BY <4>1, <4>2
    <3> QED BY <3>1, <3>2 DEF Tables
  <2> QED BY <2>1 DEF TypeOK, Travelling, Tables
<1> QED BY <1>1, <1>2, <1>3, PTL DEF Spec

-----------------------------------------------------------------------------
(* How many checks of a monitor are under way. *)

(* The places of m in a queue are finitely many, and one more when m joins   *)
(* its end.                                                                  *)
LEMMA CountOfLonger ==
    ASSUME NEW S, NEW q \in Seq(S), NEW x \in S, NEW m
    PROVE  /\ Count(m, q) \in Nat
           /\ Count(m, Append(q, x)) = Count(m, q) + IF x = m THEN 1 ELSE 0
<1> DEFINE places(s) == {k \in DOMAIN s : s[k] = m}
<1>0. \A s : Count(m, s) = Cardinality(places(s))
  BY DEF Count
<1>1. IsFiniteSet(places(q)) /\ Cardinality(places(q)) \in Nat
  <2>1. IsFiniteSet(1 .. Len(q))
    BY FS_Interval
  <2>2. places(q) \subseteq 1 .. Len(q)
    OBVIOUS
  <2> QED BY <2>1, <2>2, FS_Subset, FS_CardinalityType
<1>2. Len(q) + 1 \notin places(q)
  OBVIOUS
<1>3. /\ Append(q, x) \in Seq(S) /\ Len(Append(q, x)) = Len(q) + 1
      /\ Append(q, x)[Len(q) + 1] = x
      /\ \A k \in 1 .. Len(q) : Append(q, x)[k] = q[k]
      /\ DOMAIN Append(q, x) = 1 .. Len(q) + 1 /\ DOMAIN q = 1 .. Len(q)
  OBVIOUS
<1>4. CASE x = m
  <2>1. places(Append(q, x)) = places(q) \cup {Len(q) + 1}
    BY <1>3, <1>4
  <2> HIDE DEF places
  <2>2. Cardinality(places(Append(q, x))) = Cardinality(places(q)) + 1
    BY <1>1, <1>2, <2>1, FS_AddElement
  <2> QED BY <1>0, <1>1, <1>4, <2>2
<1>5. CASE x # m
  <2>1. places(Append(q, x)) = places(q)
    BY <1>3, <1>5
  <2> HIDE DEF places
  <2> QED BY <1>0, <1>1, <1>5, <2>1
<1> QED BY <1>4, <1>5

(* One less when it leaves its head. *)
LEMMA CountOfTail ==
    ASSUME NEW S, NEW q \in Seq(S), q # <<>>, NEW m
    PROVE  Count(m, q) = Count(m, Tail(q)) + IF Head(q) = m THEN 1 ELSE 0
<1> DEFINE places(s) == {k \in DOMAIN s : s[k] = m}
           later == places(q) \ {1}
           move == [k \in places(Tail(q)) |-> k + 1]
<1>0. \A s : Count(m, s) = Cardinality(places(s))
  BY DEF Count
<1>1. /\ Tail(q) \in Seq(S) /\ Len(Tail(q)) = Len(q) - 1 /\ Len(q) >= 1
      /\ \A k \in 1 .. Len(q) - 1 : Tail(q)[k] = q[k + 1]
      /\ DOMAIN Tail(q) = 1 .. Len(q) - 1 /\ DOMAIN q = 1 .. Len(q)
      /\ Head(q) = q[1]
  OBVIOUS
<1>2. IsFiniteSet(places(q)) /\ IsFiniteSet(places(Tail(q)))
  <2>1. IsFiniteSet(1 .. Len(q)) /\ Len(q) \in Nat
    BY FS_Interval
  <2>2. places(q) \subseteq 1 .. Len(q) /\ places(Tail(q)) \subseteq 1 .. Len(q)
    BY <1>1
  <2> QED BY <2>1, <2>2, FS_Subset
<1>3. move \in Bijection(places(Tail(q)), later)
  <2>1. \A k \in places(Tail(q)) : k \in Nat /\ k + 1 \in later
    BY <1>1
  <2>2. \A j \in later : j - 1 \in places(Tail(q)) /\ j = (j - 1) + 1 /\ j \in Nat
    BY <1>1
  <2> HIDE DEF later, places
  <2>3. move \in [places(Tail(q)) -> later]
    BY <2>1
  <2>4. \A j \in later : \E k \in places(Tail(q)) : move[k] = j
    <3> SUFFICES ASSUME NEW j \in later PROVE \E k \in places(Tail(q)) : move[k] = j
      OBVIOUS
    <3>1. move[j - 1] = j
      BY <2>2
    <3> QED BY <2>2, <3>1
  <2>5. \A a, b \in places(Tail(q)) : move[a] = move[b] => a = b
    BY <2>1
  <2> QED BY <2>3, <2>4, <2>5 DEF Bijection, Injection, Surjection, IsInjective
<1>4. Cardinality(later) = Cardinality(places(Tail(q))) /\ Cardinality(later) \in Nat
  <2> HIDE DEF later, places, move
  <2>1. ExistsBijection(places(Tail(q)), later)
    BY <1>3 DEF ExistsBijection
  <2> QED BY <1>2, <2>1, FS_Bijection, FS_CardinalityType
<1>5. CASE Head(q) = m
  <2>1. 1 \in places(q)
    BY <1>1, <1>5
  <2>2. Cardinality(later) = Cardinality(places(q)) - 1 /\ Cardinality(places(q)) \in Nat
    <3> HIDE DEF places
    <3> QED BY <1>2, <2>1, FS_RemoveElement, FS_CardinalityType
  <2> HIDE DEF places, later
  <2> QED BY <1>0, <1>4, <1>5, <2>2
<1>6. CASE Head(q) # m
  <2>1. later = places(q)
    BY <1>1, <1>6
  <2> HIDE DEF places, later
  <2> QED BY <1>0, <1>4, <1>6, <2>1
<1> QED BY <1>5, <1>6

(* The three places where a check of m can be. *)
Holders(c, m) == {s \in Schedulers : m \in c[s]}
Busy(b, m) == {w \in Workers : \E k \in b[w] : k.id = m}
Load(c, q, b, m) == Cardinality(Holders(c, m)) + Count(m, q) + Cardinality(Busy(b, m))

LEMMA LoadIsUnderWay ==
    \A m : /\ UnderWay(m) = Load(claimed, queue, work, m)
           /\ UnderWay(m)' = Load(claimed', queue', work', m)
BY DEF UnderWay, Load, Holders, Busy

LEMMA LoadIsFinite ==
    ASSUME NEW c, NEW b, NEW q \in Seq(Monitors), NEW m \in Monitors
    PROVE  /\ IsFiniteSet(Holders(c, m)) /\ Cardinality(Holders(c, m)) \in Nat
           /\ IsFiniteSet(Busy(b, m)) /\ Cardinality(Busy(b, m)) \in Nat
           /\ Count(m, q) \in Nat
<1>1. Holders(c, m) \subseteq Schedulers /\ Busy(b, m) \subseteq Workers
  BY DEF Holders, Busy
<1> QED BY <1>1, FS_Subset, FS_CardinalityType, CountOfLonger, PipelineAssumption

LEMMA LoadParts ==
    ASSUME Travelling, Travelling', NEW m \in Monitors
    PROVE  /\ UnderWay(m) = Cardinality(Holders(claimed, m)) + Count(m, queue)
                               + Cardinality(Busy(work, m))
           /\ UnderWay(m)' = Cardinality(Holders(claimed', m)) + Count(m, queue')
                                + Cardinality(Busy(work', m))
           /\ Cardinality(Holders(claimed, m)) \in Nat
           /\ Cardinality(Holders(claimed', m)) \in Nat
           /\ Cardinality(Busy(work, m)) \in Nat
           /\ Cardinality(Busy(work', m)) \in Nat
           /\ Count(m, queue) \in Nat /\ Count(m, queue') \in Nat
<1>1. queue \in Seq(Monitors) /\ queue' \in Seq(Monitors)
  BY DEF Travelling
<1> QED BY <1>1, LoadIsFinite, LoadIsUnderWay DEF Load

(* No more than MaxInFlight checks of a monitor are under way, and fewer as  *)
(* long as it waits in the agenda: whoever claims it adds one.               *)
InFlight ==
    \A m \in Monitors :
        /\ UnderWay(m) <= MaxInFlight
        /\ m \in ToSet(agenda) => UnderWay(m) < MaxInFlight

(* What a step may do to it: add nothing of m and not put it on the agenda,  *)
(* take it off the agenda for one check more, or put it there with room.     *)
LEMMA InFlightByMonitor ==
    ASSUME InFlight, Travelling, Travelling',
           \A m \in Monitors :
               \/ /\ UnderWay(m)' <= UnderWay(m)
                  /\ m \in ToSet(agenda)' => m \in ToSet(agenda)
               \/ /\ UnderWay(m)' = UnderWay(m) + 1
                  /\ m \in ToSet(agenda) /\ m \notin ToSet(agenda)'
               \/ UnderWay(m)' = UnderWay(m) /\ UnderWay(m) < MaxInFlight
    PROVE  InFlight'
<1>1. ASSUME NEW m \in Monitors
      PROVE  UnderWay(m) \in Nat /\ UnderWay(m)' \in Nat
  BY LoadParts
<1> QED BY <1>1, PipelineAssumption DEF InFlight

(* What the pushes, claims and pops do to the load. *)
LEMMA FewerHolders ==
    ASSUME NEW c, NEW d, NEW m \in Monitors, Holders(d, m) \subseteq Holders(c, m)
    PROVE  Cardinality(Holders(d, m)) <= Cardinality(Holders(c, m))
<1>1. IsFiniteSet(Holders(c, m))
  BY LoadIsFinite, <<>> \in Seq(Monitors)
<1> QED BY <1>1, FS_Subset

LEMMA FewerBusy ==
    ASSUME NEW b, NEW d, NEW m \in Monitors, Busy(d, m) \subseteq Busy(b, m)
    PROVE  Cardinality(Busy(d, m)) <= Cardinality(Busy(b, m))
<1>1. IsFiniteSet(Busy(b, m))
  BY LoadIsFinite, <<>> \in Seq(Monitors)
<1> QED BY <1>1, FS_Subset

LEMMA InFlightClaims ==
    ASSUME InFlight, Travelling, Travelling', NEW s \in Schedulers,
           Claim(s) \/ SchedulerDies(s)
    PROVE  InFlight'
<1> DEFINE taken == Claimable
<1>1. queue' = queue /\ work' = work
  BY DEF Claim, SchedulerDies
<1>2. CASE SchedulerDies(s)
  <2>1. agenda' = agenda /\ claimed' = [claimed EXCEPT ![s] = {}]
    BY <1>2 DEF SchedulerDies
  <2>2. \A m \in Monitors : Holders(claimed', m) \subseteq Holders(claimed, m)
    BY <2>1 DEF Holders, Travelling
  <2>3. ASSUME NEW m \in Monitors
        PROVE  UnderWay(m)' <= UnderWay(m)
    <3>1. Cardinality(Holders(claimed', m)) <= Cardinality(Holders(claimed, m))
      BY <2>2, FewerHolders
    <3>2. Count(m, queue') = Count(m, queue) /\ Busy(work', m) = Busy(work, m)
      BY <1>1
    <3> QED BY <3>1, <3>2, LoadParts
  <2>4. ToSet(agenda)' = ToSet(agenda)
    BY <2>1
  <2> QED BY <2>3, <2>4, InFlightByMonitor
<1>3. CASE Claim(s)
  <2>1. /\ claimed[s] = {} /\ claimed' = [claimed EXCEPT ![s] = taken]
        /\ agenda' \in AgendaWithout(taken)
    BY <1>3 DEF Claim
  <2>2. ToSet(agenda)' \subseteq ToSet(agenda) \ taken /\ taken \subseteq ToSet(agenda)
    <3>1. ToSet(agenda') \subseteq ToSet(agenda) \ taken
      BY <2>1, RestOfAgenda DEF Travelling
    <3> QED BY <3>1, ClaimableIsDue
  <2> HIDE DEF taken
  <2>3. ASSUME NEW m \in Monitors, m \in taken
        PROVE  UnderWay(m)' = UnderWay(m) + 1
    <3>1. Holders(claimed', m) = Holders(claimed, m) \cup {s} /\ s \notin Holders(claimed, m)
      BY <2>1, <2>3 DEF Holders, Travelling
    <3>2. Cardinality(Holders(claimed', m)) = Cardinality(Holders(claimed, m)) + 1
      BY <3>1, LoadIsFinite, FS_AddElement DEF Travelling
    <3>3. Count(m, queue') = Count(m, queue) /\ Busy(work', m) = Busy(work, m)
      BY <1>1
    <3> QED BY <3>2, <3>3, LoadParts
  <2>4. ASSUME NEW m \in Monitors, m \notin taken
        PROVE  UnderWay(m)' <= UnderWay(m)
    <3>1. Holders(claimed', m) \subseteq Holders(claimed, m)
      BY <2>1, <2>4 DEF Holders, Travelling
    <3>2. Cardinality(Holders(claimed', m)) <= Cardinality(Holders(claimed, m))
      BY <3>1, FewerHolders
    <3>3. Count(m, queue') = Count(m, queue) /\ Busy(work', m) = Busy(work, m)
      BY <1>1
    <3> QED BY <3>2, <3>3, LoadParts
  <2> QED BY <2>2, <2>3, <2>4, InFlightByMonitor
<1> QED BY <1>2, <1>3

LEMMA InFlightPushes ==
    ASSUME InFlight, Travelling, Travelling', NEW s \in Schedulers, NEW x \in Monitors,
           Push(s, x) \/ PushFails(s, x)
    PROVE  InFlight'
<1>1. /\ work' = work /\ agenda' = agenda
      /\ x \in claimed[s] /\ claimed' = [claimed EXCEPT ![s] = @ \ {x}]
      /\ queue' = Append(queue, x) \/ queue' = queue
  BY DEF Push, PushFails
<1>2. \A m \in Monitors :
        /\ Count(m, queue) \in Nat /\ Count(m, queue') \in Nat
        /\ Count(m, queue') <= Count(m, queue) + IF x = m THEN 1 ELSE 0
  <2>1. queue \in Seq(Monitors)
    BY DEF Travelling
  <2> SUFFICES ASSUME NEW m \in Monitors
        PROVE  /\ Count(m, queue) \in Nat /\ Count(m, queue') \in Nat
               /\ Count(m, queue') <= Count(m, queue) + IF x = m THEN 1 ELSE 0
    OBVIOUS
  <2>2. /\ Count(m, queue) \in Nat
        /\ Count(m, Append(queue, x)) = Count(m, queue) + IF x = m THEN 1 ELSE 0
    BY <2>1, CountOfLonger
  <2>3. CASE queue' = queue
    <3>1. Count(m, queue') = Count(m, queue)
      BY <2>3
    <3> QED BY <2>2, <3>1
  <2>4. CASE queue' = Append(queue, x)
    <3>1. Count(m, queue') = Count(m, Append(queue, x))
      BY <2>4
    <3>2. Count(m, Append(queue, x)) \in Nat
      BY <2>2
    <3> QED BY <2>2, <3>1, <3>2
  <2> QED BY <1>1, <2>3, <2>4
<1>3. \A m \in Monitors :
        /\ UnderWay(m) = Cardinality(Holders(claimed, m)) + Count(m, queue)
                            + Cardinality(Busy(work, m))
        /\ UnderWay(m)' = Cardinality(Holders(claimed', m)) + Count(m, queue')
                             + Cardinality(Busy(work, m))
        /\ Cardinality(Holders(claimed, m)) \in Nat
        /\ Cardinality(Holders(claimed', m)) \in Nat
        /\ Cardinality(Busy(work, m)) \in Nat
  BY <1>1, LoadParts
<1>4. ASSUME NEW m \in Monitors, m # x PROVE UnderWay(m)' <= UnderWay(m)
  <2>1. Holders(claimed', m) \subseteq Holders(claimed, m)
    BY <1>1 DEF Holders, Travelling
  <2>2. Cardinality(Holders(claimed', m)) <= Cardinality(Holders(claimed, m))
    BY <2>1, FewerHolders
  <2> QED BY <1>4, <1>2, <1>3, <2>2
<1>5. UnderWay(x)' <= UnderWay(x)
  <2>1. Holders(claimed', x) = Holders(claimed, x) \ {s} /\ s \in Holders(claimed, x)
    BY <1>1 DEF Holders, Travelling
  <2>2. Cardinality(Holders(claimed', x)) = Cardinality(Holders(claimed, x)) - 1
    <3>1. IsFiniteSet(Holders(claimed, x))
      BY LoadIsFinite DEF Travelling
    <3> QED BY <2>1, <3>1, FS_RemoveElement
  <2> QED BY <1>2, <1>3, <2>2
<1>6. ToSet(agenda)' = ToSet(agenda)
  BY <1>1
<1> QED BY <1>4, <1>5, <1>6, InFlightByMonitor

LEMMA InFlightPops ==
    ASSUME InFlight, Travelling, Travelling', NEW w \in Workers, Pop(w)
    PROVE  InFlight'
<1> DEFINE x == Head(queue)
<1>1. /\ claimed' = claimed /\ agenda' = agenda
      /\ work[w] = {} /\ queue # <<>> /\ queue' = Tail(queue)
      /\ work' = [work EXCEPT ![w] = {[id |-> x, stage |-> "load", ok |-> FALSE]}]
  BY DEF Pop
<1> HIDE DEF x
<1>2. ASSUME NEW m \in Monitors PROVE UnderWay(m)' <= UnderWay(m)
  <2>1. /\ UnderWay(m) = Cardinality(Holders(claimed, m)) + Count(m, queue)
                           + Cardinality(Busy(work, m))
        /\ UnderWay(m)' = Cardinality(Holders(claimed, m)) + Count(m, queue')
                            + Cardinality(Busy(work', m))
        /\ Cardinality(Holders(claimed, m)) \in Nat
        /\ Cardinality(Busy(work, m)) \in Nat /\ Cardinality(Busy(work', m)) \in Nat
        /\ Count(m, queue) \in Nat /\ Count(m, queue') \in Nat
    BY <1>1, LoadParts
  <2>2. Count(m, queue) = Count(m, queue') + IF x = m THEN 1 ELSE 0
    BY <1>1, CountOfTail DEF Travelling, x
  <2>3. IsFiniteSet(Busy(work, m))
    BY LoadIsFinite DEF Travelling
  <2>4. CASE x = m
    <3>1. Busy(work', m) = Busy(work, m) \cup {w} /\ w \notin Busy(work, m)
      BY <1>1, <2>4 DEF Busy, Travelling
    <3>2. Cardinality(Busy(work', m)) = Cardinality(Busy(work, m)) + 1
      BY <2>3, <3>1, FS_AddElement
    <3> QED BY <2>2, <2>4, <2>1, <3>2
  <2>5. CASE x # m
    <3>1. Busy(work', m) \subseteq Busy(work, m)
      BY <1>1, <2>5 DEF Busy, Travelling
    <3>2. Cardinality(Busy(work', m)) <= Cardinality(Busy(work, m))
      BY <3>1, FewerBusy
    <3> QED BY <2>2, <2>5, <2>1, <3>2
  <2> QED BY <2>4, <2>5
<1>3. ToSet(agenda)' = ToSet(agenda)
  BY <1>1
<1> QED BY <1>2, <1>3, InFlightByMonitor

(* A worker that goes on with its check, or drops it, takes on no other. *)
LEMMA InFlightWorks ==
    ASSUME InFlight, Travelling, Travelling', NEW w \in Workers,
           Probe(w) \/ Save(w) \/ WorkerDrops(w) \/ \E c \in work[w] : Process(w, c)
    PROVE  InFlight'
<1>1. claimed' = claimed /\ agenda' = agenda /\ queue' = queue
  BY DEF Probe, Save, WorkerDrops, Process
<1>2. \A m \in Monitors : Busy(work', m) \subseteq Busy(work, m)
  <2>1. CASE Probe(w)
    <3>1. PICK c \in work[w] :
            work' = [work EXCEPT ![w] =
                IF Exists(c.id) THEN {[c EXCEPT !.stage = "save", !.ok = site[c.id]]}
                                  ELSE {}]
      BY <2>1 DEF Probe
    <3>2. c \in Check
      BY DEF Travelling
    <3>3. [c EXCEPT !.stage = "save", !.ok = site[c.id]].id = c.id
      BY <3>2 DEF Check
    <3> QED BY <3>1, <3>3 DEF Busy, Travelling
  <2>2. CASE Save(w)
    <3>1. PICK c \in work[w] : work' = [work EXCEPT ![w] = {[c EXCEPT !.stage = "process"]}]
      BY <2>2 DEF Save
    <3>2. c \in Check
      BY DEF Travelling
    <3>3. [c EXCEPT !.stage = "process"].id = c.id
      BY <3>2 DEF Check
    <3> QED BY <3>1, <3>3 DEF Busy, Travelling
  <2>3. CASE work' = [work EXCEPT ![w] = {}]
    BY <2>3 DEF Busy, Travelling
  <2> QED BY <2>1, <2>2, <2>3 DEF WorkerDrops, Process
<1>3. ASSUME NEW m \in Monitors PROVE UnderWay(m)' <= UnderWay(m)
  <2>1. Cardinality(Busy(work', m)) <= Cardinality(Busy(work, m))
    BY <1>2, FewerBusy
  <2> QED BY <1>1, <2>1, LoadParts
<1>4. ToSet(agenda)' = ToSet(agenda)
  BY <1>1
<1> QED BY <1>3, <1>4, InFlightByMonitor

(* What falls due, appears or resumes has room; the rest adds nothing. *)
LEMMA InFlightOthers ==
    ASSUME InFlight, Travelling, Travelling', NEW x \in Monitors,
           Interval(x) \/ Flip(x) \/ Configure(x)
    PROVE  InFlight'
<1>1. claimed' = claimed /\ queue' = queue /\ work' = work
  BY DEF Interval, Flip, Configure, Appear, Disappear, Pause, Resume
<1>2. \A m \in Monitors : UnderWay(m)' = UnderWay(m) /\ UnderWay(m) \in Nat
  BY <1>1, LoadParts
<1>3. ASSUME NEW rest \in Seq(Monitors)
      PROVE  ToSet(Append(rest, x)) = ToSet(rest) \cup {x}
  BY DEF ToSet
<1>4. \/ ToSet(agenda') \subseteq ToSet(agenda)
      \/ /\ ToSet(agenda') \subseteq ToSet(agenda) \cup {x}
         /\ UnderWay(x) < MaxInFlight
  <2>1. CASE Interval(x) \/ Appear(x)
    <3>1. UnderWay(x) < MaxInFlight
      <4>1. CASE Interval(x)
        BY <4>1 DEF Interval
      <4>2. CASE UnderWay(x) = 0
        BY <4>2, PipelineAssumption
      <4> QED BY <2>1, <4>1, <4>2 DEF Appear
    <3>2. agenda' = Append(agenda, x) /\ agenda \in Seq(Monitors)
      BY <2>1 DEF Interval, Appear, Travelling
    <3> QED BY <1>3, <3>1, <3>2
  <2>2. CASE Flip(x) \/ Pause(x)
    BY <2>2 DEF Flip, Pause
  <2>3. CASE Disappear(x)
    BY <2>3, RestOfAgenda DEF Disappear, Travelling
  <2>4. CASE Resume(x)
    <3>1. PICK rest \in AgendaWithout({x}) : agenda' = Append(rest, x)
      BY <2>4 DEF Resume
    <3>2. rest \in Seq(Monitors) /\ ToSet(rest) \subseteq ToSet(agenda)
      <4>1. agenda \in Seq(Monitors)
        BY DEF Travelling
      <4> QED BY <4>1, RestOfAgenda
    <3> QED BY <1>3, <2>4, <3>1, <3>2 DEF Resume
  <2> QED BY <2>1, <2>2, <2>3, <2>4 DEF Configure
<1>5. ToSet(agenda)' = ToSet(agenda')
  OBVIOUS
<1> QED BY <1>2, <1>4, <1>5, InFlightByMonitor

(* However many schedulers and workers there are, and whatever they lose, a  *)
(* due instant leads to one check at most.                                   *)
THEOREM DueOnceCheckedOnce == Spec => []OneCheckPerDueInstant
<1>1. Init => Travelling /\ InFlight
  <2> SUFFICES ASSUME Init PROVE Travelling /\ InFlight
    OBVIOUS
  <2>1. Travelling
    BY DEF Init, Travelling
  <2>2. \A m \in Monitors : Holders(claimed, m) = {} /\ Busy(work, m) = {}
    BY DEF Init, Holders, Busy
  <2>3. \A m \in Monitors : Count(m, queue) = 0
    BY FS_EmptySet DEF Init, Count
  <2>4. \A m \in Monitors : UnderWay(m) = 0
    BY <2>2, <2>3, LoadIsUnderWay, FS_EmptySet DEF Load
  <2> QED BY <2>1, <2>4, PipelineAssumption DEF InFlight
<1>2. Travelling /\ InFlight /\ [Next]_pipeline => (Travelling /\ InFlight)'
  <2> SUFFICES ASSUME Travelling, InFlight, [Next]_pipeline
               PROVE  Travelling' /\ InFlight'
    OBVIOUS
  <2>1. Travelling'
    BY TravellingStep
  <2>2. CASE UNCHANGED pipeline
    <3>1. /\ claimed' = claimed /\ queue' = queue /\ work' = work
          /\ ToSet(agenda)' = ToSet(agenda)
      BY <2>2 DEF pipeline
    <3>2. \A m \in Monitors : UnderWay(m)' = UnderWay(m)
      BY <3>1, LoadIsUnderWay
    <3>3. \A m \in Monitors : m \in ToSet(agenda)' => m \in ToSet(agenda)
      BY <3>1
    <3>4. \A m \in Monitors : UnderWay(m)' <= UnderWay(m)
      BY <2>1, <3>1, <3>2, LoadParts
    <3> QED BY <2>1, <3>3, <3>4, InFlightByMonitor
  <2>3. CASE Next
    BY <2>1, <2>3, InFlightClaims, InFlightPushes, InFlightPops, InFlightWorks,
       InFlightOthers
       DEF Next, Schedule, Prepare
  <2> QED BY <2>1, <2>2, <2>3
<1>3. InFlight => OneCheckPerDueInstant
  BY DEF InFlight, OneCheckPerDueInstant
<1> QED BY <1>1, <1>2, <1>3, PTL DEF Spec
=============================================================================
