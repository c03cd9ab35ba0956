---------------------------- MODULE ClientProofs ----------------------------
(***************************************************************************)
(* Theorems about the load generator and its metrics, for any number of    *)
(* queries and replicas and any deadline, timeouts and lateness.           *)
(***************************************************************************)
EXTENDS Client, Lemmas

-----------------------------------------------------------------------------
(* The sum over the histograms.                                            *)

Pick(s) == CHOOSE x \in s : TRUE

\* g[s] is the sum of the f[x] for x \in s, for every subset s of D.
IsSum(g, f, D) ==
  g = [s \in SUBSET D |-> IF s = {} THEN 0 ELSE f[Pick(s)] + g[s \ {Pick(s)}]]

\* The recursion has a solution: one for the sets of at most k members, for
\* every k.
LEMMA SumExists ==
  ASSUME NEW D, IsFiniteSet(D), NEW f
  PROVE  \E g : IsSum(g, f, D)
<1> DEFINE Step(g, s) == IF s = {} THEN 0 ELSE f[Pick(s)] + g[s \ {Pick(s)}]
           Upto(g, k) == \A s \in SUBSET D : Cardinality(s) <= k => g[s] = Step(g, s)
           bad == {k \in Nat : ~ \E g : Upto(g, k)}
<1>1. \A s \in SUBSET D : IsFiniteSet(s) /\ Cardinality(s) \in Nat
  BY FS_Subset, FS_CardinalityType
<1>2. bad = {}
  <2> SUFFICES ASSUME bad # {} PROVE FALSE
    OBVIOUS
  <2>1. PICK k \in bad : \A l \in bad : k <= l
    <3> HIDE DEF Upto
    <3>1. bad \in SUBSET Nat
      OBVIOUS
    <3> HIDE DEF bad
    <3> QED
      BY <3>1, LeastNat
  <2>2. CASE k = 0
    <3>1. \A s \in SUBSET D : Cardinality(s) <= 0 => s = {}
      BY <1>1, FS_EmptySet
    <3>2. Upto([s \in SUBSET D |-> 0], 0)
      BY <3>1
    <3> QED
      BY <2>1, <2>2, <3>2
  <2>3. CASE k # 0
    <3>1. k \in Nat /\ k - 1 \in Nat /\ ~(k <= k - 1)
      BY <2>1, <2>3
    <3>2. PICK g : Upto(g, k - 1)
      <4> HIDE DEF Upto
      <4> QED
        BY <2>1, <3>1
    <3> DEFINE h == [s \in SUBSET D |-> Step(g, s)]
    <3>3. ASSUME NEW s \in SUBSET D, Cardinality(s) <= k
          PROVE  h[s] = Step(h, s)
      <4>1. CASE s = {}
        BY <4>1
      <4>2. CASE s # {}
        <5>1. Pick(s) \in s
          BY <4>2 DEF Pick
        <5>2. /\ s \ {Pick(s)} \in SUBSET D
              /\ Cardinality(s \ {Pick(s)}) <= k - 1
          BY <1>1, <3>1, <3>3, <5>1, FS_RemoveElement
        <5>3. h[s \ {Pick(s)}] = g[s \ {Pick(s)}]
          BY <3>2, <5>2
        <5> QED
          BY <4>2, <5>3
      <4> QED
        BY <4>1, <4>2
    <3>4. Upto(h, k)
      BY <3>3
    <3> QED
      BY <2>1, <3>4
  <2> QED
    BY <2>2, <2>3
<1>3. PICK g : Upto(g, Cardinality(D))
  <2>1. Cardinality(D) \in Nat
    BY <1>1
  <2> QED
    BY <1>2, <2>1
<1> DEFINE h == [s \in SUBSET D |-> g[s]]
<1>4. ASSUME NEW s \in SUBSET D
      PROVE  h[s] = Step(h, s)
  <2>1. Cardinality(s) <= Cardinality(D)
    BY FS_Subset
  <2>2. g[s] = Step(g, s)
    BY <1>3, <2>1
  <2>3. Step(g, s) = Step(h, s)
    OBVIOUS
  <2> QED
    BY <2>2, <2>3
<1>5. IsSum(h, f, D)
  BY <1>4 DEF IsSum
<1> QED
  BY <1>5

Total(f) == FoldFunction(+, 0, f)

\* FoldFunction is such a sum.
LEMMA FoldIsSum ==
  ASSUME NEW f, IsFiniteSet(DOMAIN f)
  PROVE  \E g : IsSum(g, f, DOMAIN f) /\ Total(f) = g[DOMAIN f]
<1> DEFINE h == CHOOSE g : IsSum(g, f, DOMAIN f)
<1>1. IsSum(h, f, DOMAIN f)
  BY SumExists
<1>2. Total(f) = h[DOMAIN f]
  BY DEF Total, FoldFunction, FoldFunctionOnSet, MapThenFoldSet, IsSum, Pick
<1> QED
  BY <1>1, <1>2

\* What a sum of naturals is, set by set.
LEMMA SumStep ==
  ASSUME NEW D, IsFiniteSet(D), NEW f, NEW g, IsSum(g, f, D), NEW s \in SUBSET D
  PROVE  /\ s = {} => g[s] = 0
         /\ s # {} => Pick(s) \in s /\ g[s] = f[Pick(s)] + g[s \ {Pick(s)}]
BY DEF IsSum, Pick

LEMMA SumInNat ==
  ASSUME NEW D, IsFiniteSet(D), NEW f \in [D -> Nat], NEW g, IsSum(g, f, D)
  PROVE  \A s \in SUBSET D : g[s] \in Nat
<1> DEFINE G == {s \in SUBSET D : g[s] \in Nat}
<1>1. ASSUME NEW s \in SUBSET D, \A x \in s : s \ {x} \in G
      PROVE  s \in G
  <2>1. CASE s = {}
    BY <2>1, SumStep
  <2>2. CASE s # {}
    <3>1. Pick(s) \in s /\ g[s] = f[Pick(s)] + g[s \ {Pick(s)}]
      BY <2>2, SumStep
    <3> QED
      BY <1>1, <3>1
  <2> QED
    BY <2>1, <2>2
<1>2. SUBSET D \subseteq G
  <2> HIDE DEF G
  <2> QED
    BY <1>1, SubsetInduction
<1> QED
  BY <1>2

\* All histograms start empty ...
LEMMA SumOfZeros ==
  ASSUME NEW D, IsFiniteSet(D), NEW f \in [D -> Nat], \A x \in D : f[x] = 0
  PROVE  Total(f) = 0
<1>1. PICK g : IsSum(g, f, D) /\ Total(f) = g[D]
  <2>1. DOMAIN f = D
    OBVIOUS
  <2> QED
    BY <2>1, FoldIsSum, Zenon
<1>2. IsSum(g, f, D)
  BY <1>1
<1> DEFINE G == {s \in SUBSET D : g[s] = 0}
<1>3. ASSUME NEW s \in SUBSET D, \A x \in s : s \ {x} \in G
      PROVE  s \in G
  <2>1. CASE s = {}
    BY <1>2, <2>1, SumStep
  <2>2. CASE s # {}
    <3>1. Pick(s) \in s /\ g[s] = f[Pick(s)] + g[s \ {Pick(s)}]
      BY <1>2, <2>2, SumStep
    <3> QED
      BY <1>3, <3>1
  <2> QED
    BY <2>1, <2>2
<1>4. SUBSET D \subseteq G
  <2> HIDE DEF G
  <2> QED
    BY <1>3, SubsetInduction
<1> QED
  <2>1. g[D] = 0
    BY <1>4
  <2> QED
    BY <1>1, <2>1, Zenon

\* ... and a sample more in one of them is one more in all.
LEMMA SumOfOneMore ==
  ASSUME NEW D, IsFiniteSet(D), NEW f \in [D -> Nat], NEW r \in D,
         NEW h \in [D -> Nat], \A x \in D : h[x] = f[x] + IF x = r THEN 1 ELSE 0
  PROVE  /\ Total(f) \in Nat
         /\ Total(h) = Total(f) + 1
<1>1. PICK g : IsSum(g, f, D) /\ Total(f) = g[D]
  <2>1. DOMAIN f = D
    OBVIOUS
  <2> QED
    BY <2>1, FoldIsSum, Zenon
<1>2. PICK k : IsSum(k, h, D) /\ Total(h) = k[D]
  <2>1. DOMAIN h = D
    OBVIOUS
  <2> QED
    BY <2>1, FoldIsSum, Zenon
<1>3. IsSum(g, f, D) /\ IsSum(k, h, D)
  BY <1>1, <1>2
<1>4. \A s \in SUBSET D : g[s] \in Nat /\ k[s] \in Nat
  BY <1>3, SumInNat
<1> DEFINE G == {s \in SUBSET D : k[s] = g[s] + IF r \in s THEN 1 ELSE 0}
<1>5. ASSUME NEW s \in SUBSET D, \A x \in s : s \ {x} \in G
      PROVE  s \in G
  <2>1. CASE s = {}
    <3>1. g[s] = 0 /\ k[s] = 0
      BY <1>3, <2>1, SumStep
    <3> QED
      BY <2>1, <3>1
  <2>2. CASE s # {}
    <3> DEFINE p == Pick(s)
               t == s \ {p}
    <3>1. /\ p \in s
          /\ g[s] = f[p] + g[t]
          /\ k[s] = h[p] + k[t]
      BY <1>3, <2>2, SumStep
    <3> HIDE DEF p
    <3>2. k[t] = g[t] + IF r \in t THEN 1 ELSE 0
      BY <1>5, <3>1
    <3>3. h[p] = f[p] + IF p = r THEN 1 ELSE 0
      BY <3>1
    <3>4. f[p] \in Nat /\ g[t] \in Nat
      BY <1>4, <3>1
    <3>5. r \in s <=> r \in t \/ p = r
      BY <3>1
    <3>6. ~(r \in t /\ p = r)
      OBVIOUS
    <3> HIDE DEF t
    <3>7. k[s] = g[s] + IF r \in s THEN 1 ELSE 0
      BY <3>1, <3>2, <3>3, <3>4, <3>5, <3>6
    <3> QED
      BY <3>7
  <2> QED
    BY <2>1, <2>2
<1>6. SUBSET D \subseteq G
  <2> HIDE DEF G
  <2> QED
    BY <1>5, SubsetInduction
<1>7. k[D] = g[D] + 1 /\ g[D] \in Nat
  BY <1>4, <1>6
<1> QED
  BY <1>1, <1>2, <1>7, Zenon

-----------------------------------------------------------------------------
(* Types.                                                                  *)

\* The constants as numbers.
LEMMA Constants ==
  /\ Deadline \in Nat /\ Timeout \in Nat /\ Grace \in Nat
  /\ SelectLimit \in Nat /\ Lateness \in Nat
  /\ SelectLimit + Lateness + Lateness < Grace
  /\ Clock \subseteq Nat /\ 0 \in Clock
BY TimeAssumption, GraceAssumption

LEMMA ReplicasExist == Undecided \in Replica
<1>1. Replica # {}
  BY FleetAssumption, FS_EmptySet
<1> QED
  BY <1>1 DEF Undecided

\* The types hold at first and are kept by every step.
LEMMA InitTyped == ClientInit => ClientTypeOK
BY Constants, ReplicasExist DEF ClientInit, ClientTypeOK, Stage, NoReport

LEMMA StepTyped == ClientTypeOK /\ [ClientNext]_clientVars => ClientTypeOK'
<1> SUFFICES ASSUME ClientTypeOK, [ClientNext]_clientVars
             PROVE  ClientTypeOK'
  OBVIOUS
<1> USE DEF ClientTypeOK, mainVars, metricsVars
<1>1. time \in Nat /\ time' \in Clock
  BY Constants DEF ClientNext, QueryStep, Arrive, Post, Respond, Record, Fail, Drain,
                   Report, TimePasses, clientVars
<1>2. ASSUME NEW q \in Query, Arrive(q) \/ QueryStep(q)
      PROVE  ClientTypeOK'
  <2>1. CASE Arrive(q)
    BY <1>1, <2>1, Constants DEF Arrive, Stage
  <2>2. ASSUME NEW r \in Replica, Post(q, r)
        PROVE  ClientTypeOK'
    BY <1>1, <2>2, Constants DEF Post, Stage
  <2>3. CASE Respond(q)
    BY <1>1, <2>3 DEF Respond, Stage
  <2>4. CASE Record(q)
    BY <1>1, <2>4 DEF Record, Stage
  <2>5. CASE Fail(q)
    BY <1>1, <2>5 DEF Fail, Stage
  <2> QED
    BY <1>2, <2>1, <2>2, <2>3, <2>4, <2>5 DEF QueryStep
<1>3. CASE Drain
  BY <1>1, <1>3, Constants DEF Drain
<1>4. CASE Report
  BY <1>1, <1>4 DEF Report, NoReport
<1>5. CASE TimePasses
  BY <1>1, <1>5 DEF TimePasses
<1>6. CASE UNCHANGED clientVars
  BY <1>6 DEF clientVars
<1> QED
  BY <1>2, <1>3, <1>4, <1>5, <1>6 DEF ClientNext

\* Type correctness: a task has one place, and the summary is printed once
\* the generator has stopped.
THEOREM ClientTypeCorrect == ClientSpec => []ClientTypeOK
BY InitTyped, StepTyped, PTL DEF ClientSpec
-----------------------------------------------------------------------------
(* The counters.                                                           *)

Samples == Total(served)
Recorded == {q \in Query : task[q] = "recorded"}
RecordedAt(r) == {q \in Query : task[q] = "recorded" /\ replica[q] = r}

\* CountsAgree with a name for each of the sets.
Counts ==
  /\ queries = Cardinality(Recorded)
  /\ queries = errors + Samples
  /\ \A r \in Replica : served[r] <= Cardinality(RecordedAt(r))

LEMMA CountsIsAgree == Counts <=> CountsAgree
BY Zenon DEF Counts, CountsAgree, Samples, Total, Recorded, RecordedAt

\* The queries are finitely many.
LEMMA QueriesFinite ==
  ASSUME NEW S \in SUBSET Query
  PROVE  /\ IsFiniteSet(S) /\ Cardinality(S) \in Nat
         /\ \A q \in Query \ S : Cardinality(S \cup {q}) = Cardinality(S) + 1
BY FleetAssumption, FS_Subset, FS_CardinalityType, FS_AddElement

\* A sample more in one histogram.
LEMMA SamplesCount ==
  ASSUME served \in [Replica -> Nat]
  PROVE  /\ Samples \in Nat
         /\ UNCHANGED served => Samples' = Samples
         /\ \A r \in Replica : served' = [served EXCEPT ![r] = @ + 1] => Samples' = Samples + 1
<1>1. IsFiniteSet(Replica)
  BY FleetAssumption
<1>2. ASSUME NEW r \in Replica
      PROVE  /\ Total(served) \in Nat
             /\ Total([served EXCEPT ![r] = @ + 1]) = Total(served) + 1
  <2> DEFINE h == [served EXCEPT ![r] = @ + 1]
  <2>1. h \in [Replica -> Nat] /\ \A x \in Replica : h[x] = served[x] + IF x = r THEN 1 ELSE 0
    OBVIOUS
  <2> HIDE DEF h
  <2>2. Total(served) \in Nat /\ Total(h) = Total(served) + 1
    BY <1>1, <2>1, SumOfOneMore
  <2> QED
    BY <2>2 DEF h
<1> QED
  BY <1>2, ReplicasExist DEF Samples

\* A step that ends no task leaves the sets alone.
LEMMA NobodyRecorded ==
  ASSUME ClientTypeOK, Counts, UNCHANGED metricsVars,
         \A q \in Query : /\ task[q] = "recorded" <=> task'[q] = "recorded"
                          /\ task[q] = "recorded" => replica'[q] = replica[q]
  PROVE  Counts'
<1>1. Recorded' = Recorded /\ \A r \in Replica : RecordedAt(r)' = RecordedAt(r)
  BY DEF Recorded, RecordedAt
<1>2. UNCHANGED <<served, errors, queries>> /\ Samples' = Samples
  BY SamplesCount DEF metricsVars, ClientTypeOK
<1>3. queries' = Cardinality(Recorded') /\ queries' = errors' + Samples'
  BY <1>1, <1>2, Zenon DEF Counts
<1>4. \A r \in Replica : served'[r] <= Cardinality(RecordedAt(r)')
  BY <1>1, <1>2, Zenon DEF Counts
<1> QED
  BY <1>3, <1>4, Zenon DEF Counts

\* A task that ends is counted once.
LEMMA OneRecorded ==
  ASSUME ClientTypeOK, Counts, NEW q \in Query, Record(q) \/ Fail(q)
  PROVE  Counts'
<1>1. /\ task[q] # "recorded" /\ task' = [task EXCEPT ![q] = "recorded"]
      /\ UNCHANGED replica /\ queries' = queries + 1
      /\ task \in [Query -> Stage] /\ replica \in [Query -> Replica]
  BY DEF Record, Fail, ClientTypeOK
<1>2. /\ Recorded' = Recorded \cup {q} /\ q \notin Recorded
      /\ \A r \in Replica : /\ RecordedAt(r)' = IF r = replica[q] THEN RecordedAt(r) \cup {q}
                                                                  ELSE RecordedAt(r)
                            /\ q \notin RecordedAt(r)
  BY <1>1 DEF Recorded, RecordedAt
<1>3. Cardinality(Recorded') = Cardinality(Recorded) + 1
  <2>1. Recorded \in SUBSET Query /\ q \in Query \ Recorded
    BY <1>2 DEF Recorded
  <2>2. Cardinality(Recorded \cup {q}) = Cardinality(Recorded) + 1
    BY <2>1, QueriesFinite
  <2> QED
    BY <1>2, <2>2, Zenon
<1>4. \A r \in Replica :
        /\ Cardinality(RecordedAt(r)) \in Nat
        /\ Cardinality(RecordedAt(r)') = Cardinality(RecordedAt(r)) + IF r = replica[q] THEN 1 ELSE 0
  <2> TAKE r \in Replica
  <2>1. RecordedAt(r) \in SUBSET Query /\ q \in Query \ RecordedAt(r)
    BY <1>2 DEF RecordedAt
  <2>2. /\ Cardinality(RecordedAt(r) \cup {q}) = Cardinality(RecordedAt(r)) + 1
        /\ Cardinality(RecordedAt(r)) \in Nat
    BY <2>1, QueriesFinite
  <2>3. CASE r = replica[q]
    <3>1. Cardinality(RecordedAt(r)') = Cardinality(RecordedAt(r)) + 1
      BY <1>2, <2>2, <2>3, Zenon
    <3> QED
      BY <2>2, <2>3, <3>1
  <2>4. CASE r # replica[q]
    <3>1. Cardinality(RecordedAt(r)') = Cardinality(RecordedAt(r))
      BY <1>2, <2>4, Zenon
    <3> QED
      BY <2>2, <2>4, <3>1
  <2> QED
    BY <2>3, <2>4
<1>5. queries' = Cardinality(Recorded')
  BY <1>1, <1>3, Zenon DEF Counts
<1>6. /\ errors \in Nat /\ queries \in Nat /\ Samples \in Nat /\ queries = errors + Samples
      /\ served \in [Replica -> Nat]
      /\ \A r \in Replica : served[r] <= Cardinality(RecordedAt(r))
  BY SamplesCount DEF ClientTypeOK, Counts
<1>7. CASE Record(q)
  <2>1. served' = [served EXCEPT ![replica[q]] = @ + 1] /\ UNCHANGED errors
    BY <1>7 DEF Record
  <2>2. Samples' = Samples + 1
    BY <1>1, <1>6, <2>1, SamplesCount
  <2>3. queries' = errors' + Samples'
    BY <1>1, <1>6, <2>1, <2>2
  <2>4. \A r \in Replica : served'[r] <= Cardinality(RecordedAt(r)')
    <3> TAKE r \in Replica
    <3>1. served'[r] = served[r] + IF r = replica[q] THEN 1 ELSE 0
      BY <1>6, <2>1
    <3> QED
      BY <1>4, <1>6, <3>1
  <2> QED
    BY <1>5, <2>3, <2>4 DEF Counts
<1>8. CASE Fail(q)
  <2>1. UNCHANGED served /\ errors' = errors + 1
    BY <1>8 DEF Fail
  <2>2. Samples' = Samples
    BY <1>6, <2>1, SamplesCount
  <2>3. queries' = errors' + Samples'
    BY <1>1, <1>6, <2>1, <2>2
  <2>4. \A r \in Replica : served'[r] <= Cardinality(RecordedAt(r)')
    BY <1>4, <1>6, <2>1
  <2> QED
    BY <1>5, <2>3, <2>4 DEF Counts
<1> QED
  BY <1>7, <1>8

\* Every step keeps the counters in agreement.
LEMMA CountsStep == ClientTypeOK /\ Counts /\ [ClientNext]_clientVars => Counts'
<1> SUFFICES ASSUME ClientTypeOK, Counts, [ClientNext]_clientVars
             PROVE  Counts'
  OBVIOUS
<1>1. task \in [Query -> Stage] /\ replica \in [Query -> Replica]
  BY DEF ClientTypeOK
<1>2. ASSUME NEW q \in Query, Arrive(q)
      PROVE  Counts'
  BY <1>1, <1>2, NobodyRecorded DEF Arrive
<1>3. ASSUME NEW q \in Query, NEW r \in Replica, Post(q, r)
      PROVE  Counts'
  BY <1>1, <1>3, NobodyRecorded DEF Post
<1>4. ASSUME NEW q \in Query, Respond(q)
      PROVE  Counts'
  BY <1>1, <1>4, NobodyRecorded DEF Respond
<1>5. CASE Drain \/ Report \/ TimePasses \/ UNCHANGED clientVars
  <2>1. UNCHANGED <<task, replica, metricsVars>>
    BY <1>5 DEF Drain, Report, TimePasses, clientVars, metricsVars
  <2> QED
    BY <2>1, NobodyRecorded
<1> QED
  BY <1>2, <1>3, <1>4, <1>5, OneRecorded DEF ClientNext, QueryStep

\* Before the first query everything is zero.
LEMMA CountsInit == ClientInit => Counts
<1> SUFFICES ASSUME ClientInit PROVE Counts
  OBVIOUS
<1>1. Recorded = {} /\ \A r \in Replica : RecordedAt(r) = {}
  BY DEF ClientInit, Recorded, RecordedAt
<1>2. served \in [Replica -> Nat] /\ \A r \in Replica : served[r] = 0
  BY DEF ClientInit
<1>3. Samples = 0
  BY <1>2, FleetAssumption, SumOfZeros DEF Samples
<1>4. Cardinality({}) = 0
  BY FS_EmptySet
<1>5. queries = Cardinality(Recorded) /\ queries = errors + Samples
  BY <1>1, <1>3, <1>4 DEF ClientInit
<1>6. \A r \in Replica : served[r] <= Cardinality(RecordedAt(r))
  BY <1>1, <1>2, <1>4
<1> QED
  BY <1>5, <1>6 DEF Counts

\* The counters that the summary and the progress lines print agree with each
\* other and with the tasks at every release of the lock (MetricsCollector).
THEOREM CountsStayInAgreement == ClientSpec => []CountsAgree
BY CountsInit, CountsStep, CountsIsAgree, ClientTypeCorrect, PTL DEF ClientSpec

-----------------------------------------------------------------------------
(* The drain.                                                              *)

Pending(q) == task[q] \in {"selecting", "posted", "reading"}

\* No timer is long overdue, and none is set further ahead than its length.
TimersRun ==
  \A q \in Query :
    /\ Pending(q) => time <= due[q] + Lateness
    /\ task[q] = "selecting" => due[q] <= time + SelectLimit
    /\ task[q] \in {"posted", "reading"} => due[q] <= time + Timeout

\* The drain began at drained - Timeout - Grace: no select() ends more than
\* SelectLimit after that, and no request more than Timeout after its select().
DrainCovers ==
  main = "draining" =>
    \A q \in Query :
      /\ task[q] = "selecting" => due[q] + Timeout + Grace <= drained + SelectLimit
      /\ task[q] \in {"posted", "reading"} => due[q] + Grace <= drained + SelectLimit + Lateness

DrainInv == TimersRun /\ DrainCovers /\ ReportIsComplete

LEMMA DrainStep == ClientTypeOK /\ Counts /\ DrainInv /\ [ClientNext]_clientVars => DrainInv'
<1> SUFFICES ASSUME ClientTypeOK, Counts, DrainInv, [ClientNext]_clientVars
             PROVE  DrainInv'
  OBVIOUS
<1>1. /\ time \in Nat /\ drained \in Nat /\ task \in [Query -> Stage] /\ due \in [Query -> Nat]
      /\ main \in {"generating", "draining", "reported"}
  BY Constants DEF ClientTypeOK
<1> USE DEF Pending, TimersRun, DrainCovers, ReportIsComplete, DrainInv
<1>2. ASSUME NEW q \in Query, Arrive(q)
      PROVE  DrainInv'
  BY <1>1, <1>2, Constants DEF Arrive, mainVars
<1>3. ASSUME NEW q \in Query, QueryStep(q)
      PROVE  DrainInv'
  <2>1. main # "reported" /\ UNCHANGED <<time, mainVars>>
    BY <1>3 DEF QueryStep, Post, Respond, Record, Fail
  <2>2. ASSUME NEW r \in Replica, Post(q, r)
        PROVE  DrainInv'
    BY <1>1, <2>1, <2>2, Constants DEF Post, mainVars
  <2>3. CASE Respond(q)
    BY <1>1, <2>1, <2>3, Constants DEF Respond, mainVars
  <2>4. CASE Record(q) \/ Fail(q)
    <3>1. task' = [task EXCEPT ![q] = "recorded"] /\ UNCHANGED due
      BY <2>4 DEF Record, Fail
    <3> QED
      BY <1>1, <2>1, <3>1, Constants DEF mainVars
  <2> QED
    BY <1>3, <2>2, <2>3, <2>4 DEF QueryStep
<1>4. CASE Drain
  BY <1>1, <1>4, Constants DEF Drain
<1>5. CASE Report
  <2>1. \A q \in Query : task[q] \in {"absent", "recorded"}
    BY <1>1, <1>5, Constants DEF Report, Stage
  <2>2. Recorded = {q \in Query : task[q] # "absent"}
    BY <2>1 DEF Recorded
  <2>3. report' = Cardinality({q \in Query : task[q] # "absent"})
    BY <1>5, <2>2 DEF Report, Counts
  <2> QED
    BY <1>5, <2>1, <2>3 DEF Report
<1>6. CASE TimePasses
  BY <1>1, <1>6, Constants DEF TimePasses, mainVars
<1>7. CASE UNCHANGED clientVars
  BY <1>7 DEF clientVars
<1> QED
  BY <1>2, <1>3, <1>4, <1>5, <1>6, <1>7 DEF ClientNext

\* The summary is printed when every query that arrived is over, and counts
\* each of them: run()'s drain outlasts select(), the timeout and the body.
THEOREM ReportCountsEveryQuery == ClientSpec => []ReportIsComplete
<1>1. ClientInit => DrainInv
  BY Constants DEF ClientInit, DrainInv, TimersRun, DrainCovers, ReportIsComplete, Pending
<1>2. DrainInv => ReportIsComplete
  BY DEF DrainInv
<1> QED
  BY <1>1, <1>2, InitTyped, StepTyped, CountsInit, CountsStep, DrainStep, PTL DEF ClientSpec
=============================================================================
