--------------------------- MODULE PoliciesProofs ---------------------------
(***************************************************************************)
(* Theorems about the policies other than prequal and about the reuse      *)
(* budget of prequal, for any fleet, any number of queries, any width of   *)
(* the round-robin counter and any timing of the refresher.                *)
(***************************************************************************)
EXTENDS PoliciesAudit, TLAPS

-----------------------------------------------------------------------------
(* Arithmetic.                                                             *)

LEMMA Division ==
  \A a \in Nat, b \in Nat \ {0} :
    /\ a \div b \in Nat /\ a % b \in Nat
    /\ a % b < b /\ a = b * (a \div b) + (a % b)
OBVIOUS

LEMMA DivisionAtLeastOne ==
  ASSUME NEW b \in Nat \ {0}, NEW a \in Nat, b <= a
  PROVE  a \div b \in Nat \ {0}
<1>1. a \div b \in Nat /\ a % b \in Nat /\ a % b < b /\ a = b * (a \div b) + (a % b)
  BY Division
<1>2. a \div b # 0
  BY <1>1
<1> QED
  BY <1>1, <1>2

LEMMA ProductTyped == \A x, y \in Nat : x * y \in Nat
OBVIOUS

LEMMA ProductGrows == \A x, y, z \in Nat : x <= y => x * z <= y * z
<1> SUFFICES ASSUME NEW x \in Nat, NEW y \in Nat, NEW z \in Nat, x <= y
             PROVE  x * z <= y * z
  OBVIOUS
<1>1. y - x \in Nat
  OBVIOUS
<1>2. y * z = x * z + (y - x) * z /\ (y - x) * z \in Nat /\ x * z \in Nat
  BY <1>1
<1> QED
  BY <1>2

-----------------------------------------------------------------------------
(* Types.                                                                  *)

\* Policies as AuditPoliciesSpec steps through them.
LEMMA AuditSteps ==
  [AuditPoliciesNext]_auditPoliciesVars => [PoliciesNext]_policiesVars
BY DEF AuditPoliciesNext, AuditRoundRobin, AuditPo2, AuditRefresh, AuditSkip, AuditUnobserved,
       PoliciesNext, WrrTurn, WrrNext, auditPoliciesVars

\* The shares, extremes and ages recorded change nothing in the policies, so
\* that what holds of them recorded holds of them.
THEOREM AuditIsThePolicies == AuditPoliciesSpec => PoliciesSpec
<1>1. AuditPoliciesInit => PoliciesInit
  BY DEF AuditPoliciesInit
<1> QED
  BY <1>1, AuditSteps, PTL DEF AuditPoliciesSpec, PoliciesSpec

\* No step changes what Balancer::new fixed.
LEMMA FixedAtStart == [PoliciesNext]_policiesVars => UNCHANGED <<policy, n, cfg, budget>>
BY DEF PoliciesNext, policiesVars, fleetVars

\* What the cast to u32 yields.
LEMMA BudgetTyped ==
  ASSUME NEW c \in Configuration, NEW size \in Nat \ {0}, NEW b \in ReuseBudgets(c, size)
  PROVE  b \in 1 .. MaxBudget
<1> DEFINE need == Need(c, size)
           surplus == Surplus(c, size)
<1>1. MaxBudget \in Nat \ {0}
  BY BudgetAssumption
<1>2. CASE surplus <= 0
  BY <1>1, <1>2 DEF ReuseBudgets
<1>3. CASE ~(surplus <= 0)
  <2>1. surplus \in Nat \ {0}
    <3>1. surplus \in Int
      BY BudgetAssumption DEF Configuration, Surplus
    <3> QED
      BY <1>3, <3>1
  <2>2. need \in Nat \ {0}
    BY BudgetAssumption DEF Configuration, Need
  <2> HIDE DEF need, surplus
  <2>3. \A r \in CeilOfQuotient(need, surplus) : r \in Nat \ {0}
    <3>1. /\ need \div surplus \in Nat
          /\ need % surplus = 0 => need \div surplus # 0
      BY <2>1, <2>2, Division
    <3> QED
      BY <3>1 DEF CeilOfQuotient
  <2>4. PICK r \in CeilOfQuotient(need, surplus) : b = IF r > MaxBudget THEN MaxBudget ELSE r
    BY <1>3 DEF ReuseBudgets, need, surplus
  <2> QED
    BY <1>1, <2>3, <2>4
<1> QED
  BY <1>2, <1>3

\* A fleet has at least two replicas.
LEMMA FleetTyped == ASSUME n \in FleetSizes \cup BudgetSizes PROVE n \in Nat /\ n >= 2
BY FleetSizesAssumption

LEMMA InitTyped == PoliciesInit => PoliciesTypeOK
<1> SUFFICES ASSUME PoliciesInit PROVE PoliciesTypeOK
  OBVIOUS
<1>1. policy \in PolicyName /\ n \in FleetSizes \cup BudgetSizes
  BY DEF PoliciesInit, FleetInit
<1>2. n \in Nat /\ n >= 2
  BY <1>1, FleetTyped
<1>3. Po2TypeOK
  BY <1>2, LoadAssumption DEF PoliciesInit, Po2Init, Po2TypeOK, Index
<1>4. WrrTypeOK
  BY <1>2 DEF PoliciesInit, WrrInit, WrrTypeOK, InitialWeight
<1>5. cfg \in Configuration
  BY ConfigurationAssumption DEF PoliciesInit
<1>6. budget \in 1 .. MaxBudget
  BY <1>2, <1>5, BudgetTyped DEF PoliciesInit
<1> QED
  BY <1>1, <1>3, <1>4, <1>5, <1>6, CounterAssumption DEF PoliciesInit, PoliciesTypeOK

\* Setting one of the two entries of a pair.
LEMMA PairUpdate ==
  ASSUME NEW A, NEW t \in A \X A, NEW k \in Side, NEW v \in A
  PROVE  /\ [t EXCEPT ![k] = v] \in A \X A
         /\ [t EXCEPT ![k] = v][k] = v
         /\ [t EXCEPT ![k] = v][3 - k] = t[3 - k]
BY DEF Side

\* The tasks of po2.
LEMMA Po2Typed ==
  ASSUME n \in Nat, n >= 2, Po2TypeOK, Po2Next, UNCHANGED n
  PROVE  Po2TypeOK'
<1> DEFINE Outcome == {Pending, Failed} \cup Load
<1>1. /\ load \in [Index -> Load]
      /\ stage \in [Po2Query -> {"new", "probing", "chosen"}]
      /\ pair \in [Po2Query -> Index \X Index]
      /\ \A q \in Po2Query : pair[q][1] # pair[q][2]
      /\ heard \in [Po2Query -> Outcome \X Outcome]
      /\ choice \in [Po2Query -> Index \cup {Unchosen}]
  BY DEF Po2TypeOK
<1>2. Index' = Index
  BY DEF Index
<1>3. ASSUME NEW q \in Po2Query, Draw(q)
      PROVE  Po2TypeOK'
  <2>1. PICK a \in Index, x \in 0 .. n - 2 : pair' = [pair EXCEPT ![q] = <<a, Other(a, x)>>]
    BY <1>3 DEF Draw
  <2>2. Other(a, x) \in Index /\ Other(a, x) # a
    BY DEF Other, Index
  <2>3. pair' \in [Po2Query -> Index \X Index] /\ \A r \in Po2Query : pair'[r][1] # pair'[r][2]
    BY <1>1, <2>1, <2>2
  <2> QED
    BY <1>1, <1>2, <1>3, <2>3 DEF Draw, Po2TypeOK
<1>4. ASSUME NEW q \in Po2Query, NEW k \in Side, Hear(q, k) \/ Miss(q, k)
      PROVE  Po2TypeOK'
  <2>1. PICK v \in Outcome : heard' = [heard EXCEPT ![q][k] = v]
    <3>1. load[pair[q][k]] \in Load
      BY <1>1 DEF Side
    <3> QED
      BY <1>4, <3>1 DEF Hear, Miss
  <2>2. heard' \in [Po2Query -> Outcome \X Outcome]
    <3> HIDE DEF Outcome
    <3>1. heard[q] \in Outcome \X Outcome
      BY <1>1
    <3>2. [heard[q] EXCEPT ![k] = v] \in Outcome \X Outcome
      BY <3>1, PairUpdate
    <3> QED
      BY <1>1, <2>1, <3>2
  <2>3. UNCHANGED <<load, stage, pair, choice>>
    BY <1>4 DEF Hear, Miss
  <2> QED
    BY <1>1, <1>2, <2>2, <2>3 DEF Po2TypeOK
<1>5. ASSUME NEW q \in Po2Query, Choose(q)
      PROVE  Po2TypeOK'
  <2>1. pair[q][Better(heard[q][1], heard[q][2])] \in Index
    BY <1>1 DEF Better
  <2> QED
    BY <1>1, <1>2, <1>5, <2>1 DEF Choose, Po2TypeOK
<1>6. CASE LoadChanges
  BY <1>1, <1>2, <1>6 DEF LoadChanges, Po2TypeOK
<1> QED
  BY <1>3, <1>4, <1>5, <1>6 DEF Po2Next, Po2Step

\* The refresher of wrr: no weight falls to zero, since no CPU reading is
\* above a hundred cores' worth.
LEMMA WeightTyped == \A cpu \in CpuReading : Weight(cpu) \in Nat \ {0}
<1> TAKE cpu \in CpuReading
<1> DEFINE floored == IF cpu < 5 THEN 5 ELSE cpu
<1>1. cpu \in Nat /\ cpu <= 10000
  BY CpuAssumption
<1>2. floored \in Nat \ {0} /\ floored <= 10000
  BY <1>1
<1>3. Weight(cpu) = 10000 \div floored
  BY DEF Weight
<1> HIDE DEF floored
<1> QED
  BY <1>2, <1>3, DivisionAtLeastOne

LEMMA WrrTyped ==
  ASSUME n \in Nat, n >= 2, WrrTypeOK, WrrNext, UNCHANGED n
  PROVE  WrrTypeOK'
<1>1. /\ time \in Nat /\ due \in Nat /\ deadline \in Nat
      /\ cursor \in 0 .. n
      /\ weights \in [Index -> Nat \ {0}] /\ Index' = Index
  BY DEF WrrTypeOK, Index
<1>2. Period \in Nat /\ ProbeTimeout \in Nat
  BY TimingAssumption
<1>3. CASE Round
  BY <1>1, <1>2, <1>3 DEF Round, WrrTypeOK
<1>4. CASE Refresh
  <2>1. PICK w \in Nat \ {0} : weights' = [weights EXCEPT ![cursor] = w]
    BY <1>4, WeightTyped DEF Refresh
  <2>2. weights' \in [Index -> Nat \ {0}]
    BY <1>1, <2>1
  <2> QED
    BY <1>1, <1>2, <1>4, <2>2 DEF Refresh, Advance, WrrTypeOK
<1>5. CASE Skip
  BY <1>1, <1>2, <1>5 DEF Skip, Advance, WrrTypeOK
<1>6. CASE TimePasses
  BY <1>1, <1>2, <1>6, ClockAssumption DEF TimePasses, WrrTypeOK
<1> QED
  BY <1>3, <1>4, <1>5, <1>6 DEF WrrNext

LEMMA StepTyped == PoliciesTypeOK /\ [PoliciesNext]_policiesVars => PoliciesTypeOK'
<1> SUFFICES ASSUME PoliciesTypeOK, [PoliciesNext]_policiesVars
             PROVE  PoliciesTypeOK'
  OBVIOUS
<1>1. UNCHANGED <<policy, n, cfg, budget>> /\ Index' = Index
  BY FixedAtStart DEF Index
<1>2. n \in Nat /\ n >= 2
  BY FleetTyped DEF PoliciesTypeOK
<1>3. UNCHANGED po2Vars => Po2TypeOK'
  BY <1>1 DEF PoliciesTypeOK, Po2TypeOK, po2Vars
<1>4. UNCHANGED wrrVars => WrrTypeOK'
  BY <1>1 DEF PoliciesTypeOK, WrrTypeOK, wrrVars
<1>5. CASE PickRandom
  BY <1>1, <1>3, <1>4, <1>5 DEF PickRandom, PoliciesTypeOK
<1>6. CASE PickRoundRobin
  <2>1. picked' \in Index /\ counter' \in 0 .. CounterSize - 1
    BY <1>2, <1>6, CounterAssumption DEF PickRoundRobin, PoliciesTypeOK, Index
  <2> QED
    BY <1>1, <1>3, <1>4, <1>6, <2>1 DEF PickRoundRobin, PoliciesTypeOK
<1>7. CASE PickWeighted
  BY <1>1, <1>3, <1>4, <1>7 DEF PickWeighted, PoliciesTypeOK
<1>8. CASE Po2Turn
  BY <1>1, <1>2, <1>4, <1>8, Po2Typed DEF Po2Turn, PoliciesTypeOK
<1>9. CASE WrrTurn(WrrNext)
  BY <1>1, <1>2, <1>3, <1>9, WrrTyped DEF WrrTurn, PoliciesTypeOK
<1>10. CASE UNCHANGED policiesVars
  BY <1>1, <1>3, <1>4, <1>10 DEF policiesVars, PoliciesTypeOK
<1> QED
  BY <1>5, <1>6, <1>7, <1>8, <1>9, <1>10 DEF PoliciesNext

\* Type correctness: select() returns a replica of the fleet, whatever the
\* policy; the two replicas po2 draws are distinct; no weight is zero.
THEOREM PoliciesTypeCorrect == PoliciesSpec => []PoliciesTypeOK
BY InitTyped, StepTyped, PTL DEF PoliciesSpec

\* The same with the history variables.
LEMMA AuditTyped == AuditPoliciesSpec => []PoliciesTypeOK
<1>1. AuditPoliciesInit => PoliciesInit
  BY DEF AuditPoliciesInit
<1> QED
  BY <1>1, AuditSteps, InitTyped, StepTyped, PTL DEF AuditPoliciesSpec

-----------------------------------------------------------------------------
(* The reuse budget of prequal.                                            *)

\* A ceiling is the least whole number that is at least a / b, or one more
\* where a / b is whole.
LEMMA CeilBounds ==
  ASSUME NEW a \in Nat, NEW b \in Nat \ {0}, NEW r \in CeilOfQuotient(a, b)
  PROVE  r \in Nat /\ r * b >= a /\ (r - 1) * b <= a
<1> DEFINE q == a \div b
<1>1. q \in Nat /\ a % b \in Nat /\ a % b < b /\ a = b * q + (a % b)
  BY Division
<1>2. r = q + 1 \/ (a % b = 0 /\ r = q)
  BY DEF CeilOfQuotient
<1> HIDE DEF q
<1>3. b * q \in Nat /\ q * b = b * q /\ (q + 1) * b = b * q + b /\ (q - 1) * b = b * q - b
  BY <1>1
<1>4. CASE r = q + 1
  <2>1. r * b = b * q + b /\ (r - 1) * b = b * q /\ r \in Nat
    BY <1>1, <1>3, <1>4
  <2> QED
    BY <1>1, <1>3, <2>1
<1>5. CASE a % b = 0 /\ r = q
  <2>1. r * b = b * q /\ (r - 1) * b = b * q - b /\ r \in Nat /\ a = b * q
    BY <1>1, <1>3, <1>5
  <2> QED
    BY <1>3, <2>1
<1> QED
  BY <1>2, <1>4, <1>5

\* A smaller divisor gives no smaller ceiling, however each is rounded.
LEMMA CeilGrows ==
  ASSUME NEW a \in Nat \ {0}, NEW b \in Nat \ {0}, NEW c \in Nat \ {0}, c < b,
         NEW r \in CeilOfQuotient(a, b), NEW s \in CeilOfQuotient(a, c)
  PROVE  r <= s
<1>1. /\ r \in Nat /\ (r - 1) * b <= a
      /\ s \in Nat /\ s * c >= a
  BY CeilBounds
<1> SUFFICES ASSUME ~(r <= s) PROVE FALSE
  OBVIOUS
<1>2. s <= r - 1 /\ r - 1 \in Nat
  BY <1>1
<1>3. s # 0
  BY <1>1
<1>4. s * b <= (r - 1) * b
  BY <1>1, <1>2, ProductGrows
<1>5. s * b = s * c + s * (b - c) /\ s * (b - c) \in Nat \ {0} /\ s * c \in Nat
  <2>1. b - c \in Nat \ {0}
    OBVIOUS
  <2>2. \A x, y \in Nat \ {0} : x * y \in Nat \ {0}
    OBVIOUS
  <2>3. s * (b - c) \in Nat \ {0}
    BY <1>1, <1>3, <2>1, <2>2
  <2> QED
    BY <1>1, <2>3
<1>6. s * b \in Nat /\ (r - 1) * b \in Nat
  BY <1>1, <1>2, ProductTyped
<1> QED
  BY <1>1, <1>4, <1>5, <1>6

\* Eq. (1), for every configuration, every fleet and every way to round.
LEMMA BudgetFits ==
  ASSUME n \in Nat, n >= 2, cfg \in Configuration, budget \in ReuseBudgets(cfg, n)
  PROVE  BudgetFitsPool
<1> DEFINE need == Need(cfg, n)
           surplus == Surplus(cfg, n)
           larger == [cfg EXCEPT !.pool_capacity = @ + 1]
           less == Surplus(larger, n)
<1>1. /\ cfg.pool_capacity \in Nat /\ cfg.r_probe \in Nat
      /\ cfg.r_remove \in Nat /\ cfg.delta \in Nat
  BY BudgetAssumption DEF Configuration
<1>2. /\ larger.pool_capacity = cfg.pool_capacity + 1
      /\ larger.r_probe = cfg.r_probe /\ larger.r_remove = cfg.r_remove /\ larger.delta = cfg.delta
  BY DEF Configuration
<1>3. MaxBudget \in Nat \ {0}
  BY BudgetAssumption
<1>4. need \in Nat \ {0} /\ Need(larger, n) = need
  <2>1. (1 + cfg.delta) * n \in Nat \ {0}
    BY <1>1
  <2> QED
    BY <1>2, <2>1 DEF Need
<1>5. surplus \in Int /\ less \in Int /\ less = surplus - cfg.r_probe
  <2>1. \A c, p, m \in Nat : /\ (n - c) * p - n * m \in Int
                             /\ (n - (c + 1)) * p - n * m \in Int
                             /\ (n - (c + 1)) * p - n * m = ((n - c) * p - n * m) - p
    OBVIOUS
  <2> QED
    BY <1>1, <1>2, <2>1 DEF Surplus
<1>6. surplus > 0 => less < surplus
  <2>1. cfg.r_probe = 0 => surplus <= 0
    <3>1. n * cfg.r_remove \in Nat
      BY <1>1, ProductTyped
    <3>2. cfg.r_probe = 0 => (n - cfg.pool_capacity) * cfg.r_probe = 0
      BY <1>1
    <3> QED
      BY <3>1, <3>2 DEF Surplus
  <2> QED
    BY <1>1, <1>5, <2>1
<1>7. surplus <= 0 => budget = MaxBudget
  BY DEF ReuseBudgets
<1>8. ASSUME surplus > 0
      PROVE  \E r \in CeilOfQuotient(need, surplus) : budget = IF r > MaxBudget THEN MaxBudget ELSE r
  BY <1>5, <1>8 DEF ReuseBudgets
<1>9. \A b \in ReuseBudgets(larger, n) :
        b = MaxBudget \/ /\ less > 0
                         /\ \E s \in CeilOfQuotient(need, less) : b = s /\ s <= MaxBudget
  <2> TAKE b \in ReuseBudgets(larger, n)
  <2>1. CASE less <= 0
    BY <2>1 DEF ReuseBudgets
  <2>2. CASE ~(less <= 0)
    <3>1. PICK s \in CeilOfQuotient(need, less) : b = IF s > MaxBudget THEN MaxBudget ELSE s
      BY <1>4, <2>2 DEF ReuseBudgets
    <3>2. s \in Nat
      BY <1>4, <1>5, <2>2, CeilBounds
    <3> QED
      BY <1>3, <1>5, <2>2, <3>1, <3>2
  <2> QED
    BY <2>1, <2>2
<1> HIDE DEF need, surplus, less, larger
<1>10. /\ surplus > 0 =>
            /\ budget < MaxBudget => budget * surplus >= need
            /\ budget = 1 \/ (budget - 1) * surplus <= need
       /\ budget \in Nat /\ budget <= MaxBudget
  <2>1. CASE ~(surplus > 0)
    BY <1>3, <1>5, <1>7, <2>1
  <2>2. CASE surplus > 0
    <3>1. PICK r \in CeilOfQuotient(need, surplus) : budget = IF r > MaxBudget THEN MaxBudget ELSE r
      BY <1>8, <2>2
    <3>2. surplus \in Nat \ {0}
      BY <1>5, <2>2
    <3>3. r \in Nat /\ r * surplus >= need /\ (r - 1) * surplus <= need
      BY <1>4, <3>2, CeilBounds
    <3>4. CASE r <= MaxBudget
      BY <1>3, <3>1, <3>3, <3>4
    <3>5. CASE ~(r <= MaxBudget)
      <4>1. budget = MaxBudget /\ budget - 1 \in Nat /\ r - 1 \in Nat /\ budget - 1 <= r - 1
        BY <1>3, <3>1, <3>3, <3>5
      <4>2. (budget - 1) * surplus <= (r - 1) * surplus
        BY <3>2, <4>1, ProductGrows
      <4>3. (budget - 1) * surplus \in Nat /\ (r - 1) * surplus \in Nat
        BY <3>2, <4>1, ProductTyped
      <4>4. (budget - 1) * surplus <= need
        BY <1>4, <3>3, <4>2, <4>3
      <4> QED
        BY <1>3, <4>1, <4>4
    <3> QED
      BY <3>4, <3>5
  <2> QED
    BY <1>5, <2>1, <2>2
<1>11. surplus > 0 => \A b \in ReuseBudgets(larger, n) : b >= budget
  <2> SUFFICES ASSUME surplus > 0, NEW b \in ReuseBudgets(larger, n)
               PROVE  b >= budget
    OBVIOUS
  <2>1. CASE b = MaxBudget
    BY <1>3, <1>10, <2>1
  <2>2. CASE b # MaxBudget
    <3>1. PICK s \in CeilOfQuotient(need, less) : b = s /\ less > 0
      BY <1>9, <2>2
    <3>2. PICK r \in CeilOfQuotient(need, surplus) : budget = IF r > MaxBudget THEN MaxBudget ELSE r
      BY <1>8
    <3>3. surplus \in Nat \ {0} /\ less \in Nat \ {0} /\ less < surplus
      BY <1>5, <1>6, <3>1
    <3>4. r <= s /\ r \in Nat /\ s \in Nat
      BY <1>4, <3>3, CeilGrows, CeilBounds
    <3> QED
      BY <1>3, <3>1, <3>2, <3>4
  <2> QED
    BY <2>1, <2>2
<1>12. ~(surplus > 0) => \A b \in ReuseBudgets(larger, n) : b >= budget
  <2> SUFFICES ASSUME ~(surplus > 0), NEW b \in ReuseBudgets(larger, n)
               PROVE  b = MaxBudget
    BY <1>3, <1>10
  <2>1. ~(less > 0)
    BY <1>1, <1>5
  <2> QED
    BY <1>9, <2>1
<1> QED
  BY <1>7, <1>10, <1>11, <1>12 DEF BudgetFitsPool, need, surplus, larger, less

\* PrequalConfig::reuse_budget is what Eq. (1) asks for, whatever the
\* configuration and the fleet, however f64 rounds; a larger pool never gets
\* a smaller one.
THEOREM BudgetAlwaysFits == AuditPoliciesSpec => []BudgetFitsPool
<1> DEFINE Built == budget \in ReuseBudgets(cfg, n)
<1>1. AuditPoliciesInit => Built
  BY DEF AuditPoliciesInit, PoliciesInit
<1>2. Built /\ [AuditPoliciesNext]_auditPoliciesVars => Built'
  BY AuditSteps, FixedAtStart
<1>3. PoliciesTypeOK /\ Built => BudgetFitsPool
  BY FleetTyped, BudgetFits DEF PoliciesTypeOK
<1> HIDE DEF Built
<1> QED
  BY <1>1, <1>2, <1>3, AuditTyped, PTL DEF AuditPoliciesSpec

-----------------------------------------------------------------------------
(* Round robin.                                                            *)

\* The picks of replica i among the first k of a counter that starts at 0.
Share(i, k) == (k \div n) + IF i < k % n THEN 1 ELSE 0

LEMMA ShareTyped ==
  ASSUME n \in Nat \ {0}, NEW i \in Index, NEW k \in Nat
  PROVE  Share(i, k) \in Nat
<1>1. k \div n \in Nat
  BY Division
<1> QED
  BY <1>1 DEF Share

\* Pick k goes to replica k % n.
LEMMA NextShare ==
  ASSUME n \in Nat \ {0}, NEW i \in Index, NEW k \in Nat
  PROVE  Share(i, k + 1) = Share(i, k) + IF i = k % n THEN 1 ELSE 0
<1> DEFINE q == k \div n
           r == k % n
<1>1. q \in Nat /\ r \in Nat /\ r < n /\ k = n * q + r
  BY Division
<1>2. (k + 1) \div n = (IF r + 1 = n THEN q + 1 ELSE q) /\ (k + 1) % n = IF r + 1 = n THEN 0 ELSE r + 1
  <2> DEFINE u == (k + 1) \div n
             v == (k + 1) % n
  <2>1. u \in Nat /\ v \in Nat /\ v < n /\ k + 1 = n * u + v
    BY Division
  <2> HIDE DEF q, r, u, v
  <2>2. \A x, y, a, b \in Nat : a < n /\ b < n /\ n * x + a = n * y + b => x = y /\ a = b
    <3> SUFFICES ASSUME NEW x \in Nat, NEW y \in Nat, NEW a \in Nat, NEW b \in Nat,
                        a < n, b < n, n * x + a = n * y + b
                 PROVE  x = y
      OBVIOUS
    <3>1. \A e, f, c, d \in Nat : c < n /\ d < n /\ n * e + c = n * f + d => e <= f
      <4> SUFFICES ASSUME NEW e \in Nat, NEW f \in Nat, NEW c \in Nat, NEW d \in Nat,
                          c < n, d < n, n * e + c = n * f + d, f < e
                   PROVE  FALSE
        OBVIOUS
      <4>1. (f + 1) * n <= e * n
        BY ProductGrows
      <4>2. (f + 1) * n = n * f + n /\ e * n = n * e /\ n * f \in Nat /\ n * e \in Nat
        OBVIOUS
      <4> QED
        BY <4>1, <4>2
    <3> QED
      BY <3>1
  <2>3. CASE r + 1 = n
    <3>1. n * (q + 1) + 0 = n * u + v
      BY <1>1, <2>1, <2>3
    <3>2. q + 1 = u /\ 0 = v
      BY <1>1, <2>1, <2>2, <3>1
    <3> QED
      BY <2>3, <3>2 DEF u, v
  <2>4. CASE r + 1 # n
    <3>1. n * q + (r + 1) = n * u + v /\ r + 1 < n
      BY <1>1, <2>1, <2>4
    <3>2. q = u /\ r + 1 = v
      BY <1>1, <2>1, <2>2, <3>1
    <3> QED
      BY <2>4, <3>2 DEF u, v
  <2> QED
    BY <2>3, <2>4
<1> HIDE DEF q, r
<1>3. Share(i, k) = q + IF i < r THEN 1 ELSE 0
  BY DEF Share, q, r
<1>4. Share(i, k + 1) = (IF r + 1 = n THEN q + 1 ELSE q) + IF i < (IF r + 1 = n THEN 0 ELSE r + 1) THEN 1 ELSE 0
  BY <1>2 DEF Share
<1>5. i \in Nat /\ i < n
  BY DEF Index
<1>6. Share(i, k + 1) = Share(i, k) + IF i = r THEN 1 ELSE 0
  BY <1>1, <1>3, <1>4, <1>5
<1> QED
  BY <1>6 DEF r

\* The picks so far: the wraps of the counter, and what it has counted since.
Shares ==
  /\ wraps \in Nat
  /\ served \in [Index -> Nat]
  /\ \A i \in Index : served[i] = wraps * Share(i, CounterSize) + Share(i, counter)

LEMMA SharesInit == PoliciesTypeOK /\ AuditPoliciesInit => Shares
<1> SUFFICES ASSUME PoliciesTypeOK, AuditPoliciesInit PROVE Shares
  OBVIOUS
<1>1. n \in Nat \ {0}
  BY FleetTyped DEF PoliciesTypeOK
<1>2. counter = 0 /\ wraps = 0 /\ served = [i \in Index |-> 0]
  BY DEF AuditPoliciesInit, PoliciesInit
<1>3. \A i \in Index : Share(i, 0) = 0
  BY <1>1 DEF Share, Index
<1>4. \A i \in Index : Share(i, CounterSize) \in Nat
  BY <1>1, CounterAssumption, ShareTyped
<1> QED
  BY <1>2, <1>3, <1>4 DEF Shares

LEMMA SharesStep ==
  PoliciesTypeOK /\ Shares /\ [AuditPoliciesNext]_auditPoliciesVars => Shares'
<1> SUFFICES ASSUME PoliciesTypeOK, Shares, [AuditPoliciesNext]_auditPoliciesVars
             PROVE  Shares'
  OBVIOUS
<1>1. n \in Nat \ {0} /\ counter \in 0 .. CounterSize - 1 /\ CounterSize \in Nat \ {0, 1}
  BY FleetTyped, CounterAssumption DEF PoliciesTypeOK
<1>2. n' = n
  BY AuditSteps, FixedAtStart
<1>3. Index' = Index /\ \A i, k : Share(i, k)' = Share(i, k)
  BY <1>2 DEF Index, Share
<1>4. CASE AuditRoundRobin
  <2>1. /\ picked' = counter % n /\ counter' = (counter + 1) % CounterSize
        /\ served' = [served EXCEPT ![counter % n] = @ + 1]
        /\ wraps' = IF counter' < counter THEN wraps + 1 ELSE wraps
    BY <1>4 DEF AuditRoundRobin, PickRoundRobin
  <2>2. /\ counter \in Nat /\ counter % n \in Index
        /\ \/ counter' = counter + 1 /\ wraps' = wraps
           \/ counter + 1 = CounterSize /\ counter' = 0 /\ wraps' = wraps + 1
    <3>1. counter \in Nat /\ counter % n \in Index
      BY <1>1 DEF Index
    <3>2. CASE counter + 1 = CounterSize
      <4>1. counter' = 0
        BY <1>1, <2>1, <3>2
      <4> QED
        BY <1>1, <2>1, <3>1, <3>2, <4>1
    <3>3. CASE counter + 1 # CounterSize
      <4>1. counter' = counter + 1
        BY <1>1, <2>1, <3>3
      <4> QED
        BY <1>1, <2>1, <3>1, <3>3, <4>1
    <3> QED
      BY <3>2, <3>3
  <2>3. wraps \in Nat /\ wraps' \in Nat
    BY <2>2 DEF Shares
  <2>4. served' \in [Index -> Nat]
    BY <2>1, <2>2 DEF Shares
  <2>5. ASSUME NEW i \in Index
        PROVE  served'[i] = wraps' * Share(i, CounterSize) + Share(i, counter')
    <3>1. served'[i] = served[i] + IF i = counter % n THEN 1 ELSE 0
      BY <2>1, <2>2 DEF Shares
    <3>2. Share(i, counter + 1) = Share(i, counter) + IF i = counter % n THEN 1 ELSE 0
      BY <1>1, <2>2, NextShare
    <3>3. served[i] = wraps * Share(i, CounterSize) + Share(i, counter)
      BY DEF Shares
    <3>4. /\ Share(i, CounterSize) \in Nat /\ Share(i, counter) \in Nat
          /\ wraps * Share(i, CounterSize) \in Nat
      BY <1>1, <2>2, <2>3, ShareTyped, ProductTyped
    <3>5. served'[i] = wraps * Share(i, CounterSize) + Share(i, counter + 1)
      BY <3>1, <3>2, <3>3, <3>4
    <3>6. CASE counter' = counter + 1 /\ wraps' = wraps
      BY <3>5, <3>6
    <3>7. CASE counter + 1 = CounterSize /\ counter' = 0 /\ wraps' = wraps + 1
      <4>1. Share(i, 0) = 0
        BY <1>1 DEF Share, Index
      <4>2. served'[i] = wraps * Share(i, CounterSize) + Share(i, CounterSize)
        BY <3>5, <3>7
      <4>3. (wraps + 1) * Share(i, CounterSize) = wraps * Share(i, CounterSize) + Share(i, CounterSize)
        BY <2>3, <3>4
      <4> QED
        BY <2>3, <3>4, <3>7, <4>1, <4>2, <4>3
    <3> QED
      BY <2>2, <3>6, <3>7
  <2> QED
    BY <1>3, <2>3, <2>4, <2>5 DEF Shares
<1>5. CASE UNCHANGED <<counter, served, wraps>>
  BY <1>3, <1>5 DEF Shares
<1>6. AuditPo2 \/ AuditRefresh \/ AuditSkip => UNCHANGED <<counter, served, wraps>>
  BY DEF AuditPo2, Po2Turn, AuditRefresh, AuditSkip, WrrTurn
<1>7. AuditUnobserved \/ UNCHANGED auditPoliciesVars => UNCHANGED <<counter, served, wraps>>
  BY DEF AuditUnobserved, PickRandom, PickWeighted, WrrTurn, policiesHistory, auditPoliciesVars,
         policiesVars
<1> QED
  BY <1>4, <1>5, <1>6, <1>7 DEF AuditPoliciesNext

\* No replica is ever more than a pick ahead of another, for each wrap of the
\* counter if the fleet does not divide its range, and in all if it does
\* (Policy::RoundRobin).
THEOREM RoundRobinStaysEven == AuditPoliciesSpec => []SharesStayEven
<1>1. PoliciesTypeOK /\ Shares => SharesStayEven
  <2> SUFFICES ASSUME PoliciesTypeOK, Shares, NEW i \in Index, NEW j \in Index
               PROVE  served[i] - served[j] <= 1 + IF CounterSize % n = 0 THEN 0 ELSE wraps
    BY DEF SharesStayEven
  <2>1. n \in Nat \ {0} /\ counter \in Nat /\ CounterSize \in Nat
    BY FleetTyped, CounterAssumption DEF PoliciesTypeOK
  <2>2. \A k \in Nat : /\ Share(i, k) \in Nat /\ Share(j, k) \in Nat
                       /\ Share(i, k) <= Share(j, k) + 1
                       /\ k % n = 0 => Share(i, k) = Share(j, k)
    <3> TAKE k \in Nat
    <3>1. k \div n \in Nat /\ k % n \in Nat /\ i \in Nat /\ j \in Nat
      BY <2>1, Division DEF Index
    <3> QED
      BY <3>1 DEF Share
  <2> DEFINE a == Share(i, CounterSize)
             b == Share(j, CounterSize)
             c == Share(i, counter)
             d == Share(j, counter)
  <2>3. /\ a \in Nat /\ b \in Nat /\ c \in Nat /\ d \in Nat
        /\ a <= b + 1 /\ c <= d + 1 /\ (CounterSize % n = 0 => a = b)
    BY <2>1, <2>2
  <2>4. wraps \in Nat /\ served[i] = wraps * a + c /\ served[j] = wraps * b + d
    BY DEF Shares
  <2> HIDE DEF a, b, c, d
  <2>5. wraps * a \in Nat /\ wraps * b \in Nat
    BY <2>3, <2>4, ProductTyped
  <2>6. CASE CounterSize % n = 0
    <3>1. wraps * a = wraps * b
      BY <2>3, <2>6
    <3> QED
      BY <2>3, <2>4, <2>5, <2>6, <3>1
  <2>7. CASE CounterSize % n # 0
    <3>1. wraps * a <= wraps * b + wraps
      <4>1. a * wraps <= (b + 1) * wraps
        BY <2>3, <2>4, ProductGrows
      <4>2. a * wraps = wraps * a /\ (b + 1) * wraps = wraps * b + wraps
        BY <2>3, <2>4
      <4> QED
        BY <4>1, <4>2
    <3> QED
      BY <2>3, <2>4, <2>5, <2>7, <3>1
  <2> QED
    BY <2>6, <2>7
<1>2. AuditPoliciesInit => PoliciesTypeOK
  BY InitTyped DEF AuditPoliciesInit
<1> QED
  BY <1>1, <1>2, SharesInit, SharesStep, AuditTyped, PTL DEF AuditPoliciesSpec

-----------------------------------------------------------------------------
(* Po2.                                                                    *)

\* What query q knows: nothing before its probes, and then of each replica
\* whose probe was answered a RIF between the extremes it has had since.
Knows(q) ==
  /\ stage[q] = "new" => \A k \in Side : heard[q][k] = Pending
  /\ stage[q] = "probing" => \A i \in Index : lowest[q][i] <= load[i] /\ load[i] <= highest[q][i]
  /\ \A k \in Side : heard[q][k] \in Nat =>
       /\ lowest[q][pair[q][k]] <= heard[q][k]
       /\ heard[q][k] <= highest[q][pair[q][k]]
  /\ stage[q] = "chosen" => /\ \A k \in Side : heard[q][k] # Pending
                            /\ choice[q] = pair[q][Better(heard[q][1], heard[q][2])]

Po2Knows ==
  /\ lowest \in [Po2Query -> [Index -> Nat]]
  /\ highest \in [Po2Query -> [Index -> Nat]]
  /\ \A q \in Po2Query : Knows(q)

LEMMA KnowsInit == PoliciesTypeOK /\ AuditPoliciesInit => Po2Knows
<1> SUFFICES ASSUME PoliciesTypeOK, AuditPoliciesInit PROVE Po2Knows
  OBVIOUS
<1>1. /\ \A q \in Po2Query : /\ stage[q] = "new" /\ heard[q] = <<Pending, Pending>>
                             /\ lowest[q] = load /\ highest[q] = load
      /\ lowest = [q \in Po2Query |-> load] /\ highest = [q \in Po2Query |-> load]
      /\ load \in [Index -> Nat]
  BY LoadAssumption DEF AuditPoliciesInit, PoliciesInit, Po2Init, PoliciesTypeOK, Po2TypeOK
<1> QED
  BY <1>1 DEF Po2Knows, Knows, Side, Pending

\* What the history records of one query at a step of po2.
LEMMA TrackedTyped ==
  ASSUME PoliciesTypeOK, PoliciesTypeOK', Po2Knows, AuditPo2, UNCHANGED n
  PROVE  /\ lowest' \in [Po2Query -> [Index -> Nat]]
         /\ highest' \in [Po2Query -> [Index -> Nat]]
         /\ \A q \in Po2Query :
              /\ stage[q] = "new" => lowest'[q] = load' /\ highest'[q] = load'
              /\ stage[q] = "chosen" => lowest'[q] = lowest[q] /\ highest'[q] = highest[q]
              /\ stage[q] = "probing" =>
                   \A i \in Index :
                     /\ lowest'[q][i] <= lowest[q][i] /\ lowest'[q][i] <= load'[i]
                     /\ highest'[q][i] >= highest[q][i] /\ highest'[q][i] >= load'[i]
<1>1. load' \in [Index -> Nat] /\ stage \in [Po2Query -> {"new", "probing", "chosen"}]
  <2>1. Index' = Index
    BY DEF Index
  <2> QED
    BY <2>1, LoadAssumption DEF PoliciesTypeOK, Po2TypeOK
<1>2. lowest \in [Po2Query -> [Index -> Nat]] /\ highest \in [Po2Query -> [Index -> Nat]]
  BY DEF Po2Knows
<1>3. ASSUME NEW q \in Po2Query
      PROVE  /\ lowest'[q] = CASE stage[q] = "new"    -> load'
                               [] stage[q] = "chosen" -> lowest[q]
                               [] OTHER -> [i \in Index |-> Lesser(lowest[q][i], load'[i])]
             /\ highest'[q] = CASE stage[q] = "new"    -> load'
                                [] stage[q] = "chosen" -> highest[q]
                                [] OTHER -> [i \in Index |-> Greater(highest[q][i], load'[i])]
  BY DEF AuditPo2, Tracked
<1>4. ASSUME NEW q \in Po2Query
      PROVE  /\ lowest'[q] \in [Index -> Nat] /\ highest'[q] \in [Index -> Nat]
             /\ stage[q] = "new" => lowest'[q] = load' /\ highest'[q] = load'
             /\ stage[q] = "chosen" => lowest'[q] = lowest[q] /\ highest'[q] = highest[q]
             /\ stage[q] = "probing" =>
                  \A i \in Index :
                    /\ lowest'[q][i] <= lowest[q][i] /\ lowest'[q][i] <= load'[i]
                    /\ highest'[q][i] >= highest[q][i] /\ highest'[q][i] >= load'[i]
  <2>1. lowest[q] \in [Index -> Nat] /\ highest[q] \in [Index -> Nat]
    BY <1>2
  <2>2. CASE stage[q] = "new"
    BY <1>1, <1>3, <2>2
  <2>3. CASE stage[q] = "chosen"
    BY <1>3, <2>1, <2>3
  <2>4. CASE stage[q] = "probing"
    <3>1. /\ lowest'[q] = [i \in Index |-> Lesser(lowest[q][i], load'[i])]
          /\ highest'[q] = [i \in Index |-> Greater(highest[q][i], load'[i])]
      BY <1>3, <2>4
    <3>2. \A a, b \in Nat : /\ Lesser(a, b) \in Nat /\ Lesser(a, b) <= a /\ Lesser(a, b) <= b
                            /\ Greater(a, b) \in Nat /\ Greater(a, b) >= a /\ Greater(a, b) >= b
      BY DEF Lesser, Greater
    <3> QED
      BY <1>1, <2>1, <2>4, <3>1, <3>2
  <2> QED
    BY <1>1, <2>2, <2>3, <2>4
<1>5. /\ lowest' = [q \in Po2Query |-> lowest'[q]]
      /\ highest' = [q \in Po2Query |-> highest'[q]]
  BY DEF AuditPo2
<1> QED
  BY <1>4, <1>5

\* What a step does to one query: its own draw, a probe of its, its choice, or
\* nothing of its own.
LEMMA KnowsStep ==
  ASSUME PoliciesTypeOK, PoliciesTypeOK', Po2Knows, AuditPo2, UNCHANGED n, NEW q \in Po2Query
  PROVE  Knows(q)'
<1>1. /\ Knows(q) /\ Index' = Index
      /\ lowest \in [Po2Query -> [Index -> Nat]] /\ highest \in [Po2Query -> [Index -> Nat]]
  BY DEF Po2Knows, Index
<1>2. /\ load \in [Index -> Nat] /\ load' \in [Index -> Nat]
      /\ stage \in [Po2Query -> {"new", "probing", "chosen"}]
      /\ pair \in [Po2Query -> Index \X Index]
      /\ heard \in [Po2Query -> ({Pending, Failed} \cup Load) \X ({Pending, Failed} \cup Load)]
      /\ choice \in [Po2Query -> Index \cup {Unchosen}]
  BY <1>1, LoadAssumption DEF PoliciesTypeOK, Po2TypeOK
<1>3. /\ stage[q] = "new" => lowest'[q] = load' /\ highest'[q] = load'
      /\ stage[q] = "chosen" => lowest'[q] = lowest[q] /\ highest'[q] = highest[q]
      /\ stage[q] = "probing" =>
           \A i \in Index :
             /\ lowest'[q][i] <= lowest[q][i] /\ lowest'[q][i] <= load'[i]
             /\ highest'[q][i] >= highest[q][i] /\ highest'[q][i] >= load'[i]
      /\ lowest'[q] \in [Index -> Nat] /\ highest'[q] \in [Index -> Nat]
  BY TrackedTyped
<1>4. \A k \in Side : pair[q][k] \in Index
  BY <1>2 DEF Side
<1>5. Pending \notin Nat /\ Failed \notin Nat /\ Failed # Pending
  BY DEF Pending, Failed
<1>6. stage[q] \in {"new", "probing", "chosen"}
  BY <1>2
<1>7. ASSUME stage[q] = "probing", NEW k \in Side, heard[q][k] \in Nat
      PROVE  lowest'[q][pair[q][k]] <= heard[q][k] /\ heard[q][k] <= highest'[q][pair[q][k]]
  <2> DEFINE i == pair[q][k]
             h == heard[q][k]
  <2>1. lowest[q][i] <= h /\ h <= highest[q][i] /\ i \in Index /\ h \in Nat
    BY <1>1, <1>4, <1>7 DEF Knows
  <2>2. lowest[q][i] \in Nat /\ highest[q][i] \in Nat
    BY <1>1, <2>1
  <2>3. /\ lowest'[q][i] <= lowest[q][i] /\ highest'[q][i] >= highest[q][i]
        /\ lowest'[q][i] \in Nat /\ highest'[q][i] \in Nat
    BY <1>3, <1>7, <2>1
  <2> HIDE DEF i, h
  <2>4. lowest'[q][i] <= h /\ h <= highest'[q][i]
    BY <2>1, <2>2, <2>3
  <2> QED
    BY <2>4 DEF i, h
<1>8. CASE UNCHANGED <<stage[q], pair[q], heard[q], choice[q]>>
  <2>1. ASSUME stage[q] = "new"
        PROVE  Knows(q)'
    BY <1>1, <1>5, <1>8, <2>1 DEF Knows
  <2>2. ASSUME stage[q] = "probing"
        PROVE  Knows(q)'
    <3>1. \A i \in Index : lowest'[q][i] <= load'[i] /\ load'[i] <= highest'[q][i]
      BY <1>2, <1>3, <2>2
    <3> QED
      BY <1>1, <1>7, <1>8, <2>2, <3>1 DEF Knows
  <2>3. ASSUME stage[q] = "chosen"
        PROVE  Knows(q)'
    BY <1>1, <1>3, <1>8, <2>3 DEF Knows
  <2> QED
    BY <1>6, <2>1, <2>2, <2>3
<1>9. CASE Draw(q)
  <2>1. stage[q] = "new" /\ stage'[q] = "probing" /\ UNCHANGED <<load, heard, choice>>
    BY <1>2, <1>9 DEF Draw
  <2>2. \A i \in Index : lowest'[q][i] <= load'[i] /\ load'[i] <= highest'[q][i]
    BY <1>2, <1>3, <2>1
  <2>3. \A k \in Side : heard'[q][k] \notin Nat
    BY <1>1, <1>5, <2>1 DEF Knows
  <2> QED
    BY <1>1, <2>1, <2>2, <2>3 DEF Knows
<1>10. ASSUME NEW k \in Side, Hear(q, k) \/ Miss(q, k)
       PROVE  Knows(q)'
  <2>1. stage[q] = "probing" /\ UNCHANGED <<load, stage, pair, choice>>
    BY <1>10 DEF Hear, Miss
  <2>2. PICK v : /\ heard' = [heard EXCEPT ![q][k] = v]
                 /\ v = Failed \/ v = load[pair[q][k]]
    BY <1>10 DEF Hear, Miss
  <2>3. heard'[q][k] = v /\ heard'[q][3 - k] = heard[q][3 - k]
    BY <1>2, <2>2 DEF Side
  <2>4. \A i \in Index : lowest'[q][i] <= load'[i] /\ load'[i] <= highest'[q][i]
    BY <1>2, <1>3, <2>1
  <2>5. v \in Nat => lowest'[q][pair[q][k]] <= v /\ v <= highest'[q][pair[q][k]]
    BY <1>4, <1>5, <2>1, <2>2, <2>4
  <2>6. \A m \in Side : m = k \/ m = 3 - k
    BY DEF Side
  <2>7. \A m \in Side : heard'[q][m] \in Nat =>
          /\ lowest'[q][pair'[q][m]] <= heard'[q][m]
          /\ heard'[q][m] <= highest'[q][pair'[q][m]]
    BY <1>7, <2>1, <2>3, <2>5, <2>6
  <2> QED
    BY <1>1, <2>1, <2>4, <2>7 DEF Knows
<1>11. CASE Choose(q)
  <2>1. /\ stage[q] = "probing" /\ stage'[q] = "chosen"
        /\ \A k \in Side : heard[q][k] # Pending
        /\ choice'[q] = pair[q][Better(heard[q][1], heard[q][2])]
        /\ UNCHANGED <<load, pair, heard>>
    BY <1>2, <1>11 DEF Choose
  <2> QED
    BY <1>7, <2>1 DEF Knows, Better
<1>12. ASSUME NEW p \in Po2Query, p # q, Draw(p) \/ Po2Step(p)
       PROVE  UNCHANGED <<stage[q], pair[q], heard[q], choice[q]>>
  BY <1>2, <1>12 DEF Po2Step, Draw, Hear, Miss, Choose
<1>13. LoadChanges => UNCHANGED <<stage[q], pair[q], heard[q], choice[q]>>
  BY DEF LoadChanges
<1> QED
  <2>1. Po2Next
    BY DEF AuditPo2, Po2Turn
  <2> QED
    BY <2>1, <1>8, <1>9, <1>10, <1>11, <1>12, <1>13 DEF Po2Next, Po2Step

LEMMA KnowsKept ==
  PoliciesTypeOK /\ PoliciesTypeOK' /\ Po2Knows /\ [AuditPoliciesNext]_auditPoliciesVars
    => Po2Knows'
<1> SUFFICES ASSUME PoliciesTypeOK, PoliciesTypeOK', Po2Knows,
                    [AuditPoliciesNext]_auditPoliciesVars
             PROVE  Po2Knows'
  OBVIOUS
<1>1. UNCHANGED n /\ Index' = Index
  BY AuditSteps, FixedAtStart DEF Index
<1>2. CASE AuditPo2
  <2>1. lowest' \in [Po2Query -> [Index -> Nat]] /\ highest' \in [Po2Query -> [Index -> Nat]]
    BY <1>1, <1>2, TrackedTyped
  <2>2. \A q \in Po2Query : Knows(q)'
    BY <1>1, <1>2, KnowsStep
  <2> QED
    BY <1>1, <2>1, <2>2 DEF Po2Knows
<1>3. CASE UNCHANGED <<po2Vars, lowest, highest>>
  BY <1>1, <1>3 DEF Po2Knows, Knows, po2Vars
<1>4. AuditRoundRobin \/ AuditRefresh \/ AuditSkip => UNCHANGED <<po2Vars, lowest, highest>>
  BY DEF AuditRoundRobin, PickRoundRobin, AuditRefresh, AuditSkip, WrrTurn
<1>5. AuditUnobserved \/ UNCHANGED auditPoliciesVars => UNCHANGED <<po2Vars, lowest, highest>>
  BY DEF AuditUnobserved, PickRandom, PickWeighted, WrrTurn, policiesHistory, auditPoliciesVars,
         policiesVars
<1> QED
  BY <1>2, <1>3, <1>4, <1>5 DEF AuditPoliciesNext

\* The replica that po2 takes of two was not, all the while its query's probes
\* were under way, busier than the other ever was, and it is one that answered
\* if any did (the po2 arm of select).
THEOREM Po2NeverTakesTheBusier == AuditPoliciesSpec => []NeverTheBusier
<1>1. PoliciesTypeOK /\ Po2Knows => NeverTheBusier
  <2> SUFFICES ASSUME PoliciesTypeOK, Po2Knows, NEW q \in Po2Query, NEW k \in Side,
                      stage[q] = "chosen", choice[q] = pair[q][k]
               PROVE  IF heard[q][k] = Failed THEN heard[q][3 - k] = Failed
                      ELSE \/ heard[q][3 - k] = Failed
                           \/ lowest[q][pair[q][k]] <= highest[q][pair[q][3 - k]]
    BY DEF NeverTheBusier
  <2>1. /\ \A m \in Side : heard[q][m] # Pending
        /\ choice[q] = pair[q][Better(heard[q][1], heard[q][2])]
        /\ \A m \in Side : heard[q][m] \in Nat =>
             /\ lowest[q][pair[q][m]] <= heard[q][m]
             /\ heard[q][m] <= highest[q][pair[q][m]]
    BY DEF Po2Knows, Knows
  <2>2. /\ pair[q][1] # pair[q][2]
        /\ \A m \in Side : pair[q][m] \in Index /\ heard[q][m] \in {Pending, Failed} \cup Nat
    BY LoadAssumption DEF PoliciesTypeOK, Po2TypeOK, Side
  <2>3. k = Better(heard[q][1], heard[q][2])
    BY <2>1, <2>2 DEF Better, Side
  <2>4. \A m \in Side : lowest[q][pair[q][m]] \in Nat /\ highest[q][pair[q][m]] \in Nat
    BY <2>2 DEF Po2Knows
  <2>5. CASE heard[q][k] = Failed
    BY <2>3, <2>5 DEF Better, Side, Failed
  <2>6. CASE heard[q][k] # Failed /\ heard[q][3 - k] # Failed
    <3>1. 3 - k \in Side
      BY DEF Side
    <3>2. heard[q][k] \in Nat /\ heard[q][3 - k] \in Nat
      BY <2>1, <2>2, <2>6, <3>1
    <3>3. heard[q][k] <= heard[q][3 - k]
      BY <2>3, <2>6, <3>2 DEF Better, Side
    <3> DEFINE a == lowest[q][pair[q][k]]
               b == highest[q][pair[q][3 - k]]
    <3>4. a <= heard[q][k] /\ heard[q][3 - k] <= b /\ a \in Nat /\ b \in Nat
      BY <2>1, <2>4, <3>1, <3>2
    <3> HIDE DEF a, b
    <3>5. a <= b
      BY <3>2, <3>3, <3>4
    <3> QED
      BY <2>6, <3>5 DEF a, b
  <2> QED
    BY <2>5, <2>6
<1>2. AuditPoliciesInit => PoliciesTypeOK
  BY InitTyped DEF AuditPoliciesInit
<1> QED
  BY <1>1, <1>2, KnowsInit, KnowsKept, AuditTyped, PTL DEF AuditPoliciesSpec

-----------------------------------------------------------------------------
(* Wrr.                                                                    *)

Gap == IF Period > n * ProbeTimeout THEN Period ELSE n * ProbeTimeout

\* The last round began at s, or none has yet and s is 0: probe c of it is
\* over by s + (c + 1) * ProbeTimeout, and the good readings are from this
\* round up to the cursor, from the round before after it.
RoundFrom(s) ==
  /\ s <= time /\ due <= s + Period
  /\ cursor < n =>
       /\ deadline <= s + (cursor + 1) * ProbeTimeout
       /\ s + ProbeTimeout <= deadline /\ time <= deadline
       /\ \A i \in answering : readFrom[i] >= IF i < cursor THEN s ELSE s - Gap
  /\ cursor = n =>
       /\ time <= s + Gap
       /\ \A i \in answering : readFrom[i] >= s

Rounds ==
  /\ answering \subseteq Index
  /\ readFrom \in [Index -> Int]
  /\ policy = "wrr" => \E s \in Nat : RoundFrom(s)

\* How the ends of the probes of a round follow each other.
LEMMA ProbeEnds ==
  ASSUME n \in Nat, n >= 2
  PROVE  /\ Gap \in Nat /\ Period <= Gap /\ n * ProbeTimeout <= Gap
         /\ \A c \in Nat :
              /\ (c + 1) * ProbeTimeout \in Nat
              /\ (c + 2) * ProbeTimeout = (c + 1) * ProbeTimeout + ProbeTimeout
              /\ c < n => (c + 1) * ProbeTimeout <= n * ProbeTimeout
              /\ \A i \in Nat : c <= i => (c + 1) * ProbeTimeout <= (i + 1) * ProbeTimeout
<1>1. Period \in Nat \ {0} /\ ProbeTimeout \in Nat \ {0}
  BY TimingAssumption
<1>2. n * ProbeTimeout \in Nat
  BY <1>1, ProductTyped
<1>3. ASSUME NEW c \in Nat
      PROVE  /\ (c + 1) * ProbeTimeout \in Nat
             /\ (c + 2) * ProbeTimeout = (c + 1) * ProbeTimeout + ProbeTimeout
             /\ c < n => (c + 1) * ProbeTimeout <= n * ProbeTimeout
             /\ \A i \in Nat : c <= i => (c + 1) * ProbeTimeout <= (i + 1) * ProbeTimeout
  <2>1. (c + 1) * ProbeTimeout \in Nat /\ (c + 2) * ProbeTimeout = (c + 1) * ProbeTimeout + ProbeTimeout
    BY <1>1
  <2>2. c < n => (c + 1) * ProbeTimeout <= n * ProbeTimeout
    <3>1. c < n => c + 1 <= n
      OBVIOUS
    <3> QED
      BY <1>1, <3>1, ProductGrows
  <2>3. ASSUME NEW i \in Nat, c <= i
        PROVE  (c + 1) * ProbeTimeout <= (i + 1) * ProbeTimeout
    <3>1. c + 1 \in Nat /\ i + 1 \in Nat /\ c + 1 <= i + 1
      BY <2>3
    <3> QED
      BY <1>1, <3>1, ProductGrows
  <2> QED
    BY <2>1, <2>2, <2>3
<1>4. Gap \in Nat /\ Period <= Gap /\ n * ProbeTimeout <= Gap
  BY <1>1, <1>2 DEF Gap
<1> QED
  BY <1>3, <1>4

\* The refresher's own steps.
LEMMA RoundsStep ==
  ASSUME PoliciesTypeOK, Rounds, policy = "wrr", UNCHANGED n,
         \/ AuditRefresh
         \/ AuditSkip
         \/ WrrTurn(Round \/ TimePasses) /\ UNCHANGED policiesHistory
  PROVE  /\ answering' \subseteq Index
         /\ readFrom' \in [Index -> Int]
         /\ \E s \in Nat : RoundFrom(s)'
<1> DEFINE End(c) == (c + 1) * ProbeTimeout
<1>1. /\ n \in Nat /\ n >= 2 /\ time \in Nat /\ due \in Nat /\ deadline \in Nat /\ cursor \in 0 .. n
      /\ Period \in Nat \ {0} /\ ProbeTimeout \in Nat \ {0}
  BY FleetTyped, TimingAssumption DEF PoliciesTypeOK, WrrTypeOK
<1>2. /\ Gap \in Nat /\ Period <= Gap /\ n * ProbeTimeout <= Gap /\ n * ProbeTimeout \in Nat
      /\ \A c \in Nat : /\ End(c) \in Nat
                        /\ End(c + 1) = End(c) + ProbeTimeout
                        /\ c < n => End(c) <= n * ProbeTimeout
  <2>1. \A c \in Nat : c + 1 + 1 = c + 2
    OBVIOUS
  <2>2. n * ProbeTimeout \in Nat
    BY <1>1, ProductTyped
  <2> QED
    BY <1>1, <2>1, <2>2, ProbeEnds
<1>3. End(0) = ProbeTimeout
  BY <1>1
<1>4. PICK s \in Nat : RoundFrom(s)
  BY DEF Rounds
<1>5. answering \in SUBSET Index /\ readFrom \in [Index -> Int] /\ Index = 0 .. n - 1
  BY DEF Rounds, Index
<1>6. Index' = Index /\ Gap' = Gap
  BY DEF Index, Gap
<1>7. /\ s <= time /\ due <= s + Period
      /\ cursor < n =>
           /\ deadline <= s + End(cursor)
           /\ s + ProbeTimeout <= deadline /\ time <= deadline
           /\ \A i \in answering : readFrom[i] >= IF i < cursor THEN s ELSE s - Gap
      /\ cursor = n =>
           /\ time <= s + Gap
           /\ \A i \in answering : readFrom[i] >= s
  BY <1>4 DEF RoundFrom
<1>8. ASSUME NEW u \in Nat,
             /\ u <= time' /\ due' <= u + Period
             /\ cursor' < n =>
                  /\ deadline' <= u + End(cursor')
                  /\ u + ProbeTimeout <= deadline' /\ time' <= deadline'
                  /\ \A i \in answering' : readFrom'[i] >= IF i < cursor' THEN u ELSE u - Gap
             /\ cursor' = n =>
                  /\ time' <= u + Gap
                  /\ \A i \in answering' : readFrom'[i] >= u
      PROVE  \E v \in Nat : RoundFrom(v)'
  BY <1>6, <1>8 DEF RoundFrom
<1> HIDE DEF End
<1>9. CASE WrrTurn(Round) /\ UNCHANGED policiesHistory
  <2>1. /\ cursor = n /\ cursor' = 0 /\ time >= due /\ due' = due + Period
        /\ deadline' = time + ProbeTimeout
        /\ UNCHANGED <<time, readFrom, answering>>
    BY <1>9 DEF WrrTurn, Round, policiesHistory
  <2>2. \A i \in answering : readFrom[i] \in Int /\ readFrom[i] >= time - Gap
    <3> TAKE i \in answering
    <3>1. readFrom[i] \in Int /\ readFrom[i] >= s /\ time <= s + Gap
      BY <1>5, <1>7, <2>1
    <3> QED
      BY <1>1, <1>2, <3>1
  <2>3. \A i \in answering : ~(i < 0)
    BY <1>5
  <2>4. /\ time <= time' /\ due' <= time + Period
        /\ deadline' <= time + End(cursor')
        /\ time + ProbeTimeout <= deadline' /\ time' <= deadline'
        /\ ~(cursor' = n)
    <3>1. due + Period <= time + Period /\ 0 # n
      BY <1>1, <2>1
    <3> QED
      BY <1>1, <1>3, <2>1, <3>1
  <2>5. \A i \in answering' : readFrom'[i] >= IF i < cursor' THEN time ELSE time - Gap
    BY <2>1, <2>2, <2>3
  <2>6. \E v \in Nat : RoundFrom(v)'
    BY <1>1, <1>8, <2>4, <2>5
  <2> QED
    BY <1>5, <2>1, <2>6
<1>10. ASSUME cursor < n, Advance, UNCHANGED time, answering' \in SUBSET Index,
              readFrom' \in [Index -> Int],
              \A i \in answering' :
                readFrom'[i] >= IF i < cursor + 1 THEN s ELSE s - Gap
       PROVE  \E v \in Nat : RoundFrom(v)'
  <2>1. /\ cursor' = cursor + 1 /\ UNCHANGED <<time, due>>
        /\ deadline' = IF cursor + 1 = n THEN deadline ELSE time + ProbeTimeout
    BY <1>10 DEF Advance
  <2>2. cursor \in Nat /\ cursor + 1 \in Nat
    BY <1>1
  <2>3. /\ deadline <= s + End(cursor) /\ s + ProbeTimeout <= deadline /\ time <= deadline
        /\ s <= time /\ due <= s + Period
    BY <1>7, <1>10
  <2>4. /\ End(cursor) \in Nat /\ End(cursor + 1) = End(cursor) + ProbeTimeout
        /\ End(cursor) <= n * ProbeTimeout
    BY <1>2, <1>10, <2>2
  <2>5. CASE cursor + 1 = n
    <3>1. time <= s + Gap
      BY <1>1, <1>2, <2>3, <2>4
    <3>2. \A i \in answering' : readFrom'[i] >= s
      <4>1. \A i \in answering' : i < cursor + 1
        <5> TAKE i \in answering'
        <5>1. i \in 0 .. n - 1
          BY <1>5, <1>10
        <5> QED
          BY <1>1, <2>5, <5>1
      <4> QED
        BY <1>10, <4>1
    <3>3. ~(cursor' < n) /\ cursor' = n
      BY <1>1, <2>1, <2>5
    <3> QED
      BY <1>8, <2>1, <2>3, <3>1, <3>2, <3>3
  <2>6. CASE cursor + 1 # n
    <3>1. cursor' # n /\ deadline' = time + ProbeTimeout
      BY <2>1, <2>6
    <3>2. /\ deadline' <= s + End(cursor')
          /\ s + ProbeTimeout <= deadline' /\ time' <= deadline'
      BY <1>1, <2>1, <2>3, <2>4, <3>1
    <3> QED
      BY <1>8, <1>10, <2>1, <2>3, <3>1, <3>2
  <2> QED
    BY <2>5, <2>6
<1>11. CASE AuditRefresh
  <2>1. /\ cursor < n /\ Advance /\ UNCHANGED time
        /\ readFrom' = [readFrom EXCEPT ![cursor] = deadline - ProbeTimeout]
        /\ answering' = answering \cup {cursor}
    BY <1>11 DEF AuditRefresh, WrrTurn, Refresh, Advance
  <2>2. cursor \in Index /\ answering' \in SUBSET Index /\ readFrom' \in [Index -> Int]
    BY <1>1, <1>5, <2>1
  <2>3. ASSUME NEW i \in answering'
        PROVE  readFrom'[i] >= IF i < cursor + 1 THEN s ELSE s - Gap
    <3>1. CASE i = cursor
      <4>1. readFrom'[i] = deadline - ProbeTimeout /\ i < cursor + 1
        BY <1>1, <1>5, <2>1, <2>2, <3>1
      <4> QED
        BY <1>1, <1>7, <2>1, <4>1
    <3>2. CASE i # cursor
      <4>1. i \in answering /\ i \in Index /\ i \in Nat /\ readFrom'[i] = readFrom[i]
        BY <1>5, <2>1, <3>2
      <4>2. i < cursor + 1 <=> i < cursor
        BY <1>1, <3>2, <4>1
      <4> QED
        BY <1>7, <2>1, <4>1, <4>2
    <3> QED
      BY <3>1, <3>2
  <2> QED
    BY <1>10, <2>1, <2>2, <2>3
<1>12. CASE AuditSkip
  <2>1. /\ cursor < n /\ Advance /\ UNCHANGED <<time, readFrom>>
        /\ answering' = answering \ {cursor}
    BY <1>12 DEF AuditSkip, WrrTurn, Skip, Advance
  <2>2. ASSUME NEW i \in answering'
        PROVE  readFrom'[i] >= IF i < cursor + 1 THEN s ELSE s - Gap
    <3>1. i \in answering /\ i \in Nat /\ (i < cursor + 1 <=> i < cursor)
      BY <1>1, <1>5, <2>1
    <3> QED
      BY <1>7, <2>1, <3>1
  <2> QED
    BY <1>5, <1>10, <2>1, <2>2
<1>13. CASE WrrTurn(TimePasses) /\ UNCHANGED policiesHistory
  <2>1. /\ time' = time + 1 /\ time < IF cursor < n THEN deadline ELSE due
        /\ UNCHANGED <<due, cursor, deadline, readFrom, answering>>
    BY <1>13 DEF WrrTurn, TimePasses, policiesHistory
  <2>2. CASE cursor < n
    <3>1. cursor # n /\ s <= time' /\ time' <= deadline'
      BY <1>1, <1>7, <2>1, <2>2
    <3>2. \E v \in Nat : RoundFrom(v)'
      BY <1>7, <1>8, <2>1, <2>2, <3>1
    <3> QED
      BY <1>5, <2>1, <3>2
  <2>3. CASE cursor = n
    <3>1. ~(cursor < n) /\ s <= time' /\ time' <= s + Gap
      BY <1>1, <1>2, <1>7, <2>1, <2>3
    <3>2. \E v \in Nat : RoundFrom(v)'
      BY <1>7, <1>8, <2>1, <2>3, <3>1
    <3> QED
      BY <1>5, <2>1, <3>2
  <2> QED
    BY <1>1, <2>2, <2>3
<1> QED
  BY <1>5, <1>6, <1>9, <1>11, <1>12, <1>13 DEF WrrTurn, AuditRefresh, AuditSkip

LEMMA RoundsKept ==
  PoliciesTypeOK /\ Rounds /\ [AuditPoliciesNext]_auditPoliciesVars => Rounds'
<1> SUFFICES ASSUME PoliciesTypeOK, Rounds, [AuditPoliciesNext]_auditPoliciesVars
             PROVE  Rounds'
  OBVIOUS
<1>1. UNCHANGED <<policy, n>> /\ Index' = Index /\ Gap' = Gap
  BY AuditSteps, FixedAtStart DEF Index, Gap
<1>2. CASE \/ AuditRefresh
           \/ AuditSkip
           \/ WrrTurn(Round \/ TimePasses) /\ UNCHANGED policiesHistory
  <2>1. policy = "wrr"
    BY <1>2 DEF AuditRefresh, AuditSkip, WrrTurn
  <2>2. /\ answering' \subseteq Index
        /\ readFrom' \in [Index -> Int]
        /\ \E s \in Nat : RoundFrom(s)'
    BY <1>1, <1>2, <2>1, RoundsStep
  <2> QED
    BY <1>1, <2>2 DEF Rounds
<1>3. CASE UNCHANGED <<wrrVars, readFrom, answering>>
  <2>1. \A s \in Nat : RoundFrom(s)' <=> RoundFrom(s)
    BY <1>1, <1>3 DEF RoundFrom, wrrVars
  <2> QED
    BY <1>1, <1>3, <2>1 DEF Rounds
<1>4. AuditRoundRobin \/ AuditPo2 => UNCHANGED <<wrrVars, readFrom, answering>>
  BY DEF AuditRoundRobin, PickRoundRobin, AuditPo2, Po2Turn
<1>5. (PickRandom \/ PickWeighted) /\ UNCHANGED policiesHistory
        => UNCHANGED <<wrrVars, readFrom, answering>>
  BY DEF PickRandom, PickWeighted, policiesHistory
<1>6. UNCHANGED auditPoliciesVars => UNCHANGED <<wrrVars, readFrom, answering>>
  BY DEF auditPoliciesVars, policiesHistory, policiesVars
<1> QED
  BY <1>2, <1>3, <1>4, <1>5, <1>6 DEF AuditPoliciesNext, AuditUnobserved

\* A replica that goes on answering never has a weight from before the longest
\* gap between two rounds and the probes up to its own, whatever becomes of
\* the other probes (the refresh task of Balancer::start).
THEOREM WeightsStayFresh == AuditPoliciesSpec => []AnsweringWeightsAreFresh
<1>1. AuditPoliciesInit => PoliciesTypeOK /\ Rounds
  <2> SUFFICES ASSUME AuditPoliciesInit PROVE PoliciesTypeOK /\ Rounds
    OBVIOUS
  <2>1. PoliciesTypeOK
    BY InitTyped DEF AuditPoliciesInit
  <2>2. n \in Nat /\ n >= 2 /\ Gap \in Nat /\ Period \in Nat
    BY <2>1, FleetTyped, ProbeEnds, TimingAssumption DEF PoliciesTypeOK
  <2>3. /\ time = 0 /\ due = 0 /\ cursor = n /\ answering = Index
        /\ readFrom = [i \in Index |-> 0]
    BY DEF AuditPoliciesInit, PoliciesInit, WrrInit
  <2>4. RoundFrom(0)
    BY <2>2, <2>3 DEF RoundFrom
  <2> QED
    BY <2>1, <2>3, <2>4 DEF Rounds
<1>2. PoliciesTypeOK /\ Rounds => AnsweringWeightsAreFresh
  <2> SUFFICES ASSUME PoliciesTypeOK, Rounds, policy = "wrr", NEW i \in answering
               PROVE  time - readFrom[i] <= Gap + (i + 1) * ProbeTimeout
    BY DEF AnsweringWeightsAreFresh, Gap
  <2>1. n \in Nat /\ n >= 2 /\ time \in Nat /\ deadline \in Nat /\ cursor \in 0 .. n
    BY FleetTyped DEF PoliciesTypeOK, WrrTypeOK
  <2>2. PICK s \in Nat : RoundFrom(s)
    BY DEF Rounds
  <2>3. i \in Nat /\ readFrom[i] \in Int
    BY DEF Rounds, Index
  <2> DEFINE End(c) == (c + 1) * ProbeTimeout
  <2>4. /\ Gap \in Nat /\ End(i) \in Nat
        /\ cursor < n => End(cursor) \in Nat /\ End(cursor) <= Gap
        /\ cursor <= i => End(cursor) <= End(i)
    <3>1. cursor \in Nat /\ n * ProbeTimeout \in Nat
      BY <2>1, TimingAssumption, ProductTyped
    <3>2. cursor < n => End(cursor) \in Nat /\ End(cursor) <= n * ProbeTimeout
      BY <2>1, <3>1, ProbeEnds
    <3>3. Gap \in Nat /\ n * ProbeTimeout <= Gap /\ End(i) \in Nat
      BY <2>1, <2>3, ProbeEnds
    <3>4. cursor <= i => End(cursor) <= End(i)
      BY <2>1, <2>3, <3>1, ProbeEnds
    <3> HIDE DEF End
    <3>5. cursor < n => End(cursor) <= Gap
      BY <3>1, <3>2, <3>3
    <3> QED
      BY <3>2, <3>3, <3>4, <3>5
  <2>5. cursor < n =>
          /\ deadline <= s + End(cursor) /\ time <= deadline
          /\ readFrom[i] >= IF i < cursor THEN s ELSE s - Gap
    BY <2>2 DEF RoundFrom
  <2>6. cursor = n => time <= s + Gap /\ readFrom[i] >= s
    BY <2>2 DEF RoundFrom
  <2>7. time - readFrom[i] <= Gap + End(i)
    <3> HIDE DEF End
    <3>1. CASE cursor = n
      BY <2>1, <2>3, <2>4, <2>6, <3>1
    <3>2. CASE cursor < n /\ i < cursor
      BY <2>1, <2>3, <2>4, <2>5, <3>2
    <3>3. CASE cursor < n /\ ~(i < cursor)
      BY <2>1, <2>3, <2>4, <2>5, <3>3
    <3> QED
      BY <2>1, <3>1, <3>2, <3>3
  <2> QED
    BY <2>7
<1> QED
  BY <1>1, <1>2, RoundsKept, AuditTyped, PTL DEF AuditPoliciesSpec
=============================================================================
