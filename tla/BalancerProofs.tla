--------------------------- MODULE BalancerProofs ---------------------------
(***************************************************************************)
(* Theorems about the concurrent balancer, by itself and among loaded      *)
(* replicas, for every value of the constants: any number of queries,      *)
(* probes, replicas, readings and foreign requests.                        *)
(***************************************************************************)
EXTENDS BalancerAudit, PrequalSystem, ProbePoolProofs

-----------------------------------------------------------------------------
(* The balancer uses the pool as ProbePool allows.                         *)

\* Every step of a balancer's tasks is a step of the pool or leaves it alone.
LEMMA TaskStepIsPoolStep == [BalancerNext]_balancerVars => [Next]_vars
<1> SUFFICES ASSUME [BalancerNext]_balancerVars
             PROVE  [Next]_vars
  OBVIOUS
<1>1. ASSUME NEW q \in Query, Trigger(q) \/ Send(q)
      PROVE  UNCHANGED vars
  BY <1>1 DEF Trigger, Send
<1>2. ASSUME NEW q \in Query, QueryStep(q)
      PROVE  [Next]_vars
  BY <1>2, Zenon DEF QueryStep, Decide, Draw, Send, Next
<1>3. ASSUME NEW q \in Query, NEW r \in Replica, NEW rif \in RifReading,
             NEW l \in LatencyReading, Land(q, r, rif, l)
      PROVE  Next
  BY <1>3, Zenon DEF Land, Next
<1>4. ASSUME NEW q \in Query, NEW r \in Replica, Lose(q, r)
      PROVE  UNCHANGED vars
  BY <1>4 DEF Lose
<1>5. CASE Idle
  BY <1>5 DEF Idle, Next
<1>6. CASE UNCHANGED balancerVars
  BY <1>6 DEF balancerVars
<1> QED
  BY <1>1, <1>2, <1>3, <1>4, <1>5, <1>6, Zenon DEF BalancerNext

\* The history variables change nothing in the balancer.
LEMMA AuditStepIsTaskStep == [AuditBalancerNext]_auditBalancerVars => [BalancerNext]_balancerVars
<1> SUFFICES ASSUME [AuditBalancerNext]_auditBalancerVars
             PROVE  [BalancerNext]_balancerVars
  OBVIOUS
<1>1. ASSUME NEW q \in Query, AuditUnobserved(q)
      PROVE  BalancerNext
  BY <1>1, Zenon DEF AuditUnobserved, BalancerNext, QueryStep
<1>2. ASSUME NEW q \in Query, NEW w \in DOMAIN pool \cup {NoProbe}, AuditDecide(q, w)
      PROVE  BalancerNext
  BY <1>2, Zenon DEF AuditDecide, BalancerNext, QueryStep
<1>3. ASSUME NEW q \in Query, NEW r \in Replica, NEW rif \in RifReading,
             NEW l \in LatencyReading, AuditLand(q, r, rif, l)
      PROVE  BalancerNext
  BY <1>3, Zenon DEF AuditLand, BalancerNext
<1>4. CASE Idle /\ UNCHANGED history
  BY <1>4 DEF BalancerNext
<1>5. CASE UNCHANGED auditBalancerVars
  BY <1>5 DEF auditBalancerVars
<1> QED
  BY <1>1, <1>2, <1>3, <1>4, <1>5, Zenon DEF AuditBalancerNext

\* Recorded or not, queries and probe tasks do the same: what holds of the
\* recorded balancer's tasks and pool holds of select() and the probe tasks.
THEOREM AuditIsTheBalancer == AuditBalancerSpec => BalancerInit /\ [][BalancerNext]_balancerVars
<1>1. AuditBalancerInit => BalancerInit
  BY DEF AuditBalancerInit
<1> QED
  BY <1>1, AuditStepIsTaskStep, PTL DEF AuditBalancerSpec

-----------------------------------------------------------------------------
(* Types.                                                                  *)

\* The part of the type invariant about the tasks.
TasksOK ==
  /\ phase \in [Query -> Phase]
  /\ target \in [Query -> Replica \cup {Nowhere}]
  /\ \A q \in Query : target[q] # Nowhere <=> phase[q] \in {"chosen", "sent"}
  /\ fetching \subseteq {q \in Query : phase[q] # "new"} \X Replica

\* A step of a task keeps the types of all of them.
LEMMA TasksStayOK ==
  ASSUME TypeOK, TasksOK, [BalancerNext]_balancerVars
  PROVE  TasksOK'
<1>1. ASSUME NEW q \in Query, Trigger(q)
      PROVE  TasksOK'
  <2>1. PICK T \in ProbeTargets : fetching' = fetching \cup ({q} \X T)
    BY <1>1 DEF Trigger
  <2>2. T \subseteq Replica
    BY DEF ProbeTargets
  <2>3. /\ phase[q] = "new"
        /\ phase' = [phase EXCEPT ![q] = "probing"]
        /\ target' = target
    BY <1>1 DEF Trigger
  <2> QED
    BY <2>1, <2>2, <2>3 DEF TasksOK, Phase
<1>2. ASSUME NEW q \in Query, NEW w \in DOMAIN pool \cup {NoProbe}, Decide(q, w)
      PROVE  TasksOK'
  <2>1. w # NoProbe => pool[w].replica \in Replica
    BY DEF TypeOK, Probe
  <2> QED
    BY <1>2, <2>1, NowhereAssumption DEF TasksOK, Phase, Decide
<1>3. ASSUME NEW q \in Query, NEW r \in Replica, Draw(q, r)
      PROVE  TasksOK'
  BY <1>3, NowhereAssumption DEF TasksOK, Phase, Draw
<1>4. ASSUME NEW q \in Query, Send(q)
      PROVE  TasksOK'
  BY <1>4 DEF TasksOK, Phase, Send
<1>5. ASSUME NEW q \in Query, NEW r \in Replica, NEW rif \in RifReading,
             NEW l \in LatencyReading, Land(q, r, rif, l)
      PROVE  TasksOK'
  BY <1>5 DEF TasksOK, Land
<1>6. ASSUME NEW q \in Query, NEW r \in Replica, Lose(q, r)
      PROVE  TasksOK'
  BY <1>6 DEF TasksOK, Lose
<1>7. CASE Idle
  BY <1>7 DEF TasksOK, Idle
<1>8. CASE UNCHANGED balancerVars
  BY <1>8 DEF TasksOK, balancerVars
<1> QED
  BY <1>1, <1>2, <1>3, <1>4, <1>5, <1>6, <1>7, <1>8, Zenon DEF BalancerNext, QueryStep

\* Type correctness of the concurrent balancer: in particular a query has a
\* replica exactly from the return of select() on.
THEOREM BalancerTypeCorrect == AuditBalancerSpec => []BalancerTypeOK
<1>1. AuditBalancerInit => Init /\ TasksOK
  BY DEF AuditBalancerInit, BalancerInit, TasksOK, Phase
<1>2. TypeOK /\ TasksOK /\ [AuditBalancerNext]_auditBalancerVars => TasksOK'
  BY AuditStepIsTaskStep, TasksStayOK
<1>3. [AuditBalancerNext]_auditBalancerVars => [Next]_vars
  BY AuditStepIsTaskStep, TaskStepIsPoolStep
<1>4. AuditBalancerSpec => Spec
  BY <1>1, <1>3, PTL DEF AuditBalancerSpec, Spec
<1>5. TypeOK /\ TasksOK => BalancerTypeOK
  BY DEF TasksOK, BalancerTypeOK
<1> QED
  BY <1>1, <1>2, <1>4, <1>5, TypeCorrect, PTL DEF AuditBalancerSpec

-----------------------------------------------------------------------------
(* What the queries did with the pool.                                     *)

\* The history variables' values: a query has won only if select() has
\* returned to it, and whatever it won or decided is not in the future.
HistoryOK ==
  /\ winner \in [Query -> Nat]
  /\ decidedAt \in [Query -> Int]
  /\ \A q \in Query : /\ decidedAt[q] <= now
                      /\ winner[q] <= now
                      /\ Won(q) => phase[q] \in {"chosen", "sent"}

\* A decision's winner is an instant of the past, NoProbe included.
LEMMA DecideEffect ==
  ASSUME TypeOK, TasksOK, NEW q \in Query, NEW w \in DOMAIN pool \cup {NoProbe},
         AuditDecide(q, w)
  PROVE  /\ w \in Nat /\ w <= now /\ now' = now /\ now \in Nat
         /\ phase[q] = "probing"
         /\ w # NoProbe => w \in DOMAIN pool /\ phase'[q] = "chosen"
                             /\ target'[q] = pool[w].replica
         /\ w = NoProbe => target' = target
         /\ \A p \in Query \ {q} : phase'[p] = phase[p] /\ target'[p] = target[p]
         /\ winner' = [winner EXCEPT ![q] = w]
         /\ decidedAt' = [decidedAt EXCEPT ![q] = now]
<1>1. Decide(q, w) /\ Select(w)
  BY DEF AuditDecide, Decide
<1>2. w \in Nat /\ w <= now /\ now' = now /\ now \in Nat /\ (w # NoProbe => w \in DOMAIN pool)
  BY <1>1, SelectEffect DEF TypeOK, NoProbe
<1>3. target \in [Query -> Replica \cup {Nowhere}] /\ phase \in [Query -> Phase]
  BY DEF TasksOK
<1>4. /\ phase[q] = "probing"
      /\ phase' = [phase EXCEPT ![q] = IF w = NoProbe THEN "drawing" ELSE "chosen"]
      /\ target' = [target EXCEPT ![q] = IF w = NoProbe THEN @ ELSE pool[w].replica]
  BY <1>1 DEF Decide
<1>5. w = NoProbe => target' = target
  BY <1>3, <1>4
<1> QED
  BY <1>2, <1>3, <1>4, <1>5 DEF AuditDecide

\* The history variables keep their meaning.
LEMMA HistoryStaysOK ==
  ASSUME TypeOK, TasksOK, HistoryOK, [AuditBalancerNext]_auditBalancerVars
  PROVE  HistoryOK'
<1>0. now \in Nat
  BY DEF TypeOK
<1>1. ASSUME NEW q \in Query, AuditUnobserved(q)
      PROVE  HistoryOK'
  <2>1. UNCHANGED <<now, winner, decidedAt>>
    BY <1>1, Zenon DEF AuditUnobserved, Trigger, Send, Draw, Lose, vars, history
  <2>2. \A p \in Query : phase[p] \in {"chosen", "sent"} => phase'[p] \in {"chosen", "sent"}
    <3>1. CASE Trigger(q)
      BY <3>1 DEF Trigger, TasksOK
    <3>2. CASE Send(q)
      BY <3>2 DEF Send, TasksOK
    <3>3. ASSUME NEW r \in Replica, Draw(q, r)
          PROVE  \A p \in Query :
                   phase[p] \in {"chosen", "sent"} => phase'[p] \in {"chosen", "sent"}
      BY <3>3 DEF Draw, TasksOK
    <3>4. ASSUME NEW r \in Replica, Lose(q, r)
          PROVE  phase' = phase
      BY <3>4 DEF Lose
    <3> QED
      BY <1>1, <3>1, <3>2, <3>3, <3>4, Zenon DEF AuditUnobserved
  <2> QED
    BY <2>1, <2>2 DEF HistoryOK, Won
<1>2. ASSUME NEW q \in Query, NEW w \in DOMAIN pool \cup {NoProbe}, AuditDecide(q, w)
      PROVE  HistoryOK'
  BY <1>2, DecideEffect DEF HistoryOK, Won
<1>3. ASSUME NEW q \in Query, NEW r \in Replica, NEW rif \in RifReading,
             NEW l \in LatencyReading, AuditLand(q, r, rif, l)
      PROVE  HistoryOK'
  <2>1. now' = now + 1 /\ UNCHANGED <<winner, decidedAt, phase>>
    BY <1>3 DEF AuditLand, Land, Store
  <2> QED
    BY <1>0, <2>1 DEF HistoryOK, Won
<1>4. CASE Idle /\ UNCHANGED history
  <2>1. now' = now + 1 /\ UNCHANGED <<winner, decidedAt, phase>>
    BY <1>4 DEF Idle, Pass, history
  <2> QED
    BY <1>0, <2>1 DEF HistoryOK, Won
<1>5. CASE UNCHANGED auditBalancerVars
  BY <1>5 DEF auditBalancerVars, balancerVars, vars, history, HistoryOK, Won
<1> QED
  BY <1>1, <1>2, <1>3, <1>4, <1>5, Zenon DEF AuditBalancerNext

\* All that is known of a reachable state of the audited balancer.
AuditOK == TypeOK /\ TasksOK /\ HistoryOK

\* The states of the audited balancer are as their types and history say.
LEMMA AuditIsOK == AuditBalancerSpec => []AuditOK
<1>1. AuditBalancerInit => TasksOK /\ HistoryOK /\ Init
  BY DEF AuditBalancerInit, BalancerInit, Init, TasksOK, Phase, HistoryOK, Won, NoProbe, Never
<1>2. TypeOK /\ TasksOK /\ HistoryOK /\ [AuditBalancerNext]_auditBalancerVars
        => TasksOK' /\ HistoryOK'
  BY AuditStepIsTaskStep, TasksStayOK, HistoryStaysOK
<1>3. [AuditBalancerNext]_auditBalancerVars => [Next]_vars
  BY AuditStepIsTaskStep, TaskStepIsPoolStep
<1>4. AuditBalancerSpec => Spec
  BY <1>1, <1>3, PTL DEF AuditBalancerSpec, Spec
<1> QED
  BY <1>1, <1>2, <1>4, TypeCorrect, PTL DEF AuditBalancerSpec, AuditOK

\* The queries a pooled probe has to have counted.
Counted(t) ==
  {q \in Query : Won(q) /\ target[q] = pool[t].replica /\ decidedAt[q] >= t}

\* No interleaving of selections and insertions loses or repeats an
\* increment: a pooled RIF is the report plus the HCL dispatches since.
THEOREM CompensationStaysExact == AuditBalancerSpec => []CompensationIsExact
<1>0. CompensationIsExact <=>
        \A t \in DOMAIN pool : pool[t].rif - pool[t].rif_at_probe = Cardinality(Counted(t))
  BY DEF CompensationIsExact, Counted
<1>1. AuditBalancerInit => CompensationIsExact
  BY DEF AuditBalancerInit, BalancerInit, Init, EmptyPool, CompensationIsExact
<1>2. AuditOK /\ CompensationIsExact /\ [AuditBalancerNext]_auditBalancerVars
        => CompensationIsExact'
  <2> SUFFICES ASSUME AuditOK, CompensationIsExact, [AuditBalancerNext]_auditBalancerVars,
                      NEW t \in DOMAIN pool'
               PROVE  pool'[t].rif - pool'[t].rif_at_probe = Cardinality(Counted(t)')
    BY <1>0 DEF CompensationIsExact, Counted
  <2>1. /\ TypeOK /\ TasksOK /\ HistoryOK
        /\ now \in Nat
        /\ \A u \in DOMAIN pool : /\ u \in 1 .. now
                                  /\ pool[u].rif \in Nat
                                  /\ pool[u].rif_at_probe \in Nat
    BY DEF AuditOK, TypeOK, Probe
  <2>2. \A u \in DOMAIN pool :
          /\ pool[u].rif - pool[u].rif_at_probe = Cardinality(Counted(u))
          /\ IsFiniteSet(Counted(u))
    <3>1. \A u \in DOMAIN pool : Counted(u) \in SUBSET Query
      BY DEF Counted
    <3> QED
      BY <1>0, <3>1, QueryAssumption, FS_Subset
  <2>3. ASSUME NEW q \in Query, AuditUnobserved(q)
        PROVE  pool'[t].rif - pool'[t].rif_at_probe = Cardinality(Counted(t)')
    <3>1. UNCHANGED <<pool, winner, decidedAt>>
      BY <2>3, Zenon DEF AuditUnobserved, Trigger, Send, Draw, Lose, vars, history
    <3>2. \A p \in Query : Won(p) => target'[p] = target[p]
      <4>1. ASSUME NEW r \in Replica, Draw(q, r)
            PROVE  \A p \in Query : Won(p) => target'[p] = target[p]
        BY <2>1, <4>1 DEF Draw, HistoryOK, TasksOK
      <4>2. CASE target' = target
        BY <4>2
      <4> QED
        BY <2>3, <4>1, <4>2, Zenon DEF AuditUnobserved, Trigger, Send, Lose
    <3>3. Counted(t)' = Counted(t)
      BY <3>1, <3>2 DEF Counted, Won
    <3> QED
      BY <2>2, <3>1, <3>3
  <2>4. ASSUME NEW q \in Query, NEW w \in DOMAIN pool \cup {NoProbe}, AuditDecide(q, w)
        PROVE  pool'[t].rif - pool'[t].rif_at_probe = Cardinality(Counted(t)')
    <3>1. t \in DOMAIN pool /\ Outcome(t, w)
      BY <2>1, <2>4, SelectEffect DEF AuditDecide, Decide
    <3>2. /\ phase[q] = "probing"
          /\ w # NoProbe => target'[q] = pool[w].replica
          /\ w = NoProbe => target' = target
          /\ \A p \in Query \ {q} : target'[p] = target[p]
          /\ winner' = [winner EXCEPT ![q] = w]
          /\ decidedAt' = [decidedAt EXCEPT ![q] = now]
      BY <2>1, <2>4, DecideEffect
    <3>3. ~Won(q) /\ q \notin Counted(t)
      BY <2>1, <3>2 DEF HistoryOK, Counted
    <3>4. \A p \in Query \ {q} : p \in Counted(t)' <=> p \in Counted(t)
      BY <2>1, <3>1, <3>2 DEF Counted, Won, Outcome, HistoryOK
    <3>5. q \in Counted(t)' <=> w # NoProbe /\ pool[t].replica = pool[w].replica
      BY <2>1, <3>1, <3>2 DEF Counted, Won, Outcome, HistoryOK
    <3>6. Counted(t) \subseteq Query /\ Counted(t)' \subseteq Query
      BY DEF Counted
    <3>7. CASE w # NoProbe /\ pool[t].replica = pool[w].replica
      <4>1. Counted(t)' = Counted(t) \cup {q}
        BY <3>4, <3>5, <3>6, <3>7
      <4>2. Cardinality(Counted(t)') = Cardinality(Counted(t)) + 1
        BY <2>2, <3>1, <3>3, <4>1, FS_AddElement
      <4> QED
        BY <2>1, <2>2, <3>1, <3>7, <4>2 DEF Outcome
    <3>8. CASE ~(w # NoProbe /\ pool[t].replica = pool[w].replica)
      <4>1. Counted(t)' = Counted(t)
        BY <3>3, <3>4, <3>5, <3>6, <3>8
      <4> QED
        BY <2>1, <2>2, <3>1, <3>8, <4>1 DEF Outcome
    <3> QED
      BY <3>7, <3>8
  <2>5. ASSUME NEW q \in Query, NEW r \in Replica, NEW rif \in RifReading,
               NEW l \in LatencyReading, AuditLand(q, r, rif, l)
        PROVE  pool'[t].rif - pool'[t].rif_at_probe = Cardinality(Counted(t)')
    <3>1. /\ TypeOK'
          /\ now' = now + 1
          /\ pool'[now'].rif = pool'[now'].rif_at_probe
          /\ \A u \in DOMAIN pool' \ {now'} : u \in DOMAIN pool /\ pool'[u] = pool[u]
      BY <2>1, <2>5, StoreEffect DEF AuditLand, Land
    <3>2. UNCHANGED <<target, winner, decidedAt>>
      BY <2>5 DEF AuditLand, Land
    <3>3. CASE t = now'
      <4>1. Counted(t)' = {}
        BY <2>1, <3>1, <3>2, <3>3 DEF Counted, HistoryOK
      <4>2. pool'[t].rif \in Nat /\ pool'[t].rif = pool'[t].rif_at_probe
        BY <3>1, <3>3 DEF TypeOK, Probe
      <4> QED
        BY <4>1, <4>2, FS_EmptySet
    <3>4. CASE t # now'
      <4>1. t \in DOMAIN pool /\ pool'[t] = pool[t]
        BY <3>1, <3>4
      <4>2. Counted(t)' = Counted(t)
        BY <3>2, <4>1 DEF Counted, Won
      <4> QED
        BY <2>2, <4>1, <4>2
    <3> QED
      BY <3>3, <3>4
  <2>6. CASE UNCHANGED <<pool, target, winner, decidedAt>>
    <3>1. Counted(t)' = Counted(t)
      BY <2>6 DEF Counted, Won
    <3> QED
      BY <2>2, <2>6, <3>1
  <2>7. Idle /\ UNCHANGED history => UNCHANGED <<pool, target, winner, decidedAt>>
    BY DEF Idle, Pass, history
  <2>8. UNCHANGED auditBalancerVars => UNCHANGED <<pool, target, winner, decidedAt>>
    BY DEF auditBalancerVars, balancerVars, vars, history
  <2> QED
    BY <2>3, <2>4, <2>5, <2>6, <2>7, <2>8, Zenon DEF AuditBalancerNext
<1> QED
  BY <1>1, <1>2, AuditIsOK, PTL DEF AuditBalancerSpec

\* The queries that the probe stored at w won.
WonBy(w) == {q \in Query : winner[q] = w}

\* A pooled probe's uses are the queries it won, so that expire() measures
\* the budget by what the queries really did.
UsesAreWins == \A t \in DOMAIN pool : pool[t].uses = Cardinality(WonBy(t))

\* No response decides for more queries than the budget, in any interleaving
\* of selections and insertions, whether it is still pooled or not.
THEOREM WinsStayWithinBudget == AuditBalancerSpec => []WinsWithinBudget
<1>0. WinsWithinBudget <=> \A v \in 1 .. now : Cardinality(WonBy(v)) <= ReuseBudget
  BY DEF WinsWithinBudget, WonBy
<1>1. AuditBalancerInit => UsesAreWins /\ WinsWithinBudget
  BY DEF AuditBalancerInit, BalancerInit, Init, EmptyPool, UsesAreWins, WinsWithinBudget
<1>2. AuditOK /\ UsesAreWins /\ WinsWithinBudget /\ [AuditBalancerNext]_auditBalancerVars
        => UsesAreWins' /\ WinsWithinBudget'
  <2> SUFFICES ASSUME AuditOK, UsesAreWins, WinsWithinBudget,
                      [AuditBalancerNext]_auditBalancerVars
               PROVE  /\ \A t \in DOMAIN pool' : pool'[t].uses = Cardinality(WonBy(t)')
                      /\ \A v \in 1 .. now' : Cardinality(WonBy(v)') <= ReuseBudget
    BY <1>0 DEF UsesAreWins, WinsWithinBudget, WonBy
  <2>1. /\ TypeOK /\ TasksOK /\ HistoryOK
        /\ now \in Nat
        /\ \A u \in DOMAIN pool : u \in 1 .. now /\ pool[u].uses \in Nat
    BY DEF AuditOK, TypeOK, Probe
  <2>2. \A v : IsFiniteSet(WonBy(v)) /\ Cardinality(WonBy(v)) \in Nat
    <3>1. \A v : WonBy(v) \in SUBSET Query
      BY DEF WonBy
    <3> QED
      BY <3>1, QueryAssumption, FS_Subset, FS_CardinalityType
  <2>3. ASSUME NEW q \in Query, NEW w \in DOMAIN pool \cup {NoProbe}, AuditDecide(q, w)
        PROVE  /\ \A t \in DOMAIN pool' : pool'[t].uses = Cardinality(WonBy(t)')
               /\ \A v \in 1 .. now' : Cardinality(WonBy(v)') <= ReuseBudget
    <3>1. /\ w # NoProbe => w \in DOMAIN pool /\ Usable(pool, w, now)
          /\ \A t \in DOMAIN pool' : t \in DOMAIN pool /\ Outcome(t, w)
      BY <2>1, <2>3, SelectEffect DEF AuditDecide, Decide
    <3>2. /\ phase[q] = "probing"
          /\ now' = now
          /\ winner' = [winner EXCEPT ![q] = w]
      BY <2>1, <2>3, DecideEffect
    <3>3. winner[q] = NoProbe /\ winner \in [Query -> Nat]
      BY <2>1, <3>2 DEF HistoryOK, Won
    <3>4. ASSUME NEW v \in 1 .. now, v # w
          PROVE  WonBy(v)' = WonBy(v)
      <4>1. v # NoProbe
        BY DEF NoProbe
      <4> QED
        BY <3>2, <3>3, <3>4, <4>1 DEF WonBy
    <3>5. w # NoProbe => /\ Cardinality(WonBy(w)') = Cardinality(WonBy(w)) + 1
                         /\ Cardinality(WonBy(w)) = pool[w].uses
                         /\ pool[w].uses < ReuseBudget
      <4> SUFFICES ASSUME w # NoProbe
                   PROVE  /\ Cardinality(WonBy(w)') = Cardinality(WonBy(w)) + 1
                          /\ Cardinality(WonBy(w)) = pool[w].uses
                          /\ pool[w].uses < ReuseBudget
        OBVIOUS
      <4>1. WonBy(w)' = WonBy(w) \cup {q} /\ q \notin WonBy(w)
        BY <3>2, <3>3 DEF WonBy
      <4> QED
        BY <2>2, <3>1, <4>1, FS_AddElement DEF UsesAreWins, Usable
    <3>6. ASSUME NEW t \in DOMAIN pool'
          PROVE  pool'[t].uses = Cardinality(WonBy(t)')
      <4>1. t \in DOMAIN pool /\ Outcome(t, w) /\ t \in 1 .. now /\ t # NoProbe
        BY <2>1, <3>1, <3>6 DEF NoProbe
      <4>2. CASE t = w
        BY <3>5, <4>1, <4>2 DEF Outcome
      <4>3. CASE t # w
        BY <3>4, <4>1, <4>3 DEF Outcome, UsesAreWins
      <4> QED
        BY <4>2, <4>3
    <3>7. ASSUME NEW v \in 1 .. now'
          PROVE  Cardinality(WonBy(v)') <= ReuseBudget
      <4>1. CASE v = w
        <5>1. w # NoProbe
          BY <3>2, <4>1 DEF NoProbe
        <5> QED
          BY <2>1, <3>1, <3>5, <4>1, <5>1, LimitsAssumption
      <4>2. CASE v # w
        BY <1>0, <3>2, <3>4, <4>2
      <4> QED
        BY <4>1, <4>2
    <3> QED
      BY <3>6, <3>7
  <2>4. ASSUME NEW q \in Query, NEW r \in Replica, NEW rif \in RifReading,
               NEW l \in LatencyReading, AuditLand(q, r, rif, l)
        PROVE  /\ \A t \in DOMAIN pool' : pool'[t].uses = Cardinality(WonBy(t)')
               /\ \A v \in 1 .. now' : Cardinality(WonBy(v)') <= ReuseBudget
    <3>1. /\ now' = now + 1
          /\ pool'[now'].uses = 0
          /\ \A u \in DOMAIN pool' \ {now'} : u \in DOMAIN pool /\ pool'[u] = pool[u]
      BY <2>1, <2>4, StoreEffect DEF AuditLand, Land
    <3>2. \A v : WonBy(v)' = WonBy(v)
      BY <2>4 DEF AuditLand, WonBy
    <3>3. Cardinality(WonBy(now')) = 0
      <4>1. WonBy(now') = {}
        BY <2>1, <3>1 DEF WonBy, HistoryOK
      <4> QED
        BY <4>1, FS_EmptySet
    <3> QED
      BY <1>0, <2>1, <3>1, <3>2, <3>3, LimitsAssumption DEF UsesAreWins
  <2>5. CASE Idle /\ UNCHANGED history
    <3>1. now' = now + 1 /\ pool' = pool /\ \A v : WonBy(v)' = WonBy(v)
      BY <2>5 DEF Idle, Pass, history, WonBy
    <3>2. Cardinality(WonBy(now + 1)) = 0
      <4>1. WonBy(now + 1) = {}
        BY <2>1 DEF WonBy, HistoryOK
      <4> QED
        BY <4>1, FS_EmptySet
    <3> QED
      BY <1>0, <2>1, <3>1, <3>2, LimitsAssumption DEF UsesAreWins
  <2>6. CASE UNCHANGED <<pool, now, winner>>
    <3>1. \A v : WonBy(v)' = WonBy(v)
      BY <2>6 DEF WonBy
    <3> QED
      BY <1>0, <2>6, <3>1 DEF UsesAreWins
  <2>7. ASSUME NEW q \in Query, AuditUnobserved(q)
        PROVE  UNCHANGED <<pool, now, winner>>
    BY <2>7, Zenon DEF AuditUnobserved, Trigger, Send, Draw, Lose, vars, history
  <2>8. UNCHANGED auditBalancerVars => UNCHANGED <<pool, now, winner>>
    BY DEF auditBalancerVars, balancerVars, vars, history
  <2> QED
    BY <2>3, <2>4, <2>5, <2>6, <2>7, <2>8, Zenon DEF AuditBalancerNext
<1> QED
  BY <1>1, <1>2, AuditIsOK, PTL DEF AuditBalancerSpec

-----------------------------------------------------------------------------
(* What decisions cost.                                                    *)

\* One more element makes a set larger by one at most.
LEMMA OneMore ==
  ASSUME NEW S, IsFiniteSet(S), NEW x
  PROVE  IsFiniteSet(S \cup {x}) /\ Cardinality(S \cup {x}) <= Cardinality(S) + 1
<1>1. Cardinality(S) \in Nat
  BY FS_CardinalityType
<1>2. /\ IsFiniteSet(S \cup {x})
      /\ Cardinality(S \cup {x}) = IF x \in S THEN Cardinality(S) ELSE Cardinality(S) + 1
  BY FS_AddElement
<1> QED
  BY <1>1, <1>2

\* A selection adds no probe; one that HCL decides takes one away and leaves
\* one, because it had at least two to choose from.
LEMMA SelectCosts ==
  ASSUME TypeOK, NEW w, Select(w)
  PROVE  /\ Occupancy(pool) \in Nat /\ Occupancy(pool') \in Nat
         /\ Occupancy(pool') <= Occupancy(pool)
         /\ w # NoProbe => 1 <= Occupancy(pool') /\ Occupancy(pool') < Occupancy(pool)
<1> DEFINE live == Expire(pool, now)
           q == Compensate(live, w)
<1>1. PoolAt(pool, now) /\ now \in Nat /\ removeOldestNext \in BOOLEAN
  BY DEF TypeOK, PoolAt
<1>2. /\ PoolAt(live, now)
      /\ DOMAIN live \in SUBSET DOMAIN pool
  BY <1>1, ExpirePool
<1>3. /\ w \in Winners(live)
      /\ w # NoProbe => RemoveOne(q)
  BY DEF Select
<1>4. /\ IsFiniteSet(DOMAIN pool) /\ IsFiniteSet(DOMAIN live)
      /\ Occupancy(pool) \in Nat /\ Occupancy(live) \in Nat
      /\ Occupancy(live) <= Occupancy(pool)
  BY <1>1, <1>2, FinitePool, FS_Subset DEF Occupancy
<1>5. /\ DOMAIN pool' \in SUBSET DOMAIN pool
      /\ Occupancy(pool') \in Nat /\ Occupancy(pool') <= Occupancy(pool)
  <2>1. DOMAIN pool' \in SUBSET DOMAIN pool
    BY SelectEffect
  <2>2. IsFiniteSet(DOMAIN pool') /\ Cardinality(DOMAIN pool') <= Cardinality(DOMAIN pool)
    BY <1>4, <2>1, FS_Subset
  <2> QED
    BY <2>1, <2>2, FS_CardinalityType DEF Occupancy
<1>6. ASSUME w # NoProbe
      PROVE  1 <= Occupancy(pool') /\ Occupancy(pool') < Occupancy(pool)
  <2> HIDE DEF live
  <2>1. w \in DOMAIN live /\ Occupancy(live) >= 2
    BY <1>3, <1>4, <1>6, WinnerIsPooled DEF Winners
  <2>2. PoolAt(q, now) /\ DOMAIN q = DOMAIN live
    BY <1>1, <1>2, <2>1, CompensatePool
  <2>3. RemoveOne(q) /\ DOMAIN q # {}
    BY <1>3, <1>6, <2>1, <2>2
  <2> HIDE DEF q
  <2>4. PICK v \in IF removeOldestNext' THEN {Oldest(q)} ELSE Worst(q) :
          pool' = Without(q, v)
    BY <2>3, Zenon DEF RemoveOne
  <2>5. v \in DOMAIN live
    <3>1. Oldest(q) \in DOMAIN q
      BY <1>1, <2>2, <2>3, OldestExists
    <3> QED
      BY <2>2, <2>4, <3>1, Zenon DEF Worst
  <2>6. DOMAIN pool' = DOMAIN live \ {v}
    BY <1>1, <2>2, <2>4, RestrictPool DEF Without
  <2>7. Occupancy(pool') = Occupancy(live) - 1
    BY <1>4, <2>5, <2>6, FS_RemoveElement DEF Occupancy
  <2> QED
    BY <1>4, <2>1, <2>7
<1> QED
  BY <1>4, <1>5, <1>6

\* The queries that HCL placed.
Placed == {q \in Query : Won(q)}

\* Every response stored is still pooled or has been removed, and those
\* removed are at least as many as the queries placed.
ProbesPay ==
  /\ stored \in Nat
  /\ Cardinality(Placed) + Occupancy(pool) <= stored
  /\ Cardinality(Placed) > 0 => Cardinality(Placed) < stored

\* HCL never decides as often as responses were stored, whatever the reuse
\* budget: each decision uses up a probe and leaves another one behind.
THEOREM DecisionsDoCostProbes == AuditBalancerSpec => []DecisionsCostProbes
<1>1. AuditBalancerInit => ProbesPay
  <2> SUFFICES ASSUME AuditBalancerInit
               PROVE  ProbesPay
    OBVIOUS
  <2>1. Placed = {} /\ DOMAIN pool = {} /\ stored = 0
    BY DEF AuditBalancerInit, BalancerInit, Init, EmptyPool, Placed, Won
  <2> QED
    BY <2>1, FS_EmptySet DEF ProbesPay, Occupancy
<1>2. AuditOK /\ ProbesPay /\ [AuditBalancerNext]_auditBalancerVars => ProbesPay'
  <2> SUFFICES ASSUME AuditOK, ProbesPay, [AuditBalancerNext]_auditBalancerVars
               PROVE  ProbesPay'
    OBVIOUS
  <2>1. TypeOK /\ TasksOK /\ HistoryOK /\ PoolAt(pool, now) /\ now \in Nat
    BY DEF AuditOK, TypeOK, PoolAt
  <2>2. /\ IsFiniteSet(Placed) /\ Cardinality(Placed) \in Nat
        /\ IsFiniteSet(DOMAIN pool) /\ Occupancy(pool) \in Nat
    <3>1. Placed \in SUBSET Query
      BY DEF Placed
    <3> QED
      BY <2>1, <3>1, QueryAssumption, FinitePool, FS_Subset, FS_CardinalityType
  <2>3. ASSUME NEW q \in Query, NEW w \in DOMAIN pool \cup {NoProbe}, AuditDecide(q, w)
        PROVE  ProbesPay'
    <3>1. Select(w) /\ stored' = stored
      BY <2>3 DEF AuditDecide, Decide
    <3>2. /\ Occupancy(pool') \in Nat
          /\ Occupancy(pool') <= Occupancy(pool)
          /\ w # NoProbe => 1 <= Occupancy(pool') /\ Occupancy(pool') < Occupancy(pool)
      BY <2>1, <3>1, SelectCosts
    <3>3. /\ phase[q] = "probing"
          /\ winner' = [winner EXCEPT ![q] = w]
      BY <2>1, <2>3, DecideEffect
    <3>4. winner \in [Query -> Nat] /\ winner[q] = NoProbe
      BY <2>1, <3>3 DEF HistoryOK, Won
    <3>5. Placed' = IF w = NoProbe THEN Placed ELSE Placed \cup {q}
      BY <3>3, <3>4 DEF Placed, Won
    <3>6. q \notin Placed
      BY <3>4 DEF Placed, Won
    <3>7. Cardinality(Placed') =
            IF w = NoProbe THEN Cardinality(Placed) ELSE Cardinality(Placed) + 1
      BY <2>2, <3>5, <3>6, FS_AddElement
    <3>8. CASE w = NoProbe
      BY <2>2, <3>1, <3>2, <3>7, <3>8 DEF ProbesPay
    <3>9. CASE w # NoProbe
      <4> DEFINE d == Cardinality(Placed)
                 d2 == Cardinality(Placed')
      <4>1. stored \in Nat /\ stored' = stored /\ d + Occupancy(pool) <= stored
        BY <3>1 DEF ProbesPay
      <4>2. d \in Nat /\ d2 = d + 1
        BY <2>2, <3>7, <3>9
      <4> HIDE DEF d, d2
      <4>3. d2 + Occupancy(pool') <= stored' /\ d2 < stored'
        BY <2>2, <3>2, <3>9, <4>1, <4>2
      <4> QED
        BY <4>1, <4>3 DEF d2, ProbesPay
    <3> QED
      BY <3>8, <3>9
  <2>4. ASSUME NEW q \in Query, NEW r \in Replica, NEW rif \in RifReading,
               NEW l \in LatencyReading, AuditLand(q, r, rif, l)
        PROVE  ProbesPay'
    <3>1. /\ stored' = stored + 1 /\ UNCHANGED winner
          /\ Store(r, rif, l)
      BY <2>4 DEF AuditLand, Land
    <3>2. DOMAIN pool' \in SUBSET (DOMAIN pool \cup {now'})
      BY <2>1, <3>1, StoreEffect
    <3>3. Occupancy(pool') \in Nat /\ Occupancy(pool') <= Occupancy(pool) + 1
      <4>1. /\ IsFiniteSet(DOMAIN pool \cup {now'})
            /\ Cardinality(DOMAIN pool \cup {now'}) <= Occupancy(pool) + 1
        BY <2>2, OneMore DEF Occupancy
      <4>2. /\ IsFiniteSet(DOMAIN pool')
            /\ Cardinality(DOMAIN pool') <= Cardinality(DOMAIN pool \cup {now'})
        BY <3>2, <4>1, FS_Subset
      <4>3. /\ Cardinality(DOMAIN pool') \in Nat
            /\ Cardinality(DOMAIN pool \cup {now'}) \in Nat
        BY <4>1, <4>2, FS_CardinalityType
      <4> QED
        BY <2>2, <4>1, <4>2, <4>3 DEF Occupancy
    <3>4. Placed' = Placed
      BY <3>1 DEF Placed, Won
    <3> QED
      BY <2>2, <3>1, <3>3, <3>4 DEF ProbesPay
  <2>5. CASE UNCHANGED <<pool, winner, stored>>
    <3>1. Placed' = Placed /\ Occupancy(pool') = Occupancy(pool)
      BY <2>5 DEF Placed, Won
    <3> QED
      BY <2>5, <3>1 DEF ProbesPay
  <2>6. ASSUME NEW q \in Query, AuditUnobserved(q)
        PROVE  UNCHANGED <<pool, winner, stored>>
    BY <2>6, Zenon DEF AuditUnobserved, Trigger, Send, Draw, Lose, vars, history
  <2>7. Idle /\ UNCHANGED history => UNCHANGED <<pool, winner, stored>>
    BY DEF Idle, Pass, history
  <2>8. UNCHANGED auditBalancerVars => UNCHANGED <<pool, winner, stored>>
    BY DEF auditBalancerVars, balancerVars, vars, history
  <2> QED
    BY <2>3, <2>4, <2>5, <2>6, <2>7, <2>8, Zenon DEF AuditBalancerNext
<1>3. ProbesPay => DecisionsCostProbes
  BY DEF ProbesPay, DecisionsCostProbes, Placed
<1> QED
  BY <1>1, <1>2, <1>3, AuditIsOK, PTL DEF AuditBalancerSpec

-----------------------------------------------------------------------------
(* The composed system: what is known at every moment.                     *)

\* The requests' places: one is on the network once its task has posted it.
CallsOK ==
  /\ call \in [Query -> Call]
  /\ \A q \in Query : call[q] = "unsent" <=> phase[q] # "sent"
  /\ visited \in [Foreign -> Replica \cup {Nowhere}]

\* What a replica had in flight: of this balancer's queries only posted ones.
Load(S, ph) == S \subseteq Query \cup Foreign /\ \A q \in S \cap Query : ph[q] = "sent"

\* The probes under way; an answer was read after the probe was fired.
ProbesOK ==
  /\ fired \in [fetching -> 0 .. now]
  /\ DOMAIN answers \subseteq fetching
  /\ \A p \in DOMAIN answers : /\ answers[p].at \in Nat /\ fired[p] <= answers[p].at
                               /\ Load(answers[p].load, phase)

\* What the history says of the probe stored at t: it was read no longer
\* before than the probe timeout, and the queries counted since had not been
\* posted, let alone been at the replica, by then.
SeenOK(t) ==
  /\ saw[t].at \in Nat /\ t - saw[t].at <= ProbeTimeout
  /\ Load(saw[t].load, phase)
  /\ saw[t].since \subseteq Query
  /\ \A q \in saw[t].since : phase[q] \in {"chosen", "sent"}
  /\ pool[t].rif = Cardinality(saw[t].load \cup saw[t].since)

SawOK == DOMAIN saw = DOMAIN pool /\ \A t \in DOMAIN pool : SeenOK(t)

SystemOK == TypeOK /\ TasksOK /\ CallsOK /\ ProbesOK /\ SawOK

-----------------------------------------------------------------------------
(* Requests.                                                               *)

\* The requests are finitely many, so that any load is a reading.
LEMMA LoadIsReading ==
  ASSUME NEW S \in SUBSET (Query \cup Foreign)
  PROVE  IsFiniteSet(S) /\ Cardinality(S) \in RifReading
<1>1. IsFiniteSet(Query \cup Foreign)
  BY QueryAssumption, ForeignAssumption, FS_Union
<1>2. /\ IsFiniteSet(S) /\ Cardinality(S) \in Nat
      /\ Cardinality(Query \cup Foreign) \in Nat
      /\ Cardinality(S) <= Cardinality(Query \cup Foreign)
  BY <1>1, FS_Subset, FS_CardinalityType
<1>3. Cardinality(S) \in 0 .. Cardinality(Query \cup Foreign)
  BY <1>2
<1> QED
  BY <1>2, <1>3, LoadAssumption

\* A task that has posted its query or has a replica for it keeps both.
LEMMA SentStaysSent ==
  ASSUME TasksOK, [BalancerNext]_balancerVars, NEW q \in Query
  PROVE  /\ phase[q] = "sent" => phase'[q] = "sent"
         /\ phase[q] = "chosen" => phase'[q] \in {"chosen", "sent"}
<1>1. phase \in [Query -> Phase]
  BY DEF TasksOK
<1>2. ASSUME NEW p \in Query, Trigger(p) \/ QueryStep(p)
      PROVE  /\ phase[q] = "sent" => phase'[q] = "sent"
             /\ phase[q] = "chosen" => phase'[q] \in {"chosen", "sent"}
  BY <1>1, <1>2 DEF Trigger, QueryStep, Decide, Draw, Send
<1>3. CASE UNCHANGED phase
  BY <1>3
<1>4. ASSUME NEW p \in Query, NEW r \in Replica, NEW rif \in RifReading,
             NEW l \in LatencyReading, Land(p, r, rif, l)
      PROVE  UNCHANGED phase
  BY <1>4 DEF Land
<1>5. ASSUME NEW p \in Query, NEW r \in Replica, Lose(p, r)
      PROVE  UNCHANGED phase
  BY <1>5 DEF Lose
<1>6. Idle \/ UNCHANGED balancerVars => UNCHANGED phase
  BY DEF Idle, balancerVars
<1> QED
  BY <1>2, <1>3, <1>4, <1>5, <1>6, Zenon DEF BalancerNext

-----------------------------------------------------------------------------
(* The balancer in its surroundings.                                       *)

\* A probe is answered with a reading ProbePool knows, and stored.
LEMMA StoreAnswerLands ==
  ASSUME ProbesOK, NEW q \in Query, NEW r \in Replica, StoreAnswer(q, r)
  PROVE  \E l \in LatencyReading, rif \in RifReading :
           rif = Cardinality(answers[<<q, r>>].load) /\ Land(q, r, rif, l)
<1>1. Cardinality(answers[<<q, r>>].load) \in RifReading
  BY LoadIsReading DEF StoreAnswer, ProbesOK, Load
<1> QED
  BY <1>1, Zenon DEF StoreAnswer

\* Replicas, network and other balancers only use the balancer's operations.
LEMMA SystemStepIsTaskStep ==
  ASSUME ProbesOK, [SystemNext]_systemVars
  PROVE  [BalancerNext]_balancerVars
<1>1. ASSUME NEW q \in Query, FireProbes(q) \/ TaskRuns(q)
      PROVE  BalancerNext
  <2>1. ASSUME NEW w \in DOMAIN pool, Decide(q, w)
        PROVE  BalancerNext
    BY <2>1, Zenon DEF BalancerNext, QueryStep
  <2> QED
    BY <1>1, <2>1, Zenon DEF FireProbes, TaskRuns, SelectReplica, Post, BalancerNext, QueryStep
<1>2. ASSUME NEW q \in Query, NEW r \in Replica, StoreAnswer(q, r)
      PROVE  BalancerNext
  BY <1>2, StoreAnswerLands, Zenon DEF BalancerNext
<1>3. ASSUME NEW q \in Query, NEW r \in Replica, LoseProbe(q, r)
      PROVE  BalancerNext
  BY <1>3, Zenon DEF LoseProbe, BalancerNext
<1>4. ASSUME NEW q \in Query, NEW r \in Replica, AnswerProbe(q, r)
      PROVE  UNCHANGED balancerVars
  BY <1>4, Zenon DEF AnswerProbe
<1>5. ASSUME NEW q \in Query, CallMoves(q)
      PROVE  UNCHANGED balancerVars
  BY <1>5, Zenon DEF CallMoves
<1>6. ASSUME NEW f \in Foreign, ForeignMoves(f)
      PROVE  UNCHANGED balancerVars
  BY <1>6, Zenon DEF ForeignMoves
<1>7. CASE SystemIdle
  BY <1>7, Zenon DEF SystemIdle, BalancerNext
<1>8. CASE UNCHANGED systemVars
  BY <1>8 DEF systemVars
<1> QED
  BY <1>1, <1>2, <1>3, <1>4, <1>5, <1>6, <1>7, <1>8, Zenon DEF SystemNext
-----------------------------------------------------------------------------
(* Each part of the invariant is kept.                                     *)

\* What the balancer's own theorems say of a step here.
LEMMA BalancerStep ==
  ASSUME TypeOK, TasksOK, ProbesOK, [SystemNext]_systemVars
  PROVE  /\ [BalancerNext]_balancerVars /\ [Next]_vars
         /\ TypeOK' /\ TasksOK'
         /\ \A q \in Query : /\ phase[q] = "sent" => phase'[q] = "sent"
                             /\ phase[q] = "chosen" => phase'[q] \in {"chosen", "sent"}
<1>1. [BalancerNext]_balancerVars
  BY SystemStepIsTaskStep
<1>2. [Next]_vars
  BY <1>1, TaskStepIsPoolStep
<1>3. TypeOK'
  BY <1>2, TypeStep
<1>4. TasksOK'
  BY <1>1, TasksStayOK
<1> QED
  BY <1>1, <1>2, <1>3, <1>4, SentStaysSent

\* Time does not run backwards.
LEMMA TimePasses ==
  ASSUME TypeOK, [Next]_vars
  PROVE  now \in Nat /\ now' \in Nat /\ now <= now'
<1>1. now \in Nat
  BY DEF TypeOK
<1>2. now' = now \/ now' = now + 1
  <2>1. ASSUME NEW r \in Replica, NEW rif \in RifReading, NEW l \in LatencyReading,
               Store(r, rif, l)
        PROVE  now' = now + 1
    BY <2>1 DEF Store
  <2>2. ASSUME NEW w \in DOMAIN pool \cup {NoProbe}, Select(w)
        PROVE  now' = now
    BY <2>2, SelectEffect
  <2>3. Pass => now' = now + 1
    BY DEF Pass
  <2>4. UNCHANGED vars => now' = now
    BY DEF vars
  <2> QED
    BY <2>1, <2>2, <2>3, <2>4, Zenon DEF Next
<1> QED
  BY <1>1, <1>2

\* Requests move only from one place to the next.
LEMMA CallsStayOK ==
  ASSUME SystemOK, [SystemNext]_systemVars
  PROVE  CallsOK'
<1>1. call \in [Query -> Call] /\ visited \in [Foreign -> Replica \cup {Nowhere}]
      /\ phase \in [Query -> Phase]
      /\ \A p \in Query : call[p] = "unsent" <=> phase[p] # "sent"
  BY DEF SystemOK, CallsOK, TasksOK
<1>2. ASSUME NEW q \in Query, FireProbes(q) \/ SelectReplica(q)
      PROVE  CallsOK'
  <2>1. UNCHANGED <<call, visited>>
    BY <1>2, Zenon DEF FireProbes, SelectReplica
  <2>2. /\ \A p \in Query : p # q => phase'[p] = phase[p]
        /\ phase[q] # "sent" /\ phase'[q] # "sent"
    BY <1>1, <1>2 DEF FireProbes, SelectReplica, Trigger, Decide, Draw
  <2> QED
    BY <1>1, <2>1, <2>2 DEF CallsOK
<1>3. ASSUME NEW q \in Query, Post(q)
      PROVE  CallsOK'
  BY <1>1, <1>3 DEF CallsOK, Post, Send, Call
<1>4. ASSUME NEW q \in Query, CallMoves(q)
      PROVE  CallsOK'
  <2>1. UNCHANGED <<phase, visited>>
    BY <1>4 DEF CallMoves, balancerVars
  <2>2. PICK to \in {"present", "over"} : call' = [call EXCEPT ![q] = to] /\ call[q] # "unsent"
    BY <1>4 DEF CallMoves
  <2> QED
    BY <1>1, <2>1, <2>2 DEF CallsOK, Call
<1>5. ASSUME NEW f \in Foreign, ForeignMoves(f)
      PROVE  CallsOK'
  <2>1. UNCHANGED <<phase, call>>
    BY <1>5 DEF ForeignMoves, balancerVars
  <2>2. visited' \in [Foreign -> Replica \cup {Nowhere}]
    BY <1>1, <1>5 DEF ForeignMoves
  <2> QED
    BY <1>1, <2>1, <2>2 DEF CallsOK
<1>6. CASE UNCHANGED <<phase, call, visited>>
  BY <1>1, <1>6 DEF CallsOK
<1>7. ASSUME NEW q \in Query, NEW r \in Replica,
             AnswerProbe(q, r) \/ StoreAnswer(q, r) \/ LoseProbe(q, r)
      PROVE  UNCHANGED <<phase, call, visited>>
  BY <1>7 DEF AnswerProbe, StoreAnswer, LoseProbe, Land, Lose, balancerVars
<1>8. SystemIdle \/ UNCHANGED systemVars => UNCHANGED <<phase, call, visited>>
  BY DEF SystemIdle, Idle, systemVars, balancerVars
<1> QED
  BY <1>2, <1>3, <1>4, <1>5, <1>6, <1>7, <1>8, Zenon DEF SystemNext, TaskRuns

\* What a replica has in flight is a load.
LEMMA PresentIsLoad ==
  ASSUME CallsOK, NEW r \in Replica
  PROVE  Load(PresentAt(r), phase)
BY ForeignAssumption DEF CallsOK, Load, PresentAt

\* A load stays one.
LEMMA LoadStays ==
  ASSUME TypeOK, TasksOK, ProbesOK, [SystemNext]_systemVars, NEW S, Load(S, phase)
  PROVE  Load(S, phase')
BY BalancerStep DEF Load

\* Probes are fired, read and over in this order.
LEMMA ProbesStayOK ==
  ASSUME SystemOK, [SystemNext]_systemVars
  PROVE  ProbesOK'
<1>1. /\ TypeOK /\ TasksOK /\ CallsOK /\ ProbesOK
      /\ fired \in [fetching -> 0 .. now] /\ DOMAIN answers \subseteq fetching
      /\ fetching \subseteq {q \in Query : phase[q] # "new"} \X Replica
  BY DEF SystemOK, ProbesOK, TasksOK
<1>2. /\ now \in Nat /\ now' \in Nat /\ now <= now'
      /\ \A S : Load(S, phase) => Load(S, phase')
  <2>1. now \in Nat /\ now' \in Nat /\ now <= now'
    BY <1>1, BalancerStep, TimePasses
  <2>2. \A S : Load(S, phase) => Load(S, phase')
    BY <1>1, LoadStays
  <2> QED
    BY <2>1, <2>2
<1>3. \A p \in DOMAIN answers :
        /\ answers[p].at \in Nat /\ fired[p] <= answers[p].at
        /\ Load(answers[p].load, phase')
  BY <1>1, <1>2 DEF ProbesOK
<1>4. ASSUME NEW q \in Query, FireProbes(q)
      PROVE  ProbesOK'
  <2>1. PICK T \in ProbeTargets : fetching' = fetching \cup ({q} \X T)
    BY <1>4 DEF FireProbes, Trigger
  <2>2. /\ fired' = [p \in fetching' |-> IF p[1] = q THEN now ELSE fired[p]]
        /\ answers' = answers /\ now' = now /\ phase[q] = "new"
    BY <1>4 DEF FireProbes, Trigger, vars
  <2>3. \A p \in fetching : p[1] # q
    BY <1>1, <2>2
  <2>4. \A p \in {q} \X T : p[1] = q
    OBVIOUS
  <2>5. fired' \in [fetching' -> 0 .. now']
    BY <1>1, <1>2, <2>1, <2>2, <2>3, <2>4
  <2>6. \A p \in DOMAIN answers' : answers'[p] = answers[p] /\ fired'[p] = fired[p]
    BY <1>1, <2>1, <2>2, <2>3
  <2> QED
    BY <1>1, <1>3, <2>1, <2>2, <2>5, <2>6 DEF ProbesOK
<1>5. ASSUME NEW q \in Query, NEW r \in Replica, AnswerProbe(q, r)
      PROVE  ProbesOK'
  <2>1. /\ <<q, r>> \in fetching
        /\ answers' = [p \in DOMAIN answers \cup {<<q, r>>} |->
                          IF p = <<q, r>> THEN [at |-> now, load |-> PresentAt(r)]
                                          ELSE answers[p]]
        /\ UNCHANGED <<fetching, fired, now>>
    BY <1>5 DEF AnswerProbe, balancerVars, vars
  <2>2. Load(PresentAt(r), phase')
    BY <1>1, <1>2, PresentIsLoad
  <2>3. ASSUME NEW p \in DOMAIN answers'
        PROVE  answers'[p].at \in Nat /\ fired'[p] <= answers'[p].at
               /\ Load(answers'[p].load, phase')
    <3>1. CASE p = <<q, r>>
      <4>1. answers'[p] = [at |-> now, load |-> PresentAt(r)] /\ fired'[p] \in 0 .. now
        BY <1>1, <2>1, <3>1
      <4> QED
        BY <1>2, <2>2, <4>1
    <3>2. CASE p # <<q, r>>
      <4>1. p \in DOMAIN answers /\ answers'[p] = answers[p] /\ fired'[p] = fired[p]
        BY <2>1, <3>2
      <4> QED
        BY <1>3, <4>1
    <3> QED
      BY <3>1, <3>2
  <2>4. DOMAIN answers' \subseteq fetching' /\ fired' \in [fetching' -> 0 .. now']
    BY <1>1, <2>1
  <2> QED
    BY <2>3, <2>4 DEF ProbesOK
<1>6. ASSUME NEW q \in Query, NEW r \in Replica, StoreAnswer(q, r) \/ LoseProbe(q, r)
      PROVE  ProbesOK'
  <2>1. /\ fetching' = fetching \ {<<q, r>>}
        /\ fired' = Restrict(fired, fetching')
        /\ answers' = Restrict(answers, DOMAIN answers \ {<<q, r>>})
    BY <1>6 DEF StoreAnswer, LoseProbe, Land, Lose, Forget
  <2>2. /\ fired' \in [fetching' -> 0 .. now']
        /\ DOMAIN answers' = DOMAIN answers \ {<<q, r>>}
        /\ \A p \in DOMAIN answers' : answers'[p] = answers[p] /\ fired'[p] = fired[p]
    BY <1>1, <1>2, <2>1 DEF Restrict
  <2> QED
    BY <1>1, <1>3, <2>1, <2>2 DEF ProbesOK
<1>7. CASE UNCHANGED <<fetching, fired, answers>>
  BY <1>1, <1>2, <1>3, <1>7 DEF ProbesOK
<1>8. ASSUME NEW q \in Query, TaskRuns(q) \/ CallMoves(q)
      PROVE  UNCHANGED <<fetching, fired, answers>>
  BY <1>8 DEF TaskRuns, SelectReplica, Decide, Draw, Post, Send, CallMoves, balancerVars
<1>9. ASSUME NEW f \in Foreign, ForeignMoves(f)
      PROVE  UNCHANGED <<fetching, fired, answers>>
  BY <1>9 DEF ForeignMoves, balancerVars
<1>10. SystemIdle \/ UNCHANGED systemVars => UNCHANGED <<fetching, fired, answers>>
  BY DEF SystemIdle, Idle, systemVars, balancerVars
<1> QED
  BY <1>4, <1>5, <1>6, <1>7, <1>8, <1>9, <1>10, Zenon DEF SystemNext

\* A probe that a step leaves alone stays as described.
LEMMA SeenStays ==
  ASSUME TypeOK, TasksOK, ProbesOK, [SystemNext]_systemVars,
         NEW t, SeenOK(t), pool'[t].rif = pool[t].rif, saw'[t] = saw[t]
  PROVE  SeenOK(t)'
<1>1. Load(saw[t].load, phase')
  BY LoadStays DEF SeenOK
<1>2. \A q \in saw[t].since : phase'[q] \in {"chosen", "sent"}
  BY BalancerStep DEF SeenOK
<1> QED
  BY <1>1, <1>2 DEF SeenOK

\* A query that is decided for the replica of a probe is new to it.
LEMMA SeenCounts ==
  ASSUME TypeOK, TasksOK, ProbesOK, [SystemNext]_systemVars,
         NEW t, SeenOK(t), NEW q \in Query, phase[q] = "probing", phase'[q] = "chosen",
         pool'[t].rif = pool[t].rif + 1,
         saw'[t] = [at |-> saw[t].at, load |-> saw[t].load, since |-> saw[t].since \cup {q}]
  PROVE  SeenOK(t)'
<1> DEFINE S == saw[t].load \cup saw[t].since
<1>1. Load(saw[t].load, phase')
  BY LoadStays DEF SeenOK
<1>2. \A p \in saw[t].since \cup {q} : p \in Query /\ phase'[p] \in {"chosen", "sent"}
  BY BalancerStep DEF SeenOK
<1>3. S \subseteq Query \cup Foreign /\ q \notin S
  BY DEF SeenOK, Load
<1>4. Cardinality(S \cup {q}) = Cardinality(S) + 1
  BY <1>3, LoadIsReading, FS_AddElement
<1>5. saw'[t].load \cup saw'[t].since = S \cup {q}
  OBVIOUS
<1>6. pool'[t].rif = Cardinality(saw'[t].load \cup saw'[t].since)
  <2>1. pool[t].rif = Cardinality(S)
    BY DEF SeenOK
  <2> HIDE DEF S
  <2> QED
    BY <1>4, <1>5, <2>1
<1>7. /\ saw'[t].at = saw[t].at /\ saw'[t].load = saw[t].load
      /\ saw'[t].since = saw[t].since \cup {q}
  OBVIOUS
<1> QED
  BY <1>1, <1>2, <1>6, <1>7 DEF SeenOK

\* Reads, landings, decisions and requests, in any order, keep the account.
LEMMA SawStaysOK ==
  ASSUME SystemOK, [SystemNext]_systemVars
  PROVE  SawOK'
<1>1. /\ TypeOK /\ TasksOK /\ CallsOK /\ ProbesOK
      /\ DOMAIN saw = DOMAIN pool /\ \A t \in DOMAIN pool : SeenOK(t)
      /\ now \in Nat /\ \A t \in DOMAIN pool : t \in 1 .. now
      /\ phase \in [Query -> Phase] /\ target \in [Query -> Replica \cup {Nowhere}]
  BY DEF SystemOK, SawOK, TypeOK, TasksOK
<1>2. \A t : SeenOK(t) /\ pool'[t].rif = pool[t].rif /\ saw'[t] = saw[t] => SeenOK(t)'
  BY <1>1, SeenStays
<1>3. ASSUME NEW q \in Query, NEW w \in DOMAIN pool, Decide(q, w),
             saw' = [t \in DOMAIN pool' |->
                       IF pool[t].replica = target'[q]
                       THEN [at |-> saw[t].at, load |-> saw[t].load,
                             since |-> saw[t].since \cup {q}]
                       ELSE saw[t]]
      PROVE  SawOK'
  <2>1. /\ w # NoProbe /\ Select(w)
        /\ phase[q] = "probing" /\ phase'[q] = "chosen"
        /\ target'[q] = pool[w].replica
    BY <1>1, <1>3 DEF NoProbe, Decide
  <2>2. \A t \in DOMAIN pool' : t \in DOMAIN pool /\ Outcome(t, w)
    BY <1>1, <2>1, SelectEffect
  <2>3. ASSUME NEW t \in DOMAIN pool'
        PROVE  SeenOK(t)'
    <3>1. t \in DOMAIN pool /\ SeenOK(t)
      BY <1>1, <2>2
    <3>2. CASE pool[t].replica = pool[w].replica
      <4>1. pool'[t].rif = pool[t].rif + 1
        BY <2>1, <2>2, <3>2 DEF Outcome
      <4>2. saw'[t] = [at |-> saw[t].at, load |-> saw[t].load,
                       since |-> saw[t].since \cup {q}]
        BY <1>3, <2>1, <3>2
      <4> QED
        BY <1>1, <2>1, <3>1, <4>1, <4>2, SeenCounts
    <3>3. CASE pool[t].replica # pool[w].replica
      <4>1. pool'[t].rif = pool[t].rif
        BY <2>1, <2>2, <3>3 DEF Outcome
      <4>2. saw'[t] = saw[t]
        BY <1>3, <2>1, <3>3
      <4> QED
        BY <1>2, <3>1, <4>1, <4>2
    <3> QED
      BY <3>2, <3>3
  <2>4. DOMAIN saw' = DOMAIN pool'
    BY <1>3
  <2> QED
    BY <2>3, <2>4 DEF SawOK
<1>4. ASSUME NEW q \in Query, saw' = Restrict(saw, DOMAIN pool'),
             Decide(q, NoProbe) \/ \E r \in Replica : Draw(q, r)
      PROVE  SawOK'
  <2>1. \A t \in DOMAIN pool' : t \in DOMAIN pool /\ pool'[t].rif = pool[t].rif
    <3>1. CASE Decide(q, NoProbe)
      BY <1>1, <3>1, SelectEffect DEF Decide, Outcome
    <3>2. CASE \E r \in Replica : Draw(q, r)
      BY <3>2 DEF Draw, vars
    <3> QED
      BY <1>4, <3>1, <3>2
  <2>2. DOMAIN saw' = DOMAIN pool' /\ \A t \in DOMAIN pool' : saw'[t] = saw[t]
    BY <1>4, <2>1 DEF Restrict
  <2> QED
    BY <1>1, <1>2, <2>1, <2>2 DEF SawOK
<1>5. ASSUME NEW q \in Query, NEW r \in Replica, StoreAnswer(q, r)
      PROVE  SawOK'
  <2> DEFINE a == answers[<<q, r>>]
  <2>1. PICK l \in LatencyReading, rif \in RifReading :
          rif = Cardinality(a.load) /\ Land(q, r, rif, l)
    BY <1>1, <1>5, StoreAnswerLands
  <2>2. /\ now' = now + 1
        /\ pool'[now'].rif = Cardinality(a.load)
        /\ \A t \in DOMAIN pool' \ {now'} : t \in DOMAIN pool /\ pool'[t] = pool[t]
    BY <1>1, <2>1, StoreEffect DEF Land
  <2>3. /\ a.at \in Nat /\ fired[<<q, r>>] <= a.at /\ Load(a.load, phase)
        /\ fired[<<q, r>>] \in Nat
        /\ now' - fired[<<q, r>>] <= ProbeTimeout
    BY <1>1, <1>5 DEF StoreAnswer, ProbesOK
  <2>4. saw' = [t \in DOMAIN pool' |->
                  IF t = now' THEN [at |-> a.at, load |-> a.load, since |-> {}] ELSE saw[t]]
    BY <1>5, Zenon DEF StoreAnswer, Remember
  <2>5. Load(a.load, phase')
    BY <1>1, <2>3, LoadStays
  <2> HIDE DEF a
  <2>6. ASSUME NEW t \in DOMAIN pool'
        PROVE  SeenOK(t)'
    <3>1. CASE t = now'
      <4>1. saw'[t] = [at |-> a.at, load |-> a.load, since |-> {}]
        BY <2>4, <3>1
      <4>2. saw'[t].at = a.at /\ saw'[t].load = a.load /\ saw'[t].since = {}
        BY <4>1
      <4>3. a.load \cup {} = a.load
        OBVIOUS
      <4>4. pool'[t].rif = Cardinality(saw'[t].load \cup saw'[t].since)
        BY <2>2, <3>1, <4>2, <4>3, Zenon
      <4>5. t - saw'[t].at <= ProbeTimeout
        BY <1>1, <2>2, <2>3, <3>1, <4>2, ProbeTimeoutAssumption
      <4> QED
        BY <2>3, <2>5, <4>2, <4>4, <4>5 DEF SeenOK
    <3>2. CASE t # now'
      <4>1. t \in DOMAIN pool /\ pool'[t] = pool[t] /\ saw'[t] = saw[t]
        BY <2>2, <2>4, <3>2
      <4> QED
        BY <1>1, <1>2, <4>1
    <3> QED
      BY <3>1, <3>2
  <2>7. DOMAIN saw' = DOMAIN pool'
    BY <2>4
  <2> QED
    BY <2>6, <2>7 DEF SawOK
<1>6. CASE UNCHANGED <<pool, saw>>
  BY <1>1, <1>2, <1>6 DEF SawOK
<1>7. ASSUME NEW q \in Query, FireProbes(q) \/ Post(q) \/ CallMoves(q)
      PROVE  UNCHANGED <<pool, saw>>
  BY <1>7 DEF FireProbes, Trigger, Post, Send, CallMoves, balancerVars, vars
<1>8. ASSUME NEW q \in Query, NEW r \in Replica, AnswerProbe(q, r) \/ LoseProbe(q, r)
      PROVE  UNCHANGED <<pool, saw>>
  BY <1>8 DEF AnswerProbe, LoseProbe, Lose, balancerVars, vars
<1>9. ASSUME NEW f \in Foreign, ForeignMoves(f)
      PROVE  UNCHANGED <<pool, saw>>
  BY <1>9 DEF ForeignMoves, balancerVars, vars
<1>10. SystemIdle \/ UNCHANGED systemVars => UNCHANGED <<pool, saw>>
  BY DEF SystemIdle, Idle, Pass, systemVars, balancerVars, vars
<1> QED
  BY <1>3, <1>4, <1>5, <1>6, <1>7, <1>8, <1>9, <1>10, Zenon
     DEF SystemNext, TaskRuns, SelectReplica

-----------------------------------------------------------------------------
(* Theorems.                                                               *)

\* All of it holds at every moment.
LEMMA SystemIsOK == SystemSpec => []SystemOK
<1>1. SystemInit => SystemOK
  <2> SUFFICES ASSUME SystemInit PROVE SystemOK
    OBVIOUS
  <2>1. TypeOK /\ DOMAIN pool = {}
    BY TypeStarts DEF SystemInit, BalancerInit, Init, EmptyPool
  <2>2. TasksOK
    BY DEF SystemInit, BalancerInit, TasksOK, Phase
  <2>3. CallsOK
    BY DEF SystemInit, BalancerInit, CallsOK, Call
  <2>4. ProbesOK
    BY DEF SystemInit, BalancerInit, ProbesOK, Empty
  <2>5. SawOK
    BY <2>1 DEF SystemInit, SawOK, Empty
  <2> QED
    BY <2>1, <2>2, <2>3, <2>4, <2>5 DEF SystemOK
<1>2. SystemOK /\ [SystemNext]_systemVars => SystemOK'
  <2> SUFFICES ASSUME SystemOK, [SystemNext]_systemVars PROVE SystemOK'
    OBVIOUS
  <2>1. TypeOK' /\ TasksOK'
    BY BalancerStep DEF SystemOK
  <2> QED
    BY <2>1, CallsStayOK, ProbesStayOK, SawStaysOK DEF SystemOK
<1> QED
  BY <1>1, <1>2, PTL DEF SystemSpec

\* Replicas, network and other balancers choose what probes answer and when,
\* and otherwise leave select() and the probe tasks to themselves.
THEOREM SystemUsesTheBalancer == SystemSpec => BalancerInit /\ [][BalancerNext]_balancerVars
<1>1. SystemInit => BalancerInit
  BY DEF SystemInit
<1>2. SystemOK /\ [SystemNext]_systemVars => [BalancerNext]_balancerVars
  BY BalancerStep DEF SystemOK
<1> QED
  BY <1>1, <1>2, SystemIsOK, PTL DEF SystemSpec

\* Type correctness of the composed state.
THEOREM SystemTypeCorrect == SystemSpec => []SystemTypeOK
<1>1. SystemOK => SystemTypeOK
  BY DEF SystemOK, TasksOK, CallsOK, ProbesOK, SawOK, SystemTypeOK, BalancerTypeOK
<1> QED
  BY <1>1, SystemIsOK, PTL

\* Whatever the order of reads, landings, decisions and arrivals, a pooled
\* RIF counts each query once: read at the replica, or decided for since.
THEOREM PooledRifIsALoad == SystemSpec => []PooledRifCountsOnce
<1>1. SystemOK => PooledRifCountsOnce
  BY DEF SystemOK, SawOK, SeenOK, PooledRifCountsOnce
<1> QED
  BY <1>1, SystemIsOK, PTL

\* HCL never decides by what a replica said longer ago than the TTL and the
\* probe timeout together.
THEOREM ReadsAreRecent == SystemSpec => DecisionsRestOnRecentReads
<1>1. SystemOK => \A q \in Query, w \in DOMAIN pool :
                    Decide(q, w) => now - saw[w].at < Ttl + ProbeTimeout
  <2> SUFFICES ASSUME SystemOK, NEW q \in Query, NEW w \in DOMAIN pool, Decide(q, w)
               PROVE  now - saw[w].at < Ttl + ProbeTimeout
    OBVIOUS
  <2>1. /\ TypeOK /\ now \in Nat /\ w \in 1 .. now
        /\ saw[w].at \in Nat /\ w - saw[w].at <= ProbeTimeout
    BY DEF SystemOK, TypeOK, SawOK, SeenOK
  <2>2. w # NoProbe /\ Select(w)
    BY <2>1 DEF NoProbe, Decide
  <2>3. now - w < Ttl
    BY <2>1, <2>2, SelectEffect DEF Usable
  <2> QED
    BY <2>1, <2>3, LimitsAssumption, ProbeTimeoutAssumption
<1> QED
  BY <1>1, SystemIsOK, PTL DEF DecisionsRestOnRecentReads
=============================================================================
