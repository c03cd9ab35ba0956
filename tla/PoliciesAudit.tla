---------------------------- MODULE PoliciesAudit ----------------------------
(***************************************************************************)
(* Policies with history variables, and the properties of the policies.    *)
(* No action of Policies reads the history.                                *)
(***************************************************************************)
EXTENDS Policies

CONSTANT MaxPicks   \* bound on the picks of a round-robin behaviour

VARIABLES
  served,     \* round-robin: how often each replica was picked
  wraps,      \* ... and how often the counter has wrapped
  lowest,     \* po2: the least RIF each replica has had ...
  highest,    \* ... and the greatest, while the query's probes were under way
  readFrom,   \* wrr: when the last good probe of each replica was sent
  answering   \* ... and the replicas whose last probe, if any, was good

policiesHistory == <<served, wraps, lowest, highest, readFrom, answering>>
auditPoliciesVars == <<policiesVars, policiesHistory>>

\* An extreme v of the loads, brought up to date: it starts when the probes
\* of q are sent and stops with its choice.
Tracked(q, v, Extend(_, _)) ==
  CASE stage[q] = "new"    -> load'
    [] stage[q] = "chosen" -> v
    [] OTHER               -> [i \in Index |-> Extend(v[i], load'[i])]

Lesser(a, b) == IF a <= b THEN a ELSE b
Greater(a, b) == IF a <= b THEN b ELSE a

AuditPoliciesInit ==
  /\ PoliciesInit
  /\ served = [i \in Index |-> 0] /\ wraps = 0
  /\ lowest = [q \in Po2Query |-> load] /\ highest = [q \in Po2Query |-> load]
  /\ readFrom = [i \in Index |-> 0] /\ answering = Index

AuditRoundRobin ==
  /\ wraps * CounterSize + counter < MaxPicks
  /\ PickRoundRobin
  /\ served' = [served EXCEPT ![picked'] = @ + 1]
  /\ wraps' = IF counter' < counter THEN wraps + 1 ELSE wraps
  /\ UNCHANGED <<lowest, highest, readFrom, answering>>

AuditPo2 ==
  /\ Po2Turn
  /\ lowest' = [q \in Po2Query |-> Tracked(q, lowest[q], Lesser)]
  /\ highest' = [q \in Po2Query |-> Tracked(q, highest[q], Greater)]
  /\ UNCHANGED <<served, wraps, readFrom, answering>>

AuditRefresh ==
  /\ WrrTurn(Refresh)
  /\ readFrom' = [readFrom EXCEPT ![cursor] = deadline - ProbeTimeout]
  /\ answering' = answering \cup {cursor}
  /\ UNCHANGED <<served, wraps, lowest, highest>>

AuditSkip ==
  /\ WrrTurn(Skip)
  /\ answering' = answering \ {cursor}
  /\ UNCHANGED <<served, wraps, lowest, highest, readFrom>>

AuditUnobserved ==
  /\ PickRandom \/ PickWeighted \/ WrrTurn(Round \/ TimePasses)
  /\ UNCHANGED policiesHistory

AuditPoliciesNext ==
  /\ AuditRoundRobin \/ AuditPo2 \/ AuditRefresh \/ AuditSkip \/ AuditUnobserved
  /\ UNCHANGED <<fleetVars, cfg, budget>>

AuditPoliciesSpec ==
  AuditPoliciesInit /\ [][AuditPoliciesNext]_auditPoliciesVars
                    /\ \A q \in Po2Query : WF_policiesVars(Po2TaskRuns(q))

-----------------------------------------------------------------------------
\* The reuse budget is the least whole number that Eq. (1) asks for, or one
\* more where f64 rounds a whole quotient up; without a surplus of probes it
\* is unlimited; and no rounding gives a larger pool a smaller budget.
BudgetFitsPool ==
  LET surplus == Surplus(cfg, n)
      larger == [cfg EXCEPT !.pool_capacity = @ + 1]
  IN  policy = "prequal" =>
        /\ surplus <= 0 => budget = MaxBudget
        /\ surplus > 0 =>
             /\ budget < MaxBudget => budget * surplus >= Need(cfg, n)
             /\ budget = 1 \/ (budget - 1) * surplus <= Need(cfg, n)
        /\ \A b \in ReuseBudgets(larger, n) : b >= budget

\* Round robin gives every replica its share, but for the one pick under way;
\* where the fleet does not divide the counter's range, each wrap of the
\* counter favours the first replicas by one more pick.
SharesStayEven ==
  policy = "round-robin" =>
    \A i, j \in Index :
      served[i] - served[j] <= 1 + IF CounterSize % n = 0 THEN 0 ELSE wraps

\* The two probes read the RIFs at different times, so po2 may take the one
\* replica of the two that has been the busier all along.  What it never does
\* is take a replica whose RIF was, from the first probe on, above every value
\* the other one's had; and it takes a replica it knows nothing about only if
\* it knows nothing about either.
NeverTheBusier ==
  \A q \in Po2Query, k \in Side :
    LET other == 3 - k IN
    stage[q] = "chosen" /\ choice[q] = pair[q][k] =>
      IF heard[q][k] = Failed THEN heard[q][other] = Failed
      ELSE heard[q][other] = Failed \/ lowest[q][pair[q][k]] <= highest[q][pair[q][other]]

\* However many of the probes before it fail or time out, round after round,
\* a replica that goes on answering has its weight refreshed: the reading
\* behind it is never older than the longest gap between two rounds and the
\* probes up to its own.  (A replica that fails keeps its last weight.)
AnsweringWeightsAreFresh ==
  LET gap == IF Period > n * ProbeTimeout THEN Period ELSE n * ProbeTimeout
  IN  policy = "wrr" =>
        \A i \in answering : time - readFrom[i] <= gap + (i + 1) * ProbeTimeout

\* A query is given a replica even if both of its probes fail.
Po2AlwaysChooses ==
  \A q \in Po2Query : stage[q] = "probing" ~> stage[q] = "chosen"
=============================================================================
