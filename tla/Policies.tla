------------------------------ MODULE Policies ------------------------------
(***************************************************************************)
(* Balancer::new, Balancer::start and Balancer::select for every policy    *)
(* (src/src/client/policy.rs): the state each variant is built with, the   *)
(* stateless random choice, the round-robin counter, po2 (PowerOfTwo) and  *)
(* wrr (WeightRefresher).  For prequal only Balancer::new is here, which   *)
(* turns the configuration into a reuse budget; its select is Balancer.    *)
(***************************************************************************)
EXTENDS PowerOfTwo, WeightRefresher, ReuseBudget

CONSTANTS
  CounterSize,                    \* 2^w for the w bits of the AtomicUsize
  Capacities, Rates, Removals,    \* pool_capacity, r_probe and r_remove and
  Deltas                          \* delta of the configurations considered

ASSUME CounterAssumption == CounterSize \in Nat \ {0, 1}
ASSUME BudgetAssumption ==
  MaxBudget \in Nat \ {0} /\ Capacities \cup Rates \cup Removals \cup Deltas \subseteq Nat

Configuration ==
  [pool_capacity : Capacities, r_probe : Rates, r_remove : Removals, delta : Deltas]

\* PrequalConfig::default is one.
ASSUME ConfigurationAssumption == Configuration # {}

VARIABLES
  counter,   \* Policy::RoundRobin
  picked,    \* what select() last returned (po2: see choice)
  cfg,       \* Policy::Prequal::cfg
  budget     \* ProbePool::reuse_budget

policiesVars == <<fleetVars, po2Vars, wrrVars, counter, picked, cfg, budget>>

Nothing == -1

PoliciesInit ==
  /\ FleetInit /\ Po2Init /\ WrrInit
  /\ counter = 0
  /\ picked = Nothing
  /\ \/ policy = "prequal" /\ cfg \in Configuration
     \/ policy # "prequal" /\ cfg = CHOOSE c \in Configuration : TRUE
  /\ budget \in ReuseBudgets(cfg, n)

\* Policy::Random
PickRandom ==
  /\ policy = "random"
  /\ picked' \in Index
  /\ UNCHANGED <<po2Vars, wrrVars, counter>>

\* Slip of PickRoundRobin: the last replica is left out.
PickRoundRobinShort ==
  /\ policy = "round-robin"
  /\ picked' = counter % (n - 1)
  /\ counter' = (counter + 1) % CounterSize
  /\ UNCHANGED <<po2Vars, wrrVars>>

\* Policy::RoundRobin: fetch_add wraps around.
PickRoundRobin ==
  /\ policy = "round-robin"
  /\ picked' = counter % n
  /\ counter' = (counter + 1) % CounterSize
  /\ UNCHANGED <<po2Vars, wrrVars>>

\* Policy::Wrr: the walk over the cumulated weights may end at any replica
\* whose weight is positive.
PickWeighted ==
  /\ policy = "wrr"
  /\ \E i \in Index : weights[i] > 0 /\ picked' = i
  /\ UNCHANGED <<po2Vars, wrrVars, counter>>

Po2Turn == policy = "po2" /\ Po2Next /\ UNCHANGED <<wrrVars, counter, picked>>
WrrTurn(Step) == policy = "wrr" /\ Step /\ UNCHANGED <<po2Vars, counter, picked>>

PoliciesNext ==
  /\ PickRandom \/ PickRoundRobin \/ PickWeighted \/ Po2Turn \/ WrrTurn(WrrNext)
  /\ UNCHANGED <<fleetVars, cfg, budget>>

Po2TaskRuns(q) ==
  /\ policy = "po2" /\ Po2Step(q)
  /\ UNCHANGED <<wrrVars, counter, picked, fleetVars, cfg, budget>>

\* The tasks of po2 run when they can; a probe ends by its timeout at last.
PoliciesSpec ==
  PoliciesInit /\ [][PoliciesNext]_policiesVars
               /\ \A q \in Po2Query : WF_policiesVars(Po2TaskRuns(q))

-----------------------------------------------------------------------------
\* The types of every policy's state; select() returns an index of urls.
PoliciesTypeOK ==
  /\ policy \in PolicyName /\ n \in FleetSizes \cup BudgetSizes
  /\ Po2TypeOK /\ WrrTypeOK
  /\ counter \in 0 .. CounterSize - 1
  /\ picked \in Index \cup {Nothing}
  /\ cfg \in Configuration /\ budget \in 1 .. MaxBudget
=============================================================================
