------------------------------- MODULE Fleet -------------------------------
(***************************************************************************)
(* What Balancer::new (src/src/client/policy.rs) fixes for good: the       *)
(* policy, chosen by name, and the number of replicas.  Both are variables *)
(* that never change, so that one run covers every policy, each on several *)
(* fleets.                                                                 *)
(***************************************************************************)
EXTENDS Integers

CONSTANTS
  FleetSizes,    \* lengths of --servers considered
  BudgetSizes    \* the same for the prequal policy, where only n itself counts

\* client::run asserts that there are at least two replicas.
ASSUME FleetSizesAssumption ==
  FleetSizes \subseteq Nat \ {0, 1} /\ BudgetSizes \subseteq Nat \ {0, 1}

VARIABLES
  policy,   \* the variant of enum Policy
  n         \* urls.len()

fleetVars == <<policy, n>>

PolicyName == {"random", "round-robin", "po2", "wrr", "prequal"}

Index == 0 .. n - 1

FleetInit ==
  /\ policy \in PolicyName
  /\ n \in IF policy = "prequal" THEN BudgetSizes ELSE FleetSizes
=============================================================================
