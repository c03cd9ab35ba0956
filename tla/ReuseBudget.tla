----------------------------- MODULE ReuseBudget -----------------------------
(***************************************************************************)
(* PrequalConfig::reuse_budget (src/src/config.rs): Eq. (1) of the paper,  *)
(*   max(1, (1 + delta) / ((1 - m/n) * r_probe - r_remove)),               *)
(* rounded up.  The code computes it in f64.  The model computes exactly   *)
(* and adds the one thing rounding can change: a quotient that is a whole  *)
(* number may come out just above it, and is then rounded up to the next.  *)
(* (A surplus of zero may come out as 1e-16; the quotient then saturates.) *)
(***************************************************************************)
EXTENDS Integers

CONSTANT MaxBudget   \* u32::MAX, to which the cast to u32 saturates

\* Numerator and denominator of Eq. (1), both times n.
Need(cfg, n) == (1 + cfg.delta) * n
Surplus(cfg, n) == (n - cfg.pool_capacity) * cfg.r_probe - n * cfg.r_remove

\* What (a / b).ceil() may be.
CeilOfQuotient(a, b) == IF a % b = 0 THEN {a \div b, a \div b + 1} ELSE {a \div b + 1}

\* Slip of ReuseBudgets: rounded down.
ReuseBudgetsDown(cfg, n) ==
  IF Surplus(cfg, n) <= 0 THEN {MaxBudget} ELSE {Need(cfg, n) \div Surplus(cfg, n)}

ReuseBudgets(cfg, n) ==
  IF Surplus(cfg, n) <= 0 THEN {MaxBudget}
  ELSE {IF b > MaxBudget THEN MaxBudget ELSE b :
          b \in CeilOfQuotient(Need(cfg, n), Surplus(cfg, n))}
=============================================================================
