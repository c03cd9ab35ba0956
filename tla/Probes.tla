------------------------------- MODULE Probes -------------------------------
(***************************************************************************)
(* What one probe response is (Probe of src/src/client/pool.rs), and the   *)
(* parameters of the pool that keeps them: shared by ProbePool, the pool   *)
(* as a set of responses, and ProbePoolVec, the pool as the Vec it is.     *)
(*                                                                         *)
(* The quantile q_rif is the rational QNum / QDen.                         *)
(***************************************************************************)
EXTENDS Integers, FiniteSets

CONSTANTS
  Replica,         \* indices into Balancer::urls
  Capacity,        \* pool_capacity
  Ttl,             \* probe_ttl_ms, in units of the model's clock
  ReuseBudget,     \* reuse_budget(n)
  QNum, QDen,      \* q_rif = QNum / QDen
  Instant,         \* clock readings considered: Nat, or 0 .. n to bound a run
  RifReading,      \* values a replica may report as rif
  LatencyReading   \* values a replica may report as latency_us

ASSUME CapacityAssumption == Capacity \in Nat
ASSUME LimitsAssumption == Ttl \in Nat /\ ReuseBudget \in Nat \ {0}
ASSUME QuantileAssumption == QNum \in Nat /\ QDen \in Nat \ {0} /\ QNum <= QDen
ASSUME InstantAssumption == Instant \subseteq Nat /\ 0 \in Instant
ASSUME ReadingAssumption == RifReading \subseteq Nat /\ LatencyReading \subseteq Nat

Probe == [replica : Replica, rif : Nat, rif_at_probe : Nat,
          latency_us : Nat, uses : Nat]

\* Probe::adjusted_latency: rescaled for our own dispatches since the probe.
AdjustedLatency(probe) ==
  (probe.latency_us * (probe.rif + 1)) \div (probe.rif_at_probe + 1)

\* Index of the quantile in the sorted list of k RIF values, from 0.
QuantileIndex(k) == (QNum * (k - 1)) \div QDen
=============================================================================
