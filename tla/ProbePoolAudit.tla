--------------------------- MODULE ProbePoolAudit ---------------------------
(***************************************************************************)
(* ProbePool with a history variable, and the properties of the pool.      *)
(* survived[t] counts the selections whose per-query removal the probe     *)
(* stored at t has survived; no action of ProbePool reads it.              *)
(***************************************************************************)
EXTENDS ProbePool

VARIABLE survived

auditVars == <<vars, survived>>

AuditInit == Init /\ survived = EmptyPool

AuditStore(r, rif, latency) ==
  /\ Store(r, rif, latency)
  /\ survived' = [t \in DOMAIN pool' |-> IF t \in DOMAIN pool THEN survived[t] ELSE 0]

AuditSelect(w) ==
  /\ Select(w)
  /\ survived' = [t \in DOMAIN pool' |-> survived[t] + 1]

AuditPass == Pass /\ UNCHANGED survived

AuditNext ==
  \/ \E r \in Replica, rif \in RifReading, l \in LatencyReading : AuditStore(r, rif, l)
  \/ \E w \in DOMAIN pool \cup {NoProbe} : AuditSelect(w)
  \/ AuditPass

AuditSpec == AuditInit /\ [][AuditNext]_auditVars

AuditTypeOK == TypeOK /\ survived \in [DOMAIN pool -> Nat]

-----------------------------------------------------------------------------
\* The most probes a pool of this capacity ever holds: insert() pushes after
\* evicting, so a pool configured with capacity 0 still holds one.
Limit == IF Capacity = 0 THEN 1 ELSE Capacity

\* Overflow eviction in insert() keeps the pool within its limit however
\* insertions and selections interleave, capacity 0 included.
PoolBounded == Occupancy(pool) <= Limit

\* expire() runs before every selection under the same lock, so no probe wins
\* more often than the reuse budget, and a win can never push it past it.
UsesWithinBudget == \A t \in DOMAIN pool : pool[t].uses <= ReuseBudget

\* The threshold is the RIF of a pooled probe, so whatever subset of the pool
\* expire() leaves holds a cold probe: the all-hot branch of hcl_select never
\* runs, and remove_one never evicts the last cold probe as "worst hot".
NeverAllHot ==
  \A S \in SUBSET DOMAIN pool : S # {} => Cold(Restrict(pool, S)) # {}

\* What the deduplication in hot_threshold is for: below q_rif = 1, a replica
\* whose latest probe reports strictly more RIF than every other pooled
\* replica is hot, however many copies of it the pool holds.
OverloadedReplicaIsHot ==
  QNum < QDen =>
    \A t \in Latest(pool) :
      /\ Cardinality(Latest(pool)) > 1
      /\ \A u \in Latest(pool) \ {t} : pool[u].rif < pool[t].rif
      => t \in Hot(pool)

Compensation(t) == pool[t].rif - pool[t].rif_at_probe

\* hcl_select raises the RIF of every copy of the chosen replica, so an older
\* copy carries the dispatches won by itself and by any newer copy: a stale
\* copy never looks emptier than the use of fresher copies allows.
CompensationCoversReuse ==
  \A t, u \in DOMAIN pool :
    /\ Compensation(t) >= pool[t].uses
    /\ t < u /\ pool[t].replica = pool[u].replica
         => Compensation(t) >= pool[t].uses + pool[u].uses

\* The alternation in remove_one bounds how long any probe can stay, with no
\* help from the TTL or the reuse budget: removing the oldest at every other
\* selection lets no probe survive more than 2 * (Limit - 1) of them.
RetentionBounded == \A t \in DOMAIN pool : survived[t] <= 2 * (Limit - 1)

\* Hence what our own dispatches add to a pooled RIF is bounded as well, even
\* under the unbounded reuse budget of a small fleet (u32::MAX).
DriftBounded == \A t \in DOMAIN pool : Compensation(t) <= 2 * (Limit - 1)

\* What README.md says of HCL, which classifies replicas: among the cold ones
\* it picks the lowest latency, so the latest response of the replica picked
\* is cold.  (Whichever of the equally good probes the code takes first.)
PickedReplicaIsCold ==
  [][\A w \in DOMAIN pool : Select(w) =>
       LET live == Expire(pool, now)
       IN  \E v \in HclBest(live) : \A t \in Latest(live) :
             live[t].replica = live[v].replica => t \in Cold(live)]_vars
=============================================================================
