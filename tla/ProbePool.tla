----------------------------- MODULE ProbePool -----------------------------
(***************************************************************************)
(* The probe pool of one Prequal balancer (src/src/client/pool.rs): the    *)
(* bounded store of probe responses that insert() fills off the critical   *)
(* path and that one critical section of Balancer::select reads, updates   *)
(* and thins out.                                                          *)
(*                                                                         *)
(* The pool is a function from the instant at which a response was stored  *)
(* (received_at) to the response.  insert() reads the clock while it holds *)
(* the pool's lock, so later insertions have later instants; the model     *)
(* takes them to be distinct.  The order of the Vec is left out, as the    *)
(* source leaves it open ("unordered"): where the code takes the first     *)
(* minimum or the last maximum it meets, the model takes any of them.      *)
(* ProbePoolVec has the order, and implements this module.                 *)
(***************************************************************************)
EXTENDS Probes, Functions, OrderStatistics

VARIABLES
  pool,              \* ProbePool::probes, by received_at
  removeOldestNext,  \* ProbePool::remove_oldest_next
  now                \* the client's monotonic clock

vars == <<pool, removeOldestNext, now>>

NoProbe == 0                      \* no instant: instants of probes start at 1
EmptyPool == [t \in {} |-> NoProbe]
Occupancy(p) == Cardinality(DOMAIN p)   \* ProbePool::len

-----------------------------------------------------------------------------
(* Operators on a pool p.                                                  *)

Without(p, t) == Restrict(p, DOMAIN p \ {t})

Oldest(p) == CHOOSE t \in DOMAIN p : \A u \in DOMAIN p : t <= u

RemoveOldest(p) == IF DOMAIN p = {} THEN p ELSE Without(p, Oldest(p))

\* Slip of Insert: the occupancy test is off by one.
InsertOverfull(p, t, probe) ==
  LET kept == IF Occupancy(p) > Capacity THEN RemoveOldest(p) ELSE p
  IN  [u \in DOMAIN kept \cup {t} |-> IF u = t THEN probe ELSE kept[u]]

\* ProbePool::insert: evict the oldest when full, then push.
Insert(p, t, probe) ==
  LET kept == IF Occupancy(p) >= Capacity THEN RemoveOldest(p) ELSE p
  IN  [u \in DOMAIN kept \cup {t} |-> IF u = t THEN probe ELSE kept[u]]

Usable(p, t, at) == at - t < Ttl /\ p[t].uses < ReuseBudget

\* Slip of Expire: a spent probe stays.
ExpireOverspent(p, at) ==
  Restrict(p, {t \in DOMAIN p : at - t < Ttl /\ p[t].uses <= ReuseBudget})

\* ProbePool::expire
Expire(p, at) == Restrict(p, {t \in DOMAIN p : Usable(p, t, at)})

\* The latest probe of every pooled replica.
Latest(p) ==
  {t \in DOMAIN p : \A u \in DOMAIN p : p[u].replica = p[t].replica => u <= t}

Rif(p) == [t \in DOMAIN p |-> p[t].rif]

\* Slip of HotThreshold: the quantile is taken over every copy.
HotThresholdOfCopies(p) ==
  Sorted(DOMAIN p, Rif(p), QuantileIndex(Occupancy(p)))

\* ProbePool::hot_threshold, on a pool that is not empty.
HotThreshold(p) ==
  LET latest == Latest(p)
  IN  Sorted(latest, Rif(p), QuantileIndex(Cardinality(latest)))

\* Slip of Cold: only probes strictly below the threshold.
ColdBelow(p) ==
  LET threshold == HotThreshold(p) IN {t \in DOMAIN p : p[t].rif < threshold}

Cold(p) ==
  LET threshold == HotThreshold(p) IN {t \in DOMAIN p : p[t].rif <= threshold}
Hot(p) == DOMAIN p \ Cold(p)

\* The probes hcl_select may settle on: a cold one of lowest adjusted
\* latency, or one of lowest RIF if every probe is hot.
HclBest(p) ==
  LET cold == Cold(p) IN
  IF cold # {}
  THEN {t \in cold : \A u \in cold : AdjustedLatency(p[t]) <= AdjustedLatency(p[u])}
  ELSE {t \in DOMAIN p : \A u \in DOMAIN p : p[t].rif <= p[u].rif}

\* Slips of Compensate: only the winner is compensated; the wrong sign.
CompensateWinner(p, w) ==
  [t \in DOMAIN p |->
     [p[t] EXCEPT !.uses = IF t = w THEN @ + 1 ELSE @,
                  !.rif  = IF t = w THEN @ + 1 ELSE @]]
CompensateDown(p, w) ==
  [t \in DOMAIN p |->
     [p[t] EXCEPT !.uses = IF t = w THEN @ + 1 ELSE @,
                  !.rif  = IF p[t].replica = p[w].replica THEN @ - 1 ELSE @]]

\* What hcl_select does to the pool once it has settled on probe w.
Compensate(p, w) ==
  [t \in DOMAIN p |->
     [p[t] EXCEPT !.uses = IF t = w THEN @ + 1 ELSE @,
                  !.rif  = IF p[t].replica = p[w].replica THEN @ + 1 ELSE @]]

\* The probes remove_one may take as the worst one.
Worst(p) ==
  IF Hot(p) # {}
  THEN {t \in DOMAIN p : \A u \in DOMAIN p : p[u].rif <= p[t].rif}
  ELSE {t \in DOMAIN p : \A u \in DOMAIN p : AdjustedLatency(p[u]) <= AdjustedLatency(p[t])}

\* Probes that may win a selection on p; fewer than two probes: no winner.
Winners(p) == IF Occupancy(p) < 2 THEN {NoProbe} ELSE HclBest(p)

-----------------------------------------------------------------------------
Init ==
  /\ pool = EmptyPool
  /\ removeOldestNext = FALSE
  /\ now = 0

\* A probe task stores a response (policy.rs, trigger_probes).
Store(r, rif, latency) ==
  /\ now + 1 \in Instant
  /\ now' = now + 1
  /\ pool' = Insert(pool, now',
                    [replica |-> r, rif |-> rif, rif_at_probe |-> rif,
                     latency_us |-> latency, uses |-> 0])
  /\ UNCHANGED removeOldestNext

\* Slip of RemoveOne: the alternation never turns to the oldest.
RemoveWorstOnly(p) ==
  /\ UNCHANGED removeOldestNext
  /\ \/ DOMAIN p = {} /\ pool' = p
     \/ \E v \in IF DOMAIN p = {} THEN {} ELSE Worst(p) : pool' = Without(p, v)

\* Slip of RemoveOne: the worst half removes nothing while no probe is hot.
RemoveHotOnly(p) ==
  \/ /\ DOMAIN p = {}
     /\ pool' = p
     /\ UNCHANGED removeOldestNext
  \/ /\ DOMAIN p # {}
     /\ removeOldestNext' = ~removeOldestNext
     /\ \/ removeOldestNext' /\ pool' = Without(p, Oldest(p))
        \/ ~removeOldestNext' /\ Hot(p) = {} /\ pool' = p
        \/ ~removeOldestNext' /\ Hot(p) # {} /\ \E v \in Worst(p) : pool' = Without(p, v)

\* ProbePool::remove_one applied to p, the last update under the lock.
RemoveOne(p) ==
  \/ /\ DOMAIN p = {}
     /\ pool' = p
     /\ UNCHANGED removeOldestNext
  \/ /\ DOMAIN p # {}
     /\ removeOldestNext' = ~removeOldestNext
     /\ \E v \in IF removeOldestNext' THEN {Oldest(p)} ELSE Worst(p) :
          pool' = Without(p, v)

\* The critical section of Balancer::select: expire, pick by HCL unless
\* fewer than two probes are left, then remove r_remove = 1 probe.
\* w is the winning probe, NoProbe for the random fallback.
Select(w) ==
  LET live == Expire(pool, now)
  IN  /\ w \in Winners(live)
      /\ RemoveOne(IF w = NoProbe THEN live ELSE Compensate(live, w))
      /\ UNCHANGED now

\* Time passes.
Pass ==
  /\ now + 1 \in Instant
  /\ now' = now + 1
  /\ UNCHANGED <<pool, removeOldestNext>>

Next ==
  \/ \E r \in Replica, rif \in RifReading, l \in LatencyReading : Store(r, rif, l)
  \/ \E w \in DOMAIN pool \cup {NoProbe} : Select(w)
  \/ Pass

Spec == Init /\ [][Next]_vars

-----------------------------------------------------------------------------
\* The pool's type: finitely many probes, stored at past instants.
TypeOK ==
  /\ now \in Nat
  /\ removeOldestNext \in BOOLEAN
  /\ DOMAIN pool \subseteq 1 .. now
  /\ pool \in [DOMAIN pool -> Probe]
=============================================================================
