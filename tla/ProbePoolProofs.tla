--------------------------- MODULE ProbePoolProofs ---------------------------
(***************************************************************************)
(* Theorems about ProbePool and ProbePoolAudit, for every value of the     *)
(* constants: what the pool holds and picks, how long a probe can stay in  *)
(* it and how far its RIF can drift; and that the Vec of ProbePoolVec,     *)
(* permuted as it is, implements that pool.                                *)
(***************************************************************************)
EXTENDS ProbePoolAudit, ProbePoolVec, Lemmas

\* A pool of probes stored no later than n.
PoolAt(p, n) == DOMAIN p \subseteq 1 .. n /\ p \in [DOMAIN p -> Probe]

-----------------------------------------------------------------------------
(* What the operators on pools do to the probes and their instants.        *)

\* Forgetting probes leaves the others as they were.
LEMMA RestrictPool ==
  ASSUME NEW n \in Nat, NEW p, PoolAt(p, n), NEW S \in SUBSET DOMAIN p
  PROVE  /\ PoolAt(Restrict(p, S), n)
         /\ DOMAIN Restrict(p, S) = S
         /\ \A t \in S : Restrict(p, S)[t] = p[t]
BY DEF PoolAt, Restrict

\* expire() keeps exactly the usable probes, unchanged.
LEMMA ExpirePool ==
  ASSUME NEW n \in Nat, NEW p, PoolAt(p, n)
  PROVE  /\ PoolAt(Expire(p, n), n)
         /\ DOMAIN Expire(p, n) = {t \in DOMAIN p : Usable(p, t, n)}
         /\ \A t \in DOMAIN Expire(p, n) : Expire(p, n)[t] = p[t]
BY RestrictPool DEF Expire

\* A pool of probes is finite.
LEMMA FinitePool ==
  ASSUME NEW n \in Nat, NEW p, PoolAt(p, n)
  PROVE  IsFiniteSet(DOMAIN p) /\ Occupancy(p) \in Nat
<1>1. IsFiniteSet(1 .. n)
  BY FS_Interval
<1>2. IsFiniteSet(DOMAIN p)
  BY <1>1, FS_Subset DEF PoolAt
<1> QED
  BY <1>2, FS_CardinalityType DEF Occupancy

\* A pool that is not empty has an oldest probe.
LEMMA OldestExists ==
  ASSUME NEW n \in Nat, NEW p, PoolAt(p, n), DOMAIN p # {}
  PROVE  Oldest(p) \in DOMAIN p /\ \A u \in DOMAIN p : Oldest(p) <= u
<1>1. DOMAIN p \in SUBSET Nat
  BY DEF PoolAt
<1>2. \E t \in DOMAIN p : \A u \in DOMAIN p : t <= u
  BY <1>1, LeastNat
<1> QED
  BY <1>2, Zenon DEF Oldest

\* remove_oldest() takes one probe out of a pool that is not empty.
LEMMA RemoveOldestPool ==
  ASSUME NEW n \in Nat, NEW p, PoolAt(p, n)
  PROVE  /\ PoolAt(RemoveOldest(p), n)
         /\ DOMAIN RemoveOldest(p) \subseteq DOMAIN p
         /\ \A t \in DOMAIN RemoveOldest(p) : RemoveOldest(p)[t] = p[t]
         /\ DOMAIN p # {} => DOMAIN RemoveOldest(p) = DOMAIN p \ {Oldest(p)}
BY RestrictPool DEF RemoveOldest, Without

\* insert() adds the new probe; the others are pooled ones, unchanged.
LEMMA InsertPool ==
  ASSUME NEW n \in Nat, NEW p, PoolAt(p, n), NEW probe \in Probe
  PROVE  /\ PoolAt(Insert(p, n + 1, probe), n + 1)
         /\ n + 1 \in DOMAIN Insert(p, n + 1, probe)
         /\ Insert(p, n + 1, probe)[n + 1] = probe
         /\ \A t \in DOMAIN Insert(p, n + 1, probe) \ {n + 1} :
              t \in DOMAIN p /\ Insert(p, n + 1, probe)[t] = p[t]
<1> DEFINE kept == IF Occupancy(p) >= Capacity THEN RemoveOldest(p) ELSE p
<1>1. /\ PoolAt(kept, n)
      /\ DOMAIN kept \subseteq DOMAIN p
      /\ \A t \in DOMAIN kept : kept[t] = p[t]
  BY RemoveOldestPool
<1>2. Insert(p, n + 1, probe) =
        [u \in DOMAIN kept \cup {n + 1} |-> IF u = n + 1 THEN probe ELSE kept[u]]
  BY DEF Insert
<1> HIDE DEF kept
<1>3. n + 1 \notin DOMAIN kept
  BY <1>1 DEF PoolAt
<1> QED
  BY <1>1, <1>2, <1>3 DEF PoolAt

\* Compensation touches no probe but in its uses and its RIF, which it never
\* lowers.
LEMMA CompensatePool ==
  ASSUME NEW n \in Nat, NEW p, PoolAt(p, n), NEW w \in DOMAIN p
  PROVE  /\ PoolAt(Compensate(p, w), n)
         /\ DOMAIN Compensate(p, w) = DOMAIN p
         /\ \A t \in DOMAIN p :
              /\ Compensate(p, w)[t].replica = p[t].replica
              /\ Compensate(p, w)[t].rif_at_probe = p[t].rif_at_probe
              /\ Compensate(p, w)[t].uses = IF t = w THEN p[t].uses + 1 ELSE p[t].uses
              /\ Compensate(p, w)[t].rif =
                   IF p[t].replica = p[w].replica THEN p[t].rif + 1 ELSE p[t].rif
<1> DEFINE q == Compensate(p, w)
<1>1. DOMAIN q = DOMAIN p
  BY DEF Compensate
<1>2. ASSUME NEW t \in DOMAIN p
      PROVE  /\ q[t] \in Probe
             /\ q[t].replica = p[t].replica
             /\ q[t].rif_at_probe = p[t].rif_at_probe
             /\ q[t].uses = IF t = w THEN p[t].uses + 1 ELSE p[t].uses
             /\ q[t].rif = IF p[t].replica = p[w].replica THEN p[t].rif + 1 ELSE p[t].rif
  <2>1. q[t] = [p[t] EXCEPT !.uses = IF t = w THEN @ + 1 ELSE @,
                            !.rif  = IF p[t].replica = p[w].replica THEN @ + 1 ELSE @]
    BY DEF Compensate
  <2>2. p[t] \in Probe
    BY DEF PoolAt
  <2> HIDE DEF q
  <2>3. q[t].uses = (IF t = w THEN p[t].uses + 1 ELSE p[t].uses) /\ q[t].uses \in Nat
    BY <2>1, <2>2 DEF Probe
  <2>4. /\ q[t].rif = (IF p[t].replica = p[w].replica THEN p[t].rif + 1 ELSE p[t].rif)
        /\ q[t].rif \in Nat
    BY <2>1, <2>2 DEF Probe
  <2>5. /\ q[t].replica = p[t].replica
        /\ q[t].rif_at_probe = p[t].rif_at_probe
        /\ q[t].latency_us = p[t].latency_us
    BY <2>1, <2>2 DEF Probe
  <2>6. q[t] = [replica |-> q[t].replica, rif |-> q[t].rif,
                rif_at_probe |-> q[t].rif_at_probe,
                latency_us |-> q[t].latency_us, uses |-> q[t].uses]
    BY <2>1, <2>2 DEF Probe
  <2>7. q[t] \in Probe
    BY <2>2, <2>3, <2>4, <2>5, <2>6 DEF Probe
  <2> QED
    BY <2>3, <2>4, <2>5, <2>7
<1>3. q = [t \in DOMAIN p |-> q[t]]
  BY DEF Compensate
<1> QED
  BY <1>1, <1>2, <1>3 DEF PoolAt

\* remove_one() takes at most one probe and leaves the others as they were.
LEMMA RemoveOnePool ==
  ASSUME NEW n \in Nat, NEW p, PoolAt(p, n), removeOldestNext \in BOOLEAN, RemoveOne(p)
  PROVE  /\ PoolAt(pool', n)
         /\ removeOldestNext' \in BOOLEAN
         /\ DOMAIN pool' \subseteq DOMAIN p
         /\ \A t \in DOMAIN pool' : pool'[t] = p[t]
<1>1. CASE DOMAIN p = {}
  BY <1>1 DEF RemoveOne, Worst
<1>2. CASE DOMAIN p # {}
  <2>1. removeOldestNext' \in BOOLEAN
    BY <1>2, Zenon DEF RemoveOne
  <2>2. PICK v : pool' = Restrict(p, DOMAIN p \ {v})
    BY <1>2, Zenon DEF RemoveOne, Without
  <2> QED
    BY <2>1, <2>2, RestrictPool
<1> QED
  BY <1>1, <1>2

-----------------------------------------------------------------------------
(* What the actions do to the pool.                                        *)

\* A winner is one of the probes that were ranked.
LEMMA WinnerIsPooled ==
  ASSUME NEW p, NEW w \in Winners(p)
  PROVE  w = NoProbe \/ w \in DOMAIN p
BY Zenon DEF Winners, HclBest, Cold

\* What pool'[t] is after a selection won by w.
Outcome(t, w) ==
  /\ pool'[t].replica = pool[t].replica
  /\ pool'[t].rif_at_probe = pool[t].rif_at_probe
  /\ pool'[t].uses = IF t = w THEN pool[t].uses + 1 ELSE pool[t].uses
  /\ pool'[t].rif = IF w # NoProbe /\ pool[t].replica = pool[w].replica
                    THEN pool[t].rif + 1 ELSE pool[t].rif

\* A selection keeps only usable probes, and changes those it keeps as
\* compensation for a usable winner does.
LEMMA SelectEffect ==
  ASSUME TypeOK, NEW w, Select(w)
  PROVE  /\ TypeOK'
         /\ now' = now
         /\ w # NoProbe => w \in DOMAIN pool /\ Usable(pool, w, now)
         /\ \A t \in DOMAIN pool' :
              t \in DOMAIN pool /\ Usable(pool, t, now) /\ Outcome(t, w)
<1> DEFINE live == Expire(pool, now)
           q == IF w = NoProbe THEN live ELSE Compensate(live, w)
<1>1. PoolAt(pool, now) /\ now \in Nat /\ removeOldestNext \in BOOLEAN
  BY DEF TypeOK, PoolAt
<1>2. /\ PoolAt(live, now)
      /\ DOMAIN live = {t \in DOMAIN pool : Usable(pool, t, now)}
      /\ \A t \in DOMAIN live : live[t] = pool[t]
  BY <1>1, ExpirePool
<1>3. w = NoProbe \/ w \in DOMAIN live
  BY WinnerIsPooled DEF Select
<1>4. RemoveOne(q) /\ now' = now
  BY DEF Select
<1> HIDE DEF live
<1>5. /\ PoolAt(q, now)
      /\ DOMAIN q = DOMAIN live
      /\ \A t \in DOMAIN live :
           /\ q[t].replica = live[t].replica
           /\ q[t].rif_at_probe = live[t].rif_at_probe
           /\ q[t].uses = IF t = w THEN live[t].uses + 1 ELSE live[t].uses
           /\ q[t].rif = IF w # NoProbe /\ live[t].replica = live[w].replica
                         THEN live[t].rif + 1 ELSE live[t].rif
  <2>1. CASE w = NoProbe
    <3>1. \A t \in DOMAIN live : t # NoProbe
      BY <1>1, <1>2 DEF PoolAt, NoProbe
    <3> QED
      BY <2>1, <3>1, <1>2
  <2>2. CASE w # NoProbe /\ w \in DOMAIN live
    BY <2>2, <1>1, <1>2, CompensatePool
  <2> QED
    BY <1>3, <2>1, <2>2
<1> HIDE DEF q
<1>6. /\ PoolAt(pool', now)
      /\ removeOldestNext' \in BOOLEAN
      /\ DOMAIN pool' \subseteq DOMAIN q
      /\ \A t \in DOMAIN pool' : pool'[t] = q[t]
  BY <1>1, <1>4, <1>5, RemoveOnePool
<1>7. TypeOK'
  BY <1>1, <1>4, <1>6 DEF TypeOK, PoolAt
<1>8. ASSUME NEW t \in DOMAIN pool'
      PROVE  t \in DOMAIN pool /\ Usable(pool, t, now) /\ Outcome(t, w)
  BY <1>2, <1>3, <1>5, <1>6 DEF Outcome
<1> QED
  BY <1>2, <1>3, <1>4, <1>7, <1>8

\* A stored response is the newest probe, unused and as reported; what else
\* is in the pool was there before.
LEMMA StoreEffect ==
  ASSUME TypeOK, NEW r \in Replica, NEW rif \in RifReading,
         NEW latency \in LatencyReading, Store(r, rif, latency)
  PROVE  /\ TypeOK'
         /\ now' = now + 1
         /\ now' \in DOMAIN pool'
         /\ pool'[now'].uses = 0
         /\ pool'[now'].rif = rif /\ pool'[now'].rif_at_probe = rif
         /\ \A t \in DOMAIN pool' \ {now'} :
              t \in DOMAIN pool /\ t < now' /\ pool'[t] = pool[t]
<1> DEFINE probe == [replica |-> r, rif |-> rif, rif_at_probe |-> rif,
                     latency_us |-> latency, uses |-> 0]
<1>1. PoolAt(pool, now) /\ now \in Nat /\ removeOldestNext \in BOOLEAN
  BY DEF TypeOK, PoolAt
<1>2. probe \in Probe
  BY ReadingAssumption DEF Probe
<1>3. pool' = Insert(pool, now + 1, probe) /\ now' = now + 1 /\ UNCHANGED removeOldestNext
  BY DEF Store
<1>4. probe.uses = 0 /\ probe.rif = rif /\ probe.rif_at_probe = rif
  OBVIOUS
<1> HIDE DEF probe
<1>5. /\ PoolAt(pool', now')
      /\ now' \in DOMAIN pool'
      /\ pool'[now'] = probe
      /\ \A t \in DOMAIN pool' \ {now'} : t \in DOMAIN pool /\ pool'[t] = pool[t]
  BY <1>1, <1>2, <1>3, InsertPool
<1>6. \A t \in DOMAIN pool : t < now'
  BY <1>1, <1>3 DEF PoolAt
<1>7. TypeOK'
  BY <1>1, <1>3, <1>5 DEF TypeOK, PoolAt
<1> QED
  BY <1>3, <1>4, <1>5, <1>6, <1>7

-----------------------------------------------------------------------------
\* The pool starts empty, which has its type, ...
LEMMA TypeStarts == Init => TypeOK
<1> SUFFICES ASSUME Init
             PROVE  TypeOK
  OBVIOUS
<1>1. pool = EmptyPool /\ now = 0 /\ removeOldestNext = FALSE
  BY DEF Init
<1>2. DOMAIN EmptyPool = {} /\ EmptyPool \in [{} -> Probe]
  BY DEF EmptyPool
<1>3. removeOldestNext \in BOOLEAN
  BY <1>1
<1> QED
  BY <1>1, <1>2, <1>3 DEF TypeOK

\* ... and every step keeps it.
LEMMA TypeStep ==
  ASSUME TypeOK, [Next]_vars
  PROVE  TypeOK'
<1>1. ASSUME NEW r \in Replica, NEW rif \in RifReading, NEW l \in LatencyReading,
             Store(r, rif, l)
      PROVE  TypeOK'
  BY <1>1, StoreEffect
<1>2. ASSUME NEW w \in DOMAIN pool \cup {NoProbe}, Select(w)
      PROVE  TypeOK'
  BY <1>2, SelectEffect
<1>3. CASE Pass
  BY <1>3 DEF Pass, TypeOK
<1>4. CASE UNCHANGED vars
  BY <1>4 DEF vars, TypeOK
<1> QED
  BY <1>1, <1>2, <1>3, <1>4 DEF Next

\* Type correctness: the pool never holds anything but probes stored at
\* distinct past instants.
THEOREM TypeCorrect == Spec => []TypeOK
BY TypeStarts, TypeStep, PTL DEF Spec

\* The reuse budget holds through every interleaving: expire() leaves only
\* probes below it in front of the selection that adds one use.
THEOREM BudgetHolds == Spec => []UsesWithinBudget
<1>1. Init => UsesWithinBudget
  BY DEF Init, UsesWithinBudget, EmptyPool
<1>2. TypeOK /\ UsesWithinBudget /\ [Next]_vars => UsesWithinBudget'
  <2> SUFFICES ASSUME TypeOK, UsesWithinBudget, [Next]_vars
               PROVE  UsesWithinBudget'
    OBVIOUS
  <2>1. ASSUME NEW r \in Replica, NEW rif \in RifReading, NEW l \in LatencyReading,
               Store(r, rif, l)
        PROVE  UsesWithinBudget'
    <3>1. /\ pool'[now'].uses = 0
          /\ \A t \in DOMAIN pool' \ {now'} : t \in DOMAIN pool /\ pool'[t] = pool[t]
      BY <2>1, StoreEffect
    <3> QED
      BY <3>1, LimitsAssumption DEF UsesWithinBudget
  <2>2. ASSUME NEW w \in DOMAIN pool \cup {NoProbe}, Select(w)
        PROVE  UsesWithinBudget'
    <3> SUFFICES ASSUME NEW t \in DOMAIN pool'
                 PROVE  pool'[t].uses <= ReuseBudget
      BY DEF UsesWithinBudget
    <3>1. t \in DOMAIN pool /\ Usable(pool, t, now) /\ Outcome(t, w)
      BY <2>2, SelectEffect
    <3>2. pool[t].uses \in Nat /\ pool[t].uses < ReuseBudget
      BY <3>1 DEF Usable, TypeOK, Probe
    <3> QED
      BY <3>1, <3>2, LimitsAssumption DEF Outcome
  <2>3. CASE Pass
    BY <2>3 DEF Pass, UsesWithinBudget
  <2>4. CASE UNCHANGED vars
    BY <2>4 DEF vars, UsesWithinBudget
  <2> QED
    BY <2>1, <2>2, <2>3, <2>4 DEF Next
<1> QED
  BY <1>1, <1>2, TypeCorrect, PTL DEF Spec

\* Compensation covers reuse: an older copy of a replica carries its own wins
\* and those of every newer copy.  The invariant is inductive as it stands
\* because every win raises all copies that are left, and a copy stored later
\* starts without wins.
THEOREM ReuseIsCovered == Spec => []CompensationCoversReuse
<1>1. Init => CompensationCoversReuse
  BY DEF Init, CompensationCoversReuse, EmptyPool
<1>2. TypeOK /\ CompensationCoversReuse /\ [Next]_vars => CompensationCoversReuse'
  <2> SUFFICES ASSUME TypeOK, CompensationCoversReuse, [Next]_vars
               PROVE  CompensationCoversReuse'
    OBVIOUS
  <2>0. \A t \in DOMAIN pool : /\ t \in Nat
                              /\ pool[t].rif \in Nat
                              /\ pool[t].rif_at_probe \in Nat
                              /\ pool[t].uses \in Nat
    BY DEF TypeOK, Probe
  <2>1. ASSUME NEW r \in Replica, NEW rif \in RifReading, NEW l \in LatencyReading,
               Store(r, rif, l)
        PROVE  CompensationCoversReuse'
    <3>1. /\ TypeOK'
          /\ pool'[now'].uses = 0
          /\ pool'[now'].rif = pool'[now'].rif_at_probe
          /\ \A t \in DOMAIN pool' \ {now'} :
               t \in DOMAIN pool /\ t < now' /\ pool'[t] = pool[t]
      BY <2>1, StoreEffect
    <3>2. \A t \in DOMAIN pool' : /\ t \in Nat
                                 /\ pool'[t].rif \in Nat
                                 /\ pool'[t].rif_at_probe \in Nat
      BY <3>1 DEF TypeOK, Probe
    <3> QED
      BY <2>0, <3>1, <3>2 DEF CompensationCoversReuse, Compensation, TypeOK
  <2>2. ASSUME NEW w \in DOMAIN pool \cup {NoProbe}, Select(w)
        PROVE  CompensationCoversReuse'
    <3>1. /\ w # NoProbe => w \in DOMAIN pool
          /\ \A t \in DOMAIN pool' : t \in DOMAIN pool /\ Outcome(t, w)
      BY <2>2, SelectEffect
    <3>2. NoProbe \notin DOMAIN pool
      BY DEF TypeOK, NoProbe
    <3> QED
      BY <2>0, <3>1, <3>2 DEF CompensationCoversReuse, Compensation, Outcome
  <2>3. CASE Pass
    BY <2>3 DEF Pass, CompensationCoversReuse, Compensation
  <2>4. CASE UNCHANGED vars
    BY <2>4 DEF vars, CompensationCoversReuse, Compensation
  <2> QED
    BY <2>1, <2>2, <2>3, <2>4 DEF Next
<1> QED
  BY <1>1, <1>2, TypeCorrect, PTL DEF Spec

-----------------------------------------------------------------------------
(* Occupancy.                                                              *)

\* remove_oldest() makes room for one.
LEMMA RemoveOldestOccupancy ==
  ASSUME NEW n \in Nat, NEW p, PoolAt(p, n), DOMAIN p # {}
  PROVE  Occupancy(RemoveOldest(p)) = Occupancy(p) - 1
<1>1. DOMAIN RemoveOldest(p) = DOMAIN p \ {Oldest(p)} /\ Oldest(p) \in DOMAIN p
  BY OldestExists, RemoveOldestPool
<1>2. IsFiniteSet(DOMAIN p)
  BY FinitePool
<1> QED
  BY <1>1, <1>2, FS_RemoveElement DEF Occupancy

\* insert() never exceeds the limit.  At capacity 0 the eviction it asks for
\* may find nothing to evict, and the pushed probe stays.
LEMMA InsertOccupancy ==
  ASSUME NEW n \in Nat, NEW p, PoolAt(p, n), NEW probe \in Probe, Occupancy(p) <= Limit
  PROVE  Occupancy(Insert(p, n + 1, probe)) <= Limit
<1> DEFINE kept == IF Occupancy(p) >= Capacity THEN RemoveOldest(p) ELSE p
<1>1. PoolAt(kept, n) /\ Limit \in Nat /\ Occupancy(p) \in Nat
  BY RemoveOldestPool, FinitePool, CapacityAssumption DEF Limit
<1>2. Occupancy(kept) + 1 <= Limit
  <2>1. CASE Occupancy(p) < Capacity
    BY <2>1, <1>1, CapacityAssumption DEF Limit
  <2>2. CASE Occupancy(p) >= Capacity /\ DOMAIN p # {}
    BY <2>2, <1>1, RemoveOldestOccupancy
  <2>3. CASE Occupancy(p) >= Capacity /\ DOMAIN p = {}
    <3>1. Occupancy(p) = 0 /\ kept = p
      BY <2>3, FS_EmptySet DEF Occupancy, RemoveOldest
    <3> QED
      BY <3>1, <2>3, CapacityAssumption DEF Limit
  <2>4. Occupancy(p) < Capacity \/ Occupancy(p) >= Capacity
    BY <1>1, CapacityAssumption
  <2> QED
    BY <2>1, <2>2, <2>3, <2>4, Zenon
<1>3. DOMAIN Insert(p, n + 1, probe) = DOMAIN kept \cup {n + 1}
  BY DEF Insert
<1> HIDE DEF kept
<1>4. IsFiniteSet(DOMAIN kept) /\ n + 1 \notin DOMAIN kept
  BY <1>1, FinitePool DEF PoolAt
<1> QED
  BY <1>2, <1>3, <1>4, FS_AddElement DEF Occupancy

\* The pool never outgrows its limit: an insertion makes room first, and a
\* selection adds nothing.
THEOREM PoolStaysBounded == Spec => []PoolBounded
<1>1. Init => PoolBounded
  <2> SUFFICES ASSUME Init
               PROVE  PoolBounded
    OBVIOUS
  <2>1. DOMAIN pool = {}
    BY DEF Init, EmptyPool
  <2> QED
    BY <2>1, FS_EmptySet, CapacityAssumption DEF PoolBounded, Limit, Occupancy
<1>2. TypeOK /\ PoolBounded /\ [Next]_vars => PoolBounded'
  <2> SUFFICES ASSUME TypeOK, PoolBounded, [Next]_vars
               PROVE  PoolBounded'
    OBVIOUS
  <2>0. PoolAt(pool, now) /\ now \in Nat
    BY DEF TypeOK, PoolAt
  <2>1. ASSUME NEW r \in Replica, NEW rif \in RifReading, NEW l \in LatencyReading,
               Store(r, rif, l)
        PROVE  PoolBounded'
    <3> DEFINE probe == [replica |-> r, rif |-> rif, rif_at_probe |-> rif,
                         latency_us |-> l, uses |-> 0]
    <3>1. probe \in Probe
      BY ReadingAssumption DEF Probe
    <3>2. pool' = Insert(pool, now + 1, probe)
      BY <2>1 DEF Store
    <3> HIDE DEF probe
    <3> QED
      BY <2>0, <3>1, <3>2, InsertOccupancy DEF PoolBounded
  <2>2. ASSUME NEW w \in DOMAIN pool \cup {NoProbe}, Select(w)
        PROVE  PoolBounded'
    <3>1. DOMAIN pool' \subseteq DOMAIN pool
      BY <2>2, SelectEffect
    <3>2. Cardinality(DOMAIN pool') <= Cardinality(DOMAIN pool)
      BY <2>0, <3>1, FinitePool, FS_Subset
    <3>3. Cardinality(DOMAIN pool') \in Nat /\ Cardinality(DOMAIN pool) \in Nat
      BY <2>0, <3>1, FinitePool, FS_Subset, FS_CardinalityType
    <3> QED
      BY <3>2, <3>3, CapacityAssumption DEF PoolBounded, Occupancy, Limit
  <2>3. CASE Pass
    BY <2>3 DEF Pass, PoolBounded, Occupancy
  <2>4. CASE UNCHANGED vars
    BY <2>4 DEF vars, PoolBounded, Occupancy
  <2> QED
    BY <2>1, <2>2, <2>3, <2>4 DEF Next
<1> QED
  BY <1>1, <1>2, TypeCorrect, PTL DEF Spec

-----------------------------------------------------------------------------
(* Hot and cold.                                                           *)

\* The index of the quantile stays within a list of k + 1 entries, and short
\* of the last one if q_rif < 1.
LEMMA QuantileInRange ==
  ASSUME NEW k \in Nat
  PROVE  /\ QuantileIndex(k + 1) \in 0 .. k
         /\ QNum < QDen /\ k > 0 => QuantileIndex(k + 1) < k
<1>1. QuantileIndex(k + 1) = (QNum * k) \div QDen
  BY DEF QuantileIndex
<1>2. QNum * k \in Nat /\ QNum * k <= QDen * k
  BY QuantileAssumption
<1>3. QNum < QDen /\ k > 0 => QNum * k < QDen * k
  BY QuantileAssumption
<1> DEFINE a == QNum * k
           d == QDen
<1>4. a \in Nat /\ d \in Nat \ {0} /\ a <= d * k /\ (QNum < QDen /\ k > 0 => a < d * k)
  BY <1>2, <1>3, QuantileAssumption
<1> HIDE DEF a, d
<1>5. a \div d \in Nat /\ d * (a \div d) <= a
  BY <1>4
<1>6. a \div d <= k /\ (a < d * k => a \div d < k)
  <2> DEFINE x == a \div d
  <2>1. x \in Nat /\ d * x <= a
    BY <1>5
  <2> HIDE DEF x
  <2>2. x > k => d * x > d * k
    BY <1>4, <2>1
  <2>3. x >= k => d * x >= d * k
    BY <1>4, <2>1
  <2> QED
    BY <1>4, <2>1, <2>2, <2>3 DEF x
<1> QED
  BY <1>1, <1>4, <1>5, <1>6 DEF a, d

\* The replicas of a pool have latest probes.
LEMMA LatestPool ==
  ASSUME NEW n \in Nat, NEW p, PoolAt(p, n), DOMAIN p # {}
  PROVE  /\ Latest(p) \in SUBSET DOMAIN p
         /\ IsFiniteSet(Latest(p))
         /\ Cardinality(Latest(p)) \in Nat \ {0}
         /\ \A t \in Latest(p) : Rif(p)[t] = p[t].rif /\ Rif(p)[t] \in Nat
<1> DEFINE f == [t \in DOMAIN p |-> t]
<1>1. IsFiniteSet(DOMAIN p) /\ \A t \in DOMAIN p : f[t] \in Nat
  BY FinitePool DEF PoolAt
<1>2. PICK m \in DOMAIN p : \A t \in DOMAIN p : f[t] <= f[m]
  <2> HIDE DEF f
  <2> QED
    BY <1>1, LargestEntry
<1>3. m \in Latest(p)
  BY <1>2 DEF Latest
<1>4. Latest(p) \in SUBSET DOMAIN p
  BY DEF Latest
<1>5. IsFiniteSet(Latest(p)) /\ Cardinality(Latest(p)) \in Nat \ {0}
  BY <1>1, <1>3, <1>4, FS_Subset, FS_CardinalityType, FS_EmptySet
<1>6. \A t \in DOMAIN p : Rif(p)[t] = p[t].rif /\ p[t].rif \in Nat
  BY DEF Rif, PoolAt, Probe
<1> QED
  BY <1>4, <1>5, <1>6

\* Every pool that is not empty has a cold probe, at either end of q_rif.
LEMMA ColdExists ==
  ASSUME NEW n \in Nat, NEW p, PoolAt(p, n), DOMAIN p # {}
  PROVE  Cold(p) # {}
<1> DEFINE S == Latest(p)
           k == Cardinality(S)
<1>1. /\ S \in SUBSET DOMAIN p
      /\ IsFiniteSet(S)
      /\ k \in Nat \ {0}
      /\ \A t \in S : Rif(p)[t] = p[t].rif /\ Rif(p)[t] \in Nat
  BY LatestPool
<1>2. QuantileIndex(k) \in Nat /\ QuantileIndex(k) < k
  <2>1. k - 1 \in Nat /\ k = (k - 1) + 1
    BY <1>1
  <2>2. QuantileIndex((k - 1) + 1) \in 0 .. (k - 1)
    BY <2>1, QuantileInRange
  <2> QED
    BY <1>1, <2>1, <2>2
<1>3. HotThreshold(p) = Sorted(S, Rif(p), QuantileIndex(k))
  BY DEF HotThreshold
<1> HIDE DEF S
<1>4. PICK i \in S : Rif(p)[i] = HotThreshold(p)
  BY <1>1, <1>2, <1>3, SortedEntry
<1>5. i \in DOMAIN p /\ p[i].rif = HotThreshold(p) /\ p[i].rif \in Nat
  BY <1>1, <1>4
<1> QED
  BY <1>5 DEF Cold

\* Whatever expire() leaves of the pool, if anything, holds a cold probe: the
\* branch of hcl_select for an all-hot pool never runs.
THEOREM SomeProbeIsCold == Spec => []NeverAllHot
<1>1. TypeOK => NeverAllHot
  <2> SUFFICES ASSUME TypeOK, NEW S \in SUBSET DOMAIN pool, S # {}
               PROVE  Cold(Restrict(pool, S)) # {}
    BY DEF NeverAllHot
  <2>1. now \in Nat /\ PoolAt(pool, now)
    BY DEF TypeOK, PoolAt
  <2>2. PoolAt(Restrict(pool, S), now) /\ DOMAIN Restrict(pool, S) = S
    BY <2>1, RestrictPool
  <2> QED
    BY <2>1, <2>2, ColdExists
<1> QED
  BY <1>1, TypeCorrect, PTL

\* Below q_rif = 1, the one replica that reports the most load is hot, with
\* any number of copies in the pool.  The threshold is at most the largest
\* RIF among the latest probes of the other replicas.
THEOREM OverloadShows == Spec => []OverloadedReplicaIsHot
<1>1. TypeOK => OverloadedReplicaIsHot
  <2> SUFFICES ASSUME TypeOK, QNum < QDen, NEW t \in Latest(pool),
                      Cardinality(Latest(pool)) > 1,
                      \A u \in Latest(pool) \ {t} : pool[u].rif < pool[t].rif
               PROVE  t \in Hot(pool)
    BY DEF OverloadedReplicaIsHot
  <2> DEFINE S == Latest(pool)
             k == Cardinality(S)
             f == Rif(pool)
             others == S \ {t}
  <2>1. now \in Nat /\ PoolAt(pool, now) /\ DOMAIN pool # {}
    BY DEF TypeOK, PoolAt, Latest
  <2>2. /\ S \in SUBSET DOMAIN pool
        /\ IsFiniteSet(S)
        /\ k \in Nat \ {0}
        /\ \A u \in S : f[u] = pool[u].rif /\ f[u] \in Nat
    BY <2>1, LatestPool
  <2>3. HotThreshold(pool) = Sorted(S, f, QuantileIndex(k))
    BY DEF HotThreshold
  <2>4. t \in S /\ k > 1 /\ \A u \in others : f[u] < f[t]
    BY <2>2
  <2>5. QuantileIndex(k) \in Nat /\ QuantileIndex(k) < k - 1
    <3>1. k - 1 \in Nat /\ k - 1 > 0 /\ k = (k - 1) + 1
      BY <2>2, <2>4
    <3>2. QuantileIndex((k - 1) + 1) \in 0 .. (k - 1) /\ QuantileIndex((k - 1) + 1) < k - 1
      BY <3>1, QuantileInRange
    <3> QED
      BY <3>1, <3>2
  <2> HIDE DEF S, f
  <2>6. IsFiniteSet(others) /\ Cardinality(others) = k - 1
    BY <2>2, <2>4, FS_RemoveElement
  <2>7. others # {}
    BY <2>2, <2>4, <2>6, FS_EmptySet
  <2>8. PICK m \in others : \A u \in others : f[u] <= f[m]
    BY <2>2, <2>6, <2>7, LargestEntry
  <2>9. AtMost(S, f, f[m]) = others
    BY <2>2, <2>4, <2>8 DEF AtMost
  <2>10. HotThreshold(pool) <= f[m]
    <3>1. Cardinality(AtMost(S, f, f[m])) > QuantileIndex(k)
      BY <2>2, <2>5, <2>6, <2>9
    <3>2. QuantileIndex(k) < k /\ m \in S
      BY <2>2, <2>5
    <3> QED
      BY <2>2, <2>3, <2>5, <3>1, <3>2, SortedEntry
  <2>11. HotThreshold(pool) \in Nat
    <3>1. QuantileIndex(k) < k
      BY <2>2, <2>5
    <3> QED
      BY <2>2, <2>3, <2>5, <3>1, SortedEntry
  <2>12. ~(pool[t].rif <= HotThreshold(pool)) /\ t \in DOMAIN pool
    BY <2>2, <2>4, <2>8, <2>10, <2>11
  <2> QED
    BY <2>12 DEF Hot, Cold
<1> QED
  BY <1>1, TypeCorrect, PTL

-----------------------------------------------------------------------------
(* How long a probe stays (remove_one in pool.rs): the history variable.   *)

\* The audited pool behaves as the pool does.
THEOREM AuditIsThePool == AuditSpec => Spec
<1>1. AuditInit => Init
  BY DEF AuditInit
<1>2. [AuditNext]_auditVars => [Next]_vars
  BY DEF AuditNext, AuditStore, AuditSelect, AuditPass, auditVars, Next
<1> QED
  BY <1>1, <1>2, PTL DEF AuditSpec, Spec

\* The history has an entry for every pooled probe.
SurvivedTyped == survived \in [DOMAIN pool -> Nat]

\* Type correctness of the pool with its history.
THEOREM AuditTypeCorrect == AuditSpec => []AuditTypeOK
<1>1. AuditInit => SurvivedTyped
  <2>1. EmptyPool \in [DOMAIN EmptyPool -> Nat]
    BY DEF EmptyPool
  <2> QED
    BY <2>1 DEF AuditInit, Init, SurvivedTyped
<1>2. TypeOK /\ SurvivedTyped /\ [AuditNext]_auditVars => SurvivedTyped'
  <2> SUFFICES ASSUME TypeOK, SurvivedTyped, [AuditNext]_auditVars
               PROVE  SurvivedTyped'
    OBVIOUS
  <2>1. ASSUME NEW r \in Replica, NEW rif \in RifReading, NEW l \in LatencyReading,
               AuditStore(r, rif, l)
        PROVE  SurvivedTyped'
    BY <2>1 DEF AuditStore, SurvivedTyped
  <2>2. ASSUME NEW w \in DOMAIN pool \cup {NoProbe}, AuditSelect(w)
        PROVE  SurvivedTyped'
    <3>1. DOMAIN pool' \subseteq DOMAIN pool
      BY <2>2, SelectEffect DEF AuditSelect
    <3> QED
      BY <2>2, <3>1 DEF AuditSelect, SurvivedTyped
  <2>3. CASE AuditPass
    BY <2>3 DEF AuditPass, Pass, SurvivedTyped
  <2>4. CASE UNCHANGED auditVars
    BY <2>4 DEF auditVars, vars, SurvivedTyped
  <2> QED
    BY <2>1, <2>2, <2>3, <2>4 DEF AuditNext
<1>3. AuditTypeOK <=> TypeOK /\ SurvivedTyped
  BY DEF AuditTypeOK, SurvivedTyped
<1> QED
  BY <1>1, <1>2, <1>3, AuditIsThePool, TypeCorrect, PTL DEF AuditSpec

-----------------------------------------------------------------------------
(* The removal.                                                            *)

\* A selection that leaves a probe removed another one, the oldest of what
\* expire() kept whenever the alternation has turned to the oldest.
LEMMA RemovalTakesOne ==
  ASSUME TypeOK, NEW w, Select(w), DOMAIN pool' # {}
  PROVE  /\ removeOldestNext' = ~removeOldestNext
         /\ \E v \in DOMAIN pool :
              /\ v \notin DOMAIN pool'
              /\ removeOldestNext' => \A u \in DOMAIN pool' : v < u
<1> DEFINE live == Expire(pool, now)
           q == IF w = NoProbe THEN live ELSE Compensate(live, w)
<1>1. PoolAt(pool, now) /\ now \in Nat /\ removeOldestNext \in BOOLEAN
  BY DEF TypeOK, PoolAt
<1>2. PoolAt(live, now) /\ DOMAIN live \subseteq DOMAIN pool
  BY <1>1, ExpirePool
<1>3. RemoveOne(q)
  BY DEF Select
<1>4. w = NoProbe \/ w \in DOMAIN live
  BY WinnerIsPooled DEF Select
<1> HIDE DEF live
<1>5. PoolAt(q, now) /\ DOMAIN q = DOMAIN live
  BY <1>1, <1>2, <1>4, CompensatePool
<1> HIDE DEF q
<1>6. DOMAIN q # {}
  BY <1>3 DEF RemoveOne
<1>7. /\ removeOldestNext' = ~removeOldestNext
      /\ \E v \in IF removeOldestNext' THEN {Oldest(q)} ELSE Worst(q) :
           pool' = Without(q, v)
  BY <1>3, <1>6, Zenon DEF RemoveOne
<1>8. PICK v \in IF removeOldestNext' THEN {Oldest(q)} ELSE Worst(q) :
        pool' = Without(q, v)
  BY <1>7
<1>9. Oldest(q) \in DOMAIN q /\ \A u \in DOMAIN q : Oldest(q) <= u
  BY <1>1, <1>5, <1>6, OldestExists
<1>10. v \in DOMAIN q /\ (removeOldestNext' => v = Oldest(q))
  BY <1>8, <1>9, Zenon DEF Worst
<1>11. DOMAIN pool' = DOMAIN q \ {v}
  BY <1>1, <1>5, <1>8, RestrictPool DEF Without
<1>12. ASSUME removeOldestNext', NEW u \in DOMAIN pool'
       PROVE  v < u
  <2>1. u \in Nat /\ v \in Nat /\ v <= u /\ v # u
    BY <1>5, <1>9, <1>10, <1>11, <1>12 DEF PoolAt
  <2> QED
    BY <2>1
<1>13. v \in DOMAIN pool /\ v \notin DOMAIN pool'
  BY <1>2, <1>5, <1>10, <1>11
<1> QED
  BY <1>7, <1>12, <1>13

-----------------------------------------------------------------------------
(* How long a probe can stay.                                              *)

\* The pooled probes that are older than t, and their number.
OlderIn(S, t) == {u \in S : u < t}
Older(t) == Cardinality(OlderIn(DOMAIN pool, t))

\* One selection's grace: the next removal takes the worst probe, which may
\* not be an older one, unless the pool is full up to t.
Grace(t) == IF removeOldestNext /\ Older(t) < Limit - 1 THEN 1 ELSE 0

\* The strengthening of RetentionBounded that the steps preserve: every
\* older probe is still good for two selections, those that it takes for the
\* alternation to turn to the oldest again.
RetentionInv ==
  \A t \in DOMAIN pool : survived[t] + 2 * Older(t) + Grace(t) <= 2 * (Limit - 1)

\* The number of older probes is a natural number that shrinks with the set.
LEMMA OlderShrinks ==
  ASSUME NEW S, IsFiniteSet(S), NEW R \in SUBSET S, NEW t
  PROVE  /\ Cardinality(OlderIn(S, t)) \in Nat
         /\ Cardinality(OlderIn(R, t)) \in Nat
         /\ Cardinality(OlderIn(R, t)) <= Cardinality(OlderIn(S, t))
         /\ \A v \in OlderIn(S, t) : v \notin R =>
              Cardinality(OlderIn(R, t)) <= Cardinality(OlderIn(S, t)) - 1
<1> DEFINE A == OlderIn(S, t)
           B == OlderIn(R, t)
<1>1. A \in SUBSET S /\ B \in SUBSET A
  BY DEF OlderIn
<1>2. ASSUME NEW v \in A, v \notin R
      PROVE  v \notin B
  BY <1>2 DEF OlderIn
<1> HIDE DEF A, B
<1>3. IsFiniteSet(A) /\ IsFiniteSet(B)
  BY <1>1, FS_Subset
<1>4. Cardinality(A) \in Nat /\ Cardinality(B) \in Nat /\ Cardinality(B) <= Cardinality(A)
  BY <1>1, <1>3, FS_Subset, FS_CardinalityType
<1>5. ASSUME NEW v \in A, v \notin R
      PROVE  Cardinality(B) <= Cardinality(A) - 1
  <2>1. B # A
    BY <1>2, <1>5
  <2>2. Cardinality(B) # Cardinality(A)
    BY <1>1, <1>3, <2>1, FS_Subset
  <2> QED
    BY <1>4, <2>2
<1> QED
  BY <1>4, <1>5 DEF A, B

\* No probe has as many older ones as the pool may hold.
LEMMA OlderIsFew ==
  ASSUME NEW S, IsFiniteSet(S), Cardinality(S) <= Limit, NEW t \in S, t \in Nat
  PROVE  Cardinality(OlderIn(S, t)) <= Limit - 1
<1>1. OlderIn(S, t) \in SUBSET (S \ {t})
  BY DEF OlderIn
<1>2. IsFiniteSet(S \ {t}) /\ Cardinality(S \ {t}) = Cardinality(S) - 1
  BY FS_RemoveElement
<1>3. Cardinality(OlderIn(S, t)) <= Cardinality(S \ {t})
  BY <1>1, <1>2, FS_Subset
<1>4. /\ Cardinality(OlderIn(S, t)) \in Nat
      /\ Cardinality(S) \in Nat
      /\ Limit \in Nat
  BY <1>1, <1>2, FS_Subset, FS_CardinalityType, CapacityAssumption DEF Limit
<1> QED
  BY <1>2, <1>3, <1>4

\* The retention bound.  It needs neither the TTL nor the reuse budget, only
\* the alternation in remove_one and the bound on the pool.
THEOREM RetentionIsBounded == AuditSpec => []RetentionBounded
<1>1. AuditInit => RetentionInv
  BY DEF AuditInit, Init, RetentionInv, EmptyPool
<1>2. AuditTypeOK /\ PoolBounded /\ PoolBounded' /\ RetentionInv /\ [AuditNext]_auditVars
        => RetentionInv'
  <2> SUFFICES ASSUME AuditTypeOK, PoolBounded, PoolBounded', RetentionInv,
                      [AuditNext]_auditVars
               PROVE  RetentionInv'
    OBVIOUS
  <2> DEFINE older(t) == OlderIn(DOMAIN pool, t)
             older2(t) == OlderIn(DOMAIN pool', t)
  <2>1. /\ TypeOK
        /\ now \in Nat
        /\ PoolAt(pool, now)
        /\ IsFiniteSet(DOMAIN pool)
        /\ Limit \in Nat \ {0}
        /\ \A t \in DOMAIN pool : t \in Nat /\ survived[t] \in Nat
    <3>1. TypeOK /\ now \in Nat /\ PoolAt(pool, now)
      BY DEF AuditTypeOK, TypeOK, PoolAt
    <3>2. Limit \in Nat \ {0}
      BY CapacityAssumption DEF Limit
    <3> QED
      BY <3>1, <3>2, FinitePool DEF AuditTypeOK, TypeOK
  <2>2. \A t \in DOMAIN pool :
          /\ Cardinality(older(t)) \in Nat
          /\ Cardinality(older(t)) <= Limit - 1
          /\ survived[t] + 2 * Cardinality(older(t))
               + (IF removeOldestNext /\ Cardinality(older(t)) < Limit - 1 THEN 1 ELSE 0)
             <= 2 * (Limit - 1)
    <3>1. Cardinality(DOMAIN pool) <= Limit
      BY DEF PoolBounded, Occupancy
    <3> QED
      BY <2>1, <3>1, OlderShrinks, OlderIsFew DEF RetentionInv, Older, Grace
  <2>3. SUFFICES ASSUME NEW t \in DOMAIN pool'
                 PROVE  survived'[t] + 2 * Cardinality(older2(t))
                          + (IF removeOldestNext' /\ Cardinality(older2(t)) < Limit - 1
                             THEN 1 ELSE 0)
                        <= 2 * (Limit - 1)
    BY DEF RetentionInv, Older, Grace
  <2> HIDE DEF older, older2
  <2>4. ASSUME NEW r \in Replica, NEW rif \in RifReading, NEW l \in LatencyReading,
               AuditStore(r, rif, l)
        PROVE  survived'[t] + 2 * Cardinality(older2(t))
                 + (IF removeOldestNext' /\ Cardinality(older2(t)) < Limit - 1
                    THEN 1 ELSE 0)
               <= 2 * (Limit - 1)
    <3>1. /\ TypeOK'
          /\ now' = now + 1
          /\ \A u \in DOMAIN pool' \ {now'} : u \in DOMAIN pool
      BY <2>1, <2>4, StoreEffect DEF AuditStore
    <3>2. /\ survived'[t] = IF t \in DOMAIN pool THEN survived[t] ELSE 0
          /\ removeOldestNext' = removeOldestNext
      BY <2>4 DEF AuditStore, Store
    <3>3. /\ IsFiniteSet(DOMAIN pool')
          /\ Cardinality(DOMAIN pool') <= Limit
          /\ t \in Nat
      BY <2>1, <3>1, FinitePool DEF PoolBounded, Occupancy, TypeOK, PoolAt
    <3>4. Cardinality(older2(t)) \in Nat /\ Cardinality(older2(t)) <= Limit - 1
      BY <3>3, OlderShrinks, OlderIsFew DEF older2
    <3>5. CASE t \notin DOMAIN pool
      BY <2>1, <3>2, <3>4, <3>5
    <3>6. CASE t \in DOMAIN pool
      <4>1. Cardinality(older2(t)) <= Cardinality(older(t))
        <5>1. older2(t) = OlderIn(DOMAIN pool' \ {now'}, t)
          BY <2>1, <3>1, <3>6 DEF older2, OlderIn, PoolAt
        <5>2. DOMAIN pool' \ {now'} \in SUBSET DOMAIN pool
          BY <3>1
        <5> QED
          BY <2>1, <5>1, <5>2, OlderShrinks DEF older
      <4>2. survived'[t] = survived[t] /\ survived[t] \in Nat
        BY <2>1, <3>2, <3>6
      <4> DEFINE o == Cardinality(older(t))
                 o2 == Cardinality(older2(t))
      <4>3. /\ o \in Nat
            /\ o <= Limit - 1
            /\ survived[t] + 2 * o
                 + (IF removeOldestNext /\ o < Limit - 1 THEN 1 ELSE 0)
               <= 2 * (Limit - 1)
        BY <2>2, <3>6
      <4>4. o2 \in Nat /\ o2 <= o /\ Limit \in Nat
        BY <2>1, <3>4, <4>1
      <4> HIDE DEF o, o2
      <4>5. survived[t] + 2 * o2 + (IF removeOldestNext /\ o2 < Limit - 1 THEN 1 ELSE 0)
              <= 2 * (Limit - 1)
        BY <4>2, <4>3, <4>4
      <4> QED
        BY <3>2, <4>2, <4>5 DEF o2
    <3> QED
      BY <3>5, <3>6
  <2>5. ASSUME NEW w \in DOMAIN pool \cup {NoProbe}, AuditSelect(w)
        PROVE  survived'[t] + 2 * Cardinality(older2(t))
                 + (IF removeOldestNext' /\ Cardinality(older2(t)) < Limit - 1
                    THEN 1 ELSE 0)
               <= 2 * (Limit - 1)
    <3>1. Select(w) /\ survived'[t] = survived[t] + 1
      BY <2>5 DEF AuditSelect
    <3>2. TypeOK' /\ DOMAIN pool' \in SUBSET DOMAIN pool
      BY <2>1, <3>1, SelectEffect
    <3>3. removeOldestNext' = ~removeOldestNext
      BY <2>1, <2>3, <3>1, RemovalTakesOne
    <3>4. PICK v \in DOMAIN pool : /\ v \notin DOMAIN pool'
                                   /\ removeOldestNext' => \A u \in DOMAIN pool' : v < u
      BY <2>1, <2>3, <3>1, RemovalTakesOne
    <3> DEFINE o == Cardinality(older(t))
               o2 == Cardinality(older2(t))
    <3>5. /\ o \in Nat
          /\ o <= Limit - 1
          /\ survived[t] \in Nat
          /\ survived[t] + 2 * o
               + (IF removeOldestNext /\ o < Limit - 1 THEN 1 ELSE 0)
             <= 2 * (Limit - 1)
      BY <2>1, <2>2, <3>2
    <3>6. o2 \in Nat /\ o2 <= o /\ (v \in older(t) => o2 <= o - 1)
      BY <2>1, <3>2, <3>4, OlderShrinks DEF older, older2
    <3>7. Limit \in Nat
      BY <2>1
    <3>8. CASE removeOldestNext'
      <4>1. v \in older(t) /\ ~removeOldestNext
        BY <3>3, <3>4, <3>8 DEF older, OlderIn
      <4>2. o2 <= o - 1
        BY <3>6, <4>1
      <4> HIDE DEF o, o2
      <4> QED
        BY <3>1, <3>5, <3>6, <3>7, <3>8, <4>1, <4>2 DEF o2
    <3>9. CASE ~removeOldestNext'
      <4>1. removeOldestNext
        BY <3>3, <3>9
      <4>2. o = Limit - 1 => o2 <= o - 1
        <5> SUFFICES ASSUME o = Limit - 1
                     PROVE  v \in older(t)
          BY <3>6
        <5>1. CASE v < t
          BY <5>1 DEF older, OlderIn
        <5>2. CASE v > t
          <6>1. OlderIn(DOMAIN pool \ {v}, t) = older(t)
            BY <2>1, <5>2, <3>2 DEF older, OlderIn
          <6>2. /\ IsFiniteSet(DOMAIN pool \ {v})
                /\ Cardinality(DOMAIN pool \ {v}) = Cardinality(DOMAIN pool) - 1
            BY <2>1, FS_RemoveElement
          <6>3. o <= Cardinality(DOMAIN pool \ {v}) - 1
            <7>1. older(t) \in SUBSET ((DOMAIN pool \ {v}) \ {t})
              <8>1. \A u \in older(t) : u \in DOMAIN pool \ {v} /\ u < t
                BY <6>1 DEF OlderIn, older
              <8>2. \A u \in DOMAIN pool : u \in Nat /\ t \in Nat
                BY <2>1, <3>2
              <8> HIDE DEF o
              <8> QED
                BY <8>1, <8>2
            <7>2. t \in DOMAIN pool \ {v}
              BY <3>2, <3>4
            <7>3. /\ IsFiniteSet((DOMAIN pool \ {v}) \ {t})
                  /\ Cardinality((DOMAIN pool \ {v}) \ {t})
                       = Cardinality(DOMAIN pool \ {v}) - 1
              BY <6>2, <7>2, FS_RemoveElement
            <7> QED
              BY <7>1, <7>3, FS_Subset
          <6>4. Cardinality(DOMAIN pool) <= Limit /\ Cardinality(DOMAIN pool) \in Nat
            BY <2>1, FS_CardinalityType DEF PoolBounded, Occupancy
          <6> HIDE DEF o
          <6> QED
            BY <3>5, <3>7, <6>2, <6>3, <6>4
        <5>3. v # t /\ v \in Nat /\ t \in Nat
          BY <2>1, <3>2, <3>4
        <5> QED
          BY <5>1, <5>2, <5>3
      <4> HIDE DEF o, o2
      <4> QED
        BY <3>1, <3>5, <3>6, <3>7, <3>9, <4>1, <4>2 DEF o2
    <3> QED
      BY <3>8, <3>9
  <2>6. CASE AuditPass
    <3>1. UNCHANGED <<pool, removeOldestNext, survived>>
      BY <2>6 DEF AuditPass, Pass
    <3> QED
      BY <2>2, <3>1 DEF older, older2
  <2>7. CASE UNCHANGED auditVars
    <3>1. UNCHANGED <<pool, removeOldestNext, survived>>
      BY <2>7 DEF auditVars, vars
    <3> QED
      BY <2>2, <3>1 DEF older, older2
  <2> QED
    BY <2>4, <2>5, <2>6, <2>7 DEF AuditNext
<1>3. AuditTypeOK /\ RetentionInv => RetentionBounded
  <2> SUFFICES ASSUME AuditTypeOK, RetentionInv, NEW t \in DOMAIN pool
               PROVE  survived[t] <= 2 * (Limit - 1)
    BY DEF RetentionBounded
  <2>1. now \in Nat /\ PoolAt(pool, now) /\ survived[t] \in Nat /\ Limit \in Nat
    BY CapacityAssumption DEF AuditTypeOK, TypeOK, PoolAt, Limit
  <2>2. Older(t) \in Nat
    BY <2>1, FinitePool, OlderShrinks DEF Older
  <2>3. survived[t] + 2 * Older(t) + Grace(t) <= 2 * (Limit - 1)
    BY DEF RetentionInv
  <2>4. Grace(t) \in {0, 1}
    BY DEF Grace
  <2> QED
    BY <2>1, <2>2, <2>3, <2>4
<1>4. AuditSpec => []PoolBounded
  BY AuditIsThePool, PoolStaysBounded, PTL
<1> QED
  BY <1>1, <1>2, <1>3, <1>4, AuditTypeCorrect, PTL DEF AuditSpec

-----------------------------------------------------------------------------
(* How far a pooled RIF can drift.                                         *)

\* A probe's RIF rises at most once per selection it survives.
DriftInv == \A t \in DOMAIN pool : Compensation(t) <= survived[t]

\* The drift bound, a consequence of the retention bound.
THEOREM DriftIsBounded == AuditSpec => []DriftBounded
<1>1. AuditInit => DriftInv
  BY DEF AuditInit, Init, DriftInv, EmptyPool
<1>2. AuditTypeOK /\ DriftInv /\ [AuditNext]_auditVars => DriftInv'
  <2> SUFFICES ASSUME AuditTypeOK, DriftInv, [AuditNext]_auditVars
               PROVE  DriftInv'
    OBVIOUS
  <2>1. /\ TypeOK
        /\ \A t \in DOMAIN pool : /\ pool[t].rif \in Nat
                                  /\ pool[t].rif_at_probe \in Nat
                                  /\ survived[t] \in Nat
    BY DEF AuditTypeOK, TypeOK, Probe
  <2>2. ASSUME NEW r \in Replica, NEW rif \in RifReading, NEW l \in LatencyReading,
               AuditStore(r, rif, l)
        PROVE  DriftInv'
    <3> SUFFICES ASSUME NEW t \in DOMAIN pool'
                 PROVE  pool'[t].rif - pool'[t].rif_at_probe <= survived'[t]
      BY DEF DriftInv, Compensation
    <3>1. /\ TypeOK'
          /\ now' = now + 1
          /\ pool'[now'].rif = pool'[now'].rif_at_probe
          /\ \A u \in DOMAIN pool' \ {now'} : u \in DOMAIN pool /\ pool'[u] = pool[u]
      BY <2>1, <2>2, StoreEffect DEF AuditStore
    <3>2. survived'[t] = IF t \in DOMAIN pool THEN survived[t] ELSE 0
      BY <2>2 DEF AuditStore
    <3>3. CASE t = now'
      <4>1. t \notin DOMAIN pool
        BY <2>1, <3>1, <3>3 DEF TypeOK
      <4>2. pool'[t].rif \in Nat /\ pool'[t].rif = pool'[t].rif_at_probe
        BY <3>1, <3>3 DEF TypeOK, Probe
      <4> QED
        BY <3>2, <4>1, <4>2
    <3>4. CASE t # now'
      BY <3>1, <3>2, <3>4 DEF DriftInv, Compensation
    <3> QED
      BY <3>3, <3>4
  <2>3. ASSUME NEW w \in DOMAIN pool \cup {NoProbe}, AuditSelect(w)
        PROVE  DriftInv'
    <3> SUFFICES ASSUME NEW t \in DOMAIN pool'
                 PROVE  pool'[t].rif - pool'[t].rif_at_probe <= survived'[t]
      BY DEF DriftInv, Compensation
    <3>1. t \in DOMAIN pool /\ Outcome(t, w) /\ survived'[t] = survived[t] + 1
      BY <2>1, <2>3, SelectEffect DEF AuditSelect
    <3>2. pool[t].rif - pool[t].rif_at_probe <= survived[t]
      BY <3>1 DEF DriftInv, Compensation
    <3> QED
      BY <2>1, <3>1, <3>2 DEF Outcome
  <2>4. CASE AuditPass
    BY <2>4 DEF AuditPass, Pass, DriftInv, Compensation
  <2>5. CASE UNCHANGED auditVars
    BY <2>5 DEF auditVars, vars, DriftInv, Compensation
  <2> QED
    BY <2>2, <2>3, <2>4, <2>5 DEF AuditNext
<1>3. AuditTypeOK /\ DriftInv /\ RetentionBounded => DriftBounded
  <2> SUFFICES ASSUME AuditTypeOK, DriftInv, RetentionBounded, NEW t \in DOMAIN pool
               PROVE  Compensation(t) <= 2 * (Limit - 1)
    BY DEF DriftBounded
  <2>1. /\ pool[t].rif \in Nat
        /\ pool[t].rif_at_probe \in Nat
        /\ survived[t] \in Nat
        /\ Limit \in Nat
    BY CapacityAssumption DEF AuditTypeOK, TypeOK, Probe, Limit
  <2>2. Compensation(t) <= survived[t] /\ survived[t] <= 2 * (Limit - 1)
    BY DEF DriftInv, RetentionBounded
  <2> QED
    BY <2>1, <2>2 DEF Compensation
<1> QED
  BY <1>1, <1>2, <1>3, AuditTypeCorrect, RetentionIsBounded, PTL DEF AuditSpec

-----------------------------------------------------------------------------
(* The Vec.                                                                *)

\* A Vec of probes stored no later than n, at instants of their own.
VecAt(v, n) ==
  /\ v \in Seq(Entry)
  /\ \A i \in Slots(v) : v[i].received_at \in 1 .. n
  /\ \A i, j \in Slots(v) : v[i].received_at = v[j].received_at => i = j

\* The instants of the probes in the slots of S.
InstantsIn(v, S) == {v[i].received_at : i \in S}

\* What an injection maps the members of a set to are as many.
LEMMA SameSize ==
  ASSUME NEW S, IsFiniteSet(S), NEW T, NEW h \in [S -> T],
         \A i, j \in S : h[i] = h[j] => i = j,
         \A t \in T : \E i \in S : t = h[i]
  PROVE  IsFiniteSet(T) /\ Cardinality(T) = Cardinality(S)
<1>1. h \in Injection(S, T)
  BY Zenon DEF Injection, IsInjective
<1>2. h \in Surjection(S, T)
  <2>1. \A t \in T : \E i \in S : h[i] = t
    OBVIOUS
  <2> QED
    BY <2>1, Zenon DEF Surjection
<1>3. h \in Bijection(S, T)
  BY <1>1, <1>2 DEF Bijection
<1> QED
  BY <1>3, FS_Bijection, Zenon DEF ExistsBijection

\* Renaming the members of a list changes none of its sorted entries.
LEMMA SortedImage ==
  ASSUME NEW S, IsFiniteSet(S), NEW T, NEW h \in [S -> T],
         \A i, j \in S : h[i] = h[j] => i = j,
         \A t \in T : \E i \in S : t = h[i],
         NEW f, NEW g, \A i \in S : f[i] = g[h[i]], NEW k
  PROVE  Sorted(S, f, k) = Sorted(T, g, k)
<1>1. ASSUME NEW A \in SUBSET S, NEW B \in SUBSET T, \A i \in S : i \in A <=> h[i] \in B
      PROVE  Cardinality(B) = Cardinality(A)
  <2> DEFINE hA == [i \in A |-> h[i]]
  <2>1. hA \in [A -> B]
    BY <1>1
  <2>2. \A i, j \in A : hA[i] = hA[j] => i = j
    OBVIOUS
  <2>3. \A t \in B : \E i \in A : t = hA[i]
    BY <1>1
  <2>4. IsFiniteSet(A)
    BY FS_Subset
  <2> HIDE DEF hA
  <2> QED
    BY <2>1, <2>2, <2>3, <2>4, SameSize
<1>2. {f[i] : i \in S} = {g[t] : t \in T}
  OBVIOUS
<1>3. \A x : Cardinality(AtMost(S, f, x)) = Cardinality(AtMost(T, g, x))
  <2> TAKE x
  <2>1. AtMost(S, f, x) \in SUBSET S /\ AtMost(T, g, x) \in SUBSET T
    BY DEF AtMost
  <2>2. \A i \in S : i \in AtMost(S, f, x) <=> h[i] \in AtMost(T, g, x)
    BY DEF AtMost
  <2> QED
    BY <1>1, <2>1, <2>2
<1>4. {x \in {f[i] : i \in S} : Cardinality(AtMost(S, f, x)) > k}
        = {x \in {g[t] : t \in T} : Cardinality(AtMost(T, g, x)) > k}
  BY <1>2, <1>3
<1> QED
  BY <1>4, Zenon DEF Sorted

\* A Vec has as many slots as its pool has probes, each at its instant.
LEMMA PoolOfVec ==
  ASSUME NEW n \in Nat, NEW v, VecAt(v, n)
  PROVE  /\ DOMAIN PoolOf(v) = InstantsIn(v, Slots(v))
         /\ \A i \in Slots(v) : PoolOf(v)[v[i].received_at] = Response(v[i])
         /\ IsFiniteSet(Slots(v)) /\ Cardinality(DOMAIN PoolOf(v)) = Len(v)
         /\ Len(v) \in Nat /\ \A i \in Slots(v) : v[i] \in Entry
<1>1. \A i \in Slots(v) : SlotAt(v, v[i].received_at) = i
  BY DEF VecAt, SlotAt
<1>2. DOMAIN PoolOf(v) = InstantsIn(v, Slots(v))
  BY DEF PoolOf, InstantsIn
<1>3. ASSUME NEW i \in Slots(v)
      PROVE  PoolOf(v)[v[i].received_at] = Response(v[i])
  BY <1>1 DEF PoolOf
<1>4. Len(v) \in Nat /\ \A i \in Slots(v) : v[i] \in Entry
  BY DEF VecAt, Slots
<1>5. IsFiniteSet(Slots(v)) /\ Cardinality(Slots(v)) = Len(v)
  <2>1. ASSUME NEW l \in Nat
        PROVE  IsFiniteSet(1 .. l) /\ Cardinality(1 .. l) = l
    BY FS_Interval
  <2> QED
    BY <1>4, <2>1 DEF Slots
<1>6. Cardinality(DOMAIN PoolOf(v)) = Len(v)
  <2> DEFINE h == [i \in Slots(v) |-> v[i].received_at]
  <2>1. /\ h \in [Slots(v) -> DOMAIN PoolOf(v)]
        /\ \A i, j \in Slots(v) : h[i] = h[j] => i = j
        /\ \A t \in DOMAIN PoolOf(v) : \E i \in Slots(v) : t = h[i]
    BY <1>2 DEF VecAt, InstantsIn
  <2> HIDE DEF h
  <2> QED
    BY <1>5, <2>1, SameSize
<1> QED
  BY <1>2, <1>3, <1>4, <1>5, <1>6

\* The function p has the probes of v at their instants.
Keeps(p, v) ==
  /\ p = [t \in DOMAIN p |-> p[t]]
  /\ DOMAIN p = InstantsIn(v, Slots(v))
  /\ \A i \in Slots(v) : p[v[i].received_at] = Response(v[i])

\* Then it is the pool that v stands for.
LEMMA PoolOfIs ==
  ASSUME NEW n \in Nat, NEW v, VecAt(v, n), NEW p, Keeps(p, v)
  PROVE  PoolOf(v) = p
<1>0. /\ p = [t \in DOMAIN p |-> p[t]]
      /\ DOMAIN p = InstantsIn(v, Slots(v))
      /\ \A i \in Slots(v) : p[v[i].received_at] = Response(v[i])
  BY DEF Keeps
<1>1. DOMAIN PoolOf(v) = DOMAIN p
  BY <1>0, PoolOfVec
<1>2. ASSUME NEW t \in DOMAIN p
      PROVE  PoolOf(v)[t] = p[t]
  <2>1. PICK i \in Slots(v) : t = v[i].received_at
    BY <1>0 DEF InstantsIn
  <2> QED
    BY <1>0, <2>1, PoolOfVec
<1>3. PoolOf(v) = [t \in DOMAIN PoolOf(v) |-> PoolOf(v)[t]]
  BY DEF PoolOf
<1> QED
  BY <1>0, <1>1, <1>2, <1>3

\* The first m places are taken by the members of S, one each.
Arranges(place, m, S) ==
  /\ m \in Nat
  /\ place \in [1 .. m -> S]
  /\ \A k, l \in 1 .. m : place[k] = place[l] => k = l
  /\ \A i \in S : \E k \in 1 .. m : place[k] = i

\* A Vec that holds the probes of some slots of v, in any order, stands for the
\* pool of the probes in those slots.
LEMMA SelectedSlots ==
  ASSUME NEW n \in Nat, NEW v, VecAt(v, n), NEW S \in SUBSET Slots(v),
         NEW m, NEW place, Arranges(place, m, S),
         NEW u, u = [k \in 1 .. m |-> v[place[k]]]
  PROVE  VecAt(u, n) /\ PoolOf(u) = Restrict(PoolOf(v), InstantsIn(v, S))
<1>0. /\ m \in Nat /\ place \in [1 .. m -> S]
      /\ \A k, l \in 1 .. m : place[k] = place[l] => k = l
      /\ \A i \in S : \E k \in 1 .. m : place[k] = i
  BY DEF Arranges
<1>1. \A k \in 1 .. m : u[k] = v[place[k]] /\ place[k] \in Slots(v)
  BY <1>0
<1>2. u \in Seq(Entry) /\ Len(u) = m
  <2>1. u \in [1 .. m -> Entry]
    BY <1>1, PoolOfVec
  <2> QED
    BY <1>0, <2>1
<1>3. VecAt(u, n)
  BY <1>0, <1>1, <1>2 DEF VecAt, Slots
<1>4. InstantsIn(u, Slots(u)) = InstantsIn(v, S)
  BY <1>0, <1>1, <1>2 DEF InstantsIn, Slots
<1> DEFINE p == Restrict(PoolOf(v), InstantsIn(v, S))
<1>5. DOMAIN p = InstantsIn(v, S) /\ \A t \in DOMAIN p : p[t] = PoolOf(v)[t]
  BY DEF Restrict
<1>6. p = [t \in DOMAIN p |-> p[t]]
  BY DEF Restrict
<1>7. ASSUME NEW k \in Slots(u)
      PROVE  p[u[k].received_at] = Response(u[k])
  <2>1. u[k] = v[place[k]] /\ place[k] \in S
    BY <1>0, <1>1, <1>2 DEF Slots
  <2>2. u[k].received_at \in InstantsIn(v, S)
    BY <2>1 DEF InstantsIn
  <2>3. PoolOf(v)[v[place[k]].received_at] = Response(v[place[k]])
    BY <2>1, PoolOfVec
  <2> HIDE DEF p
  <2> QED
    BY <1>5, <2>1, <2>2, <2>3
<1> HIDE DEF p
<1>8. Keeps(p, u)
  BY <1>4, <1>5, <1>6, <1>7 DEF Keeps
<1>9. PoolOf(u) = p
  BY <1>3, <1>8, PoolOfIs
<1> QED
  BY <1>3, <1>9 DEF p

\* swap_remove takes out one probe, whatever it does to the order.
LEMMA SwapRemoveVec ==
  ASSUME NEW n \in Nat, NEW v, VecAt(v, n), NEW i \in Slots(v)
  PROVE  /\ VecAt(SwapRemove(v, i), n)
         /\ PoolOf(SwapRemove(v, i)) =
              Restrict(PoolOf(v), DOMAIN PoolOf(v) \ {v[i].received_at})
<1> DEFINE m == Len(v) - 1
           S == Slots(v) \ {i}
           place == [k \in 1 .. m |-> IF k = i THEN Len(v) ELSE k]
<1>1. Len(v) \in Nat /\ i \in 1 .. Len(v) /\ m \in Nat /\ S = (1 .. Len(v)) \ {i}
  BY DEF VecAt, Slots
<1>2. place \in [1 .. m -> S]
  BY <1>1
<1>3. \A k, l \in 1 .. m : place[k] = place[l] => k = l
  BY <1>1
<1>4. \A j \in S : \E k \in 1 .. m : place[k] = j
  <2> SUFFICES ASSUME NEW j \in S PROVE \E k \in 1 .. m : place[k] = j
    OBVIOUS
  <2>1. CASE j = Len(v)
    BY <1>1, <2>1
  <2>2. CASE j # Len(v)
    BY <1>1, <2>2
  <2> QED
    BY <2>1, <2>2
<1>5. SwapRemove(v, i) = [k \in 1 .. m |-> v[place[k]]]
  BY DEF SwapRemove
<1>6. InstantsIn(v, S) = DOMAIN PoolOf(v) \ {v[i].received_at}
  <2>1. DOMAIN PoolOf(v) = InstantsIn(v, Slots(v))
    BY PoolOfVec
  <2>2. \A j \in Slots(v) : j # i => v[j].received_at # v[i].received_at
    BY DEF VecAt
  <2> QED
    BY <2>1, <2>2 DEF InstantsIn
<1>7. S \in SUBSET Slots(v)
  OBVIOUS
<1>8. m \in Nat
  BY <1>1
<1> HIDE DEF m, S, place
<1>9. /\ VecAt(SwapRemove(v, i), n)
      /\ PoolOf(SwapRemove(v, i)) = Restrict(PoolOf(v), InstantsIn(v, S))
  <2>1. Arranges(place, m, S)
    BY <1>2, <1>3, <1>4, <1>8 DEF Arranges
  <2> QED
    BY <1>5, <1>7, <2>1, SelectedSlots
<1> QED
  BY <1>6, <1>9

\* The slots of a finite set, taken in order, are its members, each once.
LEMMA NthSlots ==
  ASSUME NEW S \in SUBSET Nat, IsFiniteSet(S)
  PROVE  /\ Cardinality(S) \in Nat
         /\ \A k \in 1 .. Cardinality(S) :
              NthSlot(S, k) \in S /\ Cardinality({j \in S : j <= NthSlot(S, k)}) = k
         /\ \A i \in S : \E k \in 1 .. Cardinality(S) : NthSlot(S, k) = i
<1> DEFINE Below(i) == {j \in S : j <= i}
           rank == [i \in S |-> Cardinality(Below(i))]
           N == 1 .. Cardinality(S)
<1>1. \A A \in SUBSET S : IsFiniteSet(A) /\ Cardinality(A) \in Nat
                          /\ Cardinality(A) <= Cardinality(S)
  BY FS_Subset, FS_CardinalityType
<1>2. rank \in [S -> N]
  <2> SUFFICES ASSUME NEW i \in S PROVE Cardinality(Below(i)) \in N
    OBVIOUS
  <2>1. i \in Below(i) /\ Below(i) \in SUBSET S
    OBVIOUS
  <2>2. Cardinality(Below(i)) # 0
    BY <1>1, <2>1, FS_EmptySet
  <2> QED
    BY <1>1, <2>1, <2>2
<1>3. ASSUME NEW i \in S, NEW j \in S, i < j
      PROVE  rank[i] # rank[j]
  <2>0. ~(j <= i) /\ j <= j /\ \A l \in S : l <= i => l <= j
    BY <1>3
  <2>1. Below(i) \in SUBSET Below(j) /\ j \in Below(j) /\ j \notin Below(i)
    BY <2>0, Zenon
  <2>2. Below(j) \in SUBSET S
    OBVIOUS
  <2> QED
    BY <1>1, <2>1, <2>2, FS_Subset
<1>4. \A i, j \in S : rank[i] = rank[j] => i = j
  <2> SUFFICES ASSUME NEW i \in S, NEW j \in S, rank[i] = rank[j] PROVE i = j
    OBVIOUS
  <2>1. ~(i < j) /\ ~(j < i)
    <3> HIDE DEF rank
    <3> QED
      BY <1>3
  <2> QED
    BY <2>1
<1>5. Cardinality(S) \in Nat /\ IsFiniteSet(N) /\ Cardinality(N) = Cardinality(S)
  BY <1>1, FS_Interval
<1> HIDE DEF rank
<1>6. \A k \in N : \E i \in S : rank[i] = k
  <2>1. rank \in Injection(S, N)
    BY <1>2, <1>4, Zenon DEF Injection, IsInjective
  <2>2. rank \in Surjection(S, N)
    BY <1>5, <2>1, FS_Injection, Zenon
  <2> QED
    BY <2>2, Zenon DEF Surjection
<1>7. \A i \in S : rank[i] = Cardinality(Below(i))
  BY DEF rank
<1>8. \A k \in N : NthSlot(S, k) \in S /\ Cardinality(Below(NthSlot(S, k))) = k
  BY <1>6, <1>7 DEF NthSlot
<1>9. ASSUME NEW i \in S
      PROVE  rank[i] \in N /\ NthSlot(S, rank[i]) = i
  <2>1. rank[i] \in N
    BY <1>2
  <2>2. NthSlot(S, rank[i]) \in S /\ rank[NthSlot(S, rank[i])] = rank[i]
    BY <1>7, <1>8, <2>1
  <2> QED
    BY <1>4, <2>1, <2>2
<1> QED
  BY <1>5, <1>8, <1>9

\* retain() leaves the pool of the probes it keeps.
LEMMA RetainVec ==
  ASSUME NEW n \in Nat, NEW v, VecAt(v, n), NEW S \in SUBSET Slots(v)
  PROVE  /\ VecAt(Retain(v, S), n)
         /\ PoolOf(Retain(v, S)) = Restrict(PoolOf(v), InstantsIn(v, S))
<1> DEFINE m == Cardinality(S)
           place == [k \in 1 .. m |-> NthSlot(S, k)]
<1>1. IsFiniteSet(S) /\ S \in SUBSET Nat
  <2>1. IsFiniteSet(Slots(v))
    BY PoolOfVec
  <2>2. Slots(v) \in SUBSET Nat
    BY DEF Slots
  <2> QED
    BY <2>1, <2>2, FS_Subset
<1>2. m \in Nat /\ place \in [1 .. m -> S]
  BY <1>1, NthSlots
<1>3. \A k, l \in 1 .. m : place[k] = place[l] => k = l
  <2> SUFFICES ASSUME NEW k \in 1 .. m, NEW l \in 1 .. m, place[k] = place[l] PROVE k = l
    OBVIOUS
  <2>1. /\ Cardinality({j \in S : j <= NthSlot(S, k)}) = k
        /\ Cardinality({j \in S : j <= NthSlot(S, l)}) = l
    BY <1>1, NthSlots
  <2>2. NthSlot(S, k) = NthSlot(S, l)
    OBVIOUS
  <2> QED
    BY <2>1, <2>2
<1>4. \A i \in S : \E k \in 1 .. m : place[k] = i
  BY <1>1, NthSlots
<1>5. Retain(v, S) = [k \in 1 .. m |-> v[place[k]]]
  BY DEF Retain
<1> HIDE DEF m, place
<1>6. Arranges(place, m, S)
  BY <1>2, <1>3, <1>4 DEF Arranges
<1>7. S \in SUBSET Slots(v)
  OBVIOUS
<1> QED
  BY <1>5, <1>6, <1>7, SelectedSlots

\* push() adds a probe that is newer than all others.
LEMMA AppendVec ==
  ASSUME NEW n \in Nat, NEW v, VecAt(v, n), NEW e \in Entry, e.received_at = n + 1
  PROVE  /\ VecAt(Append(v, e), n + 1)
         /\ PoolOf(Append(v, e)) =
              [t \in DOMAIN PoolOf(v) \cup {n + 1} |->
                 IF t = n + 1 THEN Response(e) ELSE PoolOf(v)[t]]
<1> DEFINE u == Append(v, e)
           p == [t \in DOMAIN PoolOf(v) \cup {n + 1} |->
                   IF t = n + 1 THEN Response(e) ELSE PoolOf(v)[t]]
<1>1. /\ Len(v) \in Nat /\ v \in Seq(Entry)
      /\ \A i \in 1 .. Len(v) : v[i].received_at \in 1 .. n
      /\ \A i, j \in 1 .. Len(v) : v[i].received_at = v[j].received_at => i = j
  BY DEF VecAt, Slots
<1>2. /\ u \in Seq(Entry) /\ Len(u) = Len(v) + 1
      /\ u[Len(v) + 1] = e
      /\ \A i \in 1 .. Len(v) : u[i] = v[i]
  BY <1>1
<1>3. \A i \in 1 .. Len(u) : i = Len(v) + 1 \/ i \in 1 .. Len(v)
  BY <1>1, <1>2
<1> HIDE DEF u
<1>4. \A i \in 1 .. Len(u) : u[i].received_at = n + 1 \/ u[i].received_at \in 1 .. n
  BY <1>1, <1>2, <1>3
<1>5. \A i \in 1 .. Len(u) : u[i].received_at \in 1 .. n + 1
  BY <1>4
<1>6. ASSUME NEW i \in 1 .. Len(u), NEW j \in 1 .. Len(u), u[i].received_at = u[j].received_at
      PROVE  i = j
  <2>1. \A k \in 1 .. Len(v) : u[k].received_at # n + 1
    BY <1>1, <1>2
  <2>2. u[Len(v) + 1].received_at = n + 1
    BY <1>2
  <2> QED
    BY <1>1, <1>2, <1>3, <1>6, <2>1, <2>2
<1>7. VecAt(u, n + 1)
  BY <1>2, <1>5, <1>6 DEF VecAt, Slots
<1>8. /\ DOMAIN PoolOf(v) = InstantsIn(v, Slots(v))
      /\ \A i \in Slots(v) : PoolOf(v)[v[i].received_at] = Response(v[i])
  BY PoolOfVec
<1>9. InstantsIn(u, Slots(u)) = InstantsIn(v, Slots(v)) \cup {n + 1}
  <2>1. \A i \in 1 .. Len(v) : i \in 1 .. Len(u) /\ u[i].received_at = v[i].received_at
    BY <1>1, <1>2
  <2>2. Len(v) + 1 \in 1 .. Len(u) /\ u[Len(v) + 1].received_at = n + 1
    BY <1>1, <1>2
  <2> QED
    BY <1>3, <2>1, <2>2 DEF InstantsIn, Slots
<1>10. DOMAIN p = InstantsIn(u, Slots(u)) /\ p = [t \in DOMAIN p |-> p[t]]
  BY <1>8, <1>9
<1>11. ASSUME NEW i \in Slots(u)
       PROVE  p[u[i].received_at] = Response(u[i])
  <2>1. CASE i = Len(v) + 1
    BY <1>2, <2>1
  <2>2. CASE i \in 1 .. Len(v)
    <3>1. /\ u[i] = v[i] /\ i \in Slots(v)
          /\ v[i].received_at \in DOMAIN PoolOf(v) /\ v[i].received_at # n + 1
      BY <1>1, <1>2, <1>8, <2>2 DEF Slots, InstantsIn
    <3> QED
      BY <1>8, <3>1
  <2> QED
    BY <1>3, <2>1, <2>2 DEF Slots
<1> HIDE DEF p
<1>12. n + 1 \in Nat
  OBVIOUS
<1>13. PoolOf(u) = p
  <2>1. Keeps(p, u)
    BY <1>10, <1>11 DEF Keeps
  <2> QED
    BY <1>7, <1>12, <2>1, PoolOfIs
<1> QED
  BY <1>7, <1>13 DEF u, p

\* What a slot holds once the winner in slot w is compensated for.
LEMMA CompensateVec ==
  ASSUME NEW n \in Nat, NEW v, VecAt(v, n), NEW w \in Slots(v)
  PROVE  /\ VecAt(CompensateIn(v, w), n)
         /\ PoolOf(CompensateIn(v, w)) = Pool!Compensate(PoolOf(v), v[w].received_at)
<1> DEFINE u == CompensateIn(v, w)
           p == Pool!Compensate(PoolOf(v), v[w].received_at)
<1>1. /\ Len(v) \in Nat /\ v \in Seq(Entry)
      /\ \A i \in Slots(v) : v[i] \in Entry
      /\ \A i \in Slots(v) : v[i].received_at \in 1 .. n
      /\ \A i, j \in Slots(v) : v[i].received_at = v[j].received_at => i = j
      /\ DOMAIN PoolOf(v) = InstantsIn(v, Slots(v))
      /\ \A i \in Slots(v) : PoolOf(v)[v[i].received_at] = Response(v[i])
  BY PoolOfVec DEF VecAt
<1>2. ASSUME NEW i \in Slots(v)
      PROVE  /\ u[i] \in Entry
             /\ u[i].received_at = v[i].received_at
             /\ v[i].received_at \in DOMAIN p
             /\ p[v[i].received_at] = Response(u[i])
  <2> DEFINE t == v[i].received_at
             uses == IF i = w THEN v[i].uses + 1 ELSE v[i].uses
             rif == IF v[i].replica = v[w].replica THEN v[i].rif + 1 ELSE v[i].rif
  <2>1. u[i] = [replica |-> v[i].replica, rif |-> rif, rif_at_probe |-> v[i].rif_at_probe,
                latency_us |-> v[i].latency_us, uses |-> uses,
                received_at |-> v[i].received_at]
    BY <1>1 DEF CompensateIn, Entry
  <2>2. uses \in Nat /\ rif \in Nat
    <3>1. v[i].uses \in Nat /\ v[i].rif \in Nat
      BY <1>1 DEF Entry
    <3> QED
      BY <3>1
  <2>3. u[i] \in Entry
    <3> HIDE DEF uses, rif
    <3> QED
      BY <1>1, <2>1, <2>2 DEF Entry
  <2>4. t \in DOMAIN PoolOf(v) /\ PoolOf(v)[t] = Response(v[i])
        /\ PoolOf(v)[v[w].received_at] = Response(v[w])
    BY <1>1 DEF InstantsIn
  <2>5. t = v[w].received_at <=> i = w
    BY <1>1
  <2>6. p[t] = [Response(v[i]) EXCEPT
                  !.uses = IF t = v[w].received_at THEN @ + 1 ELSE @,
                  !.rif  = IF Response(v[i]).replica = Response(v[w]).replica THEN @ + 1 ELSE @]
    BY <2>4 DEF Pool!Compensate
  <2>7. Response(u[i]) = [replica |-> v[i].replica, rif |-> rif,
                          rif_at_probe |-> v[i].rif_at_probe,
                          latency_us |-> v[i].latency_us, uses |-> uses]
    <3> HIDE DEF uses, rif
    <3> QED
      BY <2>1 DEF Response
  <2>8. p[t] = Response(u[i])
    <3> HIDE DEF p, u, t
    <3> QED
      BY <2>5, <2>6, <2>7 DEF Response
  <2>9. DOMAIN p = DOMAIN PoolOf(v)
    BY DEF Pool!Compensate
  <2> QED
    BY <2>1, <2>3, <2>4, <2>8, <2>9
<1>3. u = [i \in 1 .. Len(v) |-> u[i]]
  BY DEF CompensateIn, Slots
<1>4. DOMAIN p = DOMAIN PoolOf(v) /\ p = [t \in DOMAIN p |-> p[t]]
  BY DEF Pool!Compensate
<1> HIDE DEF u, p
<1>5. u \in Seq(Entry) /\ Len(u) = Len(v)
  BY <1>1, <1>2, <1>3 DEF Slots
<1>6. Slots(u) = Slots(v)
  BY <1>5 DEF Slots
<1>7. VecAt(u, n)
  BY <1>1, <1>2, <1>5, <1>6 DEF VecAt
<1>8. InstantsIn(u, Slots(u)) = InstantsIn(v, Slots(v))
  BY <1>2, <1>6 DEF InstantsIn
<1>9. PoolOf(u) = p
  <2>1. Keeps(p, u)
    BY <1>1, <1>2, <1>4, <1>6, <1>8 DEF Keeps
  <2> QED
    BY <1>7, <2>1, PoolOfIs
<1> QED
  BY <1>7, <1>9 DEF u, p

-----------------------------------------------------------------------------
(* What the scans of the Vec find.                                         *)

\* min_by_key finds a minimum.
LEMMA FirstMinIs ==
  ASSUME NEW S \in SUBSET Nat, S # {}, NEW key, \A i \in S : key[i] \in Nat
  PROVE  FirstMin(S, key) \in S /\ \A j \in S : key[FirstMin(S, key)] <= key[j]
<1> DEFINE keys == {key[i] : i \in S}
<1>1. PICK k \in keys : \A l \in keys : k <= l
  <2>1. keys \in SUBSET Nat /\ keys # {}
    OBVIOUS
  <2> HIDE DEF keys
  <2> QED
    BY <2>1, LeastNat
<1> DEFINE T == {i \in S : key[i] = k}
<1>2. PICK i \in T : \A j \in T : i <= j
  <2>1. T \in SUBSET Nat /\ T # {}
    BY <1>1
  <2> HIDE DEF T
  <2> QED
    BY <2>1, LeastNat
<1>3. i \in S /\ key[i] = k
  BY <1>2
<1>4. ASSUME NEW j \in S
      PROVE  key[i] < key[j] \/ (key[i] = key[j] /\ i <= j)
  <2>1. key[i] <= key[j]
    BY <1>1, <1>3
  <2>2. key[j] = key[i] => i <= j
    BY <1>2, <1>3
  <2> QED
    BY <1>3, <2>1, <2>2
<1>5. /\ FirstMin(S, key) \in S
      /\ \A j \in S : \/ key[FirstMin(S, key)] < key[j]
                      \/ key[FirstMin(S, key)] = key[j] /\ FirstMin(S, key) <= j
  BY <1>3, <1>4 DEF FirstMin
<1>6. ASSUME NEW f \in S, NEW j \in S, key[f] < key[j] \/ key[f] = key[j]
      PROVE  key[f] <= key[j]
  <2>1. key[f] \in Nat /\ key[j] \in Nat
    OBVIOUS
  <2> QED
    BY <1>6, <2>1
<1> QED
  BY <1>5, <1>6

\* max_by_key finds a maximum.
LEMMA LastMaxIs ==
  ASSUME NEW S \in SUBSET Nat, IsFiniteSet(S), S # {}, NEW key, \A i \in S : key[i] \in Nat
  PROVE  LastMax(S, key) \in S /\ \A j \in S : key[j] <= key[LastMax(S, key)]
<1>1. PICK m \in S : \A j \in S : key[j] <= key[m]
  BY LargestEntry
<1> DEFINE T == {i \in S : key[i] = key[m]}
           place == [i \in T |-> i]
<1>2. PICK i \in T : \A j \in T : place[j] <= place[i]
  <2>1. IsFiniteSet(T) /\ T # {} /\ \A j \in T : place[j] \in Nat
    BY FS_Subset
  <2> HIDE DEF T, place
  <2> QED
    BY <2>1, LargestEntry
<1>3. i \in S /\ key[i] = key[m] /\ \A j \in T : j <= i
  BY <1>2
<1>4. ASSUME NEW j \in S
      PROVE  key[j] < key[i] \/ (key[j] = key[i] /\ j <= i)
  <2>1. key[j] <= key[i]
    BY <1>1, <1>3
  <2>2. key[j] = key[i] => j <= i
    BY <1>3
  <2> QED
    BY <1>3, <2>1, <2>2
<1>5. /\ LastMax(S, key) \in S
      /\ \A j \in S : \/ key[j] < key[LastMax(S, key)]
                      \/ key[j] = key[LastMax(S, key)] /\ j <= LastMax(S, key)
  BY <1>3, <1>4 DEF LastMax
<1>6. ASSUME NEW f \in S, NEW j \in S, key[j] < key[f] \/ key[j] = key[f]
      PROVE  key[j] <= key[f]
  <2>1. key[f] \in Nat /\ key[j] \in Nat
    OBVIOUS
  <2> QED
    BY <1>6, <2>1
<1> QED
  BY <1>5, <1>6

\* The slots of v as a non-empty set of numbers, with its keys.
LEMMA KeysVec ==
  ASSUME NEW n \in Nat, NEW v, VecAt(v, n)
  PROVE  /\ Slots(v) \in SUBSET Nat /\ IsFiniteSet(Slots(v))
         /\ v # << >> => Slots(v) # {}
         /\ \A i \in Slots(v) : /\ ReceivedAt(v)[i] = v[i].received_at
                                /\ ReceivedAt(v)[i] \in Nat
                                /\ RifIn(v)[i] = v[i].rif
                                /\ RifIn(v)[i] \in Nat
                                /\ LatencyIn(v)[i] = AdjustedLatency(v[i])
                                /\ LatencyIn(v)[i] \in Nat
<1>1. /\ Len(v) \in Nat /\ v \in Seq(Entry)
      /\ \A i \in Slots(v) : v[i] \in Entry
      /\ IsFiniteSet(Slots(v))
  BY PoolOfVec DEF VecAt
<1>2. Slots(v) \in SUBSET Nat
  BY DEF Slots
<1>3. v # << >> => Slots(v) # {}
  <2>1. v # << >> => Len(v) # 0
    BY <1>1
  <2> QED
    BY <1>1, <2>1 DEF Slots
<1>4. ASSUME NEW i \in Slots(v)
      PROVE  AdjustedLatency(v[i]) \in Nat
  <2>1. v[i].latency_us \in Nat /\ v[i].rif \in Nat /\ v[i].rif_at_probe \in Nat
    BY <1>1 DEF Entry
  <2>2. ASSUME NEW l \in Nat, NEW a \in Nat, NEW b \in Nat
        PROVE  (l * (a + 1)) \div (b + 1) \in Nat
    <3>1. l * (a + 1) \in Nat /\ b + 1 \in Nat \ {0}
      OBVIOUS
    <3>2. ASSUME NEW x \in Nat, NEW y \in Nat \ {0} PROVE x \div y \in Nat
      OBVIOUS
    <3> QED
      BY <3>1, <3>2
  <2> QED
    BY <2>1, <2>2 DEF AdjustedLatency
<1>5. \A i \in Slots(v) : v[i].rif \in Nat /\ v[i].received_at \in Nat
  BY <1>1 DEF Entry
<1> QED
  BY <1>1, <1>2, <1>3, <1>4, <1>5 DEF ReceivedAt, RifIn, LatencyIn

\* The probe of slot i in the pool.
LEMMA ProbeAt ==
  ASSUME NEW n \in Nat, NEW v, VecAt(v, n), NEW i \in Slots(v)
  PROVE  /\ v[i].received_at \in DOMAIN PoolOf(v)
         /\ PoolOf(v)[v[i].received_at].replica = v[i].replica
         /\ PoolOf(v)[v[i].received_at].rif = v[i].rif
         /\ PoolOf(v)[v[i].received_at].uses = v[i].uses
         /\ Pool!AdjustedLatency(PoolOf(v)[v[i].received_at]) = AdjustedLatency(v[i])
<1>1. /\ v[i].received_at \in DOMAIN PoolOf(v)
      /\ PoolOf(v)[v[i].received_at] = Response(v[i])
  BY PoolOfVec DEF InstantsIn
<1>2. /\ Response(v[i]).replica = v[i].replica
      /\ Response(v[i]).rif = v[i].rif
      /\ Response(v[i]).rif_at_probe = v[i].rif_at_probe
      /\ Response(v[i]).latency_us = v[i].latency_us
      /\ Response(v[i]).uses = v[i].uses
  BY DEF Response
<1> QED
  BY <1>1, <1>2 DEF Pool!AdjustedLatency, AdjustedLatency

\* The oldest probe is where min_by_key finds it.
LEMMA OldestVec ==
  ASSUME NEW n \in Nat, NEW v, VecAt(v, n), v # << >>
  PROVE  /\ OldestSlot(v) \in Slots(v)
         /\ v[OldestSlot(v)].received_at = Pool!Oldest(PoolOf(v))
<1>1. /\ OldestSlot(v) \in Slots(v)
      /\ \A j \in Slots(v) : v[OldestSlot(v)].received_at <= v[j].received_at
  <2> DEFINE key == ReceivedAt(v)
  <2>1. /\ Slots(v) \in SUBSET Nat /\ Slots(v) # {}
        /\ \A j \in Slots(v) : key[j] \in Nat /\ key[j] = v[j].received_at
    BY KeysVec
  <2> HIDE DEF key
  <2>2. FirstMin(Slots(v), key) \in Slots(v)
        /\ \A j \in Slots(v) : key[FirstMin(Slots(v), key)] <= key[j]
    BY <2>1, FirstMinIs
  <2> QED
    BY <2>1, <2>2 DEF OldestSlot, key
<1> DEFINE t == v[OldestSlot(v)].received_at
<1>2. DOMAIN PoolOf(v) = InstantsIn(v, Slots(v))
  BY PoolOfVec
<1>3. t \in DOMAIN PoolOf(v) /\ \A u \in DOMAIN PoolOf(v) : t <= u /\ u \in Nat
  <2>1. t \in DOMAIN PoolOf(v)
    BY <1>1, <1>2 DEF InstantsIn
  <2>2. ASSUME NEW u \in DOMAIN PoolOf(v)
        PROVE  t <= u /\ u \in Nat
    <3>1. PICK j \in Slots(v) : u = v[j].received_at
      BY <1>2 DEF InstantsIn
    <3>2. v[j].received_at \in Nat
      BY DEF VecAt
    <3> QED
      BY <1>1, <3>1, <3>2
  <2> HIDE DEF t
  <2> QED
    BY <2>1, <2>2
<1>4. \A u \in DOMAIN PoolOf(v) : u <= t => u = t
  <2> HIDE DEF t
  <2> QED
    BY <1>3
<1> HIDE DEF t
<1>5. Pool!Oldest(PoolOf(v)) = t
  BY <1>3, <1>4 DEF Pool!Oldest
<1> QED
  BY <1>1, <1>5 DEF t

\* The instance sorts and counts as its module's reader does.
LEMMA SameSorting ==
  ASSUME NEW S, NEW f, NEW k
  PROVE  Pool!Cardinality(S) = Cardinality(S) /\ Pool!Sorted(S, f, k) = Sorted(S, f, k)
<1>1. \A A : Pool!Cardinality(A) = Cardinality(A)
  BY DEF Pool!Cardinality, Cardinality
<1>2. \A x : Pool!AtMost(S, f, x) = AtMost(S, f, x)
  BY DEF Pool!AtMost, AtMost
<1>3. {x \in {f[i] : i \in S} : Pool!Cardinality(Pool!AtMost(S, f, x)) > k}
        = {x \in {f[i] : i \in S} : Cardinality(AtMost(S, f, x)) > k}
  BY <1>1, <1>2
<1>4. Pool!Sorted(S, f, k) = Sorted(S, f, k)
  BY <1>3, Zenon DEF Pool!Sorted, Sorted
<1> QED
  BY <1>1, <1>4

\* The pass over the Vec finds the threshold, whatever the order.
LEMMA ThresholdVec ==
  ASSUME NEW n \in Nat, NEW v, VecAt(v, n)
  PROVE  Pool!HotThreshold(PoolOf(v)) = ThresholdIn(v)
<1> DEFINE S == LatestSlots(v)
           T == Pool!Latest(PoolOf(v))
           h == [i \in S |-> v[i].received_at]
<1>1. /\ DOMAIN PoolOf(v) = InstantsIn(v, Slots(v))
      /\ \A i \in Slots(v) : v[i].received_at \in Nat
      /\ \A i, j \in Slots(v) : v[i].received_at = v[j].received_at => i = j
      /\ \A i \in Slots(v) : /\ PoolOf(v)[v[i].received_at].replica = v[i].replica
                             /\ PoolOf(v)[v[i].received_at].rif = v[i].rif
  BY PoolOfVec, ProbeAt DEF VecAt
<1>2. S \in SUBSET Slots(v) /\ IsFiniteSet(S)
  <2>1. S \in SUBSET Slots(v)
    BY DEF LatestSlots
  <2>2. IsFiniteSet(Slots(v))
    BY PoolOfVec
  <2> HIDE DEF S
  <2> QED
    BY <2>1, <2>2, FS_Subset
<1>3. ASSUME NEW i \in Slots(v)
      PROVE  i \in S <=> v[i].received_at \in T
  <2>1. i \in S <=> \A j \in Slots(v) :
                      v[j].replica = v[i].replica => v[j].received_at <= v[i].received_at
    <3>1. \A j \in Slots(v) :
            (\/ v[j].received_at < v[i].received_at
             \/ v[j].received_at = v[i].received_at /\ j <= i)
              <=> v[j].received_at <= v[i].received_at
      <4> SUFFICES ASSUME NEW j \in Slots(v)
                   PROVE  (\/ v[j].received_at < v[i].received_at
                           \/ v[j].received_at = v[i].received_at /\ j <= i)
                            <=> v[j].received_at <= v[i].received_at
        OBVIOUS
      <4>1. v[j].received_at \in Nat /\ v[i].received_at \in Nat
        BY <1>1
      <4>2. v[j].received_at = v[i].received_at => j = i
        BY <1>1
      <4>3. i <= i
        BY DEF Slots
      <4> QED
        BY <4>1, <4>2, <4>3
    <3> QED
      BY <3>1 DEF LatestSlots
  <2>2. v[i].received_at \in T <=> \A j \in Slots(v) :
                      v[j].replica = v[i].replica => v[j].received_at <= v[i].received_at
    <3>1. v[i].received_at \in DOMAIN PoolOf(v)
      BY <1>1 DEF InstantsIn
    <3>2. v[i].received_at \in T <=> \A u \in DOMAIN PoolOf(v) :
            PoolOf(v)[u].replica = PoolOf(v)[v[i].received_at].replica => u <= v[i].received_at
      BY <3>1 DEF Pool!Latest
    <3> HIDE DEF T
    <3> QED
      BY <1>1, <3>2 DEF InstantsIn
  <2> HIDE DEF S, T
  <2> QED
    BY <2>1, <2>2
<1>4. T \in SUBSET DOMAIN PoolOf(v)
  BY DEF Pool!Latest
<1>5. \A t \in T : \E i \in S : t = h[i]
  <2> HIDE DEF S, T
  <2> QED
    BY <1>1, <1>2, <1>3, <1>4 DEF InstantsIn
<1>6. h \in [S -> T] /\ \A i, j \in S : h[i] = h[j] => i = j
  <2> HIDE DEF S, T
  <2> QED
    BY <1>1, <1>2, <1>3
<1>7. \A i \in S : RifIn(v)[i] = Pool!Rif(PoolOf(v))[h[i]]
  <2> SUFFICES ASSUME NEW i \in S PROVE RifIn(v)[i] = Pool!Rif(PoolOf(v))[h[i]]
    OBVIOUS
  <2>1. i \in Slots(v) /\ h[i] = v[i].received_at
    BY <1>2
  <2>2. v[i].received_at \in DOMAIN PoolOf(v)
    BY <1>1, <2>1 DEF InstantsIn
  <2> HIDE DEF S, h
  <2> QED
    BY <1>1, <2>1, <2>2 DEF RifIn, Pool!Rif
<1> DEFINE k == QuantileIndex(Cardinality(S))
<1>8. Pool!HotThreshold(PoolOf(v)) =
        Pool!Sorted(T, Pool!Rif(PoolOf(v)), Pool!QuantileIndex(Pool!Cardinality(T)))
  BY DEF Pool!HotThreshold
<1>9. ThresholdIn(v) = Sorted(S, RifIn(v), k)
  BY DEF ThresholdIn
<1> HIDE DEF S, T, h
<1>10. Cardinality(T) = Cardinality(S)
  BY <1>2, <1>5, <1>6, SameSize
<1>11. Pool!QuantileIndex(Pool!Cardinality(T)) = k
  BY <1>10, SameSorting DEF Pool!QuantileIndex, QuantileIndex
<1> HIDE DEF k
<1>12. Sorted(S, RifIn(v), k) = Sorted(T, Pool!Rif(PoolOf(v)), k)
  BY <1>2, <1>5, <1>6, <1>7, SortedImage
<1> QED
  BY <1>8, <1>9, <1>11, <1>12, SameSorting

\* The cold probes are those in the cold slots.
LEMMA ColdVec ==
  ASSUME NEW n \in Nat, NEW v, VecAt(v, n)
  PROVE  /\ ColdSlots(v) \in SUBSET Slots(v)
         /\ \A i \in Slots(v) : i \in ColdSlots(v) <=> v[i].received_at \in Pool!Cold(PoolOf(v))
         /\ Pool!Cold(PoolOf(v)) = InstantsIn(v, ColdSlots(v))
<1> DEFINE c == ThresholdIn(v)
<1>1. ColdSlots(v) = {i \in Slots(v) : v[i].rif <= c}
  BY DEF ColdSlots
<1>2. Pool!Cold(PoolOf(v)) = {t \in DOMAIN PoolOf(v) : PoolOf(v)[t].rif <= c}
  BY ThresholdVec DEF Pool!Cold
<1>3. DOMAIN PoolOf(v) = InstantsIn(v, Slots(v))
  BY PoolOfVec
<1>4. \A i \in Slots(v) : /\ v[i].received_at \in DOMAIN PoolOf(v)
                          /\ PoolOf(v)[v[i].received_at].rif = v[i].rif
  BY ProbeAt
<1> HIDE DEF c
<1>5. \A i \in Slots(v) : i \in ColdSlots(v) <=> v[i].received_at \in Pool!Cold(PoolOf(v))
  BY <1>1, <1>2, <1>4
<1>6. Pool!Cold(PoolOf(v)) = InstantsIn(v, ColdSlots(v))
  <2>1. Pool!Cold(PoolOf(v)) \in SUBSET InstantsIn(v, Slots(v))
    BY <1>2, <1>3
  <2>2. ColdSlots(v) \in SUBSET Slots(v)
    BY <1>1
  <2> QED
    BY <1>5, <2>1, <2>2 DEF InstantsIn
<1> QED
  BY <1>1, <1>5, <1>6

\* A slot that is least of S by a key is, in the pool, least of S's probes.
LEMMA HclVec ==
  ASSUME NEW n \in Nat, NEW v, VecAt(v, n), v # << >>
  PROVE  HclSlot(v) \in Slots(v) /\ v[HclSlot(v)].received_at \in Pool!HclBest(PoolOf(v))
<1> DEFINE cold == Pool!Cold(PoolOf(v))
           w == HclSlot(v)
<1>1. /\ Slots(v) \in SUBSET Nat /\ Slots(v) # {}
      /\ \A i \in Slots(v) : /\ RifIn(v)[i] = v[i].rif
                             /\ RifIn(v)[i] \in Nat
                             /\ LatencyIn(v)[i] = AdjustedLatency(v[i])
                             /\ LatencyIn(v)[i] \in Nat
  BY KeysVec
<1>2. /\ ColdSlots(v) \in SUBSET Slots(v)
      /\ cold = InstantsIn(v, ColdSlots(v))
      /\ DOMAIN PoolOf(v) = InstantsIn(v, Slots(v))
  BY ColdVec, PoolOfVec
<1>3. \A i \in Slots(v) :
        /\ PoolOf(v)[v[i].received_at].rif = v[i].rif
        /\ Pool!AdjustedLatency(PoolOf(v)[v[i].received_at]) = AdjustedLatency(v[i])
  BY ProbeAt
<1>4. CASE ColdSlots(v) # {}
  <2> DEFINE S == ColdSlots(v)
             key == LatencyIn(v)
  <2>1. w = FirstMin(S, key)
    BY <1>4 DEF HclSlot
  <2>2. S \in SUBSET Nat /\ S # {} /\ \A i \in S : key[i] \in Nat
    BY <1>1, <1>2, <1>4
  <2>3. w \in S /\ \A j \in S : key[w] <= key[j]
    <3> HIDE DEF S, key, w
    <3> QED
      BY <2>1, <2>2, FirstMinIs
  <2>4. w \in Slots(v) /\ \A j \in S : AdjustedLatency(v[w]) <= AdjustedLatency(v[j])
    <3> HIDE DEF w
    <3> QED
      BY <1>1, <1>2, <2>3
  <2>5. cold # {} /\ v[w].received_at \in cold
    BY <1>2, <2>3 DEF InstantsIn
  <2>6. ASSUME NEW u \in cold
        PROVE  Pool!AdjustedLatency(PoolOf(v)[v[w].received_at])
                 <= Pool!AdjustedLatency(PoolOf(v)[u])
    <3>1. PICK j \in S : u = v[j].received_at
      BY <1>2 DEF InstantsIn
    <3> HIDE DEF w
    <3> QED
      BY <1>2, <1>3, <2>4, <3>1
  <2>7. Pool!HclBest(PoolOf(v)) =
          {t \in cold : \A u \in cold : Pool!AdjustedLatency(PoolOf(v)[t])
                                          <= Pool!AdjustedLatency(PoolOf(v)[u])}
    BY <2>5 DEF Pool!HclBest
  <2> HIDE DEF w, cold, S, key
  <2>8. v[w].received_at \in Pool!HclBest(PoolOf(v))
    BY <2>5, <2>6, <2>7
  <2> QED
    BY <2>4, <2>8 DEF w
<1>5. CASE ColdSlots(v) = {}
  <2> DEFINE S == Slots(v)
             key == RifIn(v)
  <2>1. w = FirstMin(S, key)
    BY <1>5 DEF HclSlot
  <2>2. w \in S /\ \A j \in S : key[w] <= key[j]
    <3>1. S \in SUBSET Nat /\ S # {} /\ \A i \in S : key[i] \in Nat
      BY <1>1
    <3> HIDE DEF S, key, w
    <3> QED
      BY <2>1, <3>1, FirstMinIs
  <2>3. \A j \in Slots(v) : v[w].rif <= v[j].rif
    <3> HIDE DEF w
    <3> QED
      BY <1>1, <2>2
  <2>4. cold = {} /\ v[w].received_at \in DOMAIN PoolOf(v)
    BY <1>2, <1>5, <2>2 DEF InstantsIn
  <2>5. ASSUME NEW u \in DOMAIN PoolOf(v)
        PROVE  PoolOf(v)[v[w].received_at].rif <= PoolOf(v)[u].rif
    <3>1. PICK j \in Slots(v) : u = v[j].received_at
      BY <1>2 DEF InstantsIn
    <3> HIDE DEF w
    <3> QED
      BY <1>3, <2>2, <2>3, <3>1
  <2>6. Pool!HclBest(PoolOf(v)) =
          {t \in DOMAIN PoolOf(v) : \A u \in DOMAIN PoolOf(v) :
             PoolOf(v)[t].rif <= PoolOf(v)[u].rif}
    BY <2>4 DEF Pool!HclBest
  <2> HIDE DEF w, cold, key
  <2>7. v[w].received_at \in Pool!HclBest(PoolOf(v))
    BY <2>4, <2>5, <2>6
  <2> QED
    BY <2>2, <2>7 DEF w
<1> QED
  BY <1>4, <1>5

\* The probe remove_one() finds to be the worst is one of the worst.
LEMMA WorstVec ==
  ASSUME NEW n \in Nat, NEW v, VecAt(v, n), v # << >>
  PROVE  WorstSlot(v) \in Slots(v) /\ v[WorstSlot(v)].received_at \in Pool!Worst(PoolOf(v))
<1> DEFINE w == WorstSlot(v)
           D == DOMAIN PoolOf(v)
<1>1. /\ Slots(v) \in SUBSET Nat /\ Slots(v) # {} /\ IsFiniteSet(Slots(v))
      /\ \A i \in Slots(v) : /\ RifIn(v)[i] = v[i].rif
                             /\ RifIn(v)[i] \in Nat
                             /\ LatencyIn(v)[i] = AdjustedLatency(v[i])
                             /\ LatencyIn(v)[i] \in Nat
  BY KeysVec
<1>2. \A i \in Slots(v) :
        /\ v[i].received_at \in D
        /\ PoolOf(v)[v[i].received_at].rif = v[i].rif
        /\ Pool!AdjustedLatency(PoolOf(v)[v[i].received_at]) = AdjustedLatency(v[i])
  BY ProbeAt
<1>3. D = InstantsIn(v, Slots(v))
  BY PoolOfVec
<1>4. Pool!Hot(PoolOf(v)) # {} <=> ColdSlots(v) # Slots(v)
  <2>1. Pool!Hot(PoolOf(v)) = D \ Pool!Cold(PoolOf(v))
    BY DEF Pool!Hot
  <2>2. /\ ColdSlots(v) \in SUBSET Slots(v)
        /\ \A i \in Slots(v) : i \in ColdSlots(v) <=> v[i].received_at \in Pool!Cold(PoolOf(v))
    BY ColdVec
  <2> HIDE DEF D
  <2> QED
    BY <1>2, <1>3, <2>1, <2>2 DEF InstantsIn
<1>5. CASE ColdSlots(v) # Slots(v)
  <2>1. w = LastMax(Slots(v), RifIn(v))
    BY <1>5 DEF WorstSlot
  <2>2. w \in Slots(v) /\ \A j \in Slots(v) : RifIn(v)[j] <= RifIn(v)[w]
    <3> HIDE DEF w
    <3> QED
      BY <1>1, <2>1, LastMaxIs
  <2>3. ASSUME NEW u \in D
        PROVE  PoolOf(v)[u].rif <= PoolOf(v)[v[w].received_at].rif
    <3>1. PICK j \in Slots(v) : u = v[j].received_at
      BY <1>3 DEF InstantsIn
    <3> HIDE DEF w
    <3> QED
      BY <1>1, <1>2, <2>2, <3>1
  <2>4. Pool!Worst(PoolOf(v)) =
          {t \in D : \A u \in D : PoolOf(v)[u].rif <= PoolOf(v)[t].rif}
    BY <1>4, <1>5 DEF Pool!Worst
  <2> HIDE DEF w, D
  <2>5. v[w].received_at \in Pool!Worst(PoolOf(v))
    BY <1>2, <2>2, <2>3, <2>4
  <2> QED
    BY <2>2, <2>5 DEF w
<1>6. CASE ColdSlots(v) = Slots(v)
  <2>1. w = LastMax(Slots(v), LatencyIn(v))
    BY <1>6 DEF WorstSlot
  <2>2. w \in Slots(v) /\ \A j \in Slots(v) : LatencyIn(v)[j] <= LatencyIn(v)[w]
    <3> HIDE DEF w
    <3> QED
      BY <1>1, <2>1, LastMaxIs
  <2>3. ASSUME NEW u \in D
        PROVE  Pool!AdjustedLatency(PoolOf(v)[u])
                 <= Pool!AdjustedLatency(PoolOf(v)[v[w].received_at])
    <3>1. PICK j \in Slots(v) : u = v[j].received_at
      BY <1>3 DEF InstantsIn
    <3> HIDE DEF w
    <3> QED
      BY <1>1, <1>2, <2>2, <3>1
  <2>4. Pool!Worst(PoolOf(v)) =
          {t \in D : \A u \in D : Pool!AdjustedLatency(PoolOf(v)[u])
                                    <= Pool!AdjustedLatency(PoolOf(v)[t])}
    BY <1>4, <1>6 DEF Pool!Worst
  <2> HIDE DEF w, D
  <2>5. v[w].received_at \in Pool!Worst(PoolOf(v))
    BY <1>2, <2>2, <2>3, <2>4
  <2> QED
    BY <2>2, <2>5 DEF w
<1> QED
  BY <1>5, <1>6

\* Restricting is the same in both modules.
LEMMA SameRestrict ==
  ASSUME NEW p, NEW S
  PROVE  Pool!Restrict(p, S) = Restrict(p, S)
BY DEF Pool!Restrict, Restrict

\* An empty Vec is an empty pool.
LEMMA EmptyVec ==
  ASSUME NEW n \in Nat, NEW v, VecAt(v, n)
  PROVE  v = << >> <=> DOMAIN PoolOf(v) = {}
<1>1. Len(v) \in Nat /\ v \in Seq(Entry)
  BY PoolOfVec DEF VecAt
<1>2. DOMAIN PoolOf(v) = InstantsIn(v, Slots(v))
  BY PoolOfVec
<1>3. v = << >> <=> Slots(v) = {}
  <2>1. Len(<< >>) = 0
    OBVIOUS
  <2>2. v = << >> => Slots(v) = {}
    BY <2>1 DEF Slots
  <2> QED
    BY <2>2, KeysVec
<1> QED
  BY <1>2, <1>3 DEF InstantsIn

\* expire() keeps the slots whose probes the pool keeps.
LEMMA ExpireVec ==
  ASSUME NEW n \in Nat, NEW v, VecAt(v, n), NEW at
  PROVE  VecAt(ExpireIn(v, at), n) /\ PoolOf(ExpireIn(v, at)) = Pool!Expire(PoolOf(v), at)
<1> DEFINE S == {i \in Slots(v) : at - v[i].received_at < Ttl /\ v[i].uses < ReuseBudget}
           live == {t \in DOMAIN PoolOf(v) : at - t < Ttl /\ PoolOf(v)[t].uses < ReuseBudget}
<1>1. DOMAIN PoolOf(v) = InstantsIn(v, Slots(v))
  BY PoolOfVec
<1>2. \A i \in Slots(v) : v[i].received_at \in DOMAIN PoolOf(v)
                          /\ PoolOf(v)[v[i].received_at].uses = v[i].uses
  BY ProbeAt
<1>3. live = InstantsIn(v, S)
  <2>1. \A i \in Slots(v) : v[i].received_at \in live <=> i \in S
    BY <1>2
  <2>2. live \in SUBSET InstantsIn(v, Slots(v)) /\ S \in SUBSET Slots(v)
    BY <1>1
  <2> HIDE DEF live, S
  <2> QED
    BY <2>1, <2>2 DEF InstantsIn
<1>4. Pool!Expire(PoolOf(v), at) = Restrict(PoolOf(v), live)
  BY SameRestrict DEF Pool!Expire, Pool!Usable
<1>5. ExpireIn(v, at) = Retain(v, S) /\ S \in SUBSET Slots(v)
  BY DEF ExpireIn
<1> HIDE DEF live, S
<1> QED
  BY <1>3, <1>4, <1>5, RetainVec

\* insert() evicts and pushes what the pool does.
LEMMA InsertVec ==
  ASSUME NEW n \in Nat, NEW v, VecAt(v, n), NEW e \in Entry, e.received_at = n + 1
  PROVE  /\ VecAt(InsertIn(v, e), n + 1)
         /\ PoolOf(InsertIn(v, e)) = Pool!Insert(PoolOf(v), n + 1, Response(e))
<1> DEFINE full == Len(v) >= Capacity
           keptV == IF full /\ v # << >> THEN SwapRemove(v, OldestSlot(v)) ELSE v
           kept == IF full THEN Pool!RemoveOldest(PoolOf(v)) ELSE PoolOf(v)
<1>1. VecAt(keptV, n) /\ PoolOf(keptV) = kept
  <2>1. CASE full /\ v # << >>
    <3>1. OldestSlot(v) \in Slots(v) /\ v[OldestSlot(v)].received_at = Pool!Oldest(PoolOf(v))
      BY <2>1, OldestVec
    <3>2. DOMAIN PoolOf(v) # {}
      BY <2>1, EmptyVec
    <3>3. kept = Restrict(PoolOf(v), DOMAIN PoolOf(v) \ {Pool!Oldest(PoolOf(v))})
      BY <2>1, <3>2, SameRestrict DEF Pool!RemoveOldest, Pool!Without
    <3>4. keptV = SwapRemove(v, OldestSlot(v))
      BY <2>1
    <3> HIDE DEF kept, keptV, full
    <3> QED
      BY <3>1, <3>3, <3>4, SwapRemoveVec
  <2>2. CASE full /\ v = << >>
    <3>1. DOMAIN PoolOf(v) = {}
      BY <2>2, EmptyVec
    <3> QED
      BY <2>2, <3>1 DEF Pool!RemoveOldest
  <2>3. CASE ~full
    BY <2>3
  <2> QED
    BY <2>1, <2>2, <2>3
<1>2. Pool!Occupancy(PoolOf(v)) = Len(v)
  BY PoolOfVec, SameSorting DEF Pool!Occupancy
<1>3. Pool!Insert(PoolOf(v), n + 1, Response(e)) =
        [u \in DOMAIN kept \cup {n + 1} |-> IF u = n + 1 THEN Response(e) ELSE kept[u]]
  BY <1>2 DEF Pool!Insert
<1>4. InsertIn(v, e) = Append(keptV, e)
  BY DEF InsertIn
<1> HIDE DEF kept, keptV
<1>5. /\ VecAt(Append(keptV, e), n + 1)
      /\ PoolOf(Append(keptV, e)) =
           [u \in DOMAIN PoolOf(keptV) \cup {n + 1} |->
              IF u = n + 1 THEN Response(e) ELSE PoolOf(keptV)[u]]
  BY <1>1, AppendVec
<1> QED
  BY <1>1, <1>3, <1>4, <1>5

\* remove_one() removes a probe that the pool may remove.
LEMMA RemoveOneVec ==
  ASSUME NEW n \in Nat, NEW v, VecAt(v, n), remove_oldest_next \in BOOLEAN, VecRemoveOne(v)
  PROVE  /\ VecAt(probes', n)
         /\ remove_oldest_next' \in BOOLEAN
         /\ Pool!RemoveOne(PoolOf(v))
<1>0. v = << >> <=> DOMAIN PoolOf(v) = {}
  BY EmptyVec
<1>1. CASE v = << >>
  <2>1. probes' = v /\ remove_oldest_next' = remove_oldest_next
    BY <1>1 DEF VecRemoveOne
  <2>2. DOMAIN PoolOf(v) = {}
    BY <1>0, <1>1
  <2> QED
    BY <2>1, <2>2 DEF Pool!RemoveOne
<1>2. CASE v # << >>
  <2>1. DOMAIN PoolOf(v) # {}
    BY <1>0, <1>2
  <2> DEFINE i == IF remove_oldest_next' THEN OldestSlot(v) ELSE WorstSlot(v)
             t == v[i].received_at
  <2>2. probes' = SwapRemove(v, i) /\ remove_oldest_next' = ~remove_oldest_next
    BY <1>2 DEF VecRemoveOne
  <2>3. /\ i \in Slots(v)
        /\ t \in IF remove_oldest_next' THEN {Pool!Oldest(PoolOf(v))}
                                        ELSE Pool!Worst(PoolOf(v))
    BY <1>2, OldestVec, WorstVec
  <2> HIDE DEF i
  <2>4. VecAt(probes', n) /\ PoolOf(probes') = Pool!Without(PoolOf(v), t)
    BY <2>2, <2>3, SwapRemoveVec, SameRestrict DEF Pool!Without
  <2> HIDE DEF t
  <2>5. Pool!RemoveOne(PoolOf(v))
    BY <2>1, <2>2, <2>3, <2>4 DEF Pool!RemoveOne
  <2> QED
    BY <2>2, <2>4, <2>5
<1> QED
  BY <1>1, <1>2

-----------------------------------------------------------------------------
(* The Vec implements the pool.                                            *)

\* A response pushed is a response stored.
LEMMA VecStoreStep ==
  ASSUME VecTypeOK, NEW r \in Replica, NEW rif \in RifReading, NEW latency \in LatencyReading,
         VecStore(r, rif, latency)
  PROVE  VecTypeOK' /\ Pool!Store(r, rif, latency)
<1> DEFINE e == [replica |-> r, rif |-> rif, rif_at_probe |-> rif,
                 latency_us |-> latency, uses |-> 0, received_at |-> clock + 1]
<1>1. /\ clock + 1 \in Instant /\ clock' = clock + 1
      /\ probes' = InsertIn(probes, e)
      /\ remove_oldest_next' = remove_oldest_next
  BY DEF VecStore
<1>2. clock \in Nat /\ clock + 1 \in Nat /\ VecAt(probes, clock)
  BY DEF VecTypeOK, VecAt
<1>3. rif \in Nat /\ latency \in Nat
  BY ReadingAssumption
<1>4. e \in Entry /\ e.received_at = clock + 1
  BY <1>2, <1>3 DEF Entry
<1>5. Response(e) = [replica |-> r, rif |-> rif, rif_at_probe |-> rif,
                     latency_us |-> latency, uses |-> 0]
  BY DEF Response
<1> HIDE DEF e
<1>6. /\ VecAt(probes', clock')
      /\ PoolOf(probes') = Pool!Insert(PoolOf(probes), clock', Response(e))
  BY <1>1, <1>2, <1>4, InsertVec
<1>7. VecTypeOK'
  BY <1>1, <1>2, <1>6 DEF VecTypeOK, VecAt
<1> QED
  BY <1>1, <1>5, <1>6, <1>7 DEF Pool!Store

\* The one outcome of a selection on the Vec is one the pool allows.
LEMMA VecSelectStep ==
  ASSUME VecTypeOK, VecSelect
  PROVE  /\ VecTypeOK'
         /\ \E w \in DOMAIN PoolOf(probes) \cup {Pool!NoProbe} : Pool!Select(w)
<1> DEFINE live == ExpireIn(probes, clock)
           livePool == Pool!Expire(PoolOf(probes), clock)
<1>1. clock \in Nat /\ VecAt(probes, clock) /\ remove_oldest_next \in BOOLEAN
  BY DEF VecTypeOK, VecAt
<1>2. clock' = clock
  BY DEF VecSelect
<1>3. VecAt(live, clock) /\ PoolOf(live) = livePool
  BY <1>1, ExpireVec
<1>4. DOMAIN livePool \in SUBSET DOMAIN PoolOf(probes)
  BY DEF Pool!Expire, Pool!Restrict
<1>5. Pool!Occupancy(livePool) = Len(live)
  <2> HIDE DEF live, livePool
  <2> QED
    BY <1>1, <1>3, PoolOfVec, SameSorting DEF Pool!Occupancy
<1>6. ASSUME NEW u, VecAt(u, clock), VecRemoveOne(u)
      PROVE  VecTypeOK' /\ Pool!RemoveOne(PoolOf(u))
  <2>1. VecAt(probes', clock) /\ remove_oldest_next' \in BOOLEAN /\ Pool!RemoveOne(PoolOf(u))
    BY <1>1, <1>6, RemoveOneVec
  <2> QED
    BY <1>1, <1>2, <2>1 DEF VecTypeOK, VecAt
<1>7. CASE Len(live) < 2
  <2>1. VecRemoveOne(live)
    BY <1>7 DEF VecSelect, NoSlot
  <2>2. VecTypeOK' /\ Pool!RemoveOne(livePool)
    <3> HIDE DEF live, livePool
    <3> QED
      BY <1>3, <1>6, <2>1
  <2>3. Pool!NoProbe \in Pool!Winners(livePool)
    BY <1>5, <1>7 DEF Pool!Winners
  <2>4. Pool!Select(Pool!NoProbe)
    BY <1>2, <2>2, <2>3 DEF Pool!Select
  <2> QED
    BY <2>2, <2>4
<1>8. CASE ~(Len(live) < 2)
  <2> DEFINE w == HclSlot(live)
             t == live[w].received_at
  <2>1. live # << >>
    <3> HIDE DEF live
    <3> QED
      BY <1>8
  <2>2. w \in Slots(live) /\ t \in Pool!HclBest(livePool)
    <3> HIDE DEF live, livePool
    <3> QED
      BY <1>1, <1>3, <2>1, HclVec
  <2>3. w # NoSlot /\ t \in 1 .. clock /\ t \in DOMAIN livePool
    <3> HIDE DEF live, livePool, w
    <3>1. w # NoSlot
      BY <2>2 DEF Slots, NoSlot
    <3>2. t \in 1 .. clock
      BY <1>3, <2>2 DEF VecAt
    <3>3. t \in DOMAIN livePool
      BY <1>1, <1>3, <2>2, ProbeAt
    <3> QED
      BY <3>1, <3>2, <3>3
  <2>4. VecRemoveOne(CompensateIn(live, w))
    BY <1>8, <2>3 DEF VecSelect
  <2>5. /\ VecAt(CompensateIn(live, w), clock)
        /\ PoolOf(CompensateIn(live, w)) = Pool!Compensate(livePool, t)
    <3> HIDE DEF live, livePool, w
    <3> QED
      BY <1>1, <1>3, <2>2, CompensateVec
  <2>6. VecTypeOK' /\ Pool!RemoveOne(Pool!Compensate(livePool, t))
    <3> HIDE DEF live, livePool, w, t
    <3> QED
      BY <1>6, <2>4, <2>5
  <2>7. t \in Pool!Winners(livePool)
    BY <1>5, <1>8, <2>2 DEF Pool!Winners
  <2>8. t # Pool!NoProbe
    <3> HIDE DEF t
    <3> QED
      BY <1>1, <2>3 DEF Pool!NoProbe
  <2>9. Pool!Select(t)
    <3> HIDE DEF t
    <3> QED
      BY <1>2, <2>6, <2>7, <2>8 DEF Pool!Select
  <2> HIDE DEF t
  <2> QED
    BY <1>4, <2>3, <2>6, <2>9
<1> QED
  BY <1>7, <1>8

\* Every step on the Vec, and the beginning.
LEMMA VecStep ==
  ASSUME VecTypeOK, [VecNext]_vecVars
  PROVE  VecTypeOK' /\ [Pool!Next]_(Pool!vars)
<1>1. ASSUME NEW r \in Replica, NEW rif \in RifReading, NEW l \in LatencyReading,
             VecStore(r, rif, l)
      PROVE  VecTypeOK' /\ Pool!Next
  BY <1>1, VecStoreStep DEF Pool!Next
<1>2. CASE VecSelect
  BY <1>2, VecSelectStep DEF Pool!Next
<1>3. CASE VecPass
  <2>1. /\ clock + 1 \in Instant /\ clock' = clock + 1
        /\ probes' = probes /\ remove_oldest_next' = remove_oldest_next
    BY <1>3 DEF VecPass
  <2>2. Pool!Pass
    BY <2>1 DEF Pool!Pass
  <2>3. VecTypeOK'
    <3>1. \A i \in Slots(probes) : probes[i].received_at \in 1 .. clock + 1
      BY DEF VecTypeOK
    <3> QED
      BY <2>1, <3>1 DEF VecTypeOK
  <2> QED
    BY <2>2, <2>3 DEF Pool!Next
<1>4. CASE UNCHANGED vecVars
  BY <1>4 DEF vecVars, VecTypeOK, Pool!vars
<1> QED
  BY <1>1, <1>2, <1>3, <1>4 DEF VecNext

LEMMA VecStarts == VecInit => VecTypeOK /\ Pool!Init
<1> SUFFICES ASSUME VecInit
             PROVE  VecTypeOK /\ Pool!Init
  OBVIOUS
<1>1. probes = << >> /\ remove_oldest_next = FALSE /\ clock = 0
  BY DEF VecInit
<1>2. VecTypeOK
  <2>1. << >> \in Seq(Entry) /\ Len(<< >>) = 0
    OBVIOUS
  <2>2. probes \in Seq(Entry) /\ Slots(probes) = {}
    BY <1>1, <2>1 DEF Slots
  <2> QED
    BY <1>1, <2>2 DEF VecTypeOK
<1>3. DOMAIN PoolOf(probes) = {}
  BY <1>1, <1>2, EmptyVec DEF VecTypeOK, VecAt
<1>4. PoolOf(probes) = [t \in DOMAIN PoolOf(probes) |-> PoolOf(probes)[t]]
  BY DEF PoolOf
<1>5. PoolOf(probes) = Pool!EmptyPool
  BY <1>3, <1>4 DEF Pool!EmptyPool
<1> QED
  BY <1>1, <1>2, <1>5 DEF Pool!Init

\* The slots of the Vec hold probes of the past, no two of one instant,
\* through all that swap_remove(), retain() and push() do to their order.
THEOREM VecTypeCorrect == VecSpec => []VecTypeOK
BY VecStarts, VecStep, PTL DEF VecSpec

\* The pool kept in a Vec, scanned by place and permuted by every removal, does
\* only what the pool kept by age allows.
THEOREM VecImplementsPool == VecSpec => ImplementsProbePool
<1>1. VecInit => VecTypeOK /\ Pool!Init
  BY VecStarts
<1>2. VecTypeOK /\ [VecNext]_vecVars => VecTypeOK' /\ [Pool!Next]_(Pool!vars)
  BY VecStep
<1> QED
  BY <1>1, <1>2, PTL DEF VecSpec, ImplementsProbePool, Pool!Spec
=============================================================================
