------------------------------ MODULE Balancer ------------------------------
(***************************************************************************)
(* One balancer running the prequal policy (src/src/client/policy.rs), as  *)
(* the tasks that share its probe pool: one task per query, which fires    *)
(* probes, selects under the pool's lock and posts the work, and one task  *)
(* per probe, which stores the response or drops it.                       *)
(*                                                                         *)
(* The pool and its clock are those of ProbePool.  Replicas are outside    *)
(* this module: a response may report any reading, whenever it lands.      *)
(***************************************************************************)
EXTENDS ProbePool

CONSTANTS
  Query,    \* the queries handed to this balancer, one task each
  RProbe,   \* r_probe
  Nowhere   \* no replica yet

ASSUME FleetAssumption == IsFiniteSet(Replica) /\ Cardinality(Replica) >= 2
ASSUME QueryAssumption == IsFiniteSet(Query)
ASSUME RProbeAssumption == RProbe \in Nat
ASSUME NowhereAssumption == Nowhere \notin Replica

VARIABLES
  phase,     \* where each query's task is
  target,    \* the replica select() returned to it
  fetching   \* probe tasks under way: <<query that fired it, replica>>

balancerVars == <<vars, phase, target, fetching>>

Phase == {"new",       \* not arrived yet
          "probing",   \* probes fired, about to take the pool's lock
          "drawing",   \* lock released without a winner
          "chosen",    \* select() has returned
          "sent"}      \* POST /work is out

\* The sets of distinct replicas trigger_probes may sample.
ProbeTargets ==
  {T \in SUBSET Replica :
     Cardinality(T) = IF RProbe < Cardinality(Replica) THEN RProbe
                                                       ELSE Cardinality(Replica)}

-----------------------------------------------------------------------------
BalancerInit ==
  /\ Init
  /\ phase = [q \in Query |-> "new"]
  /\ target = [q \in Query |-> Nowhere]
  /\ fetching = {}

\* A query arrives and fires its probes.
Trigger(q) ==
  /\ phase[q] = "new"
  /\ phase' = [phase EXCEPT ![q] = "probing"]
  /\ \E T \in ProbeTargets : fetching' = fetching \cup ({q} \X T)
  /\ UNCHANGED <<vars, target>>

\* A response arrives and its task stores it under the lock.
Land(q, r, rif, latency) ==
  /\ <<q, r>> \in fetching
  /\ fetching' = fetching \ {<<q, r>>}
  /\ Store(r, rif, latency)
  /\ UNCHANGED <<phase, target>>

\* A probe fails or times out; nothing is stored.
Lose(q, r) ==
  /\ <<q, r>> \in fetching
  /\ fetching' = fetching \ {<<q, r>>}
  /\ UNCHANGED <<vars, phase, target>>

\* Slip of Decide: the query waits for a pool it can rank.
DecideWaiting(q, w) ==
  /\ phase[q] = "probing"
  /\ w # NoProbe
  /\ Select(w)
  /\ phase' = [phase EXCEPT ![q] = "chosen"]
  /\ target' = [target EXCEPT ![q] = pool[w].replica]
  /\ UNCHANGED fetching

\* Slip of Decide: the draw is skipped.
DecideWithoutDraw(q, w) ==
  /\ phase[q] = "probing"
  /\ Select(w)
  /\ phase' = [phase EXCEPT ![q] = "chosen"]
  /\ target' = [target EXCEPT ![q] = IF w = NoProbe THEN @ ELSE pool[w].replica]
  /\ UNCHANGED fetching

\* The critical section of select(), for query q with winning probe w.
Decide(q, w) ==
  /\ phase[q] = "probing"
  /\ Select(w)
  /\ phase' = [phase EXCEPT ![q] = IF w = NoProbe THEN "drawing" ELSE "chosen"]
  /\ target' = [target EXCEPT ![q] = IF w = NoProbe THEN @ ELSE pool[w].replica]
  /\ UNCHANGED fetching

\* The uniform fallback, drawn once the lock is released.
Draw(q, r) ==
  /\ phase[q] = "drawing"
  /\ phase' = [phase EXCEPT ![q] = "chosen"]
  /\ target' = [target EXCEPT ![q] = r]
  /\ UNCHANGED <<vars, fetching>>

\* The query task posts its work (client/mod.rs).
Send(q) ==
  /\ phase[q] = "chosen"
  /\ phase' = [phase EXCEPT ![q] = "sent"]
  /\ UNCHANGED <<vars, target, fetching>>

Idle == Pass /\ UNCHANGED <<phase, target, fetching>>

QueryStep(q) ==
  \/ \E w \in DOMAIN pool \cup {NoProbe} : Decide(q, w)
  \/ \E r \in Replica : Draw(q, r)
  \/ Send(q)

BalancerNext ==
  \/ \E q \in Query : Trigger(q) \/ QueryStep(q)
  \/ \E q \in Query, r \in Replica :
       \/ \E rif \in RifReading, l \in LatencyReading : Land(q, r, rif, l)
       \/ Lose(q, r)
  \/ Idle

\* Query tasks that can run do run: the lock is never held across an await.
\* Nothing is assumed of probes, arrivals or the clock.
BalancerSpec ==
  BalancerInit /\ [][BalancerNext]_balancerVars
               /\ \A q \in Query : WF_balancerVars(QueryStep(q))

-----------------------------------------------------------------------------
\* The types of the tasks' states; a replica is fixed exactly when select()
\* has returned, and only queries that have arrived have probes under way.
BalancerTypeOK ==
  /\ TypeOK
  /\ phase \in [Query -> Phase]
  /\ target \in [Query -> Replica \cup {Nowhere}]
  /\ \A q \in Query : target[q] # Nowhere <=> phase[q] \in {"chosen", "sent"}
  /\ fetching \subseteq {q \in Query : phase[q] # "new"} \X Replica
=============================================================================
