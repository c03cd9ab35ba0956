---------------------------- MODULE BalancerAudit ----------------------------
(***************************************************************************)
(* Balancer with history variables, and the properties that relate the     *)
(* pool to what the queries did with it.  No action of Balancer reads the  *)
(* history.                                                                *)
(***************************************************************************)
EXTENDS Balancer

VARIABLES
  winner,      \* the probe each query's selection settled on, or NoProbe
  decidedAt,   \* the clock when it left the critical section
  stored       \* responses stored so far

history == <<winner, decidedAt, stored>>
auditBalancerVars == <<balancerVars, history>>

Never == -1

AuditBalancerInit ==
  /\ BalancerInit
  /\ winner = [q \in Query |-> NoProbe]
  /\ decidedAt = [q \in Query |-> Never]
  /\ stored = 0

AuditDecide(q, w) ==
  /\ Decide(q, w)
  /\ winner' = [winner EXCEPT ![q] = w]
  /\ decidedAt' = [decidedAt EXCEPT ![q] = now]
  /\ UNCHANGED stored

AuditLand(q, r, rif, l) ==
  /\ Land(q, r, rif, l)
  /\ stored' = stored + 1
  /\ UNCHANGED <<winner, decidedAt>>

AuditUnobserved(q) ==
  /\ \/ Trigger(q) \/ Send(q)
     \/ \E r \in Replica : Draw(q, r) \/ Lose(q, r)
  /\ UNCHANGED history

AuditBalancerNext ==
  \/ \E q \in Query :
       \/ AuditUnobserved(q)
       \/ \E w \in DOMAIN pool \cup {NoProbe} : AuditDecide(q, w)
       \/ \E r \in Replica, rif \in RifReading, l \in LatencyReading :
            AuditLand(q, r, rif, l)
  \/ Idle /\ UNCHANGED history

AuditBalancerSpec == AuditBalancerInit /\ [][AuditBalancerNext]_auditBalancerVars

-----------------------------------------------------------------------------
Won(q) == winner[q] # NoProbe

\* A pooled RIF is the report plus exactly the queries that HCL sent to that
\* replica since the probe was stored, whichever copy each of them won with:
\* no concurrent selection or insertion loses or repeats an increment.
CompensationIsExact ==
  \A t \in DOMAIN pool :
    pool[t].rif - pool[t].rif_at_probe =
      Cardinality({q \in Query : /\ Won(q)
                                 /\ target[q] = pool[t].replica
                                 /\ decidedAt[q] >= t})

\* No response decides for more queries than the reuse budget, counted over
\* the queries themselves and over responses that have left the pool too.
WinsWithinBudget ==
  \A w \in 1 .. now : Cardinality({q \in Query : winner[q] = w}) <= ReuseBudget

\* Every selection removes a probe, so HCL decisions are paid for by stored
\* responses one to one, with one more left over: the reuse budget lets a
\* response decide twice only at the price of one that never decided.
DecisionsCostProbes ==
  LET decisions == Cardinality({q \in Query : Won(q)})
  IN  decisions > 0 => decisions < stored

\* What pool.rs says of Probe::rif, "RIF as reported, plus one per query we
\* dispatched there since": when a query is dispatched to a replica, every
\* probe of that replica in the pool has counted it (CompensationIsExact says
\* which queries are counted).
DispatchesAreCounted ==
  [][\A q \in Query : Send(q) =>
       \A t \in DOMAIN pool : pool[t].replica = target[q] =>
         Won(q) /\ decidedAt[q] >= t]_auditBalancerVars
=============================================================================
