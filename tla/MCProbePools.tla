---------------------------- MODULE MCProbePools ----------------------------
(* The probe pool on a small instance, as both of its descriptions: a      *)
(* behaviour follows either ProbePool (kept by age, with the history of    *)
(* ProbePoolAudit) or ProbePoolVec, and leaves the other as it began.      *)
(* Replicas are interchangeable; no property is a liveness property.       *)
EXTENDS ProbePoolAudit, ProbePoolVec, TLC

VARIABLE kept   \* the description that this behaviour follows

poolsVars == <<auditVars, vecVars, kept>>

PoolsInit ==
  /\ kept \in {"by age", "in a Vec"}
  /\ AuditInit
  /\ VecInit

PoolsNext ==
  \/ kept = "by age" /\ AuditNext /\ UNCHANGED <<vecVars, kept>>
  \/ kept = "in a Vec" /\ VecNext /\ UNCHANGED <<auditVars, kept>>

PoolsSpec == PoolsInit /\ [][PoolsNext]_poolsVars

Interchangeable == Permutations(Replica)
=============================================================================
