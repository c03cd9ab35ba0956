---------------------------- MODULE ReplicaAudit ----------------------------
(***************************************************************************)
(* Replica with a history variable, and the property that needs it.  No    *)
(* action of Replica reads the history.                                    *)
(***************************************************************************)
EXTENDS Replica

VARIABLE bypassed   \* bursts the antagonist was granted while each request waited

auditReplicaVars == <<replicaVars, bypassed>>

BurnerServed ==
  phase[Burner] \in {"absent", "queued"} /\ phase'[Burner] \in {"granted", "running"}

AuditReplicaInit == ReplicaInit /\ bypassed = [q \in Request |-> 0]

AuditReplicaNext ==
  /\ ReplicaNext
  /\ bypassed' = [q \in Request |->
       bypassed[q] + IF BurnerServed /\ phase[q] = "queued" THEN 1 ELSE 0]

AuditReplicaSpec ==
  AuditReplicaInit /\ [][AuditReplicaNext]_auditReplicaVars
                   /\ \A t \in Task : WF_replicaVars(TaskStep(t)) /\ WF_replicaVars(SpinEnd(t))

-----------------------------------------------------------------------------
\* However long its bursts and however soon it asks again, the antagonist
\* passes a query that waits for a slot at most once.
AntagonistPassesOnce == \A q \in Request : bypassed[q] <= 1
=============================================================================
