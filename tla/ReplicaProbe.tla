----------------------------- MODULE ReplicaProbe -----------------------------
(***************************************************************************)
(* The handler of GET /probe (probe() in src/src/servers/replica.rs) beside *)
(* those of POST /work: it loads the RIF, then takes the ring's lock for    *)
(* the estimate, and queries arrive, complete and are cancelled in between. *)
(* It has no await, so that a probe once begun is answered.  The CPU        *)
(* average, read last, is independent of both and is left out.  One probe   *)
(* is followed: probes only read, so that others make no difference to it.  *)
(***************************************************************************)
EXTENDS ReplicaAudit

VARIABLES
  probe,     \* where the probe is
  loaded,    \* the RIF it has loaded
  arrived,   \* history: queries that had arrived by then
  unseen     \* history: those neither in the RIF nor over once the ring is read

probeVars == <<probe, loaded, arrived, unseen>>
replicaProbeVars == <<auditReplicaVars, probeVars>>

Arrived == Cardinality({q \in Request : phase[q] # "absent"})

\* Queries that are recorded in the ring or whose handlers were cancelled.
Over == Cardinality({q \in Request : phase[q] \in {"leaving", "gone"}})

ReplicaProbeInit ==
  /\ AuditReplicaInit
  /\ probe = "coming" /\ loaded = 0 /\ arrived = 0 /\ unseen = 0

\* Slip of ProbeReads: the ring is read before the RIF (arrived holds what is
\* over when it is).
ProbeReadsRingFirst ==
  \/ /\ probe = "coming" /\ probe' = "halfway"
     /\ arrived' = Over
     /\ UNCHANGED <<loaded, unseen>>
  \/ /\ probe = "halfway" /\ probe' = "answered"
     /\ unseen' = IF Arrived > rif + arrived THEN Arrived - rif - arrived ELSE 0
     /\ loaded' = 0 /\ arrived' = 0

\* probe(): the two reads of its body, in their order.
ProbeReads ==
  \/ /\ probe = "coming" /\ probe' = "halfway"
     /\ loaded' = rif /\ arrived' = Arrived
     /\ UNCHANGED unseen
  \/ /\ probe = "halfway" /\ probe' = "answered"
     /\ Estimates(entries, clock, loaded) # {}      \* one of them is the answer
     /\ unseen' = IF arrived > loaded + Over THEN arrived - loaded - Over ELSE 0
     /\ loaded' = 0 /\ arrived' = 0

ReplicaProbeNext ==
  \/ AuditReplicaNext /\ UNCHANGED probeVars
  \/ ProbeReads /\ UNCHANGED auditReplicaVars

ReplicaProbeSpec ==
  ReplicaProbeInit /\ [][ReplicaProbeNext]_replicaProbeVars
                   /\ \A t \in Task : WF_replicaVars(TaskStep(t)) /\ WF_replicaVars(SpinEnd(t))

-----------------------------------------------------------------------------
\* No query slips between the two reads of a probe: each one that had arrived
\* when the RIF was loaded is counted in it, or was over, its completion in
\* the ring or its handler dropped, by the time the ring was read.
NoQueryUnseen == unseen = 0
=============================================================================
