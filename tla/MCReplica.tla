----------------------------- MODULE MCReplica -----------------------------
(* One replica on a small instance; no symmetry, since the run also checks *)
(* liveness.                                                               *)
EXTENDS ReplicaProbe
=============================================================================
