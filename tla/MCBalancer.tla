----------------------------- MODULE MCBalancer -----------------------------
(* One balancer on small instances; the cfg files give the sizes.  Queries  *)
(* are interchangeable, and so are replicas: the safety runs say so.        *)
EXTENDS BalancerAudit, TLC

Interchangeable == Permutations(Query) \cup Permutations(Replica)
=============================================================================
