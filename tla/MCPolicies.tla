----------------------------- MODULE MCPolicies -----------------------------
(* Every policy on small fleets; no symmetry, since the run also checks    *)
(* liveness.                                                               *)
EXTENDS PoliciesAudit
=============================================================================
