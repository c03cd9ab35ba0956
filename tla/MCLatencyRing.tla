--------------------------- MODULE MCLatencyRing ---------------------------
(* The latency ring on small instances; the cfg files give the sizes.      *)
EXTENDS LatencyRingAudit
=============================================================================
