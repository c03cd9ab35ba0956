---------------------------- MODULE MCProbePool ----------------------------
(* The probe pool on a small instance; the cfg file gives the sizes.       *)
EXTENDS ProbePoolAudit
=============================================================================
