------------------------------ MODULE MCSystem ------------------------------
(* The composed system on a small instance; no symmetry, as liveness        *)
(* requires.                                                                *)
EXTENDS PrequalSystem
=============================================================================
