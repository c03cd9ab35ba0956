------------------------------ MODULE MCClient ------------------------------
(* The load generator on a small instance; queries are interchangeable.    *)
EXTENDS Client, TLC

Interchangeable == Permutations(Query)
=============================================================================
