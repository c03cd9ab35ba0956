-------------------------- MODULE OrderStatistics --------------------------
(***************************************************************************)
(* Indexing into a sorted list, as the source does it for the RIF quantile *)
(* of the pool (pool.rs) and for the medians of the latency ring           *)
(* (replica.rs): the values f[i] of the members i of a finite set S are    *)
(* sorted, repetitions kept, and the one at an index counted from 0 taken. *)
(***************************************************************************)
EXTENDS Integers, FiniteSets

AtMost(S, f, v) == {i \in S : f[i] <= v}

\* Entry k of the sorted list: the least value with more than k members at
\* or below it.
Sorted(S, f, k) ==
  LET values == {f[i] : i \in S}
      reach == {v \in values : Cardinality(AtMost(S, f, v)) > k}
  IN  CHOOSE v \in reach : \A u \in reach : v <= u

\* The upper median, v[v.len() / 2].
Median(S, f) == Sorted(S, f, Cardinality(S) \div 2)
=============================================================================
