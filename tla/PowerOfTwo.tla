----------------------------- MODULE PowerOfTwo -----------------------------
(***************************************************************************)
(* The po2 arm of Balancer::select (src/src/client/policy.rs): each query  *)
(* draws two distinct replicas, probes both at the same time, waits for    *)
(* both outcomes and takes the one that reports fewer requests in flight.  *)
(* The RIF of the replicas changes while the probes are under way.         *)
(***************************************************************************)
EXTENDS Fleet

CONSTANTS
  Po2Query,   \* queries handed to the balancer
  Load        \* RIF values considered: Nat, or 0 .. k to bound a run

ASSUME LoadAssumption == Load \subseteq Nat /\ 0 \in Load

VARIABLES
  load,     \* the RIF of each replica
  stage,    \* where each query's task is
  pair,     \* the replicas a and b it drew
  heard,    \* the outcome of its two probes
  choice    \* what select() returned to it

po2Vars == <<load, stage, pair, heard, choice>>

Side == {1, 2}
Pending == -1
Failed == -2
Unchosen == -1

\* The second draw, from one value fewer, skips the first.
Other(a, x) == IF x >= a THEN x + 1 ELSE x

-----------------------------------------------------------------------------
Po2Init ==
  /\ load \in [Index -> {0}]
  /\ stage = [q \in Po2Query |-> "new"]
  /\ pair = [q \in Po2Query |-> <<0, 1>>]
  /\ heard = [q \in Po2Query |-> <<Pending, Pending>>]
  /\ choice = [q \in Po2Query |-> Unchosen]

\* Slip of Draw: the second draw is from all replicas but one, unshifted.
DrawUnshifted(q) ==
  /\ stage[q] = "new"
  /\ stage' = [stage EXCEPT ![q] = "probing"]
  /\ \E a \in Index, x \in 0 .. n - 2 : pair' = [pair EXCEPT ![q] = <<a, x>>]
  /\ UNCHANGED <<load, heard, choice>>

\* Two distinct replicas are drawn and their probes sent.
Draw(q) ==
  /\ stage[q] = "new"
  /\ stage' = [stage EXCEPT ![q] = "probing"]
  /\ \E a \in Index, x \in 0 .. n - 2 : pair' = [pair EXCEPT ![q] = <<a, Other(a, x)>>]
  /\ UNCHANGED <<load, heard, choice>>

\* A probe reads the RIF of its replica; fetch_probe returns it.
Hear(q, k) ==
  /\ stage[q] = "probing" /\ heard[q][k] = Pending
  /\ heard' = [heard EXCEPT ![q][k] = load[pair[q][k]]]
  /\ UNCHANGED <<load, stage, pair, choice>>

\* A probe is refused, garbled or times out; fetch_probe returns None.
Miss(q, k) ==
  /\ stage[q] = "probing" /\ heard[q][k] = Pending
  /\ heard' = [heard EXCEPT ![q][k] = Failed]
  /\ UNCHANGED <<load, stage, pair, choice>>

\* The match on the two outcomes: a wins ties, and when both have failed.
Better(a, b) ==
  IF a # Failed /\ b # Failed THEN IF a <= b THEN 1 ELSE 2
  ELSE IF b # Failed THEN 2 ELSE 1

\* Slips of Choose: a failed probe passes for an idle replica, as -2 would;
\* no choice is made without an answer.
ChooseLeast(q) ==
  /\ stage[q] = "probing" /\ \A k \in Side : heard[q][k] # Pending
  /\ stage' = [stage EXCEPT ![q] = "chosen"]
  /\ choice' = [choice EXCEPT ![q] = pair[q][IF heard[q][1] <= heard[q][2] THEN 1 ELSE 2]]
  /\ UNCHANGED <<load, pair, heard>>
ChooseKnown(q) ==
  /\ stage[q] = "probing" /\ \A k \in Side : heard[q][k] # Pending
  /\ \E k \in Side : heard[q][k] # Failed
  /\ stage' = [stage EXCEPT ![q] = "chosen"]
  /\ choice' = [choice EXCEPT ![q] = pair[q][Better(heard[q][1], heard[q][2])]]
  /\ UNCHANGED <<load, pair, heard>>

\* Both probes are over (tokio::join!) and select() returns.
Choose(q) ==
  /\ stage[q] = "probing" /\ \A k \in Side : heard[q][k] # Pending
  /\ stage' = [stage EXCEPT ![q] = "chosen"]
  /\ choice' = [choice EXCEPT ![q] = pair[q][Better(heard[q][1], heard[q][2])]]
  /\ UNCHANGED <<load, pair, heard>>

\* Requests arrive at a replica or leave it.
LoadChanges ==
  /\ \E i \in Index : \E l \in Load \cap {load[i] - 1, load[i] + 1} :
       load' = [load EXCEPT ![i] = l]
  /\ UNCHANGED <<stage, pair, heard, choice>>

\* What a query's task does by itself; its probes end, if only by timeout.
Po2Step(q) == (\E k \in Side : Hear(q, k) \/ Miss(q, k)) \/ Choose(q)

Po2Next == (\E q \in Po2Query : Draw(q) \/ Po2Step(q)) \/ LoadChanges

-----------------------------------------------------------------------------
\* The types of the po2 tasks' state; the two replicas drawn are distinct.
Po2TypeOK ==
  /\ load \in [Index -> Load]
  /\ stage \in [Po2Query -> {"new", "probing", "chosen"}]
  /\ pair \in [Po2Query -> Index \X Index]
  /\ \A q \in Po2Query : pair[q][1] # pair[q][2]
  /\ heard \in [Po2Query -> ({Pending, Failed} \cup Load) \X ({Pending, Failed} \cup Load)]
  /\ choice \in [Po2Query -> Index \cup {Unchosen}]
=============================================================================
