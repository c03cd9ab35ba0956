------------------------------- MODULE InFlight -------------------------------
(***************************************************************************)
(* What a replica promises about the load it reports (ServerState::rif in  *)
(* src/src/servers/replica.rs, "Requests in flight, incremented on arrival *)
(* and decremented on completion (or cancellation)"): each request is      *)
(* there once, and the report is always the number of those that are.      *)
(***************************************************************************)
EXTENDS Integers, FiniteSets

CONSTANT Request

VARIABLES
  present,   \* the requests being handled
  past,      \* the requests handled or given up
  rif        \* what a probe is told

Report == rif' = Cardinality(present')

Init == present = {} /\ past = {} /\ rif = 0

Enter(q) ==
  /\ q \notin present \cup past
  /\ present' = present \cup {q}
  /\ Report
  /\ UNCHANGED past

Exit(q) ==
  /\ q \in present
  /\ present' = present \ {q}
  /\ past' = past \cup {q}
  /\ Report

Next == \E q \in Request : Enter(q) \/ Exit(q)

Spec == Init /\ [][Next]_<<present, past, rif>>
=============================================================================
