------------------------- MODULE RecentCompletions -------------------------
(***************************************************************************)
(* What the latency ring of a replica promises (replica.rs, "Ring buffer   *)
(* of recently completed queries"): the last Kept completions, in order.   *)
(***************************************************************************)
EXTENDS Integers, Sequences

CONSTANTS Kept, Entry

VARIABLE recent

LastKept(s) == IF Len(s) <= Kept THEN s ELSE SubSeq(s, Len(s) - Kept + 1, Len(s))

Init == recent = <<>>

Next == \E e \in Entry : recent' = LastKept(Append(recent, e))

Spec == Init /\ [][Next]_recent
=============================================================================
