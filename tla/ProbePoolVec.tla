---------------------------- MODULE ProbePoolVec ----------------------------
(***************************************************************************)
(* The probe pool as the Vec that src/src/client/pool.rs keeps it in.      *)
(* retain() closes the gaps it makes, push() appends, and swap_remove()    *)
(* puts the last probe into the freed slot, so that after a removal the    *)
(* place of a probe no longer tells its age; min_by_key() returns the      *)
(* first minimum it meets and max_by_key() the last maximum.  Unlike       *)
(* ProbePool, which is the set of the responses and leaves ties open, a    *)
(* selection here has a single outcome.  The variables bear the names of   *)
(* the source, so that both modules can be extended by one.                *)
(***************************************************************************)
EXTENDS Probes, Sequences, OrderStatistics

VARIABLES
  probes,              \* ProbePool::probes
  remove_oldest_next,  \* ProbePool::remove_oldest_next
  clock                \* the client's monotonic clock

vecVars == <<probes, remove_oldest_next, clock>>

\* A probe in a slot of the Vec, with the instant at which it was stored.
Entry == [replica : Replica, rif : Nat, rif_at_probe : Nat, latency_us : Nat,
          uses : Nat, received_at : Nat]

Slots(v) == 1 .. Len(v)
NoSlot == 0

-----------------------------------------------------------------------------
(* What the source takes from the standard library.                        *)

\* Slip of SwapRemove: the last probe is copied into the freed slot and stays.
SwapRemoveCopying(v, i) == [k \in 1 .. Len(v) |-> IF k = i THEN v[Len(v)] ELSE v[k]]

\* Vec::swap_remove
SwapRemove(v, i) == [k \in 1 .. Len(v) - 1 |-> IF k = i THEN v[Len(v)] ELSE v[k]]

\* The place in v of the k-th member of the set S of slots.
NthSlot(S, k) == CHOOSE i \in S : Cardinality({j \in S : j <= i}) = k

\* Vec::retain, for the slots in S.
Retain(v, S) == [k \in 1 .. Cardinality(S) |-> v[NthSlot(S, k)]]

\* Iterator::min_by_key and max_by_key over the slots in S.
FirstMin(S, key) ==
  CHOOSE i \in S : \A j \in S : key[i] < key[j] \/ (key[i] = key[j] /\ i <= j)
LastMax(S, key) ==
  CHOOSE i \in S : \A j \in S : key[j] < key[i] \/ (key[j] = key[i] /\ j <= i)

-----------------------------------------------------------------------------
(* Operators on a Vec v of probes.                                         *)

ReceivedAt(v) == [i \in Slots(v) |-> v[i].received_at]
RifIn(v) == [i \in Slots(v) |-> v[i].rif]
LatencyIn(v) == [i \in Slots(v) |-> AdjustedLatency(v[i])]

\* The probe that ProbePool::remove_oldest picks.
OldestSlot(v) == FirstMin(Slots(v), ReceivedAt(v))

\* ProbePool::insert
InsertIn(v, entry) ==
  Append(IF Len(v) >= Capacity /\ v # << >> THEN SwapRemove(v, OldestSlot(v)) ELSE v,
         entry)

\* ProbePool::expire
ExpireIn(v, at) ==
  Retain(v, {i \in Slots(v) : at - v[i].received_at < Ttl /\ v[i].uses < ReuseBudget})

\* Slip of LatestSlots: the last copy in the Vec is taken for the latest.
LastSlots(v) ==
  {i \in Slots(v) : \A j \in Slots(v) : v[j].replica = v[i].replica => j <= i}

\* The probes whose RIF the pass of hot_threshold leaves in its map: of each
\* replica the one received last, and the last of these in the Vec.
LatestSlots(v) ==
  {i \in Slots(v) : \A j \in Slots(v) :
     v[j].replica = v[i].replica =>
       \/ v[j].received_at < v[i].received_at
       \/ v[j].received_at = v[i].received_at /\ j <= i}

\* ProbePool::hot_threshold
ThresholdIn(v) ==
  Sorted(LatestSlots(v), RifIn(v), QuantileIndex(Cardinality(LatestSlots(v))))

ColdSlots(v) == {i \in Slots(v) : v[i].rif <= ThresholdIn(v)}

\* The probe that hcl_select picks.
HclSlot(v) ==
  IF ColdSlots(v) # {} THEN FirstMin(ColdSlots(v), LatencyIn(v))
                       ELSE FirstMin(Slots(v), RifIn(v))

\* What hcl_select does to the Vec once it has picked the probe in slot w.
CompensateIn(v, w) ==
  [i \in Slots(v) |->
     [v[i] EXCEPT !.uses = IF i = w THEN @ + 1 ELSE @,
                  !.rif  = IF v[i].replica = v[w].replica THEN @ + 1 ELSE @]]

\* The probe that remove_one picks as the worst.
WorstSlot(v) ==
  IF ColdSlots(v) # Slots(v) THEN LastMax(Slots(v), RifIn(v))
                             ELSE LastMax(Slots(v), LatencyIn(v))

-----------------------------------------------------------------------------
VecInit ==
  /\ probes = << >>
  /\ remove_oldest_next = FALSE
  /\ clock = 0

\* A probe task stores a response.
VecStore(r, rif, latency) ==
  /\ clock + 1 \in Instant
  /\ clock' = clock + 1
  /\ probes' = InsertIn(probes,
                        [replica |-> r, rif |-> rif, rif_at_probe |-> rif,
                         latency_us |-> latency, uses |-> 0, received_at |-> clock'])
  /\ UNCHANGED remove_oldest_next

\* ProbePool::remove_one applied to v.
VecRemoveOne(v) ==
  \/ /\ v = << >>
     /\ probes' = v
     /\ UNCHANGED remove_oldest_next
  \/ /\ v # << >>
     /\ remove_oldest_next' = ~remove_oldest_next
     /\ probes' = SwapRemove(v, IF remove_oldest_next' THEN OldestSlot(v) ELSE WorstSlot(v))

\* The critical section of Balancer::select.
VecSelect ==
  LET live == ExpireIn(probes, clock)
      w == IF Len(live) < 2 THEN NoSlot ELSE HclSlot(live)
  IN  /\ VecRemoveOne(IF w = NoSlot THEN live ELSE CompensateIn(live, w))
      /\ UNCHANGED clock

\* Time passes.
VecPass ==
  /\ clock + 1 \in Instant
  /\ clock' = clock + 1
  /\ UNCHANGED <<probes, remove_oldest_next>>

VecNext ==
  \/ \E r \in Replica, rif \in RifReading, l \in LatencyReading : VecStore(r, rif, l)
  \/ VecSelect
  \/ VecPass

VecSpec == VecInit /\ [][VecNext]_vecVars

-----------------------------------------------------------------------------
(* The pool that a Vec of probes stands for.                               *)

SlotAt(v, t) == CHOOSE i \in Slots(v) : v[i].received_at = t

Response(entry) ==
  [replica |-> entry.replica, rif |-> entry.rif, rif_at_probe |-> entry.rif_at_probe,
   latency_us |-> entry.latency_us, uses |-> entry.uses]

PoolOf(v) ==
  [t \in {v[i].received_at : i \in Slots(v)} |-> Response(v[SlotAt(v, t)])]

Pool == INSTANCE ProbePool
          WITH pool <- PoolOf(probes), removeOldestNext <- remove_oldest_next, now <- clock

\* The Vec holds probes of the past, each with an instant of its own, whatever
\* order swap_remove has left them in.
VecTypeOK ==
  /\ clock \in Nat
  /\ remove_oldest_next \in BOOLEAN
  /\ probes \in Seq(Entry)
  /\ \A i \in Slots(probes) : probes[i].received_at \in 1 .. clock
  /\ \A i, j \in Slots(probes) : probes[i].received_at = probes[j].received_at => i = j

\* What pool.rs does by place, swapping probes about, taking first minima and
\* last maxima and scanning for each replica's latest copy in whatever order
\* the Vec is, is what ProbePool does by age: no decision, removal or threshold
\* depends on where in the Vec a probe has ended up.
ImplementsProbePool == Pool!Spec
=============================================================================
