----------------------------- MODULE LatencyRing -----------------------------
(***************************************************************************)
(* A replica's ring of completed queries and the latency estimate probes   *)
(* read from it (LatencyRing in src/src/servers/replica.rs).  Every        *)
(* operation runs under the ring's lock.                                   *)
(***************************************************************************)
EXTENDS Integers, Sequences, FiniteSets, OrderStatistics

CONSTANTS
  RingCapacity,   \* samples retained (512 in replica::run)
  MaxAge,         \* age up to which a sample is fresh (500 ms)
  Near,           \* samples an estimate rests on (16)
  Tag,            \* values of rif_at_arrival considered
  Duration,       \* values of duration_us considered
  Moment          \* clock readings: Nat, or 0 .. n to bound a run

ASSUME RingAssumption == RingCapacity \in Nat \ {0} /\ Near \in Nat \ {0}
ASSUME AgeAssumption == MaxAge \in Nat /\ Moment \subseteq Nat /\ 0 \in Moment
ASSUME SampleAssumption == Tag \subseteq Nat \ {0} /\ Duration \subseteq Nat

VARIABLES
  entries,   \* LatencyRing::entries
  head,      \* LatencyRing::head, counted from 0
  clock      \* the replica's monotonic clock

ringVars == <<entries, head, clock>>

RingEntry == [rif_at_arrival : Tag, duration_us : Duration, finished_at : Moment]

-----------------------------------------------------------------------------
(* LatencyRing::median_near                                                *)

\* Slip of AbsDiff: saturating_sub, so every lower tag is taken to be near.
AbsDiffSaturating(a, b) == IF a <= b THEN 0 ELSE a - b

AbsDiff(a, b) == IF a <= b THEN b - a ELSE a - b

Fresh(es, at) == {i \in DOMAIN es : at - es[i].finished_at <= MaxAge}

\* Slip of Candidates: the freshness filter is gone.
CandidatesOfAnyAge(es, at) == DOMAIN es

\* The samples an estimate may use: the fresh ones, or all if none is.
Candidates(es, at) == IF Fresh(es, at) = {} THEN DOMAIN es ELSE Fresh(es, at)

\* The choices of at most Near candidates nearest in RIF that sorting by
\* distance may leave in front; equal distances may come in any order.
Nearest(es, at, rif) ==
  LET cs == Candidates(es, at)
      size == IF Cardinality(cs) < Near THEN Cardinality(cs) ELSE Near
      Distance(i) == AbsDiff(es[i].rif_at_arrival, rif)
  IN  {S \in SUBSET cs : /\ Cardinality(S) = size
                         /\ \A i \in S, j \in cs \ S : Distance(i) <= Distance(j)}

Durations(es) == [i \in DOMAIN es |-> es[i].duration_us]
Tags(es) == [i \in DOMAIN es |-> es[i].rif_at_arrival]

\* Slips of Scaled: the ratio is upside down; the ones are left out of it.
ScaledInverse(latency, rif, tag) == (latency * (tag + 1)) \div (rif + 1)
ScaledWithoutSelf(latency, rif, tag) == (latency * rif) \div tag

Scaled(latency, rif, tag) == (latency * (rif + 1)) \div (tag + 1)

\* The estimates a probe may get at RIF rif.
Estimates(es, at, rif) ==
  IF es = <<>> THEN {0}
  ELSE {Scaled(Median(S, Durations(es)), rif, Median(S, Tags(es))) :
          S \in Nearest(es, at, rif)}

-----------------------------------------------------------------------------
RingInit == entries = <<>> /\ head = 0 /\ clock = 0

\* Slip of Push: the head stays where it is.
PushInPlace(tag, duration) ==
  LET e == [rif_at_arrival |-> tag, duration_us |-> duration, finished_at |-> clock]
  IN  /\ entries' = IF Len(entries) < RingCapacity
                    THEN Append(entries, e) ELSE [entries EXCEPT ![head + 1] = e]
      /\ UNCHANGED <<head, clock>>

\* Slip of Push: the head moves from the start, not only once full.
PushEagerly(tag, duration) ==
  LET e == [rif_at_arrival |-> tag, duration_us |-> duration, finished_at |-> clock]
  IN  /\ entries' = IF Len(entries) < RingCapacity
                    THEN Append(entries, e) ELSE [entries EXCEPT ![head + 1] = e]
      /\ head' = (head + 1) % RingCapacity
      /\ UNCHANGED clock

\* LatencyRing::push
Push(tag, duration) ==
  LET e == [rif_at_arrival |-> tag, duration_us |-> duration, finished_at |-> clock]
  IN  /\ \/ /\ Len(entries) < RingCapacity
            /\ entries' = Append(entries, e)
            /\ UNCHANGED head
         \/ /\ Len(entries) >= RingCapacity
            /\ entries' = [entries EXCEPT ![head + 1] = e]
            /\ head' = (head + 1) % RingCapacity
      /\ UNCHANGED clock

Tick ==
  /\ clock + 1 \in Moment
  /\ clock' = clock + 1
  /\ UNCHANGED <<entries, head>>

RingNext ==
  \/ \E tag \in Tag, duration \in Duration : Push(tag, duration)
  \/ Tick

RingSpec == RingInit /\ [][RingNext]_ringVars

-----------------------------------------------------------------------------
\* The ring's type: the head points at a slot, and is 0 until the ring fills.
RingTypeOK ==
  /\ entries \in Seq(RingEntry)
  /\ Len(entries) <= RingCapacity
  /\ head \in 0 .. RingCapacity - 1
  /\ Len(entries) < RingCapacity => head = 0
  /\ clock \in Moment

\* The samples from the oldest to the newest: the slots from the head on,
\* then those before it.
InOrder == SubSeq(entries, head + 1, Len(entries)) \o SubSeq(entries, 1, head)

Recent == INSTANCE RecentCompletions
            WITH recent <- InOrder, Kept <- RingCapacity, Entry <- RingEntry

\* Overwriting in place at the head keeps exactly the last completions, in
\* order, across every wrap of the head.
KeepsLastCompletions == Recent!Spec
=============================================================================
