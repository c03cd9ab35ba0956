-------------------------- MODULE LatencyRingProofs --------------------------
(***************************************************************************)
(* Theorems about the latency ring of a replica, for every capacity: the   *)
(* samples from the head on, then those before it, are the last            *)
(* completions in order (LatencyRing::push in servers/replica.rs), and     *)
(* what median_near makes of them.                                         *)
(***************************************************************************)
EXTENDS LatencyRingAudit, Lemmas, SequenceTheorems

\* Reading a sequence from position h + 1 on and then from its start.
Rotated(s, h) == SubSeq(s, h + 1, Len(s)) \o SubSeq(s, 1, h)

\* The elements of a rotated sequence.
LEMMA RotatedElements ==
  ASSUME NEW E, NEW s \in Seq(E), NEW h \in Nat, h <= Len(s)
  PROVE  /\ Rotated(s, h) \in Seq(E)
         /\ Len(Rotated(s, h)) = Len(s)
         /\ \A k \in 1 .. Len(s) :
              Rotated(s, h)[k] = IF k <= Len(s) - h THEN s[h + k] ELSE s[k - (Len(s) - h)]
<1> DEFINE a == SubSeq(s, h + 1, Len(s))
           b == SubSeq(s, 1, h)
<1>1. Len(s) \in Nat
  BY LenProperties
<1>2. /\ a \in Seq(E)
      /\ Len(a) = Len(s) - h
      /\ \A k \in 1 .. Len(a) : a[k] = s[h + k]
  <2>1. CASE h = Len(s)
    BY <1>1, <2>1, SubSeqProperties
  <2>2. CASE h < Len(s)
    BY <1>1, <2>2, SubSeqProperties
  <2> QED
    BY <1>1, <2>1, <2>2
<1>3. /\ b \in Seq(E)
      /\ Len(b) = h
      /\ \A k \in 1 .. h : b[k] = s[k]
  <2>1. CASE h = 0
    BY <1>1, <2>1, SubSeqProperties
  <2>2. CASE h > 0
    BY <1>1, <2>2, SubSeqProperties
  <2> QED
    BY <1>1, <2>1, <2>2
<1> HIDE DEF a, b
<1>4. /\ a \o b \in Seq(E)
      /\ Len(a \o b) = Len(a) + Len(b)
      /\ \A k \in 1 .. Len(a) : (a \o b)[k] = a[k]
      /\ \A k \in Len(a) + 1 .. Len(a) + Len(b) : (a \o b)[k] = b[k - Len(a)]
  <2>1. /\ a \o b \in Seq(E)
        /\ Len(a \o b) = Len(a) + Len(b)
        /\ \A k \in 1 .. Len(a) + Len(b) :
             (a \o b)[k] = IF k <= Len(a) THEN a[k] ELSE b[k - Len(a)]
    BY <1>2, <1>3, ConcatProperties, Zenon
  <2>2. Len(a) \in Nat /\ Len(b) \in Nat
    BY <1>2, <1>3, LenProperties
  <2> DEFINE c == a \o b
  <2>3. \A k \in 1 .. Len(a) + Len(b) : c[k] = IF k <= Len(a) THEN a[k] ELSE b[k - Len(a)]
    BY <2>1
  <2> HIDE DEF c
  <2>4. ASSUME NEW k \in 1 .. Len(a)
        PROVE  c[k] = a[k]
    BY <2>2, <2>3
  <2>5. ASSUME NEW k \in Len(a) + 1 .. Len(a) + Len(b)
        PROVE  c[k] = b[k - Len(a)]
    <3>1. k \in 1 .. Len(a) + Len(b) /\ ~(k <= Len(a))
      BY <2>2
    <3> QED
      BY <2>3, <3>1
  <2> QED
    BY <2>1, <2>4, <2>5, Zenon DEF c
<1>5. Rotated(s, h) = a \o b
  BY DEF Rotated, a, b
<1> DEFINE r == Rotated(s, h)
<1>6. /\ r \in Seq(E)
      /\ Len(r) = Len(s)
      /\ \A k \in 1 .. Len(a) : r[k] = a[k]
      /\ \A k \in Len(a) + 1 .. Len(s) : r[k] = b[k - Len(a)]
  <2>1. Len(a) + Len(b) = Len(s)
    BY <1>1, <1>2, <1>3
  <2>2. r = a \o b
    BY <1>5
  <2> HIDE DEF r
  <2> QED
    BY <1>4, <2>1, <2>2
<1> HIDE DEF r
<1>7. ASSUME NEW k \in 1 .. Len(s), k <= Len(s) - h
      PROVE  r[k] = s[h + k]
  <2>1. k \in 1 .. Len(a)
    BY <1>1, <1>2, <1>7
  <2> QED
    BY <1>2, <1>6, <2>1
<1>8. ASSUME NEW k \in 1 .. Len(s), ~(k <= Len(s) - h)
      PROVE  r[k] = s[k - (Len(s) - h)]
  <2>1. k \in Len(a) + 1 .. Len(s) /\ k - Len(a) \in 1 .. h
    BY <1>1, <1>2, <1>8
  <2> QED
    BY <1>2, <1>3, <1>6, <2>1
<1>9. \A k \in 1 .. Len(s) : r[k] = IF k <= Len(s) - h THEN s[h + k] ELSE s[k - (Len(s) - h)]
  BY <1>7, <1>8
<1> QED
  BY <1>6, <1>9 DEF r

\* A push keeps the ring's type.
LEMMA PushTyped ==
  ASSUME RingTypeOK, NEW tag \in Tag, NEW duration \in Duration, Push(tag, duration)
  PROVE  RingTypeOK'
<1> DEFINE e == [rif_at_arrival |-> tag, duration_us |-> duration, finished_at |-> clock]
<1>1. e \in RingEntry
  BY DEF RingTypeOK, RingEntry
<1>2. /\ \/ /\ Len(entries) < RingCapacity
            /\ entries' = Append(entries, e)
            /\ head' = head
         \/ /\ Len(entries) >= RingCapacity
            /\ entries' = [entries EXCEPT ![head + 1] = e]
            /\ head' = (head + 1) % RingCapacity
      /\ clock' = clock
  BY DEF Push
<1> HIDE DEF e
<1>3. CASE Len(entries) < RingCapacity
  BY <1>1, <1>2, <1>3, RingAssumption, AppendProperties DEF RingTypeOK
<1>4. CASE Len(entries) >= RingCapacity
  <2>1. Len(entries) = RingCapacity /\ head + 1 \in 1 .. Len(entries)
    BY <1>4, RingAssumption, LenProperties DEF RingTypeOK
  <2>2. entries' \in Seq(RingEntry) /\ Len(entries') = RingCapacity
    BY <1>1, <1>2, <1>4, <2>1, ExceptSeq, LenProperties, RingAssumption DEF RingTypeOK
  <2>3. head' \in 0 .. RingCapacity - 1
    BY <1>2, <1>4, <2>1, RingAssumption DEF RingTypeOK
  <2> QED
    BY <1>2, <2>2, <2>3, RingAssumption DEF RingTypeOK
<1> QED
  BY <1>3, <1>4, RingAssumption, LenProperties DEF RingTypeOK

\* Type correctness of the ring: the head points at a slot, and stays at the
\* first one until the ring is full.
THEOREM RingTypeCorrect == RingSpec => []RingTypeOK
<1>1. RingInit => RingTypeOK
  BY RingAssumption, AgeAssumption DEF RingInit, RingTypeOK
<1>2. RingTypeOK /\ [RingNext]_ringVars => RingTypeOK'
  <2>1. RingTypeOK /\ Tick => RingTypeOK'
    BY DEF Tick, RingTypeOK
  <2>2. RingTypeOK /\ UNCHANGED ringVars => RingTypeOK'
    BY DEF ringVars, RingTypeOK
  <2> QED
    BY <2>1, <2>2, PushTyped DEF RingNext
<1> QED
  BY <1>1, <1>2, PTL DEF RingSpec

\* Overwriting at the head of a full ring drops the first element of the
\* rotated sequence and appends the new one.
LEMMA OverwriteRotates ==
  ASSUME NEW E, NEW s \in Seq(E), NEW e \in E, NEW h \in Nat, h < Len(s)
  PROVE  Rotated([s EXCEPT ![h + 1] = e], (h + 1) % Len(s))
           = SubSeq(Append(Rotated(s, h), e), 2, Len(s) + 1)
<1> DEFINE n == Len(s)
           s2 == [s EXCEPT ![h + 1] = e]
           h2 == (h + 1) % n
           old == Rotated(s, h)
           new == Rotated(s2, h2)
           wide == Append(old, e)
           kept == SubSeq(wide, 2, n + 1)
<1>1. n \in Nat /\ h + 1 \in 1 .. n
  BY LenProperties
<1>2. s2 \in Seq(E) /\ Len(s2) = n /\ \A j \in 1 .. n : s2[j] = IF j = h + 1 THEN e ELSE s[j]
  BY <1>1, ExceptSeq
<1>3. h2 = IF h + 1 = n THEN 0 ELSE h + 1
  BY <1>1
<1>4. /\ old \in Seq(E) /\ Len(old) = n
      /\ \A k \in 1 .. n : old[k] = IF k <= n - h THEN s[h + k] ELSE s[k - (n - h)]
  BY <1>1, RotatedElements
<1> HIDE DEF s2, h2
<1>5. /\ new \in Seq(E) /\ Len(new) = n
      /\ \A k \in 1 .. n : new[k] = IF k <= n - h2 THEN s2[h2 + k] ELSE s2[k - (n - h2)]
  <2>1. h2 \in Nat /\ h2 <= Len(s2) /\ s2 \in Seq(E) /\ Len(s2) = n
    BY <1>1, <1>2, <1>3
  <2> HIDE DEF n
  <2>2. /\ Rotated(s2, h2) \in Seq(E)
        /\ Len(Rotated(s2, h2)) = Len(s2)
        /\ \A k \in 1 .. Len(s2) :
             Rotated(s2, h2)[k] = IF k <= Len(s2) - h2 THEN s2[h2 + k] ELSE s2[k - (Len(s2) - h2)]
    BY <2>1, RotatedElements
  <2> QED
    BY <2>1, <2>2
<1> HIDE DEF n, old, new
<1>6. /\ wide \in Seq(E) /\ Len(wide) = n + 1
      /\ \A k \in 1 .. n : wide[k] = old[k]
      /\ wide[n + 1] = e
  <2> HIDE DEF wide, kept
  <2>1. /\ Append(old, e) \in Seq(E)
        /\ Len(Append(old, e)) = Len(old) + 1
        /\ \A k \in 1 .. Len(old) : Append(old, e)[k] = old[k]
        /\ Append(old, e)[Len(old) + 1] = e
    <3>1. old \in Seq(E)
      BY <1>4
    <3> QED
      BY <3>1, AppendProperties
  <2>2. wide = Append(old, e) /\ Len(old) = n
    BY <1>4 DEF wide
  <2> QED
    BY <2>1, <2>2, Zenon
<1> HIDE DEF wide
<1>7. /\ kept \in Seq(E) /\ Len(kept) = n
      /\ \A k \in 1 .. n : kept[k] = wide[k + 1]
  <2>1. \A i \in 2 .. n + 1 : wide[i] \in E
    BY <1>1, <1>6, ElementOfSeq
  <2>2. /\ kept \in Seq(E)
        /\ Len(kept) = IF 2 <= n + 1 THEN n + 1 - 2 + 1 ELSE 0
        /\ \A k \in 1 .. n + 1 - 2 + 1 : kept[k] = wide[2 + k - 1]
    BY <1>1, <2>1, SubSeqProperties
  <2> HIDE DEF kept
  <2>3. \A k \in 1 .. n : kept[k] = wide[k + 1]
    <3> TAKE k \in 1 .. n
    <3>1. k \in 1 .. n + 1 - 2 + 1 /\ 2 + k - 1 = k + 1
      BY <1>1
    <3> QED
      BY <2>2, <3>1
  <2> QED
    BY <1>1, <2>2, <2>3
<1> HIDE DEF kept
<1>8. ASSUME NEW k \in 1 .. n, k < n
      PROVE  new[k] = kept[k]
  <2>1. kept[k] = old[k + 1] /\ k + 1 \in 1 .. n
    BY <1>1, <1>6, <1>7, <1>8
  <2>2. CASE k + 1 <= n - h
    <3>1. old[k + 1] = s[h + k + 1] /\ h + 1 # n
      BY <1>1, <1>4, <1>8, <2>1, <2>2
    <3>2. new[k] = s2[h + 1 + k]
      BY <1>1, <1>3, <1>5, <1>8, <2>2, <3>1
    <3>3. h + 1 + k \in 1 .. n /\ h + 1 + k # h + 1
      BY <1>1, <1>8, <2>2
    <3> QED
      BY <1>2, <2>1, <3>1, <3>2, <3>3
  <2>3. CASE ~(k + 1 <= n - h)
    <3>1. old[k + 1] = s[k + 1 - (n - h)]
      BY <1>1, <1>4, <1>8, <2>1, <2>3
    <3>2. new[k] = s2[k + 1 - (n - h)]
      <4>1. CASE h + 1 = n
        BY <1>1, <1>3, <1>5, <1>8, <2>3, <4>1
      <4>2. CASE h + 1 # n
        BY <1>1, <1>3, <1>5, <1>8, <2>3, <4>2
      <4> QED
        BY <4>1, <4>2
    <3>3. k + 1 - (n - h) \in 1 .. n /\ k + 1 - (n - h) # h + 1
      BY <1>1, <1>8, <2>3
    <3> QED
      BY <1>2, <2>1, <3>1, <3>2, <3>3
  <2> QED
    BY <2>2, <2>3
<1>9. new[n] = kept[n]
  <2>1. kept[n] = e
    BY <1>1, <1>6, <1>7
  <2>2. new[n] = s2[h + 1]
    <3>1. CASE h + 1 = n
      BY <1>1, <1>3, <1>5, <3>1
    <3>2. CASE h + 1 # n
      BY <1>1, <1>3, <1>5, <3>2
    <3> QED
      BY <3>1, <3>2
  <2> QED
    BY <1>1, <1>2, <2>1, <2>2
<1>10. \A k \in 1 .. n : new[k] = kept[k]
  BY <1>1, <1>8, <1>9
<1>11. new = kept
  BY <1>5, <1>7, <1>10, SeqEqual
<1> QED
  BY <1>11 DEF n, s2, h2, old, new, wide, kept

\* The ring implements the list of the last completions: every push drops
\* the oldest sample, if the ring is full, and appends the new one.
THEOREM RingKeepsLastCompletions == RingSpec => KeepsLastCompletions
<1>1. RingInit => Recent!Init
  BY SubSeqProperties, ConcatEmptySeq DEF RingInit, Recent!Init, InOrder
<1>2. RingTypeOK /\ [RingNext]_ringVars => [Recent!Next]_InOrder
  <2> SUFFICES ASSUME RingTypeOK, [RingNext]_ringVars
               PROVE  [Recent!Next]_InOrder
    OBVIOUS
  <2>1. InOrder = Rotated(entries, head) /\ InOrder' = Rotated(entries', head')
    BY DEF InOrder, Rotated
  <2>2. /\ entries \in Seq(RingEntry) /\ Len(entries) \in Nat
        /\ Len(entries) <= RingCapacity
        /\ head \in 0 .. RingCapacity - 1
        /\ Len(entries) < RingCapacity => head = 0
    BY LenProperties DEF RingTypeOK
  <2>3. ASSUME NEW tag \in Tag, NEW duration \in Duration, Push(tag, duration)
        PROVE  Recent!Next
    <3> DEFINE e == [rif_at_arrival |-> tag, duration_us |-> duration, finished_at |-> clock]
    <3>1. e \in RingEntry
      BY DEF RingTypeOK, RingEntry
    <3>2. \/ /\ Len(entries) < RingCapacity
             /\ entries' = Append(entries, e)
             /\ head' = head
          \/ /\ Len(entries) >= RingCapacity
             /\ entries' = [entries EXCEPT ![head + 1] = e]
             /\ head' = (head + 1) % RingCapacity
      BY <2>3 DEF Push
    <3> HIDE DEF e
    <3>3. SUFFICES InOrder' = Recent!LastKept(Append(InOrder, e))
      BY <3>1 DEF Recent!Next
    <3>4. /\ InOrder \in Seq(RingEntry)
          /\ Len(InOrder) = Len(entries)
          /\ Len(Append(InOrder, e)) = Len(entries) + 1
      <4>1. head \in Nat /\ head <= Len(entries)
        BY <2>2, RingAssumption
      <4>2. InOrder \in Seq(RingEntry) /\ Len(InOrder) = Len(entries)
        BY <2>1, <2>2, <4>1, RotatedElements
      <4> QED
        BY <3>1, <4>2, AppendProperties
    <3>5. CASE Len(entries) < RingCapacity
      <4>1. head = 0 /\ head' = 0 /\ entries' = Append(entries, e)
        BY <2>2, <3>2, <3>5, RingAssumption
      <4>2. entries' \in Seq(RingEntry)
        BY <2>2, <3>1, <4>1, AppendProperties
      <4>3. \A s \in Seq(RingEntry) : Rotated(s, 0) = s
        <5> TAKE s \in Seq(RingEntry)
        <5>1. Len(s) \in Nat
          BY LenProperties
        <5>2. /\ Rotated(s, 0) \in Seq(RingEntry) /\ Len(Rotated(s, 0)) = Len(s)
              /\ \A k \in 1 .. Len(s) :
                   Rotated(s, 0)[k] = IF k <= Len(s) - 0 THEN s[0 + k] ELSE s[k - (Len(s) - 0)]
          BY <5>1, RotatedElements
        <5>3. \A k \in 1 .. Len(s) : Rotated(s, 0)[k] = s[k]
          BY <5>1, <5>2
        <5> QED
          BY <5>2, <5>3, SeqEqual
      <4>4. InOrder = entries /\ InOrder' = Append(entries, e)
        BY <2>1, <2>2, <4>1, <4>2, <4>3
      <4>5. Len(Append(InOrder, e)) <= RingCapacity
        BY <2>2, <3>4, <3>5, RingAssumption
      <4> QED
        BY <4>4, <4>5 DEF Recent!LastKept
    <3>6. CASE Len(entries) >= RingCapacity
      <4>1. /\ Len(entries) = RingCapacity
            /\ entries' = [entries EXCEPT ![head + 1] = e]
            /\ head' = (head + 1) % Len(entries)
        BY <2>2, <3>2, <3>6, RingAssumption
      <4>2. InOrder' = SubSeq(Append(InOrder, e), 2, Len(entries) + 1)
        <5>1. head \in Nat /\ head < Len(entries)
          BY <2>2, <4>1, RingAssumption
        <5>2. Rotated([entries EXCEPT ![head + 1] = e], (head + 1) % Len(entries))
                = SubSeq(Append(Rotated(entries, head), e), 2, Len(entries) + 1)
          BY <2>2, <3>1, <5>1, OverwriteRotates
        <5> QED
          BY <2>1, <4>1, <5>2
      <4>3. ~(Len(Append(InOrder, e)) <= RingCapacity)
        BY <2>2, <3>4, <4>1, RingAssumption
      <4>4. Len(Append(InOrder, e)) - RingCapacity + 1 = 2
        BY <2>2, <3>4, <4>1, RingAssumption
      <4> QED
        BY <3>4, <4>2, <4>3, <4>4 DEF Recent!LastKept
    <3> QED
      BY <2>2, <3>5, <3>6, RingAssumption
  <2>4. CASE Tick \/ UNCHANGED ringVars
    BY <2>4 DEF Tick, ringVars, InOrder
  <2> QED
    BY <2>3, <2>4 DEF RingNext
<1> QED
  BY <1>1, <1>2, RingTypeCorrect, PTL DEF RingSpec, KeepsLastCompletions, Recent!Spec

-----------------------------------------------------------------------------
(* The estimate.                                                           *)

\* Dividing undoes multiplying.
LEMMA DivisionCancels == \A x \in Nat, y \in Nat \ {0} : (x * y) \div y = x
OBVIOUS

\* What the ring's entries are, one by one.
LEMMA EntriesTyped ==
  ASSUME RingTypeOK
  PROVE  /\ DOMAIN entries = 1 .. Len(entries) /\ Len(entries) \in Nat
         /\ IsFiniteSet(DOMAIN entries) /\ Cardinality(DOMAIN entries) = Len(entries)
         /\ entries # <<>> <=> DOMAIN entries # {}
         /\ clock \in Nat
         /\ \A i \in DOMAIN entries : /\ entries[i].rif_at_arrival \in Nat \ {0}
                                      /\ entries[i].duration_us \in Nat
                                      /\ entries[i].finished_at \in Nat
<1>1. entries \in Seq(RingEntry) /\ clock \in Nat
  BY AgeAssumption DEF RingTypeOK
<1>2. DOMAIN entries = 1 .. Len(entries) /\ Len(entries) \in Nat
  BY <1>1, LenProperties
<1>3. \A i \in DOMAIN entries : entries[i] \in RingEntry
  BY <1>1, <1>2, ElementOfSeq
<1>4. entries # <<>> <=> DOMAIN entries # {}
  <2>1. entries # <<>> => 1 \in 1 .. Len(entries)
    <3>1. entries # <<>> => Len(entries) \in Nat \ {0}
      BY <1>1, EmptySeq
    <3> QED
      BY <3>1
  <2>2. DOMAIN <<>> = {}
    OBVIOUS
  <2> QED
    BY <1>2, <2>1, <2>2
<1>5. IsFiniteSet(DOMAIN entries) /\ Cardinality(DOMAIN entries) = Len(entries)
  <2>1. \A n \in Nat : IsFiniteSet(1 .. n) /\ Cardinality(1 .. n) = n
    BY FS_Interval
  <2> QED
    BY <1>2, <2>1
<1>6. \A e \in RingEntry : /\ e.rif_at_arrival \in Nat \ {0}
                           /\ e.duration_us \in Nat
                           /\ e.finished_at \in Nat
  BY SampleAssumption, AgeAssumption DEF RingEntry
<1> QED
  BY <1>1, <1>2, <1>3, <1>4, <1>5, <1>6

\* The candidates of a ring that is not empty, and the nearest choices of them.
LEMMA CandidatesTyped ==
  ASSUME RingTypeOK, entries # <<>>, NEW rif \in Nat
  PROVE  LET cs == Candidates(entries, clock)
         IN  /\ cs \in SUBSET DOMAIN entries /\ cs # {}
             /\ IsFiniteSet(cs) /\ Cardinality(cs) \in Nat \ {0}
             /\ Nearest(entries, clock, rif) # {}
             /\ \A S \in Nearest(entries, clock, rif) :
                  /\ S \in SUBSET cs /\ IsFiniteSet(S) /\ Cardinality(S) \in Nat \ {0}
                  /\ Cardinality(cs) <= Near => S = cs
<1> DEFINE cs == Candidates(entries, clock)
           d == [i \in cs |-> AbsDiff(entries[i].rif_at_arrival, rif)]
           size == IF Cardinality(cs) < Near THEN Cardinality(cs) ELSE Near
<1>1. cs \in SUBSET DOMAIN entries /\ cs # {}
  BY EntriesTyped DEF Candidates, Fresh
<1>2. IsFiniteSet(cs) /\ Cardinality(cs) \in Nat \ {0}
  BY <1>1, EntriesTyped, FS_Subset, FS_CardinalityType, FS_EmptySet
<1>3. \A i \in cs : AbsDiff(entries[i].rif_at_arrival, rif) \in Nat
  BY <1>1, EntriesTyped DEF AbsDiff
<1> HIDE DEF cs
<1>4. size \in Nat \ {0} /\ size <= Cardinality(cs)
  BY <1>2, RingAssumption
<1>5. Nearest(entries, clock, rif) =
        {S \in SUBSET cs : Cardinality(S) = size /\ \A i \in S, j \in cs \ S : d[i] <= d[j]}
  BY DEF Nearest, cs
<1>6. \E S \in SUBSET cs : Cardinality(S) = size /\ \A i \in S, j \in cs \ S : d[i] <= d[j]
  <2>1. \A i \in cs : d[i] \in Nat
    BY <1>3
  <2> HIDE DEF d, size
  <2> QED
    BY <1>2, <1>4, <2>1, NearestExist
<1>7. ASSUME NEW S \in Nearest(entries, clock, rif)
      PROVE  /\ S \in SUBSET cs /\ IsFiniteSet(S) /\ Cardinality(S) \in Nat \ {0}
             /\ Cardinality(cs) <= Near => S = cs
  <2>1. S \in SUBSET cs /\ Cardinality(S) = size
    BY <1>5
  <2>2. IsFiniteSet(S) /\ (Cardinality(S) = Cardinality(cs) => S = cs)
    BY <1>2, <2>1, FS_Subset
  <2> QED
    BY <1>2, <1>4, <2>1, <2>2, RingAssumption
<1> QED
  BY <1>1, <1>2, <1>5, <1>6, <1>7 DEF cs

\* The medians of a choice of samples.
LEMMA MediansTyped ==
  ASSUME RingTypeOK, NEW S \in SUBSET DOMAIN entries, IsFiniteSet(S),
         Cardinality(S) \in Nat \ {0}
  PROVE  /\ Median(S, Durations(entries)) \in Nat
         /\ Median(S, Tags(entries)) \in Nat \ {0}
<1>1. Cardinality(S) \div 2 \in Nat /\ Cardinality(S) \div 2 < Cardinality(S)
  OBVIOUS
<1>2. \A i \in S : Durations(entries)[i] \in Nat /\ Tags(entries)[i] \in Nat \ {0}
  BY EntriesTyped DEF Durations, Tags
<1>3. /\ \E i \in S : Durations(entries)[i] = Median(S, Durations(entries))
      /\ \E i \in S : Tags(entries)[i] = Median(S, Tags(entries))
  BY <1>1, <1>2, SortedEntry DEF Median
<1> QED
  BY <1>2, <1>3

\* A probe gets an estimate whatever the ring holds.
LEMMA EstimatesExist ==
  ASSUME RingTypeOK, NEW rif \in Nat
  PROVE  Estimates(entries, clock, rif) # {}
<1>1. CASE entries = <<>>
  BY <1>1 DEF Estimates
<1>2. CASE entries # <<>>
  <2>1. Nearest(entries, clock, rif) # {}
    BY <1>2, CandidatesTyped
  <2> QED
    BY <1>2, <2>1 DEF Estimates
<1> QED
  BY <1>1, <1>2

\* The scaling is exact under processor sharing: the median of the durations
\* is the cost times that of the tags plus one (median_near).
THEOREM ScalingIsExact == RingSpec => []ProcessorSharingIsExact
<1>1. RingTypeOK => ProcessorSharingIsExact
  <2> SUFFICES ASSUME RingTypeOK, NEW c \in Cost, entries # <<>>,
                      \A i \in DOMAIN entries :
                        entries[i].duration_us = c * (entries[i].rif_at_arrival + 1),
                      NEW rif \in ProbeRif
               PROVE  Estimate(rif) = {c * (rif + 1)}
    BY DEF ProcessorSharingIsExact
  <2>1. c \in Nat /\ rif \in Nat
    BY ProbeAssumption
  <2>2. ASSUME NEW S \in Nearest(entries, clock, rif)
        PROVE  Scaled(Median(S, Durations(entries)), rif, Median(S, Tags(entries))) = c * (rif + 1)
    <3> DEFINE t == Median(S, Tags(entries))
    <3>1. S \in SUBSET DOMAIN entries /\ IsFiniteSet(S) /\ Cardinality(S) \in Nat \ {0}
      BY <2>1, CandidatesTyped
    <3>2. t \in Nat
      BY <3>1, MediansTyped
    <3>3. Median(S, Durations(entries)) = c * (t + 1)
      <4>1. Cardinality(S) \div 2 \in Nat /\ Cardinality(S) \div 2 < Cardinality(S)
        BY <3>1
      <4>2. \A i \in S : /\ Tags(entries)[i] \in Nat
                         /\ Durations(entries)[i] = c * (Tags(entries)[i] + 1)
        BY <3>1, EntriesTyped DEF Durations, Tags
      <4> DEFINE f == Tags(entries)
                 g == Durations(entries)
                 k == Cardinality(S) \div 2
      <4>3. \A i \in S : f[i] \in Nat
        BY <4>2
      <4>4. \A i \in S : g[i] = c * (f[i] + 1)
        BY <4>2
      <4> HIDE DEF f, g, k
      <4>5. c \in Nat /\ IsFiniteSet(S) /\ k \in Nat /\ k < Cardinality(S)
        BY <2>1, <3>1, <4>1 DEF k
      <4>6. Sorted(S, g, k) = c * (Sorted(S, f, k) + 1)
        BY <4>3, <4>4, <4>5, SortedScales
      <4> QED
        BY <4>6 DEF Median, f, g, k
    <3> HIDE DEF t
    <3>4. (c * (t + 1)) * (rif + 1) = (c * (rif + 1)) * (t + 1)
          /\ c * (rif + 1) \in Nat /\ t + 1 \in Nat \ {0}
      BY <2>1, <3>2
    <3>5. Scaled(c * (t + 1), rif, t) = c * (rif + 1)
      BY <3>4, DivisionCancels DEF Scaled
    <3> QED
      BY <3>3, <3>5 DEF t
  <2>3. Nearest(entries, clock, rif) # {}
    BY <2>1, CandidatesTyped
  <2> QED
    BY <2>2, <2>3 DEF Estimate, Estimates
<1> QED
  BY <1>1, RingTypeCorrect, PTL

\* The estimate depends on the tags and durations of the candidates alone.
LEMMA EstimatesDepend ==
  ASSUME NEW es, NEW fs, es # <<>>, fs # <<>>, NEW at, NEW rif,
         Candidates(fs, at) = Candidates(es, at),
         Candidates(es, at) \subseteq DOMAIN es, Candidates(es, at) \subseteq DOMAIN fs,
         \A i \in Candidates(es, at) : /\ fs[i].rif_at_arrival = es[i].rif_at_arrival
                                       /\ fs[i].duration_us = es[i].duration_us
  PROVE  Estimates(fs, at, rif) = Estimates(es, at, rif)
<1>1. Nearest(fs, at, rif) = Nearest(es, at, rif)
  BY DEF Nearest
<1>2. ASSUME NEW S \in Nearest(es, at, rif)
      PROVE  /\ Median(S, Durations(fs)) = Median(S, Durations(es))
             /\ Median(S, Tags(fs)) = Median(S, Tags(es))
  <2>1. S \in SUBSET Candidates(es, at)
    BY DEF Nearest
  <2>2. \A i \in S : Durations(fs)[i] = Durations(es)[i] /\ Tags(fs)[i] = Tags(es)[i]
    BY <2>1 DEF Durations, Tags
  <2> QED
    BY <2>2, SortedDepends DEF Median
<1> QED
  BY <1>1, <1>2 DEF Estimates

\* Samples older than MaxAge have no part in an estimate while one is not, and
\* an idle replica goes on advertising what it has (median_near).
THEOREM StaleSamplesStayOut == RingSpec => []StaleSamplesDoNotLeak
<1>1. RingTypeOK => StaleSamplesDoNotLeak
  <2> DEFINE fresh == Fresh(entries, clock)
             young == [i \in fresh |-> entries[i]]
             renewed == [i \in DOMAIN entries |-> [entries[i] EXCEPT !.finished_at = clock]]
  <2> SUFFICES ASSUME RingTypeOK, NEW rif \in ProbeRif
               PROVE  /\ fresh # {} => Estimate(rif) = Estimates(young, clock, rif)
                      /\ fresh = {} => Estimate(rif) = Estimates(renewed, clock, rif)
    BY DEF StaleSamplesDoNotLeak
  <2>1. fresh \in SUBSET DOMAIN entries
    BY DEF Fresh
  <2>2. DOMAIN <<>> = {}
    OBVIOUS
  <2>3. CASE fresh # {}
    <3>1. entries # <<>> /\ young # <<>>
      BY <2>1, <2>2, <2>3
    <3>2. Candidates(entries, clock) = fresh
      BY <2>3 DEF Candidates
    <3>3. Candidates(young, clock) = fresh
      BY <2>3 DEF Candidates, Fresh
    <3> QED
      BY <2>1, <2>3, <3>1, <3>2, <3>3, EstimatesDepend DEF Estimate
  <2>4. CASE fresh = {} /\ entries = <<>>
    <3>1. renewed = <<>>
      BY <2>4
    <3> QED
      BY <2>4, <3>1 DEF Estimate
  <2>5. CASE fresh = {} /\ entries # <<>>
    <3>1. DOMAIN entries # {} /\ clock \in Nat
      BY <2>5, EntriesTyped
    <3>2. \A i \in DOMAIN entries : /\ renewed[i].rif_at_arrival = entries[i].rif_at_arrival
                                    /\ renewed[i].duration_us = entries[i].duration_us
                                    /\ renewed[i].finished_at = clock
      <4>1. \A i \in DOMAIN entries : entries[i] \in RingEntry
        BY EntriesTyped, ElementOfSeq DEF RingTypeOK
      <4> QED
        BY <4>1 DEF RingEntry
    <3>3. Candidates(entries, clock) = DOMAIN entries
      BY <2>5 DEF Candidates
    <3>4. DOMAIN renewed = DOMAIN entries /\ renewed # <<>>
      BY <2>2, <3>1
    <3>5. Candidates(renewed, clock) = DOMAIN entries
      BY <3>1, <3>2, <3>4, AgeAssumption DEF Candidates, Fresh
    <3> HIDE DEF renewed
    <3> QED
      BY <2>5, <3>2, <3>3, <3>4, <3>5, EstimatesDepend DEF Estimate
  <2> QED
    BY <2>3, <2>4, <2>5
<1> QED
  BY <1>1, RingTypeCorrect, PTL

\* If what a second choice has in place of members of the first is no smaller,
\* its median is no smaller.
LEMMA MediansFollow ==
  ASSUME NEW S, IsFiniteSet(S), NEW R, IsFiniteSet(R),
         Cardinality(S) \in Nat \ {0}, Cardinality(R) = Cardinality(S),
         NEW f, \A i \in S \cup R : f[i] \in Nat,
         \A y \in S \ R, x \in R \ S : f[y] <= f[x]
  PROVE  Median(S, f) <= Median(R, f)
<1> DEFINE k == Cardinality(S) \div 2
           s == Median(S, f)
           r == Median(R, f)
           A == AtMost(S, f, r)
           B == AtMost(R, f, r)
<1>1. k \in Nat /\ k < Cardinality(S)
  OBVIOUS
<1>2. s = Sorted(S, f, k) /\ r = Sorted(R, f, k)
  BY DEF Median
<1>3. /\ \E i \in S : f[i] = s
      /\ \A i \in S : Cardinality(AtMost(S, f, f[i])) > k => s <= f[i]
  <2> HIDE DEF k, s, r
  <2> QED
    BY <1>1, <1>2, SortedEntry
<1>4. /\ \E i \in R : f[i] = r
      /\ Cardinality(B) > k
  <2> HIDE DEF k, s, r
  <2> QED
    BY <1>1, <1>2, SortedEntry
<1>5. s \in Nat /\ r \in Nat
  BY <1>3, <1>4
<1> HIDE DEF k, s, r
<1>6. /\ A \in SUBSET S /\ B \in SUBSET R
      /\ IsFiniteSet(A) /\ IsFiniteSet(B) /\ IsFiniteSet(S \ A) /\ IsFiniteSet(R \ B)
      /\ Cardinality(A) \in Nat /\ Cardinality(B) \in Nat
      /\ Cardinality(S \ A) = Cardinality(S) - Cardinality(A)
      /\ Cardinality(R \ B) = Cardinality(S) - Cardinality(B)
  <2>1. A \in SUBSET S /\ B \in SUBSET R
    BY DEF AtMost
  <2>2. ASSUME NEW T, IsFiniteSet(T), NEW C \in SUBSET T
        PROVE  /\ IsFiniteSet(C) /\ IsFiniteSet(T \ C) /\ Cardinality(C) \in Nat
               /\ Cardinality(T \ C) = Cardinality(T) - Cardinality(C)
    <3>1. IsFiniteSet(C) /\ IsFiniteSet(T \ C) /\ T \cap C = C
      BY <2>2, FS_Subset, FS_Difference
    <3>2. Cardinality(T \ C) = Cardinality(T) - Cardinality(T \cap C)
      BY <2>2, FS_Difference
    <3> QED
      BY <3>1, <3>2, FS_CardinalityType
  <2> HIDE DEF A, B
  <2> QED
    BY <2>1, <2>2
<1> SUFFICES ASSUME r < s PROVE FALSE
  BY <1>5 DEF s, r
<1>7. Cardinality(A) <= k
  <2> SUFFICES ASSUME Cardinality(A) > k PROVE FALSE
    BY <1>1, <1>6
  <2>1. A # {}
    BY <1>1, FS_EmptySet
  <2>2. \A i \in A : f[i] \in Nat
    BY <1>6
  <2>3. PICK m \in A : \A i \in A : f[i] <= f[m]
    <3> HIDE DEF A
    <3> QED
      BY <1>6, <2>1, <2>2, LargestEntry
  <2>4. m \in S /\ f[m] <= r /\ f[m] \in Nat
    BY <2>2 DEF AtMost
  <2>5. AtMost(S, f, f[m]) = A
    <3>1. \A i \in S : f[i] \in Nat
      OBVIOUS
    <3>2. \A i \in S : f[i] <= f[m] => f[i] <= r
      BY <1>5, <2>4, <3>1
    <3>3. \A i \in S : f[i] <= r => f[i] <= f[m]
      BY <2>3 DEF AtMost
    <3> QED
      BY <3>2, <3>3 DEF AtMost
  <2>6. s <= f[m]
    BY <1>3, <2>4, <2>5
  <2> QED
    BY <1>5, <2>4, <2>6
<1>8. PICK x \in B : x \notin S
  <2> SUFFICES ASSUME B \subseteq S PROVE FALSE
    OBVIOUS
  <2>1. B \in SUBSET A
    BY DEF AtMost
  <2>2. Cardinality(B) <= Cardinality(A)
    <3> HIDE DEF A, B
    <3> QED
      BY <1>6, <2>1, FS_Subset
  <2> QED
    BY <1>1, <1>4, <1>6, <1>7, <2>2
<1>9. PICK y \in S \ A : y \notin R
  <2> SUFFICES ASSUME S \ A \subseteq R PROVE FALSE
    OBVIOUS
  <2>1. S \ A \in SUBSET (R \ B)
    BY DEF AtMost
  <2>2. Cardinality(S \ A) <= Cardinality(R \ B)
    <3> HIDE DEF A, B
    <3> QED
      BY <1>6, <2>1, FS_Subset
  <2> QED
    BY <1>1, <1>4, <1>6, <1>7, <2>2
<1>10. x \in R \ S /\ f[x] <= r /\ f[x] \in Nat
  BY <1>8 DEF AtMost
<1>11. y \in S \ R /\ ~(f[y] <= r) /\ f[y] \in Nat
  BY <1>9 DEF AtMost
<1>12. f[y] <= f[x]
  BY <1>10, <1>11
<1> QED
  BY <1>5, <1>10, <1>11, <1>12

\* The medians of two quantities that grow together are those of one member.
LEMMA MediansMeet ==
  ASSUME NEW S, IsFiniteSet(S), Cardinality(S) \in Nat \ {0},
         NEW f, NEW g, \A i \in S : f[i] \in Nat /\ g[i] \in Nat,
         \A i, j \in S : f[i] <= f[j] => g[i] <= g[j]
  PROVE  \E i \in S : f[i] = Median(S, f) /\ g[i] = Median(S, g)
<1> DEFINE k == Cardinality(S) \div 2
           t == Median(S, f)
           d == Median(S, g)
<1>1. k \in Nat /\ k < Cardinality(S)
  OBVIOUS
<1>2. t = Sorted(S, f, k) /\ d = Sorted(S, g, k)
  BY DEF Median
<1>3. /\ \E i \in S : f[i] = t
      /\ Cardinality(AtMost(S, f, t)) > k
      /\ \A i \in S : Cardinality(AtMost(S, f, f[i])) > k => t <= f[i]
  <2> HIDE DEF k, t, d
  <2> QED
    BY <1>1, <1>2, SortedEntry
<1>4. /\ \E i \in S : g[i] = d
      /\ Cardinality(AtMost(S, g, d)) > k
      /\ \A i \in S : Cardinality(AtMost(S, g, g[i])) > k => d <= g[i]
  <2> HIDE DEF k, t, d
  <2> QED
    BY <1>1, <1>2, SortedEntry
<1> HIDE DEF k, t, d
<1>5. PICK i \in S : f[i] = t
  BY <1>3
<1>6. \A h, v : /\ AtMost(S, h, v) \in SUBSET S /\ IsFiniteSet(AtMost(S, h, v))
                /\ Cardinality(AtMost(S, h, v)) \in Nat
  <2> SUFFICES ASSUME NEW h, NEW v
               PROVE  /\ AtMost(S, h, v) \in SUBSET S /\ IsFiniteSet(AtMost(S, h, v))
                      /\ Cardinality(AtMost(S, h, v)) \in Nat
    OBVIOUS
  <2>1. AtMost(S, h, v) \in SUBSET S
    BY DEF AtMost
  <2> QED
    BY <2>1, FS_Subset, FS_CardinalityType
<1>7. d <= g[i]
  <2>1. AtMost(S, f, t) \in SUBSET AtMost(S, g, g[i])
    BY <1>5 DEF AtMost
  <2>2. Cardinality(AtMost(S, f, t)) <= Cardinality(AtMost(S, g, g[i]))
    BY <1>6, <2>1, FS_Subset
  <2> QED
    BY <1>1, <1>3, <1>4, <1>6, <2>2
<1>8. ~(d < g[i])
  <2> SUFFICES ASSUME d < g[i] PROVE FALSE
    OBVIOUS
  <2> DEFINE A == AtMost(S, g, d)
  <2>1. d \in Nat /\ t \in Nat /\ g[i] \in Nat
    BY <1>4, <1>5
  <2>2. A # {} /\ IsFiniteSet(A) /\ A \in SUBSET S /\ \A j \in A : f[j] \in Nat
    BY <1>1, <1>4, <1>6, FS_EmptySet
  <2>3. PICK m \in A : \A j \in A : f[j] <= f[m]
    <3> HIDE DEF A
    <3> QED
      BY <2>2, LargestEntry
  <2>4. g[m] \in Nat /\ g[m] <= d /\ f[m] \in Nat
    BY <2>2 DEF AtMost
  <2>5. ~(t <= f[m])
    BY <1>5, <2>1, <2>2, <2>4
  <2>6. A \in SUBSET AtMost(S, f, f[m])
    BY <2>2, <2>3 DEF AtMost
  <2>7. Cardinality(A) <= Cardinality(AtMost(S, f, f[m]))
    <3> HIDE DEF A
    <3> QED
      BY <1>6, <2>6, FS_Subset
  <2>8. t <= f[m]
    BY <1>1, <1>3, <1>4, <1>6, <2>2, <2>7
  <2> QED
    BY <2>5, <2>8
<1>9. d \in Nat /\ g[i] \in Nat
  BY <1>4
<1>10. g[i] = d
  BY <1>7, <1>8, <1>9
<1> QED
  BY <1>5, <1>10 DEF t, d

\* Products and quotients in the order of their factors.
LEMMA ProductGrows == \A x, y, z \in Nat : x <= y => x * z \in Nat /\ x * z <= y * z
<1> SUFFICES ASSUME NEW x \in Nat, NEW y \in Nat, NEW z \in Nat, x <= y
             PROVE  x * z \in Nat /\ x * z <= y * z
  OBVIOUS
<1>1. y - x \in Nat /\ y = x + (y - x)
  OBVIOUS
<1>2. \A c \in Nat : (x + c) * z = x * z + c * z /\ c * z \in Nat /\ x * z \in Nat
  OBVIOUS
<1> QED
  BY <1>1, <1>2

\* A common factor can be dropped,
LEMMA ProductCancels == \A x, y \in Nat, z \in Nat \ {0} : x * z <= y * z => x <= y
<1> SUFFICES ASSUME NEW x \in Nat, NEW y \in Nat, NEW z \in Nat \ {0}, y < x
             PROVE  y * z < x * z
  OBVIOUS
<1>1. (y + 1) * z <= x * z
  BY ProductGrows
<1>2. (y + 1) * z = y * z + z /\ y * z \in Nat /\ x * z \in Nat
  OBVIOUS
<1> QED
  BY <1>1, <1>2

\* and a quotient lies where its multiples say.
LEMMA QuotientBounds ==
  \A x \in Nat, y \in Nat \ {0} : /\ x \div y \in Nat
                                  /\ (x \div y) * y <= x
                                  /\ x < ((x \div y) + 1) * y
OBVIOUS

\* A ratio that is no larger has a quotient that is no larger.
LEMMA QuotientsFollow ==
  ASSUME NEW x \in Nat, NEW y \in Nat \ {0}, NEW z \in Nat, NEW w \in Nat \ {0},
         x * w <= z * y
  PROVE  x \div y <= z \div w
<1> DEFINE q == x \div y
           r == z \div w
<1>1. q \in Nat /\ q * y <= x /\ r \in Nat /\ z < (r + 1) * w
  BY QuotientBounds
<1> HIDE DEF q, r
<1>2. (q * y) * w <= x * w
  <2>1. q * y \in Nat
    BY <1>1
  <2> QED
    BY <1>1, <2>1, ProductGrows
<1>3. (q * w) * y <= z * y
  <2>1. (q * y) * w = (q * w) * y
    BY <1>1
  <2>2. (q * w) * y \in Nat /\ x * w \in Nat /\ z * y \in Nat
    <3>1. q * w \in Nat
      BY <1>1
    <3> QED
      BY <3>1
  <2> QED
    BY <1>2, <2>1, <2>2
<1>4. q * w <= z
  <2>1. q * w \in Nat
    BY <1>1
  <2> QED
    BY <1>3, <2>1, ProductCancels
<1>5. q < r + 1
  <2> SUFFICES ASSUME r + 1 <= q PROVE FALSE
    BY <1>1
  <2>1. (r + 1) * w \in Nat /\ (r + 1) * w <= q * w
    <3>1. r + 1 \in Nat
      BY <1>1
    <3> QED
      BY <1>1, <3>1, ProductGrows
  <2>2. q * w \in Nat
    BY <1>1
  <2> QED
    BY <1>1, <1>4, <2>1, <2>2
<1> QED
  BY <1>1, <1>5 DEF q, r

\* Scaling keeps the order of what two samples cost per query in flight.
LEMMA ScalingFollows ==
  ASSUME NEW d \in Nat, NEW c \in Nat, NEW t \in Nat, NEW u \in Nat,
         d * (u + 1) <= c * (t + 1), NEW rif \in Nat, NEW more \in Nat, rif <= more
  PROVE  Scaled(d, rif, t) <= Scaled(c, more, u)
<1> DEFINE a == rif + 1
           b == more + 1
           y == t + 1
           w == u + 1
<1>1. a \in Nat /\ b \in Nat /\ a <= b /\ y \in Nat \ {0} /\ w \in Nat \ {0}
  OBVIOUS
<1>2. d * w <= c * y
  OBVIOUS
<1>3. Scaled(d, rif, t) = (d * a) \div y /\ Scaled(c, more, u) = (c * b) \div w
  BY DEF Scaled
<1> HIDE DEF a, b, y, w
<1>4. d * w \in Nat /\ c * y \in Nat /\ d * a \in Nat /\ c * b \in Nat
  BY <1>1
<1>5. (d * w) * a <= (c * y) * a
  BY <1>1, <1>2, <1>4, ProductGrows
<1>6. a * (c * y) <= b * (c * y)
  BY <1>1, <1>4, ProductGrows
<1>7. (d * w) * a = (d * a) * w /\ (c * y) * a = a * (c * y) /\ b * (c * y) = (c * b) * y
  BY <1>1
<1>8. (d * a) * w \in Nat /\ a * (c * y) \in Nat /\ (c * b) * y \in Nat
  BY <1>1, <1>4
<1>9. (d * a) * w <= (c * b) * y
  BY <1>5, <1>6, <1>7, <1>8
<1> QED
  BY <1>1, <1>3, <1>4, <1>9, QuotientsFollow

\* Where x is preferred at a higher RIF and y at a lower one, x is the higher.
LEMMA NearestMoveUp ==
  ASSUME NEW x \in Nat, NEW y \in Nat, NEW rif \in Nat, NEW more \in Nat, rif < more,
         AbsDiff(y, rif) <= AbsDiff(x, rif), AbsDiff(x, more) <= AbsDiff(y, more)
  PROVE  y <= x
BY DEF AbsDiff

\* Where contention explains the durations on record, a busier replica never
\* looks faster: another RIF takes other samples, but none with lower tags.
THEOREM BusierIsNoFaster == RingSpec => []ContentionLeads
<1>1. RingTypeOK => ContentionLeads
  <2> SUFFICES ASSUME RingTypeOK, ContentionShows,
                      NEW rif \in ProbeRif, NEW more \in ProbeRif, rif < more,
                      NEW e \in Estimate(rif), NEW f \in Estimate(more)
               PROVE  e <= f
    BY DEF ContentionLeads
  <2>1. rif \in Nat /\ more \in Nat
    BY ProbeAssumption
  <2>2. CASE entries = <<>>
    BY <2>2 DEF Estimate, Estimates
  <2>3. CASE entries # <<>>
    <3> DEFINE cs == Candidates(entries, clock)
               tag == Tags(entries)
               dur == Durations(entries)
    <3>1. PICK S \in Nearest(entries, clock, rif) :
            e = Scaled(Median(S, dur), rif, Median(S, tag))
      BY <2>3 DEF Estimate, Estimates
    <3>2. PICK R \in Nearest(entries, clock, more) :
            f = Scaled(Median(R, dur), more, Median(R, tag))
      BY <2>3 DEF Estimate, Estimates
    <3>3. /\ cs \in SUBSET DOMAIN entries
          /\ S \in SUBSET cs /\ IsFiniteSet(S) /\ Cardinality(S) \in Nat \ {0}
          /\ R \in SUBSET cs /\ IsFiniteSet(R)
      BY <2>1, <2>3, CandidatesTyped
    <3>4. Cardinality(R) = Cardinality(S)
      BY DEF Nearest
    <3>5. \A i \in cs : /\ tag[i] = entries[i].rif_at_arrival /\ tag[i] \in Nat
                        /\ dur[i] = entries[i].duration_us /\ dur[i] \in Nat
      BY <3>3, EntriesTyped DEF Tags, Durations
    <3>6. \A i, j \in cs : tag[i] <= tag[j] => dur[i] * (tag[j] + 1) <= dur[j] * (tag[i] + 1)
      BY <3>5 DEF ContentionShows
    <3>7. /\ \A i \in S, j \in cs \ S : AbsDiff(tag[i], rif) <= AbsDiff(tag[j], rif)
          /\ \A i \in R, j \in cs \ R : AbsDiff(tag[i], more) <= AbsDiff(tag[j], more)
      BY <3>3, <3>5 DEF Nearest
    <3> HIDE DEF cs, tag, dur
    <3>8. \A i, j \in cs : tag[i] <= tag[j] => dur[i] <= dur[j]
      <4> SUFFICES ASSUME NEW i \in cs, NEW j \in cs, tag[i] <= tag[j]
                   PROVE  dur[i] <= dur[j]
        OBVIOUS
      <4>1. tag[i] + 1 \in Nat \ {0} /\ tag[j] + 1 \in Nat \ {0} /\ tag[i] + 1 <= tag[j] + 1
            /\ dur[i] \in Nat /\ dur[j] \in Nat
        BY <3>5
      <4>2. dur[i] * (tag[j] + 1) <= dur[j] * (tag[i] + 1)
        BY <3>6
      <4>3. (tag[i] + 1) * dur[j] <= (tag[j] + 1) * dur[j]
        BY <4>1, ProductGrows
      <4>4. /\ (tag[i] + 1) * dur[j] = dur[j] * (tag[i] + 1)
            /\ (tag[j] + 1) * dur[j] = dur[j] * (tag[j] + 1)
            /\ dur[j] * (tag[i] + 1) \in Nat /\ dur[j] * (tag[j] + 1) \in Nat
            /\ dur[i] * (tag[j] + 1) \in Nat
        BY <4>1
      <4>5. dur[i] * (tag[j] + 1) <= dur[j] * (tag[j] + 1)
        BY <4>2, <4>3, <4>4
      <4> QED
        BY <4>1, <4>5, ProductCancels
    <3>9. PICK i \in S : tag[i] = Median(S, tag) /\ dur[i] = Median(S, dur)
      BY <3>3, <3>5, <3>8, MediansMeet
    <3>10. PICK j \in R : tag[j] = Median(R, tag) /\ dur[j] = Median(R, dur)
      <4>1. Cardinality(R) \in Nat \ {0}
        BY <3>3, <3>4
      <4> QED
        BY <3>3, <3>5, <3>8, <4>1, MediansMeet
    <3>11. Median(S, tag) <= Median(R, tag)
      <4>1. \A y \in S \ R, x \in R \ S : tag[y] <= tag[x]
        <5> SUFFICES ASSUME NEW y \in S \ R, NEW x \in R \ S PROVE tag[y] <= tag[x]
          OBVIOUS
        <5>1. y \in cs /\ x \in cs /\ tag[y] \in Nat /\ tag[x] \in Nat
          BY <3>3, <3>5
        <5>2. /\ AbsDiff(tag[y], rif) <= AbsDiff(tag[x], rif)
              /\ AbsDiff(tag[x], more) <= AbsDiff(tag[y], more)
          BY <3>7, <5>1
        <5> QED
          BY <2>1, <5>1, <5>2, NearestMoveUp
      <4>2. \A l \in S \cup R : tag[l] \in Nat
        BY <3>3, <3>5
      <4> QED
        BY <3>3, <3>4, <4>1, <4>2, MediansFollow
    <3>12. i \in cs /\ j \in cs
      BY <3>3
    <3>13. dur[i] * (tag[j] + 1) <= dur[j] * (tag[i] + 1)
      BY <3>6, <3>9, <3>10, <3>11, <3>12
    <3>14. e = Scaled(dur[i], rif, tag[i]) /\ f = Scaled(dur[j], more, tag[j])
      BY <3>1, <3>2, <3>9, <3>10
    <3>15. /\ dur[i] \in Nat /\ dur[j] \in Nat /\ tag[i] \in Nat /\ tag[j] \in Nat
           /\ rif <= more
      BY <2>1, <3>5, <3>12
    <3> QED
      BY <2>1, <3>13, <3>14, <3>15, ScalingFollows
  <2> QED
    BY <2>2, <2>3
<1> QED
  BY <1>1, RingTypeCorrect, PTL
=============================================================================
