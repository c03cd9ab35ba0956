---------------------------- MODULE ReplicaProofs ----------------------------
(***************************************************************************)
(* Theorems about the handlers of a replica, for any number of requests    *)
(* and worker slots, with cancellation at any await.                       *)
(***************************************************************************)
EXTENDS ReplicaProbe, LatencyRingProofs, FiniteSetTheorems

-----------------------------------------------------------------------------
(* The wait queue of the semaphore.                                        *)

\* A sequence that holds the members of S, each once.
Lists(s, S) ==
  /\ s \in Seq(S)
  /\ \A i, j \in 1 .. Len(s) : s[i] = s[j] => i = j
  /\ \A x \in S : \E i \in 1 .. Len(s) : s[i] = x

\* Such a sequence is as long as the set is large.
LEMMA ListsCount ==
  ASSUME NEW s, NEW S, Lists(s, S)
  PROVE  /\ IsFiniteSet(S) /\ Cardinality(S) = Len(s) /\ Len(s) \in Nat
         /\ s = <<>> <=> S = {}
<1>1. Len(s) \in Nat /\ \A i \in 1 .. Len(s) : s[i] \in S
  BY LenProperties, ElementOfSeq DEF Lists
<1>2. [i \in 1 .. Len(s) |-> s[i]] \in Bijection(1 .. Len(s), S)
  BY <1>1 DEF Lists, Bijection, Injection, Surjection, IsInjective
<1>3. IsFiniteSet(S) /\ Cardinality(S) = Len(s)
  BY <1>1, <1>2, FS_NatBijection, FS_CountingElements DEF ExistsBijection
<1>4. s = <<>> <=> Len(s) = 0
  BY EmptySeq, LenProperties DEF Lists
<1> QED
  BY <1>1, <1>3, <1>4, FS_EmptySet

\* A newcomer goes to the end.
LEMMA ListsAppend ==
  ASSUME NEW s, NEW S, Lists(s, S), NEW x, x \notin S
  PROVE  Lists(Append(s, x), S \cup {x})
<1> DEFINE U == S \cup {x}
           r == Append(s, x)
<1>1. s \in Seq(U) /\ Len(s) \in Nat /\ \A i \in 1 .. Len(s) : s[i] \in S
  BY SeqMonotonic, LenProperties, ElementOfSeq DEF Lists
<1>2. /\ r \in Seq(U) /\ Len(r) = Len(s) + 1
      /\ \A i \in 1 .. Len(s) : r[i] = s[i]
      /\ r[Len(s) + 1] = x
  BY <1>1, AppendProperties
<1> HIDE DEF r
<1>3. ASSUME NEW i \in 1 .. Len(r), NEW j \in 1 .. Len(r), r[i] = r[j]
      PROVE  i = j
  <2>1. (i \in 1 .. Len(s) \/ i = Len(s) + 1) /\ (j \in 1 .. Len(s) \/ j = Len(s) + 1)
    BY <1>1, <1>2
  <2> QED
    BY <1>1, <1>2, <1>3, <2>1 DEF Lists
<1>4. ASSUME NEW y \in U
      PROVE  \E i \in 1 .. Len(r) : r[i] = y
  <2>1. CASE y = x
    BY <1>1, <1>2, <2>1
  <2>2. CASE y \in S
    <3>1. PICK i \in 1 .. Len(s) : s[i] = y
      BY <2>2 DEF Lists
    <3> QED
      BY <1>1, <1>2, <3>1
  <2> QED
    BY <2>1, <2>2
<1> QED
  BY <1>2, <1>3, <1>4 DEF Lists, r

\* The queue without one place is the others in their order.
LEMMA DroppedEntries ==
  ASSUME NEW S, NEW s \in Seq(S), NEW i \in 1 .. Len(s),
         NEW U, \A k \in 1 .. Len(s) : k # i => s[k] \in U
  PROVE  /\ Dropped(s, i) \in Seq(U) /\ Len(Dropped(s, i)) = Len(s) - 1
         /\ \A k \in 1 .. Len(s) - 1 :
              Dropped(s, i)[k] = IF k < i THEN s[k] ELSE s[k + 1]
<1> DEFINE n == Len(s)
           a == SubSeq(s, 1, i - 1)
           b == SubSeq(s, i + 1, n)
           r == Dropped(s, i)
<1>1. n \in Nat /\ i \in Int /\ 1 <= i /\ i <= n
  BY LenProperties
<1>2. \A k \in 1 .. n : k # i => s[k] \in U
  OBVIOUS
<1>3. a \in Seq(U) /\ Len(a) = i - 1 /\ \A k \in 1 .. i - 1 : a[k] = s[k]
  <2>1. \A k \in 1 .. i - 1 : s[k] \in U
    BY <1>1, <1>2
  <2>2. /\ a \in Seq(U)
        /\ Len(a) = IF 1 <= i - 1 THEN i - 1 - 1 + 1 ELSE 0
        /\ \A k \in 1 .. i - 1 - 1 + 1 : a[k] = s[1 + k - 1]
    BY <1>1, <2>1, SubSeqProperties
  <2> HIDE DEF a, n
  <2> QED
    BY <1>1, <2>2
<1>4. b \in Seq(U) /\ Len(b) = n - i /\ \A k \in 1 .. n - i : b[k] = s[i + k]
  <2>1. \A k \in i + 1 .. n : s[k] \in U
    BY <1>1, <1>2
  <2>2. /\ b \in Seq(U)
        /\ Len(b) = IF i + 1 <= n THEN n - (i + 1) + 1 ELSE 0
        /\ \A k \in 1 .. n - (i + 1) + 1 : b[k] = s[i + 1 + k - 1]
    BY <1>1, <2>1, SubSeqProperties
  <2> HIDE DEF b, n
  <2> QED
    BY <1>1, <2>2
<1>5. r = a \o b
  BY DEF Dropped
<1> HIDE DEF n, a, b, r
<1>6. /\ r \in Seq(U) /\ Len(r) = n - 1
      /\ \A k \in 1 .. n - 1 : r[k] = IF k < i THEN s[k] ELSE s[k + 1]
  <2>1. /\ r \in Seq(U) /\ Len(r) = Len(a) + Len(b)
        /\ \A k \in 1 .. Len(a) + Len(b) : r[k] = IF k <= Len(a) THEN a[k] ELSE b[k - Len(a)]
    BY <1>3, <1>4, <1>5, ConcatProperties
  <2>2. Len(a) + Len(b) = n - 1
    BY <1>1, <1>3, <1>4
  <2>3. ASSUME NEW k \in 1 .. n - 1
        PROVE  r[k] = IF k < i THEN s[k] ELSE s[k + 1]
    <3>1. k < i => r[k] = s[k]
      <4> SUFFICES ASSUME k < i PROVE r[k] = s[k]
        OBVIOUS
      <4>1. k \in 1 .. i - 1 /\ k <= Len(a) /\ k \in 1 .. Len(a) + Len(b)
        BY <1>1, <1>3, <2>2
      <4> QED
        BY <1>3, <2>1, <4>1, Zenon
    <3>2. ~(k < i) => r[k] = s[k + 1]
      <4> SUFFICES ASSUME ~(k < i) PROVE r[k] = s[k + 1]
        OBVIOUS
      <4>1. k - Len(a) \in 1 .. n - i /\ i + (k - Len(a)) = k + 1 /\ ~(k <= Len(a))
        BY <1>1, <1>3
      <4>2. r[k] = b[k - Len(a)]
        BY <2>1, <2>2, <4>1
      <4>3. b[k - Len(a)] = s[i + (k - Len(a))]
        BY <1>4, <4>1
      <4> QED
        BY <4>1, <4>2, <4>3, Zenon
    <3> QED
      BY <3>1, <3>2, Zenon
  <2> QED
    BY <2>1, <2>2, <2>3
<1> QED
  BY <1>6 DEF r, n

\* Taking out one place leaves the others in line.
LEMMA ListsDropped ==
  ASSUME NEW s, NEW S, Lists(s, S), NEW i \in 1 .. Len(s)
  PROVE  s[i] \in S /\ Lists(Dropped(s, i), S \ {s[i]})
<1> DEFINE n == Len(s)
           r == Dropped(s, i)
           U == S \ {s[i]}
<1>1. n \in Nat /\ i \in Int /\ 1 <= i /\ i <= n /\ \A k \in 1 .. n : s[k] \in S
  BY LenProperties, ElementOfSeq DEF Lists
<1>2. \A k \in 1 .. n : k # i => s[k] \in U
  BY <1>1 DEF Lists
<1>3. /\ r \in Seq(U) /\ Len(r) = n - 1
      /\ \A k \in 1 .. n - 1 : r[k] = IF k < i THEN s[k] ELSE s[k + 1]
  <2>1. s \in Seq(S)
    BY DEF Lists
  <2> HIDE DEF U
  <2> QED
    BY <1>2, <2>1, DroppedEntries
<1> HIDE DEF n, r, U
<1>4. \A k, l \in 1 .. n : s[k] = s[l] => k = l
  BY DEF Lists, n
<1>5. ASSUME NEW k \in 1 .. Len(r), NEW l \in 1 .. Len(r), r[k] = r[l]
      PROVE  k = l
  <2>1. k \in 1 .. n - 1 /\ l \in 1 .. n - 1
    BY <1>3
  <2>2. k \in 1 .. n /\ k + 1 \in 1 .. n /\ l \in 1 .. n /\ l + 1 \in 1 .. n
    BY <1>1, <2>1
  <2> QED
    BY <1>1, <1>3, <1>4, <1>5, <2>1, <2>2
<1>6. ASSUME NEW x \in U
      PROVE  \E k \in 1 .. Len(r) : r[k] = x
  <2>1. PICK k \in 1 .. n : s[k] = x
    BY DEF U, Lists, n
  <2>2. k # i
    BY <2>1 DEF U
  <2>3. CASE k < i
    <3>1. k \in 1 .. n - 1 /\ r[k] = x
      BY <1>1, <1>3, <2>1, <2>3
    <3> QED
      BY <1>3, <3>1
  <2>4. CASE k > i
    <3>1. k - 1 \in 1 .. n - 1 /\ ~(k - 1 < i) /\ (k - 1) + 1 = k
      BY <1>1, <2>1, <2>4
    <3>2. r[k - 1] = x
      BY <1>3, <2>1, <3>1
    <3> QED
      BY <1>3, <3>1, <3>2
  <2> QED
    BY <1>1, <2>2, <2>3, <2>4
<1>7. Lists(r, U)
  BY <1>3, <1>5, <1>6 DEF Lists
<1> QED
  BY <1>1, <1>7 DEF r, U, n

\* Serving the first in line is dropping place 1.
LEMMA TailDrops ==
  ASSUME NEW s, NEW S, s \in Seq(S), s # <<>>
  PROVE  1 \in 1 .. Len(s) /\ Head(s) = s[1] /\ Dropped(s, 1) = Tail(s)
<1>1. Len(s) \in Nat /\ Len(s) # 0
  BY EmptySeq, LenProperties
<1>2. SubSeq(s, 1, 0) = <<>> /\ Tail(s) = SubSeq(s, 2, Len(s)) /\ Tail(s) \in Seq(S)
  BY <1>1, SubSeqEmpty, TailIsSubSeq, HeadTailProperties
<1>3. <<>> \o Tail(s) = Tail(s)
  BY <1>2, ConcatEmptySeq
<1> QED
  BY <1>1, <1>2, <1>3 DEF Dropped

\* The rest of the queue lists the rest of the waiting tasks.
LEMMA ListsTail ==
  ASSUME NEW s, NEW S, Lists(s, S), s # <<>>
  PROVE  Head(s) \in S /\ Lists(Tail(s), S \ {Head(s)})
<1>1. 1 \in 1 .. Len(s) /\ Head(s) = s[1] /\ Dropped(s, 1) = Tail(s)
  BY TailDrops DEF Lists
<1>2. s[1] \in S /\ Lists(Dropped(s, 1), S \ {s[1]})
  BY <1>1, ListsDropped, Zenon
<1> QED
  BY <1>1, <1>2, Zenon

-----------------------------------------------------------------------------
(* Tasks by phase.                                                         *)

\* The tasks in phase n when p holds the phases.
In(p, n) == {t \in Task : p[t] = n}

\* A task that moves leaves one set and joins another.
LEMMA TaskMoves ==
  ASSUME phase \in [Task -> Phase], NEW t \in Task, NEW ph \in Phase,
         phase' = [phase EXCEPT ![t] = ph]
  PROVE  /\ phase' \in [Task -> Phase]
         /\ phase'[t] = ph
         /\ \A u \in Task : u # t => phase'[u] = phase[u]
         /\ \A n \in Phase : In(phase', n) = IF ph = n THEN In(phase, n) \cup {t}
                                                       ELSE In(phase, n) \ {t}
<1>1. /\ phase' \in [Task -> Phase]
      /\ phase'[t] = ph
      /\ \A u \in Task : u # t => phase'[u] = phase[u]
  OBVIOUS
<1>2. ASSUME NEW n \in Phase
      PROVE  In(phase', n) = IF ph = n THEN In(phase, n) \cup {t} ELSE In(phase, n) \ {t}
  BY <1>1 DEF In
<1> QED
  BY <1>1, <1>2

\* The tasks are finitely many.
LEMMA TasksFinite ==
  ASSUME NEW S \in SUBSET Task
  PROVE  IsFiniteSet(S) /\ Cardinality(S) \in Nat
<1>1. IsFiniteSet(Task)
  BY RequestAssumption, FS_AddElement DEF Task
<1> QED
  BY <1>1, FS_Subset, FS_CardinalityType

\* One task more, one task less.
LEMMA OneMore ==
  ASSUME NEW S \in SUBSET Task, NEW t \in Task, t \notin S
  PROVE  Cardinality(S \cup {t}) = Cardinality(S) + 1
BY TasksFinite, FS_AddElement

LEMMA OneLess ==
  ASSUME NEW S \in SUBSET Task, NEW t \in S
  PROVE  Cardinality(S \ {t}) = Cardinality(S) - 1
BY TasksFinite, FS_RemoveElement

-----------------------------------------------------------------------------
(* The worker slots.                                                       *)

\* What is known of the permits, the queue and the threads at every moment:
\* work outlives its handler only once that handler is leaving or gone, and
\* nobody waits while a permit is available.
SlotsInv ==
  /\ phase \in [Task -> Phase]
  /\ phase[Burner] \in {"absent", "queued", "granted", "running"}
  /\ permits \in Nat
  /\ spinning \subseteq Task
  /\ \A t \in Task : phase[t] = "running" => t \in spinning
  /\ \A t \in spinning : phase[t] \in {"running", "leaving", "gone"}
  /\ Lists(waiters, In(phase, "queued"))
  /\ permits > 0 => In(phase, "queued") = {}
  /\ permits + Cardinality(In(phase, "granted")) + Cardinality(spinning) = Slots

\* A permit that is given back is available again or granted to the first
\* waiter, and either way accounted for.
LEMMA ReleaseKeepsCount ==
  ASSUME NEW p \in [Task -> Phase], permits \in Nat,
         Lists(waiters, In(p, "queued")),
         permits > 0 => In(p, "queued") = {},
         Release(p)
  PROVE  /\ phase' \in [Task -> Phase]
         /\ \A t \in Task : \/ phase'[t] = p[t]
                            \/ p[t] = "queued" /\ phase'[t] = "granted"
         /\ permits' \in Nat
         /\ Lists(waiters', In(phase', "queued"))
         /\ permits' > 0 => In(phase', "queued") = {}
         /\ permits' + Cardinality(In(phase', "granted"))
              = permits + Cardinality(In(p, "granted")) + 1
<1> DEFINE W == In(p, "queued")
<1>1. CASE waiters = <<>>
  <2>1. permits' = permits + 1 /\ phase' = p /\ waiters' = waiters
    BY <1>1 DEF Release
  <2>2. W = {}
    BY <1>1, ListsCount
  <2>3. Cardinality(In(p, "granted")) \in Nat
    BY TasksFinite DEF In
  <2> QED
    BY <2>1, <2>2, <2>3
<1>2. CASE waiters # <<>>
  <2> DEFINE h == Head(waiters)
             G == In(p, "granted")
  <2>1. permits' = permits /\ phase' = [p EXCEPT ![h] = "granted"] /\ waiters' = Tail(waiters)
    BY <1>2 DEF Release
  <2>2. h \in W /\ Lists(Tail(waiters), W \ {h})
    BY <1>2, ListsTail
  <2> HIDE DEF h
  <2>3. h \in Task /\ p[h] = "queued" /\ h \notin G /\ G \subseteq Task
    BY <2>2 DEF In
  <2>4. "granted" \in Phase
    BY DEF Phase
  <2>5. /\ phase' \in [Task -> Phase]
        /\ \A u \in Task : phase'[u] = IF u = h THEN "granted" ELSE p[u]
        /\ In(phase', "queued") = W \ {h}
        /\ In(phase', "granted") = G \cup {h}
    <3>1. /\ phase' \in [Task -> Phase]
          /\ \A u \in Task : phase'[u] = IF u = h THEN "granted" ELSE p[u]
      BY <2>1, <2>3, <2>4
    <3> QED
      BY <2>3, <3>1 DEF In
  <2>6. Cardinality(G \cup {h}) = Cardinality(G) + 1 /\ Cardinality(G) \in Nat
    BY <2>3, OneMore, TasksFinite
  <2>7. permits' = 0
    BY <2>1, <2>2
  <2> HIDE DEF W, G
  <2>8. Lists(waiters', In(phase', "queued"))
    BY <2>1, <2>2, <2>5, Zenon
  <2>9. permits' + Cardinality(In(phase', "granted")) = permits + Cardinality(G) + 1
    <3>1. Cardinality(In(phase', "granted")) = Cardinality(G) + 1
      BY <2>5, <2>6, Zenon
    <3> QED
      BY <2>1, <2>6, <3>1
  <2>10. \A t \in Task : \/ phase'[t] = p[t]
                         \/ p[t] = "queued" /\ phase'[t] = "granted"
    BY <2>3, <2>5
  <2>11. permits' \in Nat /\ ~(permits' > 0)
    BY <2>7
  <2> QED
    BY <2>5, <2>8, <2>9, <2>10, <2>11, Zenon DEF G
<1> QED
  BY <1>1, <1>2

\* Asking for a permit.
LEMMA AcquireKeepsSlots ==
  ASSUME SlotsInv, NEW t \in Task, phase[t] \in {"absent", "armed"}, Acquire(t)
  PROVE  SlotsInv'
<1>1. t \notin In(phase, "queued") /\ t \notin In(phase, "granted") /\ t \notin spinning
  BY DEF SlotsInv, In
<1>2. "running" \in Phase /\ "queued" \in Phase /\ "granted" \in Phase
  BY DEF Phase
<1>3. CASE /\ permits > 0
           /\ permits' = permits - 1
           /\ phase' = [phase EXCEPT ![t] = "running"]
           /\ spinning' = spinning \cup {t}
           /\ UNCHANGED waiters
  <2>1. /\ phase' \in [Task -> Phase]
        /\ phase'[t] = "running"
        /\ \A u \in Task : u # t => phase'[u] = phase[u]
        /\ In(phase', "queued") = In(phase, "queued")
        /\ In(phase', "granted") = In(phase, "granted")
    <3>1. /\ phase' \in [Task -> Phase]
          /\ phase'[t] = "running"
          /\ \A u \in Task : u # t => phase'[u] = phase[u]
      BY <1>2, <1>3, TaskMoves DEF SlotsInv
    <3> QED
      BY <1>1, <3>1 DEF In
  <2>2. Cardinality(spinning') = Cardinality(spinning) + 1 /\ Cardinality(spinning) \in Nat
    BY <1>1, <1>3, OneMore, TasksFinite DEF SlotsInv
  <2>3. Cardinality(In(phase, "granted")) \in Nat
    BY TasksFinite DEF In
  <2>4. permits' + Cardinality(In(phase, "granted")) + Cardinality(spinning') = Slots
    BY <1>3, <2>2, <2>3 DEF SlotsInv
  <2>5. permits' \in Nat /\ In(phase, "queued") = {}
    BY <1>3 DEF SlotsInv
  <2>6. /\ phase'[Burner] \in {"absent", "queued", "granted", "running"}
        /\ spinning' \subseteq Task
        /\ \A u \in Task : phase'[u] = "running" => u \in spinning'
        /\ \A u \in spinning' : phase'[u] \in {"running", "leaving", "gone"}
    BY <1>3, <2>1 DEF SlotsInv, Task
  <2> QED
    BY <1>3, <2>1, <2>4, <2>5, <2>6, Zenon DEF SlotsInv
<1>4. CASE /\ permits = 0
           /\ phase' = [phase EXCEPT ![t] = "queued"]
           /\ waiters' = Append(waiters, t)
           /\ UNCHANGED <<permits, spinning>>
  <2>1. /\ phase' \in [Task -> Phase]
        /\ phase'[t] = "queued"
        /\ \A u \in Task : u # t => phase'[u] = phase[u]
        /\ In(phase', "queued") = In(phase, "queued") \cup {t}
        /\ In(phase', "granted") = In(phase, "granted")
    <3>1. /\ phase' \in [Task -> Phase]
          /\ phase'[t] = "queued"
          /\ \A u \in Task : u # t => phase'[u] = phase[u]
      BY <1>2, <1>4, TaskMoves DEF SlotsInv
    <3> QED
      BY <1>1, <3>1 DEF In
  <2>2. Lists(Append(waiters, t), In(phase, "queued") \cup {t})
    BY <1>1, ListsAppend DEF SlotsInv
  <2>3. /\ phase'[Burner] \in {"absent", "queued", "granted", "running"}
        /\ spinning' \subseteq Task
        /\ \A u \in Task : phase'[u] = "running" => u \in spinning'
        /\ \A u \in spinning' : phase'[u] \in {"running", "leaving", "gone"}
    BY <1>1, <1>4, <2>1 DEF SlotsInv, Task
  <2>4. permits' \in Nat /\ ~(permits' > 0)
    BY <1>4 DEF SlotsInv
  <2>5. Lists(waiters', In(phase', "queued"))
    BY <1>4, <2>1, <2>2, Zenon
  <2>6. permits' + Cardinality(In(phase', "granted")) + Cardinality(spinning') = Slots
    BY <1>4, <2>1, Zenon DEF SlotsInv
  <2> QED
    BY <2>1, <2>3, <2>4, <2>5, <2>6, Zenon DEF SlotsInv
<1> QED
  BY <1>3, <1>4 DEF Acquire

\* Moves that touch neither the queue nor a permit.
LEMMA OtherMovesKeepSlots ==
  ASSUME SlotsInv, NEW q \in Request, NEW ph \in {"armed", "leaving", "gone"},
         phase[q] \notin {"queued", "granted"},
         q \in spinning => ph # "armed",
         phase' = [phase EXCEPT ![q] = ph],
         UNCHANGED <<permits, waiters, spinning>>
  PROVE  SlotsInv'
<1>1. q \in Task /\ q # Burner /\ Burner \in Task
  BY BurnerAssumption DEF Task
<1>2. ph \in Phase /\ "queued" \in Phase /\ "granted" \in Phase
  BY DEF Phase
<1>3. /\ phase' \in [Task -> Phase]
      /\ phase'[q] = ph
      /\ \A u \in Task : u # q => phase'[u] = phase[u]
      /\ In(phase', "queued") = In(phase, "queued") \ {q}
      /\ In(phase', "granted") = In(phase, "granted") \ {q}
  BY <1>1, <1>2, TaskMoves DEF SlotsInv
<1>4. In(phase', "queued") = In(phase, "queued") /\ In(phase', "granted") = In(phase, "granted")
  BY <1>3 DEF In
<1>5. /\ phase'[Burner] \in {"absent", "queued", "granted", "running"}
      /\ spinning' \subseteq Task
      /\ \A u \in Task : phase'[u] = "running" => u \in spinning'
      /\ \A u \in spinning' : phase'[u] \in {"running", "leaving", "gone"}
  BY <1>1, <1>3 DEF SlotsInv
<1> QED
  BY <1>3, <1>4, <1>5, Zenon DEF SlotsInv

\* A granted task starts its work.
LEMMA StartKeepsSlots ==
  ASSUME SlotsInv, NEW t \in Task, Start(t)
  PROVE  SlotsInv'
<1>1. t \notin spinning /\ t \in In(phase, "granted")
  BY DEF SlotsInv, Start, In
<1>2. /\ phase' \in [Task -> Phase]
      /\ phase'[t] = "running"
      /\ \A u \in Task : u # t => phase'[u] = phase[u]
  BY TaskMoves DEF SlotsInv, Start, Phase
<1>3. /\ In(phase', "queued") = In(phase, "queued")
      /\ In(phase', "granted") = In(phase, "granted") \ {t}
  BY <1>1, <1>2 DEF In
<1>4. UNCHANGED <<permits, waiters>> /\ spinning' = spinning \cup {t}
  BY DEF Start
<1>5. /\ Cardinality(spinning') = Cardinality(spinning) + 1
      /\ Cardinality(In(phase', "granted")) = Cardinality(In(phase, "granted")) - 1
  <2>1. In(phase, "granted") \subseteq Task
    BY DEF In
  <2>2. Cardinality(In(phase, "granted") \ {t}) = Cardinality(In(phase, "granted")) - 1
    BY <1>1, <2>1, OneLess
  <2>3. Cardinality(spinning \cup {t}) = Cardinality(spinning) + 1
    BY <1>1, OneMore DEF SlotsInv
  <2> QED
    BY <1>3, <1>4, <2>2, <2>3, Zenon
<1>6. Cardinality(spinning) \in Nat /\ Cardinality(In(phase, "granted")) \in Nat
  BY TasksFinite DEF SlotsInv, In
<1>7. permits' + Cardinality(In(phase', "granted")) + Cardinality(spinning') = Slots
  BY <1>4, <1>5, <1>6 DEF SlotsInv
<1>8. /\ phase'[Burner] \in {"absent", "queued", "granted", "running"}
      /\ spinning' \subseteq Task
      /\ \A u \in Task : phase'[u] = "running" => u \in spinning'
      /\ \A u \in spinning' : phase'[u] \in {"running", "leaving", "gone"}
  BY <1>2, <1>4 DEF SlotsInv, Task
<1> QED
  BY <1>2, <1>3, <1>4, <1>7, <1>8, Zenon DEF SlotsInv

\* The work of a task ends.
LEMMA SpinEndKeepsSlots ==
  ASSUME SlotsInv, NEW t \in Task, SpinEnd(t)
  PROVE  /\ SlotsInv'
         /\ \A u \in Task : \/ phase'[u] = phase[u]
                            \/ phase[u] = "queued" /\ phase'[u] = "granted"
                            \/ u = Burner
                            \/ phase[u] = "running" /\ phase'[u] = "spun"
<1> DEFINE p == CASE t = Burner -> [phase EXCEPT ![t] = "absent"]
                  [] t # Burner /\ phase[t] = "running" -> [phase EXCEPT ![t] = "spun"]
                  [] OTHER -> phase
<1>1. t \in spinning /\ spinning' = spinning \ {t} /\ Release(p)
  BY DEF SpinEnd
<1>2. phase[t] \in {"running", "leaving", "gone"}
  BY <1>1 DEF SlotsInv
<1>3. /\ p \in [Task -> Phase]
      /\ \A u \in Task : u # t => p[u] = phase[u]
      /\ p[t] \in {"absent", "spun", "leaving", "gone"}
      /\ t = Burner => p[t] = "absent"
      /\ t # Burner => p[t] = phase[t] \/ (phase[t] = "running" /\ p[t] = "spun")
  <2>1. "absent" \in Phase /\ "spun" \in Phase /\ phase \in [Task -> Phase]
    BY DEF SlotsInv, Phase
  <2>2. CASE t = Burner
    <3>1. p = [phase EXCEPT ![t] = "absent"]
      BY <2>2
    <3> QED
      BY <2>1, <2>2, <3>1
  <2>3. CASE t # Burner /\ phase[t] = "running"
    <3>1. p = [phase EXCEPT ![t] = "spun"]
      BY <2>3
    <3> QED
      BY <2>1, <2>3, <3>1
  <2>4. CASE t # Burner /\ phase[t] # "running"
    <3>1. p = phase
      BY <2>4
    <3> QED
      BY <1>2, <2>1, <2>4, <3>1
  <2> QED
    BY <2>2, <2>3, <2>4
<1> HIDE DEF p
<1>4. In(p, "queued") = In(phase, "queued") /\ In(p, "granted") = In(phase, "granted")
  BY <1>2, <1>3 DEF In
<1>5. /\ phase' \in [Task -> Phase]
      /\ \A u \in Task : \/ phase'[u] = p[u]
                         \/ p[u] = "queued" /\ phase'[u] = "granted"
      /\ permits' \in Nat
      /\ Lists(waiters', In(phase', "queued"))
      /\ permits' > 0 => In(phase', "queued") = {}
      /\ permits' + Cardinality(In(phase', "granted"))
           = permits + Cardinality(In(p, "granted")) + 1
  <2>1. Lists(waiters, In(p, "queued")) /\ (permits > 0 => In(p, "queued") = {})
    BY <1>4, Zenon DEF SlotsInv
  <2>2. permits \in Nat
    BY DEF SlotsInv
  <2> QED
    BY <1>1, <1>3, <2>1, <2>2, ReleaseKeepsCount
<1>6. permits' + Cardinality(In(phase', "granted")) + Cardinality(spinning') = Slots
  <2>1. Cardinality(spinning') = Cardinality(spinning) - 1
    BY <1>1, OneLess DEF SlotsInv
  <2>2. Cardinality(In(p, "granted")) = Cardinality(In(phase, "granted"))
    BY <1>4, Zenon
  <2>3. /\ Cardinality(spinning) \in Nat /\ Cardinality(In(phase, "granted")) \in Nat
        /\ Cardinality(In(phase', "granted")) \in Nat
    BY TasksFinite DEF SlotsInv, In
  <2> QED
    BY <1>5, <2>1, <2>2, <2>3 DEF SlotsInv
<1>7. /\ phase'[Burner] \in {"absent", "queued", "granted", "running"}
      /\ spinning' \subseteq Task
      /\ \A u \in Task : phase'[u] = "running" => u \in spinning'
      /\ \A u \in spinning' : phase'[u] \in {"running", "leaving", "gone"}
  BY <1>1, <1>3, <1>5 DEF SlotsInv, Task
<1>8. SlotsInv'
  BY <1>5, <1>6, <1>7, Zenon DEF SlotsInv
<1>9. \A u \in Task : \/ phase'[u] = phase[u]
                      \/ phase[u] = "queued" /\ phase'[u] = "granted"
                      \/ u = Burner
                      \/ phase[u] = "running" /\ phase'[u] = "spun"
  BY <1>2, <1>3, <1>5
<1> QED
  BY <1>8, <1>9

\* A waiter is dropped, from wherever it stands in the queue.
LEMMA CancelQueuedKeepsSlots ==
  ASSUME SlotsInv, NEW q \in Request, CancelQueued(q)
  PROVE  SlotsInv'
<1>1. q \in Task /\ q # Burner /\ Burner \in Task
  BY BurnerAssumption DEF Task
<1>2. /\ phase' \in [Task -> Phase]
      /\ phase'[q] = "leaving"
      /\ \A u \in Task : u # q => phase'[u] = phase[u]
  BY <1>1, TaskMoves DEF SlotsInv, CancelQueued, Phase
<1>3. q \notin spinning /\ phase[q] = "queued"
  BY DEF SlotsInv, CancelQueued
<1>4. /\ In(phase', "queued") = In(phase, "queued") \ {q}
      /\ In(phase', "granted") = In(phase, "granted")
  BY <1>2, <1>3 DEF In
<1>5. Lists(waiters', In(phase', "queued"))
  <2>1. PICK i \in DOMAIN waiters : waiters[i] = q /\ waiters' = Dropped(waiters, i)
    BY DEF CancelQueued
  <2>2. i \in 1 .. Len(waiters)
    BY <2>1, LenProperties DEF SlotsInv, Lists
  <2>3. Lists(Dropped(waiters, i), In(phase, "queued") \ {waiters[i]})
    BY <2>2, ListsDropped DEF SlotsInv
  <2> QED
    BY <1>4, <2>1, <2>3, Zenon
<1>6. UNCHANGED <<permits, spinning>>
  BY DEF CancelQueued
<1>7. /\ phase'[Burner] \in {"absent", "queued", "granted", "running"}
      /\ spinning' \subseteq Task
      /\ \A u \in Task : phase'[u] = "running" => u \in spinning'
      /\ \A u \in spinning' : phase'[u] \in {"running", "leaving", "gone"}
  BY <1>1, <1>2, <1>3, <1>6 DEF SlotsInv
<1>8. permits' > 0 => In(phase', "queued") = {}
  BY <1>4, <1>6 DEF SlotsInv
<1>9. permits' + Cardinality(In(phase', "granted")) + Cardinality(spinning') = Slots
  BY <1>4, <1>6, Zenon DEF SlotsInv
<1> QED
  BY <1>2, <1>5, <1>6, <1>7, <1>8, <1>9, Zenon DEF SlotsInv

\* A waiter is dropped with a permit assigned to it, and hands it on.
LEMMA CancelGrantedKeepsSlots ==
  ASSUME SlotsInv, NEW q \in Request, CancelGranted(q)
  PROVE  /\ SlotsInv'
         /\ phase'[q] = "leaving"
         /\ \A u \in Task : \/ phase'[u] = phase[u]
                            \/ phase[u] = "queued" /\ phase'[u] = "granted"
                            \/ u = q
<1> DEFINE p == [phase EXCEPT ![q] = "leaving"]
<1>1. q \in Task /\ q # Burner /\ Burner \in Task
  BY BurnerAssumption DEF Task
<1>2. phase[q] = "granted" /\ Release(p) /\ UNCHANGED spinning
  BY DEF CancelGranted
<1>3. /\ p \in [Task -> Phase]
      /\ p[q] = "leaving"
      /\ \A u \in Task : u # q => p[u] = phase[u]
  BY <1>1 DEF SlotsInv, Phase
<1> HIDE DEF p
<1>4. In(p, "queued") = In(phase, "queued") /\ In(p, "granted") = In(phase, "granted") \ {q}
  BY <1>2, <1>3 DEF In
<1>5. /\ phase' \in [Task -> Phase]
      /\ \A u \in Task : \/ phase'[u] = p[u]
                         \/ p[u] = "queued" /\ phase'[u] = "granted"
      /\ permits' \in Nat
      /\ Lists(waiters', In(phase', "queued"))
      /\ permits' > 0 => In(phase', "queued") = {}
      /\ permits' + Cardinality(In(phase', "granted"))
           = permits + Cardinality(In(p, "granted")) + 1
  <2>1. Lists(waiters, In(p, "queued")) /\ (permits > 0 => In(p, "queued") = {})
    BY <1>4, Zenon DEF SlotsInv
  <2>2. permits \in Nat
    BY DEF SlotsInv
  <2> QED
    BY <1>2, <1>3, <2>1, <2>2, ReleaseKeepsCount
<1>6. permits' + Cardinality(In(phase', "granted")) + Cardinality(spinning') = Slots
  <2>1. Cardinality(In(p, "granted")) = Cardinality(In(phase, "granted")) - 1
    <3>1. q \in In(phase, "granted") /\ In(phase, "granted") \subseteq Task
      BY <1>1, <1>2 DEF In
    <3>2. Cardinality(In(phase, "granted") \ {q}) = Cardinality(In(phase, "granted")) - 1
      BY <3>1, OneLess
    <3> QED
      BY <1>4, <3>2, Zenon
  <2>2. /\ Cardinality(spinning) \in Nat /\ Cardinality(In(phase, "granted")) \in Nat
        /\ Cardinality(In(phase', "granted")) \in Nat
    BY TasksFinite DEF SlotsInv, In
  <2> QED
    BY <1>2, <1>5, <2>1, <2>2 DEF SlotsInv
<1>7. q \notin spinning
  BY <1>2 DEF SlotsInv
<1>8. /\ phase'[q] = "leaving"
      /\ \A u \in Task : \/ phase'[u] = phase[u]
                         \/ phase[u] = "queued" /\ phase'[u] = "granted"
                         \/ u = q
  BY <1>1, <1>3, <1>5
<1>9. /\ phase'[Burner] \in {"absent", "queued", "granted", "running"}
      /\ spinning' \subseteq Task
      /\ \A u \in Task : phase'[u] = "running" => u \in spinning'
      /\ \A u \in spinning' : phase'[u] \in {"running", "leaving", "gone"}
  BY <1>1, <1>2, <1>7, <1>8 DEF SlotsInv
<1>10. SlotsInv'
  BY <1>5, <1>6, <1>9, Zenon DEF SlotsInv
<1> QED
  BY <1>8, <1>10

\* Every step keeps the slots in order.
LEMMA SlotsStep ==
  ASSUME SlotsInv, [ReplicaNext]_replicaVars
  PROVE  SlotsInv'
<1>1. ASSUME NEW q \in Request, Arm(q)
      PROVE  SlotsInv'
  <2>1. phase[q] = "absent" /\ phase' = [phase EXCEPT ![q] = "armed"]
        /\ UNCHANGED <<permits, waiters, spinning>>
    BY <1>1 DEF Arm
  <2>2. q \notin spinning
    BY <2>1 DEF SlotsInv
  <2> QED
    BY <2>1, <2>2, OtherMovesKeepSlots
<1>2. ASSUME NEW q \in Request, CancelRunning(q) \/ Leave(q) \/ Record(q)
      PROVE  SlotsInv'
  <2>1. PICK ph \in {"leaving", "gone"} :
          /\ phase[q] \notin {"queued", "granted"}
          /\ phase' = [phase EXCEPT ![q] = ph]
          /\ UNCHANGED <<permits, waiters, spinning>>
    BY <1>2 DEF CancelRunning, Leave, Record
  <2> QED
    BY <2>1, OtherMovesKeepSlots
<1>3. ASSUME NEW q \in Request, Request_Acquire(q)
      PROVE  SlotsInv'
  BY <1>3, AcquireKeepsSlots DEF Request_Acquire, Task
<1>4. ASSUME Burner_Acquire
      PROVE  SlotsInv'
  BY <1>4, AcquireKeepsSlots DEF Burner_Acquire, Task
<1>5. CASE ReplicaTick \/ UNCHANGED replicaVars
  <2>1. UNCHANGED <<phase, permits, waiters, spinning>>
    BY <1>5 DEF ReplicaTick, replicaVars
  <2> QED
    BY <2>1, Zenon DEF SlotsInv
<1> QED
  BY <1>1, <1>2, <1>3, <1>4, <1>5, StartKeepsSlots, SpinEndKeepsSlots,
     CancelQueuedKeepsSlots, CancelGrantedKeepsSlots
     DEF ReplicaNext, TaskStep, Cancel

-----------------------------------------------------------------------------
(* The RIF counter, the tags it hands out and the samples made from them.  *)

Present(p) == {q \in Request : p[q] \notin {"absent", "gone"}}

\* The counter counts the handlers that are present, so the tag it gives an
\* arriving one is a RIF that the requests can reach.
CountInv ==
  /\ RingTypeOK
  /\ rif = Cardinality(Present(phase))
  /\ tag \in [Request -> {0} \cup Tag]
  /\ \A q \in Request : phase[q] \notin {"absent", "gone"} => tag[q] \in Tag

\* The requests past a replica when p holds the phases.
Past(p) == {q \in Request : p[q] = "gone"}

\* A step as the promise of InFlight sees it.
ReportStep == [Signal!Next]_<<Present(phase), Past(phase), rif>>

\* InFlight counts as the replica does.
LEMMA SignalCounts ==
  ASSUME NEW S
  PROVE  Signal!Cardinality(S) = Cardinality(S)
BY DEF Signal!Cardinality, Cardinality

\* A step that no handler enters or leaves by.
LEMMA NobodyComesOrGoes ==
  ASSUME CountInv, RingTypeOK', UNCHANGED <<tag, rif>>,
         \A q \in Request : phase'[q] = phase[q]
                            \/ {phase[q], phase'[q]} \cap {"absent", "gone"} = {}
  PROVE  CountInv' /\ ReportStep
<1>1. \A q \in Request : /\ phase'[q] \in {"absent", "gone"} <=> phase[q] \in {"absent", "gone"}
                         /\ phase'[q] = "gone" <=> phase[q] = "gone"
  <2> TAKE q \in Request
  <2> QED
    OBVIOUS
<1>2. Present(phase') = Present(phase) /\ Past(phase') = Past(phase)
  BY <1>1 DEF Present, Past
<1>3. rif' = Cardinality(Present(phase'))
  BY <1>2, Zenon DEF CountInv
<1>4. tag' \in [Request -> {0} \cup Tag] /\ \A q \in Request : phase'[q] \notin {"absent", "gone"} => tag'[q] \in Tag
  BY <1>1 DEF CountInv
<1>5. ReportStep
  BY <1>2 DEF ReportStep, Present, Past
<1> QED
  BY <1>3, <1>4, <1>5, Zenon DEF CountInv

\* Every step keeps the counts in order.
LEMMA CountsStep ==
  ASSUME SlotsInv, CountInv, [ReplicaNext]_replicaVars
  PROVE  CountInv' /\ ReportStep
<1>1. /\ Request \subseteq Task /\ Burner \notin Request
      /\ phase \in [Task -> Phase]
    BY BurnerAssumption DEF Task, SlotsInv
<1>2. UNCHANGED ringVars => RingTypeOK'
  BY DEF CountInv, RingTypeOK, ringVars
<1>3. IsFiniteSet(Present(phase)) /\ Cardinality(Present(phase)) \in Nat
  BY <1>1, TasksFinite DEF Present
<1>4. ASSUME NEW q \in Request, Arm(q)
      PROVE  CountInv' /\ ReportStep
  <2>1. /\ phase[q] = "absent"
        /\ phase' = [phase EXCEPT ![q] = "armed"]
        /\ rif' = rif + 1
        /\ tag' = [tag EXCEPT ![q] = rif + 1]
        /\ UNCHANGED ringVars
    BY <1>4 DEF Arm
  <2>2. q \notin Present(phase) /\ Present(phase') = Present(phase) \cup {q}
    BY <1>1, <2>1 DEF Present
  <2>3. rif' = Cardinality(Present(phase'))
    <3>1. Cardinality(Present(phase) \cup {q}) = Cardinality(Present(phase)) + 1
      BY <1>3, <2>2, FS_AddElement
    <3>2. Cardinality(Present(phase')) = Cardinality(Present(phase)) + 1
      BY <2>2, <3>1, Zenon
    <3> QED
      BY <2>1, <3>2 DEF CountInv
  <2>4. rif + 1 \in Tag
    <3>1. Present(phase') \subseteq Request
      BY DEF Present
    <3>2. Cardinality(Present(phase')) <= Cardinality(Request) /\ Cardinality(Request) \in Nat
      BY <3>1, RequestAssumption, FS_Subset, FS_CardinalityType
    <3>3. rif + 1 \in 1 .. Cardinality(Request)
      BY <1>3, <2>1, <2>3, <3>2 DEF CountInv
    <3> QED
      BY <3>3, RequestAssumption
  <2>5. tag' \in [Request -> {0} \cup Tag] /\ \A r \in Request : phase'[r] \notin {"absent", "gone"} => tag'[r] \in Tag
    BY <1>1, <2>1, <2>4 DEF CountInv
  <2>6. ReportStep
    <3>1. q \notin Past(phase) /\ Past(phase') = Past(phase)
      BY <1>1, <2>1 DEF Past
    <3>2. Signal!Enter(q)
      BY <2>2, <2>3, <3>1, SignalCounts DEF Signal!Enter, Signal!Report, Present, Past
    <3> QED
      BY <3>2 DEF ReportStep, Signal!Next
  <2> QED
    BY <1>2, <2>1, <2>3, <2>5, <2>6, Zenon DEF CountInv
<1>5. ASSUME NEW q \in Request, Leave(q)
      PROVE  CountInv' /\ ReportStep
  <2>1. /\ phase[q] = "leaving"
        /\ phase' = [phase EXCEPT ![q] = "gone"]
        /\ rif' = rif - 1
        /\ tag' = [tag EXCEPT ![q] = 0]
        /\ UNCHANGED ringVars
    BY <1>5 DEF Leave
  <2>2. q \in Present(phase) /\ Present(phase') = Present(phase) \ {q}
    BY <1>1, <2>1 DEF Present
  <2>3. rif' = Cardinality(Present(phase'))
    <3>1. Cardinality(Present(phase) \ {q}) = Cardinality(Present(phase)) - 1
      BY <1>3, <2>2, FS_RemoveElement
    <3>2. Cardinality(Present(phase')) = Cardinality(Present(phase)) - 1
      BY <2>2, <3>1, Zenon
    <3> QED
      BY <2>1, <3>2 DEF CountInv
  <2>4. tag' \in [Request -> {0} \cup Tag] /\ \A r \in Request : phase'[r] \notin {"absent", "gone"} => tag'[r] \in Tag
    BY <1>1, <2>1 DEF CountInv
  <2>5. ReportStep
    <3>1. Past(phase') = Past(phase) \cup {q}
      BY <1>1, <2>1 DEF Past
    <3>2. Signal!Exit(q)
      BY <2>2, <2>3, <3>1, SignalCounts DEF Signal!Exit, Signal!Report, Present, Past
    <3> QED
      BY <3>2 DEF ReportStep, Signal!Next
  <2> QED
    BY <1>2, <2>1, <2>3, <2>4, <2>5, Zenon DEF CountInv
<1>6. ASSUME NEW q \in Request, Record(q)
      PROVE  CountInv' /\ ReportStep
  <2>1. PICK d \in Duration : Push(tag[q], d)
    BY <1>6 DEF Record
  <2>2. tag[q] \in Tag
    BY <1>6 DEF Record, CountInv
  <2>3. RingTypeOK'
    BY <2>1, <2>2, PushTyped DEF CountInv
  <2>4. \A r \in Request : phase'[r] = phase[r]
                           \/ {phase[r], phase'[r]} \cap {"absent", "gone"} = {}
    BY <1>1, <1>6 DEF Record
  <2>5. UNCHANGED <<tag, rif>>
    BY <1>6 DEF Record
  <2> QED
    BY <2>3, <2>4, <2>5, NobodyComesOrGoes
<1>7. ASSUME NEW q \in Request, Request_Acquire(q) \/ CancelQueued(q) \/ CancelRunning(q)
      PROVE  CountInv' /\ ReportStep
  <2>1. UNCHANGED ringVars /\ UNCHANGED <<tag, rif>>
    BY <1>7 DEF Request_Acquire, CancelQueued, CancelRunning
  <2>2. PICK ph \in {"running", "queued", "leaving"} :
          phase' = [phase EXCEPT ![q] = ph] /\ phase[q] \notin {"absent", "gone"}
    BY <1>7 DEF Request_Acquire, Acquire, CancelQueued, CancelRunning
  <2>3. \A r \in Request : phase'[r] = phase[r]
                           \/ {phase[r], phase'[r]} \cap {"absent", "gone"} = {}
    BY <1>1, <2>2
  <2> QED
    BY <1>2, <2>1, <2>3, NobodyComesOrGoes
<1>8. ASSUME NEW q \in Request, CancelGranted(q)
      PROVE  CountInv' /\ ReportStep
  <2>1. UNCHANGED ringVars /\ UNCHANGED <<tag, rif>> /\ phase[q] = "granted"
    BY <1>8 DEF CancelGranted
  <2>2. /\ phase'[q] = "leaving"
        /\ \A u \in Task : \/ phase'[u] = phase[u]
                           \/ phase[u] = "queued" /\ phase'[u] = "granted"
                           \/ u = q
    BY <1>8, CancelGrantedKeepsSlots
  <2>3. \A r \in Request : phase'[r] = phase[r]
                           \/ {phase[r], phase'[r]} \cap {"absent", "gone"} = {}
    BY <1>1, <2>1, <2>2
  <2> QED
    BY <1>2, <2>1, <2>3, NobodyComesOrGoes
<1>9. ASSUME NEW t \in Task, SpinEnd(t)
      PROVE  CountInv' /\ ReportStep
  <2>1. UNCHANGED ringVars /\ UNCHANGED <<tag, rif>>
    BY <1>9 DEF SpinEnd
  <2>2. \A u \in Task : \/ phase'[u] = phase[u]
                        \/ phase[u] = "queued" /\ phase'[u] = "granted"
                        \/ u = Burner
                        \/ phase[u] = "running" /\ phase'[u] = "spun"
    BY <1>9, SpinEndKeepsSlots
  <2>3. \A r \in Request : phase'[r] = phase[r]
                           \/ {phase[r], phase'[r]} \cap {"absent", "gone"} = {}
    BY <1>1, <2>2
  <2> QED
    BY <1>2, <2>1, <2>3, NobodyComesOrGoes
<1>10. ASSUME NEW t \in Task, Start(t)
       PROVE  CountInv' /\ ReportStep
  <2>1. UNCHANGED ringVars /\ UNCHANGED <<tag, rif>>
    BY <1>10 DEF Start
  <2>2. \A r \in Request : phase'[r] = phase[r]
                           \/ {phase[r], phase'[r]} \cap {"absent", "gone"} = {}
    BY <1>1, <1>10 DEF Start
  <2> QED
    BY <1>2, <2>1, <2>2, NobodyComesOrGoes
<1>11. ASSUME Burner_Acquire
       PROVE  CountInv' /\ ReportStep
  <2>1. UNCHANGED ringVars /\ UNCHANGED <<tag, rif>>
    BY <1>11 DEF Burner_Acquire
  <2>2. \A r \in Request : phase'[r] = phase[r]
    BY <1>1, <1>11 DEF Burner_Acquire, Acquire
  <2> QED
    BY <1>2, <2>1, <2>2, NobodyComesOrGoes
<1>12. CASE ReplicaTick \/ UNCHANGED replicaVars
  <2>1. UNCHANGED <<phase, tag, rif>>
    BY <1>12 DEF ReplicaTick, replicaVars
  <2>2. RingTypeOK'
    BY <1>12 DEF CountInv, RingTypeOK, ReplicaTick, Tick, replicaVars, ringVars
  <2> QED
    BY <2>1, <2>2, NobodyComesOrGoes
<1> QED
  BY <1>4, <1>5, <1>6, <1>7, <1>8, <1>9, <1>10, <1>11, <1>12
     DEF ReplicaNext, TaskStep, Cancel

-----------------------------------------------------------------------------
ReplicaInv == SlotsInv /\ CountInv

\* Both hold from the start, ...
LEMMA InitKeepsInv ==
  ASSUME ReplicaInit
  PROVE  ReplicaInv
<1>1. In(phase, "queued") = {} /\ In(phase, "granted") = {} /\ Present(phase) = {}
  BY DEF ReplicaInit, In, Present, Task
<1>2. Cardinality(In(phase, "granted")) = 0 /\ Cardinality(spinning) = 0
      /\ Cardinality(Present(phase)) = 0
  BY <1>1, FS_EmptySet DEF ReplicaInit
<1>3. Lists(waiters, In(phase, "queued"))
  <2>1. <<>> \in Seq({}) /\ Len(<<>>) = 0
    OBVIOUS
  <2>2. Lists(<<>>, {})
    BY <2>1 DEF Lists
  <2> QED
    BY <1>1, <2>2, Zenon DEF ReplicaInit
<1>4. /\ phase \in [Task -> Phase] /\ phase[Burner] = "absent"
      /\ \A t \in Task : phase[t] = "absent"
  BY DEF ReplicaInit, Task, Phase
<1>5. permits = Slots /\ permits \in Nat /\ spinning = {}
  BY SlotsAssumption DEF ReplicaInit
<1>6. SlotsInv
  BY <1>1, <1>2, <1>3, <1>4, <1>5 DEF SlotsInv
<1>7. RingTypeOK
  BY RingAssumption, AgeAssumption DEF ReplicaInit, RingInit, RingTypeOK
<1>8. CountInv
  BY <1>2, <1>4, <1>7 DEF CountInv, ReplicaInit, Task
<1> QED
  BY <1>6, <1>8 DEF ReplicaInv

\* ... and every step keeps them.
LEMMA ReplicaInvHolds == ReplicaSpec => []ReplicaInv
<1>1. ReplicaInit => ReplicaInv
  BY InitKeepsInv
<1>2. ReplicaInv /\ [ReplicaNext]_replicaVars => ReplicaInv'
  BY SlotsStep, CountsStep DEF ReplicaInv
<1> QED
  BY <1>1, <1>2, PTL DEF ReplicaSpec

\* Neither the record of the antagonist's bursts nor a probe that reads
\* between any two steps changes what the handlers of POST /work do.
THEOREM AuditIsTheReplica == AuditReplicaSpec => ReplicaSpec
<1>1. AuditReplicaInit => ReplicaInit
  BY DEF AuditReplicaInit
<1>2. [AuditReplicaNext]_auditReplicaVars => [ReplicaNext]_replicaVars
  BY DEF AuditReplicaNext, auditReplicaVars
<1> QED
  BY <1>1, <1>2, PTL DEF AuditReplicaSpec, ReplicaSpec

THEOREM ProbingIsHarmless == ReplicaProbeSpec => AuditReplicaSpec
<1>1. ReplicaProbeInit => AuditReplicaInit
  BY DEF ReplicaProbeInit
<1>2. [ReplicaProbeNext]_replicaProbeVars => [AuditReplicaNext]_auditReplicaVars
  BY DEF ReplicaProbeNext, replicaProbeVars
<1> QED
  BY <1>1, <1>2, PTL DEF ReplicaProbeSpec, AuditReplicaSpec

\* A step of the handlers pushes one sample, whose tag is a RIF of this
\* replica, or leaves the ring alone.
LEMMA StepIsRingStep ==
  ASSUME ReplicaInv, [ReplicaNext]_replicaVars
  PROVE  [RingNext]_ringVars
<1>1. ASSUME NEW q \in Request, Arm(q) \/ Cancel(q)
      PROVE  UNCHANGED ringVars
  BY <1>1, Zenon DEF Arm, Cancel, CancelQueued, CancelGranted, CancelRunning
<1>2. ASSUME NEW q \in Request, Record(q)
      PROVE  RingNext
  <2>1. tag[q] \in Tag
    BY <1>2 DEF Record, ReplicaInv, CountInv
  <2> QED
    BY <1>2, <2>1, Zenon DEF Record, RingNext
<1>3. ASSUME NEW q \in Request, Request_Acquire(q) \/ Leave(q)
      PROVE  UNCHANGED ringVars
  BY <1>3, Zenon DEF Request_Acquire, Leave
<1>4. ASSUME NEW t \in Task, Start(t) \/ SpinEnd(t)
      PROVE  UNCHANGED ringVars
  BY <1>4, Zenon DEF Start, SpinEnd
<1>5. CASE Burner_Acquire
  BY <1>5, Zenon DEF Burner_Acquire
<1>6. CASE ReplicaTick
  BY <1>6, Zenon DEF ReplicaTick, RingNext
<1>7. CASE UNCHANGED replicaVars
  BY <1>7 DEF replicaVars
<1> QED
  BY <1>1, <1>2, <1>3, <1>4, <1>5, <1>6, <1>7, Zenon DEF ReplicaNext, TaskStep

\* The handlers use the latency ring as LatencyRing allows, so that all that
\* is proved of it, its estimate included, holds in a loaded replica.
THEOREM ReplicaUsesTheRing == ReplicaSpec => RingSpec
<1>1. ReplicaInit => RingInit
  BY DEF ReplicaInit
<1>2. ReplicaInv /\ [ReplicaNext]_replicaVars => [RingNext]_ringVars
  BY StepIsRingStep
<1> QED
  BY <1>1, <1>2, ReplicaInvHolds, PTL DEF ReplicaSpec, RingSpec

\* Type correctness: the queue of the semaphore holds the tasks that wait,
\* each once, whatever is cancelled.
THEOREM ReplicaTypeCorrect == ReplicaSpec => []ReplicaTypeOK
<1>1. ReplicaInv => ReplicaTypeOK
  <2> SUFFICES ASSUME ReplicaInv PROVE ReplicaTypeOK
    OBVIOUS
  <2>1. Waiting = In(phase, "queued")
    BY DEF Waiting, In
  <2>2. waiters \in Seq(Waiting) /\ Len(waiters) = Cardinality(Waiting)
    <3>1. Lists(waiters, In(phase, "queued"))
      BY DEF ReplicaInv, SlotsInv
    <3>2. waiters \in Seq(In(phase, "queued")) /\ Cardinality(In(phase, "queued")) = Len(waiters)
      BY <3>1, ListsCount DEF Lists
    <3> QED
      BY <2>1, <3>2, Zenon
  <2>3. permits \in 0 .. Slots
    <3>1. Cardinality(In(phase, "granted")) \in Nat /\ Cardinality(spinning) \in Nat
      BY TasksFinite DEF ReplicaInv, SlotsInv, In
    <3> QED
      BY <3>1, SlotsAssumption DEF ReplicaInv, SlotsInv
  <2>4. rif \in Nat
    BY TasksFinite DEF ReplicaInv, CountInv, Present, Task
  <2>5. {t \in Task : phase[t] = "running"} \subseteq spinning
    BY DEF ReplicaInv, SlotsInv
  <2> QED
    BY <2>2, <2>3, <2>4, <2>5, Zenon DEF ReplicaTypeOK, ReplicaInv, SlotsInv, CountInv
<1> QED
  BY <1>1, ReplicaInvHolds, PTL

\* The RIF that probes report is exact: no cancellation, wherever it hits the
\* handler, leaks an increment or repeats a decrement (RifGuard).
THEOREM RifStaysExact == ReplicaSpec => []RifIsExact
<1>1. ReplicaInv => RifIsExact
  BY DEF ReplicaInv, CountInv, RifIsExact, Present
<1> QED
  BY <1>1, ReplicaInvHolds, PTL

\* The worker slots bound the work in progress, abandoned work and the
\* antagonist's included: no permit is lost or made (work_slots).
THEOREM SlotsStayConserved == ReplicaSpec => []SlotsAreConserved
<1>1. ReplicaInv => SlotsAreConserved
  <2>1. Granted = In(phase, "granted")
    BY DEF Granted, In
  <2> QED
    BY <2>1, Zenon DEF ReplicaInv, SlotsInv, SlotsAreConserved
<1> QED
  BY <1>1, ReplicaInvHolds, PTL

\* Nobody waits while a permit is available: a waiter cancelled with a permit
\* assigned to it does not take the wake-up with it.
THEOREM NoPermitIdles == ReplicaSpec => []WorkConserving
<1>1. ReplicaInv => WorkConserving
  <2>1. Waiting = In(phase, "queued")
    BY DEF Waiting, In
  <2> QED
    BY <2>1, Zenon DEF ReplicaInv, SlotsInv, WorkConserving
<1> QED
  BY <1>1, ReplicaInvHolds, PTL

\* Whatever happens to its handlers, a replica reports what InFlight promises:
\* each step is an arrival, an end or no change of the RIF (RifGuard).
THEOREM ReportsAsPromised == ReplicaSpec => ReportsInFlight
<1>1. ReplicaInit => Signal!Init
  BY FS_EmptySet DEF ReplicaInit, Signal!Init, Task
<1>2. ReplicaInv /\ [ReplicaNext]_replicaVars
        => [Signal!Next]_<<{q \in Request : phase[q] \notin {"absent", "gone"}},
                           {q \in Request : phase[q] = "gone"}, rif>>
  BY CountsStep DEF ReplicaInv, ReportStep, Present, Past
<1> QED
  BY <1>1, <1>2, ReplicaInvHolds, PTL DEF ReplicaSpec, ReportsInFlight, Signal!Spec
-----------------------------------------------------------------------------
(* The antagonist's turns at the wait queue.                               *)

\* x stands before y in the sequence s.
Before(s, x, y) == \E i, j \in 1 .. Len(s) : i < j /\ s[i] = x /\ s[j] = y

\* Nobody joins in front of anybody.
LEMMA BeforeAppend ==
  ASSUME NEW S, NEW s \in Seq(S), NEW t \in S, NEW x, NEW y \in S,
         y # t, Before(Append(s, t), x, y)
  PROVE  Before(s, x, y)
<1>1. /\ Len(s) \in Nat /\ Len(Append(s, t)) = Len(s) + 1
      /\ \A i \in 1 .. Len(s) : Append(s, t)[i] = s[i]
      /\ Append(s, t)[Len(s) + 1] = t
  BY LenProperties, AppendProperties
<1> DEFINE r == Append(s, t)
<1>2. PICK i \in 1 .. Len(r), j \in 1 .. Len(r) : i < j /\ r[i] = x /\ r[j] = y
  BY DEF Before
<1> HIDE DEF r
<1>3. i \in 1 .. Len(s) /\ j \in 1 .. Len(s)
  BY <1>1, <1>2 DEF r
<1> QED
  BY <1>1, <1>2, <1>3 DEF Before, r

\* Whoever leaves, the others keep their order.
LEMMA BeforeDropped ==
  ASSUME NEW S, NEW s \in Seq(S), NEW k \in 1 .. Len(s), NEW x, NEW y,
         Before(Dropped(s, k), x, y)
  PROVE  Before(s, x, y)
<1> DEFINE n == Len(s)
           r == Dropped(s, k)
<1>1. n \in Nat /\ k \in 1 .. n
  BY LenProperties
<1>2. /\ Len(r) = n - 1
      /\ \A i \in 1 .. n - 1 : r[i] = IF i < k THEN s[i] ELSE s[i + 1]
  <2>1. \A i \in 1 .. Len(s) : i # k => s[i] \in S
    BY ElementOfSeq
  <2> QED
    BY <2>1, DroppedEntries
<1>3. PICK i \in 1 .. Len(r), j \in 1 .. Len(r) : i < j /\ r[i] = x /\ r[j] = y
  BY DEF Before
<1> HIDE DEF n, r
<1> DEFINE u == IF i < k THEN i ELSE i + 1
           v == IF j < k THEN j ELSE j + 1
<1>4. i \in 1 .. n - 1 /\ j \in 1 .. n - 1
  BY <1>2, <1>3
<1>5. u \in 1 .. n /\ v \in 1 .. n /\ u < v
  BY <1>1, <1>3, <1>4
<1>6. s[u] = x /\ s[v] = y
  BY <1>2, <1>3, <1>4
<1> QED
  BY <1>5, <1>6, Zenon DEF Before, n

\* A permit given back goes to nobody or to the first in line.
LEMMA ReleaseServesFirst ==
  ASSUME NEW S, waiters \in Seq(S), NEW p \in [Task -> Phase], Release(p)
  PROVE  /\ \/ waiters' = waiters
            \/ \E k \in 1 .. Len(waiters) : waiters' = Dropped(waiters, k)
         /\ \A t \in Task : \/ phase'[t] = p[t]
                            \/ /\ waiters # <<>> /\ t = Head(waiters)
                               /\ phase'[t] = "granted"
<1>1. CASE waiters = <<>>
  BY <1>1 DEF Release
<1>2. CASE waiters # <<>>
  <2>1. phase' = [p EXCEPT ![Head(waiters)] = "granted"] /\ waiters' = Tail(waiters)
    BY <1>2 DEF Release
  <2>2. 1 \in 1 .. Len(waiters) /\ Dropped(waiters, 1) = Tail(waiters)
    BY <1>2, TailDrops
  <2>3. \A t \in Task : \/ phase'[t] = p[t]
                        \/ t = Head(waiters) /\ phase'[t] = "granted"
    BY <2>1
  <2> QED
    BY <1>2, <2>1, <2>2, <2>3
<1> QED
  BY <1>1, <1>2

\* What a step may do to the queue and to the requests in it; a request whose
\* handler ends or has ended does not come back.
QueueStep ==
  /\ \/ waiters' = waiters
     \/ \E t \in Task : waiters' = Append(waiters, t) /\ phase[t] \in {"absent", "armed"}
     \/ \E k \in 1 .. Len(waiters) : waiters' = Dropped(waiters, k)
  /\ \A q \in Request :
       /\ phase'[q] \in {"absent", "armed"} => phase[q] \in {"absent", "armed"}
       /\ phase'[q] = "queued" => phase[q] \in {"armed", "queued"}
       /\ phase[q] \in {"leaving", "gone"} => phase'[q] \in {"leaving", "gone"}
  /\ BurnerServed => \/ In(phase, "queued") = {}
                     \/ waiters # <<>> /\ Head(waiters) = Burner

\* A step that leaves the queue and the antagonist alone.
LEMMA QueueUntouched ==
  ASSUME waiters' = waiters, phase'[Burner] = phase[Burner],
         \A q \in Request : \/ phase'[q] = phase[q]
                            \/ phase[q] = "absent" /\ phase'[q] = "armed"
                            \/ phase'[q] \in {"leaving", "gone"}
  PROVE  QueueStep
BY DEF QueueStep, BurnerServed

\* A step by which somebody asks for a permit.
LEMMA QueueJoined ==
  ASSUME SlotsInv, NEW t \in Task, phase[t] \in {"absent", "armed"},
         t \in Request => phase[t] = "armed", Acquire(t)
  PROVE  QueueStep
<1>1. Burner \in Task /\ Request \subseteq Task /\ phase \in [Task -> Phase]
  BY DEF Task, SlotsInv
<1>2. CASE /\ permits > 0
           /\ phase' = [phase EXCEPT ![t] = "running"]
           /\ UNCHANGED waiters
  <2>1. In(phase, "queued") = {}
    BY <1>2 DEF SlotsInv
  <2>2. \A u \in Task : phase'[u] = IF u = t THEN "running" ELSE phase[u]
    BY <1>1, <1>2
  <2> QED
    BY <1>1, <1>2, <2>1, <2>2 DEF QueueStep
<1>3. CASE /\ phase' = [phase EXCEPT ![t] = "queued"]
           /\ waiters' = Append(waiters, t)
  <2>1. \A u \in Task : phase'[u] = IF u = t THEN "queued" ELSE phase[u]
    BY <1>1, <1>3
  <2>2. ~BurnerServed
    BY <1>1, <2>1 DEF BurnerServed
  <2> QED
    BY <1>1, <1>3, <2>1, <2>2 DEF QueueStep
<1> QED
  BY <1>2, <1>3 DEF Acquire

\* Every step is of that kind.
LEMMA QueueMoves ==
  ASSUME SlotsInv, [ReplicaNext]_replicaVars
  PROVE  QueueStep
<1>1. /\ Request \subseteq Task /\ Burner \notin Request /\ Burner \in Task
      /\ phase \in [Task -> Phase]
  BY BurnerAssumption DEF Task, SlotsInv
<1>2. waiters \in Seq(In(phase, "queued"))
  BY DEF SlotsInv, Lists
<1>3. ASSUME NEW q \in Request, Arm(q) \/ CancelRunning(q) \/ Leave(q) \/ Record(q)
      PROVE  QueueStep
  <2>1. waiters' = waiters
    BY <1>3 DEF Arm, CancelRunning, Leave, Record
  <2>2. PICK ph \in {"armed", "leaving", "gone"} :
          /\ phase' = [phase EXCEPT ![q] = ph]
          /\ ph = "armed" => phase[q] = "absent"
    BY <1>3 DEF Arm, CancelRunning, Leave, Record
  <2>3. \A u \in Task : phase'[u] = IF u = q THEN ph ELSE phase[u]
    BY <1>1, <2>2
  <2> QED
    BY <1>1, <2>1, <2>2, <2>3, QueueUntouched
<1>4. ASSUME NEW t \in Task, Start(t)
      PROVE  QueueStep
  <2>1. waiters' = waiters /\ phase[t] = "granted"
    BY <1>4 DEF Start
  <2>2. \A u \in Task : phase'[u] = IF u = t THEN "running" ELSE phase[u]
    BY <1>1, <1>4 DEF Start
  <2> QED
    BY <1>1, <2>1, <2>2 DEF QueueStep, BurnerServed
<1>5. ASSUME NEW q \in Request, Request_Acquire(q)
      PROVE  QueueStep
  BY <1>1, <1>5, QueueJoined DEF Request_Acquire
<1>6. ASSUME Burner_Acquire
      PROVE  QueueStep
  BY <1>1, <1>6, QueueJoined DEF Burner_Acquire
<1>7. ASSUME NEW q \in Request, CancelQueued(q)
      PROVE  QueueStep
  <2>1. PICK k \in DOMAIN waiters : waiters' = Dropped(waiters, k)
    BY <1>7 DEF CancelQueued
  <2>2. k \in 1 .. Len(waiters)
    BY <1>2, <2>1, LenProperties
  <2>3. \A u \in Task : phase'[u] = IF u = q THEN "leaving" ELSE phase[u]
    BY <1>1, <1>7 DEF CancelQueued
  <2> QED
    BY <1>1, <2>1, <2>2, <2>3 DEF QueueStep, BurnerServed
<1>8. ASSUME NEW p \in [Task -> Phase], Release(p),
             \A q \in Request : \/ p[q] = phase[q]
                                \/ p[q] = "leaving"
                                \/ p[q] = "spun" /\ phase[q] = "running",
             p[Burner] = phase[Burner] \/ phase[Burner] \notin {"absent", "queued"}
      PROVE  QueueStep
  <2>1. /\ \/ waiters' = waiters
           \/ \E k \in 1 .. Len(waiters) : waiters' = Dropped(waiters, k)
        /\ \A t \in Task : \/ phase'[t] = p[t]
                           \/ /\ waiters # <<>> /\ t = Head(waiters)
                              /\ phase'[t] = "granted"
    BY <1>2, <1>8, ReleaseServesFirst
  <2>2. BurnerServed => waiters # <<>> /\ Head(waiters) = Burner
    BY <1>1, <1>8, <2>1 DEF BurnerServed
  <2>3. waiters # <<>> => phase[Head(waiters)] = "queued"
    <3>1. waiters # <<>> => Head(waiters) \in In(phase, "queued")
      BY ListsTail DEF SlotsInv
    <3> QED
      BY <3>1 DEF In
  <2>4. \A q \in Request : \/ phase'[q] = phase[q]
                           \/ phase'[q] = "leaving"
                           \/ phase'[q] = "spun" /\ phase[q] = "running"
                           \/ phase'[q] = "granted" /\ phase[q] = "queued"
    BY <1>1, <1>8, <2>1, <2>3
  <2> QED
    BY <2>1, <2>2, <2>4 DEF QueueStep
<1>9. ASSUME NEW q \in Request, CancelGranted(q)
      PROVE  QueueStep
  <2> DEFINE p == [phase EXCEPT ![q] = "leaving"]
  <2>1. p \in [Task -> Phase] /\ Release(p)
    BY <1>1, <1>9 DEF CancelGranted, Phase
  <2>2. /\ \A r \in Request : p[r] = phase[r] \/ p[r] = "leaving"
        /\ p[Burner] = phase[Burner]
    BY <1>1
  <2> HIDE DEF p
  <2> QED
    BY <1>8, <2>1, <2>2
<1>10. ASSUME NEW t \in Task, SpinEnd(t)
       PROVE  QueueStep
  <2>1. t \in spinning /\ phase[t] \in {"running", "leaving", "gone"}
    BY <1>10 DEF SpinEnd, SlotsInv
  <2>2. "absent" \in Phase /\ "spun" \in Phase
    BY DEF Phase
  <2>3. CASE t = Burner
    <3> DEFINE p == [phase EXCEPT ![t] = "absent"]
    <3>1. Release(p)
      BY <1>10, <2>3 DEF SpinEnd
    <3>2. /\ p \in [Task -> Phase]
          /\ \A r \in Request : p[r] = phase[r]
          /\ phase[Burner] \notin {"absent", "queued"}
      BY <1>1, <2>1, <2>2, <2>3
    <3> HIDE DEF p
    <3> QED
      BY <1>8, <3>1, <3>2
  <2>4. CASE t # Burner /\ phase[t] = "running"
    <3> DEFINE p == [phase EXCEPT ![t] = "spun"]
    <3>1. Release(p)
      BY <1>10, <2>4 DEF SpinEnd
    <3>2. /\ p \in [Task -> Phase]
          /\ \A r \in Request : p[r] = phase[r] \/ (p[r] = "spun" /\ phase[r] = "running")
          /\ p[Burner] = phase[Burner]
      BY <1>1, <2>2, <2>4
    <3> HIDE DEF p
    <3> QED
      BY <1>8, <3>1, <3>2
  <2>5. CASE t # Burner /\ phase[t] # "running"
    <3>1. Release(phase)
      BY <1>10, <2>5 DEF SpinEnd
    <3> QED
      BY <1>1, <1>8, <3>1
  <2> QED
    BY <2>3, <2>4, <2>5
<1>11. CASE ReplicaTick \/ UNCHANGED replicaVars
  <2>1. UNCHANGED <<phase, waiters>>
    BY <1>11 DEF ReplicaTick, replicaVars
  <2> QED
    BY <2>1, QueueUntouched
<1> QED
  BY <1>3, <1>4, <1>5, <1>6, <1>7, <1>9, <1>10, <1>11
     DEF ReplicaNext, TaskStep, Cancel

\* A query the antagonist is still ahead of has not been passed, and neither
\* has one that is yet to join the queue; no query has been passed twice.
Unpassed(q) ==
  phase[q] \in {"absent", "armed"} \/ (phase[q] = "queued" /\ Before(waiters, Burner, q))

PassInv ==
  \A q \in Request : bypassed[q] \in {0, 1} /\ (Unpassed(q) => bypassed[q] = 0)

\* A query that the antagonist is ahead of was so before it queued up or
\* before this step, so the antagonist does not get ahead of a waiting query.
LEMMA NobodyOvertakes ==
  ASSUME SlotsInv, QueueStep, NEW q \in Request, Unpassed(q)'
  PROVE  Unpassed(q)
<1>1. q \in Task /\ q # Burner /\ Burner \in Task
  BY BurnerAssumption DEF Task
<1>2. waiters \in Seq(Task)
  <2>1. In(phase, "queued") \subseteq Task
    BY DEF In
  <2> QED
    BY <2>1, SeqMonotonic DEF SlotsInv, Lists
<1>3. CASE phase'[q] \in {"absent", "armed"}
  BY <1>3 DEF QueueStep, Unpassed
<1>4. CASE phase'[q] = "queued" /\ Before(waiters', Burner, q) /\ phase[q] = "queued"
  <2>1. CASE waiters' = waiters
    BY <1>4, <2>1 DEF Unpassed
  <2>2. ASSUME NEW t \in Task, waiters' = Append(waiters, t),
               phase[t] \in {"absent", "armed"}
        PROVE  Unpassed(q)
    <3>1. q # t
      BY <1>4, <2>2
    <3>2. Before(Append(waiters, t), Burner, q)
      BY <1>4, <2>2, Zenon
    <3>3. Before(waiters, Burner, q)
      BY <1>1, <1>2, <3>1, <3>2, BeforeAppend
    <3> QED
      BY <1>4, <3>3 DEF Unpassed
  <2>3. ASSUME NEW k \in 1 .. Len(waiters), waiters' = Dropped(waiters, k)
        PROVE  Unpassed(q)
    <3>1. Before(Dropped(waiters, k), Burner, q)
      BY <1>4, <2>3, Zenon
    <3>2. Before(waiters, Burner, q)
      BY <1>2, <3>1, BeforeDropped
    <3> QED
      BY <1>4, <3>2 DEF Unpassed
  <2> QED
    BY <2>1, <2>2, <2>3 DEF QueueStep
<1>5. CASE phase'[q] = "queued" /\ phase[q] # "queued"
  BY <1>5 DEF QueueStep, Unpassed
<1> QED
  BY <1>3, <1>4, <1>5 DEF Unpassed

\* The antagonist's turn comes before that of everybody else in the queue,
\* and once it has come the antagonist is ahead of nobody.
LEMMA TurnIsTaken ==
  ASSUME SlotsInv, SlotsInv', QueueStep, BurnerServed, NEW q \in Request, phase[q] = "queued"
  PROVE  Unpassed(q) /\ ~Unpassed(q)'
<1>1. q \in Task /\ q # Burner /\ Burner \in Task
  BY BurnerAssumption DEF Task
<1>2. q \in In(phase, "queued")
  BY <1>1 DEF In
<1>3. waiters # <<>> /\ Head(waiters) = Burner
  BY <1>2 DEF QueueStep
<1>4. waiters \in Seq(In(phase, "queued"))
  BY DEF SlotsInv, Lists
<1>5. 1 \in 1 .. Len(waiters) /\ waiters[1] = Burner
  BY <1>3, <1>4, TailDrops
<1>6. PICK j \in 1 .. Len(waiters) : waiters[j] = q
  BY <1>2 DEF SlotsInv, Lists
<1>7. j # 1
  BY <1>1, <1>5, <1>6
<1>8. Before(waiters, Burner, q)
  <2>1. 1 < j
    BY <1>6, <1>7
  <2> QED
    BY <1>5, <1>6, <2>1 DEF Before
<1>9. ~Before(waiters', Burner, q)
  <2> SUFFICES ASSUME Before(waiters', Burner, q) PROVE FALSE
    OBVIOUS
  <2>1. PICK i \in 1 .. Len(waiters') : waiters'[i] = Burner
    BY DEF Before
  <2>2. waiters' \in Seq(In(phase', "queued"))
    BY DEF SlotsInv, Lists
  <2>3. Burner \in In(phase', "queued")
    BY <2>1, <2>2, ElementOfSeq
  <2> QED
    BY <2>3 DEF In, BurnerServed
<1>10. phase'[q] \notin {"absent", "armed"}
  BY DEF QueueStep
<1> QED
  BY <1>8, <1>9, <1>10 DEF Unpassed

\* However long its bursts and however soon it asks again, the antagonist
\* passes a query that waits for a slot at most once: the slots' semaphore
\* serves first come first served, and a cancelled waiter leaves no gap.
THEOREM AntagonistTakesTurns == AuditReplicaSpec => []AntagonistPassesOnce
<1>1. AuditReplicaInit => SlotsInv /\ PassInv
  BY InitKeepsInv DEF AuditReplicaInit, ReplicaInv, PassInv
<1>2. SlotsInv /\ PassInv /\ [AuditReplicaNext]_auditReplicaVars => SlotsInv' /\ PassInv'
  <2> SUFFICES ASSUME SlotsInv, PassInv, [AuditReplicaNext]_auditReplicaVars
               PROVE  SlotsInv' /\ PassInv'
    OBVIOUS
  <2>1. [ReplicaNext]_replicaVars
    BY DEF AuditReplicaNext, auditReplicaVars
  <2>2. SlotsInv' /\ QueueStep
    BY <2>1, SlotsStep, QueueMoves
  <2>3. ASSUME NEW q \in Request
        PROVE  bypassed'[q] \in {0, 1} /\ (Unpassed(q)' => bypassed'[q] = 0)
    <3>1. bypassed[q] \in {0, 1} /\ (Unpassed(q) => bypassed[q] = 0)
      BY DEF PassInv
    <3>2. Unpassed(q)' => Unpassed(q)
      BY <2>2, NobodyOvertakes
    <3>3. CASE UNCHANGED bypassed
      BY <3>1, <3>2, <3>3
    <3>4. CASE AuditReplicaNext
      <4>1. bypassed'[q] = bypassed[q] + IF BurnerServed /\ phase[q] = "queued" THEN 1 ELSE 0
        BY <3>4, Zenon DEF AuditReplicaNext
      <4>2. CASE BurnerServed /\ phase[q] = "queued"
        <5>1. Unpassed(q) /\ ~Unpassed(q)'
          BY <2>2, <4>2, TurnIsTaken
        <5> QED
          BY <3>1, <4>1, <4>2, <5>1
      <4>3. CASE ~(BurnerServed /\ phase[q] = "queued")
        <5>1. bypassed'[q] = bypassed[q]
          BY <3>1, <4>1, <4>3
        <5> QED
          BY <3>1, <3>2, <5>1
      <4> QED
        BY <4>2, <4>3
    <3> QED
      BY <3>3, <3>4 DEF auditReplicaVars
  <2> QED
    BY <2>2, <2>3, Zenon DEF PassInv
<1>3. PassInv => AntagonistPassesOnce
  BY DEF PassInv, AntagonistPassesOnce
<1> QED
  BY <1>1, <1>2, <1>3, PTL DEF AuditReplicaSpec

-----------------------------------------------------------------------------
(* The two reads of a probe.                                               *)

\* Between its reads a probe has missed no query that is not over; none has
\* been missed by the probe that is answered.
ProbeInv ==
  /\ unseen = 0
  /\ probe = "halfway" => /\ arrived \in Nat /\ loaded \in Nat
                          /\ arrived <= loaded + Over

OverSet(p) == {q \in Request : p[q] \in {"leaving", "gone"}}

\* Every query that has arrived is counted in the RIF or over.
LEMMA ArrivedCounts ==
  ASSUME CountInv
  PROVE  /\ Arrived \in Nat /\ rif \in Nat /\ Over \in Nat
         /\ Arrived <= rif + Over
<1> DEFINE A == {q \in Request : phase[q] # "absent"}
<1>1. /\ IsFiniteSet(A) /\ Cardinality(A) \in Nat
      /\ IsFiniteSet(Present(phase)) /\ Cardinality(Present(phase)) \in Nat
      /\ IsFiniteSet(OverSet(phase)) /\ Cardinality(OverSet(phase)) \in Nat
  <2>1. A \subseteq Task /\ Present(phase) \subseteq Task /\ OverSet(phase) \subseteq Task
    BY DEF Task, Present, OverSet
  <2> QED
    BY <2>1, TasksFinite
<1>2. A \subseteq Present(phase) \cup OverSet(phase)
  BY DEF Present, OverSet
<1>3. /\ IsFiniteSet(Present(phase) \cup OverSet(phase))
      /\ Cardinality(Present(phase) \cup OverSet(phase))
           = Cardinality(Present(phase)) + Cardinality(OverSet(phase))
             - Cardinality(Present(phase) \cap OverSet(phase))
  BY <1>1, FS_Union
<1>4. Cardinality(Present(phase) \cap OverSet(phase)) \in Nat
  BY <1>1, FS_Intersection, FS_CardinalityType
<1>5. Cardinality(A) <= Cardinality(Present(phase) \cup OverSet(phase))
  BY <1>2, <1>3, FS_Subset
<1>6. Arrived = Cardinality(A) /\ Over = Cardinality(OverSet(phase))
      /\ rif = Cardinality(Present(phase))
  BY DEF Arrived, Over, OverSet, CountInv
<1> HIDE DEF A
<1> QED
  BY <1>1, <1>3, <1>4, <1>5, <1>6

\* What is over stays over.
LEMMA OverGrows ==
  ASSUME QueueStep
  PROVE  Over \in Nat /\ Over' \in Nat /\ Over <= Over'
<1>1. OverSet(phase) \subseteq OverSet(phase') /\ OverSet(phase') \subseteq Task
  BY DEF QueueStep, OverSet, Task
<1>2. IsFiniteSet(OverSet(phase')) /\ Cardinality(OverSet(phase')) \in Nat
  BY <1>1, TasksFinite
<1>3. Cardinality(OverSet(phase)) \in Nat
      /\ Cardinality(OverSet(phase)) <= Cardinality(OverSet(phase'))
  BY <1>1, <1>2, FS_Subset, FS_CardinalityType
<1>4. Over = Cardinality(OverSet(phase)) /\ Over' = Cardinality(OverSet(phase'))
  BY DEF Over, OverSet
<1> QED
  BY <1>2, <1>3, <1>4

\* Both invariants hold while a probe reads between any steps.
LEMMA ProbeInvHolds == ReplicaProbeSpec => [](ReplicaInv /\ ProbeInv)
<1>1. ReplicaProbeInit => ReplicaInv /\ ProbeInv
  BY InitKeepsInv DEF ReplicaProbeInit, AuditReplicaInit, ProbeInv
<1>2. ReplicaInv /\ ProbeInv /\ [ReplicaProbeNext]_replicaProbeVars => ReplicaInv' /\ ProbeInv'
  <2> SUFFICES ASSUME ReplicaInv, ProbeInv, [ReplicaProbeNext]_replicaProbeVars
               PROVE  ReplicaInv' /\ ProbeInv'
    OBVIOUS
  <2>1. [ReplicaNext]_replicaVars
    BY Zenon DEF ReplicaProbeNext, AuditReplicaNext, replicaProbeVars, auditReplicaVars
  <2>2. ReplicaInv'
    BY <2>1, SlotsStep, CountsStep DEF ReplicaInv
  <2>3. Over \in Nat /\ Over' \in Nat /\ Over <= Over'
    BY <2>1, QueueMoves, OverGrows DEF ReplicaInv
  <2>4. /\ Arrived \in Nat /\ rif \in Nat
        /\ Arrived <= rif + Over
    BY ArrivedCounts DEF ReplicaInv
  <2>5. CASE UNCHANGED probeVars
    BY <2>2, <2>3, <2>5 DEF ProbeInv, probeVars
  <2>6. CASE /\ probe' = "halfway" /\ loaded' = rif /\ arrived' = Arrived
             /\ UNCHANGED unseen
    <3>1. Arrived <= rif + Over'
      <4>1. \A a, r, o, o2 \in Nat : a <= r + o /\ o <= o2 => a <= r + o2
        OBVIOUS
      <4> QED
        BY <2>3, <2>4, <4>1, Zenon
    <3>2. arrived' \in Nat /\ loaded' \in Nat /\ arrived' <= loaded' + Over'
      BY <2>4, <2>6, <3>1, Zenon
    <3>3. unseen' = 0
      BY <2>6 DEF ProbeInv
    <3> QED
      BY <2>2, <3>2, <3>3, Zenon DEF ProbeInv
  <2>7. CASE /\ probe = "halfway" /\ probe' = "answered"
             /\ unseen' = IF arrived > loaded + Over THEN arrived - loaded - Over ELSE 0
    BY <2>2, <2>3, <2>7 DEF ProbeInv
  <2> QED
    BY <2>5, <2>6, <2>7, Zenon DEF ReplicaProbeNext, ProbeReads, replicaProbeVars
<1> QED
  BY <1>1, <1>2, PTL DEF ReplicaProbeSpec

\* No query slips between the two reads of a probe, which loads the RIF first
\* and the ring, where completions go before the RIF is given back, second.
THEOREM ProbesMissNobody == ReplicaProbeSpec => []NoQueryUnseen
<1>1. ProbeInv => NoQueryUnseen
  BY DEF ProbeInv, NoQueryUnseen
<1> QED
  BY <1>1, ProbeInvHolds, PTL

\* A probe that has loaded the RIF always finds an estimate in the ring,
\* however the ring has changed since: the second read never goes without.
THEOREM ProbesAreAnswered ==
  ReplicaProbeSpec => [](probe = "halfway" => Estimates(entries, clock, loaded) # {})
<1>1. ReplicaInv /\ ProbeInv => (probe = "halfway" => Estimates(entries, clock, loaded) # {})
  BY EstimatesExist DEF ReplicaInv, CountInv, ProbeInv
<1> QED
  BY <1>1, ProbeInvHolds, PTL
=============================================================================
