-------------------------- MODULE AntagonistProofs --------------------------
(***************************************************************************)
(* Theorems about the antagonist's deficit counter, for every rate, wave,  *)
(* threshold, burst and cap, and for waits of any length for a slot.       *)
(***************************************************************************)
EXTENDS AntagonistAudit, TLAPS

\* The constants as numbers, and products of them that are numbers too.
LEMMA Constants ==
  /\ RateNum \in Nat /\ RateDen \in Nat /\ RateDen > 0 /\ RateNum <= RateDen
  /\ Threshold \in Nat /\ Threshold > 0 /\ MaxBurst \in Nat /\ MaxDeficit \in Nat /\ Nap \in Nat
  /\ Threshold <= MaxBurst /\ MaxBurst <= MaxDeficit
  /\ MaxDeficit * RateDen \in Nat /\ MaxBurst * RateDen \in Nat
  /\ MaxBurst * RateDen <= MaxDeficit * RateDen
  /\ Clock \subseteq Nat /\ 0 \in Clock
BY RateAssumption, BurstAssumption, ClockAssumption

\* A whole number of ticks that fits in a backlog, at most the longest burst,
\* is no more than the backlog, and at least the threshold if the backlog is.
LEMMA BurstFits ==
  ASSUME NEW b \in Nat, NEW d \in Nat, d > 0, NEW least \in Nat, NEW most \in Nat,
         least <= most, b >= least * d
  PROVE  LET n == Least(b, most * d) \div d
         IN  n \in Nat /\ n * d <= b /\ n >= least /\ n <= most
<1> DEFINE a == Least(b, most * d)
           n == a \div d
<1>1. most * d \in Nat /\ least * d \in Nat /\ least * d <= most * d
  OBVIOUS
<1>2. a \in Nat /\ a <= b /\ a <= most * d /\ least * d <= a
  BY <1>1 DEF Least
<1> HIDE DEF a
<1>3. n \in Nat /\ d * n <= a /\ a < d * (n + 1)
  BY <1>2
<1> HIDE DEF n
<1>4. n * d <= b
  BY <1>2, <1>3
<1>5. n >= least
  <2>1. n < least => (n + 1) * d <= least * d
    BY <1>3
  <2> QED
    BY <1>1, <1>2, <1>3, <2>1
<1>6. n <= most
  <2>1. n > most => n * d >= (most + 1) * d
    BY <1>3
  <2> QED
    BY <1>1, <1>2, <1>3, <2>1
<1> QED
  BY <1>3, <1>4, <1>5, <1>6 DEF n, a

\* A look credits a natural amount, no more than the rate allows.
LEMMA CreditBounded ==
  ASSUME NEW at \in Nat, NEW since \in 0 .. at
  PROVE  /\ Credit(since, at) \in Nat
         /\ Credit(since, at) <= RateNum * at - RateNum * since
         /\ RateNum * at \in Nat /\ RateNum * since \in Nat
<1>1. /\ RateNum * (at - since) \in Nat
      /\ RateNum * (at - since) = RateNum * at - RateNum * since
      /\ RateNum * at \in Nat /\ RateNum * since \in Nat
  BY Constants
<1>2. Credit(since, at) = RateNum * (at - since) \/ Credit(since, at) = 0
  BY Zenon DEF Credit
<1> QED
  BY <1>1, <1>2

\* What the loop itself preserves.
LoopInv == AntagonistTypeOK /\ BacklogIsCapped

\* A look leaves a backlog within its cap that covers the burst asked for.
LEMMA LookEffect ==
  ASSUME LoopInv, Look
  PROVE  /\ LoopInv'
         /\ mode = "looking" /\ mode' \in {"queued", "napping"}
         /\ last' = time
         /\ deficit' <= deficit + Credit(last, time)
         /\ deficit' \in Nat
<1> DEFINE backlog == Least(deficit + Credit(last, time), MaxDeficit * RateDen)
<1>1. time \in Nat /\ last \in 0 .. time /\ deficit \in Nat /\ time \in Clock /\ until \in Nat
      /\ burst \in 0 .. MaxBurst
  BY Constants DEF LoopInv, AntagonistTypeOK, BacklogIsCapped
<1>2. Credit(last, time) \in Nat
  BY <1>1, CreditBounded
<1>3. /\ backlog \in Nat
      /\ backlog <= MaxDeficit * RateDen
      /\ backlog <= deficit + Credit(last, time)
  BY <1>1, <1>2, Constants DEF Least
<1>4. /\ mode = "looking" /\ last' = time /\ deficit' = backlog /\ time' = time
      /\ \/ /\ backlog >= Threshold * RateDen
            /\ mode' = "queued"
            /\ burst' = Least(backlog, MaxBurst * RateDen) \div RateDen
            /\ until' = until
         \/ /\ mode' = "napping"
            /\ until' = time + Nap
            /\ burst' = burst
  BY DEF Look
<1> HIDE DEF backlog
<1>5. CASE /\ backlog >= Threshold * RateDen
           /\ mode' = "queued"
           /\ burst' = Least(backlog, MaxBurst * RateDen) \div RateDen
           /\ until' = until
  <2>1. burst' \in Nat /\ burst' * RateDen <= backlog /\ burst' >= Threshold /\ burst' <= MaxBurst
    BY <1>3, <1>5, Constants, BurstFits
  <2> QED
    BY <1>1, <1>3, <1>4, <1>5, <2>1, Constants DEF LoopInv, AntagonistTypeOK, BacklogIsCapped
<1>6. CASE mode' = "napping" /\ until' = time + Nap /\ burst' = burst
  BY <1>1, <1>3, <1>4, <1>6, Constants DEF LoopInv, AntagonistTypeOK, BacklogIsCapped
<1> QED
  BY <1>3, <1>4, <1>5, <1>6

\* The end of a burst pays off what the backlog covered.
LEMMA SettleEffect ==
  ASSUME LoopInv, Settle
  PROVE  /\ LoopInv'
         /\ mode = "burning" /\ mode' = "looking" /\ last' = last
         /\ deficit' = deficit - burst * RateDen
         /\ burst * RateDen \in Nat
<1>1. deficit \in 0 .. MaxDeficit * RateDen /\ burst * RateDen <= deficit /\ burst \in Nat
  BY Constants DEF LoopInv, AntagonistTypeOK, BacklogIsCapped, Settle
<1>2. burst * RateDen \in Nat
  BY <1>1, Constants
<1>3. deficit' = deficit - burst * RateDen
  BY DEF Settle
<1>4. deficit' \in 0 .. MaxDeficit * RateDen
  BY <1>1, <1>2, <1>3, Constants
<1> QED
  BY <1>2, <1>3, <1>4 DEF LoopInv, AntagonistTypeOK, BacklogIsCapped, Settle

\* Every step of the loop preserves LoopInv.
LEMMA LoopStep ==
  ASSUME LoopInv, [AntagonistNext]_antagonistVars
  PROVE  LoopInv'
<1>1. CASE Look
  BY <1>1, LookEffect
<1>2. CASE Wake
  BY <1>2 DEF Wake, LoopInv, AntagonistTypeOK, BacklogIsCapped
<1>3. CASE Ignite
  <2>1. until' \in Nat
    BY <1>3, Constants DEF Ignite, LoopInv, AntagonistTypeOK
  <2> QED
    BY <1>3, <2>1 DEF Ignite, LoopInv, AntagonistTypeOK, BacklogIsCapped
<1>4. CASE Settle
  BY <1>4, SettleEffect
<1>5. CASE TimePasses
  <2>1. time' \in Clock /\ last' \in 0 .. time'
    BY <1>5, Constants DEF TimePasses, LoopInv, AntagonistTypeOK
  <2> QED
    BY <1>5, <2>1 DEF TimePasses, LoopInv, AntagonistTypeOK, BacklogIsCapped
<1>6. CASE UNCHANGED antagonistVars
  BY <1>6 DEF antagonistVars, LoopInv, AntagonistTypeOK, BacklogIsCapped
<1> QED
  BY <1>1, <1>2, <1>3, <1>4, <1>5, <1>6 DEF AntagonistNext

\* The loop of the antagonist never leaves LoopInv, its totals aside.
LEMMA LoopIsSound == AuditAntagonistSpec => []LoopInv
<1>1. AuditAntagonistInit => LoopInv
  <2>1. 0 * RateDen = 0 /\ 0 \in 0 .. MaxDeficit * RateDen /\ 0 \in 0 .. MaxBurst
    BY Constants
  <2> QED
    BY <2>1, Constants DEF AuditAntagonistInit, AntagonistInit, LoopInv, AntagonistTypeOK,
       BacklogIsCapped
<1>2. LoopInv /\ [AuditAntagonistNext]_auditAntagonistVars => LoopInv'
  BY LoopStep DEF AuditAntagonistNext, auditAntagonistVars
<1> QED
  BY <1>1, <1>2, PTL DEF AuditAntagonistSpec

\* Type correctness of the loop: a burst that is queued or under way is
\* neither shorter than the threshold nor longer than the longest.
THEOREM AntagonistTypeCorrect == AuditAntagonistSpec => []AntagonistTypeOK
<1>1. LoopInv => AntagonistTypeOK
  BY DEF LoopInv
<1> QED
  BY <1>1, LoopIsSound, PTL

\* The backlog stays between zero and its cap and covers the burst asked for,
\* however long the waits for a slot.
THEOREM BacklogStaysCapped == AuditAntagonistSpec => []BacklogIsCapped
<1>1. LoopInv => BacklogIsCapped
  BY DEF LoopInv
<1> QED
  BY <1>1, LoopIsSound, PTL

-----------------------------------------------------------------------------
(* The rate.                                                               *)

\* The burst that is under way is counted as burned but not yet paid off.
Unpaid == IF mode = "burning" THEN burst * RateDen ELSE 0

\* What was burned, and what is still owed, was credited by the last look.
Ledger ==
  /\ burned \in Nat
  /\ burned * RateDen + deficit - Unpaid <= RateNum * last

\* The deficit counter keeps the burn within the rate, for waits of any
\* length: a burst begins only with the credit for it in the ledger.
THEOREM BurnStaysWithinRate == AuditAntagonistSpec => []BurnWithinRate
<1>1. AuditAntagonistInit => Ledger
  BY Constants DEF AuditAntagonistInit, AntagonistInit, Ledger, Unpaid
<1>2. LoopInv /\ Ledger /\ [AuditAntagonistNext]_auditAntagonistVars => Ledger'
  <2> SUFFICES ASSUME LoopInv, Ledger, [AuditAntagonistNext]_auditAntagonistVars
               PROVE  Ledger'
    OBVIOUS
  <2>1. /\ burned \in Nat /\ burst \in Nat /\ deficit \in Nat
        /\ time \in Nat /\ last \in 0 .. time
        /\ burned * RateDen \in Nat /\ burst * RateDen \in Nat
        /\ (burned + burst) * RateDen = burned * RateDen + burst * RateDen
        /\ RateNum * last \in Nat
    BY Constants DEF LoopInv, AntagonistTypeOK, BacklogIsCapped, Ledger
  <2>2. CASE Look /\ burned' = burned
    <3>1. /\ mode = "looking" /\ mode' # "burning" /\ last' = time
          /\ deficit' <= deficit + Credit(last, time)
          /\ deficit' \in Nat
      BY <2>2, LookEffect
    <3>2. /\ Credit(last, time) \in Nat
          /\ Credit(last, time) <= RateNum * time - RateNum * last
          /\ RateNum * time \in Nat
      BY <2>1, CreditBounded
    <3>3. burned * RateDen + deficit <= RateNum * last
      BY <2>1, <3>1 DEF Ledger, Unpaid
    <3>4. Unpaid' = 0
      BY <3>1 DEF Unpaid
    <3>5. burned * RateDen + deficit' <= RateNum * time
      BY <2>1, <3>1, <3>2, <3>3
    <3> QED
      BY <2>1, <2>2, <3>1, <3>4, <3>5 DEF Ledger
  <2>3. CASE Wake /\ burned' = burned
    BY <2>1, <2>3 DEF Wake, Ledger, Unpaid
  <2>4. CASE Ignite /\ burned' = burned + burst
    <3>1. burned * RateDen + deficit <= RateNum * last
      BY <2>1, <2>4 DEF Ledger, Unpaid, Ignite
    <3>2. Unpaid' = burst * RateDen /\ deficit' = deficit /\ last' = last
      BY <2>4 DEF Unpaid, Ignite
    <3> QED
      BY <2>1, <2>4, <3>1, <3>2 DEF Ledger
  <2>5. CASE Settle /\ burned' = burned
    <3>1. /\ Unpaid = burst * RateDen /\ Unpaid' = 0
          /\ deficit' = deficit - burst * RateDen
          /\ last' = last
      BY <2>5, SettleEffect DEF Unpaid
    <3> QED
      BY <2>1, <2>5, <3>1 DEF Ledger
  <2>6. CASE TimePasses /\ burned' = burned
    BY <2>1, <2>6 DEF TimePasses, Ledger, Unpaid
  <2>7. CASE UNCHANGED auditAntagonistVars
    BY <2>1, <2>7 DEF auditAntagonistVars, antagonistVars, Ledger, Unpaid
  <2>8. ASSUME AuditAntagonistNext
        PROVE  \/ (Look \/ Wake \/ Settle \/ TimePasses) /\ burned' = burned
               \/ Ignite /\ burned' = burned + burst
    <3>1. AntagonistNext
          /\ burned' = IF mode = "queued" /\ mode' = "burning" THEN burned + burst ELSE burned
      BY <2>8 DEF AuditAntagonistNext
    <3>2. Ignite => mode = "queued" /\ mode' = "burning"
      BY DEF Ignite
    <3>3. Look \/ Wake \/ Settle \/ TimePasses => ~(mode = "queued" /\ mode' = "burning")
      BY DEF Look, Wake, Settle, TimePasses
    <3> QED
      BY <3>1, <3>2, <3>3 DEF AntagonistNext
  <2> QED
    BY <2>2, <2>3, <2>4, <2>5, <2>6, <2>7, <2>8
<1>3. LoopInv /\ Ledger => BurnWithinRate
  <2> SUFFICES ASSUME LoopInv, Ledger
               PROVE  burned * RateDen <= RateNum * time
    BY DEF BurnWithinRate
  <2>1. /\ burned \in Nat /\ burst \in Nat /\ deficit \in Nat
        /\ time \in Nat /\ last \in 0 .. time
        /\ burned * RateDen \in Nat /\ burst * RateDen \in Nat
        /\ RateNum * last \in Nat /\ RateNum * time \in Nat
        /\ RateNum * last <= RateNum * time
    BY Constants DEF LoopInv, AntagonistTypeOK, BacklogIsCapped, Ledger
  <2>2. Unpaid <= deficit /\ Unpaid \in Nat
    BY <2>1 DEF Unpaid, LoopInv, BacklogIsCapped
  <2> QED
    BY <2>1, <2>2 DEF Ledger
<1> QED
  BY <1>1, <1>2, <1>3, LoopIsSound, PTL DEF AuditAntagonistSpec
=============================================================================
