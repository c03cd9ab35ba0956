----------------------------- MODULE Antagonist -----------------------------
(***************************************************************************)
(* The loop of the CPU antagonist (src/src/servers/antagonist.rs): a       *)
(* deficit grows while the square wave is active and is worked off in      *)
(* bursts, each of which waits for one of the replica's worker slots (see  *)
(* Replica for the slots themselves).                                      *)
(*                                                                         *)
(* Time is counted in ticks.  The burn rate is the rational RateNum /      *)
(* RateDen of one core, and the deficit is kept in ticks / RateDen.        *)
(***************************************************************************)
EXTENDS Integers

CONSTANTS
  RateNum, RateDen,   \* cpu_pct.min(100) / 100
  Period, Phase,      \* period_s and phase_s
  Second,             \* ticks per second
  Threshold,          \* smallest deficit worth a burst (20 ms), in ticks
  MaxBurst,           \* longest burst (100 ms), in ticks
  MaxDeficit,         \* cap on the backlog (300 ms), in ticks
  Nap,                \* sleep between looks at the clock (10 ms), in ticks
  Clock               \* clock readings: Nat, or 0 .. n to bound a run

ASSUME RateAssumption == RateNum \in Nat /\ RateDen \in Nat \ {0} /\ RateNum <= RateDen
ASSUME WaveAssumption == Period \in Nat /\ Phase \in Nat /\ Second \in Nat \ {0}
ASSUME BurstAssumption ==
  /\ Threshold \in Nat \ {0} /\ MaxBurst \in Nat /\ MaxDeficit \in Nat /\ Nap \in Nat
  /\ Threshold <= MaxBurst /\ MaxBurst <= MaxDeficit
ASSUME ClockAssumption == Clock \subseteq Nat /\ 0 \in Clock

VARIABLES
  time,       \* the clock, from origin
  mode,       \* "looking", "napping", "queued" for a slot, or "burning"
  last,       \* the time of the previous look
  deficit,    \* deficit_us
  burst,      \* length of the burst that is queued or under way
  until       \* when the nap or the burst is over

antagonistVars == <<time, mode, last, deficit, burst, until>>

Least(a, b) == IF a <= b THEN a ELSE b

\* The square wave at time at; no period means always.
Active(at) ==
  Period = 0 \/ (at \div Second + Phase) % Period < Period \div 2

\* What a look at time at credits for the time since the last one: all of it,
\* or nothing, by the wave at that instant.
Credit(since, at) == IF Active(at) THEN RateNum * (at - since) ELSE 0

-----------------------------------------------------------------------------
AntagonistInit ==
  /\ time = 0 /\ last = 0 /\ until = 0
  /\ mode = "looking"
  /\ deficit = 0
  /\ burst = 0

\* Slip of Look: the burst is as long as the backlog.
LookUnclamped ==
  LET backlog == Least(deficit + Credit(last, time), MaxDeficit * RateDen)
  IN  /\ mode = "looking"
      /\ last' = time
      /\ deficit' = backlog
      /\ \/ /\ backlog >= Threshold * RateDen
            /\ mode' = "queued"
            /\ burst' = backlog \div RateDen
            /\ UNCHANGED until
         \/ /\ backlog < Threshold * RateDen
            /\ mode' = "napping"
            /\ until' = time + Nap
            /\ UNCHANGED burst
      /\ UNCHANGED time

\* The top of the loop: credit the time since the last look, then ask for a
\* slot or sleep.
Look ==
  LET backlog == Least(deficit + Credit(last, time), MaxDeficit * RateDen)
  IN  /\ mode = "looking"
      /\ last' = time
      /\ deficit' = backlog
      /\ \/ /\ backlog >= Threshold * RateDen
            /\ mode' = "queued"
            /\ burst' = Least(backlog, MaxBurst * RateDen) \div RateDen
            /\ UNCHANGED until
         \/ /\ backlog < Threshold * RateDen
            /\ mode' = "napping"
            /\ until' = time + Nap
            /\ UNCHANGED burst
      /\ UNCHANGED time

Wake ==
  /\ mode = "napping" /\ time >= until
  /\ mode' = "looking"
  /\ UNCHANGED <<time, last, deficit, burst, until>>

\* A slot is free: the burst begins, after a wait of any length.
Ignite ==
  /\ mode = "queued"
  /\ mode' = "burning"
  /\ until' = time + burst
  /\ UNCHANGED <<time, last, deficit, burst>>

\* Slip of Settle: the burst is not paid off.
SettleFree ==
  /\ mode = "burning" /\ time >= until
  /\ mode' = "looking"
  /\ UNCHANGED <<time, last, deficit, burst, until>>

\* Slip of Settle: the longest burst is paid off, whatever its length.
SettleFully ==
  /\ mode = "burning" /\ time >= until
  /\ mode' = "looking"
  /\ deficit' = deficit - MaxBurst * RateDen
  /\ UNCHANGED <<time, last, burst, until>>

\* The burst is over and paid off.
Settle ==
  /\ mode = "burning" /\ time >= until
  /\ mode' = "looking"
  /\ deficit' = deficit - burst * RateDen
  /\ UNCHANGED <<time, last, burst, until>>

TimePasses ==
  /\ time + 1 \in Clock
  /\ time' = time + 1
  /\ UNCHANGED <<mode, last, deficit, burst, until>>

AntagonistNext == Look \/ Wake \/ Ignite \/ Settle \/ TimePasses

AntagonistSpec == AntagonistInit /\ [][AntagonistNext]_antagonistVars

-----------------------------------------------------------------------------
\* The types of the loop's state; a burst that is queued or under way is a
\* real one, within the longest.
AntagonistTypeOK ==
  /\ time \in Clock /\ last \in 0 .. time /\ until \in Nat
  /\ mode \in {"looking", "napping", "queued", "burning"}
  /\ burst \in 0 .. MaxBurst
  /\ mode \in {"queued", "burning"} => burst >= Threshold

\* The backlog is never negative, never above its cap whatever the waits for
\* a slot, and always covers the burst it has asked for, so that paying a
\* burst off cannot turn it into a credit.
BacklogIsCapped ==
  /\ deficit \in 0 .. MaxDeficit * RateDen
  /\ mode \in {"queued", "burning"} => burst * RateDen <= deficit
=============================================================================
