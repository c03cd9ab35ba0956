--------------------------- MODULE WeightRefresher ---------------------------
(***************************************************************************)
(* The background task of the wrr policy (Balancer::start in               *)
(* src/src/client/policy.rs): at every tick of an interval it probes the   *)
(* replicas one after the other and sets the weight of each that answers.  *)
(* The interval makes up for ticks missed during a long round at once.     *)
(* Timers fire when they are due; a late runtime adds its lateness.        *)
(***************************************************************************)
EXTENDS Fleet

CONSTANTS
  Period,         \* of the interval, one second
  ProbeTimeout,   \* Balancer::probe_timeout
  CpuReading,     \* values of cpu_util considered, in percent
  Clock           \* clock readings: Nat, or 0 .. k to bound a run

ASSUME TimingAssumption == Period \in Nat \ {0} /\ ProbeTimeout \in Nat \ {0}
ASSUME ClockAssumption == Clock \subseteq Nat /\ 0 \in Clock
ASSUME CpuAssumption == CpuReading \subseteq 0 .. 10000

VARIABLES
  time,       \* the client's monotonic clock
  due,        \* when the interval ticks next
  cursor,     \* the replica being probed; n between rounds
  deadline,   \* when its probe times out
  weights     \* Policy::Wrr::weights

wrrVars == <<time, due, cursor, deadline, weights>>

\* 1 / cpu_util.max(0.05) in hundredths: 2000 for an idle replica.
Weight(cpu) == 10000 \div (IF cpu < 5 THEN 5 ELSE cpu)
InitialWeight == 100

-----------------------------------------------------------------------------
WrrInit ==
  /\ time = 0
  /\ due = 0                 \* the first tick of an interval is immediate
  /\ cursor = n
  /\ deadline = 0
  /\ weights = [i \in Index |-> InitialWeight]

\* tick.tick() returns and a round begins.
Round ==
  /\ cursor = n /\ time >= due
  /\ due' = due + Period
  /\ cursor' = 0
  /\ deadline' = time + ProbeTimeout
  /\ UNCHANGED <<time, weights>>

\* The loop goes on to the next replica, or to the next tick.
Advance ==
  /\ cursor' = cursor + 1
  /\ deadline' = IF cursor + 1 = n THEN deadline ELSE time + ProbeTimeout
  /\ UNCHANGED <<time, due>>

\* The probed replica answers.
Refresh ==
  /\ cursor < n
  /\ \E cpu \in CpuReading : weights' = [weights EXCEPT ![cursor] = Weight(cpu)]
  /\ Advance

\* Slip of Skip: a failure ends the round.
SkipRound ==
  /\ cursor < n
  /\ cursor' = n
  /\ UNCHANGED <<time, due, deadline, weights>>

\* The probe fails, at once or by its timeout; the weight stays.
Skip ==
  /\ cursor < n
  /\ Advance
  /\ UNCHANGED weights

TimePasses ==
  /\ time + 1 \in Clock
  /\ time < IF cursor < n THEN deadline ELSE due
  /\ time' = time + 1
  /\ UNCHANGED <<due, cursor, deadline, weights>>

WrrNext == Round \/ Refresh \/ Skip \/ TimePasses

-----------------------------------------------------------------------------
\* The types of the refresher's state; no weight is zero, so that the draw
\* of select() has a range to draw from and no replica is out of its reach.
WrrTypeOK ==
  /\ {time, due, deadline} \subseteq Nat
  /\ cursor \in 0 .. n
  /\ weights \in [Index -> Nat \ {0}]
=============================================================================
