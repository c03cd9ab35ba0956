------------------------------- MODULE Replica -------------------------------
(***************************************************************************)
(* One replica (src/src/servers/replica.rs): the handlers of POST /work,   *)
(* which share the RIF counter, the worker slots and the latency ring, and *)
(* the antagonist (servers/antagonist.rs), which competes for the slots.   *)
(*                                                                         *)
(* A handler is a future that the server drops when the client gives up,   *)
(* which can happen at each of its two awaits.  The slots are a tokio      *)
(* semaphore: a released permit is assigned to the first waiter at once,   *)
(* before that waiter has run again; with no waiter it becomes available.  *)
(***************************************************************************)
EXTENDS LatencyRing

CONSTANTS
  Request,   \* the queries this replica is sent
  Burner,    \* the antagonist's task
  Slots      \* round(cpu_alloc), at least 1

ASSUME SlotsAssumption == Slots \in Nat \ {0}
ASSUME BurnerAssumption == Burner \notin Request
ASSUME RequestAssumption == IsFiniteSet(Request) /\ 1 .. Cardinality(Request) \subseteq Tag

VARIABLES
  phase,      \* where each task is
  tag,        \* rif_at_arrival of each handler
  rif,        \* ServerState::rif
  permits,    \* permits available in work_slots
  waiters,    \* tasks queued for a permit, first come first
  spinning    \* tasks whose work occupies a blocking thread and a permit

replicaVars == <<ringVars, phase, tag, rif, permits, waiters, spinning>>

Task == Request \cup {Burner}

Phase == {"absent",     \* not arrived; for the antagonist, between bursts
          "armed",      \* counted in the RIF, about to ask for a permit
          "queued",     \* waiting for a permit
          "granted",    \* a permit was assigned, the task has not run since
          "running",    \* waiting for its work on the blocking thread
          "spun",       \* the work is over, the task has not run since
          "leaving",    \* about to drop its RifGuard
          "gone"}

-----------------------------------------------------------------------------
ReplicaInit ==
  /\ RingInit
  /\ phase = [t \in Task |-> "absent"]
  /\ tag = [q \in Request |-> 0]
  /\ rif = 0
  /\ permits = Slots
  /\ waiters = <<>>
  /\ spinning = {}

\* work() is entered: RifGuard::arm.
Arm(q) ==
  /\ phase[q] = "absent"
  /\ phase' = [phase EXCEPT ![q] = "armed"]
  /\ rif' = rif + 1
  /\ tag' = [tag EXCEPT ![q] = rif + 1]
  /\ UNCHANGED <<ringVars, permits, waiters, spinning>>

\* t asks for a permit, and goes straight on to its work if one is available.
Acquire(t) ==
  \/ /\ permits > 0
     /\ permits' = permits - 1
     /\ phase' = [phase EXCEPT ![t] = "running"]
     /\ spinning' = spinning \cup {t}
     /\ UNCHANGED waiters
  \/ /\ permits = 0
     /\ phase' = [phase EXCEPT ![t] = "queued"]
     /\ waiters' = Append(waiters, t)
     /\ UNCHANGED <<permits, spinning>>

Request_Acquire(q) ==
  /\ phase[q] = "armed"
  /\ Acquire(q)
  /\ UNCHANGED <<ringVars, tag, rif>>

\* The antagonist has a deficit to burn.
Burner_Acquire ==
  /\ phase[Burner] = "absent"
  /\ Acquire(Burner)
  /\ UNCHANGED <<ringVars, tag, rif>>

\* Slips of Release: waiters are not told; the last comer is served first.
ReleaseUnannounced(p) ==
  /\ permits' = permits + 1
  /\ phase' = p
  /\ UNCHANGED waiters
ReleaseToLast(p) ==
  \/ /\ waiters = <<>>
     /\ permits' = permits + 1
     /\ phase' = p
     /\ UNCHANGED waiters
  \/ /\ waiters # <<>>
     /\ phase' = [p EXCEPT ![waiters[Len(waiters)]] = "granted"]
     /\ waiters' = SubSeq(waiters, 1, Len(waiters) - 1)
     /\ UNCHANGED permits

\* A permit is given back; p holds the phases but for the waiter it wakes.
Release(p) ==
  \/ /\ waiters = <<>>
     /\ permits' = permits + 1
     /\ phase' = p
     /\ UNCHANGED waiters
  \/ /\ waiters # <<>>
     /\ phase' = [p EXCEPT ![Head(waiters)] = "granted"]
     /\ waiters' = Tail(waiters)
     /\ UNCHANGED permits

\* A task that was assigned a permit runs and moves it into its work.
Start(t) ==
  /\ phase[t] = "granted"
  /\ phase' = [phase EXCEPT ![t] = "running"]
  /\ spinning' = spinning \cup {t}
  /\ UNCHANGED <<ringVars, tag, rif, permits, waiters>>

\* The work of t ends and drops the permit, whether or not the handler that
\* started it is still there; the antagonist is ready for its next burst.
SpinEnd(t) ==
  /\ t \in spinning
  /\ spinning' = spinning \ {t}
  /\ Release(CASE t = Burner -> [phase EXCEPT ![t] = "absent"]
               [] t # Burner /\ phase[t] = "running" -> [phase EXCEPT ![t] = "spun"]
               [] OTHER -> phase)
  /\ UNCHANGED <<ringVars, tag, rif>>

\* The handler records its completion.
Record(q) ==
  /\ phase[q] = "spun"
  /\ \E d \in Duration : Push(tag[q], d)
  /\ phase' = [phase EXCEPT ![q] = "leaving"]
  /\ UNCHANGED <<tag, rif, permits, waiters, spinning>>

\* The queue without the task at place i.
Dropped(queue, i) == SubSeq(queue, 1, i - 1) \o SubSeq(queue, i + 1, Len(queue))

\* Slip of CancelQueued: the dropped waiter keeps its place in the queue.
CancelQueuedInLine(q) ==
  /\ phase[q] = "queued"
  /\ phase' = [phase EXCEPT ![q] = "leaving"]
  /\ UNCHANGED <<ringVars, tag, rif, permits, waiters, spinning>>

\* The handler's future is dropped while it waits for a permit, ...
CancelQueued(q) ==
  /\ phase[q] = "queued"
  /\ phase' = [phase EXCEPT ![q] = "leaving"]
  /\ \E i \in DOMAIN waiters : waiters[i] = q /\ waiters' = Dropped(waiters, i)
  /\ UNCHANGED <<ringVars, tag, rif, permits, spinning>>

\* Slip of CancelGranted: the permit is lost with the waiter.
CancelGrantedLosing(q) ==
  /\ phase[q] = "granted"
  /\ phase' = [phase EXCEPT ![q] = "leaving"]
  /\ UNCHANGED <<ringVars, tag, rif, permits, waiters, spinning>>

\* ... with a permit assigned to it, which passes to the next waiter, ...
CancelGranted(q) ==
  /\ phase[q] = "granted"
  /\ Release([phase EXCEPT ![q] = "leaving"])
  /\ UNCHANGED <<ringVars, tag, rif, spinning>>

\* Slip of CancelRunning: the handler disappears without its guard.
CancelRunningLeaking(q) ==
  /\ phase[q] \in {"running", "spun"}
  /\ phase' = [phase EXCEPT ![q] = "gone"]
  /\ UNCHANGED <<ringVars, tag, rif, permits, waiters, spinning>>

\* ... or while it waits for its work, which goes on without it.
CancelRunning(q) ==
  /\ phase[q] \in {"running", "spun"}
  /\ phase' = [phase EXCEPT ![q] = "leaving"]
  /\ UNCHANGED <<ringVars, tag, rif, permits, waiters, spinning>>

Cancel(q) == CancelQueued(q) \/ CancelGranted(q) \/ CancelRunning(q)

\* RifGuard::drop
Leave(q) ==
  /\ phase[q] = "leaving"
  /\ phase' = [phase EXCEPT ![q] = "gone"]
  /\ rif' = rif - 1
  /\ tag' = [tag EXCEPT ![q] = 0]
  /\ UNCHANGED <<ringVars, permits, waiters, spinning>>

ReplicaTick == Tick /\ UNCHANGED <<phase, tag, rif, permits, waiters, spinning>>

\* What a task does once it can run.
TaskStep(t) ==
  \/ t \in Request /\ (Request_Acquire(t) \/ Record(t) \/ Leave(t))
  \/ Start(t)

ReplicaNext ==
  \/ \E q \in Request : Arm(q) \/ Cancel(q)
  \/ \E t \in Task : TaskStep(t) \/ SpinEnd(t)
  \/ Burner_Acquire
  \/ ReplicaTick

\* Tasks that can run do run, and work handed to a thread ends (spin_hash
\* and the antagonist's burst are finite loops).  Nothing is assumed of the
\* clients, of the clock or of when the antagonist wants its next burst.
ReplicaSpec ==
  ReplicaInit /\ [][ReplicaNext]_replicaVars
              /\ \A t \in Task : WF_replicaVars(TaskStep(t)) /\ WF_replicaVars(SpinEnd(t))

-----------------------------------------------------------------------------
Waiting == {t \in Task : phase[t] = "queued"}
Granted == {t \in Task : phase[t] = "granted"}

\* The types of the replica's state; the wait queue holds the waiting tasks,
\* each once, and a task that runs is on a thread.
ReplicaTypeOK ==
  /\ RingTypeOK
  /\ phase \in [Task -> Phase]
  /\ phase[Burner] \in {"absent", "queued", "granted", "running"}
  /\ tag \in [Request -> {0} \cup Tag]
  /\ rif \in Nat
  /\ permits \in 0 .. Slots
  /\ waiters \in Seq(Waiting)
  /\ Len(waiters) = Cardinality(Waiting)
  /\ spinning \subseteq Task
  /\ {t \in Task : phase[t] = "running"} \subseteq spinning

\* No cancellation, wherever it hits, leaks or repeats a decrement: the RIF
\* that probes report is the number of handlers accepted and not yet dropped.
RifIsExact ==
  rif = Cardinality({q \in Request : phase[q] \notin {"absent", "gone"}})

\* Every permit is available, assigned to a task that will use or return it,
\* or held by work on a thread, so that no more than Slots pieces of work,
\* abandoned ones and the antagonist's included, ever run at once.
SlotsAreConserved ==
  permits + Cardinality(Granted) + Cardinality(spinning) = Slots

\* No permit lies idle while somebody waits: a waiter cancelled between being
\* assigned a permit and using it does not take the wake-up with it.
WorkConserving == permits > 0 => Waiting = {}

Signal == INSTANCE InFlight
            WITH present <- {q \in Request : phase[q] \notin {"absent", "gone"}},
                 past    <- {q \in Request : phase[q] = "gone"}

\* Whatever becomes of its handlers, a replica reports what InFlight promises:
\* every step changes the RIF by one handler's arrival or end, or not at all.
ReportsInFlight == Signal!Spec

\* Every accepted query leaves the replica, finished or cancelled, even if
\* the antagonist asks for a slot again as soon as it has given one back.
EveryRequestLeaves ==
  \A q \in Request : phase[q] = "armed" ~> phase[q] = "gone"
=============================================================================
