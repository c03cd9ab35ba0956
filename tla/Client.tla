------------------------------- MODULE Client -------------------------------
(***************************************************************************)
(* The load generator (src/src/client/mod.rs) and its metrics              *)
(* (src/src/metrics/collector.rs): a main task that spawns one task per    *)
(* arriving query, drains and reports, and the query tasks, which select a *)
(* replica, post the work under a timeout and record the outcome.          *)
(*                                                                         *)
(* Replicas are outside this module: a reply may come at any time or       *)
(* never.  Time is counted in ticks; a timer that is due fires at most     *)
(* Lateness ticks late, which the model has to assume of the runtime.      *)
(***************************************************************************)
EXTENDS Integers, FiniteSets, Functions

CONSTANTS
  Query,          \* arrivals of one run
  Replica,        \* indices into --servers
  Deadline,       \* duration_s
  Timeout,        \* timeout_ms
  Grace,          \* extra drain (500 ms)
  SelectLimit,    \* longest select(): the probe timeout under Po2, else 0
  Lateness,       \* how late a due timer may fire
  Clock           \* clock readings: Nat, or 0 .. n to bound a run

ASSUME FleetAssumption == IsFiniteSet(Query) /\ IsFiniteSet(Replica) /\ Cardinality(Replica) >= 2
ASSUME TimeAssumption ==
  /\ {Deadline, Timeout, Grace, SelectLimit, Lateness} \subseteq Nat
  /\ Clock \subseteq Nat /\ 0 \in Clock
ASSUME GraceAssumption == SelectLimit + 2 * Lateness < Grace

VARIABLES
  time,
  main,           \* "generating", "draining" or "reported"
  drained,        \* when the drain is over
  task,           \* where each query's task is
  due,            \* when its current timer fires
  replica,        \* the replica it selected
  served,         \* MetricsCollector: samples in each replica's histogram
  errors,         \* MetricsCollector::error_count
  queries,        \* MetricsCollector::query_count
  report          \* query_count in the printed summary

clientVars == <<time, main, drained, task, due, replica, served, errors, queries, report>>

Stage == {"absent", "selecting", "posted", "reading", "recorded"}
Undecided == CHOOSE r \in Replica : TRUE     \* value of replica[q] before select()
NoReport == -1

-----------------------------------------------------------------------------
ClientInit ==
  /\ time = 0
  /\ main = "generating"
  /\ drained = 0
  /\ task = [q \in Query |-> "absent"]
  /\ due = [q \in Query |-> 0]
  /\ replica = [q \in Query |-> Undecided]
  /\ served = [r \in Replica |-> 0]
  /\ errors = 0
  /\ queries = 0
  /\ report = NoReport

metricsVars == <<served, errors, queries>>
mainVars == <<main, drained, report>>

\* The generator spawns the task of the next query.
Arrive(q) ==
  /\ main = "generating"
  /\ task[q] = "absent"
  /\ task' = [task EXCEPT ![q] = "selecting"]
  /\ due' = [due EXCEPT ![q] = time + SelectLimit]
  /\ UNCHANGED <<time, mainVars, replica, metricsVars>>

\* select() returns and the work is posted, its timeout running.
Post(q, r) ==
  /\ task[q] = "selecting"
  /\ task' = [task EXCEPT ![q] = "posted"]
  /\ due' = [due EXCEPT ![q] = time + Timeout]
  /\ replica' = [replica EXCEPT ![q] = r]
  /\ UNCHANGED <<time, mainVars, metricsVars>>

\* A success status arrives; the body is still to be read.
Respond(q) ==
  /\ task[q] = "posted"
  /\ task' = [task EXCEPT ![q] = "reading"]
  /\ UNCHANGED <<time, mainVars, due, replica, metricsVars>>

\* Slip of Record: the sample is not counted as a query.
RecordUncounted(q) ==
  /\ task[q] = "reading"
  /\ task' = [task EXCEPT ![q] = "recorded"]
  /\ served' = [served EXCEPT ![replica[q]] = @ + 1]
  /\ UNCHANGED <<time, mainVars, due, replica, errors, queries>>

\* MetricsCollector::record, once the body has decoded.
Record(q) ==
  /\ task[q] = "reading"
  /\ task' = [task EXCEPT ![q] = "recorded"]
  /\ served' = [served EXCEPT ![replica[q]] = @ + 1]
  /\ queries' = queries + 1
  /\ UNCHANGED <<time, mainVars, due, replica, errors>>

\* MetricsCollector::record_error: a failed connection, an error status, a
\* bad body, or the timeout, which covers the body as well.
Fail(q) ==
  /\ task[q] \in {"posted", "reading"}
  /\ task' = [task EXCEPT ![q] = "recorded"]
  /\ errors' = errors + 1
  /\ queries' = queries + 1
  /\ UNCHANGED <<time, mainVars, due, replica, served>>

\* Slip of Drain: the drain is one timeout long.
DrainTimeout ==
  /\ main = "generating" /\ time >= Deadline
  /\ main' = "draining"
  /\ drained' = time + Timeout
  /\ UNCHANGED <<time, task, due, replica, metricsVars, report>>

\* The schedule has passed the deadline: the generator sleeps.
Drain ==
  /\ main = "generating" /\ time >= Deadline
  /\ main' = "draining"
  /\ drained' = time + Timeout + Grace
  /\ UNCHANGED <<time, task, due, replica, metricsVars, report>>

\* Slip of Report: the summary is printed and the loop goes on.
ReportAndStay ==
  /\ main = "draining" /\ time >= drained
  /\ report' = queries
  /\ UNCHANGED <<time, main, drained, task, due, replica, metricsVars>>

\* The sleep is over and the summary is printed.
Report ==
  /\ main = "draining" /\ time >= drained
  /\ main' = "reported"
  /\ report' = queries
  /\ UNCHANGED <<time, drained, task, due, replica, metricsVars>>

\* No timer that is due by more than Lateness is still pending.
TimePasses ==
  /\ time + 1 \in Clock
  /\ \A q \in Query : task[q] \in {"selecting", "posted", "reading"} => time < due[q] + Lateness
  /\ time' = time + 1
  /\ UNCHANGED <<mainVars, task, due, replica, metricsVars>>

QueryStep(q) ==
  \/ \E r \in Replica : Post(q, r)
  \/ Respond(q)
  \/ Record(q)
  \/ Fail(q)

ClientNext ==
  \/ \E q \in Query : Arrive(q) \/ QueryStep(q)
  \/ Drain
  \/ Report
  \/ TimePasses

ClientSpec == ClientInit /\ [][ClientNext]_clientVars

-----------------------------------------------------------------------------
\* The types of the generator's state.
ClientTypeOK ==
  /\ time \in Clock /\ drained \in Nat
  /\ main \in {"generating", "draining", "reported"}
  /\ task \in [Query -> Stage]
  /\ due \in [Query -> Nat]
  /\ replica \in [Query -> Replica]
  /\ served \in [Replica -> Nat]
  /\ errors \in Nat /\ queries \in Nat /\ report \in Nat \cup {NoReport}
  /\ report # NoReport <=> main = "reported"

\* The three counters the summary prints agree with each other and with the
\* query tasks at every lock release, progress lines included: each query is
\* in query_count once its task is over, as one error or as one sample of the
\* replica that served it.
CountsAgree ==
  LET over(r) == {q \in Query : task[q] = "recorded" /\ replica[q] = r}
  IN  /\ queries = Cardinality({q \in Query : task[q] = "recorded"})
      /\ queries = errors + FoldFunction(+, 0, served)
      /\ \A r \in Replica : served[r] <= Cardinality(over(r))

\* The drain outlasts every query: select(), the timeout and the reading of
\* the body fit in it, so the report counts every query that arrived.
ReportIsComplete ==
  main = "reported" =>
    /\ \A q \in Query : task[q] \in {"absent", "recorded"}
    /\ report = Cardinality({q \in Query : task[q] # "absent"})
=============================================================================
