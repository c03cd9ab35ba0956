# A formal model of prequal-rs

TLA+ modules, TLC configurations and TLAPS proofs for `prequal-rs`, a Rust
reproduction of the Prequal load balancer (Wydrowski et al., NSDI 2024). The
code under `src/src/` is the reference: every definition of a model names the
lines it stands for in `PROJECT.json` ("map"). Paths below are relative to the
crate, so `client/pool.rs` is `src/src/client/pool.rs`.

Contents: [the system](#1-the-system), [the modules](#2-the-modules),
[what the models abstract](#3-what-the-models-abstract),
[the runs](#4-the-runs), [where code and documentation disagree](#5-where-code-and-documentation-disagree),
[the proofs](#6-the-proofs), [what is left](#7-what-is-not-modelled-and-the-plan).

    cd tla
    tlc -workers 2 -config MCProbePools.cfg MCProbePools.tla
    tlapm ProbePoolProofs.tla

## 1. The system

A client process holds several independent *balancers*. Each arriving query is a
task that asks one balancer for a replica and posts its work there. A replica
executes work on a few worker slots and answers probes with its load. Under the
`prequal` policy a balancer ranks replicas by a pool of probe responses filled
by background tasks.

    generator --spawns--> query task --select()--> balancer --lock--> probe pool
                              |                        \--spawns--> probe task --insert()--^
                              |                                        |
                          POST /work                               GET /probe
                              v                                        v
     antagonist --slots--> replica: RIF counter, slots, latency ring, CPU average
                              |
                          reply, error or timeout --> metrics collector

| Component (source) | State | Operations | What is hard about it | What makes it correct |
|---|---|---|---|---|
| Probe pool (`client/pool.rs`) | probes with RIF, RIF as reported, latency, instant, uses; `remove_oldest_next` | `insert`, `expire`, `hcl_select`, `remove_one` | probes expire only when a query selects; several probes of one replica; quantile at its ends; a Vec that every removal permutes; long runs without fresh probes | bounded; no response decides more often than the budget allows or on an old reading; overload shows; no probe stays or drifts for ever; no decision depends on where in the Vec a probe is |
| Prequal balancer (`client/policy.rs`) | the pool behind a mutex, tasks | `select`, `trigger_probes`, probe tasks | queries and probe tasks interleave; probes are lost or late; the fallback is drawn, and the query sent, after the lock is released | no increment or use is lost; every query gets a replica without waiting for probes |
| Other policies (`client/policy.rs`) | round-robin counter, po2's probes, wrr weights | `new`, `start`, `select`, the weight task | a wrapping counter; synchronous probes that fail, or read two different moments; a refresher that dead replicas hold up | shares stay even; no query is blocked for good or sent to the busier replica; weights of live replicas stay fresh |
| Replica handler (`servers/replica.rs`) | RIF counter, worker slots, handlers | `work`, `RifGuard`, `probe` | handlers dropped at any await, with a permit assigned or work under way; the antagonist competes for slots; a probe reads twice while handlers move | RIF and permits never leak; nobody starves; no permit idles; no query hides from a probe |
| Latency ring (`servers/replica.rs`) | a ring of samples and its head | `push`, `median_near` | wrap of the head; stale samples; scaling at low RIF; unstable sorting | keeps the last completions; the estimate means what it says |
| CPU tracker (`servers/replica.rs`) | a moving average | `sample` | - | read by wrr only |
| Whole system | the above, the network | all of them at once | readings, landings, decisions and arrivals in any order; losses | the RIF that is compared counts each query once and is recent; load drains |
| Antagonist (`servers/antagonist.rs`) | deficit, burst, wave | the loop of `run` | waits of any length for a slot; integer division of the period | burns at most its rate, no train of bursts, burns in every period |
| Load generator (`client/mod.rs`) | schedule, query tasks | arrivals, timeout, drain, report | a late query that times out races the report | the report counts every query once |
| Metrics (`metrics/collector.rs`) | query and error counts, histograms | `record`, `record_error`, `summary` | three pieces of state that must agree | counts add up whenever the lock is free |
| Configuration (`config.rs`) | parameters | `reuse_budget` | net pool growth zero, negative or tiny; rounding in f64 | Eq. (1) of the paper, and more reuse for larger pools |
| Command line, scripts | none | parsing, measuring | - | - |

Interactions: queries and probe tasks share the pool through one mutex, which is
never held across an await. Handlers share the RIF counter (atomic), the slots (a
tokio semaphore) and the ring (a mutex). The antagonist shares the slots.
Balancers share nothing with each other. Probes and work travel by HTTP with
timeouts; nothing is retried, and nothing survives a restart of a process.

`PROJECT.json` ("hazards") lists what can go wrong in this code that a test would
hardly reach, at its line, with the properties that would notice.

## 2. The modules

**`OrderStatistics`** - the entry at an index of a sorted list, with repetitions:
`sort` followed by indexing, used for the RIF quantile and for the ring's medians.

**`Probes`** - a probe response, its adjusted latency, and the parameters of a pool.

**`ProbePool`** - `client/pool.rs` and the critical section of `Balancer::select`
that uses it. `pool` is `ProbePool::probes` as a function from the instant a probe
was stored (`received_at`) to the probe; `removeOldestNext` is the flag of that
name; `now` is the clock. `Store` is a probe task's `insert` (evict the oldest when
full, push). `Select(w)` is everything `select` does between taking and dropping the
lock: `expire`, HCL with winner `w` or the random fallback below two probes
(`w = NoProbe`), the increments for the winner, and `remove_one`. `Pass` is time.

**`ProbePoolVec`** - the same code with the Vec it works on: `probes` is a sequence of
probes with their instants, `InsertIn`, `ExpireIn`, `HclSlot`, `CompensateIn` and
`VecRemoveOne` work by place as `insert`, `expire`, `hcl_select` and `remove_one` do.
`SwapRemove` moves the last probe into the gap, `FirstMin` and `LastMax` are `min_by_key` and
`max_by_key`, `LatestSlots` is what the pass of `hot_threshold` leaves in its map. A selection
has one outcome. `PoolOf` is the refinement mapping to `ProbePool`, the abstract specification.

**`ProbePoolAudit`** - the pool with one history variable, `survived` (selections a
probe has outlived), and the pool's properties.

**`Balancer`** - `Balancer::select`, `trigger_probes` and the probe tasks as
concurrent tasks over `ProbePool`. A query is `new`, `probing` (probes fired, about
to take the lock), `drawing` (lock released without a winner), `chosen` (select has
returned) and `sent`. `fetching` holds the probe tasks under way, which end in
`Land` (the response is stored) or `Lose`. Each action is built from the pool's `Store`,
`Select` or `Pass`, or leaves the pool alone, so a behaviour of the tasks is one of the pool
by construction.

**`BalancerAudit`** - the balancer with the history of decisions (`winner`,
`decidedAt`) and of stored responses, and the properties that relate the two.

**`LatencyRing`**, **`LatencyRingAudit`** - `LatencyRing::push` and `median_near`
and the properties of the estimate. `Estimates` is the *set* of results the code may
return, because `sort_unstable_by_key` may leave samples at equal distance in any
order. **`RecentCompletions`** is what the ring promises, a list of the last
completions; `InOrder` is the refinement mapping.

**`Replica`**, **`ReplicaAudit`** - the handlers of `POST /work`, one request each,
with the antagonist as one more user of the slots. The two awaits of `work()` give
`queued`/`granted` (the semaphore assigns a released permit to the first waiter,
which runs later) and `running`/`spun` (the blocking thread ends, and the handler
runs later). `Cancel` drops the handler at either; `spinning` outlives it, because
the permit moved into the closure. `Record` is the ring's `Push`, so the module
extends `LatencyRing`.

**`InFlight`** - the abstract specification of a replica as its clients see it: requests
enter and leave, and the report is the number of those present. `Replica!Signal` is the
refinement mapping (a request is present from `Arm` to `Leave`).

**`ReplicaProbe`** - the handler of `GET /probe` beside the others: `ProbeReads` loads
the RIF in one step and reads the ring in another, and any step of `Replica` may come
between. One probe is followed; probes change nothing that others read.

**`Antagonist`**, **`AntagonistAudit`** - the deficit loop: `Look` (credit the time
since the last look, cap, decide), `Wake`, `Ignite` (the slot was granted, after any
wait), `Settle` (subtract the burst).

**`Fleet`** - what `Balancer::new` fixes for good, policy and number of replicas, as
variables that never change: one run covers every policy on several fleets.

**`PowerOfTwo`** - the po2 arm: `Draw` two replicas, `Hear` or `Miss` each probe's
outcome, `Choose` when both are there, while `LoadChanges` moves the replicas' RIF.

**`WeightRefresher`** - the background task of wrr: `Round` (the interval ticks),
`Refresh` or `Skip` for one replica after the other, each within its timeout. `cursor`
is the loop's index; ticks missed during a long round are made up for at once, as
tokio's interval does.

**`ReuseBudget`** - `reuse_budget`, exactly and with what rounding may add.

**`Policies`**, **`PoliciesAudit`** - the four together, with round-robin, random and the
weighted draw; the audit records shares, the extremes of the RIFs po2 compared, and the
age of the readings behind the weights.

**`PrequalSystem`** - the composition. It extends `Balancer` and adds the network and
the replicas: `call` is where the `POST /work` of each query is, `visited` where requests
of other balancers are, `fired` when each probe under way was sent, `answers` what the
replica has answered and when. `AnswerProbe` reads the RIF, `StoreAnswer` lands it within
`ProbeTimeout`, `LoseProbe` is loss or timeout, `CallMoves` and `ForeignMoves` are the
requests. A replica's RIF is the number of requests `PresentAt` it, which is `InFlight`.
`saw` is history: for each pooled probe, when and from which requests it was read, and
the queries HCL has sent there since.

**`Client`** - the generator, the query tasks with their timeout, the drain and the
report, with `MetricsCollector` as `served`, `errors` and `queries`.

**`MC*`** - what TLC needs: symmetry sets and, in the `.cfg` files, the instances.

**`*Proofs`** - section 6.

Definitions called *slips* ("Slip of Insert: ...") are plausible mistakes in a
definition. Nothing uses them; `PROJECT.json` ("mutants") pairs each with the
property that finds it when it takes the place of the real definition, which shows
that no property holds whatever the code does.

## 3. What the models abstract

- **Distinct instants.** Probes are stored at distinct instants. `insert` reads the
  clock while holding the lock, so instants never decrease; equal ones would make
  "oldest" and "latest" a choice, no new kind of behaviour.
- **Order of the Vec.** The source calls the pool unordered. Where the code takes the
  first minimum or last maximum it meets, `ProbePool` takes any; `ProbePoolVec` has the
  order and implements it.
- **Floating point.** `q_rif` is a rational `QNum / QDen` of at most 1, and its index
  is exact; the burn rate of the antagonist is a rational.
- **`r_remove` is 1**, its default and only value: no command-line option changes it.
- **Floating point in Eq. (1)** is exact arithmetic and a choice: a quotient that is a
  whole number may come out just above it, and be rounded up to the next. A fraction
  differs from every whole number by far more than the rounding. Where the net growth is
  zero, f64 may leave some 1e-16 of it; the quotient then exceeds `u32::MAX`, to which the
  cast saturates, so the outcome is the same.
- **The network** is unconstrained in `Balancer`: a response carries any reading of the
  instance and lands or is lost whenever it likes. In `PrequalSystem` a response carries
  what was in flight when the probe was answered, and answers overtake each other. In
  `Client` a reply, failure or timeout comes at any moment up to the timeout.
- **What a client learns** of its request is left to `Client`. In `PrequalSystem` a request
  ends at any time, finished or given up, and a timeout is one way to end. A request that
  was lost before it arrived never arrives afterwards.
- **Other balancers** appear in `PrequalSystem` as requests that come to any replica and go:
  balancers share nothing but the load they put on replicas.
- **The weighted draw** of wrr reaches any replica of positive weight.
- **The semaphore** is external. Its hand-over order (first come, first served; a
  permit assigned to a dropped waiter goes to the next) is that of tokio.
- **Blocking threads** are always available: tokio's pool of 512 is far larger than
  the slots.
- **Timers** in `Client` fire at most `Lateness` late. No bound follows from the code;
  `ReportIsComplete` is a statement about runtimes that are late by less than half of
  what the 500 ms grace leaves (`GraceAssumption`). In `WeightRefresher` they fire when due,
  and in `PrequalSystem` a timed-out probe's answer is dropped; a late runtime adds its
  lateness to the ages these modules bound.
- **Cancellation.** That the HTTP server drops the handler's future when the client
  disconnects is taken from the comment in `work()` ("even if this handler is
  cancelled").
- Costs of queries, arrival distributions, histogram contents, logging and the debug
  dump of the pool are left out.

## 4. The runs

Every run finishes within three minutes on two cores. Distinct states in brackets.

| Run | Question | Instance and why it is enough |
|---|---|---|
| `pool` (539 k) | Can any order of insertions, selections and time break the bound, the hot/cold rule or the compensation? Does the alternation of `remove_one` bound how long a probe stays and how far its RIF drifts? Does it matter to any decision, removal or threshold in what order `swap_remove` has left the Vec? | 2 replicas and 3 probes, so a replica has several copies, and overflow, expiry by age (TTL 6 of 7 ticks) and by use (budget 2) all happen; RIF readings 0 and 3 differ by more than one dispatch; the default quantile; a TTL longer than the retention bound of 4 selections. A behaviour follows either `ProbePool` with its history (332 k) or `ProbePoolVec`; 3 probes are enough for a removal to put a younger probe before an older one of its replica, and for ties. A capacity of 0 and a quantile of 0 or 1 are covered by the theorems alone |
| `pool_hot_replica` | Is the replica HCL picks cold? | violated: section 5 |
| `balancer` (2.16 M) | Do concurrent queries and probe tasks lose or repeat an increment, exceed the budget, or decide on more than was stored? | 3 queries with 2 probes each: two can contend while the third's probes land late; capacity 2, TTL 3, budget 2; quantile 1 and equal readings, so that ranking leaves the winner open and a probe can win again |
| `balancer_uncounted` | Does a pooled RIF count all we dispatched since? | violated: section 5 |
| `ring` (78 k) | Does the ring keep the last completions, and is the estimate exact, leading and free of stale samples where it should be? | 3 slots (it wraps more than once), 2 nearest, so that one is left out and another RIF has other nearest samples; 3 tags, 3 durations, 4 instants with freshness 1 |
| `ring_uniform` | Is a uniform history reported as it is? | violated: section 5 |
| `replica` (924 k) | Does the RIF stay what it promises, do permits leak or idle when handlers are dropped at any await, can the antagonist starve a query, or a query hide from a probe? | 3 requests, a probe, the antagonist and 1 slot, the smallest with a queue of several waiters behind each other |
| `antagonist` (66 k) | Do waits for a slot drive the backlog over its cap or negative, or the burn over its rate? | two and a half wave periods of 12 ticks; burst, threshold and cap in the code's order |
| `antagonist_short_period` | Does every period burn? | violated: section 5 |
| `client` (639 k) | Is every query counted once, and before the report? | 3 queries, 2 replicas, timers up to one tick late |
| `policies` (889 k) | Is the reuse budget right for every configuration, are shares even across wraps of the counter, does po2 choose well and always, do weights stay fresh? | fleets of 2 and 3 against a counter of 8, which one divides and the other does not, over two wraps; one po2 query (po2 queries share nothing) with RIFs 0 to 2; 8 ticks of wrr with rounds shorter and longer than its period; 252 configurations on 5 fleets, those of the unit tests among them |
| `system` (2.80 M) | Does what HCL compares count each query once, is it recent, and does load drain whatever is lost? | 2 queries that can fire probes, decide and be at a replica in any order, and a request of another balancer, so that a probe finds own, foreign and no load; capacity 2, TTL 2, timeout 1, 4 instants; no symmetry (liveness) |

Properties worth a word beyond their comments:

- `RetentionBounded`: every other selection removes the oldest probe, so no probe
  survives more than `2 * (Limit - 1)` selections, and `DriftBounded` follows.
- `ReportsInFlight` is more than a count that is right in every state: a step that moved
  two handlers and the RIF by one and then made up for it would break it.
- `NoQueryUnseen` depends on the order of the two reads. Read the other way round, a query
  that completes in between is in neither the ring that was read nor the RIF.
- `PooledRifCountsOnce` says what the number HCL compares *is*: the size of the set of
  queries that were at the replica when the probe was read, united with those decided
  since it landed. The two never overlap, because a query has been posted before it is at a
  replica and is decided before it is posted. A query decided in between is in neither; that
  is the divergence `balancer_uncounted` shows.
- `DecisionsRestOnRecentReads`: `received_at` is the landing, so the TTL alone does not bound
  the age of the reading; TTL plus probe timeout does.
- `NeverTheBusier` is what is left of "the one with fewer requests in flight" when the two
  probes read at different instants.
- `AnsweringWeightsAreFresh`: a round takes up to `n` probe timeouts, which at 100 ms exceed
  the interval of a second for fleets of more than ten; the bound accounts for both.
- `DecisionsCostProbes`: each selection removes a probe, so responses pay for HCL
  decisions one to one whatever the reuse budget; when probes come in slower, choice
  falls back to random.
- `CompensationIsExact` counts a pooled RIF against the *queries*, not against the
  pool's own bookkeeping.
- `AntagonistPassesOnce` rests on the semaphore's order: a burner that asks again at
  once goes to the back.
- `ContentionLeads` is about a ring larger than `Near`, as 512 is than 16: as the RIF rises,
  other samples are nearest, the medians are those of other sets, and the choice among
  samples equally near is open. The estimate still does not fall, if no candidate that
  arrived at a higher RIF has a smaller duration per query in flight (`ContentionShows`).
  Without that it may: section 5.
- `ImplementsProbePool` is what makes `ProbePool` a fair account of the code: `swap_remove`
  permutes the Vec, so any code that relied on a probe's place would go wrong, but only after
  a removal has put a younger probe before an older one.

**Fairness.** `SystemSpec` has weak fairness on each query's own steps (a task that can run
is run, and nothing in `select` waits for another task, since the lock is never held across
an await) and on each request's moves: the client's timeout ends a request that is stuck on
its way, and a replica lets every request go, which `EveryRequestLeaves` shows of `Replica`.
Probes, arrivals, other balancers and the clock have none: load drains even if no probe is
ever answered. `ReplicaSpec` has weak fairness on each task's steps and on the end of work on
a thread (`spin_hash` and the antagonist's burst are finite loops), none on arrivals,
cancellations, the clock or the antagonist's appetite. `PoliciesSpec` has it on the tasks of
po2, whose probes end at the latest by their timeout. `BalancerSpec` states the fairness of
the query tasks alone. The other specifications have no liveness.

**Deadlock** is checked in the `pool`, `ring` and `replica` runs. In the pool a selection
is always possible and in the ring a push; in `replica` the antagonist can always act
when the requests are over. The `balancer`, `antagonist`, `client`, `policies` and `system`
runs switch the check off, because there the queries or picks are finitely many, or the
clock ends, so the instance stops when it is done.

**Bounds** of the instances: `Instant`, `Moment` and `Clock` end the clock, `MaxPicks` the
picks of round-robin; `RifReading`, `LatencyReading`, `Load`, `CpuReading`, `Tag` and
`Duration` are small sets of readings; `Query`, `Po2Query`, `Foreign` and `Request` are the
finitely many queries. `Near` stands for 16, `RingCapacity` for 512, `Capacity` for 16, `Ttl`
for 1 s, `Period` and `ProbeTimeout` for 1 s and 100 ms (in `MCPolicies` with fewer replicas
and a ratio of 2, so that a round can outlast its period), `CounterSize` for 2^64 and
`MaxBudget` for `u32::MAX`.

## 5. Where code and documentation disagree

Four runs are expected to end in a counterexample, each to a sentence of the
documentation:

- `pool_hot_replica`: README.md:16 classifies *replicas* as hot or cold;
  `hcl_select` (`client/pool.rs:132`) classifies *probes*. An old probe at or below the
  threshold wins although the latest response of its replica is hot.
- `balancer_uncounted`: `client/pool.rs:14` says a probe's RIF grows by one per query
  dispatched to that replica since. A probe stored after the lock is released and before
  the query is sent does not count that query, and a query placed by the fallback is
  never counted.
- `ring_uniform`: `config.rs:14` calls `latency_us` what a query arriving at the current
  RIF would see. Samples are tagged with the RIF *including* the query, the probe's RIF
  is without it, and `median_near` (`servers/replica.rs:196`) adds one to both: an idle
  replica whose queries always took D while alone advertises D / 2.
- `antagonist_short_period`: `servers/antagonist.rs:13` promises the first half of each
  period; `period_s / 2` is an integer division, and a period of one second never burns.

Smaller divergences seen while modelling, with no run of their own: a pool of
capacity 0 still holds one probe (`insert` evicts, then pushes; the properties use
`Limit`); `q_rif = 0` is not strictly selection by RIF, since all probes at the minimum
RIF are cold and latency decides among them; `client/policy.rs:32` has the wrr weights
refreshed once per second, but a round that meets many timeouts takes longer; `config.rs:77` says a probe of a replica
already in the pool replaces it, but `insert` keeps both;
`servers/replica.rs:166` says that "when RIF spikes, the advertised latency must rise
immediately", but the estimate is scaled from the samples nearest the RIF alone, so it falls
when the RIF comes near samples of a busier moment that took no longer: with two nearest of
three samples that took 4 at tags 1, 1 and 4, a replica advertises 4 at RIF 1 and 3 at RIF 3
(`ContentionLeads` says what is left of the claim).

## 6. The proofs

Theorems hold for every value of the constants that satisfies the named assumptions
of the modules: any capacity (0 included), TTL, positive budget, quantile up to 1,
clock, set of readings, set of replicas, finite sets of queries and foreign requests, probe
timeout; any ring capacity, `Near`, freshness bound, number of slots, finite set of requests,
burn rate, wave, threshold and cap; any finite set of client queries and replicas, deadline and
timeouts, with timers late by less than the grace leaves (`GraceAssumption`); any fleet of two
replicas or more, counter width, non-empty set of configurations (`PrequalConfig::default` is
one), refresh period and probe timeout.

| Module | Theorem | States |
|---|---|---|
| `Lemmas` | `LargestEntry`, `SortedEntry` | a sorted list's entry at an index exists, belongs to the list, and is the least with enough entries at or below it |
| | `SortedDepends`, `SortedScales` | it depends on the listed values alone, and sorting commutes with a scaling |
| | `NearestExist` | some `k` members of a finite set are nearest |
| | `LeastNat`, `SubsetInduction` | a set of naturals has a least member; a set of subsets that holds whatever its smaller members lead to holds all |
| `ProbePoolProofs` | `TypeCorrect` | `Spec => []TypeOK` |
| | `PoolStaysBounded` | `Spec => []PoolBounded` |
| | `BudgetHolds` | `UsesWithinBudget` |
| | `SomeProbeIsCold`, `OverloadShows` | `NeverAllHot`, `OverloadedReplicaIsHot` |
| | `ReuseIsCovered` | `CompensationCoversReuse` |
| | `AuditIsThePool`, `AuditTypeCorrect` | the history changes nothing, and is well-typed |
| | `RetentionIsBounded`, `DriftIsBounded` | `RetentionBounded`, `DriftBounded` |
| | `VecTypeCorrect` | `VecSpec => []VecTypeOK` |
| | `VecImplementsPool` | `VecSpec => ImplementsProbePool`: the Vec implements the pool |
| `BalancerProofs` | `AuditIsTheBalancer` | the history changes nothing |
| | `BalancerTypeCorrect` | `BalancerTypeOK` |
| | `CompensationStaysExact`, `WinsStayWithinBudget` | `CompensationIsExact`, `WinsWithinBudget` |
| | `DecisionsDoCostProbes` | `DecisionsCostProbes` |
| | `SystemUsesTheBalancer` | `SystemSpec` implements the balancer, fairness aside |
| | `SystemTypeCorrect` | `SystemSpec => []SystemTypeOK` |
| | `PooledRifIsALoad`, `ReadsAreRecent` | `PooledRifCountsOnce`, `DecisionsRestOnRecentReads` |
| `LatencyRingProofs` | `RingTypeCorrect` | `RingSpec => []RingTypeOK` |
| | `RingKeepsLastCompletions` | `RingSpec => KeepsLastCompletions`: the ring implements `RecentCompletions` |
| | `ScalingIsExact`, `StaleSamplesStayOut`, `BusierIsNoFaster` | `ProcessorSharingIsExact`, `StaleSamplesDoNotLeak`, `ContentionLeads` |
| `ReplicaProofs` | `ReplicaTypeCorrect` | `ReplicaSpec => []ReplicaTypeOK` |
| | `RifStaysExact`, `SlotsStayConserved`, `NoPermitIdles` | `RifIsExact`, `SlotsAreConserved`, `WorkConserving` |
| | `ReportsAsPromised` | `ReplicaSpec => ReportsInFlight`: the replica implements `InFlight` |
| | `ReplicaUsesTheRing` | `ReplicaSpec => RingSpec`: the replica implements the ring |
| | `AuditIsTheReplica`, `ProbingIsHarmless` | `ReplicaProbeSpec => AuditReplicaSpec` and `AuditReplicaSpec => ReplicaSpec`, fairness included |
| | `AntagonistTakesTurns` | `AuditReplicaSpec => []AntagonistPassesOnce` |
| | `ProbesMissNobody`, `ProbesAreAnswered` | `ReplicaProbeSpec => []NoQueryUnseen`; a probe's second read always finds an estimate |
| `AntagonistProofs` | `AntagonistTypeCorrect` | `AuditAntagonistSpec => []AntagonistTypeOK` |
| | `BacklogStaysCapped`, `BurnStaysWithinRate` | `BacklogIsCapped`, `BurnWithinRate` |
| `ClientProofs` | `ClientTypeCorrect` | `ClientSpec => []ClientTypeOK` |
| | `CountsStayInAgreement`, `ReportCountsEveryQuery` | `CountsAgree`, `ReportIsComplete` |
| `PoliciesProofs` | `AuditIsThePolicies`, `PoliciesTypeCorrect` | the history changes nothing; `PoliciesSpec => []PoliciesTypeOK` |
| | `BudgetAlwaysFits`, `RoundRobinStaysEven` | `BudgetFitsPool`, `SharesStayEven` |
| | `Po2NeverTakesTheBusier`, `WeightsStayFresh` | `NeverTheBusier`, `AnsweringWeightsAreFresh` |

The arguments:

- *Effects first.* `SelectEffect` and `StoreEffect` say what the two actions do to the
  pool, probe by probe: a selection keeps only usable probes and changes those it keeps
  as `Outcome` says; a store adds one unused probe and changes no other. All invariants
  rest on these, and on `RemovalTakesOne` for the alternation.
- *Most invariants are inductive given the type invariant.* `UsesWithinBudget` needs the
  order of the critical section: `expire` leaves only probes below the budget in front of
  the selection that adds one use. `CompensationCoversReuse` needs that a win raises
  every copy that is left, and that a later copy starts without wins.
- *Hot and cold* need no history. The index of the quantile stays within the list
  (`QuantileInRange`), so the threshold is the RIF of a latest probe, which is cold. Below
  quantile 1 the index stops short of the last entry, so the threshold is at most the
  largest RIF of the *other* replicas.
- *Retention* is not inductive. `RetentionInv` strengthens it: for a probe with `o` older
  ones that has survived `s` selections, `s + 2 * o`, plus one while the next removal
  takes the worst probe and `o < Limit - 1`, is at most `2 * (Limit - 1)`. Each older
  probe is good for two selections. The exception covers the full pool: the newest of
  `Limit` probes loses an older one whichever other probe is removed. TLC confirmed
  `RetentionInv` at capacities 1 and 3 before it was proved.
- *The Vec.* `PoolOf` takes a Vec to the function from instants to probes; that no two
  probes share an instant (`VecAt`) makes it one to one. `SelectedSlots` says what any
  rearrangement of some of the slots stands for: the pool restricted to their instants.
  `swap_remove` (`SwapRemoveVec`) and `retain` (`RetainVec`, through `NthSlots`, which
  enumerates a finite set of slots) are two of them, `push` adds the newest (`AppendVec`).
  `FirstMinIs` and `LastMaxIs` show that the scans find a least and a greatest slot, so that
  the winner and the victim are among those `ProbePool` allows (`HclVec`, `WorstVec`), and
  `ThresholdVec` that the quantile is the same, because a sorted list does not change when
  its members are renamed (`SortedImage`).
- *The balancer.* A step of a task is a step of the pool or leaves it alone by construction
  (`TaskStepIsPoolStep`), so the lemmas about the pool hold under concurrent queries.
  `CompensationIsExact` counts
  the set of queries that a probe has to have counted (`Counted`); a decision adds exactly
  its query to the sets of the copies of its replica, a store starts with the empty set,
  because no decision lies in the future (`HistoryOK`). `WinsWithinBudget` goes through
  `UsesAreWins`: a pooled probe's uses are the queries it won. `DecisionsCostProbes` goes
  through `ProbesPay`: decisions plus the occupancy of the pool are at most the responses
  stored. A store adds one to at most both sides; a decision (`SelectCosts`) takes at least
  one probe away and leaves at least one, since it had two to choose from.
- *The ring.* `InOrder` is the sequence of slots rotated by the head (`Rotated`).
  `OverwriteRotates` shows, place by place, that writing at the head of a full ring and
  moving the head drops the first element of the rotated sequence and appends the new
  one, at the wrap too; below capacity the head is 0 and a push appends.
- *The estimate* needs no history: its three theorems follow from the ring's type. That
  `Estimates` is never empty (`NearestExist`, by the least `k` for which there would be no `k`
  nearest) is why `ProcessorSharingIsExact` can promise a set of exactly one value. There the
  medians are taken apart and still agree, because sorting commutes with `t -> c * (t + 1)`
  (`SortedScales`): the median duration is the cost times the median tag plus one, and the
  division comes out even. `StaleSamplesStayOut` shows that the candidates of the reduced ring
  are those of the whole one and that a median depends on no other sample (`SortedDepends`).
  `BusierIsNoFaster` compares the nearest sets of two RIFs. What the higher RIF takes instead
  of a sample has no lower tag (`NearestMoveUp`), so the median tag does not fall
  (`MediansFollow`: otherwise, counting the samples at or below it, one of each set would be
  out of order). Durations grow with tags, so one sample has both medians of its set
  (`MediansMeet`), and the ratios of two samples are in order (`ScalingFollows`).
- *The replica.* `ReplicaInv` has two halves. `SlotsInv` says that the queue lists exactly
  the waiting tasks, each once (`Lists`), that nobody waits while a permit is available,
  that work on a thread belongs to a task that runs, leaves or is gone, and that permits
  add up. `ReleaseKeepsCount` carries it: a permit given back goes to a waiter or becomes
  available, never both or neither. Conservation alone would not be inductive, because a
  stale entry in the queue would be granted a permit it never asked for. `CountInv` ties
  the RIF to the handlers present; the slots' half is what shows that ending work and
  waking waiters never makes a handler come or go. `RequestAssumption` (a tag is a RIF that
  the requests can reach) gives the ring its type. `SignalCounts` turns the counts of a step
  into a step of `InFlight`: one handler comes, one goes, or none does. The same half
  makes the replica a user of the ring (`ReplicaUsesTheRing`): the handler that records a sample
  is present, so its tag is a `Tag`, and the theorems about the ring and its estimate hold here.
  `AuditIsTheReplica` and `ProbingIsHarmless` carry what is proved of `ReplicaSpec` over to the
  `ReplicaProbeSpec` that the run checks, whose probe and history only read.
- *The antagonist's turns.* `PassInv` says that a query the antagonist is still ahead of in
  the queue, or that is yet to join it, has not been passed. `NobodyOvertakes` shows that
  appending at the end and dropping any place keep the others' order, so that nobody gets
  ahead of a waiting query; `TurnIsTaken` that the antagonist, when served, was ahead of all
  and is then ahead of none. It rests on `SlotsInv`: were a permit available while somebody
  waits, or the antagonist listed twice, it could pass without standing first.
- *The probe.* `ProbeInv` bounds what had arrived at the first read by the RIF loaded plus
  what is over by now: at the load the counter is exact (`ArrivedCounts`), and what is over
  stays over (`OverGrows`). Read in the other order, nothing would bound it.
  `ProbesAreAnswered` shows that the guard of the second read is always met.
- *The composed system.* `SystemOK` adds to the pool's and the tasks' types what the network
  adds: a query is on it only once posted (`CallsOK`), an answer was read after its probe was
  fired and shows only posted queries (`ProbesOK`), and of each pooled probe the reading is at
  most a timeout older than the landing, its load was posted by then, and the queries counted
  since were not (`SawOK`). That last part is why the two sets of `PooledRifCountsOnce` are
  disjoint, and it is inductive only together with the others: `LoadStays` because posting is
  never undone, `SeenStays` because a decision changes only a query that is not posted yet.
- *The antagonist.* `LoopInv` holds over one turn of the loop (`LookEffect`): crediting,
  capping and rounding down to a burst leave a backlog that covers the burst asked for.
  `Ledger` adds the totals: what was burned, plus the deficit, less what a burst under way
  has not settled yet, is at most the rate times the time last looked at.
- *The client's counts.* `served` is summed with the community modules' fold, a recursive
  function chosen by its equation. `SumExists` shows that the equation has a solution, for
  sets of growing size; after that the sum is a function like any other, and what one more
  sample adds (`SumOfOneMore`) is induction over its subsets, stated with a set
  (`SubsetInduction`) and not an operator. `Counts`, equivalent to `CountsAgree`, is then
  inductive by itself: a record moves one task to `recorded` and adds one to one count.
- *The report.* `DrainInv` adds to it that the timer of a query which is not over is late by at
  most `Lateness` and never set further ahead than its length (`TimersRun`), and that the drain
  covers what was under way when it began (`DrainCovers`): such a query is posted within
  `SelectLimit`, or `Lateness` later, and over within `Timeout` of that, or `Lateness` later. The
  drain lasts `Timeout + Grace`, hence `SelectLimit + 2 * Lateness < Grace`.
- *The reuse budget* needs no history either. `CeilBounds` says what a quotient rounded up is,
  `CeilGrows` that it shrinks as the divisor grows; `BudgetFits` puts them together, the growth
  of at most zero and the saturated cast included.
- *Round-robin.* `Shares` says how often each replica was picked: in each wrap of the counter
  as often as its residue occurs below `CounterSize`, and since then as often as it occurs below
  the counter (`Share`). `NextShare` is the step; two replicas' shares differ by at most one.
- *Po2.* `Knows` brackets what was heard of a replica by the extremes of its load since the first
  probe. The one chosen answered, if one did, and with no more than the other: at some moment it
  was no busier than the other was at some moment.
- *The weights.* `RoundFrom(s)` describes a round that began at `s`: the probe at the cursor is
  over by `s` plus a timeout for each so far, readings below the cursor are from this round, and
  those after it from one that began at most `Gap` earlier. `Rounds` asks for *some* such `s`,
  so that the proof needs no variable that the model does not have. A round starts when both
  the last one and the interval are over, which is where the larger of `Period` and
  `n * ProbeTimeout` comes from.

Proved, and implied by what the runs check rather than listed there: `UsesWithinBudget`
(`WinsWithinBudget`), `BalancerTypeOK` (part of `SystemTypeOK`), `RifIsExact`
(`ReportsInFlight`).

Model-checked only: liveness (`EveryRequestLeaves`, `LoadDrains` and that of po2), which is
out of the prover's reach. Every safety property of a passing run is stated by a theorem, or
implied by one.

## 7. What is not modelled, and the plan

Built first, because the pool is the heart of the system: `ProbePool` and `Balancer`
with their proofs; then `LatencyRing`, `Replica`, `Antagonist` and `Client`; then the other
policies with `ReuseBudget`, the probe's handler, `InFlight`, and the composition
`PrequalSystem` with its proofs; then the proofs about the client, the policies and the
estimate; then `ProbePoolVec`, with the proof that it implements the pool.

Composed only in part: the whole system. Several balancers with pools of their own, beside
full replicas with slots and rings, are beyond TLC; `PrequalSystem` takes the other balancers
as load and the replica as what `InFlight` promises, and the latency it answers as any reading.

Not planned: the CPU tracker (a floating-point average behind a lock, read by wrr only, where
any value is possible), the progress line and the pool dump (they only read), argument
parsing, logging and the experiment scripts.
