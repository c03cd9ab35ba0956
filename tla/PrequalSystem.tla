---------------------------- MODULE PrequalSystem ----------------------------
(***************************************************************************)
(* A Prequal balancer among replicas that others use as well, composed     *)
(* over a network that delays and loses: the query and probe tasks of      *)
(* Balancer, the requests they post (src/src/client/mod.rs), the load      *)
(* these put on the replicas and the probes that report it.                *)
(*                                                                         *)
(* A replica appears as what InFlight promises of it, and Replica keeps:   *)
(* probes are told the number of requests it is handling.  What the client *)
(* does meanwhile is Client's: here a request that is given up, at any     *)
(* time, is one that is dropped or goes on until it ends.  The other       *)
(* balancers appear as the requests they have at the replicas.             *)
(***************************************************************************)
EXTENDS Balancer

CONSTANTS
  Foreign,       \* requests other balancers may have in flight
  ProbeTimeout   \* Balancer::probe_timeout

ASSUME ForeignAssumption == IsFiniteSet(Foreign) /\ Foreign \cap Query = {}
ASSUME LoadAssumption == 0 .. Cardinality(Query \cup Foreign) \subseteq RifReading
ASSUME ProbeTimeoutAssumption == ProbeTimeout \in Nat

VARIABLES
  call,      \* where each query's POST /work is
  visited,   \* the replica each foreign request is at, or Nowhere
  fired,     \* when the probes under way were fired
  answers,   \* those the replica has answered: when, and what it had in flight
  saw        \* history: the answer each pooled probe was made from, and the
             \* queries HCL has sent to its replica since

systemVars == <<balancerVars, call, visited, fired, answers, saw>>

Empty == [x \in {} |-> 0]
Call == {"unsent", "transit", "present", "over"}

\* The requests in flight at replica r.
PresentAt(r) ==
  {q \in Query : call[q] = "present" /\ target[q] = r} \cup {f \in Foreign : visited[f] = r}

-----------------------------------------------------------------------------
SystemInit ==
  /\ BalancerInit
  /\ call = [q \in Query |-> "unsent"]
  /\ visited = [f \in Foreign |-> Nowhere]
  /\ fired = Empty
  /\ answers = Empty
  /\ saw = Empty

\* A query arrives and fires its probes.
FireProbes(q) ==
  /\ Trigger(q)
  /\ fired' = [p \in fetching' |-> IF p[1] = q THEN now ELSE fired[p]]
  /\ UNCHANGED <<call, visited, answers, saw>>

\* A probe reaches replica r, which reads its RIF.
AnswerProbe(q, r) ==
  /\ <<q, r>> \in fetching \ DOMAIN answers
  /\ answers' = [p \in DOMAIN answers \cup {<<q, r>>} |->
                   IF p = <<q, r>> THEN [at |-> now, load |-> PresentAt(r)] ELSE answers[p]]
  /\ UNCHANGED <<balancerVars, call, visited, fired, saw>>

\* The task of a probe is over, one way or the other.
Forget(q, r) ==
  /\ fired' = Restrict(fired, fetching')
  /\ answers' = Restrict(answers, DOMAIN answers \ {<<q, r>>})

\* History: the probe stored at this instant was made from this answer.
Remember(answer) ==
  saw' = [t \in DOMAIN pool' |->
            IF t = now' THEN [at |-> answer.at, load |-> answer.load, since |-> {}]
                        ELSE saw[t]]

\* Slip of StoreAnswer: an answer is accepted however late it comes.
StoreAnswerLate(q, r) ==
  /\ <<q, r>> \in DOMAIN answers
  /\ \E l \in LatencyReading : Land(q, r, Cardinality(answers[<<q, r>>].load), l)
  /\ Forget(q, r)
  /\ Remember(answers[<<q, r>>])
  /\ UNCHANGED <<call, visited>>

\* The answer comes back within the timeout and is stored.
StoreAnswer(q, r) ==
  /\ <<q, r>> \in DOMAIN answers
  /\ \E l \in LatencyReading : Land(q, r, Cardinality(answers[<<q, r>>].load), l)
  /\ now' - fired[<<q, r>>] <= ProbeTimeout
  /\ Forget(q, r)
  /\ Remember(answers[<<q, r>>])
  /\ UNCHANGED <<call, visited>>

\* A probe is lost on its way there or back, or times out.
LoseProbe(q, r) == Lose(q, r) /\ Forget(q, r) /\ UNCHANGED <<call, visited, saw>>

SelectReplica(q) ==
  /\ \/ \E w \in DOMAIN pool :
          /\ Decide(q, w)
          /\ saw' = [t \in DOMAIN pool' |->
                       IF pool[t].replica = target'[q]
                       THEN [at |-> saw[t].at, load |-> saw[t].load,
                             since |-> saw[t].since \cup {q}]
                       ELSE saw[t]]
     \/ /\ Decide(q, NoProbe) \/ \E r \in Replica : Draw(q, r)
        /\ saw' = Restrict(saw, DOMAIN pool')
  /\ UNCHANGED <<call, visited, fired, answers>>

Post(q) ==
  /\ Send(q)
  /\ call' = [call EXCEPT ![q] = "transit"]
  /\ UNCHANGED <<visited, fired, answers, saw>>

\* The request of q moves on: it arrives, its handler ends, or it is lost on
\* its way, be it that the connection breaks or that the client gives up.
CallMoves(q) ==
  /\ \/ call[q] = "transit" /\ call' = [call EXCEPT ![q] = "present"]
     \/ call[q] \in {"transit", "present"} /\ call' = [call EXCEPT ![q] = "over"]
  /\ UNCHANGED <<balancerVars, visited, fired, answers, saw>>

\* A request of another balancer comes or goes.
ForeignMoves(f) ==
  /\ \E r \in Replica :
       \/ visited[f] = Nowhere /\ visited' = [visited EXCEPT ![f] = r]
       \/ visited[f] = r /\ visited' = [visited EXCEPT ![f] = Nowhere]
  /\ UNCHANGED <<balancerVars, call, fired, answers, saw>>

SystemIdle == Idle /\ UNCHANGED <<call, visited, fired, answers, saw>>

TaskRuns(q) == SelectReplica(q) \/ Post(q)

SystemNext ==
  \/ \E q \in Query :
       \/ FireProbes(q) \/ TaskRuns(q) \/ CallMoves(q)
       \/ \E r \in Replica : AnswerProbe(q, r) \/ StoreAnswer(q, r) \/ LoseProbe(q, r)
  \/ \E f \in Foreign : ForeignMoves(f)
  \/ SystemIdle

\* Tasks that can run do run; a request is delivered or its connection breaks
\* (the client's timeout sees to that), and it does not stay at its replica
\* for ever (Replica's EveryRequestLeaves).  Nothing is assumed of probes.
SystemSpec ==
  SystemInit /\ [][SystemNext]_systemVars
             /\ \A q \in Query : WF_systemVars(TaskRuns(q)) /\ WF_systemVars(CallMoves(q))

-----------------------------------------------------------------------------
\* The types of the composed state; only a query whose task has posted it is
\* on the network, and only probes under way have answers.
SystemTypeOK ==
  /\ BalancerTypeOK
  /\ call \in [Query -> Call]
  /\ \A q \in Query : call[q] = "unsent" <=> phase[q] # "sent"
  /\ visited \in [Foreign -> Replica \cup {Nowhere}]
  /\ fired \in [fetching -> 0 .. now]
  /\ DOMAIN answers \subseteq fetching
  /\ DOMAIN saw = DOMAIN pool

\* The RIF that HCL compares is the size of a set of queries: those that were
\* at the replica when the probe was read, and those this balancer has since
\* decided to send there.  However reads, landings, decisions, arrivals and
\* lost requests interleave, no query is in it twice.
PooledRifCountsOnce ==
  \A t \in DOMAIN pool : pool[t].rif = Cardinality(saw[t].load \cup saw[t].since)

\* A decision rests on what a replica said less than the TTL and the probe
\* timeout ago: the pool counts a probe's age from its landing, and the
\* timeout bounds the rest.
DecisionsRestOnRecentReads ==
  [][\A q \in Query, w \in DOMAIN pool :
       Decide(q, w) => now - saw[w].at < Ttl + ProbeTimeout]_systemVars

\* Queries do not pile up: each one that arrives (they are finitely many) gets
\* to a replica or is lost, and in the end it burdens none, even if every
\* probe and every request is lost.
LoadDrains == <>[](\A q \in Query : phase[q] = "new" \/ call[q] = "over")
=============================================================================
