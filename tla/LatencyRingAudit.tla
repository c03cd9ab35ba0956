-------------------------- MODULE LatencyRingAudit --------------------------
(***************************************************************************)
(* Properties of the estimate a replica advertises from its latency ring.  *)
(***************************************************************************)
EXTENDS LatencyRing

CONSTANTS
  ProbeRif,   \* RIF values at which the ring is probed
  Cost        \* per-query costs considered by ProcessorSharingIsExact

ASSUME ProbeAssumption == ProbeRif \subseteq Nat /\ Cost \subseteq Nat

Estimate(rif) == Estimates(entries, clock, rif)

\* The scaling in median_near is exact under the relation it names: when
\* every sample took a fixed cost times (tag + 1), a probe at any RIF gets
\* that cost times (rif + 1), although the medians of durations and of tags
\* are taken apart and the nearest samples are at other occupancies.
ProcessorSharingIsExact ==
  \A c \in Cost :
    (entries # <<>> /\ \A i \in DOMAIN entries :
        entries[i].duration_us = c * (entries[i].rif_at_arrival + 1))
    => \A rif \in ProbeRif : Estimate(rif) = {c * (rif + 1)}

\* Samples from before an antagonist swing do not leak into the estimate: as
\* long as one sample is fresh, forgetting the others changes nothing, and a
\* drained replica goes on advertising what its old samples say.
StaleSamplesDoNotLeak ==
  LET fresh == Fresh(entries, clock)
  IN  \A rif \in ProbeRif :
        IF fresh # {}
        THEN Estimate(rif) = Estimates([i \in fresh |-> entries[i]], clock, rif)
        ELSE Estimate(rif) = Estimates([i \in DOMAIN entries |->
                               [entries[i] EXCEPT !.finished_at = clock]], clock, rif)

\* Of the samples an estimate may use, none that arrived at a higher RIF has
\* a smaller duration per query in flight, duration / (tag + 1).
ContentionShows ==
  LET cs == Candidates(entries, clock)
  IN  \A i, j \in cs :
        entries[i].rif_at_arrival <= entries[j].rif_at_arrival =>
          entries[i].duration_us * (entries[j].rif_at_arrival + 1)
            <= entries[j].duration_us * (entries[i].rif_at_arrival + 1)

\* The estimate leads: at one instant a higher RIF is never advertised with a
\* lower latency, whichever of the samples equally near the sort leaves in
\* front, although another RIF has other samples nearest it, of which the
\* medians of durations and of tags are taken apart.  This needs a history
\* that contention explains.
ContentionLeads ==
  ContentionShows =>
    \A rif, more \in ProbeRif : rif < more =>
      \A e \in Estimate(rif), f \in Estimate(more) : e <= f

\* What ProbeResponse::latency_us says of itself: "Estimated latency a query
\* arriving at the current RIF would see".  If every query on record arrived
\* at the current RIF (work() tags it with rif + 1, itself included) and took
\* the same time, that is the estimate.
UniformHistoryIsReported ==
  \A rif \in ProbeRif, d \in Duration :
    (entries # <<>> /\ \A i \in DOMAIN entries :
        entries[i].rif_at_arrival = rif + 1 /\ entries[i].duration_us = d)
    => Estimate(rif) = {d}
=============================================================================
