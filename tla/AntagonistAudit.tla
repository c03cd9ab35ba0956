-------------------------- MODULE AntagonistAudit --------------------------
(***************************************************************************)
(* Antagonist with the totals a reader of its documentation would look at. *)
(* No action of Antagonist reads them.                                     *)
(***************************************************************************)
EXTENDS Antagonist

VARIABLES
  burned,     \* ticks of bursts begun so far
  lit         \* ticks so far at which the wave was active

auditAntagonistVars == <<antagonistVars, burned, lit>>

AuditAntagonistInit == AntagonistInit /\ burned = 0 /\ lit = 0

AuditAntagonistNext ==
  /\ AntagonistNext
  /\ burned' = IF mode = "queued" /\ mode' = "burning" THEN burned + burst ELSE burned
  /\ lit' = IF time' # time /\ Active(time) THEN lit + 1 ELSE lit

AuditAntagonistSpec == AuditAntagonistInit /\ [][AuditAntagonistNext]_auditAntagonistVars

-----------------------------------------------------------------------------
\* The deficit counter keeps the average burn at or below the configured
\* rate, bursts that waited behind queries and the catch-up after them
\* included: what was burned never exceeds what the rate allows by now.
BurnWithinRate == burned * RateDen <= RateNum * time

\* What the documentation of run() says of the wave: "cpu_pct for the first
\* half of each period".  After a whole period some time has been active.
EveryPeriodBurns == Period > 0 /\ time >= Period * Second => lit > 0
=============================================================================
