---------------------------- MODULE HealthRegistry ----------------------------
(***************************************************************************)
(* What /health says of a background worker, from the time since it was    *)
(* last active.  A worker that was never active counts as initialising.    *)
(***************************************************************************)
EXTENDS Integers

CONSTANT Never      \* the zero time: the worker was never active

\* Register: a grace period that is not given equals the interval.
gracePeriod(interval, grace) == IF grace = 0 THEN interval ELSE grace

\* Registry.Check, for one worker.
workerStatus(sinceActive, interval, grace) ==
  IF sinceActive = Never \/ sinceActive =< interval
  THEN "healthy"
  ELSE IF sinceActive =< interval + gracePeriod(interval, grace)
  THEN "degraded"
  ELSE "unhealthy"
===============================================================================
