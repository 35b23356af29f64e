------------------------------- MODULE DNSCache -------------------------------
(***************************************************************************)
(* The results of past checks that the monitor keeps for each hostname.    *)
(* While a failure is kept, every URL of the host is skipped.              *)
(***************************************************************************)
EXTENDS PowersOf2

CONSTANTS
  Hosts,        \* hostnames
  SuccessTTL, NXDomainTTL, TimeoutTTL, ErrorTTL,
  MaxBackoff,   \* maxBackoffMs
  Width,        \* the width of Go's int
  None          \* no result is kept

ASSUME DNSCacheAssumption ==
  /\ {SuccessTTL, NXDomainTTL, TimeoutTTL, ErrorTTL, MaxBackoff} \subseteq Nat
  /\ Width \in Nat \ {0}

ResultTypes == {"success", "nxdomain", "timeout", "error"}

\* A result with the time to its expiry: -1 once that time is past.
IsResult(result) ==
  /\ DOMAIN result = {"type", "left", "count"}
  /\ result.type \in ResultTypes
  /\ result.left \in Int /\ result.left >= -1
  /\ result.count \in Nat

\* Mutant: a name that does not exist is never asked for again.
OtherResultExpired(result) == result.type # "nxdomain" /\ result.left < 0

\* Time.After: a result is still valid at the very moment of its expiry.
Expired(result) == result.left < 0

Older(result) ==
  IF result = None \/ result.left < 0 THEN result ELSE [result EXCEPT !.left = @ - 1]

Fresh(type, ttl, count) ==
  [type |-> type, left |-> IF ttl < 0 THEN -1 ELSE ttl, count |-> count]

\* Go's int arithmetic, which wraps around.
Signed(n) ==
  ((n + PowerOf2[Width - 1]) % PowerOf2[Width]) - PowerOf2[Width - 1]

\* Mutant: nothing caps the back-off.
UncappedBackoff(count) == Signed(TimeoutTTL * PowerOf2[count])

\* The time a host is left alone after a timeout, when it had count before.
timeoutBackoff(count) ==
  LET backoff == Signed(TimeoutTTL * PowerOf2[count])
  IN  IF backoff > MaxBackoff THEN MaxBackoff ELSE backoff

\* SetTimeout goes on counting from the result it finds, expired or not.
SetTimeout(existing) ==
  LET count == IF existing # None /\ existing.type = "timeout"
               THEN existing.count + 1 ELSE 0
  IN  Fresh("timeout", timeoutBackoff(count), count)

\* What is kept after a check: an outcome that is not about the network or the
\* name leaves the result as it was.
Keep(existing, outcome) ==
  CASE outcome = "ok"           -> Fresh("success", SuccessTTL, 0)
    [] outcome = "no such host" -> Fresh("nxdomain", NXDomainTTL, 0)
    [] outcome = "timeout"      -> SetTimeout(existing)
    [] outcome = "refused"      -> Fresh("error", ErrorTTL, 0)
    [] outcome = "other"        -> existing

ShouldSkip(result) ==
  /\ result # None
  /\ ~Expired(result)
  /\ result.type # "success"

\* A failure that the next look at the clock may find expired.
Ending(result) == ShouldSkip(result) /\ result.left = 0

Cleanup(result) == IF result # None /\ Expired(result) THEN None ELSE result
===============================================================================
