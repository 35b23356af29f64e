----------------------------- MODULE HealthSweep -----------------------------
(***************************************************************************)
(* Monitor.checkAllRelays: on each tick the monitor checks the relays it   *)
(* knows, apart from those its filter refuses and those whose host failed  *)
(* not long ago.  It starts a goroutine for each, a stagger delay apart,   *)
(* and a semaphore lets a few of them run at a time.  Between sweeps the   *)
(* monitor takes discovered relays, each with a check of its own that asks *)
(* neither filter, nor DNS cache, nor semaphore.                           *)
(*                                                                         *)
(* Time is discrete.  What the code does without waiting takes no time; a  *)
(* check takes up to MaxCheck, the calls to Redis that end it included.    *)
(***************************************************************************)
EXTENDS DNSCache, HealthRegistry, FiniteSets

CONSTANTS
  Relays,      \* normalized URLs, within the cap of path variants
  Host,        \* extractHostname, for each relay
  Onion,       \* the hosts under .onion
  Barred,      \* the hosts that the filter refuses: local, private, reserved
  TorClient,   \* a Tor proxy is configured, and the monitor has a client for it
  Outcomes,    \* how the checks of a relay may end
  Slots,       \* maxConcurrentHealthChecks
  Stagger,     \* the delay between two starts, 0 when not staggered
  MaxCheck,    \* the longest a check takes
  Interval,    \* cfg.RelayCheckInterval
  EntryTTL,    \* cache.RelayEntryTTL
  MaxPassed    \* bound: how often the properties let a relay be passed over

CheckOutcomes == {"ok", "no such host", "timeout", "refused", "other"}

ASSUME SweepAssumption ==
  /\ Host \in [Relays -> Hosts]
  /\ Onion \subseteq Hosts /\ Barred \subseteq Hosts \ Onion
  /\ TorClient \in BOOLEAN
  /\ Outcomes \in [Relays -> SUBSET CheckOutcomes]
  /\ \A r \in Relays : Outcomes[r] # {}
  /\ {Slots, Interval, EntryTTL} \subseteq Nat \ {0}
  /\ {Stagger, MaxCheck, MaxPassed} \subseteq Nat
  /\ Never \notin Nat

VARIABLES
  knownRelays,  \* Monitor.knownRelays
  dns,          \* Monitor.dnsCache.results
  sweep,        \* the sweep in progress
  running,      \* its goroutines that hold the semaphore
  early,        \* checks of relays just discovered
  took,         \* how long each of these checks has taken
  sinceCheck,   \* time since Monitor.lastCheck
  ticker,       \* [left, due]: time to the next tick, a tick is waiting
  entries,      \* relay:{url} in Redis: what is left of its life
  passed        \* history: how often a sweep passed the relay over since its entry
                \* was stored, while it took in another URL of its host

vars == <<knownRelays, dns, sweep, running, early, took, sinceCheck, ticker, entries,
          passed>>

IdleSweep == [pc |-> "idle", todo |-> {}, waiting |-> {}, gap |-> Stagger]

\* The sweep: the relays whose goroutine is still to be started, those whose
\* goroutine waits for the semaphore, and the time since the last start.
Sweep == [pc : {"idle", "sweep"}, todo : SUBSET Relays, waiting : SUBSET Relays,
          gap : 0..Stagger]

TypeOK ==
  /\ knownRelays \subseteq Relays
  /\ DOMAIN dns = Hosts
  /\ \A h \in Hosts : dns[h] # None => IsResult(dns[h])
  /\ sweep \in Sweep
  /\ sweep.pc = "idle" => sweep.todo \cup sweep.waiting \cup running = {}
  /\ running \subseteq Relays /\ early \subseteq Relays
  /\ sweep.todo \cap sweep.waiting = {}
  /\ running \cap (sweep.todo \cup sweep.waiting) = {}
  /\ Cardinality(running) =< Slots
  /\ took \in [{"sweep", "early"} -> [Relays -> 0..MaxCheck]]
  /\ sinceCheck \in Nat \cup {Never}
  /\ ticker \in [left : 1..Interval, due : BOOLEAN]
  /\ entries \in [Relays -> 0..EntryTTL]
  /\ passed \in [Relays -> 0..(MaxPassed + 1)]

\* The relays of the seeds, the whitelist and discovery:seen are loaded; the
\* first sweep does not wait for a tick.
Init ==
  /\ knownRelays \in SUBSET Relays
  /\ dns = [h \in Hosts |-> None]
  /\ sweep = IdleSweep
  /\ running = {} /\ early = {}
  /\ took = [kind \in {"sweep", "early"} |-> [r \in Relays |-> 0]]
  /\ sinceCheck = Never
  /\ ticker = [left |-> Interval, due |-> TRUE]
  /\ entries = [r \in Relays |-> 0]
  /\ passed = [r \in Relays |-> 0]

----------------------------------------------------------------------------
\* What the filter (URLFilter.Filter) lets through and the sweep has a client for.
Valid(r) == Host[r] \notin Barred /\ (Host[r] \in Onion => TorClient)

RequiresTor(r) == Host[r] \in Onion

\* checkAllRelays, up to the first goroutine: expired results are dropped, then what
\* is to be checked is chosen, relay after relay.  Each of these calls takes the time
\* anew: where a failure ends meanwhile it is kept, and the sweep takes in the relays
\* of the host that it comes to late.
BeginSweep ==
  /\ sweep.pc = "idle" /\ ticker.due
  /\ ticker' = [ticker EXCEPT !.due = FALSE]
  /\ sinceCheck' = 0
  /\ \E late \in SUBSET {r \in knownRelays : Valid(r) /\ Ending(dns[Host[r]])} :
       LET lateHosts == {Host[r] : r \in late}
           todo == {r \in knownRelays :
                      Valid(r) /\ (r \in late \/ ~ShouldSkip(dns[Host[r]]))}
       IN  /\ dns' = [h \in Hosts |-> IF h \in lateHosts THEN Older(dns[h])
                                                         ELSE Cleanup(dns[h])]
           /\ sweep' = [IdleSweep EXCEPT !.pc = "sweep", !.todo = todo]
           /\ passed' = [r \in Relays |->
                IF /\ Host[r] \in lateHosts /\ r \in knownRelays \ todo
                   /\ passed[r] =< MaxPassed
                THEN passed[r] + 1 ELSE passed[r]]
  /\ UNCHANGED <<knownRelays, running, early, took, entries>>

\* Start a goroutine: the relays behind Tor come last, and the first of them
\* does not wait for the stagger delay.
Launch(r) ==
  LET rest == sweep.todo \ {r}
      regular == {q \in rest : ~RequiresTor(q)}
  IN  /\ r \in sweep.todo
      /\ sweep.gap = Stagger
      /\ RequiresTor(r) => regular = {}
      /\ sweep' = [sweep EXCEPT
                     !.todo = rest,
                     !.waiting = @ \cup {r},
                     !.gap = IF ~RequiresTor(r) /\ regular = {} THEN Stagger ELSE 0]
      /\ UNCHANGED <<knownRelays, dns, running, early, took, sinceCheck, ticker, entries,
                     passed>>

\* Mutant: no semaphore.
AcquireAtOnce(r) ==
  /\ r \in sweep.waiting
  /\ sweep' = [sweep EXCEPT !.waiting = @ \ {r}]
  /\ running' = running \cup {r}
  /\ UNCHANGED <<knownRelays, dns, early, took, sinceCheck, ticker, entries,
                     passed>>

\* The semaphore lets a goroutine in.
Acquire(r) ==
  /\ r \in sweep.waiting
  /\ Cardinality(running) < Slots
  /\ sweep' = [sweep EXCEPT !.waiting = @ \ {r}]
  /\ running' = running \cup {r}
  /\ UNCHANGED <<knownRelays, dns, early, took, sinceCheck, ticker, entries,
                     passed>>

\* Mutant: lastCheck moves only when a sweep begins and ends.
CheckEndsQuietly(r) ==
  /\ r \in running
  /\ \E outcome \in Outcomes[r] :
        dns' = [dns EXCEPT ![Host[r]] = Keep(@, outcome)]
  /\ entries' = [entries EXCEPT ![r] = EntryTTL]
  /\ passed' = [passed EXCEPT ![r] = 0]
  /\ running' = running \ {r}
  /\ took' = [took EXCEPT !["sweep"][r] = 0]
  /\ UNCHANGED <<knownRelays, sweep, early, sinceCheck, ticker>>

\* The check ends: the result is kept for the host, lastCheck moves, and the
\* entry is stored, of a relay that is offline too.
CheckEnds(r) ==
  /\ r \in running
  /\ \E outcome \in Outcomes[r] :
        dns' = [dns EXCEPT ![Host[r]] = Keep(@, outcome)]
  /\ sinceCheck' = 0
  /\ entries' = [entries EXCEPT ![r] = EntryTTL]
  /\ passed' = [passed EXCEPT ![r] = 0]
  /\ running' = running \ {r}
  /\ took' = [took EXCEPT !["sweep"][r] = 0]
  /\ UNCHANGED <<knownRelays, sweep, early, ticker>>

EndSweep ==
  /\ sweep.pc = "sweep"
  /\ sweep.todo = {} /\ sweep.waiting = {} /\ running = {}
  /\ sweep' = IdleSweep
  /\ sinceCheck' = 0
  /\ UNCHANGED <<knownRelays, dns, running, early, took, ticker, entries, passed>>

----------------------------------------------------------------------------
\* handleDiscoveredRelay, for a relay that is new and not blacklisted.
Discovered(r) ==
  /\ sweep.pc = "idle"
  /\ r \in Relays \ knownRelays
  /\ knownRelays' = knownRelays \cup {r}
  /\ early' = early \cup {r}
  /\ UNCHANGED <<dns, sweep, running, took, sinceCheck, ticker, entries,
                     passed>>

EarlyCheckEnds(r) ==
  /\ r \in early
  /\ early' = early \ {r}
  /\ took' = [took EXCEPT !["early"][r] = 0]
  /\ entries' = [entries EXCEPT ![r] = EntryTTL]
  /\ passed' = [passed EXCEPT ![r] = 0]
  /\ UNCHANGED <<knownRelays, dns, sweep, running, sinceCheck, ticker>>

----------------------------------------------------------------------------
\* Nothing that the code does without waiting is left to do.
Waits ==
  IF sweep.pc = "idle"
  THEN ~ticker.due
  ELSE /\ sweep.waiting # {} => Cardinality(running) >= Slots
       /\ sweep.todo # {} => sweep.gap < Stagger
       /\ sweep.todo \cup sweep.waiting \cup running # {}

TimePasses ==
  /\ Waits
  /\ \A r \in running : took["sweep"][r] < MaxCheck
  /\ \A r \in early : took["early"][r] < MaxCheck
  /\ took' = [took EXCEPT
                !["sweep"] = [r \in Relays |-> IF r \in running THEN @[r] + 1 ELSE 0],
                !["early"] = [r \in Relays |-> IF r \in early THEN @[r] + 1 ELSE 0]]
  /\ dns' = [h \in Hosts |-> Older(dns[h])]
  /\ sweep' = [sweep EXCEPT !.gap = IF @ < Stagger THEN @ + 1 ELSE @]
  /\ sinceCheck' = IF sinceCheck = Never THEN Never ELSE sinceCheck + 1
  /\ ticker' = IF ticker.left = 1
               THEN [left |-> Interval, due |-> TRUE]
               ELSE [ticker EXCEPT !.left = @ - 1]
  /\ entries' = [r \in Relays |-> IF entries[r] = 0 THEN 0 ELSE entries[r] - 1]
  /\ UNCHANGED <<knownRelays, running, early, passed>>

SweepStep ==
  \/ BeginSweep
  \/ \E r \in Relays : Launch(r) \/ Acquire(r) \/ CheckEnds(r) \/ EarlyCheckEnds(r)
  \/ EndSweep

Next ==
  \/ SweepStep
  \/ \E r \in Relays : Discovered(r)
  \/ TimePasses

Spec == Init /\ [][Next]_vars

\* Some goroutine that can go on does, and time passes.  As a check takes no
\* longer than MaxCheck and time waits for whoever need not wait, no goroutine
\* is left behind.  The sweep goes through the relays in the order of a Go map,
\* which is another one each time: if a relay may be taken in again and again, it
\* does not come too early each time.
FairSpec ==
  /\ Spec
  /\ WF_vars(SweepStep) /\ WF_vars(TimePasses)
  /\ \A r \in Relays : SF_vars(BeginSweep /\ r \in sweep'.todo)

----------------------------------------------------------------------------
(***************************************************************************)
(* Properties.                                                             *)
(***************************************************************************)

\* However many relays there are, a monitor that sweeps them is never reported
\* as slow or stale: the goroutines move lastCheck on (monitor.go:316).
HeartbeatHolds == workerStatus(sinceCheck, Interval, 0) = "healthy"

\* A relay that always answers does not disappear from the directory because
\* other URLs of its host fail: its entry outlives the time for which the DNS
\* cache makes the sweep skip the host.  Where the failure ends between the looks at
\* two URLs (monitor.go:386), the one is checked and may fail anew, and the other has
\* waited in vain; that may happen MaxPassed times.
EntryKept ==
  [][\A r \in Relays :
       Outcomes[r] = {"ok"} /\ entries[r] > 0 /\ passed[r] =< MaxPassed
         => entries'[r] > 0]_vars

\* No failure is for ever: a relay that the filter lets through is checked again
\* and again, whatever was kept for its host.
CheckedAgain ==
  \A r \in Relays : Valid(r) => [](r \in knownRelays => <>(r \in running))
===============================================================================
