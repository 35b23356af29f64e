-------------------------- MODULE HealthSweepProofs --------------------------
(***************************************************************************)
(* Proofs about the sweeps, for any number of relays, hosts and slots.     *)
(*                                                                         *)
(* The heartbeat never stops: while checks run, one of them is old enough  *)
(* to account for the time since lastCheck moved.                          *)
(*                                                                         *)
(* The entry of a relay that always answers does not expire: a sweep ends  *)
(* within a time that the places of its semaphore bound, a failure of the  *)
(* host lasts a bounded time, and the relay is checked again after both.   *)
(***************************************************************************)
EXTENDS HealthSweep, PowersOf2Proofs, FiniteSetTheorems

\* The part of TypeOK that the clocks need.
ClockTypeOK ==
  /\ knownRelays \subseteq Relays
  /\ sweep \in Sweep
  /\ running \subseteq Relays
  /\ took \in [{"sweep", "early"} -> [Relays -> 0..MaxCheck]]
  /\ sinceCheck \in Nat \cup {Never}
  /\ ticker \in [left : 1..Interval, due : BOOLEAN]

\* Between sweeps, lastCheck is no older than what the ticker has counted.
IdleHeartbeat ==
  sweep.pc = "idle" =>
    /\ sweep.todo = {} /\ sweep.waiting = {} /\ running = {}
    /\ sinceCheck = Never => ticker.due
    /\ sinceCheck # Never =>
         /\ sinceCheck =< Interval
         /\ ~ticker.due => sinceCheck + ticker.left =< Interval

\* During a sweep, lastCheck moved after the last start, or a check that still
\* runs was started no more than a stagger delay after it moved.
SweepHeartbeat ==
  sweep.pc = "sweep" =>
    /\ sinceCheck # Never
    /\ running = {} =>
         /\ sinceCheck =< Stagger
         /\ sweep.waiting = {} => sinceCheck =< sweep.gap
    /\ running # {} =>
         \E r \in running : sinceCheck =< took["sweep"][r] + Stagger

HeartbeatInv == ClockTypeOK /\ IdleHeartbeat /\ SweepHeartbeat

\* A sweep that has nothing to start and nothing to wait for does not let time
\* pass: it ends.
LEMMA WaitsForSomething ==
  ASSUME ClockTypeOK, Waits, sweep.pc = "sweep", running = {}
  PROVE  sweep.waiting = {} /\ sweep.gap < Stagger
<1>1. Cardinality(running) = 0
  BY FS_EmptySet
<1>2. Slots \in Nat \ {0}
  BY SweepAssumption
<1> QED
  BY <1>1, <1>2 DEF Waits

\* The first sweep is due at once.
LEMMA HeartbeatInit == Init => HeartbeatInv
  BY SweepAssumption
  DEF Init, HeartbeatInv, ClockTypeOK, IdleHeartbeat, SweepHeartbeat, IdleSweep, Sweep

\* Time that passes in a sweep passes in a check that was begun in time.
LEMMA TimePassesKeepsHeartbeat ==
  ASSUME HeartbeatInv, TimePasses, MaxCheck + Stagger =< Interval
  PROVE  HeartbeatInv'
<1> USE SweepAssumption DEF HeartbeatInv
<1>1. UNCHANGED <<running, sweep.pc, sweep.todo, sweep.waiting>>
  BY DEF TimePasses, ClockTypeOK, Sweep
<1>2. took' \in [{"sweep", "early"} -> [Relays -> 0..MaxCheck]]
  <2>1. \A r \in Relays :
          /\ (IF r \in running THEN took["sweep"][r] + 1 ELSE 0) \in 0..MaxCheck
          /\ (IF r \in early THEN took["early"][r] + 1 ELSE 0) \in 0..MaxCheck
    BY DEF TimePasses, ClockTypeOK
  <2> QED
    BY <2>1 DEF TimePasses, ClockTypeOK
<1>3. \A r \in running : took'["sweep"][r] = took["sweep"][r] + 1
  BY DEF TimePasses, ClockTypeOK
<1>4. sinceCheck' = IF sinceCheck = Never THEN Never ELSE sinceCheck + 1
  BY DEF TimePasses
<1>5. ClockTypeOK'
  BY <1>1, <1>2, <1>4 DEF TimePasses, ClockTypeOK, Sweep
<1>6. IdleHeartbeat'
  BY <1>1, <1>4 DEF TimePasses, Waits, ClockTypeOK, IdleHeartbeat
<1>7. SweepHeartbeat'
  <2> SUFFICES ASSUME sweep.pc = "sweep" PROVE SweepHeartbeat'
    BY <1>1 DEF SweepHeartbeat
  <2>1. CASE running = {}
    <3>1. sweep.waiting = {} /\ sweep.gap < Stagger
      BY <2>1, WaitsForSomething DEF TimePasses
    <3>2. sinceCheck \in Nat /\ sinceCheck =< sweep.gap
      BY <2>1, <3>1 DEF SweepHeartbeat, ClockTypeOK
    <3>3. sweep'.gap = sweep.gap + 1
      BY <3>1 DEF TimePasses, ClockTypeOK, Sweep
    <3> QED
      BY <1>1, <1>4, <2>1, <3>1, <3>2, <3>3 DEF SweepHeartbeat, ClockTypeOK, Sweep
  <2>2. CASE running # {}
    <3>1. PICK r \in running : sinceCheck =< took["sweep"][r] + Stagger
      BY <2>2 DEF SweepHeartbeat
    <3>2. sinceCheck \in Nat /\ took["sweep"][r] \in Nat /\ Stagger \in Nat
      BY DEF SweepHeartbeat, ClockTypeOK
    <3>3. sinceCheck' =< took'["sweep"][r] + Stagger
      BY <1>3, <1>4, <3>1, <3>2
    <3> QED
      BY <1>1, <1>4, <2>2, <3>2, <3>3 DEF SweepHeartbeat
  <2> QED
    BY <2>1, <2>2
<1> QED
  BY <1>5, <1>6, <1>7

\* Each step of a sweep moves lastCheck, or leaves a check that accounts for its age.
LEMMA SweepKeepsHeartbeat ==
  ASSUME HeartbeatInv, SweepStep
  PROVE  HeartbeatInv'
<1> USE SweepAssumption DEF HeartbeatInv
<1>1. CASE BeginSweep
  <2>1. PICK todo \in SUBSET Relays :
          sweep' = [IdleSweep EXCEPT !.pc = "sweep", !.todo = todo]
    BY <1>1 DEF BeginSweep, ClockTypeOK
  <2>2. sweep' = [pc |-> "sweep", todo |-> todo, waiting |-> {}, gap |-> Stagger]
    BY <2>1 DEF IdleSweep
  <2>3. sinceCheck' = 0 /\ 0 # Never /\ running' = {} /\ UNCHANGED <<knownRelays, took>>
    BY <1>1 DEF BeginSweep, IdleHeartbeat
  <2>4. ticker' \in [left : 1..Interval, due : BOOLEAN]
    BY <1>1 DEF BeginSweep, ClockTypeOK
  <2> QED
    BY <2>2, <2>3, <2>4 DEF ClockTypeOK, IdleHeartbeat, SweepHeartbeat, Sweep
<1>2. ASSUME NEW r \in Relays, Launch(r) PROVE HeartbeatInv'
  <2>1. PICK gap \in 0..Stagger :
          sweep' = [sweep EXCEPT !.todo = sweep.todo \ {r},
                                 !.waiting = sweep.waiting \cup {r}, !.gap = gap]
    <3>1. 0 \in 0..Stagger /\ Stagger \in 0..Stagger
      OBVIOUS
    <3> QED
      BY <1>2, <3>1, Zenon DEF Launch
  <2>2. /\ sweep'.pc = sweep.pc /\ sweep'.waiting = sweep.waiting \cup {r}
        /\ sweep' \in Sweep
    BY <2>1, <1>2 DEF ClockTypeOK, Sweep
  <2>3. ClockTypeOK'
    BY <1>2, <2>2 DEF Launch, ClockTypeOK
  <2> QED
    BY <1>2, <2>2, <2>3 DEF Launch, ClockTypeOK, IdleHeartbeat, SweepHeartbeat
<1>3. ASSUME NEW r \in Relays, Acquire(r) PROVE HeartbeatInv'
  <2>1. ClockTypeOK'
    BY <1>3 DEF Acquire, ClockTypeOK, Sweep
  <2>2. sweep'.pc = sweep.pc /\ running' = running \cup {r}
    BY <1>3 DEF Acquire, ClockTypeOK, Sweep
  <2>3. took["sweep"][r] \in Nat /\ Stagger \in Nat
    BY DEF ClockTypeOK
  <2>4. UNCHANGED <<took, sinceCheck, ticker>> /\ sweep.waiting # {}
    BY <1>3 DEF Acquire
  <2>5. IdleHeartbeat'
    BY <1>3, <2>2, <2>4 DEF Acquire, IdleHeartbeat, ClockTypeOK, Sweep, HeartbeatInv
  <2>6. SweepHeartbeat'
    <3> SUFFICES ASSUME sweep.pc = "sweep" PROVE SweepHeartbeat'
      BY <2>2 DEF SweepHeartbeat
    <3>1. sinceCheck \in Nat
      BY DEF SweepHeartbeat, ClockTypeOK
    <3>2. \E q \in running' : sinceCheck =< took["sweep"][q] + Stagger
      BY <2>2, <2>3, <3>1 DEF SweepHeartbeat
    <3> QED
      BY <2>2, <2>4, <3>1, <3>2 DEF SweepHeartbeat
  <2> QED
    BY <2>1, <2>5, <2>6
<1>4. ASSUME NEW r \in Relays, CheckEnds(r) PROVE HeartbeatInv'
  <2>1. ClockTypeOK'
    BY <1>4 DEF CheckEnds, ClockTypeOK
  <2>2. sinceCheck' = 0 /\ UNCHANGED <<sweep, ticker>> /\ running' = running \ {r}
    BY <1>4 DEF CheckEnds
  <2>3. sinceCheck' # Never
    BY <2>2
  <2>4. \A q \in Relays : took'["sweep"][q] \in Nat /\ sinceCheck' =< took'["sweep"][q] + Stagger
    BY <2>1, <2>2 DEF ClockTypeOK
  <2>5. sweep.gap \in Nat /\ running' \subseteq Relays
    BY <2>1, <2>2 DEF ClockTypeOK, Sweep
  <2>6. sweep.pc # "idle"
    BY <1>4 DEF CheckEnds, IdleHeartbeat
  <2> QED
    BY <2>1, <2>2, <2>3, <2>4, <2>5, <2>6 DEF IdleHeartbeat, SweepHeartbeat
<1>5. CASE EndSweep
  BY <1>5 DEF EndSweep, ClockTypeOK, IdleHeartbeat, SweepHeartbeat, IdleSweep, Sweep
<1>6. ASSUME NEW r \in Relays, EarlyCheckEnds(r) PROVE HeartbeatInv'
  <2>1. ClockTypeOK' /\ took'["sweep"] = took["sweep"]
    BY <1>6 DEF EarlyCheckEnds, ClockTypeOK
  <2> QED
    BY <1>6, <2>1 DEF EarlyCheckEnds, IdleHeartbeat, SweepHeartbeat
<1> QED
  BY <1>1, <1>2, <1>3, <1>4, <1>5, <1>6 DEF SweepStep

\* The heartbeat is fast enough for /health whatever the number of relays, if a
\* check and a stagger delay fit into the interval between two sweeps.
THEOREM HeartbeatNeverStops ==
  ASSUME MaxCheck + Stagger =< Interval
  PROVE  Spec => []HeartbeatHolds
<1>1. Init => HeartbeatInv
  BY HeartbeatInit
<1>2. HeartbeatInv /\ [Next]_vars => HeartbeatInv'
  <2> SUFFICES ASSUME HeartbeatInv, [Next]_vars PROVE HeartbeatInv'
    OBVIOUS
  <2>1. CASE SweepStep
    BY <2>1, SweepKeepsHeartbeat
  <2>2. ASSUME NEW r \in Relays, Discovered(r) PROVE HeartbeatInv'
    BY <2>2
    DEF Discovered, HeartbeatInv, ClockTypeOK, IdleHeartbeat, SweepHeartbeat
  <2>3. CASE TimePasses
    BY <2>3, TimePassesKeepsHeartbeat
  <2>4. CASE UNCHANGED vars
    BY <2>4 DEF vars, HeartbeatInv, ClockTypeOK, IdleHeartbeat, SweepHeartbeat
  <2> QED
    BY <2>1, <2>2, <2>3, <2>4 DEF Next
<1>3. HeartbeatInv => HeartbeatHolds
  <2> SUFFICES ASSUME HeartbeatInv, sinceCheck # Never PROVE sinceCheck =< Interval
    BY DEF HeartbeatHolds, workerStatus
  <2>1. sinceCheck \in Nat /\ Interval \in Nat /\ Stagger \in Nat /\ MaxCheck \in Nat
    BY SweepAssumption DEF HeartbeatInv, ClockTypeOK
  <2>2. CASE sweep.pc = "idle"
    BY <2>2 DEF HeartbeatInv, IdleHeartbeat
  <2>3. CASE sweep.pc = "sweep"
    <3>1. sinceCheck =< MaxCheck + Stagger
      BY <2>1, <2>3 DEF HeartbeatInv, ClockTypeOK, SweepHeartbeat
    <3> QED
      BY <2>1, <3>1
  <2> QED
    BY <2>2, <2>3 DEF HeartbeatInv, ClockTypeOK, Sweep
<1> QED
  BY <1>1, <1>2, <1>3, PTL DEF Spec

----------------------------------------------------------------------------
(* Types *)

\* Whatever the width of Go's int, a product cut to it is an integer.
LEMMA SignedType ==
  ASSUME NEW n \in Int
  PROVE  Signed(n) \in Int
<1>1. /\ PowerOf2[Width] \in Nat \ {0}
      /\ PowerOf2[Width - 1] \in Nat
  BY DNSCacheAssumption, PowerOf2Type
<1>2. \A a \in Int, b \in Nat \ {0} : a % b \in Int
  OBVIOUS
<1>3. n + PowerOf2[Width - 1] \in Int
  BY <1>1
<1> QED  BY <1>1, <1>2, <1>3 DEF Signed

\* No host is left alone after a timeout for longer than the cap.
LEMMA timeoutBackoffType ==
  ASSUME NEW count \in Nat
  PROVE  timeoutBackoff(count) \in Int /\ timeoutBackoff(count) =< MaxBackoff
<1>1. PowerOf2[count] \in Nat /\ TimeoutTTL \in Nat /\ MaxBackoff \in Nat
  BY DNSCacheAssumption, PowerOf2Type
<1>2. TimeoutTTL * PowerOf2[count] \in Int
  BY <1>1
<1>3. Signed(TimeoutTTL * PowerOf2[count]) \in Int
  BY <1>2, SignedType
<1> QED  BY <1>1, <1>3 DEF timeoutBackoff

\* What is kept of a host is a result, whatever is done to it.
ResultOrNone(result) == result # None => IsResult(result)

\* A new result is a result.
LEMMA FreshType ==
  ASSUME NEW type \in ResultTypes, NEW ttl \in Int, NEW count \in Nat
  PROVE  IsResult(Fresh(type, ttl, count))
BY DEF Fresh, IsResult

\* Cleaning up, growing older and keeping an outcome lead from results to results.
LEMMA ResultKept ==
  ASSUME NEW result, ResultOrNone(result)
  PROVE  /\ ResultOrNone(Cleanup(result)) /\ ResultOrNone(Older(result))
         /\ \A outcome \in CheckOutcomes : ResultOrNone(Keep(result, outcome))
<1> USE DNSCacheAssumption
<1>1. ResultOrNone(Cleanup(result))
  BY DEF Cleanup, ResultOrNone
<1>2. ResultOrNone(Older(result))
  BY DEF Older, ResultOrNone, IsResult
<1>3. ASSUME NEW outcome \in CheckOutcomes PROVE ResultOrNone(Keep(result, outcome))
  <2>1. IsResult(SetTimeout(result))
    <3> DEFINE count == IF result # None /\ result.type = "timeout"
                        THEN result.count + 1 ELSE 0
    <3>1. count \in Nat
      BY DEF ResultOrNone, IsResult
    <3> HIDE DEF count
    <3>2. IsResult(Fresh("timeout", timeoutBackoff(count), count))
      BY <3>1, timeoutBackoffType, FreshType DEF ResultTypes
    <3> QED  BY <3>2 DEF SetTimeout, count
  <2>2. /\ IsResult(Fresh("success", SuccessTTL, 0))
        /\ IsResult(Fresh("nxdomain", NXDomainTTL, 0))
        /\ IsResult(Fresh("error", ErrorTTL, 0))
    BY FreshType DEF ResultTypes
  <2> QED  BY <2>1, <2>2 DEF Keep, CheckOutcomes, ResultOrNone
<1> QED  BY <1>1, <1>2, <1>3

\* Counting the goroutines that hold the semaphore needs a finite set of them.
SweepInv == TypeOK /\ IsFiniteSet(running)

\* No check runs at first.
LEMMA SweepInvInit == Init => SweepInv
<1> USE SweepAssumption
<1> SUFFICES ASSUME Init PROVE SweepInv
  OBVIOUS
<1>1. IsFiniteSet(running) /\ Cardinality(running) = 0
  BY FS_EmptySet DEF Init
<1>2. took \in [{"sweep", "early"} -> [Relays -> 0..MaxCheck]]
  BY DEF Init
<1> QED
  BY <1>1, <1>2 DEF Init, SweepInv, TypeOK, IdleSweep, Sweep

\* The results change host by host.
LEMMA ResultsType ==
  ASSUME SweepInv,
         \/ \E late \in SUBSET Hosts :
              dns' = [h \in Hosts |-> IF h \in late THEN Older(dns[h]) ELSE Cleanup(dns[h])]
         \/ dns' = [h \in Hosts |-> Older(dns[h])]
         \/ UNCHANGED dns
         \/ \E r \in Relays : \E outcome \in Outcomes[r] :
                dns' = [dns EXCEPT ![Host[r]] = Keep(@, outcome)]
  PROVE  DOMAIN dns' = Hosts /\ \A h \in Hosts : dns'[h] # None => IsResult(dns'[h])
<1>1. DOMAIN dns = Hosts /\ \A h \in Hosts : ResultOrNone(dns[h])
  BY DEF SweepInv, TypeOK, ResultOrNone
<1>2. ASSUME NEW late \in SUBSET Hosts,
             dns' = [h \in Hosts |-> IF h \in late THEN Older(dns[h]) ELSE Cleanup(dns[h])]
      PROVE  DOMAIN dns' = Hosts /\ \A h \in Hosts : dns'[h] # None => IsResult(dns'[h])
  BY <1>1, <1>2, ResultKept DEF ResultOrNone
<1>3. CASE dns' = [h \in Hosts |-> Older(dns[h])]
  BY <1>1, <1>3, ResultKept DEF ResultOrNone
<1>4. ASSUME NEW r \in Relays, NEW outcome \in Outcomes[r],
             dns' = [dns EXCEPT ![Host[r]] = Keep(@, outcome)]
      PROVE  DOMAIN dns' = Hosts /\ \A h \in Hosts : dns'[h] # None => IsResult(dns'[h])
  <2>1. outcome \in CheckOutcomes /\ Host[r] \in Hosts
    BY SweepAssumption
  <2>2. ResultOrNone(Keep(dns[Host[r]], outcome))
    BY <1>1, <2>1, ResultKept
  <2> QED  BY <1>1, <1>4, <2>2 DEF ResultOrNone
<1>5. CASE UNCHANGED dns
  BY <1>1, <1>5 DEF ResultOrNone
<1> QED  BY <1>2, <1>3, <1>4, <1>5

\* What a sweep takes in, and the hosts whose failure ended while it chose: of these it
\* takes in a relay at least, and of the others none that has a failure kept.
Chosen(todo, late) ==
  /\ sweep' = [IdleSweep EXCEPT !.pc = "sweep", !.todo = todo]
  /\ dns' = [h \in Hosts |-> IF h \in late THEN Older(dns[h]) ELSE Cleanup(dns[h])]
  /\ \A h \in late : Ending(dns[h]) /\ \E q \in todo : Host[q] = h
  /\ \A q \in todo : ShouldSkip(dns[Host[q]]) => Host[q] \in late
  /\ \A r \in knownRelays : Valid(r) /\ ~ShouldSkip(dns[Host[r]]) => r \in todo
  /\ passed' = [r \in Relays |->
       IF Host[r] \in late /\ r \in knownRelays \ todo /\ passed[r] =< MaxPassed
       THEN passed[r] + 1 ELSE passed[r]]

\* A sweep chooses among the relays that are known.
LEMMA SweepChooses ==
  ASSUME SweepInv, BeginSweep
  PROVE  /\ \E todo \in SUBSET knownRelays, late \in SUBSET Hosts : Chosen(todo, late)
         /\ sweep.pc = "idle" /\ ticker.due /\ knownRelays \subseteq Relays
         /\ ticker' = [ticker EXCEPT !.due = FALSE] /\ sinceCheck' = 0
         /\ UNCHANGED <<knownRelays, running, early, took, entries>>
<1>1. knownRelays \subseteq Relays /\ \A r \in knownRelays : Host[r] \in Hosts
  BY SweepAssumption DEF SweepInv, TypeOK
<1>2. PICK late \in SUBSET {r \in knownRelays : Valid(r) /\ Ending(dns[Host[r]])} :
        LET lateHosts == {Host[r] : r \in late}
            todo == {r \in knownRelays :
                       Valid(r) /\ (r \in late \/ ~ShouldSkip(dns[Host[r]]))}
        IN  /\ dns' = [h \in Hosts |-> IF h \in lateHosts THEN Older(dns[h])
                                                          ELSE Cleanup(dns[h])]
            /\ sweep' = [IdleSweep EXCEPT !.pc = "sweep", !.todo = todo]
            /\ passed' = [r \in Relays |->
                 IF /\ Host[r] \in lateHosts /\ r \in knownRelays \ todo
                    /\ passed[r] =< MaxPassed
                 THEN passed[r] + 1 ELSE passed[r]]
  BY DEF BeginSweep
<1> DEFINE hosts == {Host[r] : r \in late}
           chosen == {r \in knownRelays :
                        Valid(r) /\ (r \in late \/ ~ShouldSkip(dns[Host[r]]))}
<1>3. /\ dns' = [h \in Hosts |-> IF h \in hosts THEN Older(dns[h]) ELSE Cleanup(dns[h])]
      /\ sweep' = [IdleSweep EXCEPT !.pc = "sweep", !.todo = chosen]
      /\ passed' = [r \in Relays |->
            IF Host[r] \in hosts /\ r \in knownRelays \ chosen /\ passed[r] =< MaxPassed
            THEN passed[r] + 1 ELSE passed[r]]
  BY <1>2
<1>4. hosts \in SUBSET Hosts /\ chosen \in SUBSET knownRelays
  BY <1>1
<1>5. /\ \A h \in hosts : Ending(dns[h]) /\ \E q \in chosen : Host[q] = h
      /\ \A q \in chosen : ShouldSkip(dns[Host[q]]) => Host[q] \in hosts
      /\ \A r \in knownRelays : Valid(r) /\ ~ShouldSkip(dns[Host[r]]) => r \in chosen
  OBVIOUS
<1>6. Chosen(chosen, hosts)
  <2> HIDE DEF chosen, hosts
  <2> QED  BY <1>3, <1>5 DEF Chosen
<1>7. \E todo \in SUBSET knownRelays, l \in SUBSET Hosts : Chosen(todo, l)
  <2> HIDE DEF chosen, hosts
  <2> QED  BY <1>4, <1>6
<1> QED  BY <1>1, <1>7 DEF BeginSweep

\* Every step keeps the types, and the semaphore lets no more in than it has slots.
LEMMA SweepInvStep == SweepInv /\ [Next]_vars => SweepInv'
<1> SUFFICES ASSUME SweepInv, [Next]_vars PROVE SweepInv'
  OBVIOUS
<1> USE SweepAssumption
<1>0. /\ knownRelays \subseteq Relays /\ sweep \in Sweep
      /\ running \subseteq Relays /\ early \subseteq Relays
      /\ took \in [{"sweep", "early"} -> [Relays -> 0..MaxCheck]]
      /\ sinceCheck \in Nat \cup {Never}
      /\ ticker \in [left : 1..Interval, due : BOOLEAN]
      /\ entries \in [Relays -> 0..EntryTTL]
      /\ passed \in [Relays -> 0..(MaxPassed + 1)]
      /\ IsFiniteSet(running) /\ Cardinality(running) =< Slots
  BY DEF SweepInv, TypeOK
<1>1. CASE BeginSweep
  <2>0. PICK todo \in SUBSET Relays, late \in SUBSET Hosts : Chosen(todo, late)
    BY <1>1, SweepChooses
  <2>1. sweep' = [IdleSweep EXCEPT !.pc = "sweep", !.todo = todo]
    BY <2>0 DEF Chosen
  <2>2. sweep' = [pc |-> "sweep", todo |-> todo, waiting |-> {}, gap |-> Stagger]
    BY <2>1 DEF IdleSweep
  <2>3. running' = {} /\ running = {}
    BY <1>1 DEF BeginSweep, SweepInv, TypeOK
  <2>4. DOMAIN dns' = Hosts /\ \A h \in Hosts : dns'[h] # None => IsResult(dns'[h])
    BY <2>0, ResultsType DEF Chosen
  <2>5. sweep' \in Sweep
    BY <2>2 DEF Sweep
  <2>6. ticker' \in [left : 1..Interval, due : BOOLEAN]
    BY <1>0, <1>1 DEF BeginSweep
  <2>7. sinceCheck' = 0 /\ UNCHANGED <<knownRelays, running, early, took, entries>>
    BY <1>1 DEF BeginSweep
  <2>8. sweep'.pc = "sweep" /\ sweep'.waiting = {}
    BY <2>2
  <2>9. passed' \in [Relays -> 0..(MaxPassed + 1)]
    BY <1>0, <2>0 DEF Chosen
  <2> QED
    BY <1>0, <2>3, <2>4, <2>5, <2>6, <2>7, <2>8, <2>9 DEF SweepInv, TypeOK
<1>2. ASSUME NEW r \in Relays, Launch(r) PROVE SweepInv'
  <2>1. PICK gap \in 0..Stagger :
          sweep' = [sweep EXCEPT !.todo = sweep.todo \ {r},
                                 !.waiting = sweep.waiting \cup {r}, !.gap = gap]
    <3>1. 0 \in 0..Stagger /\ Stagger \in 0..Stagger
      OBVIOUS
    <3> QED
      BY <1>2, <3>1, Zenon DEF Launch
  <2>2. /\ sweep'.pc = sweep.pc /\ sweep'.waiting = sweep.waiting \cup {r}
        /\ sweep'.todo = sweep.todo \ {r} /\ sweep' \in Sweep
    BY <1>0, <2>1, <1>2 DEF Sweep
  <2> QED
    BY <1>0, <1>2, <2>2, ResultsType DEF Launch, SweepInv, TypeOK
<1>3. ASSUME NEW r \in Relays, Acquire(r) PROVE SweepInv'
  <2>1. r \notin running /\ r \notin sweep.todo
    BY <1>3 DEF Acquire, SweepInv, TypeOK
  <2>2. /\ sweep'.pc = sweep.pc /\ sweep'.waiting = sweep.waiting \ {r}
        /\ sweep'.todo = sweep.todo /\ sweep' \in Sweep
    BY <1>0, <1>3 DEF Acquire, Sweep
  <2>3. IsFiniteSet(running') /\ Cardinality(running') = Cardinality(running) + 1
    BY <1>0, <1>3, <2>1, FS_AddElement DEF Acquire
  <2>4. Cardinality(running') =< Slots
    BY <1>0, <1>3, <2>3, FS_CardinalityType DEF Acquire
  <2> QED
    BY <1>0, <1>3, <2>1, <2>2, <2>3, <2>4, ResultsType DEF Acquire, SweepInv, TypeOK
<1>4. ASSUME NEW r \in Relays, CheckEnds(r) PROVE SweepInv'
  <2>1. DOMAIN dns' = Hosts /\ \A h \in Hosts : dns'[h] # None => IsResult(dns'[h])
    BY <1>4, ResultsType DEF CheckEnds
  <2>2. IsFiniteSet(running') /\ Cardinality(running') = Cardinality(running) - 1
    BY <1>0, <1>4, FS_RemoveElement DEF CheckEnds
  <2>3. Cardinality(running') =< Slots
    BY <1>0, <2>2, FS_CardinalityType
  <2>4. took' \in [{"sweep", "early"} -> [Relays -> 0..MaxCheck]]
    BY <1>0, <1>4 DEF CheckEnds
  <2> QED
    BY <1>0, <1>4, <2>1, <2>2, <2>3, <2>4 DEF CheckEnds, SweepInv, TypeOK
<1>5. CASE EndSweep
  BY <1>0, <1>5, ResultsType DEF EndSweep, SweepInv, TypeOK, IdleSweep, Sweep
<1>6. ASSUME NEW r \in Relays, EarlyCheckEnds(r) \/ Discovered(r) PROVE SweepInv'
  <2>1. took' \in [{"sweep", "early"} -> [Relays -> 0..MaxCheck]]
    BY <1>0, <1>6 DEF EarlyCheckEnds, Discovered
  <2> QED
    BY <1>0, <1>6, <2>1, ResultsType DEF EarlyCheckEnds, Discovered, SweepInv, TypeOK
<1>7. CASE TimePasses
  <2>1. took' \in [{"sweep", "early"} -> [Relays -> 0..MaxCheck]]
    <3>1. \A r \in Relays :
            /\ (IF r \in running THEN took["sweep"][r] + 1 ELSE 0) \in 0..MaxCheck
            /\ (IF r \in early THEN took["early"][r] + 1 ELSE 0) \in 0..MaxCheck
      BY <1>0, <1>7 DEF TimePasses
    <3> QED
      BY <1>0, <1>7, <3>1 DEF TimePasses
  <2>2. DOMAIN dns' = Hosts /\ \A h \in Hosts : dns'[h] # None => IsResult(dns'[h])
    BY <1>7, ResultsType DEF TimePasses
  <2>3. /\ sweep'.pc = sweep.pc /\ sweep'.waiting = sweep.waiting
        /\ sweep'.todo = sweep.todo /\ sweep' \in Sweep
    BY <1>0, <1>7 DEF TimePasses, Sweep
  <2>4. ticker' \in [left : 1..Interval, due : BOOLEAN]
    BY <1>0, <1>7 DEF TimePasses
  <2>5. entries' \in [Relays -> 0..EntryTTL] /\ sinceCheck' \in Nat \cup {Never}
    BY <1>0, <1>7 DEF TimePasses
  <2> QED
    BY <1>0, <1>7, <2>1, <2>2, <2>3, <2>4, <2>5 DEF TimePasses, SweepInv, TypeOK
<1>8. CASE UNCHANGED vars
  BY <1>8 DEF vars, SweepInv, TypeOK
<1> QED
  BY <1>1, <1>2, <1>3, <1>4, <1>5, <1>6, <1>7, <1>8 DEF Next, SweepStep

\* The semaphore lets no more than Slots goroutines of a sweep in, a relay is in one
\* place of a sweep at a time, and what is kept of a host is a result, however wide
\* int is.
THEOREM SweepTypeCorrect == Spec => []TypeOK
<1>1. SweepInv => TypeOK
  BY DEF SweepInv
<1> QED  BY <1>1, SweepInvInit, SweepInvStep, PTL DEF Spec

----------------------------------------------------------------------------
(* How long a sweep takes *)

\* The relays of the sweep whose check has not begun.
Pending == sweep.todo \cup sweep.waiting

\* The units of time that the checks in progress may still take.
Work == {w \in running \X (0..(MaxCheck - 1)) : w[2] >= took["sweep"][w[1]]}

\* All that the places of the semaphore may still be held for.
Load == MaxCheck * Cardinality(Pending) + Cardinality(Work)

\* The time until the last goroutine is started, as far as the stagger delay goes.
StartsLeft ==
  IF sweep.todo = {} THEN 0 ELSE Stagger * Cardinality(sweep.todo) - sweep.gap

\* The sweep is over within time n: the time in which the last goroutine is still to
\* be started, that in which one waits and so all the places are held, and the time m
\* in which the last checks end.
EndsWithin(n) ==
  \E m \in 0..MaxCheck :
    /\ \A q \in running : took["sweep"][q] + m >= MaxCheck
    /\ Pending # {} => m = MaxCheck
    /\ Slots * n >= Slots * (StartsLeft + m) + Load

\* Time enough for a sweep of all relays.
SweepsTake(D) ==
  Slots * D >= Slots * (Stagger * Cardinality(Relays) + MaxCheck)
               + MaxCheck * Cardinality(Relays)

\* Products of numbers that are not literals are compared by these three facts alone.
LEMMA TimesMonotone ==
  ASSUME NEW s \in Nat, NEW n \in Int, NEW k \in Int, n =< k
  PROVE  s * n =< s * k /\ s * n \in Int /\ s * k \in Int
  OBVIOUS

LEMMA TimesNat ==
  ASSUME NEW s \in Nat, NEW n \in Nat
  PROVE  s * n \in Nat
  OBVIOUS

LEMMA BoundKept ==
  ASSUME NEW s \in Nat, NEW n \in Int, NEW m \in Nat, NEW a \in Nat, NEW b \in Nat,
         NEW c \in Nat, NEW d \in Nat, b =< a, d =< c, s * n >= s * (a + m) + c
  PROVE  s * n >= s * (b + m) + d
<1>1. s * (b + m) =< s * (a + m) /\ s * (b + m) \in Int /\ s * (a + m) \in Int
  BY TimesMonotone
<1>2. s * n \in Int
  OBVIOUS
<1> QED  BY <1>1, <1>2

\* The sizes that the bound is made of.
LEMMA SweepSizes ==
  ASSUME IsFiniteSet(Relays), SweepInv
  PROVE  /\ IsFiniteSet(Pending) /\ Cardinality(Pending) \in Nat
         /\ Cardinality(Pending) =< Cardinality(Relays)
         /\ IsFiniteSet(Work) /\ Cardinality(Work) \in Nat
         /\ Load \in Nat
         /\ Cardinality(sweep.todo) \in Nat /\ IsFiniteSet(sweep.todo)
         /\ sweep.todo # {} => Cardinality(sweep.todo) >= 1
         /\ StartsLeft \in Nat
<1> USE SweepAssumption
<1>1. /\ sweep.todo \in SUBSET Relays /\ Pending \in SUBSET Relays
      /\ sweep.gap \in 0..Stagger /\ IsFiniteSet(running)
  BY DEF SweepInv, TypeOK, Sweep, Pending
<1>2. /\ IsFiniteSet(Pending) /\ Cardinality(Pending) \in Nat
      /\ Cardinality(Pending) =< Cardinality(Relays)
  BY <1>1, FS_Subset, FS_CardinalityType
<1>3. IsFiniteSet(Work) /\ Cardinality(Work) \in Nat
  <2>1. IsFiniteSet(running \X (0..(MaxCheck - 1)))
    <3>1. IsFiniteSet(0..(MaxCheck - 1))
      BY FS_Interval
    <3> QED  BY <1>1, <3>1, FS_Product
  <2>2. Work \in SUBSET (running \X (0..(MaxCheck - 1)))
    BY DEF Work
  <2>3. IsFiniteSet(Work)
    BY <2>1, <2>2, FS_Subset
  <2> QED  BY <2>3, FS_CardinalityType
<1>4. /\ Cardinality(sweep.todo) \in Nat /\ IsFiniteSet(sweep.todo)
      /\ sweep.todo # {} => Cardinality(sweep.todo) >= 1
  <2>1. IsFiniteSet(sweep.todo) /\ Cardinality(sweep.todo) \in Nat
    BY <1>1, FS_Subset, FS_CardinalityType
  <2>2. Cardinality(sweep.todo) = 0 <=> sweep.todo = {}
    BY <2>1, FS_EmptySet
  <2> QED  BY <2>1, <2>2
<1>5. StartsLeft \in Nat
  <2>1. CASE sweep.todo = {}
    BY <2>1 DEF StartsLeft
  <2>2. CASE sweep.todo # {}
    <3>1. Cardinality(sweep.todo) \in Nat /\ 1 =< Cardinality(sweep.todo) /\ Stagger \in Nat
      BY <1>4, <2>2
    <3>2. /\ Stagger * 1 =< Stagger * Cardinality(sweep.todo)
          /\ Stagger * Cardinality(sweep.todo) \in Int
      BY <3>1, TimesMonotone
    <3>3. Stagger * 1 = Stagger
      BY <3>1
    <3> QED  BY <1>1, <2>2, <3>1, <3>2, <3>3 DEF StartsLeft
  <2> QED  BY <2>1, <2>2
<1>6. Load \in Nat
  <2>1. MaxCheck * Cardinality(Pending) \in Nat
    BY <1>2, TimesNat
  <2> QED  BY <1>3, <2>1 DEF Load
<1> QED  BY <1>2, <1>3, <1>4, <1>5, <1>6

\* More time is enough too, and no sweep ends in the past.
LEMMA EndsMonotone ==
  IsFiniteSet(Relays) /\ SweepInv =>
    \A n, k \in Int : EndsWithin(n) => n \in Nat /\ (n =< k => EndsWithin(k))
<1> SUFFICES ASSUME IsFiniteSet(Relays), SweepInv, NEW n \in Int, NEW k \in Int, EndsWithin(n)
             PROVE  n \in Nat /\ (n =< k => EndsWithin(k))
  OBVIOUS
<1>1. PICK m \in 0..MaxCheck : /\ \A q \in running : took["sweep"][q] + m >= MaxCheck
                               /\ Pending # {} => m = MaxCheck
                               /\ Slots * n >= Slots * (StartsLeft + m) + Load
  BY DEF EndsWithin
<1>2. StartsLeft + m \in Nat /\ Load \in Nat /\ Slots \in Nat \ {0}
  BY <1>1, SweepSizes, SweepAssumption
<1>3. Slots * (StartsLeft + m) \in Nat
  BY <1>2, TimesNat
<1>4. n \in Nat
  <2> SUFFICES ASSUME n =< -1 PROVE FALSE
    OBVIOUS
  <2>1. Slots * n =< Slots * (-1)
    BY <1>2, TimesMonotone
  <2> QED  BY <1>1, <1>2, <1>3, <2>1
<1>5. ASSUME n =< k PROVE EndsWithin(k)
  <2>1. Slots * n =< Slots * k /\ Slots * n \in Int /\ Slots * k \in Int
    BY <1>2, <1>5, TimesMonotone
  <2>2. Slots * k >= Slots * (StartsLeft + m) + Load
    BY <1>1, <1>2, <1>3, <2>1
  <2> QED  BY <1>1, <2>2 DEF EndsWithin
<1> QED  BY <1>4, <1>5

\* The bound is kept by a step that makes neither its parts nor the time left to the
\* checks in progress larger.
LEMMA EndsKept ==
  ASSUME IsFiniteSet(Relays), SweepInv, SweepInv', NEW n \in Int, EndsWithin(n),
         StartsLeft' =< StartsLeft, Load' =< Load, StartsLeft' \in Nat, Load' \in Nat,
         Pending' # {} => Pending # {},
         \A q \in running' :
           \/ q \in running /\ took'["sweep"][q] = took["sweep"][q]
           \/ Pending # {}
  PROVE  EndsWithin(n)'
<1>1. PICK m \in 0..MaxCheck : /\ \A q \in running : took["sweep"][q] + m >= MaxCheck
                               /\ Pending # {} => m = MaxCheck
                               /\ Slots * n >= Slots * (StartsLeft + m) + Load
  BY DEF EndsWithin
<1>2. StartsLeft \in Nat /\ Load \in Nat /\ Slots \in Nat \ {0} /\ MaxCheck \in Nat
  BY SweepSizes, SweepAssumption
<1>3. PICK a \in Nat, b \in Nat, c \in Nat, d \in Nat :
        a = StartsLeft /\ b = StartsLeft' /\ c = Load /\ d = Load'
  BY <1>2
<1>4. Slots * n >= Slots * (StartsLeft' + m) + Load'
  <2>1. Slots * n >= Slots * (a + m) + c /\ b =< a /\ d =< c
    BY <1>1, <1>3
  <2>2. Slots * n >= Slots * (b + m) + d
    BY <1>2, <2>1, BoundKept
  <2> QED  BY <1>3, <2>2
<1>5. \A q \in running' : took'["sweep"][q] \in Nat
  BY SweepAssumption DEF SweepInv, TypeOK
<1>6. \A q \in running' : took'["sweep"][q] + m >= MaxCheck
  BY <1>1, <1>2, <1>5
<1>7. Pending' # {} => m = MaxCheck
  BY <1>1
<1> QED  BY <1>4, <1>6, <1>7 DEF EndsWithin

\* The types that the next lemmas use of the variables of the sweep.
LEMMA SweepFacts ==
  SweepInv => /\ sweep \in Sweep /\ sweep.todo \subseteq Relays /\ sweep.waiting \subseteq Relays
              /\ running \subseteq Relays /\ IsFiniteSet(running)
              /\ took \in [{"sweep", "early"} -> [Relays -> 0..MaxCheck]]
              /\ took["sweep"] \in [Relays -> 0..MaxCheck]
              /\ running \cap Pending = {} /\ sweep.todo \cap sweep.waiting = {}
              /\ sweep.pc = "idle" => Pending = {} /\ running = {}
BY DEF SweepInv, TypeOK, Sweep, Pending

\* A goroutine is started: the work is the same, and the starts left are no more.
LEMMA LaunchEnds ==
  ASSUME IsFiniteSet(Relays), SweepInv, SweepInv', NEW r \in Relays, Launch(r)
  PROVE  /\ Pending' = Pending /\ sweep'.pc = sweep.pc
         /\ \A n \in Int : EndsWithin(n) => EndsWithin(n)'
<1> USE SweepAssumption
<1>1. PICK gap \in 0..Stagger :
        sweep' = [sweep EXCEPT !.todo = sweep.todo \ {r},
                               !.waiting = sweep.waiting \cup {r}, !.gap = gap]
  <2>1. 0 \in 0..Stagger /\ Stagger \in 0..Stagger
    OBVIOUS
  <2> QED  BY <2>1, Zenon DEF Launch
<1>2. /\ sweep'.todo = sweep.todo \ {r} /\ sweep'.waiting = sweep.waiting \cup {r}
      /\ sweep'.gap = gap /\ sweep'.pc = sweep.pc
  BY <1>1, SweepFacts DEF Sweep
<1>3. /\ r \in sweep.todo /\ sweep.gap = Stagger /\ UNCHANGED <<running, took>>
  BY DEF Launch
<1>4. Pending' = Pending
  BY <1>2, <1>3 DEF Pending
<1>5. Work' = Work
  BY <1>3 DEF Work
<1>6. Load' = Load /\ Load \in Nat
  BY <1>4, <1>5, SweepSizes DEF Load
<1>7. StartsLeft' \in Nat /\ StartsLeft' =< StartsLeft
  <2>1. /\ IsFiniteSet(sweep.todo) /\ Cardinality(sweep.todo) \in Nat
        /\ StartsLeft \in Nat /\ sweep.todo # {}
    BY <1>3, SweepSizes
  <2>2. /\ IsFiniteSet(sweep'.todo) /\ Cardinality(sweep'.todo) = Cardinality(sweep.todo) - 1
        /\ Cardinality(sweep'.todo) \in Nat
    BY <1>2, <1>3, <2>1, FS_RemoveElement, FS_CardinalityType
  <2>3. StartsLeft = Stagger * Cardinality(sweep.todo) - Stagger
    BY <1>3, <2>1 DEF StartsLeft
  <2>4. CASE sweep'.todo = {}
    BY <2>1, <2>4 DEF StartsLeft
  <2>5. CASE sweep'.todo # {}
    <3>1. PICK k \in Nat : k = Cardinality(sweep'.todo)
      BY <2>2
    <3>2. k # 0
      BY <2>2, <2>5, <3>1, FS_EmptySet
    <3>3. StartsLeft' = Stagger * k - gap
      BY <1>2, <2>5, <3>1 DEF StartsLeft
    <3>4. Stagger * (k + 1) - Stagger = Stagger * k /\ Stagger * k >= Stagger
      BY <3>2, TimesNat
    <3>5. StartsLeft = Stagger * k
      BY <2>1, <2>2, <2>3, <3>1, <3>4
    <3> QED  BY <3>3, <3>4, <3>5
  <2> QED  BY <2>4, <2>5
<1>8. \A n \in Int : EndsWithin(n) => EndsWithin(n)'
  BY <1>3, <1>4, <1>6, <1>7, EndsKept
<1> QED  BY <1>2, <1>4, <1>8

\* The semaphore lets a goroutine in: what it may take moves from one part to another.
LEMMA AcquireEnds ==
  ASSUME IsFiniteSet(Relays), SweepInv, SweepInv', NEW r \in Relays, Acquire(r)
  PROVE  /\ (Pending \cup running)' = Pending \cup running /\ sweep'.pc = sweep.pc
         /\ \A n \in Int : EndsWithin(n) => EndsWithin(n)'
<1> USE SweepAssumption
<1>1. /\ sweep' = [sweep EXCEPT !.waiting = sweep.waiting \ {r}]
      /\ r \in sweep.waiting /\ running' = running \cup {r} /\ UNCHANGED took
  BY DEF Acquire
<1>2. /\ sweep'.todo = sweep.todo /\ sweep'.waiting = sweep.waiting \ {r}
      /\ sweep'.gap = sweep.gap /\ sweep'.pc = sweep.pc
  BY <1>1, SweepFacts DEF Sweep
<1>3. Pending' = Pending \ {r} /\ r \in Pending
  BY <1>1, <1>2, SweepFacts DEF Pending
<1>4. StartsLeft' = StartsLeft /\ StartsLeft \in Nat
  BY <1>2, SweepSizes DEF StartsLeft
<1>5. Load' =< Load /\ Load' \in Nat
  <2> DEFINE New == {r} \X (0..(MaxCheck - 1))
  <2>1. IsFiniteSet(New) /\ Cardinality(New) = MaxCheck
    <3>1. IsFiniteSet(0..(MaxCheck - 1)) /\ Cardinality(0..(MaxCheck - 1)) = MaxCheck
      <4>1. MaxCheck \in Nat /\ MaxCheck - 1 \in Int /\ 0 \in Int
        OBVIOUS
      <4>2. /\ IsFiniteSet(0..(MaxCheck - 1))
            /\ Cardinality(0..(MaxCheck - 1))
                 = IF 0 > MaxCheck - 1 THEN 0 ELSE (MaxCheck - 1) - 0 + 1
        BY <4>1, FS_Interval
      <4> QED  BY <4>1, <4>2
    <3>2. IsFiniteSet({r}) /\ Cardinality({r}) = 1
      BY FS_Singleton
    <3>3. IsFiniteSet(New) /\ Cardinality(New) = 1 * MaxCheck
      BY <3>1, <3>2, FS_Product
    <3> QED  BY <3>3
  <2>2. IsFiniteSet(Work) /\ Cardinality(Work) \in Nat
    BY SweepSizes
  <2>3. Work' \in SUBSET (Work \cup New)
    BY <1>1 DEF Work
  <2> HIDE DEF New
  <2>4. IsFiniteSet(Work \cup New) /\ Cardinality(Work \cup New) =< Cardinality(Work) + MaxCheck
    <3>1. /\ IsFiniteSet(Work \cup New)
          /\ Cardinality(Work \cup New)
               = Cardinality(Work) + Cardinality(New) - Cardinality(Work \cap New)
      BY <2>1, <2>2, FS_Union
    <3>2. Cardinality(Work \cap New) \in Nat
      BY <2>2, FS_Intersection, FS_CardinalityType
    <3> QED  BY <2>1, <2>2, <3>1, <3>2
  <2>5. /\ Cardinality(Work') \in Nat /\ Cardinality(Work') =< Cardinality(Work) + MaxCheck
    <3>1. /\ IsFiniteSet(Work') /\ Cardinality(Work') =< Cardinality(Work \cup New)
      BY <2>3, <2>4, FS_Subset
    <3>2. Cardinality(Work') \in Nat /\ Cardinality(Work \cup New) \in Nat
      BY <2>4, <3>1, FS_CardinalityType
    <3> QED  BY <2>2, <2>4, <3>1, <3>2
  <2>6. /\ IsFiniteSet(Pending) /\ Cardinality(Pending) \in Nat
        /\ Cardinality(Pending') = Cardinality(Pending) - 1
        /\ Cardinality(Pending') \in Nat
    BY <1>3, SweepSizes, FS_RemoveElement, FS_CardinalityType
  <2>7. PICK k \in Nat, v \in Nat, w \in Nat :
          k = Cardinality(Pending') /\ v = Cardinality(Work') /\ w = Cardinality(Work)
    BY <2>2, <2>5, <2>6
  <2>8. Cardinality(Pending) = k + 1 /\ v =< w + MaxCheck
    BY <2>5, <2>6, <2>7
  <2>9. /\ MaxCheck * (k + 1) = MaxCheck * k + MaxCheck
        /\ MaxCheck * k \in Nat
    BY TimesNat
  <2>10. Load = MaxCheck * (k + 1) + w /\ Load' = MaxCheck * k + v
    BY <2>7, <2>8 DEF Load
  <2> QED  BY <2>8, <2>9, <2>10
<1>6. \A n \in Int : EndsWithin(n) => EndsWithin(n)'
  BY <1>3, <1>4, <1>5, EndsKept
<1>7. (Pending \cup running)' = Pending \cup running
  BY <1>1, <1>3
<1> QED  BY <1>2, <1>6, <1>7

\* A check ends: its work is done.
LEMMA CheckLeavesRest ==
  ASSUME IsFiniteSet(Relays), SweepInv, SweepInv', NEW r \in Relays, CheckEnds(r)
  PROVE  /\ Pending' = Pending /\ running' = running \ {r} /\ sweep'.pc = sweep.pc
         /\ \A n \in Int : EndsWithin(n) => EndsWithin(n)'
<1> USE SweepAssumption
<1>1. /\ UNCHANGED sweep /\ running' = running \ {r}
      /\ took' = [took EXCEPT !["sweep"][r] = 0]
  BY DEF CheckEnds
<1>2. Pending' = Pending /\ StartsLeft' = StartsLeft /\ StartsLeft \in Nat
  BY <1>1, SweepSizes DEF Pending, StartsLeft
<1>3. \A q \in running' : q \in running /\ took'["sweep"][q] = took["sweep"][q]
  BY <1>1, SweepFacts
<1>4. Work' \in SUBSET Work
  BY <1>1, <1>3 DEF Work
<1>5. IsFiniteSet(Work) /\ Cardinality(Work) \in Nat /\ Cardinality(Pending) \in Nat
  BY SweepSizes
<1>6. Cardinality(Work') \in Nat /\ Cardinality(Work') =< Cardinality(Work)
  BY <1>4, <1>5, FS_Subset, FS_CardinalityType
<1>7. Load' =< Load /\ Load' \in Nat
  <2>1. MaxCheck * Cardinality(Pending) \in Nat
    BY <1>5, TimesNat
  <2>2. Load' = MaxCheck * Cardinality(Pending) + Cardinality(Work')
    BY <1>2 DEF Load
  <2>3. Load = MaxCheck * Cardinality(Pending) + Cardinality(Work)
    BY DEF Load
  <2> QED  BY <1>5, <1>6, <2>1, <2>2, <2>3
<1>8. \A n \in Int : EndsWithin(n) => EndsWithin(n)'
  BY <1>2, <1>3, <1>7, EndsKept
<1> QED  BY <1>1, <1>2, <1>8

\* A unit of time passes in each check: so much less work is left.
LEMMA TimeWorks ==
  ASSUME SweepInv, IsFiniteSet(Work), TimePasses
  PROVE  /\ IsFiniteSet(Work') /\ Cardinality(Work') \in Nat
         /\ Cardinality(Work') + Cardinality(running) =< Cardinality(Work)
         /\ \A q \in running : took'["sweep"][q] = took["sweep"][q] + 1
<1> USE SweepAssumption
<1> DEFINE Hit == {w \in Work : w[2] = took["sweep"][w[1]]}
           hit == [q \in running |-> <<q, took["sweep"][q]>>]
<1>1. /\ UNCHANGED running
      /\ \A q \in running : took["sweep"][q] < MaxCheck
      /\ \A q \in running : took'["sweep"][q] = took["sweep"][q] + 1
  BY SweepFacts DEF TimePasses
<1>2. \A q \in running : took["sweep"][q] \in 0..(MaxCheck - 1)
  BY <1>1, SweepFacts
<1>3. hit \in Bijection(running, Hit)
  <2>1. hit \in [running -> Hit]
    BY <1>2 DEF Work
  <2>2. \A p, q \in running : hit[p] = hit[q] => p = q
    OBVIOUS
  <2>3. \A w \in Hit : \E q \in running : hit[q] = w
    <3> TAKE w \in Hit
    <3>1. w[1] \in running /\ w = <<w[1], w[2]>>
      BY DEF Work
    <3>2. hit[w[1]] = w
      BY <3>1
    <3> QED  BY <3>1, <3>2
  <2> HIDE DEF hit, Hit
  <2> QED  BY <2>1, <2>2, <2>3 DEF Bijection, Injection, Surjection, IsInjective
<1>4. IsFiniteSet(Hit) /\ Cardinality(Hit) = Cardinality(running)
  <2> HIDE DEF hit, Hit
  <2>1. ExistsBijection(running, Hit)
    BY <1>3 DEF ExistsBijection
  <2> QED  BY <2>1, SweepFacts, FS_Bijection
<1>5. Work' \subseteq Work \ Hit
  <2> SUFFICES ASSUME NEW w \in Work' PROVE w \in Work /\ w[2] # took["sweep"][w[1]]
    OBVIOUS
  <2>1. w \in running \X (0..(MaxCheck - 1)) /\ w[2] >= took["sweep"][w[1]] + 1
    BY <1>1 DEF Work
  <2>2. w[1] \in running /\ took["sweep"][w[1]] \in Nat /\ w[2] \in Nat
    BY <1>2, <2>1
  <2> QED  BY <2>1, <2>2 DEF Work
<1>6. /\ IsFiniteSet(Work \ Hit)
      /\ Cardinality(Work \ Hit) = Cardinality(Work) - Cardinality(Hit)
  <2>1. Work \cap Hit = Hit
    OBVIOUS
  <2> HIDE DEF hit, Hit
  <2> QED  BY <2>1, FS_Difference
<1> HIDE DEF hit, Hit
<1>7. /\ IsFiniteSet(Work') /\ Cardinality(Work') =< Cardinality(Work \ Hit)
      /\ Cardinality(Work') \in Nat /\ Cardinality(Work \ Hit) \in Nat
  <2>1. Work' \in SUBSET (Work \ Hit)
    BY <1>5
  <2> QED  BY <1>6, <2>1, FS_Subset, FS_CardinalityType
<1>8. Cardinality(Work) \in Nat /\ Cardinality(running) \in Nat
  BY SweepFacts, FS_CardinalityType
<1> QED  BY <1>1, <1>4, <1>6, <1>7, <1>8

\* Time that passes in a sweep brings its end nearer: while a goroutine waits, all
\* the places of the semaphore are held; while one is to be started, the delay runs;
\* after that the last checks run.
LEMMA TimeEnds ==
  ASSUME IsFiniteSet(Relays), SweepInv, SweepInv', TimePasses, sweep.pc = "sweep",
         NEW n \in Int, EndsWithin(n)
  PROVE  EndsWithin(n - 1)'
<1> USE SweepAssumption
<1>1. PICK m \in 0..MaxCheck : /\ \A q \in running : took["sweep"][q] + m >= MaxCheck
                               /\ Pending # {} => m = MaxCheck
                               /\ Slots * n >= Slots * (StartsLeft + m) + Load
  BY DEF EndsWithin
<1>2. /\ UNCHANGED running
      /\ sweep' = [sweep EXCEPT !.gap = IF @ < Stagger THEN @ + 1 ELSE @]
      /\ \A q \in running : took["sweep"][q] < MaxCheck
      /\ sweep.waiting # {} => Cardinality(running) >= Slots
      /\ sweep.todo # {} => sweep.gap < Stagger
      /\ sweep.todo \cup sweep.waiting \cup running # {}
  BY DEF TimePasses, Waits
<1>3. /\ sweep'.todo = sweep.todo /\ sweep'.waiting = sweep.waiting
      /\ sweep.gap \in 0..Stagger
      /\ sweep'.gap = IF sweep.gap < Stagger THEN sweep.gap + 1 ELSE sweep.gap
  BY <1>2, SweepFacts DEF Sweep
<1>4. Pending' = Pending /\ Slots \in Nat \ {0}
  BY <1>3 DEF Pending
<1>5. PICK p \in Nat, u \in Nat, v \in Nat, c \in Nat, s \in Nat :
        /\ p = MaxCheck * Cardinality(Pending) /\ u = Cardinality(Work)
        /\ v = Cardinality(Work') /\ c = Cardinality(running) /\ s = StartsLeft
  BY SweepSizes, SweepFacts, TimeWorks, TimesNat, FS_CardinalityType
<1>6. v + c =< u /\ Load = p + u /\ Load' = p + v
  BY <1>4, <1>5, SweepSizes, TimeWorks DEF Load
<1>7. \A q \in running : /\ took'["sweep"][q] = took["sweep"][q] + 1
                         /\ took["sweep"][q] \in Nat
  BY SweepSizes, SweepFacts, TimeWorks
<1>8. Slots * n \in Int /\ Slots * (n - 1) = Slots * n - Slots
  BY <1>4
<1>9. PICK t \in Nat : t = StartsLeft' /\ t =< s /\ (sweep.todo # {} => t = s - 1)
  <2>1. CASE sweep.todo = {}
    BY <1>3, <1>5, <2>1 DEF StartsLeft
  <2>2. CASE sweep.todo # {}
    <3>1. PICK a \in Int : a = Stagger * Cardinality(sweep.todo)
      BY SweepSizes, TimesNat
    <3>2. s = a - sweep.gap /\ StartsLeft' = a - (sweep.gap + 1)
      BY <1>2, <1>3, <1>5, <2>2, <3>1 DEF StartsLeft
    <3>3. Stagger =< a
      <4>1. Cardinality(sweep.todo) \in Nat /\ 1 =< Cardinality(sweep.todo)
        BY <2>2, SweepSizes
      <4> QED  BY <3>1, <4>1, TimesMonotone
    <3> QED  BY <1>2, <1>3, <2>2, <3>2, <3>3
  <2> QED  BY <2>1, <2>2
<1>10. CASE sweep.waiting # {}
  <2>1. m = MaxCheck /\ c >= Slots
    BY <1>1, <1>2, <1>5, <1>10 DEF Pending
  <2>2. Slots * (n - 1) >= Slots * (s + m) + (p + v)
    <3>1. Slots * (s + m) \in Int
      BY <1>4
    <3> QED  BY <1>1, <1>4, <1>5, <1>6, <1>8, <2>1, <3>1
  <2>3. Slots * (n - 1) >= Slots * (t + m) + (p + v)
    BY <1>4, <1>9, <2>2, BoundKept
  <2>4. \A q \in running' : took'["sweep"][q] + m >= MaxCheck
    BY <1>2, <1>7, <2>1
  <2> QED  BY <1>6, <1>9, <2>1, <2>3, <2>4 DEF EndsWithin
<1>11. CASE sweep.waiting = {} /\ sweep.todo # {}
  <2>1. m = MaxCheck /\ t = s - 1
    BY <1>1, <1>9, <1>11 DEF Pending
  <2>2. Slots * (n - 1) >= Slots * (t + m) + (p + u)
    <3>1. Slots * (s + m) = Slots * (t + m) + Slots /\ Slots * (t + m) \in Int
      BY <1>4, <2>1
    <3> QED  BY <1>1, <1>4, <1>5, <1>6, <1>8, <3>1
  <2>3. Slots * (n - 1) >= Slots * (t + m) + (p + v)
    BY <1>6, <2>2, BoundKept, <1>4
  <2>4. \A q \in running' : took'["sweep"][q] + m >= MaxCheck
    BY <1>2, <1>7, <2>1
  <2> QED  BY <1>6, <1>9, <2>1, <2>3, <2>4 DEF EndsWithin
<1>12. CASE sweep.waiting = {} /\ sweep.todo = {}
  <2>1. PICK q \in running : took["sweep"][q] < MaxCheck /\ took["sweep"][q] + m >= MaxCheck
    BY <1>1, <1>2, <1>12
  <2>2. m - 1 \in 0..MaxCheck
    BY <1>7, <2>1
  <2>3. Slots * (n - 1) >= Slots * (s + (m - 1)) + (p + u)
    <3>1. Slots * (s + m) = Slots * (s + (m - 1)) + Slots /\ Slots * (s + (m - 1)) \in Int
      BY <1>4
    <3> QED  BY <1>1, <1>4, <1>5, <1>6, <1>8, <3>1
  <2>4. Slots * (n - 1) >= Slots * (t + (m - 1)) + (p + v)
    BY <1>4, <1>6, <1>9, <2>2, <2>3, BoundKept
  <2>5. \A x \in running' : took'["sweep"][x] + (m - 1) >= MaxCheck
    BY <1>1, <1>2, <1>7
  <2>6. Pending' = {}
    BY <1>4, <1>12 DEF Pending
  <2> QED  BY <1>6, <1>9, <2>2, <2>4, <2>5, <2>6 DEF EndsWithin
<1> QED  BY <1>10, <1>11, <1>12

\* A sweep that begins is over within D.
LEMMA SweepBegins ==
  ASSUME IsFiniteSet(Relays), SweepInv, SweepInv', BeginSweep, NEW D \in Nat, SweepsTake(D)
  PROVE  EndsWithin(D)'
<1> USE SweepAssumption
<1>1. PICK todo \in SUBSET Relays :
        sweep' = [IdleSweep EXCEPT !.pc = "sweep", !.todo = todo]
  BY SweepChooses DEF Chosen
<1>2. sweep' = [pc |-> "sweep", todo |-> todo, waiting |-> {}, gap |-> Stagger]
  BY <1>1 DEF IdleSweep
<1>3. running' = {}
  BY SweepFacts DEF BeginSweep
<1>4. Pending' = todo /\ Work' = {}
  BY <1>2, <1>3 DEF Pending, Work
<1>5. PICK k \in Nat, c \in Nat : /\ k = Cardinality(todo) /\ c = Cardinality(Relays)
                                  /\ k =< c /\ IsFiniteSet(todo)
  BY FS_Subset, FS_CardinalityType
<1>6. Load' = MaxCheck * k
  <2>1. MaxCheck * k \in Nat
    BY TimesNat
  <2> QED  BY <1>4, <1>5, <2>1, FS_EmptySet DEF Load
<1>7. PICK s \in Nat : s = StartsLeft' /\ s =< Stagger * c
  <2>1. Stagger * k =< Stagger * c /\ Stagger * k \in Nat /\ Stagger * c \in Nat
    BY <1>5, TimesMonotone, TimesNat
  <2>2. CASE todo = {}
    BY <1>2, <2>1, <2>2 DEF StartsLeft
  <2>3. CASE todo # {}
    <3>1. k # 0
      BY <1>5, <2>3, FS_EmptySet
    <3>2. Stagger * 1 =< Stagger * k
      BY <3>1, TimesMonotone
    <3>3. StartsLeft' = Stagger * k - Stagger
      BY <1>2, <1>5, <2>3 DEF StartsLeft
    <3> QED  BY <2>1, <3>2, <3>3
  <2> QED  BY <2>2, <2>3
<1>8. Slots * D >= Slots * (s + MaxCheck) + MaxCheck * k
  <2>1. PICK a \in Nat, b \in Nat, d \in Nat :
          a = Stagger * c /\ b = MaxCheck * c /\ d = MaxCheck * k
    BY TimesNat
  <2>2. d =< b /\ s =< a
    BY <1>5, <1>7, <2>1, TimesMonotone
  <2>3. Slots * D >= Slots * (a + MaxCheck) + b
    BY <1>5, <2>1 DEF SweepsTake
  <2>4. Slots * D >= Slots * (s + MaxCheck) + d
    BY <2>2, <2>3, BoundKept
  <2> QED  BY <2>1, <2>4
<1> QED  BY <1>3, <1>6, <1>7, <1>8 DEF EndsWithin

----------------------------------------------------------------------------
(* A relay that answers stays cached *)

Steady(r) == Outcomes[r] = {"ok"}

Swept(r) == r \in Pending \cup running

\* A URL of the host is checked in this sweep or is to be.
Active(h) == \E q \in Pending \cup running : Host[q] = h

\* The sweep skips the host.
Failing(h) == dns[h] # None /\ dns[h].type # "success" /\ dns[h].left >= 0

\* No failure of a host of a steady relay is kept for more than F.
FailuresLast(F) ==
  /\ ErrorTTL =< F /\ MaxBackoff =< F
  /\ \A r, q \in Relays :
       Steady(r) /\ Host[q] = Host[r] /\ "no such host" \in Outcomes[q] => NXDomainTTL =< F

\* A relay is checked within time n: in this sweep; or after the failure that another
\* URL of its host may still leave behind, which lasts until some sweep, which skips
\* the host, and a tick and a sweep more; or after the failure that is kept, in the
\* same way; or in the next sweep.
InThisSweep(r, n) == Swept(r) /\ EndsWithin(n)

AfterItsHost(r, n, D, F) ==
  ~Swept(r) /\ Active(Host[r]) /\ EndsWithin(n - (F + 1 + 2 * D + Interval))

AfterFailure(r, n, D) ==
  /\ ~Active(Host[r]) /\ Failing(Host[r])
  /\ n >= dns[Host[r]].left + 1 + 2 * D + Interval

InNextSweep(r, n, D) ==
  /\ sweep.pc = "sweep" /\ ~Active(Host[r]) /\ ~Failing(Host[r])
  /\ EndsWithin(n - (Interval + D))

AtNextTick(r, n, D) ==
  /\ sweep.pc = "idle" /\ ~Failing(Host[r])
  /\ n >= D + (IF ticker.due THEN 0 ELSE ticker.left)

CheckedWithin(r, n, D, F) ==
  \/ InThisSweep(r, n) \/ AfterItsHost(r, n, D, F) \/ AfterFailure(r, n, D)
  \/ InNextSweep(r, n, D) \/ AtNextTick(r, n, D)

SweepOnTime(D) == sweep.pc = "sweep" => EndsWithin(D)

CheckedAreKnown ==
  /\ \A r \in Relays : entries[r] > 0 => r \in knownRelays
  /\ Pending \cup running \cup early \subseteq knownRelays

FailuresPass(F) ==
  \A r \in Relays : Steady(r) /\ Failing(Host[r]) => dns[Host[r]].left =< F

\* What is set aside for the sweeps that may yet pass the relay over: another of its
\* host's URLs may fail anew in each, at the end of the sweep.
Reserve(r, D, F) == (MaxPassed - passed[r]) * (D + F)

\* A steady relay is checked again before its entry expires.
CheckedInTime(D, F) ==
  \A r \in Relays :
    Steady(r) /\ entries[r] > 0 /\ passed[r] =< MaxPassed =>
      CheckedWithin(r, entries[r] - 1 - Reserve(r, D, F), D, F)

KeptInv(D, F) ==
  SweepInv /\ SweepOnTime(D) /\ CheckedAreKnown /\ FailuresPass(F) /\ CheckedInTime(D, F)

\* What the next lemmas use of a relay and its host.
LEMMA FailureLeft ==
  ASSUME SweepInv, NEW r \in Relays
  PROVE  /\ Failing(Host[r]) => dns[Host[r]].left \in Nat /\ IsResult(dns[Host[r]])
         /\ sweep.pc \in {"idle", "sweep"}
         /\ sweep.pc = "idle" => ~Active(Host[r])
         /\ Swept(r) => Active(Host[r])
         /\ ticker.left \in 1..Interval /\ ticker.due \in BOOLEAN
         /\ Host[r] \in Hosts
  BY SweepAssumption, SweepFacts DEF Failing, SweepInv, TypeOK, IsResult, Sweep, Active, Swept

\* Wherever a relay's check ends, its next one comes within the longest time.
LEMMA CheckedAfresh ==
  IsFiniteSet(Relays) /\ SweepInv =>
    \A r \in Relays, D, F, n \in Nat :
      /\ SweepOnTime(D) /\ (Failing(Host[r]) => dns[Host[r]].left =< F)
      /\ n >= 3 * D + F + 1 + Interval
      => CheckedWithin(r, n, D, F)
<1> SUFFICES ASSUME IsFiniteSet(Relays), SweepInv,
                    NEW r \in Relays, NEW D \in Nat, NEW F \in Nat, NEW n \in Nat,
                    SweepOnTime(D), Failing(Host[r]) => dns[Host[r]].left =< F,
                    n >= 3 * D + F + 1 + Interval
             PROVE  CheckedWithin(r, n, D, F)
  OBVIOUS
<1>1. Interval \in Nat
  BY SweepAssumption
<1>2. CASE Failing(Host[r]) /\ ~Active(Host[r])
  BY <1>1, <1>2, FailureLeft DEF CheckedWithin, AfterFailure
<1>3. CASE sweep.pc = "idle"
  <2>1. CASE ~Failing(Host[r])
    BY <1>1, <1>3, <2>1, FailureLeft DEF CheckedWithin, AtNextTick
  <2> QED  BY <1>2, <1>3, <2>1, FailureLeft
<1>4. CASE sweep.pc = "sweep" /\ ~(Failing(Host[r]) /\ ~Active(Host[r]))
  <2>1. EndsWithin(D)
    BY <1>4 DEF SweepOnTime
  <2>2. \A k \in Int : D =< k => EndsWithin(k)
    BY <2>1, EndsMonotone
  <2>3. EndsWithin(n) /\ EndsWithin(n - (F + 1 + 2 * D + Interval))
        /\ EndsWithin(n - (Interval + D))
    BY <1>1, <2>2
  <2> QED
    BY <1>4, <2>3 DEF CheckedWithin, InThisSweep, AfterItsHost, InNextSweep
<1> QED  BY <1>2, <1>3, <1>4, FailureLeft

\* A step that concerns neither the relay nor its host leaves it its time.
LEMMA CheckedAsBefore ==
  ASSUME NEW r \in Relays, NEW D \in Nat, NEW F \in Nat, NEW n \in Int,
         CheckedWithin(r, n, D, F),
         UNCHANGED <<sweep.pc, ticker, dns[Host[r]]>>,
         Swept(r)' <=> Swept(r), Active(Host[r])' <=> Active(Host[r]),
         \A k \in Int : EndsWithin(k) => EndsWithin(k)'
  PROVE  CheckedWithin(r, n, D, F)'
<1>1. Failing(Host[r])' <=> Failing(Host[r])
  BY DEF Failing
<1>2. /\ n - (F + 1 + 2 * D + Interval) \in Int /\ n - (Interval + D) \in Int
  BY SweepAssumption
<1> QED
  BY <1>1, <1>2
  DEF CheckedWithin, InThisSweep, AfterItsHost, AfterFailure, InNextSweep, AtNextTick

\* What the steps that are not of the sweep leave as it is.
LEMMA RestEnds ==
  ASSUME SweepInv, UNCHANGED <<sweep, running>>, took'["sweep"] = took["sweep"]
  PROVE  Pending' = Pending /\ \A n \in Int : EndsWithin(n) => EndsWithin(n)'
<1>1. Pending' = Pending /\ StartsLeft' = StartsLeft /\ Work' = Work
  BY DEF Pending, StartsLeft, Work
<1>2. Load' = Load
  BY <1>1 DEF Load
<1> QED  BY <1>1, <1>2 DEF EndsWithin

\* EndsMonotone of the state after a step.
LEMMA EndsMonotoneNext ==
  ASSUME IsFiniteSet(Relays), SweepInv'
  PROVE  \A n, k \in Int : EndsWithin(n)' => n \in Nat /\ (n =< k => EndsWithin(k)')
<1>1. (IsFiniteSet(Relays) /\ SweepInv =>
         \A n, k \in Int : EndsWithin(n) => n \in Nat /\ (n =< k => EndsWithin(k)))'
  BY EndsMonotone, PTL
<1> QED  BY <1>1

\* A sweep ends in time, as each of its steps leaves it no more than the time left.
LEMMA OnTimeStep ==
  ASSUME IsFiniteSet(Relays), SweepInv, SweepInv', NEW D \in Nat, SweepsTake(D),
         SweepOnTime(D), [Next]_vars
  PROVE  SweepOnTime(D)'
<1>0. /\ D \in Int /\ D - 1 \in Int /\ D - 1 =< D
      /\ sweep.pc \in {"idle", "sweep"}
  BY SweepFacts DEF Sweep
<1>1. CASE BeginSweep
  BY <1>1, SweepBegins DEF SweepOnTime
<1>2. ASSUME NEW r \in Relays, Launch(r) PROVE SweepOnTime(D)'
  BY <1>0, <1>2, LaunchEnds DEF SweepOnTime
<1>3. ASSUME NEW r \in Relays, Acquire(r) PROVE SweepOnTime(D)'
  BY <1>0, <1>3, AcquireEnds DEF SweepOnTime
<1>4. ASSUME NEW r \in Relays, CheckEnds(r) PROVE SweepOnTime(D)'
  BY <1>0, <1>4, CheckLeavesRest DEF SweepOnTime
<1>5. CASE EndSweep
  BY <1>5 DEF EndSweep, IdleSweep, SweepOnTime
<1>6. ASSUME NEW r \in Relays, EarlyCheckEnds(r) \/ Discovered(r) PROVE SweepOnTime(D)'
  <2>1. UNCHANGED <<sweep, running>> /\ took'["sweep"] = took["sweep"]
    BY <1>6, SweepFacts DEF EarlyCheckEnds, Discovered
  <2> QED  BY <1>0, <2>1, RestEnds DEF SweepOnTime
<1>7. CASE TimePasses
  <2>1. sweep'.pc = sweep.pc
    BY <1>7, SweepFacts DEF TimePasses, Sweep
  <2>2. CASE sweep.pc = "sweep"
    <3>1. EndsWithin(D - 1)'
      BY <1>0, <1>7, <2>2, TimeEnds DEF SweepOnTime
    <3> QED  BY <1>0, <3>1, EndsMonotoneNext DEF SweepOnTime
  <2> QED  BY <1>0, <2>1, <2>2 DEF SweepOnTime
<1>8. CASE UNCHANGED vars
  <2>1. UNCHANGED <<sweep, running>> /\ took'["sweep"] = took["sweep"]
    BY <1>8 DEF vars
  <2> QED  BY <1>0, <2>1, RestEnds DEF SweepOnTime
<1> QED
  BY <1>1, <1>2, <1>3, <1>4, <1>5, <1>6, <1>7, <1>8 DEF Next, SweepStep

\* What is checked, or was, is known: no relay is forgotten.
LEMMA KnownStep ==
  ASSUME SweepInv, CheckedAreKnown, [Next]_vars
  PROVE  CheckedAreKnown'
<1>0. /\ entries \in [Relays -> 0..EntryTTL] /\ sweep \in Sweep
      /\ \A r \in Relays : entries[r] > 0 => r \in knownRelays
      /\ Pending \cup running \cup early \subseteq knownRelays
  BY SweepFacts DEF SweepInv, TypeOK, CheckedAreKnown
<1>1. CASE BeginSweep
  <2>1. PICK todo \in SUBSET knownRelays :
          sweep' = [IdleSweep EXCEPT !.pc = "sweep", !.todo = todo]
    BY <1>1, SweepChooses DEF Chosen
  <2>2. sweep'.todo = todo /\ sweep'.waiting = {}
    BY <2>1 DEF IdleSweep
  <2>3. UNCHANGED <<knownRelays, running, early, entries>>
    BY <1>1 DEF BeginSweep
  <2> QED  BY <1>0, <2>2, <2>3 DEF CheckedAreKnown, Pending
<1>2. ASSUME NEW r \in Relays, Launch(r) PROVE CheckedAreKnown'
  <2>1. /\ sweep'.todo = sweep.todo \ {r} /\ sweep'.waiting = sweep.waiting \cup {r}
        /\ r \in sweep.todo /\ UNCHANGED <<knownRelays, running, early, entries>>
    BY <1>0, <1>2 DEF Launch, Sweep
  <2>2. Pending' = Pending
    BY <2>1 DEF Pending
  <2> QED  BY <1>0, <2>1, <2>2 DEF CheckedAreKnown
<1>3. ASSUME NEW r \in Relays, Acquire(r) PROVE CheckedAreKnown'
  <2>1. /\ sweep'.todo = sweep.todo /\ sweep'.waiting = sweep.waiting \ {r}
        /\ r \in sweep.waiting /\ running' = running \cup {r}
        /\ UNCHANGED <<knownRelays, early, entries>>
    BY <1>0, <1>3 DEF Acquire, Sweep
  <2> QED  BY <1>0, <2>1 DEF CheckedAreKnown, Pending
<1>4. ASSUME NEW r \in Relays, CheckEnds(r) PROVE CheckedAreKnown'
  <2>1. /\ UNCHANGED <<sweep, knownRelays, early>> /\ running' = running \ {r}
        /\ r \in running /\ entries' = [entries EXCEPT ![r] = EntryTTL]
    BY <1>4 DEF CheckEnds
  <2> QED  BY <1>0, <2>1 DEF CheckedAreKnown, Pending
<1>5. CASE EndSweep
  BY <1>0, <1>5 DEF EndSweep, IdleSweep, CheckedAreKnown, Pending
<1>6. ASSUME NEW r \in Relays, EarlyCheckEnds(r) PROVE CheckedAreKnown'
  <2>1. /\ UNCHANGED <<sweep, knownRelays, running>> /\ early' = early \ {r}
        /\ r \in early /\ entries' = [entries EXCEPT ![r] = EntryTTL]
    BY <1>6 DEF EarlyCheckEnds
  <2> QED  BY <1>0, <2>1 DEF CheckedAreKnown, Pending
<1>7. ASSUME NEW r \in Relays, Discovered(r) PROVE CheckedAreKnown'
  BY <1>0, <1>7 DEF Discovered, CheckedAreKnown, Pending
<1>8. CASE TimePasses
  <2>1. UNCHANGED <<sweep.todo, sweep.waiting, running, early, knownRelays>>
    BY <1>0, <1>8 DEF TimePasses, Sweep
  <2>2. \A r \in Relays : entries'[r] > 0 => entries[r] > 0
    BY <1>0, <1>8 DEF TimePasses
  <2> QED  BY <1>0, <2>1, <2>2 DEF CheckedAreKnown, Pending
<1>9. CASE UNCHANGED vars
  BY <1>9 DEF vars, CheckedAreKnown, Pending
<1> QED
  BY <1>1, <1>2, <1>3, <1>4, <1>5, <1>6, <1>7, <1>8, <1>9 DEF Next, SweepStep

\* A result that is kept, cleaned up or aged lasts no longer than those that are new.
LEMMA FailureBounds ==
  ASSUME NEW F \in Nat, ErrorTTL =< F, MaxBackoff =< F, NEW result, ResultOrNone(result),
         result # None /\ result.type # "success" /\ result.left >= 0 => result.left =< F
  PROVE  /\ LET new == Older(result)
            IN  new # None /\ new.type # "success" /\ new.left >= 0 => new.left =< F
         /\ LET new == Cleanup(result)
            IN  new # None /\ new.type # "success" /\ new.left >= 0 => new.left =< F
         /\ \A outcome \in CheckOutcomes :
              (outcome = "no such host" => NXDomainTTL =< F) =>
                LET new == Keep(result, outcome)
                IN  new # None /\ new.type # "success" /\ new.left >= 0 => new.left =< F
<1> USE DNSCacheAssumption
<1> DEFINE Short(new) == new # None /\ new.type # "success" /\ new.left >= 0 => new.left =< F
<1>1. Short(Older(result))
  BY DEF Older, ResultOrNone, IsResult
<1>2. Short(Cleanup(result))
  BY DEF Cleanup
<1>3. ASSUME NEW outcome \in CheckOutcomes, outcome = "no such host" => NXDomainTTL =< F
      PROVE  Short(Keep(result, outcome))
  <2>1. Fresh("success", SuccessTTL, 0).type = "success"
    BY DEF Fresh
  <2>2. outcome = "no such host" => Fresh("nxdomain", NXDomainTTL, 0).left =< F
    <3>1. Fresh("nxdomain", NXDomainTTL, 0).left = NXDomainTTL
      BY DEF Fresh
    <3> QED  BY <1>3, <3>1
  <2>3. Fresh("error", ErrorTTL, 0).left =< F
    BY DEF Fresh
  <2>4. SetTimeout(result).left =< F
    <3>1. PICK count \in Nat : SetTimeout(result) = Fresh("timeout", timeoutBackoff(count), count)
      BY DEF SetTimeout, ResultOrNone, IsResult
    <3>2. timeoutBackoff(count) \in Int /\ timeoutBackoff(count) =< F
      BY timeoutBackoffType
    <3> QED  BY <3>1, <3>2 DEF Fresh
  <2> QED  BY <2>1, <2>2, <2>3, <2>4 DEF Keep, CheckOutcomes
<1> QED  BY <1>1, <1>2, <1>3

\* No step keeps a failure of a steady relay's host for more than F.
LEMMA FailuresStep ==
  ASSUME SweepInv, NEW F \in Nat, FailuresLast(F), FailuresPass(F), [Next]_vars
  PROVE  FailuresPass(F)'
<1> SUFFICES ASSUME NEW r \in Relays, Steady(r), Failing(Host[r])'
             PROVE  dns'[Host[r]].left =< F
  BY DEF FailuresPass, Steady
<1> DEFINE h == Host[r]
<1>1. /\ h \in Hosts /\ DOMAIN dns = Hosts /\ ResultOrNone(dns[h])
      /\ dns[h] # None /\ dns[h].type # "success" /\ dns[h].left >= 0 => dns[h].left =< F
      /\ ErrorTTL =< F /\ MaxBackoff =< F
  BY SweepAssumption DEF SweepInv, TypeOK, ResultOrNone, FailuresPass, Failing, FailuresLast
<1>2. CASE dns'[h] = dns[h]
  BY <1>1, <1>2 DEF Failing
<1>3. CASE dns'[h] = Older(dns[h]) \/ dns'[h] = Cleanup(dns[h])
  BY <1>1, <1>3, FailureBounds DEF Failing
<1>4. ASSUME NEW q \in Relays, CheckEnds(q)
      PROVE  dns'[h].left =< F
  <2>1. PICK outcome \in Outcomes[q] : dns' = [dns EXCEPT ![Host[q]] = Keep(@, outcome)]
    BY <1>4 DEF CheckEnds
  <2>2. CASE Host[q] = h
    <3>1. dns'[h] = Keep(dns[h], outcome) /\ outcome \in CheckOutcomes
      BY <1>1, <2>1, <2>2, SweepAssumption
    <3>2. outcome = "no such host" => NXDomainTTL =< F
      BY <2>2 DEF FailuresLast
    <3> QED  BY <1>1, <3>1, <3>2, FailureBounds DEF Failing
  <2>3. CASE Host[q] # h
    BY <1>1, <1>2, <2>1, <2>3
  <2> QED  BY <2>2, <2>3
<1>5. CASE BeginSweep \/ TimePasses
  <2>1. dns'[h] = Older(dns[h]) \/ dns'[h] = Cleanup(dns[h])
    BY <1>1, <1>5, SweepChooses DEF Chosen, TimePasses
  <2> QED  BY <1>3, <2>1
<1>6. CASE UNCHANGED dns
  BY <1>2, <1>6
<1>7. CASE \/ EndSweep \/ UNCHANGED vars
           \/ \E q \in Relays : Launch(q) \/ Acquire(q) \/ EarlyCheckEnds(q) \/ Discovered(q)
  BY <1>6, <1>7 DEF EndSweep, vars, Launch, Acquire, EarlyCheckEnds, Discovered
<1> QED
  BY <1>4, <1>5, <1>7 DEF Next, SweepStep

\* Between one step and the next, the hosts with a URL in the sweep are the same.
LEMMA SameRelays ==
  ASSUME Pending' = Pending, running' = running, NEW r \in Relays
  PROVE  (Swept(r)' <=> Swept(r)) /\ (Active(Host[r])' <=> Active(Host[r]))
  BY DEF Swept, Active

\* A unit of time brings a relay's next check a unit nearer.
LEMMA CheckedSooner ==
  ASSUME IsFiniteSet(Relays), SweepInv, SweepInv', TimePasses,
         NEW D \in Nat, SweepOnTime(D)', NEW F \in Nat,
         NEW r \in Relays, NEW n \in Int, CheckedWithin(r, n, D, F)
  PROVE  n >= 1 /\ CheckedWithin(r, n - 1, D, F)'
<1> DEFINE h == Host[r]
<1>1. /\ Pending' = Pending /\ running' = running /\ sweep'.pc = sweep.pc
      /\ dns' = [g \in Hosts |-> Older(dns[g])]
      /\ sweep.pc = "idle" => ~ticker.due
      /\ ticker' = IF ticker.left = 1 THEN [left |-> Interval, due |-> TRUE]
                                      ELSE [ticker EXCEPT !.left = @ - 1]
  <2>1. /\ sweep'.todo = sweep.todo /\ sweep'.waiting = sweep.waiting
        /\ sweep'.pc = sweep.pc
    BY SweepFacts DEF TimePasses, Sweep
  <2> QED  BY <2>1 DEF TimePasses, Waits, Pending
<1>2. (Swept(r)' <=> Swept(r)) /\ (Active(h)' <=> Active(h))
  BY <1>1, SameRelays
<1>3. /\ h \in Hosts /\ Interval \in Nat /\ sweep.pc \in {"idle", "sweep"}
      /\ ticker \in [left : 1..Interval, due : BOOLEAN]
      /\ dns'[h] = Older(dns[h]) /\ (dns[h] # None => IsResult(dns[h]))
  BY <1>1, SweepAssumption, SweepFacts DEF SweepInv, TypeOK, Sweep
<1>4. ~Failing(h) => ~Failing(h)'
  BY <1>3 DEF Failing, Older, IsResult
<1>5. \A k, l \in Int : EndsWithin(k)' => k \in Nat /\ (k =< l => EndsWithin(l)')
  BY EndsMonotoneNext
<1>6. sweep.pc = "sweep" => \A k \in Int : EndsWithin(k) => EndsWithin(k - 1)' /\ k - 1 \in Nat
  BY <1>5, TimeEnds
<1>7. CASE InThisSweep(r, n)
  <2>1. sweep.pc = "sweep"
    BY <1>3, <1>7, SweepFacts DEF InThisSweep, Swept
  <2> QED  BY <1>2, <1>6, <1>7, <2>1 DEF InThisSweep, CheckedWithin
<1>8. CASE AfterItsHost(r, n, D, F)
  <2>1. sweep.pc = "sweep"
    BY <1>3, <1>8, FailureLeft DEF AfterItsHost
  <2>2. PICK k \in Int : k = n - (F + 1 + 2 * D + Interval)
    BY <1>3
  <2>3. EndsWithin(k - 1)' /\ k - 1 \in Nat /\ k - 1 = (n - 1) - (F + 1 + 2 * D + Interval)
    BY <1>3, <1>6, <1>8, <2>1, <2>2 DEF AfterItsHost
  <2>4. n >= 1
    BY <1>3, <2>2, <2>3
  <2> QED  BY <1>2, <1>8, <2>3, <2>4 DEF AfterItsHost, CheckedWithin
<1>9. CASE InNextSweep(r, n, D)
  <2>1. PICK k \in Int : k = n - (Interval + D)
    BY <1>3
  <2>2. EndsWithin(k - 1)' /\ k - 1 \in Nat /\ k - 1 = (n - 1) - (Interval + D)
    BY <1>3, <1>6, <1>9, <2>1 DEF InNextSweep
  <2>3. n >= 1
    BY <1>3, <2>1, <2>2
  <2> QED  BY <1>1, <1>2, <1>4, <1>9, <2>2, <2>3 DEF InNextSweep, CheckedWithin
<1>10. CASE AtNextTick(r, n, D)
  <2>1. sweep.pc = "idle" /\ ~ticker.due /\ n >= D + ticker.left
    BY <1>1, <1>3, <1>10 DEF AtNextTick
  <2>2. n - 1 >= D + (IF ticker'.due THEN 0 ELSE ticker'.left)
    BY <1>1, <1>3, <2>1
  <2>3. n >= 1
    BY <1>3, <2>1
  <2> QED  BY <1>1, <1>4, <1>10, <2>1, <2>2, <2>3 DEF AtNextTick, CheckedWithin
<1>11. CASE AfterFailure(r, n, D)
  <2>1. PICK left \in Nat : left = dns[h].left /\ n >= left + 1 + 2 * D + Interval
    BY <1>11, FailureLeft DEF AfterFailure
  <2>2. dns[h] # None /\ IsResult(dns[h]) /\ dns[h].type # "success"
    BY <1>11, FailureLeft DEF AfterFailure, Failing
  <2>3. ~Active(h)' /\ n >= 1
    BY <1>2, <1>3, <1>11, <2>1 DEF AfterFailure
  <2>4. dns'[h] = [dns[h] EXCEPT !.left = left - 1]
    BY <1>3, <2>1, <2>2 DEF Older
  <2>5. dns'[h].left = left - 1 /\ dns'[h].type = dns[h].type
    BY <2>2, <2>4 DEF IsResult
  <2>6. CASE Failing(h)'
    BY <1>3, <2>1, <2>3, <2>5, <2>6 DEF AfterFailure, CheckedWithin
  <2>7. CASE ~Failing(h)' /\ sweep.pc = "sweep"
    <3>1. EndsWithin(D)'
      BY <1>1, <2>7 DEF SweepOnTime
    <3>2. PICK k \in Int : k = (n - 1) - (Interval + D)
      BY <1>3
    <3>3. D =< k
      BY <1>3, <2>1, <3>2
    <3>4. EndsWithin(k)'
      BY <1>5, <3>1, <3>3
    <3> QED  BY <1>1, <2>3, <2>7, <3>2, <3>4 DEF InNextSweep, CheckedWithin
  <2>8. CASE ~Failing(h)' /\ sweep.pc = "idle"
    <3>1. (IF ticker'.due THEN 0 ELSE ticker'.left) \in 0..Interval
      BY <1>1, <1>3
    <3>2. n - 1 >= D + (IF ticker'.due THEN 0 ELSE ticker'.left)
      BY <1>3, <2>1, <3>1
    <3> QED  BY <1>1, <2>3, <2>8, <3>2 DEF AtNextTick, CheckedWithin
  <2> QED  BY <1>3, <2>6, <2>7, <2>8
<1> QED
  BY <1>7, <1>8, <1>9, <1>10, <1>11 DEF CheckedWithin

\* A sweep that begins takes in a relay whose turn it is, and skips the host of one
\* whose turn comes after a failure.  It passes a relay over where that failure ends
\* before it comes to another URL of the host: then the next failure is waited for.
LEMMA BeginSweepChecked ==
  ASSUME IsFiniteSet(Relays), SweepInv, SweepInv', BeginSweep,
         NEW D \in Nat, SweepOnTime(D)', NEW F \in Nat,
         NEW r \in Relays, Valid(r), r \in knownRelays, passed[r] =< MaxPassed,
         NEW n \in Int, CheckedWithin(r, n, D, F)
  PROVE  \/ passed'[r] = passed[r] /\ CheckedWithin(r, n, D, F)'
         \/ passed'[r] = passed[r] + 1 /\ CheckedWithin(r, n + D + F, D, F)'
<1> DEFINE h == Host[r]
<1>1. PICK todo \in SUBSET Relays, late \in SUBSET Hosts : Chosen(todo, late)
  BY SweepChooses
<1>2. sweep'.pc = "sweep" /\ sweep'.todo = todo /\ sweep'.waiting = {}
  BY <1>1 DEF Chosen, IdleSweep
<1>3. /\ sweep.pc = "idle" /\ ticker.due /\ running' = {} /\ Pending = {} /\ running = {}
      /\ h \in Hosts /\ Interval \in Nat
  BY SweepFacts, SweepChooses, SweepAssumption
<1>4. Pending' = todo
  BY <1>2 DEF Pending
<1>5. passed'[r] = IF h \in late /\ r \notin todo THEN passed[r] + 1 ELSE passed[r]
  BY <1>1 DEF Chosen
<1>6. CASE AfterFailure(r, n, D)
  <2>1. PICK left \in Nat : left = dns[h].left /\ n >= left + 1 + 2 * D + Interval
    BY <1>6, FailureLeft DEF AfterFailure
  <2>2. EndsWithin(D)' /\ \A k \in Int : D =< k => EndsWithin(k)'
    BY <1>2, EndsMonotoneNext DEF SweepOnTime
  <2>3. CASE h \notin late
    <3>1. dns'[h] = dns[h] /\ Failing(h)' /\ ShouldSkip(dns[h])
      BY <1>1, <1>3, <1>6, <2>3, FailureLeft
      DEF Chosen, AfterFailure, Failing, Cleanup, Expired, ShouldSkip
    <3>2. ~Active(h)'
      BY <1>1, <1>3, <1>4, <2>3, <3>1 DEF Active, Chosen
    <3> QED  BY <1>5, <1>6, <2>3, <3>1, <3>2 DEF AfterFailure, CheckedWithin
  <2>4. CASE r \in todo
    <3>1. Swept(r)'
      BY <1>4, <2>4 DEF Swept
    <3>2. EndsWithin(n)'
      BY <1>3, <2>1, <2>2
    <3> QED  BY <1>5, <2>4, <3>1, <3>2 DEF InThisSweep, CheckedWithin
  <2>5. CASE h \in late /\ r \notin todo
    <3>1. ~Swept(r)' /\ Active(h)'
      BY <1>1, <1>3, <1>4, <2>5 DEF Swept, Active, Chosen
    <3>2. PICK m \in Int, k \in Int : m = n + D + F /\ k = m - (F + 1 + 2 * D + Interval)
      BY <1>3
    <3>3. D =< k
      BY <1>3, <2>1, <3>2
    <3>4. EndsWithin(k)'
      BY <2>2, <3>3
    <3>5. CheckedWithin(r, m, D, F)'
      BY <3>1, <3>2, <3>4 DEF AfterItsHost, CheckedWithin
    <3> QED  BY <1>5, <2>5, <3>2, <3>5
  <2> QED  BY <2>3, <2>4, <2>5
<1>7. CASE AtNextTick(r, n, D)
  <2>1. dns[h] # None => IsResult(dns[h])
    BY <1>3 DEF SweepInv, TypeOK
  <2>2. ~ShouldSkip(dns[h]) /\ h \notin late
    BY <1>1, <1>3, <1>7, <2>1
    DEF AtNextTick, Failing, Ending, Expired, ShouldSkip, IsResult, Chosen
  <2>3. Swept(r)'
    BY <1>1, <1>4, <2>2 DEF Swept, Chosen
  <2>4. EndsWithin(n)'
    BY <1>2, <1>3, <1>7, EndsMonotoneNext DEF SweepOnTime, AtNextTick
  <2> QED  BY <1>5, <2>2, <2>3, <2>4 DEF InThisSweep, CheckedWithin
<1> QED
  BY <1>3, <1>6, <1>7, FailureLeft
  DEF CheckedWithin, InThisSweep, AfterItsHost, InNextSweep

\* A sweep that ends leaves the tick to come and the sweep after it.
LEMMA EndSweepChecked ==
  ASSUME IsFiniteSet(Relays), SweepInv, EndSweep, NEW D \in Nat, NEW F \in Nat,
         NEW r \in Relays, NEW n \in Int, CheckedWithin(r, n, D, F)
  PROVE  CheckedWithin(r, n, D, F)'
<1> DEFINE h == Host[r]
<1>1. /\ Pending = {} /\ running = {} /\ Pending' = {} /\ running' = {}
      /\ sweep.pc = "sweep" /\ sweep'.pc = "idle" /\ UNCHANGED <<dns, ticker>>
  BY DEF EndSweep, Pending, IdleSweep
<1>2. ~Swept(r) /\ ~Active(h) /\ ~Active(h)' /\ (Failing(h)' <=> Failing(h))
  BY <1>1 DEF Swept, Active, Failing
<1>3. CASE AfterFailure(r, n, D)
  BY <1>1, <1>2, <1>3 DEF AfterFailure, CheckedWithin
<1>4. CASE InNextSweep(r, n, D)
  <2>1. Interval \in Nat /\ (IF ticker.due THEN 0 ELSE ticker.left) \in 0..Interval
    BY SweepAssumption, FailureLeft
  <2>2. n - (Interval + D) \in Nat
    BY <1>4, <2>1, EndsMonotone DEF InNextSweep
  <2>3. n >= D + (IF ticker.due THEN 0 ELSE ticker.left)
    BY <2>1, <2>2
  <2> QED  BY <1>1, <1>2, <1>4, <2>3 DEF InNextSweep, AtNextTick, CheckedWithin
<1> QED
  BY <1>1, <1>2, <1>3, <1>4 DEF CheckedWithin, InThisSweep, AfterItsHost, AtNextTick

\* The check of another URL of the host ends: the failure that it may leave behind lasts
\* no longer than was allowed for.
LEMMA HostChecked ==
  ASSUME IsFiniteSet(Relays), SweepInv, SweepInv', NEW D \in Nat, NEW F \in Nat,
         NEW r \in Relays, NEW q \in Relays \ {r}, Host[q] = Host[r], CheckEnds(q),
         Failing(Host[r])' => dns'[Host[r]].left =< F,
         NEW n \in Int, CheckedWithin(r, n, D, F)
  PROVE  CheckedWithin(r, n, D, F)'
<1> DEFINE h == Host[r]
<1>1. /\ Pending' = Pending /\ running' = running \ {q} /\ q \in running
      /\ sweep'.pc = sweep.pc /\ \A k \in Int : EndsWithin(k) => EndsWithin(k)'
  BY CheckLeavesRest DEF CheckEnds
<1>2. Active(h) /\ (Swept(r)' <=> Swept(r)) /\ sweep.pc = "sweep"
  BY <1>1, FailureLeft DEF Active, Swept
<1>3. CASE InThisSweep(r, n)
  BY <1>1, <1>2, <1>3 DEF InThisSweep, CheckedWithin
<1>4. CASE AfterItsHost(r, n, D, F)
  <2>1. Interval \in Nat
    BY SweepAssumption
  <2>2. PICK k \in Int : k = n - (F + 1 + 2 * D + Interval)
    BY <2>1
  <2>3. EndsWithin(k)' /\ k \in Nat
    BY <1>1, <1>4, <2>2, EndsMonotone DEF AfterItsHost
  <2>4. CASE Active(h)'
    BY <1>2, <1>4, <2>2, <2>3, <2>4 DEF AfterItsHost, CheckedWithin
  <2>5. CASE ~Active(h)' /\ Failing(h)'
    <3>1. PICK left \in Nat : left = dns'[h].left /\ left =< F
      <4>1. dns'[h].left \in Int /\ dns'[h].left >= 0
        BY <2>5, SweepAssumption DEF Failing, SweepInv, TypeOK, IsResult
      <4> QED  BY <2>5, <4>1
    <3>2. n >= left + 1 + 2 * D + Interval
      BY <2>1, <2>2, <2>3, <3>1
    <3> QED  BY <2>5, <3>1, <3>2 DEF AfterFailure, CheckedWithin
  <2>6. CASE ~Active(h)' /\ ~Failing(h)'
    <3>1. PICK l \in Int : l = n - (Interval + D)
      BY <2>1
    <3>2. k =< l
      BY <2>1, <2>2, <3>1
    <3>3. EndsWithin(l)'
      BY <2>3, <3>2, EndsMonotoneNext
    <3> QED  BY <1>1, <1>2, <2>6, <3>1, <3>3 DEF InNextSweep, CheckedWithin
  <2> QED  BY <2>4, <2>5, <2>6
<1> QED
  BY <1>2, <1>3, <1>4 DEF CheckedWithin, AfterFailure, InNextSweep, AtNextTick

\* In any step but one of time, each relay keeps the time that it has, or is passed
\* over and needs more, or has been checked and has the longest.
LEMMA StepChecked ==
  ASSUME IsFiniteSet(Relays), SweepInv, SweepInv', SweepStep \/ UNCHANGED vars,
         NEW D \in Nat, SweepOnTime(D)', NEW F \in Nat,
         NEW r \in Relays, Valid(r), r \in knownRelays, passed[r] =< MaxPassed,
         Failing(Host[r])' => dns'[Host[r]].left =< F,
         NEW n \in Int, CheckedWithin(r, n, D, F)
  PROVE  \/ entries'[r] = entries[r] /\ passed'[r] = passed[r] /\ CheckedWithin(r, n, D, F)'
         \/ /\ entries'[r] = entries[r] /\ passed'[r] = passed[r] + 1
            /\ CheckedWithin(r, n + D + F, D, F)'
         \/ entries'[r] = EntryTTL /\ passed'[r] = 0
<1> DEFINE Same == entries'[r] = entries[r] /\ passed'[r] = passed[r]
           Over == entries'[r] = entries[r] /\ passed'[r] = passed[r] + 1
           Anew == entries'[r] = EntryTTL /\ passed'[r] = 0
           Goal == \/ Same /\ CheckedWithin(r, n, D, F)'
                   \/ Over /\ CheckedWithin(r, n + D + F, D, F)'
                   \/ Anew
<1>1. /\ entries \in [Relays -> 0..EntryTTL] /\ sweep \in Sweep
      /\ passed \in [Relays -> 0..(MaxPassed + 1)]
  BY SweepFacts DEF SweepInv, TypeOK
<1>2. CASE BeginSweep
  BY <1>2, BeginSweepChecked, SweepChooses
<1>3. ASSUME NEW q \in Relays, Launch(q) PROVE Goal
  <2>1. UNCHANGED <<ticker, dns, running, entries, passed>>
    BY <1>3 DEF Launch
  <2>2. /\ Pending' = Pending /\ sweep'.pc = sweep.pc
        /\ \A k \in Int : EndsWithin(k) => EndsWithin(k)'
    BY <1>3, LaunchEnds
  <2>3. (Swept(r)' <=> Swept(r)) /\ (Active(Host[r])' <=> Active(Host[r]))
    BY <2>1, <2>2, SameRelays
  <2> QED  BY <2>1, <2>2, <2>3, CheckedAsBefore
<1>4. ASSUME NEW q \in Relays, Acquire(q) PROVE Goal
  <2>1. UNCHANGED <<ticker, dns, entries, passed>>
    BY <1>4 DEF Acquire
  <2>2. /\ (Pending \cup running)' = Pending \cup running /\ sweep'.pc = sweep.pc
        /\ \A k \in Int : EndsWithin(k) => EndsWithin(k)'
    BY <1>4, AcquireEnds
  <2>3. (Swept(r)' <=> Swept(r)) /\ (Active(Host[r])' <=> Active(Host[r]))
    BY <2>2 DEF Swept, Active
  <2> QED  BY <2>1, <2>2, <2>3, CheckedAsBefore
<1>5. ASSUME NEW q \in Relays, CheckEnds(q) PROVE Goal
  <2>1. /\ entries' = [entries EXCEPT ![q] = EntryTTL] /\ UNCHANGED ticker
        /\ passed' = [passed EXCEPT ![q] = 0]
        /\ \E outcome \in Outcomes[q] : dns' = [dns EXCEPT ![Host[q]] = Keep(@, outcome)]
    BY <1>5 DEF CheckEnds
  <2>2. CASE q = r
    BY <1>1, <2>1, <2>2
  <2>3. CASE q # r /\ Host[q] = Host[r]
    <3>1. Same
      BY <1>1, <2>1, <2>3
    <3>2. CheckedWithin(r, n, D, F)'
      BY <1>5, <2>3, HostChecked
    <3> QED  BY <3>1, <3>2
  <2>4. CASE q # r /\ Host[q] # Host[r]
    <3>1. dns'[Host[r]] = dns[Host[r]] /\ Same
      BY <1>1, <2>1, <2>4
    <3>2. /\ Pending' = Pending /\ running' = running \ {q} /\ sweep'.pc = sweep.pc
          /\ \A k \in Int : EndsWithin(k) => EndsWithin(k)'
      BY <1>5, CheckLeavesRest
    <3>3. (Swept(r)' <=> Swept(r)) /\ (Active(Host[r])' <=> Active(Host[r]))
      BY <2>4, <3>2 DEF Swept, Active
    <3> QED  BY <2>1, <3>1, <3>2, <3>3, CheckedAsBefore
  <2> QED  BY <2>2, <2>3, <2>4
<1>6. CASE EndSweep
  <2>1. Same
    BY <1>6 DEF EndSweep
  <2> QED  BY <1>6, <2>1, EndSweepChecked
<1>7. ASSUME UNCHANGED <<sweep, running, ticker, dns>>, took'["sweep"] = took["sweep"],
             Same
      PROVE  Goal
  <2>1. Pending' = Pending /\ \A k \in Int : EndsWithin(k) => EndsWithin(k)'
    BY <1>7, RestEnds
  <2>2. (Swept(r)' <=> Swept(r)) /\ (Active(Host[r])' <=> Active(Host[r]))
    BY <1>7, <2>1, SameRelays
  <2> QED  BY <1>7, <2>1, <2>2, CheckedAsBefore
<1>8. ASSUME NEW q \in Relays, EarlyCheckEnds(q) PROVE Goal
  <2>1. /\ UNCHANGED <<sweep, running, ticker, dns>>
        /\ entries' = [entries EXCEPT ![q] = EntryTTL]
        /\ passed' = [passed EXCEPT ![q] = 0]
        /\ took'["sweep"] = took["sweep"]
    BY <1>8, SweepFacts DEF EarlyCheckEnds
  <2>2. CASE q = r
    BY <1>1, <2>1, <2>2
  <2>3. CASE q # r
    BY <1>1, <1>7, <2>1, <2>3
  <2> QED  BY <2>2, <2>3
<1>9. CASE UNCHANGED vars
  BY <1>7, <1>9 DEF vars
<1> QED
  BY <1>2, <1>3, <1>4, <1>5, <1>6, <1>8, <1>9 DEF SweepStep

\* CheckedAfresh of the state after a step.
LEMMA CheckedAfreshNext ==
  ASSUME IsFiniteSet(Relays), SweepInv'
  PROVE  \A r \in Relays, D, F, n \in Nat :
           /\ SweepOnTime(D)' /\ (Failing(Host[r])' => dns'[Host[r]].left =< F)
           /\ n >= 3 * D + F + 1 + Interval
           => CheckedWithin(r, n, D, F)'
<1>1. (IsFiniteSet(Relays) /\ SweepInv =>
         \A r \in Relays, D, F, n \in Nat :
           /\ SweepOnTime(D) /\ (Failing(Host[r]) => dns[Host[r]].left =< F)
           /\ n >= 3 * D + F + 1 + Interval
           => CheckedWithin(r, n, D, F))'
  BY CheckedAfresh, PTL
<1> QED  BY <1>1

\* A relay that was passed over once more has so much less set aside.
LEMMA ReserveLeft ==
  ASSUME NEW D \in Nat, NEW F \in Nat, NEW m \in 0..MaxPassed
  PROVE  /\ (MaxPassed - m) * (D + F) \in Nat
         /\ (MaxPassed - (m + 1)) * (D + F) = (MaxPassed - m) * (D + F) - (D + F)
         /\ (MaxPassed - 0) * (D + F) = MaxPassed * (D + F)
         /\ MaxPassed * (D + F) \in Nat
<1>1. MaxPassed \in Nat /\ D + F \in Nat /\ MaxPassed - m \in Nat
  BY SweepAssumption
<1>2. PICK k \in Nat, c \in Nat : k = MaxPassed - m /\ c = D + F
  BY <1>1
<1>3. (k - 1) * c = k * c - c /\ MaxPassed - (m + 1) = k - 1
  BY <1>1, <1>2
<1>4. k * c \in Nat /\ MaxPassed * c \in Nat
  BY <1>1, TimesNat
<1>5. MaxPassed - 0 = MaxPassed
  BY <1>1
<1> QED  BY <1>2, <1>3, <1>4, <1>5

\* No step lets the entry of a steady relay expire, and each leaves it checked in time.
LEMMA CheckedStep ==
  ASSUME IsFiniteSet(Relays), \A r \in Relays : Steady(r) => Valid(r),
         NEW D \in Nat, SweepsTake(D), NEW F \in Nat, FailuresLast(F),
         3 * D + F + 1 + Interval + MaxPassed * (D + F) < EntryTTL,
         KeptInv(D, F), [Next]_vars
  PROVE  /\ KeptInv(D, F)'
         /\ \A r \in Relays :
              Steady(r) /\ entries[r] > 0 /\ passed[r] =< MaxPassed => entries'[r] > 0
<1>1. /\ SweepInv /\ SweepOnTime(D) /\ CheckedAreKnown /\ FailuresPass(F)
      /\ CheckedInTime(D, F)
  BY DEF KeptInv
<1>2. SweepInv' /\ SweepOnTime(D)' /\ CheckedAreKnown' /\ FailuresPass(F)'
  BY <1>1, SweepInvStep, OnTimeStep, KnownStep, FailuresStep
<1>3. /\ entries \in [Relays -> 0..EntryTTL] /\ entries' \in [Relays -> 0..EntryTTL]
      /\ passed \in [Relays -> 0..(MaxPassed + 1)]
      /\ passed' \in [Relays -> 0..(MaxPassed + 1)]
      /\ EntryTTL \in Nat \ {0} /\ Interval \in Nat /\ MaxPassed \in Nat
  BY <1>1, <1>2, SweepAssumption DEF SweepInv, TypeOK
<1>4. ASSUME NEW r \in Relays, Steady(r)
      PROVE  /\ entries'[r] > 0 /\ passed'[r] =< MaxPassed =>
                  CheckedWithin(r, entries[r] - 1 - Reserve(r, D, F), D, F)'
             /\ entries[r] > 0 /\ passed[r] =< MaxPassed => entries'[r] > 0
  <2>1. Failing(Host[r])' => dns'[Host[r]].left =< F
    BY <1>2, <1>4 DEF FailuresPass, Steady
  <2>2. PICK e \in Nat, e2 \in Nat, m \in Nat, m2 \in Nat :
          e = entries[r] /\ e2 = entries'[r] /\ m = passed[r] /\ m2 = passed'[r]
    BY <1>3
  <2>3. PICK z, z2 : z = (MaxPassed - m) * (D + F) /\ z2 = (MaxPassed - m2) * (D + F)
    OBVIOUS
  <2>4. z = Reserve(r, D, F) /\ z2 = Reserve(r, D, F)'
    BY <2>2, <2>3 DEF Reserve
  <2>5. /\ m =< MaxPassed => z \in Nat /\ (m2 = m + 1 => z2 = z - (D + F))
        /\ m2 =< MaxPassed => z2 \in Nat
        /\ m2 = m => z2 = z
    BY <2>3, ReserveLeft
  <2>6. m2 = 0 => z2 = MaxPassed * (D + F) /\ z2 \in Nat
    BY <1>3, <2>3, ReserveLeft
  <2>7. e2 = EntryTTL /\ m2 = 0 => CheckedWithin(r, e2 - 1 - z2, D, F)'
    <3> SUFFICES ASSUME e2 = EntryTTL, m2 = 0 PROVE CheckedWithin(r, e2 - 1 - z2, D, F)'
      OBVIOUS
    <3>1. PICK n \in Nat : n = e2 - 1 - z2 /\ n >= 3 * D + F + 1 + Interval
      BY <1>3, <2>6
    <3> QED  BY <1>2, <2>1, <3>1, CheckedAfreshNext
  <2>8. e > 0 /\ m =< MaxPassed =>
          CheckedWithin(r, e - 1 - z, D, F) /\ r \in knownRelays /\ Valid(r)
    BY <1>1, <1>4, <2>2, <2>4 DEF CheckedInTime, CheckedAreKnown
  <2> SUFFICES /\ e2 > 0 /\ m2 =< MaxPassed => CheckedWithin(r, e2 - 1 - z2, D, F)'
               /\ e > 0 /\ m =< MaxPassed => e2 > 0
    BY <2>2, <2>4
  <2>9. CASE TimePasses
    <3>1. (e2 = IF e = 0 THEN 0 ELSE e - 1) /\ m2 = m
      BY <1>3, <2>2, <2>9 DEF TimePasses
    <3> SUFFICES ASSUME e > 0, m =< MaxPassed
                 PROVE  e2 > 0 /\ CheckedWithin(r, e2 - 1 - z2, D, F)'
      BY <3>1
    <3>2. PICK n \in Int : n = e - 1 - z
      BY <2>5
    <3>3. n >= 1 /\ CheckedWithin(r, n - 1, D, F)'
      BY <1>1, <1>2, <2>8, <2>9, <3>2, CheckedSooner
    <3>4. e2 > 0 /\ e2 - 1 - z2 = n - 1
      BY <2>5, <3>1, <3>2, <3>3
    <3> QED  BY <3>3, <3>4
  <2>10. CASE SweepStep \/ UNCHANGED vars
    <3>1. CASE e > 0 /\ m =< MaxPassed
      <4>1. PICK n \in Int : n = e - 1 - z
        BY <2>5, <3>1
      <4>2. \/ e2 = e /\ m2 = m /\ CheckedWithin(r, n, D, F)'
            \/ e2 = e /\ m2 = m + 1 /\ CheckedWithin(r, n + D + F, D, F)'
            \/ e2 = EntryTTL /\ m2 = 0
        BY <1>1, <1>2, <2>1, <2>2, <2>8, <2>10, <3>1, <4>1, StepChecked
      <4>3. CASE e2 = e /\ m2 = m /\ CheckedWithin(r, n, D, F)'
        BY <2>5, <3>1, <4>1, <4>3
      <4>4. CASE e2 = e /\ m2 = m + 1 /\ CheckedWithin(r, n + D + F, D, F)'
        <5>1. n + D + F = e2 - 1 - z2
          BY <2>5, <3>1, <4>1, <4>4
        <5> QED  BY <3>1, <4>4, <5>1
      <4>5. CASE e2 = EntryTTL /\ m2 = 0
        BY <1>3, <2>7, <4>5
      <4> QED  BY <4>2, <4>3, <4>4, <4>5
    <3>2. CASE ~(e > 0 /\ m =< MaxPassed)
      <4>1. \/ e2 = e /\ m2 >= m
            \/ e2 = EntryTTL /\ m2 = 0
        <5>1. CASE BeginSweep
          <6>1. e2 = e
            BY <1>1, <2>2, <5>1, SweepChooses
          <6>2. m2 >= m
            <7>1. PICK todo, late : Chosen(todo, late)
              BY <1>1, <5>1, SweepChooses
            <7>2. passed'[r] = passed[r] \/ passed'[r] = passed[r] + 1
              BY <7>1 DEF Chosen
            <7> QED  BY <2>2, <7>2
          <6> QED  BY <6>1, <6>2
        <5>2. ASSUME NEW q \in Relays, CheckEnds(q) \/ EarlyCheckEnds(q)
              PROVE  \/ e2 = e /\ m2 >= m
                     \/ e2 = EntryTTL /\ m2 = 0
          <6>1. /\ entries' = [entries EXCEPT ![q] = EntryTTL]
                /\ passed' = [passed EXCEPT ![q] = 0]
            BY <5>2 DEF CheckEnds, EarlyCheckEnds
          <6> QED  BY <1>3, <2>2, <6>1
        <5>3. CASE UNCHANGED <<entries, passed>>
          BY <2>2, <5>3
        <5>4. CASE \/ EndSweep \/ UNCHANGED vars
                   \/ \E q \in Relays : Launch(q) \/ Acquire(q)
          BY <5>3, <5>4 DEF EndSweep, vars, Launch, Acquire
        <5> QED  BY <2>10, <5>1, <5>2, <5>4 DEF SweepStep
      <4>2. CASE e2 = e /\ m2 >= m
        BY <1>3, <3>2, <4>2
      <4>3. CASE e2 = EntryTTL /\ m2 = 0
        BY <2>7, <3>2, <4>3
      <4> QED  BY <4>1, <4>2, <4>3
    <3> QED  BY <3>1, <3>2
  <2>11. ASSUME NEW q \in Relays, Discovered(q)
         PROVE  /\ e2 > 0 /\ m2 =< MaxPassed => CheckedWithin(r, e2 - 1 - z2, D, F)'
                /\ e > 0 /\ m =< MaxPassed => e2 > 0
    <3>1. /\ UNCHANGED <<sweep, running, ticker, dns, entries, passed>>
          /\ took'["sweep"] = took["sweep"]
      BY <2>11 DEF Discovered
    <3>2. Pending' = Pending /\ \A k \in Int : EndsWithin(k) => EndsWithin(k)'
      BY <1>1, <3>1, RestEnds
    <3>3. (Swept(r)' <=> Swept(r)) /\ (Active(Host[r])' <=> Active(Host[r]))
      BY <3>1, <3>2, SameRelays
    <3>4. e2 = e /\ m2 = m /\ z2 = z
      BY <2>2, <2>5, <3>1
    <3> SUFFICES ASSUME e > 0, m =< MaxPassed PROVE CheckedWithin(r, e - 1 - z, D, F)'
      BY <3>4
    <3>5. PICK n \in Int : n = e - 1 - z
      BY <2>5
    <3> QED  BY <2>8, <3>1, <3>2, <3>3, <3>5, CheckedAsBefore
  <2> QED  BY <2>9, <2>10, <2>11 DEF Next
<1>5. CheckedInTime(D, F)'
  BY <1>4 DEF CheckedInTime, Steady
<1> QED  BY <1>2, <1>4, <1>5 DEF KeptInv

\* For any number of relays and hosts: if a sweep of all relays, twice the time of one
\* more, a tick and the longest failure that other URLs of a steady relay's host may
\* leave behind fit into the life of an entry, and a sweep and such a failure more for
\* each time that the relay may be passed over, the entry of a relay that always
\* answers never expires (monitor.go:255, monitor.go:386, dnscache.go:131).
THEOREM SteadyEntriesKept ==
  ASSUME IsFiniteSet(Relays), \A r \in Relays : Steady(r) => Valid(r),
         NEW D \in Nat, SweepsTake(D), NEW F \in Nat, FailuresLast(F),
         3 * D + F + 1 + Interval + MaxPassed * (D + F) < EntryTTL
  PROVE  Spec => EntryKept
<1>1. Init => KeptInv(D, F)
  <2> SUFFICES ASSUME Init PROVE KeptInv(D, F)
    OBVIOUS
  <2>1. SweepInv
    BY SweepInvInit
  <2>2. /\ sweep.pc = "idle" /\ Pending = {} /\ running = {} /\ early = {}
        /\ \A r \in Relays : entries[r] = 0
        /\ \A h \in Hosts : dns[h] = None
    BY DEF Init, IdleSweep, Pending
  <2>3. SweepOnTime(D) /\ CheckedAreKnown /\ CheckedInTime(D, F)
    BY <2>2 DEF SweepOnTime, CheckedAreKnown, CheckedInTime
  <2>4. FailuresPass(F)
    BY <2>2, SweepAssumption DEF FailuresPass, Failing
  <2> QED  BY <2>1, <2>3, <2>4 DEF KeptInv
<1>2. KeptInv(D, F) /\ [Next]_vars =>
        /\ KeptInv(D, F)'
        /\ [\A r \in Relays :
              Outcomes[r] = {"ok"} /\ entries[r] > 0 /\ passed[r] =< MaxPassed
                => entries'[r] > 0]_vars
  BY CheckedStep DEF Steady
<1> QED  BY <1>1, <1>2, PTL DEF Spec, EntryKept
===============================================================================
