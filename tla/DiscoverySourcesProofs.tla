------------------------ MODULE DiscoverySourcesProofs ------------------------
(***************************************************************************)
(* The types of DiscoverySources, and that the pipeline with its sources   *)
(* implements DiscoveryPipeline, whose theorems therefore hold of it.      *)
(***************************************************************************)
EXTENDS DiscoverySources, DiscoveryPipelineProofs, PowersOf2Proofs, FiniteSetTheorems

BusyWorkers == {w \in Url : workers[w].pc \in Busy}

\* Whoever is about to write to the channel holds a URL it may write.
SendersHoldUrls ==
  /\ \A w \in Url : workers[w].pc = "send" => workers[w].url \in SourceUrls
  /\ \A s \in Subscriptions : subs[s].pc = "send" => subs[s].url \in SourceUrls
  /\ \A h \in Handlers :
       submits[h] # NoUrl => submits[h] \in AdminUrls /\ validRelayURL(submits[h])

SourcesInv == SourcesTypeOK /\ IsFiniteSet(BusyWorkers) /\ SendersHoldUrls

LEMMA OfferedUrls ==
  ASSUME NEW s \in Sources \ {"admin"}, NEW u \in Offers[s]
  PROVE  u \in SourceUrls
BY SourcesAssumption

LEMMA SubscriptionFeed ==
  ASSUME NEW s \in Subscriptions
  PROVE  s[1] \in Sources \ {"admin"} /\ s[2] \in SeedRelays
BY DEF Subscriptions, Feeds, Sources

\* A process that starts has no worker yet and every source in its first state.
LEMMA StartTypes ==
  ASSUME enabled' \in Configurations, Started(enabled')
  PROVE  SourcesInv'
<1> USE SourcesAssumption
<1>1. BusyWorkers' = {}
  BY DEF Started, BusyWorkers, Busy, Off
<1>2. IsFiniteSet(BusyWorkers)' /\ Cardinality(BusyWorkers)' = 0
  BY <1>1, FS_EmptySet
<1>3. SendersHoldUrls'
  BY DEF Started, SendersHoldUrls, Off
<1>4. crawl'.slots = Cardinality({w \in Url : workers[w].pc \in Busy})'
  BY <1>2 DEF Started, BusyWorkers
<1>5. hosted' \in [pc : {"fetch", "send", "tick", "off"}, todo : SUBSET SourceUrls]
  <2>1. \/ hosted' = [pc |-> "fetch", todo |-> {}]
        \/ hosted' = [pc |-> "off", todo |-> {}]
    BY Zenon DEF Started
  <2> QED  BY <2>1
<1>6. crawl' \in [pc : {"start", "crawl", "tick", "off"}, slots : 0..nip65ConcurrentConnections]
  <2>1. crawl' = [pc |-> "start", slots |-> 0] \/ crawl' = [pc |-> "off", slots |-> 0]
    BY Zenon DEF Started
  <2> QED  BY <2>1
<1>7. /\ workers' \in [Url -> [pc : {"off", "queue"} \cup Busy, url : SourceUrls \cup {NoUrl}]]
      /\ subs' \in [Subscriptions -> [pc : {"off", "wait"} \cup Busy,
                                       url : SourceUrls \cup {NoUrl}]]
  BY DEF Started, Off, Busy
<1>8. /\ backoff' \in [SeedRelays -> InitialDelay..MaxDelay]
      /\ waits' \in [SeedRelays -> 0..WaitsBound]
  <2>1. InitialDelay \in InitialDelay..MaxDelay /\ 0 \in 0..WaitsBound
    OBVIOUS
  <2>2. /\ backoff' = [r \in SeedRelays |-> InitialDelay]
        /\ waits' = [r \in SeedRelays |-> 0]
    BY Zenon DEF Started
  <2> QED  BY <2>1, <2>2, Zenon
<1>9. SourcesTypeOK'
  BY <1>4, <1>5, <1>6, <1>7, <1>8 DEF Started, SourcesTypeOK
<1> QED  BY <1>2, <1>3, <1>9 DEF SourcesInv

LEMMA SourcesInvInit == SourcesInit => SourcesInv
<1> SUFFICES ASSUME SourcesInit PROVE SourcesInv
  OBVIOUS
<1> USE SourcesAssumption
<1>1. BusyWorkers = {}
  BY DEF SourcesInit, BusyWorkers, Busy, Off
<1>2. IsFiniteSet(BusyWorkers) /\ Cardinality(BusyWorkers) = 0
  BY <1>1, FS_EmptySet
<1>3. SendersHoldUrls
  BY DEF SourcesInit, SendersHoldUrls, Off
<1>4. crawl.slots = Cardinality({w \in Url : workers[w].pc \in Busy})
  BY <1>2 DEF SourcesInit, BusyWorkers
<1>5. hosted \in [pc : {"fetch", "send", "tick", "off"}, todo : SUBSET SourceUrls]
  <2>1. \/ hosted = [pc |-> "fetch", todo |-> {}]
        \/ hosted = [pc |-> "off", todo |-> {}]
    BY Zenon DEF SourcesInit
  <2> QED  BY <2>1
<1>6. crawl \in [pc : {"start", "crawl", "tick", "off"}, slots : 0..nip65ConcurrentConnections]
  <2>1. crawl = [pc |-> "start", slots |-> 0] \/ crawl = [pc |-> "off", slots |-> 0]
    BY Zenon DEF SourcesInit
  <2> QED  BY <2>1
<1>7. /\ workers \in [Url -> [pc : {"off", "queue"} \cup Busy, url : SourceUrls \cup {NoUrl}]]
      /\ subs \in [Subscriptions -> [pc : {"off", "wait"} \cup Busy,
                                       url : SourceUrls \cup {NoUrl}]]
  BY DEF SourcesInit, Off, Busy
<1>8. /\ backoff \in [SeedRelays -> InitialDelay..MaxDelay]
      /\ waits \in [SeedRelays -> 0..WaitsBound]
  <2>1. InitialDelay \in InitialDelay..MaxDelay /\ 0 \in 0..WaitsBound
    OBVIOUS
  <2>2. /\ backoff = [r \in SeedRelays |-> InitialDelay]
        /\ waits = [r \in SeedRelays |-> 0]
    BY Zenon DEF SourcesInit
  <2> QED  BY <2>1, <2>2, Zenon
<1>9. SourcesTypeOK
  BY <1>4, <1>5, <1>6, <1>7, <1>8 DEF SourcesInit, SourcesTypeOK
<1> QED  BY <1>2, <1>3, <1>9 DEF SourcesInv

\* What a step of a source other than the crawler leaves to be shown.
LEMMA CrawlUntouched ==
  ASSUME SourcesInv, UNCHANGED <<enabled, crawl, workers>>,
         phase' \in {"running", "stopping"},
         hosted' \in [pc : {"fetch", "send", "tick", "off"}, todo : SUBSET SourceUrls],
         subs' \in [Subscriptions -> [pc : {"off", "wait"} \cup Busy,
                                      url : SourceUrls \cup {NoUrl}]],
         backoff' \in [SeedRelays -> InitialDelay..MaxDelay],
         submits' \in [Handlers -> AdminUrls \cup {NoUrl}],
         wait' \in [Subscriptions -> Nat],
         waits' \in [SeedRelays -> 0..WaitsBound],
         \A s \in Subscriptions : subs'[s].pc = "send" => subs'[s].url \in SourceUrls,
         \A h \in Handlers : submits'[h] # NoUrl => submits'[h] \in AdminUrls
                                                   /\ validRelayURL(submits'[h])
  PROVE  SourcesInv'
<1>1. BusyWorkers' = BusyWorkers
  BY DEF BusyWorkers
<1>2. crawl'.slots = Cardinality({w \in Url : workers[w].pc \in Busy})'
  BY <1>1 DEF SourcesInv, SourcesTypeOK, BusyWorkers
<1>3. SourcesTypeOK'
  BY <1>2 DEF SourcesInv, SourcesTypeOK
<1>4. SendersHoldUrls'
  BY DEF SourcesInv, SendersHoldUrls
<1> QED  BY <1>1, <1>3, <1>4 DEF SourcesInv

LEMMA HostedTypes ==
  ASSUME SourcesInv, HostedTick \/ HostedSend \/ HostedStep
  PROVE  SourcesInv'
<1>1. hosted' \in [pc : {"fetch", "send", "tick", "off"}, todo : SUBSET SourceUrls]
  <2>1. CASE HostedFetch
    <3>1. PICK list \in {Offers[s] : s \in enabled \cap {"hosted", "hosted once"}} \cup {{}} :
             hosted' = [pc |-> "send", todo |-> list]
      BY <2>1 DEF HostedFetch
    <3>2. list \subseteq SourceUrls
      BY <3>1, SourcesAssumption DEF Sources
    <3> QED  BY <3>1, <3>2
  <2>2. CASE HostedSend
    <3>1. PICK u \in hosted.todo : hosted' = [hosted EXCEPT !.todo = @ \ {u}]
      BY <2>2 DEF HostedSend
    <3> QED  BY <3>1 DEF SourcesInv, SourcesTypeOK
  <2>3. CASE HostedTick \/ HostedSent \/ HostedStops
    <3>1. \E pc \in {"fetch", "tick", "off"} : \/ hosted' = [hosted EXCEPT !.pc = pc]
                                             \/ hosted' = [pc |-> pc, todo |-> {}]
      BY <2>3, Zenon DEF HostedTick, HostedSent, HostedStops
    <3> QED  BY <3>1 DEF SourcesInv, SourcesTypeOK
  <2> QED  BY <2>1, <2>2, <2>3 DEF HostedStep
<1>2. UNCHANGED <<enabled, phase, crawl, workers, subs, backoff, submits, wait, waits>>
  BY DEF HostedStep, HostedTick, HostedSend, HostedFetch, HostedSent, HostedStops,
    HostedUnchanged
<1> QED
  BY <1>1, <1>2, CrawlUntouched DEF SourcesInv, SourcesTypeOK, SendersHoldUrls

LEMMA WaitTypes ==
  ASSUME SourcesInv, NEW s \in Subscriptions, NEW connected \in BOOLEAN,
         WaitAfter(s, connected), SubUnchanged
  PROVE  SourcesInv'
<1> USE SourcesAssumption, SubscriptionFeed
<1> DEFINE current == IF connected THEN InitialDelay ELSE backoff[s[2]]
           before == IF connected THEN 0 ELSE waits[s[2]]
<1>1. /\ current \in InitialDelay..MaxDelay
      /\ before \in 0..WaitsBound
  BY DEF SourcesInv, SourcesTypeOK
<1>2. Doubled(current) \in InitialDelay..MaxDelay
  BY <1>1 DEF Doubled
<1>3. (IF before = WaitsBound THEN before ELSE before + 1) \in 0..WaitsBound
  BY <1>1
<1>4. /\ backoff' \in [SeedRelays -> InitialDelay..MaxDelay]
      /\ waits' \in [SeedRelays -> 0..WaitsBound]
      /\ wait' \in [Subscriptions -> Nat]
  <2> HIDE DEF current, before
  <2>1. CASE s[1] = "nip66"
    <3>1. /\ wait' = [wait EXCEPT ![s] = current]
          /\ backoff' = [backoff EXCEPT ![s[2]] = Doubled(current)]
          /\ waits' = [waits EXCEPT ![s[2]] =
                         IF before = WaitsBound THEN before ELSE before + 1]
      BY <2>1 DEF WaitAfter, current, before
    <3> QED  BY <3>1, <1>1, <1>2, <1>3 DEF SourcesInv, SourcesTypeOK
  <2>2. CASE s[1] # "nip66"
    BY <2>2 DEF WaitAfter, SourcesInv, SourcesTypeOK
  <2> QED  BY <2>1, <2>2
<1>5. /\ subs' \in [Subscriptions -> [pc : {"off", "wait"} \cup Busy,
                                      url : SourceUrls \cup {NoUrl}]]
      /\ \A t \in Subscriptions : subs'[t].pc = "send" => subs'[t].url \in SourceUrls
  BY DEF WaitAfter, SourcesInv, SourcesTypeOK, SendersHoldUrls
<1> QED
  BY <1>4, <1>5, CrawlUntouched
  DEF SubUnchanged, SourcesInv, SourcesTypeOK, SendersHoldUrls

LEMMA SubTypes ==
  ASSUME SourcesInv, NEW s \in Subscriptions, SubStep(s)
  PROVE  SourcesInv'
<1>1. CASE SubFails(s) \/ SubCloses(s)
  BY <1>1, WaitTypes DEF SubFails, SubCloses
<1>2. CASE SubConnects(s) \/ SubHears(s) \/ SubSends(s) \/ SubRetries(s) \/ SubStops(s)
  <2>1. /\ subs' \in [Subscriptions -> [pc : {"off", "wait"} \cup Busy,
                                        url : SourceUrls \cup {NoUrl}]]
        /\ \A t \in Subscriptions : subs'[t].pc = "send" => subs'[t].url \in SourceUrls
    <3>1. CASE SubHears(s)
      <4>1. PICK u \in Offers[s[1]] : subs' = [subs EXCEPT ![s] = [pc |-> "send", url |-> u]]
        BY <3>1 DEF SubHears
      <4>2. u \in SourceUrls
        BY <4>1, SubscriptionFeed, OfferedUrls
      <4> QED  BY <4>1, <4>2 DEF SourcesInv, SourcesTypeOK, SendersHoldUrls, Busy
    <3>2. CASE SubConnects(s) \/ SubSends(s) \/ SubRetries(s) \/ SubStops(s)
      BY <3>2 DEF SubConnects, SubSends, SubRetries, SubStops, Off, SourcesInv, SourcesTypeOK,
        SendersHoldUrls, Busy
    <3> QED  BY <1>2, <3>1, <3>2
  <2>2. UNCHANGED <<enabled, phase, hosted, crawl, workers, submits, backoff, waits>>
    BY <1>2 DEF SubConnects, SubHears, SubSends, SubRetries, SubStops, SubUnchanged
  <2>3. wait' \in [Subscriptions -> Nat]
    BY <1>2 DEF SubConnects, SubHears, SubSends, SubRetries, SubStops, SourcesInv, SourcesTypeOK
  <2> QED
    BY <2>1, <2>2, <2>3, CrawlUntouched DEF SourcesInv, SourcesTypeOK, SendersHoldUrls
<1> QED  BY <1>1, <1>2 DEF SubStep

----------------------------------------------------------------------------
(* The crawler *)

LEMMA CrawlTypes ==
  ASSUME SourcesInv, CrawlStep
  PROVE  SourcesInv'
<1> USE SourcesAssumption
<1> DEFINE WorkerState == [pc : {"off", "queue"} \cup Busy, url : SourceUrls \cup {NoUrl}]
<1>1. SUFFICES /\ crawl' \in [pc : {"start", "crawl", "tick", "off"},
                              slots : 0..nip65ConcurrentConnections]
               /\ workers' \in [Url -> WorkerState]
               /\ IsFiniteSet(BusyWorkers')
               /\ crawl'.slots = Cardinality(BusyWorkers')
               /\ \A w \in Url : workers'[w].pc = "send" => workers'[w].url \in SourceUrls
  <2>1. UNCHANGED <<enabled, phase, hosted, subs, backoff, submits, wait, waits>>
    BY DEF CrawlStep, CrawlBegins, CrawlEnds, CrawlerStops, WorkerAcquires, WorkerConnects,
      WorkerHears, WorkerSends, WorkerLeaves, CrawlUnchanged
  <2> QED
    BY <2>1 DEF SourcesInv, SourcesTypeOK, SendersHoldUrls, BusyWorkers
<1>2. /\ IsFiniteSet(BusyWorkers) /\ crawl.slots = Cardinality(BusyWorkers)
      /\ workers \in [Url -> WorkerState]
      /\ crawl \in [pc : {"start", "crawl", "tick", "off"},
                    slots : 0..nip65ConcurrentConnections]
      /\ \A w \in Url : workers[w].pc = "send" => workers[w].url \in SourceUrls
  BY DEF SourcesInv, SourcesTypeOK, SendersHoldUrls, BusyWorkers
<1>3. CASE CrawlBegins
  <2>1. PICK also \in {whitelist, {}} :
          workers' = [w \in Url |-> IF w \in SeedRelays \cup also
                                    THEN [Off EXCEPT !.pc = "queue"] ELSE Off]
    BY <1>3 DEF CrawlBegins
  <2>2. BusyWorkers' = {}
    BY <2>1 DEF BusyWorkers, Busy, Off
  <2>3. workers' \in [Url -> WorkerState]
    BY <2>1 DEF Off
  <2>4. \A w \in Url : workers'[w].pc # "send"
    BY <2>1 DEF Off
  <2> QED  BY <1>3, <2>2, <2>3, <2>4, FS_EmptySet DEF CrawlBegins
<1>4. ASSUME NEW w \in Url, WorkerAcquires(w)
      PROVE  /\ IsFiniteSet(BusyWorkers')
             /\ crawl'.slots = Cardinality(BusyWorkers')
             /\ crawl' \in [pc : {"start", "crawl", "tick", "off"},
                            slots : 0..nip65ConcurrentConnections]
             /\ workers' \in [Url -> WorkerState]
             /\ \A x \in Url : workers'[x].pc = "send" => workers'[x].url \in SourceUrls
  <2>1. workers' = [workers EXCEPT ![w] = [workers[w] EXCEPT !.pc = "connect"]]
    BY <1>4 DEF WorkerAcquires
  <2>2. w \notin BusyWorkers
    BY <1>4 DEF WorkerAcquires, BusyWorkers, Busy
  <2>3. BusyWorkers' = BusyWorkers \cup {w}
    BY <2>1, <1>2 DEF BusyWorkers, Busy
  <2>4. IsFiniteSet(BusyWorkers') /\ Cardinality(BusyWorkers') = Cardinality(BusyWorkers) + 1
    BY <1>2, <2>2, <2>3, FS_AddElement
  <2>5. crawl' = [crawl EXCEPT !.slots = @ + 1] /\ crawl.slots < nip65ConcurrentConnections
    BY <1>4 DEF WorkerAcquires
  <2> QED  BY <1>2, <2>1, <2>4, <2>5 DEF Busy
<1>5. ASSUME NEW w \in Url, WorkerLeaves(w)
      PROVE  /\ IsFiniteSet(BusyWorkers')
             /\ crawl'.slots = Cardinality(BusyWorkers')
             /\ crawl' \in [pc : {"start", "crawl", "tick", "off"},
                            slots : 0..nip65ConcurrentConnections]
             /\ workers' \in [Url -> WorkerState]
             /\ \A x \in Url : workers'[x].pc = "send" => workers'[x].url \in SourceUrls
  <2>1. workers' = [workers EXCEPT ![w] = Off] /\ w \in BusyWorkers
    BY <1>5 DEF WorkerLeaves, BusyWorkers
  <2>2. BusyWorkers' = BusyWorkers \ {w}
    BY <2>1, <1>2 DEF BusyWorkers, Busy, Off
  <2>3. IsFiniteSet(BusyWorkers') /\ Cardinality(BusyWorkers') = Cardinality(BusyWorkers) - 1
    BY <1>2, <2>1, <2>2, FS_RemoveElement
  <2>4. crawl' = [crawl EXCEPT !.slots = @ - 1]
    BY <1>5 DEF WorkerLeaves
  <2>5. Cardinality(BusyWorkers') \in Nat
    BY <2>3, FS_CardinalityType
  <2>6. workers' \in [Url -> WorkerState]
    BY <1>2, <2>1 DEF Off
  <2>7. \A x \in Url : workers'[x].pc = "send" => workers'[x].url \in SourceUrls
    BY <1>2, <2>1 DEF Off
  <2> QED  BY <1>2, <2>3, <2>4, <2>5, <2>6, <2>7
<1>6. ASSUME NEW w \in Url, WorkerConnects(w) \/ WorkerHears(w) \/ WorkerSends(w)
      PROVE  /\ UNCHANGED crawl
             /\ BusyWorkers' = BusyWorkers
             /\ workers' \in [Url -> WorkerState]
             /\ \A x \in Url : workers'[x].pc = "send" => workers'[x].url \in SourceUrls
  <2>1. \A u \in Offers["nip65"] : u \in SourceUrls
    BY OfferedUrls DEF Sources
  <2>2. PICK v \in WorkerState : /\ workers' = [workers EXCEPT ![w] = v]
                                 /\ v.pc \in Busy
                                 /\ v.pc = "send" => v.url \in SourceUrls
    <3>1. CASE WorkerConnects(w)
      <4>1. workers' = [workers EXCEPT ![w] = [workers[w] EXCEPT !.pc = "listen"]]
        BY <3>1 DEF WorkerConnects
      <4>2. [workers[w] EXCEPT !.pc = "listen"] \in WorkerState
        BY <1>2 DEF Busy
      <4>3. [workers[w] EXCEPT !.pc = "listen"].pc = "listen"
        BY <1>2
      <4>4. "listen" \in Busy /\ "listen" # "send"
        BY DEF Busy
      <4> QED  BY <4>1, <4>2, <4>3, <4>4
    <3>2. CASE WorkerHears(w)
      BY <2>1, <3>2 DEF WorkerHears, Busy
    <3>3. CASE WorkerSends(w)
      <4>1. workers' = [workers EXCEPT ![w] = [pc |-> "listen", url |-> NoUrl]]
        BY <3>3 DEF WorkerSends
      <4>2. [pc |-> "listen", url |-> NoUrl] \in WorkerState
        BY DEF Busy
      <4>3. "listen" \in Busy /\ "listen" # "send"
        BY DEF Busy
      <4> QED  BY <4>1, <4>2, <4>3
    <3> QED  BY <1>6, <3>1, <3>2, <3>3
  <2>3. workers[w].pc \in Busy /\ UNCHANGED crawl
    BY <1>6 DEF WorkerConnects, WorkerHears, WorkerSends, Busy
  <2>4. BusyWorkers' = BusyWorkers
    BY <1>2, <2>2, <2>3 DEF BusyWorkers
  <2> QED  BY <1>2, <2>2, <2>3, <2>4
<1>7. CASE CrawlEnds \/ CrawlerStops
  <2>1. UNCHANGED workers /\ \E pc \in {"tick", "off"} : crawl' = [crawl EXCEPT !.pc = pc]
    BY <1>7 DEF CrawlEnds, CrawlerStops
  <2>2. BusyWorkers' = BusyWorkers
    BY <2>1 DEF BusyWorkers
  <2> QED  BY <1>2, <2>1, <2>2
<1> QED  BY <1>2, <1>3, <1>4, <1>5, <1>6, <1>7 DEF CrawlStep

----------------------------------------------------------------------------
(* All steps *)

LEMMA SubmitTypes ==
  ASSUME SourcesInv, NEW h \in Handlers,
         SubmitEnds(h) \/ \E u \in AdminUrls : SubmitBegins(h, u)
  PROVE  SourcesInv'
<1>1. UNCHANGED <<enabled, phase, hosted, crawl, workers, subs, backoff, wait, waits>>
  BY DEF SubmitEnds, SubmitBegins, AdminUnchangedSources
<1>2. \/ submits' = [submits EXCEPT ![h] = NoUrl]
      \/ \E u \in AdminUrls : validRelayURL(u) /\ submits' = [submits EXCEPT ![h] = u]
  BY DEF SubmitEnds, SubmitBegins
<1>3. submits' \in [Handlers -> AdminUrls \cup {NoUrl}]
  BY <1>2 DEF SourcesInv, SourcesTypeOK
<1>4. \A g \in Handlers :
         submits'[g] # NoUrl => submits'[g] \in AdminUrls /\ validRelayURL(submits'[g])
  BY <1>2 DEF SourcesInv, SourcesTypeOK, SendersHoldUrls
<1> QED
  BY <1>1, <1>3, <1>4, CrawlUntouched DEF SourcesInv, SourcesTypeOK, SendersHoldUrls

LEMMA SourcesInvStep ==
  ASSUME SourcesInv, [SourcesNext]_sourcesVars
  PROVE  SourcesInv'
<1>1. CASE Exit \/ Crash
  BY <1>1, StartTypes DEF Exit, Crash, SourcesInv, SourcesTypeOK
<1>2. CASE \/ UNCHANGED <<enabled, phase, sources>>
           \/ phase' = "stopping" /\ UNCHANGED <<enabled, sources>>
  BY <1>2, CrawlUntouched DEF sources, SourcesInv, SourcesTypeOK, SendersHoldUrls
<1>3. CASE AdminChanges \/ PipelineStep \/ Stop \/ UNCHANGED sourcesVars
  BY <1>2, <1>3 DEF AdminChanges, PipelineStep, Stop, sourcesVars
<1> QED
  BY <1>1, <1>3, HostedTypes, CrawlTypes, SubTypes, SubmitTypes DEF SourcesNext

\* The sources keep their types, and each connection of a crawl holds exactly one
\* slot of its semaphore, however it ends.
THEOREM SourcesTypeCorrect == SourcesSpec => []SourcesTypeOK
<1>1. SourcesInv => SourcesTypeOK
  BY DEF SourcesInv
<1> QED  BY SourcesInvInit, SourcesInvStep, <1>1, PTL DEF SourcesSpec

----------------------------------------------------------------------------
(* The pipeline sees a source or an administrator at work *)

LEMMA SubmitIsDiscover ==
  ASSUME NEW u \in SourceUrls, Submit(u)
  PROVE  Next
BY DEF Next, Discover

LEMMA SourcesStepImplements ==
  ASSUME SourcesInv, [SourcesNext]_sourcesVars
  PROVE  [Next]_vars
<1>1. CASE HostedTick \/ HostedSend \/ HostedStep
  <2>1. CASE HostedSend
    <3>1. PICK u \in hosted.todo : Submit(u)
      BY <2>1 DEF HostedSend
    <3> QED  BY <3>1, SubmitIsDiscover DEF SourcesInv, SourcesTypeOK
  <2>2. CASE HostedTick \/ HostedStep
    BY <2>2 DEF HostedTick, HostedStep, HostedFetch, HostedSent, HostedStops
  <2> QED  BY <1>1, <2>1, <2>2
<1>2. CASE CrawlStep
  <2>1. ASSUME NEW w \in Url, WorkerSends(w)
        PROVE  Next
    BY <2>1, SubmitIsDiscover DEF WorkerSends, SourcesInv, SendersHoldUrls
  <2>2. CASE UNCHANGED vars
    BY <2>2
  <2>3. ASSUME NEW w \in Url,
               WorkerAcquires(w) \/ WorkerConnects(w) \/ WorkerHears(w) \/ WorkerLeaves(w)
        PROVE  UNCHANGED vars
    BY <2>3 DEF WorkerAcquires, WorkerConnects, WorkerHears, WorkerLeaves
  <2>4. CASE CrawlBegins \/ CrawlEnds \/ CrawlerStops
    BY <2>4 DEF CrawlBegins, CrawlEnds, CrawlerStops
  <2> QED  BY <1>2, <2>1, <2>3, <2>4 DEF CrawlStep
<1>3. ASSUME NEW s \in Subscriptions, SubStep(s)
      PROVE  [Next]_vars
  <2>1. CASE SubSends(s)
    BY <2>1, SubmitIsDiscover DEF SubSends, SourcesInv, SendersHoldUrls
  <2>2. CASE ~SubSends(s)
    BY <1>3, <2>2 DEF SubStep, SubConnects, SubFails, SubHears, SubCloses, SubRetries, SubStops
  <2> QED  BY <2>1, <2>2
<1>4. ASSUME NEW h \in Handlers, SubmitEnds(h)
      PROVE  Next
  BY <1>4 DEF SubmitEnds, SourcesInv, SendersHoldUrls, Next, AdminStep, AdminSubmit
<1>5. ASSUME NEW h \in Handlers, NEW u \in AdminUrls, SubmitBegins(h, u)
      PROVE  UNCHANGED vars
  BY <1>5 DEF SubmitBegins
<1>6. CASE AdminChanges \/ PipelineStep
  BY <1>6 DEF AdminChanges, PipelineStep, Next, AdminStep
<1>7. CASE Stop \/ Exit \/ Crash \/ UNCHANGED sourcesVars
  BY <1>7 DEF Stop, Exit, Crash, sourcesVars, Next
<1> QED  BY <1>1, <1>2, <1>3, <1>4, <1>5, <1>6, <1>7 DEF SourcesNext

\* The pipeline with its sources, their retries, a shutdown and a crash does
\* nothing that DiscoveryPipeline does not allow.
THEOREM SourcesImplementPipeline == SourcesSpec => RefinesPipeline
<1>1. SourcesInit => Init
  BY DEF SourcesInit
<1>2. SourcesSpec => []SourcesInv
  BY SourcesInvInit, SourcesInvStep, PTL DEF SourcesSpec
<1> QED
  BY <1>1, <1>2, SourcesStepImplements, PTL DEF SourcesSpec, RefinesPipeline, Spec

\* So what is proved of the pipeline holds with its sources: no URL is forwarded
\* twice, and what is monitored was recorded.
THEOREM SourcesForwardOnce == SourcesSpec => []ForwardedAtMostOnce
BY SourcesImplementPipeline, ForwardedOnce, PTL DEF RefinesPipeline

THEOREM SourcesMonitorRecorded == SourcesSpec => []MonitoredIsRecorded
BY SourcesImplementPipeline, MonitoredRecorded, PTL DEF RefinesPipeline

\* Nor is a discovery forgotten, however the sources stop, and a barred relay stays out.
THEOREM SourcesForgetNothing == SourcesSpec => []NothingForgotten
BY SourcesImplementPipeline, DiscoveriesKept, PTL DEF RefinesPipeline

THEOREM SourcesKeepBarredOut == SourcesSpec => []BarredStaysOut
BY SourcesImplementPipeline, BarredKeptOut, PTL DEF RefinesPipeline

\* Discovery with its sources implements the registry of relays that is promised.
THEOREM SourcesImplementRegistry == SourcesSpec => RefinesRegistry
BY SourcesImplementPipeline, PipelineImplementsRegistry, PTL DEF RefinesPipeline

----------------------------------------------------------------------------
(* The back-off of the NIP-66 subscriptions *)

\* The initial delay doubled n times, and what the longest delay leaves of it.
Uncapped(n) == InitialDelay * PowerOf2[n]
Capped(n) == IF Uncapped(n) > MaxDelay THEN MaxDelay ELSE Uncapped(n)

LEMMA UncappedDoubles ==
  /\ Uncapped(0) = InitialDelay
  /\ \A n \in Nat : Uncapped(n) \in Nat \ {0} /\ Uncapped(n + 1) = 2 * Uncapped(n)
<1> USE SourcesAssumption
<1>1. Uncapped(0) = InitialDelay
  BY PowerOf2Values DEF Uncapped
<1>2. ASSUME NEW n \in Nat
      PROVE  Uncapped(n) \in Nat \ {0} /\ Uncapped(n + 1) = 2 * Uncapped(n)
  <2>1. PowerOf2[n] \in Nat \ {0} /\ PowerOf2[n + 1] = 2 * PowerOf2[n]
    BY PowerOf2Type, PowerOf2Values
  <2>2. \A i, p \in Nat \ {0} : i * p \in Nat \ {0} /\ i * (2 * p) = 2 * (i * p)
    OBVIOUS
  <2> QED  BY <2>1, <2>2 DEF Uncapped
<1> QED  BY <1>1, <1>2

\* Backoff.Next: what follows the delay of the n-th wait is that of the next.
LEMMA CappedDoubles ==
  /\ Capped(0) = InitialDelay
  /\ \A n \in Nat : Doubled(Capped(n)) = Capped(n + 1)
<1> USE SourcesAssumption, UncappedDoubles
<1>1. Capped(0) = InitialDelay
  BY DEF Capped
<1>2. ASSUME NEW n \in Nat PROVE Doubled(Capped(n)) = Capped(n + 1)
  BY DEF Capped, Doubled
<1> QED  BY <1>1, <1>2

\* The delay that the Tracker keeps is that of the next wait, and a subscription that
\* waits does so for the delay before it.
WaitInv(r) ==
  /\ backoff[r] = Capped(waits[r])
  /\ subs[<<"nip66", r>>].pc = "wait" =>
       /\ waits[r] # 0
       /\ wait[<<"nip66", r>>] = Capped(waits[r] - 1)

BackoffInv == \A r \in SeedRelays : WaitInv(r)

LEMMA BackoffStart ==
  /\ SourcesInit => BackoffInv
  /\ Started(enabled') => BackoffInv'
<1>1. \A r \in SeedRelays : <<"nip66", r>> \in Subscriptions
  BY DEF Subscriptions, Feeds
<1>2. ASSUME SourcesInit PROVE BackoffInv
  BY <1>1, <1>2, CappedDoubles DEF SourcesInit, BackoffInv, WaitInv
<1>3. ASSUME Started(enabled') PROVE BackoffInv'
  BY <1>1, <1>3, CappedDoubles DEF Started, BackoffInv, WaitInv
<1> QED  BY <1>2, <1>3

\* A subscription of another relay or of the peers changes nothing of this one's.
LEMMA BackoffWait ==
  ASSUME Uncapped(WaitsBound - 1) >= MaxDelay, SourcesInv, BackoffInv,
         NEW s \in Subscriptions, NEW connected \in BOOLEAN, WaitAfter(s, connected)
  PROVE  BackoffInv'
<1> USE SourcesAssumption
<1> SUFFICES ASSUME NEW r \in SeedRelays PROVE WaitInv(r)'
  BY DEF BackoffInv
<1> DEFINE t == <<"nip66", r>>
<1>1. /\ t \in Subscriptions /\ t[1] = "nip66" /\ t[2] = r
      /\ WaitInv(r) /\ waits[r] \in 0..WaitsBound
  BY DEF Subscriptions, Feeds, BackoffInv, SourcesInv, SourcesTypeOK
<1>2. CASE s # t
  <2>1. s[1] = "nip66" => s[2] # r
    BY <1>2 DEF Subscriptions
  <2>2. /\ subs'[t] = subs[t] /\ wait'[t] = wait[t]
        /\ backoff'[r] = backoff[r] /\ waits'[r] = waits[r]
    BY <1>1, <1>2, <2>1 DEF WaitAfter, SourcesInv, SourcesTypeOK
  <2> QED  BY <1>1, <2>2 DEF WaitInv
<1>3. CASE s = t
  <2> DEFINE before == IF connected THEN 0 ELSE waits[r]
             after == IF before = WaitsBound THEN before ELSE before + 1
  <2>1. (IF connected THEN InitialDelay ELSE backoff[r]) = Capped(before)
    BY <1>1, CappedDoubles DEF WaitInv
  <2>2. /\ wait'[t] = Capped(before)
        /\ backoff'[r] = Doubled(Capped(before))
        /\ waits'[r] = after
    BY <1>1, <1>3, <2>1 DEF WaitAfter, SourcesInv, SourcesTypeOK
  <2>3. before \in 0..WaitsBound
    BY <1>1
  <2> HIDE DEF before
  <2>4. CASE before # WaitsBound
    <3>1. before \in Nat /\ after = before + 1 /\ after - 1 = before /\ after # 0
      BY <2>3, <2>4
    <3>2. Doubled(Capped(before)) = Capped(after)
      BY <3>1, CappedDoubles
    <3> QED  BY <2>2, <3>1, <3>2 DEF WaitInv
  <2>5. CASE before = WaitsBound
    <3>1. WaitsBound - 1 \in Nat /\ (WaitsBound - 1) + 1 = WaitsBound
      OBVIOUS
    <3>2. Capped(WaitsBound - 1) = MaxDelay /\ Capped(WaitsBound) = MaxDelay
      <4>1. Uncapped(WaitsBound - 1) \in Nat \ {0}
            /\ Uncapped(WaitsBound) = 2 * Uncapped(WaitsBound - 1)
        BY <3>1, UncappedDoubles
      <4> QED  BY <4>1 DEF Capped
    <3>3. Doubled(MaxDelay) = MaxDelay
      BY DEF Doubled
    <3>4. after = WaitsBound /\ WaitsBound # 0
      BY <2>5
    <3> QED  BY <2>2, <2>5, <3>2, <3>3, <3>4 DEF WaitInv
  <2> QED  BY <2>4, <2>5
<1> QED  BY <1>2, <1>3

LEMMA BackoffStep ==
  ASSUME Uncapped(WaitsBound - 1) >= MaxDelay, SourcesInv, BackoffInv,
         [SourcesNext]_sourcesVars
  PROVE  BackoffInv'
<1>1. CASE Exit \/ Crash
  BY <1>1, BackoffStart DEF Exit, Crash
<1>2. CASE UNCHANGED <<subs, backoff, wait, waits>>
  BY <1>2 DEF BackoffInv, WaitInv
<1>3. ASSUME NEW s \in Subscriptions, SubStep(s) PROVE BackoffInv'
  <2>1. CASE SubFails(s) \/ SubCloses(s)
    BY <2>1, BackoffWait DEF SubFails, SubCloses
  <2>2. CASE SubConnects(s) \/ SubHears(s) \/ SubSends(s) \/ SubRetries(s) \/ SubStops(s)
    <3>1. UNCHANGED <<backoff, waits>>
      BY <2>2 DEF SubConnects, SubHears, SubSends, SubRetries, SubStops
    <3>2. ASSUME NEW r \in SeedRelays, subs'[<<"nip66", r>>].pc = "wait"
          PROVE  /\ subs[<<"nip66", r>>].pc = "wait"
                 /\ wait'[<<"nip66", r>>] = wait[<<"nip66", r>>]
      <4> DEFINE t == <<"nip66", r>>
      <4>1. t \in Subscriptions
        BY DEF Subscriptions, Feeds
      <4>2. subs'[s].pc # "wait"
        BY <2>2 DEF SubConnects, SubHears, SubSends, SubRetries, SubStops, Off, SourcesInv,
          SourcesTypeOK
      <4>3. t # s
        BY <3>2, <4>2
      <4>4. subs'[t] = subs[t] /\ wait'[t] = wait[t]
        BY <2>2, <4>1, <4>3 DEF SubConnects, SubHears, SubSends, SubRetries, SubStops,
          SourcesInv, SourcesTypeOK
      <4> QED  BY <3>2, <4>4
    <3> QED  BY <3>1, <3>2 DEF BackoffInv, WaitInv
  <2> QED  BY <1>3, <2>1, <2>2 DEF SubStep
<1>4. CASE \/ HostedTick \/ HostedSend \/ HostedStep \/ CrawlStep
           \/ \E h \in Handlers : SubmitEnds(h) \/ \E u \in AdminUrls : SubmitBegins(h, u)
           \/ AdminChanges \/ PipelineStep \/ Stop \/ UNCHANGED sourcesVars
  BY <1>2, <1>4 DEF HostedStep, HostedTick, HostedSend, HostedFetch, HostedSent, HostedStops,
    HostedUnchanged, CrawlStep, CrawlBegins, CrawlEnds, CrawlerStops, WorkerAcquires,
    WorkerConnects, WorkerHears, WorkerSends, WorkerLeaves, CrawlUnchanged, SubmitEnds,
    SubmitBegins, AdminUnchangedSources, AdminChanges, PipelineStep, Stop, sources, sourcesVars
<1> QED  BY <1>1, <1>3, <1>4 DEF SourcesNext

\* backoff.go: the k-th wait of a subscription since it was last connected takes the
\* initial delay doubled k - 1 times, up to the longest, for any delays and however
\* connections, failures, restarts and the other subscriptions interleave.  The waits
\* must be counted until the longest delay is reached.
THEOREM BackoffDoubles ==
  ASSUME InitialDelay * PowerOf2[WaitsBound - 1] >= MaxDelay
  PROVE  SourcesSpec => []BackoffFits
<1>1. Uncapped(WaitsBound - 1) >= MaxDelay
  BY DEF Uncapped
<1>2. BackoffInv => BackoffFits
  BY DEF BackoffInv, WaitInv, BackoffFits, Capped, Uncapped
<1> QED
  BY <1>1, <1>2, SourcesInvInit, SourcesInvStep, BackoffStart, BackoffStep, PTL
  DEF SourcesSpec
=============================================================================
