--------------------------- MODULE DiscoverySources ---------------------------
(***************************************************************************)
(* The sources that feed the discovery pipeline, in place of its Discover: *)
(* the hosted list, the NIP-65 crawler, one subscription for each seed     *)
(* relay to NIP-66 monitors and one to trusted peers, and administrators   *)
(* who submit a relay.  All block while the channel is full, and all but   *)
(* the last give up when the process shuts down.                           *)
(*                                                                         *)
(* Timers are not measured: a wait is an action that the fairness fires.   *)
(* The delays of the NIP-66 back-off are kept, without their jitter.       *)
(***************************************************************************)
EXTENDS DiscoveryPipeline, PowersOf2

CONSTANTS
  Configurations,             \* the sources that may be switched on together
  Offers,                     \* the spellings that each source may find
  nip65ConcurrentConnections, \* connections of one crawl at a time
  InitialDelay, MaxDelay,     \* backoff.DefaultTracker; its factor is 2
  peerDiscoveryTimeout,       \* the delay of the peers' subscriptions
  WaitsBound                  \* bound: the waits in a row are counted up to it

\* The hosted list is fetched once if HostedRelayListInterval is 0.
Sources == {"hosted", "hosted once", "nip65", "nip66", "peers", "admin"}
Feeds == {"nip66", "peers"}
Subscriptions == Feeds \X SeedRelays

ASSUME SourcesAssumption ==
  /\ Configurations \subseteq SUBSET Sources
  /\ Offers \in [Sources \ {"admin"} -> SUBSET SourceUrls]
  /\ nip65ConcurrentConnections \in Nat \ {0}
  /\ InitialDelay \in Nat \ {0}
  /\ MaxDelay \in Nat /\ InitialDelay =< MaxDelay
  /\ peerDiscoveryTimeout \in Nat
  /\ WaitsBound \in Nat \ {0}

VARIABLES
  enabled,     \* the configured sources
  phase,       \* "running", or "stopping" once main called bgCancel
  hosted,      \* HostedFetcher.Start: [pc, todo]
  crawl,       \* NIP65Crawler.Start: [pc, slots], slots counts sem
  workers,     \* the goroutine of each crawled relay: [pc, url]
  subs,        \* each subscribeToRelay: [pc, url]
  backoff,     \* the delay Tracker keeps for each relay
  submits,     \* the URL each admin request is submitting
  \* history, read by the properties alone
  wait,        \* the delay each subscription waits for
  waits        \* waits of each NIP-66 subscription since it was connected

sources == <<hosted, crawl, workers, subs, backoff, submits, wait, waits>>
sourcesVars == <<vars, enabled, phase, sources>>

Busy == {"connect", "listen", "send"}
Off == [pc |-> "off", url |-> NoUrl]

SourcesTypeOK ==
  /\ enabled \in Configurations
  /\ phase \in {"running", "stopping"}
  /\ hosted \in [pc : {"fetch", "send", "tick", "off"}, todo : SUBSET SourceUrls]
  /\ crawl \in [pc : {"start", "crawl", "tick", "off"},
                slots : 0..nip65ConcurrentConnections]
  /\ workers \in [Url -> [pc : {"off", "queue"} \cup Busy, url : SourceUrls \cup {NoUrl}]]
  /\ subs \in [Subscriptions -> [pc : {"off", "wait"} \cup Busy,
                                 url : SourceUrls \cup {NoUrl}]]
  /\ backoff \in [SeedRelays -> InitialDelay..MaxDelay]
  /\ submits \in [Handlers -> AdminUrls \cup {NoUrl}]
  /\ wait \in [Subscriptions -> Nat]
  /\ waits \in [SeedRelays -> 0..WaitsBound]
  \* each connection of a crawl holds one slot of the semaphore
  /\ crawl.slots = Cardinality({w \in Url : workers[w].pc \in Busy})

\* Coordinator.Start and the sources' own Start.
Started(on) ==
  /\ phase' = "running"
  /\ hosted' = [pc |-> IF {"hosted", "hosted once"} \cap on # {} THEN "fetch" ELSE "off", todo |-> {}]
  /\ crawl' = [pc |-> IF "nip65" \in on THEN "start" ELSE "off", slots |-> 0]
  /\ workers' = [w \in Url |-> Off]
  /\ subs' = [s \in Subscriptions |->
                [pc |-> IF s[1] \in on THEN "connect" ELSE "off", url |-> NoUrl]]
  /\ backoff' = [r \in SeedRelays |-> InitialDelay]
  /\ submits' = [h \in Handlers |-> NoUrl]
  /\ wait' = [s \in Subscriptions |-> 0]
  /\ waits' = [r \in SeedRelays |-> 0]

SourcesInit ==
  /\ Init
  /\ enabled \in Configurations
  /\ phase = "running"
  /\ hosted = [pc |-> IF {"hosted", "hosted once"} \cap enabled # {} THEN "fetch" ELSE "off", todo |-> {}]
  /\ crawl = [pc |-> IF "nip65" \in enabled THEN "start" ELSE "off", slots |-> 0]
  /\ workers = [w \in Url |-> Off]
  /\ subs = [s \in Subscriptions |->
               [pc |-> IF s[1] \in enabled THEN "connect" ELSE "off", url |-> NoUrl]]
  /\ backoff = [r \in SeedRelays |-> InitialDelay]
  /\ submits = [h \in Handlers |-> NoUrl]
  /\ wait = [s \in Subscriptions |-> 0]
  /\ waits = [r \in SeedRelays |-> 0]

Stopping == phase = "stopping"

----------------------------------------------------------------------------
(***************************************************************************)
(* The hosted list.                                                        *)
(***************************************************************************)

HostedUnchanged ==
  UNCHANGED <<enabled, phase, crawl, workers, subs, backoff, submits, wait, waits>>

HostedTick ==
  /\ hosted.pc = "tick"
  /\ hosted' = [hosted EXCEPT !.pc = "fetch"]
  /\ UNCHANGED vars /\ HostedUnchanged

\* The list, or nothing if the request failed.
HostedFetch ==
  /\ hosted.pc = "fetch"
  /\ \E list \in {Offers[s] : s \in enabled \cap {"hosted", "hosted once"}} \cup {{}} :
        hosted' = [pc |-> "send", todo |-> list]
  /\ UNCHANGED vars /\ HostedUnchanged

HostedSend ==
  /\ hosted.pc = "send"
  /\ \E u \in hosted.todo :
        Submit(u) /\ hosted' = [hosted EXCEPT !.todo = @ \ {u}]
  /\ HostedUnchanged

HostedSent ==
  /\ hosted.pc = "send" /\ hosted.todo = {}
  /\ hosted' = [hosted EXCEPT !.pc =
                  IF "hosted once" \in enabled THEN "off" ELSE "tick"]
  /\ UNCHANGED vars /\ HostedUnchanged

HostedStops ==
  /\ Stopping /\ hosted.pc # "off"
  /\ hosted' = [pc |-> "off", todo |-> {}]
  /\ UNCHANGED vars /\ HostedUnchanged

HostedStep == HostedFetch \/ HostedSent \/ HostedStops

----------------------------------------------------------------------------
(***************************************************************************)
(* The NIP-65 crawler: crawl starts one goroutine for each relay of the    *)
(* configuration and the whitelist, and waits for all of them.             *)
(***************************************************************************)

CrawlUnchanged == UNCHANGED <<enabled, phase, hosted, subs, backoff, submits, wait, waits>>

\* A read of the whitelist that fails leaves the seed relays.
CrawlBegins ==
  /\ crawl.pc \in {"start", "tick"}
  /\ \E also \in {whitelist, {}} :
        workers' = [w \in Url |-> IF w \in SeedRelays \cup also
                                  THEN [Off EXCEPT !.pc = "queue"] ELSE Off]
  /\ crawl' = [pc |-> "crawl", slots |-> 0]
  /\ UNCHANGED vars /\ CrawlUnchanged

WorkerAcquires(w) ==
  /\ workers[w].pc = "queue"
  /\ crawl.slots < nip65ConcurrentConnections
  /\ crawl' = [crawl EXCEPT !.slots = @ + 1]
  /\ workers' = [workers EXCEPT ![w].pc = "connect"]
  /\ UNCHANGED vars /\ CrawlUnchanged

WorkerConnects(w) ==
  /\ workers[w].pc = "connect"
  /\ workers' = [workers EXCEPT ![w].pc = "listen"]
  /\ UNCHANGED <<vars, crawl>> /\ CrawlUnchanged

\* An "r" tag of an event of kind 10002, while the crawl has not timed out.
WorkerHears(w) ==
  /\ workers[w].pc = "listen"
  /\ \E u \in Offers["nip65"] : workers' = [workers EXCEPT ![w] = [pc |-> "send", url |-> u]]
  /\ UNCHANGED <<vars, crawl>> /\ CrawlUnchanged

WorkerSends(w) ==
  /\ workers[w].pc = "send"
  /\ Submit(workers[w].url)
  /\ workers' = [workers EXCEPT ![w] = [pc |-> "listen", url |-> NoUrl]]
  /\ UNCHANGED crawl /\ CrawlUnchanged

\* Mutant: a relay that does not answer keeps its slot.
WorkerLeavesSilently(w) ==
  /\ workers[w].pc \in Busy
  /\ crawl' = [crawl EXCEPT !.slots = IF workers[w].pc = "connect" THEN @ ELSE @ - 1]
  /\ workers' = [workers EXCEPT ![w] = Off]
  /\ UNCHANGED vars /\ CrawlUnchanged

\* No connection, a closed one, nip65EventTimeout, nip65CrawlTimeout (which ends a
\* blocked send too), or the shutdown: the deferred calls give the slot back.
WorkerLeaves(w) ==
  /\ workers[w].pc \in Busy
  /\ crawl' = [crawl EXCEPT !.slots = @ - 1]
  /\ workers' = [workers EXCEPT ![w] = Off]
  /\ UNCHANGED vars /\ CrawlUnchanged

\* wg.Wait returns.
CrawlEnds ==
  /\ crawl.pc = "crawl"
  /\ \A w \in Url : workers[w].pc = "off"
  /\ crawl' = [crawl EXCEPT !.pc = "tick"]
  /\ UNCHANGED <<vars, workers>> /\ CrawlUnchanged

CrawlerStops ==
  /\ Stopping /\ crawl.pc = "tick"
  /\ crawl' = [crawl EXCEPT !.pc = "off"]
  /\ UNCHANGED <<vars, workers>> /\ CrawlUnchanged

CrawlStep ==
  \/ CrawlBegins \/ CrawlEnds \/ CrawlerStops
  \/ \E w \in Url : \/ WorkerAcquires(w) \/ WorkerConnects(w) \/ WorkerHears(w)
                    \/ WorkerSends(w) \/ WorkerLeaves(w)

----------------------------------------------------------------------------
(***************************************************************************)
(* The subscriptions, to NIP-66 monitors and to trusted peers.             *)
(***************************************************************************)

SubUnchanged == UNCHANGED <<enabled, phase, hosted, crawl, workers, submits>>

Doubled(delay) == IF 2 * delay > MaxDelay THEN MaxDelay ELSE 2 * delay

\* Mutant: a connection does not reset the back-off.
WaitAfterNoReset(s, connected) ==
  /\ subs' = [subs EXCEPT ![s] = [pc |-> "wait", url |-> NoUrl]]
  /\ IF s[1] = "nip66"
     THEN LET current == backoff[s[2]]
              before == IF connected THEN 0 ELSE waits[s[2]]
          IN  /\ wait' = [wait EXCEPT ![s] = current]
              /\ backoff' = [backoff EXCEPT ![s[2]] = Doubled(current)]
              /\ waits' = [waits EXCEPT ![s[2]] =
                             IF before = WaitsBound THEN before ELSE before + 1]
     ELSE /\ wait' = [wait EXCEPT ![s] = peerDiscoveryTimeout]
          /\ UNCHANGED <<backoff, waits>>

\* Backoff.Next after a Reset if there was a connection; a fixed delay for peers.
WaitAfter(s, connected) ==
  /\ subs' = [subs EXCEPT ![s] = [pc |-> "wait", url |-> NoUrl]]
  /\ IF s[1] = "nip66"
     THEN LET current == IF connected THEN InitialDelay ELSE backoff[s[2]]
              before == IF connected THEN 0 ELSE waits[s[2]]
          IN  /\ wait' = [wait EXCEPT ![s] = current]
              /\ backoff' = [backoff EXCEPT ![s[2]] = Doubled(current)]
              /\ waits' = [waits EXCEPT ![s[2]] =
                             IF before = WaitsBound THEN before ELSE before + 1]
     ELSE /\ wait' = [wait EXCEPT ![s] = peerDiscoveryTimeout]
          /\ UNCHANGED <<backoff, waits>>

SubConnects(s) ==
  /\ subs[s].pc = "connect"
  /\ subs' = [subs EXCEPT ![s].pc = "listen"]
  /\ UNCHANGED <<vars, backoff, wait, waits>> /\ SubUnchanged

\* Mutant: the goroutine of a relay that cannot be reached ends.
SubFailsForGood(s) ==
  /\ subs[s].pc = "connect"
  /\ subs' = [subs EXCEPT ![s] = Off]
  /\ UNCHANGED <<vars, backoff, wait, waits>> /\ SubUnchanged

\* No connection or subscription; for peers also: nobody is trusted.
SubFails(s) ==
  /\ subs[s].pc = "connect"
  /\ WaitAfter(s, FALSE)
  /\ UNCHANGED vars /\ SubUnchanged

SubHears(s) ==
  /\ subs[s].pc = "listen"
  /\ \E u \in Offers[s[1]] : subs' = [subs EXCEPT ![s] = [pc |-> "send", url |-> u]]
  /\ UNCHANGED <<vars, backoff, wait, waits>> /\ SubUnchanged

SubSends(s) ==
  /\ subs[s].pc = "send"
  /\ Submit(subs[s].url)
  /\ subs' = [subs EXCEPT ![s] = [pc |-> "listen", url |-> NoUrl]]
  /\ UNCHANGED <<backoff, wait, waits>> /\ SubUnchanged

\* The relay closes the connection.
SubCloses(s) ==
  /\ subs[s].pc = "listen"
  /\ WaitAfter(s, TRUE)
  /\ UNCHANGED vars /\ SubUnchanged

SubRetries(s) ==
  /\ subs[s].pc = "wait"
  /\ subs' = [subs EXCEPT ![s].pc = "connect"]
  /\ wait' = [wait EXCEPT ![s] = 0]
  /\ UNCHANGED <<vars, backoff, waits>> /\ SubUnchanged

SubStops(s) ==
  /\ Stopping /\ subs[s].pc # "off"
  /\ subs' = [subs EXCEPT ![s] = Off]
  /\ wait' = [wait EXCEPT ![s] = 0]
  /\ UNCHANGED <<vars, backoff, waits>> /\ SubUnchanged

SubStep(s) ==
  \/ SubConnects(s) \/ SubFails(s) \/ SubHears(s) \/ SubSends(s)
  \/ SubCloses(s) \/ SubRetries(s) \/ SubStops(s)

----------------------------------------------------------------------------
(***************************************************************************)
(* Administrators: RelaysHandler calls SubmitRelay, which blocks while the *)
(* channel is full, with no regard to the request's context.               *)
(***************************************************************************)

AdminUnchangedSources ==
  UNCHANGED <<enabled, phase, hosted, crawl, workers, subs, backoff, wait, waits>>

\* Mutant: the URL of the request is not validated.
SubmitBeginsUnchecked(h, u) ==
  /\ "admin" \in enabled
  /\ submits[h] = NoUrl /\ admin[h].pc = "idle"
  /\ submits' = [submits EXCEPT ![h] = u]
  /\ UNCHANGED vars /\ AdminUnchangedSources

SubmitBegins(h, u) ==
  /\ "admin" \in enabled
  /\ submits[h] = NoUrl /\ admin[h].pc = "idle"
  /\ validRelayURL(u)
  /\ submits' = [submits EXCEPT ![h] = u]
  /\ UNCHANGED vars /\ AdminUnchangedSources

SubmitEnds(h) ==
  /\ submits[h] # NoUrl
  /\ Submit(submits[h])
  /\ submits' = [submits EXCEPT ![h] = NoUrl]
  /\ AdminUnchangedSources

\* The other admin requests, of the handlers that are not submitting.
AdminChanges ==
  /\ "admin" \in enabled
  /\ AdminChange
  /\ \A h \in Handlers : admin'[h] # admin[h] => submits[h] = NoUrl
  /\ UNCHANGED <<enabled, phase, sources>>

----------------------------------------------------------------------------
(***************************************************************************)
(* The end of the process.                                                 *)
(***************************************************************************)

\* main receives a signal and calls bgCancel.
Stop ==
  /\ phase = "running" /\ restarts < MaxRestarts
  /\ phase' = "stopping"
  /\ UNCHANGED <<vars, enabled, sources>>

\* Mutant: the shutdown of the HTTP server waits for its requests without limit.
ExitWhenIdle ==
  /\ Stopping
  /\ \A h \in Handlers : submits[h] = NoUrl
  /\ Restart /\ Started(enabled) /\ UNCHANGED enabled

\* server.Shutdown waits for the requests, for 30 s at most; then main returns,
\* and the process is started again.
Exit ==
  /\ Stopping
  /\ Restart /\ Started(enabled) /\ UNCHANGED enabled

Crash ==
  /\ phase = "running"
  /\ Restart /\ Started(enabled) /\ UNCHANGED enabled

PipelineStep ==
  /\ CoordStep \/ CoordRedisError \/ MonitorStep \/ MonitorRedisError
  /\ UNCHANGED <<enabled, phase, sources>>

SourcesNext ==
  \/ HostedTick \/ HostedSend \/ HostedStep
  \/ CrawlStep
  \/ \E s \in Subscriptions : SubStep(s)
  \/ \E h \in Handlers : SubmitEnds(h) \/ \E u \in AdminUrls : SubmitBegins(h, u)
  \/ AdminChanges
  \/ PipelineStep
  \/ Stop \/ Exit \/ Crash

SourcesSpec == SourcesInit /\ [][SourcesNext]_sourcesVars

(***************************************************************************)
(* The pipeline's loops run until bgCancel.  A channel serves its blocked  *)
(* senders in the order they came: a sender that finds room again and      *)
(* again gets through.  Attempts to connect end, timers fire, a timer that *)
(* has fired wins some select, and a process that was told to stop ends.   *)
(* Nothing is assumed of what relays send and of connections that last.    *)
(***************************************************************************)
SourcesFairness ==
  /\ WF_sourcesVars(phase = "running" /\ CoordStep /\ UNCHANGED <<enabled, phase, sources>>)
  /\ WF_sourcesVars(phase = "running" /\ MonitorStep /\ UNCHANGED <<enabled, phase, sources>>)
  /\ SF_sourcesVars(phase = "running" /\ MonitorReceive
                      /\ UNCHANGED <<enabled, phase, sources>>)
  /\ WF_sourcesVars(HostedStep) /\ SF_sourcesVars(HostedSend)
  /\ WF_sourcesVars(CrawlBegins \/ CrawlEnds \/ \E w \in Url : WorkerAcquires(w))
  /\ SF_sourcesVars(\E w \in Url : WorkerLeaves(w))
  /\ \A s \in Subscriptions : /\ WF_sourcesVars(SubConnects(s) \/ SubFails(s))
                              /\ SF_sourcesVars(SubSends(s))
                              /\ WF_sourcesVars(SubRetries(s))
  /\ \A h \in Handlers : SF_sourcesVars(SubmitEnds(h))
  /\ WF_sourcesVars(Exit)

SourcesFairSpec == SourcesSpec /\ SourcesFairness

----------------------------------------------------------------------------
(* Properties *)

\* What the sources do to the pipeline is what DiscoveryPipeline lets any source
\* and any administrator do, shutdown and restart included.
RefinesPipeline == Spec

\* A crawl ends, so that lastCrawl moves and the next one starts: no relay that is
\* silent, endless or waiting for a full channel keeps the others from their turn.
CrawlReturns == crawl.pc = "crawl" ~> crawl.pc # "crawl"

\* Whatever a relay did to its subscription, it is tried again.
SubscriptionsReturn ==
  \A s \in Subscriptions :
    (s[1] \in enabled) => []<>(subs[s].pc \in {"connect", "listen"})

\* A request that submits a relay is answered, or ends with the process: it does
\* not wait for ever on a channel that nobody reads any more.
SubmitReturns == \A h \in Handlers : submits[h] # NoUrl ~> submits[h] = NoUrl

\* backoff.go: the k-th wait since a relay was last connected, or since the start,
\* takes the initial delay doubled k - 1 times, up to the longest, whatever the
\* relay's subscription went through before.
BackoffFits ==
  \A r \in SeedRelays :
    LET s == <<"nip66", r>>
        delay == InitialDelay * PowerOf2[waits[r] - 1]
    IN  subs[s].pc = "wait" => wait[s] = IF delay > MaxDelay THEN MaxDelay ELSE delay
=============================================================================
