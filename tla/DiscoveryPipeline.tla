-------------------------- MODULE DiscoveryPipeline --------------------------
(***************************************************************************)
(* How a relay URL travels from a discovery source, or an administrator,   *)
(* into the set of monitored relays:                                       *)
(*                                                                         *)
(*   sources --discoveries--> Coordinator --discoveryInput--> Monitor      *)
(*   admin handlers --------> (SubmitRelay, white/blacklist, AddRelay)     *)
(*                                                                         *)
(* The Coordinator, the Monitor and the admin handlers are goroutines of   *)
(* one process.  They share two bounded channels, the monitor's in-memory  *)
(* map and sets kept in Redis; each call to Redis is a step of its own.    *)
(* A restart loses the process's memory and keeps what Redis holds.        *)
(***************************************************************************)
EXTENDS RelayUrls, Sequences, FiniteSets

CONSTANTS
  SourceUrls,       \* the spellings the sources find
  AdminUrls,        \* the spellings administrators use
  Handlers,         \* admin requests that can be in progress at once
  SeedRelays,       \* cfg.SeedRelays
  Whitelisted,      \* the whitelist that Redis holds at the first start
  DiscoveryBuffer,  \* capacity of the discoveries channel
  InputBuffer,      \* capacity of the monitor's discovery channel
  MaxRestarts       \* bound: how often the process restarts

ASSUME PipelineAssumption ==
  /\ SourceUrls \subseteq Url
  /\ AdminUrls \subseteq Url
  /\ SeedRelays \subseteq Url
  /\ Whitelisted \subseteq Url
  /\ DiscoveryBuffer \in Nat \ {0}
  /\ InputBuffer \in Nat \ {0}
  /\ MaxRestarts \in Nat

VARIABLES
  \* kept in Redis
  seen,             \* discovery:seen
  blacklist,        \* admin:blacklist
  whitelist,        \* admin:whitelist
  \* kept in memory
  discoveries,      \* the channel the sources and SubmitRelay write
  coord,            \* processDiscoveries: [pc, url]
  discoveryInput,   \* the channel of URLs the monitor reads
  monitor,          \* Monitor.Start: [pc, url, todo]
  knownRelays,      \* Monitor.knownRelays
  admin,            \* each handler: [pc, url]
  restarts,
  \* history, read by the properties alone
  forwarded,        \* how often each URL was sent to the monitor
  everWhitelisted,  \* the URLs ever put on the whitelist
  forgone,          \* relays given up since the start: dropped, refused, removed
  barred            \* relays blacklisted, removed, and due to stay out

redis == <<seen, blacklist, whitelist>>
history == <<forwarded, everWhitelisted, forgone, barred>>
vars == <<redis, discoveries, coord, discoveryInput, monitor, knownRelays,
          admin, restarts, history>>

Booting == {"seeds", "whitelist", "seen"}

IdleCoord == [pc |-> "idle", url |-> NoUrl]
IdleAdmin == [pc |-> "idle", url |-> NoUrl]
BootMonitor == [pc |-> "seeds", url |-> NoUrl, todo |-> SeedRelays]

TypeOK ==
  /\ seen \subseteq Url
  /\ blacklist \subseteq Url
  /\ whitelist \subseteq Url
  /\ discoveries \in Seq(Url)
  /\ Len(discoveries) =< DiscoveryBuffer
  /\ coord \in [pc : {"idle", "check", "mark", "send"},
                url : Url \cup {NoUrl}]
  /\ coord.pc # "idle" => coord.url \in Url
  /\ discoveryInput \in Seq(Url)
  /\ Len(discoveryInput) =< InputBuffer
  /\ monitor \in [pc : Booting \cup {"sweep", "select", "check", "add"},
                  url : Url \cup {NoUrl}, todo : SUBSET Url]
  /\ monitor.pc \in {"check", "add"} => monitor.url \in Url
  /\ knownRelays \subseteq Url
  /\ admin \in [Handlers -> [pc : {"idle", "unmonitor", "monitor"},
                             url : Url \cup {NoUrl}]]
  /\ \A h \in Handlers : admin[h].pc # "idle" => admin[h].url \in Url
  /\ restarts \in 0..MaxRestarts
  /\ forwarded \in [Url -> Nat]
  /\ everWhitelisted \subseteq Url
  /\ forgone \subseteq Url
  /\ barred \subseteq Url

Init ==
  /\ seen = {} /\ blacklist = {} /\ whitelist = Whitelisted
  /\ discoveries = <<>>
  /\ coord = IdleCoord
  /\ discoveryInput = <<>>
  /\ monitor = BootMonitor
  /\ knownRelays = {}
  /\ admin = [h \in Handlers |-> IdleAdmin]
  /\ restarts = 0
  /\ forwarded = [u \in Url |-> 0]
  /\ everWhitelisted = Whitelisted
  /\ forgone = {}
  /\ barred = {}

----------------------------------------------------------------------------
(***************************************************************************)
(* The sources and SubmitRelay write to a bounded channel and block while  *)
(* it is full.                                                             *)
(***************************************************************************)

Submit(u) ==
  /\ Len(discoveries) < DiscoveryBuffer
  /\ discoveries' = Append(discoveries, u)
  /\ UNCHANGED <<redis, coord, discoveryInput, monitor, knownRelays, admin,
                 restarts, history>>

Discover == \E u \in SourceUrls : Submit(u)

AdminSubmit == \E u \in AdminUrls : validRelayURL(u) /\ Submit(u)

----------------------------------------------------------------------------
(***************************************************************************)
(* Coordinator.handleDiscoveredRelay, one step for each call to Redis.     *)
(***************************************************************************)

CoordUnchanged ==
  UNCHANGED <<blacklist, whitelist, monitor, knownRelays, admin, restarts,
              everWhitelisted, barred>>

\* Mutant: the empty string is not discarded.
CoordReceiveAny ==
  /\ coord.pc = "idle"
  /\ discoveries # <<>>
  /\ coord' = [pc |-> "check", url |-> normalizeRelayURL(Head(discoveries))]
  /\ discoveries' = Tail(discoveries)
  /\ UNCHANGED <<seen, discoveryInput, forwarded, forgone>>
  /\ CoordUnchanged

CoordReceive ==
  /\ coord.pc = "idle"
  /\ discoveries # <<>>
  /\ LET url == normalizeRelayURL(Head(discoveries))
     IN  coord' = IF url = NoUrl
                  THEN IdleCoord
                  ELSE [pc |-> "check", url |-> url]
  /\ discoveries' = Tail(discoveries)
  /\ UNCHANGED <<seen, discoveryInput, forwarded, forgone>>
  /\ CoordUnchanged

CoordCheckBlacklist ==
  /\ coord.pc = "check"
  /\ coord' = IF coord.url \in blacklist
              THEN IdleCoord ELSE [coord EXCEPT !.pc = "mark"]
  /\ UNCHANGED <<seen, discoveries, discoveryInput,
                 forwarded, forgone>>
  /\ CoordUnchanged

\* Mutant: the reply of SADD is not looked at.
CoordMarkAlwaysNew ==
  /\ coord.pc = "mark"
  /\ seen' = seen \cup {coord.url}
  /\ coord' = [coord EXCEPT !.pc = "send"]
  /\ UNCHANGED <<discoveries, discoveryInput, forwarded, forgone>>
  /\ CoordUnchanged

\* MarkRelaySeen is one SADD: its reply says whether the URL was new.
CoordMarkSeen ==
  /\ coord.pc = "mark"
  /\ seen' = seen \cup {coord.url}
  /\ coord' = IF coord.url \in seen
              THEN IdleCoord ELSE [coord EXCEPT !.pc = "send"]
  /\ UNCHANGED <<discoveries, discoveryInput, forwarded, forgone>>
  /\ CoordUnchanged

\* A call to Redis fails.  The SADD may have taken effect all the same.
CoordRedisError ==
  /\ coord.pc \in {"check", "mark"}
  /\ \/ UNCHANGED <<seen, forgone>>
     \/ /\ coord.pc = "mark"
        /\ seen' = seen \cup {coord.url}
        /\ forgone' = forgone \cup {Bare(coord.url)}
  /\ coord' = IdleCoord
  /\ UNCHANGED <<discoveries, discoveryInput, forwarded>>
  /\ CoordUnchanged

\* Two IncrementStat calls, whose errors are ignored, come first; then a select
\* with a default branch: a full channel drops the relay.
CoordForward ==
  /\ coord.pc = "send"
  /\ IF Len(discoveryInput) < InputBuffer
     THEN /\ discoveryInput' = Append(discoveryInput, coord.url)
          /\ forwarded' = [forwarded EXCEPT ![coord.url] = @ + 1]
          /\ UNCHANGED forgone
     ELSE /\ forgone' = forgone \cup {Bare(coord.url)}
          /\ UNCHANGED <<discoveryInput, forwarded>>
  /\ coord' = IdleCoord
  /\ UNCHANGED <<seen, discoveries>>
  /\ CoordUnchanged

CoordStep ==
  \/ CoordReceive \/ CoordCheckBlacklist \/ CoordMarkSeen \/ CoordForward

----------------------------------------------------------------------------
(***************************************************************************)
(* Monitor.Start: AddRelay for the seeds, the whitelist and the persisted  *)
(* discoveries, a first sweep, then the select loop.  The monitor does not *)
(* read its channel while it loads or sweeps.                              *)
(***************************************************************************)

MonitorUnchanged ==
  UNCHANGED <<redis, discoveries, coord, admin, restarts, forwarded,
              everWhitelisted, barred>>

AddRelay(u) ==
  /\ knownRelays' = knownRelays \cup {normalizeURL(u)}
  /\ forgone' = forgone \ {Bare(u)}

RemoveRelay(u) ==
  /\ knownRelays' = knownRelays \ {normalizeURL(u)}
  /\ forgone' = forgone \cup {Bare(u)}

MonitorLoadOne ==
  /\ monitor.pc \in Booting
  /\ \E u \in monitor.todo :
        /\ AddRelay(u)
        /\ monitor' = [monitor EXCEPT !.todo = @ \ {u}]
  /\ UNCHANGED discoveryInput
  /\ MonitorUnchanged

\* A read that fails loads nothing: its error is dropped.
MonitorReadWhitelist ==
  /\ monitor.pc = "seeds" /\ monitor.todo = {}
  /\ \E read \in {whitelist, {}} :
        monitor' = [monitor EXCEPT !.pc = "whitelist", !.todo = read]
  /\ UNCHANGED <<discoveryInput, knownRelays, forgone>>
  /\ MonitorUnchanged

\* Mutant: the persisted discoveries are not loaded.
MonitorSkipSeen ==
  /\ monitor.pc = "whitelist" /\ monitor.todo = {}
  /\ monitor' = [monitor EXCEPT !.pc = "seen"]
  /\ UNCHANGED <<discoveryInput, knownRelays, forgone>>
  /\ MonitorUnchanged

MonitorReadSeen ==
  /\ monitor.pc = "whitelist" /\ monitor.todo = {}
  /\ \/ /\ monitor' = [monitor EXCEPT !.pc = "seen", !.todo = seen]
        /\ UNCHANGED forgone
     \/ /\ monitor' = [monitor EXCEPT !.pc = "seen"]
        /\ forgone' = forgone \cup {Bare(u) : u \in seen}
  /\ UNCHANGED <<discoveryInput, knownRelays>>
  /\ MonitorUnchanged

MonitorLoaded ==
  /\ monitor.pc = "seen" /\ monitor.todo = {}
  /\ monitor' = [monitor EXCEPT !.pc = "sweep"]
  /\ UNCHANGED <<discoveryInput, knownRelays, forgone>>
  /\ MonitorUnchanged

\* checkAllRelays returns: to this module a sweep is a time of not receiving.
MonitorSweepDone ==
  /\ monitor.pc = "sweep"
  /\ monitor' = [monitor EXCEPT !.pc = "select"]
  /\ UNCHANGED <<discoveryInput, knownRelays, forgone>>
  /\ MonitorUnchanged

MonitorTick ==
  /\ monitor.pc = "select"
  /\ monitor' = [monitor EXCEPT !.pc = "sweep"]
  /\ UNCHANGED <<discoveryInput, knownRelays, forgone>>
  /\ MonitorUnchanged

MonitorReceive ==
  /\ monitor.pc = "select"
  /\ discoveryInput # <<>>
  /\ monitor' = [monitor EXCEPT !.pc = "check",
                                !.url = normalizeURL(Head(discoveryInput))]
  /\ discoveryInput' = Tail(discoveryInput)
  /\ UNCHANGED <<knownRelays, forgone>>
  /\ MonitorUnchanged

\* Mutant: the second look at the blacklist is left out.
MonitorCheckNothing ==
  /\ monitor.pc = "check"
  /\ monitor' = [monitor EXCEPT !.pc = "add"]
  /\ UNCHANGED <<discoveryInput, knownRelays, forgone>>
  /\ MonitorUnchanged

MonitorCheckBlacklist ==
  /\ monitor.pc = "check"
  /\ IF monitor.url \in blacklist
     THEN /\ monitor' = [monitor EXCEPT !.pc = "select", !.url = NoUrl]
          /\ forgone' = forgone \cup {Bare(monitor.url)}
     ELSE /\ monitor' = [monitor EXCEPT !.pc = "add"]
          /\ UNCHANGED forgone
  /\ UNCHANGED <<discoveryInput, knownRelays>>
  /\ MonitorUnchanged

MonitorRedisError ==
  /\ monitor.pc = "check"
  /\ monitor' = [monitor EXCEPT !.pc = "select", !.url = NoUrl]
  /\ forgone' = forgone \cup {Bare(monitor.url)}
  /\ UNCHANGED <<discoveryInput, knownRelays>>
  /\ MonitorUnchanged

\* The map is looked up under monitor.url; AddRelay normalises it once more.
MonitorAdd ==
  /\ monitor.pc = "add"
  /\ IF monitor.url \in knownRelays
     THEN UNCHANGED <<knownRelays, forgone>>
     ELSE AddRelay(monitor.url)
  /\ monitor' = [monitor EXCEPT !.pc = "select", !.url = NoUrl]
  /\ UNCHANGED discoveryInput
  /\ MonitorUnchanged

MonitorStep ==
  \/ MonitorLoadOne \/ MonitorReadWhitelist \/ MonitorReadSeen \/ MonitorLoaded
  \/ MonitorSweepDone \/ MonitorTick
  \/ MonitorReceive \/ MonitorCheckBlacklist \/ MonitorAdd

----------------------------------------------------------------------------
(***************************************************************************)
(* The admin handlers that change a set.  A POST changes Redis first and   *)
(* the monitor's map in a second step; a DELETE is one step.  When Redis   *)
(* fails to answer, the handler returns an error, whatever Redis did.      *)
(***************************************************************************)

AdminUnchanged ==
  UNCHANGED <<seen, discoveries, coord, discoveryInput,
              monitor, restarts, forwarded>>

AdminBlacklistPost(h, u) ==
  /\ admin[h].pc = "idle"
  /\ validRelayURL(u)
  /\ blacklist' = blacklist \cup {u}
  /\ \/ admin' = [admin EXCEPT ![h] = [pc |-> "unmonitor", url |-> u]]
     \/ UNCHANGED admin
  /\ UNCHANGED <<whitelist, knownRelays, everWhitelisted, forgone, barred>>
  /\ AdminUnchanged

\* Only now can the relay be expected to stay out, provided that the monitor is
\* not past its own look at the blacklist and that the entry is spelt the way
\* the monitor spells relays.
AdminUnmonitor(h) ==
  /\ admin[h].pc = "unmonitor"
  /\ RemoveRelay(admin[h].url)
  /\ barred' = barred \cup {u \in {admin[h].url} :
                               /\ u \in blacklist
                               /\ normalizeURL(u) = u
                               /\ monitor.pc \notin Booting
                               /\ ~(monitor.pc = "add" /\ monitor.url = u)}
  /\ admin' = [admin EXCEPT ![h] = IdleAdmin]
  /\ UNCHANGED <<blacklist, whitelist, everWhitelisted>>
  /\ AdminUnchanged

\* Mutant: the relay is monitored before, and without, being persisted.
AdminWhitelistVolatile(h, u) ==
  /\ admin[h].pc = "idle"
  /\ validRelayURL(u)
  /\ admin' = [admin EXCEPT ![h] = [pc |-> "monitor", url |-> u]]
  /\ UNCHANGED <<blacklist, whitelist, knownRelays, everWhitelisted, forgone, barred>>
  /\ AdminUnchanged

AdminWhitelistPost(h, u) ==
  /\ admin[h].pc = "idle"
  /\ validRelayURL(u)
  /\ whitelist' = whitelist \cup {u}
  /\ everWhitelisted' = everWhitelisted \cup {u}
  /\ \/ admin' = [admin EXCEPT ![h] = [pc |-> "monitor", url |-> u]]
     \/ UNCHANGED admin
  /\ UNCHANGED <<blacklist, knownRelays, forgone, barred>>
  /\ AdminUnchanged

AdminMonitor(h) ==
  /\ admin[h].pc = "monitor"
  /\ AddRelay(admin[h].url)
  /\ barred' = barred \ {normalizeURL(admin[h].url)}
  /\ admin' = [admin EXCEPT ![h] = IdleAdmin]
  /\ UNCHANGED <<blacklist, whitelist, everWhitelisted>>
  /\ AdminUnchanged

AdminRelayDelete(path) ==
  /\ RemoveRelay(reconstructRelayURL(path))
  /\ UNCHANGED <<blacklist, whitelist, admin, everWhitelisted, barred>>
  /\ AdminUnchanged

AdminBlacklistDelete(path) ==
  /\ blacklist' = blacklist \ {reconstructRelayURL(path)}
  /\ barred' = barred \ {reconstructRelayURL(path)}
  /\ UNCHANGED <<whitelist, knownRelays, admin, everWhitelisted, forgone>>
  /\ AdminUnchanged

AdminWhitelistDelete(path) ==
  /\ whitelist' = whitelist \ {reconstructRelayURL(path)}
  /\ UNCHANGED <<blacklist, knownRelays, admin, everWhitelisted, forgone, barred>>
  /\ AdminUnchanged

AdminChange ==
  \/ \E h \in Handlers :
        \/ \E u \in AdminUrls : AdminBlacklistPost(h, u) \/ AdminWhitelistPost(h, u)
        \/ AdminUnmonitor(h) \/ AdminMonitor(h)
  \/ \E u \in AdminUrls :
        AdminRelayDelete(u) \/ AdminBlacklistDelete(u) \/ AdminWhitelistDelete(u)

AdminStep == AdminSubmit \/ AdminChange

----------------------------------------------------------------------------
(***************************************************************************)
(* A crash, or a shutdown, at any point, and the next start.               *)
(***************************************************************************)

Restart ==
  /\ restarts < MaxRestarts
  /\ restarts' = restarts + 1
  /\ discoveries' = <<>>
  /\ coord' = IdleCoord
  /\ discoveryInput' = <<>>
  /\ monitor' = BootMonitor
  /\ knownRelays' = {}
  /\ admin' = [h \in Handlers |-> IdleAdmin]
  /\ forgone' = {}
  /\ barred' = {}
  /\ UNCHANGED <<redis, forwarded, everWhitelisted>>

Next ==
  \/ Discover
  \/ CoordStep \/ CoordRedisError
  \/ MonitorStep \/ MonitorRedisError
  \/ AdminStep
  \/ Restart

Spec == Init /\ [][Next]_vars

(***************************************************************************)
(* Both loops are goroutines the Go scheduler runs.  select picks among    *)
(* its ready cases at random, so the ticker cannot win for ever: hence     *)
(* the strong fairness of the receive.  Nothing is assumed of sources,     *)
(* administrators, errors and restarts.                                    *)
(***************************************************************************)
Fairness ==
  /\ WF_vars(CoordStep)
  /\ WF_vars(MonitorStep)
  /\ SF_vars(MonitorReceive)

FairSpec == Spec /\ Fairness

----------------------------------------------------------------------------
(* Properties *)

\* The relays some durable record admits: see RelayRegistry.
Admitted == SeedRelays \cup seen \cup everWhitelisted

\* handleDiscoveredRelay marks a URL in Redis and forwards it only when it was
\* new there: over all restarts, no URL is handed to the monitor twice.
ForwardedAtMostOnce == \A u \in Url : forwarded[u] =< 1

\* A monitored relay was recorded first, as a seed, a discovery or a whitelist
\* entry, so that the next start finds it again (monitor.go, Start).
MonitoredIsRecorded ==
  \A k \in knownRelays : \E u \in Admitted : Bare(u) = Bare(k)

InInput(u) == \E i \in 1..Len(discoveryInput) : discoveryInput[i] = u

\* On its way to the monitor's map, or due to be loaded from Redis.
Pending(u) ==
  \/ coord.pc = "send" /\ coord.url = u
  \/ InInput(u)
  \/ monitor.pc \in {"check", "add"} /\ Bare(monitor.url) = Bare(u)
  \/ monitor.pc \in {"seeds", "whitelist"}
  \/ monitor.pc = "seen" /\ u \in monitor.todo

Monitored(u) == \E k \in knownRelays : Bare(k) = Bare(u)

\* A discovery that Redis remembers, and will therefore refuse from now on, is
\* monitored, or on its way, or was given up at a point this module names: no
\* interleaving of coordinator, monitor, administrators and restarts loses one.
NothingForgotten ==
  \A u \in seen : Monitored(u) \/ Bare(u) \in forgone \/ Pending(u)

\* Once a relay is blacklisted and removed, and the monitor held no verdict on
\* it from before, it is not monitored again until an administrator lists it
\* or the process restarts.  Whoever writes three trailing slashes or more gets
\* past it: the coordinator drops one, the monitor one before its blacklist
\* check, and AddRelay one after it.
BarredStaysOut ==
  (\A u \in SourceUrls \cup AdminUrls : u.slashes =< 2)
    => barred \cap knownRelays = {}

\* cache.go: "admin:blacklist -> Set of relay URLs (never monitor)".  A start of
\* the process, with no request in progress, loads no blacklisted relay from the
\* discoveries that Redis remembers, unless it is configured or whitelisted.
StartSkipsBlacklisted ==
  [][(/\ restarts > 0
      /\ monitor.pc = "seen"
      /\ \A h \in Handlers : admin[h].pc = "idle")
       => \A k \in knownRelays' \ knownRelays :
            k \in blacklist => k \in SeedRelays \cup whitelist]_vars

\* What the coordinator makes of the spellings it is sent.
Found == {normalizeRelayURL(u) : u \in SourceUrls \cup AdminUrls} \ {NoUrl}

\* A remembered discovery does not wait for ever: it is monitored or given up.
DiscoverySettles ==
  \A u \in Found : (u \in seen) ~> (Monitored(u) \/ Bare(u) \in forgone)

\* Every monitored relay was admitted first, step by step.
Registry == INSTANCE RelayRegistry WITH
  Relays <- Url, Seeds <- SeedRelays \cup Whitelisted, Spelling <- Bare,
  admitted <- Admitted, monitored <- {Bare(k) : k \in knownRelays}

RefinesRegistry == Registry!Spec
=============================================================================
