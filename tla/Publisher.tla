------------------------------ MODULE Publisher ------------------------------
(***************************************************************************)
(* The publish cycle of the directory publisher (kind 30072) and, with     *)
(* SkipOffline, of the NIP-66 publisher (kind 30166): on each tick, read   *)
(* the cached entries, drop the duplicates, and announce on the publish    *)
(* relays those whose content changed, or all of them when a full refresh  *)
(* is due.                                                                 *)
(*                                                                         *)
(* The monitor rewrites the cache, entries expire, publish relays refuse   *)
(* events and time passes while a cycle runs.  Time is discrete; clocks    *)
(* are counters that stop where the code no longer tells them apart.       *)
(***************************************************************************)
EXTENDS RelayDedup, HealthRegistry

CONSTANTS
  PublishRelays,    \* cfg.PublishRelays
  PublishInterval,  \* cfg.PublishInterval
  RefreshInterval,  \* cfg.PublishRefreshInterval
  MaxCycle,         \* the longest a publish cycle takes
  SkipOffline,      \* TRUE for the NIP-66 publisher
  CachedUrls,       \* the wss:// URLs the monitor caches: no other is listed
  Contents,         \* what the monitor may find at each of them
  MaxFaults,        \* bound: how many calls fail, restarts included
  None              \* no entry, no hash, no event

\* What is cached of a relay, as far as an announcement tells it.
Content == [health : Healths, info : Infos \cup {NoInfo}]

ASSUME PublisherAssumption ==
  /\ PublishInterval \in Nat \ {0}
  /\ RefreshInterval \in Nat
  /\ MaxCycle \in Nat
  /\ SkipOffline \in BOOLEAN
  /\ CachedUrls \subseteq Url
  /\ Contents \in [CachedUrls -> SUBSET Content]
  /\ MaxFaults \in Nat

ASSUME NoneAssumption == None \notin Entry /\ Never \notin Nat

VARIABLES
  cache,            \* relay:{url} in Redis
  hashes,           \* deltaTracker.hashes: what was last announced
  sinceFull,        \* time since lastFullPublish, up to RefreshInterval
  sincePublish,     \* time since lastPublish
  ticker,           \* [left, due]: time to the next tick, a tick is waiting
  cycle,            \* the cycle in progress, and how long it has taken
  directory,        \* the events each publish relay holds
  faults,           \* calls that failed so far
  \* history, read by the properties alone
  sinceCycle,       \* time since the last cycle ended
  selected,         \* what the last cycle found worth announcing
  listed            \* announced, and selected by every cycle since

vars == <<cache, hashes, sinceFull, sincePublish, ticker, cycle, directory,
          faults, sinceCycle, selected, listed>>

\* Where the clocks that /health reads stop.
StaleAfter == 2 * PublishInterval + 1

\* createEvent: an event expires after two refresh intervals.
EventLife ==
  2 * (IF RefreshInterval = 0 THEN PublishInterval ELSE RefreshInterval)

IdleCycle == [pc |-> "idle", full |-> FALSE, todo |-> {}, read |-> {},
              batch |-> {}, unsent |-> {}, life |-> 0, took |-> 0]

\* The cycle in progress: what it has still to read, what it read, what it
\* announces and what of that is still to be sent.
Cycle == [pc : {"start", "idle", "read", "send"}, full : BOOLEAN,
          todo : SUBSET CachedUrls, read : SUBSET Entry,
          batch : SUBSET Entry, unsent : SUBSET (PublishRelays \X Entry),
          life : 0..EventLife, took : 0..MaxCycle]

Event == [entry : Entry, left : 0..EventLife]

ASSUME EventAssumption == None \notin Event

Caches ==
  {cached \in [CachedUrls -> Content \cup {None}] :
     \A u \in CachedUrls : cached[u] \in Contents[u] \cup {None}}

TypeOK ==
  /\ cache \in Caches
  /\ hashes \in [CanonicalUrl -> Entry \cup {None}]
  /\ \A c \in CanonicalUrl :
        hashes[c] # None => canonicalizeRelayURL(hashes[c].url) = c
  /\ sinceFull \in 0..RefreshInterval
  /\ sincePublish \in (0..StaleAfter) \cup {Never}
  /\ ticker \in [left : 1..PublishInterval, due : BOOLEAN]
  /\ cycle \in Cycle
  /\ cycle.unsent \subseteq PublishRelays \X cycle.batch
  /\ directory \in [PublishRelays -> [CanonicalUrl -> Event \cup {None}]]
  /\ faults \in 0..MaxFaults
  /\ sinceCycle \in 0..StaleAfter
  /\ selected \subseteq Entry
  /\ listed \subseteq PublishRelays \X CanonicalUrl

Init ==
  /\ cache \in Caches
  /\ hashes = [c \in CanonicalUrl |-> None]
  /\ sinceFull = RefreshInterval
  /\ sincePublish = Never
  /\ ticker = [left |-> PublishInterval, due |-> FALSE]
  /\ cycle = [IdleCycle EXCEPT !.pc = "start"]
  /\ directory = [r \in PublishRelays |-> [c \in CanonicalUrl |-> None]]
  /\ faults = 0
  /\ sinceCycle = 0
  /\ selected = {}
  /\ listed = {}

----------------------------------------------------------------------------
(***************************************************************************)
(* The rest of the world: the monitor sets an entry, an entry expires, a   *)
(* unit of time passes.                                                    *)
(***************************************************************************)

CacheChanges ==
  /\ \E u \in CachedUrls : \E content \in Contents[u] \cup {None} :
        cache' = [cache EXCEPT ![u] = content]
  /\ UNCHANGED <<hashes, sinceFull, sincePublish, ticker, cycle, directory,
                 faults, sinceCycle, selected, listed>>

UpTo(bound, clock) == IF clock < bound THEN clock + 1 ELSE clock

Elapse(event) ==
  IF event = None \/ event.left = 0 THEN event ELSE [event EXCEPT !.left = @ - 1]

\* An idle publisher takes a waiting tick at once, and a cycle takes no longer
\* than MaxCycle.  The ticker's channel holds one tick.
TimePasses ==
  /\ IF cycle.pc = "idle" THEN ~ticker.due ELSE cycle.took < MaxCycle
  /\ ticker' = IF ticker.left = 1
               THEN [left |-> PublishInterval, due |-> TRUE]
               ELSE [ticker EXCEPT !.left = @ - 1]
  /\ sinceFull' = UpTo(RefreshInterval, sinceFull)
  /\ sincePublish' = IF sincePublish = Never
                     THEN Never ELSE UpTo(StaleAfter, sincePublish)
  /\ sinceCycle' = UpTo(StaleAfter, sinceCycle)
  /\ cycle' = IF cycle.pc = "idle"
              THEN cycle
              ELSE [cycle EXCEPT !.took = @ + 1,
                                 !.life = IF @ = 0 THEN 0 ELSE @ - 1]
  /\ directory' = [r \in PublishRelays |->
                     [c \in CanonicalUrl |-> Elapse(directory[r][c])]]
  /\ UNCHANGED <<cache, hashes, faults, selected, listed>>

----------------------------------------------------------------------------
(***************************************************************************)
(* Publisher.publishAll, a step for each call to Redis or a publish relay. *)
(***************************************************************************)

\* Mutant: only the first cycle is a full refresh.
NeedsFirstRefresh ==
  /\ \A c \in CanonicalUrl : hashes[c] = None
  /\ sinceFull >= RefreshInterval

\* deltaTracker.needsFullRefresh: before the first one, sinceFull is at its end.
needsFullRefresh == sinceFull >= RefreshInterval

\* The cycle returns early: the cache failed or holds nothing, or nothing
\* changed.  Neither lastPublish nor the refresh time moves.
Return ==
  /\ cycle' = IdleCycle
  /\ sinceCycle' = 0
  /\ UNCHANGED <<sinceFull, sincePublish>>

\* The first cycle starts with the publisher, the others with a tick.
BeginCycle ==
  /\ \/ cycle.pc = "start" /\ UNCHANGED ticker
     \/ /\ cycle.pc = "idle" /\ ticker.due
        /\ ticker' = [ticker EXCEPT !.due = FALSE]
  /\ LET urls == {u \in CachedUrls : cache[u] # None}
     IN  \/ /\ urls # {}
            /\ cycle' = [IdleCycle EXCEPT !.pc = "read", !.full = needsFullRefresh,
                                          !.todo = urls, !.took = cycle.took]
            /\ UNCHANGED <<sinceFull, sincePublish, faults, sinceCycle, selected, listed>>
         \/ /\ urls = {}
            /\ Return
            /\ selected' = {} /\ listed' = {}
            /\ UNCHANGED faults
         \/ /\ faults < MaxFaults
            /\ faults' = faults + 1
            /\ Return
            /\ selected' = {} /\ listed' = {}
  /\ UNCHANGED <<cache, hashes, directory>>

\* GetRelayEntry, for each URL; an entry that has expired or cannot be read is
\* left out.
ReadEntry(u) ==
  /\ cycle.pc = "read"
  /\ u \in cycle.todo
  /\ \/ /\ cache[u] # None
        /\ cycle' = [cycle EXCEPT
             !.todo = @ \ {u},
             !.read = @ \cup {[url |-> u, health |-> cache[u].health,
                               info |-> cache[u].info]}]
        /\ UNCHANGED faults
     \/ /\ cycle' = [cycle EXCEPT !.todo = @ \ {u}]
        /\ IF cache[u] = None
           THEN UNCHANGED faults
           ELSE faults < MaxFaults /\ faults' = faults + 1
  /\ UNCHANGED <<cache, hashes, sinceFull, sincePublish, ticker, directory,
                 sinceCycle, selected, listed>>

\* Mutant: only a change of health counts.
ChangedHealth(entry) ==
  LET hash == hashes[canonicalizeRelayURL(entry.url)]
  IN  hash = None \/ hash.health # entry.health

\* deltaTracker.changed
changed(entry) == hashes[canonicalizeRelayURL(entry.url)] # entry

\* Drop the duplicates, forget the hashes of relays no longer active, pick what
\* to announce and make its events.
Select ==
  /\ cycle.pc = "read" /\ cycle.todo = {}
  /\ \E kept \in SUBSET cycle.read :
        LET active == {canonicalizeRelayURL(e.url) : e \in kept}
            announced == {e \in kept : ~(SkipOffline /\ e.health = "offline")}
            batch == {e \in announced : cycle.full \/ changed(e)}
        IN  /\ DedupResult(cycle.read, kept)
            /\ hashes' = [c \in CanonicalUrl |->
                            IF c \in active THEN hashes[c] ELSE None]
            /\ selected' = announced
            /\ listed' = {l \in listed : \E e \in announced :
                            l[2] = canonicalizeRelayURL(e.url)}
            /\ IF batch = {}
               THEN Return
               ELSE /\ cycle' = [cycle EXCEPT
                         !.pc = "send", !.read = {}, !.batch = batch,
                         !.unsent = PublishRelays \X batch, !.life = EventLife]
                    /\ UNCHANGED <<sinceFull, sincePublish, sinceCycle>>
  /\ UNCHANGED <<cache, ticker, directory, faults>>

\* One event to one publish relay, which stores it or does not.  The order is any: of
\* two events of one relay that were made in the same second, either may stay.
PublishEvent(r, e) ==
  /\ cycle.pc = "send"
  /\ <<r, e>> \in cycle.unsent
  /\ cycle' = [cycle EXCEPT !.unsent = @ \ {<<r, e>>}]
  /\ LET c == canonicalizeRelayURL(e.url)
     IN  \/ /\ directory' = [directory EXCEPT ![r][c] =
                               [entry |-> e, left |-> cycle.life]]
            /\ listed' = listed \cup {<<r, c>>}
            /\ UNCHANGED faults
         \/ /\ faults < MaxFaults
            /\ faults' = faults + 1
            /\ listed' = listed \ {<<r, c>>}
            /\ UNCHANGED directory
  /\ UNCHANGED <<cache, hashes, sinceFull, sincePublish, ticker,
                 sinceCycle, selected>>

\* The connection to a publish relay or its authentication fails: it gets none of
\* the events that are left.
DropRelay(r) ==
  /\ cycle.pc = "send"
  /\ faults < MaxFaults
  /\ faults' = faults + 1
  /\ LET lost == {pair \in cycle.unsent : pair[1] = r}
     IN  /\ lost # {}
         /\ cycle' = [cycle EXCEPT !.unsent = @ \ lost]
         /\ listed' = listed \ {<<r, canonicalizeRelayURL(pair[2].url)>> : pair \in lost}
  /\ UNCHANGED <<cache, hashes, sinceFull, sincePublish, ticker, directory,
                 sinceCycle, selected>>

\* Mutant: the hash of an entry is recorded under the URL of another.
EndCycleMixed ==
  /\ cycle.pc = "send" /\ cycle.unsent = {}
  /\ \E rec \in [{canonicalizeRelayURL(e.url) : e \in cycle.batch} -> cycle.batch] :
        hashes' = [c \in CanonicalUrl |->
                     IF c \in DOMAIN rec THEN rec[c] ELSE hashes[c]]
  /\ sinceFull' = IF cycle.full THEN 0 ELSE sinceFull
  /\ sincePublish' = 0
  /\ sinceCycle' = 0
  /\ cycle' = IdleCycle
  /\ UNCHANGED <<cache, ticker, directory, faults, selected, listed>>

\* The whole batch is recorded as announced, whatever the relays answered.
EndCycle ==
  /\ cycle.pc = "send" /\ cycle.unsent = {}
  /\ \E rec \in [{canonicalizeRelayURL(e.url) : e \in cycle.batch} -> cycle.batch] :
        /\ \A c \in DOMAIN rec : canonicalizeRelayURL(rec[c].url) = c
        /\ hashes' = [c \in CanonicalUrl |->
                        IF c \in DOMAIN rec THEN rec[c] ELSE hashes[c]]
  /\ sinceFull' = IF cycle.full THEN 0 ELSE sinceFull
  /\ sincePublish' = 0
  /\ sinceCycle' = 0
  /\ cycle' = IdleCycle
  /\ UNCHANGED <<cache, ticker, directory, faults, selected, listed>>

CycleStep ==
  \/ BeginCycle
  \/ \E u \in CachedUrls : ReadEntry(u)
  \/ Select
  \/ \E pair \in cycle.unsent : PublishEvent(pair[1], pair[2])
  \/ \E r \in PublishRelays : DropRelay(r)
  \/ EndCycle

\* The process stops and starts again: its memory is lost.
Restart ==
  /\ faults < MaxFaults
  /\ faults' = faults + 1
  /\ hashes' = [c \in CanonicalUrl |-> None]
  /\ sinceFull' = RefreshInterval
  /\ sincePublish' = Never
  /\ ticker' = [left |-> PublishInterval, due |-> FALSE]
  /\ cycle' = [IdleCycle EXCEPT !.pc = "start"]
  /\ sinceCycle' = 0
  /\ selected' = {}
  /\ listed' = {}
  /\ UNCHANGED <<cache, directory>>

Next == CacheChanges \/ TimePasses \/ CycleStep \/ Restart

Spec == Init /\ [][Next]_vars

\* The publisher's goroutine runs and time goes on.
FairSpec == Spec /\ WF_vars(CycleStep) /\ WF_vars(TimePasses)

----------------------------------------------------------------------------
(* Properties *)

\* publisher.go: "Expiration: 2x the refresh interval so events survive between
\* full refreshes".  The event of a relay that every cycle selects does not
\* expire on a publish relay that stored it, unless the next announcement fails.
EventsSurvive ==
  \A l \in listed : directory[l[1]][l[2]].left > 0

\* Between cycles the directory shows, for each relay whose last announcement
\* was stored, the entry the last cycle read: no change is missed, and the order
\* of prune, comparison and record loses none.  Of a relay that is cached under
\* several spellings it shows the last cycle's entry of one of them, or what an
\* earlier cycle read of another.
DirectoryInStep ==
  cycle.pc = "idle" =>
    \A e \in selected, r \in PublishRelays :
      LET c == canonicalizeRelayURL(e.url)
          shown == directory[r][c].entry
      IN  <<r, c>> \in listed =>
            /\ canonicalizeRelayURL(shown.url) = c /\ shown.url \in CachedUrls
            /\ shown.url = e.url => shown = e

\* What the monitor may find at all: a relay that is down has no document.
PossibleContents ==
  {content \in Content : content.health = "offline" => content.info = NoInfo}

\* What a cycle may find cached: any content of any of the URLs, or none.
PossibleReads ==
  {{[url |-> u, health |-> content[u].health, info |-> content[u].info] :
      u \in {v \in CanonicalUrl : content[v] # None}} :
    content \in [CanonicalUrl -> PossibleContents \cup {None}]}

KeepsHosts(read) ==
  \A kept \in SUBSET read :
    DedupResult(read, kept) => \A e \in read : Group(kept, hostKey(e.url)) # {}

ShowsReachable(read) ==
  \A kept \in SUBSET read :
    DedupResult(read, kept) =>
      \A e \in read :
        hasNIP11(e) /\ e.health # "offline"
          => \E k \in Group(kept, hostKey(e.url)) : k.health # "offline"

\* Both, of all that may be read: TLC evaluates these once.
AlwaysKeepsHosts == \A read \in PossibleReads : KeepsHosts(read)
AlwaysShowsReachable == \A read \in PossibleReads : ShowsReachable(read)

\* deduplicateByHost loses no host: whatever a cycle has read, whatever it may
\* read, and in whatever order it comes, an entry of each host is kept.
HostsKept == KeepsHosts(cycle.read) /\ AlwaysKeepsHosts

\* A host that answers is not announced as offline only: the root of a host may
\* be down, but an offline entry of the monitor has no NIP-11 document, and so
\* never hides a path variant that has one.
ReachableHostShown == ShowsReachable(cycle.read) /\ AlwaysShowsReachable

\* An announcement that failed is made again: there is always a later moment
\* at which the directory lists everything the last cycle selected.
DirectoryRecovers ==
  []<>(/\ cycle.pc = "idle"
       /\ \A e \in selected, r \in PublishRelays :
            <<r, canonicalizeRelayURL(e.url)>> \in listed)

\* health.go reports "stale: no activity"; publisher.go says GetLastPublish is
\* "the time of the last publish cycle".  So a publisher whose cycles end in
\* time is not reported as unhealthy.
StaleMeansIdle ==
  workerStatus(sincePublish, PublishInterval, 0) = "unhealthy"
    => sinceCycle > 2 * PublishInterval
=============================================================================
