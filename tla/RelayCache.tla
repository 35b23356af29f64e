------------------------------ MODULE RelayCache ------------------------------
(***************************************************************************)
(* Relay entries in Redis, each under a key of its own that expires, and   *)
(* the sets that index them by NIP, country, topic and so on.              *)
(*                                                                         *)
(* SetRelayEntry is a sequence of calls to Redis; several of them run at   *)
(* once: the workers of a health sweep, the check of a relay just          *)
(* discovered, the NIP-66 consumer that adds a report to an entry.         *)
(***************************************************************************)
EXTENDS Integers, FiniteSets

CONSTANTS
  Writers,                  \* the goroutines that may write at one time
  Urls,                     \* the relays that may be cached
  PathVariants,             \* those of them that have a path, of one host under wss://:
                            \* the prune of a start scans no others
  IndexKeys,                \* relays:by:nip:1, relays:by:location:DE, ...
  MaxPathVariantsPerHost,
  TTL,                      \* RelayEntryTTL and RelayIndexTTL, in ticks
  MaxFaults,                \* bound: how many calls fail
  None                      \* no entry

Forever == TTL + 1          \* what is left of a key that does not expire

Entry == [indexed : SUBSET IndexKeys, left : 1..TTL]

ASSUME CacheAssumption ==
  /\ PathVariants \subseteq Urls
  /\ MaxPathVariantsPerHost \in Nat \ {0}
  /\ TTL \in Nat \ {0}
  /\ MaxFaults \in Nat
  /\ None \notin Entry /\ None \notin Urls /\ None \notin IndexKeys

VARIABLES
  entries,    \* relay:{url}
  index,      \* relays:by:...: the members of each set, what is left of its TTL
  writer,     \* where each goroutine is in SetRelayEntry
  faults      \* calls that failed so far

cacheVars == <<entries, index, writer, faults>>

IdleWriter == [pc |-> "idle", url |-> None, indexed |-> {}, todo |-> {},
               key |-> None, counted |-> {}]

NoIndex == [members |-> {}, left |-> Forever]

Present == {u \in Urls : entries[u] # None}

CacheTypeOK ==
  /\ entries \in [Urls -> Entry \cup {None}]
  /\ index \in [IndexKeys -> [members : SUBSET Urls, left : 1..Forever]]
  /\ writer \in [Writers ->
       [pc : {"idle", "exists", "count", "set", "health", "add", "expire"},
        url : Urls \cup {None}, indexed : SUBSET IndexKeys,
        todo : SUBSET IndexKeys, key : IndexKeys \cup {None},
        counted : SUBSET PathVariants]]
  /\ \A w \in Writers : writer[w].pc # "idle" => writer[w].url # None
  /\ faults \in 0..MaxFaults

CacheInit ==
  /\ entries = [u \in Urls |-> None]
  /\ index = [k \in IndexKeys |-> NoIndex]
  /\ writer = [w \in Writers |-> IdleWriter]
  /\ faults = 0

Fail == faults < MaxFaults /\ faults' = faults + 1

----------------------------------------------------------------------------
(* SetRelayEntry, a step for each call to Redis. *)

Begin(w, u, keys) ==
  writer' = [writer EXCEPT ![w] =
    [pc |-> IF u \in PathVariants THEN "exists" ELSE "set", url |-> u,
     indexed |-> keys, todo |-> keys, key |-> None, counted |-> {}]]

\* The monitor caches what a check of the relay found.
StoreCheck(w, u, keys) ==
  /\ writer[w].pc = "idle"
  /\ Begin(w, u, keys)
  /\ UNCHANGED <<entries, index, faults>>

\* storeExternalMonitorReport: the consumer read the entry, adds the report and
\* writes the whole entry back.
StoreReport(w, u) ==
  /\ writer[w].pc = "idle"
  /\ entries[u] # None
  /\ Begin(w, u, entries[u].indexed)
  /\ UNCHANGED <<entries, index, faults>>

\* EXISTS; an entry that cannot be asked for counts as a new one.
CheckExists(w) ==
  /\ writer[w].pc = "exists"
  /\ LET new == writer' = [writer EXCEPT
                  ![w].pc = "count", ![w].counted = Present \cap PathVariants]
     IN  \/ entries[writer[w].url] = None /\ new /\ UNCHANGED faults
         \/ new /\ Fail
         \/ /\ entries[writer[w].url] # None
            /\ writer' = [writer EXCEPT ![w].pc = "set"]
            /\ UNCHANGED faults
  /\ UNCHANGED <<entries, index>>

\* countPathVariantsForHost: SCAN in many calls.  A variant that is there all the
\* while is counted; one that appears meanwhile may or may not be.  A SCAN that
\* fails ends the count early.
CountVariants(w) ==
  /\ writer[w].pc = "count"
  /\ \/ /\ Cardinality(writer[w].counted) < MaxPathVariantsPerHost
        /\ writer' = [writer EXCEPT ![w].pc = "set"]
        /\ UNCHANGED faults
     \/ /\ Cardinality(writer[w].counted \cup (Present \cap PathVariants))
             >= MaxPathVariantsPerHost
        /\ writer' = [writer EXCEPT ![w] = IdleWriter]
        /\ UNCHANGED faults
     \/ /\ writer' = [writer EXCEPT ![w].pc = "set"]
        /\ Fail
  /\ UNCHANGED <<entries, index>>

SetEntry(w) ==
  /\ writer[w].pc = "set"
  /\ \/ /\ entries' = [entries EXCEPT ![writer[w].url] =
                         [indexed |-> writer[w].indexed, left |-> TTL]]
        /\ writer' = [writer EXCEPT ![w].pc = "health"]
        /\ UNCHANGED faults
     \/ /\ writer' = [writer EXCEPT ![w] = IdleWriter]
        /\ Fail
        /\ UNCHANGED entries
  /\ UNCHANGED index

Indexing(w) ==
  IF writer[w].todo = {} THEN IdleWriter ELSE [writer[w] EXCEPT !.pc = "add"]

\* The health key is read by nothing, but when it cannot be set the entry is not
\* indexed.
SetHealth(w) ==
  /\ writer[w].pc = "health"
  /\ \/ writer' = [writer EXCEPT ![w] = Indexing(w)] /\ UNCHANGED faults
     \/ writer' = [writer EXCEPT ![w] = IdleWriter] /\ Fail
  /\ UNCHANGED <<entries, index>>

\* SADD to one of the sets.  Its error is ignored.
AddMember(w, k) ==
  /\ writer[w].pc = "add" /\ k \in writer[w].todo
  /\ writer' = [writer EXCEPT ![w] = [@ EXCEPT !.pc = "expire", !.key = k]]
  /\ \/ index' = [index EXCEPT ![k].members = @ \cup {writer[w].url}] /\ UNCHANGED faults
     \/ UNCHANGED index /\ Fail
  /\ UNCHANGED entries

AfterExpire(w) ==
  LET todo == writer[w].todo \ {writer[w].key}
  IN  IF todo = {}
      THEN IdleWriter
      ELSE [writer[w] EXCEPT !.pc = "add", !.todo = todo, !.key = None]

\* Mutant: only a set that does not expire gets a TTL.
ExpireNewIndex(w) ==
  /\ writer[w].pc = "expire"
  /\ writer' = [writer EXCEPT ![w] = AfterExpire(w)]
  /\ LET k == writer[w].key
     IN  \/ /\ index' = IF index[k].members = {} \/ index[k].left # Forever
                        THEN index ELSE [index EXCEPT ![k].left = TTL]
            /\ UNCHANGED faults
         \/ UNCHANGED index /\ Fail
  /\ UNCHANGED entries

\* EXPIRE of that set, nothing if the set is gone.  Its error is ignored.
ExpireIndex(w) ==
  /\ writer[w].pc = "expire"
  /\ writer' = [writer EXCEPT ![w] = AfterExpire(w)]
  /\ LET k == writer[w].key
     IN  \/ /\ index' = IF index[k].members = {}
                        THEN index ELSE [index EXCEPT ![k].left = TTL]
            /\ UNCHANGED faults
         \/ UNCHANGED index /\ Fail
  /\ UNCHANGED entries

----------------------------------------------------------------------------

\* Mutant: a key is gone one tick after its time.
TimePassesLate ==
  /\ entries' = [u \in Urls |->
       IF entries[u] = None \/ entries[u].left = 0
       THEN None ELSE [entries[u] EXCEPT !.left = @ - 1]]
  /\ UNCHANGED <<index, writer, faults>>

\* A tick: what has no time left is gone, and the counts in progress miss it.
TimePasses ==
  /\ entries' = [u \in Urls |->
       IF entries[u] = None \/ entries[u].left = 1
       THEN None ELSE [entries[u] EXCEPT !.left = @ - 1]]
  /\ index' = [k \in IndexKeys |->
       CASE index[k].left = Forever -> index[k]
         [] index[k].left = 1 -> NoIndex
         [] OTHER -> [index[k] EXCEPT !.left = @ - 1]]
  /\ writer' = [w \in Writers |->
       [writer[w] EXCEPT !.counted = {u \in @ : entries[u].left > 1}]]
  /\ UNCHANGED faults

\* The process stops in the middle of its writes and starts again: main prunes
\* the path variants above the cap, the less healthy ones first, unless Redis does
\* not answer.
Restart ==
  /\ Fail
  /\ writer' = [w \in Writers |-> IdleWriter]
  /\ LET variants == Present \cap PathVariants
     IN  \/ \E kept \in SUBSET variants :
               /\ IF Cardinality(variants) =< MaxPathVariantsPerHost
                  THEN kept = variants ELSE Cardinality(kept) = MaxPathVariantsPerHost
               /\ entries' = [u \in Urls |->
                    IF u \in PathVariants \ kept THEN None ELSE entries[u]]
         \/ UNCHANGED entries
  /\ UNCHANGED index

WriterStep ==
  \E w \in Writers :
    \/ \E u \in Urls : \/ \E keys \in SUBSET IndexKeys : StoreCheck(w, u, keys)
                       \/ StoreReport(w, u)
    \/ CheckExists(w) \/ CountVariants(w) \/ SetEntry(w) \/ SetHealth(w)
    \/ \E k \in IndexKeys : AddMember(w, k)
    \/ ExpireIndex(w)

CacheStep == WriterStep \/ TimePasses

CacheNext == CacheStep \/ Restart

CacheSpec == CacheInit /\ [][CacheNext]_cacheVars

----------------------------------------------------------------------------
(* Properties *)

\* A goroutine that wrote the entry of u has yet to add it to the set of k.
Pending(u, k) ==
  \E w \in Writers : /\ writer[w].url = u /\ k \in writer[w].todo
                     /\ writer[w].pc \in {"health", "add", "expire"}

\* cache.go: RelayIndexTTL "Matches RelayEntryTTL to ensure indexes stay in sync
\* with entries".  While no call has failed, a set that lists an entry does not
\* expire before the entry, however writers and expiries interleave, once the
\* writers of that entry are done with the set.
IndexOutlivesEntry ==
  faults = 0 =>
    \A u \in Present :
      \A k \in entries[u].indexed :
        \/ Pending(u, k)
        \/ u \in index[k].members => index[k].left >= entries[u].left
===============================================================================
