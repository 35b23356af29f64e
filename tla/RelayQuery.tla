------------------------------ MODULE RelayQuery ------------------------------
(***************************************************************************)
(* GET /api/v1/relays (RelaysHandler): the filters of a query are answered *)
(* one index set at a time, while the monitor rewrites the entries and the *)
(* sets and while both expire; the entries are then read in one batch.     *)
(*                                                                         *)
(* The health, search and payment filters and the pagination only look at  *)
(* the entries of that batch, and are left out.                            *)
(***************************************************************************)
EXTENDS RelayCache, Sequences

CONSTANTS
  Queries,                  \* what may be asked: sequences of filters, in the
                            \* order in which the handler applies them
  Secure                    \* the relays under wss://, the others are under ws://

\* One key, as nips (once for each NIP), location, language and so on have, or a
\* list of which any will do, as topic, atmosphere and moderation have.
Filter == [any : BOOLEAN, keys : SUBSET IndexKeys \ {{}}]

ASSUME QueryAssumption ==
  /\ Secure \subseteq Urls
  /\ Queries \subseteq Seq(Filter)
  /\ \A fs \in Queries : \A i \in 1..Len(fs) : fs[i].any \/ \E k \in IndexKeys : fs[i].keys = {k}

VARIABLES
  query,      \* the handler: its filters, the one it is at, the keys of that one
              \* it has yet to read, what their sets had so far, relayURLs
  seen        \* history, for the properties

vars == <<entries, index, writer, faults, query, seen>>

NoQuery == [pc |-> "idle", filters |-> <<>>, at |-> 0, keys |-> {},
            found |-> {}, urls |-> {}]

\* What was there from the moment the query was asked, what every filter that was
\* answered agreed on, and whether a read failed.
NothingSeen == [cached |-> {}, listed |-> [k \in IndexKeys |-> {}],
                agreed |-> {}, missed |-> FALSE]

TypeOK ==
  /\ CacheTypeOK
  /\ query \in [pc : {"idle", "read", "all", "fetch", "done", "failed"},
                filters : Queries \cup {<<>>}, at : Nat, keys : SUBSET IndexKeys,
                found : SUBSET Urls, urls : SUBSET Urls]
  /\ query.pc = "read" => query.at \in 1..Len(query.filters)
  /\ seen \in [cached : SUBSET Urls, listed : [IndexKeys -> SUBSET Urls],
               agreed : SUBSET Urls, missed : BOOLEAN]

Init == CacheInit /\ query = NoQuery /\ seen = NothingSeen

\* Mutant: the filters are counted from zero.
AskFromZero(fs) ==
  /\ query.pc = "idle" /\ fs # <<>>
  /\ query' = [NoQuery EXCEPT !.pc = "read", !.filters = fs, !.keys = fs[1].keys]
  /\ UNCHANGED seen

\* The filters of the request; without any, all relays.
Ask(fs) ==
  /\ query.pc = "idle"
  /\ query' = IF fs = <<>>
              THEN [NoQuery EXCEPT !.pc = "all"]
              ELSE [NoQuery EXCEPT !.pc = "read", !.filters = fs, !.at = 1,
                                   !.keys = fs[1].keys]
  /\ seen' = [cached |-> Present, listed |-> [k \in IndexKeys |-> index[k].members],
              agreed |-> Urls, missed |-> FALSE]

\* Mutant: the first answer is intersected too, with a list that is still empty.
MergeAll(urls, answer) == urls \cap answer

\* The answer of a filter narrows what the filters before it left.
Merge(urls, answer) == IF urls = {} THEN answer ELSE urls \cap answer

NextFilter(urls) ==
  IF query.at = Len(query.filters)
  THEN [query EXCEPT !.pc = "fetch", !.keys = {}, !.found = {}, !.urls = urls]
  ELSE [query EXCEPT !.at = @ + 1, !.keys = query.filters[query.at + 1].keys,
                     !.found = {}, !.urls = urls]

\* What is known of the filter once the set of one more of its keys was read.
Answered(k, members) ==
  IF query.keys = {k}
  THEN /\ query' = NextFilter(Merge(query.urls, query.found \cup members))
       /\ seen' = [seen EXCEPT !.agreed = @ \cap (query.found \cup members)]
  ELSE /\ query' = [query EXCEPT !.keys = @ \ {k}, !.found = @ \cup members]
       /\ UNCHANGED seen

\* SMEMBERS of one set.
ReadIndex(k) ==
  /\ query.pc = "read" /\ k \in query.keys
  /\ Answered(k, index[k].members)
  /\ UNCHANGED cacheVars

\* It fails: a list goes without that set, a filter of one key is skipped.
MissIndex(k) ==
  /\ query.pc = "read" /\ k \in query.keys
  /\ Fail
  /\ query' = IF query.filters[query.at].any
              THEN IF query.keys = {k}
                   THEN NextFilter(Merge(query.urls, query.found))
                   ELSE [query EXCEPT !.keys = @ \ {k}]
              ELSE NextFilter(query.urls)
  /\ seen' = [seen EXCEPT !.missed = TRUE]
  /\ UNCHANGED <<entries, index, writer>>

\* GetAllRelayURLs: a SCAN for wss:// in many calls finds what is there all the while,
\* and of the rest any part (what has gone since is dropped by the batch).  It finds no
\* relay under ws://.
ScanAll ==
  /\ query.pc = "all"
  /\ \E urls \in SUBSET (Present \cap Secure) :
        /\ seen.cached \cap Secure \subseteq urls
        /\ query' = [query EXCEPT !.pc = "fetch", !.urls = urls]
  /\ UNCHANGED <<cacheVars, seen>>

ScanFails ==
  /\ query.pc = "all"
  /\ Fail
  /\ query' = [query EXCEPT !.pc = "fetch"]
  /\ seen' = [seen EXCEPT !.missed = TRUE]
  /\ UNCHANGED <<entries, index, writer>>

\* GetRelayEntriesBatch: what expired since is left out of the answer.
Fetch ==
  /\ query.pc = "fetch"
  /\ query' = [query EXCEPT !.pc = "done", !.urls = @ \cap Present]
  /\ UNCHANGED <<cacheVars, seen>>

\* The query is answered with an error.
FetchFails ==
  /\ query.pc = "fetch" /\ query.urls # {}
  /\ Fail
  /\ query' = [query EXCEPT !.pc = "failed"]
  /\ UNCHANGED <<entries, index, writer, seen>>

Reply ==
  /\ query.pc \in {"done", "failed"}
  /\ query' = NoQuery /\ seen' = NothingSeen
  /\ UNCHANGED cacheVars

----------------------------------------------------------------------------

\* The cache changes under the query.
Meanwhile ==
  /\ CacheStep
  /\ seen' = [seen EXCEPT !.cached = @ \cap Present',
                          !.listed = [k \in IndexKeys |-> @[k] \cap index'[k].members]]
  /\ UNCHANGED query

\* The process stops, and the query with it.
Crash == Restart /\ query' = NoQuery /\ seen' = NothingSeen

Next ==
  \/ \E fs \in Queries : Ask(fs) /\ UNCHANGED cacheVars
  \/ \E k \in IndexKeys : ReadIndex(k) \/ MissIndex(k)
  \/ ScanAll \/ ScanFails \/ Fetch \/ FetchFails \/ Reply
  \/ Meanwhile \/ Crash

Spec == Init /\ [][Next]_vars

----------------------------------------------------------------------------
(* Properties *)

\* The relays that were cached, and listed for every filter by one and the same
\* key, from the moment the query was asked.
Stable ==
  {u \in seen.cached :
     \A i \in 1..Len(query.filters) :
       \E k \in query.filters[i].keys : u \in seen.listed[k]}

\* What a query is to find: one without a filter lists the relays under wss:// only,
\* although api.go:225 says "all known relays" (GetAllRelayURLs, cache.go:742).
Matching == IF query.filters = <<>> THEN Stable \cap Secure ELSE Stable

\* RelaysHandler: whatever is written and whatever expires while its sets are
\* read one by one, a query whose reads all succeeded answers with every relay
\* that matched all the while; with a relay under ws:// only if it has a filter.
QueryFindsStable ==
  query.pc = "done" /\ ~seen.missed => Matching \subseteq query.urls

\* api.go: "AND logic - must support all".  A query answers with no relay that one
\* of its filters excluded.
QueryAndLogic ==
  query.pc = "done" /\ ~seen.missed => query.urls \subseteq seen.agreed
===============================================================================
