----------------------------- MODULE UserLookups -----------------------------
(***************************************************************************)
(* The requests about a user, answered from what relays hold of him:       *)
(* recommendations by the relay lists of those he follows, his contacts    *)
(* for the reviews of a relay, his relay preferences, his relay list.      *)
(*                                                                         *)
(* Each asks relays that may answer, stay silent or drop the connection,   *)
(* aggregates what came, and keeps it in Redis for other requests.  A      *)
(* recommendation does so within a time budget.  What a fan-out over the   *)
(* relays brings is the set of relays that answered before silence (5 s)   *)
(* or the end of the request's context gave the others up.                 *)
(***************************************************************************)
EXTENDS RelayScores

CONSTANTS
  Requests,     \* HTTP requests in progress at once
  User,         \* the public key asked about
  Pubkeys,      \* those the user may follow
  Seeds,        \* the relays asked: the first three of cfg.SeedRelays
  Relays,       \* relay URLs, in lists and in the directory
  Directory,    \* the cached entry of each relay
  Criteria,     \* what recommendations are asked for
  MaxFollows,   \* wotMaxFollowsToProcess
  MaxFetches,   \* wotMaxConcurrentFetches
  Worlds,       \* what the relays may hold
  None

RelayTag == [url : Relays, marker : {"", "read", "write"}]
ContactEvent == [at : Nat, tags : Seq(Pubkeys)]
ListEvent == [at : Nat, tags : Seq(RelayTag)]

\* The relays' events: kinds 3 and 10002 on the seeds; kinds 30078 and 10002 of
\* the user on the preferences relay, of which only the tags matter.
World == [contacts : [Seeds -> ContactEvent \cup {None}],
          lists : [Pubkeys -> [Seeds -> ListEvent \cup {None}]],
          prefs : Seq(RelayTag), nip65 : Seq(RelayTag)]

ASSUME LookupAssumption ==
  /\ IsFiniteSet(Pubkeys) /\ IsFiniteSet(Relays)
  /\ User \notin Pubkeys
  /\ Seeds # {}
  /\ Directory \in [Relays -> ScoredEntry]
  /\ Criteria \subseteq RecommendationInputs
  /\ MaxFollows \in Nat \ {0}
  /\ MaxFetches \in Nat \ {0}
  /\ Worlds \subseteq World
  /\ None \notin ContactEvent \cup ListEvent \cup Seq(Pubkeys) \cup Seq(RelayTag)

VARIABLES
  held,          \* what the relays hold
  \* kept in Redis, for a time
  userContacts,  \* user:contacts:{User}: tags of a contact list
  userNIP65,     \* user:nip65:{p}: tags of a relay list
  wotScores,     \* wot:scores:{User}: [scores, count]
  relayPrefs,    \* relayprefs:{User}: the source of the preferences
  \* the requests
  pc,            \* where each handler is
  kind,          \* what it was asked for
  ended,         \* its context, or its budget, has ended
  follows,       \* the contact list it works with
  lookup,        \* the relay list of each follow: off, waiting, asking, ...
  scores,        \* RelayScores: how many write entries name a relay
  answer,        \* what it replied
  \* history, read by the properties alone
  missed,        \* what the end of the budget cut off, for each request
  wotMissed      \* the same, for the cached scores

world == <<held>>
redis == <<userContacts, userNIP65, wotScores, relayPrefs>>
work == <<kind, ended, follows, lookup, scores>>
vars == <<world, redis, pc, work, answer, missed, wotMissed>>

NoScores == [u \in Relays |-> 0]
NoLookups == [p \in Pubkeys |-> "off"]
NoAnswer == [status |-> "none", source |-> "none", partial |-> FALSE, shown |-> <<>>]
Sources == {"cloistr-relays", "nip65", "default"}
Answer == [status : {"none", "ok", "unavailable", "not found"},
           source : Sources \cup {"none"}, partial : BOOLEAN, shown : Seq(Relays)]
Lookup == {"off", "waiting", "asking", "counted", "failed"}

TypeOK ==
  /\ held \in Worlds
  /\ userContacts \in Seq(Pubkeys) \cup {None}
  /\ userNIP65 \in [Pubkeys -> Seq(RelayTag) \cup {None}]
  /\ wotScores \in [scores : [Relays -> Nat], count : Nat] \cup {None}
  /\ relayPrefs \in Sources \cup {None}
  /\ pc \in [Requests -> {"idle", "scores", "contacts", "fetch", "keep", "follows",
                          "lists", "store", "recommend",
                          "prefs", "cloistr", "nip65", "keepPrefs"}]
  /\ kind \in [Requests -> {"recommend", "reviews", "prefs", "users"}]
  /\ ended \in [Requests -> BOOLEAN]
  /\ follows \in [Requests -> Seq(Pubkeys)]
  /\ lookup \in [Requests -> [Pubkeys -> Lookup]]
  /\ scores \in [Requests -> [scores : [Relays -> Nat], count : Nat]]
  /\ answer \in [Requests -> Answer]
  /\ missed \in [Requests -> SUBSET (Pubkeys \cup {User})]
  /\ wotMissed \subseteq Pubkeys \cup {User}

Init ==
  /\ held \in Worlds
  /\ userContacts = None
  /\ userNIP65 = [p \in Pubkeys |-> None]
  /\ wotScores = None
  /\ relayPrefs = None
  /\ pc = [r \in Requests |-> "idle"]
  /\ kind = [r \in Requests |-> "users"]
  /\ ended = [r \in Requests |-> FALSE]
  /\ follows = [r \in Requests |-> <<>>]
  /\ lookup = [r \in Requests |-> NoLookups]
  /\ scores = [r \in Requests |-> [scores |-> NoScores, count |-> 0]]
  /\ answer = [r \in Requests |-> NoAnswer]
  /\ missed = [r \in Requests |-> {}]
  /\ wotMissed = {}

----------------------------------------------------------------------------
(* Lists, and what a fan-out brings *)

\* parseContactTags keeps the first tag for each key; of the keys, the first
\* MaxFollows are processed.
FirstTags(tags) == {i \in DOMAIN tags : \A j \in 1..(i - 1) : tags[j] # tags[i]}

Processed(tags) ==
  {tags[i] : i \in {k \in FirstTags(tags) :
                      Cardinality({j \in FirstTags(tags) : j =< k}) =< MaxFollows}}

\* parseNIP65Tags, parseRelayTags: a relay is written to unless marked "read".
WriteTags(tags, u) == {i \in DOMAIN tags : tags[i].url = u /\ tags[i].marker # "read"}

CountWrites(scored, tags) ==
  [u \in Relays |-> scored[u] + Cardinality(WriteTags(tags, u))]

\* awaitStoredEvent, for each relay of a set that answered: its event, if any.
Arrived(events, answering) == {events[s] : s \in answering} \ {None}

\* With equal times the first to arrive stays.
Newest(events) == {e \in events : \A d \in events : d.at =< e.at}

----------------------------------------------------------------------------
(* A request arrives, and its context ends *)

GoTo(r, label) == pc' = [pc EXCEPT ![r] = label]

Reply(r, a) ==
  /\ GoTo(r, "idle")
  /\ answer' = [answer EXCEPT ![r] = a]
  /\ ended' = [ended EXCEPT ![r] = FALSE]
  /\ follows' = [follows EXCEPT ![r] = <<>>]
  /\ lookup' = [lookup EXCEPT ![r] = NoLookups]
  /\ scores' = [scores EXCEPT ![r] = [scores |-> NoScores, count |-> 0]]
  /\ UNCHANGED kind

\* The handlers in api.go with a valid public key; without one a recommendation
\* goes straight to the directory.
Arrive(r) ==
  /\ pc[r] = "idle"
  /\ \/ \E start \in {"scores", "recommend"} :
           GoTo(r, start) /\ kind' = [kind EXCEPT ![r] = "recommend"]
     \/ GoTo(r, "contacts") /\ kind' = [kind EXCEPT ![r] = "reviews"]
     \/ GoTo(r, "prefs") /\ kind' = [kind EXCEPT ![r] = "prefs"]
  /\ answer' = [answer EXCEPT ![r] = NoAnswer]
  /\ missed' = [missed EXCEPT ![r] = {}]
  /\ UNCHANGED <<world, redis, ended, follows, lookup, scores, wotMissed>>

Unresolved(r) == {p \in Pubkeys : lookup[r][p] \in {"waiting", "asking"}}

\* wotBudget runs out, or the client goes away.
BudgetEnds(r) ==
  /\ pc[r] \in {"contacts", "fetch", "keep", "follows", "lists"}
  /\ ~ended[r]
  /\ ended' = [ended EXCEPT ![r] = TRUE]
  /\ missed' = [missed EXCEPT ![r] =
                  IF pc[r] = "lists" THEN Unresolved(r) ELSE {User}]
  /\ UNCHANGED <<world, redis, pc, kind, follows, lookup, scores, answer, wotMissed>>

----------------------------------------------------------------------------
(* getFollows and fetchContactList *)

ContactsUnchanged ==
  UNCHANGED <<world, userNIP65, wotScores, relayPrefs, kind, ended, lookup,
              scores, answer, missed, wotMissed>>

\* A read of Redis that fails counts as a miss, here and below.
ReadContacts(r) ==
  /\ pc[r] = "contacts"
  /\ \/ /\ userContacts # None
        /\ follows' = [follows EXCEPT ![r] = userContacts]
        /\ GoTo(r, "follows")
     \/ GoTo(r, "fetch") /\ UNCHANGED follows
  /\ UNCHANGED userContacts
  /\ ContactsUnchanged

\* Some relay answered with a list.
ContactsArrive(r) ==
  /\ pc[r] = "fetch"
  /\ \E answering \in SUBSET Seeds :
       \E e \in Newest(Arrived(held.contacts, answering)) :
          follows' = [follows EXCEPT ![r] = e.tags]
  /\ GoTo(r, IF ended[r] THEN "follows" ELSE "keep")
  /\ UNCHANGED userContacts
  /\ ContactsUnchanged

\* Mutant: no list among the answers is taken for "follows nobody".
ContactsNoneAnswered(r) ==
  /\ pc[r] = "fetch"
  /\ \E answering \in SUBSET Seeds : Arrived(held.contacts, answering) = {}
  /\ GoTo(r, IF ended[r] THEN "follows" ELSE "keep")
  /\ UNCHANGED <<follows, userContacts>>
  /\ ContactsUnchanged

\* Every relay answered, and none has a list: the user follows nobody.
ContactsNone(r) ==
  /\ pc[r] = "fetch"
  /\ Arrived(held.contacts, Seeds) = {}
  /\ GoTo(r, IF ended[r] THEN "follows" ELSE "keep")
  /\ UNCHANGED <<follows, userContacts>>
  /\ ContactsUnchanged

\* errContactsUnanswered: a partial answer without scores, or reviews without
\* a network.
ContactsUnanswered(r) ==
  /\ pc[r] = "fetch"
  /\ \E answering \in SUBSET Seeds :
        answering # Seeds /\ Arrived(held.contacts, answering) = {}
  /\ IF kind[r] = "recommend"
     THEN /\ GoTo(r, "recommend")
          /\ answer' = [answer EXCEPT ![r].partial = TRUE]
          /\ UNCHANGED <<kind, ended, follows, lookup, scores>>
     ELSE Reply(r, [NoAnswer EXCEPT !.status = "ok"])
  /\ UNCHANGED <<world, redis, missed, wotMissed>>

KeepContacts(r) ==
  /\ pc[r] = "keep"
  /\ userContacts' \in {userContacts, follows[r]}
  /\ GoTo(r, "follows")
  /\ UNCHANGED follows
  /\ ContactsUnchanged

----------------------------------------------------------------------------
(* GetWoTRelayScores and computeWoTScores *)

ReadScores(r) ==
  /\ pc[r] = "scores"
  /\ \/ /\ wotScores # None
        /\ scores' = [scores EXCEPT ![r] = wotScores]
        /\ missed' = [missed EXCEPT ![r] = wotMissed]
        /\ GoTo(r, "recommend")
     \/ GoTo(r, "contacts") /\ UNCHANGED <<scores, missed>>
  /\ UNCHANGED <<world, redis, kind, ended, follows, lookup, answer, wotMissed>>

Partial(r) ==
  /\ GoTo(r, "recommend")
  /\ answer' = [answer EXCEPT ![r].partial = TRUE]

\* The follows are known: one goroutine for each of the first MaxFollows.
StartLookups(r) ==
  /\ pc[r] = "follows"
  /\ IF kind[r] = "reviews"
     THEN Reply(r, [NoAnswer EXCEPT !.status = "ok"])
     ELSE /\ IF ended[r]
             THEN Partial(r) /\ UNCHANGED <<lookup, scores>>
             ELSE IF follows[r] = <<>>
             THEN GoTo(r, "store") /\ UNCHANGED <<lookup, scores, answer>>
             ELSE /\ GoTo(r, "lists")
                  /\ lookup' = [lookup EXCEPT ![r] =
                       [p \in Pubkeys |-> IF p \in Processed(follows[r])
                                          THEN "waiting" ELSE "off"]]
                  /\ scores' = [scores EXCEPT ![r].count =
                                   Cardinality(Processed(follows[r]))]
                  /\ UNCHANGED answer
          /\ UNCHANGED <<kind, ended, follows>>
  /\ UNCHANGED <<world, redis, missed, wotMissed>>

LookupUnchanged ==
  UNCHANGED <<world, userContacts, wotScores, relayPrefs, pc, kind, ended, follows,
              answer, wotMissed>>

\* fetched++, and the write relays of the list.
CountFollow(r, p, tags) ==
  /\ lookup' = [lookup EXCEPT ![r][p] = "counted"]
  /\ scores' = [scores EXCEPT ![r].scores = CountWrites(@, tags)]
  /\ missed' = [missed EXCEPT ![r] = @ \ {p}]

\* The semaphore, then getFollowRelays as far as the cache.
StartLookup(r, p) ==
  /\ pc[r] = "lists" /\ lookup[r][p] = "waiting"
  /\ Cardinality({q \in Pubkeys : lookup[r][q] = "asking"}) < MaxFetches
  /\ \/ /\ userNIP65[p] # None
        /\ CountFollow(r, p, userNIP65[p])
     \/ /\ lookup' = [lookup EXCEPT ![r][p] = "asking"]
        /\ UNCHANGED <<scores, missed>>
  /\ UNCHANGED userNIP65
  /\ LookupUnchanged

GiveUpWaiting(r, p) ==
  /\ pc[r] = "lists" /\ lookup[r][p] = "waiting"
  /\ ended[r]
  /\ lookup' = [lookup EXCEPT ![r][p] = "failed"]
  /\ UNCHANGED <<userNIP65, scores, missed>>
  /\ LookupUnchanged

\* fetchUserNIP65: ErrNoEventsFound, also when some relay did not answer.
LookupFails(r, p) ==
  /\ pc[r] = "lists" /\ lookup[r][p] = "asking"
  /\ \E answering \in SUBSET Seeds : Arrived(held.lists[p], answering) = {}
  /\ lookup' = [lookup EXCEPT ![r][p] = "failed"]
  /\ UNCHANGED <<userNIP65, scores, missed>>
  /\ LookupUnchanged

\* A list is kept if it names a relay, and if Redis takes it.
LookupEnds(r, p) ==
  /\ pc[r] = "lists" /\ lookup[r][p] = "asking"
  /\ \E answering \in SUBSET Seeds :
       \E e \in Newest(Arrived(held.lists[p], answering)) :
          /\ CountFollow(r, p, e.tags)
          /\ \/ e.tags # <<>> /\ userNIP65' = [userNIP65 EXCEPT ![p] = e.tags]
             \/ UNCHANGED userNIP65
  /\ LookupUnchanged

Fetched(r) == {p \in Pubkeys : lookup[r][p] = "counted"}

SumUnchanged ==
  UNCHANGED <<world, redis, kind, ended, follows, lookup, scores, missed, wotMissed>>

\* Mutant: short of all follows is not looked at.
SumComplete(r) ==
  /\ pc[r] = "lists" /\ Unresolved(r) = {}
  /\ GoTo(r, "store") /\ UNCHANGED answer
  /\ SumUnchanged

\* Mutant: the sum waits until every follow was counted.
SumWhenCounted(r) ==
  /\ pc[r] = "lists" /\ Cardinality(Fetched(r)) = scores[r].count
  /\ GoTo(r, "store") /\ UNCHANGED answer
  /\ SumUnchanged

\* After wg.Wait: Partial is fetchCtx.Err() != nil && fetched < len(follows).
Sum(r) ==
  /\ pc[r] = "lists" /\ Unresolved(r) = {}
  /\ IF ended[r] /\ Cardinality(Fetched(r)) < scores[r].count
     THEN Partial(r)
     ELSE GoTo(r, "store") /\ UNCHANGED answer
  /\ SumUnchanged

StoreScores(r) ==
  /\ pc[r] = "store"
  /\ \/ wotScores' = scores[r] /\ wotMissed' = missed[r]
     \/ UNCHANGED <<wotScores, wotMissed>>
  /\ GoTo(r, "recommend")
  /\ UNCHANGED <<world, userContacts, userNIP65, relayPrefs, work, answer, missed>>

----------------------------------------------------------------------------
(* RecommendRelaysHandler, from the directory on *)

\* sort.Slice by score, descending, keeps no order among equals.
Rankings(relays, score) ==
  {q \in [1..Cardinality(relays) -> relays] :
     \A i, j \in 1..Cardinality(relays) :
        i < j => q[i] # q[j] /\ score[q[i]] >= score[q[j]]}

\* Mutant: what the follows use adds nothing.
TotalScoreAlone(r, criteria) == [u \in Relays |-> scoreRelay(Directory[u], criteria)]

TotalScore(r, criteria) ==
  [u \in Relays |-> scoreRelay(Directory[u], criteria)
                    + NetworkScore(scores[r].scores[u], scores[r].count)]

First(n, q) == SubSeq(q, 1, IF Len(q) < n THEN Len(q) ELSE n)

\* The relays found are those cached at the time; reading them may fail.
Recommend(r) ==
  /\ pc[r] = "recommend"
  /\ \/ \E present \in SUBSET Relays, criteria \in Criteria :
          LET eligible == {u \in present : Recommendable(Directory[u], criteria)}
          IN \E ranked \in Rankings(eligible, TotalScore(r, criteria)) :
                Reply(r, [answer[r] EXCEPT !.status = "ok",
                                           !.shown = First(criteria.limit, ranked)])
     \/ Reply(r, [NoAnswer EXCEPT !.status = "unavailable"])
  /\ UNCHANGED <<world, redis, missed, wotMissed>>

----------------------------------------------------------------------------
(* RelayPrefsHandler and fetchRelayPrefs; UserRelaysHandler *)

PrefsUnchanged ==
  UNCHANGED <<world, userContacts, userNIP65, wotScores, missed, wotMissed>>

PrefsReply(r, source) == Reply(r, [NoAnswer EXCEPT !.status = "ok", !.source = source])

ReadPrefs(r) ==
  /\ pc[r] = "prefs"
  /\ \/ relayPrefs # None /\ PrefsReply(r, relayPrefs)
     \/ GoTo(r, "cloistr") /\ UNCHANGED <<work, answer>>
  /\ UNCHANGED relayPrefs
  /\ PrefsUnchanged

\* The relay cannot be reached, or does not answer: 503, and nothing is kept.
PrefsUnavailable(r) ==
  /\ pc[r] \in {"cloistr", "nip65"}
  /\ Reply(r, [NoAnswer EXCEPT !.status = "unavailable"])
  /\ UNCHANGED relayPrefs
  /\ PrefsUnchanged

\* Mutant: a relay that did not answer for kind 30078 is asked for kind 10002.
AskCloistrRelaysOrNot(r) ==
  /\ pc[r] = "cloistr"
  /\ \E found \in {held.prefs # <<>>, FALSE} :
       /\ GoTo(r, IF found THEN "keepPrefs" ELSE "nip65")
       /\ answer' = [answer EXCEPT ![r].source =
                       IF found THEN "cloistr-relays" ELSE "none"]
  /\ UNCHANGED <<relayPrefs, work>>
  /\ PrefsUnchanged

\* An answer without relays leads on to kind 10002, then to the default.
AskCloistrRelays(r) ==
  /\ pc[r] = "cloistr"
  /\ GoTo(r, IF held.prefs # <<>> THEN "keepPrefs" ELSE "nip65")
  /\ answer' = [answer EXCEPT ![r].source =
                  IF held.prefs # <<>> THEN "cloistr-relays" ELSE "none"]
  /\ UNCHANGED <<relayPrefs, work>>
  /\ PrefsUnchanged

\* Mutant: with nothing found the source is left open.
AskNIP65NoDefault(r) ==
  /\ pc[r] = "nip65"
  /\ GoTo(r, "keepPrefs")
  /\ answer' = [answer EXCEPT ![r].source =
                  IF held.nip65 # <<>> THEN "nip65" ELSE "none"]
  /\ UNCHANGED <<relayPrefs, work>>
  /\ PrefsUnchanged

AskNIP65(r) ==
  /\ pc[r] = "nip65"
  /\ GoTo(r, "keepPrefs")
  /\ answer' = [answer EXCEPT ![r].source =
                  IF held.nip65 # <<>> THEN "nip65" ELSE "default"]
  /\ UNCHANGED <<relayPrefs, work>>
  /\ PrefsUnchanged

KeepPrefs(r) ==
  /\ pc[r] = "keepPrefs"
  /\ relayPrefs' \in {relayPrefs, answer[r].source}
  /\ PrefsReply(r, answer[r].source)
  /\ PrefsUnchanged

\* From the cache alone: a miss, or a failed read, is a 404.
UserRelays(r, p) ==
  /\ pc[r] = "idle"
  /\ \E found \in {userNIP65[p] # None, FALSE} :
        answer' = [answer EXCEPT ![r] =
          [NoAnswer EXCEPT !.status = IF found THEN "ok" ELSE "not found"]]
  /\ kind' = [kind EXCEPT ![r] = "users"]
  /\ missed' = [missed EXCEPT ![r] = {}]
  /\ UNCHANGED <<world, redis, pc, ended, follows, lookup, scores, wotMissed>>

----------------------------------------------------------------------------
(* The cache *)

Expire ==
  /\ \/ /\ userContacts' = None
        /\ UNCHANGED <<userNIP65, wotScores, wotMissed, relayPrefs>>
     \/ /\ \E p \in Pubkeys : userNIP65' = [userNIP65 EXCEPT ![p] = None]
        /\ UNCHANGED <<userContacts, wotScores, wotMissed, relayPrefs>>
     \/ /\ wotScores' = None /\ wotMissed' = {}
        /\ UNCHANGED <<userContacts, userNIP65, relayPrefs>>
     \/ /\ relayPrefs' = None
        /\ UNCHANGED <<userContacts, userNIP65, wotScores, wotMissed>>
  /\ UNCHANGED <<world, pc, work, answer, missed>>

HandlerStep(r) ==
  \/ ReadScores(r) \/ ReadContacts(r)
  \/ ContactsArrive(r) \/ ContactsNone(r) \/ ContactsUnanswered(r) \/ KeepContacts(r)
  \/ StartLookups(r)
  \/ \E p \in Pubkeys : \/ StartLookup(r, p) \/ GiveUpWaiting(r, p)
                        \/ LookupFails(r, p) \/ LookupEnds(r, p)
  \/ Sum(r) \/ StoreScores(r) \/ Recommend(r)
  \/ ReadPrefs(r) \/ AskCloistrRelays(r) \/ AskNIP65(r) \/ PrefsUnavailable(r)
  \/ KeepPrefs(r)

Next ==
  \/ \E r \in Requests :
       \/ Arrive(r) \/ BudgetEnds(r) \/ HandlerStep(r)
       \/ \E p \in Pubkeys : UserRelays(r, p)
  \/ Expire

Spec == Init /\ [][Next]_vars

(***************************************************************************)
(* A handler's goroutines run.  A question to a relay ends: the relay      *)
(* answers, is silent for 5 s, drops the connection, or the context ends.  *)
(* Nothing is assumed of arrivals, budgets, expiry and what relays answer. *)
(***************************************************************************)
Fairness == \A r \in Requests : WF_vars(HandlerStep(r))

FairSpec == Spec /\ Fairness

----------------------------------------------------------------------------
(* Properties *)

\* wot.go: a silent relay may be the one that holds the contact list.  What is
\* kept as the user's contacts is a list that some relay holds, and nobody at all
\* only if no relay holds one.
ContactsKnown ==
  userContacts # None =>
    \/ \E s \in Seeds : held.contacts[s] # None /\ held.contacts[s].tags = userContacts
    \/ userContacts = <<>> /\ \A s \in Seeds : held.contacts[s] = None

\* "A partial WoT result must not be cached as complete" (wot_budget_test.go):
\* the end of the budget cut nothing off that the cached scores lack, whichever of
\* the stages it fell in and whatever arrived after it.
CutShortNotCached == wotScores # None => wotMissed = {}

\* A recommendation that does not say wot_partial lacks nothing that its budget
\* cut off, whether its scores were computed for it or read from the cache.
PartialTold ==
  \A r \in Requests :
    /\ pc[r] = "idle" /\ kind[r] = "recommend"
    /\ answer[r].status = "ok" /\ ~answer[r].partial
    => missed[r] = {}

PrefsHeld == IF held.prefs # <<>> THEN "cloistr-relays"
             ELSE IF held.nip65 # <<>> THEN "nip65" ELSE "default"

\* relayprefs.go: no answer is not "the user has none".  The source that is kept,
\* and the one that is replied, are what the preferences relay holds.
PrefsKnown ==
  /\ relayPrefs # None => relayPrefs = PrefsHeld
  /\ \A r \in Requests :
       answer[r].status = "ok" /\ kind[r] = "prefs" => answer[r].source = PrefsHeld

\* Of two relays that are alike in the directory, a recommendation never lists
\* first the one that the lists of the follows name less often as written to.
\* The mentions are what decides: a follow who names a relay twice counts twice.
NetworkDecides ==
  [][\A r \in Requests :
       pc[r] = "recommend" /\ pc'[r] = "idle" =>
         \A i, j \in DOMAIN answer'[r].shown :
           LET x == answer'[r].shown[i]
               y == answer'[r].shown[j]
           IN  i < j /\ Directory[x] = Directory[y]
                 => scores[r].scores[x] >= scores[r].scores[y]]_vars

\* Relays that never answer, a full semaphore, the end of the budget at any
\* point: each request is answered.
RequestAnswered == \A r \in Requests : pc[r] # "idle" ~> pc[r] = "idle"

\* wot.go: "silence and a dropped connection are not 'the user has none'".  Scores
\* about to be kept as complete have counted each follow whose list a relay holds.
SilenceIsNotNone ==
  \A r \in Requests : pc[r] = "store" =>
    \A p \in Processed(follows[r]) :
      (\E s \in Seeds : held.lists[p][s] # None) => lookup[r][p] = "counted"
=============================================================================
