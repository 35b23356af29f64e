--------------------------- MODULE UserLookupsProofs ---------------------------
(***************************************************************************)
(* What holds of UserLookups for any number of requests, relays, follows   *)
(* and states of the relays: silence and time budgets never turn into      *)
(* facts about a user.                                                     *)
(***************************************************************************)
EXTENDS RelayReviews, FiniteSetTheorems, SequenceTheorems, TLAPS

(***************************************************************************)
(* Helpers                                                                 *)
(***************************************************************************)

\* A set of positions of a list can be counted.
LEMMA PositionsCounted ==
  ASSUME NEW S, NEW tags \in Seq(S), NEW I \in SUBSET (DOMAIN tags)
  PROVE  IsFiniteSet(I) /\ Cardinality(I) \in Nat
<1>1. IsFiniteSet(1..Len(tags))
  BY FS_Interval, LenProperties
<1>2. I \subseteq 1..Len(tags)
  BY LenProperties
<1> QED BY <1>1, <1>2, FS_Subset, FS_CardinalityType

\* Adding the write entries of a list keeps a count for each relay.
LEMMA CountWritesType ==
  ASSUME NEW scored \in [Relays -> Nat], NEW tags \in Seq(RelayTag)
  PROVE  CountWrites(scored, tags) \in [Relays -> Nat]
<1>1. ASSUME NEW u \in Relays PROVE Cardinality(WriteTags(tags, u)) \in Nat
  <2>1. WriteTags(tags, u) \in SUBSET (DOMAIN tags)  BY DEF WriteTags
  <2> QED BY <2>1, PositionsCounted
<1> QED BY <1>1 DEF CountWrites

\* The number of the follows to look up.
LEMMA ProcessedCounted ==
  ASSUME NEW tags \in Seq(Pubkeys)
  PROVE  /\ Processed(tags) \subseteq Pubkeys
         /\ Cardinality(Processed(tags)) \in Nat
<1>1. \A i \in DOMAIN tags : tags[i] \in Pubkeys
  BY ElementOfSeq, LenProperties
<1>2. Processed(tags) \subseteq Pubkeys
  BY <1>1 DEF Processed, FirstTags
<1>3. IsFiniteSet(Processed(tags))
  BY <1>2, LookupAssumption, FS_Subset
<1>4. Cardinality(Processed(tags)) \in Nat
  BY <1>3, FS_CardinalityType
<1> QED BY <1>2, <1>4

\* The newest list that arrives is one that a relay of the fan-out holds.
LEMMA NewestHeld ==
  ASSUME NEW events, NEW answering \in SUBSET Seeds,
         NEW e \in Newest(Arrived(events, answering))
  PROVE  \E s \in Seeds : events[s] = e /\ e # None
BY DEF Newest, Arrived

\* A ranking is a sequence of relays, and what is shown of it is its beginning.
LEMMA RankingType ==
  ASSUME NEW relays \in SUBSET Relays, NEW score, NEW q \in Rankings(relays, score)
  PROVE  q \in Seq(Relays) /\ DOMAIN q = 1..Cardinality(relays)
<1>1. Cardinality(relays) \in Nat
  BY LookupAssumption, FS_Subset, FS_CardinalityType
<1>2. q \in [1..Cardinality(relays) -> Relays]  BY DEF Rankings
<1> QED BY <1>1, <1>2, SeqDef

LEMMA FirstType ==
  ASSUME NEW n \in Nat \ {0}, NEW q \in Seq(Relays)
  PROVE  /\ First(n, q) \in Seq(Relays)
         /\ \A i \in DOMAIN First(n, q) : i \in DOMAIN q /\ First(n, q)[i] = q[i]
<1> DEFINE k == IF Len(q) < n THEN Len(q) ELSE n
<1>1. k \in Nat /\ k =< Len(q)
  BY LenProperties
<1>2. /\ SubSeq(q, 1, k) \in Seq(Relays)
      /\ Len(SubSeq(q, 1, k)) = k
      /\ \A i \in 1..k : SubSeq(q, 1, k)[i] = q[i]
  BY <1>1, SubSeqProperties, ElementOfSeq
<1> QED BY <1>1, <1>2, LenProperties DEF First

(***************************************************************************)
(* The inductive invariant: what each request's work so far is worth       *)
(***************************************************************************)

KnownContacts(tags) ==
  \/ \E s \in Seeds : held.contacts[s] # None /\ held.contacts[s].tags = tags
  \/ tags = <<>> /\ \A s \in Seeds : held.contacts[s] = None

\* A list about to be kept is known; before, there is none to take it from.
ContactsWork(r) ==
  /\ pc[r] \in {"idle", "scores", "contacts", "fetch"} => follows[r] = <<>>
  /\ pc[r] = "keep" => KnownContacts(follows[r])

KindWork(r) ==
  /\ pc[r] \in {"scores", "lists", "store", "recommend"} => kind[r] = "recommend"
  /\ pc[r] \in {"contacts", "fetch", "keep", "follows"}
       => kind[r] \in {"recommend", "reviews"}
  /\ pc[r] \in {"prefs", "cloistr", "nip65", "keepPrefs"} => kind[r] = "prefs"
  /\ pc[r] # "idle" => answer[r].status = "none"

\* What the end of the budget cut off stays known until it is told: a follow that
\* was cut off is counted, or is one of those that keep the sum short.
BudgetWork(r) ==
  /\ pc[r] \in {"scores", "contacts", "fetch", "keep", "follows", "lists"} /\ ~ended[r]
       => missed[r] = {}
  /\ pc[r] = "lists" =>
       /\ missed[r] \subseteq
            {p \in Pubkeys : lookup[r][p] \in {"waiting", "asking", "failed"}}
       /\ scores[r].count = Cardinality({p \in Pubkeys : lookup[r][p] # "off"})
  /\ pc[r] = "store" => missed[r] = {}
  /\ pc[r] = "recommend" => missed[r] = {} \/ answer[r].partial
  /\ /\ pc[r] = "idle" /\ kind[r] = "recommend"
     /\ answer[r].status = "ok" /\ ~answer[r].partial
     => missed[r] = {}

PrefsWork(r) ==
  /\ pc[r] = "nip65" => held.prefs = <<>>
  /\ pc[r] = "keepPrefs" => answer[r].source = PrefsHeld
  /\ answer[r].status = "ok" /\ kind[r] = "prefs" => answer[r].source = PrefsHeld

Work(r) == ContactsWork(r) /\ KindWork(r) /\ BudgetWork(r) /\ PrefsWork(r)

PrefsCached == relayPrefs # None => relayPrefs = PrefsHeld

IInv ==
  /\ TypeOK
  /\ ContactsKnown /\ CutShortNotCached /\ PrefsCached
  /\ \A r \in Requests : Work(r)

(***************************************************************************)
(* Types                                                                   *)
(***************************************************************************)

\* What the relays hold has its type.
LEMMA HeldType == ASSUME TypeOK PROVE held \in World
BY LookupAssumption DEF TypeOK

LEMMA ReplyType ==
  ASSUME TypeOK, NEW r \in Requests, NEW a, Reply(r, a),
         a \in Answer,
         UNCHANGED <<held, userContacts, userNIP65, wotScores, missed, wotMissed>>,
         relayPrefs' \in Sources \cup {None}
  PROVE  TypeOK'
<1>1. NoScores \in [Relays -> Nat] /\ NoLookups \in [Pubkeys -> Lookup]
  BY DEF NoScores, NoLookups, Lookup
<1> QED BY <1>1 DEF TypeOK, Reply, GoTo

LEMMA NoAnswerType ==
  /\ NoAnswer \in Answer
  /\ NoAnswer.status = "none" /\ NoAnswer.source = "none" /\ NoAnswer.shown = <<>>
  /\ NoAnswer.partial = FALSE
BY DEF NoAnswer, Sources, Answer

\* Answers are made by setting fields of answers.
LEMMA AnswerFields ==
  ASSUME NEW a \in Answer
  PROVE  /\ [a EXCEPT !.partial = TRUE] \in Answer
         /\ \A x \in {"none", "ok", "unavailable", "not found"} :
               [a EXCEPT !.status = x] \in Answer
         /\ \A x \in Sources \cup {"none"} : [a EXCEPT !.source = x] \in Answer
         /\ \A x \in Sources : [a EXCEPT !.status = "ok", !.source = x] \in Answer
         /\ \A q \in Seq(Relays) : [a EXCEPT !.status = "ok", !.shown = q] \in Answer
BY DEF Answer

LEMMA PartialType ==
  ASSUME TypeOK, NEW r \in Requests, answer' = [answer EXCEPT ![r].partial = TRUE]
  PROVE  answer' \in [Requests -> Answer]
<1>1. answer \in [Requests -> Answer]
  BY DEF TypeOK
<1>2. [answer[r] EXCEPT !.partial = TRUE] \in Answer
  BY <1>1, AnswerFields
<1> QED BY <1>1, <1>2

\* The source of an answer, and the rest of it, when the source is set.
LEMMA SourceSet ==
  ASSUME NEW a \in Answer, NEW x
  PROVE  /\ [a EXCEPT !.source = x].source = x
         /\ [a EXCEPT !.source = x].status = a.status
BY DEF Answer

LEMMA LookupValues ==
  {"off", "waiting", "asking", "counted", "failed"} = Lookup
BY DEF Lookup

LEMMA LookupUpdate ==
  ASSUME TypeOK, NEW r \in Requests, NEW p \in Pubkeys, NEW x \in Lookup,
         lookup' = [lookup EXCEPT ![r][p] = x]
  PROVE  lookup' \in [Requests -> [Pubkeys -> Lookup]]
BY DEF TypeOK

\* The contact list that a relay holds, and that is the newest to arrive.
LEMMA ContactsType ==
  ASSUME TypeOK, NEW answering \in SUBSET Seeds,
         NEW e \in Newest(Arrived(held.contacts, answering))
  PROVE  /\ e.tags \in Seq(Pubkeys)
         /\ \E s \in Seeds : held.contacts[s] # None /\ held.contacts[s].tags = e.tags
<1>1. PICK s \in Seeds : held.contacts[s] = e /\ e # None
  BY NewestHeld
<1>2. e \in ContactEvent
  BY <1>1, HeldType DEF World
<1> QED BY <1>1, <1>2 DEF ContactEvent

LEMMA ListType ==
  ASSUME TypeOK, NEW p \in Pubkeys, NEW answering \in SUBSET Seeds,
         NEW e \in Newest(Arrived(held.lists[p], answering))
  PROVE  e.tags \in Seq(RelayTag)
<1>1. PICK s \in Seeds : held.lists[p][s] = e /\ e # None
  BY NewestHeld
<1>2. e \in ListEvent
  BY <1>1, HeldType DEF World
<1> QED BY <1>2 DEF ListEvent

LEMMA TypeInit == Init => TypeOK
<1>1. <<>> \in Seq(Pubkeys)  OBVIOUS
<1>2. NoScores \in [Relays -> Nat]  BY DEF NoScores
<1>3. NoLookups \in [Pubkeys -> Lookup]
  BY DEF NoLookups, Lookup
<1> QED BY <1>1, <1>2, <1>3, NoAnswerType DEF Init, TypeOK

LEMMA TypeStep ==
  ASSUME TypeOK, \A r \in Requests : Work(r), [Next]_vars
  PROVE  TypeOK'
<1>u. CASE UNCHANGED vars
  BY <1>u DEF TypeOK, vars, world, redis, work
<1>e. CASE Expire
  BY <1>e DEF TypeOK, Expire, world, work
<1>1. ASSUME NEW r \in Requests, Arrive(r) PROVE TypeOK'
  <2>1. answer' \in [Requests -> Answer] /\ kind' \in [Requests -> {"recommend", "reviews", "prefs", "users"}]
    BY <1>1, NoAnswerType DEF TypeOK, Arrive
  <2>2. pc' \in [Requests -> {"idle", "scores", "contacts", "fetch", "keep", "follows",
                        "lists", "store", "recommend",
                        "prefs", "cloistr", "nip65", "keepPrefs"}]
    BY <1>1 DEF TypeOK, Arrive, GoTo
  <2> QED BY <1>1, <2>1, <2>2 DEF TypeOK, Arrive, world, redis
<1>2. ASSUME NEW r \in Requests, BudgetEnds(r) PROVE TypeOK'
  <2>1. Unresolved(r) \subseteq Pubkeys  BY DEF Unresolved
  <2> QED BY <1>2, <2>1 DEF TypeOK, BudgetEnds, world, redis
<1>3. ASSUME NEW r \in Requests, NEW p \in Pubkeys, UserRelays(r, p) PROVE TypeOK'
  <2>1. answer' \in [Requests -> Answer]
    BY <1>3, NoAnswerType, AnswerFields DEF TypeOK, UserRelays
  <2> QED BY <1>3, <2>1 DEF TypeOK, UserRelays, world, redis
<1>4. ASSUME NEW r \in Requests, ReadScores(r) PROVE TypeOK'
  <2>1. CASE wotScores # None /\ scores' = [scores EXCEPT ![r] = wotScores]
             /\ missed' = [missed EXCEPT ![r] = wotMissed] /\ GoTo(r, "recommend")
    BY <1>4, <2>1 DEF TypeOK, ReadScores, GoTo, world, redis
  <2>2. CASE GoTo(r, "contacts") /\ UNCHANGED <<scores, missed>>
    BY <1>4, <2>2 DEF TypeOK, ReadScores, GoTo, world, redis
  <2> QED BY <1>4, <2>1, <2>2 DEF ReadScores
<1>5. ASSUME NEW r \in Requests, ReadContacts(r) PROVE TypeOK'
  <2>1. CASE userContacts # None /\ follows' = [follows EXCEPT ![r] = userContacts]
             /\ GoTo(r, "follows")
    BY <1>5, <2>1 DEF TypeOK, ReadContacts, ContactsUnchanged, GoTo, world
  <2>2. CASE GoTo(r, "fetch") /\ UNCHANGED follows
    BY <1>5, <2>2 DEF TypeOK, ReadContacts, ContactsUnchanged, GoTo, world
  <2> QED BY <1>5, <2>1, <2>2 DEF ReadContacts
<1>6. ASSUME NEW r \in Requests, ContactsArrive(r) PROVE TypeOK'
  <2>1. PICK tags \in Seq(Pubkeys) : follows' = [follows EXCEPT ![r] = tags]
    BY <1>6, ContactsType DEF ContactsArrive
  <2> QED BY <1>6, <2>1 DEF TypeOK, ContactsArrive, ContactsUnchanged, GoTo, world
<1>7. ASSUME NEW r \in Requests, ContactsNone(r) PROVE TypeOK'
  BY <1>7 DEF TypeOK, ContactsNone, ContactsUnchanged, GoTo, world
<1>8. ASSUME NEW r \in Requests, ContactsUnanswered(r) PROVE TypeOK'
  <2>1. CASE kind[r] = "recommend"
    <3>1. answer' \in [Requests -> Answer]
      BY <1>8, <2>1, PartialType DEF ContactsUnanswered
    <3> QED BY <1>8, <2>1, <3>1 DEF TypeOK, ContactsUnanswered, GoTo, world, redis
  <2>2. CASE kind[r] # "recommend"
    <3>1. Reply(r, [NoAnswer EXCEPT !.status = "ok"])
      BY <1>8, <2>2 DEF ContactsUnanswered
    <3> QED BY <1>8, <3>1, ReplyType, NoAnswerType, AnswerFields
            DEF ContactsUnanswered, world, redis, TypeOK
  <2> QED BY <2>1, <2>2
<1>9. ASSUME NEW r \in Requests, KeepContacts(r) PROVE TypeOK'
  <2>1. userContacts' \in Seq(Pubkeys) \cup {None}
    BY <1>9 DEF TypeOK, KeepContacts
  <2> QED BY <1>9, <2>1 DEF TypeOK, KeepContacts, ContactsUnchanged, GoTo, world
<1>10. ASSUME NEW r \in Requests, StartLookups(r) PROVE TypeOK'
  <2>1. CASE kind[r] = "reviews"
    <3>1. Reply(r, [NoAnswer EXCEPT !.status = "ok"])
      BY <1>10, <2>1 DEF StartLookups
    <3> QED BY <1>10, <3>1, ReplyType, NoAnswerType, AnswerFields
            DEF StartLookups, world, redis, TypeOK
  <2>2. CASE kind[r] # "reviews" /\ ended[r]
    <3>1. answer' \in [Requests -> Answer]
      BY <1>10, <2>2, PartialType DEF StartLookups, Partial
    <3> QED BY <1>10, <2>2, <3>1 DEF TypeOK, StartLookups, Partial, GoTo, world, redis
  <2>3. CASE kind[r] # "reviews" /\ ~ended[r] /\ follows[r] = <<>>
    BY <1>10, <2>3 DEF TypeOK, StartLookups, GoTo, world, redis
  <2>4. CASE kind[r] # "reviews" /\ ~ended[r] /\ follows[r] # <<>>
    <3>1. Cardinality(Processed(follows[r])) \in Nat
      BY ProcessedCounted DEF TypeOK
    <3>2. /\ lookup' \in [Requests -> [Pubkeys -> Lookup]]
          /\ scores' \in [Requests -> [scores : [Relays -> Nat], count : Nat]]
      <4>1. /\ lookup' = [lookup EXCEPT ![r] =
                  [p \in Pubkeys |-> IF p \in Processed(follows[r])
                                     THEN "waiting" ELSE "off"]]
            /\ scores' = [scores EXCEPT ![r].count =
                             Cardinality(Processed(follows[r]))]
        BY <1>10, <2>4 DEF StartLookups
      <4>2. lookup' \in [Requests -> [Pubkeys -> Lookup]]
        BY <4>1, LookupValues DEF TypeOK
      <4>3. scores' \in [Requests -> [scores : [Relays -> Nat], count : Nat]]
        BY <3>1, <4>1 DEF TypeOK
      <4> QED BY <4>2, <4>3
    <3> QED BY <1>10, <2>4, <3>2 DEF TypeOK, StartLookups, GoTo, world, redis
  <2> QED BY <2>1, <2>2, <2>3, <2>4
<1>11. ASSUME NEW r \in Requests, NEW p \in Pubkeys, NEW tags \in Seq(RelayTag),
              CountFollow(r, p, tags), LookupUnchanged,
              userNIP65' \in [Pubkeys -> Seq(RelayTag) \cup {None}]
       PROVE  TypeOK'
  <2>1. CountWrites(scores[r].scores, tags) \in [Relays -> Nat]
    BY CountWritesType DEF TypeOK
  <2>2. lookup' \in [Requests -> [Pubkeys -> Lookup]]
    BY <1>11, LookupValues, LookupUpdate DEF CountFollow
  <2>3. scores' \in [Requests -> [scores : [Relays -> Nat], count : Nat]]
    BY <1>11, <2>1 DEF TypeOK, CountFollow
  <2>4. missed' \in [Requests -> SUBSET (Pubkeys \cup {User})]
    BY <1>11 DEF TypeOK, CountFollow
  <2> QED BY <1>11, <2>2, <2>3, <2>4 DEF TypeOK, LookupUnchanged, world
<1>12. ASSUME NEW r \in Requests, NEW p \in Pubkeys, StartLookup(r, p) PROVE TypeOK'
  <2>1. CASE userNIP65[p] # None /\ CountFollow(r, p, userNIP65[p])
    <3>1. userNIP65[p] \in Seq(RelayTag)  BY <2>1 DEF TypeOK
    <3> QED BY <1>11, <1>12, <2>1, <3>1 DEF StartLookup, TypeOK
  <2>2. CASE lookup' = [lookup EXCEPT ![r][p] = "asking"] /\ UNCHANGED <<scores, missed>>
    BY <1>12, <2>2, LookupValues, LookupUpdate
       DEF TypeOK, StartLookup, LookupUnchanged, world
  <2> QED BY <1>12, <2>1, <2>2 DEF StartLookup
<1>13. ASSUME NEW r \in Requests, NEW p \in Pubkeys, GiveUpWaiting(r, p) PROVE TypeOK'
  BY <1>13, LookupValues, LookupUpdate DEF TypeOK, GiveUpWaiting, LookupUnchanged, world
<1>14. ASSUME NEW r \in Requests, NEW p \in Pubkeys, LookupFails(r, p) PROVE TypeOK'
  BY <1>14, LookupValues, LookupUpdate DEF TypeOK, LookupFails, LookupUnchanged, world
<1>15. ASSUME NEW r \in Requests, NEW p \in Pubkeys, LookupEnds(r, p) PROVE TypeOK'
  <2>1. PICK tags \in Seq(RelayTag) :
          /\ CountFollow(r, p, tags)
          /\ \/ userNIP65' = [userNIP65 EXCEPT ![p] = tags]
             \/ UNCHANGED userNIP65
    BY <1>15, ListType DEF LookupEnds
  <2>2. userNIP65' \in [Pubkeys -> Seq(RelayTag) \cup {None}]
    BY <2>1 DEF TypeOK
  <2> QED BY <1>11, <1>15, <2>1, <2>2 DEF LookupEnds
<1>16. ASSUME NEW r \in Requests, Sum(r) PROVE TypeOK'
  <2>1. answer' \in [Requests -> Answer]
    BY <1>16, PartialType DEF TypeOK, Sum, Partial
  <2>2. UNCHANGED <<lookup, scores>>
    BY <1>16 DEF Sum, SumUnchanged
  <2> QED BY <1>16, <2>1, <2>2 DEF TypeOK, Sum, SumUnchanged, Partial, GoTo, world, redis
<1>17. ASSUME NEW r \in Requests, StoreScores(r) PROVE TypeOK'
  BY <1>17 DEF TypeOK, StoreScores, GoTo, world, work
<1>18. ASSUME NEW r \in Requests, Recommend(r) PROVE TypeOK'
  <2>1. CASE Reply(r, [NoAnswer EXCEPT !.status = "unavailable"])
    BY <1>18, <2>1, ReplyType, NoAnswerType, AnswerFields DEF Recommend, world, redis, TypeOK
  <2>2. ASSUME NEW present \in SUBSET Relays, NEW criteria \in Criteria,
               NEW ranked \in Rankings({u \in present : Recommendable(Directory[u], criteria)},
                                       TotalScore(r, criteria)),
               Reply(r, [answer[r] EXCEPT !.status = "ok",
                                          !.shown = First(criteria.limit, ranked)])
        PROVE  TypeOK'
    <3>1. criteria.limit \in Nat \ {0}
      BY LookupAssumption DEF RecommendationInputs
    <3>2. First(criteria.limit, ranked) \in Seq(Relays)
      BY <3>1, RankingType, FirstType
    <3> QED BY <1>18, <2>2, <3>2, ReplyType, AnswerFields DEF Recommend, world, redis, TypeOK
  <2> QED BY <1>18, <2>1, <2>2 DEF Recommend
<1>19. ASSUME NEW r \in Requests, ReadPrefs(r) PROVE TypeOK'
  <2>1. CASE relayPrefs # None /\ PrefsReply(r, relayPrefs)
    BY <1>19, <2>1, ReplyType, NoAnswerType, AnswerFields
       DEF ReadPrefs, PrefsReply, PrefsUnchanged, world, TypeOK
  <2>2. CASE GoTo(r, "cloistr") /\ UNCHANGED <<work, answer>>
    BY <1>19, <2>2 DEF TypeOK, ReadPrefs, PrefsUnchanged, GoTo, world, work
  <2> QED BY <1>19, <2>1, <2>2 DEF ReadPrefs
<1>20. ASSUME NEW r \in Requests, AskCloistrRelays(r) PROVE TypeOK'
  <2>1. answer' \in [Requests -> Answer]
    BY <1>20, AnswerFields DEF TypeOK, AskCloistrRelays, Sources
  <2> QED BY <1>20, <2>1 DEF TypeOK, AskCloistrRelays, PrefsUnchanged, GoTo, world, work
<1>21. ASSUME NEW r \in Requests, AskNIP65(r) PROVE TypeOK'
  <2>1. answer' \in [Requests -> Answer]
    BY <1>21, AnswerFields DEF TypeOK, AskNIP65, Sources
  <2> QED BY <1>21, <2>1 DEF TypeOK, AskNIP65, PrefsUnchanged, GoTo, world, work
<1>22. ASSUME NEW r \in Requests, PrefsUnavailable(r) PROVE TypeOK'
  BY <1>22, ReplyType, NoAnswerType, AnswerFields DEF PrefsUnavailable, PrefsUnchanged, world, TypeOK
<1>23. ASSUME NEW r \in Requests, KeepPrefs(r) PROVE TypeOK'
  <2>1. answer[r].source \in Sources
    BY <1>23 DEF Work, PrefsWork, PrefsHeld, Sources, KeepPrefs
  <2> QED BY <1>23, <2>1, ReplyType, NoAnswerType, AnswerFields
          DEF KeepPrefs, PrefsReply, PrefsUnchanged, world, TypeOK
<1> QED BY <1>u, <1>e, <1>1, <1>2, <1>3, <1>4, <1>5, <1>6, <1>7, <1>8, <1>9, <1>10,
           <1>12, <1>13, <1>14, <1>15, <1>16, <1>17, <1>18, <1>19, <1>20, <1>21,
           <1>22, <1>23 DEF Next, HandlerStep

(***************************************************************************)
(* Steps of the handlers                                                   *)
(***************************************************************************)

\* A step of one request leaves the work of the others alone.
OnlyTouches(r) ==
  \A q \in Requests \ {r} :
    /\ pc'[q] = pc[q] /\ kind'[q] = kind[q] /\ ended'[q] = ended[q]
    /\ follows'[q] = follows[q] /\ lookup'[q] = lookup[q] /\ scores'[q] = scores[q]
    /\ answer'[q] = answer[q] /\ missed'[q] = missed[q]

LEMMA OthersKept ==
  ASSUME \A q \in Requests : Work(q), NEW r \in Requests, OnlyTouches(r),
         held' = held, Work(r)'
  PROVE  \A q \in Requests : Work(q)'
<1> SUFFICES ASSUME NEW q \in Requests, q # r PROVE Work(q)'
  OBVIOUS
<1>1. /\ pc'[q] = pc[q] /\ kind'[q] = kind[q] /\ ended'[q] = ended[q]
      /\ follows'[q] = follows[q] /\ lookup'[q] = lookup[q] /\ scores'[q] = scores[q]
      /\ answer'[q] = answer[q] /\ missed'[q] = missed[q]
  BY DEF OnlyTouches
<1>2. Work(q)  OBVIOUS
<1>3. ContactsWork(q)'
  BY <1>1, <1>2 DEF Work, ContactsWork, KnownContacts
<1>4. KindWork(q)'
  BY <1>1, <1>2 DEF Work, KindWork
<1>5. BudgetWork(q)'
  BY <1>1, <1>2 DEF Work, BudgetWork
<1>6. PrefsWork(q)'
  BY <1>1, <1>2 DEF Work, PrefsWork, PrefsHeld
<1> QED BY <1>3, <1>4, <1>5, <1>6 DEF Work

\* A step that leaves the work of all requests alone keeps what it is worth.
LEMMA WorkKept ==
  ASSUME \A q \in Requests : Work(q),
         UNCHANGED <<held, pc, kind, ended, follows, lookup, scores, answer, missed>>
  PROVE  \A q \in Requests : Work(q)'
<1> SUFFICES ASSUME NEW q \in Requests PROVE Work(q)'
  OBVIOUS
<1>1. ContactsWork(q)'
  BY DEF Work, ContactsWork, KnownContacts
<1>2. KindWork(q)'
  BY DEF Work, KindWork
<1>3. BudgetWork(q)'
  BY DEF Work, BudgetWork
<1>4. PrefsWork(q)'
  BY DEF Work, PrefsWork, PrefsHeld
<1> QED BY <1>1, <1>2, <1>3, <1>4 DEF Work

Shared == ContactsKnown /\ CutShortNotCached /\ PrefsCached

LEMMA SharedKept ==
  ASSUME Shared, UNCHANGED <<held, userContacts, wotScores, wotMissed, relayPrefs>>
  PROVE  Shared'
BY DEF Shared, ContactsKnown, CutShortNotCached, PrefsCached, PrefsHeld

\* A reply after which the request has nothing left to do.
LEMMA ReplyWork ==
  ASSUME TypeOK, NEW r \in Requests, Work(r), NEW a, Reply(r, a), held' = held,
         missed' = missed,
         kind[r] = "recommend" /\ a.status = "ok" /\ ~a.partial => missed[r] = {},
         kind[r] = "prefs" /\ a.status = "ok" => a.source = PrefsHeld
  PROVE  Work(r)' /\ OnlyTouches(r)
<1>1. /\ pc'[r] = "idle" /\ answer'[r] = a /\ follows'[r] = <<>>
      /\ kind' = kind /\ ended'[r] = FALSE
  BY DEF Reply, GoTo, TypeOK
<1>2. OnlyTouches(r)
  BY DEF OnlyTouches, Reply, GoTo, TypeOK
<1>3. ContactsWork(r)'  BY <1>1 DEF ContactsWork
<1>4. KindWork(r)'  BY <1>1 DEF KindWork
<1>5. BudgetWork(r)'  BY <1>1 DEF BudgetWork
<1>6. PrefsWork(r)'  BY <1>1 DEF PrefsWork, PrefsHeld
<1> QED BY <1>2, <1>3, <1>4, <1>5, <1>6 DEF Work

\* Counting a follow takes it off what was cut off.
LEMMA CountWork ==
  ASSUME TypeOK, NEW r \in Requests, NEW p \in Pubkeys, NEW tags, Work(r),
         pc[r] = "lists", lookup[r][p] \in {"waiting", "asking"},
         CountFollow(r, p, tags), LookupUnchanged
  PROVE  Work(r)' /\ OnlyTouches(r)
<1>1. /\ UNCHANGED <<held, pc, kind, ended, follows, answer>>
      /\ missed'[r] = missed[r] \ {p}
      /\ lookup'[r] = [lookup[r] EXCEPT ![p] = "counted"]
      /\ scores'[r].count = scores[r].count
  BY DEF CountFollow, LookupUnchanged, TypeOK, world
<1>2. OnlyTouches(r)
  BY DEF OnlyTouches, CountFollow, LookupUnchanged, TypeOK
<1>3. {q \in Pubkeys : lookup'[r][q] # "off"} = {q \in Pubkeys : lookup[r][q] # "off"}
  BY <1>1 DEF TypeOK
<1>4. missed'[r] \subseteq
        {q \in Pubkeys : lookup'[r][q] \in {"waiting", "asking", "failed"}}
  BY <1>1 DEF Work, BudgetWork, TypeOK
<1>5. BudgetWork(r)'
  BY <1>1, <1>3, <1>4 DEF Work, BudgetWork
<1>6. ContactsWork(r)' /\ KindWork(r)'
  <2>1. ContactsWork(r)'
    BY <1>1 DEF Work, ContactsWork, KnownContacts
  <2>2. KindWork(r)'
    BY <1>1 DEF Work, KindWork
  <2> QED BY <2>1, <2>2
<1>7. PrefsWork(r)'
  BY <1>1 DEF Work, PrefsWork, PrefsHeld
<1> QED BY <1>2, <1>5, <1>6, <1>7 DEF Work

\* A follow that is asked for, or given up, stays one of those that are looked up.
LEMMA LookupWork ==
  ASSUME TypeOK, NEW r \in Requests, NEW p \in Pubkeys, NEW x \in {"asking", "failed"},
         Work(r), pc[r] = "lists", lookup[r][p] \in {"waiting", "asking"},
         lookup' = [lookup EXCEPT ![r][p] = x], UNCHANGED <<scores, missed>>,
         LookupUnchanged
  PROVE  Work(r)' /\ OnlyTouches(r)
<1>1. /\ UNCHANGED <<held, pc, kind, ended, follows, answer, missed, scores>>
      /\ lookup'[r] = [lookup[r] EXCEPT ![p] = x]
  BY DEF LookupUnchanged, TypeOK, world
<1>2. OnlyTouches(r)
  BY DEF OnlyTouches, LookupUnchanged, TypeOK
<1>3. {q \in Pubkeys : lookup'[r][q] # "off"} = {q \in Pubkeys : lookup[r][q] # "off"}
  BY <1>1 DEF TypeOK
<1>4. missed'[r] \subseteq
        {q \in Pubkeys : lookup'[r][q] \in {"waiting", "asking", "failed"}}
  BY <1>1 DEF Work, BudgetWork, TypeOK
<1>5. BudgetWork(r)'
  BY <1>1, <1>3, <1>4 DEF Work, BudgetWork
<1>6. ContactsWork(r)' /\ KindWork(r)'
  <2>1. ContactsWork(r)'
    BY <1>1 DEF Work, ContactsWork, KnownContacts
  <2>2. KindWork(r)'
    BY <1>1 DEF Work, KindWork
  <2> QED BY <2>1, <2>2
<1>7. PrefsWork(r)'
  BY <1>1 DEF Work, PrefsWork, PrefsHeld
<1> QED BY <1>2, <1>5, <1>6, <1>7 DEF Work

\* The sum of all lookups: one that is not partial lacks nothing that was cut off.
LEMMA SumMissesNothing ==
  ASSUME TypeOK, NEW r \in Requests, Work(r), pc[r] = "lists", Unresolved(r) = {},
         ~(ended[r] /\ Cardinality(Fetched(r)) < scores[r].count)
  PROVE  missed[r] = {}
<1>1. CASE ~ended[r]
  BY <1>1 DEF Work, BudgetWork
<1>2. CASE Cardinality(Fetched(r)) >= scores[r].count
  <2> DEFINE Looked == {p \in Pubkeys : lookup[r][p] # "off"}
  <2>1. IsFiniteSet(Looked) /\ Fetched(r) \subseteq Looked
    BY LookupAssumption, FS_Subset DEF Fetched
  <2>2. IsFiniteSet(Fetched(r)) /\ Cardinality(Fetched(r)) =< Cardinality(Looked)
        /\ (Cardinality(Fetched(r)) = Cardinality(Looked) => Fetched(r) = Looked)
    BY <2>1, FS_Subset
  <2>3. Cardinality(Looked) \in Nat /\ Cardinality(Fetched(r)) \in Nat
    BY <2>1, <2>2, FS_CardinalityType
  <2>4. scores[r].count = Cardinality(Looked)
    BY DEF Work, BudgetWork
  <2>5. Fetched(r) = Looked
    BY <1>2, <2>2, <2>3, <2>4
  <2>6. missed[r] \subseteq {p \in Pubkeys : lookup[r][p] \in {"waiting", "asking", "failed"}}
    BY DEF Work, BudgetWork
  <2> QED BY <2>5, <2>6 DEF Fetched
<1>3. Cardinality(Fetched(r)) \in Nat /\ scores[r].count \in Nat
  <2>1. IsFiniteSet(Fetched(r))  BY LookupAssumption, FS_Subset DEF Fetched
  <2> QED BY <2>1, FS_CardinalityType DEF TypeOK
<1> QED BY <1>1, <1>2, <1>3

\* What else an answer has when a field is set.
LEMMA AnswerParts ==
  ASSUME TypeOK, NEW r \in Requests
  PROVE  /\ [answer[r] EXCEPT !.partial = TRUE].partial = TRUE
         /\ [answer[r] EXCEPT !.partial = TRUE].status = answer[r].status
         /\ \A q : [answer[r] EXCEPT !.status = "ok", !.shown = q].partial
                     = answer[r].partial
         /\ [NoAnswer EXCEPT !.status = "unavailable"].status = "unavailable"
<1>1. answer[r] \in Answer
  BY DEF TypeOK
<1> QED BY <1>1, NoAnswerType DEF Answer

LEMMA WorkStep ==
  ASSUME IInv, [Next]_vars
  PROVE  Shared' /\ \A q \in Requests : Work(q)'
<1> USE DEF IInv
<1>s. Shared  BY DEF Shared
<1>u. CASE UNCHANGED vars
  <2>1. \A q \in Requests : Work(q)'
    <3>1. UNCHANGED <<held, pc, kind, ended, follows, lookup, scores, answer, missed>>
      BY <1>u DEF vars, world, work
    <3> QED BY <3>1, WorkKept
  <2>2. Shared'
    BY <1>s, <1>u, SharedKept DEF vars, world, redis
  <2> QED BY <2>1, <2>2
<1>e. CASE Expire
  <2>1. \A q \in Requests : Work(q)'
    <3>1. UNCHANGED <<held, pc, kind, ended, follows, lookup, scores, answer, missed>>
      BY <1>e DEF Expire, world, work
    <3> QED BY <3>1, WorkKept
  <2>2. Shared'
    BY <1>e, <1>s DEF Expire, Shared, ContactsKnown, CutShortNotCached, PrefsCached,
                      PrefsHeld, world
  <2> QED BY <2>1, <2>2
<1>1. ASSUME NEW r \in Requests, Arrive(r)
      PROVE  Shared' /\ \A q \in Requests : Work(q)'
  <2>1. /\ answer'[r] = NoAnswer /\ missed'[r] = {} /\ pc[r] = "idle"
        /\ UNCHANGED <<held, ended, follows, lookup, scores>>
        /\ \/ pc'[r] \in {"scores", "recommend"} /\ kind'[r] = "recommend"
           \/ pc'[r] = "contacts" /\ kind'[r] = "reviews"
           \/ pc'[r] = "prefs" /\ kind'[r] = "prefs"
    BY <1>1 DEF Arrive, GoTo, TypeOK, world
  <2>2. OnlyTouches(r)
    BY <1>1 DEF OnlyTouches, Arrive, GoTo, TypeOK
  <2>3. Work(r)'
    <3>1. ContactsWork(r)'
      BY <2>1, NoAnswerType DEF Work, ContactsWork
    <3>2. KindWork(r)'
      BY <2>1, NoAnswerType DEF Work, KindWork
    <3>3. BudgetWork(r)'
      BY <2>1, NoAnswerType DEF Work, BudgetWork
    <3>4. PrefsWork(r)'
      BY <2>1, NoAnswerType DEF Work, PrefsWork
    <3> QED BY <3>1, <3>2, <3>3, <3>4 DEF Work
  <2>4. Shared'
    BY <1>1, <1>s, SharedKept DEF Arrive, world, redis
  <2> QED BY <2>1, <2>2, <2>3, <2>4, OthersKept
<1>2. ASSUME NEW r \in Requests, BudgetEnds(r)
      PROVE  Shared' /\ \A q \in Requests : Work(q)'
  <2>1. /\ UNCHANGED <<held, pc, kind, follows, lookup, scores, answer>>
        /\ ended'[r] = TRUE
        /\ pc[r] \in {"contacts", "fetch", "keep", "follows", "lists"}
        /\ pc[r] = "lists" => missed'[r] = Unresolved(r)
    BY <1>2 DEF BudgetEnds, TypeOK, world
  <2>2. OnlyTouches(r)
    BY <1>2 DEF OnlyTouches, BudgetEnds, TypeOK
  <2>3. ContactsWork(r)' /\ KindWork(r)'
    <3>1. ContactsWork(r)'
      BY <2>1 DEF Work, ContactsWork, KnownContacts
    <3>2. KindWork(r)'
      BY <2>1 DEF Work, KindWork
    <3> QED BY <3>1, <3>2
  <2>4. BudgetWork(r)'
    BY <2>1 DEF Work, BudgetWork, Unresolved
  <2>5. PrefsWork(r)'
    BY <2>1 DEF Work, PrefsWork, PrefsHeld
  <2>6. Shared'
    BY <1>2, <1>s, SharedKept DEF BudgetEnds, world, redis
  <2> QED BY <2>1, <2>2, <2>3, <2>4, <2>5, <2>6, OthersKept DEF Work
<1>3. ASSUME NEW r \in Requests, NEW p \in Pubkeys, UserRelays(r, p)
      PROVE  Shared' /\ \A q \in Requests : Work(q)'
  <2>1. /\ UNCHANGED <<held, pc, ended, follows, lookup, scores>>
        /\ kind'[r] = "users" /\ pc[r] = "idle" /\ missed'[r] = {}
    BY <1>3 DEF UserRelays, TypeOK, world
  <2>2. OnlyTouches(r)
    BY <1>3 DEF OnlyTouches, UserRelays, TypeOK
  <2>3. Work(r)'
    <3>1. ContactsWork(r)'
      BY <2>1 DEF Work, ContactsWork
    <3>2. KindWork(r)'
      BY <2>1 DEF Work, KindWork
    <3>3. BudgetWork(r)'
      BY <2>1 DEF Work, BudgetWork
    <3>4. PrefsWork(r)'
      BY <2>1 DEF Work, PrefsWork
    <3> QED BY <3>1, <3>2, <3>3, <3>4 DEF Work
  <2>4. Shared'
    BY <1>3, <1>s, SharedKept DEF UserRelays, world, redis
  <2> QED BY <2>1, <2>2, <2>3, <2>4, OthersKept
<1>4. ASSUME NEW r \in Requests, ReadScores(r)
      PROVE  Shared' /\ \A q \in Requests : Work(q)'
  <2>1. /\ UNCHANGED <<held, kind, ended, follows, lookup, answer>>
        /\ pc[r] = "scores"
        /\ \/ pc'[r] = "recommend" /\ missed'[r] = wotMissed /\ wotScores # None
           \/ pc'[r] = "contacts" /\ missed'[r] = missed[r]
    BY <1>4 DEF ReadScores, GoTo, TypeOK, world
  <2>2. OnlyTouches(r)
    BY <1>4 DEF OnlyTouches, ReadScores, GoTo, TypeOK
  <2>3. ContactsWork(r)' /\ KindWork(r)'
    <3>1. ContactsWork(r)'
      BY <2>1 DEF Work, ContactsWork
    <3>2. KindWork(r)'
      BY <2>1 DEF Work, KindWork
    <3> QED BY <3>1, <3>2
  <2>4. BudgetWork(r)'
    BY <2>1 DEF Work, BudgetWork, CutShortNotCached
  <2>5. PrefsWork(r)'
    BY <2>1 DEF Work, PrefsWork, PrefsHeld
  <2>6. Shared'
    BY <1>4, <1>s, SharedKept DEF ReadScores, world, redis
  <2> QED BY <2>1, <2>2, <2>3, <2>4, <2>5, <2>6, OthersKept DEF Work
<1>5. ASSUME NEW r \in Requests, ReadContacts(r)
      PROVE  Shared' /\ \A q \in Requests : Work(q)'
  <2>1. /\ UNCHANGED <<held, kind, ended, lookup, scores, answer, missed>>
        /\ pc[r] = "contacts"
        /\ \/ pc'[r] = "follows"
           \/ pc'[r] = "fetch" /\ follows' = follows
    <3>1. CASE userContacts # None /\ GoTo(r, "follows")
      <4>1. pc[r] = "contacts" /\ ContactsUnchanged
        BY <1>5 DEF ReadContacts
      <4>2. pc'[r] = "follows"
        BY <3>1 DEF GoTo, TypeOK
      <4> QED BY <4>1, <4>2 DEF ContactsUnchanged, world
    <3>2. CASE GoTo(r, "fetch") /\ UNCHANGED follows
      BY <1>5, <3>2 DEF ReadContacts, ContactsUnchanged, GoTo, TypeOK, world
    <3> QED BY <1>5, <3>1, <3>2 DEF ReadContacts
  <2>2. OnlyTouches(r)
    BY <1>5 DEF OnlyTouches, ReadContacts, ContactsUnchanged, GoTo, TypeOK
  <2>3. Work(r)'
    <3>1. ContactsWork(r)'
      BY <2>1 DEF Work, ContactsWork
    <3>2. KindWork(r)'
      BY <2>1 DEF Work, KindWork
    <3>3. BudgetWork(r)'
      BY <2>1 DEF Work, BudgetWork
    <3>4. PrefsWork(r)'
      BY <2>1 DEF Work, PrefsWork, PrefsHeld
    <3> QED BY <3>1, <3>2, <3>3, <3>4 DEF Work
  <2>4. Shared'
    BY <1>5, <1>s, SharedKept DEF ReadContacts, ContactsUnchanged, world
  <2> QED BY <2>1, <2>2, <2>3, <2>4, OthersKept
<1>6. ASSUME NEW r \in Requests, ContactsArrive(r)
      PROVE  Shared' /\ \A q \in Requests : Work(q)'
  <2>1. PICK tags \in Seq(Pubkeys) :
          /\ \E s \in Seeds : held.contacts[s] # None /\ held.contacts[s].tags = tags
          /\ follows' = [follows EXCEPT ![r] = tags]
    BY <1>6, ContactsType DEF ContactsArrive
  <2>2. /\ UNCHANGED <<held, kind, ended, lookup, scores, answer, missed>>
        /\ pc[r] = "fetch" /\ follows'[r] = tags
        /\ pc'[r] = IF ended[r] THEN "follows" ELSE "keep"
    BY <1>6, <2>1 DEF ContactsArrive, ContactsUnchanged, GoTo, TypeOK, world
  <2>3. OnlyTouches(r)
    BY <1>6, <2>1 DEF OnlyTouches, ContactsArrive, ContactsUnchanged, GoTo, TypeOK
  <2>4. ContactsWork(r)'
    BY <2>1, <2>2 DEF ContactsWork, KnownContacts
  <2>5. KindWork(r)' /\ BudgetWork(r)' /\ PrefsWork(r)'
    <3>1. KindWork(r)'
      BY <2>2 DEF Work, KindWork
    <3>2. BudgetWork(r)'
      BY <2>2 DEF Work, BudgetWork
    <3>3. PrefsWork(r)'
      BY <2>2 DEF Work, PrefsWork, PrefsHeld
    <3> QED BY <3>1, <3>2, <3>3
  <2>6. Shared'
    BY <1>6, <1>s, SharedKept DEF ContactsArrive, ContactsUnchanged, world
  <2> QED BY <2>2, <2>3, <2>4, <2>5, <2>6, OthersKept DEF Work
<1>7. ASSUME NEW r \in Requests, ContactsNone(r)
      PROVE  Shared' /\ \A q \in Requests : Work(q)'
  <2>1. /\ UNCHANGED <<held, kind, ended, lookup, scores, answer, missed, follows>>
        /\ pc[r] = "fetch"
        /\ pc'[r] = IF ended[r] THEN "follows" ELSE "keep"
    BY <1>7 DEF ContactsNone, ContactsUnchanged, GoTo, TypeOK, world
  <2>2. OnlyTouches(r)
    BY <1>7 DEF OnlyTouches, ContactsNone, ContactsUnchanged, GoTo, TypeOK
  <2>3. \A s \in Seeds : held.contacts[s] = None
    BY <1>7 DEF ContactsNone, Arrived
  <2>4. ContactsWork(r)'
    BY <2>1, <2>3 DEF Work, ContactsWork, KnownContacts
  <2>5. KindWork(r)' /\ BudgetWork(r)' /\ PrefsWork(r)'
    <3>1. KindWork(r)'
      BY <2>1 DEF Work, KindWork
    <3>2. BudgetWork(r)'
      BY <2>1 DEF Work, BudgetWork
    <3>3. PrefsWork(r)'
      BY <2>1 DEF Work, PrefsWork, PrefsHeld
    <3> QED BY <3>1, <3>2, <3>3
  <2>6. Shared'
    BY <1>7, <1>s, SharedKept DEF ContactsNone, ContactsUnchanged, world
  <2> QED BY <2>1, <2>2, <2>4, <2>5, <2>6, OthersKept DEF Work
<1>8. ASSUME NEW r \in Requests, ContactsUnanswered(r)
      PROVE  Shared' /\ \A q \in Requests : Work(q)'
  <2>1. Shared' /\ held' = held /\ missed' = missed
    BY <1>8, <1>s, SharedKept DEF ContactsUnanswered, world, redis
  <2>2. CASE kind[r] = "recommend"
    <3>1. /\ UNCHANGED <<kind, ended, follows, lookup, scores>>
          /\ answer'[r] = [answer[r] EXCEPT !.partial = TRUE]
          /\ pc[r] = "fetch" /\ pc'[r] = "recommend"
      BY <1>8, <2>2 DEF ContactsUnanswered, GoTo, TypeOK
    <3>2. answer'[r].partial = TRUE /\ answer'[r].status = answer[r].status
      BY <3>1, AnswerParts
    <3>3. OnlyTouches(r)
      BY <1>8, <2>2 DEF OnlyTouches, ContactsUnanswered, GoTo, TypeOK
    <3>4. Work(r)'
      <4>1. ContactsWork(r)'
        BY <2>1, <2>2, <3>1, <3>2 DEF Work, ContactsWork
      <4>2. KindWork(r)'
        BY <2>1, <2>2, <3>1, <3>2 DEF Work, KindWork
      <4>3. BudgetWork(r)'
        BY <2>1, <2>2, <3>1, <3>2 DEF Work, BudgetWork
      <4>4. PrefsWork(r)'
        BY <2>1, <2>2, <3>1, <3>2 DEF Work, PrefsWork, PrefsHeld
      <4> QED BY <4>1, <4>2, <4>3, <4>4 DEF Work
    <3> QED BY <2>1, <3>3, <3>4, OthersKept
  <2>3. CASE kind[r] # "recommend"
    <3>1. Reply(r, [NoAnswer EXCEPT !.status = "ok"])
      BY <1>8, <2>3 DEF ContactsUnanswered
    <3>2. kind[r] # "prefs"
      BY <1>8 DEF ContactsUnanswered, Work, KindWork
    <3>3. Work(r)' /\ OnlyTouches(r)
      BY <2>1, <2>3, <3>1, <3>2, ReplyWork
    <3> QED BY <2>1, <3>3, OthersKept
  <2> QED BY <2>2, <2>3
<1>9. ASSUME NEW r \in Requests, KeepContacts(r)
      PROVE  Shared' /\ \A q \in Requests : Work(q)'
  <2>1. /\ UNCHANGED <<held, kind, ended, lookup, scores, answer, missed, follows>>
        /\ pc[r] = "keep" /\ pc'[r] = "follows"
    BY <1>9 DEF KeepContacts, ContactsUnchanged, GoTo, TypeOK, world
  <2>2. OnlyTouches(r)
    BY <1>9 DEF OnlyTouches, KeepContacts, ContactsUnchanged, GoTo, TypeOK
  <2>3. Work(r)'
    <3>1. ContactsWork(r)'
      BY <2>1 DEF Work, ContactsWork
    <3>2. KindWork(r)'
      BY <2>1 DEF Work, KindWork
    <3>3. BudgetWork(r)'
      BY <2>1 DEF Work, BudgetWork
    <3>4. PrefsWork(r)'
      BY <2>1 DEF Work, PrefsWork, PrefsHeld
    <3> QED BY <3>1, <3>2, <3>3, <3>4 DEF Work
  <2>4. ContactsKnown'
    BY <1>9, <2>1 DEF KeepContacts, ContactsKnown, Work, ContactsWork, KnownContacts
  <2>5. Shared'
    BY <1>9, <1>s, <2>1, <2>4 DEF Shared, CutShortNotCached, PrefsCached, PrefsHeld,
       KeepContacts, ContactsUnchanged
  <2> QED BY <2>1, <2>2, <2>3, <2>5, OthersKept
<1>10. ASSUME NEW r \in Requests, StartLookups(r)
       PROVE  Shared' /\ \A q \in Requests : Work(q)'
  <2>1. Shared' /\ held' = held /\ missed' = missed /\ pc[r] = "follows"
    BY <1>10, <1>s, SharedKept DEF StartLookups, world, redis
  <2>2. CASE kind[r] = "reviews"
    <3>1. Reply(r, [NoAnswer EXCEPT !.status = "ok"])
      BY <1>10, <2>2 DEF StartLookups
    <3>2. Work(r)' /\ OnlyTouches(r)
      BY <2>1, <2>2, <3>1, ReplyWork
    <3> QED BY <2>1, <3>2, OthersKept
  <2>3. CASE kind[r] # "reviews"
    <3>1. UNCHANGED <<kind, ended, follows>> /\ kind[r] = "recommend"
      BY <1>10, <2>1, <2>3 DEF StartLookups, Work, KindWork
    <3>2. CASE ended[r]
      <4>1. /\ pc'[r] = "recommend" /\ UNCHANGED <<lookup, scores>>
            /\ answer'[r] = [answer[r] EXCEPT !.partial = TRUE]
        BY <1>10, <2>3, <3>2 DEF StartLookups, Partial, GoTo, TypeOK
      <4>2. answer'[r].partial = TRUE /\ answer'[r].status = answer[r].status
        BY <4>1, AnswerParts
      <4>3. OnlyTouches(r)
        BY <1>10, <2>1, <2>3, <3>1, <3>2 DEF OnlyTouches, StartLookups, Partial, GoTo, TypeOK
      <4>4. Work(r)'
        <5>1. ContactsWork(r)'
          BY <2>1, <3>1, <4>1, <4>2 DEF Work, ContactsWork
        <5>2. KindWork(r)'
          BY <2>1, <3>1, <4>1, <4>2 DEF Work, KindWork
        <5>3. BudgetWork(r)'
          BY <2>1, <3>1, <4>1, <4>2 DEF Work, BudgetWork
        <5>4. PrefsWork(r)'
          BY <2>1, <3>1, <4>1, <4>2 DEF Work, PrefsWork, PrefsHeld
        <5> QED BY <5>1, <5>2, <5>3, <5>4 DEF Work
      <4> QED BY <2>1, <4>3, <4>4, OthersKept
    <3>3. CASE ~ended[r] /\ follows[r] = <<>>
      <4>1. pc'[r] = "store" /\ UNCHANGED <<lookup, scores, answer>>
        BY <1>10, <2>3, <3>3 DEF StartLookups, GoTo, TypeOK
      <4>2. OnlyTouches(r)
        BY <1>10, <2>1, <2>3, <3>1, <3>3, <4>1 DEF OnlyTouches, StartLookups, GoTo, TypeOK
      <4>3. Work(r)'
        <5>1. ContactsWork(r)'
          BY <2>1, <3>1, <3>3, <4>1 DEF Work, ContactsWork
        <5>2. KindWork(r)'
          BY <2>1, <3>1, <3>3, <4>1 DEF Work, KindWork
        <5>3. BudgetWork(r)'
          BY <2>1, <3>1, <3>3, <4>1 DEF Work, BudgetWork
        <5>4. PrefsWork(r)'
          BY <2>1, <3>1, <3>3, <4>1 DEF Work, PrefsWork, PrefsHeld
        <5> QED BY <5>1, <5>2, <5>3, <5>4 DEF Work
      <4> QED BY <2>1, <4>2, <4>3, OthersKept
    <3>4. CASE ~ended[r] /\ follows[r] # <<>>
      <4> DEFINE Follows == Processed(follows[r])
      <4>1. /\ pc'[r] = "lists" /\ answer' = answer
            /\ lookup' = [lookup EXCEPT ![r] =
                 [p \in Pubkeys |-> IF p \in Follows THEN "waiting" ELSE "off"]]
            /\ scores' = [scores EXCEPT ![r].count = Cardinality(Follows)]
        BY <1>10, <2>3, <3>4 DEF StartLookups, GoTo, TypeOK
      <4> HIDE DEF Follows
      <4>2. OnlyTouches(r)
        <5>1. \A q \in Requests \ {r} : pc'[q] = pc[q]
          BY <1>10, <2>3, <3>4 DEF StartLookups, GoTo, TypeOK
        <5> QED BY <2>1, <3>1, <4>1, <5>1 DEF OnlyTouches, TypeOK
      <4>3. Follows \subseteq Pubkeys
        BY ProcessedCounted DEF TypeOK, Follows
      <4>4. /\ lookup'[r] = [p \in Pubkeys |-> IF p \in Follows THEN "waiting" ELSE "off"]
            /\ scores'[r].count = Cardinality(Follows)
        BY <4>1 DEF TypeOK
      <4>5. {p \in Pubkeys : lookup'[r][p] # "off"} = Follows
        BY <4>3, <4>4
      <4>6. BudgetWork(r)'
        BY <2>1, <3>1, <3>4, <4>1, <4>4, <4>5 DEF Work, BudgetWork
      <4>7. ContactsWork(r)' /\ KindWork(r)' /\ PrefsWork(r)'
        <5>1. ContactsWork(r)'
          BY <2>1, <3>1, <4>1 DEF Work, ContactsWork
        <5>2. KindWork(r)'
          BY <2>1, <3>1, <4>1 DEF Work, KindWork
        <5>3. PrefsWork(r)'
          BY <2>1, <3>1, <4>1 DEF Work, PrefsWork, PrefsHeld
        <5> QED BY <5>1, <5>2, <5>3
      <4> QED BY <2>1, <4>2, <4>6, <4>7, OthersKept DEF Work
    <3> QED BY <3>2, <3>3, <3>4
  <2> QED BY <2>2, <2>3
<1>11. ASSUME NEW r \in Requests, NEW p \in Pubkeys,
              \/ StartLookup(r, p) \/ GiveUpWaiting(r, p)
              \/ LookupFails(r, p) \/ LookupEnds(r, p)
       PROVE  Shared' /\ \A q \in Requests : Work(q)'
  <2>1. pc[r] = "lists" /\ lookup[r][p] \in {"waiting", "asking"} /\ LookupUnchanged
    BY <1>11 DEF StartLookup, GiveUpWaiting, LookupFails, LookupEnds
  <2>2. \/ \E tags : CountFollow(r, p, tags)
        \/ \E x \in {"asking", "failed"} :
             lookup' = [lookup EXCEPT ![r][p] = x] /\ UNCHANGED <<scores, missed>>
    BY <1>11 DEF StartLookup, GiveUpWaiting, LookupFails, LookupEnds
  <2>3. Work(r)' /\ OnlyTouches(r)
    BY <2>1, <2>2, CountWork, LookupWork
  <2>4. Shared' /\ held' = held
    BY <1>s, <2>1, SharedKept DEF LookupUnchanged, world
  <2> QED BY <2>3, <2>4, OthersKept
<1>12. ASSUME NEW r \in Requests, Sum(r)
       PROVE  Shared' /\ \A q \in Requests : Work(q)'
  <2>1. /\ Shared'
        /\ UNCHANGED <<held, missed, kind, ended, follows, lookup, scores>>
        /\ pc[r] = "lists" /\ Unresolved(r) = {}
    BY <1>12, <1>s, SharedKept DEF Sum, SumUnchanged, world, redis
  <2>2. OnlyTouches(r)
    BY <1>12, <2>1 DEF OnlyTouches, Sum, Partial, GoTo, TypeOK
  <2>3. CASE ended[r] /\ Cardinality(Fetched(r)) < scores[r].count
    <3>1. pc'[r] = "recommend" /\ answer'[r] = [answer[r] EXCEPT !.partial = TRUE]
      BY <1>12, <2>3 DEF Sum, Partial, GoTo, TypeOK
    <3>2. answer'[r].partial = TRUE /\ answer'[r].status = answer[r].status
      BY <3>1, AnswerParts
    <3>3. Work(r)'
      <4>1. ContactsWork(r)'
        BY <2>1, <3>1, <3>2 DEF Work, ContactsWork
      <4>2. KindWork(r)'
        BY <2>1, <3>1, <3>2 DEF Work, KindWork
      <4>3. BudgetWork(r)'
        BY <2>1, <3>1, <3>2 DEF Work, BudgetWork
      <4>4. PrefsWork(r)'
        BY <2>1, <3>1, <3>2 DEF Work, PrefsWork, PrefsHeld
      <4> QED BY <4>1, <4>2, <4>3, <4>4 DEF Work
    <3> QED BY <2>1, <2>2, <3>3, OthersKept
  <2>4. CASE ~(ended[r] /\ Cardinality(Fetched(r)) < scores[r].count)
    <3>1. pc'[r] = "store" /\ answer' = answer
      BY <1>12, <2>4 DEF Sum, GoTo, TypeOK
    <3>2. missed[r] = {}
      BY <2>1, <2>4, SumMissesNothing
    <3>3. Work(r)'
      <4>1. ContactsWork(r)'
        BY <2>1, <3>1, <3>2 DEF Work, ContactsWork
      <4>2. KindWork(r)'
        BY <2>1, <3>1, <3>2 DEF Work, KindWork
      <4>3. BudgetWork(r)'
        BY <2>1, <3>1, <3>2 DEF Work, BudgetWork
      <4>4. PrefsWork(r)'
        BY <2>1, <3>1, <3>2 DEF Work, PrefsWork, PrefsHeld
      <4> QED BY <4>1, <4>2, <4>3, <4>4 DEF Work
    <3> QED BY <2>1, <2>2, <3>3, OthersKept
  <2> QED BY <2>3, <2>4
<1>13. ASSUME NEW r \in Requests, StoreScores(r)
       PROVE  Shared' /\ \A q \in Requests : Work(q)'
  <2>1. /\ UNCHANGED <<held, userContacts, relayPrefs, kind, ended, follows, lookup,
                       scores, answer, missed>>
        /\ pc[r] = "store" /\ pc'[r] = "recommend"
        /\ wotMissed' = missed[r] \/ UNCHANGED <<wotScores, wotMissed>>
    BY <1>13 DEF StoreScores, GoTo, TypeOK, world, work
  <2>2. OnlyTouches(r)
    BY <1>13, <2>1 DEF OnlyTouches, StoreScores, GoTo, TypeOK
  <2>3. missed[r] = {}
    BY <2>1 DEF Work, BudgetWork
  <2>4. Work(r)'
    <3>1. ContactsWork(r)'
      BY <2>1, <2>3 DEF Work, ContactsWork
    <3>2. KindWork(r)'
      BY <2>1, <2>3 DEF Work, KindWork
    <3>3. BudgetWork(r)'
      BY <2>1, <2>3 DEF Work, BudgetWork
    <3>4. PrefsWork(r)'
      BY <2>1, <2>3 DEF Work, PrefsWork, PrefsHeld
    <3> QED BY <3>1, <3>2, <3>3, <3>4 DEF Work
  <2>5. Shared'
    BY <1>s, <2>1, <2>3 DEF Shared, ContactsKnown, CutShortNotCached, PrefsCached, PrefsHeld
  <2> QED BY <2>1, <2>2, <2>4, <2>5, OthersKept
<1>14. ASSUME NEW r \in Requests, Recommend(r)
       PROVE  Shared' /\ \A q \in Requests : Work(q)'
  <2>1. Shared' /\ held' = held /\ missed' = missed /\ pc[r] = "recommend"
    BY <1>14, <1>s, SharedKept DEF Recommend, world, redis
  <2>2. PICK a : Reply(r, a) /\ (a.status # "ok" \/ a.partial = answer[r].partial)
    <3>1. CASE Reply(r, [NoAnswer EXCEPT !.status = "unavailable"])
      <4>1. [NoAnswer EXCEPT !.status = "unavailable"].status # "ok"
        BY AnswerParts
      <4> QED BY <3>1, <4>1
    <3>2. ASSUME NEW q, Reply(r, [answer[r] EXCEPT !.status = "ok", !.shown = q])
          PROVE  \E a : Reply(r, a) /\ (a.status # "ok" \/ a.partial = answer[r].partial)
      <4>1. [answer[r] EXCEPT !.status = "ok", !.shown = q].partial = answer[r].partial
        BY AnswerParts
      <4> QED BY <3>2, <4>1
    <3> QED BY <1>14, <3>1, <3>2 DEF Recommend
  <2>3. kind[r] = "recommend" /\ (missed[r] = {} \/ answer[r].partial)
    BY <2>1 DEF Work, KindWork, BudgetWork
  <2>4. Work(r)' /\ OnlyTouches(r)
    BY <2>1, <2>2, <2>3, ReplyWork
  <2> QED BY <2>1, <2>4, OthersKept
<1>15. ASSUME NEW r \in Requests, ReadPrefs(r)
       PROVE  Shared' /\ \A q \in Requests : Work(q)'
  <2>1. Shared' /\ held' = held /\ missed' = missed /\ pc[r] = "prefs"
    BY <1>15, <1>s, SharedKept DEF ReadPrefs, PrefsUnchanged, world
  <2>2. CASE relayPrefs # None /\ PrefsReply(r, relayPrefs)
    <3>1. Reply(r, [NoAnswer EXCEPT !.status = "ok", !.source = relayPrefs])
      BY <2>2 DEF PrefsReply
    <3>2. [NoAnswer EXCEPT !.status = "ok", !.source = relayPrefs].source = PrefsHeld
      BY <2>2, NoAnswerType DEF PrefsCached, Answer
    <3>3. kind[r] = "prefs"
      BY <2>1 DEF Work, KindWork
    <3>4. Work(r)' /\ OnlyTouches(r)
      BY <2>1, <3>1, <3>2, <3>3, ReplyWork
    <3> QED BY <2>1, <3>4, OthersKept
  <2>3. CASE GoTo(r, "cloistr") /\ UNCHANGED <<work, answer>>
    <3>1. pc'[r] = "cloistr" /\ UNCHANGED <<kind, ended, follows, lookup, scores, answer>>
      BY <2>3 DEF GoTo, work, TypeOK
    <3>2. OnlyTouches(r)
      BY <2>1, <2>3, <3>1 DEF OnlyTouches, GoTo, TypeOK
    <3>3. Work(r)'
      <4>1. ContactsWork(r)'
        BY <2>1, <3>1 DEF Work, ContactsWork
      <4>2. KindWork(r)'
        BY <2>1, <3>1 DEF Work, KindWork
      <4>3. BudgetWork(r)'
        BY <2>1, <3>1 DEF Work, BudgetWork
      <4>4. PrefsWork(r)'
        BY <2>1, <3>1 DEF Work, PrefsWork, PrefsHeld
      <4> QED BY <4>1, <4>2, <4>3, <4>4 DEF Work
    <3> QED BY <2>1, <3>2, <3>3, OthersKept
  <2> QED BY <1>15, <2>2, <2>3 DEF ReadPrefs
<1>16. ASSUME NEW r \in Requests, AskCloistrRelays(r) \/ AskNIP65(r)
       PROVE  Shared' /\ \A q \in Requests : Work(q)'
  <2>1. /\ Shared'
        /\ UNCHANGED <<held, missed, kind, ended, follows, lookup, scores>>
    BY <1>16, <1>s, SharedKept
       DEF AskCloistrRelays, AskNIP65, PrefsUnchanged, world, work
  <2>2. OnlyTouches(r)
    BY <1>16, <2>1 DEF OnlyTouches, AskCloistrRelays, AskNIP65, GoTo, TypeOK
  <2>3. /\ pc[r] \in {"cloistr", "nip65"}
        /\ \/ /\ pc[r] = "cloistr" /\ held.prefs = <<>> /\ pc'[r] = "nip65"
           \/ pc'[r] = "keepPrefs" /\ answer'[r].source = PrefsHeld
        /\ answer'[r].status = answer[r].status
    <3>a. /\ answer \in [Requests -> Answer] /\ pc \in [Requests -> {"idle", "scores", "contacts", "fetch", "keep", "follows",
                          "lists", "store", "recommend",
                          "prefs", "cloistr", "nip65", "keepPrefs"}]
      BY DEF TypeOK
    <3>1. CASE AskCloistrRelays(r)
      BY <3>a, <3>1, SourceSet DEF AskCloistrRelays, GoTo, PrefsHeld
    <3>2. CASE AskNIP65(r)
      <4>1. pc[r] = "nip65" /\ pc' = [pc EXCEPT ![r] = "keepPrefs"]
        BY <3>2 DEF AskNIP65, GoTo
      <4>2. held.prefs = <<>>
        BY <4>1 DEF Work, PrefsWork
      <4>3. answer' = [answer EXCEPT ![r].source = PrefsHeld]
        BY <3>2, <4>2 DEF AskNIP65, PrefsHeld
      <4> QED BY <3>a, <4>1, <4>3, SourceSet
    <3> QED BY <1>16, <3>1, <3>2
  <2>w. Work(r)
    OBVIOUS
  <2>4. Work(r)'
    <3>1. ContactsWork(r)'
      BY <2>1, <2>3 DEF ContactsWork
    <3>2. KindWork(r)'
      BY <2>w, <2>1, <2>3 DEF Work, KindWork
    <3>3. BudgetWork(r)'
      BY <2>w, <2>1, <2>3 DEF Work, BudgetWork
    <3>4. PrefsWork(r)'
      <4>1. pc'[r] = "nip65" => held.prefs = <<>>
        BY <2>3
      <4>2. pc'[r] = "keepPrefs" => answer'[r].source = PrefsHeld
        BY <2>3
      <4>3. answer[r].status = "none"
        BY <2>w, <2>3 DEF Work, KindWork
      <4> QED BY <2>1, <2>3, <4>1, <4>2, <4>3 DEF PrefsWork, PrefsHeld
    <3> QED BY <3>1, <3>2, <3>3, <3>4 DEF Work
  <2> QED BY <2>1, <2>2, <2>4, OthersKept
<1>17. ASSUME NEW r \in Requests, PrefsUnavailable(r)
       PROVE  Shared' /\ \A q \in Requests : Work(q)'
  <2>1. /\ Shared' /\ held' = held /\ missed' = missed
        /\ Reply(r, [NoAnswer EXCEPT !.status = "unavailable"])
    BY <1>17, <1>s, SharedKept DEF PrefsUnavailable, PrefsUnchanged, world
  <2>2. [NoAnswer EXCEPT !.status = "unavailable"].status # "ok"
    BY NoAnswerType DEF Answer
  <2>3. Work(r)' /\ OnlyTouches(r)
    BY <2>1, <2>2, ReplyWork
  <2> QED BY <2>1, <2>3, OthersKept
<1>18. ASSUME NEW r \in Requests, KeepPrefs(r)
       PROVE  Shared' /\ \A q \in Requests : Work(q)'
  <2>1. /\ UNCHANGED <<held, missed, userContacts, wotScores, wotMissed>>
        /\ relayPrefs' \in {relayPrefs, answer[r].source} /\ pc[r] = "keepPrefs"
        /\ Reply(r, [NoAnswer EXCEPT !.status = "ok", !.source = answer[r].source])
    BY <1>18 DEF KeepPrefs, PrefsReply, PrefsUnchanged, world
  <2>2. answer[r].source = PrefsHeld /\ kind[r] = "prefs"
    BY <2>1 DEF Work, KindWork, PrefsWork
  <2>3. [NoAnswer EXCEPT !.status = "ok", !.source = answer[r].source].source = PrefsHeld
    BY <2>2, NoAnswerType DEF Answer
  <2>4. Work(r)' /\ OnlyTouches(r)
    BY <2>1, <2>2, <2>3, ReplyWork
  <2>5. Shared'
    BY <1>s, <2>1, <2>2 DEF Shared, ContactsKnown, CutShortNotCached, PrefsCached, PrefsHeld
  <2> QED BY <2>1, <2>4, <2>5, OthersKept
<1> QED BY <1>u, <1>e, <1>1, <1>2, <1>3, <1>4, <1>5, <1>6, <1>7, <1>8, <1>9, <1>10, <1>11,
           <1>12, <1>13, <1>14, <1>15, <1>16, <1>17, <1>18 DEF Next, HandlerStep

LEMMA Invariance == Spec => []IInv
<1>1. Init => IInv
  <2> SUFFICES ASSUME Init PROVE IInv
    OBVIOUS
  <2>1. TypeOK  BY TypeInit
  <2>2. ContactsKnown /\ CutShortNotCached /\ PrefsCached
    BY DEF Init, ContactsKnown, CutShortNotCached, PrefsCached
  <2>3. \A r \in Requests : Work(r)
    BY NoAnswerType DEF Init, Work, ContactsWork, KindWork, BudgetWork, PrefsWork
  <2> QED BY <2>1, <2>2, <2>3 DEF IInv
<1>2. IInv /\ [Next]_vars => IInv'
  BY TypeStep, WorkStep DEF IInv, Shared
<1> QED BY <1>1, <1>2, PTL DEF Spec

(***************************************************************************)
(* Theorems                                                                *)
(***************************************************************************)

\* The types are kept by every step, whatever the relays answer and when.
THEOREM UserLookupsTypeCorrect == Spec => []TypeOK
BY Invariance, PTL DEF IInv

\* A silent relay is never taken for a relay without a contact list: the contacts
\* that are kept are those that a relay holds, or nobody if no relay holds any.
THEOREM SilenceKeepsNoContacts == Spec => []ContactsKnown
BY Invariance, PTL DEF IInv

\* Scores of which a budget cut something off are never kept as complete.
THEOREM CutScoresAreNotKept == Spec => []CutShortNotCached
BY Invariance, PTL DEF IInv

\* A recommendation whose budget cut something off says so, also when its scores
\* come from the cache.
THEOREM CutAnswersAreTold == Spec => []PartialTold
<1>1. IInv => PartialTold
  BY DEF IInv, Work, BudgetWork, PartialTold
<1> QED BY <1>1, Invariance, PTL

\* Preferences that are kept or replied are those of the preferences relay, and
\* its silence is never taken for "none".
THEOREM SilenceIsNotDefault == Spec => []PrefsKnown
<1>1. IInv => PrefsKnown
  BY DEF IInv, Work, PrefsWork, PrefsCached, PrefsKnown
<1> QED BY <1>1, Invariance, PTL

(***************************************************************************)
(* The network decides between relays that are alike                       *)
(***************************************************************************)

\* More follows on a relay are worth more, whatever their share is.
LEMMA NetworkScoreGrows ==
  ASSUME NEW a \in Nat, NEW b \in Nat, NEW n \in Nat, a < b
  PROVE  /\ NetworkScore(a, n) \in Nat /\ NetworkScore(b, n) \in Nat
         /\ NetworkScore(a, n) < NetworkScore(b, n)
<1>1. /\ NetworkBonus(a, n) \in {0, 30, 50} /\ NetworkBonus(b, n) \in {0, 30, 50}
      /\ NetworkBonus(a, n) =< NetworkBonus(b, n)
  BY DEF NetworkBonus
<1>2. NetworkScore(b, n) = 5 * b + NetworkBonus(b, n)
  BY <1>1 DEF NetworkScore, When
<1>3. NetworkScore(a, n) = IF a > 0 THEN 5 * a + NetworkBonus(a, n) ELSE 0
  BY <1>1 DEF NetworkScore, When
<1> QED BY <1>1, <1>2, <1>3

LEMMA ScoreType ==
  ASSUME NEW u \in Relays, NEW criteria \in Criteria
  PROVE  scoreRelay(Directory[u], criteria) \in Int
<1>1. /\ criteria.nips \in Seq(Nat) /\ Directory[u] \in ScoredEntry
  BY LookupAssumption DEF RecommendationInputs
<1> DEFINE matched == {i \in DOMAIN criteria.nips : Supports(Directory[u], criteria.nips[i])}
<1>2. Cardinality(matched) \in Nat
  BY <1>1, PositionsCounted
<1>3. LatencyScore(Directory[u].latency) \in Int
  BY <1>1 DEF LatencyScore, ScoredEntry
<1>4. \A c \in BOOLEAN, n \in Nat : When(c, n) \in Int
  BY DEF When
<1>5. /\ When(Directory[u].health = "online", 100) \in Int
      /\ When(Directory[u].health = "degraded", 50) \in Int
      /\ When(criteria.region # "" /\ Directory[u].country = criteria.region, 20) \in Int
      /\ When(~Directory[u].auth, 10) \in Int /\ When(~Directory[u].payment, 10) \in Int
  BY DEF When
<1> HIDE DEF matched
<1>6. 10 * Cardinality(matched) \in Int
  BY <1>2
<1>7. scoreRelay(Directory[u], criteria) =
          When(Directory[u].health = "online", 100)
        + When(Directory[u].health = "degraded", 50)
        + LatencyScore(Directory[u].latency) + 10 * Cardinality(matched)
        + When(criteria.region # "" /\ Directory[u].country = criteria.region, 20)
        + When(~Directory[u].auth, 10) + When(~Directory[u].payment, 10)
  BY DEF scoreRelay, matched
<1> DEFINE online == When(Directory[u].health = "online", 100)
           degraded == When(Directory[u].health = "degraded", 50)
           region == When(criteria.region # "" /\ Directory[u].country = criteria.region, 20)
           open == When(~Directory[u].auth, 10)
           free == When(~Directory[u].payment, 10)
           nips == 10 * Cardinality(matched)
           latency == LatencyScore(Directory[u].latency)
<1>8. /\ online \in Int /\ degraded \in Int /\ region \in Int /\ open \in Int
      /\ free \in Int /\ nips \in Int /\ latency \in Int
  BY <1>3, <1>5, <1>6
<1>9. scoreRelay(Directory[u], criteria)
        = online + degraded + latency + nips + region + open + free
  BY <1>7
<1> HIDE DEF online, degraded, region, open, free, nips, latency
<1> QED BY <1>8, <1>9

\* Only the end of a recommendation takes a request from there to its reply.
LEMMA RecommendReplies ==
  ASSUME TypeOK, [Next]_vars, NEW r \in Requests, pc[r] = "recommend", pc'[r] = "idle"
  PROVE  Recommend(r)
<1>1. CASE UNCHANGED vars \/ Expire
  BY <1>1 DEF vars, Expire, work
<1>2. ASSUME NEW q \in Requests, q # r,
             \/ Arrive(q) \/ BudgetEnds(q) \/ HandlerStep(q)
             \/ \E p \in Pubkeys : UserRelays(q, p)
      PROVE  pc'[r] = pc[r]
  <2>1. pc' = pc \/ \E label : pc' = [pc EXCEPT ![q] = label]
    <3>1. CASE \/ Arrive(q) \/ BudgetEnds(q) \/ ReadScores(q) \/ ReadContacts(q)
               \/ \E p \in Pubkeys : UserRelays(q, p)
      BY <3>1 DEF Arrive, BudgetEnds, ReadScores, ReadContacts, UserRelays, GoTo
    <3>2. CASE ContactsArrive(q) \/ ContactsNone(q) \/ ContactsUnanswered(q) \/ KeepContacts(q)
      BY <3>2 DEF ContactsArrive, ContactsNone, ContactsUnanswered, KeepContacts, GoTo, Reply
    <3>3. CASE StartLookups(q) \/ Sum(q) \/ StoreScores(q) \/ Recommend(q)
      BY <3>3 DEF StartLookups, Sum, StoreScores, Recommend, Partial, GoTo, Reply
    <3>4. CASE \E p \in Pubkeys : \/ StartLookup(q, p) \/ GiveUpWaiting(q, p)
                                  \/ LookupFails(q, p) \/ LookupEnds(q, p)
      BY <3>4 DEF StartLookup, GiveUpWaiting, LookupFails, LookupEnds, LookupUnchanged
    <3>5. CASE ReadPrefs(q) \/ AskCloistrRelays(q) \/ AskNIP65(q) \/ PrefsUnavailable(q)
               \/ KeepPrefs(q)
      BY <3>5 DEF ReadPrefs, AskCloistrRelays, AskNIP65, PrefsUnavailable, KeepPrefs,
                  PrefsReply, GoTo, Reply
    <3> QED BY <1>2, <3>1, <3>2, <3>3, <3>4, <3>5 DEF HandlerStep
  <2> QED BY <1>2, <2>1 DEF TypeOK
<1>3. ASSUME \/ Arrive(r) \/ BudgetEnds(r) \/ HandlerStep(r)
             \/ \E p \in Pubkeys : UserRelays(r, p)
      PROVE  Recommend(r)
  BY <1>3 DEF HandlerStep, Arrive, BudgetEnds, UserRelays, ReadScores, ReadContacts,
              ContactsArrive, ContactsNone, ContactsUnanswered, KeepContacts,
              StartLookups, StartLookup, GiveUpWaiting, LookupFails, LookupEnds, Sum,
              StoreScores, ReadPrefs, AskCloistrRelays, AskNIP65, PrefsUnavailable,
              KeepPrefs
<1> QED BY <1>1, <1>2, <1>3 DEF Next

\* Of two relays with the same entry the one that the follows' lists name more often
\* as written to comes first in every recommendation, whatever order sort.Slice gives
\* to equal scores.  A list may name a relay more than once, and each time counts.
THEOREM NetworkDecidesAlike == Spec => NetworkDecides
<1> DEFINE Ordered ==
      \A r \in Requests :
        pc[r] = "recommend" /\ pc'[r] = "idle" =>
          \A i, j \in DOMAIN answer'[r].shown :
            LET x == answer'[r].shown[i]
                y == answer'[r].shown[j]
            IN  i < j /\ Directory[x] = Directory[y]
                  => scores[r].scores[x] >= scores[r].scores[y]
<1>1. TypeOK /\ [Next]_vars => [Ordered]_vars
  <2> SUFFICES ASSUME TypeOK, [Next]_vars, NEW r \in Requests,
                      pc[r] = "recommend", pc'[r] = "idle",
                      NEW i \in DOMAIN answer'[r].shown, NEW j \in DOMAIN answer'[r].shown,
                      i < j,
                      Directory[answer'[r].shown[i]] = Directory[answer'[r].shown[j]]
               PROVE  scores[r].scores[answer'[r].shown[i]]
                        >= scores[r].scores[answer'[r].shown[j]]
    OBVIOUS
  <2>1. Recommend(r)
    BY RecommendReplies
  <2>2. CASE Reply(r, [NoAnswer EXCEPT !.status = "unavailable"])
    <3>1. answer'[r].shown = <<>>
      BY <2>2, NoAnswerType DEF Reply, TypeOK, Answer
    <3> QED BY <3>1
  <2>3. ASSUME NEW present \in SUBSET Relays, NEW criteria \in Criteria,
               NEW ranked \in Rankings({u \in present : Recommendable(Directory[u], criteria)},
                                       TotalScore(r, criteria)),
               Reply(r, [answer[r] EXCEPT !.status = "ok",
                                          !.shown = First(criteria.limit, ranked)])
        PROVE  scores[r].scores[answer'[r].shown[i]]
                 >= scores[r].scores[answer'[r].shown[j]]
    <3> DEFINE eligible == {u \in present : Recommendable(Directory[u], criteria)}
               total == TotalScore(r, criteria)
    <3>1. answer'[r].shown = First(criteria.limit, ranked)
      <4>1. answer[r] \in Answer /\ answer \in [Requests -> Answer]
        BY DEF TypeOK
      <4> QED BY <2>3, <4>1 DEF Reply, Answer
    <3>2. criteria.limit \in Nat \ {0}
      BY LookupAssumption DEF RecommendationInputs
    <3>3. /\ i \in 1..Cardinality(eligible) /\ j \in 1..Cardinality(eligible)
          /\ answer'[r].shown[i] = ranked[i] /\ answer'[r].shown[j] = ranked[j]
      <4>1. eligible \in SUBSET Relays
        OBVIOUS
      <4>2. ranked \in Rankings(eligible, total)
        BY <2>3
      <4> HIDE DEF eligible, total
      <4>3. /\ \A k \in DOMAIN First(criteria.limit, ranked) :
                  k \in DOMAIN ranked /\ First(criteria.limit, ranked)[k] = ranked[k]
            /\ DOMAIN ranked = 1..Cardinality(eligible)
        <5>1. ranked \in Seq(Relays) /\ DOMAIN ranked = 1..Cardinality(eligible)
          BY <4>1, <4>2, RankingType
        <5> QED BY <3>2, <5>1, FirstType
      <4> QED BY <3>1, <4>3
    <3>4. /\ ranked[i] \in eligible /\ ranked[j] \in eligible
          /\ total[ranked[i]] >= total[ranked[j]]
      BY <2>3, <3>3 DEF Rankings
    <3> DEFINE x == ranked[i]
               y == ranked[j]
               a == scores[r].scores[x]
               b == scores[r].scores[y]
               n == scores[r].count
               base == scoreRelay(Directory[x], criteria)
    <3>5. x \in Relays /\ y \in Relays /\ a \in Nat /\ b \in Nat /\ n \in Nat
      BY <3>4 DEF TypeOK
    <3>6. base \in Int /\ scoreRelay(Directory[y], criteria) = base
      BY <3>3, <3>5, ScoreType
    <3>7. total[x] = base + NetworkScore(a, n) /\ total[y] = base + NetworkScore(b, n)
      BY <3>5, <3>6 DEF TotalScore
    <3>8. CASE a < b
      <4>1. /\ NetworkScore(a, n) \in Nat /\ NetworkScore(b, n) \in Nat
            /\ NetworkScore(a, n) < NetworkScore(b, n)
        BY <3>5, <3>8, NetworkScoreGrows
      <4> HIDE DEF a, b, n, x, y, base, total
      <4> QED BY <3>4, <3>6, <3>7, <4>1 DEF x, y
    <3> QED BY <3>3, <3>5, <3>8
  <2> QED BY <2>1, <2>2, <2>3 DEF Recommend
<1>2. TypeOK /\ [Next]_vars => [Ordered]_vars
  BY <1>1
<1> QED BY <1>2, UserLookupsTypeCorrect, PTL DEF Spec, NetworkDecides

(***************************************************************************)
(* Reviews: the look-ups they start from                                   *)
(***************************************************************************)

\* What the relays hold does not change while the program runs.
LEMMA HeldKept == ASSUME [Next]_vars PROVE held' = held
<1>1. CASE UNCHANGED vars \/ Expire
  BY <1>1 DEF vars, world, Expire
<1>2. ASSUME NEW r \in Requests,
             \/ Arrive(r) \/ BudgetEnds(r) \/ \E p \in Pubkeys : UserRelays(r, p)
      PROVE  held' = held
  BY <1>2 DEF world, Arrive, BudgetEnds, UserRelays
<1>3. ASSUME NEW r \in Requests, HandlerStep(r) PROVE held' = held
  <2>1. CASE \/ ReadScores(r) \/ ReadContacts(r) \/ ContactsArrive(r) \/ ContactsNone(r)
             \/ ContactsUnanswered(r) \/ KeepContacts(r) \/ StartLookups(r)
    BY <2>1 DEF world, ReadScores, ReadContacts, ContactsArrive, ContactsNone,
                ContactsUnanswered, KeepContacts, StartLookups, ContactsUnchanged
  <2>2. CASE \E p \in Pubkeys : \/ StartLookup(r, p) \/ GiveUpWaiting(r, p)
                                \/ LookupFails(r, p) \/ LookupEnds(r, p)
    BY <2>2 DEF world, StartLookup, GiveUpWaiting, LookupFails, LookupEnds, LookupUnchanged
  <2>3. CASE Sum(r) \/ StoreScores(r) \/ Recommend(r)
    BY <2>3 DEF world, Sum, SumUnchanged, StoreScores, Recommend
  <2>4. CASE ReadPrefs(r) \/ AskCloistrRelays(r) \/ AskNIP65(r) \/ PrefsUnavailable(r)
             \/ KeepPrefs(r)
    BY <2>4 DEF world, ReadPrefs, AskCloistrRelays, AskNIP65, PrefsUnavailable, KeepPrefs,
                PrefsUnchanged
  <2> QED BY <1>3, <2>1, <2>2, <2>3, <2>4 DEF HandlerStep
<1> QED BY <1>1, <1>2, <1>3 DEF Next

\* Each step of the handlers with reviews is one of the look-ups, or none.
LEMMA ReviewsStepLooksUp == [ReviewsNext]_allVars => [Next]_vars
<1>1. UNCHANGED allVars => UNCHANGED vars
  BY DEF allVars
<1>2. ASSUME NEW r \in Requests, ReviewsStep(r) PROVE [Next]_vars
  BY <1>2 DEF ReviewsStep, LookupStep, ReadReviews, SeedAnswers, SendReview, TakeReview,
              ReviewsEnd, CollectUnchanged, Next
<1>3. ASSUME NEW r \in Requests, ArriveAnonymous(r) \/ ArriveForUser(r) PROVE [Next]_vars
  BY <1>3 DEF ArriveAnonymous, ArriveForUser, Next
<1>4. (\E r \in Requests : BudgetEnds(r)) \/ Expire => [Next]_vars
  BY DEF Next
<1>5. ReviewsExpire => [Next]_vars
  BY DEF ReviewsExpire
<1> QED BY <1>1, <1>2, <1>3, <1>4, <1>5 DEF ReviewsNext

\* The handler of reviews uses the look-ups as any other does, so what is proved of
\* them above holds with it as well.
THEOREM ReviewsImplementLookups == ReviewsSpec => Spec
<1>1. ReviewsInit => Init
  BY DEF ReviewsInit
<1> QED BY <1>1, ReviewsStepLooksUp, PTL DEF ReviewsSpec, Spec

(***************************************************************************)
(* Reviews: sequences of events                                            *)
(***************************************************************************)

Elems(q) == {q[i] : i \in DOMAIN q}

LEMMA TailElems ==
  ASSUME NEW S, NEW q \in Seq(S), q # <<>>
  PROVE  /\ Head(q) \in S /\ Tail(q) \in Seq(S) /\ Len(Tail(q)) = Len(q) - 1
         /\ Elems(q) = {Head(q)} \cup Elems(Tail(q))
<1>1. /\ Head(q) \in S /\ Tail(q) \in Seq(S) /\ Len(Tail(q)) = Len(q) - 1
      /\ \A i \in 1..Len(Tail(q)) : Tail(q)[i] = q[i + 1]
      /\ Len(q) \in Nat \ {0} /\ Head(q) = q[1]
  BY HeadTailProperties, EmptySeq, LenProperties
<1>2. DOMAIN q = 1..Len(q) /\ DOMAIN Tail(q) = 1..(Len(q) - 1)
  BY <1>1, LenProperties
<1>3. Elems(q) \subseteq {Head(q)} \cup Elems(Tail(q))
  <2> SUFFICES ASSUME NEW i \in 1..Len(q), i # 1
               PROVE  q[i] \in Elems(Tail(q))
    BY <1>1, <1>2 DEF Elems
  <2>1. i - 1 \in 1..(Len(q) - 1) /\ (i - 1) + 1 = i
    BY <1>1
  <2> QED BY <1>1, <1>2, <2>1 DEF Elems
<1>4. {Head(q)} \cup Elems(Tail(q)) \subseteq Elems(q)
  <2>1. \A i \in 1..(Len(q) - 1) : i + 1 \in 1..Len(q)
    BY <1>1
  <2>2. 1 \in 1..Len(q)
    BY <1>1
  <2> QED BY <1>1, <1>2, <2>1, <2>2 DEF Elems
<1> QED BY <1>1, <1>3, <1>4

LEMMA AppendElems ==
  ASSUME NEW S, NEW q \in Seq(S), NEW e \in S
  PROVE  /\ Append(q, e) \in Seq(S) /\ Len(Append(q, e)) = Len(q) + 1
         /\ Elems(Append(q, e)) = Elems(q) \cup {e}
<1>1. /\ Append(q, e) \in Seq(S) /\ Len(Append(q, e)) = Len(q) + 1
      /\ \A i \in 1..Len(q) : Append(q, e)[i] = q[i]
      /\ Append(q, e)[Len(q) + 1] = e
      /\ Len(q) \in Nat
  BY AppendProperties, LenProperties
<1>2. DOMAIN q = 1..Len(q) /\ DOMAIN Append(q, e) = 1..(Len(q) + 1)
  BY <1>1, LenProperties
<1>3. 1..(Len(q) + 1) = 1..Len(q) \cup {Len(q) + 1}
  BY <1>1
<1> QED BY <1>1, <1>2, <1>3 DEF Elems

\* A relay's stream may end anywhere.
LEMMA PrefixElems ==
  ASSUME NEW S, NEW q \in Seq(S), NEW n \in 0..Len(q)
  PROVE  /\ SubSeq(q, 1, n) \in Seq(S) /\ Elems(SubSeq(q, 1, n)) \subseteq Elems(q)
         /\ n = Len(q) => SubSeq(q, 1, n) = q
<1>1. Len(q) \in Nat /\ DOMAIN q = 1..Len(q)
  BY LenProperties
<1>2. \A i \in 1..n : q[i] \in S
  BY <1>1, ElementOfSeq
<1>3. /\ SubSeq(q, 1, n) \in Seq(S)
      /\ Len(SubSeq(q, 1, n)) = n
      /\ \A i \in 1..n : SubSeq(q, 1, n)[i] = q[i]
  BY <1>1, <1>2, SubSeqProperties
<1>4. DOMAIN SubSeq(q, 1, n) = 1..n
  BY <1>3, LenProperties
<1>5. Elems(SubSeq(q, 1, n)) \subseteq Elems(q)
  BY <1>1, <1>3, <1>4 DEF Elems
<1>6. n = Len(q) => SubSeq(q, 1, n) = q
  BY <1>3, SeqEqual
<1> QED BY <1>3, <1>5, <1>6

\* A ranking of a finite set lists all of it.
LEMMA RankingComplete ==
  ASSUME NEW S, IsFiniteSet(S), NEW score, NEW q \in Rankings(S, score)
  PROVE  /\ q \in Seq(S) /\ DOMAIN q = 1..Cardinality(S) /\ Elems(q) = S
         /\ \A i, j \in DOMAIN q : i < j => q[i] # q[j] /\ score[q[i]] >= score[q[j]]
<1> DEFINE n == Cardinality(S)
<1>1. n \in Nat
  BY FS_CardinalityType
<1>2. /\ q \in [1..n -> S]
      /\ \A i, j \in 1..n : i < j => q[i] # q[j] /\ score[q[i]] >= score[q[j]]
  BY DEF Rankings
<1>3. ASSUME NEW v \in S, v \notin Elems(q) PROVE FALSE
  <2>1. q \in [1..n -> S \ {v}]
    BY <1>2, <1>3 DEF Elems
  <2>2. IsFiniteSet(S \ {v}) /\ Cardinality(S \ {v}) = n - 1
    BY FS_RemoveElement
  <2>3. IsFiniteSet(1..n) /\ Cardinality(1..n) = n
    BY <1>1, FS_Interval
  <2>4. \E i, j \in 1..n : i # j /\ q[i] = q[j]
    BY <1>1, <2>1, <2>2, <2>3, FS_PigeonHole
  <2> QED BY <1>2, <2>4
<1>4. q \in Seq(S)
  BY <1>1, <1>2, SeqDef
<1> QED BY <1>2, <1>3, <1>4 DEF Elems

(***************************************************************************)
(* Reviews: what the channel and the handler hold                          *)
(***************************************************************************)

Settled(r, e) == newest[r][e.by] # None /\ newest[r][e.by].at >= e.at

\* Outside of a collection nothing is under way.
AtRest(r) ==
  /\ stage[r] # "collect" =>
       /\ asking[r] = {} /\ reviewsCh[r] = <<>> /\ newest[r] = NoneNewest
       /\ \A s \in Seeds : sending[r][s] = <<>>
  /\ stage[r] # "none" => shown[r] = None

\* What is under way is held by a seed.
OnlyHeld(r) ==
  /\ \A s \in Seeds : Elems(sending[r][s]) \subseteq Held
  /\ Elems(reviewsCh[r]) \subseteq Held
  /\ \A p \in Pubkeys : newest[r][p] # None => newest[r][p] \in Held /\ newest[r][p].by = p

\* While no event is lost, each is still to come, or no newer than what is kept.
NothingLost(r) ==
  stage[r] = "collect" /\ ~lost[r] =>
    \A s \in Seeds : \A e \in Elems(ReviewsAt(s)) :
      \/ s \in asking[r] \/ e \in Elems(sending[r][s])
      \/ e \in Elems(reviewsCh[r]) \/ Settled(r, e)

ShownNewest(r) == shown[r] # None => NewestOfAuthors(shown[r].reviews, lost[r])

Collection(r) == AtRest(r) /\ OnlyHeld(r) /\ NothingLost(r) /\ ShownNewest(r)

CachedNewest == relayReviews # None => NewestOfAuthors(relayReviews, lostCached)

ReviewsInv ==
  /\ TypeOK /\ ReviewsTypeOK /\ CachedNewest
  /\ \A r \in Requests : Collection(r)

\* The events a seed holds.
LEMMA HeldEvents ==
  ASSUME TypeOK, NEW s \in Seeds
  PROVE  /\ ReviewsAt(s) \in Seq(Review)
         /\ Elems(ReviewsAt(s)) \subseteq Held
<1>1. held \in Worlds
  BY DEF TypeOK
<1>2. ReviewsAt(s) \in Seq(Review)
  BY <1>1, ReviewsAssumption DEF ReviewsAt
<1> QED BY <1>2 DEF Held, Elems

LEMMA HeldReviews == ASSUME TypeOK PROVE Held \subseteq Review /\ None \notin Held
<1>1. \A s \in Seeds : \A i \in DOMAIN ReviewsAt(s) : ReviewsAt(s)[i] \in Review
  BY HeldEvents, ElementOfSeq, LenProperties
<1> QED BY <1>1, ReviewsAssumption DEF Held

\* The sets that depend on what the relays hold do not change.
LEMMA SameHeld ==
  ASSUME held' = held
  PROVE  /\ Held' = Held
         /\ \A s \in Seeds : ReviewsAt(s)' = ReviewsAt(s)
         /\ \A list, b : NewestOfAuthors(list, b)' <=> NewestOfAuthors(list, b)
BY DEF Held, ReviewsAt, NewestOfAuthors, NewestHeldReviews, Valid

\* A step that leaves a collection alone keeps what holds of it.
LEMMA CollectionKept ==
  ASSUME NEW r \in Requests, Collection(r), held' = held,
         asking'[r] = asking[r], sending'[r] = sending[r],
         reviewsCh'[r] = reviewsCh[r], newest'[r] = newest[r],
         stage'[r] = stage[r], shown'[r] = shown[r], lost'[r] = lost[r]
  PROVE  Collection(r)'
<1>1. AtRest(r)'
  BY DEF Collection, AtRest
<1>2. OnlyHeld(r)' /\ NothingLost(r)'
  BY SameHeld DEF Collection, OnlyHeld, NothingLost, Settled
<1>3. ShownNewest(r)'
  BY SameHeld DEF Collection, ShownNewest
<1> QED BY <1>1, <1>2, <1>3 DEF Collection

(***************************************************************************)
(* Reviews: the end of a collection                                        *)
(***************************************************************************)

LEMMA EndIsNewest ==
  ASSUME TypeOK, ReviewsTypeOK, NEW r \in Requests, Collection(r),
         stage[r] = "collect", asking[r] = {}, reviewsCh[r] = <<>>,
         \A s \in Seeds : sending[r][s] = <<>>,
         NEW list \in Rankings(Parsed(r), [e \in Parsed(r) |-> e.at])
  PROVE  NewestOfAuthors(list, lost[r]) /\ list \in Seq(Review)
<1> DEFINE all == {newest[r][p] : p \in Pubkeys}
<1>1. IsFiniteSet(Parsed(r))
  <2>1. IsFiniteSet(all)
    <3>1. newest[r] \in [Pubkeys -> all]
      BY DEF ReviewsTypeOK
    <3>2. newest[r] \in Surjection(Pubkeys, all)
      BY <3>1 DEF Surjection
    <3> QED BY <3>2, LookupAssumption, FS_Surjection
  <2>2. Parsed(r) \subseteq all
    BY DEF Parsed
  <2> QED BY <2>1, <2>2, FS_Subset
<1>2. \A e \in Parsed(r) : e \in Held /\ Valid(e) /\ e.by \in Pubkeys /\ newest[r][e.by] = e
  BY HeldReviews DEF Parsed, Collection, OnlyHeld, Review
<1>3. /\ list \in Seq(Parsed(r)) /\ Elems(list) = Parsed(r)
      /\ \A i, j \in DOMAIN list :
           i < j => list[i] # list[j] /\ list[i].at >= list[j].at
  <2> DEFINE score == [e \in Parsed(r) |-> e.at]
  <2>1. list \in Rankings(Parsed(r), score)
    OBVIOUS
  <2>2. /\ list \in Seq(Parsed(r)) /\ Elems(list) = Parsed(r)
        /\ \A i, j \in DOMAIN list :
             i < j => list[i] # list[j] /\ score[list[i]] >= score[list[j]]
    <3> HIDE DEF score
    <3> QED BY <1>1, <2>1, RankingComplete
  <2>3. \A i \in DOMAIN list : list[i] \in Parsed(r)
    BY <2>2 DEF Elems
  <2> QED BY <2>2, <2>3
<1>4. list \in Seq(Review)
  <2>1. Parsed(r) \subseteq Review
    BY <1>2, HeldReviews
  <2> QED BY <1>3, <2>1, SeqMonotonic
<1>5. \A i, j \in DOMAIN list : i < j => list[i].by # list[j].by /\ list[i].at >= list[j].at
  <2>1. \A i \in DOMAIN list : list[i] \in Parsed(r)
    BY <1>3 DEF Elems
  <2> QED BY <1>2, <1>3, <2>1
<1>6. ASSUME ~lost[r], NEW e \in Held
      PROVE  Settled(r, e)
  <2>1. PICK s \in Seeds : e \in Elems(ReviewsAt(s))
    BY <1>6 DEF Held, Elems
  <2>2. sending[r][s] = <<>> /\ reviewsCh[r] = <<>> /\ s \notin asking[r]
    OBVIOUS
  <2>3. Elems(<<>>) = {}
    BY DEF Elems
  <2> QED BY <1>6, <2>1, <2>2, <2>3 DEF Collection, NothingLost
<1>7. ASSUME ~lost[r], NEW e \in Held
      PROVE  /\ newest[r][e.by] \in NewestHeldReviews /\ newest[r][e.by].by = e.by
             /\ newest[r][e.by] # None
  <2>1. /\ e.by \in Pubkeys /\ newest[r][e.by] # None
        /\ newest[r][e.by] \in Held /\ newest[r][e.by].by = e.by
    BY <1>6, <1>7, HeldReviews DEF Settled, Collection, OnlyHeld, Review
  <2>2. ASSUME NEW d \in Held, d.by = e.by PROVE d.at =< newest[r][e.by].at
    <3>1. newest[r][e.by].at >= d.at
      BY <1>6, <1>7, <2>2 DEF Settled
    <3> QED BY <3>1, <2>1, HeldReviews DEF Review
  <2> QED BY <2>1, <2>2 DEF NewestHeldReviews
<1>8. ASSUME ~lost[r] PROVE Parsed(r) \subseteq NewestHeldReviews
  BY <1>2, <1>7, <1>8
<1>9. ASSUME ~lost[r], NEW e \in NewestHeldReviews
      PROVE  \/ \E d \in Parsed(r) : d.by = e.by
             \/ \E d \in NewestHeldReviews : d.by = e.by /\ ~Valid(d)
  <2>1. e \in Held
    BY DEF NewestHeldReviews
  <2>2. /\ newest[r][e.by] \in NewestHeldReviews /\ newest[r][e.by].by = e.by
        /\ newest[r][e.by] # None /\ e.by \in Pubkeys
    BY <1>7, <1>9, <2>1, HeldReviews DEF Review
  <2>3. Valid(newest[r][e.by]) => newest[r][e.by] \in Parsed(r)
    BY <2>2 DEF Parsed
  <2> QED BY <2>2, <2>3
<1>10. {list[i] : i \in DOMAIN list} = Parsed(r)
  BY <1>3 DEF Elems
<1>11. Parsed(r) \subseteq {e \in Held : Valid(e)}
  BY <1>2
<1>12. NewestOfAuthors(list, lost[r])
  BY <1>5, <1>8, <1>9, <1>10, <1>11 DEF NewestOfAuthors
<1> QED BY <1>4, <1>12

(***************************************************************************)
(* Reviews: each step keeps the invariant                                  *)
(***************************************************************************)

RequestStep(r) ==
  /\ held' = held
  /\ \A q \in Requests \ {r} :
       /\ asking'[q] = asking[q] /\ sending'[q] = sending[q]
       /\ reviewsCh'[q] = reviewsCh[q] /\ newest'[q] = newest[q]
       /\ stage'[q] = stage[q] /\ shown'[q] = shown[q] /\ lost'[q] = lost[q]

LEMMA OthersCollect ==
  ASSUME \A q \in Requests : Collection(q), NEW r \in Requests,
         RequestStep(r), Collection(r)'
  PROVE  \A q \in Requests : Collection(q)'
<1>1. ASSUME NEW q \in Requests \ {r} PROVE Collection(q)'
  BY <1>1, CollectionKept DEF RequestStep
<1> QED BY <1>1

\* The sequences under way, and what they are changed to.
LEMMA StageType ==
  ASSUME ReviewsTypeOK, NEW r \in Requests, NEW s \in {"none", "contacts", "cache", "collect"},
         ToStage(r, s)
  PROVE  stage' \in [Requests -> {"none", "contacts", "cache", "collect"}]
BY DEF ReviewsTypeOK, ToStage

LEMMA ReviewsTypeStep ==
  ASSUME TypeOK, ReviewsTypeOK, \A r \in Requests : Collection(r), [ReviewsNext]_allVars
  PROVE  ReviewsTypeOK'
<1>u. CASE UNCHANGED reviewVars
  BY <1>u DEF ReviewsTypeOK, reviewVars, collecting
<1>x. CASE ReviewsExpire
  BY <1>x DEF ReviewsTypeOK, ReviewsExpire, collecting
<1>1. ASSUME NEW r \in Requests, ArriveAnonymous(r) \/ ArriveForUser(r) PROVE ReviewsTypeOK'
  BY <1>1 DEF ReviewsTypeOK, ArriveAnonymous, ArriveForUser, ToStage, RestUnchanged,
              collecting
<1>2. ASSUME NEW r \in Requests, LookupStep(r) PROVE ReviewsTypeOK'
  <2>1. {follows[r][i] : i \in DOMAIN follows[r]} \subseteq Pubkeys
    <3>1. follows[r] \in Seq(Pubkeys)
      BY DEF TypeOK
    <3> QED BY <3>1, ElementOfSeq, LenProperties
  <2>2. stage' \in [Requests -> {"none", "contacts", "cache", "collect"}]
    BY <1>2, StageType DEF LookupStep, ReviewsTypeOK
  <2>3. network' \in [Requests -> SUBSET Pubkeys]
    BY <1>2, <2>1 DEF LookupStep, ReviewsTypeOK
  <2> QED BY <1>2, <2>2, <2>3 DEF ReviewsTypeOK, LookupStep, RestUnchanged, collecting
<1>3. ASSUME NEW r \in Requests, NEW list \in Seq(Review), Answered(r, list)
      PROVE  shown' \in [Requests ->
               [reviews : Seq(Review), inNetwork : SUBSET Pubkeys] \cup {None}]
  BY <1>3 DEF ReviewsTypeOK, Answered
<1>4. ASSUME NEW r \in Requests, ReadReviews(r) PROVE ReviewsTypeOK'
  <2>1. shown' \in [Requests ->
           [reviews : Seq(Review), inNetwork : SUBSET Pubkeys] \cup {None}]
    <3>1. CASE relayReviews # None /\ Answered(r, relayReviews)
      <4>1. relayReviews \in Seq(Review)
        BY <3>1 DEF ReviewsTypeOK
      <4> QED BY <1>3, <3>1, <4>1
    <3>2. CASE UNCHANGED shown
      BY <3>2 DEF ReviewsTypeOK
    <3> QED BY <1>4, <3>1, <3>2 DEF ReadReviews
  <2>2. stage' \in [Requests -> {"none", "contacts", "cache", "collect"}]
    BY <1>4, StageType DEF ReadReviews
  <2>3. asking' \in [Requests -> SUBSET Seeds] /\ lost' \in [Requests -> BOOLEAN]
    <3>1. /\ asking' = asking \/ asking' = [asking EXCEPT ![r] = Seeds]
          /\ lost' = lost \/ lost' = [lost EXCEPT ![r] = lostCached]
      BY <1>4 DEF ReadReviews, collecting
    <3>2. /\ asking \in [Requests -> SUBSET Seeds]
          /\ lost \in [Requests -> BOOLEAN] /\ lostCached \in BOOLEAN
      BY DEF ReviewsTypeOK
    <3>3. [asking EXCEPT ![r] = Seeds] \in [Requests -> SUBSET Seeds]
      BY <3>2
    <3>4. [lost EXCEPT ![r] = lostCached] \in [Requests -> BOOLEAN]
      BY <3>2
    <3> QED BY <3>1, <3>2, <3>3, <3>4
  <2>4. UNCHANGED <<network, sending, reviewsCh, newest, relayReviews, lostCached>>
    BY <1>4 DEF ReadReviews, collecting
  <2> QED BY <2>1, <2>2, <2>3, <2>4 DEF ReviewsTypeOK
<1>5. ASSUME NEW r \in Requests, NEW s \in Seeds, SeedAnswers(r, s) PROVE ReviewsTypeOK'
  <2>1. PICK n \in 0..Len(ReviewsAt(s)) :
          /\ sending' = [sending EXCEPT ![r][s] = SubSeq(ReviewsAt(s), 1, n)]
          /\ lost' = [lost EXCEPT ![r] = @ \/ n < Len(ReviewsAt(s))]
    BY <1>5 DEF SeedAnswers
  <2>2. SubSeq(ReviewsAt(s), 1, n) \in Seq(Review)
    BY HeldEvents, PrefixElems
  <2>3. sending' \in [Requests -> [Seeds -> Seq(Review)]] /\ lost' \in [Requests -> BOOLEAN]
    BY <2>1, <2>2 DEF ReviewsTypeOK
  <2> QED BY <1>5, <2>3 DEF ReviewsTypeOK, SeedAnswers, CollectUnchanged
<1>6. ASSUME NEW r \in Requests, NEW s \in Seeds, SendReview(r, s) PROVE ReviewsTypeOK'
  <2>1. /\ Head(sending[r][s]) \in Review /\ Tail(sending[r][s]) \in Seq(Review)
    BY <1>6, TailElems DEF ReviewsTypeOK, SendReview
  <2>2. CASE Len(reviewsCh[r]) < MaxReviews
    <3>1. /\ Append(reviewsCh[r], Head(sending[r][s])) \in Seq(Review)
          /\ Len(Append(reviewsCh[r], Head(sending[r][s]))) =< MaxReviews
      BY <2>1, <2>2, AppendElems, LenProperties, ReviewsAssumption DEF ReviewsTypeOK
    <3>2. /\ reviewsCh' = [reviewsCh EXCEPT ![r] = Append(@, Head(sending[r][s]))]
          /\ sending' = [sending EXCEPT ![r][s] = Tail(@)]
          /\ lost' = lost
      BY <1>6, <2>2 DEF SendReview
    <3>3. /\ reviewsCh' \in [Requests -> Seq(Review)]
          /\ \A q \in Requests : Len(reviewsCh'[q]) =< MaxReviews
      BY <3>1, <3>2 DEF ReviewsTypeOK
    <3>4. sending' \in [Requests -> [Seeds -> Seq(Review)]]
      BY <2>1, <3>2 DEF ReviewsTypeOK
    <3> QED BY <1>6, <3>2, <3>3, <3>4 DEF ReviewsTypeOK, SendReview, CollectUnchanged
  <2>3. CASE ~(Len(reviewsCh[r]) < MaxReviews)
    <3>1. /\ sending' = [sending EXCEPT ![r][s] = <<>>]
          /\ lost' = [lost EXCEPT ![r] = TRUE] /\ reviewsCh' = reviewsCh
      BY <1>6, <2>3 DEF SendReview
    <3>2. sending' \in [Requests -> [Seeds -> Seq(Review)]]
      BY <3>1, EmptySeq DEF ReviewsTypeOK
    <3> QED BY <1>6, <3>1, <3>2 DEF ReviewsTypeOK, SendReview, CollectUnchanged
  <2> QED BY <2>2, <2>3
<1>7. ASSUME NEW r \in Requests, TakeReview(r) PROVE ReviewsTypeOK'
  <2>1. /\ Head(reviewsCh[r]) \in Review /\ Tail(reviewsCh[r]) \in Seq(Review)
        /\ Len(Tail(reviewsCh[r])) = Len(reviewsCh[r]) - 1
    BY <1>7, TailElems DEF ReviewsTypeOK, TakeReview
  <2>2. Len(Tail(reviewsCh[r])) =< MaxReviews
    BY <2>1, LenProperties, ReviewsAssumption DEF ReviewsTypeOK
  <2>3. newest' \in [Requests -> [Pubkeys -> Review \cup {None}]]
    BY <1>7, <2>1 DEF ReviewsTypeOK, TakeReview
  <2>4. /\ reviewsCh' \in [Requests -> Seq(Review)]
        /\ \A q \in Requests : Len(reviewsCh'[q]) =< MaxReviews
    BY <1>7, <2>1, <2>2 DEF ReviewsTypeOK, TakeReview
  <2> QED BY <1>7, <2>3, <2>4 DEF ReviewsTypeOK, TakeReview, CollectUnchanged
<1>8. ASSUME NEW r \in Requests, ReviewsEnd(r) PROVE ReviewsTypeOK'
  <2>1. PICK list \in Rankings(Parsed(r), [e \in Parsed(r) |-> e.at]) :
          /\ Answered(r, list)
          /\ \/ relayReviews' = list /\ lostCached' = lost[r]
             \/ UNCHANGED <<relayReviews, lostCached>>
    BY <1>8 DEF ReviewsEnd
  <2>2. list \in Seq(Review)
    BY <1>8, EndIsNewest DEF ReviewsEnd
  <2>3. NoneNewest \in [Pubkeys -> Review \cup {None}]
    BY DEF NoneNewest
  <2> QED BY <1>3, <1>8, <2>1, <2>2, <2>3 DEF ReviewsTypeOK, ReviewsEnd, ToStage, Answered
<1> QED BY <1>u, <1>x, <1>1, <1>2, <1>4, <1>5, <1>6, <1>7, <1>8
        DEF ReviewsNext, ReviewsStep, allVars

\* What Redis has changes with the end of a collection alone.
LEMMA CachedKept ==
  ASSUME CachedNewest, held' = held, relayReviews' = relayReviews, lostCached' = lostCached
  PROVE  CachedNewest'
BY SameHeld DEF CachedNewest

\* A stream ends: all of it is to be sent, or the rest is lost.
LEMMA SeedStep ==
  ASSUME TypeOK, ReviewsTypeOK, \A q \in Requests : Collection(q), held' = held,
         NEW r \in Requests, NEW s \in Seeds, SeedAnswers(r, s)
  PROVE  \A q \in Requests : Collection(q)'
<1>1. PICK n \in 0..Len(ReviewsAt(s)) :
        /\ sending' = [sending EXCEPT ![r][s] = SubSeq(ReviewsAt(s), 1, n)]
        /\ lost' = [lost EXCEPT ![r] = @ \/ n < Len(ReviewsAt(s))]
  BY DEF SeedAnswers
<1>2. /\ s \in asking[r] /\ asking' = [asking EXCEPT ![r] = @ \ {s}]
      /\ reviewsCh' = reviewsCh /\ newest' = newest /\ stage' = stage /\ shown' = shown
  BY DEF SeedAnswers, CollectUnchanged
<1>3. stage[r] = "collect"
  BY <1>2 DEF Collection, AtRest
<1>4. /\ Elems(SubSeq(ReviewsAt(s), 1, n)) \subseteq Held
      /\ n = Len(ReviewsAt(s)) => SubSeq(ReviewsAt(s), 1, n) = ReviewsAt(s)
  BY HeldEvents, PrefixElems
<1>5. /\ sending'[r][s] = SubSeq(ReviewsAt(s), 1, n)
      /\ \A t \in Seeds \ {s} : sending'[r][t] = sending[r][t]
      /\ asking'[r] = asking[r] \ {s}
      /\ lost'[r] = (lost[r] \/ n < Len(ReviewsAt(s)))
  BY <1>1, <1>2 DEF ReviewsTypeOK
<1>6. AtRest(r)' /\ ShownNewest(r)'
  BY <1>2, <1>3 DEF Collection, AtRest, ShownNewest
<1>7. OnlyHeld(r)'
  BY <1>2, <1>4, <1>5, SameHeld DEF Collection, OnlyHeld
<1>8. NothingLost(r)'
  <2> SUFFICES ASSUME ~lost'[r], NEW t \in Seeds, NEW e \in Elems(ReviewsAt(t))
               PROVE  \/ t \in asking'[r] \/ e \in Elems(sending'[r][t])
                      \/ e \in Elems(reviewsCh'[r]) \/ Settled(r, e)'
    BY SameHeld DEF NothingLost
  <2>1. CASE t = s
    <3>1. Len(ReviewsAt(s)) \in Nat
      BY HeldEvents, LenProperties
    <3>2. ~(n < Len(ReviewsAt(s)))
      BY <1>5, Zenon
    <3>3. n = Len(ReviewsAt(s))
      BY <3>1, <3>2
    <3> QED BY <1>4, <1>5, <2>1, <3>3
  <2>2. CASE t # s
    <3>1. \/ t \in asking[r] \/ e \in Elems(sending[r][t])
          \/ e \in Elems(reviewsCh[r]) \/ Settled(r, e)
      BY <1>3, <1>5 DEF Collection, NothingLost
    <3> QED BY <1>2, <1>5, <2>2, <3>1 DEF Settled
  <2> QED BY <2>1, <2>2
<1>9. RequestStep(r)
  BY <1>1, <1>2 DEF RequestStep, ReviewsTypeOK
<1> QED BY <1>6, <1>7, <1>8, <1>9, OthersCollect DEF Collection

\* A goroutine sends an event, or gives up the rest.
LEMMA SendStep ==
  ASSUME TypeOK, ReviewsTypeOK, \A q \in Requests : Collection(q), held' = held,
         NEW r \in Requests, NEW s \in Seeds, SendReview(r, s)
  PROVE  \A q \in Requests : Collection(q)'
<1> DEFINE h == Head(sending[r][s])
<1>1. /\ sending[r][s] # <<>>
      /\ asking' = asking /\ newest' = newest /\ stage' = stage /\ shown' = shown
  BY DEF SendReview, CollectUnchanged
<1>2. stage[r] = "collect"
  BY <1>1 DEF Collection, AtRest
<1>3. sending[r][s] \in Seq(Review) /\ reviewsCh[r] \in Seq(Review)
  BY DEF ReviewsTypeOK
<1>4. /\ h \in Review /\ Tail(sending[r][s]) \in Seq(Review)
      /\ Elems(sending[r][s]) = {h} \cup Elems(Tail(sending[r][s]))
  BY <1>1, <1>3, TailElems
<1>5. AtRest(r)'
  BY <1>1, <1>2 DEF Collection, AtRest
<1>6. ShownNewest(r)'
  BY <1>1, <1>2 DEF Collection, AtRest, ShownNewest
<1>7. CASE Len(reviewsCh[r]) < MaxReviews
  <2>1. /\ reviewsCh' = [reviewsCh EXCEPT ![r] = Append(@, h)]
        /\ sending' = [sending EXCEPT ![r][s] = Tail(@)]
        /\ lost' = lost
    BY <1>7 DEF SendReview
  <2>2. /\ reviewsCh'[r] = Append(reviewsCh[r], h)
        /\ sending'[r][s] = Tail(sending[r][s])
        /\ \A t \in Seeds \ {s} : sending'[r][t] = sending[r][t]
    BY <2>1 DEF ReviewsTypeOK
  <2>3. Elems(reviewsCh'[r]) = Elems(reviewsCh[r]) \cup {h}
    BY <1>3, <1>4, <2>2, AppendElems
  <2>4. OnlyHeld(r)'
    BY <1>1, <1>4, <2>2, <2>3, SameHeld DEF Collection, OnlyHeld
  <2>5. NothingLost(r)'
    <3> SUFFICES ASSUME ~lost[r], NEW t \in Seeds, NEW e \in Elems(ReviewsAt(t))
                 PROVE  \/ t \in asking[r] \/ e \in Elems(sending'[r][t])
                        \/ e \in Elems(reviewsCh'[r]) \/ Settled(r, e)'
      BY <1>1, <2>1, SameHeld DEF NothingLost
    <3>1. \/ t \in asking[r] \/ e \in Elems(sending[r][t])
          \/ e \in Elems(reviewsCh[r]) \/ Settled(r, e)
      BY <1>2 DEF Collection, NothingLost
    <3>2. Settled(r, e) => Settled(r, e)'
      BY <1>1 DEF Settled
    <3> QED BY <1>4, <2>2, <2>3, <3>1, <3>2
  <2>6. RequestStep(r)
    BY <1>1, <2>1 DEF RequestStep, ReviewsTypeOK
  <2> QED BY <1>5, <1>6, <2>4, <2>5, <2>6, OthersCollect DEF Collection
<1>8. CASE ~(Len(reviewsCh[r]) < MaxReviews)
  <2>1. /\ sending' = [sending EXCEPT ![r][s] = <<>>]
        /\ lost' = [lost EXCEPT ![r] = TRUE] /\ reviewsCh' = reviewsCh
    BY <1>8 DEF SendReview
  <2>2. /\ sending'[r][s] = <<>> /\ lost'[r] = TRUE
        /\ \A t \in Seeds \ {s} : sending'[r][t] = sending[r][t]
    BY <2>1 DEF ReviewsTypeOK
  <2>3. Elems(<<>>) = {}
    BY DEF Elems
  <2>4. OnlyHeld(r)'
    BY <1>1, <2>1, <2>2, <2>3, SameHeld DEF Collection, OnlyHeld
  <2>5. NothingLost(r)'
    BY <2>2 DEF NothingLost
  <2>6. RequestStep(r)
    BY <1>1, <2>1 DEF RequestStep, ReviewsTypeOK
  <2> QED BY <1>5, <1>6, <2>4, <2>5, <2>6, OthersCollect DEF Collection
<1> QED BY <1>7, <1>8

\* The handler takes an event: from then on its author's review is as new.
LEMMA TakeStep ==
  ASSUME TypeOK, ReviewsTypeOK, \A q \in Requests : Collection(q), held' = held,
         NEW r \in Requests, TakeReview(r)
  PROVE  \A q \in Requests : Collection(q)'
<1> DEFINE h == Head(reviewsCh[r])
<1>1. /\ reviewsCh[r] # <<>> /\ reviewsCh' = [reviewsCh EXCEPT ![r] = Tail(@)]
      /\ newest' = IF Replaces(h, newest[r][h.by])
                   THEN [newest EXCEPT ![r][h.by] = h] ELSE newest
      /\ asking' = asking /\ sending' = sending /\ lost' = lost
      /\ stage' = stage /\ shown' = shown
  BY DEF TakeReview, CollectUnchanged
<1>2. stage[r] = "collect"
  BY <1>1 DEF Collection, AtRest
<1>3. reviewsCh[r] \in Seq(Review) /\ reviewsCh'[r] = Tail(reviewsCh[r])
  BY <1>1 DEF ReviewsTypeOK
<1>4. h \in Review /\ Elems(reviewsCh[r]) = {h} \cup Elems(reviewsCh'[r])
  BY <1>1, <1>3, TailElems
<1>5. h \in Held /\ h # None /\ h.by \in Pubkeys /\ h.at \in Nat
  BY <1>4, HeldReviews DEF Collection, OnlyHeld, Review
<1>6. \A p \in Pubkeys : newest[r][p] # None => newest[r][p].at \in Nat
  BY HeldReviews DEF Collection, OnlyHeld, Review
<1>7. /\ \A p \in Pubkeys \ {h.by} : newest'[r][p] = newest[r][p]
      /\ newest'[r][h.by] = IF Replaces(h, newest[r][h.by]) THEN h ELSE newest[r][h.by]
  BY <1>1, <1>5 DEF ReviewsTypeOK
<1>8. ASSUME NEW e \in Review, Settled(r, e) \/ e = h PROVE Settled(r, e)'
  <2>0. e.by \in Pubkeys /\ e.at \in Nat
    BY DEF Review
  <2>1. CASE e.by # h.by
    BY <1>7, <1>8, <2>0, <2>1 DEF Settled
  <2>2. CASE e.by = h.by
    <3>1. newest'[r][h.by] # None /\ newest'[r][h.by].at \in Nat
      BY <1>5, <1>6, <1>7 DEF Replaces
    <3>2. newest'[r][h.by].at >= h.at
      BY <1>5, <1>6, <1>7 DEF Replaces
    <3>3. newest[r][h.by] # None => newest'[r][h.by].at >= newest[r][h.by].at
      BY <1>5, <1>6, <1>7 DEF Replaces
    <3>4. Settled(r, e) => newest'[r][e.by].at >= e.at
      BY <1>5, <1>6, <2>0, <2>2, <3>1, <3>3 DEF Settled
    <3> QED BY <1>8, <2>2, <3>1, <3>2, <3>4 DEF Settled
  <2> QED BY <2>1, <2>2
<1>9. AtRest(r)'
  BY <1>1, <1>2 DEF Collection, AtRest
<1>10. ShownNewest(r)'
  BY <1>1, <1>2 DEF Collection, AtRest, ShownNewest
<1>11. OnlyHeld(r)'
  <2>1. \A p \in Pubkeys : newest'[r][p] # None =>
           newest'[r][p] \in Held /\ newest'[r][p].by = p
    BY <1>5, <1>7 DEF Collection, OnlyHeld
  <2>2. Elems(reviewsCh'[r]) \subseteq Held
    BY <1>4 DEF Collection, OnlyHeld
  <2> QED BY <1>1, <2>1, <2>2, SameHeld DEF Collection, OnlyHeld
<1>12. NothingLost(r)'
  <2> SUFFICES ASSUME ~lost[r], NEW t \in Seeds, NEW e \in Elems(ReviewsAt(t))
               PROVE  \/ t \in asking[r] \/ e \in Elems(sending[r][t])
                      \/ e \in Elems(reviewsCh'[r]) \/ Settled(r, e)'
    BY <1>1, SameHeld DEF NothingLost
  <2>1. \/ t \in asking[r] \/ e \in Elems(sending[r][t])
        \/ e \in Elems(reviewsCh[r]) \/ Settled(r, e)
    BY <1>2 DEF Collection, NothingLost
  <2>2. e \in Review
    BY HeldEvents, HeldReviews
  <2> QED BY <1>4, <1>8, <2>1, <2>2
<1>13. RequestStep(r)
  BY <1>1, <1>5 DEF RequestStep, ReviewsTypeOK
<1> QED BY <1>9, <1>10, <1>11, <1>12, <1>13, OthersCollect DEF Collection

\* A request arrives, or has its contacts.
LEMMA ContactsStep ==
  ASSUME ReviewsTypeOK, \A q \in Requests : Collection(q), held' = held,
         NEW r \in Requests, ArriveAnonymous(r) \/ ArriveForUser(r) \/ LookupStep(r)
  PROVE  \A q \in Requests : Collection(q)'
<1>1. /\ UNCHANGED collecting
      /\ \A q \in Requests \ {r} :
           stage'[q] = stage[q] /\ shown'[q] = shown[q] /\ lost'[q] = lost[q]
  BY DEF ArriveAnonymous, ArriveForUser, LookupStep, ToStage, RestUnchanged, ReviewsTypeOK
<1>2. /\ asking' = asking /\ sending' = sending /\ reviewsCh' = reviewsCh
      /\ newest' = newest
  BY <1>1 DEF collecting
<1>3. RequestStep(r)
  BY <1>1, <1>2 DEF RequestStep
<1>4. CASE UNCHANGED <<stage, shown, lost>>
  BY <1>2, <1>4, CollectionKept, OthersCollect, <1>3
<1>5. CASE ArriveAnonymous(r) \/ ArriveForUser(r) \/ stage' # stage
  <2>1. stage[r] # "collect" /\ stage'[r] # "collect"
    BY <1>5 DEF ArriveAnonymous, ArriveForUser, LookupStep, ToStage, ReviewsTypeOK
  <2>2. shown'[r] = None
    BY <1>5 DEF ArriveAnonymous, ArriveForUser, LookupStep, Collection, AtRest, ReviewsTypeOK
  <2>3. AtRest(r)' /\ ShownNewest(r)' /\ NothingLost(r)'
    BY <1>2, <2>1, <2>2 DEF Collection, AtRest, ShownNewest, NothingLost, NoneNewest
  <2>4. OnlyHeld(r)'
    BY <1>2, SameHeld DEF Collection, OnlyHeld
  <2> QED BY <1>3, <2>3, <2>4, OthersCollect DEF Collection
<1>6. LookupStep(r) => UNCHANGED <<stage, shown, lost>> \/ stage' # stage
  BY DEF LookupStep
<1> QED BY <1>4, <1>5, <1>6

\* Reviews are taken from Redis, or a collection begins.
LEMMA ReadStep ==
  ASSUME TypeOK, ReviewsTypeOK, CachedNewest, \A q \in Requests : Collection(q),
         held' = held, NEW r \in Requests, ReadReviews(r)
  PROVE  \A q \in Requests : Collection(q)'
<1>1. /\ stage[r] = "cache" /\ sending' = sending /\ reviewsCh' = reviewsCh
      /\ newest' = newest
  BY DEF ReadReviews, collecting
<1>2. OnlyHeld(r)'
  BY <1>1, SameHeld DEF Collection, OnlyHeld
<1>3. CASE /\ relayReviews # None /\ Answered(r, relayReviews)
           /\ lost' = [lost EXCEPT ![r] = lostCached]
           /\ ToStage(r, "none") /\ UNCHANGED collecting
  <2>1. stage'[r] = "none" /\ asking' = asking /\ lost'[r] = lostCached
    BY <1>3 DEF ReviewsTypeOK, ToStage, collecting
  <2>2. shown'[r].reviews = relayReviews
    BY <1>3 DEF ReviewsTypeOK, Answered
  <2>3. AtRest(r)' /\ NothingLost(r)'
    BY <1>1, <2>1 DEF Collection, AtRest, NothingLost, NoneNewest
  <2>4. ShownNewest(r)'
    BY <1>3, <2>1, <2>2, SameHeld DEF CachedNewest, ShownNewest
  <2>5. RequestStep(r)
    BY <1>1, <1>3, <2>1 DEF RequestStep, ReviewsTypeOK, ToStage, Answered
  <2> QED BY <1>2, <2>3, <2>4, <2>5, OthersCollect DEF Collection
<1>4. CASE /\ ToStage(r, "collect") /\ asking' = [asking EXCEPT ![r] = Seeds]
           /\ UNCHANGED <<shown, lost>>
  <2>1. stage'[r] = "collect" /\ asking'[r] = Seeds
    BY <1>4 DEF ReviewsTypeOK, ToStage
  <2>2. AtRest(r)' /\ NothingLost(r)' /\ ShownNewest(r)'
    BY <1>1, <1>4, <2>1 DEF Collection, AtRest, NothingLost, ShownNewest
  <2>3. RequestStep(r)
    BY <1>1, <1>4 DEF RequestStep, ReviewsTypeOK, ToStage
  <2> QED BY <1>2, <2>2, <2>3, OthersCollect DEF Collection
<1> QED BY <1>3, <1>4 DEF ReadReviews

\* All is taken; the reply is listed, and kept.
LEMMA EndStep ==
  ASSUME TypeOK, ReviewsTypeOK, CachedNewest, \A q \in Requests : Collection(q),
         held' = held, NEW r \in Requests, ReviewsEnd(r)
  PROVE  CachedNewest' /\ \A q \in Requests : Collection(q)'
<1>1. PICK list \in Rankings(Parsed(r), [e \in Parsed(r) |-> e.at]) :
        /\ Answered(r, list)
        /\ \/ relayReviews' = list /\ lostCached' = lost[r]
           \/ UNCHANGED <<relayReviews, lostCached>>
  BY DEF ReviewsEnd
<1>2. /\ asking' = asking /\ asking[r] = {} /\ sending' = sending
      /\ \A s \in Seeds : sending[r][s] = <<>>
      /\ reviewsCh' = reviewsCh /\ reviewsCh[r] = <<>> /\ lost' = lost
      /\ newest' = [newest EXCEPT ![r] = NoneNewest] /\ stage[r] = "collect"
      /\ ToStage(r, "none")
  BY DEF ReviewsEnd
<1>3. NewestOfAuthors(list, lost[r])
  BY <1>2, EndIsNewest
<1>4. CachedNewest'
  <2>1. CASE relayReviews' = list /\ lostCached' = lost[r]
    BY <1>3, <2>1, SameHeld DEF CachedNewest
  <2> QED BY <1>1, <2>1, CachedKept
<1>5. stage'[r] = "none" /\ newest'[r] = NoneNewest /\ shown'[r].reviews = list
  BY <1>1, <1>2 DEF ReviewsTypeOK, ToStage, Answered
<1>6. AtRest(r)' /\ NothingLost(r)'
  BY <1>2, <1>5 DEF AtRest, NothingLost, NoneNewest
<1>7. ShownNewest(r)'
  BY <1>2, <1>3, <1>5, SameHeld DEF ShownNewest
<1>8. OnlyHeld(r)'
  BY <1>2, <1>5, SameHeld DEF Collection, OnlyHeld, NoneNewest
<1>9. RequestStep(r)
  BY <1>1, <1>2 DEF RequestStep, ReviewsTypeOK, ToStage, Answered
<1> QED BY <1>4, <1>6, <1>7, <1>8, <1>9, OthersCollect DEF Collection

LEMMA ReviewsInvStep ==
  ASSUME TypeOK, TypeOK', ReviewsInv, [ReviewsNext]_allVars
  PROVE  ReviewsInv'
<1>1. held' = held
  BY ReviewsStepLooksUp, HeldKept
<1>2. ReviewsTypeOK'
  BY ReviewsTypeStep DEF ReviewsInv
<1> SUFFICES CachedNewest' /\ \A q \in Requests : Collection(q)'
  BY <1>2 DEF ReviewsInv
<1> USE <1>1 DEF ReviewsInv
<1>u. CASE UNCHANGED reviewVars
  <2>1. /\ UNCHANGED <<stage, shown, relayReviews, lost, lostCached>>
        /\ UNCHANGED <<asking, sending, reviewsCh, newest>>
    BY <1>u DEF reviewVars, collecting
  <2> QED BY <2>1, CachedKept, CollectionKept
<1>x. CASE ReviewsExpire
  <2>1. /\ relayReviews' = None /\ UNCHANGED <<stage, shown, lost>>
        /\ UNCHANGED <<asking, sending, reviewsCh, newest>>
    BY <1>x DEF ReviewsExpire, collecting
  <2> QED BY <2>1, CollectionKept DEF CachedNewest
<1>1a. ASSUME NEW r \in Requests, ArriveAnonymous(r) \/ ArriveForUser(r) \/ LookupStep(r)
       PROVE  CachedNewest' /\ \A q \in Requests : Collection(q)'
  BY <1>1a, CachedKept, ContactsStep
     DEF ArriveAnonymous, ArriveForUser, LookupStep, RestUnchanged
<1>2a. ASSUME NEW r \in Requests, ReadReviews(r)
       PROVE  CachedNewest' /\ \A q \in Requests : Collection(q)'
  BY <1>2a, CachedKept, ReadStep DEF ReadReviews
<1>3. ASSUME NEW r \in Requests, NEW s \in Seeds, SeedAnswers(r, s) \/ SendReview(r, s)
      PROVE  CachedNewest' /\ \A q \in Requests : Collection(q)'
  BY <1>3, CachedKept, SeedStep, SendStep DEF SeedAnswers, SendReview, CollectUnchanged
<1>4. ASSUME NEW r \in Requests, TakeReview(r)
      PROVE  CachedNewest' /\ \A q \in Requests : Collection(q)'
  BY <1>4, CachedKept, TakeStep DEF TakeReview, CollectUnchanged
<1>5. ASSUME NEW r \in Requests, ReviewsEnd(r)
      PROVE  CachedNewest' /\ \A q \in Requests : Collection(q)'
  BY <1>5, EndStep
<1> QED BY <1>u, <1>x, <1>1a, <1>2a, <1>3, <1>4, <1>5 DEF ReviewsNext, ReviewsStep, allVars

LEMMA ReviewsInvInit == ASSUME ReviewsInit PROVE TypeOK => ReviewsInv
<1>1. ReviewsTypeOK
  <2>1. <<>> \in Seq(Review) /\ Len(<<>>) = 0
    BY EmptySeq
  <2>2. /\ reviewsCh \in [Requests -> Seq(Review)]
        /\ \A r \in Requests : Len(reviewsCh[r]) =< MaxReviews
    BY <2>1, ReviewsAssumption DEF ReviewsInit
  <2>3. sending \in [Requests -> [Seeds -> Seq(Review)]]
    BY <2>1 DEF ReviewsInit
  <2> QED BY <2>2, <2>3 DEF ReviewsInit, ReviewsTypeOK, NoneNewest
<1>2. CachedNewest
  BY DEF ReviewsInit, CachedNewest
<1>3. ASSUME NEW r \in Requests PROVE Collection(r)
  <2>1. AtRest(r) /\ NothingLost(r) /\ ShownNewest(r)
    BY DEF ReviewsInit, AtRest, NothingLost, ShownNewest
  <2>2. Elems(<<>>) = {}
    BY DEF Elems
  <2>3. OnlyHeld(r)
    BY <2>2 DEF ReviewsInit, OnlyHeld, NoneNewest
  <2> QED BY <2>1, <2>3 DEF Collection
<1> QED BY <1>1, <1>2, <1>3 DEF ReviewsInv

LEMMA ReviewsInvHolds == ReviewsSpec => []ReviewsInv
<1>1. ReviewsSpec => []TypeOK
  BY ReviewsImplementLookups, UserLookupsTypeCorrect, PTL
<1>2. ReviewsInit /\ TypeOK => ReviewsInv
  BY ReviewsInvInit
<1>3. TypeOK /\ TypeOK' /\ ReviewsInv /\ [ReviewsNext]_allVars => ReviewsInv'
  BY ReviewsInvStep
<1> QED BY <1>1, <1>2, <1>3, PTL DEF ReviewsSpec

\* The state of a collection has its types: the channel never holds more than its
\* capacity, and a reply is a sequence of reviews.
THEOREM ReviewsTypeCorrect == ReviewsSpec => []ReviewsTypeOK
<1>1. ReviewsInv => ReviewsTypeOK
  BY DEF ReviewsInv
<1> QED BY <1>1, ReviewsInvHolds, PTL

\* However many seed relays there are, in whatever order their events come, and whether
\* they were collected for this request or kept by another: the handler of reviews
\* replies the newest review of each author, with the newest first, and leaves out
\* none of them unless a relay was cut short or the channel was full.
THEOREM ReviewsAreNewest == ReviewsSpec => []ReviewsNewest
<1>1. ReviewsInv => ReviewsNewest
  BY DEF ReviewsInv, Collection, ShownNewest, ReviewsNewest
<1> QED BY <1>1, ReviewsInvHolds, PTL
=============================================================================
