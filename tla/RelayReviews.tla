----------------------------- MODULE RelayReviews -----------------------------
(***************************************************************************)
(* GET /api/v1/relay/reviews (RelayReviewsHandler).  The handler first     *)
(* looks up whom the user follows, as UserLookups has it; then it takes    *)
(* the reviews of the relay from Redis or collects them: a goroutine for   *)
(* each seed relay sends what it was given into one bounded channel, and   *)
(* the handler keeps the newest review of each author.                     *)
(***************************************************************************)
EXTENDS UserLookups

CONSTANTS
  Reviews,      \* the review events each seed holds in a world, in the order it
                \* sends them
  MaxReviews    \* reviewsMaxToFetch: capacity of the channel

Review == [by : Pubkeys, at : Nat, rating : Int]

ASSUME ReviewsAssumption ==
  /\ Reviews \in [Worlds -> [Seeds -> Seq(Review)]]
  /\ MaxReviews \in Nat \ {0}
  /\ None \notin Review \cup Seq(Review)

VARIABLES
  stage,          \* of each request for reviews
  network,        \* wotFollows
  asking,         \* the seeds that have yet to answer it
  sending,        \* what the goroutine of each seed has yet to send
  reviewsCh,      \* the channel
  newest,         \* reviewsByPubkey
  shown,          \* the reviews replied, and which of their authors are in_network
  relayReviews,   \* relay:reviews:{url} in Redis
  \* history, read by the properties alone
  lost,           \* an event did not reach the handler
  lostCached      \* the same, for the reviews in Redis

collecting == <<asking, sending, reviewsCh, newest>>
reviewVars == <<stage, network, collecting, shown, relayReviews, lost, lostCached>>
allVars == <<vars, reviewVars>>

NoneNewest == [p \in Pubkeys |-> None]

ReviewsTypeOK ==
  /\ stage \in [Requests -> {"none", "contacts", "cache", "collect"}]
  /\ network \in [Requests -> SUBSET Pubkeys]
  /\ asking \in [Requests -> SUBSET Seeds]
  /\ sending \in [Requests -> [Seeds -> Seq(Review)]]
  /\ reviewsCh \in [Requests -> Seq(Review)]
  /\ \A r \in Requests : Len(reviewsCh[r]) =< MaxReviews
  /\ newest \in [Requests -> [Pubkeys -> Review \cup {None}]]
  /\ shown \in [Requests ->
       [reviews : Seq(Review), inNetwork : SUBSET Pubkeys] \cup {None}]
  /\ relayReviews \in Seq(Review) \cup {None}
  /\ lost \in [Requests -> BOOLEAN]
  /\ lostCached \in BOOLEAN

ReviewsInit ==
  /\ Init
  /\ stage = [r \in Requests |-> "none"]
  /\ network = [r \in Requests |-> {}]
  /\ asking = [r \in Requests |-> {}]
  /\ sending = [r \in Requests |-> [s \in Seeds |-> <<>>]]
  /\ reviewsCh = [r \in Requests |-> <<>>]
  /\ newest = [r \in Requests |-> NoneNewest]
  /\ shown = [r \in Requests |-> None]
  /\ relayReviews = None
  /\ lost = [r \in Requests |-> FALSE]
  /\ lostCached = FALSE

----------------------------------------------------------------------------
(* A request arrives; the look-up of its contacts *)

ToStage(r, s) == stage' = [stage EXCEPT ![r] = s]

RestUnchanged == UNCHANGED <<collecting, relayReviews, lostCached>>

\* Without a valid key there is no network to look up.
ArriveAnonymous(r) ==
  /\ pc[r] = "idle" /\ stage[r] = "none"
  /\ ToStage(r, "cache")
  /\ network' = [network EXCEPT ![r] = {}]
  /\ shown' = [shown EXCEPT ![r] = None]
  /\ lost' = [lost EXCEPT ![r] = FALSE]
  /\ UNCHANGED vars /\ RestUnchanged

ArriveForUser(r) ==
  /\ stage[r] = "none"
  /\ Arrive(r) \/ \E p \in Pubkeys : UserRelays(r, p)
  /\ ToStage(r, IF kind'[r] = "reviews" THEN "contacts" ELSE "none")
  /\ shown' = [shown EXCEPT ![r] = None]
  /\ lost' = [lost EXCEPT ![r] = FALSE]
  /\ UNCHANGED network /\ RestUnchanged

\* Once getFollows has returned, with an error or not, the reviews are read.
LookupStep(r) ==
  /\ HandlerStep(r)
  /\ IF stage[r] = "contacts" /\ pc'[r] = "idle"
     THEN /\ ToStage(r, "cache")
          /\ network' = [network EXCEPT ![r] = {follows[r][i] : i \in DOMAIN follows[r]}]
     ELSE UNCHANGED <<stage, network>>
  /\ UNCHANGED <<shown, lost>> /\ RestUnchanged

----------------------------------------------------------------------------
(* fetchRelayReviews *)

Answered(r, list) ==
  shown' = [shown EXCEPT ![r] =
    [reviews |-> list, inNetwork |-> {list[i].by : i \in DOMAIN list} \cap network[r]]]

\* A read of Redis that fails counts as a miss.
ReadReviews(r) ==
  /\ stage[r] = "cache"
  /\ \/ /\ relayReviews # None
        /\ Answered(r, relayReviews)
        /\ lost' = [lost EXCEPT ![r] = lostCached]
        /\ ToStage(r, "none")
        /\ UNCHANGED collecting
     \/ /\ ToStage(r, "collect")
        /\ asking' = [asking EXCEPT ![r] = Seeds]
        /\ UNCHANGED <<sending, reviewsCh, newest, shown, lost>>
  /\ UNCHANGED <<vars, network, relayReviews, lostCached>>

ReviewsAt(s) == Reviews[held][s]

CollectUnchanged ==
  UNCHANGED <<vars, stage, network, shown, relayReviews, lostCached>>

\* Mutant: a relay is waited for until it has sent a review.
SeedAnswersAtLast(r, s) ==
  /\ s \in asking[r] /\ ReviewsAt(s) # <<>>
  /\ sending' = [sending EXCEPT ![r][s] = ReviewsAt(s)]
  /\ asking' = [asking EXCEPT ![r] = @ \ {s}]
  /\ UNCHANGED <<reviewsCh, newest, lost>>
  /\ CollectUnchanged

\* fetchReviewsFromRelay: what the relay sent within 5 s, or until the stream was
\* closed; nothing when it cannot be reached or the context ends first.
SeedAnswers(r, s) ==
  /\ s \in asking[r]
  /\ \E n \in 0..Len(ReviewsAt(s)) :
       /\ sending' = [sending EXCEPT ![r][s] = SubSeq(ReviewsAt(s), 1, n)]
       /\ lost' = [lost EXCEPT ![r] = @ \/ n < Len(ReviewsAt(s))]
  /\ asking' = [asking EXCEPT ![r] = @ \ {s}]
  /\ UNCHANGED <<reviewsCh, newest>>
  /\ CollectUnchanged

\* Mutant: the channel holds one more.
SendReviewOver(r, s) ==
  /\ sending[r][s] # <<>>
  /\ Len(reviewsCh[r]) =< MaxReviews
  /\ reviewsCh' = [reviewsCh EXCEPT ![r] = Append(@, Head(sending[r][s]))]
  /\ sending' = [sending EXCEPT ![r][s] = Tail(@)]
  /\ UNCHANGED <<asking, newest, lost>>
  /\ CollectUnchanged

\* Into the channel, unless it is full: then the goroutine gives up the rest.
SendReview(r, s) ==
  /\ sending[r][s] # <<>>
  /\ IF Len(reviewsCh[r]) < MaxReviews
     THEN /\ reviewsCh' = [reviewsCh EXCEPT ![r] = Append(@, Head(sending[r][s]))]
          /\ sending' = [sending EXCEPT ![r][s] = Tail(@)]
          /\ UNCHANGED lost
     ELSE /\ sending' = [sending EXCEPT ![r][s] = <<>>]
          /\ lost' = [lost EXCEPT ![r] = TRUE]
          /\ UNCHANGED reviewsCh
  /\ UNCHANGED <<asking, newest>>
  /\ CollectUnchanged

\* Mutant: the last to arrive stays.
ReplacesAlways(e, d) == TRUE

\* With equal times the first to arrive stays.
Replaces(e, d) == d = None \/ e.at > d.at

TakeReview(r) ==
  /\ reviewsCh[r] # <<>>
  /\ LET e == Head(reviewsCh[r])
     IN  newest' = IF Replaces(e, newest[r][e.by])
                   THEN [newest EXCEPT ![r][e.by] = e] ELSE newest
  /\ reviewsCh' = [reviewsCh EXCEPT ![r] = Tail(@)]
  /\ UNCHANGED <<asking, sending, lost>>
  /\ CollectUnchanged

\* parseReviewEvent: a rating that cannot be read counts as 0.
Valid(e) == e.rating \in 1..5

Parsed(r) == {e \in {newest[r][p] : p \in Pubkeys} \ {None} : Valid(e)}

\* The channel was closed, and is empty.  Reviews are kept if there are any and
\* Redis takes them.
ReviewsEnd(r) ==
  /\ stage[r] = "collect"
  /\ asking[r] = {} /\ \A s \in Seeds : sending[r][s] = <<>>
  /\ reviewsCh[r] = <<>>
  /\ \E list \in Rankings(Parsed(r), [e \in Parsed(r) |-> e.at]) :
       /\ Answered(r, list)
       /\ \/ list # <<>> /\ relayReviews' = list /\ lostCached' = lost[r]
          \/ UNCHANGED <<relayReviews, lostCached>>
  /\ ToStage(r, "none")
  /\ newest' = [newest EXCEPT ![r] = NoneNewest]
  /\ UNCHANGED <<vars, network, asking, sending, reviewsCh, lost>>

ReviewsExpire ==
  /\ relayReviews' = None /\ lostCached' = FALSE
  /\ UNCHANGED <<vars, stage, network, collecting, shown, lost>>

----------------------------------------------------------------------------

ReviewsStep(r) ==
  \/ LookupStep(r) \/ ReadReviews(r)
  \/ \E s \in Seeds : SeedAnswers(r, s) \/ SendReview(r, s)
  \/ TakeReview(r) \/ ReviewsEnd(r)

ReviewsNext ==
  \/ \E r \in Requests :
       \/ ArriveAnonymous(r) \/ ArriveForUser(r) \/ ReviewsStep(r)
       \/ BudgetEnds(r) /\ UNCHANGED reviewVars
  \/ Expire /\ UNCHANGED reviewVars
  \/ ReviewsExpire

ReviewsSpec == ReviewsInit /\ [][ReviewsNext]_allVars

\* As in UserLookups; the goroutines of the fan-out run, and end after 5 s.
ReviewsFairSpec == ReviewsSpec /\ \A r \in Requests : WF_allVars(ReviewsStep(r))

----------------------------------------------------------------------------
(* Properties *)

Held == UNION {{ReviewsAt(s)[i] : i \in DOMAIN ReviewsAt(s)} : s \in Seeds}

NewestHeldReviews ==
  {e \in Held : \A d \in Held : d.by = e.by => d.at =< e.at}

\* One review for an author, the newest first, each held by a seed and valid; and
\* unless an event was lost, none that another seed's review of the same author
\* replaces, and none is missing.
NewestOfAuthors(list, incomplete) ==
  LET listed == {list[i] : i \in DOMAIN list}
  IN  /\ \A i, j \in DOMAIN list :
           i < j => list[i].by # list[j].by /\ list[i].at >= list[j].at
      /\ listed \subseteq {e \in Held : Valid(e)}
      /\ ~incomplete =>
           /\ listed \subseteq NewestHeldReviews
           /\ \A e \in NewestHeldReviews :
                \/ \E d \in listed : d.by = e.by
                \/ \E d \in NewestHeldReviews : d.by = e.by /\ ~Valid(d)

\* reviews.go: "deduplicate reviews (by pubkey, take newest)".  In whatever order the
\* goroutines send and the handler takes, it replies the newest review of each
\* author, whether they were collected for it or read from the cache.
ReviewsNewest ==
  \A r \in Requests : shown[r] # None => NewestOfAuthors(shown[r].reviews, lost[r])

\* A request for reviews is answered, also when relays are silent and the channel
\* is full.
ReviewsAnswered == \A r \in Requests : stage[r] # "none" ~> stage[r] = "none"
=============================================================================
