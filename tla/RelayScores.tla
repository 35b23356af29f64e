----------------------------- MODULE RelayScores -----------------------------
(***************************************************************************)
(* The scores the query API gives to relays: how well a relay suits a      *)
(* recommendation, what the lists of the people a user follows add to it,  *)
(* how well it suits remote signing (NIP-46).                              *)
(***************************************************************************)
EXTENDS Integers, Sequences, FiniteSets, Functions

\* What the scores read of a cached relay.
ScoredEntry == [health : {"online", "degraded", "offline"}, latency : Nat,
                nips : Seq(Nat), country : STRING,
                auth : BOOLEAN, payment : BOOLEAN]

\* RecommendationInputs.  A NIP that is asked for twice counts twice.
RecommendationInputs == [nips : Seq(Nat), region : STRING, limit : Nat \ {0},
                         excludeAuth : BOOLEAN, excludePayment : BOOLEAN]

\* A relay's NIP-11 document lists its NIPs, possibly one of them twice.
Supports(e, nip) == \E i \in DOMAIN e.nips : e.nips[i] = nip

When(condition, points) == IF condition THEN points ELSE 0

LatencyScore(ms) ==
  CASE ms = 0    -> 0
    [] ms \in 1..99     -> 15
    [] ms \in 100..299  -> 10
    [] ms \in 300..999  -> 5
    [] OTHER            -> 0

scoreRelay(e, criteria) ==
    When(e.health = "online", 100) + When(e.health = "degraded", 50)
  + LatencyScore(e.latency)
  + 10 * Cardinality({i \in DOMAIN criteria.nips : Supports(e, criteria.nips[i])})
  + When(criteria.region # "" /\ e.country = criteria.region, 20)
  + When(~e.auth, 10) + When(~e.payment, 10)

\* presence counts the write entries of the follows' lists that name the relay, a
\* repeated one again, so the share presence / follows may exceed 1.
NetworkBonus(presence, follows) ==
  CASE follows = 0             -> 0
    [] 4 * presence >= follows  -> 50
    [] 10 * presence >= follows -> 30
    [] OTHER                    -> 0

NetworkScore(presence, follows) ==
  When(presence > 0, 5 * presence + NetworkBonus(presence, follows))

Recommendable(e, criteria) ==
  /\ e.health # "offline"
  /\ ~(criteria.excludeAuth /\ e.auth)
  /\ ~(criteria.excludePayment /\ e.payment)

----------------------------------------------------------------------------

NIP46Latency(ms) == IF ms > 1000 THEN 30 ELSE IF ms > 500 THEN 10 ELSE 0

calculateNIP46Score(e) ==
  IF ~Supports(e, 46) \/ e.health = "offline"
  THEN 0
  ELSE LET score == 100 - When(e.health = "degraded", 20)
                        - NIP46Latency(e.latency)
                        - When(e.payment, 15) - When(e.auth, 5)
       IN  IF score < 0 THEN 0 ELSE score

scoreToRecommendation(score) ==
  CASE score >= 80 -> "recommended"
    [] score \in 50..79 -> "acceptable"
    [] score \in 20..49 -> "warning"
    [] OTHER -> "avoid"

----------------------------------------------------------------------------
(***************************************************************************)
(* What the comparison of some relays finds them to have in common.        *)
(***************************************************************************)

\* Where the lists of all relays name a NIP: data.NIPCoverage and nipCount.
NIPCoverage(entries, nip) ==
  UNION {{<<i, k>> : k \in {l \in DOMAIN entries[i].nips : entries[i].nips[l] = nip}} :
           i \in DOMAIN entries}

\* A NIP is taken to be common when it is named as often as there are relays.
CommonNIPs(entries) ==
  {nip \in UNION {Range(entries[i].nips) : i \in DOMAIN entries} :
     Cardinality(NIPCoverage(entries, nip)) = Len(entries)}
=============================================================================
