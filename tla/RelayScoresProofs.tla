-------------------------- MODULE RelayScoresProofs --------------------------
(***************************************************************************)
(* What the NIP-46 score says of a relay, and when the comparison finds a  *)
(* NIP that all relays support.                                            *)
(***************************************************************************)
EXTENDS RelayScores, FiniteSetTheorems, FunctionTheorems, TLAPS

\* nip46.go: "computes a 0-100 score for NIP-46 suitability".  A relay that supports
\* NIP-46 and is up never falls below "warning": the deductions together leave 30,
\* and "avoid" is only said of the others.
THEOREM NIP46ScoreMeans ==
  ASSUME NEW e \in ScoredEntry
  PROVE  /\ calculateNIP46Score(e) \in 0..100
         /\ scoreToRecommendation(calculateNIP46Score(e)) = "avoid"
              <=> ~Supports(e, 46) \/ e.health = "offline"
         /\ scoreToRecommendation(calculateNIP46Score(e)) = "recommended"
              => /\ Supports(e, 46) /\ e.health # "offline"
                 /\ e.latency =< 1000
<1> DEFINE score == calculateNIP46Score(e)
           usable == Supports(e, 46) /\ e.health # "offline"
<1>1. /\ e.latency \in Nat
      /\ NIP46Latency(e.latency) \in {0, 10, 30}
      /\ e.latency > 1000 => NIP46Latency(e.latency) = 30
  BY DEF ScoredEntry, NIP46Latency
<1>2. /\ When(e.health = "degraded", 20) \in {0, 20}
      /\ When(e.payment, 15) \in {0, 15}
      /\ When(e.auth, 5) \in {0, 5}
  BY DEF When
<1>3. CASE ~usable
  <2>1. score = 0
    BY <1>3 DEF calculateNIP46Score
  <2>2. scoreToRecommendation(score) = "avoid"
    BY <2>1 DEF scoreToRecommendation
  <2> QED  BY <1>3, <2>1, <2>2
<1>4. CASE usable
  <2>1. score = 100 - When(e.health = "degraded", 20) - NIP46Latency(e.latency)
                    - When(e.payment, 15) - When(e.auth, 5)
    BY <1>1, <1>2, <1>4 DEF calculateNIP46Score
  <2>2. score \in 30..100 /\ (e.latency > 1000 => score =< 70)
    BY <1>1, <1>2, <2>1
  <2>3. /\ scoreToRecommendation(score) \in {"recommended", "acceptable", "warning"}
        /\ score =< 70 => scoreToRecommendation(score) # "recommended"
    BY <2>2 DEF scoreToRecommendation
  <2>4. scoreToRecommendation(score) # "avoid"
    BY <2>3
  <2> QED  BY <1>1, <1>4, <2>2, <2>3, <2>4
<1> QED  BY <1>3, <1>4

----------------------------------------------------------------------------

\* No list names the NIP at two places.
NamedOnce(entries, nip) ==
  \A i \in DOMAIN entries : \A k, l \in DOMAIN entries[i].nips :
    entries[i].nips[k] = nip /\ entries[i].nips[l] = nip => k = l

Supporters(entries, nip) == {i \in DOMAIN entries : Supports(entries[i], nip)}

\* Each relay that supports a NIP names it at a place or at more, so the places are as
\* many as the relays just if no relay names it twice.
LEMMA CoverageCounts ==
  ASSUME NEW entries \in Seq(ScoredEntry), NEW nip
  PROVE  (Cardinality(NIPCoverage(entries, nip)) = Cardinality(Supporters(entries, nip)))
           <=> NamedOnce(entries, nip)
<1> DEFINE C == NIPCoverage(entries, nip)
           S == Supporters(entries, nip)
           places(i) == {l \in DOMAIN entries[i].nips : entries[i].nips[l] = nip}
           at == [i \in S |-> <<i, CHOOSE l \in DOMAIN entries[i].nips :
                                     entries[i].nips[l] = nip>>]
<1>1. \A i \in S : \E l \in DOMAIN entries[i].nips : entries[i].nips[l] = nip
  BY DEF Supporters, Supports
<1>2. \A i \in S : \E l \in places(i) : at[i] = <<i, l>>
  BY <1>1
<1>3. \A x : x \in C <=> \E i \in DOMAIN entries : \E l \in places(i) : x = <<i, l>>
  BY DEF NIPCoverage
<1>4. IsFiniteSet(DOMAIN entries) /\ IsFiniteSet(S)
  <2>1. IsFiniteSet(1..Len(entries)) /\ DOMAIN entries = 1..Len(entries)
    BY FS_Interval
  <2> QED  BY <2>1, FS_Subset DEF Supporters
<1>5. IsFiniteSet(C)
  <2> DEFINE lists == {DOMAIN entries[i].nips : i \in DOMAIN entries}
             list == [i \in DOMAIN entries |-> DOMAIN entries[i].nips]
  <2>1. list \in Surjection(DOMAIN entries, lists)
    BY DEF Surjection
  <2>2. IsFiniteSet(lists)
    BY <1>4, <2>1, FS_Surjection
  <2>3. \A T \in lists : IsFiniteSet(T)
    <3> SUFFICES ASSUME NEW i \in DOMAIN entries PROVE IsFiniteSet(DOMAIN entries[i].nips)
      OBVIOUS
    <3>1. entries[i] \in ScoredEntry
      OBVIOUS
    <3>2. entries[i].nips \in Seq(Nat)
      BY <3>1 DEF ScoredEntry
    <3>3. DOMAIN entries[i].nips = 1..Len(entries[i].nips) /\ Len(entries[i].nips) \in Nat
      BY <3>2
    <3>4. \A n \in Nat : IsFiniteSet(1..n)
      BY FS_Interval
    <3> QED  BY <3>3, <3>4
  <2>4. IsFiniteSet(UNION lists)
    BY <2>2, <2>3, FS_UNION
  <2>5. IsFiniteSet((DOMAIN entries) \X (UNION lists))
    BY <1>4, <2>4, FS_Product
  <2>6. C \in SUBSET ((DOMAIN entries) \X (UNION lists))
    BY <1>3
  <2> QED  BY <2>5, <2>6, FS_Subset
<1>6. at \in Injection(S, C)
  <2>1. \A i \in S : at[i] \in C
    BY <1>2, <1>3 DEF Supporters
  <2>2. \A i, j \in S : at[i] = at[j] => i = j
    BY <1>2
  <2> QED  BY <2>1, <2>2 DEF Injection, IsInjective
<1>7. (Cardinality(S) = Cardinality(C)) <=> at \in Surjection(S, C)
  BY <1>5, <1>6, FS_Injection
<1>8. ASSUME NamedOnce(entries, nip)
      PROVE  at \in Surjection(S, C)
  <2>1. \A x \in C : \E i \in S : at[i] = x
    <3> TAKE x \in C
    <3>1. PICK i \in DOMAIN entries : \E l \in places(i) : x = <<i, l>>
      BY <1>3
    <3>2. PICK l \in places(i) : x = <<i, l>>
      BY <3>1
    <3>3. i \in S
      BY DEF Supporters, Supports
    <3>4. \A k \in places(i) : k = l
      BY <1>8 DEF NamedOnce
    <3>5. at[i] = x
      BY <1>2, <3>2, <3>3, <3>4
    <3> QED  BY <3>3, <3>5
  <2> QED  BY <1>6, <2>1 DEF Injection, Surjection
<1>9. ASSUME at \in Surjection(S, C)
       PROVE  NamedOnce(entries, nip)
  <2> SUFFICES ASSUME NEW i \in DOMAIN entries, NEW k \in places(i), NEW l \in places(i)
               PROVE  k = l
    BY DEF NamedOnce
  <2>1. <<i, k>> \in C /\ <<i, l>> \in C
    BY <1>3
  <2>2. \A x \in C : \E j \in S : at[j] = x
    BY <1>9 DEF Surjection
  <2>3. PICK j \in S : at[j] = <<i, k>>
    BY <2>1, <2>2
  <2>4. PICK m \in S : at[m] = <<i, l>>
    BY <2>1, <2>2
  <2>5. j = i /\ m = i
    BY <1>2, <2>3, <2>4
  <2> QED  BY <2>3, <2>4, <2>5
<1> HIDE DEF at
<1> QED  BY <1>7, <1>8, <1>9

\* compare.go: "Find common NIPs (supported by ALL relays)".  What the count of mentions
\* makes of it, for every NIP and whatever the lists repeat: a NIP that no relay names
\* twice is reported just if all support it, and one that all support is not reported
\* as soon as one of them names it twice.
THEOREM CommonNIPsAreCommon ==
  ASSUME NEW entries \in Seq(ScoredEntry), entries # <<>>, NEW nip
  PROVE  LET supported == \A i \in DOMAIN entries : Supports(entries[i], nip)
         IN  /\ NamedOnce(entries, nip) => (nip \in CommonNIPs(entries) <=> supported)
             /\ supported => (nip \in CommonNIPs(entries) <=> NamedOnce(entries, nip))
<1> DEFINE named == UNION {Range(entries[i].nips) : i \in DOMAIN entries}
           supported == \A i \in DOMAIN entries : Supports(entries[i], nip)
           S == Supporters(entries, nip)
           counted == Cardinality(NIPCoverage(entries, nip)) = Len(entries)
<1>1. DOMAIN entries = 1..Len(entries) /\ Len(entries) \in Nat /\ 1 \in DOMAIN entries
  OBVIOUS
<1>2. supported => nip \in named
  <2> SUFFICES ASSUME supported PROVE nip \in named
    OBVIOUS
  <2>1. PICK k \in DOMAIN entries[1].nips : entries[1].nips[k] = nip
    BY <1>1 DEF Supports
  <2> QED  BY <1>1, <2>1 DEF Range
<1>3. nip \in CommonNIPs(entries) <=> nip \in named /\ counted
  BY DEF CommonNIPs
<1>4. (Cardinality(S) = Len(entries)) <=> supported
  <2>1. IsFiniteSet(1..Len(entries)) /\ Cardinality(1..Len(entries)) = Len(entries)
    BY <1>1, FS_Interval
  <2>2. S \in SUBSET (1..Len(entries))
    BY <1>1 DEF Supporters
  <2>3. Cardinality(S) = Len(entries) => S = 1..Len(entries)
    BY <2>1, <2>2, FS_Subset
  <2>4. supported <=> S = 1..Len(entries)
    BY <1>1 DEF Supporters
  <2> QED  BY <2>1, <2>3, <2>4
<1>5. NamedOnce(entries, nip) => (counted <=> supported)
  BY <1>4, CoverageCounts
<1>6. supported => (counted <=> NamedOnce(entries, nip))
  BY <1>4, CoverageCounts
<1> HIDE DEF named, supported, counted
<1> QED  BY <1>2, <1>3, <1>5, <1>6 DEF supported
=============================================================================
