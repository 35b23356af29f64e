------------------------------ MODULE RelayDedup ------------------------------
(***************************************************************************)
(* Which cached relay entries the two publishers announce.  A host is      *)
(* often cached under several URLs that differ in their path; a path is    *)
(* announced on its own only if its NIP-11 document tells it from the root *)
(* of the host.  Go iterates over maps in any order, so the code has       *)
(* several results where it breaks a tie: DedupResult accepts each.        *)
(***************************************************************************)
EXTENDS Integers, FiniteSets

CONSTANTS
  Hosts,        \* scheme and host of the cached URLs
  Paths,        \* their paths
  NoPath,       \* the path of the root of a host
  Forms,        \* what canonicalizeRelayURL drops: case, port, root dot, query
  Canonical,    \* the form it leaves
  UrlLength,    \* the length of each URL
  Infos,        \* NIP-11 documents, told apart by their fingerprint
  NoInfo        \* an entry without name, software and NIPs

Url == [host : Hosts, path : Paths \cup {NoPath}, form : Forms]

ASSUME DedupAssumption ==
  /\ NoPath \notin Paths
  /\ Canonical \in Forms
  /\ NoInfo \notin Infos
  /\ UrlLength \in [Url -> Nat]

Healths == {"online", "degraded", "offline"}

Entry == [url : Url, health : Healths, info : Infos \cup {NoInfo}]

canonicalizeRelayURL(u) == [u EXCEPT !.form = Canonical]

CanonicalUrl == {u \in Url : u.form = Canonical}

hostKey(u) == u.host

hasPath(u) == u.path # NoPath

hasNIP11(e) == e.info # NoInfo

healthRank(health) ==
  CASE health = "online" -> 0 [] health = "degraded" -> 1 [] OTHER -> 2

isBetterCandidate(candidate, current) ==
  \/ healthRank(candidate.health) < healthRank(current.health)
  \/ /\ healthRank(candidate.health) = healthRank(current.health)
     /\ UrlLength[candidate.url] < UrlLength[current.url]

Group(entries, h) == {e \in entries : hostKey(e.url) = h}

\* The roots the loop over a group may settle on: the first of the healthiest.
Roots(group) ==
  LET roots == {e \in group : ~hasPath(e.url)}
  IN  {e \in roots : \A f \in roots : healthRank(e.health) =< healthRank(f.health)}

\* Mutant: a root without NIP-11 hides its path variants.
VariantsOfKnownRoot(group, root) ==
  {e \in group : hasPath(e.url) /\ hasNIP11(e)
                   /\ \A r \in root : hasNIP11(r) /\ e.info # r.info}

\* The path variants whose NIP-11 document tells them from the root.
DistinctVariants(group, root) ==
  {e \in group : hasPath(e.url) /\ hasNIP11(e) /\ \A r \in root : e.info # r.info}

BestVariants(group) ==
  {e \in group : \A f \in group : ~isBetterCandidate(f, e)}

\* Mutant: without a root and without NIP-11 nothing is kept.
GroupResultNoFallback(group, kept) ==
  \/ Cardinality(group) = 1 /\ kept = group
  \/ /\ Cardinality(group) > 1
     /\ \E r \in Roots(group) : kept = {r} \cup DistinctVariants(group, {r})
  \/ /\ Cardinality(group) > 1
     /\ Roots(group) = {}
     /\ kept = DistinctVariants(group, {})

\* kept is what deduplicateByHost may keep of the entries of one host.
GroupResult(group, kept) ==
  \/ Cardinality(group) = 1 /\ kept = group
  \/ /\ Cardinality(group) > 1
     /\ \E r \in Roots(group) : kept = {r} \cup DistinctVariants(group, {r})
  \/ /\ Cardinality(group) > 1
     /\ Roots(group) = {}
     /\ LET variants == DistinctVariants(group, {})
        IN  IF variants # {}
            THEN kept = variants
            ELSE \E best \in BestVariants(group) : kept = {best}

DedupResult(entries, kept) ==
  \A h \in {hostKey(e.url) : e \in entries} :
    GroupResult(Group(entries, h), Group(kept, h))
===============================================================================
