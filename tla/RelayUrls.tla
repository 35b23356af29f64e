------------------------------ MODULE RelayUrls ------------------------------
(***************************************************************************)
(* The spellings of a relay URL that the discovery coordinator, the relay  *)
(* monitor and the admin interface tell apart, and the normalisation each  *)
(* of them applies.  The three normalisations differ, so one relay can be  *)
(* named differently in the persisted sets and in the monitor's map.       *)
(*                                                                         *)
(* A URL is abstracted to its host, its scheme prefix, whether the host    *)
(* ends in the DNS root dot, and its number of trailing slashes.           *)
(***************************************************************************)
EXTENDS Integers

CONSTANTS
  Hosts,        \* the relay hosts
  HostLen,      \* the number of characters of each host name
  MaxSlashes,   \* bound: the most trailing slashes a spelling has
  NoUrl         \* the empty string a normalisation gives up with

ASSUME UrlAssumption ==
  /\ HostLen \in [Hosts -> Nat]
  /\ MaxSlashes \in Nat

Schemes == {"wss", "ws", "none"}

Url == [host : Hosts, scheme : Schemes, rootDot : BOOLEAN, slashes : 0..MaxSlashes]

ASSUME NoUrlAssumption == NoUrl \notin Url

UrlLen(u) ==
  HostLen[u.host] + u.slashes
    + (IF u.rootDot THEN 1 ELSE 0)
    + (CASE u.scheme = "wss" -> 6 [] u.scheme = "ws" -> 5 [] OTHER -> 0)

\* strings.TrimSuffix(url, "/"): one slash, however many there are.
WithoutSlash(u) ==
  [u EXCEPT !.slashes = IF @ = 0 THEN 0 ELSE @ - 1]

\* The relay itself, whatever the trailing slashes of its spelling: the code has
\* no such function, the properties name a relay by it.
Bare(u) == [u EXCEPT !.slashes = 0]

(***************************************************************************)
(* discovery.normalizeRelayURL: too short a string is refused, a missing   *)
(* scheme becomes wss, one slash and the root dot are dropped.             *)
(***************************************************************************)
normalizeRelayURL(u) ==
  IF UrlLen(u) < 6
  THEN NoUrl
  ELSE [WithoutSlash(u) EXCEPT
          !.scheme = IF @ = "none" THEN "wss" ELSE @,
          !.rootDot = FALSE]

\* relay.normalizeURL: one slash is dropped, nothing else changes.
normalizeURL(u) == WithoutSlash(u)

\* admin.validateRelayURL: only ws:// and wss:// URLs are accepted in a body.
validRelayURL(u) == u.scheme # "none"

\* admin.reconstructRelayURL: a path segment is always read as a wss:// relay.
reconstructRelayURL(path) == [path EXCEPT !.scheme = "wss"]
=============================================================================
