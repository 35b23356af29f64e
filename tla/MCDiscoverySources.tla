-------------------------- MODULE MCDiscoverySources --------------------------
(***************************************************************************)
(* Instances of DiscoverySources for TLC: one source, or two that meet, at *)
(* a time.                                                                 *)
(***************************************************************************)
EXTENDS DiscoverySources, TLC

CONSTANTS A, B      \* hosts

MCHostLen == [h \in {A, B} |-> IF h = A THEN 7 ELSE 4]

Plain(h) == [host |-> h, scheme |-> "wss", rootDot |-> FALSE, slashes |-> 0]
NoScheme(h) == [Plain(h) EXCEPT !.scheme = "none"]
Insecure(h) == [Plain(h) EXCEPT !.scheme = "ws"]

MCSeeds == {Plain(B)}
MCWhitelist == {Plain(A)}
MCFound == {Plain(A), Insecure(B), NoScheme(B)}
MCAdmin == {Plain(A), NoScheme(A)}

\* The list fetched once names two relays, so that the monitor's channel overflows.
\* Some sources find only what the coordinator discards: what they share with the
\* pipeline is the channel of discoveries, full or not.
MCOffers == [s \in Sources \ {"admin"} |->
               CASE s = "hosted once" -> {Plain(A), Insecure(B)}
                 [] s = "peers" -> {Plain(A)}
                 [] OTHER -> {NoScheme(B)}]

MCConfigurations ==
  {{"hosted once"}, {"hosted", "nip65"}, {"nip66"}, {"peers"}, {"admin"}}
=============================================================================
