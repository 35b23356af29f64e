------------------------- MODULE MCDiscoveryPipeline -------------------------
(***************************************************************************)
(* Instances of DiscoveryPipeline for TLC: two hosts, of which the sources *)
(* report several spellings.                                               *)
(***************************************************************************)
EXTENDS DiscoveryPipeline, TLC

CONSTANTS A, B      \* hosts

MCHostLen == [h \in {A, B} |-> IF h = A THEN 7 ELSE 4]

Plain(h) == [host |-> h, scheme |-> "wss", rootDot |-> FALSE, slashes |-> 0]
WithSlashes(h, n) == [Plain(h) EXCEPT !.slashes = n]
Dotted(h) == [Plain(h) EXCEPT !.rootDot = TRUE]
NoScheme(h) == [Plain(h) EXCEPT !.scheme = "none"]

\* One relay under spellings the two normalisations treat differently, and a
\* string too short to be a relay.
SafetySources == {WithSlashes(A, 2), Dotted(A), NoScheme(B)}
OneAdmin == {Plain(A)}
HandlerSymmetry == Permutations(Handlers)
=============================================================================
