----------------------------- MODULE MCPublisher -----------------------------
(***************************************************************************)
(* Instances of Publisher for TLC: one host, its root and a path variant,  *)
(* the latter under two spellings.                                         *)
(***************************************************************************)
EXTENDS Publisher, TLC

CONSTANTS H, P, F, I1, I2

Root == [host |-> H, path |-> NoPath, form |-> Canonical]
Variant(p) == [Root EXCEPT !.path = p]
Respelt(u) == [u EXCEPT !.form = F]

MCUrlLength ==
  [u \in Url |-> (IF u.path = NoPath THEN 10 ELSE 12) + (IF u.form = F THEN 4 ELSE 0)]

OneUrl == {Root}
TwoSpellings == {Root, Variant(P), Respelt(Variant(P))}

Up(i) == [health |-> "online", info |-> i]
Down == [health |-> "offline", info |-> NoInfo]

UpChanges == [u \in CachedUrls |-> {Up(I1), Up(I2)}]

\* The variant comes to share the document of the root, changes it, and goes down;
\* its other spelling is found with one of the two documents.
VariantChanges ==
  [u \in CachedUrls |->
     CASE u = Root -> {Up(I1)}
       [] u = Variant(P) -> {Up(I1), Up(I2), Down}
       [] OTHER -> {Up(I2)}]
==============================================================================
