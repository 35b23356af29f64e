---------------------------- MODULE MCUserLookups ----------------------------
(***************************************************************************)
(* Instances of UserLookups and RelayReviews for TLC: two seeds, a user    *)
(* who follows two keys, and a few states of what the relays hold.         *)
(***************************************************************************)
EXTENDS RelayReviews, TLC

CONSTANTS p1, p2, s1, s2, ra, rb

Tag(u, m) == [url |-> u, marker |-> m]
Event(n, tags) == [at |-> n, tags |-> tags]

Alike == [health |-> "online", latency |-> 120, nips |-> <<1, 46>>,
          country |-> "DE", auth |-> FALSE, payment |-> FALSE]
MCDirectory == [u \in Relays |-> Alike]
MCCriteria == {[nips |-> <<>>, region |-> "", limit |-> 2,
                excludeAuth |-> TRUE, excludePayment |-> FALSE]}

\* p1 writes to both relays and names one of them twice, in a list that one seed
\* alone holds; of p2 the seeds hold an older and a newer list.  With the newer
\* two follows write to ra, and one to rb, and each is named twice.
ListsOf == (p1 :> (s1 :> Event(1, <<Tag(ra, ""), Tag(rb, "write"), Tag(rb, "")>>)
                   @@ s2 :> None)
            @@ p2 :> (s1 :> Event(1, <<Tag(rb, "")>>)
                      @@ s2 :> Event(2, <<Tag(ra, "write"), Tag(rb, "read")>>)))

NoLists == [p \in Pubkeys |-> (s1 :> None @@ s2 :> None)]

Holding(c1, c2, lists, prefs, nip65) ==
  [contacts |-> (s1 :> c1 @@ s2 :> c2), lists |-> lists,
   prefs |-> prefs, nip65 |-> nip65]

\* A user of whom little is known, and a relay with reviews.
Reviewed == Holding(None, Event(1, <<p1>>), NoLists, <<>>, <<>>)

MCWorlds ==
  {Holding(None, Event(1, <<p1, p2, p1>>), ListsOf, <<Tag(ra, "")>>, <<Tag(rb, "")>>),
   Holding(Event(1, <<>>), Event(2, <<p2>>), ListsOf, <<>>, <<Tag(rb, "")>>),
   Holding(None, None, NoLists, <<>>, <<>>),
   Reviewed}

Rated(p, n, stars) == [by |-> p, at |-> n, rating |-> stars]

\* p1 gave a second rating on the other seed; the newer review of p2 has none.
MCReviews ==
  [w \in Worlds |->
     IF w = Reviewed
     THEN (s1 :> <<Rated(p1, 1, 5), Rated(p2, 2, 0)>> @@ s2 :> <<Rated(p1, 2, 3), Rated(p2, 1, 4)>>)
     ELSE (s1 :> <<>> @@ s2 :> <<>>)]
=============================================================================
