--------------------------- MODULE PublisherProofs ---------------------------
(***************************************************************************)
(* The types of the publish cycle, and that announced events survive until *)
(* the next full refresh whenever the refresh interval leaves room for it. *)
(***************************************************************************)
EXTENDS Publisher, TLAPS

Longest == IF PublishInterval > MaxCycle THEN PublishInterval ELSE MaxCycle

\* A refresh interval has room for a publish interval and two cycles.
RoomForCycles == Longest + 2 * MaxCycle =< RefreshInterval

\* The most time that passes until a full refresh has announced everything.
RefreshedWithin ==
  IF cycle.full
  THEN MaxCycle - cycle.took
  ELSE IF sinceFull < RefreshInterval
  THEN RefreshInterval - 1 - sinceFull + Longest + MaxCycle
  ELSE LET tick == IF ticker.due THEN 0 ELSE ticker.left
           rest == MaxCycle - cycle.took
       IN  IF cycle.pc = "idle" \/ tick >= rest
           THEN tick + MaxCycle
           ELSE rest + MaxCycle

\* A full refresh in progress has nothing left to send for this relay.
Refreshed(l) ==
  /\ cycle.pc = "send" /\ cycle.full
  /\ \A pair \in cycle.unsent :
        pair[1] = l[1] => canonicalizeRelayURL(pair[2].url) # l[2]

Left(l) == directory[l[1]][l[2]].left

CycleInv ==
  /\ cycle.pc = "start" => listed = {}
  /\ cycle.pc \in {"start", "idle"} => ~cycle.full
  /\ cycle.pc = "idle" => cycle.took = 0
  /\ cycle.pc = "send" => cycle.life + cycle.took >= EventLife

SurviveInv ==
  \A l \in listed :
    /\ directory[l[1]][l[2]] # None
    /\ IF Refreshed(l)
       THEN Left(l) + cycle.took >= EventLife
       ELSE Left(l) > RefreshedWithin

----------------------------------------------------------------------------
(* What the operators the actions are built from return. *)

LEMMA CanonicalType ==
  ASSUME NEW u \in Url
  PROVE  /\ canonicalizeRelayURL(u) \in CanonicalUrl
         /\ canonicalizeRelayURL(u).form = Canonical
BY DedupAssumption DEF canonicalizeRelayURL, CanonicalUrl, Url

LEMMA EventLifeNat == EventLife \in Nat \ {0} /\ StaleAfter \in Nat \ {0}
BY PublisherAssumption DEF EventLife, StaleAfter

LEMMA ElapseType ==
  ASSUME NEW event \in Event \cup {None}
  PROVE  Elapse(event) \in Event \cup {None}
<1>1. CASE event = None \/ event.left = 0
  BY <1>1 DEF Elapse
<1>2. CASE ~(event = None \/ event.left = 0)
  <2>1. event \in Event /\ event.left \in 1..EventLife
    BY <1>2, EventLifeNat DEF Event
  <2>2. event.left - 1 \in 0..EventLife
    BY <2>1, EventLifeNat
  <2> QED BY <1>2, <2>1, <2>2 DEF Elapse, Event
<1> QED BY <1>1, <1>2

LEMMA ElapseLeft ==
  ASSUME NEW event \in Event, event.left > 0
  PROVE  Elapse(event) # None /\ Elapse(event).left = event.left - 1
<1>1. event # None /\ event.left \in 0..EventLife /\ event.left # 0
  BY EventAssumption, EventLifeNat DEF Event
<1>2. Elapse(event) = [event EXCEPT !.left = event.left - 1]
  BY <1>1 DEF Elapse
<1>3. [event EXCEPT !.left = event.left - 1] \in Event
  BY <1>1, EventLifeNat DEF Event
<1> QED BY <1>1, <1>2, <1>3, EventAssumption DEF Event

LEMMA UpToType ==
  ASSUME NEW bound \in Nat, NEW clock \in 0..bound
  PROVE  UpTo(bound, clock) \in 0..bound
BY DEF UpTo

LEMMA IdleType ==
  /\ IdleCycle \in Cycle
  /\ [IdleCycle EXCEPT !.pc = "start"] \in Cycle
  /\ IdleCycle.unsent = {} /\ [IdleCycle EXCEPT !.pc = "start"].unsent = {}
<1>1. 0 \in 0..EventLife /\ 0 \in 0..MaxCycle
  BY EventLifeNat, PublisherAssumption
<1> QED BY <1>1 DEF IdleCycle, Cycle

----------------------------------------------------------------------------
(* The types are preserved. *)

LEMMA TypeInit == Init => TypeOK
<1> SUFFICES ASSUME Init PROVE TypeOK
  OBVIOUS
<1>1. cycle \in Cycle /\ cycle.unsent = {}
  BY IdleType DEF Init
<1>2. /\ sinceFull \in 0..RefreshInterval
      /\ sincePublish \in (0..StaleAfter) \cup {Never}
      /\ sinceCycle \in 0..StaleAfter
      /\ faults \in 0..MaxFaults
      /\ ticker \in [left : 1..PublishInterval, due : BOOLEAN]
  BY EventLifeNat, PublisherAssumption DEF Init
<1> QED BY <1>1, <1>2 DEF Init, TypeOK

LEMMA TypeCache == TypeOK /\ CacheChanges => TypeOK'
BY PublisherAssumption DEF TypeOK, Caches, CacheChanges

LEMMA TypeTime == TypeOK /\ TimePasses => TypeOK'
<1> SUFFICES ASSUME TypeOK, TimePasses PROVE TypeOK'
  OBVIOUS
<1>1. ticker' \in [left : 1..PublishInterval, due : BOOLEAN]
  BY PublisherAssumption DEF TypeOK, TimePasses
<1>2. sinceFull' \in 0..RefreshInterval
  BY UpToType, PublisherAssumption DEF TypeOK, TimePasses
<1>3. sincePublish' \in (0..StaleAfter) \cup {Never}
  BY UpToType, EventLifeNat DEF TypeOK, TimePasses
<1>4. sinceCycle' \in 0..StaleAfter
  BY UpToType, EventLifeNat DEF TypeOK, TimePasses
<1>5. cycle' \in Cycle /\ cycle'.unsent \subseteq PublishRelays \X cycle'.batch
  <2>1. CASE cycle.pc = "idle"
    BY <2>1 DEF TypeOK, TimePasses
  <2>2. CASE cycle.pc # "idle"
    <3> DEFINE life == IF cycle.life = 0 THEN 0 ELSE cycle.life - 1
    <3>1. cycle.took + 1 \in 0..MaxCycle
      BY <2>2, PublisherAssumption DEF TypeOK, TimePasses, Cycle
    <3>2. life \in 0..EventLife
      <4>1. cycle.life \in 0..EventLife
        BY DEF TypeOK, Cycle
      <4> QED BY <4>1, EventLifeNat
    <3>3. cycle' = [cycle EXCEPT !.took = cycle.took + 1, !.life = life]
      BY <2>2 DEF TypeOK, TimePasses, Cycle
    <3> HIDE DEF life
    <3> QED BY <3>1, <3>2, <3>3 DEF TypeOK, Cycle
  <2> QED BY <2>1, <2>2
<1>6. directory' \in [PublishRelays -> [CanonicalUrl -> Event \cup {None}]]
  BY ElapseType DEF TypeOK, TimePasses
<1> QED BY <1>1, <1>2, <1>3, <1>4, <1>5, <1>6 DEF TypeOK, TimePasses

LEMMA TypeBegin == TypeOK /\ BeginCycle => TypeOK'
<1> SUFFICES ASSUME TypeOK, BeginCycle PROVE TypeOK'
  OBVIOUS
<1>1. ticker' \in [left : 1..PublishInterval, due : BOOLEAN]
  BY DEF TypeOK, BeginCycle
<1>2. CASE Return /\ selected' = {} /\ listed' = {} /\ faults' \in 0..MaxFaults
  BY <1>1, <1>2, IdleType, EventLifeNat DEF TypeOK, BeginCycle, Return
<1>3. CASE /\ cycle' = [IdleCycle EXCEPT
                  !.pc = "read", !.full = needsFullRefresh,
                  !.todo = {u \in CachedUrls : cache[u] # None},
                  !.took = cycle.took]
           /\ UNCHANGED <<sinceFull, sincePublish, faults, sinceCycle, selected, listed>>
  <2>1. needsFullRefresh \in BOOLEAN /\ cycle.took \in 0..MaxCycle
    BY DEF needsFullRefresh, TypeOK, Cycle
  <2>2. cycle' \in Cycle /\ cycle'.unsent = {}
    BY <1>3, <2>1, IdleType DEF IdleCycle, Cycle
  <2> QED BY <1>1, <1>3, <2>2 DEF TypeOK, BeginCycle
<1>4. \/ Return /\ selected' = {} /\ listed' = {} /\ faults' \in 0..MaxFaults
      \/ /\ cycle' = [IdleCycle EXCEPT
                  !.pc = "read", !.full = needsFullRefresh,
                  !.todo = {u \in CachedUrls : cache[u] # None},
                  !.took = cycle.took]
         /\ UNCHANGED <<sinceFull, sincePublish, faults, sinceCycle, selected, listed>>
  BY PublisherAssumption DEF TypeOK, BeginCycle
<1> QED BY <1>2, <1>3, <1>4

LEMMA TypeRead ==
  ASSUME TypeOK, NEW u \in CachedUrls, ReadEntry(u)
  PROVE  TypeOK'
<1>1. faults' \in 0..MaxFaults
  BY PublisherAssumption DEF TypeOK, ReadEntry
<1>2. cache[u] # None
        => [url |-> u, health |-> cache[u].health, info |-> cache[u].info] \in Entry
  <2> SUFFICES ASSUME cache[u] # None
               PROVE  [url |-> u, health |-> cache[u].health,
                       info |-> cache[u].info] \in Entry
    OBVIOUS
  <2>1. cache[u] \in [health : Healths, info : Infos \cup {NoInfo}]
    BY DEF TypeOK, Caches, Content
  <2> QED BY <2>1, PublisherAssumption DEF Entry
<1>3. cycle' \in Cycle /\ cycle'.unsent \subseteq PublishRelays \X cycle'.batch
  <2>1. cycle.todo \ {u} \in SUBSET CachedUrls
    BY DEF TypeOK, Cycle
  <2>2. CASE cycle' = [cycle EXCEPT !.todo = cycle.todo \ {u}]
    BY <2>1, <2>2 DEF TypeOK, Cycle
  <2>3. CASE /\ cache[u] # None
             /\ cycle' = [cycle EXCEPT
                   !.todo = cycle.todo \ {u},
                   !.read = cycle.read \cup
                     {[url |-> u, health |-> cache[u].health, info |-> cache[u].info]}]
    BY <1>2, <2>1, <2>3 DEF TypeOK, Cycle
  <2> QED BY <2>2, <2>3 DEF ReadEntry, TypeOK, Cycle
<1> QED BY <1>1, <1>3 DEF TypeOK, ReadEntry

LEMMA TypeSelect == TypeOK /\ Select => TypeOK'
<1> SUFFICES ASSUME TypeOK, Select PROVE TypeOK'
  OBVIOUS
<1> DEFINE Active(kept) == {canonicalizeRelayURL(e.url) : e \in kept}
           Announced(kept) == {e \in kept : ~(SkipOffline /\ e.health = "offline")}
           Batch(kept) == {e \in Announced(kept) : cycle.full \/ changed(e)}
<1>1. PICK kept \in SUBSET cycle.read :
        /\ hashes' = [c \in CanonicalUrl |->
                        IF c \in Active(kept) THEN hashes[c] ELSE None]
        /\ selected' = Announced(kept)
        /\ listed' \subseteq listed
        /\ \/ Return
           \/ /\ cycle' = [cycle EXCEPT
                      !.pc = "send", !.read = {}, !.batch = Batch(kept),
                      !.unsent = PublishRelays \X Batch(kept), !.life = EventLife]
              /\ UNCHANGED <<sinceFull, sincePublish, sinceCycle>>
  BY DEF Select
<1>2. kept \subseteq Entry /\ Batch(kept) \subseteq Entry
  BY DEF TypeOK, Cycle
<1>3. /\ hashes' \in [CanonicalUrl -> Entry \cup {None}]
      /\ \A c \in CanonicalUrl :
            hashes'[c] # None => canonicalizeRelayURL(hashes'[c].url) = c
  BY <1>1 DEF TypeOK
<1>4. CASE Return
  <2>1. cycle' \in Cycle /\ cycle'.unsent = {} /\ sinceCycle' \in 0..StaleAfter
    BY <1>4, IdleType, EventLifeNat DEF Return
  <2>2. selected' \subseteq Entry /\ listed' \subseteq PublishRelays \X CanonicalUrl
    BY <1>1, <1>2 DEF TypeOK
  <2> QED BY <1>3, <1>4, <2>1, <2>2 DEF TypeOK, Select, Return
<1>5. CASE /\ cycle' = [cycle EXCEPT
                  !.pc = "send", !.read = {}, !.batch = Batch(kept),
                  !.unsent = PublishRelays \X Batch(kept), !.life = EventLife]
           /\ UNCHANGED <<sinceFull, sincePublish, sinceCycle>>
  <2> HIDE DEF Batch
  <2>1. EventLife \in 0..EventLife /\ PublishRelays \X Batch(kept) \subseteq PublishRelays \X Entry
    BY <1>2, EventLifeNat
  <2>2. cycle' \in Cycle /\ cycle'.unsent \subseteq PublishRelays \X cycle'.batch
    BY <1>2, <1>5, <2>1 DEF TypeOK, Cycle
  <2>3. selected' \subseteq Entry /\ listed' \subseteq PublishRelays \X CanonicalUrl
    BY <1>1, <1>2 DEF TypeOK
  <2> QED BY <1>3, <1>5, <2>2, <2>3 DEF TypeOK, Select
<1> QED BY <1>1, <1>4, <1>5

LEMMA TypePublish ==
  ASSUME TypeOK, NEW pair \in cycle.unsent, PublishEvent(pair[1], pair[2])
  PROVE  TypeOK'
<1> DEFINE r == pair[1]
           e == pair[2]
           c == canonicalizeRelayURL(e.url)
<1>1. r \in PublishRelays /\ e \in Entry /\ pair = <<r, e>>
  BY DEF TypeOK, Cycle
<1>2. c \in CanonicalUrl
  BY <1>1, CanonicalType DEF Entry
<1>3. [entry |-> e, left |-> cycle.life] \in Event
  BY <1>1 DEF TypeOK, Cycle, Event
<1>4. directory' \in [PublishRelays -> [CanonicalUrl -> Event \cup {None}]]
  <2> HIDE DEF r, e, c
  <2>1. \/ directory' = directory
        \/ directory' = [directory EXCEPT ![r][c] = [entry |-> e, left |-> cycle.life]]
    BY DEF PublishEvent, r, e, c
  <2> QED BY <1>1, <1>2, <1>3, <2>1 DEF TypeOK
<1>5. listed' \subseteq PublishRelays \X CanonicalUrl /\ faults' \in 0..MaxFaults
  BY <1>1, <1>2, PublisherAssumption DEF TypeOK, PublishEvent
<1>6. cycle' \in Cycle /\ cycle'.unsent \subseteq PublishRelays \X cycle'.batch
  BY DEF TypeOK, PublishEvent, Cycle
<1> QED BY <1>4, <1>5, <1>6 DEF TypeOK, PublishEvent

LEMMA TypeDrop ==
  ASSUME TypeOK, NEW r \in PublishRelays, DropRelay(r)
  PROVE  TypeOK'
<1>1. cycle' \in Cycle /\ cycle'.unsent \subseteq PublishRelays \X cycle'.batch
  BY DEF TypeOK, DropRelay, Cycle
<1>2. listed' \subseteq PublishRelays \X CanonicalUrl /\ faults' \in 0..MaxFaults
  BY PublisherAssumption DEF TypeOK, DropRelay
<1> QED BY <1>1, <1>2 DEF TypeOK, DropRelay

LEMMA TypeEnd == TypeOK /\ EndCycle => TypeOK'
<1> SUFFICES ASSUME TypeOK, EndCycle PROVE TypeOK'
  OBVIOUS
<1>1. PICK rec \in [{canonicalizeRelayURL(e.url) : e \in cycle.batch} -> cycle.batch] :
        /\ \A c \in DOMAIN rec : canonicalizeRelayURL(rec[c].url) = c
        /\ hashes' = [c \in CanonicalUrl |->
                        IF c \in DOMAIN rec THEN rec[c] ELSE hashes[c]]
  BY DEF EndCycle
<1>2. /\ hashes' \in [CanonicalUrl -> Entry \cup {None}]
      /\ \A c \in CanonicalUrl :
            hashes'[c] # None => canonicalizeRelayURL(hashes'[c].url) = c
  BY <1>1 DEF TypeOK, Cycle
<1>3. sinceFull' \in 0..RefreshInterval
  BY PublisherAssumption DEF TypeOK, EndCycle
<1>4. cycle' \in Cycle /\ cycle'.unsent = {}
  BY IdleType DEF EndCycle
<1> QED BY <1>2, <1>3, <1>4, EventLifeNat DEF TypeOK, EndCycle

LEMMA TypeRestart == TypeOK /\ Restart => TypeOK'
<1> SUFFICES ASSUME TypeOK, Restart PROVE TypeOK'
  OBVIOUS
<1>1. cycle' \in Cycle /\ cycle'.unsent = {}
  BY IdleType DEF Restart
<1>2. /\ sinceFull' \in 0..RefreshInterval
      /\ sincePublish' \in (0..StaleAfter) \cup {Never}
      /\ sinceCycle' \in 0..StaleAfter
      /\ faults' \in 0..MaxFaults
      /\ ticker' \in [left : 1..PublishInterval, due : BOOLEAN]
  BY EventLifeNat, PublisherAssumption DEF TypeOK, Restart
<1> QED BY <1>1, <1>2 DEF TypeOK, Restart

LEMMA TypeStep == TypeOK /\ [Next]_vars => TypeOK'
<1>1. TypeOK /\ UNCHANGED vars => TypeOK'
  BY DEF TypeOK, vars
<1> QED
  BY <1>1, TypeCache, TypeTime, TypeBegin, TypeRead, TypeSelect, TypePublish,
     TypeDrop, TypeEnd, TypeRestart DEF Next, CycleStep

\* The publish cycle keeps its types: the hash of a relay is always one of an
\* entry of that relay, and what is left to send belongs to the batch.
THEOREM PublisherTypeCorrect == Spec => []TypeOK
BY TypeInit, TypeStep, PTL DEF Spec
----------------------------------------------------------------------------
(***************************************************************************)
(* Announced events survive.  The invariant bounds, for each event, the    *)
(* time until a full refresh has replaced it: the event must last longer.  *)
(***************************************************************************)

\* The arithmetic of the intervals.
LEMMA Room ==
  ASSUME RoomForCycles
  PROVE  /\ PublishInterval \in Nat \ {0} /\ MaxCycle \in Nat /\ Longest \in Nat
         /\ RefreshInterval \in Nat \ {0}
         /\ PublishInterval =< Longest /\ MaxCycle =< Longest
         /\ Longest + 2 * MaxCycle =< RefreshInterval
         /\ EventLife = 2 * RefreshInterval
<1>1. /\ Longest \in Nat \ {0} /\ PublishInterval =< Longest /\ MaxCycle =< Longest
      /\ Longest + 2 * MaxCycle =< RefreshInterval
  BY PublisherAssumption DEF RoomForCycles, Longest
<1>2. RefreshInterval \in Nat \ {0}
  BY <1>1, PublisherAssumption
<1> QED BY <1>1, <1>2, PublisherAssumption DEF EventLife

LEMMA CycleFields ==
  ASSUME TypeOK
  PROVE  /\ cycle.took \in 0..MaxCycle /\ cycle.life \in 0..EventLife
         /\ cycle.full \in BOOLEAN /\ cycle.pc \in {"start", "idle", "read", "send"}
         /\ sinceFull \in 0..RefreshInterval
         /\ ticker.left \in 1..PublishInterval /\ ticker.due \in BOOLEAN
BY DEF TypeOK, Cycle

LEMMA ListedFields ==
  ASSUME TypeOK, NEW l \in listed
  PROVE  /\ l[1] \in PublishRelays /\ l[2] \in CanonicalUrl /\ l = <<l[1], l[2]>>
         /\ directory[l[1]][l[2]] # None =>
              /\ Left(l) \in 0..EventLife
              /\ directory[l[1]][l[2]] \in Event
<1>1. l[1] \in PublishRelays /\ l[2] \in CanonicalUrl /\ l = <<l[1], l[2]>>
  BY DEF TypeOK
<1>2. directory[l[1]][l[2]] \in Event \cup {None}
  BY <1>1 DEF TypeOK
<1> QED BY <1>1, <1>2 DEF Left, Event

\* An event sent in this cycle outlasts the wait for the next full refresh.
LEMMA FreshEnough ==
  ASSUME TypeOK, RoomForCycles
  PROVE  /\ RefreshedWithin \in Nat
         /\ RefreshedWithin + cycle.took < EventLife
BY CycleFields, Room DEF RefreshedWithin

LEMMA SurvivesNow ==
  ASSUME TypeOK, RoomForCycles, SurviveInv
  PROVE  EventsSurvive
<1> SUFFICES ASSUME NEW l \in listed PROVE Left(l) > 0
  BY DEF EventsSurvive, Left
<1>1. Left(l) \in Nat
  BY ListedFields, EventLifeNat DEF SurviveInv
<1> QED
  BY <1>1, FreshEnough, CycleFields, Room DEF SurviveInv

----------------------------------------------------------------------------
(* The bookkeeping of the cycle. *)

LEMMA BeginStep ==
  ASSUME TypeOK, BeginCycle
  PROVE  /\ directory' = directory
         /\ \/ cycle.pc = "start"
            \/ cycle.pc = "idle" /\ ticker.due
         /\ \/ cycle' = IdleCycle /\ listed' = {}
            \/ /\ cycle'.pc = "read" /\ cycle'.full = (sinceFull >= RefreshInterval)
               /\ cycle'.took = cycle.took
               /\ listed' = listed /\ sinceFull' = sinceFull
<1> DEFINE urls == {u \in CachedUrls : cache[u] # None}
           Started == [IdleCycle EXCEPT !.pc = "read", !.full = needsFullRefresh,
                                        !.todo = urls, !.took = cycle.took]
<1>1. \/ cycle' = IdleCycle /\ listed' = {}
      \/ cycle' = Started /\ listed' = listed /\ sinceFull' = sinceFull
  BY DEF BeginCycle, Return
<1>2. /\ Started.pc = "read" /\ Started.full = (sinceFull >= RefreshInterval)
      /\ Started.took = cycle.took
  BY DEF IdleCycle, needsFullRefresh
<1>3. /\ directory' = directory
      /\ cycle.pc = "start" \/ (cycle.pc = "idle" /\ ticker.due)
  BY DEF BeginCycle
<1> HIDE DEF Started
<1> QED BY <1>1, <1>2, <1>3

LEMMA SelectStep ==
  ASSUME TypeOK, Select
  PROVE  /\ cycle.pc = "read" /\ directory' = directory /\ sinceFull' = sinceFull
         /\ ticker' = ticker
         /\ \E announced \in SUBSET Entry :
              /\ \A l \in listed' : /\ l \in listed
                                    /\ \E e \in announced :
                                         l[2] = canonicalizeRelayURL(e.url)
              /\ \/ cycle' = IdleCycle /\ (cycle.full => announced = {})
                 \/ \E batch \in SUBSET announced :
                      /\ cycle.full => batch = announced
                      /\ cycle'.pc = "send" /\ cycle'.full = cycle.full
                      /\ cycle'.took = cycle.took /\ cycle'.life = EventLife
                      /\ cycle'.unsent = PublishRelays \X batch
<1>1. PICK kept \in SUBSET cycle.read :
        LET announced == {e \in kept : ~(SkipOffline /\ e.health = "offline")}
            batch == {e \in announced : cycle.full \/ changed(e)}
        IN  /\ listed' = {l \in listed : \E e \in announced :
                            l[2] = canonicalizeRelayURL(e.url)}
            /\ \/ batch = {} /\ cycle' = IdleCycle
               \/ cycle' = [cycle EXCEPT
                     !.pc = "send", !.read = {}, !.batch = batch,
                     !.unsent = PublishRelays \X batch, !.life = EventLife]
  BY DEF Select, Return
<1> DEFINE announced == {e \in kept : ~(SkipOffline /\ e.health = "offline")}
           batch == {e \in announced : cycle.full \/ changed(e)}
<1>2. announced \in SUBSET Entry /\ batch \in SUBSET announced
  BY DEF TypeOK, Cycle
<1>3. cycle.full => batch = announced
  OBVIOUS
<1>4. \A l \in listed' : /\ l \in listed
                         /\ \E e \in announced : l[2] = canonicalizeRelayURL(e.url)
  BY <1>1
<1>5. \/ batch = {} /\ cycle' = IdleCycle
      \/ cycle' = [cycle EXCEPT
            !.pc = "send", !.read = {}, !.batch = batch,
            !.unsent = PublishRelays \X batch, !.life = EventLife]
  BY <1>1
<1> HIDE DEF announced, batch
<1>6. \/ batch = {} /\ cycle' = IdleCycle
      \/ /\ cycle'.pc = "send" /\ cycle'.full = cycle.full
         /\ cycle'.took = cycle.took /\ cycle'.life = EventLife
         /\ cycle'.unsent = PublishRelays \X batch
  BY <1>5 DEF TypeOK, Cycle
<1>7. /\ cycle.pc = "read" /\ directory' = directory /\ sinceFull' = sinceFull
      /\ ticker' = ticker
  BY DEF Select, Return
<1> QED BY <1>2, <1>3, <1>4, <1>6, <1>7

LEMMA CycleInit == Init => CycleInv
BY DEF Init, CycleInv, IdleCycle

LEMMA CycleInvStep == TypeOK /\ CycleInv /\ [Next]_vars => CycleInv'
<1> SUFFICES ASSUME TypeOK, CycleInv, [Next]_vars PROVE CycleInv'
  OBVIOUS
<1>1. CASE UNCHANGED vars
  BY <1>1 DEF CycleInv, vars
<1>2. CASE CacheChanges
  BY <1>2 DEF CycleInv, CacheChanges
<1>3. CASE TimePasses
  <2>1. CASE cycle.pc = "idle"
    BY <1>3, <2>1 DEF CycleInv, TimePasses
  <2>2. CASE cycle.pc # "idle"
    <3> DEFINE life == IF cycle.life = 0 THEN 0 ELSE cycle.life - 1
    <3>1. /\ cycle'.pc = cycle.pc /\ cycle'.full = cycle.full
          /\ cycle'.life = life /\ cycle'.took = cycle.took + 1
          /\ listed' = listed
      BY <1>3, <2>2 DEF TimePasses, TypeOK, Cycle
    <3>2. life + (cycle.took + 1) >= cycle.life + cycle.took
      BY CycleFields, EventLifeNat, PublisherAssumption
    <3>3. cycle.pc = "send" => life + (cycle.took + 1) >= EventLife
      BY <3>2, CycleFields, EventLifeNat, PublisherAssumption DEF CycleInv
    <3> QED BY <2>2, <3>1, <3>3 DEF CycleInv
  <2> QED BY <2>1, <2>2
<1>4. CASE BeginCycle
  BY <1>4, BeginStep DEF CycleInv, IdleCycle
<1>5. ASSUME NEW u \in CachedUrls, ReadEntry(u) PROVE CycleInv'
  BY <1>5 DEF CycleInv, ReadEntry, TypeOK, Cycle
<1>6. CASE Select
  <2>1. CASE cycle' = IdleCycle
    BY <2>1 DEF CycleInv, IdleCycle
  <2>2. CASE /\ cycle'.pc = "send" /\ cycle'.life = EventLife
             /\ cycle'.took = cycle.took
    BY <2>2, CycleFields, EventLifeNat, PublisherAssumption DEF CycleInv
  <2>3. \/ cycle' = IdleCycle
        \/ /\ cycle'.pc = "send" /\ cycle'.life = EventLife
           /\ cycle'.took = cycle.took
    BY <1>6, SelectStep
  <2> QED BY <2>1, <2>2, <2>3
<1>7. ASSUME NEW pair \in cycle.unsent, PublishEvent(pair[1], pair[2])
      PROVE  CycleInv'
  BY <1>7 DEF CycleInv, PublishEvent, TypeOK, Cycle
<1>8. ASSUME NEW r \in PublishRelays, DropRelay(r) PROVE CycleInv'
  BY <1>8 DEF CycleInv, DropRelay, TypeOK, Cycle
<1>9. CASE EndCycle
  BY <1>9 DEF CycleInv, EndCycle, IdleCycle
<1>10. CASE Restart
  BY <1>10 DEF CycleInv, Restart, IdleCycle
<1> QED
  BY <1>1, <1>2, <1>3, <1>4, <1>5, <1>6, <1>7, <1>8, <1>9, <1>10
     DEF Next, CycleStep

----------------------------------------------------------------------------
(* Each action keeps the events ahead of the next full refresh. *)

LEMMA SurviveTime ==
  ASSUME TypeOK, RoomForCycles, CycleInv, SurviveInv, TimePasses, TypeOK'
  PROVE  SurviveInv'
<1> SUFFICES ASSUME NEW l \in listed'
             PROVE  /\ directory'[l[1]][l[2]] # None
                    /\ IF Refreshed(l)'
                       THEN Left(l)' + cycle'.took >= EventLife
                       ELSE Left(l)' > RefreshedWithin'
  BY DEF SurviveInv, Left, Refreshed
<1>1. l \in listed /\ directory[l[1]][l[2]] # None
  BY DEF TimePasses, SurviveInv
<1>2. Left(l) \in Nat /\ Left(l) > 0 /\ directory[l[1]][l[2]] \in Event
  BY <1>1, ListedFields, SurvivesNow, EventLifeNat DEF EventsSurvive, Left
<1>3. directory'[l[1]][l[2]] = Elapse(directory[l[1]][l[2]])
  BY <1>1, ListedFields DEF TimePasses
<1>4. Left(l)' = Left(l) - 1 /\ directory'[l[1]][l[2]] # None
  BY <1>2, <1>3, ElapseLeft DEF Left
<1>5. /\ sinceFull' = UpTo(RefreshInterval, sinceFull)
      /\ ticker' = IF ticker.left = 1
                   THEN [left |-> PublishInterval, due |-> TRUE]
                   ELSE [ticker EXCEPT !.left = @ - 1]
  BY DEF TimePasses
<1>6. /\ ticker.left = 1 => ticker'.due
      /\ ticker.left # 1 => ticker'.left = ticker.left - 1 /\ ticker'.due = ticker.due
  BY <1>5 DEF TypeOK
<1> DEFINE tick == IF ticker.due THEN 0 ELSE ticker.left
           tick2 == IF ticker'.due THEN 0 ELSE ticker'.left
<1>7. /\ tick \in 0..PublishInterval
      /\ tick2 = (IF tick = 0 THEN 0 ELSE tick - 1)
      /\ tick2 \in Nat /\ tick2 < PublishInterval
  BY <1>6, CycleFields, Room
<1>8. CASE cycle.pc = "idle"
  <2>1. /\ ~ticker.due /\ cycle' = cycle /\ cycle.took = 0 /\ ~cycle.full
        /\ ~Refreshed(l) /\ ~Refreshed(l)'
    BY <1>8 DEF TimePasses, CycleInv, Refreshed
  <2>2. RefreshedWithin = IF sinceFull < RefreshInterval
                          THEN RefreshInterval - 1 - sinceFull + Longest + MaxCycle
                          ELSE tick + MaxCycle
    BY <1>8, <2>1 DEF RefreshedWithin
  <2>3. RefreshedWithin' = IF sinceFull' < RefreshInterval
                           THEN RefreshInterval - 1 - sinceFull' + Longest + MaxCycle
                           ELSE tick2 + MaxCycle
    BY <1>8, <2>1 DEF RefreshedWithin
  <2>4. tick > 0
    BY <2>1, CycleFields, Room
  <2>5. RefreshedWithin' \in Nat /\ RefreshedWithin' < RefreshedWithin
    <3> HIDE DEF tick, tick2
    <3> QED BY <1>5, <1>7, <2>2, <2>3, <2>4, CycleFields, Room DEF UpTo
  <2> QED BY <1>1, <1>2, <1>4, <2>1, <2>5, FreshEnough DEF SurviveInv
<1>9. CASE cycle.pc # "idle"
  <2>1. /\ cycle'.pc = cycle.pc /\ cycle'.full = cycle.full
        /\ cycle'.unsent = cycle.unsent /\ cycle'.took = cycle.took + 1
        /\ cycle.took < MaxCycle
    BY <1>9 DEF TimePasses, TypeOK, Cycle
  <2>2. Refreshed(l)' = Refreshed(l)
    BY <2>1 DEF Refreshed
  <2>3. CASE Refreshed(l)
    BY <1>1, <1>2, <1>4, <2>1, <2>2, <2>3, CycleFields, Room DEF SurviveInv
  <2>4. CASE ~Refreshed(l)
    <3> DEFINE rest == MaxCycle - cycle.took
    <3>1. RefreshedWithin =
            IF cycle.full THEN rest
            ELSE IF sinceFull < RefreshInterval
            THEN RefreshInterval - 1 - sinceFull + Longest + MaxCycle
            ELSE IF tick >= rest THEN tick + MaxCycle ELSE rest + MaxCycle
      BY <1>9 DEF RefreshedWithin
    <3>2. RefreshedWithin' =
            IF cycle.full THEN rest - 1
            ELSE IF sinceFull' < RefreshInterval
            THEN RefreshInterval - 1 - sinceFull' + Longest + MaxCycle
            ELSE IF tick2 >= rest - 1 THEN tick2 + MaxCycle ELSE rest - 1 + MaxCycle
      <4>1. MaxCycle - cycle'.took = rest - 1
        BY <2>1, CycleFields, Room
      <4> QED BY <1>9, <2>1, <4>1 DEF RefreshedWithin
    <3>3. rest \in 1..MaxCycle
      BY <2>1, CycleFields, Room
    <3>4. RefreshedWithin' \in Nat /\ RefreshedWithin' < RefreshedWithin
      <4> HIDE DEF tick, tick2, rest
      <4> QED BY <1>5, <1>7, <3>1, <3>2, <3>3, CycleFields, Room DEF UpTo
    <3> QED BY <1>1, <1>2, <1>4, <2>2, <2>4, <3>4, FreshEnough DEF SurviveInv
  <2> QED BY <2>3, <2>4
<1> QED BY <1>4, <1>8, <1>9

LEMMA SurviveBegin ==
  ASSUME TypeOK, RoomForCycles, CycleInv, SurviveInv, BeginCycle
  PROVE  SurviveInv'
<1>1. CASE listed' = {}
  BY <1>1 DEF SurviveInv
<1>2. CASE /\ cycle'.pc = "read" /\ cycle'.full = (sinceFull >= RefreshInterval)
           /\ cycle'.took = cycle.took
           /\ listed' = listed /\ sinceFull' = sinceFull
  <2> SUFFICES ASSUME listed # {} PROVE SurviveInv'
    BY <1>2 DEF SurviveInv
  <2>1. /\ cycle.pc = "idle" /\ ticker.due /\ cycle.took = 0 /\ ~cycle.full
        /\ directory' = directory
    BY BeginStep DEF CycleInv
  <2>2. RefreshedWithin' = RefreshedWithin
    <3>1. CASE sinceFull < RefreshInterval
      BY <1>2, <2>1, <3>1, CycleFields, Room DEF RefreshedWithin
    <3>2. CASE sinceFull = RefreshInterval
      <4>1. RefreshedWithin = MaxCycle
        BY <2>1, <3>2, CycleFields, Room DEF RefreshedWithin
      <4>2. sinceFull >= RefreshInterval
        BY <3>2, Room
      <4>3. cycle'.full
        BY <1>2, <4>2
      <4>4. RefreshedWithin' = MaxCycle
        BY <1>2, <2>1, <4>3, Room DEF RefreshedWithin
      <4> QED BY <4>1, <4>4
    <3> QED BY <3>1, <3>2, CycleFields, Room
  <2>3. \A l \in listed : ~Refreshed(l) /\ ~Refreshed(l)'
    BY <1>2, <2>1 DEF Refreshed
  <2> QED BY <1>2, <2>1, <2>2, <2>3 DEF SurviveInv, Left
<1> QED BY <1>1, <1>2, BeginStep

\* The cycle that returns to idle without a full refresh leaves the bound as it
\* was, or lowers it: only the wait for the next tick remains.
LEMMA IdleSooner ==
  ASSUME TypeOK, RoomForCycles, ~cycle.full, cycle' = IdleCycle,
         sinceFull' = sinceFull, ticker' = ticker
  PROVE  RefreshedWithin' \in Nat /\ RefreshedWithin' =< RefreshedWithin
<1>1. cycle'.pc = "idle" /\ ~cycle'.full
  BY DEF IdleCycle
<1> QED BY <1>1, CycleFields, Room DEF RefreshedWithin

LEMMA SurviveSelect ==
  ASSUME TypeOK, RoomForCycles, CycleInv, SurviveInv, Select
  PROVE  SurviveInv'
<1>1. PICK announced \in SUBSET Entry :
        /\ \A l \in listed' : /\ l \in listed
                              /\ \E e \in announced :
                                   l[2] = canonicalizeRelayURL(e.url)
        /\ \/ cycle' = IdleCycle /\ (cycle.full => announced = {})
           \/ \E batch \in SUBSET announced :
                /\ cycle.full => batch = announced
                /\ cycle'.pc = "send" /\ cycle'.full = cycle.full
                /\ cycle'.took = cycle.took /\ cycle'.life = EventLife
                /\ cycle'.unsent = PublishRelays \X batch
  BY SelectStep
<1>2. /\ cycle.pc = "read" /\ directory' = directory /\ sinceFull' = sinceFull
      /\ ticker' = ticker
  BY SelectStep
<1>3. ASSUME NEW l \in listed'
      PROVE  /\ directory[l[1]][l[2]] # None /\ Left(l)' = Left(l)
             /\ Left(l) \in Nat /\ Left(l) > RefreshedWithin
  BY <1>1, <1>2, <1>3, ListedFields, EventLifeNat DEF SurviveInv, Refreshed, Left
<1>4. CASE cycle' = IdleCycle /\ (cycle.full => announced = {})
  <2> SUFFICES ASSUME ~cycle.full PROVE SurviveInv'
    BY <1>1, <1>4 DEF SurviveInv
  <2>1. RefreshedWithin' \in Nat /\ RefreshedWithin' =< RefreshedWithin
    BY <1>2, <1>4, IdleSooner
  <2>2. \A l \in listed' : ~Refreshed(l)'
    BY <1>4 DEF Refreshed, IdleCycle
  <2> QED BY <1>2, <1>3, <2>1, <2>2, FreshEnough DEF SurviveInv
<1>5. ASSUME NEW batch \in SUBSET announced,
             cycle.full => batch = announced,
             cycle'.pc = "send", cycle'.full = cycle.full,
             cycle'.took = cycle.took, cycle'.unsent = PublishRelays \X batch
      PROVE  SurviveInv'
  <2>1. RefreshedWithin' = RefreshedWithin
    BY <1>2, <1>5 DEF RefreshedWithin
  <2>2. ASSUME NEW l \in listed' PROVE ~Refreshed(l)'
    <3> SUFFICES ASSUME cycle.full PROVE ~Refreshed(l)'
      BY <1>5 DEF Refreshed
    <3>1. PICK e \in batch : l[2] = canonicalizeRelayURL(e.url)
      BY <1>1, <1>5
    <3>2. l[1] \in PublishRelays
      BY <1>1, ListedFields
    <3>3. <<l[1], e>> \in cycle'.unsent
      BY <1>5, <3>2
    <3> QED BY <3>1, <3>3 DEF Refreshed
  <2> QED BY <1>2, <1>3, <2>1, <2>2 DEF SurviveInv
<1> QED BY <1>1, <1>4, <1>5

LEMMA SurvivePublish ==
  ASSUME TypeOK, RoomForCycles, CycleInv, SurviveInv,
         NEW pair \in cycle.unsent, PublishEvent(pair[1], pair[2])
  PROVE  SurviveInv'
<1> DEFINE r == pair[1]
           e == pair[2]
           c == canonicalizeRelayURL(e.url)
<1>1. r \in PublishRelays /\ e \in Entry /\ pair = <<r, e>> /\ c \in CanonicalUrl
  BY CanonicalType DEF TypeOK, Cycle, Entry
<1>2. /\ cycle.pc = "send" /\ cycle'.pc = "send" /\ cycle'.full = cycle.full
      /\ cycle'.took = cycle.took /\ cycle'.unsent = cycle.unsent \ {<<r, e>>}
      /\ sinceFull' = sinceFull /\ ticker' = ticker
  BY DEF PublishEvent, TypeOK, Cycle
<1>3. \/ /\ directory' = [directory EXCEPT ![r][c] =
                            [entry |-> e, left |-> cycle.life]]
         /\ listed' = listed \cup {<<r, c>>}
      \/ listed' = listed \ {<<r, c>>} /\ directory' = directory
  BY DEF PublishEvent
<1>4. RefreshedWithin' = RefreshedWithin
  BY <1>2 DEF RefreshedWithin
<1> HIDE DEF r, e, c
<1>5. ASSUME NEW l \in listed, l # <<r, c>>
      PROVE  /\ directory'[l[1]][l[2]] # None
             /\ IF Refreshed(l)' THEN Left(l)' + cycle'.took >= EventLife
                ELSE Left(l)' > RefreshedWithin'
  <2>1. l = <<l[1], l[2]>> /\ l[1] \in PublishRelays /\ l[2] \in CanonicalUrl
    BY ListedFields
  <2>2. l[1] # r \/ l[2] # c
    BY <1>5, <2>1
  <2>3. directory'[l[1]][l[2]] = directory[l[1]][l[2]]
    BY <1>1, <1>3, <2>1, <2>2 DEF TypeOK
  <2>4. Refreshed(l)' = Refreshed(l)
    BY <1>1, <1>2, <2>2 DEF Refreshed, c
  <2> QED BY <1>2, <1>4, <2>3, <2>4 DEF SurviveInv, Left
<1>6. CASE directory' = [directory EXCEPT ![r][c] = [entry |-> e, left |-> cycle.life]]
  <2> DEFINE l == <<r, c>>
  <2>1. directory'[l[1]][l[2]] = [entry |-> e, left |-> cycle.life]
    BY <1>1, <1>6 DEF TypeOK
  <2>2. directory'[l[1]][l[2]] # None
    BY <1>1, <2>1, CycleFields, EventAssumption DEF Event
  <2>3. Left(l)' = cycle.life /\ cycle.life + cycle.took >= EventLife
    BY <1>2, <2>1 DEF Left, CycleInv
  <2>4. Left(l)' > RefreshedWithin'
    BY <1>4, <2>3, FreshEnough, CycleFields, Room
  <2>5. /\ directory'[l[1]][l[2]] # None
        /\ IF Refreshed(l)' THEN Left(l)' + cycle'.took >= EventLife
           ELSE Left(l)' > RefreshedWithin'
    BY <1>2, <2>2, <2>3, <2>4
  <2>6. \A k \in listed' : k = l \/ (k \in listed /\ k # l)
    BY <1>3
  <2> HIDE DEF l
  <2> QED BY <1>5, <2>5, <2>6 DEF SurviveInv, l
<1>7. CASE listed' = listed \ {<<r, c>>} /\ directory' = directory
  BY <1>5, <1>7 DEF SurviveInv
<1> QED BY <1>3, <1>6, <1>7

LEMMA SurviveDrop ==
  ASSUME TypeOK, RoomForCycles, CycleInv, SurviveInv,
         NEW r \in PublishRelays, DropRelay(r)
  PROVE  SurviveInv'
<1> DEFINE lost == {pair \in cycle.unsent : pair[1] = r}
<1>1. /\ cycle.pc = "send" /\ cycle'.pc = "send" /\ cycle'.full = cycle.full
      /\ cycle'.took = cycle.took /\ cycle'.unsent = cycle.unsent \ lost
      /\ sinceFull' = sinceFull /\ ticker' = ticker /\ directory' = directory
  BY DEF DropRelay, TypeOK, Cycle
<1>2. listed' = listed \ {<<r, canonicalizeRelayURL(pair[2].url)>> : pair \in lost}
  BY DEF DropRelay
<1>3. RefreshedWithin' = RefreshedWithin
  BY <1>1 DEF RefreshedWithin
<1>4. ASSUME NEW l \in listed' PROVE l \in listed /\ Refreshed(l)' = Refreshed(l)
  <2>1. l \in listed /\ l = <<l[1], l[2]>>
    BY <1>2, ListedFields
  <2>2. \A pair \in lost : pair[1] = l[1] => canonicalizeRelayURL(pair[2].url) # l[2]
    BY <1>2, <2>1
  <2>3. \A pair \in cycle.unsent : pair \in lost \/ pair \in cycle'.unsent
    BY <1>1
  <2> HIDE DEF lost
  <2> QED BY <1>1, <2>1, <2>2, <2>3 DEF Refreshed
<1> QED BY <1>1, <1>3, <1>4 DEF SurviveInv, Left

LEMMA SurviveEnd ==
  ASSUME TypeOK, RoomForCycles, CycleInv, SurviveInv, EndCycle
  PROVE  SurviveInv'
<1>1. /\ cycle.pc = "send" /\ cycle.unsent = {} /\ cycle' = IdleCycle
      /\ listed' = listed /\ directory' = directory /\ ticker' = ticker
      /\ sinceFull' = IF cycle.full THEN 0 ELSE sinceFull
  BY DEF EndCycle
<1>2. \A l \in listed : /\ directory[l[1]][l[2]] # None /\ Left(l) \in Nat
                        /\ Left(l)' = Left(l) /\ ~Refreshed(l)'
  BY <1>1, ListedFields, EventLifeNat DEF SurviveInv, Left, Refreshed, IdleCycle
<1>3. CASE cycle.full
  <2>1. \A l \in listed : Left(l) + cycle.took >= EventLife
    BY <1>1, <1>3 DEF SurviveInv, Refreshed
  <2>2. RefreshedWithin' = RefreshInterval - 1 - 0 + Longest + MaxCycle
    BY <1>1, <1>3, Room DEF RefreshedWithin, IdleCycle
  <2> QED BY <1>1, <1>2, <2>1, <2>2, CycleFields, Room DEF SurviveInv
<1>4. CASE ~cycle.full
  <2>1. RefreshedWithin' \in Nat /\ RefreshedWithin' =< RefreshedWithin
    BY <1>1, <1>4, IdleSooner
  <2>2. \A l \in listed : Left(l) > RefreshedWithin
    BY <1>4 DEF SurviveInv, Refreshed
  <2> QED BY <1>1, <1>2, <2>1, <2>2, FreshEnough DEF SurviveInv
<1> QED BY <1>3, <1>4

LEMMA SurviveStep ==
  ASSUME TypeOK, RoomForCycles, CycleInv, SurviveInv, [Next]_vars
  PROVE  SurviveInv'
<1>1. TypeOK'
  BY TypeStep
<1>2. CASE UNCHANGED vars
  BY <1>2 DEF SurviveInv, Refreshed, RefreshedWithin, Left, vars
<1>3. CASE CacheChanges
  BY <1>3 DEF SurviveInv, Refreshed, RefreshedWithin, Left, CacheChanges
<1>4. ASSUME NEW u \in CachedUrls, ReadEntry(u) PROVE SurviveInv'
  <2>1. /\ cycle'.pc = cycle.pc /\ cycle'.full = cycle.full
        /\ cycle'.took = cycle.took /\ cycle'.unsent = cycle.unsent
        /\ UNCHANGED <<listed, directory, sinceFull, ticker>>
    BY <1>4 DEF ReadEntry, TypeOK, Cycle
  <2> QED BY <2>1 DEF SurviveInv, Refreshed, RefreshedWithin, Left
<1>5. CASE Restart
  BY <1>5 DEF Restart, SurviveInv
<1> QED
  BY <1>1, <1>2, <1>3, <1>4, <1>5, SurviveTime, SurviveBegin, SurviveSelect,
     SurvivePublish, SurviveDrop, SurviveEnd DEF Next, CycleStep

\* publisher.go: "Expiration: 2x the refresh interval so events survive between
\* full refreshes".  They do, when the refresh interval has room for a publish
\* interval and two cycles; the run with equal intervals shows what happens
\* otherwise.
THEOREM EventsSurviveRefresh == RoomForCycles => (Spec => []EventsSurvive)
<1> SUFFICES ASSUME RoomForCycles PROVE Spec => []EventsSurvive
  OBVIOUS
<1> DEFINE Inv == TypeOK /\ CycleInv /\ SurviveInv
<1>1. Init => Inv
  BY TypeInit, CycleInit DEF Init, SurviveInv
<1>2. Inv /\ [Next]_vars => Inv'
  BY TypeStep, CycleInvStep, SurviveStep
<1>3. Inv => EventsSurvive
  BY SurvivesNow
<1> QED BY <1>1, <1>2, <1>3, PTL DEF Spec
----------------------------------------------------------------------------
(***************************************************************************)
(* What deduplicateByHost keeps, of whatever it is given.                  *)
(***************************************************************************)

LEMMA RankOrder ==
  ASSUME NEW a \in Healths, NEW b \in Healths, healthRank(a) =< healthRank(b),
         b # "offline"
  PROVE  a # "offline"
BY DEF Healths, healthRank

\* A host of which something was read keeps an entry: a lone entry, a root, the
\* variants with a document, or the best of the rest.
LEMMA DedupKeepsHosts ==
  ASSUME NEW read
  PROVE  KeepsHosts(read)
<1> SUFFICES ASSUME NEW kept \in SUBSET read, DedupResult(read, kept), NEW e \in read
             PROVE  Group(kept, hostKey(e.url)) # {}
  BY DEF KeepsHosts
<1> DEFINE group == Group(read, hostKey(e.url))
<1>1. e \in group
  BY DEF Group
<1>2. GroupResult(group, Group(kept, hostKey(e.url)))
  BY DEF DedupResult
<1> QED BY <1>1, <1>2 DEF GroupResult

\* A host that answers with a document keeps an entry that is not offline: only a
\* root that is offline could hide it, and only with the same document.
LEMMA DedupShowsReachable ==
  ASSUME NEW read \in SUBSET Entry,
         \A e \in read : e.health = "offline" => e.info = NoInfo
  PROVE  ShowsReachable(read)
<1> SUFFICES ASSUME NEW kept \in SUBSET read, DedupResult(read, kept), NEW e \in read,
                    hasNIP11(e), e.health # "offline"
             PROVE  \E k \in Group(kept, hostKey(e.url)) : k.health # "offline"
  BY DEF ShowsReachable
<1> DEFINE group == Group(read, hostKey(e.url))
           left == Group(kept, hostKey(e.url))
<1>1. e \in group /\ group \subseteq read
  BY DEF Group
<1>2. GroupResult(group, left)
  BY DEF DedupResult
<1> HIDE DEF group, left
<1>3. CASE left = group
  BY <1>1, <1>3 DEF left
<1>4. ASSUME NEW r \in Roots(group), left = {r} \cup DistinctVariants(group, {r})
      PROVE  \E k \in left : k.health # "offline"
  <2>1. CASE r.health # "offline"
    BY <1>4, <2>1
  <2>2. CASE r.health = "offline"
    <3>1. r \in group /\ r \in Entry /\ e \in Entry /\ r.info = NoInfo
      BY <1>1, <2>2 DEF Roots
    <3>2. hasPath(e.url)
      <4> SUFFICES ASSUME ~hasPath(e.url) PROVE FALSE
        OBVIOUS
      <4>1. healthRank(r.health) =< healthRank(e.health)
        BY <1>1 DEF Roots
      <4> QED BY <2>2, <3>1, <4>1, RankOrder DEF Entry
    <3>3. e \in DistinctVariants(group, {r})
      BY <1>1, <3>1, <3>2 DEF DistinctVariants, hasNIP11
    <3> QED BY <1>4, <3>3
  <2> QED BY <2>1, <2>2
<1>5. CASE Roots(group) = {}
  <2>1. hasPath(e.url)
    <3>1. hasPath(e.url) \/ e \in {f \in group : ~hasPath(f.url)}
      BY <1>1
    <3> DEFINE roots == {f \in group : ~hasPath(f.url)}
    <3>2. \A f \in roots : f.health \in Healths
      BY <1>1 DEF Entry
    <3>3. roots = {}
      <4>1. \A h \in Healths : healthRank(h) \in 0..2
        BY DEF Healths, healthRank
      <4>2. CASE \E f \in roots : healthRank(f.health) = 0
        BY <1>5, <3>2, <4>1, <4>2 DEF Roots
      <4>3. CASE /\ \A f \in roots : healthRank(f.health) # 0
                 /\ \E f \in roots : healthRank(f.health) = 1
        BY <1>5, <3>2, <4>1, <4>3 DEF Roots
      <4>4. CASE \A f \in roots : healthRank(f.health) \notin {0, 1}
        <5>1. \A f \in roots : healthRank(f.health) = 2
          BY <3>2, <4>1, <4>4
        <5> QED BY <1>5, <5>1 DEF Roots
      <4> QED BY <4>2, <4>3, <4>4
    <3> QED BY <3>1, <3>3
  <2>2. e \in DistinctVariants(group, {})
    BY <1>1, <2>1 DEF DistinctVariants
  <2>3. left = group \/ left = DistinctVariants(group, {})
    BY <1>2, <1>5, <2>2 DEF GroupResult
  <2> QED BY <1>1, <2>2, <2>3 DEF left
<1> QED BY <1>2, <1>3, <1>4, <1>5 DEF GroupResult, left

\* No cycle announces nothing of a host it has read an entry of.
THEOREM EveryHostIsKept == Spec => []HostsKept
<1>1. HostsKept
  BY DedupKeepsHosts DEF HostsKept, AlwaysKeepsHosts
<1> QED BY <1>1, PTL

\* What was read of relays that are down has no document, if the cache has none.
ReadInv == \A e \in cycle.read : e.health = "offline" => e.info = NoInfo

LEMMA ReadInvStep ==
  ASSUME \A u \in CachedUrls : Contents[u] \subseteq PossibleContents, TypeOK, ReadInv, [Next]_vars
  PROVE  ReadInv'
<1>1. ASSUME NEW u \in CachedUrls, ReadEntry(u)
      PROVE  ReadInv'
  <2> DEFINE e == [url |-> u, health |-> cache[u].health, info |-> cache[u].info]
  <2>1. cache[u] # None => (cache[u].health = "offline" => cache[u].info = NoInfo)
    BY DEF TypeOK, Caches, PossibleContents
  <2>2. \/ cycle'.read = cycle.read
        \/ cache[u] # None /\ cycle'.read = cycle.read \cup {e}
    BY <1>1 DEF ReadEntry, TypeOK, Cycle
  <2> QED BY <2>1, <2>2 DEF ReadInv
<1>2. CASE Select
  <2>1. PICK batch, unsent :
          \/ cycle' = IdleCycle
          \/ cycle' = [cycle EXCEPT !.pc = "send", !.read = {}, !.batch = batch,
                                    !.unsent = unsent, !.life = EventLife]
    BY <1>2 DEF Select, Return
  <2>2. CASE cycle' = IdleCycle
    BY <2>2 DEF ReadInv, IdleCycle
  <2>3. CASE cycle' = [cycle EXCEPT !.pc = "send", !.read = {}, !.batch = batch,
                                    !.unsent = unsent, !.life = EventLife]
    BY <2>3 DEF ReadInv, TypeOK, Cycle
  <2> QED BY <2>1, <2>2, <2>3
<1>3. CASE EndCycle \/ Restart
  <2>1. cycle' = IdleCycle \/ cycle' = [IdleCycle EXCEPT !.pc = "start"]
    BY <1>3 DEF EndCycle, Restart
  <2> QED BY <2>1 DEF ReadInv, IdleCycle
<1>4. CASE BeginCycle
  <2> DEFINE urls == {u \in CachedUrls : cache[u] # None}
             Started == [IdleCycle EXCEPT !.pc = "read", !.full = needsFullRefresh,
                                          !.todo = urls, !.took = cycle.took]
  <2>1. cycle' = IdleCycle \/ cycle' = Started
    BY <1>4 DEF BeginCycle, Return
  <2>2. Started.read = {} /\ IdleCycle.read = {}
    BY DEF IdleCycle
  <2> HIDE DEF Started
  <2> QED BY <2>1, <2>2 DEF ReadInv
<1>5. CASE CacheChanges \/ TimePasses \/ UNCHANGED vars
  <2>1. cycle'.read = cycle.read
    BY <1>5 DEF CacheChanges, TimePasses, vars, TypeOK, Cycle
  <2> QED BY <2>1 DEF ReadInv
<1>6. ASSUME NEW pair \in cycle.unsent, PublishEvent(pair[1], pair[2])
      PROVE  ReadInv'
  BY <1>6 DEF PublishEvent, ReadInv, TypeOK, Cycle
<1>7. ASSUME NEW r \in PublishRelays, DropRelay(r)
      PROVE  ReadInv'
  BY <1>7 DEF DropRelay, ReadInv, TypeOK, Cycle
<1> QED BY <1>1, <1>2, <1>3, <1>4, <1>5, <1>6, <1>7 DEF Next, CycleStep

\* A host that answers is never announced as offline only, if the monitor caches
\* no document of a relay that is down.
THEOREM ReachableHostIsShown ==
  ASSUME \A u \in CachedUrls : Contents[u] \subseteq PossibleContents
  PROVE  Spec => []ReachableHostShown
<1>1. Init => ReadInv
  BY DEF Init, ReadInv, IdleCycle
<1>2. TypeOK /\ ReadInv /\ [Next]_vars => ReadInv'
  BY ReadInvStep
<1>3. AlwaysShowsReachable
  <2> SUFFICES ASSUME NEW content \in [CanonicalUrl -> PossibleContents \cup {None}]
               PROVE  ShowsReachable({[url |-> u, health |-> content[u].health,
                                       info |-> content[u].info] :
                                         u \in {v \in CanonicalUrl : content[v] # None}})
    BY DEF AlwaysShowsReachable, PossibleReads
  <2> DEFINE read == {[url |-> u, health |-> content[u].health, info |-> content[u].info] :
                        u \in {v \in CanonicalUrl : content[v] # None}}
  <2>1. ASSUME NEW u \in {v \in CanonicalUrl : content[v] # None}
        PROVE  /\ [url |-> u, health |-> content[u].health, info |-> content[u].info] \in Entry
               /\ content[u].health = "offline" => content[u].info = NoInfo
    <3>1. content[u] \in PossibleContents /\ u \in Url
      BY <2>1 DEF CanonicalUrl
    <3> QED BY <3>1 DEF PossibleContents, Content, Entry
  <2>2. read \in SUBSET Entry /\ \A e \in read : e.health = "offline" => e.info = NoInfo
    BY <2>1
  <2> QED BY <2>2, DedupShowsReachable
<1>4. TypeOK /\ ReadInv => ReachableHostShown
  <2> SUFFICES ASSUME TypeOK, ReadInv PROVE ReachableHostShown
    OBVIOUS
  <2>1. cycle.read \in SUBSET Entry
    BY DEF TypeOK, Cycle
  <2> QED BY <1>3, <2>1, DedupShowsReachable DEF ReadInv, ReachableHostShown
<1> QED BY PublisherTypeCorrect, <1>1, <1>2, <1>4, PTL DEF Spec
----------------------------------------------------------------------------
(***************************************************************************)
(* The directory is in step.  What ties it to the cycle are the hashes: a  *)
(* stored announcement shows the entry whose hash is kept, or one that was *)
(* announced with it of another spelling, so that a cycle that finds the   *)
(* hash unchanged need not announce the entry again.                       *)
(***************************************************************************)

Relay(e) == canonicalizeRelayURL(e.url)

\* At most one entry of each spelling.
OnePerUrl(entries) == \A e \in entries, f \in entries : e.url = f.url => e = f

\* Two entries that differ are of different spellings.
Agree(e, f) == e.url = f.url => e = f

Shown(r, c) == directory[r][c].entry

Announces(c) == cycle.pc = "send" /\ \E e \in cycle.batch : Relay(e) = c

\* What the cycle has read, it has read once.
ReadOnce ==
  /\ \A e \in cycle.read : e.url \in CachedUrls \ cycle.todo
  /\ OnePerUrl(cycle.read)

\* An event is filed under the relay it is about, and of a URL that is cached at times.
Filed ==
  \A l \in listed :
    Relay(Shown(l[1], l[2])) = l[2] /\ Shown(l[1], l[2]).url \in CachedUrls

\* A stored announcement of a relay in the batch is one of the batch, once all of
\* them have been sent.
BatchShown ==
  \A l \in listed :
    Announces(l[2]) =>
      \/ \E e \in cycle.batch : Relay(e) = l[2] /\ <<l[1], e>> \in cycle.unsent
      \/ Shown(l[1], l[2]) \in cycle.batch

HashShown ==
  \A l \in listed :
    hashes[l[2]] # None /\ ~Announces(l[2]) => Agree(Shown(l[1], l[2]), hashes[l[2]])

SelectedShown ==
  cycle.pc \in {"idle", "send"} =>
    \A e \in selected, r \in PublishRelays :
      <<r, Relay(e)>> \in listed /\ ~Announces(Relay(e)) => Agree(Shown(r, Relay(e)), e)

StepInv ==
  /\ ReadOnce
  /\ OnePerUrl(selected) /\ \A e \in selected : e.url \in CachedUrls
  /\ cycle.pc = "send" => cycle.batch \subseteq selected
  /\ Filed /\ BatchShown /\ HashShown /\ SelectedShown

\* Time takes nothing of an event but its life.
LEMMA ElapseEntry ==
  ASSUME NEW event \in Event \cup {None}
  PROVE  Elapse(event).entry = event.entry
BY DEF Elapse, Event

\* Where an announcement is listed, and where those of an entry are.
LEMMA ListedPlaces ==
  ASSUME TypeOK
  PROVE  /\ \A l \in listed : /\ l[1] \in PublishRelays /\ l[2] \in CanonicalUrl
                              /\ l = <<l[1], l[2]>>
         /\ \A e \in selected : Relay(e) \in CanonicalUrl
<1>1. \A e \in selected : e.url \in Url
  BY DEF TypeOK, Entry
<1> QED BY <1>1, CanonicalType DEF TypeOK, Relay

LEMMA StepTime ==
  ASSUME TypeOK, StepInv, TimePasses
  PROVE  StepInv'
<1>1. /\ cycle'.pc = cycle.pc /\ cycle'.read = cycle.read /\ cycle'.todo = cycle.todo
      /\ cycle'.batch = cycle.batch /\ cycle'.unsent = cycle.unsent
  BY DEF TimePasses, TypeOK, Cycle
<1>2. UNCHANGED <<hashes, selected, listed>>
  BY DEF TimePasses
<1>3. \A r \in PublishRelays, c \in CanonicalUrl : Shown(r, c)' = Shown(r, c)
  <2> SUFFICES ASSUME NEW r \in PublishRelays, NEW c \in CanonicalUrl
               PROVE  directory'[r][c].entry = directory[r][c].entry
    BY DEF Shown
  <2>1. directory'[r][c] = Elapse(directory[r][c])
    BY DEF TimePasses
  <2>2. directory[r][c] \in Event \cup {None}
    BY DEF TypeOK
  <2> QED BY <2>1, <2>2, ElapseEntry
<1>4. \A c : Announces(c)' = Announces(c)
  BY <1>1 DEF Announces
<1>5. ReadOnce' /\ OnePerUrl(selected)' /\ (\A f \in selected' : f.url \in CachedUrls)
      /\ (cycle'.pc = "send" => cycle'.batch \subseteq selected')
  BY <1>1, <1>2 DEF StepInv, ReadOnce, OnePerUrl
<1>6. Filed' /\ BatchShown' /\ HashShown'
  <2> SUFFICES ASSUME NEW l \in listed
               PROVE  Shown(l[1], l[2])' = Shown(l[1], l[2])
    BY <1>1, <1>2, <1>4 DEF StepInv, Filed, BatchShown, HashShown
  <2> QED BY <1>3, ListedPlaces
<1>7. SelectedShown'
  BY <1>1, <1>2, <1>3, <1>4, ListedPlaces DEF StepInv, SelectedShown
<1> QED BY <1>5, <1>6, <1>7 DEF StepInv

LEMMA StepBegin ==
  ASSUME TypeOK, StepInv, BeginCycle
  PROVE  StepInv'
<1> DEFINE urls == {u \in CachedUrls : cache[u] # None}
           Started == [IdleCycle EXCEPT !.pc = "read", !.full = needsFullRefresh,
                                        !.todo = urls, !.took = cycle.took]
<1>1. \/ cycle' = IdleCycle /\ selected' = {} /\ listed' = {}
      \/ cycle' = Started /\ selected' = selected /\ listed' = listed
  BY DEF BeginCycle, Return
<1>2. cycle.pc # "send" /\ UNCHANGED <<hashes, directory>>
  BY DEF BeginCycle
<1>3. Started.read = {} /\ Started.pc = "read" /\ IdleCycle.read = {} /\ IdleCycle.pc = "idle"
  BY DEF IdleCycle
<1> HIDE DEF Started
<1>4. ReadOnce' /\ cycle'.pc \in {"idle", "read"}
  BY <1>1, <1>3 DEF ReadOnce, OnePerUrl
<1>5. \A c : ~Announces(c) /\ ~Announces(c)'
  BY <1>2, <1>4 DEF Announces
<1>6. CASE selected' = {} /\ listed' = {} /\ cycle' = IdleCycle
  BY <1>3, <1>4, <1>6 DEF StepInv, OnePerUrl, Filed, BatchShown, HashShown, SelectedShown
<1>7. CASE selected' = selected /\ listed' = listed /\ cycle' = Started
  BY <1>2, <1>3, <1>4, <1>5, <1>7
     DEF StepInv, OnePerUrl, Filed, BatchShown, HashShown, SelectedShown, Shown
<1> QED BY <1>1, <1>6, <1>7

LEMMA StepRead ==
  ASSUME TypeOK, StepInv, NEW u \in CachedUrls, ReadEntry(u)
  PROVE  StepInv'
<1> DEFINE e == [url |-> u, health |-> cache[u].health, info |-> cache[u].info]
<1>1. /\ cycle.pc = "read" /\ cycle'.pc = "read"
      /\ u \in cycle.todo /\ cycle'.todo = cycle.todo \ {u}
      /\ cycle'.read = cycle.read \/ cycle'.read = cycle.read \cup {e}
  BY DEF ReadEntry, TypeOK, Cycle
<1>2. UNCHANGED <<hashes, directory, selected, listed>>
  BY DEF ReadEntry
<1>3. e.url = u /\ \A f \in cycle.read : f.url # u
  BY <1>1 DEF StepInv, ReadOnce
<1> HIDE DEF e
<1>4. ReadOnce'
  BY <1>1, <1>3 DEF StepInv, ReadOnce, OnePerUrl
<1>5. \A c : ~Announces(c) /\ ~Announces(c)'
  BY <1>1 DEF Announces
<1> QED
  BY <1>1, <1>2, <1>4, <1>5
     DEF StepInv, OnePerUrl, Filed, BatchShown, HashShown, SelectedShown, Shown

LEMMA StepSelect ==
  ASSUME TypeOK, StepInv, Select
  PROVE  StepInv'
<1>1. PICK kept \in SUBSET cycle.read :
        LET active == {canonicalizeRelayURL(e.url) : e \in kept}
            announced == {e \in kept : ~(SkipOffline /\ e.health = "offline")}
            batch == {e \in announced : cycle.full \/ changed(e)}
        IN  /\ hashes' = [c \in CanonicalUrl |->
                            IF c \in active THEN hashes[c] ELSE None]
            /\ selected' = announced
            /\ listed' \subseteq listed
            /\ \/ batch = {} /\ cycle' = IdleCycle
               \/ cycle' = [cycle EXCEPT
                     !.pc = "send", !.read = {}, !.batch = batch,
                     !.unsent = PublishRelays \X batch, !.life = EventLife]
  BY DEF Select, Return
<1> DEFINE active == {canonicalizeRelayURL(e.url) : e \in kept}
           announced == {e \in kept : ~(SkipOffline /\ e.health = "offline")}
           batch == {e \in announced : cycle.full \/ changed(e)}
<1>2. cycle.pc = "read" /\ directory' = directory
  BY DEF Select
<1>3. \A e \in announced : e # None /\ Relay(e) \in active \cap CanonicalUrl
  <2> SUFFICES ASSUME NEW e \in announced
               PROVE  e # None /\ Relay(e) \in active \cap CanonicalUrl
    OBVIOUS
  <2>1. e \in Entry /\ e.url \in Url
    BY DEF TypeOK, Cycle, Entry
  <2> QED BY <2>1, CanonicalType, NoneAssumption DEF Relay
<1>4. \A e \in announced \ batch : hashes[Relay(e)] = e
  BY DEF changed, Relay
<1>5. hashes' = [c \in CanonicalUrl |-> IF c \in active THEN hashes[c] ELSE None]
  BY <1>1
<1>6. selected' = announced /\ listed' \subseteq listed
  BY <1>1
<1>7. \/ batch = {} /\ cycle' = IdleCycle
      \/ cycle' = [cycle EXCEPT
            !.pc = "send", !.read = {}, !.batch = batch,
            !.unsent = PublishRelays \X batch, !.life = EventLife]
  BY <1>1
<1>8. announced \subseteq cycle.read /\ batch \subseteq announced
  OBVIOUS
<1> HIDE DEF active, announced, batch
<1>9. /\ cycle'.read = {}
      /\ \/ batch = {} /\ cycle'.pc = "idle"
         \/ /\ cycle'.pc = "send" /\ cycle'.batch = batch
            /\ cycle'.unsent = PublishRelays \X batch
  <2>1. CASE cycle' = IdleCycle /\ batch = {}
    BY <2>1 DEF IdleCycle
  <2>2. CASE cycle' = [cycle EXCEPT
                !.pc = "send", !.read = {}, !.batch = batch,
                !.unsent = PublishRelays \X batch, !.life = EventLife]
    BY <2>2 DEF TypeOK, Cycle
  <2> QED BY <1>7, <2>1, <2>2
<1>10. ReadOnce' /\ OnePerUrl(selected') /\ \A f \in selected' : f.url \in CachedUrls
  BY <1>6, <1>8, <1>9 DEF StepInv, ReadOnce, OnePerUrl
<1>11. /\ \A c : ~Announces(c)
       /\ \A e \in batch : Announces(Relay(e))'
       /\ \A r, c : Shown(r, c)' = Shown(r, c)
  BY <1>2, <1>9 DEF Announces, Shown
<1>12. Filed'
  BY <1>6, <1>11 DEF StepInv, Filed
<1>13. BatchShown'
  <2> SUFFICES ASSUME NEW l \in listed', Announces(l[2])'
               PROVE  \E e \in cycle'.batch : Relay(e) = l[2] /\ <<l[1], e>> \in cycle'.unsent
    BY DEF BatchShown
  <2>1. PICK e \in cycle'.batch : Relay(e) = l[2]
    BY DEF Announces
  <2>2. cycle'.pc = "send" /\ e \in batch /\ l[1] \in PublishRelays
    BY <1>6, <1>9, ListedPlaces DEF Announces
  <2> QED BY <1>9, <2>1, <2>2
<1>14. HashShown'
  <2> SUFFICES ASSUME NEW l \in listed', hashes'[l[2]] # None
               PROVE  Agree(Shown(l[1], l[2]), hashes'[l[2]])
    BY <1>11 DEF HashShown, Agree
  <2>1. l \in listed /\ l[2] \in CanonicalUrl
    BY <1>6, ListedPlaces
  <2>2. hashes'[l[2]] = hashes[l[2]]
    BY <1>5, <2>1
  <2> QED BY <1>11, <2>1, <2>2 DEF StepInv, HashShown
<1>15. SelectedShown'
  <2> SUFFICES ASSUME NEW e \in announced, NEW r \in PublishRelays,
                      <<r, Relay(e)>> \in listed, e \notin batch
               PROVE  Agree(Shown(r, Relay(e)), e)
    BY <1>6, <1>11 DEF SelectedShown, Agree
  <2>1. hashes[Relay(e)] = e /\ e # None
    BY <1>3, <1>4
  <2> DEFINE l == <<r, Relay(e)>>
  <2>2. l \in listed /\ l[1] = r /\ l[2] = Relay(e)
    OBVIOUS
  <2>3. Agree(Shown(l[1], l[2]), hashes[l[2]])
    BY <1>11, <2>1, <2>2 DEF StepInv, HashShown
  <2> QED BY <2>1, <2>2, <2>3
<1> QED BY <1>6, <1>8, <1>9, <1>10, <1>12, <1>13, <1>14, <1>15 DEF StepInv

LEMMA StepPublish ==
  ASSUME TypeOK, StepInv, NEW pair \in cycle.unsent, PublishEvent(pair[1], pair[2])
  PROVE  StepInv'
<1> DEFINE r == pair[1]
           e == pair[2]
           c == Relay(e)
<1>1. /\ r \in PublishRelays /\ e \in cycle.batch /\ pair = <<r, e>> /\ c \in CanonicalUrl
  <2>1. e \in Entry /\ e.url \in Url
    BY DEF TypeOK, Cycle, Entry
  <2> QED BY <2>1, CanonicalType DEF TypeOK, Cycle, Relay
<1>2. /\ cycle.pc = "send" /\ cycle'.pc = "send"
      /\ cycle'.read = cycle.read /\ cycle'.todo = cycle.todo
      /\ cycle'.batch = cycle.batch /\ cycle'.unsent = cycle.unsent \ {<<r, e>>}
      /\ UNCHANGED <<hashes, selected>>
  BY DEF PublishEvent, TypeOK, Cycle
<1>3. \/ /\ directory' = [directory EXCEPT ![r][c] =
                            [entry |-> e, left |-> cycle.life]]
         /\ listed' = listed \cup {<<r, c>>}
      \/ listed' = listed \ {<<r, c>>} /\ directory' = directory
  BY DEF PublishEvent, Relay
<1>4. Announces(c) /\ \A d : Announces(d)' = Announces(d)
  BY <1>1, <1>2 DEF Announces
<1>5. <<r, c>> \in listed' => Shown(r, c)' = e
  BY <1>1, <1>3 DEF TypeOK, Shown
<1>6. /\ \A d \in CanonicalUrl, q \in PublishRelays :
           q # r \/ d # c => Shown(q, d)' = Shown(q, d)
      /\ \A l \in listed' : l = <<r, c>> \/ l \in listed
  BY <1>1, <1>3 DEF TypeOK, Shown
<1>7. Relay(e) = c /\ e.url \in CachedUrls
  BY <1>1, <1>2 DEF StepInv
<1> HIDE DEF c, e, r
\* The announcements listed elsewhere are as they were.
<1>8. ASSUME NEW l \in listed', l # <<r, c>>
      PROVE  /\ l \in listed /\ l[1] \in PublishRelays /\ l[2] \in CanonicalUrl
             /\ l[1] # r \/ l[2] # c
             /\ Shown(l[1], l[2])' = Shown(l[1], l[2])
  BY <1>6, <1>8, ListedPlaces
<1>9. ReadOnce' /\ OnePerUrl(selected)' /\ (\A f \in selected' : f.url \in CachedUrls)
      /\ (cycle'.pc = "send" => cycle'.batch \subseteq selected')
  BY <1>2 DEF StepInv, ReadOnce, OnePerUrl
<1>10. Filed'
  <2> SUFFICES ASSUME NEW l \in listed'
               PROVE  (Relay(Shown(l[1], l[2])) = l[2] /\ Shown(l[1], l[2]).url \in CachedUrls)'
    BY DEF Filed
  <2>1. CASE l = <<r, c>>
    BY <1>5, <1>7, <2>1 DEF Relay
  <2>2. CASE l # <<r, c>>
    BY <1>8, <2>2 DEF StepInv, Filed, Relay
  <2> QED BY <2>1, <2>2
<1>11. BatchShown'
  <2> SUFFICES ASSUME NEW l \in listed', Announces(l[2])
               PROVE  \/ \E f \in cycle.batch : Relay(f) = l[2] /\ <<l[1], f>> \in cycle'.unsent
                      \/ Shown(l[1], l[2])' \in cycle.batch
    BY <1>2, <1>4 DEF BatchShown, Relay
  <2>1. CASE l = <<r, c>>
    BY <1>1, <1>5, <2>1
  <2>2. CASE l # <<r, c>>
    <3>1. l \in listed /\ (l[1] # r \/ l[2] # c) /\ Shown(l[1], l[2])' = Shown(l[1], l[2])
      BY <1>8, <2>2
    <3>2. CASE Shown(l[1], l[2]) \in cycle.batch
      BY <3>1, <3>2
    <3>3. ASSUME NEW f \in cycle.batch, Relay(f) = l[2], <<l[1], f>> \in cycle.unsent
          PROVE  <<l[1], f>> \in cycle'.unsent
      BY <1>2, <1>7, <3>1, <3>3
    <3> QED BY <3>1, <3>2, <3>3 DEF StepInv, BatchShown
  <2> QED BY <2>1, <2>2
<1>12. HashShown'
  <2> SUFFICES ASSUME NEW l \in listed', hashes[l[2]] # None, ~Announces(l[2])
               PROVE  Agree(Shown(l[1], l[2])', hashes[l[2]])
    BY <1>2, <1>4 DEF HashShown, Agree
  <2>1. l # <<r, c>>
    BY <1>4
  <2> QED BY <1>8, <2>1 DEF StepInv, HashShown
<1>13. SelectedShown'
  <2> SUFFICES ASSUME NEW f \in selected, NEW q \in PublishRelays,
                      <<q, Relay(f)>> \in listed', ~Announces(Relay(f))
               PROVE  Agree(Shown(q, Relay(f))', f)
    BY <1>2, <1>4 DEF SelectedShown, Agree, Relay
  <2>1. Relay(f) # c /\ Relay(f) \in CanonicalUrl
    BY <1>4, ListedPlaces
  <2>2. <<q, Relay(f)>> \in listed /\ Shown(q, Relay(f))' = Shown(q, Relay(f))
    BY <1>6, <2>1
  <2> QED BY <1>2, <2>2 DEF StepInv, SelectedShown
<1> QED BY <1>9, <1>10, <1>11, <1>12, <1>13 DEF StepInv

LEMMA StepDrop ==
  ASSUME TypeOK, StepInv, NEW r \in PublishRelays, DropRelay(r)
  PROVE  StepInv'
<1> DEFINE lost == {pair \in cycle.unsent : pair[1] = r}
<1>1. /\ cycle.pc = "send" /\ cycle'.pc = "send"
      /\ cycle'.read = cycle.read /\ cycle'.todo = cycle.todo
      /\ cycle'.batch = cycle.batch /\ cycle'.unsent = cycle.unsent \ lost
      /\ UNCHANGED <<hashes, selected, directory>>
  BY DEF DropRelay, TypeOK, Cycle
<1>2. listed' = listed \ {<<r, canonicalizeRelayURL(pair[2].url)>> : pair \in lost}
  BY DEF DropRelay
<1>3. ReadOnce' /\ OnePerUrl(selected)' /\ (\A f \in selected' : f.url \in CachedUrls)
      /\ (cycle'.pc = "send" => cycle'.batch \subseteq selected')
  BY <1>1 DEF StepInv, ReadOnce, OnePerUrl
<1>4. /\ \A c : Announces(c)' = Announces(c)
      /\ \A q, c : Shown(q, c)' = Shown(q, c)
  BY <1>1 DEF Announces, Shown
<1>5. Filed' /\ HashShown' /\ SelectedShown'
  BY <1>1, <1>2, <1>4 DEF StepInv, Filed, HashShown, SelectedShown
<1>6. BatchShown'
  <2> SUFFICES ASSUME NEW l \in listed', NEW e \in cycle.batch, Relay(e) = l[2],
                      <<l[1], e>> \in cycle.unsent
               PROVE  <<l[1], e>> \in cycle'.unsent
    BY <1>1, <1>2, <1>4 DEF StepInv, BatchShown
  <2>1. <<l[1], e>> \notin lost
    <3> SUFFICES ASSUME <<l[1], e>> \in lost PROVE FALSE
      OBVIOUS
    <3>1. l[1] = r /\ <<r, canonicalizeRelayURL(e.url)>>
                        \in {<<r, canonicalizeRelayURL(pair[2].url)>> : pair \in lost}
      OBVIOUS
    <3>2. l = <<r, canonicalizeRelayURL(e.url)>>
      BY <1>2, <3>1, ListedPlaces DEF Relay
    <3> QED BY <1>2, <3>1, <3>2
  <2> QED BY <1>1, <2>1
<1> QED BY <1>3, <1>5, <1>6 DEF StepInv

LEMMA StepEnd ==
  ASSUME TypeOK, StepInv, EndCycle
  PROVE  StepInv'
<1>1. PICK rec \in [{canonicalizeRelayURL(e.url) : e \in cycle.batch} -> cycle.batch] :
        /\ \A c \in DOMAIN rec : canonicalizeRelayURL(rec[c].url) = c
        /\ hashes' = [c \in CanonicalUrl |->
                        IF c \in DOMAIN rec THEN rec[c] ELSE hashes[c]]
  BY DEF EndCycle
<1>2. /\ cycle.pc = "send" /\ cycle.unsent = {} /\ cycle' = IdleCycle
      /\ UNCHANGED <<directory, selected, listed>>
  BY DEF EndCycle
<1>3. cycle'.pc = "idle" /\ cycle'.read = {}
  BY <1>2 DEF IdleCycle
<1>4. ReadOnce' /\ OnePerUrl(selected)' /\ \A f \in selected' : f.url \in CachedUrls
  BY <1>2, <1>3 DEF StepInv, ReadOnce, OnePerUrl
<1>5. /\ \A c : ~Announces(c)'
      /\ \A r, c : Shown(r, c)' = Shown(r, c)
  BY <1>2, <1>3 DEF Announces, Shown
\* All of the batch is sent: what is listed of its relays is of the batch.
<1>6. ASSUME NEW l \in listed, Announces(l[2]), NEW e \in cycle.batch
      PROVE  Agree(Shown(l[1], l[2]), e)
  <2>1. Shown(l[1], l[2]) \in cycle.batch
    BY <1>2, <1>6 DEF StepInv, BatchShown
  <2> QED BY <1>2, <2>1 DEF StepInv, OnePerUrl, Agree
<1>7. Filed' /\ BatchShown'
  BY <1>2, <1>5 DEF StepInv, Filed, BatchShown
<1>8. HashShown'
  <2> SUFFICES ASSUME NEW l \in listed, hashes'[l[2]] # None
               PROVE  Agree(Shown(l[1], l[2]), hashes'[l[2]])
    BY <1>2, <1>5 DEF HashShown, Agree
  <2>1. l[2] \in CanonicalUrl
    BY ListedPlaces
  <2>2. CASE l[2] \in DOMAIN rec
    <3>1. rec[l[2]] \in cycle.batch /\ Relay(rec[l[2]]) = l[2] /\ hashes'[l[2]] = rec[l[2]]
      BY <1>1, <2>1, <2>2 DEF Relay
    <3> QED BY <1>2, <1>6, <3>1 DEF Announces
  <2>3. CASE l[2] \notin DOMAIN rec
    <3>1. hashes'[l[2]] = hashes[l[2]]
      BY <1>1, <2>1, <2>3
    <3>2. ~Announces(l[2])
      BY <1>1, <2>3 DEF Announces, Relay
    <3> QED BY <3>1, <3>2 DEF StepInv, HashShown
  <2> QED BY <2>2, <2>3
<1>9. SelectedShown'
  <2> SUFFICES ASSUME NEW e \in selected, NEW r \in PublishRelays, <<r, Relay(e)>> \in listed
               PROVE  Agree(Shown(r, Relay(e)), e)
    BY <1>2, <1>5 DEF SelectedShown, Agree
  <2> DEFINE l == <<r, Relay(e)>>
  <2>1. l \in listed /\ l[1] = r /\ l[2] = Relay(e)
    OBVIOUS
  <2> HIDE DEF l
  <2>2. CASE Announces(Relay(e))
    <3>1. Shown(r, Relay(e)) \in cycle.batch
      BY <1>2, <2>1, <2>2 DEF StepInv, BatchShown
    <3> QED BY <1>2, <3>1 DEF StepInv, OnePerUrl, Agree
  <2>3. CASE ~Announces(Relay(e))
    BY <1>2, <2>3 DEF StepInv, SelectedShown
  <2> QED BY <2>2, <2>3
<1> QED BY <1>3, <1>4, <1>7, <1>8, <1>9 DEF StepInv

LEMMA StepInvStep ==
  ASSUME TypeOK, StepInv, [Next]_vars
  PROVE  StepInv'
<1>1. CASE CacheChanges \/ UNCHANGED vars
  BY <1>1 DEF CacheChanges, vars, StepInv, ReadOnce, OnePerUrl, Filed, BatchShown,
    HashShown, SelectedShown, Announces, Shown
<1>2. CASE Restart
  <2>1. cycle'.pc = "start" /\ cycle'.read = {} /\ selected' = {} /\ listed' = {}
    BY <1>2 DEF Restart, IdleCycle
  <2> QED
    BY <2>1 DEF StepInv, ReadOnce, OnePerUrl, Filed, BatchShown, HashShown, SelectedShown
<1> QED
  BY <1>1, <1>2, StepTime, StepBegin, StepRead, StepSelect, StepPublish, StepDrop, StepEnd
     DEF Next, CycleStep

LEMMA StepInvAlways == Spec => [](TypeOK /\ StepInv)
<1>1. Init => StepInv
  BY DEF Init, StepInv, ReadOnce, OnePerUrl, Filed, BatchShown, HashShown, SelectedShown,
    IdleCycle
<1>2. TypeOK /\ StepInv /\ [Next]_vars => StepInv'
  BY StepInvStep
<1> QED BY PublisherTypeCorrect, <1>1, <1>2, PTL DEF Spec

\* Between cycles what is listed agrees with what the last cycle selected.
LEMMA InStep ==
  ASSUME StepInv, cycle.pc = "idle", NEW e \in selected, NEW r \in PublishRelays,
         <<r, Relay(e)>> \in listed
  PROVE  /\ Relay(Shown(r, Relay(e))) = Relay(e)
         /\ Shown(r, Relay(e)).url \in CachedUrls
         /\ Agree(Shown(r, Relay(e)), e)
<1> DEFINE l == <<r, Relay(e)>>
<1>1. l \in listed /\ l[1] = r /\ l[2] = Relay(e)
  OBVIOUS
<1> HIDE DEF l
<1>2. ~Announces(Relay(e))
  BY DEF Announces
<1> QED BY <1>1, <1>2 DEF StepInv, Filed, SelectedShown

\* Between cycles the directory shows what the last cycle read, wherever its last
\* announcement was stored: comparing hashes misses no change.  Nothing is assumed of
\* the spellings that are cached; of two with one canonical form, which share one hash
\* and one event, the directory may show the other.
THEOREM DirectoryKeptInStep == Spec => []DirectoryInStep
<1>1. TypeOK /\ StepInv => DirectoryInStep
  BY InStep DEF DirectoryInStep, Relay, Shown, Agree
<1> QED BY <1>1, StepInvAlways, PTL

SpeltOneWay(c) ==
  \A u \in CachedUrls, v \in CachedUrls :
    canonicalizeRelayURL(u) = c /\ canonicalizeRelayURL(v) = c => u = v

\* A relay that the monitor caches under one spelling is shown just as the last cycle
\* read it, however many spellings there are of the others.
THEOREM OneSpellingExact ==
  ASSUME NEW c \in CanonicalUrl, SpeltOneWay(c)
  PROVE  Spec => [](cycle.pc = "idle" =>
                      \A e \in selected, r \in PublishRelays :
                        canonicalizeRelayURL(e.url) = c /\ <<r, c>> \in listed
                          => directory[r][c].entry = e)
<1> DEFINE Exact ==
      cycle.pc = "idle" =>
        \A e \in selected, r \in PublishRelays :
          canonicalizeRelayURL(e.url) = c /\ <<r, c>> \in listed
            => directory[r][c].entry = e
<1>1. TypeOK /\ StepInv => Exact
  <2> SUFFICES ASSUME StepInv, cycle.pc = "idle", NEW e \in selected, NEW r \in PublishRelays,
                      Relay(e) = c, <<r, c>> \in listed
               PROVE  Shown(r, c) = e
    BY DEF Relay, Shown
  <2>1. Relay(Shown(r, c)) = c /\ Shown(r, c).url \in CachedUrls /\ Agree(Shown(r, c), e)
    BY InStep
  <2>2. e.url \in CachedUrls
    BY DEF StepInv
  <2> QED BY <2>1, <2>2 DEF SpeltOneWay, Relay, Agree
<1> QED BY <1>1, StepInvAlways, PTL
=============================================================================
