----------------------- MODULE DiscoveryPipelineProofs -----------------------
(***************************************************************************)
(* Theorems about DiscoveryPipeline, for all hosts, spellings, handlers,   *)
(* buffer capacities and numbers of restarts.                              *)
(***************************************************************************)
EXTENDS DiscoveryPipeline, TLAPS

----------------------------------------------------------------------------
(* What the normalisations return. *)

\* relay.normalizeURL returns a spelling of the same relay.
LEMMA NormalizeURL ==
  ASSUME NEW u \in Url
  PROVE  /\ normalizeURL(u) \in Url
         /\ Bare(u) \in Url
         /\ Bare(normalizeURL(u)) = Bare(u)
<1> DEFINE n == IF u.slashes = 0 THEN 0 ELSE u.slashes - 1
<1>1. u.slashes \in 0..MaxSlashes /\ n \in 0..MaxSlashes /\ 0 \in 0..MaxSlashes
  BY UrlAssumption DEF Url
<1>2. normalizeURL(u) = [u EXCEPT !.slashes = n]
  BY DEF normalizeURL, WithoutSlash
<1>3. normalizeURL(u) \in Url
  BY <1>1, <1>2 DEF Url
<1>4. Bare(u) \in Url
  BY <1>1 DEF Url, Bare
<1>5. Bare(normalizeURL(u)) = Bare(u)
  BY <1>2 DEF Url, Bare
<1> QED  BY <1>3, <1>4, <1>5

\* discovery.normalizeRelayURL returns a spelling or gives up.
LEMMA NormalizeRelayURL ==
  ASSUME NEW u \in Url
  PROVE  normalizeRelayURL(u) \in Url \cup {NoUrl}
<1> DEFINE w == WithoutSlash(u)
           s == IF w.scheme = "none" THEN "wss" ELSE w.scheme
<1>1. w \in Url
  BY NormalizeURL DEF normalizeURL
<1>2. s \in Schemes
  BY <1>1 DEF Url, Schemes
<1>3. [w EXCEPT !.scheme = s, !.rootDot = FALSE] \in Url
  BY <1>1, <1>2 DEF Url
<1> QED  BY <1>3 DEF normalizeRelayURL

\* admin.reconstructRelayURL returns a spelling.
LEMMA ReconstructRelayURL ==
  ASSUME NEW u \in Url
  PROVE  reconstructRelayURL(u) \in Url
BY UrlAssumption DEF Url, Schemes, reconstructRelayURL

\* What the two channel operations do to a channel.
LEMMA ChannelSend ==
  ASSUME NEW q \in Seq(Url), NEW u \in Url
  PROVE  Append(q, u) \in Seq(Url) /\ Len(Append(q, u)) = Len(q) + 1
OBVIOUS

LEMMA ChannelReceive ==
  ASSUME NEW q \in Seq(Url), q # <<>>
  PROVE  /\ Head(q) \in Url
         /\ Tail(q) \in Seq(Url)
         /\ Len(Tail(q)) = Len(q) - 1
OBVIOUS

\* Where the elements of a channel are after a send and after a receive.
LEMMA SendElements ==
  ASSUME NEW q \in Seq(Url), NEW u \in Url
  PROVE  /\ \A i \in 1..Len(q) : Append(q, u)[i] = q[i]
         /\ Append(q, u)[Len(q) + 1] = u
         /\ \A i \in 1..Len(Append(q, u)) : i \in 1..Len(q) \/ i = Len(q) + 1
OBVIOUS

LEMMA ReceiveElements ==
  ASSUME NEW q \in Seq(Url), q # <<>>
  PROVE  /\ 1 \in 1..Len(q) /\ Head(q) = q[1]
         /\ \A i \in 1..Len(Tail(q)) : i + 1 \in 1..Len(q) /\ Tail(q)[i] = q[i + 1]
         /\ \A i \in 1..Len(q) :
               i = 1 \/ (i - 1 \in 1..Len(Tail(q)) /\ Tail(q)[i - 1] = q[i])
OBVIOUS

LEMMA LenNat ==
  ASSUME NEW q \in Seq(Url)
  PROVE  Len(q) \in Nat
OBVIOUS

----------------------------------------------------------------------------
(* Type correctness *)

LEMMA TypeInit == Init => TypeOK
BY PipelineAssumption, NoUrlAssumption
DEF Init, TypeOK, IdleCoord, IdleAdmin, BootMonitor, Booting

LEMMA TypeSubmit ==
  ASSUME TypeOK, Discover \/ AdminSubmit
  PROVE  TypeOK'
<1>1. PICK u \in Url : Submit(u)
  BY PipelineAssumption DEF Discover, AdminSubmit
<1>2. discoveries' \in Seq(Url) /\ Len(discoveries') = Len(discoveries) + 1
  BY <1>1, ChannelSend DEF TypeOK, Submit
<1>3. Len(discoveries') =< DiscoveryBuffer
  BY <1>1, <1>2, LenNat, PipelineAssumption DEF TypeOK, Submit
<1> QED  BY <1>1, <1>2, <1>3 DEF TypeOK, Submit, redis, history

LEMMA TypeCoord ==
  ASSUME TypeOK, CoordStep \/ CoordRedisError
  PROVE  TypeOK'
<1> USE PipelineAssumption, NoUrlAssumption DEF TypeOK, CoordUnchanged, IdleCoord
<1>1. CASE CoordReceive
  <2>1. normalizeRelayURL(Head(discoveries)) \in Url \cup {NoUrl}
    BY <1>1, NormalizeRelayURL DEF CoordReceive
  <2> QED  BY <1>1, <2>1 DEF CoordReceive
<1>2. CASE CoordCheckBlacklist
  BY <1>2 DEF CoordCheckBlacklist
<1>3. CASE CoordMarkSeen
  BY <1>3 DEF CoordMarkSeen
<1>4. CASE CoordForward
  <2>1. Bare(coord.url) \in Url
    BY <1>4, NormalizeURL DEF CoordForward
  <2>2. /\ Append(discoveryInput, coord.url) \in Seq(Url)
        /\ Len(Append(discoveryInput, coord.url)) = Len(discoveryInput) + 1
        /\ Len(discoveryInput) \in Nat
    BY <1>4, ChannelSend, LenNat DEF CoordForward
  <2>3. [forwarded EXCEPT ![coord.url] = @ + 1] \in [Url -> Nat]
    BY <1>4 DEF CoordForward
  <2>4. discoveryInput' \in Seq(Url) /\ Len(discoveryInput') =< InputBuffer
    <3>1. CASE Len(discoveryInput) < InputBuffer
      <4>1. discoveryInput' = Append(discoveryInput, coord.url)
        BY <1>4, <3>1 DEF CoordForward
      <4> QED  BY <2>2, <3>1, <4>1
    <3>2. CASE ~(Len(discoveryInput) < InputBuffer)
      <4>1. discoveryInput' = discoveryInput
        BY <1>4, <3>2 DEF CoordForward
      <4> QED  BY <4>1
    <3> QED  BY <3>1, <3>2
  <2>5. forwarded' \in [Url -> Nat] /\ forgone' \subseteq Url
    BY <1>4, <2>1, <2>3 DEF CoordForward
  <2> QED  BY <1>4, <2>4, <2>5 DEF CoordForward
<1>5. CASE CoordRedisError
  <2>1. Bare(coord.url) \in Url
    BY <1>5, NormalizeURL DEF CoordRedisError
  <2> QED  BY <1>5, <2>1 DEF CoordRedisError
<1> QED  BY <1>1, <1>2, <1>3, <1>4, <1>5 DEF CoordStep

LEMMA TypeMonitor ==
  ASSUME TypeOK, MonitorStep \/ MonitorRedisError
  PROVE  TypeOK'
<1> USE PipelineAssumption, NoUrlAssumption DEF TypeOK, MonitorUnchanged, redis, Booting
<1>1. CASE MonitorLoadOne
  <2>1. PICK u \in monitor.todo :
          AddRelay(u) /\ monitor' = [monitor EXCEPT !.todo = @ \ {u}]
    BY <1>1 DEF MonitorLoadOne
  <2>2. normalizeURL(u) \in Url
    BY <2>1, NormalizeURL
  <2> QED  BY <1>1, <2>1, <2>2 DEF MonitorLoadOne, AddRelay
<1>2. CASE MonitorReadWhitelist
  <2>1. PICK read \in {whitelist, {}} :
          monitor' = [monitor EXCEPT !.pc = "whitelist", !.todo = read]
    BY <1>2 DEF MonitorReadWhitelist
  <2>2. read \in SUBSET Url
    OBVIOUS
  <2> QED  BY <1>2, <2>1, <2>2 DEF MonitorReadWhitelist
<1>3. CASE MonitorReadSeen
  <2>1. {Bare(u) : u \in seen} \subseteq Url
    BY NormalizeURL
  <2>2. CASE /\ monitor' = [monitor EXCEPT !.pc = "seen", !.todo = seen]
             /\ UNCHANGED forgone
    <3>1. seen \in SUBSET Url
      OBVIOUS
    <3> QED  BY <1>3, <2>2, <3>1 DEF MonitorReadSeen
  <2>3. CASE /\ monitor' = [monitor EXCEPT !.pc = "seen"]
             /\ forgone' = forgone \cup {Bare(u) : u \in seen}
    <3>1. forgone' \subseteq Url
      BY <2>1, <2>3
    <3> QED  BY <1>3, <2>3, <3>1 DEF MonitorReadSeen
  <2> QED  BY <1>3, <2>2, <2>3 DEF MonitorReadSeen
<1>4. CASE MonitorLoaded
  BY <1>4 DEF MonitorLoaded
<1>5. CASE MonitorSweepDone
  BY <1>5 DEF MonitorSweepDone
<1>6. CASE MonitorTick
  BY <1>6 DEF MonitorTick
<1>7. CASE MonitorReceive
  <2>1. normalizeURL(Head(discoveryInput)) \in Url
    BY <1>7, NormalizeURL, ChannelReceive DEF MonitorReceive
  <2>2. discoveryInput' \in Seq(Url) /\ Len(discoveryInput') =< InputBuffer
    BY <1>7, ChannelReceive, LenNat DEF MonitorReceive
  <2> QED  BY <1>7, <2>1, <2>2 DEF MonitorReceive
<1>8. CASE MonitorCheckBlacklist
  <2>1. Bare(monitor.url) \in Url
    BY <1>8, NormalizeURL DEF MonitorCheckBlacklist
  <2> QED  BY <1>8, <2>1 DEF MonitorCheckBlacklist
<1>9. CASE MonitorAdd
  <2>1. normalizeURL(monitor.url) \in Url
    BY <1>9, NormalizeURL DEF MonitorAdd
  <2> QED  BY <1>9, <2>1 DEF MonitorAdd, AddRelay
<1>10. CASE MonitorRedisError
  <2>1. Bare(monitor.url) \in Url
    BY <1>10, NormalizeURL DEF MonitorRedisError
  <2> QED  BY <1>10, <2>1 DEF MonitorRedisError
<1> QED
  BY <1>1, <1>2, <1>3, <1>4, <1>5, <1>6, <1>7, <1>8, <1>9, <1>10 DEF MonitorStep

LEMMA TypeAdmin ==
  ASSUME TypeOK, AdminStep, ~AdminSubmit
  PROVE  TypeOK'
<1> USE PipelineAssumption, NoUrlAssumption DEF TypeOK, AdminUnchanged, IdleAdmin
<1>1. ASSUME NEW h \in Handlers, NEW u \in AdminUrls, AdminBlacklistPost(h, u)
      PROVE  TypeOK'
  <2> DEFINE request == [pc |-> "unmonitor", url |-> u]
  <2>1. request \in [pc : {"idle", "unmonitor", "monitor"}, url : Url \cup {NoUrl}]
    OBVIOUS
  <2>2. /\ admin' \in [Handlers -> [pc : {"idle", "unmonitor", "monitor"},
                                   url : Url \cup {NoUrl}]]
        /\ \A i \in Handlers : admin'[i].pc # "idle" => admin'[i].url \in Url
    <3>1. CASE admin' = [admin EXCEPT ![h] = request]
      BY <2>1, <3>1
    <3>2. CASE UNCHANGED admin
      BY <3>2
    <3> QED  BY <1>1, <3>1, <3>2 DEF AdminBlacklistPost
  <2> QED  BY <1>1, <2>2 DEF AdminBlacklistPost
<1>2. ASSUME NEW h \in Handlers, NEW u \in AdminUrls, AdminWhitelistPost(h, u)
      PROVE  TypeOK'
  <2> DEFINE request == [pc |-> "monitor", url |-> u]
  <2>1. request \in [pc : {"idle", "unmonitor", "monitor"}, url : Url \cup {NoUrl}]
    OBVIOUS
  <2>2. /\ admin' \in [Handlers -> [pc : {"idle", "unmonitor", "monitor"},
                                   url : Url \cup {NoUrl}]]
        /\ \A i \in Handlers : admin'[i].pc # "idle" => admin'[i].url \in Url
    <3>1. CASE admin' = [admin EXCEPT ![h] = request]
      BY <2>1, <3>1
    <3>2. CASE UNCHANGED admin
      BY <3>2
    <3> QED  BY <1>2, <3>1, <3>2 DEF AdminWhitelistPost
  <2> QED  BY <1>2, <2>2 DEF AdminWhitelistPost
<1>3. ASSUME NEW h \in Handlers, AdminUnmonitor(h)
      PROVE  TypeOK'
  <2>1. normalizeURL(admin[h].url) \in Url /\ Bare(admin[h].url) \in Url
    BY <1>3, NormalizeURL DEF AdminUnmonitor
  <2> QED  BY <1>3, <2>1 DEF AdminUnmonitor, RemoveRelay
<1>4. ASSUME NEW h \in Handlers, AdminMonitor(h)
      PROVE  TypeOK'
  <2>1. normalizeURL(admin[h].url) \in Url
    BY <1>4, NormalizeURL DEF AdminMonitor
  <2> QED  BY <1>4, <2>1 DEF AdminMonitor, AddRelay
<1>5. ASSUME NEW u \in AdminUrls, AdminRelayDelete(u)
      PROVE  TypeOK'
  <2>1. Bare(reconstructRelayURL(u)) \in Url
    BY ReconstructRelayURL, NormalizeURL
  <2> QED  BY <1>5, <2>1 DEF AdminRelayDelete, RemoveRelay
<1>6. ASSUME NEW u \in AdminUrls, AdminBlacklistDelete(u)
      PROVE  TypeOK'
  BY <1>6 DEF AdminBlacklistDelete
<1>7. ASSUME NEW u \in AdminUrls, AdminWhitelistDelete(u)
      PROVE  TypeOK'
  BY <1>7 DEF AdminWhitelistDelete
<1> QED  BY <1>1, <1>2, <1>3, <1>4, <1>5, <1>6, <1>7 DEF AdminStep, AdminChange

LEMMA TypeRestart ==
  ASSUME TypeOK, Restart
  PROVE  TypeOK'
BY PipelineAssumption, NoUrlAssumption
DEF TypeOK, Restart, IdleCoord, IdleAdmin, BootMonitor, Booting, redis

LEMMA TypeStep ==
  ASSUME TypeOK, [Next]_vars
  PROVE  TypeOK'
<1>1. CASE UNCHANGED vars
  BY <1>1 DEF TypeOK, vars, redis, history
<1> QED
  BY <1>1, TypeSubmit, TypeCoord, TypeMonitor, TypeAdmin, TypeRestart DEF Next

\* Every variable keeps its type; the channels keep within their capacity.
THEOREM TypeCorrect == Spec => []TypeOK
BY TypeInit, TypeStep, PTL DEF Spec

----------------------------------------------------------------------------
(* What the goroutines other than the coordinator leave alone *)

\* Only the coordinator writes discovery:seen, sends to the monitor and moves
\* its own program counter, except for a restart, which idles it.
LEMMA OthersKeepSeen ==
  ASSUME [Next]_vars, ~CoordStep, ~CoordRedisError
  PROVE  /\ seen' = seen
         /\ forwarded' = forwarded
         /\ coord' = coord \/ coord' = IdleCoord
<1>1. CASE Discover \/ AdminSubmit
  BY <1>1 DEF Discover, AdminSubmit, Submit, redis, history
<1>2. CASE MonitorStep \/ MonitorRedisError
  BY <1>2 DEF MonitorStep, MonitorRedisError, MonitorLoadOne, MonitorReadWhitelist,
    MonitorReadSeen, MonitorLoaded, MonitorSweepDone, MonitorTick, MonitorReceive,
    MonitorCheckBlacklist, MonitorAdd, MonitorUnchanged, redis
<1>3. CASE AdminStep /\ ~AdminSubmit
  BY <1>3 DEF AdminStep, AdminChange, AdminBlacklistPost, AdminUnmonitor, AdminWhitelistPost,
    AdminMonitor, AdminRelayDelete, AdminBlacklistDelete, AdminWhitelistDelete,
    AdminUnchanged
<1>4. CASE Restart
  BY <1>4 DEF Restart, redis
<1>5. CASE UNCHANGED vars
  BY <1>5 DEF vars, redis, history
<1> QED  BY <1>1, <1>2, <1>3, <1>4, <1>5 DEF Next

----------------------------------------------------------------------------
(* A URL is forwarded at most once *)

\* What makes the property inductive: a URL not yet marked was never sent, and
\* the coordinator is about to send only one it has just marked.
ForwardInv ==
  /\ ForwardedAtMostOnce
  /\ \A u \in Url \ seen : forwarded[u] = 0
  /\ coord.pc = "send" => coord.url \in seen /\ forwarded[coord.url] = 0

LEMMA ForwardInit == Init => ForwardInv
BY DEF Init, ForwardInv, ForwardedAtMostOnce, IdleCoord

LEMMA ForwardStep ==
  ASSUME TypeOK, ForwardInv, [Next]_vars
  PROVE  ForwardInv'
<1> USE DEF ForwardInv, ForwardedAtMostOnce
<1>1. CASE CoordReceive
  BY <1>1 DEF CoordReceive, IdleCoord
<1>2. CASE CoordCheckBlacklist
  BY <1>2 DEF CoordCheckBlacklist, IdleCoord, TypeOK
<1>3. CASE CoordMarkSeen
  BY <1>3 DEF CoordMarkSeen, IdleCoord, TypeOK
<1>4. CASE CoordForward
  <2>1. coord.url \in seen /\ forwarded[coord.url] = 0 /\ coord.url \in Url
    BY <1>4 DEF CoordForward, TypeOK
  <2>2. \/ forwarded' = forwarded
        \/ forwarded' = [forwarded EXCEPT ![coord.url] = 1]
    BY <1>4, <2>1 DEF CoordForward
  <2>3. coord' = IdleCoord /\ seen' = seen
    BY <1>4 DEF CoordForward
  <2>4. forwarded \in [Url -> Nat]
    BY DEF TypeOK
  <2> QED  BY <2>1, <2>2, <2>3, <2>4 DEF IdleCoord
<1>5. CASE CoordRedisError
  BY <1>5 DEF CoordRedisError, IdleCoord
<1>6. CASE ~CoordStep /\ ~CoordRedisError
  BY <1>6, OthersKeepSeen DEF IdleCoord
<1> QED  BY <1>1, <1>2, <1>3, <1>4, <1>5, <1>6 DEF CoordStep

\* The coordinator hands each URL to the monitor at most once, however often it
\* is discovered and however often the process restarts.
THEOREM ForwardedOnce == Spec => []ForwardedAtMostOnce
<1>1. TypeOK /\ ForwardInv /\ [Next]_vars => ForwardInv'
  BY ForwardStep
<1>2. ForwardInv => ForwardedAtMostOnce
  BY DEF ForwardInv
<1> QED  BY TypeCorrect, ForwardInit, <1>1, <1>2, PTL DEF Spec

----------------------------------------------------------------------------
(* A monitored relay is recorded *)

\* The spelling u names a relay that a durable record admits.
Recorded(u) == \E a \in Admitted : Bare(a) = Bare(u)

\* Every URL on its way to the monitor's map is recorded already.
RecordInv ==
  /\ MonitoredIsRecorded
  /\ coord.pc = "send" => coord.url \in seen
  /\ \A i \in 1..Len(discoveryInput) : discoveryInput[i] \in seen
  /\ monitor.pc \in {"check", "add"} => Recorded(monitor.url)
  /\ monitor.todo \subseteq Admitted
  /\ whitelist \subseteq everWhitelisted
  /\ \A h \in Handlers : admin[h].pc = "monitor" => admin[h].url \in everWhitelisted

\* No step withdraws a record.
LEMMA AdmittedGrows ==
  ASSUME [Next]_vars
  PROVE  seen \subseteq seen' /\ everWhitelisted \subseteq everWhitelisted'
<1>1. CASE CoordStep \/ CoordRedisError
  BY <1>1 DEF CoordStep, CoordRedisError, CoordReceive, CoordCheckBlacklist,
    CoordMarkSeen, CoordForward, CoordUnchanged
<1>2. ASSUME ~CoordStep, ~CoordRedisError
      PROVE  everWhitelisted \subseteq everWhitelisted'
  <2>1. CASE Discover \/ AdminSubmit
    BY <2>1 DEF Discover, AdminSubmit, Submit, redis, history
  <2>2. CASE MonitorStep \/ MonitorRedisError
    BY <2>2 DEF MonitorStep, MonitorRedisError, MonitorLoadOne, MonitorReadWhitelist,
      MonitorReadSeen, MonitorLoaded, MonitorSweepDone, MonitorTick, MonitorReceive,
      MonitorCheckBlacklist, MonitorAdd, MonitorUnchanged
  <2>3. CASE AdminStep /\ ~AdminSubmit
    BY <2>3 DEF AdminStep, AdminChange, AdminBlacklistPost, AdminUnmonitor, AdminWhitelistPost,
      AdminMonitor, AdminRelayDelete, AdminBlacklistDelete, AdminWhitelistDelete
  <2>4. CASE Restart
    BY <2>4 DEF Restart
  <2>5. CASE UNCHANGED vars
    BY <2>5 DEF vars, history
  <2> QED  BY <1>2, <2>1, <2>2, <2>3, <2>4, <2>5 DEF Next
<1> QED  BY <1>1, <1>2, OthersKeepSeen

\* A relay enters the monitor's map under normalizeURL of a recorded spelling.
LEMMA KnownGrowth ==
  ASSUME TypeOK, RecordInv, [Next]_vars, NEW k \in knownRelays' \ knownRelays
  PROVE  \E u \in Url : (u \in Admitted \/ Recorded(u)) /\ k = normalizeURL(u)
<1> USE DEF TypeOK, RecordInv
<1>1. CASE MonitorLoadOne
  BY <1>1 DEF MonitorLoadOne, AddRelay
<1>2. CASE MonitorAdd
  BY <1>2 DEF MonitorAdd, AddRelay
<1>3. ASSUME NEW h \in Handlers, AdminMonitor(h)
      PROVE  \E u \in Url : u \in Admitted /\ k = normalizeURL(u)
  <2>1. admin[h].url \in Url /\ admin[h].url \in Admitted
    BY <1>3 DEF AdminMonitor, Admitted
  <2> QED  BY <1>3, <2>1 DEF AdminMonitor, AddRelay
<1>4. CASE MonitorRedisError \/ (MonitorStep /\ ~MonitorLoadOne /\ ~MonitorAdd)
  BY <1>4 DEF MonitorRedisError, MonitorStep, MonitorReadWhitelist, MonitorReadSeen,
    MonitorLoaded, MonitorSweepDone, MonitorTick, MonitorReceive, MonitorCheckBlacklist
<1>5. CASE CoordStep \/ CoordRedisError
  BY <1>5 DEF CoordStep, CoordRedisError, CoordReceive, CoordCheckBlacklist,
    CoordMarkSeen, CoordForward, CoordUnchanged
<1>6. CASE Discover \/ AdminSubmit
  BY <1>6 DEF Discover, AdminSubmit, Submit
<1>7. CASE /\ AdminStep /\ ~AdminSubmit
           /\ \A h \in Handlers : ~AdminMonitor(h)
  BY <1>7 DEF AdminStep, AdminChange, AdminBlacklistPost, AdminUnmonitor, AdminWhitelistPost,
    AdminRelayDelete, AdminBlacklistDelete, AdminWhitelistDelete, RemoveRelay
<1>8. CASE Restart
  BY <1>8 DEF Restart
<1>9. CASE UNCHANGED vars
  BY <1>9 DEF vars
<1> QED  BY <1>1, <1>2, <1>3, <1>4, <1>5, <1>6, <1>7, <1>8, <1>9 DEF Next, MonitorStep

LEMMA RecordInit == Init => RecordInv
BY DEF Init, RecordInv, MonitoredIsRecorded, IdleCoord, IdleAdmin, BootMonitor, Admitted

LEMMA RecordStep ==
  ASSUME TypeOK, RecordInv, [Next]_vars
  PROVE  RecordInv'
<1> USE DEF TypeOK
<1>1. seen \subseteq seen' /\ everWhitelisted \subseteq everWhitelisted'
  BY AdmittedGrows
<1>2. Admitted \subseteq Admitted' /\ Admitted \subseteq Url
  BY <1>1, PipelineAssumption DEF Admitted
<1>3. ASSUME NEW u, Recorded(u)
      PROVE  \E a \in Admitted' : Bare(a) = Bare(u)
  BY <1>2, <1>3 DEF Recorded
<1>4. MonitoredIsRecorded'
  <2>1. ASSUME NEW k \in knownRelays'
        PROVE  \E a \in Admitted : Bare(a) = Bare(k)
    <3>1. CASE k \in knownRelays
      BY <3>1 DEF RecordInv, MonitoredIsRecorded
    <3>2. CASE k \notin knownRelays
      <4>1. PICK u \in Url : (u \in Admitted \/ Recorded(u)) /\ k = normalizeURL(u)
        BY <3>2, KnownGrowth
      <4> QED  BY <4>1, NormalizeURL DEF Recorded
    <3> QED  BY <3>1, <3>2
  <2> QED  BY <2>1, <1>2 DEF MonitoredIsRecorded
<1>5. (coord.pc = "send" => coord.url \in seen)'
  BY OthersKeepSeen, <1>1
  DEF RecordInv, CoordStep, CoordRedisError, CoordReceive, CoordCheckBlacklist,
    CoordMarkSeen, CoordForward, IdleCoord
<1>6. (\A i \in 1..Len(discoveryInput) : discoveryInput[i] \in seen)'
  <2>1. CASE CoordForward
    <3>1. coord.url \in seen /\ coord.url \in Url
      BY <2>1 DEF CoordForward, RecordInv
    <3>2. \/ discoveryInput' = discoveryInput
          \/ discoveryInput' = Append(discoveryInput, coord.url)
      BY <2>1 DEF CoordForward
    <3>3. discoveryInput \in Seq(Url)
      OBVIOUS
    <3>4. \A i \in 1..Len(discoveryInput) : discoveryInput[i] \in seen'
      BY <1>1 DEF RecordInv
    <3>5. CASE discoveryInput' = Append(discoveryInput, coord.url)
      <4> HIDE DEF TypeOK
      <4>1. SUFFICES ASSUME NEW i \in 1..Len(discoveryInput')
                     PROVE  discoveryInput'[i] \in seen'
        OBVIOUS
      <4>2. CASE i \in 1..Len(discoveryInput)
        BY <3>1, <3>3, <3>4, <3>5, <4>2, SendElements
      <4>3. CASE i = Len(discoveryInput) + 1
        BY <3>1, <3>3, <3>5, <4>3, <1>1, SendElements
      <4> QED  BY <3>1, <3>3, <3>5, <4>1, <4>2, <4>3, SendElements
    <3> QED  BY <3>2, <3>4, <3>5
  <2>2. CASE MonitorReceive
    <3>1. /\ discoveryInput \in Seq(Url) /\ discoveryInput # <<>>
          /\ discoveryInput' = Tail(discoveryInput)
      BY <2>2 DEF MonitorReceive
    <3>2. \A i \in 1..Len(discoveryInput) : discoveryInput[i] \in seen'
      BY <1>1 DEF RecordInv
    <3> QED  BY <3>1, <3>2, ReceiveElements
  <2>3. CASE discoveryInput' = discoveryInput \/ discoveryInput' = <<>>
    BY <2>3, <1>1 DEF RecordInv
  <2>4. CASE CoordRedisError \/ (CoordStep /\ ~CoordForward)
    BY <2>3, <2>4 DEF CoordStep, CoordRedisError, CoordReceive, CoordCheckBlacklist,
      CoordMarkSeen
  <2>5. CASE MonitorRedisError \/ (MonitorStep /\ ~MonitorReceive)
    BY <2>3, <2>5 DEF MonitorStep, MonitorRedisError, MonitorLoadOne,
      MonitorReadWhitelist, MonitorReadSeen, MonitorLoaded, MonitorSweepDone,
      MonitorTick, MonitorCheckBlacklist, MonitorAdd
  <2>6. CASE Discover \/ AdminSubmit \/ Restart \/ UNCHANGED vars
    BY <2>3, <2>6 DEF Discover, AdminSubmit, Submit, Restart, vars
  <2>7. CASE AdminStep /\ ~AdminSubmit
    BY <2>3, <2>7 DEF AdminStep, AdminChange, AdminBlacklistPost, AdminUnmonitor, AdminWhitelistPost,
      AdminMonitor, AdminRelayDelete, AdminBlacklistDelete, AdminWhitelistDelete,
      AdminUnchanged
  <2> QED  BY <2>1, <2>2, <2>4, <2>5, <2>6, <2>7 DEF Next, CoordStep, MonitorStep
<1>7. (/\ monitor.pc \in {"check", "add"} => Recorded(monitor.url)
       /\ monitor.todo \subseteq Admitted)'
  <2>1. CASE MonitorLoadOne
    BY <2>1, <1>2 DEF MonitorLoadOne, RecordInv, Booting
  <2>2. CASE MonitorReadWhitelist
    BY <2>2, <1>2 DEF MonitorReadWhitelist, RecordInv, Admitted
  <2>3. CASE MonitorReadSeen
    BY <2>3, <1>2 DEF MonitorReadSeen, RecordInv, Admitted
  <2>4. CASE MonitorReceive
    <3>1. Head(discoveryInput) \in Url /\ Head(discoveryInput) \in seen
      BY <2>4, ReceiveElements, ChannelReceive DEF MonitorReceive, RecordInv
    <3>2. Recorded(normalizeURL(Head(discoveryInput)))
      BY <3>1, NormalizeURL DEF Recorded, Admitted
    <3>3. \E a \in Admitted' : Bare(a) = Bare(normalizeURL(Head(discoveryInput)))
      BY <3>2, <1>3
    <3>4. monitor'.url = normalizeURL(Head(discoveryInput)) /\ monitor'.todo = monitor.todo
      BY <2>4 DEF MonitorReceive
    <3>5. Recorded(monitor.url)'
      BY <3>3, <3>4 DEF Recorded
    <3> QED  BY <3>4, <3>5, <1>2 DEF RecordInv
  <2>5. CASE MonitorRedisError \/ MonitorLoaded \/ MonitorSweepDone \/ MonitorTick
             \/ MonitorCheckBlacklist \/ MonitorAdd
    BY <2>5, <1>2, <1>3 DEF Recorded, MonitorRedisError, MonitorLoaded, MonitorSweepDone,
      MonitorTick, MonitorCheckBlacklist, MonitorAdd, RecordInv
  <2>6. CASE UNCHANGED monitor
    BY <2>6, <1>2, <1>3 DEF RecordInv, Recorded
  <2>7. CASE CoordStep \/ CoordRedisError
    BY <2>6, <2>7 DEF CoordStep, CoordRedisError, CoordReceive, CoordCheckBlacklist,
      CoordMarkSeen, CoordForward, CoordUnchanged
  <2>8. CASE Discover \/ AdminSubmit \/ UNCHANGED vars
    BY <2>6, <2>8 DEF Discover, AdminSubmit, Submit, vars
  <2>9. CASE AdminStep /\ ~AdminSubmit
    BY <2>6, <2>9 DEF AdminStep, AdminChange, AdminBlacklistPost, AdminUnmonitor, AdminWhitelistPost,
      AdminMonitor, AdminRelayDelete, AdminBlacklistDelete, AdminWhitelistDelete,
      AdminUnchanged
  <2>10. CASE Restart
    BY <2>10, <1>2 DEF Restart, BootMonitor, Admitted
  <2> QED
    BY <2>1, <2>2, <2>3, <2>4, <2>5, <2>7, <2>8, <2>9, <2>10 DEF Next, MonitorStep
<1>8. (whitelist \subseteq everWhitelisted)'
  <2>1. CASE UNCHANGED <<whitelist, everWhitelisted>>
    BY <2>1 DEF RecordInv
  <2>2. CASE CoordStep \/ CoordRedisError
    BY <2>1, <2>2 DEF CoordStep, CoordRedisError, CoordReceive, CoordCheckBlacklist,
      CoordMarkSeen, CoordForward, CoordUnchanged
  <2>3. CASE MonitorStep \/ MonitorRedisError
    BY <2>1, <2>3 DEF MonitorStep, MonitorRedisError, MonitorLoadOne,
      MonitorReadWhitelist, MonitorReadSeen, MonitorLoaded, MonitorSweepDone,
      MonitorTick, MonitorReceive, MonitorCheckBlacklist, MonitorAdd, MonitorUnchanged,
      redis
  <2>4. CASE Discover \/ AdminSubmit \/ Restart \/ UNCHANGED vars
    BY <2>1, <2>4 DEF Discover, AdminSubmit, Submit, Restart, vars, redis, history
  <2>5. CASE AdminStep /\ ~AdminSubmit
    BY <2>5 DEF RecordInv, AdminStep, AdminChange, AdminBlacklistPost, AdminUnmonitor,
      AdminWhitelistPost, AdminMonitor, AdminRelayDelete, AdminBlacklistDelete,
      AdminWhitelistDelete
  <2> QED  BY <2>2, <2>3, <2>4, <2>5 DEF Next
<1>9. (\A h \in Handlers : admin[h].pc = "monitor" => admin[h].url \in everWhitelisted)'
  <2>1. CASE UNCHANGED admin
    BY <2>1, <1>1 DEF RecordInv
  <2>2. CASE CoordStep \/ CoordRedisError
    BY <2>1, <2>2 DEF CoordStep, CoordRedisError, CoordReceive, CoordCheckBlacklist,
      CoordMarkSeen, CoordForward, CoordUnchanged
  <2>3. CASE MonitorStep \/ MonitorRedisError
    BY <2>1, <2>3 DEF MonitorStep, MonitorRedisError, MonitorLoadOne,
      MonitorReadWhitelist, MonitorReadSeen, MonitorLoaded, MonitorSweepDone,
      MonitorTick, MonitorReceive, MonitorCheckBlacklist, MonitorAdd, MonitorUnchanged
  <2>4. CASE Discover \/ AdminSubmit \/ UNCHANGED vars
    BY <2>1, <2>4 DEF Discover, AdminSubmit, Submit, vars
  <2>5. CASE Restart
    BY <2>5 DEF Restart, IdleAdmin
  <2>6. ASSUME NEW h \in Handlers, NEW u \in AdminUrls,
               AdminBlacklistPost(h, u) \/ AdminWhitelistPost(h, u)
        PROVE  (\A g \in Handlers :
                  admin[g].pc = "monitor" => admin[g].url \in everWhitelisted)'
    BY <2>6, <1>1 DEF AdminBlacklistPost, AdminWhitelistPost, RecordInv
  <2>7. ASSUME NEW h \in Handlers, AdminUnmonitor(h) \/ AdminMonitor(h)
        PROVE  (\A g \in Handlers :
                  admin[g].pc = "monitor" => admin[g].url \in everWhitelisted)'
    <3>1. admin' = [admin EXCEPT ![h] = IdleAdmin]
      BY <2>7 DEF AdminUnmonitor, AdminMonitor
    <3>2. \A g \in Handlers : admin'[g] = admin[g] \/ admin'[g] = IdleAdmin
      BY <3>1
    <3>3. ASSUME NEW g \in Handlers, admin'[g].pc = "monitor"
          PROVE  admin'[g].url \in everWhitelisted'
      <4>1. admin'[g] = admin[g]
        BY <3>2, <3>3 DEF IdleAdmin
      <4> QED  BY <3>3, <4>1, <1>1 DEF RecordInv
    <3> QED  BY <3>3
  <2>8. ASSUME NEW u \in AdminUrls,
               AdminRelayDelete(u) \/ AdminBlacklistDelete(u) \/ AdminWhitelistDelete(u)
        PROVE  UNCHANGED admin
    BY <2>8 DEF AdminRelayDelete, AdminBlacklistDelete, AdminWhitelistDelete
  <2> QED
    BY <2>1, <2>2, <2>3, <2>4, <2>5, <2>6, <2>7, <2>8 DEF Next, AdminStep, AdminChange
<1> QED  BY <1>4, <1>5, <1>6, <1>7, <1>8, <1>9 DEF RecordInv

\* Every monitored relay is a seed or was recorded in Redis first.
THEOREM MonitoredRecorded == Spec => []MonitoredIsRecorded
<1>1. TypeOK /\ RecordInv /\ [Next]_vars => RecordInv'
  BY RecordStep
<1>2. RecordInv => MonitoredIsRecorded
  BY DEF RecordInv
<1> QED  BY TypeCorrect, RecordInit, <1>1, <1>2, PTL DEF Spec
----------------------------------------------------------------------------
(* No discovery is forgotten *)

Settled(u) == Monitored(u) \/ Bare(u) \in forgone

\* AddRelay and RemoveRelay leave no relay neither monitored nor given up.
LEMMA AddSettles ==
  ASSUME NEW w \in Url, AddRelay(w)
  PROVE  /\ \A u : Settled(u) => Settled(u)'
         /\ \A u : Bare(u) = Bare(w) => Settled(u)'
<1>1. normalizeURL(w) \in knownRelays' /\ Bare(normalizeURL(w)) = Bare(w)
  BY NormalizeURL DEF AddRelay
<1>2. \A u : Bare(u) = Bare(w) => Monitored(u)'
  BY <1>1 DEF Monitored
<1>3. ASSUME NEW u, Settled(u), Bare(u) # Bare(w)
      PROVE  Settled(u)'
  BY <1>3 DEF Settled, Monitored, AddRelay
<1> QED  BY <1>2, <1>3 DEF Settled

LEMMA RemoveSettles ==
  ASSUME NEW w \in Url, RemoveRelay(w)
  PROVE  \A u : Settled(u) => Settled(u)'
<1>1. Bare(normalizeURL(w)) = Bare(w)
  BY NormalizeURL
<1>2. ASSUME NEW u, NEW k \in knownRelays, Bare(k) = Bare(u), Bare(u) # Bare(w)
      PROVE  Monitored(u)'
  BY <1>1, <1>2 DEF Monitored, RemoveRelay
<1> QED  BY <1>2 DEF Settled, Monitored, RemoveRelay

\* The coordinator: a URL it marks is one it sends next, or one it gives up.
LEMMA CoordKeepsTrack ==
  ASSUME TypeOK, NothingForgotten, CoordStep \/ CoordRedisError
  PROVE  NothingForgotten'
<1> SUFFICES ASSUME NEW u \in seen'
             PROVE  (Settled(u) \/ Pending(u))'
  BY DEF NothingForgotten, Settled
<1>1. u \in seen => Settled(u) \/ Pending(u)
  BY DEF NothingForgotten, Settled
<1> USE DEF CoordUnchanged, IdleCoord
<1>2. CASE CoordReceive \/ CoordCheckBlacklist
  BY <1>1, <1>2 DEF CoordReceive, CoordCheckBlacklist, Settled, Monitored, Pending, InInput
<1>3. CASE CoordMarkSeen
  <2>1. CASE u \in seen
    BY <1>1, <1>3, <2>1 DEF CoordMarkSeen, Settled, Monitored, Pending, InInput
  <2>2. CASE u \notin seen
    BY <1>3, <2>2 DEF CoordMarkSeen, Pending, TypeOK
  <2> QED  BY <2>1, <2>2
<1>4. CASE CoordRedisError
  BY <1>1, <1>4 DEF CoordRedisError, Settled, Monitored, Pending, InInput
<1>5. CASE CoordForward
  <2>1. u \in seen /\ coord.url \in Url /\ discoveryInput \in Seq(Url)
    BY <1>5 DEF CoordForward, TypeOK
  <2>2. CASE discoveryInput' = Append(discoveryInput, coord.url)
    <3>1. ASSUME InInput(u) \/ u = coord.url
          PROVE  InInput(u)'
      <4> DEFINE q == discoveryInput
      <4>1. /\ \A i \in 1..Len(q) : i \in 1..Len(q') /\ q'[i] = q[i]
            /\ Len(q) + 1 \in 1..Len(q') /\ q'[Len(q) + 1] = coord.url
        BY <2>1, <2>2, SendElements, ChannelSend, LenNat
      <4> QED  BY <3>1, <4>1 DEF InInput
    <3>2. UNCHANGED <<knownRelays, forgone, monitor>>
      <4>1. discoveryInput # Append(discoveryInput, coord.url)
        BY <2>1, ChannelSend, LenNat
      <4> QED  BY <1>5, <2>2, <4>1 DEF CoordForward
    <3> QED  BY <1>1, <2>1, <3>1, <3>2 DEF Settled, Monitored, Pending
  <2>3. CASE discoveryInput' # Append(discoveryInput, coord.url)
    BY <1>1, <1>5, <2>1, <2>3 DEF CoordForward, Settled, Monitored, Pending, InInput
  <2> QED  BY <2>2, <2>3
<1> QED  BY <1>2, <1>3, <1>4, <1>5 DEF CoordStep

\* The monitor: a URL it takes from its channel, or has loaded, it adds or gives up.
LEMMA MonitorKeepsTrack ==
  ASSUME TypeOK, NothingForgotten, MonitorStep \/ MonitorRedisError
  PROVE  NothingForgotten'
<1> SUFFICES ASSUME NEW u \in seen
             PROVE  (Settled(u) \/ Pending(u))'
  BY DEF NothingForgotten, Settled, MonitorStep, MonitorRedisError, MonitorLoadOne,
    MonitorReadWhitelist, MonitorReadSeen, MonitorLoaded, MonitorSweepDone, MonitorTick,
    MonitorReceive, MonitorCheckBlacklist, MonitorAdd, MonitorUnchanged, redis
<1>1. Settled(u) \/ Pending(u)
  BY DEF NothingForgotten, Settled
<1> USE DEF MonitorUnchanged, Booting
<1>2. CASE MonitorLoadOne
  <2>1. PICK w \in monitor.todo :
          AddRelay(w) /\ monitor' = [monitor EXCEPT !.todo = @ \ {w}]
    BY <1>2 DEF MonitorLoadOne
  <2>2. w \in Url
    BY <2>1 DEF TypeOK
  <2>3. Settled(u) => Settled(u)'
    BY <2>1, <2>2, AddSettles
  <2>4. u = w => Settled(u)'
    BY <2>1, <2>2, AddSettles
  <2>5. u # w /\ Pending(u) => Pending(u)'
    BY <1>2, <2>1 DEF MonitorLoadOne, Pending, InInput, TypeOK
  <2> QED  BY <1>1, <2>3, <2>4, <2>5
<1>3. CASE MonitorReadWhitelist
  BY <1>3 DEF MonitorReadWhitelist, Pending, TypeOK
<1>4. CASE MonitorReadSeen
  <2>1. CASE monitor' = [monitor EXCEPT !.pc = "seen", !.todo = seen]
    BY <2>1 DEF Pending, TypeOK
  <2>2. CASE Bare(u) \in forgone'
    BY <2>2 DEF Settled
  <2> QED  BY <1>4, <2>1, <2>2 DEF MonitorReadSeen
<1>5. CASE MonitorLoaded \/ MonitorSweepDone \/ MonitorTick
  BY <1>1, <1>5 DEF MonitorLoaded, MonitorSweepDone, MonitorTick, Settled, Monitored,
    Pending, InInput, TypeOK
<1>6. CASE MonitorReceive
  <2>1. /\ discoveryInput \in Seq(Url) /\ discoveryInput # <<>>
        /\ discoveryInput' = Tail(discoveryInput)
    BY <1>6 DEF MonitorReceive, TypeOK
  <2>2. monitor'.pc = "check" /\ monitor'.url = normalizeURL(Head(discoveryInput))
    BY <1>6 DEF MonitorReceive, TypeOK
  <2>3. ASSUME InInput(u)
        PROVE  Pending(u)'
    <3>1. PICK i \in 1..Len(discoveryInput) : discoveryInput[i] = u
      BY <2>3 DEF InInput
    <3>2. CASE i = 1
      <4>1. Head(discoveryInput) = u /\ u \in Url
        BY <2>1, <3>1, <3>2, ReceiveElements, ChannelReceive
      <4>2. Bare(monitor'.url) = Bare(u)
        BY <2>2, <4>1, NormalizeURL
      <4> QED  BY <2>2, <4>2 DEF Pending
    <3>3. CASE i # 1
      <4>1. /\ i - 1 \in 1..Len(discoveryInput')
            /\ discoveryInput'[i - 1] = u
        BY <2>1, <3>1, <3>3, ReceiveElements
      <4>2. InInput(u)'
        BY <4>1 DEF InInput
      <4> QED  BY <4>2 DEF Pending
    <3> QED  BY <3>2, <3>3
  <2>4. ASSUME ~InInput(u)
        PROVE  (Settled(u) \/ Pending(u))'
    BY <1>1, <1>6, <2>4 DEF MonitorReceive, Settled, Monitored, Pending
  <2> QED  BY <2>3, <2>4
<1>7. CASE MonitorCheckBlacklist \/ MonitorRedisError
  BY <1>1, <1>7 DEF MonitorCheckBlacklist, MonitorRedisError, Settled, Monitored,
    Pending, InInput, TypeOK
<1>8. CASE MonitorAdd
  <2>1. monitor.url \in Url /\ monitor.pc = "add"
    BY <1>8 DEF MonitorAdd, TypeOK
  <2>2. /\ Settled(u) => Settled(u)'
        /\ Bare(u) = Bare(monitor.url) => Settled(u)'
    <3>1. CASE monitor.url \in knownRelays
      BY <1>8, <3>1 DEF MonitorAdd, Settled, Monitored
    <3>2. CASE monitor.url \notin knownRelays
      <4>1. AddRelay(monitor.url)
        BY <1>8, <3>2 DEF MonitorAdd
      <4> QED  BY <2>1, <4>1, AddSettles
    <3> QED  BY <3>1, <3>2
  <2>3. Pending(u) /\ Bare(u) # Bare(monitor.url) => Pending(u)'
    BY <1>8, <2>1 DEF MonitorAdd, Pending, InInput
  <2> QED  BY <1>1, <2>2, <2>3
<1> QED  BY <1>2, <1>3, <1>4, <1>5, <1>6, <1>7, <1>8 DEF MonitorStep

\* The administrators: a relay they remove is given up by name.
LEMMA AdminKeepsTrack ==
  ASSUME TypeOK, NothingForgotten, AdminStep, ~AdminSubmit
  PROVE  NothingForgotten'
<1>1. UNCHANGED <<seen, coord, discoveryInput, monitor>>
  BY DEF AdminStep, AdminChange, AdminBlacklistPost, AdminUnmonitor, AdminWhitelistPost,
    AdminMonitor, AdminRelayDelete, AdminBlacklistDelete, AdminWhitelistDelete,
    AdminUnchanged
<1>2. \A u \in seen : Pending(u) => Pending(u)'
  BY <1>1 DEF Pending, InInput
<1>3. \A u \in seen : Settled(u) => Settled(u)'
  <2>1. ASSUME NEW h \in Handlers, AdminUnmonitor(h)
        PROVE  \A u \in seen : Settled(u) => Settled(u)'
    BY <2>1, RemoveSettles DEF AdminUnmonitor, TypeOK
  <2>2. ASSUME NEW h \in Handlers, AdminMonitor(h)
        PROVE  \A u \in seen : Settled(u) => Settled(u)'
    BY <2>2, AddSettles DEF AdminMonitor, TypeOK
  <2>3. ASSUME NEW path \in AdminUrls, AdminRelayDelete(path)
        PROVE  \A u \in seen : Settled(u) => Settled(u)'
    <3>1. reconstructRelayURL(path) \in Url
      BY ReconstructRelayURL, PipelineAssumption
    <3> QED  BY <2>3, <3>1, RemoveSettles DEF AdminRelayDelete
  <2>4. CASE UNCHANGED <<knownRelays, forgone>>
    BY <2>4 DEF Settled, Monitored
  <2> QED
    BY <2>1, <2>2, <2>3, <2>4 DEF AdminStep, AdminChange, AdminBlacklistPost,
      AdminWhitelistPost, AdminBlacklistDelete, AdminWhitelistDelete
<1> QED  BY <1>1, <1>2, <1>3 DEF NothingForgotten, Settled

LEMMA ForgottenStep ==
  ASSUME TypeOK, NothingForgotten, [Next]_vars
  PROVE  NothingForgotten'
<1>1. CASE Discover \/ AdminSubmit \/ UNCHANGED vars
  BY <1>1 DEF Discover, AdminSubmit, Submit, vars, redis, history, NothingForgotten,
    Monitored, Pending, InInput
<1>2. CASE Restart
  BY <1>2 DEF Restart, NothingForgotten, Pending, BootMonitor
<1> QED
  BY <1>1, <1>2, CoordKeepsTrack, MonitorKeepsTrack, AdminKeepsTrack DEF Next

\* A discovery that Redis will refuse from now on is monitored, on its way to the
\* monitor or to be loaded by it, or was given up where the code says so.
THEOREM DiscoveriesKept == Spec => []NothingForgotten
<1>1. Init => NothingForgotten
  BY DEF Init, NothingForgotten
<1>2. TypeOK /\ NothingForgotten /\ [Next]_vars => NothingForgotten'
  BY ForgottenStep
<1> QED  BY TypeCorrect, <1>1, <1>2, PTL DEF Spec
----------------------------------------------------------------------------
(* The pipeline implements RelayRegistry *)

\* The spellings being monitored, as the registry counts them.
Spellings == {Bare(k) : k \in knownRelays}

\* What the monitor's two methods are to the registry.
LEMMA AddIsMonitor ==
  ASSUME NEW w \in Url, AddRelay(w)
  PROVE  Spellings' = Spellings \cup {Bare(w)}
<1>1. knownRelays' = knownRelays \cup {normalizeURL(w)} /\ Bare(normalizeURL(w)) = Bare(w)
  BY NormalizeURL DEF AddRelay
<1> QED  BY <1>1 DEF Spellings

LEMMA RemoveIsUnmonitor ==
  ASSUME NEW w \in Url, RemoveRelay(w)
  PROVE  Spellings' = Spellings \/ Spellings' = Spellings \ {Bare(w)}
<1>1. knownRelays' = knownRelays \ {normalizeURL(w)} /\ Bare(normalizeURL(w)) = Bare(w)
  BY NormalizeURL DEF RemoveRelay
<1>2. \A b \in Spellings : b # Bare(w) => b \in Spellings'
  BY <1>1 DEF Spellings
<1>3. Spellings' \subseteq Spellings
  BY <1>1 DEF Spellings
<1> QED  BY <1>2, <1>3

\* A step of the registry, whichever it is.
RegistryStep ==
  \/ \E u \in Url :
       \/ Admitted' = Admitted \cup {u} /\ Spellings' = Spellings
       \/ u \in Admitted /\ Spellings' = Spellings \cup {Bare(u)} /\ Admitted' = Admitted
       \/ Spellings' = Spellings \ {Bare(u)} /\ Admitted' = Admitted
  \/ Spellings' = {} /\ Admitted' = Admitted
  \/ Spellings' = Spellings /\ Admitted' = Admitted

LEMMA CoordIsRegistry ==
  ASSUME TypeOK, CoordStep \/ CoordRedisError
  PROVE  RegistryStep
<1>1. knownRelays' = knownRelays /\ everWhitelisted' = everWhitelisted
  BY DEF CoordStep, CoordRedisError, CoordReceive, CoordCheckBlacklist, CoordMarkSeen,
    CoordForward, CoordUnchanged
<1>2. \/ seen' = seen
      \/ coord.url \in Url /\ seen' = seen \cup {coord.url}
  BY DEF CoordStep, CoordRedisError, CoordReceive, CoordCheckBlacklist, CoordMarkSeen,
    CoordForward, TypeOK
<1> QED  BY <1>1, <1>2 DEF RegistryStep, Spellings, Admitted

LEMMA MonitorIsRegistry ==
  ASSUME TypeOK, RecordInv, MonitorStep \/ MonitorRedisError
  PROVE  RegistryStep
<1>1. Admitted' = Admitted /\ Admitted \subseteq Url
  BY PipelineAssumption DEF TypeOK, Admitted, MonitorStep, MonitorRedisError,
    MonitorLoadOne, MonitorReadWhitelist, MonitorReadSeen, MonitorLoaded, MonitorSweepDone,
    MonitorTick, MonitorReceive, MonitorCheckBlacklist, MonitorAdd, MonitorUnchanged, redis
<1>2. CASE MonitorLoadOne
  <2>1. PICK w \in monitor.todo : AddRelay(w)
    BY <1>2 DEF MonitorLoadOne
  <2>2. w \in Admitted /\ w \in Url
    BY <2>1, <1>1 DEF RecordInv
  <2> QED  BY <1>1, <2>1, <2>2, AddIsMonitor DEF RegistryStep
<1>3. CASE MonitorAdd
  <2>1. CASE monitor.url \in knownRelays
    BY <1>1, <1>3, <2>1 DEF MonitorAdd, RegistryStep, Spellings
  <2>2. CASE monitor.url \notin knownRelays
    <3>1. monitor.url \in Url /\ AddRelay(monitor.url)
      BY <1>3, <2>2 DEF MonitorAdd, TypeOK
    <3>2. PICK a \in Admitted : Bare(a) = Bare(monitor.url)
      BY <1>3 DEF MonitorAdd, RecordInv, Recorded
    <3>3. Spellings' = Spellings \cup {Bare(a)}
      BY <3>1, <3>2, AddIsMonitor
    <3> QED  BY <1>1, <3>2, <3>3 DEF RegistryStep
  <2> QED  BY <2>1, <2>2
<1>4. CASE UNCHANGED knownRelays
  BY <1>1, <1>4 DEF RegistryStep, Spellings
<1> QED
  BY <1>2, <1>3, <1>4 DEF MonitorStep, MonitorRedisError, MonitorReadWhitelist,
    MonitorReadSeen, MonitorLoaded, MonitorSweepDone, MonitorTick, MonitorReceive,
    MonitorCheckBlacklist

LEMMA AdminIsRegistry ==
  ASSUME TypeOK, RecordInv, AdminStep, ~AdminSubmit
  PROVE  RegistryStep
<1>1. seen' = seen /\ Admitted \subseteq Url
  BY PipelineAssumption DEF TypeOK, Admitted, AdminStep, AdminChange, AdminBlacklistPost,
    AdminUnmonitor, AdminWhitelistPost, AdminMonitor, AdminRelayDelete,
    AdminBlacklistDelete, AdminWhitelistDelete, AdminUnchanged
<1>2. ASSUME NEW h \in Handlers, NEW u \in AdminUrls, AdminWhitelistPost(h, u)
      PROVE  RegistryStep
  <2>1. u \in Url /\ Admitted' = Admitted \cup {u} /\ Spellings' = Spellings
    BY <1>1, <1>2, PipelineAssumption DEF AdminWhitelistPost, Admitted, Spellings
  <2> QED  BY <2>1 DEF RegistryStep
<1>3. ASSUME NEW h \in Handlers, AdminUnmonitor(h)
      PROVE  RegistryStep
  <2>1. admin[h].url \in Url /\ Admitted' = Admitted
    BY <1>1, <1>3 DEF AdminUnmonitor, TypeOK, Admitted
  <2> QED  BY <1>3, <2>1, RemoveIsUnmonitor DEF AdminUnmonitor, RegistryStep
<1>4. ASSUME NEW h \in Handlers, AdminMonitor(h)
      PROVE  RegistryStep
  <2>1. admin[h].url \in Url /\ admin[h].url \in Admitted /\ Admitted' = Admitted
    BY <1>1, <1>4 DEF AdminMonitor, TypeOK, RecordInv, Admitted
  <2> QED  BY <1>4, <2>1, AddIsMonitor DEF AdminMonitor, RegistryStep
<1>5. ASSUME NEW path \in AdminUrls, AdminRelayDelete(path)
      PROVE  RegistryStep
  <2>1. reconstructRelayURL(path) \in Url /\ Admitted' = Admitted
    BY <1>1, <1>5, ReconstructRelayURL, PipelineAssumption DEF AdminRelayDelete, Admitted
  <2> QED  BY <1>5, <2>1, RemoveIsUnmonitor DEF AdminRelayDelete, RegistryStep
<1>6. CASE UNCHANGED <<knownRelays, everWhitelisted>>
  BY <1>1, <1>6 DEF RegistryStep, Spellings, Admitted
<1> QED
  BY <1>2, <1>3, <1>4, <1>5, <1>6 DEF AdminStep, AdminChange, AdminBlacklistPost,
    AdminBlacklistDelete, AdminWhitelistDelete

LEMMA StepIsRegistry ==
  ASSUME TypeOK, RecordInv, [Next]_vars
  PROVE  RegistryStep
<1>1. CASE Discover \/ AdminSubmit \/ UNCHANGED vars
  BY <1>1 DEF Discover, AdminSubmit, Submit, vars, redis, history, RegistryStep,
    Spellings, Admitted
<1>2. CASE Restart
  BY <1>2 DEF Restart, redis, RegistryStep, Spellings, Admitted
<1> QED
  BY <1>1, <1>2, CoordIsRegistry, MonitorIsRegistry, AdminIsRegistry DEF Next

\* Each step of the pipeline admits a relay, monitors one admitted before, stops
\* monitoring one, forgets what it monitors, or is none of the registry's business.
THEOREM PipelineImplementsRegistry == Spec => RefinesRegistry
<1>1. Init => Registry!Init
  BY DEF Init, Registry!Init, Admitted
<1>2. TypeOK /\ RecordInv /\ [Next]_vars
        => [Registry!Next]_<<Admitted, {Bare(k) : k \in knownRelays}>>
  <2> SUFFICES ASSUME TypeOK, RecordInv, [Next]_vars
               PROVE  [Registry!Next]_<<Admitted, {Bare(k) : k \in knownRelays}>>
    OBVIOUS
  <2>1. RegistryStep
    BY StepIsRegistry
  <2> QED
    BY <2>1 DEF RegistryStep, Spellings, Registry!Next, Registry!Admit,
      Registry!Monitor, Registry!Unmonitor, Registry!Restart
<1>3. TypeOK /\ RecordInv /\ [Next]_vars => RecordInv'
  BY RecordStep
<1> QED
  BY TypeCorrect, RecordInit, <1>1, <1>2, <1>3, PTL DEF Spec, RefinesRegistry, Registry!Spec
----------------------------------------------------------------------------
(* A barred relay stays out *)

\* What BarredStaysOut assumes of the spellings.
FewSlashes == \A u \in SourceUrls \cup AdminUrls : u.slashes =< 2

\* Each normalisation drops a slash: none is left when the monitor looks its
\* blacklist up, so that AddRelay adds what was looked up.
SlashInv ==
  /\ \A i \in 1..Len(discoveries) : discoveries[i].slashes =< 2
  /\ coord.pc # "idle" => coord.url.slashes =< 1
  /\ \A i \in 1..Len(discoveryInput) : discoveryInput[i].slashes =< 1
  /\ monitor.pc \in {"check", "add"} => monitor.url.slashes = 0

\* A relay is barred only while it is blacklisted, never while the monitor loads
\* its sets, and the monitor has no verdict to add it.
BarInv ==
  /\ barred \cap knownRelays = {}
  /\ barred \subseteq blacklist
  /\ monitor.pc \in Booting => barred = {}
  /\ monitor.pc = "add" => monitor.url \notin barred

LEMMA SlashDropped ==
  ASSUME NEW u \in Url
  PROVE  /\ u.slashes \in Nat
         /\ u.slashes =< 1 => normalizeURL(u).slashes = 0
         /\ u.slashes = 0 => normalizeURL(u) = u
         /\ u.slashes =< 2 /\ normalizeRelayURL(u) # NoUrl
              => normalizeRelayURL(u).slashes =< 1
<1>1. u.slashes \in Nat
  BY UrlAssumption DEF Url
<1> DEFINE n == IF u.slashes = 0 THEN 0 ELSE u.slashes - 1
<1>2. WithoutSlash(u) = [u EXCEPT !.slashes = n] /\ WithoutSlash(u).slashes = n
  BY DEF WithoutSlash, Url
<1>3. normalizeRelayURL(u) # NoUrl => normalizeRelayURL(u).slashes = n
  BY <1>2 DEF normalizeRelayURL, WithoutSlash, Url
<1>4. u.slashes = 0 => normalizeURL(u) = u
  BY <1>2 DEF normalizeURL, Url
<1> QED  BY <1>1, <1>2, <1>3, <1>4 DEF normalizeURL

LEMMA SlashStep ==
  ASSUME TypeOK, FewSlashes, SlashInv, [Next]_vars
  PROVE  SlashInv'
<1> USE DEF TypeOK
<1>1. CASE Discover \/ AdminSubmit
  <2>1. PICK u \in SourceUrls \cup AdminUrls : Submit(u)
    BY <1>1 DEF Discover, AdminSubmit
  <2>2. /\ u \in Url /\ u.slashes =< 2
        /\ discoveries \in Seq(Url) /\ discoveries' = Append(discoveries, u)
    BY <2>1, PipelineAssumption DEF FewSlashes, Submit
  <2>3. \A i \in 1..Len(discoveries') : discoveries'[i].slashes =< 2
    <3> HIDE DEF TypeOK
    <3> QED  BY <2>2, SendElements DEF SlashInv
  <2> QED  BY <2>1, <2>3 DEF Submit, SlashInv
<1>2. CASE CoordReceive
  <2>1. /\ discoveries \in Seq(Url) /\ discoveries # <<>>
        /\ discoveries' = Tail(discoveries)
    BY <1>2 DEF CoordReceive
  <2>2. Head(discoveries) \in Url /\ Head(discoveries).slashes =< 2
    BY <2>1, ReceiveElements, ChannelReceive DEF SlashInv
  <2>3. coord'.pc # "idle" => coord'.url.slashes =< 1
    BY <1>2, <2>2, SlashDropped DEF CoordReceive, IdleCoord
  <2>4. \A i \in 1..Len(discoveries') : discoveries'[i].slashes =< 2
    BY <2>1, ReceiveElements DEF SlashInv
  <2> QED  BY <1>2, <2>3, <2>4 DEF CoordReceive, CoordUnchanged, SlashInv
<1>3. CASE CoordCheckBlacklist \/ CoordMarkSeen \/ CoordRedisError
  BY <1>3 DEF CoordCheckBlacklist, CoordMarkSeen, CoordRedisError, CoordUnchanged,
    IdleCoord, SlashInv
<1>4. CASE CoordForward
  <2>1. /\ coord.url \in Url /\ coord.url.slashes =< 1
        /\ discoveryInput \in Seq(Url)
    BY <1>4 DEF CoordForward, SlashInv
  <2>2. \/ discoveryInput' = discoveryInput
        \/ discoveryInput' = Append(discoveryInput, coord.url)
    BY <1>4 DEF CoordForward
  <2>3. \A i \in 1..Len(discoveryInput') : discoveryInput'[i].slashes =< 1
    <3> HIDE DEF TypeOK
    <3> QED  BY <2>1, <2>2, SendElements DEF SlashInv
  <2> QED  BY <1>4, <2>3 DEF CoordForward, CoordUnchanged, IdleCoord, SlashInv
<1>5. CASE MonitorReceive
  <2>1. /\ discoveryInput \in Seq(Url) /\ discoveryInput # <<>>
        /\ discoveryInput' = Tail(discoveryInput)
    BY <1>5 DEF MonitorReceive
  <2>2. Head(discoveryInput) \in Url /\ Head(discoveryInput).slashes =< 1
    BY <2>1, ReceiveElements, ChannelReceive DEF SlashInv
  <2>3. monitor'.url.slashes = 0
    BY <1>5, <2>2, SlashDropped DEF MonitorReceive
  <2>4. \A i \in 1..Len(discoveryInput') : discoveryInput'[i].slashes =< 1
    BY <2>1, ReceiveElements DEF SlashInv
  <2> QED  BY <1>5, <2>3, <2>4 DEF MonitorReceive, MonitorUnchanged, SlashInv
<1>6. CASE MonitorRedisError \/ (MonitorStep /\ ~MonitorReceive)
  <2>1. UNCHANGED <<discoveries, coord, discoveryInput>>
    BY <1>6 DEF MonitorRedisError, MonitorStep, MonitorLoadOne, MonitorReadWhitelist,
      MonitorReadSeen, MonitorLoaded, MonitorSweepDone, MonitorTick,
      MonitorCheckBlacklist, MonitorAdd, MonitorUnchanged
  <2>2. monitor'.pc \in {"check", "add"}
          => monitor.pc = "check" /\ monitor'.url = monitor.url
    BY <1>6 DEF MonitorRedisError, MonitorStep, MonitorLoadOne, MonitorReadWhitelist,
      MonitorReadSeen, MonitorLoaded, MonitorSweepDone, MonitorTick,
      MonitorCheckBlacklist, MonitorAdd, Booting
  <2> QED  BY <2>1, <2>2 DEF SlashInv
<1>7. CASE AdminStep /\ ~AdminSubmit
  BY <1>7 DEF AdminStep, AdminChange, AdminBlacklistPost, AdminUnmonitor,
    AdminWhitelistPost, AdminMonitor, AdminRelayDelete, AdminBlacklistDelete,
    AdminWhitelistDelete, AdminUnchanged, SlashInv
<1>8. CASE Restart
  BY <1>8 DEF Restart, IdleCoord, BootMonitor, SlashInv
<1>9. CASE UNCHANGED vars
  BY <1>9 DEF vars, SlashInv
<1> QED
  BY <1>1, <1>2, <1>3, <1>4, <1>5, <1>6, <1>7, <1>8, <1>9 DEF Next, CoordStep, MonitorStep

LEMMA BarStep ==
  ASSUME TypeOK, SlashInv, BarInv, [Next]_vars
  PROVE  BarInv'
<1> USE DEF BarInv
<1>1. CASE Discover \/ AdminSubmit \/ UNCHANGED vars
  BY <1>1 DEF Discover, AdminSubmit, Submit, vars, redis, history
<1>2. CASE CoordStep \/ CoordRedisError
  BY <1>2 DEF CoordStep, CoordRedisError, CoordReceive, CoordCheckBlacklist,
    CoordMarkSeen, CoordForward, CoordUnchanged
<1>3. CASE MonitorLoadOne
  BY <1>3 DEF MonitorLoadOne, MonitorUnchanged, redis, TypeOK
<1>4. CASE MonitorAdd
  <2>1. /\ monitor.url \in Url /\ monitor.url.slashes = 0 /\ monitor.url \notin barred
        /\ monitor'.pc = "select"
    BY <1>4 DEF MonitorAdd, TypeOK, SlashInv
  <2>2. normalizeURL(monitor.url) = monitor.url
    BY <2>1, SlashDropped
  <2>3. knownRelays' \subseteq knownRelays \cup {monitor.url}
    BY <1>4, <2>2 DEF MonitorAdd, AddRelay
  <2> QED  BY <1>4, <2>1, <2>3 DEF MonitorAdd, MonitorUnchanged, redis, Booting
<1>5. CASE MonitorRedisError \/ (MonitorStep /\ ~MonitorLoadOne /\ ~MonitorAdd)
  <2>1. UNCHANGED <<knownRelays, barred, blacklist>>
    BY <1>5 DEF MonitorRedisError, MonitorStep, MonitorReadWhitelist, MonitorReadSeen,
      MonitorLoaded, MonitorSweepDone, MonitorTick, MonitorReceive,
      MonitorCheckBlacklist, MonitorUnchanged, redis
  <2>2. /\ monitor'.pc \in Booting => monitor.pc \in Booting
        /\ monitor'.pc = "add" => monitor'.url \notin blacklist
    BY <1>5 DEF MonitorRedisError, MonitorStep, MonitorReadWhitelist, MonitorReadSeen,
      MonitorLoaded, MonitorSweepDone, MonitorTick, MonitorReceive,
      MonitorCheckBlacklist, Booting, TypeOK
  <2> QED  BY <2>1, <2>2
<1>6. ASSUME NEW h \in Handlers, AdminUnmonitor(h)
      PROVE  BarInv'
  <2> DEFINE u == admin[h].url
  <2>1. /\ knownRelays' = knownRelays \ {normalizeURL(u)}
        /\ blacklist' = blacklist /\ monitor' = monitor
    BY <1>6 DEF AdminUnmonitor, RemoveRelay, AdminUnchanged
  <2>2. \/ barred' = barred
        \/ /\ barred' = barred \cup {u}
           /\ u \in blacklist /\ normalizeURL(u) = u
           /\ monitor.pc \notin Booting /\ ~(monitor.pc = "add" /\ monitor.url = u)
    BY <1>6 DEF AdminUnmonitor
  <2> HIDE DEF u
  <2> QED  BY <2>1, <2>2
<1>7. ASSUME NEW h \in Handlers, AdminMonitor(h)
      PROVE  BarInv'
  BY <1>7 DEF AdminMonitor, AddRelay, AdminUnchanged
<1>8. ASSUME NEW u \in AdminUrls,
             AdminRelayDelete(u) \/ AdminBlacklistDelete(u) \/ AdminWhitelistDelete(u)
      PROVE  BarInv'
  BY <1>8 DEF AdminRelayDelete, AdminBlacklistDelete, AdminWhitelistDelete,
    RemoveRelay, AdminUnchanged
<1>9. ASSUME NEW h \in Handlers, NEW u \in AdminUrls,
             AdminBlacklistPost(h, u) \/ AdminWhitelistPost(h, u)
      PROVE  BarInv'
  BY <1>9 DEF AdminBlacklistPost, AdminWhitelistPost, AdminUnchanged
<1>10. CASE Restart
  BY <1>10 DEF Restart, BootMonitor, redis
<1> QED
  BY <1>1, <1>2, <1>3, <1>4, <1>5, <1>6, <1>7, <1>8, <1>9, <1>10
  DEF Next, AdminStep, AdminChange, MonitorStep

\* Once a relay is blacklisted and removed, no interleaving of sources, coordinator,
\* monitor and requests brings it back, as long as no spelling has more slashes than
\* the normalisations drop before the monitor's blacklist check.
THEOREM BarredKeptOut == Spec => []BarredStaysOut
<1>1. FewSlashes /\ Init => SlashInv /\ BarInv
  BY DEF Init, SlashInv, BarInv, IdleCoord, BootMonitor
<1>2. FewSlashes /\ TypeOK /\ SlashInv /\ BarInv /\ [Next]_vars => SlashInv' /\ BarInv'
  BY SlashStep, BarStep
<1>3. BarInv => BarredStaysOut
  BY DEF BarInv, BarredStaysOut
<1>4. ~FewSlashes => BarredStaysOut
  BY DEF FewSlashes, BarredStaysOut
<1>5. ASSUME FewSlashes
      PROVE  Spec => []BarredStaysOut
  BY TypeCorrect, <1>1, <1>2, <1>3, <1>5, PTL DEF Spec
<1>6. ASSUME ~FewSlashes
      PROVE  Spec => []BarredStaysOut
  BY <1>4, <1>6, PTL
<1> QED  BY <1>5, <1>6
=============================================================================
