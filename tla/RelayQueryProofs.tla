--------------------------- MODULE RelayQueryProofs ---------------------------
(***************************************************************************)
(* Proofs about the relay entries, their index sets and the query handler, *)
(* for any queries, relays, index sets, writers and expiries: the types,   *)
(* that a set which lists an entry does not expire before it, and that a   *)
(* query without a failed read answers with every relay that matched all   *)
(* the while.                                                              *)
(***************************************************************************)
EXTENDS RelayQuery, TLAPS

----------------------------------------------------------------------------
(* Entries and index sets *)

\* Where a goroutine of SetRelayEntry is, without the count of path variants.
WriterRecord ==
  [pc : {"idle", "exists", "count", "set", "health", "add", "expire"},
   url : Urls \cup {None}, indexed : SUBSET IndexKeys,
   todo : SUBSET IndexKeys, key : IndexKeys \cup {None},
   counted : SUBSET PathVariants]

LEMMA BeginType ==
  ASSUME NEW w \in Writers, NEW u \in Urls, NEW keys \in SUBSET IndexKeys,
         CacheTypeOK, Begin(w, u, keys)
  PROVE  /\ writer' \in [Writers -> WriterRecord]
         /\ \A v \in Writers : writer'[v].pc # "idle" => writer'[v].url # None
<1>1. /\ [pc |-> IF u \in PathVariants THEN "exists" ELSE "set", url |-> u,
          indexed |-> keys, todo |-> keys, key |-> None, counted |-> {}] \in WriterRecord
      /\ u # None
  BY CacheAssumption DEF WriterRecord
<1>2. writer' = [writer EXCEPT ![w] =
        [pc |-> IF u \in PathVariants THEN "exists" ELSE "set", url |-> u,
         indexed |-> keys, todo |-> keys, key |-> None, counted |-> {}]]
  BY DEF Begin
<1> QED
  BY <1>1, <1>2 DEF CacheTypeOK, WriterRecord

LEMMA IdleType == IdleWriter \in WriterRecord /\ IdleWriter.pc = "idle"
  BY DEF IdleWriter, WriterRecord

\* A goroutine goes from one record of the type to another.
LEMMA WriterMoves ==
  ASSUME NEW w \in Writers, NEW r \in WriterRecord, CacheTypeOK,
         r.pc # "idle" => r.url # None,
         writer' = [writer EXCEPT ![w] = r],
         entries' \in [Urls -> Entry \cup {None}],
         index' \in [IndexKeys -> [members : SUBSET Urls, left : 1..Forever]],
         faults' \in 0..MaxFaults
  PROVE  CacheTypeOK'
  BY DEF CacheTypeOK, WriterRecord

LEMMA FaultsType ==
  ASSUME CacheTypeOK, Fail \/ UNCHANGED faults
  PROVE  faults' \in 0..MaxFaults
  BY CacheAssumption DEF CacheTypeOK, Fail

\* Every step keeps the types.
LEMMA CacheTypeStep == CacheTypeOK /\ [CacheNext]_cacheVars => CacheTypeOK'
<1> SUFFICES ASSUME CacheTypeOK, [CacheNext]_cacheVars PROVE CacheTypeOK'
  OBVIOUS
<1> USE CacheAssumption
<1> DEFINE Entries == entries' \in [Urls -> Entry \cup {None}]
           Index == index' \in [IndexKeys -> [members : SUBSET Urls, left : 1..Forever]]
<1>0. /\ UNCHANGED entries => Entries
      /\ UNCHANGED index => Index
      /\ writer \in [Writers -> WriterRecord]
      /\ \A v \in Writers : writer[v].pc # "idle" => writer[v].url # None
  BY DEF CacheTypeOK, WriterRecord
<1>1. ASSUME NEW w \in Writers, NEW u \in Urls, NEW keys \in SUBSET IndexKeys,
             StoreCheck(w, u, keys)
      PROVE  CacheTypeOK'
  BY <1>1, BeginType DEF StoreCheck, CacheTypeOK, WriterRecord
<1>2. ASSUME NEW w \in Writers, NEW u \in Urls, StoreReport(w, u)
      PROVE  CacheTypeOK'
  <2>1. entries[u].indexed \in SUBSET IndexKeys
    BY <1>2 DEF StoreReport, CacheTypeOK, Entry
  <2> QED
    BY <1>2, <2>1, BeginType DEF StoreReport, CacheTypeOK, WriterRecord
<1>3. ASSUME NEW w \in Writers, CheckExists(w) PROVE CacheTypeOK'
  <2> DEFINE r(pc, counted) == [writer[w] EXCEPT !.pc = pc, !.counted = counted]
  <2>1. writer[w] \in WriterRecord
    BY <1>0
  <2>2. r("set", writer[w].counted) \in WriterRecord
    BY <2>1 DEF WriterRecord
  <2>3. r("count", Present \cap PathVariants) \in WriterRecord
    <3> DEFINE c == Present \cap PathVariants
    <3>1. c \in SUBSET PathVariants
      OBVIOUS
    <3> HIDE DEF c
    <3>2. r("count", c) \in WriterRecord
      BY <2>1, <3>1 DEF WriterRecord
    <3> QED
      BY <3>2 DEF c
  <2>4. \/ writer' = [writer EXCEPT ![w] = r("count", Present \cap PathVariants)]
        \/ writer' = [writer EXCEPT ![w] = r("set", writer[w].counted)]
    BY <1>3, <1>0 DEF CheckExists, WriterRecord
  <2>5. faults' \in 0..MaxFaults
    BY <1>3, FaultsType DEF CheckExists
  <2>6. writer[w].url # None
    BY <1>3, <1>0 DEF CheckExists
  <2>7. r("count", Present \cap PathVariants).url # None /\ r("set", writer[w].counted).url # None
    BY <2>1, <2>6 DEF WriterRecord
  <2> HIDE DEF r
  <2>8. Entries /\ Index
    BY <1>3, <1>0 DEF CheckExists
  <2> QED
    BY <2>2, <2>3, <2>4, <2>5, <2>7, <2>8, WriterMoves
<1>4. ASSUME NEW w \in Writers, CountVariants(w) PROVE CacheTypeOK'
  <2>1. [writer[w] EXCEPT !.pc = "set"] \in WriterRecord
    BY <1>0 DEF WriterRecord
  <2>2. [writer[w] EXCEPT !.pc = "set"].url # None
    BY <1>4, <1>0 DEF CountVariants, WriterRecord
  <2>3. \/ writer' = [writer EXCEPT ![w] = [writer[w] EXCEPT !.pc = "set"]]
        \/ writer' = [writer EXCEPT ![w] = IdleWriter]
    BY <1>4, <1>0 DEF CountVariants
  <2>4. faults' \in 0..MaxFaults /\ Entries /\ Index
    BY <1>4, <1>0, FaultsType DEF CountVariants
  <2> QED
    BY <2>1, <2>2, <2>3, <2>4, IdleType, WriterMoves
<1>5. ASSUME NEW w \in Writers, SetEntry(w) PROVE CacheTypeOK'
  <2>1. [writer[w] EXCEPT !.pc = "health"] \in WriterRecord
    BY <1>0 DEF WriterRecord
  <2>2. [writer[w] EXCEPT !.pc = "health"].url # None
    BY <1>5, <1>0 DEF SetEntry, WriterRecord
  <2>3. \/ writer' = [writer EXCEPT ![w] = [writer[w] EXCEPT !.pc = "health"]]
        \/ writer' = [writer EXCEPT ![w] = IdleWriter]
    BY <1>5, <1>0 DEF SetEntry
  <2>4. [indexed |-> writer[w].indexed, left |-> TTL] \in Entry
    BY <1>0 DEF WriterRecord, Entry
  <2>5. Entries
    BY <1>5, <1>0, <2>4 DEF SetEntry, CacheTypeOK
  <2>6. faults' \in 0..MaxFaults /\ Index
    BY <1>5, <1>0, FaultsType DEF SetEntry
  <2> QED
    BY <2>1, <2>2, <2>3, <2>5, <2>6, IdleType, WriterMoves
<1>6. ASSUME NEW w \in Writers, SetHealth(w) PROVE CacheTypeOK'
  <2>1. /\ Indexing(w) \in WriterRecord
        /\ Indexing(w).pc # "idle" => Indexing(w).url # None
    BY <1>6, <1>0, IdleType DEF SetHealth, Indexing, WriterRecord
  <2>2. \/ writer' = [writer EXCEPT ![w] = Indexing(w)]
        \/ writer' = [writer EXCEPT ![w] = IdleWriter]
    BY <1>6 DEF SetHealth
  <2>3. faults' \in 0..MaxFaults /\ Entries /\ Index
    BY <1>6, <1>0, FaultsType DEF SetHealth
  <2> QED
    BY <2>1, <2>2, <2>3, IdleType, WriterMoves
<1>7. ASSUME NEW w \in Writers, NEW k \in IndexKeys, AddMember(w, k) PROVE CacheTypeOK'
  <2> DEFINE r == [writer[w] EXCEPT !.pc = "expire", !.key = k]
  <2>1. r \in WriterRecord /\ r.url # None
    <3>1. writer[w] \in WriterRecord /\ writer[w].url # None
      BY <1>7, <1>0 DEF AddMember
    <3> QED
      BY <3>1 DEF WriterRecord
  <2>2. writer' = [writer EXCEPT ![w] = r]
    BY <1>7, Zenon DEF AddMember
  <2>3. writer[w].url \in Urls
    BY <1>7, <1>0 DEF AddMember, WriterRecord
  <2>4. Index
    <3>1. CASE UNCHANGED index
      BY <3>1, <1>0
    <3>2. CASE index' = [index EXCEPT ![k].members = @ \cup {writer[w].url}]
      <4>1. index[k].members \cup {writer[w].url} \in SUBSET Urls
        BY <2>3 DEF CacheTypeOK
      <4>2. [index[k] EXCEPT !.members = @ \cup {writer[w].url}]
              \in [members : SUBSET Urls, left : 1..Forever]
        BY <4>1 DEF CacheTypeOK
      <4> QED
        BY <3>2, <4>2, <1>0 DEF CacheTypeOK
    <3> QED
      BY <1>7, <3>1, <3>2 DEF AddMember
  <2>5. faults' \in 0..MaxFaults /\ Entries
    BY <1>7, <1>0, FaultsType DEF AddMember
  <2> HIDE DEF r
  <2> QED
    BY <2>1, <2>2, <2>4, <2>5, WriterMoves
<1>8. ASSUME NEW w \in Writers, ExpireIndex(w) PROVE CacheTypeOK'
  <2>1. /\ AfterExpire(w) \in WriterRecord
        /\ AfterExpire(w).pc # "idle" => AfterExpire(w).url # None
    BY <1>8, <1>0, IdleType DEF ExpireIndex, AfterExpire, WriterRecord
  <2>2. writer' = [writer EXCEPT ![w] = AfterExpire(w)]
    BY <1>8 DEF ExpireIndex
  <2>3. Index
    BY <1>8, <1>0 DEF ExpireIndex, CacheTypeOK, Forever
  <2>4. faults' \in 0..MaxFaults /\ Entries
    BY <1>8, <1>0, FaultsType DEF ExpireIndex
  <2> QED
    BY <2>1, <2>2, <2>3, <2>4, WriterMoves
<1>9. CASE TimePasses
  <2>1. Entries
    BY <1>9 DEF TimePasses, CacheTypeOK, Entry
  <2>2. Index
    BY <1>9 DEF TimePasses, CacheTypeOK, Forever, NoIndex
  <2>3. ASSUME NEW v \in Writers
        PROVE  /\ writer'[v] \in WriterRecord
               /\ writer'[v].pc = writer[v].pc /\ writer'[v].url = writer[v].url
    <3>1. writer'[v] = [writer[v] EXCEPT !.counted = {u \in @ : entries[u].left > 1}]
      BY <1>9 DEF TimePasses
    <3> QED
      BY <3>1, <1>0 DEF WriterRecord
  <2>4. writer' \in [Writers -> WriterRecord]
    BY <1>9, <2>3 DEF TimePasses
  <2>5. \A v \in Writers : writer'[v].pc # "idle" => writer'[v].url # None
    BY <1>0, <2>3
  <2>6. faults' = faults /\ faults \in 0..MaxFaults
    BY <1>9 DEF TimePasses, CacheTypeOK
  <2> QED
    BY <2>1, <2>2, <2>4, <2>5, <2>6 DEF CacheTypeOK, WriterRecord
<1>10. CASE Restart
  <2>1. Entries
    BY <1>10 DEF Restart, CacheTypeOK
  <2>2. writer' \in [Writers -> WriterRecord] /\ \A v \in Writers : writer'[v].pc = "idle"
    BY <1>10, IdleType DEF Restart
  <2>3. faults' \in 0..MaxFaults /\ Index
    BY <1>10, <1>0, FaultsType DEF Restart
  <2> QED
    BY <2>1, <2>2, <2>3 DEF CacheTypeOK, WriterRecord
<1>11. CASE UNCHANGED cacheVars
  BY <1>11 DEF cacheVars, CacheTypeOK
<1> QED
  BY <1>1, <1>2, <1>3, <1>4, <1>5, <1>6, <1>7, <1>8, <1>9, <1>10, <1>11
  DEF CacheNext, CacheStep, WriterStep

\* The types of SetRelayEntry's state, of the entries and of the index sets.
THEOREM CacheTypeCorrect == CacheSpec => []CacheTypeOK
<1>1. CacheInit => CacheTypeOK
  BY CacheAssumption DEF CacheInit, CacheTypeOK, IdleWriter, NoIndex, Forever
<1> QED
  BY <1>1, CacheTypeStep, PTL DEF CacheSpec

----------------------------------------------------------------------------

\* Until the entry is written, all of its sets are yet to be updated.
TodoInv ==
  \A w \in Writers :
    writer[w].pc \in {"exists", "count", "set"} => writer[w].todo = writer[w].indexed

LEMMA TodoStep == CacheTypeOK /\ TodoInv /\ [CacheNext]_cacheVars => TodoInv'
<1> SUFFICES ASSUME CacheTypeOK, TodoInv, [CacheNext]_cacheVars, NEW v \in Writers,
                    writer'[v].pc \in {"exists", "count", "set"}
             PROVE  writer'[v].todo = writer'[v].indexed
  BY DEF TodoInv
<1>0. writer \in [Writers -> WriterRecord]
  BY DEF CacheTypeOK, WriterRecord
<1>1. ASSUME NEW w \in Writers, NEW u \in Urls, NEW keys \in SUBSET IndexKeys,
             Begin(w, u, keys)
      PROVE  writer'[v].todo = writer'[v].indexed
  BY <1>0, <1>1 DEF Begin, TodoInv
<1>2. ASSUME NEW w \in Writers, CheckExists(w) \/ CountVariants(w)
      PROVE  writer'[v].todo = writer'[v].indexed
  <2>1. /\ writer'[v].todo = writer[v].todo /\ writer'[v].indexed = writer[v].indexed
        /\ v = w \/ writer'[v].pc = writer[v].pc
    BY <1>0, <1>2 DEF CheckExists, CountVariants, WriterRecord, IdleWriter
  <2>2. writer[w].todo = writer[w].indexed
    BY <1>2 DEF TodoInv, CheckExists, CountVariants
  <2> QED
    BY <2>1, <2>2 DEF TodoInv
<1>3. ASSUME NEW w \in Writers,
             SetEntry(w) \/ SetHealth(w) \/ (\E k \in IndexKeys : AddMember(w, k))
               \/ ExpireIndex(w)
      PROVE  writer'[v].todo = writer'[v].indexed
  <2>1. CASE SetEntry(w)
    BY <1>0, <2>1 DEF SetEntry, TodoInv, WriterRecord, IdleWriter
  <2>2. CASE SetHealth(w)
    <3>1. writer'[w].pc \in {"idle", "add"}
      BY <1>0, <2>2 DEF SetHealth, Indexing, WriterRecord, IdleWriter
    <3>2. v # w => writer'[v] = writer[v]
      BY <1>0, <2>2 DEF SetHealth
    <3> QED
      BY <3>1, <3>2 DEF TodoInv
  <2>3. ASSUME NEW k \in IndexKeys, AddMember(w, k)
        PROVE  writer'[v].todo = writer'[v].indexed
    <3>1. writer' = [writer EXCEPT ![w] = [writer[w] EXCEPT !.pc = "expire", !.key = k]]
      BY <2>3, Zenon DEF AddMember
    <3>2. writer'[w].pc = "expire" /\ (v # w => writer'[v] = writer[v])
      BY <1>0, <3>1 DEF WriterRecord
    <3> QED
      BY <3>2 DEF TodoInv
  <2>4. CASE ExpireIndex(w)
    <3>1. writer'[w].pc \in {"idle", "add"}
      BY <1>0, <2>4 DEF ExpireIndex, AfterExpire, WriterRecord, IdleWriter
    <3>2. v # w => writer'[v] = writer[v]
      BY <1>0, <2>4 DEF ExpireIndex
    <3> QED
      BY <3>1, <3>2 DEF TodoInv
  <2> QED
    BY <1>3, <2>1, <2>2, <2>3, <2>4
<1>4. CASE TimePasses
  <2>1. writer'[v] = [writer[v] EXCEPT !.counted = {u \in @ : entries[u].left > 1}]
    BY <1>4 DEF TimePasses
  <2> QED
    BY <2>1, <1>0 DEF TodoInv, WriterRecord
<1>5. CASE Restart
  BY <1>5 DEF Restart, IdleWriter
<1>6. CASE UNCHANGED cacheVars
  BY <1>6 DEF cacheVars, TodoInv
<1>7. ASSUME NEW w \in Writers, NEW u \in Urls, StoreReport(w, u)
      PROVE  writer'[v].todo = writer'[v].indexed
  <2>1. entries[u].indexed \in SUBSET IndexKeys
    BY <1>7 DEF StoreReport, CacheTypeOK, Entry
  <2> QED
    BY <1>7, <2>1, <1>1 DEF StoreReport
<1>8. ASSUME NEW w \in Writers, NEW u \in Urls, NEW keys \in SUBSET IndexKeys,
             StoreCheck(w, u, keys)
      PROVE  writer'[v].todo = writer'[v].indexed
  BY <1>8, <1>1 DEF StoreCheck
<1> QED
  BY <1>2, <1>3, <1>4, <1>5, <1>6, <1>7, <1>8 DEF CacheNext, CacheStep, WriterStep

----------------------------------------------------------------------------

\* What the writers have yet to do for a set stays so when a goroutine moves that
\* was not to do it, or still is.
LEMMA PendingKept ==
  ASSUME NEW w \in Writers, NEW u \in Urls, NEW k \in IndexKeys, Pending(u, k),
         \A v \in Writers \ {w} : writer'[v] = writer[v],
         \/ writer[w].pc \notin {"health", "add", "expire"}
         \/ k \notin writer[w].todo
         \/ writer[w].url # u
         \/ /\ writer'[w].url = u /\ k \in writer'[w].todo
            /\ writer'[w].pc \in {"health", "add", "expire"}
  PROVE  Pending(u, k)'
  BY DEF Pending

LEMMA IndexStep ==
  CacheTypeOK /\ TodoInv /\ IndexOutlivesEntry /\ [CacheNext]_cacheVars
    => IndexOutlivesEntry'
<1> SUFFICES ASSUME CacheTypeOK, TodoInv, IndexOutlivesEntry, [CacheNext]_cacheVars,
                    faults' = 0, NEW u \in Urls, entries'[u] # None,
                    NEW k \in entries'[u].indexed
             PROVE  Pending(u, k)' \/ (u \in index'[k].members
                                         => index'[k].left >= entries'[u].left)
  BY DEF IndexOutlivesEntry, Present
<1> USE CacheAssumption
<1> DEFINE Goal == Pending(u, k)' \/ (u \in index'[k].members
                                         => index'[k].left >= entries'[u].left)
           Before == Pending(u, k) \/ (u \in index[k].members
                                         => index[k].left >= entries[u].left)
<1>0. /\ writer \in [Writers -> WriterRecord]
      /\ index \in [IndexKeys -> [members : SUBSET Urls, left : 1..Forever]]
      /\ faults \in Nat
      /\ ~Fail
  BY DEF CacheTypeOK, WriterRecord, Fail
<1>k. k \in IndexKeys /\ entries'[u] \in Entry /\ entries'[u].left \in 1..TTL
  BY CacheTypeStep DEF CacheTypeOK, Entry
<1>b. ASSUME UNCHANGED faults, entries[u] # None, k \in entries[u].indexed PROVE Before
  BY <1>b DEF IndexOutlivesEntry, Present
<1>1. ASSUME NEW w \in Writers, NEW r, NEW keys \in SUBSET IndexKeys,
             writer[w].pc = "idle", Begin(w, r, keys), UNCHANGED <<entries, index, faults>>
      PROVE  Goal
  BY <1>0, <1>k, <1>b, <1>1, PendingKept DEF Begin
<1>2. ASSUME NEW w \in Writers, CheckExists(w) \/ CountVariants(w) PROVE Goal
  <2>1. /\ UNCHANGED <<entries, index, faults>> /\ writer[w].pc \in {"exists", "count"}
        /\ \A v \in Writers \ {w} : writer'[v] = writer[v]
    BY <1>0, <1>2 DEF CheckExists, CountVariants
  <2> QED
    BY <2>1, <1>k, <1>b, PendingKept
<1>3. ASSUME NEW w \in Writers, SetEntry(w) PROVE Goal
  <2>1. /\ UNCHANGED <<index, faults>> /\ writer[w].pc = "set"
        /\ writer' = [writer EXCEPT ![w] = [writer[w] EXCEPT !.pc = "health"]]
        /\ entries' = [entries EXCEPT ![writer[w].url] =
                         [indexed |-> writer[w].indexed, left |-> TTL]]
    BY <1>0, <1>3 DEF SetEntry
  <2>2. /\ writer'[w].pc = "health" /\ writer'[w].url = writer[w].url
        /\ writer'[w].todo = writer[w].indexed
        /\ \A v \in Writers \ {w} : writer'[v] = writer[v]
    BY <1>0, <2>1 DEF WriterRecord, TodoInv
  <2>3. CASE writer[w].url = u
    <3>1. entries'[u].indexed = writer[w].indexed
      BY <2>1, <2>3 DEF CacheTypeOK
    <3> QED
      BY <2>2, <2>3, <3>1 DEF Pending
  <2>4. CASE writer[w].url # u
    BY <2>1, <2>2, <2>4, <1>k, <1>b, PendingKept DEF CacheTypeOK
  <2> QED
    BY <2>3, <2>4
<1>4. ASSUME NEW w \in Writers, SetHealth(w) PROVE Goal
  <2>1. /\ UNCHANGED <<entries, index, faults>>
        /\ writer[w].pc = "health"
        /\ \A v \in Writers \ {w} : writer'[v] = writer[v]
    BY <1>0, <1>4 DEF SetHealth
  <2>2. \/ writer[w].todo = {}
        \/ /\ writer'[w].pc = "add" /\ writer'[w].url = writer[w].url
           /\ writer'[w].todo = writer[w].todo
    BY <1>0, <1>4 DEF SetHealth, Indexing, WriterRecord
  <2> QED
    BY <2>1, <2>2, <1>k, <1>b, PendingKept
<1>5. ASSUME NEW w \in Writers, NEW l \in IndexKeys, AddMember(w, l) PROVE Goal
  <2>1. writer' = [writer EXCEPT ![w] = [writer[w] EXCEPT !.pc = "expire", !.key = l]]
    BY <1>5, Zenon DEF AddMember
  <2>2. /\ writer'[w].pc = "expire" /\ writer'[w].url = writer[w].url
        /\ writer'[w].todo = writer[w].todo
        /\ \A v \in Writers \ {w} : writer'[v] = writer[v]
    BY <1>0, <2>1 DEF WriterRecord
  <2>3. /\ UNCHANGED <<entries, faults>> /\ l \in writer[w].todo
        /\ index' = [index EXCEPT ![l].members = @ \cup {writer[w].url}]
    BY <1>5, <1>0 DEF AddMember
  <2>4. /\ index'[k].left = index[k].left
        /\ u \in index'[k].members =>
             u \in index[k].members \/ (k = l /\ u = writer[w].url)
    BY <1>0, <1>k, <2>3
  <2>5. CASE k = l /\ u = writer[w].url
    BY <2>2, <2>3, <2>5 DEF Pending
  <2>6. CASE ~(k = l /\ u = writer[w].url)
    BY <2>2, <2>3, <2>4, <2>6, <1>k, <1>b, PendingKept
  <2> QED
    BY <2>5, <2>6
<1>6. ASSUME NEW w \in Writers, ExpireIndex(w) PROVE Goal
  <2> DEFINE l == writer[w].key
  <2>1. /\ UNCHANGED <<entries, faults>>
        /\ writer' = [writer EXCEPT ![w] = AfterExpire(w)]
        /\ index' = IF index[l].members = {}
                     THEN index ELSE [index EXCEPT ![l].left = TTL]
    BY <1>0, <1>6 DEF ExpireIndex
  <2>2. CASE k = l
    BY <1>0, <1>k, <2>1, <2>2
  <2>3. CASE k # l
    <3>1. index'[k] = index[k]
      BY <1>0, <1>k, <2>1, <2>3
    <3>2. /\ \A v \in Writers \ {w} : writer'[v] = writer[v]
          /\ writer'[w] = AfterExpire(w)
      BY <1>0, <2>1
    <3>3. k \in writer[w].todo =>
            /\ writer'[w].pc = "add" /\ writer'[w].url = writer[w].url
            /\ k \in writer'[w].todo
      BY <1>0, <2>3, <3>2 DEF AfterExpire, WriterRecord
    <3> QED
      BY <2>1, <3>1, <3>2, <3>3, <1>k, <1>b, PendingKept
  <2> QED
    BY <2>2, <2>3
<1>7. CASE TimePasses
  <2>1. /\ entries[u] # None /\ entries[u] \in Entry /\ entries[u].left # 1
        /\ entries'[u] = [entries[u] EXCEPT !.left = @ - 1]
    BY <1>7 DEF TimePasses, CacheTypeOK
  <2>2. /\ k \in entries[u].indexed /\ entries'[u].left = entries[u].left - 1
        /\ entries[u].left \in 2..TTL
    BY <2>1 DEF Entry
  <2>3. UNCHANGED faults
    BY <1>7 DEF TimePasses
  <2>4. CASE Pending(u, k)
    <3>1. PICK w \in Writers : /\ writer[w].url = u /\ k \in writer[w].todo
                               /\ writer[w].pc \in {"health", "add", "expire"}
      BY <2>4 DEF Pending
    <3>2. writer'[w] = [writer[w] EXCEPT !.counted = {x \in @ : entries[x].left > 1}]
      BY <1>7 DEF TimePasses
    <3> QED
      BY <3>1, <3>2, <1>0 DEF Pending, WriterRecord
  <2>5. CASE u \in index[k].members => index[k].left >= entries[u].left
    <3>1. index'[k] = CASE index[k].left = Forever -> index[k]
                        [] index[k].left = 1 -> NoIndex
                        [] OTHER -> [index[k] EXCEPT !.left = @ - 1]
      BY <1>7, <1>k DEF TimePasses
    <3>2. u \in index'[k].members =>
            /\ u \in index[k].members
            /\ index'[k].left \in {index[k].left - 1, Forever}
      BY <3>1, <1>0, <1>k DEF NoIndex, Forever
    <3> QED
      BY <2>2, <2>5, <3>2, <1>0, <1>k DEF Forever
  <2> QED
    BY <1>b, <2>1, <2>2, <2>3, <2>4, <2>5
<1>8. CASE Restart
  BY <1>0, <1>8 DEF Restart
<1>9. CASE UNCHANGED cacheVars
  BY <1>9, <1>b DEF cacheVars, Pending
<1>10. ASSUME NEW w \in Writers, NEW r \in Urls, StoreReport(w, r)
       PROVE  Goal
  <2>1. entries[r].indexed \in SUBSET IndexKeys
    BY <1>10 DEF StoreReport, CacheTypeOK, Entry
  <2> QED
    BY <1>10, <2>1, <1>1 DEF StoreReport
<1>11. ASSUME NEW w \in Writers, NEW r \in Urls, NEW keys \in SUBSET IndexKeys,
              StoreCheck(w, r, keys)
       PROVE  Goal
  BY <1>11, <1>1 DEF StoreCheck
<1> QED
  BY <1>2, <1>3, <1>4, <1>5, <1>6, <1>7, <1>8, <1>9, <1>10, <1>11
  DEF CacheNext, CacheStep, WriterStep

\* cache.go: RelayIndexTTL keeps the index sets in sync with the entries.  While no
\* call fails, a set does not expire before an entry that it lists.
THEOREM IndexesOutliveEntries == CacheSpec => []IndexOutlivesEntry
<1>1. CacheInit => CacheTypeOK
  BY CacheAssumption DEF CacheInit, CacheTypeOK, IdleWriter, NoIndex, Forever
<1>2. CacheInit => TodoInv /\ IndexOutlivesEntry
  BY DEF CacheInit, TodoInv, IndexOutlivesEntry, Present, IdleWriter
<1> QED
  BY <1>1, <1>2, CacheTypeStep, TodoStep, IndexStep, PTL DEF CacheSpec

----------------------------------------------------------------------------
(* The query handler *)

QueryRecord ==
  [pc : {"idle", "read", "all", "fetch", "done", "failed"},
   filters : Queries \cup {<<>>}, at : Nat, keys : SUBSET IndexKeys,
   found : SUBSET Urls, urls : SUBSET Urls]

SeenRecord ==
  [cached : SUBSET Urls, listed : [IndexKeys -> SUBSET Urls],
   agreed : SUBSET Urls, missed : BOOLEAN]

\* The part of TypeOK that is about the query.
QueryTypeOK ==
  /\ query \in QueryRecord
  /\ query.pc = "read" => query.at \in 1..Len(query.filters)
  /\ seen \in SeenRecord

LEMMA TypeOKParts == TypeOK <=> CacheTypeOK /\ QueryTypeOK
  BY DEF TypeOK, QueryTypeOK, QueryRecord, SeenRecord

LEMMA FilterKeys ==
  ASSUME NEW fs \in Queries \cup {<<>>}, NEW i \in 1..Len(fs)
  PROVE  fs[i].keys \in SUBSET IndexKeys /\ Len(fs) \in Nat /\ fs # <<>>
<1>1. fs \in Seq(Filter)
  BY QueryAssumption
<1>2. fs[i] \in Filter
  BY <1>1
<1> QED
  BY <1>1, <1>2 DEF Filter

\* A step of the composition is a step of the cache, or one of the query in which at
\* most a call fails.
LEMMA CacheMoves ==
  [Next]_vars => \/ CacheNext
                 \/ /\ UNCHANGED <<entries, index, writer>>
                    /\ Fail \/ UNCHANGED faults
  BY DEF Next, vars, cacheVars, CacheNext, Meanwhile, Crash, ReadIndex, MissIndex, ScanAll,
         ScanFails, Fetch, FetchFails, Reply

LEMMA QueryCacheTypeStep == CacheTypeOK /\ [Next]_vars => CacheTypeOK'
<1> SUFFICES ASSUME CacheTypeOK, [Next]_vars PROVE CacheTypeOK'
  OBVIOUS
<1>1. CASE CacheNext
  BY <1>1, CacheTypeStep
<1>2. CASE UNCHANGED <<entries, index, writer>> /\ (Fail \/ UNCHANGED faults)
  BY <1>2, FaultsType DEF CacheTypeOK
<1> QED
  BY <1>1, <1>2, CacheMoves

\* The handler goes on to the next filter, or to the batch.
LEMMA NextFilterType ==
  ASSUME QueryTypeOK, query.pc = "read", NEW urls \in SUBSET Urls,
         query' = NextFilter(urls)
  PROVE  /\ query' \in QueryRecord
         /\ query'.pc = "read" => query'.at \in 1..Len(query'.filters)
<1>0. query \in QueryRecord /\ query.filters \in Queries \cup {<<>>} /\ query.at \in 1..Len(query.filters)
  BY DEF QueryTypeOK, QueryRecord
<1>1. CASE query.at = Len(query.filters)
  BY <1>0, <1>1 DEF NextFilter, QueryRecord
<1>2. CASE query.at # Len(query.filters)
  <2>1. Len(query.filters) \in Nat
    BY <1>0, FilterKeys
  <2>2. query.at + 1 \in 1..Len(query.filters)
    BY <1>0, <1>2, <2>1
  <2>3. query.filters[query.at + 1].keys \in SUBSET IndexKeys
    BY <1>0, <2>2, FilterKeys
  <2>4. query' = [query EXCEPT !.at = @ + 1, !.keys = query.filters[query.at + 1].keys,
                               !.found = {}, !.urls = urls]
    BY <1>2 DEF NextFilter
  <2>5. /\ query.at + 1 \in Nat /\ {} \in SUBSET Urls /\ query \in QueryRecord
    BY <1>0, <2>2 DEF QueryRecord
  <2>6. query' \in QueryRecord /\ query'.at = query.at + 1 /\ query'.filters = query.filters
    BY <2>3, <2>4, <2>5 DEF QueryRecord
  <2> QED
    BY <2>2, <2>6
<1> QED
  BY <1>1, <1>2

LEMMA QueryTypeStep == TypeOK /\ [Next]_vars => QueryTypeOK'
<1> SUFFICES ASSUME CacheTypeOK, CacheTypeOK', QueryTypeOK, [Next]_vars PROVE QueryTypeOK'
  BY TypeOKParts, QueryCacheTypeStep
<1>0. /\ query \in QueryRecord /\ seen \in SeenRecord
      /\ \A k \in IndexKeys : index[k].members \in SUBSET Urls
      /\ NoQuery \in QueryRecord /\ NothingSeen \in SeenRecord
  BY DEF QueryTypeOK, CacheTypeOK, NoQuery, NothingSeen, QueryRecord, SeenRecord
<1>1. ASSUME NEW fs \in Queries, Ask(fs) PROVE QueryTypeOK'
  <2>1. seen' \in SeenRecord
    BY <1>0, <1>1 DEF Ask, SeenRecord, Present
  <2>2. CASE fs = <<>>
    BY <1>1, <2>1, <2>2 DEF Ask, NoQuery, QueryTypeOK, QueryRecord
  <2>3. CASE fs # <<>>
    <3>1. fs \in Seq(Filter)
      BY QueryAssumption
    <3>2. 1 \in 1..Len(fs)
      BY <2>3, <3>1
    <3>3. fs[1].keys \in SUBSET IndexKeys
      BY <3>2, FilterKeys
    <3>4. query' = [pc |-> "read", filters |-> fs, at |-> 1, keys |-> fs[1].keys,
                    found |-> {}, urls |-> {}]
      BY <1>1, <2>3 DEF Ask, NoQuery
    <3> QED
      BY <2>1, <3>2, <3>3, <3>4 DEF QueryTypeOK, QueryRecord
  <2> QED
    BY <2>2, <2>3
<1>2. ASSUME NEW k \in IndexKeys, ReadIndex(k) PROVE QueryTypeOK'
  <2> DEFINE answer == query.found \cup index[k].members
  <2>1. answer \in SUBSET Urls /\ Merge(query.urls, answer) \in SUBSET Urls
    BY <1>0 DEF Merge, QueryRecord
  <2>2. CASE query.keys = {k}
    <3>1. query' = NextFilter(Merge(query.urls, answer))
      BY <1>2, <2>2 DEF ReadIndex, Answered
    <3>2. seen' \in SeenRecord
      BY <1>0, <1>2, <2>2 DEF ReadIndex, Answered, SeenRecord
    <3> QED
      BY <1>2, <2>1, <3>1, <3>2, NextFilterType DEF QueryTypeOK, ReadIndex
  <2>3. CASE query.keys # {k}
    <3>1. query' = [query EXCEPT !.keys = @ \ {k}, !.found = answer]
      BY <1>2, <2>3 DEF ReadIndex, Answered
    <3>2. [query EXCEPT !.keys = @ \ {k}, !.found = answer] \in QueryRecord
      <4> HIDE DEF answer
      <4> QED
        BY <1>0, <2>1 DEF QueryRecord
    <3> QED
      BY <1>0, <1>2, <2>1, <2>3, <3>1, <3>2 DEF ReadIndex, Answered, QueryTypeOK
  <2> QED
    BY <2>2, <2>3
<1>3. ASSUME NEW k \in IndexKeys, MissIndex(k) PROVE QueryTypeOK'
  <2>1. seen' \in SeenRecord
    BY <1>0, <1>3 DEF MissIndex, SeenRecord
  <2>2. query.urls \in SUBSET Urls /\ Merge(query.urls, query.found) \in SUBSET Urls
    BY <1>0 DEF Merge, QueryRecord
  <2>3. CASE query' = [query EXCEPT !.keys = @ \ {k}]
    BY <1>0, <2>1, <2>3 DEF QueryTypeOK, QueryRecord
  <2>4. CASE \/ query' = NextFilter(query.urls)
             \/ query' = NextFilter(Merge(query.urls, query.found))
    BY <1>3, <2>1, <2>2, <2>4, NextFilterType DEF QueryTypeOK, MissIndex
  <2> QED
    BY <1>3, <2>3, <2>4 DEF MissIndex
<1>4. CASE ScanAll
  BY <1>0, <1>4 DEF ScanAll, QueryTypeOK, QueryRecord, Present
<1>5. CASE ScanFails
  BY <1>0, <1>5 DEF ScanFails, QueryTypeOK, QueryRecord, SeenRecord
<1>6. CASE Fetch
  BY <1>0, <1>6 DEF Fetch, QueryTypeOK, QueryRecord
<1>7. CASE FetchFails
  BY <1>0, <1>7 DEF FetchFails, QueryTypeOK, QueryRecord
<1>8. CASE query' = NoQuery /\ seen' = NothingSeen
  BY <1>0, <1>8 DEF QueryTypeOK, NoQuery
<1>9. CASE Meanwhile
  <2>1. seen' \in SeenRecord
    BY <1>0, <1>9 DEF Meanwhile, SeenRecord
  <2> QED
    BY <1>9, <2>1 DEF Meanwhile, QueryTypeOK
<1>10. CASE UNCHANGED vars
  BY <1>10 DEF vars, QueryTypeOK
<1> QED
  BY <1>1, <1>2, <1>3, <1>4, <1>5, <1>6, <1>7, <1>8, <1>9, <1>10 DEF Next, Reply, Crash

\* The types of the cache, the query handler and the history.
THEOREM QueryTypeCorrect == Spec => []TypeOK
<1>1. Init => TypeOK
  <2>1. CacheInit => CacheTypeOK
    BY CacheAssumption DEF CacheInit, CacheTypeOK, IdleWriter, NoIndex, Forever
  <2>2. query = NoQuery /\ seen = NothingSeen => QueryTypeOK
    BY DEF QueryTypeOK, NoQuery, NothingSeen, QueryRecord, SeenRecord
  <2> QED
    BY <2>1, <2>2, TypeOKParts DEF Init
<1>2. TypeOK /\ [Next]_vars => TypeOK'
  BY QueryTypeStep, QueryCacheTypeStep, TypeOKParts DEF TypeOK, QueryTypeOK, QueryRecord, SeenRecord
<1> QED
  BY <1>1, <1>2, PTL DEF Spec

----------------------------------------------------------------------------

\* What is remembered since the query was asked is still so.
SeenInv ==
  /\ seen.cached \subseteq Present
  /\ \A k \in IndexKeys : seen.listed[k] \subseteq index[k].members

\* While the sets are read: what matched all the while is left by the filters before
\* this one, and is found by the keys of this one that were read.
ReadInv ==
  query.pc = "read" /\ ~seen.missed =>
    /\ query.filters # <<>>
    /\ query.at = 1 => query.urls = {}
    /\ query.at > 1 => Stable \subseteq query.urls
    /\ \A k \in query.filters[query.at].keys \ query.keys :
          seen.listed[k] \subseteq query.found

\* Once they are read, it is in what is fetched and what is answered; without a filter,
\* as far as the scan looks.
AnswerInv ==
  /\ query.pc = "all" => query.filters = <<>>
  /\ query.pc \in {"fetch", "done"} /\ ~seen.missed => Matching \subseteq query.urls

FindInv == SeenInv /\ ReadInv /\ AnswerInv

LEMMA FindInit == Init => FindInv
  BY DEF Init, FindInv, SeenInv, ReadInv, AnswerInv, NoQuery, NothingSeen, CacheInit, NoIndex

\* What matched all the while is in the answer of the filter read last.
LEMMA NextFilterFinds ==
  ASSUME TypeOK, FindInv, query.pc = "read", ~seen.missed, NEW answer \in SUBSET Urls,
         query' = NextFilter(Merge(query.urls, answer)),
         seen'.cached = seen.cached, seen'.listed = seen.listed,
         \A k \in query.filters[query.at].keys : seen.listed[k] \subseteq answer
  PROVE  ReadInv' /\ AnswerInv'
<1>0. /\ query \in QueryRecord /\ query.at \in 1..Len(query.filters)
      /\ query.filters \in Queries \cup {<<>>} /\ Len(query.filters) \in Nat
      /\ query.filters # <<>>
  BY TypeOKParts, FilterKeys DEF QueryTypeOK, QueryRecord
<1>1. Stable \subseteq answer
  BY <1>0 DEF Stable
<1>2. Stable \subseteq Merge(query.urls, answer)
  BY <1>0, <1>1 DEF Merge, FindInv, ReadInv
<1>3. /\ query'.filters = query.filters
      /\ query'.urls = Merge(query.urls, answer)
      /\ \/ query'.pc = "fetch"
         \/ /\ query'.pc = "read" /\ query'.at = query.at + 1
            /\ query'.keys = query.filters[query.at + 1].keys
  BY <1>0 DEF NextFilter, QueryRecord
<1>4. Stable' = Stable
  BY <1>3 DEF Stable
<1>5. Matching' \subseteq Stable'
  BY DEF Matching
<1>6. query'.at # 1 \/ query'.pc = "fetch"
  BY <1>0, <1>3
<1> QED
  BY <1>0, <1>2, <1>3, <1>4, <1>5, <1>6 DEF ReadInv, AnswerInv

LEMMA FindStep == TypeOK /\ FindInv /\ [Next]_vars => FindInv'
<1> SUFFICES ASSUME TypeOK, FindInv, [Next]_vars PROVE FindInv'
  OBVIOUS
<1>0. /\ query \in QueryRecord /\ seen \in SeenRecord
      /\ query.pc = "read" => query.at \in 1..Len(query.filters)
      /\ SeenInv /\ ReadInv /\ AnswerInv
  BY TypeOKParts DEF QueryTypeOK, FindInv
<1>s. ASSUME UNCHANGED <<entries, index>>, seen'.cached = seen.cached, seen'.listed = seen.listed
      PROVE  SeenInv'
  BY <1>0, <1>s DEF SeenInv, Present
<1>1. ASSUME NEW fs \in Queries, Ask(fs), UNCHANGED cacheVars PROVE FindInv'
  <2>1. /\ seen' = [cached |-> Present, listed |-> [k \in IndexKeys |-> index[k].members],
                    agreed |-> Urls, missed |-> FALSE]
        /\ UNCHANGED <<entries, index>>
    BY <1>1 DEF Ask, cacheVars
  <2>2. SeenInv'
    BY <2>1 DEF SeenInv, Present
  <2>3. CASE fs = <<>>
    BY <1>1, <2>2, <2>3 DEF Ask, NoQuery, FindInv, ReadInv, AnswerInv
  <2>4. CASE fs # <<>>
    <3>1. query' = [pc |-> "read", filters |-> fs, at |-> 1, keys |-> fs[1].keys,
                    found |-> {}, urls |-> {}]
      BY <1>1, <2>4 DEF Ask, NoQuery
    <3> QED
      BY <2>2, <2>4, <3>1 DEF FindInv, ReadInv, AnswerInv
  <2> QED
    BY <2>3, <2>4
<1>2. ASSUME NEW k \in IndexKeys, ReadIndex(k) PROVE FindInv'
  <2> DEFINE answer == query.found \cup index[k].members
  <2>1. /\ query.pc = "read" /\ k \in query.keys /\ Answered(k, index[k].members)
        /\ UNCHANGED <<entries, index>>
    BY <1>2 DEF ReadIndex, cacheVars
  <2>2. /\ seen'.cached = seen.cached /\ seen'.listed = seen.listed
        /\ seen'.missed = seen.missed
    BY <1>0, <2>1 DEF Answered, SeenRecord
  <2>3. SeenInv'
    BY <1>s, <2>1, <2>2
  <2>4. CASE seen.missed
    <3>1. query'.pc \in {"read", "fetch"}
      BY <1>0, <2>1 DEF Answered, NextFilter, QueryRecord
    <3> QED
      BY <2>2, <2>3, <2>4, <3>1 DEF FindInv, ReadInv, AnswerInv
  <2>5. CASE ~seen.missed /\ query.keys = {k}
    <3>1. query' = NextFilter(Merge(query.urls, answer))
      BY <2>1, <2>5 DEF Answered
    <3>2. answer \in SUBSET Urls
      BY <1>0 DEF QueryRecord, TypeOK, CacheTypeOK
    <3>3. seen.listed[k] \subseteq answer
      BY <1>0 DEF SeenInv
    <3>4. \A l \in query.filters[query.at].keys : seen.listed[l] \subseteq answer
      BY <1>0, <2>1, <2>5, <3>3 DEF ReadInv
    <3> QED
      BY <2>1, <2>2, <2>3, <2>5, <3>1, <3>2, <3>4, NextFilterFinds DEF FindInv
  <2>6. CASE ~seen.missed /\ query.keys # {k}
    <3>1. query' = [query EXCEPT !.keys = @ \ {k}, !.found = @ \cup index[k].members]
      BY <2>1, <2>6 DEF Answered
    <3>2. /\ query'.pc = "read" /\ query'.filters = query.filters /\ query'.at = query.at
          /\ query'.urls = query.urls /\ query'.keys = query.keys \ {k}
          /\ query'.found = answer
      BY <1>0, <2>1, <3>1 DEF QueryRecord
    <3>3. Stable' = Stable
      BY <2>2, <3>2 DEF Stable
    <3>4. seen.listed[k] \subseteq answer
      BY <1>0 DEF SeenInv
    <3> QED
      BY <1>0, <2>1, <2>2, <2>3, <2>6, <3>2, <3>3, <3>4 DEF FindInv, ReadInv, AnswerInv
  <2> QED
    BY <2>4, <2>5, <2>6
<1>3. ASSUME NEW k \in IndexKeys, MissIndex(k) PROVE FindInv'
  <2>1. /\ query'.pc \in {"read", "fetch"} /\ UNCHANGED <<entries, index>>
        /\ seen'.cached = seen.cached /\ seen'.listed = seen.listed /\ seen'.missed
    BY <1>0, <1>3 DEF MissIndex, NextFilter, QueryRecord, SeenRecord
  <2> QED
    BY <1>s, <2>1 DEF FindInv, ReadInv, AnswerInv
<1>4. CASE ScanAll
  <2>1. PICK urls \in SUBSET (Present \cap Secure) :
               /\ seen.cached \cap Secure \subseteq urls
               /\ query' = [query EXCEPT !.pc = "fetch", !.urls = urls]
    BY <1>4 DEF ScanAll
  <2>2. query'.pc = "fetch" /\ query'.urls = urls /\ query'.filters = query.filters
    BY <1>0, <2>1 DEF QueryRecord
  <2>3. UNCHANGED <<entries, index, seen>>
    BY <1>4 DEF ScanAll, cacheVars
  <2>4. SeenInv'
    BY <1>s, <2>3
  <2>5. query.filters = <<>>
    BY <1>0, <1>4 DEF ScanAll, AnswerInv
  <2>6. Matching' \subseteq urls
    BY <2>1, <2>2, <2>3, <2>5 DEF Matching, Stable
  <2> QED
    BY <2>2, <2>3, <2>4, <2>5, <2>6 DEF FindInv, ReadInv, AnswerInv
<1>5. CASE ScanFails
  <2>1. /\ query'.pc = "fetch" /\ UNCHANGED <<entries, index>>
        /\ seen'.cached = seen.cached /\ seen'.listed = seen.listed /\ seen'.missed
    BY <1>0, <1>5 DEF ScanFails, QueryRecord, SeenRecord
  <2> QED
    BY <1>s, <2>1 DEF FindInv, ReadInv, AnswerInv
<1>6. CASE Fetch
  <2>1. /\ query.pc = "fetch" /\ query'.pc = "done" /\ query'.filters = query.filters
        /\ query'.urls = query.urls \cap Present
    BY <1>0, <1>6 DEF Fetch, QueryRecord
  <2>2. UNCHANGED <<entries, index, seen>>
    BY <1>6 DEF Fetch, cacheVars
  <2>3. SeenInv' /\ Stable' = Stable /\ Stable \subseteq Present
    BY <1>0, <1>s, <2>1, <2>2 DEF Stable, SeenInv
  <2> QED
    BY <1>0, <2>1, <2>2, <2>3 DEF FindInv, ReadInv, AnswerInv, Matching
<1>7. CASE FetchFails
  <2>1. query'.pc = "failed" /\ UNCHANGED <<entries, index, seen>>
    BY <1>0, <1>7 DEF FetchFails, QueryRecord
  <2> QED
    BY <1>s, <2>1 DEF FindInv, ReadInv, AnswerInv
<1>8. CASE query' = NoQuery /\ seen' = NothingSeen
  BY <1>8 DEF FindInv, SeenInv, ReadInv, AnswerInv, NoQuery, NothingSeen
<1>9. CASE Meanwhile
  <2>1. /\ seen'.cached = seen.cached \cap Present' /\ seen'.missed = seen.missed
        /\ seen'.listed = [k \in IndexKeys |-> seen.listed[k] \cap index'[k].members]
        /\ UNCHANGED query
    BY <1>0, <1>9 DEF Meanwhile, SeenRecord
  <2>2. SeenInv'
    BY <2>1 DEF SeenInv
  <2>3. \A k \in IndexKeys : seen'.listed[k] \subseteq seen.listed[k]
    BY <2>1
  <2>4. \A i \in 1..Len(query.filters) : query.filters[i].keys \subseteq IndexKeys
    BY <1>0, FilterKeys DEF QueryRecord
  <2>5. Stable' \subseteq Stable
    BY <2>1, <2>3, <2>4 DEF Stable
  <2> QED
    BY <1>0, <2>1, <2>2, <2>3, <2>4, <2>5 DEF FindInv, ReadInv, AnswerInv, Matching
<1>10. CASE UNCHANGED vars
  <2>1. UNCHANGED <<entries, index, seen, query>>
    BY <1>10 DEF vars
  <2> QED
    BY <1>0, <2>1, <1>s DEF FindInv, ReadInv, AnswerInv, Matching, Stable
<1> QED
  BY <1>1, <1>2, <1>3, <1>4, <1>5, <1>6, <1>7, <1>8, <1>9, <1>10 DEF Next, Reply, Crash

\* RelaysHandler: a query whose reads all succeeded answers with every relay that was
\* cached and matched its filters all the while, whatever is written and expires; one
\* without a filter, with those of them under wss:// (cache.go:742).
THEOREM QueriesFindStable == Spec => []QueryFindsStable
<1>1. FindInv => QueryFindsStable
  BY DEF FindInv, AnswerInv, QueryFindsStable
<1> QED
  BY <1>1, FindInit, FindStep, QueryTypeCorrect, PTL DEF Spec
===============================================================================
