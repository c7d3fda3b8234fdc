--------------------------- MODULE QueryCacheProofs ---------------------------
(***************************************************************************)
(* Proofs about QueryCache: how old a value may be that is served, and who *)
(* refreshes a stale one, for any callers, keys, refreshes and lifetimes.  *)
(* Nothing here depends on the order in which entries are evicted.         *)
(***************************************************************************)
EXTENDS QueryCache, SequenceTheorems, FiniteSetTheorems, WellFoundedInduction, TLAPS

Entry == [left : 0..L1TTL, age : Nat]
RedisValue == [left : 1..L2TTL, age : Nat]

(* QueryTypeOK without the order; who is under way has a key.              *)
Shape ==
  /\ entries \in [Key -> Entry \cup {NoEntry}]
  /\ mark \subseteq Key
  /\ redis \in [Key -> RedisValue \cup {NoEntry}]
  /\ caller \in [Caller -> [at : Places, key : Key \cup {NoEntry}, age : Nat]]
  /\ flight \in [Key -> [at : QueryPlaces, age : 0..MaxQuery]]
  /\ refresh \in [Refresher -> [at : RefreshPlaces, key : Key \cup {NoEntry}, age : 0..MaxQuery]]
  /\ \A c \in Caller : caller[c].at # "idle" => caller[c].key \in Key
  /\ \A g \in Refresher : refresh[g].at # "idle" => refresh[g].key \in Key

(* A value on its way from Redis to L1 came from Redis in this tick.       *)
InHands == \A c \in Caller : caller[c].at = "fill" => caller[c].age <= MaxQuery + L2TTL

(* The first part of MarkedIsRefreshing.                                   *)
MarksRefreshed ==
  \A k \in mark \cap Refreshing : \E g \in Refresher : RefreshOf(g, k) /\ refresh[g].at = "asking"

(* An entry without a mark is no older than any refresh of its key: it was *)
(* stored when the refresh began or later.                                 *)
UnmarkedIsNewer ==
  \A k \in (Live \cap Refreshing) \ mark :
    \A g \in Refresher : RefreshOf(g, k) => L1TTL - entries[k].left <= refresh[g].age

CacheInv ==
  /\ Shape
  /\ ReadableIsRecent
  /\ InHands
  /\ MarksRefreshed
  /\ UnmarkedIsNewer

Bounds == L1Assumption /\ QueryCacheAssumption

(* The numbers the proofs need.                                            *)
LEMMA Numbers ==
  ASSUME Bounds
  PROVE  /\ L1TTL \in Nat /\ L1Stale \in Nat /\ L2TTL \in Nat /\ MaxQuery \in Nat
         /\ MaxQuery < L1Stale /\ 0 < L1Stale /\ L1Stale < L1TTL /\ 0 < L2TTL
         /\ Refreshing \subseteq Key
  BY DEF Bounds, L1Assumption, QueryCacheAssumption

LEMMA CacheInitially == Bounds /\ QueryInit => CacheInv
  <1> SUFFICES ASSUME Bounds, QueryInit PROVE CacheInv
    OBVIOUS
  <1>1. /\ \A k \in Key : entries[k] = NoEntry /\ redis[k] = NoEntry /\ flight[k] = NoQuery
        /\ \A c \in Caller : caller[c] = Idle
        /\ \A g \in Refresher : refresh[g] = Idle
        /\ mark = {}
    BY DEF QueryInit, L1Init
  <1>2. Shape
    BY Numbers DEF QueryInit, L1Init, Shape, Idle, NoQuery, Places, QueryPlaces, RefreshPlaces
  <1>3. Live = {}
    BY <1>1 DEF Live, Stored
  <1>4. ReadableIsRecent /\ InHands
    BY <1>1, <1>3, Numbers DEF ReadableIsRecent, InHands, Idle
  <1>5. MarksRefreshed /\ UnmarkedIsNewer
    BY <1>1, <1>3 DEF MarksRefreshed, UnmarkedIsNewer
  <1>6. QED
    BY <1>2, <1>4, <1>5 DEF CacheInv

(***************************************************************************)
(* What steps do to L1: they drop entries, or store one.                   *)
(***************************************************************************)

Drops ==
  /\ entries' \in [Key -> Entry \cup {NoEntry}]
  /\ \A k \in Key : entries'[k] = entries[k] \/ entries'[k] = NoEntry

Stores(k, age) ==
  /\ entries' \in [Key -> Entry \cup {NoEntry}]
  /\ entries'[k] = [left |-> L1TTL, age |-> age]
  /\ \A j \in Key \ {k} : entries'[j] = entries[j]
  /\ mark' = mark \ {k}

LEMMA DropsLive ==
  ASSUME Drops
  PROVE  /\ Live' \subseteq Live
         /\ \A k \in Live' : entries'[k] = entries[k]
  BY DEF Drops, Live, Stored, Expired

LEMMA DeleteDrops ==
  ASSUME Shape, NEW k \in Key, Delete(k) \/ DeleteExpired(k)
  PROVE  Drops
  BY DEF Shape, Delete, DeleteExpired, Drops

LEMMA JanitorDrops ==
  ASSUME Shape, Janitor
  PROVE  Drops
  BY DEF Shape, Janitor, Drops

LEMMA SetStores ==
  ASSUME Bounds, Shape, NEW k \in Key, NEW age \in Nat, Set(k, age)
  PROVE  Stores(k, age)
  BY Numbers DEF Shape, Set, Stores, Entry

LEMMA StoresLive ==
  ASSUME NEW k \in Key, NEW age, Stores(k, age)
  PROVE  Live' \ {k} \subseteq Live
  BY DEF Stores, Live, Stored, Expired

(***************************************************************************)
(* What each part of the invariant asks of a step in L1.                   *)
(***************************************************************************)

(* Dropping entries makes nothing older and marks nothing.                 *)
LEMMA DropKeeps ==
  ASSUME CacheInv, Drops
  PROVE  /\ \A k \in Live' : entries'[k].age + entries'[k].left <= MaxQuery + L2TTL + L1TTL
         /\ UNCHANGED <<mark, refresh>> => MarksRefreshed' /\ UnmarkedIsNewer'
  <1>1. Live' \subseteq Live /\ \A k \in Live' : entries'[k] = entries[k]
    BY DropsLive
  <1>2. \A k \in Live' : entries'[k].age + entries'[k].left <= MaxQuery + L2TTL + L1TTL
    BY <1>1 DEF CacheInv, ReadableIsRecent
  <1>3. ASSUME UNCHANGED <<mark, refresh>> PROVE MarksRefreshed' /\ UnmarkedIsNewer'
    BY <1>1, <1>3 DEF CacheInv, MarksRefreshed, UnmarkedIsNewer, RefreshOf
  <1>4. QED
    BY <1>2, <1>3

(* Storing a value that is young enough keeps L1 so; it clears its mark.   *)
LEMMA StoreKeeps ==
  ASSUME Bounds, CacheInv, NEW k \in Key, NEW age \in Nat, Stores(k, age), age <= MaxQuery + L2TTL
  PROVE  /\ \A j \in Live' : entries'[j].age + entries'[j].left <= MaxQuery + L2TTL + L1TTL
         /\ UNCHANGED refresh => MarksRefreshed' /\ UnmarkedIsNewer'
  <1>1. Live' \ {k} \subseteq Live /\ \A j \in Live' \ {k} : entries'[j] = entries[j]
    BY StoresLive DEF Stores, Live, Stored
  <1>2. entries'[k].left = L1TTL /\ entries'[k].age = age /\ mark' = mark \ {k}
    BY DEF Stores
  <1>3. ASSUME NEW j \in Live'
        PROVE  entries'[j].age + entries'[j].left <= MaxQuery + L2TTL + L1TTL
    <2>1. CASE j = k
      BY <1>2, <2>1, Numbers
    <2>2. CASE j # k
      BY <1>1, <1>3, <2>2 DEF CacheInv, ReadableIsRecent
    <2>3. QED
      BY <2>1, <2>2
  <1>4. ASSUME UNCHANGED refresh PROVE MarksRefreshed' /\ UnmarkedIsNewer'
    <2>1. MarksRefreshed'
      BY <1>2, <1>4 DEF CacheInv, MarksRefreshed, RefreshOf
    <2>2. ASSUME NEW j \in (Live' \cap Refreshing) \ mark', NEW g \in Refresher, RefreshOf(g, j)'
          PROVE  L1TTL - entries'[j].left <= refresh'[g].age
      <3>1. refresh'[g].age \in Nat
        BY <1>4, Numbers DEF CacheInv, Shape
      <3>2. CASE j = k
        BY <1>2, <3>1, <3>2, Numbers
      <3>3. CASE j # k
        BY <1>1, <1>2, <1>4, <2>2, <3>3 DEF CacheInv, UnmarkedIsNewer, RefreshOf
      <3>4. QED
        BY <3>2, <3>3
    <2>3. QED
      BY <2>1, <2>2 DEF UnmarkedIsNewer
  <1>5. QED
    BY <1>3, <1>4

(***************************************************************************)
(* The steps of callers.                                                   *)
(***************************************************************************)

(* L1 as it was: its parts of the invariant hold still.                    *)
LEMMA SameL1 ==
  ASSUME CacheInv, UNCHANGED l1Vars
  PROVE  /\ \A k \in Live' : entries'[k].age + entries'[k].left <= MaxQuery + L2TTL + L1TTL
         /\ UNCHANGED refresh => MarksRefreshed' /\ UnmarkedIsNewer'
  <1>1. entries' = entries /\ mark' = mark
    BY DEF l1Vars
  <1>2. Live' = Live
    BY <1>1 DEF Live, Stored
  <1>3. \A k \in Live' : entries'[k].age + entries'[k].left <= MaxQuery + L2TTL + L1TTL
    BY <1>1, <1>2 DEF CacheInv, ReadableIsRecent
  <1>4. ASSUME UNCHANGED refresh PROVE MarksRefreshed' /\ UnmarkedIsNewer'
    BY <1>1, <1>2, <1>4 DEF CacheInv, MarksRefreshed, UnmarkedIsNewer, RefreshOf
  <1>5. QED
    BY <1>3, <1>4

(* Of the values in callers' hands only the one moved is new.              *)
LEMMA MovesKeeps ==
  ASSUME Bounds, CacheInv, NEW c \in Caller, NEW place \in Places, NEW k \in Key, NEW age \in Nat,
         Moves(c, place, k, age), age <= MaxQuery + L2TTL + L1TTL,
         place = "fill" => age <= MaxQuery + L2TTL
  PROVE  /\ caller' \in [Caller -> [at : Places, key : Key \cup {NoEntry}, age : Nat]]
         /\ \A d \in Caller : caller'[d].at # "idle" => caller'[d].key \in Key
         /\ \A d \in Caller : caller'[d].age <= MaxQuery + L2TTL + L1TTL
         /\ InHands'
  <1>1. /\ caller \in [Caller -> [at : Places, key : Key \cup {NoEntry}, age : Nat]]
        /\ caller' = [caller EXCEPT ![c] = [at |-> place, key |-> k, age |-> age]]
    BY DEF CacheInv, Shape, Moves
  <1>2. \A d \in Caller : caller'[d] = IF d = c THEN [at |-> place, key |-> k, age |-> age] ELSE caller[d]
    BY <1>1
  <1>3. QED
    BY <1>1, <1>2 DEF CacheInv, Shape, ReadableIsRecent, InHands

(* A caller that becomes idle has nothing in hand.                         *)
LEMMA IdleKeeps ==
  ASSUME Bounds, CacheInv, caller' \in [Caller -> [at : Places, key : Key \cup {NoEntry}, age : Nat]],
         \A d \in Caller : caller'[d] = caller[d] \/ caller'[d] = Idle
  PROVE  /\ \A d \in Caller : caller'[d].at # "idle" => caller'[d].key \in Key
         /\ \A d \in Caller : caller'[d].age <= MaxQuery + L2TTL + L1TTL
         /\ InHands'
  BY Numbers DEF CacheInv, Shape, ReadableIsRecent, InHands, Idle

LEMMA ReturnsKeeps ==
  ASSUME Bounds, CacheInv, NEW c \in Caller, Returns(c)
  PROVE  /\ caller' \in [Caller -> [at : Places, key : Key \cup {NoEntry}, age : Nat]]
         /\ \A d \in Caller : caller'[d].at # "idle" => caller'[d].key \in Key
         /\ \A d \in Caller : caller'[d].age <= MaxQuery + L2TTL + L1TTL
         /\ InHands'
  <1>1. /\ caller' \in [Caller -> [at : Places, key : Key \cup {NoEntry}, age : Nat]]
        /\ \A d \in Caller : caller'[d] = caller[d] \/ caller'[d] = Idle
    BY DEF CacheInv, Shape, Returns, Idle, Places
  <1>2. QED
    BY <1>1, IdleKeeps

(* The invariant from its pieces: what a step leaves alone needs no proof. *)
LEMMA Together ==
  ASSUME CacheInv, UNCHANGED redis,
         entries' \in [Key -> Entry \cup {NoEntry}], mark' \subseteq Key,
         flight' \in [Key -> [at : QueryPlaces, age : 0..MaxQuery]],
         UNCHANGED refresh,
         caller' \in [Caller -> [at : Places, key : Key \cup {NoEntry}, age : Nat]],
         \A d \in Caller : caller'[d].at # "idle" => caller'[d].key \in Key,
         \A d \in Caller : caller'[d].age <= MaxQuery + L2TTL + L1TTL,
         InHands',
         \A k \in Live' : entries'[k].age + entries'[k].left <= MaxQuery + L2TTL + L1TTL,
         MarksRefreshed' /\ UnmarkedIsNewer'
  PROVE  CacheInv'
  BY DEF CacheInv, Shape, ReadableIsRecent

LEMMA LookupKeeps ==
  ASSUME Bounds, CacheInv, NEW c \in Caller, NEW k \in Key, Lookup(c, k)
  PROVE  CacheInv'
  <1>1. UNCHANGED <<l1Vars, redis, flight, refresh>>
    BY DEF Lookup
  <1>2. /\ caller' \in [Caller -> [at : Places, key : Key \cup {NoEntry}, age : Nat]]
        /\ \A d \in Caller : caller'[d].at # "idle" => caller'[d].key \in Key
        /\ \A d \in Caller : caller'[d].age <= MaxQuery + L2TTL + L1TTL
        /\ InHands'
    <2>1. CASE Moves(c, "redis", k, 0) \/ Moves(c, "expired", k, 0)
      BY <2>1, MovesKeeps, Numbers DEF Places
    <2>2. CASE Stale(entries[k]) /\ k \in Stored /\ Moves(c, "stale", k, entries[k].age)
      <3>1. entries[k] \in Entry /\ k \in Live
        BY <2>2 DEF CacheInv, Shape, Stored, Live, Stale, Expired
      <3>2. entries[k].age \in Nat /\ entries[k].left \in Nat
        BY <3>1, Numbers DEF Entry
      <3>3. entries[k].age <= MaxQuery + L2TTL + L1TTL
        BY <3>1, <3>2, Numbers DEF CacheInv, ReadableIsRecent
      <3>4. QED
        BY <2>2, <3>2, <3>3, MovesKeeps DEF Places
    <2>3. CASE Returns(c)
      BY <2>3, ReturnsKeeps
    <2>4. QED
      BY <2>1, <2>2, <2>3 DEF Lookup
  <1>3. /\ \A j \in Live' : entries'[j].age + entries'[j].left <= MaxQuery + L2TTL + L1TTL
        /\ MarksRefreshed' /\ UnmarkedIsNewer'
    BY <1>1, SameL1
  <1>4. QED
    BY <1>1, <1>2, <1>3, Together DEF CacheInv, Shape, l1Vars

LEMMA RemoveExpiredKeeps ==
  ASSUME Bounds, CacheInv, NEW c \in Caller, RemoveExpired(c)
  PROVE  CacheInv'
  <1> DEFINE k == caller[c].key
  <1>1. /\ k \in Key /\ DeleteExpired(k) /\ Moves(c, "redis", k, 0)
        /\ UNCHANGED <<mark, redis, flight, refresh>>
    BY DEF RemoveExpired, CacheInv, Shape, DeleteExpired
  <1>2. Drops
    BY <1>1, DeleteDrops DEF CacheInv
  <1>3. /\ caller' \in [Caller -> [at : Places, key : Key \cup {NoEntry}, age : Nat]]
        /\ \A d \in Caller : caller'[d].at # "idle" => caller'[d].key \in Key
        /\ \A d \in Caller : caller'[d].age <= MaxQuery + L2TTL + L1TTL
        /\ InHands'
    BY <1>1, MovesKeeps, Numbers DEF Places
  <1>4. QED
    BY <1>1, <1>2, <1>3, DropKeeps, Together DEF CacheInv, Shape, Drops

LEMMA FillKeeps ==
  ASSUME Bounds, CacheInv, NEW c \in Caller, Fill(c)
  PROVE  CacheInv'
  <1> DEFINE k == caller[c].key
             a == caller[c].age
  <1>1. /\ k \in Key /\ a \in Nat /\ a <= MaxQuery + L2TTL
        /\ Set(k, a) /\ Returns(c)
        /\ UNCHANGED <<redis, flight, refresh>>
    BY DEF Fill, CacheInv, Shape, InHands
  <1>2. Stores(k, a)
    BY <1>1, SetStores DEF CacheInv
  <1>3. QED
    BY <1>1, <1>2, ReturnsKeeps, StoreKeeps, Together DEF CacheInv, Shape, Stores

(* A reader that marks the key starts the refresh the mark asks for.       *)
LEMMA ServeStaleKeeps ==
  ASSUME Bounds, CacheInv, NEW c \in Caller, ServeStale(c)
  PROVE  CacheInv'
  <1> DEFINE k == caller[c].key
  <1>1. k \in Key /\ mark' = mark \cup {k} /\ UNCHANGED <<entries, redis, flight>> /\ Returns(c)
    BY DEF ServeStale, CacheInv, Shape, Mark
  <1>2. Live' = Live
    BY <1>1 DEF Live, Stored
  <1>3. /\ refresh' \in [Refresher -> [at : RefreshPlaces, key : Key \cup {NoEntry}, age : 0..MaxQuery]]
        /\ \A g \in Refresher :
             refresh'[g] = refresh[g] \/ (refresh[g] = Idle /\ refresh'[g] = [at |-> "asking", key |-> k, age |-> 0])
    BY <1>1, Numbers DEF ServeStale, CacheInv, Shape, RefreshPlaces
  <1>4. Shape'
    BY <1>1, <1>3, ReturnsKeeps DEF CacheInv, Shape
  <1>5. ReadableIsRecent' /\ InHands'
    BY <1>1, <1>2, ReturnsKeeps DEF CacheInv, ReadableIsRecent
  <1>6. MarksRefreshed'
    <2> SUFFICES ASSUME NEW j \in mark' \cap Refreshing
                 PROVE  \E g \in Refresher : RefreshOf(g, j)' /\ refresh'[g].at = "asking"
      BY DEF MarksRefreshed
    <2>1. CASE j \in mark
      <3>1. PICK g \in Refresher : RefreshOf(g, j) /\ refresh[g].at = "asking"
        BY <2>1 DEF CacheInv, MarksRefreshed
      <3>2. refresh'[g] = refresh[g]
        BY <1>3, <3>1 DEF Idle
      <3>3. QED
        BY <3>1, <3>2 DEF RefreshOf
    <2>2. CASE j \notin mark
      <3>1. j = k
        BY <1>1, <2>2
      <3>2. PICK g \in Refresher : refresh' = [refresh EXCEPT ![g] = [at |-> "asking", key |-> k, age |-> 0]]
        BY <2>2, <3>1 DEF ServeStale
      <3>3. refresh'[g] = [at |-> "asking", key |-> k, age |-> 0]
        BY <3>2 DEF CacheInv, Shape
      <3>4. QED
        BY <3>1, <3>3 DEF RefreshOf
    <2>3. QED
      BY <2>1, <2>2
  <1>7. UnmarkedIsNewer'
    <2> SUFFICES ASSUME NEW j \in (Live' \cap Refreshing) \ mark', NEW g \in Refresher, RefreshOf(g, j)'
                 PROVE  L1TTL - entries'[j].left <= refresh'[g].age
      BY DEF UnmarkedIsNewer
    <2>1. j # k /\ j \in (Live \cap Refreshing) \ mark
      BY <1>1, <1>2
    <2>2. refresh'[g] = refresh[g]
      BY <1>3, <2>1 DEF RefreshOf
    <2>3. QED
      BY <1>1, <2>1, <2>2 DEF CacheInv, UnmarkedIsNewer, RefreshOf
  <1>8. QED
    BY <1>4, <1>5, <1>6, <1>7 DEF CacheInv

LEMMA ReadRedisKeeps ==
  ASSUME Bounds, CacheInv, NEW c \in Caller, ReadRedis(c)
  PROVE  CacheInv'
  <1> DEFINE k == caller[c].key
  <1>1. k \in Key /\ UNCHANGED <<l1Vars, redis, refresh>>
    BY DEF ReadRedis, CacheInv, Shape
  <1>2. flight' \in [Key -> [at : QueryPlaces, age : 0..MaxQuery]]
    BY <1>1, Numbers DEF ReadRedis, CacheInv, Shape, Asking, QueryPlaces
  <1>3. /\ caller' \in [Caller -> [at : Places, key : Key \cup {NoEntry}, age : Nat]]
        /\ \A d \in Caller : caller'[d].at # "idle" => caller'[d].key \in Key
        /\ \A d \in Caller : caller'[d].age <= MaxQuery + L2TTL + L1TTL
        /\ InHands'
    <2>1. CASE redis[k] # NoEntry /\ Moves(c, "fill", k, redis[k].age)
      <3>1. redis[k] \in RedisValue
        BY <1>1, <2>1 DEF CacheInv, Shape
      <3>2. redis[k].age \in Nat /\ redis[k].left \in Nat
        BY <3>1, Numbers DEF RedisValue
      <3>3. redis[k].age <= MaxQuery + L2TTL
        BY <1>1, <2>1, <3>2, Numbers DEF CacheInv, ReadableIsRecent
      <3>4. redis[k].age <= MaxQuery + L2TTL + L1TTL
        BY <3>2, <3>3, Numbers
      <3>5. QED
        BY <1>1, <2>1, <3>2, <3>3, <3>4, MovesKeeps DEF Places
    <2>2. CASE Moves(c, "waiting", k, 0)
      BY <1>1, <2>2, MovesKeeps, Numbers DEF Places
    <2>3. QED
      BY <2>1, <2>2 DEF ReadRedis
  <1>4. /\ \A j \in Live' : entries'[j].age + entries'[j].left <= MaxQuery + L2TTL + L1TTL
        /\ MarksRefreshed' /\ UnmarkedIsNewer'
    BY <1>1, SameL1
  <1>5. QED
    BY <1>1, <1>2, <1>3, <1>4, Together DEF CacheInv, Shape, l1Vars

(***************************************************************************)
(* The steps of queries and refreshes.                                     *)
(***************************************************************************)

LEMMA ReleasedKeeps ==
  ASSUME Bounds, CacheInv, NEW k \in Key, caller' = Released(k)
  PROVE  /\ caller' \in [Caller -> [at : Places, key : Key \cup {NoEntry}, age : Nat]]
         /\ \A d \in Caller : caller'[d].at # "idle" => caller'[d].key \in Key
         /\ \A d \in Caller : caller'[d].age <= MaxQuery + L2TTL + L1TTL
         /\ InHands'
  <1>1. Idle \in [at : Places, key : Key \cup {NoEntry}, age : Nat]
    BY DEF Idle, Places
  <1>2. /\ caller' \in [Caller -> [at : Places, key : Key \cup {NoEntry}, age : Nat]]
        /\ \A d \in Caller : caller'[d] = caller[d] \/ caller'[d] = Idle
    BY <1>1 DEF CacheInv, Shape, Released
  <1>3. QED
    BY <1>2, IdleKeeps

LEMMA SameCallers ==
  ASSUME Bounds, CacheInv, UNCHANGED caller
  PROVE  /\ caller' \in [Caller -> [at : Places, key : Key \cup {NoEntry}, age : Nat]]
         /\ \A d \in Caller : caller'[d].at # "idle" => caller'[d].key \in Key
         /\ \A d \in Caller : caller'[d].age <= MaxQuery + L2TTL + L1TTL
         /\ InHands'
  BY DEF CacheInv, Shape, ReadableIsRecent, InHands

LEMMA FlightFailsKeeps ==
  ASSUME Bounds, CacheInv, NEW k \in Key, FlightFails(k)
  PROVE  CacheInv'
  <1>1. /\ UNCHANGED <<l1Vars, redis, refresh>>
        /\ caller' = Released(k)
        /\ flight' \in [Key -> [at : QueryPlaces, age : 0..MaxQuery]]
    BY Numbers DEF FlightFails, CacheInv, Shape, NoQuery, QueryPlaces
  <1>2. QED
    BY <1>1, ReleasedKeeps, SameL1, Together DEF CacheInv, Shape, l1Vars

LEMMA FlightStoresL1Keeps ==
  ASSUME Bounds, CacheInv, NEW k \in Key, FlightStoresL1(k)
  PROVE  CacheInv'
  <1> DEFINE a == flight[k].age
  <1>1. /\ a \in Nat /\ a <= MaxQuery + L2TTL
        /\ Set(k, a)
        /\ UNCHANGED <<redis, caller, refresh>>
        /\ flight' \in [Key -> [at : QueryPlaces, age : 0..MaxQuery]]
    BY Numbers DEF FlightStoresL1, CacheInv, Shape, QueryPlaces
  <1>2. Stores(k, a)
    BY <1>1, SetStores DEF CacheInv
  <1>3. QED
    BY <1>1, <1>2, SameCallers, StoreKeeps, Together DEF CacheInv, Shape, Stores

(* What a query stores in Redis is no older than the query took.           *)
LEMMA RedisKeeps ==
  ASSUME Bounds, CacheInv, NEW k \in Key, NEW age \in 0..MaxQuery,
         redis' \in {redis, [redis EXCEPT ![k] = [left |-> L2TTL, age |-> age]]}
  PROVE  /\ redis' \in [Key -> RedisValue \cup {NoEntry}]
         /\ \A j \in Key : redis'[j] # NoEntry => redis'[j].age + redis'[j].left <= MaxQuery + L2TTL
  <1>1. redis \in [Key -> RedisValue \cup {NoEntry}]
    BY DEF CacheInv, Shape
  <1>2. [left |-> L2TTL, age |-> age] \in RedisValue
    BY Numbers DEF RedisValue
  <1>3. \A j \in Key : redis'[j] = redis[j] \/ redis'[j] = [left |-> L2TTL, age |-> age]
    BY <1>1
  <1>4. QED
    BY <1>1, <1>2, <1>3, Numbers DEF CacheInv, ReadableIsRecent

(* A step that leaves L1 and the refreshes alone, and stores in Redis.     *)
LEMMA TogetherInRedis ==
  ASSUME Bounds, CacheInv, UNCHANGED <<l1Vars, refresh>>,
         redis' \in [Key -> RedisValue \cup {NoEntry}],
         \A j \in Key : redis'[j] # NoEntry => redis'[j].age + redis'[j].left <= MaxQuery + L2TTL,
         flight' \in [Key -> [at : QueryPlaces, age : 0..MaxQuery]],
         caller' \in [Caller -> [at : Places, key : Key \cup {NoEntry}, age : Nat]],
         \A d \in Caller : caller'[d].at # "idle" => caller'[d].key \in Key,
         \A d \in Caller : caller'[d].age <= MaxQuery + L2TTL + L1TTL,
         InHands'
  PROVE  CacheInv'
  <1>1. /\ \A k \in Live' : entries'[k].age + entries'[k].left <= MaxQuery + L2TTL + L1TTL
        /\ MarksRefreshed' /\ UnmarkedIsNewer'
    BY SameL1
  <1>2. QED
    BY <1>1 DEF CacheInv, Shape, ReadableIsRecent, l1Vars

LEMMA FlightStoresRedisKeeps ==
  ASSUME Bounds, CacheInv, NEW k \in Key, FlightStoresRedis(k)
  PROVE  CacheInv'
  <1>1. /\ UNCHANGED <<l1Vars, refresh>>
        /\ caller' = Released(k)
        /\ flight' \in [Key -> [at : QueryPlaces, age : 0..MaxQuery]]
        /\ flight[k].age \in 0..MaxQuery
        /\ StoreRedis(k, flight[k].age)
    BY Numbers DEF FlightStoresRedis, CacheInv, Shape, NoQuery, QueryPlaces
  <1>2. /\ redis' \in [Key -> RedisValue \cup {NoEntry}]
        /\ \A j \in Key : redis'[j] # NoEntry => redis'[j].age + redis'[j].left <= MaxQuery + L2TTL
    BY <1>1, RedisKeeps DEF StoreRedis
  <1>3. QED
    BY <1>1, <1>2, ReleasedKeeps, TogetherInRedis

LEMMA OtherPodKeeps ==
  ASSUME Bounds, CacheInv, NEW k \in Key, OtherPod(k)
  PROVE  CacheInv'
  <1>1. PICK age \in 0..MaxQuery : redis' = [redis EXCEPT ![k] = [left |-> L2TTL, age |-> age]]
    BY DEF OtherPod
  <1>2. /\ redis' \in [Key -> RedisValue \cup {NoEntry}]
        /\ \A j \in Key : redis'[j] # NoEntry => redis'[j].age + redis'[j].left <= MaxQuery + L2TTL
    BY <1>1, RedisKeeps
  <1>3. UNCHANGED <<l1Vars, refresh, caller, flight>>
    BY DEF OtherPod
  <1>4. QED
    BY <1>2, <1>3, SameCallers, TogetherInRedis DEF CacheInv, Shape

LEMMA RefreshFailsKeeps ==
  ASSUME Bounds, CacheInv, NEW g \in Refresher, RefreshFails(g)
  PROVE  CacheInv'
  <1> DEFINE k == refresh[g].key
  <1>1. /\ k \in Key /\ Delete(k) /\ mark' = mark \ {k}
        /\ UNCHANGED <<redis, caller, flight>>
    BY DEF RefreshFails, CacheInv, Shape, Delete
  <1>2. Drops
    BY <1>1, DeleteDrops DEF CacheInv
  <1>3. /\ refresh' \in [Refresher -> [at : RefreshPlaces, key : Key \cup {NoEntry}, age : 0..MaxQuery]]
        /\ refresh'[g] = Idle
        /\ \A h \in Refresher \ {g} : refresh'[h] = refresh[h]
    BY Numbers DEF RefreshFails, CacheInv, Shape, Idle, RefreshPlaces
  <1>4. Shape'
    <2>1. \A h \in Refresher : refresh'[h].at # "idle" => refresh'[h].key \in Key
      BY <1>3 DEF CacheInv, Shape, Idle
    <2>2. mark' \subseteq Key /\ entries' \in [Key -> Entry \cup {NoEntry}]
      BY <1>1, <1>2 DEF CacheInv, Shape, Drops
    <2>3. QED
      BY <1>1, <1>3, <2>1, <2>2, SameCallers DEF CacheInv, Shape
  <1>5. ReadableIsRecent' /\ InHands'
    BY <1>1, <1>2, DropKeeps, SameCallers DEF CacheInv, ReadableIsRecent
  <1>6. MarksRefreshed'
    <2> SUFFICES ASSUME NEW j \in mark' \cap Refreshing
                 PROVE  \E h \in Refresher : RefreshOf(h, j)' /\ refresh'[h].at = "asking"
      BY DEF MarksRefreshed
    <2>1. j # k /\ j \in mark \cap Refreshing
      BY <1>1
    <2>2. PICK h \in Refresher : RefreshOf(h, j) /\ refresh[h].at = "asking"
      BY <2>1 DEF CacheInv, MarksRefreshed
    <2>3. refresh'[h] = refresh[h]
      BY <1>3, <2>1, <2>2 DEF RefreshOf
    <2>4. QED
      BY <2>2, <2>3 DEF RefreshOf
  <1>7. UnmarkedIsNewer'
    <2> SUFFICES ASSUME NEW j \in (Live' \cap Refreshing) \ mark', NEW h \in Refresher, RefreshOf(h, j)'
                 PROVE  L1TTL - entries'[j].left <= refresh'[h].age
      BY DEF UnmarkedIsNewer
    <2>1. j \in Live /\ entries'[j] = entries[j] /\ j \in Key
      BY <1>2, DropsLive DEF Live, Stored
    <2>2. refresh'[h] = refresh[h]
      BY <1>3 DEF RefreshOf, Idle
    <2>3. j # k
      <3>1. entries'[k] = NoEntry
        BY <1>1 DEF Delete, CacheInv, Shape
      <3>2. QED
        BY <3>1 DEF Live, Stored
    <2>4. QED
      BY <1>1, <2>1, <2>2, <2>3 DEF CacheInv, UnmarkedIsNewer, RefreshOf
  <1>8. QED
    BY <1>4, <1>5, <1>6, <1>7 DEF CacheInv

(* The new entry is as young as can be, and its mark is gone.              *)
LEMMA RefreshStoresL1Keeps ==
  ASSUME Bounds, CacheInv, NEW g \in Refresher, RefreshStoresL1(g)
  PROVE  CacheInv'
  <1> DEFINE k == refresh[g].key
             a == refresh[g].age
  <1>1. /\ k \in Key /\ a \in Nat /\ a <= MaxQuery + L2TTL
        /\ Set(k, a)
        /\ UNCHANGED <<redis, caller, flight>>
    BY Numbers DEF RefreshStoresL1, CacheInv, Shape
  <1>2. Stores(k, a)
    BY <1>1, SetStores DEF CacheInv
  <1>3. /\ refresh' \in [Refresher -> [at : RefreshPlaces, key : Key \cup {NoEntry}, age : 0..MaxQuery]]
        /\ \A h \in Refresher :
             /\ refresh'[h].key = refresh[h].key /\ refresh'[h].age = refresh[h].age
             /\ refresh'[h].at # "idle" <=> refresh[h].at # "idle"
        /\ \A h \in Refresher \ {g} : refresh'[h] = refresh[h]
    BY DEF RefreshStoresL1, CacheInv, Shape, RefreshPlaces
  <1>4. Shape'
    BY <1>1, <1>2, <1>3, SameCallers DEF CacheInv, Shape, Stores
  <1>5. ReadableIsRecent' /\ InHands'
    BY <1>1, <1>2, StoreKeeps, SameCallers DEF CacheInv, ReadableIsRecent
  <1>6. MarksRefreshed'
    <2> SUFFICES ASSUME NEW j \in mark' \cap Refreshing
                 PROVE  \E h \in Refresher : RefreshOf(h, j)' /\ refresh'[h].at = "asking"
      BY DEF MarksRefreshed
    <2>1. j # k /\ j \in mark \cap Refreshing
      BY <1>2 DEF Stores
    <2>2. PICK h \in Refresher : RefreshOf(h, j) /\ refresh[h].at = "asking"
      BY <2>1 DEF CacheInv, MarksRefreshed
    <2>3. refresh'[h] = refresh[h]
      BY <1>3, <2>1, <2>2 DEF RefreshOf
    <2>4. QED
      BY <2>2, <2>3 DEF RefreshOf
  <1>7. UnmarkedIsNewer'
    <2> SUFFICES ASSUME NEW j \in (Live' \cap Refreshing) \ mark', NEW h \in Refresher, RefreshOf(h, j)'
                 PROVE  L1TTL - entries'[j].left <= refresh'[h].age
      BY DEF UnmarkedIsNewer
    <2>1. RefreshOf(h, j) /\ refresh'[h].age = refresh[h].age /\ refresh[h].age \in Nat
      BY <1>3, Numbers DEF RefreshOf, CacheInv, Shape
    <2>2. CASE j = k
      BY <1>2, <2>1, <2>2, Numbers DEF Stores
    <2>3. CASE j # k
      <3>1. j \in (Live \cap Refreshing) \ mark /\ entries'[j] = entries[j]
        BY <1>2, <2>3, StoresLive, <1>1 DEF Stores, Live, Stored
      <3>2. QED
        BY <2>1, <3>1 DEF CacheInv, UnmarkedIsNewer
    <2>4. QED
      BY <2>2, <2>3
  <1>8. QED
    BY <1>4, <1>5, <1>6, <1>7 DEF CacheInv

LEMMA RefreshStoresRedisKeeps ==
  ASSUME Bounds, CacheInv, NEW g \in Refresher, RefreshStoresRedis(g)
  PROVE  CacheInv'
  <1>1. /\ refresh[g].at = "storing"
        /\ entries' = entries /\ mark' = mark /\ UNCHANGED <<caller, flight>>
        /\ refresh[g].age \in 0..MaxQuery /\ refresh[g].key \in Key
        /\ StoreRedis(refresh[g].key, refresh[g].age)
    BY DEF RefreshStoresRedis, CacheInv, Shape, l1Vars
  <1>2. /\ redis' \in [Key -> RedisValue \cup {NoEntry}]
        /\ \A j \in Key : redis'[j] # NoEntry => redis'[j].age + redis'[j].left <= MaxQuery + L2TTL
    BY <1>1, RedisKeeps DEF StoreRedis
  <1>3. /\ refresh' \in [Refresher -> [at : RefreshPlaces, key : Key \cup {NoEntry}, age : 0..MaxQuery]]
        /\ refresh'[g] = Idle
        /\ \A h \in Refresher \ {g} : refresh'[h] = refresh[h]
    BY Numbers DEF RefreshStoresRedis, CacheInv, Shape, Idle, RefreshPlaces
  <1>4. Live' = Live
    BY <1>1 DEF Live, Stored
  <1>5. Shape'
    BY <1>1, <1>2, <1>3, SameCallers DEF CacheInv, Shape, Idle
  <1>6. ReadableIsRecent' /\ InHands'
    BY <1>1, <1>2, <1>4, SameCallers DEF CacheInv, ReadableIsRecent
  <1>7. MarksRefreshed'
    <2> SUFFICES ASSUME NEW j \in mark \cap Refreshing
                 PROVE  \E h \in Refresher : RefreshOf(h, j)' /\ refresh'[h].at = "asking"
      BY <1>1 DEF MarksRefreshed
    <2>1. PICK h \in Refresher : RefreshOf(h, j) /\ refresh[h].at = "asking"
      BY DEF CacheInv, MarksRefreshed
    <2>2. refresh'[h] = refresh[h]
      BY <1>1, <1>3, <2>1
    <2>3. QED
      BY <2>1, <2>2 DEF RefreshOf
  <1>8. UnmarkedIsNewer'
    BY <1>1, <1>3, <1>4 DEF CacheInv, UnmarkedIsNewer, RefreshOf, Idle
  <1>9. QED
    BY <1>5, <1>6, <1>7, <1>8 DEF CacheInv

LEMMA SweepKeeps ==
  ASSUME Bounds, CacheInv, Sweep
  PROVE  CacheInv'
  <1>1. Drops /\ UNCHANGED <<mark, redis, caller, flight, refresh>>
    BY JanitorDrops DEF Sweep, Janitor, CacheInv
  <1>2. QED
    BY <1>1, DropKeeps, SameCallers, Together DEF CacheInv, Shape, Drops

(***************************************************************************)
(* Time.                                                                   *)
(***************************************************************************)

(* An entry loses a tick of its life with every tick it gets older.        *)
LEMMA AgedEntry ==
  ASSUME NEW n \in Nat, NEW e, e.left \in 1..n, e.age \in Nat
  PROVE  /\ Aged(e) \in [left : 0..n, age : Nat]
         /\ Aged(e).age + Aged(e).left <= e.age + e.left
         /\ Aged(e).left > 0 => Aged(e).left = e.left - 1
         /\ Aged(e).left = 0 <=> e.left = 1
  <1>1. CASE e.left = 1
    BY <1>1 DEF Aged, Gone
  <1>2. CASE e.left # 1
    BY <1>2 DEF Aged
  <1>3. QED
    BY <1>1, <1>2

LEMMA TickKeeps ==
  ASSUME Bounds, CacheInv, Tick
  PROVE  CacheInv'
  <1>1. /\ UNCHANGED <<mark, caller>>
        /\ entries \in [Key -> Entry \cup {NoEntry}]
        /\ redis \in [Key -> RedisValue \cup {NoEntry}]
        /\ flight \in [Key -> [at : QueryPlaces, age : 0..MaxQuery]]
        /\ refresh \in [Refresher -> [at : RefreshPlaces, key : Key \cup {NoEntry}, age : 0..MaxQuery]]
    BY DEF Tick, CacheInv, Shape
  <1>2. ASSUME NEW k \in Live
        PROVE  /\ k \in Key /\ entries'[k] = Aged(entries[k])
               /\ entries[k].left \in 1..L1TTL /\ entries[k].age \in Nat
               /\ entries[k].left \in Nat
    <2>1. k \in Key /\ entries[k] \in Entry /\ entries[k].left # 0
      BY <1>1 DEF Live, Stored, Expired
    <2>2. entries'[k] = Aged(entries[k])
      BY <2>1 DEF Tick
    <2>3. QED
      BY <2>1, <2>2, Numbers DEF Entry
  <1>3. \A k \in Key \ Live : entries'[k] = entries[k]
    BY DEF Tick
  <1>4. entries' \in [Key -> Entry \cup {NoEntry}]
    <2>1. \A k \in Live : Aged(entries[k]) \in Entry
      BY <1>2, AgedEntry, Numbers DEF Entry
    <2>2. QED
      BY <1>1, <2>1 DEF Tick
  <1>5. Live' \subseteq Live
    BY <1>3 DEF Live, Stored, Expired
  <1>6. ASSUME NEW k \in Live'
        PROVE  /\ entries'[k].left = entries[k].left - 1
               /\ entries'[k].age + entries'[k].left <= entries[k].age + entries[k].left
    <2>1. /\ k \in Live /\ entries'[k] = Aged(entries[k])
          /\ entries[k].left \in 1..L1TTL /\ entries[k].age \in Nat
      BY <1>2, <1>5
    <2>2. /\ Aged(entries[k]) \in [left : 0..L1TTL, age : Nat]
          /\ Aged(entries[k]).age + Aged(entries[k]).left <= entries[k].age + entries[k].left
          /\ Aged(entries[k]).left > 0 => Aged(entries[k]).left = entries[k].left - 1
      BY <2>1, AgedEntry, Numbers
    <2>3. entries'[k].left # 0
      BY DEF Live, Expired
    <2>4. Aged(entries[k]).left > 0
      BY <2>1, <2>2, <2>3, Numbers
    <2>5. QED
      BY <2>1, <2>2, <2>4
  <1>7. ASSUME NEW k \in Key, redis'[k] # NoEntry
        PROVE  /\ redis'[k] \in RedisValue
               /\ redis'[k].age + redis'[k].left <= MaxQuery + L2TTL
    <2>1. redis[k] # NoEntry /\ redis[k].left # 1 /\ redis'[k] = Aged(redis[k])
      BY <1>7 DEF Tick
    <2>2. redis[k] \in RedisValue
      BY <1>1, <2>1
    <2>3. redis[k].left \in 1..L2TTL /\ redis[k].age \in Nat
      BY <2>2 DEF RedisValue
    <2>4. /\ Aged(redis[k]) \in [left : 0..L2TTL, age : Nat]
          /\ Aged(redis[k]).age + Aged(redis[k]).left <= redis[k].age + redis[k].left
          /\ Aged(redis[k]).left # 0
      BY <2>1, <2>3, AgedEntry, Numbers
    <2>5. redis[k].age + redis[k].left <= MaxQuery + L2TTL
      BY <2>1 DEF CacheInv, ReadableIsRecent
    <2>6. Aged(redis[k]) \in RedisValue
      BY <2>4, Numbers DEF RedisValue
    <2>7. Aged(redis[k]).age + Aged(redis[k]).left <= MaxQuery + L2TTL
      <3>1. Aged(redis[k]).age \in Nat /\ Aged(redis[k]).left \in Nat
        BY <2>6, Numbers DEF RedisValue
      <3>2. QED
        BY <2>3, <2>4, <2>5, <3>1, Numbers
    <2>8. QED
      BY <2>1, <2>6, <2>7
  <1>8. redis' \in [Key -> RedisValue \cup {NoEntry}]
    <2>1. \A k \in Key : redis'[k] \in RedisValue \cup {NoEntry}
      BY <1>7
    <2>2. redis' = [k \in Key |-> redis'[k]]
      BY DEF Tick
    <2>3. QED
      BY <2>1, <2>2
  <1>9. /\ flight' \in [Key -> [at : QueryPlaces, age : 0..MaxQuery]]
        /\ refresh' \in [Refresher -> [at : RefreshPlaces, key : Key \cup {NoEntry}, age : 0..MaxQuery]]
    <2>1. \A k \in Key : Older(flight[k]) \in [at : QueryPlaces, age : 0..MaxQuery]
      BY <1>1, Numbers DEF Tick, Unhurried, Older
    <2>2. \A g \in Refresher :
            Older(refresh[g]) \in [at : RefreshPlaces, key : Key \cup {NoEntry}, age : 0..MaxQuery]
      BY <1>1, Numbers DEF Tick, Unhurried, Older
    <2>3. QED
      BY <2>1, <2>2 DEF Tick
  <1>10. ASSUME NEW g \in Refresher
         PROVE  /\ refresh'[g].at = refresh[g].at /\ refresh'[g].key = refresh[g].key
                /\ refresh[g].at # "idle" => refresh'[g].age = refresh[g].age + 1
    <2>1. refresh'[g] = Older(refresh[g]) /\ refresh[g].at \in {"idle", "asking"}
      BY <1>1 DEF Tick, Unhurried, RefreshPlaces
    <2>2. QED
      BY <1>1, <2>1 DEF Older
  <1>11. Shape'
    BY <1>1, <1>4, <1>8, <1>9, <1>10, SameCallers DEF CacheInv, Shape
  <1>12. ReadableIsRecent'
    <2>1. ASSUME NEW k \in Live'
          PROVE  entries'[k].age + entries'[k].left <= MaxQuery + L2TTL + L1TTL
      <3>1. entries[k].age + entries[k].left <= MaxQuery + L2TTL + L1TTL
        BY <1>5 DEF CacheInv, ReadableIsRecent
      <3>2. k \in Key /\ entries'[k] # NoEntry
        BY DEF Live, Stored
      <3>3. entries'[k] \in Entry
        BY <1>4, <3>2
      <3>4. entries'[k].age \in Nat /\ entries'[k].left \in Nat
        BY <3>3, Numbers DEF Entry
      <3>5. entries[k].age \in Nat /\ entries[k].left \in Nat
        BY <1>2, <1>5
      <3>6. QED
        BY <1>6, <3>1, <3>4, <3>5, Numbers
    <2>2. QED
      BY <1>7, <2>1, SameCallers, <1>1 DEF ReadableIsRecent
  <1>13. InHands'
    BY <1>1, SameCallers
  <1>14. MarksRefreshed'
    BY <1>1, <1>10 DEF CacheInv, MarksRefreshed, RefreshOf
  <1>15. UnmarkedIsNewer'
    <2> SUFFICES ASSUME NEW k \in (Live' \cap Refreshing) \ mark', NEW g \in Refresher, RefreshOf(g, k)'
                 PROVE  L1TTL - entries'[k].left <= refresh'[g].age
      BY DEF UnmarkedIsNewer
    <2>1. k \in (Live \cap Refreshing) \ mark /\ entries'[k].left = entries[k].left - 1
      BY <1>1, <1>5, <1>6
    <2>2. RefreshOf(g, k) /\ refresh'[g].age = refresh[g].age + 1
      BY <1>10 DEF RefreshOf
    <2>3. L1TTL - entries[k].left <= refresh[g].age
      BY <2>1, <2>2 DEF CacheInv, UnmarkedIsNewer
    <2>4. entries[k].left \in Nat /\ refresh[g].age \in Nat
      BY <1>1, <1>2, <2>1, Numbers
    <2>5. QED
      BY <2>1, <2>2, <2>3, <2>4, Numbers
  <1>16. QED
    BY <1>11, <1>12, <1>13, <1>14, <1>15 DEF CacheInv

LEMMA CacheStep == Bounds /\ CacheInv /\ [QueryNext]_queryVars => CacheInv'
  <1> SUFFICES ASSUME Bounds, CacheInv, [QueryNext]_queryVars PROVE CacheInv'
    OBVIOUS
  <1>1. CASE UNCHANGED queryVars
    <2>1. UNCHANGED <<l1Vars, redis, caller, flight, refresh>>
      BY <1>1 DEF queryVars
    <2>2. QED
      BY <2>1, SameL1, SameCallers, Together DEF CacheInv, Shape, l1Vars
  <1>2. ASSUME NEW c \in Caller, NEW k \in Key, Lookup(c, k) PROVE CacheInv'
    BY <1>2, LookupKeeps
  <1>3. ASSUME NEW c \in Caller, RemoveExpired(c) PROVE CacheInv'
    BY <1>3, RemoveExpiredKeeps
  <1>4. ASSUME NEW c \in Caller, ServeStale(c) PROVE CacheInv'
    BY <1>4, ServeStaleKeeps
  <1>5. ASSUME NEW c \in Caller, ReadRedis(c) PROVE CacheInv'
    BY <1>5, ReadRedisKeeps
  <1>6. ASSUME NEW c \in Caller, Fill(c) PROVE CacheInv'
    BY <1>6, FillKeeps
  <1>7. ASSUME NEW k \in Key, FlightFails(k) \/ FlightStoresL1(k) PROVE CacheInv'
    BY <1>7, FlightFailsKeeps, FlightStoresL1Keeps
  <1>8. ASSUME NEW k \in Key, FlightStoresRedis(k) \/ OtherPod(k) PROVE CacheInv'
    BY <1>8, FlightStoresRedisKeeps, OtherPodKeeps
  <1>9. ASSUME NEW g \in Refresher, RefreshFails(g) \/ RefreshStoresL1(g) PROVE CacheInv'
    BY <1>9, RefreshFailsKeeps, RefreshStoresL1Keeps
  <1>10. ASSUME NEW g \in Refresher, RefreshStoresRedis(g) PROVE CacheInv'
    BY <1>10, RefreshStoresRedisKeeps
  <1>11. CASE Sweep
    BY <1>11, SweepKeeps
  <1>12. CASE Tick
    BY <1>12, TickKeeps
  <1>13. QED
    BY <1>1, <1>2, <1>3, <1>4, <1>5, <1>6, <1>7, <1>8, <1>9, <1>10, <1>11, <1>12 DEF QueryNext

LEMMA CacheInvariant == QuerySpec => []CacheInv
  <1>1. Bounds
    BY L1Assumption, QueryCacheAssumption DEF Bounds
  <1>2. QED
    BY <1>1, CacheInitially, CacheStep, PTL DEF QuerySpec

(* However entries move between L1, Redis and the callers' hands, none is  *)
(* served that is older than both lifetimes and a query together.          *)
THEOREM ReadableAlwaysRecent == QuerySpec => []ReadableIsRecent
  <1>1. CacheInv => ReadableIsRecent
    BY DEF CacheInv
  <1>2. QED
    BY <1>1, CacheInvariant, PTL

(* A mark has a refresh under way; a stale entry without a mark has none:  *)
(* a refresh takes less time than an entry needs to become stale.          *)
THEOREM MarkedAlwaysRefreshing == QuerySpec => []MarkedIsRefreshing
  <1>1. CacheInv => MarkedIsRefreshing
    <2> SUFFICES ASSUME CacheInv PROVE MarkedIsRefreshing
      OBVIOUS
    <2>1. Bounds
      BY L1Assumption, QueryCacheAssumption DEF Bounds
    <2>2. ASSUME NEW k \in (Live \cap Refreshing) \ mark, Stale(entries[k]),
                 NEW g \in Refresher, RefreshOf(g, k)
          PROVE  FALSE
      <3>1. L1TTL - entries[k].left <= refresh[g].age
        BY <2>2 DEF CacheInv, UnmarkedIsNewer
      <3>2. refresh[g].age \in 0..MaxQuery
        BY DEF CacheInv, Shape
      <3>3. entries[k] \in Entry
        BY DEF CacheInv, Shape, Live, Stored
      <3>4. entries[k].left \in Nat /\ entries[k].left <= L1TTL - L1Stale
        BY <2>1, <2>2, <3>3, Numbers DEF Entry, Stale
      <3>5. QED
        BY <2>1, <3>1, <3>2, <3>4, Numbers
    <2>3. QED
      BY <2>2 DEF CacheInv, MarksRefreshed, MarkedIsRefreshing
  <1>2. QED
    BY <1>1, CacheInvariant, PTL

(***************************************************************************)
(* The order of insertion. Induction goes by the least number outside a    *)
(* set: what holds of 0, and of m + 1 when of m, holds up to n.            *)
(***************************************************************************)

LEMMA LeastNumber ==
  ASSUME NEW S \in SUBSET Nat, S # {}
  PROVE  \E m \in S : \A j \in S : m <= j
  <1> DEFINE R == OpToRel(<, Nat)
  <1>1. IsWellFoundedOn(R, Nat)
    BY NatLessThanWellFounded
  <1>2. \A i, j \in Nat : j < i => <<j, i>> \in R
    BY DEF OpToRel
  <1> HIDE DEF R
  <1>3. PICK m \in S : \A j \in S : ~(<<j, m>> \in R)
    BY <1>1, WFMin
  <1>4. \A j \in S : ~(j < m) /\ j \in Nat /\ m \in Nat
    BY <1>2, <1>3
  <1>5. QED
    BY <1>4

LEMMA UpTo ==
  ASSUME NEW n \in Nat, NEW S, 0 \in S, \A m \in 0..(n - 1) : m \in S => m + 1 \in S
  PROVE  0..n \subseteq S
  <1> DEFINE Outside == {m \in 0..n : m \notin S}
  <1> SUFFICES ASSUME Outside # {} PROVE FALSE
    OBVIOUS
  <1>1. PICK m \in Outside : \A j \in Outside : m <= j
    <2>1. Outside \in SUBSET Nat
      OBVIOUS
    <2> HIDE DEF Outside
    <2>2. QED
      BY <2>1, LeastNumber
  <1>2. m \in 0..n /\ m \notin S /\ m # 0
    BY <1>1
  <1>3. m - 1 \in 0..(n - 1) /\ m - 1 \in 0..n /\ (m - 1) + 1 = m
    BY <1>2
  <1>4. m - 1 \in S
    BY <1>1, <1>3
  <1>5. QED
    BY <1>2, <1>3, <1>4

(* The loop of evictExpired, after the first n keys of s.                  *)
LoopTo(s, S, n, g) ==
  g = [i \in 0..n |->
         IF i = 0 THEN <<>> ELSE IF s[i] \in S THEN Append(g[i - 1], s[i]) ELSE g[i - 1]]

(* It always has a result.                                                 *)
LEMMA LoopRuns ==
  ASSUME NEW s, NEW S, NEW n \in Nat
  PROVE  \E g : LoopTo(s, S, n, g)
  <1> DEFINE Done == {m \in Nat : \E g : LoopTo(s, S, m, g)}
  <1>1. 0 \in Done
    <2>1. LoopTo(s, S, 0, [i \in 0..0 |-> <<>>])
      BY DEF LoopTo
    <2>2. QED
      BY <2>1
  <1>2. ASSUME NEW m \in 0..(n - 1), m \in Done
        PROVE  m + 1 \in Done
    <2>1. PICK g : LoopTo(s, S, m, g)
      BY <1>2
    <2> DEFINE last == IF s[m + 1] \in S THEN Append(g[m], s[m + 1]) ELSE g[m]
               h == [i \in 0..(m + 1) |-> IF i = m + 1 THEN last ELSE g[i]]
    <2>2. \A i \in 0..m : h[i] = g[i]
      OBVIOUS
    <2>3. h[m + 1] = last
      OBVIOUS
    <2>4. \A i \in 0..m :
            g[i] = IF i = 0 THEN <<>> ELSE IF s[i] \in S THEN Append(g[i - 1], s[i]) ELSE g[i - 1]
      BY <2>1 DEF LoopTo
    <2>5. \A i \in 0..(m + 1) :
            h[i] = IF i = 0 THEN <<>> ELSE IF s[i] \in S THEN Append(h[i - 1], s[i]) ELSE h[i - 1]
      <3> SUFFICES ASSUME NEW i \in 0..(m + 1)
                   PROVE  h[i] = IF i = 0 THEN <<>>
                                 ELSE IF s[i] \in S THEN Append(h[i - 1], s[i]) ELSE h[i - 1]
        OBVIOUS
      <3>1. CASE i = m + 1
        <4>1. h[i - 1] = g[m] /\ i # 0
          BY <2>2, <3>1
        <4> HIDE DEF h
        <4>2. QED
          BY <2>3, <3>1, <4>1
      <3>2. CASE i # m + 1
        <4>1. i \in 0..m /\ (i # 0 => i - 1 \in 0..m)
          BY <3>2
        <4> HIDE DEF h
        <4>2. QED
          BY <2>2, <2>4, <4>1
      <3>3. QED
        BY <3>1, <3>2
    <2>6. LoopTo(s, S, m + 1, h)
      <3>1. h = [i \in 0..(m + 1) |-> h[i]]
        OBVIOUS
      <3> HIDE DEF h
      <3>2. QED
        BY <2>5, <3>1 DEF LoopTo
    <2>7. QED
      BY <2>6
  <1> HIDE DEF Done
  <1>3. 0..n \subseteq Done
    BY <1>1, <1>2, UpTo
  <1>4. QED
    BY <1>3 DEF Done

(* It keeps every key of S that s lists, and adds none.                    *)
LEMMA FilteredKeeps ==
  ASSUME NEW T, NEW s \in Seq(T), NEW S
  PROVE  /\ Filtered(s, S) \in Seq(T)
         /\ \A j \in 1..Len(s) : s[j] \in S =>
              \E i \in 1..Len(Filtered(s, S)) : Filtered(s, S)[i] = s[j]
  <1> DEFINE f == CHOOSE g : LoopTo(s, S, Len(s), g)
  <1>1. Len(s) \in Nat
    OBVIOUS
  <1>2. Filtered(s, S) = f[Len(s)]
    BY DEF Filtered, LoopTo
  <1>3. LoopTo(s, S, Len(s), f)
    BY <1>1, LoopRuns
  <1> HIDE DEF f
  <1>4. \A i \in 0..Len(s) :
          f[i] = IF i = 0 THEN <<>> ELSE IF s[i] \in S THEN Append(f[i - 1], s[i]) ELSE f[i - 1]
    BY <1>3 DEF LoopTo
  <1> DEFINE Holds(m) == /\ f[m] \in Seq(T)
                         /\ \A j \in 1..m : s[j] \in S => \E i \in 1..Len(f[m]) : f[m][i] = s[j]
             Good == {m \in 0..Len(s) : Holds(m)}
  <1>5. 0 \in Good
    <2>1. f[0] = <<>> /\ 0 \in 0..Len(s)
      BY <1>1, <1>4
    <2>2. <<>> \in Seq(T) /\ 1..0 = {}
      OBVIOUS
    <2>3. Holds(0)
      BY <2>1, <2>2
    <2>4. QED
      BY <2>1, <2>3
  <1>6. ASSUME NEW m \in 0..(Len(s) - 1), m \in Good
        PROVE  m + 1 \in Good
    <2>1. /\ m + 1 \in 0..Len(s) /\ m + 1 # 0 /\ (m + 1) - 1 = m /\ m + 1 \in 1..Len(s)
          /\ Holds(m)
      BY <1>1, <1>6
    <2>2. f[m + 1] = IF s[m + 1] \in S THEN Append(f[m], s[m + 1]) ELSE f[m]
      BY <1>4, <2>1
    <2>3. s[m + 1] \in T
      BY <2>1
    <2>4. CASE s[m + 1] \in S
      <3>1. f[m + 1] = Append(f[m], s[m + 1])
        BY <2>2, <2>4
      <3>2. /\ f[m + 1] \in Seq(T) /\ Len(f[m + 1]) = Len(f[m]) + 1
            /\ \A i \in 1..Len(f[m]) : f[m + 1][i] = f[m][i]
            /\ f[m + 1][Len(f[m]) + 1] = s[m + 1]
            /\ Len(f[m]) \in Nat
        BY <2>1, <2>3, <3>1, AppendProperties
      <3>3. ASSUME NEW j \in 1..(m + 1), s[j] \in S
            PROVE  \E i \in 1..Len(f[m + 1]) : f[m + 1][i] = s[j]
        <4>1. CASE j = m + 1
          BY <3>2, <4>1
        <4>2. CASE j # m + 1
          <5>1. j \in 1..m
            BY <4>2
          <5>2. PICK i \in 1..Len(f[m]) : f[m][i] = s[j]
            BY <2>1, <3>3, <5>1
          <5>3. i \in 1..Len(f[m + 1])
            BY <3>2
          <5>4. QED
            BY <3>2, <5>2, <5>3
        <4>3. QED
          BY <4>1, <4>2
      <3>4. QED
        BY <2>1, <3>2, <3>3
    <2>5. CASE s[m + 1] \notin S
      <3>1. f[m + 1] = f[m]
        BY <2>2, <2>5
      <3>2. \A j \in 1..(m + 1) : s[j] \in S => j \in 1..m
        BY <2>5
      <3>3. QED
        BY <2>1, <3>1, <3>2
    <2>6. QED
      BY <2>4, <2>5
  <1>7. 0..Len(s) \subseteq Good
    <2> HIDE DEF Good
    <2>1. QED
      BY <1>1, <1>5, <1>6, UpTo
  <1>8. Holds(Len(s))
    BY <1>1, <1>7
  <1>9. QED
    BY <1>2, <1>8

(***************************************************************************)
(* What the janitor drops from the front is enough.                        *)
(***************************************************************************)

(* Whatever is stored is listed, at least once.                            *)
Listed == \A k \in Stored : \E i \in 1..Len(order) : order[i] = k

OrderInv == order \in Seq(Key) /\ Listed

LEMMA OrderInitially == QueryInit => OrderInv
  <1> SUFFICES ASSUME QueryInit PROVE OrderInv
    OBVIOUS
  <1>1. order = <<>> /\ Stored = {}
    BY DEF QueryInit, L1Init, Stored
  <1>2. QED
    BY <1>1 DEF OrderInv, Listed

LEMMA SetLists ==
  ASSUME Shape, OrderInv, NEW k \in Key, NEW age, Set(k, age)
  PROVE  OrderInv'
  <1>1. \A j \in Key \ {k} : entries'[j] = entries[j]
    BY DEF Set, Shape
  <1>2. Stored' \ {k} \subseteq Stored
    BY <1>1 DEF Stored
  <1>3. CASE entries[k] = NoEntry
    <2>1. order' = Append(order, k)
      BY <1>3 DEF Set
    <2>2. /\ order' \in Seq(Key) /\ Len(order') = Len(order) + 1 /\ Len(order) \in Nat
          /\ \A i \in 1..Len(order) : order'[i] = order[i]
          /\ order'[Len(order) + 1] = k
      BY <2>1, AppendProperties DEF OrderInv
    <2>3. ASSUME NEW j \in Stored'
          PROVE  \E i \in 1..Len(order') : order'[i] = j
      <3>1. CASE j = k
        BY <2>2, <3>1
      <3>2. CASE j # k
        <4>1. PICK i \in 1..Len(order) : order[i] = j
          BY <1>2, <3>2 DEF OrderInv, Listed
        <4>2. i \in 1..Len(order') /\ order'[i] = j
          BY <2>2, <4>1
        <4>3. QED
          BY <4>2
      <3>3. QED
        BY <3>1, <3>2
    <2>4. QED
      BY <2>2, <2>3 DEF OrderInv, Listed
  <1>4. CASE entries[k] # NoEntry
    <2>1. order' = order /\ k \in Stored
      BY <1>4 DEF Set, Stored
    <2>2. Stored' \subseteq Stored
      BY <1>2, <2>1
    <2>3. QED
      BY <2>1, <2>2 DEF OrderInv, Listed
  <1>5. QED
    BY <1>3, <1>4

(* Entries that are dropped, and time, list nothing less.                  *)
LEMMA SameOrderLists ==
  ASSUME OrderInv, UNCHANGED order, Stored' \subseteq Stored
  PROVE  OrderInv'
  BY DEF OrderInv, Listed

(* Dropping all that is listed would empty the cache, so fewer will do.    *)
LEMMA EvictedIsEnough ==
  ASSUME Bounds, OrderInv
  PROVE  /\ Evicted(Live) \in 0..Len(order)
         /\ Cardinality(Kept) <= MaxEntries
  <1> DEFINE Fits(n) == Cardinality(Live \ {order[i] : i \in 1..n}) <= MaxEntries
             Enough == {n \in 0..Len(order) : Fits(n)}
  <1>1. Len(order) \in Nat /\ MaxEntries \in Nat
    BY DEF OrderInv, Bounds, L1Assumption
  <1>2. Fits(Len(order))
    <2>1. Live \ {order[i] : i \in 1..Len(order)} = {}
      BY DEF OrderInv, Listed, Live
    <2>2. Cardinality({}) = 0
      BY FS_EmptySet
    <2>3. Cardinality(Live \ {order[i] : i \in 1..Len(order)}) = 0
      BY <2>1, <2>2, Zenon
    <2>4. QED
      BY <1>1, <2>3
  <1>3. PICK n \in Enough : \A j \in Enough : n <= j
    <2>1. Enough \in SUBSET Nat /\ Enough # {}
      <3> HIDE DEF Fits
      <3>1. QED
        BY <1>1, <1>2
    <2> HIDE DEF Enough
    <2>2. QED
      BY <2>1, LeastNumber
  <1>4. n \in 0..Len(order) /\ Fits(n) /\ \A m \in 0..(n - 1) : ~Fits(m)
    <2>1. \A m \in 0..(n - 1) : m \in 0..Len(order) /\ ~(n <= m)
      BY <1>1, <1>3
    <2> HIDE DEF Fits
    <2>2. QED
      BY <1>3, <2>1
  <1>5. /\ \E m \in 0..Len(order) : Fits(m)
        /\ Evicted(Live) = CHOOSE m \in 0..Len(order) : Fits(m) /\ \A l \in 0..(m - 1) : ~Fits(l)
    BY <1>4 DEF Evicted
  <1> HIDE DEF Fits
  <1>6. Evicted(Live) \in 0..Len(order) /\ Fits(Evicted(Live))
    BY <1>4, <1>5
  <1>7. QED
    BY <1>6 DEF Fits, Kept

LEMMA JanitorLists ==
  ASSUME Bounds, Shape, OrderInv, Janitor
  PROVE  OrderInv'
  <1> DEFINE n == Evicted(Live)
             rest == SubSeq(order, n + 1, Len(order))
  <1>1. n \in 0..Len(order) /\ Len(order) \in Nat /\ order \in Seq(Key)
    BY EvictedIsEnough DEF OrderInv
  <1>2. /\ rest \in Seq(Key)
        /\ Len(rest) = Len(order) - n
        /\ \A i \in 1..(Len(order) - n) : rest[i] = order[n + i]
    <2> HIDE DEF n
    <2>1. \A i \in (n + 1)..Len(order) : order[i] \in Key
      BY <1>1
    <2>2. QED
      BY <1>1, <2>1, SubSeqProperties
  <1>3. order' = Filtered(rest, Kept)
    BY DEF Janitor
  <1>4. Stored' \subseteq Kept
    BY DEF Janitor, Stored
  <1>5. ASSUME NEW k \in Kept
        PROVE  \E j \in 1..Len(rest) : rest[j] = k
    <2>1. k \in Stored /\ k \notin {order[i] : i \in 1..n}
      BY DEF Kept, Live
    <2>2. PICK i \in 1..Len(order) : order[i] = k
      BY <2>1 DEF OrderInv, Listed
    <2>3. i \notin 1..n
      BY <2>1, <2>2
    <2> HIDE DEF n, rest
    <2>4. i - n \in 1..(Len(order) - n) /\ n + (i - n) = i
      BY <1>1, <2>3
    <2>5. rest[i - n] = k /\ i - n \in 1..Len(rest)
      BY <1>2, <2>2, <2>4
    <2>6. QED
      BY <2>5
  <1> HIDE DEF rest
  <1>6. /\ order' \in Seq(Key)
        /\ \A j \in 1..Len(rest) : rest[j] \in Kept => \E i \in 1..Len(order') : order'[i] = rest[j]
    BY <1>2, <1>3, FilteredKeeps
  <1>7. Listed'
    <2> SUFFICES ASSUME NEW k \in Stored' PROVE \E i \in 1..Len(order') : order'[i] = k
      BY DEF Listed
    <2>1. PICK j \in 1..Len(rest) : rest[j] = k
      BY <1>4, <1>5
    <2>2. QED
      BY <1>4, <1>6, <2>1
  <1>8. QED
    BY <1>6, <1>7 DEF OrderInv

LEMMA OrderStep == Bounds /\ CacheInv /\ OrderInv /\ [QueryNext]_queryVars => OrderInv'
  <1> SUFFICES ASSUME Bounds, CacheInv, OrderInv, [QueryNext]_queryVars PROVE OrderInv'
    OBVIOUS
  <1>1. CASE UNCHANGED <<order, entries>>
    BY <1>1, SameOrderLists DEF Stored
  <1>2. ASSUME NEW k \in Key, NEW age, Set(k, age) PROVE OrderInv'
    BY <1>2, SetLists DEF CacheInv
  <1>3. ASSUME NEW k \in Key, Delete(k) \/ DeleteExpired(k) PROVE OrderInv'
    <2>1. UNCHANGED order /\ Drops
      BY <1>3, DeleteDrops DEF CacheInv, Delete, DeleteExpired
    <2>2. Stored' \subseteq Stored
      BY <2>1 DEF Drops, Stored
    <2>3. QED
      BY <2>1, <2>2, SameOrderLists
  <1>4. CASE Janitor
    BY <1>4, JanitorLists DEF CacheInv
  <1>5. CASE Tick
    <2>1. UNCHANGED order /\ \A k \in Key : k \notin Live => entries'[k] = entries[k]
      BY <1>5 DEF Tick
    <2>2. Stored' \subseteq Stored
      BY <2>1 DEF Live, Stored
    <2>3. QED
      BY <2>1, <2>2, SameOrderLists
  <1>6. ASSUME NEW c \in Caller, RemoveExpired(c) PROVE OrderInv'
    BY <1>3, <1>6 DEF RemoveExpired, CacheInv, Shape
  <1>7. ASSUME NEW c \in Caller, Fill(c) PROVE OrderInv'
    BY <1>2, <1>7 DEF Fill, CacheInv, Shape
  <1>8. ASSUME NEW g \in Refresher, RefreshFails(g) PROVE OrderInv'
    BY <1>3, <1>8 DEF RefreshFails, CacheInv, Shape
  <1>9. ASSUME NEW g \in Refresher, RefreshStoresL1(g) PROVE OrderInv'
    BY <1>2, <1>9 DEF RefreshStoresL1, CacheInv, Shape
  <1>10. ASSUME NEW k \in Key, FlightStoresL1(k) PROVE OrderInv'
    BY <1>2, <1>10 DEF FlightStoresL1
  <1>11. ASSUME NEW c \in Caller, \/ \E k \in Key : Lookup(c, k)
                                  \/ ServeStale(c) \/ ReadRedis(c)
         PROVE  UNCHANGED <<order, entries>>
    BY <1>11 DEF Lookup, ServeStale, ReadRedis, Mark, l1Vars
  <1>12. ASSUME NEW k \in Key, FlightFails(k) \/ FlightStoresRedis(k) \/ OtherPod(k)
         PROVE  UNCHANGED <<order, entries>>
    BY <1>12 DEF FlightFails, FlightStoresRedis, OtherPod, l1Vars
  <1>13. ASSUME NEW g \in Refresher, RefreshStoresRedis(g)
         PROVE  UNCHANGED <<order, entries>>
    BY <1>13 DEF RefreshStoresRedis, l1Vars
  <1>14. UNCHANGED queryVars => UNCHANGED <<order, entries>>
    BY DEF queryVars, l1Vars
  <1>15. Sweep => Janitor
    BY DEF Sweep
  <1>16. QED
    BY <1>1, <1>4, <1>5, <1>6, <1>7, <1>8, <1>9, <1>10, <1>11, <1>12, <1>13, <1>14, <1>15 DEF QueryNext

LEMMA OrderInvariant == QuerySpec => []OrderInv
  <1>1. Bounds
    BY L1Assumption, QueryCacheAssumption DEF Bounds
  <1>2. QED
    BY <1>1, OrderInitially, OrderStep, CacheInvariant, PTL DEF QuerySpec

(* Entries, order and marks, what Redis holds, and queries and refreshes   *)
(* under way are always well formed.                                       *)
THEOREM QueryTypeCorrect == QuerySpec => []QueryTypeOK
  <1>1. CacheInv /\ OrderInv => QueryTypeOK
    BY DEF CacheInv, Shape, OrderInv, QueryTypeOK, L1TypeOK, Entry, RedisValue
  <1>2. QED
    BY <1>1, CacheInvariant, OrderInvariant, PTL

(* Whenever the janitor runs, what it keeps fits the capacity: however     *)
(* often keys were dropped and stored again, every entry is in the order.  *)
THEOREM JanitorAlwaysBounds == QuerySpec => []JanitorBounds
  <1>1. OrderInv => JanitorBounds
    <2>1. Bounds
      BY L1Assumption, QueryCacheAssumption DEF Bounds
    <2>2. QED
      BY <2>1, EvictedIsEnough DEF JanitorBounds
  <1>2. QED
    BY <1>1, OrderInvariant, PTL
=============================================================================
