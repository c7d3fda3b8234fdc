----------------------------- MODULE QueryCache -----------------------------
(***************************************************************************)
(* internal/querying/service.go: the endpoints EventCount, Funnel, DAU and *)
(* Retention ask the L1 cache, then Redis, then ClickHouse, where          *)
(* singleflight lets one caller per key query for all that wait. A stale   *)
(* entry is served at once; EventCount then refreshes it in the background *)
(* (Refreshing), the other endpoints drop the hint.                        *)
(*                                                                         *)
(* A key is a request: endpoint, SQL and arguments. What the bulkhead, the *)
(* breaker and the caller's context do to a query is QueryGuard's matter:  *)
(* it fails here. Steps in memory take less than a tick. A query takes at  *)
(* most MaxQuery ticks, which for the background refresh is its context's  *)
(* ten seconds and for the others an assumption about ClickHouse.          *)
(***************************************************************************)
EXTENDS L1Cache

CONSTANTS
  Caller,     (* goroutines of requests                                    *)
  Refreshing, (* keys of EventCount                                        *)
  Refresher,  (* bound: goroutines of refreshEventCount at a time          *)
  L2TTL,      (* cacheL2TTL, or ten minutes for Retention, in ticks        *)
  MaxQuery    (* bound: ticks a query takes                                *)

ASSUME QueryCacheAssumption ==
  /\ Refreshing \subseteq Key
  /\ L2TTL \in Nat \ {0}
  /\ MaxQuery \in Nat /\ MaxQuery < L1Stale

VARIABLES
  redis,    (* per key the ticks left and the value's age                  *)
  caller,   (* per caller the place, the key and the age of a value read   *)
  flight,   (* per key the call of singleflight                            *)
  refresh   (* per goroutine of refreshEventCount its place, key and age   *)

queryVars == <<l1Vars, redis, caller, flight, refresh>>

Idle == [at |-> "idle", key |-> NoEntry, age |-> 0]
NoQuery == [at |-> "none", age |-> 0]
Asking == [at |-> "asking", age |-> 0]

QueryInit ==
  /\ L1Init
  /\ redis = [k \in Key |-> NoEntry]
  /\ caller = [c \in Caller |-> Idle]
  /\ flight = [k \in Key |-> NoQuery]
  /\ refresh = [g \in Refresher |-> Idle]

Moves(c, place, k, age) == caller' = [caller EXCEPT ![c] = [at |-> place, key |-> k, age |-> age]]
Returns(c) == caller' = [caller EXCEPT ![c] = Idle]

\* Get reads the entry under the read lock. A fresh one is served.
Lookup(c, k) ==
  /\ caller[c].at = "idle"
  /\ CASE k \notin Stored      -> Moves(c, "redis", k, 0)
       [] k \in Stored /\ Expired(entries[k]) -> Moves(c, "expired", k, 0)
       [] k \in Stored /\ Stale(entries[k])   -> Moves(c, "stale", k, entries[k].age)
       [] OTHER                -> Returns(c)
  /\ UNCHANGED <<l1Vars, redis, flight, refresh>>

RemoveExpired(c) ==
  /\ caller[c].at = "expired"
  /\ DeleteExpired(caller[c].key)
  /\ Moves(c, "redis", caller[c].key, 0)
  /\ UNCHANGED <<redis, flight, refresh>>

\* A stale value is served; the reader that sets the mark of an EventCount
\* key starts a refresh. One may still be under way: another value may have
\* cleared its mark since, and this reader read before.
ServeStale(c) ==
  LET k == caller[c].key IN
  /\ caller[c].at = "stale"
  /\ Mark(k)
  /\ IF k \in Refreshing /\ k \notin mark
     THEN \E g \in Refresher :
            /\ refresh[g] = Idle
            /\ refresh' = [refresh EXCEPT ![g] = [at |-> "asking", key |-> k, age |-> 0]]
     ELSE UNCHANGED refresh
  /\ Returns(c)
  /\ UNCHANGED <<redis, flight>>

\* GetJSON finds the value. If the key is missing or Redis fails, sf.Do lets
\* the first caller of a key query and the others wait for it.
ReadRedis(c) ==
  LET k == caller[c].key IN
  /\ caller[c].at = "redis"
  /\ \/ /\ redis[k] # NoEntry
        /\ Moves(c, "fill", k, redis[k].age)
        /\ UNCHANGED flight
     \/ /\ Moves(c, "waiting", k, 0)
        /\ flight' = IF flight[k] = NoQuery THEN [flight EXCEPT ![k] = Asking] ELSE flight
  /\ UNCHANGED <<l1Vars, redis, refresh>>

\* A value from Redis gets a full L1 lifetime, whatever its age, and is served.
Fill(c) ==
  /\ caller[c].at = "fill"
  /\ Set(caller[c].key, caller[c].age)
  /\ Returns(c)
  /\ UNCHANGED <<redis, flight, refresh>>

Released(k) ==
  [c \in Caller |-> IF caller[c].at = "waiting" /\ caller[c].key = k THEN Idle ELSE caller[c]]

\* The error reaches every caller that waits for the key.
FlightFails(k) ==
  /\ flight[k].at = "asking"
  /\ flight' = [flight EXCEPT ![k] = NoQuery]
  /\ caller' = Released(k)
  /\ UNCHANGED <<l1Vars, redis, refresh>>

FlightStoresL1(k) ==
  /\ flight[k].at = "asking"
  /\ Set(k, flight[k].age)
  /\ flight' = [flight EXCEPT ![k].at = "storing"]
  /\ UNCHANGED <<redis, caller, refresh>>

\* Mutant: L2 entries live as long as both tiers together.
StoreRedisLonger(k, age) ==
  redis' \in {redis, [redis EXCEPT ![k] = [left |-> L2TTL + L1TTL, age |-> age]]}

\* SetJSON; its error is dropped.
StoreRedis(k, age) ==
  redis' \in {redis, [redis EXCEPT ![k] = [left |-> L2TTL, age |-> age]]}

FlightStoresRedis(k) ==
  /\ flight[k].at = "storing"
  /\ StoreRedis(k, flight[k].age)
  /\ flight' = [flight EXCEPT ![k] = NoQuery]
  /\ caller' = Released(k)
  /\ UNCHANGED <<l1Vars, refresh>>

\* The refresh failed: the entry, whichever it is by now, is deleted.
RefreshFails(g) ==
  /\ refresh[g].at = "asking"
  /\ Delete(refresh[g].key)
  /\ refresh' = [refresh EXCEPT ![g] = Idle]
  /\ UNCHANGED <<redis, caller, flight>>

RefreshStoresL1(g) ==
  /\ refresh[g].at = "asking"
  /\ Set(refresh[g].key, refresh[g].age)
  /\ refresh' = [refresh EXCEPT ![g].at = "storing"]
  /\ UNCHANGED <<redis, caller, flight>>

RefreshStoresRedis(g) ==
  /\ refresh[g].at = "storing"
  /\ StoreRedis(refresh[g].key, refresh[g].age)
  /\ refresh' = [refresh EXCEPT ![g] = Idle]
  /\ UNCHANGED <<l1Vars, caller, flight>>

\* A query of another pod, which shares Redis.
OtherPod(k) ==
  /\ \E age \in 0..MaxQuery : redis' = [redis EXCEPT ![k] = [left |-> L2TTL, age |-> age]]
  /\ UNCHANGED <<l1Vars, caller, flight, refresh>>

Sweep == Janitor /\ UNCHANGED <<redis, caller, flight, refresh>>

Older(q) == IF q.at = "asking" THEN [q EXCEPT !.age = @ + 1] ELSE q
Unhurried(q) == q.at # "storing" /\ (q.at = "asking" => q.age < MaxQuery)

Aged(e) == IF e.left = 1 THEN Gone ELSE [left |-> e.left - 1, age |-> e.age + 1]

\* Redis drops a key whose time is over; an L1 entry stays until it is found
\* expired. A caller that holds a value moves on before.
Tick ==
  /\ \A c \in Caller : caller[c].at \notin {"stale", "fill"}
  /\ \A k \in Key : Unhurried(flight[k])
  /\ \A g \in Refresher : Unhurried(refresh[g])
  /\ entries' = [k \in Key |-> IF k \in Live THEN Aged(entries[k]) ELSE entries[k]]
  /\ redis' = [k \in Key |->
       IF redis[k] = NoEntry \/ redis[k].left = 1 THEN NoEntry ELSE Aged(redis[k])]
  /\ flight' = [k \in Key |-> Older(flight[k])]
  /\ refresh' = [g \in Refresher |-> Older(refresh[g])]
  /\ UNCHANGED <<order, mark, caller>>

QueryNext ==
  \/ \E c \in Caller :
       \/ \E k \in Key : Lookup(c, k)
       \/ RemoveExpired(c) \/ ServeStale(c) \/ ReadRedis(c) \/ Fill(c)
  \/ \E k \in Key :
       FlightFails(k) \/ FlightStoresL1(k) \/ FlightStoresRedis(k) \/ OtherPod(k)
  \/ \E g \in Refresher : RefreshFails(g) \/ RefreshStoresL1(g) \/ RefreshStoresRedis(g)
  \/ Sweep \/ Tick

QuerySpec == QueryInit /\ [][QueryNext]_queryVars

Places == {"idle", "expired", "stale", "redis", "fill", "waiting"}
QueryPlaces == {"none", "asking", "storing"}
RefreshPlaces == {"idle", "asking", "storing"}

QueryTypeOK ==
  /\ L1TypeOK
  /\ redis \in [Key -> [left : 1..L2TTL, age : Nat] \cup {NoEntry}]
  /\ caller \in [Caller -> [at : Places, key : Key \cup {NoEntry}, age : Nat]]
  /\ flight \in [Key -> [at : QueryPlaces, age : 0..MaxQuery]]
  /\ refresh \in [Refresher -> [at : RefreshPlaces, key : Key \cup {NoEntry}, age : 0..MaxQuery]]

\* No value a caller may be served, from L1, from Redis or out of its hands,
\* is older than the lifetimes of both tiers and the query together: reading
\* a value from one tier into the other (service.go:187-194) may stretch its
\* life once, never for ever.
ReadableIsRecent ==
  /\ \A k \in Live : entries[k].age + entries[k].left <= MaxQuery + L2TTL + L1TTL
  /\ \A k \in Key : redis[k] # NoEntry => redis[k].age + redis[k].left <= MaxQuery + L2TTL
  /\ \A c \in Caller : caller[c].age <= MaxQuery + L2TTL + L1TTL

RefreshOf(g, k) == refresh[g].at # "idle" /\ refresh[g].key = k

\* A marked key of EventCount has a refresh under way, and a stale entry whose
\* key is not marked has none (l1.go:146, service.go:180-182): no reader relies
\* on a refresh that nobody runs, and whoever finds an entry stale and marks
\* it does not add to a refresh that is still running.
MarkedIsRefreshing ==
  /\ \A k \in mark \cap Refreshing : \E g \in Refresher : RefreshOf(g, k) /\ refresh[g].at = "asking"
  /\ \A k \in (Live \cap Refreshing) \ mark :
       Stale(entries[k]) => \A g \in Refresher : ~RefreshOf(g, k)

\* Whenever the janitor runs it brings the cache back to its capacity, however
\* entries were deleted and stored again before: every live entry must be in
\* the order, and dropping the first listing of a key listed twice must free a
\* place (l1.go:203-232).
JanitorBounds == Cardinality(Kept) <= MaxEntries
=============================================================================
