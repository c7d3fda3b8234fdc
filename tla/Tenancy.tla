------------------------------- MODULE Tenancy -------------------------------
(***************************************************************************)
(* What one app's keys open (internal/auth): requests to the gateway's     *)
(* pods have their key validated (ApiKeys) and are metered (RateLimiter);  *)
(* the auth service validates a key the same way and issues a token, the   *)
(* query API asks PostgreSQL; while the key is rotated and the app         *)
(* deactivated. A token that is still valid is exchanged for a new one.    *)
(* Tokens carry their expiry and are recorded nowhere; here they are told  *)
(* apart by the key and the number of exchanges they come from.            *)
(*                                                                         *)
(* Time passes in ticks, which MaxTime stops.                              *)
(***************************************************************************)
EXTENDS RateLimiter, ApiKeys

CONSTANTS
  Caller,     (* requests at a time                                        *)
  MaxDelay,   (* bound: ticks from the clock reading to the script's end   *)
  JWTExpiry,  (* in ticks                                                  *)
  MaxRefresh, (* bound: exchanges in a row                                 *)
  MaxTime     (* bound: ticks after a key was dropped                      *)

ASSUME TenancyAssumption ==
  /\ {MaxDelay, MaxRefresh, MaxTime} \subseteq Nat
  /\ JWTExpiry \in Nat \ {0}

VARIABLES
  caller,  (* per request the place, its key and the ticks it is there     *)
  tokens   (* per key and exchanges since, the ticks the latest token that *)
           (* was got with it has left                                     *)

tenancyVars == <<limiterVars, keysVars, tokens, caller>>

Refreshes == 0..MaxRefresh

Idle == [at |-> "idle", key |-> NoKey, for |-> 0]

\* The app was registered, with a token, or created by the query API.
TenancyInit ==
  /\ LimiterInit /\ KeysInit
  /\ caller = [c \in Caller |-> Idle]
  /\ \E left \in {0, JWTExpiry} :
       tokens = [k \in Key |-> [n \in Refreshes |-> IF k = FirstKey /\ n = 0 THEN left ELSE 0]]

Goes(c, place, k) == caller' = [caller EXCEPT ![c] = [at |-> place, key |-> k, for |-> 0]]
Ends(c) == caller' = [caller EXCEPT ![c] = Idle]

\* GenerateToken.
Issue(k, n) == tokens' = [tokens EXCEPT ![k][n] = JWTExpiry]

\* Mutant: a hit gives the entry its full lifetime again.
CacheHitRenews(c, k) ==
  /\ caller[c].at = "idle" /\ cached[k] > 0
  /\ cached' = [cached EXCEPT ![k] = CacheTTL]
  /\ Goes(c, "valid", k)
  /\ UNCHANGED <<limiterVars, versions, seen, gone, tokens>>

\* The key is in the cache: the pod reads its clock and asks the limiter.
CacheHit(c, k) ==
  /\ caller[c].at = "idle" /\ cached[k] > 0
  /\ Goes(c, "valid", k)
  /\ UNCHANGED <<limiterVars, keysVars, tokens>>

\* It is not, or Redis fails.
CacheMiss(c, k) ==
  /\ caller[c].at = "idle"
  /\ Goes(c, "fetching", k)
  /\ UNCHANGED <<limiterVars, keysVars, tokens>>

\* A row without the key, or an error, is answered with 401.
Fetch(c) ==
  /\ caller[c].at = "fetching"
  /\ \/ (\E r \in Replica : Finds(r, caller[c].key)) /\ Goes(c, "caching", caller[c].key)
     \/ Ends(c)
  /\ UNCHANGED <<limiterVars, keysVars, tokens>>

StoreKey(c) ==
  /\ caller[c].at = "caching"
  /\ Cache(caller[c].key)
  /\ Goes(c, "valid", caller[c].key)
  /\ UNCHANGED <<limiterVars, versions, seen, gone, tokens>>

\* The request passes or gets 429.
Meter(c) ==
  /\ caller[c].at = "valid"
  /\ Take(caller[c].for) \/ FailOpen(caller[c].for)
  /\ Ends(c)
  /\ UNCHANGED <<keysVars, tokens>>

\* token of the auth service.
IssueToken(c) ==
  /\ caller[c].at = "valid"
  /\ Issue(caller[c].key, 0)
  /\ Ends(c)
  /\ UNCHANGED <<limiterVars, keysVars>>

\* authLogin of the query API asks PostgreSQL, not the cache.
Login(k) ==
  /\ \E r \in Replica : Finds(r, k)
  /\ Issue(k, 0)
  /\ UNCHANGED <<limiterVars, keysVars, caller>>

\* Mutant: the token's expiry is not looked at.
RefreshExpired(k, n) ==
  /\ n < MaxRefresh
  /\ Issue(k, n + 1)
  /\ UNCHANGED <<limiterVars, keysVars, caller>>

\* A valid token is exchanged for a new one; nobody looks at the app.
Refresh(k, n) ==
  /\ tokens[k][n] > 0 /\ n < MaxRefresh
  /\ Issue(k, n + 1)
  /\ UNCHANGED <<limiterVars, keysVars, caller>>

RowChanges ==
  /\ DeactivateApp \/ (\E k \in Key : RotateAPIKey(k)) \/ (\E r \in Replica : Replicate(r))
  /\ UNCHANGED <<limiterVars, tokens, caller>>

Unhurried(c) ==
  /\ caller[c].at = "caching" => caller[c].for < MaxSet
  /\ caller[c].at = "valid" => caller[c].for < MaxDelay

Timed == {"caching", "valid"}

Tick ==
  /\ \A k \in Key : gone[k] < MaxTime
  /\ \A c \in Caller : Unhurried(c)
  /\ LimiterTick /\ KeysTick
  /\ tokens' = [k \in Key |-> [n \in Refreshes |-> Less(tokens[k][n], 1)]]
  /\ caller' = [c \in Caller |->
       IF caller[c].at \in Timed THEN [caller[c] EXCEPT !.for = @ + 1] ELSE caller[c]]

TenancyNext ==
  \/ \E c \in Caller :
       \/ \E k \in Key : CacheHit(c, k) \/ CacheMiss(c, k)
       \/ Fetch(c) \/ StoreKey(c) \/ Meter(c) \/ IssueToken(c)
  \/ \E k \in Key : Login(k) \/ \E n \in Refreshes : Refresh(k, n)
  \/ RowChanges \/ Tick

TenancySpec == TenancyInit /\ [][TenancyNext]_tenancyVars

TenancyTypeOK ==
  /\ LimiterTypeOK /\ KeysTypeOK
  /\ caller \in [Caller -> [at : {"idle", "fetching", "caching", "valid"},
                            key : Key \cup {NoKey}, for : Nat]]
  /\ tokens \in [Key -> [Refreshes -> 0..JWTExpiry]]

\* Ticks a key is honoured at most after the primary dropped it, but for the
\* request under way.
Honoured == MaxLag + MaxSet + CacheTTL

\* A key the primary dropped stops being honoured after the lag of the
\* replicas, a lookup under way and the lifetime of a cache entry: lookups
\* that read a replica behind, or that were under way at the rotation, cache
\* the dropped key anew, but never from the cache itself (auth.go:50-76).
RevokedKeyExpires ==
  /\ \A k \in Key : cached[k] > 0 => gone[k] + cached[k] <= Honoured
  /\ \A c \in Caller : caller[c].at = "valid" =>
       gone[caller[c].key] <= Honoured + caller[c].for

\* A token got with a key is valid for one lifetime longer than the key is
\* honoured, whichever of the three services issued it, and each exchange adds
\* one lifetime and no more, to a chain that must not break (main.go:191-249,
\* mgmt_handlers.go:86-113): so do the tokens of a rotated key and of a
\* deactivated app end, unless they are exchanged again and again.
TokensEnd ==
  \A k \in Key, n \in Refreshes :
    tokens[k][n] > 0 =>
      gone[k] + tokens[k][n] <= Honoured + MaxDelay + (n + 1) * JWTExpiry
=============================================================================
