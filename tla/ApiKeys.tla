------------------------------- MODULE ApiKeys -------------------------------
(***************************************************************************)
(* API keys of one app: the row in PostgreSQL that rotation and            *)
(* deactivation change (cmd/authservice, cmd/queryapi), its replicas, from *)
(* which keys are looked up in turn, and the cache in Redis                *)
(* (internal/auth, internal/postgres).                                     *)
(*                                                                         *)
(* Only active rows are fetched, so a cached app is always active and the  *)
(* check of app.Active after a cache hit never fails. Nothing removes a    *)
(* cached key but its time. Without replicas the primary answers: a        *)
(* replica with no lag.                                                    *)
(***************************************************************************)
EXTENDS Integers, Sequences, FiniteSets

CONSTANTS
  Key,       (* API keys                                                   *)
  NoKey,     (* the app is inactive                                        *)
  FirstKey,  (* the key the app was created with                           *)
  Replica,   (* read pools                                                 *)
  MaxLag,    (* bound: ticks a replica is behind                           *)
  MaxSet,    (* bound: ticks from a lookup's row to the end of its SetJSON *)
  CacheTTL   (* APIKeyCacheTTL, in ticks                                   *)

ASSUME KeysAssumption ==
  /\ NoKey \notin Key /\ FirstKey \in Key
  /\ {MaxLag, MaxSet} \subseteq Nat /\ CacheTTL \in Nat \ {0}

VARIABLES
  versions,  (* the key of each version of the row                         *)
  seen,      (* the version each replica has                               *)
  gone,      (* history: per key the ticks since the primary dropped it    *)
  cached     (* per key the ticks its cache entry has left, or 0           *)

keysVars == <<versions, seen, gone, cached>>

\* CreateApp and CreateOrgAndApp; the replicas have it.
KeysInit ==
  /\ versions = <<FirstKey>>
  /\ seen = [r \in Replica |-> 1]
  /\ gone = [k \in Key |-> 0]
  /\ cached = [k \in Key |-> 0]

Current == versions[Len(versions)]
Dropped(k) == \E i \in 1..(Len(versions) - 1) : versions[i] = k
Used(k) == \E i \in DOMAIN versions : versions[i] = k

\* A random key. On an inactive app it stays without effect.
RotateAPIKey(k) ==
  /\ Current # NoKey /\ ~Used(k)
  /\ versions' = Append(versions, k)
  /\ UNCHANGED <<seen, gone, cached>>

DeactivateApp ==
  /\ Current # NoKey
  /\ versions' = Append(versions, NoKey)
  /\ UNCHANGED <<seen, gone, cached>>

Replicate(r) ==
  /\ seen[r] < Len(versions)
  /\ seen' = [seen EXCEPT ![r] = @ + 1]
  /\ UNCHANGED <<versions, gone, cached>>

\* GetAppByAPIKey reads whichever replica is next.
Finds(r, k) == versions[seen[r]] = k

\* SetJSON, whose error is only logged.
Cache(k) == cached' \in {cached, [cached EXCEPT ![k] = CacheTTL]}

\* The version a replica has is out of date for as long as its key is dropped.
InTime(r) == seen[r] < Len(versions) => gone[versions[seen[r]]] < MaxLag

KeysTick ==
  /\ \A r \in Replica : InTime(r)
  /\ gone' = [k \in Key |-> IF Dropped(k) THEN gone[k] + 1 ELSE 0]
  /\ cached' = [k \in Key |-> IF cached[k] = 0 THEN 0 ELSE cached[k] - 1]
  /\ UNCHANGED <<versions, seen>>

KeysTypeOK ==
  /\ versions \in Seq(Key \cup {NoKey}) /\ versions # <<>>
  /\ seen \in [Replica -> 1..Len(versions)]
  /\ gone \in [Key -> Nat]
  /\ cached \in [Key -> 0..CacheTTL]
=============================================================================
