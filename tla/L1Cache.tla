------------------------------- MODULE L1Cache -------------------------------
(***************************************************************************)
(* internal/cache/l1.go: the in-process cache with stale-while-revalidate. *)
(* An entry is fresh, then stale but usable, then expired; of the readers  *)
(* of a stale entry, the one that sets the key's mark is told to refresh   *)
(* it. The janitor removes what has expired and, over capacity, the keys   *)
(* at the front of the insertion order.                                    *)
(*                                                                         *)
(* Time passes in ticks (Tick, in QueryCache). An entry counts down the    *)
(* ticks to its expiry and carries the age of its value, counted from the  *)
(* start of the query that computed it.                                    *)
(***************************************************************************)
EXTENDS Integers, FiniteSets, Sequences

CONSTANTS
  Key,        (* cache keys                                                *)
  NoEntry,
  L1TTL,      (* cacheL1TTL, in ticks                                      *)
  L1Stale,    (* cacheL1Stale                                              *)
  MaxEntries, (* l1MaxEntries                                              *)
  MaxOrder    (* bound: length of c.order, until the janitor runs          *)

ASSUME L1Assumption ==
  /\ IsFiniteSet(Key)
  /\ {L1TTL, L1Stale, MaxEntries, MaxOrder} \subseteq Nat
  /\ 0 < L1Stale /\ L1Stale < L1TTL

VARIABLES
  entries,  (* c.entries: per key the ticks left and the value's age       *)
  order,    (* c.order                                                     *)
  mark      (* c.revalidating                                              *)

l1Vars == <<entries, order, mark>>

Stored == {k \in Key : entries[k] # NoEntry}

L1Init == entries = [k \in Key |-> NoEntry] /\ order = <<>> /\ mark = {}

\* Stamps have nanoseconds: an entry is past a deadline from its tick on.
Gone == [left |-> 0, age |-> 0]
Expired(e) == e.left = 0
Stale(e) == 0 < e.left /\ e.left <= L1TTL - L1Stale

\* Mutant: the entry is stored before its existence is asked, so no key ever
\* enters the order.
SetUnlisted(k, age) ==
  /\ entries' = [entries EXCEPT ![k] = [left |-> L1TTL, age |-> age]]
  /\ mark' = mark \ {k}
  /\ UNCHANGED order

\* Set clears the mark after the unlock; what readers do in between they
\* could as well have done before.
Set(k, age) ==
  /\ entries[k] = NoEntry => Len(order) < MaxOrder
  /\ order' = IF entries[k] = NoEntry THEN Append(order, k) ELSE order
  /\ entries' = [entries EXCEPT ![k] = [left |-> L1TTL, age |-> age]]
  /\ mark' = mark \ {k}

\* Mutant: the entry is dropped but its mark stays.
DropEntry(k) ==
  /\ entries' = [entries EXCEPT ![k] = NoEntry]
  /\ UNCHANGED <<order, mark>>

Delete(k) ==
  /\ entries' = [entries EXCEPT ![k] = NoEntry]
  /\ mark' = mark \ {k}
  /\ UNCHANGED order

\* Get's second lock: what is there by now is deleted, fresh or not. The key
\* keeps its place in the order, and Set appends it once more.
DeleteExpired(k) ==
  /\ entries' = [entries EXCEPT ![k] = NoEntry]
  /\ UNCHANGED <<order, mark>>

\* Mutant: a stale hit renews the entry.
MarkAndRenew(k) ==
  /\ mark' = mark \cup {k}
  /\ entries' = IF k \in Stored THEN [entries EXCEPT ![k].left = L1TTL] ELSE entries
  /\ UNCHANGED order

\* LoadOrStore of Get.
Mark(k) == mark' = mark \cup {k} /\ UNCHANGED <<entries, order>>

\* The number of keys to drop from the front until the live entries fit.
Evicted(live) ==
  LET Fits(n) == Cardinality(live \ {order[i] : i \in 1..n}) <= MaxEntries
  IN  IF \E n \in 0..Len(order) : Fits(n)
      THEN CHOOSE n \in 0..Len(order) : Fits(n) /\ \A m \in 0..(n - 1) : ~Fits(m)
      ELSE Len(order)

Live == {k \in Stored : ~Expired(entries[k])}
Kept == Live \ {order[i] : i \in 1..Evicted(Live)}

\* The loop that rebuilds the order: what it keeps of s so far, key by key.
Filtered(s, S) ==
  LET kept[i \in 0..Len(s)] ==
        IF i = 0 THEN <<>>
        ELSE IF s[i] \in S THEN Append(kept[i - 1], s[i]) ELSE kept[i - 1]
  IN  kept[Len(s)]

\* evictExpired, under the lock.
Janitor ==
  LET kept == Kept IN
  /\ entries' = [k \in Key |-> IF k \in kept THEN entries[k] ELSE NoEntry]
  /\ order' = Filtered(SubSeq(order, Evicted(Live) + 1, Len(order)), kept)
  /\ UNCHANGED mark

L1TypeOK ==
  /\ entries \in [Key -> [left : 0..L1TTL, age : Nat] \cup {NoEntry}]
  /\ order \in Seq(Key)
  /\ mark \subseteq Key
=============================================================================
