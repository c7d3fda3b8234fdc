---------------------------- MODULE TenancyProofs ----------------------------
(***************************************************************************)
(* Proofs about Tenancy: how long a dropped key and its tokens live, and   *)
(* what the token bucket lets pass, for any number of requests, replicas   *)
(* and keys, any rates, lifetimes and bounds. The first part is about the  *)
(* rows and replicas alone, the second about the bucket; both are put      *)
(* together at the end.                                                    *)
(***************************************************************************)
EXTENDS Tenancy, SequenceTheorems, TLAPS

(***************************************************************************)
(* Keys.                                                                   *)
(***************************************************************************)

(* The versions of the row: every one but the latest is a key, none comes  *)
(* twice, and the earlier a key was dropped the longer it has been gone.   *)
History ==
  /\ \A i \in 1..(Len(versions) - 1) : versions[i] \in Key
  /\ \A i, j \in 1..Len(versions) : versions[i] = versions[j] => i = j
  /\ \A k \in Key : gone[k] > 0 => Dropped(k)
  /\ \A i, j \in 1..(Len(versions) - 1) : i < j => gone[versions[j]] <= gone[versions[i]]

(* A replica shows no key that was dropped more than MaxLag ticks ago.     *)
LagBounded ==
  \A r \in Replica : seen[r] < Len(versions) => gone[versions[seen[r]]] <= MaxLag

KeysInv == KeysTypeOK /\ History /\ LagBounded

(* The app is created with one key, and the replicas have it.              *)
LEMMA KeysInitially == KeysAssumption /\ KeysInit => KeysInv
  <1> SUFFICES ASSUME KeysAssumption, KeysInit PROVE KeysInv
    OBVIOUS
  <1>1. versions \in Seq(Key \cup {NoKey}) /\ Len(versions) = 1 /\ versions[1] = FirstKey
    BY DEF KeysInit, KeysAssumption
  <1>2. KeysTypeOK
    BY <1>1 DEF KeysInit, KeysAssumption, KeysTypeOK
  <1>3. History /\ LagBounded
    BY <1>1 DEF KeysInit, History, LagBounded
  <1>4. QED
    BY <1>2, <1>3 DEF KeysInv

(* No version but the latest has its key.                                  *)
LEMMA CurrentNotDropped ==
  ASSUME KeysInv, NEW k \in Key, versions[Len(versions)] = k
  PROVE  ~Dropped(k)
  <1>1. Len(versions) \in Nat \ {0}
    BY DEF KeysInv, KeysTypeOK
  <1>2. \A i, j \in 1..Len(versions) : versions[i] = versions[j] => i = j
    BY DEF KeysInv, History
  <1>3. QED
    BY <1>1, <1>2 DEF Dropped

(* A new version v, which no earlier one equals, drops the current key.    *)
LEMMA AppendKeepsKeys ==
  ASSUME KeysAssumption, KeysInv, Current # NoKey,
         NEW v \in Key \cup {NoKey}, \A i \in DOMAIN versions : versions[i] # v,
         versions' = Append(versions, v), UNCHANGED <<seen, gone, cached>>
  PROVE  KeysInv'
  <1> DEFINE n == Len(versions)
  <1>1. /\ versions \in Seq(Key \cup {NoKey}) /\ n \in Nat \ {0}
        /\ seen \in [Replica -> 1..n] /\ gone \in [Key -> Nat] /\ cached \in [Key -> 0..CacheTTL]
    BY DEF KeysInv, KeysTypeOK
  <1>2. /\ versions' \in Seq(Key \cup {NoKey}) /\ Len(versions') = n + 1 /\ versions' # <<>>
        /\ \A i \in 1..n : versions'[i] = versions[i]
        /\ versions'[n + 1] = v
    BY <1>1, AppendProperties
  <1>3. Current \in Key /\ Current = versions[n] /\ \A i \in 1..n : versions[i] \in Key
    BY <1>1 DEF Current, KeysInv, History
  <1>4. KeysTypeOK'
    <2>1. seen \in [Replica -> 1..(n + 1)]
      BY <1>1
    <2>2. QED
      BY <1>1, <1>2, <2>1 DEF KeysTypeOK
  <1>5. \A k \in Key : Dropped(k) => Dropped(k)'
    BY <1>1, <1>2 DEF Dropped
  <1>6. gone[Current] = 0
    <2>1. ~Dropped(Current)
      BY <1>1, <1>3, CurrentNotDropped
    <2>2. gone[Current] > 0 => Dropped(Current)
      BY <1>3 DEF KeysInv, History
    <2>3. QED
      BY <1>1, <1>3, <2>1, <2>2
  <1>7. History'
    <2>1. \A i \in 1..n : versions'[i] \in Key
      BY <1>2, <1>3
    <2>2. \A i, j \in 1..(n + 1) : versions'[i] = versions'[j] => i = j
      <3>1. DOMAIN versions = 1..n
        BY <1>1
      <3> SUFFICES ASSUME NEW i \in 1..(n + 1), NEW j \in 1..(n + 1), versions'[i] = versions'[j]
                   PROVE  i = j
        OBVIOUS
      <3>2. \A a, b \in 1..n : versions[a] = versions[b] => a = b
        BY DEF KeysInv, History
      <3>3. i \in 1..n \/ i = n + 1
        BY <1>1
      <3>4. j \in 1..n \/ j = n + 1
        BY <1>1
      <3>5. QED
        BY <1>2, <3>1, <3>2, <3>3, <3>4
    <2>3. \A k \in Key : gone[k] > 0 => Dropped(k)'
      BY <1>5 DEF KeysInv, History
    <2>4. ASSUME NEW i \in 1..n, NEW j \in 1..n, i < j
          PROVE  gone[versions'[j]] <= gone[versions'[i]]
      <3>1. CASE j = n
        BY <1>1, <1>2, <1>3, <1>6, <2>4, <3>1
      <3>2. CASE j # n
        <4>1. i \in 1..(n - 1) /\ j \in 1..(n - 1)
          BY <1>1, <2>4, <3>2
        <4>2. QED
          BY <1>2, <2>4, <4>1 DEF KeysInv, History
      <3>3. QED
        BY <3>1, <3>2
    <2>5. QED
      BY <1>1, <1>2, <2>1, <2>2, <2>3, <2>4 DEF History
  <1>8. LagBounded'
    <2> SUFFICES ASSUME NEW r \in Replica PROVE gone[versions'[seen[r]]] <= MaxLag
      BY DEF LagBounded
    <2>1. seen[r] \in 1..n /\ versions'[seen[r]] = versions[seen[r]]
      BY <1>1, <1>2
    <2>2. CASE seen[r] = n
      BY <1>3, <1>6, <2>1, <2>2 DEF KeysAssumption
    <2>3. CASE seen[r] < n
      BY <2>1, <2>3 DEF KeysInv, LagBounded
    <2>4. QED
      BY <1>1, <2>1, <2>2, <2>3
  <1>9. QED
    BY <1>4, <1>7, <1>8 DEF KeysInv

(* A replica that takes over the next version shows a key that is gone for *)
(* no longer than the one it showed before.                                *)
LEMMA ReplicateKeepsKeys ==
  ASSUME KeysAssumption, KeysInv, NEW q \in Replica, Replicate(q)
  PROVE  KeysInv'
  <1> DEFINE n == Len(versions)
  <1>1. /\ versions \in Seq(Key \cup {NoKey}) /\ n \in Nat \ {0}
        /\ seen \in [Replica -> 1..n] /\ gone \in [Key -> Nat]
    BY DEF KeysInv, KeysTypeOK
  <1>2. /\ seen[q] < n /\ seen' = [seen EXCEPT ![q] = @ + 1]
        /\ UNCHANGED <<versions, gone, cached>>
    BY DEF Replicate
  <1>3. KeysTypeOK'
    BY <1>1, <1>2 DEF KeysInv, KeysTypeOK
  <1>4. History'
    BY <1>2 DEF KeysInv, History, Dropped
  <1>5. LagBounded'
    <2> SUFFICES ASSUME NEW r \in Replica, seen'[r] < n PROVE gone[versions[seen'[r]]] <= MaxLag
      BY <1>2 DEF LagBounded
    <2>1. CASE r # q
      BY <1>1, <1>2, <2>1 DEF KeysInv, LagBounded
    <2>2. CASE r = q
      <3>1. seen'[q] = seen[q] + 1 /\ seen[q] \in 1..(n - 1) /\ seen[q] + 1 \in 1..(n - 1)
        BY <1>1, <1>2, <2>2
      <3>2. gone[versions[seen[q] + 1]] <= gone[versions[seen[q]]]
        BY <3>1 DEF KeysInv, History
      <3>3. gone[versions[seen[q]]] <= MaxLag
        BY <1>2 DEF KeysInv, LagBounded
      <3>4. versions[seen[q]] \in Key /\ versions[seen[q] + 1] \in Key
        BY <3>1 DEF KeysInv, History
      <3>5. gone[versions[seen[q]]] \in Nat /\ gone[versions[seen[q] + 1]] \in Nat /\ MaxLag \in Nat
        BY <1>1, <3>4 DEF KeysAssumption
      <3>6. QED
        BY <2>2, <3>1, <3>2, <3>3, <3>5
    <2>3. QED
      BY <2>1, <2>2
  <1>6. QED
    BY <1>3, <1>4, <1>5 DEF KeysInv

(* A tick ages the dropped keys alike, and waits for replicas too far back. *)
LEMMA TickKeepsKeys ==
  ASSUME KeysAssumption, KeysInv, KeysTick
  PROVE  KeysInv'
  <1> DEFINE n == Len(versions)
  <1>1. /\ versions \in Seq(Key \cup {NoKey}) /\ n \in Nat \ {0}
        /\ seen \in [Replica -> 1..n] /\ gone \in [Key -> Nat] /\ cached \in [Key -> 0..CacheTTL]
        /\ MaxLag \in Nat
    BY DEF KeysInv, KeysTypeOK, KeysAssumption
  <1>2. /\ \A k \in Key : gone'[k] = IF Dropped(k) THEN gone[k] + 1 ELSE 0
        /\ gone' \in [Key -> Nat]
        /\ UNCHANGED <<versions, seen>>
    BY <1>1 DEF KeysTick
  <1>3. KeysTypeOK'
    BY <1>1, <1>2 DEF KeysTick, KeysTypeOK, KeysInv
  <1>4. \A k \in Key : Dropped(k)' = Dropped(k)
    BY <1>2 DEF Dropped
  <1>5. \A i \in 1..(n - 1) : versions[i] \in Key /\ Dropped(versions[i])
    BY <1>1 DEF Dropped, KeysInv, History
  <1>6. History'
    <2>1. \A k \in Key : gone'[k] > 0 => Dropped(k)'
      BY <1>2, <1>4
    <2>2. ASSUME NEW i \in 1..(n - 1), NEW j \in 1..(n - 1), i < j
          PROVE  gone'[versions[j]] <= gone'[versions[i]]
      <3>1. gone[versions[j]] <= gone[versions[i]]
        BY <2>2 DEF KeysInv, History
      <3>2. /\ gone'[versions[j]] = gone[versions[j]] + 1 /\ gone'[versions[i]] = gone[versions[i]] + 1
            /\ gone[versions[j]] \in Nat /\ gone[versions[i]] \in Nat
        BY <1>1, <1>2, <1>5
      <3>3. QED
        BY <3>1, <3>2
    <2>3. QED
      BY <1>2, <2>1, <2>2 DEF KeysInv, History
  <1>7. LagBounded'
    <2> SUFFICES ASSUME NEW r \in Replica, seen[r] < n PROVE gone'[versions[seen[r]]] <= MaxLag
      BY <1>2 DEF LagBounded
    <2>1. seen[r] \in 1..(n - 1)
      BY <1>1
    <2>2. gone[versions[seen[r]]] < MaxLag
      BY DEF KeysTick, InTime
    <2>3. gone'[versions[seen[r]]] = gone[versions[seen[r]]] + 1 /\ gone[versions[seen[r]]] \in Nat
      BY <1>1, <1>2, <1>5, <2>1
    <2>4. QED
      BY <1>1, <2>2, <2>3
  <1>8. QED
    BY <1>3, <1>6, <1>7 DEF KeysInv

(* What a lookup finds was dropped at most MaxLag ticks ago.               *)
LEMMA FindsRecent ==
  ASSUME KeysAssumption, KeysInv, NEW r \in Replica, NEW k \in Key, Finds(r, k)
  PROVE  Used(k) /\ gone[k] <= MaxLag
  <1> DEFINE n == Len(versions)
  <1>1. /\ versions \in Seq(Key \cup {NoKey}) /\ n \in Nat \ {0} /\ DOMAIN versions = 1..n
        /\ seen[r] \in 1..n /\ gone[k] \in Nat /\ MaxLag \in Nat
    BY DEF KeysInv, KeysTypeOK, KeysAssumption
  <1>2. Used(k)
    BY <1>1 DEF Finds, Used
  <1>3. CASE seen[r] < n
    BY <1>2, <1>3 DEF Finds, KeysInv, LagBounded
  <1>4. CASE seen[r] = n
    <2>1. ~Dropped(k)
      BY <1>1, <1>4, CurrentNotDropped DEF Finds
    <2>2. gone[k] > 0 => Dropped(k)
      BY DEF KeysInv, History
    <2>3. QED
      BY <1>1, <1>2, <2>1, <2>2
  <1>5. QED
    BY <1>1, <1>2, <1>3, <1>4

(***************************************************************************)
(* The bucket.                                                             *)
(***************************************************************************)

(* A product of naturals, and the quotient that the script rounds down.    *)
LEMMA Product == ASSUME NEW a \in Nat, NEW b \in Nat PROVE a * b \in Nat
  BY SMT

LEMMA Quotient ==
  ASSUME NEW a \in Nat, NEW b \in Nat \ {0}
  PROVE  a \div b \in Nat /\ (a \div b) * b <= a /\ a < (a \div b) * b + b
  <1>1. (a \div b) \in Int /\ (a \div b) * b <= a /\ a < (a \div b) * b + b
    BY SMT
  <1>2. QED
    BY <1>1, SMT

(* The keys outlive the time it takes to fill the bucket.                  *)
LEMMA TtlCovers == LimiterAssumption => Ttl \in Nat \ {0} /\ Burst <= Ttl * Rate
  <1> SUFFICES ASSUME LimiterAssumption PROVE Ttl \in Nat \ {0} /\ Burst <= Ttl * Rate
    OBVIOUS
  <1>1. Burst \in Nat \ {0} /\ Rate \in Nat \ {0} /\ Rate <= 2 * Burst /\ 2 * Burst \in Nat
    BY DEF LimiterAssumption
  <1>2. Ttl \in Nat /\ Ttl * Rate <= 2 * Burst /\ 2 * Burst < Ttl * Rate + Rate
    BY <1>1, Quotient DEF Ttl
  <1>3. Ttl # 0
    BY <1>1, <1>2, SMT
  <1>4. CASE Rate <= Burst
    BY <1>1, <1>2, <1>3, <1>4, SMT
  <1>5. CASE Burst < Rate
    <2>1. Rate <= Ttl * Rate
      BY <1>1, <1>2, <1>3, SMT
    <2>2. Ttl * Rate \in Nat
      BY <1>1, <1>2, Product
    <2>3. QED
      BY <1>1, <1>2, <1>3, <1>5, <2>1, <2>2
  <1>6. QED
    BY <1>1, <1>4, <1>5

(* The bucket never holds more than the burst.                             *)
LEMMA FilledType ==
  ASSUME LimiterAssumption, LimiterTypeOK, NEW late \in Nat
  PROVE  Filled(late) \in 0..Burst /\ Kept(late) \in [tokens : 0..Burst, age : Nat, left : 0..Ttl]
  <1>1. /\ Burst \in Nat \ {0} /\ Rate \in Nat \ {0}
        /\ bucket \in [tokens : 0..Burst, age : Nat, left : 0..Ttl] /\ Ttl \in Nat
    BY TtlCovers DEF LimiterAssumption, LimiterTypeOK
  <1>2. Less(bucket.age, late) \in Nat
    BY <1>1 DEF Less
  <1>3. Less(bucket.age, late) * Rate \in Nat
    BY <1>1, <1>2, Product
  <1>4. Filled(late) \in 0..Burst
    BY <1>1, <1>3 DEF Filled, Least
  <1>5. QED
    BY <1>1, <1>4 DEF Kept, Allows

LEMMA LimiterKeepsType ==
  ASSUME LimiterAssumption, LimiterTypeOK, NEW late \in Nat,
         Take(late) \/ FailOpen(late) \/ LimiterTick
  PROVE  LimiterTypeOK'
  <1>1. /\ Burst \in Nat \ {0} /\ Rate \in Nat \ {0} /\ meter \in Nat
        /\ bucket \in [tokens : 0..Burst, age : Nat, left : 0..Ttl] /\ Ttl \in Nat
    BY TtlCovers DEF LimiterAssumption, LimiterTypeOK
  <1>2. CASE Take(late)
    BY <1>1, <1>2, FilledType DEF Take, LimiterTypeOK, Ttl
  <1>3. CASE FailOpen(late)
    BY <1>1, <1>3, FilledType DEF FailOpen, LimiterTypeOK, Ttl
  <1>4. CASE LimiterTick
    <2>1. bucket' \in [tokens : 0..Burst, age : Nat, left : 0..Ttl]
      <3>1. CASE bucket.left <= 1
        <4>1. bucket' = Missing
          BY <1>4, <3>1 DEF LimiterTick
        <4>2. QED
          BY <1>1, <4>1 DEF Missing
      <3>2. CASE ~(bucket.left <= 1)
        <4>1. bucket' = [bucket EXCEPT !.age = @ + 1, !.left = @ - 1]
          BY <1>4, <3>2 DEF LimiterTick
        <4>2. bucket.left - 1 \in 0..Ttl /\ bucket.age + 1 \in Nat
          BY <1>1, <3>2
        <4>3. QED
          BY <1>1, <4>1, <4>2
      <3>3. QED
        BY <3>1, <3>2
    <2>2. meter' \in Nat
      BY <1>1, <1>4 DEF LimiterTick, Less
    <2>3. QED
      BY <2>1, <2>2 DEF LimiterTypeOK, Ttl
  <1>5. QED
    BY <1>2, <1>3, <1>4

(* While readings are never late, what passed and what could pass now make *)
(* no more than the burst; and the keys live until the meter has drained,  *)
(* so that the full bucket that follows them is due.                       *)
MeterInv == meter + Filled(0) <= Burst /\ meter <= bucket.left * Rate

LEMMA MeterInitially == LimiterAssumption /\ LimiterInit => MeterInv /\ LimiterTypeOK
  <1> SUFFICES ASSUME LimiterAssumption, LimiterInit PROVE MeterInv /\ LimiterTypeOK
    OBVIOUS
  <1>1. Burst \in Nat \ {0} /\ Rate \in Nat \ {0} /\ Ttl \in Nat
    BY TtlCovers DEF LimiterAssumption
  <1>2. QED
    BY <1>1 DEF LimiterInit, MeterInv, LimiterTypeOK, Missing, Filled, Least, Less

LEMMA TakeKeepsMeter ==
  ASSUME LimiterAssumption, LimiterTypeOK, MeterInv, Take(0) \/ FailOpen(0)
  PROVE  MeterInv'
  <1>1. /\ Burst \in Nat \ {0} /\ Rate \in Nat \ {0} /\ meter \in Nat
        /\ Ttl \in Nat \ {0} /\ Burst <= Ttl * Rate /\ Filled(0) \in 0..Burst
        /\ Ttl * Rate \in Nat
    BY TtlCovers, FilledType, Product DEF LimiterAssumption, LimiterTypeOK
  <1>2. CASE bucket' = bucket /\ meter' = meter
    BY <1>2 DEF MeterInv, Filled, Least, Less
  <1>3. CASE bucket' = Kept(0) /\ meter' \in {meter, IF Allows(0) THEN meter + 1 ELSE meter}
    <2>1. /\ bucket'.tokens = IF Allows(0) THEN Filled(0) - 1 ELSE Filled(0)
          /\ bucket'.age = 0 /\ bucket'.left = Ttl
      BY <1>3 DEF Kept
    <2>2. Filled(0)' = bucket'.tokens
      BY <1>1, <2>1 DEF Filled, Least, Less, Allows
    <2>3. meter' + Filled(0)' <= Burst
      BY <1>1, <1>3, <2>1, <2>2 DEF MeterInv, Allows
    <2>4. meter' <= Burst
      BY <1>1, <1>3, <2>1, <2>2, <2>3 DEF MeterInv, Allows
    <2>5. meter' <= bucket'.left * Rate
      <3>1. meter' \in Nat
        BY <1>1, <1>3
      <3>2. QED
        BY <1>1, <2>1, <2>4, <3>1
    <2>6. QED
      BY <2>3, <2>5 DEF MeterInv
  <1>4. QED
    BY <1>2, <1>3 DEF Take, FailOpen

LEMMA TickKeepsMeter ==
  ASSUME LimiterAssumption, LimiterTypeOK, MeterInv, LimiterTick
  PROVE  MeterInv'
  <1> DEFINE filled == Filled(0)
             left == bucket.left
             age == bucket.age
             inside == bucket.tokens
  <1>1. /\ Burst \in Nat \ {0} /\ Rate \in Nat \ {0} /\ meter \in Nat
        /\ inside \in 0..Burst /\ age \in Nat /\ left \in Nat
        /\ filled \in 0..Burst /\ meter' = Less(meter, Rate) /\ age * Rate \in Nat
    <2>1. bucket \in [tokens : 0..Burst, age : Nat, left : 0..Ttl] /\ meter \in Nat
      BY DEF LimiterTypeOK
    <2>2. Rate \in Nat \ {0} /\ Burst \in Nat \ {0} /\ Ttl \in Nat
      BY TtlCovers DEF LimiterAssumption
    <2>3. QED
      BY <2>1, <2>2, FilledType, Product DEF LimiterTick
  <1>2. filled = Least(Burst, inside + age * Rate)
    BY <1>1 DEF Filled, Less
  <1>3. CASE left <= 1
    <2>1. left = 0 \/ left = 1
      BY <1>1, <1>3
    <2>2. meter <= Rate
      BY <1>1, <2>1 DEF MeterInv
    <2>3. bucket' = Missing /\ meter' = 0
      BY <1>1, <1>3, <2>2 DEF LimiterTick, Less
    <2>4. Filled(0)' = Burst
      BY <1>1, <2>3 DEF Filled, Missing, Least, Less
    <2>5. bucket'.left = 0
      BY <2>3 DEF Missing
    <2>6. QED
      BY <1>1, <2>3, <2>4, <2>5 DEF MeterInv
  <1>4. CASE left > 1
    <2>1. bucket'.tokens = inside /\ bucket'.age = age + 1 /\ bucket'.left = left - 1
      <3>1. bucket \in [tokens : 0..Burst, age : Nat, left : 0..Ttl]
        BY DEF LimiterTypeOK
      <3>2. bucket' = [bucket EXCEPT !.age = @ + 1, !.left = @ - 1]
        BY <1>1, <1>4 DEF LimiterTick
      <3>3. QED
        BY <3>1, <3>2
    <2>2. (age + 1) * Rate = age * Rate + Rate /\ (left - 1) * Rate = left * Rate - Rate
      BY <1>1, SMT
    <2>3. Filled(0)' = Least(Burst, inside + (age * Rate + Rate))
      BY <1>1, <2>1, <2>2 DEF Filled, Less
    <2>4. Filled(0)' <= filled + Rate /\ Filled(0)' <= Burst /\ Filled(0)' \in Nat
      BY <1>1, <1>2, <2>3 DEF Least
    <2>5. meter' + Filled(0)' <= Burst
      BY <1>1, <2>4 DEF Less, MeterInv
    <2>6. meter' <= (left - 1) * Rate
      <3>1. left * Rate \in Nat /\ (left - 1) * Rate \in Nat
        <4>1. left - 1 \in Nat
          BY <1>1, <1>4
        <4>2. QED
          BY <1>1, <4>1, Product
      <3>2. QED
        BY <1>1, <2>2, <3>1 DEF Less, MeterInv
    <2>7. QED
      BY <2>1, <2>5, <2>6 DEF MeterInv
  <1>5. QED
    BY <1>1, <1>3, <1>4

(***************************************************************************)
(* Requests and tokens.                                                    *)
(***************************************************************************)

(* A cached key was in use once, and was dropped so recently that it ends  *)
(* in time. So was the key of a request: before the cache it is young      *)
(* enough for the cache, after it young enough to be honoured.             *)
CachedInTime == \A k \in Key : cached[k] > 0 => Used(k) /\ gone[k] + cached[k] <= Honoured

CallersInTime ==
  \A c \in Caller :
    /\ caller[c].at # "idle" => caller[c].key \in Key
    /\ caller[c].at = "caching" =>
         Used(caller[c].key) /\ caller[c].for <= MaxSet /\ gone[caller[c].key] <= MaxLag + caller[c].for
    /\ caller[c].at = "valid" =>
         Used(caller[c].key) /\ caller[c].for <= MaxDelay /\ gone[caller[c].key] <= Honoured + caller[c].for

(* The tokens that were exchanged n times were got with a key that is gone *)
(* for no longer than keys are honoured, and took a lifetime each.         *)
Bound(n) == Honoured + MaxDelay + (n + 1) * JWTExpiry

TokenInTime ==
  \A k \in Key, n \in Refreshes : tokens[k][n] > 0 => gone[k] + tokens[k][n] <= Bound(n)

TenancyInv ==
  TenancyTypeOK /\ History /\ LagBounded /\ CachedInTime /\ CallersInTime /\ TokenInTime

Assumptions == LimiterAssumption /\ KeysAssumption /\ TenancyAssumption

LEMMA HonouredType == Assumptions => Honoured \in Nat /\ MaxLag \in Nat /\ MaxSet \in Nat /\ CacheTTL \in Nat
                                     /\ MaxDelay \in Nat /\ JWTExpiry \in Nat \ {0} /\ Honoured = MaxLag + MaxSet + CacheTTL
  BY DEF Assumptions, KeysAssumption, TenancyAssumption, Honoured

(* Each exchange adds a lifetime to the bound.                             *)
LEMMA BoundGrows ==
  ASSUME Assumptions, NEW n \in Refreshes
  PROVE  /\ n \in Nat /\ Bound(n) \in Nat /\ Honoured + MaxDelay + JWTExpiry <= Bound(n)
         /\ Bound(n + 1) = Bound(n) + JWTExpiry
  <1>1. n \in Nat /\ 0 \in Nat /\ Honoured \in Nat /\ MaxDelay \in Nat /\ JWTExpiry \in Nat
    BY HonouredType DEF Refreshes, Assumptions, TenancyAssumption
  <1>2. n * JWTExpiry \in Nat
    BY <1>1, Product
  <1>3. (n + 1) * JWTExpiry = n * JWTExpiry + JWTExpiry
    BY <1>1, SMT
  <1>4. (n + 1 + 1) * JWTExpiry = (n + 1) * JWTExpiry + JWTExpiry
    BY <1>1, SMT
  <1>5. QED
    BY <1>1, <1>2, <1>3, <1>4 DEF Bound

LEMMA TenancyInitially == Assumptions /\ TenancyInit => TenancyInv
  <1> SUFFICES ASSUME Assumptions, TenancyInit PROVE TenancyInv
    OBVIOUS
  <1>1. KeysInv /\ LimiterTypeOK
    BY KeysInitially, MeterInitially DEF TenancyInit, Assumptions
  <1>2. TenancyTypeOK
    BY <1>1, HonouredType DEF TenancyInit, TenancyTypeOK, KeysInv, Idle
  <1>3. CachedInTime /\ CallersInTime
    BY DEF TenancyInit, KeysInit, Idle, CachedInTime, CallersInTime
  <1>4. TokenInTime
    <2> SUFFICES ASSUME NEW k \in Key, NEW n \in Refreshes
                 PROVE  gone[k] + tokens[k][n] <= Bound(n)
      BY DEF TokenInTime
    <2>1. gone[k] = 0 /\ tokens[k][n] \in 0..JWTExpiry
      BY HonouredType DEF TenancyInit, KeysInit
    <2>2. QED
      BY <2>1, BoundGrows, HonouredType
  <1>5. QED
    BY <1>1, <1>2, <1>3, <1>4 DEF TenancyInv, KeysInv

(* A step of one request that leaves rows and replicas alone: what it must *)
(* show of its place, of the cache and of the token.                       *)
LEMMA CallerStep ==
  ASSUME Assumptions, TenancyInv, NEW c \in Caller,
         UNCHANGED <<versions, seen, gone>>,
         LimiterTypeOK',
         NEW place \in {"idle", "fetching", "caching", "valid"}, NEW k \in Key \cup {NoKey},
         caller' = [caller EXCEPT ![c] = [at |-> place, key |-> k, for |-> 0]],
         place # "idle" => k \in Key,
         place = "caching" => Used(k) /\ gone[k] <= MaxLag,
         place = "valid" => Used(k) /\ gone[k] <= Honoured,
         cached' \in [Key -> 0..CacheTTL], CachedInTime',
         tokens' \in [Key -> [Refreshes -> 0..JWTExpiry]], TokenInTime'
  PROVE  TenancyInv'
  <1>1. TenancyTypeOK'
    BY DEF TenancyInv, TenancyTypeOK, KeysTypeOK
  <1>2. History' /\ LagBounded'
    BY DEF TenancyInv, History, LagBounded, Dropped
  <1>3. CallersInTime'
    <2> SUFFICES ASSUME NEW d \in Caller
                 PROVE  /\ caller'[d].at # "idle" => caller'[d].key \in Key
                        /\ caller'[d].at = "caching" =>
                             /\ Used(caller'[d].key)
                             /\ caller'[d].for <= MaxSet /\ gone[caller'[d].key] <= MaxLag + caller'[d].for
                        /\ caller'[d].at = "valid" =>
                             /\ Used(caller'[d].key)
                             /\ caller'[d].for <= MaxDelay /\ gone[caller'[d].key] <= Honoured + caller'[d].for
      BY DEF CallersInTime, Used
    <2>1. CASE d # c
      <3>1. caller'[d] = caller[d]
        BY <2>1 DEF TenancyInv, TenancyTypeOK
      <3>2. QED
        BY <3>1 DEF TenancyInv, CallersInTime
    <2>2. CASE d = c
      <3>1. caller'[d].at = place /\ caller'[d].key = k /\ caller'[d].for = 0
        BY <2>2 DEF TenancyInv, TenancyTypeOK
      <3>2. gone \in [Key -> Nat]
        BY DEF TenancyInv, TenancyTypeOK, KeysTypeOK
      <3>3. QED
        BY <3>1, <3>2, HonouredType
    <2>3. QED
      BY <2>1, <2>2
  <1>4. QED
    BY <1>1, <1>2, <1>3 DEF TenancyInv

(* What the step lemmas below know of the state before the step.           *)
LEMMA TypesBefore ==
  ASSUME Assumptions, TenancyInv
  PROVE  /\ LimiterTypeOK /\ KeysInv
         /\ gone \in [Key -> Nat] /\ cached \in [Key -> 0..CacheTTL]
         /\ tokens \in [Key -> [Refreshes -> 0..JWTExpiry]] /\ JWTExpiry \in 0..JWTExpiry
         /\ CachedInTime /\ CallersInTime /\ TokenInTime
         /\ \A c \in Caller : caller[c].for \in Nat
  BY HonouredType DEF TenancyInv, TenancyTypeOK, KeysTypeOK, KeysInv

(* A step of one request that leaves cache and tokens alone as well.       *)
LEMMA QuietStep ==
  ASSUME Assumptions, TenancyInv, NEW c \in Caller,
         UNCHANGED <<keysVars, tokens>>, LimiterTypeOK',
         NEW place \in {"idle", "fetching", "caching", "valid"}, NEW k \in Key \cup {NoKey},
         caller' = [caller EXCEPT ![c] = [at |-> place, key |-> k, for |-> 0]],
         place # "idle" => k \in Key,
         place = "caching" => Used(k) /\ gone[k] <= MaxLag,
         place = "valid" => Used(k) /\ gone[k] <= Honoured
  PROVE  TenancyInv'
  <1>1. UNCHANGED <<versions, seen, gone, cached, tokens>>
    BY DEF keysVars
  <1>2. CachedInTime' /\ TokenInTime'
    BY <1>1, TypesBefore DEF CachedInTime, TokenInTime, Used
  <1>3. cached' \in [Key -> 0..CacheTTL] /\ tokens' \in [Key -> [Refreshes -> 0..JWTExpiry]]
    BY <1>1, TypesBefore
  <1>4. QED
    BY <1>1, <1>2, <1>3, CallerStep

(* A request finds its key in the cache: the entry vouches for it.         *)
LEMMA CacheHitKeeps ==
  ASSUME Assumptions, TenancyInv, NEW c \in Caller, NEW k \in Key, CacheHit(c, k)
  PROVE  TenancyInv'
  <1> DEFINE place == "valid"
  <1>1. /\ UNCHANGED <<limiterVars, keysVars, tokens>>
        /\ caller' = [caller EXCEPT ![c] = [at |-> place, key |-> k, for |-> 0]]
    BY DEF CacheHit, Goes
  <1>2. cached[k] > 0 /\ Used(k) /\ gone[k] + cached[k] <= Honoured
    BY TypesBefore DEF CacheHit, CachedInTime
  <1>3. gone[k] \in Nat /\ cached[k] \in Nat
    BY TypesBefore, HonouredType
  <1>4. gone[k] <= Honoured
    BY <1>2, <1>3, HonouredType
  <1>5. LimiterTypeOK'
    BY <1>1, TypesBefore DEF limiterVars, LimiterTypeOK
  <1>6. place \in {"idle", "fetching", "caching", "valid"} /\ place # "caching"
    OBVIOUS
  <1> HIDE DEF place
  <1>7. QED
    BY <1>1, <1>2, <1>4, <1>5, <1>6, QuietStep

(* Or it does not, and nothing is known of the key yet.                    *)
LEMMA CacheMissKeeps ==
  ASSUME Assumptions, TenancyInv, NEW c \in Caller, NEW k \in Key, CacheMiss(c, k)
  PROVE  TenancyInv'
  <1> DEFINE place == "fetching"
  <1>1. /\ UNCHANGED <<limiterVars, keysVars, tokens>>
        /\ caller' = [caller EXCEPT ![c] = [at |-> place, key |-> k, for |-> 0]]
    BY DEF CacheMiss, Goes
  <1>2. LimiterTypeOK'
    BY <1>1, TypesBefore DEF limiterVars, LimiterTypeOK
  <1>3. place \in {"idle", "fetching", "caching", "valid"} /\ place \notin {"caching", "valid"}
    OBVIOUS
  <1> HIDE DEF place
  <1>4. QED
    BY <1>1, <1>2, <1>3, QuietStep

(* A request that ends leaves nothing to be shown of it.                   *)
LEMMA EndKeeps ==
  ASSUME Assumptions, TenancyInv, NEW c \in Caller,
         UNCHANGED <<keysVars, tokens>>, LimiterTypeOK', Ends(c)
  PROVE  TenancyInv'
  <1> DEFINE place == "idle"
  <1>1. caller' = [caller EXCEPT ![c] = [at |-> place, key |-> NoKey, for |-> 0]]
    BY DEF Ends, Idle
  <1>2. place \in {"idle", "fetching", "caching", "valid"} /\ place = "idle"
    OBVIOUS
  <1>3. place # "caching" /\ place # "valid"
    OBVIOUS
  <1> HIDE DEF place
  <1>4. QED
    BY <1>1, <1>2, <1>3, QuietStep

(* A lookup finds a key that was dropped at most a replica's lag ago.      *)
LEMMA FetchKeeps ==
  ASSUME Assumptions, TenancyInv, NEW c \in Caller, Fetch(c)
  PROVE  TenancyInv'
  <1>1. UNCHANGED <<limiterVars, keysVars, tokens>>
    BY DEF Fetch
  <1>2. LimiterTypeOK'
    BY <1>1, TypesBefore DEF limiterVars, LimiterTypeOK
  <1>3. CASE Ends(c)
    BY <1>1, <1>2, <1>3, EndKeeps
  <1>4. CASE (\E r \in Replica : Finds(r, caller[c].key)) /\ Goes(c, "caching", caller[c].key)
    <2> DEFINE place == "caching"
               k == caller[c].key
    <2>1. k \in Key
      BY TypesBefore DEF Fetch, CallersInTime
    <2>2. Used(k) /\ gone[k] <= MaxLag
      BY <1>4, <2>1, TypesBefore, FindsRecent DEF Assumptions
    <2>3. caller' = [caller EXCEPT ![c] = [at |-> place, key |-> k, for |-> 0]]
      BY <1>4 DEF Goes
    <2>4. place \in {"idle", "fetching", "caching", "valid"} /\ place # "valid"
      OBVIOUS
    <2> HIDE DEF place, k
    <2>5. QED
      BY <1>1, <1>2, <2>1, <2>2, <2>3, <2>4, QuietStep
  <1>5. QED
    BY <1>3, <1>4 DEF Fetch

(* What the lookup stores is as old as the lookup.                         *)
LEMMA StoreKeyKeeps ==
  ASSUME Assumptions, TenancyInv, NEW c \in Caller, StoreKey(c)
  PROVE  TenancyInv'
  <1> DEFINE place == "valid"
             k == caller[c].key
  <1>1. /\ UNCHANGED <<bucket, meter, versions, seen, gone, tokens>>
        /\ caller' = [caller EXCEPT ![c] = [at |-> place, key |-> k, for |-> 0]]
        /\ cached' \in {cached, [cached EXCEPT ![k] = CacheTTL]}
    BY DEF StoreKey, Goes, Cache, limiterVars
  <1>2. k \in Key /\ Used(k) /\ gone[k] <= MaxLag + MaxSet
    <2>1. k \in Key /\ Used(k) /\ caller[c].for <= MaxSet /\ gone[k] <= MaxLag + caller[c].for
      BY TypesBefore DEF StoreKey, CallersInTime
    <2>2. QED
      BY <2>1, TypesBefore, HonouredType
  <1>3. gone \in [Key -> Nat] /\ cached \in [Key -> 0..CacheTTL] /\ CachedInTime /\ TokenInTime
    BY TypesBefore
  <1>4. gone[k] + CacheTTL <= Honoured /\ gone[k] <= Honoured
    BY <1>2, <1>3, HonouredType
  <1>5. CacheTTL \in 0..CacheTTL
    BY HonouredType
  <1>6. cached' \in [Key -> 0..CacheTTL]
    BY <1>1, <1>2, <1>3, <1>5
  <1>7. CachedInTime'
    <2> SUFFICES ASSUME NEW j \in Key, cached'[j] > 0
                 PROVE  Used(j) /\ gone[j] + cached'[j] <= Honoured
      BY <1>1 DEF CachedInTime, Used
    <2>1. CASE cached'[j] = cached[j]
      BY <1>3, <2>1 DEF CachedInTime
    <2>2. CASE j = k /\ cached'[j] = CacheTTL
      BY <1>2, <1>4, <2>2
    <2>3. QED
      BY <1>1, <1>2, <1>3, <2>1, <2>2
  <1>8. LimiterTypeOK' /\ TokenInTime'
    BY <1>1, TypesBefore DEF LimiterTypeOK, TokenInTime, Used
  <1>9. place \in {"idle", "fetching", "caching", "valid"} /\ place # "caching"
    OBVIOUS
  <1>10. tokens' \in [Key -> [Refreshes -> 0..JWTExpiry]]
    BY <1>1, TypesBefore
  <1> HIDE DEF place, k
  <1>11. QED
    BY <1>1, <1>2, <1>4, <1>6, <1>7, <1>8, <1>9, <1>10, CallerStep

(* The limiter decides, and the request ends.                              *)
LEMMA MeterKeeps ==
  ASSUME Assumptions, TenancyInv, NEW c \in Caller, Meter(c)
  PROVE  TenancyInv'
  <1>1. LimiterTypeOK'
    BY TypesBefore, LimiterKeepsType DEF Meter, Assumptions
  <1>2. QED
    BY <1>1, EndKeeps DEF Meter

(* A token is issued for a key that is not dropped for too long.           *)
LEMMA TokenIssued ==
  ASSUME Assumptions, TenancyInv, NEW k \in Key, NEW n \in Refreshes,
         gone[k] + JWTExpiry <= Bound(n), UNCHANGED gone, Issue(k, n)
  PROVE  tokens' \in [Key -> [Refreshes -> 0..JWTExpiry]] /\ TokenInTime'
  <1>1. /\ tokens \in [Key -> [Refreshes -> 0..JWTExpiry]] /\ JWTExpiry \in 0..JWTExpiry /\ TokenInTime
        /\ tokens' = [tokens EXCEPT ![k][n] = JWTExpiry]
    BY TypesBefore DEF Issue
  <1>2. tokens' \in [Key -> [Refreshes -> 0..JWTExpiry]]
    BY <1>1
  <1>3. TokenInTime'
    <2> SUFFICES ASSUME NEW j \in Key, NEW m \in Refreshes, tokens'[j][m] > 0
                 PROVE  gone[j] + tokens'[j][m] <= Bound(m)
      BY DEF TokenInTime, Bound, Honoured
    <2>1. CASE j = k /\ m = n
      BY <1>1, <2>1
    <2>2. CASE ~(j = k /\ m = n)
      <3>1. tokens'[j][m] = tokens[j][m]
        BY <1>1, <2>2
      <3>2. QED
        BY <1>1, <3>1 DEF TokenInTime
    <2>3. QED
      BY <2>1, <2>2
  <1>4. QED
    BY <1>2, <1>3

LEMMA IssueTokenKeeps ==
  ASSUME Assumptions, TenancyInv, NEW c \in Caller, IssueToken(c)
  PROVE  TenancyInv'
  <1> DEFINE place == "idle"
             k == caller[c].key
  <1>1. /\ UNCHANGED <<bucket, meter, versions, seen, gone, cached>> /\ Issue(k, 0)
        /\ caller' = [caller EXCEPT ![c] = [at |-> place, key |-> NoKey, for |-> 0]]
    BY DEF IssueToken, Ends, Idle, limiterVars, keysVars
  <1>2. k \in Key /\ gone[k] \in Nat /\ gone[k] <= Honoured + MaxDelay
    <2>1. k \in Key /\ Used(k) /\ caller[c].for <= MaxDelay /\ gone[k] <= Honoured + caller[c].for
      BY TypesBefore DEF IssueToken, CallersInTime
    <2>2. QED
      BY <2>1, TypesBefore, HonouredType
  <1>3. tokens' \in [Key -> [Refreshes -> 0..JWTExpiry]] /\ TokenInTime'
    <2>1. 0 \in Refreshes /\ gone[k] + JWTExpiry <= Bound(0)
      BY <1>2, BoundGrows, HonouredType DEF Refreshes, Assumptions, TenancyAssumption
    <2> HIDE DEF k
    <2>2. QED
      BY <1>1, <1>2, <2>1, TokenIssued
  <1>4. LimiterTypeOK' /\ CachedInTime'
    BY <1>1, TypesBefore DEF LimiterTypeOK, CachedInTime, Used
  <1>5. cached' \in [Key -> 0..CacheTTL]
    BY <1>1, TypesBefore
  <1>6. place \in {"idle", "fetching", "caching", "valid"} /\ place = "idle"
    OBVIOUS
  <1>7. place # "caching" /\ place # "valid"
    OBVIOUS
  <1> HIDE DEF place, k
  <1>8. QED
    BY <1>1, <1>3, <1>4, <1>5, <1>6, <1>7, CallerStep

(* A step of the tokens alone.                                             *)
LEMMA TokenStep ==
  ASSUME Assumptions, TenancyInv, UNCHANGED <<limiterVars, keysVars, caller>>,
         tokens' \in [Key -> [Refreshes -> 0..JWTExpiry]], TokenInTime'
  PROVE  TenancyInv'
  <1>1. UNCHANGED <<bucket, meter, versions, seen, gone, cached, caller>>
    BY DEF limiterVars, keysVars
  <1>2. TenancyTypeOK'
    BY <1>1 DEF TenancyInv, TenancyTypeOK, LimiterTypeOK, KeysTypeOK
  <1>3. History' /\ LagBounded' /\ CachedInTime' /\ CallersInTime'
    BY <1>1 DEF TenancyInv, History, LagBounded, CachedInTime, CallersInTime, Dropped, Used
  <1>4. QED
    BY <1>2, <1>3 DEF TenancyInv

(* The query API looks the key up itself; an exchange asks for a token     *)
(* that is valid still.                                                    *)
LEMMA LoginKeeps ==
  ASSUME Assumptions, TenancyInv, NEW k \in Key, Login(k)
  PROVE  TenancyInv'
  <1>1. UNCHANGED <<limiterVars, keysVars, caller>> /\ UNCHANGED gone /\ Issue(k, 0)
    BY DEF Login, keysVars
  <1>2. gone[k] \in Nat /\ gone[k] <= MaxLag
    BY TypesBefore, FindsRecent DEF Login, Assumptions
  <1>3. 0 \in Refreshes /\ gone[k] + JWTExpiry <= Bound(0)
    BY <1>2, BoundGrows, HonouredType DEF Refreshes, Assumptions, TenancyAssumption
  <1>4. QED
    BY <1>1, <1>3, TokenIssued, TokenStep

LEMMA RefreshKeeps ==
  ASSUME Assumptions, TenancyInv, NEW k \in Key, NEW n \in Refreshes, Refresh(k, n)
  PROVE  TenancyInv'
  <1>1. /\ UNCHANGED <<limiterVars, keysVars, caller>> /\ UNCHANGED gone /\ Issue(k, n + 1)
        /\ tokens[k][n] > 0 /\ n < MaxRefresh
    BY DEF Refresh, keysVars
  <1>2. gone[k] \in Nat /\ tokens[k][n] \in Nat /\ gone[k] + tokens[k][n] <= Bound(n)
    BY <1>1, TypesBefore, HonouredType DEF TokenInTime
  <1>3. n + 1 \in Refreshes
    BY <1>1 DEF Refreshes, Assumptions, TenancyAssumption
  <1>4. gone[k] + JWTExpiry <= Bound(n + 1)
    BY <1>1, <1>2, BoundGrows, HonouredType
  <1>5. QED
    BY <1>1, <1>3, <1>4, TokenIssued, TokenStep

(* A new version of the row, or a replica that takes one over: a key that  *)
(* was in use once stays one.                                              *)
LEMMA RowChangesKeeps ==
  ASSUME Assumptions, TenancyInv, RowChanges
  PROVE  TenancyInv'
  <1>1. UNCHANGED <<bucket, meter, tokens, caller, gone, cached>>
    BY DEF RowChanges, limiterVars, DeactivateApp, RotateAPIKey, Replicate
  <1>2. /\ KeysAssumption /\ KeysInv /\ LimiterTypeOK
        /\ versions \in Seq(Key \cup {NoKey}) /\ Len(versions) \in Nat \ {0}
    BY TypesBefore DEF Assumptions, KeysInv, KeysTypeOK
  <1>3. KeysInv' /\ \A k \in Key : Used(k) => Used(k)'
    <2>1. CASE DeactivateApp
      <3>1. Current # NoKey /\ versions' = Append(versions, NoKey) /\ UNCHANGED <<seen, gone, cached>>
        BY <2>1 DEF DeactivateApp
      <3>2. \A i \in DOMAIN versions : versions[i] # NoKey
        <4>1. \A i \in 1..(Len(versions) - 1) : versions[i] \in Key
          BY <1>2 DEF KeysInv, History
        <4>2. versions[Len(versions)] # NoKey
          BY <3>1 DEF Current
        <4>3. QED
          BY <1>2, <4>1, <4>2 DEF KeysAssumption
      <3>3. KeysInv'
        BY <1>2, <3>1, <3>2, AppendKeepsKeys
      <3>4. \A k \in Key : Used(k) => Used(k)'
        BY <1>2, <3>1, AppendProperties DEF Used
      <3>5. QED
        BY <3>3, <3>4
    <2>2. CASE \E k \in Key : RotateAPIKey(k)
      <3>1. PICK k \in Key : RotateAPIKey(k)
        BY <2>2
      <3>2. Current # NoKey /\ versions' = Append(versions, k) /\ UNCHANGED <<seen, gone, cached>>
        BY <3>1 DEF RotateAPIKey
      <3>3. \A i \in DOMAIN versions : versions[i] # k
        BY <3>1 DEF RotateAPIKey, Used
      <3>4. KeysInv'
        BY <1>2, <3>2, <3>3, AppendKeepsKeys
      <3>5. \A j \in Key : Used(j) => Used(j)'
        BY <1>2, <3>2, AppendProperties DEF Used
      <3>6. QED
        BY <3>4, <3>5
    <2>3. CASE \E r \in Replica : Replicate(r)
      <3>1. PICK r \in Replica : Replicate(r)
        BY <2>3
      <3>2. versions' = versions
        BY <3>1 DEF Replicate
      <3>3. QED
        BY <1>2, <3>1, <3>2, ReplicateKeepsKeys DEF Used
    <2>4. QED
      BY <2>1, <2>2, <2>3 DEF RowChanges
  <1>4. LimiterTypeOK'
    BY <1>1, <1>2 DEF LimiterTypeOK
  <1>5. TenancyTypeOK'
    BY <1>1, <1>3, <1>4 DEF TenancyInv, TenancyTypeOK, KeysInv
  <1>6. CachedInTime'
    BY <1>1, <1>3, TypesBefore DEF CachedInTime
  <1>7. CallersInTime'
    BY <1>1, <1>3, TypesBefore DEF CallersInTime
  <1>8. TokenInTime'
    BY <1>1, <1>3, TypesBefore DEF TokenInTime
  <1>9. QED
    BY <1>3, <1>5, <1>6, <1>7, <1>8 DEF TenancyInv, KeysInv

(* A tick ages the dropped keys by one, and takes one from the entries and *)
(* tokens that live: the sums stay.                                        *)
LEMMA TickKeeps ==
  ASSUME Assumptions, TenancyInv, Tick
  PROVE  TenancyInv'
  <1>1. /\ LimiterTypeOK /\ KeysInv /\ LimiterTick /\ KeysTick /\ versions' = versions
        /\ \A c \in Caller : Unhurried(c)
    BY TypesBefore DEF Tick, KeysTick
  <1>2. LimiterTypeOK'
    BY <1>1, LimiterKeepsType DEF Assumptions
  <1>3. KeysInv'
    BY <1>1, TickKeepsKeys DEF Assumptions
  <1>4. \A k \in Key : gone[k] \in Nat /\ gone'[k] \in Nat /\ gone'[k] <= gone[k] + 1 /\ Used(k)' = Used(k)
    BY <1>1, TypesBefore DEF KeysTick, Used
  <1>5. /\ tokens' \in [Key -> [Refreshes -> 0..JWTExpiry]]
        /\ \A k \in Key, n \in Refreshes :
             tokens[k][n] \in Nat /\ (tokens'[k][n] > 0 => tokens[k][n] > 0 /\ tokens'[k][n] = tokens[k][n] - 1)
    <2>1. tokens' = [k \in Key |-> [n \in Refreshes |-> Less(tokens[k][n], 1)]]
      BY DEF Tick
    <2>2. \A k \in Key, n \in Refreshes : tokens[k][n] \in 0..JWTExpiry
      BY TypesBefore
    <2>3. \A k \in Key, n \in Refreshes : Less(tokens[k][n], 1) \in 0..JWTExpiry
      BY <2>2, HonouredType DEF Less
    <2>4. \A k \in Key, n \in Refreshes : tokens'[k][n] = Less(tokens[k][n], 1)
      BY <2>1
    <2>5. QED
      BY <2>1, <2>2, <2>3, <2>4, HonouredType DEF Less
  <1>6. \A k \in Key : cached[k] \in Nat /\ (cached'[k] > 0 => cached[k] > 0 /\ cached'[k] = cached[k] - 1)
    BY <1>1, TypesBefore, HonouredType DEF KeysTick
  <1>7. ASSUME NEW c \in Caller
        PROVE  /\ caller'[c].at = caller[c].at /\ caller'[c].key = caller[c].key
               /\ caller[c].for \in Nat /\ caller'[c].for \in Nat
               /\ caller[c].at \in Timed => caller'[c].for = caller[c].for + 1
               /\ caller'[c] \in [at : {"idle", "fetching", "caching", "valid"},
                                  key : Key \cup {NoKey}, for : Nat]
    <2>1. caller[c] \in [at : {"idle", "fetching", "caching", "valid"}, key : Key \cup {NoKey}, for : Nat]
      BY DEF TenancyInv, TenancyTypeOK
    <2>2. CASE caller[c].at \in Timed
      <3>1. caller'[c] = [caller[c] EXCEPT !.for = @ + 1]
        BY <2>2 DEF Tick
      <3>2. QED
        BY <2>1, <3>1
    <2>3. CASE caller[c].at \notin Timed
      <3>1. caller'[c] = caller[c]
        BY <2>3 DEF Tick
      <3>2. QED
        BY <2>1, <2>3, <3>1
    <2>4. QED
      BY <2>2, <2>3
  <1>8. TenancyTypeOK'
    <2> DEFINE Row == [at : {"idle", "fetching", "caching", "valid"}, key : Key \cup {NoKey}, for : Nat]
    <2>1. caller' = [c \in Caller |-> caller'[c]]
      BY DEF Tick
    <2>2. \A c \in Caller : caller'[c] \in Row
      BY <1>7
    <2>3. caller' \in [Caller -> Row]
      <3> HIDE DEF Row
      <3>1. QED
        BY <2>1, <2>2
    <2>4. QED
      BY <1>2, <1>3, <1>5, <2>3 DEF TenancyTypeOK, KeysInv
  <1>9. CachedInTime'
    <2> SUFFICES ASSUME NEW k \in Key, cached'[k] > 0
                 PROVE  Used(k)' /\ gone'[k] + cached'[k] <= Honoured
      BY DEF CachedInTime, Honoured
    <2>1. Used(k) /\ gone[k] + cached[k] <= Honoured
      BY <1>6, TypesBefore DEF CachedInTime
    <2>2. QED
      BY <1>4, <1>6, <2>1, HonouredType
  <1>10. CallersInTime'
    <2> SUFFICES ASSUME NEW c \in Caller
                 PROVE  /\ caller'[c].at # "idle" => caller'[c].key \in Key
                        /\ caller'[c].at = "caching" =>
                             /\ Used(caller'[c].key)
                             /\ caller'[c].for <= MaxSet /\ gone'[caller'[c].key] <= MaxLag + caller'[c].for
                        /\ caller'[c].at = "valid" =>
                             /\ Used(caller'[c].key)
                             /\ caller'[c].for <= MaxDelay /\ gone'[caller'[c].key] <= Honoured + caller'[c].for
      BY <1>1 DEF CallersInTime, Honoured, Used
    <2> DEFINE k == caller[c].key
    <2>1. caller[c].at # "idle" => k \in Key
      BY TypesBefore DEF CallersInTime
    <2>2. CASE caller[c].at = "caching"
      <3>1. k \in Key /\ Used(k) /\ gone[k] <= MaxLag + caller[c].for /\ caller[c].for < MaxSet
        BY <1>1, <2>1, <2>2, TypesBefore DEF CallersInTime, Unhurried
      <3>2. caller'[c].for = caller[c].for + 1 /\ caller'[c].key = k /\ caller[c].for \in Nat
        BY <1>7, <2>2 DEF Timed
      <3> HIDE DEF k
      <3>3. QED
        BY <1>4, <1>7, <2>2, <3>1, <3>2, HonouredType
    <2>3. CASE caller[c].at = "valid"
      <3>1. k \in Key /\ Used(k) /\ gone[k] <= Honoured + caller[c].for /\ caller[c].for < MaxDelay
        BY <1>1, <2>1, <2>3, TypesBefore DEF CallersInTime, Unhurried
      <3>2. caller'[c].for = caller[c].for + 1 /\ caller'[c].key = k /\ caller[c].for \in Nat
        BY <1>7, <2>3 DEF Timed
      <3> HIDE DEF k
      <3>3. QED
        BY <1>4, <1>7, <2>3, <3>1, <3>2, HonouredType
    <2>4. CASE caller[c].at \notin {"caching", "valid"}
      BY <1>7, <2>1, <2>4
    <2>5. QED
      BY <2>2, <2>3, <2>4
  <1>11. TokenInTime'
    <2> SUFFICES ASSUME NEW k \in Key, NEW n \in Refreshes, tokens'[k][n] > 0
                 PROVE  gone'[k] + tokens'[k][n] <= Bound(n)
      BY DEF TokenInTime, Bound, Honoured
    <2>1. gone[k] + tokens[k][n] <= Bound(n)
      BY <1>5, TypesBefore DEF TokenInTime
    <2>2. QED
      BY <1>4, <1>5, <2>1, BoundGrows
  <1>12. QED
    BY <1>3, <1>8, <1>9, <1>10, <1>11 DEF TenancyInv, KeysInv

(* Every step keeps the invariant.                                         *)
LEMMA TenancyKept ==
  ASSUME Assumptions, TenancyInv, [TenancyNext]_tenancyVars
  PROVE  TenancyInv'
  <1>1. CASE TenancyNext
    BY <1>1, CacheHitKeeps, CacheMissKeeps, FetchKeeps, StoreKeyKeeps, MeterKeeps, IssueTokenKeeps,
       LoginKeeps, RefreshKeeps, RowChangesKeeps, TickKeeps DEF TenancyNext
  <1>2. CASE UNCHANGED tenancyVars
    <2>1. UNCHANGED <<limiterVars, keysVars, caller, tokens, versions, gone>>
      BY <1>2 DEF tenancyVars, keysVars
    <2>2. tokens' \in [Key -> [Refreshes -> 0..JWTExpiry]] /\ TokenInTime'
      BY <2>1, TypesBefore DEF TokenInTime, Used
    <2>3. QED
      BY <2>1, <2>2, TokenStep
  <1>3. QED
    BY <1>1, <1>2

LEMMA TenancyAlways == TenancySpec => []TenancyInv
  <1>0. Assumptions
    BY LimiterAssumption, KeysAssumption, TenancyAssumption DEF Assumptions
  <1>1. TenancyInit => TenancyInv
    BY <1>0, TenancyInitially
  <1>2. TenancyInv /\ [TenancyNext]_tenancyVars => TenancyInv'
    BY <1>0, TenancyKept
  <1>3. QED
    BY <1>1, <1>2, PTL DEF TenancySpec

(***************************************************************************)
(* The theorems.                                                           *)
(***************************************************************************)

(* Bucket, row, replicas, cache, requests and tokens keep their types: the *)
(* bucket its burst (client.go:166-211), the lifetimes their limits.       *)
THEOREM TenancyTypeCorrect == TenancySpec => []TenancyTypeOK
  <1>1. TenancyInv => TenancyTypeOK
    BY DEF TenancyInv
  <1>2. QED
    BY <1>1, TenancyAlways, PTL

(* A rotated or deactivated key stops being honoured after the replicas'   *)
(* lag, a lookup under way and the lifetime of a cache entry               *)
(* (auth.go:50-76), however many requests race with the rotation.          *)
THEOREM RevokedKeysExpire == TenancySpec => []RevokedKeyExpires
  <1>1. TenancyInv => RevokedKeyExpires
    BY DEF TenancyInv, CachedInTime, CallersInTime, RevokedKeyExpires
  <1>2. QED
    BY <1>1, TenancyAlways, PTL

(* Whichever service issued them (main.go:191-217, mgmt_handlers.go:86-113)*)
(* and whether the key was rotated away or its app deactivated, the tokens *)
(* got with a dropped key end in time: one lifetime after the key, and one *)
(* more for every exchange they come from (main.go:220-249). It bounds no  *)
(* chain of exchanges, which goes on as long as the client likes.          *)
THEOREM TokensAlwaysEnd == TenancySpec => []TokensEnd
  <1>1. TenancyInv => TokensEnd
    BY DEF TenancyInv, TokenInTime, Bound, TokensEnd
  <1>2. QED
    BY <1>1, TenancyAlways, PTL

(* While the script runs with the reading of this very tick, the bucket    *)
(* lets no more pass in any interval than burst and rate allow             *)
(* (client.go:166-211). With later scripts it does not hold: see the run   *)
(* late_clock.                                                             *)
THEOREM MeterStaysWithinBurst ==
  ASSUME MaxDelay = 0
  PROVE  TenancySpec => []MeterWithinBurst
  <1> DEFINE Inv == TenancyInv /\ MeterInv
  <1>0. Assumptions
    BY LimiterAssumption, KeysAssumption, TenancyAssumption DEF Assumptions
  <1>1. TenancyInit => Inv
    BY <1>0, TenancyInitially, MeterInitially DEF TenancyInit, Assumptions
  <1>2. Inv /\ [TenancyNext]_tenancyVars => Inv'
    <2> SUFFICES ASSUME TenancyInv, MeterInv, [TenancyNext]_tenancyVars PROVE MeterInv'
      BY <1>0, TenancyKept
    <2>1. LimiterAssumption /\ LimiterTypeOK
      BY <1>0, TypesBefore DEF Assumptions
    <2>2. CASE UNCHANGED limiterVars
      BY <2>2 DEF limiterVars, MeterInv, Filled, Least, Less
    <2>3. CASE \E c \in Caller : Meter(c)
      <3>1. PICK c \in Caller : Meter(c)
        BY <2>3
      <3>2. caller[c].for = 0
        <4>1. caller[c].for \in Nat /\ caller[c].for <= MaxDelay
          BY <1>0, <3>1, TypesBefore DEF Meter, CallersInTime
        <4>2. QED
          BY <4>1
      <3>3. QED
        BY <2>1, <3>1, <3>2, TakeKeepsMeter DEF Meter
    <2>4. CASE Tick
      BY <2>1, <2>4, TickKeepsMeter DEF Tick
    <2>5. QED
      BY <2>2, <2>3, <2>4 DEF TenancyNext, CacheHit, CacheMiss, Fetch, StoreKey, IssueToken, Login,
         Refresh, RowChanges, tenancyVars
  <1>3. Inv => MeterWithinBurst
    <2> SUFFICES ASSUME TenancyInv, MeterInv PROVE meter <= Burst
      BY DEF MeterWithinBurst
    <2>1. LimiterAssumption /\ LimiterTypeOK
      BY <1>0, TypesBefore DEF Assumptions
    <2>2. Filled(0) \in 0..Burst
      BY <2>1, FilledType
    <2>3. meter \in Nat /\ Burst \in Nat
      BY <2>1 DEF LimiterTypeOK, LimiterAssumption
    <2>4. QED
      BY <2>2, <2>3 DEF MeterInv
  <1>4. QED
    <2> HIDE DEF Inv
    <2>1. QED
      BY <1>1, <1>2, <1>3, PTL DEF TenancySpec

=============================================================================
