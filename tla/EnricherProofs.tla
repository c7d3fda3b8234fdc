--------------------------- MODULE EnricherProofs ---------------------------
(***************************************************************************)
(* The enricher for any partition, workers, capacities and number of       *)
(* restarts: its types, that a record is in one place of one process at    *)
(* most once, that no well-formed record vanishes without a trace, and     *)
(* that every step is a step of Relay or none.                             *)
(***************************************************************************)
EXTENDS Enricher, SequenceTheorems, TLAPS

(* Lemmas about sequences as sets of records. *)

Distinct(s) == \A i, j \in 1 .. Len(s) : s[i] = s[j] => i = j

\* The elements of a sequence, by position.
LEMMA Elements ==
  ASSUME NEW S, NEW s \in Seq(S)
  PROVE  ToSet(s) = {s[i] : i \in 1 .. Len(s)} /\ ToSet(s) \subseteq S
<1>1. ToSet(s) = {s[i] : i \in 1 .. Len(s)}
  BY LenProperties DEF ToSet
<1>2. \A i \in 1 .. Len(s) : s[i] \in S
  BY ElementOfSeq
<1> QED
  BY <1>1, <1>2

\* The empty sequence has none, and none twice.
LEMMA NoElements ==
  ASSUME NEW S
  PROVE  <<>> \in Seq(S) /\ Len(<<>>) = 0 /\ ToSet(<<>>) = {} /\ Distinct(<<>>)
<1>1. <<>> \in Seq(S) /\ Len(<<>>) = 0
  BY EmptySeq
<1>2. ToSet(<<>>) = {<<>>[i] : i \in 1 .. Len(<<>>)}
  BY <1>1, Elements
<1> QED
  BY <1>1, <1>2 DEF Distinct

\* What is sent or published comes last and is new.
LEMMA AppendsNew ==
  ASSUME NEW S, NEW s \in Seq(S), NEW r \in S
  PROVE  /\ Append(s, r) \in Seq(S) /\ Len(Append(s, r)) = Len(s) + 1
         /\ ToSet(Append(s, r)) = ToSet(s) \cup {r}
         /\ Distinct(s) /\ r \notin ToSet(s) => Distinct(Append(s, r))
<1> DEFINE t == Append(s, r)
           n == Len(s)
<1>1. /\ t \in Seq(S) /\ Len(t) = n + 1 /\ t[n + 1] = r /\ n \in Nat
      /\ \A i \in 1 .. n : t[i] = s[i]
  BY AppendProperties, LenProperties
<1>2. ToSet(s) = {s[i] : i \in 1 .. n}
  BY Elements
<1> HIDE DEF t, n
<1>3. ToSet(t) = {t[i] : i \in 1 .. n + 1}
  BY <1>1, Elements
<1>4. \A i \in 1 .. n + 1 : i \in 1 .. n \/ i = n + 1
  BY <1>1
<1>5. 1 .. n \subseteq 1 .. n + 1 /\ n + 1 \in 1 .. n + 1
  BY <1>1
<1>6. ToSet(t) = ToSet(s) \cup {r}
  BY <1>1, <1>2, <1>3, <1>4, <1>5
<1>7. ASSUME Distinct(s), r \notin ToSet(s) PROVE Distinct(t)
  <2>1. \A i, j \in 1 .. n : s[i] = s[j] => i = j
    BY <1>7 DEF Distinct, n
  <2>2. \A i \in 1 .. n : t[i] # r
    BY <1>1, <1>2, <1>7
  <2>3. \A i, j \in 1 .. n + 1 : t[i] = t[j] => i = j
    BY <1>1, <1>4, <2>1, <2>2
  <2> QED
    BY <1>1, <2>3 DEF Distinct
<1> QED
  BY <1>1, <1>6, <1>7 DEF t, n

\* What is taken or delivered was first and, if nothing is twice, leaves.
LEMMA TakesFirst ==
  ASSUME NEW S, NEW s \in Seq(S), s # <<>>
  PROVE  /\ Tail(s) \in Seq(S) /\ Len(Tail(s)) = Len(s) - 1
         /\ Head(s) \in ToSet(s) /\ Head(s) \in S
         /\ ToSet(s) = ToSet(Tail(s)) \cup {Head(s)}
         /\ Distinct(s) => Distinct(Tail(s)) /\ ToSet(Tail(s)) = ToSet(s) \ {Head(s)}
<1> DEFINE t == Tail(s)
           h == Head(s)
           n == Len(s)
<1>1. /\ t \in Seq(S) /\ Len(t) = n - 1 /\ h = s[1] /\ h \in S /\ n \in Nat \ {0}
      /\ \A i \in 1 .. n - 1 : t[i] = s[i + 1]
  BY HeadTailProperties, LenProperties, EmptySeq
<1>2. ToSet(s) = {s[i] : i \in 1 .. n}
  BY Elements
<1> HIDE DEF t, h, n
<1>3. ToSet(t) = {t[i] : i \in 1 .. n - 1}
  BY <1>1, Elements
<1>4. \A i \in 1 .. n : i = 1 \/ (i - 1 \in 1 .. n - 1 /\ (i - 1) + 1 = i)
  BY <1>1
<1>5. 1 \in 1 .. n /\ \A i \in 1 .. n - 1 : i + 1 \in 1 .. n /\ i + 1 # 1
  BY <1>1
<1>6. ToSet(s) = ToSet(t) \cup {h} /\ h \in ToSet(s)
  <2>1. ASSUME NEW x \in ToSet(s) PROVE x \in ToSet(t) \cup {h}
    <3>1. PICK i \in 1 .. n : x = s[i]
      BY <1>2
    <3>2. CASE i = 1
      BY <1>1, <3>1, <3>2
    <3>3. CASE i # 1
      <4>1. i - 1 \in 1 .. n - 1 /\ t[i - 1] = s[i]
        BY <1>1, <1>4, <3>3
      <4> QED
        BY <1>3, <3>1, <4>1
    <3> QED
      BY <3>2, <3>3
  <2>2. ToSet(t) \subseteq ToSet(s) /\ h \in ToSet(s)
    BY <1>1, <1>2, <1>3, <1>5
  <2> QED
    BY <2>1, <2>2
<1>7. ASSUME Distinct(s) PROVE Distinct(t) /\ h \notin ToSet(t)
  <2>1. \A i, j \in 1 .. n : s[i] = s[j] => i = j
    BY <1>7 DEF Distinct, n
  <2>2. \A i, j \in 1 .. n - 1 : t[i] = t[j] => i = j
    <3>1. ASSUME NEW i \in 1 .. n - 1, NEW j \in 1 .. n - 1, t[i] = t[j] PROVE i = j
      <4>1. i + 1 = j + 1
        BY <1>1, <1>5, <2>1, <3>1
      <4> QED
        BY <4>1
    <3> QED
      BY <3>1
  <2>3. \A i \in 1 .. n - 1 : t[i] # h
    BY <1>1, <1>5, <2>1
  <2> QED
    BY <1>1, <1>3, <2>2, <2>3 DEF Distinct
<1> QED
  BY <1>1, <1>6, <1>7 DEF t, h, n

-----------------------------------------------------------------------------
(* The inductive invariant.                                                *)

\* A process is told to stop, or killed, only when another may start.
MayRestart == main # "running" => starts < MaxStarts

InHand == {hand[w] : w \in Worker} \ {0}

\* A process that has ended left nothing behind.
DownIsEmpty ==
  main = "down" => loop = "ended" /\ channel = <<>> /\ hand = EmptyHands /\ buffer = <<>>

\* No record is twice in a place, or in two of them, or there before the
\* loop sent it.
OncePerProcess ==
  /\ Distinct(channel) /\ Distinct(buffer)
  /\ \A v, w \in Worker : hand[v] = hand[w] => v = w \/ hand[v] = 0
  /\ ToSet(channel) \cap InHand = {}
  /\ ToSet(buffer) \cap (ToSet(channel) \cup InHand) = {}
  /\ InMemory \subseteq 1..sent
  /\ ToSet(buffer) \cap Malformed = {}

EnricherInv == EnricherTypeOK /\ MayRestart /\ DownIsEmpty /\ OncePerProcess

\* The places that memory consists of.
LEMMA MemoryPlaces == InMemory = ToSet(channel) \cup ToSet(buffer) \cup InHand
BY DEF InMemory, InHand

LEMMA MemoryPlacesNext == InMemory' = ToSet(channel') \cup ToSet(buffer') \cup InHand'
BY DEF InMemory, InHand

\* An idle worker takes a record, a busy one lets go of its own.
LEMMA HandTakes ==
  ASSUME NEW w \in Worker, hand \in [Worker -> 0..LastRecord], hand[w] = 0,
         NEW r \in Records, hand' = [hand EXCEPT ![w] = r]
  PROVE  hand' \in [Worker -> 0..LastRecord] /\ InHand' = InHand \cup {r}
<1>1. r # 0 /\ r \in 0..LastRecord
  BY EnricherAssumption DEF Records
<1> QED
  BY <1>1 DEF InHand

LEMMA HandLetsGo ==
  ASSUME NEW w \in Worker, hand \in [Worker -> 0..LastRecord], hand[w] # 0,
         \A v, u \in Worker : hand[v] = hand[u] => v = u \/ hand[v] = 0,
         hand' = [hand EXCEPT ![w] = 0]
  PROVE  /\ hand' \in [Worker -> 0..LastRecord]
         /\ hand[w] \in InHand /\ InHand' = InHand \ {hand[w]}
         /\ \A v, u \in Worker : hand'[v] = hand'[u] => v = u \/ hand'[v] = 0
<1>1. 0 \in 0..LastRecord
  BY EnricherAssumption
<1>2. hand' \in [Worker -> 0..LastRecord]
  BY <1>1
<1>3. \A v \in Worker : hand'[v] = IF v = w THEN 0 ELSE hand[v]
  OBVIOUS
<1> QED
  BY <1>2, <1>3 DEF InHand

-----------------------------------------------------------------------------
(* The invariant holds initially and every step preserves it.              *)

LEMMA EnricherInitInv == EnricherInit => EnricherInv
<1> SUFFICES ASSUME EnricherInit PROVE EnricherInv
  OBVIOUS
<1> USE EnricherAssumption DEF EnricherInit
<1>1. /\ channel \in Seq(Records) /\ Len(channel) = 0 /\ ToSet(channel) = {} /\ Distinct(channel)
      /\ buffer \in Seq(Records) /\ Len(buffer) = 0 /\ ToSet(buffer) = {} /\ Distinct(buffer)
  BY NoElements
<1>2. hand \in [Worker -> 0..LastRecord] /\ InHand = {} /\ \A w \in Worker : hand[w] = 0
  BY DEF EmptyHands, InHand
<1>3. EnricherTypeOK
  BY <1>1, <1>2 DEF EnricherTypeOK
<1>4. DownIsEmpty /\ MayRestart
  BY DEF DownIsEmpty, MayRestart
<1>5. OncePerProcess
  BY <1>1, <1>2, MemoryPlaces DEF OncePerProcess
<1> QED
  BY <1>3, <1>4, <1>5 DEF EnricherInv

\* Records are offsets.
LEMMA RecordIsOffset == \A r \in Records : r \in Nat /\ 1 <= r /\ r <= LastRecord
BY EnricherAssumption DEF Records

\* Nothing in memory changes.
LEMMA SameMemory ==
  ASSUME EnricherInv, EnricherTypeOK', DownIsEmpty', MayRestart',
         UNCHANGED <<channel, hand, buffer, enriched, gone>>,
         InMemory \subseteq 1..sent'
  PROVE  EnricherInv'
<1>1. InMemory' = InMemory /\ InHand' = InHand
  BY DEF InMemory, InHand
<1>2. OncePerProcess'
  BY <1>1 DEF EnricherInv, OncePerProcess
<1> QED
  BY <1>2 DEF EnricherInv

LEMMA SendInv ==
  ASSUME EnricherInv, Send
  PROVE  EnricherInv' /\ main # "down" /\ sent' = sent + 1 /\ sent' \in Records
         /\ InMemory' = InMemory \cup {sent'}
<1> DEFINE r == sent + 1
<1>1. /\ channel \in Seq(Records) /\ loop = "sending" /\ sent < position /\ main # "down"
      /\ Len(channel) < MaxChannel /\ channel' = Append(channel, r) /\ sent' = r
      /\ UNCHANGED <<loop, position, committed, hand, buffer, main, starts, enriched, gone>>
      /\ sent \in Nat /\ committed \in Nat /\ position \in 0..LastRecord /\ sent >= committed
  BY EnricherAssumption DEF EnricherInv, EnricherTypeOK, DownIsEmpty, Send, mainVars, fateVars
<1>2. r \in Records /\ r \notin 1..sent /\ 1..sent \subseteq 1..r /\ r \in 1..r
  BY <1>1, EnricherAssumption DEF Records
<1>3. r \notin InMemory /\ InMemory \subseteq 1..sent
  BY <1>2 DEF EnricherInv, OncePerProcess
<1>4. r \notin ToSet(channel) /\ r \notin ToSet(buffer) /\ r \notin InHand
  BY <1>3, MemoryPlaces
<1>5. /\ channel' \in Seq(Records) /\ Len(channel') = Len(channel) + 1
      /\ ToSet(channel') = ToSet(channel) \cup {r} /\ Distinct(channel')
  BY <1>1, <1>2, <1>4, AppendsNew DEF EnricherInv, OncePerProcess
<1>6. InHand' = InHand /\ ToSet(buffer') = ToSet(buffer)
  BY <1>1 DEF InHand
<1> HIDE DEF r
<1>7. InMemory' = InMemory \cup {r}
  BY <1>5, <1>6, MemoryPlaces, MemoryPlacesNext
<1>8. EnricherTypeOK'
  <2>1. Len(channel') <= MaxChannel
    BY <1>1, <1>5, LenProperties, EnricherAssumption
  <2>2. sent' \in committed'..LastRecord /\ position' \in sent'..LastRecord
    BY <1>1, EnricherAssumption DEF r
  <2> QED
    BY <1>1, <1>5, <2>1, <2>2 DEF EnricherInv, EnricherTypeOK
<1>9. DownIsEmpty' /\ MayRestart'
  BY <1>1 DEF DownIsEmpty, EnricherInv, MayRestart
<1>10. OncePerProcess'
  BY <1>1, <1>2, <1>3, <1>4, <1>5, <1>6, <1>7 DEF EnricherInv, OncePerProcess
<1> QED
  BY <1>1, <1>2, <1>7, <1>8, <1>9, <1>10 DEF EnricherInv, r

LEMMA TakeInv ==
  ASSUME EnricherInv, NEW w \in Worker, Take(w)
  PROVE  EnricherInv' /\ InMemory' = InMemory
<1> DEFINE r == Head(channel)
<1>1. /\ channel \in Seq(Records) /\ channel # <<>> /\ hand[w] = 0
      /\ hand \in [Worker -> 0..LastRecord]
      /\ hand' = [hand EXCEPT ![w] = r] /\ channel' = Tail(channel)
      /\ UNCHANGED <<buffer, loop, position, sent, committed, main, starts, enriched, gone>>
  BY DEF EnricherInv, EnricherTypeOK, Take, loopVars, mainVars, fateVars
<1>2. /\ channel' \in Seq(Records) /\ Len(channel') = Len(channel) - 1
      /\ r \in ToSet(channel) /\ r \in Records
      /\ Distinct(channel') /\ ToSet(channel') = ToSet(channel) \ {r}
  BY <1>1, TakesFirst DEF EnricherInv, OncePerProcess
<1> HIDE DEF r
<1>3. hand' \in [Worker -> 0..LastRecord] /\ InHand' = InHand \cup {r}
  BY <1>1, <1>2, HandTakes
<1>4. InMemory' = InMemory
  BY <1>1, <1>2, <1>3, MemoryPlaces, MemoryPlacesNext
<1>5. main # "down"
  BY <1>1 DEF EnricherInv, DownIsEmpty
<1>6. EnricherTypeOK'
  <2>1. Len(channel') <= MaxChannel
    BY <1>1, <1>2, LenProperties, EnricherAssumption DEF EnricherInv, EnricherTypeOK
  <2> QED
    BY <1>1, <1>2, <1>3, <2>1 DEF EnricherInv, EnricherTypeOK
<1>7. OncePerProcess'
  <2>1. r \notin InHand /\ r \notin ToSet(buffer)
    BY <1>2 DEF EnricherInv, OncePerProcess
  <2>2. \A v \in Worker : hand'[v] = IF v = w THEN r ELSE hand[v]
    BY <1>1
  <2>3. \A v \in Worker : hand[v] # r
    <3>1. r # 0
      BY <1>2, RecordIsOffset
    <3> QED
      BY <2>1, <3>1 DEF InHand
  <2>4. \A v, u \in Worker : hand'[v] = hand'[u] => v = u \/ hand'[v] = 0
    BY <2>2, <2>3 DEF EnricherInv, OncePerProcess
  <2>5. /\ ToSet(channel') \cap InHand' = {}
        /\ ToSet(buffer') \cap (ToSet(channel') \cup InHand') = {}
        /\ ToSet(buffer') = ToSet(buffer)
    BY <1>1, <1>2, <1>3, <2>1 DEF EnricherInv, OncePerProcess
  <2> QED
    BY <1>1, <1>2, <1>4, <2>4, <2>5 DEF EnricherInv, OncePerProcess
<1>8. DownIsEmpty' /\ MayRestart'
  BY <1>1, <1>5 DEF EnricherInv, DownIsEmpty, MayRestart
<1> QED
  BY <1>4, <1>6, <1>7, <1>8 DEF EnricherInv

LEMMA SkipInv ==
  ASSUME EnricherInv, NEW w \in Worker, Skip(w)
  PROVE  EnricherInv' /\ InMemory' \ Malformed = InMemory \ Malformed
<1>1. /\ hand[w] \in Malformed /\ hand[w] # 0 /\ hand \in [Worker -> 0..LastRecord]
      /\ hand' = [hand EXCEPT ![w] = 0]
      /\ UNCHANGED <<channel, buffer, loop, position, sent, committed, main, starts, enriched, gone>>
  BY EnricherAssumption, RecordIsOffset
     DEF EnricherInv, EnricherTypeOK, Skip, loopVars, mainVars, fateVars
<1>2. /\ hand' \in [Worker -> 0..LastRecord] /\ InHand' = InHand \ {hand[w]}
      /\ \A v, u \in Worker : hand'[v] = hand'[u] => v = u \/ hand'[v] = 0
  BY <1>1, HandLetsGo DEF EnricherInv, OncePerProcess
<1>3. InMemory' \subseteq InMemory /\ InMemory' \ Malformed = InMemory \ Malformed
  BY <1>1, <1>2, MemoryPlaces, MemoryPlacesNext
<1>4. main # "down"
  BY <1>1 DEF EnricherInv, DownIsEmpty, EmptyHands
<1>5. EnricherTypeOK' /\ DownIsEmpty' /\ MayRestart'
  BY <1>1, <1>2, <1>4 DEF EnricherInv, EnricherTypeOK, DownIsEmpty, MayRestart
<1>6. OncePerProcess'
  BY <1>1, <1>2, <1>3 DEF EnricherInv, OncePerProcess
<1> QED
  BY <1>3, <1>5, <1>6 DEF EnricherInv

LEMMA PublishInv ==
  ASSUME EnricherInv, NEW w \in Worker, Publish(w)
  PROVE  EnricherInv' /\ InMemory' = InMemory
<1> DEFINE r == hand[w]
<1>1. /\ r \in Records \ Malformed /\ r # 0 /\ hand \in [Worker -> 0..LastRecord]
      /\ hand' = [hand EXCEPT ![w] = 0] /\ buffer' = Append(buffer, r)
      /\ buffer \in Seq(Records) /\ Len(buffer) < MaxBuffered
      /\ UNCHANGED <<channel, loop, position, sent, committed, main, starts, enriched, gone>>
  BY RecordIsOffset DEF EnricherInv, EnricherTypeOK, Publish, loopVars, mainVars, fateVars
<1>2. /\ hand' \in [Worker -> 0..LastRecord] /\ r \in InHand /\ InHand' = InHand \ {r}
      /\ \A v, u \in Worker : hand'[v] = hand'[u] => v = u \/ hand'[v] = 0
  BY <1>1, HandLetsGo DEF EnricherInv, OncePerProcess
<1>3. r \notin ToSet(buffer) /\ r \notin ToSet(channel)
  BY <1>2 DEF EnricherInv, OncePerProcess
<1>4. main # "down"
  BY <1>1 DEF EnricherInv, DownIsEmpty, EmptyHands
<1> HIDE DEF r
<1>5. /\ buffer' \in Seq(Records) /\ Len(buffer') = Len(buffer) + 1
      /\ ToSet(buffer') = ToSet(buffer) \cup {r} /\ Distinct(buffer')
  BY <1>1, <1>3, AppendsNew DEF EnricherInv, OncePerProcess
<1>6. InMemory' = InMemory
  BY <1>1, <1>2, <1>5, MemoryPlaces, MemoryPlacesNext
<1>7. EnricherTypeOK' /\ DownIsEmpty' /\ MayRestart'
  <2>1. Len(buffer') <= MaxBuffered
    BY <1>1, <1>5, LenProperties, EnricherAssumption
  <2> QED
    BY <1>1, <1>2, <1>4, <1>5, <2>1 DEF EnricherInv, EnricherTypeOK, DownIsEmpty, MayRestart
<1>8. OncePerProcess'
  BY <1>1, <1>2, <1>3, <1>5, <1>6 DEF EnricherInv, OncePerProcess
<1> QED
  BY <1>6, <1>7, <1>8 DEF EnricherInv

LEMMA DeliverInv ==
  ASSUME EnricherInv, Deliver
  PROVE  EnricherInv' /\ Head(buffer) \in InMemory \ Malformed
         /\ InMemory' = InMemory \ {Head(buffer)}
<1> DEFINE r == Head(buffer)
<1>1. /\ buffer \in Seq(Records) /\ buffer # <<>> /\ buffer' = Tail(buffer)
      /\ UNCHANGED <<channel, hand, loop, position, sent, committed, main, starts>>
      /\ \/ enriched' = enriched \cup {r} /\ gone' = gone
         \/ gone' = gone \cup {r} /\ enriched' = enriched
  BY DEF EnricherInv, EnricherTypeOK, Deliver, loopVars, mainVars
<1>2. /\ buffer' \in Seq(Records) /\ Len(buffer') = Len(buffer) - 1
      /\ r \in ToSet(buffer) /\ r \in Records
      /\ Distinct(buffer') /\ ToSet(buffer') = ToSet(buffer) \ {r}
  BY <1>1, TakesFirst DEF EnricherInv, OncePerProcess
<1> HIDE DEF r
<1>3. InHand' = InHand /\ r \notin Malformed /\ r \notin InHand /\ r \notin ToSet(channel)
  BY <1>1, <1>2 DEF EnricherInv, OncePerProcess, InHand
<1>4. r \in InMemory /\ InMemory' = InMemory \ {r}
  BY <1>1, <1>2, <1>3, MemoryPlaces, MemoryPlacesNext
<1>5. main # "down"
  BY <1>1 DEF EnricherInv, DownIsEmpty
<1>6. EnricherTypeOK' /\ DownIsEmpty' /\ MayRestart'
  <2>1. Len(buffer') <= MaxBuffered
    BY <1>1, <1>2, LenProperties, EnricherAssumption DEF EnricherInv, EnricherTypeOK
  <2>2. enriched' \subseteq Records /\ gone' \subseteq Records
    BY <1>1, <1>2 DEF EnricherInv, EnricherTypeOK
  <2> QED
    BY <1>1, <1>2, <1>5, <2>1, <2>2 DEF EnricherInv, EnricherTypeOK, DownIsEmpty, MayRestart
<1>7. OncePerProcess'
  BY <1>1, <1>2, <1>3, <1>4 DEF EnricherInv, OncePerProcess
<1> QED
  BY <1>3, <1>4, <1>6, <1>7 DEF EnricherInv, r

LEMMA ProcessEndsInv ==
  ASSUME EnricherInv, Return \/ Crash
  PROVE  EnricherInv' /\ InMemory' = {}
<1>1. /\ main' = "down" /\ loop' = "ended"
      /\ gone' = gone \cup {r \in InMemory : r <= committed}
      /\ channel' = <<>> /\ hand' = EmptyHands /\ buffer' = <<>>
      /\ UNCHANGED <<position, sent, committed, starts, enriched>>
      /\ starts < MaxStarts
  BY DEF Return, Crash, ProcessEnds, EnricherInv, MayRestart
<1>2. /\ channel' \in Seq(Records) /\ Len(channel') = 0 /\ ToSet(channel') = {} /\ Distinct(channel')
      /\ buffer' \in Seq(Records) /\ Len(buffer') = 0 /\ ToSet(buffer') = {} /\ Distinct(buffer')
  BY <1>1, NoElements
<1>3. hand' \in [Worker -> 0..LastRecord] /\ InHand' = {} /\ \A w \in Worker : hand'[w] = 0
  BY <1>1, EnricherAssumption DEF EmptyHands, InHand
<1>4. InMemory' = {}
  BY <1>2, <1>3, MemoryPlacesNext
<1>5. InMemory \subseteq Records
  <2>1. InMemory \subseteq 1..sent /\ sent \in committed..LastRecord /\ committed \in 0..LastRecord
    BY DEF EnricherInv, OncePerProcess, EnricherTypeOK
  <2> QED
    BY <2>1, EnricherAssumption DEF Records
<1>6. EnricherTypeOK'
  BY <1>1, <1>2, <1>3, <1>5, EnricherAssumption DEF EnricherInv, EnricherTypeOK
<1>7. DownIsEmpty' /\ MayRestart'
  BY <1>1 DEF DownIsEmpty, MayRestart
<1>8. OncePerProcess'
  BY <1>2, <1>3, <1>4 DEF OncePerProcess
<1> QED
  BY <1>4, <1>6, <1>7, <1>8 DEF EnricherInv

\* The steps of the loop and of main that move no record.
LEMMA MovesNothing ==
  ASSUME EnricherInv,
         Poll \/ Commit \/ LoopEnds \/ Signal \/ FlushReturns \/ Restart \/ UNCHANGED enricherVars
  PROVE  EnricherInv'
<1> USE EnricherAssumption
<1>1. UNCHANGED <<channel, hand, buffer, enriched, gone>>
  BY DEF Poll, Commit, LoopEnds, Signal, FlushReturns, Restart, enricherVars, workVars, fateVars
<1>2. EnricherTypeOK /\ MayRestart
  BY DEF EnricherInv
<1>3. EnricherTypeOK'
  <2> USE DEF EnricherTypeOK
  <2>1. CASE Poll
    BY <1>1, <1>2, <2>1 DEF Poll, mainVars, Records
  <2>2. CASE Commit \/ LoopEnds
    BY <1>1, <1>2, <2>2 DEF Commit, LoopEnds, mainVars
  <2>3. CASE Signal \/ FlushReturns
    BY <1>1, <1>2, <2>3 DEF Signal, FlushReturns, loopVars
  <2>4. CASE Restart
    BY <1>1, <1>2, <2>4 DEF Restart, MayRestart
  <2>5. CASE UNCHANGED enricherVars
    BY <1>1, <1>2, <2>5 DEF enricherVars, loopVars, mainVars
  <2> QED
    BY <2>1, <2>2, <2>3, <2>4, <2>5
<1>4. DownIsEmpty' /\ MayRestart'
  BY <1>1 DEF EnricherInv, DownIsEmpty, MayRestart, Poll, Commit, LoopEnds, Signal, FlushReturns, Restart,
     enricherVars, loopVars, mainVars
<1>5. InMemory \subseteq 1..sent'
  <2>1. CASE Restart
    <3>1. /\ channel = <<>> /\ buffer = <<>> /\ \A w \in Worker : hand[w] = 0
      BY <2>1 DEF Restart, EnricherInv, DownIsEmpty, EmptyHands
    <3>2. ToSet(channel) = {} /\ ToSet(buffer) = {} /\ InHand = {}
      BY <3>1, NoElements DEF InHand
    <3> QED
      BY <3>2, MemoryPlaces
  <2>2. CASE ~Restart
    <3>1. sent' = sent
      BY <2>2 DEF Poll, Commit, LoopEnds, Signal, FlushReturns, enricherVars, loopVars
    <3> QED
      BY <3>1 DEF EnricherInv, OncePerProcess
  <2> QED
    BY <2>1, <2>2
<1> QED
  BY <1>1, <1>3, <1>4, <1>5, SameMemory

LEMMA EnricherInvStep ==
  ASSUME EnricherInv, [EnricherNext]_enricherVars
  PROVE  EnricherInv'
<1>1. CASE Send
  BY <1>1, SendInv
<1>2. ASSUME NEW w \in Worker, WorkerStep(w) PROVE EnricherInv'
  BY <1>2, TakeInv, SkipInv, PublishInv DEF WorkerStep
<1>3. CASE Deliver
  BY <1>3, DeliverInv
<1>4. CASE Crash \/ Return
  BY <1>4, ProcessEndsInv
<1>5. CASE \/ Poll \/ Commit \/ LoopEnds \/ Signal \/ FlushReturns \/ Restart
           \/ UNCHANGED enricherVars
  BY <1>5, MovesNothing
<1> QED
  BY <1>1, <1>2, <1>3, <1>4, <1>5 DEF EnricherNext, LoopStep, MainStep

\* So it holds in every reachable state.
LEMMA EnricherInvInductive == EnricherSpec => []EnricherInv
BY EnricherInitInv, EnricherInvStep, PTL DEF EnricherSpec

(* Offsets, places and records stay within their types, and the channel    *)
(* and the producer's buffer within their capacities.                      *)
THEOREM EnricherTypeCorrect == EnricherSpec => []EnricherTypeOK
<1>1. EnricherInv => EnricherTypeOK
  BY DEF EnricherInv
<1> QED
  BY <1>1, EnricherInvInductive, PTL

(* However the workers overtake one another, no two of them handle the     *)
(* same record, and none is handled, or buffered by the producer, again by *)
(* one process (consumer.go:134-160).                                      *)
THEOREM RecordsHeldOnce == EnricherSpec => []OncePerProcess
<1>1. EnricherInv => OncePerProcess
  BY DEF EnricherInv
<1> QED
  BY <1>1, EnricherInvInductive, PTL

-----------------------------------------------------------------------------
(* Refinement of Relay: Send takes or skips, Deliver hands on or gives up, *)
(* Commit commits, the end of a process is the restart, and what the       *)
(* workers and main do in between is not seen.                             *)

\* Where this process, or the next one, goes on.
Reached == IF main = "down" THEN committed ELSE sent

Held == InMemory \ Malformed
Lost == gone \ Malformed

\* What Relay does not see: places change, the records held do not.
LEMMA UnseenStep ==
  ASSUME Reached' = Reached, Held' = Held, UNCHANGED <<committed, enriched, gone>>
  PROVE  UNCHANGED Relaying!relayVars
<1>1. Lost' = Lost
  BY DEF Lost
<1> QED
  BY <1>1 DEF Relaying!relayVars, Reached, Held, Lost

LEMMA SendRelays ==
  ASSUME EnricherInv, Send
  PROVE  Relaying!RelayNext
<1>1. /\ Reached' = Reached + 1 /\ Reached' \in Records /\ Reached' = sent'
      /\ InMemory' = InMemory \cup {sent'}
  BY SendInv DEF Reached, Send, mainVars
<1>2. UNCHANGED <<committed, enriched, gone>> /\ Lost' = Lost
  BY DEF Send, fateVars, Lost
<1>3. Relaying!Reaches(Reached')
  BY <1>1, RecordIsOffset DEF Relaying!Reaches, Reached
<1>4. CASE sent' \in Malformed
  <2>1. Held' = Held
    BY <1>1, <1>4 DEF Held
  <2>2. Relaying!Skip(Reached')
    BY <1>1, <1>2, <1>3, <1>4, <2>1 DEF Relaying!Skip, Held, Lost
  <2> QED
    BY <1>1, <2>2 DEF Relaying!RelayNext, Records
<1>5. CASE sent' \notin Malformed
  <2>1. Held' = Held \cup {Reached'}
    BY <1>1, <1>5 DEF Held
  <2>2. Relaying!Take(Reached')
    BY <1>1, <1>2, <1>3, <1>5, <2>1 DEF Relaying!Take, Held, Lost
  <2> QED
    BY <1>1, <2>2 DEF Relaying!RelayNext, Records
<1> QED
  BY <1>4, <1>5

LEMMA DeliverRelays ==
  ASSUME EnricherInv, Deliver
  PROVE  Relaying!RelayNext
<1> DEFINE r == Head(buffer)
<1>1. /\ r \in Held /\ r \notin Malformed /\ Held' = Held \ {r}
  BY DeliverInv DEF Held
<1>2. Reached' = Reached /\ committed' = committed
  BY DEF Deliver, Reached, loopVars, mainVars
<1>3. \/ enriched' = enriched \cup {r} /\ gone' = gone
      \/ gone' = gone \cup {r} /\ enriched' = enriched
  BY DEF Deliver
<1> HIDE DEF r
<1>4. \/ enriched' = enriched \cup {r} /\ Lost' = Lost
      \/ Lost' = Lost \cup {r} /\ enriched' = enriched
  BY <1>1, <1>3 DEF Lost
<1>5. Relaying!HandOn({r}) \/ Relaying!GiveUp({r})
  BY <1>1, <1>2, <1>4 DEF Relaying!HandOn, Relaying!GiveUp, Reached, Held, Lost
<1>6. {r} \in SUBSET Held
  BY <1>1
<1> QED
  BY <1>5, <1>6 DEF Relaying!RelayNext, Held

LEMMA CommitRelays ==
  ASSUME EnricherInv, Commit
  PROVE  Relaying!RelayNext
<1>1. Held' = Held /\ Lost' = Lost /\ enriched' = enriched
  BY DEF Commit, workVars, fateVars, Held, Lost, InMemory
<1>2. Reached = sent /\ Reached' = sent
  BY DEF EnricherInv, DownIsEmpty, Commit, Reached, mainVars
<1>3. committed' \in committed..Reached
  BY <1>2, EnricherAssumption DEF EnricherInv, EnricherTypeOK, Commit
<1> QED
  BY <1>1, <1>2, <1>3 DEF Relaying!RelayNext, Relaying!Commit, Reached, Held, Lost

LEMMA ProcessEndsRelays ==
  ASSUME EnricherInv, Return \/ Crash
  PROVE  Relaying!RelayNext
<1>1. InMemory' = {} /\ Held' = {}
  BY ProcessEndsInv DEF Held
<1>2. /\ Reached' = committed /\ UNCHANGED <<committed, enriched>>
      /\ gone' = gone \cup {r \in InMemory : r <= committed}
  BY DEF Return, Crash, ProcessEnds, Reached
<1>3. Lost' = Lost \cup {r \in Held : r <= committed}
  BY <1>2 DEF Lost, Held
<1> QED
  BY <1>1, <1>2, <1>3 DEF Relaying!RelayNext, Relaying!Restart, Reached, Held, Lost

\* Every step of the enricher is a step of Relay or is not seen by it.
LEMMA EnricherRelaysStep ==
  ASSUME EnricherInv, [EnricherNext]_enricherVars
  PROVE  [Relaying!RelayNext]_Relaying!relayVars
<1>1. CASE Send
  BY <1>1, SendRelays
<1>2. ASSUME NEW w \in Worker, WorkerStep(w) PROVE UNCHANGED Relaying!relayVars
  <2>1. Held' = Held
    BY <1>2, TakeInv, SkipInv, PublishInv DEF WorkerStep, Held
  <2>2. Reached' = Reached /\ UNCHANGED <<committed, enriched, gone>>
    BY <1>2 DEF WorkerStep, Take, Skip, Publish, loopVars, mainVars, fateVars, Reached
  <2> QED
    BY <2>1, <2>2, UnseenStep
<1>3. CASE Deliver
  BY <1>3, DeliverRelays
<1>4. CASE Commit
  BY <1>4, CommitRelays
<1>5. CASE Return \/ Crash
  BY <1>5, ProcessEndsRelays
<1>6. CASE Poll \/ LoopEnds \/ Signal \/ FlushReturns \/ Restart \/ UNCHANGED enricherVars
  <2>1. UNCHANGED <<channel, hand, buffer, committed, enriched, gone>>
    BY <1>6 DEF Poll, LoopEnds, Signal, FlushReturns, Restart, enricherVars, loopVars, workVars, fateVars
  <2>2. Held' = Held
    BY <2>1 DEF Held, InMemory
  <2>3. Reached' = Reached
    BY <1>6 DEF EnricherInv, DownIsEmpty, Reached, Poll, LoopEnds, Signal, FlushReturns, Restart,
       enricherVars, loopVars, mainVars
  <2> QED
    BY <2>1, <2>2, <2>3, UnseenStep
<1> QED
  BY <1>1, <1>2, <1>3, <1>4, <1>5, <1>6 DEF EnricherNext, LoopStep, MainStep

LEMMA EnricherRelaysInit == EnricherInit => Relaying!RelayInit
<1> SUFFICES ASSUME EnricherInit PROVE Relaying!RelayInit
  OBVIOUS
<1>1. \A w \in Worker : hand[w] = 0
  BY DEF EnricherInit, EmptyHands
<1>2. ToSet(channel) = {} /\ ToSet(buffer) = {} /\ InHand = {}
  BY <1>1, NoElements DEF EnricherInit, InHand
<1>3. Held = {} /\ Lost = {}
  BY <1>2, MemoryPlaces DEF Held, Lost, EnricherInit
<1> QED
  BY <1>3 DEF Relaying!RelayInit, EnricherInit, Held, Lost

(* The loop and its workers hand records on as Relay says, whatever the    *)
(* capacities, however many workers, however often the process ends.       *)
THEOREM EnricherImplementsRelay == EnricherSpec => ImplementsRelay
<1>1. EnricherInit => Relaying!RelayInit
  BY EnricherRelaysInit
<1>2. EnricherInv /\ [EnricherNext]_enricherVars => [Relaying!RelayNext]_Relaying!relayVars
  BY EnricherRelaysStep
<1> QED
  BY <1>1, <1>2, EnricherInvInductive, PTL DEF EnricherSpec, ImplementsRelay, Relaying!RelaySpec

(* Committing what was polled before the workers are done loses nothing    *)
(* without a trace: every well-formed record up to the committed offset is *)
(* enriched, given up by the producer, or was in the memory of this        *)
(* process or of one that ended (consumer.go:168). It follows from the     *)
(* refinement and what Relay promises.                                     *)
THEOREM CommittedAlwaysAccounted ==
  EnricherSpec =>
    [](\A r \in (1..committed) \ Malformed : r \in enriched \cup gone \cup InMemory)
<1>1. EnricherSpec => []Relaying!RelayAccounts
  BY EnricherImplementsRelay, Relaying!RelayAlwaysAccounts DEF ImplementsRelay
<1>2. ASSUME EnricherInv, Relaying!RelayAccounts
      PROVE  \A r \in (1..committed) \ Malformed : r \in enriched \cup gone \cup InMemory
  <2>1. committed <= Reached /\ committed \in Int /\ Reached \in Int
    BY <1>2 DEF Relaying!RelayAccounts, Reached, EnricherInv, EnricherTypeOK
  <2>2. (1..Reached) \ Malformed \subseteq Held \cup enriched \cup Lost
    BY <1>2 DEF Relaying!RelayAccounts, Reached, Held, Lost
  <2> QED
    BY <2>1, <2>2 DEF Held, Lost
<1> QED
  BY <1>1, <1>2, EnricherInvInductive, PTL
=============================================================================
