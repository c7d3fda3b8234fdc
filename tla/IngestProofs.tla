---------------------------- MODULE IngestProofs ----------------------------
(***************************************************************************)
(* Proofs about Ingest: what the duplicate filter lets pass, and that no   *)
(* event is turned away or acknowledged that the gateway dropped, for any  *)
(* number of handlers, events and SDK goroutines. The gateway's part is    *)
(* proved of its own specification, which Ingest implements.               *)
(***************************************************************************)
EXTENDS Ingest, SequenceTheorems, FiniteSetTheorems, TLAPS

Of(seq) == {seq[i] : i \in DOMAIN seq}

(* The elements of a sequence are its head and those of its tail.          *)
LEMMA OfTail ==
  ASSUME NEW S, NEW seq \in Seq(S), seq # <<>>
  PROVE  Head(seq) \in S /\ Tail(seq) \in Seq(S) /\ Of(seq) = {Head(seq)} \cup Of(Tail(seq))
  <1>1. /\ Head(seq) \in S /\ Head(seq) = seq[1] /\ Tail(seq) \in Seq(S)
        /\ Len(seq) \in Nat \ {0} /\ Len(Tail(seq)) = Len(seq) - 1
        /\ \A i \in 1..Len(Tail(seq)) : Tail(seq)[i] = seq[i + 1]
    BY HeadTailProperties
  <1>2. DOMAIN seq = 1..Len(seq) /\ DOMAIN Tail(seq) = 1..(Len(seq) - 1)
    BY <1>1
  <1>3. ASSUME NEW i \in 1..Len(seq) PROVE seq[i] \in {Head(seq)} \cup Of(Tail(seq))
    <2>1. CASE i = 1
      BY <1>1, <2>1
    <2>2. CASE i # 1
      <3>1. i - 1 \in 1..(Len(seq) - 1) /\ seq[(i - 1) + 1] = seq[i]
        BY <1>1, <2>2
      <3>2. Tail(seq)[i - 1] = seq[i]
        BY <1>1, <3>1
      <3>3. QED
        BY <1>2, <3>1, <3>2 DEF Of
    <2>3. QED
      BY <2>1, <2>2
  <1>4. ASSUME NEW i \in 1..(Len(seq) - 1) PROVE Tail(seq)[i] \in Of(seq)
    <2>1. i + 1 \in 1..Len(seq) /\ Tail(seq)[i] = seq[i + 1]
      BY <1>1
    <2>2. QED
      BY <1>2, <2>1 DEF Of
  <1>5. Head(seq) \in Of(seq)
    <2>1. 1 \in 1..Len(seq)
      BY <1>1
    <2>2. QED
      BY <1>1, <1>2, <2>1 DEF Of
  <1>6. QED
    BY <1>1, <1>2, <1>3, <1>4, <1>5 DEF Of

(* Appending adds one element.                                             *)
LEMMA OfAppend ==
  ASSUME NEW S, NEW seq \in Seq(S), NEW e \in S
  PROVE  Append(seq, e) \in Seq(S) /\ Of(Append(seq, e)) = Of(seq) \cup {e}
  <1> DEFINE n == Len(seq)
  <1>1. /\ Append(seq, e) \in Seq(S) /\ Len(Append(seq, e)) = n + 1 /\ n \in Nat
        /\ \A i \in 1..n : Append(seq, e)[i] = seq[i]
        /\ Append(seq, e)[n + 1] = e
    BY AppendProperties, LenProperties
  <1>2. DOMAIN seq = 1..n /\ DOMAIN Append(seq, e) = 1..(n + 1)
    BY <1>1
  <1>3. 1..(n + 1) = 1..n \cup {n + 1}
    BY <1>1
  <1> HIDE DEF n
  <1>4. QED
    BY <1>1, <1>2, <1>3 DEF Of

(***************************************************************************)
(* The filter.                                                             *)
(***************************************************************************)

(* An id that is not in the filter was not called new in this window. So a *)
(* handler that finds it missing is the first to, or one of those that     *)
(* tested before the first of them added.                                  *)
AdmittedKnown == \A e \in Event : e \notin bloom => admitted[e] = 0

FilterInv == FilterTypeOK /\ AdmittedKnown /\ OncePerHandler

(* Handlers that are about to add are finitely many.                       *)
LEMMA AddingCounted ==
  ASSUME NEW S \in SUBSET Handler
  PROVE  IsFiniteSet(S) /\ Cardinality(S) \in Nat /\ Cardinality(S) <= Cardinality(Handler)
         /\ Cardinality(Handler) \in Nat
  BY FilterAssumption, FS_Subset, FS_CardinalityType

(* A filter without ids, with fewer handlers about to add.                 *)
LEMMA NewFilterKeeps ==
  ASSUME adding' \in [Handler -> Event \cup {NoEvent}],
         bloom' = {}, admitted' = [e \in Event |-> 0]
  PROVE  FilterInv'
  <1>1. FilterTypeOK' /\ AdmittedKnown'
    BY DEF FilterTypeOK, AdmittedKnown
  <1>2. OncePerHandler'
    <2> SUFFICES ASSUME NEW e \in Event
                 PROVE  admitted'[e] + Cardinality(Adding(e)') <= Cardinality(Handler)
      BY DEF OncePerHandler
    <2>1. Adding(e)' \in SUBSET Handler /\ admitted'[e] = 0
      BY DEF Adding
    <2>2. QED
      BY <2>1, AddingCounted
  <1>3. QED
    BY <1>1, <1>2 DEF FilterInv

LEMMA TestNewKeeps ==
  ASSUME FilterInv, NEW h \in Handler, NEW d \in Event, TestNew(h, d)
  PROVE  FilterInv'
  <1>1. /\ adding \in [Handler -> Event \cup {NoEvent}] /\ admitted \in [Event -> Nat]
        /\ adding' = [adding EXCEPT ![h] = d] /\ UNCHANGED <<bloom, admitted>>
        /\ adding[h] = NoEvent /\ d \notin bloom
    BY DEF TestNew, FilterInv, FilterTypeOK
  <1>2. FilterTypeOK' /\ AdmittedKnown'
    BY <1>1 DEF FilterInv, FilterTypeOK, AdmittedKnown
  <1>3. OncePerHandler'
    <2> SUFFICES ASSUME NEW e \in Event
                 PROVE  admitted[e] + Cardinality(Adding(e)') <= Cardinality(Handler)
      BY <1>1 DEF OncePerHandler
    <2>1. CASE e = d
      <3>1. admitted[e] = 0
        BY <1>1, <2>1 DEF FilterInv, AdmittedKnown
      <3>2. Adding(e)' \in SUBSET Handler
        BY DEF Adding
      <3>3. QED
        BY <3>1, <3>2, AddingCounted
    <2>2. CASE e # d
      <3>1. Adding(e)' = Adding(e)
        BY <1>1, <2>2, FilterAssumption DEF Adding
      <3>2. QED
        BY <3>1 DEF FilterInv, OncePerHandler
    <2>3. QED
      BY <2>1, <2>2
  <1>4. QED
    BY <1>2, <1>3 DEF FilterInv

LEMMA AddKeeps ==
  ASSUME FilterInv, NEW h \in Handler, Add(h)
  PROVE  FilterInv'
  <1> DEFINE d == adding[h]
  <1>1. /\ adding \in [Handler -> Event \cup {NoEvent}] /\ admitted \in [Event -> Nat]
        /\ d \in Event /\ bloom' = bloom \cup {d}
        /\ admitted' = [admitted EXCEPT ![d] = @ + 1] /\ adding' = [adding EXCEPT ![h] = NoEvent]
    BY DEF Add, FilterInv, FilterTypeOK
  <1>2. FilterTypeOK' /\ AdmittedKnown'
    BY <1>1 DEF FilterInv, FilterTypeOK, AdmittedKnown
  <1>3. OncePerHandler'
    <2> SUFFICES ASSUME NEW e \in Event
                 PROVE  admitted'[e] + Cardinality(Adding(e)') <= Cardinality(Handler)
      BY DEF OncePerHandler
    <2>1. admitted[e] + Cardinality(Adding(e)) <= Cardinality(Handler) /\ admitted[e] \in Nat
      BY <1>1 DEF FilterInv, OncePerHandler
    <2>2. Adding(e) \in SUBSET Handler
      BY DEF Adding
    <2>3. IsFiniteSet(Adding(e)) /\ Cardinality(Adding(e)) \in Nat /\ Cardinality(Handler) \in Nat
      BY <2>2, AddingCounted
    <2>4. CASE e = d
      <3>1. Adding(e)' = Adding(e) \ {h} /\ h \in Adding(e) /\ admitted'[e] = admitted[e] + 1
        BY <1>1, <2>4, FilterAssumption DEF Adding
      <3>2. Cardinality(Adding(e)') = Cardinality(Adding(e)) - 1
        BY <2>3, <3>1, FS_RemoveElement
      <3>3. QED
        BY <2>1, <2>3, <3>1, <3>2
    <2>5. CASE e # d
      <3>1. Adding(e)' = Adding(e) /\ admitted'[e] = admitted[e]
        BY <1>1, <2>5, FilterAssumption DEF Adding
      <3>2. QED
        BY <2>1, <3>1
    <2>6. QED
      BY <2>4, <2>5
  <1>4. QED
    BY <1>2, <1>3 DEF FilterInv

(* Nothing happens to the filter.                                          *)
LEMMA FilterStays == FilterInv /\ UNCHANGED filterVars => FilterInv'
  BY DEF filterVars, FilterInv, FilterTypeOK, AdmittedKnown, OncePerHandler, Adding

(***************************************************************************)
(* The gateway.                                                            *)
(***************************************************************************)

(* The id a handler is about to add is that of the event it tests, and     *)
(* outside the places where it collects and publishes it holds nothing.    *)
HandsInv ==
  \A h \in Handler :
    /\ adding[h] # NoEvent => Testing(h) /\ adding[h] = Head(rest[h])
    /\ place[h] # "testing" => rest[h] = <<>>
    /\ place[h] \notin {"testing", "publishing"} => new[h] = {}

GatewayInv == GatewayTypeOK /\ FilterInv /\ HandsInv /\ KnownIdsCovered

Covered == InHands \cup InBuffer \cup rawEvents \cup lost

LEMMA GatewayInitially == GatewayInit => GatewayInv
  <1> SUFFICES ASSUME GatewayInit PROVE GatewayInv
    OBVIOUS
  <1>1. FilterInv
    <2>1. /\ bloom = {} /\ admitted = [e \in Event |-> 0] /\ adding = [h \in Handler |-> NoEvent]
      BY DEF GatewayInit, FilterInit, NewFilter
    <2>2. FilterTypeOK /\ AdmittedKnown
      BY <2>1 DEF FilterTypeOK, AdmittedKnown
    <2>3. OncePerHandler
      <3> SUFFICES ASSUME NEW e \in Event
                   PROVE  admitted[e] + Cardinality(Adding(e)) <= Cardinality(Handler)
        BY DEF OncePerHandler
      <3>1. admitted[e] = 0 /\ Adding(e) \in SUBSET Handler
        BY <2>1 DEF Adding
      <3>2. QED
        BY <3>1, AddingCounted
    <2>4. QED
      BY <2>2, <2>3 DEF FilterInv
  <1>2. GatewayTypeOK
    BY <1>1, GatewayAssumption DEF GatewayInit, IdleHandlers, GatewayTypeOK, HandlerPlaces, FilterInv
  <1>3. HandsInv /\ KnownIdsCovered
    BY DEF GatewayInit, FilterInit, NewFilter, IdleHandlers, HandsInv, KnownIdsCovered
  <1>4. QED
    BY <1>1, <1>2, <1>3 DEF GatewayInv

(* What is covered stays covered, and what the filter mistook stays known. *)
CoverGrows == Covered \subseteq Covered' /\ mistaken \subseteq mistaken'

(* The filter then turns away covered ids only, if the step adds no other. *)
LEMMA KnownStaysCovered ==
  ASSUME KnownIdsCovered, CoverGrows, bloom' \subseteq bloom \cup Covered'
  PROVE  KnownIdsCovered'
  BY DEF KnownIdsCovered, CoverGrows, Covered

(* A step of handler h between its places: what the others hold stays.     *)
LEMMA HandlerStep ==
  ASSUME GatewayInv, NEW h \in Handler,
         NEW p \in HandlerPlaces, NEW r \in Seq(Event), NEW n \in SUBSET Event,
         place' = [place EXCEPT ![h] = p],
         rest' = [rest EXCEPT ![h] = r],
         new' = [new EXCEPT ![h] = n],
         \A g \in Handler : g # h => adding'[g] = adding[g],
         adding'[h] # NoEvent => p = "testing" /\ r # <<>> /\ adding'[h] = Head(r),
         p # "testing" => r = <<>>,
         p \notin {"testing", "publishing"} => n = {}
  PROVE  /\ place' \in [Handler -> HandlerPlaces]
         /\ rest' \in [Handler -> Seq(Event)]
         /\ new' \in [Handler -> SUBSET Event]
         /\ HandsInv'
         /\ new[h] \subseteq n => InHands \subseteq InHands'
         /\ InHands \subseteq InHands' \cup new[h]
         /\ n \subseteq InHands'
  <1>1. /\ place \in [Handler -> HandlerPlaces] /\ rest \in [Handler -> Seq(Event)]
        /\ new \in [Handler -> SUBSET Event] /\ HandsInv
    BY DEF GatewayInv, GatewayTypeOK
  <1>2. /\ place' \in [Handler -> HandlerPlaces] /\ rest' \in [Handler -> Seq(Event)]
        /\ new' \in [Handler -> SUBSET Event]
        /\ place'[h] = p /\ rest'[h] = r /\ new'[h] = n
    BY <1>1
  <1>3. \A g \in Handler : g # h => place'[g] = place[g] /\ rest'[g] = rest[g] /\ new'[g] = new[g]
    BY <1>1
  <1>4. HandsInv'
    <2> SUFFICES ASSUME NEW g \in Handler
                 PROVE  /\ adding'[g] # NoEvent => Testing(g)' /\ adding'[g] = Head(rest'[g])
                        /\ place'[g] # "testing" => rest'[g] = <<>>
                        /\ place'[g] \notin {"testing", "publishing"} => new'[g] = {}
      BY DEF HandsInv
    <2>1. CASE g = h
      BY <1>2, <2>1 DEF Testing
    <2>2. CASE g # h
      BY <1>1, <1>3, <2>2 DEF HandsInv, Testing
    <2>3. QED
      BY <2>1, <2>2
  <1>5. InHands \subseteq InHands' \cup new[h] /\ n \subseteq InHands'
    BY <1>1, <1>2, <1>3 DEF InHands
  <1>6. new[h] \subseteq n => InHands \subseteq InHands'
    BY <1>5
  <1>7. QED
    BY <1>2, <1>4, <1>5, <1>6

(* A handler begins with what the request brings; it held nothing.         *)
LEMMA BeginKeeps ==
  ASSUME GatewayInv, NEW h \in Handler, NEW p \in {"testing", "publishing"},
         NEW r \in Seq(Event), NEW n \in SUBSET Event, p # "testing" => r = <<>>, Begin(h, p, r, n)
  PROVE  GatewayInv' /\ CoverGrows
  <1>1. /\ UNCHANGED <<filterVars, gateway, buffer, rawEvents, lost, mistaken>>
        /\ place' = [place EXCEPT ![h] = p] /\ rest' = [rest EXCEPT ![h] = r]
        /\ new' = [new EXCEPT ![h] = n]
    BY DEF Begin, storeVars
  <1>2. UNCHANGED <<bloom, adding>>
    BY <1>1 DEF filterVars
  <1>3. adding[h] = NoEvent /\ new[h] = {}
    BY DEF Begin, GatewayInv, HandsInv, Testing
  <1>4. p \in HandlerPlaces
    BY DEF HandlerPlaces
  <1>5. /\ place' \in [Handler -> HandlerPlaces] /\ rest' \in [Handler -> Seq(Event)]
        /\ new' \in [Handler -> SUBSET Event] /\ HandsInv' /\ InHands \subseteq InHands'
    BY <1>1, <1>2, <1>3, <1>4, HandlerStep
  <1>6. FilterInv'
    BY <1>1, FilterStays DEF GatewayInv
  <1>7. GatewayTypeOK'
    BY <1>1, <1>5, <1>6 DEF GatewayInv, GatewayTypeOK, FilterInv
  <1>8. CoverGrows
    BY <1>1, <1>5 DEF CoverGrows, Covered, InBuffer
  <1>9. KnownIdsCovered'
    BY <1>2, <1>8, KnownStaysCovered DEF GatewayInv
  <1>10. QED
    BY <1>5, <1>6, <1>7, <1>8, <1>9 DEF GatewayInv

(* The filter finds the event: the handler goes on with the next one.      *)
LEMMA FilterFindsKeeps ==
  ASSUME GatewayInv, NEW h \in Handler, FilterFinds(h)
  PROVE  GatewayInv' /\ CoverGrows
  <1>1. /\ UNCHANGED <<filterVars, gateway, place, new, buffer, rawEvents, lost>>
        /\ rest' = [rest EXCEPT ![h] = Tail(@)] /\ Testing(h) /\ adding[h] = NoEvent
        /\ mistaken' = mistaken \cup ({Head(rest[h])} \ bloom)
    BY DEF FilterFinds, Seen, storeVars
  <1>2. UNCHANGED <<bloom, adding>>
    BY <1>1 DEF filterVars
  <1>3. /\ place \in [Handler -> HandlerPlaces] /\ rest \in [Handler -> Seq(Event)]
        /\ new \in [Handler -> SUBSET Event] /\ mistaken \in SUBSET Event
    BY DEF GatewayInv, GatewayTypeOK
  <1>4. rest[h] \in Seq(Event) /\ rest[h] # <<>> /\ place[h] = "testing"
    BY <1>1, <1>3 DEF Testing
  <1>5. Head(rest[h]) \in Event /\ Tail(rest[h]) \in Seq(Event)
    BY <1>4, OfTail
  <1>6. HandsInv' /\ rest' \in [Handler -> Seq(Event)]
    <2>1. /\ place' = [place EXCEPT ![h] = place[h]] /\ new' = [new EXCEPT ![h] = new[h]]
          /\ rest' = [rest EXCEPT ![h] = Tail(rest[h])]
          /\ place[h] \in HandlerPlaces /\ new[h] \in SUBSET Event
      BY <1>1, <1>3
    <2>2. QED
      BY <1>1, <1>2, <1>4, <1>5, <2>1, HandlerStep
  <1>7. FilterInv'
    BY <1>1, FilterStays DEF GatewayInv
  <1>8. GatewayTypeOK'
    BY <1>1, <1>3, <1>5, <1>6, <1>7 DEF GatewayInv, GatewayTypeOK, FilterInv
  <1>9. CoverGrows
    BY <1>1 DEF CoverGrows, Covered, InBuffer, InHands
  <1>10. KnownIdsCovered'
    BY <1>2, <1>9, KnownStaysCovered DEF GatewayInv
  <1>11. QED
    BY <1>6, <1>7, <1>8, <1>9, <1>10 DEF GatewayInv

LEMMA FilterMissesKeeps ==
  ASSUME GatewayInv, NEW h \in Handler, FilterMisses(h)
  PROVE  GatewayInv' /\ CoverGrows
  <1>1. /\ UNCHANGED <<gateway, place, rest, new, buffer, rawEvents, lost, mistaken, bloom>>
        /\ Testing(h) /\ TestNew(h, Head(rest[h]))
    BY DEF FilterMisses, handlerVars, storeVars, TestNew
  <1>2. Head(rest[h]) \in Event
    BY <1>1, OfTail DEF GatewayInv, GatewayTypeOK, Testing
  <1>3. FilterInv'
    BY <1>1, <1>2, TestNewKeeps DEF GatewayInv
  <1>4. adding \in [Handler -> Event \cup {NoEvent}] /\ adding' = [adding EXCEPT ![h] = Head(rest[h])]
    BY <1>1 DEF TestNew, GatewayInv, FilterInv, FilterTypeOK
  <1>5. HandsInv'
    <2>1. \A g \in Handler : adding'[g] = IF g = h THEN Head(rest[h]) ELSE adding[g]
      BY <1>4
    <2>2. QED
      BY <1>1, <2>1 DEF GatewayInv, HandsInv, Testing
  <1>6. GatewayTypeOK'
    BY <1>1, <1>3 DEF GatewayInv, GatewayTypeOK, FilterInv
  <1>7. CoverGrows
    BY <1>1 DEF CoverGrows, Covered, InBuffer, InHands
  <1>8. KnownIdsCovered'
    BY <1>1, <1>7, KnownStaysCovered DEF GatewayInv
  <1>9. QED
    BY <1>3, <1>5, <1>6, <1>7, <1>8 DEF GatewayInv

(* An id enters the filter together with its event's way to the producer.  *)
LEMMA FilterAddsKeeps ==
  ASSUME GatewayInv, NEW h \in Handler, FilterAdds(h)
  PROVE  GatewayInv' /\ CoverGrows
  <1> DEFINE d == Head(rest[h])
             more == new[h] \cup {d}
  <1>1. /\ UNCHANGED <<gateway, place, buffer, rawEvents, lost, mistaken>>
        /\ Testing(h) /\ Add(h) /\ adding[h] = d
        /\ rest' = [rest EXCEPT ![h] = Tail(@)] /\ new' = [new EXCEPT ![h] = @ \cup {d}]
    BY DEF FilterAdds, storeVars, Add, GatewayInv, HandsInv
  <1>2. /\ place \in [Handler -> HandlerPlaces] /\ rest \in [Handler -> Seq(Event)]
        /\ new \in [Handler -> SUBSET Event] /\ adding \in [Handler -> Event \cup {NoEvent}]
    BY DEF GatewayInv, GatewayTypeOK, FilterTypeOK
  <1>3. rest[h] \in Seq(Event) /\ rest[h] # <<>> /\ place[h] = "testing"
    BY <1>1, <1>2 DEF Testing
  <1>4. d \in Event /\ Tail(rest[h]) \in Seq(Event)
    BY <1>3, OfTail
  <1>5. FilterInv'
    BY <1>1, AddKeeps DEF GatewayInv
  <1>6. bloom' = bloom \cup {d} /\ adding' = [adding EXCEPT ![h] = NoEvent]
    BY <1>1 DEF Add
  <1>7. /\ HandsInv' /\ rest' \in [Handler -> Seq(Event)] /\ new' \in [Handler -> SUBSET Event]
        /\ InHands \subseteq InHands' /\ d \in InHands'
    <2>1. /\ place' = [place EXCEPT ![h] = place[h]] /\ new' = [new EXCEPT ![h] = more]
          /\ rest' = [rest EXCEPT ![h] = Tail(rest[h])]
          /\ place[h] \in HandlerPlaces /\ more \in SUBSET Event /\ new[h] \subseteq more /\ d \in more
      BY <1>1, <1>2, <1>4
    <2>2. adding'[h] = NoEvent /\ \A g \in Handler : g # h => adding'[g] = adding[g]
      BY <1>2, <1>6
    <2> HIDE DEF more, d
    <2>3. QED
      BY <1>3, <1>4, <2>1, <2>2, HandlerStep
  <1>8. GatewayTypeOK'
    BY <1>1, <1>5, <1>7 DEF GatewayInv, GatewayTypeOK, FilterInv
  <1>9. CoverGrows
    BY <1>1, <1>7 DEF CoverGrows, Covered, InBuffer
  <1>10. KnownIdsCovered'
    <2>1. bloom' \subseteq bloom \cup Covered'
      BY <1>6, <1>7 DEF Covered
    <2>2. QED
      BY <1>9, <2>1, KnownStaysCovered DEF GatewayInv
  <1>11. QED
    BY <1>5, <1>7, <1>8, <1>9, <1>10 DEF GatewayInv

(* A handler with nothing to publish, or that has answered, moves on with  *)
(* empty hands.                                                            *)
LEMMA PlaceKeeps ==
  ASSUME GatewayInv, NEW h \in Handler, NEW p \in {"answering", "free"}, rest[h] = <<>>, new[h] = {},
         place' = [place EXCEPT ![h] = p],
         UNCHANGED <<filterVars, gateway, rest, new, storeVars, mistaken>>
  PROVE  GatewayInv' /\ CoverGrows
  <1>1. UNCHANGED <<buffer, rawEvents, lost, bloom, adding>>
    BY DEF storeVars, filterVars
  <1>2. rest \in [Handler -> Seq(Event)] /\ new \in [Handler -> SUBSET Event]
    BY DEF GatewayInv, GatewayTypeOK
  <1>3. adding[h] = NoEvent
    BY DEF GatewayInv, HandsInv, Testing
  <1>4. HandsInv' /\ place' \in [Handler -> HandlerPlaces]
    <2>1. rest' = [rest EXCEPT ![h] = rest[h]] /\ new' = [new EXCEPT ![h] = new[h]]
          /\ rest[h] \in Seq(Event) /\ new[h] \in SUBSET Event /\ p \in HandlerPlaces
      BY <1>2 DEF HandlerPlaces
    <2>2. QED
      BY <1>1, <1>3, <2>1, HandlerStep
  <1>5. FilterInv'
    BY FilterStays DEF GatewayInv
  <1>6. GatewayTypeOK'
    BY <1>1, <1>4, <1>5 DEF GatewayInv, GatewayTypeOK, FilterInv
  <1>7. CoverGrows
    BY <1>1 DEF CoverGrows, Covered, InBuffer, InHands
  <1>8. KnownIdsCovered'
    BY <1>1, <1>7, KnownStaysCovered DEF GatewayInv
  <1>9. QED
    BY <1>4, <1>5, <1>6, <1>7, <1>8 DEF GatewayInv

(* What a handler held is in the buffer afterwards.                        *)
LEMMA PublishKeeps ==
  ASSUME GatewayInv, NEW h \in Handler, Publish(h)
  PROVE  GatewayInv' /\ CoverGrows
  <1> DEFINE n == new[h]
  <1>1. /\ UNCHANGED <<filterVars, gateway, rest, rawEvents, lost, mistaken, bloom, adding>>
        /\ ToPublish(h) /\ Len(buffer) < MaxBuffered /\ buffer' = Append(buffer, n)
        /\ new' = [new EXCEPT ![h] = {}] /\ place' = [place EXCEPT ![h] = "answering"]
    BY DEF Publish, filterVars
  <1>2. /\ rest \in [Handler -> Seq(Event)] /\ n \in SUBSET Event
        /\ buffer \in Seq(SUBSET Event) /\ Len(buffer) \in Nat /\ MaxBuffered \in Nat
    BY GatewayAssumption, LenProperties DEF GatewayInv, GatewayTypeOK
  <1>3. adding[h] = NoEvent /\ rest[h] = <<>>
    BY <1>1 DEF ToPublish, Tested, GatewayInv, HandsInv, Testing
  <1>4. buffer' \in Seq(SUBSET Event) /\ Len(buffer') <= MaxBuffered
    BY <1>1, <1>2, AppendProperties
  <1>5. Of(buffer') = Of(buffer) \cup {n}
    BY <1>1, <1>2, OfAppend
  <1>6. InBuffer' = InBuffer \cup n
    BY <1>5 DEF InBuffer, Of
  <1>7. /\ HandsInv' /\ place' \in [Handler -> HandlerPlaces] /\ new' \in [Handler -> SUBSET Event]
        /\ InHands \subseteq InHands' \cup n
    <2> DEFINE p == "answering"
    <2>1. /\ rest' = [rest EXCEPT ![h] = rest[h]] /\ rest[h] \in Seq(Event)
          /\ p \in HandlerPlaces /\ p # "testing" /\ {} \in SUBSET Event
          /\ place' = [place EXCEPT ![h] = p]
      BY <1>1, <1>2 DEF HandlerPlaces
    <2> HIDE DEF p
    <2>2. QED
      BY <1>1, <1>3, <2>1, HandlerStep
  <1>8. FilterInv'
    BY <1>1, FilterStays DEF GatewayInv
  <1>9. GatewayTypeOK'
    BY <1>1, <1>4, <1>7, <1>8 DEF GatewayInv, GatewayTypeOK, FilterInv
  <1>10. CoverGrows
    BY <1>1, <1>6, <1>7 DEF CoverGrows, Covered
  <1>11. KnownIdsCovered'
    BY <1>1, <1>10, KnownStaysCovered DEF GatewayInv
  <1>12. QED
    BY <1>7, <1>8, <1>9, <1>10, <1>11 DEF GatewayInv

(* The oldest record reaches the topic or is lost.                         *)
LEMMA SettleKeeps ==
  ASSUME GatewayInv, Deliver \/ GiveUp
  PROVE  GatewayInv' /\ CoverGrows
  <1>1. /\ UNCHANGED <<filterVars, gateway, place, rest, new, mistaken, bloom, adding>>
        /\ buffer # <<>> /\ buffer' = Tail(buffer)
        /\ rawEvents \cup lost \cup Head(buffer) \subseteq rawEvents' \cup lost'
        /\ rawEvents' \cup lost' \subseteq rawEvents \cup lost \cup Head(buffer)
    BY DEF Deliver, GiveUp, handlerVars, filterVars
  <1>2. /\ buffer \in Seq(SUBSET Event) /\ Len(buffer) <= MaxBuffered /\ MaxBuffered \in Nat
        /\ {rawEvents, lost} \subseteq SUBSET Event
    BY GatewayAssumption DEF GatewayInv, GatewayTypeOK
  <1>3. Head(buffer) \in SUBSET Event /\ Tail(buffer) \in Seq(SUBSET Event)
        /\ Of(buffer) = {Head(buffer)} \cup Of(Tail(buffer))
    BY <1>1, <1>2, OfTail
  <1>4. Len(buffer') <= MaxBuffered
    BY <1>1, <1>2, HeadTailProperties, LenProperties
  <1>5. InBuffer = InBuffer' \cup Head(buffer)
    BY <1>1, <1>3 DEF InBuffer, Of
  <1>6. FilterInv'
    BY <1>1, FilterStays DEF GatewayInv
  <1>7. HandsInv'
    BY <1>1 DEF GatewayInv, HandsInv, Testing
  <1>8. GatewayTypeOK'
    BY <1>1, <1>2, <1>3, <1>4, <1>6 DEF GatewayInv, GatewayTypeOK, FilterInv
  <1>9. CoverGrows
    BY <1>1, <1>5 DEF CoverGrows, Covered, InHands
  <1>10. KnownIdsCovered'
    BY <1>1, <1>9, KnownStaysCovered DEF GatewayInv
  <1>11. QED
    BY <1>6, <1>7, <1>8, <1>9, <1>10 DEF GatewayInv

LEMMA RotateKeeps ==
  ASSUME GatewayInv, RotateFilter
  PROVE  GatewayInv' /\ CoverGrows
  <1>1. /\ UNCHANGED <<gateway, place, rest, new, buffer, rawEvents, lost, mistaken, adding>>
        /\ bloom' = {} /\ admitted' = [e \in Event |-> 0]
    BY DEF RotateFilter, Rotate, handlerVars, storeVars
  <1>2. FilterInv'
    BY <1>1, NewFilterKeeps DEF GatewayInv, FilterInv, FilterTypeOK
  <1>3. HandsInv'
    BY <1>1 DEF GatewayInv, HandsInv, Testing
  <1>4. GatewayTypeOK'
    BY <1>1, <1>2 DEF GatewayInv, GatewayTypeOK, FilterInv
  <1>5. CoverGrows
    BY <1>1 DEF CoverGrows, Covered, InHands, InBuffer
  <1>6. KnownIdsCovered'
    BY <1>1 DEF KnownIdsCovered
  <1>7. QED
    BY <1>2, <1>3, <1>4, <1>5, <1>6 DEF GatewayInv

(* Nothing changes but, at most, what main is doing.                       *)
LEMMA MainKeeps ==
  ASSUME GatewayInv, gateway' \in {"serving", "draining"},
         UNCHANGED <<filterVars, handlerVars, storeVars, mistaken>>
  PROVE  GatewayInv' /\ CoverGrows
  <1>1. UNCHANGED <<place, rest, new, buffer, rawEvents, lost, mistaken, bloom, adding>>
    BY DEF handlerVars, storeVars, filterVars
  <1>2. FilterInv'
    BY FilterStays DEF GatewayInv
  <1>3. HandsInv' /\ KnownIdsCovered' /\ CoverGrows
    BY <1>1 DEF GatewayInv, HandsInv, Testing, KnownIdsCovered, CoverGrows, Covered, InHands, InBuffer
  <1>4. GatewayTypeOK'
    BY <1>1, <1>2 DEF GatewayInv, GatewayTypeOK, FilterInv
  <1>5. QED
    BY <1>2, <1>3, <1>4 DEF GatewayInv

(* With the process go its hands and its buffer; all of it counts as lost. *)
LEMMA RestartKeeps ==
  ASSUME GatewayInv, Restart
  PROVE  GatewayInv' /\ CoverGrows
  <1>1. /\ gateway' = "serving" /\ lost' = lost \cup ((InBuffer \cup InHands) \ rawEvents)
        /\ buffer' = <<>> /\ place' = [h \in Handler |-> "free"]
        /\ rest' = [h \in Handler |-> <<>>] /\ new' = [h \in Handler |-> {}]
        /\ adding' = [h \in Handler |-> NoEvent]
        /\ bloom' = {} /\ admitted' = [e \in Event |-> 0] /\ UNCHANGED <<rawEvents, mistaken>>
    BY DEF Restart
  <1>2. FilterInv'
    BY <1>1, NewFilterKeeps
  <1>3. HandsInv' /\ KnownIdsCovered'
    BY <1>1 DEF HandsInv, KnownIdsCovered
  <1>4. lost' \in SUBSET Event
    <2>1. /\ buffer \in Seq(SUBSET Event) /\ new \in [Handler -> SUBSET Event] /\ lost \in SUBSET Event
      BY DEF GatewayInv, GatewayTypeOK
    <2>2. InBuffer \subseteq Event /\ InHands \subseteq Event
      BY <2>1 DEF InBuffer, InHands
    <2>3. QED
      BY <1>1, <2>1, <2>2
  <1>5. GatewayTypeOK'
    BY <1>1, <1>2, <1>4, GatewayAssumption DEF GatewayInv, GatewayTypeOK, FilterInv, HandlerPlaces
  <1>6. CoverGrows
    BY <1>1 DEF CoverGrows, Covered
  <1>7. QED
    BY <1>2, <1>3, <1>5, <1>6 DEF GatewayInv

LEMMA HandlerMovesKeeps ==
  ASSUME GatewayInv, NEW h \in Handler, HandlerMoves(h)
  PROVE  GatewayInv' /\ CoverGrows
  <1>1. CASE NothingNew(h)
    <2> DEFINE p == "answering"
    <2>1. /\ rest[h] = <<>> /\ new[h] = {} /\ p \in {"answering", "free"}
          /\ place' = [place EXCEPT ![h] = p]
          /\ UNCHANGED <<filterVars, gateway, rest, new, storeVars, mistaken>>
      BY <1>1 DEF NothingNew, Tested
    <2> HIDE DEF p
    <2>2. QED
      BY <2>1, PlaceKeeps
  <1>2. QED
    BY <1>1, FilterFindsKeeps, FilterMissesKeeps, FilterAddsKeeps, PublishKeeps DEF HandlerMoves

LEMMA AnswerKeeps ==
  ASSUME GatewayInv, NEW h \in Handler, Answer(h)
  PROVE  GatewayInv' /\ CoverGrows
  <1> DEFINE p == "free"
  <1>1. /\ p \in {"answering", "free"} /\ place' = [place EXCEPT ![h] = p]
        /\ UNCHANGED <<filterVars, gateway, rest, new, storeVars, mistaken>>
    BY DEF Answer
  <1>2. rest[h] = <<>> /\ new[h] = {}
    BY DEF Answer, GatewayInv, HandsInv
  <1> HIDE DEF p
  <1>3. QED
    BY <1>1, <1>2, PlaceKeeps

LEMMA HandleIngestKeeps ==
  ASSUME GatewayInv, NEW h \in Handler, NEW events \in Seq(Event), HandleIngest(h, events)
  PROVE  GatewayInv' /\ CoverGrows
  <1> DEFINE p == "testing"
             n == {}
  <1>1. p \in {"testing", "publishing"} /\ p = "testing" /\ n \in SUBSET Event /\ Begin(h, p, events, n)
    BY DEF HandleIngest
  <1> HIDE DEF p, n
  <1>2. QED
    BY <1>1, BeginKeeps

LEMMA OtherHandlersKeep ==
  ASSUME GatewayInv, NEW h \in Handler, HandleIdentify(h) \/ \E e \in Event : HandleTrack(h, e)
  PROVE  GatewayInv' /\ CoverGrows
  <1> DEFINE p == "publishing"
             r == <<>>
  <1>1. PICK n \in SUBSET Event : Begin(h, p, r, n)
    BY DEF HandleIdentify, HandleTrack
  <1>2. p \in {"testing", "publishing"} /\ r \in Seq(Event) /\ r = <<>>
    OBVIOUS
  <1> HIDE DEF p, r
  <1>3. QED
    BY <1>1, <1>2, BeginKeeps

(* Every step of the gateway keeps its invariant.                          *)
LEMMA GatewayKept ==
  ASSUME GatewayInv, [GatewayNext]_gatewayVars
  PROVE  GatewayInv' /\ CoverGrows
  <1>1. gateway \in {"serving", "draining"}
    BY DEF GatewayInv, GatewayTypeOK
  <1>2. CASE UNCHANGED gatewayVars
    BY <1>1, <1>2, MainKeeps DEF gatewayVars
  <1>3. CASE Shutdown
    BY <1>3, MainKeeps DEF Shutdown
  <1>4. CASE GatewayNext /\ ~Shutdown
    BY <1>4, HandlerMovesKeeps, AnswerKeeps, HandleIngestKeeps, OtherHandlersKeep, SettleKeeps,
       RotateKeeps, RestartKeeps DEF GatewayNext
  <1>5. QED
    BY <1>2, <1>3, <1>4

(* Within a window the filter calls an id new at most once per handler, and *)
(* no id is turned away whose event the gateway dropped: of any use of the  *)
(* gateway, not only the SDK's (bloom.go:57-69, main.go:319-346).           *)
THEOREM GatewayFilters == GatewaySpec => [](OncePerHandler /\ KnownIdsCovered)
  <1>1. GatewayInv /\ [GatewayNext]_gatewayVars => GatewayInv'
    BY GatewayKept
  <1>2. GatewayInv => OncePerHandler /\ KnownIdsCovered
    BY DEF GatewayInv, FilterInv
  <1>3. QED
    BY <1>1, <1>2, GatewayInitially, PTL DEF GatewaySpec

(***************************************************************************)
(* The SDK and its gateway.                                                *)
(***************************************************************************)

(* The SDK's own steps, and what they leave of other goroutines.           *)
LEMMA SdkKept ==
  ASSUME SdkTypeOK, [SdkNext]_sdkVars
  PROVE  SdkTypeOK'
  <1>1. /\ queue \in Seq(Event) /\ Len(queue) <= tracks /\ Len(queue) \in Nat
        /\ at \in [Sender -> SdkPlaces] /\ batch \in [Sender -> Seq(Event)]
        /\ stopped \in BOOLEAN /\ tracks \in 0..MaxTracks /\ MaxTracks \in Nat
    BY SdkAssumption, LenProperties DEF SdkTypeOK
  <1>2. App \subseteq Sender /\ Loop \in Sender /\ {"ready", "full", "posting", "joining", "ended"} = SdkPlaces
    BY DEF Sender, SdkPlaces
  <1>3. ASSUME NEW a \in App, NEW e \in Event, Track(a, e) PROVE SdkTypeOK'
    <2>1. Append(queue, e) \in Seq(Event) /\ Len(Append(queue, e)) = Len(queue) + 1
      BY <1>1, AppendProperties
    <2>2. tracks' = tracks + 1 /\ tracks' \in 0..MaxTracks
      BY <1>1, <1>3 DEF Track, CountTrack
    <2>3. at' \in [Sender -> SdkPlaces]
      <3>1. (IF Len(queue') >= MaxBatch THEN "full" ELSE "ready") \in SdkPlaces
        BY DEF SdkPlaces
      <3>2. at' = [at EXCEPT ![a] = IF Len(queue') >= MaxBatch THEN "full" ELSE "ready"]
        BY <1>3 DEF Track
      <3>3. QED
        BY <1>1, <3>1, <3>2
    <2>4. QED
      BY <1>1, <1>3, <2>1, <2>2, <2>3 DEF Track, SdkTypeOK
  <1>4. ASSUME NEW a \in App, NEW e \in Event, TrackNow(a, e) PROVE SdkTypeOK'
    <2>1. tracks' = tracks + 1 /\ tracks' \in 0..MaxTracks /\ <<e>> \in Seq(Event)
      BY <1>1, <1>4 DEF TrackNow, CountTrack
    <2>2. QED
      BY <1>1, <1>2, <1>4, <2>1 DEF TrackNow, SdkTypeOK
  <1>5. ASSUME NEW s \in Sender, Flush(s) PROVE SdkTypeOK'
    <2>1. /\ at' \in [Sender -> SdkPlaces] /\ batch' \in [Sender -> Seq(Event)]
          /\ queue' \in {queue, <<>>} /\ UNCHANGED <<stopped, tracks>>
      BY <1>1, <1>2, <1>5 DEF Flush
    <2>2. queue' \in Seq(Event) /\ Len(queue') <= tracks
      <3>1. CASE queue' = queue
        BY <1>1, <3>1
      <3>2. CASE queue' = <<>>
        BY <1>1, <3>2, EmptySeq
      <3>3. QED
        BY <2>1, <3>1, <3>2
    <2>3. QED
      BY <1>1, <2>1, <2>2 DEF SdkTypeOK
  <1>6. ASSUME NEW s \in Sender, PostReturns(s) PROVE SdkTypeOK'
    BY <1>1, <1>2, <1>6 DEF PostReturns, SdkTypeOK
  <1>7. ASSUME NEW a \in App, CallClose(a) \/ JoinReturns(a) PROVE SdkTypeOK'
    BY <1>1, <1>2, <1>7 DEF CallClose, JoinReturns, SdkTypeOK
  <1>8. CASE LoopStops
    BY <1>1, <1>2, <1>8 DEF LoopStops, SdkTypeOK
  <1>9. CASE UNCHANGED sdkVars
    BY <1>1, <1>9 DEF sdkVars, SdkTypeOK
  <1>10. QED
    BY <1>3, <1>4, <1>5, <1>6, <1>7, <1>8, <1>9 DEF SdkNext

(* What a client waits for goes on: the handler stays at its request, and  *)
(* an event it need no longer test is covered, or was mistaken.            *)
GoesOn(h) ==
  place[h] # "free" =>
    place'[h] # "free" /\ Of(rest[h]) \subseteq Of(rest'[h]) \cup Covered' \cup mistaken'

LEMMA OthersGoOn ==
  ASSUME NEW h \in Handler, place'[h] = place[h], rest'[h] = rest[h]
  PROVE  GoesOn(h)
  BY DEF GoesOn

LEMMA HandlerMovesGoOn ==
  ASSUME GatewayInv, NEW h \in Handler, HandlerMoves(h), NEW g \in Handler
  PROVE  GoesOn(g)
  <1>1. CoverGrows
    BY HandlerMovesKeeps
  <1>2. place \in [Handler -> HandlerPlaces] /\ rest \in [Handler -> Seq(Event)]
    BY DEF GatewayInv, GatewayTypeOK
  <1>3. CASE FilterMisses(h)
    BY <1>3, OthersGoOn DEF FilterMisses, handlerVars
  <1>4. CASE NothingNew(h) \/ Publish(h)
    BY <1>2, <1>4 DEF NothingNew, Publish, GoesOn
  <1>5. CASE FilterFinds(h) \/ FilterAdds(h)
    <2> DEFINE d == Head(rest[h])
    <2>1. /\ Testing(h) /\ place' = place /\ rest' = [rest EXCEPT ![h] = Tail(@)]
          /\ rest'[h] = Tail(rest[h])
      BY <1>2, <1>5 DEF FilterFinds, FilterAdds
    <2>2. d \in Covered' \cup mistaken'
      <3>1. CASE FilterFinds(h)
        <4>1. d \in bloom \/ d \in mistaken'
          BY <3>1 DEF FilterFinds
        <4>2. d \in bloom => d \in Covered'
          BY <1>1 DEF CoverGrows, Covered, GatewayInv, KnownIdsCovered
        <4>3. QED
          BY <4>1, <4>2
      <3>2. CASE FilterAdds(h)
        <4>1. new' = [new EXCEPT ![h] = @ \cup {d}] /\ new \in [Handler -> SUBSET Event]
          BY <3>2 DEF FilterAdds, GatewayInv, GatewayTypeOK
        <4>2. d \in new'[h]
          BY <4>1
        <4>3. QED
          BY <4>2 DEF Covered, InHands
      <3>3. QED
        BY <1>5, <3>1, <3>2
    <2>3. Of(rest[h]) = {d} \cup Of(rest'[h])
      BY <1>2, <2>1, OfTail DEF Testing
    <2>4. CASE g = h
      BY <2>1, <2>2, <2>3, <2>4 DEF GoesOn
    <2>5. CASE g # h
      BY <1>2, <2>1, <2>5, OthersGoOn
    <2>6. QED
      BY <2>4, <2>5
  <1>6. QED
    BY <1>3, <1>4, <1>5 DEF HandlerMoves

(* The goroutine that waits for a handler's answer is posting the batch    *)
(* that the handler works on; no two handlers answer the same.             *)
ClientInv ==
  \A h \in Handler : client[h] # NoSender =>
    /\ place[h] # "free" /\ at[client[h]] = "posting"
    /\ Of(batch[client[h]]) \subseteq Of(rest[h]) \cup Covered \cup mistaken

ClientsDiffer == \A g, h \in Handler : client[g] = client[h] /\ client[h] # NoSender => g = h

IngestInv == IngestTypeOK /\ GatewayInv /\ ClientInv /\ ClientsDiffer /\ AckedCovered

LEMMA IngestInitially == IngestInit => IngestInv
  <1> SUFFICES ASSUME IngestInit PROVE IngestInv
    OBVIOUS
  <1>1. GatewayInv
    BY GatewayInitially DEF IngestInit
  <1>2. SdkTypeOK
    <2>1. /\ queue = <<>> /\ tracks = 0 /\ at = [s \in Sender |-> "ready"]
          /\ batch = [s \in Sender |-> <<>>] /\ stopped = FALSE
      BY DEF IngestInit, SdkInit
    <2>2. queue \in Seq(Event) /\ Len(queue) <= tracks /\ batch \in [Sender -> Seq(Event)]
      BY <2>1, EmptySeq
    <2>3. at \in [Sender -> SdkPlaces] /\ stopped \in BOOLEAN /\ tracks \in 0..MaxTracks
      <3>1. MaxTracks \in Nat \ {0} /\ "ready" \in SdkPlaces
        BY SdkAssumption DEF SdkPlaces
      <3>2. at \in [Sender -> SdkPlaces]
        BY <2>1, <3>1
      <3>3. tracks \in 0..MaxTracks
        BY <2>1, <3>1
      <3>4. stopped \in BOOLEAN
        BY <2>1, Zenon
      <3>5. QED
        BY <3>2, <3>3, <3>4
    <2>4. QED
      BY <2>2, <2>3 DEF SdkTypeOK
  <1>3. client = [h \in Handler |-> NoSender] /\ acked = {}
    BY DEF IngestInit
  <1>4. IngestTypeOK
    BY <1>1, <1>2, <1>3 DEF IngestTypeOK, GatewayInv
  <1>5. ClientInv /\ ClientsDiffer /\ AckedCovered
    BY <1>3 DEF ClientInv, ClientsDiffer, AckedCovered
  <1>6. QED
    BY <1>1, <1>4, <1>5 DEF IngestInv

(* What was acknowledged stays covered.                                    *)
LEMMA AckedStaysCovered ==
  ASSUME AckedCovered, CoverGrows, acked' \subseteq acked \cup Covered' \cup mistaken'
  PROVE  AckedCovered'
  BY DEF AckedCovered, CoverGrows, Covered

(* A step of an SDK goroutine that is not posting.                         *)
LEMMA SdkStep ==
  ASSUME IngestInv, [SdkNext]_sdkVars, NEW s \in Sender, at[s] # "posting",
         \A q \in Sender : q # s => at'[q] = at[q] /\ batch'[q] = batch[q],
         UNCHANGED <<gatewayVars, client, acked>>
  PROVE  IngestInv'
  <1>1. SdkTypeOK'
    BY SdkKept DEF IngestInv, IngestTypeOK
  <1>2. GatewayInv' /\ CoverGrows
    BY GatewayKept DEF IngestInv
  <1>3. UNCHANGED <<place, rest, client, acked>>
    BY DEF gatewayVars, handlerVars
  <1>4. IngestTypeOK'
    BY <1>1, <1>2, <1>3 DEF IngestInv, IngestTypeOK, GatewayInv
  <1>5. ClientInv'
    <2> SUFFICES ASSUME NEW h \in Handler, client[h] # NoSender
                 PROVE  /\ place[h] # "free" /\ at'[client[h]] = "posting"
                        /\ Of(batch'[client[h]]) \subseteq Of(rest[h]) \cup Covered' \cup mistaken'
      BY <1>3 DEF ClientInv
    <2>1. client[h] \in Sender /\ client[h] # s
      BY DEF IngestInv, IngestTypeOK, ClientInv
    <2>2. QED
      BY <1>2, <2>1 DEF IngestInv, ClientInv, CoverGrows
  <1>6. ClientsDiffer' /\ AckedCovered'
    BY <1>2, <1>3, AckedStaysCovered DEF IngestInv, ClientsDiffer
  <1>7. QED
    BY <1>2, <1>4, <1>5, <1>6 DEF IngestInv

(* A step of the gateway that no client's answer depends on.               *)
LEMMA GatewayStep ==
  ASSUME IngestInv, [GatewayNext]_gatewayVars, UNCHANGED <<sdkVars, acked>>,
         \/ UNCHANGED client /\ \A h \in Handler : client[h] # NoSender => GoesOn(h)
         \/ client' = [h \in Handler |-> NoSender]
  PROVE  IngestInv'
  <1>1. GatewayInv' /\ CoverGrows
    BY GatewayKept DEF IngestInv
  <1>2. UNCHANGED <<at, batch>> /\ SdkTypeOK'
    BY SdkKept DEF IngestInv, IngestTypeOK, sdkVars
  <1>3. client' \in [Handler -> Sender \cup {NoSender}] /\ ClientsDiffer'
    BY DEF IngestInv, IngestTypeOK, ClientsDiffer
  <1>4. IngestTypeOK'
    BY <1>1, <1>2, <1>3 DEF IngestInv, IngestTypeOK, GatewayInv
  <1>5. ClientInv'
    <2>1. CASE client' = [h \in Handler |-> NoSender]
      BY <2>1 DEF ClientInv
    <2>2. CASE UNCHANGED client /\ \A h \in Handler : client[h] # NoSender => GoesOn(h)
      <3> SUFFICES ASSUME NEW h \in Handler, client[h] # NoSender
                   PROVE  /\ place'[h] # "free" /\ at[client[h]] = "posting"
                          /\ Of(batch[client[h]]) \subseteq Of(rest'[h]) \cup Covered' \cup mistaken'
        BY <1>2, <2>2 DEF ClientInv
      <3>1. QED
        BY <1>1, <2>2 DEF IngestInv, ClientInv, CoverGrows, GoesOn
    <2>3. QED
      BY <2>1, <2>2
  <1>6. AckedCovered'
    BY <1>1, AckedStaysCovered DEF IngestInv
  <1>7. QED
    BY <1>1, <1>3, <1>4, <1>5, <1>6 DEF IngestInv

(* The actions of Ingest, one by one.                                      *)
LEMMA SdkMovesKeep ==
  ASSUME IngestInv, NEW s \in Sender, SdkMoves(s)
  PROVE  IngestInv'
  <1>1. UNCHANGED <<gatewayVars, client, acked>> /\ [SdkNext]_sdkVars
    BY DEF SdkMoves, SdkNext
  <1>2. at[s] # "posting" /\ \A q \in Sender : q # s => at'[q] = at[q] /\ batch'[q] = batch[q]
    <2>1. at \in [Sender -> SdkPlaces] /\ batch \in [Sender -> Seq(Event)]
      BY DEF IngestInv, IngestTypeOK, SdkTypeOK
    <2>2. QED
      BY <2>1 DEF SdkMoves, Flush, LoopStops, CallClose, JoinReturns
  <1>3. QED
    BY <1>1, <1>2, SdkStep

LEMMA CallsKeep ==
  ASSUME IngestInv, NEW a \in App, NEW e \in Event, Calls(a, e)
  PROVE  IngestInv'
  <1>1. UNCHANGED <<gatewayVars, client, acked>> /\ [SdkNext]_sdkVars /\ a \in Sender
    BY DEF Calls, SdkNext, Sender
  <1>2. at[a] # "posting" /\ \A q \in Sender : q # a => at'[q] = at[q] /\ batch'[q] = batch[q]
    <2>1. at \in [Sender -> SdkPlaces] /\ batch \in [Sender -> Seq(Event)]
      BY DEF IngestInv, IngestTypeOK, SdkTypeOK
    <2>2. QED
      BY <2>1 DEF Calls, Track, TrackNow
  <1>3. QED
    BY <1>1, <1>2, SdkStep

(* A request arrives: its handler has the whole batch to test.             *)
LEMMA ReceiveKeeps ==
  ASSUME IngestInv, NEW s \in Sender, NEW h \in Handler, Receive(s, h)
  PROVE  IngestInv'
  <1>1. /\ at[s] = "posting" /\ ~Waiting(s) /\ HandleIngest(h, batch[s])
        /\ client' = [client EXCEPT ![h] = s] /\ UNCHANGED <<sdkVars, acked>>
    BY DEF Receive
  <1>2. client \in [Handler -> Sender \cup {NoSender}] /\ batch[s] \in Seq(Event) /\ s # NoSender
    BY IngestAssumption DEF IngestInv, IngestTypeOK, SdkTypeOK
  <1>3. GatewayInv' /\ CoverGrows
    BY <1>1, <1>2, HandleIngestKeeps DEF IngestInv
  <1>4. /\ place' = [place EXCEPT ![h] = "testing"] /\ rest' = [rest EXCEPT ![h] = batch[s]]
        /\ place \in [Handler -> HandlerPlaces] /\ rest \in [Handler -> Seq(Event)]
    BY <1>1 DEF HandleIngest, Begin, IngestInv, GatewayInv, GatewayTypeOK
  <1>5. UNCHANGED <<at, batch>> /\ SdkTypeOK'
    BY <1>1, SdkKept DEF IngestInv, IngestTypeOK, sdkVars
  <1>6. IngestTypeOK'
    BY <1>1, <1>2, <1>3, <1>5 DEF IngestInv, IngestTypeOK, GatewayInv
  <1>7. ClientInv'
    <2> SUFFICES ASSUME NEW g \in Handler, client'[g] # NoSender
                 PROVE  /\ place'[g] # "free" /\ at[client'[g]] = "posting"
                        /\ Of(batch[client'[g]]) \subseteq Of(rest'[g]) \cup Covered' \cup mistaken'
      BY <1>5 DEF ClientInv
    <2>1. CASE g = h
      BY <1>1, <1>2, <1>4, <2>1
    <2>2. CASE g # h
      BY <1>1, <1>2, <1>3, <1>4, <2>2 DEF IngestInv, ClientInv, CoverGrows
    <2>3. QED
      BY <2>1, <2>2
  <1>8. ClientsDiffer'
    BY <1>1, <1>2 DEF IngestInv, ClientsDiffer, Waiting
  <1>9. AckedCovered'
    BY <1>1, <1>3, AckedStaysCovered DEF IngestInv
  <1>10. QED
    BY <1>3, <1>6, <1>7, <1>8, <1>9 DEF IngestInv

(* A goroutine stops waiting: its place and batch concern no handler then. *)
LEMMA StopWaiting ==
  ASSUME IngestInv, NEW s \in Sender, PostReturns(s), GatewayInv', CoverGrows,
         client' = [h \in Handler |-> IF client[h] = s THEN NoSender ELSE client[h]],
         acked' \subseteq Event, acked' \subseteq acked \cup Covered' \cup mistaken',
         \A h \in Handler : client'[h] # NoSender => GoesOn(h)
  PROVE  IngestInv'
  <1>1. /\ at \in [Sender -> SdkPlaces] /\ batch \in [Sender -> Seq(Event)]
        /\ client \in [Handler -> Sender \cup {NoSender}]
    BY DEF IngestInv, IngestTypeOK, SdkTypeOK
  <1>2. \A q \in Sender : q # s => at'[q] = at[q] /\ batch'[q] = batch[q]
    BY <1>1 DEF PostReturns
  <1>3. SdkTypeOK'
    BY SdkKept DEF IngestInv, IngestTypeOK, SdkNext
  <1>4. IngestTypeOK'
    BY <1>1, <1>3 DEF IngestTypeOK, GatewayInv
  <1>5. ClientInv'
    <2> SUFFICES ASSUME NEW h \in Handler, client'[h] # NoSender
                 PROVE  /\ place'[h] # "free" /\ at'[client'[h]] = "posting"
                        /\ Of(batch'[client'[h]]) \subseteq Of(rest'[h]) \cup Covered' \cup mistaken'
      BY DEF ClientInv
    <2>1. client'[h] = client[h] /\ client[h] # s /\ client[h] \in Sender
      BY <1>1
    <2>2. at'[client[h]] = at[client[h]] /\ batch'[client[h]] = batch[client[h]]
      BY <1>2, <2>1
    <2>3. /\ place[h] # "free" /\ at[client[h]] = "posting"
          /\ Of(batch[client[h]]) \subseteq Of(rest[h]) \cup Covered \cup mistaken
      BY <2>1 DEF IngestInv, ClientInv
    <2>4. GoesOn(h)
      OBVIOUS
    <2>5. QED
      BY <2>1, <2>2, <2>3, <2>4 DEF GoesOn, CoverGrows
  <1>6. ClientsDiffer'
    BY <1>1 DEF IngestInv, ClientsDiffer
  <1>7. AckedCovered'
    BY AckedStaysCovered DEF IngestInv
  <1>8. QED
    BY <1>4, <1>5, <1>6, <1>7 DEF IngestInv

LEMMA PostFailsKeeps ==
  ASSUME IngestInv, NEW s \in Sender, PostFails(s)
  PROVE  IngestInv'
  <1>1. GatewayInv' /\ CoverGrows
    BY GatewayKept DEF IngestInv, PostFails
  <1>2. UNCHANGED <<place, rest, acked>>
    BY DEF PostFails, gatewayVars, handlerVars
  <1>3. \A h \in Handler : GoesOn(h)
    BY <1>2, OthersGoOn
  <1>4. acked' \subseteq Event /\ acked' \subseteq acked
    BY <1>2 DEF IngestInv, IngestTypeOK
  <1>5. QED
    BY <1>1, <1>3, <1>4, StopWaiting DEF PostFails

(* The answer reaches the client: every event of its batch is tested, and  *)
(* so covered or mistaken.                                                 *)
LEMMA ReplyKeeps ==
  ASSUME IngestInv, NEW h \in Handler, Reply(h)
  PROVE  IngestInv'
  <1>1. Answer(h) /\ GatewayInv' /\ CoverGrows
    BY AnswerKeeps DEF IngestInv, Reply
  <1>2. /\ client \in [Handler -> Sender \cup {NoSender}] /\ client' = [client EXCEPT ![h] = NoSender]
        /\ place \in [Handler -> HandlerPlaces] /\ batch \in [Sender -> Seq(Event)]
    BY DEF IngestInv, IngestTypeOK, Reply, GatewayInv, GatewayTypeOK, SdkTypeOK
  <1>3. ASSUME NEW g \in Handler, g # h PROVE GoesOn(g)
    <2>1. place' = [place EXCEPT ![h] = "free"] /\ rest' = rest
      BY <1>1 DEF Answer
    <2>2. QED
      BY <1>2, <1>3, <2>1, OthersGoOn
  <1>4. CASE client[h] = NoSender
    <2>1. UNCHANGED <<sdkVars, acked, client>>
      BY <1>2, <1>4 DEF Reply
    <2>2. [GatewayNext]_gatewayVars
      BY <1>1 DEF GatewayNext
    <2>3. \A g \in Handler : client[g] # NoSender => GoesOn(g)
      BY <1>3, <1>4
    <2>4. QED
      BY <2>1, <2>2, <2>3, GatewayStep
  <1>5. CASE client[h] # NoSender
    <2> DEFINE s == client[h]
    <2>1. s \in Sender /\ PostReturns(s) /\ acked' = acked \cup Of(batch[s])
      BY <1>2, <1>5 DEF Reply, Of
    <2>2. client' = [g \in Handler |-> IF client[g] = s THEN NoSender ELSE client[g]]
      BY <1>2, <1>5 DEF IngestInv, ClientsDiffer
    <2>3. Of(batch[s]) \subseteq Covered' \cup mistaken'
      <3>1. rest[h] = <<>>
        BY <1>1 DEF Answer, IngestInv, GatewayInv, HandsInv
      <3>2. Of(rest[h]) = {}
        BY <3>1 DEF Of
      <3>3. QED
        BY <1>1, <1>5, <3>2 DEF IngestInv, ClientInv, CoverGrows
    <2>4. Of(batch[s]) \subseteq Event
      BY <1>2, <2>1 DEF Of
    <2>5. acked' \subseteq Event /\ acked' \subseteq acked \cup Covered' \cup mistaken'
      BY <2>1, <2>3, <2>4 DEF IngestInv, IngestTypeOK
    <2>6. \A g \in Handler : client'[g] # NoSender => GoesOn(g)
      BY <1>2, <1>3
    <2> HIDE DEF s
    <2>7. QED
      BY <1>1, <2>1, <2>2, <2>5, <2>6, StopWaiting
  <1>6. QED
    BY <1>4, <1>5

LEMMA ServeKeeps ==
  ASSUME IngestInv, NEW h \in Handler, Serve(h)
  PROVE  IngestInv'
  <1>1. HandlerMoves(h) /\ UNCHANGED <<sdkVars, client, acked>> /\ GatewayInv
    BY DEF Serve, IngestInv
  <1>2. \A g \in Handler : GoesOn(g)
    BY <1>1, HandlerMovesGoOn
  <1>3. [GatewayNext]_gatewayVars
    BY <1>1 DEF GatewayNext
  <1>4. QED
    BY <1>1, <1>2, <1>3, GatewayStep

(* Another client's request takes a handler that nobody waits for.         *)
LEMMA OtherRequestKeeps ==
  ASSUME IngestInv, NEW h \in Handler, OtherRequest(h)
  PROVE  IngestInv'
  <1>1. /\ UNCHANGED <<sdkVars, client, acked>> /\ [GatewayNext]_gatewayVars
        /\ HandleIdentify(h) \/ \E e \in Event : HandleTrack(h, e)
    BY DEF OtherRequest, GatewayNext
  <1>2. /\ place[h] = "free"
        /\ \A g \in Handler : g # h => place'[g] = place[g] /\ rest'[g] = rest[g]
    BY <1>1 DEF HandleIdentify, HandleTrack, Begin, IngestInv, GatewayInv, GatewayTypeOK
  <1>3. \A g \in Handler : client[g] # NoSender => GoesOn(g)
    BY <1>2, OthersGoOn DEF IngestInv, ClientInv
  <1>4. QED
    BY <1>1, <1>3, GatewayStep

(* Steps of the producer, the filter's rotation and main leave the         *)
(* handlers where they are; the end of the process ends every wait.        *)
LEMMA BackgroundKeeps ==
  ASSUME IngestInv, ProducerMoves \/ GatewayMoves \/ EndProcess
  PROVE  IngestInv'
  <1>1. UNCHANGED <<sdkVars, acked>> /\ [GatewayNext]_gatewayVars
    BY DEF ProducerMoves, GatewayMoves, EndProcess, GatewayNext
  <1>2. CASE ProducerMoves \/ GatewayMoves
    <2>1. UNCHANGED <<place, rest, client>>
      BY <1>2 DEF ProducerMoves, GatewayMoves, Deliver, GiveUp, RotateFilter, Shutdown, handlerVars
    <2>2. \A g \in Handler : GoesOn(g)
      BY <2>1, OthersGoOn
    <2>3. QED
      BY <1>1, <2>1, <2>2, GatewayStep
  <1>3. CASE EndProcess
    BY <1>1, <1>3, GatewayStep DEF EndProcess
  <1>4. QED
    BY <1>2, <1>3

LEMMA IngestKept ==
  ASSUME IngestInv, [IngestNext]_ingestVars
  PROVE  IngestInv'
  <1>1. CASE UNCHANGED ingestVars
    <2>1. UNCHANGED <<sdkVars, gatewayVars, client, acked, place, rest>>
      BY <1>1 DEF ingestVars, gatewayVars, handlerVars
    <2>2. \A g \in Handler : GoesOn(g)
      BY <2>1, OthersGoOn
    <2>3. QED
      BY <2>1, <2>2, GatewayStep
  <1>2. CASE IngestNext
    BY <1>2, SdkMovesKeep, CallsKeep, ReceiveKeeps, PostFailsKeeps, ReplyKeeps, ServeKeeps,
       OtherRequestKeeps, BackgroundKeeps DEF IngestNext
  <1>3. QED
    BY <1>1, <1>2

LEMMA IngestAlways == IngestSpec => []IngestInv
  <1>1. IngestInv /\ [IngestNext]_ingestVars => IngestInv'
    BY IngestKept
  <1>2. QED
    BY <1>1, IngestInitially, PTL DEF IngestSpec

(***************************************************************************)
(* The theorems.                                                           *)
(***************************************************************************)

(* SDK, handlers, filter and producer keep their types, and the producer   *)
(* its limit.                                                              *)
THEOREM IngestTypeCorrect == IngestSpec => []IngestTypeOK
  <1>1. IngestInv => IngestTypeOK
    BY DEF IngestInv
  <1>2. QED
    BY <1>1, IngestAlways, PTL

(* Of two requests with one event id that race, each handler lets it pass  *)
(* at most once in a window (bloom.go:57-69).                              *)
THEOREM FilterPassesOncePerHandler == IngestSpec => []OncePerHandler
  <1>1. IngestInv => OncePerHandler
    BY DEF IngestInv, GatewayInv, FilterInv
  <1>2. QED
    BY <1>1, IngestAlways, PTL

(* The filter turns away only events that are on their way or that the     *)
(* producer lost (main.go:319-346).                                        *)
THEOREM KnownIdsAlwaysCovered == IngestSpec => []KnownIdsCovered
  <1>1. IngestInv => KnownIdsCovered
    BY DEF IngestInv, GatewayInv
  <1>2. QED
    BY <1>1, IngestAlways, PTL

(* So does the gateway's 202, but for the filter's mistakes                *)
(* (main.go:370-377).                                                      *)
THEOREM AckedAlwaysCovered == IngestSpec => []AckedCovered
  <1>1. IngestInv => AckedCovered
    BY DEF IngestInv
  <1>2. QED
    BY <1>1, IngestAlways, PTL

=============================================================================
