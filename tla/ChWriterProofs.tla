--------------------------- MODULE ChWriterProofs ---------------------------
(***************************************************************************)
(* First BatchWriter alone, for any rows and any buffer size: its type     *)
(* invariant, the backpressure gauge, and the loop that stops only when it *)
(* has drained. Then the writer service, for any partition and number of   *)
(* restarts: the same holds across the processes that end and start, and   *)
(* rows keep their order and are accounted for.                            *)
(***************************************************************************)
EXTENDS ChWriter, SequenceTheorems, TLAPS


(* What the loop knows at each of its places: at the outer select there is *)
(* room in the batch, it holds a row only after a receive, and once it     *)
(* inserts the remainder the channel is closed and empty.                  *)
LoopKnows ==
  /\ loop \in {"select", "received"} => Len(buf) < BufSize
  /\ loop = "received" <=> held # NoRow
  /\ loop \in {"lastFlush", "stopped"} => closed /\ ch = <<>>
  /\ loop = "stopped" => buf = <<>>

WriterInv == WriterTypeOK /\ LoopKnows /\ PendingFollowsQueue

(* A new writer satisfies the invariant: nothing is queued or pending.     *)
LEMMA WriterInitInv == WriterInit => WriterInv
<1> SUFFICES ASSUME WriterInit PROVE WriterInv
  OBVIOUS
<1>1. ch \in Seq(Rows) /\ Len(ch) = 0 /\ buf \in Seq(Rows) /\ Len(buf) = 0
  BY DEF WriterInit
<1>2. WriterTypeOK
  <2>1. closed \in BOOLEAN /\ tick \in BOOLEAN
    BY Zenon DEF WriterInit
  <2>2. /\ Len(ch) <= BufSize /\ Len(buf) <= BufSize
        /\ pending \in Int /\ sent \in 0..1
    BY <1>1, WriterAssumption DEF WriterInit
  <2>3. loop \in LoopPlaces /\ held \in Rows \cup {NoRow}
    BY DEF WriterInit, LoopPlaces
  <2> QED
    BY <1>1, <2>1, <2>2, <2>3 DEF WriterTypeOK
<1>3. LoopKnows
  BY <1>1, WriterAssumption DEF WriterInit, LoopKnows
<1>4. PendingFollowsQueue
  BY <1>1 DEF WriterInit, PendingFollowsQueue
<1> QED
  BY <1>2, <1>3, <1>4 DEF WriterInv

(* Taking the head of the channel into the loop's hand keeps everything    *)
(* but the place; the gauge is behind by one until CountReceived.          *)
LEMMA TakeHeadKeepsInv ==
  ASSUME WriterInv, ch # <<>>, loop \in {"select", "drain"}, Len(buf) < BufSize,
         held' = Head(ch), ch' = Tail(ch), loop' = "received",
         UNCHANGED <<closed, pending, sent, tick, buf>>
  PROVE  WriterInv'
<1> USE WriterAssumption DEF WriterInv, WriterTypeOK
<1>1. Head(ch) \in Rows /\ Tail(ch) \in Seq(Rows) /\ Len(Tail(ch)) = Len(ch) - 1
  OBVIOUS
<1>2. WriterTypeOK'
  BY <1>1 DEF LoopPlaces
<1>3. LoopKnows'
  BY <1>1 DEF LoopKnows
<1>4. PendingFollowsQueue'
  <2>1. pending = Len(ch) - sent
    BY DEF PendingFollowsQueue
  <2>2. pending = Len(Tail(ch)) - sent + 1
    BY <1>1, <2>1
  <2> QED
    BY <2>2 DEF PendingFollowsQueue
<1> QED
  BY <1>2, <1>3, <1>4

(* Every step of Write, loop, doFlush and Stop preserves it.               *)
LEMMA WriterInvStep ==
  ASSUME WriterInv, [WriterNext]_writerVars
  PROVE  WriterInv'
<1> USE WriterAssumption DEF WriterInv
<1>1. CASE UNCHANGED writerVars
  BY <1>1 DEF writerVars, WriterTypeOK, LoopKnows, PendingFollowsQueue
<1>2. ASSUME NEW r \in Rows, Send(r)
      PROVE  WriterInv'
  <2>1. ch' \in Seq(Rows) /\ Len(ch') = Len(ch) + 1
    BY <1>2 DEF Send, WriterTypeOK
  <2>2. WriterTypeOK'
    BY <1>2, <2>1 DEF Send, WriterTypeOK
  <2>3. LoopKnows'
    BY <1>2 DEF Send, LoopKnows
  <2>4. PendingFollowsQueue'
    BY <1>2, <2>1 DEF Send, PendingFollowsQueue, WriterTypeOK
  <2> QED
    BY <2>2, <2>3, <2>4
<1>3. CASE Drop
  BY <1>3 DEF Drop, writerVars, WriterTypeOK, LoopKnows, PendingFollowsQueue
<1>4. CASE CountSent
  BY <1>4 DEF CountSent, WriterTypeOK, LoopKnows, PendingFollowsQueue
<1>5. CASE Receive
  BY <1>5, TakeHeadKeepsInv DEF Receive, LoopKnows
<1>6. CASE CountReceived
  <2>1. held \in Rows
    BY <1>6 DEF CountReceived, LoopKnows, WriterTypeOK
  <2>2. buf' \in Seq(Rows) /\ Len(buf') = Len(buf) + 1
    BY <1>6, <2>1 DEF CountReceived, WriterTypeOK
  <2>3. WriterTypeOK'
    BY <1>6, <2>2 DEF CountReceived, LoopKnows, WriterTypeOK, LoopPlaces
  <2>4. LoopKnows'
    BY <1>6 DEF CountReceived, LoopKnows
  <2>5. PendingFollowsQueue'
    BY <1>6 DEF CountReceived, PendingFollowsQueue, WriterTypeOK
  <2> QED
    BY <2>3, <2>4, <2>5
<1>7. CASE DrainReceive
  BY <1>7, TakeHeadKeepsInv DEF DrainReceive
<1>8. CASE DrainEnd
  BY <1>8 DEF DrainEnd, WriterTypeOK, LoopKnows, PendingFollowsQueue, LoopPlaces
<1>9. CASE TakeTick
  BY <1>9 DEF TakeTick, WriterTypeOK, LoopKnows, PendingFollowsQueue, LoopPlaces
<1>10. CASE SeeClosed
  BY <1>10 DEF SeeClosed, WriterTypeOK, LoopKnows, PendingFollowsQueue, LoopPlaces
<1>11. CASE Flush
  <2>1. buf' \in Seq(Rows) /\ Len(buf') = 0
    BY <1>11 DEF Flush
  <2> QED
    BY <1>11, <2>1 DEF Flush, WriterTypeOK, LoopKnows, PendingFollowsQueue, LoopPlaces
<1>12. CASE Tick \/ Close
  BY <1>12 DEF Tick, Close, WriterTypeOK, LoopKnows, PendingFollowsQueue
<1> QED
  BY <1>1, <1>2, <1>3, <1>4, <1>5, <1>6, <1>7, <1>8, <1>9, <1>10, <1>11, <1>12
     DEF WriterNext, LoopStep

(* So it holds in every reachable state of the writer.                     *)
LEMMA WriterInvInductive == WriterSpec => []WriterInv
  BY WriterInitInv, WriterInvStep, PTL DEF WriterSpec

(* And it has the three properties the runs check.                         *)
LEMMA WriterInvImplies == WriterInv => WriterTypeOK /\ PendingFollowsQueue /\ StoppedIsDrained
  BY DEF WriterInv, WriterTypeOK, LoopKnows, StoppedIsDrained

(* Channel and batch stay within BufSize and hold rows only.               *)
THEOREM WriterTypeCorrect == WriterSpec => []WriterTypeOK
  BY WriterInvInductive, WriterInvImplies, PTL

(* PendingCount never drifts from the channel's length.                    *)
THEOREM PendingAlwaysFollowsQueue == WriterSpec => []PendingFollowsQueue
  BY WriterInvInductive, WriterInvImplies, PTL

(* Stop's wait on done ends only when no accepted row is left in memory.   *)
THEOREM StoppedAlwaysDrained == WriterSpec => []StoppedIsDrained
  BY WriterInvInductive, WriterInvImplies, PTL

-----------------------------------------------------------------------------
(* The service.                                                            *)


(* A step of the service is a step of the writer, leaves it alone, or      *)
(* ends the process and with it the writer.                                *)
LEMMA ServiceStepOnWriter ==
  ASSUME [ChWriterNext]_chWriterVars
  PROVE  [WriterNext]_writerVars \/ WriterInit'
<1>1. CASE UNCHANGED chWriterVars
  BY <1>1 DEF chWriterVars
<1>2. CASE ConsumerStep
  <2>1. CASE CheckContext \/ Poll \/ HandledAll \/ Commit
    BY <2>1 DEF CheckContext, Poll, HandledAll, Commit
  <2>2. CASE WriteReturns
    BY <2>2 DEF WriteReturns, WriterNext
  <2>3. ASSUME NEW r \in Rows, Skip(r) \/ WriteSends(r) \/ WriteDrops(r)
        PROVE  [WriterNext]_writerVars
    BY <2>3 DEF Skip, WriteSends, WriteDrops, WriterNext
  <2>4. CASE WritePanics
    BY <2>4 DEF WritePanics, EndProcess, WriterInit
  <2> QED
    BY <1>2, <2>1, <2>2, <2>3, <2>4 DEF ConsumerStep
<1>3. CASE WriterLoopStep
  BY <1>3 DEF WriterLoopStep, LoopRuns, Insert, WriterNext, LoopStep
<1>4. CASE MainStep \/ DeferredStopPanics
  BY <1>4 DEF MainStep, StopCloses, StopReturns, DeferredStopPanics, EndProcess,
     WriterNext, WriterInit
<1>5. CASE TickerFires \/ Signal \/ Start
  BY <1>5 DEF TickerFires, Signal, Start, WriterNext
<1>6. CASE Kill
  BY <1>6 DEF Kill, EndProcess, WriterInit
<1> QED
  BY <1>1, <1>2, <1>3, <1>4, <1>5, <1>6 DEF ChWriterNext

(* The facts about one writer hold of the service: the gauge follows the   *)
(* channel and a stopped loop has drained, whatever restarts lie between.  *)
THEOREM ServiceKeepsWriter ==
  ChWriterSpec => [](WriterTypeOK /\ PendingFollowsQueue /\ StoppedIsDrained)
<1>1. ChWriterInit => WriterInv
  BY WriterInitInv DEF ChWriterInit
<1>2. WriterInit' => WriterInv'
  BY WriterInitInv, PTL
<1>3. WriterInv /\ [ChWriterNext]_chWriterVars => WriterInv'
  BY <1>2, ServiceStepOnWriter, WriterInvStep
<1> QED
  BY <1>1, <1>3, WriterInvImplies, PTL DEF ChWriterSpec
-----------------------------------------------------------------------------
(* The rows in memory, as a function of the writer's variables: a row      *)
(* that the loop takes from the channel only changes its place, a row sent *)
(* is the last, and an insert removes the batch in front.                  *)

Piped(b, h, c) == b \o (IF h = NoRow THEN <<>> ELSE <<h>>) \o c

\* Pipeline is a sequence of rows.
LEMMA PipedType ==
  ASSUME NEW b \in Seq(Rows), NEW h \in Rows \cup {NoRow}, NEW c \in Seq(Rows)
  PROVE  Piped(b, h, c) \in Seq(Rows)
<1> DEFINE hand == IF h = NoRow THEN <<>> ELSE <<h>>
<1>1. hand \in Seq(Rows)
  BY EmptySeq
<1>2. b \o hand \in Seq(Rows)
  BY <1>1, ConcatProperties
<1> HIDE DEF hand
<1>3. (b \o hand) \o c \in Seq(Rows)
  BY <1>2, ConcatProperties
<1> QED
  BY <1>3 DEF Piped, hand

\* With nothing in the loop's hand it is the batch, then the channel.
LEMMA PipedEmptyHand ==
  ASSUME NEW b \in Seq(Rows), NEW c \in Seq(Rows)
  PROVE  Piped(b, NoRow, c) = b \o c
<1>1. b \o <<>> = b
  BY ConcatEmptySeq
<1> QED
  BY <1>1 DEF Piped

\* Receive and DrainReceive: the channel's head moves into the hand.
LEMMA PipedReceive ==
  ASSUME NEW b \in Seq(Rows), NEW c \in Seq(Rows), c # <<>>
  PROVE  Piped(b, Head(c), Tail(c)) = Piped(b, NoRow, c)
<1> DEFINE t == Tail(c)
<1>1. Head(c) \in Rows /\ t \in Seq(Rows) /\ Head(c) # NoRow
  BY HeadTailProperties, WriterAssumption
<1>2. <<Head(c)>> \in Seq(Rows) /\ Len(<<Head(c)>>) = 1 /\ <<Head(c)>>[1] = Head(c)
  BY <1>1
<1>3. <<Head(c)>> \o t = c
  <2>1. /\ <<Head(c)>> \o t \in Seq(Rows)
        /\ Len(<<Head(c)>> \o t) = 1 + Len(t)
        /\ \A i \in 1 .. 1 + Len(t) :
             (<<Head(c)>> \o t)[i] = IF i <= 1 THEN Head(c) ELSE t[i - 1]
    BY <1>1, <1>2, ConcatProperties
  <2>2. Len(t) = Len(c) - 1 /\ \A i \in 1 .. Len(t) : t[i] = c[i + 1]
    BY HeadTailProperties
  <2>3. Head(c) = c[1] /\ Len(c) \in Nat
    OBVIOUS
  <2> HIDE DEF t
  <2>4. ASSUME NEW i \in 1 .. 1 + Len(t) PROVE (<<Head(c)>> \o t)[i] = c[i]
    <3>1. CASE i = 1
      BY <2>1, <2>3, <3>1
    <3>2. CASE i > 1
      <4>1. Len(t) \in Nat /\ i - 1 \in 1 .. Len(t)
        BY <1>1, <3>2
      <4>2. t[i - 1] = c[i]
        BY <2>2, <4>1
      <4> QED
        BY <2>1, <3>2, <4>2
    <3> QED
      BY <3>1, <3>2
  <2> DEFINE u == <<Head(c)>> \o t
  <2>5. u \in Seq(Rows) /\ Len(u) = Len(c) /\ \A i \in 1 .. Len(u) : u[i] = c[i]
    BY <2>1, <2>2, <2>3, <2>4
  <2> HIDE DEF u
  <2>6. u = c
    BY <2>5, SeqEqual
  <2> QED
    BY <2>6 DEF u
<1> HIDE DEF t
<1>4. (b \o <<Head(c)>>) \o t = b \o (<<Head(c)>> \o t)
  BY <1>1, <1>2, ConcatAssociative
<1>5. Piped(b, Head(c), t) = (b \o <<Head(c)>>) \o t
  BY <1>1 DEF Piped
<1> QED
  BY <1>3, <1>4, <1>5, PipedEmptyHand DEF t

\* CountReceived: the row in the hand becomes the batch's last.
LEMMA PipedCollect ==
  ASSUME NEW b \in Seq(Rows), NEW h \in Rows, NEW c \in Seq(Rows)
  PROVE  Piped(Append(b, h), NoRow, c) = Piped(b, h, c)
<1>1. Append(b, h) = b \o <<h>> /\ Append(b, h) \in Seq(Rows)
  BY AppendIsConcat, AppendProperties
<1>2. h # NoRow
  BY WriterAssumption
<1> QED
  BY <1>1, <1>2, PipedEmptyHand DEF Piped

\* Send: the row sent is the last in memory.
LEMMA PipedSend ==
  ASSUME NEW b \in Seq(Rows), NEW h \in Rows \cup {NoRow}, NEW c \in Seq(Rows), NEW r \in Rows
  PROVE  Piped(b, h, Append(c, r)) = Append(Piped(b, h, c), r)
<1> DEFINE hand == IF h = NoRow THEN <<>> ELSE <<h>>
<1>1. hand \in Seq(Rows)
  BY EmptySeq
<1> HIDE DEF hand
<1>2. b \o hand \in Seq(Rows)
  BY <1>1, ConcatProperties
<1>3. Append(c, r) = c \o <<r>> /\ <<r>> \in Seq(Rows)
  BY AppendIsConcat
<1>4. ((b \o hand) \o c) \o <<r>> = (b \o hand) \o (c \o <<r>>)
  BY <1>2, <1>3, ConcatAssociative
<1>5. (b \o hand) \o c \in Seq(Rows)
  BY <1>2, ConcatProperties
<1>6. Append((b \o hand) \o c, r) = ((b \o hand) \o c) \o <<r>>
  BY <1>5, AppendIsConcat
<1> QED
  BY <1>3, <1>4, <1>6 DEF Piped, hand

\* The elements of a sequence, by position.
LEMMA ToSetOf ==
  ASSUME NEW S, NEW s \in Seq(S)
  PROVE  ToSet(s) = {s[i] : i \in 1 .. Len(s)}
BY LenProperties DEF ToSet

\* The elements of an extended, a joined and an empty sequence.
LEMMA ToSetAppend ==
  ASSUME NEW s \in Seq(Rows), NEW r \in Rows
  PROVE  ToSet(Append(s, r)) = ToSet(s) \cup {r}
<1> DEFINE t == Append(s, r)
<1>1. /\ t \in Seq(Rows) /\ Len(t) = Len(s) + 1 /\ t[Len(s) + 1] = r
      /\ \A i \in 1 .. Len(s) : t[i] = s[i]
      /\ Len(s) \in Nat
  BY AppendProperties, LenProperties
<1> HIDE DEF t
<1>2. ToSet(t) = {t[i] : i \in 1 .. Len(t)} /\ ToSet(s) = {s[i] : i \in 1 .. Len(s)}
  BY <1>1, ToSetOf
<1>3. 1 .. Len(s) \subseteq 1 .. Len(t) /\ Len(s) + 1 \in 1 .. Len(t)
  BY <1>1
<1>4. ToSet(s) \cup {r} \subseteq ToSet(t)
  BY <1>1, <1>2, <1>3
<1>5. \A i \in 1 .. Len(t) : i \in 1 .. Len(s) \/ i = Len(s) + 1
  BY <1>1
<1>6. ToSet(t) \subseteq ToSet(s) \cup {r}
  BY <1>1, <1>2, <1>5
<1> QED
  BY <1>4, <1>6 DEF t

LEMMA ToSetConcat ==
  ASSUME NEW b \in Seq(Rows), NEW c \in Seq(Rows)
  PROVE  ToSet(b \o c) = ToSet(b) \cup ToSet(c)
<1> DEFINE t == b \o c
<1>1. /\ t \in Seq(Rows) /\ Len(t) = Len(b) + Len(c)
      /\ \A i \in 1 .. Len(b) + Len(c) : t[i] = IF i <= Len(b) THEN b[i] ELSE c[i - Len(b)]
      /\ Len(b) \in Nat /\ Len(c) \in Nat
  BY ConcatProperties, LenProperties
<1> HIDE DEF t
<1>2. /\ ToSet(t) = {t[i] : i \in 1 .. Len(t)}
      /\ ToSet(b) = {b[i] : i \in 1 .. Len(b)} /\ ToSet(c) = {c[i] : i \in 1 .. Len(c)}
  BY <1>1, ToSetOf
<1>3. ASSUME NEW i \in 1 .. Len(t) PROVE t[i] \in ToSet(b) \cup ToSet(c)
  <2>1. CASE i <= Len(b)
    BY <1>1, <1>2, <2>1
  <2>2. CASE i > Len(b)
    <3>1. i - Len(b) \in 1 .. Len(c) /\ t[i] = c[i - Len(b)]
      BY <1>1, <2>2
    <3> QED
      BY <1>2, <3>1
  <2> QED
    BY <1>1, <2>1, <2>2
<1>4. ASSUME NEW i \in 1 .. Len(b) PROVE b[i] \in ToSet(t)
  <2>1. i \in 1 .. Len(t) /\ t[i] = b[i]
    BY <1>1
  <2> QED
    BY <1>2, <2>1
<1>5. ASSUME NEW i \in 1 .. Len(c) PROVE c[i] \in ToSet(t)
  <2>1. Len(b) + i \in 1 .. Len(t) /\ t[Len(b) + i] = c[i]
    BY <1>1
  <2> QED
    BY <1>2, <2>1
<1>6. ToSet(t) \subseteq ToSet(b) \cup ToSet(c)
  BY <1>2, <1>3
<1>7. ToSet(b) \cup ToSet(c) \subseteq ToSet(t)
  BY <1>2, <1>4, <1>5
<1> QED
  BY <1>6, <1>7 DEF t

LEMMA ToSetEmpty == ToSet(<<>>) = {}
<1>1. <<>> \in Seq(Rows) /\ Len(<<>>) = 0
  BY EmptySeq
<1>2. ToSet(<<>>) = {<<>>[i] : i \in 1 .. Len(<<>>)}
  BY <1>1, ToSetOf
<1>3. 1 .. Len(<<>>) = {}
  BY <1>1
<1> QED
  BY <1>2, <1>3

-----------------------------------------------------------------------------
(* Order: the rows rise, from above low up to top.                         *)

RowsRise(s, low, top) ==
  /\ \A i, j \in 1 .. Len(s) : i < j => s[i] < s[j]
  /\ \A i \in 1 .. Len(s) : low < s[i] /\ s[i] <= top

\* Rows are offsets.
LEMMA RowIsOffset == \A r \in Rows : r \in Nat /\ r >= 1 /\ r <= LastRow
  BY ChWriterAssumption

\* The next offset may be appended.
LEMMA RiseAppend ==
  ASSUME NEW s \in Seq(Rows), NEW low \in Nat, NEW top \in Nat,
         RowsRise(s, low, top), low <= top, top + 1 \in Rows
  PROVE  RowsRise(Append(s, top + 1), low, top + 1)
<1> DEFINE t == Append(s, top + 1)
<1>1. /\ Len(t) = Len(s) + 1 /\ t[Len(s) + 1] = top + 1
      /\ \A i \in 1 .. Len(s) : t[i] = s[i]
      /\ Len(s) \in Nat
  BY AppendProperties, LenProperties
<1>2. \A i \in 1 .. Len(s) : s[i] \in Nat
  BY ElementOfSeq, RowIsOffset
<1> HIDE DEF t
<1>3. ASSUME NEW i \in 1 .. Len(t) PROVE low < t[i] /\ t[i] <= top + 1
  <2>1. CASE i = Len(s) + 1
    BY <1>1, <2>1
  <2>2. CASE i # Len(s) + 1
    <3>1. i \in 1 .. Len(s)
      BY <1>1, <2>2
    <3> QED
      BY <1>1, <1>2, <3>1 DEF RowsRise
  <2> QED
    BY <2>1, <2>2
<1>4. ASSUME NEW i \in 1 .. Len(t), NEW j \in 1 .. Len(t), i < j PROVE t[i] < t[j]
  <2>1. i \in 1 .. Len(s)
    BY <1>1, <1>4
  <2>2. CASE j = Len(s) + 1
    BY <1>1, <1>2, <2>1, <2>2 DEF RowsRise
  <2>3. CASE j # Len(s) + 1
    <3>1. j \in 1 .. Len(s)
      BY <1>1, <2>3
    <3> QED
      BY <1>1, <1>4, <2>1, <3>1 DEF RowsRise
  <2> QED
    BY <2>2, <2>3
<1>5. RowsRise(t, low, top + 1)
  BY <1>3, <1>4 DEF RowsRise
<1> QED
  BY <1>5 DEF t

\* What follows a batch rises from the batch's last row.
LEMMA RiseSuffix ==
  ASSUME NEW b \in Seq(Rows), NEW c \in Seq(Rows), NEW low \in Nat, NEW top \in Nat,
         b # <<>>, RowsRise(b \o c, low, top)
  PROVE  Last(b) \in Rows /\ Last(b) <= top /\ RowsRise(c, Last(b), top)
<1> DEFINE t == b \o c
           n == Len(b)
<1>1. /\ Len(t) = n + Len(c)
      /\ \A i \in 1 .. n + Len(c) : t[i] = IF i <= n THEN b[i] ELSE c[i - n]
      /\ n \in Nat \ {0} /\ Len(c) \in Nat
  BY ConcatProperties, LenProperties, EmptySeq
<1> HIDE DEF t
<1>2. n \in 1 .. Len(t) /\ t[n] = b[n]
  BY <1>1
<1>3. b[n] \in Rows
  BY <1>1, ElementOfSeq
<1> HIDE DEF n
<1>4. RowsRise(t, low, top)
  BY DEF t
<1>5. b[n] <= top
  BY <1>2, <1>4 DEF RowsRise
<1>6. ASSUME NEW i \in 1 .. Len(c) PROVE t[n + i] = c[i] /\ n + i \in 1 .. Len(t) /\ n < n + i
  BY <1>1
<1>7. ASSUME NEW i \in 1 .. Len(c) PROVE b[n] < c[i] /\ c[i] <= top
  BY <1>2, <1>4, <1>6 DEF RowsRise
<1>8. ASSUME NEW i \in 1 .. Len(c), NEW j \in 1 .. Len(c), i < j PROVE c[i] < c[j]
  <2>1. n + i < n + j
    BY <1>1, <1>8
  <2> QED
    BY <1>4, <1>6, <2>1 DEF RowsRise
<1>9. RowsRise(c, b[n], top)
  BY <1>7, <1>8 DEF RowsRise
<1> QED
  BY <1>3, <1>5, <1>9 DEF Last, n

\* Rising rows after low increase from low on.
LEMMA RiseIncreases ==
  ASSUME NEW s \in Seq(Rows), NEW low \in 0 .. LastRow, NEW top \in Nat, RowsRise(s, low, top)
  PROVE  Increasing(<<low>> \o s)
<1> DEFINE t == <<low>> \o s
<1>1. /\ s \in Seq(Nat) /\ low \in Nat
  BY RowIsOffset, SeqMonotonic, ChWriterAssumption
<1>2. <<low>> \in Seq(Nat) /\ Len(<<low>>) = 1 /\ <<low>>[1] = low
  BY <1>1
<1>3. /\ Len(t) = 1 + Len(s) /\ Len(s) \in Nat
      /\ \A i \in 1 .. 1 + Len(s) : t[i] = IF i <= 1 THEN low ELSE s[i - 1]
  BY <1>1, <1>2, ConcatProperties, LenProperties
<1> HIDE DEF t
<1>4. ASSUME NEW i \in 1 .. Len(t) - 1 PROVE t[i] < t[i + 1]
  <2>1. i \in 1 .. Len(s) /\ t[i + 1] = s[i]
    BY <1>3
  <2>2. CASE i = 1
    BY <1>3, <2>1, <2>2 DEF RowsRise
  <2>3. CASE i > 1
    <3>1. i - 1 \in 1 .. Len(s) /\ i - 1 < i /\ t[i] = s[i - 1]
      BY <1>3, <2>1, <2>3
    <3> QED
      BY <2>1, <3>1 DEF RowsRise
  <2> QED
    BY <2>2, <2>3
<1> QED
  BY <1>4 DEF Increasing, t

-----------------------------------------------------------------------------
(* The invariant of the service.                                           *)

\* Offsets and places. While Write is between its send and its counter the
\* handler has not returned.
KafkaInv ==
  /\ consumer \in ConsumerPlaces /\ main \in MainPlaces /\ starts \in 1..MaxStarts
  /\ position \in 0..LastRow /\ handled \in 0..LastRow /\ committed \in 0..LastRow
  /\ committed <= handled /\ handled <= position
  /\ consumer # "handling" => handled = position
  /\ sent = 1 => consumer = "handling" /\ handled < position /\ handled + 1 \notin Malformed

\* A batch is inserted only when there is one.
BatchInv == loop \in {"flush", "lastFlush"} => buf # <<>>

\* The last offset whose row may be in memory.
Reached == handled + sent

\* What is in memory rises from above the last row inserted.
OrderInv ==
  /\ flushed \in 0..LastRow
  /\ flushed <= Reached
  /\ RowsRise(Pipeline, flushed, Reached)

Known == stored \cup InMemory \cup gone \cup Malformed

\* Every row up to there is stored, in memory, gone or malformed.
FateInv ==
  /\ stored \cup gone \subseteq Rows
  /\ \A r \in 1..Reached : r \in Known

ServiceInv == WriterInv /\ KafkaInv /\ BatchInv /\ OrderInv /\ FateInv

\* Pipeline by its parts, now and after a step.
LEMMA PipelineIsPiped ==
  /\ Pipeline = Piped(buf, held, ch)
  /\ Pipeline' = Piped(buf', held', ch')
BY DEF Pipeline, Piped

\* A writer's rows in memory are rows.
LEMMA PipelineType == WriterInv => Pipeline \in Seq(Rows)
BY PipedType, PipelineIsPiped DEF WriterInv, WriterTypeOK

\* With no row in memory there is none to be out of order.
LEMMA NothingRises ==
  ASSUME NEW low, NEW top
  PROVE  RowsRise(<<>>, low, top)
<1>1. Len(<<>>) = 0
  BY EmptySeq
<1> QED
  BY <1>1 DEF RowsRise

\* An empty writer has an empty pipeline.
LEMMA EmptyPipeline ==
  ASSUME buf = <<>>, held = NoRow, ch = <<>>
  PROVE  Pipeline = <<>>
<1>1. <<>> \in Seq(Rows)
  BY EmptySeq
<1>2. Piped(<<>>, NoRow, <<>>) = <<>> \o <<>>
  BY <1>1, PipedEmptyHand
<1>3. <<>> \o <<>> = <<>>
  BY <1>1, ConcatEmptySeq
<1> QED
  BY <1>2, <1>3, PipelineIsPiped

LEMMA EmptyPipelineNext ==
  ASSUME buf' = <<>>, held' = NoRow, ch' = <<>>
  PROVE  Pipeline' = <<>>
<1>1. <<>> \in Seq(Rows)
  BY EmptySeq
<1>2. Piped(<<>>, NoRow, <<>>) = <<>> \o <<>>
  BY <1>1, PipedEmptyHand
<1>3. <<>> \o <<>> = <<>>
  BY <1>1, ConcatEmptySeq
<1> QED
  BY <1>2, <1>3, PipelineIsPiped

LEMMA ServiceInitInv == ChWriterInit => ServiceInv
<1> SUFFICES ASSUME ChWriterInit PROVE ServiceInv
  OBVIOUS
<1> USE DEF ChWriterInit
<1>1. WriterInv /\ WriterInit
  BY WriterInitInv
<1>2. Pipeline = <<>> /\ sent = 0 /\ loop = "select"
  BY <1>1, EmptyPipeline DEF WriterInit
<1>3. KafkaInv
  BY <1>2, ChWriterAssumption DEF KafkaInv, ConsumerPlaces, MainPlaces
<1>4. OrderInv
  BY <1>2, NothingRises, ChWriterAssumption DEF OrderInv, Reached
<1>5. FateInv
  BY <1>2 DEF FateInv, Reached
<1>6. BatchInv
  BY <1>2 DEF BatchInv
<1> QED
  BY <1>1, <1>3, <1>4, <1>5, <1>6 DEF ServiceInv

\* A step after which the same rows are in memory and the same are reached.
LEMMA SamePipelineKeepsRows ==
  ASSUME ServiceInv, Pipeline' = Pipeline, Reached' = Reached, flushed' = flushed,
         stored' = stored, gone' = gone
  PROVE  OrderInv' /\ FateInv'
<1>1. InMemory' = InMemory
  BY DEF InMemory
<1>2. Known' = Known
  BY <1>1 DEF Known
<1>3. OrderInv'
  BY DEF ServiceInv, OrderInv, RowsRise
<1>4. FateInv'
  BY <1>2 DEF ServiceInv, FateInv
<1> QED
  BY <1>3, <1>4

\* Receive, DrainReceive, CountReceived: the rows change places only.
LEMMA LoopKeepsPipeline ==
  ASSUME ServiceInv, Receive \/ DrainReceive \/ CountReceived
  PROVE  Pipeline' = Pipeline
<1> USE DEF ServiceInv, WriterInv
<1>1. ch \in Seq(Rows) /\ buf \in Seq(Rows) /\ held \in Rows \cup {NoRow}
  BY DEF WriterTypeOK
<1>2. CASE Receive \/ DrainReceive
  <2>1. held = NoRow /\ ch # <<>> /\ buf' = buf /\ held' = Head(ch) /\ ch' = Tail(ch)
    BY <1>2 DEF LoopKnows, Receive, DrainReceive
  <2>2. Piped(buf, Head(ch), Tail(ch)) = Piped(buf, NoRow, ch)
    BY <1>1, <2>1, PipedReceive
  <2> QED
    BY <2>1, <2>2, PipelineIsPiped
<1>3. CASE CountReceived
  <2>1. held \in Rows /\ ch' = ch /\ held' = NoRow /\ buf' = Append(buf, held)
    BY <1>1, <1>3 DEF LoopKnows, CountReceived
  <2>2. Piped(Append(buf, held), NoRow, ch) = Piped(buf, held, ch)
    BY <1>1, <2>1, PipedCollect
  <2> QED
    BY <2>1, <2>2, PipelineIsPiped
<1> QED
  BY <1>2, <1>3

\* Only DrainEnd, TakeTick and SeeClosed send the loop to insert.
LEMMA BatchInvStep ==
  ASSUME ServiceInv, [WriterNext]_writerVars \/ WriterInit'
  PROVE  BatchInv'
<1> USE DEF ServiceInv, WriterInv, BatchInv
<1>1. CASE WriterInit'
  BY <1>1 DEF WriterInit
<1>2. CASE UNCHANGED writerVars
  BY <1>2 DEF writerVars
<1>3. CASE DrainEnd
  <2>1. Len(buf) >= BufSize => buf # <<>>
    BY WriterAssumption, EmptySeq
  <2> QED
    BY <1>3, <2>1 DEF DrainEnd
<1>4. CASE (\E r \in Rows : Send(r)) \/ CountSent \/ Tick \/ Close \/ Drop
  BY <1>4 DEF Send, CountSent, Tick, Close, Drop, writerVars
<1>5. CASE Receive \/ CountReceived \/ DrainReceive \/ TakeTick \/ SeeClosed \/ Flush
  BY <1>5 DEF Receive, CountReceived, DrainReceive, TakeTick, SeeClosed, Flush
<1> QED
  BY <1>1, <1>2, <1>3, <1>4, <1>5 DEF WriterNext, LoopStep

-----------------------------------------------------------------------------
(* The steps.                                                              *)

\* FiniteSetsExt's Min of a pair is no more than either.
LEMMA MinOfPair ==
  ASSUME NEW a \in Int, NEW b \in Int
  PROVE  Min({a, b}) \in Int /\ Min({a, b}) <= a /\ Min({a, b}) <= b
<1>1. \E x \in {a, b} : \A y \in {a, b} : x <= y
  <2>1. CASE a <= b
    BY <2>1
  <2>2. CASE b <= a
    BY <2>2
  <2> QED
    BY <2>1, <2>2
<1>2. Min({a, b}) \in {a, b} /\ \A y \in {a, b} : Min({a, b}) <= y
  BY <1>1 DEF Min
<1> QED
  BY <1>2

\* Rows of a process that ends are gone if their offsets are committed.
LEMMA EndProcessStep ==
  ASSUME ServiceInv, EndProcess
  PROVE  KafkaInv' /\ OrderInv' /\ FateInv'
<1> USE DEF ServiceInv
<1>1. Pipeline' = <<>>
  BY EmptyPipelineNext DEF EndProcess
<1>2. Reached' = committed /\ flushed' = committed
  BY DEF EndProcess, Reached, KafkaInv
<1>3. KafkaInv'
  BY DEF KafkaInv, EndProcess, ConsumerPlaces, MainPlaces
<1>4. OrderInv'
  BY <1>1, <1>2, NothingRises DEF OrderInv, EndProcess, KafkaInv
<1>5. Pipeline \in Seq(Rows) /\ InMemory \subseteq Rows
  <2>1. Pipeline \in Seq(Rows)
    BY PipelineType
  <2> QED
    BY <2>1, ToSetOf, ElementOfSeq DEF InMemory
<1>6. gone' = gone \cup {r \in InMemory : r <= committed} /\ stored' = stored
  BY DEF EndProcess
<1>7. ASSUME NEW r \in 1 .. committed PROVE r \in stored' \cup gone' \cup Malformed
  <2>1. r \in 1 .. Reached
    BY DEF KafkaInv, Reached, WriterInv, WriterTypeOK
  <2>2. r \in Known
    BY <2>1 DEF FateInv
  <2> QED
    BY <1>6, <2>2 DEF Known
<1>8. FateInv'
  BY <1>2, <1>5, <1>6, <1>7 DEF FateInv, Known
<1> QED
  BY <1>3, <1>4, <1>8

\* Write's send: the next offset's row is the last in memory.
LEMMA WriteSendsStep ==
  ASSUME ServiceInv, NEW r \in Rows, WriteSends(r)
  PROVE  KafkaInv' /\ OrderInv' /\ FateInv'
<1> USE DEF ServiceInv
<1>1. sent = 0 /\ sent' = 1 /\ r = handled + 1 /\ r \notin Malformed
  BY DEF WriteSends, Handling, Send
<1>2. Reached = handled /\ Reached' = r /\ handled \in Nat
  BY <1>1 DEF Reached, WriteSends, kafkaVars, KafkaInv
<1>3. Pipeline \in Seq(Rows)
  BY PipelineType
<1>4. Pipeline' = Append(Pipeline, r)
  <2>1. ch' = Append(ch, r) /\ UNCHANGED <<held, buf>>
    BY DEF WriteSends, Send
  <2>2. ch \in Seq(Rows) /\ buf \in Seq(Rows) /\ held \in Rows \cup {NoRow}
    BY DEF WriterInv, WriterTypeOK
  <2> QED
    BY <2>1, <2>2, PipedSend, PipelineIsPiped
<1>5. KafkaInv'
  BY <1>1 DEF WriteSends, Handling, kafkaVars, processVars, KafkaInv
<1>6. UNCHANGED <<flushed, stored, gone>>
  BY DEF WriteSends, fateVars
<1>7. OrderInv'
  <2>1. flushed \in Nat /\ flushed <= handled /\ RowsRise(Pipeline, flushed, handled)
    BY <1>2 DEF OrderInv
  <2>2. RowsRise(Append(Pipeline, handled + 1), flushed, handled + 1)
    BY <1>1, <1>2, <1>3, <2>1, RiseAppend
  <2>3. RowsRise(Pipeline', flushed', Reached')
    BY <1>1, <1>2, <1>4, <1>6, <2>2
  <2>4. RowsRise(Pipeline, flushed, Reached)'
    BY <2>3 DEF RowsRise
  <2> QED
    BY <1>1, <1>2, <1>6, <2>1, <2>4 DEF OrderInv
<1>8. InMemory \subseteq InMemory' /\ r \in InMemory'
  BY <1>3, <1>4, ToSetAppend DEF InMemory
<1>9. Known \subseteq Known' /\ r \in Known'
  BY <1>6, <1>8 DEF Known
<1>10. \A x \in 1..Reached' : x \in 1..Reached \/ x = r
  BY <1>1, <1>2
<1>11. FateInv'
  BY <1>6, <1>9, <1>10 DEF FateInv
<1> QED
  BY <1>5, <1>7, <1>11

\* doFlush: the batch leaves memory for ClickHouse, or is gone.
LEMMA InsertStep ==
  ASSUME ServiceInv, Insert
  PROVE  KafkaInv' /\ OrderInv' /\ FateInv'
<1> USE DEF ServiceInv
<1>1. /\ ch \in Seq(Rows) /\ buf \in Seq(Rows) /\ buf # <<>> /\ held = NoRow
      /\ ch' = ch /\ held' = held /\ buf' = <<>> /\ sent' = sent
  BY DEF Insert, Flush, WriterInv, WriterTypeOK, LoopKnows, BatchInv
<1>2. Pipeline = buf \o ch
  BY <1>1, PipedEmptyHand, PipelineIsPiped
<1>3. Pipeline' = ch
  <2>1. <<>> \in Seq(Rows) /\ <<>> \o ch = ch
    BY <1>1, ConcatEmptySeq, EmptySeq
  <2>2. Piped(<<>>, NoRow, ch) = <<>> \o ch
    BY <1>1, <2>1, PipedEmptyHand
  <2>3. Pipeline' = Piped(<<>>, NoRow, ch)
    BY <1>1, PipelineIsPiped
  <2> QED
    BY <2>1, <2>2, <2>3
<1>4. KafkaInv'
  BY <1>1 DEF Insert, kafkaVars, processVars, KafkaInv
<1>5. Reached' = Reached /\ Reached \in Nat /\ handled' = handled
  BY <1>1 DEF Insert, kafkaVars, Reached, KafkaInv, WriterInv, WriterTypeOK
<1>6. flushed' = Last(buf)
  BY DEF Insert
<1>7. OrderInv'
  <2>1. flushed \in Nat /\ RowsRise(buf \o ch, flushed, Reached)
    BY <1>2 DEF OrderInv
  <2>2. Last(buf) \in Rows /\ Last(buf) <= Reached /\ RowsRise(ch, Last(buf), Reached)
    BY <1>1, <1>5, <2>1, RiseSuffix
  <2>3. RowsRise(Pipeline', flushed', Reached')
    BY <1>3, <1>5, <1>6, <2>2
  <2>4. RowsRise(Pipeline, flushed, Reached)'
    BY <2>3 DEF RowsRise
  <2>5. flushed' \in 0..LastRow
    BY <1>6, <2>2, ChWriterAssumption
  <2> QED
    BY <1>5, <1>6, <2>2, <2>4, <2>5 DEF OrderInv
<1>8. InMemory \subseteq ToSet(buf) \cup InMemory'
  BY <1>1, <1>2, <1>3, ToSetConcat DEF InMemory
<1>9. ToSet(buf) \subseteq Rows
  BY <1>1, ToSetOf, ElementOfSeq
<1>10. /\ stored \subseteq stored' /\ gone \subseteq gone'
       /\ ToSet(buf) \subseteq stored' \cup gone'
       /\ stored' \cup gone' \subseteq stored \cup gone \cup ToSet(buf)
  BY DEF Insert
<1>11. Known \subseteq Known'
  BY <1>8, <1>10 DEF Known
<1>12. FateInv'
  BY <1>5, <1>9, <1>10, <1>11 DEF FateInv
<1> QED
  BY <1>4, <1>7, <1>12

\* Skip and the drop: the next offset is handled without a row in memory.
LEMMA PassStep ==
  ASSUME ServiceInv, NEW r \in Rows, Skip(r) \/ WriteDrops(r)
  PROVE  KafkaInv' /\ OrderInv' /\ FateInv'
<1> USE DEF ServiceInv
<1>1. /\ consumer = "handling" /\ handled < position /\ r = handled + 1
      /\ handled' = r /\ UNCHANGED writerVars
      /\ UNCHANGED <<consumer, position, committed, main, starts, flushed, stored>>
      /\ gone \subseteq gone' /\ gone' \subseteq gone \cup {r}
      /\ r \in gone' \cup Malformed
  BY DEF Skip, WriteDrops, Handling, Drop, processVars, fateVars
<1>2. sent = 0 /\ sent' = 0
  <2>1. sent = 0
    BY <1>1 DEF Skip, WriteDrops, Drop, KafkaInv, WriterInv, WriterTypeOK
  <2> QED
    BY <1>1, <2>1 DEF writerVars
<1>3. KafkaInv'
  BY <1>1, <1>2, ChWriterAssumption DEF KafkaInv
<1>4. Pipeline' = Pipeline
  BY <1>1 DEF Pipeline, writerVars
<1>5. Reached = handled /\ Reached' = handled + 1 /\ handled \in Nat
  BY <1>1, <1>2 DEF Reached, KafkaInv
<1>6. OrderInv'
  <2>1. \A i \in 1 .. Len(Pipeline) : Pipeline[i] \in Nat
    BY PipelineType, ElementOfSeq, RowIsOffset
  <2> QED
    BY <1>1, <1>4, <1>5, <2>1 DEF OrderInv, RowsRise
<1>7. Known \subseteq Known' /\ r \in Known'
  BY <1>1, <1>4 DEF Known, InMemory
<1>8. \A x \in 1..Reached' : x \in 1..Reached \/ x = r
  BY <1>1, <1>5
<1>9. FateInv'
  BY <1>1, <1>7, <1>8 DEF FateInv
<1> QED
  BY <1>3, <1>6, <1>9

\* Every step of the service preserves the invariant.
LEMMA ServiceInvStep ==
  ASSUME ServiceInv, [ChWriterNext]_chWriterVars
  PROVE  ServiceInv'
<1> USE DEF ServiceInv
<1>1. [WriterNext]_writerVars \/ WriterInit'
  BY ServiceStepOnWriter
<1>2. WriterInv'
  <2>1. WriterInit' => WriterInv'
    BY WriterInitInv, PTL
  <2> QED
    BY <1>1, <2>1, WriterInvStep
<1>3. BatchInv'
  BY <1>1, BatchInvStep
<1>4. sent \in 0..1
  BY DEF WriterInv, WriterTypeOK
<1>5. KafkaInv' /\ OrderInv' /\ FateInv'
  <2>1. CASE UNCHANGED chWriterVars
    <3>1. UNCHANGED <<writerVars, kafkaVars, processVars, fateVars, flushed>>
      BY <2>1 DEF chWriterVars
    <3>2. Pipeline' = Pipeline /\ Reached' = Reached
      BY <3>1 DEF Pipeline, Reached, writerVars, kafkaVars
    <3>3. KafkaInv'
      BY <3>1 DEF KafkaInv, writerVars, kafkaVars, processVars
    <3> QED
      BY <3>1, <3>2, <3>3, SamePipelineKeepsRows DEF fateVars
  <2>2. CASE CheckContext \/ Poll \/ HandledAll \/ Commit
    <3>1. /\ UNCHANGED <<writerVars, processVars, fateVars, flushed>>
          /\ handled' = handled
      BY <2>2 DEF CheckContext, Poll, HandledAll, Commit
    <3>2. Pipeline' = Pipeline /\ Reached' = Reached /\ sent' = sent
      BY <3>1 DEF Pipeline, Reached, writerVars
    <3>3. KafkaInv'
      <4>1. CASE CheckContext \/ HandledAll \/ Commit
        BY <1>4, <3>1, <3>2, <4>1
           DEF CheckContext, HandledAll, Commit, ConsumerGoto, KafkaInv, ConsumerPlaces, processVars
      <4>2. CASE Poll
        <5>1. position' \in position .. Min({position + MaxPoll, LastRow})
          BY <4>2 DEF Poll
        <5>2. Min({position + MaxPoll, LastRow}) <= LastRow /\ Min({position + MaxPoll, LastRow}) \in Int
          <6>1. position + MaxPoll \in Int /\ LastRow \in Int
            BY ChWriterAssumption DEF KafkaInv
          <6> QED
            BY <6>1, MinOfPair
        <5>3. position' \in 0..LastRow /\ position <= position'
          BY <5>1, <5>2, ChWriterAssumption DEF KafkaInv
        <5>4. /\ consumer = "poll" /\ consumer' = "handling"
              /\ UNCHANGED <<sent, handled, committed, main, starts>>
          BY <3>2, <4>2 DEF Poll, ConsumerGoto, processVars
        <5>5. handled = position /\ sent # 1
          BY <1>4, <5>4 DEF KafkaInv
        <5> QED
          BY <5>3, <5>4, <5>5 DEF KafkaInv, ConsumerPlaces
      <4> QED
        BY <2>2, <4>1, <4>2
    <3> QED
      BY <3>1, <3>2, <3>3, SamePipelineKeepsRows DEF fateVars
  <2>3. CASE WriteReturns
    <3>1. /\ sent = 1 /\ sent' = 0 /\ handled' = handled + 1
          /\ UNCHANGED <<ch, buf, held, consumer, position, committed, main, starts, flushed, stored, gone>>
      BY <2>3 DEF WriteReturns, CountSent, processVars, fateVars
    <3>2. Pipeline' = Pipeline /\ Reached' = Reached
      BY <3>1 DEF Pipeline, Reached, KafkaInv
    <3>3. KafkaInv'
      BY <3>1, ChWriterAssumption DEF KafkaInv
    <3> QED
      BY <3>1, <3>2, <3>3, SamePipelineKeepsRows
  <2>4. ASSUME NEW r \in Rows, Skip(r) \/ WriteSends(r) \/ WriteDrops(r)
        PROVE  KafkaInv' /\ OrderInv' /\ FateInv'
    BY <2>4, PassStep, WriteSendsStep
  <2>5. CASE WritePanics \/ DeferredStopPanics \/ Kill
    BY <2>5, EndProcessStep DEF WritePanics, DeferredStopPanics, Kill
  <2>6. CASE LoopRuns
    <3>1. /\ Receive \/ CountReceived \/ DrainReceive \/ DrainEnd \/ TakeTick \/ SeeClosed
          /\ UNCHANGED <<kafkaVars, processVars, fateVars, flushed>>
      BY <2>6 DEF LoopRuns
    <3>2. sent' = sent
      BY <3>1 DEF Receive, CountReceived, DrainReceive, DrainEnd, TakeTick, SeeClosed
    <3>3. Pipeline' = Pipeline
      <4>1. CASE Receive \/ CountReceived \/ DrainReceive
        BY <4>1, LoopKeepsPipeline
      <4>2. CASE DrainEnd \/ TakeTick \/ SeeClosed
        BY <4>2 DEF DrainEnd, TakeTick, SeeClosed, Pipeline
      <4> QED
        BY <3>1, <4>1, <4>2
    <3>4. Reached' = Reached
      BY <3>1, <3>2 DEF Reached, kafkaVars
    <3>5. KafkaInv'
      BY <3>1, <3>2 DEF KafkaInv, kafkaVars, processVars
    <3> QED
      BY <3>1, <3>3, <3>4, <3>5, SamePipelineKeepsRows DEF fateVars
  <2>7. CASE Insert
    BY <2>7, InsertStep
  <2>8. CASE StopCloses \/ StopReturns \/ TickerFires \/ Signal \/ Start
    <3>1. /\ UNCHANGED <<ch, buf, held, sent, kafkaVars, fateVars, flushed>>
          /\ main' \in MainPlaces /\ starts' \in 1..MaxStarts
      BY <2>8, ChWriterAssumption
         DEF StopCloses, StopReturns, TickerFires, Signal, Start, Close, Tick, writerVars,
             MainPlaces, processVars, KafkaInv
    <3>2. Pipeline' = Pipeline /\ Reached' = Reached
      BY <3>1 DEF Pipeline, Reached, kafkaVars
    <3>3. KafkaInv'
      BY <3>1 DEF KafkaInv, kafkaVars
    <3> QED
      BY <3>1, <3>2, <3>3, SamePipelineKeepsRows DEF fateVars
  <2> QED
    BY <2>1, <2>2, <2>3, <2>4, <2>5, <2>6, <2>7, <2>8
       DEF ChWriterNext, ConsumerStep, WriterLoopStep, MainStep
<1> QED
  BY <1>2, <1>3, <1>5

\* So it holds in every reachable state.
LEMMA ServiceInvInductive == ChWriterSpec => []ServiceInv
BY ServiceInitInv, ServiceInvStep, PTL DEF ChWriterSpec

(* Offsets, places and rows stay within their types, for any partition,    *)
(* buffer, poll size and number of processes.                              *)
THEOREM ChWriterTypeCorrect == ChWriterSpec => []ChWriterTypeOK
<1>1. ServiceInv => ChWriterTypeOK
  BY DEF ServiceInv, WriterInv, KafkaInv, OrderInv, FateInv, ChWriterTypeOK
<1> QED
  BY <1>1, ServiceInvInductive, PTL

(* The writer inserts, collects and queues in offset order, no row twice   *)
(* in one process and none before its record was polled.                   *)
THEOREM RowsWrittenInOrder == ChWriterSpec => []WrittenInOffsetOrder
<1>1. ASSUME ServiceInv PROVE WrittenInOffsetOrder
  <2>1. /\ Pipeline \in Seq(Rows) /\ flushed \in 0..LastRow /\ Reached \in Nat
        /\ RowsRise(Pipeline, flushed, Reached) /\ sent \in 0..1 /\ handled \in Nat
    BY <1>1, PipelineType DEF ServiceInv, OrderInv, Reached, WriterInv, WriterTypeOK, KafkaInv
  <2>2. Increasing(<<flushed>> \o Pipeline)
    BY <2>1, RiseIncreases
  <2>3. ASSUME NEW r \in InMemory PROVE r <= handled \/ (sent = 1 /\ r = handled + 1)
    <3>1. PICK i \in 1 .. Len(Pipeline) : r = Pipeline[i]
      BY <2>1, ToSetOf DEF InMemory
    <3>2. r <= Reached /\ r \in Nat
      BY <2>1, <3>1, ElementOfSeq, RowIsOffset DEF RowsRise
    <3> QED
      BY <2>1, <3>2 DEF Reached
  <2> QED
    BY <2>2, <2>3 DEF WrittenInOffsetOrder
<1> QED
  BY <1>1, ServiceInvInductive, PTL

(* Every handled row is stored, in memory, malformed, or lost in one of    *)
(* the three ways the code has, over any number of kills and restarts.     *)
THEOREM HandledAlwaysAccounted == ChWriterSpec => []HandledRowsAccounted
<1>1. ASSUME ServiceInv PROVE HandledRowsAccounted
  <2>1. 1 .. handled \subseteq 1 .. Reached
    BY <1>1 DEF ServiceInv, KafkaInv, Reached, WriterInv, WriterTypeOK
  <2> QED
    BY <1>1, <2>1 DEF ServiceInv, KafkaInv, FateInv, Known, HandledRowsAccounted
<1> QED
  BY <1>1, ServiceInvInductive, PTL

-----------------------------------------------------------------------------
(* How far StopFlushesPending holds.                                       *)

\* Stop has returned only when the writer's goroutine had ended.
ReturningIsStopped == main = "returning" => loop = "stopped"

LEMMA ReturningStep ==
  ASSUME ReturningIsStopped, [ChWriterNext]_chWriterVars
  PROVE  ReturningIsStopped'
<1> USE DEF ReturningIsStopped
<1>1. CASE ConsumerStep \/ TickerFires
  <2>1. CASE WritePanics
    BY <2>1 DEF WritePanics, EndProcess
  <2>2. ASSUME ~WritePanics PROVE loop' = loop /\ main' = main
    BY <1>1, <2>2 DEF ConsumerStep, CheckContext, Poll, WriteReturns, HandledAll, Commit, Skip,
       WriteSends, WriteDrops, TickerFires, CountSent, Send, Drop, Tick, writerVars, processVars
  <2> QED
    BY <2>1, <2>2
<1>2. CASE WriterLoopStep
  BY <1>2 DEF WriterLoopStep, LoopRuns, Insert, Receive, CountReceived, DrainReceive, DrainEnd,
     TakeTick, SeeClosed, Flush, processVars
<1>3. CASE MainStep \/ DeferredStopPanics \/ Kill
  BY <1>3 DEF MainStep, Kill, StopCloses, StopReturns, DeferredStopPanics, EndProcess, writerVars
<1>4. CASE Signal \/ Start
  BY <1>4 DEF Signal, Start, writerVars
<1>5. CASE UNCHANGED chWriterVars
  BY <1>5 DEF chWriterVars, writerVars, processVars
<1> QED
  BY <1>1, <1>2, <1>3, <1>4, <1>5 DEF ChWriterNext

(* The second Stop, deferred in main, panics but takes no row with it: the *)
(* rows a told process loses are those of the Write that finds the channel *)
(* closed (cmd/chwriter/main.go:57, 120).                                  *)
THEOREM DeferredStopLosesNothing ==
  ChWriterSpec => SecondStopLosesNothing
<1>1. ASSUME WriterInv, ReturningIsStopped, DeferredStopPanics
      PROVE  gone' = gone
  <2>1. buf = <<>> /\ held = NoRow /\ ch = <<>>
    BY <1>1 DEF DeferredStopPanics, ReturningIsStopped, WriterInv, LoopKnows
  <2>2. InMemory = {}
    BY <2>1, EmptyPipeline, ToSetEmpty DEF InMemory
  <2> QED
    BY <1>1, <2>2 DEF DeferredStopPanics, EndProcess
<1>2. ServiceInv => WriterInv
  BY DEF ServiceInv
<1>3. ChWriterInit => ReturningIsStopped
  BY DEF ChWriterInit, ReturningIsStopped
<1> QED
  BY <1>1, <1>2, <1>3, ReturningStep, ServiceInvInductive, PTL DEF ChWriterSpec, SecondStopLosesNothing

-----------------------------------------------------------------------------
(* Refinement of Relay: Write takes a row, drops it or, by not being       *)
(* called, skips it; Insert hands a batch on or gives it up; Commit        *)
(* commits; and a process that ends is the restart.                        *)

\* Rows that rise are not in the batch and behind it.
LEMMA RiseSplits ==
  ASSUME NEW b \in Seq(Rows), NEW c \in Seq(Rows), NEW low \in Nat, NEW top \in Nat,
         RowsRise(b \o c, low, top)
  PROVE  ToSet(b) \cap ToSet(c) = {}
<1> DEFINE t == b \o c
           n == Len(b)
<1>1. /\ Len(t) = n + Len(c) /\ n \in Nat /\ Len(c) \in Nat
      /\ \A i \in 1 .. n + Len(c) : t[i] = IF i <= n THEN b[i] ELSE c[i - n]
  BY ConcatProperties, LenProperties
<1>2. ToSet(b) = {b[i] : i \in 1 .. n} /\ ToSet(c) = {c[i] : i \in 1 .. Len(c)}
  BY ToSetOf
<1>3. /\ \A i \in 1 .. n : b[i] \in Nat
      /\ \A i, j \in 1 .. Len(t) : i < j => t[i] < t[j]
  BY ElementOfSeq, RowIsOffset DEF RowsRise
<1> HIDE DEF t, n
<1>4. ASSUME NEW i \in 1 .. n, NEW j \in 1 .. Len(c) PROVE b[i] # c[j]
  <2>1. /\ i \in 1 .. Len(t) /\ n + j \in 1 .. Len(t) /\ i < n + j
        /\ t[i] = b[i] /\ t[n + j] = c[j]
    BY <1>1
  <2>2. b[i] < c[j]
    BY <1>3, <2>1
  <2> QED
    BY <1>3, <2>2
<1> QED
  BY <1>2, <1>4

\* What Relay does not see.
LEMMA UnseenByRelay ==
  ASSUME Reached' = Reached, Pipeline' = Pipeline, UNCHANGED <<committed, stored, gone>>
  PROVE  UNCHANGED Relaying!relayVars
<1>1. InMemory' = InMemory
  BY DEF InMemory
<1> QED
  BY <1>1 DEF Relaying!relayVars, Reached

\* The next record is reached.
LEMMA RecordReached ==
  ASSUME ServiceInv, NEW r \in Rows, Skip(r) \/ WriteSends(r) \/ WriteDrops(r)
  PROVE  /\ Relaying!Reaches(r) /\ committed' = committed
         /\ r \in Malformed <=> Skip(r)
<1>1. /\ r = handled + 1 /\ committed' = committed
      /\ sent = 0 /\ handled' + sent' = r
  <2>1. CASE Skip(r)
    <3>1. sent = 0
      BY <2>1 DEF Skip, Handling, ServiceInv, KafkaInv, WriterInv, WriterTypeOK
    <3> QED
      BY <2>1, <3>1, RowIsOffset DEF Skip, Handling, writerVars
  <2>2. CASE WriteSends(r)
    BY <2>2, RowIsOffset DEF WriteSends, Handling, Send, kafkaVars
  <2>3. CASE WriteDrops(r)
    BY <2>3, RowIsOffset DEF WriteDrops, Handling, Drop, writerVars
  <2> QED
    BY <2>1, <2>2, <2>3
<1>2. r <= LastRow /\ handled \in Nat
  BY RowIsOffset DEF ServiceInv, KafkaInv
<1>3. r \in Malformed <=> Skip(r)
  BY DEF Skip, WriteSends, WriteDrops
<1> QED
  BY <1>1, <1>2, <1>3 DEF Relaying!Reaches

LEMMA HandlerRelays ==
  ASSUME ServiceInv, NEW r \in Rows, Skip(r) \/ WriteSends(r) \/ WriteDrops(r)
  PROVE  Relaying!RelayNext
<1>1. /\ Relaying!Reaches(r) /\ committed' = committed
      /\ r \in Malformed <=> Skip(r)
  BY RecordReached
<1>2. r \in 1..LastRow
  BY ChWriterAssumption
<1>3. CASE Skip(r)
  <2>1. InMemory' = InMemory /\ UNCHANGED <<stored, gone>>
    BY <1>3 DEF Skip, writerVars, fateVars, InMemory, Pipeline
  <2>2. Relaying!Skip(r)
    BY <1>1, <1>3, <2>1 DEF Relaying!Skip
  <2> QED
    BY <1>2, <2>2 DEF Relaying!RelayNext
<1>4. CASE WriteDrops(r)
  <2>1. InMemory' = InMemory /\ stored' = stored /\ gone' = gone \cup {r}
    BY <1>4 DEF WriteDrops, Drop, writerVars, InMemory, Pipeline
  <2>2. Relaying!Drop(r)
    BY <1>1, <1>4, <2>1 DEF Relaying!Drop, WriteDrops
  <2> QED
    BY <1>2, <2>2 DEF Relaying!RelayNext
<1>5. CASE WriteSends(r)
  <2>1. Pipeline \in Seq(Rows)
    BY PipelineType DEF ServiceInv
  <2>2. /\ ch' = Append(ch, r) /\ UNCHANGED <<held, buf, stored, gone>>
        /\ ch \in Seq(Rows) /\ buf \in Seq(Rows) /\ held \in Rows \cup {NoRow}
    BY <1>5 DEF WriteSends, Send, fateVars, ServiceInv, WriterInv, WriterTypeOK
  <2>3. Pipeline' = Append(Pipeline, r)
    BY <2>2, PipedSend, PipelineIsPiped
  <2>4. InMemory' = InMemory \cup {r}
    BY <2>1, <2>3, ToSetAppend DEF InMemory
  <2>5. Relaying!Take(r)
    BY <1>1, <1>5, <2>2, <2>4 DEF Relaying!Take, WriteSends
  <2> QED
    BY <1>2, <2>5 DEF Relaying!RelayNext
<1> QED
  BY <1>3, <1>4, <1>5

LEMMA InsertRelays ==
  ASSUME ServiceInv, Insert
  PROVE  Relaying!RelayNext
<1>1. /\ ch \in Seq(Rows) /\ buf \in Seq(Rows) /\ held = NoRow
      /\ ch' = ch /\ held' = held /\ buf' = <<>> /\ UNCHANGED <<sent, handled, committed>>
  BY DEF Insert, Flush, kafkaVars, ServiceInv, WriterInv, WriterTypeOK, LoopKnows, BatchInv
<1>2. Pipeline = buf \o ch
  BY <1>1, PipedEmptyHand, PipelineIsPiped
<1>3. Pipeline' = ch
  <2>1. <<>> \in Seq(Rows) /\ <<>> \o ch = ch
    BY <1>1, ConcatEmptySeq, EmptySeq
  <2>2. Pipeline' = <<>> \o ch
    BY <1>1, <2>1, PipedEmptyHand, PipelineIsPiped
  <2> QED
    BY <2>1, <2>2
<1>4. ToSet(buf) \cap ToSet(ch) = {}
  <2>1. flushed \in Nat /\ Reached \in Nat /\ RowsRise(buf \o ch, flushed, Reached)
    BY <1>2 DEF ServiceInv, OrderInv, Reached, KafkaInv, WriterInv, WriterTypeOK
  <2> QED
    BY <1>1, <2>1, RiseSplits
<1>5. InMemory = ToSet(buf) \cup ToSet(ch) /\ InMemory' = ToSet(ch)
  BY <1>1, <1>2, <1>3, ToSetConcat DEF InMemory
<1>6. ToSet(buf) \in SUBSET InMemory /\ InMemory' = InMemory \ ToSet(buf)
  BY <1>4, <1>5
<1>7. Relaying!HandOn(ToSet(buf)) \/ Relaying!GiveUp(ToSet(buf))
  BY <1>1, <1>6 DEF Insert, Relaying!HandOn, Relaying!GiveUp
<1> QED
  BY <1>6, <1>7 DEF Relaying!RelayNext

LEMMA CommitRelays ==
  ASSUME ServiceInv, Commit
  PROVE  Relaying!RelayNext
<1>1. InMemory' = InMemory /\ UNCHANGED <<sent, handled, stored, gone>>
  BY DEF Commit, writerVars, fateVars, InMemory, Pipeline
<1>2. sent = 0 /\ handled = position
  BY DEF Commit, ConsumerGoto, ServiceInv, KafkaInv, WriterInv, WriterTypeOK
<1>3. committed' \in committed .. handled + sent
  BY <1>2 DEF Commit, ServiceInv, KafkaInv
<1> QED
  BY <1>1, <1>3 DEF Relaying!RelayNext, Relaying!Commit

LEMMA EndProcessRelays ==
  ASSUME ServiceInv, EndProcess
  PROVE  Relaying!RelayNext
<1>1. InMemory' = {}
  BY EmptyPipelineNext, ToSetEmpty DEF EndProcess, InMemory
<1>2. /\ handled' + sent' = committed /\ UNCHANGED <<committed, stored>>
      /\ gone' = gone \cup {r \in InMemory : r <= committed}
  BY DEF EndProcess, ServiceInv, KafkaInv
<1> QED
  BY <1>1, <1>2 DEF Relaying!RelayNext, Relaying!Restart

\* Every step of the service is a step of Relay or is not seen by it.
LEMMA ServiceRelaysStep ==
  ASSUME ServiceInv, [ChWriterNext]_chWriterVars
  PROVE  [Relaying!RelayNext]_Relaying!relayVars
<1>1. ASSUME NEW r \in Rows, Skip(r) \/ WriteSends(r) \/ WriteDrops(r)
      PROVE  Relaying!RelayNext
  BY <1>1, HandlerRelays
<1>2. CASE Insert
  BY <1>2, InsertRelays
<1>3. CASE Commit
  BY <1>3, CommitRelays
<1>4. CASE WritePanics \/ DeferredStopPanics \/ Kill
  BY <1>4, EndProcessRelays DEF WritePanics, DeferredStopPanics, Kill
<1>5. CASE LoopRuns
  <2>1. /\ Receive \/ CountReceived \/ DrainReceive \/ DrainEnd \/ TakeTick \/ SeeClosed
        /\ UNCHANGED <<handled, committed, stored, gone>>
    BY <1>5 DEF LoopRuns, kafkaVars, fateVars
  <2>2. Pipeline' = Pipeline
    <3>1. CASE Receive \/ CountReceived \/ DrainReceive
      BY <3>1, LoopKeepsPipeline
    <3>2. CASE DrainEnd \/ TakeTick \/ SeeClosed
      BY <3>2 DEF DrainEnd, TakeTick, SeeClosed, Pipeline
    <3> QED
      BY <2>1, <3>1, <3>2
  <2>3. Reached' = Reached
    BY <2>1 DEF Receive, CountReceived, DrainReceive, DrainEnd, TakeTick, SeeClosed, Reached
  <2> QED
    BY <2>1, <2>2, <2>3, UnseenByRelay
<1>6. CASE WriteReturns
  <2>1. Reached' = Reached
    BY <1>6 DEF WriteReturns, CountSent, Reached, ServiceInv, KafkaInv
  <2>2. Pipeline' = Pipeline /\ UNCHANGED <<committed, stored, gone>>
    BY <1>6 DEF WriteReturns, CountSent, fateVars, Pipeline
  <2> QED
    BY <2>1, <2>2, UnseenByRelay
<1>7. CASE \/ CheckContext \/ Poll \/ HandledAll
           \/ StopCloses \/ StopReturns \/ TickerFires \/ Signal \/ Start
           \/ UNCHANGED chWriterVars
  <2>1. UNCHANGED <<ch, buf, held, sent, handled, committed, stored, gone>>
    BY <1>7 DEF CheckContext, Poll, HandledAll, StopCloses, StopReturns, TickerFires, Signal,
       Start, Close, Tick, chWriterVars, writerVars, kafkaVars, fateVars
  <2>2. Pipeline' = Pipeline /\ Reached' = Reached
    BY <2>1 DEF Pipeline, Reached
  <2> QED
    BY <2>1, <2>2, UnseenByRelay
<1> QED
  BY <1>1, <1>2, <1>3, <1>4, <1>5, <1>6, <1>7
     DEF ChWriterNext, ConsumerStep, WriterLoopStep, MainStep

LEMMA ServiceRelaysInit == ChWriterInit => Relaying!RelayInit
<1> SUFFICES ASSUME ChWriterInit PROVE Relaying!RelayInit
  OBVIOUS
<1>1. InMemory = {}
  BY EmptyPipeline, ToSetEmpty DEF ChWriterInit, WriterInit, InMemory
<1> QED
  BY <1>1 DEF Relaying!RelayInit, ChWriterInit, WriterInit

(* The consumer and its writer hand rows on as Relay says, whatever the    *)
(* sizes of batch and poll and however often the process ends.             *)
THEOREM ChWriterImplementsRelay == ChWriterSpec => ImplementsRelay
<1>1. ChWriterInit => Relaying!RelayInit
  BY ServiceRelaysInit
<1>2. ServiceInv /\ [ChWriterNext]_chWriterVars => [Relaying!RelayNext]_Relaying!relayVars
  BY ServiceRelaysStep
<1> QED
  BY <1>1, <1>2, ServiceInvInductive, PTL DEF ChWriterSpec, ImplementsRelay, Relaying!RelaySpec
=============================================================================
