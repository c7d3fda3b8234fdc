------------------------------ MODULE ChWriter ------------------------------
(***************************************************************************)
(* cmd/chwriter/main.go: a Kafka consumer loop (ConsumeLoop of             *)
(* internal/kafka/consumer.go) whose handler writes each record to the     *)
(* BatchWriter, and a main goroutine that on a signal cancels the context, *)
(* stops the writer and returns, running its deferred calls.               *)
(*                                                                         *)
(* One partition and one shard (NewShardedWriter passes through to its     *)
(* only Writer). A record is its offset, 1..LastRow; Malformed records are *)
(* those the handler skips. Offsets are committed for what was polled,     *)
(* whether or not it was inserted. A process that ends loses its memory;   *)
(* the next one resumes after the last committed offset.                   *)
(***************************************************************************)
EXTENDS BatchWriter, FiniteSetsExt, SequencesExt

CONSTANTS
  LastRow,    (* records in the partition                                  *)
  Malformed,  (* records the handler skips                                 *)
  MaxPoll,    (* bound: records of one poll                                *)
  MaxStarts   (* bound: processes started                                  *)

ASSUME ChWriterAssumption ==
  /\ LastRow \in Nat
  /\ Rows = 1..LastRow
  /\ Malformed \subseteq Rows
  /\ MaxPoll \in Nat \ {0} /\ MaxStarts \in Nat \ {0}

VARIABLES
  consumer,  (* where the consumer goroutine is in ConsumeLoop             *)
  position,  (* offset of the last record polled                           *)
  handled,   (* offset of the last record whose handler has returned       *)
  committed, (* offset of the last record committed                        *)
  main,      (* where the main goroutine is; "down": no process            *)
  starts,    (* processes started so far                                   *)
  (* History variables. *)
  flushed,   (* last row this process inserted, or where it resumed        *)
  stored,    (* rows ClickHouse has                                        *)
  gone       (* rows dropped by Write, rows of inserts that failed, and    *)
             (* committed rows in the memory of a process that ended       *)

kafkaVars == <<consumer, position, handled, committed>>
processVars == <<main, starts>>
fateVars == <<stored, gone>>
chWriterVars == <<writerVars, kafkaVars, processVars, fateVars, flushed>>

ConsumerPlaces == {"check", "poll", "handling", "commit", "ended"}

MainPlaces ==
  {"running",   (* <-quit                                                  *)
   "cancelled", (* the context is cancelled                                *)
   "waiting",   (* in Stop, <-w.done                                       *)
   "returning", (* main returns: its deferred calls                        *)
   "down"}

ChWriterInit ==
  /\ WriterInit
  /\ consumer = "check" /\ position = 0 /\ handled = 0 /\ committed = 0
  /\ main = "running" /\ starts = 1
  /\ flushed = 0
  /\ stored = {} /\ gone = {}

Up == main # "down"

\* Rows accepted by Write that this process has in memory, oldest first.
Pipeline == buf \o (IF held = NoRow THEN <<>> ELSE <<held>>) \o ch

InMemory == ToSet(Pipeline)

-----------------------------------------------------------------------------
(* ConsumeLoop. *)

ConsumerGoto(from, to) == Up /\ consumer = from /\ consumer' = to

CheckContext ==
  /\ ConsumerGoto("check", IF main = "running" THEN "poll" ELSE "ended")
  /\ UNCHANGED <<writerVars, position, handled, committed, processVars, fateVars, flushed>>

\* PollFetches waits for records; a cancelled context lets it return none.
Poll ==
  /\ ConsumerGoto("poll", "handling")
  /\ \E n \in position .. Min({position + MaxPoll, LastRow}) :
       /\ n > position \/ main # "running"
       /\ position' = n
  /\ UNCHANGED <<writerVars, handled, committed, processVars, fateVars, flushed>>

Handling(r) == Up /\ consumer = "handling" /\ handled < position /\ r = handled + 1

Skip(r) ==
  /\ Handling(r)
  /\ r \in Malformed
  /\ handled' = r
  /\ UNCHANGED <<writerVars, consumer, position, committed, processVars, fateVars, flushed>>

\* writer.Write: its result is ignored.
WriteSends(r) ==
  /\ Handling(r)
  /\ r \notin Malformed
  /\ Send(r)
  /\ UNCHANGED <<kafkaVars, processVars, fateVars, flushed>>

WriteReturns ==
  /\ Up
  /\ CountSent
  /\ handled' = handled + 1
  /\ UNCHANGED <<consumer, position, committed, processVars, fateVars, flushed>>

WriteDrops(r) ==
  /\ Handling(r)
  /\ r \notin Malformed
  /\ Drop
  /\ handled' = r
  /\ gone' = gone \cup {r}
  /\ UNCHANGED <<consumer, position, committed, processVars, stored, flushed>>

\* Mutant: the commit no longer waits for the handlers.
HandledAllEarly ==
  /\ ConsumerGoto("handling", "commit")
  /\ UNCHANGED <<writerVars, position, handled, committed, processVars, fateVars, flushed>>

HandledAll ==
  /\ handled = position
  /\ ConsumerGoto("handling", "commit")
  /\ UNCHANGED <<writerVars, position, handled, committed, processVars, fateVars, flushed>>

\* CommitUncommittedOffsets may fail: it is logged and the loop goes on.
Commit ==
  /\ ConsumerGoto("commit", "check")
  /\ committed' \in {committed, position}
  /\ UNCHANGED <<writerVars, position, handled, processVars, fateVars, flushed>>

-----------------------------------------------------------------------------
(* The writer's loop and ticker. *)

LoopRuns ==
  /\ Up
  /\ \/ Receive \/ CountReceived \/ DrainReceive \/ DrainEnd \/ TakeTick \/ SeeClosed
  /\ UNCHANGED <<kafkaVars, processVars, fateVars, flushed>>

\* insertBatch stores the batch or fails.
Insert ==
  /\ Up
  /\ Flush
  /\ flushed' = Last(buf)
  /\ \/ stored' = stored \cup ToSet(buf) /\ UNCHANGED gone
     \/ gone' = gone \cup ToSet(buf) /\ UNCHANGED stored
  /\ UNCHANGED <<kafkaVars, processVars>>

TickerFires ==
  /\ Up
  /\ Tick
  /\ UNCHANGED <<kafkaVars, processVars, fateVars, flushed>>

-----------------------------------------------------------------------------
(* The process. *)

Signal ==
  /\ main = "running"
  /\ main' = "cancelled"
  /\ UNCHANGED <<writerVars, kafkaVars, starts, fateVars, flushed>>

StopCloses ==
  /\ main = "cancelled"
  /\ Close
  /\ main' = "waiting"
  /\ UNCHANGED <<kafkaVars, starts, fateVars, flushed>>

\* Mutant: Stop no longer waits for the loop to end.
StopReturnsEarly ==
  /\ main = "waiting"
  /\ main' = "returning"
  /\ UNCHANGED <<writerVars, kafkaVars, starts, fateVars, flushed>>

StopReturns ==
  /\ main = "waiting"
  /\ loop = "stopped"
  /\ main' = "returning"
  /\ UNCHANGED <<writerVars, kafkaVars, starts, fateVars, flushed>>

\* The process ends and its memory with it; what is not committed will be
\* polled again, what is committed will not.
EndProcess ==
  /\ main' = "down"
  /\ gone' = gone \cup {r \in InMemory : r <= committed}
  /\ ch' = <<>> /\ closed' = FALSE /\ pending' = 0 /\ sent' = 0
  /\ tick' = FALSE /\ loop' = "select" /\ held' = NoRow /\ buf' = <<>>
  /\ consumer' = "check" /\ position' = committed /\ handled' = committed
  /\ flushed' = committed
  /\ UNCHANGED <<committed, starts, stored>>

\* The deferred calls run last in, first out: dlqProducer.Close, with nothing
\* to send, then consumer.Close. The consumer polls under BlockRebalanceOnPoll
\* and nobody calls AllowRebalance, so this Close may hang: the step need not
\* come. If it returns, writer.Stop closes a closed channel: main panics.
DeferredStopPanics == main = "returning" /\ EndProcess

\* A record handled after Stop is sent on a closed channel.
WritePanics ==
  /\ \E r \in Rows : Handling(r) /\ r \notin Malformed
  /\ Panics
  /\ EndProcess

Kill == Up /\ EndProcess

Start ==
  /\ ~Up /\ starts < MaxStarts
  /\ starts' = starts + 1
  /\ main' = "running"
  /\ UNCHANGED <<writerVars, kafkaVars, fateVars, flushed>>

ConsumerStep ==
  \/ CheckContext \/ Poll \/ WriteReturns \/ HandledAll \/ Commit
  \/ \E r \in Rows : Skip(r) \/ WriteSends(r) \/ WriteDrops(r)
  \/ WritePanics

WriterLoopStep == LoopRuns \/ Insert

MainStep == StopCloses \/ StopReturns

ChWriterNext ==
  \/ ConsumerStep \/ WriterLoopStep \/ MainStep \/ DeferredStopPanics
  \/ TickerFires \/ Signal \/ Kill \/ Start

ChWriterSpec == ChWriterInit /\ [][ChWriterNext]_chWriterVars

(* Go schedules every runnable goroutine, and the ticker ticks. The loop's *)
(* outer select picks at random among ready cases, so a case that is ready *)
(* again and again is taken eventually: strong fairness. Nothing is assumed *)
(* of signals, kills, restarts, the success of commits and inserts, or the *)
(* return of the deferred closes.                                          *)
ChWriterFairness ==
  /\ WF_chWriterVars(ConsumerStep)
  /\ WF_chWriterVars(WriterLoopStep)
  /\ WF_chWriterVars(MainStep)
  /\ WF_chWriterVars(TickerFires)
  /\ SF_chWriterVars(LoopRuns /\ Receive)
  /\ SF_chWriterVars(LoopRuns /\ TakeTick)
  /\ SF_chWriterVars(LoopRuns /\ SeeClosed)

FairChWriterSpec == ChWriterSpec /\ ChWriterFairness

-----------------------------------------------------------------------------
(* Properties. *)

ChWriterTypeOK ==
  /\ WriterTypeOK
  /\ consumer \in ConsumerPlaces /\ main \in MainPlaces
  /\ {position, handled, committed, flushed} \subseteq 0..LastRow
  /\ starts \in 1..MaxStarts
  /\ stored \cup gone \subseteq Rows

Increasing(s) == \A i \in 1 .. Len(s) - 1 : s[i] < s[i + 1]

(* What one process inserts, collects and queues is in offset order with   *)
(* no row twice, and starts after the offset it resumed from: a row is     *)
(* inserted twice only by processes between which its offset was not       *)
(* committed.                                                              *)
WrittenInOffsetOrder ==
  /\ Increasing(<<flushed>> \o Pipeline)
  /\ \A r \in InMemory : r <= handled \/ (sent = 1 /\ r = handled + 1)

(* No row vanishes without a trace, and a committed offset vouches for     *)
(* this much and no more: every row handled is stored, or in memory, or    *)
(* malformed, or went one of the three ways the code has of losing it.     *)
HandledRowsAccounted ==
  /\ committed <= handled
  /\ \A r \in 1..handled : r \in stored \cup InMemory \cup gone \cup Malformed

(* The consumer and its writer hand rows on as Relay says: a row the        *)
(* handler was given is in the channel or in a batch once, until it is      *)
(* inserted or lost with it, and what is committed was handled              *)
(* (consumer.go:119, writer.go:129-218).                                    *)
Relaying == INSTANCE Relay WITH
  LastRecord <- LastRow, reached <- handled + sent, held <- InMemory, done <- stored, lost <- gone

ImplementsRelay == Relaying!RelaySpec

(* A row accepted by Write does not stay in memory: even a batch that      *)
(* never fills is inserted at a tick or at Stop, unless the process ends.  *)
RowsLeaveMemory == \A r \in Rows \ Malformed : r \in InMemory ~> r \notin InMemory

(* The Stop that main calls on a signal returns, unless the process ends   *)
(* first: the loop sees the closed channel, inserts the remainder and ends *)
(* (writer.go:226-229). Whether the process ends is another matter: the    *)
(* deferred closes may hang (main.go:64).                                  *)
StopTerminates == main = "cancelled" ~> main \in {"returning", "down"}

(* The deferred second Stop panics (main.go:57), but only when the first   *)
(* has drained everything: the panic takes no committed row with it.       *)
SecondStopLosesNothing == [][DeferredStopPanics => gone' = gone]_chWriterVars

(* docs/LLD.md 5.3: offsets are committed after a successful insert, so    *)
(* delivery to ClickHouse is at least once. No committed row is missing    *)
(* from both ClickHouse and this process.                                  *)
AtLeastOnce == \A r \in (1..committed) \ Malformed : r \in stored \cup InMemory

(* writer.go: "Stop gracefully flushes pending rows and stops the writer". *)
(* A process told to stop, and not killed, loses no committed row.         *)
StopFlushesPending == [][WritePanics \/ DeferredStopPanics => gone' = gone]_chWriterVars
=============================================================================
