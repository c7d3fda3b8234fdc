--------------------------- MODULE SessionService ---------------------------
(***************************************************************************)
(* cmd/session/main.go: the partition of enriched-events with one device's *)
(* events, consumed by ConsumeLoop into SessionEngine, and the records it  *)
(* publishes asynchronously. The gateway stamps an event's ServerTime; the *)
(* enricher appends it to the partition up to MaxDelay ticks later, so     *)
(* stamps may be out of order. The service may lag, and after a crash it   *)
(* processes the uncommitted events again, on the Redis state they have    *)
(* already changed.                                                        *)
(*                                                                         *)
(* A poll may return any number of records, so offsets may be committed    *)
(* after any of them. What a crash between the save in Process and the     *)
(* calls of PublishAsync loses, a crash after them loses as well.          *)
(***************************************************************************)
EXTENDS SessionEngine, SequencesExt

CONSTANTS
  MaxEvents,   (* bound: events of the device                              *)
  MaxDelay,    (* bound: ticks between stamp and append                    *)
  MaxFailures, (* bound: calls of Redis or Kafka that failed               *)
  MaxCrashes   (* bound: crashes of the service                            *)

ASSUME ServiceAssumption ==
  /\ {MaxEvents, MaxFailures, MaxCrashes} \subseteq Nat
  /\ MaxDelay \in Nat /\ 2 * MaxDelay <= Timeout

VARIABLES
  topic,      (* ServerTimes of the events, in partition order             *)
  position,   (* events processed since the last commit or restart         *)
  committed,  (* events committed                                          *)
  outbox,     (* records the producer has yet to send, oldest first        *)
  failures,   (* failed calls so far                                       *)
  crashes,    (* crashes so far                                            *)
  (* History variables. *)
  published,  (* records in the session-events topic                       *)
  lost        (* records the producer gave up or a crash took with it      *)

kafkaVars == <<topic, position, committed>>
producerVars == <<outbox, published, lost>>
countVars == <<failures, crashes>>
serviceVars == <<sessionVars, kafkaVars, producerVars, countVars>>

Record(type, id) == [type |-> type, id |-> id]

ServiceInit ==
  /\ SessionInit
  /\ topic = <<>> /\ position = 0 /\ committed = 0
  /\ outbox = <<>> /\ published = {} /\ lost = {}
  /\ failures = 0 /\ crashes = 0

Arrive ==
  /\ Len(topic) < MaxEvents
  /\ \E t \in Times : t <= clock /\ clock <= t + MaxDelay /\ topic' = Append(topic, t)
  /\ UNCHANGED <<sessionVars, position, committed, producerVars, countVars>>

\* Mutant: a session that replaces a closed one is not announced.
RecordsWithoutRestart(found, t) ==
  <<Record("event", StateAfter(found, t).id)>>
    \o (IF Ends(found, t) = {} THEN <<>> ELSE <<Record("session_end", found.id)>>)
    \o (IF found = NoSession THEN <<Record("session_start", t)>> ELSE <<>>)

\* What the handler publishes: the event with its session id, then the
\* session events in the order Process appended them.
Records(found, t) ==
  <<Record("event", StateAfter(found, t).id)>>
    \o (IF Ends(found, t) = {} THEN <<>> ELSE <<Record("session_end", found.id)>>)
    \o (IF Starts(found, t) = {} THEN <<>> ELSE <<Record("session_start", t)>>)

FailedCalls(loadOk, saveOk) == (IF loadOk THEN 0 ELSE 1) + (IF saveOk THEN 0 ELSE 1)

Consume ==
  /\ position < Len(topic)
  /\ \E loadOk, saveOk \in BOOLEAN :
       /\ failures + FailedCalls(loadOk, saveOk) <= MaxFailures
       /\ failures' = failures + FailedCalls(loadOk, saveOk)
       /\ Process(topic[position + 1], loadOk, saveOk)
       /\ outbox' = outbox \o Records(Found(loadOk), topic[position + 1])
  /\ position' = position + 1
  /\ UNCHANGED <<topic, committed, published, lost, crashes>>

CommitOffsets ==
  /\ committed < position
  /\ committed' = position
  /\ UNCHANGED <<sessionVars, topic, position, producerVars, countVars>>

\* Mutant: records are sent without a key, over several partitions.
DeliverUnordered ==
  \E i \in 1 .. Len(outbox) :
    /\ outbox' = RemoveAt(outbox, i)
    /\ published' = published \cup {outbox[i]}
    /\ UNCHANGED <<sessionVars, kafkaVars, lost, countVars>>

\* The producer sends a partition's records in order.
Deliver ==
  /\ outbox # <<>>
  /\ outbox' = Tail(outbox)
  /\ published' = published \cup {Head(outbox)}
  /\ UNCHANGED <<sessionVars, kafkaVars, lost, countVars>>

\* A record is given up after its retries: the callback logs it.
GiveUp ==
  /\ outbox # <<>>
  /\ failures < MaxFailures
  /\ failures' = failures + 1
  /\ outbox' = Tail(outbox)
  /\ lost' = lost \cup {Head(outbox)}
  /\ UNCHANGED <<sessionVars, kafkaVars, published, crashes>>

Crash ==
  /\ crashes < MaxCrashes
  /\ crashes' = crashes + 1
  /\ position' = committed
  /\ outbox' = <<>>
  /\ lost' = lost \cup ToSet(outbox)
  /\ UNCHANGED <<sessionVars, topic, committed, published, failures>>

TimePasses == SessionTick /\ UNCHANGED <<kafkaVars, producerVars, countVars>>

ServiceNext ==
  Arrive \/ Consume \/ CommitOffsets \/ Deliver \/ GiveUp \/ Crash \/ TimePasses

ServiceSpec == ServiceInit /\ [][ServiceNext]_serviceVars

-----------------------------------------------------------------------------
(* Properties. *)

MembersOf(id) == {m[1] : m \in {n \in members : n[2] = id}}

(* The package comment: a session has no more than 30 minutes of           *)
(* inactivity between events. It holds with stamps out of order and any    *)
(* Redis failure until an event is processed a second time: a late         *)
(* duplicate may join a session it is far from.                            *)
NoGapInsideSession ==
  crashes = 0 =>
    \A id \in started : \A t \in MembersOf(id) :
      (\E u \in MembersOf(id) : u > t)
        => \E u \in MembersOf(id) : u > t /\ u <= t + Timeout

(* A session ends once and for good, as long as no call of Redis failed and *)
(* no event was processed twice: what is in Redis has not been ended, even *)
(* with stamps out of order and a service that lags. (A failed write       *)
(* leaves the ended session in Redis, and the next event ends it again.)   *)
EndedForGood ==
  crashes = 0 /\ failures = 0 /\ session # NoSession => session.id \notin ended

(* A reader of session-events that has seen a session's end has seen its    *)
(* start before, unless the producer lost it - which replay does not repair,*)
(* for the session is then found in Redis and not started again.            *)
EndsFollowStarts ==
  \A id \in Times :
    Record("session_end", id) \in published
      => Record("session_start", id) \in published \cup lost

(* The event that opens a session goes out before the session_start, with  *)
(* no more than the previous session's end in between (main.go:77-89), and *)
(* later events of the session behind both: who reads an event has the     *)
(* start already, or it is one of the next two records, or it is lost.     *)
StartsCloseBehind ==
  \A id \in Times :
    Record("event", id) \in published
      => \/ Record("session_start", id) \in published \cup lost
         \/ \E i \in 1..2 : i <= Len(outbox) /\ outbox[i] = Record("session_start", id)
=============================================================================
