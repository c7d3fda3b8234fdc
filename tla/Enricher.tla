------------------------------ MODULE Enricher ------------------------------
(***************************************************************************)
(* cmd/enricher/main.go over ConcurrentConsumeLoop of                      *)
(* internal/kafka/consumer.go: the loop polls raw-events, sends what it    *)
(* got through one channel to the workers and commits; a worker enriches a *)
(* record and publishes to enriched-events. On a signal main cancels the   *)
(* context, flushes the producer and returns; nobody waits for loop or     *)
(* workers. A process that ends loses its memory; the next one resumes     *)
(* after the last committed offset.                                        *)
(*                                                                         *)
(* One partition. A record is its offset, 1..LastRecord, and gives one     *)
(* event, or none if it is Malformed. What Enrich computes is left out.    *)
(***************************************************************************)
EXTENDS Integers, SequencesExt

CONSTANTS
  LastRecord,  (* records in the partition                                 *)
  Malformed,   (* records the handler skips                                *)
  Worker,
  MaxChannel,  (* capacity of the channel                                  *)
  MaxBuffered, (* records the producer buffers                             *)
  MaxPoll,     (* bound: records of one poll                               *)
  MaxStarts    (* bound: processes started                                 *)

Records == 1..LastRecord

ASSUME EnricherAssumption ==
  /\ LastRecord \in Nat /\ Malformed \subseteq Records
  /\ {MaxChannel, MaxBuffered, MaxPoll, MaxStarts} \subseteq Nat \ {0}

VARIABLES
  loop,      (* where the loop is                                          *)
  position,  (* last record polled                                         *)
  sent,      (* last record sent to the workers                            *)
  committed, (* last record committed                                      *)
  channel,   (* ch                                                         *)
  hand,      (* per worker, the record it handles, or 0                    *)
  buffer,    (* records Produce took and no broker has acknowledged        *)
  main,      (* where main is; "down": no process                          *)
  starts,    (* processes started so far                                   *)
  enriched,  (* records whose event is in enriched-events                  *)
  gone       (* history: records given up, and committed records in the    *)
             (* memory of a process that ended                             *)

loopVars == <<loop, position, sent, committed>>
workVars == <<channel, hand, buffer>>
mainVars == <<main, starts>>
fateVars == <<enriched, gone>>
enricherVars == <<loopVars, workVars, mainVars, fateVars>>

EmptyHands == [w \in Worker |-> 0]

EnricherInit ==
  /\ loop = "polling" /\ position = 0 /\ sent = 0 /\ committed = 0
  /\ channel = <<>> /\ hand = EmptyHands /\ buffer = <<>>
  /\ main = "running" /\ starts = 1
  /\ enriched = {} /\ gone = {}

\* Mutant: what was polled is committed at once.
PollAndCommit ==
  /\ loop = "polling"
  /\ position' \in {p \in Records : position < p /\ p <= position + MaxPoll}
  /\ committed' = position'
  /\ loop' = "sending"
  /\ UNCHANGED <<sent, workVars, mainVars, fateVars>>

\* A poll that was under way when the context ended may still return records.
Poll ==
  /\ loop = "polling"
  /\ position' \in {p \in Records : position < p /\ p <= position + MaxPoll}
  /\ loop' = "sending"
  /\ UNCHANGED <<sent, committed, workVars, mainVars, fateVars>>

\* Blocks while the channel is full, cancelled or not.
Send ==
  /\ loop = "sending" /\ sent < position
  /\ Len(channel) < MaxChannel
  /\ channel' = Append(channel, sent + 1)
  /\ sent' = sent + 1
  /\ UNCHANGED <<loop, position, committed, hand, buffer, mainVars, fateVars>>

\* Commits what was polled, handled or not; may fail, and does once cancelled.
Commit ==
  /\ loop = "sending" /\ sent = position
  /\ \/ main = "running" /\ committed' = position
     \/ UNCHANGED committed
  /\ loop' = "polling"
  /\ UNCHANGED <<position, sent, workVars, mainVars, fateVars>>

LoopEnds ==
  /\ loop = "polling" /\ main \notin {"running", "down"}
  /\ loop' = "ended"
  /\ UNCHANGED <<position, sent, committed, workVars, mainVars, fateVars>>

\* The workers empty the channel also when it is closed.
Take(w) ==
  /\ hand[w] = 0 /\ channel # <<>>
  /\ hand' = [hand EXCEPT ![w] = Head(channel)]
  /\ channel' = Tail(channel)
  /\ UNCHANGED <<buffer, loopVars, mainVars, fateVars>>

Skip(w) ==
  /\ hand[w] \in Malformed
  /\ hand' = [hand EXCEPT ![w] = 0]
  /\ UNCHANGED <<channel, buffer, loopVars, mainVars, fateVars>>

\* Mutant: the worker does not let go of what it published.
PublishAndKeep(w) ==
  /\ hand[w] \in Records \ Malformed
  /\ Len(buffer) < MaxBuffered
  /\ buffer' = Append(buffer, hand[w])
  /\ UNCHANGED <<channel, hand, loopVars, mainVars, fateVars>>

\* PublishAsync blocks while the producer's buffer is full.
Publish(w) ==
  /\ hand[w] \in Records \ Malformed
  /\ Len(buffer) < MaxBuffered
  /\ buffer' = Append(buffer, hand[w])
  /\ hand' = [hand EXCEPT ![w] = 0]
  /\ UNCHANGED <<channel, loopVars, mainVars, fateVars>>

\* A broker acknowledges the oldest record, or its retries are used up.
Deliver ==
  /\ buffer # <<>>
  /\ buffer' = Tail(buffer)
  /\ \/ enriched' = enriched \cup {Head(buffer)} /\ UNCHANGED gone
     \/ gone' = gone \cup {Head(buffer)} /\ UNCHANGED enriched
  /\ UNCHANGED <<channel, hand, loopVars, mainVars>>

Signal ==
  /\ main = "running" /\ starts < MaxStarts
  /\ main' = "flushing"
  /\ UNCHANGED <<starts, loopVars, workVars, fateVars>>

FlushReturns ==
  /\ main = "flushing" /\ buffer = <<>>
  /\ main' = "returning"
  /\ UNCHANGED <<starts, loopVars, workVars, fateVars>>

InMemory == ToSet(channel) \cup ToSet(buffer) \cup ({hand[w] : w \in Worker} \ {0})

\* main returns, or the process is killed. What is not committed will be
\* polled again.
ProcessEnds ==
  /\ main' = "down" /\ loop' = "ended"
  /\ gone' = gone \cup {r \in InMemory : r <= committed}
  /\ channel' = <<>> /\ hand' = EmptyHands /\ buffer' = <<>>
  /\ UNCHANGED <<position, sent, committed, starts, enriched>>

\* The deferred producer.Close and consumer.Close come first, and the latter
\* may hang under BlockRebalanceOnPoll; then the orchestrator's kill, a minute
\* after the signal, is what ends the process.
Return == main = "returning" /\ ProcessEnds
Crash == main # "down" /\ starts < MaxStarts /\ ProcessEnds

Restart ==
  /\ main = "down"
  /\ main' = "running" /\ starts' = starts + 1
  /\ loop' = "polling" /\ position' = committed /\ sent' = committed
  /\ UNCHANGED <<committed, workVars, fateVars>>

LoopStep == Poll \/ Send \/ Commit \/ LoopEnds
WorkerStep(w) == Take(w) \/ Skip(w) \/ Publish(w)
MainStep == FlushReturns \/ Return \/ Restart

EnricherNext ==
  \/ LoopStep \/ (\E w \in Worker : WorkerStep(w))
  \/ Deliver \/ Signal \/ Crash \/ MainStep

\* Goroutines run, the producer settles every record, and the orchestrator
\* (deployments/k8s/enricher/deployment.yaml:22) kills a process that was told
\* to end and does not, and restarts it. Signals and crashes have no fairness.
EnricherSpec ==
  /\ EnricherInit /\ [][EnricherNext]_enricherVars
  /\ WF_enricherVars(LoopStep) /\ WF_enricherVars(Deliver) /\ WF_enricherVars(MainStep)
  /\ \A w \in Worker : WF_enricherVars(WorkerStep(w))

EnricherTypeOK ==
  /\ loop \in {"polling", "sending", "ended"}
  /\ committed \in 0..LastRecord /\ sent \in committed..LastRecord /\ position \in sent..LastRecord
  /\ channel \in Seq(Records) /\ Len(channel) <= MaxChannel
  /\ hand \in [Worker -> 0..LastRecord]
  /\ buffer \in Seq(Records) /\ Len(buffer) <= MaxBuffered
  /\ main \in {"running", "flushing", "returning", "down"}
  /\ starts \in 1..MaxStarts
  /\ enriched \subseteq Records /\ gone \subseteq Records

\* The loop and its workers hand records on as Relay says: one process takes
\* each record once and publishes it at most once, whichever worker gets it,
\* commits none it has not sent to the workers, and a restart goes back to
\* what was committed (consumer.go:141-171).
Relaying == INSTANCE Relay WITH
  reached <- IF main = "down" THEN committed ELSE sent,
  held <- InMemory \ Malformed,
  done <- enriched,
  lost <- gone \ Malformed

ImplementsRelay == Relaying!RelaySpec

\* Every well-formed record is in the end enriched, given up by the producer,
\* or was committed and in the memory of a process that ended: committing
\* before the workers are done (consumer.go:168) loses nothing else, and a
\* full channel, a full buffer and blocked workers never wait on each other
\* for ever.
EveryRecordSettled ==
  \A r \in Records \ Malformed : <>(r \in enriched \cup gone)
=============================================================================
