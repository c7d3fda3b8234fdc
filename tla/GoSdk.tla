-------------------------------- MODULE GoSdk --------------------------------
(***************************************************************************)
(* sdk/go/client.go: a client that queues events and sends them in         *)
(* batches. Application goroutines call Track, TrackNow, Flush and Close;  *)
(* the goroutine flushLoop flushes on a ticker. Each appends or takes the  *)
(* queue under the mutex and sends what it took outside. The HTTP exchange *)
(* is in Ingest.                                                           *)
(*                                                                         *)
(* The application uses the client as its comments ask: nothing is tracked *)
(* once Close was called, and Close is called once. Identify sends a       *)
(* request of its own and touches no state of the client; encoding a batch *)
(* does not fail.                                                          *)
(***************************************************************************)
EXTENDS EventIds, Sequences, Integers

CONSTANTS
  App,       (* application goroutines                                     *)
  Loop,      (* flushLoop                                                  *)
  MaxBatch,  (* events that make Track flush                               *)
  MaxTracks  (* bound: calls of Track and TrackNow                         *)

Sender == App \cup {Loop}

ASSUME SdkAssumption == Loop \notin App /\ {MaxBatch, MaxTracks} \subseteq Nat \ {0}

VARIABLES
  queue,    (* c.queue                                                     *)
  at,       (* where each goroutine is                                     *)
  batch,    (* what it took from the queue and is sending                  *)
  stopped,  (* c.stopCh is closed                                          *)
  tracks    (* calls of Track and TrackNow so far                          *)

sdkVars == <<queue, at, batch, stopped, tracks>>

SdkPlaces == {"ready", "full", "posting", "joining", "ended"}

SdkInit ==
  /\ queue = <<>> /\ tracks = 0
  /\ at = [s \in Sender |-> "ready"]
  /\ batch = [s \in Sender |-> <<>>]
  /\ stopped = FALSE

CountTrack == ~stopped /\ tracks < MaxTracks /\ tracks' = tracks + 1

\* Appends under the mutex and reads there whether the batch is full.
Track(a, e) ==
  /\ at[a] = "ready"
  /\ CountTrack
  /\ queue' = Append(queue, e)
  /\ at' = [at EXCEPT ![a] = IF Len(queue') >= MaxBatch THEN "full" ELSE "ready"]
  /\ UNCHANGED <<batch, stopped>>

TrackNow(a, e) ==
  /\ at[a] = "ready"
  /\ CountTrack
  /\ at' = [at EXCEPT ![a] = "posting"]
  /\ batch' = [batch EXCEPT ![a] = <<e>>]
  /\ UNCHANGED <<queue, stopped>>

\* Called by the application, by Track when the queue was full, by Close and
\* by the ticker. Another goroutine may have taken the queue by then.
Flush(s) ==
  /\ at[s] \in {"ready", "full"}
  /\ IF queue = <<>>
     THEN at' = [at EXCEPT ![s] = "ready"] /\ UNCHANGED <<queue, batch>>
     ELSE /\ queue' = <<>>
          /\ batch' = [batch EXCEPT ![s] = queue]
          /\ at' = [at EXCEPT ![s] = "posting"]
  /\ UNCHANGED <<stopped, tracks>>

\* Close closes stopCh and waits for flushLoop ...
CallClose(a) ==
  /\ at[a] = "ready" /\ ~stopped
  /\ stopped' = TRUE
  /\ at' = [at EXCEPT ![a] = "joining"]
  /\ UNCHANGED <<queue, batch, tracks>>

LoopStops ==
  /\ at[Loop] = "ready" /\ stopped
  /\ at' = [at EXCEPT ![Loop] = "ended"]
  /\ UNCHANGED <<queue, batch, stopped, tracks>>

\* ... and then flushes what is left.
JoinReturns(a) ==
  /\ at[a] = "joining" /\ at[Loop] = "ended"
  /\ at' = [at EXCEPT ![a] = "full"]
  /\ UNCHANGED <<queue, batch, stopped, tracks>>

\* sendBatch returns. Flush drops its error; TrackNow reports it, and the
\* application may call again with the same event.
PostReturns(s) ==
  /\ at[s] = "posting"
  /\ at' = [at EXCEPT ![s] = "ready"]
  /\ batch' = [batch EXCEPT ![s] = <<>>]
  /\ UNCHANGED <<queue, stopped, tracks>>

SdkNext ==
  \/ \E a \in App, e \in Event : Track(a, e) \/ TrackNow(a, e)
  \/ \E s \in Sender : Flush(s) \/ PostReturns(s)
  \/ \E a \in App : CallClose(a) \/ JoinReturns(a)
  \/ LoopStops

SdkSpec == SdkInit /\ [][SdkNext]_sdkVars

SdkTypeOK ==
  /\ queue \in Seq(Event) /\ Len(queue) <= tracks
  /\ at \in [Sender -> SdkPlaces]
  /\ batch \in [Sender -> Seq(Event)]
  /\ stopped \in BOOLEAN
  /\ tracks \in 0..MaxTracks
=============================================================================
