------------------------------- MODULE Ingest -------------------------------
(***************************************************************************)
(* The Go SDK's client (GoSdk) and one gateway (Gateway) with HTTP between *)
(* them: a request or its answer may be lost, a client gives up after ten  *)
(* seconds while the handler goes on, and the application may send an      *)
(* event again. Other clients post to /v1/track and /v1/identify.          *)
(***************************************************************************)
EXTENDS GoSdk, Gateway

CONSTANT NoSender

ASSUME IngestAssumption == NoSender \notin Sender

VARIABLES
  client,  (* per handler, the SDK goroutine that waits for its answer     *)
  acked    (* history: events of batches the SDK read a 202 for            *)

ingestVars == <<sdkVars, gatewayVars, client, acked>>

IngestInit ==
  /\ SdkInit /\ GatewayInit
  /\ client = [h \in Handler |-> NoSender] /\ acked = {}

SdkMoves(s) ==
  /\ \/ Flush(s)
     \/ s = Loop /\ LoopStops
     \/ s \in App /\ (CallClose(s) \/ JoinReturns(s))
  /\ UNCHANGED <<gatewayVars, client, acked>>

Calls(a, e) ==
  /\ Track(a, e) \/ TrackNow(a, e)
  /\ UNCHANGED <<gatewayVars, client, acked>>

Waiting(s) == \E h \in Handler : client[h] = s

\* The request passes key, rate limit and body checks and gets a goroutine.
Receive(s, h) ==
  /\ at[s] = "posting" /\ ~Waiting(s)
  /\ HandleIngest(h, batch[s])
  /\ client' = [client EXCEPT ![h] = s]
  /\ UNCHANGED <<sdkVars, acked>>

\* The request is refused or lost, its answer is lost, or the client's
\* timeout ends: the handler, if any, does not notice.
PostFails(s) ==
  /\ PostReturns(s)
  /\ client' = [h \in Handler |-> IF client[h] = s THEN NoSender ELSE client[h]]
  /\ UNCHANGED <<gatewayVars, acked>>

Reply(h) ==
  /\ Answer(h)
  /\ client' = [client EXCEPT ![h] = NoSender]
  /\ IF client[h] = NoSender
     THEN UNCHANGED <<sdkVars, acked>>
     ELSE PostReturns(client[h]) /\ acked' = acked \cup {batch[client[h]][i] : i \in DOMAIN batch[client[h]]}

OtherRequest(h) ==
  /\ HandleIdentify(h) \/ \E e \in Event : HandleTrack(h, e)
  /\ UNCHANGED <<sdkVars, client, acked>>

Serve(h) == HandlerMoves(h) /\ UNCHANGED <<sdkVars, client, acked>>

ProducerMoves == (Deliver \/ GiveUp) /\ UNCHANGED <<sdkVars, client, acked>>

GatewayMoves == (RotateFilter \/ Shutdown) /\ UNCHANGED <<sdkVars, client, acked>>

\* Connections end with the process; their clients see an error (PostFails).
EndProcess ==
  /\ Restart
  /\ client' = [h \in Handler |-> NoSender]
  /\ UNCHANGED <<sdkVars, acked>>

IngestNext ==
  \/ \E s \in Sender : SdkMoves(s) \/ PostFails(s) \/ \E h \in Handler : Receive(s, h)
  \/ \E a \in App, e \in Event : Calls(a, e)
  \/ \E h \in Handler : Reply(h) \/ OtherRequest(h) \/ Serve(h)
  \/ ProducerMoves \/ GatewayMoves \/ EndProcess

IngestSpec == IngestInit /\ [][IngestNext]_ingestVars

IngestTypeOK ==
  /\ SdkTypeOK /\ GatewayTypeOK
  /\ client \in [Handler -> Sender \cup {NoSender}]
  /\ acked \subseteq Event

\* An event the SDK read a 202 for is in a handler's hands, in the buffer, in
\* the topic, lost by the producer, or was mistaken for a known one: the
\* gateway acknowledges before Kafka does (main.go:370-377), but never an
\* event it dropped itself.
AckedCovered == acked \subseteq InHands \cup InBuffer \cup rawEvents \cup lost \cup mistaken
=============================================================================
