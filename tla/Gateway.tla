------------------------------- MODULE Gateway -------------------------------
(***************************************************************************)
(* cmd/gateway/main.go: the ingest handlers, the buffer of the Kafka       *)
(* producer (internal/kafka/producer.go) they publish into, and the way    *)
(* main stops. A handler filters the events of its batch one by one,       *)
(* publishes what is new as one record and answers; the record reaches the *)
(* topic, or is given up, later.                                           *)
(*                                                                         *)
(* Refusals before the filter (key, rate, body, more than 500 events)      *)
(* change nothing and are in Ingest. PublishAsync fails only on values     *)
(* that cannot be marshalled, which decoded JSON never is. A record that   *)
(* is retried may enter the topic twice; the topic is a set here. The copy *)
(* that a goroutine inserts into MongoDB is read by nothing in the gateway *)
(* and left out.                                                           *)
(***************************************************************************)
EXTENDS DedupFilter, Sequences

CONSTANT MaxBuffered \* records the producer buffers

ASSUME GatewayAssumption == MaxBuffered \in Nat \ {0}

VARIABLES
  gateway,   (* what main is doing                                         *)
  place,     (* where each handler is                                      *)
  rest,      (* events it has yet to test                                  *)
  new,       (* newEvents: events it will publish                          *)
  buffer,    (* records Produce took and no broker has acknowledged        *)
  rawEvents, (* events in the topic raw-events                             *)
  (* History variables. *)
  lost,      (* events given up or gone with a process, and not in the topic *)
  mistaken   (* events the filter took for known that it did not know      *)

handlerVars == <<place, rest, new>>
storeVars == <<buffer, rawEvents, lost>>
gatewayVars == <<filterVars, gateway, handlerVars, storeVars, mistaken>>

HandlerPlaces == {"free", "testing", "publishing", "answering"}

IdleHandlers ==
  /\ place = [h \in Handler |-> "free"]
  /\ rest = [h \in Handler |-> <<>>]
  /\ new = [h \in Handler |-> {}]

GatewayInit ==
  /\ FilterInit /\ IdleHandlers
  /\ gateway = "serving"
  /\ buffer = <<>> /\ rawEvents = {} /\ lost = {} /\ mistaken = {}

Begin(h, p, r, n) ==
  /\ gateway = "serving" /\ place[h] = "free"
  /\ place' = [place EXCEPT ![h] = p]
  /\ rest' = [rest EXCEPT ![h] = r]
  /\ new' = [new EXCEPT ![h] = n]
  /\ UNCHANGED <<filterVars, gateway, storeVars, mistaken>>

HandleIngest(h, events) == Begin(h, "testing", events, {})

\* A single event, published without asking the filter.
HandleTrack(h, e) == Begin(h, "publishing", <<>>, {e})

\* Publishes a user_updated event with an id of its own.
HandleIdentify(h) == Begin(h, "publishing", <<>>, {})

Testing(h) == place[h] = "testing" /\ rest[h] # <<>>

FilterFinds(h) ==
  /\ Testing(h) /\ Seen(h, Head(rest[h]))
  /\ rest' = [rest EXCEPT ![h] = Tail(@)]
  /\ mistaken' = mistaken \cup ({Head(rest[h])} \ bloom)
  /\ UNCHANGED <<gateway, place, new, storeVars>>

FilterMisses(h) ==
  /\ Testing(h) /\ TestNew(h, Head(rest[h]))
  /\ UNCHANGED <<gateway, handlerVars, storeVars, mistaken>>

\* Mutant: an event just added counts as known.
FilterAddsOnly(h) ==
  /\ Testing(h) /\ Add(h)
  /\ rest' = [rest EXCEPT ![h] = Tail(@)]
  /\ UNCHANGED <<gateway, place, new, storeVars, mistaken>>

FilterAdds(h) ==
  /\ Testing(h) /\ Add(h)
  /\ new' = [new EXCEPT ![h] = @ \cup {Head(rest[h])}]
  /\ rest' = [rest EXCEPT ![h] = Tail(@)]
  /\ UNCHANGED <<gateway, place, storeVars, mistaken>>

Tested(h) == place[h] = "testing" /\ rest[h] = <<>>

\* Every event was filtered: 202 without a record.
NothingNew(h) ==
  /\ Tested(h) /\ new[h] = {}
  /\ place' = [place EXCEPT ![h] = "answering"]
  /\ UNCHANGED <<filterVars, gateway, rest, new, storeVars, mistaken>>

ToPublish(h) == place[h] = "publishing" \/ (Tested(h) /\ new[h] # {})

\* Mutant: a full buffer drops the record, and the client still reads 202.
PublishOrDrop(h) ==
  /\ ToPublish(h)
  /\ buffer' = IF Len(buffer) < MaxBuffered THEN Append(buffer, new[h]) ELSE buffer
  /\ new' = [new EXCEPT ![h] = {}]
  /\ place' = [place EXCEPT ![h] = "answering"]
  /\ UNCHANGED <<filterVars, gateway, rest, rawEvents, lost, mistaken>>

\* Mutant: the producer buffers without a limit.
PublishUnbounded(h) ==
  /\ ToPublish(h)
  /\ buffer' = Append(buffer, new[h])
  /\ new' = [new EXCEPT ![h] = {}]
  /\ place' = [place EXCEPT ![h] = "answering"]
  /\ UNCHANGED <<filterVars, gateway, rest, rawEvents, lost, mistaken>>

\* PublishAsync, blocked while the producer's buffer is full.
Publish(h) ==
  /\ ToPublish(h)
  /\ Len(buffer) < MaxBuffered
  /\ buffer' = Append(buffer, new[h])
  /\ new' = [new EXCEPT ![h] = {}]
  /\ place' = [place EXCEPT ![h] = "answering"]
  /\ UNCHANGED <<filterVars, gateway, rest, rawEvents, lost, mistaken>>

Answer(h) ==
  /\ place[h] = "answering"
  /\ place' = [place EXCEPT ![h] = "free"]
  /\ UNCHANGED <<filterVars, gateway, rest, new, storeVars, mistaken>>

\* A broker acknowledges the oldest record, or its retries are used up.
Deliver ==
  /\ buffer # <<>>
  /\ buffer' = Tail(buffer)
  /\ rawEvents' = rawEvents \cup Head(buffer)
  /\ lost' = lost \ Head(buffer)
  /\ UNCHANGED <<filterVars, gateway, handlerVars, mistaken>>

GiveUp ==
  /\ buffer # <<>>
  /\ buffer' = Tail(buffer)
  /\ lost' = lost \cup (Head(buffer) \ rawEvents)
  /\ UNCHANGED <<filterVars, gateway, handlerVars, rawEvents, mistaken>>

RotateFilter == Rotate /\ UNCHANGED <<gateway, handlerVars, storeVars, mistaken>>

\* main flushes the producer first; the server accepts requests until that is
\* over, with the buffer empty or with the deadline.
Shutdown ==
  /\ gateway = "serving" /\ gateway' = "draining"
  /\ UNCHANGED <<filterVars, handlerVars, storeVars, mistaken>>

InBuffer == UNION {buffer[i] : i \in DOMAIN buffer}
InHands == UNION {new[h] : h \in Handler}

\* srv.Shutdown returns once the handlers are idle, or with the deadline, and
\* the deferred producer.Close fails what is still buffered; or the process
\* is killed. Another takes its place; until then requests fail.
Restart ==
  /\ gateway' = "serving"
  /\ lost' = lost \cup ((InBuffer \cup InHands) \ rawEvents)
  /\ buffer' = <<>>
  /\ place' = [h \in Handler |-> "free"]
  /\ rest' = [h \in Handler |-> <<>>] /\ new' = [h \in Handler |-> {}]
  /\ adding' = [h \in Handler |-> NoEvent]
  /\ bloom' = {} /\ admitted' = [e \in Event |-> 0]
  /\ UNCHANGED <<rawEvents, mistaken>>

HandlerMoves(h) ==
  FilterFinds(h) \/ FilterMisses(h) \/ FilterAdds(h) \/ NothingNew(h) \/ Publish(h)

GatewayNext ==
  \/ \E h \in Handler :
       \/ HandlerMoves(h) \/ Answer(h) \/ HandleIdentify(h)
       \/ \E e \in Event : HandleTrack(h, e)
       \/ \E events \in Seq(Event) : HandleIngest(h, events)
  \/ Deliver \/ GiveUp \/ RotateFilter \/ Shutdown \/ Restart

GatewaySpec == GatewayInit /\ [][GatewayNext]_gatewayVars

GatewayTypeOK ==
  /\ FilterTypeOK
  /\ gateway \in {"serving", "draining"}
  /\ place \in [Handler -> HandlerPlaces]
  /\ rest \in [Handler -> Seq(Event)]
  /\ new \in [Handler -> SUBSET Event]
  /\ buffer \in Seq(SUBSET Event) /\ Len(buffer) <= MaxBuffered
  /\ {rawEvents, lost, mistaken} \subseteq SUBSET Event

\* An id the filter will turn away belongs to an event that is on its way:
\* in a handler's hands, in the producer's buffer, in the topic, or lost by
\* the producer (main.go:319-346). Otherwise a client's retry would be
\* filtered and the event gone for good.
KnownIdsCovered == bloom \subseteq InHands \cup InBuffer \cup rawEvents \cup lost
=============================================================================
