---------------------------- MODULE SessionProofs ----------------------------
(***************************************************************************)
(* Proofs about SessionService: what Process promises of the sessions of a *)
(* device, for any timeout, grace, horizon, delay, number of failures and  *)
(* of crashes. The service only calls Process with the stamp of an event   *)
(* in the partition, which lies in the past: ServiceSpec implements        *)
(* SessionSpec, about which the invariants are proved.                     *)
(***************************************************************************)
EXTENDS SessionService, TLAPS

SessionInv == SessionTypeOK /\ EveryIdStarted /\ StartsAccounted

(* Facts about the operators of Process.                                   *)

(* What loadSession returns is a state of the device, or no session.       *)
LEMMA FoundType ==
  ASSUME SessionTypeOK, NEW loadOk \in BOOLEAN
  PROVE  /\ Found(loadOk) \in SessionStates \cup {NoSession}
         /\ Found(loadOk) = session \/ Found(loadOk) = NoSession
  BY DEF SessionTypeOK, Found

(* Process leaves a state in which the event is the last one, of a session *)
(* just started or of the one it found.                                    *)
LEMMA StateAfterType ==
  ASSUME SessionAssumption,
         NEW found \in SessionStates \cup {NoSession}, NEW t \in Times
  PROVE  /\ StateAfter(found, t) \in SessionStates
         /\ StateAfter(found, t) # NoSession
         /\ IF Opens(found, t)
              THEN StateAfter(found, t).id = t /\ Starts(found, t) = {t}
              ELSE StateAfter(found, t).id = found.id /\ Starts(found, t) = {}
         /\ Ends(found, t) = IF TimedOut(found, t) THEN {found.id} ELSE {}
  <1>1. found # NoSession => found.id \in Times
    BY DEF SessionStates
  <1>2. StateAfter(found, t) \in SessionStates
    BY <1>1 DEF StateAfter, Opens, SessionStates
  <1>3. QED
    BY <1>1, <1>2 DEF StateAfter, Opens, Starts, Ends, SessionAssumption

(* A device without a session satisfies the invariant.                     *)
LEMMA InitSatisfiesInv == SessionAssumption /\ SessionInit => SessionInv
  BY DEF SessionAssumption, SessionInit, SessionInv, SessionTypeOK, EveryIdStarted,
         StartsAccounted, Times

(* Process preserves it, whichever of its two Redis calls fail.            *)
LEMMA ProcessKeepsInv ==
  ASSUME SessionAssumption, SessionInv,
         NEW t \in Times, NEW loadOk \in BOOLEAN, NEW saveOk \in BOOLEAN,
         Process(t, loadOk, saveOk)
  PROVE  SessionInv'
  <1> DEFINE found == Found(loadOk)
             after == StateAfter(found, t)
  <1>1. /\ found \in SessionStates \cup {NoSession}
        /\ found = session \/ found = NoSession
    BY FoundType DEF SessionInv
  <1>2. /\ after \in SessionStates
        /\ after # NoSession
        /\ after.id \in Times
    BY <1>1, StateAfterType DEF SessionStates
  <1>3. Opens(found, t) => after.id = t /\ Starts(found, t) = {t}
    BY <1>1, StateAfterType
  <1>4. ~ Opens(found, t) =>
          /\ after.id = found.id /\ Starts(found, t) = {} /\ Ends(found, t) = {}
          /\ found = session /\ session # NoSession
    BY <1>1, StateAfterType DEF Opens
  <1>5. TimedOut(found, t) =>
          Ends(found, t) = {found.id} /\ found = session /\ session # NoSession
    BY <1>1 DEF Ends, TimedOut
  <1>6. ~ TimedOut(found, t) => Ends(found, t) = {}
    BY DEF Ends
  <1>7. /\ started' = started \cup Starts(found, t)
        /\ ended' = ended \cup Ends(found, t)
        /\ members' = members \cup {<<t, after.id>>}
        /\ clock' = clock
    BY DEF Process
  <1>8. /\ session' = IF saveOk THEN after ELSE session
        /\ ttl' = IF saveOk THEN Timeout + Grace ELSE ttl
    BY DEF Process, Save
  <1>9. forgotten' = forgotten \cup
          (({after.id} \cup (IF found = NoSession THEN IdIn(session) ELSE {})) \ IdIn(session'))
    BY DEF Process, Forget
  <1>10. session # NoSession => session.id \in Times
    BY DEF SessionInv, SessionTypeOK, SessionStates
  <1> HIDE DEF found, after
  <1>11. SessionTypeOK'
    <2>1. /\ (session \in SessionStates \cup {NoSession})'
          /\ (session = NoSession <=> ttl = 0)'
          /\ (ttl \in 0 .. Timeout + Grace)'
      BY <1>2, <1>8 DEF SessionInv, SessionTypeOK, SessionAssumption
    <2>2. /\ (started \subseteq Times)' /\ (ended \subseteq Times)'
          /\ (members \subseteq Times \X Times)'
      BY <1>2, <1>3, <1>4, <1>5, <1>6, <1>7, <1>10 DEF SessionInv, SessionTypeOK
    <2>3. (forgotten \subseteq Times)'
      BY <1>2, <1>9, <1>10 DEF SessionInv, SessionTypeOK, IdIn
    <2> QED
      BY <1>7, <2>1, <2>2, <2>3 DEF SessionInv, SessionTypeOK
  <1>12. after.id \in started'
    <2>1. CASE Opens(found, t)
      BY <2>1, <1>3, <1>7
    <2>2. CASE ~ Opens(found, t)
      BY <2>2, <1>4, <1>7 DEF SessionInv, EveryIdStarted
    <2> QED
      BY <2>1, <2>2
  <1>13. EveryIdStarted'
    <2>1. (ended \subseteq started)'
      BY <1>5, <1>6, <1>7 DEF SessionInv, EveryIdStarted
    <2>2. (session # NoSession => session.id \in started)'
      BY <1>7, <1>8, <1>12 DEF SessionInv, EveryIdStarted
    <2>3. \A m \in members' : m[2] \in started'
      BY <1>7, <1>12 DEF SessionInv, EveryIdStarted
    <2> QED
      BY <2>1, <2>2, <2>3 DEF EveryIdStarted
  <1>14. StartsAccounted'
    <2> SUFFICES ASSUME NEW id \in started',
                        id \notin ended', id \notin forgotten'
                 PROVE  session' # NoSession /\ session'.id = id
      BY DEF StartsAccounted
    <2>1. CASE id \in Starts(found, t)
      <3>1. after.id = id
        BY <2>1, <1>3, <1>4
      <3>2. id \in IdIn(session')
        BY <3>1, <1>9
      <3> QED
        BY <3>2 DEF IdIn
    <2>2. CASE id \in started
      <3>1. session # NoSession /\ session.id = id
        BY <2>2, <1>7, <1>9 DEF SessionInv, StartsAccounted
      <3>2. CASE ~ saveOk
        BY <3>1, <3>2, <1>8
      <3>3. CASE saveOk
        <4>1. CASE found = NoSession
          <5>1. id \in IdIn(session')
            BY <4>1, <3>1, <1>9 DEF IdIn
          <5> QED
            BY <5>1 DEF IdIn
        <4>2. CASE found = session
          <5>1. ~ TimedOut(found, t)
            BY <4>2, <3>1, <1>5, <1>7
          <5>2. ~ Opens(found, t)
            BY <4>2, <5>1, <3>1 DEF Opens
          <5> QED
            BY <4>2, <5>2, <3>1, <3>3, <1>2, <1>4, <1>8
        <4> QED
          BY <4>1, <4>2, <1>1
      <3> QED
        BY <3>2, <3>3
    <2> QED
      BY <1>7, <2>1, <2>2
  <1> QED
    BY <1>11, <1>13, <1>14 DEF SessionInv

(* The expiry of the key preserves it: the session is forgotten.           *)
LEMMA TickKeepsInv ==
  ASSUME SessionAssumption, SessionInv, SessionTick
  PROVE  SessionInv'
  <1> DEFINE expires == session # NoSession /\ ttl <= 1
  <1>1. /\ clock' = clock + 1 /\ clock < Horizon
        /\ ttl' = IF ttl > 0 THEN ttl - 1 ELSE 0
        /\ session' = IF expires THEN NoSession ELSE session
        /\ forgotten' = IF expires THEN forgotten \cup {session.id} ELSE forgotten
        /\ UNCHANGED <<started, ended, members>>
    BY DEF SessionTick
  <1>2. session # NoSession => session.id \in Times
    BY DEF SessionInv, SessionTypeOK, SessionStates
  <1>3. SessionTypeOK'
    <2>1. (clock \in Times)'
      BY <1>1 DEF SessionInv, SessionTypeOK, SessionAssumption, Times
    <2>2. /\ (session \in SessionStates \cup {NoSession})'
          /\ (ttl \in 0 .. Timeout + Grace)'
          /\ (session = NoSession <=> ttl = 0)'
      BY <1>1 DEF SessionInv, SessionTypeOK, SessionAssumption
    <2> QED
      BY <1>1, <1>2, <2>1, <2>2 DEF SessionInv, SessionTypeOK
  <1>4. EveryIdStarted'
    BY <1>1 DEF SessionInv, EveryIdStarted
  <1>5. StartsAccounted'
    BY <1>1 DEF SessionInv, StartsAccounted
  <1> QED
    BY <1>3, <1>4, <1>5 DEF SessionInv

(* So does every step of the engine.                                       *)
LEMMA NextKeepsInv ==
  ASSUME SessionAssumption, SessionInv, [SessionNext]_sessionVars
  PROVE  SessionInv'
  <1>1. CASE \E t \in Times, loadOk, saveOk \in BOOLEAN : t <= clock /\ Process(t, loadOk, saveOk)
    BY <1>1, ProcessKeepsInv
  <1>2. CASE SessionTick
    BY <1>2, TickKeepsInv
  <1>3. CASE UNCHANGED sessionVars
    BY <1>3 DEF sessionVars, SessionInv, SessionTypeOK, EveryIdStarted, StartsAccounted
  <1> QED
    BY <1>1, <1>2, <1>3 DEF SessionNext

(* The engine alone, called with any stamps in any order: its state is     *)
(* well formed, and every session it names was started and is ended, in    *)
(* Redis or forgotten by it.                                               *)
THEOREM SessionsAccounted == SessionSpec => []SessionInv
  <1>1. SessionInit => SessionInv
    BY InitSatisfiesInv, SessionAssumption
  <1>2. SessionInv /\ [SessionNext]_sessionVars => SessionInv'
    BY NextKeepsInv, SessionAssumption
  <1> QED
    BY <1>1, <1>2, PTL DEF SessionSpec

-----------------------------------------------------------------------------
(* The service implements the engine's specification.                      *)

(* Every event in the partition was stamped in the past.                   *)
StampsPast ==
  /\ clock \in Times
  /\ topic \in Seq(Times) /\ position \in Nat /\ committed \in Nat
  /\ \A i \in 1 .. Len(topic) : topic[i] <= clock

(* The service starts with an empty partition.                             *)
LEMMA ServiceInitStampsPast == ServiceInit => StampsPast
  BY SessionAssumption DEF SessionAssumption, ServiceInit, SessionInit, StampsPast, Times

(* A step of the service is one of the engine, on a stamp that lies in the *)
(* past, or changes nothing the engine knows of.                           *)
LEMMA ServiceStepIsEngineStep ==
  ASSUME StampsPast, [ServiceNext]_serviceVars
  PROVE  [SessionNext]_sessionVars
  <1>1. CASE Consume
    <2>1. /\ topic[position + 1] \in Times
          /\ topic[position + 1] <= clock
      BY <1>1 DEF Consume, StampsPast
    <2> QED
      BY <1>1, <2>1 DEF Consume, SessionNext
  <1>2. CASE TimePasses
    BY <1>2 DEF TimePasses, SessionNext
  <1>3. CASE Arrive \/ CommitOffsets \/ Deliver \/ GiveUp \/ Crash \/ UNCHANGED serviceVars
    BY <1>3 DEF Arrive, CommitOffsets, Deliver, GiveUp, Crash, serviceVars
  <1> QED
    BY <1>1, <1>2, <1>3 DEF ServiceNext

(* Stamps stay in the past, for time only advances.                        *)
LEMMA ServiceKeepsStampsPast ==
  ASSUME StampsPast, [ServiceNext]_serviceVars
  PROVE  StampsPast'
  <1>1. CASE Arrive
    <2>1. PICK t \in Times : t <= clock /\ topic' = Append(topic, t)
      BY <1>1 DEF Arrive
    <2>2. UNCHANGED <<clock, position, committed>>
      BY <1>1 DEF Arrive, sessionVars
    <2> QED
      BY <2>1, <2>2 DEF StampsPast, Times
  <1>2. CASE TimePasses
    <2>1. /\ clock' = clock + 1 /\ clock < Horizon
          /\ UNCHANGED kafkaVars
      BY <1>2 DEF TimePasses, SessionTick
    <2> QED
      BY <2>1, SessionAssumption DEF StampsPast, Times, kafkaVars, SessionAssumption
  <1>3. CASE Consume
    BY <1>3 DEF Consume, Process, StampsPast
  <1>4. CASE CommitOffsets \/ Deliver \/ GiveUp \/ Crash \/ UNCHANGED serviceVars
    BY <1>4 DEF CommitOffsets, Deliver, GiveUp, Crash, serviceVars, sessionVars, kafkaVars,
                StampsPast
  <1> QED
    BY <1>1, <1>2, <1>3, <1>4 DEF ServiceNext

(* cmd/session/main.go drives the engine within its specification.         *)
THEOREM ServiceImplementsEngine == ServiceSpec => SessionSpec
  <1>1. ServiceInit => SessionInit /\ StampsPast
    BY ServiceInitStampsPast DEF ServiceInit
  <1>2. StampsPast /\ [ServiceNext]_serviceVars => StampsPast' /\ [SessionNext]_sessionVars
    BY ServiceStepIsEngineStep, ServiceKeepsStampsPast
  <1> QED
    BY <1>1, <1>2, PTL DEF ServiceSpec, SessionSpec

(* The sessions' state is well formed, its TTL included.                   *)
THEOREM SessionTypeCorrect == ServiceSpec => []SessionTypeOK
  <1>1. SessionInv => SessionTypeOK
    BY DEF SessionInv
  <1> QED
    BY <1>1, ServiceImplementsEngine, SessionsAccounted, PTL

(* No event, no session_end and no state in Redis names a session that was *)
(* not started, whatever fails and however often events are replayed.      *)
THEOREM IdsAlwaysStarted == ServiceSpec => []EveryIdStarted
  <1>1. SessionInv => EveryIdStarted
    BY DEF SessionInv
  <1> QED
    BY <1>1, ServiceImplementsEngine, SessionsAccounted, PTL

(* Every session started and not ended is in Redis, or Redis forgot it.    *)
THEOREM StartsAlwaysAccounted == ServiceSpec => []StartsAccounted
  <1>1. SessionInv => StartsAccounted
    BY DEF SessionInv
  <1> QED
    BY <1>1, ServiceImplementsEngine, SessionsAccounted, PTL

(* How far EndedBeforeNextStart holds (docs/LLD.md 3.1): apart from the    *)
(* sessions Redis forgot, at most one is started and not ended.            *)
THEOREM OneSessionOpen ==
  ServiceSpec => [](\A i, j \in started \ (ended \cup forgotten) : i = j)
<1>1. ASSUME StartsAccounted PROVE \A i, j \in started \ (ended \cup forgotten) : i = j
  BY <1>1 DEF StartsAccounted
<1> QED
  BY <1>1, StartsAlwaysAccounted, PTL

-----------------------------------------------------------------------------
(* The order of the records in session-events.                             *)

RecordTypes == [type : {"event", "session_start", "session_end"}, id : Times]

Event(id) == Record("event", id)
Begin(id) == Record("session_start", id)
Close(id) == Record("session_end", id)

(* The strengthening of EndsFollowStarts: a session Process has started    *)
(* has its session_start in the topic, lost or still buffered, and where a *)
(* session_end is buffered its session_start is not behind it.             *)
OutboxInv ==
  /\ outbox \in Seq(RecordTypes)
  /\ \A id \in started : Begin(id) \in published \cup lost \cup ToSet(outbox)
  /\ \A i \in 1 .. Len(outbox) : \A id \in Times :
       outbox[i] = Close(id) =>
         \/ Begin(id) \in published \cup lost
         \/ \E j \in 1 .. i - 1 : outbox[j] = Begin(id)
  /\ EndsFollowStarts

(* The service starts with nothing to publish.                             *)
LEMMA ServiceInitOutbox == ServiceInit => OutboxInv
  BY DEF ServiceInit, SessionInit, OutboxInv, EndsFollowStarts, ToSet

(* The elements of three sequences put one behind the other.               *)
LEMMA ConcatThree ==
  ASSUME NEW S, NEW p \in Seq(S), NEW q \in Seq(S), NEW r \in Seq(S)
  PROVE  /\ p \o q \o r \in Seq(S)
         /\ Len(p \o q \o r) = Len(p) + Len(q) + Len(r)
         /\ \A i \in 1 .. Len(p) : (p \o q \o r)[i] = p[i]
         /\ \A i \in 1 .. Len(q) : (p \o q \o r)[Len(p) + i] = q[i]
         /\ \A i \in 1 .. Len(r) : (p \o q \o r)[Len(p) + Len(q) + i] = r[i]
         /\ \A i \in 1 .. Len(p \o q \o r) :
              \/ \E k \in 1 .. Len(p) : (p \o q \o r)[i] = p[k]
              \/ \E k \in 1 .. Len(q) : (p \o q \o r)[i] = q[k]
              \/ \E k \in 1 .. Len(r) : (p \o q \o r)[i] = r[k]
  <1> DEFINE pq == p \o q
             s == pq \o r
  <1>1. /\ pq \in Seq(S) /\ Len(pq) = Len(p) + Len(q)
        /\ \A i \in 1 .. Len(p) : pq[i] = p[i]
        /\ \A i \in 1 .. Len(q) : Len(p) + i \in 1 .. Len(pq) /\ pq[Len(p) + i] = q[i]
        /\ \A i \in 1 .. Len(pq) :
             i \in 1 .. Len(p) \/ (i - Len(p) \in 1 .. Len(q) /\ pq[i] = q[i - Len(p)])
    OBVIOUS
  <1> HIDE DEF pq
  <1>2. /\ s \in Seq(S) /\ Len(s) = Len(pq) + Len(r)
        /\ \A i \in 1 .. Len(pq) : s[i] = pq[i]
        /\ \A i \in 1 .. Len(r) : s[Len(pq) + i] = r[i]
        /\ \A i \in 1 .. Len(s) :
             i \in 1 .. Len(pq) \/ (i - Len(pq) \in 1 .. Len(r) /\ s[i] = r[i - Len(pq)])
    <2>1. pq \in Seq(S)
      BY <1>1
    <2> QED
      BY <2>1
  <1> HIDE DEF s
  <1>3. /\ \A i \in 1 .. Len(p) : s[i] = p[i]
        /\ \A i \in 1 .. Len(q) : s[Len(p) + i] = q[i]
        /\ \A i \in 1 .. Len(r) : s[Len(p) + Len(q) + i] = r[i]
    BY <1>1, <1>2
  <1>4. ASSUME NEW i \in 1 .. Len(s)
        PROVE \/ \E k \in 1 .. Len(p) : s[i] = p[k]
              \/ \E k \in 1 .. Len(q) : s[i] = q[k]
              \/ \E k \in 1 .. Len(r) : s[i] = r[k]
    <2>1. CASE i \in 1 .. Len(pq)
      <3>1. s[i] = pq[i]
        BY <2>1, <1>2
      <3>2. i \in 1 .. Len(p) \/ (i - Len(p) \in 1 .. Len(q) /\ pq[i] = q[i - Len(p)])
        BY <2>1, <1>1
      <3>3. CASE i \in 1 .. Len(p)
        BY <3>1, <3>3, <1>1
      <3> QED
        BY <3>1, <3>2, <3>3
    <2>2. CASE i - Len(pq) \in 1 .. Len(r) /\ s[i] = r[i - Len(pq)]
      BY <2>2
    <2> QED
      BY <2>1, <2>2, <1>2
  <1> QED
    BY <1>1, <1>2, <1>3, <1>4 DEF s, pq

(* What the handler publishes for one event.                               *)
LEMMA RecordsType ==
  ASSUME SessionAssumption,
         NEW found \in SessionStates \cup {NoSession}, NEW t \in Times
  PROVE  /\ Records(found, t) \in Seq(RecordTypes)
         /\ \A id \in Starts(found, t) :
              \E k \in 1 .. Len(Records(found, t)) : Records(found, t)[k] = Begin(id)
         /\ \A k \in 1 .. Len(Records(found, t)) : \A id \in Times :
              Records(found, t)[k] = Close(id) => found # NoSession /\ id = found.id
         /\ Len(Records(found, t)) <= 3
         /\ \A k \in 1 .. Len(Records(found, t)) : \A id \in Times :
              Records(found, t)[k] = Event(id)
                => id \in Starts(found, t) \/ (found # NoSession /\ id = found.id)
  <1>1. /\ StateAfter(found, t).id \in Times
        /\ Starts(found, t) \in {{}, {t}}
        /\ Ends(found, t) # {} => found # NoSession /\ found.id \in Times
    BY StateAfterType DEF SessionStates, Ends, TimedOut
  <1> DEFINE event == Record("event", StateAfter(found, t).id)
  <1>2. /\ event \in RecordTypes
        /\ Begin(t) \in RecordTypes
        /\ Ends(found, t) # {} => Close(found.id) \in RecordTypes
        /\ \A id \in Times : event # Close(id) /\ Begin(t) # Close(id)
        /\ \A id \in Times : Close(found.id) = Close(id) => id = found.id
    BY <1>1 DEF Begin, Close, Record, RecordTypes
  <1> DEFINE ends == IF Ends(found, t) = {} THEN <<>> ELSE <<Close(found.id)>>
             starts == IF Starts(found, t) = {} THEN <<>> ELSE <<Begin(t)>>
             records == <<event>> \o ends \o starts
  <1>3. Records(found, t) = records
    BY DEF Records, Begin, Close
  <1>4. /\ <<event>> \in Seq(RecordTypes) /\ ends \in Seq(RecordTypes)
        /\ starts \in Seq(RecordTypes)
        /\ \A k \in 1 .. Len(<<event>>) : <<event>>[k] = event
        /\ \A k \in 1 .. Len(ends) : Ends(found, t) # {} /\ ends[k] = Close(found.id)
        /\ \A k \in 1 .. Len(starts) : starts[k] = Begin(t)
        /\ Starts(found, t) # {} => 1 \in 1 .. Len(starts)
        /\ Len(<<event>>) = 1 /\ Len(ends) \in 0..1 /\ Len(starts) \in 0..1
    BY <1>2
  <1>8. ASSUME NEW id \in Times
        PROVE  /\ event = Event(id) => id = StateAfter(found, t).id
               /\ Begin(t) # Event(id) /\ Close(found.id) # Event(id)
    BY DEF Event, Begin, Close, Record
  <1>9. StateAfter(found, t).id \in Starts(found, t) \/ (found # NoSession /\ StateAfter(found, t).id = found.id)
    <2>1. ~Opens(found, t) => found # NoSession
      BY DEF Opens
    <2> QED
      BY <2>1, StateAfterType
  <1> HIDE DEF event, ends, starts
  <1>5. /\ records \in Seq(RecordTypes)
        /\ Len(records) = Len(<<event>>) + Len(ends) + Len(starts)
        /\ \A k \in 1 .. Len(starts) : records[Len(<<event>>) + Len(ends) + k] = starts[k]
        /\ \A i \in 1 .. Len(records) :
             \/ \E k \in 1 .. Len(<<event>>) : records[i] = <<event>>[k]
             \/ \E k \in 1 .. Len(ends) : records[i] = ends[k]
             \/ \E k \in 1 .. Len(starts) : records[i] = starts[k]
    BY <1>4, ConcatThree
  <1>6. ASSUME NEW id \in Starts(found, t)
        PROVE  \E k \in 1 .. Len(records) : records[k] = Begin(id)
    <2>1. id = t /\ 1 \in 1 .. Len(starts)
      BY <1>1, <1>4
    <2>2. /\ records[Len(<<event>>) + Len(ends) + 1] = Begin(t)
          /\ Len(<<event>>) + Len(ends) + 1 \in 1 .. Len(records)
      BY <2>1, <1>4, <1>5
    <2> QED
      BY <2>1, <2>2
  <1>7. ASSUME NEW i \in 1 .. Len(records), NEW id \in Times, records[i] = Close(id)
        PROVE  found # NoSession /\ id = found.id
    <2>1. records[i] \in {event, Begin(t)} \/ (Ends(found, t) # {} /\ records[i] = Close(found.id))
      BY <1>4, <1>5
    <2> QED
      BY <2>1, <1>1, <1>2, <1>7
  <1>10. ASSUME NEW i \in 1 .. Len(records), NEW id \in Times, records[i] = Event(id)
         PROVE  id \in Starts(found, t) \/ (found # NoSession /\ id = found.id)
    <2>1. records[i] \in {event, Begin(t), Close(found.id)}
      BY <1>4, <1>5
    <2>2. id = StateAfter(found, t).id
      BY <2>1, <1>8, <1>10
    <2> QED
      BY <2>2, <1>9
  <1>11. Len(records) <= 3
    BY <1>4, <1>5
  <1> QED
    BY <1>3, <1>5, <1>6, <1>7, <1>10, <1>11

(* Buffering a handler's records behind the others keeps their order.      *)
LEMMA ConsumeKeepsOutbox ==
  ASSUME SessionAssumption, StampsPast, SessionInv, OutboxInv, Consume
  PROVE  OutboxInv'
  <1>1. PICK loadOk \in BOOLEAN, saveOk \in BOOLEAN :
          /\ Process(topic[position + 1], loadOk, saveOk)
          /\ outbox' = outbox \o Records(Found(loadOk), topic[position + 1])
    BY DEF Consume
  <1> DEFINE t == topic[position + 1]
             found == Found(loadOk)
             new == Records(found, t)
  <1>2. t \in Times
    BY DEF StampsPast, Consume
  <1>3. /\ found \in SessionStates \cup {NoSession}
        /\ found # NoSession => found.id \in started
    BY FoundType DEF SessionInv, EveryIdStarted
  <1>4. /\ new \in Seq(RecordTypes)
        /\ \A id \in Starts(found, t) : \E k \in 1 .. Len(new) : new[k] = Begin(id)
        /\ \A k \in 1 .. Len(new) : \A id \in Times :
             new[k] = Close(id) => id \in started
    <2>1. /\ new \in Seq(RecordTypes)
          /\ \A id \in Starts(found, t) : \E k \in 1 .. Len(new) : new[k] = Begin(id)
          /\ \A k \in 1 .. Len(new) : \A id \in Times :
               new[k] = Close(id) => found # NoSession /\ id = found.id
      <3> HIDE DEF t, found
      <3> QED
        BY <1>2, <1>3, RecordsType
    <2> HIDE DEF t, found, new
    <2> QED
      BY <2>1, <1>3
  <1>5. /\ started' = started \cup Starts(found, t)
        /\ UNCHANGED <<published, lost>>
        /\ outbox' = outbox \o new
    BY <1>1 DEF Consume, Process
  <1> HIDE DEF t, found, new
  <1>6. /\ outbox' \in Seq(RecordTypes)
        /\ Len(outbox') = Len(outbox) + Len(new)
        /\ \A i \in 1 .. Len(outbox) : i \in 1 .. Len(outbox') /\ outbox'[i] = outbox[i]
        /\ \A k \in 1 .. Len(new) :
             Len(outbox) + k \in 1 .. Len(outbox') /\ outbox'[Len(outbox) + k] = new[k]
        /\ \A i \in 1 .. Len(outbox') :
             i \in 1 .. Len(outbox)
               \/ (i > Len(outbox) /\ i - Len(outbox) \in 1 .. Len(new)
                     /\ outbox'[i] = new[i - Len(outbox)])
    BY <1>4, <1>5 DEF OutboxInv
  <1>7. \A id \in started' : Begin(id) \in (published \cup lost)' \cup ToSet(outbox')
    <2> TAKE id \in started'
    <2>1. CASE id \in started
      BY <2>1, <1>5, <1>6 DEF OutboxInv, ToSet
    <2>2. CASE id \in Starts(found, t)
      BY <2>2, <1>4, <1>6 DEF ToSet
    <2> QED
      BY <1>5, <2>1, <2>2
  <1>8. ASSUME NEW i \in 1 .. Len(outbox'), NEW id \in Times, outbox'[i] = Close(id)
        PROVE  \/ Begin(id) \in (published \cup lost)'
               \/ \E j \in 1 .. i - 1 : outbox'[j] = Begin(id)
    <2>1. CASE i \in 1 .. Len(outbox)
      <3>1. outbox[i] = Close(id)
        BY <2>1, <1>6, <1>8
      <3>2. CASE Begin(id) \in published \cup lost
        BY <3>2, <1>5
      <3>3. CASE \E j \in 1 .. i - 1 : outbox[j] = Begin(id)
        <4>1. PICK j \in 1 .. i - 1 : outbox[j] = Begin(id)
          BY <3>3
        <4>2. j \in 1 .. Len(outbox)
          BY <2>1, <4>1 DEF OutboxInv
        <4> QED
          BY <4>1, <4>2, <1>6
      <3> QED
        BY <2>1, <3>1, <3>2, <3>3 DEF OutboxInv
    <2>2. CASE i > Len(outbox) /\ i - Len(outbox) \in 1 .. Len(new)
                 /\ outbox'[i] = new[i - Len(outbox)]
      <3>1. id \in started
        BY <2>2, <1>4, <1>8
      <3>2. CASE Begin(id) \in published \cup lost
        BY <3>2, <1>5
      <3>3. CASE Begin(id) \in ToSet(outbox)
        <4>1. PICK j \in 1 .. Len(outbox) : outbox[j] = Begin(id)
          BY <3>3 DEF ToSet
        <4>2. j \in 1 .. i - 1
          BY <2>2, <4>1 DEF OutboxInv
        <4> QED
          BY <4>1, <4>2, <1>6
      <3> QED
        BY <3>1, <3>2, <3>3 DEF OutboxInv
    <2> QED
      BY <1>6, <2>1, <2>2
  <1>9. EndsFollowStarts'
    BY <1>5 DEF OutboxInv, EndsFollowStarts
  <1> QED
    BY <1>6, <1>7, <1>8, <1>9 DEF OutboxInv

(* The producer takes the oldest record away: it is in the topic or lost.  *)
LEMMA SendKeepsOutbox ==
  ASSUME OutboxInv, Deliver \/ GiveUp
  PROVE  OutboxInv'
  <1>1. /\ outbox # <<>> /\ outbox' = Tail(outbox)
        /\ started' = started
        /\ (published \cup lost)' = published \cup lost \cup {outbox[1]}
        /\ published' \subseteq published \cup {outbox[1]}
    BY DEF Deliver, GiveUp, sessionVars
  <1>2. /\ outbox' \in Seq(RecordTypes)
        /\ Len(outbox') = Len(outbox) - 1
        /\ 1 \in 1 .. Len(outbox)
        /\ \A i \in 1 .. Len(outbox') :
             i + 1 \in 1 .. Len(outbox) /\ outbox'[i] = outbox[i + 1]
        /\ \A i \in 1 .. Len(outbox) :
             i = 1 \/ (i - 1 \in 1 .. Len(outbox') /\ outbox'[i - 1] = outbox[i])
    BY <1>1 DEF OutboxInv
  <1>3. \A id \in started' : Begin(id) \in (published \cup lost)' \cup ToSet(outbox')
    <2> TAKE id \in started'
    <2>1. CASE Begin(id) \in published \cup lost
      BY <2>1, <1>1
    <2>2. CASE Begin(id) \in ToSet(outbox)
      <3>1. PICK i \in 1 .. Len(outbox) : outbox[i] = Begin(id)
        BY <2>2 DEF ToSet, OutboxInv
      <3>2. CASE i = 1
        BY <3>1, <3>2, <1>1
      <3>3. CASE i # 1
        <4>1. i - 1 \in 1 .. Len(outbox') /\ outbox'[i - 1] = Begin(id)
          BY <3>1, <3>3, <1>2
        <4>2. DOMAIN outbox' = 1 .. Len(outbox')
          BY <1>2
        <4> QED
          BY <4>1, <4>2 DEF ToSet
      <3> QED
        BY <3>2, <3>3
    <2> QED
      BY <2>1, <2>2, <1>1 DEF OutboxInv
  <1>4. ASSUME NEW i \in 1 .. Len(outbox'), NEW id \in Times, outbox'[i] = Close(id)
        PROVE  \/ Begin(id) \in (published \cup lost)'
               \/ \E j \in 1 .. i - 1 : outbox'[j] = Begin(id)
    <2>1. i + 1 \in 1 .. Len(outbox) /\ outbox[i + 1] = Close(id)
      BY <1>2, <1>4
    <2>2. CASE Begin(id) \in published \cup lost
      BY <2>2, <1>1
    <2>3. CASE \E j \in 1 .. (i + 1) - 1 : outbox[j] = Begin(id)
      <3>1. PICK j \in 1 .. i : outbox[j] = Begin(id)
        BY <2>3, <1>2
      <3>2. CASE j = 1
        BY <3>1, <3>2, <1>1
      <3>3. CASE j # 1
        <4>1. j \in 1 .. Len(outbox) /\ j - 1 \in 1 .. i - 1
          BY <3>1, <3>3, <1>2
        <4>2. outbox'[j - 1] = Begin(id)
          BY <4>1, <3>1, <3>3, <1>2
        <4> QED
          BY <4>1, <4>2
      <3> QED
        BY <3>2, <3>3
    <2> QED
      BY <2>1, <2>2, <2>3 DEF OutboxInv
  <1>5. EndsFollowStarts'
    <2> SUFFICES ASSUME NEW id \in Times, Close(id) \in published'
                 PROVE  Begin(id) \in (published \cup lost)'
      BY DEF EndsFollowStarts, Begin, Close
    <2>1. CASE Close(id) \in published
      BY <2>1, <1>1 DEF OutboxInv, EndsFollowStarts, Begin, Close
    <2>2. CASE outbox[1] = Close(id)
      BY <2>2, <1>1, <1>2 DEF OutboxInv
    <2> QED
      BY <1>1, <2>1, <2>2
  <1> QED
    BY <1>2, <1>3, <1>4, <1>5 DEF OutboxInv

(* Every step of the service keeps the order of the records.               *)
LEMMA ServiceKeepsOutbox ==
  ASSUME SessionAssumption, StampsPast, SessionInv, OutboxInv, [ServiceNext]_serviceVars
  PROVE  OutboxInv'
  <1>1. CASE Consume
    BY <1>1, ConsumeKeepsOutbox
  <1>2. CASE Deliver \/ GiveUp
    BY <1>2, SendKeepsOutbox
  <1>3. CASE Crash
    <2>1. /\ outbox' = <<>> /\ lost' = lost \cup ToSet(outbox)
          /\ UNCHANGED <<started, published>>
      BY <1>3 DEF Crash, sessionVars
    <2> QED
      BY <2>1 DEF OutboxInv, EndsFollowStarts
  <1>4. CASE Arrive \/ CommitOffsets \/ TimePasses \/ UNCHANGED serviceVars
    BY <1>4 DEF Arrive, CommitOffsets, TimePasses, SessionTick, serviceVars, sessionVars,
                producerVars, OutboxInv, EndsFollowStarts
  <1> QED
    BY <1>1, <1>2, <1>3, <1>4 DEF ServiceNext

(* In session-events a session's end comes after its start, unless the     *)
(* start was given up by the producer or lost in a crash.                  *)
THEOREM EndsAlwaysFollowStarts == ServiceSpec => []EndsFollowStarts
  <1>1. ServiceInit => StampsPast /\ OutboxInv
    BY ServiceInitStampsPast, ServiceInitOutbox
  <1>2. StampsPast /\ SessionInv /\ OutboxInv /\ [ServiceNext]_serviceVars
          => StampsPast' /\ OutboxInv'
    BY ServiceKeepsStampsPast, ServiceKeepsOutbox, SessionAssumption
  <1>3. OutboxInv => EndsFollowStarts
    BY DEF OutboxInv
  <1> QED
    BY <1>1, <1>2, <1>3, ServiceImplementsEngine, SessionsAccounted, PTL DEF ServiceSpec

-----------------------------------------------------------------------------
(* How far an event may be ahead of its session_start.                     *)

(* The strengthening of StartsCloseBehind: what holds of an event in the   *)
(* topic holds of one still buffered, counted from its place.              *)
StartInv ==
  /\ \A i \in 1 .. Len(outbox) : \A id \in Times :
       outbox[i] = Event(id) =>
         \/ Begin(id) \in published \cup lost
         \/ \E j \in 1 .. Len(outbox) : j <= i + 2 /\ outbox[j] = Begin(id)
  /\ StartsCloseBehind

(* The handler buffers at most three records at a time, and an event of a  *)
(* session started before comes behind the start of it.                    *)
LEMMA ConsumeKeepsStarts ==
  ASSUME SessionAssumption, StampsPast, SessionInv, OutboxInv, StartInv, Consume
  PROVE  StartInv'
  <1>1. PICK loadOk \in BOOLEAN, saveOk \in BOOLEAN :
          /\ Process(topic[position + 1], loadOk, saveOk)
          /\ outbox' = outbox \o Records(Found(loadOk), topic[position + 1])
    BY DEF Consume
  <1> DEFINE t == topic[position + 1]
             found == Found(loadOk)
             new == Records(found, t)
  <1>2. t \in Times
    BY DEF StampsPast, Consume
  <1>3. /\ found \in SessionStates \cup {NoSession}
        /\ found # NoSession => found.id \in started
    BY FoundType DEF SessionInv, EveryIdStarted
  <1>4. /\ new \in Seq(RecordTypes) /\ Len(new) <= 3
        /\ \A id \in Starts(found, t) : \E k \in 1 .. Len(new) : new[k] = Begin(id)
        /\ \A k \in 1 .. Len(new) : \A id \in Times :
             new[k] = Event(id) => id \in Starts(found, t) \/ id \in started
    <2>1. /\ new \in Seq(RecordTypes) /\ Len(new) <= 3
          /\ \A id \in Starts(found, t) : \E k \in 1 .. Len(new) : new[k] = Begin(id)
          /\ \A k \in 1 .. Len(new) : \A id \in Times :
               new[k] = Event(id) => id \in Starts(found, t) \/ (found # NoSession /\ id = found.id)
      <3> HIDE DEF t, found
      <3> QED
        BY <1>2, <1>3, RecordsType
    <2> HIDE DEF t, found, new
    <2> QED
      BY <2>1, <1>3
  <1>5. UNCHANGED <<published, lost>> /\ outbox' = outbox \o new
    BY <1>1 DEF Consume
  <1> HIDE DEF t, found, new
  <1>6. /\ outbox' \in Seq(RecordTypes) /\ outbox \in Seq(RecordTypes)
        /\ Len(outbox') = Len(outbox) + Len(new)
        /\ \A i \in 1 .. Len(outbox) : i \in 1 .. Len(outbox') /\ outbox'[i] = outbox[i]
        /\ \A k \in 1 .. Len(new) :
             Len(outbox) + k \in 1 .. Len(outbox') /\ outbox'[Len(outbox) + k] = new[k]
        /\ \A i \in 1 .. Len(outbox') :
             i \in 1 .. Len(outbox)
               \/ (i > Len(outbox) /\ i - Len(outbox) \in 1 .. Len(new)
                     /\ outbox'[i] = new[i - Len(outbox)])
    BY <1>4, <1>5 DEF OutboxInv
  <1>7. ASSUME NEW i \in 1 .. Len(outbox'), NEW id \in Times, outbox'[i] = Event(id)
        PROVE  \/ Begin(id) \in (published \cup lost)'
               \/ \E j \in 1 .. Len(outbox') : j <= i + 2 /\ outbox'[j] = Begin(id)
    <2>1. CASE i \in 1 .. Len(outbox)
      <3>1. outbox[i] = Event(id)
        BY <2>1, <1>6, <1>7
      <3>2. \/ Begin(id) \in published \cup lost
            \/ \E j \in 1 .. Len(outbox) : j <= i + 2 /\ outbox[j] = Begin(id)
        BY <2>1, <3>1 DEF StartInv
      <3> QED
        BY <3>2, <1>5, <1>6
    <2>2. CASE i > Len(outbox) /\ i - Len(outbox) \in 1 .. Len(new)
                 /\ outbox'[i] = new[i - Len(outbox)]
      <3>1. id \in Starts(found, t) \/ id \in started
        BY <2>2, <1>4, <1>7
      <3>2. CASE id \in Starts(found, t)
        <4>1. PICK k \in 1 .. Len(new) : new[k] = Begin(id)
          BY <3>2, <1>4
        <4>2. Len(outbox) + k \in 1 .. Len(outbox') /\ outbox'[Len(outbox) + k] = Begin(id)
          BY <4>1, <1>6
        <4>3. Len(outbox) + k <= i + 2
          BY <2>2, <4>1, <1>4, <1>6
        <4> QED
          BY <4>2, <4>3
      <3>3. CASE id \in started
        <4>1. Begin(id) \in published \cup lost \cup ToSet(outbox)
          BY <3>3 DEF OutboxInv
        <4>2. CASE Begin(id) \in ToSet(outbox)
          <5>1. PICK j \in 1 .. Len(outbox) : outbox[j] = Begin(id)
            BY <4>2, <1>6 DEF ToSet
          <5> QED
            BY <2>2, <5>1, <1>6
        <4> QED
          BY <4>1, <4>2, <1>5
      <3> QED
        BY <3>1, <3>2, <3>3
    <2> QED
      BY <1>6, <2>1, <2>2
  <1>8. StartsCloseBehind'
    <2> SUFFICES ASSUME NEW id \in Times, Event(id) \in published
                 PROVE  \/ Begin(id) \in published \cup lost
                        \/ \E i \in 1..2 : i <= Len(outbox') /\ outbox'[i] = Begin(id)
      BY <1>5 DEF StartsCloseBehind, Event, Begin
    <2>1. \/ Begin(id) \in published \cup lost
          \/ \E i \in 1..2 : i <= Len(outbox) /\ outbox[i] = Begin(id)
      BY DEF StartInv, StartsCloseBehind, Event, Begin
    <2> QED
      BY <2>1, <1>6
  <1> QED
    BY <1>7, <1>8 DEF StartInv

(* The record the producer takes away moves every other one place on.      *)
LEMMA SendKeepsStarts ==
  ASSUME OutboxInv, StartInv, Deliver \/ GiveUp
  PROVE  StartInv'
  <1>1. /\ outbox # <<>> /\ outbox' = Tail(outbox)
        /\ (published \cup lost)' = published \cup lost \cup {outbox[1]}
        /\ published' \subseteq published \cup {outbox[1]}
    BY DEF Deliver, GiveUp
  <1>2. /\ Len(outbox') = Len(outbox) - 1 /\ Len(outbox) \in Nat
        /\ 1 \in 1 .. Len(outbox)
        /\ \A i \in 1 .. Len(outbox') :
             i + 1 \in 1 .. Len(outbox) /\ outbox'[i] = outbox[i + 1]
        /\ \A i \in 1 .. Len(outbox) :
             i = 1 \/ (i - 1 \in 1 .. Len(outbox') /\ outbox'[i - 1] = outbox[i])
    BY <1>1 DEF OutboxInv
  (* A start close by is in the topic or lost, or one place closer.        *)
  <1>3. ASSUME NEW id \in Times, NEW n \in Nat,
               \/ Begin(id) \in published \cup lost
               \/ \E j \in 1 .. Len(outbox) : j <= n + 1 /\ outbox[j] = Begin(id)
        PROVE  \/ Begin(id) \in (published \cup lost)'
               \/ \E j \in 1 .. Len(outbox') : j <= n /\ outbox'[j] = Begin(id)
    <2>1. CASE Begin(id) \in published \cup lost
      BY <2>1, <1>1
    <2>2. CASE \E j \in 1 .. Len(outbox) : j <= n + 1 /\ outbox[j] = Begin(id)
      <3>1. PICK j \in 1 .. Len(outbox) : j <= n + 1 /\ outbox[j] = Begin(id)
        BY <2>2
      <3>2. CASE j = 1
        BY <3>1, <3>2, <1>1
      <3>3. CASE j # 1
        <4>1. j - 1 \in 1 .. Len(outbox') /\ outbox'[j - 1] = Begin(id) /\ j - 1 <= n
          BY <3>1, <3>3, <1>2
        <4> QED
          BY <4>1
      <3> QED
        BY <3>2, <3>3
    <2> QED
      BY <1>3, <2>1, <2>2
  <1>4. ASSUME NEW i \in 1 .. Len(outbox'), NEW id \in Times, outbox'[i] = Event(id)
        PROVE  \/ Begin(id) \in (published \cup lost)'
               \/ \E j \in 1 .. Len(outbox') : j <= i + 2 /\ outbox'[j] = Begin(id)
    <2>1. i + 1 \in 1 .. Len(outbox) /\ outbox[i + 1] = Event(id) /\ i + 2 \in Nat
      BY <1>2, <1>4
    <2>2. \/ Begin(id) \in published \cup lost
          \/ \E j \in 1 .. Len(outbox) : j <= (i + 1) + 2 /\ outbox[j] = Begin(id)
      BY <2>1 DEF StartInv
    <2>3. \/ Begin(id) \in published \cup lost
          \/ \E j \in 1 .. Len(outbox) : j <= (i + 2) + 1 /\ outbox[j] = Begin(id)
      BY <2>1, <2>2
    <2> QED
      BY <2>1, <2>3, <1>3
  <1>5. StartsCloseBehind'
    <2> SUFFICES ASSUME NEW id \in Times, Event(id) \in published'
                 PROVE  \/ Begin(id) \in (published \cup lost)'
                        \/ \E i \in 1..2 : i <= Len(outbox') /\ outbox'[i] = Begin(id)
      BY DEF StartsCloseBehind, Event, Begin
    <2>1. \/ Begin(id) \in published \cup lost
          \/ \E j \in 1 .. Len(outbox) : j <= 2 + 1 /\ outbox[j] = Begin(id)
      <3>1. CASE Event(id) \in published
        <4>1. \/ Begin(id) \in published \cup lost
              \/ \E i \in 1..2 : i <= Len(outbox) /\ outbox[i] = Begin(id)
          BY <3>1 DEF StartInv, StartsCloseBehind, Event, Begin
        <4> QED
          BY <4>1, <1>2
      <3>2. CASE outbox[1] = Event(id)
        BY <3>2, <1>2 DEF StartInv
      <3> QED
        BY <1>1, <3>1, <3>2
    <2>2. \/ Begin(id) \in (published \cup lost)'
          \/ \E j \in 1 .. Len(outbox') : j <= 2 /\ outbox'[j] = Begin(id)
      BY <2>1, <1>3
    <2> QED
      BY <2>2, <1>2
  <1> QED
    BY <1>4, <1>5 DEF StartInv

(* So does every other step; a crash loses all that is buffered.           *)
LEMMA ServiceKeepsStarts ==
  ASSUME SessionAssumption, StampsPast, SessionInv, OutboxInv, StartInv, [ServiceNext]_serviceVars
  PROVE  StartInv'
  <1>1. CASE Consume
    BY <1>1, ConsumeKeepsStarts
  <1>2. CASE Deliver \/ GiveUp
    BY <1>2, SendKeepsStarts
  <1>3. CASE Crash
    <2>1. /\ outbox' = <<>> /\ lost' = lost \cup ToSet(outbox) /\ published' = published
          /\ outbox \in Seq(RecordTypes) /\ Len(outbox') = 0
      BY <1>3 DEF Crash, OutboxInv
    <2>2. \A i \in 1 .. Len(outbox) : outbox[i] \in lost'
      BY <2>1 DEF ToSet
    <2>3. ASSUME NEW id \in Times, Event(id) \in published
          PROVE  Begin(id) \in published \cup lost'
      <3>1. \/ Begin(id) \in published \cup lost
            \/ \E i \in 1..2 : i <= Len(outbox) /\ outbox[i] = Begin(id)
        BY <2>3 DEF StartInv, StartsCloseBehind, Event, Begin
      <3> QED
        BY <2>1, <2>2, <3>1
    <2> QED
      BY <2>1, <2>3 DEF StartInv, StartsCloseBehind, Event, Begin
  <1>4. CASE Arrive \/ CommitOffsets \/ TimePasses \/ UNCHANGED serviceVars
    BY <1>4 DEF Arrive, CommitOffsets, TimePasses, serviceVars, producerVars, StartInv, StartsCloseBehind
  <1> QED
    BY <1>1, <1>2, <1>3, <1>4 DEF ServiceNext

(* Who reads an event has the start of its session, finds it among the     *)
(* next two records, or it is lost.                                        *)
THEOREM StartsAlwaysCloseBehind == ServiceSpec => []StartsCloseBehind
  <1>1. ServiceInit => StampsPast /\ OutboxInv /\ StartInv
    BY ServiceInitStampsPast, ServiceInitOutbox DEF ServiceInit, StartInv, StartsCloseBehind
  <1>2. StampsPast /\ SessionInv /\ OutboxInv /\ StartInv /\ [ServiceNext]_serviceVars
          => StampsPast' /\ OutboxInv' /\ StartInv'
    BY ServiceKeepsStampsPast, ServiceKeepsOutbox, ServiceKeepsStarts, SessionAssumption
  <1>3. StartInv => StartsCloseBehind
    BY DEF StartInv
  <1> QED
    BY <1>1, <1>2, <1>3, ServiceImplementsEngine, SessionsAccounted, PTL DEF ServiceSpec

-----------------------------------------------------------------------------
(* Gaps and ends. The gateway stamps an event and the enricher appends it  *)
(* within MaxDelay: no stamp is more than MaxDelay below an earlier one.   *)
(* Until a crash makes the service process events again, that holds of the *)
(* order in which Process sees them.                                       *)

StampOrder ==
  /\ crashes \in Nat /\ failures \in Nat
  /\ committed <= position /\ position <= Len(topic)
  /\ \A i, j \in 1 .. Len(topic) : i < j => topic[i] <= topic[j] + MaxDelay
  /\ crashes = 0 => \A m \in members : \E i \in 1 .. position : m[1] = topic[i]

\* A session has its first event and the last one Redis knows of, which is
\* not far below the first; a session that was ended is well behind one that
\* has been processed since.
SessionShape ==
  /\ \A id \in started : <<id, id>> \in members
  /\ session # NoSession => <<session.last, session.id>> \in members
  /\ crashes = 0 =>
       /\ session # NoSession => session.id <= session.last + MaxDelay
       /\ \A e \in ended : \E m \in members : e + Timeout - MaxDelay < m[1]

GapInv == StampOrder /\ SessionShape /\ NoGapInsideSession /\ EndedForGood

\* A device without events has no gaps.
LEMMA ServiceInitGaps == ServiceInit => GapInv
  <1> SUFFICES ASSUME ServiceInit PROVE GapInv
    OBVIOUS
  <1>1. Len(topic) = 0
    BY DEF ServiceInit
  <1>2. StampOrder
    BY <1>1 DEF ServiceInit, SessionInit, StampOrder
  <1> QED
    BY <1>2 DEF ServiceInit, SessionInit, GapInv, SessionShape, NoGapInsideSession, EndedForGood

\* Until a crash, what Process is called with is at most MaxDelay below what
\* it was called with before.
LEMMA NextStampIsRecent ==
  ASSUME StampsPast, StampOrder, crashes = 0, position < Len(topic)
  PROVE  \A m \in members : m[1] <= topic[position + 1] + MaxDelay
  <1> TAKE m \in members
  <1>1. PICK i \in 1 .. position : m[1] = topic[i]
    BY DEF StampOrder
  <1>2. i \in 1 .. Len(topic) /\ position + 1 \in 1 .. Len(topic) /\ i < position + 1
    BY DEF StampsPast
  <1> QED
    BY <1>1, <1>2 DEF StampOrder

\* The stamps of a session's events, among all that were processed.
LEMMA StampsOfSession ==
  ASSUME NEW S \in SUBSET (Times \X Times), NEW id
  PROVE  LET stamps == {m[1] : m \in {n \in S : n[2] = id}}
         IN  stamps \subseteq Times /\ \A u \in Times : u \in stamps <=> <<u, id>> \in S
  <1> DEFINE stamps == {m[1] : m \in {n \in S : n[2] = id}}
  <1>1. \A m \in S : m[1] \in Times /\ m = <<m[1], m[2]>>
    OBVIOUS
  <1>2. stamps \subseteq Times
    BY <1>1
  <1>3. ASSUME NEW u \in Times, u \in stamps PROVE <<u, id>> \in S
    BY <1>1, <1>3
  <1>4. ASSUME NEW u \in Times, <<u, id>> \in S PROVE u \in stamps
    <2>1. <<u, id>>[1] = u /\ <<u, id>>[2] = id
      OBVIOUS
    <2> QED
      BY <1>4, <2>1
  <1> QED
    BY <1>2, <1>3, <1>4

\* An event joins a session within Timeout of its last event, and is no more
\* than Timeout below any that joined before.
LEMMA JoinLeavesNoGap ==
  ASSUME SessionAssumption, ServiceAssumption, SessionInv, SessionShape,
         crashes = 0, crashes' = 0, NoGapInsideSession,
         NEW t \in Times, NEW loadOk \in BOOLEAN, NEW saveOk \in BOOLEAN,
         Process(t, loadOk, saveOk),
         \A m \in members : m[1] <= t + MaxDelay
  PROVE  NoGapInsideSession'
  <1> DEFINE found == Found(loadOk)
             new == StateAfter(found, t).id
  <1>1. /\ found \in SessionStates \cup {NoSession}
        /\ found = session \/ found = NoSession
    BY FoundType DEF SessionInv
  <1>2. /\ new \in Times
        /\ Opens(found, t) => new = t /\ Starts(found, t) = {t}
        /\ ~Opens(found, t) =>
             /\ new = found.id /\ Starts(found, t) = {}
             /\ found = session /\ session # NoSession /\ t <= found.last + Timeout
    <2>1. found # NoSession => found.last \in Times
      BY <1>1 DEF SessionStates
    <2>2. /\ new \in Times
          /\ IF Opens(found, t) THEN new = t /\ Starts(found, t) = {t}
             ELSE new = found.id /\ Starts(found, t) = {}
      <3> HIDE DEF found
      <3> QED
        BY <1>1, StateAfterType DEF SessionStates
    <2> HIDE DEF found, new
    <2>3. ~Opens(found, t) => found # NoSession /\ ~(t - found.last > Timeout)
      BY DEF Opens, TimedOut
    <2> QED
      BY <1>1, <2>1, <2>2, <2>3 DEF Times, SessionAssumption
  <1>3. members' = members \cup {<<t, new>>} /\ started' = started \cup Starts(found, t)
    BY DEF Process
  <1>4. members \subseteq Times \X Times /\ started \subseteq Times
    BY DEF SessionInv, SessionTypeOK
  <1> HIDE DEF found, new
  <1> SUFFICES ASSUME NEW id \in started', NEW a \in MembersOf(id)',
                      NEW b \in MembersOf(id)', b > a
               PROVE  \E u \in MembersOf(id)' : u > a /\ u <= a + Timeout
    BY DEF NoGapInsideSession
  <1>5. /\ MembersOf(id) \subseteq Times /\ MembersOf(id)' \subseteq Times
        /\ \A u \in Times : u \in MembersOf(id) <=> <<u, id>> \in members
        /\ \A u \in Times : u \in MembersOf(id)' <=> u \in MembersOf(id) \/ (u = t /\ id = new)
    <2>1. /\ MembersOf(id) \subseteq Times
          /\ \A u \in Times : u \in MembersOf(id) <=> <<u, id>> \in members
      BY <1>4, StampsOfSession DEF MembersOf
    <2>2. members' \in SUBSET (Times \X Times)
      BY <1>2, <1>3, <1>4
    <2>3. /\ MembersOf(id)' \subseteq Times
          /\ \A u \in Times : u \in MembersOf(id)' <=> <<u, id>> \in members'
      BY <2>2, StampsOfSession DEF MembersOf
    <2>4. \A u \in Times : <<u, id>> \in members' <=> <<u, id>> \in members \/ (u = t /\ id = new)
      BY <1>3
    <2> QED
      BY <2>1, <2>3, <2>4
  <1>6. /\ a \in Times /\ b \in Times /\ Timeout \in Nat /\ MaxDelay \in Nat
        /\ MaxDelay <= Timeout
    BY <1>5 DEF SessionAssumption, ServiceAssumption
  <1>7. ASSUME NEW u \in MembersOf(id)
        PROVE  u \in MembersOf(id)' /\ u <= t + MaxDelay /\ id \in started
    <2>1. <<u, id>> \in members /\ <<u, id>>[1] = u /\ <<u, id>>[2] = id
      BY <1>5, <1>7
    <2> QED
      BY <1>5, <2>1 DEF SessionInv, EveryIdStarted
  <1>8. CASE a \notin MembersOf(id)
    \* a is the new event: b was processed before and is at most MaxDelay above.
    <2>1. a = t /\ id = new
      BY <1>5, <1>6, <1>8
    <2>2. b \in MembersOf(id)
      BY <1>5, <1>6, <2>1 DEF Times
    <2>3. b <= t + MaxDelay
      BY <1>7, <2>2
    <2> QED
      BY <1>6, <2>1, <2>3 DEF Times
  <1>9. CASE a \in MembersOf(id) /\ \E c \in MembersOf(id) : c > a
    <2>1. PICK u \in MembersOf(id) : u > a /\ u <= a + Timeout
      BY <1>7, <1>9 DEF NoGapInsideSession
    <2> QED
      BY <1>7, <2>1
  <1>10. CASE a \in MembersOf(id) /\ \A c \in MembersOf(id) : ~(c > a)
    \* a was the session's latest event: the new one follows within Timeout.
    <2>1. b \notin MembersOf(id) /\ b = t /\ id = new
      BY <1>5, <1>6, <1>10
    <2>2. id \in started
      BY <1>7, <1>10
    <2>3. ~Opens(found, t)
      <3>1. SUFFICES ASSUME Opens(found, t) PROVE FALSE
        OBVIOUS
      <3>2. id = t /\ <<id, id>> \in members
        BY <1>2, <2>1, <2>2, <3>1 DEF SessionShape
      <3>3. t \in MembersOf(id)
        BY <1>5, <3>2
      <3> QED
        BY <2>1, <3>3
    <2>4. found = session /\ session # NoSession /\ id = session.id /\ t <= session.last + Timeout
      BY <1>2, <2>1, <2>3
    <2>5. session.last \in MembersOf(id) /\ session.last \in Times
      <3>1. session.last \in Times
        BY <2>4 DEF SessionInv, SessionTypeOK, SessionStates
      <3>2. <<session.last, id>> \in members
        BY <2>4 DEF SessionShape
      <3> QED
        BY <1>5, <3>1, <3>2
    <2>6. session.last <= a
      BY <1>6, <1>10, <2>5 DEF Times
    <2>7. t <= a + Timeout
      BY <1>6, <2>1, <2>4, <2>5, <2>6 DEF Times
    <2> QED
      BY <2>1, <2>7
  <1> QED
    BY <1>8, <1>9, <1>10

\* Process keeps the shape of sessions, and starts none with an id that was
\* ended: its stamp is above that of any session ended before.
LEMMA ProcessKeepsShape ==
  ASSUME SessionAssumption, ServiceAssumption, SessionInv, SessionShape, EndedForGood,
         crashes \in Nat, crashes' = crashes, failures \in Nat,
         NEW t \in Times, NEW loadOk \in BOOLEAN, NEW saveOk \in BOOLEAN,
         Process(t, loadOk, saveOk), failures' = failures + FailedCalls(loadOk, saveOk),
         crashes = 0 => \A m \in members : m[1] <= t + MaxDelay
  PROVE  SessionShape' /\ EndedForGood'
  <1> DEFINE found == Found(loadOk)
             after == StateAfter(found, t)
  <1>1. /\ found \in SessionStates \cup {NoSession}
        /\ found = session \/ found = NoSession
    BY FoundType DEF SessionInv
  <1>2. /\ after \in SessionStates /\ after # NoSession /\ after.last = t
        /\ Opens(found, t) => after.id = t /\ Starts(found, t) = {t}
        /\ ~Opens(found, t) => after.id = found.id /\ Starts(found, t) = {}
        /\ Ends(found, t) = IF TimedOut(found, t) THEN {found.id} ELSE {}
    <2>1. after.last = t
      BY DEF StateAfter
    <2> HIDE DEF found
    <2> QED
      BY <1>1, <2>1, StateAfterType
  <1>3. /\ members' = members \cup {<<t, after.id>>}
        /\ started' = started \cup Starts(found, t) /\ ended' = ended \cup Ends(found, t)
        /\ session' = IF saveOk THEN after ELSE session
    BY DEF Process, Save
  <1>4. /\ members \subseteq Times \X Times /\ started \subseteq Times /\ ended \subseteq Times
        /\ session # NoSession => session.id \in Times /\ session.last \in Times
        /\ ended \subseteq started
    BY DEF SessionInv, SessionTypeOK, SessionStates, EveryIdStarted
  <1>5. after.id \in Times /\ after.last \in Times
    BY <1>1, <1>2 DEF SessionStates
  <1>6. Timeout \in Nat \ {0} /\ MaxDelay \in Nat /\ 2 * MaxDelay <= Timeout
    BY DEF SessionAssumption, ServiceAssumption
  <1>7. /\ TimedOut(found, t) => found = session /\ session # NoSession /\ t > session.last + Timeout
        /\ ~Opens(found, t) => found = session /\ session # NoSession /\ ~TimedOut(found, t)
    <2>1. TimedOut(found, t) => found # NoSession /\ t - found.last > Timeout
      BY DEF TimedOut
    <2>2. ~Opens(found, t) => found # NoSession /\ ~TimedOut(found, t)
      BY DEF Opens
    <2> HIDE DEF found
    <2> QED
      BY <1>1, <1>4, <1>6, <2>1, <2>2 DEF Times
  <1> HIDE DEF found, after
  <1>8. \A id \in started' : <<id, id>> \in members'
    BY <1>2, <1>3 DEF SessionShape
  <1>9. session' # NoSession => <<session'.last, session'.id>> \in members'
    BY <1>2, <1>3 DEF SessionShape
  <1>10. ASSUME crashes = 0, session' # NoSession PROVE session'.id <= session'.last + MaxDelay
    <2>1. CASE ~saveOk
      BY <1>3, <1>10, <2>1 DEF SessionShape
    <2>2. CASE saveOk /\ Opens(found, t)
      BY <1>2, <1>3, <1>5, <1>6, <2>2 DEF Times
    <2>3. CASE saveOk /\ ~Opens(found, t)
      <3>1. session' = after /\ after.id = session.id /\ session # NoSession
        BY <1>2, <1>3, <1>7, <2>3
      <3>2. <<session.id, session.id>> \in members /\ <<session.id, session.id>>[1] = session.id
        BY <3>1 DEF SessionShape, SessionInv, EveryIdStarted
      <3>3. session.id <= t + MaxDelay
        BY <1>10, <3>2
      <3> QED
        BY <1>2, <3>1, <3>3
    <2> QED
      BY <2>1, <2>2, <2>3
  <1>11. <<t, after.id>> \in members' /\ <<t, after.id>>[1] = t
    BY <1>3
  <1>12. ASSUME crashes = 0, NEW e \in ended'
         PROVE  \E m \in members' : e + Timeout - MaxDelay < m[1]
    <2>1. CASE e \in ended
      BY <1>3, <1>12, <2>1 DEF SessionShape
    <2>2. CASE e \in Ends(found, t)
      <3>1. e = session.id /\ session # NoSession /\ t > session.last + Timeout
        BY <1>2, <1>7, <2>2
      <3>2. session.id <= session.last + MaxDelay
        BY <1>12, <3>1 DEF SessionShape
      <3>3. e + Timeout - MaxDelay < t
        BY <1>4, <1>6, <3>1, <3>2 DEF Times
      <3> QED
        BY <1>11, <3>3
    <2> QED
      BY <1>3, <2>1, <2>2
  <1>13. SessionShape'
    <2>1. (\A id \in started : <<id, id>> \in members)'
      BY <1>8
    <2>2. (session # NoSession => <<session.last, session.id>> \in members)'
      BY <1>9
    <2>3. (crashes = 0 => (session # NoSession => session.id <= session.last + MaxDelay))'
      BY <1>10
    <2>4. (crashes = 0 => \A e \in ended : \E m \in members : e + Timeout - MaxDelay < m[1])'
      BY <1>12
    <2> QED
      BY <2>1, <2>2, <2>3, <2>4 DEF SessionShape
  <1>14. ASSUME crashes = 0, failures' = 0, session' # NoSession PROVE session'.id \notin ended'
    <2>1. loadOk /\ saveOk /\ failures = 0
      BY <1>14 DEF FailedCalls
    <2>2. session' = after /\ found = session
      BY <1>3, <2>1 DEF found, Found
    <2>3. CASE Opens(found, t)
      <3>1. session'.id = t
        BY <1>2, <2>2, <2>3
      <3>2. ASSUME NEW e \in ended PROVE e < t
        <4>1. PICK m \in members : e + Timeout - MaxDelay < m[1]
          BY <1>14 DEF SessionShape
        <4>2. m[1] \in Times /\ m[1] <= t + MaxDelay /\ e \in Times
          BY <1>4, <1>14, <4>1
        <4> QED
          BY <1>6, <4>1, <4>2 DEF Times
      <3>3. ASSUME NEW e \in Ends(found, t) PROVE e < t
        <4>1. e = session.id /\ session # NoSession /\ t > session.last + Timeout
          BY <1>2, <1>7, <3>3
        <4>2. session.id <= session.last + MaxDelay
          BY <1>14, <4>1 DEF SessionShape
        <4> QED
          BY <1>4, <1>6, <4>1, <4>2 DEF Times
      <3>4. t \notin ended'
        BY <1>3, <3>2, <3>3 DEF Times
      <3> QED
        BY <3>1, <3>4
    <2>4. CASE ~Opens(found, t)
      <3>1. session'.id = session.id /\ session # NoSession /\ ended' = ended
        BY <1>2, <1>3, <1>7, <2>2, <2>4
      <3> QED
        BY <1>14, <2>1, <3>1 DEF EndedForGood
    <2> QED
      BY <2>3, <2>4
  <1>15. EndedForGood'
    BY <1>14 DEF EndedForGood
  <1> QED
    BY <1>13, <1>15

\* An event consumed is one more that was processed, in the partition's order.
LEMMA ConsumeKeepsGaps ==
  ASSUME SessionAssumption, ServiceAssumption, StampsPast, SessionInv, GapInv, Consume
  PROVE  GapInv'
  <1> USE DEF GapInv
  <1>1. PICK loadOk \in BOOLEAN, saveOk \in BOOLEAN :
          /\ failures' = failures + FailedCalls(loadOk, saveOk)
          /\ Process(topic[position + 1], loadOk, saveOk)
    BY DEF Consume
  <1> DEFINE t == topic[position + 1]
  <1>2. /\ position < Len(topic) /\ position' = position + 1
        /\ UNCHANGED <<topic, committed, crashes>>
    BY DEF Consume
  <1>3. t \in Times
    BY <1>2 DEF StampsPast
  <1>4. crashes = 0 => \A m \in members : m[1] <= t + MaxDelay
    BY <1>2, NextStampIsRecent
  <1>5. members' = members \cup {<<t, StateAfter(Found(loadOk), t).id>>}
    BY <1>1 DEF Process
  <1>6. SessionShape' /\ EndedForGood'
    <2> HIDE DEF t
    <2>1. Process(t, loadOk, saveOk)
      BY <1>1 DEF t
    <2> QED
      BY <1>1, <1>2, <1>3, <1>4, <2>1, ProcessKeepsShape DEF StampOrder
  <1>7. NoGapInsideSession'
    <2>1. CASE crashes # 0
      BY <1>2, <2>1 DEF NoGapInsideSession
    <2>2. CASE crashes = 0
      <3> HIDE DEF t
      <3>1. Process(t, loadOk, saveOk)
        BY <1>1 DEF t
      <3> QED
        BY <1>2, <1>3, <1>4, <2>2, <3>1, JoinLeavesNoGap
    <2> QED
      BY <2>1, <2>2
  <1>8. StampOrder'
    <2>1. crashes' \in Nat /\ failures' \in Nat
      BY <1>1, <1>2 DEF StampOrder, FailedCalls
    <2>2. committed' <= position' /\ position' <= Len(topic')
      BY <1>2 DEF StampOrder, StampsPast
    <2>3. ASSUME crashes' = 0, NEW m \in members'
          PROVE  \E i \in 1 .. position' : m[1] = topic'[i]
      <3>1. CASE m \in members
        <4>1. PICK i \in 1 .. position : m[1] = topic[i]
          BY <1>2, <2>3, <3>1 DEF StampOrder
        <4>2. i \in 1 .. position'
          BY <1>2 DEF StampsPast
        <4> QED
          BY <1>2, <4>1, <4>2
      <3>2. CASE m = <<t, StateAfter(Found(loadOk), t).id>>
        <4>1. m[1] = t
          BY <3>2
        <4>2. position + 1 \in 1 .. position'
          BY <1>2 DEF StampsPast
        <4> QED
          BY <1>2, <4>1, <4>2
      <3> QED
        BY <1>5, <3>1, <3>2
    <2> QED
      BY <1>2, <2>1, <2>2, <2>3 DEF StampOrder
  <1> QED
    BY <1>6, <1>7, <1>8

\* An event appended was stamped at most MaxDelay ago, and the others in the
\* past.
LEMMA ArriveKeepsGaps ==
  ASSUME SessionAssumption, ServiceAssumption, StampsPast, GapInv, Arrive
  PROVE  GapInv'
  <1> USE DEF GapInv
  <1>1. PICK t \in Times : t <= clock /\ clock <= t + MaxDelay /\ topic' = Append(topic, t)
    BY DEF Arrive
  <1>2. /\ Len(topic') = Len(topic) + 1 /\ topic'[Len(topic) + 1] = t
        /\ \A i \in 1 .. Len(topic) : topic'[i] = topic[i]
        /\ Len(topic) \in Nat
    BY <1>1 DEF StampsPast
  <1>3. UNCHANGED <<sessionVars, position, committed, countVars>>
    BY DEF Arrive
  <1>4. UNCHANGED <<session, started, ended, members, crashes, failures>>
    BY <1>3 DEF sessionVars, countVars
  <1>5. ASSUME NEW i \in 1 .. Len(topic'), NEW j \in 1 .. Len(topic'), i < j
        PROVE  topic'[i] <= topic'[j] + MaxDelay
    <2>1. i \in 1 .. Len(topic)
      BY <1>2, <1>5
    <2>2. CASE j = Len(topic) + 1
      <3>1. topic[i] <= clock /\ topic[i] \in Times
        BY <2>1 DEF StampsPast
      <3> QED
        BY <1>1, <1>2, <2>1, <2>2, <3>1 DEF StampsPast, Times, ServiceAssumption
    <2>3. CASE j # Len(topic) + 1
      <3>1. j \in 1 .. Len(topic)
        BY <1>2, <2>3
      <3> QED
        BY <1>2, <1>5, <2>1, <3>1 DEF StampOrder
    <2> QED
      BY <2>2, <2>3
  <1>6. ASSUME crashes' = 0, NEW m \in members'
        PROVE  \E i \in 1 .. position' : m[1] = topic'[i]
    <2>1. PICK i \in 1 .. position : m[1] = topic[i]
      BY <1>4, <1>6 DEF StampOrder
    <2>2. i \in 1 .. Len(topic)
      BY <1>2 DEF StampOrder, StampsPast
    <2> QED
      BY <1>2, <1>3, <2>1, <2>2
  <1>7. position' <= Len(topic') /\ committed' <= position'
    BY <1>2, <1>3 DEF StampOrder, StampsPast
  <1>8. StampOrder'
    BY <1>4, <1>5, <1>6, <1>7 DEF StampOrder
  <1>9. SessionShape' /\ EndedForGood'
    BY <1>4 DEF SessionShape, EndedForGood
  <1>10. NoGapInsideSession'
    BY <1>4 DEF NoGapInsideSession, MembersOf
  <1> QED
    BY <1>8, <1>9, <1>10

\* So does every other step: the engine's state only changes by expiring.
LEMMA ServiceKeepsGaps ==
  ASSUME SessionAssumption, ServiceAssumption, StampsPast, SessionInv, GapInv,
         [ServiceNext]_serviceVars
  PROVE  GapInv'
  <1>1. CASE Consume
    BY <1>1, ConsumeKeepsGaps
  <1>2. CASE Arrive
    BY <1>2, ArriveKeepsGaps
  <1>3. CASE Crash
    <2>1. /\ crashes' = crashes + 1 /\ position' = committed
          /\ UNCHANGED <<session, started, ended, members, topic, committed, failures>>
      BY <1>3 DEF Crash, sessionVars
    <2>2. crashes' \in Nat /\ crashes' # 0
      BY <2>1 DEF GapInv, StampOrder
    <2>3. StampOrder'
      BY <2>1, <2>2 DEF GapInv, StampOrder, StampsPast
    <2>4. SessionShape' /\ NoGapInsideSession' /\ EndedForGood'
      BY <2>1, <2>2 DEF GapInv, SessionShape, NoGapInsideSession, EndedForGood
    <2> QED
      BY <2>3, <2>4 DEF GapInv
  <1>4. CASE CommitOffsets \/ Deliver \/ GiveUp \/ TimePasses \/ UNCHANGED serviceVars
    <2>1. /\ session' = session \/ session' = NoSession
          /\ UNCHANGED <<started, ended, members, topic, position, crashes>>
          /\ committed' \in {committed, position}
          /\ failures' \in {failures, failures + 1}
      BY <1>4 DEF CommitOffsets, Deliver, GiveUp, TimePasses, SessionTick, serviceVars,
                  sessionVars, kafkaVars, countVars
    <2>2. failures' \in Nat /\ (failures' = 0 => failures = 0)
      BY <2>1 DEF GapInv, StampOrder
    <2>3. StampOrder'
      BY <2>1, <2>2 DEF GapInv, StampOrder, StampsPast
    <2>4. SessionShape'
      BY <2>1 DEF GapInv, SessionShape
    <2>5. NoGapInsideSession'
      BY <2>1 DEF GapInv, NoGapInsideSession, MembersOf
    <2>6. EndedForGood'
      BY <2>1, <2>2 DEF GapInv, EndedForGood
    <2> QED
      BY <2>3, <2>4, <2>5, <2>6 DEF GapInv
  <1> QED
    BY <1>1, <1>2, <1>3, <1>4 DEF ServiceNext

\* The gaps' invariant holds of the service.
LEMMA GapsAlways == ServiceSpec => []GapInv
  <1>1. ServiceInit => StampsPast /\ GapInv
    BY ServiceInitStampsPast, ServiceInitGaps
  <1>2. StampsPast /\ SessionInv /\ GapInv /\ [ServiceNext]_serviceVars => StampsPast' /\ GapInv'
    BY ServiceKeepsStampsPast, ServiceKeepsGaps, SessionAssumption, ServiceAssumption
  <1> QED
    BY <1>1, <1>2, ServiceImplementsEngine, SessionsAccounted, PTL DEF ServiceSpec

(* Until a crash no session contains a gap longer than the timeout, with   *)
(* any stamps late by at most half of it and whatever Redis fails.         *)
THEOREM NoGapsInside == ServiceSpec => []NoGapInsideSession
  <1>1. GapInv => NoGapInsideSession
    BY DEF GapInv
  <1> QED
    BY <1>1, GapsAlways, PTL

(* Until a failure or a crash a session that was ended stays ended: the    *)
(* session in Redis is never one of those.                                 *)
THEOREM EndsAreForGood == ServiceSpec => []EndedForGood
  <1>1. GapInv => EndedForGood
    BY DEF GapInv
  <1> QED
    BY <1>1, GapsAlways, PTL
=============================================================================
