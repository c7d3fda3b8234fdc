---------------------------- MODULE SessionEngine ----------------------------
(***************************************************************************)
(* internal/session/engine.go: Process cuts one device's stream of events  *)
(* into sessions. The state is a single Redis value, read at the start of  *)
(* Process and written at its end with a TTL of Timeout + Grace; Redis may *)
(* fail on either. One goroutine processes the device's partition, so a    *)
(* call of Process is one step.                                            *)
(*                                                                         *)
(* Two clocks matter: an event carries the ServerTime the gateway gave it, *)
(* and gaps are measured in it; the Redis key expires in real time. A      *)
(* session's id is made of the ServerTime of its first event and is that   *)
(* time here. Screens, counts and user are data and are left out.          *)
(***************************************************************************)
EXTENDS Integers

CONSTANTS
  Timeout,    (* SessionTimeout, in ticks                                  *)
  Grace,      (* what saveSession's TTL adds to it                         *)
  Horizon,    (* bound: the last tick                                      *)
  NoSession   (* the Redis key does not exist                              *)

Times == 0..Horizon

SessionStates == [id : Times, last : Times]

ASSUME SessionAssumption ==
  /\ Timeout \in Nat \ {0} /\ Grace \in Nat /\ Horizon \in Nat
  /\ NoSession \notin SessionStates

VARIABLES
  clock,      (* real time                                                 *)
  session,    (* the Redis value: [id, last] or NoSession                  *)
  ttl,        (* ticks until it expires                                    *)
  (* History variables. *)
  started,    (* ids of the session_start events returned                  *)
  ended,      (* ids of the session_end events returned                    *)
  forgotten,  (* ids of sessions lost to Redis without a session_end       *)
  members     (* <<time, id>> of every event processed                     *)

sessionVars == <<clock, session, ttl, started, ended, forgotten, members>>

SessionInit ==
  /\ clock = 0
  /\ session = NoSession /\ ttl = 0
  /\ started = {} /\ ended = {} /\ forgotten = {} /\ members = {}

\* loadSession: an error is treated as a new session.
Found(loadOk) == IF loadOk THEN session ELSE NoSession

\* Mutant: the gap is compared with the TTL.
TimedOutByTtl(found, t) == found # NoSession /\ t - found.last > Timeout + Grace

TimedOut(found, t) == found # NoSession /\ t - found.last > Timeout

\* A new session is opened when none is found and when one is closed.
Opens(found, t) == found = NoSession \/ TimedOut(found, t)

\* Mutant: only the inactivity clock is reset when a session times out.
StateKeptOnTimeout(found, t) ==
  [id |-> IF found = NoSession THEN t ELSE found.id, last |-> t]

StateAfter(found, t) ==
  [id |-> IF Opens(found, t) THEN t ELSE found.id, last |-> t]

\* Mutant: a session that replaces a closed one gets no session_start.
StartsWhenNotFound(found, t) == IF found = NoSession THEN {t} ELSE {}

\* The ids of the session_start and session_end events Process returns.
Starts(found, t) == IF Opens(found, t) THEN {t} ELSE {}

\* Mutant: sessions are closed silently.
EndsSilently(found, t) == {}

Ends(found, t) == IF TimedOut(found, t) THEN {found.id} ELSE {}

\* Mutant: the TTL is only given to a new key, and SET removes it.
SaveWithoutTtl(found, t, saveOk) ==
  /\ session' = IF saveOk THEN StateAfter(found, t) ELSE session
  /\ ttl' = IF saveOk THEN IF found = NoSession THEN Timeout + Grace ELSE 0 ELSE ttl

\* saveSession: a failure is logged, and the state lost.
Save(found, t, saveOk) ==
  /\ session' = IF saveOk THEN StateAfter(found, t) ELSE session
  /\ ttl' = IF saveOk THEN Timeout + Grace ELSE ttl

\* The sessions, of the one Process returned and the one it could not read,
\* that Redis no longer tells of.
IdIn(state) == IF state = NoSession THEN {} ELSE {state.id}

Forget(found, t) ==
  forgotten' = forgotten \cup
    (({StateAfter(found, t).id} \cup (IF found = NoSession THEN IdIn(session) ELSE {})) \ IdIn(session'))

Process(t, loadOk, saveOk) ==
  LET found == Found(loadOk) IN
  /\ started' = started \cup Starts(found, t)
  /\ ended' = ended \cup Ends(found, t)
  /\ Save(found, t, saveOk)
  /\ Forget(found, t)
  /\ members' = members \cup {<<t, StateAfter(found, t).id>>}
  /\ UNCHANGED clock

\* Time passes, and with it the key.
SessionTick ==
  /\ clock < Horizon
  /\ clock' = clock + 1
  /\ ttl' = IF ttl > 0 THEN ttl - 1 ELSE 0
  /\ LET expires == session # NoSession /\ ttl <= 1 IN
       /\ session' = IF expires THEN NoSession ELSE session
       /\ forgotten' = IF expires THEN forgotten \cup {session.id} ELSE forgotten
  /\ UNCHANGED <<started, ended, members>>

SessionNext ==
  \/ \E t \in Times, loadOk, saveOk \in BOOLEAN : t <= clock /\ Process(t, loadOk, saveOk)
  \/ SessionTick

SessionSpec == SessionInit /\ [][SessionNext]_sessionVars

-----------------------------------------------------------------------------
(* Properties. *)

SessionTypeOK ==
  /\ clock \in Times
  /\ session \in SessionStates \cup {NoSession}
  /\ ttl \in 0 .. Timeout + Grace
  /\ session = NoSession <=> ttl = 0
  /\ started \subseteq Times /\ ended \subseteq Times /\ forgotten \subseteq Times
  /\ members \subseteq Times \X Times

(* Whatever Redis loses, and in whatever order and however often events    *)
(* arrive: a session_end, an event's session id and the state in Redis     *)
(* only ever name a session whose session_start Process returned.          *)
EveryIdStarted ==
  /\ ended \subseteq started
  /\ session # NoSession => session.id \in started
  /\ \A m \in members : m[2] \in started

(* A started session without a session_end is the one in Redis, or Redis   *)
(* forgot it: its key expired, was never written, or was overwritten after *)
(* a read failed. Process itself never replaces a session silently.        *)
StartsAccounted ==
  \A id \in started :
    id \in ended \cup forgotten \/ (session # NoSession /\ session.id = id)

(* docs/LLD.md 3.1: when the next event arrives after a gap of more than   *)
(* 30 minutes, the engine ends the previous session before it starts the   *)
(* new one. So at most one session is started and not ended.               *)
EndedBeforeNextStart == \A i, j \in started \ ended : i = j
=============================================================================
