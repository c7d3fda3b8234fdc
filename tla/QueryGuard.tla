----------------------------- MODULE QueryGuard -----------------------------
(***************************************************************************)
(* The path of a ClickHouse query in internal/querying/service.go:         *)
(* execEventCount (and its Funnel, DAU and Retention twins) runs           *)
(*   bh.Do(appID, func() { chBreaker.Execute(func() { ch.Query ... }) })   *)
(* so a caller takes its bulkhead slots first, asks the breaker while it   *)
(* holds them and gives the slots back whatever Execute returned.          *)
(* This module runs the steps of Bulkhead and CircuitBreaker in that       *)
(* order; a query in flight ends in success or failure as it likes.        *)
(***************************************************************************)
EXTENDS Bulkhead, CircuitBreaker, Sequences

VARIABLES
  executed,  (* callers whose Execute has returned, slots still held      *)
  trail      (* history: what the breaker saw since it last changed state *)

guardVars == <<bulkheadVars, breakerVars, executed, trail>>

GuardInit ==
  /\ BulkheadInit
  /\ BreakerInit
  /\ executed = {}
  /\ trail = <<>>

-----------------------------------------------------------------------------
(* The history variable: the last TrailLength outcomes recorded while the  *)
(* breaker was closed or half-open, or the ticks it spent open.            *)

TrailLength == IF CountCap > OpenTimeout THEN CountCap ELSE OpenTimeout

Record(what) ==
  trail' = IF state' # state THEN <<>>
           ELSE IF Len(trail) < TrailLength THEN Append(trail, what)
           ELSE Append(Tail(trail), what)

KeepTrail == trail' = IF state' # state THEN <<>> ELSE trail

-----------------------------------------------------------------------------
(* Steps of one caller. *)

SlotStep(c) ==
  /\ \/ \E t \in Tenants : ReserveGlobal(c, t)
     \/ RefuseGlobal(c)
     \/ EnterTenant(c) \/ RefuseTenant(c) \/ ReturnGlobal(c) \/ CountIn(c)
     \/ LeaveGlobal(c) \/ CountOut(c)
  /\ UNCHANGED <<breakerVars, executed, trail>>

\* Mutant: the slots given back although the query may still run.
GuardLeaveEarly(c) ==
  /\ pc[c] = "running"
  /\ LeaveTenant(c)
  /\ executed' = executed \ {c}
  /\ UNCHANGED <<breakerVars, trail>>

\* bh.Do's deferred Release starts once Execute has returned.
GuardLeave(c) ==
  /\ c \in executed
  /\ LeaveTenant(c)
  /\ executed' = executed \ {c}
  /\ UNCHANGED <<breakerVars, trail>>

GuardAdmit(c) ==
  /\ pc[c] = "running" /\ c \notin executed
  /\ Admit(c)
  /\ KeepTrail
  /\ UNCHANGED <<bulkheadVars, executed>>

\* Mutant: a rejected call returns past the deferred Release.
GuardRejectLeaky(c) ==
  /\ pc[c] = "running" /\ c \notin executed
  /\ Reject(c)
  /\ KeepTrail
  /\ UNCHANGED <<bulkheadVars, executed>>

GuardReject(c) ==
  /\ pc[c] = "running" /\ c \notin executed
  /\ Reject(c)
  /\ executed' = executed \cup {c}
  /\ KeepTrail
  /\ UNCHANGED bulkheadVars

QueryFails(c) ==
  /\ RecordFailure(c)
  /\ executed' = executed \cup {c}
  /\ IF state = "open" THEN KeepTrail ELSE Record("failure")
  /\ UNCHANGED bulkheadVars

QuerySucceeds(c) ==
  /\ RecordSuccess(c)
  /\ executed' = executed \cup {c}
  /\ IF state = "open" THEN KeepTrail ELSE Record("success")
  /\ UNCHANGED bulkheadVars

GuardTick == Tick /\ Record("tick") /\ UNCHANGED <<bulkheadVars, executed>>

GuardStep(c) ==
  \/ SlotStep(c) \/ GuardLeave(c)
  \/ GuardAdmit(c) \/ GuardReject(c)
  \/ QueryFails(c) \/ QuerySucceeds(c)

GuardNext == (\E c \in Callers : GuardStep(c)) \/ GuardTick

GuardSpec == GuardInit /\ [][GuardNext]_guardVars

\* Goroutines are scheduled, clients keep asking and the clock advances.
GuardFairness == WF_guardVars(GuardTick) /\ \A c \in Callers : WF_guardVars(GuardStep(c))

FairGuardSpec == GuardSpec /\ GuardFairness

-----------------------------------------------------------------------------
(* Properties. *)

GuardTypeOK ==
  /\ BulkheadTypeOK
  /\ BreakerTypeOK
  /\ executed \subseteq Callers
  /\ trail \in Seq({"success", "failure", "tick"}) /\ Len(trail) <= TrailLength

(* A query is in flight, and an outcome is recorded, only under a slot:    *)
(* however the breaker and the bulkhead interleave, ClickHouse never runs  *)
(* more queries of a tenant than MaxPerTenant nor more than MaxGlobal in   *)
(* all, and a refusal for capacity never counts as a failure.              *)
QueriesHoldSlots ==
  /\ calling \cup executed \subseteq At({"running"})
  /\ calling \cap executed = {}
  /\ Cardinality(calling) <= MaxGlobal
  /\ \A t \in Tenants : Cardinality({c \in calling : tenant[c] = t}) <= MaxPerTenant

AllTrail(what, n) ==
  /\ Len(trail) >= n
  /\ \A i \in Len(trail) - n + 1 .. Len(trail) : trail[i] = what

(* The breaker changes state only on evidence gathered in the state it     *)
(* leaves: MaxFailures failures in a row open it, OpenTimeout ticks make   *)
(* it half-open, SuccessThreshold successes and no failure close it; and   *)
(* no query starts while it is open.                                       *)
TransitionsEarned ==
  [][/\ state = "closed" /\ state' = "open" => AllTrail("failure", MaxFailures - 1)
     /\ state = "open" /\ state' # "open" => AllTrail("tick", OpenTimeout)
     /\ state = "halfOpen" /\ state' = "closed"
          => AllTrail("success", SuccessThreshold - 1) /\ Len(trail) = SuccessThreshold - 1
     /\ state' = "open" => calling' \subseteq calling]_guardVars

(* Whoever enters the guard comes out: no interleaving of refusals, open   *)
(* breakers and slot returns blocks a caller (Acquire's receive on the     *)
(* global channel is the one place where the code could wait).             *)
CallsReturn == \A c \in Callers : pc[c] # "idle" ~> pc[c] = "idle"

(* An outage ends: as long as clients keep asking, an open breaker         *)
(* eventually tries the dependency again.                                  *)
OpenEventuallyProbes == state = "open" ~> state # "open"

(* The state machine of the package comment: a half-open breaker closes or *)
(* reopens, because its probes go through.                                 *)
HalfOpenResolves == state = "halfOpen" ~> state # "halfOpen"
=============================================================================
