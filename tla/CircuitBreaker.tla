--------------------------- MODULE CircuitBreaker ---------------------------
(***************************************************************************)
(* internal/circuitbreaker/breaker.go. Every method body runs under one    *)
(* mutex, so allow, record, State and Reset are each one step; the call    *)
(* fn() between allow and record is not, and calls of several goroutines   *)
(* overlap. A call therefore records its outcome in whatever state the     *)
(* breaker has by then, which need not be the one that admitted it.        *)
(*                                                                         *)
(* counts keeps the three counters the code tests; TotalSuccesses and      *)
(* TotalFailures are only reported. A counter is compared with zero or     *)
(* with its threshold, so it saturates at CountCap, which is no smaller.   *)
(* time.Since(openAt) is openAge, counted in ticks up to OpenTimeout.      *)
(* OnStateChange only logs.                                                *)
(***************************************************************************)
EXTENDS Goroutines

CONSTANTS
  MaxFailures,      (* consecutive failures that open a closed breaker    *)
  OpenTimeout,      (* ticks an open breaker stays open                   *)
  SuccessThreshold, (* consecutive successes that close a half-open one   *)
  CountCap          (* bound at which the counters saturate               *)

ASSUME BreakerAssumption ==
  /\ MaxFailures \in Nat \ {0}
  /\ OpenTimeout \in Nat \ {0}
  /\ SuccessThreshold \in Nat \ {0}
  /\ CountCap \in Nat
  /\ CountCap >= MaxFailures /\ CountCap >= SuccessThreshold

VARIABLES
  state,    (* StateClosed, StateOpen or StateHalfOpen                    *)
  counts,   (* Requests, ConsecutiveSuccesses and ConsecutiveFailures     *)
  openAge,  (* ticks since openAt                                         *)
  calling   (* callers between allow and record                           *)

breakerVars == <<state, counts, openAge, calling>>

States == {"closed", "open", "halfOpen"}

Counts == [requests : 0..CountCap, successes : 0..CountCap, failures : 0..CountCap]

ZeroCounts == [requests |-> 0, successes |-> 0, failures |-> 0]

Bump(n) == IF n < CountCap THEN n + 1 ELSE n

BreakerInit ==
  /\ state = "closed"
  /\ counts = ZeroCounts
  /\ openAge = 0
  /\ calling = {}

\* Mutant: the counters kept over a change of state.
TransitionKeepingCounts(next) ==
  /\ state' = next
  /\ openAge' = IF next = "open" /\ state # "open" THEN 0 ELSE openAge
  /\ UNCHANGED counts

Transition(next) ==
  /\ state' = next
  /\ counts' = IF state = next THEN counts ELSE ZeroCounts
  /\ openAge' = IF next = "open" /\ state # "open" THEN 0 ELSE openAge

MaybeTransitionToHalfOpen ==
  IF state = "open" /\ openAge >= OpenTimeout
  THEN Transition("halfOpen")
  ELSE UNCHANGED <<state, counts, openAge>>

\* allow's switch, read after the lazy transition.
Admissible == state = "closed" \/ (state = "halfOpen" /\ counts.requests = 0)

Admit(c) ==
  /\ c \notin calling
  /\ MaybeTransitionToHalfOpen
  /\ Admissible'
  /\ calling' = calling \cup {c}

\* Mutant: every rejected call renews the cooldown.
RejectRenewing(c) ==
  /\ c \notin calling
  /\ ~Admissible
  /\ state = "open" => openAge < OpenTimeout
  /\ openAge' = 0
  /\ UNCHANGED <<state, counts, calling>>

\* ErrOpen.
Reject(c) ==
  /\ c \notin calling
  /\ MaybeTransitionToHalfOpen
  /\ ~Admissible'
  /\ UNCHANGED calling

FailuresAfter == [requests |-> Bump(counts.requests), successes |-> 0,
                  failures |-> Bump(counts.failures)]

SuccessesAfter == [requests |-> Bump(counts.requests),
                   successes |-> Bump(counts.successes), failures |-> 0]

\* Mutant: a success that leaves the failure streak standing.
RecordSuccessKeepingStreak(c) ==
  /\ c \in calling
  /\ calling' = calling \ {c}
  /\ IF state = "halfOpen" /\ SuccessesAfter.successes >= SuccessThreshold
     THEN Transition("closed")
     ELSE /\ counts' = [SuccessesAfter EXCEPT !.failures = counts.failures]
          /\ UNCHANGED <<state, openAge>>

RecordFailure(c) ==
  /\ c \in calling
  /\ calling' = calling \ {c}
  /\ IF \/ state = "closed" /\ FailuresAfter.failures >= MaxFailures
        \/ state = "halfOpen"
     THEN Transition("open")
     ELSE counts' = FailuresAfter /\ UNCHANGED <<state, openAge>>

RecordSuccess(c) ==
  /\ c \in calling
  /\ calling' = calling \ {c}
  /\ IF state = "halfOpen" /\ SuccessesAfter.successes >= SuccessThreshold
     THEN Transition("closed")
     ELSE counts' = SuccessesAfter /\ UNCHANGED <<state, openAge>>

\* State() and Reset(): operations of the breaker that no service calls.
ReadState == MaybeTransitionToHalfOpen /\ UNCHANGED calling

Reset == Transition("closed") /\ UNCHANGED calling

\* Time passes; openAge is read only while the breaker is open.
Tick ==
  /\ state = "open" /\ openAge < OpenTimeout
  /\ openAge' = openAge + 1
  /\ UNCHANGED <<state, counts, calling>>

BreakerStep(c) == Admit(c) \/ Reject(c) \/ RecordFailure(c) \/ RecordSuccess(c)

BreakerNext == (\E c \in Callers : BreakerStep(c)) \/ ReadState \/ Reset \/ Tick

BreakerSpec == BreakerInit /\ [][BreakerNext]_breakerVars

-----------------------------------------------------------------------------
(* Properties. *)

BreakerTypeOK ==
  /\ state \in States
  /\ counts \in Counts
  /\ openAge \in 0..OpenTimeout
  /\ calling \subseteq Callers

(* The counters tell the truth about the current state however late the    *)
(* outcomes arrive: a closed breaker has not yet reached MaxFailures; a    *)
(* half-open one has recorded successes only, fewer than SuccessThreshold, *)
(* so any recorded outcome in half-open shuts allow's door.                *)
CountsMatchState ==
  /\ state = "closed" => counts.failures < MaxFailures
  /\ state = "halfOpen" => /\ counts.failures = 0
                           /\ counts.successes < SuccessThreshold
                           /\ counts.requests = counts.successes
=============================================================================
