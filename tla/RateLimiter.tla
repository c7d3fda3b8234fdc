----------------------------- MODULE RateLimiter -----------------------------
(***************************************************************************)
(* The token bucket of one app: the Lua script of internal/redis/client.go *)
(* and AllowRate around it. A pod reads its clock, then Redis runs the     *)
(* script with that reading; the two may be apart.                         *)
(*                                                                         *)
(* A tick is a second; tokens are whole. The clocks of the pods agree. The *)
(* local limiter of internal/ratelimit is never asked, because AllowRate   *)
(* returns no error, and rate and burst of the app do not change.          *)
(***************************************************************************)
EXTENDS Integers

CONSTANTS
  Rate,  (* app.RPS                                                        *)
  Burst  (* app.Burst                                                      *)

\* With a burst below half the rate the script's expiry is zero seconds,
\* which Redis refuses: AllowRate then lets every request pass.
ASSUME LimiterAssumption == {Rate, Burst} \subseteq Nat \ {0} /\ Rate <= 2 * Burst

VARIABLES
  bucket,  (* the two keys: tokens, ticks since the stamp, ticks to expiry *)
  meter    (* history: requests the bucket let pass, less Rate per tick    *)

limiterVars == <<bucket, meter>>

\* The script takes missing keys for a full bucket stamped now.
Missing == [tokens |-> Burst, age |-> 0, left |-> 0]

LimiterInit == bucket = Missing /\ meter = 0

Least(a, b) == IF a <= b THEN a ELSE b
Less(a, b) == IF a <= b THEN 0 ELSE a - b

\* Mutant: the keys live for one fill time.
TtlOfOneFill == Burst \div Rate

Ttl == (2 * Burst) \div Rate

\* Mutant: what was refilled is not cut at the burst.
FilledAbove(late) == bucket.tokens + Less(bucket.age, late) * Rate

\* filled_tokens for a clock reading that is late ticks old.
Filled(late) == Least(Burst, bucket.tokens + Less(bucket.age, late) * Rate)

Allows(late) == Filled(late) >= 1

\* The stamp is the reading, also when it is older than the one it replaces.
Kept(late) ==
  [tokens |-> IF Allows(late) THEN Filled(late) - 1 ELSE Filled(late), age |-> late, left |-> Ttl]

Take(late) ==
  /\ bucket' = Kept(late)
  /\ meter' = IF Allows(late) THEN meter + 1 ELSE meter

\* The call fails, before or after the script ran: the request may pass.
FailOpen(late) == bucket' \in {bucket, Kept(late)} /\ UNCHANGED meter

LimiterTick ==
  /\ bucket' = IF bucket.left <= 1 THEN Missing
               ELSE [bucket EXCEPT !.age = @ + 1, !.left = @ - 1]
  /\ meter' = Less(meter, Rate)

LimiterTypeOK ==
  /\ bucket \in [tokens : 0..Burst, age : Nat, left : 0..Ttl]
  /\ meter \in Nat

\* In any interval the bucket lets no more requests pass than the burst and
\* the interval's share of the rate, whatever the requests of all pods were
\* (client.go:166-211), as a meter that drains at the rate shows.
MeterWithinBurst == meter <= Burst
=============================================================================
