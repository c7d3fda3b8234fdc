------------------------------ MODULE Bulkhead ------------------------------
(***************************************************************************)
(* internal/bulkhead/bulkhead.go: per-tenant and global concurrency limits *)
(* held as tokens in buffered channels. Acquire and Release are not        *)
(* atomic: each channel operation and the activeTotal counter is a step of *)
(* its own, and goroutines interleave between them.                        *)
(*                                                                         *)
(* A channel of empty structs is its length. The semaphore of a tenant is  *)
(* created on first use; an absent one behaves as an empty one, so sem is  *)
(* total. rejectedTotal only feeds RejectedCount, which nothing calls, and *)
(* is left out; the error Acquire returned is kept in verdict.             *)
(***************************************************************************)
EXTENDS Goroutines

CONSTANTS
  Tenants,      (* application ids                                    *)
  NoTenant,     (* tenant of a caller outside Do                      *)
  MaxPerTenant, (* capacity of each tenant's channel                  *)
  MaxGlobal     (* capacity of the global channel                     *)

ASSUME BulkheadAssumption ==
  /\ NoTenant \notin Tenants
  /\ MaxPerTenant \in Nat \ {0}
  /\ MaxGlobal \in Nat \ {0}

VARIABLES
  global,       (* tokens in the global channel                       *)
  sem,          (* tokens in each tenant's channel                    *)
  activeTotal,  (* the atomic counter                                 *)
  pc,           (* where each caller is inside Do                     *)
  tenant,       (* the tenantID each caller passed to Do              *)
  verdict       (* what the caller's last Acquire returned            *)

bulkheadVars == <<global, sem, activeTotal, pc, tenant, verdict>>

Locations ==
  {"idle",      (* outside Do                                         *)
   "reserved",  (* holds a global token, tenant channel next          *)
   "refused",   (* tenant channel was full, global token to give back *)
   "entered",   (* holds both tokens, activeTotal not yet raised      *)
   "running",   (* Acquire returned nil: fn runs                      *)
   "leaving",   (* tenant token given back                            *)
   "left"}      (* both tokens given back, activeTotal not yet lowered *)

Verdicts == {"none", "admitted", "globalFull", "tenantFull"}

BulkheadInit ==
  /\ global = 0
  /\ sem = [t \in Tenants |-> 0]
  /\ activeTotal = 0
  /\ pc = [c \in Callers |-> "idle"]
  /\ tenant = [c \in Callers |-> NoTenant]
  /\ verdict = [c \in Callers |-> "none"]

Goto(c, from, to) == pc[c] = from /\ pc' = [pc EXCEPT ![c] = to]

-----------------------------------------------------------------------------
(* Mutants of the steps below, each a bug that is easy to write. *)

\* The global limit tested with an off-by-one.
ReserveOverLimit(c, t) ==
  /\ global <= MaxGlobal
  /\ Goto(c, "idle", "reserved")
  /\ global' = global + 1
  /\ tenant' = [tenant EXCEPT ![c] = t]
  /\ verdict' = [verdict EXCEPT ![c] = "none"]
  /\ UNCHANGED <<sem, activeTotal>>

\* The refusal that forgets the global token it took.
RefuseKeepingToken(c) ==
  /\ Goto(c, "refused", "idle")
  /\ verdict' = [verdict EXCEPT ![c] = "tenantFull"]
  /\ tenant' = [tenant EXCEPT ![c] = NoTenant]
  /\ UNCHANGED <<global, sem, activeTotal>>

\* The tenant's limit not tested.
EnterUnlimited(c) ==
  /\ Goto(c, "reserved", "entered")
  /\ sem' = [sem EXCEPT ![tenant[c]] = @ + 1]
  /\ verdict' = [verdict EXCEPT ![c] = "admitted"]
  /\ UNCHANGED <<global, activeTotal, tenant>>

-----------------------------------------------------------------------------
(* Acquire. *)

\* The select on b.global has room.
ReserveGlobal(c, t) ==
  /\ global < MaxGlobal
  /\ Goto(c, "idle", "reserved")
  /\ global' = global + 1
  /\ tenant' = [tenant EXCEPT ![c] = t]
  /\ verdict' = [verdict EXCEPT ![c] = "none"]
  /\ UNCHANGED <<sem, activeTotal>>

\* The select on b.global takes its default: ErrCapacityExceeded.
RefuseGlobal(c) ==
  /\ pc[c] = "idle"
  /\ global = MaxGlobal
  /\ verdict' = [verdict EXCEPT ![c] = "globalFull"]
  /\ UNCHANGED <<global, sem, activeTotal, pc, tenant>>

EnterTenant(c) ==
  /\ Goto(c, "reserved", "entered")
  /\ sem[tenant[c]] < MaxPerTenant
  /\ sem' = [sem EXCEPT ![tenant[c]] = @ + 1]
  /\ verdict' = [verdict EXCEPT ![c] = "admitted"]
  /\ UNCHANGED <<global, activeTotal, tenant>>

RefuseTenant(c) ==
  /\ Goto(c, "reserved", "refused")
  /\ sem[tenant[c]] = MaxPerTenant
  /\ UNCHANGED <<global, sem, activeTotal, tenant, verdict>>

\* <-b.global blocks when the channel is empty.
ReturnGlobal(c) ==
  /\ global > 0
  /\ Goto(c, "refused", "idle")
  /\ global' = global - 1
  /\ verdict' = [verdict EXCEPT ![c] = "tenantFull"]
  /\ tenant' = [tenant EXCEPT ![c] = NoTenant]
  /\ UNCHANGED <<sem, activeTotal>>

CountIn(c) ==
  /\ Goto(c, "entered", "running")
  /\ activeTotal' = activeTotal + 1
  /\ UNCHANGED <<global, sem, tenant, verdict>>

-----------------------------------------------------------------------------
(* Release, which Do defers: fn has returned. Both receives have a default *)
(* branch that takes nothing from an empty channel.                        *)

LeaveTenant(c) ==
  /\ Goto(c, "running", "leaving")
  /\ sem' = [sem EXCEPT ![tenant[c]] = IF @ > 0 THEN @ - 1 ELSE @]
  /\ UNCHANGED <<global, activeTotal, tenant, verdict>>

LeaveGlobal(c) ==
  /\ Goto(c, "leaving", "left")
  /\ global' = IF global > 0 THEN global - 1 ELSE global
  /\ UNCHANGED <<sem, activeTotal, tenant, verdict>>

CountOut(c) ==
  /\ Goto(c, "left", "idle")
  /\ activeTotal' = activeTotal - 1
  /\ tenant' = [tenant EXCEPT ![c] = NoTenant]
  /\ UNCHANGED <<global, sem, verdict>>

BulkheadStep(c) ==
  \/ \E t \in Tenants : ReserveGlobal(c, t)
  \/ RefuseGlobal(c)
  \/ EnterTenant(c) \/ RefuseTenant(c) \/ ReturnGlobal(c) \/ CountIn(c)
  \/ LeaveTenant(c) \/ LeaveGlobal(c) \/ CountOut(c)

BulkheadNext == \E c \in Callers : BulkheadStep(c)

BulkheadSpec == BulkheadInit /\ [][BulkheadNext]_bulkheadVars

-----------------------------------------------------------------------------
(* Properties. *)

BulkheadTypeOK ==
  /\ global \in 0..MaxGlobal
  /\ sem \in [Tenants -> 0..MaxPerTenant]
  /\ activeTotal \in Int
  /\ pc \in [Callers -> Locations]
  /\ tenant \in [Callers -> Tenants \cup {NoTenant}]
  /\ verdict \in [Callers -> Verdicts]

At(locations) == {c \in Callers : pc[c] \in locations}

GlobalOwners == At({"reserved", "refused", "entered", "running", "leaving"})

TenantOwners(t) == {c \in At({"entered", "running"}) : tenant[c] = t}

Counted == At({"running", "leaving", "left"})

(* No token is leaked or returned twice, whatever the interleaving of      *)
(* Acquire's and Release's steps: each channel holds exactly one token for *)
(* every caller that took one, and activeTotal is the number of operations *)
(* between the two counter updates. So Release's default branches are      *)
(* never taken, the blocking receive of a refused Acquire never waits, and *)
(* everything is back to zero when nobody is inside Do.                    *)
TokensAccounted ==
  /\ global = Cardinality(GlobalOwners)
  /\ \A t \in Tenants : sem[t] = Cardinality(TenantOwners(t))
  /\ activeTotal = Cardinality(Counted)

\* The callers that hold a slot in the sense of SlotPool.
Holding == [c \in Callers |-> IF pc[c] \in {"entered", "running"} THEN tenant[c] ELSE NoTenant]

Pool == INSTANCE SlotPool WITH holding <- Holding

(* The bulkhead implements the slot pool: an operation is admitted only    *)
(* when its tenant holds fewer than MaxPerTenant slots and all tenants     *)
(* fewer than MaxGlobal, although the two channels are tested at different *)
(* moments.                                                                *)
ImplementsSlotPool == Pool!PoolSpec
=============================================================================
