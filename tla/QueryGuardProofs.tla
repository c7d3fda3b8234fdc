-------------------------- MODULE QueryGuardProofs --------------------------
(***************************************************************************)
(* Bulkhead, breaker and query guard, for any number of callers and        *)
(* tenants and any limits and thresholds: the bulkhead's exact account of  *)
(* its tokens and that it implements SlotPool; the breaker's counters; and *)
(* that the guard drives both only through their own steps, so what is     *)
(* proved of each holds in the composition, and a query in flight always   *)
(* holds its slots.                                                        *)
(***************************************************************************)
EXTENDS QueryGuard, FiniteSetTheorems, TLAPS

(***************************************************************************)
(* The bulkhead alone.                                                     *)
(***************************************************************************)

(* The strengthening: whoever is inside Do has a tenant. Without it a step *)
(* could be about a channel that does not exist.                           *)
InsideHasTenant == \A c \in Callers : pc[c] # "idle" <=> tenant[c] # NoTenant

BulkheadInv == BulkheadTypeOK /\ InsideHasTenant /\ TokensAccounted

(* A set of callers is finite, so counting it means something.             *)
LEMMA CallerSetsFinite ==
  ASSUME NEW S \in SUBSET Callers
  PROVE  IsFiniteSet(S) /\ Cardinality(S) \in Nat
  BY CallersAssumption, FS_Subset, FS_CardinalityType

(* A channel operation on an existing or absent channel keeps sem typed.   *)
LEMMA ChannelStaysTyped ==
  ASSUME sem \in [Tenants -> 0..MaxPerTenant], NEW t, NEW n,
         t \in Tenants => n \in 0..MaxPerTenant,
         sem' = [sem EXCEPT ![t] = n]
  PROVE  sem' \in [Tenants -> 0..MaxPerTenant]
  OBVIOUS

(* The type invariant is inductive on its own.                             *)
LEMMA BulkheadTypeStep ==
  ASSUME BulkheadTypeOK, [BulkheadNext]_bulkheadVars
  PROVE  BulkheadTypeOK'
<1> USE BulkheadAssumption DEF BulkheadTypeOK, Locations, Verdicts, Goto
<1>1. CASE UNCHANGED bulkheadVars
  BY <1>1 DEF bulkheadVars
<1>2. ASSUME NEW c \in Callers, NEW t \in Tenants, ReserveGlobal(c, t)
      PROVE  BulkheadTypeOK'
  BY <1>2 DEF ReserveGlobal
<1>3. ASSUME NEW c \in Callers, RefuseGlobal(c) \/ RefuseTenant(c) \/ CountIn(c)
      PROVE  BulkheadTypeOK'
  BY <1>3 DEF RefuseGlobal, RefuseTenant, CountIn
<1>4. ASSUME NEW c \in Callers, EnterTenant(c)
      PROVE  BulkheadTypeOK'
  <2>1. tenant[c] \in Tenants => sem[tenant[c]] + 1 \in 0..MaxPerTenant
    BY <1>4 DEF EnterTenant
  <2>2. sem' \in [Tenants -> 0..MaxPerTenant]
    BY <1>4, <2>1, ChannelStaysTyped DEF EnterTenant
  <2> QED
    BY <1>4, <2>2 DEF EnterTenant
<1>5. ASSUME NEW c \in Callers, ReturnGlobal(c)
      PROVE  BulkheadTypeOK'
  BY <1>5 DEF ReturnGlobal
<1>6. ASSUME NEW c \in Callers, LeaveTenant(c)
      PROVE  BulkheadTypeOK'
  <2> DEFINE left == IF sem[tenant[c]] > 0 THEN sem[tenant[c]] - 1 ELSE sem[tenant[c]]
  <2>1. tenant[c] \in Tenants => left \in 0..MaxPerTenant
    OBVIOUS
  <2>2. sem' \in [Tenants -> 0..MaxPerTenant]
    BY <1>6, <2>1, ChannelStaysTyped DEF LeaveTenant
  <2> QED
    BY <1>6, <2>2 DEF LeaveTenant
<1>7. ASSUME NEW c \in Callers, LeaveGlobal(c) \/ CountOut(c)
      PROVE  BulkheadTypeOK'
  BY <1>7 DEF LeaveGlobal, CountOut
<1> QED
  BY <1>1, <1>2, <1>3, <1>4, <1>5, <1>6, <1>7 DEF BulkheadNext, BulkheadStep

(* BulkheadSpec keeps the channels within their capacities and every       *)
(* caller at a known place in Do.                                          *)
THEOREM BulkheadTypeCorrect == BulkheadSpec => []BulkheadTypeOK
<1>1. BulkheadInit => BulkheadTypeOK
  BY BulkheadAssumption DEF BulkheadInit, BulkheadTypeOK, Locations, Verdicts
<1> QED
  BY <1>1, BulkheadTypeStep, PTL DEF BulkheadSpec

-----------------------------------------------------------------------------
(* Token accounting. *)

(* A call inside its tenant's section keeps its tenant until it leaves.    *)
LEMMA InsideHasTenantStep ==
  ASSUME BulkheadTypeOK, InsideHasTenant, [BulkheadNext]_bulkheadVars
  PROVE  InsideHasTenant'
<1> USE BulkheadAssumption DEF BulkheadTypeOK, InsideHasTenant, Goto
<1>1. CASE UNCHANGED bulkheadVars
  BY <1>1 DEF bulkheadVars
<1>2. ASSUME NEW c \in Callers, NEW t \in Tenants, ReserveGlobal(c, t)
      PROVE  InsideHasTenant'
  BY <1>2 DEF ReserveGlobal
<1>3. ASSUME NEW c \in Callers, ReturnGlobal(c) \/ CountOut(c)
      PROVE  InsideHasTenant'
  BY <1>3 DEF ReturnGlobal, CountOut
<1>4. ASSUME NEW c \in Callers, RefuseGlobal(c) \/ RefuseTenant(c) \/ CountIn(c)
                                \/ EnterTenant(c) \/ LeaveTenant(c) \/ LeaveGlobal(c)
      PROVE  InsideHasTenant'
  BY <1>4 DEF RefuseGlobal, RefuseTenant, CountIn, EnterTenant, LeaveTenant, LeaveGlobal
<1> QED
  BY <1>1, <1>2, <1>3, <1>4 DEF BulkheadNext, BulkheadStep

(* How the number of callers in S changes when one moves from x to y.      *)
Change(x, y, S) ==
  IF x \notin S /\ y \in S THEN 1 ELSE IF x \in S /\ y \notin S THEN -1 ELSE 0

(* When a set loses or gains c alone, its cardinality changes accordingly. *)
LEMMA CountsByOne ==
  ASSUME NEW S \in SUBSET Callers, NEW T \in SUBSET Callers, NEW c \in Callers,
         S \ {c} = T \ {c}
  PROVE  Cardinality(T) = Cardinality(S)
           + IF c \notin S /\ c \in T THEN 1 ELSE IF c \in S /\ c \notin T THEN -1 ELSE 0
<1>1. IsFiniteSet(S) /\ Cardinality(S) \in Nat
  BY CallerSetsFinite
<1>2. CASE c \notin S /\ c \in T
  <2>1. T = S \cup {c}
    BY <1>2
  <2> QED
    BY <1>1, <1>2, <2>1, FS_AddElement
<1>3. CASE c \in S /\ c \notin T
  <2>1. T = S \ {c}
    BY <1>3
  <2> QED
    BY <1>1, <1>3, <2>1, FS_RemoveElement
<1>4. CASE c \in S <=> c \in T
  <2>1. T = S
    BY <1>4
  <2> QED
    BY <1>1, <1>4, <2>1
<1> QED
  BY <1>2, <1>3, <1>4

GlobalPlaces == {"reserved", "refused", "entered", "running", "leaving"}
TenantPlaces == {"entered", "running"}
CountedPlaces == {"running", "leaving", "left"}

(* What the three counts become when caller c moves to location to and its *)
(* tenant becomes u.                                                       *)
LEMMA CountsAfterMove ==
  ASSUME BulkheadTypeOK, NEW c \in Callers, NEW to \in Locations, NEW u,
         pc' = [pc EXCEPT ![c] = to], tenant' = [tenant EXCEPT ![c] = u]
  PROVE  /\ Cardinality(GlobalOwners') = Cardinality(GlobalOwners)
              + Change(pc[c], to, GlobalPlaces)
         /\ Cardinality(Counted') = Cardinality(Counted)
              + Change(pc[c], to, CountedPlaces)
         /\ \A t \in Tenants : Cardinality(TenantOwners(t)') = Cardinality(TenantOwners(t))
              + Change(<<pc[c], tenant[c]>>, <<to, u>>, TenantPlaces \X {t})
<1> USE DEF BulkheadTypeOK, At
<1>1. /\ GlobalOwners \in SUBSET Callers /\ GlobalOwners' \in SUBSET Callers
      /\ GlobalOwners \ {c} = GlobalOwners' \ {c}
      /\ c \in GlobalOwners <=> pc[c] \in GlobalPlaces
      /\ c \in GlobalOwners' <=> to \in GlobalPlaces
  BY DEF GlobalOwners, GlobalPlaces
<1>2. /\ Counted \in SUBSET Callers /\ Counted' \in SUBSET Callers
      /\ Counted \ {c} = Counted' \ {c}
      /\ c \in Counted <=> pc[c] \in CountedPlaces
      /\ c \in Counted' <=> to \in CountedPlaces
  BY DEF Counted, CountedPlaces
<1>3. ASSUME NEW t \in Tenants
      PROVE  /\ TenantOwners(t) \in SUBSET Callers /\ TenantOwners(t)' \in SUBSET Callers
             /\ TenantOwners(t) \ {c} = TenantOwners(t)' \ {c}
             /\ c \in TenantOwners(t) <=> pc[c] \in TenantPlaces /\ tenant[c] = t
             /\ c \in TenantOwners(t)' <=> to \in TenantPlaces /\ u = t
  BY DEF TenantOwners, TenantPlaces
<1>4. Cardinality(GlobalOwners') = Cardinality(GlobalOwners) + Change(pc[c], to, GlobalPlaces)
  BY <1>1, CountsByOne DEF Change
<1>5. Cardinality(Counted') = Cardinality(Counted) + Change(pc[c], to, CountedPlaces)
  BY <1>2, CountsByOne DEF Change
<1>6. ASSUME NEW t \in Tenants
      PROVE  Cardinality(TenantOwners(t)') = Cardinality(TenantOwners(t))
               + Change(<<pc[c], tenant[c]>>, <<to, u>>, TenantPlaces \X {t})
  BY <1>3, CountsByOne DEF Change
<1> QED
  BY <1>4, <1>5, <1>6

(* One step keeps the account: each channel and the counter move with the  *)
(* set of callers they count.                                              *)
LEMMA TokensAccountedStep ==
  ASSUME BulkheadInv, [BulkheadNext]_bulkheadVars
  PROVE  TokensAccounted'
<1>0. /\ BulkheadTypeOK
      /\ global = Cardinality(GlobalOwners)
      /\ \A t \in Tenants : sem[t] = Cardinality(TenantOwners(t))
      /\ activeTotal = Cardinality(Counted)
  BY DEF BulkheadInv, TokensAccounted
<1>1. CASE UNCHANGED bulkheadVars
  BY <1>0, <1>1 DEF bulkheadVars, TokensAccounted, GlobalOwners, Counted, TenantOwners, At
<1>2. ASSUME NEW c \in Callers, RefuseGlobal(c)
      PROVE  TokensAccounted'
  BY <1>0, <1>2 DEF RefuseGlobal, TokensAccounted, GlobalOwners, Counted, TenantOwners, At
<1>3. ASSUME NEW c \in Callers, BulkheadStep(c), ~RefuseGlobal(c)
      PROVE  TokensAccounted'
  <2> DEFINE AfterMove(to, u) ==
        /\ Cardinality(GlobalOwners') = global
             + Change(pc[c], to, GlobalPlaces)
        /\ Cardinality(Counted') = activeTotal
             + Change(pc[c], to, CountedPlaces)
        /\ \A t \in Tenants : Cardinality(TenantOwners(t)') = sem[t]
             + Change(<<pc[c], tenant[c]>>, <<to, u>>, TenantPlaces \X {t})
  <2>0. ASSUME NEW to \in Locations, NEW u,
               pc' = [pc EXCEPT ![c] = to], tenant' = [tenant EXCEPT ![c] = u]
        PROVE  AfterMove(to, u)
    <3>1. /\ Cardinality(GlobalOwners') = Cardinality(GlobalOwners)
              + Change(pc[c], to, GlobalPlaces)
          /\ Cardinality(Counted') = Cardinality(Counted)
              + Change(pc[c], to, CountedPlaces)
          /\ \A t \in Tenants : Cardinality(TenantOwners(t)') = Cardinality(TenantOwners(t))
              + Change(<<pc[c], tenant[c]>>, <<to, u>>, TenantPlaces \X {t})
      BY <1>0, <2>0, CountsAfterMove
    <3> QED
      BY <1>0, <3>1
  <2>1. ASSUME NEW to \in Locations, pc' = [pc EXCEPT ![c] = to], UNCHANGED tenant
        PROVE  AfterMove(to, tenant[c])
    <3>1. tenant' = [tenant EXCEPT ![c] = tenant[c]]
      BY <1>0, <2>1 DEF BulkheadTypeOK
    <3> QED
      BY <2>0, <2>1, <3>1
  <2> HIDE DEF AfterMove
  <2>2. pc[c] # "idle" => tenant[c] \in Tenants
    BY DEF BulkheadInv, BulkheadTypeOK, InsideHasTenant
  <2> USE DEF Goto, Locations, Change, GlobalPlaces, TenantPlaces, CountedPlaces, AfterMove,
              TokensAccounted
  <2>3. ASSUME NEW u \in Tenants, ReserveGlobal(c, u)
        PROVE  TokensAccounted'
    <3>1. AfterMove("reserved", u)
      BY <2>0, <2>3 DEF ReserveGlobal
    <3> QED
      BY <1>0, <2>3, <3>1 DEF ReserveGlobal, BulkheadTypeOK
  <2>4. CASE EnterTenant(c)
    <3>1. AfterMove("entered", tenant[c])
      BY <2>1, <2>4 DEF EnterTenant
    <3> QED
      BY <1>0, <2>2, <2>4, <3>1 DEF EnterTenant, BulkheadTypeOK
  <2>5. CASE RefuseTenant(c)
    <3>1. AfterMove("refused", tenant[c])
      BY <2>1, <2>5 DEF RefuseTenant
    <3> QED
      BY <1>0, <2>5, <3>1 DEF RefuseTenant, BulkheadTypeOK
  <2>6. CASE ReturnGlobal(c)
    <3>1. AfterMove("idle", NoTenant)
      BY <2>0, <2>6 DEF ReturnGlobal
    <3> QED
      BY <1>0, <2>6, <3>1 DEF ReturnGlobal, BulkheadTypeOK
  <2>7. CASE CountIn(c)
    <3>1. AfterMove("running", tenant[c])
      BY <2>1, <2>7 DEF CountIn
    <3> QED
      BY <1>0, <2>7, <3>1 DEF CountIn, BulkheadTypeOK
  <2>8. CASE LeaveTenant(c)
    <3>1. AfterMove("leaving", tenant[c])
      BY <2>1, <2>8 DEF LeaveTenant
    <3>2. sem[tenant[c]] > 0
      <4>1. c \in TenantOwners(tenant[c])
        BY <2>8 DEF LeaveTenant, TenantOwners, At
      <4>2. TenantOwners(tenant[c]) # {} /\ IsFiniteSet(TenantOwners(tenant[c]))
        BY <4>1, CallerSetsFinite DEF TenantOwners, At
      <4>3. Cardinality(TenantOwners(tenant[c])) # 0
        BY <4>2, FS_EmptySet
      <4> QED
        BY <1>0, <2>2, <2>8, <4>3 DEF LeaveTenant, BulkheadTypeOK
    <3> QED
      BY <1>0, <2>2, <2>8, <3>1, <3>2 DEF LeaveTenant, BulkheadTypeOK
  <2>9. CASE LeaveGlobal(c)
    <3>1. AfterMove("left", tenant[c])
      BY <2>1, <2>9 DEF LeaveGlobal
    <3>2. global > 0
      <4>1. c \in GlobalOwners
        BY <2>9 DEF LeaveGlobal, GlobalOwners, At
      <4>2. GlobalOwners # {} /\ IsFiniteSet(GlobalOwners)
        BY <4>1, CallerSetsFinite DEF GlobalOwners, At
      <4>3. Cardinality(GlobalOwners) # 0
        BY <4>2, FS_EmptySet
      <4> QED
        BY <1>0, <4>3 DEF BulkheadTypeOK
    <3> QED
      BY <1>0, <2>9, <3>1, <3>2 DEF LeaveGlobal, BulkheadTypeOK
  <2>10. CASE CountOut(c)
    <3>1. AfterMove("idle", NoTenant)
      BY <2>0, <2>10 DEF CountOut
    <3> QED
      BY <1>0, <2>10, <3>1 DEF CountOut, BulkheadTypeOK
  <2> QED
    BY <1>3, <2>3, <2>4, <2>5, <2>6, <2>7, <2>8, <2>9, <2>10 DEF BulkheadStep
<1> QED
  BY <1>1, <1>2, <1>3 DEF BulkheadNext

(* The strengthened invariant holds in every reachable state.              *)
LEMMA BulkheadInvInductive == BulkheadSpec => []BulkheadInv
<1>1. BulkheadInit => BulkheadInv
  <2> SUFFICES ASSUME BulkheadInit PROVE BulkheadInv
    OBVIOUS
  <2>1. BulkheadTypeOK /\ InsideHasTenant
    BY BulkheadAssumption DEF BulkheadInit, BulkheadTypeOK, Locations, Verdicts, InsideHasTenant
  <2>2. /\ GlobalOwners = {} /\ Counted = {}
        /\ \A t \in Tenants : TenantOwners(t) = {}
    BY DEF BulkheadInit, GlobalOwners, Counted, TenantOwners, At
  <2>3. TokensAccounted
    BY <2>2, FS_EmptySet DEF BulkheadInit, TokensAccounted
  <2> QED
    BY <2>1, <2>3 DEF BulkheadInv
<1>2. BulkheadInv /\ [BulkheadNext]_bulkheadVars => BulkheadInv'
  BY BulkheadTypeStep, InsideHasTenantStep, TokensAccountedStep DEF BulkheadInv
<1> QED
  BY <1>1, <1>2, PTL DEF BulkheadSpec

(* No interleaving of Acquire and Release leaks a token or gives one back  *)
(* twice, for any number of callers and any limits.                        *)
THEOREM TokensAlwaysAccounted == BulkheadSpec => []TokensAccounted
<1>1. BulkheadInv => TokensAccounted
  BY DEF BulkheadInv
<1> QED
  BY <1>1, BulkheadInvInductive, PTL

-----------------------------------------------------------------------------
(* Refinement of the slot pool. *)

(* SlotPool's Cardinality is the one of FiniteSets.                        *)
LEMMA PoolCardinality == \A S : Pool!Cardinality(S) = Cardinality(S)
  BY DEF Pool!Cardinality, Cardinality

(* The tenant's token is the moment of the grant: by the account of the    *)
(* tokens there is then a free slot both for the tenant and in all.        *)
LEMMA EnterGrants ==
  ASSUME BulkheadInv, NEW c \in Callers, EnterTenant(c)
  PROVE  Pool!Grant(c, tenant[c])
<1> USE DEF BulkheadInv, BulkheadTypeOK, EnterTenant, Goto
<1>1. tenant[c] \in Tenants
  BY DEF InsideHasTenant
<1>2. Holding[c] = NoTenant
  BY DEF Holding
<1>3. Cardinality(Pool!Holders) < MaxGlobal
  <2>1. Pool!Holders \in SUBSET GlobalOwners /\ c \in GlobalOwners /\ c \notin Pool!Holders
    BY DEF Pool!Holders, Holding, GlobalOwners, At
  <2>2. IsFiniteSet(GlobalOwners) /\ Cardinality(GlobalOwners) \in Nat
    BY CallerSetsFinite DEF GlobalOwners, At
  <2>3. /\ Cardinality(Pool!Holders) <= Cardinality(GlobalOwners)
        /\ Cardinality(Pool!Holders) # Cardinality(GlobalOwners)
    BY <2>1, <2>2, FS_Subset
  <2>4. Cardinality(Pool!Holders) \in Nat
    BY CallerSetsFinite DEF Pool!Holders
  <2> QED
    BY <2>2, <2>3, <2>4, BulkheadAssumption DEF TokensAccounted
<1>4. Cardinality(Pool!HoldersOf(tenant[c])) < MaxPerTenant
  <2>1. Pool!HoldersOf(tenant[c]) = TenantOwners(tenant[c])
    BY <1>1, BulkheadAssumption DEF Pool!HoldersOf, Holding, TenantOwners, At
  <2> QED
    BY <1>1, <2>1 DEF TokensAccounted
<1>5. Holding' = [Holding EXCEPT ![c] = tenant[c]]
  BY DEF Holding
<1> QED
  BY <1>2, <1>3, <1>4, <1>5, PoolCardinality DEF Pool!Grant

(* A call that leaves gives back one slot of its tenant, and only one.     *)
LEMMA LeaveReturns ==
  ASSUME BulkheadInv, NEW c \in Callers, LeaveTenant(c)
  PROVE  Pool!Return(c)
<1> USE DEF BulkheadInv, BulkheadTypeOK, LeaveTenant, Goto
<1>1. Holding[c] # NoTenant
  BY DEF Holding, InsideHasTenant
<1>2. Holding' = [Holding EXCEPT ![c] = NoTenant]
  BY DEF Holding
<1> QED
  BY <1>1, <1>2 DEF Pool!Return

(* The bulkhead implements the slot pool: channel operations other than    *)
(* taking and returning the tenant's token are stuttering steps of it.     *)
THEOREM BulkheadImplementsSlotPool == BulkheadSpec => ImplementsSlotPool
<1>1. BulkheadInit => Pool!PoolInit
  BY DEF BulkheadInit, Pool!PoolInit, Holding
<1>2. BulkheadInv /\ [BulkheadNext]_bulkheadVars => [Pool!PoolNext]_Holding
  <2> SUFFICES ASSUME BulkheadInv, [BulkheadNext]_bulkheadVars
               PROVE  [Pool!PoolNext]_Holding
    OBVIOUS
  <2>1. CASE UNCHANGED bulkheadVars
    BY <2>1 DEF bulkheadVars, Holding
  <2>2. ASSUME NEW c \in Callers, EnterTenant(c)
        PROVE  Pool!PoolNext
    <3>1. tenant[c] \in Tenants
      BY <2>2 DEF BulkheadInv, BulkheadTypeOK, InsideHasTenant, EnterTenant, Goto
    <3> QED
      BY <2>2, <3>1, EnterGrants DEF Pool!PoolNext
  <2>3. ASSUME NEW c \in Callers, LeaveTenant(c)
        PROVE  Pool!PoolNext
    BY <2>3, LeaveReturns DEF Pool!PoolNext
  <2>4. ASSUME NEW c \in Callers, BulkheadStep(c), ~EnterTenant(c), ~LeaveTenant(c)
        PROVE  UNCHANGED Holding
    <3> USE DEF BulkheadInv, BulkheadTypeOK, Goto, Holding
    <3>1. ASSUME NEW t \in Tenants, ReserveGlobal(c, t)
          PROVE  UNCHANGED Holding
      BY <3>1 DEF ReserveGlobal
    <3>2. CASE RefuseGlobal(c) \/ RefuseTenant(c) \/ ReturnGlobal(c)
      BY <3>2 DEF RefuseGlobal, RefuseTenant, ReturnGlobal
    <3>3. CASE CountIn(c) \/ LeaveGlobal(c) \/ CountOut(c)
      BY <3>3 DEF CountIn, LeaveGlobal, CountOut
    <3> QED
      BY <2>4, <3>1, <3>2, <3>3 DEF BulkheadStep
  <2> QED
    BY <2>1, <2>2, <2>3, <2>4 DEF BulkheadNext
<1> QED
  BY <1>1, <1>2, BulkheadInvInductive, PTL DEF BulkheadSpec, ImplementsSlotPool, Pool!PoolSpec

(***************************************************************************)
(* The breaker alone, State() and Reset() included.                        *)
(***************************************************************************)

BreakerInv == BreakerTypeOK /\ CountsMatchState

(* Transition is sound from any state: the counters start from zero.       *)
LEMMA TransitionKeepsInv ==
  ASSUME BreakerInv, NEW next \in States, Transition(next)
  PROVE  /\ state' \in States
         /\ counts' \in Counts
         /\ openAge' \in 0..OpenTimeout
         /\ CountsMatchState'
<1> USE BreakerAssumption DEF BreakerInv, BreakerTypeOK, Transition, Counts, ZeroCounts
<1>1. CASE state = next
  BY <1>1 DEF CountsMatchState
<1>2. CASE state # next
  BY <1>2 DEF CountsMatchState
<1> QED
  BY <1>1, <1>2

(* The lazy Open to HalfOpen transition clears the counts it leaves.       *)
LEMMA LazyTransitionKeepsInv ==
  ASSUME BreakerInv, MaybeTransitionToHalfOpen
  PROVE  /\ state' \in States
         /\ counts' \in Counts
         /\ openAge' \in 0..OpenTimeout
         /\ CountsMatchState'
<1>1. CASE state = "open" /\ openAge >= OpenTimeout
  BY <1>1, TransitionKeepsInv DEF MaybeTransitionToHalfOpen, States
<1>2. CASE ~(state = "open" /\ openAge >= OpenTimeout)
  BY <1>2 DEF MaybeTransitionToHalfOpen, BreakerInv, BreakerTypeOK, CountsMatchState
<1> QED
  BY <1>1, <1>2

(* A recorded outcome keeps the invariant: the failure that would reach    *)
(* MaxFailures and the success that would reach SuccessThreshold change    *)
(* the state, and with it clear the counters.                              *)
LEMMA RecordFailureKeepsInv ==
  ASSUME BreakerInv, NEW c \in Callers, RecordFailure(c)
  PROVE  BreakerInv'
<1> USE BreakerAssumption
<1> DEFINE opens == \/ state = "closed" /\ FailuresAfter.failures >= MaxFailures
                    \/ state = "halfOpen"
<1>1. calling' \subseteq Callers
  BY DEF RecordFailure, BreakerInv, BreakerTypeOK
<1>2. CASE opens
  <2>1. Transition("open")
    BY <1>2 DEF RecordFailure
  <2> QED
    BY <1>1, <2>1, TransitionKeepsInv DEF BreakerInv, BreakerTypeOK, States
<1>3. CASE ~opens
  <2>1. counts' = FailuresAfter /\ UNCHANGED <<state, openAge>>
    BY <1>3 DEF RecordFailure
  <2>2. FailuresAfter \in Counts
    BY DEF FailuresAfter, Counts, Bump, BreakerInv, BreakerTypeOK
  <2>3. CountsMatchState'
    BY <1>3, <2>1, <2>2 DEF CountsMatchState, Counts
  <2> QED
    BY <1>1, <2>1, <2>2, <2>3 DEF BreakerInv, BreakerTypeOK
<1> QED
  BY <1>2, <1>3

(* A recorded success keeps the counts within what the state allows.       *)
LEMMA RecordSuccessKeepsInv ==
  ASSUME BreakerInv, NEW c \in Callers, RecordSuccess(c)
  PROVE  BreakerInv'
<1> USE BreakerAssumption
<1> DEFINE closes == state = "halfOpen" /\ SuccessesAfter.successes >= SuccessThreshold
<1>1. calling' \subseteq Callers
  BY DEF RecordSuccess, BreakerInv, BreakerTypeOK
<1>2. CASE closes
  <2>1. Transition("closed")
    BY <1>2 DEF RecordSuccess
  <2> QED
    BY <1>1, <2>1, TransitionKeepsInv DEF BreakerInv, BreakerTypeOK, States
<1>3. CASE ~closes
  <2>1. counts' = SuccessesAfter /\ UNCHANGED <<state, openAge>>
    BY <1>3 DEF RecordSuccess
  <2>2. SuccessesAfter \in Counts
    BY DEF SuccessesAfter, Counts, Bump, BreakerInv, BreakerTypeOK
  <2>3. CountsMatchState'
    <3>1. state' = "closed" => counts'.failures < MaxFailures
      BY <2>1 DEF SuccessesAfter
    <3>2. state' = "halfOpen" => /\ counts'.failures = 0
                                 /\ counts'.successes < SuccessThreshold
                                 /\ counts'.requests = counts'.successes
      BY <1>3, <2>1, <2>2
         DEF SuccessesAfter, Counts, Bump, BreakerInv, BreakerTypeOK, CountsMatchState
    <3> QED
      BY <3>1, <3>2 DEF CountsMatchState
  <2> QED
    BY <1>1, <2>1, <2>2, <2>3 DEF BreakerInv, BreakerTypeOK
<1> QED
  BY <1>2, <1>3

(* Every operation of the breaker preserves the invariant.                 *)
LEMMA BreakerInvStep ==
  ASSUME BreakerInv, [BreakerNext]_breakerVars
  PROVE  BreakerInv'
<1> USE BreakerAssumption
<1>1. CASE UNCHANGED breakerVars
  BY <1>1 DEF breakerVars, BreakerInv, BreakerTypeOK, CountsMatchState
<1>2. ASSUME NEW c \in Callers, Admit(c) \/ Reject(c)
      PROVE  BreakerInv'
  <2>1. MaybeTransitionToHalfOpen /\ calling' \subseteq Callers
    BY <1>2 DEF Admit, Reject, BreakerInv, BreakerTypeOK
  <2> QED
    BY <2>1, LazyTransitionKeepsInv DEF BreakerInv, BreakerTypeOK
<1>3. CASE ReadState
  <2>1. MaybeTransitionToHalfOpen /\ calling' \subseteq Callers
    BY <1>3 DEF ReadState, BreakerInv, BreakerTypeOK
  <2> QED
    BY <2>1, LazyTransitionKeepsInv DEF BreakerInv, BreakerTypeOK
<1>4. CASE Reset
  <2>1. Transition("closed") /\ calling' \subseteq Callers
    BY <1>4 DEF Reset, BreakerInv, BreakerTypeOK
  <2> QED
    BY <2>1, TransitionKeepsInv DEF BreakerInv, BreakerTypeOK, States
<1>5. CASE Tick
  BY <1>5 DEF Tick, BreakerInv, BreakerTypeOK, CountsMatchState
<1> QED
  BY <1>1, <1>2, <1>3, <1>4, <1>5, RecordFailureKeepsInv, RecordSuccessKeepsInv
     DEF BreakerNext, BreakerStep

(* So it holds in every reachable state of the breaker.                    *)
LEMMA BreakerInvInductive == BreakerSpec => []BreakerInv
<1>1. BreakerInit => BreakerInv
  BY BreakerAssumption DEF BreakerInit, BreakerInv, BreakerTypeOK, CountsMatchState,
     States, Counts, ZeroCounts
<1> QED
  BY <1>1, BreakerInvStep, PTL DEF BreakerSpec

(* The breaker's variables keep their types.                               *)
THEOREM BreakerTypeCorrect == BreakerSpec => []BreakerTypeOK
<1>1. BreakerInv => BreakerTypeOK
  BY DEF BreakerInv
<1> QED
  BY <1>1, BreakerInvInductive, PTL

(* However late outcomes arrive and whoever calls State() or Reset() in    *)
(* between, the counters describe the breaker's current state.             *)
THEOREM CountsAlwaysMatchState == BreakerSpec => []CountsMatchState
<1>1. BreakerInv => CountsMatchState
  BY DEF BreakerInv
<1> QED
  BY <1>1, BreakerInvInductive, PTL

(* Where HalfOpenResolves does hold: if one success closes the breaker, a  *)
(* half-open one has recorded none yet, and so always admits a call.       *)
THEOREM OneSuccessNeverSticks ==
  SuccessThreshold = 1 => (BreakerSpec => [](state = "halfOpen" => Admissible))
<1> SUFFICES ASSUME SuccessThreshold = 1
             PROVE  BreakerSpec => [](state = "halfOpen" => Admissible)
  OBVIOUS
<1>1. ASSUME BreakerInv, state = "halfOpen" PROVE Admissible
  <2>1. counts.successes \in Nat /\ counts.successes < 1 /\ counts.requests = counts.successes
    BY <1>1 DEF BreakerInv, BreakerTypeOK, Counts, CountsMatchState
  <2> QED
    BY <1>1, <2>1 DEF Admissible
<1> QED
  BY <1>1, BreakerInvInductive, PTL

(***************************************************************************)
(* The composition.                                                        *)
(***************************************************************************)

(* Every step of the guard is a step of the bulkhead or leaves it alone.   *)
LEMMA GuardStepIsBulkheadStep ==
  ASSUME [GuardNext]_guardVars
  PROVE  [BulkheadNext]_bulkheadVars
<1>1. CASE UNCHANGED guardVars
  BY <1>1 DEF guardVars
<1>2. ASSUME NEW c \in Callers, SlotStep(c)
      PROVE  BulkheadNext
  BY <1>2 DEF SlotStep, BulkheadNext, BulkheadStep
<1>3. ASSUME NEW c \in Callers, GuardLeave(c)
      PROVE  BulkheadNext
  BY <1>3 DEF GuardLeave, BulkheadNext, BulkheadStep
<1>4. ASSUME NEW c \in Callers,
             GuardAdmit(c) \/ GuardReject(c) \/ QueryFails(c) \/ QuerySucceeds(c)
      PROVE  UNCHANGED bulkheadVars
  BY <1>4 DEF GuardAdmit, GuardReject, QueryFails, QuerySucceeds
<1>5. ASSUME GuardTick
      PROVE  UNCHANGED bulkheadVars
  BY <1>5 DEF GuardTick
<1> QED
  BY <1>1, <1>2, <1>3, <1>4, <1>5 DEF GuardNext, GuardStep

(* And every step of the guard is a step of the breaker or leaves it alone. *)
LEMMA GuardStepIsBreakerStep ==
  ASSUME [GuardNext]_guardVars
  PROVE  [BreakerNext]_breakerVars
<1>1. CASE UNCHANGED guardVars
  BY <1>1 DEF guardVars
<1>2. ASSUME NEW c \in Callers, SlotStep(c) \/ GuardLeave(c)
      PROVE  UNCHANGED breakerVars
  BY <1>2 DEF SlotStep, GuardLeave
<1>3. ASSUME NEW c \in Callers,
             GuardAdmit(c) \/ GuardReject(c) \/ QueryFails(c) \/ QuerySucceeds(c)
      PROVE  BreakerNext
  BY <1>3 DEF GuardAdmit, GuardReject, QueryFails, QuerySucceeds, BreakerNext, BreakerStep
<1>4. ASSUME GuardTick
      PROVE  BreakerNext
  BY <1>4 DEF GuardTick, BreakerNext
<1> QED
  BY <1>1, <1>2, <1>3, <1>4 DEF GuardNext, GuardStep

(* The composition implements each of its parts.                           *)
THEOREM GuardImplementsParts == GuardSpec => BulkheadSpec /\ BreakerSpec
<1>1. GuardInit => BulkheadInit /\ BreakerInit
  BY DEF GuardInit
<1> QED
  BY <1>1, GuardStepIsBulkheadStep, GuardStepIsBreakerStep, PTL
     DEF GuardSpec, BulkheadSpec, BreakerSpec

(* The bulkhead's promise and the exact account of its tokens carry over.  *)
THEOREM GuardKeepsSlots == GuardSpec => []TokensAccounted /\ ImplementsSlotPool
  BY GuardImplementsParts, TokensAlwaysAccounted, BulkheadImplementsSlotPool, PTL

(* So does the breaker's account of its own state.                         *)
THEOREM GuardKeepsCounts == GuardSpec => []CountsMatchState
  BY GuardImplementsParts, CountsAlwaysMatchState, PTL

-----------------------------------------------------------------------------
(* A query in flight holds its slots. *)

(* The control state of a caller inside Execute, and of one past it.       *)
ExecuteInsideDo ==
  /\ calling \cup executed \subseteq At({"running"})
  /\ calling \cap executed = {}

(* Execute only runs between Acquire and Release.                          *)
LEMMA ExecuteInsideDoStep ==
  ASSUME BulkheadTypeOK, BreakerTypeOK, ExecuteInsideDo, [GuardNext]_guardVars
  PROVE  ExecuteInsideDo'
<1> USE DEF ExecuteInsideDo, At, BulkheadTypeOK
<1>1. CASE UNCHANGED guardVars
  BY <1>1 DEF guardVars, bulkheadVars, breakerVars
<1>2. ASSUME NEW c \in Callers, SlotStep(c)
      PROVE  ExecuteInsideDo'
  <2>1. UNCHANGED <<calling, executed>>
    BY <1>2 DEF SlotStep, breakerVars
  <2>2. At({"running"}) \subseteq At({"running"})'
    BY <1>2 DEF SlotStep, ReserveGlobal, RefuseGlobal, EnterTenant, RefuseTenant,
       ReturnGlobal, CountIn, LeaveGlobal, CountOut, Goto
  <2> QED
    BY <2>1, <2>2
<1>3. ASSUME NEW c \in Callers, GuardLeave(c)
      PROVE  ExecuteInsideDo'
  BY <1>3 DEF GuardLeave, LeaveTenant, Goto, breakerVars
<1>4. ASSUME NEW c \in Callers, GuardAdmit(c)
      PROVE  ExecuteInsideDo'
  BY <1>4 DEF GuardAdmit, Admit, bulkheadVars
<1>5. ASSUME NEW c \in Callers, GuardReject(c)
      PROVE  ExecuteInsideDo'
  BY <1>5 DEF GuardReject, Reject, bulkheadVars
<1>6. ASSUME NEW c \in Callers, QueryFails(c) \/ QuerySucceeds(c)
      PROVE  ExecuteInsideDo'
  BY <1>6 DEF QueryFails, QuerySucceeds, RecordFailure, RecordSuccess, bulkheadVars
<1>7. ASSUME GuardTick
      PROVE  ExecuteInsideDo'
  BY <1>7 DEF GuardTick, Tick, bulkheadVars
<1> QED
  BY <1>1, <1>2, <1>3, <1>4, <1>5, <1>6, <1>7 DEF GuardNext, GuardStep

(* Slots held bound the queries in flight, by the account of the tokens.   *)
LEMMA SlotsBoundQueries ==
  ASSUME BulkheadInv, ExecuteInsideDo
  PROVE  QueriesHoldSlots
<1> USE DEF BulkheadInv, BulkheadTypeOK, ExecuteInsideDo, At
<1>1. Cardinality(calling) <= MaxGlobal
  <2>1. calling \in SUBSET GlobalOwners /\ GlobalOwners \in SUBSET Callers
    BY DEF GlobalOwners
  <2>2. IsFiniteSet(GlobalOwners) /\ Cardinality(calling) \in Nat
    BY <2>1, CallerSetsFinite
  <2>3. Cardinality(calling) <= Cardinality(GlobalOwners)
    BY <2>1, <2>2, FS_Subset
  <2> QED
    BY <2>2, <2>3, BulkheadAssumption DEF TokensAccounted
<1>2. ASSUME NEW t \in Tenants
      PROVE  Cardinality({c \in calling : tenant[c] = t}) <= MaxPerTenant
  <2> DEFINE S == {c \in calling : tenant[c] = t}
  <2>1. S \in SUBSET TenantOwners(t) /\ TenantOwners(t) \in SUBSET Callers
    BY DEF TenantOwners
  <2> HIDE DEF S
  <2>2. IsFiniteSet(TenantOwners(t)) /\ Cardinality(S) \in Nat
    BY <2>1, CallerSetsFinite
  <2>3. Cardinality(S) <= Cardinality(TenantOwners(t))
    BY <2>1, <2>2, FS_Subset
  <2>4. Cardinality(S) <= MaxPerTenant
    BY <2>2, <2>3, BulkheadAssumption DEF TokensAccounted
  <2> QED
    BY <2>4 DEF S
<1> QED
  BY <1>1, <1>2 DEF QueriesHoldSlots

(* ClickHouse never runs more queries of a tenant than MaxPerTenant nor    *)
(* more than MaxGlobal in all, whatever the breaker does in between.       *)
THEOREM QueriesAlwaysHoldSlots == GuardSpec => []QueriesHoldSlots
<1>1. GuardInit => ExecuteInsideDo
  BY DEF GuardInit, BreakerInit, ExecuteInsideDo
<1>2. GuardSpec => []BulkheadInv /\ []BreakerTypeOK
  BY GuardImplementsParts, BulkheadInvInductive, BreakerTypeCorrect, PTL
<1>3. BulkheadInv => BulkheadTypeOK
  BY DEF BulkheadInv
<1>4. GuardSpec => []ExecuteInsideDo
  BY <1>1, <1>2, <1>3, ExecuteInsideDoStep, PTL DEF GuardSpec
<1> QED
  BY <1>2, <1>4, SlotsBoundQueries, PTL

-----------------------------------------------------------------------------
(* The guard's type invariant. *)

(* The trail keeps the latest outcomes, and no more than it needs.         *)
TrailTypeOK == trail \in Seq({"success", "failure", "tick"}) /\ Len(trail) <= TrailLength

LEMMA TrailGrows ==
  ASSUME TrailTypeOK, NEW what \in {"success", "failure", "tick"}, Record(what) \/ KeepTrail
  PROVE  TrailTypeOK'
<1> DEFINE Outcome == {"success", "failure", "tick"}
<1>1. TrailLength \in Nat \ {0}
  BY BreakerAssumption DEF TrailLength
<1>2. trail \in Seq(Outcome) /\ Len(trail) \in Nat /\ Len(trail) <= TrailLength /\ what \in Outcome
  BY DEF TrailTypeOK
<1> HIDE DEF Outcome
<1>3. CASE trail' = trail
  BY <1>2, <1>3 DEF TrailTypeOK, TrailLength, Outcome
<1>4. CASE trail' = <<>>
  <2>1. trail' \in Seq(Outcome) /\ Len(trail') = 0
    BY <1>4
  <2> QED
    BY <1>1, <2>1 DEF TrailTypeOK, TrailLength, Outcome
<1>5. CASE Len(trail) < TrailLength /\ trail' = Append(trail, what)
  <2>1. trail' \in Seq(Outcome) /\ Len(trail') = Len(trail) + 1
    BY <1>2, <1>5
  <2> QED
    BY <1>1, <1>2, <1>5, <2>1 DEF TrailTypeOK, TrailLength, Outcome
<1>6. CASE ~(Len(trail) < TrailLength) /\ trail' = Append(Tail(trail), what)
  <2>1. trail # <<>>
    BY <1>1, <1>2, <1>6
  <2>2. Tail(trail) \in Seq(Outcome) /\ Len(Tail(trail)) = Len(trail) - 1
    BY <1>2, <2>1
  <2>3. trail' \in Seq(Outcome) /\ Len(trail') = Len(trail)
    BY <1>2, <1>6, <2>2
  <2> QED
    BY <1>2, <2>3 DEF TrailTypeOK, TrailLength, Outcome
<1> QED
  BY <1>3, <1>4, <1>5, <1>6 DEF Record, KeepTrail

(* Steps of the bulkhead leave the trail alone; the others record in it.   *)
LEMMA TrailStep ==
  ASSUME TrailTypeOK, [GuardNext]_guardVars
  PROVE  TrailTypeOK'
<1>1. CASE UNCHANGED trail
  BY <1>1 DEF TrailTypeOK, TrailLength
<1>2. CASE \E what \in {"success", "failure", "tick"} : Record(what) \/ KeepTrail
  BY <1>2, TrailGrows
<1>3. UNCHANGED trail \/ \E what \in {"success", "failure", "tick"} : Record(what) \/ KeepTrail
  BY DEF GuardNext, GuardStep, SlotStep, GuardLeave, GuardAdmit, GuardReject, QueryFails,
     QuerySucceeds, GuardTick, guardVars
<1> QED
  BY <1>1, <1>2, <1>3

(* Tokens, counters and history keep their types in the composition.       *)
THEOREM GuardTypeCorrect == GuardSpec => []GuardTypeOK
<1>1. GuardInit => ExecuteInsideDo
  BY DEF GuardInit, BreakerInit, ExecuteInsideDo
<1>2. GuardInit => TrailTypeOK
  <2> SUFFICES ASSUME trail = <<>> PROVE TrailTypeOK
    BY DEF GuardInit
  <2>1. TrailLength \in Nat
    BY BreakerAssumption DEF TrailLength
  <2>2. trail \in Seq({"success", "failure", "tick"}) /\ Len(trail) = 0
    OBVIOUS
  <2> QED
    BY <2>1, <2>2 DEF TrailTypeOK
<1>3. GuardSpec => []BulkheadTypeOK /\ []BreakerTypeOK
  BY GuardImplementsParts, BulkheadTypeCorrect, BreakerTypeCorrect, PTL
<1>4. GuardSpec => []ExecuteInsideDo
  BY <1>1, <1>3, ExecuteInsideDoStep, PTL DEF GuardSpec
<1>5. GuardSpec => []TrailTypeOK
  BY <1>2, TrailStep, PTL DEF GuardSpec
<1>6. BulkheadTypeOK /\ BreakerTypeOK /\ ExecuteInsideDo /\ TrailTypeOK => GuardTypeOK
  BY DEF GuardTypeOK, ExecuteInsideDo, At, TrailTypeOK
<1> QED
  BY <1>3, <1>4, <1>5, <1>6, PTL

-----------------------------------------------------------------------------
(* The breaker's transitions are earned. *)

(* In each state the counter that decides when to leave it counts the      *)
(* latest entries of the trail: failures in a row while closed, ticks      *)
(* while open, successes and nothing else while half-open.                 *)
TrailMatches ==
  /\ state = "closed" => AllTrail("failure", counts.failures)
  /\ state = "open" => AllTrail("tick", openAge)
  /\ state = "halfOpen" => AllTrail("success", counts.successes) /\ Len(trail) = counts.successes

TrailInv == BreakerInv /\ TrailTypeOK /\ TrailMatches

(* AllTrail of the trail after a step.                                     *)
AllTrailNext(what, n) ==
  /\ Len(trail') >= n
  /\ \A i \in Len(trail') - n + 1 .. Len(trail') : trail'[i] = what

(* A streak of no entries is in every trail.                               *)
LEMMA NoStreak ==
  ASSUME NEW what, Len(trail) \in Nat
  PROVE  AllTrail(what, 0)
  BY DEF AllTrail

(* Recording once more lengthens a streak, unless the trail cannot hold it. *)
LEMMA StreakGrows ==
  ASSUME TrailTypeOK, NEW what \in {"success", "failure", "tick"}, Record(what), state' = state,
         NEW n \in Nat, n < TrailLength, AllTrail(what, n)
  PROVE  /\ AllTrailNext(what, n + 1)
         /\ Len(trail) < TrailLength => Len(trail') = Len(trail) + 1
<1> DEFINE Outcome == {"success", "failure", "tick"}
<1>1. TrailLength \in Nat \ {0}
  BY BreakerAssumption DEF TrailLength
<1>2. /\ trail \in Seq(Outcome) /\ Len(trail) \in Nat /\ Len(trail) <= TrailLength
      /\ what \in Outcome /\ Len(trail) >= n
      /\ \A i \in Len(trail) - n + 1 .. Len(trail) : trail[i] = what
  BY DEF TrailTypeOK, AllTrail
<1> HIDE DEF Outcome
<1>3. CASE Len(trail) < TrailLength
  <2>1. trail' = Append(trail, what)
    BY <1>3 DEF Record
  <2>2. /\ Len(trail') = Len(trail) + 1 /\ trail'[Len(trail) + 1] = what
        /\ \A i \in 1..Len(trail) : trail'[i] = trail[i]
    BY <1>2, <2>1
  <2>3. \A i \in Len(trail) + 1 - (n + 1) + 1 .. Len(trail) + 1 : trail'[i] = what
    BY <1>2, <2>2
  <2> QED
    BY <1>2, <2>2, <2>3 DEF AllTrailNext
<1>4. CASE ~(Len(trail) < TrailLength)
  <2>1. trail' = Append(Tail(trail), what) /\ trail # <<>> /\ n < Len(trail)
    BY <1>1, <1>2, <1>4 DEF Record
  <2>2. /\ Tail(trail) \in Seq(Outcome) /\ Len(Tail(trail)) = Len(trail) - 1
        /\ \A i \in 1 .. Len(trail) - 1 : Tail(trail)[i] = trail[i + 1]
    BY <1>2, <2>1
  <2>3. /\ Len(trail') = Len(trail) /\ trail'[Len(trail)] = what
        /\ \A i \in 1 .. Len(trail) - 1 : trail'[i] = trail[i + 1]
    BY <1>2, <2>1, <2>2
  <2>4. ASSUME NEW i \in Len(trail) - (n + 1) + 1 .. Len(trail)
        PROVE  trail'[i] = what
    <3>1. i \in 1..Len(trail)
      BY <1>2, <2>1
    <3>2. CASE i < Len(trail)
      <4>1. i \in 1 .. Len(trail) - 1 /\ i + 1 \in Len(trail) - n + 1 .. Len(trail)
        BY <1>2, <2>4, <3>1, <3>2
      <4> QED
        BY <1>2, <2>3, <4>1
    <3> QED
      BY <1>2, <2>3, <3>1, <3>2
  <2> QED
    <3>1. Len(trail') >= n + 1 /\ Len(trail') - (n + 1) + 1 = Len(trail) - (n + 1) + 1
      BY <1>2, <2>1, <2>3
    <3> QED
      BY <1>4, <2>3, <2>4, <3>1 DEF AllTrailNext
<1> QED
  BY <1>3, <1>4

(* A change of state starts from an empty trail and zero counters.         *)
LEMMA TransitionStartsOver ==
  ASSUME NEW next \in States, Transition(next), state # next, trail' = <<>>
  PROVE  TrailMatches'
<1>1. /\ state' = next /\ counts' = ZeroCounts /\ Len(trail') = 0
      /\ next = "open" => openAge' = 0
  BY DEF Transition
<1>2. AllTrailNext("failure", 0) /\ AllTrailNext("tick", 0) /\ AllTrailNext("success", 0)
  BY <1>1 DEF AllTrailNext
<1> QED
  BY <1>1, <1>2 DEF TrailMatches, ZeroCounts, AllTrail, AllTrailNext

(* A step that neither changes state nor records anything.                 *)
LEMMA TrailStays ==
  ASSUME TrailMatches, UNCHANGED <<state, trail, openAge>>,
         state # "open" => counts' = counts
  PROVE  TrailMatches'
  BY DEF TrailMatches, AllTrail, AllTrailNext

LEMMA LazyKeepsTrail ==
  ASSUME TrailInv, MaybeTransitionToHalfOpen, KeepTrail
  PROVE  /\ TrailMatches'
         /\ state = "open" /\ state' # "open" => AllTrail("tick", OpenTimeout)
         /\ state # "open" => state' = state
<1>1. CASE state = "open" /\ openAge >= OpenTimeout
  <2>1. Transition("halfOpen") /\ state' = "halfOpen" /\ trail' = <<>>
    BY <1>1 DEF MaybeTransitionToHalfOpen, Transition, KeepTrail
  <2>2. openAge = OpenTimeout
    BY <1>1, BreakerAssumption DEF TrailInv, BreakerInv, BreakerTypeOK
  <2> QED
    BY <1>1, <2>1, <2>2, TransitionStartsOver DEF TrailInv, TrailMatches, States
<1>2. CASE ~(state = "open" /\ openAge >= OpenTimeout)
  <2>1. UNCHANGED <<state, counts, openAge, trail>>
    BY <1>2 DEF MaybeTransitionToHalfOpen, KeepTrail
  <2> QED
    BY <2>1, TrailStays DEF TrailInv
<1> QED
  BY <1>1, <1>2

(* A failure: it opens the breaker, or lengthens the streak.               *)
LEMMA FailureKeepsTrail ==
  ASSUME TrailInv, NEW c \in Callers, QueryFails(c)
  PROVE  /\ TrailMatches'
         /\ state = "closed" /\ state' = "open" => AllTrail("failure", MaxFailures - 1)
         /\ state = "open" => state' = "open"
         /\ state = "halfOpen" => state' = "open"
<1> DEFINE opens == \/ state = "closed" /\ FailuresAfter.failures >= MaxFailures
                    \/ state = "halfOpen"
<1>1. /\ state \in States /\ counts \in Counts /\ MaxFailures \in Nat /\ CountCap \in Nat
      /\ MaxFailures <= CountCap /\ CountCap <= TrailLength /\ TrailLength \in Nat
  BY BreakerAssumption DEF TrailInv, BreakerInv, BreakerTypeOK, TrailLength
<1>2. RecordFailure(c) /\ TrailMatches /\ CountsMatchState
  BY DEF QueryFails, TrailInv, BreakerInv
<1>3. CASE opens
  <2>1. Transition("open") /\ state # "open" /\ state' = "open"
    BY <1>2, <1>3 DEF RecordFailure, Transition
  <2>2. trail' = <<>>
    BY <2>1 DEF QueryFails, Record
  <2>3. state = "closed" => counts.failures = MaxFailures - 1
    <3>1. state = "closed" => counts.failures < MaxFailures /\ Bump(counts.failures) >= MaxFailures
      BY <1>2, <1>3 DEF CountsMatchState, FailuresAfter
    <3> QED
      BY <1>1, <3>1 DEF Bump, Counts
  <2> QED
    BY <1>2, <2>1, <2>2, <2>3, TransitionStartsOver DEF States, TrailMatches
<1>4. CASE ~opens
  <2>1. counts' = FailuresAfter /\ UNCHANGED <<state, openAge>>
    BY <1>2, <1>4 DEF RecordFailure
  <2>2. CASE state = "open"
    <3>1. trail' = trail
      BY <2>1, <2>2 DEF QueryFails, KeepTrail
    <3> QED
      BY <1>2, <2>1, <2>2, <3>1, TrailStays
  <2>3. CASE state = "closed"
    <3>1. /\ Record("failure") /\ AllTrail("failure", counts.failures)
          /\ counts.failures < MaxFailures /\ counts.failures \in Nat
      BY <1>1, <1>2, <2>3 DEF QueryFails, TrailMatches, CountsMatchState, Counts
    <3>2. counts.failures < TrailLength
      BY <1>1, <3>1
    <3>3. AllTrailNext("failure", counts.failures + 1)
      BY <2>1, <3>1, <3>2, StreakGrows DEF TrailInv
    <3>4. counts'.failures = counts.failures + 1
      BY <1>1, <2>1, <3>1 DEF FailuresAfter, Bump
    <3> QED
      BY <2>1, <2>3, <3>3, <3>4 DEF TrailMatches, AllTrail, AllTrailNext
  <2> QED
    BY <1>1, <1>4, <2>1, <2>2, <2>3 DEF States
<1> QED
  BY <1>3, <1>4

(* A success: it closes the breaker, lengthens the streak of a half-open   *)
(* one, or ends the streak of failures.                                    *)
LEMMA SuccessKeepsTrail ==
  ASSUME TrailInv, NEW c \in Callers, QuerySucceeds(c)
  PROVE  /\ TrailMatches'
         /\ state = "halfOpen" /\ state' = "closed" =>
              AllTrail("success", SuccessThreshold - 1) /\ Len(trail) = SuccessThreshold - 1
         /\ state # "halfOpen" => state' = state
         /\ state' # "open" \/ state = "open"
<1> DEFINE closes == state = "halfOpen" /\ SuccessesAfter.successes >= SuccessThreshold
<1>1. /\ state \in States /\ counts \in Counts /\ SuccessThreshold \in Nat /\ CountCap \in Nat
      /\ SuccessThreshold <= CountCap /\ CountCap <= TrailLength /\ TrailLength \in Nat
      /\ Len(trail) \in Nat
  BY BreakerAssumption DEF TrailInv, BreakerInv, BreakerTypeOK, TrailLength, TrailTypeOK
<1>2. RecordSuccess(c) /\ TrailMatches /\ CountsMatchState
  BY DEF QuerySucceeds, TrailInv, BreakerInv
<1>3. CASE closes
  <2>1. Transition("closed") /\ state = "halfOpen" /\ state' = "closed"
    BY <1>2, <1>3 DEF RecordSuccess, Transition
  <2>2. trail' = <<>>
    BY <2>1 DEF QuerySucceeds, Record
  <2>3. counts.successes = SuccessThreshold - 1
    <3>1. counts.successes < SuccessThreshold /\ Bump(counts.successes) >= SuccessThreshold
      BY <1>2, <1>3 DEF CountsMatchState, SuccessesAfter
    <3> QED
      BY <1>1, <3>1 DEF Bump, Counts
  <2> QED
    BY <1>2, <2>1, <2>2, <2>3, TransitionStartsOver DEF States, TrailMatches
<1>4. CASE ~closes
  <2>1. counts' = SuccessesAfter /\ UNCHANGED <<state, openAge>>
    BY <1>2, <1>4 DEF RecordSuccess
  <2>2. CASE state = "open"
    <3>1. trail' = trail
      BY <2>1, <2>2 DEF QuerySucceeds, KeepTrail
    <3> QED
      BY <1>2, <2>1, <2>2, <3>1, TrailStays
  <2>3. CASE state = "closed"
    <3>1. TrailTypeOK'
      BY <2>3, TrailGrows DEF QuerySucceeds, TrailInv
    <3>2. AllTrailNext("failure", 0)
      BY <3>1 DEF TrailTypeOK, AllTrailNext
    <3>3. counts'.failures = 0
      BY <2>1 DEF SuccessesAfter
    <3> QED
      BY <2>1, <2>3, <3>2, <3>3 DEF TrailMatches, AllTrail, AllTrailNext
  <2>4. CASE state = "halfOpen"
    <3>1. /\ Record("success") /\ AllTrail("success", counts.successes)
          /\ Len(trail) = counts.successes
          /\ counts.successes < SuccessThreshold /\ counts.successes \in Nat
      BY <1>1, <1>2, <2>4 DEF QuerySucceeds, TrailMatches, CountsMatchState, Counts
    <3>2. counts.successes < TrailLength
      BY <1>1, <3>1
    <3>3. AllTrailNext("success", counts.successes + 1) /\ Len(trail') = counts.successes + 1
      BY <2>1, <3>1, <3>2, StreakGrows DEF TrailInv
    <3>4. counts'.successes = counts.successes + 1
      BY <1>1, <2>1, <3>1 DEF SuccessesAfter, Bump
    <3> QED
      BY <2>1, <2>4, <3>3, <3>4 DEF TrailMatches, AllTrail, AllTrailNext
  <2> QED
    BY <1>1, <1>4, <2>1, <2>2, <2>3, <2>4 DEF States
<1> QED
  BY <1>3, <1>4

(* A tick is one more entry of the time spent open.                        *)
LEMMA TickKeepsTrail ==
  ASSUME TrailInv, GuardTick
  PROVE  TrailMatches' /\ UNCHANGED <<state, calling>>
<1>1. /\ state = "open" /\ openAge' = openAge + 1 /\ UNCHANGED <<state, counts, calling>>
      /\ Record("tick") /\ openAge < OpenTimeout /\ openAge \in Nat
  BY DEF GuardTick, Tick, TrailInv, BreakerInv, BreakerTypeOK
<1>2. openAge < TrailLength
  BY <1>1, BreakerAssumption DEF TrailLength
<1>3. AllTrailNext("tick", openAge + 1)
  BY <1>1, <1>2, StreakGrows DEF TrailInv, TrailMatches
<1> QED
  BY <1>1, <1>3 DEF TrailMatches, AllTrail, AllTrailNext

(* What a step of the guard must show of the breaker's transitions.        *)
Earned ==
  /\ state = "closed" /\ state' = "open" => AllTrail("failure", MaxFailures - 1)
  /\ state = "open" /\ state' # "open" => AllTrail("tick", OpenTimeout)
  /\ state = "halfOpen" /\ state' = "closed"
       => AllTrail("success", SuccessThreshold - 1) /\ Len(trail) = SuccessThreshold - 1
  /\ state' = "open" => calling' \subseteq calling

LEMMA GuardKeepsTrail ==
  ASSUME TrailInv, [GuardNext]_guardVars
  PROVE  TrailMatches' /\ Earned
<1>1. state \in States /\ TrailMatches
  BY DEF TrailInv, BreakerInv, BreakerTypeOK
<1>2. CASE UNCHANGED <<breakerVars, trail>>
  BY <1>1, <1>2, TrailStays DEF breakerVars, Earned
<1>3. ASSUME NEW c \in Callers, GuardAdmit(c) \/ GuardReject(c)
      PROVE  TrailMatches' /\ Earned
  <2>1. /\ MaybeTransitionToHalfOpen /\ KeepTrail
        /\ state' = "open" => calling' \subseteq calling
    BY <1>3 DEF GuardAdmit, GuardReject, Admit, Reject, Admissible
  <2> QED
    BY <2>1, LazyKeepsTrail DEF Earned
<1>4. ASSUME NEW c \in Callers, QueryFails(c)
      PROVE  TrailMatches' /\ Earned
  <2>1. calling' \subseteq calling
    BY <1>4 DEF QueryFails, RecordFailure
  <2> QED
    BY <1>4, <2>1, FailureKeepsTrail DEF Earned
<1>5. ASSUME NEW c \in Callers, QuerySucceeds(c)
      PROVE  TrailMatches' /\ Earned
  <2>1. calling' \subseteq calling
    BY <1>5 DEF QuerySucceeds, RecordSuccess
  <2> QED
    BY <1>5, <2>1, SuccessKeepsTrail DEF Earned
<1>6. CASE GuardTick
  BY <1>6, TickKeepsTrail DEF Earned
<1>7. ASSUME NEW c \in Callers, SlotStep(c) \/ GuardLeave(c)
      PROVE  UNCHANGED <<breakerVars, trail>>
  BY <1>7 DEF SlotStep, GuardLeave
<1>8. CASE UNCHANGED guardVars
  BY <1>2, <1>8 DEF guardVars
<1> QED
  BY <1>2, <1>3, <1>4, <1>5, <1>6, <1>7, <1>8 DEF GuardNext, GuardStep

(* The breaker opens, probes and closes only on the evidence its           *)
(* thresholds ask for, gathered in the state it leaves, and starts no      *)
(* query while it is open (breaker.go:96-171).                             *)
THEOREM TransitionsAlwaysEarned == GuardSpec => TransitionsEarned
<1>1. GuardInit => TrailMatches
  <2> SUFFICES ASSUME state = "closed", counts = ZeroCounts, trail = <<>> PROVE TrailMatches
    BY DEF GuardInit, BreakerInit
  <2>1. Len(trail) \in Nat /\ counts.failures = 0
    BY DEF ZeroCounts
  <2> QED
    BY <2>1, NoStreak DEF TrailMatches
<1>2. GuardSpec => []BreakerInv
  BY GuardImplementsParts, BreakerInvInductive, PTL
<1>3. GuardSpec => []TrailTypeOK
  <2>1. GuardTypeOK => TrailTypeOK
    BY DEF GuardTypeOK, TrailTypeOK
  <2> QED
    BY <2>1, GuardTypeCorrect, PTL
<1>4. BreakerInv /\ TrailTypeOK /\ TrailMatches /\ [GuardNext]_guardVars => TrailMatches' /\ Earned
  BY GuardKeepsTrail DEF TrailInv
<1>5. GuardSpec => []TrailMatches
  BY <1>1, <1>2, <1>3, <1>4, PTL DEF GuardSpec
<1>6. GuardSpec => [][Earned]_guardVars
  BY <1>2, <1>3, <1>4, <1>5, PTL DEF GuardSpec
<1> QED
  BY <1>6 DEF TransitionsEarned, Earned

(* And where it does not: once a probe has succeeded without closing the   *)
(* breaker and no other is in flight, every call is rejected from then on  *)
(* (breaker.go:154; no service calls Reset).                               *)
Stuck == state = "halfOpen" /\ counts.requests > 0 /\ calling = {}

THEOREM StuckForGood == GuardSpec => [][Stuck => Stuck']_guardVars
<1>1. ASSUME Stuck, [GuardNext]_guardVars PROVE Stuck'
  <2> USE <1>1 DEF Stuck
  <2>1. MaybeTransitionToHalfOpen => UNCHANGED <<state, counts>> /\ ~Admissible'
    BY DEF MaybeTransitionToHalfOpen, Admissible
  <2>2. ASSUME NEW c \in Callers, GuardStep(c) PROVE Stuck'
    <3>1. CASE SlotStep(c) \/ GuardLeave(c)
      BY <3>1 DEF SlotStep, GuardLeave, breakerVars
    <3>2. CASE GuardAdmit(c) \/ GuardReject(c)
      BY <2>1, <3>2 DEF GuardAdmit, GuardReject, Admit, Reject
    <3>3. CASE QueryFails(c) \/ QuerySucceeds(c)
      BY <3>3 DEF QueryFails, QuerySucceeds, RecordFailure, RecordSuccess
    <3> QED
      BY <2>2, <3>1, <3>2, <3>3 DEF GuardStep
  <2>3. CASE GuardTick
    BY <2>3 DEF GuardTick, Tick
  <2>4. CASE UNCHANGED guardVars
    BY <2>4 DEF guardVars, breakerVars
  <2> QED
    BY <1>1, <2>2, <2>3, <2>4 DEF GuardNext
<1> QED
  BY <1>1, PTL DEF GuardSpec
=============================================================================
