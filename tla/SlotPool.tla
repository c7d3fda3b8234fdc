------------------------------ MODULE SlotPool ------------------------------
(***************************************************************************)
(* What a bulkhead promises its callers, without saying how: an operation  *)
(* runs only while it holds a slot, a tenant never holds more than         *)
(* MaxPerTenant slots and all tenants together never more than MaxGlobal.  *)
(* Bulkhead.tla is the implementation by channels and is shown to          *)
(* implement this specification.                                           *)
(***************************************************************************)
EXTENDS Naturals, FiniteSets

CONSTANTS
  Callers,      (* goroutines that run operations                    *)
  Tenants,      (* application ids                                   *)
  NoTenant,     (* marks a caller that holds no slot                 *)
  MaxPerTenant, (* slots of one tenant                               *)
  MaxGlobal     (* slots of all tenants together                     *)

VARIABLE holding  (* the tenant whose slot each caller holds *)

Holders == {c \in Callers : holding[c] # NoTenant}

HoldersOf(t) == {c \in Callers : holding[c] = t}

PoolInit == holding = [c \in Callers |-> NoTenant]

Grant(c, t) ==
  /\ holding[c] = NoTenant
  /\ Cardinality(Holders) < MaxGlobal
  /\ Cardinality(HoldersOf(t)) < MaxPerTenant
  /\ holding' = [holding EXCEPT ![c] = t]

Return(c) ==
  /\ holding[c] # NoTenant
  /\ holding' = [holding EXCEPT ![c] = NoTenant]

PoolNext == \E c \in Callers : Return(c) \/ \E t \in Tenants : Grant(c, t)

PoolSpec == PoolInit /\ [][PoolNext]_holding
=============================================================================
