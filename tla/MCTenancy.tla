----------------------------- MODULE MCTenancy -----------------------------
(* Tenancy for TLC; the constants get their values in MCTenancy.cfg and     *)
(* MCLateClock.cfg. No property tells requests or replicas apart.           *)
EXTENDS Tenancy, TLC

Symmetric == {c @@ r : c \in Permutations(Caller), r \in Permutations(Replica)}
=============================================================================
