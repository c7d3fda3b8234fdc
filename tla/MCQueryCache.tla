---------------------------- MODULE MCQueryCache ----------------------------
(* QueryCache for TLC; the constants get their values in MCQueryCache.cfg.  *)
(* No property tells callers or refreshes apart.                            *)
EXTENDS QueryCache, TLC

Symmetric == {c @@ g : c \in Permutations(Caller), g \in Permutations(Refresher)}
=============================================================================
