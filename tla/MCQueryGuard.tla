---------------------------- MODULE MCQueryGuard ----------------------------
(* QueryGuard for TLC; the constants get their values in MCQueryGuard.cfg   *)
(* and MCHalfOpen.cfg.                                                      *)
EXTENDS QueryGuard
=============================================================================
