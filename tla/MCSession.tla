------------------------------ MODULE MCSession ------------------------------
(* SessionService for TLC; the constants get their values in MCSession.cfg  *)
(* and MCSessionEnd.cfg.                                                    *)
EXTENDS SessionService
=============================================================================
