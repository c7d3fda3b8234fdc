----------------------------- MODULE MCChWriter -----------------------------
(* ChWriter for TLC; the constants get their values in MCChWriter.cfg,      *)
(* MCAtLeastOnce.cfg and MCGracefulStop.cfg.                                *)
EXTENDS ChWriter
=============================================================================
