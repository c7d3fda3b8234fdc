----------------------------- MODULE MCEnricher -----------------------------
(* Enricher for TLC; the constants get their values in MCEnricher.cfg.      *)
EXTENDS Enricher
=============================================================================
