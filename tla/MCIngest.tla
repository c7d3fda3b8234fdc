------------------------------ MODULE MCIngest ------------------------------
(* Ingest for TLC; the constants get their values in MCIngest.cfg. No       *)
(* property tells handlers or ids apart.                                    *)
EXTENDS Ingest, TLC

Symmetric == {h @@ e : h \in Permutations(Handler), e \in Permutations(Event)}
=============================================================================
