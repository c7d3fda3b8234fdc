------------------------------ MODULE EventIds ------------------------------
(* The event ids that SDK, gateway and filter share. *)
CONSTANT Event
=============================================================================
