----------------------------- MODULE MCNmeaBridge -----------------------------
(* TLC instances of NmeaBridge. *)
EXTENDS NmeaBridgeRefinement
=============================================================================
