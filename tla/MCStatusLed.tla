----------------------------- MODULE MCStatusLed -----------------------------
(* TLC instances of StatusLed. *)
EXTENDS StatusLed
=============================================================================
