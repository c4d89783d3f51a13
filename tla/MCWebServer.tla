----------------------------- MODULE MCWebServer -----------------------------
(* TLC instances of WebServer. *)
EXTENDS WebServer
=============================================================================
