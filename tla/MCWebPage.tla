------------------------------ MODULE MCWebPage ------------------------------
(* TLC instances of WebPage. *)
EXTENDS WebPage
=============================================================================
