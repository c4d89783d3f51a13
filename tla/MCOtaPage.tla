----------------------------- MODULE MCOtaPage -------------------------------
(* TLC instances of OtaPage, the OTA state machine with the page on top. *)
EXTENDS OtaPage
=============================================================================
