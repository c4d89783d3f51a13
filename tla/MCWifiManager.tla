---------------------------- MODULE MCWifiManager ----------------------------
(* TLC instances of WifiManager. *)
EXTENDS WifiManager
=============================================================================
