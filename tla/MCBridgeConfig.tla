---------------------------- MODULE MCBridgeConfig ----------------------------
(* TLC instances of BridgeConfig. *)
EXTENDS BridgeConfig
=============================================================================
