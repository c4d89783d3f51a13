--------------------------- MODULE MCTcpNmeaServer ---------------------------
(* TLC instances of TcpNmeaServer. *)
EXTENDS TcpNmeaServer
=============================================================================
