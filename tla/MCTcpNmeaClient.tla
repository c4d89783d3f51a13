--------------------------- MODULE MCTcpNmeaClient ---------------------------
(* TLC instances of TcpNmeaClient. *)
EXTENDS TcpNmeaClient
=============================================================================
