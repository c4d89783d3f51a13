------------------------------ MODULE MCUartNmea ------------------------------
(* TLC instances of UartNmea. *)
EXTENDS UartNmea
=============================================================================
