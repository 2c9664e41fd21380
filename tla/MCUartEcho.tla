------------------------------- MODULE MCUartEcho -------------------------------
(***************************************************************************)
(* Model values for UartEcho: words of two bits, and a sender of which the *)
(* slowest bit still is in time.                                           *)
(***************************************************************************)
EXTENDS UartEcho

AllWords == [1 .. 2 -> Bit]

ASSUME SenderInTime == InTime
================================================================================
