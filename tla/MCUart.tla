------------------------------- MODULE MCUart -------------------------------
(* Small instance of Uart for TLC: the FIFO overflows, and the timer wraps *)
(* in the middle of a wait, since every initial timer value is tried.      *)
EXTENDS Uart
============================================================================
