------------------------------- MODULE MCAdxl -------------------------------
(* A small instance of Adxl345 for TLC: an identity and two bytes of axes. *)
EXTENDS Adxl345

MCRegisters == 0..2
============================================================================
