------------------------------ MODULE MCSensor ------------------------------
(* Small instance of Sensor for TLC: the timer wraps inside an interval,   *)
(* and the ring wraps within the samples that are read.                    *)
EXTENDS Sensor
============================================================================
