--------------------------- MODULE MCSensorShell ---------------------------
(* Instances of SensorShell for TLC.                                       *)
EXTENDS SensorShell

\* lsm303dlhc: accelerometer and magnetometer; l3g4200d: one reading.
Readings == [lsm |-> 2, l3g |-> 1]

=============================================================================
