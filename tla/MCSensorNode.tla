---------------------------- MODULE MCSensorNode ----------------------------
(* Instances of SensorNode for TLC.                                        *)
EXTENDS SensorNode

\* Readings around zero, in hundredths of a degree: some of the averages are
\* negative.
FrostReadings == {-7, 3}

=============================================================================
