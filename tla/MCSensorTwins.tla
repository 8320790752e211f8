---------------------------- MODULE MCSensorTwins ----------------------------
(* Instances of SensorTwins for TLC.                                       *)
EXTENDS SensorTwins

\* Readings whose averages over three fall on thirds of either sign, and the
\* one with the longest text.
MixedReadings == {-2, 0, 10, 32767}

=============================================================================
