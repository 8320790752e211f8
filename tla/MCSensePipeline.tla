-------------------------- MODULE MCSensePipeline --------------------------
(* Instances of SensePipeline for TLC.                                     *)
EXTENDS SensePipeline

\* The averages of two of them are 0, 1 and 2.
TwoReadings == {0, 2}

=============================================================================
