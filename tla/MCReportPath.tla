---------------------------- MODULE MCReportPath ----------------------------
(* Instances of ReportPath for TLC.                                        *)
EXTENDS ReportPath

\* Zero, a value whose tens digit hides a flip, and the largest one.
SomeValues == {0, 2111, 32767}
FewValues == {2111, 2150}

=============================================================================
