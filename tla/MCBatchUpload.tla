---------------------------- MODULE MCBatchUpload ----------------------------
(* Instances of BatchUpload for TLC: the .cfg files choose the bounds.     *)
EXTENDS BatchUpload
=============================================================================
