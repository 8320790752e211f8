-------------------------- MODULE MCNanocoapServer --------------------------
(* Instances of NanocoapServer for TLC.                                    *)
EXTENDS NanocoapServer, TLC

\* Clients are alike.
Symmetric == Permutations(Clients)

\* Uploads in one block and in three; the version in three blocks, the last
\* one not full.
Upload(n) == [op |-> "upload", size |-> n]
UploadPlans == {Upload(1), Upload(3)}

\* Numbers that a byte holds, and that it does not; the last one is too long.
Number(v, len) == [op |-> "put", number |-> v, length |-> len]
ValuePlans ==
    {Number(42, 2), Number(300, 3), Number(-1, 2), Number(7, 16),
     [op |-> "version", size |-> 5]}
AllPlans == UploadPlans \union ValuePlans

=============================================================================
