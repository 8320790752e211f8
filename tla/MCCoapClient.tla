---------------------------- MODULE MCCoapClient ----------------------------
(* Instances of CoapClient for TLC.                                        *)
EXTENDS CoapClient

\* The resources: one in three blocks, one in two, one in a single block,
\* and one whose path the client cannot remember.
Served == [core |-> 3, ver |-> 2, board |-> 1, long |-> 2]
TooLong == {"long"}
Asked == {"ver", "long"}
AskedInTurn == <<"core", "board">>

=============================================================================
