--------------------------- MODULE MCStatsServer ---------------------------
(* Instances of StatsServer for TLC.                                       *)
EXTENDS StatsServer

\* PUTs of "0", of "65535", of "99999", and one that is too long.
Put(len, n) == [length |-> len, number |-> n]
AllKinds == {Put(1, 0), Put(5, 65535), Put(5, 99999), Put(6, 100000)}

=============================================================================
