-------------------------- MODULE SmoothedReports --------------------------
(***************************************************************************)
(* What the sensor node promises, whatever loops and buffers it uses: of   *)
(* the readings it accepts it reports, in messages of Batch values, the    *)
(* average of every window of Window consecutive ones, each exactly once   *)
(* and in order.  A message takes Batch + Window - 1 readings, and the     *)
(* last Window - 1 of them begin the windows of the next message.          *)
(***************************************************************************)
EXTENDS Integers, Sequences

CONSTANTS Readings, Window, Batch, Average(_)

VARIABLES
    accepted,   \* readings of the message in preparation
    reported    \* values of the last message

Needed == Batch + Window - 1

Windows(readings) ==
    [k \in 1..Batch |-> [i \in 1..Window |-> readings[k + i - 1]]]

Init == accepted = << >> /\ reported = << >>

Accept ==
    /\ Len(accepted) < Needed
    /\ \E temp \in Readings : accepted' = Append(accepted, temp)
    /\ reported' = reported

Report ==
    /\ Len(accepted) = Needed
    /\ reported' = [k \in 1..Batch |-> Average(Windows(accepted)[k])]
    /\ accepted' = [i \in 1..(Window - 1) |-> accepted[Batch + i]]

Next == Accept \/ Report

Spec == Init /\ [][Next]_<<accepted, reported>>

=============================================================================
