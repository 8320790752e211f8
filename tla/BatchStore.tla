----------------------------- MODULE BatchStore -----------------------------
(***************************************************************************)
(* What uploading batches promises, with no network and no retries: the    *)
(* log grows by whole executions of the server's handler, each of which    *)
(* adds the first values of one batch, all of them if it succeeds; and the *)
(* node is told "success" only of a batch that was added whole.            *)
(***************************************************************************)
EXTENDS Integers, Sequences

CONSTANTS MaxBatches, Points

VARIABLES
    log,      \* the points <<batch, n>> added
    status    \* status[b]: what the node knows of batch b

Batches == 1..MaxBatches

FirstPoints(b, n) == [i \in 1..n |-> <<b, i>>]

AddedWhole(b) ==
    \E i \in 0..(Len(log) - Points) : \A n \in 1..Points : log[i + n] = <<b, n>>

Init == log = << >> /\ status = [b \in Batches |-> "none"]

Post(b) ==
    /\ status[b] = "none"
    /\ \A earlier \in 1..(b - 1) : status[earlier] # "none"
    /\ \E s \in {"waiting", "unsent"} : status' = [status EXCEPT ![b] = s]
    /\ log' = log

Execute(b) ==
    /\ status[b] \notin {"none", "unsent"}
    /\ \E n \in 1..Points : log' = log \o FirstPoints(b, n)
    /\ status' = status

Succeed(b) ==
    /\ status[b] = "waiting"
    /\ AddedWhole(b)
    /\ status' = [status EXCEPT ![b] = "success"]
    /\ log' = log

GiveUp(b) ==
    /\ status[b] = "waiting"
    /\ \E s \in {"error", "timeout"} : status' = [status EXCEPT ![b] = s]
    /\ log' = log

Next == \E b \in Batches : Post(b) \/ Execute(b) \/ Succeed(b) \/ GiveUp(b)

Spec == Init /\ [][Next]_<<log, status>>

=============================================================================
