----------------------------- MODULE BatchUpload -----------------------------
(***************************************************************************)
(* A temperature batch on its way from gcoap_post() on the node to the     *)
(* InfluxDB measurement behind the CoAP server.                            *)
(*                                                                         *)
(*   - client.c: gcoap_post(), _send() and _resp_handler(), on top of      *)
(*     RIOT's gcoap, which keeps a memo and a copy of every confirmable    *)
(*     request, sends the copy again when no answer comes, and gives up    *)
(*     after MaxRetransmit times.  gcoap is external: its pools and its    *)
(*     timers are modelled from what client.c and the Makefile ask of it.  *)
(*   - the network loses, delays, repeats and reorders what it carries.    *)
(*   - coap_server.py: render_post(), and database.py: sendInfluxdb(),     *)
(*     under aiocoap, which recognises a repeated request by its message   *)
(*     ID and repeats its answer.  Nothing in render_post() awaits, so the *)
(*     event loop takes no datagram until it returns.                      *)
(*                                                                         *)
(* A batch is named by its place among the node's posts, which also stands *)
(* for its message ID; its n-th value is the point <<batch, n>>.           *)
(***************************************************************************)
EXTENDS Integers, Sequences, FiniteSets

CONSTANTS
    MaxBatches,     \* bound on the batches posted
    Points,         \* values that decodeTemperature() returns for a batch
    MaxWaiting,     \* CONFIG_GCOAP_REQ_WAITING_MAX and GCOAP_RESEND_BUFS_MAX
    MaxRetransmit,  \* CONFIG_COAP_MAX_RETRANSMIT
    MaxRestarts     \* bound on the restarts of the server

ASSUME BatchesAssumption == MaxBatches \in Nat \ {0}
ASSUME PointsAssumption == Points \in Nat \ {0}
ASSUME WaitingAssumption == MaxWaiting \in Nat \ {0}
ASSUME RetransmitAssumption == MaxRetransmit \in Nat
ASSUME RestartsAssumption == MaxRestarts \in Nat

Batches == 1..MaxBatches
NoBatch == 0
Outcomes == {"none", "unsent", "waiting", "success", "error", "timeout"}
Answers == {"none", "ok", "error"}

VARIABLES
    posts,      \* batches that main() handed to gcoap_post() so far
    outcome,    \* outcome[b]: what the node knows of batch b
    retries,    \* retries[b]: copies of b's request sent after the first
    reqCount,   \* client.c's req_count
    network,    \* requests and responses under way
    serving,    \* the batch whose render_post() is running, or NoBatch
    next,       \* the value that sendInfluxdb() writes next
    answered,   \* answered[b]: the answer aiocoap remembers for b's message ID
    database,   \* the points written, in the order of their writing
    restarts    \* restarts of the server so far

nodeVars == <<posts, outcome, retries, reqCount>>
serverVars == <<serving, next, answered, database, restarts>>
vars == <<nodeVars, network, serverVars>>

Request(b) == [kind |-> "request", batch |-> b]
Response(b, answer) == [kind |-> "response", batch |-> b, answer |-> answer]

Waiting == {b \in Batches : outcome[b] = "waiting"}

Init ==
    /\ posts = 0
    /\ outcome = [b \in Batches |-> "none"]
    /\ retries = [b \in Batches |-> 0]
    /\ reqCount = 0
    /\ network = {}
    /\ serving = NoBatch
    /\ next = 1
    /\ answered = [b \in Batches |-> "none"]
    /\ database = << >>
    /\ restarts = 0

-----------------------------------------------------------------------------
(* The node.                                                               *)

\* gcoap_post() got a memo and a resend buffer: the request is on its way.
PostSent ==
    /\ posts < MaxBatches
    /\ Cardinality(Waiting) < MaxWaiting
    /\ posts' = posts + 1
    /\ outcome' = [outcome EXCEPT ![posts'] = "waiting"]
    /\ reqCount' = (reqCount + 1) % 2^16
    /\ network' = network \union {Request(posts')}
    /\ UNCHANGED <<retries, serverVars>>

\* gcoap_req_send() returns 0: every memo waits, or the socket refuses
\* the datagram.  gcoap_post() returns 0 all the same, and main() has
\* no other copy of the batch.
PostUnsent ==
    /\ posts < MaxBatches
    /\ posts' = posts + 1
    /\ outcome' = [outcome EXCEPT ![posts'] = "unsent"]
    /\ UNCHANGED <<retries, reqCount, network, serverVars>>

\* gcoap's timer expires and there are retransmissions left.
Retransmit(b) ==
    /\ outcome[b] = "waiting"
    /\ retries[b] < MaxRetransmit
    /\ retries' = [retries EXCEPT ![b] = @ + 1]
    /\ network' = network \union {Request(b)}
    /\ UNCHANGED <<posts, outcome, reqCount, serverVars>>

\* Mutant: gives up one retransmission later than the last one.
RespTimeoutLate(b) ==
    /\ outcome[b] = "waiting"
    /\ retries[b] > MaxRetransmit
    /\ outcome' = [outcome EXCEPT ![b] = "timeout"]
    /\ UNCHANGED <<posts, retries, reqCount, network, serverVars>>

\* _resp_handler() with GCOAP_MEMO_TIMEOUT; the memo is free again.
RespTimeout(b) ==
    /\ outcome[b] = "waiting"
    /\ retries[b] = MaxRetransmit
    /\ outcome' = [outcome EXCEPT ![b] = "timeout"]
    /\ UNCHANGED <<posts, retries, reqCount, network, serverVars>>

\* _resp_handler() with a response.  One that no memo waits for is dropped.
RespHandler(b) ==
    /\ outcome[b] = "waiting"
    /\ \E answer \in {"ok", "error"} :
          /\ Response(b, answer) \in network
          /\ outcome' = [outcome EXCEPT ![b] = IF answer = "ok" THEN "success" ELSE "error"]
    /\ UNCHANGED <<posts, retries, reqCount, network, serverVars>>

-----------------------------------------------------------------------------
(* The network: what it keeps may arrive again and in any order.           *)

Lose ==
    /\ \E m \in network : network' = network \ {m}
    /\ UNCHANGED <<nodeVars, serverVars>>

-----------------------------------------------------------------------------
(* The server.                                                             *)

\* Mutant: a repeated request runs the handler again, as it would if it came
\* with a message ID of its own.
RenderPostAgain(b) ==
    /\ Request(b) \in network
    /\ serving = NoBatch
    /\ serving' = b
    /\ next' = 1
    /\ UNCHANGED <<nodeVars, network, answered, database, restarts>>

\* A request that aiocoap has not seen starts render_post().
RenderPost(b) ==
    /\ Request(b) \in network
    /\ serving = NoBatch
    /\ answered[b] = "none"
    /\ serving' = b
    /\ next' = 1
    /\ UNCHANGED <<nodeVars, network, answered, database, restarts>>

\* A repeated request only has its answer repeated.
RepeatAnswer(b) ==
    /\ Request(b) \in network
    /\ serving = NoBatch
    /\ answered[b] # "none"
    /\ network' = network \union {Response(b, answered[b])}
    /\ UNCHANGED <<nodeVars, serverVars>>

\* Mutant: the loop runs once too often.
WritePointTooMany ==
    /\ serving # NoBatch
    /\ next <= Points + 1
    /\ database' = Append(database, <<serving, next>>)
    /\ next' = next + 1
    /\ UNCHANGED <<nodeVars, network, serving, answered, restarts>>

\* Mutant: a point that cannot be saved is skipped.
WritePointSkips ==
    /\ serving # NoBatch
    /\ next <= Points
    /\ database' \in {database, Append(database, <<serving, next>>)}
    /\ next' = next + 1
    /\ UNCHANGED <<nodeVars, network, serving, answered, restarts>>

\* One turn of the loop of sendInfluxdb(): save() a value, sleep.
WritePoint ==
    /\ serving # NoBatch
    /\ next <= Points
    /\ database' = Append(database, <<serving, next>>)
    /\ next' = next + 1
    /\ UNCHANGED <<nodeVars, network, serving, answered, restarts>>

\* Mutant: render_post() catches the exception and answers as ever.
WriteFailsAnswersOk ==
    /\ serving # NoBatch
    /\ next <= Points
    /\ answered' = [answered EXCEPT ![serving] = "ok"]
    /\ network' = network \union {Response(serving, "ok")}
    /\ serving' = NoBatch
    /\ UNCHANGED <<nodeVars, next, database, restarts>>

\* client() or write_points() raises: aiocoap answers 5.00, and the points
\* written before stay.
WriteFails ==
    /\ serving # NoBatch
    /\ next <= Points
    /\ answered' = [answered EXCEPT ![serving] = "error"]
    /\ network' = network \union {Response(serving, "error")}
    /\ serving' = NoBatch
    /\ UNCHANGED <<nodeVars, next, database, restarts>>

\* Mutant: the handler answers and does not return.
FinishStays ==
    /\ serving # NoBatch
    /\ next > Points
    /\ answered' = [answered EXCEPT ![serving] = "ok"]
    /\ network' = network \union {Response(serving, "ok")}
    /\ UNCHANGED <<nodeVars, serving, next, database, restarts>>

\* render_post() returns {"status": "ok"}.
Finish ==
    /\ serving # NoBatch
    /\ next > Points
    /\ answered' = [answered EXCEPT ![serving] = "ok"]
    /\ network' = network \union {Response(serving, "ok")}
    /\ serving' = NoBatch
    /\ UNCHANGED <<nodeVars, next, database, restarts>>

\* The server's container restarts: what aiocoap remembers is gone, what
\* InfluxDB stored is not.
Restart ==
    /\ restarts < MaxRestarts
    /\ restarts' = restarts + 1
    /\ serving' = NoBatch
    /\ next' = 1
    /\ answered' = [b \in Batches |-> "none"]
    /\ UNCHANGED <<nodeVars, network, database>>

-----------------------------------------------------------------------------
Node == PostSent \/ PostUnsent
Gcoap(b) == Retransmit(b) \/ RespTimeout(b) \/ RespHandler(b)
Aiocoap(b) == RenderPost(b) \/ RepeatAnswer(b)
Handler == WritePoint \/ WriteFails \/ Finish

Next ==
    \/ Node
    \/ \E b \in Batches : Gcoap(b) \/ Aiocoap(b)
    \/ Handler
    \/ Lose
    \/ Restart

Spec == Init /\ [][Next]_vars

(***************************************************************************)
(* gcoap's thread has the highest priority on the node, and its timers     *)
(* expire; the server's handler is not blocked by anything it waits for    *)
(* itself.  Nothing is assumed of the network.                             *)
(***************************************************************************)
Fairness ==
    /\ \A b \in Batches : WF_vars(Retransmit(b)) /\ WF_vars(RespTimeout(b))
    /\ WF_vars(Handler)

FairSpec == Spec /\ Fairness

-----------------------------------------------------------------------------
(* Properties.                                                             *)

Messages ==
    [kind : {"request"}, batch : Batches]
    \union [kind : {"response"}, batch : Batches, answer : {"ok", "error"}]

\* Every variable is of its kind; a handler in progress has a next point.
TypeOK ==
    /\ posts \in 0..MaxBatches
    /\ outcome \in [Batches -> Outcomes]
    /\ retries \in [Batches -> 0..MaxRetransmit]
    /\ reqCount \in 0..(2^16 - 1)
    /\ network \subseteq Messages
    /\ serving \in Batches \union {NoBatch}
    /\ next \in 1..(Points + 1)
    /\ answered \in [Batches -> Answers]
    /\ database \in Seq(Batches \X (1..Points))
    /\ restarts \in 0..MaxRestarts

Written(b, n) == \E i \in 1..Len(database) : database[i] = <<b, n>>

Stored(b) == \A n \in 1..Points : Written(b, n)

\* "response Success" on the node (client.c:118) means that every value of the
\* batch is in the database, whatever was lost, repeated or restarted between
\* (database.py:27-33, coap_server.py:33-35).
SuccessMeansStored == \A b \in Batches : outcome[b] = "success" => Stored(b)

\* A value is written again only by a server that restarted and was sent the
\* same request again: retransmission alone never duplicates data
\* (README.md:109-110).
DuplicatesOnlyAfterRestart ==
    \A b \in Batches, n \in 1..Points :
        Cardinality({i \in 1..Len(database) : database[i] = <<b, n>>}) <= 1 + restarts

\* The node learns an outcome for every request it sent, and keeps it, though
\* the network may answer never, late or twice (client.c:92-111).
EveryPostResolves ==
    \A b \in Batches :
        (outcome[b] = "waiting") ~> [](outcome[b] \in {"success", "error", "timeout"})

\* A handler that has begun ends, whatever arrives meanwhile.
HandlerReturns == (serving # NoBatch) ~> (serving = NoBatch)

\* docs/SENSOR.md:106: "Once the buffer reaches a capacity of 10 values, we
\* initiate the transmission of this batch to the server": every batch that
\* main() posted was transmitted at least once (client.c:328-334, main.c:203-204).
EveryBatchTransmitted == \A b \in 1..posts : outcome[b] # "unsent"

\* What the database shows once the handler in progress is left out.
Settled ==
    IF serving = NoBatch THEN database
                         ELSE SubSeq(database, 1, Len(database) - (next - 1))

Promise == INSTANCE BatchStore WITH log <- Settled, status <- outcome

\* Seen from outside, every execution of render_post() is atomic: it adds the
\* first values of one batch, together and in order, or nothing, and success
\* is only reported of a batch that was added whole (coap_server.py:28-35).
ImplementsStore == Promise!Spec

=============================================================================
