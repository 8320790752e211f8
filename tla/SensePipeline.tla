--------------------------- MODULE SensePipeline ---------------------------
(***************************************************************************)
(* From the sensor into the database: SensorNode's loop, whose posts are   *)
(* BatchUpload's, and decodeTemperature() on the server.  The two programs *)
(* meet in gcoap_post(): it copies data.buffer into the request, so that   *)
(* main() may clear it while gcoap still retransmits.                      *)
(***************************************************************************)
EXTENDS SensorNode

CONSTANTS
    MaxBatches, MaxWaiting, MaxRetransmit, MaxRestarts,  \* as in BatchUpload
    MaxReadings  \* bound on the readings

ASSUME UploadAssumption ==
    /\ MaxBatches \in Nat \ {0} /\ MaxWaiting \in Nat \ {0}
    /\ MaxRetransmit \in Nat /\ MaxRestarts \in Nat
ASSUME MaxReadingsAssumption == MaxReadings \in Nat

VARIABLES
    posts, outcome, retries, reqCount, network, serving, next, answered,
    database, restarts,  \* as in BatchUpload
    payload,             \* payload[b]: what gcoap holds and sends of batch b
    readings             \* history: every reading the node took

Upload == INSTANCE BatchUpload WITH Points <- Batch
Codec == INSTANCE TemperatureCodec

uploadVars == <<posts, outcome, retries, reqCount, network, serving, next, answered,
                database, restarts>>
allVars == <<vars, uploadVars, payload, readings>>

PipelineInit ==
    /\ Init
    /\ Upload!Init
    /\ payload = [b \in 1..MaxBatches |-> << >>]
    /\ readings = << >>

\* main() takes a reading.
NodeReads ==
    /\ Len(readings) < MaxReadings
    /\ \E temp \in Readings :
          /\ FillWindow(temp) \/ Smooth(temp)
          /\ readings' = Append(readings, temp)
    /\ UNCHANGED <<uploadVars, payload>>

\* main() goes on without the network and without a reading.
NodeComputes ==
    /\ TempSensorReset \/ ReadFails \/ ParityStep \/ FinishRecord \/ CheckBatch
    /\ UNCHANGED <<uploadVars, payload, readings>>

\* Mutant: the request refers to the buffer as it is after the post.
NodePostsReference ==
    /\ Post
    /\ Upload!PostSent \/ Upload!PostUnsent
    /\ payload' = [payload EXCEPT ![posts'] = buffer']
    /\ UNCHANGED readings

\* main() calls gcoap_post(), which sends a copy or fails, and clears the buffer.
NodePosts ==
    /\ Post
    /\ Upload!PostSent \/ Upload!PostUnsent
    /\ payload' = [payload EXCEPT ![posts'] = buffer]
    /\ UNCHANGED readings

\* gcoap's thread, the network and the server, while main() sleeps or computes.
UploadGoesOn ==
    /\ \/ \E b \in 1..MaxBatches : Upload!Gcoap(b) \/ Upload!Aiocoap(b)
       \/ Upload!Handler
       \/ Upload!Restart
    /\ UNCHANGED <<vars, payload, readings>>

PipelineNext ==
    \/ NodeReads
    \/ NodeComputes
    \/ NodePosts
    \/ UploadGoesOn

PipelineSpec == PipelineInit /\ [][PipelineNext]_allVars

-----------------------------------------------------------------------------
(* Properties.                                                             *)

\* What point <<b, n>> of the database shows, in hundredths of a stored unit.
Value(b, n) == Codec!decodeTemperature(payload[b])[n]

\* The measurement that belongs there: the n-th window of the b-th batch.
Measured(b, n) == RoundedAvg(WindowAt(readings, (b - 1) * Batch + n))

\* Every point in the database is the average of its own window of all the
\* readings that the node ever took: no sequence of failed reads, lost, repeated
\* or late requests, dropped batches and restarts shifts it, mixes it or takes it
\* from another batch (main.c:154-208, client.c:264-335, decoder.py:3-15,
\* database.py:27-33).
StoredIsMeasured ==
    \A i \in DOMAIN database :
        LET b == database[i][1]
            n == database[i][2]
        IN  /\ n <= Len(Codec!decodeTemperature(payload[b]))
            /\ Value(b, n) = Measured(b, n)

\* The windows of two batches follow each other without a gap: of the readings up
\* to the last post every window is in the payload of one batch (main.c:193-204).
NoWindowIsMissing ==
    \A b \in 1..posts :
        /\ Len(readings) >= b * Batch + Window - 1
        /\ Codec!decodeTemperature(payload[b]) = [n \in 1..Batch |-> Measured(b, n)]

\* "response Success" on the node means that every average of the batch is in
\* the database, as it was measured: what the node reports, what was under way
\* and what the server wrote agree on one payload (client.c:118, main.c:154-208,
\* decoder.py:3-15, database.py:27-33).
SuccessMeansMeasured ==
    \A b \in 1..posts :
        outcome[b] = "success" =>
            \A n \in 1..Batch :
                /\ \E i \in DOMAIN database : database[i] = <<b, n>>
                /\ Value(b, n) = Measured(b, n)

=============================================================================
