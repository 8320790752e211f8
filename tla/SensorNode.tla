----------------------------- MODULE SensorNode -----------------------------
(***************************************************************************)
(* The main thread of the sensor firmware: src/sensor/sensor-connected.    *)
(* main() resets the LPS331AP sensor and then samples it once a second     *)
(* forever.  A window of the latest readings is averaged, the rounded      *)
(* average and its odd-parity bit are appended to a text buffer, and every *)
(* Batch-th record the buffer is handed to gcoap_post() and cleared.       *)
(*                                                                         *)
(* The text "v1,p1,v2,p2," is kept as the sequence of its numbers, which   *)
(* is what the server's split(',') recovers; its length in characters is   *)
(* kept beside it in `used`, because the array that holds it is fixed.     *)
(***************************************************************************)
EXTENDS RoundedAverages, Sequences

CONSTANTS
    Readings,     \* what lpsxxx_read_temp() can deliver, in hundredths of a degree
    Batch,        \* records in one message: 10, main.c:200
    BufferSize    \* bytes of data.buffer: 128, main.c:32

ASSUME ReadingsAssumption == Readings \subseteq Int16
ASSUME BatchAssumption == Batch \in Nat \ {0}
\* A record takes at most nine characters: "-32768," and "1,".
ASSUME BufferAssumption == BufferSize \in Nat /\ 9 * Batch < BufferSize

VARIABLES
    pc,           \* where main() stands
    tempList,     \* data.tempList[0 .. array_length-1]
    buffer,       \* the numbers written to data.buffer
    used,         \* strlen(data.buffer)
    counter,      \* main()'s counter of finished records
    num,          \* calculate_odd_parity()'s argument, shifted as it loops
    ones,         \* calculate_odd_parity()'s count modulo 2: all it is used for
    posted,       \* the message most recently passed to gcoap_post()
    history       \* history variable: the readings `buffer` and `tempList` came from

vars == <<pc, tempList, buffer, used, counter, num, ones, posted, history>>

-----------------------------------------------------------------------------
Init ==
    /\ pc = "boot"
    /\ tempList = << >>
    /\ buffer = << >>
    /\ used = 0
    /\ counter = 0
    /\ num = 0
    /\ ones = 0
    /\ posted = << >>
    /\ history = << >>

\* temp_sensor_reset(): main() returns if any of its I2C calls fails.
TempSensorReset ==
    /\ pc = "boot"
    /\ pc' \in {"read", "failed"}
    /\ UNCHANGED <<tempList, buffer, used, counter, num, ones, posted, history>>

\* Mutant: a failed read starts the window afresh.
ReadFailsResetsWindow ==
    /\ pc = "read"
    /\ pc' = "check"
    /\ tempList' = << >>
    /\ history' = << >>
    /\ UNCHANGED <<buffer, used, counter, num, ones, posted>>

\* A failed read skips the sample but not the test of counter.
ReadFails ==
    /\ pc = "read"
    /\ pc' = "check"
    /\ UNCHANGED <<tempList, buffer, used, counter, num, ones, posted, history>>

\* Until the window is one short of full the reading is only kept.
FillWindow(temp) ==
    /\ pc = "read"
    /\ Len(tempList) < Window - 1
    /\ tempList' = Append(tempList, temp)
    /\ history' = Append(history, temp)
    /\ pc' = "check"
    /\ UNCHANGED <<buffer, used, counter, num, ones, posted>>

\* The reading completes the window: average, print, enter the parity loop.
Smooth(temp) ==
    /\ pc = "read"
    /\ Len(tempList) >= Window - 1
    /\ tempList' = Append(tempList, temp)
    /\ history' = Append(history, temp)
    /\ num' = RoundedAvg(tempList')
    /\ ones' = 0
    /\ buffer' = Append(buffer, num')
    /\ used' = used + DecimalLen(num') + 1
    /\ pc' = "parity"
    /\ UNCHANGED <<counter, posted>>

\* Mutant: count = num & 1 where the code has count += num & 1.
ParityStepForgets ==
    /\ pc = "parity"
    /\ num # 0
    /\ ones' = num % 2
    /\ num' = num \div 2
    /\ UNCHANGED <<pc, tempList, buffer, used, counter, posted, history>>

\* One turn of while (num): >>= on a negative int shifts in the sign bit.
ParityStep ==
    /\ pc = "parity"
    /\ num # 0
    /\ ones' = (ones + (num % 2)) % 2
    /\ num' = num \div 2
    /\ UNCHANGED <<pc, tempList, buffer, used, counter, posted, history>>

\* Mutant: the shift of the window is left out.
FinishRecordNoShift ==
    /\ pc = "parity"
    /\ num = 0
    /\ buffer' = Append(buffer, 1 - ones)
    /\ used' = used + 2
    /\ counter' = counter + 1
    /\ pc' = "check"
    /\ UNCHANGED <<tempList, num, ones, posted, history>>

\* Mutant: array_length-- without the shift, which drops the newest reading.
FinishRecordDropsNewest ==
    /\ pc = "parity"
    /\ num = 0
    /\ buffer' = Append(buffer, 1 - ones)
    /\ used' = used + 2
    /\ tempList' = SubSeq(tempList, 1, Len(tempList) - 1)
    /\ counter' = counter + 1
    /\ pc' = "check"
    /\ UNCHANGED <<num, ones, posted, history>>

\* The loop is over: print the parity bit, slide the window, count the record.
FinishRecord ==
    /\ pc = "parity"
    /\ num = 0
    /\ buffer' = Append(buffer, 1 - ones)
    /\ used' = used + 2
    /\ tempList' = Tail(tempList)
    /\ counter' = counter + 1
    /\ pc' = "check"
    /\ UNCHANGED <<num, ones, posted, history>>

\* if (counter == 10), and the one-second sleep that ends the turn.
CheckBatch ==
    /\ pc = "check"
    /\ pc' = IF counter = Batch THEN "post" ELSE "read"
    /\ UNCHANGED <<tempList, buffer, used, counter, num, ones, posted, history>>

\* Mutant: no memset() after the post.
PostNoClear ==
    /\ pc = "post"
    /\ posted' = buffer
    /\ counter' = 0
    /\ history' = tempList
    /\ pc' = "read"
    /\ UNCHANGED <<tempList, buffer, used, num, ones>>

\* gcoap_post() copies the message, its result is ignored, the buffer cleared.
Post ==
    /\ pc = "post"
    /\ posted' = buffer
    /\ buffer' = << >>
    /\ used' = 0
    /\ counter' = 0
    /\ history' = tempList
    /\ pc' = "read"
    /\ UNCHANGED <<tempList, num, ones>>

TakeReading == \E temp \in Readings : FillWindow(temp) \/ Smooth(temp)

Next ==
    \/ TempSensorReset
    \/ ReadFails
    \/ TakeReading
    \/ ParityStep
    \/ FinishRecord
    \/ CheckBatch
    \/ Post

Spec == Init /\ [][Next]_vars

(***************************************************************************)
(* main() is the only thread that computes here, so it keeps running; and  *)
(* a sensor that is read again and again answers again and again.          *)
(***************************************************************************)
Fairness ==
    /\ WF_vars(TempSensorReset)
    /\ WF_vars(ReadFails \/ TakeReading)
    /\ WF_vars(ParityStep)
    /\ WF_vars(FinishRecord)
    /\ WF_vars(CheckBatch)
    /\ WF_vars(Post)
    /\ SF_vars(TakeReading)

FairSpec == Spec /\ Fairness

-----------------------------------------------------------------------------
(* Properties.                                                             *)

\* The window of readings that ends record k.
WindowAt(readings, k) == [i \in 1..Window |-> readings[k + i - 1]]

\* Number of averages written so far: the one in work is not counted yet.
Averages == IF pc = "parity" THEN counter + 1 ELSE counter

\* Set bits of a 16-bit number.
BitCount(n) ==
    SumFunction([b \in 0..15 |-> (n \div 2^b) % 2])

\* Every variable holds a value of the C type that represents it, and the
\* window array (main.c:33) is never indexed past its end.
TypeOK ==
    /\ pc \in {"boot", "failed", "read", "parity", "check", "post"}
    /\ tempList \in Seq(Int16) /\ Len(tempList) <= Window
    /\ buffer \in Seq(Int16)
    /\ used \in Nat
    /\ counter \in 0..Batch
    /\ num \in Int16
    /\ ones \in {0, 1}
    /\ posted \in Seq(Int16)
    /\ history \in Seq(Int16)

\* strcat() never runs past data.buffer: there is room for the closing NUL
\* whatever the readings and however many reads fail (main.c:186, 191, 204).
BufferFits == used < BufferSize

\* The k-th value in the message is the rounded mean of the k-th run of
\* Window consecutive readings: none is skipped, repeated or carried over
\* wrongly when the window slides or when a message is posted (main.c:159-197).
EveryValueIsWindowAverage ==
    \A k \in 1..Averages : buffer[2 * k - 1] = RoundedAvg(WindowAt(history, k))

\* Each value is a nearest integer to the exact mean of its window: between
\* the double and the int16_t no rounding error, sign error or truncation
\* creeps in (main.c:164-179).
AveragesAreNearest ==
    \A k \in 1..Averages :
        LET error == Window * buffer[2 * k - 1] - SumFunction(WindowAt(history, k))
        IN  2 * error \in -Window..Window

\* Value and parity bit together always have an odd number of ones, as
\* docs/SENSOR.md:94 defines odd parity (main.c:118-132).
ParityIsOdd ==
    \A k \in 1..counter :
        (BitCount(buffer[2 * k - 1]) + buffer[2 * k]) % 2 = 1

\* The values, without the parity bits, of a message.
ValuesOf(message) == [k \in 1..(Len(message) \div 2) |-> message[2 * k - 1]]

Abstract == INSTANCE SmoothedReports
    WITH accepted <- history, reported <- ValuesOf(posted), Average <- RoundedAvg

\* The loop of main() implements its promise: every window of readings is
\* reported exactly once, in order, in complete messages, and the windows of
\* the next message go on where this one's ended (main.c:154-208).
ImplementsReports == Abstract!Spec

\* A node that finished its reset posts again and again, however the failed
\* reads fall, until an average is negative, which alone stops it
\* (docs/SENSOR.md:106, main.c:123-128).
PostsForever == (pc = "read") ~> (pc = "post" \/ num < 0)

\* Every record that is begun is finished: calculate_odd_parity() returns.
ParityLoopEnds == (pc = "parity") ~> (pc = "check")

=============================================================================
