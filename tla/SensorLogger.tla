---------------------------- MODULE SensorLogger ----------------------------
(***************************************************************************)
(* The stand-alone program src/sensor/sensor-m3-temperature/main.c: the    *)
(* loop of the connected node, in a copy of its own, which prints its      *)
(* batches.  Nothing runs beside main(), so a turn of the loop is one      *)
(* action up to the test of counter, and one from there; SensorNode        *)
(* follows the same arithmetic in smaller steps.  The constants are those  *)
(* of SensorNode, with the assumptions that it makes of them.              *)
(***************************************************************************)
EXTENDS RoundedAverages, Sequences

CONSTANTS
    Readings,     \* what lpsxxx_read_temp() can deliver
    Batch         \* records in one line: 10, main.c:180

VARIABLES
    pc,         \* where main() stands
    tempList,   \* data.tempList[0 .. array_length-1]
    buffer,     \* the numbers written to data.buffer
    used,       \* strlen(data.buffer)
    counter,    \* records in the buffer
    printed     \* the batch that was printed last

vars == <<pc, tempList, buffer, used, counter, printed>>

Codec == INSTANCE TemperatureCodec

Init ==
    /\ pc = "boot"
    /\ tempList = << >>
    /\ buffer = << >>
    /\ used = 0
    /\ counter = 0
    /\ printed = << >>

\* temp_sensor_reset(): main() returns if any of its I2C calls fails.
TempSensorReset ==
    /\ pc = "boot"
    /\ pc' \in {"read", "failed"}
    /\ UNCHANGED <<tempList, buffer, used, counter, printed>>

ReadFails ==
    /\ pc = "read"
    /\ pc' = "check"
    /\ UNCHANGED <<tempList, buffer, used, counter, printed>>

\* Until the window is one short of full the reading is only kept.
FillWindow(temp) ==
    /\ pc = "read"
    /\ Len(tempList) < Window - 1
    /\ tempList' = Append(tempList, temp)
    /\ pc' = "check"
    /\ UNCHANGED <<buffer, used, counter, printed>>

\* The window is full: the average and its parity bit are printed into the
\* buffer, the window slides, the record is counted.
Record(temp) ==
    LET avg == RoundedAvg(Append(tempList, temp))
    IN  /\ pc = "read"
        /\ Len(tempList) >= Window - 1
        /\ avg >= 0
        /\ buffer' = buffer \o <<avg, Codec!calculate_odd_parity(avg)>>
        /\ used' = used + DecimalLen(avg) + 3
        /\ tempList' = Tail(Append(tempList, temp))
        /\ counter' = counter + 1
        /\ pc' = "check"
        /\ UNCHANGED printed

\* calculate_odd_parity() does not return for a negative average.
Hang(temp) ==
    LET avg == RoundedAvg(Append(tempList, temp))
    IN  /\ pc = "read"
        /\ Len(tempList) >= Window - 1
        /\ avg < 0
        /\ buffer' = Append(buffer, avg)
        /\ used' = used + DecimalLen(avg) + 1
        /\ tempList' = Append(tempList, temp)
        /\ pc' = "hung"
        /\ UNCHANGED <<counter, printed>>

\* Mutant: the buffer is printed and not cleared.
FlushKeepsBuffer ==
    /\ pc = "check"
    /\ counter = Batch
    /\ printed' = buffer
    /\ counter' = 0
    /\ pc' = "read"
    /\ UNCHANGED <<tempList, buffer, used>>

\* if (counter == 10): the line is printed, the buffer cleared.
Flush ==
    /\ pc = "check"
    /\ counter = Batch
    /\ printed' = buffer
    /\ buffer' = << >>
    /\ used' = 0
    /\ counter' = 0
    /\ pc' = "read"
    /\ UNCHANGED tempList

\* The sleep at the end of a turn without a line.
NextTurn ==
    /\ pc = "check"
    /\ counter # Batch
    /\ pc' = "read"
    /\ UNCHANGED <<tempList, buffer, used, counter, printed>>

Next ==
    \/ TempSensorReset
    \/ ReadFails
    \/ \E temp \in Readings : FillWindow(temp) \/ Record(temp) \/ Hang(temp)
    \/ Flush
    \/ NextTurn

Spec == Init /\ [][Next]_vars

=============================================================================
