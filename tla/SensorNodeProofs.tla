-------------------------- MODULE SensorNodeProofs --------------------------
(***************************************************************************)
(* Proofs about the sensor's side and what becomes of its readings, for    *)
(* every set of readings, window, batch and buffer size that the           *)
(* assumptions allow: the node's loop (SensorNode), its copy in the logger *)
(* (SensorTwins), the codec, the loop with the upload and the server       *)
(* (SensePipeline), and a message with damaged bits (ReportPath).          *)
(***************************************************************************)
EXTENDS SensorTwins, SensePipeline, ReportPath, Arithmetic, SequenceTheorems

USE WindowAssumption, BatchAssumption

-----------------------------------------------------------------------------
(* The operators of one record.                                            *)

\* The number printed for a reading's average always fits an int16_t.
LEMMA RoundedAvgType == ASSUME NEW window PROVE RoundedAvg(window) \in Int16
<1>1. \E y \in Int16 : TRUE
  BY DEF Int16
<1> QED
  BY <1>1 DEF RoundedAvg, CastInt16

\* "%i" prints at least one and at most six characters of an int16_t.
LEMMA DecimalLenBounds ==
    ASSUME NEW v \in Int16 PROVE DecimalLen(v) \in 1..6
<1> DEFINE Magnitude == IF v < 0 THEN -v ELSE v
           Longer(bound) == IF Magnitude >= bound THEN 1 ELSE 0
<1>1. \A bound : Longer(bound) \in {0, 1}
  OBVIOUS
<1>2. DecimalLen(v) = (IF v < 0 THEN 2 ELSE 1)
                      + Longer(10) + Longer(100) + Longer(1000) + Longer(10000)
  BY DEF DecimalLen
<1> HIDE DEF Longer
<1> QED
  BY <1>1, <1>2

\* The arithmetic shift keeps an int16_t one, and its low bit is a bit.
LEMMA ShiftType == ASSUME NEW n \in Int16 PROVE n \div 2 \in Int16 /\ n % 2 \in {0, 1}
  BY DEF Int16

\* After its first `skip` elements long is short.
EndsWith(long, skip, short) ==
    /\ Len(long) = skip + Len(short)
    /\ \A i \in 1..Len(short) : short[i] = long[skip + i]

\* If short is the end of long, it stays so when both grow by the same element.
LEMMA AppendToBoth ==
    ASSUME NEW S, NEW short \in Seq(S), NEW long \in Seq(S), NEW skip \in Nat, NEW e \in S,
           EndsWith(long, skip, short)
    PROVE  EndsWith(Append(long, e), skip, Append(short, e))
<1> USE DEF EndsWith
<1>1. /\ Len(Append(short, e)) = Len(short) + 1
      /\ Len(Append(long, e)) = skip + Len(Append(short, e))
  OBVIOUS
<1>2. ASSUME NEW i \in 1..(Len(short) + 1)
      PROVE  Append(short, e)[i] = Append(long, e)[skip + i]
  <2>1. CASE i \in 1..Len(short)
    <3>1. Append(short, e)[i] = short[i] /\ short[i] = long[skip + i]
      BY <2>1
    <3>2. skip + i \in 1..Len(long)
      BY <2>1
    <3> QED
      BY <3>1, <3>2
  <2>2. CASE i = Len(short) + 1
    BY <2>2
  <2>3. i \in 1..Len(short) \/ i = Len(short) + 1
    OBVIOUS
  <2> QED
    BY <2>1, <2>2, <2>3
<1> QED
  BY <1>1, <1>2

-----------------------------------------------------------------------------
(***************************************************************************)
(* The inductive invariant.  The bound on `used` is not inductive alone:   *)
(* it needs the number of records written, which `counter` gives only at   *)
(* the right places of the loop, and that counter stops at Batch, which    *)
(* needs what pc = "read" and pc = "post" say about it.                    *)
(***************************************************************************)
Progress ==
    /\ pc \in {"boot", "read", "parity"} => counter < Batch
    /\ pc = "post" => counter = Batch
    /\ Len(tempList) <= IF pc = "parity" THEN Window ELSE Window - 1
    /\ pc = "parity" => Len(tempList) = Window
    /\ counter > 0 => Len(tempList) >= Window - 1

RoomUsed ==
    /\ Len(buffer) = 2 * counter + (IF pc = "parity" THEN 1 ELSE 0)
    /\ used <= 9 * counter + (IF pc = "parity" THEN 7 ELSE 0)

LatestReadings ==
    /\ Len(history) = counter + Len(tempList)
    /\ \A i \in 1..Len(tempList) : tempList[i] = history[counter + i]

IndInv == TypeOK /\ Progress /\ RoomUsed /\ LatestReadings /\ EveryValueIsWindowAverage

\* The loop is entered with nothing read and nothing printed.
LEMMA InitIndInv == Init => IndInv
<1> SUFFICES ASSUME Init PROVE IndInv
  OBVIOUS
<1> USE DEF Init
<1>1. TypeOK
  BY DEF TypeOK, Int16
<1>2. Progress /\ RoomUsed /\ LatestReadings
  BY DEF Progress, RoomUsed, LatestReadings
<1>3. EveryValueIsWindowAverage
  BY DEF EveryValueIsWindowAverage, Averages
<1> QED
  BY <1>1, <1>2, <1>3 DEF IndInv

\* Actions that touch neither the window nor the message.
LEMMA ControlSteps ==
    ASSUME IndInv, TempSensorReset \/ ReadFails \/ CheckBatch
    PROVE  IndInv'
<1> USE DEF TempSensorReset, ReadFails, CheckBatch
<1>1. TypeOK'
  BY DEF IndInv, TypeOK
<1>2. Progress'
  BY DEF IndInv, TypeOK, Progress
<1>3. RoomUsed' /\ LatestReadings'
  BY DEF IndInv, TypeOK, RoomUsed, LatestReadings
<1>4. EveryValueIsWindowAverage'
  BY DEF IndInv, EveryValueIsWindowAverage, Averages, WindowAt
<1> QED
  BY <1>1, <1>2, <1>3, <1>4 DEF IndInv

\* A reading joins the window and the history alike.
LEMMA FillWindowStep ==
    ASSUME IndInv, NEW temp \in Readings, FillWindow(temp)
    PROVE  IndInv'
<1>1. /\ temp \in Int16
      /\ pc = "read" /\ pc' = "check" /\ buffer' = buffer /\ used' = used
      /\ counter' = counter /\ num' = num /\ ones' = ones /\ posted' = posted
      /\ Len(tempList) < Window - 1
  BY ReadingsAssumption DEF FillWindow
<1>2. tempList \in Seq(Int16) /\ history \in Seq(Int16) /\ Len(tempList) \in Nat
  BY DEF IndInv, TypeOK
<1>3. tempList' \in Seq(Int16) /\ Len(tempList') = Len(tempList) + 1 /\ history' \in Seq(Int16)
  BY <1>1, <1>2 DEF FillWindow
<1>4. counter = 0
  BY <1>1, <1>2 DEF IndInv, TypeOK, Progress
<1>5. TypeOK'
  BY <1>1, <1>2, <1>3 DEF IndInv, TypeOK
<1>6. Progress' /\ RoomUsed'
  BY <1>1, <1>2, <1>3, <1>4 DEF IndInv, Progress, RoomUsed
<1>7. LatestReadings'
  <2>1. tempList' = Append(tempList, temp) /\ history' = Append(history, temp)
    BY DEF FillWindow
  <2>2. EndsWith(history, counter, tempList)
    BY DEF IndInv, LatestReadings, EndsWith
  <2>3. counter \in Nat
    BY <1>4
  <2>4. EndsWith(Append(history, temp), counter, Append(tempList, temp))
    BY <1>1, <1>2, <2>2, <2>3, AppendToBoth, Zenon
  <2> QED
    BY <1>1, <2>1, <2>4 DEF LatestReadings, EndsWith
<1>8. EveryValueIsWindowAverage'
  BY <1>1, <1>4 DEF EveryValueIsWindowAverage, Averages
<1> QED
  BY <1>5, <1>6, <1>7, <1>8 DEF IndInv

\* The new value averages the window that the new reading completes; the
\* windows before it do not reach that reading.
LEMMA SmoothStep ==
    ASSUME IndInv, NEW temp \in Readings, Smooth(temp)
    PROVE  IndInv'
<1>1. /\ temp \in Int16
      /\ num' = RoundedAvg(tempList') /\ ones' = 0
      /\ used' = used + DecimalLen(num') + 1
      /\ pc = "read" /\ pc' = "parity" /\ counter' = counter /\ posted' = posted
      /\ Len(tempList) >= Window - 1
  BY ReadingsAssumption DEF Smooth
<1>2. num' \in Int16 /\ DecimalLen(num') \in 1..6
  BY <1>1, RoundedAvgType, DecimalLenBounds
<1>3. /\ tempList \in Seq(Int16) /\ Len(tempList) = Window - 1
      /\ buffer \in Seq(Int16) /\ Len(buffer) = 2 * counter
      /\ history \in Seq(Int16) /\ Len(history) = counter + Window - 1
      /\ used \in Nat /\ used <= 9 * counter
      /\ counter \in Nat /\ counter < Batch
      /\ posted \in Seq(Int16)
  <2>1. Len(tempList) \in Nat
    BY DEF IndInv, TypeOK
  <2>2. Len(tempList) = Window - 1
    BY <1>1, <2>1 DEF IndInv, Progress
  <2> QED
    BY <1>1, <2>1, <2>2 DEF IndInv, TypeOK, Progress, RoomUsed, LatestReadings
<1>4. /\ tempList' \in Seq(Int16) /\ Len(tempList') = Window
      /\ buffer' \in Seq(Int16) /\ Len(buffer') = 2 * counter + 1
      /\ history' \in Seq(Int16) /\ Len(history') = counter + Window
  <2>1. tempList' \in Seq(Int16) /\ Len(tempList') = Len(tempList) + 1
    BY <1>1, <1>3 DEF Smooth
  <2>2. buffer' \in Seq(Int16) /\ Len(buffer') = Len(buffer) + 1
    <3>1. PICK value \in Int16 : buffer' = Append(buffer, value)
      BY <1>2 DEF Smooth
    <3> QED
      BY <1>3, <3>1
  <2>3. history' \in Seq(Int16) /\ Len(history') = Len(history) + 1
    BY <1>1, <1>3 DEF Smooth
  <2> QED
    BY <1>3, <2>1, <2>2, <2>3
<1>5. used' \in Nat /\ used' <= 9 * counter + 7
  <2>1. PICK width \in 1..6 : used' = used + width + 1
    BY <1>1, <1>2
  <2> QED
    BY <1>3, <2>1
<1>6. TypeOK'
  BY <1>1, <1>2, <1>3, <1>4, <1>5 DEF TypeOK
<1>7. Progress' /\ RoomUsed'
  BY <1>1, <1>3, <1>4, <1>5 DEF Progress, RoomUsed
<1>8. LatestReadings'
  <2>1. EndsWith(history, counter, tempList)
    BY DEF IndInv, LatestReadings, EndsWith
  <2>2. temp \in Int16 /\ tempList \in Seq(Int16) /\ history \in Seq(Int16) /\ counter \in Nat
    BY <1>1, <1>3
  <2>3. EndsWith(Append(history, temp), counter, Append(tempList, temp))
    BY <2>1, <2>2, AppendToBoth, Zenon
  <2>4. tempList' = Append(tempList, temp) /\ history' = Append(history, temp)
    BY DEF Smooth
  <2> QED
    BY <1>1, <2>3, <2>4 DEF LatestReadings, EndsWith
<1>9. EveryValueIsWindowAverage'
  <2> SUFFICES ASSUME NEW k \in 1..(counter + 1)
               PROVE  buffer'[2 * k - 1] = RoundedAvg(WindowAt(history', k))
    BY <1>1 DEF EveryValueIsWindowAverage, Averages
  <2>1. CASE k = counter + 1
    <3>1. \A i \in 1..Window : tempList'[i] = history'[counter + i]
      BY <1>4, <1>8, <1>1 DEF LatestReadings
    <3>2. \A i \in 1..Window : counter + i = k + i - 1
      BY <1>3, <2>1
    <3>3. WindowAt(history', k) = [i \in 1..Window |-> tempList'[i]]
      BY <3>1, <3>2 DEF WindowAt
    <3>4. tempList' = [i \in 1..Window |-> tempList'[i]]
      BY <1>4
    <3>5. buffer'[2 * k - 1] = num'
      <4>1. 2 * k - 1 = Len(buffer) + 1
        BY <1>3, <2>1
      <4>2. PICK value \in Int16 : value = num' /\ buffer' = Append(buffer, value)
        BY <1>2 DEF Smooth
      <4>3. buffer'[Len(buffer) + 1] = value
        <5>1. buffer \in Seq(Int16)
          BY <1>3
        <5> QED
          BY <4>2, <5>1
      <4> QED
        BY <4>1, <4>2, <4>3
    <3> QED
      BY <1>1, <3>3, <3>4, <3>5
  <2>2. CASE k \in 1..counter
    <3>1. \A i \in 1..Window : k + i - 1 \in 1..Len(history)
      BY <1>3, <2>2
    <3>2. \A j \in 1..Len(history) : history'[j] = history[j]
      <4>1. history' = Append(history, temp)
        BY DEF Smooth
      <4>2. temp \in Int16 /\ history \in Seq(Int16)
        BY <1>1, <1>3
      <4> QED
        BY <4>1, <4>2
    <3>5. WindowAt(history', k) = WindowAt(history, k)
      BY <3>1, <3>2 DEF WindowAt
    <3>3. buffer'[2 * k - 1] = buffer[2 * k - 1]
      <4>1. 2 * k - 1 \in 1..Len(buffer)
        BY <1>3, <2>2
      <4> QED
        BY <1>2, <1>3, <4>1 DEF Smooth
    <3>4. buffer[2 * k - 1] = RoundedAvg(WindowAt(history, k))
      BY <1>1, <2>2 DEF IndInv, EveryValueIsWindowAverage, Averages
    <3> QED
      BY <3>3, <3>4, <3>5
  <2>3. k = counter + 1 \/ k \in 1..counter
    BY <1>3
  <2> QED
    BY <2>1, <2>2, <2>3
<1> QED
  BY <1>6, <1>7, <1>8, <1>9 DEF IndInv

\* One turn of the parity loop only rewrites num and ones.
LEMMA ParityStepStep ==
    ASSUME IndInv, ParityStep
    PROVE  IndInv'
<1> USE DEF ParityStep
<1>1. TypeOK'
  <2>1. num' \in Int16 /\ num % 2 \in {0, 1}
    BY ShiftType DEF IndInv, TypeOK
  <2>2. ones' \in {0, 1}
    BY <2>1 DEF IndInv, TypeOK
  <2> QED
    BY <2>1, <2>2 DEF IndInv, TypeOK
<1>2. Progress' /\ RoomUsed' /\ LatestReadings'
  BY DEF IndInv, Progress, RoomUsed, LatestReadings
<1>3. EveryValueIsWindowAverage'
  BY DEF IndInv, EveryValueIsWindowAverage, Averages, WindowAt
<1> QED
  BY <1>1, <1>2, <1>3 DEF IndInv

\* The window slides as the record is counted, so it stays the end of the
\* history; the record's value is already in its place.
LEMMA FinishRecordStep ==
    ASSUME IndInv, FinishRecord
    PROVE  IndInv'
<1>1. /\ pc = "parity" /\ pc' = "check" /\ counter' = counter + 1
      /\ used' = used + 2
      /\ num' = num /\ ones' = ones /\ posted' = posted /\ history' = history
  BY DEF FinishRecord
<1>2. /\ tempList \in Seq(Int16) /\ Len(tempList) = Window
      /\ buffer \in Seq(Int16) /\ Len(buffer) = 2 * counter + 1
      /\ counter \in Nat /\ counter < Batch /\ Len(history) = counter + Window
      /\ used \in Nat /\ used <= 9 * counter + 7
  <2>1. counter \in Nat /\ tempList \in Seq(Int16) /\ Len(tempList) = Window
    BY <1>1 DEF IndInv, TypeOK, Progress
  <2>2. counter < Batch
    BY <1>1 DEF IndInv, Progress
  <2> QED
    BY <1>1, <2>1, <2>2 DEF IndInv, TypeOK, RoomUsed, LatestReadings
<1>3. \A i \in 1..Window : tempList[i] = history[counter + i]
  BY <1>2 DEF IndInv, LatestReadings
<1>4. tempList' \in Seq(Int16) /\ Len(tempList') = Window - 1
  BY <1>2 DEF FinishRecord
<1>5. \A i \in 1..(Window - 1) : tempList'[i] = tempList[i + 1]
  BY <1>2 DEF FinishRecord
<1>6. /\ buffer' \in Seq(Int16) /\ Len(buffer') = 2 * counter + 2
      /\ \A i \in 1..Len(buffer) : buffer'[i] = buffer[i]
  <2>1. PICK bit \in Int16 : buffer' = Append(buffer, bit)
    <3>1. 1 - ones \in Int16
      BY DEF IndInv, TypeOK, Int16
    <3> QED
      BY <3>1 DEF FinishRecord
  <2>2. Len(buffer') = Len(buffer) + 1
    BY <1>2, <2>1
  <2> QED
    BY <1>2, <2>1, <2>2
<1>7. TypeOK'
  BY <1>1, <1>2, <1>4, <1>6 DEF IndInv, TypeOK
<1>8. Progress' /\ RoomUsed'
  <2>1. pc' = "check" /\ counter' = counter + 1 /\ counter \in Nat /\ counter < Batch
    BY <1>1, <1>2
  <2>2. Progress'
    BY <1>4, <2>1 DEF Progress
  <2>3. used' = used + 2 /\ used \in Nat /\ used <= 9 * counter + 7
    BY <1>1, <1>2
  <2>4. Len(buffer') = 2 * counter + 2
    BY <1>6
  <2>5. RoomUsed'
    BY <2>1, <2>3, <2>4 DEF RoomUsed
  <2> QED
    BY <2>2, <2>5
<1>9. LatestReadings'
  <2>1. Len(history') = counter' + Len(tempList')
    BY <1>1, <1>2, <1>4
  <2>2. ASSUME NEW i \in 1..(Window - 1) PROVE tempList'[i] = history'[counter' + i]
    <3>1. i + 1 \in 1..Window /\ counter + (i + 1) = counter' + i
      BY <1>1, <1>2
    <3>2. tempList'[i] = history[counter + (i + 1)]
      BY <1>3, <1>5, <3>1
    <3> QED
      BY <1>1, <3>1, <3>2
  <2> QED
    BY <1>4, <2>1, <2>2 DEF LatestReadings
<1>10. EveryValueIsWindowAverage'
  <2> SUFFICES ASSUME NEW k \in 1..(counter + 1)
               PROVE  buffer'[2 * k - 1] = RoundedAvg(WindowAt(history, k))
    BY <1>1 DEF EveryValueIsWindowAverage, Averages, WindowAt
  <2>1. buffer[2 * k - 1] = RoundedAvg(WindowAt(history, k))
    BY <1>1 DEF IndInv, EveryValueIsWindowAverage, Averages
  <2>2. 2 * k - 1 \in 1..Len(buffer)
    BY <1>2
  <2>3. buffer'[2 * k - 1] = buffer[2 * k - 1]
    BY <1>6, <2>2
  <2> QED
    BY <2>1, <2>3
<1> QED
  BY <1>7, <1>8, <1>9, <1>10 DEF IndInv

\* After a post the readings still in the window are all the history there is.
LEMMA PostStep ==
    ASSUME IndInv, Post
    PROVE  IndInv'
<1> USE DEF Post
<1>1. TypeOK'
  BY DEF IndInv, TypeOK
<1>2. Progress' /\ RoomUsed' /\ LatestReadings'
  BY DEF IndInv, TypeOK, Progress, RoomUsed, LatestReadings
<1>3. EveryValueIsWindowAverage'
  BY DEF EveryValueIsWindowAverage, Averages
<1> QED
  BY <1>1, <1>2, <1>3 DEF IndInv

\* Every step of the loop keeps the invariant.
LEMMA NextIndInv == IndInv /\ [Next]_vars => IndInv'
<1> SUFFICES ASSUME IndInv, [Next]_vars PROVE IndInv'
  OBVIOUS
<1>1. CASE TempSensorReset \/ ReadFails \/ CheckBatch
  BY <1>1, ControlSteps
<1>2. CASE TakeReading
  BY <1>2, FillWindowStep, SmoothStep DEF TakeReading
<1>3. CASE ParityStep
  BY <1>3, ParityStepStep
<1>4. CASE FinishRecord
  BY <1>4, FinishRecordStep
<1>5. CASE Post
  BY <1>5, PostStep
<1>6. CASE UNCHANGED vars
  BY <1>6 DEF vars, IndInv, TypeOK, Progress, RoomUsed, LatestReadings,
              EveryValueIsWindowAverage, Averages, WindowAt
<1> QED
  BY <1>1, <1>2, <1>3, <1>4, <1>5, <1>6 DEF Next

\* The loop of main() never leaves the invariant from which the theorems below
\* follow.
THEOREM Invariance == Spec => []IndInv
<1> QED
  BY InitIndInv, NextIndInv, PTL DEF Spec

-----------------------------------------------------------------------------
(* What follows from it.                                                   *)

\* Every variable keeps its C type and the window array is never overrun.
THEOREM TypeCorrect == Spec => []TypeOK
<1>1. IndInv => TypeOK
  BY DEF IndInv
<1> QED
  BY <1>1, Invariance, PTL

\* No sequence of readings and failed reads lets strcat() write past
\* data.buffer, whose size is all that BufferAssumption asks about.
THEOREM BufferNeverOverflows == Spec => []BufferFits
<1>1. IndInv => BufferFits
  <2> SUFFICES ASSUME IndInv PROVE used < BufferSize
    BY DEF BufferFits
  <2>1. /\ used \in Nat /\ counter \in Nat /\ counter <= Batch
        /\ used <= 9 * counter + (IF pc = "parity" THEN 7 ELSE 0)
        /\ pc = "parity" => counter < Batch
    BY DEF IndInv, TypeOK, RoomUsed, Progress
  <2>2. used <= 9 * Batch
    BY <2>1
  <2> QED
    BY <2>1, <2>2, BufferAssumption
<1> QED
  BY <1>1, Invariance, PTL

\* Each value in the buffer averages its own window of consecutive readings.
THEOREM ValuesAreWindowAverages == Spec => []EveryValueIsWindowAverage
<1>1. IndInv => EveryValueIsWindowAverage
  BY DEF IndInv
<1> QED
  BY <1>1, Invariance, PTL

-----------------------------------------------------------------------------
(* Implementation of SmoothedReports.                                      *)

\* The loop begins where the promise does.
LEMMA InitRefines == Init => Abstract!Init
  BY DEF Init, Abstract!Init, ValuesOf

\* Only a reading and a post are visible to the promise.
LEMMA StepRefines ==
    IndInv /\ [Next]_vars => [Abstract!Next]_<<history, ValuesOf(posted)>>
<1> SUFFICES ASSUME IndInv, [Next]_vars
             PROVE  Abstract!Next \/ UNCHANGED <<history, ValuesOf(posted)>>
  OBVIOUS
<1>1. CASE TempSensorReset \/ ReadFails \/ CheckBatch \/ ParityStep \/ FinishRecord
  BY <1>1 DEF TempSensorReset, ReadFails, CheckBatch, ParityStep, FinishRecord, ValuesOf
<1>2. CASE TakeReading
  <2>1. PICK temp \in Readings : FillWindow(temp) \/ Smooth(temp)
    BY <1>2 DEF TakeReading
  <2>2. history' = Append(history, temp) /\ posted' = posted
    BY <2>1 DEF FillWindow, Smooth
  <2>3. Len(history) < Abstract!Needed
    <3>1. /\ counter \in Nat /\ counter < Batch /\ Len(history) = counter + Len(tempList)
          /\ tempList \in Seq(Int16) /\ Len(tempList) <= Window - 1
      BY <2>1 DEF FillWindow, Smooth, IndInv, TypeOK, Progress, LatestReadings
    <3> QED
      BY <3>1 DEF Abstract!Needed
  <2>4. Abstract!Accept
    BY <2>2, <2>3 DEF Abstract!Accept, ValuesOf
  <2> QED
    BY <2>4 DEF Abstract!Next
<1>3. CASE Post
  <2>1. posted' = buffer /\ history' = tempList /\ pc = "post"
    BY <1>3 DEF Post
  <2>2. /\ counter = Batch /\ tempList \in Seq(Int16) /\ Len(tempList) = Window - 1
        /\ Len(history) = Batch + Window - 1 /\ Len(buffer) = 2 * Batch
    <3>1. counter = Batch /\ tempList \in Seq(Int16) /\ Len(tempList) = Window - 1
      BY <2>1 DEF IndInv, TypeOK, Progress
    <3> QED
      BY <2>1, <3>1 DEF IndInv, LatestReadings, RoomUsed
  <2>3. ValuesOf(posted)' = [k \in 1..Batch |-> RoundedAvg(Abstract!Windows(history)[k])]
    <3>1. Len(buffer) \div 2 = Batch
      BY <2>2
    <3>2. \A k \in 1..Batch : buffer[2 * k - 1] = RoundedAvg(WindowAt(history, k))
      BY <2>1, <2>2 DEF IndInv, EveryValueIsWindowAverage, Averages
    <3>3. \A k \in 1..Batch : Abstract!Windows(history)[k] = WindowAt(history, k)
      BY DEF Abstract!Windows, WindowAt
    <3> QED
      BY <2>1, <3>1, <3>2, <3>3 DEF ValuesOf
  <2>4. history' = [i \in 1..(Window - 1) |-> history[Batch + i]]
    BY <2>1, <2>2 DEF IndInv, LatestReadings
  <2>5. Abstract!Report
    BY <2>2, <2>3, <2>4 DEF Abstract!Report, Abstract!Needed
  <2> QED
    BY <2>5 DEF Abstract!Next
<1>4. CASE UNCHANGED vars
  BY <1>4 DEF vars, ValuesOf
<1> QED
  BY <1>1, <1>2, <1>3, <1>4 DEF Next

\* The loop of main() implements the promise of SmoothedReports.
THEOREM Refinement == Spec => ImplementsReports
<1> QED
  BY InitRefines, StepRefines, Invariance, PTL DEF Spec, ImplementsReports, Abstract!Spec

\* Round() ends less than or exactly half a unit from the quotient.
LEMMA RoundIsNearest ==
    ASSUME NEW a \in Int, NEW b \in Nat \ {0}
    PROVE  Round(a, b) \in Int /\ 2 * (b * Round(a, b) - a) \in -b..b
<1>1. CASE a >= 0
  <2>1. PICK q \in Int : q = (2 * a + b) \div (2 * b)
    BY Z3
  <2>2. 2 * b \in Nat \ {0} /\ 2 * a + b \in Int
    OBVIOUS
  <2>3. /\ (2 * a + b) % (2 * b) \in 0..(2 * b - 1)
        /\ 2 * a + b = (2 * b) * q + ((2 * a + b) % (2 * b))
    BY <2>1, <2>2, Division
  <2>4. PICK r \in 0..(2 * b - 1) : 2 * a + b = (2 * b) * q + r
    BY <2>3
  <2>5. 2 * (b * q - a) = b - r
    BY <2>4, Z3
  <2>6. 2 * (b * q - a) \in -b..b
    BY <2>4, <2>5, Z3
  <2> QED
    BY <1>1, <2>1, <2>6 DEF Round
<1>2. CASE a < 0
  <2>1. PICK q \in Int : q = (b - 2 * a) \div (2 * b)
    BY Z3
  <2>2. 2 * b \in Nat \ {0} /\ b - 2 * a \in Int
    OBVIOUS
  <2>3. /\ (b - 2 * a) % (2 * b) \in 0..(2 * b - 1)
        /\ b - 2 * a = (2 * b) * q + ((b - 2 * a) % (2 * b))
    BY <2>1, <2>2, Division
  <2>4. PICK r \in 0..(2 * b - 1) : b - 2 * a = (2 * b) * q + r
    BY <2>3
  <2>5. 2 * (b * (-q) - a) = r - b
    BY <2>4, Z3
  <2>6. 2 * (b * (-q) - a) \in -b..b
    BY <2>4, <2>5, Z3
  <2> QED
    BY <1>2, <2>1, <2>6 DEF Round
<1> QED
  BY <1>1, <1>2

\* A number that is nearest to the mean of b int16_t is one itself.
LEMMA NearestFits ==
    ASSUME NEW b \in Nat \ {0}, NEW sum \in Int, NEW n \in Int,
           -32768 * b <= sum, sum <= 32767 * b, 2 * (b * n - sum) \in -b..b
    PROVE  n \in Int16
<1>1. CASE n >= 32768
  <2>1. b * n >= b * 32768
    BY <1>1, Z3
  <2> QED
    BY <2>1, Z3
<1>2. CASE n <= -32769
  <2>1. b * n <= b * (-32769)
    BY <1>2, Z3
  <2> QED
    BY <2>1, Z3
<1> QED
  BY <1>1, <1>2 DEF Int16

\* The average of a window of int16_t is a nearest integer to its mean: the
\* cast back to int16_t loses nothing.
LEMMA AverageIsNearest ==
    ASSUME NEW window \in [1..Window -> Int16]
    PROVE  2 * (Window * RoundedAvg(window) - SumFunction(window)) \in -Window..Window
<1>1. /\ SumFunction(window) \in Int
      /\ -32768 * Window <= SumFunction(window)
      /\ SumFunction(window) <= 32767 * Window
  <2>1. IsFiniteSet(1..Window) /\ Cardinality(1..Window) = Window
    BY FS_Interval
  <2>2. SumFunction(window) = SumFunctionOnSet(window, 1..Window)
    BY DEF SumFunction
  <2>3. PICK low \in Int, high \in Int : low = -32768 /\ high = 32767
    OBVIOUS
  <2>4. \A x \in 1..Window : window[x] \in Int /\ low <= window[x] /\ window[x] <= high
    BY <2>3 DEF Int16
  <2>5. /\ SumFunctionOnSet(window, 1..Window) \in Int
        /\ low * Cardinality(1..Window) <= SumFunctionOnSet(window, 1..Window)
        /\ SumFunctionOnSet(window, 1..Window) <= high * Cardinality(1..Window)
    BY <2>1, <2>4, SumBounds
  <2> QED
    BY <2>1, <2>2, <2>3, <2>5
<1>2. PICK sum \in Int : sum = SumFunction(window)
  BY <1>1
<1>3. PICK n \in Int : n = Round(sum, Window)
  BY RoundIsNearest
<1>4. 2 * (Window * n - sum) \in -Window..Window
  BY <1>3, RoundIsNearest
<1>5. n \in Int16
  BY <1>1, <1>2, <1>4, NearestFits
<1>6. RoundedAvg(window) = n
  BY <1>2, <1>3, <1>5 DEF RoundedAvg, CastInt16
<1> QED
  BY <1>2, <1>4, <1>6

\* A window that the history covers holds int16_t.
LEMMA WindowType ==
    ASSUME IndInv, NEW k \in 1..Averages
    PROVE  WindowAt(history, k) \in [1..Window -> Int16]
<1>1. /\ counter \in Nat /\ Len(tempList) \in Nat
      /\ history \in Seq(Int16) /\ Len(history) = counter + Len(tempList)
  BY DEF IndInv, TypeOK, LatestReadings
<1>2. k + Window - 1 <= Len(history)
  BY <1>1 DEF IndInv, Progress, Averages
<1>3. \A i \in 1..Window : history[k + i - 1] \in Int16
  <2> SUFFICES ASSUME NEW i \in 1..Window PROVE history[k + i - 1] \in Int16
    OBVIOUS
  <2>1. k \in Nat /\ k >= 1
    BY <1>1 DEF Averages
  <2>2. k + i - 1 \in 1..Len(history)
    BY <1>1, <1>2, <2>1
  <2> QED
    BY <1>1, <2>2
<1> QED
  BY <1>3 DEF WindowAt

\* Between the double and the int16_t no average is rounded to anything but a
\* nearest integer (main.c:164-179).
THEOREM AveragesNearest == Spec => []AveragesAreNearest
<1>1. IndInv => AveragesAreNearest
  <2> SUFFICES ASSUME IndInv, NEW k \in 1..Averages
               PROVE  2 * (Window * buffer[2 * k - 1] - SumFunction(WindowAt(history, k)))
                          \in -Window..Window
    BY DEF AveragesAreNearest
  <2>1. WindowAt(history, k) \in [1..Window -> Int16]
    BY WindowType
  <2>2. buffer[2 * k - 1] = RoundedAvg(WindowAt(history, k))
    BY DEF IndInv, EveryValueIsWindowAverage
  <2> QED
    BY <2>1, <2>2, AverageIsNearest
<1> QED
  BY <1>1, Invariance, PTL

-----------------------------------------------------------------------------
(* The bits of a number.                                                   *)

\* The averages on which the parity loop ends.
NotNegative == {n \in Int16 : 0 <= n}

\* The number of bits is a number.
LEMMA BitCountType ==
    ASSUME NEW n \in Int
    PROVE  BitCount(n) \in Int
<1> DEFINE f == [b \in 0..15 |-> (n \div 2^b) % 2]
<1>1. BitCount(n) = SumFunctionOnSet(f, 0..15)
  BY DEF BitCount, SumFunction
<1>2. ASSUME NEW b \in 0..15 PROVE f[b] \in Int
  <2>1. 2^b \in Nat \ {0}
    BY PowersOfTwo, Zenon
  <2>2. PICK p \in Nat \ {0} : p = 2^b
    BY <2>1
  <2>3. (n \div p) \in Int
    BY Division
  <2>4. (n \div p) % 2 \in Int
    BY <2>3
  <2>5. f[b] = (n \div 2^b) % 2
    OBVIOUS
  <2> QED
    BY <2>2, <2>4, <2>5
<1> HIDE DEF f
<1>3. 0 \in Int /\ 15 \in Int
  OBVIOUS
<1>4. IsFiniteSet(0..15)
  BY <1>3, FS_Interval, Zenon
<1> QED
  BY <1>1, <1>2, <1>4, SumType

\* A number has a bit more than its half if it is odd.
LEMMA BitsOfHalf ==
    ASSUME NEW n \in NotNegative
    PROVE  BitCount(n) = (n % 2) + BitCount(n \div 2)
<1>0. n \in Nat
  BY DEF NotNegative, Int16
<1> DEFINE f == [b \in 0..15 |-> (n \div 2^b) % 2]
           g == [b \in 0..15 |-> ((n \div 2) \div 2^b) % 2]
<1>1. BitCount(n) = SumFunctionOnSet(f, 0..15)
  BY DEF BitCount, SumFunction
<1>2. BitCount(n \div 2) = SumFunctionOnSet(g, 0..15)
  BY DEF BitCount, SumFunction
<1>3. \A b \in 0..15 : f[b] = (n \div 2^b) % 2 /\ g[b] = ((n \div 2) \div 2^b) % 2
  OBVIOUS
<1>4. f[0] = n % 2 /\ g[15] = 0
  <2>1. f[0] = (n \div 2^0) % 2 /\ g[15] = ((n \div 2) \div 2^15) % 2
    OBVIOUS
  <2>2. 2^0 = 1 /\ 2^15 = 32768
    OBVIOUS
  <2>3. n \div 1 = n /\ (n \div 2) \div 32768 = 0 /\ 0 % 2 = 0
    BY DEF NotNegative, Int16
  <2> QED
    BY <2>1, <2>2, <2>3
<1> HIDE DEF f, g
<1>5. ASSUME NEW b \in 0..15 PROVE f[b] \in Int /\ g[b] \in Int
  <2>1. 2^b \in Nat \ {0}
    BY PowersOfTwo, Zenon
  <2>2. PICK p \in Nat \ {0} : p = 2^b
    BY <2>1
  <2>3. (n \div p) \in Int /\ ((n \div 2) \div p) \in Int
    BY <1>0, Division
  <2>4. (n \div p) % 2 \in Int /\ ((n \div 2) \div p) % 2 \in Int
    BY <2>3
  <2> QED
    BY <1>3, <2>2, <2>4
<1>6. ASSUME NEW b \in 0..14 PROVE f[b + 1] = g[b]
  <2>1. b \in 0..15 /\ b + 1 \in 0..15
    OBVIOUS
  <2>2. 2^b \in Nat \ {0} /\ 2^(b + 1) = 2 * 2^b
    BY <2>1, PowersOfTwo, Zenon
  <2>3. PICK p \in Nat \ {0} : p = 2^b
    BY <2>2
  <2>5. (n \div 2) \div p = n \div (2 * p)
    BY <1>0, DivideTwice, Zenon
  <2> QED
    BY <1>3, <2>1, <2>2, <2>3, <2>5
<1>7. PICK last \in Nat : last + 1 = 15
  <2>1. 14 \in Nat /\ 14 + 1 = 15
    OBVIOUS
  <2> QED
    BY <2>1
<1>8. /\ \A b \in 0..(last + 1) : f[b] \in Int /\ g[b] \in Int
      /\ \A b \in 0..last : f[b + 1] = g[b]
  BY <1>5, <1>6, <1>7
<1>9. SumFunctionOnSet(f, 0..(last + 1)) = f[0] + SumFunctionOnSet(g, 0..last)
  <2>1. IsFiniteSet(0..(last + 1))
    BY FS_Interval
  <2>2. 0 \in 0..(last + 1) /\ (0..(last + 1)) \ {0} = 1..(last + 1)
    OBVIOUS
  <2>3. SumFunctionOnSet(f, 0..(last + 1)) = f[0] + SumFunctionOnSet(f, 1..(last + 1))
    <3>1. \A b \in 0..(last + 1) : f[b] \in Int
      BY <1>8
    <3>2. PICK e \in 0..(last + 1) : e = 0
      BY <2>2
    <3>3. SumFunctionOnSet(f, 0..(last + 1))
              = f[e] + SumFunctionOnSet(f, (0..(last + 1)) \ {e})
      BY <2>1, <3>1, SumWithout
    <3> QED
      BY <2>2, <3>2, <3>3
  <2>4. SumFunctionOnSet(f, 1..(last + 1)) = SumFunctionOnSet(g, 0..last)
    BY <1>8, SumShifted
  <2> QED
    BY <2>3, <2>4
<1>10. /\ SumFunctionOnSet(g, 0..(last + 1)) = g[last + 1] + SumFunctionOnSet(g, 0..last)
       /\ SumFunctionOnSet(g, 0..last) \in Int
  <2>1. /\ SumFunctionOnSet(g, 0..(last + 1))
               = g[last + 1] + SumFunctionOnSet(g, 0..((last + 1) - 1))
        /\ SumFunctionOnSet(g, 0..((last + 1) - 1)) \in Int
    BY <1>8, SumOfInterval
  <2>2. (last + 1) - 1 = last
    OBVIOUS
  <2> QED
    BY <2>1, <2>2
<1>11. PICK rest \in Int : rest = SumFunctionOnSet(g, 0..last)
  BY <1>10
<1>12. BitCount(n) = (n % 2) + rest
  BY <1>1, <1>4, <1>7, <1>9, <1>11
<1>13. BitCount(n \div 2) = 0 + rest
  BY <1>2, <1>4, <1>7, <1>10, <1>11
<1> QED
  BY <1>12, <1>13

\* Zero has no bit.
LEMMA BitsOfZero == BitCount(0) = 0
<1>1. 0 \in Int /\ 0 \div 2 = 0 /\ 0 % 2 = 0
  OBVIOUS
<1> DEFINE f == [b \in 0..15 |-> (0 \div 2^b) % 2]
<1>2. BitCount(0) = SumFunctionOnSet(f, 0..15)
  BY DEF BitCount, SumFunction
<1>3. ASSUME NEW b \in 0..15 PROVE f[b] = 0
  <2>1. 2^b \in Nat \ {0}
    BY PowersOfTwo, Zenon
  <2>2. PICK p \in Nat \ {0} : p = 2^b
    BY <2>1
  <2>3. 0 \div p = 0
    BY Z3
  <2>4. f[b] = (0 \div 2^b) % 2
    OBVIOUS
  <2> QED
    BY <1>1, <2>2, <2>3, <2>4
<1> HIDE DEF f
<1>4. 15 \in Int
  OBVIOUS
<1>5. IsFiniteSet(0..15)
  BY <1>1, <1>4, FS_Interval, Zenon
<1>6. PICK size \in Nat : size = Cardinality(0..15)
  BY <1>5, FS_CardinalityType
<1>7. PICK zero \in Int : zero = 0
  OBVIOUS
<1>8. \A b \in 0..15 : f[b] \in Int /\ zero <= f[b] /\ f[b] <= zero
  BY <1>3, <1>7
<1>9. /\ SumFunctionOnSet(f, 0..15) \in Int
      /\ zero * Cardinality(0..15) <= SumFunctionOnSet(f, 0..15)
      /\ SumFunctionOnSet(f, 0..15) <= zero * Cardinality(0..15)
  BY <1>5, <1>8, SumBounds, Zenon
<1> QED
  BY <1>2, <1>6, <1>7, <1>9

-----------------------------------------------------------------------------
(***************************************************************************)
(* Parity.  While calculate_odd_parity() loops, the bits it has counted    *)
(* and the bits it still holds are those of the value in the buffer; on a  *)
(* negative number it never gets to the end of them.                       *)
(***************************************************************************)
BitsLeft ==
    (pc = "parity" /\ num >= 0) =>
        (ones + BitCount(num)) % 2 = BitCount(buffer[2 * counter + 1]) % 2

ParityInv == ParityIsOdd /\ BitsLeft

\* Nothing is printed before the first step.
LEMMA InitParity == Init => ParityInv
  BY DEF Init, ParityInv, ParityIsOdd, BitsLeft

\* The steps that leave the message and the parity loop alone.
LEMMA ParityIdle ==
    ASSUME ParityInv, IndInv, counter' = counter, buffer' = buffer, pc' # "parity"
    PROVE  ParityInv'
  BY DEF ParityInv, ParityIsOdd, BitsLeft

\* The loop begins with all bits of the value.
LEMMA SmoothParity ==
    ASSUME ParityInv, IndInv, NEW temp \in Readings, Smooth(temp)
    PROVE  ParityInv'
<1>1. /\ ones' = 0 /\ counter' = counter /\ pc = "read"
      /\ counter \in Nat /\ buffer \in Seq(Int16) /\ Len(buffer) = 2 * counter
      /\ num' \in Int16 /\ buffer' = Append(buffer, num')
  <2>1. num' \in Int16
    BY RoundedAvgType DEF Smooth
  <2> QED
    BY <2>1 DEF Smooth, IndInv, TypeOK, RoomUsed
<1>2. PICK value \in Int16 : value = num'
  BY <1>1
<1>3. buffer'[2 * counter + 1] = value /\ \A i \in 1..(2 * counter) : buffer'[i] = buffer[i]
  BY <1>1, <1>2
<1>4. ParityIsOdd'
  <2> SUFFICES ASSUME NEW k \in 1..counter
               PROVE  (BitCount(buffer'[2 * k - 1]) + buffer'[2 * k]) % 2 = 1
    BY <1>1 DEF ParityIsOdd, BitCount
  <2>1. 2 * k - 1 \in 1..(2 * counter) /\ 2 * k \in 1..(2 * counter)
    BY <1>1
  <2>2. (BitCount(buffer[2 * k - 1]) + buffer[2 * k]) % 2 = 1
    BY DEF ParityInv, ParityIsOdd
  <2> QED
    BY <1>3, <2>1, <2>2
<1>5. BitsLeft'
  <2> SUFFICES ASSUME value >= 0 PROVE (0 + BitCount(value)) % 2 = BitCount(value) % 2
    BY <1>1, <1>2, <1>3 DEF BitsLeft, BitCount
  <2>1. BitCount(value) \in Int
    BY BitCountType DEF Int16
  <2> QED
    BY <2>1
<1> QED
  BY <1>4, <1>5 DEF ParityInv

\* A turn of the loop moves one bit.
LEMMA ParityStepParity ==
    ASSUME ParityInv, IndInv, ParityStep
    PROVE  ParityInv'
<1>1. /\ ones' = (ones + (num % 2)) % 2 /\ num' = num \div 2
      /\ pc = "parity" /\ pc' = pc /\ counter' = counter /\ buffer' = buffer
      /\ num \in Int16 /\ ones \in {0, 1}
  BY DEF ParityStep, IndInv, TypeOK
<1>2. ParityIsOdd'
  BY <1>1 DEF ParityInv, ParityIsOdd, BitCount
<1>3. BitsLeft'
  <2> SUFFICES ASSUME num \div 2 >= 0
               PROVE  (((ones + (num % 2)) % 2) + BitCount(num \div 2)) % 2
                          = BitCount(buffer[2 * counter + 1]) % 2
    BY <1>1 DEF BitsLeft, BitCount
  <2>1. num \in NotNegative /\ num \in Int
    BY <1>1 DEF NotNegative, Int16
  <2>2. num \div 2 \in Int
    BY <2>1
  <2>3. BitCount(num \div 2) \in Int
    BY <2>2, BitCountType
  <2>4. PICK rest \in Int : rest = BitCount(num \div 2)
    BY <2>3
  <2>5. BitCount(num) = (num % 2) + rest
    BY <2>1, <2>4, BitsOfHalf, Zenon
  <2>6. (ones + ((num % 2) + rest)) % 2 = BitCount(buffer[2 * counter + 1]) % 2
    BY <1>1, <2>1, <2>5 DEF ParityInv, BitsLeft, NotNegative
  <2>7. (((ones + (num % 2)) % 2) + rest) % 2 = (ones + ((num % 2) + rest)) % 2
    BY <1>1, <2>1
  <2> QED
    BY <2>4, <2>6, <2>7
<1> QED
  BY <1>2, <1>3 DEF ParityInv

\* At its end the bit that is printed makes the number of ones odd.
LEMMA FinishRecordParity ==
    ASSUME ParityInv, IndInv, FinishRecord
    PROVE  ParityInv'
<1>1. /\ pc = "parity" /\ num = 0 /\ pc' = "check" /\ counter' = counter + 1
      /\ buffer' = Append(buffer, 1 - ones) /\ ones \in {0, 1}
      /\ counter \in Nat /\ buffer \in Seq(Int16) /\ Len(buffer) = 2 * counter + 1
  BY DEF FinishRecord, IndInv, TypeOK, RoomUsed
<1>2. PICK bit \in Int16 : bit = 1 - ones
  <2>1. 1 - ones \in Int16
    BY <1>1 DEF Int16
  <2> QED
    BY <2>1
<1>3. buffer'[2 * counter + 2] = bit /\ \A i \in 1..(2 * counter + 1) : buffer'[i] = buffer[i]
  BY <1>1, <1>2
<1>4. BitsLeft'
  BY <1>1 DEF BitsLeft
<1>5. ASSUME NEW k \in 1..counter
      PROVE  (BitCount(buffer'[2 * k - 1]) + buffer'[2 * k]) % 2 = 1
  <2>1. 2 * k - 1 \in 1..(2 * counter + 1) /\ 2 * k \in 1..(2 * counter + 1)
    BY <1>1
  <2>2. (BitCount(buffer[2 * k - 1]) + buffer[2 * k]) % 2 = 1
    BY DEF ParityInv, ParityIsOdd
  <2> QED
    BY <1>3, <2>1, <2>2
<1>6. (BitCount(buffer'[2 * counter + 1]) + buffer'[2 * counter + 2]) % 2 = 1
  <2>1. (ones + 0) % 2 = BitCount(buffer[2 * counter + 1]) % 2
    BY <1>1, BitsOfZero DEF ParityInv, BitsLeft
  <2>2. 2 * counter + 1 \in 1..Len(buffer)
    BY <1>1
  <2>3. buffer[2 * counter + 1] \in Int
    BY <1>1, <2>2 DEF Int16
  <2>4. PICK bits \in Int : bits = BitCount(buffer[2 * counter + 1])
    BY <2>3, BitCountType
  <2>5. (bits + (1 - ones)) % 2 = 1
    <3>1. ones \in {0, 1} /\ (ones + 0) % 2 = bits % 2
      BY <1>1, <2>1, <2>4
    <3> QED
      BY <3>1
  <2> QED
    BY <1>1, <1>2, <1>3, <2>4, <2>5
<1>7. ParityIsOdd'
  <2> SUFFICES ASSUME NEW k \in 1..(counter + 1)
               PROVE  (BitCount(buffer'[2 * k - 1]) + buffer'[2 * k]) % 2 = 1
    BY <1>1 DEF ParityIsOdd, BitCount
  <2>1. k \in 1..counter \/ k = counter + 1
    BY <1>1
  <2>2. CASE k = counter + 1
    <3>1. 2 * k - 1 = 2 * counter + 1 /\ 2 * k = 2 * counter + 2
      BY <1>1, <2>2
    <3> QED
      BY <1>6, <3>1
  <2> QED
    BY <1>5, <2>1, <2>2
<1> QED
  BY <1>4, <1>7 DEF ParityInv

\* Every step keeps the parity of the message right.
LEMMA NextParity == IndInv /\ ParityInv /\ [Next]_vars => ParityInv'
<1> SUFFICES ASSUME IndInv, ParityInv, [Next]_vars PROVE ParityInv'
  OBVIOUS
<1>1. CASE TempSensorReset \/ ReadFails \/ CheckBatch
  BY <1>1, ParityIdle DEF TempSensorReset, ReadFails, CheckBatch
<1>2. ASSUME NEW temp \in Readings, FillWindow(temp) PROVE ParityInv'
  BY <1>2, ParityIdle DEF FillWindow
<1>3. CASE ParityStep
  BY <1>3, ParityStepParity
<1>4. CASE FinishRecord
  BY <1>4, FinishRecordParity
<1>5. CASE Post
  BY <1>5 DEF Post, ParityInv, ParityIsOdd, BitsLeft
<1>6. CASE UNCHANGED vars
  BY <1>6 DEF vars, ParityInv, ParityIsOdd, BitsLeft, BitCount
<1> QED
  BY <1>1, <1>2, <1>3, <1>4, <1>5, <1>6, SmoothParity DEF Next, TakeReading

\* Every value stands in the message with the bit that makes the number of
\* ones odd: the server's check accepts what the node sends (main.c:118-132).
THEOREM ParityCorrect == Spec => []ParityIsOdd
<1>1. ParityInv => ParityIsOdd
  BY DEF ParityInv
<1> QED
  BY <1>1, Invariance, InitParity, NextParity, PTL DEF Spec

-----------------------------------------------------------------------------
(* The logger.                                                             *)

\* The codec counts the same bits: its sixteenth is never set.
LEMMA SameBits ==
    ASSUME NEW n \in NotNegative
    PROVE  Logger!Codec!Ones(n) = BitCount(n)
<1>0. n \in Nat
  BY DEF NotNegative, Int16
<1> DEFINE f == [b \in 0..16 |-> (n \div 2^b) % 2]
           g == [b \in 0..15 |-> (n \div 2^b) % 2]
<1>1. BitCount(n) = SumFunctionOnSet(g, 0..15)
  BY DEF BitCount, SumFunction
<1>2. Logger!Codec!Ones(n) = Cardinality({b \in 0..16 : f[b] = 1})
  <2>1. \A b \in 0..16 : f[b] = (n \div 2^b) % 2
    OBVIOUS
  <2> HIDE DEF f
  <2>2. {b \in 0..16 : f[b] = 1} = {b \in 0..16 : (n \div 2^b) % 2 = 1}
    BY <2>1
  <2> QED
    BY <2>2 DEF Logger!Codec!Ones, Logger!Codec!Cardinality, Cardinality
<1>3. \A b \in 0..15 : f[b] = g[b]
  OBVIOUS
<1>4. f[16] = 0
  <2>1. f[16] = (n \div 2^16) % 2 /\ 2^16 = 65536
    OBVIOUS
  <2>2. n \div 65536 = 0 /\ 0 % 2 = 0
    BY DEF NotNegative, Int16
  <2> QED
    BY <2>1, <2>2
<1>5. ASSUME NEW b \in 0..15 PROVE f[b] \in {0, 1}
  <2>1. 2^b \in Nat \ {0}
    BY PowersOfTwo, Zenon
  <2>2. PICK p \in Nat \ {0} : p = 2^b
    BY <2>1
  <2>3. (n \div p) \in Int
    BY <1>0, Division
  <2>4. (n \div p) % 2 \in {0, 1}
    BY <2>3
  <2>5. f[b] = (n \div 2^b) % 2
    OBVIOUS
  <2> QED
    BY <2>2, <2>4, <2>5
<1> HIDE DEF f, g
<1>6. PICK last \in Nat : last = 16 /\ last - 1 = 15
  <2>1. 16 \in Nat /\ 16 - 1 = 15
    OBVIOUS
  <2> QED
    BY <2>1
<1>7. IsFiniteSet(0..last) /\ IsFiniteSet(0..(last - 1))
  BY FS_Interval
<1>8. \A b \in 0..last : f[b] \in {0, 1}
  BY <1>4, <1>5, <1>6
<1>9. Cardinality({b \in 0..last : f[b] = 1}) = SumFunctionOnSet(f, 0..last)
  BY <1>7, <1>8, CountIsSum
<1>10. /\ SumFunctionOnSet(f, 0..last) = f[last] + SumFunctionOnSet(f, 0..(last - 1))
       /\ SumFunctionOnSet(f, 0..(last - 1)) \in Int
  <2>1. \A b \in 0..last : f[b] \in Int
    BY <1>8
  <2>2. 0 <= last
    OBVIOUS
  <2> QED
    BY <2>1, <2>2, SumOfInterval
<1>11. SumFunctionOnSet(f, 0..(last - 1)) = SumFunctionOnSet(g, 0..(last - 1))
  <2>1. \A b \in 0..(last - 1) : f[b] = g[b]
    BY <1>3, <1>6
  <2> QED
    BY <1>7, <2>1, SameSum
<1>12. PICK sum \in Int : sum = SumFunctionOnSet(g, 0..(last - 1))
  BY <1>10, <1>11
<1> QED
  BY <1>1, <1>2, <1>4, <1>6, <1>9, <1>10, <1>11, <1>12

\* Written one after the other or both at once, value and bit are the same text.
LEMMA AppendTwice ==
    ASSUME NEW s \in Seq(Int16), NEW a \in Int16, NEW b \in Int16
    PROVE  Append(Append(s, a), b) = s \o <<a, b>>
  OBVIOUS

\* The logger's text, window, length and count, if they are the node's.
SameText == <<logTempList, logBuffer, logUsed, logCounter>> = <<tempList, buffer, used, counter>>

(***************************************************************************)
(* While the node counts bits the logger has finished the record, or hangs *)
(* in the loop in which the node turns; apart from that they stand alike.  *)
(***************************************************************************)
Ahead ==
    LET avg == buffer[2 * counter + 1]
    IN  /\ avg \in NotNegative
        /\ logPc = "check"
        /\ logTempList = Tail(tempList)
        /\ logBuffer = Append(buffer, Logger!Codec!calculate_odd_parity(avg))
        /\ logUsed = used + 2
        /\ logCounter = counter + 1

TwinsInv ==
    /\ pc # "parity" => num = 0 /\ SameText
    /\ pc \in {"boot", "failed", "read", "check"} => logPc = pc
    /\ pc = "post" => logPc = "check"
    /\ (pc = "parity" /\ num < 0) => logPc = "hung" /\ SameText
    /\ (pc = "parity" /\ num >= 0) => Ahead
    /\ printed = posted

\* Both programs begin with nothing.
LEMMA TwinsInitInv == TwinsInit => TwinsInv
<1> SUFFICES ASSUME TwinsInit PROVE TwinsInv
  OBVIOUS
<1> QED
  BY DEF TwinsInit, Init, Logger!Init, TwinsInv, SameText

\* The copies round alike: their operators are the same text.
LEMMA SameAverage ==
    ASSUME NEW window
    PROVE  Logger!RoundedAvg(window) = RoundedAvg(window)
  BY DEF Logger!RoundedAvg, RoundedAvg, Logger!CastInt16, CastInt16, Logger!Round, Round,
         Logger!Int16, Int16, Logger!SumFunction, SumFunction, Logger!SumFunctionOnSet,
         SumFunctionOnSet, Logger!FoldFunctionOnSet, FoldFunctionOnSet,
         Logger!MapThenFoldSet, MapThenFoldSet

\* The logger prints as many characters for a number.
LEMMA SameLength ==
    ASSUME NEW v
    PROVE  Logger!DecimalLen(v) = DecimalLen(v)
  BY DEF Logger!DecimalLen, DecimalLen

\* Both take a reading into a window that is not full yet.
LEMMA BothFill ==
    ASSUME TwinsInv, IndInv, NEW temp \in Readings, FillWindow(temp),
           Logger!FillWindow(temp) \/ Logger!Record(temp) \/ Logger!Hang(temp)
    PROVE  TwinsInv'
<1>1. /\ pc = "read" /\ pc' = "check" /\ Len(tempList) < Window - 1 /\ Len(tempList) \in Nat
      /\ tempList' = Append(tempList, temp) /\ num' = num
      /\ <<buffer, used, counter, posted>>' = <<buffer, used, counter, posted>>
  BY DEF FillWindow, IndInv, TypeOK
<1>2. SameText /\ num = 0 /\ printed = posted
  BY <1>1 DEF TwinsInv
<1>3. Logger!FillWindow(temp)
  BY <1>1, <1>2 DEF SameText, Logger!Record, Logger!Hang
<1> QED
  BY <1>1, <1>2, <1>3 DEF Logger!FillWindow, TwinsInv, SameText

\* The reading completes the window: the node begins to count the bits of the
\* average, the logger finishes the record or hangs.
LEMMA BothAverage ==
    ASSUME TwinsInv, IndInv, NEW temp \in Readings, Smooth(temp),
           Logger!FillWindow(temp) \/ Logger!Record(temp) \/ Logger!Hang(temp)
    PROVE  TwinsInv'
<1>1. /\ pc = "read" /\ pc' = "parity" /\ Len(tempList) >= Window - 1 /\ Len(tempList) \in Nat
      /\ tempList' = Append(tempList, temp) /\ num' = RoundedAvg(tempList')
      /\ used' = used + DecimalLen(num') + 1 /\ used \in Nat
      /\ buffer' = Append(buffer, num') /\ buffer \in Seq(Int16) /\ Len(buffer) = 2 * counter
      /\ counter' = counter /\ posted' = posted /\ counter \in Nat
  BY DEF Smooth, IndInv, TypeOK, RoomUsed
<1>2. SameText /\ printed = posted
  BY <1>1 DEF TwinsInv
<1>3. PICK avg \in Int16 : avg = num'
  BY <1>1, RoundedAvgType
<1>4. Logger!RoundedAvg(Append(logTempList, temp)) = avg
  BY <1>1, <1>2, <1>3, SameAverage DEF SameText
<1>5. DecimalLen(avg) \in 1..6 /\ Logger!DecimalLen(avg) = DecimalLen(avg)
  BY DecimalLenBounds, SameLength
<1>6. PICK width \in 1..6 : width = DecimalLen(avg)
  BY <1>5
<1>7. buffer'[2 * counter' + 1] = avg
  BY <1>1, <1>3
<1>8. CASE Logger!FillWindow(temp)
  BY <1>1, <1>2, <1>8 DEF SameText, Logger!FillWindow
<1>9. CASE Logger!Record(temp)
  <2>1. /\ avg >= 0 /\ logPc' = "check" /\ printed' = printed
        /\ logBuffer' = logBuffer \o <<avg, Logger!Codec!calculate_odd_parity(avg)>>
        /\ logUsed' = logUsed + width + 3
        /\ logTempList' = Tail(Append(logTempList, temp))
        /\ logCounter' = logCounter + 1
    BY <1>4, <1>5, <1>6, <1>9 DEF Logger!Record
  <2>2. PICK bit \in Int16 : bit = Logger!Codec!calculate_odd_parity(avg)
    BY DEF Logger!Codec!calculate_odd_parity, Int16
  <2>3. logBuffer' = Append(buffer', bit)
    BY <1>1, <1>2, <1>3, <2>1, <2>2, AppendTwice DEF SameText
  <2>4. /\ logTempList' = Tail(tempList') /\ logCounter' = counter' + 1
        /\ logUsed' = used' + 2
    BY <1>1, <1>2, <1>3, <1>6, <2>1 DEF SameText
  <2>5. avg \in NotNegative
    BY <2>1 DEF NotNegative, Int16
  <2>6. Ahead'
    BY <1>7, <2>1, <2>2, <2>3, <2>4, <2>5 DEF Ahead
  <2>7. num' >= 0 /\ ~(num' < 0)
    BY <1>3, <2>1 DEF Int16
  <2> QED
    BY <1>1, <1>2, <2>1, <2>6, <2>7 DEF TwinsInv
<1>10. CASE Logger!Hang(temp)
  <2>1. /\ avg < 0 /\ logPc' = "hung" /\ printed' = printed
        /\ logBuffer' = Append(logBuffer, avg)
        /\ logUsed' = logUsed + width + 1
        /\ logTempList' = Append(logTempList, temp)
        /\ logCounter' = logCounter
    BY <1>4, <1>5, <1>6, <1>10 DEF Logger!Hang
  <2>2. SameText'
    <3>1. logUsed' = used'
      BY <1>1, <1>2, <1>3, <1>6, <2>1 DEF SameText
    <3>2. logTempList' = tempList' /\ logBuffer' = buffer' /\ logCounter' = counter'
      BY <1>1, <1>2, <1>3, <2>1 DEF SameText
    <3> QED
      BY <3>1, <3>2 DEF SameText
  <2>3. num' < 0 /\ ~(num' >= 0)
    BY <1>3, <2>1 DEF Int16
  <2> QED
    BY <1>1, <1>2, <2>1, <2>2, <2>3 DEF TwinsInv
<1> QED
  BY <1>8, <1>9, <1>10

\* A turn of the node's parity loop leaves it as far behind as it was.
LEMMA TwinsParityStep ==
    ASSUME TwinsInv, IndInv, ParityStep, UNCHANGED loggerVars
    PROVE  TwinsInv'
<1>1. /\ pc = "parity" /\ pc' = pc /\ num' = num \div 2 /\ num \in Int
      /\ <<tempList, buffer, used, counter, posted>>' = <<tempList, buffer, used, counter, posted>>
      /\ <<logPc, logTempList, logBuffer, logUsed, logCounter, printed>>'
            = <<logPc, logTempList, logBuffer, logUsed, logCounter, printed>>
  BY DEF ParityStep, IndInv, TypeOK, Int16, loggerVars
<1>2. (num' < 0 <=> num < 0) /\ (num' >= 0 <=> num >= 0)
  BY <1>1
<1>3. SameText' <=> SameText
  BY <1>1 DEF SameText
<1>4. Ahead' <=> Ahead
  BY <1>1 DEF Ahead, Logger!Codec!calculate_odd_parity, Logger!Codec!Ones, Logger!Codec!Cardinality
<1> QED
  BY <1>1, <1>2, <1>3, <1>4 DEF TwinsInv

\* When the node has counted all bits it prints the bit that the logger printed.
LEMMA TwinsFinishRecord ==
    ASSUME TwinsInv, IndInv, ParityInv, FinishRecord, UNCHANGED loggerVars
    PROVE  TwinsInv'
<1>1. /\ pc = "parity" /\ pc' = "check" /\ num = 0 /\ num' = num /\ used' = used + 2
      /\ tempList' = Tail(tempList) /\ buffer' = Append(buffer, 1 - ones)
      /\ counter' = counter + 1 /\ posted' = posted /\ ones \in {0, 1}
      /\ <<logPc, logTempList, logBuffer, logUsed, logCounter, printed>>'
            = <<logPc, logTempList, logBuffer, logUsed, logCounter, printed>>
  BY DEF FinishRecord, IndInv, TypeOK, loggerVars
<1>2. Ahead /\ printed = posted
  BY <1>1 DEF TwinsInv
<1>3. Logger!Codec!calculate_odd_parity(buffer[2 * counter + 1]) = 1 - ones
  <2>1. PICK avg \in NotNegative : avg = buffer[2 * counter + 1]
    BY <1>2 DEF Ahead
  <2>2. avg \in Int
    BY DEF NotNegative, Int16
  <2>3. PICK bits \in Int : bits = BitCount(avg)
    BY <2>2, BitCountType
  <2>4. Logger!Codec!Ones(avg) = bits
    BY <2>3, SameBits
  <2>5. (ones + 0) % 2 = bits % 2
    <3>1. num >= 0 /\ BitCount(num) = 0
      BY <1>1, BitsOfZero
    <3>2. (ones + BitCount(num)) % 2 = BitCount(buffer[2 * counter + 1]) % 2
      BY <1>1, <3>1 DEF ParityInv, BitsLeft
    <3> QED
      BY <2>1, <2>3, <3>1, <3>2, Zenon
  <2>6. (IF bits % 2 = 0 THEN 1 ELSE 0) = 1 - ones
    <3>1. ones \in {0, 1}
      BY <1>1
    <3> QED
      BY <2>5, <3>1
  <2> QED
    BY <2>1, <2>4, <2>6 DEF Logger!Codec!calculate_odd_parity
<1>4. SameText'
  BY <1>1, <1>2, <1>3 DEF Ahead, SameText
<1> QED
  BY <1>1, <1>2, <1>4 DEF Ahead, TwinsInv

\* Every step of the two programs keeps them together.
LEMMA TwinsNextInv ==
    TwinsInv /\ IndInv /\ ParityInv /\ [TwinsNext]_twinVars => TwinsInv'
<1> SUFFICES ASSUME TwinsInv, IndInv, ParityInv, [TwinsNext]_twinVars PROVE TwinsInv'
  OBVIOUS
<1>1. CASE BothReset
  BY <1>1 DEF BothReset, TempSensorReset, Logger!TempSensorReset, TwinsInv, SameText
<1>2. CASE BothFail
  BY <1>2 DEF BothFail, ReadFails, Logger!ReadFails, TwinsInv, SameText
<1>3. CASE BothRead
  BY <1>3, BothFill, BothAverage DEF BothRead
<1>4. CASE ParityStep /\ UNCHANGED loggerVars
  BY <1>4, TwinsParityStep
<1>5. CASE FinishRecord /\ UNCHANGED loggerVars
  BY <1>5, TwinsFinishRecord
<1>6. CASE CheckBatch /\ pc' = "post" /\ UNCHANGED loggerVars
  BY <1>6 DEF CheckBatch, loggerVars, TwinsInv, SameText
<1>7. CASE BothTurn
  BY <1>7 DEF BothTurn, CheckBatch, Logger!NextTurn, TwinsInv, SameText
<1>8. CASE BothReport
  BY <1>8 DEF BothReport, Post, Logger!Flush, TwinsInv, SameText
<1>9. CASE UNCHANGED twinVars
  <2>1. UNCHANGED vars /\ UNCHANGED loggerVars
    BY <1>9 DEF twinVars
  <2> QED
    BY <2>1 DEF vars, loggerVars, TwinsInv, SameText, Ahead,
                Logger!Codec!calculate_odd_parity, Logger!Codec!Ones, Logger!Codec!Cardinality
<1> QED
  BY <1>1, <1>2, <1>3, <1>4, <1>5, <1>6, <1>7, <1>8, <1>9 DEF TwinsNext, NodeAlone

\* A step of the two is one of the node.
LEMMA TwinsNodeStep == [TwinsNext]_twinVars => [Next]_vars
  BY DEF TwinsNext, twinVars, BothReset, BothFail, BothRead, NodeAlone, BothTurn, BothReport,
         Next, TakeReading

\* Whatever the readings and failures, the two copies of the loop compute the
\* same windows, texts and batches, and stop at the same average.
THEOREM CopiesAgree == TwinsSpec => []TwinsAgree
<1>1. TwinsInit => Init
  BY DEF TwinsInit
<1>2. TwinsInv => TwinsAgree
  BY DEF TwinsInv, TwinsAgree, SameText
<1> QED
  BY <1>1, <1>2, InitIndInv, NextIndInv, InitParity, NextParity, TwinsInitInv, TwinsNextInv,
     TwinsNodeStep, PTL DEF TwinsSpec

-----------------------------------------------------------------------------
(* Concatenations.                                                         *)

\* flat[i] is the concatenation of the first i pieces.
IsFlat(flat, pieces, n) ==
    flat = [i \in 1..n |-> IF i = 1 THEN pieces[i] ELSE flat[i - 1] \o pieces[i]]

\* The recursion of FlattenSeq() is well founded.
LEMMA FlatExists ==
    ASSUME NEW pieces, NEW n \in Nat
    PROVE  \E flat : IsFlat(flat, pieces, n)
<1> DEFINE Step(flat, i) == IF i = 1 THEN pieces[i] ELSE flat[i - 1] \o pieces[i]
           Works(k) == \E flat : flat = [i \in 1..k |-> Step(flat, i)]
           Bad == {k \in Nat : ~Works(k)}
<1>1. Works(0)
  <2> DEFINE none == [i \in 1..0 |-> 0]
  <2>1. none = [i \in 1..0 |-> Step(none, i)]
    <3> HIDE DEF Step
    <3> QED OBVIOUS
  <2> QED
    BY <2>1
<1>2. ASSUME NEW k \in Nat, Works(k) PROVE Works(k + 1)
  <2>1. PICK old : old = [i \in 1..k |-> Step(old, i)]
    BY <1>2
  <2> DEFINE new == [i \in 1..(k + 1) |-> Step(old, i)]
  <2>2. ASSUME NEW i \in 1..(k + 1) PROVE Step(old, i) = Step(new, i)
    <3>1. CASE i = 1
      BY <3>1
    <3>2. CASE i # 1
      <4>1. i - 1 \in 1..k /\ i - 1 \in 1..(k + 1)
        BY <3>2
      <4>2. new[i - 1] = Step(old, i - 1)
        BY <4>1
      <4>3. old[i - 1] = Step(old, i - 1)
        <5> HIDE DEF Step
        <5> QED BY <2>1, <4>1
      <4> QED
        BY <3>2, <4>2, <4>3
    <3> QED
      BY <3>1, <3>2
  <2>3. new = [i \in 1..(k + 1) |-> Step(new, i)]
    <3> HIDE DEF Step
    <3> QED BY <2>2
  <2> QED
    BY <2>3
<1> HIDE DEF Works
<1>3. Bad = {}
  <2> SUFFICES ASSUME Bad # {} PROVE FALSE
    OBVIOUS
  <2>1. PICK k \in Bad : \A j \in Bad : k <= j
    BY Least
  <2>2. k # 0 /\ k - 1 \in Nat /\ k - 1 \notin Bad /\ (k - 1) + 1 = k
    BY <1>1, <2>1
  <2>3. Works(k - 1)
    BY <2>2
  <2>4. Works((k - 1) + 1)
    BY <1>2, <2>2, <2>3
  <2> QED
    BY <2>2, <2>4
<1>4. Works(n)
  BY <1>3
<1> QED
  BY <1>4 DEF Works, IsFlat

\* What FlattenSeq() returns is the last of these concatenations.
LEMMA FlattenUnfolds ==
    ASSUME NEW pieces, NEW n \in Nat \ {0}, Len(pieces) = n
    PROVE  \E flat : IsFlat(flat, pieces, n) /\ Codec!FlattenSeq(pieces) = flat[n]
<1> DEFINE flat == CHOOSE flat : IsFlat(flat, pieces, n)
<1>1. IsFlat(flat, pieces, n)
  BY FlatExists
<1>2. Codec!FlattenSeq(pieces) = flat[n]
  BY DEF Codec!FlattenSeq, IsFlat
<1> QED
  BY <1>1, <1>2

\* The parts of a concatenation are where one expects them.
LEMMA PartsOf ==
    ASSUME NEW S, NEW s \in Seq(S), NEW t \in Seq(S), NEW whole, whole = s \o t
    PROVE  /\ whole \in Seq(S) /\ Len(whole) = Len(s) + Len(t)
           /\ \A j \in 1..Len(s) : whole[j] = s[j]
           /\ \A j \in 1..Len(t) : whole[Len(s) + j] = t[j]
  OBVIOUS

\* What holds of nothing, and is kept when a piece is added, holds of each of
\* the concatenations; G has it as a set of numbers of pieces and sequences.
LEMMA FlatInduction ==
    ASSUME NEW S, NEW pieces, NEW n \in Nat, NEW flat, IsFlat(flat, pieces, n),
           \A i \in 1..n : pieces[i] \in Seq(S),
           NEW G, <<0, << >>>> \in G,
           \A i \in 1..n : \A s \in Seq(S) : <<i - 1, s>> \in G => <<i, s \o pieces[i]>> \in G
    PROVE  \A i \in 1..n : flat[i] \in Seq(S) /\ <<i, flat[i]>> \in G
<1> DEFINE Bad == {i \in 1..n : ~(flat[i] \in Seq(S) /\ <<i, flat[i]>> \in G)}
<1> HIDE DEF Bad
<1>1. ASSUME Bad # {} PROVE FALSE
  <2>1. Bad \in SUBSET Nat
    BY DEF Bad
  <2>2. PICK i \in Bad : \A j \in Bad : i <= j
    BY <1>1, <2>1, Least, Zenon
  <2>3. i \in 1..n /\ ~(flat[i] \in Seq(S) /\ <<i, flat[i]>> \in G)
    BY <2>2 DEF Bad
  <2>4. flat[i] = IF i = 1 THEN pieces[i] ELSE flat[i - 1] \o pieces[i]
    BY <2>3 DEF IsFlat
  <2>5. \E before \in Seq(S) : <<i - 1, before>> \in G /\ flat[i] = before \o pieces[i]
    <3>1. CASE i = 1
      <4>1. << >> \o pieces[i] = pieces[i]
        BY <2>3, ConcatEmptySeq
      <4>2. i - 1 = 0
        BY <3>1
      <4>3. << >> \in Seq(S)
        OBVIOUS
      <4>4. <<i - 1, << >>>> \in G
        BY <4>2
      <4>5. flat[i] = << >> \o pieces[i]
        BY <2>4, <3>1, <4>1
      <4> QED
        BY <4>3, <4>4, <4>5, Zenon
    <3>2. CASE i # 1
      <4>1. i - 1 \in 1..n /\ ~(i <= i - 1)
        BY <2>3, <3>2
      <4>2. i - 1 \notin Bad
        BY <2>2, <4>1
      <4> QED
        BY <2>4, <3>2, <4>1, <4>2 DEF Bad
    <3> QED
      BY <3>1, <3>2
  <2>6. flat[i] \in Seq(S) /\ <<i, flat[i]>> \in G
    BY <2>3, <2>5, PartsOf
  <2> QED
    BY <2>3, <2>6
<1> QED
  BY <1>1 DEF Bad

\* The pieces up to the i-th that are not empty.
NotEmpty(pieces, i) == {j \in 1..i : Len(pieces[j]) = 1}

\* Each of them is found at the place that counts it and those before it.
Gathered(s, pieces, i) ==
    /\ Len(s) = Cardinality(NotEmpty(pieces, i))
    /\ \A k \in NotEmpty(pieces, i) : s[Cardinality(NotEmpty(pieces, k))] = pieces[k][1]

\* These sets are finite and grow.
LEMMA NotEmptyGrows ==
    ASSUME NEW pieces, NEW i \in Nat
    PROVE  /\ IsFiniteSet(NotEmpty(pieces, i)) /\ Cardinality(NotEmpty(pieces, i)) \in Nat
           /\ \A k \in NotEmpty(pieces, i) :
                 Cardinality(NotEmpty(pieces, k)) \in 1..Cardinality(NotEmpty(pieces, i))
<1>1. ASSUME NEW j \in Nat
      PROVE  IsFiniteSet(NotEmpty(pieces, j)) /\ Cardinality(NotEmpty(pieces, j)) \in Nat
  <2>1. IsFiniteSet(1..j) /\ NotEmpty(pieces, j) \in SUBSET (1..j)
    BY FS_Interval DEF NotEmpty
  <2> QED
    BY <2>1, FS_Subset, FS_CardinalityType
<1>2. ASSUME NEW k \in NotEmpty(pieces, i)
      PROVE  Cardinality(NotEmpty(pieces, k)) \in 1..Cardinality(NotEmpty(pieces, i))
  <2>1. k \in Nat /\ k \in NotEmpty(pieces, k)
    BY DEF NotEmpty
  <2>2. NotEmpty(pieces, k) \in SUBSET NotEmpty(pieces, i)
    BY DEF NotEmpty
  <2>3. Cardinality(NotEmpty(pieces, k)) <= Cardinality(NotEmpty(pieces, i))
    BY <1>1, <2>2, FS_Subset
  <2>4. Cardinality(NotEmpty(pieces, k)) # 0
    BY <1>1, <2>1, FS_EmptySet
  <2>5. PICK c \in Nat, d \in Nat :
            c = Cardinality(NotEmpty(pieces, k)) /\ d = Cardinality(NotEmpty(pieces, i))
    BY <1>1, <2>1
  <2> QED
    BY <2>3, <2>4, <2>5
<1> QED
  BY <1>1, <1>2

\* A piece of at most one element joins those that are gathered.
LEMMA GatherOne ==
    ASSUME NEW S, NEW pieces, NEW i \in Nat \ {0}, NEW s \in Seq(S),
           pieces[i] \in Seq(S), Len(pieces[i]) <= 1, Gathered(s, pieces, i - 1)
    PROVE  Gathered(s \o pieces[i], pieces, i)
<1> DEFINE t == pieces[i]
           u == s \o t
<1>1. t \in Seq(S) /\ Len(t) \in Nat /\ (Len(t) = 1 \/ Len(t) = 0)
  <2>1. t \in Seq(S) /\ Len(t) \in Nat /\ Len(t) <= 1
    OBVIOUS
  <2> HIDE DEF t
  <2>2. PICK size \in Nat : size = Len(t)
    BY <2>1
  <2>3. size <= 1
    BY <2>1, <2>2
  <2>4. size = 1 \/ size = 0
    BY <2>3
  <2> QED
    BY <2>1, <2>2, <2>4
<1>2. /\ u \in Seq(S) /\ Len(u) = Len(s) + Len(t)
      /\ \A j \in 1..Len(s) : u[j] = s[j]
      /\ \A j \in 1..Len(t) : u[Len(s) + j] = t[j]
  BY <1>1, PartsOf
<1>3. /\ i - 1 \in Nat /\ i \notin NotEmpty(pieces, i - 1)
      /\ IsFiniteSet(NotEmpty(pieces, i - 1)) /\ Cardinality(NotEmpty(pieces, i - 1)) \in Nat
  BY NotEmptyGrows DEF NotEmpty
<1>4. \A k \in NotEmpty(pieces, i - 1) : u[Cardinality(NotEmpty(pieces, k))] = pieces[k][1]
  BY <1>2, <1>3, NotEmptyGrows DEF Gathered
<1> HIDE DEF u
<1>5. CASE Len(t) = 1
  <2>1. NotEmpty(pieces, i) = NotEmpty(pieces, i - 1) \union {i}
    BY <1>5 DEF NotEmpty
  <2>2. Cardinality(NotEmpty(pieces, i)) = Cardinality(NotEmpty(pieces, i - 1)) + 1
    BY <1>3, <2>1, FS_AddElement
  <2>3. Len(s) = Cardinality(NotEmpty(pieces, i - 1))
    BY DEF Gathered
  <2>4. Len(u) = Cardinality(NotEmpty(pieces, i))
    BY <1>2, <1>5, <2>2, <2>3
  <2>5. u[Cardinality(NotEmpty(pieces, i))] = t[1]
    BY <1>2, <1>5, <2>2, <2>3
  <2> QED
    BY <1>4, <2>1, <2>4, <2>5 DEF Gathered, u
<1>6. CASE Len(t) # 1
  <2>1. NotEmpty(pieces, i) = NotEmpty(pieces, i - 1)
    BY <1>6 DEF NotEmpty
  <2>2. Len(t) = 0
    BY <1>1, <1>6
  <2>3. Len(s) = Cardinality(NotEmpty(pieces, i - 1)) /\ Len(s) \in Nat
    BY DEF Gathered
  <2>4. Len(u) = Cardinality(NotEmpty(pieces, i))
    BY <1>2, <2>1, <2>2, <2>3
  <2> QED
    BY <1>4, <2>1, <2>4 DEF Gathered, u
<1> QED
  BY <1>5, <1>6

\* So FlattenSeq() gathers pieces of at most one element.
LEMMA FlattenFew ==
    ASSUME NEW S, NEW pieces, NEW n \in Nat \ {0}, Len(pieces) = n,
           \A i \in 1..n : pieces[i] \in Seq(S) /\ Len(pieces[i]) <= 1
    PROVE  Codec!FlattenSeq(pieces) \in Seq(S) /\ Gathered(Codec!FlattenSeq(pieces), pieces, n)
<1> DEFINE G == {p \in Nat \X Seq(S) : Gathered(p[2], pieces, p[1])}
<1>1. PICK flat : IsFlat(flat, pieces, n) /\ Codec!FlattenSeq(pieces) = flat[n]
  BY FlattenUnfolds
<1>2. <<0, << >>>> \in G
  <2>1. NotEmpty(pieces, 0) = {}
    BY DEF NotEmpty
  <2>2. Len(<< >>) = Cardinality(NotEmpty(pieces, 0))
    BY <2>1, FS_EmptySet
  <2>3. Gathered(<< >>, pieces, 0)
    BY <2>1, <2>2 DEF Gathered
  <2>4. << >> \in Seq(S) /\ 0 \in Nat
    OBVIOUS
  <2>5. <<0, << >>>> \in Nat \X Seq(S)
    BY <2>4
  <2> QED
    BY <2>3, <2>5
<1>3. ASSUME NEW i \in 1..n, NEW s \in Seq(S), <<i - 1, s>> \in G
      PROVE  <<i, s \o pieces[i]>> \in G
  <2>1. Gathered(s, pieces, i - 1)
    BY <1>3
  <2>2. i \in Nat \ {0} /\ pieces[i] \in Seq(S) /\ Len(pieces[i]) <= 1
    OBVIOUS
  <2> HIDE DEF G
  <2>3. Gathered(s \o pieces[i], pieces, i)
    BY <2>1, <2>2, GatherOne, Zenon
  <2>4. s \o pieces[i] \in Seq(S)
    BY <2>2
  <2>5. <<i, s \o pieces[i]>> \in Nat \X Seq(S)
    BY <2>2, <2>4
  <2> USE DEF G
  <2> QED
    BY <2>3, <2>5
<1>4. n \in 1..n /\ n \in Nat
  OBVIOUS
<1>5. flat[n] \in Seq(S) /\ <<n, flat[n]>> \in G
  <2> HIDE DEF G
  <2>1. \A i \in 1..n : pieces[i] \in Seq(S)
    OBVIOUS
  <2> QED
    BY <1>1, <1>2, <1>3, <1>4, <2>1, FlatInduction
<1> QED
  BY <1>1, <1>5

\* The pairs up to the i-th, one after the other.
Paired(s, pieces, i) ==
    /\ Len(s) = 2 * i
    /\ \A k \in 1..i : s[2 * k - 1] = pieces[k][1] /\ s[2 * k] = pieces[k][2]

\* One pair more.
LEMMA PairOne ==
    ASSUME NEW S, NEW pieces, NEW i \in Nat \ {0}, NEW s \in Seq(S),
           pieces[i] \in Seq(S), Len(pieces[i]) = 2, Paired(s, pieces, i - 1)
    PROVE  Paired(s \o pieces[i], pieces, i)
<1> DEFINE t == pieces[i]
           u == s \o t
<1>1. t \in Seq(S) /\ Len(t) = 2 /\ Len(s) = 2 * (i - 1)
  BY DEF Paired
<1>2. /\ u \in Seq(S) /\ Len(u) = Len(s) + Len(t)
      /\ \A j \in 1..Len(s) : u[j] = s[j]
      /\ \A j \in 1..Len(t) : u[Len(s) + j] = t[j]
  <2>1. t \in Seq(S) /\ u = s \o t
    BY <1>1
  <2> HIDE DEF t, u
  <2> QED
    BY <2>1, PartsOf
<1> HIDE DEF u
<1>3. Len(u) = 2 * i
  BY <1>1, <1>2
<1>4. ASSUME NEW k \in 1..(i - 1)
      PROVE  u[2 * k - 1] = pieces[k][1] /\ u[2 * k] = pieces[k][2]
  <2>1. 2 * k - 1 \in 1..Len(s) /\ 2 * k \in 1..Len(s)
    BY <1>1
  <2> QED
    BY <1>2, <2>1 DEF Paired
<1>5. u[2 * i - 1] = t[1] /\ u[2 * i] = t[2]
  <2>1. 1 \in 1..Len(t) /\ 2 \in 1..Len(t) /\ Len(s) + 1 = 2 * i - 1 /\ Len(s) + 2 = 2 * i
    BY <1>1
  <2> QED
    BY <1>2, <2>1
<1>6. \A k \in 1..i : k \in 1..(i - 1) \/ k = i
  OBVIOUS
<1> QED
  BY <1>3, <1>4, <1>5, <1>6 DEF Paired, u

\* So FlattenSeq() lines up pairs.
LEMMA FlattenPairs ==
    ASSUME NEW S, NEW pieces, NEW n \in Nat \ {0}, Len(pieces) = n,
           \A i \in 1..n : pieces[i] \in Seq(S) /\ Len(pieces[i]) = 2
    PROVE  Codec!FlattenSeq(pieces) \in Seq(S) /\ Paired(Codec!FlattenSeq(pieces), pieces, n)
<1> DEFINE G == {p \in Nat \X Seq(S) : Paired(p[2], pieces, p[1])}
<1>1. PICK flat : IsFlat(flat, pieces, n) /\ Codec!FlattenSeq(pieces) = flat[n]
  BY FlattenUnfolds
<1>2. <<0, << >>>> \in G
  <2>1. Paired(<< >>, pieces, 0)
    BY DEF Paired
  <2>2. << >> \in Seq(S) /\ 0 \in Nat
    OBVIOUS
  <2>3. <<0, << >>>> \in Nat \X Seq(S)
    BY <2>2
  <2> QED
    BY <2>1, <2>3
<1>3. ASSUME NEW i \in 1..n, NEW s \in Seq(S), <<i - 1, s>> \in G
      PROVE  <<i, s \o pieces[i]>> \in G
  <2>1. Paired(s, pieces, i - 1)
    BY <1>3
  <2>2. i \in Nat \ {0} /\ pieces[i] \in Seq(S) /\ Len(pieces[i]) = 2
    OBVIOUS
  <2> HIDE DEF G
  <2>3. Paired(s \o pieces[i], pieces, i)
    BY <2>1, <2>2, PairOne, Zenon
  <2>4. s \o pieces[i] \in Seq(S)
    BY <2>2
  <2>5. <<i, s \o pieces[i]>> \in Nat \X Seq(S)
    BY <2>2, <2>4
  <2> USE DEF G
  <2> QED
    BY <2>3, <2>5
<1>4. n \in 1..n /\ n \in Nat
  OBVIOUS
<1>5. flat[n] \in Seq(S) /\ <<n, flat[n]>> \in G
  <2> HIDE DEF G
  <2>1. \A i \in 1..n : pieces[i] \in Seq(S)
    OBVIOUS
  <2> QED
    BY <1>1, <1>2, <1>3, <1>4, <2>1, FlatInduction
<1> QED
  BY <1>1, <1>5

-----------------------------------------------------------------------------
(* What the server decodes.                                                *)

\* A message in which every value stands with the bit that belongs to it.
Intact(m) ==
    /\ m \in Seq(Int16) /\ Len(m) = 2 * Batch
    /\ \A n \in 1..Batch :
          /\ m[2 * n - 1] \in NotNegative /\ m[2 * n] \in {0, 1}
          /\ (BitCount(m[2 * n - 1]) + m[2 * n]) % 2 = 1

\* The server's check accepts such a pair.
LEMMA IntactPair ==
    ASSUME NEW m, Intact(m), NEW n \in 1..Batch
    PROVE  Codec!DecodedPair(m, n) = <<m[2 * n - 1]>>
<1>1. PICK value \in NotNegative : value = m[2 * n - 1]
  BY DEF Intact
<1>2. PICK bit \in {0, 1} : bit = m[2 * n]
  BY DEF Intact
<1>3. (BitCount(value) + bit) % 2 = 1
  BY <1>1, <1>2 DEF Intact
<1>4. Codec!Ones(value) = BitCount(value)
  <2>1. Codec!Ones(value) = Logger!Codec!Ones(value)
    BY DEF Codec!Ones, Logger!Codec!Ones, Codec!Cardinality, Logger!Codec!Cardinality
  <2> QED
    BY <2>1, SameBits
<1>5. ~(value < 0)
  BY DEF NotNegative, Int16
<1>6. Codec!parityCheck(value, bit)
  BY <1>3, <1>4, <1>5 DEF Codec!parityCheck
<1> QED
  BY <1>1, <1>2, <1>6 DEF Codec!DecodedPair

\* So it decodes the values of the message.
LEMMA IntactDecoded ==
    ASSUME NEW m, Intact(m)
    PROVE  Codec!decodeTemperature(m) = [n \in 1..Batch |-> m[2 * n - 1]]
<1> DEFINE pieces == [k \in 1..(Len(m) \div 2) |-> Codec!DecodedPair(m, k)]
           flat == Codec!FlattenSeq(pieces)
<1>1. Codec!decodeTemperature(m) = flat
  BY DEF Codec!decodeTemperature
<1>2. Len(m) \div 2 = Batch
  BY DEF Intact
<1>3. \A k \in 1..Batch : m[2 * k - 1] \in Int16
  BY DEF Intact, NotNegative
<1>4. pieces = [k \in 1..Batch |-> <<m[2 * k - 1]>>]
  BY <1>2, IntactPair
<1> HIDE DEF pieces, flat
<1>5. Len(pieces) = Batch
  BY <1>4
<1>6. \A k \in 1..Batch :
          pieces[k] \in Seq(Int16) /\ Len(pieces[k]) = 1 /\ pieces[k][1] = m[2 * k - 1]
  BY <1>3, <1>4
<1>7. \A k \in 1..Batch : pieces[k] \in Seq(Int16) /\ Len(pieces[k]) <= 1
  <2> SUFFICES ASSUME NEW k \in 1..Batch PROVE pieces[k] \in Seq(Int16) /\ Len(pieces[k]) <= 1
    OBVIOUS
  <2>1. pieces[k] \in Seq(Int16) /\ Len(pieces[k]) = 1
    BY <1>6
  <2>2. PICK size \in Int : size = 1
    OBVIOUS
  <2> QED
    BY <2>1
<1>8. flat \in Seq(Int16) /\ Gathered(flat, pieces, Batch)
  BY <1>5, <1>7, FlattenFew, Zenon DEF flat
<1>9. \A k \in 1..Batch : NotEmpty(pieces, k) = 1..k
  BY <1>6 DEF NotEmpty
<1>10. \A k \in 1..Batch : Cardinality(NotEmpty(pieces, k)) = k
  BY <1>9, FS_Interval
<1>11. Batch \in 1..Batch
  OBVIOUS
<1>12. Len(flat) = Batch
  BY <1>8, <1>10, <1>11 DEF Gathered
<1>13. \A k \in 1..Batch : flat[k] = m[2 * k - 1]
  BY <1>6, <1>8, <1>9, <1>10, <1>11 DEF Gathered
<1>14. flat = [k \in 1..Batch |-> m[2 * k - 1]]
  BY <1>8, <1>12, <1>13
<1> QED
  BY <1>1, <1>14

-----------------------------------------------------------------------------
(* Only numbers that are not negative, and bits, stand in finished records. *)
Printed ==
    /\ \A k \in 1..counter : buffer[2 * k - 1] \in NotNegative /\ buffer[2 * k] \in {0, 1}
    /\ (pc = "parity" /\ num >= 0) => buffer[2 * counter + 1] \in NotNegative

\* Records are finished one by one: the buffer's older part stays.
LEMMA PrintedStays ==
    ASSUME NEW value \in Int16, buffer \in Seq(Int16), counter \in Nat,
           Len(buffer) >= 2 * counter, buffer' = Append(buffer, value), Printed
    PROVE  \A k \in 1..counter : buffer'[2 * k - 1] \in NotNegative /\ buffer'[2 * k] \in {0, 1}
<1> TAKE k \in 1..counter
<1>1. 2 * k - 1 \in 1..Len(buffer) /\ 2 * k \in 1..Len(buffer)
  OBVIOUS
<1>2. buffer'[2 * k - 1] = buffer[2 * k - 1] /\ buffer'[2 * k] = buffer[2 * k]
  BY <1>1
<1> QED
  BY <1>2 DEF Printed

\* Every step of the node keeps this.
LEMMA NextPrinted ==
    ASSUME IndInv, Printed, [Next]_vars
    PROVE  Printed'
<1>1. CASE TempSensorReset \/ ReadFails \/ CheckBatch
  BY <1>1 DEF TempSensorReset, ReadFails, CheckBatch, Printed
<1>2. ASSUME NEW temp \in Readings, FillWindow(temp) PROVE Printed'
  BY <1>2 DEF FillWindow, Printed
<1>3. ASSUME NEW temp \in Readings, Smooth(temp) PROVE Printed'
  <2>1. /\ counter' = counter /\ counter \in Nat /\ buffer \in Seq(Int16)
        /\ Len(buffer) = 2 * counter /\ num' \in Int16 /\ buffer' = Append(buffer, num')
    <3>1. num' \in Int16
      BY <1>3, RoundedAvgType DEF Smooth
    <3> QED
      BY <1>3, <3>1 DEF Smooth, IndInv, TypeOK, RoomUsed
  <2>2. PICK value \in Int16 : value = num'
    BY <2>1
  <2>3. \A k \in 1..counter : buffer'[2 * k - 1] \in NotNegative /\ buffer'[2 * k] \in {0, 1}
    BY <2>1, <2>2, PrintedStays
  <2>4. buffer'[2 * counter + 1] = value
    BY <2>1, <2>2
  <2>5. value >= 0 => value \in NotNegative
    BY DEF NotNegative
  <2> QED
    BY <2>1, <2>2, <2>3, <2>4, <2>5 DEF Printed
<1>4. CASE ParityStep
  <2>1. /\ num' = num \div 2 /\ pc = "parity" /\ counter' = counter /\ buffer' = buffer
        /\ num \in Int
    BY <1>4 DEF ParityStep, IndInv, TypeOK, Int16
  <2>2. num' >= 0 => num >= 0
    BY <2>1
  <2> QED
    BY <2>1, <2>2 DEF Printed
<1>5. CASE FinishRecord
  <2>1. /\ pc = "parity" /\ num = 0 /\ pc' = "check" /\ counter' = counter + 1
        /\ buffer' = Append(buffer, 1 - ones) /\ 1 - ones \in {0, 1}
        /\ counter \in Nat /\ buffer \in Seq(Int16) /\ Len(buffer) = 2 * counter + 1
    BY <1>5 DEF FinishRecord, IndInv, TypeOK, RoomUsed
  <2>2. PICK bit \in Int16 : bit = 1 - ones
    <3>1. 1 - ones \in Int16
      BY <2>1 DEF Int16
    <3> QED
      BY <3>1
  <2>3. \A k \in 1..counter : buffer'[2 * k - 1] \in NotNegative /\ buffer'[2 * k] \in {0, 1}
    BY <2>1, <2>2, PrintedStays
  <2>4. buffer'[2 * counter + 1] = buffer[2 * counter + 1] /\ buffer'[2 * counter + 2] = bit
    BY <2>1, <2>2
  <2>5. buffer'[2 * counter + 1] \in NotNegative /\ buffer'[2 * counter + 2] \in {0, 1}
    <3>1. num >= 0 /\ bit \in {0, 1}
      BY <2>1, <2>2
    <3>2. buffer[2 * counter + 1] \in NotNegative
      BY <2>1, <3>1 DEF Printed
    <3> QED
      BY <2>4, <3>1, <3>2
  <2>6. ASSUME NEW k \in 1..(counter + 1)
        PROVE  buffer'[2 * k - 1] \in NotNegative /\ buffer'[2 * k] \in {0, 1}
    <3>1. CASE k \in 1..counter
      BY <2>3, <3>1
    <3>2. CASE k = counter + 1
      <4>1. 2 * k - 1 = 2 * counter + 1 /\ 2 * k = 2 * counter + 2
        BY <2>1, <3>2
      <4> QED
        BY <2>5, <4>1
    <3> QED
      BY <2>1, <3>1, <3>2
  <2> QED
    BY <2>1, <2>6 DEF Printed
<1>6. CASE Post
  BY <1>6 DEF Post, Printed
<1>7. CASE UNCHANGED vars
  BY <1>7 DEF vars, Printed
<1> QED
  BY <1>1, <1>2, <1>3, <1>4, <1>5, <1>6, <1>7 DEF Next, TakeReading

\* So the buffer that is posted is intact.
LEMMA PostedIsIntact ==
    ASSUME IndInv, ParityInv, Printed, pc = "post"
    PROVE  Intact(buffer) /\ counter = Batch
<1>1. buffer \in Seq(Int16) /\ counter = Batch /\ Len(buffer) = 2 * Batch
  BY DEF IndInv, TypeOK, Progress, RoomUsed
<1>2. ASSUME NEW n \in 1..Batch
      PROVE  /\ buffer[2 * n - 1] \in NotNegative /\ buffer[2 * n] \in {0, 1}
             /\ (BitCount(buffer[2 * n - 1]) + buffer[2 * n]) % 2 = 1
  BY <1>1 DEF Printed, ParityInv, ParityIsOdd
<1> QED
  BY <1>1, <1>2 DEF Intact

-----------------------------------------------------------------------------
(* The payloads.                                                           *)

\* The readings in work are the latest of all.
ReadingsKept ==
    /\ readings \in Seq(Int16) /\ posts \in Nat
    /\ Len(readings) = posts * Batch + Len(history)
    /\ \A j \in 1..Len(history) : history[j] = readings[posts * Batch + j]

\* The b-th payload holds the averages of the b-th batch of windows.
PayloadIsRight(b) ==
    /\ Len(readings) >= b * Batch + Window - 1
    /\ Intact(payload[b])
    /\ \A n \in 1..Batch : payload[b][2 * n - 1] = Measured(b, n)

\* So does each that was posted.
PayloadsRight ==
    /\ DOMAIN payload = 1..MaxBatches /\ posts <= MaxBatches
    /\ \A b \in 1..posts : PayloadIsRight(b)

NodeInv == IndInv /\ ParityInv /\ Printed /\ ReadingsKept /\ PayloadsRight

\* The window that ends record n of batch b lies among the readings.
LEMMA WindowPlace ==
    ASSUME NEW b \in Nat, NEW n \in 1..Batch, NEW i \in 1..Window, b > 0
    PROVE  (b - 1) * Batch + n + i - 1 \in 1..(b * Batch + Window - 1)
<1>1. PICK before \in Nat : before = (b - 1) * Batch
  BY Z3
<1>2. b * Batch = before + Batch
  BY <1>1, Z3
<1> QED
  BY <1>1, <1>2

\* A measurement that is complete does not change when readings are added.
LEMMA MeasuredStays ==
    ASSUME readings \in Seq(Int16), NEW temp \in Int16, readings' = Append(readings, temp),
           NEW b \in Nat, b > 0, NEW n \in 1..Batch, Len(readings) >= b * Batch + Window - 1
    PROVE  Measured(b, n)' = Measured(b, n)
<1>1. PICK place \in Int : place = (b - 1) * Batch + n
  BY Z3
<1>2. ASSUME NEW i \in 1..Window PROVE readings'[place + i - 1] = readings[place + i - 1]
  <2>1. place + i - 1 \in 1..(b * Batch + Window - 1)
    BY <1>1, WindowPlace
  <2>2. PICK bound \in Int : bound = b * Batch + Window - 1
    BY Z3
  <2>3. place + i - 1 \in 1..Len(readings)
    BY <2>1, <2>2
  <2> QED
    BY <2>3
<1>3. WindowAt(readings', place) = WindowAt(readings, place)
  BY <1>2 DEF WindowAt
<1> QED
  BY <1>1, <1>3 DEF Measured, RoundedAvg

\* A reading.
LEMMA ReadsKeep ==
    ASSUME NodeInv, NodeReads
    PROVE  ReadingsKept' /\ PayloadsRight'
<1>1. PICK temp \in Readings :
          /\ FillWindow(temp) \/ Smooth(temp)
          /\ readings' = Append(readings, temp)
  BY DEF NodeReads
<1>2. /\ temp \in Int16 /\ history' = Append(history, temp) /\ history \in Seq(Int16)
      /\ posts' = posts /\ payload' = payload
      /\ readings \in Seq(Int16) /\ posts \in Nat
      /\ Len(readings) = posts * Batch + Len(history)
      /\ \A j \in 1..Len(history) : history[j] = readings[posts * Batch + j]
  BY <1>1, ReadingsAssumption
  DEF FillWindow, Smooth, NodeReads, uploadVars, NodeInv, IndInv, TypeOK, ReadingsKept
<1>3. ReadingsKept'
  <2>1. PICK skip \in Nat : skip = posts * Batch
    BY <1>2, Z3
  <2>2. EndsWith(Append(readings, temp), skip, Append(history, temp))
    <3>1. EndsWith(readings, skip, history)
      BY <1>2, <2>1 DEF EndsWith
    <3> QED
      BY <1>2, <3>1, AppendToBoth, Zenon
  <2>3. readings' \in Seq(Int16)
    BY <1>1, <1>2
  <2> QED
    BY <1>1, <1>2, <2>1, <2>2, <2>3 DEF ReadingsKept, EndsWith
<1>4. ASSUME NEW b \in 1..posts PROVE PayloadIsRight(b)'
  <2>1. PayloadIsRight(b) /\ b \in Nat /\ b > 0
    BY <1>2 DEF NodeInv, PayloadsRight
  <2>2. PICK bound \in Int : bound = b * Batch + Window - 1
    BY <2>1, Z3
  <2>3. Len(readings') = Len(readings) + 1
    BY <1>1, <1>2
  <2>4. Len(readings') >= bound
    BY <1>2, <2>1, <2>2, <2>3 DEF PayloadIsRight
  <2>5. \A n \in 1..Batch : Measured(b, n)' = Measured(b, n)
    BY <1>1, <1>2, <2>1, MeasuredStays DEF PayloadIsRight
  <2> QED
    BY <1>2, <2>1, <2>2, <2>4, <2>5 DEF PayloadIsRight, Intact, BitCount
<1> QED
  BY <1>2, <1>3, <1>4 DEF NodeInv, PayloadsRight

\* A payload is right again after a step that adds no reading.
LEMMA RightAgain ==
    ASSUME NEW b, NEW message, payload'[b] = message, readings' = readings, Intact(message),
           Len(readings) >= b * Batch + Window - 1,
           \A n \in 1..Batch : message[2 * n - 1] = Measured(b, n)
    PROVE  PayloadIsRight(b)'
<1>1. Intact(payload[b])'
  BY DEF Intact, BitCount
<1>2. \A n \in 1..Batch : Measured(b, n)' = Measured(b, n)
  BY DEF Measured, RoundedAvg, WindowAt
<1>3. \A n \in 1..Batch : (payload[b][2 * n - 1] = Measured(b, n))'
  BY <1>2
<1> QED
  BY <1>1, <1>3 DEF PayloadIsRight

\* A post: the batch's windows are those of the readings, and the next batch
\* goes on with the window that is left.
LEMMA PostsKeep ==
    ASSUME NodeInv, NodePosts
    PROVE  ReadingsKept' /\ PayloadsRight'
<1>1. /\ pc = "post" /\ history' = tempList /\ readings' = readings /\ posts' = posts + 1
      /\ payload' = [payload EXCEPT ![posts'] = buffer] /\ posts < MaxBatches
  BY DEF NodePosts, Post, Upload!PostSent, Upload!PostUnsent
<1>2. /\ readings \in Seq(Int16) /\ posts \in Nat
      /\ Len(readings) = posts * Batch + Len(history)
      /\ \A j \in 1..Len(history) : history[j] = readings[posts * Batch + j]
  BY DEF NodeInv, ReadingsKept
<1>3. Intact(buffer) /\ counter = Batch
  BY <1>1, PostedIsIntact DEF NodeInv
<1>4. /\ history \in Seq(Int16) /\ tempList \in Seq(Int16)
      /\ Len(history) = Batch + Len(tempList) /\ Len(tempList) = Window - 1
      /\ \A j \in 1..Len(tempList) : tempList[j] = history[Batch + j]
  <2>1. Len(tempList) \in Nat /\ Len(tempList) >= Window - 1 /\ Len(tempList) <= Window - 1
    BY <1>1, <1>3 DEF NodeInv, IndInv, TypeOK, Progress
  <2> QED
    BY <1>3, <2>1 DEF NodeInv, IndInv, TypeOK, LatestReadings
<1>5. PICK skip \in Nat : skip = posts * Batch
  BY <1>2, Z3
<1>6. posts' * Batch = skip + Batch /\ (posts' - 1) * Batch = skip
  BY <1>1, <1>2, <1>5, Z3
<1>7. ReadingsKept'
  <2>1. \A j \in 1..Len(tempList) : tempList[j] = readings[(skip + Batch) + j]
    <3> TAKE j \in 1..Len(tempList)
    <3>1. Batch + j \in 1..Len(history) /\ skip + (Batch + j) = (skip + Batch) + j
      BY <1>4
    <3> QED
      BY <1>2, <1>4, <1>5, <3>1
  <2> QED
    BY <1>1, <1>2, <1>4, <1>5, <1>6, <2>1 DEF ReadingsKept
<1>8. \A n \in 1..Batch : buffer[2 * n - 1] = Measured(posts', n)
  <2> TAKE n \in 1..Batch
  <2>1. buffer[2 * n - 1] = RoundedAvg(WindowAt(history, n))
    BY <1>1, <1>3 DEF NodeInv, IndInv, EveryValueIsWindowAverage, Averages
  <2>2. WindowAt(history, n) = WindowAt(readings, skip + n)
    <3> SUFFICES ASSUME NEW i \in 1..Window
                 PROVE  history[n + i - 1] = readings[skip + n + i - 1]
      BY DEF WindowAt
    <3>1. n + i - 1 \in 1..Len(history) /\ skip + (n + i - 1) = skip + n + i - 1
      BY <1>4
    <3> QED
      BY <1>2, <1>5, <3>1
  <2> QED
    BY <1>6, <2>1, <2>2 DEF Measured
<1>9. ASSUME NEW b \in 1..posts' PROVE PayloadIsRight(b)'
  <2>1. b \in Nat /\ (b \in 1..posts \/ b = posts')
    BY <1>1, <1>2
  <2>2. posts' \in DOMAIN payload /\ b \in DOMAIN payload
    BY <1>1, <1>2, <2>1, UploadAssumption DEF NodeInv, PayloadsRight
  <2>3. CASE b = posts'
    <3>1. payload'[b] = buffer
      BY <1>1, <2>2, <2>3
    <3>2. Len(readings) >= b * Batch + Window - 1
      <4>1. Len(readings) = skip + Batch + Window - 1
        BY <1>2, <1>4, <1>5
      <4>2. PICK whole \in Int : whole = b * Batch
        BY <2>1, Z3
      <4>3. whole = skip + Batch
        BY <1>6, <2>3, <4>2
      <4>4. PICK size \in Int : size = Len(readings)
        BY <1>2
      <4>5. size >= whole + Window - 1
        BY <4>1, <4>3, <4>4
      <4> QED
        BY <4>2, <4>4, <4>5
    <3>3. \A n \in 1..Batch : buffer[2 * n - 1] = Measured(b, n)
      BY <1>8, <2>3
    <3> QED
      BY <1>1, <1>3, <3>1, <3>2, <3>3, RightAgain
  <2>4. CASE b \in 1..posts
    <3>1. payload'[b] = payload[b]
      BY <1>1, <1>2, <2>2, <2>4
    <3>2. PayloadIsRight(b)
      BY <2>4 DEF NodeInv, PayloadsRight
    <3> QED
      BY <1>1, <3>1, <3>2, RightAgain DEF PayloadIsRight
  <2> QED
    BY <2>1, <2>3, <2>4
<1> QED
  BY <1>1, <1>2, <1>7, <1>9, UploadAssumption DEF NodeInv, PayloadsRight

\* A step that touches neither readings, posts nor payloads.
LEMMA OthersKeep ==
    ASSUME NodeInv, history' = history, UNCHANGED <<readings, posts, payload>>
    PROVE  ReadingsKept' /\ PayloadsRight'
<1>1. ReadingsKept'
  BY DEF NodeInv, ReadingsKept
<1>2. \A b \in 1..posts : PayloadIsRight(b)'
  BY DEF NodeInv, PayloadsRight, PayloadIsRight, Measured, Intact, BitCount, RoundedAvg, WindowAt
<1> QED
  BY <1>1, <1>2 DEF NodeInv, PayloadsRight

\* Every step of the pipeline.
LEMMA PipelineNodeStep ==
    ASSUME NodeInv, [PipelineNext]_allVars
    PROVE  NodeInv'
<1>1. [Next]_vars
  BY DEF PipelineNext, NodeReads, NodeComputes, NodePosts, UploadGoesOn, allVars, Next, TakeReading
<1>2. IndInv' /\ ParityInv' /\ Printed'
  BY <1>1, NextIndInv, NextParity, NextPrinted DEF NodeInv
<1>3. ReadingsKept' /\ PayloadsRight'
  <2>1. CASE NodeReads
    BY <2>1, ReadsKeep
  <2>2. CASE NodeComputes
    <3>1. history' = history
      BY <2>2 DEF NodeComputes, TempSensorReset, ReadFails, ParityStep, FinishRecord, CheckBatch
    <3> QED
      BY <2>2, <3>1, OthersKeep DEF NodeComputes, uploadVars
  <2>3. CASE NodePosts
    BY <2>3, PostsKeep
  <2>4. CASE UploadGoesOn
    <3>1. posts' = posts
      BY <2>4
      DEF UploadGoesOn, Upload!Gcoap, Upload!Aiocoap, Upload!Handler, Upload!Restart,
          Upload!Retransmit, Upload!RespTimeout, Upload!RespHandler, Upload!RenderPost,
          Upload!RepeatAnswer, Upload!WritePoint, Upload!WriteFails, Upload!Finish,
          Upload!nodeVars
    <3> QED
      BY <2>4, <3>1, OthersKeep DEF UploadGoesOn, vars
  <2>5. CASE UNCHANGED allVars
    BY <2>5, OthersKeep DEF allVars, vars, uploadVars
  <2> QED
    BY <2>1, <2>2, <2>3, <2>4, <2>5 DEF PipelineNext
<1> QED
  BY <1>2, <1>3 DEF NodeInv

\* Nothing was read or posted at first.
LEMMA PipelineNodeInit == PipelineInit => NodeInv
<1> SUFFICES ASSUME PipelineInit PROVE NodeInv
  OBVIOUS
<1>1. IndInv /\ ParityInv
  BY InitIndInv, InitParity DEF PipelineInit
<1>2. /\ readings = << >> /\ history = << >> /\ posts = 0 /\ counter = 0 /\ pc = "boot"
      /\ payload = [b \in 1..MaxBatches |-> << >>]
  BY DEF PipelineInit, Init, Upload!Init
<1>3. Printed
  BY <1>2 DEF Printed
<1>4. ReadingsKept
  <2>1. 0 * Batch = 0
    BY Z3
  <2> QED
    BY <1>2, <2>1 DEF ReadingsKept
<1>5. PayloadsRight
  BY <1>2, UploadAssumption DEF PayloadsRight
<1> QED
  BY <1>1, <1>3, <1>4, <1>5 DEF NodeInv

\* What a payload decodes to.
LEMMA PayloadDecoded ==
    ASSUME NodeInv, NEW b \in 1..posts
    PROVE  Codec!decodeTemperature(payload[b]) = [n \in 1..Batch |-> Measured(b, n)]
<1>1. Intact(payload[b]) /\ \A n \in 1..Batch : payload[b][2 * n - 1] = Measured(b, n)
  BY DEF NodeInv, PayloadsRight, PayloadIsRight
<1> QED
  BY <1>1, IntactDecoded

\* The payloads of the posts hold every window of the readings, each in its
\* batch and in order, so that the server decodes exactly the averages that
\* were measured (main.c:193-204, decoder.py:3-15).
THEOREM WindowsTheorem == PipelineSpec => []NoWindowIsMissing
<1>1. NodeInv => NoWindowIsMissing
  BY PayloadDecoded DEF NodeInv, PayloadsRight, PayloadIsRight, NoWindowIsMissing
<1>2. NodeInv /\ [PipelineNext]_allVars => NodeInv'
  BY PipelineNodeStep
<1> QED
  BY <1>1, <1>2, PipelineNodeInit, PTL DEF PipelineSpec

-----------------------------------------------------------------------------
(* The upload: whatever is waiting, under way, being served or stored      *)
(* belongs to a batch that was posted.                                     *)
UploadInv ==
    /\ outcome \in [Upload!Batches -> Upload!Outcomes]
    /\ \A b \in Upload!Batches :
          (outcome[b] = "waiting" \/ Upload!Request(b) \in network) => b \in 1..posts
    /\ serving \in 0..posts /\ next \in Nat \ {0}
    /\ database \in Seq(Nat \X Nat)
    /\ \A i \in 1..Len(database) : database[i][1] \in 1..posts /\ database[i][2] \in 1..Batch

\* A response is no request.
LEMMA NoRequest ==
    ASSUME NEW b, NEW c, NEW answer
    PROVE  Upload!Request(b) # Upload!Response(c, answer)
<1> SUFFICES ASSUME Upload!Request(b) = Upload!Response(c, answer) PROVE FALSE
  OBVIOUS
<1>1. Upload!Request(b).kind = "request" /\ Upload!Response(c, answer).kind = "response"
  BY DEF Upload!Request, Upload!Response
<1> QED
  BY <1>1

\* Requests differ when their batches do.
LEMMA OwnRequest ==
    ASSUME NEW b, NEW c, Upload!Request(b) = Upload!Request(c)
    PROVE  b = c
<1>1. Upload!Request(b).batch = b /\ Upload!Request(c).batch = c
  BY DEF Upload!Request
<1> QED
  BY <1>1

\* A step of the node without a post.
LEMMA NodeKeepsUpload ==
    ASSUME UploadInv, UNCHANGED uploadVars
    PROVE  UploadInv'
  BY DEF UploadInv, uploadVars, Upload!Batches, Upload!Outcomes, Upload!Request

\* A post.
LEMMA PostKeepsUpload ==
    ASSUME UploadInv, posts \in Nat, posts < MaxBatches, Upload!PostSent \/ Upload!PostUnsent
    PROVE  UploadInv'
<1>1. /\ posts' = posts + 1 /\ posts' \in Upload!Batches /\ posts \in Nat
      /\ serving' = serving /\ next' = next /\ database' = database
      /\ network' \in {network, network \union {Upload!Request(posts')}}
  BY UploadAssumption
  DEF Upload!PostSent, Upload!PostUnsent, Upload!serverVars, Upload!Batches
<1>2. /\ outcome' \in [Upload!Batches -> Upload!Outcomes]
      /\ \A b \in Upload!Batches : b # posts' => outcome'[b] = outcome[b]
  BY <1>1 DEF Upload!PostSent, Upload!PostUnsent, UploadInv, Upload!Outcomes
<1>3. ASSUME NEW b \in Upload!Batches, outcome'[b] = "waiting" \/ Upload!Request(b) \in network'
      PROVE  b \in 1..posts'
  <2>1. b = posts' \/ outcome[b] = "waiting" \/ Upload!Request(b) \in network
    BY <1>1, <1>2, <1>3, OwnRequest
  <2> QED
    BY <1>1, <2>1 DEF UploadInv
<1>4. serving \in 0..posts'
  BY <1>1 DEF UploadInv
<1>5. \A i \in 1..Len(database) : database[i][1] \in 1..posts' /\ database[i][2] \in 1..Batch
  BY <1>1 DEF UploadInv
<1> QED
  BY <1>1, <1>2, <1>3, <1>4, <1>5 DEF UploadInv, Upload!Batches, Upload!Outcomes, Upload!Request

\* gcoap's thread and its answers from the network.
LEMMA GcoapKeepsUpload ==
    ASSUME UploadInv, NEW b \in Upload!Batches, Upload!Gcoap(b)
    PROVE  UploadInv'
<1>1. /\ posts' = posts /\ serving' = serving /\ next' = next /\ database' = database
  BY DEF Upload!Gcoap, Upload!Retransmit, Upload!RespTimeout, Upload!RespHandler, Upload!serverVars
<1>2. outcome[b] = "waiting" /\ b \in 1..posts
  BY DEF Upload!Gcoap, Upload!Retransmit, Upload!RespTimeout, Upload!RespHandler, UploadInv
<1>3. network' \in {network, network \union {Upload!Request(b)}}
  BY DEF Upload!Gcoap, Upload!Retransmit, Upload!RespTimeout, Upload!RespHandler
<1>4. /\ outcome' \in [Upload!Batches -> Upload!Outcomes]
      /\ \A c \in Upload!Batches : c # b => outcome'[c] = outcome[c]
  BY DEF Upload!Gcoap, Upload!Retransmit, Upload!RespTimeout, Upload!RespHandler, UploadInv,
         Upload!Outcomes
<1>5. ASSUME NEW c \in Upload!Batches, outcome'[c] = "waiting" \/ Upload!Request(c) \in network'
      PROVE  c \in 1..posts
  <2>1. c = b \/ outcome[c] = "waiting" \/ Upload!Request(c) \in network
    BY <1>3, <1>4, <1>5, OwnRequest
  <2> QED
    BY <1>2, <2>1 DEF UploadInv
<1> QED
  BY <1>1, <1>4, <1>5 DEF UploadInv, Upload!Batches, Upload!Outcomes, Upload!Request

\* The server.
LEMMA ServerKeepsUpload ==
    ASSUME UploadInv, posts \in Nat,
           (\E b \in Upload!Batches : Upload!Aiocoap(b)) \/ Upload!Handler \/ Upload!Restart
    PROVE  UploadInv'
<1>1. posts' = posts /\ outcome' = outcome
  BY DEF Upload!Aiocoap, Upload!RenderPost, Upload!RepeatAnswer, Upload!Handler,
           Upload!WritePoint,
         Upload!WriteFails, Upload!Finish, Upload!Restart, Upload!nodeVars
<1>2. ASSUME NEW c \in Upload!Batches, outcome'[c] = "waiting" \/ Upload!Request(c) \in network'
      PROVE  c \in 1..posts
  <2>1. network' = network \/ \E b, answer : network' = network \union {Upload!Response(b, answer)}
    BY DEF Upload!Aiocoap, Upload!RenderPost, Upload!RepeatAnswer, Upload!Handler,
           Upload!WritePoint,
           Upload!WriteFails, Upload!Finish, Upload!Restart
  <2>2. outcome[c] = "waiting" \/ Upload!Request(c) \in network
    BY <1>1, <1>2, <2>1, NoRequest
  <2> QED
    BY <2>2 DEF UploadInv
<1>3. serving' \in 0..posts /\ next' \in Nat \ {0}
  <2>1. serving \in 0..posts /\ next \in Nat \ {0}
    BY DEF UploadInv
  <2>2. \/ serving' \in {serving, 0}
        \/ \E b \in Upload!Batches : serving' = b /\ Upload!Request(b) \in network
    BY DEF Upload!Aiocoap, Upload!RenderPost, Upload!RepeatAnswer, Upload!Handler,
           Upload!WritePoint,
           Upload!WriteFails, Upload!Finish, Upload!Restart, Upload!serverVars, Upload!NoBatch
  <2>3. serving' \in 0..posts
    BY <2>1, <2>2 DEF UploadInv
  <2>4. next' \in {1, next, next + 1}
    BY DEF Upload!Aiocoap, Upload!RenderPost, Upload!RepeatAnswer, Upload!Handler,
           Upload!WritePoint,
           Upload!WriteFails, Upload!Finish, Upload!Restart, Upload!serverVars
  <2> QED
    BY <2>1, <2>3, <2>4
<1>4. /\ database' \in Seq(Nat \X Nat)
      /\ \A i \in 1..Len(database') : database'[i][1] \in 1..posts /\ database'[i][2] \in 1..Batch
  <2>1. CASE Upload!WritePoint
    <3>1. PICK b \in 1..posts, n \in 1..Batch : database' = Append(database, <<b, n>>)
      <4>1. /\ serving \in 0..posts /\ serving # 0 /\ next \in Nat \ {0} /\ next <= Batch
            /\ database' = Append(database, <<serving, next>>)
        BY <2>1 DEF Upload!WritePoint, UploadInv, Upload!NoBatch
      <4>2. serving \in 1..posts /\ next \in 1..Batch
        BY <4>1
      <4> QED
        BY <4>1, <4>2
    <3>2. <<b, n>> \in Nat \X Nat /\ <<b, n>>[1] = b /\ <<b, n>>[2] = n
      OBVIOUS
    <3>3. PICK point \in Nat \X Nat : point = <<b, n>>
      BY <3>2
    <3>4. database \in Seq(Nat \X Nat) /\ database' = Append(database, point)
      BY <3>1, <3>3 DEF UploadInv
    <3>5. /\ database' \in Seq(Nat \X Nat) /\ Len(database') = Len(database) + 1
          /\ \A i \in 1..Len(database) : database'[i] = database[i]
          /\ database'[Len(database) + 1] = point
      BY <3>4
    <3>6. \A i \in 1..Len(database') : i \in 1..Len(database) \/ i = Len(database) + 1
      BY <3>4, <3>5
    <3>7. point[1] \in 1..posts /\ point[2] \in 1..Batch
      BY <3>2, <3>3
    <3> QED
      BY <3>5, <3>6, <3>7 DEF UploadInv
  <2>2. CASE ~Upload!WritePoint
    <3>1. database' = database
      BY <2>2 DEF Upload!Aiocoap, Upload!RenderPost, Upload!RepeatAnswer, Upload!Handler,
                  Upload!WriteFails, Upload!Finish, Upload!Restart, Upload!serverVars
    <3> QED
      BY <3>1 DEF UploadInv
  <2> QED
    BY <2>1, <2>2
<1> QED
  BY <1>1, <1>2, <1>3, <1>4 DEF UploadInv, Upload!Batches, Upload!Outcomes, Upload!Request

\* Every step of the pipeline.
LEMMA PipelineUploadStep ==
    ASSUME NodeInv, UploadInv, [PipelineNext]_allVars
    PROVE  UploadInv'
<1>1. posts \in Nat
  BY DEF NodeInv, ReadingsKept
<1>2. CASE NodeReads \/ NodeComputes \/ UNCHANGED allVars
  BY <1>2, NodeKeepsUpload DEF NodeReads, NodeComputes, allVars
<1>3. CASE NodePosts
  <2>1. posts < MaxBatches /\ (Upload!PostSent \/ Upload!PostUnsent)
    BY <1>3 DEF NodePosts, Upload!PostSent, Upload!PostUnsent
  <2> QED
    BY <1>1, <2>1, PostKeepsUpload
<1>4. CASE UploadGoesOn
  BY <1>1, <1>4, GcoapKeepsUpload, ServerKeepsUpload DEF UploadGoesOn, Upload!Batches
<1> QED
  BY <1>2, <1>3, <1>4 DEF PipelineNext

\* Nothing is under way at first.
LEMMA PipelineUploadInit == PipelineInit => UploadInv
<1> SUFFICES ASSUME PipelineInit PROVE UploadInv
  OBVIOUS
<1>1. /\ posts = 0 /\ outcome = [b \in Upload!Batches |-> "none"] /\ network = {}
      /\ serving = 0 /\ next = 1 /\ database = << >>
  BY DEF PipelineInit, Upload!Init, Upload!NoBatch
<1> QED
  BY <1>1 DEF UploadInv, Upload!Outcomes

\* Every point of the database is the measurement of its own batch and place,
\* whatever the network loses, delays or repeats and whenever the server
\* restarts (main.c:154-208, client.c:264-335, decoder.py:3-15,
\* database.py:27-33).
THEOREM StoredTheorem == PipelineSpec => []StoredIsMeasured
<1>1. ASSUME NodeInv, UploadInv PROVE StoredIsMeasured
  <2> SUFFICES ASSUME NEW i \in DOMAIN database
               PROVE  /\ database[i][2] <= Len(Codec!decodeTemperature(payload[database[i][1]]))
                      /\ Value(database[i][1], database[i][2])
                             = Measured(database[i][1], database[i][2])
    BY DEF StoredIsMeasured
  <2>1. i \in 1..Len(database)
    BY <1>1 DEF UploadInv
  <2>2. PICK b \in 1..posts, n \in 1..Batch : database[i][1] = b /\ database[i][2] = n
    BY <1>1, <2>1 DEF UploadInv
  <2>3. Codec!decodeTemperature(payload[b]) = [k \in 1..Batch |-> Measured(b, k)]
    BY <1>1, PayloadDecoded
  <2>4. Len(Codec!decodeTemperature(payload[b])) = Batch
    BY <2>3
  <2>5. Value(b, n) = Measured(b, n)
    BY <2>3 DEF Value
  <2> QED
    BY <2>2, <2>4, <2>5
<1>2. NodeInv /\ [PipelineNext]_allVars => NodeInv'
  BY PipelineNodeStep
<1>3. NodeInv /\ UploadInv /\ [PipelineNext]_allVars => UploadInv'
  BY PipelineUploadStep
<1> QED
  BY <1>1, <1>2, <1>3, PipelineNodeInit, PipelineUploadInit, PTL DEF PipelineSpec

-----------------------------------------------------------------------------
(* The composed systems.                                                   *)

\* BatchUpload and what is proved about it.
Sending == INSTANCE BatchUploadProofs WITH Points <- Batch

\* The node of the pipeline begins and goes on as SensorNode does, its posts,
\* network and server as BatchUpload does.
LEMMA PipelineSteps ==
    /\ PipelineInit => Init /\ Sending!Init
    /\ [PipelineNext]_allVars => [Next]_vars /\ [Sending!Next]_Sending!vars
<1>1. PipelineInit => Init /\ Sending!Init
  BY DEF PipelineInit, Upload!Init, Sending!Init, Upload!Batches, Sending!Batches,
         Upload!NoBatch, Sending!NoBatch
<1>2. [PipelineNext]_allVars => [Next]_vars
  BY DEF PipelineNext, NodeReads, NodeComputes, NodePosts, UploadGoesOn, allVars, Next,
         TakeReading
<1>3. ASSUME [PipelineNext]_allVars PROVE [Sending!Next]_Sending!vars
  <2>1. CASE NodeReads \/ NodeComputes \/ UNCHANGED allVars
    BY <2>1 DEF NodeReads, NodeComputes, allVars, uploadVars, Sending!vars, Sending!nodeVars,
                Sending!serverVars
  <2>2. CASE NodePosts
    <3>1. Sending!PostSent \/ Sending!PostUnsent
      BY <2>2 DEF NodePosts, Upload!PostSent, Upload!PostUnsent, Sending!PostSent,
                  Sending!PostUnsent, Upload!Waiting, Sending!Waiting, Upload!Batches,
                  Sending!Batches, Upload!Request, Sending!Request, Upload!serverVars,
                  Sending!serverVars, Upload!Cardinality, Sending!Cardinality
    <3> QED
      BY <3>1 DEF Sending!Next, Sending!Node
  <2>3. CASE UploadGoesOn
    <3> USE DEF Upload!NoBatch, Sending!NoBatch, Upload!Batches, Sending!Batches,
                Upload!Request, Sending!Request, Upload!Response, Sending!Response,
                Upload!nodeVars, Sending!nodeVars, Upload!serverVars, Sending!serverVars
    <3>1. \A b \in 1..MaxBatches : Upload!Gcoap(b) => Sending!Gcoap(b)
      BY DEF Upload!Gcoap, Sending!Gcoap, Upload!Retransmit, Sending!Retransmit,
             Upload!RespTimeout, Sending!RespTimeout, Upload!RespHandler, Sending!RespHandler
    <3>2. \A b \in 1..MaxBatches : Upload!Aiocoap(b) => Sending!Aiocoap(b)
      BY DEF Upload!Aiocoap, Sending!Aiocoap, Upload!RenderPost, Sending!RenderPost,
             Upload!RepeatAnswer, Sending!RepeatAnswer
    <3>3. Upload!Handler => Sending!Handler
      BY DEF Upload!Handler, Sending!Handler, Upload!WritePoint, Sending!WritePoint,
             Upload!WriteFails, Sending!WriteFails, Upload!Finish, Sending!Finish
    <3>4. Upload!Restart => Sending!Restart
      BY DEF Upload!Restart, Sending!Restart
    <3> QED
      BY <2>3, <3>1, <3>2, <3>3, <3>4 DEF UploadGoesOn, Sending!Next
  <2> QED
    BY <1>3, <2>1, <2>2, <2>3 DEF PipelineNext
<1> QED
  BY <1>1, <1>2, <1>3

\* Joining the two programs takes nothing from either: every execution of the
\* pipeline is one of the node's loop and one of the upload (main.c:203).
THEOREM PipelineComposes == PipelineSpec => Spec /\ Sending!Spec
<1> QED
  BY PipelineSteps, PTL DEF PipelineSpec, Spec, Sending!Spec

\* A batch of which the node reports "response Success" is in the database,
\* every value of it, and every value is the average of its own window of the
\* readings (client.c:118, main.c:154-208, decoder.py:3-15, database.py:27-33).
THEOREM SuccessTheorem == PipelineSpec => []SuccessMeansMeasured
<1>1. Sending!Spec => []Sending!SuccessMeansStored
  BY UploadAssumption, Sending!SuccessIsDurable
<1>2. ASSUME NodeInv, UploadInv, Sending!SuccessMeansStored PROVE SuccessMeansMeasured
  <2> SUFFICES ASSUME NEW b \in 1..posts, outcome[b] = "success", NEW n \in 1..Batch
               PROVE  /\ \E i \in DOMAIN database : database[i] = <<b, n>>
                      /\ Value(b, n) = Measured(b, n)
    BY DEF SuccessMeansMeasured
  <2>1. b \in Sending!Batches
    BY <1>2, UploadAssumption DEF NodeInv, ReadingsKept, PayloadsRight, Sending!Batches
  <2>2. \E i \in 1..Len(database) : database[i] = <<b, n>>
    BY <1>2, <2>1 DEF Sending!SuccessMeansStored, Sending!Stored, Sending!Written
  <2>3. PICK i \in DOMAIN database : database[i] = <<b, n>>
    BY <1>2, <2>2 DEF UploadInv
  <2>4. Value(b, n) = Measured(b, n)
    BY <1>2, PayloadDecoded DEF Value
  <2> QED
    BY <2>3, <2>4
<1>3. NodeInv /\ [PipelineNext]_allVars => NodeInv'
  BY PipelineNodeStep
<1>4. NodeInv /\ UploadInv /\ [PipelineNext]_allVars => UploadInv'
  BY PipelineUploadStep
<1> QED
  BY <1>1, <1>2, <1>3, <1>4, PipelineNodeInit, PipelineUploadInit, PipelineComposes, PTL
  DEF PipelineSpec

\* The logger beside the node does what it does alone.
LEMMA TwinsLoggerStep == [TwinsNext]_twinVars => [Logger!Next]_Logger!vars
  BY DEF TwinsNext, twinVars, loggerVars, BothReset, BothFail, BothRead, NodeAlone, BothTurn,
         BothReport, Logger!Next, Logger!vars

\* Both copies of the loop run beside each other as they run alone.
THEOREM TwinsCompose == TwinsSpec => Spec /\ Logger!Spec
<1>1. TwinsInit => Init /\ Logger!Init
  BY DEF TwinsInit
<1> QED
  BY <1>1, TwinsNodeStep, TwinsLoggerStep, PTL DEF TwinsSpec, Spec, Logger!Spec

-----------------------------------------------------------------------------
(* The path of a report: ReportPath.                                       *)
USE MessageAssumption, HitsAssumption

\* ReportPath's codec and the pipeline's join pieces alike.
LEMMA SameFlat == ASSUME NEW s PROVE FlattenSeq(s) = Codec!FlattenSeq(s)
  BY DEF FlattenSeq, Codec!FlattenSeq

\* The places of a number's text are those of its powers of ten.
LEMMA PowersOfTen == ASSUME NEW p \in 0..4 PROVE 10^p \in Nat \ {0}
<1>1. 10^0 = 1 /\ 10^1 = 10 /\ 10^2 = 100 /\ 10^3 = 1000 /\ 10^4 = 10000
  OBVIOUS
<1>2. p = 0 \/ p = 1 \/ p = 2 \/ p = 3 \/ p = 4
  OBVIOUS
<1>3. CASE p = 0 BY <1>1, <1>3
<1>4. CASE p = 1 BY <1>1, <1>4
<1>5. CASE p = 2 BY <1>1, <1>5
<1>6. CASE p = 3 BY <1>1, <1>6
<1>7. CASE p = 4 BY <1>1, <1>7
<1> QED
  BY <1>2, <1>3, <1>4, <1>5, <1>6, <1>7

\* A text of digits stays one when a digit changes.
LEMMA DamagedType ==
    ASSUME NEW n \in Nat, NEW m \in Damaged(n)
    PROVE  m \in Nat
<1>1. Places(n) - 1 \in 0..4
  <2> DEFINE longer == {p \in 1..4 : n >= 10^p}
  <2>1. PICK last \in Nat : last = 4
    OBVIOUS
  <2>2. IsFiniteSet(1..last) /\ Cardinality(1..last) = last
    BY FS_Interval
  <2>3. longer \in SUBSET (1..last)
    BY <2>1
  <2> HIDE DEF longer
  <2>4. Cardinality(longer) \in Nat /\ Cardinality(longer) <= last
    BY <2>2, <2>3, FS_Subset, FS_CardinalityType
  <2>5. Places(n) = Cardinality(longer) + 1
    BY DEF Places, longer, Cardinality
  <2>6. PICK size \in Nat : size = Cardinality(longer)
    BY <2>4
  <2> QED
    BY <2>1, <2>4, <2>5, <2>6
<1>2. PICK p \in 0..(Places(n) - 1), e \in 0..9 : m = n + (e - ((n \div 10^p) % 10)) * 10^p
  BY DEF Damaged, Flips
<1>3. p \in 0..4
  BY <1>1, <1>2
<1>4. PICK ten \in Nat \ {0} : ten = 10^p
  BY <1>3, PowersOfTen
<1>5. PICK q \in Nat, r \in Nat : n = ten * q + r /\ q = n \div ten
  <2>1. /\ n \div ten \in Int /\ n % ten \in 0..(ten - 1)
        /\ n = ten * (n \div ten) + (n % ten)
    BY Division
  <2>2. n \div ten \in Nat
    BY Z3
  <2> QED
    BY <2>1, <2>2
<1>6. PICK tens \in Nat, d \in 0..9 : q = 10 * tens + d /\ d = q % 10
  <2>1. q = 10 * (q \div 10) + (q % 10) /\ q \div 10 \in Nat /\ q % 10 \in 0..9
    BY Z3
  <2> QED
    BY <2>1
<1>7. m = n + (e - d) * ten
  BY <1>2, <1>4, <1>5, <1>6
<1>8. m = ten * (10 * tens) + r + e * ten
  BY <1>5, <1>6, <1>7, Z3
<1>9. ten * (10 * tens) \in Nat /\ e * ten \in Nat
  BY Z3
<1> QED
  BY <1>5, <1>8, <1>9

-----------------------------------------------------------------------------
\* While the message is under way, its undamaged pairs are as they were sent.
WireInv ==
    phase = "wire" =>
        /\ Len(sent) = MessageSize /\ Len(wire) = 2 * MessageSize
        /\ \A k \in (1..MessageSize) \ hits :
              wire[2 * k - 1] = sent[k] /\ wire[2 * k] = calculate_odd_parity(sent[k])

PathInv == PathTypeOK /\ WireInv /\ DamageIsConfined

\* The number of ones, and the parity bit.
LEMMA OnesType ==
    ASSUME NEW n
    PROVE  Ones(n) \in Nat /\ calculate_odd_parity(n) \in {0, 1}
<1>1. Ones(n) \in Nat
  <2> DEFINE set == {b \in 0..16 : (n \div 2^b) % 2 = 1}
  <2>1. PICK last \in Nat : last = 16
    OBVIOUS
  <2>2. IsFiniteSet(0..last)
    BY FS_Interval
  <2>3. set \in SUBSET (0..last)
    BY <2>1
  <2> HIDE DEF set
  <2>4. Cardinality(set) \in Nat
    BY <2>2, <2>3, FS_Subset, FS_CardinalityType
  <2> QED
    BY <2>4 DEF Ones, set, Cardinality
<1> QED
  BY <1>1 DEF calculate_odd_parity

\* The server accepts the bit that the node calculates.
LEMMA ParitiesAgree ==
    ASSUME NEW n \in Nat
    PROVE  parityCheck(n, calculate_odd_parity(n))
<1>1. PICK count \in Nat : count = Ones(n)
  BY OnesType
<1>2. ~(n < 0)
  OBVIOUS
<1>3. (count + (IF count % 2 = 0 THEN 1 ELSE 0)) % 2 = 1
  OBVIOUS
<1> QED
  BY <1>1, <1>2, <1>3 DEF parityCheck, calculate_odd_parity

\* What main() appends: a pair for each value.
LEMMA EncodeIsPairs ==
    ASSUME NEW values \in [1..MessageSize -> Nat]
    PROVE  /\ Encode(values) \in Seq(Nat) /\ Len(Encode(values)) = 2 * MessageSize
           /\ \A k \in 1..MessageSize :
                 /\ Encode(values)[2 * k - 1] = values[k]
                 /\ Encode(values)[2 * k] = calculate_odd_parity(values[k])
<1> DEFINE pieces == [k \in 1..MessageSize |-> <<values[k], calculate_odd_parity(values[k])>>]
<1>1. Encode(values) = Codec!FlattenSeq(pieces)
  BY SameFlat DEF Encode
<1>2. ASSUME NEW k \in 1..MessageSize
      PROVE  /\ pieces[k] \in Seq(Nat) /\ Len(pieces[k]) = 2
             /\ pieces[k][1] = values[k] /\ pieces[k][2] = calculate_odd_parity(values[k])
  <2>1. PICK bit \in Nat : bit = calculate_odd_parity(values[k])
    BY OnesType
  <2>2. values[k] \in Nat /\ pieces[k] = <<values[k], bit>>
    BY <2>1
  <2> HIDE DEF pieces
  <2> QED
    BY <2>1, <2>2
<1>3. Len(pieces) = MessageSize
  <2>1. \A k \in 1..MessageSize : pieces[k] \in Seq(Nat)
    BY <1>2
  <2>2. pieces \in [1..MessageSize -> Seq(Nat)]
    BY <2>1
  <2> HIDE DEF pieces
  <2>3. pieces \in Seq(Seq(Nat)) /\ DOMAIN pieces = 1..MessageSize
    BY <2>2
  <2> QED
    BY <2>3
<1> HIDE DEF pieces
<1>4. \A k \in 1..MessageSize : pieces[k] \in Seq(Nat) /\ Len(pieces[k]) = 2
  BY <1>2
<1>5. Codec!FlattenSeq(pieces) \in Seq(Nat) /\ Paired(Codec!FlattenSeq(pieces), pieces, MessageSize)
  BY <1>3, <1>4, FlattenPairs, Zenon
<1> QED
  BY <1>1, <1>2, <1>5 DEF Paired

\* What the server makes of a message of numbers.
LEMMA DecodeIsGathered ==
    ASSUME NEW m \in Seq(Nat), Len(m) = 2 * MessageSize
    PROVE  LET pieces == [k \in 1..MessageSize |-> DecodedPair(m, k)]
           IN  /\ decodeTemperature(m) \in Seq(Nat)
               /\ Gathered(decodeTemperature(m), pieces, MessageSize)
<1> DEFINE pieces == [k \in 1..MessageSize |-> DecodedPair(m, k)]
<1>1. Len(m) \div 2 = MessageSize
  OBVIOUS
<1>2. decodeTemperature(m) = Codec!FlattenSeq(pieces)
  BY <1>1, SameFlat DEF decodeTemperature
<1>3. ASSUME NEW k \in 1..MessageSize
      PROVE  pieces[k] \in Seq(Nat) /\ Len(pieces[k]) <= 1
  <2>1. pieces[k] = DecodedPair(m, k)
    OBVIOUS
  <2> HIDE DEF pieces
  <2>2. \/ pieces[k] = <<m[2 * k - 1]>>
        \/ /\ 1 < k /\ 2 * k < Len(m)
           /\ pieces[k] = <<100 * ((m[2 * k - 3] + m[2 * k + 1]) \div 2)>>
        \/ pieces[k] = << >>
    BY <2>1 DEF DecodedPair
  <2>3. \A v \in Nat : <<v>> \in Seq(Nat) /\ Len(<<v>>) <= 1
    OBVIOUS
  <2>4. CASE pieces[k] = <<m[2 * k - 1]>>
    <3>1. 2 * k - 1 \in 1..Len(m)
      OBVIOUS
    <3>2. m[2 * k - 1] \in Nat
      BY <3>1
    <3> QED
      BY <2>3, <2>4, <3>2
  <2>5. CASE /\ 1 < k /\ 2 * k < Len(m)
             /\ pieces[k] = <<100 * ((m[2 * k - 3] + m[2 * k + 1]) \div 2)>>
    <3>1. 2 * k - 3 \in 1..Len(m) /\ 2 * k + 1 \in 1..Len(m)
      BY <2>5
    <3>2. PICK a \in Nat, b \in Nat : a = m[2 * k - 3] /\ b = m[2 * k + 1]
      BY <3>1
    <3>3. 100 * ((a + b) \div 2) \in Nat
      OBVIOUS
    <3> QED
      BY <2>3, <2>5, <3>2, <3>3
  <2>6. CASE pieces[k] = << >>
    BY <2>6
  <2> QED
    BY <2>2, <2>4, <2>5, <2>6
<1>4. Len(pieces) = MessageSize
  <2>1. pieces \in [1..MessageSize -> Seq(Nat)]
    BY <1>3
  <2> HIDE DEF pieces
  <2>2. pieces \in Seq(Seq(Nat)) /\ DOMAIN pieces = 1..MessageSize
    BY <2>1
  <2> QED
    BY <2>2
<1>5. \A k \in 1..MessageSize : pieces[k] \in Seq(Nat) /\ Len(pieces[k]) <= 1
  BY <1>3
<1> HIDE DEF pieces
<1>6. Codec!FlattenSeq(pieces) \in Seq(Nat) /\ Gathered(Codec!FlattenSeq(pieces), pieces, MessageSize)
  BY <1>4, <1>5, FlattenFew, Zenon
<1> QED
  BY <1>2, <1>6 DEF pieces

\* The averages that a message may carry are not negative.
LEMMA ValuesFit == Values \subseteq NotNegative
<1> SUFFICES ASSUME NEW v \in Values PROVE v \in NotNegative
  OBVIOUS
<1>1. v \in 0..32767
  BY ValuesAssumption
<1> QED
  BY <1>1 DEF NotNegative, Int16

\* A message is sent.
LEMMA SendStep ==
    ASSUME Send
    PROVE  PathInv'
<1>1. PICK values \in [1..MessageSize -> Values] :
          /\ sent' = values /\ wire' = Encode(values)
          /\ phase' = "wire" /\ garbled' = FALSE /\ hits' = {} /\ hitCount' = 0
          /\ stored' = << >>
  BY DEF Send
<1>2. values \in [1..MessageSize -> Nat] /\ values \in Seq(Values) /\ Len(values) = MessageSize
  <2>1. NotNegative \subseteq Nat
    BY DEF NotNegative, Int16
  <2>2. \A k \in 1..MessageSize : values[k] \in Nat
    BY <2>1, ValuesFit
  <2> QED
    BY <2>2
<1>3. PICK message : message = Encode(values)
  OBVIOUS
<1>4. /\ message \in Seq(Nat) /\ Len(message) = 2 * MessageSize
      /\ \A k \in 1..MessageSize :
            /\ message[2 * k - 1] = values[k]
            /\ message[2 * k] = calculate_odd_parity(values[k])
  BY <1>2, <1>3, EncodeIsPairs
<1>5. PathTypeOK'
  <2>1. << >> \in Seq(Nat) /\ 0 \in 0..MaxHits /\ {} \subseteq 1..MessageSize
    OBVIOUS
  <2> QED
    BY <1>1, <1>2, <1>3, <1>4, <2>1 DEF PathTypeOK
<1>6. WireInv'
  BY <1>1, <1>2, <1>3, <1>4
  DEF WireInv
<1>7. DamageIsConfined'
  BY <1>1 DEF DamageIsConfined
<1> QED
  BY <1>5, <1>6, <1>7 DEF PathInv

\* A digit changes.
LEMMA DamageDigitStep ==
    ASSUME PathInv, DamageDigit
    PROVE  PathInv'
<1>1. PICK f \in DOMAIN wire : \E n \in Damaged(wire[f]) :
          /\ wire' = [wire EXCEPT ![f] = n]
          /\ hits' = hits \union {(f + 1) \div 2}
  BY DEF DamageDigit
<1>2. /\ phase = "wire" /\ phase' = phase /\ hitCount < MaxHits /\ hitCount' = hitCount + 1
      /\ sent' = sent /\ garbled' = garbled /\ stored' = stored
  BY DEF DamageDigit
<1>3. /\ wire \in Seq(Nat) /\ Len(wire) = 2 * MessageSize /\ Len(sent) = MessageSize
      /\ hits \subseteq 1..MessageSize /\ hitCount \in 0..MaxHits
  BY <1>2 DEF PathInv, PathTypeOK, WireInv
<1>4. f \in 1..(2 * MessageSize) /\ wire[f] \in Nat
  BY <1>3
<1>5. PICK n \in Nat : wire' = [wire EXCEPT ![f] = n] /\ hits' = hits \union {(f + 1) \div 2}
  BY <1>1, <1>4, DamagedType
<1>6. PICK pair \in 1..MessageSize : pair = (f + 1) \div 2 /\ (f = 2 * pair - 1 \/ f = 2 * pair)
  BY <1>4
<1>7. /\ wire' \in Seq(Nat) /\ Len(wire') = Len(wire)
      /\ \A i \in 1..Len(wire) : i # f => wire'[i] = wire[i]
  BY <1>3, <1>5
<1>8. hits' \subseteq 1..MessageSize /\ hitCount' \in 0..MaxHits
  <2>1. hits' = hits \union {pair}
    BY <1>5, <1>6
  <2>2. hits' \subseteq 1..MessageSize
    BY <1>3, <2>1
  <2>3. hitCount' \in 0..MaxHits
    BY <1>2, <1>3
  <2> QED
    BY <2>2, <2>3
<1>9. PathTypeOK'
  BY <1>2, <1>7, <1>8 DEF PathInv, PathTypeOK
<1>10. WireInv'
  <2>1. ASSUME NEW k \in (1..MessageSize) \ hits'
        PROVE  /\ wire'[2 * k - 1] = sent[k]
               /\ wire'[2 * k] = calculate_odd_parity(sent[k])
    <3>1. k # pair /\ k \notin hits
      BY <1>5, <1>6
    <3>2. 2 * k - 1 # f /\ 2 * k # f
      BY <1>6, <3>1
    <3>3. 2 * k - 1 \in 1..Len(wire) /\ 2 * k \in 1..Len(wire)
      BY <1>3
    <3>4. wire'[2 * k - 1] = wire[2 * k - 1] /\ wire'[2 * k] = wire[2 * k]
      BY <1>7, <3>2, <3>3
    <3>5. wire[2 * k - 1] = sent[k] /\ wire[2 * k] = calculate_odd_parity(sent[k])
      BY <1>2, <3>1 DEF PathInv, WireInv
    <3> QED
      BY <3>4, <3>5
  <2> QED
    BY <1>2, <1>3, <1>7, <2>1 
    DEF WireInv
<1>11. DamageIsConfined'
  BY <1>2 DEF DamageIsConfined
<1> QED
  BY <1>9, <1>10, <1>11 DEF PathInv

\* Another character changes.
LEMMA DamageSyntaxStep ==
    ASSUME PathInv, DamageSyntax
    PROVE  PathInv'
<1>1. /\ phase = "wire" /\ phase' = phase /\ hitCount < MaxHits /\ hitCount' = hitCount + 1
      /\ garbled' = TRUE /\ UNCHANGED <<sent, wire, hits, stored>>
  BY DEF DamageSyntax
<1>2. PathTypeOK'
  BY <1>1 DEF PathInv, PathTypeOK
<1>3. WireInv'
  BY <1>1 DEF PathInv, WireInv
<1> QED
  BY <1>1, <1>2, <1>3 DEF PathInv, DamageIsConfined

\* The server decodes what arrived.
LEMMA RenderPostStep ==
    ASSUME PathInv, RenderPost
    PROVE  PathInv'
<1>1. /\ phase = "wire" /\ UNCHANGED <<sent, wire, garbled, hits, hitCount>>
      /\ \/ phase' = "rejected" /\ stored' = << >>
         \/ phase' = "stored" /\ stored' = decodeTemperature(wire)
  BY DEF RenderPost
<1>2. /\ wire \in Seq(Nat) /\ Len(wire) = 2 * MessageSize /\ sent \in Seq(Values) /\ Len(sent) = MessageSize
      /\ hits \subseteq 1..MessageSize
      /\ \A k \in (1..MessageSize) \ hits :
            wire[2 * k - 1] = sent[k] /\ wire[2 * k] = calculate_odd_parity(sent[k])
  BY <1>1 DEF PathInv, PathTypeOK, WireInv
<1> DEFINE pieces == [k \in 1..MessageSize |-> DecodedPair(wire, k)]
           kept == NotEmpty(pieces, MessageSize)
<1>3. /\ decodeTemperature(wire) \in Seq(Nat)
      /\ Gathered(decodeTemperature(wire), pieces, MessageSize)
  BY <1>2, DecodeIsGathered
<1>4. ASSUME NEW k \in (1..MessageSize) \ hits PROVE pieces[k] = <<sent[k]>>
  <2>1. sent[k] \in Nat
    BY <1>2 DEF NotNegative, Int16
  <2>2. parityCheck(wire[2 * k - 1], wire[2 * k])
    BY <1>2, <2>1, ParitiesAgree
  <2> QED
    BY <1>2, <2>2 DEF DecodedPair
<1> HIDE DEF pieces
<1>5. PathTypeOK'
  <2>1. << >> \in Seq(Nat)
    OBVIOUS
  <2>2. stored' \in Seq(Nat)
    BY <1>1, <1>3, <2>1
  <2> QED
    BY <1>1, <2>2 DEF PathInv, PathTypeOK
<1>6. WireInv'
  BY <1>1 DEF WireInv
<1>7. ASSUME stored' = decodeTemperature(wire)
      PROVE  /\ kept \in SUBSET (1..MessageSize) /\ (1..MessageSize) \ hits \subseteq kept
             /\ Len(stored') = Cardinality(kept)
             /\ \A k \in kept \ hits : stored'[Cardinality({j \in kept : j <= k})] = sent[k]
  <2>1. kept \in SUBSET (1..MessageSize) /\ (1..MessageSize) \ hits \subseteq kept
    BY <1>4 DEF NotEmpty
  <2>2. Len(stored') = Cardinality(kept)
    BY <1>3, <1>7 DEF Gathered
  <2>3. ASSUME NEW k \in kept \ hits PROVE stored'[Cardinality({j \in kept : j <= k})] = sent[k]
    <3>1. k \in (1..MessageSize) \ hits /\ k \in NotEmpty(pieces, MessageSize)
      BY <2>1
    <3>2. {j \in kept : j <= k} = NotEmpty(pieces, k)
      BY <3>1 DEF NotEmpty
    <3>3. stored'[Cardinality(NotEmpty(pieces, k))] = pieces[k][1]
      BY <1>3, <1>7, <3>1 DEF Gathered
    <3> QED
      BY <1>4, <3>1, <3>2, <3>3
  <2> QED
    BY <2>1, <2>2, <2>3
<1>8. DamageIsConfined'
  <2>1. CASE phase' = "rejected"
    BY <2>1 DEF DamageIsConfined
  <2>2. CASE stored' = decodeTemperature(wire)
    <3> HIDE DEF kept
    <3>1. PICK set \in SUBSET (1..MessageSize) :
              /\ (1..MessageSize) \ hits' \subseteq set
              /\ Len(stored') = Cardinality(set)
              /\ \A k \in set \ hits' : stored'[Cardinality({j \in set : j <= k})] = sent'[k]
      BY <1>1, <1>7, <2>2
    <3> QED
      BY <3>1 DEF DamageIsConfined, Cardinality
  <2> QED
    BY <1>1, <2>1, <2>2
<1> QED
  BY <1>5, <1>6, <1>8 DEF PathInv

\* Nothing is under way at first.
LEMMA PathStart == PathInit => PathInv
<1> SUFFICES ASSUME PathInit PROVE PathInv
  OBVIOUS
<1>1. /\ phase = "node" /\ sent = << >> /\ wire = << >> /\ stored = << >>
      /\ garbled = FALSE /\ hits = {} /\ hitCount = 0
  BY DEF PathInit
<1>2. << >> \in Seq(Nat) /\ << >> \in Seq(Values) /\ 0 \in 0..MaxHits
  OBVIOUS
<1>3. PathTypeOK
  BY <1>1, <1>2 DEF PathTypeOK
<1>4. WireInv /\ DamageIsConfined
  BY <1>1 DEF WireInv, DamageIsConfined
<1> QED
  BY <1>3, <1>4 DEF PathInv

\* Every step keeps the invariant.
LEMMA PathStep ==
    ASSUME PathInv, [PathNext]_pathVars
    PROVE  PathInv'
<1>1. CASE UNCHANGED pathVars
  <2>1. UNCHANGED <<phase, sent, wire, garbled, hits, hitCount, stored>>
    BY <1>1 DEF pathVars
  <2>2. PathTypeOK'
    BY <2>1 DEF PathInv, PathTypeOK
  <2>3. DamageIsConfined'
    BY <2>1 DEF PathInv, DamageIsConfined
  <2>4. WireInv'
    BY <2>1 DEF PathInv, WireInv
  <2> QED
    BY <2>2, <2>3, <2>4 DEF PathInv
<1> QED
  BY <1>1, SendStep, DamageDigitStep, DamageSyntaxStep, RenderPostStep DEF PathNext

\* The variables of a report's path hold what they should, however many bits
\* of its text flip.
THEOREM PathTypes == PathSpec => []PathTypeOK
<1>1. PathInv => PathTypeOK
  BY DEF PathInv
<1>2. PathInit => PathInv
  BY PathStart
<1>3. PathInv /\ [PathNext]_pathVars => PathInv'
  BY PathStep
<1> QED
  BY <1>1, <1>2, <1>3, PTL DEF PathSpec

\* Every value whose pair arrived whole is stored exactly and in its order; a
\* damaged pair becomes one value or none (main.c:118-132, decoder.py:3-20).
THEOREM DamageTheorem == PathSpec => []DamageIsConfined
<1>1. PathInv => DamageIsConfined
  BY DEF PathInv
<1>2. PathInit => PathInv
  BY PathStart
<1>3. PathInv /\ [PathNext]_pathVars => PathInv'
  BY PathStep
<1> QED
  BY <1>1, <1>2, <1>3, PTL DEF PathSpec

=============================================================================
