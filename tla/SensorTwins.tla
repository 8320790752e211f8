---------------------------- MODULE SensorTwins ----------------------------
(***************************************************************************)
(* The loop of the sensor exists twice: in the connected node              *)
(* (SensorNode) and, copied, in the stand-alone logger (SensorLogger).     *)
(* Here both programs run side by side and get the same readings and the   *)
(* same failures; a turn of the logger is taken with the step of the node  *)
(* that it answers to.                                                     *)
(***************************************************************************)
EXTENDS SensorNode

VARIABLES logPc, logTempList, logBuffer, logUsed, logCounter, printed

loggerVars == <<logPc, logTempList, logBuffer, logUsed, logCounter, printed>>
twinVars == <<vars, loggerVars>>

Logger == INSTANCE SensorLogger
    WITH pc <- logPc, tempList <- logTempList, buffer <- logBuffer,
         used <- logUsed, counter <- logCounter

TwinsInit == Init /\ Logger!Init

BothReset ==
    /\ TempSensorReset
    /\ Logger!TempSensorReset
    /\ logPc' = pc'

BothFail == ReadFails /\ Logger!ReadFails

BothRead ==
    \E temp \in Readings :
        /\ FillWindow(temp) \/ Smooth(temp)
        /\ Logger!FillWindow(temp) \/ Logger!Record(temp) \/ Logger!Hang(temp)

\* The node counts the bits of an average, and ends a turn that completes a
\* batch, in steps of their own.
NodeAlone ==
    /\ ParityStep \/ FinishRecord \/ (CheckBatch /\ pc' = "post")
    /\ UNCHANGED loggerVars

BothTurn == CheckBatch /\ pc' = "read" /\ Logger!NextTurn

\* The node posts what the logger prints.
BothReport == Post /\ Logger!Flush

TwinsNext ==
    \/ BothReset
    \/ BothFail
    \/ BothRead
    \/ NodeAlone
    \/ BothTurn
    \/ BothReport

(***************************************************************************)
(* Nothing but main() runs, so it goes on; and a sensor that is read again *)
(* and again answers again and again.                                      *)
(***************************************************************************)
TwinsSpec ==
    /\ TwinsInit
    /\ [][TwinsNext]_twinVars
    /\ WF_twinVars(TwinsNext)
    /\ SF_twinVars(BothRead)

-----------------------------------------------------------------------------
\* Whenever the loop is at its head, and when a negative average has stopped
\* it, the two programs hold the same window and the same text, and have
\* reported the same batch: the copies compute the same numbers
\* (sensor-connected/main.c:154-208, sensor-m3-temperature/main.c:133-186).
TwinsAgree ==
    (pc = "read" \/ num < 0) =>
        /\ logPc = IF pc = "read" THEN "read" ELSE "hung"
        /\ <<logTempList, logBuffer, logUsed, logCounter>> = <<tempList, buffer, used, counter>>
        /\ printed = posted

=============================================================================
