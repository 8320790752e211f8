-------------------------- MODULE SensorShellProofs --------------------------
(***************************************************************************)
(* Proofs about SensorShell, for every set of sensors with threads of      *)
(* their own and every number of readings in a round.                      *)
(***************************************************************************)
EXTENDS SensorShell, TLAPS

-----------------------------------------------------------------------------
(* The inductive invariant.                                                *)

\* The shell runs only when no sensor thread can.
ShellIsLast == cpu = Shell => \A s \in Sensors : place[s] \notin ReadyPlaces

\* A reading that is to be taken is one of the round.
ReadingsRemain ==
    \A s \in Sensors : place[s] \in {"read", "bus", "busWaiting"} => left[s] > 0

\* What BusIsConsistent says of the bus, without the processor.
BusInv ==
    /\ \A s \in Sensors : place[s] = "bus" <=> bus = s
    /\ shell = "reading" <=> bus = Shell
    /\ (\E s \in Sensors : place[s] = "busWaiting") => bus # Free

Inv == TypeOK /\ ShellIsLast /\ ReadingsRemain /\ BusInv /\ StoppedMeansSilent

\* The invariant gives the property of the bus: when the shell is at its
\* prompt, the bus's owner would be a sensor thread that can run.
LEMMA BusIsFreeForTheShell == Inv => BusIsConsistent
<1> SUFFICES ASSUME Inv, cpu = Shell, shell = "prompt" PROVE bus = Free
  BY DEF Inv, BusInv, BusIsConsistent
<1>1. bus # Shell
  BY DEF Inv, BusInv
<1>2. ASSUME NEW s \in Sensors, bus = s PROVE FALSE
  BY <1>2 DEF Inv, BusInv, ShellIsLast, ReadyPlaces
<1> QED
  BY <1>1, <1>2 DEF Inv, TypeOK

-----------------------------------------------------------------------------
(* The scheduler and the bus.                                              *)

\* The scheduler picks a thread, and the shell only if nobody else can run.
LEMMA ScheduleIsFair ==
    ASSUME cpu \in Sensors \union {Shell}, Schedule
    PROVE  cpu' \in Sensors \union {Shell} /\ ShellIsLast'
<1>1. Shell \notin Ready /\ Ready \subseteq Sensors
  BY SensorsAssumption DEF Ready
<1>2. cpu' \in Sensors \union {Shell} /\ (cpu' = Shell => Ready = {})
  BY <1>1 DEF Schedule
<1> QED
  BY <1>2 DEF Ready, ShellIsLast

\* Unlocking the bus makes a waiting thread its owner, and changes the place
\* of no other thread.
LEMMA BusIsHandedOver ==
    ASSUME NEW placed \in [Sensors -> Places], ReleaseBus(placed),
           \A s \in Sensors : placed[s] # "bus"
    PROVE  /\ place' \in [Sensors -> Places]
           /\ bus' \in Sensors \union {Free}
           /\ \A s \in Sensors : place'[s] = "bus" <=> bus' = s
           /\ \A s \in Sensors : place'[s] = placed[s]
                                 \/ (placed[s] = "busWaiting" /\ place'[s] = "bus")
           /\ (\E s \in Sensors : place'[s] = "busWaiting") => bus' # Free
<1> DEFINE waiting == {s \in Sensors : placed[s] = "busWaiting"}
<1>1. CASE waiting = {}
  <2>1. bus' = Free /\ place' = placed
    BY <1>1 DEF ReleaseBus
  <2> QED
    BY <1>1, <2>1, SensorsAssumption
<1>2. CASE waiting # {}
  <2>1. PICK t \in waiting : bus' = t /\ place' = [placed EXCEPT ![t] = "bus"]
    BY <1>2 DEF ReleaseBus
  <2>2. t \in Sensors /\ t # Free /\ placed[t] = "busWaiting"
    BY <2>1, SensorsAssumption
  <2>3. \A s \in Sensors : place'[s] = IF s = t THEN "bus" ELSE placed[s]
    BY <2>1, <2>2
  <2>4. place' \in [Sensors -> Places]
    BY <2>1, <2>2 DEF Places, ReadyPlaces
  <2> HIDE DEF waiting
  <2> QED
    BY <2>1, <2>2, <2>3, <2>4
<1> QED
  BY <1>1, <1>2

-----------------------------------------------------------------------------
(* The steps of the threads.                                               *)

\* mutex_lock() keeps the invariant.
LEMMA LockStep ==
    ASSUME Inv, NEW s \in Sensors, Lock(s)
    PROVE  Inv'
<1>1. cpu' \in Sensors \union {Shell} /\ ShellIsLast'
  BY ScheduleIsFair DEF Lock, Inv, TypeOK
<1>2. Reads[s] \in Nat \ {0}
  BY ReadsAssumption
<1>3. /\ place' = [place EXCEPT ![s] = IF locked[s] THEN "waiting" ELSE "read"]
      /\ locked' = [locked EXCEPT ![s] = TRUE]
      /\ left' = [left EXCEPT ![s] = IF locked[s] THEN @ ELSE Reads[s]]
      /\ place[s] = "lock" /\ bus' = bus /\ shell' = shell /\ command' = command
  BY DEF Lock
<1>4. TypeOK'
  BY <1>1, <1>2, <1>3 DEF Inv, TypeOK, Places, ReadyPlaces
<1>5. ReadingsRemain'
  BY <1>2, <1>3 DEF Inv, TypeOK, ReadingsRemain
<1>6. BusInv'
  BY <1>3 DEF Inv, TypeOK, BusInv
<1>7. StoppedMeansSilent'
  BY <1>3 DEF Inv, TypeOK, StoppedMeansSilent
<1> QED
  BY <1>1, <1>4, <1>5, <1>6, <1>7 DEF Inv

\* So does a driver that takes the bus or waits for it.
LEMMA ReadBeginStep ==
    ASSUME Inv, NEW s \in Sensors, ReadBegin(s)
    PROVE  Inv'
<1>1. cpu' \in Sensors \union {Shell} /\ ShellIsLast'
  BY ScheduleIsFair DEF ReadBegin, Inv, TypeOK
<1>2. /\ place[s] = "read"
      /\ bus' = IF bus = Free THEN s ELSE bus
      /\ place' = [place EXCEPT ![s] = IF bus = Free THEN "bus" ELSE "busWaiting"]
      /\ locked' = locked /\ left' = left /\ shell' = shell /\ command' = command
  BY DEF ReadBegin
<1>3. TypeOK'
  BY <1>1, <1>2 DEF Inv, TypeOK, Places, ReadyPlaces
<1>4. ReadingsRemain'
  BY <1>2 DEF Inv, TypeOK, ReadingsRemain
<1>5. BusInv'
  BY <1>2, SensorsAssumption DEF Inv, TypeOK, BusInv, Shell, Free
<1>6. StoppedMeansSilent'
  BY <1>2 DEF Inv, TypeOK, StoppedMeansSilent
<1> QED
  BY <1>1, <1>3, <1>4, <1>5, <1>6 DEF Inv

\* So does the end of a reading, which hands the bus over.
LEMMA ReadEndStep ==
    ASSUME Inv, NEW s \in Sensors, ReadEnd(s)
    PROVE  Inv'
<1> DEFINE placed == [place EXCEPT ![s] = IF left[s] > 1 THEN "read" ELSE "unlock"]
<1>1. cpu' \in Sensors \union {Shell} /\ ShellIsLast'
  BY ScheduleIsFair DEF ReadEnd, Inv, TypeOK
<1>2. /\ place[s] = "bus" /\ left' = [left EXCEPT ![s] = @ - 1]
      /\ locked' = locked /\ shell' = shell /\ command' = command
  BY DEF ReadEnd
<1>3. ReleaseBus(placed)
  BY DEF ReadEnd
<1>4. placed \in [Sensors -> Places] /\ \A t \in Sensors : placed[t] # "bus"
  BY <1>2 DEF Inv, TypeOK, BusInv, Places, ReadyPlaces
<1>5. left[s] \in Nat /\ left[s] > 0
  BY <1>2 DEF Inv, TypeOK, ReadingsRemain
<1>6. \A t \in Sensors : placed[t] = IF t # s THEN place[t]
                                     ELSE IF left[s] > 1 THEN "read" ELSE "unlock"
  BY DEF Inv, TypeOK
<1>7. \A t \in Sensors : left'[t] = IF t # s THEN left[t] ELSE left[s] - 1
  BY <1>2 DEF Inv, TypeOK
<1> HIDE DEF placed
<1>8. /\ place' \in [Sensors -> Places]
      /\ bus' \in Sensors \union {Free}
      /\ \A t \in Sensors : place'[t] = "bus" <=> bus' = t
      /\ \A t \in Sensors : place'[t] = placed[t]
                            \/ (placed[t] = "busWaiting" /\ place'[t] = "bus")
      /\ (\E t \in Sensors : place'[t] = "busWaiting") => bus' # Free
  BY <1>3, <1>4, BusIsHandedOver
<1>9. left' \in [Sensors -> Nat]
  BY <1>2, <1>5 DEF Inv, TypeOK
<1>10. TypeOK'
  BY <1>1, <1>2, <1>8, <1>9 DEF Inv, TypeOK
<1>11. ReadingsRemain'
  BY <1>5, <1>6, <1>7, <1>8 DEF Inv, ReadingsRemain
<1>12. BusInv'
  <2>1. bus = s /\ s # Shell /\ bus' # Shell
    BY <1>2, <1>8, SensorsAssumption DEF Inv, BusInv, Shell, Free
  <2> QED
    BY <1>2, <1>8, <2>1 DEF Inv, BusInv
<1>13. StoppedMeansSilent'
  BY <1>2, <1>6, <1>8 DEF Inv, StoppedMeansSilent
<1> QED
  BY <1>1, <1>10, <1>11, <1>12, <1>13 DEF Inv

\* So does the end of a round ...
LEMMA UnlockStep ==
    ASSUME Inv, NEW s \in Sensors, Unlock(s)
    PROVE  Inv'
<1>1. cpu' \in Sensors \union {Shell} /\ ShellIsLast'
  BY ScheduleIsFair DEF Unlock, Inv, TypeOK
<1>2. /\ place[s] = "unlock" /\ place' = [place EXCEPT ![s] = "asleep"]
      /\ locked' = [locked EXCEPT ![s] = FALSE]
      /\ left' = left /\ bus' = bus /\ shell' = shell /\ command' = command
  BY DEF Unlock
<1> QED
  BY <1>1, <1>2 DEF Inv, TypeOK, ReadingsRemain, BusInv, StoppedMeansSilent,
                    Places, ReadyPlaces

\* ... and so does a timer that expires.
LEMMA WakeStep ==
    ASSUME Inv, NEW s \in Sensors, Wake(s)
    PROVE  Inv'
<1>1. cpu' \in Sensors \union {Shell} /\ ShellIsLast'
  BY ScheduleIsFair DEF Wake, Inv, TypeOK
<1>2. /\ place[s] = "asleep" /\ place' = [place EXCEPT ![s] = "lock"]
      /\ locked' = locked
      /\ left' = left /\ bus' = bus /\ shell' = shell /\ command' = command
  BY DEF Wake
<1> QED
  BY <1>1, <1>2 DEF Inv, TypeOK, ReadingsRemain, BusInv, StoppedMeansSilent,
                    Places, ReadyPlaces

\* "start" keeps the invariant, whether the thread waits or not.
LEMMA StartStep ==
    ASSUME Inv, NEW s \in Sensors, Start(s)
    PROVE  Inv'
<1>1. cpu' \in Sensors \union {Shell} /\ ShellIsLast'
  BY ScheduleIsFair DEF Start, Inv, TypeOK
<1>2. /\ command' = [command EXCEPT ![s] = "start"]
      /\ bus' = bus /\ shell' = shell
  BY DEF Start
<1>3. CASE place[s] = "waiting"
  <2>1. /\ place' = [place EXCEPT ![s] = "read"]
        /\ left' = [left EXCEPT ![s] = Reads[s]] /\ locked' = locked
    BY <1>3 DEF Start
  <2>2. Reads[s] \in Nat \ {0}
    BY ReadsAssumption
  <2> QED
    BY <1>1, <1>2, <1>3, <2>1, <2>2
    DEF Inv, TypeOK, ReadingsRemain, BusInv, StoppedMeansSilent, Places, ReadyPlaces
<1>4. CASE place[s] # "waiting"
  <2>1. locked' = [locked EXCEPT ![s] = FALSE] /\ place' = place /\ left' = left
    BY <1>4 DEF Start
  <2> QED
    BY <1>1, <1>2, <2>1 DEF Inv, TypeOK, ReadingsRemain, BusInv, StoppedMeansSilent
<1> QED
  BY <1>3, <1>4

\* "stop" finds the thread outside of its round: it can neither run, as the
\* shell does, nor wait for the bus, which is free.
LEMMA StopStep ==
    ASSUME Inv, NEW s \in Sensors, Stop(s)
    PROVE  Inv'
<1>1. bus = Free
  BY BusIsFreeForTheShell DEF Stop, BusIsConsistent
<1>2. place[s] \in {"lock", "waiting", "asleep"}
  BY <1>1 DEF Stop, Inv, TypeOK, ShellIsLast, BusInv, Places, ReadyPlaces
<1>3. /\ command' = [command EXCEPT ![s] = "stop"]
      /\ locked' = [locked EXCEPT ![s] = TRUE]
      /\ place' = place /\ left' = left /\ bus' = bus /\ shell' = shell /\ cpu' = cpu
  BY DEF Stop
<1> QED
  BY <1>2, <1>3
  DEF Inv, TypeOK, ShellIsLast, ReadingsRemain, BusInv, StoppedMeansSilent

\* A command that reads a sensor takes the free bus ...
LEMMA ShellReadBeginStep ==
    ASSUME Inv, ShellReadBegin
    PROVE  Inv'
<1>1. /\ bus = Free /\ shell' = "reading" /\ bus' = Shell /\ locked' = locked
      /\ place' = place /\ left' = left /\ cpu' = cpu /\ command' = command
  BY DEF ShellReadBegin
<1> QED
  BY <1>1, SensorsAssumption
  DEF Inv, TypeOK, ShellIsLast, ReadingsRemain, BusInv, StoppedMeansSilent, Shell, Free

\* ... and hands it over.
LEMMA ShellReadEndStep ==
    ASSUME Inv, ShellReadEnd
    PROVE  Inv'
<1>1. cpu' \in Sensors \union {Shell} /\ ShellIsLast'
  BY ScheduleIsFair DEF ShellReadEnd, Inv, TypeOK
<1>2. /\ shell = "reading" /\ shell' = "prompt" /\ ReleaseBus(place)
      /\ locked' = locked /\ left' = left /\ command' = command
  BY DEF ShellReadEnd
<1>3. bus = Shell /\ place \in [Sensors -> Places] /\ \A s \in Sensors : place[s] # "bus"
  BY <1>2, SensorsAssumption DEF Inv, TypeOK, BusInv
<1>4. /\ place' \in [Sensors -> Places]
      /\ bus' \in Sensors \union {Free}
      /\ \A s \in Sensors : place'[s] = "bus" <=> bus' = s
      /\ \A s \in Sensors : place'[s] = place[s]
                            \/ (place[s] = "busWaiting" /\ place'[s] = "bus")
      /\ (\E s \in Sensors : place'[s] = "busWaiting") => bus' # Free
  BY <1>2, <1>3, BusIsHandedOver
<1>5. bus' # Shell
  BY <1>4, SensorsAssumption DEF Shell, Free
<1>6. TypeOK' /\ BusInv'
  BY <1>1, <1>2, <1>4, <1>5 DEF Inv, TypeOK, BusInv
<1>7. ReadingsRemain' /\ StoppedMeansSilent'
  BY <1>2, <1>4 DEF Inv, ReadingsRemain, StoppedMeansSilent
<1> QED
  BY <1>1, <1>6, <1>7 DEF Inv

-----------------------------------------------------------------------------
(* The theorems.                                                           *)

\* main() establishes the invariant.
LEMMA InvInit == Init => Inv
  BY SensorsAssumption
  DEF Init, Inv, TypeOK, ShellIsLast, ReadingsRemain, BusInv, StoppedMeansSilent,
      Places, ReadyPlaces, Shell, Free

\* No step of a thread, a timer or the shell breaks it.
LEMMA InvStep == Inv /\ [Next]_vars => Inv'
<1> SUFFICES ASSUME Inv, [Next]_vars PROVE Inv'
  OBVIOUS
<1>1. ASSUME NEW s \in Sensors, Sensor(s) PROVE Inv'
  BY <1>1, LockStep, ReadBeginStep, ReadEndStep, UnlockStep DEF Sensor
<1>2. ASSUME NEW s \in Sensors, Wake(s) PROVE Inv'
  BY <1>2, WakeStep
<1>3. CASE Command
  BY <1>3, ShellReadBeginStep, StartStep, StopStep DEF Command
<1>4. CASE ShellReadEnd
  BY <1>4, ShellReadEndStep
<1>5. CASE UNCHANGED vars
  BY <1>5 DEF vars, Inv, TypeOK, ShellIsLast, ReadingsRemain, BusInv, StoppedMeansSilent
<1> QED
  BY <1>1, <1>2, <1>3, <1>4, <1>5 DEF Next

\* Every variable keeps its type; a round never counts below zero.
THEOREM TypesHold == Spec => []TypeOK
<1>1. Inv => TypeOK
  BY DEF Inv
<1> QED
  BY InvInit, InvStep, <1>1, PTL DEF Spec

\* Once stop was typed no reading is under way and none begins until start,
\* for any number of sensors that share the bus.
THEOREM StopTheorem == Spec => []StoppedMeansSilent
<1>1. Inv => StoppedMeansSilent
  BY DEF Inv
<1> QED
  BY InvInit, InvStep, <1>1, PTL DEF Spec

\* The bus has the one owner that uses it, somebody waits only for an owner,
\* and the shell always finds it free.
THEOREM BusTheorem == Spec => []BusIsConsistent
<1> QED
  BY InvInit, InvStep, BusIsFreeForTheShell, PTL DEF Spec

=============================================================================
