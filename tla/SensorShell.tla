---------------------------- MODULE SensorShell ----------------------------
(***************************************************************************)
(* tutorials_riotos/sensor-m3: two threads read their sensor over and over *)
(* while a mutex lets them; the shell's commands start and stop them by    *)
(* unlocking and locking that mutex, and read two other sensors.           *)
(*                                                                         *)
(* RIOT (external) runs the ready thread of the highest priority.  The two *)
(* sensor threads have one priority more than the shell and keep the       *)
(* processor until they block or sleep; the shell runs when neither can.   *)
(* mutex_unlock() hands a mutex over to the thread that waits for it.  The *)
(* sensors' drivers (external) lock the one I2C bus for every reading.     *)
(***************************************************************************)
EXTENDS Integers

CONSTANTS
    Sensors,  \* the sensors with a thread of their own
    Reads     \* Reads[s]: readings that s takes in a round

Shell == "shell"
Free == "free"

ASSUME SensorsAssumption == Shell \notin Sensors /\ Free \notin Sensors
ASSUME ReadsAssumption == Reads \in [Sensors -> Nat \ {0}]

VARIABLES
    locked,   \* locked[s]: whether the mutex of s is locked
    place,    \* place[s]: where the thread of s stands
    left,     \* left[s]: readings that remain in the round
    bus,      \* who has locked the I2C bus
    shell,    \* whether the shell waits for a command or reads a sensor
    cpu,      \* the thread that runs
    command   \* history: command[s], the last of start and stop for s

vars == <<locked, place, left, bus, shell, cpu, command>>

\* mutex_lock(), reading, holding the bus, mutex_unlock(): the thread can go on.
\* It cannot in mutex_lock() of a locked mutex or of the bus, nor asleep.
ReadyPlaces == {"lock", "read", "bus", "unlock"}
Places == ReadyPlaces \union {"waiting", "busWaiting", "asleep"}

\* main(): the threads have run up to their locked mutexes.
Init ==
    /\ locked = [s \in Sensors |-> TRUE]
    /\ place = [s \in Sensors |-> "waiting"]
    /\ left = [s \in Sensors |-> 0]
    /\ bus = Free
    /\ shell = "prompt"
    /\ cpu = Shell
    /\ command = [s \in Sensors |-> "stop"]

Ready == {s \in Sensors : place'[s] \in ReadyPlaces}

\* Mutant: the shell has the priority of the sensor threads.
ScheduleAlike ==
    cpu' \in IF cpu \in Ready THEN {cpu, Shell}
             ELSE Ready \union {Shell}

\* Who runs after a step: the sensor thread that ran, if it still can; else
\* another one; else the shell.
Schedule ==
    cpu' \in IF cpu \in Ready THEN {cpu}
             ELSE IF Ready = {} THEN {Shell} ELSE Ready

\* The bus is unlocked: a thread that waits gets it.
ReleaseBus(placed) ==
    LET waiting == {s \in Sensors : placed[s] = "busWaiting"}
    IN  IF waiting = {}
        THEN bus' = Free /\ place' = placed
        ELSE \E s \in waiting : bus' = s /\ place' = [placed EXCEPT ![s] = "bus"]

-----------------------------------------------------------------------------
(* The sensor threads: lsm303dlhc_thread() and l3g4200d_thread().          *)

\* mutex_lock() at the head of the loop.
Lock(s) ==
    /\ cpu = s
    /\ place[s] = "lock"
    /\ place' = [place EXCEPT ![s] = IF locked[s] THEN "waiting" ELSE "read"]
    /\ locked' = [locked EXCEPT ![s] = TRUE]
    /\ left' = [left EXCEPT ![s] = IF locked[s] THEN @ ELSE Reads[s]]
    /\ Schedule
    /\ UNCHANGED <<bus, shell, command>>

\* The driver locks the bus, or waits for it.
ReadBegin(s) ==
    /\ cpu = s
    /\ place[s] = "read"
    /\ bus' = IF bus = Free THEN s ELSE bus
    /\ place' = [place EXCEPT ![s] = IF bus = Free THEN "bus" ELSE "busWaiting"]
    /\ Schedule
    /\ UNCHANGED <<locked, left, shell, command>>

\* Mutant: a round takes one reading too many.
ReadEndOnceMore(s) ==
    /\ cpu = s
    /\ place[s] = "bus"
    /\ left' = [left EXCEPT ![s] = @ - 1]
    /\ ReleaseBus([place EXCEPT ![s] = IF left[s] > 0 THEN "read" ELSE "unlock"])
    /\ Schedule
    /\ UNCHANGED <<locked, shell, command>>

\* The driver unlocks the bus; what it read is printed.
ReadEnd(s) ==
    /\ cpu = s
    /\ place[s] = "bus"
    /\ left' = [left EXCEPT ![s] = @ - 1]
    /\ ReleaseBus([place EXCEPT ![s] = IF left[s] > 1 THEN "read" ELSE "unlock"])
    /\ Schedule
    /\ UNCHANGED <<locked, shell, command>>

\* Mutant: the mutex stays locked at the end of a round.
UnlockForgotten(s) ==
    /\ cpu = s
    /\ place[s] = "unlock"
    /\ place' = [place EXCEPT ![s] = "asleep"]
    /\ Schedule
    /\ UNCHANGED <<locked, left, bus, shell, command>>

\* mutex_unlock() and ztimer_sleep().
Unlock(s) ==
    /\ cpu = s
    /\ place[s] = "unlock"
    /\ locked' = [locked EXCEPT ![s] = FALSE]
    /\ place' = [place EXCEPT ![s] = "asleep"]
    /\ Schedule
    /\ UNCHANGED <<left, bus, shell, command>>

\* The timer's interrupt, at any time.
Wake(s) ==
    /\ place[s] = "asleep"
    /\ place' = [place EXCEPT ![s] = "lock"]
    /\ Schedule
    /\ UNCHANGED <<locked, left, bus, shell, command>>

-----------------------------------------------------------------------------
(* The shell: lsm303dlhc_handler(), l3g4200d_handler(), and the readings   *)
(* of lpsxxx_handler() and isl29020_handler().                             *)

\* "start": mutex_unlock(), which lets a waiting thread go on at once.
Start(s) ==
    /\ cpu = Shell
    /\ shell = "prompt"
    /\ command' = [command EXCEPT ![s] = "start"]
    /\ IF place[s] = "waiting"
       THEN /\ place' = [place EXCEPT ![s] = "read"]
            /\ left' = [left EXCEPT ![s] = Reads[s]]
            /\ UNCHANGED locked
       ELSE /\ locked' = [locked EXCEPT ![s] = FALSE]
            /\ UNCHANGED <<place, left>>
    /\ Schedule
    /\ UNCHANGED <<bus, shell>>

\* "stop": mutex_trylock(), whose result is ignored.
Stop(s) ==
    /\ cpu = Shell
    /\ shell = "prompt"
    /\ command' = [command EXCEPT ![s] = "stop"]
    /\ locked' = [locked EXCEPT ![s] = TRUE]
    /\ UNCHANGED <<place, left, bus, shell, cpu>>

\* "lps" or "isl": the driver locks the bus.
ShellReadBegin ==
    /\ cpu = Shell
    /\ shell = "prompt"
    /\ bus = Free
    /\ shell' = "reading"
    /\ bus' = Shell
    /\ UNCHANGED <<locked, place, left, cpu, command>>

\* Mutant: the command returns without unlocking the bus.
ShellReadEndKeepsBus ==
    /\ cpu = Shell
    /\ shell = "reading"
    /\ shell' = "prompt"
    /\ UNCHANGED <<locked, place, left, bus, cpu, command>>

\* The driver unlocks the bus, the value is printed.
ShellReadEnd ==
    /\ cpu = Shell
    /\ shell = "reading"
    /\ shell' = "prompt"
    /\ ReleaseBus(place)
    /\ Schedule
    /\ UNCHANGED <<locked, left, command>>

-----------------------------------------------------------------------------
Sensor(s) == Lock(s) \/ ReadBegin(s) \/ ReadEnd(s) \/ Unlock(s)

Command == ShellReadBegin \/ \E s \in Sensors : Start(s) \/ Stop(s)

Next ==
    \/ \E s \in Sensors : Sensor(s) \/ Wake(s)
    \/ Command
    \/ ShellReadEnd

Spec == Init /\ [][Next]_vars

(***************************************************************************)
(* The processor goes on with the thread that runs, timers expire, and a   *)
(* reading ends; the user need not type anything.                          *)
(***************************************************************************)
Fairness ==
    /\ \A s \in Sensors : WF_vars(Sensor(s)) /\ WF_vars(Wake(s))
    /\ WF_vars(ShellReadEnd)

FairSpec == Spec /\ Fairness

-----------------------------------------------------------------------------
(* Properties.                                                             *)

\* Every variable is of its kind.
TypeOK ==
    /\ locked \in [Sensors -> BOOLEAN]
    /\ place \in [Sensors -> Places]
    /\ left \in [Sensors -> Nat]
    /\ bus \in Sensors \union {Shell, Free}
    /\ shell \in {"prompt", "reading"}
    /\ cpu \in Sensors \union {Shell}
    /\ command \in [Sensors -> {"start", "stop"}]

\* README.md:13, "And will stop with `lsm stop`": once stop was typed no reading
\* is under way and none begins until start.  mutex_trylock() cannot meet a mutex that the sensor's
\* own thread holds, because of the priorities alone (main.c:80, 134, 209-212).
StoppedMeansSilent ==
    \A s \in Sensors : command[s] = "stop" =>
        locked[s] /\ place[s] \in {"lock", "waiting", "asleep"}

\* The bus belongs to the thread that uses it, and a thread waits for it only
\* while another one has it: no thread waits for ever, and a command of the
\* shell never does (main.c:48-51, 105, 159, 181).
BusIsConsistent ==
    /\ \A s \in Sensors : place[s] = "bus" <=> bus = s
    /\ shell = "reading" <=> bus = Shell
    /\ (\E s \in Sensors : place[s] = "busWaiting") => bus # Free
    /\ (cpu = Shell /\ shell = "prompt") => bus = Free

\* README.md:13: "Values will be read continuesly": a started sensor is read
\* again and again, whatever the other one and the shell do.
StartedIsRead ==
    \A s \in Sensors : []<>(place[s] = "bus" \/ command[s] = "stop")

=============================================================================
