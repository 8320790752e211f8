--------------------------- MODULE RoundedAverages ---------------------------
(***************************************************************************)
(* What both sensor programs compute of a full window of readings, and     *)
(* how much room its text takes: src/sensor/sensor-connected/main.c and    *)
(* src/sensor/sensor-m3-temperature/main.c.                                *)
(***************************************************************************)
EXTENDS Integers, Functions

CONSTANT Window  \* size of the moving average: 5, data_t.tempList

ASSUME WindowAssumption == Window \in Nat \ {0}

Int16 == {n \in Int : -32768 <= n /\ n <= 32767}

\* Characters that "%i" prints for an int16_t.
DecimalLen(v) ==
    LET Magnitude == IF v < 0 THEN -v ELSE v
        Longer(bound) == IF Magnitude >= bound THEN 1 ELSE 0
    IN  (IF v < 0 THEN 2 ELSE 1)
        + Longer(10) + Longer(100) + Longer(1000) + Longer(10000)

\* The cast of a double to int16_t; C leaves it undefined out of range.
CastInt16(x) == IF x \in Int16 THEN x ELSE CHOOSE y \in Int16 : TRUE

\* round() of a / b for b > 0: to the nearest integer, halves away from zero.
Round(a, b) ==
    IF a >= 0 THEN (2 * a + b) \div (2 * b)
              ELSE -((b - 2 * a) \div (2 * b))

\* Mutant: (int16_t)(sum / numElements) truncates instead of rounding.
TruncatedAvg(window) ==
    LET sum == SumFunction(window)
    IN  CastInt16(IF sum >= 0 THEN sum \div Window ELSE -((-sum) \div Window))

RoundedAvg(window) == CastInt16(Round(SumFunction(window), Window))

=============================================================================
