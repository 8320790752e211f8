--------------------------- MODULE TemperatureCodec ---------------------------
(***************************************************************************)
(* The two ends of a temperature message: the parity bit that the node     *)
(* puts beside every value (sensor-connected/main.c) and what the server's *)
(* decodeTemperature() makes of the fields it receives (server/decoder.py).*)
(* A message "v1,p1,v2,p2," is the sequence of its numbers.  Decoded       *)
(* values are counted in hundredths of what the server stores, so that     *)
(* value/100 is `value` and a value stored as it is counts 100 times more. *)
(***************************************************************************)
EXTENDS Integers, Sequences, SequencesExt

\* Number of ones in the binary form of n >= 0; five digits fit in 17 bits.
Ones(n) == Cardinality({b \in 0..16 : (n \div 2^b) % 2 = 1})

\* int calculate_odd_parity(int num), for the num >= 0 on which it returns.
calculate_odd_parity(num) == IF Ones(num) % 2 = 0 THEN 1 ELSE 0

\* What main() appends for the averages `values`.
Encode(values) ==
    FlattenSeq([k \in DOMAIN values |-> <<values[k], calculate_odd_parity(values[k])>>])

\* Mutant: the server checks for even parity.
parityCheckEven(value, parity) == (Ones(value) + parity) % 2 = 0

\* def parityCheck(value, parity): bin() of a negative number is its
\* magnitude in binary with a sign in front.
parityCheck(value, parity) ==
    LET magnitude == IF value < 0 THEN -value ELSE value
    IN  (Ones(magnitude) + parity) % 2 = 1

\* Mutant: the difference of the neighbours in place of their sum.
DecodedPairSubtracts(message, k) ==
    IF parityCheck(message[2 * k - 1], message[2 * k]) THEN <<message[2 * k - 1]>>
    ELSE IF 1 < k /\ 2 * k < Len(message)
         THEN <<100 * ((message[2 * k - 3] - message[2 * k + 1]) \div 2)>>
         ELSE << >>

(***************************************************************************)
(* What the loop of decodeTemperature() appends for the k-th pair: the     *)
(* value if its parity holds, else the mean of its neighbours' values,     *)
(* which are not checked and, unlike the value, not divided by 100.  The   *)
(* first and the last pair have one neighbour only and are left out.       *)
(***************************************************************************)
DecodedPair(message, k) ==
    LET value  == message[2 * k - 1]
        parity == message[2 * k]
    IN  IF parityCheck(value, parity) THEN <<value>>
        ELSE IF 1 < k /\ 2 * k < Len(message)
             THEN <<100 * ((message[2 * k - 3] + message[2 * k + 1]) \div 2)>>
             ELSE << >>

\* An odd number of fields makes message[i + 1] raise an IndexError.
CanDecode(message) == Len(message) > 0 /\ Len(message) % 2 = 0

\* def decodeTemperature(message), for a message that CanDecode.
decodeTemperature(message) ==
    FlattenSeq([k \in 1..(Len(message) \div 2) |-> DecodedPair(message, k)])

=============================================================================
