----------------------------- MODULE ReportPath -----------------------------
(***************************************************************************)
(* One temperature message on its way from the node's buffer to the list   *)
(* of values that the server stores.  On the way single bits of its text   *)
(* may flip.  A flip turns a digit into another digit, or some character   *)
(* into one that int() refuses; then decodeTemperature() raises and        *)
(* render_post() stores nothing.                                           *)
(***************************************************************************)
EXTENDS TemperatureCodec

CONSTANTS
    Values,      \* averages a message may carry
    MessageSize, \* values in one message
    MaxHits      \* bound on the bits flipped in one message

ASSUME ValuesAssumption == Values \subseteq 0..32767
ASSUME MessageAssumption == MessageSize \in Nat \ {0}
ASSUME HitsAssumption == MaxHits \in Nat

VARIABLES
    phase,      \* "node", "wire", "stored" or "rejected"
    sent,       \* the values in the node's buffer
    wire,       \* the fields of the message under way
    garbled,    \* has the message a character that int() refuses?
    hits,       \* history variable: the pairs in which a digit changed
    hitCount,   \* bits flipped so far
    stored      \* what decodeTemperature() returned, in hundredths

pathVars == <<phase, sent, wire, garbled, hits, hitCount, stored>>

\* ASCII digits differ in the same bits as the numbers they stand for.
OneBitApart(d, e) == \E b \in 0..3 : d = e + 2^b /\ (e \div 2^b) % 2 = 0

Flips(d) == {e \in 0..9 : OneBitApart(d, e) \/ OneBitApart(e, d)}

\* The number of decimal places of n >= 0.
Places(n) == Cardinality({p \in 1..4 : n >= 10^p}) + 1

\* The numbers that one flipped bit can make of the text of n.
Damaged(n) ==
    UNION {LET d == (n \div 10^p) % 10
           IN  {n + (e - d) * 10^p : e \in Flips(d)} : p \in 0..(Places(n) - 1)}

PathInit ==
    /\ phase = "node"
    /\ sent = << >> /\ wire = << >> /\ stored = << >>
    /\ garbled = FALSE
    /\ hits = {} /\ hitCount = 0

\* main() hands a complete buffer to gcoap_post().
Send ==
    /\ phase # "wire"
    /\ \E values \in [1..MessageSize -> Values] :
          sent' = values /\ wire' = Encode(values)
    /\ phase' = "wire"
    /\ garbled' = FALSE
    /\ hits' = {} /\ hitCount' = 0
    /\ stored' = << >>

DamageDigit ==
    /\ phase = "wire" /\ hitCount < MaxHits
    /\ \E f \in DOMAIN wire : \E n \in Damaged(wire[f]) :
          /\ wire' = [wire EXCEPT ![f] = n]
          /\ hits' = hits \union {(f + 1) \div 2}
    /\ hitCount' = hitCount + 1
    /\ UNCHANGED <<phase, sent, garbled, stored>>

DamageSyntax ==
    /\ phase = "wire" /\ hitCount < MaxHits
    /\ garbled' = TRUE
    /\ hitCount' = hitCount + 1
    /\ UNCHANGED <<phase, sent, wire, hits, stored>>

\* render_post() decodes what arrived and stores the result.
RenderPost ==
    /\ phase = "wire"
    /\ IF garbled \/ ~CanDecode(wire)
       THEN phase' = "rejected" /\ stored' = << >>
       ELSE phase' = "stored" /\ stored' = decodeTemperature(wire)
    /\ UNCHANGED <<sent, wire, garbled, hits, hitCount>>

PathNext == Send \/ DamageDigit \/ DamageSyntax \/ RenderPost

PathSpec == PathInit /\ [][PathNext]_pathVars

-----------------------------------------------------------------------------
\* Every variable is of its kind.
PathTypeOK ==
    /\ phase \in {"node", "wire", "stored", "rejected"}
    /\ sent \in Seq(Values) /\ wire \in Seq(Nat) /\ stored \in Seq(Nat)
    /\ garbled \in BOOLEAN
    /\ hits \subseteq 1..MessageSize /\ hitCount \in 0..MaxHits

\* Damage stays where it happened: every value whose pair arrived whole is
\* stored exactly and in order, and a damaged pair becomes one value or none.
\* In particular the node's parity and the server's agree on whole pairs
\* (main.c:118-132, decoder.py:3-20).
DamageIsConfined ==
    phase = "stored" =>
        \E kept \in SUBSET (1..MessageSize) :
            /\ (1..MessageSize) \ hits \subseteq kept
            /\ Len(stored) = Cardinality(kept)
            /\ \A k \in kept \ hits :
                  stored[Cardinality({j \in kept : j <= k})] = sent[k]

\* docs/SENSOR.md:80: the server "average[s] out the corrupted data": when one
\* inner value is found damaged, what is stored in its place lies between its
\* neighbours (decoder.py:11-14).
AveragedOut ==
    phase = "stored" =>
        \A k \in 2..(MessageSize - 1) :
            (hits = {k} /\ ~parityCheck(wire[2 * k - 1], wire[2 * k])) =>
                LET low  == IF sent[k - 1] < sent[k + 1] THEN sent[k - 1] ELSE sent[k + 1]
                    high == IF sent[k - 1] < sent[k + 1] THEN sent[k + 1] ELSE sent[k - 1]
                IN  stored[k] \in low..high

=============================================================================
