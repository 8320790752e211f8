-------------------------- MODULE StatsServerProofs --------------------------
(***************************************************************************)
(* Proofs about StatsServer, for every set of payloads, every number of    *)
(* requests and every width of the counter.                                *)
(***************************************************************************)
EXTENDS StatsServer, Arithmetic

-----------------------------------------------------------------------------
(* Types.  An increment that is stored was sent before.                    *)

Counted == since + (IF shell \in {"sent", "counting"} THEN 1 ELSE 0) <= sends

TypeInv == TypeOK /\ Counted

\* What is cut to the width of the counter fits it.
LEMMA CutFits ==
    ASSUME NEW n \in Nat
    PROVE  n % CountModulus \in Counts
  BY ModulusAssumption, Division DEF Counts

\* No step of either thread leaves the types.
LEMMA TypeStep ==
    ASSUME TypeInv, [Next]_vars
    PROVE  TypeInv'
<1> USE SendsAssumption DEF TypeInv, TypeOK, Counted
<1>1. CASE CliSend
  BY <1>1 DEF CliSend, putHistory
<1>2. CASE CliLoadCount
  BY <1>2 DEF CliLoadCount, putHistory
<1>3. CASE CliStoreCount
  <2>1. loaded + 1 \in Nat
    BY ModulusAssumption DEF Counts
  <2>2. reqCount' \in Counts
    BY <1>3, <2>1, CutFits DEF CliStoreCount
  <2> QED
    BY <1>3, <2>2 DEF CliStoreCount
<1>4. CASE NotifyInit
  BY <1>4 DEF NotifyInit, putHistory
<1>5. CASE NotifyInitFails
  BY <1>5 DEF NotifyInitFails, putHistory
<1>6. CASE NotifySend
  BY <1>6 DEF NotifySend, putHistory
<1>7. CASE NotifySendFails
  BY <1>7 DEF NotifySendFails, putHistory
<1>8. CASE StatsObserve
  BY <1>8 DEF StatsObserve, shellVars, putHistory
<1>9. CASE StatsForget
  BY <1>9 DEF StatsForget, shellVars, putHistory
<1>10. ASSUME NEW p \in Payloads, StatsPut(p)
       PROVE  TypeInv'
  <2>1. p.number % CountModulus \in Counts
    BY PayloadsAssumption, CutFits
  <2> QED
    BY <1>10, <2>1 DEF StatsPut, shellVars
<1>11. CASE UNCHANGED vars
  BY <1>11 DEF vars, shellVars, putHistory
<1> QED
  BY <1>1, <1>2, <1>3, <1>4, <1>5, <1>6, <1>7, <1>8, <1>9, <1>10, <1>11
  DEF Next, Shell, Gcoap

\* The types hold at the start.
LEMMA TypeInit == Init => TypeInv
<1>1. 0 \in Counts /\ 0 \in 0..MaxSends
  BY SendsAssumption, ModulusAssumption DEF Counts
<1>2. Init => Counted
  BY DEF Init, Counted
<1> QED
  BY <1>1, <1>2 DEF Init, TypeInv, TypeOK

\* Every variable keeps its type: the count never leaves its 16 bits,
\* whatever is PUT and however often it is incremented.
THEOREM TypesHold == Spec => []TypeOK
<1>1. TypeInv => TypeOK
  BY DEF TypeInv
<1> QED
  BY TypeInit, TypeStep, <1>1, PTL DEF Spec

-----------------------------------------------------------------------------
(* The count.  It is inductive with what the shell has loaded: unless a    *)
(* PUT has torn the increment, that is the count.                          *)

LoadIsFresh == shell = "counting" /\ ~torn => loaded = reqCount

CountInv == CountIsExact /\ LoadIsFresh

\* No step of either thread makes the count wrong.
LEMMA CountStep ==
    ASSUME TypeInv, CountInv, [Next]_vars
    PROVE  CountInv'
<1> USE DEF CountInv, LoadIsFresh
<1>1. CASE CliSend
  BY <1>1 DEF CliSend, putHistory, CountIsExact
<1>2. CASE CliLoadCount
  BY <1>2 DEF CliLoadCount, putHistory, CountIsExact
<1>3. CASE CliStoreCount
  <2>1. /\ shell' = "counted" /\ torn' = torn /\ lastPut' = lastPut
        /\ since' = since + 1 /\ reqCount' = (loaded + 1) % CountModulus
    BY <1>3 DEF CliStoreCount
  <2>2. ASSUME ~torn
        PROVE  reqCount' = (lastPut' + since') % CountModulus
    <3>1. PICK n \in Nat : n = lastPut + since
      BY ModulusAssumption DEF TypeInv, TypeOK, Counts
    <3>2. loaded = n % CountModulus
      BY <1>3, <2>2, <3>1 DEF CountIsExact, CliStoreCount
    <3>3. ((n % CountModulus) + 1) % CountModulus = (n + 1) % CountModulus
      <4>1. n \in Int /\ 1 \in Int
        OBVIOUS
      <4> QED
        BY <4>1, ModulusAssumption, RemainderInSum, Zenon
    <3>4. lastPut' + since' = n + 1
      BY <2>1, <3>1, ModulusAssumption DEF TypeInv, TypeOK, Counts
    <3> QED
      BY <2>1, <3>2, <3>3, <3>4
  <2> QED
    BY <2>1, <2>2 DEF CountIsExact
<1>4. CASE NotifyInit
  BY <1>4 DEF NotifyInit, putHistory, CountIsExact
<1>5. CASE NotifyInitFails
  BY <1>5 DEF NotifyInitFails, putHistory, CountIsExact
<1>6. CASE NotifySend
  BY <1>6 DEF NotifySend, putHistory, CountIsExact
<1>7. CASE NotifySendFails
  BY <1>7 DEF NotifySendFails, putHistory, CountIsExact
<1>8. CASE StatsObserve
  BY <1>8 DEF StatsObserve, shellVars, putHistory, CountIsExact
<1>9. CASE StatsForget
  BY <1>9 DEF StatsForget, shellVars, putHistory, CountIsExact
<1>10. ASSUME NEW p \in Payloads, StatsPut(p)
       PROVE  CountInv'
  <2>1. PICK c \in Counts : c = p.number % CountModulus
    BY PayloadsAssumption, CutFits
  <2>2. c % CountModulus = c
    BY ModulusAssumption, OwnRemainder DEF Counts
  <2>3. c + 0 = c
    BY ModulusAssumption DEF Counts
  <2>4. reqCount' = c /\ lastPut' = c /\ since' = 0 /\ torn' = (shell = "counting")
        /\ shell' = shell
    BY <1>10, <2>1 DEF StatsPut, shellVars
  <2> QED
    BY <2>2, <2>3, <2>4 DEF CountIsExact
<1>11. CASE UNCHANGED vars
  BY <1>11 DEF vars, shellVars, putHistory, CountIsExact
<1> QED
  BY <1>1, <1>2, <1>3, <1>4, <1>5, <1>6, <1>7, <1>8, <1>9, <1>10, <1>11
  DEF Next, Shell, Gcoap

\* The count is right at the start.
LEMMA CountInit == Init => CountInv
<1>1. 0 \in 0..(CountModulus - 1) /\ 0 + 0 = 0
  BY ModulusAssumption
<1>2. 0 % CountModulus = 0
  BY <1>1, ModulusAssumption, OwnRemainder
<1> QED
  BY <1>1, <1>2 DEF Init, CountInv, CountIsExact, LoadIsFresh

\* The count is the last PUT and the requests since, unless that PUT came
\* between the load and the store of an increment: for every set of
\* payloads, every number of requests and every width of the counter.
THEOREM CountTheorem == Spec => []CountIsExact
<1>1. CountInv => CountIsExact
  BY DEF CountInv
<1> QED
  BY TypeInit, TypeStep, CountInit, CountStep, <1>1, PTL DEF Spec

-----------------------------------------------------------------------------
(* The observer.  While a notification is made, what is about to be sent   *)
(* is the count; until the next increment, what was sent is the count.     *)

ToldInv ==
    /\ shell \in {"prompt", "sent", "counting"} /\ observer /\ ~unheard => told = reqCount
    /\ shell = "notifying" /\ ~unheard => notice = reqCount

\* No step of either thread leaves the observer behind.
LEMMA ToldStep ==
    ASSUME TypeInv, ToldInv, [Next]_vars
    PROVE  ToldInv'
<1> USE DEF ToldInv
<1>1. CASE CliSend
  BY <1>1 DEF CliSend
<1>2. CASE CliLoadCount
  BY <1>2 DEF CliLoadCount
<1>3. CASE CliStoreCount
  BY <1>3 DEF CliStoreCount
<1>4. CASE NotifyInit
  BY <1>4 DEF NotifyInit
<1>5. CASE NotifyInitFails
  BY <1>5 DEF NotifyInitFails, TypeInv, TypeOK
<1>6. CASE NotifySend
  BY <1>6 DEF NotifySend
<1>7. CASE NotifySendFails
  BY <1>7 DEF NotifySendFails, TypeInv, TypeOK
<1>8. CASE StatsObserve
  BY <1>8 DEF StatsObserve, shellVars, TypeInv, TypeOK
<1>9. CASE StatsForget
  BY <1>9 DEF StatsForget, shellVars, TypeInv, TypeOK
<1>10. ASSUME NEW p \in Payloads, StatsPut(p)
       PROVE  ToldInv'
  BY <1>10 DEF StatsPut, shellVars
<1>11. CASE UNCHANGED vars
  BY <1>11 DEF vars, shellVars
<1> QED
  BY <1>1, <1>2, <1>3, <1>4, <1>5, <1>6, <1>7, <1>8, <1>9, <1>10, <1>11
  DEF Next, Shell, Gcoap

\* There is no observer at the start.
LEMMA ToldInit == Init => ToldInv
  BY DEF Init, ToldInv

\* An observer knows the count whenever the shell is at rest, in every order
\* of registrations and notifications; only a PUT or a notification that
\* cannot be sent leaves it behind.
THEOREM ObserverTheorem == Spec => []ObserverKnowsCount
<1>1. ToldInv => ObserverKnowsCount
  BY DEF ToldInv, ObserverKnowsCount
<1> QED
  BY TypeInit, TypeStep, ToldInit, ToldStep, <1>1, PTL DEF Spec

=============================================================================
