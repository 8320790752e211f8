--------------------------- MODULE TcpServerProofs ---------------------------
(***************************************************************************)
(* Proofs about TcpServer, for every max_messages, every number of         *)
(* clients and of Flask's threads, and every length of the backlog.        *)
(***************************************************************************)
EXTENDS TcpServer, SequenceTheorems, TLAPS

-----------------------------------------------------------------------------
(* Types.  The list is one longer than max_messages only between append()  *)
(* and the cut; the sequence is never ahead of it by more than the message *)
(* that is about to be stored.                                             *)

Bounds ==
    /\ thread \in {"warn", "recv", "append"} => current \in Clients
    /\ sequence <= Len(messages) + (IF thread = "append" THEN 1 ELSE 0)
    /\ thread = "append" => sequence >= 1
    /\ Len(messages) <= MaxMessages + (IF thread = "manage" THEN 1 ELSE 0)

TypeInv == TypeOK /\ Bounds

\* Half of max_messages is at least one, and no more than all.
LEMMA HalfFacts == Half \in Nat /\ 1 <= Half /\ Half <= MaxMessages
  BY MessagesAssumption DEF Half

\* What is left of a list that is cut.
LEMMA TrimProperties ==
    ASSUME NEW S, NEW list \in Seq(S), Half <= Len(list)
    PROVE  /\ Trim(list) \in Seq(S)
           /\ Len(Trim(list)) = Len(list) - Half
           /\ \A i \in 1..(Len(list) - Half) : Trim(list)[i] = list[i + Half]
<1>1. PICK h \in Nat : h = Half
  BY HalfFacts
<1>2. PICK n \in Nat : n = Len(list)
  BY LenProperties
<1>3. \A i \in (h + 1)..n : list[i] \in S
  BY <1>2, ElementOfSeq
<1>4. h + 1 \in Int /\ n \in Int
  BY <1>1, <1>2
<1>5. /\ SubSeq(list, h + 1, n) \in Seq(S)
      /\ Len(SubSeq(list, h + 1, n)) = IF h + 1 <= n THEN n - (h + 1) + 1 ELSE 0
      /\ \A i \in 1..(n - (h + 1) + 1) : SubSeq(list, h + 1, n)[i] = list[h + 1 + i - 1]
  BY <1>3, <1>4, SubSeqProperties
<1>6. \A i \in 1..(n - h) : i \in 1..(n - (h + 1) + 1) /\ h + 1 + i - 1 = i + h
  BY <1>1, <1>2
<1>7. (IF h + 1 <= n THEN n - (h + 1) + 1 ELSE 0) = n - h
  BY <1>1, <1>2
<1> QED
  BY <1>1, <1>2, <1>5, <1>6, <1>7 DEF Trim

\* The message that is stored is one.
LEMMA MessageType ==
    ASSUME TypeInv, thread = "append"
    PROVE  [client |-> current, number |-> sequence] \in Entries
<1>1. PICK m \in Nat : m = MaxMessages
  BY MessagesAssumption
<1>2. PICK n \in Nat : n = Len(messages)
  BY LenProperties DEF TypeInv, TypeOK
<1>3. sequence \in 1..(m + 1)
  BY <1>1, <1>2 DEF TypeInv, TypeOK, Bounds
<1> QED
  BY <1>1, <1>3 DEF TypeInv, TypeOK, Bounds, Entries

\* Steps of the accepting thread that leave the list and the sequence alone.
LEMMA ThreadMoves ==
    ASSUME TypeInv, Accept \/ Warn \/ WarnFails \/ RecvNothing \/ Close
    PROVE  TypeInv'
<1>1. CASE Accept
  <2>1. Head(backlog) \in Clients /\ Tail(backlog) \in Seq(Clients)
    BY <1>1, HeadTailProperties DEF Accept, TypeInv, TypeOK
  <2> QED
    BY <1>1, <2>1 DEF Accept, TypeInv, TypeOK, Bounds, readerVars
<1>2. CASE Warn \/ WarnFails \/ RecvNothing
  BY <1>2 DEF Warn, WarnFails, RecvNothing, TypeInv, TypeOK, Bounds, tcpVars, readerVars
<1>3. CASE Close
  BY <1>3 DEF Close, TypeInv, TypeOK, Bounds, tcpVars, readerVars
<1> QED
  BY <1>1, <1>2, <1>3

\* A text gets the next number.
LEMMA RecvTextTypes ==
    ASSUME TypeInv, RecvText
    PROVE  TypeInv'
<1>1. PICK m \in Nat : m = MaxMessages
  BY MessagesAssumption
<1>2. PICK n \in Nat : n = Len(messages)
  BY LenProperties DEF TypeInv, TypeOK
<1>3. /\ thread = "recv" /\ thread' = "append" /\ sequence' = sequence + 1
      /\ UNCHANGED <<messages, current, received, tcpVars, readerVars, trimmed>>
  BY DEF RecvText
<1>4. sequence \in Nat /\ sequence <= n /\ n <= m
  BY <1>1, <1>2, <1>3 DEF TypeInv, TypeOK, Bounds
<1>5. sequence' \in 0..(m + 1) /\ sequence' <= n + 1 /\ sequence' >= 1
  BY <1>3, <1>4
<1> QED
  BY <1>1, <1>2, <1>3, <1>4, <1>5 DEF TypeInv, TypeOK, Bounds, tcpVars, readerVars

\* append() makes the list longer than it may stay.
LEMMA StoreTypes ==
    ASSUME TypeInv, StoreMessage
    PROVE  TypeInv'
<1>1. PICK m \in Nat : m = MaxMessages
  BY MessagesAssumption
<1>2. PICK n \in Nat : n = Len(messages)
  BY LenProperties DEF TypeInv, TypeOK
<1>3. PICK e \in Entries : e = [client |-> current, number |-> sequence]
  BY MessageType DEF StoreMessage
<1>4. /\ thread = "append" /\ thread' = "manage"
      /\ messages' = Append(messages, e) /\ received' = Append(received, e)
      /\ UNCHANGED <<sequence, current, tcpVars, readerVars, trimmed>>
  BY <1>3 DEF StoreMessage
<1>5. messages' \in Seq(Entries) /\ received' \in Seq(Entries) /\ Len(messages') = n + 1
  BY <1>2, <1>4, AppendProperties DEF TypeInv, TypeOK
<1>6. n <= m /\ sequence <= n + 1 /\ sequence \in Nat
  BY <1>1, <1>2, <1>4 DEF TypeInv, TypeOK, Bounds
<1>7. TypeOK'
  BY <1>4, <1>5 DEF TypeInv, TypeOK, tcpVars, readerVars
<1>8. Bounds'
  BY <1>1, <1>4, <1>5, <1>6 DEF Bounds
<1> QED
  BY <1>7, <1>8 DEF TypeInv

\* The cut makes it short enough again.
LEMMA ManageTypes ==
    ASSUME TypeInv, ManageMessages
    PROVE  TypeInv'
<1>1. PICK m \in Nat, h \in Nat : m = MaxMessages /\ h = Half /\ 1 <= h /\ h <= m
  BY MessagesAssumption, HalfFacts
<1>2. PICK n \in Nat : n = Len(messages)
  BY LenProperties DEF TypeInv, TypeOK
<1>3. /\ thread = "manage" /\ thread' = "close"
      /\ messages' = IF n > m THEN Trim(messages) ELSE messages
      /\ sequence' = IF n > m THEN 0 ELSE sequence
      /\ trimmed' = [r \in Readers |-> trimmed[r] \/ n > m]
      /\ UNCHANGED <<current, received, tcpVars, readerVars>>
  BY <1>1, <1>2 DEF ManageMessages
<1>4. n <= m + 1 /\ sequence <= n /\ sequence \in 0..(m + 1)
  BY <1>1, <1>2, <1>3 DEF TypeInv, TypeOK, Bounds
<1>5. CASE n > m
  <2>1. messages' \in Seq(Entries) /\ Len(messages') = n - h
    <3>1. messages \in Seq(Entries) /\ Half <= Len(messages)
      BY <1>1, <1>2, <1>5 DEF TypeInv, TypeOK
    <3>2. Trim(messages) \in Seq(Entries) /\ Len(Trim(messages)) = Len(messages) - Half
      BY <3>1, TrimProperties
    <3> QED
      BY <1>1, <1>2, <1>3, <1>5, <3>2
  <2>2. sequence' = 0 /\ 0 \in 0..(m + 1) /\ 0 <= n - h /\ n - h <= m
    BY <1>1, <1>3, <1>4, <1>5
  <2>3. TypeOK'
    BY <1>1, <1>3, <2>1, <2>2 DEF TypeInv, TypeOK, tcpVars, readerVars
  <2>4. Bounds'
    BY <1>1, <1>3, <2>1, <2>2 DEF Bounds
  <2> QED
    BY <2>3, <2>4 DEF TypeInv
<1>6. CASE ~(n > m)
  <2>1. messages' = messages /\ sequence' = sequence /\ n <= m
    BY <1>3, <1>6
  <2>2. TypeOK'
    BY <1>3, <2>1 DEF TypeInv, TypeOK, tcpVars, readerVars
  <2>3. Bounds'
    BY <1>1, <1>2, <1>3, <1>4, <2>1 DEF Bounds
  <2> QED
    BY <2>2, <2>3 DEF TypeInv
<1> QED
  BY <1>5, <1>6

\* Clients and readers leave the list alone.
LEMMA TcpTypes ==
    ASSUME TypeInv, Tcp
    PROVE  TypeInv'
<1>1. CASE Connect
  <2>1. connected + 1 \in Clients /\ connected + 1 \in 0..MaxClients
    BY <1>1, ClientsAssumption DEF Connect, TypeInv, TypeOK, Clients
  <2>2. PICK c \in Clients : c = connected + 1
    BY <2>1
  <2>3. Append(backlog, c) \in Seq(Clients)
    BY AppendProperties DEF TypeInv, TypeOK
  <2> QED
    BY <1>1, <2>1, <2>2, <2>3 DEF Connect, TypeInv, TypeOK, Bounds, serverVars, readerVars
<1>2. ASSUME NEW c \in Clients, Act(c)
      PROVE  TypeInv'
  BY <1>2 DEF Act, TypeInv, TypeOK, Bounds, serverVars, readerVars
<1> QED
  BY <1>1, <1>2 DEF Tcp

\* A thread takes items of the list into its page.
LEMMA ReaderTypes ==
    ASSUME TypeInv, NEW r \in Readers, Reader(r)
    PROVE  TypeInv'
<1>1. CASE ReadBegin(r)
  <2>1. << >> \in Seq(Entries)
    BY EmptySeq
  <2>2. page' \in [Readers -> Seq(Entries)]
    BY <1>1, <2>1 DEF ReadBegin, TypeInv, TypeOK
  <2> QED
    BY <1>1, <2>2 DEF ReadBegin, TypeInv, TypeOK, Bounds, serverVars, tcpVars
<1>2. CASE ReadItem(r)
  <2>1. position[r] \in 1..Len(messages) /\ page[r] \in Seq(Entries)
    BY <1>2, LenProperties DEF ReadItem, TypeInv, TypeOK
  <2>2. PICK e \in Entries : e = messages[position[r]]
    BY <2>1, ElementOfSeq DEF TypeInv, TypeOK
  <2>3. PICK s \in Seq(Entries) : s = Append(page[r], e)
    BY <2>1, AppendProperties
  <2>4. page' = [page EXCEPT ![r] = s]
    BY <1>2, <2>2, <2>3 DEF ReadItem
  <2>5. page' \in [Readers -> Seq(Entries)]
    BY <2>4 DEF TypeInv, TypeOK
  <2> QED
    BY <1>2, <2>5 DEF ReadItem, TypeInv, TypeOK, Bounds, serverVars, tcpVars
<1>3. CASE ReadEnd(r)
  BY <1>3 DEF ReadEnd, TypeInv, TypeOK, Bounds, serverVars, tcpVars
<1> QED
  BY <1>1, <1>2, <1>3 DEF Reader

\* No step leaves the types.
LEMMA TypeStep ==
    ASSUME TypeInv, [Next]_vars
    PROVE  TypeInv'
<1>1. CASE UNCHANGED vars
  BY <1>1 DEF vars, serverVars, tcpVars, readerVars, TypeInv, TypeOK, Bounds
<1> QED
  BY <1>1, ThreadMoves, RecvTextTypes, StoreTypes, ManageTypes, TcpTypes, ReaderTypes
  DEF Next, Thread

\* The list is empty at the start, and nobody reads it.
LEMMA TypeInit == Init => TypeInv
<1>1. /\ << >> \in Seq(Entries) /\ << >> \in Seq(Clients) /\ Len(<< >>) = 0
  BY EmptySeq
<1>2. 0 \in 0..(MaxMessages + 1) /\ 0 \in 0..MaxClients /\ 0 <= MaxMessages
  BY MessagesAssumption, ClientsAssumption
<1> QED
  BY <1>1, <1>2, MessagesAssumption DEF Init, TypeInv, TypeOK, Bounds

\* Every variable keeps its type, and no message has a number above
\* MaxMessages + 1.
THEOREM TypesHold == Spec => []TypeOK
<1>1. TypeInv => TypeOK
  BY DEF TypeInv
<1> QED
  BY TypeInit, TypeStep, <1>1, PTL DEF Spec

-----------------------------------------------------------------------------
(* Order.  Clients are numbered as they connect and accepted in that       *)
(* order, so that what was received is in the order of their numbers, and  *)
(* the list is its end.                                                    *)

\* Who waits comes after the client that is served, and both after everyone
\* whose message was received.
Arrival ==
    /\ \A x, y \in 1..Len(backlog) : x < y => backlog[x] < backlog[y]
    /\ \A x \in 1..Len(backlog) : current < backlog[x] /\ backlog[x] <= connected
    /\ current <= connected
    /\ \A y \in 1..Len(received) :
          /\ received[y].client <= connected
          /\ \A x \in 1..Len(backlog) : received[y].client < backlog[x]
          /\ thread \in {"warn", "recv", "append"} => received[y].client < current
    /\ \A x, y \in 1..Len(received) : x < y => received[x].client < received[y].client

\* The list is what was received but for the first k messages.
EndFrom(k) ==
    /\ Len(messages) = Len(received) - k
    /\ \A i \in 1..Len(messages) : messages[i] = received[i + k]

Latest ==
    \E k \in 0..Len(received) : EndFrom(k) /\ (k > 0 => Len(messages) > MaxMessages - Half)

\* What the proofs below need of the types.
LEMMA SequenceTypes ==
    ASSUME TypeInv
    PROVE  /\ messages \in Seq(Entries) /\ received \in Seq(Entries) /\ backlog \in Seq(Clients)
           /\ Len(messages) \in Nat /\ Len(received) \in Nat /\ Len(backlog) \in Nat
           /\ current \in Int /\ connected \in Int
           /\ \A x \in 1..Len(backlog) : backlog[x] \in Int
           /\ \A x \in 1..Len(received) : received[x] \in Entries /\ received[x].client \in Int
           /\ \A x \in 1..Len(messages) : messages[x] \in Entries /\ messages[x].client \in Int
<1>1. /\ messages \in Seq(Entries) /\ received \in Seq(Entries) /\ backlog \in Seq(Clients)
      /\ current \in Clients \union {Nobody} /\ connected \in 0..MaxClients
  BY DEF TypeInv, TypeOK
<1>2. Clients \subseteq Int /\ Nobody \in Int /\ 0..MaxClients \subseteq Int
  BY ClientsAssumption DEF Clients, Nobody
<1>3. \A e \in Entries : e.client \in Int
  BY <1>2 DEF Entries
<1>4. Len(messages) \in Nat /\ Len(received) \in Nat /\ Len(backlog) \in Nat
  BY <1>1, LenProperties
<1>5. /\ \A x \in 1..Len(backlog) : backlog[x] \in Clients
      /\ \A x \in 1..Len(received) : received[x] \in Entries
      /\ \A x \in 1..Len(messages) : messages[x] \in Entries
  BY <1>1, ElementOfSeq
<1> QED
  BY <1>1, <1>2, <1>3, <1>4, <1>5

\* The order of arrival is kept: a client that connects gets the highest
\* number, the first in the backlog is accepted, and it is stored last.
LEMMA ArrivalStep ==
    ASSUME TypeInv, Arrival, [Next]_vars
    PROVE  Arrival'
<1>1. CASE Connect
  <2>1. connected + 1 \in Clients
    BY <1>1, ClientsAssumption DEF Connect, TypeInv, TypeOK, Clients
  <2>2. PICK c \in Clients : c = connected + 1
    BY <2>1
  <2>3. /\ backlog' = Append(backlog, c) /\ connected' = c
        /\ UNCHANGED <<current, received, thread>>
    BY <1>1, <2>2 DEF Connect, serverVars
  <2>4. PICK n \in Nat : n = Len(backlog)
    BY SequenceTypes
  <2>5. /\ Len(backlog') = n + 1 /\ backlog'[n + 1] = c
        /\ \A x \in 1..n : backlog'[x] = backlog[x]
    BY <2>3, <2>4, AppendProperties, SequenceTypes
  <2>6. c \in Int /\ connected < c
    BY <2>2, SequenceTypes
  <2> QED
    BY <2>3, <2>4, <2>5, <2>6, SequenceTypes DEF Arrival
<1>2. CASE Accept
  <2>1. PICK n \in Nat : n = Len(backlog) - 1
    <3>1. backlog # << >> /\ backlog \in Seq(Clients) /\ Len(backlog) \in Nat
      BY <1>2, SequenceTypes DEF Accept
    <3>2. Len(backlog) # 0
      BY <3>1, EmptySeq
    <3>3. Len(backlog) - 1 \in Nat
      BY <3>1, <3>2
    <3> QED
      BY <3>3
  <2>2. /\ Len(Tail(backlog)) = n
        /\ \A x \in 1..n : Tail(backlog)[x] = backlog[x + 1]
    BY <1>2, <2>1, HeadTailProperties, SequenceTypes DEF Accept
  <2>3. Head(backlog) = backlog[1]
    BY <1>2, SequenceTypes DEF Accept
  <2>4. /\ backlog' = Tail(backlog) /\ current' = backlog[1] /\ thread' = "warn"
        /\ UNCHANGED <<connected, received>>
    BY <1>2, <2>3 DEF Accept
  <2>5. Len(backlog') = n /\ \A x \in 1..n : backlog'[x] = backlog[x + 1]
    BY <2>2, <2>4
  <2>6. 1 \in 1..(n + 1) /\ \A x \in 1..n : x + 1 \in 1..(n + 1) /\ 1 < x + 1
    OBVIOUS
  <2>7. /\ \A x, y \in 1..(n + 1) : x < y => backlog[x] < backlog[y]
        /\ \A x \in 1..(n + 1) : backlog[x] <= connected
        /\ \A y \in 1..Len(received) : \A x \in 1..(n + 1) : received[y].client < backlog[x]
    <3>1. Len(backlog) = n + 1
      BY <2>1, SequenceTypes
    <3> QED
      BY <3>1 DEF Arrival
  <2>8. \A x, y \in 1..n : x < y => backlog'[x] < backlog'[y]
    BY <2>5, <2>6, <2>7
  <2>9. \A x \in 1..n : current' < backlog'[x] /\ backlog'[x] <= connected'
    BY <2>4, <2>5, <2>6, <2>7
  <2>10. \A y \in 1..Len(received') :
            /\ received'[y].client <= connected'
            /\ \A x \in 1..n : received'[y].client < backlog'[x]
            /\ received'[y].client < current'
    BY <2>4, <2>5, <2>6, <2>7 DEF Arrival
  <2> QED
    BY <2>4, <2>5, <2>6, <2>7, <2>8, <2>9, <2>10 DEF Arrival
<1>3. CASE StoreMessage
  <2>1. PICK e \in Entries : e = [client |-> current, number |-> sequence]
    BY <1>3, MessageType DEF StoreMessage
  <2>2. /\ thread = "append" /\ thread' = "manage" /\ received' = Append(received, e)
        /\ UNCHANGED <<current, backlog, connected>> /\ e.client = current
    BY <1>3, <2>1 DEF StoreMessage, tcpVars
  <2>3. PICK n \in Nat : n = Len(received)
    BY SequenceTypes
  <2>4. /\ Len(received') = n + 1 /\ received'[n + 1] = e
        /\ \A x \in 1..n : received'[x] = received[x]
    BY <2>2, <2>3, AppendProperties, SequenceTypes
  <2>5. \A y \in 1..(n + 1) : y \in 1..n \/ y = n + 1
    BY <2>3
  <2>6. \A y \in 1..(n + 1) :
           /\ received'[y].client <= connected'
           /\ \A x \in 1..Len(backlog') : received'[y].client < backlog'[x]
    BY <2>2, <2>3, <2>4, <2>5 DEF Arrival
  <2>7. ASSUME NEW x \in 1..(n + 1), NEW y \in 1..(n + 1), x < y
        PROVE  received'[x].client < received'[y].client
    <3>1. x \in 1..n
      BY <2>3, <2>7
    <3>2. CASE y \in 1..n
      BY <2>3, <2>4, <2>7, <3>1, <3>2 DEF Arrival
    <3>3. CASE y = n + 1
      BY <2>2, <2>3, <2>4, <3>1, <3>3 DEF Arrival
    <3> QED
      BY <2>5, <3>2, <3>3
  <2> QED
    BY <2>2, <2>4, <2>6, <2>7 DEF Arrival
<1>4. CASE Close
  <2>1. current' = Nobody /\ thread' = "accept" /\ UNCHANGED <<received, backlog, connected>>
    BY <1>4 DEF Close, tcpVars
  <2>2. \A x \in 1..Len(backlog) : Nobody < backlog[x]
    <3>1. \A x \in 1..Len(backlog) : backlog[x] \in Clients
      BY ElementOfSeq, SequenceTypes
    <3>2. \A c \in Clients : 0 < c
      BY ClientsAssumption DEF Clients
    <3> QED
      BY <3>1, <3>2 DEF Nobody
  <2>3. Nobody <= connected
    BY DEF Nobody, TypeInv, TypeOK
  <2> QED
    BY <2>1, <2>2, <2>3 DEF Arrival
<1>5. CASE Warn \/ WarnFails \/ RecvNothing \/ RecvText \/ ManageMessages
  BY <1>5 DEF Warn, WarnFails, RecvNothing, RecvText, ManageMessages, tcpVars, Arrival
<1>6. CASE (\E c \in Clients : Act(c)) \/ (\E r \in Readers : Reader(r)) \/ UNCHANGED vars
  <2>1. UNCHANGED <<current, received, thread, backlog, connected>>
    BY <1>6 DEF Act, Reader, ReadBegin, ReadItem, ReadEnd, serverVars, tcpVars, vars
  <2> QED
    BY <2>1 DEF Arrival
<1> QED
  BY <1>1, <1>2, <1>3, <1>4, <1>5, <1>6 DEF Next, Thread, Tcp

\* What is stored is added at both ends, and what is cut off was the oldest.
LEMMA LatestStep ==
    ASSUME TypeInv, Latest, [Next]_vars
    PROVE  Latest'
<1>1. PICK k \in 0..Len(received) : EndFrom(k) /\ (k > 0 => Len(messages) > MaxMessages - Half)
  BY DEF Latest
<1>2. PICK n \in Nat, l \in Nat, m \in Nat, h \in Nat :
         n = Len(messages) /\ l = Len(received) /\ m = MaxMessages /\ h = Half
         /\ 1 <= h /\ h <= m
  BY SequenceTypes, MessagesAssumption, HalfFacts
<1>3. /\ k \in Nat /\ n = l - k /\ (k > 0 => n > m - h)
      /\ \A i \in 1..n : messages[i] = received[i + k] /\ i + k \in 1..l
  BY <1>1, <1>2 DEF EndFrom
<1>4. CASE StoreMessage
  <2>1. PICK e \in Entries : e = [client |-> current, number |-> sequence]
    BY <1>4, MessageType DEF StoreMessage
  <2>2. messages' = Append(messages, e) /\ received' = Append(received, e)
    BY <1>4, <2>1 DEF StoreMessage
  <2>3. /\ Len(messages') = n + 1 /\ messages'[n + 1] = e
        /\ \A x \in 1..n : messages'[x] = messages[x]
    BY <1>2, <2>2, AppendProperties, SequenceTypes
  <2>4. /\ Len(received') = l + 1 /\ received'[l + 1] = e
        /\ \A x \in 1..l : received'[x] = received[x]
    BY <1>2, <2>2, AppendProperties, SequenceTypes
  <2>5. n + 1 = (l + 1) - k /\ k \in 0..(l + 1) /\ n + 1 + k = l + 1
    BY <1>2, <1>3
  <2>6. \A i \in 1..(n + 1) : messages'[i] = received'[i + k]
    <3>1. ASSUME NEW i \in 1..n PROVE messages'[i] = received'[i + k]
      BY <1>3, <2>3, <2>4
    <3>2. \A i \in 1..(n + 1) : i \in 1..n \/ i = n + 1
      BY <1>2
    <3> QED
      BY <2>3, <2>4, <2>5, <3>1, <3>2
  <2>7. EndFrom(k)'
    BY <2>3, <2>4, <2>5, <2>6 DEF EndFrom
  <2>8. k > 0 => Len(messages') > MaxMessages - Half
    BY <1>2, <1>3, <2>3
  <2> QED
    BY <2>4, <2>5, <2>7, <2>8 DEF Latest
<1>5. CASE ManageMessages
  <2>1. /\ messages' = IF n > m THEN Trim(messages) ELSE messages
        /\ received' = received
    BY <1>2, <1>5 DEF ManageMessages
  <2>2. CASE n > m
    <3>1. messages \in Seq(Entries) /\ Half <= Len(messages)
      BY <1>2, <2>2, SequenceTypes
    <3>2. /\ Len(Trim(messages)) = Len(messages) - Half
          /\ \A i \in 1..(Len(messages) - Half) : Trim(messages)[i] = messages[i + Half]
      BY <3>1, TrimProperties
    <3>3. /\ Len(messages') = n - h
          /\ \A i \in 1..(n - h) : messages'[i] = messages[i + h]
      BY <1>2, <2>1, <2>2, <3>2
    <3>4. k + h \in 0..l /\ n - h = l - (k + h) /\ n - h > m - h
      BY <1>2, <1>3, <2>2
    <3>5. \A i \in 1..(n - h) : messages'[i] = received[i + (k + h)]
      <4>1. \A i \in 1..(n - h) : i + h \in 1..n /\ (i + h) + k = i + (k + h)
        BY <1>2, <1>3
      <4> QED
        BY <1>3, <3>3, <4>1
    <3>6. EndFrom(k + h)' /\ Len(messages') > MaxMessages - Half
      BY <1>2, <2>1, <3>3, <3>4, <3>5 DEF EndFrom
    <3> QED
      BY <1>2, <2>1, <3>4, <3>6 DEF Latest
  <2>3. CASE ~(n > m)
    BY <2>1, <2>3 DEF Latest, EndFrom
  <2> QED
    BY <2>2, <2>3
<1>6. CASE Accept \/ Warn \/ WarnFails \/ RecvNothing \/ RecvText \/ Close
           \/ Tcp \/ (\E r \in Readers : Reader(r)) \/ UNCHANGED vars
  <2>1. UNCHANGED <<messages, received>>
    BY <1>6 DEF Accept, Warn, WarnFails, RecvNothing, RecvText, Close, Tcp, Connect, Act,
                Reader, ReadBegin, ReadItem, ReadEnd, serverVars, vars
  <2> QED
    BY <2>1 DEF Latest, EndFrom
<1> QED
  BY <1>4, <1>5, <1>6 DEF Next, Thread

\* The end of what was received, as a part of it.
LEMMA LatestIsSubSeq ==
    ASSUME TypeInv, Latest
    PROVE  MessagesAreLatest
<1>1. PICK k \in 0..Len(received) : EndFrom(k) /\ (k > 0 => Len(messages) > MaxMessages - Half)
  BY DEF Latest
<1>2. PICK n \in Nat, l \in Nat : n = Len(messages) /\ l = Len(received)
  BY SequenceTypes
<1>3. k \in Nat /\ n = l - k /\ \A i \in 1..n : messages[i] = received[i + k]
  BY <1>1, <1>2 DEF EndFrom
<1>4. \A i \in (k + 1)..l : received[i] \in Entries
  BY <1>2, <1>3, SequenceTypes
<1>5. k + 1 \in Int /\ l \in Int
  BY <1>3
<1>6. /\ SubSeq(received, k + 1, l) \in Seq(Entries)
      /\ Len(SubSeq(received, k + 1, l)) = IF k + 1 <= l THEN l - (k + 1) + 1 ELSE 0
      /\ \A i \in 1..(l - (k + 1) + 1) : SubSeq(received, k + 1, l)[i] = received[k + 1 + i - 1]
  BY <1>4, <1>5, SubSeqProperties
<1>7. /\ (IF k + 1 <= l THEN l - (k + 1) + 1 ELSE 0) = n
      /\ \A i \in 1..n : i \in 1..(l - (k + 1) + 1) /\ k + 1 + i - 1 = i + k
  BY <1>2, <1>3
<1>8. PICK s \in Seq(Entries) : s = SubSeq(received, k + 1, l)
  BY <1>6
<1>9. Len(s) = n /\ \A i \in 1..n : messages[i] = s[i]
  BY <1>3, <1>6, <1>7, <1>8
<1>10. messages = s
  BY <1>2, <1>8, <1>9, SeqEqual, SequenceTypes
<1> QED
  BY <1>1, <1>2, <1>8, <1>10 DEF MessagesAreLatest

\* Nothing was received at the start.
LEMMA OrderInit == Init => Arrival /\ Latest
<1>1. Len(<< >>) = 0
  BY EmptySeq
<1> QED
  BY <1>1 DEF Init, Arrival, Latest, EndFrom, Nobody

\* The list is the end of what was received, whole and in order, and at least
\* the newest half of a full list: for every max_messages.
THEOREM LatestTheorem == Spec => []MessagesAreLatest
<1> QED
  BY TypeInit, TypeStep, OrderInit, LatestStep, LatestIsSubSeq, PTL DEF Spec

-----------------------------------------------------------------------------
(* Pages.  A thread encodes the list while it grows at one end and is cut  *)
(* at the other; all it knows is its position.                             *)

\* What thread r took came before all it has yet to take.
PageAhead(r) ==
    reading[r] =>
        \A x \in 1..Len(page[r]) : \A y \in 1..Len(messages) :
            position[r] <= y => page[r][x].client < messages[y].client

\* Until the list is cut, the item r took last is the one before its position.
PageAt(r) ==
    reading[r] /\ ~trimmed[r] /\ Len(page[r]) > 0 =>
        /\ Len(page[r]) <= Len(messages)
        /\ page[r][Len(page[r])] = messages[Len(page[r])]

PageReceived(r) ==
    \A x \in 1..Len(page[r]) : \E y \in 1..Len(received) : received[y] = page[r][x]

PageAdjacent(r) ==
    ~trimmed[r] =>
        \A x \in 1..(Len(page[r]) - 1) :
            \E y \in 1..(Len(received) - 1) :
                /\ received[y] = page[r][x]
                /\ received[y + 1] = page[r][x + 1]

PageOrder(r) ==
    /\ position[r] = Len(page[r]) + 1
    /\ Len(page[r]) <= MaxMessages + 1
    /\ \A x, y \in 1..Len(page[r]) : x < y => page[r][x].client < page[r][y].client

PageInv(r) == PageOrder(r) /\ PageAhead(r) /\ PageAt(r) /\ PageReceived(r) /\ PageAdjacent(r)

\* The list holds messages that were received, neighbours side by side, in
\* the order of the clients.
LEMMA ListIsReceived ==
    ASSUME TypeInv, Arrival, Latest
    PROVE  /\ \A x, y \in 1..Len(messages) : x < y => messages[x].client < messages[y].client
           /\ \A x \in 1..Len(messages) : \E j \in 1..Len(received) : received[j] = messages[x]
           /\ \A x \in 1..(Len(messages) - 1) :
                 \E j \in 1..(Len(received) - 1) :
                     received[j] = messages[x] /\ received[j + 1] = messages[x + 1]
<1>1. PICK k \in 0..Len(received) : EndFrom(k)
  BY DEF Latest
<1>2. PICK n \in Nat, l \in Nat : n = Len(messages) /\ l = Len(received)
  BY SequenceTypes
<1>3. /\ k \in Nat /\ n = l - k
      /\ \A i \in 1..n : messages[i] = received[i + k] /\ i + k \in 1..l
  BY <1>1, <1>2 DEF EndFrom
<1>4. ASSUME NEW x \in 1..n, NEW y \in 1..n, x < y
      PROVE  messages[x].client < messages[y].client
  <2>1. x + k \in 1..l /\ y + k \in 1..l /\ x + k < y + k
    BY <1>3, <1>4
  <2> QED
    BY <1>2, <1>3, <2>1 DEF Arrival
<1>5. ASSUME NEW x \in 1..n
      PROVE  \E j \in 1..l : received[j] = messages[x]
  BY <1>3
<1>6. ASSUME NEW x \in 1..(n - 1)
      PROVE  \E j \in 1..(l - 1) : received[j] = messages[x] /\ received[j + 1] = messages[x + 1]
  <2>1. x \in 1..n /\ x + 1 \in 1..n /\ (x + 1) + k = (x + k) + 1 /\ x + k \in 1..(l - 1)
    BY <1>2, <1>3
  <2>2. received[x + k] = messages[x] /\ received[(x + k) + 1] = messages[x + 1]
    BY <1>3, <2>1
  <2> QED
    BY <2>1, <2>2
<1> QED
  BY <1>2, <1>4, <1>5, <1>6

\* What the proofs below need of the types of a page.
LEMMA PageTypes ==
    ASSUME TypeInv, NEW r \in Readers
    PROVE  /\ page[r] \in Seq(Entries) /\ Len(page[r]) \in Nat
           /\ position[r] \in Nat \ {0}
           /\ \A x \in 1..Len(page[r]) : page[r][x] \in Entries /\ page[r][x].client \in Int
<1>1. page[r] \in Seq(Entries) /\ position[r] \in Nat \ {0}
  BY DEF TypeInv, TypeOK
<1>2. Clients \subseteq Int
  BY ClientsAssumption DEF Clients
<1>3. \A e \in Entries : e.client \in Int
  BY <1>2 DEF Entries
<1>4. Len(page[r]) \in Nat
  BY <1>1, LenProperties
<1>5. \A x \in 1..Len(page[r]) : page[r][x] \in Entries
  BY <1>1, ElementOfSeq
<1> QED
  BY <1>1, <1>3, <1>4, <1>5

\* A thread that takes an item.
LEMMA ReadItemStep ==
    ASSUME TypeInv, Arrival, Latest, NEW r \in Readers, PageInv(r), ReadItem(r)
    PROVE  PageInv(r)'
<1>1. PICK n \in Nat, l \in Nat, p \in Nat, m \in Nat :
         n = Len(messages) /\ l = Len(received) /\ p = Len(page[r]) /\ m = MaxMessages
  BY SequenceTypes, PageTypes, MessagesAssumption
<1>2. position[r] = p + 1 /\ p + 1 \in 1..n /\ n <= m + 1
  BY <1>1 DEF ReadItem, PageInv, PageOrder, TypeInv, Bounds
<1>3. PICK e \in Entries : e = messages[p + 1]
  BY <1>1, <1>2, SequenceTypes
<1>4. PICK s \in Seq(Entries) : s = Append(page[r], e)
  BY PageTypes, AppendProperties
<1>5. Len(s) = p + 1 /\ s[p + 1] = e /\ \A x \in 1..p : s[x] = page[r][x]
  BY <1>1, <1>4, PageTypes, AppendProperties
<1>6. /\ page' = [page EXCEPT ![r] = s] /\ position' = [position EXCEPT ![r] = (p + 1) + 1]
      /\ UNCHANGED <<messages, received, reading, trimmed>> /\ reading[r]
  BY <1>2, <1>3, <1>4 DEF ReadItem, serverVars
<1>7. page'[r] = s /\ position'[r] = p + 2
  BY <1>6 DEF TypeInv, TypeOK
<1>8. \A x \in 1..(p + 1) : x \in 1..p \/ x = p + 1
  BY <1>1
<1>9. \A x \in 1..p : s[x].client < e.client
  BY <1>1, <1>2, <1>3, <1>5, <1>6 DEF PageInv, PageAhead
<1>10. PageOrder(r)'
  <2>1. ASSUME NEW x \in 1..(p + 1), NEW y \in 1..(p + 1), x < y
        PROVE  s[x].client < s[y].client
    <3>1. x \in 1..p
      BY <1>1, <2>1
    <3>2. CASE y \in 1..p
      BY <1>1, <1>5, <2>1, <3>1, <3>2 DEF PageInv, PageOrder
    <3>3. CASE y = p + 1
      BY <1>5, <1>9, <3>1, <3>3
    <3> QED
      BY <1>8, <3>2, <3>3
  <2>2. p + 2 = (p + 1) + 1 /\ p + 1 <= m + 1
    BY <1>1, <1>2
  <2> QED
    BY <1>1, <1>5, <1>7, <2>1, <2>2 DEF PageOrder
<1>11. PageAhead(r)'
  <2>1. ASSUME NEW x \in 1..(p + 1), NEW y \in 1..n, p + 2 <= y
        PROVE  s[x].client < messages[y].client
    <3>1. e.client < messages[y].client
      <4>1. p + 1 < y /\ p + 1 \in 1..n
        BY <1>2, <2>1
      <4> QED
        BY <1>1, <1>3, <4>1, ListIsReceived
    <3>2. e.client \in Int /\ messages[y].client \in Int
      BY <1>1, <1>2, <1>3, SequenceTypes
    <3>3. CASE x \in 1..p
      <4>1. s[x].client = page[r][x].client /\ page[r][x].client \in Int
        BY <1>1, <1>5, <3>3, PageTypes
      <4> QED
        BY <1>9, <3>1, <3>2, <3>3, <4>1
    <3>4. CASE x = p + 1
      BY <1>5, <3>1, <3>4
    <3> QED
      BY <1>8, <3>3, <3>4
  <2> QED
    BY <1>1, <1>5, <1>6, <1>7, <2>1 DEF PageAhead
<1>12. PageAt(r)'
  <2>1. p + 1 <= n /\ s[p + 1] = messages[p + 1]
    BY <1>2, <1>3, <1>5
  <2>2. Len(page'[r]) = p + 1 /\ page'[r][p + 1] = messages'[p + 1] /\ Len(messages') = n
    BY <1>1, <1>5, <1>6, <1>7, <2>1
  <2> QED
    BY <2>1, <2>2 DEF PageAt
<1>13. PageReceived(r)'
  <2>1. \E y \in 1..l : received[y] = e
    BY <1>1, <1>2, <1>3, ListIsReceived
  <2>2. \A x \in 1..p : \E y \in 1..l : received[y] = s[x]
    BY <1>1, <1>5 DEF PageInv, PageReceived
  <2>3. ASSUME NEW x \in 1..(p + 1)
        PROVE  \E y \in 1..l : received[y] = s[x]
    <3>1. CASE x \in 1..p
      BY <2>2, <3>1
    <3>2. CASE x = p + 1
      BY <1>5, <2>1, <3>2
    <3> QED
      BY <1>8, <3>1, <3>2
  <2>4. Len(page'[r]) = p + 1 /\ page'[r] = s /\ received' = received /\ Len(received) = l
    BY <1>1, <1>5, <1>6, <1>7
  <2> QED
    BY <2>3, <2>4 DEF PageReceived
<1>14. PageAdjacent(r)'
  <2>1. SUFFICES ASSUME ~trimmed[r], NEW x \in 1..p
                 PROVE  \E y \in 1..(l - 1) : received[y] = s[x] /\ received[y + 1] = s[x + 1]
    <3>1. (p + 1) - 1 = p /\ Len(page'[r]) = p + 1 /\ Len(received') = l /\ trimmed'[r] = trimmed[r]
      BY <1>1, <1>5, <1>6, <1>7
    <3>2. page'[r] = s /\ received' = received /\ trimmed'[r] = trimmed[r]
          /\ Len(page'[r]) - 1 = p /\ Len(received') - 1 = l - 1
      BY <1>6, <1>7, <3>1
    <3>3. ASSUME ~trimmed'[r], NEW x \in 1..p
          PROVE  \E y \in 1..(l - 1) : received'[y] = page'[r][x] /\ received'[y + 1] = page'[r][x + 1]
      BY <2>1, <3>2, <3>3
    <3> QED
      BY <3>2, <3>3 DEF PageAdjacent
  <2>2. CASE x = p
    <3>1. p > 0 /\ p \in 1..(n - 1) /\ p \in 1..p
      BY <1>1, <1>2, <2>2
    <3>2. page[r][p] = messages[p]
      BY <1>1, <1>6, <2>1, <3>1 DEF PageInv, PageAt
    <3>3. s[p] = messages[p] /\ s[p + 1] = messages[p + 1]
      BY <1>3, <1>5, <3>1, <3>2
    <3> QED
      BY <1>1, <2>2, <3>1, <3>3, ListIsReceived
  <2>3. CASE x # p
    <3>1. x \in 1..(p - 1) /\ x \in 1..p /\ x + 1 \in 1..p
      BY <1>1, <2>3
    <3>2. s[x] = page[r][x] /\ s[x + 1] = page[r][x + 1]
      BY <1>5, <3>1
    <3> QED
      BY <1>1, <2>1, <3>1, <3>2 DEF PageInv, PageAdjacent
  <2> QED
    BY <2>2, <2>3
<1> QED
  BY <1>10, <1>11, <1>12, <1>13, <1>14 DEF PageInv

\* The list grows behind a thread: what is stored comes from a client after
\* all that were received.
LEMMA StoreKeepsPage ==
    ASSUME TypeInv, Arrival, NEW r \in Readers, PageInv(r), StoreMessage
    PROVE  PageInv(r)'
<1>1. PICK e \in Entries : e = [client |-> current, number |-> sequence]
  BY MessageType DEF StoreMessage
<1>2. /\ thread = "append" /\ e.client = current
      /\ messages' = Append(messages, e) /\ received' = Append(received, e)
      /\ UNCHANGED <<reading, position, page, trimmed>>
  BY <1>1 DEF StoreMessage, readerVars
<1>3. PICK n \in Nat, l \in Nat, p \in Nat :
         n = Len(messages) /\ l = Len(received) /\ p = Len(page[r])
  BY SequenceTypes, PageTypes
<1>4. Len(messages') = n + 1 /\ messages'[n + 1] = e /\ \A x \in 1..n : messages'[x] = messages[x]
  BY <1>2, <1>3, AppendProperties, SequenceTypes
<1>5. Len(received') = l + 1 /\ \A x \in 1..l : received'[x] = received[x]
  BY <1>2, <1>3, AppendProperties, SequenceTypes
<1>6. PageOrder(r)'
  BY <1>2 DEF PageInv, PageOrder
<1>7. PageAhead(r)'
  <2>1. ASSUME reading[r], NEW x \in 1..p, NEW y \in 1..(n + 1), position[r] <= y
        PROVE  page[r][x].client < messages'[y].client
    <3>1. CASE y \in 1..n
      BY <1>3, <1>4, <2>1, <3>1 DEF PageInv, PageAhead
    <3>2. CASE y = n + 1
      <4>1. PICK j \in 1..l : received[j] = page[r][x]
        BY <1>3 DEF PageInv, PageReceived
      <4>2. received[j].client < current
        BY <1>2, <1>3 DEF Arrival
      <4>3. messages'[y] = e
        BY <1>4, <3>2
      <4> QED
        BY <1>2, <4>1, <4>2, <4>3
    <3> QED
      BY <1>3, <3>1, <3>2
  <2> QED
    BY <1>2, <1>3, <1>4, <2>1 DEF PageAhead
<1>8. PageAt(r)'
  <2>1. ASSUME reading[r], ~trimmed[r], p > 0
        PROVE  p <= n + 1 /\ page[r][p] = messages'[p]
    <3>1. p <= n /\ page[r][p] = messages[p]
      BY <1>3, <2>1 DEF PageInv, PageAt
    <3> QED
      BY <1>3, <1>4, <2>1, <3>1
  <2> QED
    BY <1>2, <1>3, <1>4, <2>1 DEF PageAt
<1>9. PageReceived(r)'
  <2>1. ASSUME NEW x \in 1..p
        PROVE  \E y \in 1..(l + 1) : received'[y] = page[r][x]
    <3>1. PICK y \in 1..l : received[y] = page[r][x]
      BY <1>3 DEF PageInv, PageReceived
    <3> QED
      BY <1>3, <1>5, <3>1
  <2> QED
    BY <1>2, <1>3, <1>5, <2>1 DEF PageReceived
<1>10. PageAdjacent(r)'
  <2>1. ASSUME ~trimmed[r], NEW x \in 1..(p - 1)
        PROVE  \E y \in 1..((l + 1) - 1) :
                  received'[y] = page[r][x] /\ received'[y + 1] = page[r][x + 1]
    <3>1. PICK y \in 1..(l - 1) : received[y] = page[r][x] /\ received[y + 1] = page[r][x + 1]
      BY <1>3, <2>1 DEF PageInv, PageAdjacent
    <3>2. y \in 1..l /\ y + 1 \in 1..l /\ y \in 1..((l + 1) - 1)
      BY <1>3
    <3> QED
      BY <1>5, <3>1, <3>2
  <2> QED
    BY <1>2, <1>3, <1>5, <2>1 DEF PageAdjacent
<1> QED
  BY <1>6, <1>7, <1>8, <1>9, <1>10 DEF PageInv

\* The cut moves later messages to where a thread has been already: it skips
\* them, and never goes back.
LEMMA CutKeepsPage ==
    ASSUME TypeInv, NEW r \in Readers, PageInv(r), ManageMessages
    PROVE  PageInv(r)'
<1>1. PICK n \in Nat, m \in Nat, h \in Nat, q \in Nat :
         n = Len(messages) /\ m = MaxMessages /\ h = Half /\ q = position[r]
         /\ 1 <= h /\ h <= m
  BY SequenceTypes, PageTypes, MessagesAssumption, HalfFacts
<1>2. /\ messages' = IF n > m THEN Trim(messages) ELSE messages
      /\ trimmed' = [t \in Readers |-> trimmed[t] \/ n > m]
      /\ UNCHANGED <<received, reading, position, page>>
  BY <1>1 DEF ManageMessages, readerVars
<1>3. CASE n > m
  <2>1. messages \in Seq(Entries) /\ Half <= Len(messages)
    BY <1>1, <1>3, SequenceTypes
  <2>2. /\ Len(Trim(messages)) = Len(messages) - Half
        /\ \A i \in 1..(Len(messages) - Half) : Trim(messages)[i] = messages[i + Half]
    BY <2>1, TrimProperties
  <2>3. /\ Len(messages') = n - h
        /\ \A i \in 1..(n - h) : messages'[i] = messages[i + h]
    BY <1>1, <1>2, <1>3, <2>2
  <2>4. trimmed'[r]
    BY <1>2, <1>3
  <2>5. PageAhead(r)'
    <3>1. ASSUME reading[r], NEW x \in 1..Len(page[r]), NEW y \in 1..(n - h), q <= y
          PROVE  page[r][x].client < messages'[y].client
      <4>1. y + h \in 1..n /\ q <= y + h
        BY <1>1, <3>1
      <4>2. PICK z \in 1..n : z = y + h /\ q <= z
        BY <4>1
      <4>3. page[r][x].client < messages[z].client
        BY <1>1, <3>1, <4>2 DEF PageInv, PageAhead
      <4> QED
        BY <2>3, <4>2, <4>3
    <3> QED
      BY <1>1, <1>2, <2>3, <3>1 DEF PageAhead
  <2>6. PageAt(r)' /\ PageAdjacent(r)'
    BY <2>4 DEF PageAt, PageAdjacent
  <2> QED
    BY <1>2, <2>5, <2>6 DEF PageInv, PageOrder, PageReceived
<1>4. CASE ~(n > m)
  <2>1. messages' = messages /\ trimmed'[r] = trimmed[r]
    BY <1>2, <1>4 DEF TypeInv, TypeOK
  <2> QED
    BY <1>2, <2>1 DEF PageInv, PageOrder, PageAhead, PageAt, PageReceived, PageAdjacent
<1> QED
  BY <1>3, <1>4

\* An empty page is in order.
LEMMA EmptyPage ==
    ASSUME NEW r \in Readers, page[r] = << >>, position[r] = 1
    PROVE  PageInv(r)
<1>1. Len(page[r]) = 0
  BY EmptySeq
<1>2. 0 <= MaxMessages + 1
  BY MessagesAssumption
<1> QED
  BY <1>1, <1>2 DEF PageInv, PageOrder, PageAhead, PageAt, PageReceived, PageAdjacent

\* A thread moves its own page only.
LEMMA ReaderKeepsPage ==
    ASSUME TypeInv, Arrival, Latest, NEW r \in Readers, PageInv(r),
           NEW t \in Readers, Reader(t)
    PROVE  PageInv(r)'
<1>1. CASE t # r
  <2>1. UNCHANGED <<messages, received, page[r], position[r], reading[r], trimmed[r]>>
    BY <1>1 DEF Reader, ReadBegin, ReadItem, ReadEnd, serverVars, TypeInv, TypeOK
  <2> QED
    BY <2>1 DEF PageInv, PageOrder, PageAhead, PageAt, PageReceived, PageAdjacent
<1>2. CASE t = r /\ ReadBegin(r)
  <2>1. page'[r] = << >> /\ position'[r] = 1 /\ Len(<< >>) = 0
    BY <1>2, EmptySeq DEF ReadBegin, TypeInv, TypeOK
  <2>2. 0 <= MaxMessages + 1 /\ MaxMessages' = MaxMessages
    BY MessagesAssumption
  <2> QED
    BY <2>1, <2>2 DEF PageInv, PageOrder, PageAhead, PageAt, PageReceived, PageAdjacent
<1>3. CASE t = r /\ ReadItem(r)
  BY <1>3, ReadItemStep
<1>4. CASE t = r /\ ReadEnd(r)
  <2>1. /\ UNCHANGED <<messages, received, page, position, trimmed>>
        /\ ~reading'[r]
    BY <1>4 DEF ReadEnd, serverVars, TypeInv, TypeOK
  <2> QED
    BY <2>1 DEF PageInv, PageOrder, PageAhead, PageAt, PageReceived, PageAdjacent
<1> QED
  BY <1>1, <1>2, <1>3, <1>4 DEF Reader

Pages == \A r \in Readers : PageInv(r)

\* No step of the server, a client or a thread disturbs a page.
LEMMA PageStep ==
    ASSUME TypeInv, Arrival, Latest, Pages, [Next]_vars
    PROVE  Pages'
<1>1. SUFFICES ASSUME NEW r \in Readers, PageInv(r)
               PROVE  PageInv(r)'
  BY DEF Pages
<1>2. CASE Accept \/ Warn \/ WarnFails \/ RecvNothing \/ RecvText \/ Close \/ Tcp \/ UNCHANGED vars
  <2>1. UNCHANGED <<messages, received, page, position, reading, trimmed>>
    BY <1>2 DEF Accept, Warn, WarnFails, RecvNothing, RecvText, Close, Tcp, Connect, Act,
                serverVars, readerVars, vars
  <2> QED
    BY <1>1, <2>1 DEF PageInv, PageOrder, PageAhead, PageAt, PageReceived, PageAdjacent
<1>3. CASE StoreMessage
  BY <1>1, <1>3, StoreKeepsPage
<1>4. CASE ManageMessages
  BY <1>1, <1>4, CutKeepsPage
<1>5. CASE \E t \in Readers : Reader(t)
  BY <1>1, <1>5, ReaderKeepsPage
<1> QED
  BY <1>2, <1>3, <1>4, <1>5 DEF Next, Thread

\* Every page is empty at the start.
LEMMA PageInit == Init => Pages
<1>1. ASSUME Init, NEW r \in Readers
      PROVE  PageInv(r)
  BY <1>1, EmptyPage DEF Init
<1> QED
  BY <1>1 DEF Pages

\* What a page shows is in order.
LEMMA PagesAreOrdered ==
    ASSUME TypeInv, Pages
    PROVE  PageIsOrdered
<1>1. SUFFICES ASSUME NEW r \in Readers
               PROVE  /\ Len(page[r]) <= MaxMessages + 1
                      /\ \A x \in 1..(Len(page[r]) - 1) :
                            page[r][x].client < page[r][x + 1].client
                      /\ PageAdjacent(r)
  BY DEF PageIsOrdered, PageAdjacent
<1>2. PageInv(r)
  BY DEF Pages
<1>3. PICK p \in Nat : p = Len(page[r])
  BY PageTypes
<1>4. \A x \in 1..(p - 1) : x \in 1..p /\ x + 1 \in 1..p /\ x < x + 1
  BY <1>3
<1> QED
  BY <1>2, <1>3, <1>4 DEF PageInv, PageOrder

\* Every page shows messages in the order in which they came and none twice,
\* and leaves one out only if the list was cut meanwhile: for every number of
\* threads, every max_messages and every interleaving with tcp_server().
THEOREM PageTheorem == Spec => []PageIsOrdered
<1> QED
  BY TypeInit, TypeStep, OrderInit, ArrivalStep, LatestStep, PageInit, PageStep,
     PagesAreOrdered, PTL DEF Spec

-----------------------------------------------------------------------------
(* Numbers.  The sequence knows how many messages were stored since the    *)
(* last cut; a cut leaves as many as are over max_messages with the oldest *)
(* half gone.                                                              *)

\* Messages with a number of the sequence that is running.
Stored == IF thread = "append" THEN sequence - 1 ELSE sequence

\* A list that was cut is Stored longer than what the cut left, and one that
\* never was is Stored long; the last message has the number of the sequence.
NumberBase ==
    /\ Len(messages) = Stored \/ Len(messages) = Stored + (MaxMessages + 1 - Half)
    /\ Len(messages) > 0 =>
          \/ Stored > 0 /\ messages[Len(messages)].number = Stored
          \/ Stored = 0 /\ messages[Len(messages)].number \in {Half, MaxMessages + 1}

NumberInv == NumberBase /\ NumbersCountUp

\* A message gets the number after that of the last one, or begins at one
\* after a cut, and a cut happens only when the sequence is at Half or at the
\* top.
LEMMA NumberStep ==
    ASSUME TypeInv, NumberInv, [Next]_vars
    PROVE  NumberInv'
<1>1. PICK n \in Nat, m \in Nat, h \in Nat :
         n = Len(messages) /\ m = MaxMessages /\ h = Half /\ 1 <= h /\ h <= m
  BY SequenceTypes, MessagesAssumption, HalfFacts
<1>2. /\ sequence \in Int
      /\ n <= m + (IF thread = "manage" THEN 1 ELSE 0)
      /\ thread = "append" => sequence >= 1
      /\ sequence >= 0
  BY <1>1 DEF TypeInv, TypeOK, Bounds
<1>3. CASE StoreMessage
  <2>1. PICK e \in Entries : e = [client |-> current, number |-> sequence]
    BY <1>3, MessageType DEF StoreMessage
  <2>2. /\ thread = "append" /\ thread' = "manage" /\ sequence' = sequence
        /\ e.number = sequence /\ messages' = Append(messages, e)
    BY <1>3, <2>1 DEF StoreMessage
  <2>3. /\ Len(messages') = n + 1 /\ messages'[n + 1] = e
        /\ \A x \in 1..n : messages'[x] = messages[x]
    BY <1>1, <2>2, AppendProperties, SequenceTypes
  <2>4. PICK s \in Int : s = Stored /\ sequence = s + 1 /\ s >= 0 /\ Stored' = s + 1
    BY <1>2, <2>2 DEF Stored
  <2>5. /\ n = s \/ n = s + (m + 1 - h)
        /\ n > 0 => \/ s > 0 /\ messages[n].number = s
                    \/ s = 0 /\ messages[n].number \in {h, m + 1}
    BY <1>1, <2>4 DEF NumberInv, NumberBase
  <2>6. NumberBase'
    <3>1. n + 1 = s + 1 \/ n + 1 = (s + 1) + (m + 1 - h)
      BY <1>1, <2>4, <2>5
    <3>2. s + 1 > 0 /\ messages'[n + 1].number = s + 1
      BY <2>2, <2>3, <2>4
    <3> QED
      BY <1>1, <2>3, <2>4, <3>1, <3>2 DEF NumberBase
  <2>7. ASSUME NEW x \in 1..n
        PROVE  \/ messages'[x + 1].number = messages'[x].number + 1
               \/ messages'[x + 1].number = 1 /\ messages'[x].number \in {h, m + 1}
    <3>1. CASE x = n
      <4>1. messages'[x + 1].number = s + 1 /\ messages'[x] = messages[n] /\ n > 0
        BY <2>2, <2>3, <2>4, <2>7, <3>1
      <4> QED
        BY <2>4, <2>5, <4>1
    <3>2. CASE x # n
      <4>1. x \in 1..(n - 1) /\ x + 1 \in 1..n
        BY <1>1, <3>2
      <4>2. messages'[x] = messages[x] /\ messages'[x + 1] = messages[x + 1]
        BY <2>3, <4>1
      <4> QED
        BY <1>1, <4>1, <4>2 DEF NumberInv, NumbersCountUp
    <3> QED
      BY <3>1, <3>2
  <2>8. NumbersCountUp'
    <3>1. (n + 1) - 1 = n
      BY <1>1
    <3> QED
      BY <1>1, <2>3, <2>7, <3>1 DEF NumbersCountUp
  <2> QED
    BY <2>6, <2>8 DEF NumberInv
<1>4. CASE ManageMessages
  <2>1. /\ thread = "manage" /\ thread' = "close"
        /\ messages' = IF n > m THEN Trim(messages) ELSE messages
        /\ sequence' = IF n > m THEN 0 ELSE sequence
    BY <1>1, <1>4 DEF ManageMessages
  <2>2. CASE n > m
    <3>1. messages \in Seq(Entries) /\ Half <= Len(messages)
      BY <1>1, <2>2, SequenceTypes
    <3>2. /\ Len(Trim(messages)) = Len(messages) - Half
          /\ \A i \in 1..(Len(messages) - Half) : Trim(messages)[i] = messages[i + Half]
      BY <3>1, TrimProperties
    <3>3. /\ Len(messages') = n - h
          /\ \A i \in 1..(n - h) : messages'[i] = messages[i + h]
      BY <1>1, <2>1, <2>2, <3>2
    <3>4. n = m + 1 /\ n - h > 0 /\ n - h \in 1..(n - h) /\ (n - h) + h = n
      BY <1>1, <1>2, <2>1, <2>2
    <3>5. Stored = sequence /\ Stored' = 0
      BY <2>1, <2>2 DEF Stored
    <3>6. sequence \in {h, m + 1} /\ messages[n].number = sequence
      BY <1>1, <1>2, <3>4, <3>5 DEF NumberInv, NumberBase
    <3>7. messages'[n - h].number \in {h, m + 1}
      BY <3>3, <3>4, <3>6
    <3>8. NumberBase'
      BY <1>1, <3>3, <3>4, <3>5, <3>7 DEF NumberBase
    <3>9. ASSUME NEW x \in 1..((n - h) - 1)
          PROVE  \/ messages'[x + 1].number = messages'[x].number + 1
                 \/ messages'[x + 1].number = 1 /\ messages'[x].number \in {h, m + 1}
      <4>1. /\ x \in 1..(n - h) /\ x + 1 \in 1..(n - h) /\ x + h \in 1..(n - 1)
            /\ (x + 1) + h = (x + h) + 1
        BY <1>1
      <4>2. messages'[x] = messages[x + h] /\ messages'[x + 1] = messages[(x + h) + 1]
        BY <3>3, <4>1
      <4>3. PICK z \in 1..(n - 1) : z = x + h
        BY <4>1
      <4>4. \/ messages[z + 1].number = messages[z].number + 1
            \/ messages[z + 1].number = 1 /\ messages[z].number \in {h, m + 1}
        BY <1>1 DEF NumberInv, NumbersCountUp
      <4> QED
        BY <4>2, <4>3, <4>4
    <3>10. NumbersCountUp'
      BY <1>1, <3>3, <3>9 DEF NumbersCountUp
    <3> QED
      BY <3>8, <3>10 DEF NumberInv
  <2>3. CASE ~(n > m)
    BY <2>1, <2>3 DEF NumberInv, NumberBase, NumbersCountUp, Stored
  <2> QED
    BY <2>2, <2>3
<1>5. CASE RecvText
  <2>1. thread = "recv" /\ thread' = "append" /\ sequence' = sequence + 1 /\ messages' = messages
    BY <1>5 DEF RecvText
  <2>2. Stored' = Stored
    BY <1>2, <2>1 DEF Stored
  <2> QED
    BY <2>1, <2>2 DEF NumberInv, NumberBase, NumbersCountUp
<1>6. CASE Accept \/ Warn \/ WarnFails \/ RecvNothing \/ Close
  <2>1. /\ thread # "append" /\ thread' # "append"
        /\ UNCHANGED <<messages, sequence>>
    BY <1>6 DEF Accept, Warn, WarnFails, RecvNothing, Close
  <2> QED
    BY <2>1 DEF NumberInv, NumberBase, NumbersCountUp, Stored
<1>7. CASE Tcp \/ (\E r \in Readers : Reader(r)) \/ UNCHANGED vars
  <2>1. UNCHANGED <<messages, sequence, thread>>
    BY <1>7 DEF Tcp, Connect, Act, Reader, ReadBegin, ReadItem, ReadEnd, serverVars, vars
  <2> QED
    BY <2>1 DEF NumberInv, NumberBase, NumbersCountUp, Stored
<1> QED
  BY <1>3, <1>4, <1>5, <1>6, <1>7 DEF Next, Thread

\* No message is stored at the start.
LEMMA NumberInit == Init => NumberInv
<1>1. Len(<< >>) = 0
  BY EmptySeq
<1> QED
  BY <1>1 DEF Init, NumberInv, NumberBase, NumbersCountUp, Stored

\* The numbers of the stored messages count up by one, and start again only
\* where the list was cut: for every max_messages.
THEOREM NumberTheorem == Spec => []NumbersCountUp
<1>1. NumberInv => NumbersCountUp
  BY DEF NumberInv
<1> QED
  BY TypeInit, TypeStep, NumberInit, NumberStep, <1>1, PTL DEF Spec

=============================================================================
