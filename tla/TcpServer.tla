----------------------------- MODULE TcpServer -----------------------------
(***************************************************************************)
(* src/csc_test_server/simple_tcp_server.py: tcp_server() takes one        *)
(* connection at a time, sends a warning, waits for a message and puts it  *)
(* into the list `messages'; Flask's threads serve that list as JSON.      *)
(*                                                                         *)
(* Python's global lock makes one operation on a list atomic, and no more  *)
(* than one: append() and the del in manage_messages() are two steps, and  *)
(* the JSON encoder, which indents its output and so is written in Python  *)
(* (the application runs with debug=True), takes one item after another    *)
(* out of a list that changes under it.                                    *)
(*                                                                         *)
(* TCP is external.  A client is the number of its connection, and stands  *)
(* for its message.                                                        *)
(***************************************************************************)
EXTENDS Integers, Sequences

CONSTANTS
    MaxMessages,  \* max_messages
    Backlog,      \* what listen() was given
    MaxClients,   \* bound on the connections
    Readers,      \* Flask's threads
    Deeds         \* what a client may do after it connected

ASSUME MessagesAssumption == MaxMessages \in Nat \ {0, 1}
ASSUME BacklogAssumption == Backlog \in Nat \ {0}
ASSUME ClientsAssumption == MaxClients \in Nat

Clients == 1..MaxClients
Nobody == 0
Half == MaxMessages \div 2

\* A text, bytes that are no text, an orderly close, or a reset.
ASSUME DeedsAssumption == Deeds \subseteq {"text", "junk", "closed", "reset"}

VARIABLES
    messages,   \* messages
    sequence,   \* sequence
    thread,     \* where tcp_server() stands
    current,    \* the client whose socket is client_socket
    backlog,    \* connections that wait for accept()
    connected,  \* connections so far
    deed,       \* deed[c]: what client c has done, as the server's TCP knows it
    reading,    \* reading[r]: whether thread r is encoding the list
    position,   \* position[r]: the item it takes next
    page,       \* page[r]: the items it took
    received,   \* history: every message that was put into the list
    trimmed     \* history: trimmed[r], whether the list was cut while r was encoding

serverVars == <<messages, sequence, thread, current, received>>
readerVars == <<reading, position, page>>
tcpVars == <<backlog, connected, deed>>
vars == <<serverVars, tcpVars, readerVars, trimmed>>

Init ==
    /\ messages = << >>
    /\ sequence = 0
    /\ thread = "accept"
    /\ current = Nobody
    /\ backlog = << >>
    /\ connected = 0
    /\ deed = [c \in Clients |-> "silent"]
    /\ reading = [r \in Readers |-> FALSE]
    /\ position = [r \in Readers |-> 1]
    /\ page = [r \in Readers |-> << >>]
    /\ received = << >>
    /\ trimmed = [r \in Readers |-> FALSE]

-----------------------------------------------------------------------------
(* The clients and TCP.                                                    *)

Connect ==
    /\ connected < MaxClients
    /\ Len(backlog) < Backlog
    /\ connected' = connected + 1
    /\ backlog' = Append(backlog, connected')
    /\ UNCHANGED <<serverVars, deed, readerVars, trimmed>>

\* A client is heard of once: what it does later is not looked at.
Act(c) ==
    /\ c <= connected
    /\ deed[c] = "silent"
    /\ \E d \in Deeds : deed' = [deed EXCEPT ![c] = d]
    /\ UNCHANGED <<serverVars, backlog, connected, readerVars, trimmed>>

-----------------------------------------------------------------------------
(* tcp_server().                                                           *)

Accept ==
    /\ thread = "accept"
    /\ backlog # << >>
    /\ thread' = "warn"
    /\ current' = Head(backlog)
    /\ backlog' = Tail(backlog)
    /\ UNCHANGED <<messages, sequence, received, connected, deed, readerVars, trimmed>>

Warn ==
    /\ thread = "warn"
    /\ deed[current] # "reset"
    /\ thread' = "recv"
    /\ UNCHANGED <<messages, sequence, current, received, tcpVars, readerVars, trimmed>>

\* The warning is sent outside of the try block: the thread ends.
WarnFails ==
    /\ thread = "warn"
    /\ deed[current] = "reset"
    /\ thread' = "dead"
    /\ UNCHANGED <<messages, sequence, current, received, tcpVars, readerVars, trimmed>>

\* Mutant: recv() waits for a text only.
RecvNothingWaits ==
    /\ thread = "recv"
    /\ deed[current] = "closed"
    /\ thread' = "close"
    /\ UNCHANGED <<messages, sequence, current, received, tcpVars, readerVars, trimmed>>

\* recv() returns nothing or raises, or decode() raises.
RecvNothing ==
    /\ thread = "recv"
    /\ deed[current] \in {"junk", "closed", "reset"}
    /\ thread' = "close"
    /\ UNCHANGED <<messages, sequence, current, received, tcpVars, readerVars, trimmed>>

\* recv() returns a text, and it gets its number.
RecvText ==
    /\ thread = "recv"
    /\ deed[current] = "text"
    /\ thread' = "append"
    /\ sequence' = sequence + 1
    /\ UNCHANGED <<messages, current, received, tcpVars, readerVars, trimmed>>

StoreMessage ==
    /\ thread = "append"
    /\ thread' = "manage"
    /\ messages' = Append(messages, [client |-> current, number |-> sequence])
    /\ received' = Append(received, [client |-> current, number |-> sequence])
    /\ UNCHANGED <<sequence, current, tcpVars, readerVars, trimmed>>

\* Mutant: the newest half is deleted.
TrimNewest(list) == SubSeq(list, 1, Len(list) - Half)

\* del messages[:max_messages//2]
Trim(list) == SubSeq(list, Half + 1, Len(list))

\* Mutant: the sequence goes on after a cut.
ManageMessagesCountsOn ==
    LET full == Len(messages) > MaxMessages
    IN  /\ thread = "manage"
        /\ thread' = "close"
        /\ messages' = IF full THEN Trim(messages) ELSE messages
        /\ trimmed' = [r \in Readers |-> trimmed[r] \/ full]
        /\ UNCHANGED <<sequence, current, received, tcpVars, readerVars>>

\* Mutant: the numbers start again at two.
ManageMessagesResetsToOne ==
    LET full == Len(messages) > MaxMessages
    IN  /\ thread = "manage"
        /\ thread' = "close"
        /\ messages' = IF full THEN Trim(messages) ELSE messages
        /\ sequence' = IF full THEN 1 ELSE sequence
        /\ trimmed' = [r \in Readers |-> trimmed[r] \/ full]
        /\ UNCHANGED <<current, received, tcpVars, readerVars>>

\* manage_messages().
ManageMessages ==
    LET full == Len(messages) > MaxMessages
    IN  /\ thread = "manage"
        /\ thread' = "close"
        /\ messages' = IF full THEN Trim(messages) ELSE messages
        /\ sequence' = IF full THEN 0 ELSE sequence
        /\ trimmed' = [r \in Readers |-> trimmed[r] \/ full]
        /\ UNCHANGED <<current, received, tcpVars, readerVars>>

Close ==
    /\ thread = "close"
    /\ thread' = "accept"
    /\ current' = Nobody
    /\ UNCHANGED <<messages, sequence, received, tcpVars, readerVars, trimmed>>

-----------------------------------------------------------------------------
(* Flask: get_messages() in a thread of its own.                           *)

ReadBegin(r) ==
    /\ ~reading[r]
    /\ reading' = [reading EXCEPT ![r] = TRUE]
    /\ position' = [position EXCEPT ![r] = 1]
    /\ page' = [page EXCEPT ![r] = << >>]
    /\ trimmed' = [trimmed EXCEPT ![r] = FALSE]
    /\ UNCHANGED <<serverVars, tcpVars>>

\* Mutant: the position is counted from the end of the list.
ReadItemFromEnd(r) ==
    /\ reading[r]
    /\ position[r] <= Len(messages)
    /\ page' = [page EXCEPT ![r] = Append(@, messages[Len(messages) - position[r] + 1])]
    /\ position' = [position EXCEPT ![r] = @ + 1]
    /\ UNCHANGED <<serverVars, tcpVars, reading, trimmed>>

\* The encoder takes an item of the list as it is now.
ReadItem(r) ==
    /\ reading[r]
    /\ position[r] <= Len(messages)
    /\ page' = [page EXCEPT ![r] = Append(@, messages[position[r]])]
    /\ position' = [position EXCEPT ![r] = @ + 1]
    /\ UNCHANGED <<serverVars, tcpVars, reading, trimmed>>

ReadEnd(r) ==
    /\ reading[r]
    /\ position[r] > Len(messages)
    /\ reading' = [reading EXCEPT ![r] = FALSE]
    /\ UNCHANGED <<serverVars, tcpVars, position, page, trimmed>>

-----------------------------------------------------------------------------
Thread ==
    \/ Accept
    \/ Warn
    \/ WarnFails
    \/ RecvNothing
    \/ RecvText
    \/ StoreMessage
    \/ ManageMessages
    \/ Close

Tcp == Connect \/ \E c \in Clients : Act(c)

Reader(r) == ReadBegin(r) \/ ReadItem(r) \/ ReadEnd(r)

Next == Thread \/ Tcp \/ \E r \in Readers : Reader(r)

Spec == Init /\ [][Next]_vars

(***************************************************************************)
(* The interpreter lets every thread go on that can; nothing is assumed of *)
(* the clients.                                                            *)
(***************************************************************************)
FairSpec == Spec /\ WF_vars(Thread)

-----------------------------------------------------------------------------
(* Properties.                                                             *)

Entries == [client : Clients, number : 1..(MaxMessages + 1)]

\* Every variable is of its kind; a message's number is never above
\* MaxMessages + 1, as the sequence starts again with every cut.
TypeOK ==
    /\ messages \in Seq(Entries) /\ received \in Seq(Entries)
    /\ sequence \in 0..(MaxMessages + 1)
    /\ thread \in {"accept", "warn", "recv", "append", "manage", "close", "dead"}
    /\ current \in Clients \union {Nobody}
    /\ backlog \in Seq(Clients)
    /\ connected \in 0..MaxClients
    /\ deed \in [Clients -> Deeds \union {"silent"}]
    /\ reading \in [Readers -> BOOLEAN]
    /\ position \in [Readers -> Nat \ {0}]
    /\ page \in [Readers -> Seq(Entries)]
    /\ trimmed \in [Readers -> BOOLEAN]

\* The list is the end of what was received, whole and in order, and at least
\* the newest half of a full list (simple_tcp_server.py:28-32, 55-59).
MessagesAreLatest ==
    \E k \in 0..Len(received) :
        /\ messages = SubSeq(received, k + 1, Len(received))
        /\ k > 0 => Len(messages) > MaxMessages - Half

\* A page shows messages in the order in which they came and none twice, and
\* leaves one out only if the list was cut while it was being encoded; it shows
\* at most one more than max_messages (simple_tcp_server.py:24, 31, 58, 71).
PageIsOrdered ==
    \A r \in Readers :
        /\ Len(page[r]) <= MaxMessages + 1
        /\ \A x \in 1..(Len(page[r]) - 1) :
              /\ page[r][x].client < page[r][x + 1].client
              /\ ~trimmed[r] =>
                    \E y \in 1..(Len(received) - 1) :
                        /\ received[y] = page[r][x]
                        /\ received[y + 1] = page[r][x + 1]

\* The numbers of the stored messages count up by one, and start again at one
\* only where the list was cut: after MaxMessages + 1 messages, and after Half
\* more from then on (simple_tcp_server.py:30-32, 55).
NumbersCountUp ==
    \A x \in 1..(Len(messages) - 1) :
        \/ messages[x + 1].number = messages[x].number + 1
        \/ messages[x + 1].number = 1 /\ messages[x].number \in {Half, MaxMessages + 1}

Queued(c) == \E x \in 1..Len(backlog) : backlog[x] = c

\* A client that waits is accepted, unless the thread died of a reset or the
\* client before it is silent for ever (simple_tcp_server.py:42-65).
QueuedIsAccepted ==
    \A c \in Clients :
        Queued(c) ~>
            \/ ~Queued(c)
            \/ thread = "dead"
            \/ [](thread = "recv" /\ deed[current] = "silent")

=============================================================================
