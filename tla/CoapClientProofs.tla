-------------------------- MODULE CoapClientProofs --------------------------
(***************************************************************************)
(* Proofs about CoapClient, for every set of resources and paths, every    *)
(* number of blocks, memos and requests, and every width of the counter.   *)
(***************************************************************************)
EXTENDS CoapClient, Arithmetic, SequenceTheorems

-----------------------------------------------------------------------------
(* Types.                                                                  *)

\* The shell knows the path it is about to send, and every transfer is sent.
PathIsTyped == shell \in {"cleared", "built"} => shellPath \in CliPaths

TypeInv == TypeOK /\ PathIsTyped /\ sent = started

\* Every text that is remembered, and every request that carries a text, is
\* of its kind.
LEMMA TextTypes ==
    /\ Empty \in Texts /\ CutUri \in Texts
    /\ \A p \in Paths : PathText(p) \in Texts /\ UriText(p) \in Texts
    /\ \A x \in Texts : Direct(x) \in Requests /\ Proxied(x) \in Requests
    /\ \A p \in Paths : \A x \in Texts : Remembered(p, x) \in Texts
<1>1. Empty \in Texts /\ CutUri \in Texts
      /\ \A p \in Paths : PathText(p) \in Texts /\ UriText(p) \in Texts
  BY DEF Texts
<1>2. \A x \in Texts : Direct(x) \in Requests /\ Proxied(x) \in Requests
  BY DEF Requests, Direct, Proxied
<1>3. \A p \in Paths : \A x \in Texts : Remembered(p, x) \in Texts
  BY <1>1 DEF Remembered
<1> QED
  BY <1>1, <1>2, <1>3

\* The shell's request is one, whether or not a proxy is set.
LEMMA CliRequestType ==
    ASSUME TypeInv, shell = "built"
    PROVE  CliRequest \in Requests
<1>1. shellPath \in Paths
  BY PathsAssumption DEF TypeInv, PathIsTyped
<1> QED
  BY <1>1, TextTypes DEF CliRequest

\* A new transfer gets the next number and one memo.
LEMMA StartTypes ==
    ASSUME TypeInv, NEW request \in Requests, StartTransfer(request)
    PROVE  /\ open' \subseteq [transfer : Transfers, request : Requests, block : Nat]
           /\ asked' \in [Transfers -> Requests]
           /\ started' \in Transfers /\ started' \in 0..MaxTransfers
           /\ sent' = started' /\ sent' = sent + 1
<1>1. started \in 0..MaxTransfers /\ started < MaxTransfers /\ MaxTransfers \in Nat
  BY TransfersAssumption DEF TypeInv, TypeOK, StartTransfer
<1>2. started + 1 \in Transfers /\ started + 1 \in 0..MaxTransfers
  BY <1>1 DEF Transfers
<1>3. [transfer |-> started + 1, request |-> request, block |-> 0]
        \in [transfer : Transfers, request : Requests, block : Nat]
  BY <1>2
<1> QED
  BY <1>2, <1>3 DEF TypeInv, TypeOK, StartTransfer

\* The counter keeps its width.
LEMMA CutFits ==
    ASSUME NEW n \in Int
    PROVE  n % CountModulus \in 0..(CountModulus - 1)
  BY ModulusAssumption, Division

\* The turn of coap_server_connect() stays in its list.
LEMMA TurnType ==
    ASSUME TypeOK, Advance
    PROVE  connect' \in 1..Len(ConnectPaths)
<1>1. PICK n \in Nat \ {0} : n = Len(ConnectPaths)
  BY ConnectAssumption
<1>2. connect \in Int
  BY <1>1 DEF TypeOK
<1>3. PICK r \in 0..(n - 1) : r = connect % n
  BY <1>2, Division
<1> QED
  BY <1>1, <1>3 DEF Advance

\* The steps of the shell keep the types.
LEMMA ShellTypes ==
    ASSUME TypeInv, Shell
    PROVE  TypeInv'
<1> USE DEF TypeInv, PathIsTyped
<1>1. CASE CliClearPath
  BY <1>1, TextTypes DEF CliClearPath, TypeOK, UnderWay
<1>2. CASE CliStorePath
  <2>1. lastReqPath' \in Texts
    BY <1>2, TextTypes, PathsAssumption DEF CliStorePath
  <2> QED
    BY <1>2, <2>1 DEF CliStorePath, TypeOK, UnderWay
<1>3. CASE CliSend
  <2>1. StartTransfer(CliRequest) /\ CliRequest \in Requests
    BY <1>3, CliRequestType DEF CliSend
  <2>2. /\ open' \subseteq [transfer : Transfers, request : Requests, block : Nat]
        /\ asked' \in [Transfers -> Requests]
        /\ started' \in Transfers /\ started' \in 0..MaxTransfers
        /\ sent' = started'
    BY <2>1, StartTypes
  <2> QED
    BY <1>3, <2>2 DEF CliSend, TypeOK, clientVars
<1>4. CASE CliSendFails
  BY <1>4 DEF CliSendFails, TypeOK, clientVars, history
<1>5. CASE CliLoadCount
  BY <1>5 DEF CliLoadCount, TypeOK, clientVars, history
<1>6. CASE CliStoreCount
  <2>1. /\ loaded \in Int /\ reqCount \in Int /\ loaded + 1 \in Int
        /\ reqCount - loaded \in Int
    BY ModulusAssumption DEF TypeOK
  <2>2. (loaded + 1) % CountModulus \in 0..(CountModulus - 1)
    BY <2>1, CutFits
  <2>3. (reqCount - loaded) % CountModulus \in 0..(CountModulus - 1)
    BY <2>1, CutFits
  <2>4. PICK d \in 0..(CountModulus - 1) : d = (reqCount - loaded) % CountModulus
    BY <2>3
  <2>5. lost + d \in Nat /\ 0 \in 0..(CountModulus - 1)
    BY <2>4, ModulusAssumption DEF TypeOK
  <2> QED
    BY <1>6, <2>2, <2>4, <2>5 DEF CliStoreCount, TypeOK
<1>7. CASE CliProxySet
  BY <1>7 DEF CliProxySet, TypeOK, history
<1>8. CASE CliProxySetFails
  BY <1>8 DEF CliProxySetFails, TypeOK, shellVars, history
<1>9. CASE CliProxyUnset
  BY <1>9 DEF CliProxyUnset, TypeOK, history
<1>10. CASE CliSetProxied
  BY <1>10 DEF CliSetProxied, TypeOK, UnderWay
<1> QED
  BY <1>1, <1>2, <1>3, <1>4, <1>5, <1>6, <1>7, <1>8, <1>9, <1>10 DEF Shell

\* So do those of coap_server_connect().
LEMMA ConnectTypes ==
    ASSUME TypeInv, Connect
    PROVE  TypeInv'
<1> DEFINE p == ConnectPaths[connect]
<1>1. p \in Paths
  BY ConnectAssumption DEF TypeInv, TypeOK
<1>2. PathText(p) \in Texts /\ Direct(PathText(p)) \in Requests
  BY <1>1, TextTypes
<1>3. connect' \in 1..Len(ConnectPaths)
  BY TurnType DEF TypeInv, Connect, ConnectSend, ConnectSendFails
<1> HIDE DEF p
<1>4. CASE ConnectSend
  <2>1. StartTransfer(Direct(PathText(p)))
    BY <1>4 DEF ConnectSend, p
  <2>2. /\ open' \subseteq [transfer : Transfers, request : Requests, block : Nat]
        /\ asked' \in [Transfers -> Requests]
        /\ started' \in Transfers /\ started' \in 0..MaxTransfers
        /\ sent' = started'
    BY <1>2, <2>1, StartTypes
  <2>3. reqCount + 1 \in Int
    BY ModulusAssumption DEF TypeInv, TypeOK
  <2>4. (reqCount + 1) % CountModulus \in 0..(CountModulus - 1)
    BY <2>3, CutFits
  <2>5. /\ lastReqPath' = PathText(p)
        /\ disturbed' = disturbed \union UnderWay
                                  \union (IF proxied THEN {started'} ELSE {})
        /\ reqCount' = (reqCount + 1) % CountModulus
        /\ UNCHANGED <<proxied, proxyRemote, shellVars, received, complete, lost>>
    BY <1>4 DEF ConnectSend, p
  <2>6. disturbed' \subseteq Transfers
    BY <2>2, <2>5 DEF TypeInv, TypeOK, UnderWay
  <2> QED
    BY <1>2, <1>3, <2>2, <2>4, <2>5, <2>6 DEF TypeInv, TypeOK, PathIsTyped, shellVars
<1>5. CASE ConnectSendFails
  BY <1>2, <1>3, <1>5 DEF ConnectSendFails, p, TypeInv, TypeOK, PathIsTyped, shellVars, UnderWay
<1> QED
  BY <1>4, <1>5 DEF Connect

\* So do those of gcoap's thread: a follow-up is a request, and what is
\* received is a sequence of blocks.
LEMMA GcoapTypes ==
    ASSUME TypeInv, NEW m \in open, RespHandler(m)
    PROVE  TypeInv'
<1> DEFINE Memos == [transfer : Transfers, request : Requests, block : Nat]
<1>1. m \in Memos /\ open \subseteq Memos
  BY DEF TypeInv, TypeOK
<1>2. CASE RespWithoutBlock(m)
  BY <1>2 DEF RespWithoutBlock, TypeInv, TypeOK, PathIsTyped, clientVars, shellVars, history
<1>3. ASSUME NEW p \in Resource(m.request), RespMore(m, p) \/ RespLast(m, p)
      PROVE  TypeInv'
  <2>1. p \in Paths /\ m.block \in Nat /\ m.transfer \in Transfers
    BY <1>1 DEF Resource
  <2>2. <<p, m.block>> \in Paths \X Nat
    BY <2>1
  <2>3. received' \in [Transfers -> Seq(Paths \X Nat)]
    <3>1. received \in [Transfers -> Seq(Paths \X Nat)]
      BY DEF TypeInv, TypeOK
    <3>2. PICK b \in Seq(Paths \X Nat) : b = Append(received[m.transfer], <<p, m.block>>)
      <4>1. received[m.transfer] \in Seq(Paths \X Nat)
        BY <2>1, <3>1
      <4> QED
        BY <2>2, <4>1, AppendProperties, Zenon
    <3>3. received' = [received EXCEPT ![m.transfer] = b]
      BY <1>3, <3>2 DEF RespMore, RespLast, Receive
    <3> QED
      BY <3>1, <3>3
  <2>4. FollowUp(m) \in Memos
    <3>1. lastReqPath \in Texts
      BY DEF TypeInv, TypeOK
    <3>2. PICK x \in Requests :
             x = IF proxied THEN Proxied(lastReqPath) ELSE Direct(lastReqPath)
      BY <3>1, TextTypes
    <3>3. FollowUp(m) = [m EXCEPT !.request = x, !.block = @ + 1]
      BY <3>2 DEF FollowUp
    <3>4. FollowUp(m) = [transfer |-> m.transfer, request |-> x, block |-> m.block + 1]
      BY <1>1, <3>3
    <3> QED
      BY <2>1, <3>4
  <2>5. CASE RespMore(m, p)
    <3>1. open' \subseteq Memos
      BY <1>1, <2>4, <2>5 DEF RespMore
    <3> QED
      BY <2>3, <2>5, <3>1
      DEF RespMore, TypeInv, TypeOK, PathIsTyped, clientVars, shellVars
  <2>6. CASE RespLast(m, p)
    BY <2>1, <2>3, <2>6
    DEF RespLast, TypeInv, TypeOK, PathIsTyped, clientVars, shellVars
  <2> QED
    BY <1>3, <2>5, <2>6
<1> QED
  BY <1>2, <1>3 DEF RespHandler

\* No step leaves the types, and they hold at the start.
LEMMA TypeStep ==
    ASSUME TypeInv, [Next]_vars
    PROVE  TypeInv'
<1>1. CASE UNCHANGED vars
  BY <1>1 DEF vars, clientVars, shellVars, history, TypeInv, TypeOK, PathIsTyped
<1> QED
  BY <1>1, ShellTypes, ConnectTypes, GcoapTypes DEF Next, Gcoap

\* The types hold at the start.
LEMMA TypeInit == Init => TypeInv
<1>1. 0 \in 0..(CountModulus - 1) /\ 0 \in 0..MaxTransfers
  BY ModulusAssumption, TransfersAssumption
<1>2. 1 \in 1..Len(ConnectPaths)
  BY ConnectAssumption
<1>3. [t \in Transfers |-> << >>] \in [Transfers -> Seq(Paths \X Nat)]
  OBVIOUS
<1>4. [t \in Transfers |-> Direct(Empty)] \in [Transfers -> Requests]
  BY TextTypes
<1>5. SUFFICES ASSUME Init PROVE TypeOK
  BY DEF Init, TypeInv, PathIsTyped
<1>6. /\ lastReqPath \in Texts /\ proxied \in BOOLEAN /\ proxyRemote \in BOOLEAN
      /\ reqCount \in 0..(CountModulus - 1) /\ loaded \in 0..(CountModulus - 1)
      /\ shell = "prompt" /\ shellPath = NoPath /\ connect \in 1..Len(ConnectPaths)
  BY <1>1, <1>2, <1>5, TextTypes DEF Init
<1>7. /\ open = {} /\ started \in 0..MaxTransfers /\ sent \in 0..MaxTransfers
      /\ complete = {} /\ disturbed = {} /\ lost \in Nat
  BY <1>1, <1>5 DEF Init
<1>8. asked \in [Transfers -> Requests] /\ received \in [Transfers -> Seq(Paths \X Nat)]
  BY <1>3, <1>4, <1>5 DEF Init
<1> QED
  BY <1>6, <1>7, <1>8 DEF TypeOK

\* Every variable keeps its type: whatever the three threads do, what is
\* remembered is a text and what is sent is a request.
THEOREM TypesHold == Spec => []TypeOK
<1>1. TypeInv => TypeOK
  BY DEF TypeInv
<1> QED
  BY TypeInit, TypeStep, <1>1, PTL DEF Spec

-----------------------------------------------------------------------------
(* The count of requests.                                                  *)

Pending == IF shell \in {"sent", "counting"} THEN 1 ELSE 0

\* Arithmetic that are the same stay the same when a number is added.
LEMMA SameAdded ==
    ASSUME NEW m \in Nat \ {0}, NEW a \in Int, NEW b \in Int, NEW c \in Int,
           a % m = b % m
    PROVE  (a + c) % m = (b + c) % m
<1>1. ((a % m) + c) % m = (a + c) % m
  BY RemainderInSum, Zenon
<1>2. ((b % m) + c) % m = (b + c) % m
  BY RemainderInSum, Zenon
<1> QED
  BY <1>1, <1>2, Zenon

\* A store of the shell's, r + 1, keeps the account: what it overwrote, the
\* difference of the counts stored and loaded, is what is lost.
LEMMA StoreIsAccounted ==
    ASSUME NEW m \in Nat \ {0}, NEW c \in Int, NEW r \in Int, NEW n \in Int,
           (c + 1) % m = n % m
    PROVE  (r + 1) % m = (n - ((c - r) % m)) % m
<1> DEFINE q == (c - r) \div m
           d == (c - r) % m
<1>1. c - r \in Int /\ c + 1 \in Int
  OBVIOUS
<1>2. q \in Int /\ d \in 0..(m - 1) /\ c - r = m * q + d
  BY <1>1, Division, Zenon
<1>3. PICK k \in Int : c + 1 = n + m * k
  BY <1>1, Difference, Zenon
<1> HIDE DEF q, d
<1>4. PICK a \in Int, b \in Int, j \in Int : a = r + 1 /\ b = n - d /\ j = k - q
  BY <1>2
<1>5. a = b + m * j
  BY <1>2, <1>3, <1>4, Z3
<1>6. a % m = b % m
  BY <1>5, SameRemainder
<1> QED
  BY <1>4, <1>6 DEF d

\* No step of the three threads loses count.
LEMMA CountStep ==
    ASSUME TypeInv, CountIsAccounted, [Next]_vars
    PROVE  CountIsAccounted'
<1> DEFINE M == CountModulus
<1>1. /\ M \in Nat \ {0} /\ reqCount \in Int /\ loaded \in Int
      /\ sent \in Int /\ lost \in Int /\ Pending \in {0, 1}
  BY ModulusAssumption, TransfersAssumption DEF TypeInv, TypeOK, Pending
<1>2. (reqCount + Pending) % M = (sent - lost) % M
  BY DEF CountIsAccounted, Pending
<1>3. reqCount + Pending \in Int /\ sent - lost \in Int
  BY <1>1
<1>4. SUFFICES (reqCount' + Pending') % M = (sent' - lost') % M
  BY DEF CountIsAccounted, Pending
<1>5. ((reqCount + Pending) + 1) % M = ((sent - lost) + 1) % M
  <2>1. PICK a \in Int, b \in Int : a = reqCount + Pending /\ b = sent - lost
    BY <1>3
  <2>2. a % M = b % M
    BY <1>2, <2>1
  <2>3. PICK c \in Int : c = 1
    OBVIOUS
  <2>4. (a + c) % M = (b + c) % M
    BY <1>1, <2>2, SameAdded, ZenonT(30)
  <2> QED
    BY <2>1, <2>3, <2>4
<1>6. ASSUME reqCount' = reqCount, Pending' = Pending, sent' = sent, lost' = lost
      PROVE  (reqCount' + Pending') % M = (sent' - lost') % M
  BY <1>2, <1>6
<1>7. CASE CliSend
  <2>1. /\ reqCount' = reqCount /\ lost' = lost /\ sent' = sent + 1
        /\ Pending = 0 /\ Pending' = 1
    BY <1>7 DEF CliSend, StartTransfer, Pending, clientVars
  <2>2. reqCount' + Pending' = (reqCount + Pending) + 1 /\ sent' - lost' = (sent - lost) + 1
    BY <1>1, <2>1
  <2> QED
    BY <1>5, <2>2
<1>8. CASE CliStoreCount
  <2>1. /\ reqCount' = (loaded + 1) % M /\ lost' = lost + ((reqCount - loaded) % M)
        /\ sent' = sent /\ Pending = 1 /\ Pending' = 0
    BY <1>8 DEF CliStoreCount, Pending
  <2>2. loaded + 1 \in Int /\ reqCount - loaded \in Int
    BY <1>1
  <2>3. PICK c \in 0..(M - 1) : c = (loaded + 1) % M
    BY <1>1, <2>2, Division
  <2>4. PICK d \in 0..(M - 1) : d = (reqCount - loaded) % M
    BY <1>1, <2>2, Division
  <2>5. c % M = (loaded + 1) % M
    BY <1>1, <2>3, OwnRemainder
  <2>6. (loaded + 1) % M = ((sent - lost) - d) % M
    <3>1. PICK n \in Int : n = sent - lost
      BY <1>3
    <3>2. (reqCount + 1) % M = n % M
      BY <1>2, <2>1, <3>1
    <3>3. (loaded + 1) % M = (n - ((reqCount - loaded) % M)) % M
      BY <1>1, <3>2, StoreIsAccounted, Zenon
    <3> QED
      BY <2>4, <3>1, <3>3
  <2>7. reqCount' + Pending' = c /\ sent' - lost' = (sent - lost) - d
    BY <1>1, <2>1, <2>3, <2>4
  <2> QED
    BY <2>5, <2>6, <2>7
<1>9. CASE ConnectSend
  <2>1. /\ reqCount' = (reqCount + 1) % M /\ lost' = lost /\ sent' = sent + 1
        /\ Pending' = Pending
    BY <1>9 DEF ConnectSend, StartTransfer, Pending, shellVars
  <2>2. (((reqCount + 1) % M) + Pending) % M = ((reqCount + 1) + Pending) % M
    <3>1. reqCount + 1 \in Int /\ Pending \in Int
      BY <1>1
    <3> QED
      BY <1>1, <3>1, RemainderInSum, Zenon
  <2>3. (reqCount + 1) + Pending = (reqCount + Pending) + 1 /\ sent' - lost' = (sent - lost) + 1
    BY <1>1, <2>1
  <2> QED
    BY <1>5, <2>1, <2>2, <2>3
<1>10. CASE CliClearPath
  BY <1>6, <1>10 DEF CliClearPath, Pending
<1>11. CASE CliStorePath
  BY <1>6, <1>11 DEF CliStorePath, Pending
<1>12. CASE CliSendFails
  BY <1>6, <1>12 DEF CliSendFails, Pending, clientVars, history
<1>13. CASE CliLoadCount
  BY <1>6, <1>13 DEF CliLoadCount, Pending, clientVars, history
<1>14. CASE CliProxySet \/ CliProxySetFails \/ CliProxyUnset \/ CliSetProxied
  BY <1>6, <1>14
  DEF CliProxySet, CliProxySetFails, CliProxyUnset, CliSetProxied, Pending, shellVars, history
<1>15. CASE ConnectSendFails
  BY <1>6, <1>15 DEF ConnectSendFails, Pending, shellVars
<1>16. CASE Gcoap
  BY <1>6, <1>16
  DEF Gcoap, RespHandler, RespWithoutBlock, RespMore, RespLast, Pending,
      clientVars, shellVars, history
<1>17. CASE UNCHANGED vars
  BY <1>6, <1>17 DEF vars, clientVars, shellVars, history, Pending
<1> QED
  BY <1>7, <1>8, <1>9, <1>10, <1>11, <1>12, <1>13, <1>14, <1>15, <1>16, <1>17
  DEF Next, Shell, Connect

\* req_count is the number of requests sent, but for the increments that fell
\* into an increment of the shell's: for every width of the counter, every
\* number of requests and every order of the three threads.
THEOREM CountTheorem == Spec => []CountIsAccounted
<1>1. Init => CountIsAccounted
  BY DEF Init, CountIsAccounted
<1> QED
  BY <1>1, TypeInit, TypeStep, CountStep, PTL DEF Spec

-----------------------------------------------------------------------------
(* Transfers in blocks.  An open transfer that nothing disturbed is on its *)
(* track: the next follow-up would ask again what its first request asked, *)
(* and it has received the first blocks of that resource.                  *)

FirstBlocks(p, n) == [i \in 1..n |-> <<p, i - 1>>]

NextAsks == IF proxied THEN Proxied(lastReqPath) ELSE Direct(lastReqPath)

OnTrack(m) ==
    /\ m.request = asked[m.transfer]
    /\ m.request = NextAsks \/ (m.block = 0 /\ lastReqPath = Empty)
    /\ \A p \in Resource(m.request) :
          m.block < Blocks[p] /\ received[m.transfer] = FirstBlocks(p, m.block)

\* A transfer has at most one memo, which is gone when it is complete.
MemosAreSingle ==
    /\ \A m, n \in open : m.transfer = n.transfer => m = n
    /\ \A m \in open : m.transfer <= started /\ m.transfer \notin complete
    /\ \A t \in complete : t <= started
    /\ \A t \in Transfers : t > started => received[t] = << >>

WholeInv ==
    /\ MemosAreSingle
    /\ \A m \in open : m.transfer \notin disturbed => OnTrack(m)
    /\ UndisturbedIsWhole

\* A request names one resource.
LEMMA ResourceIsOne ==
    ASSUME NEW request, NEW p \in Resource(request), NEW q \in Resource(request)
    PROVE  p = q
  BY DEF Resource, Direct, Proxied, PathText, UriText

\* One more block of a resource.
LEMMA NextBlock ==
    ASSUME NEW p \in Paths, NEW n \in Nat
    PROVE  /\ Append(FirstBlocks(p, n), <<p, n>>) = FirstBlocks(p, n + 1)
           /\ FirstBlocks(p, 0) = << >>
  BY DEF FirstBlocks

\* The kinds of things that the steps below tell apart.
LEMMA MemoTypes ==
    ASSUME TypeInv
    PROVE  /\ \A m \in open : /\ m.transfer \in Transfers /\ m.block \in Nat
                              /\ m = [transfer |-> m.transfer, request |-> m.request,
                                      block |-> m.block]
           /\ received \in [Transfers -> Seq(Paths \X Nat)]
           /\ asked \in [Transfers -> Requests]
           /\ complete \subseteq Transfers
           /\ started \in Int
           /\ Transfers \subseteq Int
  BY TransfersAssumption DEF TypeInv, TypeOK, Transfers

\* A step that only disturbs the open transfers, in whatever way.
LEMMA DisturbingStep ==
    ASSUME WholeInv, UNCHANGED <<open, started, asked, received, complete>>,
           disturbed' = disturbed \union UnderWay
    PROVE  WholeInv'
<1>1. MemosAreSingle'
  BY DEF WholeInv, MemosAreSingle
<1>2. \A m \in open' : m.transfer \in disturbed'
  BY DEF UnderWay
<1>3. UndisturbedIsWhole'
  BY DEF WholeInv, UndisturbedIsWhole
<1> QED
  BY <1>1, <1>2, <1>3 DEF WholeInv

\* A step that leaves the path, the proxy and the transfers alone.
LEMMA QuietStep ==
    ASSUME WholeInv,
           UNCHANGED <<lastReqPath, proxied, open, started, asked, received, complete,
                       disturbed>>
    PROVE  WholeInv'
  BY DEF WholeInv, MemosAreSingle, OnTrack, NextAsks, UndisturbedIsWhole

\* A new transfer is on its track if what it asks is remembered, or nothing.
LEMMA StartStep ==
    ASSUME TypeInv, WholeInv, NEW request, StartTransfer(request),
           received' = received, complete' = complete,
           disturbed \subseteq disturbed',
           UNCHANGED <<lastReqPath, proxied>> \/ UnderWay \subseteq disturbed',
           started' \notin disturbed' => request = NextAsks' \/ lastReqPath' = Empty
    PROVE  WholeInv'
<1>0. PICK new : new = [transfer |-> started + 1, request |-> request, block |-> 0]
  OBVIOUS
<1>1. /\ started' = started + 1 /\ open' = open \union {new}
      /\ asked' = [asked EXCEPT ![started + 1] = request]
  BY <1>0 DEF StartTransfer
<1>2. started + 1 \in Transfers
  BY TransfersAssumption DEF StartTransfer, TypeInv, TypeOK, Transfers
<1>3. \A m \in open : m.transfer <= started /\ m.transfer # started + 1
  BY MemoTypes DEF WholeInv, MemosAreSingle
<1>4. \A t \in complete : t <= started /\ t # started + 1
  BY MemoTypes DEF WholeInv, MemosAreSingle
<1>5. received[started + 1] = << >>
  BY <1>2, MemoTypes DEF WholeInv, MemosAreSingle
<1>6. MemosAreSingle'
  <2>1. \A m, n \in open' : m.transfer = n.transfer => m = n
    BY <1>0, <1>1, <1>3 DEF WholeInv, MemosAreSingle
  <2>2. \A m \in open' : m.transfer <= started' /\ m.transfer \notin complete'
    BY <1>0, <1>1, <1>3, <1>4, MemoTypes DEF WholeInv, MemosAreSingle
  <2>3. \A t \in complete' : t <= started'
    BY <1>1, <1>4, MemoTypes
  <2>4. \A t \in Transfers : t > started' => received'[t] = << >>
    BY <1>1, MemoTypes DEF WholeInv, MemosAreSingle
  <2> QED
    BY <2>1, <2>2, <2>3, <2>4 DEF MemosAreSingle
<1>7. ASSUME NEW m \in open, m.transfer \notin disturbed'
      PROVE  OnTrack(m)'
  <2>1. OnTrack(m)
    BY <1>7 DEF WholeInv
  <2>2. UNCHANGED <<lastReqPath, proxied>>
    BY <1>7 DEF UnderWay
  <2>3. asked'[m.transfer] = asked[m.transfer]
    BY <1>1, <1>3, MemoTypes
  <2> QED
    BY <2>1, <2>2, <2>3 DEF OnTrack, NextAsks
<1>8. ASSUME new.transfer \notin disturbed'
      PROVE  OnTrack(new)'
  <2>1. request = NextAsks' \/ lastReqPath' = Empty
    BY <1>0, <1>1, <1>8
  <2>2. asked'[started + 1] = request
    BY <1>1, <1>2, MemoTypes
  <2>3. \A p \in Resource(request) : 0 < Blocks[p] /\ FirstBlocks(p, 0) = << >>
    BY BlocksAssumption, NextBlock DEF Resource
  <2>4. new.transfer = started + 1 /\ new.request = request /\ new.block = 0
    BY <1>0
  <2> QED
    BY <1>5, <2>1, <2>2, <2>3, <2>4 DEF OnTrack
<1>9. UndisturbedIsWhole'
  <2>1. \A t \in complete : asked'[t] = asked[t]
    BY <1>1, <1>4, MemoTypes
  <2> QED
    BY <2>1 DEF WholeInv, UndisturbedIsWhole
<1> QED
  BY <1>1, <1>6, <1>7, <1>8, <1>9 DEF WholeInv

\* A transfer that ends early leaves the others as they are.
LEMMA EndStep ==
    ASSUME WholeInv, NEW m \in open, RespWithoutBlock(m)
    PROVE  WholeInv'
<1>1. /\ open' = open \ {m}
      /\ UNCHANGED <<lastReqPath, proxied, started, asked, received, complete, disturbed>>
  BY DEF RespWithoutBlock, clientVars, history
<1> QED
  BY <1>1 DEF WholeInv, MemosAreSingle, OnTrack, NextAsks, UndisturbedIsWhole

\* A block goes to its own transfer.
LEMMA ReceiveStep ==
    ASSUME TypeInv, WholeInv, NEW m \in open, NEW p \in Resource(m.request), Receive(m, p)
    PROVE  /\ received'[m.transfer] = Append(received[m.transfer], <<p, m.block>>)
           /\ \A t \in Transfers : t # m.transfer => received'[t] = received[t]
           /\ m.transfer \notin disturbed =>
                 received'[m.transfer] = FirstBlocks(p, m.block + 1)
<1>1. /\ received'[m.transfer] = Append(received[m.transfer], <<p, m.block>>)
      /\ \A t \in Transfers : t # m.transfer => received'[t] = received[t]
  BY MemoTypes DEF Receive
<1>2. ASSUME m.transfer \notin disturbed
      PROVE  received'[m.transfer] = FirstBlocks(p, m.block + 1)
  <2>1. received[m.transfer] = FirstBlocks(p, m.block)
    BY <1>2 DEF WholeInv, OnTrack
  <2>2. p \in Paths /\ m.block \in Nat
    BY MemoTypes DEF Resource
  <2> QED
    BY <1>1, <2>1, <2>2, NextBlock
<1> QED
  BY <1>1, <1>2

\* A block that is not the last: if the transfer is on its track, so is the
\* follow-up.
LEMMA MoreStep ==
    ASSUME TypeInv, WholeInv, NEW m \in open, NEW p \in Resource(m.request), RespMore(m, p)
    PROVE  WholeInv'
<1>1. /\ m.block + 1 < Blocks[p] /\ Receive(m, p)
      /\ UNCHANGED <<lastReqPath, proxied, started, asked, complete, disturbed>>
  BY DEF RespMore, clientVars
<1>2. /\ \A t \in Transfers : t # m.transfer => received'[t] = received[t]
      /\ m.transfer \notin disturbed => received'[m.transfer] = FirstBlocks(p, m.block + 1)
  BY <1>1, ReceiveStep
<1>3. PICK f : f = FollowUp(m)
  OBVIOUS
<1>4. f.transfer = m.transfer /\ f.request = NextAsks /\ f.block = m.block + 1
  <2>1. m = [transfer |-> m.transfer, request |-> m.request, block |-> m.block]
    BY MemoTypes
  <2>2. f = [transfer |-> m.transfer, request |-> NextAsks, block |-> m.block + 1]
    BY <1>3, <2>1 DEF FollowUp, NextAsks
  <2> QED
    BY <2>2
<1>5. \A n \in open' : (n \in open /\ n # m)
                       \/ (n = f /\ ~(m.block = 0 /\ lastReqPath = Empty))
  BY <1>3 DEF RespMore
<1>6. \A n \in open : n # m => n.transfer # m.transfer
  BY DEF WholeInv, MemosAreSingle
<1>7. m.transfer \in Transfers /\ m.transfer <= started /\ m.transfer \notin complete
  BY MemoTypes DEF WholeInv, MemosAreSingle
<1>8. MemosAreSingle'
  <2>1. \A k, n \in open' : k.transfer = n.transfer => k = n
    BY <1>4, <1>5, <1>6 DEF WholeInv, MemosAreSingle
  <2>2. \A n \in open' : n.transfer <= started' /\ n.transfer \notin complete'
    BY <1>1, <1>4, <1>5, <1>7 DEF WholeInv, MemosAreSingle
  <2>3. \A t \in Transfers : t > started' => received'[t] = << >>
    BY <1>1, <1>2, <1>7, MemoTypes DEF WholeInv, MemosAreSingle
  <2> QED
    BY <1>1, <2>1, <2>2, <2>3 DEF WholeInv, MemosAreSingle
<1>9. ASSUME NEW n \in open, n # m, n.transfer \notin disturbed'
      PROVE  OnTrack(n)'
  <2>1. OnTrack(n)
    BY <1>1, <1>9 DEF WholeInv
  <2>2. received'[n.transfer] = received[n.transfer]
    BY <1>2, <1>6, <1>9, MemoTypes
  <2> QED
    BY <1>1, <2>1, <2>2 DEF OnTrack, NextAsks
<1>10. ASSUME f.transfer \notin disturbed', ~(m.block = 0 /\ lastReqPath = Empty)
       PROVE  OnTrack(f)'
  <2>1. OnTrack(m) /\ m.transfer \notin disturbed
    BY <1>1, <1>4, <1>10 DEF WholeInv
  <2>2. m.request = NextAsks /\ f.request = m.request /\ f.request = asked[m.transfer]
    BY <1>4, <1>10, <2>1 DEF OnTrack
  <2>3. \A q \in Resource(f.request) : q = p
    BY <2>2, ResourceIsOne
  <2>4. \A q \in Resource(f.request) :
           f.block < Blocks[q] /\ received'[f.transfer] = FirstBlocks(q, f.block)
    BY <1>1, <1>2, <1>4, <2>1, <2>3
  <2>5. NextAsks' = NextAsks
    BY <1>1 DEF NextAsks
  <2> QED
    BY <1>1, <1>4, <2>2, <2>4, <2>5 DEF OnTrack
<1>11. UndisturbedIsWhole'
  <2>1. \A t \in complete : received'[t] = received[t]
    BY <1>2, <1>7, MemoTypes
  <2> QED
    BY <1>1, <2>1 DEF WholeInv, UndisturbedIsWhole
<1> QED
  BY <1>5, <1>8, <1>9, <1>10, <1>11 DEF WholeInv

\* The last block: a transfer that is on its track has them all.
LEMMA LastStep ==
    ASSUME TypeInv, WholeInv, NEW m \in open, NEW p \in Resource(m.request), RespLast(m, p)
    PROVE  WholeInv'
<1>1. /\ m.block + 1 >= Blocks[p] /\ Receive(m, p)
      /\ complete' = complete \union {m.transfer} /\ open' = open \ {m}
      /\ UNCHANGED <<lastReqPath, proxied, started, asked, disturbed>>
  BY DEF RespLast, clientVars
<1>2. /\ \A t \in Transfers : t # m.transfer => received'[t] = received[t]
      /\ m.transfer \notin disturbed => received'[m.transfer] = FirstBlocks(p, m.block + 1)
  BY <1>1, ReceiveStep
<1>3. \A n \in open : n # m => n.transfer # m.transfer
  BY DEF WholeInv, MemosAreSingle
<1>4. m.transfer \in Transfers /\ m.transfer <= started /\ m.transfer \notin complete
  BY MemoTypes DEF WholeInv, MemosAreSingle
<1>5. MemosAreSingle'
  <2>1. \A n \in open' : n.transfer <= started' /\ n.transfer \notin complete'
    BY <1>1, <1>3 DEF WholeInv, MemosAreSingle
  <2>2. \A t \in Transfers : t > started' => received'[t] = << >>
    BY <1>1, <1>2, <1>4, MemoTypes DEF WholeInv, MemosAreSingle
  <2> QED
    BY <1>1, <1>4, <2>1, <2>2 DEF WholeInv, MemosAreSingle
<1>6. ASSUME NEW n \in open', n.transfer \notin disturbed'
      PROVE  OnTrack(n)'
  <2>1. OnTrack(n) /\ n \in open /\ n # m
    BY <1>1, <1>6 DEF WholeInv
  <2>2. received'[n.transfer] = received[n.transfer]
    BY <1>2, <1>3, <2>1, MemoTypes
  <2> QED
    BY <1>1, <2>1, <2>2 DEF OnTrack, NextAsks
<1>7. ASSUME m.transfer \notin disturbed
      PROVE  p \in Resource(asked'[m.transfer]) /\ received'[m.transfer] = AllBlocks(p)
  <2>1. OnTrack(m)
    BY <1>7 DEF WholeInv
  <2>2. m.block < Blocks[p] /\ p \in Resource(asked'[m.transfer])
    BY <1>1, <2>1 DEF OnTrack
  <2>3. Blocks[p] \in Nat /\ m.block \in Nat
    BY BlocksAssumption, MemoTypes DEF Resource
  <2>4. Blocks[p] = m.block + 1
    BY <1>1, <2>2, <2>3
  <2> QED
    BY <1>2, <1>7, <2>2, <2>4 DEF AllBlocks, FirstBlocks
<1>8. UndisturbedIsWhole'
  <2>1. \A t \in complete : received'[t] = received[t]
    BY <1>2, <1>4, MemoTypes
  <2>2. ASSUME NEW t \in complete \ disturbed
        PROVE  \E q \in Resource(asked'[t]) : received'[t] = AllBlocks(q)
    BY <1>1, <2>1, <2>2 DEF WholeInv, UndisturbedIsWhole
  <2> QED
    BY <1>1, <1>7, <2>2 DEF UndisturbedIsWhole, AllBlocks
<1> QED
  BY <1>5, <1>6, <1>8 DEF WholeInv

\* Every step of the three threads is one of these.
LEMMA WholeStep ==
    ASSUME TypeInv, WholeInv, [Next]_vars
    PROVE  WholeInv'
<1>1. CASE CliClearPath
  BY <1>1, DisturbingStep DEF CliClearPath
<1>2. CASE CliStorePath
  BY <1>2, DisturbingStep DEF CliStorePath
<1>3. CASE CliSetProxied
  BY <1>3, DisturbingStep DEF CliSetProxied
<1>4. CASE ConnectSendFails
  BY <1>4, DisturbingStep DEF ConnectSendFails
<1>5. CASE CliSend
  <2>1. /\ StartTransfer(CliRequest)
        /\ disturbed' = IF lastReqPath = Remembered(shellPath, CliRequest.text)
                        THEN disturbed ELSE disturbed \union {started'}
        /\ UNCHANGED <<lastReqPath, proxied, received, complete>>
    BY <1>5 DEF CliSend, clientVars
  <2>2. ASSUME started' \notin disturbed'
        PROVE  CliRequest = NextAsks' \/ lastReqPath' = Empty
    <3>1. lastReqPath = Remembered(shellPath, CliRequest.text)
      BY <2>1, <2>2
    <3>2. CASE shellPath \in LongPaths
      BY <2>1, <3>1, <3>2 DEF Remembered
    <3>3. CASE shellPath \notin LongPaths
      <4>1. lastReqPath = CliRequest.text
        BY <3>1, <3>3 DEF Remembered
      <4> QED
        BY <2>1, <3>3, <4>1 DEF CliRequest, NextAsks, Direct, Proxied
    <3> QED
      BY <3>2, <3>3
  <2> QED
    BY <2>1, <2>2, StartStep
<1>6. CASE ConnectSend
  <2> DEFINE p == ConnectPaths[connect]
  <2>1. /\ StartTransfer(Direct(PathText(p))) /\ lastReqPath' = PathText(p)
        /\ disturbed' = disturbed \union UnderWay
                                  \union (IF proxied THEN {started'} ELSE {})
        /\ UNCHANGED <<proxied, received, complete>>
    BY <1>6 DEF ConnectSend
  <2>2. started' \notin disturbed' => Direct(PathText(p)) = NextAsks'
    BY <2>1 DEF NextAsks
  <2> HIDE DEF p
  <2> QED
    BY <2>1, <2>2, StartStep
<1>7. CASE CliSendFails \/ CliLoadCount \/ CliStoreCount
  BY <1>7, QuietStep DEF CliSendFails, CliLoadCount, CliStoreCount, clientVars, history
<1>8. CASE CliProxySet \/ CliProxySetFails \/ CliProxyUnset
  BY <1>8, QuietStep DEF CliProxySet, CliProxySetFails, CliProxyUnset, history
<1>9. CASE Gcoap
  BY <1>9, EndStep, MoreStep, LastStep DEF Gcoap, RespHandler
<1>10. CASE UNCHANGED vars
  BY <1>10, QuietStep DEF vars, clientVars, history
<1> QED
  BY <1>1, <1>2, <1>3, <1>4, <1>5, <1>6, <1>7, <1>8, <1>9, <1>10 DEF Next, Shell, Connect

\* Nothing is open at the start.
LEMMA WholeInit == Init => WholeInv
  BY DEF Init, WholeInv, MemosAreSingle, UndisturbedIsWhole

\* A transfer that nothing disturbed and that is reported complete has
\* delivered all the blocks of the resource it asked for, each once and in
\* order: for all resources, any number of blocks, of memos and of requests.
THEOREM WholeTheorem == Spec => []UndisturbedIsWhole
<1>1. WholeInv => UndisturbedIsWhole
  BY DEF WholeInv
<1> QED
  BY TypeInit, TypeStep, WholeInit, WholeStep, <1>1, PTL DEF Spec

=============================================================================
