----------------------------- MODULE CoapClient -----------------------------
(***************************************************************************)
(* The test client of src/network/gcoap_test: three threads around the     *)
(* variables _last_req_path, _proxied, _proxy_remote and req_count of      *)
(* client.c, none of which has a lock.                                     *)
(*                                                                         *)
(*   - the shell runs gcoap_cli_cmd() at THREAD_PRIORITY_MAIN;             *)
(*   - coap_server_connect() asks for /.well-known/core, for /riot/board   *)
(*     and posts to /sha256, over and over, one priority higher;           *)
(*   - gcoap's thread runs _resp_handler(), at that same priority.         *)
(*                                                                         *)
(* RIOT switches between threads of one priority only where they block, so *)
(* a turn of the two upper threads is one action; the shell is preempted   *)
(* anywhere and takes several.  gcoap_req_send() is external: it takes one *)
(* of the MaxWaiting memos or fails.  The servers asked are external too.  *)
(***************************************************************************)
EXTENDS Integers, Sequences, FiniteSets

CONSTANTS
    Blocks,        \* Blocks[p]: blocks in which p is served; one block has no option
    LongPaths,     \* paths that do not fit into _last_req_path
    CliPaths,      \* paths that the user asks for
    ConnectPaths,  \* what coap_server_connect() asks for, in its order
    MaxWaiting,    \* CONFIG_GCOAP_REQ_WAITING_MAX
    MaxTransfers,  \* bound on the requests that are not follow-ups
    CountModulus   \* 2^16 for the uint16_t req_count

Paths == DOMAIN Blocks
NoPath == "none"

ASSUME BlocksAssumption == Blocks \in [Paths -> Nat \ {0}]
ASSUME PathsAssumption == LongPaths \subseteq Paths /\ CliPaths \subseteq Paths
ASSUME ConnectAssumption ==
    ConnectPaths \in Seq(Paths \ LongPaths) /\ Len(ConnectPaths) > 0
ASSUME WaitingAssumption == MaxWaiting \in Nat
ASSUME TransfersAssumption == MaxTransfers \in Nat
ASSUME ModulusAssumption == CountModulus \in Nat \ {0}

Transfers == 1..MaxTransfers

\* Texts of a request: a path, the URI of a path for a proxy, such a URI cut
\* off at the end of proxy_uri, or nothing.
Empty == [kind |-> "empty"]
CutUri == [kind |-> "cut"]
PathText(p) == [kind |-> "path", path |-> p]
UriText(p) == [kind |-> "uri", path |-> p]
Texts == {Empty, CutUri} \union {PathText(p) : p \in Paths}
                         \union {UriText(p) : p \in Paths}

\* The text travels as Uri-Path options, or as the Proxy-Uri option.
Direct(text) == [option |-> "path", text |-> text]
Proxied(text) == [option |-> "proxy", text |-> text]
Requests == [option : {"path", "proxy"}, text : Texts]

VARIABLES
    lastReqPath,   \* _last_req_path
    proxied,       \* _proxied
    proxyRemote,   \* whether _proxy_remote holds an address
    reqCount,      \* req_count
    shell,         \* where the shell stands in gcoap_cli_cmd()
    shellPath,     \* the path the user typed, until it is sent
    loaded,        \* req_count as the shell's increment has loaded it, until it is stored
    connect,       \* which of ConnectPaths coap_server_connect() asks for next
    open,          \* gcoap's memos: requests that wait for a response
    started,       \* transfers so far
    asked,         \* history: asked[t], the request that started transfer t
    received,      \* history: received[t], the blocks that t got
    complete,      \* history: transfers for which "blockwise complete" was printed
    disturbed,     \* history: transfers that met another request, or a proxy
    sent,          \* history: requests that _send() handed over
    lost           \* history: increments that the shell's store overwrote

clientVars == <<lastReqPath, proxied, proxyRemote, reqCount>>
shellVars == <<shell, shellPath, loaded>>
history == <<asked, received, complete, disturbed, sent, lost>>
vars == <<clientVars, shellVars, connect, open, started, history>>

Init ==
    /\ lastReqPath = Empty
    /\ proxied = FALSE
    /\ proxyRemote = FALSE
    /\ reqCount = 0
    /\ shell = "prompt"
    /\ shellPath = NoPath
    /\ loaded = 0
    /\ connect = 1
    /\ open = {}
    /\ started = 0
    /\ asked = [t \in Transfers |-> Direct(Empty)]
    /\ received = [t \in Transfers |-> << >>]
    /\ complete = {}
    /\ disturbed = {}
    /\ sent = 0
    /\ lost = 0

\* What is remembered of a text: nothing of one that is too long.
Remembered(p, text) == IF p \in LongPaths THEN Empty ELSE text

\* The transfers that are under way.
UnderWay == {m.transfer : m \in open}

MemoFree == Cardinality(open) < MaxWaiting

\* gcoap_req_send() of a new request: a memo, and history.
StartTransfer(request) ==
    LET t == started + 1
    IN  /\ started < MaxTransfers
        /\ MemoFree
        /\ started' = t
        /\ open' = open \union {[transfer |-> t, request |-> request, block |-> 0]}
        /\ asked' = [asked EXCEPT ![t] = request]
        /\ sent' = sent + 1

-----------------------------------------------------------------------------
(* The shell: gcoap_cli_cmd().                                             *)

\* The command is read; memset() clears _last_req_path.
CliClearPath ==
    /\ shell = "prompt"
    /\ shell' = "cleared"
    /\ shellPath' \in CliPaths
    /\ lastReqPath' = Empty
    /\ disturbed' = disturbed \union UnderWay
    /\ UNCHANGED <<proxied, proxyRemote, reqCount, loaded, connect, open, started,
                   asked, received, complete, sent, lost>>

\* memcpy() of the path, or of the URI that is asked of the proxy.
CliStorePath ==
    /\ shell = "cleared"
    /\ shell' = "built"
    /\ lastReqPath' = Remembered(shellPath, IF proxied THEN UriText(shellPath)
                                                       ELSE PathText(shellPath))
    /\ disturbed' = disturbed \union UnderWay
    /\ UNCHANGED <<proxied, proxyRemote, reqCount, shellPath, loaded, connect, open,
                   started, asked, received, complete, sent, lost>>

\* The request that the shell has built; snprintf() cuts a URI that is too long.
CliRequest ==
    IF ~proxied THEN Direct(PathText(shellPath))
    ELSE Proxied(IF shellPath \in LongPaths THEN CutUri ELSE UriText(shellPath))

\* _send(): gcoap_req_send() took the request.
CliSend ==
    /\ shell = "built"
    /\ shell' = "sent"
    /\ shellPath' = NoPath
    /\ StartTransfer(CliRequest)
    \* coap_server_connect() came between the path and the sending of it
    /\ disturbed' = IF lastReqPath = Remembered(shellPath, CliRequest.text)
                    THEN disturbed ELSE disturbed \union {started'}
    /\ UNCHANGED <<clientVars, loaded, connect, received, complete, lost>>

\* Mutant: a request is counted though it was not sent.
CliSendFailsCounts ==
    /\ shell = "built"
    /\ shell' = "sent"
    /\ shellPath' = NoPath
    /\ UNCHANGED <<clientVars, loaded, connect, open, started, history>>

\* _send() returns 0: no address, or no memo.
CliSendFails ==
    /\ shell = "built"
    /\ shell' = "prompt"
    /\ shellPath' = NoPath
    /\ UNCHANGED <<clientVars, loaded, connect, open, started, history>>

\* req_count++ begins: the count is loaded.
CliLoadCount ==
    /\ shell = "sent"
    /\ shell' = "counting"
    /\ loaded' = reqCount
    /\ UNCHANGED <<clientVars, shellPath, connect, open, started, history>>

\* Mutant: the count is wider than the variable that holds it.
CliStoreCountWide ==
    /\ shell = "counting"
    /\ shell' = "prompt"
    /\ reqCount' = loaded + 1
    /\ loaded' = 0
    /\ UNCHANGED <<lastReqPath, proxied, proxyRemote, shellPath, connect, open,
                   started, history>>

\* req_count++ ends: the incremented count is stored.
CliStoreCount ==
    /\ shell = "counting"
    /\ shell' = "prompt"
    /\ reqCount' = (loaded + 1) % CountModulus
    /\ loaded' = 0
    /\ lost' = lost + ((reqCount - loaded) % CountModulus)
    /\ UNCHANGED <<lastReqPath, proxied, proxyRemote, shellPath, connect, open,
                   started, asked, received, complete, disturbed, sent>>

\* "coap proxy set": the address first, _proxied last.
CliProxySet ==
    /\ shell = "prompt"
    /\ shell' = "setting"
    /\ proxyRemote' = TRUE
    /\ UNCHANGED <<lastReqPath, proxied, reqCount, shellPath, loaded, connect, open,
                   started, history>>

\* "coap proxy set" with an address that sock_udp_name2ep() does not take;
\* what that leaves in _proxy_remote is not said.
CliProxySetFails ==
    /\ shell = "prompt"
    /\ proxyRemote' \in {proxyRemote, FALSE}
    /\ UNCHANGED <<lastReqPath, proxied, reqCount, shellVars, connect, open, started,
                   history>>

\* "coap proxy unset": memset() of the address first, _proxied last.
CliProxyUnset ==
    /\ shell = "prompt"
    /\ shell' = "unsetting"
    /\ proxyRemote' = FALSE
    /\ UNCHANGED <<lastReqPath, proxied, reqCount, shellPath, loaded, connect, open,
                   started, history>>

\* The assignment to _proxied that ends either command.
CliSetProxied ==
    /\ shell \in {"setting", "unsetting"}
    /\ shell' = "prompt"
    /\ proxied' = (shell = "setting")
    /\ disturbed' = disturbed \union UnderWay
    /\ UNCHANGED <<lastReqPath, proxyRemote, reqCount, shellPath, loaded, connect, open,
                   started, asked, received, complete, sent, lost>>

-----------------------------------------------------------------------------
(* coap_server_connect(): send_coap_get_request() and gcoap_post().        *)

Advance == connect' = (connect % Len(ConnectPaths)) + 1

\* One request: its path is stored, it is sent and it is counted.
ConnectSend ==
    LET p == ConnectPaths[connect]
    IN  /\ proxied => proxyRemote
        /\ lastReqPath' = PathText(p)
        /\ StartTransfer(Direct(PathText(p)))
        /\ disturbed' = disturbed \union UnderWay
                                  \union (IF proxied THEN {started'} ELSE {})
        /\ reqCount' = (reqCount + 1) % CountModulus
        /\ Advance
        /\ UNCHANGED <<proxied, proxyRemote, shellVars, received, complete, lost>>

\* _send() returns 0, and only a line is printed.
ConnectSendFails ==
    /\ lastReqPath' = PathText(ConnectPaths[connect])
    /\ disturbed' = disturbed \union UnderWay
    /\ Advance
    /\ UNCHANGED <<proxied, proxyRemote, reqCount, shellVars, open, started,
                   asked, received, complete, sent, lost>>

-----------------------------------------------------------------------------
(* gcoap's thread: _resp_handler().                                        *)

\* The path for which a server takes a request, as a set: no path if the
\* request makes no sense to it.
Resource(request) ==
    {p \in Paths : request \in {Direct(PathText(p)), Proxied(UriText(p))}}

\* Mutant: the memo of a follow-up stays when it times out.
RespWithoutBlockKeeps(m) ==
    /\ open' = IF m.block > 0 THEN open ELSE open \ {m}
    /\ UNCHANGED <<clientVars, shellVars, connect, started, history>>

\* A timeout, an error, or a response without a Block2 option.
RespWithoutBlock(m) ==
    /\ open' = open \ {m}
    /\ UNCHANGED <<clientVars, shellVars, connect, started, history>>

\* Mutant: the number of the block is incremented twice.
FollowUpSkips(m) ==
    [m EXCEPT !.request = IF proxied THEN Proxied(lastReqPath) ELSE Direct(lastReqPath),
              !.block = @ + 2]

\* The request for the next block, from what is remembered of the last path.
FollowUp(m) ==
    [m EXCEPT !.request = IF proxied THEN Proxied(lastReqPath) ELSE Direct(lastReqPath),
              !.block = @ + 1]

Receive(m, p) ==
    received' = [received EXCEPT ![m.transfer] = Append(@, <<p, m.block>>)]

\* A block that is not the last: ask for the next one if the path is known
\* and gcoap, which still holds the memo of this one, has another.
RespMore(m, p) ==
    /\ m.block + 1 < Blocks[p]
    /\ Receive(m, p)
    /\ open' = (open \ {m}) \union
               (IF (m.block = 0 /\ lastReqPath = Empty) \/ ~MemoFree THEN {}
                ELSE {FollowUp(m)})
    /\ UNCHANGED <<clientVars, shellVars, connect, started, asked, complete, disturbed,
                   sent, lost>>

\* The last block, or one past the end, which is empty.
RespLast(m, p) ==
    /\ m.block + 1 >= Blocks[p]
    /\ Receive(m, p)
    /\ complete' = complete \union {m.transfer}
    /\ open' = open \ {m}
    /\ UNCHANGED <<clientVars, shellVars, connect, started, asked, disturbed, sent, lost>>

RespHandler(m) ==
    \/ RespWithoutBlock(m)
    \/ \E p \in Resource(m.request) :
          Blocks[p] > 1 /\ (RespMore(m, p) \/ RespLast(m, p))

-----------------------------------------------------------------------------
Shell ==
    \/ CliClearPath
    \/ CliStorePath
    \/ CliSend
    \/ CliSendFails
    \/ CliLoadCount
    \/ CliStoreCount
    \/ CliProxySet
    \/ CliProxySetFails
    \/ CliProxyUnset
    \/ CliSetProxied

Connect == ConnectSend \/ ConnectSendFails

Gcoap == \E m \in open : RespHandler(m)

Next == Shell \/ Connect \/ Gcoap

Spec == Init /\ [][Next]_vars

(***************************************************************************)
(* Every memo has a timer, and its thread has the highest priority in      *)
(* this program: an open request is answered or times out.                 *)
(***************************************************************************)
FairSpec == Spec /\ WF_vars(Gcoap)

-----------------------------------------------------------------------------
(* Properties.                                                             *)

\* Every variable is of its kind.
TypeOK ==
    /\ lastReqPath \in Texts
    /\ proxied \in BOOLEAN /\ proxyRemote \in BOOLEAN
    /\ reqCount \in 0..(CountModulus - 1) /\ loaded \in 0..(CountModulus - 1)
    /\ shell \in {"prompt", "cleared", "built", "sent", "counting", "setting", "unsetting"}
    /\ shellPath \in CliPaths \union {NoPath}
    /\ connect \in 1..Len(ConnectPaths)
    /\ open \subseteq [transfer : Transfers, request : Requests, block : Nat]
    /\ started \in 0..MaxTransfers
    /\ asked \in [Transfers -> Requests]
    /\ received \in [Transfers -> Seq(Paths \X Nat)]
    /\ complete \subseteq Transfers /\ disturbed \subseteq Transfers
    /\ sent \in 0..MaxTransfers
    /\ lost \in Nat

AllBlocks(p) == [i \in 1..Blocks[p] |-> <<p, i - 1>>]

\* A transfer that nothing disturbed from its first request to its last block
\* and that is reported complete has delivered all the blocks of the resource
\* that was asked for, each once and in order (client.c:142-177).
UndisturbedIsWhole ==
    \A t \in complete \ disturbed :
        \E p \in Resource(asked[t]) : received[t] = AllBlocks(p)

\* req_count is the number of requests sent, but for the increments that fell
\* into an increment of the shell's (client.c:208, main.c:61-68).
CountIsAccounted ==
    LET pending == IF shell \in {"sent", "counting"} THEN 1 ELSE 0
    IN  (reqCount + pending) % CountModulus = (sent - lost) % CountModulus

\* Every transfer comes to an end, even one that has begun to ask for the
\* blocks of another resource (client.c:163).
TransfersEnd == \A t \in Transfers : (t \in UnderWay) ~> (t \notin UnderWay)

=============================================================================
