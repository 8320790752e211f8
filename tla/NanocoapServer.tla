--------------------------- MODULE NanocoapServer ---------------------------
(***************************************************************************)
(* src/network/nanocoap_server: one thread that receives a datagram, runs  *)
(* the handler of its resource and answers, over and over.  It keeps no    *)
(* memory of message IDs: a datagram that arrives again is handled again.  *)
(*                                                                         *)
(*   - /sha256 hashes payloads into one static context (block1);           *)
(*   - /riot/ver hands out a constant text in blocks (block2);             *)
(*   - /riot/value keeps a byte.                                           *)
(*                                                                         *)
(* The clients are external: those of the README, which send one request   *)
(* at a time, confirmably, again until it is answered, and give up at last.*)
(* What a client does with a resource is an activity; its n-th block is    *)
(* the pair of the activity and n, and a digest is the sequence of the     *)
(* blocks that went into it.  A datagram that is never taken from the      *)
(* network is lost.                                                        *)
(***************************************************************************)
EXTENDS Integers, Sequences

CONSTANTS
    Clients,
    Plans,          \* what a client may begin
    BlockSize,      \* bytes of the version in one block
    MaxActivities,  \* bound on the activities
    MaxRetransmit,  \* how often a client sends a request again
    ValueModulus    \* 2^8 for the uint8_t internal_value

\* An upload in some blocks (one block carries no option), a download of the
\* version, whose length in bytes is given, or a PUT of a number.
Uploads == [op : {"upload"}, size : Nat \ {0}]
Downloads == [op : {"version"}, size : Nat \ {0}]
Puts == [op : {"put"}, number : Int, length : Nat]

ASSUME PlansAssumption == Plans \subseteq Uploads \union Downloads \union Puts
ASSUME SizeAssumption == BlockSize \in Nat \ {0}
ASSUME ActivitiesAssumption == MaxActivities \in Nat
ASSUME RetransmitAssumption == MaxRetransmit \in Nat \ {0}
ASSUME ModulusAssumption == ValueModulus \in Nat \ {0}

Activities == 1..MaxActivities
Idle == 0
NoPlan == [op |-> "none"]
MaxPayload == 15

VARIABLES
    context,        \* the static sha256_context_t: the blocks hashed so far
    internalValue,  \* internal_value
    network,        \* datagrams under way
    doing,          \* doing[c]: the activity of client c, or Idle
    block,          \* block[c]: the block it has asked for
    copies,         \* copies[c]: how often it has sent that request
    gathered,       \* gathered[i]: the bytes or the digest that activity i got
    started,        \* activities so far
    plan,           \* history: plan[i], what activity i is
    finished,       \* history: activities that were answered to their end
    overlapped,     \* history: those that ran while another of their kind ran
    repeated,       \* history: whether any request was sent again
    lastPut         \* history: the PUT that was answered last

serverVars == <<context, internalValue>>
clientVars == <<doing, block, copies, gathered>>
history == <<plan, finished, overlapped, repeated, lastPut>>
vars == <<serverVars, network, clientVars, started, history>>

\* What sha256_final() leaves, and what a static variable begins with: no
\* context that sha256_init() made.
Cleared == << <<0, 0>> >>

Init ==
    /\ context = Cleared
    /\ internalValue = 0
    /\ network = {}
    /\ doing = [c \in Clients |-> Idle]
    /\ block = [c \in Clients |-> 0]
    /\ copies = [c \in Clients |-> 0]
    /\ gathered = [i \in Activities |-> << >>]
    /\ started = 0
    /\ plan = [i \in Activities |-> NoPlan]
    /\ finished = {}
    /\ overlapped = {}
    /\ repeated = FALSE
    /\ lastPut = Idle

Request(i, n, k) == [kind |-> "request", activity |-> i, block |-> n, copy |-> k]

\* The codes are 2.31, 2.04 (with a digest or without), 2.05 and 4.13.
Response(m, code, body, more) ==
    [kind |-> "response", activity |-> m.activity, block |-> m.block,
     code |-> code, body |-> body, more |-> more]

\* The answers to the request that client c has out.
Answers(c) ==
    {m \in network : m.kind = "response" /\ m.activity = doing[c] /\ m.block = block[c]}

-----------------------------------------------------------------------------
(* The clients.                                                            *)

\* A client begins an activity with the request for its first block.
Begin(c, p) ==
    LET i == started + 1
        others == {doing[d] : d \in Clients} \ {Idle}
        rivals == {j \in others : plan[j].op = p.op}
    IN  /\ doing[c] = Idle
        /\ started < MaxActivities
        /\ started' = i
        /\ doing' = [doing EXCEPT ![c] = i]
        /\ block' = [block EXCEPT ![c] = 0]
        /\ copies' = [copies EXCEPT ![c] = 1]
        /\ network' = network \union {Request(i, 0, 1)}
        /\ plan' = [plan EXCEPT ![i] = p]
        /\ overlapped' = overlapped \union rivals \union (IF rivals = {} THEN {} ELSE {i})
        /\ UNCHANGED <<serverVars, gathered, finished, repeated, lastPut>>

\* No answer came in time.
SendAgain(c) ==
    /\ doing[c] # Idle
    /\ copies[c] <= MaxRetransmit
    /\ copies' = [copies EXCEPT ![c] = @ + 1]
    /\ network' = network \union {Request(doing[c], block[c], copies'[c])}
    /\ repeated' = TRUE
    /\ UNCHANGED <<serverVars, doing, block, gathered, started, plan, finished,
                   overlapped, lastPut>>

\* No answer came to the last copy.
GiveUp(c) ==
    /\ doing[c] # Idle
    /\ copies[c] > MaxRetransmit
    /\ doing' = [doing EXCEPT ![c] = Idle]
    /\ network' = network \ Answers(c)
    /\ UNCHANGED <<serverVars, block, copies, gathered, started, history>>

\* The answer asks for, or announces, another block.
NextBlock(c) ==
    \E m \in Answers(c) :
        /\ m.more
        /\ block' = [block EXCEPT ![c] = @ + 1]
        /\ copies' = [copies EXCEPT ![c] = 1]
        /\ gathered' = [gathered EXCEPT ![doing[c]] = @ \o m.body]
        /\ network' = (network \ Answers(c)) \union {Request(doing[c], block'[c], 1)}
        /\ UNCHANGED <<serverVars, doing, started, history>>

\* The answer is the last.
End(c) ==
    \E m \in Answers(c) :
        /\ ~m.more
        /\ doing' = [doing EXCEPT ![c] = Idle]
        /\ gathered' = [gathered EXCEPT ![doing[c]] = @ \o m.body]
        /\ network' = network \ Answers(c)
        /\ finished' = finished \union {doing[c]}
        /\ lastPut' = IF m.code = "changed" THEN doing[c] ELSE lastPut
        /\ UNCHANGED <<serverVars, block, copies, started, plan, overlapped, repeated>>

-----------------------------------------------------------------------------
(* The server.                                                             *)

\* Whether a client waits for the answer to m; one that does not drops it.
Awaited(m) == \E c \in Clients : doing[c] = m.activity /\ block[c] = m.block

Answer(m, code, body, more) ==
    network' = (network \ {m}) \union
               (IF Awaited(m) THEN {Response(m, code, body, more)} ELSE {})

\* Mutant: the context is initialised once and never again.
HashedOnce(m) ==
    IF context = Cleared
        THEN << <<m.activity, m.block>> >>
        ELSE Append(context, <<m.activity, m.block>>)

\* Mutant: every block initialises the context.
HashedAfresh(m) == << <<m.activity, m.block>> >>

\* sha256_init() where the offset is 0, then sha256_update().
Hashed(m) ==
    IF m.block = 0
        THEN << <<m.activity, m.block>> >>
        ELSE Append(context, <<m.activity, m.block>>)

\* _sha256_handler() with a block that is not the last: 2.31.
Sha256More(m) ==
    /\ plan[m.activity].op = "upload"
    /\ m.block + 1 < plan[m.activity].size
    /\ context' = Hashed(m)
    /\ Answer(m, "continue", << >>, TRUE)
    /\ UNCHANGED internalValue

\* _sha256_handler() with the last block, or with a payload that has no block
\* option: sha256_final() and the digest.
Sha256Final(m) ==
    /\ plan[m.activity].op = "upload"
    /\ m.block + 1 = plan[m.activity].size
    /\ context' = Cleared
    /\ Answer(m, "digest", Hashed(m), FALSE)
    /\ UNCHANGED internalValue

\* The bytes of the version, and those of a block.
Version(p) == [x \in 1..p.size |-> <<0, x>>]

\* Mutant: a slice ends one byte early.
SliceShort(text, n) == SubSeq(text, n * BlockSize + 1, (n + 1) * BlockSize - 1)

\* What coap_blockwise_put_bytes() and _put_char() let through for block n;
\* SubSeq() beyond the end of the text is cut to it here.
Slice(text, n) ==
    SubSeq(text, n * BlockSize + 1,
           IF (n + 1) * BlockSize < Len(text) THEN (n + 1) * BlockSize ELSE Len(text))

\* _riot_block2_handler(): more is set while bytes were left out at the end.
Block2(m) ==
    LET text == Version(plan[m.activity])
    IN  /\ plan[m.activity].op = "version"
        /\ Answer(m, "content", Slice(text, m.block), (m.block + 1) * BlockSize < Len(text))
        /\ UNCHANGED serverVars

\* Mutant: the variable is as wide as what strtol() returns.
ValuePutWide(m) ==
    LET p == plan[m.activity]
    IN  /\ p.op = "put"
        /\ p.length <= MaxPayload
        /\ internalValue' = p.number
        /\ Answer(m, "changed", << >>, FALSE)
        /\ UNCHANGED context

\* _riot_value_handler() with PUT or POST: strtol(), cut to a byte.
ValuePut(m) ==
    LET p == plan[m.activity]
    IN  /\ p.op = "put"
        /\ p.length <= MaxPayload
        /\ internalValue' = p.number % ValueModulus
        /\ Answer(m, "changed", << >>, FALSE)
        /\ UNCHANGED context

\* Mutant: the length is not compared; strtol() reads what fits.
ValuePutTooLargeKept(m) ==
    LET p == plan[m.activity]
    IN  /\ p.op = "put"
        /\ p.length > MaxPayload
        /\ internalValue' = p.number % ValueModulus
        /\ Answer(m, "too_large", << >>, FALSE)
        /\ UNCHANGED context

\* _riot_value_handler() with a payload of 16 bytes or more.
ValuePutTooLarge(m) ==
    LET p == plan[m.activity]
    IN  /\ p.op = "put"
        /\ p.length > MaxPayload
        /\ Answer(m, "too_large", << >>, FALSE)
        /\ UNCHANGED serverVars

\* nanocoap_server() takes a datagram: handler and answer are one step.
Handle ==
    /\ \E m \in network :
          /\ m.kind = "request"
          /\ \/ Sha256More(m)
             \/ Sha256Final(m)
             \/ Block2(m)
             \/ ValuePut(m)
             \/ ValuePutTooLarge(m)
    /\ UNCHANGED <<clientVars, started, history>>

-----------------------------------------------------------------------------
Client(c) ==
    \/ \E p \in Plans : Begin(c, p)
    \/ SendAgain(c)
    \/ GiveUp(c)
    \/ NextBlock(c)
    \/ End(c)

Next == (\E c \in Clients : Client(c)) \/ Handle

Spec == Init /\ [][Next]_vars

-----------------------------------------------------------------------------
(* Properties.                                                             *)

Datagrams ==
    [kind : {"request"}, activity : Activities, block : Nat, copy : 1..(MaxRetransmit + 1)]
    \union
    [kind : {"response"}, activity : Activities, block : Nat, more : BOOLEAN,
     body : Seq(Nat \X Nat),
     code : {"continue", "digest", "changed", "content", "too_large"}]

\* Every variable is of its kind.
TypeOK ==
    /\ context \in Seq(Nat \X Nat)
    /\ internalValue \in 0..(ValueModulus - 1)
    /\ network \subseteq Datagrams
    /\ doing \in [Clients -> 0..started]
    /\ block \in [Clients -> Nat]
    /\ copies \in [Clients -> 0..(MaxRetransmit + 1)]
    /\ gathered \in [Activities -> Seq(Nat \X Nat)]
    /\ started \in 0..MaxActivities
    /\ plan \in [Activities -> Plans \union {NoPlan}]
    /\ finished \subseteq Activities /\ overlapped \subseteq Activities
    /\ repeated \in BOOLEAN
    /\ lastPut \in 0..started

Payloads(i) == [n \in 1..plan[i].size |-> <<i, n - 1>>]

Finished(op) == {i \in finished : plan[i].op = op}

\* A payload that comes in one datagram gets its own digest whatever other
\* clients upload meanwhile and however often it arrives (coap_handler.c:142-158).
SingleBlockIsRight ==
    \A i \in Finished("upload") : plan[i].size = 1 => gathered[i] = Payloads(i)

\* An upload in blocks gets the digest of its blocks if no other upload ran at
\* the same time and no datagram had to be sent again before it was done:
\* an earlier upload leaves nothing in the context.
QuietUploadIsRight ==
    \A i \in Finished("upload") \ overlapped : ~repeated => gathered[i] = Payloads(i)

\* The version that a client puts together is the whole text, in order, whatever
\* was lost, sent again or answered twice (coap_handler.c:55-86).
VersionIsWhole ==
    \A i \in Finished("version") : gathered[i] = Version(plan[i])

Putting == {c \in Clients : doing[c] # Idle /\ plan[doing[c]].op = "put"}

\* Nobody is changing the value, and the last to change it was alone.
ValueAtRest == lastPut # Idle /\ lastPut \notin overlapped /\ Putting = {}

\* Where nothing had to be sent again, the value stays what was PUT last, as
\* much of it as a byte holds; one that is refused changes nothing.
QuietValueStays == ValueAtRest /\ ~repeated => internalValue = plan[lastPut].number % ValueModulus

=============================================================================
