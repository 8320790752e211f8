------------------------ MODULE NanocoapServerProofs ------------------------
(***************************************************************************)
(* Proofs about NanocoapServer, for every number of clients and of         *)
(* activities, every plan, and however often a request is sent again.      *)
(***************************************************************************)
EXTENDS NanocoapServer, SequenceTheorems, TLAPS

\* The digest of a payload that came alone.
Alone(i) == << <<i, 0>> >>

\* Activity i uploads a payload in one datagram.
Single(i) == plan[i].op = "upload" /\ plan[i].size = 1

\* The kinds that the argument needs.
Kinds ==
    /\ started \in 0..MaxActivities
    /\ doing \in [Clients -> 0..started]
    /\ block \in [Clients -> Nat]
    /\ plan \in [Activities -> Plans \union {NoPlan}]
    /\ DOMAIN gathered = Activities
    /\ finished \subseteq 1..started

\* A client has an activity of its own, and one that is finished is nobody's.
Owned ==
    /\ \A c, d \in Clients : doing[c] = doing[d] /\ doing[c] # Idle => c = d
    /\ \A c \in Clients : doing[c] \notin finished

\* Whatever is under way for a single upload is its request, or the digest of
\* its payload.
MessagesFit ==
    \A m \in network :
        /\ m.activity \in 1..started
        /\ Single(m.activity) =>
              /\ m.block = 0
              /\ m.kind = "response" => ~m.more /\ m.body = Alone(m.activity)

\* Nothing is gathered before the answer, and the digest after it.
GatheredFits ==
    /\ \A i \in Activities : i > started => gathered[i] = << >>
    /\ \A i \in 1..started :
          Single(i) => gathered[i] = IF i \in finished THEN Alone(i) ELSE << >>

\* A client asks for the one block of a single upload.
BlocksFit == \A c \in Clients : doing[c] # Idle /\ Single(doing[c]) => block[c] = 0

SingleInv == Kinds /\ Owned /\ MessagesFit /\ GatheredFits /\ BlocksFit

-----------------------------------------------------------------------------
\* A new activity is a new number: what is under way is not for it.
LEMMA BeginStep ==
    ASSUME SingleInv, NEW c \in Clients, NEW p \in Plans, Begin(c, p)
    PROVE  SingleInv'
<1>1. PICK i \in Nat : i = started + 1 /\ i \in 1..MaxActivities /\ i > started
  BY ActivitiesAssumption DEF SingleInv, Kinds, Begin
<1>2. /\ started' = i
      /\ doing' = [doing EXCEPT ![c] = i] /\ block' = [block EXCEPT ![c] = 0]
      /\ network' = network \union {Request(i, 0, 1)}
      /\ plan' = [plan EXCEPT ![i] = p]
      /\ UNCHANGED <<gathered, finished>>
  BY <1>1 DEF Begin
<1>3. /\ \A j \in 1..started : j \in 1..i /\ j # i /\ j \in Activities
      /\ \A j \in 1..i : j \in 1..started \/ j = i
      /\ i \in Activities /\ started \in Nat /\ i # 0
  BY <1>1, ActivitiesAssumption DEF SingleInv, Kinds, Activities
<1>4. \A j \in 1..started : plan'[j] = plan[j] /\ (Single(j)' <=> Single(j))
  BY <1>2, <1>3 DEF SingleInv, Kinds, Single
<1>5. Kinds'
  <2>1. doing' \in [Clients -> 0..i] /\ block' \in [Clients -> Nat]
    BY <1>1, <1>2, <1>3 DEF SingleInv, Kinds
  <2>2. plan' \in [Activities -> Plans \union {NoPlan}]
    BY <1>2, <1>3 DEF SingleInv, Kinds
  <2>3. i \in 0..MaxActivities /\ finished' \subseteq 1..i
    BY <1>1, <1>2, <1>3 DEF SingleInv, Kinds
  <2> QED
    BY <1>2, <2>1, <2>2, <2>3 DEF SingleInv, Kinds
<1>6. Owned'
  <2>1. \A d \in Clients : doing[d] # i
    BY <1>1, <1>3 DEF SingleInv, Kinds
  <2>2. i \notin finished
    BY <1>1, <1>3 DEF SingleInv, Kinds
  <2> QED
    BY <1>2, <2>1, <2>2 DEF SingleInv, Kinds, Owned
<1>7. MessagesFit'
  <2>1. Request(i, 0, 1).activity = i /\ Request(i, 0, 1).block = 0
        /\ Request(i, 0, 1).kind = "request"
    BY DEF Request
  <2>2. ASSUME NEW m \in network
        PROVE  /\ m.activity \in 1..i
               /\ Single(m.activity)' =>
                     m.block = 0 /\ (m.kind = "response" => ~m.more /\ m.body = Alone(m.activity))
    BY <1>3, <1>4 DEF SingleInv, MessagesFit
  <2>3. i \in 1..i
    BY <1>1, <1>3
  <2> QED
    BY <1>2, <2>1, <2>2, <2>3 DEF MessagesFit, Alone
<1>8. GatheredFits'
  <2>1. \A j \in Activities : j > i => j > started
    BY <1>1, <1>3 DEF Activities
  <2>2. i \notin finished /\ gathered[i] = << >>
    BY <1>1, <1>3 DEF SingleInv, Kinds, GatheredFits
  <2>3. \A j \in 1..started : Single(j)' => gathered[j] = IF j \in finished THEN Alone(j) ELSE << >>
    BY <1>4 DEF SingleInv, GatheredFits
  <2> QED
    BY <1>2, <1>3, <2>1, <2>2, <2>3 DEF SingleInv, GatheredFits, Alone
<1>9. BlocksFit'
  <2>1. \A d \in Clients : doing[d] # Idle => doing[d] \in 1..started
    BY <1>3 DEF SingleInv, Kinds, Idle
  <2>2. ASSUME NEW d \in Clients, doing'[d] # Idle, Single(doing[d])'
        PROVE  block'[d] = 0
    <3>1. CASE d = c
      BY <1>2, <3>1 DEF SingleInv, Kinds
    <3>2. CASE d # c
      <4>1. doing'[d] = doing[d] /\ block'[d] = block[d]
        BY <1>2, <3>2 DEF SingleInv, Kinds
      <4>2. PICK j \in 1..started : j = doing[d] /\ j # Idle
        BY <2>1, <2>2, <4>1
      <4>3. Single(j)
        BY <1>4, <2>2, <4>1, <4>2 DEF Single
      <4> QED
        BY <4>1, <4>2, <4>3 DEF SingleInv, BlocksFit
    <3> QED
      BY <3>1, <3>2
  <2> QED
    BY <2>2 DEF BlocksFit
<1> QED
  BY <1>5, <1>6, <1>7, <1>8, <1>9 DEF SingleInv

\* A copy asks for the same block.
LEMMA SendAgainStep ==
    ASSUME SingleInv, NEW c \in Clients, SendAgain(c)
    PROVE  SingleInv'
<1>1. PICK k : k = copies[c] + 1
  OBVIOUS
<1>2. PICK m : m = Request(doing[c], block[c], copies'[c])
  OBVIOUS
<1>3. /\ network' = network \union {m} /\ doing[c] # Idle
      /\ UNCHANGED <<started, doing, block, plan, gathered, finished>>
  BY <1>2 DEF SendAgain
<1>4. m.activity = doing[c] /\ m.block = block[c] /\ m.kind = "request"
  BY <1>2 DEF Request
<1>5. doing[c] \in 1..started
  BY <1>3 DEF SingleInv, Kinds, Idle
<1>6. MessagesFit'
  BY <1>3, <1>4, <1>5 DEF SingleInv, MessagesFit, BlocksFit, Single
<1> QED
  BY <1>3, <1>6 DEF SingleInv, Kinds, Owned, GatheredFits, BlocksFit, Single

\* Who gives up has no activity any more.
LEMMA GiveUpStep ==
    ASSUME SingleInv, NEW c \in Clients, GiveUp(c)
    PROVE  SingleInv'
<1>1. /\ doing' = [doing EXCEPT ![c] = Idle] /\ network' \subseteq network
      /\ UNCHANGED <<started, block, plan, gathered, finished>>
  BY DEF GiveUp, history
<1>2. Idle \notin finished /\ Idle \in 0..started
  BY DEF SingleInv, Kinds, Idle
<1>3. Kinds' /\ Owned' /\ BlocksFit'
  BY <1>1, <1>2 DEF SingleInv, Kinds, Owned, BlocksFit, Single
<1>4. MessagesFit' /\ GatheredFits'
  BY <1>1 DEF SingleInv, MessagesFit, GatheredFits, Single
<1> QED
  BY <1>3, <1>4 DEF SingleInv

\* No answer announces another block of a single upload.
LEMMA NextBlockStep ==
    ASSUME SingleInv, NEW c \in Clients, NextBlock(c), doing[c] # Idle
    PROVE  SingleInv'
<1>1. PICK i \in 1..started : i = doing[c]
  BY DEF SingleInv, Kinds, Idle
<1>2. PICK m \in network :
         /\ m.kind = "response" /\ m.activity = i /\ m.more
         /\ gathered' = [gathered EXCEPT ![i] = @ \o m.body]
  BY <1>1 DEF NextBlock, Answers
<1>3. ~Single(i)
  BY <1>2 DEF SingleInv, MessagesFit
<1>4. PICK r : r = Request(doing[c], block'[c], 1)
  OBVIOUS
<1>5. /\ block' = [block EXCEPT ![c] = @ + 1]
      /\ network' \subseteq network \union {r}
      /\ UNCHANGED <<started, doing, plan, finished>>
  BY <1>4 DEF NextBlock, history
<1>6. r.activity = i
  BY <1>1, <1>4 DEF Request
<1>7. Kinds' /\ Owned'
  BY <1>2, <1>5 DEF SingleInv, Kinds, Owned
<1>8. MessagesFit'
  BY <1>3, <1>5, <1>6 DEF SingleInv, MessagesFit, Single
<1>9. GatheredFits'
  <2>1. /\ \A j \in Activities : j > started => j # i
        /\ \A j \in 1..started : j \in Activities
    BY ActivitiesAssumption DEF SingleInv, Kinds, Activities
  <2>2. \A j \in Activities : j # i => gathered'[j] = gathered[j]
    BY <1>2 DEF SingleInv, Kinds
  <2> QED
    BY <1>3, <1>5, <2>1, <2>2 DEF SingleInv, GatheredFits, Single
<1>10. BlocksFit'
  <2>1. ASSUME NEW d \in Clients, doing[d] # Idle, Single(doing[d])
        PROVE  block'[d] = 0
    <3>1. d # c
      BY <1>1, <1>3, <2>1
    <3> QED
      BY <1>5, <2>1, <3>1 DEF SingleInv, Kinds, BlocksFit
  <2> QED
    BY <1>5, <2>1 DEF BlocksFit, Single
<1> QED
  BY <1>7, <1>8, <1>9, <1>10 DEF SingleInv

\* The answer is gathered once, as the activity is nobody's then.
LEMMA EndStep ==
    ASSUME SingleInv, NEW c \in Clients, End(c), doing[c] # Idle
    PROVE  SingleInv'
<1>1. PICK i \in 1..started : i = doing[c]
  BY DEF SingleInv, Kinds, Idle
<1>2. PICK m \in network :
         /\ m.kind = "response" /\ m.activity = i
         /\ gathered' = [gathered EXCEPT ![i] = @ \o m.body]
  BY <1>1 DEF End, Answers
<1>3. /\ doing' = [doing EXCEPT ![c] = Idle] /\ network' \subseteq network
      /\ finished' = finished \union {i}
      /\ UNCHANGED <<started, block, plan>>
  <2>1. network' \subseteq network
    BY DEF End
  <2>2. finished' = finished \union {i} /\ doing' = [doing EXCEPT ![c] = Idle]
    BY <1>1 DEF End
  <2>3. UNCHANGED <<started, block, plan>>
    BY DEF End
  <2> QED
    BY <2>1, <2>2, <2>3
<1>4. Idle \notin finished' /\ Idle \in 0..started
  BY <1>1, <1>3 DEF SingleInv, Kinds, Idle
<1>5. i \notin finished
  BY <1>1 DEF SingleInv, Owned
<1>6. Kinds'
  BY <1>2, <1>3, <1>4 DEF SingleInv, Kinds
<1>7. Owned'
  <2>1. \A d \in Clients : doing'[d] # Idle => d # c /\ doing'[d] = doing[d]
    BY <1>3 DEF SingleInv, Kinds
  <2>2. \A d \in Clients : d # c => doing[d] # i \/ doing[d] = Idle
    BY <1>1 DEF SingleInv, Owned
  <2> QED
    BY <1>1, <1>3, <1>4, <2>1, <2>2 DEF SingleInv, Owned
<1>8. MessagesFit' /\ BlocksFit'
  <2>1. MessagesFit'
    BY <1>3 DEF SingleInv, MessagesFit, Single
  <2>2. \A d \in Clients : doing'[d] # Idle => doing'[d] = doing[d] /\ block'[d] = block[d]
    BY <1>3 DEF SingleInv, Kinds
  <2>3. BlocksFit'
    BY <1>3, <2>2 DEF SingleInv, BlocksFit, Single
  <2> QED
    BY <2>1, <2>3
<1>9. GatheredFits'
  <2>1. /\ \A j \in Activities : j > started => j # i
        /\ \A j \in 1..started : j \in Activities
    BY ActivitiesAssumption DEF SingleInv, Kinds, Activities
  <2>2. \A j \in Activities : j # i => gathered'[j] = gathered[j]
    BY <1>2 DEF SingleInv, Kinds
  <2>3. Single(i) => gathered'[i] = Alone(i)
    <3>1. SUFFICES ASSUME Single(i)
                   PROVE  gathered'[i] = Alone(i)
      OBVIOUS
    <3>2. gathered[i] = << >> /\ m.body = Alone(i)
      BY <1>2, <1>5, <3>1 DEF SingleInv, GatheredFits, MessagesFit
    <3>3. gathered'[i] = gathered[i] \o m.body
      BY <1>2, <2>1 DEF SingleInv, Kinds
    <3>4. Alone(i) \in Seq({<<i, 0>>})
      BY DEF Alone
    <3>5. << >> \o Alone(i) = Alone(i)
      BY <3>4, ConcatEmptySeq
    <3> QED
      BY <3>2, <3>3, <3>5
  <2> QED
    BY <1>3, <2>1, <2>2, <2>3 DEF SingleInv, GatheredFits, Single
<1> QED
  BY <1>6, <1>7, <1>8, <1>9 DEF SingleInv

\* An answer to a single upload is the digest of its payload: its block has
\* the offset 0, and sha256_init() forgets what was hashed before.
LEMMA HandleStep ==
    ASSUME SingleInv, Handle
    PROVE  SingleInv'
<1>1. UNCHANGED <<doing, block, gathered, started, plan, finished>>
  BY DEF Handle, clientVars, history
<1>2. PICK m \in network :
         /\ m.kind = "request"
         /\ \/ Sha256More(m)
            \/ Sha256Final(m)
            \/ Block2(m)
            \/ ValuePut(m)
            \/ ValuePutTooLarge(m)
  BY DEF Handle
<1>3. m.activity \in 1..started /\ (Single(m.activity) => m.block = 0)
  BY DEF SingleInv, MessagesFit
<1>4. ASSUME NEW code, NEW body, NEW more, Answer(m, code, body, more),
             Single(m.activity) => ~more /\ body = Alone(m.activity)
      PROVE  MessagesFit'
  <2>1. PICK a : a = Response(m, code, body, more)
    OBVIOUS
  <2>2. /\ network' \subseteq network \union {a}
        /\ a.activity = m.activity /\ a.block = m.block /\ a.body = body /\ a.more = more
    BY <1>4, <2>1 DEF Answer, Response
  <2> QED
    BY <1>1, <1>3, <1>4, <2>2 DEF SingleInv, MessagesFit, Single
<1>5. MessagesFit'
  <2>1. CASE Sha256More(m)
    <3>1. ~Single(m.activity)
      BY <1>3, <2>1 DEF Sha256More, Single
    <3> QED
      BY <1>4, <2>1, <3>1 DEF Sha256More
  <2>2. CASE Sha256Final(m)
    <3>1. Single(m.activity) => Hashed(m) = Alone(m.activity)
      BY <1>3 DEF Hashed, Alone
    <3> QED
      BY <1>4, <2>2, <3>1 DEF Sha256Final
  <2>3. CASE Block2(m) \/ ValuePut(m) \/ ValuePutTooLarge(m)
    <3>1. ~Single(m.activity)
      BY <2>3 DEF Block2, ValuePut, ValuePutTooLarge, Single
    <3> QED
      BY <1>4, <2>3, <3>1 DEF Block2, ValuePut, ValuePutTooLarge
  <2> QED
    BY <1>2, <2>1, <2>2, <2>3
<1> QED
  BY <1>1, <1>5 DEF SingleInv, Kinds, Owned, GatheredFits, BlocksFit, Single

\* No step of a client or of the server leaves the invariant.
LEMMA SingleStep ==
    ASSUME SingleInv, [Next]_vars
    PROVE  SingleInv'
<1>1. ASSUME NEW c \in Clients, NextBlock(c) \/ End(c)
      PROVE  doing[c] # Idle
  <2>1. PICK m \in network : m.activity = doing[c]
    BY <1>1 DEF NextBlock, End, Answers
  <2> QED
    BY <2>1 DEF SingleInv, MessagesFit, Idle
<1>2. ASSUME NEW c \in Clients, Client(c)
      PROVE  SingleInv'
  BY <1>1, <1>2, BeginStep, SendAgainStep, GiveUpStep, NextBlockStep, EndStep DEF Client
<1>3. CASE UNCHANGED vars
  BY <1>3 DEF vars, clientVars, history, SingleInv, Kinds, Owned, MessagesFit,
              GatheredFits, BlocksFit, Single
<1> QED
  BY <1>2, <1>3, HandleStep DEF Next

\* Nothing has begun at the start.
LEMMA SingleInit == Init => SingleInv
<1>1. \A i \in 1..0 : FALSE
  OBVIOUS
<1> QED
  BY <1>1, ActivitiesAssumption
  DEF Init, SingleInv, Kinds, Owned, MessagesFit, GatheredFits, BlocksFit, Idle

\* What the invariant says of an upload that was answered.
LEMMA SingleIsRight ==
    ASSUME SingleInv
    PROVE  SingleBlockIsRight
<1>1. SUFFICES ASSUME NEW i \in finished, Single(i)
               PROVE  gathered[i] = Payloads(i)
  BY DEF SingleBlockIsRight, Finished, Single
<1>2. i \in 1..started /\ i \in Int
  BY DEF SingleInv, Kinds
<1>3. gathered[i] = Alone(i)
  BY <1>1, <1>2 DEF SingleInv, GatheredFits
<1>4. Payloads(i) = [n \in 1..1 |-> <<i, n - 1>>]
  BY <1>1 DEF Payloads, Single
<1>5. [n \in 1..1 |-> <<i, n - 1>>] = Alone(i)
  BY <1>2 DEF Alone
<1> QED
  BY <1>3, <1>4, <1>5

\* A payload that comes in one datagram gets its own digest whatever other
\* clients upload meanwhile and however often it arrives: for every number of
\* clients and every plan.
THEOREM SingleTheorem == Spec => []SingleBlockIsRight
<1> QED
  BY SingleInit, SingleStep, SingleIsRight, PTL DEF Spec

-----------------------------------------------------------------------------
(* Blocks: what is under way is for a block that there is, and what a      *)
(* client has of the version is the part before the block it asks for.     *)

\* Activity i has a block n.
HasBlock(i, n) ==
    \/ plan[i].op = "upload" /\ n < plan[i].size
    \/ plan[i].op = "version" /\ n * BlockSize < plan[i].size
    \/ plan[i].op = "put" /\ n = 0

\* What a client has of activity i before the answer to block n.
Part(i, n) ==
    IF plan[i].op = "version" THEN SubSeq(Version(plan[i]), 1, n * BlockSize) ELSE << >>

\* An answer announces another block where there is one; one with a part of the
\* version carries the slice of its block, and only the last one a digest.
AnswerFits(m) ==
    /\ m.body \in Seq(Nat \X Nat)
    /\ m.more <=> HasBlock(m.activity, m.block + 1)
    /\ plan[m.activity].op = "version" => m.body = Slice(Version(plan[m.activity]), m.block)
    /\ plan[m.activity].op # "version" /\ m.more => m.body = << >>
    /\ m.code = "changed" => plan[m.activity].op = "put"

AnswersFit ==
    \A m \in network :
        /\ m.block \in Nat /\ HasBlock(m.activity, m.block)
        /\ m.kind = "response" => AnswerFits(m)

PartsFit ==
    \A c \in Clients : doing[c] # Idle =>
        /\ HasBlock(doing[c], block[c])
        /\ gathered[doing[c]] = Part(doing[c], block[c])

VersionsFit == \A i \in finished : plan[i].op = "version" => gathered[i] = Version(plan[i])

BlockInv ==
    /\ context \in Seq(Nat \X Nat)
    /\ AnswersFit /\ PartsFit /\ VersionsFit

\* What an activity may be.
LEMMA PlanKinds ==
    ASSUME NEW p \in Plans \union {NoPlan}
    PROVE  /\ p.op \in {"upload", "version"} => p.size \in Nat \ {0}
           /\ p.op = "put" => p.number \in Int /\ p.length \in Nat
           /\ p \in Plans => p.op \in {"upload", "version", "put"}
  BY PlansAssumption DEF Uploads, Downloads, Puts, NoPlan

\* The text of the version is as long as its size says.
LEMMA VersionText ==
    ASSUME NEW p, p.size \in Nat
    PROVE  /\ Version(p) \in Seq(Nat \X Nat)
           /\ Len(Version(p)) = p.size
  BY DEF Version

\* The ends of a block, for a length that is not known.
LEMMA Ends ==
    ASSUME NEW n \in Nat
    PROVE  /\ n * BlockSize \in Nat /\ (n + 1) * BlockSize \in Nat
           /\ n * BlockSize < (n + 1) * BlockSize
<1>1. PICK b \in Nat \ {0} : b = BlockSize
  BY SizeAssumption
<1>2. n * b \in Nat /\ (n + 1) * b = n * b + b
  BY Z3
<1>3. (n + 1) * b \in Nat /\ n * b < (n + 1) * b
  BY <1>2
<1> QED
  BY <1>1, <1>2, <1>3

\* A slice goes on where the slices before it end, and the last one completes
\* the text.
LEMMA SlicesJoin ==
    ASSUME NEW t \in Seq(Nat \X Nat), NEW n \in Nat, n * BlockSize < Len(t)
    PROVE  SubSeq(t, 1, n * BlockSize) \o Slice(t, n)
           = IF (n + 1) * BlockSize < Len(t) THEN SubSeq(t, 1, (n + 1) * BlockSize) ELSE t
<1>1. PICK a \in Nat, e \in Nat : a = n * BlockSize /\ e = (n + 1) * BlockSize /\ a < e
  BY Ends
<1>2. PICK z \in Nat : z = IF e < Len(t) THEN e ELSE Len(t)
  BY <1>1, LenProperties
<1>3. Slice(t, n) = SubSeq(t, a + 1, z)
  BY <1>1, <1>2 DEF Slice
<1>4. 1 \in 1..(Len(t) + 1) /\ a \in (1 - 1)..Len(t) /\ z \in a..Len(t)
  BY <1>1, <1>2, LenProperties
<1>5. SubSeq(t, 1, a) \o SubSeq(t, a + 1, z) = SubSeq(t, 1, z)
  BY <1>4, ConcatAdjacentSubSeq
<1>6. SubSeq(t, 1, Len(t)) = t
  BY SubSeqFull
<1>7. SubSeq(t, 1, z) = IF e < Len(t) THEN SubSeq(t, 1, e) ELSE t
  BY <1>2, <1>6, Zenon
<1> QED
  BY <1>1, <1>3, <1>5, <1>7, Zenon

\* A slice is made of bytes of the text.
LEMMA SliceKind ==
    ASSUME NEW t \in Seq(Nat \X Nat), NEW n \in Nat
    PROVE  Slice(t, n) \in Seq(Nat \X Nat)
<1>1. PICK a \in Nat, e \in Nat : a = n * BlockSize /\ e = (n + 1) * BlockSize
  BY Ends
<1>2. PICK z \in Nat : z = (IF e < Len(t) THEN e ELSE Len(t)) /\ z <= Len(t)
  BY <1>1, LenProperties
<1>3. \A x \in (a + 1)..z : t[x] \in Nat \X Nat
  BY <1>2, LenProperties, ElementOfSeq
<1>4. SubSeq(t, a + 1, z) \in Seq(Nat \X Nat)
  BY <1>3, SubSeqProperties
<1> QED
  BY <1>1, <1>2, <1>4, Zenon DEF Slice

\* A new activity has a first block, and nothing of it has come.
LEMMA BeginBlocks ==
    ASSUME SingleInv, BlockInv, NEW c \in Clients, NEW p \in Plans, Begin(c, p)
    PROVE  BlockInv'
<1>1. PICK i \in Nat : i = started + 1 /\ i \in 1..MaxActivities /\ i > started
  BY ActivitiesAssumption DEF SingleInv, Kinds, Begin
<1>2. /\ doing' = [doing EXCEPT ![c] = i] /\ block' = [block EXCEPT ![c] = 0]
      /\ network' = network \union {Request(i, 0, 1)}
      /\ plan' = [plan EXCEPT ![i] = p]
      /\ UNCHANGED <<context, gathered, finished>>
  BY <1>1 DEF Begin, serverVars
<1>3. /\ \A j \in 1..started : j # i /\ j \in Activities
      /\ i \in Activities /\ started \in Nat
  BY <1>1, ActivitiesAssumption DEF SingleInv, Kinds, Activities
<1>4. plan'[i] = p /\ \A j \in 1..started : plan'[j] = plan[j]
  BY <1>2, <1>3 DEF SingleInv, Kinds
<1>5. \A j \in 1..started, n \in Nat :
         /\ HasBlock(j, n)' <=> HasBlock(j, n)
         /\ Part(j, n)' = Part(j, n)
  BY <1>4 DEF HasBlock, Part
<1>6. HasBlock(i, 0)' /\ Part(i, 0)' = << >>
  <2>1. 0 * BlockSize = 0
    BY SizeAssumption
  <2>2. SubSeq(Version(p), 1, 0) = << >>
    BY SubSeqEmpty
  <2>3. HasBlock(i, 0)'
    BY <1>4, <2>1, PlanKinds DEF HasBlock
  <2> QED
    BY <1>4, <2>1, <2>2, <2>3 DEF Part
<1>7. AnswersFit'
  <2>1. PICK r : r = Request(i, 0, 1)
    OBVIOUS
  <2>2. r.activity = i /\ r.block = 0 /\ r.kind = "request"
    BY <2>1 DEF Request
  <2>3. ASSUME NEW m \in network
        PROVE  /\ m.block \in Nat /\ HasBlock(m.activity, m.block)'
               /\ m.kind = "response" => AnswerFits(m)'
    <3>1. m.activity \in 1..started /\ m.block \in Nat
      BY DEF SingleInv, MessagesFit, BlockInv, AnswersFit
    <3>2. m.block + 1 \in Nat
      BY <3>1
    <3>3. plan'[m.activity] = plan[m.activity]
      BY <1>4, <3>1
    <3> QED
      BY <1>5, <3>1, <3>2, <3>3 DEF BlockInv, AnswersFit, AnswerFits
  <2> QED
    BY <1>2, <1>6, <2>1, <2>2, <2>3 DEF AnswersFit
<1>8. PartsFit'
  <2>1. gathered[i] = << >>
    BY <1>1, <1>3 DEF SingleInv, GatheredFits
  <2>2. ASSUME NEW d \in Clients, doing'[d] # Idle
        PROVE  HasBlock(doing[d], block[d])' /\ (gathered[doing[d]] = Part(doing[d], block[d]))'
    <3>1. CASE d = c
      BY <1>2, <1>6, <2>1, <3>1 DEF SingleInv, Kinds
    <3>2. CASE d # c
      <4>1. doing'[d] = doing[d] /\ block'[d] = block[d]
        BY <1>2, <3>2 DEF SingleInv, Kinds
      <4>2. PICK j \in 1..started, n \in Nat : j = doing[d] /\ n = block[d]
        BY <1>3, <2>2, <4>1 DEF SingleInv, Kinds, Idle
      <4>3. HasBlock(j, n) /\ gathered[j] = Part(j, n)
        BY <2>2, <4>1, <4>2 DEF BlockInv, PartsFit
      <4>4. HasBlock(j, n)' /\ gathered'[j] = Part(j, n)'
        BY <1>2, <1>5, <4>3
      <4> QED
        BY <4>1, <4>2, <4>4
    <3> QED
      BY <3>1, <3>2
  <2> QED
    BY <2>2 DEF PartsFit
<1>9. VersionsFit'
  BY <1>2, <1>4 DEF SingleInv, Kinds, BlockInv, VersionsFit
<1> QED
  BY <1>2, <1>7, <1>8, <1>9 DEF BlockInv

\* A copy asks for a block that there is.
LEMMA SendAgainBlocks ==
    ASSUME SingleInv, BlockInv, NEW c \in Clients, SendAgain(c)
    PROVE  BlockInv'
<1>1. PICK r : r = Request(doing[c], block[c], copies'[c])
  OBVIOUS
<1>2. /\ network' = network \union {r} /\ doing[c] # Idle
      /\ UNCHANGED <<context, doing, block, plan, gathered, finished>>
  BY <1>1 DEF SendAgain, serverVars
<1>3. r.activity = doing[c] /\ r.block = block[c] /\ r.kind = "request"
  BY <1>1 DEF Request
<1>4. block[c] \in Nat /\ HasBlock(doing[c], block[c])
  BY <1>2 DEF SingleInv, Kinds, BlockInv, PartsFit
<1>5. AnswersFit'
  BY <1>2, <1>3, <1>4 DEF BlockInv, AnswersFit, AnswerFits, HasBlock
<1> QED
  BY <1>2, <1>5 DEF BlockInv, PartsFit, VersionsFit, HasBlock, Part

\* Who gives up asks for nothing any more.
LEMMA GiveUpBlocks ==
    ASSUME SingleInv, BlockInv, NEW c \in Clients, GiveUp(c)
    PROVE  BlockInv'
<1>1. /\ doing' = [doing EXCEPT ![c] = Idle] /\ network' \subseteq network
      /\ UNCHANGED <<context, block, plan, gathered, finished>>
  BY DEF GiveUp, history, serverVars
<1>2. \A d \in Clients : doing'[d] # Idle => doing'[d] = doing[d]
  BY <1>1 DEF SingleInv, Kinds
<1>3. AnswersFit' /\ VersionsFit'
  BY <1>1 DEF BlockInv, AnswersFit, AnswerFits, HasBlock, VersionsFit
<1>4. PartsFit'
  BY <1>1, <1>2 DEF BlockInv, PartsFit, HasBlock, Part
<1> QED
  BY <1>1, <1>3, <1>4 DEF BlockInv

\* What a client has after the answer to a block.
LEMMA PartGrows ==
    ASSUME SingleInv, BlockInv, NEW c \in Clients, doing[c] # Idle, NEW m \in Answers(c)
    PROVE  gathered[doing[c]] \o m.body =
             IF m.more THEN Part(doing[c], block[c] + 1)
             ELSE IF plan[doing[c]].op = "version" THEN Version(plan[doing[c]])
             ELSE m.body
<1>1. PICK i \in 1..started, n \in Nat : i = doing[c] /\ n = block[c]
  BY DEF SingleInv, Kinds, Idle
<1>2. i \in Activities
  BY ActivitiesAssumption DEF SingleInv, Kinds, Activities
<1>3. m \in network /\ m.activity = i /\ m.block = n /\ m.kind = "response"
  BY <1>1 DEF Answers
<1>4. HasBlock(i, n) /\ gathered[i] = Part(i, n) /\ AnswerFits(m)
  BY <1>1, <1>3 DEF BlockInv, PartsFit, AnswersFit
<1>5. CASE plan[i].op = "version"
  <2>1. PICK t \in Seq(Nat \X Nat) : t = Version(plan[i]) /\ Len(t) = plan[i].size
    BY <1>2, <1>5, PlanKinds, VersionText DEF SingleInv, Kinds
  <2>2. n * BlockSize < Len(t) /\ (m.more <=> (n + 1) * BlockSize < Len(t))
    BY <1>3, <1>4, <1>5, <2>1 DEF HasBlock, AnswerFits
  <2>3. gathered[i] = SubSeq(t, 1, n * BlockSize) /\ m.body = Slice(t, n)
    BY <1>3, <1>4, <1>5, <2>1 DEF Part, AnswerFits
  <2>4. gathered[i] \o m.body = IF m.more THEN SubSeq(t, 1, (n + 1) * BlockSize) ELSE t
    BY <2>2, <2>3, SlicesJoin
  <2> QED
    BY <1>1, <1>5, <2>1, <2>4 DEF Part
<1>6. CASE plan[i].op # "version"
  <2>1. gathered[i] = << >> /\ (m.more => m.body = << >>)
    BY <1>3, <1>4, <1>6 DEF Part, AnswerFits
  <2>2. << >> \o m.body = m.body
    BY <1>4, ConcatEmptySeq DEF AnswerFits
  <2> QED
    BY <1>1, <1>6, <2>1, <2>2 DEF Part
<1> QED
  BY <1>5, <1>6

\* The next block that a client asks for is one that the answer announced.
LEMMA NextBlockBlocks ==
    ASSUME SingleInv, BlockInv, NEW c \in Clients, NextBlock(c), doing[c] # Idle
    PROVE  BlockInv'
<1>1. PICK i \in 1..started, n \in Nat : i = doing[c] /\ n = block[c]
  BY DEF SingleInv, Kinds, Idle
<1>2. i \in Activities
  BY ActivitiesAssumption DEF SingleInv, Kinds, Activities
<1>3. PICK m \in Answers(c) :
         /\ m.more /\ block' = [block EXCEPT ![c] = @ + 1]
         /\ gathered' = [gathered EXCEPT ![i] = @ \o m.body]
         /\ network' = (network \ Answers(c)) \union {Request(doing[c], block'[c], 1)}
  BY <1>1 DEF NextBlock
<1>4. UNCHANGED <<context, doing, plan, finished>>
  BY DEF NextBlock, history, serverVars
<1>5. block'[c] = n + 1 /\ gathered'[i] = gathered[i] \o m.body
  BY <1>1, <1>2, <1>3 DEF SingleInv, Kinds
<1>6. HasBlock(i, n + 1)
  BY <1>1, <1>3 DEF Answers, BlockInv, AnswersFit, AnswerFits
<1>7. gathered'[i] = Part(i, n + 1)
  BY <1>1, <1>3, <1>5, PartGrows
<1>8. AnswersFit'
  <2>1. PICK r : r = Request(doing[c], block'[c], 1)
    OBVIOUS
  <2>2. r.activity = i /\ r.block = n + 1 /\ r.kind = "request"
    BY <1>1, <1>5, <2>1 DEF Request
  <2>3. network' \subseteq network \union {r}
    BY <1>3, <2>1
  <2>4. \A l \in network : AnswerFits(l)' <=> AnswerFits(l)
    BY <1>4 DEF AnswerFits, HasBlock
  <2>5. \A l \in network : HasBlock(l.activity, l.block)' <=> HasBlock(l.activity, l.block)
    BY <1>4 DEF HasBlock
  <2>6. n + 1 \in Nat /\ HasBlock(i, n + 1)'
    BY <1>4, <1>6 DEF HasBlock
  <2> QED
    BY <2>2, <2>3, <2>4, <2>5, <2>6 DEF BlockInv, AnswersFit
<1>9. PartsFit'
  <2>1. ASSUME NEW d \in Clients, doing[d] # Idle
        PROVE  HasBlock(doing[d], block'[d]) /\ gathered'[doing[d]] = Part(doing[d], block'[d])
    <3>1. CASE d = c
      BY <1>1, <1>5, <1>6, <1>7, <3>1
    <3>2. CASE d # c
      <4>1. block'[d] = block[d] /\ doing[d] # i
        BY <1>1, <1>3, <2>1, <3>2 DEF SingleInv, Kinds, Owned
      <4>2. gathered'[doing[d]] = gathered[doing[d]]
        BY <1>3, <4>1
      <4> QED
        BY <2>1, <4>1, <4>2 DEF BlockInv, PartsFit
    <3> QED
      BY <3>1, <3>2
  <2> QED
    BY <1>4, <2>1 DEF PartsFit, HasBlock, Part
<1>10. VersionsFit'
  <2>1. i \notin finished
    BY <1>1 DEF SingleInv, Owned
  <2>2. \A j \in finished : gathered'[j] = gathered[j]
    BY <1>3, <2>1
  <2> QED
    BY <1>4, <2>2 DEF BlockInv, VersionsFit
<1> QED
  BY <1>4, <1>8, <1>9, <1>10 DEF BlockInv

\* The last answer completes the version.
LEMMA EndBlocks ==
    ASSUME SingleInv, BlockInv, NEW c \in Clients, End(c), doing[c] # Idle
    PROVE  BlockInv'
<1>1. PICK i \in 1..started : i = doing[c]
  BY DEF SingleInv, Kinds, Idle
<1>2. i \in Activities
  BY ActivitiesAssumption DEF SingleInv, Kinds, Activities
<1>3. PICK m \in Answers(c) :
         ~m.more /\ gathered' = [gathered EXCEPT ![i] = @ \o m.body]
  BY <1>1 DEF End
<1>4. /\ network' \subseteq network
      /\ doing' = [doing EXCEPT ![c] = Idle] /\ finished' = finished \union {i}
  BY <1>1 DEF End
<1>5. UNCHANGED <<context, block, plan>>
  BY DEF End, serverVars
<1>6. gathered'[i] = gathered[i] \o m.body
  BY <1>2, <1>3 DEF SingleInv, Kinds
<1>7. plan[i].op = "version" => gathered'[i] = Version(plan[i])
  BY <1>1, <1>3, <1>6, PartGrows
<1>8. AnswersFit'
  BY <1>4, <1>5 DEF BlockInv, AnswersFit, AnswerFits, HasBlock
<1>9. PartsFit'
  <2>1. ASSUME NEW d \in Clients, doing'[d] # Idle
        PROVE  /\ doing'[d] = doing[d]
               /\ HasBlock(doing[d], block[d]) /\ gathered'[doing[d]] = Part(doing[d], block[d])
    <3>1. d # c /\ doing'[d] = doing[d]
      BY <1>4, <2>1 DEF SingleInv, Kinds
    <3>2. doing[d] # i
      BY <1>1, <2>1, <3>1 DEF SingleInv, Owned
    <3>3. gathered'[doing[d]] = gathered[doing[d]]
      BY <1>3, <3>2
    <3> QED
      BY <2>1, <3>1, <3>3 DEF BlockInv, PartsFit
  <2> QED
    BY <1>5, <2>1 DEF PartsFit, HasBlock, Part
<1>10. VersionsFit'
  <2>1. \A j \in finished : j # i => gathered'[j] = gathered[j]
    BY <1>3
  <2> QED
    BY <1>4, <1>5, <1>7, <2>1 DEF BlockInv, VersionsFit
<1> QED
  BY <1>5, <1>8, <1>9, <1>10 DEF BlockInv

\* What sha256_update() is given is what was hashed and one block more.
LEMMA HashedKind ==
    ASSUME context \in Seq(Nat \X Nat), NEW m, m.activity \in Nat, m.block \in Nat
    PROVE  Hashed(m) \in Seq(Nat \X Nat)
<1>1. PICK b \in Nat \X Nat : b = <<m.activity, m.block>>
  OBVIOUS
<1>2. <<b>> \in Seq(Nat \X Nat)
  OBVIOUS
<1>3. Append(context, b) \in Seq(Nat \X Nat)
  BY AppendProperties
<1> QED
  BY <1>1, <1>2, <1>3 DEF Hashed

\* Every handler answers as the block and the size of the activity ask for.
LEMMA HandleBlocks ==
    ASSUME SingleInv, BlockInv, Handle
    PROVE  BlockInv'
<1>1. UNCHANGED <<doing, block, gathered, plan, finished>>
  BY DEF Handle, clientVars, history
<1>2. PICK m \in network :
         /\ m.kind = "request"
         /\ \/ Sha256More(m)
            \/ Sha256Final(m)
            \/ Block2(m)
            \/ ValuePut(m)
            \/ ValuePutTooLarge(m)
  BY DEF Handle
<1>3. PICK i \in 1..started, n \in Nat : i = m.activity /\ n = m.block
  BY DEF SingleInv, MessagesFit, BlockInv, AnswersFit
<1>4. HasBlock(i, n) /\ i \in Activities /\ i \in Nat
  BY <1>3, ActivitiesAssumption DEF SingleInv, Kinds, Activities, BlockInv, AnswersFit
<1>5. Hashed(m) \in Seq(Nat \X Nat)
  BY <1>3, <1>4, HashedKind DEF BlockInv
<1>6. << >> \in Seq(Nat \X Nat) /\ Cleared \in Seq(Nat \X Nat)
  BY DEF Cleared
<1>7. context' \in Seq(Nat \X Nat)
  BY <1>2, <1>5, <1>6
  DEF BlockInv, Sha256More, Sha256Final, Block2, ValuePut, ValuePutTooLarge, serverVars
<1>8. ASSUME NEW code, NEW body \in Seq(Nat \X Nat), NEW more, Answer(m, code, body, more),
             more <=> HasBlock(i, n + 1),
             plan[i].op = "version" => body = Slice(Version(plan[i]), n),
             plan[i].op # "version" /\ more => body = << >>,
             code = "changed" => plan[i].op = "put"
      PROVE  AnswersFit'
  <2>1. PICK a : a = Response(m, code, body, more)
    OBVIOUS
  <2>2. /\ network' \subseteq network \union {a}
        /\ a.activity = i /\ a.block = n /\ a.body = body /\ a.more = more /\ a.code = code
    BY <1>3, <1>8, <2>1 DEF Answer, Response
  <2>3. AnswerFits(a) /\ HasBlock(i, n)
    BY <1>4, <1>8, <2>2 DEF AnswerFits
  <2> QED
    BY <1>1, <2>2, <2>3 DEF BlockInv, AnswersFit, AnswerFits, HasBlock
<1>9. AnswersFit'
  <2>1. CASE Sha256More(m)
    <3>1. plan[i].op = "upload" /\ HasBlock(i, n + 1) /\ Answer(m, "continue", << >>, TRUE)
      BY <1>3, <2>1 DEF Sha256More, HasBlock
    <3> QED
      BY <1>6, <1>8, <3>1
  <2>2. CASE Sha256Final(m)
    <3>1. plan[i].op = "upload" /\ Answer(m, "digest", Hashed(m), FALSE)
      BY <1>3, <2>2 DEF Sha256Final
    <3>2. ~HasBlock(i, n + 1)
      BY <1>3, <2>2 DEF Sha256Final, HasBlock
    <3> QED
      BY <1>5, <1>8, <3>1, <3>2
  <2>3. CASE Block2(m)
    <3>1. PICK t \in Seq(Nat \X Nat) : t = Version(plan[i]) /\ Len(t) = plan[i].size
      BY <1>3, <1>4, <2>3, PlanKinds, VersionText DEF SingleInv, Kinds, Block2
    <3>2. /\ plan[i].op = "version"
          /\ Answer(m, "content", Slice(t, n), (n + 1) * BlockSize < Len(t))
      BY <1>3, <2>3, <3>1 DEF Block2
    <3>3. Slice(t, n) \in Seq(Nat \X Nat)
      BY <3>1, SliceKind
    <3>4. ((n + 1) * BlockSize < Len(t)) <=> HasBlock(i, n + 1)
      BY <3>1, <3>2 DEF HasBlock
    <3>5. /\ plan[i].op = "version" => Slice(t, n) = Slice(Version(plan[i]), n)
          /\ plan[i].op # "version" /\ (n + 1) * BlockSize < Len(t) => Slice(t, n) = << >>
          /\ "content" = "changed" => plan[i].op = "put"
      BY <3>1, <3>2
    <3> QED
      BY <1>8, <3>2, <3>3, <3>4, <3>5, Zenon
  <2>4. CASE ValuePut(m)
    <3>1. plan[i].op = "put" /\ Answer(m, "changed", << >>, FALSE)
      BY <1>3, <2>4 DEF ValuePut
    <3>2. ~HasBlock(i, n + 1)
      BY <3>1 DEF HasBlock
    <3> QED
      BY <1>6, <1>8, <3>1, <3>2
  <2>5. CASE ValuePutTooLarge(m)
    <3>1. plan[i].op = "put" /\ Answer(m, "too_large", << >>, FALSE)
      BY <1>3, <2>5 DEF ValuePutTooLarge
    <3>2. ~HasBlock(i, n + 1)
      BY <3>1 DEF HasBlock
    <3> QED
      BY <1>6, <1>8, <3>1, <3>2
  <2> QED
    BY <1>2, <2>1, <2>2, <2>3, <2>4, <2>5
<1> QED
  BY <1>1, <1>7, <1>9 DEF BlockInv, PartsFit, VersionsFit, HasBlock, Part

-----------------------------------------------------------------------------
(* Quiet times: as long as nothing was sent again, every client waits for  *)
(* one message, and what the server keeps belongs to the one activity of a *)
(* kind that is under way.                                                 *)

\* Two activities of a kind at a time are both overlapped.
RivalsFit ==
    \A c, d \in Clients :
        /\ c # d /\ doing[c] # Idle /\ doing[d] # Idle
        /\ plan[doing[c]].op = plan[doing[d]].op
        => doing[c] \in overlapped

\* Nothing is under way but one message for every client that waits.
OneEach ==
    /\ \A m \in network : Awaited(m)
    /\ \A l, m \in network : l.activity = m.activity => l = m
    /\ \A c \in Clients : doing[c] # Idle => copies[c] = 1

\* The blocks of activity i before block n.
Before(i, n) == [k \in 1..n |-> <<i, k - 1>>]

\* The context holds the blocks of the one upload, as many as were answered.
ContextFits ==
    \A m \in network : plan[m.activity].op = "upload" /\ m.activity \notin overlapped =>
        /\ m.kind = "request" /\ m.block # 0 => context = Before(m.activity, m.block)
        /\ m.kind = "response" /\ m.more => context = Before(m.activity, m.block + 1)
        /\ m.kind = "response" /\ ~m.more => m.body = Payloads(m.activity)

DigestsFit ==
    \A i \in finished \ overlapped : plan[i].op = "upload" => gathered[i] = Payloads(i)

\* The answers to a PUT that are under way, and what a PUT leaves.
Changed == {m \in network : m.kind = "response" /\ m.code = "changed"}
Byte(i) == plan[i].number % ValueModulus

\* The value is that of the PUT which is being answered, or was answered last.
ValueFits ==
    /\ \A m \in Changed : m.activity \notin overlapped => internalValue = Byte(m.activity)
    /\ Changed = {} /\ lastPut # Idle /\ lastPut \notin overlapped =>
          internalValue = Byte(lastPut)

Quiet == OneEach /\ ContextFits /\ DigestsFit /\ ValueFits

QuietInv ==
    /\ lastPut \in 0..started
    /\ DOMAIN copies = Clients
    /\ RivalsFit
    /\ ~repeated => Quiet

\* While nothing was sent again, two activities of a kind that have messages
\* under way are overlapped.
LEMMA RivalMessages ==
    ASSUME QuietInv, Quiet, SingleInv, NEW l \in network, NEW m \in network,
           l.activity # m.activity, plan[l.activity].op = plan[m.activity].op
    PROVE  l.activity \in overlapped
<1>1. PICK c \in Clients, d \in Clients : doing[c] = l.activity /\ doing[d] = m.activity
  BY DEF Quiet, OneEach, Awaited
<1>2. doing[c] # Idle /\ doing[d] # Idle /\ c # d
  BY <1>1 DEF SingleInv, MessagesFit, Idle
<1> QED
  BY <1>1, <1>2 DEF QuietInv, RivalsFit

\* A new activity makes itself and its rivals overlapped.
LEMMA BeginQuiet ==
    ASSUME SingleInv, BlockInv, QuietInv, NEW c \in Clients, NEW p \in Plans, Begin(c, p)
    PROVE  QuietInv'
<1>1. PICK i \in Nat : i = started + 1 /\ i \in 1..MaxActivities /\ i > started
  BY ActivitiesAssumption DEF SingleInv, Kinds, Begin
<1>2. /\ doing[c] = Idle /\ started' = i
      /\ doing' = [doing EXCEPT ![c] = i] /\ block' = [block EXCEPT ![c] = 0]
      /\ plan' = [plan EXCEPT ![i] = p] /\ copies' = [copies EXCEPT ![c] = 1]
      /\ UNCHANGED <<context, internalValue, gathered, finished, repeated, lastPut>>
  BY <1>1 DEF Begin, serverVars
<1>3. /\ \A j \in 1..started : j # i /\ j \in Activities
      /\ i \in Activities /\ started \in Nat /\ i # Idle
  BY <1>1, ActivitiesAssumption DEF SingleInv, Kinds, Activities, Idle
<1>4. plan'[i] = p /\ \A j \in 1..started : plan'[j] = plan[j]
  BY <1>2, <1>3 DEF SingleInv, Kinds
<1>5. PICK r : r = Request(i, 0, 1) /\ network' = network \union {r}
  BY <1>1 DEF Begin
<1>6. r.activity = i /\ r.block = 0 /\ r.kind = "request"
  BY <1>5 DEF Request
<1>7. /\ doing'[c] = i /\ block'[c] = 0
      /\ \A d \in Clients : d # c => doing'[d] = doing[d] /\ block'[d] = block[d]
      /\ \A d \in Clients : doing[d] # Idle => doing[d] \in 1..started
  BY <1>2, <1>3 DEF SingleInv, Kinds, Idle
<1>8. overlapped \subseteq overlapped'
  BY DEF Begin
<1>9. RivalsFit'
  <2>1. ASSUME NEW d \in Clients, d # c, doing[d] # Idle, plan[doing[d]].op = p.op
        PROVE  doing[d] \in overlapped' /\ i \in overlapped'
    <3>1. PICK S : S = {j \in {doing[e] : e \in Clients} \ {Idle} : plan[j].op = p.op}
      OBVIOUS
    <3>2. doing[d] \in S
      BY <2>1, <3>1
    <3>3. overlapped' = overlapped \union S \union (IF S = {} THEN {} ELSE {i})
      BY <1>1, <3>1 DEF Begin
    <3> QED
      BY <3>2, <3>3
  <2>2. ASSUME NEW d \in Clients, NEW e \in Clients, d # e,
               doing'[d] # Idle, doing'[e] # Idle, plan'[doing'[d]].op = plan'[doing'[e]].op
        PROVE  doing'[d] \in overlapped'
    <3>1. CASE d = c
      BY <1>4, <1>7, <2>1, <2>2, <3>1
    <3>2. CASE e = c
      BY <1>4, <1>7, <2>1, <2>2, <3>2
    <3>3. CASE d # c /\ e # c
      BY <1>4, <1>7, <1>8, <2>2, <3>3 DEF QuietInv, RivalsFit
    <3> QED
      BY <3>1, <3>2, <3>3
  <2> QED
    BY <2>2 DEF RivalsFit
<1>10. ASSUME ~repeated
       PROVE  Quiet'
  <2>1. Quiet
    BY <1>10 DEF QuietInv
  <2>2. \A m \in network : m.activity \in 1..started /\ m.activity # i
                           /\ plan'[m.activity] = plan[m.activity]
    BY <1>3, <1>4 DEF SingleInv, MessagesFit
  <2>3. OneEach'
    <3>1. ASSUME NEW m \in network
          PROVE  Awaited(m)'
      <4>1. PICK d \in Clients : doing[d] = m.activity /\ block[d] = m.block
        BY <2>1 DEF Quiet, OneEach, Awaited
      <4>2. d # c
        BY <1>2, <2>2, <4>1 DEF Idle
      <4> QED
        BY <1>7, <4>1, <4>2 DEF Awaited
    <3>2. Awaited(r)'
      BY <1>6, <1>7 DEF Awaited
    <3>3. \A d \in Clients : doing'[d] # Idle => copies'[d] = 1
      <4>1. \A d \in Clients : copies'[d] = IF d = c THEN 1 ELSE copies[d]
        BY <1>2 DEF QuietInv
      <4> QED
        BY <1>7, <2>1, <4>1 DEF Quiet, OneEach
    <3>4. \A l, m \in network' : l.activity = m.activity => l = m
      BY <1>5, <1>6, <2>1, <2>2 DEF Quiet, OneEach
    <3> QED
      BY <1>5, <3>1, <3>2, <3>3, <3>4 DEF OneEach
  <2>4. ContextFits'
    BY <1>2, <1>5, <1>6, <1>8, <2>1, <2>2 DEF Quiet, ContextFits, Before, Payloads
  <2>5. DigestsFit'
    BY <1>2, <1>4, <1>8, <2>1 DEF Quiet, DigestsFit, Payloads, SingleInv, Kinds
  <2>6. ValueFits'
    <3>1. Changed' = Changed
      BY <1>5, <1>6 DEF Changed
    <3>2. lastPut # Idle => Byte(lastPut)' = Byte(lastPut)
      BY <1>2, <1>3, <1>4 DEF QuietInv, Byte, Idle
    <3>3. \A m \in Changed : Byte(m.activity)' = Byte(m.activity)
      BY <2>2 DEF Changed, Byte
    <3> QED
      BY <1>2, <1>8, <2>1, <3>1, <3>2, <3>3 DEF Quiet, ValueFits
  <2> QED
    BY <2>3, <2>4, <2>5, <2>6 DEF Quiet
<1>11. lastPut' \in 0..started'
  BY <1>1, <1>2, <1>3 DEF QuietInv
<1> QED
  BY <1>2, <1>9, <1>10, <1>11 DEF QuietInv

\* From now on a request has been sent again.
LEMMA SendAgainQuiet ==
    ASSUME QuietInv, NEW c \in Clients, SendAgain(c)
    PROVE  QuietInv'
<1>1. repeated' /\ DOMAIN copies' = DOMAIN copies /\ UNCHANGED <<doing, started, plan, overlapped, lastPut>>
  BY DEF SendAgain
<1> QED
  BY <1>1 DEF QuietInv, RivalsFit

\* Who gives up has sent again before.
LEMMA GiveUpQuiet ==
    ASSUME SingleInv, QuietInv, NEW c \in Clients, GiveUp(c)
    PROVE  QuietInv'
<1>1. /\ doing' = [doing EXCEPT ![c] = Idle] /\ doing[c] # Idle
      /\ copies[c] > MaxRetransmit
      /\ UNCHANGED <<copies, started, plan, overlapped, repeated, lastPut>>
  BY DEF GiveUp, history
<1>2. repeated
  <2>1. copies[c] # 1
    BY <1>1, RetransmitAssumption
  <2> QED
    BY <1>1, <2>1 DEF QuietInv, Quiet, OneEach
<1>3. \A d \in Clients : doing'[d] # Idle => doing'[d] = doing[d]
  BY <1>1 DEF SingleInv, Kinds
<1> QED
  BY <1>1, <1>2, <1>3 DEF QuietInv, RivalsFit

\* While nothing was sent again, who is answered has that one answer only.
LEMMA OneAnswer ==
    ASSUME Quiet, NEW c \in Clients, NEW m \in Answers(c)
    PROVE  /\ Answers(c) = {m}
           /\ \A l \in network \ {m} : l.activity # doing[c]
  BY DEF Quiet, OneEach, Answers

\* The next request carries on where the context ends.
LEMMA NextBlockQuiet ==
    ASSUME SingleInv, BlockInv, QuietInv, NEW c \in Clients, NextBlock(c), doing[c] # Idle
    PROVE  QuietInv'
<1>1. PICK i \in 1..started, n \in Nat : i = doing[c] /\ n = block[c]
  BY DEF SingleInv, Kinds, Idle
<1>2. PICK m \in Answers(c) :
         /\ m.more /\ block' = [block EXCEPT ![c] = @ + 1]
         /\ copies' = [copies EXCEPT ![c] = 1]
         /\ gathered' = [gathered EXCEPT ![i] = @ \o m.body]
         /\ network' = (network \ Answers(c)) \union {Request(doing[c], block'[c], 1)}
  BY <1>1 DEF NextBlock
<1>3. UNCHANGED <<context, internalValue, doing, started, plan, finished, overlapped,
                  repeated, lastPut>>
  BY DEF NextBlock, history, serverVars
<1>4. /\ m \in network /\ m.activity = i /\ m.block = n /\ m.kind = "response"
      /\ AnswerFits(m)
  BY <1>1, <1>2 DEF Answers, BlockInv, AnswersFit
<1>5. RivalsFit' /\ lastPut' \in 0..started'
  BY <1>3 DEF QuietInv, RivalsFit
<1>6. ASSUME ~repeated
      PROVE  Quiet'
  <2>1. Quiet
    BY <1>6 DEF QuietInv
  <2>2. PICK r : r = Request(doing[c], block'[c], 1)
    OBVIOUS
  <2>3. r.activity = i /\ r.block = n + 1 /\ r.kind = "request"
    BY <1>1, <1>2, <2>2 DEF Request, SingleInv, Kinds
  <2>4. network' = (network \ {m}) \union {r} /\ \A l \in network \ {m} : l.activity # i
    BY <1>1, <1>2, <2>1, <2>2, OneAnswer
  <2>5. OneEach'
    <3>1. ASSUME NEW l \in network \ {m}
          PROVE  Awaited(l)'
      <4>1. PICK d \in Clients : doing[d] = l.activity /\ block[d] = l.block
        BY <2>1 DEF Quiet, OneEach, Awaited
      <4>2. d # c
        BY <1>1, <2>4, <4>1
      <4>3. block'[d] = block[d]
        BY <1>2, <4>2 DEF SingleInv, Kinds
      <4> QED
        BY <1>3, <4>1, <4>3 DEF Awaited
    <3>2. Awaited(r)'
      <4>1. doing'[c] = r.activity /\ block'[c] = r.block
        BY <1>1, <1>2, <1>3, <2>3 DEF SingleInv, Kinds
      <4> QED
        BY <4>1 DEF Awaited
    <3>3. \A d \in Clients : doing'[d] # Idle => copies'[d] = 1
      <4>1. \A d \in Clients : copies'[d] = IF d = c THEN 1 ELSE copies[d]
        BY <1>2 DEF QuietInv
      <4> QED
        BY <1>3, <2>1, <4>1 DEF Quiet, OneEach
    <3>4. \A k, l \in network' : k.activity = l.activity => k = l
      BY <2>1, <2>3, <2>4 DEF Quiet, OneEach
    <3> QED
      BY <2>4, <3>1, <3>2, <3>3, <3>4 DEF OneEach
  <2>6. ContextFits'
    <3>1. plan[i].op = "upload" /\ i \notin overlapped => context = Before(i, n + 1)
      BY <1>2, <1>4, <2>1 DEF Quiet, ContextFits
    <3> QED
      BY <1>3, <2>1, <2>3, <2>4, <3>1 DEF Quiet, ContextFits, Before, Payloads
  <2>7. DigestsFit'
    <3>1. i \notin finished
      BY <1>1 DEF SingleInv, Owned
    <3>2. \A j \in finished : gathered'[j] = gathered[j]
      BY <1>2, <3>1
    <3> QED
      BY <1>3, <2>1, <3>2 DEF Quiet, DigestsFit, Payloads
  <2>8. ValueFits'
    <3>1. m \notin Changed
      <4>1. plan[i].op = "put" => ~HasBlock(i, n + 1)
        BY DEF HasBlock
      <4> QED
        BY <1>2, <1>4, <4>1 DEF Changed, AnswerFits
    <3>2. Changed' = Changed
      BY <2>3, <2>4, <3>1 DEF Changed
    <3> QED
      BY <1>3, <2>1, <3>2 DEF Quiet, ValueFits, Byte
  <2> QED
    BY <2>5, <2>6, <2>7, <2>8 DEF Quiet
<1>7. DOMAIN copies' = Clients
  BY <1>2 DEF QuietInv
<1> QED
  BY <1>3, <1>5, <1>6, <1>7 DEF QuietInv

\* The last answer carries the digest of all blocks, or says that the value is
\* what was PUT.
LEMMA EndQuiet ==
    ASSUME SingleInv, BlockInv, QuietInv, NEW c \in Clients, End(c), doing[c] # Idle
    PROVE  QuietInv'
<1>1. PICK i \in 1..started : i = doing[c]
  BY DEF SingleInv, Kinds, Idle
<1>2. PICK m \in Answers(c) :
         /\ ~m.more
         /\ gathered' = [gathered EXCEPT ![i] = @ \o m.body]
         /\ lastPut' = IF m.code = "changed" THEN i ELSE lastPut
  BY <1>1 DEF End
<1>3. /\ network' = network \ Answers(c)
      /\ doing' = [doing EXCEPT ![c] = Idle] /\ finished' = finished \union {i}
  BY <1>1 DEF End
<1>4. UNCHANGED <<context, internalValue, block, copies, started, plan, overlapped, repeated>>
  BY DEF End, serverVars
<1>5. /\ m \in network /\ m.activity = i /\ m.kind = "response"
      /\ AnswerFits(m)
  BY <1>1, <1>2 DEF Answers, BlockInv, AnswersFit
<1>6. \A d \in Clients : /\ doing'[d] # Idle => doing'[d] = doing[d]
                         /\ d # c => doing'[d] = doing[d]
  BY <1>3 DEF SingleInv, Kinds
<1>7. RivalsFit' /\ lastPut' \in 0..started'
  <2>1. RivalsFit'
    BY <1>4, <1>6 DEF QuietInv, RivalsFit
  <2>2. i \in 0..started
    OBVIOUS
  <2> QED
    BY <1>2, <1>4, <2>1, <2>2 DEF QuietInv
<1>8. ASSUME ~repeated
      PROVE  Quiet'
  <2>1. Quiet
    BY <1>8 DEF QuietInv
  <2>2. network' = network \ {m} /\ \A l \in network \ {m} : l.activity # i
    BY <1>1, <1>3, <2>1, OneAnswer
  <2>3. OneEach'
    <3>1. ASSUME NEW l \in network \ {m}
          PROVE  Awaited(l)'
      <4>1. PICK d \in Clients : doing[d] = l.activity /\ block[d] = l.block
        BY <2>1 DEF Quiet, OneEach, Awaited
      <4>2. d # c
        BY <1>1, <2>2, <4>1
      <4> QED
        BY <1>4, <1>6, <4>1, <4>2 DEF Awaited
    <3> QED
      BY <1>4, <1>6, <2>1, <2>2, <3>1 DEF Quiet, OneEach
  <2>4. ContextFits'
    BY <1>4, <2>1, <2>2 DEF Quiet, ContextFits, Before, Payloads
  <2>5. DigestsFit'
    <3>1. plan[i].op = "upload" => gathered'[i] = m.body
      <4>1. i \in DOMAIN gathered
        BY ActivitiesAssumption DEF SingleInv, Kinds, Activities
      <4>2. gathered'[i] = gathered[i] \o m.body
        BY <1>2, <4>1
      <4> QED
        BY <1>1, <1>2, <4>2, PartGrows
    <3>2. plan[i].op = "upload" /\ i \notin overlapped => m.body = Payloads(i)
      BY <1>2, <1>5, <2>1 DEF Quiet, ContextFits
    <3>3. \A j \in finished : j # i => gathered'[j] = gathered[j]
      BY <1>2
    <3> QED
      BY <1>3, <1>4, <2>1, <3>1, <3>2, <3>3 DEF Quiet, DigestsFit, Payloads
  <2>6. ValueFits'
    <3>1. Changed' = Changed \ {m}
      BY <2>2 DEF Changed
    <3>2. \A l \in Changed' : l.activity \notin overlapped' => internalValue' = Byte(l.activity)'
      BY <1>4, <2>1, <3>1 DEF Quiet, ValueFits, Byte
    <3>3. CASE m.code = "changed"
      <4>1. m \in Changed /\ lastPut' = i
        BY <1>2, <1>5, <3>3 DEF Changed
      <4>2. i \notin overlapped => internalValue = Byte(i)
        BY <1>5, <2>1, <4>1 DEF Quiet, ValueFits
      <4> QED
        BY <1>4, <3>2, <4>1, <4>2 DEF ValueFits, Byte
    <3>4. CASE m.code # "changed"
      <4>1. Changed' = Changed /\ lastPut' = lastPut
        BY <1>2, <3>1, <3>4 DEF Changed
      <4> QED
        BY <1>4, <2>1, <3>2, <4>1 DEF Quiet, ValueFits, Byte
    <3> QED
      BY <3>3, <3>4
  <2> QED
    BY <2>3, <2>4, <2>5, <2>6 DEF Quiet
<1> QED
  BY <1>4, <1>7, <1>8 DEF QuietInv

\* A block is hashed onto the blocks before it.
LEMMA HashedBefore ==
    ASSUME NEW m, m.block \in Nat, m.activity \in Nat,
           m.block # 0 => context = Before(m.activity, m.block)
    PROVE  Hashed(m) = Before(m.activity, m.block + 1)
<1>1. PICK i \in Nat, n \in Nat : i = m.activity /\ n = m.block
  OBVIOUS
<1>2. CASE n = 0
  <2>1. [k \in 1..(0 + 1) |-> <<i, k - 1>>] = << <<i, 0>> >>
    OBVIOUS
  <2> QED
    BY <1>1, <1>2, <2>1 DEF Hashed, Before
<1>3. CASE n # 0
  <2>1. PICK s : s = Before(i, n)
    OBVIOUS
  <2>2. s \in Seq(Nat \X Nat) /\ Len(s) = n /\ \A k \in 1..n : s[k] = <<i, k - 1>>
    BY <2>1 DEF Before
  <2>3. PICK b \in Nat \X Nat : b = <<i, n>>
    OBVIOUS
  <2>4. PICK t : t = Append(s, b)
    OBVIOUS
  <2>5. /\ t \in Seq(Nat \X Nat) /\ Len(t) = n + 1
        /\ (\A k \in 1..n : t[k] = s[k]) /\ t[n + 1] = b
    BY <2>2, <2>4, AppendProperties
  <2>6. PICK u : u = Before(i, n + 1)
    OBVIOUS
  <2>7. u \in Seq(Nat \X Nat) /\ Len(u) = n + 1 /\ \A k \in 1..(n + 1) : u[k] = <<i, k - 1>>
    <3>1. PICK z \in Nat : z = n + 1
      OBVIOUS
    <3>2. [k \in 1..z |-> <<i, k - 1>>] \in [1..z -> Nat \X Nat]
      OBVIOUS
    <3>3. u = [k \in 1..z |-> <<i, k - 1>>]
      BY <2>6, <3>1 DEF Before
    <3> QED
      BY <3>1, <3>2, <3>3
  <2>8. \A k \in 1..(n + 1) : t[k] = u[k]
    <3>1. ASSUME NEW k \in 1..(n + 1)
          PROVE  t[k] = u[k]
      <4>1. CASE k = n + 1
        <5>1. u[k] = <<i, k - 1>> /\ k - 1 = n
          BY <2>7, <4>1
        <5> QED
          BY <2>3, <2>5, <4>1, <5>1
      <4>2. CASE k \in 1..n
        BY <2>2, <2>5, <2>7, <4>2
      <4> QED
        BY <4>1, <4>2
    <3> QED
      BY <3>1
  <2>9. t = u
    BY <2>5, <2>7, <2>8, SeqEqual
  <2>10. Hashed(m) = Append(context, b)
    BY <1>1, <1>3, <2>3 DEF Hashed
  <2> QED
    BY <1>1, <1>3, <2>1, <2>4, <2>6, <2>9, <2>10
<1> QED
  BY <1>2, <1>3

\* A handler changes what it keeps for the activity it answers; another of its
\* kind that has a message under way is overlapped.
LEMMA HandleQuiet ==
    ASSUME SingleInv, BlockInv, QuietInv, Handle
    PROVE  QuietInv'
<1>1. UNCHANGED <<doing, block, copies, gathered, started, plan, finished, overlapped,
                  repeated, lastPut>>
  BY DEF Handle, clientVars, history
<1>2. PICK m \in network :
         /\ m.kind = "request"
         /\ \/ Sha256More(m)
            \/ Sha256Final(m)
            \/ Block2(m)
            \/ ValuePut(m)
            \/ ValuePutTooLarge(m)
  BY DEF Handle
<1>3. PICK i \in 1..started, n \in Nat : i = m.activity /\ n = m.block
  BY DEF SingleInv, MessagesFit, BlockInv, AnswersFit
<1>4. RivalsFit' /\ lastPut' \in 0..started' /\ DOMAIN copies' = Clients
  BY <1>1 DEF QuietInv, RivalsFit
<1>5. ASSUME ~repeated
      PROVE  Quiet'
  <2>1. Quiet
    BY <1>5 DEF QuietInv
  <2>2. \A l \in network \ {m} : l.activity # i
    BY <1>3, <2>1 DEF Quiet, OneEach
  <2>3. \A l \in network \ {m} : plan[l.activity].op = plan[i].op => l.activity \in overlapped
    BY <1>3, <2>1, <2>2, RivalMessages
  <2>4. DigestsFit'
    BY <1>1, <2>1 DEF Quiet, DigestsFit, Payloads
  <2>5. \A l : Awaited(l)' <=> Awaited(l)
    BY <1>1 DEF Awaited
  <2>6. ASSUME NEW code, NEW body, NEW more, Answer(m, code, body, more),
               \/ /\ plan[i].op = "upload" /\ code # "changed" /\ internalValue' = internalValue
                  /\ i \notin overlapped /\ more => context' = Before(i, n + 1)
                  /\ i \notin overlapped /\ ~more => body = Payloads(i)
               \/ /\ plan[i].op = "put" /\ context' = context
                  /\ internalValue' = IF code = "changed" THEN Byte(i) ELSE internalValue
               \/ /\ plan[i].op = "version" /\ code # "changed"
                  /\ context' = context /\ internalValue' = internalValue
        PROVE  Quiet'
    <3>1. PICK a : a = Response(m, code, body, more)
      OBVIOUS
    <3>2. /\ a.activity = i /\ a.block = n /\ a.body = body /\ a.more = more
          /\ a.kind = "response" /\ a.code = code
      BY <1>3, <3>1 DEF Response
    <3>3. Awaited(m)
      BY <2>1 DEF Quiet, OneEach
    <3>4. network' = (network \ {m}) \union {a}
      BY <2>6, <3>1, <3>3 DEF Answer
    <3>5. OneEach'
      <4>1. Awaited(a)
        BY <1>3, <3>2, <3>3 DEF Awaited
      <4>2. \A k, l \in network' : k.activity = l.activity => k = l
        BY <2>1, <2>2, <3>2, <3>4 DEF Quiet, OneEach
      <4> QED
        BY <1>1, <2>1, <2>5, <3>4, <4>1, <4>2 DEF Quiet, OneEach
    <3>6. ContextFits'
      <4>1. CASE plan[i].op = "upload"
        <5>1. \A l \in network \ {m} : plan[l.activity].op = "upload" => l.activity \in overlapped
          BY <2>3, <4>1
        <5>2. /\ i \notin overlapped /\ more => context' = Before(i, n + 1)
              /\ i \notin overlapped /\ ~more => body = Payloads(i)
          BY <2>6, <4>1
        <5> QED
          BY <1>1, <3>2, <3>4, <5>1, <5>2 DEF ContextFits, Before, Payloads
      <4>2. CASE plan[i].op # "upload"
        <5>1. context' = context
          BY <2>6, <4>2
        <5> QED
          BY <1>1, <2>1, <3>2, <3>4, <4>2, <5>1 DEF Quiet, ContextFits, Before, Payloads
      <4> QED
        BY <4>1, <4>2
    <3>7. ValueFits'
      <4>1. CASE code = "changed"
        <5>1. plan[i].op = "put" /\ internalValue' = Byte(i)
          BY <2>6, <4>1
        <5>2. ASSUME NEW l \in Changed, l # m
              PROVE  l.activity \in overlapped
          <6>1. l \in network /\ l.kind = "response" /\ l.code = "changed"
            BY DEF Changed
          <6>2. plan[l.activity].op = "put"
            BY <6>1 DEF BlockInv, AnswersFit, AnswerFits
          <6> QED
            BY <2>3, <5>1, <5>2, <6>1, <6>2
        <5>3. Changed' = (Changed \ {m}) \union {a}
          BY <1>2, <3>2, <3>4, <4>1 DEF Changed
        <5> QED
          BY <1>1, <3>2, <5>1, <5>2, <5>3 DEF ValueFits, Byte
      <4>2. CASE code # "changed"
        <5>1. internalValue' = internalValue
          BY <2>6, <4>2
        <5>2. Changed' = Changed
          BY <1>2, <3>2, <3>4, <4>2 DEF Changed
        <5> QED
          BY <1>1, <2>1, <5>1, <5>2 DEF Quiet, ValueFits, Byte
      <4> QED
        BY <4>1, <4>2
    <3> QED
      BY <2>4, <3>5, <3>6, <3>7 DEF Quiet
  <2>7. plan[i].op = "upload" /\ i \notin overlapped => Hashed(m) = Before(i, n + 1)
    <3>1. plan[i].op = "upload" /\ i \notin overlapped /\ n # 0 => context = Before(i, n)
      BY <1>2, <1>3, <2>1 DEF Quiet, ContextFits
    <3> QED
      BY <1>3, <3>1, ActivitiesAssumption, HashedBefore DEF SingleInv, Kinds
  <2>8. CASE Sha256More(m)
    <3>1. /\ plan[i].op = "upload" /\ Answer(m, "continue", << >>, TRUE)
          /\ context' = Hashed(m) /\ internalValue' = internalValue
      BY <1>3, <2>8 DEF Sha256More
    <3> QED
      BY <2>6, <2>7, <3>1
  <2>9. CASE Sha256Final(m)
    <3>1. /\ plan[i].op = "upload" /\ Answer(m, "digest", Hashed(m), FALSE)
          /\ n + 1 = plan[i].size /\ internalValue' = internalValue
      BY <1>3, <2>9 DEF Sha256Final
    <3>2. Payloads(i) = Before(i, n + 1)
      BY <3>1 DEF Payloads, Before
    <3> QED
      BY <2>6, <2>7, <3>1, <3>2
  <2>10. CASE Block2(m)
    <3>1. PICK body : body = Slice(Version(plan[i]), n)
      OBVIOUS
    <3>2. /\ plan[i].op = "version" /\ UNCHANGED <<context, internalValue>>
          /\ Answer(m, "content", body, (n + 1) * BlockSize < Len(Version(plan[i])))
      BY <1>3, <2>10, <3>1 DEF Block2, serverVars
    <3>3. /\ "content" # "changed" /\ plan[i].op # "upload"
          /\ context' = context /\ internalValue' = internalValue
      BY <3>2
    <3> QED
      BY <2>6, <3>2, <3>3, Zenon
  <2>11. CASE ValuePut(m)
    <3>1. /\ plan[i].op = "put" /\ Answer(m, "changed", << >>, FALSE)
          /\ context' = context /\ internalValue' = Byte(i)
      BY <1>3, <2>11 DEF ValuePut, Byte
    <3> QED
      BY <2>6, <3>1
  <2>12. CASE ValuePutTooLarge(m)
    <3>1. /\ plan[i].op = "put" /\ Answer(m, "too_large", << >>, FALSE)
          /\ context' = context /\ internalValue' = internalValue
      BY <1>3, <2>12 DEF ValuePutTooLarge, serverVars
    <3> QED
      BY <2>6, <3>1
  <2> QED
    BY <1>2, <2>8, <2>9, <2>10, <2>11, <2>12
<1> QED
  BY <1>1, <1>4, <1>5 DEF QuietInv

-----------------------------------------------------------------------------
(* The kinds of all variables.                                             *)

\* A request is a datagram.
LEMMA RequestKind ==
    ASSUME NEW i \in Activities, NEW n \in Nat, NEW k \in 1..(MaxRetransmit + 1)
    PROVE  Request(i, n, k) \in Datagrams
  BY DEF Request, Datagrams

\* The kinds of what the other invariants leave open.
KindsInv ==
    /\ internalValue \in 0..(ValueModulus - 1)
    /\ network \subseteq Datagrams
    /\ copies \in [Clients -> 0..(MaxRetransmit + 1)]
    /\ gathered \in [Activities -> Seq(Nat \X Nat)]
    /\ overlapped \subseteq Activities
    /\ repeated \in BOOLEAN

\* A client sends datagrams, and gathers what the answers carry.
LEMMA ClientKinds ==
    ASSUME SingleInv, SingleInv', BlockInv, KindsInv, NEW c \in Clients, Client(c)
    PROVE  KindsInv'
<1>1. /\ 1 \in 1..(MaxRetransmit + 1) /\ 1 \in 0..(MaxRetransmit + 1)
      /\ \A j \in 1..started : j \in Activities
      /\ \A j \in 1..started' : j \in Activities
  BY ActivitiesAssumption, RetransmitAssumption DEF SingleInv, Kinds, Activities
<1>2. doing[c] # Idle => doing[c] \in 1..started
  BY DEF SingleInv, Kinds, Idle
<1>3. \A m \in Answers(c) : m.body \in Seq(Nat \X Nat) /\ m.activity \in 1..started
  BY DEF Answers, BlockInv, AnswersFit, AnswerFits, SingleInv, MessagesFit
<1>4. CASE \E p \in Plans : Begin(c, p)
  <2>1. PICK p \in Plans : Begin(c, p)
    BY <1>4
  <2>2. PICK i \in Activities : i = started + 1
    BY <2>1, ActivitiesAssumption DEF Begin, SingleInv, Kinds, Activities
  <2>3. Request(i, 0, 1) \in Datagrams
    BY <1>1, RequestKind
  <2>4. network' \subseteq Datagrams
    BY <2>1, <2>2, <2>3 DEF Begin, KindsInv
  <2>5. overlapped' \subseteq Activities
    <3>1. \A d \in Clients : doing[d] \in {Idle} \union (1..started)
      BY DEF SingleInv, Kinds, Idle
    <3>2. PICK S : S = {j \in {doing[e] : e \in Clients} \ {Idle} : plan[j].op = p.op}
      OBVIOUS
    <3>3. S \subseteq Activities
      BY <1>1, <3>1, <3>2
    <3>4. overlapped' = overlapped \union S \union (IF S = {} THEN {} ELSE {i})
      BY <2>1, <2>2, <3>2 DEF Begin
    <3> QED
      BY <3>3, <3>4 DEF KindsInv
  <2>6. copies' \in [Clients -> 0..(MaxRetransmit + 1)]
    BY <1>1, <2>1 DEF Begin, KindsInv
  <2> QED
    BY <2>1, <2>4, <2>5, <2>6 DEF Begin, KindsInv, serverVars
<1>5. CASE SendAgain(c)
  <2>1. PICK k \in 1..(MaxRetransmit + 1) : k = copies[c] + 1
    BY <1>5, RetransmitAssumption DEF SendAgain, KindsInv
  <2>2. copies' = [copies EXCEPT ![c] = k] /\ copies'[c] = k
    BY <1>5, <2>1 DEF SendAgain, KindsInv
  <2>3. Request(doing[c], block[c], k) \in Datagrams
    BY <1>1, <1>2, <1>5, RequestKind DEF SendAgain, SingleInv, Kinds
  <2>4. network' \subseteq Datagrams
    BY <1>5, <2>2, <2>3 DEF SendAgain, KindsInv
  <2>5. k \in 0..(MaxRetransmit + 1)
    BY RetransmitAssumption
  <2>6. copies' \in [Clients -> 0..(MaxRetransmit + 1)]
    BY <2>2, <2>5 DEF KindsInv
  <2> QED
    BY <1>5, <2>4, <2>6 DEF SendAgain, KindsInv, serverVars
<1>6. CASE GiveUp(c)
  BY <1>6 DEF GiveUp, KindsInv, serverVars, history
<1>7. ASSUME NEW m \in Answers(c), gathered' = [gathered EXCEPT ![doing[c]] = @ \o m.body]
      PROVE  gathered' \in [Activities -> Seq(Nat \X Nat)]
  <2>1. PICK i \in Activities : i = doing[c]
    BY <1>1, <1>3 DEF Answers
  <2>2. PICK s \in Seq(Nat \X Nat) : s = gathered[i] \o m.body
    BY <1>3, ConcatProperties DEF KindsInv
  <2>3. gathered' = [gathered EXCEPT ![i] = s]
    BY <1>7, <2>1, <2>2 DEF KindsInv
  <2> QED
    BY <2>3 DEF KindsInv
<1>8. CASE NextBlock(c)
  <2>1. PICK m \in Answers(c) :
           /\ block' = [block EXCEPT ![c] = @ + 1]
           /\ copies' = [copies EXCEPT ![c] = 1]
           /\ gathered' = [gathered EXCEPT ![doing[c]] = @ \o m.body]
           /\ network' = (network \ Answers(c)) \union {Request(doing[c], block'[c], 1)}
    BY <1>8 DEF NextBlock
  <2>2. doing[c] \in Activities /\ block'[c] \in Nat
    BY <1>1, <1>3, <2>1 DEF Answers, SingleInv, Kinds
  <2>3. Request(doing[c], block'[c], 1) \in Datagrams
    BY <1>1, <2>2, RequestKind
  <2>4. network' \subseteq Datagrams /\ copies' \in [Clients -> 0..(MaxRetransmit + 1)]
    BY <1>1, <2>1, <2>3 DEF KindsInv
  <2> QED
    BY <1>7, <1>8, <2>1, <2>4 DEF NextBlock, KindsInv, serverVars, history
<1>9. CASE End(c)
  <2>1. PICK m \in Answers(c) : gathered' = [gathered EXCEPT ![doing[c]] = @ \o m.body]
    BY <1>9 DEF End
  <2>2. UNCHANGED <<internalValue, copies, overlapped, repeated>> /\ network' \subseteq network
    BY <1>9 DEF End, serverVars
  <2> QED
    BY <1>7, <2>1, <2>2 DEF KindsInv
<1> QED
  BY <1>4, <1>5, <1>6, <1>8, <1>9 DEF Client

\* The server answers with datagrams, and keeps a byte.
LEMMA HandleKinds ==
    ASSUME SingleInv, BlockInv, KindsInv, BlockInv', Handle
    PROVE  KindsInv'
<1>1. UNCHANGED <<copies, gathered, overlapped, repeated>>
  BY DEF Handle, clientVars, history
<1>2. PICK m \in network :
         /\ m.kind = "request"
         /\ \/ Sha256More(m)
            \/ Sha256Final(m)
            \/ Block2(m)
            \/ ValuePut(m)
            \/ ValuePutTooLarge(m)
  BY DEF Handle
<1>3. m.activity \in Activities /\ m.block \in Nat
  BY ActivitiesAssumption
  DEF SingleInv, Kinds, MessagesFit, Activities, BlockInv, AnswersFit
<1>4. ASSUME NEW code \in {"continue", "digest", "changed", "content", "too_large"},
             NEW body, NEW more, more \in BOOLEAN, Answer(m, code, body, more)
      PROVE  network' \subseteq Datagrams
  <2>1. PICK a : a = Response(m, code, body, more)
    OBVIOUS
  <2>2. \/ network' = network \ {m}
        \/ network' = (network \ {m}) \union {a}
    BY <1>4, <2>1 DEF Answer
  <2>3. ASSUME a \in network'
        PROVE  a \in Datagrams
    <3>1. a.kind = "response" /\ a.body = body
      BY <2>1 DEF Response
    <3>2. a.body \in Seq(Nat \X Nat)
      BY <2>3, <3>1 DEF BlockInv, AnswersFit, AnswerFits
    <3> QED
      BY <1>3, <1>4, <2>1, <3>1, <3>2 DEF Response, Datagrams
  <2> QED
    BY <2>2, <2>3 DEF KindsInv
<1>5. network' \subseteq Datagrams
  <2>1. CASE Sha256More(m)
    BY <1>4, <2>1 DEF Sha256More
  <2>2. CASE Sha256Final(m)
    BY <1>4, <2>2 DEF Sha256Final
  <2>3. CASE Block2(m)
    <3>1. /\ "content" \in {"continue", "digest", "changed", "content", "too_large"}
          /\ ((m.block + 1) * BlockSize < Len(Version(plan[m.activity]))) \in BOOLEAN
      OBVIOUS
    <3> QED
      BY <1>4, <2>3, <3>1, Zenon DEF Block2
  <2>4. CASE ValuePut(m)
    BY <1>4, <2>4 DEF ValuePut
  <2>5. CASE ValuePutTooLarge(m)
    BY <1>4, <2>5 DEF ValuePutTooLarge
  <2> QED
    BY <1>2, <2>1, <2>2, <2>3, <2>4, <2>5
<1>6. internalValue' \in 0..(ValueModulus - 1)
  <2>1. ASSUME NEW k \in Int
        PROVE  k % ValueModulus \in 0..(ValueModulus - 1)
    BY ModulusAssumption, Z3
  <2>2. CASE ValuePut(m)
    BY <1>3, <2>1, <2>2, PlanKinds DEF ValuePut, SingleInv, Kinds
  <2>3. CASE ~ValuePut(m)
    BY <1>2, <2>3 DEF Sha256More, Sha256Final, Block2, ValuePutTooLarge, serverVars, KindsInv
  <2> QED
    BY <2>2, <2>3
<1> QED
  BY <1>1, <1>5, <1>6 DEF KindsInv

-----------------------------------------------------------------------------
ServerInv == SingleInv /\ BlockInv /\ QuietInv /\ KindsInv

\* Who gets an answer has an activity.
LEMMA AnsweredIsBusy ==
    ASSUME SingleInv, NEW c \in Clients, NextBlock(c) \/ End(c)
    PROVE  doing[c] # Idle
<1>1. PICK m \in network : m.activity = doing[c]
  BY DEF NextBlock, End, Answers
<1> QED
  BY <1>1 DEF SingleInv, MessagesFit, Idle

\* No step of a client or of the server leaves the invariants.
LEMMA ServerStep ==
    ASSUME ServerInv, [Next]_vars
    PROVE  ServerInv'
<1>1. SingleInv'
  BY SingleStep DEF ServerInv
<1>2. ASSUME NEW c \in Clients, Client(c)
      PROVE  BlockInv' /\ QuietInv' /\ KindsInv'
  <2>1. BlockInv'
    BY <1>2, AnsweredIsBusy, BeginBlocks, SendAgainBlocks, GiveUpBlocks, NextBlockBlocks,
       EndBlocks DEF Client, ServerInv
  <2>2. QuietInv'
    BY <1>2, AnsweredIsBusy, BeginQuiet, SendAgainQuiet, GiveUpQuiet, NextBlockQuiet,
       EndQuiet DEF Client, ServerInv
  <2>3. KindsInv'
    BY <1>1, <1>2, ClientKinds DEF ServerInv
  <2> QED
    BY <2>1, <2>2, <2>3
<1>3. CASE Handle
  BY <1>1, <1>3, HandleBlocks, HandleQuiet, HandleKinds DEF ServerInv
<1>4. CASE UNCHANGED vars
  <2>1. /\ UNCHANGED <<context, internalValue, network, doing, block, copies>>
        /\ UNCHANGED <<gathered, started, plan, finished, overlapped, repeated, lastPut>>
    BY <1>4 DEF vars, serverVars, clientVars, history
  <2>2. BlockInv'
    BY <2>1 DEF ServerInv, BlockInv, AnswersFit, AnswerFits, PartsFit, VersionsFit, HasBlock, Part
  <2>3. QuietInv'
    BY <2>1 DEF ServerInv, QuietInv, Quiet, RivalsFit, OneEach, ContextFits, DigestsFit,
                ValueFits, Awaited, Before, Payloads, Changed, Byte
  <2>4. KindsInv'
    BY <2>1 DEF ServerInv, KindsInv
  <2> QED
    BY <1>1, <2>2, <2>3, <2>4 DEF ServerInv
<1> QED
  BY <1>1, <1>2, <1>3, <1>4 DEF Next, ServerInv

\* Nothing is under way at the start, and nothing is finished.
LEMMA ServerInit == Init => ServerInv
<1> SUFFICES ASSUME Init
             PROVE  ServerInv
  OBVIOUS
<1>1. SingleInv
  BY SingleInit
<1>2. Cleared \in Seq(Nat \X Nat) /\ << >> \in Seq(Nat \X Nat)
  BY DEF Cleared
<1>3. BlockInv
  BY <1>2 DEF Init, BlockInv, AnswersFit, PartsFit, VersionsFit
<1>4. QuietInv
  BY ActivitiesAssumption
  DEF Init, QuietInv, Quiet, RivalsFit, OneEach, ContextFits, DigestsFit, ValueFits, Changed, Idle
<1>5. KindsInv
  <2>1. 0 \in 0..(ValueModulus - 1) /\ 0 \in 0..(MaxRetransmit + 1)
    BY RetransmitAssumption, ModulusAssumption
  <2>2. copies \in [Clients -> 0..(MaxRetransmit + 1)]
    BY <2>1 DEF Init
  <2>3. gathered \in [Activities -> Seq(Nat \X Nat)]
    BY <1>2 DEF Init
  <2> QED
    BY <2>1, <2>2, <2>3 DEF Init, KindsInv
<1> QED
  BY <1>1, <1>3, <1>4, <1>5 DEF ServerInv

\* The invariants hold of every reachable state.
LEMMA ServerInvariant == Spec => []ServerInv
<1> QED
  BY ServerInit, ServerStep, PTL DEF Spec

\* Every variable is of its kind.
THEOREM TypesHold == Spec => []TypeOK
<1>1. ServerInv => TypeOK
  <2> SUFFICES ASSUME ServerInv
               PROVE  TypeOK
    OBVIOUS
  <2>1. finished \subseteq Activities
    BY ActivitiesAssumption DEF ServerInv, SingleInv, Kinds, Activities
  <2> QED
    BY <2>1 DEF ServerInv, SingleInv, Kinds, BlockInv, QuietInv, KindsInv, TypeOK
<1> QED
  BY <1>1, ServerInvariant, PTL

\* The version that a client puts together is the whole text, in order, however
\* long it is, whatever was lost, sent again or answered twice.
THEOREM VersionTheorem == Spec => []VersionIsWhole
<1>1. ServerInv => VersionIsWhole
  BY DEF ServerInv, BlockInv, VersionsFit, VersionIsWhole, Finished
<1> QED
  BY <1>1, ServerInvariant, PTL

\* An upload in blocks gets the digest of its blocks if no other ran at the same
\* time and nothing was sent again before: for every number of blocks.
THEOREM QuietUploadTheorem == Spec => []QuietUploadIsRight
<1>1. ServerInv => QuietUploadIsRight
  BY DEF ServerInv, QuietInv, Quiet, DigestsFit, QuietUploadIsRight, Finished
<1> QED
  BY <1>1, ServerInvariant, PTL

\* Where nothing was sent again, the value stays what was PUT last, as much of it
\* as a byte holds.
THEOREM QuietValueTheorem == Spec => []QuietValueStays
<1>1. ServerInv => QuietValueStays
  <2> SUFFICES ASSUME ServerInv, ~repeated, ValueAtRest
               PROVE  internalValue = Byte(lastPut)
    BY DEF QuietValueStays, Byte
  <2>1. Quiet /\ lastPut # Idle /\ lastPut \notin overlapped /\ Putting = {}
    BY DEF ServerInv, QuietInv, ValueAtRest
  <2>2. ASSUME NEW m \in Changed
        PROVE  FALSE
    <3>1. m \in network /\ plan[m.activity].op = "put"
      BY DEF Changed, ServerInv, BlockInv, AnswersFit, AnswerFits
    <3>2. PICK c \in Clients : doing[c] = m.activity
      BY <2>1, <3>1 DEF Quiet, OneEach, Awaited
    <3>3. doing[c] # Idle
      BY <3>1, <3>2 DEF ServerInv, SingleInv, MessagesFit, Idle
    <3>4. c \in Putting
      BY <3>1, <3>2, <3>3 DEF Putting
    <3> QED
      BY <2>1, <3>4
  <2>3. Changed = {}
    BY <2>2
  <2> QED
    BY <2>1, <2>3 DEF Quiet, ValueFits
<1> QED
  BY <1>1, ServerInvariant, PTL
=============================================================================
