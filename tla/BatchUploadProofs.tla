-------------------------- MODULE BatchUploadProofs --------------------------
(***************************************************************************)
(* Proofs about BatchUpload for any number of batches, points, waiting     *)
(* requests, retransmissions and restarts.                                 *)
(***************************************************************************)
EXTENDS BatchUpload, FiniteSetTheorems, SequenceTheorems, TLAPS

\* The part of the types that the argument needs.
Shape ==
    /\ posts \in Nat
    /\ DOMAIN outcome = Batches
    /\ DOMAIN answered = Batches
    /\ serving \in Batches \union {NoBatch}
    /\ next \in Nat \ {0}
    /\ database \in Seq(Batches \X (1..Points))

(***************************************************************************)
(* "ok" is never there before the points are: not on the node, not on its  *)
(* way, not in what aiocoap remembers.  It is put there by Finish, whose   *)
(* handler has written every point below `next`; and nothing is ever       *)
(* removed from the database, so what was stored remains.                  *)
(***************************************************************************)
HandlerWrote == serving # NoBatch => \A n \in 1..(next - 1) : Written(serving, n)

OkAnswerStored == \A b \in Batches : answered[b] = "ok" => Stored(b)

OkResponseStored == \A b \in Batches : Response(b, "ok") \in network => Stored(b)

IndInv ==
    /\ Shape
    /\ HandlerWrote
    /\ OkAnswerStored
    /\ OkResponseStored
    /\ SuccessMeansStored

-----------------------------------------------------------------------------
\* A request is not a response, and responses with other answers differ.
LEMMA MessagesDiffer ==
    /\ \A b, c : Request(b) # Response(c, "ok")
    /\ \A b, c : Response(b, "error") # Response(c, "ok")
    /\ \A b, c : Response(b, "ok") = Response(c, "ok") => b = c
  BY DEF Request, Response

\* Points stay written when the database grows at its end or not at all.
LEMMA WrittenStays ==
    ASSUME Shape,
           database' = database
             \/ \E p \in Batches \X (1..Points) : database' = Append(database, p),
           NEW b, NEW n, Written(b, n)
    PROVE  Written(b, n)'
<1>1. PICK i \in 1..Len(database) : database[i] = <<b, n>>
  BY DEF Written
<1>2. CASE database' = database
  BY <1>1, <1>2 DEF Written
<1>3. CASE \E p \in Batches \X (1..Points) : database' = Append(database, p)
  <2>1. PICK p \in Batches \X (1..Points) : database' = Append(database, p)
    BY <1>3
  <2>2. database \in Seq(Batches \X (1..Points))
    BY DEF Shape
  <2>3. i \in 1..Len(database') /\ database'[i] = database[i]
    BY <1>1, <2>1, <2>2
  <2> QED
    BY <1>1, <2>3 DEF Written
<1> QED
  BY <1>2, <1>3

\* So does a whole batch.
LEMMA StoredStays ==
    ASSUME Shape,
           database' = database
             \/ \E p \in Batches \X (1..Points) : database' = Append(database, p),
           NEW b, Stored(b)
    PROVE  Stored(b)'
  BY WrittenStays DEF Stored

\* At the start nobody was told anything.
LEMMA InitIndInv == Init => IndInv
<1> SUFFICES ASSUME Init PROVE IndInv
  OBVIOUS
<1>1. Shape
  BY BatchesAssumption DEF Init, Shape
<1>2. HandlerWrote /\ OkAnswerStored /\ OkResponseStored /\ SuccessMeansStored
  BY DEF Init, HandlerWrote, OkAnswerStored, OkResponseStored, SuccessMeansStored
<1> QED
  BY <1>1, <1>2 DEF IndInv

-----------------------------------------------------------------------------
\* Steps of the node and of the network: the server's state is untouched, no
\* new "ok" is under way, and success is learned from a response only.
LEMMA NodeAndNetworkSteps ==
    ASSUME IndInv,
           \/ Node
           \/ Lose
           \/ \E b \in Batches : Gcoap(b) \/ RepeatAnswer(b)
    PROVE  IndInv'
<1>1. UNCHANGED serverVars
  BY DEF Node, PostSent, PostUnsent, Lose, Gcoap, Retransmit, RespTimeout,
         RespHandler, RepeatAnswer
<1>2. \A b \in Batches : Stored(b)' = Stored(b)
  BY <1>1 DEF serverVars, Stored, Written
<1>3. Shape'
  <2>1. posts' \in Nat /\ DOMAIN outcome' = Batches
    BY DEF IndInv, Shape, Node, PostSent, PostUnsent, Lose, Gcoap, Retransmit,
           RespTimeout, RespHandler, RepeatAnswer, nodeVars
  <2> QED
    BY <1>1, <2>1 DEF IndInv, Shape, serverVars
<1>4. HandlerWrote' /\ OkAnswerStored'
  BY <1>1, <1>2 DEF IndInv, HandlerWrote, OkAnswerStored, serverVars, Written
<1>5. OkResponseStored'
  <2> SUFFICES ASSUME NEW b \in Batches, Response(b, "ok") \in network'
               PROVE  Stored(b)
    BY <1>2 DEF OkResponseStored
  <2>1. Response(b, "ok") \in network \/ answered[b] = "ok"
    <3>1. CASE Node \/ Lose
      BY <3>1, MessagesDiffer DEF Node, PostSent, PostUnsent, Lose
    <3>2. CASE \E c \in Batches : Gcoap(c)
      BY <3>2, MessagesDiffer DEF Gcoap, Retransmit, RespTimeout, RespHandler
    <3>3. CASE \E c \in Batches : RepeatAnswer(c)
      <4>1. PICK c \in Batches : network' = network \union {Response(c, answered[c])}
        BY <3>3 DEF RepeatAnswer
      <4>2. CASE Response(b, "ok") = Response(c, answered[c])
        BY <4>2 DEF Response
      <4> QED
        BY <4>1, <4>2
    <3> QED
      BY <3>1, <3>2, <3>3
  <2> QED
    BY <2>1 DEF IndInv, OkResponseStored, OkAnswerStored
<1>6. SuccessMeansStored'
  <2> SUFFICES ASSUME NEW b \in Batches, outcome'[b] = "success"
               PROVE  Stored(b)
    BY <1>2 DEF SuccessMeansStored
  <2>1. outcome[b] = "success" \/ Response(b, "ok") \in network
    BY DEF IndInv, Shape, Node, PostSent, PostUnsent, Lose, Gcoap, Retransmit,
           RespTimeout, RespHandler, RepeatAnswer, nodeVars
  <2> QED
    BY <2>1 DEF IndInv, OkResponseStored, SuccessMeansStored
<1> QED
  BY <1>3, <1>4, <1>5, <1>6 DEF IndInv

\* A handler begins with nothing left to have written.
LEMMA RenderPostStep ==
    ASSUME IndInv, NEW b \in Batches, RenderPost(b)
    PROVE  IndInv'
<1>1. /\ serving' = b /\ next' = 1 /\ database' = database
      /\ UNCHANGED <<posts, outcome, network, answered>>
  BY DEF RenderPost, nodeVars
<1>2. Shape'
  BY <1>1 DEF IndInv, Shape
<1>3. HandlerWrote'
  BY <1>1 DEF HandlerWrote
<1>4. OkAnswerStored' /\ OkResponseStored' /\ SuccessMeansStored'
  BY <1>1 DEF IndInv, OkAnswerStored, OkResponseStored, SuccessMeansStored, Stored, Written
<1> QED
  BY <1>2, <1>3, <1>4 DEF IndInv

\* The point written is the one that `next` passes.
LEMMA WritePointStep ==
    ASSUME IndInv, WritePoint
    PROVE  IndInv'
<1>1. /\ serving \in Batches /\ serving' = serving
      /\ next \in 1..Points /\ next' = next + 1
      /\ UNCHANGED <<posts, outcome, network, answered>>
  BY PointsAssumption DEF WritePoint, IndInv, Shape, nodeVars
<1>2. database \in Seq(Batches \X (1..Points))
  BY DEF IndInv, Shape
<1>3. PICK p \in Batches \X (1..Points) : p = <<serving, next>> /\ database' = Append(database, p)
  BY <1>1 DEF WritePoint
<1>4. \A b \in Batches : Stored(b) => Stored(b)'
  BY <1>3, StoredStays DEF IndInv
<1>5. Shape'
  <2>1. database' \in Seq(Batches \X (1..Points))
    BY <1>2, <1>3
  <2> QED
    BY <1>1, <2>1 DEF IndInv, Shape
<1>6. HandlerWrote'
  <2>1. PICK b \in Batches : b = serving /\ b = serving'
    BY <1>1
  <2>2. ASSUME NEW n \in 1..next PROVE Written(b, n)'
    <3>1. CASE n = next
      <4>1. Len(database) + 1 \in 1..Len(database') /\ database'[Len(database) + 1] = p
        BY <1>2, <1>3
      <4> QED
        BY <1>3, <2>1, <3>1, <4>1 DEF Written
    <3>2. CASE n \in 1..(next - 1)
      <4>1. Written(b, n)
        BY <2>1, <3>2 DEF IndInv, HandlerWrote, Batches, NoBatch
      <4> QED
        BY <1>3, <4>1, WrittenStays DEF IndInv
    <3> QED
      BY <1>1, <3>1, <3>2
  <2>3. 1..(next' - 1) = 1..next
    BY <1>1
  <2> QED
    BY <2>1, <2>2, <2>3 DEF HandlerWrote, Written
<1>7. OkAnswerStored' /\ OkResponseStored' /\ SuccessMeansStored'
  BY <1>1, <1>4 DEF IndInv, OkAnswerStored, OkResponseStored, SuccessMeansStored
<1> QED
  BY <1>5, <1>6, <1>7 DEF IndInv

\* A failed write makes no "ok".
LEMMA WriteFailsStep ==
    ASSUME IndInv, WriteFails
    PROVE  IndInv'
<1>1. /\ serving' = NoBatch /\ UNCHANGED <<posts, outcome, next, database>>
      /\ answered' = [answered EXCEPT ![serving] = "error"]
      /\ network' = network \union {Response(serving, "error")}
  BY DEF WriteFails, nodeVars
<1>2. \A b \in Batches : Stored(b)' = Stored(b)
  BY <1>1 DEF Stored, Written
<1>3. Shape'
  BY <1>1 DEF IndInv, Shape
<1>4. HandlerWrote' /\ SuccessMeansStored'
  BY <1>1, <1>2 DEF IndInv, HandlerWrote, SuccessMeansStored
<1>5. OkAnswerStored'
  BY <1>1, <1>2 DEF IndInv, Shape, OkAnswerStored
<1>6. OkResponseStored'
  BY <1>1, <1>2, MessagesDiffer DEF IndInv, OkResponseStored
<1> QED
  BY <1>3, <1>4, <1>5, <1>6 DEF IndInv

\* "ok" is answered of a batch whose every point the handler has written.
LEMMA FinishStep ==
    ASSUME IndInv, Finish
    PROVE  IndInv'
<1>1. /\ serving' = NoBatch /\ UNCHANGED <<posts, outcome, next, database>>
      /\ answered' = [answered EXCEPT ![serving] = "ok"]
      /\ network' = network \union {Response(serving, "ok")}
      /\ serving \in Batches /\ serving # NoBatch /\ next > Points
  BY DEF Finish, nodeVars, IndInv, Shape
<1>2. \A b \in Batches : Stored(b)' = Stored(b)
  BY <1>1 DEF Stored, Written
<1>3. Stored(serving)
  <2>1. \A n \in 1..Points : n \in 1..(next - 1)
    BY <1>1, PointsAssumption DEF IndInv, Shape
  <2> QED
    BY <1>1, <2>1 DEF IndInv, HandlerWrote, Stored
<1>4. Shape'
  BY <1>1 DEF IndInv, Shape
<1>5. HandlerWrote' /\ SuccessMeansStored'
  BY <1>1, <1>2 DEF IndInv, HandlerWrote, SuccessMeansStored
<1>6. OkAnswerStored'
  BY <1>1, <1>2, <1>3 DEF IndInv, Shape, OkAnswerStored
<1>7. OkResponseStored'
  BY <1>1, <1>2, <1>3, MessagesDiffer DEF IndInv, OkResponseStored
<1> QED
  BY <1>4, <1>5, <1>6, <1>7 DEF IndInv

\* A restart forgets answers and the handler, not points.
LEMMA RestartStep ==
    ASSUME IndInv, Restart
    PROVE  IndInv'
<1>1. /\ serving' = NoBatch /\ next' = 1 /\ answered' = [b \in Batches |-> "none"]
      /\ UNCHANGED <<posts, outcome, network, database>>
  BY DEF Restart, nodeVars
<1>2. \A b \in Batches : Stored(b)' = Stored(b)
  BY <1>1 DEF Stored, Written
<1>3. Shape'
  BY <1>1 DEF IndInv, Shape
<1>4. HandlerWrote' /\ OkAnswerStored' /\ OkResponseStored' /\ SuccessMeansStored'
  BY <1>1, <1>2 DEF IndInv, HandlerWrote, OkAnswerStored, OkResponseStored, SuccessMeansStored
<1> QED
  BY <1>3, <1>4 DEF IndInv

\* Every step is one of these.
LEMMA NextIndInv == IndInv /\ [Next]_vars => IndInv'
<1> SUFFICES ASSUME IndInv, [Next]_vars PROVE IndInv'
  OBVIOUS
<1>1. CASE Node \/ Lose \/ \E b \in Batches : Gcoap(b) \/ RepeatAnswer(b)
  BY <1>1, NodeAndNetworkSteps
<1>2. CASE \E b \in Batches : RenderPost(b)
  BY <1>2, RenderPostStep
<1>3. CASE WritePoint
  BY <1>3, WritePointStep
<1>4. CASE WriteFails
  BY <1>4, WriteFailsStep
<1>5. CASE Finish
  BY <1>5, FinishStep
<1>6. CASE Restart
  BY <1>6, RestartStep
<1>7. CASE UNCHANGED vars
  BY <1>7 DEF vars, nodeVars, serverVars, IndInv, Shape, HandlerWrote, OkAnswerStored,
              OkResponseStored, SuccessMeansStored, Stored, Written
<1> QED
  BY <1>1, <1>2, <1>3, <1>4, <1>5, <1>6, <1>7 DEF Next, Aiocoap, Handler

\* A batch reported as a success is in the database whole, however many
\* messages were lost or repeated and however often the server restarted.
THEOREM SuccessIsDurable == Spec => []SuccessMeansStored
<1>1. IndInv => SuccessMeansStored
  BY DEF IndInv
<1> QED
  BY <1>1, InitIndInv, NextIndInv, PTL DEF Spec

-----------------------------------------------------------------------------
(***************************************************************************)
(* Duplicates.  A value is written once in the life of a server: by the    *)
(* handler in progress if it is past it, or by one that has answered.      *)
(* What an earlier life of the server wrote is paid for by its restart.    *)
(***************************************************************************)
CopiesOf(b, n) == {i \in 1..Len(database) : database[i] = <<b, n>>}

Past(b, n) == answered[b] # "none" \/ (serving = b /\ n < next)

CopiesInv ==
    /\ Shape
    /\ restarts \in Nat
    /\ serving # NoBatch => answered[serving] = "none"
    /\ \A b \in Batches, n \in 1..Points :
          /\ IsFiniteSet(CopiesOf(b, n))
          /\ Cardinality(CopiesOf(b, n)) <= restarts + (IF Past(b, n) THEN 1 ELSE 0)

\* The numbers of copies are natural numbers.
LEMMA CopiesAreCounted ==
    ASSUME CopiesInv, NEW b \in Batches, NEW n \in 1..Points
    PROVE  Cardinality(CopiesOf(b, n)) \in Nat
  BY FS_CardinalityType DEF CopiesInv

\* There are none at the start.
LEMMA CopiesInit == Init => CopiesInv
<1> SUFFICES ASSUME Init PROVE CopiesInv
  OBVIOUS
<1>1. Shape /\ restarts \in Nat /\ serving = NoBatch
  BY InitIndInv DEF Init, IndInv
<1>2. ASSUME NEW b \in Batches, NEW n \in 1..Points
      PROVE  CopiesOf(b, n) = {} /\ ~Past(b, n)
  BY <1>2 DEF Init, CopiesOf, Past, Batches, NoBatch
<1> QED
  BY <1>1, <1>2, FS_EmptySet DEF CopiesInv

\* A step that writes nothing and after which no value is newly written.
LEMMA NothingWritten ==
    ASSUME CopiesInv, Shape', database' = database, restarts' = restarts,
           serving' # NoBatch => answered'[serving'] = "none",
           \A b \in Batches, n \in 1..Points : Past(b, n) => Past(b, n)'
    PROVE  CopiesInv'
<1>1. ASSUME NEW b \in Batches, NEW n \in 1..Points
      PROVE  /\ IsFiniteSet(CopiesOf(b, n))'
             /\ (Cardinality(CopiesOf(b, n)) <= restarts + (IF Past(b, n) THEN 1 ELSE 0))'
  <2>1. CopiesOf(b, n)' = CopiesOf(b, n)
    BY DEF CopiesOf
  <2>2. PICK k \in Nat : k = Cardinality(CopiesOf(b, n))
    BY CopiesAreCounted
  <2>3. k <= restarts + (IF Past(b, n) THEN 1 ELSE 0) /\ restarts \in Nat
    BY <2>2 DEF CopiesInv
  <2>4. Past(b, n) => Past(b, n)'
    OBVIOUS
  <2>5. k <= restarts' + (IF Past(b, n)' THEN 1 ELSE 0)
    BY <2>3, <2>4
  <2> QED
    BY <2>1, <2>2, <2>5 DEF CopiesInv
<1> QED
  BY <1>1 DEF CopiesInv

\* The value that is written was not past.
LEMMA CopyWritten ==
    ASSUME CopiesInv, Shape', WritePoint
    PROVE  CopiesInv'
<1>1. /\ serving \in Batches /\ serving' = serving /\ next \in 1..Points /\ next' = next + 1
      /\ answered' = answered /\ restarts' = restarts /\ restarts \in Nat
      /\ answered[serving] = "none"
  BY PointsAssumption DEF WritePoint, CopiesInv, Shape
<1>2. database \in Seq(Batches \X (1..Points))
  BY DEF CopiesInv, Shape
<1>3. PICK p \in Batches \X (1..Points) : p = <<serving, next>> /\ database' = Append(database, p)
  BY <1>1 DEF WritePoint
<1>4. PICK k \in Nat : k = Len(database)
  BY <1>2
<1>5. /\ Len(database') = k + 1 /\ database'[k + 1] = p
      /\ \A i \in 1..k : database'[i] = database[i]
  BY <1>2, <1>3, <1>4
<1>6. ASSUME NEW b \in Batches, NEW n \in 1..Points
      PROVE  /\ IsFiniteSet(CopiesOf(b, n))'
             /\ (Cardinality(CopiesOf(b, n)) <= restarts + (IF Past(b, n) THEN 1 ELSE 0))'
  <2>1. PICK c \in Nat : c = Cardinality(CopiesOf(b, n))
    BY CopiesAreCounted
  <2>2. IsFiniteSet(CopiesOf(b, n)) /\ c <= restarts + (IF Past(b, n) THEN 1 ELSE 0)
    BY <2>1 DEF CopiesInv
  <2>3. CASE p # <<b, n>>
    <3>1. CopiesOf(b, n)' = CopiesOf(b, n)
      BY <1>4, <1>5, <2>3 DEF CopiesOf
    <3>2. Past(b, n)' = Past(b, n)
      BY <1>1, <1>3, <2>3 DEF Past
    <3> QED
      BY <1>1, <2>1, <2>2, <3>1, <3>2
  <2>4. CASE p = <<b, n>>
    <3>1. b = serving /\ n = next
      BY <1>3, <2>4
    <3>2. ~Past(b, n) /\ Past(b, n)'
      BY <1>1, <3>1 DEF Past
    <3>3. CopiesOf(b, n)' = CopiesOf(b, n) \union {k + 1}
      BY <1>4, <1>5, <2>4 DEF CopiesOf
    <3>4. k + 1 \notin CopiesOf(b, n)
      BY <1>4 DEF CopiesOf
    <3>5. /\ IsFiniteSet(CopiesOf(b, n) \union {k + 1})
          /\ Cardinality(CopiesOf(b, n) \union {k + 1}) = c + 1
      BY <2>1, <2>2, <3>4, FS_AddElement
    <3>6. c <= restarts
      BY <1>1, <2>2, <3>2
    <3> QED
      BY <1>1, <3>2, <3>3, <3>5, <3>6
  <2> QED
    BY <2>3, <2>4
<1> QED
  BY <1>1, <1>6 DEF CopiesInv

\* A restart forgets what is past, and pays for one copy of everything.
LEMMA CopiesRestart ==
    ASSUME CopiesInv, Shape', Restart
    PROVE  CopiesInv'
<1>1. /\ serving' = NoBatch /\ database' = database /\ restarts' = restarts + 1
      /\ restarts \in Nat
  BY DEF Restart, CopiesInv
<1>2. ASSUME NEW b \in Batches, NEW n \in 1..Points
      PROVE  /\ IsFiniteSet(CopiesOf(b, n))'
             /\ (Cardinality(CopiesOf(b, n)) <= restarts + (IF Past(b, n) THEN 1 ELSE 0))'
  <2>1. CopiesOf(b, n)' = CopiesOf(b, n)
    BY <1>1 DEF CopiesOf
  <2>2. PICK k \in Nat : k = Cardinality(CopiesOf(b, n))
    BY CopiesAreCounted
  <2>3. k <= restarts + 1
    BY <1>1, <2>2 DEF CopiesInv
  <2>4. k <= restarts' + (IF Past(b, n)' THEN 1 ELSE 0)
    BY <1>1, <2>3
  <2> QED
    BY <2>1, <2>2, <2>4 DEF CopiesInv
<1> QED
  BY <1>1, <1>2 DEF CopiesInv

\* Every step is one of these.
LEMMA CopiesStep ==
    ASSUME IndInv, CopiesInv, [Next]_vars
    PROVE  CopiesInv'
<1>1. Shape'
  BY NextIndInv DEF IndInv
<1>2. CASE Node \/ Lose \/ \E b \in Batches : Gcoap(b) \/ RepeatAnswer(b)
  <2>1. UNCHANGED serverVars
    BY <1>2 DEF Node, PostSent, PostUnsent, Lose, Gcoap, Retransmit, RespTimeout,
                RespHandler, RepeatAnswer
  <2> QED
    BY <1>1, <2>1, NothingWritten DEF serverVars, CopiesInv, Past
<1>3. ASSUME NEW b \in Batches, RenderPost(b)
      PROVE  CopiesInv'
  <2>1. /\ serving = NoBatch /\ serving' = b /\ answered' = answered /\ answered[b] = "none"
        /\ database' = database /\ restarts' = restarts
    BY <1>3 DEF RenderPost
  <2>2. \A c \in Batches, n \in 1..Points : Past(c, n) => Past(c, n)'
    BY <2>1 DEF Past, Batches, NoBatch
  <2> QED
    BY <1>1, <2>1, <2>2, NothingWritten
<1>4. CASE WritePoint
  BY <1>1, <1>4, CopyWritten
<1>5. CASE WriteFails \/ Finish
  <2>1. /\ serving \in Batches /\ serving' = NoBatch /\ database' = database
        /\ restarts' = restarts
    BY <1>5 DEF WriteFails, Finish, CopiesInv, Shape
  <2>2. PICK a \in {"ok", "error"} : answered' = [answered EXCEPT ![serving] = a]
    BY <1>5 DEF WriteFails, Finish
  <2>3. \A c \in Batches, n \in 1..Points : Past(c, n) => Past(c, n)'
    BY <2>1, <2>2 DEF Past, CopiesInv, Shape
  <2> QED
    BY <1>1, <2>1, <2>3, NothingWritten
<1>6. CASE Restart
  BY <1>1, <1>6, CopiesRestart
<1>7. CASE UNCHANGED vars
  BY <1>1, <1>7, NothingWritten DEF vars, serverVars, CopiesInv, Past
<1> QED
  BY <1>2, <1>3, <1>4, <1>5, <1>6, <1>7 DEF Next, Aiocoap, Handler

\* A value is in the database at most once more than the server restarted: no
\* loss, delay or repetition on the network, and no failed write, duplicates it.
THEOREM DuplicatesTheorem == Spec => []DuplicatesOnlyAfterRestart
<1>1. CopiesInv => DuplicatesOnlyAfterRestart
  <2> SUFFICES ASSUME CopiesInv, NEW b \in Batches, NEW n \in 1..Points
               PROVE  Cardinality(CopiesOf(b, n)) <= 1 + restarts
    BY DEF DuplicatesOnlyAfterRestart, CopiesOf
  <2>1. PICK k \in Nat : k = Cardinality(CopiesOf(b, n))
    BY CopiesAreCounted
  <2> QED
    BY <2>1 DEF CopiesInv
<1> QED
  BY <1>1, InitIndInv, NextIndInv, CopiesInit, CopiesStep, PTL DEF Spec

-----------------------------------------------------------------------------
(***************************************************************************)
(* Implementation of BatchStore.  What the handler in progress has written *)
(* is the end of the database, and is shown when the handler ends, however *)
(* it ends.                                                                *)
(***************************************************************************)
Base == IF serving = NoBatch THEN Len(database) ELSE Len(database) - (next - 1)

Whole(b) == \E i \in 0..(Base - Points) : \A n \in 1..Points : database[i + n] = <<b, n>>

\* A request is only on its way, or served, if it was sent.
Transmitted ==
    /\ \A b \in Batches : outcome[b] = "none" <=> b > posts
    /\ \A b \in Batches : Request(b) \in network => outcome[b] \notin {"none", "unsent"}
    /\ serving # NoBatch => outcome[serving] \notin {"none", "unsent"}

\* The handler's points are the last.
WrittenLast ==
    serving # NoBatch =>
        /\ next <= Points + 1
        /\ next - 1 <= Len(database)
        /\ \A n \in 1..(next - 1) : database[Base + n] = <<serving, n>>

\* "ok" is said of a batch that is shown whole.
OkIsWhole ==
    \A b \in Batches :
        /\ answered[b] = "ok" => Whole(b)
        /\ Response(b, "ok") \in network => Whole(b)

StoreInv == Shape /\ Transmitted /\ WrittenLast /\ OkIsWhole

\* The first k elements of a sequence.
LEMMA PrefixProperties ==
    ASSUME NEW S, NEW db \in Seq(S), NEW k \in 0..Len(db)
    PROVE  /\ SubSeq(db, 1, k) \in Seq(S)
           /\ Len(SubSeq(db, 1, k)) = k
           /\ \A i \in 1..k : SubSeq(db, 1, k)[i] = db[i]
<1>1. PICK n \in Nat : n = Len(db)
  BY LenProperties
<1>2. k \in Int /\ 1 \in Int /\ \A i \in 1..k : i \in 1..n
  BY <1>1
<1>3. \A i \in 1..k : db[i] \in S
  BY <1>1, <1>2, ElementOfSeq
<1>4. /\ SubSeq(db, 1, k) \in Seq(S)
      /\ Len(SubSeq(db, 1, k)) = IF 1 <= k THEN k - 1 + 1 ELSE 0
      /\ \A i \in 1..(k - 1 + 1) : SubSeq(db, 1, k)[i] = db[1 + i - 1]
  BY <1>2, <1>3, SubSeqProperties
<1>5. /\ (IF 1 <= k THEN k - 1 + 1 ELSE 0) = k
      /\ \A i \in 1..k : i \in 1..(k - 1 + 1) /\ 1 + i - 1 = i
  BY <1>1, <1>2
<1> QED
  BY <1>4, <1>5

\* Prefixes of the same length that agree are the same.
LEMMA SamePrefix ==
    ASSUME NEW S, NEW db \in Seq(S), NEW eb \in Seq(S),
           NEW k \in 0..Len(db), k \in 0..Len(eb), \A i \in 1..k : db[i] = eb[i]
    PROVE  SubSeq(db, 1, k) = SubSeq(eb, 1, k)
<1>1. /\ SubSeq(db, 1, k) \in Seq(S)
      /\ Len(SubSeq(db, 1, k)) = k
      /\ \A i \in 1..k : SubSeq(db, 1, k)[i] = db[i]
  BY PrefixProperties, Zenon
<1>2. /\ SubSeq(eb, 1, k) \in Seq(S)
      /\ Len(SubSeq(eb, 1, k)) = k
      /\ \A i \in 1..k : SubSeq(eb, 1, k)[i] = eb[i]
  BY PrefixProperties, Zenon
<1>3. PICK s \in Seq(S) : s = SubSeq(db, 1, k)
  BY <1>1, Zenon
<1>4. PICK t \in Seq(S) : t = SubSeq(eb, 1, k)
  BY <1>2, Zenon
<1>5. Len(s) = k /\ Len(t) = k /\ \A i \in 1..k : s[i] = t[i]
  BY <1>1, <1>2, <1>3, <1>4
<1>6. s = t
  BY <1>5, SeqEqual
<1> QED
  BY <1>3, <1>4, <1>6

\* All of a sequence is its own prefix.
LEMMA WholePrefix ==
    ASSUME NEW S, NEW db \in Seq(S)
    PROVE  SubSeq(db, 1, Len(db)) = db
<1>1. Len(db) \in Nat /\ Len(db) \in 0..Len(db)
  BY LenProperties
<1>2. PICK k \in 0..Len(db) : k = Len(db)
  BY <1>1
<1>3. PICK s \in Seq(S) : s = SubSeq(db, 1, k) /\ Len(s) = k /\ \A i \in 1..k : s[i] = db[i]
  BY PrefixProperties
<1>4. s = db
  BY <1>2, <1>3, SeqEqual
<1> QED
  BY <1>2, <1>3, <1>4

\* A sequence is its prefix and what follows, here the first points of a batch.
LEMMA PrefixAndPoints ==
    ASSUME NEW db \in Seq(Batches \X (1..Points)), NEW b \in Batches, NEW k \in 1..Points,
           k <= Len(db), \A n \in 1..k : db[Len(db) - k + n] = <<b, n>>
    PROVE  db = SubSeq(db, 1, Len(db) - k) \o Promise!FirstPoints(b, k)
<1>1. PICK l \in Nat : l = Len(db)
  BY LenProperties
<1>2. PICK j \in 0..l : j = l - k
  <2>1. k \in Nat /\ k <= l
    BY <1>1, PointsAssumption
  <2>2. l - k \in 0..l
    BY <2>1
  <2> QED
    BY <2>2
<1> DEFINE P == Batches \X (1..Points)
<1> HIDE DEF P
<1>3. db \in Seq(P) /\ j \in 0..Len(db)
  BY <1>1, <1>2 DEF P
<1>4. /\ SubSeq(db, 1, j) \in Seq(P)
      /\ Len(SubSeq(db, 1, j)) = j
      /\ \A i \in 1..j : SubSeq(db, 1, j)[i] = db[i]
  BY <1>3, PrefixProperties, Zenon
<1>5. PICK s \in Seq(P) : s = SubSeq(db, 1, j) /\ Len(s) = j /\ \A i \in 1..j : s[i] = db[i]
  BY <1>4, Zenon
<1>6. PICK f : f = [n \in 1..k |-> <<b, n>>]
  OBVIOUS
<1>7. k \in Nat /\ \A n \in 1..k : n \in 1..Points
  BY PointsAssumption
<1>8. \A n \in 1..k : <<b, n>> \in P
  BY <1>7 DEF P
<1>9. f \in Seq(P) /\ Len(f) = k /\ \A n \in 1..k : f[n] = <<b, n>>
  <2>1. \A n \in 1..k : f[n] \in P
    BY <1>6, <1>8
  <2>2. f \in Seq(P) /\ Len(f) = k
    BY <1>6, <1>7, <2>1
  <2> QED
    BY <1>6, <2>2
<1>10. /\ s \o f \in Seq(P)
       /\ Len(s \o f) = Len(s) + Len(f)
       /\ \A i \in 1..(Len(s) + Len(f)) : (s \o f)[i] = IF i <= Len(s) THEN s[i] ELSE f[i - Len(s)]
  BY <1>9, ConcatProperties, Zenon
<1>11. PICK t \in Seq(P) : t = s \o f
  BY <1>10, Zenon
<1>12. /\ Len(t) = j + k
      /\ \A i \in 1..(j + k) : t[i] = IF i <= j THEN s[i] ELSE f[i - j]
  BY <1>5, <1>9, <1>11, <1>10
<1>13. ASSUME NEW i \in 1..l PROVE db[i] = t[i]
  <2>1. i \in 1..(j + k)
    BY <1>1, <1>2, <1>7
  <2>2. CASE i <= j
    <3>1. i \in 1..j
      BY <2>2
    <3> QED
      BY <1>5, <1>12, <2>1, <2>2, <3>1
  <2>3. CASE ~(i <= j)
    <3>1. PICK n \in 1..k : n = i - j /\ i = l - k + n
      <4>1. i - j \in 1..k /\ i = l - k + (i - j)
        BY <1>2, <1>7, <2>1, <2>3
      <4> QED
        BY <4>1
    <3>2. t[i] = <<b, n>>
      BY <1>9, <1>12, <2>1, <2>3, <3>1
    <3>3. db[l - k + n] = <<b, n>>
      BY <1>1
    <3> QED
      BY <3>1, <3>2, <3>3
  <2> QED
    BY <2>2, <2>3
<1>14. Len(t) = l
  BY <1>1, <1>2, <1>7, <1>12
<1>15. db = t
  BY <1>3, <1>1, <1>13, <1>14, SeqEqual
<1> QED
  BY <1>1, <1>2, <1>5, <1>6, <1>11, <1>15 DEF Promise!FirstPoints

-----------------------------------------------------------------------------
\* What is shown is the database up to the points of the handler.
LEMMA SettledProperties ==
    ASSUME Shape, WrittenLast
    PROVE  /\ Base \in Nat /\ Base \in 0..Len(database)
           /\ Settled = SubSeq(database, 1, Base)
           /\ Len(Settled) = Base
           /\ \A i \in 1..Base : Settled[i] = database[i]
<1> DEFINE P == Batches \X (1..Points)
<1>1. database \in Seq(P) /\ next \in Nat \ {0}
  BY DEF Shape
<1> HIDE DEF P
<1>2. Len(database) \in Nat
  BY <1>1, LenProperties
<1>3. Base \in 0..Len(database) /\ Base \in Nat
  BY <1>1, <1>2 DEF Base, WrittenLast
<1>4. Settled = SubSeq(database, 1, Base)
  <2>1. CASE serving = NoBatch
    <3>1. SubSeq(database, 1, Len(database)) = database
      BY <1>1, WholePrefix, Zenon
    <3> QED
      BY <2>1, <3>1 DEF Settled, Base
  <2>2. CASE serving # NoBatch
    BY <2>2 DEF Settled, Base
  <2> QED
    BY <2>1, <2>2
<1>5. /\ Len(SubSeq(database, 1, Base)) = Base
      /\ \A i \in 1..Base : SubSeq(database, 1, Base)[i] = database[i]
  BY <1>1, <1>3, PrefixProperties, Zenon
<1> QED
  BY <1>3, <1>4, <1>5

\* A batch that is shown whole remains so when more is shown.
LEMMA WholeStays ==
    ASSUME Base \in Int, Base' \in Int, Base <= Base',
           \A i \in 1..Base : database'[i] = database[i],
           NEW b, Whole(b)
    PROVE  Whole(b)'
<1>1. PICK m \in Nat : m = Points
  BY PointsAssumption
<1>2. PICK old \in Int, new \in Int : old = Base /\ new = Base' /\ old <= new
  OBVIOUS
<1>3. PICK i \in 0..(old - m) : \A n \in 1..m : database[i + n] = <<b, n>>
  BY <1>1, <1>2 DEF Whole
<1>4. i \in 0..(new - m)
  <2>1. 0 <= i /\ i <= old - m /\ i \in Int /\ m \in Int
    BY <1>1, <1>3
  <2>2. i <= new - m
    BY <1>2, <2>1
  <2> QED
    BY <1>2, <2>1, <2>2
<1>5. ASSUME NEW n \in 1..m PROVE database'[i + n] = <<b, n>>
  <2>1. PICK j \in 1..old : j = i + n
    BY <1>1, <1>2, <1>3, <1>5
  <2>2. database'[j] = database[j]
    BY <1>2
  <2> QED
    BY <1>3, <2>1, <2>2
<1> QED
  BY <1>1, <1>2, <1>4, <1>5 DEF Whole

\* The node's steps and the network's leave what is shown alone.
LEMMA NodeKeepsStore ==
    ASSUME StoreInv, Shape',
           \/ Node
           \/ Lose
           \/ \E b \in Batches : Gcoap(b) \/ RepeatAnswer(b)
    PROVE  StoreInv'
<1>1. UNCHANGED serverVars
  BY DEF Node, PostSent, PostUnsent, Lose, Gcoap, Retransmit, RespTimeout,
         RespHandler, RepeatAnswer
<1>2. \A b \in Batches : Whole(b)' = Whole(b)
  BY <1>1 DEF serverVars, Whole, Base
<1>3. WrittenLast'
  BY <1>1 DEF serverVars, StoreInv, WrittenLast, Base
<1>4. Transmitted'
  <2>1. CASE Node
    <3>1. PICK p \in Batches : p = posts + 1
      BY <2>1, BatchesAssumption DEF Node, PostSent, PostUnsent, StoreInv, Shape, Batches
    <3>2. PICK s \in {"waiting", "unsent"} :
             /\ posts' = p /\ outcome' = [outcome EXCEPT ![p] = s]
             /\ network' \subseteq network \union {Request(p)}
             /\ s = "unsent" => network' = network
      BY <2>1, <3>1 DEF Node, PostSent, PostUnsent
    <3>3. outcome[p] = "none" /\ serving # p /\ Request(p) \notin network
      BY <3>1 DEF StoreInv, Transmitted, Shape, Batches, NoBatch
    <3>4. outcome'[p] = s /\ \A b \in Batches : b # p => outcome'[b] = outcome[b]
      BY <3>2 DEF StoreInv, Shape
    <3>5. \A b \in Batches : outcome'[b] = "none" <=> b > posts'
      BY <3>1, <3>2, <3>4 DEF StoreInv, Transmitted, Shape, Batches
    <3>6. \A b \in Batches : Request(b) = Request(p) => b = p
      BY DEF Request
    <3>7. ASSUME NEW b \in Batches, Request(b) \in network'
          PROVE  outcome'[b] \notin {"none", "unsent"}
      BY <3>2, <3>3, <3>4, <3>6, <3>7 DEF StoreInv, Transmitted
    <3>8. serving' # NoBatch => outcome'[serving'] \notin {"none", "unsent"}
      BY <1>1, <3>3, <3>4 DEF serverVars, StoreInv, Transmitted, Shape
    <3> QED
      BY <3>5, <3>7, <3>8 DEF Transmitted
  <2>2. CASE \E b \in Batches : RespTimeout(b) \/ RespHandler(b)
    <3>1. PICK b \in Batches, s \in {"success", "error", "timeout"} :
             /\ outcome[b] = "waiting" /\ outcome' = [outcome EXCEPT ![b] = s]
             /\ UNCHANGED <<posts, network>>
      BY <2>2 DEF RespTimeout, RespHandler
    <3> QED
      BY <1>1, <3>1 DEF serverVars, StoreInv, Transmitted, Shape
  <2>3. CASE Lose \/ \E b \in Batches : Retransmit(b) \/ RepeatAnswer(b)
    <3>1. UNCHANGED <<posts, outcome>>
      BY <2>3 DEF Lose, Retransmit, RepeatAnswer, nodeVars
    <3>2. ASSUME NEW b \in Batches, Request(b) \in network'
          PROVE  outcome[b] \notin {"none", "unsent"}
      <4>1. \A c, a : Request(b) # Response(c, a)
        BY DEF Request, Response
      <4>2. \A c \in Batches : Request(b) = Request(c) => b = c
        BY DEF Request
      <4>3. Request(b) \in network \/ outcome[b] = "waiting"
        BY <2>3, <3>2, <4>1, <4>2 DEF Lose, Retransmit, RepeatAnswer
      <4> QED
        BY <4>3 DEF StoreInv, Transmitted
    <3> QED
      BY <1>1, <3>1, <3>2 DEF serverVars, StoreInv, Transmitted
  <2> QED
    BY <2>1, <2>2, <2>3 DEF Gcoap
<1>5. OkIsWhole'
  <2>1. \A b \in Batches : answered'[b] = "ok" => Whole(b)
    BY <1>1 DEF serverVars, StoreInv, OkIsWhole
  <2>2. ASSUME NEW b \in Batches, Response(b, "ok") \in network'
        PROVE  Whole(b)
    <3>1. Response(b, "ok") \in network \/ answered[b] = "ok"
      <4>1. CASE Node \/ Lose
        BY <2>2, <4>1, MessagesDiffer DEF Node, PostSent, PostUnsent, Lose
      <4>2. CASE \E c \in Batches : Gcoap(c)
        BY <2>2, <4>2, MessagesDiffer DEF Gcoap, Retransmit, RespTimeout, RespHandler
      <4>3. CASE \E c \in Batches : RepeatAnswer(c)
        <5>1. PICK c \in Batches : network' = network \union {Response(c, answered[c])}
          BY <4>3 DEF RepeatAnswer
        <5>2. CASE Response(b, "ok") = Response(c, answered[c])
          BY <5>2 DEF Response
        <5> QED
          BY <2>2, <5>1, <5>2
      <4> QED
        BY <4>1, <4>2, <4>3
    <3> QED
      BY <3>1 DEF StoreInv, OkIsWhole
  <2> QED
    BY <1>2, <2>1, <2>2 DEF OkIsWhole
<1> QED
  BY <1>3, <1>4, <1>5 DEF StoreInv

\* A handler begins where the database ends, and adds to its end.
LEMMA HandlerKeepsStore ==
    ASSUME StoreInv, Shape', (\E b \in Batches : RenderPost(b)) \/ WritePoint
    PROVE  StoreInv' /\ Settled' = Settled /\ outcome' = outcome
<1> DEFINE P == Batches \X (1..Points)
<1>1. database \in Seq(P) /\ database' \in Seq(P) /\ next \in Nat \ {0}
  BY DEF StoreInv, Shape
<1> HIDE DEF P
<1>2. PICK l \in Nat : l = Len(database)
  BY <1>1, LenProperties
<1>3. UNCHANGED <<posts, outcome, network, answered>>
  BY DEF RenderPost, WritePoint, nodeVars
<1>4. Base' = Base /\ serving' # NoBatch /\ Settled' = SubSeq(database', 1, Base')
      /\ (\A i \in 1..l : database'[i] = database[i]) /\ l <= Len(database')
      /\ WrittenLast' /\ outcome'[serving'] \notin {"none", "unsent"}
  <2>1. CASE \E b \in Batches : RenderPost(b)
    <3>1. PICK b \in Batches :
             /\ Request(b) \in network /\ serving = NoBatch /\ serving' = b /\ next' = 1
             /\ database' = database
      BY <2>1 DEF RenderPost
    <3>2. serving' # NoBatch
      BY <3>1 DEF Batches, NoBatch
    <3>3. Base = l /\ Base' = l /\ Settled' = SubSeq(database', 1, Base')
      BY <1>2, <3>1, <3>2 DEF Base, Settled
    <3>4. WrittenLast'
      BY <1>2, <3>1, PointsAssumption DEF WrittenLast
    <3>5. outcome'[serving'] \notin {"none", "unsent"}
      BY <1>3, <3>1 DEF StoreInv, Transmitted
    <3> QED
      BY <1>2, <3>1, <3>2, <3>3, <3>4, <3>5
  <2>2. CASE WritePoint
    <3>1. /\ serving # NoBatch /\ next <= Points /\ next' = next + 1 /\ serving' = serving
          /\ database' = Append(database, <<serving, next>>)
      BY <2>2 DEF WritePoint
    <3>2. PICK e \in P : e = <<serving, next>>
      BY <1>1, <3>1, PointsAssumption DEF P, StoreInv, Shape
    <3>3. /\ Len(database') = l + 1 /\ database'[l + 1] = e
          /\ \A i \in 1..l : database'[i] = database[i]
      BY <1>1, <1>2, <3>1, <3>2, AppendProperties
    <3>4. serving' # NoBatch /\ next' = next + 1 /\ serving' = serving
      BY <3>1
    <3>5. Base = l - (next - 1)
      BY <1>2, <3>1 DEF Base
    <3>6. Base' = Len(database') - (next' - 1)
      BY <3>4 DEF Base
    <3>7. Settled' = SubSeq(database', 1, Base')
      BY <3>4, <3>6 DEF Settled
    <3>8. Base' = Base
      <4>1. Len(database') = l + 1
        BY <3>3
      <4>2. Base' = (l + 1) - ((next + 1) - 1)
        BY <3>4, <3>6, <4>1
      <4> QED
        BY <1>1, <3>5, <4>2
    <3>9. /\ next - 1 <= l
          /\ \A n \in 1..(next - 1) : database[Base + n] = <<serving, n>>
      BY <1>2, <3>1 DEF StoreInv, WrittenLast
    <3>10. ASSUME NEW n \in 1..next PROVE database'[Base + n] = <<serving, n>>
      <4>1. CASE n = next
        <5>1. Base + n = l + 1
          BY <1>1, <3>5, <4>1
        <5> QED
          BY <3>2, <3>3, <4>1, <5>1
      <4>2. CASE n # next
        <5>1. PICK i \in 1..l : i = Base + n
          <6>1. l - (next - 1) + n \in 1..l
            BY <1>1, <3>9, <4>2
          <6> QED
            BY <3>5, <6>1
        <5>2. n \in 1..(next - 1)
          BY <1>1, <4>2
        <5> QED
          BY <3>3, <3>9, <5>1, <5>2
      <4> QED
        BY <4>1, <4>2
    <3>11. WrittenLast'
      <4>1. next' <= Points + 1 /\ next' - 1 <= l + 1 /\ next' - 1 = next
        BY <1>1, <1>2, <3>1, <3>9, PointsAssumption
      <4>2. Len(database') = l + 1
        BY <3>3
      <4> QED
        BY <3>4, <3>8, <3>10, <4>1, <4>2 DEF WrittenLast
    <3>12. outcome'[serving'] \notin {"none", "unsent"}
      BY <1>3, <3>4 DEF StoreInv, Transmitted
    <3> QED
      BY <1>2, <3>4, <3>7, <3>3, <3>8, <3>11, <3>12
  <2> QED
    BY <2>1, <2>2
<1>5. Base \in Nat /\ Base \in 0..l /\ Settled = SubSeq(database, 1, Base)
  BY <1>2, SettledProperties DEF StoreInv
<1>6. Settled' = Settled
  <2>1. PICK k \in 0..l : k = Base
    BY <1>5
  <2>2. PICK m \in Nat : m = Len(database')
    BY <1>1, LenProperties
  <2>3. k \in 0..Len(database) /\ k \in 0..Len(database') /\ \A i \in 1..k : i \in 1..l
    BY <1>2, <1>4, <2>2
  <2>4. \A i \in 1..k : database[i] = database'[i]
    BY <1>4, <2>3
  <2>5. SubSeq(database, 1, k) = SubSeq(database', 1, k)
    BY <1>1, <2>3, <2>4, SamePrefix, Zenon
  <2> QED
    BY <1>4, <1>5, <2>1, <2>5
<1>7. Transmitted'
  BY <1>3, <1>4 DEF StoreInv, Transmitted
<1>8. OkIsWhole'
  <2>1. \A i \in 1..Base : database'[i] = database[i]
    BY <1>4, <1>5
  <2>2. \A b \in Batches : Whole(b) => Whole(b)'
    BY <1>4, <1>5, <2>1, WholeStays
  <2> QED
    BY <1>3, <2>2 DEF StoreInv, OkIsWhole
<1> QED
  BY <1>3, <1>4, <1>6, <1>7, <1>8 DEF StoreInv

\* The step that shows what the handler has written: nothing, or the first
\* points of its batch.
LEMMA ShownAtOnce ==
    ASSUME StoreInv, serving # NoBatch, serving' = NoBatch, UNCHANGED <<database, outcome>>
    PROVE  [Promise!Next]_<<Settled, outcome>>
<1>1. /\ serving \in Promise!Batches /\ serving \in Batches /\ next \in Nat \ {0}
      /\ database \in Seq(Batches \X (1..Points))
  BY DEF StoreInv, Shape, Batches, Promise!Batches, NoBatch
<1>2. Settled' = database /\ outcome' = outcome
  BY DEF Settled
<1>3. PICK l \in Nat : l = Len(database)
  BY <1>1, LenProperties
<1>4. PICK k \in Nat : k = next - 1
  BY <1>1
<1>5. /\ k <= Points /\ k <= l /\ Base = l - k
      /\ \A n \in 1..k : database[l - k + n] = <<serving, n>>
  <2>1. next <= Points + 1 /\ next - 1 <= l /\ Base = l - (next - 1)
    BY <1>3 DEF StoreInv, WrittenLast, Base
  <2>2. \A n \in 1..k : database[Base + n] = <<serving, n>>
    BY <1>4 DEF StoreInv, WrittenLast
  <2>3. k <= Points /\ k <= l /\ Base = l - k
    BY <1>1, <1>4, <2>1, PointsAssumption
  <2> QED
    BY <2>2, <2>3
<1>6. Settled = SubSeq(database, 1, l - k)
  BY <1>5, SettledProperties DEF StoreInv
<1>7. CASE k = 0
  <2>1. SubSeq(database, 1, Len(database)) = database
    BY <1>1, WholePrefix, Zenon
  <2>2. l - k = l
    BY <1>7
  <2>3. Settled = database
    BY <1>3, <1>6, <2>1, <2>2
  <2> QED
    BY <1>2, <2>3
<1>8. CASE k # 0
  <2>1. k \in 1..Points
    BY <1>5, <1>8, PointsAssumption
  <2>2. k <= Len(database) /\ \A n \in 1..k : database[Len(database) - k + n] = <<serving, n>>
    BY <1>3, <1>5
  <2>3. database = SubSeq(database, 1, Len(database) - k) \o Promise!FirstPoints(serving, k)
    BY <1>1, <2>1, <2>2, PrefixAndPoints, Zenon
  <2>4. Settled' = Settled \o Promise!FirstPoints(serving, k)
    BY <1>2, <1>3, <1>6, <2>3
  <2>5. outcome[serving] \notin {"none", "unsent"}
    BY DEF StoreInv, Transmitted
  <2>6. Promise!Execute(serving)
    BY <1>2, <2>1, <2>4, <2>5 DEF Promise!Execute
  <2> QED
    BY <1>1, <2>6 DEF Promise!Next
<1> QED
  BY <1>7, <1>8

\* Where a handler ends, more is shown, and "ok" is said of what is.
LEMMA EndKeepsStore ==
    ASSUME StoreInv, Shape', WriteFails \/ Finish \/ Restart
    PROVE  StoreInv' /\ [Promise!Next]_<<Settled, outcome>>
<1>1. serving' = NoBatch /\ UNCHANGED <<posts, outcome, database>>
  BY DEF WriteFails, Finish, Restart, nodeVars
<1>2. Base \in Nat /\ Base \in 0..Len(database) /\ Len(database) \in Nat
  <2>1. Len(database) \in Nat
    BY LenProperties DEF StoreInv, Shape
  <2> QED
    BY <2>1, SettledProperties DEF StoreInv
<1>3. Base' = Len(database) /\ WrittenLast'
  BY <1>1 DEF Base, WrittenLast
<1>4. \A b \in Batches : Whole(b) => Whole(b)'
  BY <1>1, <1>2, <1>3, WholeStays
<1>5. Transmitted'
  <2>1. \A b \in Batches : Request(b) \in network' => Request(b) \in network
    <3>1. \A b, c, a : Request(b) # Response(c, a)
      BY DEF Request, Response
    <3> QED
      BY <3>1 DEF WriteFails, Finish, Restart
  <2> QED
    BY <1>1, <2>1 DEF StoreInv, Transmitted
<1>6. OkIsWhole'
  <2>1. CASE WriteFails
    <3>1. \A b \in Batches :
             /\ answered'[b] = "ok" => answered[b] = "ok"
             /\ Response(b, "ok") \in network' => Response(b, "ok") \in network
      BY <2>1, MessagesDiffer DEF WriteFails, StoreInv, Shape
    <3> QED
      BY <1>4, <3>1 DEF StoreInv, OkIsWhole
  <2>2. CASE Finish
    <3>1. PICK s \in Batches :
             /\ s = serving /\ serving # NoBatch /\ next > Points
             /\ answered' = [answered EXCEPT ![s] = "ok"]
             /\ network' = network \union {Response(s, "ok")}
      BY <2>2 DEF Finish, StoreInv, Shape
    <3>2. \A b \in Batches : Response(b, "ok") = Response(s, "ok") => b = s
      BY DEF Response
    <3>3. \A b \in Batches :
             /\ answered'[b] = "ok" => answered[b] = "ok" \/ b = s
             /\ Response(b, "ok") \in network' => Response(b, "ok") \in network \/ b = s
      BY <3>1, <3>2 DEF StoreInv, Shape
    <3>4. Whole(s)'
      <4>1. PICK m \in Nat, l \in Nat : m = Points /\ l = Len(database)
        BY <1>2, PointsAssumption
      <4>2. next <= m + 1 /\ next - 1 <= l /\ next > m /\ next \in Nat
        BY <3>1, <4>1 DEF StoreInv, WrittenLast, Shape
      <4>3. next - 1 = m /\ m <= l /\ Base = l - m
        <5>1. next - 1 = m /\ m <= l
          BY <4>2
        <5> QED
          BY <3>1, <4>1, <5>1 DEF Base
      <4>4. \A n \in 1..m : database[Base + n] = <<s, n>>
        BY <3>1, <4>3 DEF StoreInv, WrittenLast
      <4>5. Base \in 0..(l - m) /\ Base' = l
        BY <1>3, <4>1, <4>3
      <4>6. \E i \in 0..(l - m) : \A n \in 1..m : database'[i + n] = <<s, n>>
        BY <1>1, <4>4, <4>5
      <4> QED
        BY <4>1, <4>5, <4>6 DEF Whole
    <3> QED
      BY <1>4, <3>3, <3>4 DEF StoreInv, OkIsWhole
  <2>3. CASE Restart
    BY <1>4, <2>3 DEF Restart, StoreInv, OkIsWhole
  <2> QED
    BY <2>1, <2>2, <2>3
<1>7. [Promise!Next]_<<Settled, outcome>>
  <2>1. CASE serving = NoBatch
    BY <1>1, <2>1 DEF Settled
  <2>2. CASE serving # NoBatch
    BY <1>1, <2>2, ShownAtOnce
  <2> QED
    BY <2>1, <2>2
<1> QED
  BY <1>3, <1>5, <1>6, <1>7 DEF StoreInv

\* The node's steps are those of the promise: "success" is learned of a batch
\* that is shown whole.
LEMMA NodeRefines ==
    ASSUME StoreInv,
           \/ Node
           \/ Lose
           \/ \E b \in Batches : Gcoap(b) \/ RepeatAnswer(b)
    PROVE  [Promise!Next]_<<Settled, outcome>>
<1>1. Settled' = Settled
  <2>1. UNCHANGED serverVars
    BY DEF Node, PostSent, PostUnsent, Lose, Gcoap, Retransmit, RespTimeout,
           RespHandler, RepeatAnswer
  <2> QED
    BY <2>1 DEF serverVars, Settled
<1>2. CASE Node
  <2>1. PICK p \in Batches : p = posts + 1
    BY <1>2, BatchesAssumption DEF Node, PostSent, PostUnsent, StoreInv, Shape, Batches
  <2>2. PICK s \in {"waiting", "unsent"} : outcome' = [outcome EXCEPT ![p] = s]
    BY <1>2, <2>1 DEF Node, PostSent, PostUnsent
  <2>3. outcome[p] = "none" /\ p \in Promise!Batches
    BY <2>1 DEF StoreInv, Transmitted, Shape, Batches, Promise!Batches
  <2>4. \A e \in 1..(p - 1) : e \in Batches /\ ~(e > posts)
    BY <2>1, BatchesAssumption DEF StoreInv, Shape, Batches
  <2>5. \A e \in 1..(p - 1) : outcome[e] # "none"
    BY <2>4 DEF StoreInv, Transmitted
  <2>6. Promise!Post(p)
    BY <1>1, <2>2, <2>3, <2>5 DEF Promise!Post
  <2> QED
    BY <2>3, <2>6 DEF Promise!Next
<1>3. ASSUME NEW b \in Batches, RespTimeout(b)
      PROVE  [Promise!Next]_<<Settled, outcome>>
  <2>1. Promise!GiveUp(b)
    BY <1>1, <1>3 DEF RespTimeout, Promise!GiveUp
  <2> QED
    BY <2>1 DEF Promise!Next, Promise!Batches, Batches
<1>4. ASSUME NEW b \in Batches, RespHandler(b)
      PROVE  [Promise!Next]_<<Settled, outcome>>
  <2>1. PICK a \in {"ok", "error"} :
           /\ Response(b, a) \in network /\ outcome[b] = "waiting"
           /\ outcome' = [outcome EXCEPT ![b] = IF a = "ok" THEN "success" ELSE "error"]
    BY <1>4 DEF RespHandler
  <2>2. CASE a = "ok"
    <3>1. PICK m \in Nat : m = Points
      BY PointsAssumption
    <3>2. PICK i \in 0..(Base - m) : \A n \in 1..m : database[i + n] = <<b, n>>
      BY <2>1, <2>2, <3>1 DEF StoreInv, OkIsWhole, Whole
    <3>3. /\ Base \in Nat /\ Len(Settled) = Base
          /\ \A j \in 1..Base : Settled[j] = database[j]
      BY SettledProperties DEF StoreInv
    <3>4. ASSUME NEW n \in 1..m PROVE Settled[i + n] = <<b, n>>
      <4>1. PICK j \in 1..Base : j = i + n
        BY <3>1, <3>2, <3>3
      <4> QED
        BY <3>2, <3>3, <4>1
    <3>5. Promise!AddedWhole(b)
      BY <3>1, <3>2, <3>3, <3>4 DEF Promise!AddedWhole
    <3>6. Promise!Succeed(b)
      BY <1>1, <2>1, <2>2, <3>5 DEF Promise!Succeed
    <3> QED
      BY <3>6 DEF Promise!Next, Promise!Batches, Batches
  <2>3. CASE a = "error"
    <3>1. Promise!GiveUp(b)
      BY <1>1, <2>1, <2>3 DEF Promise!GiveUp
    <3> QED
      BY <3>1 DEF Promise!Next, Promise!Batches, Batches
  <2> QED
    BY <2>2, <2>3
<1>5. CASE Lose \/ \E b \in Batches : Retransmit(b) \/ RepeatAnswer(b)
  <2>1. outcome' = outcome
    BY <1>5 DEF Lose, Retransmit, RepeatAnswer, nodeVars
  <2> QED
    BY <1>1, <2>1
<1> QED
  BY <1>2, <1>3, <1>4, <1>5 DEF Gcoap

\* Every step is one of these.
LEMMA StoreStep ==
    ASSUME StoreInv, Shape', [Next]_vars
    PROVE  StoreInv' /\ [Promise!Next]_<<Settled, outcome>>
<1>1. CASE Node \/ Lose \/ \E b \in Batches : Gcoap(b) \/ RepeatAnswer(b)
  BY <1>1, NodeKeepsStore, NodeRefines
<1>2. CASE (\E b \in Batches : RenderPost(b)) \/ WritePoint
  <2>1. StoreInv' /\ Settled' = Settled /\ outcome' = outcome
    BY <1>2, HandlerKeepsStore
  <2> QED
    BY <2>1
<1>3. CASE WriteFails \/ Finish \/ Restart
  BY <1>3, EndKeepsStore
<1>4. CASE UNCHANGED vars
  <2>1. UNCHANGED <<posts, outcome, network, serving, next, answered, database>>
    BY <1>4 DEF vars, nodeVars, serverVars
  <2>2. Settled' = Settled /\ Base' = Base
    BY <2>1 DEF Settled, Base
  <2>3. StoreInv'
    BY <2>1, <2>2 DEF StoreInv, Transmitted, WrittenLast, OkIsWhole, Whole
  <2> QED
    BY <2>1, <2>2, <2>3
<1> QED
  BY <1>1, <1>2, <1>3, <1>4 DEF Next, Aiocoap, Handler

\* Nothing is posted, and nothing is shown, at the start.
LEMMA StoreInit == Init => StoreInv /\ Promise!Init
<1> SUFFICES ASSUME Init PROVE StoreInv /\ Promise!Init
  OBVIOUS
<1>1. Shape
  BY InitIndInv DEF IndInv
<1>2. Transmitted
  BY DEF Init, Transmitted, Batches
<1>3. WrittenLast /\ OkIsWhole
  BY DEF Init, WrittenLast, OkIsWhole
<1>4. Promise!Init
  BY DEF Init, Promise!Init, Settled, Batches, Promise!Batches
<1> QED
  BY <1>1, <1>2, <1>3, <1>4 DEF StoreInv

\* The upload implements BatchStore: seen from outside, every execution of
\* render_post() is atomic, and success is reported only of a batch that was
\* added whole, whatever the network, the restarts and the failed writes.
THEOREM StoreRefinement == Spec => ImplementsStore
<1>1. IndInv => Shape
  BY DEF IndInv
<1> QED
  BY <1>1, InitIndInv, NextIndInv, StoreInit, StoreStep, PTL DEF Spec, ImplementsStore, Promise!Spec


-----------------------------------------------------------------------------
(* The kinds of all variables.                                             *)

\* Nothing is done at the start.
LEMMA TypesInit == Init => TypeOK
<1> SUFFICES ASSUME Init
             PROVE  TypeOK
  OBVIOUS
<1>1. /\ 0 \in 0..MaxBatches /\ 0 \in 0..MaxRetransmit /\ 0 \in 0..MaxRestarts
      /\ 1 \in 1..(Points + 1) /\ 0 \in 0..(2^16 - 1)
  BY BatchesAssumption, RetransmitAssumption, RestartsAssumption, PointsAssumption
<1>2. << >> \in Seq(Batches \X (1..Points))
  BY EmptySeq
<1> QED
  BY <1>1, <1>2 DEF Init, TypeOK, Outcomes, Answers

\* The node posts, sends again, and learns outcomes.
LEMMA NodeTypes ==
    ASSUME TypeOK, Node \/ \E b \in Batches : Gcoap(b)
    PROVE  TypeOK'
<1>1. UNCHANGED serverVars
  BY DEF Node, PostSent, PostUnsent, Gcoap, Retransmit, RespTimeout, RespHandler
<1>2. \A b \in Batches : Request(b) \in Messages
  BY DEF Messages, Request
<1>3. ASSUME NEW value \in Outcomes, NEW b, outcome' = [outcome EXCEPT ![b] = value]
      PROVE  outcome' \in [Batches -> Outcomes]
  BY <1>3 DEF TypeOK
<1>4. {"none", "unsent", "waiting", "success", "error", "timeout"} \subseteq Outcomes
  BY DEF Outcomes
<1>5. posts' \in 0..MaxBatches
  BY BatchesAssumption
  DEF Node, PostSent, PostUnsent, Gcoap, Retransmit, RespTimeout, RespHandler, TypeOK
<1>6. outcome' \in [Batches -> Outcomes]
  BY <1>3, <1>4
  DEF Node, PostSent, PostUnsent, Gcoap, Retransmit, RespTimeout, RespHandler, TypeOK
<1>7. retries' \in [Batches -> 0..MaxRetransmit]
  BY RetransmitAssumption
  DEF Node, PostSent, PostUnsent, Gcoap, Retransmit, RespTimeout, RespHandler, TypeOK
<1>8. reqCount' \in 0..(2^16 - 1)
  <2>1. PICK w \in Nat \ {0} : w = 2^16
    <3>1. 2^16 = 65536
      OBVIOUS
    <3> QED
      BY <3>1
  <2>2. ASSUME NEW k \in Int
        PROVE  k % w \in 0..(w - 1)
    BY Z3
  <2>3. reqCount' = reqCount \/ reqCount' = (reqCount + 1) % 2^16
    BY DEF Node, PostSent, PostUnsent, Gcoap, Retransmit, RespTimeout, RespHandler
  <2>4. PICK k \in Int : k = reqCount + 1
    BY <2>1 DEF TypeOK
  <2>5. k % w \in 0..(w - 1)
    BY <2>2
  <2> QED
    BY <2>1, <2>3, <2>4, <2>5 DEF TypeOK
<1>9. network' \subseteq Messages
  <2>1. network \subseteq Messages
    BY DEF TypeOK
  <2>2. PostSent => posts' \in Batches
    BY BatchesAssumption DEF PostSent, TypeOK, Batches
  <2> QED
    BY <1>2, <2>1, <2>2
    DEF Node, PostSent, PostUnsent, Gcoap, Retransmit, RespTimeout, RespHandler
<1> QED
  BY <1>1, <1>5, <1>6, <1>7, <1>8, <1>9 DEF TypeOK, serverVars

\* The server serves what was requested, writes points and answers.
LEMMA ServerTypes ==
    ASSUME TypeOK, Shape', Handler \/ Restart \/ \E b \in Batches : Aiocoap(b)
    PROVE  TypeOK'
<1>1. UNCHANGED nodeVars
  BY DEF Handler, WritePoint, WriteFails, Finish, Restart, Aiocoap, RenderPost, RepeatAnswer
<1>2. serving' \in Batches \union {NoBatch} /\ database' \in Seq(Batches \X (1..Points))
  BY DEF Shape
<1>3. next' \in 1..(Points + 1)
  <2>1. 1 \in 1..(Points + 1) /\ \A k \in 1..(Points + 1) : k <= Points => k + 1 \in 1..(Points + 1)
    BY PointsAssumption
  <2>2. next' \in {1, next} \/ (next <= Points /\ next' = next + 1)
    BY DEF Handler, WritePoint, WriteFails, Finish, Restart, Aiocoap, RenderPost, RepeatAnswer,
           serverVars
  <2> QED
    BY <2>1, <2>2 DEF TypeOK
<1>4. answered' \in [Batches -> Answers]
  <2>1. {"none", "ok", "error"} \subseteq Answers
    BY DEF Answers
  <2>2. CASE WriteFails
    <3>1. answered' = [answered EXCEPT ![serving] = "error"]
      BY <2>2 DEF WriteFails
    <3> QED
      BY <2>1, <3>1 DEF TypeOK
  <2>3. CASE Finish
    <3>1. answered' = [answered EXCEPT ![serving] = "ok"]
      BY <2>3 DEF Finish
    <3> QED
      BY <2>1, <3>1 DEF TypeOK
  <2>4. CASE Restart
    BY <2>1, <2>4 DEF Restart
  <2>5. CASE WritePoint \/ \E b \in Batches : Aiocoap(b)
    BY <2>5 DEF TypeOK, WritePoint, Aiocoap, RenderPost, RepeatAnswer, serverVars
  <2> QED
    BY <2>2, <2>3, <2>4, <2>5 DEF Handler
<1>5. restarts' \in 0..MaxRestarts
  <2>1. restarts' = restarts \/ (restarts < MaxRestarts /\ restarts' = restarts + 1)
    BY DEF Handler, WritePoint, WriteFails, Finish, Restart, Aiocoap, RenderPost, RepeatAnswer,
           serverVars
  <2> QED
    BY <2>1, RestartsAssumption DEF TypeOK
<1>6. network' \subseteq Messages
  <2>1. network \subseteq Messages
    BY DEF TypeOK
  <2>2. \A b \in Batches, a \in {"ok", "error"} : Response(b, a) \in Messages
    BY DEF Messages, Response
  <2>3. serving # NoBatch => serving \in Batches
    BY DEF TypeOK
  <2>4. \A b \in Batches : answered[b] # "none" => answered[b] \in {"ok", "error"}
    BY DEF TypeOK, Answers
  <2> QED
    BY <2>1, <2>2, <2>3, <2>4
    DEF Handler, WritePoint, WriteFails, Finish, Restart, Aiocoap, RenderPost, RepeatAnswer
<1> QED
  BY <1>1, <1>2, <1>3, <1>4, <1>5, <1>6 DEF TypeOK, nodeVars

\* Every variable is of its kind, and the handler never writes past the last
\* point: for every number of batches, points, retransmissions and restarts.
THEOREM TypesHold == Spec => []TypeOK
<1>1. IndInv /\ TypeOK /\ [Next]_vars => TypeOK'
  <2> SUFFICES ASSUME IndInv, TypeOK, [Next]_vars
               PROVE  TypeOK'
    OBVIOUS
  <2>1. Shape'
    BY NextIndInv DEF IndInv
  <2>2. CASE Node \/ \E b \in Batches : Gcoap(b)
    BY <2>2, NodeTypes
  <2>3. CASE Handler \/ Restart \/ \E b \in Batches : Aiocoap(b)
    BY <2>1, <2>3, ServerTypes
  <2>4. CASE Lose
    BY <2>4 DEF Lose, TypeOK, nodeVars, serverVars
  <2>5. CASE UNCHANGED vars
    BY <2>5 DEF vars, TypeOK, nodeVars, serverVars
  <2> QED
    BY <2>2, <2>3, <2>4, <2>5 DEF Next
<1> QED
  BY <1>1, InitIndInv, NextIndInv, TypesInit, PTL DEF Spec

=============================================================================
