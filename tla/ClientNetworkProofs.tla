-------------------------- MODULE ClientNetworkProofs --------------------------
(***************************************************************************)
(* Proofs about the client, for any numbers of messages and packets, and   *)
(* whether TCP cuts packets or not: the inductive invariant ObjectInv of   *)
(* the threads and the objects they share, then StreamInv, of what is read *)
(* and displayed, and the properties that follow from them.                *)
(***************************************************************************)
EXTENDS ClientNetwork, SequenceTheorems, FiniteSetTheorems, TLAPS

LEMMA InitObjectInv == Init => ObjectInv
  BY DEF Init, ObjectInv, ThreadTypes, Objects, Owner, Causes, Ends, FaultNeedsCause, Alive,
         Looping, Exiting, UpdOver, Unasked, Leaving, Live, Gone

(* The end of the process changes nothing that the threads share.          *)
LEMMA EndStep ==
  ASSUME ObjectInv, Alive, NEW how \in {"exit", "input", "crash", "assert"}, End(how),
         how = "crash" => srv = "closed" \/ quit \/ misread,
         how = "assert" => srv = "closed"
  PROVE  ObjectInv'
  <1> USE DEF ObjectInv, End, netVars, ownVars, updVars, objVars, Alive
  <1>1. ThreadTypes'
    BY DEF ThreadTypes
  <1>2. Objects' /\ Owner' /\ Causes'
    BY DEF Objects, Owner, Causes, Unasked, Live, Gone
  <1>3. Ends' /\ FaultNeedsCause'
    BY DEF Ends, FaultNeedsCause, ThreadTypes
  <1> QED
    BY <1>1, <1>2, <1>3

(* Every step of the server.                                               *)
LEMMA ServerObjects == ASSUME ObjectInv, Server PROVE ObjectInv'
  <1> USE DEF ObjectInv, ownVars, updVars, objVars
  <1>1. UNCHANGED <<cli, ownVars, updVars, objVars, ended>> /\ Alive
    BY DEF Server, ServerVerdict, ServerEcho, ServerHangsUp, Link!Accept, Link!Kick,
           Link!Echo, Link!HangUp
  <1>2. /\ srv = "open" /\ srv' \in {"open", "closed"}
        /\ rst' \in BOOLEAN
        /\ rst' => rst \/ srv' = "closed"
    BY DEF Server, ServerVerdict, ServerEcho, ServerHangsUp, Link!Accept, Link!Kick,
           Link!Echo, Link!HangUp, ThreadTypes
  <1>3. ThreadTypes'
    BY <1>1, <1>2 DEF ThreadTypes
  <1>4. Objects' /\ Owner'
    BY <1>1 DEF Objects, Owner, Live, Gone
  <1>5. Causes'
    BY <1>1, <1>2 DEF Causes, Unasked
  <1>6. Ends' /\ FaultNeedsCause'
    BY <1>1, <1>2 DEF Ends, FaultNeedsCause, Alive
  <1> QED
    BY <1>3, <1>4, <1>5, <1>6

(* The owner, until the menu.                                              *)
LEMMA StartObjects ==
  ASSUME ObjectInv, Alive,
         ConnectFails \/ Connect \/ VerdictAccept \/ VerdictLate \/ VerdictDenied \/ Run
  PROVE  ObjectInv'
  <1> USE DEF ObjectInv, ThreadTypes, Objects, Owner, Causes, Ends, FaultNeedsCause, Alive,
              Looping, Exiting, UpdOver, Unasked, Leaving, Live, Gone,
              netVars, ownVars, updVars, objVars
  <1>1. CASE ConnectFails
    BY <1>1 DEF ConnectFails
  <1>2. CASE Connect
    BY <1>2 DEF Connect, Link!Connect
  <1>3. CASE VerdictAccept
    BY <1>3 DEF VerdictAccept, Leave
  <1>4. CASE VerdictLate
    BY <1>4 DEF VerdictLate, Leave
  <1>5. CASE VerdictDenied
    BY <1>5 DEF VerdictDenied
  <1>6. CASE Run
    BY <1>6 DEF Run
  <1> QED
    BY <1>1, <1>2, <1>3, <1>4, <1>5, <1>6
(* The menu and ListenAction.                                              *)
LEMMA MenuObjects ==
  ASSUME ObjectInv, Alive,
         Menu \/ GetSocket \/ GetSocketNull \/ Send \/ SendThrows \/ SendOnDeleted
  PROVE  ObjectInv'
  <1> USE DEF ObjectInv, ThreadTypes, Objects, Owner, Causes, Ends, FaultNeedsCause, Alive,
              Looping, Exiting, UpdOver, Unasked, Leaving, Live, Gone,
              netVars, ownVars, updVars, objVars, OwnGoes
  <1>0. ThreadTypes
    OBVIOUS
  <1>1. CASE ChooseMessage
    BY <1>1 DEF ChooseMessage
  <1>2. CASE ChooseQuit
    BY <1>2 DEF ChooseQuit
  <1>3. CASE InputFails
    BY <1>3, EndStep DEF InputFails
  <1>4. CASE GetSocket
    BY <1>4 DEF GetSocket
  <1>5. CASE GetSocketNull
    <2>1. srv = "closed" \/ quit \/ misread
      BY <1>5 DEF GetSocketNull
    <2> QED
      BY <1>5, <2>1, EndStep DEF GetSocketNull
  <1>6. CASE Send
    <2>0. rst' \in BOOLEAN
      BY ONLY <1>0, <1>6 DEF ThreadTypes, Send
    <2>1. ThreadTypes'
      BY ONLY <1>0, <2>0, <1>6 DEF ThreadTypes, Looping, Exiting, UpdOver, Send, Link!Send, netVars, ownVars,
               updVars, objVars
    <2>2. Objects'
      BY <1>6 DEF Send, Link!Send
    <2>3. Owner'
      BY <1>6 DEF Send, Link!Send
    <2>4. Causes'
      BY <1>6 DEF Send, Link!Send
    <2>5. Ends' /\ FaultNeedsCause'
      BY <1>6 DEF Send, Link!Send
    <2> QED
      BY <2>1, <2>2, <2>3, <2>4, <2>5
  <1>7. CASE SendThrows
    BY <1>7 DEF SendThrows
  <1>8. CASE SendOnDeleted
    <2>1. srv = "closed" \/ quit \/ misread
      BY <1>8 DEF SendOnDeleted
    <2> QED
      BY <1>8, <2>1, EndStep DEF SendOnDeleted
  <1> QED
    BY <1>1, <1>2, <1>3, <1>4, <1>5, <1>6, <1>7, <1>8 DEF Menu

(* Disconnect, Close and the destructor.                                   *)
LEMMA CloseObjects ==
  ASSUME ObjectInv, Alive,
         \/ Disconnect \/ Close \/ CloseThread \/ CloseWithoutThread \/ Request \/ Join
         \/ JoinNull \/ JoinThrows \/ JoinReturns \/ JoinOnDeleted \/ Delete \/ ExitProcess
  PROVE  ObjectInv'
  <1> USE DEF ObjectInv, ThreadTypes, Objects, Owner, Causes, Ends, FaultNeedsCause, Alive,
              Looping, Exiting, UpdOver, Unasked, Leaving, Live, Gone,
              netVars, ownVars, updVars, objVars, OwnGoes
  <1>0. ThreadTypes
    OBVIOUS
  <1>1. CASE Disconnect
    BY <1>1 DEF Disconnect
  <1>2. CASE Close
    BY <1>2 DEF Close
  <1>3. CASE CloseThread
    BY <1>3 DEF CloseThread
  <1>4. CASE CloseWithoutThread
    <2>1. srv = "closed"
      BY <1>4 DEF CloseWithoutThread
    <2> QED
      BY <1>4, <2>1, EndStep DEF CloseWithoutThread
  <1>5. CASE Request
    BY <1>5 DEF Request
  <1>6. CASE Join
    <2>1. CASE OwnGoes("waiting")
      BY <1>6, <2>1 DEF Join
    <2>2. CASE thr = "deleted" /\ OwnGoes("delete")
      BY <1>6, <2>2 DEF Join
    <2> QED
      BY ONLY <1>6, <2>1, <2>2 DEF Join
  <1>7. CASE JoinReturns
    BY <1>7 DEF JoinReturns
  <1>8. CASE JoinThrows /\ ~byMain
    BY <1>8 DEF JoinThrows
  <1>9. CASE JoinNull \/ JoinOnDeleted \/ (JoinThrows /\ byMain)
    <2>1. End("crash")
      BY <1>9 DEF JoinNull, JoinOnDeleted, JoinThrows
    <2>2. own \in {"join", "waiting"}
      BY <1>9 DEF JoinNull, JoinOnDeleted, JoinThrows
    <2>3. srv = "closed" \/ quit \/ misread
      BY <2>2
    <2> QED
      BY <2>1, <2>3, EndStep
  <1>10. CASE Delete
    BY <1>10 DEF Delete
  <1>11. CASE ExitProcess
    BY <1>11, EndStep DEF ExitProcess
  <1> QED
    BY <1>1, <1>2, <1>3, <1>4, <1>5, <1>6, <1>7, <1>8, <1>9, <1>10, <1>11

(* The loop of OnUpdate.                                                   *)
LEMMA LoopObjects ==
  ASSUME ObjectInv, Alive,
         \/ PollReadable \/ CloseSeen \/ ReceiveType \/ ReceiveEnd \/ ReceiveBody
         \/ HandleMessage \/ HandleOther \/ HandleMisread \/ Garbled
         \/ ReceiveThrows \/ PollOnDeleted \/ UseAfterFree
  PROVE  ObjectInv'
  <1> USE DEF ObjectInv, ThreadTypes, Objects, Owner, Causes, Ends, FaultNeedsCause, Alive,
              Looping, Exiting, UpdOver, Unasked, Leaving, Live, Gone,
              netVars, ownVars, updVars, objVars, UpdGoes
  <1>1. CASE PollReadable
    BY <1>1 DEF PollReadable
  <1>2. CASE CloseSeen
    BY <1>2 DEF CloseSeen
  <1>3. CASE ReceiveType
    <2>1. UNCHANGED <<srv, cli, rst>> /\ misread' \in BOOLEAN /\ (misread => misread')
      BY <1>3 DEF ReceiveType, Leave, Aligned
    <2> QED
      BY <1>3, <2>1 DEF ReceiveType
  <1>4. CASE ReceiveEnd
    BY <1>4 DEF ReceiveEnd, AtEnd
  <1>5. CASE ReceiveBody
    <2>1. UNCHANGED <<srv, cli, rst>>
      BY <1>5 DEF ReceiveBody, Leave
    <2> QED
      BY <1>5, <2>1 DEF ReceiveBody
  <1>6. CASE HandleMessage
    BY <1>6 DEF HandleMessage
  <1>7. CASE HandleOther
    BY <1>7 DEF HandleOther
  <1>8. CASE HandleMisread
    BY <1>8 DEF HandleMisread
  <1>9. CASE Garbled /\ ~End("crash")
    <2>1. upd = "garbled"
      BY <1>9 DEF Garbled
    <2>2. CASE UpdGoes("poll")
      BY <2>1, <2>2
    <2>3. CASE UpdGoes("dead")
      BY <2>1, <2>3
    <2> QED
      BY ONLY <1>9, <2>2, <2>3 DEF Garbled
  <1>10. CASE ReceiveThrows
    BY <1>10 DEF ReceiveThrows
  <1>11. CASE PollOnDeleted /\ ~End("crash")
    BY <1>11 DEF PollOnDeleted
  <1>12. CASE End("crash") /\ (Garbled \/ PollOnDeleted \/ UseAfterFree)
    <2>1. srv = "closed" \/ quit \/ misread
      BY <1>12 DEF Garbled, PollOnDeleted, UseAfterFree
    <2> QED
      BY <1>12, <2>1, EndStep
  <1> QED
    BY <1>1, <1>2, <1>3, <1>4, <1>5, <1>6, <1>7, <1>8, <1>9, <1>10, <1>11, <1>12
       DEF UseAfterFree

(* CNetwork::Exit in the update thread.                                    *)
LEMMA ExitObjects ==
  ASSUME ObjectInv, Alive,
         \/ ExitAsserts \/ ExitCloses \/ ExitDeletes \/ ExitNulls \/ ExitClearsFlag
         \/ ExitDeletesThread \/ ExitLast
  PROVE  ObjectInv'
  <1> USE DEF ObjectInv, ThreadTypes, Objects, Owner, Causes, Ends, FaultNeedsCause, Alive,
              Looping, Exiting, UpdOver, Unasked, Leaving, Live, Gone,
              netVars, ownVars, updVars, objVars
  <1>0. ThreadTypes
    OBVIOUS
  <1>1. CASE ExitAsserts
    <2>1. srv = "closed"
      BY <1>1 DEF ExitAsserts
    <2> QED
      BY <1>1, <2>1, EndStep DEF ExitAsserts
  <1>2. CASE ExitCloses
    BY <1>2 DEF ExitCloses
  <1>3. CASE ExitDeletes
    BY <1>3 DEF ExitDeletes
  <1>4. CASE ExitNulls
    <2>0. m_pSocket' \in BOOLEAN
      BY ONLY <1>0, <1>4 DEF ThreadTypes, ExitNulls
    <2>1. ThreadTypes'
      BY ONLY <1>0, <2>0, <1>4 DEF ThreadTypes, Looping, Exiting, UpdOver, ExitNulls, netVars, ownVars,
               updVars, objVars
    <2>2. Objects'
      BY <1>4 DEF ExitNulls
    <2>3. Owner'
      BY <1>4 DEF ExitNulls
    <2>4. Causes'
      BY <1>4 DEF ExitNulls
    <2>5. Ends' /\ FaultNeedsCause'
      BY <1>4 DEF ExitNulls
    <2> QED
      BY <2>1, <2>2, <2>3, <2>4, <2>5
  <1>5. CASE ExitClearsFlag
    <2>0. m_bCloseRequested' \in BOOLEAN
      BY ONLY <1>0, <1>5 DEF ThreadTypes, ExitClearsFlag
    <2>1. ThreadTypes'
      BY ONLY <1>0, <2>0, <1>5 DEF ThreadTypes, Looping, Exiting, UpdOver, ExitClearsFlag, netVars, ownVars,
               updVars, objVars
    <2>2. Objects'
      BY <1>5 DEF ExitClearsFlag
    <2>3. Owner'
      BY <1>5 DEF ExitClearsFlag
    <2>4. Causes'
      BY <1>5 DEF ExitClearsFlag
    <2>5. Ends' /\ FaultNeedsCause'
      BY <1>5 DEF ExitClearsFlag
    <2> QED
      BY <2>1, <2>2, <2>3, <2>4, <2>5
  <1>6. CASE ExitDeletesThread
    BY <1>6 DEF ExitDeletesThread
  <1>7. CASE ExitLast
    <2>0. m_pThread' \in BOOLEAN
      BY ONLY <1>0, <1>7 DEF ThreadTypes, ExitLast
    <2>1. ThreadTypes'
      BY ONLY <1>0, <2>0, <1>7 DEF ThreadTypes, Looping, Exiting, UpdOver, ExitLast, netVars, ownVars,
               updVars, objVars
    <2>2. Objects'
      BY <1>7 DEF ExitLast
    <2>3. Owner'
      BY <1>7 DEF ExitLast
    <2>4. Causes'
      BY <1>7 DEF ExitLast
    <2>5. Ends' /\ FaultNeedsCause'
      BY <1>7 DEF ExitLast
    <2> QED
      BY <2>1, <2>2, <2>3, <2>4, <2>5
  <1> QED
    BY <1>1, <1>2, <1>3, <1>4, <1>5, <1>6, <1>7

LEMMA NextObjectInv == ObjectInv /\ [Next]_vars => ObjectInv'
  <1> SUFFICES ASSUME ObjectInv, [Next]_vars PROVE ObjectInv'
    OBVIOUS
  <1>1. CASE Server
    BY <1>1, ServerObjects
  <1>2. CASE OwnerRuns \/ (Alive /\ Menu)
    BY <1>2, StartObjects, MenuObjects, CloseObjects DEF OwnerRuns
  <1>3. CASE UpdateThread
    BY <1>3, LoopObjects, ExitObjects DEF UpdateThread
  <1>4. CASE UNCHANGED vars
    BY <1>4 DEF vars, netVars, ownVars, updVars, objVars, ObjectInv, ThreadTypes, Objects,
                Owner, Causes, Ends, FaultNeedsCause, Alive, Unasked, Live, Gone
  <1> QED
    BY <1>1, <1>2, <1>3, <1>4 DEF Next

(* What each thread finds where it is.                                     *)
THEOREM ObjectInvariance == Spec => []ObjectInv
  BY InitObjectInv, NextObjectInv, PTL DEF Spec

(* The loop never works on a deleted socket, thread object or CNetwork     *)
(* before its first exception, wherever Close and Disconnect are.          *)
THEOREM LoopStaysOnLiveObjects == Spec => []LoopOnLiveObjects
  <1>1. ObjectInv => LoopOnLiveObjects
    BY DEF ObjectInv, LoopOnLiveObjects, Objects, Owner, Live
  <1> QED
    BY <1>1, ObjectInvariance, PTL

(* Exit deletes the socket and the thread object once.                     *)
THEOREM DeletesOnce == Spec => []NoDoubleDelete
  <1>1. ObjectInv => NoDoubleDelete
    BY DEF ObjectInv, NoDoubleDelete, Objects, Live, Gone, Exiting
  <1> QED
    BY <1>1, ObjectInvariance, PTL

(* A crash has one of three causes, and a failed assertion one.            *)
THEOREM FaultsHaveCauses == Spec => []FaultNeedsCause
  <1>1. ObjectInv => FaultNeedsCause
    BY DEF ObjectInv
  <1> QED
    BY <1>1, ObjectInvariance, PTL
(* q is what is left of inq after d pieces; one piece of it may be cut.    *)
LeftOf(q, d) ==
  /\ q \in Seq(Piece)
  /\ d \in 0 .. Len(inq)
  /\ Len(q) = Len(inq) - d
  /\ \A i \in 1 .. Len(q) : q[i].pos = inq[i + d].pos /\ q[i].part \in {inq[i + d].part, "rest"}

LEMMA SuffixIsLeft ==
  ASSUME inq \in Seq(Piece), NEW k \in 1 .. Len(inq)
  PROVE  LeftOf(SubSeq(inq, k + 1, Len(inq)), k)
  <1> DEFINE q == SubSeq(inq, k + 1, Len(inq))
  <1>1. q \in Seq(Piece) /\ Len(q) = Len(inq) - k
    OBVIOUS
  <1>2. ASSUME NEW i \in 1 .. Len(q) PROVE q[i] = inq[i + k]
    BY <1>1
  <1> HIDE DEF q
  <1>3. LeftOf(q, k)
    BY <1>1, <1>2 DEF LeftOf
  <1> QED
    BY <1>3 DEF q

LEMMA TailIsLeft ==
  ASSUME inq \in Seq(Piece), inq # <<>>
  PROVE  LeftOf(Tail(inq), 1)
  <1> DEFINE q == Tail(inq)
  <1>1. q \in Seq(Piece) /\ Len(q) = Len(inq) - 1 /\ 1 \in 0 .. Len(inq)
    OBVIOUS
  <1>2. ASSUME NEW i \in 1 .. Len(q) PROVE q[i] = inq[i + 1]
    BY <1>1
  <1> HIDE DEF q
  <1>3. LeftOf(q, 1)
    BY <1>1, <1>2 DEF LeftOf
  <1> QED
    BY <1>3 DEF q

LEMMA CutIsLeft ==
  ASSUME inq \in Seq(Piece), inq # <<>>
  PROVE  LeftOf(<<At(inq[1].pos, "rest")>> \o Tail(inq), 0)
  <1> DEFINE p == At(inq[1].pos, "rest")
             q == <<p>> \o Tail(inq)
  <1>1. inq[1] \in Piece
    OBVIOUS
  <1>2. p \in Piece /\ p.pos = inq[1].pos /\ p.part = "rest"
    BY <1>1 DEF At, Piece
  <1> HIDE DEF p
  <1>3. q \in Seq(Piece) /\ Len(q) = Len(inq) /\ 0 \in 0 .. Len(inq)
    BY <1>2
  <1>4. ASSUME NEW i \in 1 .. Len(q) PROVE q[i] = IF i = 1 THEN p ELSE inq[i]
    BY <1>2, <1>3
  <1> HIDE DEF q
  <1>5. ASSUME NEW i \in 1 .. Len(q)
        PROVE  q[i].pos = inq[i + 0].pos /\ q[i].part \in {inq[i + 0].part, "rest"}
    <2>1. i + 0 = i
      BY <1>3
    <2> QED
      BY <1>2, <1>4, <2>1
  <1>6. LeftOf(q, 0)
    BY <1>3, <1>5 DEF LeftOf
  <1> QED
    BY <1>6 DEF q, p

(* What a read leaves of the queue is a queue, and rd never falls.         *)
LEMMA LeaveStep ==
  ASSUME StreamInv, cli = "up", inq # <<>>, NEW q, NEW d, LeftOf(q, d), Leave(q)
  PROVE  /\ Queue' /\ LogOrder'
         /\ inq' \in Seq(Piece) /\ rd' \in Nat
         /\ rd' \in rd .. Len(log)
         /\ LeftOf(inq', d)
         /\ UNCHANGED <<srv, cli, log, sent, rst>>
  <1>1. /\ inq' = q /\ q \in Seq(Piece) /\ inq \in Seq(Piece)
        /\ log \in Seq(Link!Packets) /\ rd \in Nat
        /\ d \in 0 .. Len(inq) /\ Len(q) = Len(inq) - d
        /\ \A i \in 1 .. Len(q) : q[i].pos = inq[i + d].pos
        /\ UNCHANGED <<srv, cli, log, sent, rst>>
    BY DEF Leave, LeftOf, StreamInv, StreamTypes
  <1>2. /\ \A i \in 1 .. Len(inq) : inq[i].pos \in 1 .. Len(log)
        /\ \A i, j \in 1 .. Len(inq) : i <= j => inq[i].pos <= inq[j].pos
        /\ rd = inq[1].pos - 1
    <2>1. Queue /\ DOMAIN inq = 1 .. Len(inq)
      BY <1>1 DEF StreamInv
    <2> QED  BY ONLY <2>1, cli = "up", inq # <<>> DEF Queue
  <1>0. Len(inq) \in Nat /\ Len(q) \in Nat /\ DOMAIN q = 1 .. Len(q)
    BY <1>1
  <1>3. \A i \in 1 .. Len(q) : i + d \in 1 .. Len(inq) /\ q[i].pos \in 1 .. Len(log)
    <2> SUFFICES ASSUME NEW i \in 1 .. Len(q)
                 PROVE  i + d \in 1 .. Len(inq) /\ q[i].pos \in 1 .. Len(log)
      OBVIOUS
    <2>1. i + d \in 1 .. Len(inq)
      BY <1>0, <1>1
    <2> QED
      BY <1>1, <1>2, <2>1
  <1>4. \A i, j \in 1 .. Len(q) : i <= j => q[i].pos <= q[j].pos
    BY <1>1, <1>2, <1>3
  <1>5. rd' = IF q = <<>> THEN Len(log) ELSE q[1].pos - 1
    BY DEF Leave
  <1>6. 1 \in 1 .. Len(inq) /\ (q # <<>> => 1 \in 1 .. Len(q))
    BY <1>1
  <1>7. rd' \in rd .. Len(log)
    <2>1. CASE q = <<>>
      BY <1>1, <1>2, <1>5, <1>6, <2>1
    <2>2. CASE q # <<>>
      <3>1. q[1].pos = inq[1 + d].pos /\ 1 + d \in 1 .. Len(inq) /\ 1 <= 1 + d
        BY <1>1, <1>3, <1>6, <2>2
      <3>2. inq[1].pos <= q[1].pos
        BY <1>2, <1>6, <3>1
      <3> QED
        BY <1>1, <1>2, <1>3, <1>5, <1>6, <2>2, <3>2
    <2> QED
      BY <2>1, <2>2
  <1>8. Queue'
    BY ONLY <1>0, <1>1, <1>3, <1>4, <1>5, cli = "up" DEF Queue
  <1>9. LogOrder'
    BY <1>1 DEF StreamInv, LogOrder
  <1>10. LeftOf(inq', d) /\ rd' \in Nat
    BY <1>1, <1>7
  <1> QED
    BY <1>1, <1>7, <1>8, <1>9, <1>10
(* A piece of q is a head where it was one in inq.                         *)
LEMMA LeftHeads ==
  ASSUME inq \in Seq(Piece), NEW q, NEW d, LeftOf(q, d), NEW i \in DOMAIN q
  PROVE  /\ i + d \in DOMAIN inq /\ i \in Nat /\ i + d \in Nat
         /\ q[i].pos = inq[i + d].pos
         /\ IsHead(q, i) => IsHead(inq, i + d)
  <1>1. /\ Len(inq) \in Nat /\ DOMAIN inq = 1 .. Len(inq) /\ DOMAIN q = 1 .. Len(q)
        /\ d \in 0 .. Len(inq) /\ Len(q) = Len(inq) - d
    BY DEF LeftOf
  <1>2. i + d \in DOMAIN inq /\ i \in Nat /\ i + d \in Nat
    BY <1>1
  <1> QED
    BY <1>1, <1>2 DEF LeftOf, IsHead

(* What is left of the queue keeps its heads in order.                     *)
LEMMA HeadsLeft ==
  ASSUME StreamInv, NEW d, LeftOf(inq', d), body' \in {body, <<>>}, UNCHANGED <<shown, log>>
  PROVE  Heads'
  <1> USE DEF Heads
  <1>0. inq \in Seq(Piece) /\ Heads /\ d \in 0 .. Len(inq) /\ DOMAIN <<>> = {}
    BY DEF StreamInv, StreamTypes, LeftOf
  <1>1. ASSUME NEW i \in DOMAIN inq', NEW j \in DOMAIN inq', i < j,
               IsHead(inq', i), IsHead(inq', j)
        PROVE  inq'[i].pos < inq'[j].pos
    <2>1. /\ i + d \in DOMAIN inq /\ IsHead(inq, i + d) /\ inq'[i].pos = inq[i + d].pos
          /\ j + d \in DOMAIN inq /\ IsHead(inq, j + d) /\ inq'[j].pos = inq[j + d].pos
          /\ i \in Nat /\ j \in Nat
      BY <1>0, <1>1, LeftHeads
    <2>2. i + d < j + d
      BY <1>0, <1>1, <2>1
    <2> QED
      BY ONLY <1>0, <2>1, <2>2 DEF Heads
  <1>2. ASSUME NEW i \in DOMAIN body', NEW j \in DOMAIN inq', IsHead(body', i), IsHead(inq', j)
        PROVE  body'[i].pos < inq'[j].pos
    <2>1. j + d \in DOMAIN inq /\ IsHead(inq, j + d) /\ inq'[j].pos = inq[j + d].pos
      BY <1>0, <1>2, LeftHeads
    <2>2. body' = body
      BY <1>0, <1>2
    <2> QED
      BY ONLY <1>0, <1>2, <2>1, <2>2 DEF Heads
  <1>3. ASSUME NEW i \in DOMAIN body'
        PROVE  body'[i].pos \in 1 .. Len(log)'
    BY ONLY <1>0, <1>3, body' \in {body, <<>>}, UNCHANGED <<shown, log>> DEF Heads
  <1>4. ASSUME NEW k \in DOMAIN shown', NEW j \in DOMAIN inq', IsHead(inq', j)
        PROVE  shown'[k] < inq'[j].pos
    <2>1. j + d \in DOMAIN inq /\ IsHead(inq, j + d) /\ inq'[j].pos = inq[j + d].pos
      BY <1>0, <1>4, LeftHeads
    <2> QED
      BY ONLY <1>0, <1>4, <2>1, UNCHANGED <<shown, log>> DEF Heads
  <1>5. ASSUME NEW k \in DOMAIN shown'
        PROVE  /\ shown'[k] \in 1 .. Len(log)'
               /\ \A i \in DOMAIN body' : IsHead(body', i) => shown'[k] < body'[i].pos
    BY ONLY <1>0, <1>5, body' \in {body, <<>>}, UNCHANGED <<shown, log>> DEF Heads
  <1>6. \A k, l \in DOMAIN shown' : k < l => shown'[k] < shown'[l]
    BY ONLY <1>0, UNCHANGED <<shown, log>> DEF Heads
  <1> QED
    BY ONLY <1>1, <1>2, <1>3, <1>4, <1>5, <1>6 DEF Heads, IsHead

(* Steps that move nothing on the connection and display nothing.          *)
LEMMA QuietStep ==
  ASSUME StreamInv, UNCHANGED <<log, rd, sent, inq, type, shown>>,
         cli' \in {cli, "closed"}, body' \in {body, <<>>}
  PROVE  StreamInv'
  <1>1. StreamTypes'
    <2>1. StreamTypes /\ <<>> \in Seq(Piece)
      BY DEF StreamInv
    <2>2. body' \in Seq(Piece)
      BY <2>1 DEF StreamTypes
    <2> QED
      BY <2>1, <2>2 DEF StreamTypes
  <1>2. Queue'
    BY DEF StreamInv, Queue
  <1>3. LeftOf(inq', 0)
    <2>1. inq' = inq /\ inq \in Seq(Piece)
      BY DEF StreamInv, StreamTypes
    <2>2. 0 \in 0 .. Len(inq) /\ Len(inq) = Len(inq) - 0
          /\ \A i \in 1 .. Len(inq) : i + 0 = i
      BY <2>1
    <2> QED
      BY <2>1, <2>2 DEF LeftOf
  <1>4. Heads'
    BY <1>3, HeadsLeft
  <1>5. LogOrder'
    BY DEF StreamInv, LogOrder
  <1> QED
    BY <1>1, <1>2, <1>4, <1>5 DEF StreamInv
(* A packet that arrives comes after everything in the queue.              *)
LEMMA ArrivesAfter ==
  ASSUME inq \in Seq(Piece), NEW parts \in Seq(Piece), NEW n \in Nat, Arrives(parts),
         \A i \in DOMAIN parts : parts[i].pos = n,
         \A i, j \in DOMAIN parts : IsHead(parts, i) /\ IsHead(parts, j) => i = j
  PROVE  /\ inq' \in Seq(Piece)
         /\ \A i \in DOMAIN inq' :
              \/ i \in DOMAIN inq /\ inq'[i] = inq[i]
              \/ i \notin DOMAIN inq /\ inq'[i].pos = n
         /\ \A i \in DOMAIN inq', j \in DOMAIN inq : i <= j => i \in DOMAIN inq
         /\ \A i, j \in DOMAIN inq' :
              i \notin DOMAIN inq /\ j \notin DOMAIN inq /\ IsHead(inq', i) /\ IsHead(inq', j)
                => i = j
         /\ inq = <<>> => inq' = <<>> \/ inq'[1].pos = n
         /\ inq # <<>> => 1 \in DOMAIN inq
         /\ inq = <<>> /\ parts # <<>> /\ cli = "up" => inq' # <<>>
         /\ inq' = <<>> => inq = <<>>
  <1>1. CASE cli # "up"
    BY <1>1 DEF Arrives
  <1>2. CASE cli = "up"
    <2> DEFINE l == Len(inq)
               m == Len(parts)
    <2>1. /\ inq' = inq \o parts /\ l \in Nat /\ m \in Nat
          /\ DOMAIN inq = 1 .. l /\ DOMAIN parts = 1 .. m
      BY <1>2 DEF Arrives
    <2>2. inq' \in Seq(Piece) /\ Len(inq') = l + m /\ DOMAIN inq' = 1 .. l + m
      BY <2>1
    <2>3. \A i \in 1 .. l : inq'[i] = inq[i]
      BY <2>1
    <2>4. \A i \in l + 1 .. l + m : inq'[i] = parts[i - l] /\ i - l \in 1 .. m
      BY <2>1
    <2>5. /\ inq = <<>> <=> l = 0
          /\ parts = <<>> <=> m = 0
          /\ inq' = <<>> <=> l + m = 0
      BY <2>1, <2>2
    <2> HIDE DEF l, m
    <2>6. \A i \in 1 .. l + m : i \in 1 .. l \/ (i \in l + 1 .. l + m /\ i \notin 1 .. l)
      BY <2>1
    <2>7. ASSUME NEW i \in 1 .. l + m, i \notin 1 .. l
          PROVE  inq'[i] = parts[i - l] /\ i - l \in DOMAIN parts /\ inq'[i].pos = n
      BY <2>1, <2>4, <2>6, <2>7
    <2>8. ASSUME NEW i \in 1 .. l + m, NEW j \in 1 .. l + m, i \notin 1 .. l, j \notin 1 .. l,
                 IsHead(inq', i), IsHead(inq', j)
          PROVE  i = j
      <3>1. i - l = j - l
        BY <2>7, <2>8 DEF IsHead
      <3> QED
        BY <2>1, <3>1
    <2>9. \A i \in 1 .. l + m, j \in 1 .. l : i <= j => i \in 1 .. l
      BY <2>1
    <2>10. inq = <<>> => inq' = <<>> \/ inq'[1].pos = n
      <3> SUFFICES ASSUME l = 0, l + m # 0 PROVE inq'[1].pos = n
        BY <2>5
      <3>1. 1 \in 1 .. l + m /\ 1 \notin 1 .. l
        BY <2>1
      <3> QED
        BY <2>7, <3>1
    <2>11. inq # <<>> => 1 \in 1 .. l
      BY <2>1, <2>5
    <2>12. (inq = <<>> /\ parts # <<>> => inq' # <<>>) /\ (inq' = <<>> => inq = <<>>)
      BY <2>1, <2>5
    <2> QED
      BY <2>1, <2>2, <2>3, <2>6, <2>7, <2>8, <2>9, <2>10, <2>11, <2>12
  <1> QED
    BY <1>1, <1>2

(* A packet of the server.                                                 *)
LEMMA ArrivalStep ==
  ASSUME StreamInv, NEW p \in Link!Packets, log' = Append(log, p),
         NEW parts \in Seq(Piece), Arrives(parts), parts # <<>>,
         \A i \in DOMAIN parts : parts[i].pos = Len(log) + 1,
         \A i, j \in DOMAIN parts : IsHead(parts, i) /\ IsHead(parts, j) => i = j,
         cli # "none", UNCHANGED <<cli, rd, sent, type, body, shown>>
  PROVE  StreamTypes' /\ Queue' /\ Heads'
  <1> DEFINE n == Len(log)
  <1>1. /\ inq \in Seq(Piece) /\ n \in Nat /\ n + 1 \in Nat
        /\ log' \in Seq(Link!Packets) /\ Len(log') = n + 1
        /\ StreamTypes /\ Queue /\ Heads
    BY DEF StreamInv, StreamTypes
  <1> HIDE DEF n
  <1>2. \A i \in DOMAIN parts : parts[i].pos = n + 1
    BY DEF n
  <1>3. /\ inq' \in Seq(Piece)
        /\ \A i \in DOMAIN inq' :
             \/ i \in DOMAIN inq /\ inq'[i] = inq[i]
             \/ i \notin DOMAIN inq /\ inq'[i].pos = n + 1
        /\ \A i \in DOMAIN inq', j \in DOMAIN inq : i <= j => i \in DOMAIN inq
        /\ \A i, j \in DOMAIN inq' :
             i \notin DOMAIN inq /\ j \notin DOMAIN inq /\ IsHead(inq', i) /\ IsHead(inq', j)
               => i = j
        /\ inq = <<>> => inq' = <<>> \/ inq'[1].pos = n + 1
        /\ inq # <<>> => 1 \in DOMAIN inq
        /\ inq = <<>> /\ parts # <<>> /\ cli = "up" => inq' # <<>>
        /\ inq' = <<>> => inq = <<>>
    BY <1>1, <1>2, ArrivesAfter
  <1>4. /\ \A i \in DOMAIN inq : inq[i].pos \in 1 .. n
        /\ \A i \in DOMAIN inq' : inq'[i].pos \in 1 .. n + 1
    <2>1. \A i \in DOMAIN inq : inq[i].pos \in 1 .. n
      BY <1>1 DEF Queue, n
    <2> QED
      BY <1>1, <1>3, <2>1
  <1>5. StreamTypes'
    BY <1>1, <1>3 DEF StreamTypes
  <1>6. ASSUME NEW i \in DOMAIN inq', NEW j \in DOMAIN inq', i <= j
        PROVE  inq'[i].pos <= inq'[j].pos
    <2>1. CASE j \in DOMAIN inq
      <3>1. i \in DOMAIN inq
        BY <1>3, <1>6, <2>1
      <3>2. inq'[i] = inq[i] /\ inq'[j] = inq[j]
        BY <1>3, <2>1, <3>1
      <3> QED
        BY ONLY <1>1, <1>6, <2>1, <3>1, <3>2 DEF Queue
    <2>2. CASE j \notin DOMAIN inq
      BY <1>1, <1>3, <1>4, <2>2
    <2> QED
      BY <2>1, <2>2
  <1>7. cli = "up" => rd = IF inq' = <<>> THEN n + 1 ELSE inq'[1].pos - 1
    <2> SUFFICES ASSUME cli = "up" PROVE rd = IF inq' = <<>> THEN n + 1 ELSE inq'[1].pos - 1
      OBVIOUS
    <2>1. rd = IF inq = <<>> THEN n ELSE inq[1].pos - 1
      BY <1>1 DEF Queue, n
    <2>2. CASE inq = <<>>
      BY <1>1, <1>3, <2>1, <2>2
    <2>3. CASE inq # <<>>
      <3>1. 1 \in DOMAIN inq /\ 1 \in DOMAIN inq' /\ inq' # <<>>
        BY <1>3, <2>3
      <3> QED
        BY <1>3, <2>1, <2>3, <3>1
    <2> QED
      BY <2>2, <2>3
  <1>8. Queue'
    BY ONLY <1>1, <1>4, <1>6, <1>7, cli # "none", UNCHANGED <<cli, rd, sent, type, body, shown>>
       DEF Queue
  <1>9. ASSUME NEW i \in DOMAIN inq', NEW j \in DOMAIN inq', i < j,
               IsHead(inq', i), IsHead(inq', j)
        PROVE  inq'[i].pos < inq'[j].pos
    <2>1. i \in Nat /\ j \in Nat
      BY <1>3
    <2>2. CASE j \in DOMAIN inq
      <3>1. i \in DOMAIN inq
        BY <1>3, <1>9, <2>1, <2>2
      <3>2. inq'[i] = inq[i] /\ inq'[j] = inq[j]
        BY <1>3, <2>2, <3>1
      <3> QED
        BY ONLY <1>1, <1>9, <2>2, <3>1, <3>2 DEF Heads, IsHead
    <2>3. CASE j \notin DOMAIN inq
      <3>1. i \in DOMAIN inq
        BY <1>3, <1>9, <2>1, <2>3
      <3> QED
        BY <1>1, <1>3, <1>4, <2>3, <3>1
    <2> QED
      BY <2>2, <2>3
  <1>10. ASSUME NEW i \in DOMAIN body, NEW j \in DOMAIN inq', IsHead(body, i), IsHead(inq', j)
         PROVE  body[i].pos < inq'[j].pos
    <2>1. body[i].pos \in 1 .. n
      BY <1>1 DEF Heads, n
    <2>2. CASE j \in DOMAIN inq
      <3>1. inq'[j] = inq[j]
        BY <1>3, <2>2
      <3> QED
        BY ONLY <1>1, <1>10, <2>2, <3>1 DEF Heads, IsHead
    <2>3. CASE j \notin DOMAIN inq
      BY <1>1, <1>3, <2>1, <2>3
    <2> QED
      BY <2>2, <2>3
  <1>11. ASSUME NEW k \in DOMAIN shown
         PROVE  /\ shown[k] \in 1 .. n
                /\ \A j \in DOMAIN inq' : IsHead(inq', j) => shown[k] < inq'[j].pos
    <2>1. shown[k] \in 1 .. n
      BY <1>1 DEF Heads, n
    <2>2. ASSUME NEW j \in DOMAIN inq', IsHead(inq', j) PROVE shown[k] < inq'[j].pos
      <3>1. CASE j \in DOMAIN inq
        <4>1. inq'[j] = inq[j]
          BY <1>3, <3>1
        <4> QED
          BY ONLY <1>1, <1>11, <2>2, <3>1, <4>1 DEF Heads, IsHead
      <3>2. CASE j \notin DOMAIN inq
        BY <1>1, <1>3, <2>1, <3>2
      <3> QED
        BY <3>1, <3>2
    <2> QED
      BY <2>1, <2>2
  <1>12. \A i \in DOMAIN body : body[i].pos \in 1 .. n
    BY <1>1 DEF Heads, n
  <1>13. Heads'
    <2>1. UNCHANGED <<body, shown>> /\ Len(log') = n + 1
      BY <1>1
    <2>2. \A i \in 1 .. n : i \in 1 .. n + 1
      BY <1>1
    <2>3. /\ \A i \in DOMAIN body, k \in DOMAIN shown :
               IsHead(body, i) => shown[k] < body[i].pos
          /\ \A k, l \in DOMAIN shown : k < l => shown[k] < shown[l]
      BY <1>1 DEF Heads
    <2> QED
      BY ONLY <1>9, <1>10, <1>11, <1>12, <2>1, <2>2, <2>3 DEF Heads, IsHead
  <1> QED
    BY <1>5, <1>8, <1>13
(* The server numbers its echoes upwards.                                  *)
LEMMA EchoKeepsOrder ==
  ASSUME StreamInv, NEW n, Link!Echo(n)
  PROVE  LogOrder' /\ n \in Nat
  <1> DEFINE l == Len(log)
             p == Link!Packet("MESSAGE", n)
  <1>1. /\ l \in Nat /\ log' = Append(log, p) /\ sent' = sent /\ sent \in Nat
        /\ DOMAIN log = 1 .. l /\ DOMAIN log' = 1 .. l + 1
        /\ \A i \in 1 .. l : log'[i] = log[i]
        /\ log'[l + 1] = p
    BY DEF StreamInv, StreamTypes, Link!Echo
  <1>2. p.n = n /\ p.type = "MESSAGE"
    BY DEF Link!Packet
  <1>3. n = 0 \/ (n \in 1 .. sent /\ \A m \in Link!Echoed : m < n)
    BY DEF Link!Echo, Link!Garbled
  <1>4. \A i \in 1 .. l : log[i].type = "MESSAGE" => log[i].n \in Link!Echoed
    BY <1>1 DEF Link!Echoed
  <1>5. \A i \in 1 .. l : log[i].n # 0 => log[i].type = "MESSAGE" /\ log[i].n <= sent
    BY <1>1 DEF StreamInv, LogOrder, Link!Garbled
  <1>6. \A i, j \in 1 .. l : i < j /\ log[i].n # 0 /\ log[j].n # 0 => log[i].n < log[j].n
    BY <1>1 DEF StreamInv, LogOrder, Link!Garbled
  <1> HIDE DEF l, p
  <1>7. \A i \in 1 .. l + 1 : i \in 1 .. l \/ i = l + 1
    BY <1>1
  <1>8. \A i \in 1 .. l + 1 : log'[i].n # 0 => log'[i].type = "MESSAGE" /\ log'[i].n <= sent
    BY <1>1, <1>2, <1>3, <1>5, <1>7
  <1>9. ASSUME NEW i \in 1 .. l + 1, NEW j \in 1 .. l + 1, i < j, log'[i].n # 0, log'[j].n # 0
        PROVE  log'[i].n < log'[j].n
    <2>1. i \in 1 .. l
      BY <1>1, <1>7, <1>9
    <2>2. CASE j \in 1 .. l
      BY <1>1, <1>6, <1>9, <2>1, <2>2
    <2>3. CASE j = l + 1
      <3>1. log'[j].n = n /\ log'[i] = log[i]
        BY <1>1, <1>2, <2>1, <2>3
      <3>2. log[i].n \in Link!Echoed
        BY <1>4, <1>5, <1>9, <2>1, <3>1
      <3> QED
        BY <1>3, <1>9, <3>1, <3>2
    <2> QED
      BY <1>7, <2>2, <2>3
  <1>10. LogOrder'
    BY <1>1, <1>8, <1>9 DEF LogOrder, Link!Garbled
  <1> QED
    BY <1>1, <1>3, <1>10

LEMMA VerdictKeepsOrder ==
  ASSUME StreamInv, Link!Accept \/ Link!Kick
  PROVE  /\ LogOrder' /\ Len(log) = 0
         /\ \E t \in {"ACCEPT", "KICK"} : log' = Append(log, Link!Packet(t, 0))
  <1>1. log = <<>> /\ sent \in Nat /\ UNCHANGED sent
    BY DEF Link!Accept, Link!Kick, StreamInv, StreamTypes
  <1>2. PICK t \in {"ACCEPT", "KICK"} : log' = <<Link!Packet(t, 0)>>
    BY DEF Link!Accept, Link!Kick
  <1>3. DOMAIN log' = {1} /\ log'[1].n = 0
    BY <1>2 DEF Link!Packet
  <1>4. LogOrder'
    BY <1>1, <1>3 DEF LogOrder, Link!Garbled
  <1>5. log' = Append(log, Link!Packet(t, 0))
    BY <1>1, <1>2
  <1> QED
    BY <1>1, <1>4, <1>5

LEMMA ServerStream == ASSUME ObjectInv, StreamInv, Server PROVE StreamInv'
  <1>1. /\ UNCHANGED <<type, body, shown>> /\ StreamTypes
        /\ log \in Seq(Link!Packets) /\ Len(log) \in Nat
    BY DEF Server, updVars, StreamInv, StreamTypes
  <1>2. CASE ServerVerdict
    <2>1. srv = "open" /\ UNCHANGED <<cli, rd, sent>>
      BY <1>2 DEF ServerVerdict, Link!Accept, Link!Kick
    <2>2. cli # "none"
      BY <2>1 DEF ObjectInv, Ends
    <2>3. /\ LogOrder' /\ Len(log) = 0
          /\ \E t \in {"ACCEPT", "KICK"} : log' = Append(log, Link!Packet(t, 0))
      BY <1>2, VerdictKeepsOrder DEF ServerVerdict
    <2>4. PICK t \in {"ACCEPT", "KICK"} : log' = Append(log, Link!Packet(t, 0))
      BY <2>3
    <2>5. Link!Packet(t, 0) \in Link!Packets
      BY DEF Link!Packet, Link!Packets
    <2> DEFINE parts == <<At(1, "type")>>
    <2>6. /\ parts \in Seq(Piece) /\ parts # <<>> /\ Arrives(parts)
          /\ \A i \in DOMAIN parts : parts[i].pos = Len(log) + 1
          /\ \A i, j \in DOMAIN parts : IsHead(parts, i) /\ IsHead(parts, j) => i = j
      BY <1>2, <2>3 DEF ServerVerdict, At, Piece, IsHead
    <2>7. StreamTypes' /\ Queue' /\ Heads'
      <3> HIDE DEF parts
      <3> QED
        BY <1>1, <2>1, <2>2, <2>4, <2>5, <2>6, ArrivalStep
    <2> QED
      BY <2>3, <2>7 DEF StreamInv
  <1>3. ASSUME NEW n \in 0 .. sent, ServerEcho(n) PROVE StreamInv'
    <2>1. /\ srv = "open" /\ UNCHANGED <<cli, rd, sent>>
          /\ log' = Append(log, Link!Packet("MESSAGE", n)) /\ Link!Echo(n)
      BY <1>3 DEF ServerEcho, Link!Echo
    <2>2. cli # "none"
      BY <2>1 DEF ObjectInv, Ends
    <2>3. LogOrder' /\ n \in Nat
      BY <2>1, EchoKeepsOrder
    <2>4. Link!Packet("MESSAGE", n) \in Link!Packets
      BY <2>3 DEF Link!Packet, Link!Packets
    <2> DEFINE k == Len(log) + 1
               parts == <<At(k, "type"), At(k, "head"), At(k, "tail")>>
    <2>5. k \in Nat /\ Arrives(parts)
      BY <1>1, <1>3 DEF ServerEcho
    <2>6. /\ parts \in Seq(Piece) /\ parts # <<>>
          /\ \A i \in DOMAIN parts : parts[i].pos = Len(log) + 1
          /\ \A i, j \in DOMAIN parts : IsHead(parts, i) /\ IsHead(parts, j) => i = j
      <3> HIDE DEF k
      <3>1. /\ At(k, "type") \in Piece /\ At(k, "head") \in Piece /\ At(k, "tail") \in Piece
            /\ At(k, "type").pos = k /\ At(k, "head").pos = k /\ At(k, "tail").pos = k
            /\ At(k, "type").part # "head" /\ At(k, "tail").part # "head"
        BY <2>5 DEF At, Piece
      <3>2. parts \in Seq(Piece) /\ parts # <<>> /\ DOMAIN parts = {1, 2, 3}
        BY <3>1
      <3>3. parts[1] = At(k, "type") /\ parts[2] = At(k, "head") /\ parts[3] = At(k, "tail")
        OBVIOUS
      <3>4. \A i \in DOMAIN parts : parts[i].pos = Len(log) + 1
        BY <3>1, <3>2, <3>3 DEF k
      <3> QED
        BY <3>1, <3>2, <3>3, <3>4 DEF IsHead
    <2>7. StreamTypes' /\ Queue' /\ Heads'
      <3> HIDE DEF parts, k
      <3> QED
        BY <1>1, <2>1, <2>2, <2>4, <2>5, <2>6, ArrivalStep
    <2> QED
      BY <2>3, <2>7 DEF StreamInv
  <1>4. CASE ServerHangsUp
    BY <1>1, <1>4, QuietStep DEF ServerHangsUp, Link!HangUp
  <1> QED
    BY <1>2, <1>3, <1>4 DEF Server
(* A receive that keeps the buffer, or empties it.                         *)
LEMMA LeaveStream ==
  ASSUME StreamInv, cli = "up", inq # <<>>, NEW q, NEW d, LeftOf(q, d), Leave(q),
         type' \in Types, body' \in {body, <<>>}, UNCHANGED shown
  PROVE  StreamInv'
  <1>1. /\ Queue' /\ LogOrder' /\ inq' \in Seq(Piece) /\ rd' \in Nat
        /\ LeftOf(inq', d) /\ UNCHANGED <<srv, cli, log, sent, rst>>
    BY LeaveStep
  <1>2. Heads'
    BY <1>1, HeadsLeft
  <1>3. StreamTypes'
    <2>1. StreamTypes /\ <<>> \in Seq(Piece)
      BY DEF StreamInv
    <2>2. body' \in Seq(Piece)
      BY <2>1 DEF StreamTypes
    <2> QED
      BY <1>1, <2>1, <2>2 DEF StreamTypes
  <1> QED
    BY <1>1, <1>2, <1>3 DEF StreamInv

(* Where a thread reads, the client's end is up.                           *)
LEMMA ReadersAreUp ==
  ASSUME ObjectInv, Alive,
         \/ own \in {"verdict", "start"}
         \/ upd \in {"type", "body"}
         \/ own = "send" /\ sock = "open"
  PROVE  cli = "up"
  <1>1. sock = "open"
    BY DEF ObjectInv, Objects, Owner, Live, Looping
  <1> QED
    BY <1>1 DEF ObjectInv, Ends

LEMMA EndStream ==
  ASSUME StreamInv, NEW how, End(how)
  PROVE  StreamInv'
  BY QuietStep DEF End, updVars

LEMMA OwnGoesStream ==
  ASSUME StreamInv, NEW to, OwnGoes(to)
  PROVE  StreamInv'
  BY QuietStep DEF OwnGoes, netVars, updVars

LEMMA UpdGoesStream ==
  ASSUME StreamInv, NEW to, UpdGoes(to)
  PROVE  StreamInv'
  BY QuietStep DEF UpdGoes, netVars

(* The owner, until the menu.                                              *)
LEMMA StartStream ==
  ASSUME ObjectInv, StreamInv, Alive,
         ConnectFails \/ Connect \/ VerdictAccept \/ VerdictLate \/ VerdictDenied \/ Run
  PROVE  StreamInv'
  <1>0. inq \in Seq(Piece) /\ type \in Types
    BY DEF StreamInv, StreamTypes
  <1>1. CASE ConnectFails
    BY <1>1, QuietStep DEF ConnectFails, netVars, updVars
  <1>2. CASE Connect
    <2>1. /\ cli = "none" /\ cli' = "up"
          /\ UNCHANGED <<log, rd, sent, inq, type, body, shown>>
      BY <1>2 DEF Connect, Link!Connect, updVars, ObjectInv, Ends
    <2>2. log = <<>> /\ inq = <<>> /\ rd = 0
      BY <2>1 DEF StreamInv, Queue
    <2>3. Queue'
      BY <2>1, <2>2 DEF Queue
    <2> QED
      BY <2>1, <2>3 DEF StreamInv, StreamTypes, Heads, LogOrder, IsHead
  <1>3. CASE VerdictAccept
    <2>1. cli = "up"
      BY <1>3, ReadersAreUp DEF VerdictAccept
    <2>2. inq # <<>> /\ Leave(Tail(inq)) /\ UNCHANGED <<type, body, shown>>
      BY <1>3 DEF VerdictAccept, updVars
    <2> QED
      BY <1>0, <2>1, <2>2, TailIsLeft, LeaveStream
  <1>4. CASE VerdictLate
    <2>1. cli = "up" /\ UNCHANGED <<type, body, shown>>
      BY <1>4, ReadersAreUp DEF VerdictLate, updVars
    <2>2. CASE UNCHANGED netVars
      BY <2>1, <2>2, QuietStep DEF netVars
    <2>3. CASE inq # <<>> /\ Leave(<<At(inq[1].pos, "rest")>> \o Tail(inq))
      BY <1>0, <2>1, <2>3, CutIsLeft, LeaveStream
    <2> QED
      BY <1>4, <2>2, <2>3 DEF VerdictLate
  <1>5. CASE VerdictDenied
    BY <1>5, QuietStep DEF VerdictDenied, updVars
  <1>6. CASE Run
    BY <1>6, QuietStep DEF Run, netVars
  <1> QED
    BY <1>1, <1>2, <1>3, <1>4, <1>5, <1>6
(* The owner, from the menu to the end.                                    *)
LEMMA OwnerStream ==
  ASSUME ObjectInv, StreamInv, (Alive /\ Menu) \/ OwnerRuns
  PROVE  StreamInv'
  <1>1. CASE Alive /\ Menu
    BY <1>1, EndStream, OwnGoesStream, QuietStep
       DEF Menu, ChooseMessage, ChooseQuit, InputFails, netVars, updVars
  <1>2. CASE Alive /\ (ConnectFails \/ Connect \/ VerdictAccept \/ VerdictLate
                       \/ VerdictDenied \/ Run)
    BY <1>2, StartStream
  <1>3. CASE GetSocket \/ GetSocketNull \/ SendThrows \/ SendOnDeleted
    BY <1>3, EndStream, OwnGoesStream, QuietStep
       DEF GetSocket, GetSocketNull, SendThrows, SendOnDeleted, netVars, updVars
  <1>4. CASE Send
    <2>1. UNCHANGED <<cli, log, rd, inq, type, body, shown>>
      BY <1>4 DEF Send, Link!Send, updVars
    <2>2. sent' \in {sent, sent + 1} /\ sent \in Nat
      BY <1>4 DEF Send, Link!Send, StreamInv, StreamTypes
    <2>3. StreamTypes' /\ Queue' /\ Heads'
      BY <2>1, <2>2 DEF StreamInv, StreamTypes, Queue, Heads, IsHead
    <2>4. LogOrder'
      <3>1. ASSUME NEW i \in DOMAIN log, log[i].n # 0, log[i].n <= sent
            PROVE  log[i].n <= sent'
        <4>1. log[i] \in Link!Packets
          BY DEF StreamInv, StreamTypes
        <4>2. log[i].n \in Nat
          BY <4>1 DEF Link!Packets
        <4> QED
          BY <2>2, <3>1, <4>2
      <3> QED
        BY <2>1, <3>1 DEF StreamInv, LogOrder, Link!Garbled
    <2> QED
      BY <2>3, <2>4 DEF StreamInv
  <1>5. CASE Disconnect \/ Close \/ CloseThread \/ CloseWithoutThread
    BY <1>5, EndStream, OwnGoesStream DEF Disconnect, Close, CloseThread, CloseWithoutThread
  <1>6. CASE Request \/ Delete
    BY <1>6, QuietStep DEF Request, Delete, netVars, updVars
  <1>7. CASE Join \/ JoinNull \/ JoinThrows
    BY <1>7, EndStream, OwnGoesStream, QuietStep DEF Join, JoinNull, JoinThrows, netVars, updVars
  <1>8. CASE JoinReturns \/ JoinOnDeleted \/ ExitProcess
    BY <1>8, EndStream, OwnGoesStream DEF JoinReturns, JoinOnDeleted, ExitProcess
  <1> QED
    BY <1>1, <1>2, <1>3, <1>4, <1>5, <1>6, <1>7, <1>8 DEF OwnerRuns

(* The first receive of a round.                                           *)
LEMMA ReceiveTypeStream ==
  ASSUME ObjectInv, StreamInv, Alive, ReceiveType
  PROVE  StreamInv'
  <1>1. cli = "up" /\ inq # <<>> /\ inq \in Seq(Piece)
    BY ReadersAreUp DEF ReceiveType, StreamInv, StreamTypes
  <1>2. PICK q \in AfterFour :
          /\ Leave(q)
          /\ type' \in IF Aligned(q) THEN {log[inq[1].pos].type} ELSE Types
    BY DEF ReceiveType
  <1>3. log[inq[1].pos].type \in Types
    <2>1. 1 \in DOMAIN inq
      BY <1>1
    <2>2. inq[1].pos \in 1 .. Len(log) /\ log \in Seq(Link!Packets)
      BY <2>1 DEF StreamInv, StreamTypes, Queue
    <2>3. log[inq[1].pos] \in Link!Packets
      BY <2>2
    <2> QED
      BY <2>3 DEF Link!Packets, Types
  <1>4. type' \in Types /\ UNCHANGED <<body, shown>>
    BY <1>2, <1>3 DEF ReceiveType
  <1>5. CASE q = Tail(inq)
    BY <1>1, <1>2, <1>4, <1>5, TailIsLeft, LeaveStream
  <1>6. CASE q = <<At(inq[1].pos, "rest")>> \o Tail(inq)
    BY <1>1, <1>2, <1>4, <1>6, CutIsLeft, LeaveStream
  <1> QED
    BY <1>5, <1>6 DEF AfterFour

(* The second: the heads it takes come before those that stay.             *)
LEMMA ReceiveBodyStream ==
  ASSUME ObjectInv, StreamInv, Alive, ReceiveBody
  PROVE  StreamInv'
  <1>1. /\ cli = "up" /\ inq \in Seq(Piece) /\ Len(inq) \in Nat
        /\ DOMAIN inq = 1 .. Len(inq)
        /\ UNCHANGED <<type, shown>> /\ StreamTypes
    BY ReadersAreUp DEF ReceiveBody, StreamInv, StreamTypes
  <1>2. CASE UNCHANGED netVars /\ body' = <<>>
    BY <1>1, <1>2, QuietStep DEF netVars
  <1>3. ASSUME NEW k \in 1 .. Len(inq), body' = SubSeq(inq, 1, k),
               Leave(SubSeq(inq, k + 1, Len(inq)))
        PROVE  StreamInv'
    <2> DEFINE q == SubSeq(inq, k + 1, Len(inq))
    <2>1. LeftOf(q, k) /\ inq # <<>>
      BY <1>1, SuffixIsLeft
    <2>2. /\ Queue' /\ LogOrder' /\ inq' \in Seq(Piece) /\ rd' \in Nat
          /\ LeftOf(inq', k) /\ UNCHANGED <<srv, cli, log, sent, rst>>
      BY <1>1, <1>3, <2>1, LeaveStep
    <2>3. /\ body' \in Seq(Piece) /\ DOMAIN body' = 1 .. k
          /\ \A i \in 1 .. k : i \in DOMAIN inq /\ body'[i] = inq[i]
      BY <1>1, <1>3
    <2> HIDE DEF q
    <2>4. StreamTypes'
      BY <1>1, <2>2, <2>3 DEF StreamTypes
    <2>5. Heads /\ k \in Nat
      BY DEF StreamInv
    <2>6. ASSUME NEW i \in DOMAIN body', NEW j \in DOMAIN inq', IsHead(body', i), IsHead(inq', j)
          PROVE  body'[i].pos < inq'[j].pos
      <3>1. /\ j + k \in DOMAIN inq /\ IsHead(inq, j + k) /\ inq'[j].pos = inq[j + k].pos
            /\ j \in Nat /\ j \in DOMAIN inq'
        BY <1>1, <2>2, <2>6, LeftHeads
      <3>2. i \in DOMAIN inq /\ body'[i] = inq[i] /\ IsHead(inq, i) /\ i \in 1 .. k
        BY <2>3, <2>6 DEF IsHead
      <3>3. i < j + k
        <4>1. j >= 1
          BY <2>2, <3>1
        <4> QED
          BY <2>5, <3>1, <3>2, <4>1
      <3> QED
        BY ONLY <2>5, <3>1, <3>2, <3>3 DEF Heads
    <2>7. ASSUME NEW i \in DOMAIN inq', NEW j \in DOMAIN inq', i < j,
                 IsHead(inq', i), IsHead(inq', j)
          PROVE  inq'[i].pos < inq'[j].pos
      <3>1. /\ i + k \in DOMAIN inq /\ IsHead(inq, i + k) /\ inq'[i].pos = inq[i + k].pos
            /\ j + k \in DOMAIN inq /\ IsHead(inq, j + k) /\ inq'[j].pos = inq[j + k].pos
            /\ i \in Nat /\ j \in Nat
        BY <1>1, <2>2, <2>7, LeftHeads
      <3>2. i + k < j + k
        BY <2>5, <2>7, <3>1
      <3> QED
        BY ONLY <2>5, <3>1, <3>2 DEF Heads
    <2>8. \A i \in DOMAIN body' : body'[i].pos \in 1 .. Len(log)'
      BY <2>2, <2>3 DEF StreamInv, Queue
    <2>9. ASSUME NEW n \in DOMAIN shown', NEW j \in DOMAIN inq', IsHead(inq', j)
          PROVE  shown'[n] < inq'[j].pos
      <3>1. j + k \in DOMAIN inq /\ IsHead(inq, j + k) /\ inq'[j].pos = inq[j + k].pos
        BY <1>1, <2>2, <2>9, LeftHeads
      <3>2. shown' = shown
        BY <1>1
      <3> QED
        BY ONLY <2>5, <2>9, <3>1, <3>2 DEF Heads
    <2>10. ASSUME NEW n \in DOMAIN shown', NEW i \in DOMAIN body', IsHead(body', i)
           PROVE  shown'[n] < body'[i].pos
      <3>1. i \in DOMAIN inq /\ body'[i] = inq[i] /\ IsHead(inq, i)
        BY <2>3, <2>10 DEF IsHead
      <3>2. shown' = shown
        BY <1>1
      <3> QED
        BY ONLY <2>5, <2>10, <3>1, <3>2 DEF Heads
    <2>11. /\ \A n \in DOMAIN shown' : shown'[n] \in 1 .. Len(log)'
           /\ \A n, l \in DOMAIN shown' : n < l => shown'[n] < shown'[l]
      <3>1. shown' = shown /\ log' = log
        BY <1>1, <2>2
      <3> QED
        BY ONLY <2>5, <3>1 DEF Heads
    <2>12. Heads'
      BY ONLY <2>6, <2>7, <2>8, <2>9, <2>10, <2>11 DEF Heads, IsHead
    <2> QED
      BY <2>2, <2>4, <2>12 DEF StreamInv
  <1> QED
    BY <1>2, <1>3 DEF ReceiveBody, Prefixes
(* What is displayed comes after what was displayed before.                *)
LEMMA HandleStream ==
  ASSUME StreamInv, HandleMessage
  PROVE  StreamInv'
  <1> DEFINE n == body[1].pos
             l == Len(shown)
  <1>1. /\ shown' = Append(shown, n) /\ body' = <<>>
        /\ UNCHANGED <<srv, cli, log, rd, sent, inq, type>>
        /\ StreamTypes /\ Heads /\ shown \in Seq(Nat) /\ body \in Seq(Piece)
    BY DEF HandleMessage, netVars, StreamInv, StreamTypes
  <1>2. 1 \in DOMAIN body /\ IsHead(body, 1)
    BY <1>1 DEF HandleMessage, WholeBody, IsHead
  <1>3. /\ n \in 1 .. Len(log) /\ n \in Nat
        /\ \A k \in DOMAIN shown : shown[k] < n
        /\ \A j \in DOMAIN inq : IsHead(inq, j) => n < inq[j].pos
    BY <1>1, <1>2 DEF Heads, StreamInv, StreamTypes
  <1>4. /\ l \in Nat /\ DOMAIN shown = 1 .. l /\ DOMAIN shown' = 1 .. l + 1
        /\ shown' \in Seq(Nat)
        /\ \A k \in 1 .. l : shown'[k] = shown[k]
        /\ shown'[l + 1] = n
    BY <1>1, <1>3
  <1> HIDE DEF n, l
  <1>5. \A k \in 1 .. l + 1 : k \in 1 .. l \/ k = l + 1
    BY <1>4
  <1>6. StreamTypes'
    BY <1>1, <1>4 DEF StreamTypes
  <1>7. Queue' /\ LogOrder'
    BY <1>1 DEF StreamInv, Queue, LogOrder
  <1>8. ASSUME NEW k \in 1 .. l + 1
        PROVE  /\ shown'[k] \in 1 .. Len(log)
               /\ \A j \in DOMAIN inq : IsHead(inq, j) => shown'[k] < inq[j].pos
    BY <1>1, <1>3, <1>4, <1>5 DEF Heads
  <1>9. ASSUME NEW k \in 1 .. l + 1, NEW m \in 1 .. l + 1, k < m
        PROVE  shown'[k] < shown'[m]
    <2>1. k \in 1 .. l
      BY <1>4, <1>5, <1>9
    <2> QED
      BY <1>1, <1>3, <1>4, <1>5, <1>9, <2>1 DEF Heads
  <1>10. /\ \A i, j \in DOMAIN inq :
               i < j /\ IsHead(inq, i) /\ IsHead(inq, j) => inq[i].pos < inq[j].pos
         /\ DOMAIN <<>> = {}
    BY <1>1 DEF Heads
  <1>11. Heads'
    BY ONLY <1>1, <1>4, <1>8, <1>9, <1>10 DEF Heads, IsHead
  <1> QED
    BY <1>6, <1>7, <1>11 DEF StreamInv

(* Every step of the update thread.                                        *)
LEMMA UpdateStream ==
  ASSUME ObjectInv, StreamInv, UpdateThread
  PROVE  StreamInv'
  <1>0. Alive
    BY DEF UpdateThread
  <1>1. CASE PollReadable \/ CloseSeen \/ ReceiveEnd \/ HandleOther \/ Garbled \/ PollOnDeleted
             \/ UseAfterFree \/ ExitAsserts
    BY <1>1, UpdGoesStream, EndStream
       DEF PollReadable, CloseSeen, ReceiveEnd, HandleOther, Garbled, PollOnDeleted,
           UseAfterFree, ExitAsserts
  <1>2. CASE HandleMisread \/ ReceiveThrows
    BY <1>2, QuietStep DEF HandleMisread, ReceiveThrows, netVars
  <1>3. CASE ReceiveType \/ ReceiveBody \/ HandleMessage
    BY <1>0, <1>3, ReceiveTypeStream, ReceiveBodyStream, HandleStream
  <1>4. CASE ExitCloses \/ ExitDeletes \/ ExitNulls \/ ExitClearsFlag
             \/ ExitDeletesThread \/ ExitLast
    BY <1>4, QuietStep
       DEF ExitCloses, ExitDeletes, ExitNulls, ExitClearsFlag, ExitDeletesThread, ExitLast,
           netVars
  <1> QED
    BY <1>1, <1>2, <1>3, <1>4 DEF UpdateThread

LEMMA InitStreamInv == Init => StreamInv
  BY DEF Init, StreamInv, StreamTypes, Types, Queue, Heads, IsHead, LogOrder

LEMMA NextIInv == IInv /\ [Next]_vars => IInv'
  <1> SUFFICES ASSUME IInv, [Next]_vars PROVE IInv'
    OBVIOUS
  <1>0. ObjectInv /\ StreamInv
    BY DEF IInv
  <1>1. ObjectInv'
    BY <1>0, NextObjectInv
  <1>2. StreamInv'
    <2>1. CASE UNCHANGED vars
      BY <1>0, <2>1, QuietStep DEF vars, netVars, updVars
    <2> QED
      BY <1>0, <2>1, ServerStream, OwnerStream, UpdateStream DEF Next
  <1> QED
    BY <1>1, <1>2 DEF IInv

(* The objects, and what is read and displayed.                            *)
THEOREM Invariance == Spec => []IInv
  <1>1. Init => IInv
    BY InitObjectInv, InitStreamInv DEF IInv
  <1> QED
    BY <1>1, NextIInv, PTL DEF Spec

(* The variables keep their types: in particular no count of what has been *)
(* read falls below 0, however the reads cut the packets.                  *)
THEOREM TypeCorrect == Spec => []TypeOK
  <1>1. IInv => TypeOK
    BY DEF IInv, ObjectInv, StreamInv, TypeOK
  <1> QED
    BY <1>1, Invariance, PTL

(* What is displayed is what the user typed, in order and none twice.      *)
THEOREM DisplaysInOrder == Spec => []ShownInOrder
  <1>1. ASSUME IInv PROVE ShownInOrder
    <2>1. ASSUME NEW i \in DOMAIN shown, NEW j \in DOMAIN shown, i < j,
                 log[shown[i]].n # Link!Garbled, log[shown[j]].n # Link!Garbled
          PROVE  log[shown[i]].n < log[shown[j]].n /\ log[shown[j]].n <= sent
      <3>1. shown[i] < shown[j] /\ shown[i] \in DOMAIN log /\ shown[j] \in DOMAIN log
        BY <1>1, <2>1 DEF IInv, StreamInv, StreamTypes, Heads
      <3> QED
        BY <1>1, <2>1, <3>1 DEF IInv, StreamInv, LogOrder
    <2> QED
      BY <2>1 DEF ShownInOrder
  <1> QED
    BY <1>1, Invariance, PTL
(* Steps that the server cannot see.                                       *)
LEMMA LinkQuiet ==
  ASSUME UNCHANGED <<srv, cli, log, rd, sent>>
  PROVE  [Link!Next]_(Link!vars)
  BY DEF Link!vars

(* Steps that close the client's end, if it is up.                         *)
LEMMA LinkClose ==
  ASSUME cli' = IF cli = "up" THEN "closed" ELSE cli, UNCHANGED <<srv, log, rd, sent>>
  PROVE  [Link!Next]_(Link!vars)
  <1>1. CASE cli = "up"
    BY <1>1 DEF Link!Next, Link!ClientStep, Link!Close
  <1>2. CASE cli # "up"
    BY <1>2, LinkQuiet
  <1> QED
    BY <1>1, <1>2

LEMMA LinkEnd ==
  ASSUME NEW how, End(how)
  PROVE  [Link!Next]_(Link!vars)
  BY LinkClose DEF End

(* A receive reads packets that have not been read, in order.              *)
LEMMA LinkLeave ==
  ASSUME StreamInv, cli = "up", inq # <<>>, NEW q, NEW d, LeftOf(q, d), Leave(q)
  PROVE  [Link!Next]_(Link!vars)
  <1>1. /\ rd' \in rd .. Len(log) /\ UNCHANGED <<srv, cli, log, sent>>
        /\ rd \in Nat /\ Len(log) \in Nat
    BY LeaveStep DEF StreamInv, StreamTypes
  <1>2. CASE rd' = rd
    BY <1>1, <1>2, LinkQuiet
  <1>3. CASE rd' # rd
    <2>1. rd' \in rd + 1 .. Len(log)
      BY <1>1, <1>3
    <2>2. Link!Read(rd')
      BY <1>1, <2>1 DEF Link!Read
    <2> QED
      BY <2>1, <2>2 DEF Link!Next, Link!ClientStep
  <1> QED
    BY <1>2, <1>3

LEMMA LinkServer ==
  ASSUME Server
  PROVE  [Link!Next]_(Link!vars)
  BY DEF Server, ServerVerdict, ServerEcho, ServerHangsUp, Link!Next, Link!ServerStep

LEMMA LinkOwner ==
  ASSUME IInv, (Alive /\ Menu) \/ OwnerRuns
  PROVE  [Link!Next]_(Link!vars)
  <1>0. /\ Alive /\ ObjectInv /\ StreamInv /\ inq \in Seq(Piece)
    BY DEF IInv, StreamInv, StreamTypes, OwnerRuns
  <1>1. CASE Menu
    BY <1>1, LinkEnd, LinkQuiet
       DEF Menu, ChooseMessage, ChooseQuit, InputFails, OwnGoes, netVars
  <1>2. CASE ConnectFails \/ Run
    BY <1>2, LinkQuiet DEF ConnectFails, Run, netVars
  <1>3. CASE Connect
    BY <1>3 DEF Connect, Link!Next, Link!ClientStep
  <1>4. CASE VerdictAccept
    BY <1>0, <1>4, ReadersAreUp, TailIsLeft, LinkLeave DEF VerdictAccept
  <1>5. CASE VerdictLate
    <2>1. cli = "up"
      BY <1>0, <1>5, ReadersAreUp DEF VerdictLate
    <2>2. CASE UNCHANGED netVars
      BY <2>2, LinkQuiet DEF netVars
    <2>3. CASE inq # <<>> /\ Leave(<<At(inq[1].pos, "rest")>> \o Tail(inq))
      BY <1>0, <2>1, <2>3, CutIsLeft, LinkLeave
    <2> QED
      BY <1>5, <2>2, <2>3 DEF VerdictLate
  <1>6. CASE VerdictDenied
    <2>1. cli = "up"
      BY <1>0, <1>6, ReadersAreUp DEF VerdictDenied
    <2> QED
      BY <1>6, <2>1, LinkClose DEF VerdictDenied
  <1>7. CASE GetSocket \/ GetSocketNull \/ SendThrows \/ SendOnDeleted
    BY <1>7, LinkEnd, LinkQuiet
       DEF GetSocket, GetSocketNull, SendThrows, SendOnDeleted, OwnGoes, netVars
  <1>8. CASE Send
    <2>1. CASE Link!Send
      BY <2>1 DEF Link!Next, Link!ClientStep
    <2>2. CASE UNCHANGED <<srv, cli, log, rd, sent>>
      BY <2>2, LinkQuiet
    <2> QED
      BY <1>8, <2>1, <2>2 DEF Send
  <1>9. CASE Disconnect \/ Close \/ CloseThread \/ CloseWithoutThread \/ Request \/ Delete
    BY <1>9, LinkEnd, LinkQuiet
       DEF Disconnect, Close, CloseThread, CloseWithoutThread, Request, Delete, OwnGoes, netVars
  <1>10. CASE Join \/ JoinNull \/ JoinThrows \/ JoinReturns \/ JoinOnDeleted \/ ExitProcess
    BY <1>10, LinkEnd, LinkQuiet
       DEF Join, JoinNull, JoinThrows, JoinReturns, JoinOnDeleted, ExitProcess, OwnGoes, netVars
  <1> QED
    BY <1>1, <1>2, <1>3, <1>4, <1>5, <1>6, <1>7, <1>8, <1>9, <1>10 DEF OwnerRuns

LEMMA LinkUpdate ==
  ASSUME IInv, UpdateThread
  PROVE  [Link!Next]_(Link!vars)
  <1>0. /\ Alive /\ ObjectInv /\ StreamInv /\ inq \in Seq(Piece)
    BY DEF IInv, StreamInv, StreamTypes, UpdateThread
  <1>1. CASE PollReadable \/ CloseSeen \/ ReceiveEnd \/ HandleOther \/ Garbled \/ PollOnDeleted
             \/ UseAfterFree \/ ExitAsserts
    BY <1>1, LinkEnd, LinkQuiet
       DEF PollReadable, CloseSeen, ReceiveEnd, HandleOther, Garbled, PollOnDeleted,
           UseAfterFree, ExitAsserts, UpdGoes, netVars
  <1>2. CASE HandleMessage \/ HandleMisread \/ ReceiveThrows
    BY <1>2, LinkQuiet DEF HandleMessage, HandleMisread, ReceiveThrows, netVars
  <1>3. CASE ReceiveType
    <2>1. cli = "up" /\ inq # <<>>
      BY <1>0, <1>3, ReadersAreUp DEF ReceiveType
    <2>2. PICK q \in AfterFour : Leave(q)
      BY <1>3 DEF ReceiveType
    <2> QED
      BY <1>0, <2>1, <2>2, TailIsLeft, CutIsLeft, LinkLeave DEF AfterFour
  <1>4. CASE ReceiveBody
    <2>1. cli = "up"
      BY <1>0, <1>4, ReadersAreUp DEF ReceiveBody
    <2>2. ASSUME NEW k \in 1 .. Len(inq), Leave(SubSeq(inq, k + 1, Len(inq)))
          PROVE  [Link!Next]_(Link!vars)
      <3>1. inq # <<>>
        BY <1>0
      <3> QED
        BY <1>0, <2>1, <2>2, <3>1, SuffixIsLeft, LinkLeave
    <2>3. CASE UNCHANGED netVars
      BY <2>3, LinkQuiet DEF netVars
    <2> QED
      BY <1>4, <2>2, <2>3 DEF ReceiveBody, Prefixes
  <1>5. CASE ExitCloses
    <2>1. cli = "up"
      BY <1>0, <1>5 DEF ExitCloses, ObjectInv, Objects, Ends, Live, Gone
    <2> QED
      BY <1>5, <2>1, LinkClose DEF ExitCloses
  <1>6. CASE ExitDeletes \/ ExitNulls \/ ExitClearsFlag \/ ExitDeletesThread \/ ExitLast
    BY <1>6, LinkQuiet
       DEF ExitDeletes, ExitNulls, ExitClearsFlag, ExitDeletesThread, ExitLast, netVars
  <1> QED
    BY <1>1, <1>2, <1>3, <1>4, <1>5, <1>6 DEF UpdateThread

(* The client keeps its side of the contract of EchoLink: it reads in      *)
(* order, sends only while its end is up, and closes it once.              *)
THEOREM LinkRefinement == Spec => ImplementsEchoLink
  <1>1. Init => Link!Init
    BY DEF Init, Link!Init
  <1>2. IInv /\ [Next]_vars => [Link!Next]_(Link!vars)
    <2>1. UNCHANGED vars => UNCHANGED <<srv, cli, log, rd, sent>>
      BY DEF vars, netVars
    <2> QED
      BY <2>1, LinkServer, LinkOwner, LinkUpdate, LinkQuiet DEF Next
  <1> QED
    BY <1>1, <1>2, Invariance, PTL DEF Spec, ImplementsEchoLink, Link!Spec
(* What is left of whole packets is whole, and begins where the last piece *)
(* that was taken says.                                                    *)
LEMMA FramedRest ==
  ASSUME inq \in Seq(Piece), Framed(inq), NEW k \in 1 .. Len(inq),
         NEW q \in Seq(Piece), Len(q) = Len(inq) - k,
         \A i \in 1 .. Len(q) : q[i] = inq[i + k]
  PROVE  /\ Framed(q)
         /\ \A i \in DOMAIN q : q[i].pos # 1
         /\ q # <<>> => k \in DOMAIN inq /\ k + 1 \in DOMAIN inq /\ q[1] = inq[k + 1]
  <1> DEFINE l == Len(inq)
             m == Len(q)
  <1>1. /\ l \in Nat /\ m \in Nat /\ k \in Nat /\ k >= 1 /\ m + k = l
        /\ DOMAIN inq = 1 .. l /\ DOMAIN q = 1 .. m
        /\ q # <<>> <=> m # 0
    OBVIOUS
  <1>2. \A i \in 1 .. m : q[i] = inq[i + k]
    OBVIOUS
  <1> HIDE DEF l, m
  <1>0. \A j \in 1 .. l :
           /\ inq[j].part # "rest"
           /\ inq[j].pos = 1 => j = 1
           /\ inq[j].part = "type" /\ inq[j].pos # 1 =>
                j + 1 \in 1 .. l /\ inq[j + 1] = At(inq[j].pos, "head")
           /\ inq[j].part = "head" => j + 1 \in 1 .. l /\ inq[j + 1] = At(inq[j].pos, "tail")
           /\ inq[j].part = "tail" /\ j + 1 \in 1 .. l => inq[j + 1].part = "type"
    BY <1>1 DEF Framed
  <1>3. ASSUME NEW i \in 1 .. m PROVE i + k \in 1 .. l /\ i + k # 1 /\ q[i].pos # 1
    <2>1. i + k \in 1 .. l /\ i + k # 1
      BY <1>1
    <2> QED
      BY <1>0, <1>2, <2>1
  <1>4. \A i \in 1 .. m : (i + 1) + k = (i + k) + 1 /\ ((i + k) + 1 \in 1 .. l <=> i + 1 \in 1 .. m)
    BY <1>1
  <1>5. ASSUME NEW i \in 1 .. m
        PROVE  /\ q[i].part # "rest"
               /\ q[i].part = "type" => i + 1 \in 1 .. m /\ q[i + 1] = At(q[i].pos, "head")
               /\ q[i].part = "head" => i + 1 \in 1 .. m /\ q[i + 1] = At(q[i].pos, "tail")
               /\ q[i].part = "tail" /\ i + 1 \in 1 .. m => q[i + 1].part = "type"
    <2> DEFINE j == i + k
    <2>1. j \in 1 .. l /\ q[i] = inq[j] /\ q[i].pos # 1
      BY <1>2, <1>3
    <2>2. i + 1 \in 1 .. m => q[i + 1] = inq[j + 1]
      BY <1>2, <1>4
    <2>3. j + 1 \in 1 .. l <=> i + 1 \in 1 .. m
      BY <1>4
    <2> HIDE DEF j
    <2> QED
      BY ONLY <1>0, <2>1, <2>2, <2>3
  <1>6. Framed(q)
    BY ONLY <1>1, <1>3, <1>5 DEF Framed
  <1>7. m # 0 => k \in 1 .. l /\ k + 1 \in 1 .. l /\ q[1] = inq[k + 1]
    <2> SUFFICES ASSUME m # 0 PROVE k \in 1 .. l /\ k + 1 \in 1 .. l /\ q[1] = inq[k + 1]
      OBVIOUS
    <2>1. 1 \in 1 .. m /\ 1 + k = k + 1 /\ k \in 1 .. l
      BY <1>1
    <2> QED
      BY <1>2, <1>3, <2>1
  <1> QED
    BY <1>1, <1>3, <1>6, <1>7

LEMMA FramedTail ==
  ASSUME inq \in Seq(Piece), Framed(inq), inq # <<>>
  PROVE  /\ Framed(Tail(inq))
         /\ \A i \in DOMAIN Tail(inq) : Tail(inq)[i].pos # 1
         /\ Tail(inq) # <<>> => 1 \in DOMAIN inq /\ 2 \in DOMAIN inq /\ Tail(inq)[1] = inq[2]
  <1> DEFINE q == Tail(inq)
  <1>1. /\ q \in Seq(Piece) /\ Len(q) = Len(inq) - 1 /\ 1 \in 1 .. Len(inq)
        /\ 1 + 1 = 2
    OBVIOUS
  <1>2. \A i \in 1 .. Len(q) : q[i] = inq[i + 1]
    BY <1>1
  <1> HIDE DEF q
  <1>3. /\ Framed(q)
        /\ \A i \in DOMAIN q : q[i].pos # 1
        /\ q # <<>> => 1 \in DOMAIN inq /\ 2 \in DOMAIN inq /\ q[1] = inq[2]
    BY <1>1, <1>2, FramedRest
  <1> QED
    BY <1>3 DEF q

(* Steps that read nothing.                                                *)
LEMMA QuietRound ==
  ASSUME RoundInv, UNCHANGED <<inq, log, rd, misread, late, cut>>,
         own' = "verdict" => own = "verdict",
         Reading' => Reading /\ (upd' = "body" <=> upd = "body"),
         upd' = "body" => upd = "body",
         upd' = "handle" => upd = "handle" /\ body' = body
  PROVE  RoundInv'
  <1> SUFFICES ASSUME ~cut, ~late PROVE Rounds'
    BY DEF RoundInv
  <1>1. Rounds
    BY DEF RoundInv
  <1> QED
    BY <1>1 DEF Rounds, WholeBody, Framed
(* An echo is appended whole.                                              *)
LEMMA FramedMore ==
  ASSUME inq \in Seq(Piece), Framed(inq), NEW k \in Nat, k # 1,
         inq' = inq \o <<At(k, "type"), At(k, "head"), At(k, "tail")>>
  PROVE  /\ Framed(inq')
         /\ (\A i \in DOMAIN inq : inq[i].pos # 1) => \A i \in DOMAIN inq' : inq'[i].pos # 1
         /\ inq' # <<>>
         /\ inq'[1] = IF inq = <<>> THEN At(k, "type") ELSE inq[1]
  <1> DEFINE l == Len(inq)
             parts == <<At(k, "type"), At(k, "head"), At(k, "tail")>>
  <1>1. /\ l \in Nat /\ DOMAIN inq = 1 .. l
        /\ inq = <<>> <=> l = 0
    OBVIOUS
  <1>2. /\ At(k, "type") \in Piece /\ At(k, "head") \in Piece /\ At(k, "tail") \in Piece
        /\ parts \in Seq(Piece) /\ Len(parts) = 3
        /\ parts[1] = At(k, "type") /\ parts[2] = At(k, "head") /\ parts[3] = At(k, "tail")
    BY DEF At, Piece
  <1>3. \A p \in {"type", "head", "tail"} : At(k, p).pos = k /\ At(k, p).part = p
    BY DEF At
  <1> HIDE DEF parts
  <1>4. /\ DOMAIN inq' = 1 .. l + 3 /\ Len(inq') = l + 3
        /\ \A i \in 1 .. l : inq'[i] = inq[i]
        /\ \A i \in l + 1 .. l + 3 : inq'[i] = parts[i - l]
    BY <1>1, <1>2 DEF parts
  <1>5. /\ inq'[l + 1] = At(k, "type")
        /\ inq'[l + 2] = At(k, "head")
        /\ inq'[l + 3] = At(k, "tail")
    <2>1. /\ l + 1 \in l + 1 .. l + 3 /\ l + 2 \in l + 1 .. l + 3 /\ l + 3 \in l + 1 .. l + 3
          /\ (l + 1) - l = 1 /\ (l + 2) - l = 2 /\ (l + 3) - l = 3
      BY <1>1
    <2> QED
      BY <1>2, <1>4, <2>1
  <1> HIDE DEF l
  <1>6. \A i \in 1 .. l :
           /\ inq[i].part # "rest"
           /\ inq[i].pos = 1 => i = 1
           /\ inq[i].part = "type" /\ inq[i].pos # 1 =>
                i + 1 \in 1 .. l /\ inq[i + 1] = At(inq[i].pos, "head")
           /\ inq[i].part = "head" => i + 1 \in 1 .. l /\ inq[i + 1] = At(inq[i].pos, "tail")
           /\ (inq[i].part = "tail" \/ inq[i].pos = 1) /\ i + 1 \in 1 .. l =>
                inq[i + 1].part = "type"
    BY <1>1 DEF Framed
  <1>7. \A i \in 1 .. l : i + 1 \in 1 .. l \/ i + 1 = l + 1
    BY <1>1
  <1>8. ASSUME NEW i \in 1 .. l + 3
        PROVE  \/ i \in 1 .. l
               \/ i = l + 1 /\ i + 1 = l + 2
               \/ i = l + 2 /\ i + 1 = l + 3
               \/ i = l + 3 /\ i + 1 \notin 1 .. l + 3
    BY <1>1
  <1>9. /\ \A i \in 1 .. l : i \in 1 .. l + 3
        /\ l + 1 \in 1 .. l + 3 /\ l + 2 \in 1 .. l + 3 /\ l + 3 \in 1 .. l + 3
    BY <1>1
  <1>10. ASSUME NEW i \in 1 .. l + 3
         PROVE  /\ inq'[i].part # "rest"
                /\ inq'[i].pos = 1 => i = 1
                /\ inq'[i].part = "type" /\ inq'[i].pos # 1 =>
                     i + 1 \in 1 .. l + 3 /\ inq'[i + 1] = At(inq'[i].pos, "head")
                /\ inq'[i].part = "head" =>
                     i + 1 \in 1 .. l + 3 /\ inq'[i + 1] = At(inq'[i].pos, "tail")
                /\ (inq'[i].part = "tail" \/ inq'[i].pos = 1) /\ i + 1 \in 1 .. l + 3 =>
                     inq'[i + 1].part = "type"
    <2>1. CASE i \in 1 .. l
      <3>1. inq'[i] = inq[i] /\ (i + 1 \in 1 .. l => inq'[i + 1] = inq[i + 1])
        BY <1>4, <2>1
      <3>2. i + 1 \notin 1 .. l => inq'[i + 1].part = "type"
        BY <1>3, <1>5, <1>7, <2>1
      <3> QED
        BY ONLY <1>6, <1>9, <2>1, <3>1, <3>2
    <2>2. CASE i = l + 1 /\ i + 1 = l + 2
      BY ONLY <1>3, <1>5, <1>9, <2>2, k # 1
    <2>3. CASE i = l + 2 /\ i + 1 = l + 3
      BY ONLY <1>3, <1>5, <1>9, <2>3, k # 1
    <2>4. CASE i = l + 3 /\ i + 1 \notin 1 .. l + 3
      BY ONLY <1>3, <1>5, <2>4, k # 1
    <2> QED
      BY <1>8, <2>1, <2>2, <2>3, <2>4
  <1>11. Framed(inq')
    BY ONLY <1>4, <1>10 DEF Framed
  <1>12. (\A i \in DOMAIN inq : inq[i].pos # 1) => \A i \in DOMAIN inq' : inq'[i].pos # 1
    BY <1>1, <1>3, <1>4, <1>5, <1>8
  <1>13. inq' # <<>> /\ inq'[1] = IF inq = <<>> THEN At(k, "type") ELSE inq[1]
    <2>1. l # 0 => 1 \in 1 .. l
      BY <1>1
    <2>2. l = 0 => l + 1 = 1
      BY <1>1
    <2>3. 1 \in DOMAIN inq'
      BY <1>1, <1>4
    <2> QED
      BY <1>1, <1>4, <1>5, <2>1, <2>2, <2>3
  <1> QED
    BY <1>11, <1>12, <1>13
LEMMA ServerRound ==
  ASSUME IInv, RoundInv, Server
  PROVE  RoundInv'
  <1> SUFFICES ASSUME ~cut, ~late PROVE Rounds'
    BY DEF RoundInv, Server, ownVars, updVars
  <1>1. /\ Rounds /\ inq \in Seq(Piece) /\ Len(log) \in Nat /\ log \in Seq(Link!Packets)
        /\ Queue
        /\ UNCHANGED <<own, upd, threw, body, misread, cli, rd>>
    BY DEF RoundInv, IInv, StreamInv, StreamTypes, Server, ServerVerdict, ServerEcho,
           ServerHangsUp, Link!Accept, Link!Kick, Link!Echo, Link!HangUp, ownVars, updVars
  <1>2. log' = log \/ (log' # <<>> /\ (ServerVerdict \/ \E n \in 0 .. sent : ServerEcho(n)))
    <2>1. CASE ServerVerdict
      BY <2>1 DEF ServerVerdict, Link!Accept, Link!Kick
    <2>2. ASSUME NEW n \in 0 .. sent, ServerEcho(n) PROVE log' # <<>>
      BY <1>1, <2>2 DEF ServerEcho, Link!Echo
    <2> QED
      BY <2>1, <2>2 DEF Server, ServerHangsUp, Link!HangUp
  <1>3. CASE inq' = inq
    <2>1. log # <<>> => log' # <<>>
      BY <1>2
    <2> QED
      BY <1>1, <1>3, <2>1 DEF Rounds, Reading, WholeBody, Framed
  <1>4. CASE ServerVerdict /\ inq' # inq
    <2>1. log = <<>> /\ inq' = inq \o <<At(1, "type")>> /\ log' # <<>>
      <3>1. log = <<>> /\ log' # <<>>
        BY <1>4 DEF ServerVerdict, Link!Accept, Link!Kick
      <3>2. Arrives(<<At(1, "type")>>)
        BY <1>4 DEF ServerVerdict
      <3> QED
        BY <1>4, <3>1, <3>2 DEF Arrives
    <2>2. inq = <<>>
      <3>1. \A i \in DOMAIN inq : inq[i].pos \in 1 .. 0
        BY <1>1, <2>1 DEF Queue
      <3>2. DOMAIN inq = 1 .. Len(inq) /\ Len(inq) \in Nat
        BY <1>1
      <3>3. 1 \notin DOMAIN inq
        BY <3>1
      <3> QED
        BY <1>1, <3>2, <3>3
    <2>3. inq' = <<At(1, "type")>>
      BY <2>1, <2>2 DEF At, Piece
    <2>4. ~Reading /\ upd # "body"
      BY <1>1, <2>1, <2>2 DEF Rounds
    <2>5. Framed(inq')
      BY <2>3 DEF Framed, At
    <2> QED
      BY ONLY <1>1, <2>3, <2>4, <2>5 DEF Rounds, Reading, WholeBody, Looping
  <1>5. ASSUME NEW n \in 0 .. sent, ServerEcho(n), inq' # inq PROVE Rounds'
    <2> DEFINE k == Len(log) + 1
    <2>1. inq' = inq \o <<At(k, "type"), At(k, "head"), At(k, "tail")>>
      BY <1>5 DEF ServerEcho, Arrives
    <2>2. log # <<>> /\ k \in Nat /\ k # 1
      <3>1. log # <<>>
        BY <1>5 DEF ServerEcho, Link!Echo
      <3> QED
        BY <1>1, <3>1
    <2>3. log' # <<>>
      BY <1>2, <2>2
    <2> HIDE DEF k
    <2>4. Framed(inq)
      BY <1>1 DEF Rounds
    <2>5. /\ Framed(inq')
          /\ (\A i \in DOMAIN inq : inq[i].pos # 1) => \A i \in DOMAIN inq' : inq'[i].pos # 1
          /\ inq' # <<>>
          /\ inq'[1] = IF inq = <<>> THEN At(k, "type") ELSE inq[1]
      BY <1>1, <2>1, <2>2, <2>4, FramedMore
    <2>6. At(k, "type").part = "type"
      BY DEF At
    <2>7. Reading => inq'[1].part = IF upd = "body" THEN "head" ELSE "type"
      BY <1>1, <2>5, <2>6 DEF Rounds
    <2>8. Reading' <=> Reading
      BY <1>1 DEF Reading
    <2> QED
      BY ONLY <1>1, <2>3, <2>5, <2>7, <2>8 DEF Rounds, WholeBody
  <1> QED
    BY <1>2, <1>3, <1>4, <1>5 DEF Server, ServerHangsUp

LEMMA OwnerRound ==
  ASSUME IInv, RoundInv, (Alive /\ Menu) \/ OwnerRuns
  PROVE  RoundInv'
  <1>0. /\ ObjectInv /\ StreamInv /\ inq \in Seq(Piece)
        /\ Reading => upd # "none" \/ own = "start"
    BY DEF IInv, StreamInv, StreamTypes, Reading, Looping
  <1>1. ASSUME NEW how, End(how) PROVE RoundInv'
    BY <1>1, QuietRound DEF End, ownVars, updVars, Reading
  <1>2. ASSUME NEW to, OwnGoes(to), to \notin {"verdict", "start"} PROVE RoundInv'
    BY <1>2, QuietRound DEF OwnGoes, netVars, updVars, Reading
  <1>3. CASE Menu
    BY <1>1, <1>2, <1>3, QuietRound
       DEF Menu, ChooseMessage, ChooseQuit, InputFails, netVars, updVars, Reading
  <1>4. CASE ConnectFails \/ VerdictDenied \/ Request \/ Delete
    BY <1>4, QuietRound
       DEF ConnectFails, VerdictDenied, Request, Delete, netVars, updVars, Reading
  <1>5. CASE Run
    <2>1. upd = "none" /\ Reading
      BY <1>0, <1>5 DEF Run, ObjectInv, Owner, Reading
    <2> QED
      BY <1>5, <2>1, QuietRound DEF Run, netVars, Reading
  <1>6. CASE Connect
    <2>1. cli = "none"
      BY <1>0, <1>6 DEF Connect, Link!Connect, ObjectInv, Ends
    <2>2. rd = 0
      BY <1>0, <2>1 DEF StreamInv, Queue
    <2>3. /\ UNCHANGED <<inq, log, rd, misread, late, cut, upd, threw, body>>
          /\ own = "connect" /\ own' = "verdict"
      BY <1>6 DEF Connect, Link!Connect, updVars
    <2> QED
      BY <2>2, <2>3 DEF RoundInv, Rounds, Reading, WholeBody, Framed
  <1>7. CASE VerdictAccept
    <2> SUFFICES ASSUME ~cut, ~late PROVE Rounds'
      BY <1>7 DEF RoundInv, VerdictAccept, updVars
    <2>1. /\ own = "verdict" /\ own' = "start" /\ inq # <<>> /\ inq' = Tail(inq)
          /\ UNCHANGED <<log, misread, late, upd, threw, body>>
      BY <1>7 DEF VerdictAccept, Leave, updVars
    <2>2. upd = "none" /\ Rounds /\ cli = "up" /\ Queue
      BY <1>0, <2>1 DEF ObjectInv, StreamInv, Owner, Objects, Ends, OwnerRuns, Menu, RoundInv
    <2>3. 1 \in DOMAIN inq /\ inq[1].pos = 1 /\ log # <<>>
      <3>1. 1 \in DOMAIN inq
        BY <1>0, <2>1
      <3>2. rd = 0 /\ rd = inq[1].pos - 1 /\ inq[1].pos \in 1 .. Len(log)
        BY <2>1, <2>2, <3>1 DEF Rounds, Queue
      <3> QED
        BY <3>1, <3>2
    <2>4. /\ Framed(inq')
          /\ \A i \in DOMAIN inq' : inq'[i].pos # 1
          /\ inq' # <<>> => 2 \in DOMAIN inq /\ inq'[1] = inq[2]
      BY <1>0, <2>1, <2>2, FramedTail DEF Rounds
    <2>5. inq' # <<>> => inq'[1].part = "type"
      <3>1. 1 + 1 = 2
        OBVIOUS
      <3> QED
        BY <2>2, <2>3, <2>4, <3>1 DEF Rounds, Framed
    <2> QED
      BY ONLY <2>1, <2>2, <2>3, <2>4, <2>5 DEF Rounds, Reading
  <1>8. CASE VerdictLate
    BY <1>8 DEF VerdictLate, RoundInv
  <1>9. CASE GetSocket \/ GetSocketNull \/ SendThrows \/ SendOnDeleted
    BY <1>1, <1>2, <1>9, QuietRound
       DEF GetSocket, GetSocketNull, SendThrows, SendOnDeleted, netVars, updVars, Reading
  <1>10. CASE Send
    BY <1>10, QuietRound DEF Send, Link!Send, updVars, Reading
  <1>11. CASE Disconnect \/ Close \/ CloseThread \/ CloseWithoutThread
    BY <1>1, <1>2, <1>11 DEF Disconnect, Close, CloseThread, CloseWithoutThread
  <1>12. CASE Join \/ JoinNull \/ JoinReturns \/ JoinOnDeleted \/ ExitProcess
    BY <1>1, <1>2, <1>12 DEF Join, JoinNull, JoinReturns, JoinOnDeleted, ExitProcess
  <1>13. CASE JoinThrows
    BY <1>1, <1>13, QuietRound DEF JoinThrows, netVars, updVars, Reading
  <1> QED
    BY <1>3, <1>4, <1>5, <1>6, <1>7, <1>8, <1>9, <1>10, <1>11, <1>12, <1>13 DEF OwnerRuns
(* The loop reads a type, and then a message.                              *)
LEMMA UpdateRound ==
  ASSUME IInv, RoundInv, UpdateThread
  PROVE  RoundInv'
  <1>0. /\ ObjectInv /\ StreamInv /\ inq \in Seq(Piece) /\ Alive
        /\ own = "start" => upd = "none"
    BY DEF IInv, ObjectInv, Owner, StreamInv, StreamTypes, UpdateThread
  <1>1. ASSUME NEW how, End(how) PROVE RoundInv'
    BY <1>1, QuietRound DEF End, ownVars, updVars, Reading
  <1>2. CASE PollReadable \/ HandleOther
    BY <1>2, QuietRound DEF PollReadable, HandleOther, UpdGoes, netVars, ownVars, Reading, Looping
  <1>3. CASE CloseSeen \/ ReceiveEnd \/ ReceiveThrows
    BY <1>0, <1>3, QuietRound
       DEF CloseSeen, ReceiveEnd, ReceiveThrows, UpdGoes, netVars, ownVars, Reading, Looping
  <1>4. CASE HandleMessage
    BY <1>4, QuietRound DEF HandleMessage, netVars, ownVars, Reading, Looping
  <1>5. CASE Garbled \/ PollOnDeleted \/ UseAfterFree \/ ExitAsserts
    <2>1. upd # "none" /\ own # "start"
      BY <1>0, <1>5 DEF Garbled, PollOnDeleted, UseAfterFree, ExitAsserts, ObjectInv, Owner
    <2>2. ASSUME upd \in {"garbled", "poll"}, NEW to \in {"poll", "dead", "exit"}, UpdGoes(to)
          PROVE  RoundInv'
      BY <2>1, <2>2, QuietRound DEF UpdGoes, netVars, ownVars, Reading, Looping
    <2> QED
      BY <1>1, <1>5, <2>2 DEF Garbled, PollOnDeleted, UseAfterFree, ExitAsserts
  <1>6. CASE ExitCloses \/ ExitDeletes \/ ExitNulls \/ ExitClearsFlag \/ ExitDeletesThread
    BY <1>0, <1>6, QuietRound
       DEF ExitCloses, ExitDeletes, ExitNulls, ExitClearsFlag, ExitDeletesThread, netVars,
           ownVars, Reading, Looping
  <1>7. CASE ExitLast
    BY <1>0, <1>7, QuietRound DEF ExitLast, netVars, ownVars, Reading, Looping
  <1>8. CASE HandleMisread
    <2>1. UNCHANGED <<late, cut>> /\ upd = "handle" /\ ~WholeBody
      BY <1>8 DEF HandleMisread, ownVars
    <2> QED
      BY <2>1 DEF RoundInv, Rounds
  <1>9. CASE ReceiveType
    <2>0. cut \in BOOLEAN /\ (cut => cut')
      BY <1>0, <1>9 DEF ReceiveType, ObjectInv, ThreadTypes
    <2> SUFFICES ASSUME ~cut, ~cut', ~late PROVE Rounds'
      BY <1>9, <2>0 DEF RoundInv, ReceiveType, ownVars
    <2>1. /\ upd = "type" /\ upd' = "body" /\ inq # <<>>
          /\ UNCHANGED <<own, threw, body>>
      BY <1>9 DEF ReceiveType, ownVars
    <2>2. Rounds /\ Reading /\ own # "verdict" /\ own # "start"
      <3>1. ~threw /\ own # "verdict" /\ own # "start"
        BY <1>0, <2>1 DEF ObjectInv, Objects, Owner, Looping
      <3> QED
        BY <2>1, <3>1 DEF Reading, Looping, RoundInv
    <2>3. /\ 1 \in DOMAIN inq /\ 1 + 1 = 2 /\ inq[1].part = "type" /\ inq[1].pos # 1 /\ log # <<>>
      BY <1>0, <2>1, <2>2 DEF Rounds
    <2>5. inq' = Tail(inq) /\ log' = log /\ misread' = misread
      <3>1. PICK q \in AfterFour :
              /\ Leave(q)
              /\ misread' = (misread \/ ~Aligned(q))
              /\ cut' = (cut \/ (inq[1].part = "type" /\ ~Aligned(q)))
        BY <1>9 DEF ReceiveType
      <3>2. q = Tail(inq) /\ Aligned(q)
        BY <2>3, <3>1 DEF Aligned
      <3>3. ~misread /\ ~misread'
        BY <2>2, <3>1, <3>2 DEF Rounds
      <3>4. misread \in BOOLEAN /\ misread' \in BOOLEAN
        BY <1>0, <3>1 DEF ObjectInv, ThreadTypes
      <3> QED
        BY <3>1, <3>2, <3>3, <3>4 DEF Leave
    <2>6. 2 \in DOMAIN inq /\ inq[2] = At(inq[1].pos, "head")
      BY <2>2, <2>3 DEF Rounds, Framed
    <2>7. inq[2].part = "head"
      BY <2>6 DEF At
    <2>8. /\ Framed(inq')
          /\ \A i \in DOMAIN inq' : inq'[i].pos # 1
          /\ inq' # <<>> => inq'[1] = inq[2]
      BY <1>0, <2>1, <2>2, <2>5, FramedTail DEF Rounds
    <2>9. inq' # <<>>
      <3>1. Len(inq) \in Nat /\ DOMAIN inq = 1 .. Len(inq)
        BY <1>0
      <3>2. Len(inq) # 1
        BY <2>6, <3>1
      <3>3. Len(Tail(inq)) = Len(inq) - 1
        BY <1>0, <2>1
      <3> QED
        BY <2>5, <3>1, <3>2, <3>3
    <2> QED
      BY ONLY <2>1, <2>2, <2>3, <2>5, <2>7, <2>8, <2>9 DEF Rounds, Reading
  <1>10. CASE ReceiveBody
    <2>0. cut \in BOOLEAN /\ (cut => cut')
      BY <1>0, <1>10 DEF ReceiveBody, ObjectInv, ThreadTypes
    <2> SUFFICES ASSUME ~cut, ~cut', ~late PROVE Rounds'
      BY <1>10, <2>0 DEF RoundInv, ReceiveBody, ownVars
    <2>1. /\ upd = "body" /\ upd' = "handle"
          /\ UNCHANGED <<own, threw, misread>>
      BY <1>10 DEF ReceiveBody, ownVars
    <2>2. Rounds /\ Reading /\ own # "verdict" /\ own # "start"
      <3>1. ~threw /\ own # "verdict" /\ own # "start"
        BY <1>0, <2>1 DEF ObjectInv, Objects, Owner, Looping
      <3> QED
        BY <2>1, <3>1 DEF Reading, Looping, RoundInv
    <2>3. /\ inq # <<>> /\ 1 \in DOMAIN inq /\ 1 + 1 = 2 /\ inq[1].part = "head" /\ log # <<>>
      BY <1>0, <2>1, <2>2 DEF Rounds
    <2>4. PICK k \in 1 .. Len(inq) :
             /\ inq[k].part = "tail"
             /\ body' = SubSeq(inq, 1, k)
             /\ Leave(SubSeq(inq, k + 1, Len(inq)))
      <3>1. PICK k \in Prefixes :
              /\ body' = SubSeq(inq, 1, k)
              /\ Leave(SubSeq(inq, k + 1, Len(inq)))
              /\ cut' = (cut \/ ~EndsPacket(k))
        BY <1>10, <2>3 DEF ReceiveBody
      <3>2. k \in 1 .. Len(inq) /\ EndsPacket(k)
        BY <3>1 DEF Prefixes
      <3>3. k \in DOMAIN inq /\ inq[k].part # "rest"
        BY <1>0, <2>2, <3>2 DEF Rounds, Framed
      <3> QED  BY <3>1, <3>2, <3>3 DEF EndsPacket
    <2> DEFINE q == SubSeq(inq, k + 1, Len(inq))
    <2>5. /\ inq' = q /\ log' = log /\ q \in Seq(Piece) /\ Len(q) = Len(inq) - k
          /\ \A i \in 1 .. Len(q) : q[i] = inq[i + k]
      <3>1. inq' = q /\ log' = log
        BY <2>4 DEF Leave
      <3>2. /\ q \in Seq(Piece) /\ Len(q) = Len(inq) - k
            /\ \A i \in 1 .. Len(q) : q[i] = inq[i + k]
        BY ONLY <1>0, k \in 1 .. Len(inq)
      <3> HIDE DEF q
      <3> QED  BY ONLY <3>1, <3>2
    <2> HIDE DEF q
    <2>6. /\ Framed(q)
          /\ \A i \in DOMAIN q : q[i].pos # 1
          /\ q # <<>> => k \in DOMAIN inq /\ k + 1 \in DOMAIN inq /\ q[1] = inq[k + 1]
      BY <1>0, <2>2, <2>5, FramedRest DEF Rounds
    <2>7. q # <<>> => q[1].part = "type"
      BY <2>2, <2>4, <2>6 DEF Rounds, Framed
    <2>8. 2 \in DOMAIN inq /\ inq[2] = At(inq[1].pos, "tail")
      BY <2>2, <2>3 DEF Rounds, Framed
    <2>9. k >= 2
      <3>1. k # 1
        BY <2>3, <2>4
      <3> QED
        BY <3>1
    <2>10. Len(body') = k /\ body'[1] = inq[1] /\ body'[2] = inq[2]
      BY <1>0, <2>4, <2>8, <2>9
    <2>11. WholeBody'
      BY <2>3, <2>8, <2>9, <2>10 DEF WholeBody
    <2> QED
      BY ONLY <2>1, <2>2, <2>3, <2>5, <2>6, <2>7, <2>11 DEF Rounds, Reading, Looping
  <1> QED
    BY <1>2, <1>3, <1>4, <1>5, <1>6, <1>7, <1>8, <1>9, <1>10 DEF UpdateThread

(* What may have been cut stays so.                                        *)
LEMMA CutMayStay ==
  ASSUME sent \in Nat, sent' \in {sent, sent + 1}, Link!MayBeCut
  PROVE  Link!MayBeCut'
  <1>0. MAX_BUFFER_LENGTH \in Nat
    BY ClientAssumption
  <1>1. CASE Segmented
    BY <1>1 DEF Link!MayBeCut
  <1>2. CASE sent * 266 > MAX_BUFFER_LENGTH
    <2>1. sent * 266 \in Nat /\ (sent + 1) * 266 = sent * 266 + 266
      OBVIOUS
    <2>2. sent' * 266 = sent * 266 \/ sent' * 266 = sent * 266 + 266
      BY <2>1
    <2>3. \A x, y \in Nat : x > y => x + 266 > y
      OBVIOUS
    <2>4. sent' * 266 > MAX_BUFFER_LENGTH
      BY ONLY <1>0, <1>2, <2>1, <2>2, <2>3
    <2> QED  BY <2>4 DEF Link!MayBeCut, Link!LongestFrame
  <1> QED  BY <1>1, <1>2 DEF Link!MayBeCut, Link!LongestFrame

(* A cause is not taken back.                                              *)
LEMMA CausesStay ==
  ASSUME IInv, CauseInv, UNCHANGED cut, late => late', sent' \in {sent, sent + 1},
         \/ log' = log
         \/ \E p \in Link!Packets :
              log' = Append(log, p) /\ (p.n = 0 /\ log # <<>> => Link!MayBeCut)
  PROVE  CauseInv'
  <1> DEFINE l == Len(log)
  <1>0. log \in Seq(Link!Packets) /\ l \in Nat /\ sent \in Nat
    BY DEF IInv, StreamInv, StreamTypes
  <1>1. Link!MayBeCut => Link!MayBeCut'
    BY <1>0, CutMayStay
  <1>2. ASSUME NEW p \in Link!Packets, log' = Append(log, p)
        PROVE  /\ Len(log') = l + 1 /\ DOMAIN log' = 1 .. l + 1 /\ DOMAIN log = 1 .. l
               /\ \A i \in 1 .. l : log'[i] = log[i]
               /\ log'[l + 1] = p
    BY <1>0, <1>2
  <1>3. GarbledCause'
    <2>1. ASSUME NEW p \in Link!Packets, log' = Append(log, p),
                 p.n = 0 /\ log # <<>> => Link!MayBeCut,
                 NEW i \in DOMAIN log', i > 1, log'[i].n = 0
          PROVE  Link!MayBeCut'
      <3>1. CASE i \in 1 .. l
        BY <1>1, <1>2, <2>1, <3>1 DEF CauseInv, GarbledCause, Link!Garbled
      <3>2. CASE i = l + 1
        <4>1. log # <<>>
          BY <1>0, <2>1, <3>2
        <4> QED  BY <1>1, <1>2, <2>1, <3>2, <4>1
      <3> QED  BY <1>0, <1>2, <2>1, <3>1, <3>2
    <2>2. CASE log' = log
      BY <1>1, <2>2 DEF CauseInv, GarbledCause
    <2> QED  BY <2>1, <2>2 DEF GarbledCause, Link!Garbled
  <1>4. 264 * (l - 1) > MAX_BUFFER_LENGTH => 264 * (Len(log') - 1) > MAX_BUFFER_LENGTH
    <2>1. Len(log') \in {l, l + 1}
      BY <1>2
    <2>2. MAX_BUFFER_LENGTH \in Nat
      BY ClientAssumption
    <2> HIDE DEF l
    <2> QED  BY ONLY <1>0, <2>1, <2>2
  <1>5. ~late' => CutCause'
    BY <1>1, <1>4 DEF CauseInv, CutCause, LongestEcho
  <1> QED  BY <1>3, <1>5 DEF CauseInv

(* A receive ends inside a packet where TCP cut it, where a text before it *)
(* was garbled, or where the echoes that arrived do not fit the buffer.    *)
LEMMA CutHasCause ==
  ASSUME IInv, RoundInv, CauseInv, Alive, ReceiveType \/ ReceiveBody, ~late, ~cut, cut'
  PROVE  Link!MayBeCut \/ 264 * (Len(log) - 1) > MAX_BUFFER_LENGTH
  <1>0. /\ inq \in Seq(Piece) /\ log \in Seq(Link!Packets) /\ Len(log) \in Nat
        /\ Queue /\ ObjectInv
    BY DEF IInv, StreamInv, StreamTypes
  <1>1. CASE ReceiveType
    <2>1. PICK q \in AfterFour : inq[1].part = "type" /\ ~Aligned(q)
      BY <1>1 DEF ReceiveType
    <2> QED  BY <2>1 DEF AfterFour, Aligned, Link!MayBeCut
  <1>2. CASE ReceiveBody
    <2>1. PICK k \in Prefixes : ~EndsPacket(k) \/ Segmented
      <3>1. CASE \E k \in Prefixes : cut' = (cut \/ ~EndsPacket(k))
        BY <3>1
      <3>2. CASE (IF inq = <<>> THEN srv = "open" ELSE Segmented) /\ cut' = (cut \/ inq # <<>>)
        <4>1. inq # <<>> /\ Segmented
          BY <3>2
        <4>2. 1 \in Prefixes
          BY <1>0, <4>1, ClientAssumption DEF Prefixes, LongestEcho
        <4> QED  BY <4>1, <4>2
      <3> QED  BY <1>2, <3>1, <3>2 DEF ReceiveBody
    <2>2. k \in 1 .. Len(inq) /\ (Segmented \/ Overfull(k))
      BY <2>1 DEF Prefixes
    <2>3. Rounds /\ Reading
      <3>1. Rounds
        BY DEF RoundInv
      <3>2. upd = "body"
        BY <1>2 DEF ReceiveBody
      <3> QED  BY <1>0, <3>1, <3>2 DEF Reading, ObjectInv, Objects, Looping
    <2> DEFINE packets == {inq[i].pos : i \in 1 .. k}
    <2>4. packets \subseteq 2 .. Len(log)
      <3> SUFFICES ASSUME NEW i \in 1 .. k PROVE inq[i].pos \in 2 .. Len(log)
        OBVIOUS
      <3>1. i \in DOMAIN inq
        BY <1>0, <2>2
      <3> QED  BY <1>0, <2>3, <3>1 DEF Queue, Rounds
    <2>5. CASE Segmented
      BY <2>5 DEF Link!MayBeCut
    <2>6. CASE \E i \in packets : i > 1 /\ log[i].n = Link!Garbled
      <3>1. \A i \in packets : i \in DOMAIN log
        <4> HIDE DEF packets
        <4>1. DOMAIN log = 1 .. Len(log)
          BY <1>0
        <4>2. \A i \in 2 .. Len(log) : i \in 1 .. Len(log)
          BY <1>0
        <4> QED  BY ONLY <2>4, <4>1, <4>2
      <3> QED  BY <2>6, <3>1 DEF CauseInv, GarbledCause
    <2>7. CASE 264 * Cardinality(packets) > MAX_BUFFER_LENGTH
      <3>1. /\ IsFiniteSet(2 .. Len(log))
            /\ Cardinality(2 .. Len(log)) = IF 2 > Len(log) THEN 0 ELSE Len(log) - 2 + 1
        <4>1. 2 \in Int /\ Len(log) \in Int
          BY <1>0
        <4> QED  BY ONLY <4>1, FS_Interval
      <3>2. Cardinality(packets) <= Cardinality(2 .. Len(log)) /\ IsFiniteSet(packets)
        BY <2>4, <3>1, FS_Subset
      <3>3. Cardinality(packets) \in Nat
        BY <3>2, FS_CardinalityType
      <3>4. log # <<>>
        BY <2>3 DEF Rounds
      <3>5. Len(log) >= 1
        BY <1>0, <3>4
      <3> HIDE DEF packets
      <3>6. Cardinality(packets) <= Len(log) - 1
        BY <1>0, <3>1, <3>2, <3>3, <3>5
      <3>7. MAX_BUFFER_LENGTH \in Nat
        BY ClientAssumption
      <3> QED  BY ONLY <1>0, <2>7, <3>3, <3>6, <3>7
    <2> QED  BY <2>2, <2>5, <2>6, <2>7 DEF Overfull, LongestEcho
  <1> QED  BY <1>1, <1>2

LEMMA CauseStep == IInv /\ RoundInv /\ CauseInv /\ [Next]_vars => CauseInv'
  <1> SUFFICES ASSUME IInv, RoundInv, CauseInv, [Next]_vars PROVE CauseInv'
    OBVIOUS
  <1>0. sent \in Nat /\ cut \in BOOLEAN
    BY DEF IInv, StreamInv, StreamTypes, ObjectInv, ThreadTypes
  <1>1. CASE Server
    <2>1. UNCHANGED <<cut, late, sent>>
      BY <1>1 DEF Server, ServerVerdict, ServerEcho, ServerHangsUp, updVars, ownVars,
                  Link!Accept, Link!Kick, Link!Echo, Link!HangUp
    <2>2. CASE ServerHangsUp
      BY <2>1, <2>2, CausesStay DEF ServerHangsUp, Link!HangUp
    <2>3. CASE ServerVerdict
      <3>1. /\ log = <<>>
            /\ \E t \in {"ACCEPT", "KICK"} : log' = Append(log, Link!Packet(t, 0))
        <4>1. Link!Accept \/ Link!Kick
          BY <2>3 DEF ServerVerdict
        <4>2. log = <<>>
          BY <4>1 DEF Link!Accept, Link!Kick
        <4> QED  BY <4>1, <4>2, VerdictKeepsOrder DEF IInv
      <3>2. \A t \in {"ACCEPT", "KICK"} : Link!Packet(t, 0) \in Link!Packets
        BY DEF Link!Packet, Link!Packets
      <3> QED  BY <2>1, <3>1, <3>2, CausesStay
    <2>4. ASSUME NEW n \in 0 .. sent, ServerEcho(n) PROVE CauseInv'
      <3>1. /\ log' = Append(log, Link!Packet("MESSAGE", n))
            /\ (n = 0 /\ Link!MayBeCut) \/ n \in 1 .. sent
        BY <2>4 DEF ServerEcho, Link!Echo, Link!Garbled
      <3>2. Link!Packet("MESSAGE", n) \in Link!Packets /\ Link!Packet("MESSAGE", n).n = n
        BY <1>0 DEF Link!Packet, Link!Packets
      <3>3. n = 0 => Link!MayBeCut
        BY <3>1
      <3> QED  BY <2>1, <3>1, <3>2, <3>3, CausesStay
    <2> QED  BY <1>1, <2>2, <2>3, <2>4 DEF Server
  <1>2. CASE (Alive /\ Menu) \/ OwnerRuns
    <2>1. UNCHANGED <<cut, log>> /\ (late => late') /\ sent' \in {sent, sent + 1}
      BY <1>2 DEF OwnerRuns, ConnectFails, Connect, VerdictAccept, VerdictLate, VerdictDenied,
                Run, GetSocket, GetSocketNull, Send, SendThrows, SendOnDeleted, Disconnect,
                Close, CloseThread, CloseWithoutThread, Request, Join, JoinNull, JoinThrows,
                JoinReturns, JoinOnDeleted, Delete, ExitProcess, Menu, ChooseMessage,
                ChooseQuit, InputFails, OwnGoes, End, Leave, Link!Connect, Link!Send,
                netVars, ownVars, updVars
    <2> QED  BY <2>1, CausesStay
  <1>3. CASE UpdateThread
    <2>1. UNCHANGED <<log, late, sent>>
      BY <1>3 DEF UpdateThread, PollReadable, CloseSeen, ReceiveType, ReceiveEnd, ReceiveBody,
                HandleMessage, HandleOther, HandleMisread, Garbled, ReceiveThrows,
                PollOnDeleted, ExitAsserts, ExitCloses, ExitDeletes, ExitNulls,
                ExitClearsFlag, ExitDeletesThread, ExitLast, UseAfterFree, UpdGoes, End,
                Leave, netVars, ownVars
    <2>2. CASE UNCHANGED cut
      BY <2>1, <2>2, CausesStay
    <2>3. CASE cut' # cut
      <3>1. Alive /\ (ReceiveType \/ ReceiveBody)
        BY <1>3, <2>3
           DEF UpdateThread, PollReadable, CloseSeen, ReceiveEnd,
                HandleMessage, HandleOther, HandleMisread, Garbled, ReceiveThrows,
                PollOnDeleted, ExitAsserts, ExitCloses, ExitDeletes, ExitNulls,
                ExitClearsFlag, ExitDeletesThread, ExitLast, UseAfterFree, UpdGoes, End,
                updVars
      <3>2. ~cut /\ cut'
        BY <1>0, <2>3, <3>1 DEF ReceiveType, ReceiveBody
      <3>3. ~late => Link!MayBeCut \/ 264 * (Len(log) - 1) > MAX_BUFFER_LENGTH
        BY <3>1, <3>2, CutHasCause
      <3>4. GarbledCause' /\ (Link!MayBeCut <=> Link!MayBeCut')
        BY <2>1 DEF CauseInv, GarbledCause, Link!MayBeCut
      <3> QED  BY <2>1, <3>3, <3>4 DEF CauseInv, CutCause, LongestEcho
    <2> QED  BY <2>2, <2>3
  <1>4. CASE UNCHANGED vars
    BY <1>4, CausesStay DEF vars, netVars, updVars, ownVars
  <1> QED  BY <1>1, <1>2, <1>3, <1>4 DEF Next

(* Until a receive ends inside a packet no bytes are taken for what they   *)
(* are not; and none ends there as long as nothing was cut on its way and  *)
(* the buffer takes every echo that the server has sent.                   *)
THEOREM WholePacketsAreRead == Spec => []WholePacketsRead
  <1>1. Init => RoundInv /\ CauseInv
    BY DEF Init, RoundInv, Rounds, Reading, Framed, Looping, CauseInv, GarbledCause, CutCause
  <1>2. IInv /\ RoundInv /\ [Next]_vars => RoundInv'
    <2> SUFFICES ASSUME IInv, RoundInv, [Next]_vars PROVE RoundInv'
      OBVIOUS
    <2>1. CASE UNCHANGED vars
      BY <2>1, QuietRound DEF vars, netVars, ownVars, updVars, Reading
    <2> QED
      BY <2>1, ServerRound, OwnerRound, UpdateRound DEF Next
  <1>3. RoundInv /\ CauseInv => WholePacketsRead
    BY DEF RoundInv, Rounds, CauseInv, CutCause, WholePacketsRead
  <1> QED
    BY <1>1, <1>2, <1>3, CauseStep, Invariance, PTL DEF Spec
-------------------------------------------------------------------------------
(* How the threads come to an end.  What is left to read, in receives, is  *)
(* a number, and a receive makes it smaller.                               *)
LEMMA UnreadFacts ==
  ASSUME StreamTypes
  PROVE  /\ Unread \in Nat
         /\ StreamTypes' => Unread' \in Nat
         /\ inq # <<>> /\ StreamTypes' /\ inq' \in AfterFour => Unread' < Unread
         /\ \A k \in 1 .. Len(inq) :
              StreamTypes' /\ inq' = SubSeq(inq, k + 1, Len(inq)) => Unread' <= Unread
  <1> DEFINE u(n, b) == 2 * n - IF n > 0 /\ b THEN 1 ELSE 0
             first == inq[1].part = "rest"
  <1>1. Len(inq) \in Nat /\ (inq # <<>> <=> Len(inq) > 0)
    BY DEF StreamTypes
  <1>2. StreamTypes' => Len(inq') \in Nat /\ (inq' # <<>> <=> Len(inq') > 0)
    BY DEF StreamTypes
  <1>3. Unread = u(Len(inq), first)
    BY <1>1 DEF Unread
  <1>4. StreamTypes' => Unread' = u(Len(inq'), first')
    BY <1>2 DEF Unread
  <1>5. ASSUME inq # <<>>, inq' \in AfterFour
        PROVE  \/ Len(inq') = Len(inq) - 1
               \/ Len(inq') = Len(inq) /\ ~first /\ first'
    <2>1. Tail(inq) \in Seq(Piece) /\ Len(Tail(inq)) = Len(inq) - 1
      BY ONLY <1>5, StreamTypes, HeadTailProperties, Zenon DEF StreamTypes
    <2>2. CASE inq' = Tail(inq)
      BY ONLY <2>1, <2>2, Zenon
    <2>3. CASE /\ inq' = <<At(inq[1].pos, "rest")>> \o Tail(inq)
               /\ inq[1].part \in {"tail", "type"}
      <3> DEFINE a == At(inq[1].pos, "rest")
      <3>1. a.part = "rest"
        BY DEF At
      <3> HIDE DEF a
      <3>2. <<a>> \in Seq({a} \cup Piece) /\ Tail(inq) \in Seq({a} \cup Piece)
        BY <2>1
      <3>3. Len(<<a>> \o Tail(inq)) = 1 + Len(Tail(inq)) /\ (<<a>> \o Tail(inq))[1] = a
        BY <3>2
      <3>4. inq' = <<a>> \o Tail(inq)
        BY <2>3 DEF a
      <3>5. Len(inq') = Len(inq)
        BY ONLY <1>1, <2>1, <3>3, <3>4
      <3>6. inq'[1].part = "rest" /\ ~(inq[1].part = "rest")
        BY ONLY <2>3, <3>1, <3>3, <3>4
      <3> QED  BY <3>5, <3>6
    <2>4. inq' = Tail(inq) \/ (/\ inq' = <<At(inq[1].pos, "rest")>> \o Tail(inq)
                                /\ inq[1].part \in {"tail", "type"})
      BY ONLY <1>5 DEF AfterFour
    <2> QED  BY ONLY <2>2, <2>3, <2>4, Zenon
  <1>6. ASSUME NEW k \in 1 .. Len(inq), inq' = SubSeq(inq, k + 1, Len(inq))
        PROVE  Len(inq') = Len(inq) - k
    BY <1>1, <1>6 DEF StreamTypes
  <1> HIDE DEF first
  <1>7. \A n \in Nat : u(n, first) \in Nat /\ u(n, first') \in Nat
    OBVIOUS
  <1>8. \A m, n \in Nat : m < n => u(m, first') < u(n, first)
    OBVIOUS
  <1>9. \A n \in Nat : n > 0 /\ ~first /\ first' => u(n, first') < u(n, first)
    OBVIOUS
  <1> HIDE DEF u
  <1>10. ASSUME inq # <<>>, StreamTypes', inq' \in AfterFour PROVE Unread' < Unread
    <2>1. CASE Len(inq') = Len(inq) - 1
      <3>1. Len(inq') < Len(inq)
        BY <1>1, <2>1
      <3> QED  BY ONLY <1>1, <1>2, <1>3, <1>4, <1>8, <1>10, <3>1
    <2>2. CASE Len(inq') = Len(inq) /\ ~first /\ first'
      BY <1>1, <1>3, <1>4, <1>9, <1>10, <2>2
    <2> QED  BY <1>5, <1>10, <2>1, <2>2
  <1>11. ASSUME NEW k \in 1 .. Len(inq), StreamTypes', inq' = SubSeq(inq, k + 1, Len(inq))
         PROVE  Unread' <= Unread
    <2>1. Len(inq') < Len(inq)
      BY <1>1, <1>6, <1>11
    <2>2. Unread' < Unread
      BY ONLY <1>1, <1>2, <1>3, <1>4, <1>8, <1>11, <2>1
    <2>3. Unread \in Nat /\ Unread' \in Nat
      BY ONLY <1>1, <1>2, <1>3, <1>4, <1>7, <1>11
    <2> QED  BY ONLY <2>2, <2>3
  <1> QED
    BY <1>1, <1>2, <1>3, <1>4, <1>7, <1>10, <1>11

(* The moves of the update thread: in the loop, where the socket is there; *)
(* by a receive; and on its way out, with a second round after the catch   *)
(* clause.                                                                 *)
Moves(from, to) == upd \in from /\ upd' \in to

LoopMove ==
  /\ m_pSocket /\ m_pSocket'
  /\ UNCHANGED inq
  /\ \/ Moves({"poll"}, {"type"}) /\ ~m_bCloseRequested
     \/ Moves({"poll", "type", "body"}, {"exit"})
     \/ Moves({"body"}, {"handle"})
     \/ Moves({"handle"}, {"poll", "garbled"})
     \/ Moves({"garbled"}, {"poll", "dead"})
     \/ Moves({"exit"}, {"exitDelete"})
     \/ Moves({"exitDelete"}, {"exitNull"})

ReadMove ==
  /\ m_pSocket /\ m_pSocket'
  /\ \/ Moves({"type"}, {"body"}) /\ inq # <<>> /\ inq' \in AfterFour
     \/ /\ Moves({"body"}, {"handle"})
        /\ \E k \in 1 .. Len(inq) : inq' = SubSeq(inq, k + 1, Len(inq))

OutMove ==
  /\ ~m_pSocket'
  /\ UNCHANGED inq
  /\ \/ m_pSocket /\ Moves({"exitNull"}, {"exitFlag"})
     \/ /\ ~m_pSocket
        /\ \/ Moves({"exitFlag"}, {"exitThread"}) \/ Moves({"exitThread"}, {"exitLast"})
           \/ Moves({"exitLast"}, {"poll", "done"}) \/ Moves({"poll"}, {"exit"})

Quiet == UNCHANGED <<updVars, inq, m_pSocket>>

LEMMA UpdateMoves ==
  ASSUME ObjectInv, UpdateThread
  PROVE  LoopMove \/ ReadMove \/ OutMove \/ Quiet
  <1> USE DEF ObjectInv, Objects, Live, Gone, Looping, Exiting, UpdOver, netVars, objVars
  <1>0. m_pSocket \in BOOLEAN
    BY DEF ThreadTypes
  <1>1. ASSUME NEW how, End(how) PROVE Quiet
    BY <1>1 DEF End, Quiet
  <1>2. CASE PollReadable \/ CloseSeen \/ (PollOnDeleted /\ ~End("crash"))
    BY <1>0, <1>2 DEF PollReadable, CloseSeen, PollOnDeleted, UpdGoes, LoopMove, OutMove, Moves
  <1>3. CASE ReceiveEnd \/ ReceiveThrows \/ HandleOther \/ HandleMessage \/ HandleMisread
    BY <1>0, <1>3 DEF ReceiveEnd, ReceiveThrows, HandleOther, HandleMessage, HandleMisread,
                      UpdGoes, LoopMove, Moves
  <1>4. CASE ReceiveType
    BY <1>0, <1>4 DEF ReceiveType, Leave, ReadMove, Moves
  <1>5. CASE ReceiveBody
    BY <1>0, <1>5 DEF ReceiveBody, Prefixes, Leave, ReadMove, LoopMove, Moves
  <1>6. CASE Garbled /\ ~End("crash")
    BY <1>0, <1>6 DEF Garbled, UpdGoes, LoopMove, Moves
  <1>7. CASE ExitCloses \/ ExitDeletes
    BY <1>0, <1>7 DEF ExitCloses, ExitDeletes, LoopMove, Moves
  <1>8. CASE ExitNulls
    BY <1>0, <1>8 DEF ExitNulls, OutMove, Moves
  <1>9. CASE ExitClearsFlag \/ ExitDeletesThread \/ ExitLast
    BY <1>0, <1>9 DEF ExitClearsFlag, ExitDeletesThread, ExitLast, OutMove, Moves
  <1>10. CASE ExitAsserts \/ UseAfterFree \/ End("crash")
    BY <1>1, <1>10 DEF ExitAsserts, UseAfterFree
  <1> QED
    BY <1>2, <1>3, <1>4, <1>5, <1>6, <1>7, <1>8, <1>9, <1>10 DEF UpdateThread

(* A loop that has been asked does not go round again, and Exit ends.      *)
LEMMA AskedFalls ==
  ASSUME ObjectInv, Asked, own \in {"join", "waiting"}, UpdateThread
  PROVE  AskedLeft' < AskedLeft \/ (UNCHANGED updVars /\ AskedLeft' = AskedLeft)
  <1> USE DEF AskedLeft, InLoop, ExitLeft, Looping, Moves
  <1>1. m_pSocket => ~(upd \in Looping /\ threw)
    BY DEF ObjectInv, Objects, Gone
  <1>2. CASE LoopMove
    BY <1>1, <1>2 DEF LoopMove, Asked
  <1>3. CASE ReadMove
    BY <1>3 DEF ReadMove
  <1>4. CASE OutMove
    BY <1>4 DEF OutMove
  <1>5. CASE Quiet
    BY <1>5 DEF Quiet, updVars
  <1> QED
    BY <1>2, <1>3, <1>4, <1>5, UpdateMoves

(* A loop that has nothing more to come ends.                              *)
LEMMA DrainFalls ==
  ASSUME ObjectInv, StreamTypes, StreamTypes', UpdateThread
  PROVE  DrainLeft' < DrainLeft \/ (UNCHANGED updVars /\ DrainLeft' = DrainLeft)
  <1> USE DEF DrainLeft, InLoop, ExitLeft, Looping, Moves
  <1>1. Unread \in Nat /\ Unread' \in Nat
    BY UnreadFacts
  <1>2. inq' = inq => Unread' = Unread
    BY DEF Unread
  <1>3. CASE LoopMove
    BY <1>1, <1>2, <1>3 DEF LoopMove
  <1>4. CASE ReadMove
    <2>1. CASE Moves({"type"}, {"body"})
      <3>1. Unread' < Unread
        BY <1>4, <2>1, UnreadFacts DEF ReadMove
      <3> QED  BY <1>1, <1>4, <2>1, <3>1 DEF ReadMove
    <2>2. CASE Moves({"body"}, {"handle"})
      <3>1. Unread' <= Unread
        BY <1>4, <2>2, UnreadFacts DEF ReadMove
      <3> QED  BY <1>1, <1>4, <2>2, <3>1 DEF ReadMove
    <2> QED  BY <1>4, <2>1, <2>2 DEF ReadMove
  <1>5. CASE OutMove
    BY <1>1, <1>2, <1>5 DEF OutMove
  <1>6. CASE Quiet
    BY <1>2, <1>6 DEF Quiet, updVars
  <1> QED
    BY <1>3, <1>4, <1>5, <1>6, UpdateMoves

(* The other thread, the user and the server leave the update thread, its  *)
(* socket and, when the server has gone, what it has to read.              *)
LEMMA OthersLeave ==
  ASSUME ObjectInv, Server \/ (Alive /\ Menu) \/ OwnerRuns, upd # "none"
  PROVE  UNCHANGED <<updVars, m_pSocket>> /\ (srv = "closed" => UNCHANGED inq)
  <1> USE DEF netVars, updVars, objVars
  <1>1. own \notin {"connect", "verdict", "start"}
    BY DEF ObjectInv, Owner
  <1>2. CASE Server
    BY <1>2 DEF Server, ServerVerdict, ServerEcho, ServerHangsUp, Link!Accept, Link!Kick,
                Link!Echo, Link!HangUp
  <1>3. CASE Menu
    BY <1>3 DEF Menu, ChooseMessage, ChooseQuit, InputFails, OwnGoes, End
  <1>4. CASE GetSocket \/ GetSocketNull \/ Send \/ SendThrows \/ SendOnDeleted
    BY <1>4 DEF GetSocket, GetSocketNull, Send, SendThrows, SendOnDeleted, OwnGoes, End
  <1>5. CASE Disconnect \/ Close \/ CloseThread \/ CloseWithoutThread \/ Request \/ Join
             \/ JoinNull \/ JoinThrows \/ JoinReturns \/ JoinOnDeleted \/ Delete
             \/ ExitProcess
    BY <1>5 DEF Disconnect, Close, CloseThread, CloseWithoutThread, Request, Join, JoinNull,
                JoinThrows, JoinReturns, JoinOnDeleted, Delete, ExitProcess, OwnGoes, End
  <1> QED
    BY <1>1, <1>2, <1>3, <1>4, <1>5
       DEF OwnerRuns, ConnectFails, Connect, VerdictAccept, VerdictLate, VerdictDenied, Run

(* A request is not lost while the thread is in its loop.                  *)
LEMMA AskedStep == ObjectInv /\ Asked /\ [Next]_vars => Asked'
  <1> SUFFICES ASSUME ObjectInv, Asked, [Next]_vars PROVE Asked'
    OBVIOUS
  <1> USE DEF Asked, netVars, ownVars, updVars, objVars
  <1>1. CASE Server
    BY <1>1 DEF Server
  <1>2. CASE UpdateThread
    BY <1>2 DEF UpdateThread, PollReadable, CloseSeen, ReceiveType, ReceiveEnd, ReceiveBody,
                HandleMessage, HandleOther, HandleMisread, Garbled, ReceiveThrows,
                PollOnDeleted, ExitAsserts, ExitCloses, ExitDeletes, ExitNulls,
                ExitClearsFlag, ExitDeletesThread, ExitLast, UseAfterFree, UpdGoes, End,
                Looping
  <1>3. CASE OwnerRuns \/ (Alive /\ Menu)
    BY <1>3 DEF OwnerRuns, ConnectFails, Connect, VerdictAccept, VerdictLate, VerdictDenied,
                Run, GetSocket, GetSocketNull, Send, SendThrows, SendOnDeleted, Disconnect,
                Close, CloseThread, CloseWithoutThread, Request, Join, JoinNull, JoinThrows,
                JoinReturns, JoinOnDeleted, Delete, ExitProcess, Menu, ChooseMessage,
                ChooseQuit, InputFails, OwnGoes, End
  <1>4. CASE UNCHANGED vars
    BY <1>4 DEF vars
  <1> QED
    BY <1>1, <1>2, <1>3, <1>4 DEF Next

(* The owner on its way out.                                               *)
LEMMA OwnerFalls ==
  ASSUME ObjectInv, Next, own \in Leaving
  PROVE  OwnerLeft' < OwnerLeft \/ UNCHANGED ownVars
  <1> USE DEF ownVars, Leaving, OwnerLeft
  <1>0. byMain \in BOOLEAN
    BY DEF ObjectInv, ThreadTypes
  <1>1. CASE Server \/ UpdateThread
    BY <1>1 DEF Server, UpdateThread, PollReadable, CloseSeen, ReceiveType, ReceiveEnd,
                ReceiveBody, HandleMessage, HandleOther, HandleMisread, Garbled,
                ReceiveThrows, PollOnDeleted, ExitAsserts, ExitCloses, ExitDeletes,
                ExitNulls, ExitClearsFlag, ExitDeletesThread, ExitLast, UseAfterFree,
                UpdGoes, End
  <1>2. CASE Disconnect \/ Close \/ CloseThread \/ Request \/ Join \/ JoinReturns \/ Delete
    BY <1>0, <1>2 DEF Disconnect, Close, CloseThread, Request, Join, JoinReturns, Delete,
                      OwnGoes
  <1>3. CASE JoinThrows
    BY <1>0, <1>3 DEF JoinThrows, End
  <1>4. CASE CloseWithoutThread \/ JoinNull \/ JoinOnDeleted \/ ExitProcess
    BY <1>4 DEF CloseWithoutThread, JoinNull, JoinOnDeleted, ExitProcess, End
  <1> QED
    BY <1>1, <1>2, <1>3, <1>4
       DEF Next, OwnerRuns, Menu, ChooseMessage, ChooseQuit, InputFails, ConnectFails, Connect,
           VerdictAccept, VerdictLate, VerdictDenied, Run, GetSocket, GetSocketNull, Send,
           SendThrows, SendOnDeleted

(* Once the server has gone, the update thread ends after as many steps as *)
(* there are left to read what has arrived, however it was cut, and to run *)
(* Exit, twice if the catch clause calls it.                               *)
THEOREM HangUpIsNear == Spec => HangUpDescends
  <1> DEFINE Nearer == Alive /\ srv = "closed" /\ upd # "none" =>
                         DrainLeft' < DrainLeft \/ (UNCHANGED updVars /\ DrainLeft' = DrainLeft)
  <1>1. IInv /\ IInv' /\ [Next]_vars => [Nearer]_vars
    <2> SUFFICES ASSUME IInv, IInv', Next, srv = "closed", upd # "none"
                 PROVE  DrainLeft' < DrainLeft \/ (UNCHANGED updVars /\ DrainLeft' = DrainLeft)
      OBVIOUS
    <2>1. CASE UpdateThread
      BY <2>1, DrainFalls DEF IInv, StreamInv
    <2>2. CASE ~UpdateThread
      <3>1. UNCHANGED <<updVars, m_pSocket, inq>>
        BY <2>2, OthersLeave DEF Next, IInv
      <3> QED  BY <3>1 DEF DrainLeft, InLoop, ExitLeft, Unread, updVars
    <2> QED  BY <2>1, <2>2
  <1>2. [][Nearer]_vars <=> HangUpDescends
    BY DEF HangUpDescends
  <1> HIDE DEF Nearer
  <1> QED
    BY <1>1, <1>2, Invariance, PTL DEF Spec

(* A client that disconnects comes to its end wherever the update thread   *)
(* is: the owner goes on, and while it waits in join() so does the thread. *)
THEOREM DisconnectIsNear == Spec => DisconnectDescends
  <1> DEFINE Nearer == Alive /\ own \in Leaving =>
               /\ OwnerLeft' < OwnerLeft \/ UNCHANGED ownVars
               /\ own \in {"join", "waiting"} =>
                    AskedLeft' < AskedLeft \/ (UNCHANGED updVars /\ AskedLeft' = AskedLeft)
  <1>1. ObjectInv /\ Asked /\ [Next]_vars => [Nearer]_vars
    <2> SUFFICES ASSUME ObjectInv, Asked, Next, own \in Leaving
                 PROVE  /\ OwnerLeft' < OwnerLeft \/ UNCHANGED ownVars
                        /\ own \in {"join", "waiting"} =>
                             \/ AskedLeft' < AskedLeft
                             \/ UNCHANGED updVars /\ AskedLeft' = AskedLeft
      OBVIOUS
    <2>1. OwnerLeft' < OwnerLeft \/ UNCHANGED ownVars
      BY OwnerFalls
    <2>2. ASSUME own \in {"join", "waiting"}
          PROVE  AskedLeft' < AskedLeft \/ (UNCHANGED updVars /\ AskedLeft' = AskedLeft)
      <3>1. CASE UpdateThread
        BY <2>2, <3>1, AskedFalls
      <3>2. CASE ~UpdateThread
        <4>1. upd # "none"
          BY <2>2 DEF ObjectInv, Owner
        <4>2. UNCHANGED <<updVars, m_pSocket>>
          BY <3>2, <4>1, OthersLeave DEF Next
        <4> QED  BY <4>2 DEF AskedLeft, InLoop, ExitLeft, updVars
      <3> QED  BY <3>1, <3>2
    <2> QED  BY <2>1, <2>2
  <1>2. Init => Asked
    BY DEF Init, Asked
  <1>3. [][Nearer]_vars <=> DisconnectDescends
    BY DEF DisconnectDescends
  <1> HIDE DEF Nearer
  <1> QED
    BY <1>1, <1>2, <1>3, AskedStep, ObjectInvariance, PTL DEF Spec
===============================================================================
