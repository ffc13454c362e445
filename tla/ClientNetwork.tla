----------------------------- MODULE ClientNetwork -----------------------------
(***************************************************************************)
(* The echo client: CClient with its menu, and the CNetwork object that    *)
(* its threads share without a lock.  The owner is main() until CClient::  *)
(* Run, then the action thread, then main() again; it connects, sends,     *)
(* closes the network and deletes it.  The update thread (CNetwork::       *)
(* OnUpdate) reads packets, and deletes the socket and its own thread      *)
(* object when it ends.                                                    *)
(*                                                                         *)
(* The server is any server that keeps the contract of EchoLink.  What it  *)
(* sends is a queue of pieces: the type, the length (head) and the text    *)
(* (tail) of a packet; a verdict is a type alone.                          *)
(*                                                                         *)
(* Undefined behaviour is a choice.  A call on a deleted object crashes,   *)
(* or it finds the object as it was left: the socket was closed before it  *)
(* was deleted, so a call on it throws; the join() of a deleted thread     *)
(* object may throw or return.                                             *)
(*                                                                         *)
(* Operators marked "Fault" are wrong variants of the one that follows,    *)
(* used only by tests of the properties.                                   *)
(***************************************************************************)
EXTENDS Naturals, Sequences, FiniteSets

CONSTANTS
  Me,          \* the connection
  MaxSend,     \* bound: messages the user sends
  MaxLog,      \* bound: packets the server sends
  MAX_BUFFER_LENGTH,  \* the bytes that the second receive of a round takes
  Segmented    \* TCP may cut a packet, so that a receive finds part of it

(* Bytes of the longest echo: type, length, 255 characters and one more.   *)
LongestEcho == 264

ASSUME ClientAssumption ==
  /\ MaxSend \in Nat
  /\ MaxLog \in Nat
  /\ MAX_BUFFER_LENGTH \in Nat /\ LongestEcho <= MAX_BUFFER_LENGTH
  /\ Segmented \in BOOLEAN

VARIABLES
  srv, cli, log, rd, sent,       \* the connection (EchoLink)
  inq,         \* pieces that have arrived and are not yet read
  rst,         \* the connection was reset
  own,         \* where the owner is
  byMain,      \* the action thread has ended; main() is the owner again
  quit,        \* history: the user chose to quit
  late,        \* history: the client started without its verdict
  upd,         \* where the update thread is
  type, body,  \* its locals: the packet's type, the pieces in its buffer
  threw,       \* history: its catch clause has run
  cut,         \* history: a receive ended inside a packet
  misread,     \* history: it took bytes for what they are not
  shown,       \* the packets it has displayed, by their places in log
  m_pSocket, m_pThread,          \* the pointers are not null
  sock, thr,                     \* the objects they pointed to
  m_bCloseRequested,
  freed,       \* the CNetwork object is deleted
  ended        \* "no", or how the process ended

Link == INSTANCE EchoLink

netVars == <<srv, cli, log, rd, sent, inq, rst>>
ownVars == <<own, byMain, quit, late>>
updVars == <<upd, type, body, threw, cut, misread, shown>>
objVars == <<m_pSocket, m_pThread, sock, thr, m_bCloseRequested, freed>>
vars    == <<netVars, ownVars, updVars, objVars, ended>>

Alive == ended = "no"

Types == {"KICK", "ACCEPT", "MESSAGE", "other"}
Piece == [pos : Nat, part : {"type", "head", "tail", "rest"}]
At(i, part) == [pos |-> i, part |-> part]

Init ==
  /\ srv = "none" /\ cli = "none" /\ log = <<>> /\ rd = 0 /\ sent = 0
  /\ inq = <<>> /\ rst = FALSE
  /\ own = "connect" /\ byMain = TRUE /\ quit = FALSE /\ late = FALSE
  /\ upd = "none" /\ type = "other" /\ body = <<>>
  /\ threw = FALSE /\ cut = FALSE /\ misread = FALSE /\ shown = <<>>
  /\ m_pSocket = FALSE /\ m_pThread = FALSE /\ sock = "none" /\ thr = "none"
  /\ m_bCloseRequested = FALSE /\ freed = FALSE
  /\ ended = "no"

(* The process ends, and the kernel closes its socket.                     *)
End(how) ==
  /\ ended' = how
  /\ cli' = IF cli = "up" THEN "closed" ELSE cli
  /\ UNCHANGED <<srv, log, rd, sent, inq, rst, ownVars, updVars, objVars>>
-------------------------------------------------------------------------------
(* The server, as EchoLink lets it be.                                     *)

Arrives(parts) ==
  inq' = IF cli = "up" THEN inq \o parts ELSE inq

ServerVerdict ==
  /\ Len(log) < MaxLog
  /\ Link!Accept \/ Link!Kick
  /\ Arrives(<<At(1, "type")>>)
  /\ UNCHANGED rst

ServerEcho(n) ==
  /\ Len(log) < MaxLog
  /\ Link!Echo(n)
  /\ LET i == Len(log) + 1
     IN  Arrives(<<At(i, "type"), At(i, "head"), At(i, "tail")>>)
  /\ UNCHANGED rst

ServerHangsUp ==
  /\ Link!HangUp
  /\ rst' \in BOOLEAN
  /\ UNCHANGED inq

Server ==
  /\ Alive
  /\ ServerVerdict \/ ServerHangsUp \/ \E n \in 0 .. sent : ServerEcho(n)
  /\ UNCHANGED <<ownVars, updVars, objVars, ended>>
-------------------------------------------------------------------------------
(* Reading the connection.                                                 *)

(* Fault: a packet too few is counted.                                     *)
LeaveOffByOne(q) ==
  /\ inq' = q
  /\ rd' = IF q = <<>> THEN Len(log) ELSE q[1].pos - 2
  /\ UNCHANGED <<srv, cli, log, sent, rst>>

(* What has been read when q is left: every packet before the one that q   *)
(* begins with.                                                            *)
Leave(q) ==
  /\ inq' = q
  /\ rd' = IF q = <<>> THEN Len(log) ELSE q[1].pos - 1
  /\ UNCHANGED <<srv, cli, log, sent, rst>>

(* What is left of the queue after a receive of four bytes: a long text,   *)
(* or a type that is cut, leaves a rest.                                   *)
AfterFour ==
  {Tail(inq)} \cup
  IF inq[1].part = "tail" \/ (Segmented /\ inq[1].part = "type")
    THEN {<<At(inq[1].pos, "rest")>> \o Tail(inq)} ELSE {}

(* The four bytes were a whole type.                                       *)
Aligned(q) == inq[1].part = "type" /\ q = Tail(inq)

(* A receive on a socket that was reset throws; one at the end of what a   *)
(* closed server has sent returns 0.                                       *)
AtEnd == inq = <<>> /\ srv = "closed" /\ ~rst
-------------------------------------------------------------------------------
(* The owner: TryClientStart.                                              *)

(* connectNB() throws (an address that is none); the catch clause closes   *)
(* and deletes the socket it has just made.                                *)
ConnectFails ==
  /\ own = "connect"
  /\ sock' = "deleted"
  /\ own' = "disconnect"
  /\ UNCHANGED <<byMain, quit, late, netVars, updVars, m_pSocket, m_pThread, thr,
                 m_bCloseRequested, freed, ended>>

Connect ==
  /\ own = "connect"
  /\ Link!Connect
  /\ m_pSocket' = TRUE /\ sock' = "open"
  /\ own' = "verdict"
  /\ UNCHANGED <<inq, rst, byMain, quit, late, updVars, m_pThread, thr, m_bCloseRequested,
                 freed, ended>>

(* A whole ACCEPT.                                                         *)
VerdictAccept ==
  /\ own = "verdict"
  /\ inq # <<>>
  /\ log[1].type = "ACCEPT"
  /\ Leave(Tail(inq))
  /\ own' = "start"
  /\ UNCHANGED <<byMain, quit, late, updVars, objVars, ended>>

(* Eight seconds and no verdict, or only a part of it: packetType, or some *)
(* of it, was never set, and may look like ACCEPT.                         *)
VerdictLate ==
  /\ own = "verdict"
  /\ \/ inq = <<>> /\ srv = "open" /\ UNCHANGED netVars
     \/ inq # <<>> /\ Segmented /\ Leave(<<At(inq[1].pos, "rest")>> \o Tail(inq))
  /\ own' = "start" /\ late' = TRUE
  /\ UNCHANGED <<byMain, quit, updVars, objVars, ended>>

(* KICK, no verdict, the end or a reset: catch, Close, Exit.  TryConnect   *)
(* returns true all the same, and Run returns at once.                     *)
VerdictDenied ==
  /\ own = "verdict"
  /\ inq # <<>> => log[1].type = "KICK" \/ Segmented \/ rst
  /\ cli' = "closed"
  /\ sock' = "deleted" /\ m_pSocket' = FALSE
  /\ own' = "disconnect"
  /\ UNCHANGED <<srv, log, rd, sent, inq, rst, byMain, quit, late, updVars, m_pThread, thr,
                 m_bCloseRequested, freed, ended>>

(* CClient::Run: StartUpdateThread and the action thread.                  *)
Run ==
  /\ own = "start"
  /\ m_pThread' = TRUE /\ thr' = "live"
  /\ upd' = "poll"
  /\ own' = "menu" /\ byMain' = FALSE
  /\ UNCHANGED <<quit, late, netVars, type, body, threw, cut, misread, shown, m_pSocket, sock,
                 m_bCloseRequested, freed, ended>>
-------------------------------------------------------------------------------
(* The owner: the menu and ListenAction.                                   *)

OwnGoes(to) ==
  /\ own' = to
  /\ UNCHANGED <<byMain, quit, late, netVars, updVars, objVars, ended>>

(* Command 1: a text is typed and left for PopActionResult.                *)
ChooseMessage ==
  /\ own = "menu"
  /\ sent < MaxSend
  /\ OwnGoes("listen")

(* Command 2.                                                              *)
ChooseQuit ==
  /\ own = "menu"
  /\ own' = "disconnect" /\ quit' = TRUE
  /\ UNCHANGED <<byMain, late, netVars, updVars, objVars, ended>>

(* The end of the input, or a word where a number is expected: cin stays   *)
(* failed, and ShowHelp (or GetAction) calls itself until the stack ends.  *)
InputFails ==
  /\ own = "menu"
  /\ End("input")

(* GetSocket(): the pointer is taken once.                                 *)
GetSocket ==
  /\ own = "listen"
  /\ m_pSocket
  /\ OwnGoes("send")

GetSocketNull ==
  /\ own = "listen"
  /\ ~m_pSocket
  /\ End("crash")

(* Fault: what a send has left over is sent again from its start.          *)
SendRepeats ==
  /\ own = "send"
  /\ sock = "open"
  /\ ~rst
  /\ IF srv = "open" THEN sent' = sent + 2 /\ UNCHANGED <<srv, cli, log, rd, rst>>
                     ELSE rst' = TRUE /\ UNCHANGED <<srv, cli, log, rd, sent>>
  /\ own' = "menu"
  /\ UNCHANGED <<inq, byMain, quit, late, updVars, objVars, ended>>

(* The first message to a server that has gone is answered with a reset;   *)
(* whatever sendBytes returns but 0 is reported as delivered.              *)
Send ==
  /\ own = "send"
  /\ sock = "open"
  /\ ~rst
  /\ IF srv = "open" THEN Link!Send /\ UNCHANGED rst
                     ELSE rst' = TRUE /\ UNCHANGED <<srv, cli, log, rd, sent>>
  /\ own' = "menu"
  /\ UNCHANGED <<inq, byMain, quit, late, updVars, objVars, ended>>

(* poll() or sendBytes() throws: Poco ends the action thread, and main()   *)
(* comes back from join().                                                 *)
SendThrows ==
  /\ own = "send"
  /\ sock \in {"closed", "deleted"} \/ rst
  /\ own' = "disconnect" /\ byMain' = TRUE
  /\ UNCHANGED <<quit, late, netVars, updVars, objVars, ended>>

SendOnDeleted ==
  /\ own = "send"
  /\ sock = "deleted"
  /\ End("crash")
-------------------------------------------------------------------------------
(* The owner: Disconnect, CNetwork::Close and the destructor.              *)

(* IsInitialized(), on the way to Close.                                   *)
Disconnect ==
  /\ own = "disconnect"
  /\ OwnGoes(IF m_pSocket THEN "close" ELSE "delete")

(* Close reads m_pSocket again.                                            *)
Close ==
  /\ own = "close"
  /\ OwnGoes(IF m_pSocket THEN "closeThread" ELSE "delete")

CloseThread ==
  /\ own = "closeThread"
  /\ m_pThread
  /\ OwnGoes("request")

(* The update thread has ended in between: Close calls Exit a second time. *)
CloseWithoutThread ==
  /\ own = "closeThread"
  /\ ~m_pThread /\ ~m_pSocket
  /\ End("assert")

(* Fault: the thread is not asked to stop.                                *)
RequestNothing ==
  /\ own = "request"
  /\ OwnGoes("join")

Request ==
  /\ own = "request"
  /\ m_bCloseRequested' = TRUE
  /\ own' = "join"
  /\ UNCHANGED <<byMain, quit, late, netVars, updVars, m_pSocket, m_pThread, sock, thr, freed,
                 ended>>

(* m_pThread is read once more.                                            *)
Join ==
  /\ own = "join"
  /\ m_pThread
  /\ \/ OwnGoes("waiting")
     \/ thr = "deleted" /\ OwnGoes("delete")

JoinNull ==
  /\ own = "join"
  /\ ~m_pThread
  /\ End("crash")

(* join() throws: the action thread ends, and main() disconnects again; in *)
(* main() nothing catches.                                                 *)
JoinThrows ==
  /\ own = "join"
  /\ m_pThread /\ thr = "deleted"
  /\ IF byMain
       THEN End("crash")
       ELSE /\ own' = "disconnect" /\ byMain' = TRUE
            /\ UNCHANGED <<quit, late, netVars, updVars, objVars, ended>>

(* Fault: the wait has a timeout.                                         *)
JoinTimesOut ==
  /\ own = "waiting"
  /\ OwnGoes("delete")

JoinReturns ==
  /\ own = "waiting"
  /\ upd \in {"done", "dead"}
  /\ OwnGoes("delete")

(* What the thread has left of its thread object when join() goes on.      *)
JoinOnDeleted ==
  /\ own = "waiting"
  /\ thr = "deleted"
  /\ End("crash")

(* delete m_pNetwork.  When the socket is still there, because the thread  *)
(* died, the destructor calls Close, whose join() returns at once.         *)
Delete ==
  /\ own = "delete"
  /\ own' = "exit"
  /\ freed' = TRUE
  /\ UNCHANGED <<byMain, quit, late, netVars, updVars, m_pSocket, m_pThread, sock, thr,
                 m_bCloseRequested, ended>>

(* exit(0), or the return of main().                                       *)
ExitProcess ==
  /\ own = "exit"
  /\ End("exit")

Menu == ChooseMessage \/ ChooseQuit \/ InputFails

OwnerRuns ==
  /\ Alive
  /\ \/ ConnectFails \/ Connect \/ VerdictAccept \/ VerdictLate \/ VerdictDenied \/ Run
     \/ GetSocket \/ GetSocketNull \/ Send \/ SendThrows \/ SendOnDeleted
     \/ Disconnect \/ Close \/ CloseThread \/ CloseWithoutThread \/ Request
     \/ Join \/ JoinNull \/ JoinThrows \/ JoinReturns \/ JoinOnDeleted
     \/ Delete \/ ExitProcess
-------------------------------------------------------------------------------
(* The update thread: OnUpdate.                                            *)

(* The buffer is a local of one round.                                     *)
UpdGoes(to) ==
  /\ upd' = to
  /\ body' = <<>>
  /\ UNCHANGED <<type, threw, cut, misread, shown, netVars, ownVars, objVars, ended>>

PollReadable ==
  /\ upd = "poll"
  /\ ~m_bCloseRequested
  /\ sock = "open"
  /\ inq # <<>> \/ srv = "closed"
  /\ UpdGoes("type")

CloseSeen ==
  /\ upd = "poll"
  /\ m_bCloseRequested
  /\ UpdGoes("exit")

ReceiveType ==
  /\ upd = "type"
  /\ inq # <<>>
  /\ \E q \in AfterFour :
       /\ Leave(q)
       /\ type' \in IF Aligned(q) THEN {log[inq[1].pos].type} ELSE Types
       /\ misread' = (misread \/ ~Aligned(q))
       /\ cut' = (cut \/ (inq[1].part = "type" /\ ~Aligned(q)))
  /\ upd' = "body"
  /\ UNCHANGED <<body, threw, shown, ownVars, objVars, ended>>

(* Fault: a receive that finds nothing yet ends the loop, too.             *)
ReceiveEndEarly ==
  /\ upd \in {"type", "body"}
  /\ inq = <<>>
  /\ UpdGoes("exit")

(* Fault: the loop goes on after a receive of 0 bytes.                     *)
ReceiveEndIgnored ==
  /\ upd \in {"type", "body"}
  /\ AtEnd
  /\ UpdGoes("poll")

(* A receive of 0 bytes ends the loop.                                     *)
ReceiveEnd ==
  /\ upd \in {"type", "body"}
  /\ AtEnd
  /\ UpdGoes("exit")

(* A receive that ends with this piece of the queue ends with a packet.    *)
EndsPacket(i) == inq[i].part \in {"tail", "rest"}

(* The first k pieces may be more than the buffer holds: longest echoes,   *)
(* or among them one whose garbled text has any length.                    *)
Overfull(k) ==
  LET packets == {inq[i].pos : i \in 1 .. k}
  IN  \/ LongestEcho * Cardinality(packets) > MAX_BUFFER_LENGTH
      \/ Cardinality(packets) > 1 /\ \E i \in packets : i > 1 /\ log[i].n = Link!Garbled

(* How many pieces the second receive may take: up to the end of a packet, *)
(* unless TCP cuts the packet or it does not fit the buffer.               *)
Prefixes ==
  {k \in 1 .. Len(inq) :
     k <= MAX_BUFFER_LENGTH /\ (EndsPacket(k) \/ Segmented \/ Overfull(k))}

(* Fault: the buffer outlives the round, and when nothing has arrived it   *)
(* still holds the last message.                                           *)
ReceiveBodyStale ==
  /\ upd = "body"
  /\ \/ \E k \in Prefixes :
          /\ body' = SubSeq(inq, 1, k)
          /\ Leave(SubSeq(inq, k + 1, Len(inq)))
          /\ cut' = (cut \/ ~EndsPacket(k))
     \/ /\ IF inq = <<>> THEN srv = "open" ELSE Segmented
        /\ shown # <<>>
        /\ LET last == shown[Len(shown)]
           IN  body' = <<At(last, "head"), At(last, "tail")>>
        /\ cut' = (cut \/ inq # <<>>)
        /\ UNCHANGED netVars
  /\ upd' = "handle"
  /\ UNCHANGED <<type, threw, misread, shown, ownVars, objVars, ended>>

(* Fault: only the length is read.                                        *)
ReceiveBodyHead ==
  /\ upd = "body"
  /\ inq # <<>>
  /\ body' = SubSeq(inq, 1, 1)
  /\ Leave(Tail(inq))
  /\ upd' = "handle"
  /\ UNCHANGED <<type, threw, cut, misread, shown, ownVars, objVars, ended>>

(* The rest, on the non-blocking socket: whatever has arrived and fits the *)
(* buffer, which may be nothing, part of the packet, or packets that       *)
(* follow too.                                                             *)
ReceiveBody ==
  /\ upd = "body"
  /\ \/ \E k \in Prefixes :
          /\ body' = SubSeq(inq, 1, k)
          /\ Leave(SubSeq(inq, k + 1, Len(inq)))
          /\ cut' = (cut \/ ~EndsPacket(k))
     \/ /\ IF inq = <<>> THEN srv = "open" ELSE Segmented
        /\ body' = <<>>
        /\ cut' = (cut \/ inq # <<>>)
        /\ UNCHANGED netVars
  /\ upd' = "handle"
  /\ UNCHANGED <<type, threw, misread, shown, ownVars, objVars, ended>>

(* The buffer begins with the length and the text of one message.          *)
WholeBody ==
  /\ Len(body) >= 2
  /\ body[1].part = "head"
  /\ body[2] = At(body[1].pos, "tail")

(* CClient::PacketHandler displays what follows the type; after ACCEPT,    *)
(* too.                                                                    *)
HandleMessage ==
  /\ upd = "handle"
  /\ type \in {"ACCEPT", "MESSAGE"}
  /\ WholeBody
  /\ shown' = Append(shown, body[1].pos)
  /\ upd' = "poll" /\ body' = <<>>
  /\ UNCHANGED <<type, threw, cut, misread, netVars, ownVars, objVars, ended>>

HandleOther ==
  /\ upd = "handle"
  /\ type \in {"KICK", "other"}
  /\ UpdGoes("poll")

(* What is in the buffer is no message: iLength is a number by chance.     *)
HandleMisread ==
  /\ upd = "handle"
  /\ type \in {"ACCEPT", "MESSAGE"}
  /\ ~WholeBody
  /\ upd' = "garbled" /\ body' = <<>>
  /\ misread' = TRUE
  /\ UNCHANGED <<type, threw, cut, shown, netVars, ownVars, objVars, ended>>

(* Something is displayed; or new char[iLength] throws what the catch      *)
(* clause does not catch, and the thread ends without Exit; or the output  *)
(* runs off the heap.                                                      *)
Garbled ==
  /\ upd = "garbled"
  /\ \/ UpdGoes("poll")
     \/ UpdGoes("dead")
     \/ End("crash")

(* catch (Exception): Exit(), and the loop goes on.                        *)
ReceiveThrows ==
  /\ upd \in {"type", "body"}
  /\ rst
  /\ upd' = "exit" /\ threw' = TRUE
  /\ UNCHANGED <<type, body, cut, misread, shown, netVars, ownVars, objVars, ended>>

(* pSocket is dangling after that Exit: a call on it throws or crashes.    *)
PollOnDeleted ==
  /\ upd = "poll"
  /\ ~m_bCloseRequested
  /\ sock # "open"
  /\ UpdGoes("exit") \/ End("crash")
-------------------------------------------------------------------------------
(* CNetwork::Exit, statement by statement.                                 *)

ExitAsserts ==
  /\ upd = "exit"
  /\ ~m_pSocket
  /\ End("assert")

ExitCloses ==
  /\ upd = "exit"
  /\ m_pSocket
  /\ sock' = "closed" /\ cli' = "closed"
  /\ upd' = "exitDelete"
  /\ UNCHANGED <<srv, log, rd, sent, inq, rst, ownVars, type, body, threw, cut, misread, shown,
                 m_pSocket, m_pThread, thr, m_bCloseRequested, freed, ended>>

ExitDeletes ==
  /\ upd = "exitDelete"
  /\ sock' = "deleted"
  /\ upd' = "exitNull"
  /\ UNCHANGED <<netVars, ownVars, type, body, threw, cut, misread, shown, m_pSocket, m_pThread,
                 thr, m_bCloseRequested, freed, ended>>

(* Fault: the pointer is kept.                                            *)
ExitKeepsPointer ==
  /\ upd = "exitNull"
  /\ m_bCloseRequested' = FALSE
  /\ upd' = "exitThread"
  /\ UNCHANGED <<netVars, ownVars, type, body, threw, cut, misread, shown, m_pSocket, m_pThread,
                 sock, thr, freed, ended>>

ExitNulls ==
  /\ upd = "exitNull"
  /\ m_pSocket' = FALSE
  /\ upd' = "exitFlag"
  /\ UNCHANGED <<netVars, ownVars, type, body, threw, cut, misread, shown, m_pThread, sock, thr,
                 m_bCloseRequested, freed, ended>>

ExitClearsFlag ==
  /\ upd = "exitFlag"
  /\ m_bCloseRequested' = FALSE
  /\ upd' = "exitThread"
  /\ UNCHANGED <<netVars, ownVars, type, body, threw, cut, misread, shown, m_pSocket, m_pThread,
                 sock, thr, freed, ended>>

ExitDeletesThread ==
  /\ upd = "exitThread"
  /\ thr' = "deleted"
  /\ upd' = "exitLast"
  /\ UNCHANGED <<netVars, ownVars, type, body, threw, cut, misread, shown, m_pSocket, m_pThread,
                 sock, m_bCloseRequested, freed, ended>>

ExitLast ==
  /\ upd = "exitLast"
  /\ m_pThread' = FALSE
  /\ upd' = IF threw THEN "poll" ELSE "done"
  /\ UNCHANGED <<netVars, ownVars, type, body, threw, cut, misread, shown, m_pSocket, sock, thr,
                 m_bCloseRequested, freed, ended>>

(* The CNetwork object was deleted under the thread.                       *)
UseAfterFree ==
  /\ freed
  /\ upd \notin {"none", "done", "dead"}
  /\ End("crash")

UpdateThread ==
  /\ Alive
  /\ \/ PollReadable \/ CloseSeen \/ ReceiveType \/ ReceiveEnd \/ ReceiveBody
     \/ HandleMessage \/ HandleOther \/ HandleMisread \/ Garbled
     \/ ReceiveThrows \/ PollOnDeleted
     \/ ExitAsserts \/ ExitCloses \/ ExitDeletes \/ ExitNulls \/ ExitClearsFlag
     \/ ExitDeletesThread \/ ExitLast \/ UseAfterFree

Next == Server \/ (Alive /\ Menu) \/ OwnerRuns \/ UpdateThread

Spec == Init /\ [][Next]_vars

(* The threads are scheduled; the user and the server need not do anything.*)
Fairness == WF_vars(OwnerRuns) /\ WF_vars(UpdateThread)

FairSpec == Spec /\ Fairness
-------------------------------------------------------------------------------
Looping == {"poll", "type", "body", "handle", "garbled"}
Exiting == {"exit", "exitDelete", "exitNull", "exitFlag", "exitThread", "exitLast"}
UpdOver == {"done", "dead"}
Leaving == {"disconnect", "close", "closeThread", "request", "join", "waiting", "delete", "exit"}

ThreadTypes ==
  /\ own \in {"connect", "verdict", "start", "menu", "listen", "send", "disconnect", "close",
              "closeThread", "request", "join", "waiting", "delete", "exit"}
  /\ byMain \in BOOLEAN /\ quit \in BOOLEAN /\ late \in BOOLEAN
  /\ upd \in {"none"} \cup Looping \cup Exiting \cup UpdOver
  /\ threw \in BOOLEAN /\ cut \in BOOLEAN /\ misread \in BOOLEAN
  /\ m_pSocket \in BOOLEAN /\ m_pThread \in BOOLEAN
  /\ sock \in {"none", "open", "closed", "deleted"} /\ thr \in {"none", "live", "deleted"}
  /\ m_bCloseRequested \in BOOLEAN /\ freed \in BOOLEAN
  /\ ended \in {"no", "exit", "input", "crash", "assert"}
  /\ srv \in {"none", "open", "closed"} /\ cli \in {"none", "up", "closed"}
  /\ rst \in BOOLEAN

StreamTypes ==
  /\ log \in Seq(Link!Packets) /\ rd \in Nat /\ sent \in Nat
  /\ inq \in Seq(Piece)
  /\ type \in Types /\ body \in Seq(Piece) /\ shown \in Seq(Nat)

(* The types of the variables.                                             *)
TypeOK == ThreadTypes /\ StreamTypes

(* As long as its catch clause has not run, the update thread's loop works *)
(* on a socket, a thread object and a CNetwork that exist: whatever the    *)
(* owner does in Close and Disconnect, it never deletes what the loop uses.*)
LoopOnLiveObjects ==
  upd \in Looping /\ ~threw =>
    sock = "open" /\ m_pSocket /\ thr = "live" /\ m_pThread /\ ~freed

(* Exit closes and deletes a socket that is open and a thread object that  *)
(* is there: neither is deleted twice, though Exit may be called again by  *)
(* the loop and by Close.                                                  *)
NoDoubleDelete ==
  /\ upd = "exit" /\ m_pSocket => sock = "open"
  /\ upd = "exitDelete" => sock = "closed"
  /\ upd = "exitThread" => thr = "live"

(* The process crashes only when the server has gone, the user quits, or   *)
(* bytes were misread; an assertion fails only when the server has gone.   *)
FaultNeedsCause ==
  /\ ended = "crash" => srv = "closed" \/ quit \/ misread
  /\ ended = "assert" => srv = "closed"

(* From end to end: of the texts that the server did not garble, what is   *)
(* displayed is what this user typed, in that order and none twice,        *)
(* however the reads cut and join the packets.                             *)
ShownInOrder ==
  \A i, j \in DOMAIN shown :
    i < j /\ log[shown[i]].n # Link!Garbled /\ log[shown[j]].n # Link!Garbled
      => log[shown[i]].n < log[shown[j]].n /\ log[shown[j]].n <= sent

(* The two receives of OnUpdate find a type and then a message until a     *)
(* receive has ended inside a packet, if the verdict came in time.  Where  *)
(* TCP cuts nothing that takes more echoes than the buffer holds, or a     *)
(* text that the server garbled: so a buffer that takes every packet that  *)
(* the server can have sent is never misread.                              *)
WholePacketsRead ==
  ~late =>
    /\ misread => cut
    /\ cut => Link!MayBeCut \/ LongestEcho * (Len(log) - 1) > MAX_BUFFER_LENGTH

(* The client keeps its side of EchoLink.                                  *)
ImplementsEchoLink == Link!Spec

(* An assertion of CNetwork::Exit, as the code states it.                  *)
SocketAsserted == ended # "assert"

(* How far the update thread is from its end once nothing sends it round   *)
(* again: the places of CNetwork::Exit, of the second round and the second *)
(* Exit that follow when the catch clause has called it, and of the loop.  *)
ExitLeft ==
  CASE upd = "exit"       -> IF m_pSocket THEN 8 ELSE 1
    [] upd = "exitDelete" -> 7
    [] upd = "exitNull"   -> 6
    [] upd = "exitFlag"   -> 5
    [] upd = "exitThread" -> 4
    [] upd = "exitLast"   -> 3
    [] upd = "poll"       -> 2
    [] OTHER              -> 0

InLoop == upd \in Looping /\ m_pSocket

(* A loop that was asked to stop finishes its round.                       *)
AskedLeft ==
  IF ~InLoop THEN ExitLeft
  ELSE CASE upd = "type"   -> 13
         [] upd = "body"   -> 12
         [] upd = "handle" -> 11
         [] upd = "poll"   -> 9
         [] OTHER          -> 10

(* A loop whose server has gone goes round until it has read what arrived; *)
(* a piece is read in two receives at most.                                *)
Unread == 2 * Len(inq) - IF inq # <<>> /\ inq[1].part = "rest" THEN 1 ELSE 0

DrainLeft ==
  IF ~InLoop THEN ExitLeft
  ELSE 8 * Unread + CASE upd = "body"   -> 13
                      [] upd = "handle" -> 12
                      [] upd = "poll"   -> 10
                      [] upd = "type"   -> 9
                      [] OTHER          -> 11

(* A server that has gone is noticed: every step of the update thread      *)
(* brings its end nearer, in whichever receive of a round it finds out and *)
(* whether by an end or by an exception, and nobody puts it off.           *)
HangUpDescends ==
  [][Alive /\ srv = "closed" /\ upd # "none" =>
       DrainLeft' < DrainLeft \/ (UNCHANGED updVars /\ DrainLeft' = DrainLeft)]_vars

(* Where the owner is on its way out; an exception of join() sends it back *)
(* to Disconnect once, in main().                                          *)
OwnerLeft ==
  (IF byMain THEN 0 ELSE 8) +
  CASE own = "disconnect"  -> 8
    [] own = "close"       -> 7
    [] own = "closeThread" -> 6
    [] own = "request"     -> 5
    [] own = "join"        -> 4
    [] own = "waiting"     -> 3
    [] own = "delete"      -> 2
    [] OTHER               -> 1

(* A client that disconnects ends: the owner never goes back further than  *)
(* an exception sends it, and while it joins the update thread each step   *)
(* of that thread brings its end nearer.  The request to close is not lost,*)
(* though Exit clears it and may be running when it is made.               *)
DisconnectDescends ==
  [][Alive /\ own \in Leaving =>
       /\ OwnerLeft' < OwnerLeft \/ UNCHANGED ownVars
       /\ own \in {"join", "waiting"} =>
            AskedLeft' < AskedLeft \/ (UNCHANGED updVars /\ AskedLeft' = AskedLeft)]_vars

(* A server that has gone is noticed: the update thread ends, or the       *)
(* process does.                                                           *)
HangUpIsSeen == srv = "closed" /\ upd # "none" ~> upd \in UpdOver \/ ~Alive

(* The client that disconnects ends, whatever the update thread is at: the *)
(* request to close is never lost and no join waits for ever.              *)
DisconnectEnds == own = "disconnect" ~> ~Alive
-------------------------------------------------------------------------------
(* The parts of the inductive invariants.                                  *)

Live == m_pSocket /\ sock = "open" /\ m_pThread /\ thr = "live"
Gone == ~m_pSocket /\ sock = "deleted" /\ ~m_pThread /\ thr = "deleted"

(* What exists at each place of the update thread.                         *)
Objects ==
  /\ upd = "none" =>
       /\ ~m_pThread /\ thr = "none"
       /\ m_pSocket <=> own \in {"verdict", "start"}
       /\ sock = IF own = "connect" THEN "none" ELSE IF m_pSocket THEN "open" ELSE "deleted"
  /\ upd \in Looping => IF threw THEN upd = "poll" /\ Gone ELSE Live
  /\ upd = "exit" => Live \/ (threw /\ Gone)
  /\ upd \in Exiting \ {"exit"} =>
       /\ m_pThread
       /\ thr = IF upd = "exitLast" THEN "deleted" ELSE "live"
       /\ sock = IF upd = "exitDelete" THEN "closed" ELSE "deleted"
       /\ m_pSocket <=> upd \in {"exitDelete", "exitNull"}
  /\ upd = "done" => Gone
  /\ upd = "dead" => Live

(* Where the owner can be.                                                 *)
Owner ==
  /\ own \in {"connect", "verdict", "start"} => upd = "none"
  /\ upd = "none" =>
       /\ own \in {"connect", "verdict", "start", "disconnect", "delete", "exit"}
       /\ ~m_bCloseRequested /\ ~threw
  /\ own \in {"delete", "exit"} => upd \notin Looping \/ threw
  /\ freed => own = "exit"

(* The owner still has to ask the thread to stop.                          *)
Unasked ==
  \/ own \in {"menu", "listen", "send", "close", "closeThread", "request"}
  \/ own = "disconnect" /\ m_pSocket

(* The thread that is joined has been asked, or has left its loop.         *)
Asked == own \in {"join", "waiting"} /\ upd \in Looping /\ ~threw => m_bCloseRequested

(* Why the threads have left their loops.                                  *)
Causes ==
  /\ rst \/ threw => srv = "closed"
  /\ upd \in {"garbled", "dead"} => misread
  /\ upd # "none" /\ own \in Leaving => srv = "closed" \/ quit \/ misread
  /\ upd # "none" /\ Unasked =>
       ~m_bCloseRequested /\ (upd \in Exiting \cup {"done"} => srv = "closed")

(* The ends of the connection.                                             *)
Ends ==
  /\ Alive => (sock = "open" <=> cli = "up")
  /\ srv = "none" <=> cli = "none"

ObjectInv == ThreadTypes /\ Objects /\ Owner /\ Causes /\ Ends /\ FaultNeedsCause

(* The pieces that have arrived and rd say the same of what has been read. *)
Queue ==
  /\ \A i \in DOMAIN inq : inq[i].pos \in 1 .. Len(log)
  /\ \A i, j \in DOMAIN inq : i <= j => inq[i].pos <= inq[j].pos
  /\ cli = "up" => rd = IF inq = <<>> THEN Len(log) ELSE inq[1].pos - 1
  /\ cli = "none" => log = <<>> /\ inq = <<>> /\ rd = 0

IsHead(q, i) == q[i].part = "head"

(* A packet has one head: in what has arrived, then in the buffer, then on *)
(* the screen.                                                             *)
Heads ==
  /\ \A i, j \in DOMAIN inq :
       i < j /\ IsHead(inq, i) /\ IsHead(inq, j) => inq[i].pos < inq[j].pos
  /\ \A i \in DOMAIN body, j \in DOMAIN inq :
       IsHead(body, i) /\ IsHead(inq, j) => body[i].pos < inq[j].pos
  /\ \A i \in DOMAIN body : body[i].pos \in 1 .. Len(log)
  /\ \A k \in DOMAIN shown :
       /\ shown[k] \in 1 .. Len(log)
       /\ \A i \in DOMAIN body : IsHead(body, i) => shown[k] < body[i].pos
       /\ \A j \in DOMAIN inq : IsHead(inq, j) => shown[k] < inq[j].pos
  /\ \A k, l \in DOMAIN shown : k < l => shown[k] < shown[l]

(* The messages that the server has sent are those of this user, in order. *)
LogOrder ==
  /\ \A i \in DOMAIN log :
       log[i].n # Link!Garbled => log[i].type = "MESSAGE" /\ log[i].n <= sent
  /\ \A i, j \in DOMAIN log :
       i < j /\ log[i].n # Link!Garbled /\ log[j].n # Link!Garbled => log[i].n < log[j].n

StreamInv == StreamTypes /\ Queue /\ Heads /\ LogOrder

IInv == ObjectInv /\ StreamInv

(* Packets of which nothing was cut off follow each other whole.           *)
Framed(q) ==
  \A i \in DOMAIN q :
    /\ q[i].part # "rest"
    /\ q[i].pos = 1 => i = 1
    /\ q[i].part = "type" /\ q[i].pos # 1 =>
         i + 1 \in DOMAIN q /\ q[i + 1] = At(q[i].pos, "head")
    /\ q[i].part = "head" => i + 1 \in DOMAIN q /\ q[i + 1] = At(q[i].pos, "tail")
    /\ (q[i].part = "tail" \/ q[i].pos = 1) /\ i + 1 \in DOMAIN q => q[i + 1].part = "type"

(* The verdict has been read, and the loop has not failed.                 *)
Reading == (upd \in Looping /\ ~threw) \/ own = "start"

(* The two receives of a round, and where each begins.                     *)
Rounds ==
  /\ ~misread
  /\ Framed(inq)
  /\ own = "verdict" => rd = 0
  /\ Reading =>
       /\ log # <<>>
       /\ \A i \in DOMAIN inq : inq[i].pos # 1
       /\ inq # <<>> => inq[1].part = IF upd = "body" THEN "head" ELSE "type"
  /\ upd = "body" => inq # <<>>
  /\ upd = "handle" => WholeBody

(* Why a receive can have ended inside a packet.                           *)
CutCause ==
  cut => Link!MayBeCut \/ LongestEcho * (Len(log) - 1) > MAX_BUFFER_LENGTH

(* A text is garbled only where a frame may have been cut.                 *)
GarbledCause ==
  \A i \in DOMAIN log : i > 1 /\ log[i].n = Link!Garbled => Link!MayBeCut

RoundInv == ~late /\ ~cut => Rounds

CauseInv == GarbledCause /\ (~late => CutCause)
===============================================================================
