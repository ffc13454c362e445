----------------------------- MODULE NetworkServer -----------------------------
(***************************************************************************)
(* The server's network thread: CNetworkServer::OnUpdate with the handlers *)
(* it calls (CServer::ConnectHandler, CServer::PacketHandler and the       *)
(* packet classes behind it), CNetwork::Close and Exit around it, and the  *)
(* TCP connections and echo clients it talks to.                           *)
(*                                                                         *)
(* The thread is one loop over select(): it accepts one connection per     *)
(* round, asks the white list, sends ACCEPT or KICK, and takes one         *)
(* receiveBytes from every readable client.  A receive returns some prefix *)
(* of the bytes that are queued, and no more than the buffer holds; only   *)
(* the first packet of it is handled and the rest is thrown away with the  *)
(* buffer.  Nothing in OnUpdate catches an exception: one that escapes     *)
(* ends the thread, and unwinding closes every client.                     *)
(*                                                                         *)
(* The white list is used through its abstract specification AccessList;   *)
(* the operator's commands run in another thread.                          *)
(*                                                                         *)
(* Operators marked "Fault" are wrong variants of the one that follows;    *)
(* nothing uses them but tests that the properties can tell them apart.    *)
(***************************************************************************)
EXTENDS Naturals, Sequences, FiniteSets

CONSTANTS
  Client,      \* connections: one per run of the echo client
  Address,     \* IP addresses
  host,        \* the address each connection comes from
  MaxSend,     \* bound: messages a client sends
  Talkers,     \* bound: the clients that send more than one
  SendCap,     \* packets a connection holds before sendBytes blocks
  MAX_BUFFER_LENGTH,   \* bytes of the receive buffer (the code: 1024)
  Segmented,   \* TCP may cut a frame in two, and a send may be short
  MayReset,    \* a peer may vanish with a reset instead of a close
  None

(* Bytes of the longest frame of CClient::ListenAction: type, length, 255  *)
(* characters and three more.                                              *)
LongestFrame == 266

ASSUME ServerAssumption ==
  /\ host \in [Client -> Address]
  /\ MaxSend \in Nat
  /\ SendCap \in Nat \ {0}
  /\ MAX_BUFFER_LENGTH \in Nat /\ LongestFrame <= MAX_BUFFER_LENGTH
  /\ Segmented \in BOOLEAN /\ MayReset \in BOOLEAN
  /\ None \notin Client \cup Address

VARIABLES
  listed, unsettled, up, answer,   \* the white list (AccessList)
  everListed,          \* history: addresses that have been in the list
  \* the kernel's view of the connections
  backlog,             \* connections not yet accepted, in order
  sock,                \* the server's end of each connection
  peer,                \* the client's end
  inbox,               \* pieces of frames received and not yet read
  outlog,              \* every packet sent to the client
  rd,                  \* how many of them the client has read
  sent,                \* how many messages the client has sent
  cut,                 \* history: connections in which a frame was cut
  rude,                \* history: clients that did not wait for an answer
  \* locals of OnUpdate
  pc, clients, readList, dropList, cur, packet,
  misread,             \* history: a receive did not begin with a whole frame
  \* members of CNetwork, and the main thread
  m_pSocket, m_bCloseRequested, main

AL == INSTANCE AccessList

(* The contract with one client.                                           *)
EL(c) == INSTANCE EchoLink WITH
           Me <- c,
           srv <- IF sock[c] = "queued" THEN "open" ELSE sock[c],
           cli <- IF peer[c] \in {"fin", "reset"} THEN "closed" ELSE peer[c],
           log <- outlog[c], rd <- rd[c], sent <- sent[c]

listVars   == <<listed, unsettled, up, answer, everListed>>
linkVars   == <<backlog, sock, peer, inbox, outlog, rd, sent, cut, rude>>
threadVars == <<pc, clients, readList, dropList, cur, packet, misread>>
ownerVars  == <<m_pSocket, m_bCloseRequested, main>>

vars == <<listVars, linkVars, threadVars, ownerVars>>

Listener == None     \* the listening socket, where a socket is expected

Piece  == [n : 1 .. MaxSend, part : {"head", "tail"}]
Packet == [type : {"ACCEPT", "KICK", "MESSAGE"}, from : Client, n : 0 .. MaxSend]

Verdict(c, type) == [type |-> type, from |-> c, n |-> 0]
Message(c, n)    == [type |-> "MESSAGE", from |-> c, n |-> n]
Garbled          == 0     \* the number of a text that no client has sent

Init ==
  /\ listed \in SUBSET Address
  /\ unsettled = {} /\ up = TRUE /\ answer = None
  /\ everListed = listed
  /\ backlog = <<>>
  /\ sock = [c \in Client |-> "none"]
  /\ peer = [c \in Client |-> "none"]
  /\ inbox = [c \in Client |-> <<>>]
  /\ outlog = [c \in Client |-> <<>>]
  /\ rd = [c \in Client |-> 0]
  /\ sent = [c \in Client |-> 0]
  /\ cut = {} /\ rude = {}
  /\ pc = "select"
  /\ clients = {} /\ readList = {} /\ dropList = {}
  /\ cur = None /\ packet = None
  /\ misread = FALSE
  /\ m_pSocket = TRUE /\ m_bCloseRequested = FALSE
  /\ main = "running"
-------------------------------------------------------------------------------
(* The network thread: OnUpdate.                                           *)

Readable(s) ==
  IF s = Listener THEN backlog # <<>>
  ELSE inbox[s] # <<>> \/ peer[s] \in {"fin", "reset"}

(* Fault: the listening socket is not in the list.                        *)
SelectDeaf == {s \in clients : Readable(s)}

(* Fault: the list is not reduced to the readable sockets.                *)
SelectBlind == clients \cup {Listener}

SelectSet == {s \in clients \cup {Listener} : Readable(s)}

(* A round that select() ends with no readable socket changes nothing.     *)
Select ==
  /\ pc = "select"
  /\ ~m_bCloseRequested
  /\ SelectSet # {}
  /\ readList' = SelectSet
  /\ dropList' = {}
  /\ pc' = "dispatch"
  /\ UNCHANGED <<clients, cur, packet, misread, listVars, linkVars, ownerVars>>

(* acceptConnection().  In which order select() lists the ready sockets is *)
(* left open here and below.                                               *)
Accept ==
  /\ pc = "dispatch"
  /\ Listener \in readList
  /\ readList' = readList \ {Listener}
  /\ cur' = Head(backlog)
  /\ backlog' = Tail(backlog)
  /\ sock' = [sock EXCEPT ![Head(backlog)] = "open"]
  /\ pc' = "connect"
  /\ UNCHANGED <<clients, dropList, packet, misread, peer, inbox, outlog, rd, sent, cut, rude,
                 listVars, ownerVars>>

(* Fault: the handler's result is not used.                               *)
ConnectHandlerIgnored ==
  /\ pc = "connect"
  /\ peer[cur] # "reset"
  /\ AL!Lookup(host[cur])
  /\ pc' = "admit"
  /\ UNCHANGED <<clients, readList, dropList, cur, packet, misread, everListed, linkVars,
                 ownerVars>>

(* CServer::ConnectHandler: peerAddress() and the white list.              *)
ConnectHandler ==
  /\ pc = "connect"
  /\ peer[cur] # "reset"
  /\ AL!Lookup(host[cur])
  /\ pc' = IF answer'[2] THEN "admit" ELSE "kick"
  /\ UNCHANGED <<clients, readList, dropList, cur, packet, misread, everListed, linkVars,
                 ownerVars>>

(* sendBytes: blocks while the connection is full; a client that has       *)
(* closed answers with a reset.                                            *)
SendBytes(p) ==
  /\ peer[cur] # "reset"
  /\ peer[cur] = "up" => Len(outlog[cur]) - rd[cur] < SendCap
  /\ outlog' = [outlog EXCEPT ![cur] = Append(@, p)]
  /\ peer' = [peer EXCEPT ![cur] = IF @ = "fin" THEN "reset" ELSE @]
  /\ UNCHANGED <<backlog, inbox, rd, sent, cut, rude>>

Admit ==
  /\ pc = "admit"
  /\ SendBytes(Verdict(cur, "ACCEPT"))
  /\ clients' = clients \cup {cur}
  /\ cur' = None
  /\ pc' = "dispatch"
  /\ UNCHANGED <<sock, readList, dropList, packet, misread, listVars, ownerVars>>

(* Fault: the kicked connection is worked on further.                     *)
KickKeepsCur ==
  /\ pc = "kick"
  /\ SendBytes(Verdict(cur, "KICK"))
  /\ sock' = [sock EXCEPT ![cur] = "closed"]
  /\ pc' = "dispatch"
  /\ UNCHANGED <<clients, readList, dropList, cur, packet, misread, listVars, ownerVars>>

(* Fault: no close() and continue after KICK.                             *)
KickFallsThrough ==
  /\ pc = "kick"
  /\ SendBytes(Verdict(cur, "KICK"))
  /\ clients' = clients \cup {cur}
  /\ cur' = None
  /\ pc' = "dispatch"
  /\ UNCHANGED <<sock, readList, dropList, packet, misread, listVars, ownerVars>>

Kick ==
  /\ pc = "kick"
  /\ SendBytes(Verdict(cur, "KICK"))
  /\ sock' = [sock EXCEPT ![cur] = "closed"]
  /\ cur' = None
  /\ pc' = "dispatch"
  /\ UNCHANGED <<clients, readList, dropList, packet, misread, listVars, ownerVars>>

(* Fault: a receive of 0 bytes is skipped.                                *)
ReceiveEndIgnored(c) ==
  /\ pc = "dispatch"
  /\ c \in readList
  /\ inbox[c] = <<>>
  /\ peer[c] \in {"fin", "reset"}
  /\ readList' = readList \ {c}
  /\ UNCHANGED <<pc, clients, dropList, cur, packet, misread, listVars, linkVars, ownerVars>>

(* Fault: no continue after a receive of 0 bytes.                         *)
ReceiveEndHandled(c) ==
  /\ pc = "dispatch"
  /\ c \in readList
  /\ inbox[c] = <<>>
  /\ peer[c] \in {"fin", "reset"}
  /\ readList' = readList \ {c}
  /\ dropList' = dropList \cup {c}
  /\ packet' = Message(c, Garbled) /\ cur' = c /\ pc' = "reply"
  /\ UNCHANGED <<clients, misread, listVars, linkVars, ownerVars>>

(* receiveBytes returned 0: the client has closed.                         *)
ReceiveEnd(c) ==
  /\ pc = "dispatch"
  /\ c \in readList
  /\ inbox[c] = <<>>
  /\ peer[c] \in {"fin", "reset"}
  /\ readList' = readList \ {c}
  /\ dropList' = dropList \cup {c}
  /\ UNCHANGED <<pc, clients, cur, packet, misread, listVars, linkVars, ownerVars>>

Frames(q) == Cardinality({q[i].n : i \in DOMAIN q})

(* The buffer may be full before the end of the last of these frames.      *)
Overfull(q) == LongestFrame * Frames(q) > MAX_BUFFER_LENGTH

(* How many pieces a receive may return, of a byte or more each: any       *)
(* number when TCP cuts frames; else it ends with a frame or with a full   *)
(* buffer.                                                                 *)
Prefixes(q) ==
  {k \in 1 .. Len(q) :
     /\ k <= MAX_BUFFER_LENGTH
     /\ Segmented \/ q[k].part = "tail" \/ Overfull(SubSeq(q, 1, k))}

(* A receive that ends in a frame leaves the rest of it behind.            *)
CutBy(c, k) == IF inbox[c][k].part = "head" THEN cut \cup {c} ELSE cut

(* The first packet in what was received is complete.                      *)
BeginsWithFrame(q) ==
  /\ Len(q) >= 2
  /\ q[1].part = "head"
  /\ q[2] = [n |-> q[1].n, part |-> "tail"]

(* Fault: the bytes received stay in the connection.                      *)
TakePeek(c, k) ==
  /\ pc = "dispatch"
  /\ c \in readList
  /\ readList' = readList \ {c}
  /\ cut' = CutBy(c, k)
  /\ UNCHANGED <<clients, dropList, backlog, sock, peer, inbox, outlog, rd, sent, rude,
                 listVars, ownerVars>>

(* Fault: the last piece received stays in the connection.                *)
TakeLeavesLast(c, k) ==
  /\ pc = "dispatch"
  /\ c \in readList
  /\ readList' = readList \ {c}
  /\ inbox' = [inbox EXCEPT ![c] = SubSeq(@, k, Len(@))]
  /\ cut' = CutBy(c, k)
  /\ UNCHANGED <<clients, dropList, backlog, sock, peer, outlog, rd, sent, rude,
                 listVars, ownerVars>>

(* Fault: the connection is read until nothing is left in it.             *)
TakeUntilEmpty(c, k) ==
  /\ pc = "dispatch"
  /\ c \in readList
  /\ readList' = IF k = Len(inbox[c]) THEN readList \ {c} ELSE readList
  /\ inbox' = [inbox EXCEPT ![c] = SubSeq(@, k + 1, Len(@))]
  /\ cut' = CutBy(c, k)
  /\ UNCHANGED <<clients, dropList, backlog, sock, peer, outlog, rd, sent, rude,
                 listVars, ownerVars>>

Take(c, k) ==
  /\ pc = "dispatch"
  /\ c \in readList
  /\ readList' = readList \ {c}
  /\ inbox' = [inbox EXCEPT ![c] = SubSeq(@, k + 1, Len(@))]
  /\ cut' = CutBy(c, k)
  /\ UNCHANGED <<clients, dropList, backlog, sock, peer, outlog, rd, sent, rude,
                 listVars, ownerVars>>

(* CServer::PacketHandler, CPacketHandler::ProcessPacket and Translate:    *)
(* a message packet goes on to Packet_Message, other packets are ignored.  *)
PacketHandler(p) ==
  /\ packet' = p
  /\ cur' = p.from
  /\ pc' = "reply"

(* Fault: the last packet of the buffer is handled.                       *)
ReceiveMessageLast(c, k) ==
  /\ BeginsWithFrame(SubSeq(inbox[c], 1, k))
  /\ Take(c, k)
  /\ PacketHandler(Message(c, inbox[c][k].n))
  /\ UNCHANGED misread

(* Fault: pClientSocket is not the socket that was read.                  *)
ReceiveMessageStale(c, k) ==
  /\ BeginsWithFrame(SubSeq(inbox[c], 1, k))
  /\ Take(c, k)
  /\ packet' = Message(c, inbox[c][1].n)
  /\ cur' \in clients
  /\ pc' = "reply"
  /\ UNCHANGED misread

(* CMessagePacket::Read found the text; the rest of the buffer is lost.    *)
ReceiveMessage(c, k) ==
  /\ BeginsWithFrame(SubSeq(inbox[c], 1, k))
  /\ Take(c, k)
  /\ PacketHandler(Message(c, inbox[c][1].n))
  /\ UNCHANGED misread

(* The bytes at the front are no packet, or one cut short: packetType and  *)
(* iLength are what the bytes give, or keep an earlier value.  The text is *)
(* garbled, or whole all the same (the client sends two bytes after its    *)
(* end, and the cut may be there), or the packet is unknown and ignored.   *)
ReceiveMisread(c, k) ==
  /\ ~BeginsWithFrame(SubSeq(inbox[c], 1, k))
  /\ Take(c, k)
  /\ misread' = TRUE
  /\ \/ PacketHandler(Message(c, Garbled))
     \/ inbox[c][1].part = "head" /\ PacketHandler(Message(c, inbox[c][1].n))
     \/ UNCHANGED <<packet, cur, pc>>

(* CServer::Packet_Message: peerAddress(), then the text goes back.        *)
Packet_Message ==
  /\ pc = "reply"
  /\ SendBytes(packet)
  /\ cur' = None /\ packet' = None
  /\ pc' = "dispatch"
  /\ UNCHANGED <<sock, clients, readList, dropList, misread, listVars, ownerVars>>

DropAll ==
  /\ pc = "dispatch"
  /\ readList = {}
  /\ pc' = "drop"
  /\ UNCHANGED <<clients, readList, dropList, cur, packet, misread, listVars, linkVars,
                 ownerVars>>

(* The sockets of dropList that are still to be erased.                    *)
ToErase == dropList \cap clients

(* Fault: find_if finds another client.                                   *)
DropOther(c) ==
  /\ pc = "drop"
  /\ c \in ToErase
  /\ peer[c] # "reset"
  /\ \E d \in clients : clients' = clients \ {d}
  /\ UNCHANGED <<pc, readList, dropList, cur, packet, misread, listVars, linkVars, ownerVars>>

(* clients.erase: dropList itself and readList still hold the socket open. *)
Drop(c) ==
  /\ pc = "drop"
  /\ c \in ToErase
  /\ peer[c] # "reset"
  /\ clients' = clients \ {c}
  /\ UNCHANGED <<pc, readList, dropList, cur, packet, misread, listVars, linkVars, ownerVars>>

(* The lists of the round leave their scope, and what only they held open  *)
(* is closed.                                                              *)
EndRound ==
  /\ pc = "drop"
  /\ ToErase = {}
  /\ pc' = "select"
  /\ dropList' = {}
  /\ sock' = [c \in Client |-> IF c \in dropList THEN "closed" ELSE sock[c]]
  /\ UNCHANGED <<clients, readList, cur, packet, misread, backlog, peer, inbox, outlog, rd,
                 sent, cut, rude, listVars, ownerVars>>

(* Unwinding OnUpdate destroys its socket lists; the listening socket is   *)
(* still held by m_pSocket.                                                *)
Unwind ==
  /\ pc' = "dead"
  /\ clients' = {} /\ readList' = {} /\ dropList' = {}
  /\ cur' = None /\ packet' = None
  /\ sock' = [c \in Client |-> IF sock[c] = "open" THEN "closed" ELSE sock[c]]
  /\ UNCHANGED <<backlog, peer, inbox, outlog, rd, sent, rude, listVars, ownerVars>>

(* A socket call on a connection that was reset throws: receiveBytes,      *)
(* sendBytes, peerAddress.                                                 *)
Throws ==
  \/ pc \in {"connect", "admit", "kick", "reply"} /\ peer[cur] = "reset"
  \/ pc = "dispatch" /\ \E c \in readList \ {Listener} : peer[c] = "reset"
  \/ pc = "drop" /\ \E c \in ToErase : peer[c] = "reset"

SocketException ==
  /\ Throws
  /\ Unwind
  /\ UNCHANGED <<misread, cut>>

(* A length that is no length: new char[iLength] throws an exception that  *)
(* CMessagePacket::Read does not catch.                                    *)
LengthException(c, k) ==
  /\ pc = "dispatch"
  /\ c \in readList
  /\ ~BeginsWithFrame(SubSeq(inbox[c], 1, k))
  /\ misread' = TRUE
  /\ cut' = CutBy(c, k)
  /\ Unwind

(* CNetwork::Exit deletes the socket, and the thread object with it.       *)
NetworkExit ==
  /\ m_pSocket' = FALSE
  /\ m_bCloseRequested' = FALSE

(* The loop ends: every socket in the list, the listening one included, is *)
(* closed.                                                                 *)
Exit ==
  /\ pc = "select"
  /\ m_bCloseRequested
  /\ pc' = "done"
  /\ clients' = {} /\ readList' = {} /\ dropList' = {}
  /\ sock' = [c \in Client |->
                IF c \in clients \/ sock[c] = "queued" THEN "closed" ELSE sock[c]]
  /\ backlog' = <<>>
  /\ NetworkExit
  /\ UNCHANGED <<cur, packet, misread, peer, inbox, outlog, rd, sent, cut, rude, listVars, main>>

(* exit(0), a crash, or the return of main(): the kernel closes what the   *)
(* process had open.                                                       *)
ProcessEnds ==
  /\ pc' = "gone"
  /\ clients' = {} /\ readList' = {} /\ dropList' = {}
  /\ cur' = None /\ packet' = None
  /\ sock' = [c \in Client |-> IF sock[c] = "none" THEN "none" ELSE "closed"]
  /\ backlog' = <<>>
  /\ AL!Stop
  /\ m_pSocket' = FALSE
  /\ m_bCloseRequested' = FALSE
  /\ main' = "closed"
  /\ UNCHANGED <<peer, inbox, outlog, rd, sent, cut, rude, everListed>>

(* A garbled text need not end with a NUL: the strlen and the output of it *)
(* may run off the heap.                                                   *)
Overrun ==
  /\ pc = "reply"
  /\ packet.n = Garbled
  /\ ProcessEnds
  /\ UNCHANGED misread

ServerThread ==
  \/ Select \/ Accept \/ ConnectHandler \/ Admit \/ Kick
  \/ \E c \in readList \ {Listener} :
       \/ ReceiveEnd(c)
       \/ \E k \in Prefixes(inbox[c]) :
            ReceiveMessage(c, k) \/ ReceiveMisread(c, k) \/ LengthException(c, k)
  \/ Packet_Message \/ DropAll \/ (\E c \in ToErase : Drop(c)) \/ EndRound
  \/ SocketException \/ Overrun \/ Exit
-------------------------------------------------------------------------------
(* The other threads of the server.                                        *)

(* A command of the operator reaches the white list.                       *)
Operator ==
  /\ main = "running"
  /\ \/ AL!Settle
     \/ \E a \in Address : AL!Add(a) \/ AL!Remove(a)
  /\ everListed' = everListed \cup listed'
  /\ UNCHANGED <<linkVars, threadVars, ownerVars>>

(* Command 3 of the menu: the action thread calls exit(0), wherever the    *)
(* network thread is.                                                      *)
ExitCommand ==
  /\ main = "running"
  /\ ProcessEnds
  /\ UNCHANGED misread

(* Fault: Close() joins without asking the thread to stop.                *)
CloseForgets ==
  /\ main = "running"
  /\ main' = "joining"
  /\ UNCHANGED <<m_pSocket, m_bCloseRequested, listVars, linkVars, threadVars>>

(* The loop of the action thread ends only by an exception.  Then          *)
(* CServer::Run returns and main() calls CServer::Close: CNetwork::Close   *)
(* asks the network thread to stop and joins it.                           *)
Close ==
  /\ main = "running"
  /\ m_bCloseRequested' = TRUE
  /\ main' = "joining"
  /\ UNCHANGED <<m_pSocket, listVars, linkVars, threadVars>>

(* join() returned; the objects are deleted and main() returns.            *)
JoinReturns ==
  /\ main = "joining"
  /\ pc \in {"done", "dead"}
  /\ ProcessEnds
  /\ UNCHANGED misread
-------------------------------------------------------------------------------
(* The echo clients, as far as the server can see them.                    *)

ClientUnchanged == UNCHANGED <<listVars, threadVars, ownerVars>>

Connect(c) ==
  /\ sock[c] = "none"
  /\ m_pSocket
  /\ sock' = [sock EXCEPT ![c] = "queued"]
  /\ peer' = [peer EXCEPT ![c] = "up"]
  /\ backlog' = Append(backlog, c)
  /\ UNCHANGED <<inbox, outlog, rd, sent, cut, rude>>
  /\ ClientUnchanged

ClientRead(c) ==
  /\ peer[c] = "up"
  /\ rd[c] < Len(outlog[c])
  /\ rd' = [rd EXCEPT ![c] = @ + 1]
  /\ UNCHANGED <<backlog, sock, peer, inbox, outlog, sent, cut, rude>>
  /\ ClientUnchanged

(* TryClientStart lets a client send after it has read ACCEPT, or when its *)
(* poll() timed out with no verdict and the packetType it never read looks *)
(* like one; a client that was kicked finds the server's end closed.  A    *)
(* short send is not completed (CClient::ListenAction).                    *)
ClientSend(c) ==
  /\ peer[c] = "up" /\ sock[c] \in {"queued", "open"}
  /\ sent[c] < MaxSend
  /\ c \in Talkers \/ sent[c] = 0
  /\ sent' = [sent EXCEPT ![c] = @ + 1]
  /\ LET n    == sent[c] + 1
         head == [n |-> n, part |-> "head"]
         tail == [n |-> n, part |-> "tail"]
     IN \/ inbox' = [inbox EXCEPT ![c] = @ \o <<head, tail>>] /\ UNCHANGED cut
        \/ /\ Segmented
           /\ inbox' = [inbox EXCEPT ![c] = Append(@, head)]
           /\ cut' = cut \cup {c}
  /\ UNCHANGED <<backlog, sock, peer, outlog, rd, rude>>
  /\ ClientUnchanged

(* Nothing is under way that the server would answer.                      *)
Answered(c) == outlog[c] # <<>> /\ inbox[c] = <<>> /\ cur # c

(* A close with unread packets resets the connection.                      *)
ClientClose(c) ==
  /\ peer[c] = "up"
  /\ \/ peer' = [peer EXCEPT ![c] = IF rd[c] = Len(outlog[c]) THEN "fin" ELSE "reset"]
     \/ MayReset /\ peer' = [peer EXCEPT ![c] = "reset"]
  /\ rude' = IF peer'[c] = "fin" /\ Answered(c) THEN rude ELSE rude \cup {c}
  /\ UNCHANGED <<backlog, sock, inbox, outlog, rd, sent, cut>>
  /\ ClientUnchanged

Clients == \E c \in Client :
             Connect(c) \/ ClientRead(c) \/ ClientSend(c) \/ ClientClose(c)

Next == ServerThread \/ Operator \/ ExitCommand \/ Close \/ JoinReturns \/ Clients

Spec == Init /\ [][Next]_vars

(* The network thread and main() are scheduled, and the update thread of a *)
(* client keeps reading.  Nothing else has to happen.                      *)
Fairness ==
  /\ WF_vars(ServerThread)
  /\ WF_vars(JoinReturns)
  /\ \A c \in Client : WF_vars(ClientRead(c))

FairSpec == Spec /\ Fairness
-------------------------------------------------------------------------------
Over == {"dead", "done", "gone"}                      \* the thread has ended
Handling == {"connect", "admit", "kick", "reply"}     \* it works on `cur'

ListTypes ==
  /\ listed \in SUBSET Address /\ everListed \in SUBSET Address
  /\ unsettled \in SUBSET Address
  /\ up \in BOOLEAN
  /\ answer \in (Address \X BOOLEAN) \cup {None}

LinkTypes ==
  /\ backlog \in Seq(Client)
  /\ sock \in [Client -> {"none", "queued", "open", "closed"}]
  /\ peer \in [Client -> {"none", "up", "fin", "reset"}]
  /\ inbox \in [Client -> Seq(Piece)]
  /\ outlog \in [Client -> Seq(Packet)]
  /\ rd \in [Client -> Nat]
  /\ sent \in [Client -> 0 .. MaxSend]
  /\ cut \in SUBSET Client /\ rude \in SUBSET Client

ThreadTypes ==
  /\ pc \in {"select", "dispatch", "drop"} \cup Handling \cup Over
  /\ clients \in SUBSET Client
  /\ readList \in SUBSET (Client \cup {Listener})
  /\ dropList \in SUBSET Client
  /\ cur \in Client \cup {None}
  /\ cur # None <=> pc \in Handling
  /\ IF pc = "reply" THEN packet \in Packet ELSE packet = None
  /\ misread \in BOOLEAN
  /\ m_pSocket \in BOOLEAN /\ m_bCloseRequested \in BOOLEAN
  /\ main \in {"running", "joining", "closed"}

(* The types of the variables; the thread works on a connection exactly    *)
(* while it is in a handler, and holds a packet exactly while it replies.  *)
TypeOK == ListTypes /\ LinkTypes /\ ThreadTypes

(* The sockets OnUpdate works with are the connections that are open: a    *)
(* client is in the list exactly while its socket is open and it is not    *)
(* the one being judged or erased, and a socket in readList or dropList is *)
(* a client until it is erased.  No handler works on a socket that was     *)
(* closed, and none leaks.                                                 *)
LiveSockets ==
  /\ \A c \in Client : sock[c] = "open" <=> c \in clients \cup dropList \/ c = cur
  /\ readList \ {Listener} \subseteq clients
  /\ pc # "drop" => dropList \subseteq clients
  /\ pc \in {"connect", "admit", "kick"} => cur \notin clients

(* acceptConnection() and receiveBytes() are blocking calls, made on the   *)
(* sockets select() reported: whatever clients and handlers do between     *)
(* select() and the call, the socket is still readable then, so one client *)
(* never stalls the loop in a receive.                                     *)
NeverBlocksInReceive == \A s \in readList : Readable(s)

(* What a client gets from the server begins with one verdict; after       *)
(* ACCEPT come only messages, after KICK nothing.  The client's            *)
(* TryClientStart reads the first packet as the verdict.                   *)
VerdictFirst ==
  \A c \in Client :
    /\ \A i \in DOMAIN outlog[c] :
         IF i = 1 THEN outlog[c][i].type \in {"ACCEPT", "KICK"}
                  ELSE outlog[c][i].type = "MESSAGE" /\ outlog[c][1].type = "ACCEPT"
    /\ c \in clients => outlog[c] # <<>> /\ outlog[c][1].type = "ACCEPT"

(* A connection is admitted only if its address has been in the white list *)
(* while the server ran, however the operator's commands interleave with   *)
(* the lookups.                                                            *)
OnlyListedServed ==
  \A c \in Client : outlog[c] # <<>> /\ outlog[c][1].type = "ACCEPT" => host[c] \in everListed

(* The messages a client gets back are its own, in the order in which it   *)
(* sent them and none twice: of the texts that are not garbled, a later    *)
(* one has a greater number, however TCP cuts and joins the frames.        *)
Echo(c) == {i \in DOMAIN outlog[c] : outlog[c][i].type = "MESSAGE"
                                      /\ outlog[c][i].n # Garbled}

EchoOrder ==
  \A c \in Client :
    /\ \A i \in DOMAIN outlog[c] : outlog[c][i].from = c
    /\ \A i \in Echo(c) : outlog[c][i].n <= sent[c]
    /\ \A i, j \in Echo(c) : i < j => outlog[c][i].n < outlog[c][j].n

(* A patient client never does the others harm.  An exception that escapes *)
(* ends the thread and every connection with it, and nothing in OnUpdate   *)
(* tells a client that closes from one that is still to be written to.     *)
(* Yet a client that waits until nothing of it is under way (its verdict   *)
(* has come, what it sent has been taken, the thread does not work on it), *)
(* reads all it was sent and closes then, kicked or admitted, leaves the   *)
(* thread alive, in any order with the round and with the other clients:   *)
(* the thread dies only if some client did not wait, or of a misread.      *)
PatientClientsHarmless == pc = "dead" => misread \/ rude # {}

(* What makes it inductive: towards a client that waited no send is to     *)
(* come that its close could meet.                                         *)
Patience ==
  \A c \in Client \ rude :
    /\ peer[c] # "reset"
    /\ peer[c] = "fin" => Answered(c)

(* What makes the safety properties above inductive.  The connections: one *)
(* that is waiting in the backlog is there once and has been sent nothing, *)
(* and so has the one that is being judged.                                *)
Connections ==
  /\ \A c \in Client : sock[c] = "none" <=> peer[c] = "none"
  /\ \A i \in DOMAIN backlog : sock[backlog[i]] = "queued"
  /\ \A i, j \in DOMAIN backlog : backlog[i] = backlog[j] => i = j
  /\ \A c \in Client : sock[c] \in {"none", "queued"} => outlog[c] = <<>>
  /\ pc \in {"connect", "admit", "kick"} => outlog[cur] = <<>>

(* The white list: what a lookup may admit has been listed.                *)
Admission ==
  /\ listed \cup unsettled \subseteq everListed
  /\ pc = "admit" => host[cur] \in everListed

(* The round: a reply goes to the client it came from, and nothing is left *)
(* to read when clients are dropped.                                       *)
Round ==
  /\ pc = "reply" => cur \in clients /\ packet.type = "MESSAGE" /\ packet.from = cur
  /\ pc = "drop" => readList = {}

IInv ==
  /\ TypeOK /\ LiveSockets /\ NeverBlocksInReceive
  /\ VerdictFirst /\ OnlyListedServed /\ PatientClientsHarmless
  /\ Patience /\ Connections /\ Admission /\ Round

(* What makes EchoOrder inductive.  The pieces that wait in a connection   *)
(* are in the order in which they were sent, and a frame that has been     *)
(* echoed is behind every frame whose beginning still waits.               *)
InOrder ==
  \A c \in Client :
    /\ \A i \in DOMAIN inbox[c] : inbox[c][i].n <= sent[c]
    /\ \A i, j \in DOMAIN inbox[c] :
         i < j => /\ inbox[c][i].n <= inbox[c][j].n
                  /\ inbox[c][j].part = "head" => inbox[c][i].n < inbox[c][j].n

Waiting(c) == {inbox[c][i].n : i \in {j \in DOMAIN inbox[c] : inbox[c][j].part = "head"}}

EchoBehind ==
  \A c \in Client : \A i \in Echo(c) : \A n \in Waiting(c) : outlog[c][i].n < n

(* A reply under way is between the echoes and the frames that wait.       *)
ReplyBetween ==
  pc = "reply" /\ packet.n # Garbled =>
    /\ packet.n <= sent[cur]
    /\ \A i \in Echo(cur) : outlog[cur][i].n < packet.n
    /\ \A n \in Waiting(cur) : packet.n < n

(* CMessagePacket::Read assumes that a receive begins with a packet.  That *)
(* is so, however many frames a receive swallows and however few of them   *)
(* are handled, until a frame has been cut: nothing is misread before, and *)
(* no text is garbled but of a client whose frame was cut.  Where TCP cuts *)
(* none, only the full buffer does, and it takes more frames than fit in   *)
(* the buffer to fill it: the fourth may be the first.                     *)
WholeFramesRead ==
  /\ misread => cut # {}
  /\ pc = "reply" /\ packet.n = Garbled => cur \in cut
  /\ \A c \in cut : Segmented \/ sent[c] * LongestFrame > MAX_BUFFER_LENGTH

(* What makes it inductive: heads and tails alternate.                     *)
Alternate(q) ==
  \A i \in DOMAIN q :
    /\ q[i].part = "head" => i + 1 \in DOMAIN q /\ q[i+1] = [n |-> q[i].n, part |-> "tail"]
    /\ q[i].part = "tail" => i - 1 \in DOMAIN q /\ q[i-1].part = "head"

WholeFrames == \A c \in Client \ cut : Alternate(inbox[c])

OrderInv ==
  /\ IInv
  /\ EchoOrder /\ InOrder /\ EchoBehind /\ ReplyBetween
  /\ WholeFramesRead /\ WholeFrames

(* Towards each of its clients the server keeps the contract of EchoLink:  *)
(* \A c \in Client : EL(c)!Spec, as one action formula.                    *)
ImplementsEchoLink ==
  /\ \A c \in Client : EL(c)!Init
  /\ [][\A c \in Client : [EL(c)!Next]_(EL(c)!vars)]_vars

(* A round ends.  StepsLeft is the greatest number of steps the thread has *)
(* before it in the round it is in: to dispatch and to close what it has   *)
(* listed, with the two calls of ConnectHandler and sendBytes for a new    *)
(* connection and one for a message.                                       *)
InRound == pc \notin {"select"} \cup Over

StepsLeft ==
  CASE pc = "drop"  -> 1 + Cardinality(ToErase)
    [] ~InRound     -> 0
    [] OTHER        -> 2 + Cardinality(dropList) + 3 * Cardinality(readList)
                         + CASE pc = "connect"  -> 2
                             [] pc = "dispatch" -> 0
                             [] OTHER           -> 1

(* Every step of the thread brings the end of its round nearer, and nobody *)
(* else puts it off: however much clients send and connect meanwhile, the  *)
(* thread comes back to select() and to the close request, if sendBytes    *)
(* does not block.                                                         *)
RoundDescends ==
  [][InRound => StepsLeft' < StepsLeft \/ UNCHANGED threadVars]_vars

(* From the moment CNetwork::Close waits in join() the thread starts no    *)
(* other round: wherever the request finds it, each of its steps brings    *)
(* its end nearer.                                                         *)
UntilEnd == IF pc \in Over THEN 0 ELSE 1 + StepsLeft

CloseDescends ==
  [][main = "joining" /\ pc \notin Over =>
       UntilEnd' < UntilEnd \/ UNCHANGED threadVars]_vars

(* What makes it hold: a request is kept until the thread has ended.       *)
RequestKept ==
  main = "joining" => m_bCloseRequested \/ pc \in Over

(* Every connection gets its verdict, or the thread ends.                  *)
VerdictComes ==
  \A c \in Client : sock[c] = "queued" ~> outlog[c] # <<>> \/ pc \in Over

(* A client that has closed leaves the list, after what it sent was read.  *)
ClosedIsDropped ==
  \A c \in Client : c \in clients /\ peer[c] = "fin" ~> c \notin clients

(* The message at the front of an admitted client's connection is echoed   *)
(* (in a network that does not cut frames), however many are queued behind *)
(* it, or the thread ends.                                                 *)
Echoed(c, n) == Message(c, n) \in {outlog[c][i] : i \in DOMAIN outlog[c]}

FrontIsEchoed ==
  \A c \in Client : \A n \in 1 .. MaxSend :
    c \in clients /\ inbox[c] # <<>> /\ inbox[c][1] = [n |-> n, part |-> "head"]
      ~> Echoed(c, n) \/ pc \in Over

(* CServer::Close returns: the thread sees the request and ends, wherever  *)
(* the request finds it, unless it is already dead.                        *)
CloseCompletes == main = "joining" ~> main = "closed"
===============================================================================
