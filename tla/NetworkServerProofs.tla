-------------------------- MODULE NetworkServerProofs --------------------------
(***************************************************************************)
(* Proofs about the network thread, for any set of connections and         *)
(* addresses, any number of messages and any capacity of a connection: the *)
(* inductive invariant IInv, part by part, and the safety properties that  *)
(* follow from it.                                                         *)
(***************************************************************************)
EXTENDS NetworkServer, SequenceTheorems, FiniteSetTheorems, TLAPS

(* Every initial state satisfies the inductive invariant.                  *)
LEMMA InitIInv == Init => IInv
  <1> SUFFICES ASSUME Init PROVE IInv
    OBVIOUS
  <1> USE ServerAssumption DEF Init
  <1>1. ListTypes 
    BY DEF ListTypes
  <1>2. LinkTypes
    <2>1. inbox \in [Client -> Seq(Piece)] /\ outlog \in [Client -> Seq(Packet)]
       OBVIOUS
    <2>2. sent \in [Client -> 0 .. MaxSend] /\ backlog \in Seq(Client)
       OBVIOUS
    <2> QED
    BY <2>1, <2>2 DEF LinkTypes
  <1>3. ThreadTypes
    BY DEF ThreadTypes, Handling, Over
  <1>5. LiveSockets /\ NeverBlocksInReceive /\ VerdictFirst /\ OnlyListedServed
        /\ PatientClientsHarmless /\ Patience
    BY DEF LiveSockets, NeverBlocksInReceive, VerdictFirst, OnlyListedServed,
           PatientClientsHarmless, Patience
  <1>6. Connections /\ Admission /\ Round
    BY DEF Connections, Admission, Round
  <1> QED
    BY <1>1, <1>2, <1>3, <1>5, <1>6 DEF IInv, TypeOK

(* What acceptConnection finds: the backlog is not empty.                  *)
LEMMA AcceptFacts ==
  ASSUME TypeOK, NeverBlocksInReceive, Accept
  PROVE  /\ backlog # <<>>
         /\ Head(backlog) \in Client
         /\ Tail(backlog) \in Seq(Client)
         /\ sock' \in [Client -> {"none", "queued", "open", "closed"}]
  <1>1. backlog # <<>>
    BY DEF Accept, NeverBlocksInReceive, Readable
  <1>2. Head(backlog) \in Client /\ Tail(backlog) \in Seq(Client)
    BY <1>1 DEF TypeOK, LinkTypes
  <1>3. sock' \in [Client -> {"none", "queued", "open", "closed"}]
    BY <1>2 DEF Accept, TypeOK, LinkTypes
  <1> QED
    BY <1>1, <1>2, <1>3

(* Every step keeps the types of the connections.                          *)
LEMMA LinkStep == TypeOK /\ NeverBlocksInReceive /\ Next => LinkTypes'
  <1> SUFFICES ASSUME TypeOK, NeverBlocksInReceive, Next PROVE LinkTypes'
    OBVIOUS
  <1> USE ServerAssumption
      DEF TypeOK, LinkTypes, linkVars
  <1>0. cur # None => cur \in Client BY DEF ThreadTypes
  <1>1. ASSUME NEW p \in Packet, cur \in Client, SendBytes(p),
               sock' \in [Client -> {"none", "queued", "open", "closed"}]
        PROVE  LinkTypes'
    <2>1. Append(outlog[cur], p) \in Seq(Packet)
      BY <1>1
    <2>2. outlog' \in [Client -> Seq(Packet)]
      BY <1>1, <2>1 DEF SendBytes
    <2>3. peer' \in [Client -> {"none", "up", "fin", "reset"}]
      BY <1>1 DEF SendBytes
    <2> QED
      BY <1>1, <2>2, <2>3 DEF SendBytes
  <1>2. ASSUME ProcessEnds PROVE LinkTypes'
    <2>1. sock' \in [Client -> {"none", "queued", "open", "closed"}]
      BY <1>2 DEF ProcessEnds
    <2>2. backlog' \in Seq(Client)
      BY <1>2 DEF ProcessEnds
    <2> QED BY <1>2, <2>1, <2>2 DEF ProcessEnds
  <1>3. ASSUME NEW c \in Client, NEW k \in Prefixes(inbox[c]), Take(c, k) PROVE LinkTypes'
    <2>1. k \in Nat /\ k <= Len(inbox[c])
      BY DEF Prefixes
    <2>2. SubSeq(inbox[c], k + 1, Len(inbox[c])) \in Seq(Piece)
      BY <2>1
    <2>3. inbox' \in [Client -> Seq(Piece)]
      BY <1>3, <2>2 DEF Take
    <2> QED BY <1>3, <2>3 DEF Take, CutBy
  <1>4. CASE Accept
    BY <1>4, AcceptFacts DEF Accept
  <1>5. ASSUME NEW c \in Client, ClientSend(c) PROVE LinkTypes'
    <2> DEFINE head == [n |-> sent[c] + 1, part |-> "head"]
               tail == [n |-> sent[c] + 1, part |-> "tail"]
    <2>1. sent[c] + 1 \in 1 .. MaxSend
      BY <1>5 DEF ClientSend
    <2>2. head \in Piece /\ tail \in Piece
      BY <2>1 DEF Piece
    <2>3. sent' \in [Client -> 0 .. MaxSend]
      BY <2>1, <1>5 DEF ClientSend
    <2>4. inbox[c] \o <<head, tail>> \in Seq(Piece) /\ Append(inbox[c], head) \in Seq(Piece)
      BY <2>2
    <2> HIDE DEF head, tail
    <2>5. inbox' \in [Client -> Seq(Piece)]
      <3>1. \/ inbox' = [inbox EXCEPT ![c] = inbox[c] \o <<head, tail>>]
            \/ inbox' = [inbox EXCEPT ![c] = Append(inbox[c], head)]
        BY <1>5 DEF ClientSend, head, tail
      <3> QED BY <3>1, <2>4
    <2> QED BY <1>5, <2>3, <2>5 DEF ClientSend
  <1>6. ASSUME NEW c \in Client, ClientClose(c) PROVE LinkTypes'
    <2>1. peer' \in [Client -> {"none", "up", "fin", "reset"}]
      BY <1>6 DEF ClientClose
    <2> QED BY <1>6, <2>1 DEF ClientClose
  <1>7. CASE Exit
    <2>1. sock' \in [Client -> {"none", "queued", "open", "closed"}]
      BY <1>7 DEF Exit, NetworkExit
    <2>2. backlog' \in Seq(Client)
      BY <1>7 DEF Exit, NetworkExit
    <2> QED BY <1>7, <2>1, <2>2 DEF Exit, NetworkExit
  <1>8. CASE Admit
    <2>1. Verdict(cur, "ACCEPT") \in Packet /\ cur \in Client
      BY <1>8 DEF Admit, Verdict, Packet, ThreadTypes, Handling
    <2> QED BY <1>8, <2>1, <1>1 DEF Admit
  <1>9. CASE Kick
    <2>1. Verdict(cur, "KICK") \in Packet /\ cur \in Client
      BY <1>9 DEF Kick, Verdict, Packet, ThreadTypes, Handling
    <2>2. sock' \in [Client -> {"none", "queued", "open", "closed"}]
      BY <1>9, <2>1 DEF Kick
    <2> QED BY <1>9, <2>1, <2>2, <1>1 DEF Kick
  <1>10. CASE Packet_Message
    <2>1. packet \in Packet /\ cur \in Client
      BY <1>10 DEF Packet_Message, ThreadTypes, Handling
    <2> QED BY <1>10, <2>1, <1>1 DEF Packet_Message
  <1>11. ASSUME NEW c \in readList \ {Listener}, NEW k \in Prefixes(inbox[c]),
                ReceiveMessage(c, k) \/ ReceiveMisread(c, k) PROVE LinkTypes'
    BY <1>11, <1>3 DEF ReceiveMessage, PacketHandler, Message, ReceiveMisread,
                       ThreadTypes
  <1>12. ASSUME Unwind, cut' \in SUBSET Client PROVE LinkTypes'
    BY <1>12 DEF Unwind
  <1>13. ASSUME NEW c \in Client, Connect(c) PROVE LinkTypes'
    BY <1>13 DEF Connect
  <1>14. ASSUME NEW c \in Client, ClientRead(c) PROVE LinkTypes'
    BY <1>14 DEF ClientRead
  <1>15. CASE EndRound
    <2>1. sock' \in [Client -> {"none", "queued", "open", "closed"}]
      BY <1>15 DEF EndRound
    <2> QED BY <1>15, <2>1 DEF EndRound
  <1>16. ASSUME UNCHANGED linkVars PROVE LinkTypes'
    BY <1>16
  <1>17. ASSUME NEW c \in readList \ {Listener}, ReceiveEnd(c) PROVE LinkTypes'
    BY <1>17 DEF ReceiveEnd
  <1>18. CASE Select \/ ConnectHandler \/ DropAll \/ (\E c \in ToErase : Drop(c))
              \/ Operator \/ Close
    BY <1>18, <1>16 DEF Select, ConnectHandler, DropAll, Drop, Operator, Close
  <1>19. CASE SocketException
    BY <1>12, <1>19 DEF SocketException
  <1>20. ASSUME NEW c \in readList \ {Listener}, NEW k \in Prefixes(inbox[c]),
                LengthException(c, k) PROVE LinkTypes'
    <2>1. cut' \in SUBSET Client
      BY <1>20 DEF LengthException, CutBy, ThreadTypes
    <2> QED
      BY <1>12, <1>20, <2>1 DEF LengthException
  <1> QED
    BY <1>2, <1>4, <1>5, <1>6, <1>7, <1>8, <1>9, <1>10, <1>11, <1>13, <1>14,
       <1>15, <1>17, <1>18, <1>19, <1>20
       DEF Next, ServerThread, Clients, Overrun, ExitCommand, JoinReturns

(* Every step keeps the types of the white list.                           *)
LEMMA ListStep == ListTypes /\ Admission /\ TypeOK /\ Next => ListTypes'
  <1> SUFFICES ASSUME ListTypes, Admission, TypeOK, Next PROVE ListTypes'
    OBVIOUS
  <1> USE ServerAssumption DEF ListTypes, listVars
  <1>1. ASSUME ProcessEnds PROVE ListTypes'
    BY <1>1 DEF ProcessEnds, AL!Stop
  <1>2. CASE ConnectHandler
    <2>1. cur \in Client
      BY <1>2 DEF ConnectHandler, TypeOK, ThreadTypes, Handling
    <2>2. host[cur] \in Address
      BY <2>1
    <2> QED
      BY <1>2, <2>2 DEF ConnectHandler, AL!Lookup, AL!Answers
  <1>3. CASE Operator
    BY <1>3 DEF Operator, AL!Settle, AL!Add, AL!Remove, AL!Commit
  <1>4. ASSUME UNCHANGED listVars PROVE ListTypes'
    BY <1>4
  <1> QED
    BY <1>1, <1>2, <1>3, <1>4
       DEF Next, ServerThread, Clients, Select, Accept, Admit, Kick, ReceiveEnd,
           Take, ReceiveMessage, PacketHandler, Message, ReceiveMisread,
           LengthException, Packet_Message, DropAll, Drop, EndRound, Unwind,
           SocketException, Overrun, Exit, NetworkExit, ExitCommand, Close,
           JoinReturns, Connect, ClientRead, ClientSend, ClientClose,
           ClientUnchanged

(* Every step keeps the types of the locals and members.                   *)
LEMMA ThreadStep == TypeOK /\ NeverBlocksInReceive /\ Next => ThreadTypes'
  <1> SUFFICES ASSUME TypeOK, NeverBlocksInReceive, Next PROVE ThreadTypes'
    OBVIOUS
  <1> USE ServerAssumption
      DEF TypeOK, ThreadTypes, threadVars, ownerVars, Handling, Over, Listener
  <1>1. ASSUME ProcessEnds, UNCHANGED misread PROVE ThreadTypes'
    BY <1>1 DEF ProcessEnds
  <1>2. ASSUME Unwind, misread' \in BOOLEAN PROVE ThreadTypes'
    BY <1>2 DEF Unwind
  <1>3. CASE Select \/ DropAll \/ EndRound
    BY <1>3 DEF Select, SelectSet, DropAll, EndRound
  <1>4. CASE Accept
    BY <1>4, AcceptFacts DEF Accept
  <1>5. CASE ConnectHandler \/ Admit \/ Kick \/ Packet_Message
    BY <1>5 DEF ConnectHandler, Admit, Kick, Packet_Message
  <1>6. ASSUME NEW c \in readList \ {Listener}, ReceiveEnd(c) PROVE ThreadTypes'
    BY <1>6 DEF ReceiveEnd
  <1>7. ASSUME NEW c \in readList \ {Listener}, NEW k \in Prefixes(inbox[c]),
               ReceiveMessage(c, k) PROVE ThreadTypes'
    <2>1. inbox[c] \in Seq(Piece) /\ k \in 1 .. Len(inbox[c])
      BY DEF LinkTypes, Prefixes
    <2>2. inbox[c][1] \in Piece
      BY <2>1
    <2>3. packet' \in Packet
      BY <1>7, <2>2 DEF ReceiveMessage, PacketHandler, Message, Packet, Piece
    <2> QED
      BY <1>7, <2>3 DEF ReceiveMessage, PacketHandler, Message, Take
  <1>8. ASSUME NEW c \in readList \ {Listener}, NEW k \in Prefixes(inbox[c]),
               ReceiveMisread(c, k) PROVE ThreadTypes'
    <2>1. Message(c, Garbled) \in Packet
      BY DEF Message, Packet, Garbled
    <2>2. inbox[c] \in Seq(Piece) /\ k \in 1 .. Len(inbox[c])
      BY DEF LinkTypes, Prefixes
    <2>3. inbox[c][1] \in Piece
      BY <2>2
    <2>4. Message(c, inbox[c][1].n) \in Packet
      BY <2>3 DEF Message, Packet, Piece
    <2>5. packet' = packet \/ packet' \in Packet
      BY <1>8, <2>1, <2>4 DEF ReceiveMisread, PacketHandler
    <2> QED
      BY <1>8, <2>1, <2>4, <2>5 DEF ReceiveMisread, PacketHandler, Message, Take
  <1>9. ASSUME NEW c \in ToErase, Drop(c) PROVE ThreadTypes'
    BY <1>9 DEF Drop
  <1>10. CASE Exit
    BY <1>10 DEF Exit, NetworkExit
  <1>11. CASE Operator \/ Close
    BY <1>11 DEF Operator, Close
  <1>12. CASE Clients
    BY <1>12 DEF Clients, Connect, ClientRead, ClientSend, ClientClose,
                 ClientUnchanged
  <1> QED
    BY <1>1, <1>2, <1>3, <1>4, <1>5, <1>6, <1>7, <1>8, <1>9, <1>10, <1>11, <1>12
       DEF Next, ServerThread, SocketException, LengthException, Overrun,
           ExitCommand, JoinReturns

(* A connection that joins the backlog.                                    *)
LEMMA AppendToBacklog ==
  ASSUME TypeOK, NEW c \in Client
  PROVE  /\ Append(backlog, c) # <<>>
         /\ DOMAIN backlog = 1 .. Len(backlog)
         /\ Len(backlog) \in Nat
         /\ DOMAIN Append(backlog, c) = 1 .. Len(backlog) + 1
         /\ \A i \in DOMAIN backlog : Append(backlog, c)[i] = backlog[i]
         /\ Append(backlog, c)[Len(backlog) + 1] = c
  <1>1. backlog \in Seq(Client)
    BY DEF TypeOK, LinkTypes
  <1>2. /\ Append(backlog, c) \in Seq(Client) /\ Append(backlog, c) # <<>>
        /\ Len(Append(backlog, c)) = Len(backlog) + 1
        /\ \A i \in 1 .. Len(backlog) : Append(backlog, c)[i] = backlog[i]
        /\ Append(backlog, c)[Len(backlog) + 1] = c
    BY <1>1, AppendProperties
  <1> QED
    BY <1>1, <1>2

(* No step leaves a socket open that is not in the list, or closes one     *)
(* that is.                                                                *)
LEMMA LiveSocketsStep == IInv /\ Next => LiveSockets'
  <1> SUFFICES ASSUME IInv, Next PROVE LiveSockets'
    OBVIOUS
  <1> USE ServerAssumption
      DEF IInv, TypeOK, LinkTypes, ThreadTypes, LiveSockets, linkVars, threadVars,
          Handling, Over, Listener
  <1>1. ASSUME ProcessEnds \/ Unwind PROVE LiveSockets'
    <2>1. /\ clients' = {} /\ readList' = {} /\ dropList' = {} /\ cur' = None
          /\ pc' \in {"gone", "dead"}
      BY <1>1 DEF ProcessEnds, Unwind
    <2>2. \A c \in Client : sock'[c] # "open"
      <3>1. CASE ProcessEnds
        BY <3>1 DEF ProcessEnds
      <3>2. CASE Unwind
        BY <3>2 DEF Unwind
      <3> QED  BY <1>1, <3>1, <3>2
    <2> QED  BY <2>1, <2>2
  <1>2. CASE Select \/ DropAll \/ ConnectHandler
    BY <1>2 DEF Select, SelectSet, DropAll, ConnectHandler
  <1>3. CASE Accept
    <2>1. /\ backlog # <<>>
          /\ Head(backlog) \in Client
      BY <1>3, AcceptFacts
    <2>2. sock[Head(backlog)] = "queued"
      BY <2>1 DEF Connections
    <2> QED
      BY <1>3, <2>1, <2>2 DEF Accept
  <1>4. CASE Admit \/ Kick
    <2>1. cur \in Client /\ cur \notin clients /\ sock[cur] = "open" /\ None \notin Client
      BY <1>4 DEF Admit, Kick
    <2>2. CASE Admit
      BY <2>1, <2>2 DEF Admit, SendBytes
    <2>3. CASE Kick
      BY <2>1, <2>3 DEF Kick, SendBytes
    <2> QED
      BY <1>4, <2>2, <2>3
  <1>5. CASE Packet_Message
    BY <1>5 DEF Packet_Message, SendBytes, Round
  <1>6. ASSUME NEW c \in readList \ {Listener}, ReceiveEnd(c) PROVE LiveSockets'
    BY <1>6 DEF ReceiveEnd
  <1>7. ASSUME NEW c \in readList \ {Listener}, NEW k \in Prefixes(inbox[c]),
               ReceiveMessage(c, k) \/ ReceiveMisread(c, k) PROVE LiveSockets'
    BY <1>7 DEF ReceiveMessage, PacketHandler, Message, ReceiveMisread, Take
  <1>8. ASSUME NEW c \in ToErase, Drop(c) PROVE LiveSockets'
    <2>1. c \in dropList /\ cur = None /\ readList = {} /\ pc = "drop"
      BY <1>8 DEF Drop, Round, ToErase
    <2> QED
      BY <1>8, <2>1 DEF Drop
  <1>12. CASE EndRound
    <2>1. /\ cur = None /\ readList = {} /\ dropList \cap clients = {}
          /\ UNCHANGED <<clients, readList, cur>> /\ dropList' = {} /\ pc' = "select"
      BY <1>12 DEF EndRound, Round, ToErase
    <2>2. \A c \in Client : sock'[c] = IF c \in dropList THEN "closed" ELSE sock[c]
      BY <1>12 DEF EndRound
    <2> QED
      BY <2>1, <2>2
  <1>9. CASE Exit
    BY <1>9 DEF Exit, NetworkExit
  <1>10. CASE Operator \/ Close
    BY <1>10 DEF Operator, Close
  <1>11. CASE Clients
    BY <1>11 DEF Clients, Connect, ClientRead, ClientSend, ClientClose,
                 ClientUnchanged
  <1> QED
    BY <1>1, <1>2, <1>3, <1>4, <1>5, <1>6, <1>7, <1>8, <1>9, <1>10, <1>11, <1>12
       DEF Next, ServerThread, SocketException, LengthException, Overrun,
           ExitCommand, JoinReturns

(* No step takes from a socket in readList what made it readable.          *)
LEMMA NeverBlocksStep == IInv /\ Next => NeverBlocksInReceive'
  <1> SUFFICES ASSUME IInv, Next PROVE NeverBlocksInReceive'
    OBVIOUS
  <1> USE ServerAssumption
      DEF IInv, TypeOK, LinkTypes, ThreadTypes, NeverBlocksInReceive, Readable,
          linkVars, threadVars, Listener
  <1>1. ASSUME ProcessEnds \/ Unwind PROVE NeverBlocksInReceive'
    BY <1>1 DEF ProcessEnds, Unwind
  <1>2. CASE Select \/ DropAll \/ EndRound \/ ConnectHandler
    BY <1>2 DEF Select, SelectSet, DropAll, EndRound, ConnectHandler
  <1>3. CASE Accept
    BY <1>3 DEF Accept
  <1>4. CASE Admit \/ Kick \/ Packet_Message
    BY <1>4 DEF Admit, Kick, Packet_Message, SendBytes
  <1>6. ASSUME NEW c \in readList \ {Listener}, ReceiveEnd(c) PROVE NeverBlocksInReceive'
    BY <1>6 DEF ReceiveEnd
  <1>7. ASSUME NEW c \in readList \ {Listener}, NEW k \in Prefixes(inbox[c]),
               ReceiveMessage(c, k) \/ ReceiveMisread(c, k) PROVE NeverBlocksInReceive'
    BY <1>7 DEF ReceiveMessage, PacketHandler, Message, ReceiveMisread, Take
  <1>8. ASSUME NEW c \in ToErase, Drop(c) PROVE NeverBlocksInReceive'
    BY <1>8 DEF Drop
  <1>9. CASE Exit
    BY <1>9 DEF Exit, NetworkExit
  <1>10. CASE Operator \/ Close
    BY <1>10 DEF Operator, Close
  <1>11. ASSUME NEW c \in Client, Connect(c) PROVE NeverBlocksInReceive'
    <2>1. Append(backlog, c) # <<>>
      BY AppendToBacklog
    <2>2. peer[c] = "none"
      BY <1>11 DEF Connect, Connections
    <2> QED
      BY <1>11, <2>1, <2>2 DEF Connect, ClientUnchanged
  <1>12. ASSUME NEW c \in Client, ClientRead(c) \/ ClientClose(c)
         PROVE  NeverBlocksInReceive'
    BY <1>12 DEF ClientRead, ClientClose, ClientUnchanged
  <1>13. ASSUME NEW c \in Client, ClientSend(c) PROVE NeverBlocksInReceive'
    <2>1. inbox' = [inbox EXCEPT ![c] = inbox'[c]] /\ inbox'[c] # <<>>
      BY <1>13 DEF ClientSend
    <2> QED
      BY <1>13, <2>1 DEF ClientSend, ClientUnchanged
  <1> QED
    BY <1>1, <1>2, <1>3, <1>4, <1>6, <1>7, <1>8, <1>9, <1>10, <1>11, <1>12, <1>13
       DEF Next, ServerThread, SocketException, LengthException, Overrun,
           ExitCommand, JoinReturns, Clients

(* What a send does to the packets of one client and leaves of the others. *)
LEMMA SendAppends ==
  ASSUME TypeOK, cur \in Client, NEW p \in Packet, SendBytes(p)
  PROVE  /\ \A c \in Client \ {cur} : outlog'[c] = outlog[c]
         /\ DOMAIN outlog[cur] = 1 .. Len(outlog[cur])
         /\ Len(outlog[cur]) \in Nat
         /\ DOMAIN outlog'[cur] = 1 .. Len(outlog[cur]) + 1
         /\ \A i \in DOMAIN outlog[cur] : outlog'[cur][i] = outlog[cur][i]
         /\ outlog'[cur][Len(outlog[cur]) + 1] = p
         /\ \A i \in DOMAIN outlog'[cur] :
              i \in DOMAIN outlog[cur] \/ (i = Len(outlog[cur]) + 1 /\ outlog'[cur][i] = p)
         /\ outlog'[cur] # <<>>
         /\ outlog[cur] = <<>> <=> Len(outlog[cur]) = 0
  <1> DEFINE s == outlog[cur]
  <1>1. s \in Seq(Packet) /\ outlog' = [outlog EXCEPT ![cur] = Append(s, p)]
    BY DEF TypeOK, LinkTypes, SendBytes
  <1>2. outlog'[cur] = Append(s, p) /\ \A c \in Client \ {cur} : outlog'[c] = outlog[c]
    BY <1>1 DEF TypeOK, LinkTypes
  <1> HIDE DEF s
  <1>3. /\ Append(s, p) \in Seq(Packet) /\ Append(s, p) # <<>>
        /\ Len(Append(s, p)) = Len(s) + 1
        /\ \A i \in 1 .. Len(s) : Append(s, p)[i] = s[i]
        /\ Append(s, p)[Len(s) + 1] = p
    BY <1>1, AppendProperties
  <1> DEFINE t == Append(s, p)
  <1>4. DOMAIN s = 1 .. Len(s) /\ Len(s) \in Nat /\ (s = <<>> <=> Len(s) = 0)
    BY <1>1
  <1>5. /\ t # <<>> /\ DOMAIN t = 1 .. Len(s) + 1
        /\ \A i \in DOMAIN s : t[i] = s[i]
        /\ t[Len(s) + 1] = p
    BY <1>3, <1>4
  <1>6. outlog'[cur] = t
    BY <1>2
  <1> HIDE DEF t
  <1>7. \A i \in DOMAIN t : i \in DOMAIN s \/ (i = Len(s) + 1 /\ t[i] = p)
    BY ONLY <1>4, <1>5
  <1> QED
    BY ONLY <1>2, <1>4, <1>5, <1>6, <1>7 DEF s

(* Every packet is sent where the protocol allows it.                      *)
LEMMA VerdictFirstStep == IInv /\ Next => VerdictFirst'
  <1> SUFFICES ASSUME IInv, Next PROVE VerdictFirst'
    OBVIOUS
  <1> USE ServerAssumption DEF IInv
  <1>1. ASSUME UNCHANGED outlog, clients' \subseteq clients PROVE VerdictFirst'
    BY <1>1 DEF VerdictFirst
  <1>2. CASE Admit
    <2> DEFINE p == Verdict(cur, "ACCEPT")
    <2>1. cur \in Client /\ p \in Packet /\ SendBytes(p) /\ p.type = "ACCEPT"
      BY <1>2 DEF Admit, TypeOK, ThreadTypes, Handling, Verdict, Packet
    <2> HIDE DEF p
    <2>2. outlog[cur] = <<>> /\ clients' = clients \cup {cur}
      BY <1>2 DEF Admit, Connections
    <2>3. DOMAIN outlog'[cur] = {1} /\ outlog'[cur][1] = p /\ outlog'[cur] # <<>>
      BY <2>1, <2>2, SendAppends
    <2>4. \A c \in Client \ {cur} : outlog'[c] = outlog[c]
      BY <2>1, SendAppends
    <2> QED
      BY <2>1, <2>2, <2>3, <2>4 DEF VerdictFirst
  <1>3. CASE Kick
    <2> DEFINE p == Verdict(cur, "KICK")
    <2>1. cur \in Client /\ p \in Packet /\ SendBytes(p) /\ p.type = "KICK"
      BY <1>3 DEF Kick, TypeOK, ThreadTypes, Handling, Verdict, Packet
    <2> HIDE DEF p
    <2>2. outlog[cur] = <<>> /\ clients' = clients /\ cur \notin clients
      BY <1>3 DEF Kick, Connections, LiveSockets
    <2>3. DOMAIN outlog'[cur] = {1} /\ outlog'[cur][1] = p
      BY <2>1, <2>2, SendAppends
    <2>4. \A c \in Client \ {cur} : outlog'[c] = outlog[c]
      BY <2>1, SendAppends
    <2> QED
      BY <2>1, <2>2, <2>3, <2>4 DEF VerdictFirst
  <1>4. CASE Packet_Message
    <2>1. cur \in Client /\ packet \in Packet /\ SendBytes(packet)
      BY <1>4 DEF Packet_Message, TypeOK, ThreadTypes, Handling
    <2>2. cur \in clients /\ packet.type = "MESSAGE" /\ clients' = clients
      BY <1>4 DEF Packet_Message, Round
    <2>3. outlog[cur] # <<>> /\ outlog[cur][1].type = "ACCEPT"
      BY <2>1, <2>2 DEF VerdictFirst
    <2>4. Len(outlog[cur]) >= 1 /\ 1 \in DOMAIN outlog[cur]
      BY <2>1, <2>3, SendAppends
    <2>6. \A i \in DOMAIN outlog'[cur] :
            i \in DOMAIN outlog[cur] \/ (i > 1 /\ outlog'[cur][i] = packet)
      BY <2>1, <2>4, SendAppends
    <2>5. /\ \A i \in DOMAIN outlog[cur] : outlog'[cur][i] = outlog[cur][i]
          /\ \A c \in Client \ {cur} : outlog'[c] = outlog[c]
          /\ outlog'[cur] # <<>>
      BY <2>1, <2>4, SendAppends
    <2> QED
      BY <2>1, <2>2, <2>3, <2>4, <2>5, <2>6 DEF VerdictFirst
  <1> QED
    BY <1>1, <1>2, <1>3, <1>4
       DEF Next, ServerThread, Clients, Select, Accept, ReceiveEnd, Take,
           ReceiveMessage, PacketHandler, Message, ReceiveMisread, LengthException,
           DropAll, ConnectHandler, Drop, EndRound, Unwind, SocketException,
           Overrun, ProcessEnds, Exit, NetworkExit, ExitCommand, Operator, Close,
           JoinReturns, Connect, ClientRead, ClientSend, ClientClose,
           ClientUnchanged, linkVars, threadVars

(* ACCEPT is sent only to an address that has been listed.                 *)
LEMMA OnlyListedStep == IInv /\ Next => OnlyListedServed'
  <1> SUFFICES ASSUME IInv, Next PROVE OnlyListedServed'
    OBVIOUS
  <1> USE ServerAssumption DEF IInv
  <1>1. ASSUME UNCHANGED outlog, everListed \subseteq everListed' PROVE OnlyListedServed'
    BY <1>1 DEF OnlyListedServed
  <1>2. CASE Admit
    <2>1. cur \in Client /\ Verdict(cur, "ACCEPT") \in Packet
          /\ SendBytes(Verdict(cur, "ACCEPT")) /\ UNCHANGED everListed
      BY <1>2 DEF Admit, TypeOK, ThreadTypes, Handling, Verdict, Packet, listVars
    <2>2. host[cur] \in everListed
      BY <1>2 DEF Admit, Admission
    <2> QED
      BY <2>1, <2>2, SendAppends DEF OnlyListedServed
  <1>3. CASE Kick
    <2>1. cur \in Client /\ Verdict(cur, "KICK") \in Packet
          /\ SendBytes(Verdict(cur, "KICK")) /\ UNCHANGED everListed
          /\ Verdict(cur, "KICK").type = "KICK" /\ outlog[cur] = <<>>
      BY <1>3 DEF Kick, TypeOK, ThreadTypes, Handling, Verdict, Packet, listVars,
                  Connections
    <2>2. Len(outlog[cur]) = 0 /\ outlog'[cur][Len(outlog[cur]) + 1] = Verdict(cur, "KICK")
      BY <2>1, SendAppends
    <2>3. outlog'[cur][1].type = "KICK"
      BY <2>1, <2>2
    <2> QED
      BY <2>1, <2>3, SendAppends DEF OnlyListedServed
  <1>4. CASE Packet_Message
    <2>1. cur \in Client /\ packet \in Packet /\ SendBytes(packet) /\ UNCHANGED everListed
      BY <1>4 DEF Packet_Message, TypeOK, ThreadTypes, Handling, listVars
    <2>2. outlog[cur] # <<>> /\ outlog[cur][1].type = "ACCEPT"
      BY <1>4, <2>1 DEF Packet_Message, Round, VerdictFirst
    <2>3. host[cur] \in everListed
      BY <2>1, <2>2 DEF OnlyListedServed
    <2> QED
      BY <2>1, <2>3, SendAppends DEF OnlyListedServed
  <1> QED
    BY <1>1, <1>2, <1>3, <1>4
       DEF Next, ServerThread, Clients, Select, Accept, ReceiveEnd, Take,
           ReceiveMessage, PacketHandler, Message, ReceiveMisread, LengthException,
           DropAll, ConnectHandler, Drop, EndRound, Unwind, SocketException,
           Overrun, ProcessEnds, Exit, NetworkExit, ExitCommand, Operator, Close,
           JoinReturns, Connect, ClientRead, ClientSend, ClientClose,
           ClientUnchanged, linkVars, listVars

(* What is left of the backlog when its first connection is accepted.      *)
LEMMA BacklogTail ==
  ASSUME TypeOK, backlog # <<>>
  PROVE  /\ Len(backlog) \in Nat \ {0} /\ 1 \in DOMAIN backlog
         /\ Head(backlog) = backlog[1]
         /\ \A i \in DOMAIN Tail(backlog) :
              /\ i + 1 \in DOMAIN backlog /\ i + 1 # 1 /\ i \in Nat
              /\ Tail(backlog)[i] = backlog[i + 1]
  <1>1. backlog \in Seq(Client)
    BY DEF TypeOK, LinkTypes
  <1> QED
    BY <1>1

(* Nobody writes to a client that waited: what a handler works on has not  *)
(* closed, or it did not wait.                                             *)
LEMMA PatienceStep == IInv /\ Next => Patience'
  <1> SUFFICES ASSUME IInv, Next PROVE Patience'
    OBVIOUS
  <1> USE ServerAssumption
      DEF IInv, TypeOK, LinkTypes, ThreadTypes, Patience, Answered, linkVars, threadVars
  <1>1. ASSUME UNCHANGED <<peer, inbox, outlog, rude>>, cur' \in {cur, None}
        PROVE  Patience'
    BY <1>1
  <1>2. ASSUME NEW p \in Packet, cur \in Client, SendBytes(p), cur' \in {cur, None}
        PROVE  Patience'
    <2>1. /\ \A c \in Client \ {cur} : outlog'[c] = outlog[c] /\ peer'[c] = peer[c]
          /\ outlog'[cur] # <<>> /\ UNCHANGED <<inbox, rude>>
      BY <1>2, SendAppends DEF SendBytes
    <2>2. cur \notin rude => peer[cur] # "fin" /\ peer'[cur] = peer[cur]
      BY <1>2 DEF SendBytes
    <2> QED
      BY <1>2, <2>1, <2>2
  <1>3. CASE Admit \/ Kick \/ Packet_Message
    <2>1. cur \in Client
      BY <1>3 DEF Admit, Kick, Packet_Message, Handling
    <2>2. Verdict(cur, "ACCEPT") \in Packet /\ Verdict(cur, "KICK") \in Packet
      BY <2>1 DEF Verdict, Packet
    <2> QED
      BY <1>2, <1>3, <2>1, <2>2 DEF Admit, Kick, Packet_Message
  <1>4. CASE Accept
    <2>1. backlog # <<>> /\ Head(backlog) \in Client
      BY <1>4, AcceptFacts
    <2>2. outlog[Head(backlog)] = <<>>
      BY <2>1, BacklogTail DEF Connections
    <2> QED
      BY <1>4, <2>1, <2>2 DEF Accept
  <1>5. ASSUME NEW c \in readList \ {Listener}, NEW k \in Prefixes(inbox[c]),
               ReceiveMessage(c, k) \/ ReceiveMisread(c, k) PROVE Patience'
    <2>1. /\ c \in Client /\ inbox[c] # <<>> /\ UNCHANGED <<peer, outlog, rude>>
          /\ \A d \in Client \ {c} : inbox'[d] = inbox[d]
          /\ cur' = c \/ cur' = cur
      BY <1>5 DEF ReceiveMessage, PacketHandler, Message, ReceiveMisread, Take,
                  Prefixes
    <2> QED
      BY <2>1
  <1>6. ASSUME NEW c \in Client, Connect(c) PROVE Patience'
    BY <1>6 DEF Connect, ClientUnchanged, Connections
  <1>7. ASSUME NEW c \in Client, ClientSend(c) PROVE Patience'
    <2>1. /\ peer[c] = "up" /\ UNCHANGED <<peer, outlog, rude, cur>>
          /\ \A d \in Client \ {c} : inbox'[d] = inbox[d]
      BY <1>7 DEF ClientSend, ClientUnchanged
    <2> QED
      BY <2>1
  <1>8. ASSUME NEW c \in Client, ClientClose(c) PROVE Patience'
    <2>1. /\ UNCHANGED <<inbox, outlog, cur>>
          /\ peer'[c] \in {"fin", "reset"}
          /\ \A d \in Client \ {c} : peer'[d] = peer[d]
          /\ rude' = IF peer'[c] = "fin" /\ Answered(c) THEN rude ELSE rude \cup {c}
      BY <1>8 DEF ClientClose, ClientUnchanged
    <2> QED
      BY <2>1
  <1>9. ASSUME ProcessEnds \/ Unwind \/ Exit PROVE Patience'
    BY <1>1, <1>9 DEF ProcessEnds, Unwind, Exit
  <1> QED
    BY <1>1, <1>3, <1>4, <1>5, <1>6, <1>7, <1>8, <1>9
       DEF Next, ServerThread, Clients, Select, ReceiveEnd, LengthException, DropAll,
           ConnectHandler, Drop, EndRound, SocketException, Overrun, ExitCommand,
           Operator, Close, JoinReturns, ClientRead, ClientUnchanged

(* So only a misread, or a client that did not wait, ends the thread.      *)
LEMMA HarmlessStep == IInv /\ Next => PatientClientsHarmless'
  <1> SUFFICES ASSUME IInv, Next PROVE PatientClientsHarmless'
    OBVIOUS
  <1> USE ServerAssumption
      DEF IInv, TypeOK, LinkTypes, ThreadTypes, linkVars, threadVars
  <1>1. rude \subseteq rude' /\ (misread => misread')
    BY DEF Next, ServerThread, Clients, Select, Accept, ReceiveEnd, Take, Admit,
           Kick, SendBytes, ReceiveMessage, PacketHandler, Message, ReceiveMisread,
           LengthException, DropAll, ConnectHandler, Packet_Message, Drop, EndRound,
           Unwind, SocketException, Overrun, ProcessEnds, Exit, NetworkExit,
           ExitCommand, Operator, Close, JoinReturns, ClientRead, ClientSend,
           ClientUnchanged, Connect, ClientClose
  <1>2. pc' = "dead" => pc = "dead" \/ misread' \/ rude # {}
    <2>1. ASSUME SocketException PROVE rude # {}
      <3>1. PICK c \in Client : peer[c] = "reset"
        BY <2>1 DEF SocketException, Throws, Handling, Listener, ToErase
      <3> QED
        BY <3>1 DEF Patience
    <2> QED
      BY <2>1
         DEF Next, ServerThread, Clients, Select, Accept, ReceiveEnd, Take, Admit,
             Kick, ReceiveMessage, PacketHandler, Message, ReceiveMisread,
             LengthException, DropAll, ConnectHandler, Packet_Message, Drop,
             EndRound, Overrun, ProcessEnds, Exit, NetworkExit, ExitCommand,
             Operator, Close, JoinReturns, ClientRead, ClientSend, ClientUnchanged,
             Connect, ClientClose
  <1> QED
    BY <1>1, <1>2 DEF PatientClientsHarmless

(* What a lookup admits has been listed.                                   *)
LEMMA AdmissionStep == IInv /\ Next => Admission'
  <1> SUFFICES ASSUME IInv, Next PROVE Admission'
    OBVIOUS
  <1> USE ServerAssumption DEF IInv, TypeOK, ListTypes, ThreadTypes, Admission
  <1>1. CASE ConnectHandler
    BY <1>1 DEF ConnectHandler, AL!Lookup, AL!Answers, Handling
  <1>2. CASE Operator
    BY <1>2 DEF Operator, AL!Settle, AL!Add, AL!Remove, AL!Commit, threadVars
  <1>3. ASSUME ProcessEnds PROVE Admission'
    BY <1>3 DEF ProcessEnds, AL!Stop
  <1>4. ASSUME UNCHANGED listVars, pc' # "admit" \/ UNCHANGED <<pc, cur>> PROVE Admission'
    BY <1>4 DEF listVars
  <1> QED
    BY <1>1, <1>2, <1>3, <1>4
       DEF Next, ServerThread, Clients, Select, Accept, ReceiveEnd, Take, Admit,
           Kick, ReceiveMessage, PacketHandler, Message, ReceiveMisread,
           LengthException, DropAll, Packet_Message, Drop, EndRound, Unwind,
           SocketException, Overrun, Exit, NetworkExit, ExitCommand, Close,
           JoinReturns, ClientRead, ClientSend, ClientUnchanged, Connect,
           ClientClose, threadVars

(* The round goes in order.                                                *)
LEMMA RoundStep == IInv /\ Next => Round'
  <1> SUFFICES ASSUME IInv, Next PROVE Round'
    OBVIOUS
  <1> USE ServerAssumption
      DEF IInv, TypeOK, ThreadTypes, Round, LiveSockets, Listener, Over
  <1>1. ASSUME NEW c \in readList \ {Listener}, NEW k \in Prefixes(inbox[c]),
               ReceiveMessage(c, k) PROVE Round'
    BY <1>1 DEF ReceiveMessage, PacketHandler, Take, Message
  <1>2. ASSUME NEW c \in readList \ {Listener}, NEW k \in Prefixes(inbox[c]),
               ReceiveMisread(c, k) PROVE Round'
    BY <1>2 DEF ReceiveMisread, PacketHandler, Take, Message
  <1>3. ASSUME UNCHANGED <<pc, clients, cur, packet, readList>> PROVE Round'
    BY <1>3
  <1>4. ASSUME pc' \notin {"reply", "drop"} PROVE Round'
    BY <1>4
  <1>5. CASE DropAll
    BY <1>5 DEF DropAll
  <1>6. ASSUME NEW c \in ToErase, Drop(c) PROVE Round'
    BY <1>6 DEF Drop
  <1>7. ASSUME NEW c \in readList \ {Listener}, ReceiveEnd(c) PROVE Round'
    BY <1>7 DEF ReceiveEnd
  <1>8. CASE Clients \/ Operator \/ Close
    BY <1>8, <1>3 DEF Clients, Operator, Close, ClientRead, ClientSend,
                      ClientUnchanged, Connect, ClientClose, threadVars
  <1>9. CASE Select \/ Accept \/ ConnectHandler \/ Admit \/ Kick \/ Packet_Message
             \/ EndRound \/ SocketException \/ Overrun \/ Exit \/ ExitCommand \/ JoinReturns
    BY <1>9, <1>4 DEF Select, Accept, ConnectHandler, Admit, Kick, Packet_Message,
                      EndRound, SocketException, Unwind, Overrun, ProcessEnds, Exit,
                      NetworkExit, ExitCommand, JoinReturns
  <1>10. ASSUME NEW c \in readList \ {Listener}, NEW k \in Prefixes(inbox[c]),
                LengthException(c, k) PROVE Round'
    BY <1>10, <1>4 DEF LengthException, Unwind
  <1> QED
    BY <1>1, <1>2, <1>5, <1>6, <1>7, <1>8, <1>9, <1>10 DEF Next, ServerThread

(* Every step keeps the backlog and the silence before the verdict.        *)
LEMMA ConnectionsStep == IInv /\ Next => Connections'
  <1> SUFFICES ASSUME IInv, Next PROVE Connections'
    OBVIOUS
  <1> USE ServerAssumption DEF IInv
  <1>1. ASSUME UNCHANGED <<backlog, outlog>>,
               \A c \in Client :
                 /\ sock'[c] = "none" <=> sock[c] = "none"
                 /\ sock'[c] = "queued" <=> sock[c] = "queued"
                 /\ peer'[c] = "none" <=> peer[c] = "none",
               pc' \in {"connect", "admit", "kick"} =>
                 cur' = cur /\ pc \in {"connect", "admit", "kick"}
        PROVE  Connections'
    BY <1>1 DEF Connections, TypeOK, LinkTypes
  <1>2. ASSUME NEW p \in Packet, cur \in Client, sock[cur] = "open", SendBytes(p),
               sock' = sock \/ sock' = [sock EXCEPT ![cur] = "closed"],
               pc' = "dispatch"
        PROVE  Connections'
    <2>1. \A c \in Client \ {cur} : outlog'[c] = outlog[c]
      BY <1>2, SendAppends
    <2>2. UNCHANGED backlog
      BY <1>2 DEF SendBytes
    <2>3. \A c \in Client : /\ sock'[c] = "none" <=> sock[c] = "none"
                            /\ sock'[c] = "queued" <=> sock[c] = "queued"
                            /\ sock[cur] # "none" /\ sock[cur] # "queued"
                            /\ peer'[c] = "none" <=> peer[c] = "none"
      BY <1>2 DEF SendBytes, TypeOK, LinkTypes
    <2> QED
      BY <1>2, <2>1, <2>2, <2>3 DEF Connections, TypeOK, LinkTypes
  <1>3. CASE Admit \/ Kick \/ Packet_Message
    <2>1. cur \in Client
      BY <1>3 DEF Admit, Kick, Packet_Message, TypeOK, ThreadTypes, Handling
    <2>2. sock[cur] = "open"
      BY <2>1 DEF LiveSockets
    <2>3. Verdict(cur, "ACCEPT") \in Packet /\ Verdict(cur, "KICK") \in Packet
      BY <2>1 DEF Verdict, Packet
    <2>4. CASE Admit
      BY <2>1, <2>2, <2>3, <2>4, <1>2 DEF Admit
    <2>5. CASE Kick
      BY <2>1, <2>2, <2>3, <2>5, <1>2 DEF Kick
    <2>6. CASE Packet_Message
      BY <2>1, <2>2, <2>6, <1>2 DEF Packet_Message, TypeOK, ThreadTypes
    <2> QED
      BY <1>3, <2>4, <2>5, <2>6
  <1>4. CASE Accept
    <2> DEFINE h == Head(backlog)
               t == Tail(backlog)
    <2>1. backlog # <<>> /\ h \in Client /\ t \in Seq(Client)
      BY <1>4, AcceptFacts
    <2>2. /\ 1 \in DOMAIN backlog /\ h = backlog[1]
          /\ \A i \in DOMAIN t : /\ i + 1 \in DOMAIN backlog /\ i + 1 # 1 /\ i \in Nat
                                /\ t[i] = backlog[i + 1]
      BY <2>1, BacklogTail
    <2>3. backlog' = t /\ cur' = h /\ sock' = [sock EXCEPT ![h] = "open"]
          /\ UNCHANGED <<peer, outlog>>
      BY <1>4 DEF Accept
    <2> HIDE DEF h, t
    <2>4. \A i \in DOMAIN t : t[i] # h /\ sock[t[i]] = "queued"
      BY <2>2 DEF Connections
    <2>5. \A i, j \in DOMAIN t : t[i] = t[j] => i = j
      <3>1. ASSUME NEW i \in DOMAIN t, NEW j \in DOMAIN t, t[i] = t[j] PROVE i = j
        <4>1. i + 1 = j + 1
          BY <3>1, <2>2 DEF Connections
        <4> QED
          BY <4>1, <2>2
      <3> QED
        BY <3>1
    <2>6. sock[h] = "queued" /\ outlog[h] = <<>> /\ peer[h] # "none"
      BY <2>1, <2>2 DEF Connections
    <2>7. \A c \in Client : sock'[c] = IF c = h THEN "open" ELSE sock[c]
      BY <2>3 DEF TypeOK, LinkTypes
    <2>8. \A i \in DOMAIN t : t[i] \in Client
      BY <2>1
    <2> QED
      BY <2>1, <2>3, <2>4, <2>5, <2>6, <2>7, <2>8 DEF Connections
  <1>5. ASSUME NEW d \in Client, Connect(d) PROVE Connections'
    <2> DEFINE n == Len(backlog)
               b == Append(backlog, d)
    <2>1. /\ DOMAIN backlog = 1 .. n /\ n \in Nat /\ DOMAIN b = 1 .. n + 1
          /\ \A i \in DOMAIN backlog : b[i] = backlog[i]
          /\ b[n + 1] = d
      BY AppendToBacklog
    <2>2. /\ backlog' = b /\ sock[d] = "none" /\ UNCHANGED <<outlog, pc, cur>>
          /\ sock' = [sock EXCEPT ![d] = "queued"] /\ peer' = [peer EXCEPT ![d] = "up"]
      BY <1>5 DEF Connect, ClientUnchanged, threadVars
    <2> HIDE DEF n, b
    <2>3. \A i \in 1 .. n + 1 : i \in 1 .. n \/ i = n + 1
      BY <2>1
    <2>4. \A i \in 1 .. n : backlog[i] \in Client /\ backlog[i] # d
                            /\ sock[backlog[i]] = "queued"
      <3>1. \A i \in DOMAIN backlog : sock[backlog[i]] = "queued"
        BY DEF Connections
      <3>2. \A i \in DOMAIN backlog : backlog[i] \in Client
        BY DEF TypeOK, LinkTypes
      <3> QED
        BY ONLY <3>1, <3>2, <2>1, <2>2
    <2>5. \A c \in Client : /\ sock'[c] = IF c = d THEN "queued" ELSE sock[c]
                            /\ peer'[c] = IF c = d THEN "up" ELSE peer[c]
      BY <2>2 DEF TypeOK, LinkTypes
    <2>6. \A i \in DOMAIN b : sock'[b[i]] = "queued"
      BY <2>1, <2>3, <2>4, <2>5
    <2>7. \A i, j \in DOMAIN b : b[i] = b[j] => i = j
      <3>1. \A i, j \in 1 .. n : backlog[i] = backlog[j] => i = j
        BY <2>1 DEF Connections
      <3> QED
        BY ONLY <2>1, <2>3, <2>4, <3>1
    <2> QED
      BY <2>2, <2>5, <2>6, <2>7 DEF Connections
  <1>6. ASSUME ProcessEnds PROVE Connections'
    BY <1>6 DEF ProcessEnds, Connections, TypeOK, LinkTypes
  <1>7. CASE Exit
    <2>1. /\ backlog' = <<>> /\ UNCHANGED <<outlog, peer>> /\ pc' = "done"
          /\ sock' = [c \in Client |-> IF c \in clients \/ sock[c] = "queued"
                                       THEN "closed" ELSE sock[c]]
      BY <1>7 DEF Exit, NetworkExit
    <2>2. \A c \in clients : sock[c] = "open"
      BY DEF TypeOK, ThreadTypes, LiveSockets
    <2>3. \A c \in Client : /\ sock'[c] = "none" <=> sock[c] = "none"
                            /\ sock'[c] # "queued"
      BY <2>1, <2>2
    <2> QED
      BY <2>1, <2>3 DEF Connections
  <1>8. ASSUME Unwind PROVE Connections'
    BY <1>8, <1>1 DEF Unwind, TypeOK, LinkTypes
  <1>9. CASE EndRound
    <2>1. \A c \in dropList : c \in Client /\ sock[c] = "open"
      BY DEF TypeOK, ThreadTypes, LiveSockets
    <2>2. \A c \in Client : sock'[c] = IF c \in dropList THEN "closed" ELSE sock[c]
      BY <1>9 DEF EndRound
    <2> QED
      BY <1>1, <1>9, <2>1, <2>2 DEF EndRound
  <1>10. ASSUME NEW c \in Client, ClientRead(c) \/ ClientSend(c) \/ ClientClose(c)
         PROVE  Connections'
    <2>1. CASE ClientRead(c) \/ ClientSend(c)
      BY <2>1, <1>1 DEF ClientRead, ClientSend, ClientUnchanged, threadVars
    <2>2. CASE ClientClose(c)
      <3>1. UNCHANGED <<backlog, outlog, sock, pc, cur>>
        BY <2>2 DEF ClientClose, ClientUnchanged, threadVars
      <3>2. \A d \in Client : peer'[d] = "none" <=> peer[d] = "none"
        BY <2>2 DEF ClientClose, TypeOK, LinkTypes
      <3> QED
        BY <3>1, <3>2, <1>1
    <2> QED
      BY <1>10, <2>1, <2>2
  <1>11. ASSUME NEW c \in readList \ {Listener}, NEW k \in Prefixes(inbox[c]),
                ReceiveMessage(c, k) \/ ReceiveMisread(c, k) PROVE Connections'
    BY <1>11, <1>1 DEF ReceiveMessage, PacketHandler, Message, ReceiveMisread, Take
  <1>12. ASSUME NEW c \in readList \ {Listener}, ReceiveEnd(c) PROVE Connections'
    BY <1>12, <1>1 DEF ReceiveEnd, linkVars
  <1>13. CASE Select \/ DropAll \/ (\E c \in ToErase : Drop(c)) \/ ConnectHandler
              \/ Operator \/ Close
    BY <1>13, <1>1 DEF Select, DropAll, Drop, ConnectHandler, Operator, Close,
                       linkVars, threadVars
  <1> QED
    BY <1>3, <1>4, <1>5, <1>6, <1>7, <1>8, <1>9, <1>10, <1>11, <1>12, <1>13
       DEF Next, ServerThread, Clients, SocketException, LengthException, Overrun,
           ExitCommand, JoinReturns

(* The invariant is inductive.                                             *)
LEMMA NextIInv == IInv /\ [Next]_vars => IInv'
  <1> SUFFICES ASSUME IInv, [Next]_vars PROVE IInv'
    OBVIOUS
  <1>1. CASE Next
    <2>1. TypeOK'
      BY <1>1, ListStep, LinkStep, ThreadStep DEF IInv, TypeOK
    <2> QED
      BY <1>1, <2>1, LiveSocketsStep, NeverBlocksStep, VerdictFirstStep, OnlyListedStep,
         HarmlessStep, PatienceStep, ConnectionsStep, AdmissionStep, RoundStep DEF IInv
  <1>2. CASE UNCHANGED vars
    BY <1>2
       DEF IInv, vars, listVars, linkVars, threadVars, ownerVars, TypeOK, ListTypes,
           LinkTypes, ThreadTypes, LiveSockets, NeverBlocksInReceive, Readable,
           VerdictFirst, OnlyListedServed, PatientClientsHarmless, Patience, Answered,
           Connections, Admission, Round
  <1> QED
    BY <1>1, <1>2

(* The inductive invariant holds in every reachable state.                 *)
THEOREM Invariance == Spec => []IInv
  BY InitIInv, NextIInv, PTL DEF Spec

(* The variables always have their types.                                  *)
THEOREM TypeCorrect == Spec => []TypeOK
  <1>1. IInv => TypeOK
    BY DEF IInv
  <1> QED
    BY <1>1, Invariance, PTL

(* The sockets OnUpdate works with are open and none leaks, for any number *)
(* of connections, any schedule and any cutting of frames.                 *)
THEOREM SocketsStayLive == Spec => []LiveSockets
  <1>1. IInv => LiveSockets
    BY DEF IInv
  <1> QED
    BY <1>1, Invariance, PTL

(* acceptConnection and receiveBytes are only called on sockets that are   *)
(* readable when they are called.                                          *)
THEOREM ReceivesNeverBlock == Spec => []NeverBlocksInReceive
  <1>1. IInv => NeverBlocksInReceive
    BY DEF IInv
  <1> QED
    BY <1>1, Invariance, PTL

(* A client gets one verdict, first, and messages only after ACCEPT.       *)
THEOREM VerdictComesFirst == Spec => []VerdictFirst
  <1>1. IInv => VerdictFirst
    BY DEF IInv
  <1> QED
    BY <1>1, Invariance, PTL

(* Only an address that has been in the white list is admitted.            *)
THEOREM OnlyListedAdmitted == Spec => []OnlyListedServed
  <1>1. IInv => OnlyListedServed
    BY DEF IInv
  <1> QED
    BY <1>1, Invariance, PTL

(* A client that waits for all it has coming before it closes never ends   *)
(* the thread, in any order with the round and the other clients.          *)
THEOREM PatientClientsDoNoHarm == Spec => []PatientClientsHarmless
  <1>1. IInv => PatientClientsHarmless
    BY DEF IInv
  <1> QED
    BY <1>1, Invariance, PTL
-------------------------------------------------------------------------------
(* What the end of a round rests on: the lists of a round are finite, since*)
(* connections are admitted one by one; and a request to close is kept.    *)
ListsFinite ==
  IsFiniteSet(clients) /\ IsFiniteSet(readList) /\ IsFiniteSet(dropList)

LEMMA InitFinite == Init => ListsFinite /\ RequestKept
  BY FS_EmptySet DEF Init, ListsFinite, RequestKept

(* Every step keeps the lists finite.                                      *)
LEMMA FiniteStep == ListsFinite /\ [Next]_vars => ListsFinite'
  <1> SUFFICES ASSUME ListsFinite, [Next]_vars PROVE ListsFinite'
    OBVIOUS
  <1> USE DEF ListsFinite
  <1>1. \A S, x : IsFiniteSet(S) => IsFiniteSet(S \cup {x}) /\ IsFiniteSet(S \ {x})
    BY FS_AddElement, FS_RemoveElement
  <1>2. \A S, T : IsFiniteSet(S) /\ T \subseteq S => IsFiniteSet(T)
    BY FS_Subset
  <1>3. IsFiniteSet({})
    BY FS_EmptySet
  <1>4. CASE Select
    <2>1. readList' \subseteq clients \cup {Listener} /\ dropList' = {} /\ clients' = clients
      BY <1>4 DEF Select, SelectSet
    <2> QED  BY <1>1, <1>2, <1>3, <2>1
  <1>5. CASE Accept \/ Admit
    <2>1. CASE Accept
      BY <1>1, <2>1 DEF Accept
    <2>2. CASE Admit
      BY <1>1, <2>2 DEF Admit
    <2> QED  BY <1>5, <2>1, <2>2
  <1>6. ASSUME NEW c \in readList \ {Listener}, ReceiveEnd(c) PROVE ListsFinite'
    BY <1>1, <1>6 DEF ReceiveEnd
  <1>7. ASSUME NEW c \in readList \ {Listener}, NEW k, Take(c, k) PROVE ListsFinite'
    BY <1>1, <1>7 DEF Take
  <1>8. ASSUME NEW c \in ToErase, Drop(c) PROVE ListsFinite'
    BY <1>1, <1>8 DEF Drop
  <1>9. ASSUME ProcessEnds \/ Unwind \/ Exit \/ EndRound PROVE ListsFinite'
    BY <1>3, <1>9 DEF ProcessEnds, Unwind, Exit, EndRound
  <1>10. ASSUME UNCHANGED <<clients, readList, dropList>> PROVE ListsFinite'
    BY <1>10
  <1> QED
    BY <1>4, <1>5, <1>6, <1>7, <1>8, <1>9, <1>10
       DEF Next, ServerThread, ConnectHandler, Kick, ReceiveMessage, ReceiveMisread,
           LengthException, Packet_Message, DropAll, SocketException, Overrun,
           Operator, ExitCommand, Close, JoinReturns, Clients, Connect, ClientRead,
           ClientSend, ClientClose, ClientUnchanged, vars, threadVars

(* Nothing but the end of the thread takes a request to close away.        *)
LEMMA RequestStep == RequestKept /\ [Next]_vars => RequestKept'
  <1> SUFFICES ASSUME RequestKept, [Next]_vars PROVE RequestKept'
    OBVIOUS
  <1> USE DEF RequestKept, Over
  <1>1. ASSUME ProcessEnds PROVE RequestKept'
    BY <1>1 DEF ProcessEnds
  <1>2. ASSUME Unwind \/ Exit \/ Close PROVE RequestKept'
    BY <1>2 DEF Unwind, Exit, Close
  <1>3. ASSUME UNCHANGED ownerVars, pc \notin Over PROVE RequestKept'
    BY <1>3 DEF ownerVars
  <1>4. ASSUME UNCHANGED <<ownerVars, pc>> PROVE RequestKept'
    BY <1>4 DEF ownerVars
  <1> QED
    BY <1>1, <1>2, <1>3, <1>4
       DEF Next, ServerThread, Select, Accept, ConnectHandler, Admit, Kick, ReceiveEnd,
           Take, ReceiveMessage, ReceiveMisread, LengthException, Packet_Message, DropAll,
           Drop, EndRound, SocketException, Overrun, Operator, ExitCommand, JoinReturns,
           Clients, Connect, ClientRead, ClientSend, ClientClose, ClientUnchanged, vars,
           threadVars

(* The steps that are left are counted, and those of a list grow and shrink*)
(* with it.                                                                *)
LEMMA StepsLeftType ==
  (ListsFinite => StepsLeft \in Nat) /\ (ListsFinite' => StepsLeft' \in Nat)
  <1>1. ListsFinite => /\ Cardinality(dropList) \in Nat /\ Cardinality(readList) \in Nat
                       /\ Cardinality(ToErase) \in Nat
    BY FS_CardinalityType, FS_Intersection DEF ListsFinite, ToErase
  <1>2. ListsFinite' => /\ Cardinality(dropList') \in Nat /\ Cardinality(readList') \in Nat
                        /\ Cardinality(ToErase') \in Nat
    BY FS_CardinalityType, FS_Intersection DEF ListsFinite, ToErase
  <1> QED  BY <1>1, <1>2 DEF StepsLeft, InRound, Over

(* Each step of the thread in a round brings the end of the round nearer,  *)
(* and no step of another thread or a client changes it, unless it ends    *)
(* the process.                                                            *)
LEMMA Descent ==
  ASSUME TypeOK, ListsFinite, Next, InRound
  PROVE  StepsLeft' < StepsLeft \/ UNCHANGED threadVars
  <1> DEFINE d == Cardinality(dropList)
             r == Cardinality(readList)
             e == Cardinality(ToErase)
  <1>1. d \in Nat /\ r \in Nat /\ e \in Nat
    BY FS_CardinalityType, FS_Intersection DEF ListsFinite, ToErase
  <1>2. StepsLeft > 0
    BY <1>1 DEF StepsLeft, InRound, Over
  <1>3. /\ pc = "dispatch" => StepsLeft = 2 + d + 3 * r
        /\ pc = "connect" => StepsLeft = 4 + d + 3 * r
        /\ pc \in {"admit", "kick", "reply"} => StepsLeft = 3 + d + 3 * r
        /\ pc = "drop" => StepsLeft = 1 + e
    BY <1>1 DEF StepsLeft, InRound, Over
  <1>0. d' \in Nat /\ r' \in Nat /\ e' \in Nat
    <2>1. ListsFinite'
      BY FiniteStep
    <2> QED  BY <2>1, FS_CardinalityType, FS_Intersection DEF ListsFinite, ToErase
  <1>4. /\ pc' \in Over \cup {"select"} => StepsLeft' = 0
        /\ pc' = "dispatch" => StepsLeft' = 2 + d' + 3 * r'
        /\ pc' = "connect" => StepsLeft' = 4 + d' + 3 * r'
        /\ pc' \in {"admit", "kick", "reply"} => StepsLeft' = 3 + d' + 3 * r'
        /\ pc' = "drop" => StepsLeft' = 1 + e'
    BY <1>0 DEF StepsLeft, InRound, Over
  <1>5. ASSUME NEW x
        PROVE  /\ x \in readList /\ readList' = readList \ {x} => r' = r - 1
               /\ x \in ToErase /\ ToErase' = ToErase \ {x} => e' = e - 1
               /\ dropList' = dropList \cup {x} => d' = d \/ d' = d + 1
    <2>1. x \in readList => Cardinality(readList \ {x}) = r - 1
      BY FS_RemoveElement DEF ListsFinite
    <2>2. x \in ToErase => Cardinality(ToErase \ {x}) = e - 1
      BY FS_RemoveElement, FS_Intersection DEF ListsFinite, ToErase
    <2>3. Cardinality(dropList \cup {x}) \in {d, d + 1}
      BY FS_AddElement DEF ListsFinite
    <2> QED  BY <2>1, <2>2, <2>3
  <1>6. (readList' = readList => r' = r) /\ (dropList' = dropList => d' = d)
    OBVIOUS
  <1>17. e <= d
    BY FS_Subset DEF ListsFinite, ToErase
  <1> HIDE DEF d, r, e
  <1>7. ASSUME pc' \in Over \cup {"select"} PROVE StepsLeft' < StepsLeft
    BY <1>2, <1>4, <1>7
  <1>8. CASE Accept
    <2>1. r' = r - 1 /\ d' = d /\ pc = "dispatch" /\ pc' = "connect"
      BY <1>5, <1>6, <1>8 DEF Accept
    <2> QED  BY ONLY <1>1, <1>3, <1>4, <2>1
  <1>9. CASE ConnectHandler
    <2>1. r' = r /\ d' = d /\ pc = "connect" /\ pc' \in {"admit", "kick"}
      BY <1>6, <1>9 DEF ConnectHandler
    <2> QED  BY ONLY <1>1, <1>3, <1>4, <2>1
  <1>10. CASE Admit \/ Kick \/ Packet_Message
    <2>1. r' = r /\ d' = d /\ pc \in {"admit", "kick", "reply"} /\ pc' = "dispatch"
      BY <1>6, <1>10 DEF Admit, Kick, Packet_Message
    <2> QED  BY ONLY <1>1, <1>3, <1>4, <2>1
  <1>11. ASSUME NEW c \in readList \ {Listener}, ReceiveEnd(c)
         PROVE  StepsLeft' < StepsLeft
    <2>1. r' = r - 1 /\ (d' = d \/ d' = d + 1) /\ pc = "dispatch" /\ pc' = "dispatch"
      BY <1>5, <1>11 DEF ReceiveEnd
    <2> QED  BY ONLY <1>1, <1>3, <1>4, <2>1
  <1>12. ASSUME NEW c \in readList \ {Listener}, NEW k \in Prefixes(inbox[c]),
                ReceiveMessage(c, k) \/ ReceiveMisread(c, k)
         PROVE  StepsLeft' < StepsLeft
    <2>1. Take(c, k) /\ pc' \in {"dispatch", "reply"}
      BY <1>12 DEF ReceiveMessage, ReceiveMisread, PacketHandler, Message, Take
    <2>2. r' = r - 1 /\ d' = d /\ pc = "dispatch"
      BY <1>5, <1>6, <2>1 DEF Take
    <2> QED  BY ONLY <1>1, <1>3, <1>4, <2>1, <2>2
  <1>13. CASE DropAll
    <2>1. e' = e /\ pc = "dispatch" /\ pc' = "drop"
      BY <1>13 DEF DropAll, ToErase, e
    <2> QED  BY ONLY <1>1, <1>3, <1>4, <1>17, <2>1
  <1>14. ASSUME NEW c \in ToErase, Drop(c) PROVE StepsLeft' < StepsLeft
    <2>0. ToErase' = ToErase \ {c}
      BY <1>14 DEF Drop, ToErase
    <2>1. e' = e - 1 /\ pc = "drop" /\ pc' = "drop"
      BY <1>5, <1>14, <2>0 DEF Drop
    <2> QED  BY ONLY <1>1, <1>3, <1>4, <2>1
  <1>15. ASSUME ProcessEnds \/ Unwind \/ EndRound PROVE StepsLeft' < StepsLeft
    BY <1>7, <1>15 DEF ProcessEnds, Unwind, EndRound, Over
  <1>16. ~Select /\ ~Exit
    BY DEF Select, Exit, InRound
  <1> QED
    BY <1>8, <1>9, <1>10, <1>11, <1>12, <1>13, <1>14, <1>15, <1>16
       DEF Next, ServerThread, LengthException, SocketException, Overrun, Operator,
           ExitCommand, Close, JoinReturns, Clients, Connect, ClientRead, ClientSend,
           ClientClose, ClientUnchanged

(* A round ends, for any number of connections and messages: every step of *)
(* the thread in it brings its end nearer and nobody else puts it off.     *)
THEOREM RoundsEnd == Spec => RoundDescends
  <1>1. TypeOK /\ ListsFinite /\ [Next]_vars
        => [InRound => StepsLeft' < StepsLeft \/ UNCHANGED threadVars]_vars
    BY Descent
  <1>2. ListsFinite /\ [Next]_vars => ListsFinite'
    BY FiniteStep
  <1>3. Init => ListsFinite
    BY InitFinite
  <1> QED
    BY <1>1, <1>2, <1>3, TypeCorrect, PTL DEF Spec, RoundDescends

(* Once CNetwork::Close waits, the thread starts no other round and each   *)
(* of its steps brings its end nearer, wherever the request found it.      *)
THEOREM CloseIsNear == Spec => CloseDescends
  <1> DEFINE Nearer == main = "joining" /\ pc \notin Over =>
                         UntilEnd' < UntilEnd \/ UNCHANGED threadVars
  <1>1. TypeOK /\ ListsFinite /\ RequestKept /\ ListsFinite' /\ [Next]_vars => [Nearer]_vars
    <2> SUFFICES ASSUME TypeOK, ListsFinite, RequestKept, ListsFinite', Next,
                        main = "joining", pc \notin Over
                 PROVE  UntilEnd' < UntilEnd \/ UNCHANGED threadVars
      OBVIOUS
    <2>1. StepsLeft \in Nat /\ StepsLeft' \in Nat
      BY StepsLeftType
    <2>2. UntilEnd = 1 + StepsLeft /\ UntilEnd' \in {0, 1 + StepsLeft'}
      BY DEF UntilEnd
    <2>3. CASE InRound
      <3>1. StepsLeft' < StepsLeft \/ UNCHANGED threadVars
        BY <2>3, Descent
      <3>2. CASE UntilEnd' = 1 + StepsLeft' /\ StepsLeft' < StepsLeft
        <4>1. \A i, j \in Nat : i < j => 1 + i < 1 + j
          OBVIOUS
        <4>2. 1 + StepsLeft' < 1 + StepsLeft
          BY ONLY <2>1, <3>2, <4>1
        <4> QED  BY ONLY <2>2, <3>2, <4>2
      <3>3. CASE UntilEnd' = 0
        BY ONLY <2>1, <2>2, <3>3
      <3> QED  BY ONLY <2>2, <3>1, <3>2, <3>3
    <2>4. CASE pc = "select"
      <3>1. m_bCloseRequested
        BY DEF RequestKept
      <3>2. pc' \in Over \/ UNCHANGED threadVars
        BY <2>4, <3>1
           DEF Next, ServerThread, Select, Accept, ConnectHandler, Admit, Kick, ReceiveEnd,
               Take, ReceiveMessage, ReceiveMisread, LengthException, Packet_Message,
               DropAll, Drop, EndRound, SocketException, Throws, Overrun, Exit, Operator,
               ExitCommand, Close, JoinReturns, Clients, Connect, ClientRead, ClientSend,
               ClientClose, ClientUnchanged, ProcessEnds, Unwind, Over
      <3>3. pc' \in Over => UntilEnd' = 0
        BY DEF UntilEnd
      <3> QED  BY <2>1, <2>2, <3>2, <3>3
    <2> QED  BY <2>3, <2>4 DEF InRound
  <1>2. ListsFinite /\ RequestKept /\ [Next]_vars => ListsFinite' /\ RequestKept'
    BY FiniteStep, RequestStep
  <1>3. Init => ListsFinite /\ RequestKept
    BY InitFinite
  <1>4. [][Nearer]_vars <=> CloseDescends
    BY DEF CloseDescends
  <1> HIDE DEF Nearer
  <1> QED
    BY <1>1, <1>2, <1>3, <1>4, TypeCorrect, PTL DEF Spec
===============================================================================
