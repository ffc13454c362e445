------------------------ MODULE NetworkServerLinkProofs ------------------------
(***************************************************************************)
(* Proofs about what the server sends to one client, whatever TCP does     *)
(* with the frames: the echoes are in order, frames are read as frames     *)
(* until one has been cut, and towards every client the server keeps the contract EchoLink.*)
(* The invariant is OrderInv: IInv, and how the numbers of the frames that *)
(* wait, of the reply under way and of the echoes follow each other.       *)
(***************************************************************************)
EXTENDS NetworkServerProofs

(* What a receive leaves of the pieces that were queued.                   *)
LEMMA TakeFacts ==
  ASSUME TypeOK, NEW c \in Client, NEW k \in Prefixes(inbox[c]), Take(c, k)
  PROVE  /\ Len(inbox[c]) \in Nat /\ k \in 1 .. Len(inbox[c])
         /\ Segmented \/ inbox[c][k].part = "tail" \/ Overfull(SubSeq(inbox[c], 1, k))
         /\ cut' = CutBy(c, k)
         /\ DOMAIN inbox[c] = 1 .. Len(inbox[c])
         /\ DOMAIN inbox'[c] = 1 .. Len(inbox[c]) - k
         /\ \A i \in 1 .. Len(inbox[c]) - k : inbox'[c][i] = inbox[c][i + k]
         /\ \A d \in Client \ {c} : inbox'[d] = inbox[d]
         /\ UNCHANGED <<outlog, sent>>
  <1> DEFINE q == inbox[c]
  <1>1. q \in Seq(Piece) /\ inbox' = [inbox EXCEPT ![c] = SubSeq(q, k + 1, Len(q))]
    BY DEF TypeOK, LinkTypes, Take
  <1>2. inbox'[c] = SubSeq(q, k + 1, Len(q)) /\ \A d \in Client \ {c} : inbox'[d] = inbox[d]
    BY <1>1 DEF TypeOK, LinkTypes
  <1>3. /\ k \in 1 .. Len(q)
        /\ Segmented \/ q[k].part = "tail" \/ Overfull(SubSeq(q, 1, k))
    BY DEF Prefixes
  <1> HIDE DEF q
  <1>4. Len(q) \in Nat /\ DOMAIN q = 1 .. Len(q)
    BY <1>1
  <1>5. DOMAIN SubSeq(q, k + 1, Len(q)) = 1 .. Len(q) - k
    BY <1>1, <1>3, <1>4
  <1>6. \A i \in 1 .. Len(q) - k : SubSeq(q, k + 1, Len(q))[i] = q[i + k]
    BY <1>1, <1>3, <1>4
  <1>7. UNCHANGED <<outlog, sent>> /\ cut' = CutBy(c, k)
    BY DEF Take
  <1> QED
    BY <1>2, <1>3, <1>4, <1>5, <1>6, <1>7 DEF q

(* What a send adds to the pieces that wait.                               *)
LEMMA SendFacts ==
  ASSUME TypeOK, NEW c \in Client, ClientSend(c)
  PROVE  /\ Len(inbox[c]) \in Nat /\ DOMAIN inbox[c] = 1 .. Len(inbox[c])
         /\ \A i \in 1 .. Len(inbox[c]) : inbox'[c][i] = inbox[c][i]
         /\ inbox'[c][Len(inbox[c]) + 1] = [n |-> sent[c] + 1, part |-> "head"]
         /\ \/ /\ DOMAIN inbox'[c] = 1 .. Len(inbox[c]) + 2
               /\ inbox'[c][Len(inbox[c]) + 2] = [n |-> sent[c] + 1, part |-> "tail"]
               /\ cut' = cut
            \/ /\ Segmented /\ DOMAIN inbox'[c] = 1 .. Len(inbox[c]) + 1
               /\ cut' = cut \cup {c}
         /\ sent[c] \in Nat /\ sent'[c] = sent[c] + 1
         /\ \A d \in Client \ {c} : inbox'[d] = inbox[d] /\ sent'[d] = sent[d]
         /\ UNCHANGED <<outlog, pc, packet, cur, misread>>
  <1> DEFINE q == inbox[c]
             h == [n |-> sent[c] + 1, part |-> "head"]
             t == [n |-> sent[c] + 1, part |-> "tail"]
  <1>1. /\ \/ inbox' = [inbox EXCEPT ![c] = q \o <<h, t>>] /\ cut' = cut
           \/ /\ Segmented /\ inbox' = [inbox EXCEPT ![c] = Append(q, h)]
              /\ cut' = cut \cup {c}
        /\ sent' = [sent EXCEPT ![c] = sent[c] + 1]
        /\ UNCHANGED <<outlog, pc, packet, cur, misread>>
    BY DEF ClientSend, ClientUnchanged, threadVars
  <1>2. /\ sent[c] \in Nat /\ sent'[c] = sent[c] + 1
        /\ \A d \in Client \ {c} : sent'[d] = sent[d]
    BY <1>1, ServerAssumption DEF TypeOK, LinkTypes
  <1>3. q \in Seq(Piece)
    BY DEF TypeOK, LinkTypes
  <1>4. /\ \/ inbox'[c] = q \o <<h, t>> /\ cut' = cut
           \/ Segmented /\ inbox'[c] = Append(q, h) /\ cut' = cut \cup {c}
        /\ \A d \in Client \ {c} : inbox'[d] = inbox[d]
    <2> HIDE DEF q, h, t
    <2> QED
      BY <1>1 DEF TypeOK, LinkTypes
  <1> HIDE DEF q, h, t
  <1>5. Len(q) \in Nat /\ DOMAIN q = 1 .. Len(q)
    BY <1>3
  <1>6. /\ DOMAIN Append(q, h) = 1 .. Len(q) + 1
        /\ \A i \in 1 .. Len(q) : Append(q, h)[i] = q[i]
        /\ Append(q, h)[Len(q) + 1] = h
    BY <1>3, <1>5
  <1>7. /\ DOMAIN (q \o <<h, t>>) = 1 .. Len(q) + 2
        /\ \A i \in 1 .. Len(q) : (q \o <<h, t>>)[i] = q[i]
        /\ (q \o <<h, t>>)[Len(q) + 1] = h
        /\ (q \o <<h, t>>)[Len(q) + 2] = t
    BY <1>3, <1>5
  <1> QED
    BY <1>1, <1>2, <1>4, <1>5, <1>6, <1>7 DEF q, h, t

(* Where the pieces come from, by their indices.                           *)
LEMMA TakeIndices ==
  ASSUME TypeOK, NEW c \in Client, NEW k \in Prefixes(inbox[c]), Take(c, k)
  PROVE  /\ UNCHANGED <<outlog, sent>> /\ 1 \in DOMAIN inbox[c]
         /\ \A j \in DOMAIN inbox'[c] : /\ j + k \in DOMAIN inbox[c] /\ 1 < j + k
                                        /\ inbox'[c][j] = inbox[c][j + k]
  <1> DEFINE q == inbox[c]
             r == inbox'[c]
             len == Len(inbox[c])
  <1>1. /\ len \in Nat /\ k \in 1 .. len /\ DOMAIN q = 1 .. len
        /\ DOMAIN r = 1 .. len - k /\ \A j \in 1 .. len - k : r[j] = q[j + k]
        /\ UNCHANGED <<outlog, sent>>
    BY TakeFacts
  <1> HIDE DEF q, r, len
  <1>2. /\ 1 \in DOMAIN q
        /\ \A j \in DOMAIN r : j + k \in DOMAIN q /\ 1 < j + k /\ r[j] = q[j + k]
    BY ONLY <1>1
  <1> QED
    BY <1>1, <1>2 DEF q, r

LEMMA SendIndices ==
  ASSUME TypeOK, NEW c \in Client, ClientSend(c)
  PROVE  /\ UNCHANGED outlog /\ sent[c] \in Nat
         /\ \A j \in DOMAIN inbox'[c] :
              \/ j \in DOMAIN inbox[c] /\ inbox'[c][j] = inbox[c][j]
              \/ inbox'[c][j].n = sent[c] + 1
  <1> DEFINE q == inbox[c]
             r == inbox'[c]
             len == Len(inbox[c])
  <1>1. /\ len \in Nat /\ DOMAIN q = 1 .. len
        /\ \A i \in 1 .. len : r[i] = q[i]
        /\ r[len + 1] = [n |-> sent[c] + 1, part |-> "head"]
        /\ \/ /\ DOMAIN r = 1 .. len + 2
              /\ r[len + 2] = [n |-> sent[c] + 1, part |-> "tail"]
           \/ DOMAIN r = 1 .. len + 1
        /\ sent[c] \in Nat /\ UNCHANGED outlog
    BY SendFacts
  <1> HIDE DEF q, r, len
  <1>2. \A j \in DOMAIN r : j \in 1 .. len \/ j = len + 1 \/ (j = len + 2 /\ j \in DOMAIN r)
    BY ONLY <1>1
  <1>3. \A j \in DOMAIN r : (j \in DOMAIN q /\ r[j] = q[j]) \/ r[j].n = sent[c] + 1
    BY <1>1, <1>2
  <1> QED
    BY <1>1, <1>3 DEF q, r

(* A receive of the network thread.                                        *)
Received == \E c \in readList \ {Listener} : \E k \in Prefixes(inbox[c]) :
              ReceiveMessage(c, k) \/ ReceiveMisread(c, k)

(* A packet is sent to the client the thread works on, and it is a verdict *)
(* or the reply.                                                           *)
Sent == \E p \in Packet :
          /\ cur \in Client /\ SendBytes(p) /\ p.from = cur
          /\ p.type = "MESSAGE" => pc = "reply" /\ p = packet
          /\ pc' = "dispatch" /\ UNCHANGED <<misread, cut>>

(* Neither sends nor receives.                                             *)
Silent ==
  /\ UNCHANGED <<inbox, outlog, sent>>
  /\ pc' # "reply" \/ UNCHANGED <<pc, packet, cur>>
  /\ \/ UNCHANGED <<misread, cut>>
     \/ \E c \in readList \ {Listener} : \E k \in Prefixes(inbox[c]) :
          /\ ~BeginsWithFrame(SubSeq(inbox[c], 1, k))
          /\ cut' = CutBy(c, k) /\ pc' # "reply"

(* What a step is for the order of the messages.                           *)
LEMMA StepKinds ==
  ASSUME IInv, Next
  PROVE  Received \/ Sent \/ (\E c \in Client : ClientSend(c)) \/ Silent
  <1> USE ServerAssumption
      DEF IInv, TypeOK, ThreadTypes, Handling, linkVars, threadVars
  <1>1. CASE Admit
    <2>1. Verdict(cur, "ACCEPT") \in Packet /\ cur \in Client
      BY <1>1 DEF Admit, Verdict, Packet
    <2> QED
      BY <1>1, <2>1 DEF Admit, Sent, SendBytes, Verdict
  <1>2. CASE Kick
    <2>1. Verdict(cur, "KICK") \in Packet /\ cur \in Client
      BY <1>2 DEF Kick, Verdict, Packet
    <2> QED
      BY <1>2, <2>1 DEF Kick, Sent, SendBytes, Verdict
  <1>3. CASE Packet_Message
    <2>1. packet \in Packet /\ cur \in Client /\ packet.from = cur
      BY <1>3 DEF Packet_Message, Round
    <2> QED
      BY <1>3, <2>1 DEF Packet_Message, Sent, SendBytes
  <1>4. ASSUME NEW c \in readList \ {Listener}, NEW k \in Prefixes(inbox[c]),
               ReceiveMessage(c, k) \/ ReceiveMisread(c, k)
        PROVE  Received
    BY <1>4 DEF Received
  <1>5. ASSUME NEW c \in readList \ {Listener}, NEW k \in Prefixes(inbox[c]),
               LengthException(c, k)
        PROVE  Silent
    BY <1>5 DEF LengthException, Unwind, Silent
  <1>6. CASE Select \/ Accept \/ ConnectHandler \/ DropAll \/ EndRound
    BY <1>6 DEF Select, Accept, ConnectHandler, DropAll, EndRound, Silent
  <1>7. ASSUME NEW c \in readList \ {Listener}, ReceiveEnd(c) PROVE Silent
    BY <1>7 DEF ReceiveEnd, Silent
  <1>8. ASSUME NEW c \in ToErase, Drop(c) PROVE Silent
    BY <1>8 DEF Drop, Silent
  <1>9. CASE SocketException \/ Overrun \/ Exit \/ ExitCommand \/ JoinReturns
    BY <1>9 DEF SocketException, Unwind, Overrun, ProcessEnds, Exit, NetworkExit,
                ExitCommand, JoinReturns, Silent
  <1>10. CASE Operator \/ Close
    BY <1>10 DEF Operator, Close, Silent
  <1>11. ASSUME NEW c \in Client, Connect(c) \/ ClientRead(c) \/ ClientClose(c)
         PROVE  Silent
    BY <1>11 DEF Connect, ClientRead, ClientClose, ClientUnchanged, Silent
  <1> QED
    BY <1>1, <1>2, <1>3, <1>4, <1>5, <1>6, <1>7, <1>8, <1>9, <1>10, <1>11
       DEF Next, ServerThread, Clients

(* A send changes no queue of pieces, and the log of one client only.      *)
LEMMA SentFacts ==
  ASSUME TypeOK, Sent
  PROVE  UNCHANGED <<inbox, sent>>
  BY DEF Sent, SendBytes

(* Until a frame has been cut, a receive begins with a whole one, or it    *)
(* cuts the first.                                                         *)
LEMMA FrameAtFront ==
  ASSUME TypeOK, WholeFrames, NEW c \in Client, c \notin cut,
         NEW k \in Prefixes(inbox[c]), inbox[c][k].part # "head"
  PROVE  BeginsWithFrame(SubSeq(inbox[c], 1, k))
  <1> DEFINE q == inbox[c]
  <1>1. q \in Seq(Piece) /\ k \in 1 .. Len(q) /\ q[k].part # "head"
    BY DEF TypeOK, LinkTypes, Prefixes
  <1>2. Alternate(q)
    BY DEF WholeFrames
  <1> HIDE DEF q
  <1>3. 1 \in DOMAIN q /\ 0 \notin DOMAIN q /\ q[1] \in Piece
    BY <1>1
  <1>4. q[1].part = "head"
    <2>1. q[1].part = "head" \/ q[1].part = "tail"
      BY <1>3 DEF Piece
    <2>2. q[1].part = "tail" => 1 - 1 \in DOMAIN q
      BY <1>2, <1>3 DEF Alternate
    <2> QED
      BY <1>3, <2>1, <2>2
  <1>5. q[1 + 1] = [n |-> q[1].n, part |-> "tail"]
    BY <1>2, <1>3, <1>4 DEF Alternate
  <1>6. k >= 2
    BY <1>1, <1>4
  <1>7. /\ Len(SubSeq(q, 1, k)) = k
        /\ SubSeq(q, 1, k)[1] = q[1] /\ SubSeq(q, 1, k)[2] = q[2]
    BY <1>1, <1>6
  <1>8. BeginsWithFrame(SubSeq(q, 1, k))
    BY <1>1, <1>4, <1>5, <1>6, <1>7 DEF BeginsWithFrame
  <1> QED
    BY <1>8 DEF q

(* Whole frames may be taken from the front of an alternating queue, and   *)
(* one added at its end.                                                   *)
LEMMA AlternateRest ==
  ASSUME NEW q, NEW r, NEW len \in Nat, NEW k \in 1 .. len,
         DOMAIN q = 1 .. len, Alternate(q), q[k].part = "tail",
         DOMAIN r = 1 .. len - k, \A i \in 1 .. len - k : r[i] = q[i + k]
  PROVE  Alternate(r)
  <1> SUFFICES ASSUME NEW i \in 1 .. len - k
               PROVE  /\ r[i].part = "head" => /\ i + 1 \in DOMAIN r
                                              /\ r[i+1] = [n |-> r[i].n, part |-> "tail"]
                      /\ r[i].part = "tail" => i - 1 \in DOMAIN r /\ r[i-1].part = "head"
    BY DEF Alternate
  <1>1. i + k \in DOMAIN q /\ r[i] = q[i + k]
    OBVIOUS
  <1>2. ASSUME r[i].part = "head"
        PROVE  i + 1 \in DOMAIN r /\ r[i+1] = [n |-> r[i].n, part |-> "tail"]
    <2>1. (i + k) + 1 \in DOMAIN q
          /\ q[(i + k) + 1] = [n |-> q[i + k].n, part |-> "tail"]
      BY <1>1, <1>2 DEF Alternate
    <2>2. i + 1 \in 1 .. len - k /\ (i + 1) + k = (i + k) + 1
      BY <2>1
    <2> QED
      BY <1>1, <2>1, <2>2
  <1>3. ASSUME r[i].part = "tail"
        PROVE  i - 1 \in DOMAIN r /\ r[i-1].part = "head"
    <2>1. (i + k) - 1 \in DOMAIN q /\ q[(i + k) - 1].part = "head"
      BY <1>1, <1>3 DEF Alternate
    <2>2. i # 1
      <3>1. ASSUME i = 1 PROVE FALSE
        <4>1. (i + k) - 1 = k
          BY <3>1
        <4> QED
          BY <2>1, <4>1
      <3> QED
        BY <3>1
    <2>3. i - 1 \in 1 .. len - k /\ (i - 1) + k = (i + k) - 1
      BY <2>2
    <2> QED
      BY <2>1, <2>3
  <1> QED
    BY <1>2, <1>3

LEMMA AlternateMore ==
  ASSUME NEW q, NEW r, NEW len \in Nat, NEW n,
         DOMAIN q = 1 .. len, Alternate(q),
         DOMAIN r = 1 .. len + 2, \A i \in 1 .. len : r[i] = q[i],
         r[len + 1] = [n |-> n, part |-> "head"],
         r[len + 2] = [n |-> n, part |-> "tail"]
  PROVE  Alternate(r)
  <1> SUFFICES ASSUME NEW i \in 1 .. len + 2
               PROVE  /\ r[i].part = "head" => /\ i + 1 \in DOMAIN r
                                              /\ r[i+1] = [n |-> r[i].n, part |-> "tail"]
                      /\ r[i].part = "tail" => i - 1 \in DOMAIN r /\ r[i-1].part = "head"
    BY DEF Alternate
  <1>1. CASE i \in 1 .. len
    <2>1. q[i].part = "head" => /\ i + 1 \in 1 .. len
                                /\ q[i+1] = [n |-> q[i].n, part |-> "tail"]
      BY <1>1 DEF Alternate
    <2>2. q[i].part = "tail" => i - 1 \in 1 .. len /\ q[i-1].part = "head"
      BY <1>1 DEF Alternate
    <2> QED
      BY <1>1, <2>1, <2>2
  <1>2. CASE i = len + 1
    <2>1. i + 1 = len + 2 /\ r[i] = [n |-> n, part |-> "head"]
      BY <1>2
    <2>2. r[i].part = "head" /\ r[i].n = n
      BY <2>1
    <2> QED
      BY <2>1, <2>2
  <1>3. CASE i = len + 2
    <2>1. i - 1 = len + 1 /\ r[i].part = "tail" /\ r[len + 1].part = "head"
      BY <1>3
    <2> QED
      BY <2>1
  <1> QED
    BY <1>1, <1>2, <1>3

(* Once cut, a connection stays so marked.                                 *)
LEMMA CutKept == IInv /\ Next => cut \subseteq cut'
  <1> SUFFICES ASSUME IInv, Next PROVE cut \subseteq cut'
    OBVIOUS
  <1>1. CASE Received
    BY <1>1 DEF Received, ReceiveMessage, ReceiveMisread, Take, CutBy
  <1>2. CASE Sent \/ Silent
    BY <1>2 DEF Sent, Silent, CutBy
  <1>3. CASE \E c \in Client : ClientSend(c)
    BY <1>3 DEF ClientSend
  <1> QED
    BY <1>1, <1>2, <1>3, StepKinds

(* Every step keeps heads and tails together.                              *)
LEMMA WholeFramesStep == IInv /\ WholeFrames /\ Next => WholeFrames'
  <1> SUFFICES ASSUME IInv, WholeFrames, Next, NEW d \in Client, d \notin cut'
               PROVE  Alternate(inbox[d])'
    BY DEF WholeFrames
  <1>0. TypeOK /\ Alternate(inbox[d])
    BY CutKept DEF IInv, WholeFrames
  <1>1. CASE inbox'[d] = inbox[d]
    BY <1>0, <1>1 DEF Alternate
  <1>2. ASSUME NEW k \in Prefixes(inbox[d]), Take(d, k)
        PROVE  Alternate(inbox[d])'
    <2>1. /\ Len(inbox[d]) \in Nat /\ k \in 1 .. Len(inbox[d])
          /\ inbox[d][k].part = "tail"
          /\ DOMAIN inbox[d] = 1 .. Len(inbox[d])
          /\ DOMAIN inbox'[d] = 1 .. Len(inbox[d]) - k
          /\ \A j \in 1 .. Len(inbox[d]) - k : inbox'[d][j] = inbox[d][j + k]
      <3>1. inbox[d][k].part # "head"
        BY <1>0, <1>2, TakeFacts DEF CutBy
      <3>2. inbox[d] \in Seq(Piece) /\ k \in 1 .. Len(inbox[d])
        BY <1>0 DEF TypeOK, LinkTypes, Prefixes
      <3>3. inbox[d][k] \in Piece
        BY <3>2
      <3>4. inbox[d][k].part = "tail"
        BY <3>1, <3>3 DEF Piece
      <3> QED
        BY <1>0, <1>2, <3>4, TakeFacts
    <2>2. Alternate(inbox'[d])
      <3> DEFINE q == inbox[d]
                 r == inbox'[d]
                 len == Len(inbox[d])
      <3>1. /\ len \in Nat /\ k \in 1 .. len /\ q[k].part = "tail" /\ DOMAIN q = 1 .. len
            /\ DOMAIN r = 1 .. len - k /\ \A j \in 1 .. len - k : r[j] = q[j + k]
            /\ Alternate(q)
        BY <1>0, <2>1
      <3> HIDE DEF q, r, len
      <3>2. Alternate(r)
        BY ONLY <3>1, AlternateRest
      <3> QED
        BY <3>2 DEF r
    <2> QED
      BY <2>2
  <1>3. CASE ClientSend(d)
    <2>1. /\ Len(inbox[d]) \in Nat
          /\ DOMAIN inbox[d] = 1 .. Len(inbox[d])
          /\ DOMAIN inbox'[d] = 1 .. Len(inbox[d]) + 2
          /\ \A i \in 1 .. Len(inbox[d]) : inbox'[d][i] = inbox[d][i]
          /\ inbox'[d][Len(inbox[d]) + 1] = [n |-> sent[d] + 1, part |-> "head"]
          /\ inbox'[d][Len(inbox[d]) + 2] = [n |-> sent[d] + 1, part |-> "tail"]
      BY <1>0, <1>3, SendFacts
    <2>2. Alternate(inbox'[d])
      <3> DEFINE q == inbox[d]
                 r == inbox'[d]
                 len == Len(inbox[d])
                 n == sent[d] + 1
      <3>1. /\ len \in Nat /\ DOMAIN q = 1 .. len
            /\ DOMAIN r = 1 .. len + 2 /\ \A j \in 1 .. len : r[j] = q[j]
            /\ r[len + 1] = [n |-> n, part |-> "head"]
            /\ r[len + 2] = [n |-> n, part |-> "tail"]
            /\ Alternate(q)
        BY <1>0, <2>1
      <3> HIDE DEF q, r, len, n
      <3>2. Alternate(r)
        BY ONLY <3>1, AlternateMore
      <3> QED
        BY <3>2 DEF r
    <2> QED
      BY <2>2
  <1>4. CASE Received
    <2>0. PICK c \in readList \ {Listener} : \E k \in Prefixes(inbox[c]) : Take(c, k)
      BY <1>4 DEF Received, ReceiveMessage, ReceiveMisread
    <2>1. PICK k \in Prefixes(inbox[c]) : Take(c, k)
      BY <2>0
    <2>2. c \in Client
      BY DEF IInv, TypeOK, ThreadTypes
    <2>3. c # d => inbox'[d] = inbox[d]
      BY <1>0, <2>1, <2>2, TakeFacts
    <2> QED
      BY <1>1, <1>2, <2>1, <2>3
  <1>5. CASE \E c \in Client : ClientSend(c)
    <2>1. PICK c \in Client : ClientSend(c)
      BY <1>5
    <2>2. c # d => inbox'[d] = inbox[d]
      BY <1>0, <2>1, SendFacts
    <2> QED
      BY <1>1, <1>3, <2>1, <2>2
  <1>6. CASE Sent \/ Silent
    BY <1>0, <1>1, <1>6, SentFacts DEF Silent
  <1> QED
    BY <1>4, <1>5, <1>6, StepKinds

(* A client's count of messages never falls.                               *)
LEMMA SentKept ==
  ASSUME IInv, Next, NEW d \in Client
  PROVE  sent'[d] = sent[d] \/ sent'[d] = sent[d] + 1
  <1>0. TypeOK /\ readList \ {Listener} \subseteq Client
    BY DEF IInv, TypeOK, ThreadTypes
  <1>1. CASE Received
    BY <1>1 DEF Received, ReceiveMessage, ReceiveMisread, Take
  <1>2. CASE Sent
    BY <1>0, <1>2, SentFacts
  <1>3. CASE \E c \in Client : ClientSend(c)
    BY <1>0, <1>3, SendFacts
  <1>4. CASE Silent
    BY <1>4 DEF Silent
  <1> QED
    BY <1>1, <1>2, <1>3, <1>4, StepKinds

(* A full buffer takes more frames than fit in it.                         *)
LEMMA FullBuffer ==
  ASSUME TypeOK, InOrder, NEW c \in Client, NEW k \in Prefixes(inbox[c]),
         Overfull(SubSeq(inbox[c], 1, k))
  PROVE  sent[c] * LongestFrame > MAX_BUFFER_LENGTH
  <1> DEFINE q == SubSeq(inbox[c], 1, k)
             F == {q[i].n : i \in DOMAIN q}
  <1>1. sent[c] \in Nat /\ MAX_BUFFER_LENGTH \in Nat
    BY ServerAssumption DEF TypeOK, LinkTypes
  <1>2. F \subseteq 1 .. sent[c]
    <2>1. inbox[c] \in Seq(Piece) /\ k \in 1 .. Len(inbox[c])
      BY DEF TypeOK, LinkTypes, Prefixes
    <2>2. /\ DOMAIN inbox[c] = 1 .. Len(inbox[c]) /\ DOMAIN q = 1 .. k
          /\ \A i \in 1 .. k : q[i] = inbox[c][i] /\ i \in DOMAIN inbox[c]
      BY <2>1
    <2>3. \A i \in DOMAIN inbox[c] : inbox[c][i].n \in 1 .. MaxSend
      <3>1. \A i \in DOMAIN inbox[c] : inbox[c][i] \in Piece
        BY <2>1
      <3> QED  BY <3>1 DEF Piece
    <2>4. \A i \in DOMAIN inbox[c] : inbox[c][i].n <= sent[c]
      BY DEF InOrder
    <2>5. \A i \in DOMAIN q : q[i].n \in 1 .. MaxSend /\ q[i].n <= sent[c]
      BY <2>2, <2>3, <2>4
    <2> HIDE DEF q
    <2>6. \A i \in DOMAIN q : q[i].n \in 1 .. sent[c]
      BY <1>1, <2>5, ServerAssumption
    <2> QED  BY <2>6
  <1>3. IsFiniteSet(1 .. sent[c]) /\ Cardinality(1 .. sent[c]) = sent[c]
    BY <1>1, FS_Interval
  <1>4. IsFiniteSet(F) /\ Cardinality(F) <= sent[c] /\ Cardinality(F) \in Nat
    BY <1>2, <1>3, FS_Subset, FS_CardinalityType
  <1>5. 266 * Cardinality(F) > MAX_BUFFER_LENGTH
    BY DEF Overfull, Frames, LongestFrame
  <1> HIDE DEF F
  <1>6. 266 * Cardinality(F) <= sent[c] * 266
    BY <1>1, <1>4
  <1> QED
    BY <1>1, <1>4, <1>5, <1>6 DEF LongestFrame

(* ... and so nothing is misread before a frame has been cut.              *)
LEMMA WholeFramesReadStep ==
  IInv /\ InOrder /\ WholeFrames /\ WholeFramesRead /\ Next => WholeFramesRead'
  <1> SUFFICES ASSUME IInv, InOrder, WholeFrames, WholeFramesRead, Next
               PROVE  WholeFramesRead'
    OBVIOUS
  <1> DEFINE Few(c) == Segmented \/ sent[c] * LongestFrame > MAX_BUFFER_LENGTH
  <1>0. /\ TypeOK /\ readList \ {Listener} \subseteq Client /\ cut \subseteq cut'
        /\ cut \subseteq Client
    BY CutKept DEF IInv, TypeOK, LinkTypes, ThreadTypes
  <1>1. ASSUME NEW c \in Client, Few(c) PROVE Few(c)'
    <2>1. sent[c] \in Nat /\ MAX_BUFFER_LENGTH \in Nat
      BY <1>0, ServerAssumption DEF TypeOK, LinkTypes
    <2>2. sent'[c] = sent[c] \/ sent'[c] = sent[c] + 1
      BY SentKept
    <2>3. sent'[c] * 266 = sent[c] * 266 \/ sent'[c] * 266 = sent[c] * 266 + 266
      BY <2>1, <2>2
    <2>4. sent[c] * 266 \in Nat
      BY <2>1
    <2>5. \A x, y \in Nat : x > y => x + 266 > y
      OBVIOUS
    <2>6. sent[c] * 266 > MAX_BUFFER_LENGTH => sent'[c] * 266 > MAX_BUFFER_LENGTH
      BY ONLY <2>1, <2>3, <2>4, <2>5
    <2> QED
      BY <1>1, <2>6 DEF LongestFrame
  <1>2. ASSUME NEW c \in Client, NEW k \in Prefixes(inbox[c]), inbox[c][k].part = "head"
        PROVE  Few(c)
    <2>1. Segmented \/ inbox[c][k].part = "tail" \/ Overfull(SubSeq(inbox[c], 1, k))
      BY DEF Prefixes
    <2> QED
      BY <1>0, <1>2, <2>1, FullBuffer
  <1>3. \A c \in cut' : Few(c)'
    <2>1. \A c \in cut' : c \in cut \/ (c \in Client /\ Few(c))
      <3>1. CASE Received
        BY <1>0, <1>2, <3>1 DEF Received, ReceiveMessage, ReceiveMisread, Take, CutBy
      <3>2. CASE Sent \/ Silent
        BY <1>0, <1>2, <3>2 DEF Sent, Silent, CutBy
      <3>3. CASE \E c \in Client : ClientSend(c)
        BY <3>3 DEF ClientSend
      <3> QED
        BY <3>1, <3>2, <3>3, StepKinds
    <2>2. \A c \in cut : c \in Client /\ Few(c)
      BY <1>0 DEF WholeFramesRead
    <2> QED
      BY <1>1, <2>1, <2>2
  <1>4. ASSUME NEW c \in readList \ {Listener}, NEW k \in Prefixes(inbox[c]),
               ~BeginsWithFrame(SubSeq(inbox[c], 1, k)), cut' = CutBy(c, k)
        PROVE  c \in cut'
    BY <1>0, <1>4, FrameAtFront DEF CutBy
  <1> HIDE DEF Few
  <1>5. /\ misread' => cut' # {}
        /\ pc' = "reply" /\ packet'.n = Garbled => cur' \in cut'
    <2>1. CASE Received
      <3>1. PICK c \in readList \ {Listener} : \E k \in Prefixes(inbox[c]) :
              ReceiveMessage(c, k) \/ ReceiveMisread(c, k)
        BY <2>1 DEF Received
      <3>2. PICK k \in Prefixes(inbox[c]) : ReceiveMessage(c, k) \/ ReceiveMisread(c, k)
        BY <3>1
      <3>3. CASE ReceiveMessage(c, k)
        <4>1. inbox[c] \in Seq(Piece) /\ Len(inbox[c]) >= 1
          BY <1>0, <3>2 DEF TypeOK, LinkTypes, Prefixes
        <4>2. inbox[c][1] \in Piece
          BY <4>1
        <4>3. packet'.n # Garbled /\ misread' = misread
          BY <3>3, <4>2, ServerAssumption
             DEF ReceiveMessage, PacketHandler, Message, Garbled, Piece
        <4> QED
          BY <1>0, <4>3 DEF WholeFramesRead
      <3>4. CASE ReceiveMisread(c, k)
        <4>1. c \in cut'
          BY <1>4, <3>4 DEF ReceiveMisread, Take
        <4>2. pc' = "reply" => cur' = c
          BY <3>4 DEF ReceiveMisread, PacketHandler, Message, Take
        <4> QED
          BY <4>1, <4>2
      <3> QED  BY <3>2, <3>3, <3>4
    <2>2. CASE Sent
      BY <1>0, <2>2 DEF Sent, WholeFramesRead
    <2>3. CASE \E c \in Client : ClientSend(c)
      BY <1>0, <2>3 DEF ClientSend, ClientUnchanged, threadVars, WholeFramesRead
    <2>4. CASE Silent
      BY <1>0, <1>4, <2>4 DEF Silent, WholeFramesRead
    <2> QED
      BY <2>1, <2>2, <2>3, <2>4, StepKinds
  <1> QED
    BY <1>3, <1>5 DEF WholeFramesRead, Few

(* Taking pieces from the front keeps the order of those that remain.      *)
LEMMA InOrderStep == IInv /\ InOrder /\ Next => InOrder'
  <1> SUFFICES ASSUME IInv, InOrder, Next, NEW d \in Client
               PROVE  /\ \A i \in DOMAIN inbox'[d] : inbox'[d][i].n <= sent'[d]
                      /\ \A i, j \in DOMAIN inbox'[d] :
                           i < j => /\ inbox'[d][i].n <= inbox'[d][j].n
                                    /\ inbox'[d][j].part = "head"
                                         => inbox'[d][i].n < inbox'[d][j].n
    BY DEF InOrder
  <1>0. TypeOK /\ readList \ {Listener} \subseteq Client
    BY DEF IInv, TypeOK, ThreadTypes
  <1>1. /\ \A i \in DOMAIN inbox[d] : inbox[d][i].n <= sent[d]
        /\ \A i, j \in DOMAIN inbox[d] :
             i < j => /\ inbox[d][i].n <= inbox[d][j].n
                      /\ inbox[d][j].part = "head" => inbox[d][i].n < inbox[d][j].n
    BY DEF InOrder
  <1>2. CASE inbox'[d] = inbox[d] /\ sent'[d] = sent[d]
    BY <1>1, <1>2
  <1>3. ASSUME NEW k \in Prefixes(inbox[d]), Take(d, k), sent'[d] = sent[d]
        PROVE  /\ \A i \in DOMAIN inbox'[d] : inbox'[d][i].n <= sent'[d]
               /\ \A i, j \in DOMAIN inbox'[d] :
                    i < j => /\ inbox'[d][i].n <= inbox'[d][j].n
                             /\ inbox'[d][j].part = "head"
                                  => inbox'[d][i].n < inbox'[d][j].n
    <2>1. /\ Len(inbox[d]) \in Nat /\ k \in 1 .. Len(inbox[d])
          /\ DOMAIN inbox[d] = 1 .. Len(inbox[d])
          /\ DOMAIN inbox'[d] = 1 .. Len(inbox[d]) - k
          /\ \A i \in 1 .. Len(inbox[d]) - k : inbox'[d][i] = inbox[d][i + k]
      BY <1>0, <1>3, TakeFacts
    <2>2. \A i \in DOMAIN inbox'[d] : /\ i + k \in DOMAIN inbox[d]
                                      /\ inbox'[d][i] = inbox[d][i + k]
      BY <2>1
    <2>3. \A i, j \in DOMAIN inbox'[d] : i < j => i + k < j + k
      BY <2>1
    <2> QED
      BY <1>1, <1>3, <2>2, <2>3
  <1>4. CASE ClientSend(d)
    <2> DEFINE len == Len(inbox[d])
    <2>1. /\ len \in Nat /\ DOMAIN inbox[d] = 1 .. len
          /\ \A i \in 1 .. len : inbox'[d][i] = inbox[d][i]
          /\ inbox'[d][len + 1] = [n |-> sent[d] + 1, part |-> "head"]
          /\ \/ /\ DOMAIN inbox'[d] = 1 .. len + 2
                /\ inbox'[d][len + 2] = [n |-> sent[d] + 1, part |-> "tail"]
             \/ DOMAIN inbox'[d] = 1 .. len + 1
          /\ sent[d] \in Nat /\ sent'[d] = sent[d] + 1
      BY <1>0, <1>4, SendFacts
    <2>2. \A i \in 1 .. len : inbox[d][i].n \in Nat
      <3>1. inbox[d] \in Seq(Piece)
        BY <1>0 DEF TypeOK, LinkTypes
      <3>2. \A i \in 1 .. len : inbox[d][i] \in Piece
        BY <3>1
      <3> QED
        BY <3>2, ServerAssumption DEF Piece
    <2> HIDE DEF len
    <2>3. \A i \in 1 .. len : inbox'[d][i].n \in Nat /\ inbox'[d][i].n <= sent[d]
      BY <1>1, <2>1, <2>2
    <2>4. \A i \in DOMAIN inbox'[d] :
            \/ i \in 1 .. len
            \/ i = len + 1 /\ inbox'[d][i].n = sent[d] + 1
            \/ i = len + 2 /\ inbox'[d][i].n = sent[d] + 1 /\ inbox'[d][i].part = "tail"
      BY <2>1
    <2>5. \A i \in DOMAIN inbox'[d] : inbox'[d][i].n <= sent'[d]
      <3>1. sent[d] \in Nat /\ sent'[d] = sent[d] + 1
        BY ONLY <2>1
      <3>2. \A x \in Nat : x <= sent[d] => x <= sent[d] + 1
        BY ONLY <3>1
      <3>3. sent[d] + 1 <= sent[d] + 1
        BY ONLY <3>1
      <3> QED  BY ONLY <2>3, <2>4, <3>1, <3>2, <3>3
    <2>6. ASSUME NEW i \in DOMAIN inbox'[d], NEW j \in DOMAIN inbox'[d], i < j
          PROVE  /\ inbox'[d][i].n <= inbox'[d][j].n
                 /\ inbox'[d][j].part = "head" => inbox'[d][i].n < inbox'[d][j].n
      <3>1. CASE j \in 1 .. len
        <4>1. i \in 1 .. len
          BY <2>1, <2>4, <2>6, <3>1
        <4>2. i \in DOMAIN inbox[d] /\ j \in DOMAIN inbox[d]
              /\ inbox'[d][i] = inbox[d][i] /\ inbox'[d][j] = inbox[d][j]
          BY <2>1, <3>1, <4>1
        <4> QED
          BY <1>1, <2>6, <4>2
      <3>2. CASE i \in 1 .. len /\ j \notin 1 .. len
        <4>1. inbox'[d][i].n \in Nat /\ inbox'[d][i].n <= sent[d] /\ sent[d] \in Nat
          BY <2>1, <2>3, <3>2
        <4>2. inbox'[d][j].n = sent[d] + 1
          BY <2>4, <3>2
        <4> QED
          BY ONLY <4>1, <4>2
      <3>3. CASE i = len + 1 /\ j = len + 2
        BY <2>1, <2>4, <3>3
      <3> QED
        BY <2>1, <2>4, <2>6, <3>1, <3>2, <3>3
    <2> QED
      BY <2>5, <2>6
  <1>5. CASE Received
    <2>0. PICK c \in readList \ {Listener} : \E k \in Prefixes(inbox[c]) : Take(c, k)
      BY <1>5 DEF Received, ReceiveMessage, ReceiveMisread
    <2>1. PICK k \in Prefixes(inbox[c]) : Take(c, k)
      BY <2>0
    <2>2. sent'[d] = sent[d] /\ (c # d => inbox'[d] = inbox[d])
      BY <1>0, <2>1, TakeFacts
    <2> QED
      BY <1>2, <1>3, <2>1, <2>2
  <1>6. CASE \E c \in Client : ClientSend(c)
    <2>1. PICK c \in Client : ClientSend(c)
      BY <1>6
    <2>2. c # d => inbox'[d] = inbox[d] /\ sent'[d] = sent[d]
      BY <1>0, <2>1, SendFacts
    <2> QED
      BY <1>2, <1>4, <2>1, <2>2
  <1>7. CASE Sent \/ Silent
    BY <1>0, <1>2, <1>7, SentFacts DEF Silent
  <1> QED
    BY <1>5, <1>6, <1>7, StepKinds

(* What a reply or a verdict does to the echoes of a client.               *)
LEMMA EchoFacts ==
  ASSUME TypeOK, Sent
  PROVE  /\ \A c \in Client \ {cur} : outlog'[c] = outlog[c]
         /\ cur \in Client /\ UNCHANGED <<inbox, sent>>
         /\ \A i \in DOMAIN outlog'[cur] : outlog'[cur][i].n \in Nat
         /\ \A i \in DOMAIN outlog'[cur] :
              \/ i \in DOMAIN outlog[cur] /\ outlog'[cur][i] = outlog[cur][i]
              \/ /\ outlog'[cur][i].from = cur
                 /\ \A j \in DOMAIN outlog[cur] : j < i
                 /\ \A j \in DOMAIN outlog'[cur] : i >= j
                 /\ outlog'[cur][i].type = "MESSAGE" =>
                      pc = "reply" /\ outlog'[cur][i] = packet
  <1>1. PICK p \in Packet :
          /\ cur \in Client /\ SendBytes(p) /\ p.from = cur
          /\ p.type = "MESSAGE" => pc = "reply" /\ p = packet
    BY DEF Sent
  <1>2. /\ \A c \in Client \ {cur} : outlog'[c] = outlog[c]
        /\ DOMAIN outlog[cur] = 1 .. Len(outlog[cur]) /\ Len(outlog[cur]) \in Nat
        /\ DOMAIN outlog'[cur] = 1 .. Len(outlog[cur]) + 1
        /\ \A i \in DOMAIN outlog[cur] : outlog'[cur][i] = outlog[cur][i]
        /\ \A i \in DOMAIN outlog'[cur] :
             i \in DOMAIN outlog[cur] \/ (i = Len(outlog[cur]) + 1 /\ outlog'[cur][i] = p)
    BY <1>1, SendAppends
  <1>3. UNCHANGED <<inbox, sent>>
    BY <1>1 DEF SendBytes
  <1>4. \A i \in DOMAIN outlog[cur] : outlog[cur][i] \in Packet
    BY <1>1 DEF TypeOK, LinkTypes
  <1>5. \A q \in Packet : q.n \in Nat
    BY ServerAssumption DEF Packet
  <1>6. \A i \in DOMAIN outlog'[cur] : outlog'[cur][i].n \in Nat
    BY <1>2, <1>4, <1>5
  <1> HIDE DEF Echo
  <1> QED
    BY <1>1, <1>2, <1>3, <1>6

(* The numbers of the echoes are natural numbers.                          *)
LEMMA Numbers ==
  ASSUME TypeOK
  PROVE  /\ \A c \in Client : \A i \in DOMAIN outlog[c] : outlog[c][i].n \in Nat
         /\ \A c \in Client : \A i \in DOMAIN inbox[c] : inbox[c][i].n \in Nat
         /\ \A c \in Client : sent[c] \in Nat
  <1>1. \A q \in Packet : q.n \in Nat
    BY ServerAssumption DEF Packet
  <1>2. \A q \in Piece : q.n \in Nat
    BY ServerAssumption DEF Piece
  <1>3. \A c \in Client : \A i \in DOMAIN outlog[c] : outlog[c][i] \in Packet
    BY DEF TypeOK, LinkTypes
  <1>4. \A c \in Client : \A i \in DOMAIN inbox[c] : inbox[c][i] \in Piece
    BY DEF TypeOK, LinkTypes
  <1>5. \A c \in Client : sent[c] \in Nat
    BY ServerAssumption DEF TypeOK, LinkTypes
  <1> QED
    BY <1>1, <1>2, <1>3, <1>4, <1>5

(* A reply goes behind the echoes and in front of what waits.              *)
LEMMA EchoOrderStep ==
  IInv /\ EchoOrder /\ ReplyBetween /\ Next => EchoOrder'
  <1> SUFFICES ASSUME IInv, EchoOrder, ReplyBetween, Next, NEW d \in Client
               PROVE  /\ \A i \in DOMAIN outlog'[d] : outlog'[d][i].from = d
                      /\ \A i \in Echo(d)' : outlog'[d][i].n <= sent'[d]
                      /\ \A i, j \in Echo(d)' : i < j => outlog'[d][i].n < outlog'[d][j].n
    BY DEF EchoOrder
  <1>0. TypeOK
    BY DEF IInv
  <1>1. /\ \A i \in DOMAIN outlog[d] : outlog[d][i].from = d
        /\ \A i \in Echo(d) : outlog[d][i].n <= sent[d]
        /\ \A i, j \in Echo(d) : i < j => outlog[d][i].n < outlog[d][j].n
        /\ Echo(d) \subseteq DOMAIN outlog[d] /\ sent[d] \in Nat
        /\ \A i \in DOMAIN outlog[d] : i \in Nat
    BY <1>0, Numbers DEF EchoOrder, Echo, TypeOK, LinkTypes
  <1>2. CASE outlog'[d] = outlog[d]
    <2>1. sent'[d] \in Nat /\ sent'[d] >= sent[d]
      BY <1>1, SentKept
    <2>2. Echo(d)' = Echo(d)
      BY <1>2 DEF Echo
    <2>3. \A i \in Echo(d) : outlog[d][i].n \in Nat
      BY <1>0, <1>1, Numbers
    <2> QED
      BY <1>1, <1>2, <2>1, <2>2, <2>3
  <1>3. CASE Sent /\ d = cur
    <2>1. /\ sent' = sent
          /\ \A i \in DOMAIN outlog'[d] :
              \/ i \in DOMAIN outlog[d] /\ outlog'[d][i] = outlog[d][i]
              \/ /\ outlog'[d][i].from = d
                 /\ \A j \in DOMAIN outlog[d] : j < i
                 /\ \A j \in DOMAIN outlog'[d] : i >= j
                 /\ outlog'[d][i].type = "MESSAGE" =>
                      pc = "reply" /\ outlog'[d][i] = packet
      BY <1>0, <1>3, EchoFacts
    <2>2. \A i \in Echo(d)' :
              \/ i \in Echo(d) /\ outlog'[d][i] = outlog[d][i]
              \/ /\ \A j \in DOMAIN outlog'[d] : i >= j
                 /\ outlog'[d][i].n <= sent[d]
                 /\ \A j \in Echo(d) : outlog[d][j].n < outlog'[d][i].n
      BY <1>3, <2>1 DEF Echo, ReplyBetween
    <2>3. Echo(d)' \subseteq DOMAIN outlog'[d] /\ \A i \in DOMAIN outlog'[d] : i \in Nat
      <3>1. outlog' \in [Client -> Seq(Packet)]
        BY <1>0, <1>1, <1>3, NextIInv DEF IInv, TypeOK, LinkTypes
      <3>2. DOMAIN outlog'[d] \subseteq Nat
        BY <3>1
      <3> QED  BY <3>2 DEF Echo
    <2> QED
      BY <1>1, <2>1, <2>2, <2>3
  <1>4. CASE Sent /\ d # cur
    BY <1>0, <1>2, <1>4, EchoFacts
  <1>5. CASE Received
    <2>0. PICK c \in readList \ {Listener} : \E k \in Prefixes(inbox[c]) : Take(c, k)
      BY <1>5 DEF Received, ReceiveMessage, ReceiveMisread
    <2> QED
      BY <1>2, <2>0 DEF Take
  <1>6. CASE (\E c \in Client : ClientSend(c)) \/ Silent
    BY <1>2, <1>6 DEF ClientSend, Silent
  <1> QED
    BY <1>3, <1>4, <1>5, <1>6, StepKinds

(* The frames that wait are behind every echo.                             *)
LEMMA EchoBehindStep ==
  IInv /\ EchoOrder /\ EchoBehind /\ ReplyBetween /\ Next => EchoBehind'
  <1> SUFFICES ASSUME IInv, EchoOrder, EchoBehind, ReplyBetween, Next, NEW d \in Client,
                      NEW i \in Echo(d)', NEW n \in Waiting(d)'
               PROVE  outlog'[d][i].n < n
    BY DEF EchoBehind
  <1>0. TypeOK /\ readList \ {Listener} \subseteq Client
    BY DEF IInv, TypeOK, ThreadTypes
  <1>1. ASSUME NEW e \in Echo(d), NEW m \in Waiting(d) PROVE outlog[d][e].n < m
    BY DEF EchoBehind
  <1>2. CASE outlog'[d] = outlog[d] /\ inbox'[d] = inbox[d]
    BY <1>1, <1>2 DEF Echo, Waiting
  <1>3. ASSUME NEW k \in Prefixes(inbox[d]), Take(d, k) PROVE outlog'[d][i].n < n
    <2>1. outlog' = outlog /\ \A j \in DOMAIN inbox'[d] : /\ j + k \in DOMAIN inbox[d]
                                                         /\ inbox'[d][j] = inbox[d][j + k]
      BY <1>0, <1>3, TakeIndices
    <2>2. i \in Echo(d) /\ n \in Waiting(d)
      BY <2>1 DEF Echo, Waiting
    <2> QED
      BY <1>1, <2>1, <2>2
  <1>4. CASE ClientSend(d)
    <2>1. /\ outlog' = outlog /\ sent[d] \in Nat
          /\ \A j \in DOMAIN inbox'[d] :
               \/ j \in DOMAIN inbox[d] /\ inbox'[d][j] = inbox[d][j]
               \/ inbox'[d][j].n = sent[d] + 1
      BY <1>0, <1>4, SendIndices
    <2>2. i \in Echo(d) /\ (n \in Waiting(d) \/ n = sent[d] + 1)
      BY <2>1 DEF Echo, Waiting
    <2>3. outlog[d][i].n \in Nat /\ outlog[d][i].n <= sent[d]
      <3>1. i \in DOMAIN outlog[d]
        BY <2>2 DEF Echo
      <3> QED
        BY <1>0, <2>2, <3>1, Numbers DEF EchoOrder
    <2> QED
      BY <1>1, <2>1, <2>2, <2>3
  <1>5. CASE Sent /\ d = cur
    <2>1. /\ inbox' = inbox
          /\ \A j \in DOMAIN outlog'[d] :
               \/ j \in DOMAIN outlog[d] /\ outlog'[d][j] = outlog[d][j]
               \/ outlog'[d][j].type = "MESSAGE" => pc = "reply" /\ outlog'[d][j] = packet
      BY <1>0, <1>5, EchoFacts
    <2>2. n \in Waiting(d)
      BY <2>1 DEF Waiting
    <2>3. CASE i \in Echo(d) /\ outlog'[d][i] = outlog[d][i]
      BY <1>1, <2>2, <2>3
    <2>4. CASE pc = "reply" /\ outlog'[d][i] = packet /\ packet.n # Garbled
      BY <1>5, <2>2, <2>4 DEF ReplyBetween
    <2> QED
      BY <2>1, <2>3, <2>4 DEF Echo
  <1>6. CASE Sent /\ d # cur
    BY <1>0, <1>2, <1>6, EchoFacts
  <1>7. CASE Received
    <2>0. PICK c \in readList \ {Listener} : \E k \in Prefixes(inbox[c]) : Take(c, k)
      BY <1>7 DEF Received, ReceiveMessage, ReceiveMisread
    <2>1. PICK k \in Prefixes(inbox[c]) : Take(c, k)
      BY <2>0
    <2>2. outlog' = outlog /\ (c # d => inbox'[d] = inbox[d])
      BY <1>0, <2>1, TakeFacts
    <2> QED
      BY <1>2, <1>3, <2>1, <2>2
  <1>8. CASE \E c \in Client : ClientSend(c)
    <2>1. PICK c \in Client : ClientSend(c)
      BY <1>8
    <2>2. outlog' = outlog /\ (c # d => inbox'[d] = inbox[d])
      BY <1>0, <2>1, SendFacts
    <2> QED
      BY <1>2, <1>4, <2>1, <2>2
  <1>9. CASE Silent
    BY <1>2, <1>9 DEF Silent
  <1> QED
    BY <1>5, <1>6, <1>7, <1>8, <1>9, StepKinds

(* The frame a receive begins with becomes the reply: it was the first to  *)
(* wait, so it is behind the echoes and before the frames that are left.   *)
LEMMA ReplyBetweenStep ==
  IInv /\ EchoOrder /\ InOrder /\ EchoBehind /\ ReplyBetween /\ Next => ReplyBetween'
  <1> SUFFICES ASSUME IInv, EchoOrder, InOrder, EchoBehind, ReplyBetween, Next,
                      pc' = "reply", packet'.n # Garbled
               PROVE  /\ packet'.n <= sent'[cur']
                      /\ \A i \in Echo(cur)' : outlog'[cur'][i].n < packet'.n
                      /\ \A n \in Waiting(cur)' : packet'.n < n
    BY DEF ReplyBetween, Garbled
  <1>0. TypeOK /\ readList \ {Listener} \subseteq Client
    BY DEF IInv, TypeOK, ThreadTypes
  <1>1. ASSUME UNCHANGED <<pc, packet, cur>>
        PROVE  /\ packet.n \in Nat /\ cur \in Client
               /\ packet.n <= sent[cur]
               /\ \A i \in Echo(cur) : outlog[cur][i].n < packet.n
               /\ \A n \in Waiting(cur) : packet.n < n
    <2>1. packet \in Packet /\ cur \in Client
      BY <1>0, <1>1 DEF TypeOK, ThreadTypes, Handling
    <2> QED
      BY <1>1, <2>1, ServerAssumption DEF ReplyBetween, Packet
  <1>2. CASE UNCHANGED <<pc, packet, cur, inbox, outlog, sent>>
    BY <1>1, <1>2 DEF Echo, Waiting
  <1>3. ASSUME NEW c \in Client, ClientSend(c)
        PROVE  /\ packet'.n <= sent'[cur']
               /\ \A i \in Echo(cur)' : outlog'[cur'][i].n < packet'.n
               /\ \A n \in Waiting(cur)' : packet'.n < n
    <2>1. /\ UNCHANGED <<pc, packet, cur, outlog>>
          /\ c # cur => inbox'[cur] = inbox[cur] /\ sent'[cur] = sent[cur]
          /\ c = cur => sent'[cur] = sent[cur] + 1
          /\ c = cur => \A j \in DOMAIN inbox'[cur] :
               \/ j \in DOMAIN inbox[cur] /\ inbox'[cur][j] = inbox[cur][j]
               \/ inbox'[cur][j].n = sent[cur] + 1
      <3>1. UNCHANGED <<pc, packet, cur, outlog>>
        BY <1>0, <1>3, SendFacts
      <3>2. cur \in Client
        BY <1>1, <3>1
      <3>3. CASE c # cur
        BY <1>0, <1>3, <3>1, <3>2, <3>3, SendFacts
      <3>4. CASE c = cur
        <4>1. sent'[cur] = sent[cur] + 1
          BY <1>0, <1>3, <3>4, SendFacts
        <4>2. \A j \in DOMAIN inbox'[c] :
               \/ j \in DOMAIN inbox[c] /\ inbox'[c][j] = inbox[c][j]
               \/ inbox'[c][j].n = sent[c] + 1
          BY <1>0, <1>3, SendIndices
        <4> QED
          BY <3>1, <3>4, <4>1, <4>2
      <3> QED
        BY <3>1, <3>3, <3>4
    <2>2. sent[cur] \in Nat /\ packet.n \in Nat
      BY <1>0, <1>1, <2>1, Numbers
    <2>3. \A n \in Waiting(cur)' : n \in Waiting(cur) \/ n = sent[cur] + 1
      BY <2>1 DEF Waiting
    <2>4. Echo(cur)' = Echo(cur)
      BY <2>1 DEF Echo
    <2> QED
      BY <1>1, <2>1, <2>2, <2>3, <2>4
  <1>4. ASSUME NEW c \in Client, NEW k \in Prefixes(inbox[c]), Take(c, k),
               inbox[c][1].part = "head", packet' = Message(c, inbox[c][1].n), cur' = c
        PROVE  /\ packet'.n <= sent'[cur']
               /\ \A i \in Echo(cur)' : outlog'[cur'][i].n < packet'.n
               /\ \A n \in Waiting(cur)' : packet'.n < n
    <2>1. /\ UNCHANGED <<outlog, sent>> /\ 1 \in DOMAIN inbox[c]
          /\ \A j \in DOMAIN inbox'[c] : /\ j + k \in DOMAIN inbox[c] /\ 1 < j + k
                                         /\ inbox'[c][j] = inbox[c][j + k]
      BY <1>0, <1>4, TakeIndices
    <2>2. packet'.n = inbox[c][1].n /\ packet'.n \in Waiting(c)
      BY <1>4, <2>1 DEF Message, Waiting
    <2>3. packet'.n <= sent[c]
      BY <2>1, <2>2 DEF InOrder
    <2>4. \A i \in Echo(c) : outlog[c][i].n < packet'.n
      BY <2>2 DEF EchoBehind
    <2>5. ASSUME NEW n \in Waiting(c)' PROVE packet'.n < n
      <3>1. PICK j \in DOMAIN inbox'[c] : inbox'[c][j].part = "head" /\ n = inbox'[c][j].n
        BY DEF Waiting
      <3>2. j + k \in DOMAIN inbox[c] /\ 1 < j + k /\ inbox[c][j + k].part = "head"
            /\ n = inbox[c][j + k].n
        BY <2>1, <3>1
      <3> QED
        BY <2>1, <2>2, <3>2 DEF InOrder
    <2>6. Echo(c)' = Echo(c)
      BY <2>1 DEF Echo
    <2>7. /\ packet'.n <= sent'[c]
          /\ \A i \in Echo(c)' : outlog'[c][i].n < packet'.n
          /\ \A n \in Waiting(c)' : packet'.n < n
      BY <2>1, <2>3, <2>4, <2>5, <2>6
    <2> QED
      BY <1>4, <2>7 DEF Echo, Waiting
  <1>5. CASE Received
    <2>0. PICK c \in readList \ {Listener} : \E k \in Prefixes(inbox[c]) :
            ReceiveMessage(c, k) \/ ReceiveMisread(c, k)
      BY <1>5 DEF Received
    <2>1. PICK k \in Prefixes(inbox[c]) : ReceiveMessage(c, k) \/ ReceiveMisread(c, k)
      BY <2>0
    <2>2. c \in Client /\ Take(c, k) /\ pc = "dispatch"
      BY <1>0, <2>1 DEF ReceiveMessage, ReceiveMisread, Take
    <2>3. /\ inbox[c][1].part = "head"
          /\ packet' = Message(c, inbox[c][1].n) /\ cur' = c
      <3>1. CASE ReceiveMessage(c, k)
        <4>1. inbox[c] \in Seq(Piece) /\ k \in 1 .. Len(inbox[c])
          BY <1>0, <2>2 DEF TypeOK, LinkTypes, Prefixes
        <4>2. SubSeq(inbox[c], 1, k)[1] = inbox[c][1]
          BY <4>1
        <4> QED
          BY <3>1, <4>2 DEF ReceiveMessage, BeginsWithFrame, PacketHandler, Message
      <3>2. CASE ReceiveMisread(c, k)
        BY <2>2, <3>2 DEF ReceiveMisread, PacketHandler, Message, Garbled
      <3> QED
        BY <2>1, <3>1, <3>2
    <2> QED
      BY <1>4, <2>2, <2>3
  <1>6. CASE Sent
    BY <1>6 DEF Sent
  <1>7. CASE Silent
    BY <1>2, <1>7 DEF Silent
  <1> QED
    BY <1>3, <1>5, <1>6, <1>7, StepKinds

LEMMA InitOrderInv == Init => OrderInv
  <1> SUFFICES ASSUME Init PROVE OrderInv
    OBVIOUS
  <1>1. IInv
    BY InitIInv
  <1>2. /\ \A c \in Client : inbox[c] = <<>> /\ outlog[c] = <<>>
        /\ ~misread /\ pc # "reply" /\ cut = {}
    BY DEF Init
  <1> QED
    BY <1>1, <1>2
       DEF OrderInv, EchoOrder, Echo, InOrder, EchoBehind, ReplyBetween,
           WholeFramesRead, WholeFrames, Alternate

LEMMA NextOrderInv == OrderInv /\ [Next]_vars => OrderInv'
  <1> SUFFICES ASSUME OrderInv, [Next]_vars PROVE OrderInv'
    OBVIOUS
  <1> USE DEF OrderInv
  <1>1. CASE Next
    BY <1>1, NextIInv, EchoOrderStep, InOrderStep, EchoBehindStep, ReplyBetweenStep,
       WholeFramesReadStep, WholeFramesStep
  <1>2. CASE UNCHANGED vars
    <2>1. IInv'
      BY <1>2, NextIInv
    <2> QED
      BY <1>2, <2>1
         DEF vars, linkVars, threadVars, EchoOrder, Echo, InOrder, EchoBehind, Waiting,
             ReplyBetween, WholeFramesRead, WholeFrames, Alternate
  <1> QED
    BY <1>1, <1>2

(* The numbers of frames, replies and echoes always follow each other.     *)
THEOREM OrderInvariance == Spec => []OrderInv
  BY InitOrderInv, NextOrderInv, PTL DEF Spec

(* What a client gets back from Packet_Message is its own, in its order    *)
(* and none twice, for any number of clients and messages and however TCP  *)
(* cuts and joins the frames.                                              *)
THEOREM EchoesInOrder == Spec => []EchoOrder
  <1>1. OrderInv => EchoOrder
    BY DEF OrderInv
  <1> QED
    BY <1>1, OrderInvariance, PTL

(* Until a frame has been cut, CMessagePacket::Read never reads in the     *)
(* middle of one, however many frames a receive swallows, for any size of  *)
(* the buffer; and only TCP or a full buffer cuts one.                     *)
THEOREM WholeFramesAreRead == Spec => []WholeFramesRead
  <1>1. OrderInv => WholeFramesRead
    BY DEF OrderInv
  <1> QED
    BY <1>1, OrderInvariance, PTL

(* The contract of EchoLink.  A step that concerns none of a connection's  *)
(* variables stutters; one that moves its socket on accepts or hangs up.   *)
LEMMA LinkQuiet ==
  ASSUME NEW c \in Client, UNCHANGED <<peer[c], outlog[c], rd[c], sent[c]>>,
         \/ sock'[c] = sock[c]
         \/ sock[c] = "queued" /\ sock'[c] = "open"
         \/ sock[c] \in {"queued", "open"} /\ sock'[c] = "closed"
  PROVE  [EL(c)!Next]_(EL(c)!vars)
  <1>1. CASE sock'[c] = sock[c] \/ (sock[c] = "queued" /\ sock'[c] = "open")
    BY <1>1 DEF EL!vars
  <1>2. CASE sock[c] \in {"queued", "open"} /\ sock'[c] = "closed"
    <2>1. EL(c)!HangUp
      BY <1>2 DEF EL!HangUp
    <2> QED
      BY <2>1 DEF EL!Next, EL!ServerStep
  <1> QED
    BY <1>1, <1>2

(* A packet that is sent: the log grows, and the client's end stays what   *)
(* it is for the contract, closed when the send meets a close.             *)
LEMMA LinkSent ==
  ASSUME IInv, NEW p \in Packet, SendBytes(p), cur \in Client
  PROVE  /\ \A c \in Client \ {cur} : UNCHANGED <<peer[c], outlog[c], rd[c], sent[c]>>
         /\ UNCHANGED <<rd, sent>> /\ outlog'[cur] = Append(outlog[cur], p)
         /\ peer'[cur] = peer[cur] \/ (peer[cur] = "fin" /\ peer'[cur] = "reset")
  BY DEF IInv, TypeOK, LinkTypes, SendBytes

LEMMA LinkAdmit == ASSUME IInv, Admit, NEW c \in Client PROVE [EL(c)!Next]_(EL(c)!vars)
  <1> DEFINE p == Verdict(cur, "ACCEPT")
  <1>1. cur \in Client /\ p \in Packet /\ SendBytes(p) /\ UNCHANGED sock /\ pc = "admit"
    BY ServerAssumption DEF Admit, IInv, TypeOK, ThreadTypes, Handling, Verdict, Packet
  <1> HIDE DEF p
  <1>2. CASE c # cur
    BY <1>1, <1>2, LinkSent, LinkQuiet
  <1>3. CASE c = cur
    <2>1. outlog[c] = <<>> /\ sock[c] = "open"
      BY <1>1, <1>3 DEF IInv, Connections, LiveSockets
    <2>2. outlog'[c] = <<p>>
      BY <1>1, <1>3, <2>1, LinkSent
    <2>3. p = EL(c)!Packet("ACCEPT", 0)
      BY <1>3 DEF p, Verdict, EL!Packet
    <2>4. EL(c)!Accept
      BY <1>1, <1>3, <2>1, <2>2, <2>3, LinkSent DEF EL!Accept
    <2> QED
      BY <2>4 DEF EL!Next, EL!ServerStep
  <1> QED
    BY <1>2, <1>3

LEMMA LinkKick == ASSUME IInv, Kick, NEW c \in Client PROVE [EL(c)!Next]_(EL(c)!vars)
  <1> DEFINE p == Verdict(cur, "KICK")
  <1>1. /\ cur \in Client /\ p \in Packet /\ SendBytes(p) /\ pc = "kick"
        /\ sock' = [sock EXCEPT ![cur] = "closed"]
    BY ServerAssumption DEF Kick, IInv, TypeOK, ThreadTypes, Handling, Verdict, Packet
  <1>2. sock'[c] = IF c = cur THEN "closed" ELSE sock[c]
    BY <1>1 DEF IInv, TypeOK, LinkTypes
  <1> HIDE DEF p
  <1>3. CASE c # cur
    BY <1>1, <1>2, <1>3, LinkSent, LinkQuiet
  <1>4. CASE c = cur
    <2>1. outlog[c] = <<>> /\ sock[c] = "open"
      BY <1>1, <1>4 DEF IInv, Connections, LiveSockets
    <2>2. outlog'[c] = <<p>>
      BY <1>1, <1>4, <2>1, LinkSent
    <2>3. p = EL(c)!Packet("KICK", 0)
      BY <1>4 DEF p, Verdict, EL!Packet
    <2>4. EL(c)!Kick
      BY <1>1, <1>2, <1>4, <2>1, <2>2, <2>3, LinkSent DEF EL!Kick
    <2> QED
      BY <2>4 DEF EL!Next, EL!ServerStep
  <1> QED
    BY <1>3, <1>4

LEMMA LinkReply ==
  ASSUME OrderInv, Packet_Message, NEW c \in Client PROVE [EL(c)!Next]_(EL(c)!vars)
  <1>1. /\ IInv /\ cur \in Client /\ packet \in Packet /\ SendBytes(packet)
        /\ UNCHANGED sock /\ pc = "reply"
    BY DEF Packet_Message, OrderInv, IInv, TypeOK, ThreadTypes, Handling
  <1>2. CASE c # cur
    BY <1>1, <1>2, LinkSent, LinkQuiet
  <1>3. CASE c = cur
    <2>1. /\ cur \in clients /\ packet.type = "MESSAGE" /\ packet.from = c
          /\ sock[c] = "open" /\ outlog[c] # <<>> /\ outlog[c][1].type = "ACCEPT"
      BY <1>1, <1>3 DEF IInv, Round, LiveSockets, VerdictFirst
    <2>2. /\ outlog'[c] = Append(outlog[c], packet) /\ UNCHANGED <<rd, sent>>
          /\ peer'[c] = peer[c] \/ (peer[c] = "fin" /\ peer'[c] = "reset")
      BY <1>1, <1>3, LinkSent
    <2>3. packet = EL(c)!Packet("MESSAGE", packet.n)
      BY <1>1, <2>1 DEF Packet, EL!Packet
    <2>4. sent[c] \in Nat /\ packet.n \in Nat
      BY <1>1, Numbers, ServerAssumption DEF Packet, IInv
    <2>5. CASE packet.n = Garbled
      <3>1. EL(c)!MayBeCut
        BY <1>1, <1>3, <2>5
           DEF OrderInv, WholeFramesRead, EL!MayBeCut, EL!LongestFrame, LongestFrame
      <3>2. EL(c)!Echo(0)
        BY <1>1, <2>1, <2>2, <2>3, <2>5, <3>1 DEF EL!Echo, EL!Garbled, Garbled
      <3> QED
        BY <2>4, <3>2 DEF EL!Next, EL!ServerStep
    <2>6. CASE packet.n # Garbled
      <3>1. packet.n \in 1 .. sent[c]
        BY <1>1, <1>3, <2>4, <2>6 DEF OrderInv, ReplyBetween, Garbled
      <3>2. \A i \in DOMAIN outlog[c] : outlog[c][i].type = "MESSAGE" => outlog[c][i].n < packet.n
        <4>1. \A i \in Echo(c) : outlog[c][i].n < packet.n
          BY <1>1, <1>3, <2>6 DEF OrderInv, ReplyBetween
        <4>2. \A i \in DOMAIN outlog[c] : outlog[c][i].type = "MESSAGE" =>
                 i \in Echo(c) \/ outlog[c][i].n = 0
          BY DEF Echo, Garbled
        <4> QED
          BY <2>4, <3>1, <4>1, <4>2
      <3>3. \A m \in EL(c)!Echoed : m < packet.n
        BY <3>2 DEF EL!Echoed
      <3>4. EL(c)!Echo(packet.n)
        BY <1>1, <2>1, <2>2, <2>3, <3>1, <3>3 DEF EL!Echo
      <3>5. packet.n \in 0 .. sent[c]
        BY <2>4, <3>1
      <3> QED
        BY <3>4, <3>5 DEF EL!Next, EL!ServerStep
    <2> QED
      BY <2>5, <2>6
  <1> QED
    BY <1>2, <1>3

(* The steps of a client.                                                  *)
LEMMA LinkClient ==
  ASSUME IInv, NEW c \in Client, NEW d \in Client,
         Connect(d) \/ ClientRead(d) \/ ClientSend(d) \/ ClientClose(d)
  PROVE  [EL(c)!Next]_(EL(c)!vars)
  <1>0. TypeOK
    BY DEF IInv
  <1> USE DEF TypeOK, LinkTypes
  <1>1. CASE c # d
    <2>1. UNCHANGED <<peer[c], outlog[c], rd[c], sent[c], sock[c]>>
      BY <1>0, <1>1 DEF Connect, ClientRead, ClientSend, ClientClose
    <2> QED
      BY <2>1, LinkQuiet
  <1>2. CASE c = d /\ Connect(d)
    <2>1. peer[c] = "none" /\ peer'[c] = "up" /\ sock[c] = "none" /\ sock'[c] = "queued"
      BY <1>0, <1>2 DEF Connect, IInv, Connections
    <2>2. EL(c)!Connect
      BY <1>2, <2>1 DEF Connect, EL!Connect
    <2> QED
      BY <2>2 DEF EL!Next, EL!ClientStep
  <1>3. CASE c = d /\ ClientRead(d)
    <2>1. EL(c)!Read(rd[c] + 1)
      BY <1>0, <1>3 DEF ClientRead, EL!Read
    <2>2. rd[c] + 1 \in rd[c] + 1 .. Len(outlog[c])
      BY <1>0, <1>3 DEF ClientRead
    <2> QED
      BY <2>1, <2>2 DEF EL!Next, EL!ClientStep
  <1>4. CASE c = d /\ ClientSend(d)
    <2>1. sent'[c] = sent[c] + 1
      BY <1>0, <1>4, SendFacts
    <2>2. EL(c)!Send
      BY <1>4, <2>1 DEF ClientSend, EL!Send
    <2> QED
      BY <2>2 DEF EL!Next, EL!ClientStep
  <1>5. CASE c = d /\ ClientClose(d)
    <2>1. peer[c] = "up" /\ peer'[c] \in {"fin", "reset"}
          /\ UNCHANGED <<sock, outlog, rd, sent>>
      BY <1>0, <1>5 DEF ClientClose
    <2>2. EL(c)!Close
      BY <2>1 DEF EL!Close
    <2> QED
      BY <2>2 DEF EL!Next, EL!ClientStep
  <1> QED
    BY <1>1, <1>2, <1>3, <1>4, <1>5

(* Every step of the server is a step of the contract with every client.   *)
LEMMA ContractStep ==
  ASSUME OrderInv, [Next]_vars, NEW c \in Client PROVE [EL(c)!Next]_(EL(c)!vars)
  <1>0. IInv /\ TypeOK
    BY DEF OrderInv, IInv
  <1>1. CASE Admit \/ Kick \/ Packet_Message
    BY <1>0, <1>1, LinkAdmit, LinkKick, LinkReply
  <1>2. CASE Clients
    BY <1>0, <1>2, LinkClient DEF Clients
  <1>3. ASSUME UNCHANGED <<peer, outlog, rd, sent>>,
               \/ sock'[c] = sock[c]
               \/ sock[c] = "queued" /\ sock'[c] = "open"
               \/ sock[c] \in {"queued", "open"} /\ sock'[c] = "closed"
        PROVE  [EL(c)!Next]_(EL(c)!vars)
    BY <1>3, LinkQuiet
  <1>4. CASE Accept
    <2>1. Head(backlog) \in Client /\ sock[Head(backlog)] = "queued"
      BY <1>0, <1>4, AcceptFacts, BacklogTail DEF IInv, Connections
    <2>2. sock'[c] = IF c = Head(backlog) THEN "open" ELSE sock[c]
      BY <1>0, <1>4, <2>1 DEF Accept, TypeOK, LinkTypes
    <2> QED
      BY <1>3, <1>4, <2>1, <2>2 DEF Accept
  <1>5. ASSUME ProcessEnds \/ Unwind PROVE [EL(c)!Next]_(EL(c)!vars)
    <2>1. sock[c] \in {"none", "queued", "open", "closed"}
      BY <1>0 DEF TypeOK, LinkTypes
    <2> QED
      BY <1>3, <1>5, <2>1 DEF ProcessEnds, Unwind
  <1>6. CASE EndRound
    <2>1. c \in dropList => sock[c] = "open"
      BY <1>0 DEF TypeOK, ThreadTypes, IInv, LiveSockets
    <2>2. sock'[c] = IF c \in dropList THEN "closed" ELSE sock[c]
      BY <1>6 DEF EndRound
    <2> QED
      BY <1>3, <1>6, <2>1, <2>2 DEF EndRound
  <1>7. CASE Exit
    <2>1. sock'[c] = IF c \in clients \/ sock[c] = "queued" THEN "closed" ELSE sock[c]
      BY <1>7 DEF Exit
    <2>2. c \in clients => sock[c] = "open"
      BY <1>0 DEF IInv, LiveSockets
    <2> QED
      BY <1>3, <1>7, <2>1, <2>2 DEF Exit
  <1>8. ASSUME NEW d \in readList \ {Listener}, NEW k \in Prefixes(inbox[d]),
               ReceiveMessage(d, k) \/ ReceiveMisread(d, k)
        PROVE  [EL(c)!Next]_(EL(c)!vars)
    BY <1>3, <1>8 DEF ReceiveMessage, ReceiveMisread, Take
  <1>9. ASSUME NEW d \in readList \ {Listener}, ReceiveEnd(d)
        PROVE  [EL(c)!Next]_(EL(c)!vars)
    BY <1>3, <1>9 DEF ReceiveEnd, linkVars
  <1>10. CASE Select \/ ConnectHandler \/ DropAll \/ (\E d \in ToErase : Drop(d))
              \/ Operator \/ Close
    BY <1>3, <1>10 DEF Select, ConnectHandler, DropAll, Drop, Operator, Close, linkVars
  <1>11. CASE UNCHANGED vars
    BY <1>3, <1>11 DEF vars, linkVars
  <1> QED
    BY <1>1, <1>2, <1>4, <1>5, <1>6, <1>7, <1>8, <1>9, <1>10, <1>11
       DEF Next, ServerThread, SocketException, LengthException, Overrun, ExitCommand,
           JoinReturns

LEMMA LinkInit == ASSUME Init, NEW c \in Client PROVE EL(c)!Init
  BY DEF Init, EL!Init

(* Towards every one of its clients the server keeps the contract of       *)
(* EchoLink: one verdict, then that client's messages in order.            *)
THEOREM LinkRefinement == Spec => ImplementsEchoLink
  <1>1. Init => \A c \in Client : EL(c)!Init
    BY LinkInit
  <1>2. OrderInv /\ [Next]_vars => [\A c \in Client : [EL(c)!Next]_(EL(c)!vars)]_vars
    BY ContractStep
  <1> QED
    BY <1>1, <1>2, OrderInvariance, PTL DEF Spec, ImplementsEchoLink
===============================================================================
