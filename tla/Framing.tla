-------------------------------- MODULE Framing --------------------------------
(***************************************************************************)
(* The bytes of one message on its way: typed at the client's menu, put    *)
(* into a frame by ListenAction, received by the server and taken out by   *)
(* CMessagePacket, framed again by CMessageSendPacket, received by the     *)
(* client in two pieces and displayed.  A receive may return any part of   *)
(* what was sent, and what is then read of a packet that is not there is   *)
(* left as it was: uninitialised.                                          *)
(*                                                                         *)
(* The FIFOBuffers are those of ByteQueue.  What ends a cut frame leaves   *)
(* in the connection belongs to NetworkServer and ClientNetwork.           *)
(*                                                                         *)
(* Operators marked "Fault" are wrong variants of the one that follows,    *)
(* used only by tests of the properties.                                   *)
(***************************************************************************)
EXTENDS Integers, SequencesExt

CONSTANTS
  Text,        \* what users type: bytes, none of them 0
  Stack,       \* what four uninitialised bytes of a stack may hold
  Heap,        \* what the heap may hold before its next 0
  Beyond,      \* the two bytes behind an array of the heap
  Cut          \* bound: a receive returns so many bytes, or all

Byte == 0 .. 255

MAX_BUFFER_LENGTH == 1024
SzMessageSize == 256
INT_MAX == 2147483647

ASSUME FramingAssumption ==
  /\ Text \subseteq Seq(1 .. 255)
  /\ Stack \subseteq [1 .. 4 -> Byte]
  /\ Heap \subseteq Seq(1 .. 255)
  /\ \A h \in Heap : Len(h) + MAX_BUFFER_LENGTH + 1 <= INT_MAX
  /\ Beyond \subseteq [1 .. 2 -> Byte]
  /\ Cut \subseteq Nat

PACKET_TYPE_KICK == 15
PACKET_TYPE_ACCEPT == 16
PACKET_TYPE_MESSAGE == 17

VARIABLES
  pc,
  text,        \* what was typed
  pResult,     \* the array that PopActionResult hands over
  iResultSize,
  wire,        \* the bytes on the connection
  packetType,  \* the four bytes of the receiver's variable
  iLength,     \* the receiver's, too
  szMessage,   \* the string in the receiver's array
  came,        \* how many bytes each receive of the journey has returned
  queue, cap, eof, error, asked, got, threw  \* the FIFOBuffer at hand

bufferVars == <<queue, cap, eof, error, asked, got, threw>>
frameVars  == <<text, pResult, iResultSize>>
readVars   == <<packetType, iLength, szMessage>>
vars       == <<pc, frameVars, wire, readVars, came, bufferVars>>

Buffer == INSTANCE ByteQueue WITH
  Input <- {}, Length <- {}, Size <- {MAX_BUFFER_LENGTH}

(* An int or an enumeration in memory, and back.                           *)
Bytes(n) == <<n % 256, (n \div 256) % 256, (n \div 65536) % 256, n \div 16777216>>

(* Fault: the other order.                                                 *)
IntOfReversed(b) ==
  b[4] + 256 * b[3] + 65536 * b[2] + 16777216 * (IF b[1] < 128 THEN b[1] ELSE b[1] - 256)

IntOf(b) ==
  b[1] + 256 * b[2] + 65536 * b[3] + 16777216 * (IF b[4] < 128 THEN b[4] ELSE b[4] - 256)

(* s, read into a variable that held old.                                  *)
Over(s, old) == s \o SubSeq(old, Len(s) + 1, Len(old))

(* The string in an array of the heap whose first bytes are s: nobody puts *)
(* a 0 behind them, so it may run on to the first one of the heap.         *)
CString(s, behind) ==
  LET all == s \o behind \o <<0>>
  IN  SubSeq(all, 1, SelectInSeq(all, LAMBDA b : b = 0) - 1)

(* What a receive with room for n bytes may return of s.                   *)
Part(s, n) ==
  LET all == Buffer!Least(Len(s), n)
  IN  {SubSeq(s, 1, k) : k \in {all} \cup {c \in Cut : 0 < c /\ c < all}}

(* Fault: a buffer of the size of the text's array.                        *)
FreshSmall(s) ==
  /\ queue' = s /\ cap' = SzMessageSize
  /\ eof' = FALSE /\ error' = FALSE
  /\ asked' = 0 /\ got' = <<>> /\ threw' = FALSE

(* A new FIFOBuffer, into which s is received.                             *)
Fresh(s) ==
  /\ queue' = s /\ cap' = MAX_BUFFER_LENGTH
  /\ eof' = FALSE /\ error' = FALSE
  /\ asked' = 0 /\ got' = <<>> /\ threw' = FALSE

Init ==
  /\ pc = "menu"
  /\ text = <<>> /\ pResult = <<>> /\ iResultSize = 0
  /\ wire = <<>>
  /\ packetType = Bytes(0) /\ iLength = 0 /\ szMessage = <<>>
  /\ came = [server |-> 0, head |-> 0, body |-> 0]
  /\ queue = <<>> /\ cap = MAX_BUFFER_LENGTH
  /\ eof = FALSE /\ error = FALSE
  /\ asked = 0 /\ got = <<>> /\ threw = FALSE

Goes(here, next) == pc = here /\ pc' = next
-------------------------------------------------------------------------------
(* cin >> szMessage, which stores the text and a 0.                        *)
GetAction(t) ==
  /\ Goes("menu", IF Len(t) + 1 <= SzMessageSize THEN "new" ELSE "overflow")
  /\ text' = t
  /\ pResult' = t \o <<0>>
  /\ iResultSize' = Len(t) + 1
  /\ UNCHANGED <<wire, readVars, came, bufferVars>>

ListenAction ==
  /\ Goes("new", "type")
  /\ iResultSize' = iResultSize + 1
  /\ Fresh(<<>>)
  /\ UNCHANGED <<text, pResult, wire, readVars, came>>

Write(here, s, next) ==
  /\ Goes(here, next)
  /\ Buffer!Write(s)
  /\ UNCHANGED <<frameVars, wire, readVars, came>>

SendBytes(here, next) ==
  /\ Goes(here, next)
  /\ wire' = queue
  /\ Buffer!Drain(0)
  /\ UNCHANGED <<frameVars, readVars, came>>

(* iResultSize + 1 bytes of an array of iResultSize - 1.                   *)
ClientWrites ==
  \/ Write("type", Bytes(PACKET_TYPE_MESSAGE), "length")
  \/ Write("length", Bytes(iResultSize), "body")
  \/ \E b \in Beyond : Write("body", SubSeq(pResult \o b, 1, iResultSize + 1), "sending")
  \/ SendBytes("sending", "sent")

(* The variable holds the type that was last sent or received.             *)
ServerReceives ==
  /\ Goes("sent", "s_type")
  /\ \E s \in Part(wire, MAX_BUFFER_LENGTH) :
       /\ Fresh(s)
       /\ came' = [came EXCEPT !.server = Len(s)]
  /\ packetType' \in {Bytes(t) : t \in {PACKET_TYPE_KICK, PACKET_TYPE_ACCEPT, PACKET_TYPE_MESSAGE}}
  /\ UNCHANGED <<frameVars, wire, iLength, szMessage>>

(* Fault: the type stays in the buffer.                                    *)
ServerTypePeeked ==
  /\ pc = "s_type"
  /\ Buffer!Peek(4)
  /\ packetType' = Over(got', packetType)
  /\ pc' = IF packetType' = Bytes(PACKET_TYPE_MESSAGE) THEN "s_length" ELSE "ignored"
  /\ UNCHANGED <<frameVars, wire, iLength, szMessage, came>>

ServerType ==
  /\ pc = "s_type"
  /\ Buffer!Read(4)
  /\ packetType' = Over(got', packetType)
  /\ pc' = IF packetType' = Bytes(PACKET_TYPE_MESSAGE) THEN "s_length" ELSE "ignored"
  /\ UNCHANGED <<frameVars, wire, iLength, szMessage, came>>

ReadLength(here, next) ==
  /\ Goes(here, next)
  /\ Buffer!Read(4)
  /\ \E old \in Stack : iLength' = IntOf(Over(got', old))
  /\ UNCHANGED <<frameVars, wire, packetType, szMessage, came>>

(* new char[iLength] throws for a negative length, and may for one that no *)
(* packet has.                                                             *)
NewFails(here) ==
  /\ Goes(here, "thrown")
  /\ iLength < 0 \/ iLength > MAX_BUFFER_LENGTH
  /\ UNCHANGED <<frameVars, wire, readVars, came, bufferVars>>

ReadText(here, next) ==
  /\ Goes(here, next)
  /\ iLength >= 0
  /\ Buffer!Read(iLength)
  /\ \E behind \in Heap : szMessage' = CString(got', behind)
  /\ UNCHANGED <<frameVars, wire, packetType, iLength, came>>

ServerReads ==
  \/ ServerType
  \/ ReadLength("s_length", "s_body")
  \/ NewFails("s_body")
  \/ ReadText("s_body", "s_new")

Packet_Message ==
  /\ Goes("s_new", "e_type")
  /\ Fresh(<<>>)
  /\ UNCHANGED <<frameVars, wire, readVars, came>>

(* Fault: the length is that of the text alone.                            *)
ServerWritesShort ==
  \/ Write("e_type", Bytes(PACKET_TYPE_MESSAGE), "e_length")
  \/ Write("e_length", Bytes(Len(szMessage)), "e_body")
  \/ Write("e_body", szMessage \o <<0>>, "e_sending")
  \/ SendBytes("e_sending", "e_sent")

(* Of a text that runs on, the buffer takes what it has room for.          *)
ServerWrites ==
  \/ Write("e_type", Bytes(PACKET_TYPE_MESSAGE), "e_length")
  \/ Write("e_length", Bytes(Len(szMessage) + 1), "e_body")
  \/ Write("e_body", szMessage \o <<0>>, "e_sending")
  \/ SendBytes("e_sending", "e_sent")

(* The first receive of OnUpdate, for the type alone.                      *)
ClientType ==
  /\ Goes("e_sent", "c_rest")
  /\ \E s \in Part(wire, 4), old \in Stack :
       /\ packetType' = Over(s, old)
       /\ wire' = SubSeq(wire, Len(s) + 1, Len(wire))
       /\ came' = [came EXCEPT !.head = Len(s)]
  /\ UNCHANGED <<frameVars, iLength, szMessage, bufferVars>>

(* The second, of a socket that does not block: it may return nothing. An  *)
(* accept falls through to the handling of a message.                      *)
ClientReceives ==
  /\ Goes("c_rest", IF packetType \in {Bytes(PACKET_TYPE_ACCEPT), Bytes(PACKET_TYPE_MESSAGE)}
                    THEN "c_length" ELSE "ignored")
  /\ \E s \in Part(wire, MAX_BUFFER_LENGTH) \cup {<<>>} :
       /\ Fresh(s)
       /\ came' = [came EXCEPT !.body = Len(s)]
  /\ UNCHANGED <<frameVars, wire, readVars>>

ClientReads ==
  \/ ClientType
  \/ ClientReceives
  \/ ReadLength("c_length", "c_body")
  \/ NewFails("c_body")
  \/ ReadText("c_body", "shown")

Next ==
  \/ \E t \in Text : GetAction(t)
  \/ ListenAction
  \/ ClientWrites
  \/ ServerReceives
  \/ ServerReads
  \/ Packet_Message
  \/ ServerWrites
  \/ ClientReads

Spec == Init /\ [][Next]_vars
-------------------------------------------------------------------------------
(* The types of the variables.                                             *)
TypeOK ==
  /\ {text, pResult, wire, szMessage, queue, got} \subseteq Seq(Byte)
  /\ packetType \in [1 .. 4 -> Byte]
  /\ {iResultSize, cap, asked} \subseteq Nat /\ iLength \in Int
  /\ came \in [{"server", "head", "body"} -> 0 .. MAX_BUFFER_LENGTH]
  /\ {eof, error, threw} \subseteq BOOLEAN

(* The server has received the text and its 0.                             *)
TextCame == came.server >= 8 + Len(text) + 1

(* The result of a write to a buffer is ignored at every call, so nobody   *)
(* notices one that is cut short: it happens to no head of a packet, to no *)
(* text of the client's, and to a text of the server's only when it never  *)
(* received the 0 of what was typed.                                       *)
FrameFits ==
  /\ pc \in {"length", "body", "sending", "e_length", "e_body"} => Len(got) = asked
  /\ pc = "e_sending" => Len(got) = asked \/ ~TextCame

(* A text whose frame and echo arrived whole is displayed as it was typed: *)
(* the two bytes too many of the client's frame are never shown, and no    *)
(* uninitialised byte is.                                                  *)
EchoExact ==
  /\ pc = "shown"
  /\ TextCame /\ came.head = 4 /\ came.body >= 4 + Len(text) + 1
  => szMessage = text

(* What arrived of a text, if its frame and its echo were not cut before   *)
(* it begins, is displayed first.                                          *)
CutKeepsPrefix ==
  pc = "shown" /\ came.server >= 8 /\ came.head = 4 /\ came.body >= 4 =>
    LET n == Min({Len(text), came.server - 8, came.body - 4})
    IN  IsPrefix(SubSeq(text, 1, n), szMessage)

(* An array is allocated with a length that no packet has only when a      *)
(* receive ended before the text, or the server's before the text's 0.     *)
LengthIsReal ==
  pc = "thrown" =>
    came.server < 8 \/ (came.head # 0 /\ (came.head < 4 \/ came.body < 4 \/ ~TextCame))
===============================================================================
