------------------------------- MODULE EchoLink -------------------------------
(***************************************************************************)
(* One connection between an echo client and the echo server: the abstract *)
(* specification that both sides keep.  The server answers a connection    *)
(* with one verdict and, after ACCEPT, sends messages of this client back  *)
(* to it, in their order and none twice; it may hang up at any time.  The  *)
(* client reads what it is sent in order, sends while the server listens,  *)
(* and may close at any time.                                              *)
(*                                                                         *)
(* NetworkServer implements this for every connection, and ClientNetwork   *)
(* for the one connection of a client; each relies on the other only       *)
(* through this module.                                                    *)
(***************************************************************************)
EXTENDS Naturals, Sequences

CONSTANTS
  Me,                 \* the connection
  MAX_BUFFER_LENGTH,  \* the bytes the server takes in one receive
  Segmented           \* TCP may cut a frame, so that the server misreads one

(* Bytes of the longest frame a client sends (CClient::ListenAction): type,*)
(* length, 255 characters and three more.                                  *)
LongestFrame == 266

VARIABLES
  srv,         \* the server's end: "none", "open", "closed"
  cli,         \* the client's end: "none", "up", "closed"
  log,         \* every packet the server has sent
  rd,          \* how many of them the client has read
  sent         \* how many messages have left the client

vars == <<srv, cli, log, rd, sent>>

Garbled == 0   \* the number of a text that no client has sent

Packet(type, n) == [type |-> type, from |-> Me, n |-> n]

Packets == [type : {"ACCEPT", "KICK", "MESSAGE"}, from : {Me}, n : Nat]

Init ==
  /\ srv = "none" /\ cli = "none"
  /\ log = <<>> /\ rd = 0 /\ sent = 0

Connect ==
  /\ srv = "none"
  /\ srv' = "open" /\ cli' = "up"
  /\ UNCHANGED <<log, rd, sent>>

Accept ==
  /\ srv = "open" /\ log = <<>>
  /\ log' = <<Packet("ACCEPT", 0)>>
  /\ UNCHANGED <<srv, cli, rd, sent>>

Kick ==
  /\ srv = "open" /\ log = <<>>
  /\ log' = <<Packet("KICK", 0)>>
  /\ srv' = "closed"
  /\ UNCHANGED <<cli, rd, sent>>

(* The numbers of the client's own messages that have come back.           *)
Echoed == {log[i].n : i \in {j \in DOMAIN log : log[j].type = "MESSAGE"}}

(* The server may have had a part of a frame before it: TCP cut one, or    *)
(* the client has sent more than the server takes in one receive.          *)
MayBeCut == Segmented \/ sent * LongestFrame > MAX_BUFFER_LENGTH

Echo(n) ==
  /\ srv = "open"
  /\ log # <<>> /\ log[1].type = "ACCEPT"
  /\ \/ n = Garbled /\ MayBeCut
     \/ n \in 1 .. sent /\ \A m \in Echoed : m < n
  /\ log' = Append(log, Packet("MESSAGE", n))
  /\ UNCHANGED <<srv, cli, rd, sent>>

HangUp ==
  /\ srv = "open"
  /\ srv' = "closed"
  /\ UNCHANGED <<cli, log, rd, sent>>

ServerStep == Accept \/ Kick \/ (\E n \in 0 .. sent : Echo(n)) \/ HangUp

Read(r) ==
  /\ cli = "up"
  /\ r \in rd + 1 .. Len(log)
  /\ rd' = r
  /\ UNCHANGED <<srv, cli, log, sent>>

Send ==
  /\ cli = "up" /\ srv = "open"
  /\ sent' = sent + 1
  /\ UNCHANGED <<srv, cli, log, rd>>

Close ==
  /\ cli = "up"
  /\ cli' = "closed"
  /\ UNCHANGED <<srv, log, rd, sent>>

ClientStep == Connect \/ (\E r \in rd + 1 .. Len(log) : Read(r)) \/ Send \/ Close

Next == ServerStep \/ ClientStep

Spec == Init /\ [][Next]_vars

(* What the contract comes to, for whoever relies on it: the server judges *)
(* a connection once, first, and says nothing to a client that it kicked;  *)
(* the texts that come back are the client's own, in the order in which    *)
(* they left it, none of them twice and, as long as no frame can have been *)
(* cut, none that it did not send; and nobody reads what was not sent.     *)
OneVerdict ==
  /\ \A i \in DOMAIN log : log[i].type # "MESSAGE" <=> i = 1
  /\ \A i \in DOMAIN log : log[i].type = "KICK" => Len(log) = 1 /\ srv = "closed"

OwnTextsInOrder ==
  \A i, j \in DOMAIN log :
    /\ log[i].n \in 0 .. sent
    /\ log[i].type = "MESSAGE" /\ log[i].n = Garbled => MayBeCut
    /\ i < j /\ log[j].n # Garbled => log[i].n < log[j].n

ReadWhatWasSent ==
  /\ rd \in 0 .. Len(log)
  /\ srv = "none" => cli = "none" /\ log = <<>> /\ sent = 0

Contract == OneVerdict /\ OwnTextsInOrder /\ ReadWhatWasSent

(* Nothing that was said or read is taken back, and the server's end, once *)
(* closed, stays closed and silent.                                        *)
NothingTakenBack ==
  /\ Len(log) <= Len(log') /\ rd <= rd' /\ sent <= sent'
  /\ \A i \in DOMAIN log : log'[i] = log[i]
  /\ srv = "closed" => srv' = "closed" /\ log' = log /\ sent' = sent
  /\ cli = "closed" => cli' = "closed" /\ rd' = rd /\ sent' = sent
===============================================================================
