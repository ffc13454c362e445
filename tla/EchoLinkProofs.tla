---------------------------- MODULE EchoLinkProofs ----------------------------
(***************************************************************************)
(* What whoever relies on the contract between the server and its clients  *)
(* may conclude from it, whatever keeps it.                                *)
(***************************************************************************)
EXTENDS EchoLink, SequenceTheorems, TLAPS

Types ==
  /\ srv \in {"none", "open", "closed"}
  /\ cli \in {"none", "up", "closed"}
  /\ log \in Seq(Packets)
  /\ rd \in Nat /\ sent \in Nat

(* A verdict carries no text.                                              *)
Verdicts == \A i \in DOMAIN log : log[i].type # "MESSAGE" => log[i].n = 0

IInv == Types /\ Contract /\ Verdicts

(* The size of the server's buffer is a number of bytes.                   *)
BufferSize == MAX_BUFFER_LENGTH \in Nat

(* What may have been cut stays so.                                        *)
LEMMA CutMayStay ==
  ASSUME BufferSize, sent \in Nat, sent' \in {sent, sent + 1}, MayBeCut
  PROVE  MayBeCut'
  <1>1. CASE Segmented
    BY <1>1 DEF MayBeCut
  <1>2. CASE sent * 266 > MAX_BUFFER_LENGTH
    <2>1. (sent + 1) * 266 = sent * 266 + 266 /\ sent * 266 \in Nat
      OBVIOUS
    <2>2. MAX_BUFFER_LENGTH \in Nat
      BY DEF BufferSize
    <2>3. sent' * 266 = sent * 266 \/ sent' * 266 = sent * 266 + 266
      BY <2>1
    <2> HIDE DEF BufferSize
    <2>4. \A x, y \in Nat : x > y => x + 266 > y
      OBVIOUS
    <2>5. sent' * 266 > MAX_BUFFER_LENGTH
      BY ONLY <1>2, <2>1, <2>2, <2>3, <2>4
    <2> QED  BY <2>5 DEF MayBeCut, LongestFrame
  <1> QED  BY <1>1, <1>2 DEF MayBeCut, LongestFrame

(* Appending a packet keeps the others where they are.                     *)
LEMMA AppendFacts ==
  ASSUME NEW s \in Seq(Packets), NEW p \in Packets, NEW t, t = Append(s, p)
  PROVE  /\ t \in Seq(Packets) /\ Len(t) = Len(s) + 1 /\ Len(s) \in Nat
         /\ DOMAIN s = 1 .. Len(s) /\ DOMAIN t = 1 .. Len(s) + 1
         /\ \A i \in 1 .. Len(s) : t[i] = s[i] /\ s[i] \in Packets
         /\ t[Len(s) + 1] = p
  OBVIOUS

(* An empty log has no place, and the first packet makes the only one.     *)
LEMMA FirstFacts ==
  ASSUME NEW p \in Packets, NEW t, t = << p >>
  PROVE  t \in Seq(Packets) /\ Len(t) = 1 /\ DOMAIN t = {1} /\ t[1] = p
  OBVIOUS

(* The link begins with nothing said.                                      *)
LEMMA InitIInv == Init => IInv
  BY DEF Init, IInv, Types, Verdicts, Contract, OneVerdict, OwnTextsInOrder,
         ReadWhatWasSent

(* The server's verdict is the first packet and takes a connection that    *)
(* is open; the kick closes it.                                            *)
LEMMA VerdictStep ==
  ASSUME BufferSize, IInv, Accept \/ Kick
  PROVE  IInv'
  <1> USE DEF Packet
  <1>1. PICK p \in {Packet("ACCEPT", 0), Packet("KICK", 0)} :
          log' = << p >> /\ (p.type = "KICK" => srv' = "closed")
    BY DEF Accept, Kick
  <1>2. p \in Packets /\ p.n = 0 /\ p.type \in {"ACCEPT", "KICK"}
    BY <1>1 DEF Packets
  <1>3. log' \in Seq(Packets) /\ Len(log') = 1 /\ DOMAIN log' = {1} /\ log'[1] = p
    BY <1>1, <1>2, FirstFacts
  <1>4. /\ srv = "open" /\ srv' \in {"open", "closed"} /\ log = <<>>
        /\ cli' = cli /\ rd' = rd /\ sent' = sent
    BY DEF Accept, Kick
  <1>5. Types'
    BY <1>3, <1>4 DEF IInv, Types
  <1>6. rd = 0
    BY <1>4 DEF IInv, Types, Contract, ReadWhatWasSent
  <1>7. OneVerdict'
    BY <1>1, <1>2, <1>3 DEF OneVerdict
  <1>8. OwnTextsInOrder'
    BY <1>2, <1>3, <1>4 DEF OwnTextsInOrder, IInv, Types
  <1>9. ReadWhatWasSent'
    BY <1>3, <1>4, <1>6 DEF ReadWhatWasSent
  <1>10. Verdicts'
    BY <1>2, <1>3 DEF Verdicts
  <1> QED
    BY <1>5, <1>7, <1>8, <1>9, <1>10 DEF IInv, Contract

(* An echo comes behind a verdict that was ACCEPT and behind every echo    *)
(* of an earlier text.                                                     *)
LEMMA EchoStep ==
  ASSUME BufferSize, IInv, NEW n \in 0 .. sent, Echo(n)
  PROVE  IInv'
  <1> DEFINE p == Packet("MESSAGE", n)
  <1>1. p \in Packets /\ p.n = n /\ p.type = "MESSAGE"
    BY DEF Packets, Packet, IInv, Types
  <1>2. log' = Append(log, p) /\ srv = "open" /\ log # <<>> /\ log[1].type = "ACCEPT"
    BY DEF Echo
  <1>3. srv' = srv /\ cli' = cli /\ rd' = rd /\ sent' = sent
    BY DEF Echo
  <1>4. log \in Seq(Packets) /\ sent \in Nat /\ rd \in Nat
    BY DEF IInv, Types
  <1> HIDE DEF p
  <1>5. /\ log' \in Seq(Packets) /\ Len(log') = Len(log) + 1 /\ Len(log) \in Nat
        /\ DOMAIN log = 1 .. Len(log) /\ DOMAIN log' = 1 .. Len(log) + 1
        /\ \A i \in 1 .. Len(log) : log'[i] = log[i] /\ log[i] \in Packets
        /\ log'[Len(log) + 1] = p
    BY <1>1, <1>2, <1>4, AppendFacts
  <1>6. Len(log) >= 1
    BY <1>2, <1>4
  <1>7. Types'
    BY <1>3, <1>5 DEF IInv, Types
  <1>8. OneVerdict'
    <2>1. \A i \in 1 .. Len(log) : log[i].type # "MESSAGE" <=> i = 1
      BY <1>5 DEF IInv, Contract, OneVerdict
    <2>2. \A i \in 1 .. Len(log) : log[i].type # "KICK"
      BY <1>2, <1>5, <2>1 DEF Packets
    <2> QED
      BY <1>1, <1>5, <1>6, <2>1, <2>2 DEF OneVerdict
  <1>9. OwnTextsInOrder'
    <2>1. (n = Garbled => MayBeCut') /\ (MayBeCut => MayBeCut')
      BY <1>3 DEF Echo, Garbled, MayBeCut
    <2>2. \A i \in 1 .. Len(log) : n # Garbled => log[i].n < n
      <3> SUFFICES ASSUME NEW i \in 1 .. Len(log), n # Garbled
                   PROVE  log[i].n < n
        OBVIOUS
      <3>1. n \in 1 .. sent /\ \A m \in Echoed : m < n
        BY DEF Echo
      <3>2. CASE log[i].type = "MESSAGE"
        BY <1>5, <3>1, <3>2 DEF Echoed
      <3>3. CASE log[i].type # "MESSAGE"
        BY <1>4, <1>5, <3>1, <3>3 DEF IInv, Verdicts
      <3> QED
        BY <3>2, <3>3
    <2>3. \A i, j \in 1 .. Len(log) :
            /\ log[i].n \in 0 .. sent
            /\ log[i].type = "MESSAGE" /\ log[i].n = Garbled => MayBeCut'
            /\ i < j /\ log[j].n # Garbled => log[i].n < log[j].n
      BY <1>5, <2>1 DEF IInv, Contract, OwnTextsInOrder
    <2>4. \A i \in DOMAIN log' : i \in 1 .. Len(log) \/ i = Len(log) + 1
      BY <1>5
    <2> SUFFICES ASSUME NEW i \in DOMAIN log', NEW j \in DOMAIN log'
                 PROVE  /\ log'[i].n \in 0 .. sent
                        /\ log'[i].type = "MESSAGE" /\ log'[i].n = Garbled => MayBeCut'
                        /\ i < j /\ log'[j].n # Garbled => log'[i].n < log'[j].n
      BY <1>3 DEF OwnTextsInOrder
    <2>5. CASE i = Len(log) + 1
      <3>1. ~ (i < j)
        BY <1>5, <2>4, <2>5
      <3> QED
        BY <1>1, <1>5, <2>1, <2>5, <3>1
    <2>6. CASE i \in 1 .. Len(log) /\ j = Len(log) + 1
      BY <1>1, <1>5, <2>2, <2>3, <2>6
    <2>7. CASE i \in 1 .. Len(log) /\ j \in 1 .. Len(log)
      BY <1>5, <2>3, <2>7
    <2> QED
      BY <2>4, <2>5, <2>6, <2>7
  <1>10. ReadWhatWasSent'
    BY <1>2, <1>3, <1>4, <1>5 DEF IInv, Contract, ReadWhatWasSent
  <1>11. Verdicts'
    BY <1>1, <1>5 DEF IInv, Verdicts
  <1> QED
    BY <1>7, <1>8, <1>9, <1>10, <1>11 DEF IInv, Contract

(* A step that says nothing.                                               *)
LEMMA OtherStep ==
  ASSUME BufferSize, IInv, UNCHANGED vars \/ HangUp \/ Connect \/ Send \/ Close
               \/ \E r \in rd + 1 .. Len(log) : Read(r)
  PROVE  IInv'
  <1>1. /\ log' = log /\ log \in Seq(Packets)
        /\ sent \in Nat /\ sent' \in {sent, sent + 1}
        /\ rd \in 0 .. Len(log) /\ rd' \in {rd} \cup rd + 1 .. Len(log)
        /\ srv' \in {"none", "open", "closed"} /\ (srv' = "none" => UNCHANGED vars)
        /\ (srv = "closed" => srv' = "closed") /\ cli' \in {"none", "up", "closed"}
    BY DEF IInv, Types, Contract, ReadWhatWasSent, vars, HangUp, Connect, Send,
           Close, Read
  <1>2. Len(log) \in Nat /\ DOMAIN log = 1 .. Len(log) /\ rd' \in 0 .. Len(log)
    BY <1>1
  <1>3. \A i \in DOMAIN log : log[i] \in Packets
    BY <1>1
  <1>4. Types'
    BY <1>1, <1>2 DEF IInv, Types
  <1>5. OneVerdict'
    BY <1>1 DEF IInv, Contract, OneVerdict
  <1>6. OwnTextsInOrder'
    <2>1. MayBeCut => MayBeCut'
      BY <1>1, CutMayStay
    <2> QED
      BY <1>1, <1>3, <2>1 DEF IInv, Contract, OwnTextsInOrder
  <1>7. ReadWhatWasSent'
    BY <1>1, <1>2 DEF IInv, Contract, ReadWhatWasSent, vars
  <1>8. Verdicts'
    BY <1>1 DEF IInv, Verdicts
  <1> QED
    BY <1>4, <1>5, <1>6, <1>7, <1>8 DEF IInv, Contract

(* Every step of either end keeps the conclusions.                         *)
LEMMA NextIInv == BufferSize /\ IInv /\ [Next]_vars => IInv'
  BY VerdictStep, EchoStep, OtherStep DEF Next, ServerStep, ClientStep

(* No step takes anything back.                                            *)
LEMMA KeepStep ==
  ASSUME BufferSize, IInv, [Next]_vars
  PROVE  NothingTakenBack
  <1>1. CASE Accept \/ Kick
    <2>1. log = <<>> /\ srv = "open" /\ rd' = rd /\ sent' = sent /\ cli' = cli
      BY <1>1 DEF Accept, Kick
    <2>2. log' \in Seq(Packets)
      BY <1>1, VerdictStep DEF IInv, Types
    <2> QED
      BY <2>1, <2>2 DEF NothingTakenBack, IInv, Types
  <1>2. CASE \E n \in 0 .. sent : Echo(n)
    <2>1. PICK n \in 0 .. sent : Echo(n)
      BY <1>2
    <2>2. /\ log' = Append(log, Packet("MESSAGE", n)) /\ srv = "open"
          /\ rd' = rd /\ sent' = sent /\ cli' = cli
      BY <2>1 DEF Echo
    <2>3. Packet("MESSAGE", n) \in Packets /\ log \in Seq(Packets)
      BY DEF Packet, Packets, IInv, Types
    <2>4. /\ Len(log') = Len(log) + 1 /\ Len(log) \in Nat /\ DOMAIN log = 1 .. Len(log)
          /\ \A i \in 1 .. Len(log) : log'[i] = log[i]
      BY <2>2, <2>3, AppendFacts
    <2> QED
      BY <2>2, <2>4 DEF NothingTakenBack, IInv, Types
  <1>3. CASE UNCHANGED vars \/ HangUp \/ Connect \/ Send \/ Close
             \/ \E r \in rd + 1 .. Len(log) : Read(r)
    <2>1. /\ log' = log /\ rd <= rd' /\ sent <= sent'
          /\ srv = "closed" => srv' = "closed" /\ sent' = sent
          /\ cli = "closed" => cli' = "closed" /\ rd' = rd /\ sent' = sent
      <3>1. rd \in Nat /\ sent \in Nat
        BY DEF IInv, Types
      <3>2. CASE UNCHANGED vars
        BY <3>1, <3>2 DEF vars
      <3>3. CASE HangUp \/ Connect \/ Close
        <4>1. srv = "none" => cli = "none"
          BY DEF IInv, Contract, ReadWhatWasSent
        <4> QED
          BY <3>1, <3>3, <4>1 DEF HangUp, Connect, Close
      <3>4. CASE Send
        BY <3>1, <3>4 DEF Send
      <3>5. CASE \E r \in rd + 1 .. Len(log) : Read(r)
        BY <3>1, <3>5 DEF Read, IInv, Types
      <3> QED
        BY <1>3, <3>2, <3>3, <3>4, <3>5
    <2>2. Len(log) \in Nat
      BY DEF IInv, Types
    <2> QED
      BY <2>1, <2>2 DEF NothingTakenBack
  <1> QED
    BY <1>1, <1>2, <1>3 DEF Next, ServerStep, ClientStep

(* Whoever keeps the contract keeps this: one verdict, first; the client's *)
(* own texts, in order and none twice; nothing read that was not sent.     *)
THEOREM ContractHolds ==
  ASSUME BufferSize
  PROVE  Spec => []Contract
  <1>1. IInv => Contract
    BY DEF IInv
  <1> QED
    BY <1>1, InitIInv, NextIInv, PTL DEF Spec

(* Nothing that was said or read is taken back, and an end that has closed *)
(* stays closed and silent.                                                *)
THEOREM NothingIsTakenBack ==
  ASSUME BufferSize
  PROVE  Spec => [][NothingTakenBack]_vars
  <1>1. IInv /\ [Next]_vars => [NothingTakenBack]_vars
    BY KeepStep
  <1> QED
    BY <1>1, InitIInv, NextIInv, PTL DEF Spec
===============================================================================
