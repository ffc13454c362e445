---------------------------- MODULE FramingProofs -----------------------------
(***************************************************************************)
(* Proofs about the bytes of one message, for every text that is typed,    *)
(* everything that uninitialised memory may hold and every way in which    *)
(* the receives may be cut.                                                *)
(***************************************************************************)
EXTENDS Framing, SequenceTheorems, WellFoundedInduction, TLAPS

(* The bytes of a text, and the lengths that an int can hold.              *)
Char == 1 .. 255
Held == 0 .. INT_MAX

LEMMA IntMax == INT_MAX \in Nat /\ INT_MAX <= 2147483647 /\ INT_MAX > 1024
  BY DEF INT_MAX

(* Dividing by 256 twice, and three times.                                 *)
LEMMA SecondQuotient ==
  ASSUME NEW n \in Nat
  PROVE  n \div 65536 = (n \div 256) \div 256
  BY SMTT(20)

LEMMA ThirdQuotient ==
  ASSUME NEW n \in Nat
  PROVE  n \div 16777216 = (n \div 65536) \div 256
  BY SMTT(20)

LEMMA TopByte ==
  ASSUME NEW n \in Nat, n <= 2147483647
  PROVE  n \div 16777216 \in 0 .. 127
  BY SMTT(20)

LEMMA Divided ==
  ASSUME NEW n \in Nat
  PROVE  n \div 256 \in Nat /\ n % 256 \in 0 .. 255 /\ n = 256 * (n \div 256) + (n % 256)
  BY SMTT(20)

(* The bytes of n are a, b, c and d, the last one not negative.            *)
Spelt(n, a, b, c, d) ==
  /\ Bytes(n) = <<a, b, c, d>>
  /\ n = a + 256 * b + 65536 * c + 16777216 * d

LEMMA FourBytes ==
  ASSUME NEW n \in Held
  PROVE  \E a, b, c \in 0 .. 255, d \in 0 .. 127 : Spelt(n, a, b, c, d)
<1> DEFINE p == n \div 256
           q == n \div 65536
           t == n \div 16777216
<1>1. n \in Nat /\ n <= 2147483647
  <2>1. n \in Nat /\ n <= INT_MAX
    BY IntMax DEF Held
  <2> QED  BY ONLY <2>1, IntMax
<1>2. Bytes(n) = <<n % 256, p % 256, q % 256, t>>
  BY DEF Bytes
<1>3. q = p \div 256 /\ t = q \div 256 /\ t \in 0 .. 127
  BY ONLY <1>1, SecondQuotient, ThirdQuotient, TopByte
<1> HIDE DEF p, q, t
<1>4. p \in Nat /\ n % 256 \in 0 .. 255 /\ n = 256 * p + (n % 256)
  BY ONLY <1>1, Divided DEF p
<1>5. q \in Nat /\ p % 256 \in 0 .. 255 /\ p = 256 * q + (p % 256)
  <2>1. p \in Nat
    BY ONLY <1>4
  <2>2. p \div 256 \in Nat /\ p % 256 \in 0 .. 255 /\ p = 256 * (p \div 256) + (p % 256)
    BY ONLY <2>1, Divided
  <2> QED  BY ONLY <1>3, <2>2
<1>6. q % 256 \in 0 .. 255 /\ q = 256 * t + (q % 256)
  <2>1. q \in Nat
    BY ONLY <1>5
  <2>2. q \div 256 \in Nat /\ q % 256 \in 0 .. 255 /\ q = 256 * (q \div 256) + (q % 256)
    BY ONLY <2>1, Divided
  <2> QED  BY ONLY <1>3, <2>2
<1> DEFINE a == n % 256
           b == p % 256
           c == q % 256
<1>7. a \in 0 .. 255 /\ b \in 0 .. 255 /\ c \in 0 .. 255 /\ Bytes(n) = <<a, b, c, t>>
  BY <1>2, <1>4, <1>5, <1>6
<1>8. n = 256 * p + a /\ p = 256 * q + b /\ q = 256 * t + c
  BY ONLY <1>4, <1>5, <1>6
<1> HIDE DEF a, b, c
<1>9. n = a + 256 * b + 65536 * c + 16777216 * t
  BY ONLY <1>1, <1>3, <1>4, <1>5, <1>7, <1>8
<1>10. Spelt(n, a, b, c, t)
  BY <1>7, <1>9 DEF Spelt
<1> QED  BY ONLY <1>3, <1>7, <1>10, Zenon

LEMMA SeqOfFour ==
  ASSUME NEW s \in Seq(Byte), Len(s) = 4
  PROVE  s \in [1 .. 4 -> Byte]
  BY LenProperties

LEMMA BytesFacts ==
  ASSUME NEW n \in Held
  PROVE  /\ Bytes(n) \in [1 .. 4 -> Byte] /\ Bytes(n) \in Seq(Byte) /\ Len(Bytes(n)) = 4
         /\ IntOf(Bytes(n)) = n
<1>1. PICK a, b, c \in 0 .. 255, d \in 0 .. 127 : Spelt(n, a, b, c, d)
  BY ONLY n \in Held, FourBytes, Zenon
<1>2. Bytes(n) = <<a, b, c, d>> /\ n = a + 256 * b + 65536 * c + 16777216 * d
  BY <1>1 DEF Spelt
<1>3. d < 128 /\ d \in 0 .. 255
  BY ONLY d \in 0 .. 127
<1>4. IntOf(<<a, b, c, d>>) = n
  BY ONLY <1>2, <1>3 DEF IntOf
<1>5. <<a, b, c, d>> \in Seq(Byte) /\ Len(<<a, b, c, d>>) = 4
  BY ONLY <1>3, a \in 0 .. 255, b \in 0 .. 255, c \in 0 .. 255 DEF Byte
<1>6. <<a, b, c, d>> \in [1 .. 4 -> Byte]
  BY ONLY <1>5, SeqOfFour, SMT
<1>7. Bytes(n) = <<a, b, c, d>>
  BY ONLY <1>2
<1> QED  BY ONLY <1>4, <1>5, <1>6, <1>7

(* The lengths that this module's steps put into packets are among them.   *)
LEMMA SmallHeld ==
  ASSUME NEW n \in Nat, n <= 1024
  PROVE  n \in Held
  BY IntMax DEF Held

LEMMA IntOfInt ==
  ASSUME NEW b \in [1 .. 4 -> Byte]
  PROVE  IntOf(b) \in Int
<1>1. b[1] \in Int /\ b[2] \in Int /\ b[3] \in Int /\ b[4] \in Int
  BY DEF Byte
<1>2. \A x, y, z, w \in Int :
        x + 256 * y + 65536 * z + 16777216 * (IF w < 128 THEN w ELSE w - 256) \in Int
  OBVIOUS
<1> QED  BY <1>1, <1>2 DEF IntOf

LEMMA LeastOf ==
  ASSUME NEW S \in SUBSET Nat, S # {}
  PROVE  Min(S) \in S /\ \A y \in S : Min(S) <= y
<1>1. \E x \in S : \A y \in S : ~(<<y, x>> \in OpToRel(<, Nat))
  BY NatLessThanWellFounded, WFMin
<1>2. \A x, y \in Nat : ~(<<y, x>> \in OpToRel(<, Nat)) => x <= y
  BY DEF OpToRel
<1>3. \E x \in S : \A y \in S : x <= y
  BY <1>1, <1>2
<1> QED  BY <1>3 DEF Min

(* The string in an array: everything up to the first 0.                   *)
LEMMA CStringFacts ==
  ASSUME NEW s \in Seq(Byte), NEW h \in Seq(Char)
  PROVE  LET u == CString(s, h)
         IN  /\ u \in Seq(Char) /\ Len(u) <= Len(s) + Len(h)
             /\ \A i \in 1 .. Len(s) : (\A j \in 1 .. i : s[j] # 0) => i <= Len(u) /\ u[i] = s[i]
             /\ \A i \in 1 .. Len(s) : s[i] = 0 => Len(u) < i
<1> DEFINE all == s \o h \o <<0>>
           I == {i \in 1 .. Len(all) : all[i] = 0}
           m == Min(I)
           u == SubSeq(all, 1, m - 1)
<1>1. /\ all \in Seq(Byte) /\ Len(all) = Len(s) + Len(h) + 1
      /\ all[Len(all)] = 0
      /\ \A i \in 1 .. Len(s) : all[i] = s[i]
  BY DEF Byte, Char
<1>2. Len(all) \in I
  BY <1>1
<1>3. m \in I /\ \A i \in I : m <= i
  <2>1. I \in SUBSET Nat /\ I # {}
    BY <1>1, <1>2
  <2> HIDE DEF I
  <2> QED  BY ONLY <2>1, LeastOf
<1>4. CString(s, h) = u
  BY <1>2 DEF CString, SelectInSeq
<1> HIDE DEF all, m
<1>5. /\ m \in Nat /\ 1 <= m /\ m <= Len(all) /\ all[m] = 0
      /\ \A i \in 1 .. Len(all) : all[i] = 0 => m <= i
  BY <1>3
<1> HIDE DEF I
<1>6. Len(all) \in Nat /\ \A i \in 1 .. Len(all) : all[i] \in Byte
  BY <1>1
<1>7. Len(u) = m - 1 /\ \A i \in 1 .. m - 1 : u[i] = all[i]
  BY <1>1, <1>5, <1>6
<1>8. \A i \in 1 .. m - 1 : all[i] \in Char
  <2>1. \A x \in Byte : x = 0 \/ x \in Char
    BY DEF Byte, Char
  <2>2. \A i \in 1 .. m - 1 : i \in 1 .. Len(all) /\ ~(m <= i)
    BY <1>5, <1>6
  <2> QED  BY <1>5, <1>6, <2>1, <2>2
<1>9. u \in Seq(Char)
  <2>1. u \in Seq(Byte)
    BY <1>1, <1>5, <1>6
  <2>2. Len(u) \in Nat /\ \A i \in 1 .. Len(u) : u[i] \in Char
    BY <1>5, <1>7, <1>8
  <2> HIDE DEF u
  <2>3. u \in [1 .. Len(u) -> Char]
    <3>1. u \in [1 .. Len(u) -> Byte]
      BY <2>1
    <3> QED  BY ONLY <2>2, <3>1
  <2> QED  BY <2>2, <2>3
<1> HIDE DEF u
<1>10. \A i \in 1 .. Len(s) : (\A j \in 1 .. i : s[j] # 0) => i <= Len(u) /\ u[i] = s[i]
  <2> SUFFICES ASSUME NEW i \in 1 .. Len(s), \A j \in 1 .. i : s[j] # 0
               PROVE  i <= Len(u) /\ u[i] = s[i]
    OBVIOUS
  <2>1. ~(m \in 1 .. i)
    <3> SUFFICES ASSUME m \in 1 .. i PROVE FALSE
      OBVIOUS
    <3>1. m \in 1 .. Len(s)
      OBVIOUS
    <3> QED  BY <1>1, <1>5, <3>1
  <2>2. i \in 1 .. m - 1
    BY <1>5, <2>1
  <2> QED  BY <1>1, <1>5, <1>7, <2>2
<1>11. \A i \in 1 .. Len(s) : s[i] = 0 => Len(u) < i
  <2> SUFFICES ASSUME NEW i \in 1 .. Len(s), s[i] = 0 PROVE Len(u) < i
    OBVIOUS
  <2>1. i \in 1 .. Len(all) /\ all[i] = 0
    BY <1>1
  <2> QED  BY <1>5, <1>7, <2>1
<1>12. Len(u) <= Len(s) + Len(h)
  BY <1>1, <1>5, <1>7
<1> QED  BY <1>4, <1>9, <1>10, <1>11, <1>12
-------------------------------------------------------------------------------
(* What makes the properties inductive.  From place o of w on stand the    *)
(* bytes of n, and then those of t and a 0, or as many of them as fit w.   *)
IsBody(w, o, n, t) ==
  /\ Len(w) >= o + 4
  /\ \A i \in 1 .. 4 : w[o + i] = Bytes(n)[i]
  /\ \A i \in 1 .. Len(t) : o + 4 + i <= Len(w) => w[o + 4 + i] = t[i]
  /\ o + 5 + Len(t) <= Len(w) => w[o + 5 + Len(t)] = 0

(* The first k bytes of w have come, and o of them were asked for: q is    *)
(* left.                                                                   *)
Rest(q, w, o, k) ==
  /\ k <= Len(w)
  /\ Len(q) = IF k >= o THEN k - o ELSE 0
  /\ \A i \in 1 .. Len(q) : q[i] = w[o + i]

(* u is what a reader makes of t and its EOS when m bytes of them came.    *)
Keeps(u, t, m) ==
  /\ \A i \in 1 .. Len(t) : i <= m => i <= Len(u) /\ u[i] = t[i]
  /\ m > Len(t) => u = t

ServerPlaces == {"s_type", "s_length", "s_body"}
EchoPlaces == {"s_new", "e_type", "e_length", "e_body", "e_sending", "e_sent"}
DisplayPlaces == {"c_rest", "c_length", "c_body"}

BufferReady ==
  /\ cap = MAX_BUFFER_LENGTH /\ eof = FALSE /\ error = FALSE
  /\ Len(queue) <= MAX_BUFFER_LENGTH

Typed ==
  pc \notin {"menu", "overflow"} =>
    /\ text \in Seq(Char) /\ Len(text) <= 255
    /\ pResult = text \o <<0>>
    /\ iResultSize = Len(text) + (IF pc = "new" THEN 1 ELSE 2)

(* The client's frame.                                                     *)
ClientFrame ==
  /\ pc = "type" => queue = <<>>
  /\ pc = "length" => Len(queue) = 4
  /\ pc = "body" => Len(queue) = 8 /\ \A i \in 1 .. 4 : queue[4 + i] = Bytes(Len(text) + 2)[i]
  /\ pc = "sending" => IsBody(queue, 4, Len(text) + 2, text) /\ Len(queue) = Len(text) + 11
  /\ pc \in {"sent"} \cup ServerPlaces =>
       IsBody(wire, 4, Len(text) + 2, text) /\ Len(wire) = Len(text) + 11

(* The server's reads.                                                     *)
ServerHas ==
  /\ pc = "s_type" => Rest(queue, wire, 0, came.server)
  /\ pc = "s_length" => Rest(queue, wire, 4, came.server)
  /\ pc = "s_body" => /\ Rest(queue, wire, 8, came.server)
                      /\ came.server >= 8 => iLength = Len(text) + 2
  /\ pc \in EchoPlaces \cup DisplayPlaces =>
       /\ szMessage \in Seq(Char) /\ Len(szMessage) + 1 \in Held
       /\ Keeps(szMessage, text, came.server - 8)

(* The server's frame.                                                     *)
ServerFrame ==
  /\ pc = "e_type" => queue = <<>>
  /\ pc = "e_length" => Len(queue) = 4
  /\ pc = "e_body" =>
       Len(queue) = 8 /\ \A i \in 1 .. 4 : queue[4 + i] = Bytes(Len(szMessage) + 1)[i]
  /\ pc = "e_sending" => IsBody(queue, 4, Len(szMessage) + 1, szMessage)
  /\ pc = "e_sent" => IsBody(wire, 4, Len(szMessage) + 1, szMessage)

(* The client's reads.                                                     *)
ClientHas ==
  /\ pc \in DisplayPlaces =>
       /\ came.head \in 1 .. 4
       /\ came.head = 4 => IsBody(wire, 0, Len(szMessage) + 1, szMessage)
  /\ pc = "c_length" => Rest(queue, wire, 0, came.body)
  /\ pc = "c_body" => /\ Rest(queue, wire, 4, came.body)
                      /\ came.head = 4 /\ came.body >= 4 => iLength = Len(szMessage) + 1

IInv ==
  /\ TypeOK /\ BufferReady /\ Typed /\ ClientFrame /\ ServerHas /\ ServerFrame /\ ClientHas
  /\ FrameFits /\ EchoExact /\ CutKeepsPrefix /\ LengthIsReal
-------------------------------------------------------------------------------
LEMMA OverFacts ==
  ASSUME NEW s \in Seq(Byte), Len(s) <= 4, NEW old \in [1 .. 4 -> Byte]
  PROVE  /\ Over(s, old) \in [1 .. 4 -> Byte]
         /\ \A i \in 1 .. Len(s) : Over(s, old)[i] = s[i]
<1>1. old \in Seq(Byte) /\ Len(old) = 4
  <2>1. old = [i \in 1 .. 4 |-> old[i]]
    OBVIOUS
  <2>2. old \in Seq(Byte)
    <3>1. \A i \in 1 .. 4 : old[i] \in Byte
      OBVIOUS
    <3>2. [i \in 1 .. 4 |-> old[i]] \in Seq(Byte)
      BY ONLY <3>1
    <3> QED  BY ONLY <2>1, <3>2
  <2> QED  BY <2>2, LenProperties
<1>2. Len(s) \in Nat
  OBVIOUS
<1> DEFINE t == SubSeq(old, Len(s) + 1, 4)
<1>3. t \in Seq(Byte) /\ Len(t) = 4 - Len(s)
  BY <1>1, <1>2
<1>4. Over(s, old) = s \o t
  BY <1>1 DEF Over
<1> HIDE DEF t
<1>5. s \o t \in Seq(Byte) /\ Len(s \o t) = 4 /\ \A i \in 1 .. Len(s) : (s \o t)[i] = s[i]
  BY <1>2, <1>3
<1> QED  BY <1>4, <1>5, SeqOfFour

LEMMA WholeNumber ==
  ASSUME NEW s \in Seq(Byte), Len(s) = 4, NEW old \in [1 .. 4 -> Byte], NEW n \in Held,
         \A i \in 1 .. 4 : s[i] = Bytes(n)[i]
  PROVE  Over(s, old) = Bytes(n) /\ IntOf(Over(s, old)) = n
<1>1. Over(s, old) \in [1 .. 4 -> Byte] /\ \A i \in 1 .. 4 : Over(s, old)[i] = s[i]
  <2>1. Len(s) <= 4 /\ 1 .. Len(s) = 1 .. 4
    OBVIOUS
  <2> QED  BY ONLY <2>1, s \in Seq(Byte), old \in [1 .. 4 -> Byte], OverFacts
<1>2. Bytes(n) \in [1 .. 4 -> Byte] /\ IntOf(Bytes(n)) = n
  BY BytesFacts
<1>3. Over(s, old) = Bytes(n)
  BY ONLY <1>1, <1>2, \A i \in 1 .. 4 : s[i] = Bytes(n)[i]
<1> QED  BY <1>2, <1>3

(* A write for which there is room is done whole.                          *)
LEMMA WriteWhole ==
  ASSUME TypeOK, BufferReady, NEW s \in Seq(Byte), Len(s) > 0,
         Len(queue) + Len(s) <= MAX_BUFFER_LENGTH, Buffer!Write(s)
  PROVE  /\ queue' = queue \o s /\ queue' \in Seq(Byte) /\ got' = s
         /\ asked' = Len(s) /\ threw' = FALSE
         /\ BufferReady'
<1>1. queue \in Seq(Byte) /\ Len(queue) \in Nat /\ Len(s) \in Nat
  BY DEF TypeOK
<1>2. cap = 1024 /\ eof = FALSE /\ error = FALSE /\ Len(queue) + Len(s) <= 1024
  BY DEF BufferReady, MAX_BUFFER_LENGTH
<1>3. Buffer!Room = 1024 - Len(queue)
  BY <1>2 DEF Buffer!Room
<1>4. Buffer!Writable /\ Buffer!Least(Len(s), Buffer!Room) = Len(s)
  <2>1. Buffer!Room # 0 /\ Len(s) <= Buffer!Room
    <3>1. \A x, y, z, c \in Int : y > 0 /\ x + y <= c /\ z = c - x => z # 0 /\ y <= z
      OBVIOUS
    <3>2. Len(queue) \in Int /\ Len(s) \in Int /\ Buffer!Room \in Int /\ cap \in Int
      BY <1>1, <1>2, <1>3
    <3>3. Len(queue) + Len(s) <= cap /\ Buffer!Room = cap - Len(queue)
      BY <1>2, <1>3
    <3>4. Len(s) > 0
      OBVIOUS
    <3> QED  BY ONLY <3>1, <3>2, <3>3, <3>4, Zenon
  <2>2. Buffer!Writable
    BY <1>2, <2>1, Zenon DEF Buffer!Writable
  <2> QED  BY <2>1, <2>2 DEF Buffer!Least
<1>5. SubSeq(s, 1, Len(s)) = s
  BY <1>1
<1>6. /\ queue' = queue \o s /\ got' = s /\ asked' = Len(s) /\ threw' = FALSE
      /\ cap' = cap /\ eof' = eof /\ error' = error
  BY <1>4, <1>5 DEF Buffer!Write, Buffer!Returns
<1>7. queue' \in Seq(Byte) /\ Len(queue') = Len(queue) + Len(s)
  BY <1>1, <1>6
<1> QED  BY <1>2, <1>6, <1>7 DEF BufferReady, MAX_BUFFER_LENGTH

(* One for which there is less room fills the buffer.                      *)
LEMMA WriteCut ==
  ASSUME TypeOK, BufferReady, NEW s \in Seq(Byte), NEW k \in Nat,
         Len(queue) + k = MAX_BUFFER_LENGTH, 0 < k, k < Len(s), Buffer!Write(s)
  PROVE  /\ queue' = queue \o SubSeq(s, 1, k) /\ queue' \in Seq(Byte)
         /\ SubSeq(s, 1, k) \in Seq(Byte) /\ Len(SubSeq(s, 1, k)) = k
         /\ \A i \in 1 .. k : SubSeq(s, 1, k)[i] = s[i]
         /\ got' = SubSeq(s, 1, k) /\ asked' = Len(s) /\ threw' = FALSE
         /\ BufferReady'
<1>1. queue \in Seq(Byte) /\ Len(queue) \in Nat /\ Len(s) \in Nat
  BY DEF TypeOK
<1>2. cap = 1024 /\ eof = FALSE /\ error = FALSE /\ Len(queue) + k = 1024
  BY DEF BufferReady, MAX_BUFFER_LENGTH
<1>3. Buffer!Room = k
  <2>1. Buffer!Room = 1024 - Len(queue)
    BY <1>2 DEF Buffer!Room
  <2> QED  BY ONLY <1>1, <1>2, <2>1, k \in Nat
<1>4. Buffer!Writable /\ Buffer!Least(Len(s), Buffer!Room) = k
  <2>1. k # 0 /\ ~(Len(s) <= k)
    BY ONLY <1>1, k \in Nat, 0 < k, k < Len(s)
  <2>2. Buffer!Writable
    BY ONLY <1>2, <1>3, <2>1, Zenon DEF Buffer!Writable
  <2> QED  BY ONLY <1>3, <2>1, <2>2, Zenon DEF Buffer!Least
<1> DEFINE t == SubSeq(s, 1, k)
<1>5. /\ queue' = queue \o t /\ got' = t /\ asked' = Len(s) /\ threw' = FALSE
      /\ cap' = cap /\ eof' = eof /\ error' = error
  BY <1>4, Zenon DEF Buffer!Write, Buffer!Returns
<1>6. t \in Seq(Byte) /\ Len(t) = k /\ \A i \in 1 .. k : t[i] = s[i]
  BY ONLY <1>1, s \in Seq(Byte), k \in Nat, k < Len(s)
<1> HIDE DEF t
<1>7. queue' \in Seq(Byte) /\ Len(queue') = 1024
  <2>1. queue' \in Seq(Byte) /\ Len(queue') = Len(queue) + Len(t)
    BY ONLY <1>1, <1>5, <1>6, ConcatProperties, Zenon
  <2> QED  BY ONLY <1>2, <1>6, <2>1
<1>8. BufferReady'
  BY <1>2, <1>5, <1>7 DEF BufferReady, MAX_BUFFER_LENGTH
<1> QED  BY <1>5, <1>6, <1>7, <1>8 DEF t

(* What a read takes out of what has come.                                 *)
LEMMA ReadRest ==
  ASSUME TypeOK, BufferReady, NEW n \in Nat, NEW w \in Seq(Byte), NEW o \in Nat, NEW k \in Nat,
         Rest(queue, w, o, k), Buffer!Read(n)
  PROVE  /\ queue' \in Seq(Byte) /\ BufferReady' /\ Rest(queue', w, o + n, k)
         /\ got' \in Seq(Byte) /\ Len(got') <= n /\ Len(got') <= Len(queue)
         /\ \A i \in 1 .. Len(got') : got'[i] = w[o + i] /\ o + i <= Len(w)
         /\ \A i \in 1 .. n : o + i <= k => i <= Len(got')
         /\ asked' = n /\ threw' = FALSE
<1>1. queue \in Seq(Byte) /\ Len(queue) \in Nat /\ Len(w) \in Nat
  <2>1. queue \in Seq(Byte)
    BY DEF TypeOK
  <2> QED  BY ONLY <2>1, w \in Seq(Byte), LenProperties
<1> DEFINE m == IF n <= Len(queue) THEN n ELSE Len(queue)
<1>2. (IF Buffer!Readable THEN Buffer!Least(n, Len(queue)) ELSE 0) = m
  BY <1>1 DEF Buffer!Readable, Buffer!Least, BufferReady
<1>3. /\ queue' = SubSeq(queue, m + 1, Len(queue)) /\ got' = SubSeq(queue, 1, m)
      /\ asked' = n /\ threw' = FALSE
      /\ cap' = cap /\ eof' = eof /\ error' = error
  BY <1>2 DEF Buffer!Read, Buffer!Returns, Buffer!After, Buffer!First
<1>4. m \in 0 .. Len(queue) /\ m <= n /\ (m = n \/ m = Len(queue))
  BY <1>1
<1> HIDE DEF m
<1>5. /\ queue' \in Seq(Byte) /\ Len(queue') = Len(queue) - m
      /\ \A i \in 1 .. Len(queue) - m : queue'[i] = queue[m + i]
  BY <1>1, <1>3, <1>4
<1>6. /\ got' \in Seq(Byte) /\ Len(got') = m
      /\ \A i \in 1 .. m : got'[i] = queue[i]
  BY <1>1, <1>3, <1>4
<1>7. /\ k <= Len(w)
      /\ Len(queue) = IF k >= o THEN k - o ELSE 0
      /\ \A i \in 1 .. Len(queue) : queue[i] = w[o + i]
  BY DEF Rest
<1>8. BufferReady'
  BY <1>1, <1>3, <1>4, <1>5 DEF BufferReady, MAX_BUFFER_LENGTH
<1>9. Rest(queue', w, o + n, k)
  <2>1. Len(queue') = IF k >= o + n THEN k - (o + n) ELSE 0
    BY <1>1, <1>4, <1>5, <1>7
  <2>2. ASSUME NEW i \in 1 .. Len(queue') PROVE queue'[i] = w[(o + n) + i]
    <3>1. i \in Nat /\ 1 <= i /\ i <= Len(queue) - m
      BY <1>1, <1>4, <1>5
    <3>2. m = n
      BY <1>1, <1>4, <3>1
    <3>3. queue'[i] = queue[n + i] /\ n + i \in 1 .. Len(queue)
      BY <1>1, <1>5, <3>1, <3>2
    <3>4. o + (n + i) = (o + n) + i
      BY <3>1
    <3> QED  BY <1>7, <3>3, <3>4
  <2> QED  BY <1>7, <2>1, <2>2 DEF Rest
<1>10. \A i \in 1 .. Len(got') : got'[i] = w[o + i] /\ o + i <= Len(w)
  <2>1. \A i \in 1 .. Len(got') : got'[i] = w[o + i]
    BY <1>1, <1>4, <1>6, <1>7
  <2>2. \A i \in 1 .. Len(got') : o + i <= Len(w)
    BY <1>1, <1>4, <1>6, <1>7
  <2> QED  BY ONLY <2>1, <2>2
<1>11. \A i \in 1 .. n : o + i <= k => i <= Len(got')
  BY <1>1, <1>4, <1>6, <1>7
<1>12. Len(got') <= n /\ Len(got') <= Len(queue)
  BY <1>1, <1>4, <1>6
<1>13. queue' \in Seq(Byte) /\ got' \in Seq(Byte)
  BY <1>5, <1>6
<1> QED  BY ONLY <1>3, <1>8, <1>9, <1>10, <1>11, <1>12, <1>13

(* What a receive returns is a beginning of what was sent.                 *)
LEMMA PartFacts ==
  ASSUME NEW w \in Seq(Byte), NEW n \in Nat, n > 0, NEW s \in Part(w, n)
  PROVE  /\ s \in Seq(Byte) /\ Len(s) <= Len(w) /\ Len(s) <= n
         /\ Len(w) > 0 => Len(s) > 0
         /\ \A i \in 1 .. Len(s) : s[i] = w[i]
<1>1. Len(w) \in Nat
  OBVIOUS
<1> DEFINE all == IF Len(w) <= n THEN Len(w) ELSE n
<1>2. Buffer!Least(Len(w), n) = all
  BY DEF Buffer!Least
<1>3. PICK k \in {all} \cup {c \in Cut : 0 < c /\ c < all} : s = SubSeq(w, 1, k)
  BY <1>2 DEF Part
<1>4. k \in 0 .. Len(w) /\ k <= n /\ (Len(w) > 0 => k > 0)
  <2>1. all \in Nat /\ all <= Len(w) /\ all <= n /\ (Len(w) > 0 => all > 0)
    BY <1>1
  <2> HIDE DEF all
  <2>2. CASE k = all
    BY <1>1, <2>1, <2>2
  <2>3. CASE k \in Cut /\ 0 < k /\ k < all
    <3>1. k \in Nat
      BY <2>3, FramingAssumption
    <3> QED  BY <1>1, <2>1, <2>3, <3>1
  <2> QED  BY <1>3, <2>2, <2>3
<1>5. s \in Seq(Byte) /\ Len(s) = k /\ \A i \in 1 .. k : s[i] = w[i]
  BY <1>1, <1>3, <1>4
<1> QED  BY <1>4, <1>5

(* The string that a reader makes of what came of a packet.                *)
LEMMA BodyKept ==
  ASSUME NEW t \in Seq(Char), NEW w \in Seq(Byte), NEW o \in Nat, NEW n,
         IsBody(w, o, n, t),
         NEW g \in Seq(Byte), NEW h \in Seq(Char), NEW m \in Int,
         \A i \in 1 .. Len(g) : g[i] = w[(o + 4) + i] /\ (o + 4) + i <= Len(w),
         \A i \in 1 .. Len(t) + 1 : i <= m => i <= Len(g)
  PROVE  Keeps(CString(g, h), t, m)
<1> DEFINE u == CString(g, h)
<1>1. /\ u \in Seq(Char)
      /\ \A i \in 1 .. Len(g) : (\A j \in 1 .. i : g[j] # 0) => i <= Len(u) /\ u[i] = g[i]
      /\ \A i \in 1 .. Len(g) : g[i] = 0 => Len(u) < i
  BY CStringFacts
<1> HIDE DEF u
<1>2. Len(t) \in Nat /\ Len(g) \in Nat /\ Len(u) \in Nat /\ \A i \in 1 .. Len(t) : t[i] \in Char
  <2>1. t \in [1 .. Len(t) -> Char]
    BY LenProperties
  <2>2. Len(t) \in Nat /\ Len(g) \in Nat /\ Len(u) \in Nat
    BY <1>1, LenProperties
  <2>3. \A i \in 1 .. Len(t) : t[i] \in Char
    BY ONLY <2>1, Zenon
  <2> QED  BY ONLY <2>2, <2>3
<1>3. \A i \in 1 .. Len(t) : o + 4 + i <= Len(w) => w[o + 4 + i] = t[i]
  BY DEF IsBody
<1>4. o + 5 + Len(t) <= Len(w) => w[o + 5 + Len(t)] = 0
  BY DEF IsBody
<1>5. ASSUME NEW i \in 1 .. Len(t), i <= m PROVE i <= Len(u) /\ u[i] = t[i]
  <2>1. i \in 1 .. Len(g)
    BY <1>2, <1>5
  <2>2. \A j \in 1 .. i : j \in 1 .. Len(g) /\ j \in 1 .. Len(t)
    BY <1>2, <2>1
  <2>3. \A j \in 1 .. i : g[j] = t[j]
    BY <1>3, <2>2
  <2>4. \A j \in 1 .. i : g[j] # 0
    <3>1. \A x \in Char : x # 0
      BY DEF Char
    <3>2. \A j \in 1 .. i : t[j] \in Char
      BY <1>2, <2>2
    <3> QED  BY <2>3, <3>1, <3>2
  <2>5. i \in 1 .. i
    BY <1>2
  <2> QED  BY <1>1, <2>1, <2>3, <2>4, <2>5
<1>6. ASSUME m > Len(t) PROVE u = t
  <2>1. Len(t) + 1 \in 1 .. Len(g)
    BY <1>2, <1>6
  <2>2. g[Len(t) + 1] = 0
    <3>1. (o + 4) + (Len(t) + 1) = o + 5 + Len(t)
      BY <1>2
    <3> QED  BY <1>4, <2>1, <3>1
  <2>3. Len(u) < Len(t) + 1
    BY <1>1, <2>1, <2>2
  <2>4. \A i \in 1 .. Len(t) : i <= Len(u) /\ u[i] = t[i]
    BY <1>2, <1>5, <1>6
  <2>5. Len(t) <= Len(u)
    BY <1>2, <2>4
  <2>6. Len(u) = Len(t)
    BY <1>2, <2>3, <2>5
  <2>7. u \in [1 .. Len(t) -> Char] /\ t \in [1 .. Len(t) -> Char]
    BY <1>1, <2>6, LenProperties
  <2> QED  BY ONLY <2>4, <2>7
<1>7. Keeps(u, t, m)
  BY <1>5, <1>6 DEF Keeps
<1> QED  BY <1>7 DEF u
-------------------------------------------------------------------------------
LEMMA TypesOf ==
  ASSUME TypeOK
  PROVE  /\ text \in Seq(Byte) /\ pResult \in Seq(Byte) /\ wire \in Seq(Byte)
         /\ szMessage \in Seq(Byte) /\ queue \in Seq(Byte) /\ got \in Seq(Byte)
         /\ packetType \in [1 .. 4 -> Byte] /\ iResultSize \in Nat /\ iLength \in Int
         /\ came.server \in Nat /\ came.head \in Nat /\ came.body \in Nat
<1>1. /\ text \in Seq(Byte) /\ pResult \in Seq(Byte) /\ wire \in Seq(Byte)
      /\ szMessage \in Seq(Byte) /\ queue \in Seq(Byte) /\ got \in Seq(Byte)
  BY Zenon DEF TypeOK
<1>2. packetType \in [1 .. 4 -> Byte] /\ iResultSize \in Nat /\ iLength \in Int
  BY Zenon DEF TypeOK
<1>3. came.server \in Nat /\ came.head \in Nat /\ came.body \in Nat
  <2>1. came \in [{"server", "head", "body"} -> 0 .. MAX_BUFFER_LENGTH]
    BY Zenon DEF TypeOK
  <2>2. 0 .. MAX_BUFFER_LENGTH \subseteq Nat
    BY DEF MAX_BUFFER_LENGTH
  <2> QED  BY ONLY <2>1, <2>2
<1> QED  BY <1>1, <1>2, <1>3

LEMMA SixSequences ==
  ASSUME NEW a \in Seq(Byte), NEW b \in Seq(Byte), NEW c \in Seq(Byte),
         NEW d \in Seq(Byte), NEW e \in Seq(Byte), NEW f \in Seq(Byte)
  PROVE  {a, b, c, d, e, f} \subseteq Seq(Byte)
  BY Zenon

LEMMA ThreeNumbers ==
  ASSUME NEW a \in Nat, NEW b \in Nat, NEW c \in Nat
  PROVE  {a, b, c} \subseteq Nat
  BY Zenon

LEMMA TypedText ==
  ASSUME NEW t \in Seq(Char)
  PROVE  t \in Seq(Byte) /\ t \o <<0>> \in Seq(Byte) /\ Len(t) \in Nat
         /\ Len(t \o <<0>>) = Len(t) + 1
         /\ (\A i \in 1 .. Len(t) : (t \o <<0>>)[i] = t[i]) /\ (t \o <<0>>)[Len(t) + 1] = 0
<1>1. Char \subseteq Byte
  BY DEF Byte, Char
<1>2. t \in Seq(Byte)
  BY ONLY <1>1, t \in Seq(Char), SeqMonotonic
<1>3. 0 \in Byte
  BY DEF Byte
<1>4. /\ t \o <<0>> \in Seq(Byte) /\ Len(t) \in Nat
      /\ Len(t \o <<0>>) = Len(t) + 1
      /\ \A i \in 1 .. Len(t) : (t \o <<0>>)[i] = t[i]
      /\ (t \o <<0>>)[Len(t) + 1] = 0
  BY ONLY <1>2, <1>3
<1> QED  BY <1>2, <1>4

LEMMA Joined ==
  ASSUME NEW q \in Seq(Byte), NEW s \in Seq(Byte), NEW k \in Nat, Len(q) = k
  PROVE  /\ q \o s \in Seq(Byte) /\ Len(q \o s) = k + Len(s)
         /\ \A i \in 1 .. k : (q \o s)[i] = q[i]
         /\ \A i \in 1 .. Len(s) : (q \o s)[k + i] = s[i]
<1>1. /\ q \o s \in Seq(Byte) /\ Len(q \o s) = Len(q) + Len(s)
      /\ \A i \in 1 .. Len(q) + Len(s) :
           (q \o s)[i] = IF i <= Len(q) THEN q[i] ELSE s[i - Len(q)]
  BY ConcatProperties
<1>2. Len(s) \in Nat
  OBVIOUS
<1> DEFINE w == q \o s
<1> HIDE DEF w
<1>3. \A i \in 1 .. k + Len(s) : w[i] = IF i <= k THEN q[i] ELSE s[i - k]
  BY <1>1 DEF w
<1>4. \A i \in 1 .. Len(s) : w[k + i] = s[i]
  <2> SUFFICES ASSUME NEW i \in 1 .. Len(s) PROVE w[k + i] = s[i]
    OBVIOUS
  <2>1. k + i \in 1 .. k + Len(s) /\ ~(k + i <= k) /\ (k + i) - k = i
    BY ONLY <1>2, k \in Nat, i \in 1 .. Len(s)
  <2> QED  BY ONLY <1>3, <2>1
<1>5. \A i \in 1 .. k : w[i] = q[i]
  <2> SUFFICES ASSUME NEW i \in 1 .. k PROVE w[i] = q[i]
    OBVIOUS
  <2>1. i \in 1 .. k + Len(s) /\ i <= k
    BY ONLY <1>2, k \in Nat, i \in 1 .. k
  <2> QED  BY ONLY <1>3, <2>1
<1> QED  BY <1>1, <1>4, <1>5, Zenon DEF w

LEMMA FrameHead ==
  ASSUME NEW q \in Seq(Byte), Len(q) = 4, NEW n \in Held
  PROVE  /\ Len(q \o Bytes(n)) = 8
         /\ \A i \in 1 .. 4 : (q \o Bytes(n))[4 + i] = Bytes(n)[i]
<1> DEFINE b == Bytes(n)
<1>1. b \in Seq(Byte) /\ Len(b) = 4
  BY BytesFacts
<1> HIDE DEF b
<1>2. Len(q \o b) = 8 /\ \A i \in 1 .. 4 : (q \o b)[4 + i] = b[i]
  <2>1. Len(q \o b) = 4 + Len(b) /\ \A i \in 1 .. Len(b) : (q \o b)[4 + i] = b[i]
    <3>1. 4 \in Nat
      OBVIOUS
    <3> QED  BY ONLY <1>1, <3>1, q \in Seq(Byte), Len(q) = 4, Joined, Zenon
  <2> QED  BY ONLY <1>1, <2>1
<1> QED  BY <1>2 DEF b

LEMMA FrameBody ==
  ASSUME NEW t \in Seq(Char), NEW n \in Int, NEW q \in Seq(Byte), NEW s \in Seq(Byte),
         Len(q) = 8,
         \A i \in 1 .. 4 : q[4 + i] = Bytes(n)[i],
         \A i \in 1 .. Len(t) : i <= Len(s) => s[i] = t[i],
         Len(t) + 1 <= Len(s) => s[Len(t) + 1] = 0
  PROVE  IsBody(q \o s, 4, n, t) /\ Len(q \o s) = 8 + Len(s)
<1>1. Len(t) \in Nat /\ Len(s) \in Nat
  OBVIOUS
<1>2. /\ Len(q \o s) = 8 + Len(s)
      /\ \A i \in 1 .. 8 : (q \o s)[i] = q[i]
      /\ \A i \in 1 .. Len(s) : (q \o s)[8 + i] = s[i]
  <2>1. PICK k \in Nat : k = 8
    OBVIOUS
  <2>2. Len(q) = k
    BY ONLY <2>1, Len(q) = 8
  <2>3. /\ Len(q \o s) = k + Len(s)
        /\ \A i \in 1 .. k : (q \o s)[i] = q[i]
        /\ \A i \in 1 .. Len(s) : (q \o s)[k + i] = s[i]
    BY ONLY k \in Nat, q \in Seq(Byte), s \in Seq(Byte), <2>2, Joined, Zenon
  <2> QED  BY ONLY <2>1, <2>3
<1> DEFINE w == q \o s
<1>3. \A i \in 1 .. 4 : 4 + i \in 1 .. 8
  OBVIOUS
<1>4. \A i \in 1 .. 4 : w[4 + i] = Bytes(n)[i]
  BY <1>2, <1>3
<1>5. \A i \in 1 .. Len(t) : 4 + 4 + i <= Len(w) => w[4 + 4 + i] = t[i]
  <2> SUFFICES ASSUME NEW i \in 1 .. Len(t), 4 + 4 + i <= Len(w) PROVE w[4 + 4 + i] = t[i]
    OBVIOUS
  <2>1. i \in 1 .. Len(s) /\ i <= Len(s) /\ 4 + 4 + i = 8 + i
    BY <1>1, <1>2
  <2> QED  BY <1>2, <2>1
<1>6. 4 + 5 + Len(t) <= Len(w) => w[4 + 5 + Len(t)] = 0
  <2> SUFFICES ASSUME 4 + 5 + Len(t) <= Len(w) PROVE w[4 + 5 + Len(t)] = 0
    OBVIOUS
  <2>1. Len(t) + 1 \in 1 .. Len(s) /\ Len(t) + 1 <= Len(s) /\ 4 + 5 + Len(t) = 8 + (Len(t) + 1)
    BY <1>1, <1>2
  <2> QED  BY <1>2, <2>1
<1>7. Len(w) >= 4 + 4
  BY <1>1, <1>2
<1> QED  BY <1>2, <1>4, <1>5, <1>6, <1>7 DEF IsBody

-------------------------------------------------------------------------------
LEMMA InitIInv == Init => IInv
<1> SUFFICES ASSUME Init PROVE IInv
  OBVIOUS
<1> USE DEF Init
<1>1. Bytes(0) \in [1 .. 4 -> Byte]
  BY SmallHeld, BytesFacts
<1>2. <<>> \in Seq(Byte) /\ Len(<<>>) = 0
  OBVIOUS
<1>3. TypeOK
  <2>1. came \in [{"server", "head", "body"} -> 0 .. MAX_BUFFER_LENGTH]
    BY DEF MAX_BUFFER_LENGTH
  <2>2. packetType \in [1 .. 4 -> Byte]
    BY <1>1
  <2>3. {text, pResult, wire, szMessage, queue, got} \subseteq Seq(Byte)
    BY <1>2, Zenon
  <2>4. {iResultSize, cap, asked} \subseteq Nat
    BY DEF MAX_BUFFER_LENGTH
  <2>5. iLength \in Int /\ {eof, error, threw} \subseteq BOOLEAN
    <3>1. iLength \in Int
      OBVIOUS
    <3>2. eof = FALSE /\ error = FALSE /\ threw = FALSE
      BY Zenon
    <3> QED  BY ONLY <3>1, <3>2, Zenon
  <2> QED  BY ONLY <2>1, <2>2, <2>3, <2>4, <2>5, Zenon DEF TypeOK
<1>4. BufferReady
  BY <1>2 DEF BufferReady, MAX_BUFFER_LENGTH
<1>5. Typed /\ ClientFrame /\ ServerHas /\ ServerFrame /\ ClientHas
  BY DEF Typed, ClientFrame, ServerHas, ServerFrame, ClientHas,
         ServerPlaces, EchoPlaces, DisplayPlaces
<1>6. FrameFits /\ EchoExact /\ CutKeepsPrefix /\ LengthIsReal
  BY DEF FrameFits, EchoExact, CutKeepsPrefix, LengthIsReal
<1> QED  BY <1>3, <1>4, <1>5, <1>6 DEF IInv

LEMMA GetStep ==
  ASSUME IInv, NEW t \in Text, GetAction(t)
  PROVE  IInv'
<1> USE DEF GetAction, Goes, bufferVars, readVars
<1>1. pc' = (IF Len(t) + 1 <= 256 THEN "new" ELSE "overflow")
  BY DEF SzMessageSize
<1>2. t \in Seq(Char) /\ t \in Seq(Byte) /\ t \o <<0>> \in Seq(Byte) /\ Len(t) \in Nat
  <2>1. t \in Seq(Char)
    BY FramingAssumption DEF Char
  <2> QED  BY <2>1, TypedText
<1>3. text' = t /\ pResult' = t \o <<0>> /\ iResultSize' = Len(t) + 1
  OBVIOUS
<1>4. TypeOK'
  BY <1>2, <1>3 DEF IInv, TypeOK
<1>5. BufferReady'
  BY DEF IInv, BufferReady
<1>6. Typed'
  BY <1>1, <1>2, <1>3 DEF Typed
<1>7. ClientFrame' /\ ServerHas' /\ ServerFrame' /\ ClientHas'
  BY <1>1 DEF ClientFrame, ServerHas, ServerFrame, ClientHas,
               ServerPlaces, EchoPlaces, DisplayPlaces
<1>8. FrameFits' /\ EchoExact' /\ CutKeepsPrefix' /\ LengthIsReal'
  BY <1>1 DEF FrameFits, EchoExact, CutKeepsPrefix, LengthIsReal
<1> QED  BY <1>4, <1>5, <1>6, <1>7, <1>8 DEF IInv

LEMMA ListenStep ==
  ASSUME IInv, ListenAction
  PROVE  IInv'
<1> USE DEF ListenAction, Goes, readVars
<1>1. pc = "new" /\ pc' = "type"
  OBVIOUS
<1>2. Fresh(<<>>)
  OBVIOUS
<1>3. TypeOK /\ Typed
  BY DEF IInv
<1>4. Typed'
  BY <1>1, <1>3, TypedText DEF Typed
<1>5. TypeOK'
  <2>1. iResultSize' \in Nat
    BY <1>3 DEF TypeOK
  <2>2. {text', pResult', wire', szMessage', queue', got'} \subseteq Seq(Byte)
    BY <1>2, <1>3, TypesOf, EmptySeq, Zenon DEF Fresh
  <2>3. {iResultSize', cap', asked'} \subseteq Nat
    BY <1>2, <2>1 DEF Fresh, MAX_BUFFER_LENGTH
  <2>4. {eof', error', threw'} \subseteq BOOLEAN
    BY <1>2 DEF Fresh
  <2> QED  BY <1>3, <2>2, <2>3, <2>4, Zenon DEF TypeOK
<1>6. BufferReady'
  BY <1>2 DEF BufferReady, Fresh, MAX_BUFFER_LENGTH
<1>7. ClientFrame'
  BY <1>1, <1>2 DEF ClientFrame, ServerPlaces, Fresh
<1>8. ServerHas' /\ ServerFrame' /\ ClientHas'
  BY <1>1 DEF ServerHas, ServerFrame, ClientHas, ServerPlaces, EchoPlaces, DisplayPlaces
<1>9. FrameFits' /\ EchoExact' /\ CutKeepsPrefix' /\ LengthIsReal'
  BY <1>1 DEF FrameFits, EchoExact, CutKeepsPrefix, LengthIsReal
<1> QED  BY <1>4, <1>5, <1>6, <1>7, <1>8, <1>9 DEF IInv

LEMMA WrittenTypes ==
  ASSUME TypeOK, UNCHANGED <<frameVars, wire, readVars, came>>, BufferReady',
         queue' \in Seq(Byte), got' \in Seq(Byte), asked' \in Nat, threw' = FALSE
  PROVE  TypeOK'
<1>1. {text', pResult', wire', szMessage', queue', got'} \subseteq Seq(Byte)
  BY TypesOf, Zenon DEF frameVars, readVars
<1>2. {iResultSize', cap', asked'} \subseteq Nat
  BY TypesOf DEF frameVars, BufferReady, MAX_BUFFER_LENGTH
<1>3. {eof', error', threw'} \subseteq BOOLEAN
  BY DEF BufferReady
<1>4. packetType' = packetType /\ iLength' = iLength /\ came' = came
  BY DEF readVars
<1> QED  BY <1>1, <1>2, <1>3, <1>4, Zenon DEF TypeOK

(* A write to the FIFOBuffer, whole or cut, and the sending of what it     *)
(* holds.                                                                  *)
LEMMA Writing ==
  ASSUME IInv, NEW s \in Seq(Byte), NEW here, NEW next, Write(here, s, next),
         Len(s) > 0, Len(queue) + Len(s) <= 1024
  PROVE  /\ pc = here /\ pc' = next
         /\ queue' = queue \o s /\ FrameFits'
         /\ TypeOK' /\ BufferReady'
         /\ UNCHANGED <<frameVars, wire, readVars, came>>
<1>1. TypeOK /\ BufferReady
  BY DEF IInv
<1>2. /\ pc = here /\ pc' = next /\ Buffer!Write(s)
      /\ UNCHANGED <<frameVars, wire, readVars, came>>
  BY DEF Write, Goes
<1>3. /\ queue' = queue \o s /\ queue' \in Seq(Byte) /\ got' = s
      /\ asked' = Len(s) /\ threw' = FALSE
      /\ BufferReady'
  BY <1>1, <1>2, WriteWhole DEF MAX_BUFFER_LENGTH
<1>4. FrameFits'
  BY <1>3, Zenon DEF FrameFits
<1>5. TypeOK'
  BY <1>1, <1>2, <1>3, LenProperties, WrittenTypes
<1> QED  BY <1>2, <1>3, <1>4, <1>5

LEMMA WritingCut ==
  ASSUME IInv, NEW s \in Seq(Byte), NEW k \in Nat, Write("e_body", s, "e_sending"),
         Len(queue) + k = MAX_BUFFER_LENGTH, 0 < k, k < Len(s), ~TextCame
  PROVE  /\ pc' = "e_sending"
         /\ queue' = queue \o SubSeq(s, 1, k) /\ FrameFits'
         /\ SubSeq(s, 1, k) \in Seq(Byte) /\ Len(SubSeq(s, 1, k)) = k
         /\ \A i \in 1 .. k : SubSeq(s, 1, k)[i] = s[i]
         /\ TypeOK' /\ BufferReady'
         /\ UNCHANGED <<frameVars, wire, readVars, came>>
<1>1. TypeOK /\ BufferReady
  BY DEF IInv
<1>2. /\ pc' = "e_sending" /\ Buffer!Write(s)
      /\ UNCHANGED <<frameVars, wire, readVars, came>>
  BY DEF Write, Goes
<1>3. /\ queue' = queue \o SubSeq(s, 1, k) /\ queue' \in Seq(Byte)
      /\ SubSeq(s, 1, k) \in Seq(Byte) /\ Len(SubSeq(s, 1, k)) = k
      /\ \A i \in 1 .. k : SubSeq(s, 1, k)[i] = s[i]
      /\ got' = SubSeq(s, 1, k) /\ asked' = Len(s) /\ threw' = FALSE
      /\ BufferReady'
  BY ONLY <1>1, <1>2, s \in Seq(Byte), k \in Nat, Len(queue) + k = MAX_BUFFER_LENGTH,
          0 < k, k < Len(s), WriteCut, Zenon
<1>4. FrameFits'
  <2>1. ~TextCame'
    BY <1>2 DEF TextCame, frameVars
  <2> QED  BY <1>2, <2>1 DEF FrameFits
<1>5. TypeOK'
  <2>1. got' \in Seq(Byte) /\ asked' \in Nat
    BY <1>3, LenProperties, Zenon
  <2> QED  BY ONLY <1>1, <1>2, <1>3, <2>1, WrittenTypes, Zenon
<1> QED  BY <1>2, <1>3, <1>4, <1>5, Zenon

LEMMA Sending ==
  ASSUME IInv, NEW here, NEW next, SendBytes(here, next)
  PROVE  /\ pc = here /\ pc' = next
         /\ wire' = queue /\ queue' = <<>>
         /\ TypeOK' /\ BufferReady'
         /\ UNCHANGED <<frameVars, readVars, came>>
<1>1. TypeOK /\ BufferReady
  BY DEF IInv
<1>2. /\ pc = here /\ pc' = next /\ wire' = queue /\ Buffer!Drain(0)
      /\ UNCHANGED <<frameVars, readVars, came>>
  BY DEF SendBytes, Goes
<1>3. /\ queue' = <<>> /\ got' = <<>> /\ asked' = 0 /\ threw' = FALSE
      /\ cap' = cap /\ eof' = eof /\ error' = error
  BY <1>2 DEF Buffer!Drain, Buffer!Returns
<1>4. BufferReady'
  BY <1>1, <1>3 DEF BufferReady, MAX_BUFFER_LENGTH
<1>5. TypeOK'
  <2>1. {text', pResult', wire', szMessage', queue', got'} \subseteq Seq(Byte)
    BY <1>1, <1>2, <1>3, TypesOf, EmptySeq, Zenon DEF frameVars, readVars
  <2>2. {iResultSize', cap', asked'} \subseteq Nat
    BY <1>1, <1>2, <1>3, <1>4, TypesOf DEF frameVars, BufferReady, MAX_BUFFER_LENGTH
  <2>3. {eof', error', threw'} \subseteq BOOLEAN
    BY <1>3, <1>4 DEF BufferReady
  <2>4. packetType' = packetType /\ iLength' = iLength /\ came' = came
    BY <1>2 DEF readVars
  <2> QED  BY <1>1, <2>1, <2>2, <2>3, <2>4, Zenon DEF TypeOK
<1> QED  BY <1>2, <1>3, <1>4, <1>5

LEMMA KindFacts ==
  Bytes(PACKET_TYPE_MESSAGE) \in Seq(Byte) /\ Len(Bytes(PACKET_TYPE_MESSAGE)) = 4
<1>1. 17 \in Held
  BY SmallHeld
<1> QED  BY <1>1, BytesFacts DEF PACKET_TYPE_MESSAGE

LEMMA ClientWritesType ==
  ASSUME IInv, Write("type", Bytes(PACKET_TYPE_MESSAGE), "length")
  PROVE  IInv'
<1> DEFINE s == Bytes(PACKET_TYPE_MESSAGE)
<1>1. s \in Seq(Byte) /\ Len(s) = 4
  BY KindFacts
<1> HIDE DEF s
<1>2. Write("type", s, "length")
  BY DEF s
<1>3. queue = <<>>
  BY <1>2 DEF Write, Goes, IInv, ClientFrame
<1>4. Len(s) > 0 /\ Len(queue) + Len(s) <= 1024
  BY <1>1, <1>3
<1>5. /\ pc = "type" /\ pc' = "length"
      /\ queue' = queue \o s /\ FrameFits'
      /\ TypeOK' /\ BufferReady'
      /\ UNCHANGED <<frameVars, wire, readVars, came>>
  BY <1>1, <1>2, <1>4, Writing
<1>6. Typed'
  BY <1>5 DEF IInv, Typed, frameVars
<1>7. ClientFrame'
  BY <1>1, <1>3, <1>5 DEF ClientFrame, ServerPlaces
<1>8. ServerHas' /\ ServerFrame' /\ ClientHas'
  BY <1>5 DEF ServerHas, ServerFrame, ClientHas, ServerPlaces, EchoPlaces, DisplayPlaces
<1>9. EchoExact' /\ CutKeepsPrefix' /\ LengthIsReal'
  BY <1>5 DEF EchoExact, CutKeepsPrefix, LengthIsReal
<1> QED  BY <1>5, <1>6, <1>7, <1>8, <1>9 DEF IInv

LEMMA ClientWritesLength ==
  ASSUME IInv, Write("length", Bytes(iResultSize), "body")
  PROVE  IInv'
<1> DEFINE n == Len(text) + 2
           s == Bytes(n)
<1>1. pc = "length" /\ TypeOK /\ Typed /\ Len(queue) = 4
  BY DEF Write, Goes, IInv, ClientFrame
<1>2. Len(text) \in Nat /\ Len(text) <= 255 /\ iResultSize = n /\ n \in Held
  <2>1. text \in Seq(Char) /\ Len(text) <= 255 /\ iResultSize = n
    BY <1>1 DEF Typed
  <2>2. Len(text) \in Nat
    BY ONLY <2>1, LenProperties
  <2>3. n \in Held
    <3>1. \A x \in Nat : x <= 255 => x + 2 \in Held
      BY SmallHeld
    <3> QED  BY ONLY <2>1, <2>2, <3>1
  <2> QED  BY <2>1, <2>2, <2>3
<1>3. s \in Seq(Byte) /\ Len(s) = 4
  BY <1>2, BytesFacts
<1>4. Len(queue \o s) = 8 /\ \A i \in 1 .. 4 : (queue \o s)[4 + i] = s[i]
  <2>1. queue \in Seq(Byte) /\ n \in Held /\ Len(queue) = 4
    BY <1>1, <1>2, TypesOf
  <2> HIDE DEF n
  <2> QED  BY ONLY <2>1, FrameHead, Zenon
<1>5. Write("length", s, "body")
  BY <1>2
<1> HIDE DEF s
<1>6. Len(s) > 0 /\ Len(queue) + Len(s) <= 1024
  BY <1>1, <1>3
<1>7. /\ pc' = "body"
      /\ queue' = queue \o s /\ FrameFits'
      /\ TypeOK' /\ BufferReady'
      /\ UNCHANGED <<frameVars, wire, readVars, came>>
  BY <1>3, <1>5, <1>6, Writing
<1>8. Typed'
  BY <1>1, <1>7 DEF Typed, frameVars
<1>9. ClientFrame'
  <2>1. text' = text /\ s = Bytes(Len(text') + 2)
    BY <1>7 DEF frameVars, s
  <2>2. Len(queue') = 8 /\ \A i \in 1 .. 4 : queue'[4 + i] = Bytes(Len(text') + 2)[i]
    BY <1>4, <1>7, <2>1
  <2> QED  BY <1>7, <2>2 DEF ClientFrame, ServerPlaces
<1>10. ServerHas' /\ ServerFrame' /\ ClientHas'
  BY <1>7 DEF ServerHas, ServerFrame, ClientHas, ServerPlaces, EchoPlaces, DisplayPlaces
<1>11. EchoExact' /\ CutKeepsPrefix' /\ LengthIsReal'
  BY <1>7 DEF EchoExact, CutKeepsPrefix, LengthIsReal
<1> QED  BY <1>7, <1>8, <1>9, <1>10, <1>11 DEF IInv

LEMMA ClientWritesBody ==
  ASSUME IInv, NEW b \in Beyond,
         Write("body", SubSeq(pResult \o b, 1, iResultSize + 1), "sending")
  PROVE  IInv'
<1> DEFINE n == Len(text) + 2
           s == SubSeq(pResult \o b, 1, iResultSize + 1)
<1>1. pc = "body" /\ TypeOK /\ Typed
  BY DEF Write, Goes, IInv
<1>2. /\ text \in Seq(Char) /\ Len(text) \in Nat /\ Len(text) <= 255
      /\ pResult = text \o <<0>> /\ iResultSize = n
  <2>1. text \in Seq(Char) /\ Len(text) <= 255 /\ pResult = text \o <<0>> /\ iResultSize = n
    BY <1>1 DEF Typed
  <2> QED  BY <2>1
<1>3. queue \in Seq(Byte) /\ Len(queue) = 8 /\ \A i \in 1 .. 4 : queue[4 + i] = Bytes(n)[i]
  <2>1. queue \in Seq(Byte)
    BY <1>1, TypesOf
  <2> QED  BY <1>1, <2>1 DEF IInv, ClientFrame
<1>4. b \in Seq(Byte) /\ Len(b) = 2
  <2>1. b \in [1 .. 2 -> Byte]
    BY FramingAssumption
  <2>2. b = [i \in 1 .. 2 |-> b[i]] /\ \A i \in 1 .. 2 : b[i] \in Byte
    BY <2>1
  <2>3. [i \in 1 .. 2 |-> b[i]] \in Seq(Byte) /\ Len([i \in 1 .. 2 |-> b[i]]) = 2
    BY ONLY <2>2
  <2> QED  BY ONLY <2>2, <2>3
<1>5. s \in Seq(Byte) /\ Len(s) = Len(text) + 3
      /\ (\A i \in 1 .. Len(text) : s[i] = text[i]) /\ s[Len(text) + 1] = 0
  <2> DEFINE a == text \o <<0>>
             k == Len(text) + 1
  <2>1. /\ a \in Seq(Byte) /\ Len(a) = k /\ k \in Nat
        /\ (\A i \in 1 .. Len(text) : a[i] = text[i]) /\ a[k] = 0
    BY <1>2, TypedText
  <2> HIDE DEF a
  <2>2. a \o b \in Seq(Byte) /\ Len(a \o b) = k + 2 /\ \A i \in 1 .. k : (a \o b)[i] = a[i]
    <3>1. Len(a \o b) = k + Len(b)
      BY ONLY <1>4, <2>1, Joined, Zenon
    <3>2. a \o b \in Seq(Byte) /\ \A i \in 1 .. k : (a \o b)[i] = a[i]
      BY ONLY <1>4, <2>1, Joined, Zenon
    <3> QED  BY <1>4, <3>1, <3>2
  <2>3. iResultSize + 1 = k + 2 /\ s = SubSeq(a \o b, 1, k + 2)
    BY <1>2 DEF a
  <2>4. SubSeq(a \o b, 1, k + 2) = a \o b
    BY <2>2
  <2>5. s = a \o b
    BY <2>3, <2>4
  <2>6. \A i \in 1 .. Len(text) : i \in 1 .. k
    BY <1>2
  <2>7. k \in 1 .. k
    BY <1>2
  <2>8. k + 2 = Len(text) + 3
    BY <1>2
  <2> HIDE DEF k, s
  <2>9. (\A i \in 1 .. Len(text) : s[i] = text[i]) /\ s[k] = 0
    BY ONLY <2>1, <2>2, <2>5, <2>6, <2>7
  <2> QED  BY <2>2, <2>5, <2>8, <2>9 DEF k
<1>6. Write("body", s, "sending")
  OBVIOUS
<1> HIDE DEF s
<1>7. Len(s) > 0 /\ Len(queue) + Len(s) <= 1024 /\ Len(s) >= Len(text) + 1
  BY <1>2, <1>3, <1>5
<1>8. /\ pc' = "sending"
      /\ queue' = queue \o s /\ FrameFits'
      /\ TypeOK' /\ BufferReady'
      /\ UNCHANGED <<frameVars, wire, readVars, came>>
  BY <1>5, <1>6, <1>7, Writing
<1>9. Typed'
  BY <1>1, <1>8 DEF Typed, frameVars
<1>10. ClientFrame'
  <2>1. IsBody(queue \o s, 4, n, text) /\ Len(queue \o s) = 8 + Len(s)
    <3>1. text \in Seq(Char) /\ Len(s) >= Len(text) + 1 /\ n \in Int
      BY <1>2, <1>7
    <3> HIDE DEF n
    <3>2. /\ s \in Seq(Byte) /\ \A i \in 1 .. Len(text) : i <= Len(s) => s[i] = text[i]
          /\ Len(text) + 1 <= Len(s) => s[Len(text) + 1] = 0
      BY <1>5
    <3>3. queue \in Seq(Byte)
      BY <1>3
    <3>4. Len(queue) = 8
      BY <1>3
    <3>5. \A i \in 1 .. 4 : queue[4 + i] = Bytes(n)[i]
      BY <1>3
    <3> QED  BY ONLY <3>1, <3>2, <3>3, <3>4, <3>5, FrameBody, Zenon
  <2>2. 8 + Len(s) = Len(text) + 11
    BY <1>2, <1>5
  <2>3. text' = text
    BY <1>8 DEF frameVars
  <2>4. IsBody(queue', 4, Len(text') + 2, text') /\ Len(queue') = Len(text') + 11
    BY <1>8, <2>1, <2>2, <2>3
  <2> QED  BY <1>8, <2>4 DEF ClientFrame, ServerPlaces
<1>11. ServerHas' /\ ServerFrame' /\ ClientHas'
  BY <1>8 DEF ServerHas, ServerFrame, ClientHas, ServerPlaces, EchoPlaces, DisplayPlaces
<1>12. EchoExact' /\ CutKeepsPrefix' /\ LengthIsReal'
  BY <1>8 DEF EchoExact, CutKeepsPrefix, LengthIsReal
<1> QED  BY <1>8, <1>9, <1>10, <1>11, <1>12 DEF IInv

LEMMA ClientSends ==
  ASSUME IInv, SendBytes("sending", "sent")
  PROVE  IInv'
<1>1. /\ pc = "sending" /\ pc' = "sent"
      /\ wire' = queue /\ queue' = <<>>
      /\ TypeOK' /\ BufferReady'
      /\ UNCHANGED <<frameVars, readVars, came>>
  BY Sending
<1>2. Typed'
  BY <1>1 DEF IInv, Typed, frameVars
<1>3. ClientFrame'
  <2>1. IsBody(queue, 4, Len(text) + 2, text) /\ Len(queue) = Len(text) + 11
    BY <1>1 DEF IInv, ClientFrame
  <2>2. text' = text
    BY <1>1 DEF frameVars
  <2>3. IsBody(wire', 4, Len(text') + 2, text') /\ Len(wire') = Len(text') + 11
    BY <1>1, <2>1, <2>2
  <2> QED  BY <1>1, <2>3 DEF ClientFrame
<1>4. ServerHas' /\ ServerFrame' /\ ClientHas'
  BY <1>1 DEF ServerHas, ServerFrame, ClientHas, ServerPlaces, EchoPlaces, DisplayPlaces
<1>5. FrameFits' /\ EchoExact' /\ CutKeepsPrefix' /\ LengthIsReal'
  BY <1>1 DEF FrameFits, EchoExact, CutKeepsPrefix, LengthIsReal
<1> QED  BY <1>1, <1>2, <1>3, <1>4, <1>5 DEF IInv
-------------------------------------------------------------------------------
(* What is read of a packet: its length, and its text.                     *)
LEMMA LengthRead ==
  ASSUME TypeOK, BufferReady, NEW o \in Nat, NEW k \in Nat, Rest(queue, wire, o, k),
         Buffer!Read(4), NEW old \in Stack
  PROVE  /\ IntOf(Over(got', old)) \in Int
         /\ \A n \in Held : \A t : IsBody(wire, o, n, t) /\ k >= o + 4 =>
              IntOf(Over(got', old)) = n
<1>1. old \in [1 .. 4 -> Byte]
  BY FramingAssumption
<1>2. 4 \in Nat
  OBVIOUS
<1>3. /\ got' \in Seq(Byte) /\ Len(got') <= 4
      /\ \A i \in 1 .. Len(got') : got'[i] = wire[o + i] /\ o + i <= Len(wire)
      /\ \A i \in 1 .. 4 : o + i <= k => i <= Len(got')
  <2>1. wire \in Seq(Byte)
    BY TypesOf
  <2> QED  BY ONLY <1>2, <2>1, TypeOK, BufferReady, o \in Nat, k \in Nat,
                   Rest(queue, wire, o, k), Buffer!Read(4), ReadRest, Zenon
<1>4. IntOf(Over(got', old)) \in Int
  BY <1>1, <1>3, OverFacts, IntOfInt
<1>5. ASSUME NEW n \in Held, NEW t, IsBody(wire, o, n, t), k >= o + 4
      PROVE  IntOf(Over(got', old)) = n
  <2>1. Len(got') = 4
    <3>1. 4 \in 1 .. 4 /\ Len(got') \in Nat
      BY <1>3
    <3>2. o + 4 <= k
      BY <1>5
    <3>3. 4 <= Len(got') /\ Len(got') <= 4
      BY ONLY <1>3, <3>1, <3>2, Zenon
    <3>4. \A x \in Nat : 4 <= x /\ x <= 4 => x = 4
      OBVIOUS
    <3> QED  BY ONLY <3>1, <3>3, <3>4, Zenon
  <2>2. \A i \in 1 .. 4 : wire[o + i] = Bytes(n)[i]
    BY <1>5 DEF IsBody
  <2>3. \A i \in 1 .. 4 : got'[i] = Bytes(n)[i]
    BY <1>3, <2>1, <2>2
  <2> QED  BY ONLY <1>1, <1>3, <2>1, <2>3, n \in Held, WholeNumber, Zenon
<1> QED  BY <1>4, <1>5

LEMMA TextRead ==
  ASSUME TypeOK, BufferReady, NEW o \in Nat, NEW p \in Nat, p = o + 4, NEW k \in Nat,
         Rest(queue, wire, p, k), NEW l \in Nat, Buffer!Read(l), NEW h \in Heap
  PROVE  /\ CString(got', h) \in Seq(Char)
         /\ Len(CString(got', h)) + 1 \in Held
         /\ \A t \in Seq(Char), n \in Nat :
              IsBody(wire, o, n, t) /\ Len(t) + 1 <= n /\ (k >= p => l = n) =>
                Keeps(CString(got', h), t, k - p)
<1>1. h \in Seq(Char) /\ Len(h) \in Nat /\ Len(h) + 1024 + 1 <= INT_MAX
  <2>1. h \in Seq(Char) /\ Len(h) + 1024 + 1 <= INT_MAX
    <3>1. h \in Seq(Char) /\ Len(h) + MAX_BUFFER_LENGTH + 1 <= INT_MAX
      BY FramingAssumption, Zenon DEF Char
    <3> QED  BY ONLY <3>1 DEF MAX_BUFFER_LENGTH
  <2> QED  BY ONLY <2>1, LenProperties
<1>2. /\ got' \in Seq(Byte) /\ Len(got') <= Len(queue)
      /\ \A i \in 1 .. Len(got') : got'[i] = wire[p + i] /\ p + i <= Len(wire)
      /\ \A i \in 1 .. l : p + i <= k => i <= Len(got')
  <2>1. wire \in Seq(Byte)
    BY TypesOf
  <2> QED  BY ONLY <2>1, TypeOK, BufferReady, p \in Nat, k \in Nat, l \in Nat,
                   Rest(queue, wire, p, k), Buffer!Read(l), ReadRest, Zenon
<1>3. wire \in Seq(Byte) /\ Len(queue) \in Nat
  BY TypesOf
<1>4. CString(got', h) \in Seq(Char) /\ Len(CString(got', h)) <= Len(got') + Len(h)
  BY <1>1, <1>2, CStringFacts
<1>5. Len(CString(got', h)) + 1 \in Held
  <2>1. Len(CString(got', h)) \in Nat /\ Len(got') \in Nat
    BY <1>2, <1>4
  <2>2. Len(queue) <= 1024
    BY DEF BufferReady, MAX_BUFFER_LENGTH
  <2>3. Len(CString(got', h)) + 1 \in Nat /\ Len(CString(got', h)) + 1 <= INT_MAX
    BY ONLY <1>1, <1>2, <1>3, <1>4, <2>1, <2>2, IntMax
  <2> QED  BY ONLY <2>3, IntMax DEF Held
<1>6. ASSUME NEW t \in Seq(Char), NEW n \in Nat,
             IsBody(wire, o, n, t), Len(t) + 1 <= n, k >= p => l = n
      PROVE  Keeps(CString(got', h), t, k - p)
  <2> DEFINE m == k - p
  <2>1. m \in Int /\ Len(t) \in Nat
    OBVIOUS
  <2>2. \A i \in 1 .. Len(t) + 1 : i <= m => i <= Len(got')
    <3> SUFFICES ASSUME NEW i \in 1 .. Len(t) + 1, i <= m PROVE i <= Len(got')
      OBVIOUS
    <3>1. i \in Nat /\ 1 <= i /\ k >= p /\ p + i <= k
      BY <2>1
    <3>2. i \in 1 .. l
      BY <1>6, <2>1, <3>1
    <3> QED  BY <1>2, <3>1, <3>2
  <2>3. \A i \in 1 .. Len(got') : got'[i] = wire[(o + 4) + i] /\ (o + 4) + i <= Len(wire)
    BY <1>2
  <2> HIDE DEF m
  <2>4. Keeps(CString(got', h), t, m)
    BY ONLY <1>1, <1>2, <1>3, <1>6, <2>1, <2>2, <2>3, o \in Nat, BodyKept
  <2> QED  BY <2>4 DEF m
<1> QED  BY <1>4, <1>5, <1>6

LEMMA Reading ==
  ASSUME TypeOK, BufferReady, NEW o \in Nat, NEW k \in Nat, Rest(queue, wire, o, k),
         NEW l \in Nat, Buffer!Read(l),
         UNCHANGED <<frameVars, wire, came>>,
         packetType' \in [1 .. 4 -> Byte], iLength' \in Int, szMessage' \in Seq(Byte)
  PROVE  TypeOK' /\ BufferReady' /\ Rest(queue', wire', o + l, k)
<1>1. /\ queue' \in Seq(Byte) /\ BufferReady' /\ Rest(queue', wire, o + l, k)
      /\ got' \in Seq(Byte) /\ asked' = l /\ threw' = FALSE
  BY TypesOf, ReadRest
<1>2. wire' = wire
  OBVIOUS
<1>3. TypeOK'
  <2>1. {text', pResult', wire', szMessage', queue', got'} \subseteq Seq(Byte)
    BY <1>1, TypesOf, Zenon DEF frameVars
  <2>2. {iResultSize', cap', asked'} \subseteq Nat
    BY <1>1, TypesOf DEF frameVars, BufferReady, MAX_BUFFER_LENGTH
  <2>3. {eof', error', threw'} \subseteq BOOLEAN
    BY <1>1 DEF BufferReady
  <2> QED  BY <2>1, <2>2, <2>3, Zenon DEF TypeOK
<1> QED  BY <1>1, <1>2, <1>3

LEMMA FreshBuffer ==
  ASSUME TypeOK, NEW s \in Seq(Byte), Len(s) <= 1024, Fresh(s),
         UNCHANGED <<frameVars, wire>>,
         packetType' \in [1 .. 4 -> Byte], iLength' \in Int, szMessage' \in Seq(Byte),
         came' \in [{"server", "head", "body"} -> 0 .. MAX_BUFFER_LENGTH]
  PROVE  TypeOK' /\ BufferReady' /\ queue' = s
<1>1. /\ queue' = s /\ got' = <<>> /\ asked' = 0
      /\ cap' = MAX_BUFFER_LENGTH /\ eof' = FALSE /\ error' = FALSE /\ threw' = FALSE
  BY DEF Fresh
<1>2. BufferReady'
  BY <1>1 DEF BufferReady, MAX_BUFFER_LENGTH
<1>3. TypeOK'
  <2>1. {text', pResult', wire', szMessage', queue', got'} \subseteq Seq(Byte)
    BY <1>1, TypesOf, EmptySeq, Zenon DEF frameVars
  <2>2. {iResultSize', cap', asked'} \subseteq Nat
    BY <1>1, TypesOf DEF frameVars, MAX_BUFFER_LENGTH
  <2>3. {eof', error', threw'} \subseteq BOOLEAN
    BY <1>1
  <2> QED  BY <2>1, <2>2, <2>3, Zenon DEF TypeOK
<1> QED  BY <1>1, <1>2, <1>3

(* What has come, from the first byte on.                                  *)
LEMMA RestOfPart ==
  ASSUME NEW w \in Seq(Byte), NEW s \in Seq(Byte), Len(s) <= Len(w),
         \A i \in 1 .. Len(s) : s[i] = w[i]
  PROVE  Rest(s, w, 0, Len(s))
<1>1. Len(s) \in Nat
  OBVIOUS
<1>2. \A i \in 1 .. Len(s) : 0 + i = i
  BY <1>1
<1>3. \A i \in 1 .. Len(s) : s[i] = w[0 + i]
  BY <1>2
<1>4. Len(s) = IF Len(s) >= 0 THEN Len(s) - 0 ELSE 0
  BY <1>1
<1> QED  BY <1>3, <1>4 DEF Rest
-------------------------------------------------------------------------------
LEMMA InBuffer ==
  ASSUME NEW x \in Nat, x <= 1024
  PROVE  x \in 0 .. MAX_BUFFER_LENGTH
  BY DEF MAX_BUFFER_LENGTH

LEMMA ServerReceivesStep ==
  ASSUME IInv, ServerReceives
  PROVE  IInv'
<1>1. /\ pc = "sent" /\ pc' = "s_type" /\ TypeOK /\ Typed
      /\ UNCHANGED <<frameVars, wire, iLength, szMessage>>
  BY DEF ServerReceives, Goes, IInv
<1>2. PICK s \in Part(wire, MAX_BUFFER_LENGTH) :
        Fresh(s) /\ came' = [came EXCEPT !.server = Len(s)]
  BY DEF ServerReceives
<1>3. /\ s \in Seq(Byte) /\ Len(s) <= Len(wire) /\ Len(s) <= 1024
      /\ \A i \in 1 .. Len(s) : s[i] = wire[i]
  <2>1. wire \in Seq(Byte)
    BY <1>1, TypesOf
  <2>2. MAX_BUFFER_LENGTH \in Nat /\ MAX_BUFFER_LENGTH > 0
    BY DEF MAX_BUFFER_LENGTH
  <2>3. /\ s \in Seq(Byte) /\ Len(s) <= Len(wire) /\ Len(s) <= MAX_BUFFER_LENGTH
        /\ \A i \in 1 .. Len(s) : s[i] = wire[i]
    BY ONLY <1>2, <2>1, <2>2, PartFacts, Zenon
  <2> QED  BY ONLY <2>3 DEF MAX_BUFFER_LENGTH
<1>4. Len(s) \in 0 .. MAX_BUFFER_LENGTH
  <2>1. Len(s) \in Nat /\ Len(s) <= 1024
    BY <1>3
  <2> QED  BY ONLY <2>1, InBuffer
<1>5. came' \in [{"server", "head", "body"} -> 0 .. MAX_BUFFER_LENGTH] /\ came'.server = Len(s)
  <2>1. came \in [{"server", "head", "body"} -> 0 .. MAX_BUFFER_LENGTH]
    BY <1>1, Zenon DEF TypeOK
  <2> QED  BY ONLY <1>2, <1>4, <2>1
<1>6. packetType' \in [1 .. 4 -> Byte]
  <2>1. PICK t \in {PACKET_TYPE_KICK, PACKET_TYPE_ACCEPT, PACKET_TYPE_MESSAGE} :
          packetType' = Bytes(t)
    BY DEF ServerReceives
  <2>2. t \in Held
    BY SmallHeld DEF PACKET_TYPE_KICK, PACKET_TYPE_ACCEPT, PACKET_TYPE_MESSAGE
  <2> QED  BY <2>1, <2>2, BytesFacts
<1>7. iLength' \in Int /\ szMessage' \in Seq(Byte)
  BY <1>1, TypesOf
<1>8. TypeOK' /\ BufferReady' /\ queue' = s
  BY <1>1, <1>2, <1>3, <1>5, <1>6, <1>7, FreshBuffer
<1>9. Typed'
  BY <1>1 DEF Typed, frameVars
<1>10. ClientFrame'
  BY <1>1 DEF IInv, ClientFrame, ServerPlaces, frameVars
<1>11. ServerHas'
  <2>1. Rest(queue', wire', 0, came'.server)
    BY <1>1, <1>3, <1>5, <1>8, TypesOf, RestOfPart
  <2> QED  BY <1>1, <2>1 DEF ServerHas, EchoPlaces, DisplayPlaces
<1>12. ServerFrame' /\ ClientHas'
  BY <1>1 DEF ServerFrame, ClientHas, DisplayPlaces
<1>13. FrameFits' /\ EchoExact' /\ CutKeepsPrefix' /\ LengthIsReal'
  BY <1>1 DEF FrameFits, EchoExact, CutKeepsPrefix, LengthIsReal
<1> QED  BY <1>8, <1>9, <1>10, <1>11, <1>12, <1>13 DEF IInv

LEMMA ServerTypeStep ==
  ASSUME IInv, ServerType
  PROVE  IInv'
<1>1. /\ pc = "s_type" /\ pc' \in {"s_length", "ignored"} /\ Buffer!Read(4)
      /\ TypeOK /\ BufferReady /\ Typed
      /\ packetType' = Over(got', packetType)
      /\ UNCHANGED <<frameVars, wire, iLength, szMessage, came>>
  BY DEF ServerType, IInv
<1>2. Rest(queue, wire, 0, came.server)
  BY <1>1 DEF IInv, ServerHas
<1>3. 0 \in Nat /\ 4 \in Nat /\ 0 + 4 = 4 /\ came.server \in Nat
  BY <1>1, TypesOf
<1>4. packetType' \in [1 .. 4 -> Byte]
  <2>1. got' \in Seq(Byte) /\ Len(got') <= 4
    BY <1>1, <1>2, <1>3, TypesOf, ReadRest
  <2> QED  BY <1>1, <2>1, TypesOf, OverFacts
<1>5. iLength' \in Int /\ szMessage' \in Seq(Byte)
  BY <1>1, TypesOf
<1>6. TypeOK' /\ BufferReady' /\ Rest(queue', wire', 4, came.server)
  BY <1>1, <1>2, <1>3, <1>4, <1>5, Reading
<1>7. Typed'
  BY <1>1 DEF Typed, frameVars
<1>8. ClientFrame'
  BY <1>1 DEF IInv, ClientFrame, ServerPlaces, frameVars
<1>9. ServerHas'
  BY <1>1, <1>6 DEF ServerHas, EchoPlaces, DisplayPlaces
<1>10. ServerFrame' /\ ClientHas'
  BY <1>1 DEF ServerFrame, ClientHas, DisplayPlaces
<1>11. FrameFits' /\ EchoExact' /\ CutKeepsPrefix' /\ LengthIsReal'
  BY <1>1 DEF FrameFits, EchoExact, CutKeepsPrefix, LengthIsReal
<1> QED  BY <1>6, <1>7, <1>8, <1>9, <1>10, <1>11 DEF IInv

LEMMA ServerLengthStep ==
  ASSUME IInv, ReadLength("s_length", "s_body")
  PROVE  IInv'
<1>1. /\ pc = "s_length" /\ pc' = "s_body" /\ Buffer!Read(4)
      /\ TypeOK /\ BufferReady /\ Typed
      /\ UNCHANGED <<frameVars, wire, packetType, szMessage, came>>
  BY DEF ReadLength, Goes, IInv
<1>2. PICK old \in Stack : iLength' = IntOf(Over(got', old))
  BY DEF ReadLength
<1> DEFINE n == Len(text) + 2
<1>3. Rest(queue, wire, 4, came.server) /\ IsBody(wire, 4, n, text)
  BY <1>1 DEF IInv, ServerHas, ClientFrame, ServerPlaces
<1>4. 4 \in Nat /\ came.server \in Nat
  BY <1>1, TypesOf
<1>5. n \in Held
  <2>1. Len(text) \in Nat /\ Len(text) <= 255
    BY <1>1 DEF Typed
  <2>2. \A x \in Nat : x <= 255 => x + 2 \in Held
    BY SmallHeld
  <2> QED  BY ONLY <2>1, <2>2
<1>6. /\ iLength' \in Int
      /\ \A z \in Held : \A t : IsBody(wire, 4, z, t) /\ came.server >= 4 + 4 =>
           iLength' = z
  <2> DEFINE v == IntOf(Over(got', old))
  <2>1. /\ v \in Int
        /\ \A z \in Held : \A t : IsBody(wire, 4, z, t) /\ came.server >= 4 + 4 => v = z
    BY ONLY <1>1, <1>2, <1>3, <1>4, LengthRead, Zenon
  <2> HIDE DEF v
  <2>2. iLength' = v
    BY <1>2 DEF v
  <2> QED  BY ONLY <2>1, <2>2, Zenon
<1>7. came.server >= 8 => iLength' = n
  <2>1. came.server >= 8 => came.server >= 4 + 4
    BY <1>4
  <2> HIDE DEF n
  <2> QED  BY ONLY <1>3, <1>5, <1>6, <2>1, Zenon
<1>8. packetType' \in [1 .. 4 -> Byte] /\ szMessage' \in Seq(Byte)
  BY <1>1, TypesOf
<1>9. TypeOK' /\ BufferReady' /\ Rest(queue', wire', 8, came.server)
  <2>1. UNCHANGED <<frameVars, wire, came>>
    BY <1>1
  <2>2. TypeOK' /\ BufferReady' /\ Rest(queue', wire', 4 + 4, came.server)
    BY ONLY <1>1, <1>3, <1>4, <1>6, <1>8, <2>1, Reading, Zenon
  <2>3. 4 + 4 = 8
    OBVIOUS
  <2> QED  BY <2>2, <2>3
<1>10. Typed'
  BY <1>1 DEF Typed, frameVars
<1>11. ClientFrame'
  BY <1>1 DEF IInv, ClientFrame, ServerPlaces, frameVars
<1>12. ServerHas'
  <2>1. text' = text /\ came' = came
    BY <1>1 DEF frameVars
  <2> QED  BY <1>1, <1>7, <1>9, <2>1 DEF ServerHas, EchoPlaces, DisplayPlaces
<1>13. ServerFrame' /\ ClientHas'
  BY <1>1 DEF ServerFrame, ClientHas, DisplayPlaces
<1>14. FrameFits' /\ EchoExact' /\ CutKeepsPrefix' /\ LengthIsReal'
  BY <1>1 DEF FrameFits, EchoExact, CutKeepsPrefix, LengthIsReal
<1> QED  BY <1>9, <1>10, <1>11, <1>12, <1>13, <1>14 DEF IInv

(* An allocation that fails, of a length that came with no packet.         *)
LEMMA Failing ==
  ASSUME IInv, NEW here, NewFails(here), here \in {"s_body", "c_body"},
         came.server < 8 \/ (came.head # 0 /\ (came.head < 4 \/ came.body < 4 \/ ~TextCame))
  PROVE  IInv'
<1>1. /\ pc = here /\ pc' = "thrown"
      /\ UNCHANGED <<frameVars, wire, readVars, came, bufferVars>>
  BY DEF NewFails, Goes
<1>2. TypeOK'
  BY <1>1, Zenon DEF IInv, TypeOK, frameVars, readVars, bufferVars
<1>3. BufferReady'
  BY <1>1 DEF IInv, BufferReady, bufferVars, MAX_BUFFER_LENGTH
<1>4. Typed'
  BY <1>1 DEF IInv, Typed, frameVars
<1>5. ClientFrame' /\ ServerHas' /\ ServerFrame' /\ ClientHas'
  BY <1>1 DEF ClientFrame, ServerHas, ServerFrame, ClientHas,
               ServerPlaces, EchoPlaces, DisplayPlaces
<1>6. FrameFits' /\ EchoExact' /\ CutKeepsPrefix'
  BY <1>1 DEF FrameFits, EchoExact, CutKeepsPrefix
<1>7. LengthIsReal'
  BY <1>1 DEF LengthIsReal, TextCame, frameVars
<1> QED  BY <1>2, <1>3, <1>4, <1>5, <1>6, <1>7 DEF IInv

LEMMA ServerFails ==
  ASSUME IInv, NewFails("s_body")
  PROVE  IInv'
<1>1. pc = "s_body" /\ TypeOK /\ Typed /\ (iLength < 0 \/ iLength > 1024)
  BY DEF NewFails, Goes, IInv, MAX_BUFFER_LENGTH
<1>2. came.server \in Nat
  BY <1>1, TypesOf
<1>3. Len(text) \in Nat /\ Len(text) <= 255
  BY <1>1 DEF Typed
<1>4. ~(came.server >= 8)
  <2> SUFFICES ASSUME came.server >= 8 PROVE FALSE
    OBVIOUS
  <2>1. iLength = Len(text) + 2
    BY <1>1 DEF IInv, ServerHas
  <2>2. \A x \in Nat : x <= 255 => ~(x + 2 < 0) /\ ~(x + 2 > 1024)
    OBVIOUS
  <2> QED  BY ONLY <1>1, <1>3, <2>1, <2>2
<1>5. came.server < 8
  BY <1>2, <1>4
<1> QED  BY <1>5, Failing

LEMMA ServerTextStep ==
  ASSUME IInv, ReadText("s_body", "s_new")
  PROVE  IInv'
<1>1. /\ pc = "s_body" /\ pc' = "s_new" /\ Buffer!Read(iLength) /\ iLength >= 0
      /\ TypeOK /\ BufferReady /\ Typed
      /\ UNCHANGED <<frameVars, wire, packetType, iLength, came>>
  BY DEF ReadText, Goes, IInv
<1>2. PICK h \in Heap : szMessage' = CString(got', h)
  BY DEF ReadText
<1> DEFINE n == Len(text) + 2
<1>3. /\ Rest(queue, wire, 8, came.server) /\ IsBody(wire, 4, n, text)
      /\ Len(wire) = Len(text) + 11
      /\ came.server >= 8 => iLength = n
  BY <1>1 DEF IInv, ServerHas, ClientFrame, ServerPlaces
<1>4. /\ 4 \in Nat /\ 8 \in Nat /\ 8 = 4 + 4 /\ came.server \in Nat
      /\ iLength \in Int /\ iLength \in Nat
  BY <1>1, TypesOf
<1>5. text \in Seq(Char) /\ Len(text) \in Nat /\ Len(text) <= 255
  BY <1>1 DEF Typed
<1>6. n \in Nat /\ Len(text) + 1 <= n
  BY <1>5
<1>7. /\ szMessage' \in Seq(Char)
      /\ Len(szMessage') + 1 \in Held
      /\ \A t \in Seq(Char), z \in Nat :
           IsBody(wire, 4, z, t) /\ Len(t) + 1 <= z /\ (came.server >= 8 => iLength = z) =>
             Keeps(szMessage', t, came.server - 8)
  BY ONLY <1>1, <1>2, <1>3, <1>4, TextRead, Zenon
<1>8. Keeps(szMessage', text, came.server - 8)
  <2> HIDE DEF n
  <2> QED  BY ONLY <1>3, <1>5, <1>6, <1>7, Zenon
<1>9. packetType' \in [1 .. 4 -> Byte] /\ iLength' \in Int /\ szMessage' \in Seq(Byte)
  BY <1>1, <1>7, TypesOf, TypedText
<1>10. TypeOK' /\ BufferReady'
  <2>1. UNCHANGED <<frameVars, wire, came>>
    BY <1>1
  <2> QED  BY ONLY <1>1, <1>3, <1>4, <1>9, <2>1, Reading, Zenon
<1>11. Typed'
  BY <1>1 DEF Typed, frameVars
<1>12. ClientFrame' /\ ServerFrame' /\ ClientHas'
  BY <1>1 DEF ClientFrame, ServerFrame, ClientHas, ServerPlaces, DisplayPlaces
<1>13. ServerHas'
  <2>1. text' = text /\ came' = came
    BY <1>1 DEF frameVars
  <2> QED  BY <1>1, <1>7, <1>8, <2>1 DEF ServerHas
<1>14. FrameFits' /\ EchoExact' /\ CutKeepsPrefix' /\ LengthIsReal'
  BY <1>1 DEF FrameFits, EchoExact, CutKeepsPrefix, LengthIsReal
<1> QED  BY <1>10, <1>11, <1>12, <1>13, <1>14 DEF IInv
-------------------------------------------------------------------------------
(* What the server has read is the same for as long as it is written.      *)
LEMMA StillHas ==
  ASSUME IInv, pc \in EchoPlaces, pc' \in EchoPlaces, UNCHANGED <<frameVars, readVars, came>>
  PROVE  ServerHas' /\ Typed'
<1>1. /\ szMessage \in Seq(Char) /\ Len(szMessage) + 1 \in Held
      /\ Keeps(szMessage, text, came.server - 8)
  BY DEF IInv, ServerHas
<1>2. szMessage' = szMessage /\ text' = text /\ came' = came /\ pResult' = pResult
      /\ iResultSize' = iResultSize
  BY DEF frameVars, readVars
<1>3. ServerHas'
  BY <1>1, <1>2 DEF ServerHas, EchoPlaces
<1>4. Typed'
  BY <1>2 DEF IInv, Typed, EchoPlaces
<1> QED  BY <1>3, <1>4

LEMMA PacketMessageStep ==
  ASSUME IInv, Packet_Message
  PROVE  IInv'
<1>1. /\ pc = "s_new" /\ pc' = "e_type" /\ Fresh(<<>>) /\ TypeOK
      /\ UNCHANGED <<frameVars, wire, readVars, came>>
  BY DEF Packet_Message, Goes, IInv
<1>2. ServerHas' /\ Typed'
  BY <1>1, StillHas DEF EchoPlaces
<1>3. /\ packetType' \in [1 .. 4 -> Byte] /\ iLength' \in Int /\ szMessage' \in Seq(Byte)
      /\ came' \in [{"server", "head", "body"} -> 0 .. MAX_BUFFER_LENGTH]
  <2>1. came \in [{"server", "head", "body"} -> 0 .. MAX_BUFFER_LENGTH]
    BY <1>1, Zenon DEF TypeOK
  <2> QED  BY <1>1, <2>1, TypesOf DEF readVars
<1>4. TypeOK' /\ BufferReady' /\ queue' = <<>>
  <2>1. <<>> \in Seq(Byte) /\ Len(<<>>) <= 1024 /\ UNCHANGED <<frameVars, wire>>
    BY <1>1
  <2> QED  BY ONLY <1>1, <1>3, <2>1, FreshBuffer, Zenon
<1>5. ClientFrame' /\ ServerFrame' /\ ClientHas'
  BY <1>1, <1>4 DEF ClientFrame, ServerFrame, ClientHas, ServerPlaces, DisplayPlaces
<1>6. FrameFits' /\ EchoExact' /\ CutKeepsPrefix' /\ LengthIsReal'
  BY <1>1 DEF FrameFits, EchoExact, CutKeepsPrefix, LengthIsReal
<1> QED  BY <1>2, <1>4, <1>5, <1>6 DEF IInv

LEMMA ServerWritesType ==
  ASSUME IInv, Write("e_type", Bytes(PACKET_TYPE_MESSAGE), "e_length")
  PROVE  IInv'
<1> DEFINE s == Bytes(PACKET_TYPE_MESSAGE)
<1>1. s \in Seq(Byte) /\ Len(s) = 4
  BY KindFacts
<1> HIDE DEF s
<1>2. Write("e_type", s, "e_length")
  BY DEF s
<1>3. queue = <<>>
  BY <1>2 DEF Write, Goes, IInv, ServerFrame
<1>4. Len(s) > 0 /\ Len(queue) + Len(s) <= 1024
  BY <1>1, <1>3
<1>5. /\ pc = "e_type" /\ pc' = "e_length"
      /\ queue' = queue \o s /\ FrameFits'
      /\ TypeOK' /\ BufferReady'
      /\ UNCHANGED <<frameVars, wire, readVars, came>>
  BY <1>1, <1>2, <1>4, Writing
<1>6. ServerHas' /\ Typed'
  BY <1>5, StillHas DEF EchoPlaces
<1>7. ServerFrame'
  BY <1>1, <1>3, <1>5 DEF ServerFrame
<1>8. ClientFrame' /\ ClientHas'
  BY <1>5 DEF ClientFrame, ClientHas, ServerPlaces, DisplayPlaces
<1>9. EchoExact' /\ CutKeepsPrefix' /\ LengthIsReal'
  BY <1>5 DEF EchoExact, CutKeepsPrefix, LengthIsReal
<1> QED  BY <1>5, <1>6, <1>7, <1>8, <1>9 DEF IInv

LEMMA ServerWritesLength ==
  ASSUME IInv, Write("e_length", Bytes(Len(szMessage) + 1), "e_body")
  PROVE  IInv'
<1> DEFINE n == Len(szMessage) + 1
           s == Bytes(n)
<1>1. pc = "e_length" /\ TypeOK /\ Len(queue) = 4 /\ queue \in Seq(Byte)
  BY TypesOf DEF Write, Goes, IInv, ServerFrame
<1>2. n \in Held
  BY <1>1 DEF IInv, ServerHas, EchoPlaces
<1>3. s \in Seq(Byte) /\ Len(s) = 4
  BY <1>2, BytesFacts
<1>4. Len(queue \o s) = 8 /\ \A i \in 1 .. 4 : (queue \o s)[4 + i] = s[i]
  <2> HIDE DEF n
  <2> QED  BY ONLY <1>1, <1>2, FrameHead, Zenon
<1>5. Write("e_length", s, "e_body")
  OBVIOUS
<1> HIDE DEF s
<1>6. Len(s) > 0 /\ Len(queue) + Len(s) <= 1024
  BY <1>1, <1>3
<1>7. /\ pc' = "e_body"
      /\ queue' = queue \o s /\ FrameFits'
      /\ TypeOK' /\ BufferReady'
      /\ UNCHANGED <<frameVars, wire, readVars, came>>
  BY <1>3, <1>5, <1>6, Writing
<1>8. ServerHas' /\ Typed'
  BY <1>1, <1>7, StillHas DEF EchoPlaces
<1>9. ServerFrame'
  <2>1. szMessage' = szMessage /\ s = Bytes(Len(szMessage') + 1)
    BY <1>7 DEF readVars, s
  <2>2. Len(queue') = 8 /\ \A i \in 1 .. 4 : queue'[4 + i] = Bytes(Len(szMessage') + 1)[i]
    BY <1>4, <1>7, <2>1
  <2> QED  BY <1>7, <2>2 DEF ServerFrame
<1>10. ClientFrame' /\ ClientHas'
  BY <1>7 DEF ClientFrame, ClientHas, ServerPlaces, DisplayPlaces
<1>11. EchoExact' /\ CutKeepsPrefix' /\ LengthIsReal'
  BY <1>7 DEF EchoExact, CutKeepsPrefix, LengthIsReal
<1> QED  BY <1>7, <1>8, <1>9, <1>10, <1>11 DEF IInv

(* What the server was sent whole has the length of a text.                *)
LEMMA TextOrCut ==
  ASSUME IInv, pc \in EchoPlaces \cup DisplayPlaces, TextCame
  PROVE  Len(szMessage) <= 255
<1>1. Keeps(szMessage, text, came.server - 8) /\ came.server \in Nat
  BY TypesOf DEF IInv, ServerHas
<1>2. text \in Seq(Char) /\ Len(text) <= 255
  BY DEF IInv, Typed, EchoPlaces, DisplayPlaces
<1>3. came.server - 8 > Len(text)
  BY ONLY <1>1, <1>2, TextCame DEF TextCame
<1>4. szMessage = text
  BY <1>1, <1>3 DEF Keeps
<1> QED  BY <1>2, <1>4

LEMMA ServerWritesBody ==
  ASSUME IInv, Write("e_body", szMessage \o << 0 >>, "e_sending")
  PROVE  IInv'
<1> DEFINE n == Len(szMessage) + 1
           s == szMessage \o <<0>>
<1>1. /\ pc = "e_body" /\ TypeOK /\ Len(queue) = 8 /\ queue \in Seq(Byte)
      /\ \A i \in 1 .. 4 : queue[4 + i] = Bytes(n)[i]
  BY TypesOf DEF Write, Goes, IInv, ServerFrame
<1>2. szMessage \in Seq(Char)
  BY <1>1 DEF IInv, ServerHas, EchoPlaces
<1>3. /\ s \in Seq(Byte) /\ Len(s) = n /\ Len(szMessage) \in Nat /\ n \in Int
      /\ (\A i \in 1 .. Len(szMessage) : s[i] = szMessage[i]) /\ s[Len(szMessage) + 1] = 0
  BY <1>2, TypedText
<1>4. Write("e_body", s, "e_sending")
  OBVIOUS
<1> HIDE DEF s
<1>5. TextCame => n <= 1016
  BY <1>1, <1>3, TextOrCut DEF EchoPlaces
(* What is written is s, or what fits of it.                               *)
<1> DEFINE Written(t) ==
      /\ t \in Seq(Byte)
      /\ \A i \in 1 .. Len(szMessage) : i <= Len(t) => t[i] = szMessage[i]
      /\ Len(szMessage) + 1 <= Len(t) => t[Len(szMessage) + 1] = 0
      /\ queue' = queue \o t
<1>6. /\ pc' = "e_sending" /\ FrameFits'
      /\ \E t : Written(t)
      /\ TypeOK' /\ BufferReady'
      /\ UNCHANGED <<frameVars, wire, readVars, came>>
  <2>1. CASE n <= 1016
    <3>1. Len(s) > 0 /\ Len(queue) + Len(s) <= 1024
      BY <1>1, <1>3, <2>1
    <3>2. /\ pc' = "e_sending"
          /\ queue' = queue \o s /\ FrameFits'
          /\ TypeOK' /\ BufferReady'
          /\ UNCHANGED <<frameVars, wire, readVars, came>>
      BY <1>3, <1>4, <3>1, Writing
    <3>3. Written(s)
      BY <1>3, <3>2
    <3> HIDE DEF Written
    <3> QED  BY <3>2, <3>3
  <2>2. CASE ~(n <= 1016)
    <3>1. PICK k \in Nat : k = 1016
      OBVIOUS
    <3>2. Len(queue) + k = MAX_BUFFER_LENGTH /\ 0 < k /\ k < Len(s) /\ ~TextCame
      BY <1>1, <1>3, <1>5, <2>2, <3>1 DEF MAX_BUFFER_LENGTH
    <3> DEFINE t == SubSeq(s, 1, k)
    <3>3. /\ pc' = "e_sending"
          /\ queue' = queue \o t /\ FrameFits'
          /\ t \in Seq(Byte) /\ Len(t) = k
          /\ \A i \in 1 .. k : t[i] = s[i]
          /\ TypeOK' /\ BufferReady'
          /\ UNCHANGED <<frameVars, wire, readVars, came>>
      <4>1. s \in Seq(Byte)
        BY <1>3
      <4> QED  BY ONLY IInv, k \in Nat, <1>4, <3>2, <4>1, WritingCut, Zenon
    <3> HIDE DEF t
    <3>4. ASSUME NEW i \in 1 .. Len(szMessage), i <= Len(t)
          PROVE  t[i] = szMessage[i]
      <4>1. i \in 1 .. k
        BY ONLY <1>3, <3>3, <3>4, k \in Nat
      <4> QED  BY ONLY <1>3, <3>3, <4>1, i \in 1 .. Len(szMessage)
    <3>5. ~(Len(szMessage) + 1 <= Len(t))
      BY ONLY <2>2, <3>1, <3>3
    <3>6. Written(t)
      BY <3>3, <3>4, <3>5
    <3> HIDE DEF Written
    <3> QED  BY <3>3, <3>6
  <2> QED  BY <2>1, <2>2
<1>7. ServerHas' /\ Typed'
  BY <1>1, <1>6, StillHas DEF EchoPlaces
<1>8. IsBody(queue', 4, n, szMessage)
  <2>1. PICK t : Written(t)
    BY <1>6, Zenon
  <2>2. queue \in Seq(Byte)
    BY <1>1
  <2>3. Len(queue) = 8
    BY <1>1
  <2>4. \A i \in 1 .. 4 : queue[4 + i] = Bytes(n)[i]
    BY <1>1
  <2>5. szMessage \in Seq(Char) /\ n \in Int
    BY <1>2, <1>3
  <2>6. /\ t \in Seq(Byte)
        /\ \A i \in 1 .. Len(szMessage) : i <= Len(t) => t[i] = szMessage[i]
        /\ Len(szMessage) + 1 <= Len(t) => t[Len(szMessage) + 1] = 0
        /\ queue' = queue \o t
    BY <2>1, Zenon
  <2> HIDE DEF n
  <2>7. IsBody(queue \o t, 4, n, szMessage)
    BY ONLY <2>2, <2>3, <2>4, <2>5, <2>6, FrameBody, Zenon
  <2> QED  BY ONLY <2>6, <2>7, Zenon
<1>9. ServerFrame'
  <2>1. szMessage' = szMessage
    BY <1>6 DEF readVars
  <2>2. IsBody(queue', 4, Len(szMessage') + 1, szMessage')
    BY <1>8, <2>1
  <2> QED  BY <1>6, <2>2 DEF ServerFrame
<1>10. ClientFrame' /\ ClientHas'
  BY <1>6 DEF ClientFrame, ClientHas, ServerPlaces, DisplayPlaces
<1>11. EchoExact' /\ CutKeepsPrefix' /\ LengthIsReal'
  BY <1>6 DEF EchoExact, CutKeepsPrefix, LengthIsReal
<1> QED  BY <1>6, <1>7, <1>9, <1>10, <1>11 DEF IInv

LEMMA ServerSends ==
  ASSUME IInv, SendBytes("e_sending", "e_sent")
  PROVE  IInv'
<1>1. /\ pc = "e_sending" /\ pc' = "e_sent"
      /\ wire' = queue /\ queue' = <<>>
      /\ TypeOK' /\ BufferReady'
      /\ UNCHANGED <<frameVars, readVars, came>>
  BY Sending
<1>2. ServerHas' /\ Typed'
  BY <1>1, StillHas DEF EchoPlaces
<1>3. ServerFrame'
  <2>1. IsBody(queue, 4, Len(szMessage) + 1, szMessage)
    BY <1>1 DEF IInv, ServerFrame
  <2>2. szMessage' = szMessage
    BY <1>1 DEF readVars
  <2>3. IsBody(wire', 4, Len(szMessage') + 1, szMessage')
    BY <1>1, <2>1, <2>2
  <2> QED  BY <1>1, <2>3 DEF ServerFrame
<1>4. ClientFrame' /\ ClientHas'
  BY <1>1 DEF ClientFrame, ClientHas, ServerPlaces, DisplayPlaces
<1>5. FrameFits' /\ EchoExact' /\ CutKeepsPrefix' /\ LengthIsReal'
  BY <1>1 DEF FrameFits, EchoExact, CutKeepsPrefix, LengthIsReal
<1> QED  BY <1>1, <1>2, <1>3, <1>4, <1>5 DEF IInv
-------------------------------------------------------------------------------
(* A receive of the first four bytes leaves the rest of the frame.         *)
LEMMA BodyShift ==
  ASSUME NEW w \in Seq(Byte), NEW n \in Int, NEW t \in Seq(Char), IsBody(w, 4, n, t)
  PROVE  IsBody(SubSeq(w, 5, Len(w)), 0, n, t)
<1> DEFINE r == SubSeq(w, 5, Len(w))
<1>1. /\ Len(w) >= 4 + 4
      /\ \A i \in 1 .. 4 : w[4 + i] = Bytes(n)[i]
      /\ \A i \in 1 .. Len(t) : 4 + 4 + i <= Len(w) => w[4 + 4 + i] = t[i]
      /\ 4 + 5 + Len(t) <= Len(w) => w[4 + 5 + Len(t)] = 0
  BY DEF IsBody
<1>2. Len(w) \in Nat /\ Len(t) \in Nat
  BY LenProperties
<1>3. Len(w) >= 8
  BY ONLY <1>1, <1>2
<1>4. Len(r) = Len(w) - 4 /\ \A i \in 1 .. Len(w) - 4 : r[i] = w[4 + i]
  BY ONLY <1>2, <1>3, w \in Seq(Byte)
<1> HIDE DEF r
<1>5. Len(r) >= 0 + 4
  BY ONLY <1>2, <1>3, <1>4
<1>6. \A i \in 1 .. 4 : r[0 + i] = Bytes(n)[i]
  <2> SUFFICES ASSUME NEW i \in 1 .. 4 PROVE r[0 + i] = Bytes(n)[i]
    OBVIOUS
  <2>1. i \in 1 .. Len(w) - 4 /\ 0 + i = i
    BY ONLY <1>2, <1>3, i \in 1 .. 4
  <2>2. r[i] = w[4 + i] /\ w[4 + i] = Bytes(n)[i]
    BY <1>1, <1>4, <2>1, Zenon
  <2> QED  BY ONLY <2>1, <2>2
<1>7. \A i \in 1 .. Len(t) : 0 + 4 + i <= Len(r) => r[0 + 4 + i] = t[i]
  <2> SUFFICES ASSUME NEW i \in 1 .. Len(t), 0 + 4 + i <= Len(r) PROVE r[0 + 4 + i] = t[i]
    OBVIOUS
  <2>1. /\ 0 + 4 + i \in 1 .. Len(w) - 4 /\ 4 + (0 + 4 + i) = 4 + 4 + i
        /\ 4 + 4 + i <= Len(w)
    BY ONLY <1>2, <1>3, <1>4, i \in 1 .. Len(t), 0 + 4 + i <= Len(r)
  <2>2. r[0 + 4 + i] = w[4 + (0 + 4 + i)] /\ w[4 + 4 + i] = t[i]
    BY <1>1, <1>4, <2>1, Zenon
  <2> QED  BY ONLY <2>1, <2>2
<1>8. 0 + 5 + Len(t) <= Len(r) => r[0 + 5 + Len(t)] = 0
  <2> SUFFICES ASSUME 0 + 5 + Len(t) <= Len(r) PROVE r[0 + 5 + Len(t)] = 0
    OBVIOUS
  <2>1. /\ 0 + 5 + Len(t) \in 1 .. Len(w) - 4 /\ 4 + (0 + 5 + Len(t)) = 4 + 5 + Len(t)
        /\ 4 + 5 + Len(t) <= Len(w)
    BY ONLY <1>2, <1>3, <1>4, 0 + 5 + Len(t) <= Len(r)
  <2>2. r[0 + 5 + Len(t)] = w[4 + (0 + 5 + Len(t))]
    BY <1>4, <2>1, Zenon
  <2> QED  BY ONLY <1>1, <2>1, <2>2
<1>9. IsBody(r, 0, n, t)
  BY ONLY <1>5, <1>6, <1>7, <1>8, Zenon DEF IsBody
<1> QED  BY <1>9 DEF r

(* What the client has is the same while it reads.                         *)
LEMMA StillDisplays ==
  ASSUME IInv, pc \in {"e_sent"} \cup DisplayPlaces, pc' \in DisplayPlaces,
         UNCHANGED <<frameVars, szMessage>>, came'.server = came.server
  PROVE  ServerHas' /\ Typed' /\ ServerFrame' /\ ClientFrame'
<1>1. /\ szMessage \in Seq(Char) /\ Len(szMessage) + 1 \in Held
      /\ Keeps(szMessage, text, came.server - 8)
  BY DEF IInv, ServerHas, EchoPlaces
<1>2. szMessage' = szMessage /\ text' = text /\ pResult' = pResult /\ iResultSize' = iResultSize
  BY DEF frameVars
<1>3. ServerHas'
  BY <1>1, <1>2 DEF ServerHas, DisplayPlaces
<1>4. Typed'
  BY <1>2 DEF IInv, Typed, DisplayPlaces
<1>5. ServerFrame' /\ ClientFrame'
  BY DEF ServerFrame, ClientFrame, ServerPlaces, DisplayPlaces
<1> QED  BY <1>3, <1>4, <1>5

LEMMA ClientTypeStep ==
  ASSUME IInv, ClientType
  PROVE  IInv'
<1>1. /\ pc = "e_sent" /\ pc' = "c_rest" /\ TypeOK /\ BufferReady
      /\ UNCHANGED <<frameVars, iLength, szMessage, bufferVars>>
  BY DEF ClientType, Goes, IInv
<1>2. PICK s \in Part(wire, 4), old \in Stack :
        /\ packetType' = Over(s, old)
        /\ wire' = SubSeq(wire, Len(s) + 1, Len(wire))
        /\ came' = [came EXCEPT !.head = Len(s)]
  BY DEF ClientType
<1> DEFINE n == Len(szMessage) + 1
<1>3. /\ wire \in Seq(Byte) /\ IsBody(wire, 4, n, szMessage)
      /\ szMessage \in Seq(Char) /\ Len(szMessage) \in Nat /\ n \in Int
  <2>1. wire \in Seq(Byte)
    BY <1>1, TypesOf
  <2>2. IsBody(wire, 4, n, szMessage) /\ szMessage \in Seq(Char)
    BY <1>1 DEF IInv, ServerHas, ServerFrame, EchoPlaces
  <2>3. Len(szMessage) \in Nat
    BY ONLY <2>2, LenProperties
  <2> QED  BY <2>1, <2>2, <2>3
<1>4. Len(wire) > 0
  <2>1. Len(wire) \in Nat
    BY <1>3
  <2>2. Len(wire) >= 4 + 4
    BY <1>3 DEF IsBody
  <2> QED  BY ONLY <2>1, <2>2
<1>5. /\ s \in Seq(Byte) /\ Len(s) <= 4 /\ Len(s) > 0 /\ Len(s) <= Len(wire)
  <2>1. 4 \in Nat /\ 4 > 0
    OBVIOUS
  <2> QED  BY ONLY <1>2, <1>3, <1>4, <2>1, PartFacts, Zenon
<1>6. Len(s) \in 1 .. 4 /\ Len(s) \in Nat
  <2>1. Len(s) \in Nat
    BY ONLY <1>5, LenProperties
  <2>2. \A x \in Nat : x <= 4 /\ x > 0 => x \in 1 .. 4
    OBVIOUS
  <2> QED  BY ONLY <1>5, <2>1, <2>2
<1>7. /\ came' \in [{"server", "head", "body"} -> 0 .. MAX_BUFFER_LENGTH]
      /\ came'.head = Len(s) /\ came'.server = came.server
  <2>1. came \in [{"server", "head", "body"} -> 0 .. MAX_BUFFER_LENGTH]
    BY <1>1, Zenon DEF TypeOK
  <2>2. \A x \in Nat : x <= 4 => x <= 1024
    OBVIOUS
  <2>3. Len(s) \in 0 .. MAX_BUFFER_LENGTH
    BY <1>5, <1>6, <2>2, InBuffer
  <2> QED  BY ONLY <1>2, <2>1, <2>3
<1>8. packetType' \in [1 .. 4 -> Byte] /\ wire' \in Seq(Byte)
  <2>1. old \in [1 .. 4 -> Byte]
    BY FramingAssumption
  <2>2. packetType' \in [1 .. 4 -> Byte]
    BY <1>2, <1>5, <2>1, OverFacts
  <2>3. SubSeq(wire, Len(s) + 1, Len(wire)) \in Seq(Byte)
    BY ONLY <1>3, <1>5, <1>6
  <2> QED  BY <1>2, <2>2, <2>3
<1>9. TypeOK' /\ BufferReady'
  <2>1. /\ queue' = queue /\ cap' = cap /\ eof' = eof /\ error' = error /\ asked' = asked
        /\ got' = got /\ threw' = threw /\ text' = text /\ pResult' = pResult
        /\ iResultSize' = iResultSize /\ iLength' = iLength /\ szMessage' = szMessage
    BY <1>1 DEF bufferVars, frameVars
  <2>2. TypeOK'
    BY <1>1, <1>7, <1>8, <2>1, Zenon DEF TypeOK
  <2> QED  BY <1>1, <2>1, <2>2 DEF BufferReady, MAX_BUFFER_LENGTH
<1>10. ServerHas' /\ Typed' /\ ServerFrame' /\ ClientFrame'
  BY <1>1, <1>7, StillDisplays DEF DisplayPlaces
<1>11. ClientHas'
  <2>1. came'.head = 4 => IsBody(wire', 0, Len(szMessage') + 1, szMessage')
    <3> HAVE came'.head = 4
    <3>1. Len(s) + 1 = 5 /\ szMessage' = szMessage
      BY <1>1, <1>7
    <3>2. IsBody(SubSeq(wire, 5, Len(wire)), 0, n, szMessage)
      <4> HIDE DEF n
      <4> QED  BY ONLY <1>3, BodyShift, Zenon
    <3> QED  BY <1>2, <3>1, <3>2
  <2> QED  BY <1>1, <1>6, <1>7, <2>1 DEF ClientHas
<1>12. FrameFits' /\ EchoExact' /\ CutKeepsPrefix' /\ LengthIsReal'
  BY <1>1 DEF FrameFits, EchoExact, CutKeepsPrefix, LengthIsReal
<1> QED  BY <1>9, <1>10, <1>11, <1>12 DEF IInv

(* A packet that the client leaves alone.                                  *)
LEMMA Ignoring ==
  ASSUME IInv, TypeOK', BufferReady', pc \notin {"menu", "overflow", "new"}, pc' = "ignored",
         UNCHANGED frameVars
  PROVE  IInv'
<1>1. Typed'
  BY DEF IInv, Typed, frameVars
<1>2. ClientFrame' /\ ServerHas' /\ ServerFrame' /\ ClientHas'
  BY DEF ClientFrame, ServerHas, ServerFrame, ClientHas,
               ServerPlaces, EchoPlaces, DisplayPlaces
<1>3. FrameFits' /\ EchoExact' /\ CutKeepsPrefix' /\ LengthIsReal'
  BY DEF FrameFits, EchoExact, CutKeepsPrefix, LengthIsReal
<1> QED  BY <1>1, <1>2, <1>3 DEF IInv

LEMMA ClientReceivesStep ==
  ASSUME IInv, ClientReceives
  PROVE  IInv'
<1>1. /\ pc = "c_rest" /\ pc' \in {"c_length", "ignored"} /\ TypeOK
      /\ UNCHANGED <<frameVars, wire, readVars>>
  BY DEF ClientReceives, Goes, IInv
<1>2. PICK s \in Part(wire, MAX_BUFFER_LENGTH) \cup {<<>>} :
        Fresh(s) /\ came' = [came EXCEPT !.body = Len(s)]
  BY DEF ClientReceives
<1>3. /\ s \in Seq(Byte) /\ Len(s) <= Len(wire) /\ Len(s) <= 1024
      /\ \A i \in 1 .. Len(s) : s[i] = wire[i]
  <2>1. wire \in Seq(Byte)
    BY <1>1, TypesOf
  <2>2. MAX_BUFFER_LENGTH \in Nat /\ MAX_BUFFER_LENGTH > 0
    BY DEF MAX_BUFFER_LENGTH
  <2>3. CASE s \in Part(wire, MAX_BUFFER_LENGTH)
    <3>1. /\ s \in Seq(Byte) /\ Len(s) <= Len(wire) /\ Len(s) <= MAX_BUFFER_LENGTH
          /\ \A i \in 1 .. Len(s) : s[i] = wire[i]
      BY ONLY <2>1, <2>2, <2>3, PartFacts, Zenon
    <3> QED  BY ONLY <3>1 DEF MAX_BUFFER_LENGTH
  <2>4. CASE s = <<>>
    BY ONLY <2>1, <2>4
  <2> QED  BY ONLY <1>2, <2>3, <2>4
<1>4. Len(s) \in 0 .. MAX_BUFFER_LENGTH
  <2>1. Len(s) \in Nat /\ Len(s) <= 1024
    BY <1>3
  <2> QED  BY ONLY <2>1, InBuffer
<1>5. /\ came' \in [{"server", "head", "body"} -> 0 .. MAX_BUFFER_LENGTH]
      /\ came'.body = Len(s) /\ came'.server = came.server /\ came'.head = came.head
  <2>1. came \in [{"server", "head", "body"} -> 0 .. MAX_BUFFER_LENGTH]
    BY <1>1, Zenon DEF TypeOK
  <2> QED  BY ONLY <1>2, <1>4, <2>1
<1>6. packetType' \in [1 .. 4 -> Byte] /\ iLength' \in Int /\ szMessage' \in Seq(Byte)
  BY <1>1, TypesOf DEF readVars
<1>7. TypeOK' /\ BufferReady' /\ queue' = s
  <2>1. UNCHANGED <<frameVars, wire>>
    BY <1>1
  <2>2. /\ TypeOK /\ Fresh(s) /\ s \in Seq(Byte) /\ Len(s) <= 1024
        /\ came' \in [{"server", "head", "body"} -> 0 .. MAX_BUFFER_LENGTH]
    BY ONLY <1>1, <1>2, <1>3, <1>5
  <2> QED  BY ONLY <1>6, <2>1, <2>2, FreshBuffer
<1>8. CASE pc' = "ignored"
  BY <1>1, <1>7, <1>8, Ignoring
<1>9. CASE pc' = "c_length"
  <2>1. wire' = wire /\ szMessage' = szMessage
    BY <1>1 DEF readVars
  <2>2. ServerHas' /\ Typed' /\ ServerFrame' /\ ClientFrame'
    BY <1>1, <1>5, <1>9, <2>1, StillDisplays DEF DisplayPlaces
  <2>3. ClientHas'
    <3>1. /\ came.head \in 1 .. 4
          /\ came.head = 4 => IsBody(wire, 0, Len(szMessage) + 1, szMessage)
      BY <1>1 DEF IInv, ClientHas, DisplayPlaces
    <3>2. Rest(queue', wire', 0, came'.body)
      <4>1. wire \in Seq(Byte)
        BY <1>1, TypesOf
      <4> QED  BY <1>3, <1>5, <1>7, <2>1, <4>1, RestOfPart
    <3> QED  BY <1>5, <1>9, <2>1, <3>1, <3>2 DEF ClientHas
  <2>4. FrameFits' /\ EchoExact' /\ CutKeepsPrefix' /\ LengthIsReal'
    BY <1>9 DEF FrameFits, EchoExact, CutKeepsPrefix, LengthIsReal
  <2> QED  BY <1>7, <2>2, <2>3, <2>4 DEF IInv
<1> QED  BY <1>1, <1>8, <1>9

LEMMA ClientLengthStep ==
  ASSUME IInv, ReadLength("c_length", "c_body")
  PROVE  IInv'
<1>1. /\ pc = "c_length" /\ pc' = "c_body" /\ Buffer!Read(4)
      /\ TypeOK /\ BufferReady
      /\ UNCHANGED <<frameVars, wire, packetType, szMessage, came>>
  BY DEF ReadLength, Goes, IInv
<1>2. PICK old \in Stack : iLength' = IntOf(Over(got', old))
  BY DEF ReadLength
<1> DEFINE n == Len(szMessage) + 1
<1>3. /\ Rest(queue, wire, 0, came.body)
      /\ came.head \in 1 .. 4
      /\ came.head = 4 => IsBody(wire, 0, n, szMessage)
  BY <1>1 DEF IInv, ClientHas, DisplayPlaces
<1>4. 0 \in Nat /\ 4 \in Nat /\ came.body \in Nat
  BY <1>1, TypesOf
<1>5. n \in Held
  BY <1>1 DEF IInv, ServerHas, DisplayPlaces
<1>6. /\ iLength' \in Int
      /\ \A z \in Held : \A t : IsBody(wire, 0, z, t) /\ came.body >= 0 + 4 =>
           iLength' = z
  <2> DEFINE v == IntOf(Over(got', old))
  <2>1. /\ v \in Int
        /\ \A z \in Held : \A t : IsBody(wire, 0, z, t) /\ came.body >= 0 + 4 => v = z
    BY ONLY <1>1, <1>2, <1>3, <1>4, LengthRead, Zenon
  <2> HIDE DEF v
  <2>2. iLength' = v
    BY <1>2 DEF v
  <2> QED  BY ONLY <2>1, <2>2, Zenon
<1>7. came.head = 4 /\ came.body >= 4 => iLength' = n
  <2>1. came.body >= 4 => came.body >= 0 + 4
    BY <1>4
  <2> HIDE DEF n
  <2> QED  BY ONLY <1>3, <1>5, <1>6, <2>1, Zenon
<1>8. packetType' \in [1 .. 4 -> Byte] /\ szMessage' \in Seq(Byte)
  BY <1>1, TypesOf
<1>9. TypeOK' /\ BufferReady' /\ Rest(queue', wire', 4, came.body)
  <2>1. UNCHANGED <<frameVars, wire, came>>
    BY <1>1
  <2>2. TypeOK' /\ BufferReady' /\ Rest(queue', wire', 0 + 4, came.body)
    BY ONLY <1>1, <1>3, <1>4, <1>6, <1>8, <2>1, Reading, Zenon
  <2>3. 0 + 4 = 4
    OBVIOUS
  <2> QED  BY <2>2, <2>3
<1>10. ServerHas' /\ Typed' /\ ServerFrame' /\ ClientFrame'
  BY <1>1, StillDisplays DEF DisplayPlaces
<1>11. ClientHas'
  <2>1. wire' = wire /\ szMessage' = szMessage /\ came' = came
    BY <1>1
  <2> QED  BY <1>1, <1>3, <1>7, <1>9, <2>1 DEF ClientHas
<1>12. FrameFits' /\ EchoExact' /\ CutKeepsPrefix' /\ LengthIsReal'
  BY <1>1 DEF FrameFits, EchoExact, CutKeepsPrefix, LengthIsReal
<1> QED  BY <1>9, <1>10, <1>11, <1>12 DEF IInv

LEMMA ClientFails ==
  ASSUME IInv, NewFails("c_body")
  PROVE  IInv'
<1>1. pc = "c_body" /\ TypeOK /\ (iLength < 0 \/ iLength > 1024)
  BY DEF NewFails, Goes, IInv, MAX_BUFFER_LENGTH
<1>2. /\ came.head \in 1 .. 4 /\ came.body \in Nat
      /\ came.head = 4 /\ came.body >= 4 => iLength = Len(szMessage) + 1
  BY <1>1, TypesOf DEF IInv, ClientHas, DisplayPlaces
<1>3. Len(szMessage) \in Nat
  BY <1>1, TypesOf
<1>4. ~(came.head = 4 /\ came.body >= 4 /\ TextCame)
  <2> SUFFICES ASSUME came.head = 4, came.body >= 4, TextCame PROVE FALSE
    OBVIOUS
  <2>1. Len(szMessage) <= 255
    BY <1>1, TextOrCut DEF DisplayPlaces
  <2>2. \A x \in Nat : x <= 255 => ~(x + 1 < 0) /\ ~(x + 1 > 1024)
    OBVIOUS
  <2> QED  BY ONLY <1>1, <1>2, <1>3, <2>1, <2>2, came.head = 4, came.body >= 4
<1>5. came.head # 0 /\ (came.head < 4 \/ came.body < 4 \/ ~TextCame)
  BY ONLY <1>2, <1>4
<1> QED  BY <1>5, Failing
-------------------------------------------------------------------------------
LEMMA Beginning ==
  ASSUME NEW s \in Seq(Char), NEW k \in Nat, k <= Len(s)
  PROVE  /\ SubSeq(s, 1, k) \in Seq(Char) /\ Len(SubSeq(s, 1, k)) = k
         /\ \A i \in 1 .. k : SubSeq(s, 1, k)[i] = s[i]
<1> DEFINE S == Char
<1>1. s \in Seq(S) /\ Len(s) \in Nat
  BY LenProperties
<1> HIDE DEF S
<1>2. /\ SubSeq(s, 1, k) \in Seq(S) /\ Len(SubSeq(s, 1, k)) = k
      /\ \A i \in 1 .. k : SubSeq(s, 1, k)[i] = s[i]
  BY ONLY <1>1, k \in Nat, k <= Len(s)
<1> QED  BY <1>2 DEF S

(* What is kept of what is kept.                                           *)
LEMMA KeptTwice ==
  ASSUME NEW t \in Seq(Char), NEW u \in Seq(Char), NEW v \in Seq(Char),
         NEW a \in Int, NEW b \in Int, Keeps(u, t, a), Keeps(v, u, b)
  PROVE  /\ a > Len(t) /\ b > Len(t) => v = t
         /\ \A k \in 0 .. Len(t) : k <= a /\ k <= b => IsPrefix(SubSeq(t, 1, k), v)
<1>1. Len(t) \in Nat /\ Len(u) \in Nat /\ Len(v) \in Nat
  BY LenProperties
<1>2. /\ \A i \in 1 .. Len(t) : i <= a => i <= Len(u) /\ u[i] = t[i]
      /\ a > Len(t) => u = t
      /\ \A i \in 1 .. Len(u) : i <= b => i <= Len(v) /\ v[i] = u[i]
      /\ b > Len(u) => v = u
  BY Zenon DEF Keeps
<1>3. a > Len(t) /\ b > Len(t) => v = t
  BY ONLY <1>2, Zenon
<1>4. ASSUME NEW k \in 0 .. Len(t), k <= a, k <= b
      PROVE  IsPrefix(SubSeq(t, 1, k), v)
  <2> DEFINE p == SubSeq(t, 1, k)
  <2>0. k \in Nat /\ k <= Len(t)
    BY ONLY <1>1, k \in 0 .. Len(t)
  <2>1. p \in Seq(Char) /\ Len(p) = k /\ \A i \in 1 .. k : p[i] = t[i]
    BY ONLY <2>0, t \in Seq(Char), Beginning, Zenon
  <2>2. \A i \in 1 .. k : i <= Len(v) /\ v[i] = t[i]
    <3> SUFFICES ASSUME NEW i \in 1 .. k PROVE i <= Len(v) /\ v[i] = t[i]
      OBVIOUS
    <3>1. i \in 1 .. Len(t) /\ i <= a /\ i <= b
      BY ONLY <1>1, <1>4, k \in 0 .. Len(t), i \in 1 .. k, a \in Int, b \in Int
    <3>2. i <= Len(u) /\ u[i] = t[i]
      BY ONLY <1>2, <3>1, Zenon
    <3>3. i \in 1 .. Len(u)
      BY ONLY <1>1, <3>1, <3>2
    <3> QED  BY ONLY <1>2, <3>1, <3>2, <3>3
  <2>3. k <= Len(v)
    <3>1. k \in Nat /\ (k = 0 \/ k \in 1 .. k)
      BY <1>1
    <3> QED  BY ONLY <1>1, <2>2, <3>1
  <2> HIDE DEF p
  <2>4. SubSeq(p, 1, Len(p)) = SubSeq(v, 1, Len(p))
    <3>1. SubSeq(p, 1, Len(p)) = p
      BY ONLY <2>1
    <3>2. /\ SubSeq(v, 1, k) \in Seq(Char) /\ Len(SubSeq(v, 1, k)) = k
          /\ \A i \in 1 .. k : SubSeq(v, 1, k)[i] = v[i]
      BY ONLY <2>0, <2>3, v \in Seq(Char), Beginning, Zenon
    <3>3. \A i \in 1 .. Len(p) : p[i] = SubSeq(v, 1, k)[i]
      BY ONLY <2>1, <2>2, <3>2
    <3>4. p = SubSeq(v, 1, k)
      BY ONLY <2>1, <3>2, <3>3, SeqEqual
    <3> QED  BY <2>1, <3>1, <3>4
  <2>5. IsPrefix(p, v)
    BY <2>1, <2>3, <2>4 DEF IsPrefix
  <2> QED  BY <2>5 DEF p
<1> QED  BY <1>3, <1>4

LEMMA ClientTextStep ==
  ASSUME IInv, ReadText("c_body", "shown")
  PROVE  IInv'
<1>1. /\ pc = "c_body" /\ pc' = "shown" /\ Buffer!Read(iLength) /\ iLength >= 0
      /\ TypeOK /\ BufferReady /\ Typed
      /\ UNCHANGED <<frameVars, wire, packetType, iLength, came>>
  BY DEF ReadText, Goes, IInv
<1>2. PICK h \in Heap : szMessage' = CString(got', h)
  BY DEF ReadText
<1> DEFINE n == Len(szMessage) + 1
<1>3. /\ Rest(queue, wire, 4, came.body)
      /\ came.head = 4 => IsBody(wire, 0, n, szMessage)
      /\ came.head = 4 /\ came.body >= 4 => iLength = n
  BY <1>1 DEF IInv, ClientHas, DisplayPlaces
<1>4. /\ 0 \in Nat /\ 4 \in Nat /\ 4 = 0 + 4 /\ came.server \in Nat /\ came.body \in Nat
      /\ iLength \in Int /\ iLength \in Nat
  BY <1>1, TypesOf
<1>5. /\ szMessage \in Seq(Char) /\ Len(szMessage) \in Nat /\ n \in Nat
      /\ Len(szMessage) + 1 <= n
  <2>1. szMessage \in Seq(Char)
    BY <1>1 DEF IInv, ServerHas, DisplayPlaces
  <2>2. Len(szMessage) \in Nat
    BY ONLY <2>1, LenProperties
  <2> QED  BY ONLY <2>1, <2>2
<1>6. Keeps(szMessage, text, came.server - 8)
  BY <1>1 DEF IInv, ServerHas, DisplayPlaces
<1>7. text \in Seq(Char) /\ Len(text) \in Nat
  <2>1. text \in Seq(Char)
    BY <1>1 DEF Typed
  <2> QED  BY ONLY <2>1, LenProperties
<1>8. /\ szMessage' \in Seq(Char)
      /\ \A t \in Seq(Char), z \in Nat :
           IsBody(wire, 0, z, t) /\ Len(t) + 1 <= z /\ (came.body >= 4 => iLength = z) =>
             Keeps(szMessage', t, came.body - 4)
  BY ONLY <1>1, <1>2, <1>3, <1>4, TextRead, Zenon
<1>9. came.head = 4 => Keeps(szMessage', szMessage, came.body - 4)
  <2> HIDE DEF n
  <2> QED  BY ONLY <1>3, <1>5, <1>8, Zenon
<1>10. packetType' \in [1 .. 4 -> Byte] /\ iLength' \in Int /\ szMessage' \in Seq(Byte)
  BY <1>1, <1>8, TypesOf, TypedText
<1>11. TypeOK' /\ BufferReady'
  <2>1. UNCHANGED <<frameVars, wire, came>>
    BY <1>1
  <2> QED  BY ONLY <1>1, <1>3, <1>4, <1>10, <2>1, Reading, Zenon
<1>12. Typed'
  BY <1>1 DEF Typed, frameVars
<1>13. ClientFrame' /\ ServerHas' /\ ServerFrame' /\ ClientHas'
  BY <1>1 DEF ClientFrame, ServerHas, ServerFrame, ClientHas,
               ServerPlaces, EchoPlaces, DisplayPlaces
<1> DEFINE a == came.server - 8
           b == came.body - 4
<1>14. text' = text /\ came' = came /\ a \in Int /\ b \in Int
  BY <1>1, <1>4 DEF frameVars
<1>15. came.head = 4 =>
         /\ a > Len(text) /\ b > Len(text) => szMessage' = text
         /\ \A k \in 0 .. Len(text) : k <= a /\ k <= b => IsPrefix(SubSeq(text, 1, k), szMessage')
  <2> HIDE DEF a, b
  <2>1. Keeps(szMessage, text, a) /\ (came.head = 4 => Keeps(szMessage', szMessage, b))
    BY <1>6, <1>9 DEF a, b
  <2> QED  BY ONLY <1>5, <1>7, <1>8, <1>14, <2>1, KeptTwice, Zenon
<1>16. EchoExact'
  <2> SUFFICES ASSUME came.server >= 8 + Len(text) + 1, came.head = 4,
                      came.body >= 4 + Len(text) + 1
               PROVE  szMessage' = text
    BY <1>14 DEF EchoExact, TextCame
  <2>1. a > Len(text) /\ b > Len(text)
    BY ONLY <1>4, <1>7, came.server >= 8 + Len(text) + 1, came.body >= 4 + Len(text) + 1
  <2> QED  BY <1>15, <2>1
<1>17. CutKeepsPrefix'
  <2> DEFINE S == {Len(text), came.server - 8, came.body - 4}
             k == Min(S)
  <2> SUFFICES ASSUME came.server >= 8, came.head = 4, came.body >= 4
               PROVE  IsPrefix(SubSeq(text, 1, k), szMessage')
    BY <1>14 DEF CutKeepsPrefix
  <2>1. S \in SUBSET Nat /\ S # {}
    BY ONLY <1>4, <1>7, came.server >= 8, came.body >= 4
  <2>2. k \in S /\ \A y \in S : k <= y
    <3> HIDE DEF S
    <3> QED  BY ONLY <2>1, LeastOf
  <2> HIDE DEF k
  <2>3. k \in Nat /\ k <= Len(text) /\ k <= a /\ k <= b
    BY ONLY <2>1, <2>2
  <2>4. k \in 0 .. Len(text)
    BY ONLY <1>7, <2>3
  <2> HIDE DEF a, b
  <2> QED  BY ONLY <1>15, <2>3, <2>4, came.head = 4, Zenon
<1>18. FrameFits' /\ LengthIsReal'
  BY <1>1 DEF FrameFits, LengthIsReal
<1> QED  BY <1>11, <1>12, <1>13, <1>16, <1>17, <1>18 DEF IInv
-------------------------------------------------------------------------------
LEMMA StepIInv == IInv /\ [Next]_vars => IInv'
<1> SUFFICES ASSUME IInv, [Next]_vars PROVE IInv'
  OBVIOUS
<1>1. ASSUME NEW t \in Text, GetAction(t) PROVE IInv'
  BY <1>1, GetStep
<1>2. CASE ListenAction
  BY <1>2, ListenStep
<1>3. CASE ClientWrites
  BY <1>3, ClientWritesType, ClientWritesLength, ClientWritesBody, ClientSends DEF ClientWrites
<1>4. CASE ServerReceives
  BY <1>4, ServerReceivesStep
<1>5. CASE ServerReads
  BY <1>5, ServerTypeStep, ServerLengthStep, ServerFails, ServerTextStep DEF ServerReads
<1>6. CASE Packet_Message
  BY <1>6, PacketMessageStep
<1>7. CASE ServerWrites
  BY <1>7, ServerWritesType, ServerWritesLength, ServerWritesBody, ServerSends DEF ServerWrites
<1>8. CASE ClientReads
  BY <1>8, ClientTypeStep, ClientReceivesStep, ClientLengthStep, ClientFails, ClientTextStep
     DEF ClientReads
<1>9. CASE UNCHANGED vars
  <2>1. /\ pc' = pc /\ UNCHANGED <<frameVars, wire, readVars, came, bufferVars>>
    BY <1>9 DEF vars
  <2>2. /\ text' = text /\ pResult' = pResult /\ iResultSize' = iResultSize /\ wire' = wire
        /\ packetType' = packetType /\ iLength' = iLength /\ szMessage' = szMessage
        /\ came' = came /\ queue' = queue /\ cap' = cap /\ eof' = eof /\ error' = error
        /\ asked' = asked /\ got' = got /\ threw' = threw
    BY <2>1 DEF frameVars, readVars, bufferVars
  <2>3. TypeOK' /\ BufferReady'
    BY <2>2, Zenon DEF IInv, TypeOK, BufferReady
  <2>4. Typed' /\ ClientFrame'
    BY <2>1, <2>2 DEF IInv, Typed, ClientFrame
  <2>5. ServerHas' /\ ServerFrame' /\ ClientHas'
    BY <2>1, <2>2 DEF IInv, ServerHas, ServerFrame, ClientHas
  <2>6. FrameFits' /\ EchoExact' /\ CutKeepsPrefix' /\ LengthIsReal'
    BY <2>1, <2>2 DEF IInv, FrameFits, EchoExact, CutKeepsPrefix, LengthIsReal, TextCame
  <2> QED  BY <2>3, <2>4, <2>5, <2>6 DEF IInv
<1> QED  BY <1>1, <1>2, <1>3, <1>4, <1>5, <1>6, <1>7, <1>8, <1>9 DEF Next

LEMMA Invariant == Spec => []IInv
  BY InitIInv, StepIInv, PTL DEF Spec

(* The variables always have their types.                                  *)
THEOREM FramingTypes == Spec => []TypeOK
<1>1. IInv => TypeOK
  BY DEF IInv
<1> QED  BY <1>1, Invariant, PTL

(* Whatever the heap holds behind the array of CMessagePacket, which puts  *)
(* no 0 there, so that the text may run on: of the writes to a FIFOBuffer, *)
(* whose result neither ListenAction nor CPacket looks at, the only one    *)
(* that is cut short is that of a text which the server received without   *)
(* its 0.                                                                  *)
THEOREM WritesAreWhole == Spec => []FrameFits
<1>1. IInv => FrameFits
  BY DEF IInv
<1> QED  BY <1>1, Invariant, PTL

(* A text whose frame reaches the server, and whose echo the client, whole *)
(* is displayed as it was typed, whatever lay behind the array of          *)
(* ListenAction and in the uninitialised memory of either program.         *)
THEOREM EchoIsExact == Spec => []EchoExact
<1>1. IInv => EchoExact
  BY DEF IInv
<1> QED  BY <1>1, Invariant, PTL

(* However the receives of CServerNetwork and CClientNetwork cut a frame   *)
(* and its echo behind their heads, what is displayed begins with what     *)
(* came of the text.                                                       *)
THEOREM CutsKeepPrefixes == Spec => []CutKeepsPrefix
<1>1. IInv => CutKeepsPrefix
  BY DEF IInv
<1> QED  BY <1>1, Invariant, PTL

(* CMessagePacket allocates an array of a length that no packet has only   *)
(* when a receive ended before the text, so that the length was never      *)
(* read, or the server's receive before the text's 0, so that the length   *)
(* is that of a string which ran on.                                       *)
THEOREM LengthsAreReal == Spec => []LengthIsReal
<1>1. IInv => LengthIsReal
  BY DEF IInv
<1> QED  BY <1>1, Invariant, PTL
===============================================================================
