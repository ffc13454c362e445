------------------------------- MODULE ByteQueue -------------------------------
(***************************************************************************)
(* What Poco's FIFOBuffer promises to those who put packets together and   *)
(* take them apart with it: a bounded queue of bytes.  A call that moves   *)
(* bytes moves as many as there are, or as there is room for, and says     *)
(* which: "got" is what the last call wrote, read or saw, and "asked" how  *)
(* many it was asked for.                                                  *)
(***************************************************************************)
EXTENDS Naturals, Sequences

CONSTANTS
  Byte,        \* the values of a byte
  Input,       \* the sequences of bytes that its users put in
  Length,      \* the numbers of bytes that they ask for
  Size         \* the sizes that it may have

VARIABLES
  queue,       \* the bytes
  cap,         \* how many there may be
  eof, error,  \* the flags that stop writing, or reading and writing
  asked,       \* the number that the last call was given
  got,         \* what it has moved
  threw        \* it has thrown an exception

vars == <<queue, cap, eof, error, asked, got, threw>>

Least(a, b) == IF a <= b THEN a ELSE b

Room == cap - Len(queue)

Readable == queue # <<>> /\ ~error
Writable == Room # 0 /\ ~error /\ ~eof

First(k) == SubSeq(queue, 1, k)
After(k) == SubSeq(queue, k + 1, Len(queue))

Init ==
  /\ cap \in Size
  /\ queue = <<>> \/ queue \in [1 .. cap -> Byte]
  /\ eof = FALSE /\ error = FALSE
  /\ asked = 0 /\ got = <<>> /\ threw = FALSE

Returns(n, s) ==
  /\ asked' = n
  /\ got' = s
  /\ threw' = FALSE

(* Of s, what there is room for.                                           *)
Write(s) ==
  LET n == IF Writable THEN Least(Len(s), Room) ELSE 0
  IN  /\ queue' = queue \o SubSeq(s, 1, n)
      /\ Returns(Len(s), SubSeq(s, 1, n))
      /\ UNCHANGED <<cap, eof, error>>

Read(k) ==
  LET n == IF Readable THEN Least(k, Len(queue)) ELSE 0
  IN  /\ queue' = After(n)
      /\ Returns(k, First(n))
      /\ UNCHANGED <<cap, eof, error>>

Peek(k) ==
  LET n == IF Readable THEN Least(k, Len(queue)) ELSE 0
  IN  /\ Returns(k, First(n))
      /\ UNCHANGED <<queue, cap, eof, error>>

Drain(k) ==
  /\ queue' = IF k = 0 THEN <<>> ELSE After(Least(k, Len(queue)))
  /\ Returns(k, <<>>)
  /\ UNCHANGED <<cap, eof, error>>

(* All of s, or nothing.                                                   *)
Fill(s) ==
  /\ Writable /\ Len(s) <= Room
  /\ queue' = queue \o s
  /\ Returns(Len(s), <<>>)
  /\ UNCHANGED <<cap, eof, error>>

Replace(i, b) ==
  /\ i \in DOMAIN queue
  /\ queue' = [queue EXCEPT ![i] = b]
  /\ Returns(0, <<>>)
  /\ UNCHANGED <<cap, eof, error>>

Resize(n, keep) ==
  /\ keep => Len(queue) <= n
  /\ cap' = n
  /\ queue' = IF keep THEN queue ELSE <<>>
  /\ Returns(n, <<>>)
  /\ UNCHANGED <<eof, error>>

SetError(b) ==
  /\ error' = b
  /\ queue' = IF b THEN <<>> ELSE queue
  /\ Returns(0, <<>>)
  /\ UNCHANGED <<cap, eof>>

SetEOF(b) ==
  /\ eof' = b
  /\ Returns(0, <<>>)
  /\ UNCHANGED <<queue, cap, error>>

(* A call that cannot be done, and changes nothing.                        *)
Throw ==
  /\ threw' = TRUE
  /\ UNCHANGED <<queue, cap, eof, error, asked, got>>

Next ==
  \/ \E s \in Input : Write(s) \/ Fill(s)
  \/ \E k \in Length : Read(k) \/ Peek(k) \/ Drain(k)
  \/ \E i \in DOMAIN queue, b \in Byte : Replace(i, b)
  \/ \E n \in Size, keep \in BOOLEAN : Resize(n, keep)
  \/ \E b \in BOOLEAN : SetError(b) \/ SetEOF(b)
  \/ Throw

Spec == Init /\ [][Next]_vars
===============================================================================
