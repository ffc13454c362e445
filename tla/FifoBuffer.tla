------------------------------ MODULE FifoBuffer -------------------------------
(***************************************************************************)
(* Poco::BasicFIFOBuffer, the buffer in which both programs put packets    *)
(* together and take them apart: a block of memory, the place where its    *)
(* data begins and how much there is, moved to the front when there is no  *)
(* room behind it.  The mutex makes every call one step.                   *)
(*                                                                         *)
(* Operators marked "Fault" are wrong variants of the one that follows,    *)
(* used only by tests of the properties.                                   *)
(***************************************************************************)
EXTENDS Integers, Sequences

CONSTANTS
  Byte,        \* the values of a byte
  Unset,       \* what new memory holds
  Input,       \* the sequences of bytes that callers put in
  Length,      \* the numbers of bytes that they ask for
  Size,        \* the sizes that the buffer is given
  MaxSize,     \* bound: the largest of them
  Word,        \* one more than the largest size_t
  Shrinks      \* callers may make a buffer smaller

ASSUME BufferAssumption ==
  /\ Unset \notin Byte
  /\ Input \subseteq Seq(Byte)
  /\ Length \subseteq Nat
  /\ MaxSize \in Nat
  /\ Size \subseteq 1 .. MaxSize
  /\ Word \in Nat /\ Word > 2 * MaxSize
  /\ \A s \in Input : Len(s) < Word - MaxSize
  /\ Shrinks \in BOOLEAN

VARIABLES
  ptr,         \* the memory of _buffer, from 1 to its capacity
  ownMem,      \* it is not the caller's
  size,        \* _buffer.size()
  begin, used, \* _begin, _used
  eof, error,  \* _eof, _error
  notifying,   \* _notify
  told,        \* what observers of readable and writable were last told
  asked,       \* the number of bytes that the last call was given
  got, threw,  \* its outcome
  broken,      \* poco_assert(_used <= _buffer.size()) has failed
  made         \* history: the size with which the buffer was made

memVars   == <<ptr, ownMem, size>>
flagVars  == <<eof, error, notifying>>
vars      == <<memVars, begin, used, flagVars, told, asked, got, threw, broken, made>>

Least(a, b) == IF a <= b THEN a ELSE b

(* Unsigned subtraction.                                                   *)
Minus(a, b) == IF b <= a THEN a - b ELSE a - b + Word

isReadable == used # 0 /\ ~error
isWritable == used # size /\ ~error /\ ~eof
available == Minus(size, used)

(* The first n bytes of the data.                                          *)
Data(n) == [i \in 1 .. n |-> ptr[begin + i]]

Told == {"yes", "no", "unknown"}
Says(b) == IF b THEN "yes" ELSE "no"

(* A buffer is made empty, or with a copy of its maker's bytes.            *)
Init ==
  /\ size \in Size
  /\ ownMem \in BOOLEAN
  /\ \/ ptr = [i \in 1 .. size |-> Unset] /\ used = 0
     \/ ptr \in [1 .. size -> Byte] /\ used = size /\ ownMem
  /\ begin = 0
  /\ eof = FALSE /\ error = FALSE
  /\ notifying \in BOOLEAN
  /\ told = IF notifying THEN [readable |-> Says(used # 0), writable |-> Says(used # size)]
                         ELSE [readable |-> "unknown", writable |-> "unknown"]
  /\ asked = 0 /\ got = <<>> /\ threw = FALSE
  /\ broken = FALSE
  /\ made = size

Returns(n, s) ==
  /\ asked' = n
  /\ got' = s
  /\ threw' = FALSE

Throws ==
  /\ threw' = TRUE
  /\ UNCHANGED <<memVars, begin, used, flagVars, told, asked, got, broken>>

(* Fault: of a buffer that is full, only an empty one is told of.          *)
NotifyLate(before) ==
  told' = IF ~notifying THEN told ELSE
    [readable |-> CASE before = 0 /\ used' > 0 -> "yes"
                    [] before > 0 /\ used' = 0 -> "no"
                    [] OTHER -> told.readable,
     writable |-> CASE before = size' /\ used' = 0 -> "yes"
                    [] before < size' /\ used' = size' -> "no"
                    [] OTHER -> told.writable]

(* Observers are told of a buffer that begins or ceases to be empty, and   *)
(* to be full.                                                             *)
Notify(before) ==
  told' = IF ~notifying THEN told ELSE
    [readable |-> CASE before = 0 /\ used' > 0 -> "yes"
                    [] before > 0 /\ used' = 0 -> "no"
                    [] OTHER -> told.readable,
     writable |-> CASE before = size' /\ used' < size' -> "yes"
                    [] before < size' /\ used' = size' -> "no"
                    [] OTHER -> told.writable]
-------------------------------------------------------------------------------
Nothing(n) ==
  /\ Returns(n, <<>>)
  /\ UNCHANGED <<memVars, begin, used, flagVars, told, broken>>

(* The data is moved to the front of the memory, and s put behind it.      *)
PutBehind(s) ==
  /\ ptr' = [i \in DOMAIN ptr |->
               IF i <= used THEN ptr[begin + i]
               ELSE IF i <= used + Len(s) THEN s[i - used] ELSE ptr[i]]
  /\ begin' = 0
  /\ used' = used + Len(s)

(* Fault: room is made for too little.                                     *)
RoomBehind(n) ==
  LET from == IF Minus(size, begin + used) < n - 1 THEN 0 ELSE begin
  IN  Minus(Minus(size, used), from)

(* Fault: the data is not counted.                                         *)
RoomWhole(n) ==
  LET from == IF Minus(size, begin + used) < n THEN 0 ELSE begin
  IN  Minus(size, from)

(* What write() takes for free, after moving the data to the front when    *)
(* there are not n bytes behind it.                                        *)
Room(n) ==
  LET from == IF Minus(size, begin + used) < n THEN 0 ELSE begin
  IN  Minus(Minus(size, used), from)

Write(s) ==
  LET part == SubSeq(s, 1, Least(Len(s), Room(Len(s))))
  IN  IF s = <<>> \/ ~isWritable THEN Nothing(Len(s))
      ELSE IF used + Len(part) > size
        THEN /\ broken' = TRUE
             /\ UNCHANGED <<memVars, begin, used, flagVars, told, asked, got, threw>>
        ELSE /\ PutBehind(part)
             /\ Returns(Len(s), part)
             /\ UNCHANGED <<ownMem, size, flagVars, broken>>
             /\ Notify(used)

(* n bytes leave the buffer.                                               *)
Remove(n) ==
  /\ used' = used - n
  /\ begin' = IF used' = 0 THEN 0 ELSE begin + n
  /\ UNCHANGED <<memVars, flagVars, broken>>
  /\ Notify(used)

Read(k) ==
  IF k = 0 \/ ~isReadable THEN Nothing(k)
  ELSE Remove(Least(k, used)) /\ Returns(k, Data(Least(k, used)))

(* read() into a Poco::Buffer, for which no length means everything.       *)
ReadBuffer(k) ==
  IF k = 0 /\ isReadable THEN Read(used) ELSE Read(k)

Peek(k) ==
  IF k = 0 \/ ~isReadable THEN Nothing(k)
  ELSE /\ Returns(k, Data(Least(k, used)))
       /\ UNCHANGED <<memVars, begin, used, flagVars, told, broken>>

Drain(k) ==
  /\ Remove(IF k = 0 THEN used ELSE Least(k, used))
  /\ Returns(k, <<>>)

(* Fault: the room is not looked at.                                       *)
FillUnchecked(s) ==
  /\ s # <<>>
  /\ IF ~isWritable THEN Throws
     ELSE /\ PutBehind(s)
          /\ Returns(Len(s), <<>>)
          /\ UNCHANGED <<ownMem, size, flagVars, broken>>
          /\ Notify(used)

(* copy(); or next(), the caller's memcpy and advance(), which is how a    *)
(* socket receives into the buffer.                                        *)
Fill(s) ==
  /\ s # <<>>
  /\ IF Len(s) > available \/ ~isWritable THEN Throws
     ELSE /\ PutBehind(s)
          /\ Returns(Len(s), <<>>)
          /\ UNCHANGED <<ownMem, size, flagVars, broken>>
          /\ Notify(used)

(* begin(), and how a socket finds what it sends.                          *)
Begin ==
  /\ PutBehind(<<>>)
  /\ UNCHANGED <<ownMem, size, flagVars, told, asked, got, threw, broken>>

(* operator[], assigned to.                                                *)
Replace(i, b) ==
  IF i > used \/ begin + i > size THEN Throws
  ELSE /\ ptr' = [ptr EXCEPT ![begin + i] = b]
       /\ Returns(0, <<>>)
       /\ UNCHANGED <<ownMem, size, begin, used, flagVars, told, broken>>

(* peek() into a Poco::Buffer, likewise.                                   *)
PeekBuffer(k) ==
  IF k = 0 /\ isReadable THEN Peek(used) ELSE Peek(k)

(* The memory after resizing: more is taken when the new size is beyond    *)
(* the capacity.                                                           *)
Grown(n, keep) ==
  IF n <= Len(ptr) THEN ptr
  ELSE [i \in 1 .. n |-> IF keep /\ i <= size THEN ptr[i] ELSE Unset]

Resize(n, keep) ==
  /\ Shrinks \/ n >= size
  /\ IF (keep /\ n < used) \/ ~ownMem THEN Throws
     ELSE /\ ptr' = Grown(n, keep)
          /\ size' = n
          /\ used' = IF keep THEN used ELSE 0
          /\ Returns(n, <<>>)
          /\ UNCHANGED <<ownMem, begin, flagVars, broken>>
          /\ Notify(used)

SetError(b) ==
  /\ error' = b
  /\ used' = IF b THEN 0 ELSE used
  /\ told' = IF ~notifying THEN told
             ELSE IF b THEN [readable |-> IF isReadable THEN "no" ELSE told.readable,
                             writable |-> IF isWritable THEN "no" ELSE told.writable]
             ELSE [told EXCEPT !.writable = IF eof THEN @ ELSE "yes"]
  /\ Returns(0, <<>>)
  /\ UNCHANGED <<memVars, begin, eof, notifying, broken>>

SetEOF(b) ==
  /\ eof' = b
  /\ told' = IF notifying THEN [told EXCEPT !.writable = Says(~b)] ELSE told
  /\ Returns(0, <<>>)
  /\ UNCHANGED <<memVars, begin, used, error, notifying, broken>>

(* What happens in silence, observers do not know.                         *)
SetNotify(b) ==
  /\ notifying' = b
  /\ told' = IF b THEN told ELSE [readable |-> "unknown", writable |-> "unknown"]
  /\ UNCHANGED <<memVars, begin, used, eof, error, asked, got, threw, broken>>

Next ==
  /\ ~broken
  /\ UNCHANGED made
  /\ \/ \E s \in Input : Write(s) \/ Fill(s)
     \/ \E k \in Length : Read(k) \/ ReadBuffer(k) \/ Peek(k) \/ PeekBuffer(k) \/ Drain(k)
     \/ \E i \in 1 .. MaxSize, b \in Byte : Replace(i, b)
     \/ \E n \in Size, keep \in BOOLEAN : Resize(n, keep)
     \/ \E b \in BOOLEAN : SetError(b) \/ SetEOF(b) \/ SetNotify(b)
     \/ Begin

Spec == Init /\ [][Next]_vars
-------------------------------------------------------------------------------
(* The types of the variables.                                             *)
TypeOK ==
  /\ size \in Size /\ Len(ptr) \in 1 .. MaxSize
  /\ ptr \in [1 .. Len(ptr) -> Byte \cup {Unset}]
  /\ begin \in 0 .. MaxSize /\ used \in 0 .. MaxSize
  /\ {ownMem, eof, error, notifying, threw, broken} \subseteq BOOLEAN
  /\ told \in [readable : Told, writable : Told]
  /\ asked \in Nat /\ got \in Seq(Byte \cup {Unset})

(* The data lies in the buffer, and all of it was put there.               *)
InMemory ==
  /\ begin + used <= size /\ size <= Len(ptr)
  /\ \A i \in 1 .. used : ptr[begin + i] \in Byte

(* Whatever is written, read, thrown away and moved in the memory, the     *)
(* buffer is a bounded queue of bytes, as long as it is never made         *)
(* smaller.                                                                *)
Queue == INSTANCE ByteQueue WITH
  queue <- Data(used), cap <- size,
  Length <- Length \cup 1 .. MaxSize

ImplementsByteQueue == Queue!Spec

(* A writer that was told to wait does not wait for room that is there: it *)
(* would wait for ever.  Once the buffer has been made larger this is no   *)
(* longer so: resize() of a full buffer tells nobody of the new room.      *)
WriterIsWoken ==
  size = made /\ told.writable = "no" => ~isWritable

(* poco_assert(_used <= _buffer.size()) of write() holds.                  *)
UsedFits == ~broken
===============================================================================
