--------------------------- MODULE FifoBufferProofs ----------------------------
(***************************************************************************)
(* A buffer that is never made smaller keeps its data in its memory and is *)
(* the bounded queue of ByteQueue, whatever its size and whatever is done  *)
(* with it.                                                                *)
(***************************************************************************)
EXTENDS FifoBuffer, SequenceTheorems, TLAPS

Mem == Byte \cup {Unset}

IInv == TypeOK /\ InMemory

(* A buffer with an error is empty.                                        *)
Failed == error => used = 0

-------------------------------------------------------------------------------
(* Functions on 1 .. n are sequences of length n.                          *)
LEMMA FunSeq ==
  ASSUME NEW S, NEW n \in Nat, NEW f \in [1 .. n -> S]
  PROVE  /\ f \in Seq(S)
         /\ Len(f) = n
         /\ DOMAIN f = 1 .. n
<1>1. f \in Seq(S)
  BY SeqDef
<1>2. DOMAIN f = 1 .. n
  OBVIOUS
<1>3. Len(f) = n
  BY <1>1, <1>2, LenProperties
<1> QED  BY <1>1, <1>2, <1>3

LEMMA EmptyFun ==
  ASSUME NEW f, DOMAIN f = {}, f = [i \in DOMAIN f |-> f[i]]
  PROVE  f = <<>>
<1>1. f \in [1 .. 0 -> {}]
  OBVIOUS
<1>2. f \in Seq({}) /\ Len(f) = 0
  BY <1>1, FunSeq
<1> QED  BY <1>2, EmptySeq

(* Numbers that the invariant bounds.                                      *)
LEMMA Numbers ==
  ASSUME TypeOK, InMemory
  PROVE  /\ size \in Nat \ {0} /\ begin \in Nat /\ used \in Nat
         /\ used <= size /\ size <= MaxSize /\ MaxSize \in Nat
         /\ Len(ptr) \in Nat /\ DOMAIN ptr = 1 .. Len(ptr)
         /\ available = size - used
  BY BufferAssumption DEF TypeOK, InMemory, available, Minus

LEMMA DataSeq ==
  ASSUME TypeOK, InMemory, NEW n \in 0 .. used
  PROVE  /\ Data(n) \in [1 .. n -> Byte]
         /\ Data(n) \in Seq(Byte)
         /\ Len(Data(n)) = n
<1>1. n \in Nat /\ \A i \in 1 .. n : i \in 1 .. used
  BY Numbers
<1>2. Data(n) \in [1 .. n -> Byte]
  BY <1>1 DEF Data, InMemory
<1> QED  BY <1>1, <1>2, FunSeq

(* What write() takes for free is enough, and no more than there is.       *)
LEMMA RoomIsThere ==
  ASSUME TypeOK, InMemory, NEW n \in Nat
  PROVE  /\ Least(n, Room(n)) = Least(n, size - used)
         /\ Least(n, size - used) \in 0 .. n
         /\ used + Least(n, size - used) <= size
<1>1. begin + used <= size
  BY DEF InMemory
<1>2. Minus(size, begin + used) = size - (begin + used) /\ Minus(size, used) = size - used
  BY <1>1, Numbers DEF Minus
<1>3. Minus(size - used, begin) = size - used - begin /\ Minus(size - used, 0) = size - used
  BY <1>1, Numbers DEF Minus
<1>4. Room(n) = IF size - (begin + used) < n THEN size - used ELSE size - used - begin
  BY <1>2, <1>3 DEF Room
<1>5. Least(n, Room(n)) = Least(n, size - used)
  <2>1. CASE size - (begin + used) < n
    BY <1>4, <2>1
  <2>2. CASE ~(size - (begin + used) < n)
    BY <1>4, <2>2, <1>1, Numbers DEF Least
  <2> QED  BY <2>1, <2>2
<1> QED  BY <1>5, Numbers DEF Least

(* Putting s behind the data.                                              *)
LEMMA PutBehindKeeps ==
  ASSUME TypeOK, InMemory, NEW s \in Seq(Byte), used + Len(s) <= size,
         PutBehind(s), size' = size
  PROVE  /\ ptr' \in [1 .. Len(ptr) -> Mem] /\ Len(ptr') = Len(ptr)
         /\ InMemory'
         /\ Data(used)' = Data(used) \o s
         /\ begin' = 0 /\ used' = used + Len(s)
<1>1. Len(s) \in Nat /\ \A i \in 1 .. Len(s) : s[i] \in Byte
  BY ElementOfSeq, LenProperties
<1>2. begin' = 0 /\ used' = used + Len(s) /\ DOMAIN ptr' = DOMAIN ptr
  BY DEF PutBehind
<1>3. \A i \in 1 .. used : begin + i \in 1 .. Len(ptr) /\ ptr[begin + i] \in Byte
  BY Numbers DEF InMemory
<1>4. \A i \in 1 .. used : i \in 1 .. Len(ptr) /\ ptr'[i] = ptr[begin + i]
  BY Numbers DEF InMemory, PutBehind
<1>5. \A i \in 1 .. used' : i > used => i \in 1 .. Len(ptr) /\ i - used \in 1 .. Len(s)
                                         /\ ptr'[i] = s[i - used]
  BY <1>1, <1>2, Numbers DEF InMemory, PutBehind
<1>6. ptr' \in [1 .. Len(ptr) -> Mem]
  <2>1. \A i \in 1 .. Len(ptr) : ptr'[i] \in Mem
    <3> SUFFICES ASSUME NEW i \in 1 .. Len(ptr) PROVE ptr'[i] \in Mem
      OBVIOUS
    <3>1. CASE i <= used
      BY <3>1, <1>3, <1>4, Numbers DEF Mem
    <3>2. CASE i > used /\ i <= used'
      <4>1. i \in 1 .. used'
        BY <3>2, <1>2, <1>1, Numbers
      <4>2. ptr'[i] = s[i - used] /\ i - used \in 1 .. Len(s)
        BY <3>2, <4>1, <1>5
      <4> QED  BY <4>2, <1>1 DEF Mem
    <3>3. CASE i > used /\ ~(i <= used')
      <4>1. ptr[i] \in Mem
        BY Numbers DEF TypeOK, Mem
      <4>2. i \in DOMAIN ptr /\ ~(i <= used) /\ ~(i <= used + Len(s))
        BY <1>1, <1>2, <3>3, Numbers
      <4>3. ptr'[i] = ptr[i]
        BY ONLY PutBehind(s), <4>2 DEF PutBehind
      <4> QED  BY ONLY <4>1, <4>3
    <3> QED  BY <3>1, <3>2, <3>3, Numbers
  <2>2. ptr' = [i \in DOMAIN ptr |-> ptr'[i]]
    BY DEF PutBehind
  <2> QED  BY <2>1, <2>2, Numbers
<1>7. Len(ptr') = Len(ptr)
  BY <1>6, FunSeq, Numbers
<1>8. \A i \in 1 .. used' : ptr'[begin' + i] = IF i <= used THEN ptr[begin + i] ELSE s[i - used]
  BY <1>1, <1>2, <1>4, <1>5, Numbers
<1>9. InMemory'
  <2>1. \A i \in 1 .. used' : ptr'[begin' + i] \in Byte
    <3> SUFFICES ASSUME NEW i \in 1 .. used' PROVE ptr'[begin' + i] \in Byte
      OBVIOUS
    <3>1. CASE i <= used
      <4>1. i \in 1 .. used
        BY <3>1, <1>1, <1>2, Numbers
      <4> QED  BY <3>1, <4>1, <1>3, <1>8
    <3>2. CASE i > used
      <4>1. i - used \in 1 .. Len(s)
        BY <3>2, <1>5
      <4>2. ptr'[begin' + i] = s[i - used]
        BY <3>2, <1>8, Numbers
      <4> QED  BY <4>1, <4>2, <1>1
    <3> QED  BY <3>1, <3>2, <1>1, <1>2, Numbers
  <2>2. begin' + used' <= size'
    BY <1>1, <1>2, Numbers
  <2> QED  BY <2>1, <2>2, <1>7 DEF InMemory
<1>10. Data(used)' = Data(used) \o s
  <2> DEFINE new == [i \in 1 .. used' |-> ptr'[begin' + i]]
  <2>1. Data(used) \in Seq(Byte) /\ Len(Data(used)) = used
    BY DataSeq, Numbers
  <2>2. Data(used)' = new
    BY DEF Data
  <2>3. used' \in Nat /\ new \in [1 .. used' -> Byte]
    BY <1>1, <1>2, <1>9, Numbers DEF InMemory
  <2>4. new \in Seq(Byte) /\ Len(new) = used'
    BY ONLY <2>3, FunSeq
  <2>5. /\ Data(used) \o s \in Seq(Byte) /\ Len(Data(used) \o s) = used + Len(s)
        /\ \A i \in 1 .. used + Len(s) :
             (Data(used) \o s)[i] = IF i <= used THEN Data(used)[i] ELSE s[i - used]
    <3>1. Data(used) \o s \in Seq(Byte) /\ Len(Data(used) \o s) = Len(Data(used)) + Len(s)
      BY <2>1, ConcatProperties
    <3>2. \A i \in 1 .. Len(Data(used)) + Len(s) :
             (Data(used) \o s)[i] = IF i <= Len(Data(used)) THEN Data(used)[i]
                                                           ELSE s[i - Len(Data(used))]
      BY ONLY <2>1, ConcatProperties, s \in Seq(Byte)
    <3> QED  BY <2>1, <3>1, <3>2
  <2>6. \A i \in 1 .. used : Data(used)[i] = ptr[begin + i]
    BY Numbers DEF Data
  <2>7. \A i \in 1 .. used' : new[i] = (Data(used) \o s)[i]
    BY <1>1, <1>2, <1>8, <2>5, <2>6, Numbers
  <2> HIDE DEF new
  <2>8. new = Data(used) \o s
    BY <1>2, <2>4, <2>5, <2>7, SeqEqual
  <2> QED  BY <2>2, <2>8
<1> QED  BY <1>2, <1>6, <1>7, <1>9, <1>10

(* Taking n bytes from the front.                                          *)
LEMMA RemoveKeeps ==
  ASSUME TypeOK, InMemory, NEW n \in 0 .. used,
         used' = used - n, begin' = IF used' = 0 THEN 0 ELSE begin + n,
         ptr' = ptr, size' = size
  PROVE  /\ InMemory'
         /\ Data(used)' = SubSeq(Data(used), n + 1, used)
         /\ begin' \in 0 .. MaxSize /\ used' \in 0 .. MaxSize
<1>1. used' \in Nat /\ begin' \in Nat /\ begin' + used' <= begin + used
  <2>1. CASE used' = 0
    BY <2>1, Numbers
  <2>2. CASE used' # 0
    BY <2>2, Numbers
  <2> QED  BY <2>1, <2>2
<1>2. \A i \in 1 .. used' : i + n \in 1 .. used /\ begin' + i = begin + (i + n)
  BY Numbers
<1>3. InMemory'
  <2>1. \A i \in 1 .. used' : ptr'[begin' + i] \in Byte
    BY <1>2 DEF InMemory
  <2> QED  BY <1>1, <2>1, Numbers DEF InMemory
<1>4. Data(used)' = SubSeq(Data(used), n + 1, used)
  <2> DEFINE new == [i \in 1 .. used' |-> ptr'[begin' + i]]
             old == SubSeq(Data(used), n + 1, used)
  <2>1. \A i \in 1 .. used : Data(used)[i] = ptr[begin + i] /\ ptr[begin + i] \in Byte
    BY Numbers DEF Data, InMemory
  <2>2. Data(used)' = new
    BY DEF Data
  <2>3. new \in [1 .. used' -> Byte]
    BY <1>3 DEF InMemory
  <2>4. new \in Seq(Byte) /\ Len(new) = used'
    BY ONLY <1>1, <2>3, FunSeq
  <2>5. \A i \in n + 1 .. used : Data(used)[i] \in Byte
    <3>1. \A i \in n + 1 .. used : i \in 1 .. used
      BY Numbers
    <3> QED  BY ONLY <2>1, <3>1
  <2>6. /\ old \in Seq(Byte)
        /\ Len(old) = IF n + 1 <= used THEN used - (n + 1) + 1 ELSE 0
        /\ \A i \in 1 .. used - (n + 1) + 1 : old[i] = Data(used)[(n + 1) + i - 1]
    <3>1. n + 1 \in Int /\ used \in Int
      BY Numbers
    <3> QED  BY ONLY <2>5, <3>1, SubSeqProperties
  <2>7. Len(old) = used'
    BY <2>6, Numbers
  <2>8. \A i \in 1 .. used' : new[i] = old[i]
    <3> SUFFICES ASSUME NEW i \in 1 .. used' PROVE new[i] = old[i]
      OBVIOUS
    <3>1. i \in 1 .. used - (n + 1) + 1 /\ (n + 1) + i - 1 = i + n
      BY Numbers
    <3>2. old[i] = Data(used)[i + n]
      BY <2>6, <3>1
    <3>3. new[i] = ptr[begin + (i + n)]
      BY <1>2
    <3> QED  BY <1>2, <2>1, <3>2, <3>3
  <2> HIDE DEF new, old
  <2>9. new = old
    BY <2>4, <2>6, <2>7, <2>8, SeqEqual
  <2> QED  BY <2>2, <2>9 DEF old
<1>5. begin' \in 0 .. MaxSize /\ used' \in 0 .. MaxSize
  <2>1. /\ begin \in Nat /\ used \in Nat /\ size \in Nat /\ MaxSize \in Nat
        /\ begin + used <= size /\ size <= MaxSize
    BY Numbers DEF InMemory
  <2>2. begin' + used' <= MaxSize
    BY <1>1, <2>1
  <2> QED  BY <1>1, <2>1, <2>2
<1> QED  BY <1>3, <1>4, <1>5

(* A buffer that has grown.                                                *)
LEMMA ResizeKeeps ==
  ASSUME TypeOK, InMemory, NEW n \in Size, NEW keep \in BOOLEAN, n >= size,
         ptr' = IF n <= Len(ptr) THEN ptr
                ELSE [i \in 1 .. n |-> IF keep /\ i <= size THEN ptr[i] ELSE Unset],
         size' = n, begin' = begin, used' = IF keep THEN used ELSE 0
  PROVE  /\ Len(ptr') \in 1 .. MaxSize /\ ptr' \in [1 .. Len(ptr') -> Mem]
         /\ InMemory'
         /\ Data(used)' = IF keep THEN Data(used) ELSE <<>>
<1>1. n \in Nat /\ n \in 1 .. MaxSize
  BY Numbers, BufferAssumption
<1>2. CASE n <= Len(ptr)
  <2>1. ptr' = ptr
    BY <1>2
  <2>2. InMemory'
    BY <1>1, <1>2, <2>1, Numbers DEF InMemory
  <2>3. Data(used)' = IF keep THEN Data(used) ELSE <<>>
    <3>1. CASE keep
      BY <3>1, <2>1, Numbers DEF Data
    <3>2. CASE ~keep
      <4>1. Data(used)' = [i \in {} |-> ptr'[begin' + i]]
        BY <3>2 DEF Data
      <4> QED  BY <3>2, <4>1, EmptyFun
    <3> QED  BY <3>1, <3>2
  <2> QED  BY <2>1, <2>2, <2>3 DEF TypeOK, Mem
<1>3. CASE ~(n <= Len(ptr))
  <2>1. \A i \in 1 .. size : i \in 1 .. Len(ptr) /\ ptr[i] \in Mem
    BY Numbers DEF InMemory, TypeOK, Mem
  <2>2. ptr' = [i \in 1 .. n |-> IF keep /\ i <= size THEN ptr[i] ELSE Unset]
    BY <1>3
  <2>3. ptr' \in [1 .. n -> Mem]
    BY <1>1, <2>1, <2>2, Numbers DEF Mem
  <2>4. Len(ptr') = n
    BY <1>1, <2>3, FunSeq
  <2>5. \A i \in 1 .. used' : begin + i \in 1 .. size /\ keep /\ ptr'[begin + i] = ptr[begin + i]
    BY <1>1, <2>2, Numbers DEF InMemory
  <2>6. InMemory'
    <3>1. \A i \in 1 .. used' : ptr'[begin' + i] \in Byte
      BY <2>5 DEF InMemory
    <3>2. begin' + used' <= size' /\ size' <= Len(ptr')
      BY <1>1, <2>4, Numbers DEF InMemory
    <3> QED  BY <3>1, <3>2 DEF InMemory
  <2>7. Data(used)' = IF keep THEN Data(used) ELSE <<>>
    <3>1. CASE keep
      BY <3>1, <2>5, Numbers DEF Data
    <3>2. CASE ~keep
      <4>1. Data(used)' = [i \in {} |-> ptr'[begin' + i]]
        BY <3>2 DEF Data
      <4> QED  BY <3>2, <4>1, EmptyFun
    <3> QED  BY <3>1, <3>2
  <2> QED  BY <1>1, <2>3, <2>4, <2>6, <2>7
<1> QED  BY <1>2, <1>3
-------------------------------------------------------------------------------
(* The flags of the buffer and of the queue mean the same.                 *)
LEMMA QueueFlags ==
  ASSUME TypeOK, InMemory
  PROVE  /\ Data(used) \in Seq(Byte) /\ Len(Data(used)) = used
         /\ Queue!Room = size - used
         /\ Queue!Writable <=> isWritable
         /\ Queue!Readable <=> isReadable
<1>1. Data(used) \in Seq(Byte) /\ Len(Data(used)) = used /\ used \in Nat /\ size \in Nat
  BY DataSeq, Numbers
<1>2. Queue!Room = size - used
  BY <1>1 DEF Queue!Room
<1>3. Queue!Writable <=> isWritable
  BY <1>1, <1>2 DEF Queue!Writable, isWritable
<1>4. Data(used) = <<>> <=> used = 0
  BY <1>1, EmptySeq
<1>5. Queue!Readable <=> isReadable
  BY <1>4 DEF Queue!Readable, isReadable
<1> QED  BY <1>1, <1>2, <1>3, <1>5

LEMMA SameData ==
  ASSUME ptr' = ptr, begin' = begin, used' = used
  PROVE  Data(used)' = Data(used)
  BY DEF Data

(* What the first k bytes are for a reader.                                *)
LEMMA DataPrefix ==
  ASSUME TypeOK, InMemory, NEW k \in 0 .. used
  PROVE  SubSeq(Data(used), 1, k) = Data(k)
<1>1. Data(used) \in Seq(Byte) /\ Len(Data(used)) = used /\ Data(k) \in Seq(Byte) /\ Len(Data(k)) = k
  BY DataSeq, Numbers
<1>2. \A i \in 1 .. k : Data(used)[i] = Data(k)[i]
  BY Numbers DEF Data
<1>3. \A i \in 1 .. k : Data(used)[i] \in Byte
  <2>1. \A i \in 1 .. k : i \in 1 .. Len(Data(k))
    BY <1>1
  <2> QED  BY <1>1, <1>2, <2>1, ElementOfSeq
<1>4. /\ SubSeq(Data(used), 1, k) \in Seq(Byte)
      /\ Len(SubSeq(Data(used), 1, k)) = IF 1 <= k THEN k - 1 + 1 ELSE 0
      /\ \A i \in 1 .. k - 1 + 1 : SubSeq(Data(used), 1, k)[i] = Data(used)[1 + i - 1]
  <2>1. 1 \in Int /\ k \in Int
    BY Numbers
  <2> QED  BY ONLY <1>3, <2>1, SubSeqProperties
<1>5. k \in Nat
  BY Numbers
<1>6. \A i \in 1 .. k : SubSeq(Data(used), 1, k)[i] = Data(used)[i]
  BY <1>4, <1>5
<1>7. Len(SubSeq(Data(used), 1, k)) = k
  BY <1>4, <1>5
<1> QED  BY <1>1, <1>2, <1>4, <1>6, <1>7, SeqEqual

(* A notification tells an observer one of the three.                      *)
LEMMA NotifyTells ==
  ASSUME told \in [readable : Told, writable : Told], Notify(used)
  PROVE  told' \in [readable : Told, writable : Told]
  BY DEF Notify, Told
-------------------------------------------------------------------------------
(* Each operation keeps the invariant and is that of the queue.            *)
LEMMA NothingKeeps ==
  ASSUME IInv, NEW n \in Nat, Nothing(n)
  PROVE  IInv' /\ Data(used)' = Data(used)
<1>1. ptr' = ptr /\ begin' = begin /\ used' = used /\ size' = size
  BY DEF Nothing, memVars
<1>2. InMemory'
  BY <1>1 DEF IInv, Nothing, flagVars, InMemory
<1>3. <<>> \in Seq(Byte \cup {Unset}) /\ threw' \in BOOLEAN
  BY EmptySeq DEF Nothing, Returns
<1>4. TypeOK'
  BY <1>1, <1>3 DEF IInv, Nothing, Returns, flagVars, memVars, TypeOK
<1> QED  BY <1>1, <1>2, <1>4, SameData DEF IInv

LEMMA ThrowsStep ==
  ASSUME IInv, Throws
  PROVE  IInv' /\ Queue!Throw
<1>1. ptr' = ptr /\ begin' = begin /\ used' = used /\ size' = size
  BY DEF Throws, memVars
<1>2. InMemory'
  BY <1>1 DEF IInv, Throws, flagVars, InMemory
<1>3. threw' \in BOOLEAN
  BY DEF Throws
<1>4. TypeOK'
  BY <1>1, <1>3 DEF IInv, Throws, flagVars, memVars, TypeOK
<1>5. Data(used)' = Data(used)
  BY <1>1, SameData
<1>6. Queue!Throw
  BY <1>1, <1>5 DEF Throws, flagVars, Queue!Throw
<1> QED  BY <1>2, <1>4, <1>6 DEF IInv

(* What Write, Fill and Begin have in common.                              *)
LEMMA PutBehindStep ==
  ASSUME IInv, NEW s \in Seq(Byte), used + Len(s) <= size, PutBehind(s),
         UNCHANGED <<ownMem, size, flagVars, broken>>,
         Notify(used) \/ (s = <<>> /\ told' = told),
         asked' \in Nat, got' \in Seq(Byte \cup {Unset}), threw' \in BOOLEAN
  PROVE  IInv' /\ Data(used)' = Data(used) \o s
<1>1. /\ ptr' \in [1 .. Len(ptr) -> Mem] /\ Len(ptr') = Len(ptr)
      /\ InMemory' /\ Data(used)' = Data(used) \o s
      /\ begin' = 0 /\ used' = used + Len(s)
  BY PutBehindKeeps DEF IInv
<1>2. used \in Nat /\ used' \in Nat /\ size \in Nat /\ size <= MaxSize /\ MaxSize \in Nat
  BY <1>1, Numbers, LenProperties DEF IInv
<1>3. told' \in [readable : Told, writable : Told]
  <2>1. CASE Notify(used)
    BY <1>2, <2>1, NotifyTells DEF IInv, TypeOK, flagVars
  <2>2. CASE s = <<>> /\ told' = told
    <3>1. used' = used
      BY <1>1, <1>2, <2>2, EmptySeq
    <3> QED  BY <2>2, <3>1 DEF IInv, TypeOK, flagVars
  <2> QED  BY <2>1, <2>2
<1>4. TypeOK'
  <2>1. begin' \in 0 .. MaxSize /\ used' \in 0 .. MaxSize
    BY <1>1, <1>2
  <2>2. size' \in Size /\ Len(ptr') \in 1 .. MaxSize /\ ptr' \in [1 .. Len(ptr') -> Byte \cup {Unset}]
    BY <1>1 DEF IInv, TypeOK, Mem
  <2>3. {ownMem', eof', error', notifying', threw', broken'} \subseteq BOOLEAN
    BY DEF IInv, TypeOK, flagVars
  <2> QED  BY <1>3, <2>1, <2>2, <2>3 DEF TypeOK
<1> QED  BY <1>1, <1>3, <1>4 DEF IInv

LEMMA WriteStep ==
  ASSUME IInv, NEW s \in Input, Write(s)
  PROVE  IInv' /\ Queue!Write(s)
<1>1. s \in Seq(Byte) /\ Len(s) \in Nat
  BY BufferAssumption, LenProperties
<1>2. /\ Data(used) \in Seq(Byte) /\ Len(Data(used)) = used
      /\ Queue!Room = size - used /\ (Queue!Writable <=> isWritable)
  BY QueueFlags DEF IInv
<1>3. CASE s = <<>> \/ ~isWritable
  <2>1. Nothing(Len(s))
    BY <1>3 DEF Write
  <2>2. IInv' /\ Data(used)' = Data(used)
    BY <1>1, <2>1, NothingKeeps
  <2> DEFINE n == IF Queue!Writable THEN Queue!Least(Len(s), Queue!Room) ELSE 0
  <2>3. n = 0
    <3>1. CASE s = <<>> /\ isWritable
      BY <1>2, <3>1, EmptySeq, Numbers DEF IInv, Queue!Least
    <3>2. CASE ~isWritable
      BY <1>2, <3>2
    <3> QED  BY <1>3, <3>1, <3>2
  <2>4. SubSeq(s, 1, 0) = <<>>
    BY SubSeqEmpty
  <2>5. Data(used) \o <<>> = Data(used)
    BY <1>2, ConcatEmptySeq
  <2>6. Queue!Write(s)
    BY <2>1, <2>2, <2>3, <2>4, <2>5
    DEF Queue!Write, Queue!Returns, Nothing, Returns, memVars, flagVars
  <2> QED  BY <2>2, <2>6
<1>4. CASE ~(s = <<>> \/ ~isWritable)
  <2> DEFINE m == Least(Len(s), Room(Len(s)))
             part == SubSeq(s, 1, m)
  <2>1. /\ m = Least(Len(s), size - used) /\ m \in 0 .. Len(s) /\ used + m <= size
    BY <1>1, RoomIsThere DEF IInv
  <2>2. part \in Seq(Byte) /\ Len(part) = m
    <3>1. \A i \in 1 .. m : s[i] \in Byte
      BY <1>1, <2>1, ElementOfSeq
    <3>2. 1 \in Int /\ m \in Int /\ m \in Nat
      BY <1>1, <2>1
    <3> HIDE DEF m
    <3>3. part \in Seq(Byte) /\ Len(part) = IF 1 <= m THEN m - 1 + 1 ELSE 0
      BY ONLY <3>1, <3>2, SubSeqProperties
    <3> QED  BY <3>2, <3>3
  <2>3. /\ PutBehind(part) /\ Returns(Len(s), part)
        /\ UNCHANGED <<ownMem, size, flagVars, broken>> /\ Notify(used)
    <3>1. ~(used + Len(part) > size)
      <4> HIDE DEF m, part
      <4> QED  BY <2>1, <2>2, <1>1, Numbers DEF IInv
    <3> QED  BY <1>4, <3>1 DEF Write
  <2> HIDE DEF m, part
  <2>4. got' \in Seq(Byte \cup {Unset}) /\ threw' \in BOOLEAN /\ asked' \in Nat
    BY <1>1, <2>2, <2>3, SeqMonotonic DEF Returns
  <2>5. IInv' /\ Data(used)' = Data(used) \o part
    BY <2>1, <2>2, <2>3, <2>4, PutBehindStep
  <2>6. (IF Queue!Writable THEN Queue!Least(Len(s), Queue!Room) ELSE 0) = m
    BY <1>2, <1>4, <2>1 DEF Queue!Least, Least
  <2>7. Queue!Write(s)
    BY <2>3, <2>5, <2>6 DEF Queue!Write, Queue!Returns, Returns, flagVars, part
  <2> QED  BY <2>5, <2>7
<1> QED  BY <1>3, <1>4

LEMMA FillStep ==
  ASSUME IInv, NEW s \in Input, Fill(s)
  PROVE  IInv' /\ (Queue!Fill(s) \/ Queue!Throw)
<1>1. s \in Seq(Byte) /\ Len(s) \in Nat
  BY BufferAssumption, LenProperties
<1>2. CASE Len(s) > available \/ ~isWritable
  BY <1>2, ThrowsStep DEF Fill
<1>3. CASE ~(Len(s) > available \/ ~isWritable)
  <2>1. /\ PutBehind(s) /\ Returns(Len(s), <<>>)
        /\ UNCHANGED <<ownMem, size, flagVars, broken>> /\ Notify(used)
    BY <1>3 DEF Fill
  <2>2. used + Len(s) <= size
    BY <1>1, <1>3, Numbers DEF IInv
  <2>3. got' \in Seq(Byte \cup {Unset}) /\ threw' \in BOOLEAN /\ asked' \in Nat
    BY <1>1, <2>1, EmptySeq DEF Returns
  <2>4. IInv' /\ Data(used)' = Data(used) \o s
    BY <1>1, <2>1, <2>2, <2>3, PutBehindStep
  <2>5. Queue!Writable /\ Len(s) <= Queue!Room
    BY <1>1, <1>3, <2>2, QueueFlags, Numbers DEF IInv
  <2>6. Queue!Fill(s)
    BY <2>1, <2>4, <2>5 DEF Queue!Fill, Queue!Returns, Returns, flagVars
  <2> QED  BY <2>4, <2>6
<1> QED  BY <1>2, <1>3

LEMMA BeginStep ==
  ASSUME IInv, Begin
  PROVE  IInv' /\ UNCHANGED Queue!vars
<1>1. <<>> \in Seq(Byte) /\ Len(<<>>) = 0
  BY EmptySeq
<1>2. /\ PutBehind(<<>>) /\ told' = told
      /\ UNCHANGED <<ownMem, size, flagVars, broken>>
      /\ UNCHANGED <<asked, got, threw>>
  BY DEF Begin
<1>3. used + Len(<<>>) <= size
  BY <1>1, Numbers DEF IInv
<1>4. asked' \in Nat /\ got' \in Seq(Byte \cup {Unset}) /\ threw' \in BOOLEAN
  BY <1>2 DEF IInv, TypeOK
<1>5. IInv' /\ Data(used)' = Data(used) \o <<>>
  BY <1>1, <1>2, <1>3, <1>4, PutBehindStep
<1>6. Data(used)' = Data(used)
  BY <1>5, QueueFlags, ConcatEmptySeq DEF IInv
<1> QED  BY <1>2, <1>5, <1>6 DEF Queue!vars, flagVars

(* What Read and Drain have in common.                                     *)
LEMMA RemoveStep ==
  ASSUME IInv, NEW n \in 0 .. used, Remove(n),
         asked' \in Nat, got' \in Seq(Byte \cup {Unset}), threw' \in BOOLEAN
  PROVE  IInv' /\ Data(used)' = SubSeq(Data(used), n + 1, used)
<1>1. /\ used' = used - n /\ begin' = IF used' = 0 THEN 0 ELSE begin + n
      /\ ptr' = ptr /\ size' = size
  BY DEF Remove, memVars
<1>2. /\ InMemory' /\ Data(used)' = SubSeq(Data(used), n + 1, used)
      /\ begin' \in 0 .. MaxSize /\ used' \in 0 .. MaxSize
  BY <1>1, RemoveKeeps DEF IInv
<1>3. told' \in [readable : Told, writable : Told]
  <2>1. used \in Nat /\ used' \in Nat
    BY <1>2, Numbers DEF IInv
  <2> QED  BY <2>1, NotifyTells DEF IInv, TypeOK, Remove, flagVars
<1>4. TypeOK'
  BY <1>1, <1>2, <1>3 DEF IInv, TypeOK, Remove, memVars, flagVars
<1> QED  BY <1>2, <1>3, <1>4 DEF IInv

LEMMA NoBytes ==
  ASSUME TypeOK, InMemory
  PROVE  /\ SubSeq(Data(used), 1, 0) = <<>>
         /\ SubSeq(Data(used), 1, used) = Data(used)
         /\ SubSeq(Data(used), used + 1, used) = <<>>
<1>1. Data(used) \in Seq(Byte) /\ Len(Data(used)) = used /\ used \in Nat
  BY DataSeq, Numbers
<1> QED  BY <1>1, SubSeqEmpty, SubSeqFull

LEMMA ReadStep ==
  ASSUME IInv, NEW k \in Nat, Read(k)
  PROVE  IInv' /\ Queue!Read(k)
<1>1. /\ Len(Data(used)) = used /\ (Queue!Readable <=> isReadable)
      /\ used \in Nat
  BY QueueFlags, Numbers DEF IInv
<1>2. CASE k = 0 \/ ~isReadable
  <2>1. Nothing(k)
    BY <1>2 DEF Read
  <2>2. IInv' /\ Data(used)' = Data(used)
    BY <2>1, NothingKeeps
  <2>3. (IF Queue!Readable THEN Queue!Least(k, Len(Data(used))) ELSE 0) = 0
    <3>1. CASE k = 0 /\ isReadable
      BY <1>1, <3>1 DEF Queue!Least
    <3>2. CASE ~isReadable
      BY <1>1, <3>2
    <3> QED  BY <1>2, <3>1, <3>2
  <2>4. SubSeq(Data(used), 1, 0) = <<>> /\ SubSeq(Data(used), 0 + 1, Len(Data(used))) = Data(used)
    BY <1>1, NoBytes DEF IInv
  <2>5. Queue!Read(k)
    BY <2>1, <2>2, <2>3, <2>4
    DEF Queue!Read, Queue!First, Queue!After, Queue!Returns, Nothing, Returns, memVars, flagVars
  <2> QED  BY <2>2, <2>5
<1>3. CASE ~(k = 0 \/ ~isReadable)
  <2> DEFINE n == Least(k, used)
  <2>1. Remove(n) /\ Returns(k, Data(n))
    BY <1>3 DEF Read
  <2>2. n \in 0 .. used
    BY <1>1 DEF Least
  <2>3. (IF Queue!Readable THEN Queue!Least(k, Len(Data(used))) ELSE 0) = n
    BY <1>1, <1>3 DEF Queue!Least, Least
  <2> HIDE DEF n
  <2>4. Data(n) \in Seq(Byte) /\ SubSeq(Data(used), 1, n) = Data(n)
    BY <2>2, DataSeq, DataPrefix DEF IInv
  <2>5. got' \in Seq(Byte \cup {Unset}) /\ threw' \in BOOLEAN /\ asked' \in Nat
    BY <2>1, <2>4, SeqMonotonic DEF Returns
  <2>6. IInv' /\ Data(used)' = SubSeq(Data(used), n + 1, used)
    BY <2>1, <2>2, <2>5, RemoveStep
  <2>7. Queue!Read(k)
    BY <1>1, <2>1, <2>3, <2>4, <2>6
    DEF Queue!Read, Queue!First, Queue!After, Queue!Returns, Returns, Remove, memVars, flagVars
  <2> QED  BY <2>6, <2>7
<1> QED  BY <1>2, <1>3

LEMMA PeekStep ==
  ASSUME IInv, NEW k \in Nat, Peek(k)
  PROVE  IInv' /\ Queue!Peek(k)
<1>1. /\ Len(Data(used)) = used /\ (Queue!Readable <=> isReadable)
      /\ used \in Nat
  BY QueueFlags, Numbers DEF IInv
<1>2. CASE k = 0 \/ ~isReadable
  <2>1. Nothing(k)
    BY <1>2 DEF Peek
  <2>2. IInv' /\ Data(used)' = Data(used)
    BY <2>1, NothingKeeps
  <2>3. (IF Queue!Readable THEN Queue!Least(k, Len(Data(used))) ELSE 0) = 0
    <3>1. CASE k = 0 /\ isReadable
      BY <1>1, <3>1 DEF Queue!Least
    <3>2. CASE ~isReadable
      BY <1>1, <3>2
    <3> QED  BY <1>2, <3>1, <3>2
  <2>4. SubSeq(Data(used), 1, 0) = <<>>
    BY NoBytes DEF IInv
  <2>5. Queue!Peek(k)
    BY <2>1, <2>2, <2>3, <2>4
    DEF Queue!Peek, Queue!First, Queue!Returns, Nothing, Returns, memVars, flagVars
  <2> QED  BY <2>2, <2>5
<1>3. CASE ~(k = 0 \/ ~isReadable)
  <2> DEFINE n == Least(k, used)
  <2>1. Returns(k, Data(n)) /\ UNCHANGED <<memVars, begin, used, flagVars, told, broken>>
    BY <1>3 DEF Peek
  <2>2. n \in 0 .. used
    BY <1>1 DEF Least
  <2>3. (IF Queue!Readable THEN Queue!Least(k, Len(Data(used))) ELSE 0) = n
    BY <1>1, <1>3 DEF Queue!Least, Least
  <2> HIDE DEF n
  <2>4. Data(n) \in Seq(Byte) /\ SubSeq(Data(used), 1, n) = Data(n)
    BY <2>2, DataSeq, DataPrefix DEF IInv
  <2>5. got' \in Seq(Byte \cup {Unset}) /\ threw' \in BOOLEAN /\ asked' \in Nat
    BY <2>1, <2>4, SeqMonotonic DEF Returns
  <2>6. ptr' = ptr /\ begin' = begin /\ used' = used /\ size' = size
    BY <2>1 DEF memVars
  <2>7. InMemory'
    BY <2>1, <2>6 DEF IInv, flagVars, InMemory
  <2>8. TypeOK'
    BY <2>1, <2>5, <2>6 DEF IInv, flagVars, memVars, TypeOK
  <2>9. Queue!Peek(k)
    BY <2>1, <2>3, <2>4, <2>6, SameData
    DEF Queue!Peek, Queue!First, Queue!Returns, Returns, memVars, flagVars
  <2> QED  BY <2>7, <2>8, <2>9 DEF IInv
<1> QED  BY <1>2, <1>3

LEMMA DrainStep ==
  ASSUME IInv, NEW k \in Nat, Drain(k)
  PROVE  IInv' /\ Queue!Drain(k)
<1> DEFINE n == IF k = 0 THEN used ELSE Least(k, used)
<1>1. Len(Data(used)) = used /\ used \in Nat
  BY QueueFlags, Numbers DEF IInv
<1>2. Remove(n) /\ Returns(k, <<>>)
  BY DEF Drain
<1>3. n \in 0 .. used
  BY <1>1 DEF Least
<1>4. k # 0 => Queue!Least(k, Len(Data(used))) = n
  BY <1>1 DEF Queue!Least, Least
<1>5. k = 0 => n = used
  OBVIOUS
<1> HIDE DEF n
<1>6. got' \in Seq(Byte \cup {Unset}) /\ threw' \in BOOLEAN /\ asked' \in Nat
  BY <1>2, EmptySeq DEF Returns
<1>7. IInv' /\ Data(used)' = SubSeq(Data(used), n + 1, used)
  BY <1>2, <1>3, <1>6, RemoveStep
<1>8. SubSeq(Data(used), used + 1, used) = <<>>
  BY NoBytes DEF IInv
<1>9. Data(used)' = IF k = 0 THEN <<>> ELSE Queue!After(Queue!Least(k, Len(Data(used))))
  BY <1>1, <1>4, <1>5, <1>7, <1>8 DEF Queue!After
<1>10. Queue!Drain(k)
  BY <1>2, <1>9 DEF Queue!Drain, Queue!Returns, Returns, Remove, memVars, flagVars
<1> QED  BY <1>7, <1>10

LEMMA ReplaceStep ==
  ASSUME IInv, NEW i \in 1 .. MaxSize, NEW b \in Byte, Replace(i, b)
  PROVE  IInv' /\ (Queue!Throw \/ (i \in DOMAIN Data(used) /\ Queue!Replace(i, b)))
<1>1. CASE i > used \/ begin + i > size
  BY <1>1, ThrowsStep DEF Replace
<1>2. CASE ~(i > used \/ begin + i > size)
  <2>1. /\ ptr' = [ptr EXCEPT ![begin + i] = b] /\ Returns(0, <<>>)
        /\ UNCHANGED <<ownMem, size, begin, used, flagVars, told, broken>>
    BY <1>2 DEF Replace
  <2>2. i \in 1 .. used /\ begin + i \in 1 .. Len(ptr)
    BY <1>2, Numbers DEF IInv, InMemory
  <2>3. ptr' \in [1 .. Len(ptr) -> Mem]
    BY <2>1, <2>2 DEF IInv, TypeOK, Mem
  <2>4. Len(ptr') = Len(ptr)
    BY <2>3, FunSeq, Numbers DEF IInv
  <2>5. \A j \in 1 .. used : ptr'[begin + j] = IF j = i THEN b ELSE ptr[begin + j]
    <3> SUFFICES ASSUME NEW j \in 1 .. used
                 PROVE  ptr'[begin + j] = IF j = i THEN b ELSE ptr[begin + j]
      OBVIOUS
    <3>1. /\ begin \in Nat /\ used \in Nat /\ Len(ptr) \in Nat /\ DOMAIN ptr = 1 .. Len(ptr)
          /\ begin + used <= Len(ptr)
      BY Numbers DEF IInv, InMemory
    <3>2. begin + j \in DOMAIN ptr /\ (begin + j = begin + i <=> j = i)
      BY ONLY <2>2, <3>1
    <3> QED  BY <2>1, <3>1, <3>2
  <2>6. InMemory'
    BY <2>1, <2>4, <2>5 DEF IInv, InMemory
  <2>7. TypeOK'
    <3>1. got' \in Seq(Byte \cup {Unset}) /\ threw' \in BOOLEAN /\ asked' \in Nat
      BY <2>1, EmptySeq DEF Returns
    <3> QED  BY <2>1, <2>3, <2>4, <3>1 DEF IInv, TypeOK, Mem, flagVars
  <2>8. Data(used)' = [Data(used) EXCEPT ![i] = b] /\ i \in DOMAIN Data(used)
    BY <2>1, <2>2, <2>5 DEF Data
  <2>9. Queue!Replace(i, b)
    BY <2>1, <2>8 DEF Queue!Replace, Queue!Returns, Returns, flagVars
  <2> QED  BY <2>6, <2>7, <2>8, <2>9 DEF IInv
<1> QED  BY <1>1, <1>2

LEMMA ResizeStep ==
  ASSUME ~Shrinks, IInv, NEW n \in Size, NEW keep \in BOOLEAN, Resize(n, keep)
  PROVE  IInv' /\ (Queue!Throw \/ Queue!Resize(n, keep))
<1>1. CASE (keep /\ n < used) \/ ~ownMem
  BY <1>1, ThrowsStep DEF Resize
<1>2. CASE ~((keep /\ n < used) \/ ~ownMem)
  <2>1. /\ ptr' = (IF n <= Len(ptr) THEN ptr
                   ELSE [i \in 1 .. n |-> IF keep /\ i <= size THEN ptr[i] ELSE Unset])
        /\ size' = n /\ used' = (IF keep THEN used ELSE 0) /\ n >= size
        /\ Returns(n, <<>>) /\ UNCHANGED <<ownMem, begin, flagVars, broken>> /\ Notify(used)
    BY <1>2 DEF Resize, Grown
  <2>2. /\ Len(ptr') \in 1 .. MaxSize /\ ptr' \in [1 .. Len(ptr') -> Mem]
        /\ InMemory' /\ Data(used)' = IF keep THEN Data(used) ELSE <<>>
    BY <2>1, ResizeKeeps DEF IInv
  <2>3. used \in Nat /\ used' \in Nat /\ used' \in 0 .. MaxSize /\ n \in Nat
    BY <2>1, Numbers, BufferAssumption DEF IInv
  <2>4. told' \in [readable : Told, writable : Told]
    BY <2>1, <2>3, NotifyTells DEF IInv, TypeOK, flagVars
  <2>5. got' \in Seq(Byte \cup {Unset}) /\ threw' \in BOOLEAN /\ asked' \in Nat
    BY <2>1, <2>3, EmptySeq DEF Returns
  <2>6. TypeOK'
    BY <2>1, <2>2, <2>3, <2>4, <2>5 DEF IInv, TypeOK, Mem, flagVars
  <2>7. keep => Len(Data(used)) <= n
    BY <1>2, <2>3, QueueFlags DEF IInv
  <2>8. Queue!Resize(n, keep)
    BY <2>1, <2>2, <2>7 DEF Queue!Resize, Queue!Returns, Returns, flagVars
  <2> QED  BY <2>2, <2>4, <2>6, <2>8 DEF IInv
<1> QED  BY <1>1, <1>2
LEMMA SetErrorStep ==
  ASSUME IInv, Failed, NEW b \in BOOLEAN, SetError(b)
  PROVE  IInv' /\ Queue!SetError(b)
<1>1. /\ error' = b /\ used' = (IF b THEN 0 ELSE used) /\ Returns(0, <<>>)
      /\ ptr' = ptr /\ size' = size /\ begin' = begin /\ UNCHANGED <<ownMem, eof, notifying, broken>>
  BY DEF SetError, memVars
<1>2. used \in Nat /\ used' \in Nat /\ used' <= used
  BY <1>1, Numbers DEF IInv
<1>3. InMemory'
  <2>1. \A i \in 1 .. used' : i \in 1 .. used
    BY <1>2
  <2>2. begin' + used' <= size'
    BY <1>1, <1>2, Numbers DEF IInv, InMemory
  <2> QED  BY <1>1, <2>1, <2>2 DEF IInv, InMemory
<1>4. told' \in [readable : Told, writable : Told]
  <2>1. CASE ~notifying
    <3>1. told' = told
      BY <2>1 DEF SetError
    <3> QED  BY <1>1, <2>1, <3>1 DEF IInv, TypeOK
  <2>2. CASE notifying /\ b
    <3>1. told' = [readable |-> IF isReadable THEN "no" ELSE told.readable,
                   writable |-> IF isWritable THEN "no" ELSE told.writable]
      BY <2>2 DEF SetError
    <3> QED  BY <3>1 DEF IInv, TypeOK, Told
  <2>3. CASE notifying /\ ~b
    <3>1. told' = [told EXCEPT !.writable = IF eof THEN @ ELSE "yes"]
      BY <2>3 DEF SetError
    <3> QED  BY <3>1 DEF IInv, TypeOK, Told
  <2> QED  BY <2>1, <2>2, <2>3
<1>5. got' \in Seq(Byte \cup {Unset}) /\ threw' \in BOOLEAN /\ asked' \in Nat
  BY <1>1, EmptySeq DEF Returns
<1>6. TypeOK'
  <2>1. used' \in 0 .. MaxSize
    BY <1>2, Numbers DEF IInv
  <2>2. error' \in BOOLEAN
    BY <1>1
  <2>3. {ownMem', eof', error', notifying', threw', broken'} \subseteq BOOLEAN
    BY <1>1, <1>5, <2>2 DEF IInv, TypeOK
  <2>4. begin' \in 0 .. MaxSize /\ size' \in Size /\ Len(ptr') \in 1 .. MaxSize
    BY <1>1 DEF IInv, TypeOK
  <2>5. ptr' \in [1 .. Len(ptr') -> Byte \cup {Unset}]
    BY <1>1 DEF IInv, TypeOK
  <2> QED  BY <1>4, <1>5, <2>1, <2>3, <2>4, <2>5 DEF TypeOK
<1>7. Data(used)' = IF b THEN <<>> ELSE Data(used)
  <2>1. CASE b
    <3>1. Data(used)' = [i \in {} |-> ptr'[begin' + i]]
      BY <1>1, <2>1 DEF Data
    <3> QED  BY <2>1, <3>1, EmptyFun
  <2>2. CASE ~b
    BY <1>1, <2>2, SameData
  <2> QED  BY <2>1, <2>2
<1>8. Queue!SetError(b)
  BY <1>1, <1>7 DEF Queue!SetError, Queue!Returns, Returns
<1> QED  BY <1>3, <1>4, <1>6, <1>8 DEF IInv

LEMMA SetEOFStep ==
  ASSUME IInv, NEW b \in BOOLEAN, SetEOF(b)
  PROVE  IInv' /\ Queue!SetEOF(b)
<1>1. /\ eof' = b /\ Returns(0, <<>>) /\ ptr' = ptr /\ size' = size
      /\ UNCHANGED <<ownMem, begin, used, error, notifying, broken>>
  BY DEF SetEOF, memVars
<1>2. told' \in [readable : Told, writable : Told] /\ told'.readable = told.readable
  <2>1. CASE notifying
    <3>1. told' = [told EXCEPT !.writable = Says(~b)]
      BY <2>1 DEF SetEOF
    <3>2. Says(~b) \in Told
      BY DEF Says, Told
    <3> QED  BY <3>1, <3>2 DEF IInv, TypeOK
  <2>2. CASE ~notifying
    BY <2>2 DEF SetEOF, IInv, TypeOK
  <2> QED  BY <2>1, <2>2
<1>3. InMemory'
  BY <1>1, <1>2 DEF IInv, InMemory
<1>4. got' \in Seq(Byte \cup {Unset}) /\ threw' \in BOOLEAN /\ asked' \in Nat
  BY <1>1, EmptySeq DEF Returns
<1>5. TypeOK'
  BY <1>1, <1>2, <1>4 DEF IInv, TypeOK
<1>6. Queue!SetEOF(b)
  BY <1>1, SameData DEF Queue!SetEOF, Queue!Returns, Returns
<1> QED  BY <1>3, <1>5, <1>6 DEF IInv

LEMMA SetNotifyStep ==
  ASSUME IInv, NEW b \in BOOLEAN, SetNotify(b)
  PROVE  IInv' /\ UNCHANGED Queue!vars
<1>1. /\ notifying' = b /\ ptr' = ptr /\ size' = size
      /\ UNCHANGED <<ownMem, begin, used, eof, error, asked, got, threw, broken>>
      /\ told' = IF b THEN told ELSE [readable |-> "unknown", writable |-> "unknown"]
  BY DEF SetNotify, memVars
<1>2. told' \in [readable : Told, writable : Told]
  BY <1>1 DEF IInv, TypeOK, Told
<1>3. InMemory'
  BY <1>1 DEF IInv, InMemory
<1>4. TypeOK'
  BY <1>1, <1>2 DEF IInv, TypeOK
<1>5. UNCHANGED Queue!vars
  BY <1>1, SameData DEF Queue!vars
<1> QED  BY <1>3, <1>4, <1>5 DEF IInv

(* Reading everything there is, is reading as much as the queue holds.     *)
LEMMA ReadBufferStep ==
  ASSUME IInv, NEW k \in Nat, ReadBuffer(k)
  PROVE  /\ IInv'
         /\ Queue!Read(k) \/ \E m \in 1 .. MaxSize : Queue!Read(m)
<1>1. CASE k = 0 /\ isReadable
  <2>1. used \in 1 .. MaxSize /\ used \in Nat
    BY <1>1, Numbers DEF IInv, isReadable
  <2>2. Read(used)
    BY <1>1 DEF ReadBuffer
  <2> QED  BY <2>1, <2>2, ReadStep
<1>2. CASE ~(k = 0 /\ isReadable)
  BY <1>2, ReadStep DEF ReadBuffer
<1> QED  BY <1>1, <1>2

LEMMA PeekBufferStep ==
  ASSUME IInv, NEW k \in Nat, PeekBuffer(k)
  PROVE  /\ IInv'
         /\ Queue!Peek(k) \/ \E m \in 1 .. MaxSize : Queue!Peek(m)
<1>1. CASE k = 0 /\ isReadable
  <2>1. used \in 1 .. MaxSize /\ used \in Nat
    BY <1>1, Numbers DEF IInv, isReadable
  <2>2. Peek(used)
    BY <1>1 DEF PeekBuffer
  <2> QED  BY <2>1, <2>2, PeekStep
<1>2. CASE ~(k = 0 /\ isReadable)
  BY <1>2, PeekStep DEF PeekBuffer
<1> QED  BY <1>1, <1>2

-------------------------------------------------------------------------------
(* Nothing puts bytes into a buffer with an error.                         *)
LEMMA FailedStep ==
  ASSUME IInv, Failed, Next
  PROVE  Failed'
<1> USE DEF Failed
<1>1. used \in Nat /\ (error => ~isWritable /\ ~isReadable)
  BY Numbers DEF IInv, isWritable, isReadable
<1>2. ASSUME NEW s \in Input, Write(s) \/ Fill(s)
      PROVE  Failed'
  <2>1. CASE error
    <3>1. CASE Write(s)
      BY <1>1, <2>1, <3>1 DEF Write, Nothing, flagVars
    <3>2. CASE Fill(s)
      BY <1>1, <2>1, <3>2 DEF Fill, Throws, flagVars
    <3> QED  BY <1>2, <3>1, <3>2
  <2>2. CASE ~error
    BY <1>2, <2>2 DEF Write, Fill, Nothing, Throws, flagVars
  <2> QED  BY <2>1, <2>2
<1>3. ASSUME NEW k \in Nat, Read(k)
      PROVE  Failed'
  <2>1. CASE error
    BY <1>1, <1>3, <2>1 DEF Read, Nothing, flagVars
  <2>2. CASE ~error
    BY <1>3, <2>2 DEF Read, Remove, Nothing, flagVars
  <2> QED  BY <2>1, <2>2
<1>4. ASSUME NEW k \in Nat, ReadBuffer(k)
      PROVE  Failed'
  BY <1>1, <1>3, <1>4 DEF ReadBuffer
<1>5. ASSUME NEW k \in Nat, Peek(k) \/ PeekBuffer(k)
      PROVE  Failed'
  BY <1>5 DEF Peek, PeekBuffer, Nothing, flagVars
<1>6. ASSUME NEW k \in Nat, Drain(k)
      PROVE  Failed'
  <2>1. used' = used - (IF k = 0 THEN used ELSE Least(k, used)) /\ error' = error
    BY <1>6 DEF Drain, Remove, flagVars
  <2> QED  BY <1>1, <2>1 DEF Least
<1>7. ASSUME NEW i \in 1 .. MaxSize, NEW b \in Byte, Replace(i, b)
      PROVE  Failed'
  BY <1>7 DEF Replace, Throws, flagVars
<1>8. ASSUME NEW n \in Size, NEW keep \in BOOLEAN, Resize(n, keep)
      PROVE  Failed'
  <2>1. error' = error /\ (used' = used \/ used' = 0)
    BY <1>8 DEF Resize, Throws, flagVars
  <2> QED  BY <2>1
<1>9. ASSUME NEW b \in BOOLEAN, SetError(b) \/ SetEOF(b) \/ SetNotify(b)
      PROVE  Failed'
  BY <1>9 DEF SetError, SetEOF, SetNotify
<1>10. CASE Begin
  BY <1>1, <1>10, EmptySeq DEF Begin, PutBehind, flagVars
<1>11. Length \subseteq Nat
  BY BufferAssumption
<1> QED  BY <1>2, <1>3, <1>4, <1>5, <1>6, <1>7, <1>8, <1>9, <1>10, <1>11 DEF Next
LEMMA InitIInv ==
  ASSUME Init
  PROVE  IInv /\ Failed /\ ~broken
<1>1. size \in 1 .. MaxSize /\ MaxSize \in Nat /\ size \in Nat
  BY BufferAssumption DEF Init
<1>2. ptr \in [1 .. size -> Mem] /\ used \in {0, size} /\ (used # 0 => ptr \in [1 .. size -> Byte])
  <2>1. CASE ptr = [i \in 1 .. size |-> Unset] /\ used = 0
    BY <2>1 DEF Mem
  <2>2. CASE ptr \in [1 .. size -> Byte] /\ used = size
    BY <2>2 DEF Mem
  <2> QED  BY <2>1, <2>2 DEF Init
<1>3. Len(ptr) = size
  BY <1>1, <1>2, FunSeq
<1>4. begin = 0
  BY DEF Init
<1>5. InMemory
  BY <1>1, <1>2, <1>3, <1>4 DEF InMemory
<1>6. told \in [readable : Told, writable : Told]
  <2>1. Says(used # 0) \in Told /\ Says(used # size) \in Told
    BY DEF Says, Told
  <2>2. CASE notifying
    <3>1. told = [readable |-> Says(used # 0), writable |-> Says(used # size)]
      BY <2>2 DEF Init
    <3> QED  BY <2>1, <3>1
  <2>3. CASE ~notifying
    BY <2>3 DEF Init, Told
  <2> QED  BY <2>2, <2>3
<1>7. TypeOK
  <2>1. got \in Seq(Byte \cup {Unset}) /\ asked \in Nat
    BY EmptySeq DEF Init
  <2>2. {ownMem, eof, error, notifying, threw, broken} \subseteq BOOLEAN
    BY DEF Init
  <2>3. used \in 0 .. MaxSize /\ begin \in 0 .. MaxSize
    BY <1>1, <1>2, <1>4
  <2> QED  BY <1>1, <1>2, <1>3, <1>6, <2>1, <2>2, <2>3 DEF Init, TypeOK, Mem
<1> QED  BY <1>5, <1>6, <1>7 DEF IInv, Failed, Init

LEMMA InitMaps ==
  ASSUME Init
  PROVE  Queue!Init
<1>1. size \in Size /\ begin = 0 /\ size \in Nat
  BY BufferAssumption DEF Init
<1>2. Data(used) = <<>> \/ Data(used) \in [1 .. size -> Byte]
  <2>1. CASE used = 0
    <3>1. Data(used) = [i \in {} |-> ptr[begin + i]]
      BY <2>1 DEF Data
    <3> QED  BY <3>1, EmptyFun
  <2>2. CASE ptr \in [1 .. size -> Byte] /\ used = size
    <3>1. \A i \in 1 .. size : ptr[begin + i] \in Byte
      BY <1>1, <2>2
    <3> QED  BY <2>2, <3>1 DEF Data
  <2> QED  BY <2>1, <2>2 DEF Init
<1> QED  BY <1>1, <1>2 DEF Init, Queue!Init

LEMMA StutterKeeps ==
  ASSUME IInv, Failed, UNCHANGED vars
  PROVE  IInv' /\ Failed' /\ UNCHANGED Queue!vars
<1>1. /\ ptr' = ptr /\ ownMem' = ownMem /\ size' = size /\ begin' = begin /\ used' = used
      /\ eof' = eof /\ error' = error /\ notifying' = notifying /\ told' = told
      /\ asked' = asked /\ got' = got /\ threw' = threw /\ broken' = broken
  BY DEF vars, memVars, flagVars
<1>2. Failed' /\ InMemory'
  BY <1>1 DEF IInv, Failed, InMemory
<1>3. TypeOK'
  BY <1>1 DEF IInv, TypeOK
<1>4. UNCHANGED Queue!vars
  BY <1>1, SameData DEF Queue!vars
<1> QED  BY <1>2, <1>3, <1>4 DEF IInv

(* A step of the buffer is one of the queue, or none that its users see.   *)
LEMMA NextStep ==
  ASSUME ~Shrinks, IInv, Failed, Next
  PROVE  IInv' /\ [Queue!Next]_Queue!vars
<1>1. Length \subseteq Nat /\ 1 .. MaxSize \subseteq Nat
  BY BufferAssumption
<1>2. ASSUME NEW s \in Input, Write(s) \/ Fill(s)
      PROVE  IInv' /\ Queue!Next
  BY <1>2, WriteStep, FillStep DEF Queue!Next
<1>3. ASSUME NEW k \in Length, Read(k) \/ ReadBuffer(k) \/ Peek(k) \/ PeekBuffer(k) \/ Drain(k)
      PROVE  IInv' /\ Queue!Next
  <2>1. k \in Nat
    BY <1>1
  <2>2. CASE Read(k)
    BY <2>1, <2>2, ReadStep DEF Queue!Next
  <2>3. CASE ReadBuffer(k)
    <3>1. IInv' /\ \E m \in Length \cup 1 .. MaxSize : Queue!Read(m)
      BY <2>1, <2>3, ReadBufferStep
    <3> QED  BY <3>1 DEF Queue!Next
  <2>4. CASE Peek(k)
    BY <2>1, <2>4, PeekStep DEF Queue!Next
  <2>5. CASE Drain(k)
    BY <2>1, <2>5, DrainStep DEF Queue!Next
  <2>6. CASE PeekBuffer(k)
    <3>1. IInv' /\ \E m \in Length \cup 1 .. MaxSize : Queue!Peek(m)
      BY <2>1, <2>6, PeekBufferStep
    <3> QED  BY <3>1 DEF Queue!Next
  <2> QED  BY <1>3, <2>2, <2>3, <2>4, <2>5, <2>6
<1>4. ASSUME NEW i \in 1 .. MaxSize, NEW b \in Byte, Replace(i, b)
      PROVE  IInv' /\ Queue!Next
  BY <1>4, ReplaceStep DEF Queue!Next
<1>5. ASSUME NEW n \in Size, NEW keep \in BOOLEAN, Resize(n, keep)
      PROVE  IInv' /\ Queue!Next
  BY <1>5, ResizeStep DEF Queue!Next
<1>6. ASSUME NEW b \in BOOLEAN, SetError(b) \/ SetEOF(b)
      PROVE  IInv' /\ Queue!Next
  BY <1>6, SetErrorStep, SetEOFStep DEF Queue!Next
<1>7. ASSUME NEW b \in BOOLEAN, SetNotify(b)
      PROVE  IInv' /\ UNCHANGED Queue!vars
  BY <1>7, SetNotifyStep
<1>8. CASE Begin
  BY <1>8, BeginStep
<1> QED  BY <1>2, <1>3, <1>4, <1>5, <1>6, <1>7, <1>8 DEF Next

(* The assertion of write() has no way to fail.                            *)
LEMMA NeverBroken ==
  ASSUME IInv, ~broken, Next
  PROVE  ~broken'
<1>1. ASSUME NEW s \in Input, Write(s)
      PROVE  ~broken'
  <2> DEFINE m == Least(Len(s), Room(Len(s)))
             part == SubSeq(s, 1, m)
  <2>1. s \in Seq(Byte) /\ Len(s) \in Nat
    BY BufferAssumption, LenProperties
  <2>2. m \in 0 .. Len(s) /\ used + m <= size
    BY <2>1, RoomIsThere DEF IInv
  <2>3. Len(part) = m
    <3>1. \A i \in 1 .. m : s[i] \in Byte
      BY <2>1, <2>2, ElementOfSeq
    <3>2. 1 \in Int /\ m \in Int /\ m \in Nat
      BY <2>1, <2>2
    <3> HIDE DEF m
    <3>3. Len(part) = IF 1 <= m THEN m - 1 + 1 ELSE 0
      BY ONLY <3>1, <3>2, SubSeqProperties
    <3> QED  BY <3>2, <3>3
  <2>4. ~(used + Len(part) > size)
    <3> HIDE DEF m, part
    <3> QED  BY <2>1, <2>2, <2>3, Numbers DEF IInv
  <2> QED  BY <1>1, <2>4 DEF Write, Nothing
<1>2. ASSUME NEW s \in Input, Fill(s)
      PROVE  ~broken'
  BY <1>2 DEF Fill, Throws
<1>3. ASSUME NEW k \in Length, Read(k) \/ ReadBuffer(k) \/ Peek(k) \/ PeekBuffer(k) \/ Drain(k)
      PROVE  ~broken'
  BY <1>3 DEF Read, ReadBuffer, Peek, PeekBuffer, Drain, Remove, Nothing
<1>4. ASSUME NEW i \in 1 .. MaxSize, NEW b \in Byte, Replace(i, b)
      PROVE  ~broken'
  BY <1>4 DEF Replace, Throws
<1>5. ASSUME NEW n \in Size, NEW keep \in BOOLEAN, Resize(n, keep)
      PROVE  ~broken'
  BY <1>5 DEF Resize, Throws
<1>6. ASSUME NEW b \in BOOLEAN, SetError(b) \/ SetEOF(b) \/ SetNotify(b)
      PROVE  ~broken'
  BY <1>6 DEF SetError, SetEOF, SetNotify
<1>7. CASE Begin
  BY <1>7 DEF Begin
<1> QED  BY <1>1, <1>2, <1>3, <1>4, <1>5, <1>6, <1>7 DEF Next
-------------------------------------------------------------------------------
LEMMA Invariance == ~Shrinks => (Spec => [](IInv /\ Failed /\ ~broken))
<1> SUFFICES ASSUME ~Shrinks PROVE Spec => [](IInv /\ Failed /\ ~broken)
  OBVIOUS
<1>1. Init => IInv /\ Failed /\ ~broken
  BY InitIInv
<1>2. IInv /\ Failed /\ ~broken /\ [Next]_vars => (IInv /\ Failed /\ ~broken)'
  <2> SUFFICES ASSUME IInv, Failed, ~broken, [Next]_vars
               PROVE  IInv' /\ Failed' /\ ~broken'
    OBVIOUS
  <2>1. CASE Next
    BY <2>1, NextStep, FailedStep, NeverBroken
  <2>2. CASE UNCHANGED vars
    <3>1. ~broken'
      BY <2>2 DEF vars
    <3> QED  BY <2>2, <3>1, StutterKeeps
  <2> QED  BY <2>1, <2>2
<1> QED  BY <1>1, <1>2, PTL DEF Spec

(* The variables have their types.                                         *)
THEOREM TypeCorrect == ~Shrinks => (Spec => []TypeOK)
<1>1. IInv => TypeOK
  BY DEF IInv
<1> QED  BY <1>1, Invariance, PTL

(* In a buffer that is never made smaller, the data lies within the memory *)
(* and was all put there by a caller, in whatever order callers write,     *)
(* read, drain, peek, resize and let it be moved to the front.             *)
THEOREM DataStaysInMemory == ~Shrinks => (Spec => []InMemory)
<1>1. IInv => InMemory
  BY DEF IInv
<1> QED  BY <1>1, Invariance, PTL

(* The assertion of write() holds as long as no caller shrinks the buffer. *)
THEOREM AssertionHolds == ~Shrinks => (Spec => []UsedFits)
<1>1. ~broken => UsedFits
  BY DEF UsedFits
<1> QED  BY <1>1, Invariance, PTL

(* To its users the buffer is the bounded queue of bytes.                  *)
THEOREM BufferIsQueue == ~Shrinks => (Spec => ImplementsByteQueue)
<1> SUFFICES ASSUME ~Shrinks PROVE Spec => ImplementsByteQueue
  OBVIOUS
<1>1. Init => Queue!Init
  BY InitMaps
<1>2. IInv /\ Failed /\ [Next]_vars => [Queue!Next]_Queue!vars
  <2> SUFFICES ASSUME IInv, Failed, [Next]_vars
               PROVE  [Queue!Next]_Queue!vars
    OBVIOUS
  <2> QED  BY NextStep, StutterKeeps
<1> QED  BY <1>1, <1>2, Invariance, PTL DEF Spec, ImplementsByteQueue, Queue!Spec
-------------------------------------------------------------------------------
Woken == told.writable = "no" => ~isWritable

WBody == Woken /\ (~notifying => told.writable = "unknown")

WInv == (size = made => WBody) /\ made \in Nat /\ made <= size

(* Nobody makes the buffer smaller.                                        *)
LEMMA SizeGrows ==
  ASSUME ~Shrinks, size \in Nat, Next
  PROVE  size <= size'
<1>1. ASSUME UNCHANGED size PROVE size <= size'
  BY <1>1
<1>2. ASSUME NEW s \in Input, Write(s) \/ Fill(s) PROVE size <= size'
  BY <1>1, <1>2 DEF Write, Fill, Nothing, Throws, memVars
<1>3. ASSUME NEW k \in Length, Read(k) \/ ReadBuffer(k) \/ Peek(k) \/ PeekBuffer(k) \/ Drain(k)
      PROVE  size <= size'
  BY <1>1, <1>3 DEF Read, ReadBuffer, Peek, PeekBuffer, Drain, Remove, Nothing, memVars
<1>4. ASSUME NEW i \in 1 .. MaxSize, NEW b \in Byte, Replace(i, b) PROVE size <= size'
  BY <1>1, <1>4 DEF Replace, Throws, memVars
<1>5. ASSUME NEW n \in Size, NEW keep \in BOOLEAN, Resize(n, keep) PROVE size <= size'
  <2>1. CASE Throws
    BY <1>1, <2>1 DEF Throws, memVars
  <2>2. CASE size' = n /\ n >= size
    BY <2>2, BufferAssumption
  <2> QED  BY <1>5, <2>1, <2>2 DEF Resize
<1>6. ASSUME NEW b \in BOOLEAN, SetError(b) \/ SetEOF(b) \/ SetNotify(b) PROVE size <= size'
  BY <1>1, <1>6 DEF SetError, SetEOF, SetNotify, memVars
<1>7. CASE Begin
  BY <1>1, <1>7 DEF Begin
<1> QED  BY <1>2, <1>3, <1>4, <1>5, <1>6, <1>7 DEF Next

LEMMA NotifyWakes ==
  ASSUME IInv, WBody, Notify(used), size' = size, used' \in Nat, used' <= size,
         UNCHANGED flagVars
  PROVE  WBody'
<1>1. used \in Nat /\ size \in Nat /\ used <= size
  BY Numbers DEF IInv
<1>2. notifying' = notifying /\ eof' = eof /\ error' = error
  BY DEF flagVars
<1>3. CASE ~notifying
  BY <1>2, <1>3 DEF Notify, WBody, Woken
<1>4. CASE notifying
  <2>1. told'.writable = CASE used = size' /\ used' < size' -> "yes"
                           [] used < size' /\ used' = size' -> "no"
                           [] OTHER -> told.writable
    BY <1>4 DEF Notify
  <2>2. CASE used = size' /\ used' < size'
    <3>1. told'.writable = "yes"
      BY <2>1, <2>2
    <3> QED  BY <1>2, <1>4, <3>1 DEF WBody, Woken
  <2>3. CASE used' = size'
    BY <1>2, <1>4, <2>3 DEF WBody, Woken, isWritable
  <2>4. CASE used # size' /\ used' # size'
    <3>1. told'.writable = told.writable
      BY <1>1, <2>1, <2>4
    <3>2. isWritable' <=> isWritable
      BY <1>2, <2>4 DEF isWritable
    <3> QED  BY <1>2, <1>4, <3>1, <3>2 DEF WBody, Woken
  <2> QED  BY <1>1, <2>2, <2>3, <2>4
<1> QED  BY <1>3, <1>4

LEMMA QuietWakes ==
  ASSUME WBody, UNCHANGED <<size, used, flagVars, told>>
  PROVE  WBody'
  BY DEF WBody, Woken, isWritable, flagVars

LEMMA WakesStep ==
  ASSUME ~Shrinks, size' = size, IInv, Failed, WBody, Next
  PROVE  WBody'
<1>1. IInv'
  BY NextStep
<1>2. size' = size
  OBVIOUS
<1>3. used' \in Nat /\ used' <= size
  <2>1. used' \in 0 .. MaxSize /\ begin' \in 0 .. MaxSize /\ begin' + used' <= size'
    BY <1>1 DEF IInv, TypeOK, InMemory
  <2> QED  BY <1>2, <2>1, Numbers DEF IInv
<1>4. ASSUME Notify(used), UNCHANGED flagVars
      PROVE  WBody'
  BY <1>2, <1>3, <1>4, NotifyWakes
<1>5. ASSUME UNCHANGED <<size, used, flagVars, told>>
      PROVE  WBody'
  BY <1>5, QuietWakes
<1>6. ASSUME NEW n \in Nat, Nothing(n)
      PROVE  WBody'
  BY <1>5, <1>6 DEF Nothing, memVars
<1>7. CASE Throws
  BY <1>5, <1>7 DEF Throws, memVars
<1>8. ASSUME NEW s \in Input, Write(s)
      PROVE  WBody'
  <2>1. Len(s) \in Nat
    BY BufferAssumption, LenProperties
  <2>2. CASE Nothing(Len(s))
    BY <1>6, <2>1, <2>2
  <2>3. CASE broken'
    <3>1. ~broken'
      BY NeverBroken DEF Next
    <3> QED  BY <2>3, <3>1
  <2>4. CASE UNCHANGED flagVars /\ Notify(used)
    BY <1>4, <2>4
  <2> QED  BY <1>8, <2>2, <2>3, <2>4 DEF Write
<1>9. ASSUME NEW s \in Input, Fill(s)
      PROVE  WBody'
  BY <1>4, <1>7, <1>9 DEF Fill
<1>10. ASSUME NEW k \in Nat, Read(k)
       PROVE  WBody'
  BY <1>4, <1>6, <1>10 DEF Read, Remove
<1>11. ASSUME NEW k \in Nat, ReadBuffer(k)
       PROVE  WBody'
  <2>1. used \in Nat
    BY Numbers DEF IInv
  <2> QED  BY <1>10, <1>11, <2>1 DEF ReadBuffer
<1>12. ASSUME NEW k \in Nat, Peek(k) \/ PeekBuffer(k)
       PROVE  WBody'
  <2>1. \A m \in Nat : Peek(m) => WBody'
    BY <1>5, <1>6 DEF Peek, memVars
  <2>2. used \in Nat
    BY Numbers DEF IInv
  <2> QED  BY <1>12, <2>1, <2>2 DEF PeekBuffer
<1>13. ASSUME NEW k \in Nat, Drain(k)
       PROVE  WBody'
  BY <1>4, <1>13 DEF Drain, Remove
<1>14. ASSUME NEW i \in 1 .. MaxSize, NEW b \in Byte, Replace(i, b)
       PROVE  WBody'
  BY <1>5, <1>7, <1>14 DEF Replace
<1>15. ASSUME NEW n \in Size, NEW keep \in BOOLEAN, Resize(n, keep)
       PROVE  WBody'
  BY <1>4, <1>7, <1>15 DEF Resize
<1>16. ASSUME NEW b \in BOOLEAN, SetError(b)
       PROVE  WBody'
  <2>1. error' = b /\ eof' = eof /\ notifying' = notifying
    BY <1>16 DEF SetError
  <2>2. CASE ~notifying
    <3>1. told' = told
      BY <1>16, <2>2 DEF SetError
    <3> QED  BY <2>1, <2>2, <3>1 DEF WBody, Woken
  <2>3. CASE notifying /\ b
    BY <2>1, <2>3 DEF WBody, Woken, isWritable
  <2>4. CASE notifying /\ ~b /\ eof
    BY <2>1, <2>4 DEF WBody, Woken, isWritable
  <2>5. CASE notifying /\ ~b /\ ~eof
    <3>1. told' = [told EXCEPT !.writable = "yes"]
      BY <1>16, <2>5 DEF SetError
    <3>2. told'.writable = "yes"
      BY <3>1 DEF IInv, TypeOK
    <3> QED  BY <2>1, <2>5, <3>2 DEF WBody, Woken
  <2> QED  BY <2>2, <2>3, <2>4, <2>5
<1>17. ASSUME NEW b \in BOOLEAN, SetEOF(b)
       PROVE  WBody'
  <2>1. eof' = b /\ notifying' = notifying
    BY <1>17 DEF SetEOF
  <2>2. CASE ~notifying
    <3>1. told' = told
      BY <1>17, <2>2 DEF SetEOF
    <3> QED  BY <2>1, <2>2, <3>1 DEF WBody, Woken
  <2>3. CASE notifying /\ b
    BY <2>1, <2>3 DEF WBody, Woken, isWritable
  <2>4. CASE notifying /\ ~b
    <3>1. told' = [told EXCEPT !.writable = "yes"]
      BY <1>17, <2>4 DEF SetEOF, Says
    <3>2. told'.writable = "yes"
      BY <3>1 DEF IInv, TypeOK
    <3> QED  BY <2>1, <2>4, <3>2 DEF WBody, Woken
  <2> QED  BY <2>2, <2>3, <2>4
<1>18. ASSUME NEW b \in BOOLEAN, SetNotify(b)
       PROVE  WBody'
  <2>1. CASE b
    BY <1>18, <2>1, <1>2 DEF SetNotify, WBody, Woken, isWritable
  <2>2. CASE ~b
    <3>1. told'.writable = "unknown"
      BY <1>18, <2>2 DEF SetNotify
    <3> QED  BY <3>1 DEF WBody, Woken
  <2> QED  BY <2>1, <2>2
<1>19. CASE Begin
  <2>1. used' = used
    BY <1>19, EmptySeq, Numbers DEF IInv, Begin, PutBehind
  <2> QED  BY <1>5, <1>19, <2>1 DEF Begin
<1>20. Length \subseteq Nat
  BY BufferAssumption
<1> QED
  BY <1>8, <1>9, <1>10, <1>11, <1>12, <1>13, <1>14, <1>15, <1>16, <1>17, <1>18, <1>19, <1>20
  DEF Next

(* Until the buffer is made larger, a writer that was told to wait waits   *)
(* for room that is not there: no removal, error or end of file that makes *)
(* the buffer writable again goes without a notification.                  *)
THEOREM WritersAreWoken == ~Shrinks => (Spec => []WriterIsWoken)
<1> SUFFICES ASSUME ~Shrinks PROVE Spec => []WriterIsWoken
  OBVIOUS
<1>1. Init => WInv
  <2> SUFFICES ASSUME Init PROVE WInv
    OBVIOUS
  <2>1. made = size /\ made \in Nat /\ made <= size
    <3>1. size \in Nat
      BY BufferAssumption DEF Init
    <3> QED  BY <3>1 DEF Init
  <2>2. CASE notifying
    <3>1. told.writable = Says(used # size)
      BY <2>2 DEF Init
    <3> QED  BY <2>1, <2>2, <3>1 DEF WInv, WBody, Woken, isWritable, Says
  <2>3. CASE ~notifying
    <3>1. told.writable = "unknown"
      BY <2>3 DEF Init
    <3> QED  BY <2>1, <3>1 DEF WInv, WBody, Woken
  <2> QED  BY <2>2, <2>3
<1>2. IInv /\ Failed /\ WInv /\ [Next]_vars => WInv'
  <2> SUFFICES ASSUME IInv, Failed, WInv, [Next]_vars PROVE WInv'
    OBVIOUS
  <2>1. CASE UNCHANGED vars
    <3>1. UNCHANGED <<size, used, flagVars, told, made>>
      BY <2>1 DEF vars, memVars
    <3> QED  BY <3>1, QuietWakes DEF WInv
  <2>2. CASE Next
    <3>1. size \in Nat /\ made \in Nat /\ size' \in Nat /\ made' = made
      <4>1. IInv'
        BY <2>2, NextStep
      <4> QED  BY <2>2, <4>1, BufferAssumption DEF IInv, TypeOK, Next, WInv
    <3>2. size <= size'
      BY <2>2, <3>1, SizeGrows
    <3>3. CASE size' = made
      <4>1. size = made /\ size' = size
        BY <3>1, <3>2, <3>3 DEF WInv
      <4>2. WBody'
        BY <2>2, <4>1, WakesStep DEF WInv
      <4> QED  BY <3>1, <4>1, <4>2 DEF WInv
    <3>4. CASE size' # made
      BY <3>1, <3>2, <3>4 DEF WInv
    <3> QED  BY <3>3, <3>4
  <2> QED  BY <2>1, <2>2
<1>3. WInv => WriterIsWoken
  BY DEF WInv, WBody, Woken, WriterIsWoken
<1> QED  BY <1>1, <1>2, <1>3, Invariance, PTL DEF Spec
===============================================================================
