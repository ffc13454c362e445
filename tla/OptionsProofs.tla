----------------------------- MODULE OptionsProofs -----------------------------
(***************************************************************************)
(* Proofs about Options: the check of COption::ParseOptions accepts        *)
(* exactly the ports, whatever the second argument is and however long.    *)
(* atoi reads it character by character, so the facts about it are by      *)
(* induction over the characters read, for which Induction stands.         *)
(***************************************************************************)
EXTENDS Options, TLAPS, WellFoundedInduction

(* A set of numbers that has 0, and with each number the next, has all.    *)
LEMMA Induction ==
  ASSUME NEW S, 0 \in S, \A n \in Nat : n \in S => n + 1 \in S
  PROVE  \A n \in Nat : n \in S
<1> DEFINE T == Nat \ S
<1> SUFFICES ASSUME T # {} PROVE FALSE
  OBVIOUS
<1>1. \E x \in T : \A y \in T : ~(<<y, x>> \in OpToRel(<, Nat))
  BY NatLessThanWellFounded, WFMin
<1>2. \A x, y \in Nat : ~(<<y, x>> \in OpToRel(<, Nat)) => x <= y
  BY DEF OpToRel
<1>3. PICK x \in T : \A y \in T : x <= y
  BY <1>1, <1>2
<1>4. x - 1 \in Nat /\ x - 1 \notin T
  BY <1>3
<1> QED  BY <1>3, <1>4

(* The largest int is far above the largest port.                          *)
LEMMA IntMaxFacts == INT_MAX \in Nat /\ INT_MAX >= 1000009
  BY SMT DEF INT_MAX

(* And it is a number, which is all that most of the lemmas need.          *)
LEMMA IntMaxNat == INT_MAX \in Nat
  BY IntMaxFacts

(* One digit more makes no smaller number.                                 *)
LEMMA StepFacts ==
  ASSUME NEW n \in 0 .. INT_MAX, NEW d \in Digit
  PROVE  Step(n, d) \in 0 .. INT_MAX /\ n <= Step(n, d)
<1>1. INT_MAX - d \in Nat /\ d \in Nat /\ n \in Nat /\ n <= INT_MAX
  BY SMT, IntMaxFacts DEF Digit
<1>2. \A x, y \in Nat : y <= x \div 10 => 10 * y <= x
  BY SMT
<1>3. ~(n > (INT_MAX - d) \div 10) => 10 * n <= INT_MAX - d
  BY SMT, <1>1, <1>2
<1> QED  BY SMT, <1>1, <1>3, IntMaxNat DEF Step

(* Far from the largest int it makes it ten times as large, and more.      *)
LEMMA StepSmall ==
  ASSUME NEW n \in Nat, n <= 99999, NEW d \in Digit
  PROVE  Step(n, d) = 10 * n + d
<1>1. INT_MAX - d \in Nat /\ INT_MAX - d >= 1000000
  BY SMT, IntMaxFacts DEF Digit
<1>2. \A x \in Nat : x >= 1000000 => ~(n > x \div 10)
  BY SMT
<1> QED  BY SMT, <1>1, <1>2 DEF Step
-------------------------------------------------------------------------------
(* f gives the number that has been read after each of the first n         *)
(* characters.                                                             *)
Reads(f, s, n) ==
  f = [k \in 0 .. n |-> IF k = 0 THEN 0 ELSE Step(f[k - 1], s[k])]

value(s) == CHOOSE f : Reads(f, s, Len(s))

(* atoi's loop is defined: there is such an f.                             *)
LEMMA ValueExists ==
  ASSUME NEW s
  PROVE  \A n \in Nat : \E f : Reads(f, s, n)
<1> DEFINE S == {n \in Nat : \E f : Reads(f, s, n)}
<1>1. 0 \in S
  <2> DEFINE f == [k \in 0 .. 0 |-> 0]
  <2>1. Reads(f, s, 0)
    BY DEF Reads
  <2> QED  BY <2>1
<1>2. ASSUME NEW n \in Nat, n \in S PROVE n + 1 \in S
  <2>1. PICK f : Reads(f, s, n)
    BY <1>2
  <2> DEFINE g == [k \in 0 .. n + 1 |-> IF k = n + 1 THEN Step(f[n], s[n + 1]) ELSE f[k]]
  <2>2. ASSUME NEW k \in 0 .. n + 1
        PROVE  g[k] = IF k = 0 THEN 0 ELSE Step(g[k - 1], s[k])
    <3>1. CASE k = 0
      BY <2>1, <3>1 DEF Reads
    <3>2. CASE k \in 1 .. n
      <4>1. f[k] = Step(f[k - 1], s[k])
        BY <2>1, <3>2 DEF Reads
      <4>2. k - 1 \in 0 .. n + 1 /\ k - 1 # n + 1 /\ k # n + 1 /\ k # 0
        BY <3>2
      <4> QED  BY <4>1, <4>2
    <3>3. CASE k = n + 1
      <4>1. k - 1 = n /\ n \in 0 .. n + 1 /\ n # n + 1 /\ k # 0
        BY <3>3
      <4> QED  BY <3>3, <4>1
    <3> QED  BY <3>1, <3>2, <3>3
  <2>3. Reads(g, s, n + 1)
    <3> DEFINE h == [k \in 0 .. n + 1 |-> IF k = 0 THEN 0 ELSE Step(g[k - 1], s[k])]
    <3>1. \A k \in 0 .. n + 1 : g[k] = h[k]
      BY <2>2
    <3>2. DOMAIN g = 0 .. n + 1 /\ g = [k \in DOMAIN g |-> g[k]]
      OBVIOUS
    <3> HIDE DEF g
    <3>3. g = h
      BY <3>1, <3>2
    <3> QED  BY <3>3 DEF Reads
  <2> HIDE DEF g
  <2>4. n + 1 \in Nat
    OBVIOUS
  <2> QED  BY <2>3, <2>4
<1> HIDE DEF S
<1>3. \A n \in Nat : n \in S
  BY ONLY <1>1, <1>2, Induction
<1> QED  BY <1>3 DEF S

(* What atoi does with the digits, one after the other.                    *)
LEMMA ValueFacts ==
  ASSUME NEW s \in Seq(Digit)
  PROVE  /\ atoi(s) = value(s)[Len(s)]
         /\ value(s)[0] = 0
         /\ \A k \in 1 .. Len(s) : value(s)[k] = Step(value(s)[k - 1], s[k])
<1>1. Reads(value(s), s, Len(s))
  BY ValueExists DEF value
<1>2. atoi(s) = value(s)[Len(s)]
  BY DEF atoi, value, Reads
<1> HIDE DEF value
<1>3. Len(s) \in Nat /\ 0 \in 0 .. Len(s) /\ \A k \in 1 .. Len(s) : k \in 0 .. Len(s) /\ k # 0
  OBVIOUS
<1>4. \A k \in 0 .. Len(s) :
        value(s)[k] = IF k = 0 THEN 0 ELSE Step(value(s)[k - 1], s[k])
  BY ONLY <1>1 DEF Reads
<1>5. value(s)[0] = 0
  BY ONLY <1>3, <1>4
<1>6. \A k \in 1 .. Len(s) : value(s)[k] = Step(value(s)[k - 1], s[k])
  BY ONLY <1>3, <1>4
<1> QED  BY ONLY <1>2, <1>5, <1>6

(* It never leaves the range of an int.                                    *)
LEMMA ValueType ==
  ASSUME NEW s \in Seq(Digit)
  PROVE  \A k \in 0 .. Len(s) : value(s)[k] \in 0 .. INT_MAX
<1> DEFINE S == {n \in Nat : n <= Len(s) => value(s)[n] \in 0 .. INT_MAX}
<1>1. 0 \in S
  BY ValueFacts, IntMaxNat
<1>2. ASSUME NEW n \in Nat, n \in S PROVE n + 1 \in S
  <2> SUFFICES ASSUME n + 1 <= Len(s) PROVE value(s)[n + 1] \in 0 .. INT_MAX
    OBVIOUS
  <2>1. n + 1 \in 1 .. Len(s) /\ n + 1 - 1 = n /\ n <= Len(s)
    OBVIOUS
  <2>2. value(s)[n] \in 0 .. INT_MAX /\ s[n + 1] \in Digit
    BY <1>2, <2>1
  <2>3. value(s)[n + 1] = Step(value(s)[n], s[n + 1])
    BY <2>1, ValueFacts
  <2> QED  BY ONLY <2>2, <2>3, StepFacts
<1> HIDE DEF S
<1>3. \A n \in Nat : n \in S
  BY ONLY <1>1, <1>2, Induction
<1> QED  BY <1>3 DEF S

(* More digits make no smaller number.                                     *)
LEMMA ValueGrows ==
  ASSUME NEW s \in Seq(Digit), NEW i \in 0 .. Len(s)
  PROVE  \A k \in i .. Len(s) : value(s)[i] <= value(s)[k]
<1> DEFINE S == {n \in Nat : i + n <= Len(s) => value(s)[i] <= value(s)[i + n]}
<1>1. 0 \in S
  <2>1. i + 0 = i /\ value(s)[i] \in 0 .. INT_MAX
    BY ValueType
  <2> QED  BY <2>1
<1>2. ASSUME NEW n \in Nat, n \in S PROVE n + 1 \in S
  <2> SUFFICES ASSUME i + (n + 1) <= Len(s) PROVE value(s)[i] <= value(s)[i + (n + 1)]
    OBVIOUS
  <2> DEFINE k == i + n + 1
  <2>1. k = i + (n + 1) /\ k \in 1 .. Len(s) /\ k - 1 = i + n /\ i + n \in 0 .. Len(s)
    OBVIOUS
  <2> HIDE DEF k
  <2>2. value(s)[i] \in 0 .. INT_MAX /\ value(s)[i + n] \in 0 .. INT_MAX /\ s[k] \in Digit
    BY <2>1, ValueType
  <2>3. value(s)[k] = Step(value(s)[i + n], s[k])
    BY <2>1, ValueFacts
  <2>4. value(s)[i + n] <= value(s)[k] /\ value(s)[k] \in 0 .. INT_MAX
    BY ONLY <2>2, <2>3, StepFacts
  <2>5. value(s)[i] <= value(s)[i + n]
    BY <1>2, <2>1
  <2> QED  BY <2>1, <2>2, <2>4, <2>5
<1> HIDE DEF S
<1>3. \A n \in Nat : n \in S
  BY ONLY <1>1, <1>2, Induction
<1>4. ASSUME NEW k \in i .. Len(s) PROVE value(s)[i] <= value(s)[k]
  <2>1. k - i \in Nat /\ i + (k - i) = k /\ k <= Len(s)
    OBVIOUS
  <2>2. k - i \in S
    BY <1>3, <2>1
  <2>3. value(s)[i] <= value(s)[i + (k - i)]
    BY <2>1, <2>2 DEF S
  <2> QED  BY <2>1, <2>3
<1> QED  BY <1>4

(* Zeros in front count for nothing.                                       *)
LEMMA ZerosInFront ==
  ASSUME NEW s \in Seq(Digit), NEW i \in 0 .. Len(s), \A j \in 1 .. i : s[j] = 0
  PROVE  value(s)[i] = 0
<1> DEFINE S == {n \in Nat : n <= i => value(s)[n] = 0}
<1>1. 0 \in S
  BY ValueFacts
<1>2. ASSUME NEW n \in Nat, n \in S PROVE n + 1 \in S
  <2> SUFFICES ASSUME n + 1 <= i PROVE value(s)[n + 1] = 0
    OBVIOUS
  <2>1. n + 1 \in 1 .. Len(s) /\ n + 1 - 1 = n /\ s[n + 1] = 0 /\ value(s)[n] = 0
    BY <1>2
  <2>2. value(s)[n + 1] = Step(0, 0)
    BY <2>1, ValueFacts
  <2>3. Step(0, 0) = 0
    BY SMT DEF Step, INT_MAX
  <2> QED  BY <2>2, <2>3
<1> HIDE DEF S
<1>3. \A n \in Nat : n \in S
  BY ONLY <1>1, <1>2, Induction
<1>4. i \in Nat /\ i <= i
  OBVIOUS
<1> QED  BY <1>3, <1>4 DEF S
-------------------------------------------------------------------------------
(* s[i] is the first digit that is not 0.                                  *)
Leads(s, i) ==
  /\ i \in 1 .. Len(s)
  /\ s[i] # 0 /\ \A j \in 1 .. i - 1 : s[j] = 0

(* A digit behind a small number is read exactly.                          *)
LEMMA NextDigit ==
  ASSUME NEW s \in Seq(Digit), NEW k \in 1 .. Len(s),
         NEW x, value(s)[k - 1] = x, x \in Nat, x <= 99999
  PROVE  /\ s[k] \in Nat /\ s[k] <= 9
         /\ value(s)[k] = 10 * x + s[k]
<1>1. s[k] \in Digit
  OBVIOUS
<1>2. value(s)[k] = Step(x, s[k])
  BY SMT, ValueFacts
<1>3. Step(x, s[k]) = 10 * x + s[k]
  BY SMT, <1>1, StepSmall
<1>4. s[k] \in Nat /\ s[k] <= 9
  BY SMT, <1>1 DEF Digit
<1> QED  BY SMT, <1>2, <1>3, <1>4

LastPort == 65535

(* What has been read up to the sixth digit from the first that counts.    *)
LEMMA LeadingDigits ==
  ASSUME NEW s \in Seq(Digit), NEW i, Leads(s, i)
  PROVE  LET v(j) == value(s)[i + j]
             d(j) == s[i + j]
         IN  /\ v(0) = d(0) /\ d(0) \in Nat /\ 1 <= d(0) /\ d(0) <= 9
             /\ i + 1 <= Len(s) =>
                  /\ d(1) \in Nat /\ d(1) <= 9 /\ v(1) = 10 * v(0) + d(1)
                  /\ v(1) \in Nat /\ v(1) >= 10 /\ v(1) <= 99
             /\ i + 2 <= Len(s) =>
                  /\ d(2) \in Nat /\ d(2) <= 9 /\ v(2) = 10 * v(1) + d(2)
                  /\ v(2) \in Nat /\ v(2) >= 100 /\ v(2) <= 999
             /\ i + 3 <= Len(s) =>
                  /\ d(3) \in Nat /\ d(3) <= 9 /\ v(3) = 10 * v(2) + d(3)
                  /\ v(3) \in Nat /\ v(3) >= 1000 /\ v(3) <= 9999
             /\ i + 4 <= Len(s) =>
                  /\ d(4) \in Nat /\ d(4) <= 9 /\ v(4) = 10 * v(3) + d(4)
                  /\ v(4) \in Nat /\ v(4) >= 10000 /\ v(4) <= 99999
             /\ i + 5 <= Len(s) => v(5) > LastPort
<1> DEFINE v(j) == value(s)[i + j]
           d(j) == s[i + j]
<1>1. i \in Nat /\ i >= 1 /\ i <= Len(s) /\ Len(s) \in Nat /\ i + 0 = i /\ i - 1 \in 0 .. Len(s)
  BY DEF Leads
<1>2. v(0) = d(0) /\ d(0) \in Nat /\ 1 <= d(0) /\ d(0) <= 9
  <2>1. value(s)[i - 1] = 0
    BY <1>1, ZerosInFront DEF Leads
  <2>2. value(s)[i] = 10 * 0 + s[i] /\ s[i] \in Nat /\ s[i] <= 9
    BY SMT, <1>1, <2>1, NextDigit
  <2> QED  BY SMT, <1>1, <2>2 DEF Leads
<1> HIDE DEF v, d
<1>3. ASSUME NEW j \in 1 .. 5, i + j <= Len(s), v(j - 1) \in Nat, v(j - 1) <= 99999
      PROVE  d(j) \in Nat /\ d(j) <= 9 /\ v(j) = 10 * v(j - 1) + d(j)
  <2>1. i + j \in 1 .. Len(s) /\ (i + j) - 1 = i + (j - 1)
    BY SMT, <1>1, <1>3
  <2>2. value(s)[(i + j) - 1] = v(j - 1)
    BY <2>1 DEF v
  <2> QED  BY SMT, <1>3, <2>1, <2>2, NextDigit DEF v, d
<1>4. ASSUME i + 1 <= Len(s)
      PROVE  /\ d(1) \in Nat /\ d(1) <= 9 /\ v(1) = 10 * v(0) + d(1)
             /\ v(1) \in Nat /\ v(1) >= 10 /\ v(1) <= 99
  <2>1. 1 \in 1 .. 5 /\ 1 - 1 = 0
    BY SMT, <1>1, <1>4
  <2>2. v(0) \in Nat /\ v(0) >= 1 /\ v(0) <= 9
    BY ONLY SMT, <2>1, <1>2
  <2>3. d(1) \in Nat /\ d(1) <= 9 /\ v(1) = 10 * v(0) + d(1)
    BY SMT, <1>3, <1>4, <2>1, <2>2
  <2> QED  BY ONLY SMT, <2>2, <2>3
<1>5. ASSUME i + 2 <= Len(s)
      PROVE  /\ d(2) \in Nat /\ d(2) <= 9 /\ v(2) = 10 * v(1) + d(2)
             /\ v(2) \in Nat /\ v(2) >= 100 /\ v(2) <= 999
  <2>1. 2 \in 1 .. 5 /\ 2 - 1 = 1 /\ i + 1 <= Len(s)
    BY SMT, <1>1, <1>5
  <2>2. v(1) \in Nat /\ v(1) >= 10 /\ v(1) <= 99
    BY ONLY SMT, <2>1, <1>4
  <2>3. d(2) \in Nat /\ d(2) <= 9 /\ v(2) = 10 * v(1) + d(2)
    BY SMT, <1>3, <1>5, <2>1, <2>2
  <2> QED  BY ONLY SMT, <2>2, <2>3
<1>6. ASSUME i + 3 <= Len(s)
      PROVE  /\ d(3) \in Nat /\ d(3) <= 9 /\ v(3) = 10 * v(2) + d(3)
             /\ v(3) \in Nat /\ v(3) >= 1000 /\ v(3) <= 9999
  <2>1. 3 \in 1 .. 5 /\ 3 - 1 = 2 /\ i + 2 <= Len(s)
    BY SMT, <1>1, <1>6
  <2>2. v(2) \in Nat /\ v(2) >= 100 /\ v(2) <= 999
    BY ONLY SMT, <2>1, <1>5
  <2>3. d(3) \in Nat /\ d(3) <= 9 /\ v(3) = 10 * v(2) + d(3)
    BY SMT, <1>3, <1>6, <2>1, <2>2
  <2> QED  BY ONLY SMT, <2>2, <2>3
<1>7. ASSUME i + 4 <= Len(s)
      PROVE  /\ d(4) \in Nat /\ d(4) <= 9 /\ v(4) = 10 * v(3) + d(4)
             /\ v(4) \in Nat /\ v(4) >= 10000 /\ v(4) <= 99999
  <2>1. 4 \in 1 .. 5 /\ 4 - 1 = 3 /\ i + 3 <= Len(s)
    BY SMT, <1>1, <1>7
  <2>2. v(3) \in Nat /\ v(3) >= 1000 /\ v(3) <= 9999
    BY ONLY SMT, <2>1, <1>6
  <2>3. d(4) \in Nat /\ d(4) <= 9 /\ v(4) = 10 * v(3) + d(4)
    BY SMT, <1>3, <1>7, <2>1, <2>2
  <2> QED  BY ONLY SMT, <2>2, <2>3
<1>8. ASSUME i + 5 <= Len(s)
      PROVE  /\ d(5) \in Nat /\ d(5) <= 9 /\ v(5) = 10 * v(4) + d(5)
             /\ v(5) \in Nat /\ v(5) >= 100000
  <2>1. 5 \in 1 .. 5 /\ 5 - 1 = 4 /\ i + 4 <= Len(s)
    BY SMT, <1>1, <1>8
  <2>2. v(4) \in Nat /\ v(4) >= 10000 /\ v(4) <= 99999
    BY ONLY SMT, <2>1, <1>7
  <2>3. d(5) \in Nat /\ d(5) <= 9 /\ v(5) = 10 * v(4) + d(5)
    BY SMT, <1>3, <1>8, <2>1, <2>2
  <2> QED  BY ONLY SMT, <2>2, <2>3
<1>9. i + 5 <= Len(s) => v(5) > LastPort
  BY ONLY SMT, <1>8 DEF LastPort
<1> QED  BY ONLY <1>2, <1>4, <1>5, <1>6, <1>7, <1>9 DEF v, d
-------------------------------------------------------------------------------
(* Five digits make a port when they do not come behind 6, 5, 5, 3, 5.     *)
AtMostLast(a, b, c, d, e) ==
  \/ a < 6
  \/ a = 6 /\ b < 5
  \/ a = 6 /\ b = 5 /\ c < 5
  \/ a = 6 /\ b = 5 /\ c = 5 /\ d < 3
  \/ a = 6 /\ b = 5 /\ c = 5 /\ d = 3 /\ e <= 5

(* What the digits from the first that counts say of a port.               *)
ShortEnough(s, i) ==
  /\ Len(s) - i <= 4
  /\ Len(s) - i = 4 => AtMostLast(s[i], s[i + 1], s[i + 2], s[i + 3], s[i + 4])

(* The number is a port exactly when its digits say so.                    *)
LEMMA LeadingPort ==
  ASSUME NEW s \in Seq(Digit), NEW i, Leads(s, i)
  PROVE  atoi(s) > 0 /\ (ShortEnough(s, i) <=> atoi(s) <= LastPort)
<1> DEFINE n == Len(s)
           v(j) == value(s)[i + j]
           d(j) == s[i + j]
<1>1. i \in Nat /\ n \in Nat /\ i >= 1 /\ i <= n
  BY DEF Leads
<1>2. atoi(s) = value(s)[n]
  BY ValueFacts
<1>3. /\ v(0) = d(0) /\ d(0) \in Nat /\ 1 <= d(0) /\ d(0) <= 9
      /\ i + 1 <= n =>
           /\ d(1) \in Nat /\ d(1) <= 9 /\ v(1) = 10 * v(0) + d(1)
           /\ v(1) \in Nat /\ v(1) >= 10 /\ v(1) <= 99
      /\ i + 2 <= n =>
           /\ d(2) \in Nat /\ d(2) <= 9 /\ v(2) = 10 * v(1) + d(2)
           /\ v(2) \in Nat /\ v(2) >= 100 /\ v(2) <= 999
      /\ i + 3 <= n =>
           /\ d(3) \in Nat /\ d(3) <= 9 /\ v(3) = 10 * v(2) + d(3)
           /\ v(3) \in Nat /\ v(3) >= 1000 /\ v(3) <= 9999
      /\ i + 4 <= n =>
           /\ d(4) \in Nat /\ d(4) <= 9 /\ v(4) = 10 * v(3) + d(4)
           /\ v(4) \in Nat /\ v(4) >= 10000 /\ v(4) <= 99999
      /\ i + 5 <= n => v(5) > LastPort
  BY LeadingDigits DEF n, v, d
<1>4. s[i] = d(0) /\ value(s)[i] = v(0)
  BY <1>1
<1> HIDE DEF n, v, d
<1>5. LastPort \in Nat /\ LastPort >= 9999
  BY SMT DEF LastPort
<1>6. CASE i = n
  <2>1. n - i = 0 /\ value(s)[n] = v(0)
    BY SMT, <1>1, <1>4, <1>6
  <2>2. ShortEnough(s, i)
    BY ONLY SMT, <2>1 DEF ShortEnough, n
  <2>3. v(0) > 0 /\ v(0) <= LastPort
    BY ONLY SMT, <1>3, <1>5
  <2> QED  BY ONLY <1>2, <2>1, <2>2, <2>3
<1>7. CASE i + 1 = n
  <2>1. n - i = 1 /\ i + 1 <= n /\ value(s)[n] = v(1)
    BY SMT, <1>1, <1>7 DEF v
  <2>2. ShortEnough(s, i)
    BY ONLY SMT, <2>1 DEF ShortEnough, n
  <2>3. v(1) > 0 /\ v(1) <= LastPort
    BY ONLY SMT, <1>3, <1>5, <2>1
  <2> QED  BY ONLY <1>2, <2>1, <2>2, <2>3
<1>8. CASE i + 2 = n
  <2>1. n - i = 2 /\ i + 2 <= n /\ value(s)[n] = v(2)
    BY SMT, <1>1, <1>8 DEF v
  <2>2. ShortEnough(s, i)
    BY ONLY SMT, <2>1 DEF ShortEnough, n
  <2>3. v(2) > 0 /\ v(2) <= LastPort
    BY ONLY SMT, <1>3, <1>5, <2>1
  <2> QED  BY ONLY <1>2, <2>1, <2>2, <2>3
<1>9. CASE i + 3 = n
  <2>1. n - i = 3 /\ i + 3 <= n /\ value(s)[n] = v(3)
    BY SMT, <1>1, <1>9 DEF v
  <2>2. ShortEnough(s, i)
    BY ONLY SMT, <2>1 DEF ShortEnough, n
  <2>3. v(3) > 0 /\ v(3) <= LastPort
    BY ONLY SMT, <1>3, <1>5, <2>1
  <2> QED  BY ONLY <1>2, <2>1, <2>2, <2>3
<1>10. CASE i + 4 = n
  <2>1. n - i = 4 /\ i + 1 <= n /\ i + 2 <= n /\ i + 3 <= n /\ i + 4 <= n /\ value(s)[n] = v(4)
    BY SMT, <1>1, <1>10 DEF v
  <2>2. /\ d(0) \in Nat /\ d(1) \in Nat /\ d(2) \in Nat /\ d(3) \in Nat /\ d(4) \in Nat
        /\ d(0) <= 9 /\ d(1) <= 9 /\ d(2) <= 9 /\ d(3) <= 9 /\ d(4) <= 9
    BY ONLY <1>3, <2>1
  <2>3. v(4) = 10 * (10 * (10 * (10 * d(0) + d(1)) + d(2)) + d(3)) + d(4)
    BY ONLY <1>3, <2>1
  <2>4. AtMostLast(d(0), d(1), d(2), d(3), d(4)) <=> v(4) <= LastPort
    <3>1. \A x \in Nat : x <= 9 => x \in 0 .. 9
      BY SMT
    <3>2. /\ d(0) \in 0 .. 9 /\ d(1) \in 0 .. 9 /\ d(2) \in 0 .. 9
          /\ d(3) \in 0 .. 9 /\ d(4) \in 0 .. 9
      BY ONLY <2>2, <3>1
    <3>3. PICK a \in 0 .. 9 : a = d(0)
      BY ONLY <3>2
    <3>4. PICK b \in 0 .. 9 : b = d(1)
      BY ONLY <3>2
    <3>5. PICK c \in 0 .. 9 : c = d(2)
      BY ONLY <3>2
    <3>6. PICK e \in 0 .. 9 : e = d(3)
      BY ONLY <3>2
    <3>7. PICK f \in 0 .. 9 : f = d(4)
      BY ONLY <3>2
    <3>8. v(4) = 10 * (10 * (10 * (10 * a + b) + c) + e) + f
      BY ONLY <2>3, <3>3, <3>4, <3>5, <3>6, <3>7
    <3>9. AtMostLast(a, b, c, e, f)
          <=> 10 * (10 * (10 * (10 * a + b) + c) + e) + f <= LastPort
      BY ONLY SMT, a \in 0 .. 9, b \in 0 .. 9, c \in 0 .. 9, e \in 0 .. 9, f \in 0 .. 9
         DEF AtMostLast, LastPort
    <3> QED  BY ONLY <3>3, <3>4, <3>5, <3>6, <3>7, <3>8, <3>9
  <2>5. v(4) > 0
    <3>1. v(4) \in Nat /\ v(4) >= 10000
      BY ONLY SMT, <1>3, <2>1
    <3> QED  BY ONLY SMT, <3>1
  <2>6. ShortEnough(s, i) <=> AtMostLast(d(0), d(1), d(2), d(3), d(4))
    BY SMT, <1>4, <2>1 DEF ShortEnough, n, d
  <2> QED  BY ONLY <1>2, <2>1, <2>4, <2>5, <2>6
<1>11. CASE i + 5 <= n
  <2>1. i + 5 \in 0 .. Len(s) /\ n \in (i + 5) .. Len(s)
    BY SMT, <1>1, <1>11 DEF n
  <2>2. v(5) <= value(s)[n]
    BY SMT, <2>1, ValueGrows DEF v
  <2>3. value(s)[n] \in Nat /\ v(5) \in Nat
    BY SMT, <2>1, ValueType, IntMaxNat DEF v
  <2>4. ~ShortEnough(s, i)
    BY SMT, <1>1, <1>11 DEF ShortEnough, n
  <2>5. LastPort \in Nat /\ LastPort > 0
    BY SMT DEF LastPort
  <2> QED  BY SMT, <1>2, <1>3, <1>11, <2>2, <2>3, <2>4, <2>5
<1> QED  BY SMT, <1>1, <1>6, <1>7, <1>8, <1>9, <1>10, <1>11
-------------------------------------------------------------------------------
(* The check of ParseOptions accepts exactly the ports, of any length.     *)
LEMMA PortsAreValid ==
  ASSUME NEW s \in Seq(Nat)
  PROVE  InvalidPort(s) <=> ~IsPort(s)
<1>1. ASSUME \E i \in DOMAIN s : s[i] \notin Digit PROVE InvalidPort(s) /\ ~IsPort(s)
  BY ONLY <1>1 DEF InvalidPort, IsPort
<1>2. ASSUME \A i \in DOMAIN s : s[i] \in Digit PROVE InvalidPort(s) <=> ~IsPort(s)
  <2>1. s \in Seq(Digit)
    <3>1. Len(s) \in Nat /\ s \in [1 .. Len(s) -> Nat] /\ DOMAIN s = 1 .. Len(s)
      OBVIOUS
    <3>2. s \in [1 .. Len(s) -> Digit]
      BY ONLY <1>2, <3>1
    <3> QED  BY <3>1, <3>2
  <2>2. DOMAIN s = 1 .. Len(s) /\ Len(s) \in Nat
    OBVIOUS
  <2>3. IsPort(s) <=> \E i : Leads(s, i) /\ ShortEnough(s, i)
    BY ONLY <1>2, <2>2 DEF IsPort, Leads, ShortEnough, AtMostLast
  <2>4. InvalidPort(s) <=> ~(atoi(s) > 0 /\ atoi(s) <= LastPort)
    <3>1. atoi(s) \in Nat
      BY <2>1, ValueFacts, ValueType, IntMaxNat
    <3>2. \A x \in Nat : x <= 0 \/ x > 65535 <=> ~(x > 0 /\ x <= LastPort)
      BY SMT DEF LastPort
    <3> QED  BY ONLY SMT, <1>2, <3>1, <3>2 DEF InvalidPort
  <2>5. CASE \E i : Leads(s, i)
    <3>1. PICK i : Leads(s, i)
      BY <2>5
    <3>2. \A k : Leads(s, k) => k = i
      <4>1. ASSUME NEW k, Leads(s, k), k < i PROVE FALSE
        BY ONLY <2>2, <3>1, <4>1 DEF Leads
      <4>2. ASSUME NEW k, Leads(s, k), i < k PROVE FALSE
        BY ONLY <2>2, <3>1, <4>2 DEF Leads
      <4> QED  BY ONLY <2>2, <3>1, <4>1, <4>2 DEF Leads
    <3>3. atoi(s) > 0 /\ (ShortEnough(s, i) <=> atoi(s) <= LastPort)
      BY <2>1, <3>1, LeadingPort
    <3> QED  BY ONLY <2>3, <2>4, <3>1, <3>2, <3>3
  <2>6. CASE ~\E i : Leads(s, i)
    <3> DEFINE S == {n \in Nat : n <= Len(s) => \A j \in 1 .. n : s[j] = 0}
    <3>1. 0 \in S
      OBVIOUS
    <3>2. ASSUME NEW n \in Nat, n \in S PROVE n + 1 \in S
      <4> SUFFICES ASSUME n + 1 <= Len(s) PROVE \A j \in 1 .. n + 1 : s[j] = 0
        OBVIOUS
      <4>1. n + 1 \in 1 .. Len(s) /\ (n + 1) - 1 = n /\ \A j \in 1 .. n : s[j] = 0
        BY <2>2, <3>2
      <4>2. s[n + 1] = 0
        BY ONLY <2>6, <4>1 DEF Leads
      <4> QED  BY <4>1, <4>2
    <3> HIDE DEF S
    <3>3. Len(s) \in S
      BY ONLY <2>2, <3>1, <3>2, Induction
    <3>4. Len(s) \in 0 .. Len(s) /\ \A j \in 1 .. Len(s) : s[j] = 0
      BY <2>2, <3>3 DEF S
    <3>5. value(s)[Len(s)] = 0
      BY ONLY <2>1, <3>4, ZerosInFront
    <3>6. atoi(s) = 0
      BY <2>1, <3>5, ValueFacts
    <3> QED  BY ONLY <2>3, <2>4, <2>6, <3>6, 0 <= 0, ~(0 > 0)
  <2> QED  BY <2>5, <2>6
<1> QED  BY <1>1, <1>2

(* What main() has been given, and what the check made of it.              *)
Arguments ==
  {<<>>} \cup {<<a>> : a \in Address} \cup {<<a, p>> : a \in Address, p \in Port}

IInv ==
  /\ argv \in Arguments
  /\ pc # "start" =>
       (pc = "connecting" <=> ~(argv = <<>> \/ (Len(argv) = 2 /\ InvalidPort(argv[2]))))

(* The client goes on to connect exactly when it was given an address, and *)
(* no second argument or one that is a port: for every argument, however   *)
(* many digits it has and whatever else is in it.                          *)
THEOREM PortIsChecked == Spec => []PortChecked
<1>1. Init => IInv
  BY DEF Init, IInv, Arguments
<1>2. IInv /\ [ParseOptions]_vars => IInv'
  <2> SUFFICES ASSUME IInv, [ParseOptions]_vars PROVE IInv'
    OBVIOUS
  <2>1. CASE ParseOptions
    BY <2>1 DEF ParseOptions, IInv
  <2>2. CASE UNCHANGED vars
    BY <2>2 DEF vars, IInv
  <2> QED  BY <2>1, <2>2
<1>3. IInv => PortChecked
  <2> SUFFICES ASSUME IInv, pc # "start"
               PROVE  pc = "connecting" <=> Len(argv) = 1 \/ (Len(argv) = 2 /\ IsPort(argv[2]))
    BY DEF PortChecked
  <2>1. CASE argv = <<>>
    BY <2>1 DEF IInv
  <2>2. CASE \E a \in Address : argv = <<a>>
    BY <2>2 DEF IInv
  <2>3. CASE \E a \in Address, p \in Port : argv = <<a, p>>
    <3>1. PICK a \in Address, p \in Port : argv = <<a, p>>
      BY <2>3
    <3>2. Len(argv) = 2 /\ argv # <<>> /\ argv[2] = p
      BY <3>1
    <3>3. InvalidPort(p) <=> ~IsPort(p)
      BY PortsAreValid, OptionsAssumption
    <3> QED  BY ONLY IInv, pc # "start", <3>2, <3>3, 2 # 1 DEF IInv
  <2> QED  BY <2>1, <2>2, <2>3 DEF IInv, Arguments
<1> QED  BY <1>1, <1>2, <1>3, PTL DEF Spec
===============================================================================
