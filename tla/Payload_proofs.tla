---------------------------- MODULE Payload_proofs ----------------------------
(***************************************************************************)
(* What the operators of MessageCodec, Crc16 and Nmea compute, for every   *)
(* input.                                                                  *)
(***************************************************************************)
EXTENDS MessageCodec, Crc16, Nmea, FiniteSetTheorems, SequenceTheorems, WellFoundedInduction, TLAPS

(***************************************************************************)
(* Induction over numbers, and over the elements of a sequence.            *)
(***************************************************************************)

(* A set of numbers has a least one.                                       *)
LEMMA LeastOf ==
  ASSUME NEW T \in SUBSET Nat, T # {}
  PROVE  \E x \in T : \A y \in T : ~ (y < x)
<1> DEFINE R == OpToRel(<, Nat)
<1>1. \A x, y \in Nat : <<y, x>> \in R <=> y < x
  BY DEF OpToRel
<1>2. \E x \in T : \A y \in T : ~ (<<y, x>> \in R)
  <2> HIDE DEF R
  <2>1. IsWellFoundedOn(R, Nat)
    BY NatLessThanWellFounded DEF R
  <2>2. QED
    BY <2>1, WFMin
<1> HIDE DEF R
<1>3. QED
  BY <1>1, <1>2

(* A set of numbers with 0 and the successor of each of its members.       *)
LEMMA SetInduction ==
  ASSUME NEW S \in SUBSET Nat, 0 \in S, \A n \in S : n + 1 \in S
  PROVE  S = Nat
<1> SUFFICES ASSUME Nat \ S # {} PROVE FALSE
  OBVIOUS
<1>3. PICK x \in Nat \ S : \A y \in Nat \ S : ~ (y < x)
  <2> DEFINE T == Nat \ S
  <2>1. T \in SUBSET Nat /\ T # {}
    OBVIOUS
  <2> HIDE DEF T
  <2>2. \E x \in T : \A y \in T : ~ (y < x)
    BY <2>1, LeastOf
  <2>3. QED
    BY <2>2 DEF T
<1>4. x # 0 /\ x - 1 \in Nat /\ x - 1 < x
  OBVIOUS
<1>5. x - 1 \in S
  BY <1>3, <1>4
<1>6. QED
  BY <1>4, <1>5

(* The same up to a bound.                                                 *)
LEMMA UpToInduction ==
  ASSUME NEW n \in Nat, NEW S, 0 \in S, \A i \in 0..(n - 1) : i \in S => i + 1 \in S
  PROVE  0..n \subseteq S
<1> DEFINE T == {i \in Nat : i <= n => i \in S}
<1>1. 0 \in T
  OBVIOUS
<1>2. \A i \in T : i + 1 \in T
  OBVIOUS
<1>3. T = Nat
  <2> HIDE DEF T
  <2>1. T \subseteq Nat
    BY DEF T
  <2>2. QED
    BY <1>1, <1>2, <2>1, SetInduction
<1>4. QED
  BY <1>3

(* The greatest of the first i numbers is i.                               *)
LEMMA MaxUpTo ==
  ASSUME NEW i \in Nat, i # 0
  PROVE  Max(1..i) = i /\ (1..i) \ {i} = 1..(i - 1) /\ 1..i # {}
<1>1. \A x \in 1..i : (\A y \in 1..i : x >= y) <=> x = i
  OBVIOUS
<1>2. Max(1..i) = i
  BY <1>1 DEF Max
<1>3. ASSUME NEW x PROVE x \in (1..i) \ {i} <=> x \in 1..(i - 1)
  OBVIOUS
<1>4. (1..i) \ {i} = 1..(i - 1)
  BY <1>3, Zenon
<1>5. i \in 1..i
  OBVIOUS
<1>6. QED
  BY <1>2, <1>4, <1>5

(* A set of numbers up to k has a greatest one.                            *)
LEMMA GreatestExists ==
  ASSUME NEW k \in Nat, NEW s \in SUBSET (1..k), s # {}
  PROVE  /\ Max(s) \in s /\ Max(s) \in 1..k
         /\ \A x \in s : x <= Max(s)
<1> DEFINE Has == {i \in Nat : \A t \in SUBSET (1..i) : t # {} => \E x \in t : \A y \in t : x >= y}
<1>1. 0 \in Has
  <2>1. \A x \in 1..0 : FALSE
    OBVIOUS
  <2>2. \A t \in SUBSET (1..0) : t = {}
    BY <2>1
  <2>3. QED
    BY <2>2
<1>2. ASSUME NEW i \in Has PROVE i + 1 \in Has
  <2> SUFFICES ASSUME NEW t \in SUBSET (1..(i + 1)), t # {}
               PROVE  \E x \in t : \A y \in t : x >= y
    OBVIOUS
  <2>1. CASE i + 1 \in t
    BY <2>1
  <2>2. CASE i + 1 \notin t
    <3>1. t \in SUBSET (1..i)
      BY <2>2
    <3>2. QED
      BY <3>1, <1>2
  <2>3. QED
    BY <2>1, <2>2
<1>3. k \in Has
  <2> HIDE DEF Has
  <2>1. Has \subseteq Nat
    BY DEF Has
  <2>2. QED
    BY <1>1, <1>2, <2>1, SetInduction
<1>4. \E x \in s : \A y \in s : x >= y
  BY <1>3
<1>5. Max(s) \in s /\ \A y \in s : Max(s) >= y
  BY <1>4, Zenon DEF Max
<1>6. QED
  BY <1>5

(* A set of natural numbers has a least one.                               *)
LEMMA LeastExists ==
  ASSUME NEW s \in SUBSET Nat, s # {}
  PROVE  Min(s) \in s /\ \A x \in s : Min(s) <= x
<1> DEFINE Below == {k \in Nat : (\E x \in s : x <= k) => \E x \in s : \A y \in s : x <= y}
<1>1. 0 \in Below
  OBVIOUS
<1>2. ASSUME NEW k \in Below PROVE k + 1 \in Below
  <2>1. CASE \E x \in s : x <= k
    BY <2>1
  <2>2. CASE ~(\E x \in s : x <= k)
    <3>1. \A y \in s : k + 1 <= y
      BY <2>2
    <3>2. QED
      BY <3>1
  <2>3. QED
    BY <2>1, <2>2
<1>3. PICK k : k \in s
  OBVIOUS
<1>4. k \in Below
  <2> HIDE DEF Below
  <2>1. Below \subseteq Nat
    BY DEF Below
  <2>2. QED
    BY <1>1, <1>2, <1>3, <2>1, SetInduction
<1>5. \E x \in s : \A y \in s : x <= y
  BY <1>3, <1>4
<1>6. QED
  BY <1>5, Zenon DEF Min

(* FoldLeft is defined by a function on the subsets of 1..n; step[i][a] is *)
(* what comes of element i after a.                                        *)
IsFold(it, n, base, step) ==
    it = [s \in SUBSET (1..n) |->
            IF s = {} THEN base ELSE step[Max(s)][it[s \ {Max(s)}]]]

(* Such a function exists, for steps that stay in a set A.                 *)
LEMMA FoldExists ==
  ASSUME NEW n \in Nat, NEW A, NEW base \in A, NEW step,
         \A i \in 1..n : \A a \in A : step[i][a] \in A
  PROVE  \E it \in [SUBSET (1..n) -> A] : IsFold(it, n, base, step)
<1> DEFINE Folded(it, k) == \A s \in SUBSET (1..k) :
              it[s] = IF s = {} THEN base ELSE step[Max(s)][it[s \ {Max(s)}]]
           Exists(k) == \E it \in [SUBSET (1..k) -> A] : Folded(it, k)
           Has == {k \in 0..n : Exists(k)}
<1>1. 0 \in Has
  <2> DEFINE it == [s \in SUBSET (1..0) |-> base]
  <2>1. \A s \in SUBSET (1..0) : s = {}
    <3>1. \A x \in 1..0 : FALSE
      OBVIOUS
    <3>2. QED
      BY <3>1
  <2>2. it \in [SUBSET (1..0) -> A] /\ Folded(it, 0)
    BY <2>1
  <2>3. Exists(0)
    BY <2>2, Zenon
  <2>4. QED
    <3> HIDE DEF Exists
    <3>1. QED
      BY <2>3
<1>2. ASSUME NEW k \in 0..(n - 1), k \in Has PROVE k + 1 \in Has
  <2>1. PICK old \in [SUBSET (1..k) -> A] : Folded(old, k)
    BY <1>2
  <2> DEFINE it == [s \in SUBSET (1..(k + 1)) |->
                      IF k + 1 \in s THEN step[k + 1][old[s \ {k + 1}]] ELSE old[s]]
  <2>2. \A s \in SUBSET (1..(k + 1)) : /\ k + 1 \notin s => s \in SUBSET (1..k)
                                       /\ s \ {k + 1} \in SUBSET (1..k)
    <3>1. \A x \in 1..(k + 1) : x # k + 1 => x \in 1..k
      OBVIOUS
    <3>2. QED
      BY <3>1
  <2>3. it \in [SUBSET (1..(k + 1)) -> A]
    <3> SUFFICES ASSUME NEW s \in SUBSET (1..(k + 1))
                 PROVE  (IF k + 1 \in s THEN step[k + 1][old[s \ {k + 1}]] ELSE old[s]) \in A
      OBVIOUS
    <3>1. CASE k + 1 \in s
      <4>1. old[s \ {k + 1}] \in A /\ k + 1 \in 1..n
        BY <2>2
      <4>2. QED
        BY <3>1, <4>1
    <3>2. CASE k + 1 \notin s
      BY <2>2, <3>2
    <3>3. QED
      BY <3>1, <3>2
  <2>4. ASSUME NEW s \in SUBSET (1..(k + 1))
        PROVE  it[s] = IF s = {} THEN base ELSE step[Max(s)][it[s \ {Max(s)}]]
    <3>1. CASE k + 1 \in s
      <4>1. Max(s) = k + 1
        <5>1. Max(s) \in 1..(k + 1) /\ k + 1 <= Max(s)
          BY <3>1, GreatestExists
        <5>2. QED
          BY <5>1
      <4>2. it[s \ {k + 1}] = old[s \ {k + 1}]
        BY <2>2
      <4>3. QED
        BY <3>1, <4>1, <4>2
    <3>2. CASE k + 1 \notin s
      <4>1. s \in SUBSET (1..k) /\ it[s] = old[s]
        BY <2>2, <3>2
      <4>2. s \ {Max(s)} \in SUBSET (1..k) /\ it[s \ {Max(s)}] = old[s \ {Max(s)}]
        BY <2>2, <3>2
      <4>3. old[s] = IF s = {} THEN base ELSE step[Max(s)][old[s \ {Max(s)}]]
        BY <2>1, <4>1
      <4>4. QED
        BY <4>1, <4>2, <4>3
    <3>3. QED
      BY <3>1, <3>2
  <2>5. Folded(it, k + 1)
    BY <2>4
  <2>6. Exists(k + 1)
    BY <2>3, <2>5, Zenon
  <2>7. QED
    <3> HIDE DEF Exists
    <3>1. QED
      BY <2>6
<1>3. n \in Has
  <2> HIDE DEF Has
  <2>1. 0..n \subseteq Has
    BY <1>1, <1>2, UpToInduction
  <2>2. QED
    BY <2>1
<1>4. PICK it \in [SUBSET (1..n) -> A] : Folded(it, n)
  BY <1>3
<1>5. it = [s \in SUBSET (1..n) |-> it[s]]
  OBVIOUS
<1>6. it = [s \in SUBSET (1..n) |->
              IF s = {} THEN base ELSE step[Max(s)][it[s \ {Max(s)}]]]
  BY <1>4, <1>5
<1>7. IsFold(it, n, base, step)
  BY <1>6 DEF IsFold
<1>8. QED
  BY <1>7, Zenon

(* A number read digit by digit.                                           *)
LEMMA NumberUnfolds ==
  ASSUME NEW n \in Nat, NEW b, DOMAIN b = 1..n, \A i \in 1..n : b[i] \in {0, 1}
  PROVE  \E f \in [0..n -> Nat] : /\ f[0] = 0 /\ \A i \in 1..n : f[i] = 2 * f[i - 1] + b[i]
                         /\ Number(b) = f[n]
<1> DEFINE step == [i \in 1..n |-> [a \in Nat |-> 2 * a + b[i]]]
           Folds(g) == g = [s \in SUBSET (1..n) |->
                            IF s = {} THEN 0 ELSE 2 * g[s \ {Max(s)}] + b[Max(s)]]
<1>1. \E g : Folds(g)
  <2>1. \A i \in 1..n : \A a \in Nat : step[i][a] = 2 * a + b[i] /\ step[i][a] \in Nat
    OBVIOUS
  <2>2. PICK it \in [SUBSET (1..n) -> Nat] : IsFold(it, n, 0, step)
    <3>1. \A i \in 1..n : \A a \in Nat : step[i][a] \in Nat
      BY <2>1
    <3> HIDE DEF step
    <3>2. QED
      BY <3>1, FoldExists
  <2>3. ASSUME NEW s \in SUBSET (1..n), s # {}
        PROVE  step[Max(s)][it[s \ {Max(s)}]] = 2 * it[s \ {Max(s)}] + b[Max(s)]
    <3>1. Max(s) \in 1..n /\ it[s \ {Max(s)}] \in Nat
      BY <2>3, GreatestExists
    <3>2. QED
      BY <2>1, <3>1
  <2>4. Folds(it)
    BY <2>2, <2>3 DEF IsFold
  <2>5. QED
    BY <2>4
<1>2. Number(b) = (CHOOSE g : Folds(g))[1..n]
  BY Zenon DEF Number, FoldLeft, MapThenFoldSet
<1>3. PICK g : Folds(g) /\ Number(b) = g[1..n]
  BY <1>1, <1>2
<1> DEFINE f == [i \in 0..n |-> g[1..i]]
<1>4. f[0] = 0
  <2>1. 1..0 = {} /\ {} \in SUBSET (1..n)
    OBVIOUS
  <2>2. QED
    BY <1>3, <2>1
<1>5. \A i \in 1..n : f[i] = 2 * f[i - 1] + b[i]
  <2> SUFFICES ASSUME NEW i \in 1..n PROVE g[1..i] = 2 * g[1..(i - 1)] + b[i]
    OBVIOUS
  <2>1. 1..i \in SUBSET (1..n) /\ Max(1..i) = i /\ (1..i) \ {i} = 1..(i - 1) /\ 1..i # {}
    <3>1. i \in Nat /\ i # 0 /\ \A x \in 1..i : x \in 1..n
      OBVIOUS
    <3>2. QED
      BY <3>1, MaxUpTo
  <2>2. QED
    BY <1>3, <2>1
<1>6. \A i \in 0..n : f[i] \in Nat
  <2> HIDE DEF f
  <2> DEFINE S == {i \in 0..n : f[i] \in Nat}
  <2>1. 0 \in S /\ \A i \in 0..(n - 1) : i \in S => i + 1 \in S
    BY <1>4, <1>5
  <2>2. QED
    <3> HIDE DEF S
    <3>1. 0..n \subseteq S
      BY <2>1, UpToInduction
    <3>2. QED
      BY <3>1 DEF S
<1>7. f \in [0..n -> Nat] /\ n \in 0..n /\ f[n] = g[1..n]
  BY <1>6
<1>8. QED
  <2> HIDE DEF f
  <2>1. QED
    BY <1>3, <1>4, <1>5, <1>7, Zenon

------------------------------------------------------------
(***************************************************************************)
(* Numbers and their digits.  TLC's integers have 32 bits, and so has the  *)
(* codec at most 31 digits.                                                *)
(***************************************************************************)
LEMMA TwoToThe ==
  ASSUME NEW k \in 0..31
  PROVE  2^k \in Nat /\ 2^k > 0 /\ 2^(k + 1) = 2 * 2^k
<1> DEFINE P(i) == 2^i
<1>1. \/ k \in {0, 1, 2, 3, 4, 5, 6, 7, 8, 9, 10, 11, 12, 13, 14, 15}
      \/ k \in {16, 17, 18, 19, 20, 21, 22, 23, 24, 25, 26, 27, 28, 29, 30, 31}
  OBVIOUS
<1>2. /\ P(0) = 1 /\ P(1) = 2 /\ P(2) = 4 /\ P(3) = 8 /\ P(4) = 16 /\ P(5) = 32 /\ P(6) = 64
      /\ P(7) = 128 /\ P(8) = 256 /\ P(9) = 512 /\ P(10) = 1024 /\ P(11) = 2048 /\ P(12) = 4096
      /\ P(13) = 8192 /\ P(14) = 16384 /\ P(15) = 32768 /\ P(16) = 65536 /\ P(17) = 131072
      /\ P(18) = 262144 /\ P(19) = 524288 /\ P(20) = 1048576 /\ P(21) = 2097152
      /\ P(22) = 4194304 /\ P(23) = 8388608 /\ P(24) = 16777216 /\ P(25) = 33554432
      /\ P(26) = 67108864 /\ P(27) = 134217728 /\ P(28) = 268435456 /\ P(29) = 536870912
      /\ P(30) = 1073741824 /\ P(31) = 2147483648 /\ P(32) = 4294967296
  OBVIOUS
<1> HIDE DEF P
<1>3. P(k) \in Nat /\ P(k) > 0 /\ P(k + 1) = 2 * P(k)
  BY <1>1, <1>2
<1>4. QED
  BY <1>3 DEF P

LEMMA DivTwice ==
  ASSUME NEW m \in Nat, NEW p \in Nat, p > 0
  PROVE  m \div (2 * p) = (m \div p) \div 2 /\ m \div p \in Nat
  OBVIOUS

(* Powers of two grow.                                                     *)
LEMMA TwoMonotone ==
  ASSUME NEW j \in 0..32, NEW k \in 0..32, j <= k
  PROVE  2^j <= 2^k
<1> DEFINE P(i) == 2^i
           S == {i \in Nat : j + i <= 32 => P(j) <= P(j + i)}
<1>1. \A i \in 0..31 : P(i) \in Nat /\ P(i + 1) = 2 * P(i)
  BY TwoToThe
<1>2. P(j) \in Nat
  <2>1. CASE j = 32
    <3>1. P(31 + 1) \in Nat
      BY <1>1
    <3>2. QED
      BY <2>1, <3>1
  <2>2. CASE j # 32
    <3>1. j \in 0..31
      BY <2>2
    <3> HIDE DEF P
    <3>2. QED
      BY <1>1, <3>1
  <2>3. QED
    BY <2>1, <2>2
<1> HIDE DEF P
<1>3. 0 \in S
  BY <1>2
<1>4. ASSUME NEW i \in S PROVE i + 1 \in S
  <2>1. CASE j + i + 1 <= 32
    <3>1. j + i \in 0..31 /\ (j + i) + 1 = j + (i + 1)
      BY <2>1
    <3>2. P(j + (i + 1)) = 2 * P(j + i) /\ P(j + i) \in Nat
      BY <1>1, <3>1
    <3>3. QED
      BY <1>2, <1>4, <2>1, <3>2
  <2>2. QED
    BY <1>4, <2>1
<1>5. S = Nat
  <2> HIDE DEF S
  <2>1. S \subseteq Nat
    BY DEF S
  <2>2. QED
    BY <1>3, <1>4, <2>1, SetInduction
<1>6. k - j \in S /\ j + (k - j) = k
  <2>1. k - j \in Nat /\ j + (k - j) = k
    OBVIOUS
  <2> HIDE DEF S
  <2>2. QED
    BY <1>5, <2>1
<1>7. P(j) <= P(k)
  BY <1>6
<1>8. QED
  BY <1>7 DEF P

(* A number of at most w digits is written with w.                         *)
LEMMA BinaryIs ==
  ASSUME NEW w \in 1..31, NEW n \in 0..2^w - 1
  PROVE  /\ Binary(n, w) = [i \in 1..w |-> (n \div 2^(w - i)) % 2]
         /\ Binary(n, w) \in Seq({0, 1}) /\ Len(Binary(n, w)) = w
<1> DEFINE Wide(k) == (k = 31 \/ n < 2^k) /\ (k = w \/ n >= 2^(k - 1))
           width == CHOOSE k \in w..31 : Wide(k)
<1>1. 2^w \in Nat
  BY TwoToThe
<1>2. Wide(w)
  BY <1>1
<1>3. ASSUME NEW k \in w..31, Wide(k) PROVE k = w
  <2> SUFFICES ASSUME k # w PROVE FALSE
    OBVIOUS
  <2>1. n >= 2^(k - 1)
    BY <1>3
  <2>2. 2^w <= 2^(k - 1) /\ 2^(k - 1) \in Nat
    <3>1. k - 1 \in 0..31 /\ w \in 0..32 /\ w <= k - 1 /\ k - 1 \in 0..32
      OBVIOUS
    <3>2. QED
      BY <3>1, TwoToThe, TwoMonotone
  <2>3. QED
    BY <1>1, <2>1, <2>2
<1>4. width = w
  <2> HIDE DEF Wide
  <2>1. w \in w..31
    OBVIOUS
  <2>2. QED
    BY <1>2, <1>3, <2>1
<1>5. Binary(n, w) = [i \in 1..w |-> (n \div 2^(w - i)) % 2]
  <2>1. Binary(n, w) = [i \in 1..width |-> (n \div 2^(width - i)) % 2]
    BY Zenon DEF Binary
  <2> HIDE DEF width
  <2>2. QED
    BY <1>4, <2>1
<1>6. ASSUME NEW i \in 1..w PROVE (n \div 2^(w - i)) % 2 \in {0, 1}
  <2>1. 2^(w - i) \in Nat /\ 2^(w - i) > 0
    <3>1. w - i \in 0..31
      OBVIOUS
    <3>2. QED
      BY <3>1, TwoToThe
  <2>2. n \div 2^(w - i) \in Nat
    BY <1>1, <2>1
  <2>3. QED
    BY <2>2
<1>7. QED
  BY <1>5, <1>6

(* Reading what was written.                                               *)
LEMMA NumberOfBinary ==
  ASSUME NEW w \in 1..31, NEW n \in 0..2^w - 1
  PROVE  Number(Binary(n, w)) = n
<1> DEFINE b == Binary(n, w)
<1>1. /\ b = [i \in 1..w |-> (n \div 2^(w - i)) % 2]
      /\ b \in Seq({0, 1}) /\ Len(b) = w
  BY BinaryIs
<1>2. w \in Nat /\ DOMAIN b = 1..w /\ \A i \in 1..w : b[i] \in {0, 1}
  <2> HIDE DEF b
  <2>1. QED
    BY <1>1
<1>3. PICK f \in [0..w -> Nat] : /\ f[0] = 0 /\ \A i \in 1..w : f[i] = 2 * f[i - 1] + b[i]
                                /\ Number(b) = f[w]
  <2> HIDE DEF b
  <2>1. QED
    BY <1>2, NumberUnfolds
<1> HIDE DEF b
<1> DEFINE S == {i \in 0..w : f[i] = n \div 2^(w - i)}
<1>4. \A i \in 0..w : 2^i \in Nat /\ 2^i > 0
  <2>1. 0..w \subseteq 0..31
    OBVIOUS
  <2>2. QED
    BY <2>1, TwoToThe
<1>5. 0 \in S
  <2>1. 2^w \in Nat /\ n \in Nat /\ n < 2^w
    BY <1>4
  <2>2. n \div 2^w = 0
    BY <2>1
  <2>3. w - 0 = w
    OBVIOUS
  <2>4. QED
    BY <1>3, <2>2, <2>3
<1>6. ASSUME NEW i \in 0..(w - 1), i \in S PROVE i + 1 \in S
  <2> DEFINE p == 2^(w - (i + 1))
  <2>1. p \in Nat /\ p > 0 /\ 2^(w - i) = 2 * p
    <3>1. w - (i + 1) \in 0..31 /\ (w - (i + 1)) + 1 = w - i
      OBVIOUS
    <3>2. QED
      BY <3>1, TwoToThe
  <2>2. n \in Nat
    BY <1>4
  <2> HIDE DEF p
  <2>3. f[i] = n \div (2 * p)
    BY <1>6, <2>1
  <2>4. n \div (2 * p) = (n \div p) \div 2 /\ n \div p \in Nat
    BY <2>1, <2>2, DivTwice, Zenon
  <2>5. b[i + 1] = (n \div p) % 2
    BY <1>1 DEF p
  <2>6. i + 1 \in 1..w /\ (i + 1) - 1 = i
    OBVIOUS
  <2>7. f[i + 1] = 2 * f[i] + b[i + 1]
    BY <1>3, <2>6
  <2>8. f[i + 1] = n \div p
    BY <2>3, <2>4, <2>5, <2>7
  <2>9. QED
    BY <2>6, <2>8 DEF p
<1>7. w \in S
  <2> HIDE DEF S
  <2>1. 0..w \subseteq S
    BY <1>2, <1>5, <1>6, UpToInduction
  <2>2. QED
    BY <2>1
<1>8. f[w] = n \div 2^0 /\ n \in Nat
  BY <1>4, <1>7
<1>9. QED
  BY <1>3, <1>8 DEF b

(* A number of n digits is below 2^n, and its digits are those it is read  *)
(* from.                                                                   *)
LEMMA NumberBound ==
  ASSUME NEW n \in 0..31, NEW b \in Seq({0, 1}), Len(b) = n
  PROVE  Number(b) \in 0..2^n - 1
<1>0. n \in Nat /\ DOMAIN b = 1..n /\ \A i \in 1..n : b[i] \in {0, 1}
  OBVIOUS
<1>1. PICK f \in [0..n -> Nat] : /\ f[0] = 0 /\ \A i \in 1..n : f[i] = 2 * f[i - 1] + b[i]
                                /\ Number(b) = f[n]
  BY <1>0, NumberUnfolds
<1> DEFINE S == {i \in 0..n : f[i] < 2^i}
<1>2. 0 \in S
  BY <1>1
<1>3. ASSUME NEW i \in 0..(n - 1), i \in S PROVE i + 1 \in S
  <2>1. 2^i \in Nat /\ 2^(i + 1) = 2 * 2^i /\ f[i] < 2^i /\ f[i] \in Nat
    BY <1>3, TwoToThe
  <2>2. i + 1 \in 1..n /\ (i + 1) - 1 = i
    OBVIOUS
  <2>3. f[i + 1] = 2 * f[i] + b[i + 1] /\ b[i + 1] \in {0, 1}
    BY <1>1, <2>2
  <2>4. f[i + 1] < 2^(i + 1)
    BY <2>1, <2>3
  <2>5. QED
    BY <2>2, <2>4
<1>4. n \in S
  <2> HIDE DEF S
  <2>1. 0..n \subseteq S
    BY <1>0, <1>2, <1>3, UpToInduction
  <2>2. QED
    BY <2>1
<1>5. 2^n \in Nat
  BY TwoToThe
<1>6. QED
  BY <1>1, <1>4, <1>5

-----------------------------------------------------------------------------
(***************************************************************************)
(* Sequences of digits: what comes before and after a place.               *)
(***************************************************************************)
Digits == Seq({0, 1})

LEMMA AfterIs ==
  ASSUME NEW D, NEW b \in Seq(D), NEW n \in 0..Len(b)
  PROVE  /\ After(b, n) \in Seq(D) /\ Len(After(b, n)) = Len(b) - n
         /\ \A i \in 1..Len(b) - n : After(b, n)[i] = b[n + i]
<1>1. \A i \in n + 1..Len(b) : b[i] \in D
  OBVIOUS
<1>2. n + 1 \in Int /\ Len(b) \in Int
  OBVIOUS
<1> DEFINE s == SubSeq(b, n + 1, Len(b))
<1>3. /\ s \in Seq(D)
      /\ Len(s) = IF n + 1 <= Len(b) THEN Len(b) - (n + 1) + 1 ELSE 0
      /\ \A i \in 1..Len(b) - (n + 1) + 1 : s[i] = b[(n + 1) + i - 1]
  BY <1>1, <1>2, SubSeqProperties
<1>4. s = After(b, n)
  BY DEF After
<1> HIDE DEF s
<1>5. Len(s) = Len(b) - n
  BY <1>3
<1>6. ASSUME NEW i \in 1..Len(b) - n PROVE s[i] = b[n + i]
  <2>1. i \in 1..Len(b) - (n + 1) + 1 /\ (n + 1) + i - 1 = n + i
    OBVIOUS
  <2>2. QED
    BY <1>3, <2>1
<1>7. QED
  BY <1>3, <1>4, <1>5, <1>6

LEMMA SliceIs ==
  ASSUME NEW D, NEW b \in Seq(D), NEW n \in 0..Len(b)
  PROVE  /\ Slice(b, n) \in Seq(D) /\ Len(Slice(b, n)) = n
         /\ \A i \in 1..n : Slice(b, n)[i] = b[i]
<1>1. \A i \in 1..n : b[i] \in D
  OBVIOUS
<1>2. n \in Int /\ 1 \in Int
  OBVIOUS
<1> DEFINE s == SubSeq(b, 1, n)
<1>3. /\ s \in Seq(D)
      /\ Len(s) = IF 1 <= n THEN n - 1 + 1 ELSE 0
      /\ \A i \in 1..n - 1 + 1 : s[i] = b[1 + i - 1]
  BY <1>1, <1>2, SubSeqProperties
<1>4. Min({n, Len(b)}) = n
  BY DEF Min
<1>5. s = Slice(b, n)
  BY <1>4 DEF Slice
<1> HIDE DEF s
<1>6. Len(s) = n
  BY <1>3
<1>7. ASSUME NEW i \in 1..n PROVE s[i] = b[i]
  <2>1. i \in 1..n - 1 + 1 /\ 1 + i - 1 = i
    OBVIOUS
  <2>2. QED
    BY <1>3, <2>1
<1>8. QED
  BY <1>3, <1>5, <1>6, <1>7

(* Cutting what was put together.                                          *)
LEMMA CutAt ==
  ASSUME NEW D, NEW a \in Seq(D), NEW b \in Seq(D)
  PROVE  /\ Slice(a \o b, Len(a)) = a /\ After(a \o b, Len(a)) = b
         /\ After(a, 0) = a /\ Slice(a, Len(a)) = a
         /\ \A n \in 0..Len(b) : After(a \o b, Len(a) + n) = After(b, n)
<1> DEFINE c == a \o b
<1>1. /\ c \in Seq(D) /\ Len(c) = Len(a) + Len(b)
      /\ \A i \in 1..Len(a) + Len(b) : c[i] = IF i <= Len(a) THEN a[i] ELSE b[i - Len(a)]
  BY ConcatProperties
<1> HIDE DEF c
<1>2. Slice(c, Len(a)) = a
  <2>1. Len(a) \in 0..Len(c) /\ \A i \in 1..Len(a) : c[i] = a[i]
    BY <1>1
  <2> DEFINE s == Slice(c, Len(a))
  <2>2. s \in Seq(D) /\ Len(s) = Len(a) /\ \A i \in 1..Len(a) : s[i] = c[i]
    BY <1>1, <2>1, SliceIs
  <2> HIDE DEF s
  <2>3. s = a
    BY <2>1, <2>2, SeqEqual
  <2>4. QED
    BY <2>3 DEF s
<1>3. ASSUME NEW n \in 0..Len(b) PROVE After(c, Len(a) + n) = After(b, n)
  <2> DEFINE m == Len(a) + n
             s == After(c, m)
             t == After(b, n)
  <2>1. m \in 0..Len(c) /\ Len(c) - m = Len(b) - n
    BY <1>1
  <2>2. s \in Seq(D) /\ Len(s) = Len(c) - m /\ \A i \in 1..Len(c) - m : s[i] = c[m + i]
    <3> HIDE DEF m
    <3>1. QED
      BY <1>1, <2>1, AfterIs
  <2>3. t \in Seq(D) /\ Len(t) = Len(b) - n /\ \A i \in 1..Len(b) - n : t[i] = b[n + i]
    BY AfterIs
  <2>4. ASSUME NEW i \in 1..Len(b) - n PROVE c[m + i] = b[n + i]
    <3>1. m + i \in 1..Len(a) + Len(b) /\ ~ (m + i <= Len(a)) /\ (m + i) - Len(a) = n + i
      OBVIOUS
    <3> HIDE DEF m
    <3>2. QED
      BY <1>1, <3>1
  <2> HIDE DEF s, t, m
  <2>5. s = t
    BY <2>1, <2>2, <2>3, <2>4, SeqEqual
  <2>6. QED
    BY <2>5 DEF s, t, m
<1>4. After(c, Len(a)) = b
  <2>1. After(b, 0) = b
    <3>1. 0 \in 0..Len(b) /\ Len(b) - 0 = Len(b) /\ \A i \in 1..Len(b) : 0 + i = i
      OBVIOUS
    <3>2. After(b, 0) \in Seq(D) /\ Len(After(b, 0)) = Len(b) - 0
          /\ \A i \in 1..Len(b) - 0 : After(b, 0)[i] = b[0 + i]
      BY <3>1, AfterIs
    <3>3. QED
      BY <3>1, <3>2, SeqEqual
  <2>2. 0 \in 0..Len(b) /\ Len(a) + 0 = Len(a)
    OBVIOUS
  <2>3. QED
    BY <1>3, <2>1, <2>2
<1>5. After(a, 0) = a /\ Slice(a, Len(a)) = a
  <2>1. 0 \in 0..Len(a) /\ Len(a) \in 0..Len(a) /\ Len(a) - 0 = Len(a) /\ \A i \in 1..Len(a) : 0 + i = i
    OBVIOUS
  <2>2. /\ After(a, 0) \in Seq(D) /\ Len(After(a, 0)) = Len(a) - 0
        /\ \A i \in 1..Len(a) - 0 : After(a, 0)[i] = a[0 + i]
    BY <2>1, AfterIs
  <2>3. /\ Slice(a, Len(a)) \in Seq(D) /\ Len(Slice(a, Len(a))) = Len(a)
        /\ \A i \in 1..Len(a) : Slice(a, Len(a))[i] = a[i]
    BY <2>1, SliceIs
  <2>4. QED
    BY <2>1, <2>2, <2>3, SeqEqual
<1>6. QED
  BY <1>2, <1>3, <1>4, <1>5 DEF c

(* Writing what was read.                                                  *)
LEMMA DigitsOfNumber ==
  ASSUME NEW n \in 1..31, NEW b \in Digits, Len(b) = n
  PROVE  /\ Binary(Number(b), n) = b /\ Number(b) \in Nat
         /\ n < 31 => Number(b) < 2^n
<1>1. n \in Nat /\ n \in 0..31 /\ DOMAIN b = 1..n /\ \A i \in 1..n : b[i] \in {0, 1}
  BY DEF Digits
<1>2. PICK f \in [0..n -> Nat] : /\ f[0] = 0 /\ \A i \in 1..n : f[i] = 2 * f[i - 1] + b[i]
                                /\ Number(b) = f[n]
  BY <1>1, NumberUnfolds
<1>3. Number(b) \in 0..2^n - 1
  BY <1>1, NumberBound DEF Digits
<1> DEFINE w == Number(b)
           c == Binary(w, n)
<1>4. c = [i \in 1..n |-> (w \div 2^(n - i)) % 2] /\ c \in Seq({0, 1}) /\ Len(c) = n
  <2> HIDE DEF w
  <2>1. QED
    BY <1>3, BinaryIs DEF w
<1> HIDE DEF c
<1> DEFINE S == {j \in 0..n : w \div 2^j = f[n - j]}
<1>5. 0 \in S
  BY <1>2
<1>6. ASSUME NEW j \in 0..(n - 1), j \in S PROVE j + 1 \in S
  <2> DEFINE p == 2^j
  <2>1. p \in Nat /\ p > 0 /\ 2^(j + 1) = 2 * p
    <3>1. j \in 0..31
      OBVIOUS
    <3>2. QED
      BY <3>1, TwoToThe
  <2> HIDE DEF p
  <2>2. w \div p = f[n - j]
    BY <1>6 DEF p
  <2>3. w \div (2 * p) = (w \div p) \div 2
    BY <1>2, <2>1, DivTwice
  <2>4. n - j \in 1..n /\ (n - j) - 1 = n - (j + 1) /\ n - (j + 1) \in 0..n
    OBVIOUS
  <2>5. f[n - j] = 2 * f[n - (j + 1)] + b[n - j] /\ b[n - j] \in {0, 1} /\ f[n - (j + 1)] \in Nat
    BY <1>1, <1>2, <2>4
  <2>6. f[n - j] \div 2 = f[n - (j + 1)]
    <3> HIDE DEF w
    <3> DEFINE u == f[n - j]
               v == f[n - (j + 1)]
               d == b[n - j]
    <3>1. u = 2 * v + d /\ d \in {0, 1} /\ v \in Nat
      BY <2>5
    <3> HIDE DEF u, v, d
    <3>2. u \div 2 = v
      BY <3>1
    <3>3. QED
      BY <3>2 DEF u, v
  <2>7. w \div 2^(j + 1) = f[n - (j + 1)]
    BY <2>1, <2>2, <2>3, <2>6
  <2>8. j + 1 \in 0..n
    OBVIOUS
  <2>9. QED
    BY <2>7, <2>8
<1>7. 0..n \subseteq S
  <2> HIDE DEF S
  <2>1. QED
    BY <1>1, <1>5, <1>6, UpToInduction
<1>8. ASSUME NEW i \in 1..n PROVE c[i] = b[i]
  <2>1. n - i \in 0..n /\ n - (n - i) = i
    OBVIOUS
  <2>2. w \div 2^(n - i) = f[i]
    BY <1>7, <2>1
  <2>3. f[i] = 2 * f[i - 1] + b[i] /\ b[i] \in {0, 1} /\ f[i - 1] \in Nat
    <3>1. i - 1 \in 0..n
      OBVIOUS
    <3>2. QED
      BY <1>1, <1>2, <3>1
  <2>4. f[i] % 2 = b[i]
    BY <2>3
  <2>5. QED
    BY <1>4, <2>2, <2>4
<1>9. c = b
  BY <1>4, <1>8, SeqEqual DEF Digits
<1>10. QED
  <2>1. 2^n \in Nat
    BY <1>1, TwoToThe
  <2>2. QED
    BY <1>3, <1>9, <2>1 DEF c

(* Steps that stay in a set make a chain.                                  *)
Chain(f, n, base, step) == f[0] = base /\ \A i \in 1..n : f[i] = step[i][f[i - 1]]
Within(f, n, A) == \A i \in 0..n : f[i] \in A

LEMMA ChainExists ==
  ASSUME NEW n \in Nat, NEW A, NEW base \in A, NEW step,
         \A i \in 1..n : \A a \in A : step[i][a] \in A
  PROVE  \E f : Chain(f, n, base, step) /\ Within(f, n, A)
<1>1. PICK it \in [SUBSET (1..n) -> A] : IsFold(it, n, base, step)
  BY FoldExists
<1> DEFINE f == [i \in 0..n |-> it[1..i]]
<1>2. \A i \in 0..n : 1..i \in SUBSET (1..n)
  OBVIOUS
<1>3. f \in [0..n -> A]
  BY <1>2
<1>4. f[0] = base
  <2>1. 1..0 = {} /\ {} \in SUBSET (1..n)
    OBVIOUS
  <2>2. it[{}] = base
    BY <1>1, <2>1 DEF IsFold
  <2>3. QED
    BY <2>1, <2>2
<1>5. ASSUME NEW i \in 1..n PROVE f[i] = step[i][f[i - 1]]
  <2>1. 1..i \in SUBSET (1..n) /\ Max(1..i) = i /\ (1..i) \ {i} = 1..(i - 1) /\ 1..i # {}
    <3>1. i \in Nat /\ i # 0 /\ \A x \in 1..i : x \in 1..n
      OBVIOUS
    <3>2. QED
      BY <3>1, MaxUpTo
  <2>2. it[1..i] = step[i][it[1..(i - 1)]]
    BY <1>1, <2>1 DEF IsFold
  <2>3. QED
    BY <2>2
<1>6. Chain(f, n, base, step) /\ Within(f, n, A)
  <2> HIDE DEF f
  <2>1. QED
    BY <1>3, <1>4, <1>5 DEF Chain, Within
<1>7. QED
  BY <1>6, Zenon

-----------------------------------------------------------------------------
(***************************************************************************)
(* Sequences put together.                                                 *)
(***************************************************************************)

(* cat[i] is what the first i parts make together.                         *)
Together(cat, parts, n) ==
    cat[0] = <<>> /\ \A i \in 1..n : cat[i] = cat[i - 1] \o parts[i]

LEMMA TogetherExists ==
  ASSUME NEW D, NEW n \in Nat, NEW parts, \A i \in 1..n : parts[i] \in Seq(D)
  PROVE  \E cat : Together(cat, parts, n) /\ \A i \in 0..n : cat[i] \in Seq(D)
<1> DEFINE A == Seq(D)
           step == [i \in 1..n |-> [a \in A |-> a \o parts[i]]]
<1>1. \A i \in 1..n : \A a \in A : step[i][a] = a \o parts[i] /\ step[i][a] \in A
  BY ConcatProperties
<1> DEFINE empty == <<>>
<1>2. empty \in A
  OBVIOUS
<1> HIDE DEF step, empty
<1>3. PICK f : Chain(f, n, empty, step) /\ Within(f, n, A)
  <2> HIDE DEF A
  <2>1. \A i \in 1..n : \A a \in A : step[i][a] \in A
    BY <1>1
  <2>2. QED
    BY <1>2, <2>1, ChainExists
<1>4. ASSUME NEW i \in 1..n PROVE f[i] = f[i - 1] \o parts[i]
  <2>1. i - 1 \in 0..n
    OBVIOUS
  <2>2. f[i - 1] \in A
    BY <1>3, <2>1 DEF Within
  <2>3. step[i][f[i - 1]] = f[i - 1] \o parts[i]
    BY <1>1, <2>2
  <2>4. QED
    BY <1>3, <2>3 DEF Chain
<1>5. Together(f, parts, n)
  BY <1>3, <1>4 DEF Together, Chain, empty
<1>6. \A i \in 0..n : f[i] \in Seq(D)
  BY <1>3 DEF Within
<1>7. QED
  BY <1>5, <1>6, Zenon

LEMMA FlattenIs ==
  ASSUME NEW D, NEW n \in Nat, NEW parts, DOMAIN parts = 1..n, Len(parts) = n, n = 0 => parts = <<>>,
         NEW cat, \A i \in 0..n : cat[i] \in Seq(D), Together(cat, parts, n), \A i \in 1..n : parts[i] \in Seq(D)
  PROVE  FlattenSeq(parts) = cat[n]
<1>1. CASE n = 0
  BY <1>1 DEF FlattenSeq, Together
<1>2. CASE n # 0
  <2> DEFINE Flat(g) == g = [i \in 1..n |-> IF i = 1 THEN parts[i] ELSE g[i - 1] \o parts[i]]
             G == [i \in 1..n |-> cat[i]]
  <2>1. cat[1] = parts[1]
    <3>1. 1 \in 1..n /\ 1 - 1 = 0
      BY <1>2
    <3>2. cat[1] = cat[0] \o parts[1] /\ cat[0] = <<>>
      BY <3>1, Zenon DEF Together
    <3>3. parts[1] \in Seq(D)
      BY <3>1
    <3>4. QED
      BY <3>2, <3>3, ConcatEmptySeq, Zenon
  <2>2. Flat(G)
    <3>1. ASSUME NEW i \in 1..n
          PROVE  cat[i] = IF i = 1 THEN parts[i] ELSE G[i - 1] \o parts[i]
      <4>1. CASE i = 1
        BY <2>1, <4>1
      <4>2. CASE i # 1
        <5>1. i - 1 \in 1..n
          BY <4>2
        <5>2. QED
          BY <4>2, <5>1 DEF Together
      <4>3. QED
        BY <4>1, <4>2
    <3>2. QED
      BY <3>1
  <2> HIDE DEF G
  <2>3. PICK g : Flat(g) /\ FlattenSeq(parts) = g[n]
    <3>1. FlattenSeq(parts) = (CHOOSE g : Flat(g))[n]
      BY <1>2, Zenon DEF FlattenSeq
    <3>2. QED
      BY <2>2, <3>1
  <2> DEFINE S == {i \in 0..n : i # 0 => g[i] = cat[i]}
  <2>4. 0 \in S
    OBVIOUS
  <2>5. ASSUME NEW i \in 0..(n - 1), i \in S PROVE i + 1 \in S
    <3>1. CASE i = 0
      BY <2>1, <2>3, <3>1
    <3>2. CASE i # 0
      <4>1. g[i] = cat[i] /\ i + 1 \in 1..n /\ i + 1 # 1 /\ (i + 1) - 1 = i
        BY <2>5, <3>2
      <4>2. g[i + 1] = g[i] \o parts[i + 1]
        BY <2>3, <4>1
      <4>3. cat[i + 1] = cat[i] \o parts[i + 1]
        BY <4>1 DEF Together
      <4>4. g[i + 1] = cat[i + 1]
        BY <4>1, <4>2, <4>3, Zenon
      <4>5. QED
        BY <4>4
    <3>3. QED
      BY <3>1, <3>2
  <2>6. 0..n \subseteq S
    <3> HIDE DEF S
    <3>1. QED
      BY <2>4, <2>5, UpToInduction
  <2>7. n \in S
    BY <2>6
  <2>8. g[n] = cat[n]
    BY <1>2, <2>7
  <2>9. QED
    BY <2>3, <2>8, Zenon
<1>3. QED
  BY <1>1, <1>2

(* Digits put together.                                                    *)
LEMMA DigitsPair ==
  \A a, b \in Digits : /\ a \o b \in Digits /\ Len(a \o b) = Len(a) + Len(b)
                       /\ Len(a) \in Nat /\ Len(b) \in Nat
BY ConcatProperties DEF Digits

LEMMA DigitsTriple == \A a, b, c \in Digits : (a \o b) \o c = a \o (b \o c)
BY ConcatAssociative DEF Digits

LEMMA DigitsOne ==
  \A a \in Digits : /\ a \o <<>> = a /\ <<>> \o a = a /\ Len(a) \in Nat
                    /\ a # <<>> => Len(a) >= 1
                    /\ \A i \in 1..Len(a) : a[i] \in {0, 1}
<1>1. \A a \in Digits : a \o <<>> = a /\ <<>> \o a = a /\ Len(a) \in Nat
  BY ConcatEmptySeq DEF Digits
<1>2. \A a \in Digits : a # <<>> => Len(a) >= 1
  BY EmptySeq DEF Digits
<1>3. \A a \in Digits : \A i \in 1..Len(a) : a[i] \in {0, 1}
  BY DEF Digits
<1>4. QED
  BY <1>1, <1>2, <1>3

LEMMA NoDigits == <<>> \in Digits /\ Len(<<>>) = 0
BY DEF Digits

(* Whatever follows, each part is found after those before it.             *)
Joined(cat, parts, n) ==
    /\ n \in Nat /\ Together(cat, parts, n)
    /\ (\A i \in 1..n : parts[i] \in Digits) /\ \A i \in 0..n : cat[i] \in Digits

LEMMA JoinedExists ==
  ASSUME NEW n \in Nat, NEW parts, \A i \in 1..n : parts[i] \in Digits
  PROVE  \E cat : Joined(cat, parts, n)
<1>1. PICK cat : Together(cat, parts, n) /\ \A i \in 0..n : cat[i] \in Seq({0, 1})
  BY TogetherExists DEF Digits
<1>2. Joined(cat, parts, n)
  BY <1>1 DEF Joined, Digits
<1>3. QED
  BY <1>2, Zenon

FoundIn(b, cat, parts, i) ==
    /\ Len(cat[i]) = Len(cat[i - 1]) + Len(parts[i])
    /\ \E rest \in Digits : b = cat[i - 1] \o (parts[i] \o rest)

LEMMA DigitsFound ==
  ASSUME NEW cat, NEW parts, NEW n, Joined(cat, parts, n), NEW z \in Digits, NEW i \in 1..n
  PROVE  FoundIn(cat[n] \o z, cat, parts, i)
<1>0. /\ n \in Nat /\ Together(cat, parts, n)
      /\ (\A k \in 1..n : parts[k] \in Digits) /\ \A k \in 0..n : cat[k] \in Digits
  BY DEF Joined
<1> DEFINE Ends(j) == \E rest \in Digits : cat[n] \o z = cat[n - j] \o rest
           S == {j \in 0..n : Ends(j)}
<1>1. 0 \in S
  <2>1. n - 0 = n
    BY <1>0
  <2>2. Ends(0)
    BY <2>1
  <2> HIDE DEF Ends
  <2>3. QED
    BY <1>0, <2>2
<1>2. ASSUME NEW j \in 0..(n - 1), j \in S PROVE j + 1 \in S
  <2>1. PICK rest \in Digits : cat[n] \o z = cat[n - j] \o rest
    BY <1>2
  <2>2. n - j \in 1..n /\ (n - j) - 1 = n - (j + 1) /\ n - (j + 1) \in 0..n
    BY <1>0
  <2> DEFINE c == cat[n - (j + 1)]
             p == parts[n - j]
  <2>3. cat[n - j] = c \o p
    BY <1>0, <2>2 DEF Together
  <2>4. c \in Digits /\ p \in Digits
    BY <1>0, <2>2
  <2> HIDE DEF c, p
  <2>5. (c \o p) \o rest = c \o (p \o rest) /\ p \o rest \in Digits
    <3>1. (c \o p) \o rest = c \o (p \o rest)
      BY <2>4, DigitsTriple
    <3>2. p \o rest \in Digits
      BY <2>4, DigitsPair
    <3>3. QED
      BY <3>1, <3>2
  <2>6. cat[n] \o z = c \o (p \o rest)
    BY <2>1, <2>3, <2>5
  <2>7. Ends(j + 1)
    BY <2>5, <2>6, Zenon DEF c
  <2> HIDE DEF Ends
  <2>8. QED
    BY <1>0, <2>7
<1>3. n - i \in S
  <2>1. n - i \in 0..n
    BY <1>0
  <2> HIDE DEF S
  <2>2. QED
    BY <1>0, <1>1, <1>2, <2>1, UpToInduction
<1>4. PICK rest \in Digits : cat[n] \o z = cat[i] \o rest
  <2>1. n - (n - i) = i
    BY <1>0
  <2>2. QED
    BY <1>3, <2>1
<1> HIDE DEF S
<1> DEFINE c == cat[i - 1]
           p == parts[i]
<1>5. cat[i] = c \o p
  BY <1>0 DEF Together
<1>6. c \in Digits /\ p \in Digits
  <2>1. i - 1 \in 0..n
    BY <1>0
  <2>2. QED
    BY <1>0, <2>1
<1> HIDE DEF c, p
<1>7. /\ (c \o p) \o rest = c \o (p \o rest) /\ p \o rest \in Digits
      /\ Len(c \o p) = Len(c) + Len(p)
  <2>1. (c \o p) \o rest = c \o (p \o rest)
    BY <1>6, DigitsTriple
  <2>2. p \o rest \in Digits /\ Len(c \o p) = Len(c) + Len(p)
    BY <1>6, DigitsPair
  <2>3. QED
    BY <2>1, <2>2
<1>8. cat[n] \o z = c \o (p \o rest) /\ Len(cat[i]) = Len(c) + Len(p)
  BY <1>4, <1>5, <1>7
<1>9. QED
  BY <1>7, <1>8, Zenon DEF c, p, FoundIn

-----------------------------------------------------------------------------
(***************************************************************************)
(* Octets and their digits.                                                *)
(***************************************************************************)
Octet == 0..255
Bytes(b) == [i \in 1..Len(b) \div 8 |-> Number(SubSeq(b, 8 * i - 7, 8 * i))]

LEMMA OctetDigits ==
  ASSUME NEW c \in Octet
  PROVE  /\ \A j \in 1..8 : /\ Binary(c, 8)[j] = (c \div 2^(8 - j)) % 2
                            /\ Binary(c, 8)[j] \in {0, 1}
         /\ Binary(c, 8) \in Digits /\ Len(Binary(c, 8)) = 8
         /\ Number(Binary(c, 8)) = c
<1>1. 2^8 = 256
  OBVIOUS
<1>2. c \in 0..2^8 - 1 /\ 8 \in 1..31
  BY <1>1 DEF Octet
<1> DEFINE b == Binary(c, 8)
<1>3. /\ b = [j \in 1..8 |-> (c \div 2^(8 - j)) % 2]
      /\ b \in Seq({0, 1}) /\ Len(b) = 8 /\ Number(b) = c
  BY <1>2, BinaryIs, NumberOfBinary
<1> HIDE DEF b
<1>4. \A j \in 1..8 : b[j] \in {0, 1}
  <2>1. b \in Seq({0, 1}) /\ Len(b) = 8
    BY <1>3
  <2>2. QED
    BY <2>1, ElementOfSeq, Zenon
<1>5. \A j \in 1..8 : b[j] = (c \div 2^(8 - j)) % 2
  BY <1>3
<1>6. QED
  BY <1>3, <1>4, <1>5 DEF b, Digits

(* The place k is digit j of octet i.                                      *)
LEMMA PlaceIs ==
  ASSUME NEW n \in Nat, NEW k \in 1..8 * n
  PROVE  \E i \in 1..n, j \in 1..8 : k = 8 * (i - 1) + j
<1> DEFINE i == (k + 7) \div 8
           j == ((k - 1) % 8) + 1
<1>1. i \in 1..n /\ j \in 1..8 /\ k = 8 * (i - 1) + j
  OBVIOUS
<1>2. QED
  BY <1>1

LEMMA DigitAt ==
  ASSUME NEW n \in Nat, NEW i \in 1..n, NEW j \in 1..8
  PROVE  /\ 8 * (i - 1) + j \in 1..8 * n
         /\ ((8 * (i - 1) + j) + 7) \div 8 = i
         /\ 7 - (((8 * (i - 1) + j) - 1) % 8) = 8 - j
<1> DEFINE k == 8 * (i - 1) + j
<1>1. k \in 1..8 * n
  OBVIOUS
<1>2. (k + 7) \div 8 = i
  OBVIOUS
<1>3. (k - 1) % 8 = j - 1
  OBVIOUS
<1>4. QED
  BY <1>1, <1>2, <1>3

LEMMA EightOf ==
  ASSUME NEW n \in Nat, NEW b \in Digits, Len(b) = 8 * n, NEW i \in 1..n
  PROVE  /\ SubSeq(b, 8 * i - 7, 8 * i) \in Digits /\ Len(SubSeq(b, 8 * i - 7, 8 * i)) = 8
         /\ \A j \in 1..8 : SubSeq(b, 8 * i - 7, 8 * i)[j] = b[8 * (i - 1) + j]
<1> DEFINE m == 8 * i - 7
           l == 8 * i
<1>1. m \in Int /\ l \in Int /\ m <= l /\ l - m + 1 = 8
  OBVIOUS
<1>2. \A k \in m..l : b[k] \in {0, 1}
  <2> SUFFICES ASSUME NEW k \in m..l PROVE b[k] \in {0, 1}
    OBVIOUS
  <2>1. k \in 1..Len(b)
    OBVIOUS
  <2>2. QED
    BY <2>1 DEF Digits
<1>3. \A j \in 1..8 : m + j - 1 = 8 * (i - 1) + j
  OBVIOUS
<1> HIDE DEF m, l
<1>4. /\ SubSeq(b, m, l) \in Seq({0, 1})
      /\ Len(SubSeq(b, m, l)) = IF m <= l THEN l - m + 1 ELSE 0
      /\ \A j \in 1..l - m + 1 : SubSeq(b, m, l)[j] = b[m + j - 1]
  BY <1>1, <1>2, SubSeqProperties
<1>5. /\ SubSeq(b, m, l) \in Seq({0, 1}) /\ Len(SubSeq(b, m, l)) = 8
      /\ \A j \in 1..8 : SubSeq(b, m, l)[j] = b[8 * (i - 1) + j]
  BY <1>1, <1>3, <1>4
<1>6. QED
  BY <1>5 DEF m, l, Digits

LEMMA CharsIs ==
  ASSUME NEW cs \in Seq(Octet)
  PROVE  /\ Chars(cs) \in Digits /\ Len(Chars(cs)) = 8 * Len(cs)
         /\ \A i \in 1..Len(cs), j \in 1..8 :
              Chars(cs)[8 * (i - 1) + j] = Binary(cs[i], 8)[j]
<1> DEFINE n == Len(cs)
           b == Chars(cs)
<1>1. n \in Nat
  OBVIOUS
<1>2. b = [k \in 1..8 * n |-> (cs[(k + 7) \div 8] \div 2^(7 - ((k - 1) % 8))) % 2]
  BY DEF Chars
<1> HIDE DEF b
<1>3. ASSUME NEW i \in 1..n, NEW j \in 1..8
      PROVE  /\ b[8 * (i - 1) + j] = Binary(cs[i], 8)[j]
             /\ b[8 * (i - 1) + j] \in {0, 1}
  <2> DEFINE k == 8 * (i - 1) + j
  <2>1. k \in 1..8 * n /\ (k + 7) \div 8 = i /\ 7 - ((k - 1) % 8) = 8 - j
    <3> HIDE DEF n
    <3>1. QED
      BY <1>1, DigitAt
  <2>2. b[k] = (cs[i] \div 2^(8 - j)) % 2
    <3> HIDE DEF k, n
    <3>1. QED
      BY <1>2, <2>1
  <2>3. cs[i] \in Octet
    BY ElementOfSeq
  <2>4. Binary(cs[i], 8)[j] = (cs[i] \div 2^(8 - j)) % 2 /\ Binary(cs[i], 8)[j] \in {0, 1}
    BY <2>3, OctetDigits
  <2>5. QED
    BY <2>2, <2>4
<1>4. ASSUME NEW k \in 1..8 * n PROVE b[k] \in {0, 1}
  <2>1. PICK i \in 1..n, j \in 1..8 : k = 8 * (i - 1) + j
    BY <1>1, PlaceIs
  <2>2. QED
    BY <1>3, <2>1
<1>5. b \in Seq({0, 1}) /\ Len(b) = 8 * n
  <2>1. 8 * n \in Nat /\ b = [k \in 1..8 * n |-> b[k]]
    BY <1>1, <1>2
  <2> HIDE DEF n
  <2>2. QED
    BY <1>4, <2>1
<1>6. QED
  BY <1>3, <1>5 DEF b, n, Digits

(* Octets read from digits are written as these digits.                    *)
LEMMA BytesIs ==
  ASSUME NEW n \in Nat, NEW b \in Digits, Len(b) = 8 * n
  PROVE  /\ Bytes(b) \in Seq(Octet) /\ Len(Bytes(b)) = n
         /\ \A i \in 1..n : Bytes(b)[i] = Number(SubSeq(b, 8 * i - 7, 8 * i))
         /\ Chars(Bytes(b)) = b
<1> DEFINE cs == Bytes(b)
<1>1. (8 * n) \div 8 = n
  OBVIOUS
<1>2. cs = [i \in 1..n |-> Number(SubSeq(b, 8 * i - 7, 8 * i))]
  BY <1>1 DEF Bytes
<1> HIDE DEF cs
<1>3. ASSUME NEW i \in 1..n
      PROVE  cs[i] \in Octet /\ Binary(cs[i], 8) = SubSeq(b, 8 * i - 7, 8 * i)
  <2> DEFINE s == SubSeq(b, 8 * i - 7, 8 * i)
  <2>1. s \in Digits /\ Len(s) = 8 /\ 8 \in 1..31 /\ 8 < 31
    <3>1. s \in Digits /\ Len(s) = 8
      BY EightOf, Zenon
    <3>2. QED
      BY <3>1
  <2> HIDE DEF s
  <2>2. Binary(Number(s), 8) = s /\ Number(s) \in Nat /\ Number(s) < 2^8
    BY <2>1, DigitsOfNumber
  <2>3. cs[i] = Number(s)
    BY <1>2 DEF s
  <2>4. Number(s) \in Octet
    <3>1. 2^8 = 256
      OBVIOUS
    <3> DEFINE v == Number(s)
    <3>2. v \in Nat /\ v < 2^8
      BY <2>2
    <3> HIDE DEF v
    <3>3. v \in 0..255
      BY <3>1, <3>2
    <3>4. QED
      BY <3>3 DEF v, Octet
  <2>5. QED
    BY <2>2, <2>3, <2>4 DEF s
<1>4. cs \in Seq(Octet) /\ Len(cs) = n
  BY <1>2, <1>3
<1>5. /\ Chars(cs) \in Digits /\ Len(Chars(cs)) = 8 * n
      /\ \A i \in 1..n, j \in 1..8 : Chars(cs)[8 * (i - 1) + j] = Binary(cs[i], 8)[j]
  BY <1>4, CharsIs
<1>6. ASSUME NEW k \in 1..8 * n PROVE Chars(cs)[k] = b[k]
  <2>1. PICK i \in 1..n, j \in 1..8 : k = 8 * (i - 1) + j
    BY PlaceIs
  <2>2. Chars(cs)[8 * (i - 1) + j] = Binary(cs[i], 8)[j]
    BY <1>5
  <2>3. SubSeq(b, 8 * i - 7, 8 * i)[j] = b[8 * (i - 1) + j]
    BY EightOf
  <2>4. QED
    BY <1>3, <2>1, <2>2, <2>3
<1>7. Chars(cs) = b
  BY <1>5, <1>6, SeqEqual DEF Digits
<1>8. QED
  BY <1>2, <1>4, <1>7 DEF cs

(* And octets written are read again.                                      *)
LEMMA BytesOfChars ==
  ASSUME NEW cs \in Seq(Octet)
  PROVE  Bytes(Chars(cs)) = cs
<1> DEFINE n == Len(cs)
           b == Chars(cs)
<1>1. n \in Nat
  OBVIOUS
<1>2. /\ b \in Digits /\ Len(b) = 8 * n
      /\ \A i \in 1..n, j \in 1..8 : b[8 * (i - 1) + j] = Binary(cs[i], 8)[j]
  BY CharsIs
<1> HIDE DEF b
<1>3. /\ Bytes(b) \in Seq(Octet) /\ Len(Bytes(b)) = n
      /\ \A i \in 1..n : Bytes(b)[i] = Number(SubSeq(b, 8 * i - 7, 8 * i))
  <2> HIDE DEF n
  <2>1. QED
    BY <1>1, <1>2, BytesIs
<1>4. ASSUME NEW i \in 1..n PROVE Number(SubSeq(b, 8 * i - 7, 8 * i)) = cs[i]
  <2> DEFINE s == SubSeq(b, 8 * i - 7, 8 * i)
             t == Binary(cs[i], 8)
  <2>1. s \in Digits /\ Len(s) = 8 /\ \A j \in 1..8 : s[j] = b[8 * (i - 1) + j]
    <3> HIDE DEF n
    <3>1. QED
      BY <1>1, <1>2, EightOf
  <2>2. cs[i] \in Octet
    BY ElementOfSeq
  <2>3. t \in Digits /\ Len(t) = 8 /\ Number(t) = cs[i]
    BY <2>2, OctetDigits
  <2>4. \A j \in 1..8 : s[j] = t[j]
    BY <1>2, <2>1
  <2> HIDE DEF s, t
  <2>5. s = t
    <3>1. Len(s) = Len(t) /\ \A j \in 1..Len(s) : s[j] = t[j]
      BY <2>1, <2>3, <2>4
    <3>2. s \in Seq({0, 1}) /\ t \in Seq({0, 1})
      BY <2>1, <2>3 DEF Digits
    <3>3. QED
      BY <3>1, <3>2, SeqEqual, Zenon
  <2>6. QED
    BY <2>3, <2>5 DEF s
<1>5. \A i \in 1..n : Bytes(b)[i] = cs[i]
  BY <1>3, <1>4
<1>6. Bytes(b) = cs
  BY <1>3, <1>5, SeqEqual
<1>7. QED
  BY <1>6 DEF b

-----------------------------------------------------------------------------
(***************************************************************************)
(* Scalar fields: what is encoded is decoded, whatever follows.            *)
(***************************************************************************)
LEMMA LargestIs ==
  ASSUME NEW w \in 1..31
  PROVE  /\ Largest(w) = 2^w - 1 /\ 2^w \in Nat /\ 2^(w - 1) \in Nat
         /\ 2^(w - 1) > 0 /\ 2^w = 2 * 2^(w - 1)
<1> DEFINE h == 2^(w - 1)
<1>1. w - 1 \in 0..31 /\ (w - 1) + 1 = w
  OBVIOUS
<1>2. h \in Nat /\ h > 0 /\ 2^w = 2 * h
  BY <1>1, TwoToThe
<1>3. Largest(w) = h + (h - 1)
  BY DEF Largest
<1> HIDE DEF h
<1>4. Largest(w) = 2 * h - 1
  BY <1>2, <1>3
<1>5. QED
  BY <1>2, <1>4 DEF h

LEMMA FirstOf ==
  ASSUME NEW bits \in Digits, NEW rest \in Digits, bits # <<>>
  PROVE  /\ bits \o rest \in Digits /\ bits \o rest # <<>>
         /\ Len(bits \o rest) = Len(bits) + Len(rest)
         /\ (bits \o rest)[1] = bits[1] /\ bits[1] \in {0, 1}
         /\ Slice(bits \o rest, Len(bits)) = bits
         /\ After(bits \o rest, Len(bits)) = rest
<1> DEFINE c == bits \o rest
<1>1. /\ c \in Seq({0, 1}) /\ Len(c) = Len(bits) + Len(rest)
      /\ \A i \in 1..Len(bits) + Len(rest) : c[i] = IF i <= Len(bits) THEN bits[i] ELSE rest[i - Len(bits)]
  BY ConcatProperties DEF Digits
<1>2. Slice(c, Len(bits)) = bits /\ After(c, Len(bits)) = rest
  BY CutAt DEF Digits
<1> HIDE DEF c
<1>3. Len(bits) \in Nat /\ Len(bits) >= 1 /\ Len(rest) \in Nat
  BY EmptySeq, LenProperties DEF Digits
<1>4. c # <<>> /\ c[1] = bits[1] /\ bits[1] \in {0, 1}
  BY <1>1, <1>3 DEF Digits
<1>5. QED
  BY <1>1, <1>2, <1>4, Zenon DEF Digits, c

LEMMA BinaryDigits ==
  ASSUME NEW w \in 1..31, NEW n \in 0..2^w - 1
  PROVE  /\ Binary(n, w) \in Digits /\ Len(Binary(n, w)) = w /\ Binary(n, w) # <<>>
         /\ Number(Binary(n, w)) = n
<1> DEFINE b == Binary(n, w)
<1>1. b \in Seq({0, 1}) /\ Len(b) = w /\ Number(b) = n
  BY BinaryIs, NumberOfBinary
<1> HIDE DEF b
<1>2. b # <<>>
  BY <1>1
<1>3. QED
  BY <1>1, <1>2 DEF Digits, b

LEMMA BoolTrip ==
  ASSUME NEW f, NEW v \in {0, 1}, NEW rest \in Digits
  PROVE  /\ EncodeBool(f, <<v>>) = << <<v>> >> /\ <<v>> \in Digits /\ <<v>> # <<>> /\ Len(<<v>>) = 1
         /\ DecodeBool(<<v>> \o rest) = Decoded(v, 1)
<1>1. <<v>> \in Digits /\ <<v>> # <<>> /\ <<v>>[1] = v
  BY DEF Digits
<1>2. (<<v>> \o rest)[1] = v
  BY <1>1, FirstOf
<1>3. EncodeBool(f, <<v>>) = << <<v>> >>
  BY DEF EncodeBool, None
<1>4. QED
  BY <1>1, <1>2, <1>3 DEF DecodeBool

LEMMA UnsignedTrip ==
  ASSUME NEW f, f.size \in 1..31, NEW n \in 0..Largest(f.size), NEW rest \in Digits
  PROVE  \E bits \in Digits :
           /\ EncodeUnsigned(f, <<n>>) = <<bits>> /\ bits # <<>> /\ Len(bits) = f.size
           /\ Number(Slice(bits \o rest, f.size)) = n
           /\ DecodeUnsigned(f, bits \o rest) = Decoded(n, Len(bits))
<1> DEFINE w == f.size
           b == Binary(n, w)
<1>1. n \in 0..2^w - 1
  BY LargestIs
<1>2. b \in Digits /\ Len(b) = w /\ b # <<>> /\ Number(b) = n
  BY <1>1, BinaryDigits
<1> HIDE DEF b
<1>3. Slice(b \o rest, Len(b)) = b
  BY <1>2, FirstOf
<1>4. EncodeUnsigned(f, <<n>>) = <<b>>
  BY DEF EncodeUnsigned, None, b
<1>5. DecodeUnsigned(f, b \o rest) = Decoded(n, Len(b))
  BY <1>2, <1>3 DEF DecodeUnsigned
<1>6. QED
  BY <1>2, <1>3, <1>4, <1>5

(* The inverted digits of a number.                                        *)
LEMMA NumberInverted ==
  ASSUME NEW n \in 1..31, NEW b \in Digits, Len(b) = n
  PROVE  Number([i \in DOMAIN b |-> 1 - b[i]]) = 2^n - 1 - Number(b)
<1> DEFINE c == [i \in DOMAIN b |-> 1 - b[i]]
<1>1. n \in Nat /\ DOMAIN b = 1..n /\ \A i \in 1..n : b[i] \in {0, 1}
  BY DEF Digits
<1>2. DOMAIN c = 1..n /\ \A i \in 1..n : c[i] = 1 - b[i] /\ c[i] \in {0, 1}
  BY <1>1
<1> HIDE DEF c
<1>3. PICK f \in [0..n -> Nat] : /\ f[0] = 0 /\ \A i \in 1..n : f[i] = 2 * f[i - 1] + b[i]
                                /\ Number(b) = f[n]
  BY <1>1, NumberUnfolds
<1>4. PICK g \in [0..n -> Nat] : /\ g[0] = 0 /\ \A i \in 1..n : g[i] = 2 * g[i - 1] + c[i]
                                /\ Number(c) = g[n]
  BY <1>1, <1>2, NumberUnfolds
<1> DEFINE S == {i \in 0..n : g[i] = 2^i - 1 - f[i]}
<1>5. 0 \in S
  BY <1>3, <1>4
<1>6. ASSUME NEW i \in 0..(n - 1), i \in S PROVE i + 1 \in S
  <2> DEFINE p == 2^i
             u == f[i]
             v == g[i]
             d == b[i + 1]
  <2>1. p \in Nat /\ 2^(i + 1) = 2 * p
    <3>1. i \in 0..31
      OBVIOUS
    <3>2. QED
      BY <3>1, TwoToThe
  <2>2. i + 1 \in 1..n /\ (i + 1) - 1 = i
    OBVIOUS
  <2>3. f[i + 1] = 2 * u + d /\ g[i + 1] = 2 * v + (1 - d) /\ d \in {0, 1} /\ u \in Nat
    <3>1. f[i + 1] = 2 * f[(i + 1) - 1] + b[i + 1] /\ g[i + 1] = 2 * g[(i + 1) - 1] + c[i + 1]
      BY <1>3, <1>4, <2>2
    <3>2. c[i + 1] = 1 - b[i + 1] /\ b[i + 1] \in {0, 1}
      BY <1>1, <1>2, <2>2
    <3>3. f[i] \in Nat
      BY <1>3
    <3>4. QED
      BY <3>1, <3>2, <3>3, <2>2
  <2>4. v = p - 1 - u
    BY <1>6
  <2> HIDE DEF p, u, v, d
  <2>5. 2 * v + (1 - d) = 2 * p - 1 - (2 * u + d)
    BY <2>1, <2>3, <2>4
  <2>6. g[i + 1] = 2^(i + 1) - 1 - f[i + 1]
    BY <2>1, <2>3, <2>5
  <2>7. QED
    BY <2>2, <2>6
<1>7. n \in S
  <2> HIDE DEF S
  <2>1. 0..n \subseteq S
    BY <1>1, <1>5, <1>6, UpToInduction
  <2>2. QED
    BY <2>1
<1>8. QED
  BY <1>3, <1>4, <1>7 DEF c

LEMMA TwosComplementIs ==
  ASSUME NEW w \in 1..31, NEW v \in -(2^(w - 1))..-1
  PROVE  TwosComplement(v, w) = Binary(2^w + v, w) /\ 2^w + v \in 2^(w - 1)..2^w - 1
<1> DEFINE h == 2^(w - 1)
           p == 2^w
           m == -v
           b == Binary(m, w)
<1>1. p \in Nat /\ h \in Nat /\ h > 0 /\ p = 2 * h
  BY LargestIs
<1>2. m \in 1..h /\ m \in 0..p - 1
  <2> HIDE DEF p
  <2>1. v \in -h..-1
    OBVIOUS
  <2> HIDE DEF h
  <2>2. QED
    BY <1>1, <2>1
<1>3. b \in Digits /\ Len(b) = w /\ Number(b) = m
  <2> HIDE DEF m
  <2>1. QED
    BY <1>2, BinaryDigits
<1>4. Number([i \in DOMAIN b |-> 1 - b[i]]) = p - 1 - m
  <2> HIDE DEF b
  <2>1. QED
    BY <1>3, NumberInverted
<1>5. TwosComplement(v, w) = Binary(Number([i \in DOMAIN b |-> 1 - b[i]]) + 1, w)
  BY DEF TwosComplement
<1> HIDE DEF b, p, h
<1>6. (p - 1 - m) + 1 = p + v /\ p + v \in h..p - 1
  BY <1>1, <1>2
<1>7. QED
  BY <1>4, <1>5, <1>6 DEF p, h

LEMMA SignedTrip ==
  ASSUME NEW f, f.size \in 1..31, NEW n \in -(2^(f.size - 1))..(2^(f.size - 1) - 1), NEW rest \in Digits
  PROVE  \E bits \in Digits :
           /\ EncodeSigned(f, <<n>>) = <<bits>> /\ bits # <<>> /\ Len(bits) = f.size
           /\ DecodeSigned(f, bits \o rest) = Decoded(n, Len(bits))
<1> DEFINE w == f.size
           h == 2^(w - 1)
           p == 2^w
           m == IF n < 0 THEN p + n ELSE n
           b == Binary(m, w)
<1>1. p \in Nat /\ h \in Nat /\ h > 0 /\ p = 2 * h
  BY LargestIs
<1>2. n \in -h..(h - 1)
  OBVIOUS
<1>3. m \in 0..p - 1 /\ (n < 0 => m >= h) /\ (n >= 0 => m < h)
  <2> HIDE DEF h, p
  <2>1. QED
    BY <1>1, <1>2
<1>4. b \in Digits /\ Len(b) = w /\ b # <<>> /\ Number(b) = m
  <2> HIDE DEF m
  <2>1. QED
    BY <1>3, BinaryDigits
<1>5. EncodeSigned(f, <<n>>) = <<b>>
  <2>1. CASE n < 0
    <3>1. n \in -(2^(w - 1))..-1
      BY <1>1, <1>2, <2>1
    <3>2. TwosComplement(n, w) = Binary(p + n, w)
      BY <3>1, TwosComplementIs
    <3>3. m = p + n
      BY <2>1
    <3>4. EncodeSigned(f, <<n>>) = <<TwosComplement(n, w)>>
      BY <2>1 DEF EncodeSigned, None
    <3> HIDE DEF m, p, w
    <3>5. QED
      BY <3>2, <3>3, <3>4
  <2>2. CASE ~ (n < 0)
    <3>1. EncodeSigned(f, <<n>>) = <<Binary(n, w)>>
      BY <2>2 DEF EncodeSigned, None
    <3>2. m = n
      BY <2>2
    <3> HIDE DEF m, w
    <3>3. QED
      BY <3>1, <3>2
  <2>3. QED
    BY <2>1, <2>2
<1> HIDE DEF b
<1>6. Slice(b \o rest, w) = b
  <2>1. Slice(b \o rest, Len(b)) = b
    BY <1>4, FirstOf
  <2>2. QED
    BY <1>4, <2>1
<1>7. DecodeSigned(f, b \o rest) = Decoded(IF m >= h THEN (m - h) - h ELSE m, w)
  BY <1>4, <1>6 DEF DecodeSigned
<1>8. (IF m >= h THEN (m - h) - h ELSE m) = n
  <2> HIDE DEF h, p
  <2>1. QED
    BY <1>1, <1>2, <1>3
<1>9. DecodeSigned(f, b \o rest) = Decoded(n, Len(b))
  BY <1>4, <1>7, <1>8
<1>10. QED
  BY <1>4, <1>5, <1>9, Zenon

LEMMA EnumTrip ==
  ASSUME NEW f, f.size \in 1..31, f.items \in Nat, f.items - 1 <= Largest(f.size),
         NEW v, NEW n \in 0..f.items - 1, EnumValue(f, v) = <<n>>, NEW rest \in Digits
  PROVE  \E bits \in Digits :
           /\ EncodeEnum(f, v) = <<bits>> /\ bits # <<>>
           /\ DecodeEnum(f, bits \o rest) = Decoded(n, Len(bits))
<1>1. n \in 0..Largest(f.size)
  <2>1. Largest(f.size) \in Int
    BY LargestIs
  <2>2. QED
    BY <2>1
<1>2. PICK bits \in Digits :
           /\ EncodeUnsigned(f, <<n>>) = <<bits>> /\ bits # <<>> /\ Len(bits) = f.size
           /\ Number(Slice(bits \o rest, f.size)) = n
  BY <1>1, UnsignedTrip
<1>3. EncodeEnum(f, v) = <<bits>>
  BY <1>2 DEF EncodeEnum
<1>4. AssignEnum(f, n) = << <<n>> >>
  BY DEF AssignEnum
<1>5. DecodeEnum(f, bits \o rest) = Decoded(n, Len(bits))
  BY <1>2, <1>4 DEF DecodeEnum, Raises
<1>6. QED
  BY <1>2, <1>3, <1>5

-----------------------------------------------------------------------------
(***************************************************************************)
(* Messages.                                                               *)
(***************************************************************************)

(* Decode() takes one field after the other.                               *)
Decoding(f, n, schema, msg, b) ==
    /\ f[0] = [ok |-> TRUE, off |-> 0, msg |-> msg]
    /\ \A i \in 1..n : f[i] = DecodeStep(schema, f[i - 1], i, b)
    /\ Decode(schema, msg, b) = f[n]

LEMMA DecodeUnfolds ==
  ASSUME NEW n \in Nat, NEW schema, DOMAIN schema = 1..n, NEW msg, NEW b
  PROVE  \E f : Decoding(f, n, schema, msg, b)
<1> DEFINE base == [ok |-> TRUE, off |-> 0, msg |-> msg]
           Op(a, i) == CHOOSE r \in {DecodeStep(schema, x, i, b) : x \in {a}} : TRUE
           In(k, g) == \A s \in SUBSET (1..k) :
                         g[s] = IF s = {} THEN base ELSE Op(g[s \ {Max(s)}], Max(s))
           I == [i \in DOMAIN schema |-> i]
           Folds(g) == g = [s \in SUBSET (DOMAIN I) |->
                              IF s = {} THEN base ELSE Op(g[s \ {Max(s)}], I[Max(s)])]
           Exists(k) == \E g : In(k, g)
           Has == {k \in 0..n : Exists(k)}
<1>1. ASSUME NEW a, NEW i PROVE Op(a, i) = DecodeStep(schema, a, i, b)
  OBVIOUS
<1> HIDE DEF Op
<1>2. 0 \in Has
  <2> DEFINE g == [s \in {{}} |-> base]
  <2>1. \A s \in SUBSET (1..0) : s = {}
    <3>1. \A x \in 1..0 : FALSE
      OBVIOUS
    <3>2. QED
      BY <3>1
  <2>2. In(0, g)
    <3> HIDE DEF base
    <3>1. QED
      BY <2>1
  <2>3. Exists(0)
    BY <2>2, Zenon
  <2>4. QED
    <3> HIDE DEF Exists
    <3>1. QED
      BY <2>3
<1>3. ASSUME NEW k \in 0..(n - 1), k \in Has PROVE k + 1 \in Has
  <2>1. PICK old : In(k, old)
    BY <1>3, Zenon
  <2> DEFINE g == [s \in SUBSET (1..(k + 1)) |->
                      IF k + 1 \in s THEN Op(old[s \ {k + 1}], k + 1) ELSE old[s]]
  <2>2. \A s \in SUBSET (1..(k + 1)) : /\ k + 1 \notin s => s \in SUBSET (1..k)
                                       /\ s \ {k + 1} \in SUBSET (1..k)
                                       /\ s \ {k + 1} \in SUBSET (1..(k + 1))
                                       /\ k + 1 \notin s \ {k + 1}
    <3>1. \A x \in 1..(k + 1) : x # k + 1 => x \in 1..k
      OBVIOUS
    <3>2. QED
      BY <3>1
  <2>3. \A s \in SUBSET (1..(k + 1)) :
          g[s] = IF k + 1 \in s THEN Op(old[s \ {k + 1}], k + 1) ELSE old[s]
    OBVIOUS
  <2> HIDE DEF g, base
  <2>4. ASSUME NEW s \in SUBSET (1..(k + 1))
        PROVE  g[s] = IF s = {} THEN base ELSE Op(g[s \ {Max(s)}], Max(s))
    <3>1. CASE k + 1 \in s
      <4>1. Max(s) = k + 1
        <5>1. k + 1 \in Nat /\ Max(s) \in 1..(k + 1) /\ k + 1 <= Max(s)
          BY <3>1, GreatestExists
        <5>2. QED
          BY <5>1
      <4>2. g[s \ {k + 1}] = old[s \ {k + 1}]
        BY <2>2, <2>3
      <4>3. g[s] = Op(old[s \ {k + 1}], k + 1)
        BY <2>3, <3>1
      <4>4. QED
        BY <3>1, <4>1, <4>2, <4>3
    <3>2. CASE k + 1 \notin s
      <4>1. s \in SUBSET (1..k) /\ g[s] = old[s]
        BY <2>2, <2>3, <3>2
      <4>2. s \ {Max(s)} \in SUBSET (1..(k + 1)) /\ k + 1 \notin s \ {Max(s)}
        BY <3>2
      <4>3. g[s \ {Max(s)}] = old[s \ {Max(s)}]
        BY <2>3, <4>2
      <4>4. old[s] = IF s = {} THEN base ELSE Op(old[s \ {Max(s)}], Max(s))
        BY <2>1, <4>1
      <4>5. QED
        BY <4>1, <4>3, <4>4
    <3>3. QED
      BY <3>1, <3>2
  <2>5. In(k + 1, g)
    BY <2>4
  <2>6. Exists(k + 1)
    BY <2>5, Zenon
  <2>7. QED
    <3> HIDE DEF Exists
    <3>1. QED
      BY <2>6
<1>4. PICK it : In(n, it)
  <2>1. 0..n \subseteq Has
    <3> HIDE DEF Has
    <3>1. QED
      BY <1>2, <1>3, UpToInduction
  <2>2. Exists(n)
    <3> HIDE DEF Exists
    <3>1. QED
      BY <2>1
  <2>3. QED
    BY <2>2
<1>0. DOMAIN I = 1..n /\ \A i \in 1..n : I[i] = i
  OBVIOUS
<1> DEFINE h == [s \in SUBSET (1..n) |-> it[s]]
<1>5. Folds(h)
  <2> HIDE DEF I
  <2>1. ASSUME NEW s \in SUBSET (1..n)
        PROVE  it[s] = IF s = {} THEN base ELSE Op(h[s \ {Max(s)}], I[Max(s)])
    <3>1. it[s] = IF s = {} THEN base ELSE Op(it[s \ {Max(s)}], Max(s))
      BY <1>4
    <3>2. s \ {Max(s)} \in SUBSET (1..n)
      OBVIOUS
    <3>3. s # {} => Max(s) \in 1..n
      BY GreatestExists
    <3> HIDE DEF base
    <3>4. QED
      BY <1>0, <3>1, <3>2, <3>3
  <2> HIDE DEF base
  <2>2. QED
    BY <1>0, <2>1
<1>6. Decode(schema, msg, b) = (CHOOSE g : Folds(g))[DOMAIN I]
  BY Zenon DEF Decode, Fold, FoldLeft, MapThenFoldSet, Op
<1> HIDE DEF I
<1>7. PICK g : Folds(g) /\ Decode(schema, msg, b) = g[1..n]
  <2> HIDE DEF h
  <2>1. QED
    BY <1>5, <1>6, <1>0
<1> DEFINE f == [i \in 0..n |-> g[1..i]]
<1>8. f[0] = base
  <2>1. 1..0 = {} /\ {} \in SUBSET (1..n)
    OBVIOUS
  <2> HIDE DEF base
  <2>2. QED
    BY <1>7, <1>0, <2>1
<1>9. ASSUME NEW i \in 1..n PROVE f[i] = DecodeStep(schema, f[i - 1], i, b)
  <2>1. 1..i \in SUBSET (1..n) /\ Max(1..i) = i /\ (1..i) \ {i} = 1..(i - 1) /\ 1..i # {}
    <3>1. i \in Nat /\ i # 0 /\ \A x \in 1..i : x \in 1..n
      OBVIOUS
    <3>2. QED
      BY <3>1, MaxUpTo
  <2> HIDE DEF base
  <2>2. g[1..i] = Op(g[1..(i - 1)], i)
    <3>1. \A t \in SUBSET (1..n) : t # {} => g[t] = Op(g[t \ {Max(t)}], I[Max(t)])
      BY <1>7, <1>0
    <3>2. g[1..i] = Op(g[(1..i) \ {Max(1..i)}], I[Max(1..i)])
      BY <2>1, <3>1
    <3>3. I[i] = i
      BY <1>0
    <3>4. QED
      BY <2>1, <3>2, <3>3, Zenon
  <2>3. f[i] = g[1..i] /\ f[i - 1] = g[1..(i - 1)]
    OBVIOUS
  <2>4. QED
    BY <1>1, <2>2, <2>3, Zenon
<1>10. f[n] = g[1..n]
  OBVIOUS
<1>11. Decoding(f, n, schema, msg, b)
  <2> HIDE DEF f
  <2>1. QED
    BY <1>7, <1>8, <1>9, <1>10, Zenon DEF Decoding
<1>12. QED
  BY <1>11, Zenon

LEMMA IsResult == \A x : <<x>> # Raises /\ <<x>>[1] = x
BY DEF Raises

(* Results put together.                                                   *)
LEMMA JoinIs ==
  ASSUME NEW n \in Nat, NEW results, DOMAIN results = 1..n,
         NEW parts, \A i \in 1..n : parts[i] \in Digits /\ results[i] = <<parts[i]>>,
         NEW cat, \A i \in 0..n : cat[i] \in Digits, Together(cat, parts, n)
  PROVE  Join(results) = <<cat[n]>>
<1> DEFINE bits == [i \in DOMAIN results |-> results[i][1]]
<1>1. \A i \in DOMAIN results : results[i] # Raises
  BY IsResult, Zenon
<1>2. AllOf(results) = <<bits>>
  BY <1>1 DEF AllOf
<1>3. DOMAIN bits = 1..n /\ \A i \in 1..n : bits[i] = parts[i]
  OBVIOUS
<1>4. bits \in Seq(Digits) /\ Len(bits) = n
  <2>1. bits = [i \in 1..n |-> parts[i]]
    OBVIOUS
  <2> HIDE DEF bits
  <2>2. QED
    BY <2>1
<1> HIDE DEF bits
<1>5. n = 0 => bits = <<>>
  BY <1>4, EmptySeq
<1>6. Together(cat, bits, n) /\ \A i \in 1..n : bits[i] \in Digits
  BY <1>3 DEF Together
<1>7. FlattenSeq(bits) = cat[n]
  BY <1>3, <1>4, <1>5, <1>6, FlattenIs DEF Digits
<1>8. QED
  BY <1>2, <1>7, IsResult, Zenon DEF Join, Then

LEMMA JoinFails ==
  ASSUME NEW results, Join(results) # Raises
  PROVE  \A i \in DOMAIN results : results[i] # Raises
BY Zenon DEF Join, Then, AllOf

LEMMA JoinTwo ==
  ASSUME NEW a \in Digits, NEW b \in Digits
  PROVE  Join(<< <<a>>, <<b>> >>) = <<a \o b>>
<1> DEFINE results == << <<a>>, <<b>> >>
           parts   == <<a, b>>
           cat     == [i \in 0..2 |-> IF i = 0 THEN <<>> ELSE IF i = 1 THEN a ELSE a \o b]
<1>1. DOMAIN results = 1..2 /\ results[1] = <<a>> /\ results[2] = <<b>>
      /\ parts[1] = a /\ parts[2] = b
  OBVIOUS
<1>2. cat[0] = <<>> /\ cat[1] = a /\ cat[2] = a \o b
  OBVIOUS
<1> HIDE DEF results, parts, cat
<1>3. a \o b \in Digits /\ <<>> \o a = a /\ <<>> \in Digits
  BY DigitsPair, DigitsOne, NoDigits
<1>4. \A i \in 1..2 : parts[i] \in Digits /\ results[i] = <<parts[i]>>
  <2>1. \A i \in 1..2 : i = 1 \/ i = 2
    OBVIOUS
  <2>2. QED
    BY <1>1, <2>1, Zenon
<1>5. \A i \in 0..2 : cat[i] \in Digits
  <2>1. \A i \in 0..2 : i = 0 \/ i = 1 \/ i = 2
    OBVIOUS
  <2>2. QED
    BY <1>2, <1>3, <2>1, Zenon
<1>6. Together(cat, parts, 2)
  <2>1. \A i \in 1..2 : (i = 1 /\ i - 1 = 0) \/ (i = 2 /\ i - 1 = 1)
    OBVIOUS
  <2>2. cat[1] = cat[0] \o parts[1] /\ cat[2] = cat[1] \o parts[2]
    BY <1>1, <1>2, <1>3, Zenon
  <2>3. QED
    BY <1>2, <2>1, <2>2, Zenon DEF Together
<1>7. 2 \in Nat
  OBVIOUS
<1>8. Join(results) = <<cat[2]>>
  <2>1. DOMAIN results = 1..2
    BY <1>1
  <2> DEFINE m == 2
  <2>2. m \in Nat /\ DOMAIN results = 1..m /\ Together(cat, parts, m)
        /\ (\A i \in 1..m : parts[i] \in Digits /\ results[i] = <<parts[i]>>)
        /\ \A i \in 0..m : cat[i] \in Digits
    BY <2>1, <1>4, <1>5, <1>6, <1>7
  <2> HIDE DEF m
  <2>3. Join(results) = <<cat[m]>>
    BY <2>2, JoinIs
  <2>4. QED
    BY <2>3 DEF m
<1>9. QED
  BY <1>2, <1>8, Zenon DEF results

LEMMA ZerosAre ==
  ASSUME NEW n \in Nat
  PROVE  Zeros(n) \in Digits /\ Len(Zeros(n)) = n /\ \A i \in 1..n : Zeros(n)[i] = 0
<1> DEFINE z == Zeros(n)
<1>1. z = [i \in 1..n |-> 0]
  BY DEF Zeros
<1> HIDE DEF z
<1>2. z \in Seq({0, 1}) /\ Len(z) = n /\ \A i \in 1..n : z[i] = 0
  BY <1>1
<1>3. QED
  BY <1>2 DEF z, Digits

(* The presence bit of a field.                                            *)
Marked(f, part) == IF f.optional THEN <<1>> \o part ELSE part

(* The digits of a field in a message.                                     *)
PartIs(schema, msg, exclude, i, part) ==
    IF ~Included(schema, msg, exclude, i) THEN part = <<0>>
    ELSE \E bits \in Digits : /\ EncodeField(schema[i], msg[i]) = <<bits>>
                              /\ part = Marked(schema[i], bits)

Padded(bits) == bits \o Zeros(8 - (Len(bits) % 8))

LEMMA PaddedIs ==
  ASSUME NEW bits \in Digits
  PROVE  /\ Zeros(8 - (Len(bits) % 8)) \in Digits /\ Padded(bits) \in Digits
         /\ Len(Padded(bits)) = Len(bits) + (8 - (Len(bits) % 8))
         /\ \E n \in Nat : Len(Padded(bits)) = 8 * n /\ Len(bits) < 8 * n /\ 8 * n <= Len(bits) + 8
<1> DEFINE l == Len(bits)
           z == 8 - (l % 8)
<1>1. l \in Nat /\ z \in 1..8 /\ z \in Nat
  BY DEF Digits
<1>2. Zeros(z) \in Digits /\ Len(Zeros(z)) = z
  <2> HIDE DEF z
  <2>1. QED
    BY <1>1, ZerosAre
<1>3. Padded(bits) \in Digits /\ Len(Padded(bits)) = l + z
  <2> DEFINE s == Zeros(z)
  <2>1. bits \in Seq({0, 1}) /\ s \in Seq({0, 1}) /\ Len(s) = z
    BY <1>2 DEF Digits
  <2> HIDE DEF s
  <2>2. bits \o s \in Seq({0, 1}) /\ Len(bits \o s) = l + z
    BY <2>1, ConcatProperties
  <2>3. Padded(bits) = bits \o s
    BY DEF Padded, s
  <2>4. QED
    BY <2>2, <2>3 DEF Digits
<1>4. \E n \in Nat : l + z = 8 * n /\ l < 8 * n /\ 8 * n <= l + 8
  <2> DEFINE q == l \div 8
             m == l % 8
  <2>1. l = 8 * q + m /\ m \in 0..7 /\ q \in Nat
    BY <1>1
  <2> HIDE DEF q, m, l
  <2>2. l + (8 - m) = 8 * (q + 1) /\ q + 1 \in Nat /\ l < 8 * (q + 1) /\ 8 * (q + 1) <= l + 8
    BY <2>1
  <2>3. l % 8 = m
    BY DEF m
  <2>4. QED
    BY <2>2, <2>3
<1>5. QED
  BY <1>2, <1>3, <1>4

(* What is encoded: the parts, padded.                                     *)
LEMMA EncodeIs ==
  ASSUME NEW n \in Nat, NEW schema, DOMAIN schema = 1..n,
         \A i \in 1..n : schema[i].optional \in BOOLEAN,
         NEW msg, NEW exclude, NEW is_forward \in BOOLEAN,
         NEW whole, \A i \in 1..n : whole[i] \in Digits /\ PartIs(schema, msg, exclude, i, whole[i]),
         NEW cat, \A i \in 0..n : cat[i] \in Digits, Together(cat, whole, n)
  PROVE  Encode(schema, msg, exclude, is_forward) =
            IF Len(Padded(cat[n])) \div 8 > (IF is_forward THEN MaxForward ELSE MaxReturn) THEN Raises
            ELSE <<Padded(cat[n])>>
<1> DEFINE Mark(i) == IF schema[i].optional THEN << <<1>> >> ELSE << <<>> >>
           Part(i) == IF ~Included(schema, msg, exclude, i) THEN << <<0>> >>
                      ELSE Join(<<Mark(i), EncodeField(schema[i], msg[i])>>)
           parts   == [i \in DOMAIN schema |-> Part(i)]
           Limit   == IF is_forward THEN MaxForward ELSE MaxReturn
           Checked(payload) == IF Len(payload) \div 8 > Limit THEN Raises ELSE <<payload>>
<1>1. ASSUME NEW i \in 1..n PROVE Part(i) = <<whole[i]>>
  <2>1. CASE ~Included(schema, msg, exclude, i)
    <3>1. whole[i] = <<0>>
      BY <2>1 DEF PartIs
    <3>2. QED
      BY <2>1, <3>1
  <2>2. CASE Included(schema, msg, exclude, i)
    <3>1. PICK bits \in Digits : /\ EncodeField(schema[i], msg[i]) = <<bits>>
                                 /\ whole[i] = Marked(schema[i], bits)
      BY <2>2 DEF PartIs
    <3>2. CASE schema[i].optional
      <4>1. <<1>> \in Digits
        BY DEF Digits
      <4>2. Join(<< << <<1>> >>, <<bits>> >>) = << <<1>> \o bits>>
        BY <4>1, JoinTwo
      <4>3. Mark(i) = << <<1>> >> /\ Marked(schema[i], bits) = <<1>> \o bits
        BY <3>2 DEF Marked
      <4>4. QED
        BY <2>2, <3>1, <4>2, <4>3, Zenon
    <3>3. CASE ~schema[i].optional
      <4>1. <<>> \in Digits /\ <<>> \o bits = bits
        BY ConcatEmptySeq DEF Digits
      <4>2. Join(<< << <<>> >>, <<bits>> >>) = << <<>> \o bits>>
        BY <4>1, JoinTwo
      <4>3. Mark(i) = << <<>> >> /\ Marked(schema[i], bits) = bits
        BY <3>3 DEF Marked
      <4>4. QED
        BY <2>2, <3>1, <4>1, <4>2, <4>3, Zenon
    <3>4. QED
      BY <3>2, <3>3
  <2>3. QED
    BY <2>1, <2>2
<1>2. DOMAIN parts = 1..n /\ \A i \in 1..n : parts[i] = <<whole[i]>>
  <2> HIDE DEF Part
  <2>1. QED
    BY <1>1
<1>3. Encode(schema, msg, exclude, is_forward) =
        Then(Join(parts), LAMBDA bits : Checked(Padded(bits)))
  BY Zenon DEF Encode, Padded
<1> HIDE DEF parts
<1>4. Join(parts) = <<cat[n]>>
  BY <1>2, JoinIs
<1>5. Encode(schema, msg, exclude, is_forward) = Checked(Padded(cat[n]))
  BY <1>3, <1>4, IsResult, Zenon DEF Then
<1>6. QED
  BY <1>5

(* Digits from a place on, and the first of them.                          *)
LEMMA AfterTwice ==
  ASSUME NEW a \in Digits, NEW b \in Digits, NEW c \in Digits
  PROVE  /\ After(a \o (b \o c), Len(a)) = b \o c
         /\ After(a \o (b \o c), Len(a) + Len(b)) = c
         /\ b # <<>> => (a \o (b \o c))[Len(a) + 1] = b[1]
<1> DEFINE d == b \o c
<1>1. d \in Digits /\ Len(d) = Len(b) + Len(c) /\ Len(a) \in Nat /\ Len(b) \in Nat /\ Len(c) \in Nat
  BY ConcatProperties DEF Digits
<1>2. After(d, Len(b)) = c
  BY CutAt DEF Digits
<1>3. b # <<>> => d[1] = b[1] /\ Len(b) >= 1
  <2>1. b # <<>> => Len(b) >= 1
    BY EmptySeq DEF Digits
  <2>2. QED
    BY <2>1, FirstOf
<1> HIDE DEF d
<1>4. /\ After(a \o d, Len(a)) = d
      /\ \A n \in 0..Len(d) : After(a \o d, Len(a) + n) = After(d, n)
      /\ \A i \in 1..Len(a) + Len(d) : (a \o d)[i] = IF i <= Len(a) THEN a[i] ELSE d[i - Len(a)]
  BY <1>1, CutAt, ConcatProperties DEF Digits
<1>5. After(a \o d, Len(a) + Len(b)) = c
  <2>1. Len(b) \in 0..Len(d)
    BY <1>1
  <2>2. QED
    BY <1>2, <1>4, <2>1
<1>6. ASSUME b # <<>> PROVE (a \o d)[Len(a) + 1] = b[1]
  <2>1. Len(a) + 1 \in 1..Len(a) + Len(d) /\ ~ (Len(a) + 1 <= Len(a)) /\ (Len(a) + 1) - Len(a) = 1
    BY <1>1, <1>3, <1>6
  <2>2. (a \o d)[Len(a) + 1] = d[1]
    BY <1>4, <2>1
  <2>3. QED
    BY <1>3, <1>6, <2>2
<1>7. QED
  BY <1>4, <1>5, <1>6 DEF d

(* A field that is decoded as sent, whatever follows.                      *)
Reaches(f, bits, r, got) ==
    /\ bits \in Digits /\ bits # <<>>
    /\ \A rest \in Digits : DecodeField(f, r, bits \o rest) = <<[v |-> got, used |-> Len(bits)]>>

Puts(m, i, v, next) == next = [m EXCEPT ![i] = v]
StepsTo(schema, acc, i, b, next) == DecodeStep(schema, acc, i, b) = next

(* One field that was included.                                            *)
LEMMA DecodeIncluded ==
  ASSUME NEW schema, NEW i, NEW acc, acc.ok = TRUE,
         NEW c \in Digits, acc.off = Len(c), NEW p, NEW got, Reaches(schema[i], p, acc.msg[i], got),
         NEW next, Puts(acc.msg, i, got, next), NEW rest \in Digits
  PROVE  StepsTo(schema, acc, i, c \o (Marked(schema[i], p) \o rest),
               [ok |-> TRUE, off |-> Len(c) + Len(Marked(schema[i], p)), msg |-> next])
<1> DEFINE f == schema[i]
           w == Marked(f, p)
           b == c \o (w \o rest)
           start == acc.off + OptionalBit(f)
           result == <<[v |-> got, used |-> Len(p)]>>
<1>1. p \in Digits /\ p # <<>> /\ DecodeField(f, acc.msg[i], p \o rest) = result
  BY DEF Reaches
<1>2. /\ After(b, start) = p \o rest /\ start + Len(p) = Len(c) + Len(w)
      /\ f.optional => ~ (acc.off >= Len(b)) /\ b[start] = 1
  <2>1. CASE f.optional
    <3> DEFINE one == <<1>>
    <3>1. one \in Digits /\ Len(one) = 1 /\ one # <<>> /\ one[1] = 1
      BY DEF Digits
    <3>2. w = one \o p /\ start = Len(c) + 1
      BY <2>1 DEF Marked, OptionalBit
    <3> HIDE DEF one, w, start
    <3>3. w \o rest = one \o (p \o rest) /\ p \o rest \in Digits
      <4>1. one \in Seq({0, 1}) /\ p \in Seq({0, 1}) /\ rest \in Seq({0, 1})
        BY <1>1, <3>1 DEF Digits
      <4>2. (one \o p) \o rest = one \o (p \o rest)
        BY <4>1, ConcatAssociative
      <4>3. p \o rest \in Seq({0, 1})
        BY <4>1, ConcatProperties
      <4>4. QED
        BY <3>2, <4>2, <4>3 DEF Digits
    <3>4. b = c \o (one \o (p \o rest))
      BY <3>3, Zenon
    <3> HIDE DEF b
    <3>5. After(b, Len(c) + 1) = p \o rest /\ b[Len(c) + 1] = 1
      <4> DEFINE d == p \o rest
      <4>1. d \in Digits
        BY <3>3
      <4>2. b = c \o (one \o d)
        BY <3>4
      <4> HIDE DEF d
      <4>3. After(c \o (one \o d), Len(c) + Len(one)) = d /\ (c \o (one \o d))[Len(c) + 1] = one[1]
        BY <3>1, <4>1, AfterTwice
      <4>4. QED
        BY <3>1, <4>2, <4>3 DEF d
    <3>6. Len(w) = 1 + Len(p) /\ Len(p) \in Nat /\ Len(c) \in Nat
      <4>1. Len(one \o p) = Len(one) + Len(p)
        BY <1>1, <3>1, FirstOf
      <4>2. Len(p) \in Nat /\ Len(c) \in Nat
        BY <1>1 DEF Digits
      <4>3. QED
        BY <3>1, <3>2, <4>1, <4>2
    <3>7. ~ (acc.off >= Len(b))
      <4> DEFINE d == p \o rest
                 e == one \o d
      <4>1. d \in Digits
        BY <3>3
      <4>2. e \in Digits /\ Len(e) = Len(one) + Len(d) /\ Len(d) \in Nat
        BY <3>1, <4>1, DigitsPair, Zenon
      <4> HIDE DEF e
      <4>3. b = c \o e
        BY <3>4 DEF e
      <4> HIDE DEF d
      <4>5. Len(b) = Len(c) + Len(e)
        BY <4>2, <4>3, DigitsPair, Zenon
      <4>4. QED
        BY <3>1, <3>6, <4>2, <4>5
    <3>8. QED
      BY <3>2, <3>5, <3>6, <3>7
  <2>2. CASE ~f.optional
    <3>1. w = p /\ start = Len(c)
      BY <2>2 DEF Marked, OptionalBit, Digits
    <3>2. After(c \o (p \o rest), Len(c)) = p \o rest
      BY <1>1, AfterTwice
    <3> HIDE DEF w, start
    <3>3. QED
      BY <2>2, <3>1, <3>2
  <2>3. QED
    BY <2>1, <2>2
<1>3. DecodeStep(schema, acc, i, b) =
        IF f.optional /\ acc.off >= Len(b) THEN [acc EXCEPT !.ok = FALSE]
        ELSE IF f.optional /\ b[start] = 0 THEN [ok |-> TRUE, off |-> start, msg |-> acc.msg]
        ELSE Assigned(acc, i, start, DecodeField(f, acc.msg[i], After(b, start)))
  BY Zenon DEF DecodeStep
<1> HIDE DEF b, w, start
<1>4. DecodeStep(schema, acc, i, b) = Assigned(acc, i, start, result)
  <2>1. DecodeField(f, acc.msg[i], After(b, start)) = result
    BY <1>1, <1>2
  <2>2. b[start] = 1 => b[start] # 0
    OBVIOUS
  <2> HIDE DEF f, result
  <2>3. QED
    BY <1>2, <1>3, <2>1, <2>2
<1>5. Assigned(acc, i, start, result) =
        [ok |-> TRUE, off |-> start + Len(p), msg |-> [acc.msg EXCEPT ![i] = got]]
  <2>1. result # Raises /\ result[1] = [v |-> got, used |-> Len(p)]
    BY IsResult
  <2>2. result[1].v = got /\ result[1].used = Len(p)
    BY <2>1
  <2> HIDE DEF result
  <2>3. QED
    BY <2>1, <2>2 DEF Assigned
<1>6. QED
  BY <1>2, <1>4, <1>5 DEF b, w, StepsTo, Puts

(* One that was left out.                                                  *)
LEMMA DecodeAbsent ==
  ASSUME NEW schema, NEW i, schema[i].optional, NEW acc, acc.ok = TRUE,
         NEW c \in Digits, acc.off = Len(c), NEW rest \in Digits
  PROVE  StepsTo(schema, acc, i, c \o (<<0>> \o rest), [ok |-> TRUE, off |-> Len(c) + 1, msg |-> acc.msg])
<1> DEFINE f == schema[i]
           w == <<0>>
           b == c \o (w \o rest)
           start == acc.off + OptionalBit(f)
<1>1. w \in Digits /\ w # <<>> /\ w[1] = 0 /\ Len(w) = 1
  BY DEF Digits
<1> HIDE DEF w
<1>2. start = Len(c) + 1 /\ Len(c) \in Nat
  BY DEF OptionalBit, Digits
<1>3. b[Len(c) + 1] = 0
  BY <1>1, AfterTwice
<1>4. ~ (acc.off >= Len(b))
  <2> DEFINE d == w \o rest
  <2>1. d \in Digits /\ Len(d) = Len(w) + Len(rest) /\ Len(rest) \in Nat
    BY <1>1, DigitsPair, Zenon
  <2> HIDE DEF d
  <2>2. b = c \o d
    BY DEF d
  <2> HIDE DEF b
  <2>3. Len(b) = Len(c) + Len(d)
    BY <2>1, <2>2, DigitsPair, Zenon
  <2>4. QED
    BY <1>1, <1>2, <2>1, <2>3
<1>5. DecodeStep(schema, acc, i, b) =
        IF f.optional /\ acc.off >= Len(b) THEN [acc EXCEPT !.ok = FALSE]
        ELSE IF f.optional /\ b[start] = 0 THEN [ok |-> TRUE, off |-> start, msg |-> acc.msg]
        ELSE Assigned(acc, i, start, DecodeField(f, acc.msg[i], After(b, start)))
  BY Zenon DEF DecodeStep
<1> HIDE DEF b, start
<1>6. DecodeStep(schema, acc, i, b) = [ok |-> TRUE, off |-> start, msg |-> acc.msg]
  BY <1>2, <1>3, <1>4, <1>5
<1>7. QED
  BY <1>2, <1>6 DEF b, w, StepsTo

(* What is decoded: the fields included as they were sent, the others as   *)
(* they were.                                                              *)
Decodes(schema, before, b, read) ==
    \E off : Decode(schema, before, b) = [ok |-> TRUE, off |-> off, msg |-> read]

Read(n, in, got, before) == [i \in 1..n |-> IF i \in in THEN got[i] ELSE before[i]]

(* The parts of a message, those in `in' fields that are read as got.      *)
AllReach(n, schema, in, part, before, got, whole) ==
    /\ \A i \in in : Reaches(schema[i], part[i], before[i], got[i])
    /\ \A i \in (1..n) \ in : schema[i].optional
    /\ \A i \in 1..n : whole[i] = IF i \in in THEN Marked(schema[i], part[i]) ELSE <<0>>

LEMMA DecodeIs ==
  ASSUME NEW n \in Nat, NEW schema, DOMAIN schema = 1..n, NEW in \in SUBSET (1..n), NEW part, NEW got,
         NEW before, before = [i \in 1..n |-> before[i]],
         NEW whole, AllReach(n, schema, in, part, before, got, whole),
         NEW cat, Joined(cat, whole, n), NEW z \in Digits
  PROVE  Decodes(schema, before, cat[n] \o z, Read(n, in, got, before))
<1>0. /\ \A i \in in : Reaches(schema[i], part[i], before[i], got[i])
      /\ \A i \in (1..n) \ in : schema[i].optional
      /\ \A i \in 1..n : whole[i] = IF i \in in THEN Marked(schema[i], part[i]) ELSE <<0>>
  BY DEF AllReach
<1> DEFINE b == cat[n] \o z
           Msg(k) == [i \in 1..n |-> IF i <= k /\ i \in in THEN got[i] ELSE before[i]]
           Acc(k) == [ok |-> TRUE, off |-> Len(cat[k]), msg |-> Msg(k)]
<1>1. Together(cat, whole, n) /\ \A i \in 0..n : cat[i] \in Digits
  BY DEF Joined
<1>2. PICK f : Decoding(f, n, schema, before, b)
  <2> HIDE DEF b
  <2>1. QED
    BY DecodeUnfolds
<1> DEFINE S == {k \in 0..n : f[k] = Acc(k)}
<1>3. 0 \in S
  <2>1. Len(cat[0]) = 0
    BY <1>1 DEF Together
  <2>2. \A i \in 1..n : ~ (i <= 0)
    OBVIOUS
  <2>3. Msg(0) = before
    BY <2>2
  <2>4. f[0] = Acc(0)
    BY <1>2, <2>1, <2>3 DEF Decoding
  <2> HIDE DEF Acc
  <2>5. QED
    BY <2>4
<1>4. ASSUME NEW k \in 0..(n - 1), k \in S PROVE k + 1 \in S
  <2> DEFINE i == k + 1
             s == schema[i]
             c == cat[k]
             w == whole[i]
  <2>1. i \in 1..n /\ i - 1 = k /\ k \in 0..n
    OBVIOUS
  <2>2. c \in Digits /\ Len(c) \in Nat
    BY <1>1, <2>1 DEF Digits
  <2>3. PICK rest \in Digits : b = c \o (w \o rest) /\ Len(cat[i]) = Len(c) + Len(w)
    <3> HIDE DEF i
    <3>1. FoundIn(cat[n] \o z, cat, whole, i)
      BY <2>1, DigitsFound
    <3>2. QED
      BY <2>1, <3>1, Zenon DEF FoundIn
  <2>4. f[i] = DecodeStep(schema, Acc(k), i, b)
    <3>1. f[i] = DecodeStep(schema, f[i - 1], i, b)
      BY <1>2, <2>1, Zenon DEF Decoding
    <3>2. f[k] = Acc(k)
      BY <1>4
    <3> HIDE DEF Acc, i
    <3>3. QED
      BY <2>1, <3>1, <3>2, Zenon
  <2>6. Acc(k).ok = TRUE /\ Acc(k).off = Len(c) /\ Acc(k).msg = Msg(k)
    BY DEF Acc
  <2>7. Msg(k)[i] = before[i]
    BY <2>1
  <2> HIDE DEF b, w, c
  <2>8. f[i] = Acc(i)
    <3>1. CASE i \in in
      <4>1. Reaches(schema[i], part[i], Acc(k).msg[i], got[i]) /\ w = Marked(schema[i], part[i])
        BY <1>0, <2>1, <2>6, <2>7, <3>1 DEF w
      <4>3. [Msg(k) EXCEPT ![i] = got[i]] = Msg(i)
        <5>1. \A j \in 1..n : (j <= i <=> j <= k \/ j = i)
          BY <2>1
        <5>2. QED
          BY <3>1, <5>1
      <4>2. StepsTo(schema, Acc(k), i, c \o (Marked(schema[i], part[i]) \o rest),
                  [ok |-> TRUE, off |-> Len(c) + Len(Marked(schema[i], part[i])),
                   msg |-> Msg(i)])
        <5> HIDE DEF Acc, i, Msg
        <5>1. Puts(Acc(k).msg, i, got[i], Msg(i))
          BY <2>6, <4>3, Zenon DEF Puts
        <5>3. Acc(k).ok = TRUE /\ Acc(k).off = Len(c)
          BY <2>6
        <5>4. QED
          BY <2>2, <4>1, <5>1, <5>3, DecodeIncluded, Zenon
      <4>4. f[i] = [ok |-> TRUE, off |-> Len(cat[i]), msg |-> Msg(i)]
        <5> HIDE DEF Acc, Msg, i
        <5>1. QED
          BY <2>3, <2>4, <2>6, <4>1, <4>2, <4>3, Zenon DEF StepsTo
      <4>5. QED
        BY <4>4, Zenon DEF Acc
    <3>2. CASE i \notin in
      <4>1. s.optional /\ w = <<0>>
        BY <1>0, <2>1, <3>2 DEF w
      <4>2. StepsTo(schema, Acc(k), i, c \o (<<0>> \o rest),
                  [ok |-> TRUE, off |-> Len(c) + 1, msg |-> Acc(k).msg])
        <5> HIDE DEF Acc, i
        <5>1. QED
          BY <2>2, <2>6, <4>1, DecodeAbsent, Zenon
      <4>3. Len(w) = 1
        BY <4>1
      <4>4. Msg(k) = Msg(i)
        <5>1. \A j \in 1..n : (j <= i <=> j <= k \/ j = i)
          BY <2>1
        <5>2. QED
          BY <3>2, <5>1
      <4>6. f[i] = [ok |-> TRUE, off |-> Len(cat[i]), msg |-> Msg(i)]
        <5> HIDE DEF Acc, Msg, i
        <5>1. QED
          BY <2>3, <2>4, <2>6, <4>1, <4>2, <4>3, <4>4, Zenon DEF StepsTo
      <4>7. QED
        BY <4>6, Zenon DEF Acc
    <3>3. QED
      BY <3>1, <3>2
  <2> HIDE DEF Acc
  <2>9. QED
    BY <2>1, <2>8
<1>5. n \in S
  <2> HIDE DEF S
  <2>1. 0..n \subseteq S
    BY <1>3, <1>4, UpToInduction
  <2>2. QED
    BY <2>1
<1>6. Msg(n) = Read(n, in, got, before)
  BY DEF Read
<1>7. f[n] = [ok |-> TRUE, off |-> Len(cat[n]), msg |-> Msg(n)]
  BY <1>5
<1>8. QED
  BY <1>2, <1>6, <1>7, Zenon DEF Decoding, Decodes

(* A field arrives: its digits are read as what it was sent with.          *)
Trip(f, s, r) ==
    \E bits, got : /\ EncodeField(f, s) = <<bits>> /\ Reaches(f, bits, r, got)
                   /\ Value(f, got) = Value(f, s)

(* The fields of `read' after the payload of `msg', `before' before it.    *)
Same(schema, msg, before, in, read) ==
    /\ read = [i \in DOMAIN schema |-> read[i]]
    /\ \A i \in DOMAIN schema : IF i \in in THEN Value(schema[i], read[i]) = Value(schema[i], msg[i])
                                ELSE read[i] = before[i]

LEMMA MessageArrives ==
  ASSUME NEW n \in Nat, NEW schema, DOMAIN schema = 1..n,
         \A i \in 1..n : schema[i].optional \in BOOLEAN,
         NEW msg, NEW before, DOMAIN before = 1..n, before = [i \in 1..n |-> before[i]],
         NEW exclude, NEW is_forward \in BOOLEAN,
         \A i \in 1..n : Included(schema, msg, exclude, i) => Trip(schema[i], msg[i], before[i]),
         NEW payload, Encode(schema, msg, exclude, is_forward) = <<payload>>
  PROVE  /\ payload \in Digits /\ \E m \in Nat : Len(payload) = 8 * m
         /\ \E read : /\ Decodes(schema, before, payload, read)
                      /\ Same(schema, msg, before,
                              {i \in DOMAIN schema : Included(schema, msg, exclude, i)}, read)
<1> DEFINE in == {i \in 1..n : Included(schema, msg, exclude, i)}
           Parted(i, q) == EncodeField(schema[i], msg[i]) = <<q[1]>> /\ Reaches(schema[i], q[1], before[i], q[2])
                           /\ Value(schema[i], q[2]) = Value(schema[i], msg[i])
           got == [i \in 1..n |-> (CHOOSE q : Parted(i, q))[2]]
           part == [i \in 1..n |-> (CHOOSE q : Parted(i, q))[1]]
           whole == [i \in 1..n |-> IF i \in in THEN Marked(schema[i], part[i]) ELSE <<0>>]
<1>1. \A i \in in : Parted(i, <<part[i], got[i]>>)
  <2> SUFFICES ASSUME NEW i \in in PROVE Parted(i, <<part[i], got[i]>>)
    OBVIOUS
  <2>1. PICK bits, g : /\ EncodeField(schema[i], msg[i]) = <<bits>> /\ Reaches(schema[i], bits, before[i], g)
                       /\ Value(schema[i], g) = Value(schema[i], msg[i])
    <3>1. i \in 1..n /\ Included(schema, msg, exclude, i)
      OBVIOUS
    <3>2. Trip(schema[i], msg[i], before[i])
      BY <3>1
    <3>3. QED
      BY <3>2 DEF Trip
  <2>2. <<bits, g>>[1] = bits /\ <<bits, g>>[2] = g
    OBVIOUS
  <2>3. Parted(i, <<bits, g>>)
    BY <2>1, <2>2
  <2> DEFINE q0 == CHOOSE q : Parted(i, q)
  <2>4. Parted(i, q0)
    BY <2>3
  <2>5. part[i] = q0[1] /\ got[i] = q0[2]
    OBVIOUS
  <2> HIDE DEF q0, part, got
  <2>6. QED
    BY <2>4, <2>5
<1>2. \A i \in in : /\ EncodeField(schema[i], msg[i]) = <<part[i]>>
                    /\ Reaches(schema[i], part[i], before[i], got[i])
                    /\ Value(schema[i], got[i]) = Value(schema[i], msg[i])
  <2> HIDE DEF part, got, in
  <2>1. QED
    BY <1>1
<1>3. \A i \in 1..n : whole[i] = IF i \in in THEN Marked(schema[i], part[i]) ELSE <<0>>
  <2> HIDE DEF part, in
  <2>1. QED
    OBVIOUS
<1> HIDE DEF part, got, whole
<1>4. ASSUME NEW i \in 1..n PROVE whole[i] \in Digits /\ PartIs(schema, msg, exclude, i, whole[i])
  <2>1. <<0>> \in Digits /\ <<1>> \in Digits
    BY DEF Digits
  <2>2. CASE i \in in
    <3>1. part[i] \in Digits /\ EncodeField(schema[i], msg[i]) = <<part[i]>>
      BY <1>2, <2>2 DEF Reaches
    <3>2. whole[i] = Marked(schema[i], part[i])
      BY <1>3, <2>2
    <3>3. Marked(schema[i], part[i]) \in Digits
      BY <2>1, <3>1, DigitsPair DEF Marked
    <3>4. Included(schema, msg, exclude, i)
      BY <2>2
    <3>5. QED
      BY <3>1, <3>2, <3>3, <3>4, Zenon DEF PartIs
  <2>3. CASE i \notin in
    <3>1. ~Included(schema, msg, exclude, i) /\ whole[i] = <<0>>
      BY <1>3, <2>3
    <3>2. QED
      BY <2>1, <3>1 DEF PartIs
  <2>4. QED
    BY <2>2, <2>3
<1>5. PICK cat : Joined(cat, whole, n)
  BY <1>4, JoinedExists
<1>6. Together(cat, whole, n) /\ (\A i \in 0..n : cat[i] \in Digits) /\ cat[n] \in Digits
  BY <1>5 DEF Joined
<1>7. payload = Padded(cat[n])
  <2>1. Encode(schema, msg, exclude, is_forward) =
            IF Len(Padded(cat[n])) \div 8 > (IF is_forward THEN MaxForward ELSE MaxReturn) THEN Raises
            ELSE <<Padded(cat[n])>>
    BY <1>4, <1>6, EncodeIs
  <2>2. Encode(schema, msg, exclude, is_forward) # Raises
    BY IsResult, Zenon
  <2>3. <<payload>> = <<Padded(cat[n])>>
    BY <2>1, <2>2, Zenon
  <2>4. QED
    BY <2>3, IsResult, Zenon
<1> DEFINE z == Zeros(8 - (Len(cat[n]) % 8))
<1>8. z \in Digits /\ payload = cat[n] \o z /\ payload \in Digits /\ \E m \in Nat : Len(payload) = 8 * m
  BY <1>6, <1>7, PaddedIs DEF Padded
<1> HIDE DEF z
<1> DEFINE read == Read(n, in, got, before)
<1>9. Decodes(schema, before, cat[n] \o z, read)
  <2>1. \A i \in (1..n) \ in : schema[i].optional
    BY DEF Included
  <2>2. in \in SUBSET (1..n)
    OBVIOUS
  <2> HIDE DEF in
  <2>3. AllReach(n, schema, in, part, before, got, whole)
    BY <1>2, <1>3, <2>1 DEF AllReach
  <2>4. QED
    BY <1>5, <1>8, <2>2, <2>3, DecodeIs
<1>10. Same(schema, msg, before, in, read)
  <2> HIDE DEF in
  <2>1. QED
    BY <1>2 DEF Same, Read
<1>11. in = {i \in DOMAIN schema : Included(schema, msg, exclude, i)}
  OBVIOUS
<1> HIDE DEF in, read
<1>12. QED
  BY <1>8, <1>9, <1>10, <1>11, Zenon

GetsTo(f, s, r, bits, got) == EncodeField(f, s) = <<bits>> /\ Reaches(f, bits, r, got)

NumberField(f) == f.type \in {"uint", "int"} /\ f.size \in 1..31

(* A number arrives in any field that it fits.                             *)
LEMMA NumberTrip ==
  ASSUME NEW f, NumberField(f), NEW n, Fits(f, n), NEW r
  PROVE  \E bits : GetsTo(f, <<n>>, r, bits, <<n>>) /\ Len(bits) = f.size
<1> USE DEF NumberField
<1>0. <<>> \in Digits
  BY NoDigits
<1>1. CASE f.type = "uint"
  <2>1. n \in 0..Largest(f.size)
    BY <1>1 DEF Fits
  <2>2. PICK bits \in Digits : EncodeUnsigned(f, <<n>>) = <<bits>> /\ bits # <<>> /\ Len(bits) = f.size
    BY <2>1, <1>0, UnsignedTrip
  <2>3. ASSUME NEW rest \in Digits PROVE DecodeUnsigned(f, bits \o rest) = Decoded(n, Len(bits))
    <3>1. PICK b \in Digits : EncodeUnsigned(f, <<n>>) = <<b>> /\ DecodeUnsigned(f, b \o rest) = Decoded(n, Len(b))
      BY <2>1, UnsignedTrip
    <3>2. b = bits
      <4>1. <<b>> = <<bits>>
        BY <2>2, <3>1, Zenon
      <4>2. QED
        BY <4>1, IsResult, Zenon
    <3>3. QED
      BY <3>1, <3>2
  <2>4. EncodeField(f, <<n>>) = <<bits>>
    BY <1>1, <2>2 DEF EncodeField, EncodeScalar
  <2>5. ASSUME NEW rest \in Digits PROVE DecodeField(f, r, bits \o rest) = Decoded(n, Len(bits))
    <3>1. bits \o rest # <<>>
      BY <2>2, FirstOf
    <3>2. DecodeField(f, r, bits \o rest) = DecodeUnsigned(f, bits \o rest)
      BY <1>1, <3>1 DEF DecodeField, DecodeScalar
    <3>3. QED
      BY <2>3, <3>2
  <2>6. Reaches(f, bits, r, <<n>>)
    BY <2>2, <2>5, Zenon DEF Reaches, Decoded
  <2>7. QED
    BY <2>2, <2>4, <2>6, Zenon DEF GetsTo
<1>2. CASE f.type = "int"
  <2>1. n \in -(2^(f.size - 1))..(2^(f.size - 1) - 1)
    BY <1>2 DEF Fits
  <2>2. PICK bits \in Digits : EncodeSigned(f, <<n>>) = <<bits>> /\ bits # <<>> /\ Len(bits) = f.size
    BY <2>1, <1>0, SignedTrip
  <2>3. ASSUME NEW rest \in Digits PROVE DecodeSigned(f, bits \o rest) = Decoded(n, Len(bits))
    <3>1. PICK b \in Digits : EncodeSigned(f, <<n>>) = <<b>> /\ DecodeSigned(f, b \o rest) = Decoded(n, Len(b))
      BY <2>1, SignedTrip
    <3>2. b = bits
      <4>1. <<b>> = <<bits>>
        BY <2>2, <3>1, Zenon
      <4>2. QED
        BY <4>1, IsResult, Zenon
    <3>3. QED
      BY <3>1, <3>2
  <2>4. EncodeField(f, <<n>>) = <<bits>>
    BY <1>2, <2>2 DEF EncodeField, EncodeScalar
  <2>5. ASSUME NEW rest \in Digits PROVE DecodeField(f, r, bits \o rest) = Decoded(n, Len(bits))
    <3>1. bits \o rest # <<>>
      BY <2>2, FirstOf
    <3>2. DecodeField(f, r, bits \o rest) = DecodeSigned(f, bits \o rest)
      BY <1>2, <3>1 DEF DecodeField, DecodeScalar
    <3>3. QED
      BY <2>3, <3>2
  <2>6. Reaches(f, bits, r, <<n>>)
    BY <2>2, <2>5, Zenon DEF Reaches, Decoded
  <2>7. QED
    BY <2>2, <2>4, <2>6, Zenon DEF GetsTo
<1>3. QED
  BY <1>1, <1>2

(* The bits of a message, field by field.                                  *)
Sizing(f, n, schema, msg) ==
    /\ f[0] = 16 /\ \A i \in 1..n : f[i] = f[i - 1] + Bits(schema[i], msg[i])
    /\ ota_size(schema, msg) = (f[n] + 7) \div 8

LEMMA SizeUnfolds ==
  ASSUME NEW n \in Nat, NEW schema, DOMAIN schema = 1..n, NEW msg,
         \A i \in 1..n : Bits(schema[i], msg[i]) \in Nat
  PROVE  \E f : Sizing(f, n, schema, msg)
<1> DEFINE I == [i \in DOMAIN schema |-> i]
           Size(i) == Bits(schema[i], msg[i])
           step == [i \in 1..n |-> [a \in Nat |-> a + Size(i)]]
           Folds(g) == g = [s \in SUBSET (DOMAIN I) |->
                            IF s = {} THEN 16 ELSE g[s \ {Max(s)}] + Size(I[Max(s)])]
<1>0. DOMAIN I = 1..n /\ \A i \in 1..n : I[i] = i
  OBVIOUS
<1>1. \E g : Folds(g)
  <2>1. \A i \in 1..n : \A a \in Nat : step[i][a] = a + Size(i) /\ step[i][a] \in Nat
    OBVIOUS
  <2>2. PICK it \in [SUBSET (1..n) -> Nat] : IsFold(it, n, 16, step)
    <3>1. \A i \in 1..n : \A a \in Nat : step[i][a] \in Nat
      BY <2>1
    <3> HIDE DEF step
    <3>2. 16 \in Nat
      OBVIOUS
    <3>3. QED
      BY <3>1, <3>2, FoldExists
  <2> HIDE DEF Size, step, I
  <2>3. ASSUME NEW s \in SUBSET (1..n), s # {}
        PROVE  step[Max(s)][it[s \ {Max(s)}]] = it[s \ {Max(s)}] + Size(I[Max(s)])
    <3>1. Max(s) \in 1..n /\ it[s \ {Max(s)}] \in Nat
      BY <2>3, GreatestExists
    <3>2. QED
      BY <2>1, <3>1, <1>0
  <2>4. Folds(it)
    BY <1>0, <2>2, <2>3 DEF IsFold
  <2>5. QED
    BY <2>4
<1>2. ota_size(schema, msg) = ((CHOOSE g : Folds(g))[DOMAIN I] + 7) \div 8
  BY Zenon DEF ota_size, FoldLeft, MapThenFoldSet
<1> HIDE DEF I
<1>3. PICK g : Folds(g) /\ ota_size(schema, msg) = (g[1..n] + 7) \div 8
  BY <1>0, <1>1, <1>2
<1> HIDE DEF Size
<1> DEFINE f == [i \in 0..n |-> g[1..i]]
<1>4. f[0] = 16
  <2>1. 1..0 = {} /\ {} \in SUBSET (1..n)
    OBVIOUS
  <2>2. QED
    BY <1>0, <1>3, <2>1
<1>5. \A i \in 1..n : f[i] = f[i - 1] + Size(i)
  <2> SUFFICES ASSUME NEW i \in 1..n PROVE g[1..i] = g[1..(i - 1)] + Size(i)
    OBVIOUS
  <2>1. 1..i \in SUBSET (1..n) /\ Max(1..i) = i /\ (1..i) \ {i} = 1..(i - 1) /\ 1..i # {}
    <3>1. i \in Nat /\ i # 0 /\ \A x \in 1..i : x \in 1..n
      OBVIOUS
    <3>2. QED
      BY <3>1, MaxUpTo
  <2>2. \A t \in SUBSET (1..n) : t # {} => g[t] = g[t \ {Max(t)}] + Size(I[Max(t)])
    BY <1>0, <1>3
  <2>3. g[1..i] = g[(1..i) \ {Max(1..i)}] + Size(I[Max(1..i)])
    BY <2>1, <2>2
  <2>4. I[i] = i
    BY <1>0
  <2>5. QED
    BY <2>1, <2>3, <2>4, Zenon
<1>6. f[n] = g[1..n]
  OBVIOUS
<1> HIDE DEF f
<1>7. QED
  BY <1>3, <1>4, <1>5, <1>6, Zenon DEF Size, Sizing

-----------------------------------------------------------------------------
(***************************************************************************)
(* The location of a fix.                                                  *)
(***************************************************************************)

(* One sentence after the other.                                           *)
Locating(f, n, fix) ==
    /\ f[0] = <<DefaultLocation>> /\ \A i \in 1..n : f[i] = Sentence(f[i - 1], fix[i])
    /\ location_from_nmea(fix) = f[n]

LEMMA LocationUnfolds ==
  ASSUME NEW n \in Nat, NEW fix, DOMAIN fix = 1..n
  PROVE  \E f : Locating(f, n, fix)
<1> DEFINE base == <<DefaultLocation>>
           Op(a, i) == Sentence(a, fix[i])
           In(k, g) == \A s \in SUBSET (1..k) :
                         g[s] = IF s = {} THEN base ELSE Op(g[s \ {Max(s)}], Max(s))
           Folds(g) == g = [s \in SUBSET (DOMAIN fix) |->
                              IF s = {} THEN base ELSE Op(g[s \ {Max(s)}], Max(s))]
           Exists(k) == \E g : In(k, g)
           Has == {k \in 0..n : Exists(k)}
<1>1. ASSUME NEW a, NEW i PROVE Op(a, i) = Sentence(a, fix[i])
  OBVIOUS
<1> HIDE DEF Op
<1>2. 0 \in Has
  <2> DEFINE g == [s \in {{}} |-> base]
  <2>1. \A s \in SUBSET (1..0) : s = {}
    <3>1. \A x \in 1..0 : FALSE
      OBVIOUS
    <3>2. QED
      BY <3>1
  <2>2. In(0, g)
    <3> HIDE DEF base
    <3>1. QED
      BY <2>1
  <2>3. Exists(0)
    BY <2>2, Zenon
  <2>4. QED
    <3> HIDE DEF Exists
    <3>1. QED
      BY <2>3
<1>3. ASSUME NEW k \in 0..(n - 1), k \in Has PROVE k + 1 \in Has
  <2>1. PICK old : In(k, old)
    BY <1>3, Zenon
  <2> DEFINE g == [s \in SUBSET (1..(k + 1)) |->
                      IF k + 1 \in s THEN Op(old[s \ {k + 1}], k + 1) ELSE old[s]]
  <2>2. \A s \in SUBSET (1..(k + 1)) : /\ k + 1 \notin s => s \in SUBSET (1..k)
                                       /\ s \ {k + 1} \in SUBSET (1..k)
                                       /\ s \ {k + 1} \in SUBSET (1..(k + 1))
                                       /\ k + 1 \notin s \ {k + 1}
    <3>1. \A x \in 1..(k + 1) : x # k + 1 => x \in 1..k
      OBVIOUS
    <3>2. QED
      BY <3>1
  <2>3. \A s \in SUBSET (1..(k + 1)) :
          g[s] = IF k + 1 \in s THEN Op(old[s \ {k + 1}], k + 1) ELSE old[s]
    OBVIOUS
  <2> HIDE DEF g, base
  <2>4. ASSUME NEW s \in SUBSET (1..(k + 1))
        PROVE  g[s] = IF s = {} THEN base ELSE Op(g[s \ {Max(s)}], Max(s))
    <3>1. CASE k + 1 \in s
      <4>1. Max(s) = k + 1
        <5>1. k + 1 \in Nat /\ Max(s) \in 1..(k + 1) /\ k + 1 <= Max(s)
          BY <3>1, GreatestExists
        <5>2. QED
          BY <5>1
      <4>2. g[s \ {k + 1}] = old[s \ {k + 1}]
        BY <2>2, <2>3
      <4>3. g[s] = Op(old[s \ {k + 1}], k + 1)
        BY <2>3, <3>1
      <4>4. QED
        BY <3>1, <4>1, <4>2, <4>3
    <3>2. CASE k + 1 \notin s
      <4>1. s \in SUBSET (1..k) /\ g[s] = old[s]
        BY <2>2, <2>3, <3>2
      <4>2. s \ {Max(s)} \in SUBSET (1..(k + 1)) /\ k + 1 \notin s \ {Max(s)}
        BY <3>2
      <4>3. g[s \ {Max(s)}] = old[s \ {Max(s)}]
        BY <2>3, <4>2
      <4>4. old[s] = IF s = {} THEN base ELSE Op(old[s \ {Max(s)}], Max(s))
        BY <2>1, <4>1
      <4>5. QED
        BY <4>1, <4>3, <4>4
    <3>3. QED
      BY <3>1, <3>2
  <2>5. In(k + 1, g)
    BY <2>4
  <2>6. Exists(k + 1)
    BY <2>5, Zenon
  <2>7. QED
    <3> HIDE DEF Exists
    <3>1. QED
      BY <2>6
<1>4. PICK it : In(n, it)
  <2>1. 0..n \subseteq Has
    <3> HIDE DEF Has
    <3>1. QED
      BY <1>2, <1>3, UpToInduction
  <2>2. Exists(n)
    <3> HIDE DEF Exists
    <3>1. QED
      BY <2>1
  <2>3. QED
    BY <2>2
<1> DEFINE h == [s \in SUBSET (1..n) |-> it[s]]
<1>5. Folds(h)
  <2>1. ASSUME NEW s \in SUBSET (1..n)
        PROVE  it[s] = IF s = {} THEN base ELSE Op(h[s \ {Max(s)}], Max(s))
    <3>1. it[s] = IF s = {} THEN base ELSE Op(it[s \ {Max(s)}], Max(s))
      BY <1>4
    <3>2. s \ {Max(s)} \in SUBSET (1..n)
      OBVIOUS
    <3> HIDE DEF base
    <3>3. QED
      BY <3>1, <3>2
  <2> HIDE DEF base
  <2>2. QED
    BY <2>1
<1>6. location_from_nmea(fix) = (CHOOSE g : Folds(g))[1..n]
  BY Zenon DEF location_from_nmea, FoldLeft, MapThenFoldSet, Op
<1>7. PICK g : Folds(g) /\ location_from_nmea(fix) = g[1..n]
  <2> HIDE DEF h
  <2>1. QED
    BY <1>5, <1>6
<1> DEFINE f == [i \in 0..n |-> g[1..i]]
<1>8. f[0] = base
  <2>1. 1..0 = {} /\ {} \in SUBSET (1..n)
    OBVIOUS
  <2> HIDE DEF base
  <2>2. QED
    BY <1>7, <2>1
<1>9. ASSUME NEW i \in 1..n PROVE f[i] = Sentence(f[i - 1], fix[i])
  <2>1. 1..i \in SUBSET (1..n) /\ Max(1..i) = i /\ (1..i) \ {i} = 1..(i - 1) /\ 1..i # {}
    <3>1. i \in Nat /\ i # 0 /\ \A x \in 1..i : x \in 1..n
      OBVIOUS
    <3>2. QED
      BY <3>1, MaxUpTo
  <2> HIDE DEF base
  <2>2. g[1..i] = Op(g[1..(i - 1)], i)
    <3>1. \A t \in SUBSET (1..n) : t # {} => g[t] = Op(g[t \ {Max(t)}], Max(t))
      BY <1>7
    <3>2. g[1..i] = Op(g[(1..i) \ {Max(1..i)}], Max(1..i))
      BY <2>1, <3>1
    <3>3. QED
      BY <2>1, <3>2, Zenon
  <2>3. f[i] = g[1..i] /\ f[i - 1] = g[1..(i - 1)]
    OBVIOUS
  <2>4. QED
    BY <1>1, <2>2, <2>3, Zenon
<1>10. f[n] = g[1..n]
  OBVIOUS
<1>11. Locating(f, n, fix)
  <2> HIDE DEF f
  <2>1. QED
    BY <1>7, <1>8, <1>9, <1>10, Zenon DEF Locating
<1>12. QED
  BY <1>11, Zenon

(* A list of what is known of satellites: each of the set once.            *)
AllAgree(S) == \A x, y \in S : x.prn = y.prn => x = y

ListsOnce(list, S) ==
    /\ list \in Seq(S)
    /\ \A x \in S : \E k \in DOMAIN list : list[k] = x
    /\ \A k, m \in DOMAIN list : list[k].prn = list[m].prn => k = m

(* One more, new or not.                                                   *)
LEMMA RenewedCases ==
  ASSUME NEW list, Len(list) \in Nat, NEW info
  PROVE  \/ /\ \A i \in 1..Len(list) : list[i].prn # info.prn
            /\ Renewed(list, info) = Append(list, info)
         \/ \E k \in 1..Len(list) : /\ list[k].prn = info.prn
                                    /\ Renewed(list, info) = [list EXCEPT ![k] = info]
<1> DEFINE I == {i \in 1..Len(list) : list[i].prn = info.prn}
           k == SelectInSeq(list, LAMBDA i : i.prn = info.prn)
<1>1. k = IF I # {} THEN Min(I) ELSE 0
  BY DEF SelectInSeq
<1>2. Renewed(list, info) = IF k = 0 THEN Append(list, info) ELSE [list EXCEPT ![k] = info]
  BY DEF Renewed
<1> HIDE DEF k
<1>3. CASE I = {}
  <2>1. \A i \in 1..Len(list) : list[i].prn # info.prn
    BY <1>3
  <2>2. k = 0
    BY <1>1, <1>3
  <2>3. QED
    BY <1>2, <2>1, <2>2
<1>4. CASE I # {}
  <2>1. I \subseteq Nat
    OBVIOUS
  <2> HIDE DEF I
  <2>2. Min(I) \in I
    BY <1>4, <2>1, LeastExists
  <2>3. k \in I /\ k # 0
    BY <1>1, <1>4, <2>2 DEF I
  <2>4. QED
    BY <1>2, <2>3 DEF I
<1>5. QED
  BY <1>3, <1>4

LEMMA RenewedSeq ==
  ASSUME NEW S, NEW list \in Seq(S), NEW info \in S PROVE Renewed(list, info) \in Seq(S)
<1>1. CASE Renewed(list, info) = Append(list, info)
  BY <1>1
<1>2. CASE \E k \in 1..Len(list) : Renewed(list, info) = [list EXCEPT ![k] = info]
  BY <1>2
<1>3. QED
  BY <1>1, <1>2, RenewedCases

LEMMA RenewedLists ==
  ASSUME NEW S, NEW list, ListsOnce(list, S), NEW info, AllAgree(S \cup {info})
  PROVE  ListsOnce(Renewed(list, info), S \cup {info})
<1>1. /\ list \in Seq(S) /\ Len(list) \in Nat /\ DOMAIN list = 1..Len(list)
      /\ \A i \in 1..Len(list) : list[i] \in S
  BY DEF ListsOnce
<1>2. CASE /\ \A i \in 1..Len(list) : list[i].prn # info.prn
           /\ Renewed(list, info) = Append(list, info)
  <2> DEFINE new == Append(list, info)
             n == Len(list)
  <2>1. /\ new \in Seq(S \cup {info}) /\ DOMAIN new = 1..(n + 1)
        /\ new[n + 1] = info /\ \A i \in 1..n : new[i] = list[i]
    BY <1>1
  <2>2. n \in Nat /\ \A i : i \in 1..(n + 1) <=> i \in 1..n \/ i = n + 1
    BY <1>1
  <2>3. n + 1 \notin 1..n
    BY <2>2
  <2> HIDE DEF new, n
  <2>4. \A i \in 1..n : list[i].prn # info.prn
    BY <1>2 DEF n
  <2>5. /\ \A x \in S : \E k \in 1..n : list[k] = x
        /\ \A k, m \in 1..n : list[k].prn = list[m].prn => k = m
    BY <1>1 DEF ListsOnce, n
  <2>6. \A x \in S \cup {info} : \E k \in DOMAIN new : new[k] = x
    BY <2>1, <2>2, <2>5
  <2>7. \A k, m \in DOMAIN new : new[k].prn = new[m].prn => k = m
    <3> TAKE k, m \in DOMAIN new
    <3>1. CASE k = n + 1 /\ m = n + 1
      BY <3>1
    <3>2. CASE k \in 1..n /\ m \in 1..n
      BY <2>1, <2>5, <3>2
    <3>3. CASE k \in 1..n /\ m = n + 1
      BY <2>1, <2>4, <3>3
    <3>4. CASE k = n + 1 /\ m \in 1..n
      BY <2>1, <2>4, <3>4
    <3>5. QED
      BY <2>1, <2>2, <3>1, <3>2, <3>3, <3>4
  <2>8. ListsOnce(new, S \cup {info})
    BY <2>1, <2>6, <2>7 DEF ListsOnce
  <2>9. QED
    BY <1>2, <2>8 DEF new
<1>3. CASE \E k \in 1..Len(list) : /\ list[k].prn = info.prn
                                   /\ Renewed(list, info) = [list EXCEPT ![k] = info]
  <2>1. PICK k \in 1..Len(list) : /\ list[k].prn = info.prn
                                  /\ Renewed(list, info) = [list EXCEPT ![k] = info]
    BY <1>3
  <2>2. list[k] = info /\ info \in S
    BY <1>1, <2>1 DEF AllAgree
  <2>3. [list EXCEPT ![k] = info] = list /\ S \cup {info} = S
    BY <1>1, <2>1, <2>2
  <2>4. QED
    BY <2>1, <2>3
<1>4. QED
  BY <1>1, <1>2, <1>3, RenewedCases

Updating(f, n, infos, base, loc) ==
    /\ f[0] = base /\ \A i \in 1..n : f[i] = Renewed(f[i - 1], infos[i])
    /\ update_satellites_info(loc, infos) = [loc EXCEPT !.satellites_info = f[n]]

LEMMA UpdatesUnfold ==
  ASSUME NEW n \in Nat, NEW infos, DOMAIN infos = 1..n, NEW loc,
         NEW T, loc.satellites_info \in Seq(T)
  PROVE  \E f : Updating(f, n, infos, loc.satellites_info, loc)
<1> DEFINE base == loc.satellites_info
           S == T \cup {infos[i] : i \in 1..n}
           A == Seq(S)
           step == [i \in 1..n |-> [a \in A |-> Renewed(a, infos[i])]]
           Op(a, i) == Renewed(a, infos[i])
           Folds(g) == g = [s \in SUBSET (DOMAIN infos) |->
                            IF s = {} THEN base ELSE Op(g[s \ {Max(s)}], Max(s))]
<1>1. \E g : Folds(g)
  <2>1. \A i \in 1..n : \A a \in A : step[i][a] = Renewed(a, infos[i]) /\ step[i][a] \in A
    <3> TAKE i \in 1..n
    <3> TAKE a \in A
    <3>1. step[i][a] = Renewed(a, infos[i])
      OBVIOUS
    <3>2. infos[i] \in S /\ a \in Seq(S)
      OBVIOUS
    <3> HIDE DEF step, S
    <3>3. Renewed(a, infos[i]) \in Seq(S)
      BY <3>2, RenewedSeq
    <3>4. QED
      BY <3>1, <3>3
  <2>2. base \in A
    OBVIOUS
  <2>3. PICK it \in [SUBSET (1..n) -> A] : IsFold(it, n, base, step)
    <3>1. \A i \in 1..n : \A a \in A : step[i][a] \in A
      BY <2>1
    <3> HIDE DEF step, A, base
    <3>2. QED
      BY <3>1, <2>2, FoldExists
  <2> HIDE DEF step, A, base
  <2>4. ASSUME NEW s \in SUBSET (1..n), s # {}
        PROVE  step[Max(s)][it[s \ {Max(s)}]] = Op(it[s \ {Max(s)}], Max(s))
    <3>1. Max(s) \in 1..n /\ it[s \ {Max(s)}] \in A
      BY <2>4, GreatestExists
    <3>2. QED
      BY <2>1, <3>1
  <2> HIDE DEF Op
  <2>5. Folds(it)
    BY <2>3, <2>4 DEF IsFold
  <2>6. QED
    BY <2>5
<1>2. update_satellites_info(loc, infos) =
        [loc EXCEPT !.satellites_info = (CHOOSE g : Folds(g))[DOMAIN infos]]
  BY Zenon DEF update_satellites_info, FoldLeft, MapThenFoldSet
<1>3. \A a, i : Op(a, i) = Renewed(a, infos[i])
  OBVIOUS
<1> HIDE DEF Op, A, step, base
<1>4. PICK g : Folds(g) /\ update_satellites_info(loc, infos) = [loc EXCEPT !.satellites_info = g[1..n]]
  BY <1>1, <1>2
<1> DEFINE f == [i \in 0..n |-> g[1..i]]
<1>5. f[0] = base
  <2>1. 1..0 = {} /\ {} \in SUBSET (1..n)
    OBVIOUS
  <2>2. QED
    BY <1>4, <2>1
<1>6. ASSUME NEW i \in 1..n PROVE f[i] = Renewed(f[i - 1], infos[i])
  <2>1. 1..i \in SUBSET (1..n) /\ Max(1..i) = i /\ (1..i) \ {i} = 1..(i - 1) /\ 1..i # {}
    <3>1. i \in Nat /\ i # 0 /\ \A x \in 1..i : x \in 1..n
      OBVIOUS
    <3>2. QED
      BY <3>1, MaxUpTo
  <2>2. g[1..i] = Op(g[1..(i - 1)], i)
    <3>1. \A t \in SUBSET (1..n) : t # {} => g[t] = Op(g[t \ {Max(t)}], Max(t))
      BY <1>4
    <3>2. g[1..i] = Op(g[(1..i) \ {Max(1..i)}], Max(1..i))
      BY <2>1, <3>1
    <3>3. QED
      BY <2>1, <3>2, Zenon
  <2>3. f[i] = g[1..i] /\ f[i - 1] = g[1..(i - 1)]
    OBVIOUS
  <2>4. QED
    BY <1>3, <2>2, <2>3, Zenon
<1>7. f[n] = g[1..n]
  OBVIOUS
<1> HIDE DEF f
<1>8. Updating(f, n, infos, base, loc)
  BY <1>4, <1>5, <1>6, <1>7, Zenon DEF Updating
<1>9. QED
  BY <1>8, Zenon DEF base

(* If no two of them are about the same satellite and differ, each of them *)
(* is there in the end, in whatever order.                                 *)
With(T, infos) == T \cup {infos[k] : k \in DOMAIN infos}

LEMMA UpdatesAdd ==
  ASSUME NEW infos, IsSequence(infos), NEW loc, NEW T,
         ListsOnce(loc.satellites_info, T), AllAgree(With(T, infos))
  PROVE  \E list : /\ ListsOnce(list, With(T, infos))
                   /\ update_satellites_info(loc, infos) = [loc EXCEPT !.satellites_info = list]
<1> DEFINE base == loc.satellites_info
           Upto(k) == T \cup {infos[i] : i \in 1..k}
<1>0. PICK n \in Nat : DOMAIN infos = 1..n
  BY DEF IsSequence
<1>1. PICK f : Updating(f, n, infos, base, loc)
  BY <1>0, UpdatesUnfold DEF ListsOnce
<1> DEFINE S == {k \in 0..n : ListsOnce(f[k], Upto(k))}
<1>2. 0 \in S
  <2>1. \A x \in 1..0 : FALSE
    OBVIOUS
  <2>2. Upto(0) = T
    BY <2>1
  <2>3. f[0] = base
    BY <1>1 DEF Updating
  <2> HIDE DEF base, Upto
  <2>4. ListsOnce(f[0], Upto(0))
    BY <2>2, <2>3 DEF base
  <2>5. QED
    BY <2>4
<1>3. ASSUME NEW k \in 0..(n - 1), k \in S PROVE k + 1 \in S
  <2>1. k + 1 \in 1..n /\ (k + 1) - 1 = k /\ k \in Nat
    OBVIOUS
  <2>2. f[k + 1] = Renewed(f[k], infos[k + 1])
    BY <1>1, <2>1, Zenon DEF Updating
  <2>3. ListsOnce(f[k], Upto(k))
    BY <1>3
  <2>4. \A i : i \in 1..(k + 1) <=> i \in 1..k \/ i = k + 1
    BY <2>1
  <2>5. Upto(k + 1) = Upto(k) \cup {infos[k + 1]}
    BY <2>4
  <2>6. Upto(k) \cup {infos[k + 1]} \subseteq With(T, infos)
    BY <1>0, <2>1 DEF With
  <2>7. AllAgree(Upto(k) \cup {infos[k + 1]})
    <3> HIDE DEF Upto
    <3>1. QED
      BY <2>6, Zenon DEF AllAgree
  <2> HIDE DEF Upto
  <2>8. ListsOnce(Renewed(f[k], infos[k + 1]), Upto(k) \cup {infos[k + 1]})
    BY <2>3, <2>7, RenewedLists
  <2>9. ListsOnce(f[k + 1], Upto(k + 1))
    BY <2>2, <2>5, <2>8
  <2>10. k + 1 \in 0..n
    BY <2>1
  <2>11. QED
    BY <2>9, <2>10
<1>4. n \in S
  <2> HIDE DEF S
  <2>1. 0..n \subseteq S
    BY <1>2, <1>3, UpToInduction
  <2>2. QED
    BY <2>1
<1>5. ListsOnce(f[n], Upto(n)) /\ Upto(n) = With(T, infos)
  BY <1>0, <1>4 DEF With
<1>6. QED
  BY <1>1, <1>5, Zenon DEF Updating

(* What a Location says of the sentences whose numbers are in I.           *)
Of(fix, I, type) == {i \in I : fix[i].type = type}
Placed(fix, I) == {i \in Of(fix, I, "RMC") : fix[i].longitude # <<>>}
Counts(fix, I) == {fix[i].satellites[1] : i \in Of(fix, I, "GGA")}
                  \cup {OrZero(fix[i].satellites) : i \in Of(fix, I, "GSV")}
Infos(fix, I) == UNION {{fix[i].infos[k] : k \in DOMAIN fix[i].infos} : i \in Of(fix, I, "GSV")}

IsLoc(l, latitude, longitude, altitude, speed, heading, timestamp, satellites, fix_type,
      pdop, hdop, vdop, satellites_info) ==
    l = [latitude |-> latitude, longitude |-> longitude, altitude |-> altitude, speed |-> speed,
         heading |-> heading, timestamp |-> timestamp, satellites |-> satellites,
         fix_type |-> fix_type, pdop |-> pdop, hdop |-> hdop, vdop |-> vdop,
         satellites_info |-> satellites_info]

IsLocation(l) == IsLoc(l, l.latitude, l.longitude, l.altitude, l.speed, l.heading, l.timestamp,
                       l.satellites, l.fix_type, l.pdop, l.hdop, l.vdop, l.satellites_info)

Locates(fix, I, loc) ==
    /\ IsLocation(loc)
    /\ \A i \in Of(fix, I, "GGA") :
          loc.altitude = OrZero(fix[i].altitude) /\ loc.hdop = Dilution(fix[i].hdop)
    /\ Of(fix, I, "GGA") = {} => loc.altitude = DefaultLocation.altitude /\ loc.hdop = DefaultLocation.hdop
    /\ \A i \in Of(fix, I, "RMC") : /\ loc.timestamp = fix[i].time[1] /\ loc.speed = OrZero(fix[i].speed)
                                    /\ loc.heading = OrZero(fix[i].heading)
    /\ Of(fix, I, "RMC") = {} => /\ loc.timestamp = DefaultLocation.timestamp
                                 /\ loc.speed = DefaultLocation.speed
                                 /\ loc.heading = DefaultLocation.heading
    /\ \A i \in Placed(fix, I) :
          /\ loc.latitude = Signed(Degrees(fix[i].latitude[1]), fix[i].ns)
          /\ loc.longitude = Signed(Degrees(fix[i].longitude[1]), fix[i].ew)
    /\ Placed(fix, I) = {} => /\ loc.latitude = DefaultLocation.latitude
                            /\ loc.longitude = DefaultLocation.longitude
    /\ \A i \in Of(fix, I, "GSA") :
          /\ loc.fix_type = OrZero(fix[i].fix_type) /\ loc.pdop = Dilution(fix[i].pdop)
          /\ loc.vdop = Dilution(fix[i].vdop)
    /\ Of(fix, I, "GSA") = {} => /\ loc.fix_type = DefaultLocation.fix_type
                                 /\ loc.pdop = DefaultLocation.pdop /\ loc.vdop = DefaultLocation.vdop
    /\ loc.satellites \in Int /\ loc.satellites \in Counts(fix, I) \cup {0}
    /\ \A n \in Counts(fix, I) \cup {0} : n <= loc.satellites
    /\ Counts(fix, I) \subseteq Int /\ ListsOnce(loc.satellites_info, Infos(fix, I))

(* Locations field by field.                                               *)
LEMMA LocHas ==
  ASSUME NEW loc, NEW a, NEW b, NEW c, NEW d, NEW e, NEW f, NEW g, NEW h, NEW i, NEW j, NEW k, NEW
         l,
         IsLoc(loc, a, b, c, d, e, f, g, h, i, j, k, l)
  PROVE  /\ loc.latitude = a /\ loc.longitude = b /\ loc.altitude = c /\ loc.speed = d
         /\ loc.heading = e /\ loc.timestamp = f /\ loc.satellites = g /\ loc.fix_type = h
         /\ loc.pdop = i /\ loc.hdop = j /\ loc.vdop = k /\ loc.satellites_info = l
BY SMT DEF IsLoc

LEMMA LocWith ==
  ASSUME NEW loc, NEW a, NEW b, NEW c, NEW d, NEW e, NEW f, NEW g, NEW h, NEW i, NEW j, NEW k, NEW
         l, NEW m,
         IsLoc(loc, a, b, c, d, e, f, g, h, i, j, k, l)
  PROVE  /\ IsLoc([loc EXCEPT !.latitude = m], m, b, c, d, e, f, g, h, i, j, k, l)
         /\ IsLoc([loc EXCEPT !.longitude = m], a, m, c, d, e, f, g, h, i, j, k, l)
         /\ IsLoc([loc EXCEPT !.altitude = m], a, b, m, d, e, f, g, h, i, j, k, l)
         /\ IsLoc([loc EXCEPT !.speed = m], a, b, c, m, e, f, g, h, i, j, k, l)
         /\ IsLoc([loc EXCEPT !.heading = m], a, b, c, d, m, f, g, h, i, j, k, l)
         /\ IsLoc([loc EXCEPT !.timestamp = m], a, b, c, d, e, m, g, h, i, j, k, l)
         /\ IsLoc([loc EXCEPT !.satellites = m], a, b, c, d, e, f, m, h, i, j, k, l)
         /\ IsLoc([loc EXCEPT !.fix_type = m], a, b, c, d, e, f, g, m, i, j, k, l)
         /\ IsLoc([loc EXCEPT !.pdop = m], a, b, c, d, e, f, g, h, m, j, k, l)
         /\ IsLoc([loc EXCEPT !.hdop = m], a, b, c, d, e, f, g, h, i, m, k, l)
         /\ IsLoc([loc EXCEPT !.vdop = m], a, b, c, d, e, f, g, h, i, j, m, l)
         /\ IsLoc([loc EXCEPT !.satellites_info = m], a, b, c, d, e, f, g, h, i, j, k, m)
BY SMT DEF IsLoc

(* Nothing else: two such Locations are equal, but for the order in which  *)
(* they list the satellites.                                               *)
LEMMA ListsAll ==
  ASSUME NEW list, NEW S, ListsOnce(list, S) PROVE ToSet(list) = S
<1>1. /\ list \in Seq(S) /\ \A i \in DOMAIN list : list[i] \in S
      /\ \A x \in S : \E k \in DOMAIN list : list[k] = x
  BY DEF ListsOnce
<1>2. QED
  BY <1>1 DEF ToSet

LEMMA LocatesOnce ==
  ASSUME NEW fix, NEW I, NEW a, Locates(fix, I, a), NEW b, Locates(fix, I, b)
  PROVE  [a EXCEPT !.satellites_info = ToSet(@)] = [b EXCEPT !.satellites_info = ToSet(@)]
<1>1. a.altitude = b.altitude /\ a.hdop = b.hdop
  BY DEF Locates
<1>2. a.timestamp = b.timestamp /\ a.speed = b.speed /\ a.heading = b.heading
  BY DEF Locates
<1>3. a.latitude = b.latitude /\ a.longitude = b.longitude
  BY DEF Locates
<1>4. a.fix_type = b.fix_type /\ a.pdop = b.pdop /\ a.vdop = b.vdop
  BY DEF Locates
<1>5. a.satellites = b.satellites
  <2>1. /\ a.satellites \in Int /\ b.satellites \in Int
        /\ a.satellites <= b.satellites /\ b.satellites <= a.satellites
    BY DEF Locates
  <2>2. QED
    BY <2>1
<1>6. ToSet(a.satellites_info) = ToSet(b.satellites_info)
  BY ListsAll DEF Locates
<1>7. IsLocation(a) /\ IsLocation(b)
  BY DEF Locates
<1> DEFINE listed == ToSet(a.satellites_info)
<1>8. /\ IsLoc([a EXCEPT !.satellites_info = listed], a.latitude, a.longitude, a.altitude, a.speed,
               a.heading, a.timestamp, a.satellites, a.fix_type, a.pdop, a.hdop, a.vdop, listed)
      /\ IsLoc([b EXCEPT !.satellites_info = listed], b.latitude, b.longitude, b.altitude, b.speed,
               b.heading, b.timestamp, b.satellites, b.fix_type, b.pdop, b.hdop, b.vdop, listed)
  <2> HIDE DEF listed
  <2>1. QED
    BY <1>7, LocWith DEF IsLocation
<1>9. [a EXCEPT !.satellites_info = listed] = [b EXCEPT !.satellites_info = listed]
  <2> HIDE DEF listed
  <2>1. QED
    BY <1>1, <1>2, <1>3, <1>4, <1>5, <1>8, Zenon DEF IsLoc
<1>10. QED
  BY <1>6, <1>9

LEMMA MaxOfTwo ==
  ASSUME NEW a \in Int, NEW b \in Int
  PROVE  /\ Max({a, b}) \in Int /\ Max({a, b}) \in {a, b}
         /\ a <= Max({a, b}) /\ b <= Max({a, b})
<1>1. \E x \in {a, b} : \A y \in {a, b} : x >= y
  BY a <= b \/ b <= a
<1>2. Max({a, b}) \in {a, b} /\ \A y \in {a, b} : Max({a, b}) >= y
  BY <1>1 DEF Max
<1>3. QED
  BY <1>2

(* What Coherent() says of two sentences, and of one.                      *)
LEMMA CoherentTypes ==
  ASSUME NEW fix, Coherent(fix)
  PROVE  /\ IsSequence(fix)
         /\ \A i \in DOMAIN fix : /\ fix[i].type = "GGA" => IsColumn(fix[i].satellites)
                                  /\ fix[i].type = "GSV" => IsColumn(fix[i].satellites)
                                  /\ fix[i].type = "GSV" => IsSequence(fix[i].infos)
BY Zenon DEF Coherent

LEMMA CoherentSame ==
  ASSUME NEW fix, Coherent(fix), NEW i \in DOMAIN fix, NEW j \in DOMAIN fix,
         fix[i].type = fix[j].type, fix[i].type # "GSV"
  PROVE  fix[i] = fix[j]
BY Zenon DEF Coherent

LEMMA CoherentInfos ==
  ASSUME NEW fix, Coherent(fix) PROVE AllAgree(Infos(fix, DOMAIN fix))
<1>1. ASSUME NEW i \in DOMAIN fix, NEW j \in DOMAIN fix, fix[i].type = "GSV", fix[j].type = "GSV",
             NEW k \in DOMAIN fix[i].infos, NEW m \in DOMAIN fix[j].infos,
             fix[i].infos[k].prn = fix[j].infos[m].prn
      PROVE  fix[i].infos[k] = fix[j].infos[m]
  BY <1>1, Zenon DEF Coherent
<1>2. QED
  BY <1>1 DEF AllAgree, Infos, Of

LEMMA OrZeroTyped == \A c : IsColumn(c) => OrZero(c) \in Int
BY DEF IsColumn, OrZero

(* A GGA sentence that is taken has its number of satellites.             *)
LEMMA CountTyped ==
  ASSUME NEW fix, Coherent(fix), NEW i \in DOMAIN fix, fix[i].type = "GGA", ~Rejected(fix[i])
  PROVE  fix[i].satellites[1] \in Int
<1>1. IsColumn(fix[i].satellites)
  BY CoherentTypes
<1>2. fix[i].satellites # <<>>
  BY DEF Rejected
<1>3. QED
  BY <1>1, <1>2 DEF IsColumn

(* One number more.                                                        *)
LEMMA OfMore ==
  ASSUME NEW fix, NEW I, NEW i, NEW type
  PROVE  Of(fix, I \cup {i}, type) = IF fix[i].type = type THEN Of(fix, I, type) \cup {i} ELSE Of(fix, I, type)
BY DEF Of

LEMMA PlacedMore ==
  ASSUME NEW fix, NEW I, NEW i
  PROVE  Placed(fix, I \cup {i}) = IF fix[i].type = "RMC" /\ fix[i].longitude # <<>>
                                   THEN Placed(fix, I) \cup {i} ELSE Placed(fix, I)
BY DEF Of, Placed

LEMMA CountsMore ==
  ASSUME NEW fix, NEW I, NEW i
  PROVE  Counts(fix, I \cup {i}) =
            Counts(fix, I) \cup (IF fix[i].type = "GGA" THEN {fix[i].satellites[1]}
                                 ELSE IF fix[i].type = "GSV" THEN {OrZero(fix[i].satellites)} ELSE {})
BY DEF Of, Counts

LEMMA InfosMore ==
  ASSUME NEW fix, NEW I, NEW i
  PROVE  Infos(fix, I \cup {i}) =
            Infos(fix, I) \cup (IF fix[i].type = "GSV" THEN {fix[i].infos[k] : k \in DOMAIN fix[i].infos}
                                ELSE {})
BY DEF Of, Infos

(* One sentence, taken or not.                                             *)
LEMMA SentenceOf ==
  ASSUME NEW loc, NEW s, ~Rejected(s)
  PROVE  Sentence(<<loc>>, s) = << IF s.type = "GGA" THEN Gga(loc, s) ELSE IF s.type = "RMC" THEN Rmc(loc, s)
                                   ELSE IF s.type = "GSA" THEN Gsa(loc, s) ELSE Gsv(loc, s) >>
<1>1. <<loc>> # <<>> /\ <<loc>>[1] = loc
  OBVIOUS
<1>2. s.type \in {"GGA", "RMC", "GSA", "GSV"}
  BY DEF Rejected
<1>3. QED
  BY <1>1, <1>2 DEF Sentence

LEMMA SentenceOfNone ==
  ASSUME NEW s PROVE Sentence(<<>>, s) = <<>>
BY DEF Sentence

LEMMA SentenceRejected ==
  ASSUME NEW x, NEW s, Rejected(s) PROVE Sentence(x, s) = <<>>
BY DEF Sentence

LEMMA LocatesDefault ==
  ASSUME NEW fix PROVE Locates(fix, {}, DefaultLocation)
<1>1. \A type : Of(fix, {}, type) = {}
  BY DEF Of
<1>2. Placed(fix, {}) = {} /\ Counts(fix, {}) = {} /\ Infos(fix, {}) = {}
  BY <1>1 DEF Placed, Counts, Infos
<1> DEFINE d == DefaultLocation
<1>3. /\ d.satellites = 0 /\ d.satellites_info = <<>> /\ IsLocation(d)
  BY SMT DEF IsLoc, IsLocation, DefaultLocation
<1>4. ListsOnce(<<>>, {})
  BY DEF ListsOnce
<1>5. Counts(fix, {}) \subseteq Int /\ ListsOnce(d.satellites_info, Infos(fix, {}))
  BY <1>2, <1>3, <1>4
<1>6. QED
  BY <1>1, <1>2, <1>3, <1>5, SMT DEF Locates

LEMMA GgaLoc ==
  ASSUME NEW loc, NEW s,
         IsLocation(loc)
  PROVE  IsLoc(Gga(loc, s), loc.latitude, loc.longitude, OrZero(s.altitude), loc.speed, loc.heading,
               loc.timestamp, Max({loc.satellites, s.satellites[1]}), loc.fix_type, loc.pdop,
               Dilution(s.hdop), loc.vdop, loc.satellites_info)
<1> DEFINE next1 == [loc EXCEPT !.satellites = Max({loc.satellites, s.satellites[1]})]
           next2 == [next1 EXCEPT !.altitude = OrZero(s.altitude)]
           next3 == [next2 EXCEPT !.hdop = Dilution(s.hdop)]
<1>1. IsLoc(next1, loc.latitude, loc.longitude, loc.altitude, loc.speed, loc.heading, loc.timestamp,
            Max({loc.satellites, s.satellites[1]}), loc.fix_type, loc.pdop, loc.hdop, loc.vdop,
            loc.satellites_info)
  BY LocWith DEF IsLocation
<1>2. IsLoc(next2, loc.latitude, loc.longitude, OrZero(s.altitude), loc.speed, loc.heading,
            loc.timestamp, Max({loc.satellites, s.satellites[1]}), loc.fix_type, loc.pdop, loc.hdop,
            loc.vdop, loc.satellites_info)
  <2> HIDE DEF next1
  <2>1. QED
    BY <1>1, LocWith
<1>3. IsLoc(next3, loc.latitude, loc.longitude, OrZero(s.altitude), loc.speed, loc.heading,
            loc.timestamp, Max({loc.satellites, s.satellites[1]}), loc.fix_type, loc.pdop,
            Dilution(s.hdop), loc.vdop, loc.satellites_info)
  <2> HIDE DEF next1, next2
  <2>1. QED
    BY <1>2, LocWith
<1>4. Gga(loc, s) = next3
  BY Zenon DEF Gga, Satellites
<1> HIDE DEF next1, next2, next3
<1>5. QED
  BY <1>3, <1>4

LEMMA GsaLoc ==
  ASSUME NEW loc, NEW s,
         IsLocation(loc)
  PROVE  IsLoc(Gsa(loc, s), loc.latitude, loc.longitude, loc.altitude, loc.speed, loc.heading,
               loc.timestamp, loc.satellites, OrZero(s.fix_type), Dilution(s.pdop), loc.hdop,
               Dilution(s.vdop), loc.satellites_info)
<1> DEFINE next1 == [loc EXCEPT !.fix_type = OrZero(s.fix_type)]
           next2 == [next1 EXCEPT !.pdop = Dilution(s.pdop)]
           next3 == [next2 EXCEPT !.vdop = Dilution(s.vdop)]
<1>1. IsLoc(next1, loc.latitude, loc.longitude, loc.altitude, loc.speed, loc.heading, loc.timestamp,
            loc.satellites, OrZero(s.fix_type), loc.pdop, loc.hdop, loc.vdop, loc.satellites_info)
  BY LocWith DEF IsLocation
<1>2. IsLoc(next2, loc.latitude, loc.longitude, loc.altitude, loc.speed, loc.heading, loc.timestamp,
            loc.satellites, OrZero(s.fix_type), Dilution(s.pdop), loc.hdop, loc.vdop,
            loc.satellites_info)
  <2> HIDE DEF next1
  <2>1. QED
    BY <1>1, LocWith
<1>3. IsLoc(next3, loc.latitude, loc.longitude, loc.altitude, loc.speed, loc.heading, loc.timestamp,
            loc.satellites, OrZero(s.fix_type), Dilution(s.pdop), loc.hdop, Dilution(s.vdop),
            loc.satellites_info)
  <2> HIDE DEF next1, next2
  <2>1. QED
    BY <1>2, LocWith
<1>4. Gsa(loc, s) = next3
  BY Zenon DEF Gsa
<1> HIDE DEF next1, next2, next3
<1>5. QED
  BY <1>3, <1>4

LEMMA RmcTimedLoc ==
  ASSUME NEW loc, NEW s, s.longitude = <<>>,
         IsLocation(loc)
  PROVE  IsLoc(Rmc(loc, s), loc.latitude, loc.longitude, loc.altitude, OrZero(s.speed),
               OrZero(s.heading), s.time[1], loc.satellites, loc.fix_type, loc.pdop, loc.hdop,
               loc.vdop, loc.satellites_info)
<1> DEFINE next1 == [loc EXCEPT !.timestamp = s.time[1]]
           next2 == [next1 EXCEPT !.speed = OrZero(s.speed)]
           next3 == [next2 EXCEPT !.heading = OrZero(s.heading)]
<1>1. IsLoc(next1, loc.latitude, loc.longitude, loc.altitude, loc.speed, loc.heading, s.time[1],
            loc.satellites, loc.fix_type, loc.pdop, loc.hdop, loc.vdop, loc.satellites_info)
  BY LocWith DEF IsLocation
<1>2. IsLoc(next2, loc.latitude, loc.longitude, loc.altitude, OrZero(s.speed), loc.heading, s.time[1],
            loc.satellites, loc.fix_type, loc.pdop, loc.hdop, loc.vdop, loc.satellites_info)
  <2> HIDE DEF next1
  <2>1. QED
    BY <1>1, LocWith
<1>3. IsLoc(next3, loc.latitude, loc.longitude, loc.altitude, OrZero(s.speed), OrZero(s.heading),
            s.time[1], loc.satellites, loc.fix_type, loc.pdop, loc.hdop, loc.vdop, loc.satellites_info)
  <2> HIDE DEF next1, next2
  <2>1. QED
    BY <1>2, LocWith
<1>4. Rmc(loc, s) = next3
  BY Zenon DEF Rmc
<1> HIDE DEF next1, next2, next3
<1>5. QED
  BY <1>3, <1>4

LEMMA RmcPlacedLoc ==
  ASSUME NEW loc, NEW s, s.longitude # <<>>,
         IsLocation(loc)
  PROVE  IsLoc(Rmc(loc, s), Signed(Degrees(s.latitude[1]), s.ns), Signed(Degrees(s.longitude[1]),
               s.ew), loc.altitude, OrZero(s.speed), OrZero(s.heading), s.time[1], loc.satellites,
               loc.fix_type, loc.pdop, loc.hdop, loc.vdop, loc.satellites_info)
<1> DEFINE next1 == [loc EXCEPT !.timestamp = s.time[1]]
           next2 == [next1 EXCEPT !.speed = OrZero(s.speed)]
           next3 == [next2 EXCEPT !.heading = OrZero(s.heading)]
           next4 == [next3 EXCEPT !.latitude = Signed(Degrees(s.latitude[1]), s.ns)]
           next5 == [next4 EXCEPT !.longitude = Signed(Degrees(s.longitude[1]), s.ew)]
<1>1. IsLoc(next1, loc.latitude, loc.longitude, loc.altitude, loc.speed, loc.heading, s.time[1],
            loc.satellites, loc.fix_type, loc.pdop, loc.hdop, loc.vdop, loc.satellites_info)
  BY LocWith DEF IsLocation
<1>2. IsLoc(next2, loc.latitude, loc.longitude, loc.altitude, OrZero(s.speed), loc.heading, s.time[1],
            loc.satellites, loc.fix_type, loc.pdop, loc.hdop, loc.vdop, loc.satellites_info)
  <2> HIDE DEF next1
  <2>1. QED
    BY <1>1, LocWith
<1>3. IsLoc(next3, loc.latitude, loc.longitude, loc.altitude, OrZero(s.speed), OrZero(s.heading),
            s.time[1], loc.satellites, loc.fix_type, loc.pdop, loc.hdop, loc.vdop, loc.satellites_info)
  <2> HIDE DEF next1, next2
  <2>1. QED
    BY <1>2, LocWith
<1>4. IsLoc(next4, Signed(Degrees(s.latitude[1]), s.ns), loc.longitude, loc.altitude,
            OrZero(s.speed), OrZero(s.heading), s.time[1], loc.satellites, loc.fix_type, loc.pdop,
            loc.hdop, loc.vdop, loc.satellites_info)
  <2> HIDE DEF next1, next2, next3
  <2>1. QED
    BY <1>3, LocWith
<1>5. IsLoc(next5, Signed(Degrees(s.latitude[1]), s.ns), Signed(Degrees(s.longitude[1]), s.ew),
            loc.altitude, OrZero(s.speed), OrZero(s.heading), s.time[1], loc.satellites, loc.fix_type,
            loc.pdop, loc.hdop, loc.vdop, loc.satellites_info)
  <2> HIDE DEF next1, next2, next3, next4
  <2>1. QED
    BY <1>4, LocWith
<1>6. Rmc(loc, s) = next5
  BY Zenon DEF Rmc
<1> HIDE DEF next1, next2, next3, next4, next5
<1>7. QED
  BY <1>5, <1>6

LEMMA GsvLoc ==
  ASSUME NEW loc, NEW s, NEW infos, IsLocation(loc),
         update_satellites_info(loc, s.infos) = [loc EXCEPT !.satellites_info = infos]
  PROVE  IsLoc(Gsv(loc, s), loc.latitude, loc.longitude, loc.altitude, loc.speed, loc.heading,
               loc.timestamp, Max({loc.satellites, OrZero(s.satellites)}), loc.fix_type, loc.pdop,
               loc.hdop, loc.vdop, infos)
<1> DEFINE next1 == update_satellites_info(loc, s.infos)
           next2 == [next1 EXCEPT !.satellites = Max({next1.satellites, OrZero(s.satellites)})]
<1>1. IsLoc(next1, loc.latitude, loc.longitude, loc.altitude, loc.speed, loc.heading, loc.timestamp,
            loc.satellites, loc.fix_type, loc.pdop, loc.hdop, loc.vdop, infos)
  <2> HIDE DEF next1
  <2>1. next1 = [loc EXCEPT !.satellites_info = infos]
    BY DEF next1
  <2>2. IsLoc([loc EXCEPT !.satellites_info = infos], loc.latitude, loc.longitude, loc.altitude,
              loc.speed,
              loc.heading, loc.timestamp, loc.satellites, loc.fix_type, loc.pdop, loc.hdop,
         loc.vdop, infos)
    BY LocWith DEF IsLocation
  <2>3. QED
    BY <2>1, <2>2, Zenon
<1>2. Gsv(loc, s) = next2
  BY Zenon DEF Gsv, Satellites
<1> HIDE DEF next1
<1>3. next1.satellites = loc.satellites
  BY <1>1, LocHas
<1>4. IsLoc(next2, loc.latitude, loc.longitude, loc.altitude, loc.speed, loc.heading, loc.timestamp,
            Max({loc.satellites, OrZero(s.satellites)}), loc.fix_type, loc.pdop, loc.hdop, loc.vdop,
            infos)
  BY <1>1, <1>3, LocWith
<1> HIDE DEF next2
<1>5. QED
  BY <1>2, <1>4

(* A sentence more that agrees with the others: one case for each type.    *)
Joins(fix, I, i, loc) ==
    /\ Coherent(fix) /\ I \in SUBSET DOMAIN fix /\ i \in DOMAIN fix
    /\ Locates(fix, I, loc) /\ ~Rejected(fix[i])

LEMMA GgaJoins ==
  ASSUME NEW fix, NEW I, NEW i, NEW loc, Joins(fix, I, i, loc), fix[i].type = "GGA"
  PROVE  Locates(fix, I \cup {i}, Gga(loc, fix[i]))
<1> DEFINE s == fix[i]
           J == I \cup {i}
           next == Gga(loc, s)
           count == Max({loc.satellites, s.satellites[1]})
<1>1. /\ Coherent(fix) /\ I \in SUBSET DOMAIN fix /\ i \in DOMAIN fix /\ Locates(fix, I, loc)
      /\ IsLocation(loc) /\ s.type = "GGA" /\ s.satellites[1] \in Int
  BY CountTyped DEF Joins, Locates
<1>2. /\ \A type : type # "GGA" => Of(fix, J, type) = Of(fix, I, type)
      /\ Of(fix, J, "GGA") = Of(fix, I, "GGA") \cup {i}
  BY <1>1 DEF Of
<1>3. Placed(fix, J) = Placed(fix, I)
  BY <1>1, PlacedMore
<1>4. Counts(fix, J) = Counts(fix, I) \cup {s.satellites[1]}
  <2>1. Counts(fix, J) = Counts(fix, I)
            \cup (IF s.type = "GGA" THEN {s.satellites[1]}
                  ELSE IF s.type = "GSV" THEN {OrZero(s.satellites)} ELSE {})
    BY CountsMore
  <2>2. QED
    BY <1>1, <2>1
<1>5. Infos(fix, J) = Infos(fix, I)
  BY <1>1 DEF Infos, Of
<1>6. \A j \in Of(fix, J, "GGA") : fix[j] = s
  BY <1>1, <1>2, CoherentSame DEF Of
<1>7. IsLoc(next, loc.latitude, loc.longitude, OrZero(s.altitude), loc.speed,
                loc.heading, loc.timestamp, count, loc.fix_type,
                loc.pdop, Dilution(s.hdop), loc.vdop, loc.satellites_info)
  BY <1>1, GgaLoc
<1>8. /\ count \in Int /\ count \in {loc.satellites, s.satellites[1]}
      /\ loc.satellites <= count /\ s.satellites[1] <= count
  BY <1>1, MaxOfTwo DEF Locates
<1> HIDE DEF next, count, s, J
<1>9. /\ IsLocation(next)
      /\ next.latitude = loc.latitude /\ next.longitude = loc.longitude
      /\ next.altitude = OrZero(s.altitude) /\ next.speed = loc.speed /\ next.heading = loc.heading
      /\ next.timestamp = loc.timestamp /\ next.satellites = count /\ next.fix_type = loc.fix_type
      /\ next.pdop = loc.pdop /\ next.hdop = Dilution(s.hdop) /\ next.vdop = loc.vdop
      /\ next.satellites_info = loc.satellites_info
  BY <1>7, LocHas DEF IsLocation
<1>10. QED
  <2>1. \A n \in Counts(fix, J) \cup {0} : n <= count
    <3>1. \A n \in Counts(fix, I) \cup {0} : n \in Int /\ n <= loc.satellites
      BY <1>1 DEF Locates
    <3>2. QED
      BY <1>1, <1>4, <1>8, <3>1 DEF Locates
  <2>2. count \in Counts(fix, J) \cup {0}
    BY <1>1, <1>4, <1>8 DEF Locates
  <2>3. \A j \in Of(fix, J, "GGA") :
            next.altitude = OrZero(fix[j].altitude) /\ next.hdop = Dilution(fix[j].hdop)
    BY <1>6, <1>9
  <2>4. Of(fix, J, "GGA") # {}
    BY <1>2
  <2>5. /\ Of(fix, J, "RMC") = Of(fix, I, "RMC") /\ Of(fix, J, "GSA") = Of(fix, I, "GSA")
    BY <1>2
  <2>6. Counts(fix, J) \subseteq Int
    BY <1>1, <1>4 DEF Locates
  <2>7. Locates(fix, J, next)
    BY <1>1, <1>3, <1>5, <1>8, <1>9, <2>1, <2>2, <2>3, <2>4, <2>5, <2>6 DEF Locates
  <2>8. QED
    BY <2>7 DEF J, next, s

LEMMA GsaJoins ==
  ASSUME NEW fix, NEW I, NEW i, NEW loc, Joins(fix, I, i, loc), fix[i].type = "GSA"
  PROVE  Locates(fix, I \cup {i}, Gsa(loc, fix[i]))
<1> DEFINE s == fix[i]
           J == I \cup {i}
           next == Gsa(loc, s)
<1>1. /\ Coherent(fix) /\ I \in SUBSET DOMAIN fix /\ i \in DOMAIN fix /\ Locates(fix, I, loc)
      /\ IsLocation(loc) /\ s.type = "GSA"
  BY DEF Joins, Locates
<1>2. /\ \A type : type # "GSA" => Of(fix, J, type) = Of(fix, I, type)
      /\ Of(fix, J, "GSA") = Of(fix, I, "GSA") \cup {i}
  BY <1>1 DEF Of
<1>3. Placed(fix, J) = Placed(fix, I)
  BY <1>1, PlacedMore
<1>4. Counts(fix, J) = Counts(fix, I)
  <2>1. Counts(fix, J) = Counts(fix, I)
            \cup (IF s.type = "GGA" THEN {s.satellites[1]}
                  ELSE IF s.type = "GSV" THEN {OrZero(s.satellites)} ELSE {})
    BY CountsMore
  <2>2. QED
    BY <1>1, <2>1
<1>5. Infos(fix, J) = Infos(fix, I)
  BY <1>1 DEF Infos, Of
<1>6. \A j \in Of(fix, J, "GSA") : fix[j] = s
  BY <1>1, <1>2, CoherentSame DEF Of
<1>7. IsLoc(next, loc.latitude, loc.longitude, loc.altitude, loc.speed,
                loc.heading, loc.timestamp, loc.satellites, OrZero(s.fix_type),
                Dilution(s.pdop), loc.hdop, Dilution(s.vdop), loc.satellites_info)
  BY <1>1, GsaLoc
<1> HIDE DEF next, s, J
<1>8. /\ IsLocation(next)
      /\ next.latitude = loc.latitude /\ next.longitude = loc.longitude
      /\ next.altitude = loc.altitude /\ next.speed = loc.speed /\ next.heading = loc.heading
      /\ next.timestamp = loc.timestamp /\ next.satellites = loc.satellites
      /\ next.fix_type = OrZero(s.fix_type) /\ next.pdop = Dilution(s.pdop)
      /\ next.hdop = loc.hdop /\ next.vdop = Dilution(s.vdop)
      /\ next.satellites_info = loc.satellites_info
  BY <1>7, LocHas DEF IsLocation
<1>9. QED
  <2>1. \A j \in Of(fix, J, "GSA") :
            /\ next.fix_type = OrZero(fix[j].fix_type) /\ next.pdop = Dilution(fix[j].pdop)
            /\ next.vdop = Dilution(fix[j].vdop)
    BY <1>6, <1>8
  <2>2. Of(fix, J, "GSA") # {}
    BY <1>2
  <2>3. /\ Of(fix, J, "RMC") = Of(fix, I, "RMC") /\ Of(fix, J, "GGA") = Of(fix, I, "GGA")
    BY <1>2
  <2>4. Locates(fix, J, next)
    BY <1>1, <1>3, <1>4, <1>5, <1>8, <2>1, <2>2, <2>3 DEF Locates
  <2>5. QED
    BY <2>4 DEF J, next, s

LEMMA RmcJoins ==
  ASSUME NEW fix, NEW I, NEW i, NEW loc, Joins(fix, I, i, loc), fix[i].type = "RMC"
  PROVE  Locates(fix, I \cup {i}, Rmc(loc, fix[i]))
<1> DEFINE s == fix[i]
           J == I \cup {i}
           next == Rmc(loc, s)
           latitude == IF s.longitude = <<>> THEN loc.latitude ELSE Signed(Degrees(s.latitude[1]), s.ns)
           longitude == IF s.longitude = <<>> THEN loc.longitude ELSE Signed(Degrees(s.longitude[1]), s.ew)
<1>1. /\ Coherent(fix) /\ I \in SUBSET DOMAIN fix /\ i \in DOMAIN fix /\ Locates(fix, I, loc)
      /\ IsLocation(loc) /\ s.type = "RMC"
  BY DEF Joins, Locates
<1>2. /\ \A type : type # "RMC" => Of(fix, J, type) = Of(fix, I, type)
      /\ Of(fix, J, "RMC") = Of(fix, I, "RMC") \cup {i}
  BY <1>1 DEF Of
<1>3. Placed(fix, J) = IF s.longitude # <<>> THEN Placed(fix, I) \cup {i} ELSE Placed(fix, I)
  BY <1>1, PlacedMore
<1>4. Counts(fix, J) = Counts(fix, I)
  <2>1. Counts(fix, J) = Counts(fix, I)
            \cup (IF s.type = "GGA" THEN {s.satellites[1]}
                  ELSE IF s.type = "GSV" THEN {OrZero(s.satellites)} ELSE {})
    BY CountsMore
  <2>2. QED
    BY <1>1, <2>1
<1>5. Infos(fix, J) = Infos(fix, I)
  BY <1>1 DEF Infos, Of
<1>6. \A j \in Of(fix, J, "RMC") : fix[j] = s
  BY <1>1, <1>2, CoherentSame DEF Of
<1>7. \A j \in Placed(fix, J) : fix[j] = s
  BY <1>6 DEF Placed
<1>8. IsLoc(next, latitude, longitude, loc.altitude, OrZero(s.speed),
                OrZero(s.heading), s.time[1], loc.satellites, loc.fix_type,
                loc.pdop, loc.hdop, loc.vdop, loc.satellites_info)
  <2>1. CASE s.longitude = <<>>
    <3>1. latitude = loc.latitude /\ longitude = loc.longitude
      BY <2>1
    <3> HIDE DEF latitude, longitude
    <3>2. QED
      BY <1>1, <2>1, <3>1, RmcTimedLoc
  <2>2. CASE s.longitude # <<>>
    <3>1. /\ latitude = Signed(Degrees(s.latitude[1]), s.ns)
          /\ longitude = Signed(Degrees(s.longitude[1]), s.ew)
      BY <2>2
    <3> HIDE DEF latitude, longitude
    <3>2. QED
      BY <1>1, <2>2, <3>1, RmcPlacedLoc
  <2>3. QED
    BY <2>1, <2>2
<1>9. \A j \in Placed(fix, J) : /\ latitude = Signed(Degrees(fix[j].latitude[1]), fix[j].ns)
                                /\ longitude = Signed(Degrees(fix[j].longitude[1]), fix[j].ew)
  BY <1>7 DEF Placed
<1>10. Placed(fix, J) = {} => latitude = DefaultLocation.latitude /\ longitude = DefaultLocation.longitude
  <2>1. ASSUME Placed(fix, J) = {}
        PROVE  Placed(fix, I) = {} /\ latitude = loc.latitude /\ longitude = loc.longitude
    BY <1>3, <2>1
  <2> HIDE DEF latitude, longitude
  <2>2. QED
    BY <1>1, <2>1 DEF Locates
<1> HIDE DEF next, s, J, latitude, longitude
<1>11. /\ IsLocation(next)
      /\ next.latitude = latitude /\ next.longitude = longitude
      /\ next.altitude = loc.altitude /\ next.speed = OrZero(s.speed) /\ next.heading = OrZero(s.heading)
      /\ next.timestamp = s.time[1] /\ next.satellites = loc.satellites
      /\ next.fix_type = loc.fix_type /\ next.pdop = loc.pdop
      /\ next.hdop = loc.hdop /\ next.vdop = loc.vdop
      /\ next.satellites_info = loc.satellites_info
  BY <1>8, LocHas DEF IsLocation
<1>12. QED
  <2>1. \A j \in Of(fix, J, "RMC") :
            /\ next.timestamp = fix[j].time[1] /\ next.speed = OrZero(fix[j].speed)
            /\ next.heading = OrZero(fix[j].heading)
    BY <1>6, <1>11
  <2>2. Of(fix, J, "RMC") # {}
    BY <1>2
  <2>3. /\ Of(fix, J, "GSA") = Of(fix, I, "GSA") /\ Of(fix, J, "GGA") = Of(fix, I, "GGA")
    BY <1>2
  <2>4. Locates(fix, J, next)
    BY <1>1, <1>4, <1>5, <1>9, <1>10, <1>11, <2>1, <2>2, <2>3 DEF Locates
  <2>5. QED
    BY <2>4 DEF J, next, s

LEMMA GsvJoins ==
  ASSUME NEW fix, NEW I, NEW i, NEW loc, Joins(fix, I, i, loc), fix[i].type = "GSV"
  PROVE  Locates(fix, I \cup {i}, Gsv(loc, fix[i]))
<1> DEFINE s == fix[i]
           J == I \cup {i}
           next == Gsv(loc, s)
           n == OrZero(s.satellites)
           count == Max({loc.satellites, n})
           infos == Infos(fix, I) \cup {s.infos[k] : k \in DOMAIN s.infos}
<1>1. /\ Coherent(fix) /\ I \in SUBSET DOMAIN fix /\ i \in DOMAIN fix /\ Locates(fix, I, loc)
      /\ IsLocation(loc) /\ s.type = "GSV"
  BY DEF Joins, Locates
<1>2. \A type : type # "GSV" => Of(fix, J, type) = Of(fix, I, type)
  BY <1>1 DEF Of
<1>3. Placed(fix, J) = Placed(fix, I)
  BY <1>1, PlacedMore
<1>4. Counts(fix, J) = Counts(fix, I) \cup {n}
  <2>1. Counts(fix, J) = Counts(fix, I)
            \cup (IF s.type = "GGA" THEN {s.satellites[1]}
                  ELSE IF s.type = "GSV" THEN {OrZero(s.satellites)} ELSE {})
    BY CountsMore
  <2>2. QED
    BY <1>1, <2>1
<1>5. Infos(fix, J) = infos
  <2>1. Infos(fix, J) = Infos(fix, I) \cup {s.infos[k] : k \in DOMAIN s.infos}
    BY <1>1 DEF Infos, Of
  <2>2. QED
    BY <1>1, <2>1 DEF Locates
<1>6. n \in Int /\ IsSequence(s.infos)
  BY <1>1, CoherentTypes, OrZeroTyped
<1>7. PICK list : /\ ListsOnce(list, infos)
                  /\ update_satellites_info(loc, s.infos) = [loc EXCEPT !.satellites_info = list]
  <2>1. AllAgree(infos)
    <3>1. Infos(fix, J) \subseteq Infos(fix, DOMAIN fix)
      BY <1>1 DEF Infos, Of
    <3>2. AllAgree(Infos(fix, DOMAIN fix))
      BY <1>1, CoherentInfos
    <3> HIDE DEF infos, J, s
    <3>3. QED
      BY <1>5, <3>1, <3>2 DEF AllAgree
  <2> DEFINE T == Infos(fix, I)
             these == s.infos
  <2>2. infos = With(T, these)
    BY DEF With
  <2>3. ListsOnce(loc.satellites_info, T) /\ IsSequence(these)
    BY <1>1, <1>6 DEF Locates
  <2> HIDE DEF s, infos, T
  <2>4. \E list : /\ ListsOnce(list, infos)
                  /\ update_satellites_info(loc, these) = [loc EXCEPT !.satellites_info = list]
    <3> HIDE DEF these
    <3>1. QED
      BY <2>1, <2>2, <2>3, UpdatesAdd
  <2>5. QED
    BY <2>4 DEF these
<1>8. IsLoc(next, loc.latitude, loc.longitude, loc.altitude, loc.speed,
                loc.heading, loc.timestamp, count, loc.fix_type,
                loc.pdop, loc.hdop, loc.vdop, list)
  <2> HIDE DEF infos
  <2>1. QED
    BY <1>1, <1>7, GsvLoc
<1>9. /\ count \in Int /\ count \in {loc.satellites, n} /\ loc.satellites <= count /\ n <= count
  BY <1>1, <1>6, MaxOfTwo DEF Locates
<1> HIDE DEF next, s, J, n, count, infos
<1>10. /\ IsLocation(next)
      /\ next.latitude = loc.latitude /\ next.longitude = loc.longitude
      /\ next.altitude = loc.altitude /\ next.speed = loc.speed /\ next.heading = loc.heading
      /\ next.timestamp = loc.timestamp /\ next.satellites = count
      /\ next.fix_type = loc.fix_type /\ next.pdop = loc.pdop
      /\ next.hdop = loc.hdop /\ next.vdop = loc.vdop /\ next.satellites_info = list
  BY <1>8, LocHas DEF IsLocation
<1>11. QED
  <2>1. \A m \in Counts(fix, J) \cup {0} : m <= count
    <3>1. \A m \in Counts(fix, I) \cup {0} : m \in Int /\ m <= loc.satellites
      BY <1>1 DEF Locates
    <3>2. QED
      BY <1>1, <1>4, <1>6, <1>9, <3>1 DEF Locates
  <2>2. count \in Counts(fix, J) \cup {0}
    BY <1>1, <1>4, <1>9 DEF Locates
  <2>3. /\ Of(fix, J, "RMC") = Of(fix, I, "RMC") /\ Of(fix, J, "GGA") = Of(fix, I, "GGA")
        /\ Of(fix, J, "GSA") = Of(fix, I, "GSA")
    BY <1>2
  <2>4. Counts(fix, J) \subseteq Int /\ ListsOnce(next.satellites_info, Infos(fix, J))
    BY <1>1, <1>4, <1>5, <1>6, <1>7, <1>10 DEF Locates
  <2>5. Locates(fix, J, next)
    BY <1>1, <1>3, <1>9, <1>10, <2>1, <2>2, <2>3, <2>4 DEF Locates
  <2>6. QED
    BY <2>5 DEF J, next, s

LEMMA SentenceJoins ==
  ASSUME NEW fix, NEW I, NEW i, NEW loc, Joins(fix, I, i, loc)
  PROVE  \E next : Sentence(<<loc>>, fix[i]) = <<next>> /\ Locates(fix, I \cup {i}, next)
<1>1. ~Rejected(fix[i]) /\ fix[i].type \in {"GGA", "RMC", "GSA", "GSV"}
  BY DEF Joins, Rejected
<1>2. CASE fix[i].type = "GGA"
  BY <1>1, <1>2, SentenceOf, GgaJoins
<1>3. CASE fix[i].type = "RMC"
  BY <1>1, <1>3, SentenceOf, RmcJoins
<1>4. CASE fix[i].type = "GSA"
  BY <1>1, <1>4, SentenceOf, GsaJoins
<1>5. CASE fix[i].type = "GSV"
  BY <1>1, <1>5, SentenceOf, GsvJoins
<1>6. QED
  BY <1>1, <1>2, <1>3, <1>4, <1>5

(* What location_from_nmea() has made of the first k sentences, in the     *)
(* order of the numbers q.                                                 *)
Reads(fix, q, k, x) ==
    IF \E j \in 1..k : Rejected(fix[q[j]]) THEN x = <<>>
    ELSE \E loc : x = <<loc>> /\ Locates(fix, {q[j] : j \in 1..k}, loc)

LEMMA ReadsNothing ==
  ASSUME NEW fix, NEW q PROVE Reads(fix, q, 0, <<DefaultLocation>>)
<1>1. \A j \in 1..0 : FALSE
  OBVIOUS
<1>2. {q[j] : j \in 1..0} = {}
  BY <1>1
<1>3. Locates(fix, {q[j] : j \in 1..0}, DefaultLocation)
  BY <1>2, LocatesDefault
<1> HIDE <1>2
<1>4. QED
  BY <1>1, <1>3, Zenon DEF Reads

LEMMA ReadsOneMore ==
  ASSUME NEW fix, Coherent(fix), NEW k \in Nat, NEW q, \A j \in 1..(k + 1) : q[j] \in DOMAIN fix,
         NEW x, Reads(fix, q, k, x)
  PROVE  Reads(fix, q, k + 1, Sentence(x, fix[q[k + 1]]))
<1> DEFINE i == q[k + 1]
           I == {q[j] : j \in 1..k}
           J == {q[j] : j \in 1..(k + 1)}
<1>1. \A j : j \in 1..(k + 1) <=> j \in 1..k \/ j = k + 1
  OBVIOUS
<1>2. J = I \cup {i}
  BY <1>1
<1>3. I \in SUBSET DOMAIN fix /\ i \in DOMAIN fix
  BY <1>1
<1>4. CASE \E j \in 1..k : Rejected(fix[q[j]])
  <2>1. x = <<>>
    BY <1>4 DEF Reads
  <2>2. Sentence(x, fix[i]) = <<>>
    BY <2>1, SentenceOfNone
  <2>3. \E j \in 1..(k + 1) : Rejected(fix[q[j]])
    BY <1>1, <1>4
  <2>4. QED
    BY <2>2, <2>3 DEF Reads
<1>5. CASE ~(\E j \in 1..k : Rejected(fix[q[j]]))
  <2>1. PICK loc : x = <<loc>> /\ Locates(fix, I, loc)
    BY <1>5 DEF Reads
  <2>2. CASE Rejected(fix[i])
    <3>1. Sentence(x, fix[i]) = <<>>
      BY <2>2, SentenceRejected
    <3>2. \E j \in 1..(k + 1) : Rejected(fix[q[j]])
      BY <1>1, <2>2
    <3>3. QED
      BY <3>1, <3>2 DEF Reads
  <2>3. CASE ~Rejected(fix[i])
    <3>1. ~(\E j \in 1..(k + 1) : Rejected(fix[q[j]]))
      BY <1>1, <1>5, <2>3
    <3> HIDE DEF I, i, J
    <3>2. PICK next : Sentence(<<loc>>, fix[i]) = <<next>> /\ Locates(fix, I \cup {i}, next)
      <4>1. Joins(fix, I, i, loc)
        BY <1>3, <2>1, <2>3 DEF Joins
      <4>2. QED
        BY <4>1, SentenceJoins
    <3>3. Sentence(x, fix[i]) = <<next>> /\ Locates(fix, J, next)
      BY <1>2, <2>1, <3>2
    <3>4. QED
      BY <3>1, <3>3 DEF Reads, J, i
  <2>4. QED
    BY <2>2, <2>3
<1>6. QED
  BY <1>4, <1>5

LEMMA Located ==
  ASSUME NEW n \in Nat, NEW fix, Coherent(fix), DOMAIN fix = 1..n,
         NEW q, \A j \in 1..n : q[j] \in 1..n
  PROVE  Reads(fix, q, n, location_from_nmea([i \in 1..n |-> fix[q[i]]]))
<1> DEFINE read == [i \in 1..n |-> fix[q[i]]]
<1>1. DOMAIN read = 1..n /\ \A i \in 1..n : read[i] = fix[q[i]]
  OBVIOUS
<1> HIDE DEF read
<1>2. PICK f : Locating(f, n, read)
  BY <1>1, LocationUnfolds
<1> DEFINE S == {k \in 0..n : Reads(fix, q, k, f[k])}
<1>3. 0 \in S
  <2>1. Reads(fix, q, 0, f[0])
    BY <1>2, ReadsNothing DEF Locating
  <2>2. QED
    BY <2>1
<1>4. ASSUME NEW k \in 0..(n - 1), k \in S PROVE k + 1 \in S
  <2>1. k + 1 \in 1..n /\ (k + 1) - 1 = k /\ k \in Nat
    OBVIOUS
  <2>2. f[k + 1] = Sentence(f[k], fix[q[k + 1]])
    BY <1>1, <1>2, <2>1, Zenon DEF Locating
  <2>3. \A j \in 1..(k + 1) : q[j] \in DOMAIN fix
    BY <2>1
  <2>4. Reads(fix, q, k, f[k])
    BY <1>4
  <2>5. Reads(fix, q, k + 1, Sentence(f[k], fix[q[k + 1]]))
    BY <2>1, <2>3, <2>4, ReadsOneMore
  <2>6. Reads(fix, q, k + 1, f[k + 1]) /\ k + 1 \in 0..n
    BY <2>1, <2>2, <2>5
  <2>7. QED
    BY <2>6
<1>5. n \in S
  <2> HIDE DEF S
  <2>1. 0..n \subseteq S
    BY <1>3, <1>4, UpToInduction
  <2>2. QED
    BY <2>1
<1>6. Reads(fix, q, n, f[n])
  BY <1>5
<1>7. QED
  BY <1>2, <1>6 DEF Locating, read

(* In whatever order the sentences of a fix come, there is an exception or *)
(* the same Location, but for the order in which it lists the satellites.  *)
SameLocation(a, b) ==
    \/ a = <<>> /\ b = <<>>
    \/ /\ a = <<a[1]>> /\ b = <<b[1]>>
       /\ [a[1] EXCEPT !.satellites_info = ToSet(@)] = [b[1] EXCEPT !.satellites_info = ToSet(@)]
       /\ \E S : ListsOnce(a[1].satellites_info, S)

LEMMA AnyOrder ==
  ASSUME NEW fix, Coherent(fix), NEW p \in Bijection(DOMAIN fix, DOMAIN fix)
  PROVE  SameLocation(location_from_nmea([i \in DOMAIN fix |-> fix[p[i]]]), location_from_nmea(fix))
<1>1. PICK n \in Nat : DOMAIN fix = 1..n /\ fix = [i \in 1..n |-> fix[i]]
  <2> DEFINE n == Len(fix)
  <2>1. fix \in Seq({fix[i] : i \in DOMAIN fix})
    BY CoherentTypes DEF IsSequence
  <2>2. n \in Nat /\ DOMAIN fix = 1..n /\ fix = [i \in 1..n |-> fix[i]]
    BY <2>1
  <2>3. QED
    BY <2>2
<1> DEFINE id == [i \in 1..n |-> i]
<1>2. (\A j \in 1..n : id[j] \in 1..n) /\ {id[j] : j \in 1..n} = 1..n
  OBVIOUS
<1>3. (\A j \in 1..n : p[j] \in 1..n) /\ {p[j] : j \in 1..n} = 1..n
  BY <1>1 DEF Bijection, Injection, Surjection
<1>4. fix = [i \in 1..n |-> fix[id[i]]]
  BY <1>1
<1>5. (\E j \in 1..n : Rejected(fix[id[j]])) <=> (\E j \in 1..n : Rejected(fix[p[j]]))
  <2>1. (\E j \in 1..n : Rejected(fix[id[j]])) <=> (\E m \in 1..n : Rejected(fix[m]))
    OBVIOUS
  <2>2. (\E j \in 1..n : Rejected(fix[p[j]])) <=> (\E m \in 1..n : Rejected(fix[m]))
    <3>1. \A m \in 1..n : \E j \in 1..n : p[j] = m
      BY <1>3
    <3>2. QED
      BY <1>3, <3>1
  <2>3. QED
    BY <2>1, <2>2
<1> HIDE DEF id
<1> DEFINE a == location_from_nmea(fix)
           b == location_from_nmea([i \in 1..n |-> fix[p[i]]])
<1>6. Reads(fix, id, n, a)
  <2>1. Reads(fix, id, n, location_from_nmea([i \in 1..n |-> fix[id[i]]]))
    BY <1>1, <1>2, Located
  <2>2. QED
    BY <1>4, <2>1, Zenon
<1>7. Reads(fix, p, n, b)
  BY <1>1, <1>3, Located
<1> HIDE DEF a, b
<1>8. SameLocation(b, a)
  <2>1. CASE \E j \in 1..n : Rejected(fix[id[j]])
    BY <1>5, <1>6, <1>7, <2>1 DEF Reads, SameLocation
  <2>2. CASE ~(\E j \in 1..n : Rejected(fix[id[j]]))
    <3>1. PICK x : a = <<x>> /\ Locates(fix, 1..n, x)
      BY <1>2, <1>6, <2>2 DEF Reads
    <3>2. PICK y : b = <<y>> /\ Locates(fix, 1..n, y)
      BY <1>3, <1>5, <1>7, <2>2 DEF Reads
    <3>3. [x EXCEPT !.satellites_info = ToSet(@)] = [y EXCEPT !.satellites_info = ToSet(@)]
      BY <3>1, <3>2, LocatesOnce
    <3>4. \E S : ListsOnce(y.satellites_info, S)
      BY <3>2 DEF Locates
    <3>5. a = <<a[1]>> /\ a[1] = x /\ b = <<b[1]>> /\ b[1] = y
      BY <3>1, <3>2
    <3>6. QED
      BY <3>3, <3>4, <3>5 DEF SameLocation
  <2>3. QED
    BY <2>1, <2>2
<1>9. QED
  BY <1>1, <1>8 DEF a, b

-----------------------------------------------------------------------------
(***************************************************************************)
(* The CRC.                                                                *)
(***************************************************************************)

(* The digit of n that stands for 2^k.                                     *)
Bit(n, k) == (n \div 2^k) % 2

(* The powers of two that octets and registers need.                       *)
LEMMA PowersAre ==
  /\ 2^0 = 1 /\ 2^1 = 2 /\ 2^2 = 4 /\ 2^3 = 8 /\ 2^4 = 16 /\ 2^5 = 32 /\ 2^6 = 64 /\ 2^7 = 128
  /\ 2^8 = 256 /\ 2^9 = 512 /\ 2^10 = 1024 /\ 2^11 = 2048 /\ 2^12 = 4096 /\ 2^13 = 8192
  /\ 2^14 = 16384 /\ 2^15 = 32768 /\ 2^16 = 65536 /\ 2^24 = 16777216
  OBVIOUS

LEMMA BitTyped ==
  ASSUME NEW n \in Nat, NEW k \in 0..31
  PROVE  Bit(n, k) \in {0, 1} /\ n \div 2^k \in Nat
<1>1. 2^k \in Nat /\ 2^k > 0
  BY TwoToThe
<1> DEFINE p == 2^k
<1>2. n \div p \in Nat
  <2> HIDE DEF p
  <2>1. p \in Nat /\ p > 0
    BY <1>1 DEF p
  <2>2. QED
    BY <2>1
<1>3. QED
  BY <1>2 DEF Bit

(* The low digits.                                                         *)
LEMMA BitsAre ==
  ASSUME NEW n
  PROVE  /\ Bit(n, 0) = (n \div 1) % 2 /\ Bit(n, 1) = (n \div 2) % 2 /\ Bit(n, 2) = (n \div 4) % 2
         /\ Bit(n, 3) = (n \div 8) % 2 /\ Bit(n, 4) = (n \div 16) % 2 /\ Bit(n, 5) = (n \div 32) % 2
         /\ Bit(n, 6) = (n \div 64) % 2 /\ Bit(n, 7) = (n \div 128) % 2 /\ Bit(n, 8) = (n \div 256) % 2
         /\ Bit(n, 9) = (n \div 512) % 2 /\ Bit(n, 10) = (n \div 1024) % 2
         /\ Bit(n, 11) = (n \div 2048) % 2 /\ Bit(n, 12) = (n \div 4096) % 2
         /\ Bit(n, 13) = (n \div 8192) % 2 /\ Bit(n, 14) = (n \div 16384) % 2
         /\ Bit(n, 15) = (n \div 32768) % 2
  BY PowersAre DEF Bit

(* The digits of the double, and of the half.                              *)
LEMMA BitOfDouble ==
  ASSUME NEW n \in Nat, NEW k \in 0..30
  PROVE  Bit(2 * n, k + 1) = Bit(n, k) /\ Bit(2 * n, 0) = 0
<1>0. k \in 0..31
  OBVIOUS
<1>1. 2^k \in Nat /\ 2^k > 0 /\ 2^(k + 1) = 2 * 2^k
  BY <1>0, TwoToThe
<1> DEFINE p == 2^k
<1>2. (2 * n) \div (2 * p) = n \div p
  <2> HIDE DEF p
  <2>1. p \in Nat /\ p > 0
    BY <1>1 DEF p
  <2>2. QED
    BY <2>1
<1>3. Bit(2 * n, k + 1) = Bit(n, k)
  BY <1>1, <1>2 DEF Bit
<1>4. 2^0 = 1
  OBVIOUS
<1>5. QED
  BY <1>3, <1>4 DEF Bit

(* Shifted to the right, the digits move down.                             *)
LEMMA BitOfHalf ==
  ASSUME NEW n \in Nat, NEW k \in 0..30
  PROVE  Bit(n \div 2, k) = Bit(n, k + 1)
<1>0. k \in 0..31
  OBVIOUS
<1>1. 2^k \in Nat /\ 2^k > 0 /\ 2^(k + 1) = 2 * 2^k
  BY <1>0, TwoToThe
<1> DEFINE p == 2^k
<1>2. n \div (2 * p) = (n \div 2) \div p
  <2> HIDE DEF p
  <2>1. p \in Nat /\ p > 0
    BY <1>1 DEF p
  <2>2. QED
    BY <2>1
<1>3. QED
  BY <1>1, <1>2 DEF Bit

(* Shifted to the left by an octet, the digits move up.                    *)
LEMMA BitShifted ==
  ASSUME NEW n \in Nat, NEW k \in 0..15
  PROVE  /\ Bit(256 * n, k + 8) = Bit(n, k)
         /\ k < 8 => Bit(256 * n, k) = 0
         /\ Bit(n \div 256, k) = Bit(n, k + 8)
<1>1. Bit(256 * n, k + 8) = Bit(n, k)
  <2>1. /\ Bit(2 * n, k + 1) = Bit(n, k) /\ Bit(2 * (2 * n), k + 2) = Bit(2 * n, k + 1)
        /\ Bit(2 * (4 * n), k + 3) = Bit(4 * n, k + 2) /\ Bit(2 * (8 * n), k + 4) = Bit(8 * n, k + 3)
    <3>1. \A m \in Nat, j \in 0..30 : Bit(2 * m, j + 1) = Bit(m, j)
      BY BitOfDouble
    <3>2. QED
      BY <3>1
  <2>2. /\ Bit(2 * (16 * n), k + 5) = Bit(16 * n, k + 4) /\ Bit(2 * (32 * n), k + 6) = Bit(32 * n, k + 5)
        /\ Bit(2 * (64 * n), k + 7) = Bit(64 * n, k + 6) /\ Bit(2 * (128 * n), k + 8) = Bit(128 * n, k + 7)
    <3>1. \A m \in Nat, j \in 0..30 : Bit(2 * m, j + 1) = Bit(m, j)
      BY BitOfDouble
    <3>2. QED
      BY <3>1
  <2>3. /\ 2 * (2 * n) = 4 * n /\ 2 * (4 * n) = 8 * n /\ 2 * (8 * n) = 16 * n /\ 2 * (16 * n) = 32 * n
        /\ 2 * (32 * n) = 64 * n /\ 2 * (64 * n) = 128 * n /\ 2 * (128 * n) = 256 * n
    OBVIOUS
  <2>4. QED
    BY <2>1, <2>2, <2>3
<1>2. k < 8 => Bit(256 * n, k) = 0
  <2>2. /\ ((256 * n) \div 1) % 2 = 0 /\ ((256 * n) \div 2) % 2 = 0 /\ ((256 * n) \div 4) % 2 = 0
        /\ ((256 * n) \div 8) % 2 = 0
    OBVIOUS
  <2>3. /\ ((256 * n) \div 16) % 2 = 0 /\ ((256 * n) \div 32) % 2 = 0 /\ ((256 * n) \div 64) % 2 = 0
        /\ ((256 * n) \div 128) % 2 = 0
    OBVIOUS
  <2>4. k < 8 => k \in {0, 1, 2, 3, 4, 5, 6, 7}
    OBVIOUS
  <2>5. QED
    BY <2>2, <2>3, <2>4, BitsAre
<1>3. Bit(n \div 256, k) = Bit(n, k + 8)
  <2>1. \A m \in Nat, j \in 0..30 : Bit(m \div 2, j) = Bit(m, j + 1)
    BY BitOfHalf
  <2>2. /\ n \div 2 \in Nat /\ n \div 4 = (n \div 2) \div 2 /\ n \div 8 = (n \div 4) \div 2
        /\ n \div 16 = (n \div 8) \div 2 /\ n \div 32 = (n \div 16) \div 2 /\ n \div 64 = (n \div 32) \div 2
        /\ n \div 128 = (n \div 64) \div 2 /\ n \div 256 = (n \div 128) \div 2
        /\ n \div 4 \in Nat /\ n \div 8 \in Nat /\ n \div 16 \in Nat /\ n \div 32 \in Nat
        /\ n \div 64 \in Nat /\ n \div 128 \in Nat
    OBVIOUS
  <2>3. /\ Bit(n \div 256, k) = Bit(n \div 128, k + 1) /\ Bit(n \div 128, k + 1) = Bit(n \div 64, k + 2)
        /\ Bit(n \div 64, k + 2) = Bit(n \div 32, k + 3) /\ Bit(n \div 32, k + 3) = Bit(n \div 16, k + 4)
    BY <2>1, <2>2
  <2>4. /\ Bit(n \div 16, k + 4) = Bit(n \div 8, k + 5) /\ Bit(n \div 8, k + 5) = Bit(n \div 4, k + 6)
        /\ Bit(n \div 4, k + 6) = Bit(n \div 2, k + 7) /\ Bit(n \div 2, k + 7) = Bit(n, k + 8)
    BY <2>1, <2>2
  <2>5. QED
    BY <2>3, <2>4
<1>4. QED
  BY <1>1, <1>2, <1>3

(* Cutting off what is beyond 16 digits.                                   *)
LEMMA BitOfRest ==
  ASSUME NEW n \in Nat, NEW k \in 0..15
  PROVE  Bit(n % 65536, k) = Bit(n, k) /\ n % 65536 \in Nat /\ n % 65536 < 65536
<1> DEFINE r == n % 65536
           q == n \div 65536
<1>1. n = 65536 * q + r
  OBVIOUS
<1>2. q \in Nat /\ r \in Nat /\ r < 65536
  OBVIOUS
<1>3. Bit(r, k) = Bit(n, k)
  <2> HIDE DEF q, r
  <2>1. k \in {0, 1, 2, 3, 4, 5, 6, 7, 8, 9, 10, 11, 12, 13, 14, 15}
    OBVIOUS
  <2>2. CASE k \in {0, 1, 2, 3}
    <3>1. /\ (n \div 1) % 2 = (r \div 1) % 2 /\ (n \div 2) % 2 = (r \div 2) % 2
          /\ (n \div 4) % 2 = (r \div 4) % 2 /\ (n \div 8) % 2 = (r \div 8) % 2
      BY <1>1, <1>2, SMT
    <3>2. QED
      BY <2>2, <3>1, BitsAre
  <2>3. CASE k \in {4, 5, 6, 7}
    <3>1. /\ (n \div 16) % 2 = (r \div 16) % 2 /\ (n \div 32) % 2 = (r \div 32) % 2
          /\ (n \div 64) % 2 = (r \div 64) % 2 /\ (n \div 128) % 2 = (r \div 128) % 2
      BY <1>1, <1>2, SMT
    <3>2. QED
      BY <2>3, <3>1, BitsAre
  <2>4. CASE k \in {8, 9, 10, 11}
    <3>1. /\ (n \div 256) % 2 = (r \div 256) % 2 /\ (n \div 512) % 2 = (r \div 512) % 2
          /\ (n \div 1024) % 2 = (r \div 1024) % 2 /\ (n \div 2048) % 2 = (r \div 2048) % 2
      BY <1>1, <1>2, SMT
    <3>2. QED
      BY <2>4, <3>1, BitsAre
  <2>5. CASE k \in {12, 13, 14, 15}
    <3>1. /\ (n \div 4096) % 2 = (r \div 4096) % 2 /\ (n \div 8192) % 2 = (r \div 8192) % 2
          /\ (n \div 16384) % 2 = (r \div 16384) % 2 /\ (n \div 32768) % 2 = (r \div 32768) % 2
      BY <1>1, <1>2, SMT
    <3>2. /\ Bit(n, 12) = (n \div 4096) % 2 /\ Bit(n, 13) = (n \div 8192) % 2
          /\ Bit(n, 14) = (n \div 16384) % 2 /\ Bit(n, 15) = (n \div 32768) % 2
          /\ Bit(r, 12) = (r \div 4096) % 2 /\ Bit(r, 13) = (r \div 8192) % 2
          /\ Bit(r, 14) = (r \div 16384) % 2 /\ Bit(r, 15) = (r \div 32768) % 2
      BY BitsAre
    <3>3. QED
      BY <2>5, <3>1, <3>2
  <2>6. QED
    BY <2>1, <2>2, <2>3, <2>4, <2>5
<1>4. QED
  BY <1>2, <1>3

(* Numbers are the same if all their digits are.                           *)
Alike(w, m, n) ==
    m \in 0..2^w - 1 /\ n \in 0..2^w - 1 /\ \A k \in 0..(w - 1) : Bit(m, k) = Bit(n, k)

(* Numbers of 16 digits are equal if their digits are.                     *)
LEMMA SameBits ==
  ASSUME NEW w \in 1..31, NEW m, NEW n, Alike(w, m, n)
  PROVE  m = n
<1> USE DEF Alike
<1>1. /\ Binary(m, w) = [i \in 1..w |-> (m \div 2^(w - i)) % 2] /\ Number(Binary(m, w)) = m
      /\ Binary(n, w) = [i \in 1..w |-> (n \div 2^(w - i)) % 2] /\ Number(Binary(n, w)) = n
  BY BinaryIs, NumberOfBinary
<1>2. ASSUME NEW i \in 1..w PROVE (m \div 2^(w - i)) % 2 = (n \div 2^(w - i)) % 2
  <2>1. w - i \in 0..(w - 1)
    OBVIOUS
  <2>2. QED
    BY <2>1 DEF Bit
<1>3. Binary(m, w) = Binary(n, w)
  BY <1>1, <1>2, Zenon
<1>4. QED
  BY <1>1, <1>3

(* The number of 16 digits has these digits.                               *)
LEMMA FromBitsIs ==
  ASSUME NEW n \in 1..31, NEW b \in [1..n -> {0, 1}]
  PROVE  /\ FromBits(b) \in Nat /\ FromBits(b) \in 0..2^n - 1
         /\ \A k \in 0..(n - 1) : Bit(FromBits(b), k) = b[n - k]
<1>1. FromBits(b) = Number(b)
  BY DEF FromBits, Number
<1>2. b \in Digits /\ b \in Seq({0, 1}) /\ Len(b) = n
  <2>1. n \in Nat
    OBVIOUS
  <2>2. b \in Seq({0, 1}) /\ Len(b) = n
    BY <2>1
  <2>3. QED
    BY <2>2 DEF Digits
<1> DEFINE x == Number(b)
<1>3. x \in 0..2^n - 1 /\ x \in Nat /\ Binary(x, n) = b
  <2>1. n \in 0..31
    OBVIOUS
  <2>2. 2^n \in Nat
    BY <2>1, TwoToThe
  <2>3. QED
    BY <1>2, <2>1, <2>2, NumberBound, DigitsOfNumber
<1> HIDE DEF x
<1>4. Binary(x, n) = [i \in 1..n |-> (x \div 2^(n - i)) % 2]
  BY <1>3, BinaryIs
<1>5. ASSUME NEW k \in 0..(n - 1) PROVE Bit(x, k) = b[n - k]
  <2>1. n - k \in 1..n /\ n - (n - k) = k
    OBVIOUS
  <2>2. QED
    BY <1>3, <1>4, <2>1 DEF Bit
<1>6. QED
  BY <1>1, <1>3, <1>5 DEF x

IsXor(x, m, n) ==
    /\ x \in Nat /\ x \in 0..2^24 - 1
    /\ \A k \in 0..23 : Bit(x, k) = (Bit(m, k) + Bit(n, k)) % 2

(* Xor, digit by digit.                                                    *)
LEMMA XorIs ==
  ASSUME NEW m \in Nat, NEW n \in Nat
  PROVE  IsXor(Xor(m, n), m, n)
<1> DEFINE b == [i \in 1..24 |-> ((m \div 2^(24 - i)) + (n \div 2^(24 - i))) % 2]
<1>1. \A k \in 0..31 : m \div 2^k \in Nat /\ n \div 2^k \in Nat
  BY BitTyped
<1>2. ASSUME NEW i \in 1..24 PROVE b[i] \in {0, 1} /\ b[i] = (Bit(m, 24 - i) + Bit(n, 24 - i)) % 2
  <2>1. 24 - i \in 0..31
    OBVIOUS
  <2>2. m \div 2^(24 - i) \in Nat /\ n \div 2^(24 - i) \in Nat
    BY <1>1, <2>1
  <2>3. QED
    BY <2>2 DEF Bit
<1>3. b \in [1..24 -> {0, 1}]
  BY <1>2
<1>4. Xor(m, n) = FromBits(b)
  BY DEF Xor
<1> HIDE DEF b
<1>5. /\ FromBits(b) \in Nat /\ FromBits(b) \in 0..2^24 - 1
      /\ \A k \in 0..(24 - 1) : Bit(FromBits(b), k) = b[24 - k]
  <2>1. 24 \in 1..31
    OBVIOUS
  <2>2. QED
    BY <1>2, <1>3, <2>1, FromBitsIs
<1>6. ASSUME NEW k \in 0..23 PROVE Bit(FromBits(b), k) = (Bit(m, k) + Bit(n, k)) % 2
  <2>1. 24 - k \in 1..24 /\ 24 - (24 - k) = k
    OBVIOUS
  <2>2. QED
    BY <1>2, <1>5, <2>1
<1>7. QED
  BY <1>4, <1>5, <1>6 DEF IsXor

(* A register of the modem and the number it is.                           *)
Register(reg, r) ==
    /\ reg \in Nat /\ reg < 65536 /\ r \in [1..16 -> {0, 1}]
    /\ \A j \in 0..15 : r[16 - j] = Bit(reg, j)

(* The polynomial, digit by digit.                                         *)
LEMMA PolynomialBits ==
  ASSUME NEW j \in 0..15
  PROVE  Bit(POLYNOMIAL, j) = IF j \in {0, 5, 12} THEN 1 ELSE 0
<1>1. POLYNOMIAL = 4129
  BY DEF POLYNOMIAL
<1> DEFINE n == 4129
<1>2. /\ (n \div 1) % 2 = 1 /\ (n \div 2) % 2 = 0 /\ (n \div 4) % 2 = 0 /\ (n \div 8) % 2 = 0
      /\ (n \div 16) % 2 = 0 /\ (n \div 32) % 2 = 1 /\ (n \div 64) % 2 = 0 /\ (n \div 128) % 2 = 0
      /\ (n \div 256) % 2 = 0 /\ (n \div 512) % 2 = 0 /\ (n \div 1024) % 2 = 0
      /\ (n \div 2048) % 2 = 0 /\ (n \div 4096) % 2 = 1 /\ (n \div 8192) % 2 = 0
      /\ (n \div 16384) % 2 = 0 /\ (n \div 32768) % 2 = 0
  OBVIOUS
<1> HIDE DEF n
<1>3. /\ Bit(n, 0) = 1 /\ Bit(n, 1) = 0 /\ Bit(n, 2) = 0 /\ Bit(n, 3) = 0
      /\ Bit(n, 4) = 0 /\ Bit(n, 5) = 1 /\ Bit(n, 6) = 0 /\ Bit(n, 7) = 0
      /\ Bit(n, 8) = 0 /\ Bit(n, 9) = 0 /\ Bit(n, 10) = 0 /\ Bit(n, 11) = 0
      /\ Bit(n, 12) = 1 /\ Bit(n, 13) = 0 /\ Bit(n, 14) = 0 /\ Bit(n, 15) = 0
  BY <1>2, BitsAre
<1>4. j \in {0, 1, 2, 3, 4, 5, 6, 7, 8, 9, 10, 11, 12, 13, 14, 15}
  OBVIOUS
<1>5. Bit(n, j) = IF j \in {0, 5, 12} THEN 1 ELSE 0
  BY <1>3, <1>4
<1>6. QED
  BY <1>1, <1>5 DEF n

(* A round of the table.                                                   *)
Round(p) == <<IF TopBit(p[1]) # TopBit(p[2]) THEN Xor(2 * p[1], POLYNOMIAL) ELSE 2 * p[1], 2 * p[2]>>

Rounds(p, c) ==
    /\ p[0] = <<0, 256 * c>> /\ \A k \in 1..8 : p[k] = Round(p[k - 1])
    /\ \A k \in 0..8 : p[k] \in Nat \X Nat
    /\ initial(c) = p[8][1]

LEMMA RoundTyped ==
  ASSUME NEW p \in Nat \X Nat
  PROVE  Round(p) \in Nat \X Nat
<1>1. p[1] \in Nat /\ p[2] \in Nat /\ 2 * p[1] \in Nat /\ 2 * p[2] \in Nat
  OBVIOUS
<1>2. POLYNOMIAL \in Nat
  BY DEF POLYNOMIAL
<1>3. Xor(2 * p[1], POLYNOMIAL) \in Nat
  BY <1>1, <1>2, XorIs DEF IsXor
<1>4. QED
  BY <1>1, <1>3 DEF Round

(* An entry of the table, round by round.                                  *)
LEMMA TableUnfolds ==
  ASSUME NEW c \in 0..255
  PROVE  \E p : Rounds(p, c)
<1> DEFINE n == 8
           A == Nat \X Nat
           base == <<0, 256 * c>>
           I == <<1, 2, 3, 4, 5, 6, 7, 8>>
           step == [i \in 1..n |-> [a \in A |-> Round(a)]]
           Folds(g) == g = [s \in SUBSET (DOMAIN I) |->
                            IF s = {} THEN base ELSE Round(g[s \ {Max(s)}])]
<1>0. DOMAIN I = 1..n /\ n \in Nat
  OBVIOUS
<1>1. \E g : Folds(g)
  <2>1. \A i \in 1..n : \A a \in A : step[i][a] = Round(a) /\ step[i][a] \in A
    BY RoundTyped
  <2>2. PICK it \in [SUBSET (1..n) -> A] : IsFold(it, n, base, step)
    <3>1. \A i \in 1..n : \A a \in A : step[i][a] \in A
      BY <2>1
    <3>2. base \in A
      OBVIOUS
    <3> HIDE DEF step, base, A, n
    <3>3. QED
      BY <1>0, <3>1, <3>2, FoldExists
  <2> HIDE DEF step, I, base, A, n
  <2>3. ASSUME NEW s \in SUBSET (1..n), s # {}
        PROVE  step[Max(s)][it[s \ {Max(s)}]] = Round(it[s \ {Max(s)}])
    <3>1. Max(s) \in 1..n /\ it[s \ {Max(s)}] \in A
      BY <1>0, <2>3, GreatestExists
    <3>2. QED
      BY <2>1, <3>1
  <2>4. Folds(it)
    BY <1>0, <2>2, <2>3 DEF IsFold
  <2>5. QED
    BY <2>4
<1>2. initial(c) = ((CHOOSE g : Folds(g))[DOMAIN I])[1]
  BY Zenon DEF initial, FoldLeft, MapThenFoldSet, Round
<1> HIDE DEF I
<1>3. PICK g : Folds(g) /\ initial(c) = g[1..n][1]
  BY <1>0, <1>1, <1>2
<1> DEFINE p == [k \in 0..n |-> g[1..k]]
<1>b. base \in A /\ A = Nat \X Nat
  OBVIOUS
<1> HIDE DEF base, n, A
<1>4. p[0] = base
  <2>1. 1..0 = {} /\ {} \in SUBSET (1..n)
    OBVIOUS
  <2>2. QED
    BY <1>0, <1>3, <2>1
<1>5. \A k \in 1..n : p[k] = Round(p[k - 1])
  <2> SUFFICES ASSUME NEW k \in 1..n PROVE g[1..k] = Round(g[1..(k - 1)])
    BY <1>0
  <2>1. 1..k \in SUBSET (1..n) /\ Max(1..k) = k /\ (1..k) \ {k} = 1..(k - 1) /\ 1..k # {}
    <3>1. k \in Nat /\ k # 0 /\ \A x \in 1..k : x \in 1..n
      BY <1>0
    <3>2. QED
      BY <3>1, MaxUpTo
  <2>2. QED
    BY <1>0, <1>3, <2>1
<1>6. \A k \in 0..n : p[k] \in A
  <2> DEFINE S == {k \in 0..n : p[k] \in A}
  <2>1. 0 \in S
    BY <1>0, <1>4, <1>b
  <2>2. ASSUME NEW k \in 0..(n - 1), k \in S PROVE k + 1 \in S
    <3>1. k + 1 \in 1..n /\ (k + 1) - 1 = k
      BY <1>0
    <3> HIDE DEF p
    <3>2. p[k + 1] = Round(p[k])
      BY <1>5, <3>1
    <3>3. QED
      BY <1>0, <1>b, <2>2, <3>1, <3>2, RoundTyped
  <2>3. 0..n \subseteq S
    <3> HIDE DEF S
    <3>1. QED
      BY <1>0, <2>1, <2>2, UpToInduction
  <2>4. QED
    BY <2>3
<1>7. initial(c) = p[n][1]
  BY <1>0, <1>3
<1> HIDE DEF p
<1>8. Rounds(p, c)
  BY <1>4, <1>5, <1>6, <1>7, <1>b DEF Rounds, base, n
<1>9. QED
  BY <1>8

(* The modem's register after the first k digits of the octet c, and the   *)
(* table after k rounds for x: they differ by what was in the register.    *)
Rolled(reg, c, x, p, r, k) ==
    /\ r \in [1..16 -> {0, 1}] /\ p \in Nat \X Nat
    /\ \A j \in 0..15 :
          r[16 - j] = (Bit(p[1], j) + (IF j >= k THEN Bit(reg, j - k) ELSE 0)) % 2
    /\ \A j \in k..15 : Bit(p[2], j) = Bit(256 * x, j - k)

(* The octet that selects the table's entry.                               *)
Selects(reg, c, x) ==
    /\ x \in Nat /\ \A j \in 0..7 : Bit(x, j) = (Bit(reg, j + 8) + Bit(c, j)) % 2

(* The modem's register after a digit.                                     *)
LEMMA ShiftIs ==
  ASSUME NEW r \in [1..16 -> {0, 1}], NEW bit \in {0, 1}
  PROVE  LET fb == (r[1] + bit) % 2
         IN  /\ Shift(r, bit) \in [1..16 -> {0, 1}] /\ fb \in {0, 1}
             /\ Shift(r, bit)[16] = fb
             /\ \A j \in 1..15 : Shift(r, bit)[16 - j] =
                   (r[16 - (j - 1)] + (IF j \in {5, 12} THEN fb ELSE 0)) % 2
<1> DEFINE fb == (r[1] + bit) % 2
           s == [i \in 1..16 |-> IF i = 16 THEN fb
                                 ELSE (r[i + 1] + (IF i \in {4, 11} THEN fb ELSE 0)) % 2]
<1>1. Shift(r, bit) = s
  BY DEF Shift
<1>2. r[1] \in {0, 1} /\ fb \in {0, 1}
  OBVIOUS
<1> HIDE DEF fb
<1>3. s \in [1..16 -> {0, 1}]
  BY <1>2
<1>4. s[16] = fb
  OBVIOUS
<1>5. ASSUME NEW j \in 1..15
      PROVE  s[16 - j] = (r[16 - (j - 1)] + (IF j \in {5, 12} THEN fb ELSE 0)) % 2
  <2>1. 16 - j \in 1..15 /\ 16 - j # 16 /\ (16 - j) + 1 = 16 - (j - 1)
        /\ (16 - j \in {4, 11} <=> j \in {5, 12})
    OBVIOUS
  <2>2. QED
    BY <2>1
<1> HIDE DEF s
<1>6. QED
  BY <1>1, <1>2, <1>3, <1>4, <1>5 DEF fb

(* One more digit keeps register and table together.                       *)
LEMMA RollsOn ==
  ASSUME NEW reg \in Nat, NEW c \in Nat, NEW x, Selects(reg, c, x), NEW k \in 0..7,
         NEW p, NEW r, Rolled(reg, c, x, p, r, k)
  PROVE  Rolled(reg, c, x, Round(p), Shift(r, Bit(c, 7 - k)), k + 1)
<1>1. /\ x \in Nat /\ \A j \in 0..7 : Bit(x, j) = (Bit(reg, j + 8) + Bit(c, j)) % 2
  BY DEF Selects
<1>2. /\ r \in [1..16 -> {0, 1}] /\ p \in Nat \X Nat
      /\ \A j \in 0..15 : r[16 - j] = (Bit(p[1], j) + (IF j >= k THEN Bit(reg, j - k) ELSE 0)) % 2
      /\ \A j \in k..15 : Bit(p[2], j) = Bit(256 * x, j - k)
  BY DEF Rolled
<1>3. /\ p[1] \in Nat /\ p[2] \in Nat /\ 2 * p[1] \in Nat /\ 2 * p[2] \in Nat
      /\ 256 * x \in Nat
  BY <1>1, <1>2
<1> DEFINE b == Bit(c, 7 - k)
           fb == (r[1] + b) % 2
           p1 == p[1]
           p2 == p[2]
           q == Round(p)
           s == Shift(r, b)
<1>4. /\ \A j \in 0..15 : Bit(p1, j) \in {0, 1} /\ Bit(reg, j) \in {0, 1} /\ Bit(c, j) \in {0, 1}
      /\ \A j \in 0..15 : Bit(POLYNOMIAL, j) = IF j \in {0, 5, 12} THEN 1 ELSE 0
  <2>1. \A j \in 0..15 : j \in 0..31
    OBVIOUS
  <2>2. QED
    BY <1>3, <2>1, BitTyped, PolynomialBits
<1>5. b \in {0, 1} /\ fb \in {0, 1}
  <2>1. 7 - k \in 0..15 /\ r[1] \in {0, 1}
    BY <1>2
  <2>2. b \in {0, 1}
    BY <1>4, <2>1
  <2> HIDE DEF b
  <2>3. QED
    BY <2>1, <2>2
(* The top bits differ if the modem's feedback is 1. *)
<1>6. fb = IF TopBit(p1) # TopBit(p2) THEN 1 ELSE 0
  <2>1. TopBit(p1) = Bit(p1, 15) /\ TopBit(p2) = Bit(p2, 15)
    BY BitsAre DEF TopBit
  <2>2. Bit(p2, 15) = Bit(x, 7 - k)
    <3>1. Bit(p2, 15) = Bit(256 * x, 15 - k)
      BY <1>2
    <3>2. 7 - k \in 0..15 /\ (7 - k) + 8 = 15 - k
      OBVIOUS
    <3>3. Bit(256 * x, 15 - k) = Bit(x, 7 - k)
      BY <1>1, <3>2, BitShifted
    <3>4. QED
      BY <3>1, <3>3
  <2>3. Bit(x, 7 - k) = (Bit(reg, 15 - k) + b) % 2
    <3>1. 7 - k \in 0..7 /\ (7 - k) + 8 = 15 - k
      OBVIOUS
    <3>2. QED
      BY <1>1, <3>1
  <2>4. r[1] = (Bit(p1, 15) + Bit(reg, 15 - k)) % 2
    <3>1. 15 \in 0..15 /\ 16 - 15 = 1 /\ 15 >= k
      OBVIOUS
    <3>2. QED
      BY <1>2, <3>1
  <2>5. Bit(p1, 15) \in {0, 1} /\ Bit(reg, 15 - k) \in {0, 1}
    <3>1. 15 \in 0..15 /\ 15 - k \in 0..15
      OBVIOUS
    <3>2. QED
      BY <1>4, <3>1
  <2> HIDE DEF b
  <2> DEFINE u == Bit(p1, 15)
             v == Bit(reg, 15 - k)
  <2>6. u \in {0, 1} /\ v \in {0, 1} /\ r[1] = (u + v) % 2 /\ TopBit(p1) = u /\ TopBit(p2) = (v + b) % 2
    BY <2>1, <2>2, <2>3, <2>4, <2>5
  <2> HIDE DEF u, v, p1, p2
  <2>7. QED
    BY <1>5, <2>6
<1>7. /\ s \in [1..16 -> {0, 1}] /\ s[16] = fb
      /\ \A j \in 1..15 : s[16 - j] = (r[16 - (j - 1)] + (IF j \in {5, 12} THEN fb ELSE 0)) % 2
  BY <1>2, <1>5, ShiftIs
<1>8. q \in Nat \X Nat
  BY <1>2, RoundTyped
<1>9. \A j \in 0..15 : Bit(2 * p1, j) = IF j = 0 THEN 0 ELSE Bit(p1, j - 1)
  <2> SUFFICES ASSUME NEW j \in 0..15 PROVE Bit(2 * p1, j) = IF j = 0 THEN 0 ELSE Bit(p1, j - 1)
    OBVIOUS
  <2>1. 0 \in 0..30 /\ (j # 0 => j - 1 \in 0..30 /\ (j - 1) + 1 = j)
    OBVIOUS
  <2>2. QED
    BY <1>3, <2>1, BitOfDouble
<1>10. \A j \in 0..15 : Bit(2 * p1, j) \in {0, 1}
  <2>1. \A j \in 0..15 : j \in 0..31
    OBVIOUS
  <2>2. QED
    BY <1>3, <2>1, BitTyped
<1>11. \A j \in 0..15 : Bit(q[1], j) = (Bit(2 * p1, j) + (IF j \in {0, 5, 12} THEN fb ELSE 0)) % 2
  <2> SUFFICES ASSUME NEW j \in 0..15
               PROVE Bit(q[1], j) = (Bit(2 * p1, j) + (IF j \in {0, 5, 12} THEN fb ELSE 0)) % 2
    OBVIOUS
  <2>1. q[1] = IF TopBit(p1) # TopBit(p2) THEN Xor(2 * p1, POLYNOMIAL) ELSE 2 * p1
    BY DEF Round
  <2>2. POLYNOMIAL \in Nat /\ j \in 0..23
    BY DEF POLYNOMIAL
  <2>3. Bit(Xor(2 * p1, POLYNOMIAL), j) = (Bit(2 * p1, j) + Bit(POLYNOMIAL, j)) % 2
    <3> DEFINE m == 2 * p1
    <3>1. m \in Nat
      BY <1>3
    <3> HIDE DEF m
    <3>2. Bit(Xor(m, POLYNOMIAL), j) = (Bit(m, j) + Bit(POLYNOMIAL, j)) % 2
      BY <2>2, <3>1, XorIs DEF IsXor
    <3>3. QED
      BY <3>2 DEF m
  <2>4. Bit(2 * p1, j) \in {0, 1} /\ Bit(POLYNOMIAL, j) = IF j \in {0, 5, 12} THEN 1 ELSE 0
    BY <1>4, <1>10
  <2> DEFINE d == Bit(2 * p1, j)
  <2>5. CASE TopBit(p1) # TopBit(p2)
    <3>1. q[1] = Xor(2 * p1, POLYNOMIAL) /\ fb = 1
      BY <1>6, <2>1, <2>5
    <3> HIDE DEF d, fb, q, p1, p2
    <3>2. QED
      BY <2>3, <2>4, <3>1
  <2>6. CASE ~ (TopBit(p1) # TopBit(p2))
    <3>1. q[1] = 2 * p1 /\ fb = 0
      BY <1>6, <2>1, <2>6
    <3>2. Bit(q[1], j) = d /\ d \in {0, 1}
      BY <2>4, <3>1
    <3> HIDE DEF d, fb, q, p1, p2
    <3>3. (d + 0) % 2 = d
      BY <3>2
    <3>4. QED
      BY <3>1, <3>2, <3>3 DEF d
  <2>7. QED
    BY <2>5, <2>6
<1>12. ASSUME NEW j \in 0..15
       PROVE  s[16 - j] = (Bit(q[1], j) + (IF j >= k + 1 THEN Bit(reg, j - (k + 1)) ELSE 0)) % 2
  <2>1. CASE j = 0
    <3>1. ~ (0 >= k + 1) /\ 16 - 0 = 16 /\ 0 \in 0..15
      OBVIOUS
    <3>2. Bit(q[1], 0) = (0 + fb) % 2
      BY <1>9, <1>11, <3>1
    <3> HIDE DEF fb, q, s
    <3>3. QED
      BY <1>5, <1>7, <2>1, <3>1, <3>2
  <2>2. CASE j # 0
    <3>1. j \in 1..15 /\ j - 1 \in 0..15 /\ (j - 1 >= k <=> j >= k + 1) /\ (j - 1) - k = j - (k + 1)
          /\ (j \in {0, 5, 12} <=> j \in {5, 12})
          /\ (j >= k + 1 => j - (k + 1) \in 0..15)
      BY <2>2
    <3> DEFINE d == Bit(p1, j - 1)
               h == IF j >= k + 1 THEN Bit(reg, j - (k + 1)) ELSE 0
               g == IF j \in {5, 12} THEN fb ELSE 0
    <3>2. r[16 - (j - 1)] = (d + h) % 2
      BY <1>2, <3>1
    <3>3. s[16 - j] = (r[16 - (j - 1)] + g) % 2
      BY <1>7, <3>1
    <3>4. Bit(q[1], j) = (d + g) % 2
      BY <1>9, <1>11, <2>2, <3>1
    <3>5. d \in {0, 1} /\ h \in {0, 1} /\ g \in {0, 1}
      BY <1>4, <1>5, <3>1
    <3> HIDE DEF d, h, g, s, q
    <3>6. s[16 - j] = (Bit(q[1], j) + h) % 2
      BY <3>2, <3>3, <3>4, <3>5
    <3>7. QED
      BY <3>6 DEF h
  <2>3. QED
    BY <2>1, <2>2
<1>13. ASSUME NEW j \in (k + 1)..15 PROVE Bit(q[2], j) = Bit(256 * x, j - (k + 1))
  <2>1. q[2] = 2 * p2
    BY DEF Round
  <2>2. j - 1 \in 0..30 /\ (j - 1) + 1 = j /\ j - 1 \in k..15 /\ (j - 1) - k = j - (k + 1)
    OBVIOUS
  <2>3. Bit(2 * p2, j) = Bit(p2, j - 1)
    BY <1>3, <2>2, BitOfDouble
  <2>4. QED
    BY <1>2, <2>1, <2>2, <2>3
<1> HIDE DEF b, fb, p1, p2, q, s
<1>14. Rolled(reg, c, x, q, s, k + 1)
  BY <1>7, <1>8, <1>12, <1>13 DEF Rolled
<1>15. QED
  BY <1>14 DEF q, s, b

(* The modem's register after each of the first n digits b.                *)
Shifting(g, n, base, b) ==
    /\ g[0] = base /\ (\A k \in 1..n : g[k] = Shift(g[k - 1], b[k]))
    /\ \A k \in 0..n : g[k] \in [1..16 -> {0, 1}]

(* The digits of an octet, the highest first.                              *)
OctetBits(b, c) == \A k \in 1..8 : b[k] = Bit(c, 8 - k)

LEMMA ZeroBits ==
  ASSUME NEW k \in 0..31
  PROVE  Bit(0, k) = 0
<1>1. 2^k \in Nat /\ 2^k > 0
  BY TwoToThe
<1> DEFINE t == 2^k
<1>2. 0 \div t = 0
  <2> HIDE DEF t
  <2>1. t \in Nat /\ t > 0
    BY <1>1 DEF t
  <2>2. QED
    BY <2>1
<1>3. Bit(0, k) = (0 \div t) % 2
  BY DEF Bit
<1> HIDE DEF t
<1>4. QED
  BY <1>2, <1>3

(* An octet, digit by digit and by the table.                              *)
LEMMA OctetRolls ==
  ASSUME NEW reg \in Nat, NEW c \in Octet, NEW x \in Octet, Selects(reg, c, x),
         NEW p, Rounds(p, x), NEW r, Register(reg, r),
         NEW b, OctetBits(b, c),
         NEW g, Shifting(g, 8, r, b)
  PROVE  \A k \in 0..8 : Rolled(reg, c, x, p[k], g[k], k)
<1> USE DEF Octet
<1> DEFINE S == {k \in 0..8 : Rolled(reg, c, x, p[k], g[k], k)}
<1>1. /\ p[0] = <<0, 256 * x>> /\ (\A k \in 1..8 : p[k] = Round(p[k - 1]))
      /\ \A k \in 0..8 : p[k] \in Nat \X Nat
  BY DEF Rounds
<1>2. /\ g[0] = r /\ (\A k \in 1..8 : g[k] = Shift(g[k - 1], b[k]))
      /\ \A k \in 0..8 : g[k] \in [1..16 -> {0, 1}]
  BY DEF Shifting
<1>3. 0 \in S
  <2>1. p[0] \in Nat \X Nat /\ g[0] \in [1..16 -> {0, 1}]
    BY <1>1, <1>2
  <2>2. p[0][1] = 0 /\ p[0][2] = 256 * x
    BY <1>1
  <2>3. \A j \in 0..15 : r[16 - j] = (Bit(0, j) + (IF j >= 0 THEN Bit(reg, j - 0) ELSE 0)) % 2
    <3> SUFFICES ASSUME NEW j \in 0..15
                 PROVE r[16 - j] = (Bit(0, j) + (IF j >= 0 THEN Bit(reg, j - 0) ELSE 0)) % 2
      OBVIOUS
    <3>1. r[16 - j] = Bit(reg, j)
      BY DEF Register
    <3>2. Bit(0, j) = 0
      <4>1. j \in 0..31
        OBVIOUS
      <4>2. QED
        BY <4>1, ZeroBits
    <3>3. Bit(reg, j) \in {0, 1}
      <4>1. j \in 0..31
        OBVIOUS
      <4>2. QED
        BY <4>1, BitTyped
    <3>4. j >= 0 /\ j - 0 = j
      OBVIOUS
    <3>5. QED
      BY <3>1, <3>2, <3>3, <3>4
  <2>4. \A j \in 0..15 : Bit(256 * x, j) = Bit(256 * x, j - 0)
    OBVIOUS
  <2>5. Rolled(reg, c, x, p[0], g[0], 0)
    BY <1>2, <2>1, <2>2, <2>3, <2>4 DEF Rolled
  <2>6. QED
    BY <2>5
<1>4. ASSUME NEW k \in 0..(8 - 1), k \in S PROVE k + 1 \in S
  <2>1. k + 1 \in 1..8 /\ (k + 1) - 1 = k /\ k \in 0..7 /\ 8 - (k + 1) = 7 - k /\ k + 1 \in 0..8
    OBVIOUS
  <2>2. Rolled(reg, c, x, p[k], g[k], k)
    BY <1>4
  <2>3. p[k + 1] = Round(p[k]) /\ g[k + 1] = Shift(g[k], Bit(c, 7 - k))
    <3>1. b[k + 1] = Bit(c, 7 - k)
      BY <2>1 DEF OctetBits
    <3>2. QED
      BY <1>1, <1>2, <2>1, <3>1
  <2>4. Rolled(reg, c, x, Round(p[k]), Shift(g[k], Bit(c, 7 - k)), k + 1)
    <3>1. c \in Nat
      OBVIOUS
    <3>2. QED
      BY <2>1, <2>2, <3>1, RollsOn
  <2>5. QED
    BY <2>1, <2>3, <2>4
<1>5. 0..8 \subseteq S
  <2> HIDE DEF S
  <2>1. 8 \in Nat
    OBVIOUS
  <2>2. QED
    BY <1>3, <1>4, <2>1, UpToInduction
<1>6. QED
  BY <1>5

LEMMA SmallBits ==
  ASSUME NEW n \in 0..255, NEW j \in 8..23
  PROVE  Bit(n, j) = 0
<1>1. 256 <= 2^j
  <2>1. PICK e : e = 8
    OBVIOUS
  <2>2. e \in 0..32 /\ j \in 0..32 /\ e <= j
    BY <2>1
  <2>3. 2^e <= 2^j
    BY <2>2, TwoMonotone
  <2>4. 2^e = 256
    BY <2>1, PowersAre
  <2>5. QED
    BY <2>3, <2>4
<1>2. j \in 0..31
  OBVIOUS
<1>3. 2^j \in Nat /\ 2^j > 0
  BY <1>2, TwoToThe
<1> DEFINE t == 2^j
<1>4. n \div t = 0
  <2>1. t \in Nat /\ t >= 256
    BY <1>1, <1>3
  <2> HIDE DEF t
  <2>2. QED
    BY <2>1
<1>5. Bit(n, j) = (n \div t) % 2
  BY DEF Bit
<1> HIDE DEF t
<1>6. QED
  BY <1>4, <1>5

(* The entry that update_crc() takes.                                      *)
TableIndex(reg, c) == Xor(reg \div 256, c) % 256
Word(reg) == reg \in Nat /\ reg < 65536

(* An entry of the table is a number of 16 digits, the last of eight       *)
(* rounds.                                                                 *)
LEMMA EntryIs ==
  ASSUME NEW reg, Word(reg), NEW c \in Octet
  PROVE  Selects(reg, c, TableIndex(reg, c)) /\ TableIndex(reg, c) \in Octet
<1> USE DEF Octet, Word
<1> DEFINE h == reg \div 256
           y == Xor(h, c)
<1>1. h \in 0..255 /\ h \in Nat /\ c \in Nat
  OBVIOUS
<1>2. /\ y \in Nat /\ y \in 0..2^24 - 1
      /\ \A k \in 0..23 : Bit(y, k) = (Bit(h, k) + Bit(c, k)) % 2
  <2> HIDE DEF h
  <2>1. IsXor(Xor(h, c), h, c)
    BY <1>1, XorIs
  <2>2. QED
    BY <2>1 DEF IsXor
<1>3. y \in 0..255
  <2> HIDE DEF h, y
  <2>1. \A k \in 8..23 : Bit(y, k) = 0
    <3> SUFFICES ASSUME NEW k \in 8..23 PROVE Bit(y, k) = 0
      OBVIOUS
    <3>1. Bit(h, k) = 0 /\ Bit(c, k) = 0
      BY <1>1, SmallBits
    <3>2. k \in 0..23
      OBVIOUS
    <3>3. QED
      BY <1>2, <3>1, <3>2
  <2> DEFINE z == y \div 256
  <2>2. z \in Nat /\ z < 65536
    <3>1. 2^24 = 16777216
      OBVIOUS
    <3>2. y <= 16777215
      BY <1>2, <3>1
    <3>3. QED
      BY <1>2, <3>2
  <2>3. ASSUME NEW k \in 0..15 PROVE Bit(z, k) = 0
    <3>1. Bit(z, k) = Bit(y, k + 8)
      BY <1>2, BitShifted
    <3>2. k + 8 \in 8..23
      OBVIOUS
    <3>3. QED
      BY <2>1, <3>1, <3>2
  <2>4. z = 0
    <3>1. 2^16 = 65536 /\ 0 \in 0..255
      OBVIOUS
    <3>2. \A k \in 0..15 : Bit(0, k) = 0
      <4>1. \A k \in 0..15 : k \in 0..31
        OBVIOUS
      <4>2. QED
        BY <4>1, ZeroBits
    <3> HIDE DEF z
    <3>3. z \in 0..2^16 - 1 /\ 0 \in 0..2^16 - 1 /\ 16 \in 1..31
      BY <2>2, <3>1
    <3>4. \A k \in 0..(16 - 1) : Bit(z, k) = Bit(0, k)
      BY <2>3, <3>2
    <3> DEFINE w == 16
               o == 0
    <3>5. w \in 1..31 /\ Alike(w, z, o)
      BY <3>3, <3>4 DEF Alike
    <3> HIDE DEF w, o
    <3>6. z = o
      BY <3>5, SameBits
    <3>7. QED
      BY <3>6 DEF o
  <2>5. QED
    BY <1>2, <2>4
<1>4. y % 256 = y
  <2> HIDE DEF y
  <2>1. QED
    BY <1>3
<1>5. ASSUME NEW j \in 0..7 PROVE Bit(y, j) = (Bit(reg, j + 8) + Bit(c, j)) % 2
  <2>1. j \in 0..15 /\ j \in 0..23
    OBVIOUS
  <2>2. Bit(h, j) = Bit(reg, j + 8)
    BY <2>1, BitShifted
  <2> HIDE DEF y, h
  <2>3. QED
    BY <1>2, <2>1, <2>2
<1> HIDE DEF y
<1>6. Selects(reg, c, y)
  BY <1>2, <1>5 DEF Selects
<1>7. TableIndex(reg, c) = y
  BY <1>4 DEF TableIndex, y
<1>8. QED
  BY <1>3, <1>6, <1>7

(* What update_crc() makes of an octet is what the modem makes of its      *)
(* digits.                                                                 *)
LEMMA OctetAgrees ==
  ASSUME NEW reg, NEW r, Register(reg, r), NEW c \in Octet,
         NEW b, OctetBits(b, c),
         NEW g, Shifting(g, 8, r, b)
  PROVE  Register(update_crc(reg, c), g[8])
<1>1. reg \in Nat /\ reg < 65536
  BY DEF Register
<1> DEFINE x == TableIndex(reg, c)
<1>0. Word(reg)
  BY <1>1 DEF Word
<1>2. Selects(reg, c, x) /\ x \in Octet
  BY <1>0, EntryIs, Zenon
<1> HIDE DEF x
<1>3. PICK p : Rounds(p, x)
  BY <1>2, TableUnfolds DEF Octet
<1>4. Rolled(reg, c, x, p[8], g[8], 8)
  <2>1. \A k \in 0..8 : Rolled(reg, c, x, p[k], g[k], k)
    <3>1. reg \in Nat
      BY <1>1
    <3>2. QED
      BY <1>2, <1>3, <3>1, OctetRolls, Zenon
  <2>2. 8 \in 0..8
    OBVIOUS
  <2>3. QED
    BY <2>1, <2>2
<1> DEFINE t == p[8][1]
           m == 256 * reg
           y == Xor(m, t)
<1>5. tab[x] = t
  BY <1>2, <1>3 DEF tab, Rounds, Octet
<1>6. t \in Nat /\ m \in Nat
  BY <1>1, <1>4 DEF Rolled
<1>7. update_crc(reg, c) = y % 65536
  BY <1>5 DEF update_crc, x, TableIndex
<1>8. g[8] \in [1..16 -> {0, 1}] /\
      \A j \in 0..15 : g[8][16 - j] = (Bit(t, j) + (IF j >= 8 THEN Bit(reg, j - 8) ELSE 0)) % 2
  BY <1>4 DEF Rolled
<1>9. \A j \in 0..15 : Bit(m, j) = IF j >= 8 THEN Bit(reg, j - 8) ELSE 0
  <2> SUFFICES ASSUME NEW j \in 0..15 PROVE Bit(m, j) = IF j >= 8 THEN Bit(reg, j - 8) ELSE 0
    OBVIOUS
  <2>1. j >= 8 => j - 8 \in 0..15 /\ (j - 8) + 8 = j
    OBVIOUS
  <2>2. QED
    BY <1>1, <2>1, BitShifted
<1> HIDE DEF t, m
<1>10. /\ y \in Nat /\ \A k \in 0..23 : Bit(y, k) = (Bit(m, k) + Bit(t, k)) % 2
  BY <1>6, XorIs DEF IsXor
<1> HIDE DEF y
<1>11. \A j \in 0..15 : Bit(y % 65536, j) = Bit(y, j)
  BY <1>10, BitOfRest
<1>12. y % 65536 \in Nat /\ y % 65536 < 65536
  <2>1. 0 \in 0..15
    OBVIOUS
  <2>2. QED
    BY <1>10, <2>1, BitOfRest
<1>13. ASSUME NEW j \in 0..15 PROVE g[8][16 - j] = Bit(y % 65536, j)
  <2>1. j \in 0..23 /\ j \in 0..31
    OBVIOUS
  <2>2. Bit(m, j) \in {0, 1} /\ Bit(t, j) \in {0, 1}
    BY <1>6, <2>1, BitTyped
  <2>3. g[8][16 - j] = (Bit(t, j) + Bit(m, j)) % 2
    BY <1>8, <1>9
  <2>4. Bit(y % 65536, j) = (Bit(m, j) + Bit(t, j)) % 2
    BY <1>10, <1>11, <2>1
  <2> DEFINE u == Bit(m, j)
             v == Bit(t, j)
  <2>5. u + v = v + u
    BY <2>2
  <2>6. QED
    BY <2>3, <2>4, <2>5
<1>14. QED
  BY <1>7, <1>8, <1>12, <1>13 DEF Register

Registers == [1..16 -> {0, 1}]

LEMMA ShiftTyped ==
  ASSUME NEW r \in Registers, NEW d \in {0, 1} PROVE Shift(r, d) \in Registers
<1> DEFINE fb == (r[1] + d) % 2
<1>1. \A i \in 1..16 : r[i] \in {0, 1}
  BY DEF Registers
<1>2. fb \in {0, 1}
  <2>1. r[1] \in {0, 1}
    BY <1>1
  <2>2. QED
    BY <2>1
<1>3. r \in [1..16 -> {0, 1}]
  BY DEF Registers
<1>4. QED
  BY <1>2, <1>3, ShiftIs DEF Registers

LEMMA OctetBinary ==
  ASSUME NEW c \in Octet
  PROVE  /\ Binary(c, 8) = [k \in 1..8 |-> (c \div 2^(8 - k)) % 2]
         /\ Binary(c, 8) \in Seq({0, 1}) /\ Len(Binary(c, 8)) = 8
<1>1. 2^8 = 256
  OBVIOUS
<1>2. c \in 0..2^8 - 1 /\ 8 \in 1..31
  BY <1>1 DEF Octet
<1>3. QED
  BY <1>2, BinaryIs

LEMMA FlattenDigits ==
  ASSUME NEW n \in Nat, NEW parts \in Seq(Digits), Len(parts) = n, NEW cat, Joined(cat, parts, n)
  PROVE  FlattenSeq(parts) = cat[n]
<1>1. DOMAIN parts = 1..n /\ \A i \in 1..n : parts[i] \in Digits
  OBVIOUS
<1>2. Together(cat, parts, n) /\ \A i \in 0..n : cat[i] \in Digits
  BY DEF Joined
<1>3. n = 0 => parts = <<>>
  BY EmptySeq
<1>4. QED
  BY <1>1, <1>2, <1>3, FlattenIs DEF Digits

(* The digits of a line, octet by octet.                                   *)
LEMMA LineDigits ==
  ASSUME NEW line \in Seq(Octet)
  PROVE  FlattenSeq([i \in DOMAIN line |-> [k \in 1..8 |-> (line[i] \div 2^(8 - k)) % 2]]) = Chars(line)
<1> DEFINE n == Len(line)
           parts == [i \in DOMAIN line |-> [k \in 1..8 |-> (line[i] \div 2^(8 - k)) % 2]]
           b == Chars(line)
<1>1. n \in Nat /\ DOMAIN line = 1..n
  OBVIOUS
<1>2. /\ b \in Digits /\ Len(b) = 8 * n
      /\ \A i \in 1..n, j \in 1..8 : b[8 * (i - 1) + j] = Binary(line[i], 8)[j]
  BY CharsIs
<1> HIDE DEF b
<1>3. ASSUME NEW i \in 1..n
      PROVE  /\ parts[i] \in Digits /\ Len(parts[i]) = 8
             /\ \A j \in 1..8 : parts[i][j] = b[8 * (i - 1) + j]
  <2> DEFINE c == line[i]
  <2>1. c \in Octet
    BY ElementOfSeq
  <2>2. parts[i] = [k \in 1..8 |-> (c \div 2^(8 - k)) % 2]
    BY <1>1
  <2>3. \A j \in 1..8 : b[8 * (i - 1) + j] = Binary(c, 8)[j]
    BY <1>2
  <2> HIDE DEF c, parts, n
  <2>4. /\ Binary(c, 8) = [k \in 1..8 |-> (c \div 2^(8 - k)) % 2]
        /\ Binary(c, 8) \in Seq({0, 1}) /\ Len(Binary(c, 8)) = 8
    BY <2>1, OctetBinary, Zenon
  <2>5. parts[i] = Binary(c, 8)
    BY <2>2, <2>4, Zenon
  <2>6. QED
    BY <2>3, <2>4, <2>5 DEF Digits
<1>4. DOMAIN parts = 1..n
  BY <1>1
<1>4a. parts \in Seq({parts[i] : i \in 1..n}) /\ Len(parts) = n
  BY <1>1
<1> HIDE DEF parts
<1>5. PICK cat : Joined(cat, parts, n)
  BY <1>1, <1>3, JoinedExists
<1>6. Together(cat, parts, n) /\ \A i \in 0..n : cat[i] \in Digits
  BY <1>5 DEF Joined
<1>7. parts \in Seq(Digits) /\ Len(parts) = n
  <2> HIDE DEF n
  <2>1. \A i \in 1..n : parts[i] \in Digits
    BY <1>3
  <2>2. {parts[i] : i \in 1..n} \subseteq Digits
    BY <2>1
  <2>3. QED
    BY <1>4a, <2>2
<1>8. FlattenSeq(parts) = cat[n]
  BY <1>1, <1>5, <1>7, FlattenDigits, Zenon
<1> HIDE DEF n
<1> DEFINE S == {i \in 0..n : Len(cat[i]) = 8 * i /\ \A k \in 1..8 * i : cat[i][k] = b[k]}
<1>9. 0 \in S
  <2>1. cat[0] = <<>> /\ 0 \in 0..n
    BY <1>1, <1>6 DEF Together
  <2>2. QED
    BY <2>1
<1>10. ASSUME NEW i \in 0..(n - 1), i \in S PROVE i + 1 \in S
  <2> DEFINE c == cat[i]
             p == parts[i + 1]
  <2>1. i + 1 \in 1..n /\ (i + 1) - 1 = i /\ i \in Nat /\ i \in 0..n /\ i + 1 \in 0..n
    BY <1>1
  <2>2. cat[i + 1] = c \o p
    BY <1>6, <2>1 DEF Together
  <2>3. /\ c \in Seq({0, 1}) /\ Len(c) = 8 * i /\ \A k \in 1..8 * i : c[k] = b[k]
    BY <1>6, <1>10, <2>1 DEF Digits
  <2>4. /\ p \in Seq({0, 1}) /\ Len(p) = 8 /\ \A j \in 1..8 : p[j] = b[8 * i + j]
    BY <1>3, <2>1 DEF Digits
  <2> HIDE DEF c, p
  <2>5. /\ Len(c \o p) = 8 * i + 8
        /\ \A k \in 1..8 * i + 8 : (c \o p)[k] = IF k <= 8 * i THEN c[k] ELSE p[k - 8 * i]
    <3> DEFINE m == 8 * i
    <3>1. Len(c) = m
      BY <2>3
    <3> HIDE DEF m
    <3>2. /\ Len(c \o p) = Len(c) + Len(p)
          /\ \A k \in 1..Len(c) + Len(p) : (c \o p)[k] = IF k <= Len(c) THEN c[k] ELSE p[k - Len(c)]
      BY <2>3, <2>4, ConcatProperties
    <3>3. QED
      BY <2>4, <3>1, <3>2 DEF m
  <2>6. ASSUME NEW k \in 1..8 * (i + 1) PROVE (c \o p)[k] = b[k]
    <3>0. k \in 1..8 * i + 8
      BY <2>1
    <3>1. CASE k <= 8 * i
      <4>1. k \in 1..8 * i
        BY <2>1, <3>1
      <4>2. QED
        BY <2>3, <2>5, <3>0, <3>1, <4>1
    <3>2. CASE ~ (k <= 8 * i)
      <4>1. k - 8 * i \in 1..8 /\ 8 * i + (k - 8 * i) = k
        BY <2>1, <3>2
      <4>2. p[k - 8 * i] = b[8 * i + (k - 8 * i)]
        BY <2>4, <4>1
      <4>3. QED
        BY <2>5, <3>0, <3>2, <4>1, <4>2
    <3>3. QED
      BY <3>1, <3>2
  <2>7. 8 * i + 8 = 8 * (i + 1)
    BY <2>1
  <2>8. QED
    BY <2>1, <2>2, <2>5, <2>6, <2>7
<1>11. n \in S
  <2>1. 0..n \subseteq S
    <3> HIDE DEF S
    <3>1. QED
      BY <1>1, <1>9, <1>10, UpToInduction
  <2>2. n \in 0..n
    BY <1>1
  <2>3. QED
    BY <2>1, <2>2
<1>12. cat[n] = b
  <2>1. Len(cat[n]) = Len(b) /\ (\A k \in 1..Len(b) : cat[n][k] = b[k]) /\ n \in 0..n
    BY <1>1, <1>2, <1>11
  <2>2. cat[n] \in Seq({0, 1}) /\ b \in Seq({0, 1})
    BY <1>2, <1>6, <2>1 DEF Digits
  <2>3. QED
    BY <2>1, <2>2, SeqEqual
<1>13. QED
  BY <1>8, <1>12 DEF parts, b

(* The division, digit by digit.                                           *)
Divides(r, line) ==
    /\ r[0] = [i \in 1..16 |-> 1]
    /\ \A k \in 1..8 * Len(line) : r[k] = Shift(r[k - 1], Chars(line)[k])
    /\ \A k \in 0..8 * Len(line) : r[k] \in Registers
    /\ Remainder(line) = FromBits(r[8 * Len(line)])

(* The remainder is the modem's register after the last digit.             *)
LEMMA RemainderUnfolds ==
  ASSUME NEW line \in Seq(Octet) PROVE \E r : Divides(r, line)
<1> DEFINE n == 8 * Len(line)
           b == Chars(line)
           A == Registers
           base == [i \in 1..16 |-> 1]
           step == [i \in 1..n |-> [a \in A |-> Shift(a, b[i])]]
           Folds(g) == g = [s \in SUBSET (DOMAIN b) |->
                            IF s = {} THEN base ELSE Shift(g[s \ {Max(s)}], b[Max(s)])]
<1>0. /\ n \in Nat /\ b \in Digits /\ Len(b) = n /\ DOMAIN b = 1..n
      /\ \A i \in 1..n : b[i] \in {0, 1}
  <2>1. Len(line) \in Nat /\ b \in Seq({0, 1}) /\ Len(b) = 8 * Len(line)
    BY CharsIs DEF Digits
  <2> HIDE DEF b
  <2>2. QED
    BY <2>1 DEF Digits
<1>b. base \in A
  BY DEF Registers
<1>1. \E g : Folds(g)
  <2> HIDE DEF b, n, base
  <2>1. \A i \in 1..n : \A a \in A : step[i][a] = Shift(a, b[i]) /\ step[i][a] \in A
    BY <1>0, ShiftTyped
  <2>2. PICK it \in [SUBSET (1..n) -> A] : IsFold(it, n, base, step)
    <3>1. \A i \in 1..n : \A a \in A : step[i][a] \in A
      BY <2>1
    <3> HIDE DEF step, A
    <3>2. QED
      BY <1>0, <1>b, <3>1, FoldExists
  <2> HIDE DEF step, A
  <2>3. ASSUME NEW s \in SUBSET (1..n), s # {}
        PROVE  step[Max(s)][it[s \ {Max(s)}]] = Shift(it[s \ {Max(s)}], b[Max(s)])
    <3>1. Max(s) \in 1..n /\ it[s \ {Max(s)}] \in A
      BY <1>0, <2>3, GreatestExists
    <3>2. QED
      BY <2>1, <3>1
  <2>4. Folds(it)
    BY <1>0, <2>2, <2>3 DEF IsFold
  <2>5. QED
    BY <2>4
<1>2. Remainder(line) = FromBits((CHOOSE g : Folds(g))[DOMAIN b])
  <2> DEFINE fold == FoldLeft(Shift, base, b)
  <2>1. Remainder(line) = FromBits(fold)
    BY LineDigits, Zenon DEF Remainder
  <2>2. fold = (CHOOSE g : Folds(g))[DOMAIN b]
    BY Zenon DEF FoldLeft, MapThenFoldSet
  <2> HIDE DEF fold, Folds
  <2>3. QED
    BY <2>1, <2>2, Zenon
<1>3. PICK g : Folds(g) /\ Remainder(line) = FromBits(g[1..n])
  <2> HIDE DEF b, n, base
  <2>1. QED
    BY <1>0, <1>1, <1>2
<1> DEFINE p == [k \in 0..n |-> g[1..k]]
<1> HIDE DEF n, b, A, base
<1>4. p[0] = base
  <2>1. 1..0 = {} /\ {} \in SUBSET (1..n)
    OBVIOUS
  <2>2. QED
    BY <1>0, <1>3, <2>1
<1>5. \A k \in 1..n : p[k] = Shift(p[k - 1], b[k])
  <2> SUFFICES ASSUME NEW k \in 1..n PROVE g[1..k] = Shift(g[1..(k - 1)], b[k])
    BY <1>0
  <2>1. 1..k \in SUBSET (1..n) /\ Max(1..k) = k /\ (1..k) \ {k} = 1..(k - 1) /\ 1..k # {}
    <3>1. k \in Nat /\ k # 0 /\ \A x \in 1..k : x \in 1..n
      BY <1>0
    <3>2. QED
      BY <3>1, MaxUpTo
  <2>2. QED
    BY <1>0, <1>3, <2>1
<1>6. \A k \in 0..n : p[k] \in A
  <2> DEFINE S == {k \in 0..n : p[k] \in A}
  <2>1. 0 \in S
    BY <1>0, <1>4, <1>b
  <2>2. ASSUME NEW k \in 0..(n - 1), k \in S PROVE k + 1 \in S
    <3>1. k + 1 \in 1..n /\ (k + 1) - 1 = k
      BY <1>0
    <3> HIDE DEF p
    <3>2. p[k + 1] = Shift(p[k], b[k + 1]) /\ b[k + 1] \in {0, 1}
      BY <1>0, <1>5, <3>1
    <3>3. QED
      BY <1>0, <2>2, <3>1, <3>2, ShiftTyped DEF A
  <2>3. 0..n \subseteq S
    <3> HIDE DEF S
    <3>1. QED
      BY <1>0, <2>1, <2>2, UpToInduction
  <2>4. QED
    BY <2>3
<1>7. p[n] = g[1..n]
  BY <1>0
<1> HIDE DEF p
<1>8. Divides(p, line)
  BY <1>3, <1>4, <1>5, <1>6, <1>7 DEF Divides, base, n, b, A
<1>9. QED
  BY <1>8

LEMMA ShiftingExists ==
  ASSUME NEW n \in Nat, NEW base \in Registers, NEW b, \A k \in 1..n : b[k] \in {0, 1}
  PROVE  \E g : Shifting(g, n, base, b)
<1> DEFINE A == Registers
           step == [i \in 1..n |-> [a \in A |-> Shift(a, b[i])]]
<1>1. \A i \in 1..n : \A a \in A : step[i][a] = Shift(a, b[i]) /\ step[i][a] \in A
  BY ShiftTyped
<1> HIDE DEF step
<1>2. PICK g : Chain(g, n, base, step) /\ Within(g, n, A)
  <2> HIDE DEF A
  <2>1. base \in A /\ \A i \in 1..n : \A a \in A : step[i][a] \in A
    BY <1>1 DEF A
  <2>2. QED
    BY <2>1, ChainExists
<1>3. ASSUME NEW k \in 1..n PROVE g[k] = Shift(g[k - 1], b[k])
  <2>1. k - 1 \in 0..n
    OBVIOUS
  <2>2. g[k - 1] \in A
    BY <1>2, <2>1 DEF Within
  <2>3. QED
    BY <1>1, <1>2, <2>2 DEF Chain
<1>4. Shifting(g, n, base, b)
  BY <1>2, <1>3 DEF Shifting, Chain, Within, Registers
<1>5. QED
  BY <1>4

(* Every number of 16 digits has its register, and every register its      *)
(* number.                                                                 *)
LEMMA RegisterOf ==
  ASSUME NEW reg, Word(reg) PROVE \E r \in Registers : Register(reg, r)
<1> DEFINE r == [i \in 1..16 |-> Bit(reg, 16 - i)]
<1>1. reg \in Nat /\ reg < 65536
  BY DEF Word
<1>2. \A i \in 1..16 : Bit(reg, 16 - i) \in {0, 1}
  <2>1. \A i \in 1..16 : 16 - i \in 0..31
    OBVIOUS
  <2>2. QED
    BY <1>1, <2>1, BitTyped
<1>3. r \in [1..16 -> {0, 1}]
  BY <1>2
<1>4. \A j \in 0..15 : r[16 - j] = Bit(reg, j)
  <2> SUFFICES ASSUME NEW j \in 0..15 PROVE r[16 - j] = Bit(reg, j)
    OBVIOUS
  <2>1. 16 - j \in 1..16 /\ 16 - (16 - j) = j
    OBVIOUS
  <2>2. QED
    BY <2>1
<1> HIDE DEF r
<1>5. Register(reg, r)
  BY <1>1, <1>3, <1>4 DEF Register
<1>6. QED
  BY <1>3, <1>5 DEF Registers

LEMMA RegisterTyped ==
  ASSUME NEW reg, NEW r, Register(reg, r) PROVE Word(reg) /\ r \in Registers
BY DEF Register, Word, Registers

(* A register is one number.                                               *)
LEMMA RegisterOnce ==
  ASSUME NEW m, NEW n, NEW r, Register(m, r), Register(n, r) PROVE m = n
<1> DEFINE w == 16
<1>1. 2^16 = 65536
  OBVIOUS
<1>2. m \in 0..2^16 - 1 /\ n \in 0..2^16 - 1
  BY <1>1 DEF Register
<1>3. \A k \in 0..15 : Bit(m, k) = Bit(n, k)
  BY DEF Register
<1>4. w \in 1..31 /\ Alike(w, m, n)
  BY <1>2, <1>3 DEF Alike
<1> HIDE DEF w
<1>5. QED
  BY <1>4, SameBits

LEMMA RegisterNumber ==
  ASSUME NEW r \in Registers PROVE Register(FromBits(r), r)
<1> DEFINE n == 16
           x == FromBits(r)
<1>1. n \in 1..31 /\ r \in [1..n -> {0, 1}]
  BY DEF Registers
<1>2. 2^16 = 65536
  OBVIOUS
<1>3. x \in Nat /\ x \in 0..2^n - 1 /\ \A k \in 0..(n - 1) : Bit(x, k) = r[n - k]
  <2> HIDE DEF n
  <2>1. QED
    BY <1>1, FromBitsIs
<1> HIDE DEF x
<1>4. x \in Nat /\ x < 65536 /\ \A k \in 0..15 : Bit(x, k) = r[16 - k]
  BY <1>2, <1>3
<1>5. Register(x, r)
  BY <1>1, <1>4 DEF Register
<1>6. QED
  BY <1>5 DEF x

(* The digits of an octet.                                                 *)
OctetDigit(c) == [k \in 1..8 |-> Bit(c, 8 - k)]

LEMMA OctetDigitIs ==
  ASSUME NEW c \in Octet
  PROVE  OctetBits(OctetDigit(c), c) /\ \A k \in 1..8 : OctetDigit(c)[k] \in {0, 1}
<1>1. OctetBits(OctetDigit(c), c)
  BY DEF OctetBits, OctetDigit
<1>2. ASSUME NEW k \in 1..8 PROVE Bit(c, 8 - k) \in {0, 1}
  <2>1. 8 - k \in 0..31 /\ c \in Nat
    BY DEF Octet
  <2>2. QED
    BY <2>1, BitTyped
<1>3. QED
  BY <1>1, <1>2 DEF OctetDigit

(* The CRC stays a number of 16 digits.                                    *)
LEMMA UpdateTyped ==
  ASSUME NEW reg, Word(reg), NEW c \in Octet PROVE Word(update_crc(reg, c))
<1>1. PICK r \in Registers : Register(reg, r)
  BY RegisterOf
<1> DEFINE b == OctetDigit(c)
<1>2. OctetBits(b, c) /\ \A k \in 1..8 : b[k] \in {0, 1}
  BY OctetDigitIs
<1> HIDE DEF b
<1>3. PICK g : Shifting(g, 8, r, b)
  <2>1. 8 \in Nat
    OBVIOUS
  <2>2. QED
    BY <1>2, <2>1, ShiftingExists
<1>4. Register(update_crc(reg, c), g[8])
  BY <1>1, <1>2, <1>3, OctetAgrees, Zenon
<1>5. QED
  BY <1>4, RegisterTyped

(* The CRC, octet by octet.                                                *)
Updates(f, line) ==
    /\ f[0] = Preset
    /\ \A i \in 1..Len(line) : f[i] = update_crc(f[i - 1], line[i])
    /\ \A i \in 0..Len(line) : Word(f[i])
    /\ crc(line) = f[Len(line)]

(* The CRC of a line, octet by octet.                                      *)
LEMMA CrcUnfolds ==
  ASSUME NEW line \in Seq(Octet) PROVE \E f : Updates(f, line)
<1> DEFINE n == Len(line)
           A == {reg \in Nat : Word(reg)}
           Op(reg, c) == CHOOSE r \in {update_crc(m, c) : m \in {reg}} : TRUE
           step == [i \in 1..n |-> [a \in A |-> Op(a, line[i])]]
           Folds(g) == g = [s \in SUBSET (DOMAIN line) |->
                            IF s = {} THEN Preset ELSE Op(g[s \ {Max(s)}], line[Max(s)])]
<1>0. n \in Nat /\ DOMAIN line = 1..n /\ \A i \in 1..n : line[i] \in Octet
  BY ElementOfSeq
<1>a. ASSUME NEW reg, NEW c PROVE Op(reg, c) = update_crc(reg, c)
  OBVIOUS
<1> HIDE DEF Op
<1>b. Preset \in A
  BY DEF Preset, Word
<1>c. \A reg \in A, c \in Octet : Op(reg, c) \in A
  <2> SUFFICES ASSUME NEW reg \in A, NEW c \in Octet PROVE update_crc(reg, c) \in A
    BY <1>a
  <2>1. Word(update_crc(reg, c))
    BY UpdateTyped
  <2>2. QED
    BY <2>1 DEF Word
<1>1. \E g : Folds(g)
  <2> HIDE DEF n, A
  <2>1. \A i \in 1..n : \A a \in A : step[i][a] = Op(a, line[i]) /\ step[i][a] \in A
    BY <1>0, <1>c
  <2>2. PICK it \in [SUBSET (1..n) -> A] : IsFold(it, n, Preset, step)
    <3>1. \A i \in 1..n : \A a \in A : step[i][a] \in A
      BY <2>1
    <3> HIDE DEF step
    <3>2. QED
      BY <1>0, <1>b, <3>1, FoldExists
  <2> HIDE DEF step
  <2>3. ASSUME NEW s \in SUBSET (1..n), s # {}
        PROVE  step[Max(s)][it[s \ {Max(s)}]] = Op(it[s \ {Max(s)}], line[Max(s)])
    <3>1. Max(s) \in 1..n /\ it[s \ {Max(s)}] \in A
      BY <1>0, <2>3, GreatestExists
    <3>2. QED
      BY <2>1, <3>1
  <2>4. Folds(it)
    BY <1>0, <2>2, <2>3 DEF IsFold
  <2>5. QED
    BY <2>4
<1>2. crc(line) = (CHOOSE g : Folds(g))[DOMAIN line]
  BY Zenon DEF crc, FoldLeft, MapThenFoldSet, Op
<1>3. PICK g : Folds(g) /\ crc(line) = g[1..n]
  <2> HIDE DEF n
  <2>1. QED
    BY <1>0, <1>1, <1>2
<1> DEFINE p == [k \in 0..n |-> g[1..k]]
<1> HIDE DEF n
<1>4. p[0] = Preset
  <2>1. 1..0 = {} /\ {} \in SUBSET (1..n)
    OBVIOUS
  <2>2. QED
    BY <1>0, <1>3, <2>1
<1>5. \A k \in 1..n : p[k] = Op(p[k - 1], line[k])
  <2> SUFFICES ASSUME NEW k \in 1..n PROVE g[1..k] = Op(g[1..(k - 1)], line[k])
    BY <1>0
  <2>1. 1..k \in SUBSET (1..n) /\ Max(1..k) = k /\ (1..k) \ {k} = 1..(k - 1) /\ 1..k # {}
    <3>1. k \in Nat /\ k # 0 /\ \A x \in 1..k : x \in 1..n
      BY <1>0
    <3>2. QED
      BY <3>1, MaxUpTo
  <2>2. QED
    BY <1>0, <1>3, <2>1
<1>6. \A k \in 0..n : p[k] \in A
  <2> DEFINE S == {k \in 0..n : p[k] \in A}
  <2> HIDE DEF A
  <2>1. 0 \in S
    BY <1>0, <1>4, <1>b
  <2>2. ASSUME NEW k \in 0..(n - 1), k \in S PROVE k + 1 \in S
    <3>1. k + 1 \in 1..n /\ (k + 1) - 1 = k
      BY <1>0
    <3> HIDE DEF p
    <3>2. p[k + 1] = Op(p[k], line[k + 1]) /\ line[k + 1] \in Octet
      BY <1>0, <1>5, <3>1
    <3>3. QED
      BY <1>0, <1>c, <2>2, <3>1, <3>2
  <2>3. 0..n \subseteq S
    <3> HIDE DEF S
    <3>1. QED
      BY <1>0, <2>1, <2>2, UpToInduction
  <2>4. QED
    BY <2>3
<1>7. p[n] = g[1..n]
  BY <1>0
<1> HIDE DEF p
<1>8. Updates(p, line)
  <2>1. \A k \in 1..n : p[k] = update_crc(p[k - 1], line[k])
    BY <1>5, <1>a
  <2>2. \A k \in 0..n : Word(p[k])
    BY <1>6
  <2>3. QED
    BY <1>3, <1>4, <1>7, <2>1, <2>2 DEF Updates, n
<1>9. QED
  BY <1>8

(* For every line, the CRC that crcxmodem.py computes octet by octet from  *)
(* its table is the remainder that the modem divides out digit by digit.   *)
THEOREM CrcIsRemainder ==
  ASSUME NEW line \in Seq(Octet) PROVE crc(line) = Remainder(line)
<1>1. PICK f : Updates(f, line)
  BY CrcUnfolds
<1>2. PICK r : Divides(r, line)
  BY RemainderUnfolds
<1> DEFINE n == Len(line)
           b == Chars(line)
<1>3. n \in Nat /\ \A i \in 1..n : line[i] \in Octet
  BY ElementOfSeq
<1>4. /\ b \in Digits /\ Len(b) = 8 * n
      /\ \A i \in 1..n, j \in 1..8 : b[8 * (i - 1) + j] = Binary(line[i], 8)[j]
  BY CharsIs
<1>5. /\ r[0] = [i \in 1..16 |-> 1] /\ \A k \in 1..8 * n : r[k] = Shift(r[k - 1], b[k])
      /\ \A k \in 0..8 * n : r[k] \in Registers
      /\ Remainder(line) = FromBits(r[8 * n])
  BY <1>2 DEF Divides
<1>6. /\ f[0] = Preset /\ \A i \in 1..n : f[i] = update_crc(f[i - 1], line[i])
      /\ crc(line) = f[n]
  BY <1>1 DEF Updates
<1> HIDE DEF n, b
<1> DEFINE S == {i \in 0..n : Register(f[i], r[8 * i])}
<1>7. 0 \in S
  <2> DEFINE q == [i \in 1..16 |-> 1]
             m == 65535
  <2>0. q \in [1..16 -> {0, 1}] /\ \A j \in 0..15 : q[16 - j] = 1
    OBVIOUS
  <2> HIDE DEF q
  <2>1. /\ (m \div 1) % 2 = 1 /\ (m \div 2) % 2 = 1 /\ (m \div 4) % 2 = 1 /\ (m \div 8) % 2 = 1
        /\ (m \div 16) % 2 = 1 /\ (m \div 32) % 2 = 1 /\ (m \div 64) % 2 = 1 /\ (m \div 128) % 2 = 1
        /\ (m \div 256) % 2 = 1 /\ (m \div 512) % 2 = 1 /\ (m \div 1024) % 2 = 1
        /\ (m \div 2048) % 2 = 1 /\ (m \div 4096) % 2 = 1 /\ (m \div 8192) % 2 = 1
        /\ (m \div 16384) % 2 = 1 /\ (m \div 32768) % 2 = 1
    OBVIOUS
  <2>b. m \in Nat /\ m < 65536
    OBVIOUS
  <2> HIDE DEF m
  <2>2. \A j \in 0..15 : Bit(m, j) = 1
    <3> SUFFICES ASSUME NEW j \in 0..15 PROVE Bit(m, j) = 1
      OBVIOUS
    <3>1. j \in {0, 1, 2, 3, 4, 5, 6, 7, 8, 9, 10, 11, 12, 13, 14, 15}
      OBVIOUS
    <3>2. /\ Bit(m, 0) = 1 /\ Bit(m, 1) = 1 /\ Bit(m, 2) = 1 /\ Bit(m, 3) = 1
          /\ Bit(m, 4) = 1 /\ Bit(m, 5) = 1 /\ Bit(m, 6) = 1 /\ Bit(m, 7) = 1
      BY <2>1, BitsAre
    <3>3. /\ Bit(m, 8) = 1 /\ Bit(m, 9) = 1 /\ Bit(m, 10) = 1 /\ Bit(m, 11) = 1
          /\ Bit(m, 12) = 1 /\ Bit(m, 13) = 1 /\ Bit(m, 14) = 1 /\ Bit(m, 15) = 1
      BY <2>1, BitsAre
    <3>4. QED
      BY <3>1, <3>2, <3>3
  <2>3. Register(m, q)
    BY <2>0, <2>b, <2>2 DEF Register
  <2>4. f[0] = m /\ r[0] = q /\ 8 * 0 = 0 /\ 0 \in 0..n
    BY <1>3, <1>5, <1>6 DEF m, q, Preset
  <2>5. QED
    BY <2>3, <2>4
<1>8. ASSUME NEW i \in 0..(n - 1), i \in S PROVE i + 1 \in S
  <2> DEFINE e == 8 * i
             c == line[i + 1]
             d == [k \in 1..8 |-> b[e + k]]
             g == [k \in 0..8 |-> r[e + k]]
  <2>1. i + 1 \in 1..n /\ (i + 1) - 1 = i /\ e \in Nat /\ 8 * (i + 1) = e + 8 /\ e + 8 <= 8 * n
        /\ i + 1 \in 0..n /\ e + 0 = e
    BY <1>3
  <2>2. Register(f[i], r[e]) /\ c \in Octet /\ f[i + 1] = update_crc(f[i], c)
    BY <1>3, <1>6, <1>8, <2>1
  <2>3. OctetBits(d, c)
    <3> SUFFICES ASSUME NEW k \in 1..8 PROVE d[k] = Bit(c, 8 - k)
      BY Zenon DEF OctetBits
    <3>1. d[k] = Binary(c, 8)[k]
      BY <1>4, <2>1
    <3>2. Binary(c, 8)[k] = (c \div 2^(8 - k)) % 2
      BY <2>2, OctetDigits
    <3>3. QED
      BY <3>1, <3>2 DEF Bit
  <2> HIDE DEF c
  <2>4. Shifting(g, 8, r[e], d)
    <3>1. g[0] = r[e]
      BY <2>1
    <3>2. ASSUME NEW k \in 1..8 PROVE g[k] = Shift(g[k - 1], d[k])
      <4> HIDE DEF e, g, d
      <4>1. e + k \in 1..8 * n /\ (e + k) - 1 = e + (k - 1) /\ k - 1 \in 0..8 /\ k \in 0..8
        BY <1>3, <2>1
      <4> USE DEF g, d
      <4>2. QED
        BY <1>5, <4>1
    <3>3. ASSUME NEW k \in 0..8 PROVE g[k] \in Registers
      <4> HIDE DEF e, g, d
      <4>1. e + k \in 0..8 * n
        BY <1>3, <2>1
      <4> USE DEF g, d
      <4>2. QED
        BY <1>5, <4>1
    <3> HIDE DEF g, d, e
    <3>4. QED
      BY <3>1, <3>2, <3>3 DEF Shifting, Registers
  <2>5. g[8] = r[8 * (i + 1)]
    BY <2>1
  <2> HIDE DEF g, d, e
  <2>6. Register(update_crc(f[i], c), g[8])
    BY <2>2, <2>3, <2>4, OctetAgrees, Zenon
  <2>7. QED
    BY <2>1, <2>2, <2>5, <2>6
<1>9. Register(f[n], r[8 * n])
  <2>1. 0..n \subseteq S
    <3> HIDE DEF S
    <3>1. QED
      BY <1>3, <1>7, <1>8, UpToInduction
  <2>2. n \in 0..n
    BY <1>3
  <2>3. QED
    BY <2>1, <2>2
<1>10. r[8 * n] \in Registers
  BY <1>9, RegisterTyped
<1>11. Register(FromBits(r[8 * n]), r[8 * n])
  BY <1>10, RegisterNumber
<1>12. QED
  BY <1>5, <1>6, <1>9, <1>11, RegisterOnce

(* The registers agree but for the first m places.                         *)
Agree(r, q, m) == \A j \in (m + 1)..16 : r[j] = q[j]

(* The bit that a round of the division adds.                              *)
FedBack(r, d) == (r[1] + d) % 2

(* A step back: what is not yet known to agree grows by one place.         *)
LEMMA StepBack ==
  ASSUME NEW r \in Registers, NEW q \in Registers, NEW d \in {0, 1}, NEW e \in {0, 1},
         NEW m \in 0..15, Agree(Shift(r, d), Shift(q, e), m)
  PROVE  FedBack(r, d) = FedBack(q, e) /\ Agree(r, q, m + 1)
<1> DEFINE a == FedBack(r, d)
           b == FedBack(q, e)
<1>1. /\ a \in {0, 1} /\ Shift(r, d)[16] = a
      /\ \A j \in 1..15 : Shift(r, d)[16 - j] = (r[16 - (j - 1)] + (IF j \in {5, 12} THEN a ELSE 0)) % 2
  <2>1. r \in [1..16 -> {0, 1}]
    BY DEF Registers
  <2>2. QED
    BY <2>1, ShiftIs, Zenon DEF FedBack
<1>2. /\ b \in {0, 1} /\ Shift(q, e)[16] = b
      /\ \A j \in 1..15 : Shift(q, e)[16 - j] = (q[16 - (j - 1)] + (IF j \in {5, 12} THEN b ELSE 0)) % 2
  <2>1. q \in [1..16 -> {0, 1}]
    BY DEF Registers
  <2>2. QED
    BY <2>1, ShiftIs, Zenon DEF FedBack
<1>3. a = b
  <2>1. 16 \in (m + 1)..16
    OBVIOUS
  <2>2. QED
    BY <1>1, <1>2, <2>1 DEF Agree
<1>4. ASSUME NEW j \in (m + 2)..16 PROVE r[j] = q[j]
  <2> DEFINE k == 17 - j
  <2>1. k \in 1..15 /\ 16 - (k - 1) = j /\ 16 - k \in (m + 1)..16
    OBVIOUS
  <2>2. r[j] \in {0, 1} /\ q[j] \in {0, 1}
    BY DEF Registers
  <2>3. Shift(r, d)[16 - k] = Shift(q, e)[16 - k]
    BY <2>1 DEF Agree
  <2> HIDE DEF k, a, b
  <2>4. (r[j] + (IF k \in {5, 12} THEN a ELSE 0)) % 2 = (q[j] + (IF k \in {5, 12} THEN b ELSE 0)) % 2
    BY <1>1, <1>2, <2>1, <2>3
  <2>5. QED
    BY <1>1, <1>3, <2>2, <2>4
<1>5. QED
  BY <1>3, <1>4 DEF Agree

(* The division by the same digit is one to one.                           *)
LEMMA ShiftOnce ==
  ASSUME NEW r \in Registers, NEW q \in Registers, NEW d \in {0, 1}, Shift(r, d) = Shift(q, d)
  PROVE  r = q
<1>1. Agree(Shift(r, d), Shift(q, d), 0)
  BY DEF Agree
<1>2. FedBack(r, d) = FedBack(q, d) /\ Agree(r, q, 1)
  BY <1>1, StepBack
<1>3. r[1] = q[1]
  BY <1>2 DEF FedBack, Registers
<1>4. \A j \in 1..16 : r[j] = q[j]
  BY <1>2, <1>3 DEF Agree
<1>5. QED
  BY <1>4 DEF Registers

(* Eight digits that take a register to the same one are the same.         *)
LEMMA SameOctet ==
  ASSUME NEW base \in Registers, NEW b, NEW c, \A k \in 1..8 : b[k] \in {0, 1} /\ c[k] \in {0, 1},
         NEW g, Shifting(g, 8, base, b), NEW h, Shifting(h, 8, base, c), g[8] = h[8]
  PROVE  \A k \in 1..8 : b[k] = c[k]
<1>1. /\ g[0] = base /\ (\A k \in 1..8 : g[k] = Shift(g[k - 1], b[k]))
      /\ \A k \in 0..8 : g[k] \in Registers
  BY DEF Shifting, Registers
<1>2. /\ h[0] = base /\ (\A k \in 1..8 : h[k] = Shift(h[k - 1], c[k]))
      /\ \A k \in 0..8 : h[k] \in Registers
  BY DEF Shifting, Registers
<1> DEFINE S == {m \in 0..8 : Agree(g[8 - m], h[8 - m], m)}
<1>3. 0 \in S
  BY DEF Agree
<1>4. ASSUME NEW m \in 0..7, m \in S PROVE m + 1 \in S
  <2> DEFINE k == 8 - m
  <2>1. k \in 1..8 /\ k - 1 \in 0..8 /\ 8 - (m + 1) = k - 1 /\ m \in 0..15 /\ m + 1 \in 0..8
    OBVIOUS
  <2>2. Agree(g[k], h[k], m)
    BY <1>4
  <2> HIDE DEF k
  <2>3. Agree(Shift(g[k - 1], b[k]), Shift(h[k - 1], c[k]), m)
    BY <1>1, <1>2, <2>1, <2>2
  <2>4. Agree(g[k - 1], h[k - 1], m + 1)
    BY <1>1, <1>2, <2>1, <2>3, StepBack
  <2>5. QED
    BY <2>1, <2>4
<1>5. 0..8 \subseteq S
  <2> HIDE DEF S
  <2>1. 8 - 1 = 7
    OBVIOUS
  <2>2. \A i \in 0..(8 - 1) : i \in S => i + 1 \in S
    BY <1>4, <2>1
  <2>3. QED
    BY <1>3, <2>2, UpToInduction
<1>6. ASSUME NEW k \in 1..8 PROVE FedBack(g[k - 1], b[k]) = FedBack(h[k - 1], c[k])
  <2> DEFINE m == 8 - k
  <2>1. m \in 0..8 /\ 8 - m = k /\ k - 1 \in 0..8 /\ m \in 0..15
    OBVIOUS
  <2>2. Agree(g[k], h[k], m)
    BY <1>5, <2>1
  <2> HIDE DEF m
  <2>3. Agree(Shift(g[k - 1], b[k]), Shift(h[k - 1], c[k]), m)
    BY <1>1, <1>2, <2>2
  <2>4. g[k - 1] \in Registers /\ h[k - 1] \in Registers
    BY <1>1, <1>2, <2>1
  <2>5. QED
    BY <2>1, <2>3, <2>4, StepBack
<1>7. ASSUME NEW k \in 1..8, g[k - 1] = h[k - 1] PROVE b[k] = c[k]
  <2>1. g[k - 1][1] \in {0, 1}
    BY <1>1 DEF Registers
  <2>2. (g[k - 1][1] + b[k]) % 2 = (g[k - 1][1] + c[k]) % 2
    BY <1>6, <1>7 DEF FedBack
  <2>3. QED
    BY <2>1, <2>2
<1> DEFINE T == {m \in 0..8 : g[m] = h[m]}
<1>8. 0 \in T
  BY <1>1, <1>2
<1>9. ASSUME NEW m \in 0..7, m \in T PROVE m + 1 \in T
  <2>1. m + 1 \in 1..8 /\ (m + 1) - 1 = m /\ m + 1 \in 0..8
    OBVIOUS
  <2>2. b[m + 1] = c[m + 1]
    BY <1>7, <1>9, <2>1
  <2>3. QED
    BY <1>1, <1>2, <1>9, <2>1, <2>2
<1>10. 0..8 \subseteq T
  <2> HIDE DEF T
  <2>1. 8 - 1 = 7
    OBVIOUS
  <2>2. \A i \in 0..(8 - 1) : i \in T => i + 1 \in T
    BY <1>9, <2>1
  <2>3. QED
    BY <1>8, <2>2, UpToInduction
<1>11. QED
  <2> SUFFICES ASSUME NEW k \in 1..8 PROVE b[k] = c[k]
    OBVIOUS
  <2>1. k - 1 \in 0..8
    OBVIOUS
  <2>2. g[k - 1] = h[k - 1]
    BY <1>10, <2>1
  <2>3. QED
    BY <1>7, <2>2

(* The digits o + 1 to o + n of a sequence, and the registers there.       *)
Portion(b, o, n) == [k \in 1..n |-> b[o + k]]
Stretch(r, o, n) == [k \in 0..n |-> r[o + k]]

(* A portion of the digits shifts the register that was there before.      *)
LEMMA PortionShifts ==
  ASSUME NEW line \in Seq(Octet), NEW r, Divides(r, line), NEW o \in Nat, NEW n \in Nat,
         o + n <= 8 * Len(line)
  PROVE  /\ Shifting(Stretch(r, o, n), n, r[o], Portion(Chars(line), o, n))
         /\ Stretch(r, o, n)[0] = r[o] /\ Stretch(r, o, n)[n] = r[o + n] /\ r[o] \in Registers
         /\ \A k \in 1..n : Portion(Chars(line), o, n)[k] = Chars(line)[o + k]
         /\ \A k \in 1..n : Portion(Chars(line), o, n)[k] \in {0, 1}
<1> DEFINE b == Chars(line)
           w == 8 * Len(line)
           g == Stretch(r, o, n)
           p == Portion(b, o, n)
<1>0. b \in Digits /\ Len(b) = w /\ w \in Nat
  BY CharsIs
<1>1. /\ \A k \in 1..w : r[k] = Shift(r[k - 1], b[k])
      /\ \A k \in 0..w : r[k] \in Registers
  BY DEF Divides
<1>2. \A k \in 1..w : b[k] \in {0, 1}
  BY <1>0, DigitsOne
<1>a. o + n <= w
  OBVIOUS
<1> HIDE DEF w, b
<1>3. g[0] = r[o] /\ g[n] = r[o + n] /\ o \in 0..w
  BY <1>0, <1>a DEF Stretch
<1>4. ASSUME NEW k \in 1..n PROVE g[k] = Shift(g[k - 1], p[k]) /\ p[k] = b[o + k] /\ p[k] \in {0, 1}
  <2>1. o + k \in 1..w /\ (o + k) - 1 = o + (k - 1) /\ k - 1 \in 0..n /\ k \in 0..n
    BY <1>0, <1>a
  <2>2. g[k] = r[o + k] /\ g[k - 1] = r[o + (k - 1)] /\ p[k] = b[o + k]
    BY <2>1 DEF Stretch, Portion
  <2> HIDE DEF g, p
  <2>3. QED
    BY <1>1, <1>2, <2>1, <2>2
<1>5. ASSUME NEW k \in 0..n PROVE g[k] \in Registers
  <2>1. o + k \in 0..w
    BY <1>0, <1>a
  <2>2. g[k] = r[o + k]
    BY DEF Stretch
  <2> HIDE DEF g
  <2>3. QED
    BY <1>1, <2>1, <2>2
<1>6. r[o] \in Registers
  BY <1>1, <1>3
<1> HIDE DEF g, p
<1>7. Shifting(g, n, r[o], p)
  BY <1>3, <1>4, <1>5 DEF Shifting, Registers
<1>8. QED
  BY <1>3, <1>4, <1>6, <1>7 DEF g, p, b

(* The same digits take equal registers to equal ones, and unequal ones to *)
(* unequal ones.                                                           *)
LEMMA SameOn ==
  ASSUME NEW n \in Nat, NEW x, NEW y, NEW b, NEW g, Shifting(g, n, x, b),
         NEW h, Shifting(h, n, y, b), \A k \in 1..n : b[k] \in {0, 1}
  PROVE  (x = y => g[n] = h[n]) /\ (g[n] = h[n] => x = y)
<1>1. /\ g[0] = x /\ (\A k \in 1..n : g[k] = Shift(g[k - 1], b[k]))
      /\ \A k \in 0..n : g[k] \in Registers
  BY DEF Shifting, Registers
<1>2. /\ h[0] = y /\ (\A k \in 1..n : h[k] = Shift(h[k - 1], b[k]))
      /\ \A k \in 0..n : h[k] \in Registers
  BY DEF Shifting, Registers
<1>3. ASSUME x = y PROVE g[n] = h[n]
  <2> DEFINE S == {k \in 0..n : g[k] = h[k]}
  <2>1. 0 \in S
    BY <1>1, <1>2, <1>3
  <2>2. ASSUME NEW i \in 0..(n - 1), i \in S PROVE i + 1 \in S
    <3>1. i + 1 \in 1..n /\ (i + 1) - 1 = i /\ i + 1 \in 0..n
      OBVIOUS
    <3>2. QED
      BY <1>1, <1>2, <2>2, <3>1
  <2>3. 0..n \subseteq S
    <3> HIDE DEF S
    <3>1. QED
      BY <2>1, <2>2, UpToInduction
  <2>4. n \in 0..n
    OBVIOUS
  <2>5. QED
    BY <2>3, <2>4
<1>4. ASSUME g[n] = h[n] PROVE x = y
  <2> DEFINE S == {k \in 0..n : g[n - k] = h[n - k]}
  <2>1. 0 \in S
    BY <1>4
  <2>2. ASSUME NEW i \in 0..(n - 1), i \in S PROVE i + 1 \in S
    <3> DEFINE k == n - i
    <3>1. k \in 1..n /\ n - (i + 1) = k - 1 /\ i + 1 \in 0..n /\ k - 1 \in 0..n
      OBVIOUS
    <3>2. g[k] = h[k]
      BY <2>2
    <3> HIDE DEF k
    <3>3. g[k - 1] \in Registers /\ h[k - 1] \in Registers /\ b[k] \in {0, 1}
      BY <1>1, <1>2, <3>1
    <3>4. Shift(g[k - 1], b[k]) = Shift(h[k - 1], b[k])
      BY <1>1, <1>2, <3>1, <3>2
    <3>5. g[k - 1] = h[k - 1]
      BY <3>3, <3>4, ShiftOnce
    <3>6. QED
      BY <3>1, <3>5
  <2>3. 0..n \subseteq S
    <3> HIDE DEF S
    <3>1. QED
      BY <2>1, <2>2, UpToInduction
  <2>4. n \in 0..n /\ n - n = 0
    OBVIOUS
  <2>5. QED
    BY <1>1, <1>2, <2>3, <2>4
<1>5. QED
  BY <1>3, <1>4

(* A number is in one register only.                                       *)
LEMMA RegisterIsOne ==
  ASSUME NEW n, NEW r, NEW q, Register(n, r), Register(n, q) PROVE r = q
<1>1. r \in Registers /\ q \in Registers
  BY DEF Register, Registers
<1>2. ASSUME NEW k \in 1..16 PROVE r[k] = q[k]
  <2> DEFINE j == 16 - k
  <2>1. j \in 0..15 /\ 16 - j = k
    OBVIOUS
  <2> HIDE DEF j
  <2>2. r[16 - j] = Bit(n, j) /\ q[16 - j] = Bit(n, j)
    BY <2>1 DEF Register
  <2>3. QED
    BY <2>1, <2>2
<1>3. QED
  BY <1>1, <1>2 DEF Registers

(* A line with another octet in one place has another remainder, whatever  *)
(* its length and the two octets: validate_crc() refuses it.               *)
THEOREM GarbledDiffers ==
  ASSUME NEW line \in Seq(Octet), NEW i \in 1..Len(line), NEW c \in Octet, c # line[i]
  PROVE  Remainder([line EXCEPT ![i] = c]) # Remainder(line)
<1> DEFINE other == [line EXCEPT ![i] = c]
           n == Len(line)
           w == 8 * n
           o == 8 * (i - 1)
           b == Chars(line)
           d == Chars(other)
<1>1. /\ other \in Seq(Octet) /\ Len(other) = n /\ n \in Nat
      /\ \A j \in 1..n : other[j] = IF j = i THEN c ELSE line[j]
  OBVIOUS
<1> HIDE DEF other
<1>2. PICK r : Divides(r, line)
  BY RemainderUnfolds
<1>3. PICK q : Divides(q, other)
  BY <1>1, RemainderUnfolds
<1>4. /\ o \in Nat /\ o + 8 \in Nat /\ w - (o + 8) \in Nat /\ w \in Nat /\ (o + 8) + (w - (o + 8)) = w
      /\ o + 8 <= w /\ o <= w /\ 0 + o = o /\ (o + 8) + (w - (o + 8)) <= w /\ 0 + o <= w
  BY <1>1
<1>5. ASSUME NEW k \in 1..w, k \notin (o + 1)..(o + 8) PROVE b[k] = d[k]
  <2>1. PICK j \in 1..n, m \in 1..8 : k = 8 * (j - 1) + m
    BY <1>1, PlaceIs
  <2>2. j # i
    BY <1>5, <2>1
  <2>3. other[j] = line[j]
    BY <1>1, <2>2
  <2>4. b[8 * (j - 1) + m] = Binary(line[j], 8)[m] /\ d[8 * (j - 1) + m] = Binary(other[j], 8)[m]
    BY <1>1, CharsIs
  <2>5. QED
    BY <2>1, <2>3, <2>4
<1>6. ASSUME NEW m \in 1..8 PROVE b[o + m] = Binary(line[i], 8)[m] /\ d[o + m] = Binary(c, 8)[m]
  <2>1. other[i] = c
    BY <1>1
  <2>2. QED
    BY <1>1, <2>1, CharsIs
<1>7. r[0] = q[0]
  BY <1>2, <1>3 DEF Divides
<1>8. /\ r[w] \in Registers /\ Remainder(line) = FromBits(r[w])
      /\ q[w] \in Registers /\ Remainder(other) = FromBits(q[w])
  <2>1. w \in 0..8 * Len(line) /\ w \in 0..8 * Len(other)
    BY <1>1, <1>4
  <2>2. QED
    BY <1>1, <1>2, <1>3, <2>1 DEF Divides
<1>14. line[i] \in Octet
  BY ElementOfSeq
<1>a. w = 8 * Len(other)
  BY <1>1
<1> HIDE DEF b, d, w, o, n
<1>9. SUFFICES ASSUME Remainder(other) = Remainder(line) PROVE FALSE
  BY DEF other
<1>10. r[w] = q[w]
  <2> DEFINE x == FromBits(r[w])
  <2>1. Register(x, r[w]) /\ FromBits(q[w]) = x /\ Register(FromBits(q[w]), q[w])
    BY <1>8, <1>9, RegisterNumber
  <2>2. Register(x, q[w])
    BY <2>1
  <2> HIDE DEF x
  <2>3. QED
    BY <2>1, <2>2, RegisterIsOne
<1>11. r[o] = q[o]
  <2> DEFINE p == Portion(b, 0, o)
  <2>1. /\ Shifting(Stretch(r, 0, o), o, r[0], p) /\ Stretch(r, 0, o)[o] = r[o]
        /\ \A k \in 1..o : p[k] \in {0, 1}
    <3>1. Shifting(Stretch(r, 0, o), o, r[0], p) /\ Stretch(r, 0, o)[o] = r[0 + o]
          /\ \A k \in 1..o : p[k] \in {0, 1}
      BY <1>2, <1>4, PortionShifts DEF b, w, n
    <3>2. QED
      BY <1>4, <3>1
  <2>2. Shifting(Stretch(q, 0, o), o, q[0], Portion(d, 0, o)) /\ Stretch(q, 0, o)[o] = q[o]
    <3>0. 0 + o <= 8 * Len(other) /\ 0 \in Nat /\ o \in Nat
      BY <1>4, <1>a
    <3>1. Shifting(Stretch(q, 0, o), o, q[0], Portion(d, 0, o)) /\ Stretch(q, 0, o)[o] = q[0 + o]
      BY <1>1, <1>3, <3>0, PortionShifts DEF d
    <3>2. QED
      BY <1>4, <3>1
  <2>3. Portion(d, 0, o) = p
    <3> SUFFICES ASSUME NEW k \in 1..o PROVE d[0 + k] = b[0 + k]
      BY DEF Portion
    <3>1. k \in 1..w /\ k \notin (o + 1)..(o + 8) /\ 0 + k = k
      BY <1>4
    <3>2. QED
      BY <1>5, <3>1
  <2> HIDE DEF p
  <2>4. QED
    BY <1>4, <1>7, <2>1, <2>2, <2>3, SameOn
<1>12. r[o + 8] = q[o + 8]
  <2> DEFINE e == o + 8
             m == w - e
             p == Portion(b, e, m)
  <2>0. e \in Nat /\ m \in Nat /\ e + m = w /\ e + m <= w
    BY <1>4
  <2> HIDE DEF e, m
  <2>1. /\ Shifting(Stretch(r, e, m), m, r[e], p) /\ Stretch(r, e, m)[m] = r[w]
        /\ \A k \in 1..m : p[k] \in {0, 1}
    <3>1. /\ Shifting(Stretch(r, e, m), m, r[e], p) /\ Stretch(r, e, m)[m] = r[e + m]
          /\ \A k \in 1..m : p[k] \in {0, 1}
      BY <1>2, <2>0, PortionShifts DEF b, w, n
    <3>2. QED
      BY <2>0, <3>1
  <2>2. Shifting(Stretch(q, e, m), m, q[e], Portion(d, e, m)) /\ Stretch(q, e, m)[m] = q[w]
    <3>1. Shifting(Stretch(q, e, m), m, q[e], Portion(d, e, m)) /\ Stretch(q, e, m)[m] = q[e + m]
      BY <1>1, <1>3, <2>0, PortionShifts DEF d, w
    <3>2. QED
      BY <2>0, <3>1
  <2>3. Portion(d, e, m) = p
    <3> SUFFICES ASSUME NEW k \in 1..m PROVE d[e + k] = b[e + k]
      BY DEF Portion
    <3>1. e + k \in 1..w /\ e + k \notin (o + 1)..(o + 8)
      BY <1>4, <2>0 DEF e
    <3>2. QED
      BY <1>5, <3>1
  <2> HIDE DEF p
  <2>4. r[e] = q[e]
    BY <1>10, <2>0, <2>1, <2>2, <2>3, SameOn
  <2>5. QED
    BY <2>4 DEF e
<1>13. \A k \in 1..8 : b[o + k] = d[o + k]
  <2> DEFINE p == Portion(b, o, 8)
             s == Portion(d, o, 8)
             g == Stretch(r, o, 8)
             h == Stretch(q, o, 8)
  <2>1. /\ Shifting(g, 8, r[o], p) /\ g[8] = r[o + 8] /\ r[o] \in Registers
        /\ \A k \in 1..8 : p[k] \in {0, 1} /\ p[k] = b[o + k]
    BY <1>2, <1>4, PortionShifts DEF b, w, n
  <2>2. /\ Shifting(h, 8, q[o], s) /\ h[8] = q[o + 8]
        /\ \A k \in 1..8 : s[k] \in {0, 1} /\ s[k] = d[o + k]
    BY <1>1, <1>3, <1>4, PortionShifts DEF d, w
  <2> HIDE DEF p, s, g, h
  <2>3. Shifting(h, 8, r[o], s) /\ g[8] = h[8]
    BY <1>11, <1>12, <2>1, <2>2
  <2>4. \A k \in 1..8 : p[k] = s[k]
    BY <2>1, <2>2, <2>3, SameOctet
  <2>5. QED
    BY <2>1, <2>2, <2>4
<1>15. Binary(line[i], 8) = Binary(c, 8)
  <2> DEFINE x == Binary(line[i], 8)
             y == Binary(c, 8)
  <2>1. x \in Digits /\ Len(x) = 8 /\ y \in Digits /\ Len(y) = 8
    BY <1>14, OctetDigits
  <2>2. \A m \in 1..8 : x[m] = y[m]
    BY <1>6, <1>13
  <2> HIDE DEF x, y
  <2>3. x = y
    BY <2>1, <2>2 DEF Digits
  <2>4. QED
    BY <2>3 DEF x, y
<1>16. QED
  BY <1>14, <1>15, OctetDigits

-----------------------------------------------------------------------------
(***************************************************************************)
(* How a value of each type is sent and read: scalar fields.               *)
(***************************************************************************)

(* A mark and the digits that follow it.                                   *)
Follows(b, d, a) == b = <<d>> \o a

LEMMA MarkAnd ==
  ASSUME NEW d \in {0, 1}, NEW a \in Digits, NEW b, Follows(b, d, a), NEW rest \in Digits
  PROVE  /\ b \in Digits /\ Len(b) = Len(a) + 1 /\ b # <<>>
         /\ (b \o rest)[1] = d /\ Slice(b \o rest, Len(b)) = b /\ Tail(b) = a
         /\ Len(b \o rest) = Len(a) + 1 + Len(rest) /\ b \o rest # <<>>
<1>1. <<d>> \in Digits /\ Len(<<d>>) = 1 /\ <<d>>[1] = d
  BY DEF Digits
<1>2. b \in Digits /\ Len(b) = 1 + Len(a) /\ Len(a) \in Nat
  BY <1>1, DigitsPair DEF Follows
<1>3. b # <<>>
  BY <1>2, NoDigits
<1>4. b[1] = d /\ Tail(b) = a
  BY <1>1 DEF Digits, Follows
<1>5. /\ b \o rest # <<>> /\ Len(b \o rest) = Len(b) + Len(rest)
      /\ (b \o rest)[1] = b[1] /\ Slice(b \o rest, Len(b)) = b
  BY <1>2, <1>3, FirstOf
<1>6. Len(b) = Len(a) + 1
  BY <1>2
<1>7. QED
  BY <1>2, <1>3, <1>4, <1>5, <1>6, Zenon

(* A length and its prefix.                                                *)
PrefixOf(n, b, rest) ==
    /\ b \in Digits /\ b # <<>> /\ Len(b) = (IF n < 128 THEN 8 ELSE 16)
    /\ decode_field_length(b \o rest) = << <<n, Len(b)>> >>

(* A mark and a number, as decode_field_length() takes them apart.         *)
LEMMA MarkedNumber ==
  ASSUME NEW d \in {0, 1}, NEW w \in 1..31, NEW n \in 0..2^w - 1, NEW rest \in Digits
  PROVE  LET b == <<d>> \o Binary(n, w)
         IN  /\ b \in Digits /\ b # <<>> /\ Len(b) = w + 1 /\ (b \o rest)[1] = d
             /\ Number(Tail(Slice(b \o rest, w + 1))) = n /\ b \o rest # <<>> /\ Len(b \o rest) # 1
<1> DEFINE a == Binary(n, w)
           b == <<d>> \o a
<1>1. a \in Digits /\ Len(a) = w /\ Number(a) = n
  BY BinaryDigits
<1> HIDE DEF a
<1>b. Follows(b, d, a)
  BY DEF Follows
<1> HIDE DEF b
<1>2. /\ b \in Digits /\ Len(b) = Len(a) + 1 /\ b # <<>>
      /\ (b \o rest)[1] = d /\ Slice(b \o rest, Len(b)) = b /\ Tail(b) = a
      /\ Len(b \o rest) = Len(a) + 1 + Len(rest) /\ b \o rest # <<>>
  BY <1>1, <1>b, MarkAnd
<1>3. Len(rest) \in Nat
  BY DigitsOne
<1>4. Len(b) = w + 1 /\ Len(b \o rest) # 1
  BY <1>1, <1>2, <1>3
<1>5. Slice(b \o rest, w + 1) = b
  BY <1>2, <1>4
<1>6. QED
  BY <1>1, <1>2, <1>4, <1>5 DEF a, b

(* decode_field_length(), by the mark.                                     *)
LEMMA LengthDecoded ==
  ASSUME NEW c, c # <<>>, Len(c) # 1
  PROVE  /\ c[1] = 0 => decode_field_length(c) = << <<Number(Tail(Slice(c, 8))), 8>> >>
         /\ c[1] # 0 => decode_field_length(c) = << <<Number(Tail(Slice(c, 16))), 16>> >>
  BY DEF decode_field_length

LEMMA LengthMarks ==
  ASSUME NEW n
  PROVE  /\ n < 128 => encode_field_length(n) = <<0>> \o Binary(n, 7)
         /\ ~(n < 128) => encode_field_length(n) = <<1>> \o Binary(n, 15)
  BY DEF encode_field_length

Short(n) == n < 128 /\ n \in 0..2^7 - 1
Long(n)  == ~(n < 128) /\ n \in 0..2^15 - 1

(* The length that the prefix says.                                        *)
LEMMA PrefixTrip ==
  ASSUME NEW n, Short(n) \/ Long(n), NEW rest \in Digits
  PROVE  PrefixOf(n, encode_field_length(n), rest)
<1>1. CASE Short(n)
  <2> DEFINE b == <<0>> \o Binary(n, 7)
             c == b \o rest
  <2>1. 0 \in {0, 1} /\ 7 \in 1..31 /\ n \in 0..2^7 - 1 /\ n < 128 /\ 7 + 1 = 8
    BY <1>1 DEF Short
  <2>2. \A d \in {0, 1}, w \in 1..31 : n \in 0..2^w - 1 =>
            LET x == <<d>> \o Binary(n, w)
            IN  /\ x \in Digits /\ x # <<>> /\ Len(x) = w + 1 /\ (x \o rest)[1] = d
                /\ Number(Tail(Slice(x \o rest, w + 1))) = n /\ x \o rest # <<>> /\ Len(x \o rest) # 1
    BY MarkedNumber
  <2>3. /\ b \in Digits /\ b # <<>> /\ Len(b) = 7 + 1 /\ c[1] = 0
        /\ Number(Tail(Slice(c, 7 + 1))) = n /\ c # <<>> /\ Len(c) # 1
    BY <2>1, <2>2, Zenon
  <2> HIDE DEF c
  <2>4. decode_field_length(c) = << <<n, 8>> >>
    BY <2>1, <2>3, LengthDecoded
  <2>5. encode_field_length(n) = b
    BY <2>1, LengthMarks
  <2> HIDE DEF b
  <2>6. Len(b) = 8 /\ n < 128
    BY <2>1, <2>3
  <2>7. QED
    BY <2>3, <2>4, <2>5, <2>6, Zenon DEF PrefixOf, c
<1>2. CASE Long(n)
  <2> DEFINE b == <<1>> \o Binary(n, 15)
             c == b \o rest
  <2>1. 1 \in {0, 1} /\ 15 \in 1..31 /\ n \in 0..2^15 - 1 /\ ~(n < 128) /\ 15 + 1 = 16 /\ 1 # 0
    BY <1>2 DEF Long
  <2>2. \A d \in {0, 1}, w \in 1..31 : n \in 0..2^w - 1 =>
            LET x == <<d>> \o Binary(n, w)
            IN  /\ x \in Digits /\ x # <<>> /\ Len(x) = w + 1 /\ (x \o rest)[1] = d
                /\ Number(Tail(Slice(x \o rest, w + 1))) = n /\ x \o rest # <<>> /\ Len(x \o rest) # 1
    BY MarkedNumber
  <2>3. /\ b \in Digits /\ b # <<>> /\ Len(b) = 15 + 1 /\ c[1] = 1
        /\ Number(Tail(Slice(c, 15 + 1))) = n /\ c # <<>> /\ Len(c) # 1
    BY <2>1, <2>2, Zenon
  <2> HIDE DEF c
  <2>4. decode_field_length(c) = << <<n, 16>> >>
    BY <2>1, <2>3, LengthDecoded
  <2>5. encode_field_length(n) = b
    BY <2>1, LengthMarks
  <2> HIDE DEF b
  <2>6. Len(b) = 16 /\ ~(n < 128)
    BY <2>1, <2>3
  <2>7. QED
    BY <2>3, <2>4, <2>5, <2>6, Zenon DEF PrefixOf, c
<1>3. QED
  BY <1>1, <1>2

(* Zero digits in front of others.                                         *)
LEMMA ZerosBefore ==
  ASSUME NEW z \in Nat, NEW b \in Digits
  PROVE  /\ Zeros(z) \o b \in Digits /\ Len(Zeros(z) \o b) = z + Len(b)
         /\ \A i \in 1..z + Len(b) : (Zeros(z) \o b)[i] = IF i <= z THEN 0 ELSE b[i - z]
<1>1. Zeros(z) \in Digits /\ Len(Zeros(z)) = z /\ \A i \in 1..z : Zeros(z)[i] = 0
  BY ZerosAre
<1> DEFINE a == Zeros(z)
<1> HIDE DEF a
<1>2. a \in Seq({0, 1}) /\ b \in Seq({0, 1}) /\ Len(a) = z
  BY <1>1 DEF Digits, a
<1>3. a \o b \in Seq({0, 1}) /\ Len(a \o b) = z + Len(b)
      /\ \A i \in 1..(Len(a) + Len(b)) : (a \o b)[i] = IF i <= Len(a) THEN a[i] ELSE b[i - Len(a)]
  BY <1>2, ConcatProperties
<1>4. QED
  BY <1>1, <1>2, <1>3 DEF Digits, a

(* The bytes of a number whose first digits are zero.                      *)
LEMMA ToBytesOf ==
  ASSUME NEW z \in Nat, NEW b \in Digits, b # <<>>, NEW n \in Nat, z + Len(b) = 8 * n
  PROVE  ToBytes(b, n) = <<Bytes(Zeros(z) \o b)>>
<1> DEFINE m == Len(b)
           d == Zeros(8 * n) \o b
           c == Zeros(z) \o b
           e == After(d, m)
<1>1. m \in Nat /\ z + m = 8 * n /\ 8 * n \in Nat
  BY DigitsOne
<1>2. /\ d \in Digits /\ Len(d) = 8 * n + m
      /\ \A i \in 1..8 * n + m : d[i] = IF i <= 8 * n THEN 0 ELSE b[i - 8 * n]
  BY <1>1, ZerosBefore
<1>3. /\ c \in Digits /\ Len(c) = 8 * n
      /\ \A i \in 1..8 * n : c[i] = IF i <= z THEN 0 ELSE b[i - z]
  BY <1>1, ZerosBefore
<1> HIDE DEF d, c, m
<1>4. e \in Digits /\ Len(e) = 8 * n /\ \A i \in 1..8 * n : e[i] = d[m + i]
  <2>1. d \in Seq({0, 1}) /\ m \in 0..Len(d) /\ Len(d) - m = 8 * n
    BY <1>1, <1>2 DEF Digits
  <2>2. /\ e \in Seq({0, 1}) /\ Len(e) = Len(d) - m
        /\ \A i \in 1..Len(d) - m : e[i] = d[m + i]
    BY <2>1, AfterIs
  <2>3. QED
    BY <2>1, <2>2 DEF Digits
<1> HIDE DEF e
<1>5. e = c
  <2>1. ASSUME NEW i \in 1..8 * n PROVE e[i] = c[i]
    <3>1. m + i \in 1..8 * n + m /\ (m + i) - 8 * n = i - z /\ (m + i <= 8 * n <=> i <= z)
      BY <1>1
    <3>2. d[m + i] = IF m + i <= 8 * n THEN 0 ELSE b[(m + i) - 8 * n]
      BY <1>2, <3>1
    <3>3. QED
      BY <1>3, <1>4, <3>1, <3>2
  <2>2. QED
    BY <1>1, <1>3, <1>4, <2>1 DEF Digits
<1>6. Len(d) - 8 * n = m /\ \A i \in 1..m : d[i] = 0
  <2>1. \A i \in 1..m : i \in 1..8 * n + m /\ i <= 8 * n
    BY <1>1
  <2>2. QED
    BY <1>1, <1>2, <2>1
<1>7. ToBytes(b, n) = << [i \in 1..n |-> Number(SubSeq(e, 8 * i - 7, 8 * i))] >>
  <2>1. ~(b = <<>> \/ \E i \in 1..Len(d) - 8 * n : d[i] = 1)
    BY <1>6
  <2>2. ToBytes(b, n) = IF b = <<>> \/ (\E i \in 1..Len(d) - 8 * n : d[i] = 1) THEN Raises
          ELSE << [i \in 1..n |-> Number(SubSeq(After(d, Len(d) - 8 * n), 8 * i - 7, 8 * i))] >>
    BY DEF ToBytes, d
  <2>3. QED
    BY <1>6, <2>1, <2>2 DEF e
<1>8. Bytes(c) = [i \in 1..n |-> Number(SubSeq(c, 8 * i - 7, 8 * i))]
  <2>1. Len(c) \div 8 = n
    BY <1>3
  <2>2. QED
    BY <2>1 DEF Bytes
<1>9. QED
  BY <1>5, <1>7, <1>8 DEF c

LEMMA MinIs ==
  ASSUME NEW S \in SUBSET Nat, NEW j \in S, \A y \in S : j <= y
  PROVE  Min(S) = j
<1>1. \A x \in S : (\A y \in S : x <= y) => x = j
  OBVIOUS
<1>2. QED
  BY <1>1 DEF Min

(* The first digit that is one.                                            *)
LEMMA FirstOne ==
  ASSUME NEW b \in Digits, NEW j \in 1..Len(b), b[j] = 1, \A i \in 1..(j - 1) : b[i] = 0
  PROVE  SelectInSeq(b, LAMBDA d : d = 1) = j
<1> DEFINE S == {i \in 1..Len(b) : b[i] = 1}
<1>1. Len(b) \in Nat
  BY DigitsOne
<1>2. S \in SUBSET Nat /\ j \in S
  OBVIOUS
<1>3. ASSUME NEW y \in S PROVE j <= y
  <2>1. y \in Nat /\ y \in 1..Len(b) /\ b[y] = 1
    OBVIOUS
  <2>2. y \notin 1..(j - 1)
    BY <2>1
  <2>3. QED
    BY <1>1, <2>1, <2>2
<1>4. SelectInSeq(b, LAMBDA d : d = 1) = IF S # {} THEN Min(S) ELSE 0
  BY DEF SelectInSeq
<1> HIDE DEF S
<1>5. Min(S) = j
  BY <1>2, <1>3, MinIs
<1>6. QED
  BY <1>2, <1>4, <1>5

(* A text ends at its first zero byte.                                     *)
LEMMA UpToZeroIs ==
  ASSUME NEW n \in Nat, NEW bytes \in Seq(Octet), n <= Len(bytes), \A i \in 1..n : bytes[i] # 0,
         \A i \in (n + 1)..Len(bytes) : bytes[i] = 0
  PROVE  UpToZero(bytes) = SubSeq(bytes, 1, n)
<1> DEFINE S == {i \in 1..Len(bytes) : bytes[i] = 0}
           zero == SelectInSeq(bytes, LAMBDA c : c = 0)
<1>0. Len(bytes) \in Nat /\ DOMAIN bytes = 1..Len(bytes)
  OBVIOUS
<1>1. zero = IF S # {} THEN Min(S) ELSE 0
  BY DEF SelectInSeq
<1>2. UpToZero(bytes) = IF zero = 0 THEN bytes ELSE SubSeq(bytes, 1, zero - 1)
  BY DEF UpToZero
<1>3. CASE n = Len(bytes)
  <2>1. S = {}
    BY <1>3
  <2>2. SubSeq(bytes, 1, n) = bytes
    BY <1>0, <1>3
  <2>3. QED
    BY <1>1, <1>2, <2>1, <2>2
<1>4. CASE n # Len(bytes)
  <2>0. n + 1 \in 1..Len(bytes) /\ n + 1 \in (n + 1)..Len(bytes)
    <3> DEFINE m == Len(bytes)
    <3>1. m \in Nat /\ n <= m /\ n # m
      BY <1>0, <1>4
    <3> HIDE DEF m
    <3>2. n + 1 \in 1..m /\ n + 1 \in (n + 1)..m
      BY <3>1
    <3>3. QED
      BY <3>2, Zenon DEF m
  <2>1. n + 1 \in S /\ S \in SUBSET Nat
    <3>1. bytes[n + 1] = 0
      BY <2>0
    <3>2. n + 1 \in S
      BY <2>0, <3>1
    <3>3. QED
      BY <3>2
  <2>2. ASSUME NEW y \in S PROVE n + 1 <= y
    BY <1>0
  <2> HIDE DEF S
  <2>3. Min(S) = n + 1
    BY <2>1, <2>2, MinIs
  <2>4. zero = n + 1
    BY <1>1, <2>1, <2>3
  <2> HIDE DEF zero
  <2>5. QED
    BY <1>2, <2>4
<1>5. QED
  BY <1>3, <1>4

(* A byte that is not zero has a digit that is one.                        *)
LEMMA FirstDigit ==
  ASSUME NEW c \in Octet, c # 0
  PROVE  \E j \in 1..8 : Binary(c, 8)[j] = 1 /\ \A i \in 1..(j - 1) : Binary(c, 8)[i] = 0
<1> DEFINE b == Binary(c, 8)
           T == {j \in 1..8 : b[j] = 1}
<1>1. \A j \in 1..8 : b[j] = Bit(c, 8 - j) /\ b[j] \in {0, 1}
  BY OctetDigits DEF Bit
<1>2. T # {}
  <2> SUFFICES ASSUME T = {} PROVE FALSE
    OBVIOUS
  <2>1. \A j \in 1..8 : b[j] = 0
    BY <1>1
  <2> HIDE DEF b, T
  <2>2. ASSUME NEW k \in 0..7 PROVE Bit(c, k) = Bit(0, k)
    <3>1. 8 - k \in 1..8 /\ 8 - (8 - k) = k /\ k \in 0..31
      OBVIOUS
    <3>2. Bit(c, 8 - (8 - k)) = 0
      BY <1>1, <2>1, <3>1
    <3>3. Bit(0, k) = 0
      BY <3>1, ZeroBits
    <3>4. QED
      BY <3>1, <3>2, <3>3
  <2>3. 2^8 = 256 /\ 8 - 1 = 7 /\ 8 \in 1..31
    BY PowersAre
  <2>4. c \in 0..2^8 - 1 /\ 0 \in 0..2^8 - 1
    BY <2>3 DEF Octet
  <2>5. Alike(8, c, 0)
    BY <2>2, <2>3, <2>4 DEF Alike
  <2>6. QED
    BY <2>3, <2>5, SameBits
<1>3. T \in SUBSET Nat
  OBVIOUS
<1>4. PICK j \in T : \A y \in T : ~(y < j)
  BY <1>2, <1>3, LeastOf
<1>5. ASSUME NEW i \in 1..(j - 1) PROVE b[i] = 0
  <2>1. i \in 1..8 /\ i < j
    OBVIOUS
  <2>2. i \notin T
    BY <1>4, <2>1
  <2>3. QED
    BY <1>1, <2>1, <2>2
<1>6. QED
  BY <1>5

LEMMA RoundedUp ==
  ASSUME NEW m \in Nat, m >= 1, NEW z \in 0..7
  PROVE  ((8 * m - z) + 7) \div 8 = m /\ 8 * m - z > 0 /\ z + (8 * m - z) = 8 * m
  OBVIOUS

LEMMA BeginningOf ==
  ASSUME NEW S, NEW q \in Seq(S), NEW n \in 1..Len(q)
  PROVE  SubSeq(q, 1, n) = [i \in 1..n |-> q[i]]
OBVIOUS

(* Bytes below 128 are the characters of that code.                        *)
Ascii == 1..127

LEMMA AsciiByte ==
  ASSUME NEW x \in Ascii
  PROVE  /\ x \in Octet /\ x # 0 /\ x \notin 128..191
         /\ Following(x) = 0 /\ x >= Smallest(0) /\ x <= LargestCode
<1>1. x \in Octet /\ x # 0 /\ x \notin 128..191 /\ x < 128
  BY DEF Octet, Ascii
<1>2. Following(x) = 0
  BY <1>1 DEF Following, Octet
<1>3. x >= Smallest(0) /\ x <= LargestCode
  BY <1>1 DEF Smallest, LargestCode, Octet
<1>4. QED
  BY <1>1, <1>2, <1>3

LEMMA UpToItself ==
  ASSUME NEW n \in Nat, NEW i \in 1..n
  PROVE  Cardinality({k \in 1..n : k <= i}) = i
<1>1. {k \in 1..n : k <= i} = 1..i
  OBVIOUS
<1>2. Cardinality(1..i) = i
  BY FS_Interval
<1>3. QED
  BY <1>1, <1>2

LEMMA AsciiIs ==
  ASSUME NEW n \in Nat, NEW bytes, bytes = [i \in 1..n |-> bytes[i]], \A i \in 1..n : bytes[i] \in Ascii
  PROVE  Utf8(bytes) = <<bytes>>
<1> DEFINE Starts == {i \in DOMAIN bytes : bytes[i] \notin 128..191}
           m(i) == Following(bytes[i])
           Code(i) == IF m(i) <= 0 THEN bytes[i]
                      ELSE FoldLeft(LAMBDA code, c : 64 * code + (c % 64), bytes[i] % 2^(6 - m(i)),
                                    SubSeq(bytes, i + 1, i + m(i)))
           Nth(j) == CHOOSE i \in Starts : Cardinality({k \in Starts : k <= i}) = j
           text == [j \in 1..Cardinality(Starts) |-> Code(Nth(j))]
           Whole == /\ \A i \in Starts : m(i) >= 0 /\ \A k \in i + 1..i + m(i) : k \notin Starts
                    /\ UNION {i..i + m(i) : i \in Starts} = DOMAIN bytes
                    /\ \A i \in Starts : Code(i) >= Smallest(m(i)) /\ Code(i) <= LargestCode
<1>1. Utf8(bytes) = IF Whole THEN <<text>> ELSE Raises
  BY Zenon DEF Utf8
<1>2. DOMAIN bytes = 1..n
  BY ONLY bytes = [i \in 1..n |-> bytes[i]]
<1>3. Starts = 1..n
  BY ONLY <1>2, AsciiByte, \A i \in 1..n : bytes[i] \in Ascii
<1>4. \A i \in 1..n : m(i) = 0 /\ bytes[i] >= Smallest(0) /\ bytes[i] <= LargestCode
  <2> TAKE i \in 1..n
  <2>1. bytes[i] \in Ascii
    OBVIOUS
  <2>2. QED
    BY <2>1, AsciiByte, Zenon
<1> HIDE DEF Starts, m
<1>5. \A i \in 1..n : Code(i) = bytes[i]
  <2> TAKE i \in 1..n
  <2>1. m(i) = 0
    BY <1>4
  <2>2. m(i) <= 0
    BY ONLY <2>1
  <2>3. QED
    BY <2>2, Zenon
<1> HIDE DEF Code
<1>6. Cardinality(Starts) = n
  <2>1. Cardinality(1..n) = n
    BY ONLY FS_Interval, n \in Nat
  <2>2. QED
    BY ONLY <1>3, <2>1
<1>7. \A j \in 1..n : Nth(j) = j
  <2> TAKE j \in 1..n
  <2>1. \A i \in 1..n : Cardinality({k \in Starts : k <= i}) = i
    BY <1>3, UpToItself
  <2>2. Nth(j) = CHOOSE i \in 1..n : Cardinality({k \in Starts : k <= i}) = j
    BY <1>3, Zenon
  <2>3. \A i \in 1..n : Cardinality({k \in Starts : k <= i}) = j <=> i = j
    BY ONLY <2>1, j \in 1..n
  <2> HIDE DEF Nth
  <2>4. QED
    BY ONLY <2>2, <2>3, j \in 1..n
<1> HIDE DEF Nth
<1>8. text = bytes
  <2>1. text = [j \in 1..n |-> Code(Nth(j))]
    BY ONLY <1>6
  <2>2. \A j \in 1..n : Code(Nth(j)) = bytes[j]
    BY ONLY <1>5, <1>7
  <2> HIDE DEF text
  <2>3. QED
    BY ONLY <2>1, <2>2, bytes = [i \in 1..n |-> bytes[i]]
<1>9. Whole
  <2>1. \A i \in Starts : i \in Nat /\ m(i) = 0 /\ i + m(i) = i
    BY ONLY <1>3, <1>4, n \in Nat
  <2>2. \A i \in Starts : i + 1..i + m(i) = {} /\ i..i + m(i) = {i}
    BY ONLY <2>1
  <2>3. UNION {i..i + m(i) : i \in Starts} = Starts
    BY ONLY <2>2
  <2>4. \A i \in Starts : Code(i) >= Smallest(m(i)) /\ Code(i) <= LargestCode
    BY ONLY <1>3, <1>4, <1>5
  <2>5. QED
    BY <1>2, <1>3, <2>1, <2>2, <2>3, <2>4
<1> HIDE DEF Whole, text
<1>10. QED
  BY <1>1, <1>8, <1>9

(* What ToText() reads from a text that zero bytes may follow.             *)
LEMMA TextRead ==
  ASSUME NEW bytes \in Seq(Octet), NEW n \in 1..Len(bytes), \A i \in 1..n : bytes[i] \in Ascii,
         \A i \in (n + 1)..Len(bytes) : bytes[i] = 0
  PROVE  ToText(Chars(bytes)) = <<SubSeq(bytes, 1, n)>>
<1> DEFINE b == Chars(bytes)
           m == Len(bytes)
           c == bytes[1]
<1>1. m \in Nat /\ m >= 1 /\ 1 \in 1..m /\ 1 \in 1..n /\ n \in Nat /\ n <= m
  OBVIOUS
<1>2. /\ b \in Digits /\ Len(b) = 8 * m
      /\ \A i \in 1..m, j \in 1..8 : b[8 * (i - 1) + j] = Binary(bytes[i], 8)[j]
  BY CharsIs
<1>3. c \in Octet /\ c # 0
  <2>1. c \in Ascii
    BY <1>1
  <2> HIDE DEF c
  <2>2. QED
    BY <2>1, AsciiByte, Zenon
<1>4. PICK j \in 1..8 : Binary(c, 8)[j] = 1 /\ \A i \in 1..(j - 1) : Binary(c, 8)[i] = 0
  BY <1>3, FirstDigit
<1>5. ASSUME NEW i \in 1..8 PROVE b[i] = Binary(c, 8)[i]
  <2>1. 8 * (1 - 1) + i = i
    OBVIOUS
  <2>2. b[8 * (1 - 1) + i] = Binary(bytes[1], 8)[i]
    BY <1>1, <1>2
  <2>3. QED
    BY <2>1, <2>2
<1>6. UpToZero(bytes) = SubSeq(bytes, 1, n)
  <2>1. \A i \in 1..n : bytes[i] # 0
    BY AsciiByte, Zenon
  <2>2. QED
    BY <1>1, <2>1, UpToZeroIs
<1>7. SubSeq(bytes, 1, n) # <<>> /\ Utf8(SubSeq(bytes, 1, n)) = <<SubSeq(bytes, 1, n)>>
  <2> DEFINE s == SubSeq(bytes, 1, n)
  <2>1. s = [i \in 1..n |-> s[i]] /\ (\A i \in 1..n : s[i] = bytes[i]) /\ s # <<>>
    <3>1. s = [i \in 1..n |-> bytes[i]]
      BY BeginningOf
    <3> HIDE DEF s
    <3>2. QED
      BY ONLY <1>1, <3>1
  <2> HIDE DEF s
  <2>2. Utf8(s) = <<s>>
    <3>1. \A i \in 1..n : s[i] \in Ascii
      BY <2>1, Zenon
    <3>2. QED
      BY <1>1, <2>1, <3>1, AsciiIs
  <2>3. QED
    BY <2>1, <2>2 DEF s
<1>8. Bytes(b) = bytes
  BY BytesOfChars
<1> HIDE DEF b, m, c
<1>9. b[j] = 1 /\ (\A i \in 1..(j - 1) : b[i] = 0) /\ j \in 1..Len(b)
  <2>1. \A i \in 1..(j - 1) : i \in 1..8
    OBVIOUS
  <2>2. Len(b) = 8 * m
    BY <1>2
  <2>3. j \in 1..Len(b)
    BY ONLY <1>1, <2>2, j \in 1..8
  <2>4. QED
    BY <1>4, <1>5, <2>1, <2>3
<1> DEFINE first == SelectInSeq(b, LAMBDA d : d = 1)
           z == j - 1
           a == After(b, z)
<1>10. first = j
  BY <1>2, <1>9, FirstOne
<1> HIDE DEF first
<1>11. /\ z \in 0..7 /\ z \in Nat /\ z \in 0..Len(b)
  BY <1>9
<1>12. /\ a \in Digits /\ Len(a) = 8 * m - z /\ \A i \in 1..8 * m - z : a[i] = b[z + i]
  <2>1. b \in Seq({0, 1}) /\ z \in 0..Len(b)
    BY <1>2, <1>11 DEF Digits
  <2> HIDE DEF z, a
  <2>2. /\ After(b, z) \in Seq({0, 1}) /\ Len(After(b, z)) = Len(b) - z
        /\ \A i \in 1..Len(b) - z : After(b, z)[i] = b[z + i]
    BY <2>1, AfterIs
  <2>3. QED
    BY <1>2, <2>2 DEF Digits, a
<1>14. (Len(a) + 7) \div 8 = m /\ z + Len(a) = 8 * m /\ a # <<>>
  <2>1. ((8 * m - z) + 7) \div 8 = m /\ 8 * m - z > 0 /\ z + (8 * m - z) = 8 * m
    BY <1>1, <1>11, RoundedUp
  <2>2. Len(a) = 8 * m - z
    BY <1>12
  <2> HIDE DEF a, z
  <2>3. a # <<>>
    BY <2>1, <2>2, NoDigits
  <2>4. QED
    BY <2>1, <2>2, <2>3
<1> HIDE DEF a
<1>15. Zeros(z) \o a = b
  <2>1. /\ Zeros(z) \o a \in Digits /\ Len(Zeros(z) \o a) = 8 * m
        /\ \A i \in 1..8 * m : (Zeros(z) \o a)[i] = IF i <= z THEN 0 ELSE a[i - z]
    <3>1. /\ Zeros(z) \o a \in Digits /\ Len(Zeros(z) \o a) = z + Len(a)
          /\ \A i \in 1..z + Len(a) : (Zeros(z) \o a)[i] = IF i <= z THEN 0 ELSE a[i - z]
      BY <1>11, <1>12, ZerosBefore
    <3>2. QED
      BY <1>14, <3>1
  <2> DEFINE e == Zeros(z) \o a
  <2> HIDE DEF e
  <2>2. ASSUME NEW i \in 1..8 * m PROVE e[i] = b[i]
    <3>1. CASE i <= z
      BY <1>9, <1>11, <2>1, <3>1 DEF e
    <3>2. CASE ~(i <= z)
      <4>1. i - z \in 1..8 * m - z /\ z + (i - z) = i
        BY <1>1, <1>11, <3>2
      <4>2. QED
        BY <1>12, <2>1, <3>2, <4>1 DEF e
    <3>3. QED
      BY <3>1, <3>2
  <2>3. e \in Digits /\ Len(e) = 8 * m
    BY <2>1 DEF e
  <2>4. b \in Digits /\ Len(b) = 8 * m
    BY <1>2
  <2>5. e = b
    BY ONLY <1>1, <2>2, <2>3, <2>4 DEF Digits
  <2>6. QED
    BY <2>5 DEF e
<1>16. ToBytes(a, m) = <<bytes>>
  <2>1. z \in Nat /\ a \in Digits /\ a # <<>> /\ m \in Nat /\ z + Len(a) = 8 * m
    BY <1>1, <1>11, <1>12, <1>14
  <2>2. ToBytes(a, m) = <<Bytes(Zeros(z) \o a)>>
    BY <2>1, ToBytesOf, Zenon
  <2>3. QED
    BY <1>8, <1>15, <2>2
<1> DEFINE read == Utf8(UpToZero(ToBytes(After(b, first - 1), (Len(After(b, first - 1)) + 7) \div 8)[1]))
<1>17. ToText(b) = IF first = 0 THEN <<<<0>>>> ELSE IF read = Raises THEN Raises
                   ELSE <<IF read[1] = <<>> THEN <<0>> ELSE read[1]>>
  BY Zenon DEF ToText, Then, first
<1>18. ToText(b) = <<SubSeq(bytes, 1, n)>>
  <2>1. first # 0 /\ After(b, first - 1) = a
    BY <1>9, <1>10 DEF a
  <2>2. ToBytes(a, (Len(a) + 7) \div 8)[1] = bytes
    BY <1>14, <1>16
  <2>3. read = <<SubSeq(bytes, 1, n)>>
    BY <1>6, <1>7, <2>1, <2>2
  <2> HIDE DEF read
  <2>4. read # Raises /\ read[1] = SubSeq(bytes, 1, n)
    BY <2>3, IsResult
  <2>5. QED
    BY <1>7, <1>17, <2>1, <2>4
<1>19. QED
  BY <1>18 DEF b

(* The digits of a text that zero bytes follow.                            *)
LEMMA CharsPadded ==
  ASSUME NEW text \in Seq(Octet), NEW k \in Nat
  PROVE  /\ text \o Zeros(k) \in Seq(Octet) /\ Len(text \o Zeros(k)) = Len(text) + k
         /\ \A i \in 1..Len(text) + k : (text \o Zeros(k))[i] = IF i <= Len(text) THEN text[i] ELSE 0
         /\ Chars(text) \o Zeros(8 * k) = Chars(text \o Zeros(k))
<1> DEFINE n == Len(text)
           z == Zeros(k)
           t == text \o z
           a == Chars(text)
           w == Zeros(8 * k)
           b == a \o w
           c == Chars(t)
<1>1. z \in Seq(Octet) /\ Len(z) = k /\ \A i \in 1..k : z[i] = 0
  <2>1. Zeros(k) \in Seq({0, 1}) /\ Len(Zeros(k)) = k /\ \A i \in 1..k : Zeros(k)[i] = 0
    BY ZerosAre DEF Digits
  <2>2. {0, 1} \subseteq Octet
    BY DEF Octet
  <2>3. QED
    BY <2>1, <2>2
<1>0. n \in Nat /\ 8 * k \in Nat
  OBVIOUS
<1> HIDE DEF z
<1>2. /\ t \in Seq(Octet) /\ Len(t) = n + k
      /\ \A i \in 1..(Len(text) + Len(z)) : t[i] = IF i <= Len(text) THEN text[i] ELSE z[i - Len(text)]
  BY <1>1, ConcatProperties
<1>3. \A i \in 1..n + k : t[i] = IF i <= n THEN text[i] ELSE 0
  <2> SUFFICES ASSUME NEW i \in 1..n + k PROVE t[i] = IF i <= n THEN text[i] ELSE 0
    OBVIOUS
  <2>1. t[i] = IF i <= n THEN text[i] ELSE z[i - n]
    BY <1>1, <1>2
  <2>2. ~(i <= n) => i - n \in 1..k
    BY <1>0
  <2>3. QED
    BY <1>1, <2>1, <2>2
<1>4. /\ a \in Digits /\ Len(a) = 8 * n
      /\ \A i \in 1..n, j \in 1..8 : a[8 * (i - 1) + j] = Binary(text[i], 8)[j]
  BY CharsIs
<1>5. w \in Digits /\ Len(w) = 8 * k /\ \A i \in 1..8 * k : w[i] = 0
  BY <1>0, ZerosAre
<1> HIDE DEF t
<1>6. /\ c \in Digits /\ Len(c) = 8 * (n + k)
      /\ \A i \in 1..n + k, j \in 1..8 : c[8 * (i - 1) + j] = Binary(t[i], 8)[j]
  <2>1. t \in Seq(Octet) /\ Len(t) = n + k
    BY <1>2
  <2>2. /\ Chars(t) \in Digits /\ Len(Chars(t)) = 8 * Len(t)
        /\ \A i \in 1..Len(t), j \in 1..8 : Chars(t)[8 * (i - 1) + j] = Binary(t[i], 8)[j]
    BY <2>1, CharsIs, Zenon
  <2> HIDE DEF n
  <2>3. QED
    BY <2>1, <2>2, Zenon
<1> HIDE DEF a, c, w, n
<1>7. /\ b \in Digits /\ Len(b) = 8 * (n + k)
      /\ \A i \in 1..(Len(a) + Len(w)) : b[i] = IF i <= Len(a) THEN a[i] ELSE w[i - Len(a)]
  <2>1. a \in Seq({0, 1}) /\ w \in Seq({0, 1})
    BY <1>4, <1>5 DEF Digits
  <2>2. /\ a \o w \in Seq({0, 1}) /\ Len(a \o w) = Len(a) + Len(w)
        /\ \A i \in 1..(Len(a) + Len(w)) : (a \o w)[i] = IF i <= Len(a) THEN a[i] ELSE w[i - Len(a)]
    BY <2>1, ConcatProperties
  <2>3. QED
    BY <1>0, <1>4, <1>5, <2>2 DEF Digits
<1> HIDE DEF b
<1>8. ASSUME NEW i \in 1..n + k, NEW j \in 1..8 PROVE b[8 * (i - 1) + j] = c[8 * (i - 1) + j]
  <2> DEFINE p == 8 * (i - 1) + j
  <2>1. CASE i <= n
    <3>1. p \in 1..(8 * n + 8 * k) /\ p <= 8 * n /\ i \in 1..n
      BY <1>0, <2>1
    <3>2. b[p] = a[p]
      BY <1>4, <1>5, <1>7, <3>1
    <3>3. a[p] = Binary(text[i], 8)[j]
      BY <1>4, <3>1
    <3>4. c[p] = Binary(t[i], 8)[j] /\ t[i] = text[i]
      BY <1>3, <1>6, <2>1
    <3>5. QED
      BY <3>2, <3>3, <3>4
  <2>2. CASE ~(i <= n)
    <3>1. p \in 1..(8 * n + 8 * k) /\ ~(p <= 8 * n) /\ p - 8 * n \in 1..8 * k
      BY <1>0, <2>2
    <3>2. b[p] = 0
      BY <1>4, <1>5, <1>7, <3>1
    <3>3. c[p] = Binary(0, 8)[j]
      BY <1>3, <1>6, <2>2
    <3>4. Binary(0, 8)[j] = Bit(0, 8 - j)
      <4>1. 0 \in Octet
        BY DEF Octet
      <4>2. QED
        BY <4>1, OctetDigits DEF Bit
    <3>5. 8 - j \in 0..31
      OBVIOUS
    <3>6. QED
      BY <3>2, <3>3, <3>4, <3>5, ZeroBits
  <2>3. QED
    BY <2>1, <2>2
<1>9. b = c
  <2> DEFINE m == n + k
  <2>0. m \in Nat
    BY <1>0
  <2> HIDE DEF m
  <2>1. ASSUME NEW x \in 1..8 * m PROVE b[x] = c[x]
    <3>1. PICK i \in 1..m, j \in 1..8 : x = 8 * (i - 1) + j
      BY <2>0, PlaceIs
    <3>2. QED
      BY <1>8, <3>1 DEF m
  <2>2. Len(b) = 8 * m /\ Len(c) = 8 * m
    BY <1>6, <1>7 DEF m
  <2>3. QED
    BY <1>6, <1>7, <2>0, <2>1, <2>2 DEF Digits
<1>10. QED
  BY <1>2, <1>3, <1>9 DEF n, b, c, a, w, t, z

TextField(f) == /\ f.type \in {"string", "data"} /\ f.size \in Nat
                /\ f.optional \in BOOLEAN /\ f.fixed \in BOOLEAN

(* What a text field makes of digits.                                      *)
LEMMA StringDecoded ==
  ASSUME NEW f, NEW b, NEW u, NEW o, DecodePrefix(f, f.size, b) = << <<u, o>> >>,
         NEW body, body = Slice(After(b, o), 8 * u), body # <<>>, NEW text, ToText(body) = <<text>>
  PROVE  DecodeString(f, b) = Decoded(Clipped(f, text), o + 8 * u)
<1>1. << <<u, o>> >> # Raises /\ << <<u, o>> >>[1] = <<u, o>> /\ <<u, o>>[1] = u /\ <<u, o>>[2] = o
  BY DEF Raises
<1>2. <<text>> # Raises /\ <<text>>[1] = text
  BY IsResult
<1>3. QED
  BY <1>1, <1>2, Zenon DEF DecodeString, Then

LEMMA DataDecoded ==
  ASSUME NEW f, NEW v, NEW b, NEW u, NEW o, DecodePrefix(f, 0, b) = << <<u, o>> >>,
         NEW body, body = Slice(After(b, o), IF f.fixed THEN TextBits(f, v) ELSE 8 * u),
         NEW bytes, ToBytes(body, (IF f.fixed THEN TextBits(f, v) ELSE Len(body)) \div 8) = <<bytes>>
  PROVE  DecodeData(f, v, b) = Decoded(bytes, TextBits(f, <<bytes>>))
<1>1. << <<u, o>> >> # Raises /\ << <<u, o>> >>[1] = <<u, o>> /\ <<u, o>>[1] = u /\ <<u, o>>[2] = o
  BY DEF Raises
<1>2. <<bytes>> # Raises /\ <<bytes>>[1] = bytes
  BY IsResult
<1>3. QED
  BY <1>1, <1>2, Zenon DEF DecodeData, Then

LEMMA TextFits ==
  ASSUME NEW f, TextField(f), NEW v, Fits(f, v)
  PROVE  /\ f.optional => f.type = "string" /\ ~f.fixed
         /\ Len(v) \in 1..f.size /\ (f.type = "data" /\ f.fixed => Len(v) = f.size)
         /\ (~f.fixed => Len(v) # 127 /\ Len(v) \in 0..2^15 - 1)
         /\ f.type = "string" => ToSet(v) \subseteq 1..127
<1>1. f.type \notin {"bool", "enum"} /\ f.type # "uint" /\ f.type # "int" /\ f.type \in {"string", "data"}
  BY DEF TextField
<1>2. /\ f.optional => f.type = "string" /\ ~f.fixed
      /\ Len(v) \in 1..f.size /\ (f.fixed \/ Len(v) \in (0..2^15 - 1) \ {127})
      /\ f.type = "data" /\ f.fixed => Len(v) = f.size
      /\ f.type = "string" => ToSet(v) \subseteq 1..127
  BY <1>1, Zenon DEF Fits
<1>3. QED
  BY <1>2

(* A length that is less than 2^15 has a prefix.                           *)
LEMMA ShortOrLong ==
  ASSUME NEW n \in 0..2^15 - 1 PROVE Short(n) \/ Long(n)
<1>1. 2^7 = 128
  BY PowersAre
<1>2. n \in Nat /\ (n < 128 \/ ~(n < 128))
  OBVIOUS
<1>3. n < 128 => n \in 0..2^7 - 1
  BY <1>1, <1>2
<1>4. QED
  BY <1>2, <1>3, Zenon DEF Short, Long

(* The digits of a text, and its bytes.                                    *)
LEMMA WholeBytes ==
  ASSUME NEW v \in Seq(Octet), Len(v) >= 1
  PROVE  /\ Chars(v) \in Digits /\ Len(Chars(v)) = 8 * Len(v) /\ Chars(v) # <<>>
         /\ ToBytes(Chars(v), Len(v)) = <<v>> /\ (8 * Len(v)) \div 8 = Len(v)
<1> DEFINE b == Chars(v)
           n == Len(v)
<1>1. b \in Digits /\ Len(b) = 8 * n /\ n \in Nat /\ n >= 1
  BY CharsIs
<1>2. Bytes(b) = v
  BY BytesOfChars
<1> HIDE DEF b, n
<1>3. b # <<>> /\ (8 * n) \div 8 = n /\ 0 + Len(b) = 8 * n /\ 0 \in Nat
  BY <1>1, NoDigits
<1>4. Zeros(0) \o b = b
  <2>1. Zeros(0) = <<>>
    BY DEF Zeros
  <2>2. <<>> \o b = b
    BY <1>1, DigitsOne
  <2>3. QED
    BY <2>1, <2>2
<1>5. ToBytes(b, n) = <<Bytes(Zeros(0) \o b)>>
  BY <1>1, <1>3, ToBytesOf
<1>6. QED
  BY <1>1, <1>2, <1>3, <1>4, <1>5 DEF b, n

(* What a text field sends, and what comes of it, given what it reads.     *)
LEMMA TextReaches ==
  ASSUME NEW f, TextField(f), NEW v, NEW bits \in Digits, bits # <<>>, EncodeText(f, <<v>>) = <<bits>>, NEW r,
         \A rest \in Digits :
            /\ f.type = "string" => DecodeString(f, bits \o rest) = Decoded(v, Len(bits))
            /\ f.type = "data" => DecodeData(f, r, bits \o rest) = Decoded(v, Len(bits))
  PROVE  GetsTo(f, <<v>>, r, bits, <<v>>)
<1>1. f.type \in {"string", "data"}
  BY DEF TextField
<1>2. EncodeField(f, <<v>>) = <<bits>>
  BY <1>1, Zenon DEF EncodeField, EncodeScalar
<1>3. ASSUME NEW rest \in Digits PROVE DecodeField(f, r, bits \o rest) = Decoded(v, Len(bits))
  <2>1. bits \o rest # <<>>
    BY FirstOf
  <2>2. CASE f.type = "string"
    <3>1. DecodeField(f, r, bits \o rest) = DecodeString(f, bits \o rest)
      BY <2>1, <2>2, Zenon DEF DecodeField, DecodeScalar
    <3>2. QED
      BY <2>2, <3>1
  <2>3. CASE f.type = "data"
    <3>1. DecodeField(f, r, bits \o rest) = DecodeData(f, r, bits \o rest)
      BY <2>1, <2>3, Zenon DEF DecodeField, DecodeScalar
    <3>2. QED
      BY <2>3, <3>1
  <2>4. QED
    BY <1>1, <2>2, <2>3
<1>4. Reaches(f, bits, r, <<v>>)
  BY <1>3, Zenon DEF Reaches, Decoded
<1>5. QED
  BY <1>2, <1>4, Zenon DEF GetsTo

(* A length, its text, and what follows them.                              *)
Found(p, c, rest) ==
    /\ After((p \o c) \o rest, Len(p)) = c \o rest /\ Slice(c \o rest, Len(c)) = c
    /\ (p \o c) \o rest = p \o (c \o rest) /\ p \o c \in Digits /\ p \o c # <<>>
    /\ c \o rest \in Digits /\ Len(p \o c) = Len(p) + Len(c)

(* After its prefix, a text is found whole.                                *)
LEMMA TextFound ==
  ASSUME NEW p \in Digits, NEW c \in Digits, p # <<>>, NEW rest \in Digits
  PROVE  Found(p, c, rest)
<1>1. c \o rest \in Digits /\ p \o c \in Digits /\ Len(p \o c) = Len(p) + Len(c)
  BY DigitsPair
<1>2. (p \o c) \o rest = p \o (c \o rest)
  BY DigitsTriple
<1>3. After(p \o (c \o rest), Len(p)) = c \o rest
  BY <1>1, CutAt DEF Digits
<1>4. Slice(c \o rest, Len(c)) = c
  BY CutAt DEF Digits
<1>5. p \o c # <<>>
  BY FirstOf
<1>6. QED
  BY <1>1, <1>2, <1>3, <1>4, <1>5, Zenon DEF Found

(* Texts that are not padded.                                              *)
LEMMA NoZeroBytes ==
  ASSUME NEW v \in Seq(Octet), ToSet(v) \subseteq 1..127, Len(v) >= 1
  PROVE  ToText(Chars(v)) = <<v>>
<1>1. DOMAIN v = 1..Len(v) /\ Len(v) \in Nat
  OBVIOUS
<1>2. \A i \in 1..Len(v) : v[i] \in Ascii
  BY <1>1 DEF ToSet, Ascii
<1>3. Len(v) \in 1..Len(v) /\ \A i \in (Len(v) + 1)..Len(v) : v[i] = 0
  BY <1>1
<1>4. SubSeq(v, 1, Len(v)) = v
  BY <1>1
<1>5. ToText(Chars(v)) = <<SubSeq(v, 1, Len(v))>>
  BY <1>2, <1>3, TextRead
<1>6. QED
  BY <1>4, <1>5

(* A text that fits is not cut.                                            *)
LEMMA ClippedIs ==
  ASSUME NEW f, f.size \in Nat, NEW v \in Seq(Octet), Len(v) <= f.size
  PROVE  Clipped(f, v) = v
<1>1. Min({f.size, Len(v)}) = Len(v)
  <2>1. {f.size, Len(v)} \in SUBSET Nat /\ Len(v) \in {f.size, Len(v)}
    OBVIOUS
  <2>2. \A y \in {f.size, Len(v)} : Len(v) <= y
    OBVIOUS
  <2>3. QED
    BY <2>1, <2>2, MinIs
<1>2. SubSeq(v, 1, Len(v)) = v
  OBVIOUS
<1>3. QED
  BY <1>1, <1>2 DEF Clipped, Slice

(* A text of variable length.                                              *)
LEMMA VariableTrip ==
  ASSUME NEW f, TextField(f), ~f.fixed, NEW v \in Seq(Octet), Fits(f, v), NEW r
  PROVE  \E bits : GetsTo(f, <<v>>, r, bits, <<v>>)
<1> DEFINE n == Len(v)
           c == Chars(v)
           p == encode_field_length(n)
           bits == p \o c
<1>1. /\ f.optional => f.type = "string"
      /\ n \in 1..f.size /\ n # 127 /\ n \in 0..2^15 - 1
      /\ f.type = "string" => ToSet(v) \subseteq 1..127
  BY TextFits
<1>2. n \in Nat /\ n >= 1 /\ n <= f.size /\ f.size \in Nat
  BY <1>1 DEF TextField
<1>3. Short(n) \/ Long(n)
  BY <1>1, ShortOrLong
<1>4. \A rest \in Digits : PrefixOf(n, p, rest)
  BY <1>3, PrefixTrip
<1>5. c \in Digits /\ Len(c) = 8 * n /\ c # <<>> /\ ToBytes(c, n) = <<v>> /\ (8 * n) \div 8 = n
  BY <1>2, WholeBytes
<1>6. p \in Digits /\ p # <<>> /\ Len(p) = IF n < 128 THEN 8 ELSE 16
  BY <1>4, NoDigits DEF PrefixOf
<1>7. EncodeText(f, <<v>>) = <<bits>>
  <2>1. <<v>> # None /\ <<v>>[1] = v
    BY DEF None
  <2>2. QED
    BY <2>1 DEF EncodeText
<1>8. f.type = "string" => ToText(c) = <<v>> /\ Clipped(f, v) = v
  BY <1>1, <1>2, NoZeroBytes, ClippedIs
<1> HIDE DEF n, c, p
<1>9. bits \in Digits /\ bits # <<>> /\ Len(bits) = Len(p) + 8 * n
  <2>1. Found(p, c, <<>>)
    BY <1>5, <1>6, NoDigits, TextFound
  <2>2. QED
    BY <1>5, <2>1 DEF Found
<1>10. f.type = "data" => TextBits(f, <<v>>) = Len(bits)
  <2>1. <<v>> # None /\ <<v>>[1] = v
    BY DEF None
  <2>2. ASSUME f.type = "data" PROVE OptionalBit(f) = 0
    BY <1>1, <2>2 DEF OptionalBit, TextField
  <2>3. TextBits(f, <<v>>) = OptionalBit(f) + ((IF n < 127 THEN 8 ELSE 16) + 8 * n)
    BY <2>1 DEF TextBits, n
  <2>4. (IF n < 127 THEN 8 ELSE 16) = Len(p)
    BY <1>1, <1>2, <1>6
  <2>5. QED
    BY <1>2, <1>6, <1>9, <2>2, <2>3, <2>4
<1>11. ASSUME NEW rest \in Digits
       PROVE  /\ f.type = "string" => DecodeString(f, bits \o rest) = Decoded(v, Len(bits))
              /\ f.type = "data" => DecodeData(f, r, bits \o rest) = Decoded(v, Len(bits))
  <2> DEFINE b == bits \o rest
             o == Len(p)
             u == n
  <2>1. Found(p, c, rest)
    BY <1>5, <1>6, TextFound
  <2>2. decode_field_length(b) = << <<u, o>> >>
    <3>1. PrefixOf(n, p, c \o rest)
      BY <1>4, <2>1 DEF Found
    <3>2. b = p \o (c \o rest)
      BY <2>1 DEF Found
    <3> HIDE DEF b, bits
    <3>3. QED
      BY <3>1, <3>2 DEF PrefixOf
  <2>3. DecodePrefix(f, f.size, b) = << <<u, o>> >> /\ DecodePrefix(f, 0, b) = << <<u, o>> >>
    BY <2>2 DEF DecodePrefix
  <2>4. c = Slice(After(b, o), 8 * u)
    BY <1>5, <2>1 DEF Found
  <2> HIDE DEF b, o, u
  <2>5. ASSUME f.type = "string" PROVE DecodeString(f, b) = Decoded(v, Len(bits))
    <3>1. DecodeString(f, b) = Decoded(Clipped(f, v), o + 8 * u)
      BY <1>5, <1>8, <2>3, <2>4, <2>5, StringDecoded
    <3>2. QED
      BY <1>8, <1>9, <2>5, <3>1 DEF o, u
  <2>6. ASSUME f.type = "data" PROVE DecodeData(f, r, b) = Decoded(v, Len(bits))
    <3>1. c = Slice(After(b, o), IF f.fixed THEN TextBits(f, r) ELSE 8 * u)
      BY <2>4
    <3>2. ToBytes(c, (IF f.fixed THEN TextBits(f, r) ELSE Len(c)) \div 8) = <<v>>
      BY <1>5
    <3>3. DecodeData(f, r, b) = Decoded(v, TextBits(f, <<v>>))
      BY <2>3, <3>1, <3>2, DataDecoded
    <3>4. QED
      BY <1>10, <2>6, <3>3
  <2>7. QED
    BY <2>5, <2>6 DEF b
<1>12. GetsTo(f, <<v>>, r, bits, <<v>>)
  <2> HIDE DEF bits
  <2>1. QED
    BY <1>7, <1>9, <1>11, TextReaches
<1>13. QED
  BY <1>12

(* A text and the zero bytes that fill its field.                          *)
FillsUp(t, v, size) ==
    /\ t \in Seq(Octet) /\ Len(t) = size
    /\ \A i \in 1..size : t[i] = IF i <= Len(v) THEN v[i] ELSE 0

(* A text of fixed length is what it was and zero bytes.                   *)
LEMMA PaddedText ==
  ASSUME NEW v \in Seq(Octet), ToSet(v) \subseteq 1..127, NEW size \in Nat, Len(v) \in 1..size,
         NEW t, FillsUp(t, v, size)
  PROVE  ToText(Chars(t)) = <<v>>
<1> DEFINE n == Len(v)
<1>1. DOMAIN v = 1..n /\ n \in 1..size
  OBVIOUS
<1>2. \A i \in 1..n : v[i] \in Ascii
  BY <1>1 DEF ToSet, Ascii
<1>3. t \in Seq(Octet) /\ Len(t) = size /\ \A i \in 1..size : t[i] = IF i <= n THEN v[i] ELSE 0
  BY DEF FillsUp
<1>v. v \in Seq(Octet) /\ Len(v) = n
  OBVIOUS
<1> HIDE DEF n
<1>4. n \in 1..Len(t) /\ (\A i \in 1..n : t[i] \in Ascii /\ t[i] = v[i]) /\ \A i \in (n + 1)..Len(t) : t[i] = 0
  <2>1. \A i \in 1..n : i \in 1..size /\ i <= n
    BY <1>1
  <2>2. \A i \in (n + 1)..size : i \in 1..size /\ ~(i <= n)
    BY <1>1
  <2>3. QED
    BY <1>1, <1>2, <1>3, <2>1, <2>2
<1>5. ToText(Chars(t)) = <<SubSeq(t, 1, n)>>
  BY <1>3, <1>4, TextRead
<1>6. SubSeq(t, 1, n) = v
  <2> DEFINE s == SubSeq(t, 1, n)
  <2>1. s \in Seq(Octet) /\ Len(s) = n /\ \A i \in 1..n : s[i] = t[i]
    BY <1>1, <1>3
  <2> HIDE DEF s
  <2>2. \A i \in 1..n : s[i] = v[i]
    BY <1>4, <2>1
  <2>3. s = v
    BY <1>v, <2>1, <2>2
  <2>4. QED
    BY <2>3 DEF s
<1>7. QED
  BY <1>5, <1>6

(* A text or data of fixed length, which a field that has data decodes.    *)
LEMMA FixedTrip ==
  ASSUME NEW f, TextField(f), f.fixed, NEW v \in Seq(Octet), Fits(f, v),
         NEW r, f.type = "data" => r # None
  PROVE  \E bits : GetsTo(f, <<v>>, r, bits, <<v>>)
<1> DEFINE n == Len(v)
           size == f.size
           c == Chars(v)
           t == v \o Zeros(size - n)
           bits == Chars(t)
<1>1. /\ f.optional = FALSE /\ n \in 1..size /\ (f.type = "data" => n = size) /\ size \in Nat
      /\ f.type = "string" => ToSet(v) \subseteq 1..127
  BY TextFits DEF TextField
<1>2. n \in Nat /\ n >= 1 /\ n <= size /\ size - n \in Nat /\ size >= 1 /\ n + (size - n) = size
      /\ 8 * size - 8 * n = 8 * (size - n)
  BY <1>1
<1>3. \A u : u # None => TextBits(f, u) = 8 * size
  BY <1>1 DEF TextBits, OptionalBit
<1>4. c \in Digits /\ Len(c) = 8 * n
  BY CharsIs
<1>5. FillsUp(t, v, size) /\ c \o Zeros(8 * (size - n)) = bits
  <2>1. /\ t \in Seq(Octet) /\ Len(t) = n + (size - n)
        /\ \A i \in 1..n + (size - n) : t[i] = IF i <= n THEN v[i] ELSE 0
        /\ c \o Zeros(8 * (size - n)) = bits
    BY <1>2, CharsPadded
  <2> HIDE DEF t, bits, size, n
  <2>2. QED
    BY <1>2, <2>1 DEF FillsUp, n
<1>6. EncodeText(f, <<v>>) = <<bits>>
  <2>1. <<v>> # None /\ <<v>>[1] = v
    BY DEF None
  <2>2. TextBits(f, <<v>>) - Len(c) = 8 * (size - n)
    BY <1>2, <1>3, <1>4, <2>1
  <2>3. EncodeText(f, <<v>>) = <<c \o Zeros(TextBits(f, <<v>>) - Len(c))>>
    BY <2>1 DEF EncodeText
  <2>4. QED
    BY <1>5, <2>2, <2>3
<1>7. f.type = "string" => ToText(bits) = <<v>> /\ Clipped(f, v) = v
  <2>1. f.type = "string" => ToText(bits) = <<v>>
    BY <1>1, <1>5, PaddedText
  <2>2. Clipped(f, v) = v
    BY <1>1, <1>2, ClippedIs
  <2>3. QED
    BY <2>1, <2>2
<1>8. /\ bits \in Digits /\ Len(bits) = 8 * size /\ bits # <<>>
      /\ ToBytes(bits, size) = <<t>> /\ (8 * size) \div 8 = size
  <2> HIDE DEF t, size
  <2>1. t \in Seq(Octet) /\ Len(t) = size
    BY <1>5 DEF FillsUp
  <2>2. QED
    BY <1>2, <2>1, WholeBytes
<1>9. f.type = "data" => t = v
  <2> SUFFICES ASSUME f.type = "data" PROVE t = v
    OBVIOUS
  <2>1. n = size
    BY <1>1
  <2> HIDE DEF t
  <2>2. t \in Seq(Octet) /\ Len(t) = size /\ \A i \in 1..size : t[i] = IF i <= n THEN v[i] ELSE 0
    BY <1>5 DEF FillsUp
  <2>3. \A i \in 1..size : t[i] = v[i]
    BY <2>1, <2>2
  <2>4. QED
    BY <2>1, <2>2, <2>3
<1>a. size = f.size
  OBVIOUS
<1> HIDE DEF n, c, t, bits, size
<1>11. ASSUME NEW rest \in Digits
       PROVE  /\ f.type = "string" => DecodeString(f, bits \o rest) = Decoded(v, Len(bits))
              /\ f.type = "data" => DecodeData(f, r, bits \o rest) = Decoded(v, Len(bits))
  <2> DEFINE b == bits \o rest
  <2>1. DecodePrefix(f, size, b) = << <<size, 0>> >> /\ DecodePrefix(f, 0, b) = << <<0, 0>> >>
    BY DEF DecodePrefix
  <2>2. bits = Slice(After(b, 0), 8 * size)
    <3>1. b \in Digits /\ Slice(b, Len(bits)) = bits
      BY <1>8, CutAt, DigitsPair DEF Digits
    <3>2. After(b, 0) = b
      BY <3>1, CutAt, NoDigits DEF Digits
    <3>3. QED
      BY <1>8, <3>1, <3>2
  <2> HIDE DEF b
  <2>3. ASSUME f.type = "string" PROVE DecodeString(f, b) = Decoded(v, Len(bits))
    <3>1. DecodeString(f, b) = Decoded(Clipped(f, v), 0 + 8 * size)
      BY <1>7, <1>8, <1>a, <2>1, <2>2, <2>3, StringDecoded
    <3>2. 0 + 8 * size = 8 * size
      BY <1>1
    <3>3. QED
      BY <1>7, <1>8, <2>3, <3>1, <3>2
  <2>4. ASSUME f.type = "data" PROVE DecodeData(f, r, b) = Decoded(v, Len(bits))
    <3>1. TextBits(f, r) = 8 * size /\ TextBits(f, <<v>>) = 8 * size
      <4>1. <<v>> # None
        BY DEF None
      <4>2. QED
        BY <1>3, <2>4, <4>1
    <3>2. bits = Slice(After(b, 0), IF f.fixed THEN TextBits(f, r) ELSE 8 * 0)
      BY <2>2, <3>1
    <3>3. ToBytes(bits, (IF f.fixed THEN TextBits(f, r) ELSE Len(bits)) \div 8) = <<v>>
      BY <1>8, <1>9, <2>4, <3>1
    <3>4. DecodeData(f, r, b) = Decoded(v, TextBits(f, <<v>>))
      BY <2>1, <3>2, <3>3, DataDecoded
    <3>5. QED
      BY <1>8, <3>1, <3>4
  <2>5. QED
    BY <2>3, <2>4 DEF b
<1>12. GetsTo(f, <<v>>, r, bits, <<v>>)
  BY <1>6, <1>8, <1>11, TextReaches
<1>13. QED
  BY <1>12

(* What a scalar field holds: nothing, or a value of its type.             *)
Holds(f, s) == IsState(f, s) /\ IsItem(f, s)

LEMMA HoldsValue ==
  ASSUME NEW f, NEW s, Holds(f, s), s # None
  PROVE  /\ s = <<s[1]>>
         /\ f.type = "bool" => s[1] \in {0, 1}
         /\ f.type = "enum" => s[1] \in 0..f.items - 1
         /\ f.type \in {"uint", "int"} => s[1] \in Int
         /\ f.type \in {"string", "data"} => s[1] \in Seq(Octet)
<1>1. s = <<s[1]>> /\ IsValue(f, s[1]) /\ IsItem(f, s)
  BY DEF Holds, IsState
<1> DEFINE v == s[1]
<1>2. IsValue(f, v)
  BY <1>1
<1>3. f.type = "enum" => v \in 0..f.items - 1
  BY <1>1 DEF IsItem
<1> HIDE DEF v
<1>4. f.type = "bool" => v \in {0, 1}
  BY <1>2, Zenon DEF IsValue
<1>5. f.type \in {"uint", "int"} => v \in Int
  <2>1. CASE f.type = "uint"
    BY <1>2, <2>1, Zenon DEF IsValue
  <2>2. CASE f.type = "int"
    BY <1>2, <2>2, Zenon DEF IsValue
  <2>3. QED
    BY <2>1, <2>2, Zenon
<1>6. f.type \in {"string", "data"} => v \in Seq(Octet)
  <2>1. CASE f.type = "string"
    BY <1>2, <2>1, Zenon DEF IsValue, Octet
  <2>2. CASE f.type = "data"
    BY <1>2, <2>2, Zenon DEF IsValue, Octet
  <2>3. QED
    BY <2>1, <2>2, Zenon
<1>7. QED
  BY <1>1, <1>3, <1>4, <1>5, <1>6 DEF v

(* A truth value.                                                          *)
LEMMA TruthTrip ==
  ASSUME NEW f, f.type = "bool", NEW v \in {0, 1}, NEW r
  PROVE  \E bits : GetsTo(f, <<v>>, r, bits, <<v>>)
<1> DEFINE bits == <<v>>
<1>1. /\ EncodeBool(f, <<v>>) = <<bits>> /\ bits \in Digits /\ bits # <<>> /\ Len(bits) = 1
  BY NoDigits, BoolTrip
<1>2. ASSUME NEW rest \in Digits PROVE DecodeField(f, r, bits \o rest) = Decoded(v, Len(bits))
  <2>1. bits \o rest # <<>>
    BY <1>1, FirstOf
  <2>2. DecodeField(f, r, bits \o rest) = DecodeBool(bits \o rest)
    BY <2>1, Zenon DEF DecodeField, DecodeScalar
  <2>3. DecodeBool(bits \o rest) = Decoded(v, 1)
    BY BoolTrip
  <2>4. QED
    BY <1>1, <2>2, <2>3
<1>3. EncodeField(f, <<v>>) = <<bits>>
  BY <1>1, Zenon DEF EncodeField, EncodeScalar
<1> HIDE DEF bits
<1>4. Reaches(f, bits, r, <<v>>)
  BY <1>1, <1>2, Zenon DEF Reaches, Decoded
<1>5. QED
  BY <1>3, <1>4, Zenon DEF GetsTo

(* An item of an enumeration, or its default.                              *)
LEMMA ItemTrip ==
  ASSUME NEW f, f.type = "enum", f.size \in 1..31, f.items \in 2..2^f.size,
         NEW s, NEW n \in 0..f.items - 1, EnumValue(f, s) = <<n>>, NEW r
  PROVE  \E bits : GetsTo(f, s, r, bits, <<n>>)
<1>0. f.items \in Nat /\ f.items - 1 <= Largest(f.size)
  <2>1. Largest(f.size) = 2^f.size - 1 /\ 2^f.size \in Nat
    BY LargestIs
  <2>2. QED
    BY <2>1
<1>1. \A rest \in Digits : \E b \in Digits :
         EncodeEnum(f, s) = <<b>> /\ b # <<>> /\ DecodeEnum(f, b \o rest) = Decoded(n, Len(b))
  BY <1>0, EnumTrip
<1>2. PICK bits \in Digits : EncodeEnum(f, s) = <<bits>> /\ bits # <<>>
  BY <1>1, NoDigits
<1>3. ASSUME NEW rest \in Digits PROVE DecodeField(f, r, bits \o rest) = Decoded(n, Len(bits))
  <2>1. PICK b \in Digits : EncodeEnum(f, s) = <<b>> /\ DecodeEnum(f, b \o rest) = Decoded(n, Len(b))
    BY <1>1
  <2>2. <<b>> = <<bits>>
    BY <1>2, <2>1, Zenon
  <2>3. b = bits
    BY <2>2, IsResult, Zenon
  <2>4. bits \o rest # <<>>
    BY <1>2, FirstOf
  <2>5. DecodeField(f, r, bits \o rest) = DecodeEnum(f, bits \o rest)
    BY <2>4, Zenon DEF DecodeField, DecodeScalar
  <2>6. QED
    BY <2>1, <2>3, <2>5
<1>4. EncodeField(f, s) = <<bits>>
  BY <1>2, Zenon DEF EncodeField, EncodeScalar
<1>5. Reaches(f, bits, r, <<n>>)
  BY <1>2, <1>3, Zenon DEF Reaches, Decoded
<1>6. QED
  BY <1>4, <1>5, Zenon DEF GetsTo

(* A scalar field that can be carried is.                                  *)
LEMMA ScalarTrip ==
  ASSUME NEW f, IsScalar(f), NEW s, Holds(f, s), Present(f, s), s # None => Fits(f, s[1]),
         NEW r, f.type = "data" /\ f.fixed => r # None
  PROVE  /\ f.type # "array"
         /\ \E bits, got : /\ GetsTo(f, s, r, bits, got) /\ got # None
                           /\ Value(f, got) = Value(f, s) /\ (s # None => got = s)
<1>1. /\ IsState(f, f.default) /\ IsItem(f, f.default) /\ f.optional \in BOOLEAN /\ f.fixed \in BOOLEAN
      /\ \/ f.type = "bool"
         \/ f.type \in {"uint", "int"} /\ f.size \in 1..31
         \/ f.type = "enum" /\ f.size \in 1..31 /\ f.items \in 2..2^f.size
         \/ f.type \in {"string", "data"} /\ f.size \in Nat
  BY DEF IsScalar
<1>2. f.type # "array"
  BY <1>1
<1>3. \A v : <<v>> # None
  BY DEF None
<1>4. ASSUME s # None, NEW bits, GetsTo(f, s, r, bits, s)
      PROVE  \E b, got : /\ GetsTo(f, s, r, b, got) /\ got # None
                         /\ Value(f, got) = Value(f, s) /\ (s # None => got = s)
  BY <1>4
<1>5. ASSUME s # None
      PROVE  /\ s = <<s[1]>> /\ Fits(f, s[1])
             /\ f.type = "bool" => s[1] \in {0, 1}
             /\ f.type = "enum" => s[1] \in 0..f.items - 1
             /\ f.type \in {"string", "data"} => s[1] \in Seq(Octet)
  BY <1>5, HoldsValue
<1>6. CASE f.type = "bool"
  <2>1. s # None
    BY <1>6, Zenon DEF Present
  <2>2. PICK bits : GetsTo(f, <<s[1]>>, r, bits, <<s[1]>>)
    BY <1>5, <1>6, <2>1, TruthTrip
  <2>3. GetsTo(f, s, r, bits, s)
    BY <1>5, <2>1, <2>2, Zenon
  <2>4. QED
    BY <1>2, <1>4, <2>1, <2>3
<1>7. CASE f.type \in {"uint", "int"} /\ f.size \in 1..31
  <2>1. s # None
    BY <1>7 DEF Present
  <2>2. PICK bits : GetsTo(f, <<s[1]>>, r, bits, <<s[1]>>)
    BY <1>5, <1>7, <2>1, NumberTrip DEF NumberField
  <2>3. GetsTo(f, s, r, bits, s)
    BY <1>5, <2>1, <2>2, Zenon
  <2>4. QED
    BY <1>2, <1>4, <2>1, <2>3
<1>8. CASE f.type \in {"string", "data"} /\ f.size \in Nat
  <2>1. s # None
    BY <1>8 DEF Present
  <2>2. TextField(f) /\ s[1] \in Seq(Octet) /\ Fits(f, s[1])
    BY <1>1, <1>5, <1>8, <2>1 DEF TextField
  <2>3. \E bits : GetsTo(f, <<s[1]>>, r, bits, <<s[1]>>)
    <3>1. CASE f.fixed
      BY <2>2, <3>1, FixedTrip
    <3>2. CASE ~f.fixed
      BY <2>2, <3>2, VariableTrip
    <3>3. QED
      BY <3>1, <3>2
  <2>4. PICK bits : GetsTo(f, <<s[1]>>, r, bits, <<s[1]>>)
    BY <2>3
  <2>5. GetsTo(f, s, r, bits, s)
    BY <1>5, <2>1, <2>4, Zenon
  <2>6. QED
    BY <1>2, <1>4, <2>1, <2>5
<1>9. CASE f.type = "enum" /\ f.size \in 1..31 /\ f.items \in 2..2^f.size
  <2>1. CASE s # None
    <3>1. EnumValue(f, s) = <<s[1]>> /\ s[1] \in 0..f.items - 1
      BY <1>5, <1>9, <2>1 DEF EnumValue
    <3>2. PICK bits : GetsTo(f, s, r, bits, <<s[1]>>)
      BY <1>9, <3>1, ItemTrip
    <3>3. GetsTo(f, s, r, bits, s)
      BY <1>5, <2>1, <3>2, Zenon
    <3>4. QED
      BY <1>2, <1>4, <2>1, <3>3
  <2>2. CASE s = None
    <3>1. f.default # None
      BY <1>9, <2>2 DEF Present, EnumValue
    <3>2. Holds(f, f.default)
      BY <1>1 DEF Holds
    <3> DEFINE n == f.default[1]
    <3>3. f.default = <<n>> /\ n \in 0..f.items - 1
      BY <1>9, <3>1, <3>2, HoldsValue
    <3> HIDE DEF n
    <3>4. EnumValue(f, s) = <<n>>
      BY <2>2, <3>3 DEF EnumValue
    <3>5. PICK bits : GetsTo(f, s, r, bits, <<n>>)
      BY <1>9, <3>3, <3>4, ItemTrip
    <3>6. Value(f, <<n>>) = Value(f, s)
      BY <1>3, <1>9, <3>4 DEF Value, EnumValue
    <3>7. QED
      BY <1>2, <1>3, <2>2, <3>5, <3>6
  <2>3. QED
    BY <2>1, <2>2
<1>10. QED
  BY <1>1, <1>6, <1>7, <1>8, <1>9

(* How the position of a field in its element goes on.                     *)
LEMMA PositionGoesOn ==
  ASSUME NEW w \in Nat, w >= 1, NEW k \in Nat
  PROVE  /\ k % w \in 0..(w - 1) /\ k \div w \in Nat /\ k = w * (k \div w) + (k % w)
         /\ (k + 1) % w = (IF k % w = w - 1 THEN 0 ELSE (k % w) + 1)
         /\ (k + 1) \div w = (IF k % w = w - 1 THEN (k \div w) + 1 ELSE k \div w)
<1>1. k % w \in 0..(w - 1) /\ k \div w \in Nat /\ k = w * (k \div w) + (k % w)
  OBVIOUS
<1>2. (k + 1) % w \in 0..(w - 1) /\ (k + 1) \div w \in Nat /\ k + 1 = w * ((k + 1) \div w) + ((k + 1) % w)
  OBVIOUS
<1>3. QED
  BY <1>1, <1>2

LEMMA PositionEnds ==
  ASSUME NEW w \in Nat, w >= 1, NEW n \in Nat
  PROVE  /\ (n * w) % w = 0 /\ (n * w) \div w = n /\ n * w \in Nat
         /\ \A k \in 0..(n * w - 1) : k \div w \in 0..(n - 1)
         /\ n >= 1 => n * w >= w
<1>1. n * w \in Nat
  OBVIOUS
<1>2. (n * w) % w = 0 /\ (n * w) \div w = n
  OBVIOUS
<1>3. ASSUME NEW k \in 0..(n * w - 1) PROVE k \div w \in 0..(n - 1)
  OBVIOUS
<1>4. n >= 1 => n * w >= w
  OBVIOUS
<1>5. QED
  BY <1>1, <1>2, <1>3, <1>4

-----------------------------------------------------------------------------
(***************************************************************************)
(* How a value of each type is sent and read: arrays.                      *)
(***************************************************************************)

(* A run over the elements of an array takes one field after the other.    *)
RunStep(fields, w, b, acc, k) == Then(acc, LAMBDA run : DecodeNext(fields, run, (k % w) + 1, b))

RunOf(fields, w, base, n, b) ==
    Fold(LAMBDA acc, k : RunStep(fields, w, b, acc, k), base, [k \in 1..n |-> k - 1])

Running(f, n, fields, w, base, b) ==
    /\ f[0] = base
    /\ \A i \in 1..n : f[i] = RunStep(fields, w, b, f[i - 1], i - 1)
    /\ RunOf(fields, w, base, n, b) = f[n]

(* The run over the fields of all elements, one after the other.           *)
LEMMA RunUnfolds ==
  ASSUME NEW n \in Nat, NEW fields, NEW w, NEW base, NEW b
  PROVE  \E f : Running(f, n, fields, w, base, b)
<1> DEFINE Op(a, i) == CHOOSE r \in {RunStep(fields, w, b, x, i) : x \in {a}} : TRUE
           In(k, g) == \A s \in SUBSET (1..k) :
                         g[s] = IF s = {} THEN base ELSE Op(g[s \ {Max(s)}], Max(s) - 1)
           I == [i \in 1..n |-> i - 1]
           Folds(g) == g = [s \in SUBSET (DOMAIN I) |->
                              IF s = {} THEN base ELSE Op(g[s \ {Max(s)}], I[Max(s)])]
           Exists(k) == \E g : In(k, g)
           Has == {k \in 0..n : Exists(k)}
<1>1. ASSUME NEW a, NEW i PROVE Op(a, i) = RunStep(fields, w, b, a, i)
  OBVIOUS
<1> HIDE DEF Op
<1>2. 0 \in Has
  <2> DEFINE g == [s \in {{}} |-> base]
  <2>1. \A s \in SUBSET (1..0) : s = {}
    <3>1. \A x \in 1..0 : FALSE
      OBVIOUS
    <3>2. QED
      BY <3>1
  <2>2. In(0, g)
    <3>1. QED
      BY <2>1
  <2>3. Exists(0)
    BY <2>2, Zenon
  <2>4. QED
    <3> HIDE DEF Exists
    <3>1. QED
      BY <2>3
<1>3. ASSUME NEW k \in 0..(n - 1), k \in Has PROVE k + 1 \in Has
  <2>1. PICK old : In(k, old)
    BY <1>3, Zenon
  <2> DEFINE g == [s \in SUBSET (1..(k + 1)) |->
                      IF k + 1 \in s THEN Op(old[s \ {k + 1}], k) ELSE old[s]]
  <2>2. \A s \in SUBSET (1..(k + 1)) : /\ k + 1 \notin s => s \in SUBSET (1..k)
                                       /\ s \ {k + 1} \in SUBSET (1..k)
                                       /\ s \ {k + 1} \in SUBSET (1..(k + 1))
                                       /\ k + 1 \notin s \ {k + 1}
    <3>1. \A x \in 1..(k + 1) : x # k + 1 => x \in 1..k
      OBVIOUS
    <3>2. QED
      BY <3>1
  <2>3. \A s \in SUBSET (1..(k + 1)) :
          g[s] = IF k + 1 \in s THEN Op(old[s \ {k + 1}], k) ELSE old[s]
    OBVIOUS
  <2> HIDE DEF g
  <2>4. ASSUME NEW s \in SUBSET (1..(k + 1))
        PROVE  g[s] = IF s = {} THEN base ELSE Op(g[s \ {Max(s)}], Max(s) - 1)
    <3>1. CASE k + 1 \in s
      <4>1. Max(s) = k + 1
        <5>1. k + 1 \in Nat /\ Max(s) \in 1..(k + 1) /\ k + 1 <= Max(s)
          BY <3>1, GreatestExists
        <5>2. QED
          BY <5>1
      <4>2. g[s \ {k + 1}] = old[s \ {k + 1}]
        BY <2>2, <2>3
      <4>3. g[s] = Op(old[s \ {k + 1}], k)
        BY <2>3, <3>1
      <4>4. QED
        BY <3>1, <4>1, <4>2, <4>3
    <3>2. CASE k + 1 \notin s
      <4>1. s \in SUBSET (1..k) /\ g[s] = old[s]
        BY <2>2, <2>3, <3>2
      <4>2. s \ {Max(s)} \in SUBSET (1..(k + 1)) /\ k + 1 \notin s \ {Max(s)}
        BY <3>2
      <4>3. g[s \ {Max(s)}] = old[s \ {Max(s)}]
        BY <2>3, <4>2
      <4>4. old[s] = IF s = {} THEN base ELSE Op(old[s \ {Max(s)}], Max(s) - 1)
        BY <2>1, <4>1
      <4>5. QED
        BY <4>1, <4>3, <4>4
    <3>3. QED
      BY <3>1, <3>2
  <2>5. In(k + 1, g)
    BY <2>4
  <2>6. Exists(k + 1)
    BY <2>5, Zenon
  <2>7. QED
    <3> HIDE DEF Exists
    <3>1. QED
      BY <2>6
<1>4. PICK it : In(n, it)
  <2>1. 0..n \subseteq Has
    <3> HIDE DEF Has
    <3>1. QED
      BY <1>2, <1>3, UpToInduction
  <2>2. Exists(n)
    <3> HIDE DEF Exists
    <3>1. QED
      BY <2>1
  <2>3. QED
    BY <2>2
<1>0. DOMAIN I = 1..n /\ \A i \in 1..n : I[i] = i - 1
  OBVIOUS
<1> DEFINE h == [s \in SUBSET (1..n) |-> it[s]]
<1>5. Folds(h)
  <2> HIDE DEF I
  <2>1. ASSUME NEW s \in SUBSET (1..n)
        PROVE  it[s] = IF s = {} THEN base ELSE Op(h[s \ {Max(s)}], I[Max(s)])
    <3>1. it[s] = IF s = {} THEN base ELSE Op(it[s \ {Max(s)}], Max(s) - 1)
      BY <1>4
    <3>2. s \ {Max(s)} \in SUBSET (1..n)
      OBVIOUS
    <3>3. s # {} => Max(s) \in 1..n
      BY GreatestExists
    <3>4. QED
      BY <1>0, <3>1, <3>2, <3>3
  <2>2. QED
    BY <1>0, <2>1
<1>6. RunOf(fields, w, base, n, b) = (CHOOSE g : Folds(g))[DOMAIN I]
  BY Zenon DEF RunOf, Fold, FoldLeft, MapThenFoldSet, Op
<1> HIDE DEF I
<1>7. PICK g : Folds(g) /\ RunOf(fields, w, base, n, b) = g[1..n]
  <2> HIDE DEF h
  <2>1. QED
    BY <1>5, <1>6, <1>0
<1> DEFINE f == [i \in 0..n |-> g[1..i]]
<1>8. f[0] = base
  <2>1. 1..0 = {} /\ {} \in SUBSET (1..n)
    OBVIOUS
  <2>2. QED
    BY <1>7, <1>0, <2>1
<1>9. ASSUME NEW i \in 1..n PROVE f[i] = RunStep(fields, w, b, f[i - 1], i - 1)
  <2>1. 1..i \in SUBSET (1..n) /\ Max(1..i) = i /\ (1..i) \ {i} = 1..(i - 1) /\ 1..i # {}
    <3>1. i \in Nat /\ i # 0 /\ \A x \in 1..i : x \in 1..n
      OBVIOUS
    <3>2. QED
      BY <3>1, MaxUpTo
  <2>2. g[1..i] = Op(g[1..(i - 1)], i - 1)
    <3>1. \A t \in SUBSET (1..n) : t # {} => g[t] = Op(g[t \ {Max(t)}], I[Max(t)])
      BY <1>7, <1>0
    <3>2. g[1..i] = Op(g[(1..i) \ {Max(1..i)}], I[Max(1..i)])
      BY <2>1, <3>1
    <3>3. I[i] = i - 1
      BY <1>0
    <3>4. QED
      BY <2>1, <3>2, <3>3, Zenon
  <2>3. f[i] = g[1..i] /\ f[i - 1] = g[1..(i - 1)]
    OBVIOUS
  <2>4. QED
    BY <1>1, <2>2, <2>3, Zenon
<1>10. f[n] = g[1..n]
  OBVIOUS
<1>11. Running(f, n, fields, w, base, b)
  <2> HIDE DEF f
  <2>1. QED
    BY <1>7, <1>8, <1>9, <1>10, Zenon DEF Running
<1>12. QED
  BY <1>11, Zenon

(* decode() of an array, from a count and the place of the first element.  *)
ArrayResult(s, count, run) ==
    <<[v |-> [template |-> run.states,
              elements |-> [i \in 1..Max({count, Len(s.elements)}) |->
                               IF i <= count THEN <<>> ELSE s.elements[i]]],
       used |-> run.off]>>

ArrayFrom(f, s, b, p) ==
    Then(RunOf(f.fields, Len(f.fields), <<[off |-> p[2], states |-> s.template]>>,
               p[1] * Len(f.fields), b),
         LAMBDA run : ArrayResult(s, p[1], run))

(* decode() of an array, once its length is read.                          *)
LEMMA ArrayDecoded ==
  ASSUME NEW f, NEW s, NEW b, NEW p, DecodePrefix(f, f.size, b) = <<p>>
  PROVE  DecodeArray(f, s, b) = ArrayFrom(f, s, b, p)
<1>1. DecodeArray(f, s, b) = IF DecodePrefix(f, f.size, b) = Raises THEN Raises
                             ELSE ArrayFrom(f, s, b, DecodePrefix(f, f.size, b)[1])
  BY Zenon DEF DecodeArray, ArrayFrom, ArrayResult, RunOf, RunStep, Then
<1>2. QED
  BY <1>1, IsResult

(* The digits of a field of an element, where the run has come to it.      *)
Stands(b, x, part) == x \in Digits /\ \E rest \in Digits : b = x \o (part \o rest)

MovesTo(fields, x, part, old, new, j, b) ==
    DecodeNext(fields, [off |-> Len(x), states |-> old], j, b) =
        <<[off |-> Len(x) + Len(part), states |-> new]>>

(* One field of an element is decoded where it was put.                    *)
LEMMA ElementStep ==
  ASSUME NEW fields, NEW j, fields[j].optional = FALSE, fields[j].type # "array",
         NEW part, NEW old, NEW got, Reaches(fields[j], part, old[j], got),
         NEW b, NEW x, Stands(b, x, part), NEW new, Puts(old, j, got, new)
  PROVE  MovesTo(fields, x, part, old, new, j, b)
<1> DEFINE f == fields[j]
           run == [off |-> Len(x), states |-> old]
           result == <<[v |-> got, used |-> Len(part)]>>
<1>0. PICK rest \in Digits : x \in Digits /\ b = x \o (part \o rest)
  BY DEF Stands
<1>1. part \in Digits /\ DecodeField(f, old[j], part \o rest) = result
  BY DEF Reaches
<1>2. DecodeScalar(f, old[j], part \o rest) = result
  BY <1>1, Zenon DEF DecodeField
<1>3. run.off + OptionalBit(f) = Len(x)
  BY <1>0 DEF OptionalBit, Digits
<1>4. After(b, Len(x)) = part \o rest
  BY <1>0, <1>1, AfterTwice
<1>5. run.states = old
  OBVIOUS
<1> HIDE DEF run
<1>6. DecodeNext(fields, run, j, b) =
         Then(DecodeScalar(f, run.states[j], After(b, run.off + OptionalBit(f))),
              LAMBDA g : <<[off |-> run.off + OptionalBit(f) + g.used,
                            states |-> [run.states EXCEPT ![j] = g.v]]>>)
  BY Zenon DEF DecodeNext
<1>7. DecodeScalar(f, run.states[j], After(b, run.off + OptionalBit(f))) = result
  BY <1>2, <1>3, <1>4, <1>5
<1>8. result # Raises /\ result[1].v = got /\ result[1].used = Len(part)
  <2>1. result # Raises /\ result[1] = [v |-> got, used |-> Len(part)]
    BY IsResult
  <2> HIDE DEF result
  <2>2. QED
    BY <2>1
<1> HIDE DEF result, f
<1>9. DecodeNext(fields, run, j, b) =
         <<[off |-> run.off + OptionalBit(f) + result[1].used,
            states |-> [run.states EXCEPT ![j] = result[1].v]]>>
  BY <1>6, <1>7, <1>8, Zenon DEF Then
<1>10. [run.states EXCEPT ![j] = result[1].v] = new
  BY <1>5, <1>8, Zenon DEF Puts
<1>11. QED
  BY <1>3, <1>8, <1>9, <1>10 DEF run, MovesTo

(* The states el of the fields of an element and their digits, which are   *)
(* read as el by fields in states t, and again by fields in states el.     *)
ElementOf(fields, el, t, part, cat, w) ==
    /\ w \in Nat /\ w >= 1
    /\ \A j \in 1..w : /\ fields[j].optional = FALSE /\ fields[j].type # "array"
                       /\ EncodeScalar(fields[j], el[j]) = <<part[j]>>
                       /\ Reaches(fields[j], part[j], t[j], el[j])
                       /\ Reaches(fields[j], part[j], el[j], el[j])
    /\ Joined(cat, part, w)

(* n elements with the same digits, one after the other.                   *)
Repeated(all, digits, n) == Joined(all, [i \in 1..n |-> digits], n)

(* Digits after three groups of others.                                    *)
Behind(b, p, a, c, h) ==
    /\ p \in Digits /\ a \in Digits /\ c \in Digits /\ h \in Digits
    /\ b = p \o (a \o (c \o h))

Grouped(b, x, p, a, c, h) == x \in Digits /\ b = x \o h /\ Len(x) = Len(p) + Len(a) + Len(c)

(* The digits of the elements, found in those of the array.                *)
LEMMA Regrouped ==
  ASSUME NEW b, NEW p, NEW a, NEW c, NEW h, Behind(b, p, a, c, h)
  PROVE  \E x : Grouped(b, x, p, a, c, h)
<1>0. p \in Digits /\ a \in Digits /\ c \in Digits /\ h \in Digits
  BY DEF Behind
<1>1. c \o h \in Digits /\ p \o a \in Digits /\ Len(p \o a) = Len(p) + Len(a)
  BY <1>0, DigitsPair
<1>2. ASSUME NEW d \in Digits PROVE p \o (a \o d) = (p \o a) \o d
  <2>1. (p \o a) \o d = p \o (a \o d)
    BY <1>0, DigitsTriple, Zenon
  <2>2. QED
    BY <2>1, Zenon
<1>3. ASSUME NEW e \in Digits PROVE e \o (c \o h) = (e \o c) \o h
  <2>1. (e \o c) \o h = e \o (c \o h)
    BY <1>0, DigitsTriple, Zenon
  <2>2. QED
    BY <2>1, Zenon
<1>4. b = ((p \o a) \o c) \o h
  BY <1>1, <1>2, <1>3 DEF Behind
<1>5. (p \o a) \o c \in Digits /\ Len((p \o a) \o c) = Len(p \o a) + Len(c)
  BY <1>0, <1>1, DigitsPair
<1>6. Grouped(b, (p \o a) \o c, p, a, c, h)
  BY <1>1, <1>4, <1>5 DEF Grouped
<1>7. QED
  BY <1>6

(* Field k % w of element k \div w, in the digits of all.                  *)
PlaceAt(q, m, p, all, cat) == Len(p) + Len(all[q]) + Len(cat[m])

FieldAt(b, x, q, m, p, all, cat, part, w) ==
    /\ Stands(b, x, part[m + 1]) /\ Len(x) = PlaceAt(q, m, p, all, cat)
    /\ Len(cat[m + 1]) = Len(cat[m]) + Len(part[m + 1])
    /\ Len(all[q + 1]) = Len(all[q]) + Len(cat[w])

(* n elements behind the digits p.                                         *)
Laid(b, fields, w, n, p, all, cat, part, el, t) ==
    /\ ElementOf(fields, el, t, part, cat, w) /\ n \in Nat /\ Repeated(all, cat[w], n)
    /\ p \in Digits /\ \E rest \in Digits : b = p \o (all[n] \o rest)

LEMMA FieldFound ==
  ASSUME NEW b, NEW fields, NEW w, NEW n, NEW p, NEW all, NEW cat, NEW part, NEW el, NEW t,
         Laid(b, fields, w, n, p, all, cat, part, el, t), NEW q \in 0..(n - 1), NEW m \in 0..(w - 1)
  PROVE  \E x : FieldAt(b, x, q, m, p, all, cat, part, w)
<1> DEFINE E == cat[w]
           parts == [i \in 1..n |-> E]
<1>0. ElementOf(fields, el, t, part, cat, w) /\ n \in Nat /\ Repeated(all, cat[w], n) /\ p \in Digits
  BY DEF Laid
<1>r. PICK rest \in Digits : b = p \o (all[n] \o rest)
  BY DEF Laid
<1>1. Joined(all, parts, n) /\ q + 1 \in 1..n /\ (q + 1) - 1 = q /\ q \in 0..n
  BY <1>0 DEF Repeated
<1>2. Joined(cat, part, w) /\ m + 1 \in 1..w /\ (m + 1) - 1 = m /\ m \in 0..w /\ w \in 0..w
  BY <1>0 DEF ElementOf
<1>3. parts[q + 1] = E
  BY <1>1
<1>4. all[q] \in Digits /\ cat[m] \in Digits /\ E \in Digits /\ part[m + 1] \in Digits
  BY <1>1, <1>2 DEF Joined
<1> HIDE DEF parts, E
<1> DEFINE i1 == q + 1
           i2 == m + 1
<1>i. i1 \in 1..n /\ i1 - 1 = q /\ i2 \in 1..w /\ i2 - 1 = m
  BY <1>1, <1>2
<1> HIDE DEF i1, i2
<1>5. FoundIn(all[n] \o rest, all, parts, i1)
  BY <1>1, <1>i, DigitsFound
<1>6. Len(all[i1]) = Len(all[q]) + Len(E) /\ \E r1 \in Digits : all[n] \o rest = all[q] \o (E \o r1)
  BY <1>3, <1>5, <1>i DEF FoundIn, i1
<1>7. PICK r1 \in Digits : all[n] \o rest = all[q] \o (E \o r1)
  BY <1>6
<1>8. FoundIn(E \o r1, cat, part, i2)
  BY <1>2, <1>i, DigitsFound DEF E
<1>9. Len(cat[i2]) = Len(cat[m]) + Len(part[i2]) /\ \E r2 \in Digits : E \o r1 = cat[m] \o (part[i2] \o r2)
  BY <1>8, <1>i DEF FoundIn
<1>10. PICK r2 \in Digits : E \o r1 = cat[m] \o (part[i2] \o r2)
  BY <1>9
<1>11. PICK h \in Digits : h = part[i2] \o r2
  BY <1>4, DigitsPair DEF i2
<1>12. Behind(b, p, all[q], cat[m], h)
  BY <1>0, <1>r, <1>4, <1>7, <1>10, <1>11 DEF Behind
<1>13. PICK x : Grouped(b, x, p, all[q], cat[m], h)
  BY <1>12, Regrouped, Zenon
<1>14. FieldAt(b, x, q, m, p, all, cat, part, w)
  BY <1>6, <1>9, <1>10, <1>11, <1>13 DEF i1, i2, E, Grouped, FieldAt, PlaceAt, Stands
<1>15. QED
  BY <1>14

(* Where the run stands after k fields.                                    *)
Reached(k, w, el, t) == [j \in 1..w |-> IF j <= k THEN el[j] ELSE t[j]]
Place(k, w, p, all, cat) == PlaceAt(k \div w, k % w, p, all, cat)

RunAt(k, w, p, all, cat, el, t) ==
    <<[off |-> Place(k, w, p, all, cat), states |-> Reached(k, w, el, t)]>>

InRun(k, n, w) == k \in 0..(n * w - 1)

RunsOnTo(b, fields, w, p, all, cat, el, t, k) ==
    RunStep(fields, w, b, RunAt(k, w, p, all, cat, el, t), k) = RunAt(k + 1, w, p, all, cat, el, t)

(* The run goes on by one field.                                           *)
LEMMA RunGoesOn ==
  ASSUME NEW b, NEW fields, NEW w, NEW n, NEW p, NEW all, NEW cat, NEW part, NEW el, NEW t,
         Laid(b, fields, w, n, p, all, cat, part, el, t), NEW k, InRun(k, n, w)
  PROVE  RunsOnTo(b, fields, w, p, all, cat, el, t, k)
<1> DEFINE q == k \div w
           m == k % w
           j == m + 1
           old == Reached(k, w, el, t)
           new == Reached(k + 1, w, el, t)
<1>0. ElementOf(fields, el, t, part, cat, w) /\ n \in Nat /\ Repeated(all, cat[w], n) /\ p \in Digits
  BY DEF Laid
<1>1. w \in Nat /\ w >= 1 /\ k \in Nat
  <2>1. n * w \in Nat
    BY <1>0 DEF ElementOf
  <2>2. QED
    BY <1>0, <2>1 DEF ElementOf, InRun
<1>2. /\ m \in 0..(w - 1) /\ q \in 0..(n - 1) /\ k = w * q + m
      /\ (k + 1) % w = (IF m = w - 1 THEN 0 ELSE m + 1)
      /\ (k + 1) \div w = (IF m = w - 1 THEN q + 1 ELSE q)
  BY <1>0, <1>1, PositionGoesOn, PositionEnds DEF InRun
<1>3. j \in 1..w /\ j <= k + 1 /\ (k < w => j = k + 1)
  <2>1. q >= 1 => w * q >= w
    BY <1>1, <1>2
  <2>2. q = 0 => w * q = 0
    BY <1>1
  <2> DEFINE r == w * q
  <2>3. r \in Nat /\ q \in Nat /\ k = r + m /\ m \in 0..(w - 1) /\ (q >= 1 => r >= w) /\ (q = 0 => r = 0)
    BY <1>1, <1>2, <2>1, <2>2
  <2> HIDE DEF q, m, r
  <2>4. QED
    BY <1>1, <2>3
<1>4. /\ fields[j].optional = FALSE /\ fields[j].type # "array"
      /\ Reaches(fields[j], part[j], t[j], el[j]) /\ Reaches(fields[j], part[j], el[j], el[j])
  BY <1>0, <1>3 DEF ElementOf
<1>5. Reaches(fields[j], part[j], old[j], el[j])
  <2>1. old[j] = IF j <= k THEN el[j] ELSE t[j]
    BY <1>3 DEF Reached
  <2>2. QED
    BY <1>4, <2>1
<1>6. Puts(old, j, el[j], new)
  <2>1. \A i \in 1..w : (i <= k + 1 <=> i <= k \/ i = j)
    BY <1>1, <1>3
  <2> HIDE DEF j
  <2>2. QED
    BY <1>3, <2>1 DEF Puts, Reached
<1> HIDE DEF q, m, old, new
<1>f. PICK x : FieldAt(b, x, q, m, p, all, cat, part, w)
  BY <1>2, FieldFound
<1>7. /\ Stands(b, x, part[m + 1]) /\ Len(x) = PlaceAt(q, m, p, all, cat)
      /\ Len(cat[m + 1]) = Len(cat[m]) + Len(part[m + 1])
      /\ Len(all[q + 1]) = Len(all[q]) + Len(cat[w])
  BY <1>f DEF FieldAt
<1>8. Len(x) = Place(k, w, p, all, cat)
  BY <1>7, Zenon DEF Place, q, m
<1>9. Len(x) + Len(part[j]) = Place(k + 1, w, p, all, cat)
  <2>1. part[j] \in Digits
    BY <1>4 DEF Reaches
  <2>2. /\ Joined(cat, part, w) /\ Joined(all, [i \in 1..n |-> cat[w]], n) /\ w \in 0..w /\ 0 \in 0..w
        /\ m \in 0..w /\ q \in 0..n
    BY <1>0, <1>1, <1>2 DEF ElementOf, Repeated
  <2>3. cat[w] \in Digits /\ cat[m] \in Digits /\ all[q] \in Digits /\ cat[0] = <<>>
    BY <2>2 DEF Joined, Together
  <2>4. Len(part[j]) \in Nat /\ Len(cat[w]) \in Nat /\ Len(cat[m]) \in Nat /\ Len(all[q]) \in Nat
        /\ Len(p) \in Nat /\ Len(cat[0]) = 0
    BY <1>0, <2>1, <2>3, DigitsOne
  <2>6. CASE m = w - 1
    <3>1. m + 1 = w
      BY <1>1, <2>6
    <3>2. Len(cat[w]) = Len(cat[m]) + Len(part[w])
      BY <1>7, <3>1
    <3>3. (k + 1) % w = 0 /\ (k + 1) \div w = q + 1
      BY <1>2, <2>6
    <3>4. Place(k + 1, w, p, all, cat) = PlaceAt(q + 1, 0, p, all, cat)
      BY <3>3, Zenon DEF Place
    <3> DEFINE lp == Len(p)
               la == Len(all[q])
               lc == Len(cat[m])
               ld == Len(part[j])
               lx == Len(x)
               lw == Len(cat[w])
               here == Place(k + 1, w, p, all, cat)
    <3>5. here = lp + Len(all[q + 1]) + Len(cat[0]) /\ Len(all[q + 1]) = la + lw /\ lx = lp + la + lc
      BY <1>7, <3>4, Zenon DEF PlaceAt
    <3>6. lp \in Nat /\ la \in Nat /\ lc \in Nat /\ ld \in Nat /\ Len(cat[0]) = 0 /\ lw = lc + ld
      BY <2>4, <3>1, <3>2
    <3> HIDE DEF lp, la, lc, ld, lx, here, lw
    <3>7. here = lx + ld
      BY <3>5, <3>6
    <3>8. QED
      BY <3>7 DEF here, lx, ld
  <2>7. CASE m # w - 1
    <3>1. (k + 1) % w = m + 1 /\ (k + 1) \div w = q
      BY <1>2, <2>7
    <3>2. Place(k + 1, w, p, all, cat) = PlaceAt(q, m + 1, p, all, cat)
      BY <3>1, Zenon DEF Place
    <3> DEFINE lp == Len(p)
               la == Len(all[q])
               lc == Len(cat[m])
               ld == Len(part[j])
               lx == Len(x)
               here == Place(k + 1, w, p, all, cat)
    <3>3. here = lp + la + Len(cat[m + 1]) /\ Len(cat[m + 1]) = lc + ld /\ lx = lp + la + lc
      BY <1>7, <3>2, Zenon DEF PlaceAt, j
    <3>4. lp \in Nat /\ la \in Nat /\ lc \in Nat /\ ld \in Nat
      BY <2>4
    <3> HIDE DEF lp, la, lc, ld, lx, here
    <3>5. here = lx + ld
      BY <3>3, <3>4
    <3>6. QED
      BY <3>5 DEF here, lx, ld
  <2>8. QED
    BY <2>6, <2>7
<1> HIDE DEF j
<1>10. DecodeNext(fields, [off |-> Len(x), states |-> old], j, b) =
          <<[off |-> Len(x) + Len(part[j]), states |-> new]>>
  <2>1. Stands(b, x, part[j])
    BY <1>7 DEF j
  <2>2. MovesTo(fields, x, part[j], old, new, j, b)
    BY <1>4, <1>5, <1>6, <2>1, ElementStep, Zenon
  <2>3. QED
    BY <2>2 DEF MovesTo
<1>11. RunStep(fields, w, b, <<[off |-> Len(x), states |-> old]>>, k) =
          DecodeNext(fields, [off |-> Len(x), states |-> old], j, b)
  <2> DEFINE r == [off |-> Len(x), states |-> old]
  <2> HIDE DEF r
  <2>1. RunStep(fields, w, b, <<r>>, k) = DecodeNext(fields, r, (k % w) + 1, b)
    <3>1. RunStep(fields, w, b, <<r>>, k) =
             IF <<r>> = Raises THEN Raises ELSE DecodeNext(fields, <<r>>[1], (k % w) + 1, b)
      BY Zenon DEF RunStep, Then
    <3>2. QED
      BY <3>1, IsResult, Zenon
  <2>2. QED
    BY <2>1 DEF r, j, m
<1>12. QED
  BY <1>8, <1>9, <1>10, <1>11 DEF old, new, RunAt, RunsOnTo

RunEnds(b, fields, w, n, p, all, el, t) ==
    RunOf(fields, w, <<[off |-> Len(p), states |-> t]>>, n * w, b) =
        <<[off |-> Len(p) + Len(all[n]), states |-> el]>>

(* The run comes to the end of the elements.                               *)
LEMMA ArrayRun ==
  ASSUME NEW b, NEW fields, NEW w, NEW n, NEW p, NEW all, NEW cat, NEW part, NEW el, NEW t,
         Laid(b, fields, w, n, p, all, cat, part, el, t), n >= 1,
         el = [j \in 1..w |-> el[j]], t = [j \in 1..w |-> t[j]]
  PROVE  RunEnds(b, fields, w, n, p, all, el, t)
<1> DEFINE At(k) == RunAt(k, w, p, all, cat, el, t)
           base == <<[off |-> Len(p), states |-> t]>>
           N == n * w
<1>0. ElementOf(fields, el, t, part, cat, w) /\ n \in Nat /\ Repeated(all, cat[w], n) /\ p \in Digits
  BY DEF Laid
<1>1. w \in Nat /\ w >= 1
  BY <1>0 DEF ElementOf
<1>2. N % w = 0 /\ N \div w = n /\ N \in Nat /\ N >= w
  BY <1>0, <1>1, PositionEnds
<1>3. 0 % w = 0 /\ 0 \div w = 0
  BY <1>1
<1>4. /\ cat[0] = <<>> /\ all[0] = <<>> /\ all[n] \in Digits
      /\ Len(cat[0]) = 0 /\ Len(all[0]) = 0 /\ Len(all[n]) \in Nat /\ Len(p) \in Nat
  <2>1. Joined(cat, part, w) /\ Joined(all, [i \in 1..n |-> cat[w]], n) /\ n \in 0..n
    BY <1>0 DEF ElementOf, Repeated
  <2>2. cat[0] = <<>> /\ all[0] = <<>> /\ all[n] \in Digits
    BY <2>1 DEF Joined, Together
  <2>3. QED
    BY <1>0, <2>2, DigitsOne, NoDigits
<1>5. At(0) = base
  <2>1. Reached(0, w, el, t) = t
    <3>1. \A j \in 1..w : ~(j <= 0)
      BY <1>1
    <3>2. QED
      BY <3>1 DEF Reached
  <2>2. Place(0, w, p, all, cat) = Len(p)
    <3>1. Place(0, w, p, all, cat) = PlaceAt(0, 0, p, all, cat)
      BY <1>3, Zenon DEF Place
    <3>2. QED
      BY <1>4, <3>1 DEF PlaceAt
  <2>3. QED
    BY <2>1, <2>2 DEF RunAt
<1>6. At(N) = <<[off |-> Len(p) + Len(all[n]), states |-> el]>>
  <2>1. Reached(N, w, el, t) = el
    <3>1. \A j \in 1..w : j <= N
      BY <1>1, <1>2
    <3> HIDE DEF N
    <3>2. QED
      BY <3>1 DEF Reached
  <2>2. Place(N, w, p, all, cat) = Len(p) + Len(all[n])
    <3>1. Place(N, w, p, all, cat) = PlaceAt(n, 0, p, all, cat)
      BY <1>2, Zenon DEF Place
    <3>2. QED
      BY <1>4, <3>1 DEF PlaceAt
  <2>3. QED
    BY <2>1, <2>2 DEF RunAt
<1> HIDE DEF base
<1>7. PICK f : Running(f, N, fields, w, base, b)
  BY <1>2, RunUnfolds
<1>8. ASSUME NEW k \in 0..(N - 1) PROVE RunStep(fields, w, b, At(k), k) = At(k + 1)
  <2>1. InRun(k, n, w)
    BY DEF InRun
  <2>2. RunsOnTo(b, fields, w, p, all, cat, el, t, k)
    BY <2>1, RunGoesOn, Zenon
  <2>3. QED
    BY <2>2 DEF RunsOnTo
<1> HIDE DEF At, N
<1> DEFINE S == {k \in 0..N : f[k] = At(k)}
<1>9. 0 \in S
  BY <1>2, <1>5, <1>7 DEF Running
<1>10. ASSUME NEW k \in 0..(N - 1), k \in S PROVE k + 1 \in S
  <2>1. k + 1 \in 1..N /\ (k + 1) - 1 = k /\ k + 1 \in 0..N
    BY <1>2
  <2> DEFINE i == k + 1
  <2>2. f[i] = RunStep(fields, w, b, f[i - 1], i - 1)
    BY <1>7, <2>1, Zenon DEF Running
  <2>3. f[k] = At(k)
    BY <1>10
  <2>4. f[i] = At(i)
    BY <1>8, <2>1, <2>2, <2>3
  <2>5. QED
    BY <2>1, <2>4
<1>11. 0..N \subseteq S
  <2> HIDE DEF S
  <2>1. QED
    BY <1>2, <1>9, <1>10, UpToInduction
<1>12. f[N] = At(N)
  BY <1>2, <1>11
<1>13. RunOf(fields, w, base, N, b) = f[N]
  BY <1>7 DEF Running
<1>14. QED
  BY <1>6, <1>12, <1>13 DEF base, N, RunEnds

(* A field of an element that arrives: see Carried.                        *)
Arriving(g, s, t) ==
    /\ IsScalar(g) /\ ~g.optional /\ Holds(g, s) /\ s # None /\ Fits(g, s[1])
    /\ g.type = "data" /\ g.fixed => t # None

ReadTwice(g, s, t, part) ==
    /\ g.optional = FALSE /\ g.type # "array" /\ EncodeScalar(g, s) = <<part>>
    /\ Reaches(g, part, t, s) /\ Reaches(g, part, s, s)

LEMMA FieldArrives ==
  ASSUME NEW g, NEW s, NEW t, Arriving(g, s, t)
  PROVE  \E part : ReadTwice(g, s, t, part)
<1>1. /\ IsScalar(g) /\ g.optional = FALSE /\ Holds(g, s) /\ s # None /\ Fits(g, s[1]) /\ Present(g, s)
      /\ g.type = "data" /\ g.fixed => t # None
  BY DEF Arriving, Present, IsScalar
<1>2. \A r : (g.type = "data" /\ g.fixed => r # None) =>
         g.type # "array" /\ \E bits, got : GetsTo(g, s, r, bits, got) /\ (s # None => got = s)
  <2> SUFFICES ASSUME NEW r, g.type = "data" /\ g.fixed => r # None
               PROVE  g.type # "array" /\ \E bits, got : GetsTo(g, s, r, bits, got) /\ (s # None => got = s)
    OBVIOUS
  <2>1. g.type # "array"
    BY <1>1, ScalarTrip
  <2>2. \E bits, got : /\ GetsTo(g, s, r, bits, got) /\ got # None
                       /\ Value(g, got) = Value(g, s) /\ (s # None => got = s)
    BY <1>1, ScalarTrip
  <2>3. QED
    BY <2>1, <2>2, Zenon
<1>3. PICK bits : g.type # "array" /\ GetsTo(g, s, t, bits, s)
  BY <1>1, <1>2, Zenon
<1>4. PICK again : GetsTo(g, s, s, again, s)
  BY <1>1, <1>2, Zenon
<1>5. <<again>> = <<bits>>
  BY <1>3, <1>4, Zenon DEF GetsTo
<1>6. again = bits
  BY <1>5, IsResult, Zenon
<1>7. EncodeScalar(g, s) = <<bits>>
  BY <1>3, Zenon DEF GetsTo, EncodeField
<1>8. ReadTwice(g, s, t, bits)
  BY <1>1, <1>3, <1>4, <1>6, <1>7, Zenon DEF ReadTwice, GetsTo
<1>9. QED
  BY <1>8, Zenon

(* An element whose fields can be carried has its digits.                  *)
LEMMA ElementExists ==
  ASSUME NEW fields, NEW w \in Nat, w >= 1, NEW el, NEW t,
         \A j \in 1..w : Arriving(fields[j], el[j], t[j])
  PROVE  \E part, cat : ElementOf(fields, el, t, part, cat, w)
<1> DEFINE part == [j \in 1..w |-> CHOOSE p : ReadTwice(fields[j], el[j], t[j], p)]
<1>1. \A j \in 1..w : ReadTwice(fields[j], el[j], t[j], part[j])
  <2> SUFFICES ASSUME NEW j \in 1..w PROVE ReadTwice(fields[j], el[j], t[j], part[j])
    OBVIOUS
  <2>1. \E p : ReadTwice(fields[j], el[j], t[j], p)
    BY FieldArrives
  <2>2. part[j] = CHOOSE p : ReadTwice(fields[j], el[j], t[j], p)
    OBVIOUS
  <2> HIDE DEF part
  <2>3. QED
    BY <2>1, <2>2, Zenon
<1> HIDE DEF part
<1>2. \A j \in 1..w : part[j] \in Digits
  BY <1>1 DEF ReadTwice, Reaches
<1>3. PICK cat : Joined(cat, part, w)
  BY <1>2, JoinedExists
<1>4. ElementOf(fields, el, t, part, cat, w)
  BY <1>1, <1>3, Zenon DEF ElementOf, ReadTwice
<1>5. QED
  BY <1>4, Zenon

(* The digits of n elements el.                                            *)
Alike1(s, n, el) ==
    /\ n \in Nat /\ n >= 1 /\ IsList(s.elements) /\ Len(s.elements) = n
    /\ Elements(s) = [i \in 1..n |-> el]

Encodes(f, s, n, all) ==
    EncodeArray(f, s) = <<(IF f.fixed THEN <<>> ELSE encode_field_length(n)) \o all[n]>>

(* encode() of an array of equal elements.                                 *)
LEMMA ArrayEncoded ==
  ASSUME NEW f, NEW s, NEW n, NEW el, Alike1(s, n, el), NEW w, DOMAIN el = 1..w,
         NEW t, NEW part, NEW cat, ElementOf(f.fields, el, t, part, cat, w),
         NEW all, Repeated(all, cat[w], n)
  PROVE  Encodes(f, s, n, all)
<1> DEFINE Element(x) == Join([j \in DOMAIN x |-> EncodeScalar(f.fields[j], x[j])])
           Body(els)  == Join([i \in DOMAIN els |-> Element(els[i])])
           els == [i \in 1..n |-> el]
           E == cat[w]
           prefix == IF f.fixed THEN <<>> ELSE encode_field_length(n)
<1>1. w \in Nat /\ Joined(cat, part, w) /\ \A j \in 1..w : EncodeScalar(f.fields[j], el[j]) = <<part[j]>>
  BY DEF ElementOf
<1>n. n \in Nat
  BY DEF Alike1
<1>2. Element(el) = <<E>>
  <2> DEFINE results == [j \in DOMAIN el |-> EncodeScalar(f.fields[j], el[j])]
  <2>1. DOMAIN results = 1..w /\ \A j \in 1..w : results[j] = <<part[j]>>
    BY <1>1
  <2> HIDE DEF results
  <2>j. /\ w \in Nat /\ Together(cat, part, w) /\ \A i \in 0..w : cat[i] \in Digits
        /\ \A i \in 1..w : part[i] \in Digits /\ results[i] = <<part[i]>>
    BY <1>1, <2>1, Zenon DEF Joined
  <2>2. Join(results) = <<cat[w]>>
    BY <2>1, <2>j, JoinIs
  <2>3. QED
    BY <2>2 DEF results
<1>3. Body(els) = <<all[n]>>
  <2> DEFINE results == [i \in DOMAIN els |-> Element(els[i])]
             parts == [i \in 1..n |-> E]
  <2>1. DOMAIN results = 1..n /\ \A i \in 1..n : results[i] = Element(el)
    <3> HIDE DEF Element
    <3>1. QED
      OBVIOUS
  <2> HIDE DEF Element, results
  <2>2. Joined(all, parts, n) /\ \A i \in 1..n : parts[i] = E
    BY DEF Repeated
  <2> HIDE DEF parts, E
  <2>3. \A i \in 1..n : results[i] = <<parts[i]>>
    BY <1>2, <2>1, <2>2
  <2>4. Join(results) = <<all[n]>>
    BY <1>n, <2>1, <2>2, <2>3, JoinIs DEF Joined
  <2>5. QED
    BY <2>4 DEF results
<1>4. s.elements # <<>> /\ Len(s.elements) = n /\ Elements(s) = [i \in 1..n |-> el]
  BY DEF IsList, Alike1
<1> HIDE DEF els
<1>5. EncodeArray(f, s) = Then(Body(Elements(s)), LAMBDA body :
         <<(IF f.fixed THEN <<>> ELSE encode_field_length(Len(s.elements))) \o body>>)
  BY <1>4, Zenon DEF EncodeArray
<1>6. Body(Elements(s)) = <<all[n]>>
  BY <1>3, <1>4 DEF els
<1> HIDE DEF Body
<1>7. QED
  BY <1>4, <1>5, <1>6, IsResult, Zenon DEF Then, Encodes

LEMMA MaxIs ==
  ASSUME NEW S \in SUBSET Nat, NEW j \in S, \A y \in S : j >= y
  PROVE  Max(S) = j
<1>1. \A x \in S : (\A y \in S : x >= y) => x = j
  OBVIOUS
<1>2. QED
  BY <1>1 DEF Max

(* What the sender and the receiver have of an array.                      *)
HasElements(f, s) ==
    /\ IsList(s.elements)
    /\ \A i \in DOMAIN s.elements :
          /\ Elements(s)[i] = [j \in DOMAIN f.fields |-> Elements(s)[i][j]]
          /\ \A j \in DOMAIN f.fields : Holds(f.fields[j], Elements(s)[i][j])

HasTemplate(f, s) == IsList(s.elements) /\ s.template = [j \in DOMAIN f.fields |-> s.template[j]]

(* What Carried says of an array.                                          *)
LEMMA ArrayCarried ==
  ASSUME NEW f, IsField(f), f.type = "array", NEW s, NEW r, HasElements(f, s), Carried(f, s, r)
  PROVE  \E n, el : /\ Alike1(s, n, el) /\ Len(r.elements) <= n
                    /\ IF f.fixed THEN n = f.size ELSE n < 2^15
                    /\ el = [j \in DOMAIN f.fields |-> el[j]]
                    /\ \A j \in DOMAIN f.fields : Arriving(f.fields[j], el[j], r.template[j])
<1> DEFINE els == Elements(s)
           n == Len(s.elements)
           el == els[1]
<1>1. n \in Nat /\ DOMAIN s.elements = 1..n
  BY DEF HasElements, IsList
<1> HIDE DEF n
<1>2. els = [i \in 1..n |-> els[i]]
  BY <1>1 DEF Elements
<1>3. /\ els # <<>> /\ Len(r.elements) <= Len(els)
      /\ IF f.fixed THEN Len(els) = f.size ELSE Len(els) < 2^15
      /\ \A i \in DOMAIN els : els[i] = els[1]
      /\ \A j \in DOMAIN f.fields :
           /\ ~f.fields[j].optional
           /\ els[1][j] # None /\ Fits(f.fields[j], els[1][j][1])
           /\ f.fields[j].type = "data" /\ f.fields[j].fixed => r.template[j] # None
  BY Zenon DEF Carried
<1>4. /\ \A i \in 1..n : /\ els[i] = [j \in DOMAIN f.fields |-> els[i][j]]
                         /\ \A j \in DOMAIN f.fields : Holds(f.fields[j], els[i][j])
  BY <1>1 DEF HasElements
<1>5. \A j \in DOMAIN f.fields : IsScalar(f.fields[j])
  BY DEF IsField, IsScalar
<1> HIDE DEF els
<1>6. Len(els) = n /\ DOMAIN els = 1..n
  <2> DEFINE S == {els[i] : i \in 1..n}
  <2>1. els \in [1..n -> S]
    BY <1>2
  <2> HIDE DEF S
  <2>2. els \in Seq(S) /\ DOMAIN els = 1..n
    BY <1>1, <2>1
  <2>3. QED
    BY <1>1, <2>2
<1>7. n >= 1
  <2>1. n # 0
    <3>1. n = 0 => els = <<>>
      BY <1>2
    <3>2. QED
      BY <1>3, <3>1
  <2>2. QED
    BY <1>1, <2>1
<1>8. 1 \in 1..n
  BY <1>1, <1>7
<1>9. els = [i \in 1..n |-> el]
  BY <1>2, <1>3, <1>6
<1>10. el = [j \in DOMAIN f.fields |-> el[j]]
  BY <1>4, <1>8
<1>11. \A j \in DOMAIN f.fields : Arriving(f.fields[j], el[j], r.template[j])
  BY <1>3, <1>4, <1>5, <1>8 DEF Arriving
<1>12. Alike1(s, n, el)
  BY <1>1, <1>7, <1>9 DEF Alike1, els, n, HasElements
<1> HIDE DEF el
<1>13. QED
  BY <1>3, <1>6, <1>10, <1>11, <1>12

(* The digits of the prefix, and how they are read.                        *)
Counted(f, n, p) ==
    /\ p \in Digits /\ p = (IF f.fixed THEN <<>> ELSE encode_field_length(n))
    /\ \A rest \in Digits : DecodePrefix(f, f.size, p \o rest) = << <<n, Len(p)>> >>

(* The number of elements that the prefix says.                            *)
LEMMA PrefixCounts ==
  ASSUME NEW f, NEW n \in Nat, IF f.fixed THEN n = f.size ELSE n < 2^15
  PROVE  \E p : Counted(f, n, p)
<1>1. CASE f.fixed
  <2>1. Counted(f, n, <<>>)
    BY <1>1, NoDigits DEF Counted, DecodePrefix
  <2>2. QED
    BY <2>1
<1>2. CASE ~f.fixed
  <2> DEFINE p == encode_field_length(n)
  <2>1. n \in 0..2^15 - 1
    <3>1. 2^15 \in Int
      BY PowersAre
    <3>2. QED
      BY <1>2, <3>1
  <2>2. \A rest \in Digits : PrefixOf(n, p, rest)
    BY <2>1, ShortOrLong, PrefixTrip
  <2> HIDE DEF p
  <2>3. p \in Digits
    BY <2>2, NoDigits DEF PrefixOf
  <2>4. \A rest \in Digits : DecodePrefix(f, f.size, p \o rest) = << <<n, Len(p)>> >>
    BY <1>2, <2>2 DEF PrefixOf, DecodePrefix
  <2>5. Counted(f, n, p)
    BY <1>2, <2>3, <2>4 DEF Counted, p
  <2>6. QED
    BY <2>5
<1>3. QED
  BY <1>1, <1>2

(* What becomes of an array that decodes n elements el.                    *)
Copies(s, el, n) ==
    [template |-> el,
     elements |-> [i \in 1..Max({n, Len(s.elements)}) |-> IF i <= n THEN <<>> ELSE s.elements[i]]]

(* Copies of the last element are read as the elements were sent, if they  *)
(* were equal.                                                             *)
LEMMA CopiesRead ==
  ASSUME NEW n \in Nat, NEW s, Len(s.elements) \in Nat, Len(s.elements) <= n, NEW el
  PROVE  Elements(Copies(s, el, n)) = [i \in 1..n |-> el]
<1> DEFINE S == {n, Len(s.elements)}
           got == Copies(s, el, n)
<1>1. Max(S) = n
  <2>1. S \in SUBSET Nat /\ n \in S /\ \A y \in S : n >= y
    OBVIOUS
  <2> HIDE DEF S
  <2>2. QED
    BY <2>1, MaxIs
<1>2. got.elements = [i \in 1..Max(S) |-> IF i <= n THEN <<>> ELSE s.elements[i]] /\ got.template = el
  BY DEF Copies
<1> HIDE DEF S, got
<1>3. DOMAIN got.elements = 1..n /\ \A i \in 1..n : got.elements[i] = <<>>
  BY <1>1, <1>2
<1>4. Elements(got) = [i \in DOMAIN got.elements |->
                          IF got.elements[i] = <<>> THEN got.template ELSE got.elements[i][1]]
  BY DEF Elements
<1>5. QED
  BY <1>2, <1>3, <1>4 DEF got

(* An array that can be carried is.                                        *)
LEMMA ArrayTrip ==
  ASSUME NEW f, IsField(f), f.type = "array", NEW s, NEW r, HasElements(f, s), HasTemplate(f, r),
         Carried(f, s, r)
  PROVE  Trip(f, s, r)
<1> DEFINE w == Len(f.fields)
<1>1. PICK n, el : /\ Alike1(s, n, el) /\ Len(r.elements) <= n
                   /\ IF f.fixed THEN n = f.size ELSE n < 2^15
                   /\ el = [j \in DOMAIN f.fields |-> el[j]]
                   /\ \A j \in DOMAIN f.fields : Arriving(f.fields[j], el[j], r.template[j])
  BY ArrayCarried
<1>2. /\ n \in Nat /\ n >= 1 /\ Len(s.elements) = n /\ Elements(s) = [i \in 1..n |-> el]
      /\ IsList(s.elements) /\ Len(r.elements) \in Nat
  BY <1>1 DEF Alike1, HasTemplate, IsList
<1>3. w \in Nat /\ DOMAIN f.fields = 1..w /\ w >= 1
  <2>1. IsList(f.fields) /\ Len(f.fields) # 0
    BY DEF IsField, IsScalar
  <2>2. QED
    BY <2>1 DEF IsList
<1> DEFINE t == r.template
<1>4. t = [j \in 1..w |-> t[j]] /\ el = [j \in 1..w |-> el[j]] /\ DOMAIN el = 1..w
      /\ \A j \in 1..w : Arriving(f.fields[j], el[j], t[j])
  BY <1>1, <1>3 DEF HasTemplate
<1>p. PICK p : Counted(f, n, p)
  BY <1>1, <1>2, PrefixCounts
<1> HIDE DEF w, t
<1>5. PICK part, cat : ElementOf(f.fields, el, t, part, cat, w)
  BY <1>3, <1>4, ElementExists
<1>6. cat[w] \in Digits /\ cat[w] # <<>>
  <2>1. Joined(cat, part, w) /\ w \in 0..w /\ 1 \in 1..w /\ 1 - 1 = 0 /\ part[1] \in Digits /\ part[1] # <<>>
    <3>1. 1 \in 1..w /\ w \in 0..w /\ 1 - 1 = 0
      BY <1>3
    <3>2. Reaches(f.fields[1], part[1], t[1], el[1]) /\ Joined(cat, part, w)
      BY <1>5, <3>1, Zenon DEF ElementOf
    <3>3. QED
      BY <3>1, <3>2 DEF Reaches
  <2>2. cat[w] \in Digits /\ cat[0] = <<>>
    BY <2>1 DEF Joined, Together
  <2>3. FoundIn(cat[w] \o <<>>, cat, part, 1)
    BY <2>1, NoDigits, DigitsFound
  <2>4. PICK rest \in Digits : cat[w] \o <<>> = cat[0] \o (part[1] \o rest)
    BY <2>1, <2>3 DEF FoundIn
  <2>5. cat[w] = part[1] \o rest
    <3>1. part[1] \o rest \in Digits
      BY <2>1, DigitsPair
    <3>2. QED
      BY <2>2, <2>4, <3>1, DigitsOne
  <2>6. QED
    BY <2>1, <2>2, <2>5, FirstOf
<1> DEFINE E == cat[w]
           parts == [i \in 1..n |-> E]
<1>7. PICK all : Joined(all, parts, n)
  <2> HIDE DEF E
  <2>1. \A i \in 1..n : parts[i] \in Digits
    BY <1>6 DEF E
  <2> HIDE DEF parts
  <2>2. QED
    BY <1>2, <2>1, JoinedExists
<1>8. Repeated(all, E, n)
  BY <1>7 DEF Repeated
<1>9. all[n] \in Digits /\ all[n] # <<>>
  <2>1. Joined(all, parts, n) /\ n \in 0..n /\ 1 \in 1..n /\ 1 - 1 = 0 /\ parts[1] \in Digits /\ parts[1] # <<>>
    BY <1>2, <1>6, <1>7
  <2> HIDE DEF parts
  <2>2. all[n] \in Digits /\ all[0] = <<>>
    BY <2>1 DEF Joined, Together
  <2>3. FoundIn(all[n] \o <<>>, all, parts, 1)
    BY <2>1, NoDigits, DigitsFound
  <2>4. PICK rest \in Digits : all[n] \o <<>> = all[0] \o (parts[1] \o rest)
    BY <2>1, <2>3 DEF FoundIn
  <2>5. all[n] = parts[1] \o rest
    <3>1. parts[1] \o rest \in Digits
      BY <2>1, DigitsPair
    <3>2. QED
      BY <2>2, <2>4, <3>1, DigitsOne
  <2>6. QED
    BY <2>1, <2>2, <2>5, FirstOf
<1> HIDE DEF parts
<1>10. p \in Digits /\ p = (IF f.fixed THEN <<>> ELSE encode_field_length(n))
       /\ \A rest \in Digits : DecodePrefix(f, f.size, p \o rest) = << <<n, Len(p)>> >>
  BY <1>p DEF Counted
<1> DEFINE bits == p \o all[n]
           got == Copies(r, el, n)
<1>11. EncodeField(f, s) = <<bits>>
  <2>1. Encodes(f, s, n, all)
    BY <1>1, <1>4, <1>5, <1>8, ArrayEncoded, Zenon
  <2>2. QED
    BY <1>10, <2>1, Zenon DEF EncodeField, Encodes
<1>12. bits \in Digits /\ Len(bits) = Len(p) + Len(all[n]) /\ bits # <<>>
  <2>1. bits \in Digits /\ Len(bits) = Len(p) + Len(all[n])
    BY <1>9, <1>10, DigitsPair
  <2>2. Len(p) \in Nat /\ Len(all[n]) >= 1 /\ Len(all[n]) \in Nat
    BY <1>9, <1>10, DigitsOne
  <2> HIDE DEF bits
  <2>3. bits # <<>>
    BY <2>1, <2>2, NoDigits
  <2>4. QED
    BY <2>1, <2>3
<1> HIDE DEF got
<1>13. ASSUME NEW rest \in Digits
       PROVE  DecodeField(f, r, bits \o rest) = <<[v |-> got, used |-> Len(bits)]>>
  <2> DEFINE more == all[n] \o rest
             b == bits \o rest
             q == <<n, Len(p)>>
  <2>1. more \in Digits /\ b = p \o more
    <3>1. more \in Digits
      BY <1>9, DigitsPair
    <3>2. (p \o all[n]) \o rest = p \o (all[n] \o rest)
      BY <1>9, <1>10, DigitsTriple
    <3>3. QED
      BY <3>1, <3>2
  <2>2. DecodePrefix(f, f.size, p \o more) = <<q>>
    BY <1>10, <2>1, Zenon
  <2>3. DecodeArray(f, r, b) = ArrayFrom(f, r, b, q)
    <3> HIDE DEF b, more, q
    <3>1. DecodePrefix(f, f.size, b) = <<q>>
      BY <2>1, <2>2
    <3>2. QED
      BY <3>1, ArrayDecoded
  <2>4. Laid(b, f.fields, w, n, p, all, cat, part, el, t)
    BY <1>2, <1>5, <1>8, <1>10, <2>1 DEF Laid
  <2> HIDE DEF b
  <2> DEFINE run == [off |-> Len(p) + Len(all[n]), states |-> el]
  <2>5. RunOf(f.fields, w, <<[off |-> Len(p), states |-> t]>>, n * w, b) = <<run>>
    <3>1. RunEnds(b, f.fields, w, n, p, all, el, t)
      BY <1>2, <1>4, <2>4, ArrayRun, Zenon
    <3>2. QED
      BY <3>1 DEF RunEnds
  <2>6. q[1] = n /\ q[2] = Len(p)
    OBVIOUS
  <2> HIDE DEF q
  <2>7. ArrayFrom(f, r, b, q) = Then(RunOf(f.fields, w, <<[off |-> q[2], states |-> t]>>, q[1] * w, b),
                                     LAMBDA x : ArrayResult(r, q[1], x))
    BY Zenon DEF ArrayFrom, w, t
  <2>8. RunOf(f.fields, w, <<[off |-> q[2], states |-> t]>>, q[1] * w, b) = <<run>>
    BY <2>5, <2>6
  <2>9. run.off = Len(bits) /\ run.states = el
    BY <1>12
  <2> HIDE DEF run
  <2>10. ArrayFrom(f, r, b, q) = ArrayResult(r, q[1], run)
    BY <2>7, <2>8, IsResult, Zenon DEF Then
  <2>11. ArrayResult(r, n, run) = <<[v |-> Copies(r, run.states, n), used |-> run.off]>>
    BY Zenon DEF ArrayResult, Copies
  <2>12. ArrayResult(r, n, run) = <<[v |-> got, used |-> Len(bits)]>>
    BY <2>9, <2>11 DEF got
  <2>13. DecodeField(f, r, b) = DecodeArray(f, r, b)
    BY Zenon DEF DecodeField
  <2>14. QED
    BY <2>3, <2>6, <2>10, <2>12, <2>13 DEF b
<1> HIDE DEF bits
<1>14. Reaches(f, bits, r, got)
  BY <1>12, <1>13, Zenon DEF Reaches
<1>15. Value(f, got) = Value(f, s)
  <2>1. Elements(got) = [i \in 1..n |-> el]
    <3>1. Len(r.elements) <= n
      BY <1>1
    <3>2. QED
      BY <1>2, <3>1, CopiesRead DEF got
  <2>2. QED
    BY <1>2, <2>1 DEF Value
<1>16. QED
  BY <1>11, <1>14, <1>15, Zenon DEF Trip

-----------------------------------------------------------------------------
(***************************************************************************)
(* Every field; and what decoding yields, whatever the digits.             *)
(***************************************************************************)

(* What a field of any type may hold, and what it may be decoded into.     *)
FieldHolds(f, s) == IF f.type = "array" THEN HasElements(f, s) ELSE Holds(f, s)
FieldReads(f, r) == f.type = "array" => HasTemplate(f, r)

(* A field of any type arrives: its value, if the code can carry it, is    *)
(* encoded and decoded again, whatever digits follow and whatever the      *)
(* receiver's field held before.                                           *)
THEOREM FieldTrip ==
  ASSUME NEW f, IsField(f), NEW s, FieldHolds(f, s), NEW r, FieldReads(f, r), Carried(f, s, r)
  PROVE  Trip(f, s, r)
<1>1. CASE f.type = "array"
  BY <1>1, ArrayTrip DEF FieldHolds, FieldReads
<1>2. CASE f.type # "array"
  <2>1. IsScalar(f) /\ Holds(f, s)
    BY <1>2 DEF IsField, FieldHolds
  <2>2. Present(f, s) /\ (s # None => Fits(f, s[1])) /\ (f.type = "data" /\ f.fixed => r # None)
    BY <1>2, Zenon DEF Carried
  <2>3. PICK bits, got : /\ GetsTo(f, s, r, bits, got) /\ got # None
                         /\ Value(f, got) = Value(f, s) /\ (s # None => got = s)
    BY <2>1, <2>2, ScalarTrip
  <2>4. QED
    BY <2>3, Zenon DEF Trip, GetsTo
<1>3. QED
  BY <1>1, <1>2

-----------------------------------------------------------------------------
(* Any digits from a place on, and up to one.                              *)
LEMMA AfterDigits ==
  ASSUME NEW b \in Digits, NEW n \in Nat
  PROVE  After(b, n) \in Digits
<1>1. b \in Seq({0, 1}) /\ Len(b) \in Nat /\ n + 1 \in Int
  BY DEF Digits
<1>2. \A i \in (n + 1)..Len(b) : b[i] \in {0, 1}
  BY <1>1
<1>3. SubSeq(b, n + 1, Len(b)) \in Seq({0, 1})
  BY <1>1, <1>2, SubSeqProperties
<1>4. QED
  BY <1>3 DEF After, Digits

LEMMA SliceSeq ==
  ASSUME NEW D, NEW b \in Seq(D), NEW n \in Nat
  PROVE  Slice(b, n) \in Seq(D)
<1>1. Len(b) \in Nat
  OBVIOUS
<1>2. Min({n, Len(b)}) \in 0..Len(b)
  <2> DEFINE l == Len(b)
  <2>1. l \in Nat
    BY <1>1
  <2> HIDE DEF l
  <2>2. CASE n <= l
    <3>1. Min({n, l}) = n
      BY <2>1, <2>2 DEF Min
    <3>2. QED
      BY <2>1, <2>2, <3>1 DEF l
  <2>3. CASE ~(n <= l)
    <3>1. Min({n, l}) = l
      BY <2>1, <2>3 DEF Min
    <3>2. QED
      BY <2>1, <3>1 DEF l
  <2>4. QED
    BY <2>2, <2>3
<1> DEFINE m == Min({n, Len(b)})
<1>3. m \in 0..Len(b)
  BY <1>2
<1> HIDE DEF m
<1>4. \A i \in 1..m : b[i] \in D
  BY <1>1, <1>3
<1>5. SubSeq(b, 1, m) \in Seq(D)
  BY <1>1, <1>3, <1>4, SubSeqProperties
<1>6. QED
  BY <1>5 DEF Slice, m

LEMMA SliceDigits ==
  ASSUME NEW b \in Digits, NEW n \in Nat
  PROVE  Slice(b, n) \in Digits
BY SliceSeq DEF Digits

LEMMA NumberNat ==
  ASSUME NEW b \in Digits
  PROVE  Number(b) \in Nat
<1>1. Len(b) \in Nat /\ DOMAIN b = 1..Len(b) /\ \A i \in 1..Len(b) : b[i] \in {0, 1}
  BY DEF Digits
<1> DEFINE n == Len(b)
<1>2. n \in Nat /\ DOMAIN b = 1..n /\ \A i \in 1..n : b[i] \in {0, 1}
  BY <1>1
<1> HIDE DEF n
<1>3. PICK f \in [0..n -> Nat] : /\ f[0] = 0 /\ \A i \in 1..n : f[i] = 2 * f[i - 1] + b[i]
                                 /\ Number(b) = f[n]
  BY <1>2, NumberUnfolds
<1>4. QED
  BY <1>2, <1>3

LEMMA TailDigits ==
  ASSUME NEW b \in Digits, b # <<>>
  PROVE  Tail(b) \in Digits
BY DEF Digits

(* What the prefix of a length is read as.                                 *)
LEMMA PrefixYields ==
  ASSUME NEW f, NEW units \in Nat, NEW b \in Digits
  PROVE  DecodePrefix(f, units, b) = Raises \/ \E n, u \in Nat : DecodePrefix(f, units, b) = << <<n, u>> >>
<1>1. CASE f.fixed
  BY <1>1 DEF DecodePrefix
<1>2. CASE ~f.fixed /\ b # <<>> /\ Len(b) # 1
  <2>1. ASSUME NEW w \in {8, 16} PROVE Number(Tail(Slice(b, w))) \in Nat
    <3> DEFINE s == Slice(b, w)
    <3>1. w \in Nat /\ s \in Digits
      BY SliceDigits
    <3>2. s # <<>>
      <4>1. Len(b) \in Nat /\ b \in Seq({0, 1}) /\ Len(b) >= 1
        BY <1>2 DEF Digits
      <4>2. Min({w, Len(b)}) \in 1..Len(b)
        <5> DEFINE l == Len(b)
        <5>1. l \in Nat /\ l >= 1 /\ w \in Nat /\ w >= 1
          BY <4>1
        <5> HIDE DEF l
        <5>2. Min({w, l}) \in {w, l} /\ Min({w, l}) <= l
          <6>1. w <= l => Min({w, l}) = w
            BY <5>1 DEF Min
          <6>2. ~(w <= l) => Min({w, l}) = l
            BY <5>1 DEF Min
          <6>3. QED
            BY <5>1, <6>1, <6>2
        <5>3. QED
          BY <5>1, <5>2 DEF l
      <4> DEFINE m == Min({w, Len(b)})
      <4>3. m \in 1..Len(b)
        BY <4>2
      <4> HIDE DEF m
      <4>4. \A i \in 1..m : b[i] \in {0, 1}
        BY <4>1, <4>3
      <4>5. Len(SubSeq(b, 1, m)) = m
        BY <4>1, <4>3, <4>4, SubSeqProperties
      <4>6. SubSeq(b, 1, m) # <<>>
        BY <4>3, <4>5
      <4>7. QED
        BY <4>6 DEF Slice, m
    <3> HIDE DEF s
    <3>3. Tail(s) \in Digits
      BY <3>1, <3>2, TailDigits
    <3>4. QED
      BY <3>3, NumberNat DEF s
  <2>2. DecodePrefix(f, units, b) = decode_field_length(b)
    BY <1>2 DEF DecodePrefix
  <2>3. \/ decode_field_length(b) = << <<Number(Tail(Slice(b, 8))), 8>> >>
        \/ decode_field_length(b) = << <<Number(Tail(Slice(b, 16))), 16>> >>
    BY <1>2, LengthDecoded
  <2>4. QED
    BY <2>1, <2>2, <2>3
<1>3. CASE ~f.fixed /\ (b = <<>> \/ Len(b) = 1)
  BY <1>3 DEF DecodePrefix, decode_field_length
<1>4. QED
  BY <1>1, <1>2, <1>3

(* What decode() of a field yields: an exception, or a value and a number  *)
(* of bits.                                                                *)
Yields(result) == result = Raises \/ \E v, u : u \in Nat /\ result = <<[v |-> v, used |-> u]>>

LEMMA DecodedYields == \A value : \A used \in Nat : Yields(Decoded(value, used))
BY DEF Yields, Decoded

(* A text yields a value, or an exception.                                 *)
LEMMA StringYields ==
  ASSUME NEW f, f.size \in Nat, NEW b \in Digits
  PROVE  Yields(DecodeString(f, b))
<1> DEFINE Body(body, used) == IF body = <<>> \/ ToText(body) = Raises THEN Raises
                               ELSE Decoded(Clipped(f, ToText(body)[1]), used)
           res == DecodePrefix(f, f.size, b)
           p == res[1]
           out == Body(Slice(After(b, p[2]), 8 * p[1]), p[2] + 8 * p[1])
<1>1. DecodeString(f, b) = IF res = Raises THEN Raises ELSE out
  BY Zenon DEF DecodeString, Then
<1>2. CASE res = Raises
  BY <1>1, <1>2 DEF Yields
<1>3. CASE res # Raises
  <2>1. PICK n, u \in Nat : res = << <<n, u>> >>
    BY <1>3, PrefixYields
  <2>2. p[2] + 8 * p[1] \in Nat
    BY <2>1
  <2>3. Yields(out)
    <3> DEFINE used == p[2] + 8 * p[1]
               body == Slice(After(b, p[2]), 8 * p[1])
    <3>1. used \in Nat
      BY <2>2
    <3> HIDE DEF used, body
    <3>2. ASSUME NEW text PROVE Yields(Decoded(text, used)) /\ Yields(Raises)
      BY <3>1, DecodedYields DEF Yields
    <3>3. Yields(Decoded(Clipped(f, ToText(body)[1]), used)) /\ Yields(Raises)
      BY <3>2, Zenon
    <3>4. Yields(Body(body, used))
      BY <3>3
    <3>5. QED
      BY <3>4 DEF used, body
  <2>4. QED
    BY <1>1, <1>3, <2>3
<1>4. QED
  BY <1>2, <1>3

LEMMA EightTimes ==
  ASSUME NEW n \in Nat, NEW bytes, DOMAIN bytes = 1..n, Len(bytes) = n, NEW f, f.size \in Nat
  PROVE  TextBits(f, <<bytes>>) \in Nat
<1>1. <<bytes>> # None /\ <<bytes>>[1] = bytes
  BY DEF None
<1>2. OptionalBit(f) \in Nat
  BY DEF OptionalBit
<1>3. TextBits(f, <<bytes>>) = OptionalBit(f) + (IF f.fixed THEN 8 * f.size
                                                ELSE (IF n < 127 THEN 8 ELSE 16) + 8 * n)
  BY <1>1 DEF TextBits
<1>4. QED
  BY <1>2, <1>3

LEMMA BytesYield ==
  ASSUME NEW body, NEW n \in Nat, ToBytes(body, n) # Raises
  PROVE  LET bytes == ToBytes(body, n)[1] IN DOMAIN bytes = 1..n /\ Len(bytes) = n
<1> DEFINE c == After(Zeros(8 * n) \o body, Len(Zeros(8 * n) \o body) - 8 * n)
           bytes == [i \in 1..n |-> Number(SubSeq(c, 8 * i - 7, 8 * i))]
<1>1. ToBytes(body, n) = Raises \/ ToBytes(body, n) = <<bytes>>
  BY Zenon DEF ToBytes
<1>2. ToBytes(body, n)[1] = bytes
  BY <1>1, IsResult, Zenon
<1>3. DOMAIN bytes = 1..n /\ Len(bytes) = n
  <2> DEFINE g(i) == Number(SubSeq(c, 8 * i - 7, 8 * i))
  <2>1. bytes = [i \in 1..n |-> g(i)]
    OBVIOUS
  <2> HIDE DEF g, bytes
  <2>2. QED
    BY <2>1
<1>4. QED
  BY <1>2, <1>3

(* Data yield a value, or an exception.                                    *)
LEMMA DataYields ==
  ASSUME NEW f, f.size \in Nat, NEW v, NEW b \in Digits
  PROVE  Yields(DecodeData(f, v, b))
<1> DEFINE Count(body) == (IF f.fixed THEN TextBits(f, v) ELSE Len(body)) \div 8
           BytesOf(body) == ToBytes(body, Count(body))
           res == DecodePrefix(f, 0, b)
           p == res[1]
           body == Slice(After(b, p[2]), IF f.fixed THEN TextBits(f, v) ELSE 8 * p[1])
           got == BytesOf(body)
           out == IF got = Raises THEN Raises ELSE Decoded(got[1], TextBits(f, <<got[1]>>))
<1>1. DecodeData(f, v, b) = IF res = Raises THEN Raises ELSE out
  BY Zenon DEF DecodeData, Then
<1>2. CASE res = Raises
  BY <1>1, <1>2 DEF Yields
<1>3. CASE res # Raises
  <2>0. 0 \in Nat
    OBVIOUS
  <2>1. PICK n, u \in Nat : res = << <<n, u>> >>
    BY <1>3, <2>0, PrefixYields
  <2>2. p[2] \in Nat /\ p[1] \in Nat /\ 8 * p[1] \in Nat
    BY <2>1
  <2>3. TextBits(f, v) \in Nat \/ ~f.fixed
    <3>1. OptionalBit(f) \in Nat
      BY DEF OptionalBit
    <3>2. f.fixed => TextBits(f, v) = OptionalBit(f) + (IF v = None THEN 0 ELSE 8 * f.size)
      BY DEF TextBits
    <3>3. QED
      BY <3>1, <3>2
  <2>4. body \in Digits
    BY <2>2, <2>3, AfterDigits, SliceDigits
  <2> HIDE DEF res, p, body
  <2>5. Len(body) \in Nat
    BY <2>4 DEF Digits
  <2>6. Count(body) \in Nat
    BY <2>3, <2>5
  <2>7. CASE got = Raises
    BY <1>1, <1>3, <2>7 DEF Yields
  <2>8. CASE got # Raises
    <3> DEFINE m == Count(body)
    <3>1. m \in Nat /\ got = ToBytes(body, m)
      BY <2>6
    <3> HIDE DEF m, got
    <3>2. DOMAIN got[1] = 1..m /\ Len(got[1]) = m
      BY <2>8, <3>1, BytesYield
    <3>3. TextBits(f, <<got[1]>>) \in Nat
      BY <3>1, <3>2, EightTimes
    <3>4. Yields(Decoded(got[1], TextBits(f, <<got[1]>>)))
      BY <3>3, DecodedYields
    <3>5. QED
      BY <1>1, <1>3, <2>8, <3>4
  <2>9. QED
    BY <2>7, <2>8
<1>4. QED
  BY <1>2, <1>3

LEMMA SizeNat ==
  ASSUME NEW f, IsScalar(f), f.type # "bool"
  PROVE  f.size \in Nat
<1>1. f.size \in 1..31 \/ f.size \in Nat
  BY Zenon DEF IsScalar
<1>2. QED
  BY <1>1

(* A scalar field yields a value, or an exception.                         *)
LEMMA ScalarYields ==
  ASSUME NEW f, IsScalar(f), NEW v, NEW b \in Digits
  PROVE  Yields(DecodeScalar(f, v, b))
<1>1. \/ f.type = "bool"
      \/ f.type \in {"uint", "int"} /\ f.size \in 1..31
      \/ f.type = "enum" /\ f.size \in 1..31
      \/ f.type \in {"string", "data"} /\ f.size \in Nat
  BY Zenon DEF IsScalar
<1>2. CASE b = <<>>
  BY <1>2, Zenon DEF DecodeScalar, Yields
<1>3. CASE b # <<>> /\ f.type = "bool"
  <2>1. DecodeScalar(f, v, b) = Decoded(b[1], 1)
    BY <1>3, Zenon DEF DecodeScalar, DecodeBool
  <2>2. QED
    BY <2>1, DecodedYields
<1>4. CASE b # <<>> /\ f.type = "uint"
  <2>1. DecodeScalar(f, v, b) = Decoded(Number(Slice(b, f.size)), f.size)
    BY <1>4, Zenon DEF DecodeScalar, DecodeUnsigned
  <2>2. f.size \in Nat
    BY <1>4, SizeNat
  <2>3. QED
    BY <2>1, <2>2, DecodedYields
<1>5. CASE b # <<>> /\ f.type = "int"
  <2>1. \E x : DecodeScalar(f, v, b) = Decoded(x, f.size)
    BY <1>5, Zenon DEF DecodeScalar, DecodeSigned
  <2>2. f.size \in Nat
    BY <1>5, SizeNat
  <2>3. QED
    BY <2>1, <2>2, DecodedYields
<1>6. CASE b # <<>> /\ f.type = "enum"
  <2>1. DecodeScalar(f, v, b) = Raises \/ \E x : DecodeScalar(f, v, b) = Decoded(x, f.size)
    BY <1>6, Zenon DEF DecodeScalar, DecodeEnum
  <2>2. f.size \in Nat
    BY <1>6, SizeNat
  <2>3. QED
    BY <2>1, <2>2, DecodedYields DEF Yields
<1>7. CASE b # <<>> /\ f.type = "string"
  <2>1. DecodeScalar(f, v, b) = DecodeString(f, b)
    BY <1>7, Zenon DEF DecodeScalar
  <2>2. QED
    BY <1>1, <1>7, <2>1, StringYields
<1>8. CASE b # <<>> /\ f.type = "data"
  <2>1. DecodeScalar(f, v, b) = DecodeData(f, v, b)
    BY <1>8, Zenon DEF DecodeScalar
  <2>2. QED
    BY <1>1, <1>8, <2>1, DataYields
<1>9. QED
  BY <1>1, <1>2, <1>3, <1>4, <1>5, <1>6, <1>7, <1>8

(* A run over the elements of an array that goes on, or is over.           *)
RunsOn(acc, D) ==
    acc = Raises \/ \E off, states : /\ off \in Nat /\ states = [j \in D |-> states[j]]
                                     /\ acc = <<[off |-> off, states |-> states]>>

LEMMA RunMoved ==
  ASSUME NEW r, NEW off, NEW states, r = [off |-> off, states |-> states], NEW x,
         NEW new, new = [r EXCEPT !.off = x]
  PROVE  new = [off |-> x, states |-> states]
BY SMT

(* A field of an element lets the run go on, or ends it.                   *)
LEMMA NextRuns ==
  ASSUME NEW fields, NEW D, NEW j, IsScalar(fields[j]), NEW b \in Digits,
         NEW off \in Nat, NEW states, states = [x \in D |-> states[x]]
  PROVE  RunsOn(DecodeNext(fields, [off |-> off, states |-> states], j, b), D)
<1> DEFINE run == [off |-> off, states |-> states]
           f == fields[j]
           start == run.off + OptionalBit(f)
           res == DecodeScalar(f, run.states[j], After(b, start))
           out == [off |-> start + res[1].used, states |-> [run.states EXCEPT ![j] = res[1].v]]
<1>1. run.off = off /\ run.states = states /\ start \in Nat
  <2>1. OptionalBit(f) \in Nat
    BY DEF OptionalBit
  <2>2. QED
    BY <2>1
<1>2. \/ DecodeNext(fields, run, j, b) = Raises
      \/ DecodeNext(fields, run, j, b) = <<[run EXCEPT !.off = start]>>
      \/ res # Raises /\ DecodeNext(fields, run, j, b) = <<out>>
  BY Zenon DEF DecodeNext, Then
<1>3. [run EXCEPT !.off = start] = [off |-> start, states |-> states]
  <2> DEFINE x == start
  <2> HIDE DEF x
  <2>1. [run EXCEPT !.off = x] = [off |-> x, states |-> states]
    <3> DEFINE new == [run EXCEPT !.off = x]
    <3>1. run = [off |-> off, states |-> states] /\ new = [run EXCEPT !.off = x]
      OBVIOUS
    <3> HIDE DEF run, new
    <3>2. new = [off |-> x, states |-> states]
      BY <3>1, RunMoved
    <3>3. QED
      BY <3>2 DEF new
  <2>2. QED
    BY <2>1 DEF x
<1>4. RunsOn(<<[run EXCEPT !.off = start]>>, D)
  <2> HIDE DEF start, run
  <2>1. QED
    BY <1>1, <1>3, Zenon DEF RunsOn
<1>5. ASSUME res # Raises PROVE RunsOn(<<out>>, D)
  <2>1. After(b, start) \in Digits
    <3> HIDE DEF start
    <3>1. QED
      BY <1>1, AfterDigits
  <2>2. Yields(res)
    <3> DEFINE v == run.states[j]
               c == After(b, start)
    <3>1. c \in Digits
      BY <2>1
    <3> HIDE DEF v, c
    <3>2. Yields(DecodeScalar(f, v, c))
      BY <3>1, ScalarYields
    <3>3. QED
      BY <3>2 DEF v, c
  <2> HIDE DEF res, start
  <2>3. PICK v, u : u \in Nat /\ res = <<[v |-> v, used |-> u]>>
    BY <1>5, <2>2, Zenon DEF Yields
  <2>4. res[1].used = u /\ res[1].v = v
    BY <2>3
  <2> DEFINE new == [states EXCEPT ![j] = v]
  <2>5. new = [x \in D |-> new[x]]
    OBVIOUS
  <2>6. start + u \in Nat
    BY <1>1, <2>3
  <2>7. out = [off |-> start + u, states |-> new]
    BY <1>1, <2>4
  <2> HIDE DEF new, out
  <2>8. QED
    BY <2>5, <2>6, <2>7, Zenon DEF RunsOn
<1>6. RunsOn(Raises, D)
  BY DEF RunsOn
<1> HIDE DEF run, out, res
<1>7. RunsOn(DecodeNext(fields, run, j, b), D)
  BY <1>2, <1>4, <1>5, <1>6, Zenon
<1>8. QED
  BY <1>7 DEF run

(* The run over the elements of an array.                                  *)
LEMMA RunRuns ==
  ASSUME NEW fields, NEW w \in Nat, w >= 1, NEW D, \A j \in 1..w : IsScalar(fields[j]),
         NEW b \in Digits, NEW base, RunsOn(base, D), NEW n \in Nat
  PROVE  RunsOn(RunOf(fields, w, base, n, b), D)
<1>1. PICK g : Running(g, n, fields, w, base, b)
  BY RunUnfolds
<1>2. /\ g[0] = base /\ RunOf(fields, w, base, n, b) = g[n]
      /\ \A i \in 1..n : g[i] = RunStep(fields, w, b, g[i - 1], i - 1)
  BY <1>1 DEF Running
<1> DEFINE S == {k \in 0..n : RunsOn(g[k], D)}
<1>3. 0 \in S
  BY <1>2
<1>4. ASSUME NEW k \in 0..(n - 1), k \in S PROVE k + 1 \in S
  <2> DEFINE j == (k % w) + 1
             a == g[k]
  <2>1. k + 1 \in 1..n /\ (k + 1) - 1 = k /\ k + 1 \in 0..n
    OBVIOUS
  <2>2. j \in 1..w
    <3>1. k \in Nat
      OBVIOUS
    <3>2. k % w \in 0..(w - 1)
      BY <3>1, PositionGoesOn
    <3>3. QED
      BY <3>2
  <2>3. g[k + 1] = RunStep(fields, w, b, a, k)
    BY <1>2, <2>1
  <2>4. RunsOn(a, D)
    BY <1>4
  <2>5. IsScalar(fields[j])
    BY <2>2
  <2>6. RunStep(fields, w, b, a, k) = IF a = Raises THEN Raises ELSE DecodeNext(fields, a[1], j, b)
    BY Zenon DEF RunStep, Then
  <2> HIDE DEF a, j
  <2>7. CASE a = Raises
    <3>1. RunsOn(g[k + 1], D)
      BY <2>3, <2>6, <2>7 DEF RunsOn
    <3>2. QED
      BY <2>1, <3>1
  <2>8. CASE a # Raises
    <3>1. PICK off, states : /\ off \in Nat /\ states = [x \in D |-> states[x]]
                             /\ a = <<[off |-> off, states |-> states]>>
      BY <2>4, <2>8 DEF RunsOn
    <3>2. a[1] = [off |-> off, states |-> states]
      BY <3>1, IsResult, Zenon
    <3>3. RunsOn(DecodeNext(fields, [off |-> off, states |-> states], j, b), D)
      BY <2>5, <3>1, NextRuns
    <3>4. RunsOn(g[k + 1], D)
      BY <2>3, <2>6, <2>8, <3>2, <3>3, Zenon
    <3>5. QED
      BY <2>1, <3>4
  <2>9. QED
    BY <2>7, <2>8
<1>5. n \in S
  <2> HIDE DEF S
  <2>1. 0..n \subseteq S
    BY <1>3, <1>4, UpToInduction
  <2>2. QED
    BY <2>1
<1>6. QED
  BY <1>2, <1>5

(* What decode() of an array yields is an array again.                     *)
ReadArray(f, result) ==
    result = Raises \/ \E v, u : u \in Nat /\ HasTemplate(f, v) /\ result = <<[v |-> v, used |-> u]>>

(* An array stays one.                                                     *)
LEMMA ArrayYields ==
  ASSUME NEW f, IsField(f), f.type = "array", NEW s, HasTemplate(f, s), NEW b \in Digits
  PROVE  ReadArray(f, DecodeArray(f, s, b))
<1>1. /\ f.size \in Nat /\ IsList(f.fields) /\ Len(f.fields) # 0
      /\ \A j \in DOMAIN f.fields : IsScalar(f.fields[j])
  BY DEF IsField, IsScalar
<1> DEFINE w == Len(f.fields)
           D == DOMAIN f.fields
           res == DecodePrefix(f, f.size, b)
<1>2. w \in Nat /\ w >= 1 /\ D = 1..w /\ \A j \in 1..w : IsScalar(f.fields[j])
  BY <1>1 DEF IsList
<1>3. CASE res = Raises
  <2>1. DecodeArray(f, s, b) = Raises
    BY <1>3, Zenon DEF DecodeArray, Then
  <2>2. QED
    BY <2>1 DEF ReadArray
<1>4. CASE res # Raises
  <2>1. PICK n, u \in Nat : res = << <<n, u>> >>
    BY <1>1, <1>4, PrefixYields
  <2> DEFINE p == <<n, u>>
             t == s.template
             base == <<[off |-> p[2], states |-> t]>>
             end == RunOf(f.fields, w, base, p[1] * w, b)
             out == ArrayResult(s, p[1], end[1])
  <2>2. DecodeArray(f, s, b) = ArrayFrom(f, s, b, p)
    BY <2>1, ArrayDecoded
  <2>3. ArrayFrom(f, s, b, p) = IF end = Raises THEN Raises ELSE out
    BY Zenon DEF ArrayFrom, Then
  <2>4. p[1] = n /\ p[2] = u
    OBVIOUS
  <2>5. RunsOn(base, D)
    <3>1. t = [j \in D |-> t[j]] /\ p[2] \in Nat
      BY <2>4 DEF HasTemplate
    <3> HIDE DEF p, t, D
    <3>2. QED
      BY <3>1, Zenon DEF RunsOn
  <2>6. RunsOn(end, D)
    <3> DEFINE m == p[1] * w
    <3>1. m \in Nat
      <4> HIDE DEF w
      <4>1. QED
        BY <1>2, <2>4
    <3> HIDE DEF m, base, D, w
    <3>2. RunsOn(RunOf(f.fields, w, base, m, b), D)
      BY <1>2, <2>5, <3>1, RunRuns
    <3>3. QED
      BY <3>2 DEF m
  <2> HIDE DEF end, D
  <2>7. CASE end = Raises
    BY <2>2, <2>3, <2>7 DEF ReadArray
  <2>8. CASE end # Raises
    <3>1. PICK off, states : /\ off \in Nat /\ states = [j \in D |-> states[j]]
                             /\ end = <<[off |-> off, states |-> states]>>
      BY <2>6, <2>8 DEF RunsOn
    <3>2. end[1] = [off |-> off, states |-> states]
      BY <3>1, IsResult, Zenon
    <3> DEFINE m == Max({p[1], Len(s.elements)})
               e(i) == IF i <= p[1] THEN <<>> ELSE s.elements[i]
               v == [template |-> states, elements |-> [i \in 1..m |-> e(i)]]
    <3>3. m \in Nat
      <4> DEFINE l == Len(s.elements)
      <4>1. l \in Nat
        BY DEF HasTemplate, IsList
      <4> HIDE DEF l, p
      <4>2. {p[1], l} \in SUBSET Nat
        BY <2>4, <4>1
      <4>3. Max({p[1], l}) \in Nat
        <5>1. CASE p[1] >= l
          <6>1. Max({p[1], l}) = p[1]
            BY <2>4, <4>1, <4>2, <5>1, MaxIs
          <6>2. QED
            BY <2>4, <6>1
        <5>2. CASE ~(p[1] >= l)
          <6>1. Max({p[1], l}) = l
            BY <2>4, <4>1, <4>2, <5>2, MaxIs
          <6>2. QED
            BY <4>1, <6>1
        <5>3. QED
          BY <5>1, <5>2
      <4>4. QED
        BY <4>3 DEF l
    <3>4. out = <<[v |-> v, used |-> off]>>
      <4>1. end[1].template = end[1].template /\ end[1].states = states /\ end[1].off = off
        BY <3>2
      <4> HIDE DEF m
      <4>2. QED
        BY <4>1, Zenon DEF ArrayResult, m
    <3>5. IsList(v.elements) /\ v.template = states
      <4> HIDE DEF m, e
      <4>1. v.elements = [i \in 1..m |-> e(i)] /\ v.template = states
        OBVIOUS
      <4> DEFINE q == [i \in 1..m |-> e(i)]
      <4>2. Len(q) = m /\ DOMAIN q = 1..m
        BY <3>3
      <4> HIDE DEF v, q
      <4>3. IsList(q)
        BY <3>3, <4>2 DEF IsList
      <4>4. QED
        BY <4>1, <4>3 DEF q
    <3> HIDE DEF v, out
    <3>6. HasTemplate(f, v)
      BY <3>1, <3>5 DEF HasTemplate, D
    <3>7. QED
      BY <2>2, <2>3, <2>8, <3>1, <3>4, <3>6, Zenon DEF ReadArray
  <2>9. QED
    BY <2>7, <2>8
<1>5. QED
  BY <1>3, <1>4

(* A message object has a state for every field, an array's for an array.  *)
IsSchema(schema) == IsList(schema) /\ \A i \in DOMAIN schema : IsField(schema[i])
Shaped(schema, msg) ==
    msg = [i \in DOMAIN schema |-> msg[i]] /\ \A i \in DOMAIN schema : FieldReads(schema[i], msg[i])

ReadField(f, result) ==
    result = Raises \/ \E v, u : u \in Nat /\ FieldReads(f, v) /\ result = <<[v |-> v, used |-> u]>>

LEMMA FieldYields ==
  ASSUME NEW f, IsField(f), NEW s, FieldReads(f, s), NEW b \in Digits
  PROVE  ReadField(f, DecodeField(f, s, b))
<1>1. CASE f.type = "array"
  <2>1. ReadArray(f, DecodeArray(f, s, b))
    BY <1>1, ArrayYields DEF FieldReads
  <2>2. DecodeField(f, s, b) = DecodeArray(f, s, b)
    BY <1>1 DEF DecodeField
  <2>3. QED
    BY <2>1, <2>2, Zenon DEF ReadArray, ReadField, FieldReads
<1>2. CASE f.type # "array"
  <2>1. IsScalar(f)
    BY <1>2 DEF IsField
  <2>2. Yields(DecodeScalar(f, s, b))
    BY <2>1, ScalarYields
  <2>3. DecodeField(f, s, b) = DecodeScalar(f, s, b)
    BY <1>2 DEF DecodeField
  <2>4. QED
    BY <1>2, <2>2, <2>3, Zenon DEF Yields, ReadField, FieldReads
<1>3. QED
  BY <1>1, <1>2

(* The message object while decode() is under way.                         *)
Underway(schema, acc) ==
    \E ok, off, msg : /\ off \in Nat /\ Shaped(schema, msg) /\ acc.msg = msg
                      /\ acc = [ok |-> ok, off |-> off, msg |-> msg]

LEMMA GivenUp ==
  ASSUME NEW acc, NEW ok, NEW off, NEW msg, acc = [ok |-> ok, off |-> off, msg |-> msg],
         NEW x, NEW new, new = [acc EXCEPT !.ok = x]
  PROVE  new = [ok |-> x, off |-> off, msg |-> msg]
BY SMT

(* A step of decode() leaves the message object shaped.                    *)
LEMMA StepShaped ==
  ASSUME NEW schema, IsSchema(schema), NEW i \in DOMAIN schema, NEW acc, Underway(schema, acc),
         NEW b \in Digits
  PROVE  Underway(schema, DecodeStep(schema, acc, i, b))
<1> DEFINE f == schema[i]
           start == acc.off + OptionalBit(f)
           res == DecodeField(f, acc.msg[i], After(b, start))
           next == DecodeStep(schema, acc, i, b)
<1>1. PICK ok, off, msg : /\ off \in Nat /\ Shaped(schema, msg) /\ acc.msg = msg
                          /\ acc = [ok |-> ok, off |-> off, msg |-> msg]
  BY DEF Underway
<1>2. acc.off = off /\ acc.msg = msg /\ start \in Nat
  <2>1. OptionalBit(f) \in Nat
    BY DEF OptionalBit
  <2>2. acc.off = off
    BY <1>1
  <2>3. QED
    BY <1>1, <2>1, <2>2
<1>3. IsField(f) /\ FieldReads(f, msg[i])
  BY <1>1 DEF IsSchema, Shaped
<1>4. \/ next = acc
      \/ next = [acc EXCEPT !.ok = FALSE]
      \/ next = [ok |-> TRUE, off |-> start, msg |-> acc.msg]
      \/ res # Raises /\ next = [ok |-> TRUE, off |-> start + res[1].used,
                                 msg |-> [acc.msg EXCEPT ![i] = res[1].v]]
  BY Zenon DEF DecodeStep, Assigned
<1>5. Underway(schema, acc)
  OBVIOUS
<1>6. Underway(schema, [acc EXCEPT !.ok = FALSE])
  <2> DEFINE a == [ok |-> FALSE, off |-> off, msg |-> msg]
  <2>1. [acc EXCEPT !.ok = FALSE] = a
    <3> DEFINE new == [acc EXCEPT !.ok = FALSE]
    <3>1. acc = [ok |-> ok, off |-> off, msg |-> msg] /\ new = [acc EXCEPT !.ok = FALSE]
      BY <1>1
    <3> HIDE DEF new
    <3>2. QED
      <4>1. new = [ok |-> FALSE, off |-> off, msg |-> msg]
        BY <3>1, GivenUp
      <4>2. QED
        BY <4>1 DEF new
  <2>2. a.msg = msg
    OBVIOUS
  <2>3. QED
    BY <1>1, <2>1, <2>2, Zenon DEF Underway
<1>7. Underway(schema, [ok |-> TRUE, off |-> start, msg |-> acc.msg])
  <2> DEFINE a == [ok |-> TRUE, off |-> start, msg |-> msg]
  <2>2. a.msg = msg
    OBVIOUS
  <2> HIDE DEF start
  <2>3. Underway(schema, a)
    BY <1>1, <1>2, <2>2, Zenon DEF Underway
  <2>4. QED
    BY <1>2, <2>3, Zenon
<1>8. ASSUME res # Raises
      PROVE  Underway(schema, [ok |-> TRUE, off |-> start + res[1].used,
                               msg |-> [acc.msg EXCEPT ![i] = res[1].v]])
  <2> DEFINE c == After(b, start)
  <2>1. c \in Digits
    <3> HIDE DEF start
    <3>1. QED
      BY <1>2, AfterDigits
  <2>2. acc.msg[i] = msg[i]
    BY <1>2
  <2> HIDE DEF c, f
  <2>3. ReadField(f, DecodeField(f, msg[i], c))
    BY <1>3, <2>1, FieldYields
  <2>4. ReadField(f, res)
    BY <2>2, <2>3 DEF c
  <2> HIDE DEF res, start
  <2>5. PICK v, u : u \in Nat /\ FieldReads(f, v) /\ res = <<[v |-> v, used |-> u]>>
    BY <1>8, <2>4, Zenon DEF ReadField
  <2>6. res[1].used = u /\ res[1].v = v
    BY <2>5
  <2> DEFINE new == [msg EXCEPT ![i] = v]
             end == start + u
             a == [ok |-> TRUE, off |-> end, msg |-> new]
  <2>7. Shaped(schema, new)
    <3>1. msg = [j \in DOMAIN schema |-> msg[j]] /\ \A j \in DOMAIN schema : FieldReads(schema[j], msg[j])
      BY <1>1 DEF Shaped
    <3>2. new = [j \in DOMAIN schema |-> new[j]]
      BY <3>1
    <3>3. \A j \in DOMAIN schema : new[j] = IF j = i THEN v ELSE msg[j]
      BY <3>1
    <3> HIDE DEF new
    <3>4. \A j \in DOMAIN schema : FieldReads(schema[j], new[j])
      BY <2>5, <3>1, <3>3 DEF f
    <3>5. QED
      BY <3>2, <3>4 DEF Shaped
  <2>8. end \in Nat
    BY <1>2, <2>5
  <2>9. a.msg = new
    OBVIOUS
  <2> HIDE DEF new, end
  <2>10. Underway(schema, a)
    BY <2>7, <2>8, <2>9, Zenon DEF Underway
  <2>11. QED
    BY <1>2, <2>6, <2>10 DEF new, end
<1> HIDE DEF next, res, start
<1>9. Underway(schema, next)
  BY <1>4, <1>5, <1>6, <1>7, <1>8, Zenon
<1>10. QED
  BY <1>9 DEF next

(* Decoding leaves a message object shaped as it was, whatever comes.      *)
LEMMA DecodeShaped ==
  ASSUME NEW schema, IsSchema(schema), NEW msg, Shaped(schema, msg), NEW b \in Digits
  PROVE  Shaped(schema, Decode(schema, msg, b).msg)
<1> DEFINE n == Len(schema)
<1>1. n \in Nat /\ DOMAIN schema = 1..n
  BY DEF IsSchema, IsList
<1> HIDE DEF n
<1>2. PICK g : Decoding(g, n, schema, msg, b)
  BY <1>1, DecodeUnfolds
<1>3. /\ g[0] = [ok |-> TRUE, off |-> 0, msg |-> msg] /\ Decode(schema, msg, b) = g[n]
      /\ \A i \in 1..n : g[i] = DecodeStep(schema, g[i - 1], i, b)
  BY <1>2 DEF Decoding
<1> DEFINE S == {k \in 0..n : Underway(schema, g[k])}
<1>4. 0 \in S
  <2> DEFINE z == 0
             a == [ok |-> TRUE, off |-> z, msg |-> msg]
  <2>1. a.msg = msg /\ z \in Nat
    OBVIOUS
  <2>2. 0 \in 0..n
    BY <1>1
  <2> HIDE DEF z
  <2>3. Underway(schema, a)
    BY <2>1, Zenon DEF Underway
  <2>4. QED
    BY <1>3, <2>2, <2>3 DEF z
<1>5. ASSUME NEW k \in 0..(n - 1), k \in S PROVE k + 1 \in S
  <2>1. k + 1 \in 1..n /\ (k + 1) - 1 = k /\ k + 1 \in 0..n
    BY <1>1
  <2>2. g[k + 1] = DecodeStep(schema, g[k], k + 1, b)
    BY <1>3, <2>1
  <2> DEFINE i == k + 1
             a == g[k]
  <2>3. i \in DOMAIN schema /\ Underway(schema, a)
    BY <1>1, <1>5, <2>1
  <2> HIDE DEF i, a
  <2>4. Underway(schema, DecodeStep(schema, a, i, b))
    BY <2>3, StepShaped
  <2>5. Underway(schema, g[k + 1])
    BY <2>2, <2>4 DEF i, a
  <2>6. QED
    BY <2>1, <2>5
<1>6. n \in S
  <2> HIDE DEF S
  <2>1. 0..n \subseteq S
    BY <1>1, <1>4, <1>5, UpToInduction
  <2>2. QED
    BY <1>1, <2>1
<1>7. Underway(schema, g[n])
  BY <1>6
<1>8. Shaped(schema, g[n].msg)
  BY <1>7, Zenon DEF Underway
<1>9. QED
  BY <1>3, <1>8

(* A new message object is shaped.                                         *)
LEMMA NewShaped ==
  ASSUME NEW schema, IsSchema(schema)
  PROVE  Shaped(schema, NewMessage(schema))
<1>1. \A i \in DOMAIN schema : FieldReads(schema[i], NewField(schema[i]))
  <2> SUFFICES ASSUME NEW i \in DOMAIN schema, schema[i].type = "array"
               PROVE  HasTemplate(schema[i], NewField(schema[i]))
    BY DEF FieldReads
  <2> DEFINE f == schema[i]
             t == [j \in DOMAIN f.fields |-> NewScalar(f.fields[j])]
             s == [template |-> t, elements |-> <<>>]
  <2>1. NewField(f) = s
    BY DEF NewField
  <2>2. s.elements = <<>> /\ s.template = t /\ t = [j \in DOMAIN f.fields |-> t[j]]
    OBVIOUS
  <2> HIDE DEF s, t
  <2>3. IsList(s.elements)
    BY <2>2 DEF IsList
  <2>4. QED
    BY <2>1, <2>2, <2>3 DEF HasTemplate
<1>2. QED
  BY <1>1 DEF Shaped, NewMessage

-----------------------------------------------------------------------------
(***************************************************************************)
(* Encoding yields whole bytes.                                            *)
(***************************************************************************)

(* Whatever the number, its digits are digits.                             *)
LEMMA BinaryTyped ==
  ASSUME NEW w \in 1..31, NEW n \in Int
  PROVE  Binary(n, w) \in Digits
<1> DEFINE Wide(k) == (k = 31 \/ n < 2^k) /\ (k = w \/ n >= 2^(k - 1))
           width == CHOOSE k \in w..31 : Wide(k)
           T == {k \in w..31 : k = 31 \/ n < 2^k}
<1>1. \E k \in w..31 : Wide(k)
  <2>1. T \in SUBSET Nat /\ 31 \in T
    OBVIOUS
  <2> HIDE DEF T
  <2>2. PICK k \in T : \A y \in T : ~(y < k)
    BY <2>1, LeastOf
  <2>3. k \in w..31 /\ (k = 31 \/ n < 2^k) /\ k \in Nat
    BY <2>2 DEF T
  <2>4. k = w \/ n >= 2^(k - 1)
    <3> SUFFICES ASSUME k # w PROVE n >= 2^(k - 1)
      OBVIOUS
    <3>1. k - 1 \in w..31 /\ k - 1 < k /\ k - 1 # 31 /\ k - 1 \in 0..31
      BY <2>3
    <3>2. k - 1 \notin T
      BY <2>2, <3>1
    <3>3. ~(n < 2^(k - 1))
      BY <3>1, <3>2 DEF T
    <3> DEFINE p == 2^(k - 1)
    <3>4. p \in Nat /\ ~(n < p)
      BY <3>1, <3>3, TwoToThe
    <3> HIDE DEF p
    <3>5. n >= p
      BY <3>4
    <3>6. QED
      BY <3>5 DEF p
  <2>5. QED
    BY <2>3, <2>4
<1>2. width \in w..31
  <2> HIDE DEF Wide
  <2>1. QED
    BY <1>1
<1>3. Binary(n, w) = [i \in 1..width |-> (n \div 2^(width - i)) % 2]
  BY Zenon DEF Binary
<1> HIDE DEF width
<1>4. ASSUME NEW i \in 1..width PROVE (n \div 2^(width - i)) % 2 \in {0, 1}
  <2> DEFINE p == 2^(width - i)
  <2>1. p \in Nat /\ p > 0
    <3>1. width - i \in 0..31
      BY <1>2
    <3>2. QED
      BY <3>1, TwoToThe
  <2> HIDE DEF p
  <2>2. n \div p \in Int
    BY <2>1
  <2>3. (n \div p) % 2 \in {0, 1}
    BY <2>2
  <2>4. QED
    BY <2>3 DEF p
<1>5. QED
  <2> DEFINE d(i) == (n \div 2^(width - i)) % 2
  <2>1. Binary(n, w) = [i \in 1..width |-> d(i)] /\ \A i \in 1..width : d(i) \in {0, 1}
    BY <1>3, <1>4
  <2> HIDE DEF d
  <2>2. width \in Nat
    BY <1>2
  <2>3. QED
    BY <2>1, <2>2 DEF Digits

(* An exception, or digits.                                                *)
Codes(result) == result = Raises \/ \E bits \in Digits : result = <<bits>>

(* Numbers are sent as digits.                                             *)
LEMMA NumberCodes ==
  ASSUME NEW f, f.size \in 1..31, NEW v, v = None \/ (v = <<v[1]>> /\ v[1] \in Int)
  PROVE  Codes(EncodeUnsigned(f, v)) /\ Codes(EncodeSigned(f, v))
<1>1. CASE v = None
  BY <1>1 DEF EncodeUnsigned, EncodeSigned, Codes
<1>2. CASE v # None
  <2> DEFINE n == v[1]
  <2>1. n \in Int /\ Binary(n, f.size) \in Digits
    BY <1>2, BinaryTyped
  <2>2. TwosComplement(n, f.size) \in Digits
    <3> DEFINE m == -n
               b == Binary(m, f.size)
               c == [i \in DOMAIN b |-> 1 - b[i]]
               k == Number(c) + 1
    <3>1. m \in Int
      BY <2>1
    <3> HIDE DEF m
    <3>2. b \in Digits
      BY <3>1, BinaryTyped
    <3> HIDE DEF b
    <3>3. c \in Digits
      <4>1. DOMAIN b = 1..Len(b) /\ Len(b) \in Nat /\ \A i \in 1..Len(b) : b[i] \in {0, 1}
        BY <3>2 DEF Digits
      <4> DEFINE l == Len(b)
      <4>2. c = [i \in 1..l |-> 1 - b[i]] /\ l \in Nat /\ \A i \in 1..l : 1 - b[i] \in {0, 1}
        BY <4>1
      <4> HIDE DEF c, l
      <4>3. QED
        BY <4>2 DEF Digits
    <3> HIDE DEF c
    <3>4. k \in Int
      <4>1. Number(c) \in Nat
        BY <3>3, NumberNat
      <4>2. QED
        BY <4>1
    <3>5. TwosComplement(n, f.size) = Binary(k, f.size)
      BY Zenon DEF TwosComplement, c, b, m
    <3> HIDE DEF k
    <3>6. QED
      BY <3>4, <3>5, BinaryTyped
  <2>3. EncodeUnsigned(f, v) = <<Binary(n, f.size)>>
    BY <1>2 DEF EncodeUnsigned
  <2>4. EncodeSigned(f, v) = <<IF n < 0 THEN TwosComplement(n, f.size) ELSE Binary(n, f.size)>>
    BY <1>2 DEF EncodeSigned
  <2> HIDE DEF n
  <2>5. QED
    BY <2>1, <2>2, <2>3, <2>4, Zenon DEF Codes
<1>3. QED
  BY <1>1, <1>2

LEMMA ZerosTyped ==
  ASSUME NEW k \in Int
  PROVE  Zeros(k) \in Digits
<1>1. CASE k \in Nat
  BY <1>1, ZerosAre
<1>2. CASE ~(k \in Nat)
  <2>1. 1..k = 1..0
    <3>1. \A x : x \notin 1..k
      BY <1>2
    <3>2. \A x : x \notin 1..0
      OBVIOUS
    <3>3. QED
      BY <3>1, <3>2, Zenon
  <2>2. Zeros(k) = Zeros(0)
    BY <2>1, Zenon DEF Zeros
  <2>3. 0 \in Nat
    OBVIOUS
  <2> DEFINE z == 0
  <2>4. z \in Nat /\ Zeros(k) = Zeros(z)
    BY <2>2, <2>3
  <2> HIDE DEF z
  <2>5. Zeros(z) \in Digits
    BY <2>4, ZerosAre
  <2>6. QED
    BY <2>4, <2>5
<1>3. QED
  BY <1>1, <1>2

LEMMA PrefixTyped ==
  ASSUME NEW n \in Nat
  PROVE  encode_field_length(n) \in Digits
<1>1. Binary(n, 7) \in Digits /\ Binary(n, 15) \in Digits
  <2>1. \A w \in 1..31 : Binary(n, w) \in Digits
    BY BinaryTyped
  <2>2. 7 \in 1..31 /\ 15 \in 1..31
    OBVIOUS
  <2>3. QED
    BY <2>1, <2>2, Zenon
<1>2. <<0>> \in Digits /\ <<1>> \in Digits
  BY DEF Digits
<1>3. <<0>> \o Binary(n, 7) \in Digits /\ <<1>> \o Binary(n, 15) \in Digits
  BY <1>1, <1>2, DigitsPair, Zenon
<1>4. QED
  BY <1>3 DEF encode_field_length

(* Texts and data are sent as digits.                                      *)
LEMMA TextCodes ==
  ASSUME NEW f, f.size \in Nat, NEW v, v = None \/ (v = <<v[1]>> /\ v[1] \in Seq(Octet))
  PROVE  Codes(EncodeText(f, v))
<1>1. CASE v = None
  BY <1>1 DEF EncodeText, Codes
<1>2. CASE v # None
  <2> DEFINE text == Chars(v[1])
             k == TextBits(f, v) - Len(text)
  <2>1. text \in Digits /\ Len(v[1]) \in Nat /\ Len(text) \in Nat
    <3>1. v[1] \in Seq(Octet)
      BY <1>2
    <3> DEFINE c == v[1]
    <3> HIDE DEF c
    <3>2. c \in Seq(Octet)
      BY <3>1 DEF c
    <3>3. Chars(c) \in Digits /\ Len(c) \in Nat
      BY <3>2, CharsIs
    <3>4. QED
      BY <3>3 DEF c, Digits
  <2>2. TextBits(f, v) \in Nat
    <3>1. OptionalBit(f) \in Nat
      BY DEF OptionalBit
    <3> DEFINE l == Len(v[1])
               z == f.size
               more == IF f.fixed THEN 8 * z ELSE (IF l < 127 THEN 8 ELSE 16) + 8 * l
    <3>2. TextBits(f, v) = OptionalBit(f) + more
      BY <1>2 DEF TextBits
    <3>3. l \in Nat /\ z \in Nat
      BY <2>1
    <3> HIDE DEF l, z
    <3>4. more \in Nat
      BY <3>3
    <3> HIDE DEF more
    <3>5. QED
      BY <3>1, <3>2, <3>4
  <2>3. EncodeText(f, v) = IF f.fixed THEN <<text \o Zeros(k)>>
                           ELSE <<encode_field_length(Len(v[1])) \o text>>
    BY <1>2 DEF EncodeText
  <2> HIDE DEF text
  <2>4. k \in Int
    BY <2>1, <2>2
  <2> HIDE DEF k
  <2>5. text \o Zeros(k) \in Digits
    BY <2>1, <2>4, ZerosTyped, DigitsPair
  <2>6. encode_field_length(Len(v[1])) \o text \in Digits
    <3> DEFINE l == Len(v[1])
    <3>1. l \in Nat
      BY <2>1
    <3> HIDE DEF l
    <3>2. encode_field_length(l) \in Digits
      BY <3>1, PrefixTyped
    <3>3. encode_field_length(l) \o text \in Digits
      BY <2>1, <3>2, DigitsPair, Zenon
    <3>4. QED
      BY <3>3 DEF l
  <2>7. QED
    BY <2>3, <2>5, <2>6, Zenon DEF Codes
<1>3. QED
  BY <1>1, <1>2

(* Scalar fields are sent as digits.                                       *)
LEMMA ScalarCodes ==
  ASSUME NEW f, IsScalar(f), NEW s, Holds(f, s)
  PROVE  Codes(EncodeScalar(f, s))
<1>1. \/ f.type = "bool"
      \/ f.type \in {"uint", "int"} /\ f.size \in 1..31
      \/ f.type = "enum" /\ f.size \in 1..31
      \/ f.type \in {"string", "data"} /\ f.size \in Nat
  BY Zenon DEF IsScalar
<1>2. ASSUME NEW v, Holds(f, v)
      PROVE  \/ v = None
             \/ /\ v = <<v[1]>>
                /\ f.type = "bool" => v[1] \in {0, 1}
                /\ f.type \in {"uint", "int"} => v[1] \in Int
                /\ f.type = "enum" => v[1] \in 0..f.items - 1
                /\ f.type \in {"string", "data"} => v[1] \in Seq(Octet)
  BY <1>2, HoldsValue
<1>3. CASE f.type = "bool"
  <2>1. EncodeScalar(f, s) = EncodeBool(f, s)
    BY <1>3, Zenon DEF EncodeScalar
  <2>2. s = None \/ (s = <<s[1]>> /\ s[1] \in {0, 1})
    BY <1>2, <1>3
  <2>3. EncodeBool(f, s) = Raises \/ EncodeBool(f, s) = << <<0>> >> \/ (s # None /\ EncodeBool(f, s) = <<s>>)
    BY DEF EncodeBool
  <2>4. <<0>> \in Digits /\ (s # None => s \in Digits)
    <3> DEFINE x == s[1]
    <3>1. s # None => s = <<x>> /\ x \in {0, 1}
      BY <2>2
    <3> HIDE DEF x
    <3>2. <<0>> \in Digits /\ (x \in {0, 1} => <<x>> \in Digits)
      BY DEF Digits
    <3>3. QED
      BY <3>1, <3>2
  <2>5. QED
    BY <2>1, <2>3, <2>4, Zenon DEF Codes
<1>4. CASE f.type \in {"uint", "int"} /\ f.size \in 1..31
  <2>1. s = None \/ (s = <<s[1]>> /\ s[1] \in Int)
    BY <1>2, <1>4
  <2>2. Codes(EncodeUnsigned(f, s)) /\ Codes(EncodeSigned(f, s))
    BY <1>4, <2>1, NumberCodes
  <2>3. \/ EncodeScalar(f, s) = EncodeUnsigned(f, s)
        \/ EncodeScalar(f, s) = EncodeSigned(f, s)
    <3>1. CASE f.type = "uint"
      BY <3>1, Zenon DEF EncodeScalar
    <3>2. CASE f.type = "int"
      BY <3>2, Zenon DEF EncodeScalar
    <3>3. QED
      BY <1>4, <3>1, <3>2
  <2>4. QED
    BY <2>2, <2>3
<1>5. CASE f.type = "enum" /\ f.size \in 1..31
  <2> DEFINE v == EnumValue(f, s)
  <2>1. EncodeScalar(f, s) = EncodeUnsigned(f, v)
    BY <1>5, Zenon DEF EncodeScalar, EncodeEnum
  <2>2. Holds(f, v)
    <3>1. Holds(f, f.default)
      BY Zenon DEF IsScalar, Holds
    <3>2. QED
      BY <3>1 DEF EnumValue
  <2> HIDE DEF v
  <2>3. v = None \/ (v = <<v[1]>> /\ v[1] \in 0..f.items - 1)
    BY <1>2, <1>5, <2>2
  <2>4. v = None \/ (v = <<v[1]>> /\ v[1] \in Int)
    BY <2>3
  <2>5. QED
    BY <1>5, <2>1, <2>4, NumberCodes
<1>6. CASE f.type \in {"string", "data"} /\ f.size \in Nat
  <2>1. EncodeScalar(f, s) = EncodeText(f, s)
    <3>1. CASE f.type = "string"
      BY <3>1, Zenon DEF EncodeScalar
    <3>2. CASE f.type = "data"
      BY <3>2, Zenon DEF EncodeScalar
    <3>3. QED
      BY <1>6, <3>1, <3>2
  <2>2. s = None \/ (s = <<s[1]>> /\ s[1] \in Seq(Octet))
    BY <1>2, <1>6
  <2>3. QED
    BY <1>6, <2>1, <2>2, TextCodes
<1>7. QED
  BY <1>1, <1>3, <1>4, <1>5, <1>6

(* What is put together of digits is digits.                               *)
LEMMA JoinCodes ==
  ASSUME NEW n \in Nat, NEW results, DOMAIN results = 1..n, \A i \in 1..n : Codes(results[i])
  PROVE  Codes(Join(results))
<1>1. CASE Join(results) = Raises
  BY <1>1 DEF Codes
<1>2. CASE Join(results) # Raises
  <2>1. \A i \in 1..n : \E bits \in Digits : results[i] = <<bits>>
    BY <1>2, JoinFails DEF Codes
  <2> DEFINE parts == [i \in 1..n |-> results[i][1]]
  <2>2. \A i \in 1..n : parts[i] \in Digits /\ results[i] = <<parts[i]>>
    <3> SUFFICES ASSUME NEW i \in 1..n PROVE parts[i] \in Digits /\ results[i] = <<parts[i]>>
      OBVIOUS
    <3>1. PICK bits \in Digits : results[i] = <<bits>>
      BY <2>1
    <3>2. parts[i] = results[i][1]
      OBVIOUS
    <3>3. parts[i] = bits
      BY <3>1, <3>2, IsResult, Zenon
    <3>4. QED
      BY <3>1, <3>3
  <2> HIDE DEF parts
  <2>3. PICK cat : Joined(cat, parts, n)
    BY <2>2, JoinedExists
  <2>4. Together(cat, parts, n) /\ \A i \in 0..n : cat[i] \in Digits
    BY <2>3 DEF Joined
  <2>5. Join(results) = <<cat[n]>>
    BY <2>2, <2>4, JoinIs
  <2>6. cat[n] \in Digits
    BY <2>4
  <2>7. QED
    BY <2>5, <2>6 DEF Codes
<1>3. QED
  BY <1>1, <1>2

(* Arrays are sent as digits.                                              *)
LEMMA ArrayCodes ==
  ASSUME NEW f, IsField(f), f.type = "array", NEW s, HasElements(f, s)
  PROVE  Codes(EncodeArray(f, s))
<1>1. IsList(f.fields) /\ \A j \in DOMAIN f.fields : IsScalar(f.fields[j])
  BY DEF IsField, IsScalar
<1>2. /\ IsList(s.elements)
      /\ \A i \in DOMAIN s.elements :
            /\ Elements(s)[i] = [j \in DOMAIN f.fields |-> Elements(s)[i][j]]
            /\ \A j \in DOMAIN f.fields : Holds(f.fields[j], Elements(s)[i][j])
  BY DEF HasElements
<1> DEFINE Element(el) == Join([j \in DOMAIN el |-> EncodeScalar(f.fields[j], el[j])])
           Body(els)   == Join([i \in DOMAIN els |-> Element(els[i])])
           els == Elements(s)
           n == Len(s.elements)
           w == Len(f.fields)
           prefix == IF f.fixed THEN <<>> ELSE encode_field_length(n)
           body == Body(els)
<1>3. n \in Nat /\ w \in Nat /\ DOMAIN s.elements = 1..n /\ DOMAIN f.fields = 1..w /\ DOMAIN els = 1..n
  BY <1>1, <1>2 DEF IsList, Elements
<1>4. ASSUME NEW i \in 1..n PROVE Codes(Element(els[i]))
  <2> DEFINE el == els[i]
             results == [j \in DOMAIN el |-> EncodeScalar(f.fields[j], el[j])]
  <2>1. DOMAIN el = 1..w /\ \A j \in 1..w : Holds(f.fields[j], el[j])
    BY <1>2, <1>3
  <2> HIDE DEF el, w
  <2>2. DOMAIN results = 1..w /\ \A j \in 1..w : results[j] = EncodeScalar(f.fields[j], el[j])
    BY <2>1
  <2>3. \A j \in 1..w : Codes(results[j])
    <3> SUFFICES ASSUME NEW j \in 1..w PROVE Codes(results[j])
      OBVIOUS
    <3>1. IsScalar(f.fields[j]) /\ Holds(f.fields[j], el[j])
      BY <1>1, <1>3, <2>1
    <3> HIDE DEF results
    <3>2. QED
      BY <2>2, <3>1, ScalarCodes
  <2> HIDE DEF results
  <2>4. Codes(Join(results))
    BY <1>3, <2>2, <2>3, JoinCodes
  <2>5. QED
    BY <2>4 DEF results, el
<1>5. Codes(body)
  <2> DEFINE results == [i \in DOMAIN els |-> Element(els[i])]
  <2> HIDE DEF els, Element
  <2>1. DOMAIN results = 1..n /\ \A i \in 1..n : Codes(results[i])
    BY <1>3, <1>4
  <2> HIDE DEF results
  <2>2. Codes(Join(results))
    BY <1>3, <2>1, JoinCodes
  <2>3. QED
    BY <2>2 DEF results
<1>6. EncodeArray(f, s) = IF s.elements = <<>> THEN Raises
                          ELSE IF body = Raises THEN Raises ELSE <<prefix \o body[1]>>
  BY Zenon DEF EncodeArray, Then
<1>7. prefix \in Digits
  BY <1>3, NoDigits, PrefixTyped
<1> HIDE DEF body, prefix
<1>8. CASE s.elements = <<>> \/ body = Raises
  BY <1>6, <1>8 DEF Codes
<1>9. CASE s.elements # <<>> /\ body # Raises
  <2>1. PICK bits \in Digits : body = <<bits>>
    BY <1>5, <1>9 DEF Codes
  <2>2. body[1] = bits
    BY <2>1, IsResult, Zenon
  <2>3. prefix \o bits \in Digits
    BY <1>7, <2>1, DigitsPair
  <2>4. EncodeArray(f, s) = <<prefix \o bits>>
    BY <1>6, <1>9, <2>2, Zenon
  <2>5. QED
    BY <2>3, <2>4, Zenon DEF Codes
<1>10. QED
  BY <1>8, <1>9

(* Fields are sent as digits.                                              *)
LEMMA FieldCodes ==
  ASSUME NEW f, IsField(f), NEW s, FieldHolds(f, s)
  PROVE  Codes(EncodeField(f, s))
<1>1. CASE f.type = "array"
  BY <1>1, ArrayCodes DEF FieldHolds, EncodeField
<1>2. CASE f.type # "array"
  <2>1. IsScalar(f)
    BY <1>2 DEF IsField
  <2>2. QED
    BY <1>2, <2>1, ScalarCodes DEF FieldHolds, EncodeField
<1>3. QED
  BY <1>1, <1>2

(* A payload is whole bytes.                                               *)
WholeBytesOf(payload) == payload \in Digits /\ \E m \in Nat : Len(payload) = 8 * m

(* A payload is digits, and whole bytes.                                   *)
LEMMA EncodeTyped ==
  ASSUME NEW schema, IsSchema(schema), NEW msg, \A i \in DOMAIN schema : FieldHolds(schema[i], msg[i]),
         NEW exclude, NEW is_forward \in BOOLEAN, NEW payload,
         Encode(schema, msg, exclude, is_forward) = <<payload>>
  PROVE  WholeBytesOf(payload)
<1> DEFINE n == Len(schema)
           Mark(i)   == IF schema[i].optional THEN << <<1>> >> ELSE << <<>> >>
           Part(i)   == IF ~Included(schema, msg, exclude, i) THEN << <<0>> >>
                        ELSE Join(<<Mark(i), EncodeField(schema[i], msg[i])>>)
           Limit     == IF is_forward THEN MaxForward ELSE MaxReturn
           Checked(bits) == IF Len(bits) \div 8 > Limit THEN Raises ELSE <<bits>>
           parts == [i \in DOMAIN schema |-> Part(i)]
<1>1. n \in Nat /\ DOMAIN schema = 1..n /\ \A i \in 1..n : IsField(schema[i])
  BY DEF IsSchema, IsList
<1>2. Encode(schema, msg, exclude, is_forward) =
        IF Join(parts) = Raises THEN Raises ELSE Checked(Padded(Join(parts)[1]))
  BY Zenon DEF Encode, Padded, Then
<1>3. ASSUME NEW i \in 1..n PROVE Codes(Part(i))
  <2>1. Codes(EncodeField(schema[i], msg[i]))
    BY <1>1, FieldCodes
  <2>2. Codes(Mark(i)) /\ Codes(<< <<0>> >>)
    <3>1. <<>> \in Digits /\ <<1>> \in Digits /\ <<0>> \in Digits
      BY NoDigits DEF Digits
    <3>2. QED
      BY <3>1, Zenon DEF Codes
  <2> DEFINE two == <<Mark(i), EncodeField(schema[i], msg[i])>>
             m == 2
  <2>3. DOMAIN two = 1..m /\ m \in Nat /\ two[1] = Mark(i) /\ two[2] = EncodeField(schema[i], msg[i])
        /\ \A k \in 1..m : k = 1 \/ k = 2
    OBVIOUS
  <2> HIDE DEF two, m, Mark
  <2>4. \A k \in 1..m : Codes(two[k])
    BY <2>1, <2>2, <2>3
  <2>5. Codes(Join(two))
    BY <2>3, <2>4, JoinCodes
  <2>6. QED
    BY <2>2, <2>5 DEF two
<1>4. DOMAIN parts = 1..n /\ \A i \in 1..n : Codes(parts[i])
  <2> HIDE DEF Part
  <2>1. QED
    BY <1>1, <1>3
<1> HIDE DEF parts, n
<1>5. Codes(Join(parts))
  BY <1>1, <1>4, JoinCodes
<1>6. Join(parts) # Raises
  BY <1>2, IsResult, Zenon
<1>7. PICK bits \in Digits : Join(parts) = <<bits>>
  BY <1>5, <1>6 DEF Codes
<1>8. Join(parts)[1] = bits
  BY <1>7, IsResult, Zenon
<1>9. <<payload>> = Checked(Padded(bits))
  BY <1>2, <1>6, <1>8, Zenon
<1>10. payload = Padded(bits)
  <2>1. Checked(Padded(bits)) = Raises \/ Checked(Padded(bits)) = <<Padded(bits)>>
    OBVIOUS
  <2> HIDE DEF Checked
  <2>2. <<payload>> = <<Padded(bits)>>
    BY <1>9, <2>1, IsResult, Zenon
  <2>3. QED
    BY <2>2, IsResult, Zenon
<1>11. QED
  BY <1>10, PaddedIs DEF WholeBytesOf

-----------------------------------------------------------------------------
(***************************************************************************)
(* What fields hold, once they are made and values are assigned to them.   *)
(***************************************************************************)
LEMMA NewScalarHolds ==
  ASSUME NEW f, IsScalar(f)
  PROVE  Holds(f, NewScalar(f))
<1>1. Holds(f, f.default)
  BY Zenon DEF IsScalar, Holds
<1>2. Holds(f, None)
  BY DEF Holds, IsState, IsItem
<1>3. f.type = "bool" => Holds(f, <<0>>)
  <2> DEFINE s == <<0>>
  <2>1. s = <<s[1]>> /\ s[1] \in {0, 1} /\ "bool" # "enum"
    OBVIOUS
  <2> HIDE DEF s
  <2>2. f.type = "bool" => IsState(f, s)
    BY <2>1, Zenon DEF IsState, IsValue
  <2>3. f.type = "bool" => IsItem(f, s)
    BY <2>1, Zenon DEF IsItem
  <2>4. QED
    BY <2>2, <2>3 DEF Holds, s
<1>4. NewScalar(f) \in {None, f.default} \/ (f.type = "bool" /\ NewScalar(f) = <<0>>)
  BY DEF NewScalar
<1>5. QED
  BY <1>1, <1>2, <1>3, <1>4

LEMMA ClampedInt ==
  ASSUME NEW a \in Int, NEW b \in Int
  PROVE  Min({a, b}) \in Int /\ Max({a, b}) \in Int
<1>1. Min({a, b}) \in {a, b}
  <2>1. CASE a <= b
    <3>1. Min({a, b}) = a
      BY <2>1 DEF Min
    <3>2. QED
      BY <3>1
  <2>2. CASE ~(a <= b)
    <3>1. Min({a, b}) = b
      BY <2>2 DEF Min
    <3>2. QED
      BY <3>1
  <2>3. QED
    BY <2>1, <2>2
<1>2. Max({a, b}) \in {a, b}
  <2>1. CASE a >= b
    <3>1. Max({a, b}) = a
      BY <2>1 DEF Max
    <3>2. QED
      BY <3>1
  <2>2. CASE ~(a >= b)
    <3>1. Max({a, b}) = b
      BY <2>2 DEF Max
    <3>2. QED
      BY <3>1
  <2>3. QED
    BY <2>1, <2>2
<1>3. QED
  BY <1>1, <1>2

(* An exception, or a state that field f can hold.                         *)
Keeps(f, result) == result = Raises \/ \E s : Holds(f, s) /\ result = <<s>>

LEMMA KeepsValue ==
  ASSUME NEW f, NEW v, IsValue(f, v), f.type = "enum" => v \in 0..f.items - 1
  PROVE  Keeps(f, << <<v>> >>)
<1> DEFINE s == <<v>>
<1>1. s = <<s[1]>> /\ s[1] = v
  OBVIOUS
<1> HIDE DEF s
<1>2. IsState(f, s) /\ IsItem(f, s)
  BY <1>1 DEF IsState, IsItem
<1>3. Keeps(f, <<s>>)
  BY <1>2 DEF Keeps, Holds
<1>4. QED
  BY <1>3 DEF s

(* A setter leaves a value of the type of the field, or raises.            *)
LEMMA AssignHolds ==
  ASSUME NEW f, IsScalar(f), NEW v, IsValue(f, v)
  PROVE  Keeps(f, Assign(f, v))
<1>0. Keeps(f, Raises)
  BY DEF Keeps
<1>1. \/ f.type = "bool"
      \/ f.type \in {"uint", "int"} /\ f.size \in 1..31
      \/ f.type = "enum" /\ f.size \in 1..31
      \/ f.type \in {"string", "data"} /\ f.size \in Nat
  BY Zenon DEF IsScalar
<1>2. CASE f.type = "bool"
  <2>1. Assign(f, v) = << <<v>> >>
    BY <1>2, Zenon DEF Assign
  <2>2. f.type # "enum"
    BY <1>2
  <2>3. QED
    BY <2>1, <2>2, KeepsValue
<1>3. CASE f.type = "uint" /\ f.size \in 1..31
  <2> DEFINE x == Min({v, Largest(f.size)})
  <2>1. v \in Int /\ Largest(f.size) \in Int
    <3>1. v \in Int
      BY <1>3, Zenon DEF IsValue
    <3>2. Largest(f.size) = 2^f.size - 1 /\ 2^f.size \in Nat
      BY <1>3, LargestIs
    <3> DEFINE p == 2^f.size
    <3>3. Largest(f.size) = p - 1 /\ p \in Nat
      BY <3>2
    <3> HIDE DEF p
    <3>4. QED
      BY <3>1, <3>3
  <2>2. x \in Int
    BY <2>1, ClampedInt
  <2>3. Assign(f, v) = Raises \/ Assign(f, v) = << <<x>> >>
    BY <1>3, Zenon DEF Assign, AssignUnsigned
  <2> HIDE DEF x
  <2>4. IsValue(f, x) /\ f.type # "enum"
    <3>1. f.type \in {"uint", "int", "enum"} /\ f.type # "bool" /\ f.type # "enum"
      BY <1>3
    <3>2. QED
      BY <2>2, <3>1, Zenon DEF IsValue
  <2>5. QED
    BY <1>0, <2>3, <2>4, KeepsValue
<1>4. CASE f.type = "int" /\ f.size \in 1..31
  <2> DEFINE half == 2^(f.size - 1)
             x == Max({Min({v, half - 1}), -half})
  <2>1. v \in Int /\ half - 1 \in Int /\ -half \in Int
    <3>1. v \in Int
      BY <1>4, Zenon DEF IsValue
    <3>2. half \in Nat
      BY <1>4, LargestIs
    <3> HIDE DEF half
    <3>3. QED
      BY <3>1, <3>2
  <2>2. x \in Int
    <3> HIDE DEF half
    <3>1. Min({v, half - 1}) \in Int
      BY <2>1, ClampedInt
    <3>2. QED
      BY <2>1, <3>1, ClampedInt
  <2>3. Assign(f, v) = << <<x>> >>
    BY <1>4, Zenon DEF Assign, AssignSigned
  <2> HIDE DEF x
  <2>4. IsValue(f, x) /\ f.type # "enum"
    <3>1. f.type \in {"uint", "int", "enum"} /\ f.type # "bool" /\ f.type # "enum"
      BY <1>4
    <3>2. QED
      BY <2>2, <3>1, Zenon DEF IsValue
  <2>5. QED
    BY <2>3, <2>4, KeepsValue
<1>5. CASE f.type = "enum"
  <2>1. Assign(f, v) = AssignEnum(f, v)
    BY <1>5, Zenon DEF Assign
  <2>2. Assign(f, v) = Raises \/ (v \in 0..f.items - 1 /\ Assign(f, v) = << <<v>> >>)
    BY <2>1 DEF AssignEnum
  <2>3. QED
    BY <1>0, <2>2, KeepsValue
<1>6. CASE f.type \in {"string", "data"} /\ f.size \in Nat
  <2>1. v \in Seq(0..255) /\ f.type # "enum"
    <3>1. f.type \in {"string", "data"} /\ f.type # "enum"
      BY <1>6
    <3>2. CASE f.type = "string"
      BY <3>1, <3>2, Zenon DEF IsValue
    <3>3. CASE f.type = "data"
      BY <3>1, <3>3, Zenon DEF IsValue
    <3>4. QED
      BY <3>1, <3>2, <3>3
  <2> DEFINE y == Slice(v \o Zeros(f.size), f.size)
             x == IF f.type = "string" THEN Slice(v, f.size) ELSE IF f.fixed THEN y ELSE v
  <2>2. Slice(v, f.size) \in Seq(0..255) /\ y \in Seq(0..255)
    <3> DEFINE z == Zeros(f.size)
               D == 0..255
    <3>1. z \in Seq(D)
      <4>1. z = [i \in 1..f.size |-> 0] /\ 0 \in D
        BY DEF Zeros
      <4> HIDE DEF z, D
      <4>2. QED
        BY <1>6, <4>1
    <3> HIDE DEF z, D
    <3>2. v \in Seq(D)
      BY <2>1 DEF D
    <3>3. v \o z \in Seq(D)
      BY <3>1, <3>2, ConcatProperties
    <3>4. Slice(v, f.size) \in Seq(D) /\ Slice(v \o z, f.size) \in Seq(D)
      BY <1>6, <3>2, <3>3, SliceSeq
    <3>5. QED
      BY <3>4 DEF z, D
  <2>3. Assign(f, v) = << <<x>> >>
    <3>1. CASE f.type = "string"
      <4>1. Assign(f, v) = << <<Slice(v, f.size)>> >>
        BY <3>1, Zenon DEF Assign, Clipped
      <4>2. QED
        BY <3>1, <4>1, Zenon
    <3>2. CASE f.type = "data"
      <4>1. Assign(f, v) = << <<IF f.fixed THEN y ELSE v>> >>
        BY <3>2, Zenon DEF Assign, AssignData
      <4>2. f.type # "string"
        BY <3>2
      <4>3. QED
        BY <4>1, <4>2, Zenon
    <3>3. QED
      BY <1>6, <3>1, <3>2
  <2>4. x \in Seq(0..255)
    <3> HIDE DEF y
    <3>1. QED
      BY <2>1, <2>2
  <2> HIDE DEF x
  <2>5. IsValue(f, x)
    <3>1. CASE f.type = "string"
      BY <2>4, <3>1, Zenon DEF IsValue
    <3>2. CASE f.type = "data"
      BY <2>4, <3>2, Zenon DEF IsValue
    <3>3. QED
      BY <1>6, <3>1, <3>2
  <2>6. QED
    BY <2>1, <2>3, <2>5, KeepsValue
<1>7. QED
  BY <1>1, <1>2, <1>3, <1>4, <1>5, <1>6
===============================================================================
