---------------------------- MODULE RingIndices ----------------------------
(***************************************************************************)
(* Arithmetic of indices that wrap, for the proofs about the two rings of  *)
(* the NetworkStack: an index is a running number modulo its width, and a  *)
(* place in the ring is the index modulo the size of the ring.             *)
(***************************************************************************)
EXTENDS Integers, TLAPS

\* Quotient and remainder are what they should be.
LEMMA DivMod ==
  ASSUME NEW a \in Int, NEW d \in Nat \ {0}
  PROVE  /\ a \div d \in Int
         /\ a % d \in 0..(d - 1)
         /\ a = d * (a \div d) + (a % d)
  OBVIOUS

\* Every number is a number of rounds and a remainder.
LEMMA Division ==
  ASSUME NEW a \in Int, NEW d \in Nat \ {0}
  PROVE  \E q \in Int, r \in 0..(d - 1) : r = a % d /\ a = d * q + r
  <1>1. a \div d \in Int /\ a % d \in 0..(d - 1) /\ a = d * (a \div d) + (a % d)
    BY DivMod
  <1>2. QED
    BY <1>1, Zenon

\* There is only one such remainder.
LEMMA ModUnique ==
  ASSUME NEW a \in Int, NEW d \in Nat \ {0}, NEW q \in Int, NEW r \in 0..(d - 1),
         a = d * q + r
  PROVE  a % d = r
  OBVIOUS

\* Whole rounds do not change the remainder.
LEMMA ModPeriod ==
  ASSUME NEW a \in Int, NEW d \in Nat \ {0}, NEW q \in Int
  PROVE  (a + d * q) % d = a % d
  <1>1. a + d * q = d * ((a \div d) + q) + (a % d)
    BY DivMod
  <1>2. (a \div d) + q \in Int /\ a + d * q \in Int /\ a % d \in 0..(d - 1)
    BY DivMod
  <1>3. QED
    BY <1>1, <1>2, ModUnique

\* Remainders may be taken before or after a sum.
LEMMA ModAdd ==
  ASSUME NEW a \in Int, NEW b \in Int, NEW d \in Nat \ {0}
  PROVE  ((a % d) + b) % d = (a + b) % d
  <1>1. PICK q \in Int, r \in 0..(d - 1) : r = a % d /\ a = d * q + r
    BY Division
  <1>2. a + b = (r + b) + d * q
    BY <1>1
  <1>3. (a + b) % d = (r + b) % d
    <2>1. r + b \in Int
      BY <1>1
    <2>2. ((r + b) + d * q) % d = (r + b) % d
      BY <2>1, ModPeriod
    <2>3. QED
      BY <1>2, <2>2
  <1>4. QED
    BY <1>1, <1>3

\* The place of an index that wraps after a whole number of rings is the place
\* of the running number.
LEMMA ModMod ==
  ASSUME NEW a \in Int, NEW d \in Nat \ {0}, NEW k \in Nat \ {0}
  PROVE  (a % (k * d)) % d = a % d
  <1>1. k * d \in Nat \ {0}
    OBVIOUS
  <1>2. PICK q \in Int, r \in 0..((k * d) - 1) : r = a % (k * d) /\ a = (k * d) * q + r
    <2> DEFINE m == k * d
    <2>1. m \in Nat \ {0}
      BY <1>1
    <2> HIDE DEF m
    <2>2. \E q \in Int, r \in 0..(m - 1) : r = a % m /\ a = m * q + r
      BY <2>1, Division
    <2>3. QED
      BY <2>2 DEF m
  <1>3. a = r + d * (k * q) /\ k * q \in Int
    BY <1>2
  <1>6. r \in Int
    BY <1>1, <1>2
  <1>4. (r + d * (k * q)) % d = r % d
    <2> DEFINE n == k * q
    <2>1. n \in Int
      BY <1>3
    <2> HIDE DEF n
    <2>2. (r + d * n) % d = r % d
      BY <1>6, <2>1, ModPeriod
    <2>3. QED
      BY <2>2 DEF n
  <1>5. QED
    BY <1>2, <1>3, <1>4

\* Numbers less than a round apart have remainders of their own.
LEMMA ModInjective ==
  ASSUME NEW a \in Int, NEW b \in Int, NEW d \in Nat \ {0},
         a % d = b % d, a <= b, b < a + d
  PROVE  a = b
  <1> DEFINE p == a \div d
             q == b \div d
             r == a % d
  <1>1. p \in Int /\ q \in Int /\ r \in 0..(d-1) /\ a = d * p + r /\ b = d * q + r
    BY DivMod
  <1> HIDE DEF p, q, r
  <1>2. b - a = d * (q - p)
    BY <1>1
  <1>3. q - p < 1
    BY <1>1, <1>2
  <1>4. q - p >= 0
    BY <1>1, <1>2
  <1>5. QED
    BY <1>1, <1>3, <1>4

\* Within the first round a number is its own remainder.
LEMMA ModSmall ==
  ASSUME NEW d \in Nat \ {0}, NEW r \in 0..(d - 1)
  PROVE  r % d = r
  <1>1. r \in Int /\ 0 \in Int /\ r = d * 0 + r
    OBVIOUS
  <1>2. QED
    BY <1>1, ModUnique

\* The distance between two indices, computed modulo their width, is that of
\* the running numbers, as long as these are less than the width apart.
LEMMA IndexDistance ==
  ASSUME NEW a \in Int, NEW b \in Int, NEW d \in Nat \ {0}, a <= b, b < a + d
  PROVE  ((b % d) + d - (a % d)) % d = b - a
  <1>1. PICK q \in Int, r \in 0..(d - 1) : r = a % d /\ a = d * q + r
    BY Division
  <1>2. d - r \in Int /\ (b % d) \in Int
    BY <1>1, DivMod
  <1>3. ((b % d) + (d - r)) % d = (b + (d - r)) % d
    BY <1>2, ModAdd
  <1>4. b + (d - r) = (b - a) + d * (q + 1)
    BY <1>1
  <1>5. ((b - a) + d * (q + 1)) % d = (b - a) % d
    <2>1. b - a \in Int /\ q + 1 \in Int
      BY <1>1
    <2>2. QED
      BY <2>1, ModPeriod
  <1>6. (b - a) % d = b - a
    BY ModSmall
  <1>7. (b % d) + d - r = (b % d) + (d - r)
    BY <1>1, <1>2
  <1>8. QED
    BY <1>1, <1>3, <1>4, <1>5, <1>6, <1>7

\* The place some way on from an index is the place as far on from the running
\* number.
LEMMA IndexPlace ==
  ASSUME NEW a \in Int, NEW b \in Int, NEW d \in Nat \ {0}, NEW k \in Nat \ {0}
  PROVE  ((a % (k * d)) + b) % d = (a + b) % d
  <1> DEFINE m == k * d
             r == a % m
  <1>1. m \in Nat \ {0}
    OBVIOUS
  <1>2. r \in Int
    <2> HIDE DEF m
    <2>1. QED
      BY <1>1, DivMod
  <1>3. r % d = a % d
    BY ModMod
  <1> HIDE DEF r
  <1>4. (r + b) % d = ((r % d) + b) % d
    BY <1>2, ModAdd
  <1>5. ((a % d) + b) % d = (a + b) % d
    BY ModAdd
  <1>6. QED
    BY <1>3, <1>4, <1>5 DEF r

\* A stretch as long as the ring visits every place.
LEMMA EveryPlace ==
  ASSUME NEW a \in Int, NEW d \in Nat \ {0}, NEW s \in 0..(d - 1)
  PROVE  \E j \in a..(a + d - 1) : j % d = s
  <1> DEFINE t == (s - a) % d
  <1>1. t \in 0..(d - 1)
    BY DivMod
  <1>2. (t + a) % d = ((s - a) + a) % d
    <2> DEFINE c == s - a
    <2>1. c \in Int
      OBVIOUS
    <2> HIDE DEF c
    <2>2. ((c % d) + a) % d = (c + a) % d
      BY <2>1, ModAdd
    <2>3. QED
      BY <2>2 DEF c
  <1>3. (s - a) + a = s /\ s % d = s
    BY ModSmall
  <1> HIDE DEF t
  <1>4. t + a \in a..(a + d - 1)
    BY <1>1
  <1>5. QED
    BY <1>2, <1>3, <1>4
=============================================================================
