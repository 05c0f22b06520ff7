----------------------------- MODULE Remainders -----------------------------
(* What the proofs about aligned addresses need of quotients and remainders. *)
EXTENDS Integers, TLAPS

\* A number is its quotient and its remainder.
LEMMA DivMod ==
  ASSUME NEW a \in Int, NEW b \in Int, b > 0
  PROVE  /\ a = b * (a \div b) + (a % b)
         /\ a \div b \in Int
         /\ a % b \in 0..(b - 1)
  BY SMTT(30)

\* The remainder the mask clears.
LEMMA ModBounds ==
  ASSUME NEW a \in Nat, NEW b \in Nat \ {0}
  PROVE  /\ a % b \in Nat
         /\ a % b < b
         /\ a % b <= a
         /\ a < b => a % b = a
  BY SMT

\* A multiple leaves no remainder.
LEMMA MultipleMod ==
  ASSUME NEW b \in Nat \ {0}, NEW q \in Int
  PROVE  (b * q) % b = 0
  BY SMT

\* What is left when the remainder is cleared is a multiple.
LEMMA ClearedMod ==
  ASSUME NEW a \in Nat, NEW b \in Nat \ {0}
  PROVE  (a - (a % b)) % b = 0
<1>1. a - (a % b) = b * (a \div b) /\ a \div b \in Int
  <2>1. a = b * (a \div b) + (a % b) /\ a \div b \in Int /\ a % b \in Int
    BY DivMod
  <2>2. b * (a \div b) \in Int
    BY <2>1
  <2> QED
    BY <2>1, <2>2
<1> QED
  BY <1>1, MultipleMod

\* A sum or difference of multiples is a multiple.
LEMMA SumOfMultiples ==
  ASSUME NEW a \in Int, NEW c \in Int, NEW b \in Nat \ {0}, a % b = 0, c % b = 0
  PROVE  (a + c) % b = 0 /\ (a - c) % b = 0
<1>1. /\ a = b * (a \div b) /\ c = b * (c \div b)
      /\ a \div b \in Int /\ c \div b \in Int
  BY DivMod
<1>2. \A q, r \in Int : b * q + b * r = b * (q + r) /\ b * q - b * r = b * (q - r)
  BY SMT
<1>3. /\ a + c = b * ((a \div b) + (c \div b)) /\ a - c = b * ((a \div b) - (c \div b))
      /\ (a \div b) + (c \div b) \in Int /\ (a \div b) - (c \div b) \in Int
  BY <1>1, <1>2
<1> QED
  BY <1>3, MultipleMod

\* Multiples of a multiple are multiples.
LEMMA MultipleOfMultiple ==
  ASSUME NEW a \in Int, NEW b \in Nat \ {0}, NEW c \in Nat \ {0}, a % b = 0, b % c = 0
  PROVE  a % c = 0
<1>1. /\ a = b * (a \div b) /\ b = c * (b \div c)
      /\ a \div b \in Int /\ b \div c \in Int
  BY DivMod
<1>2. \A q, r \in Int : (c * q) * r = c * (q * r) /\ q * r \in Int
  BY SMT
<1> DEFINE q == b \div c
           r == a \div b
<1>3. q \in Int /\ r \in Int /\ b = c * q /\ a = b * r
  BY <1>1
<1> HIDE DEF q, r
<1>4. a = c * (q * r) /\ q * r \in Int
  BY <1>2, <1>3
<1> QED
  BY <1>4, MultipleMod

\* Between two different multiples lies at least one unit.
LEMMA MultiplesApart ==
  ASSUME NEW a \in Int, NEW c \in Int, NEW b \in Nat \ {0}, a % b = 0, c % b = 0, a < c
  PROVE  a + b <= c
<1>1. (c - a) % b = 0
  BY SumOfMultiples
<1>2. c - a \in Nat /\ c - a # 0
  OBVIOUS
<1>3. c - a < b => (c - a) % b = c - a
  BY <1>2, ModBounds
<1> QED
  BY <1>1, <1>2, <1>3

\* A number put together from a quotient and a remainder comes apart again.
LEMMA DivModUnique ==
  ASSUME NEW b \in Nat \ {0}, NEW q \in Nat, NEW r \in 0..(b - 1)
  PROVE  /\ (q * b + r) \div b = q
         /\ (q * b + r) % b = r
         /\ q * b + r \in Nat
  BY SMT

\* The same for any quotient, below zero too.
LEMMA QuotientUnique ==
  ASSUME NEW b \in Nat \ {0}, NEW q \in Int, NEW r \in 0..(b - 1)
  PROVE  /\ (b * q + r) \div b = q
         /\ (b * q + r) % b = r
         /\ b * q + r \in Int
  BY SMTT(30)

\* Adding a multiple changes the quotient and not the remainder.
LEMMA ModShift ==
  ASSUME NEW b \in Nat \ {0}, NEW q \in Int, NEW z \in Int
  PROVE  /\ (b * q + z) % b = z % b
         /\ (b * q + z) \div b = q + (z \div b)
<1> DEFINE c == z \div b
           r == z % b
<1>1. z = b * c + r /\ c \in Int /\ r \in 0..(b - 1)
  BY DivMod
<1> HIDE DEF c, r
<1>2. b * q + (b * c + r) = b * (q + c) + r /\ q + c \in Int
  BY <1>1
<1>3. (b * (q + c) + r) \div b = q + c /\ (b * (q + c) + r) % b = r
  BY <1>1, <1>2, QuotientUnique
<1> QED
  BY <1>1, <1>2, <1>3 DEF c, r

\* A remainder may be taken before an addition as well as after it.
LEMMA ModSum ==
  ASSUME NEW b \in Nat \ {0}, NEW x \in Int, NEW y \in Int
  PROVE  ((x % b) + y) % b = (x + y) % b
<1> DEFINE c == x \div b
           r == x % b
<1>1. x = b * c + r /\ c \in Int /\ r \in Int
  BY DivMod
<1> HIDE DEF c, r
<1>2. r + y \in Int /\ b * c \in Int
  BY <1>1
<1>3. (b * c + (r + y)) % b = (r + y) % b
  BY <1>1, <1>2, ModShift
<1>4. b * c + (r + y) = x + y
  BY <1>1, <1>2
<1> QED
  BY <1>3, <1>4 DEF r

\* The high half of a word: taking the word's remainder first changes nothing.
LEMMA HighHalf ==
  ASSUME NEW h \in Nat \ {0}, NEW y \in Int
  PROVE  (y % (h * h)) \div h = (y \div h) % h
<1> DEFINE q == y \div h
           r == y % h
           a == q \div h
           c == q % h
<1>1. y = h * q + r /\ q \in Int /\ r \in 0..(h - 1)
  BY DivMod
<1> HIDE DEF q, r
<1>2. q = h * a + c /\ a \in Int /\ c \in 0..(h - 1)
  BY <1>1, DivMod
<1> HIDE DEF a, c
<1>3. h * c + r \in 0..(h * h - 1)
  <2>1. h * c \in Nat /\ h * h \in Nat
    BY <1>2
  <2>2. h * c + h <= h * h
    BY <1>2
  <2> QED
    BY <1>1, <2>1, <2>2
<1>4. y = (h * h) * a + (h * c + r)
  <2>1. h * (h * a + c) = (h * h) * a + h * c /\ h * c \in Int /\ (h * h) * a \in Int
    BY <1>2
  <2> QED
    BY <1>1, <1>2, <2>1
<1>5. h * h \in Nat \ {0}
  OBVIOUS
<1>6. y % (h * h) = h * c + r
  BY <1>2, <1>3, <1>4, <1>5, QuotientUnique
<1>7. (h * c + r) \div h = c
  BY <1>1, <1>2, QuotientUnique
<1> QED
  BY <1>6, <1>7 DEF c, q

\* A word is its low half and its high half.
LEMMA TwoHalves ==
  ASSUME NEW h \in Nat \ {0}, NEW w \in 0..(h * h - 1)
  PROVE  /\ w % h \in 0..(h - 1)
         /\ w \div h \in 0..(h - 1)
         /\ (w % h) + h * (w \div h) = w
<1> DEFINE q == w \div h
           r == w % h
<1>1. w = h * q + r /\ q \in Int /\ r \in 0..(h - 1) /\ w \in Nat /\ w < h * h
  BY DivMod
<1> HIDE DEF q, r
<1>2. q >= 0
  BY <1>1
<1>3. q < h
  BY <1>1
<1> QED
  BY <1>1, <1>2, <1>3 DEF q, r

=============================================================================
