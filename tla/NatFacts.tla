------------------------------- MODULE NatFacts -------------------------------
(***************************************************************************)
(* What the proofs about several modules need of natural numbers and of    *)
(* remainders by a number that is not known.                               *)
(***************************************************************************)
EXTENDS Integers, TLAPS, WellFoundedInduction

(* The induction the proofs use, by way of the least counterexample: each    *)
(* non-empty set of natural numbers has a smallest element.                  *)
LEMMA SmallestNumber ==
    ASSUME NEW T \in SUBSET Nat, T # {}
    PROVE  \E x \in T : \A y \in T : x <= y
<1> DEFINE R == OpToRel(<, Nat)
<1>1. IsWellFoundedOn(R, Nat)
  BY NatLessThanWellFounded
<1>2. \A y, x \in Nat : y < x => <<y, x>> \in R
  BY DEF OpToRel
<1> HIDE DEF R
<1>3. PICK x \in T : \A y \in T : ~(<<y, x>> \in R)
  BY <1>1, WFMin
<1>4. \A y \in T : ~(y < x)
  BY <1>2, <1>3, Zenon
<1> QED
  BY <1>4

LEMMA ModRange == ASSUME NEW m \in Nat \ {0}, NEW x \in Int PROVE x % m \in 0 .. m - 1
OBVIOUS

LEMMA DivMod ==
    ASSUME NEW m \in Nat \ {0}, NEW x \in Int
    PROVE  x \div m \in Int /\ x = m * (x \div m) + (x % m)
OBVIOUS

(* The remainder of a number less than one modulus away from the range.      *)
LEMMA ModNear ==
    ASSUME NEW m \in Nat \ {0}, NEW x \in Int, -m <= x, x < 2 * m
    PROVE  x % m = IF x < 0 THEN x + m ELSE IF x < m THEN x ELSE x - m
<1>1. ASSUME x \in 0 .. m - 1 PROVE x % m = x
  BY <1>1
<1>2. ASSUME x \in m .. 2 * m - 1 PROVE x % m = x - m
  BY <1>2
<1>3. ASSUME x \in -m .. -1 PROVE x % m = x + m
  BY <1>3
<1> QED
  BY <1>1, <1>2, <1>3

LEMMA ModUnique ==
    ASSUME NEW m \in Nat \ {0}, NEW q \in Int, NEW r \in 0 .. m - 1
    PROVE  (m * q + r) % m = r
<1> DEFINE x == m * q + r
<1>1. x \in Int
  OBVIOUS
<1>2. PICK d \in Int, s \in 0 .. m - 1 : x = m * d + s /\ s = x % m
  BY <1>1, DivMod, ModRange
<1>3. m * (q - d) = s - r
  BY <1>2
<1>4. CASE q - d >= 1
  <2>1. m * (q - d) >= m
    BY <1>4
  <2> QED
    BY <1>2, <1>3, <2>1
<1>5. CASE q - d <= -1
  <2>1. m * (q - d) <= -m
    BY <1>5
  <2> QED
    BY <1>2, <1>3, <2>1
<1>6. CASE q = d
  BY <1>2, <1>6
<1> QED
  BY <1>2, <1>4, <1>5, <1>6

(* A remainder counts up with its number, and wraps to 0.                    *)
LEMMA ModSucc ==
    ASSUME NEW m \in Nat \ {0}, NEW x \in Int
    PROVE  (x + 1) % m = IF x % m = m - 1 THEN 0 ELSE (x % m) + 1
<1>1. PICK q \in Int, r \in 0 .. m - 1 : x = m * q + r /\ r = x % m
  BY DivMod, ModRange
<1>2. CASE r = m - 1
  <2>1. x + 1 = m * (q + 1) + 0
    BY <1>1, <1>2
  <2>2. (m * (q + 1) + 0) % m = 0
    BY ModUnique
  <2> QED
    BY <1>1, <1>2, <2>1, <2>2
<1>3. CASE r # m - 1
  <2>1. x + 1 = m * q + (r + 1) /\ r + 1 \in 0 .. m - 1
    BY <1>1, <1>3
  <2>2. (m * q + (r + 1)) % m = r + 1
    BY <2>1, ModUnique
  <2> QED
    BY <1>1, <1>3, <2>1, <2>2
<1> QED
  BY <1>2, <1>3
=============================================================================
