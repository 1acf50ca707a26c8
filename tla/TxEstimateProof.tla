--------------------------- MODULE TxEstimateProof ---------------------------
(***************************************************************************)
(* Proofs about TxEstimate: for a ring of any size and sizes of any        *)
(* length, a guess covers the mean of what its identifier observed last.   *)
(***************************************************************************)
EXTENDS TxEstimate, NatFacts, SequenceTheorems

(* The ring is full when the first guess is made (both constants are ten).   *)
FullRing == Slots <= MinObservations + 1

(* The deviations of a ring fit into 64 bits. *)
Wide == Slots <= 4 * Half

-----------------------------------------------------------------------------
(* Sums *)

(* A set of numbers that holds 0 and with each number the next holds all. *)
LEMMA Induction ==
    ASSUME NEW G, 0 \in G, \A n \in Nat : n \in G => n + 1 \in G
    PROVE  \A n \in Nat : n \in G
<1> DEFINE D == Nat \ G
<1> SUFFICES ASSUME D # {} PROVE FALSE
  OBVIOUS
<1>1. PICK n \in D : \A m \in D : n <= m
  BY SmallestNumber
<1>2. CASE n = 0
  BY <1>2
<1>3. CASE n # 0
  <2>1. n - 1 \in Nat /\ n - 1 \notin D
    BY <1>1, <1>3
  <2>2. (n - 1) + 1 \in G
    BY <2>1
  <2> QED
    BY <2>2
<1> QED
  BY <1>2, <1>3

(* The equation that defines Sum. *)
IsSum(s, f, n) == s = [k \in 0 .. n |-> IF k = 0 THEN 0 ELSE s[k - 1] + f[k - 1]]

LEMMA SumExists ==
    ASSUME NEW f
    PROVE  \A n \in Nat : \E s : IsSum(s, f, n)
<1> DEFINE G == {n \in Nat : \E s : IsSum(s, f, n)}
<1>1. 0 \in G
  <2> DEFINE s == [k \in 0 .. 0 |-> 0]
  <2>1. IsSum(s, f, 0)
    BY DEF IsSum
  <2> QED
    BY <2>1
<1>2. ASSUME NEW n \in Nat, n \in G PROVE n + 1 \in G
  <2>1. PICK s : IsSum(s, f, n)
    BY <1>2
  <2> DEFINE t == [k \in 0 .. n + 1 |-> IF k = n + 1 THEN s[n] + f[n] ELSE s[k]]
  <2>2. ASSUME NEW k \in 0 .. n + 1 PROVE t[k] = IF k = 0 THEN 0 ELSE t[k - 1] + f[k - 1]
    <3>1. CASE k = n + 1
      <4>1. k # 0 /\ k - 1 = n /\ n \in 0 .. n + 1 /\ n # n + 1
        BY <3>1
      <4> QED
        BY <3>1, <4>1
    <3>2. CASE k = 0
      BY <1>2, <2>1, <3>2 DEF IsSum
    <3>3. CASE k \in 1 .. n
      <4>1. s[k] = s[k - 1] + f[k - 1]
        BY <2>1, <3>3 DEF IsSum
      <4>2. k - 1 \in 0 .. n + 1 /\ k - 1 # n + 1 /\ k # n + 1 /\ k # 0
        BY <3>3
      <4> QED
        BY <4>1, <4>2
    <3> QED
      BY <1>2, <3>1, <3>2, <3>3
  <2>3. IsSum(t, f, n + 1)
    BY <2>2 DEF IsSum
  <2> QED
    BY <2>3
<1> HIDE DEF G
<1>3. \A n \in Nat : n \in G
  BY <1>1, <1>2, Induction
<1> QED
  BY <1>3 DEF G

LEMMA SumUnique ==
    ASSUME NEW f, NEW n \in Nat, NEW s, NEW t, IsSum(s, f, n), IsSum(t, f, n)
    PROVE  s = t
<1> DEFINE G == {k \in Nat : k \in 0 .. n => s[k] = t[k]}
<1>1. 0 \in G
  BY DEF IsSum
<1>2. ASSUME NEW k \in Nat, k \in G PROVE k + 1 \in G
  <2> SUFFICES ASSUME k + 1 \in 0 .. n PROVE s[k + 1] = t[k + 1]
    OBVIOUS
  <2>1. k \in 0 .. n /\ k + 1 # 0 /\ (k + 1) - 1 = k
    OBVIOUS
  <2>2. s[k] = t[k]
    BY <1>2, <2>1
  <2>3. s[k + 1] = s[k] + f[k]
    BY <2>1 DEF IsSum
  <2>4. t[k + 1] = t[k] + f[k]
    BY <2>1 DEF IsSum
  <2> QED
    BY <2>2, <2>3, <2>4
<1> HIDE DEF G
<1>3. \A k \in Nat : k \in G
  BY <1>1, <1>2, Induction
<1>4. \A k \in 0 .. n : s[k] = t[k]
  BY <1>3 DEF G
<1> QED
  BY <1>4 DEF IsSum

LEMMA SumIs ==
    ASSUME NEW f, NEW n \in Nat, NEW s, IsSum(s, f, n)
    PROVE  Sum(f, n) = s[n]
<1>1. Sum(f, n) = (CHOOSE t : IsSum(t, f, n))[n]
  BY Zenon DEF Sum, IsSum
<1>2. IsSum(CHOOSE t : IsSum(t, f, n), f, n)
  OBVIOUS
<1>3. (CHOOSE t : IsSum(t, f, n)) = s
  BY <1>2, SumUnique
<1> QED
  BY <1>1, <1>3

(* What the loop does in one round. *)
LEMMA SumStep ==
    ASSUME NEW f
    PROVE  Sum(f, 0) = 0 /\ \A n \in Nat : Sum(f, n + 1) = Sum(f, n) + f[n]
<1>1. Sum(f, 0) = 0
  <2>1. PICK s : IsSum(s, f, 0)
    BY SumExists
  <2>2. s[0] = 0
    BY <2>1 DEF IsSum
  <2> QED
    BY <2>1, <2>2, SumIs
<1>2. ASSUME NEW n \in Nat PROVE Sum(f, n + 1) = Sum(f, n) + f[n]
  <2>1. PICK s : IsSum(s, f, n + 1)
    BY SumExists
  <2>2. \A k \in 0 .. n + 1 : s[k] = IF k = 0 THEN 0 ELSE s[k - 1] + f[k - 1]
    BY <2>1 DEF IsSum
  <2> DEFINE r == [k \in 0 .. n |-> s[k]]
  <2>3. IsSum(r, f, n)
    <3>1. ASSUME NEW k \in 0 .. n PROVE r[k] = IF k = 0 THEN 0 ELSE r[k - 1] + f[k - 1]
      <4>1. CASE k = 0
        BY <2>2, <4>1
      <4>2. CASE k # 0
        <5>1. k - 1 \in 0 .. n /\ k \in 0 .. n + 1
          BY <4>2
        <5> QED
          BY <2>2, <4>2, <5>1
      <4> QED
        BY <4>1, <4>2
    <3> QED
      BY <3>1 DEF IsSum
  <2>4. Sum(f, n) = s[n]
    <3>1. Sum(f, n) = r[n]
      BY <2>3, SumIs
    <3> QED
      BY <3>1
  <2>5. Sum(f, n + 1) = s[n + 1]
    BY <2>1, SumIs
  <2>6. s[n + 1] = s[n] + f[n]
    <3>1. n + 1 \in 0 .. n + 1 /\ n + 1 # 0 /\ (n + 1) - 1 = n
      OBVIOUS
    <3> QED
      BY <2>2, <3>1
  <2> QED
    BY <2>4, <2>5, <2>6
<1> QED
  BY <1>1, <1>2

LEMMA SumType ==
    ASSUME NEW f, NEW n \in Nat, \A k \in 0 .. n - 1 : f[k] \in Int
    PROVE  \A m \in 0 .. n : Sum(f, m) \in Int
<1> DEFINE G == {m \in Nat : m \in 0 .. n => Sum(f, m) \in Int}
<1>1. 0 \in G
  BY SumStep
<1>2. ASSUME NEW m \in Nat, m \in G PROVE m + 1 \in G
  BY <1>2, SumStep
<1> HIDE DEF G
<1>3. \A m \in Nat : m \in G
  BY <1>1, <1>2, Induction
<1> QED
  BY <1>3 DEF G

(* Sums of numbers that are each no more than c apart. *)
LEMMA SumCompare ==
    ASSUME NEW f, NEW g, NEW n \in Nat, NEW c \in Int,
           \A k \in 0 .. n - 1 : f[k] \in Int /\ g[k] \in Int /\ f[k] <= g[k] + c
    PROVE  Sum(f, n) <= Sum(g, n) + n * c
<1> DEFINE G == {m \in Nat : m \in 0 .. n => Sum(f, m) <= Sum(g, m) + m * c}
<1>0. \A m \in 0 .. n : Sum(f, m) \in Int /\ Sum(g, m) \in Int
  BY SumType
<1>1. 0 \in G
  BY SumStep
<1>2. ASSUME NEW m \in Nat, m \in G PROVE m + 1 \in G
  <2> SUFFICES ASSUME m + 1 \in 0 .. n PROVE Sum(f, m + 1) <= Sum(g, m + 1) + (m + 1) * c
    OBVIOUS
  <2>1. m \in 0 .. n /\ m \in 0 .. n - 1
    OBVIOUS
  <2>2. Sum(f, m) <= Sum(g, m) + m * c
    BY <1>2, <2>1
  <2>3. Sum(f, m + 1) = Sum(f, m) + f[m] /\ Sum(g, m + 1) = Sum(g, m) + g[m]
    BY SumStep
  <2>4. (m + 1) * c = m * c + c /\ m * c \in Int
    OBVIOUS
  <2>5. f[m] \in Int /\ g[m] \in Int /\ f[m] <= g[m] + c /\ Sum(f, m) \in Int /\ Sum(g, m) \in Int
    BY <1>0, <2>1
  <2> QED
    BY <2>2, <2>3, <2>4, <2>5
<1> HIDE DEF G
<1>3. \A m \in Nat : m \in G
  BY <1>1, <1>2, Induction
<1> QED
  BY <1>3 DEF G

LEMMA SumConstant ==
    ASSUME NEW f, NEW n \in Nat, NEW c \in Int, \A k \in 0 .. n - 1 : f[k] = c
    PROVE  Sum(f, n) = n * c
<1> DEFINE z == [k \in 0 .. n - 1 |-> 0]
           G == {m \in Nat : m \in 0 .. n => Sum(z, m) = 0}
<1>1. Sum(z, n) = 0
  <2>1. 0 \in G
    BY SumStep
  <2>2. ASSUME NEW m \in Nat, m \in G PROVE m + 1 \in G
    <3> SUFFICES ASSUME m + 1 \in 0 .. n PROVE Sum(z, m + 1) = 0
      OBVIOUS
    <3>1. m \in 0 .. n /\ z[m] = 0
      OBVIOUS
    <3> HIDE DEF z
    <3>2. Sum(z, m) = 0
      BY <2>2, <3>1
    <3>3. Sum(z, m + 1) = Sum(z, m) + z[m]
      BY SumStep
    <3> QED
      BY <3>1, <3>2, <3>3
  <2> HIDE DEF G
  <2>3. \A m \in Nat : m \in G
    BY <2>1, <2>2, Induction
  <2> QED
    BY <2>3 DEF G
<1> DEFINE d == -c
<1>2. \A k \in 0 .. n - 1 : f[k] \in Int /\ z[k] \in Int /\ f[k] <= z[k] + c /\ z[k] <= f[k] + d
  OBVIOUS
<1>5. d \in Int /\ n * d = -(n * c) /\ n * c \in Int
  OBVIOUS
<1> HIDE DEF z, d
<1>3. Sum(f, n) <= Sum(z, n) + n * c
  BY <1>2, SumCompare
<1>4. Sum(z, n) <= Sum(f, n) + n * d
  <2>1. \A k \in 0 .. n - 1 : z[k] \in Int /\ f[k] \in Int /\ z[k] <= f[k] + d
    BY <1>2
  <2>2. d \in Int
    BY <1>5
  <2> QED
    BY <2>1, <2>2, SumCompare
<1>6. Sum(f, n) \in Int
  <2>1. \A k \in 0 .. n - 1 : f[k] \in Int
    OBVIOUS
  <2>2. n \in 0 .. n
    OBVIOUS
  <2> QED
    BY <2>1, <2>2, SumType
<1> QED
  BY <1>1, <1>3, <1>4, <1>5, <1>6

(* One element is replaced. *)
LEMMA SumReplace ==
    ASSUME NEW f, NEW g, NEW n \in Nat, NEW j \in 0 .. n - 1,
           \A k \in 0 .. n - 1 : f[k] \in Int /\ g[k] \in Int /\ (k # j => g[k] = f[k])
    PROVE  Sum(g, n) = Sum(f, n) - f[j] + g[j]
<1> DEFINE G == {m \in Nat : m \in 0 .. n
                    => Sum(g, m) = Sum(f, m) + (IF j < m THEN g[j] - f[j] ELSE 0)}
<1>0. \A m \in 0 .. n : Sum(f, m) \in Int /\ Sum(g, m) \in Int
  BY SumType
<1>1. 0 \in G
  BY SumStep
<1>2. ASSUME NEW m \in Nat, m \in G PROVE m + 1 \in G
  <2> SUFFICES ASSUME m + 1 \in 0 .. n
               PROVE  Sum(g, m + 1) = Sum(f, m + 1) + (IF j < m + 1 THEN g[j] - f[j] ELSE 0)
    OBVIOUS
  <2>1. m \in 0 .. n /\ m \in 0 .. n - 1
    OBVIOUS
  <2>2. Sum(g, m) = Sum(f, m) + (IF j < m THEN g[j] - f[j] ELSE 0)
    BY <1>2, <2>1
  <2>3. Sum(f, m + 1) = Sum(f, m) + f[m] /\ Sum(g, m + 1) = Sum(g, m) + g[m]
    BY SumStep
  <2>4. f[m] \in Int /\ g[m] \in Int /\ f[j] \in Int /\ g[j] \in Int /\ (m # j => g[m] = f[m])
        /\ Sum(f, m) \in Int /\ Sum(g, m) \in Int
    BY <1>0, <2>1
  <2> QED
    BY <2>2, <2>3, <2>4
<1> HIDE DEF G
<1>3. \A m \in Nat : m \in G
  BY <1>1, <1>2, Induction
<1>4. Sum(g, n) = Sum(f, n) + (g[j] - f[j])
  BY <1>3 DEF G
<1> QED
  BY <1>0, <1>4

(* No element exceeds the sum of numbers none of which is negative. *)
LEMMA SumElement ==
    ASSUME NEW n \in Nat, NEW f \in [0 .. n - 1 -> Nat], NEW j \in 0 .. n - 1
    PROVE  f[j] <= Sum(f, n)
<1> DEFINE g == [f EXCEPT ![j] = 0]
           z == [k \in 0 .. n - 1 |-> 0]
<1>1. \A k \in 0 .. n - 1 : f[k] \in Int /\ g[k] \in Int /\ (k # j => g[k] = f[k])
  OBVIOUS
<1>2. \A k \in 0 .. n - 1 : z[k] \in Int /\ g[k] \in Int /\ z[k] <= g[k] + 0
  OBVIOUS
<1>3. \A k \in 0 .. n - 1 : z[k] = 0
  OBVIOUS
<1>4. g[j] = 0 /\ n * 0 = 0 /\ 0 \in Int /\ n \in 0 .. n
  OBVIOUS
<1> HIDE DEF g, z
<1>5. Sum(g, n) = Sum(f, n) - f[j] + g[j]
  BY <1>1, SumReplace
<1>6. Sum(z, n) <= Sum(g, n) + n * 0
  BY <1>2, <1>4, SumCompare
<1>7. Sum(z, n) = n * 0
  BY <1>3, <1>4, SumConstant
<1>8. Sum(f, n) \in Int /\ Sum(g, n) \in Int
  BY <1>1, <1>4, SumType
<1> QED
  BY <1>4, <1>5, <1>6, <1>7, <1>8

(* One element is put in front. *)
LEMMA SumShift ==
    ASSUME NEW f, NEW g, NEW n \in Nat, g[0] \in Int,
           \A k \in 0 .. n - 1 : f[k] \in Int /\ g[k + 1] = f[k]
    PROVE  Sum(g, n + 1) = g[0] + Sum(f, n)
<1> DEFINE G == {m \in Nat : m \in 0 .. n => Sum(g, m + 1) = g[0] + Sum(f, m)}
<1>0. \A m \in 0 .. n : Sum(f, m) \in Int
  BY SumType
<1>1. 0 \in G
  <2>1. Sum(g, 0 + 1) = Sum(g, 0) + g[0] /\ Sum(g, 0) = 0 /\ Sum(f, 0) = 0
    BY SumStep
  <2> QED
    BY <2>1
<1>2. ASSUME NEW m \in Nat, m \in G PROVE m + 1 \in G
  <2> SUFFICES ASSUME m + 1 \in 0 .. n PROVE Sum(g, (m + 1) + 1) = g[0] + Sum(f, m + 1)
    OBVIOUS
  <2>1. m \in 0 .. n /\ m \in 0 .. n - 1
    OBVIOUS
  <2>2. Sum(g, m + 1) = g[0] + Sum(f, m)
    BY <1>2, <2>1
  <2>3. Sum(g, (m + 1) + 1) = Sum(g, m + 1) + g[m + 1] /\ Sum(f, m + 1) = Sum(f, m) + f[m]
    BY SumStep
  <2>4. g[m + 1] = f[m] /\ f[m] \in Int /\ Sum(f, m) \in Int
    BY <1>0, <2>1
  <2> QED
    BY <2>2, <2>3, <2>4
<1> HIDE DEF G
<1>3. \A m \in Nat : m \in G
  BY <1>1, <1>2, Induction
<1> QED
  BY <1>3 DEF G
-----------------------------------------------------------------------------
(* The ring *)

Last(r) == [i \in 0 .. Len(r) - 1 |-> r[i + 1]]

Pushed(r, ticks) ==
    [i \in 1 .. IF Len(r) < Slots THEN Len(r) + 1 ELSE Slots |-> IF i = 1 THEN ticks ELSE r[i - 1]]

(* The ring of e holds the observations r, the newest of them just before    *)
(* its counter, and zeroes where nothing was observed yet.                   *)
Ring(e, r) ==
    /\ r \in Seq(Nat)
    /\ Len(r) = IF e.counter < Slots THEN e.counter ELSE Slots
    /\ \A i \in 1 .. Len(r) : r[i] = e.observations[(e.counter - i) % Slots]
    /\ \A k \in 0 .. Slots - 1 : e.counter <= k => e.observations[k] = 0
    /\ Sum(e.observations, Slots) = Sum(Last(r), Len(r))

EntryType == [ewma : Nat, observations : [0 .. Slots - 1 -> Nat], counter : Nat]

LEMMA SlotsTypes == Slots \in Nat \ {0} /\ MinObservations \in Nat
BY SlotsAssumption

LEMMA ModApart ==
    ASSUME NEW m \in Nat \ {0}, NEW x \in Int, NEW j \in 1 .. m - 1
    PROVE  (x - j) % m # x % m
<1> SUFFICES ASSUME (x - j) % m = x % m PROVE FALSE
  OBVIOUS
<1>1. PICK q \in Int : x = m * q + (x % m)
  BY DivMod
<1>2. PICK p \in Int : x - j = m * p + ((x - j) % m)
  <2>1. x - j \in Int
    OBVIOUS
  <2> QED
    BY <2>1, DivMod
<1>3. x % m \in Int
  BY ModRange
<1> DEFINE r == x % m
<1>4. x = m * q + r /\ x - j = m * p + r /\ r \in Int
  BY <1>1, <1>2, <1>3
<1> HIDE DEF r
<1>5. j = m * (q - p)
  BY <1>4
<1>6. q - p >= 1 \/ q - p <= 0
  OBVIOUS
<1> DEFINE t == q - p
<1>7. t \in Int /\ j = m * t /\ (t >= 1 \/ t <= 0)
  BY <1>5, <1>6
<1> HIDE DEF t
<1>8. t >= 1 => m * t >= m
  BY <1>7
<1>9. t <= 0 => m * t <= 0
  BY <1>7
<1> QED
  BY <1>7, <1>8, <1>9

(* The latest observations fill every slot. *)
LEMMA SlotIsRecent ==
    ASSUME NEW c \in Nat, NEW k \in 0 .. Slots - 1
    PROVE  \E i \in 1 .. Slots : (c - i) % Slots = k
<1> DEFINE s == (c - 1 - k) % Slots
<1>1. Slots \in Nat \ {0} /\ c - 1 - k \in Int
  BY SlotsTypes
<1>2. s \in 0 .. Slots - 1
  BY <1>1, ModRange
<1>3. PICK q \in Int : c - 1 - k = Slots * q + s
  BY <1>1, DivMod
<1> HIDE DEF s
<1>4. c - (s + 1) = Slots * q + k
  <2>1. Slots * q \in Int
    BY <1>1
  <2> QED
    BY <1>1, <1>2, <1>3, <2>1
<1>5. (c - (s + 1)) % Slots = k
  BY <1>1, <1>4, ModUnique
<1>6. s + 1 \in 1 .. Slots
  BY <1>1, <1>2
<1> QED
  BY <1>5, <1>6

LEMMA PushedIs ==
    ASSUME NEW r \in Seq(Nat), NEW ticks \in Nat, Len(r) <= Slots
    PROVE  /\ Pushed(r, ticks) \in Seq(Nat)
           /\ Len(Pushed(r, ticks)) = IF Len(r) < Slots THEN Len(r) + 1 ELSE Slots
           /\ Pushed(r, ticks)[1] = ticks
           /\ \A i \in 2 .. Len(Pushed(r, ticks)) : Pushed(r, ticks)[i] = r[i - 1]
<1> DEFINE n == IF Len(r) < Slots THEN Len(r) + 1 ELSE Slots
<1>1. n \in Nat \ {0} /\ n <= Len(r) + 1 /\ Len(r) \in Nat
  BY SlotsTypes
<1>2. \A i \in 1 .. Len(r) : r[i] \in Nat
  OBVIOUS
<1>3. Pushed(r, ticks) = [i \in 1 .. n |-> IF i = 1 THEN ticks ELSE r[i - 1]]
  BY DEF Pushed
<1> HIDE DEF n
<1>4. \A i \in 1 .. n : (IF i = 1 THEN ticks ELSE r[i - 1]) \in Nat
  BY <1>1, <1>2
<1>5. Pushed(r, ticks) \in [1 .. n -> Nat]
  BY <1>3, <1>4
<1>6. Pushed(r, ticks) \in Seq(Nat) /\ Len(Pushed(r, ticks)) = n
  <2>1. Pushed(r, ticks) \in Seq(Nat)
    BY <1>1, <1>5, SeqDef
  <2>2. DOMAIN Pushed(r, ticks) = 1 .. n
    BY <1>5
  <2> QED
    BY <1>1, <2>1, <2>2, LenProperties
<1>7. Pushed(r, ticks)[1] = ticks
  BY <1>1, <1>3
<1>8. \A i \in 2 .. n : Pushed(r, ticks)[i] = r[i - 1]
  BY <1>1, <1>3
<1> QED
  BY <1>6, <1>7, <1>8 DEF n

LEMMA RingKeeps ==
    ASSUME NEW e \in EntryType, NEW r, NEW ticks \in Nat, Ring(e, r)
    PROVE  Ring(Observed(e, ticks), Pushed(r, ticks))
<1> DEFINE c == e.counter
           o == e.observations
           x == c % Slots
           p == [o EXCEPT ![x] = ticks]
           new == Pushed(r, ticks)
<1>1. c \in Nat /\ o \in [0 .. Slots - 1 -> Nat] /\ Slots \in Nat \ {0}
  BY SlotsTypes DEF EntryType
<1>2. x \in 0 .. Slots - 1 /\ (c < Slots => x = c)
  <2>1. ASSUME NEW n \in Nat PROVE n % Slots \in 0 .. Slots - 1 /\ (n < Slots => n % Slots = n)
    <3>1. n % Slots \in 0 .. Slots - 1
      BY <1>1, ModRange
    <3>2. n < Slots => n % Slots = n
      <4> SUFFICES ASSUME n < Slots PROVE n % Slots = n
        OBVIOUS
      <4>1. n \in Int /\ -Slots <= n /\ n < 2 * Slots /\ ~(n < 0)
        BY <1>1
      <4> QED
        BY <1>1, <4>1, ModNear
    <3> QED
      BY <3>1, <3>2
  <2> QED
    BY <1>1, <2>1
<1>3. /\ r \in Seq(Nat) /\ Len(r) \in Nat
      /\ Len(r) = IF c < Slots THEN c ELSE Slots
      /\ \A i \in 1 .. Len(r) : r[i] = o[(c - i) % Slots] /\ r[i] \in Nat
      /\ \A k \in 0 .. Slots - 1 : c <= k => o[k] = 0
      /\ Sum(o, Slots) = Sum(Last(r), Len(r))
  BY DEF Ring
<1>4. /\ new \in Seq(Nat) /\ Len(new) = IF Len(r) < Slots THEN Len(r) + 1 ELSE Slots
      /\ new[1] = ticks /\ \A i \in 2 .. Len(new) : new[i] = r[i - 1]
  BY <1>1, <1>3, PushedIs
<1>5. /\ Observed(e, ticks).counter = c + 1 /\ Observed(e, ticks).observations = p
  BY DEF Observed
<1>6. p \in [0 .. Slots - 1 -> Nat] /\ p[x] = ticks /\ \A k \in 0 .. Slots - 1 : k # x => p[k] = o[k]
  BY <1>1, <1>2
<1> HIDE DEF c, o, x, p, new
<1>7. Len(new) = IF c + 1 < Slots THEN c + 1 ELSE Slots
  BY <1>1, <1>3, <1>4
<1>8. ASSUME NEW i \in 1 .. Len(new) PROVE new[i] = p[(c + 1 - i) % Slots]
  <2>1. CASE i = 1
    <3>1. c + 1 - i = c
      BY <1>1, <2>1
    <3> QED
      BY <1>4, <1>6, <2>1, <3>1 DEF x
  <2>2. CASE i # 1
    <3> DEFINE j == i - 1
    <3>1. j \in 1 .. Slots - 1 /\ j \in 1 .. Len(r) /\ i \in 2 .. Len(new) /\ c + 1 - i = c - j
      BY <1>1, <1>3, <1>4, <2>2
    <3> HIDE DEF j
    <3>2. new[i] = o[(c - j) % Slots]
      BY <1>3, <1>4, <3>1 DEF j
    <3>3. (c - j) % Slots # x /\ (c - j) % Slots \in 0 .. Slots - 1
      <4>1. c \in Int /\ c - j \in Int
        BY <1>1, <3>1
      <4> QED
        BY <1>1, <3>1, <4>1, ModApart, ModRange DEF x
    <3> QED
      BY <1>6, <3>1, <3>2, <3>3
  <2> QED
    BY <2>1, <2>2
<1>9. \A k \in 0 .. Slots - 1 : c + 1 <= k => p[k] = 0
  BY <1>1, <1>2, <1>3, <1>6
<1>10. Sum(p, Slots) = Sum(Last(new), Len(new))
  <2>1. Sum(p, Slots) = Sum(o, Slots) - o[x] + ticks
    <3>1. \A k \in 0 .. Slots - 1 : o[k] \in Int /\ p[k] \in Int /\ (k # x => p[k] = o[k])
      BY <1>1, <1>6
    <3>2. Sum(p, Slots) = Sum(o, Slots) - o[x] + p[x]
      BY <1>1, <1>2, <3>1, SumReplace
    <3> QED
      BY <1>6, <3>2
  <2> DEFINE n == Len(new) - 1
             f == Last(r)
             g == Last(new)
  <2>2. n \in Nat /\ n + 1 = Len(new) /\ n <= Len(r)
    BY <1>1, <1>3, <1>4
  <2>3. g[0] = ticks /\ \A k \in 0 .. n - 1 : f[k] \in Int /\ g[k + 1] = f[k]
    <3>1. g[0] = ticks
      <4>1. 0 \in 0 .. Len(new) - 1 /\ 0 + 1 = 1
        BY <2>2
      <4> QED
        BY <1>4, <4>1 DEF Last
    <3>2. ASSUME NEW k \in 0 .. n - 1 PROVE f[k] \in Int /\ g[k + 1] = f[k]
      <4>1. /\ k \in 0 .. Len(r) - 1 /\ k + 1 \in 1 .. Len(r)
            /\ k + 1 \in 0 .. Len(new) - 1 /\ (k + 1) + 1 \in 2 .. Len(new) /\ ((k + 1) + 1) - 1 = k + 1
        BY <1>3, <2>2
      <4>2. f[k] = r[k + 1] /\ g[k + 1] = new[(k + 1) + 1]
        BY <4>1 DEF Last
      <4>3. new[(k + 1) + 1] = r[k + 1] /\ r[k + 1] \in Nat
        BY <1>3, <1>4, <4>1
      <4> QED
        BY <4>2, <4>3
    <3> QED
      BY <3>1, <3>2
  <2>4. Len(r) = n \/ (Len(r) = n + 1 /\ f[n] = r[Len(r)])
    BY <1>1, <1>3, <1>4, <2>2 DEF Last
  <2> HIDE DEF n, f, g
  <2>5. Sum(g, n + 1) = ticks + Sum(f, n)
    <3>1. g[0] \in Int /\ n \in Nat /\ \A k \in 0 .. n - 1 : f[k] \in Int /\ g[k + 1] = f[k]
      BY <2>2, <2>3
    <3>2. Sum(g, n + 1) = g[0] + Sum(f, n)
      BY <3>1, SumShift
    <3> QED
      BY <2>3, <3>2
  <2>6. Sum(f, n) \in Int
    <3>1. n \in Nat /\ n \in 0 .. n /\ \A k \in 0 .. n - 1 : f[k] \in Int
      BY <2>2, <2>3
    <3> QED
      BY <3>1, SumType
  <2>7. CASE c < Slots
    <3>1. o[x] = 0 /\ Len(r) = n
      BY <1>1, <1>2, <1>3, <1>4, <2>2, <2>7
    <3>2. Sum(o, Slots) = Sum(f, n)
      BY <1>3, <3>1 DEF f
    <3> QED
      BY <2>1, <2>2, <2>5, <2>6, <3>1, <3>2 DEF g
  <2>8. CASE ~(c < Slots)
    <3>1. Len(r) = Slots /\ Len(r) = n + 1 /\ f[n] = r[Slots]
      BY <1>1, <1>3, <1>4, <2>2, <2>4, <2>8
    <3>2. r[Slots] = o[(c - Slots) % Slots]
      BY <1>1, <1>3, <3>1
    <3>3. (c - Slots) % Slots = x
      <4>1. PICK q \in Int : c = Slots * q + x
        <5>1. c \in Int
          BY <1>1
        <5> QED
          BY <1>1, <5>1, DivMod DEF x
      <4>2. c - Slots = Slots * (q - 1) + x /\ q - 1 \in Int
        BY <1>1, <1>2, <4>1
      <4> QED
        BY <1>1, <1>2, <4>2, ModUnique
    <3>4. Sum(f, n + 1) = Sum(f, n) + f[n]
      BY <2>2, SumStep
    <3>5. Sum(o, Slots) = Sum(f, n) + o[x]
      BY <1>3, <3>1, <3>2, <3>3, <3>4 DEF f
    <3>6. o[x] \in Int
      BY <1>1, <1>2
    <3> QED
      BY <2>1, <2>2, <2>5, <2>6, <3>5, <3>6 DEF g
  <2> QED
    BY <2>7, <2>8
<1> DEFINE e2 == Observed(e, ticks)
<1>11. e2.counter = c + 1 /\ e2.observations = p
  BY <1>5
<1> HIDE DEF e2
<1>12. Ring(e2, new)
  <2>1. ASSUME NEW i \in 1 .. Len(new)
        PROVE  new[i] = e2.observations[(e2.counter - i) % Slots]
    <3>1. new[i] = p[(c + 1 - i) % Slots]
      BY <1>8
    <3>2. e2.counter - i = c + 1 - i
      BY <1>1, <1>11
    <3> QED
      BY <1>11, <3>1, <3>2
  <2>2. \A k \in 0 .. Slots - 1 : e2.counter <= k => e2.observations[k] = 0
    BY <1>9, <1>11
  <2>3. Sum(e2.observations, Slots) = Sum(Last(new), Len(new))
    BY <1>10, <1>11
  <2>4. Len(new) = IF e2.counter < Slots THEN e2.counter ELSE Slots
    BY <1>7, <1>11
  <2> QED
    BY <1>4, <2>1, <2>2, <2>3, <2>4 DEF Ring
<1> QED
  BY <1>12 DEF e2, new
-----------------------------------------------------------------------------
(* The invariant *)

LEMMA EntryInRange ==
    ASSUME NEW id
    PROVE  Entry(id) \in 0 .. Entries - 1 /\ (id # NoIdentifier => Entry(id) # 0)
<1> DEFINE b == Byte(id.byte1 \cap id.byte2)
<1>1. b \in Nat
  BY DEF Byte
<1> HIDE DEF b
<1>2. Entries - 1 \in Nat \ {0}
  BY EntriesAssumption
<1>3. b % (Entries - 1) \in 0 .. (Entries - 1) - 1
  <2> DEFINE m == Entries - 1
  <2>1. m \in Nat \ {0} /\ b \in Int
    BY <1>1, <1>2
  <2> HIDE DEF m
  <2>2. b % m \in 0 .. m - 1
    BY <2>1, ModRange
  <2> QED
    BY <2>2 DEF m
<1>4. Entry(id) = IF id = NoIdentifier THEN 0 ELSE (b % (Entries - 1)) + 1
  BY DEF Entry, b
<1> QED
  BY <1>2, <1>3, <1>4, EntriesAssumption

(* An identifier that has its entry for itself finds in the ring what it     *)
(* observed.                                                                 *)
Rings == \A id \in Identifiers : Alone(id) => Ring(entries[Entry(id)], recent[id])

Histories == recent \in [Identifiers -> Seq(Nat)]

EInv == TypeOK /\ Histories /\ Rings

LEMMA EntryTypes ==
    ASSUME TypeOK
    PROVE  entries \in [0 .. Entries - 1 -> EntryType]
<1>1. Sizes \cup {0} \subseteq Nat /\ 0 .. MaxObservations \subseteq Nat
  BY SizesAssumption, MaxObservationsAssumption
<1> QED
  BY <1>1 DEF TypeOK, EntryType

LEMMA EInvInit == Init => EInv
<1> SUFFICES ASSUME Init PROVE EInv
  OBVIOUS
<1> DEFINE zeroes == [i \in 0 .. Slots - 1 |-> 0]
           empty  == [ewma |-> 0, observations |-> zeroes, counter |-> 0]
<1>1. entries = [n \in 0 .. Entries - 1 |-> empty] /\ recent = [id \in Identifiers |-> <<>>]
  BY DEF Init
<1>2. TypeOK
  <2>1. Len(<<>>) <= Slots /\ 0 \in 0 .. MaxObservations /\ 0 \in Nat
    BY SlotsTypes, MaxObservationsAssumption
  <2> QED
    BY <1>1, <2>1 DEF TypeOK
<1>3. Histories
  BY <1>1 DEF Histories
<1>4. Ring(empty, <<>>)
  <2>1. \A k \in 0 .. Slots - 1 : zeroes[k] = 0
    OBVIOUS
  <2>2. Slots * 0 = 0 /\ 0 < Slots /\ Slots \in Nat
    BY SlotsTypes
  <2>3. empty.counter = 0 /\ empty.observations = zeroes
    OBVIOUS
  <2> HIDE DEF zeroes, empty
  <2>4. Sum(zeroes, Slots) = 0
    BY <2>1, <2>2, SumConstant
  <2>5. Sum(Last(<<>>), 0) = 0
    BY SumStep
  <2>6. <<>> \in Seq(Nat) /\ Len(<<>>) = 0
    OBVIOUS
  <2> QED
    BY <2>1, <2>2, <2>3, <2>4, <2>5, <2>6 DEF Ring
<1> HIDE DEF empty
<1>5. Rings
  BY <1>1, <1>4, EntryInRange DEF Rings
<1> QED
  BY <1>2, <1>3, <1>5 DEF EInv

(* One of two identifiers that share an entry is not alone in it. *)
LEMMA AloneApart ==
    ASSUME NEW id \in Identifiers, NEW other \in Identifiers, other # id, Alone(id)
    PROVE  Entry(other) # Entry(id)
<1>1. CASE id = NoIdentifier
  <2>1. Entry(id) = 0
    BY <1>1 DEF Entry
  <2> QED
    BY <1>1, <2>1, EntryInRange
<1>2. CASE id # NoIdentifier
  BY <1>2 DEF Alone
<1> QED
  BY <1>1, <1>2

LEMMA EInvStep == EInv /\ [Next]_vars => EInv'
<1> SUFFICES ASSUME EInv, [Next]_vars PROVE EInv'
  OBVIOUS
<1>0. TypeOK /\ Histories /\ Rings
  BY DEF EInv
<1>1. CASE UNCHANGED vars
  BY <1>0, <1>1 DEF vars, EInv, TypeOK, Histories, Rings
<1>2. ASSUME NEW id \in Identifiers, NEW ticks \in Sizes, AddObservation(id, ticks)
      PROVE  EInv'
  <2> DEFINE n == Entry(id)
             e == entries[n]
             f == [k \in 0 .. Entries - 1 |-> entries[k].counter]
  <2>1. /\ Sum(f, Entries) < MaxObservations
        /\ entries' = [entries EXCEPT ![n] = Observed(e, ticks)]
        /\ recent' = [recent EXCEPT ![id] = Pushed(recent[id], ticks)]
    BY <1>2 DEF AddObservation, Pushed
  <2>2. n \in 0 .. Entries - 1
    BY EntryInRange
  <2>3. ticks \in Nat /\ Entries \in Nat
    BY SizesAssumption, EntriesAssumption
  <2>4. entries \in [0 .. Entries - 1 -> EntryType] /\ e \in EntryType
    BY <1>0, <2>2, EntryTypes
  <2>5. e.counter \in Nat /\ e.counter < MaxObservations
    <3>1. f \in [0 .. Entries - 1 -> Nat] /\ f[n] = e.counter
      BY <2>2, <2>4 DEF EntryType
    <3> HIDE DEF f, e
    <3>2. f[n] <= Sum(f, Entries)
      BY <2>2, <2>3, <3>1, SumElement
    <3>3. Sum(f, Entries) \in Int
      <4>1. \A k \in 0 .. Entries - 1 : f[k] \in Int
        BY <3>1
      <4> QED
        BY <2>3, <4>1, SumType
    <3> QED
      BY <2>1, <2>2, <3>1, <3>2, <3>3, MaxObservationsAssumption
  <2>6. recent[id] \in Seq(Nat) /\ Len(recent[id]) <= Slots
    BY <1>0 DEF Histories, TypeOK
  <2>7. Pushed(recent[id], ticks) \in Seq(Nat) /\ Len(Pushed(recent[id], ticks)) <= Slots
    BY <2>3, <2>6, PushedIs, SlotsTypes
  <2>8. Histories'
    BY <1>0, <2>1, <2>7 DEF Histories
  <2>9. TypeOK'
    <3>1. Observed(e, ticks) \in [ewma : Nat, observations : [0 .. Slots - 1 -> Sizes \cup {0}],
                                  counter : 0 .. MaxObservations]
      <4>1. e.ewma \in Nat /\ e.observations \in [0 .. Slots - 1 -> Sizes \cup {0}]
        BY <1>0, <2>2 DEF TypeOK
      <4>2. Ewma(e.ewma, ticks) \in Nat
        BY <2>3, <4>1 DEF Ewma
      <4>3. [e.observations EXCEPT ![e.counter % Slots] = ticks] \in [0 .. Slots - 1 -> Sizes \cup {0}]
        BY <4>1
      <4>4. e.counter + 1 \in 0 .. MaxObservations
        BY <2>5, MaxObservationsAssumption
      <4> HIDE DEF e
      <4> QED
        BY <4>2, <4>3, <4>4 DEF Observed
    <3>2. \A other \in Identifiers : Len(recent'[other]) <= Slots
      BY <1>0, <2>1, <2>7 DEF TypeOK, Histories
    <3> HIDE DEF e
    <3>3. entries' \in [0 .. Entries - 1 -> [ewma : Nat, observations : [0 .. Slots - 1 -> Sizes \cup {0}],
                                             counter : 0 .. MaxObservations]]
      BY <1>0, <2>1, <3>1 DEF TypeOK
    <3> QED
      BY <3>2, <3>3 DEF TypeOK
  <2>10. Rings'
    <3> SUFFICES ASSUME NEW other \in Identifiers, Alone(other)
                 PROVE  Ring(entries'[Entry(other)], recent'[other])
      BY DEF Rings
    <3>1. Ring(entries[Entry(other)], recent[other])
      BY <1>0 DEF Rings
    <3>2. CASE other = id
      <4>1. Ring(Observed(e, ticks), Pushed(recent[id], ticks))
        BY <2>3, <2>4, <3>1, <3>2, RingKeeps
      <4>2. entries'[n] = Observed(e, ticks) /\ recent'[id] = Pushed(recent[id], ticks)
        BY <1>0, <2>1, <2>2, <2>4 DEF Histories
      <4> QED
        BY <3>2, <4>1, <4>2
    <3>3. CASE other # id
      <4>1. Entry(other) # n
        BY <3>3, AloneApart
      <4>2. Entry(other) \in 0 .. Entries - 1
        BY EntryInRange
      <4>3. entries'[Entry(other)] = entries[Entry(other)]
        BY <2>1, <2>4, <4>1, <4>2
      <4>4. recent'[other] = recent[other]
        BY <1>0, <2>1, <3>3 DEF Histories
      <4> QED
        BY <3>1, <4>3, <4>4
    <3> QED
      BY <3>2, <3>3
  <2> QED
    BY <2>8, <2>9, <2>10 DEF EInv
<1> QED
  BY <1>1, <1>2 DEF Next
-----------------------------------------------------------------------------
(* The guess *)

Deviation(e) == [i \in 0 .. Slots - 1 |-> AbsInt(e.observations[i] - e.ewma)]

LEMMA AbsIs ==
    ASSUME NEW d \in 1 - Half .. Half - 1
    PROVE  AbsInt(d) = IF d < 0 THEN -d ELSE d
<1> DEFINE x == d + Half
           m == 2 * Half
<1>1. Half \in Nat \ {0}
  BY SizesAssumption
<1>2. m \in Nat \ {0} /\ x \in Int /\ 0 <= x /\ x < m /\ -m <= x /\ x < 2 * m
  BY <1>1
<1>3. AbsInt(d) = LET i == (x % m) - Half IN IF i < 0 /\ i # -Half THEN -i ELSE i
  BY DEF AbsInt
<1> HIDE DEF x, m
<1>4. x % m = x
  BY <1>2, ModNear
<1> QED
  BY <1>1, <1>3, <1>4 DEF x

LEMMA NoWrap ==
    ASSUME Wide, NEW t \in Nat, t <= Slots * (Half - 1)
    PROVE  t % (4 * Half * Half) = t
<1> DEFINE m == 4 * Half * Half
           h == Half - 1
<1>1. Half \in Nat \ {0} /\ Slots \in Nat \ {0} /\ Slots <= 4 * Half
  BY SizesAssumption, SlotsTypes DEF Wide
<1>2. h \in Nat
  BY <1>1
<1>3. Slots * h <= 4 * Half * h
  BY <1>1, <1>2
<1>4. 4 * Half * h = m - 4 * Half
  BY <1>1
<1>5. m \in Nat /\ Slots * h \in Nat /\ 4 * Half \in Nat \ {0}
  BY <1>1, <1>2
<1>6. t <= Slots * h
  OBVIOUS
<1> HIDE DEF m, h
<1>7. t < m
  BY <1>3, <1>4, <1>5, <1>6
<1>8. m \in Nat \ {0} /\ -m <= t /\ t < 2 * m
  BY <1>5, <1>7
<1>9. t % m = t
  BY <1>7, <1>8, ModNear
<1> QED
  BY <1>9 DEF m

LEMMA GuessIs ==
    ASSUME EInv, FullRing, Wide, NEW id \in Guessed
    PROVE  LET e == entries[Entry(id)]
               r == recent[id]
           IN  /\ id \in Identifiers /\ e \in EntryType /\ r \in Seq(Nat) /\ Len(r) = Slots
               /\ \A k \in 0 .. Slots - 1 :
                     /\ \E i \in 1 .. Slots : e.observations[k] = r[i]
                     /\ Deviation(e)[k] = IF e.observations[k] < e.ewma THEN e.ewma - e.observations[k]
                                          ELSE e.observations[k] - e.ewma
               /\ Sum(Deviation(e), Slots) \in Nat
               /\ Guess(id) = e.ewma + Sum(Deviation(e), Slots) \div Slots
               /\ Sum(e.observations, Slots) = Sum(Last(r), Len(r))
<1> DEFINE e == entries[Entry(id)]
           r == recent[id]
           a == Deviation(e)
<1>0. TypeOK /\ Histories /\ Rings
  BY DEF EInv
<1>1. /\ id \in Identifiers /\ Alone(id) /\ Guess(id) # NoGuess
      /\ \A i \in DOMAIN r : r[i] - e.ewma \in 1 - Half .. Half - 1
  BY DEF Guessed
<1>2. e \in EntryType /\ r \in Seq(Nat) /\ Ring(e, r)
  BY <1>0, <1>1, EntryInRange, EntryTypes DEF Histories, Rings
<1>3. Guess(id) = IF e.counter > MinObservations
                  THEN e.ewma + (Sum(a, Slots) % (4 * Half * Half)) \div Slots
                  ELSE NoGuess
  BY DEF Guess, GuessOf, Deviation
<1> HIDE DEF e, r, a
<1>4. e.ewma \in Nat /\ e.observations \in [0 .. Slots - 1 -> Nat] /\ e.counter \in Nat
  BY <1>2 DEF EntryType
<1>5. e.counter > MinObservations /\ Slots <= e.counter
  BY <1>1, <1>3, <1>4, SlotsTypes DEF FullRing
<1>6. Len(r) = Slots /\ DOMAIN r = 1 .. Slots
  BY <1>2, <1>4, <1>5, SlotsTypes DEF Ring
<1>7. ASSUME NEW k \in 0 .. Slots - 1
      PROVE  /\ \E i \in 1 .. Slots : e.observations[k] = r[i]
             /\ a[k] = IF e.observations[k] < e.ewma THEN e.ewma - e.observations[k]
                       ELSE e.observations[k] - e.ewma
             /\ a[k] \in 0 .. Half - 1
             /\ e.observations[k] <= a[k] + e.ewma
  <2>1. PICK i \in 1 .. Slots : (e.counter - i) % Slots = k
    BY <1>4, SlotIsRecent
  <2>2. r[i] = e.observations[k]
    BY <1>2, <1>6, <2>1 DEF Ring
  <2> DEFINE d == e.observations[k] - e.ewma
  <2>3. d \in 1 - Half .. Half - 1 /\ a[k] = AbsInt(d)
    BY <1>1, <1>6, <2>2 DEF a, Deviation
  <2>4. a[k] = IF d < 0 THEN -d ELSE d
    BY <2>3, AbsIs
  <2>5. e.observations[k] \in Nat
    BY <1>4
  <2> QED
    BY <1>4, <2>2, <2>3, <2>4, <2>5, SizesAssumption
<1>8. Sum(a, Slots) \in Nat /\ Sum(a, Slots) <= Slots * (Half - 1)
  <2> DEFINE h == Half - 1
             z == [k \in 0 .. Slots - 1 |-> 0]
  <2>1. Slots \in Nat /\ Slots \in 0 .. Slots /\ h \in Int
    BY SlotsTypes, SizesAssumption
  <2>2. \A k \in 0 .. Slots - 1 : a[k] \in Int /\ 0 <= a[k] /\ a[k] <= h
    BY <1>7, SizesAssumption
  <2>3. \A k \in 0 .. Slots - 1 : z[k] = 0 /\ z[k] \in Int
    OBVIOUS
  <2> HIDE DEF h, z
  <2>4. Sum(z, Slots) = Slots * 0
    BY <2>1, <2>3, SumConstant
  <2>5. Sum(a, Slots) \in Int
    BY <2>1, <2>2, SumType
  <2>6. Sum(z, Slots) <= Sum(a, Slots) + Slots * 0
    <3>1. \A k \in 0 .. Slots - 1 : z[k] \in Int /\ a[k] \in Int /\ z[k] <= a[k] + 0
      BY <2>2, <2>3
    <3> QED
      BY <2>1, <3>1, SumCompare
  <2>7. Sum(a, Slots) <= Sum(z, Slots) + Slots * h
    <3>1. \A k \in 0 .. Slots - 1 : a[k] \in Int /\ z[k] \in Int /\ a[k] <= z[k] + h
      BY <2>1, <2>2, <2>3
    <3> QED
      BY <2>1, <3>1, SumCompare
  <2>8. Slots * 0 = 0 /\ Slots * h \in Int
    BY <2>1
  <2>9. Sum(a, Slots) <= Slots * h
    BY <2>4, <2>5, <2>7, <2>8
  <2> QED
    BY <2>4, <2>5, <2>6, <2>8, <2>9 DEF h
<1>9. Guess(id) = e.ewma + Sum(a, Slots) \div Slots
  BY <1>3, <1>5, <1>8, NoWrap
<1>10. Sum(e.observations, Slots) = Sum(Last(r), Len(r))
  BY <1>2 DEF Ring
<1> QED
  BY <1>1, <1>2, <1>6, <1>7, <1>8, <1>9, <1>10 DEF e, r, a
-----------------------------------------------------------------------------
(* The theorems. *)

LEMMA EInvAlways == Spec => []EInv
BY EInvInit, EInvStep, PTL DEF Spec

(* The counters, the averages and the ring stay in their types               *)
(* (tx_estimate_add_observation).                                            *)
THEOREM EstimateTypeCorrect == Spec => []TypeOK
<1>1. EInv => TypeOK
  BY DEF EInv
<1> QED
  BY <1>1, EInvAlways, PTL

(* A guess covers the mean of what its identifier observed last, for every   *)
(* ring, every number of entries and every size                              *)
(* (tx_estimate_next_observation_guess).                                     *)
THEOREM GuessCovers ==
    ASSUME FullRing, Wide
    PROVE  Spec => []GuessCoversMean
<1>1. EInv => GuessCoversMean
  <2> SUFFICES ASSUME EInv, NEW id \in Guessed
               PROVE  Slots * (Guess(id) + 1) > Sum(Last(recent[id]), Len(recent[id]))
    BY DEF GuessCoversMean, Last
  <2> DEFINE e == entries[Entry(id)]
             o == e.observations
             a == Deviation(e)
             w == e.ewma
             t == Sum(a, Slots)
             q == t \div Slots
  <2>1. /\ e \in EntryType /\ t \in Nat /\ Guess(id) = w + q
        /\ \A k \in 0 .. Slots - 1 : a[k] = IF o[k] < w THEN w - o[k] ELSE o[k] - w
        /\ Sum(o, Slots) = Sum(Last(recent[id]), Len(recent[id]))
    BY GuessIs
  <2>2. w \in Nat /\ o \in [0 .. Slots - 1 -> Nat] /\ Slots \in Nat \ {0} /\ Slots \in 0 .. Slots
    BY <2>1, SlotsTypes DEF EntryType
  <2> HIDE DEF e, o, a, w
  <2>3. Sum(o, Slots) <= t + Slots * w
    <3>1. ASSUME NEW k \in 0 .. Slots - 1
          PROVE  o[k] \in Int /\ a[k] \in Int /\ o[k] <= a[k] + w
      <4>1. o[k] \in Nat
        BY <2>2
      <4>2. a[k] = IF o[k] < w THEN w - o[k] ELSE o[k] - w
        BY <2>1
      <4> QED
        BY <2>2, <4>1, <4>2
    <3>2. Slots \in Nat /\ w \in Int
      BY <2>2
    <3>3. \A k \in 0 .. Slots - 1 : o[k] \in Int /\ a[k] \in Int /\ o[k] <= a[k] + w
      BY <3>1
    <3> HIDE DEF t
    <3>4. Sum(o, Slots) <= Sum(a, Slots) + Slots * w
      BY ONLY <3>2, <3>3, SumCompare
    <3> QED
      BY <3>4 DEF t
  <2>4. Sum(o, Slots) \in Int
    <3>1. \A k \in 0 .. Slots - 1 : o[k] \in Int
      BY <2>2
    <3> QED
      BY <2>2, <3>1, SumType
  <2> HIDE DEF t
  <2>5. q \in Int /\ t < Slots * q + Slots
    <3>1. q \in Int /\ t = Slots * q + (t % Slots)
      BY <2>1, <2>2, DivMod
    <3>2. t % Slots \in 0 .. Slots - 1
      BY <2>1, <2>2, ModRange
    <3>3. Slots * q \in Int
      BY <2>2, <3>1
    <3> QED
      BY <2>2, <3>1, <3>2, <3>3
  <2> HIDE DEF q
  <2>6. Slots * (w + q + 1) = Slots * w + Slots * q + Slots
    BY <2>2, <2>5
  <2>7. Slots * w \in Int /\ Slots * q \in Int
    BY <2>2, <2>5
  <2> QED
    BY <2>1, <2>2, <2>3, <2>4, <2>5, <2>6, <2>7
<1> QED
  BY <1>1, EInvAlways, PTL

(* After observations that were all equal, and an average that never was     *)
(* above them, the guess is their size                                       *)
(* (tx_estimate_next_observation_guess).                                     *)
THEOREM SteadyGuess ==
    ASSUME FullRing, Wide
    PROVE  Spec => []SteadyGuessExact
<1>1. EInv => SteadyGuessExact
  <2> SUFFICES ASSUME EInv, NEW id \in Guessed,
                      \A i \in 1 .. Slots : recent[id][i] = recent[id][1],
                      entries[Entry(id)].ewma <= recent[id][1]
               PROVE  Guess(id) = recent[id][1]
    BY DEF SteadyGuessExact
  <2> DEFINE e == entries[Entry(id)]
             o == e.observations
             a == Deviation(e)
             w == e.ewma
             v == recent[id][1]
             d == v - w
  <2>1. /\ e \in EntryType /\ Guess(id) = w + Sum(a, Slots) \div Slots
        /\ recent[id] \in Seq(Nat) /\ Len(recent[id]) = Slots
        /\ \A k \in 0 .. Slots - 1 :
              /\ \E i \in 1 .. Slots : o[k] = recent[id][i]
              /\ a[k] = IF o[k] < w THEN w - o[k] ELSE o[k] - w
    BY GuessIs
  <2>2. w \in Nat /\ Slots \in Nat \ {0} /\ v \in Nat /\ w <= v
    BY <2>1, SlotsTypes DEF EntryType
  <2>3. d \in Nat /\ \A k \in 0 .. Slots - 1 : o[k] = v
    BY <2>1, <2>2
  <2> HIDE DEF e, o, a, w, v
  <2>4. ASSUME NEW k \in 0 .. Slots - 1
        PROVE  a[k] = d
    <3>1. a[k] = IF o[k] < w THEN w - o[k] ELSE o[k] - w
      BY <2>1
    <3>2. o[k] = v
      BY <2>3
    <3> QED
      BY <2>2, <3>1, <3>2
  <2>5. d \in Int /\ w + d = v
    BY <2>2, <2>3
  <2> HIDE DEF d
  <2>6. Sum(a, Slots) = Slots * d
    BY <2>2, <2>4, <2>5, SumConstant
  <2>7. (Slots * d) \div Slots = d
    <3> DEFINE x == Slots * d
               p == x \div Slots
               m == x % Slots
    <3>1. x \in Int
      BY <2>2, <2>5
    <3>2. p \in Int /\ x = Slots * p + m
      BY <2>2, <3>1, DivMod
    <3>3. m = 0
      <4>1. x = Slots * d + 0 /\ 0 \in 0 .. Slots - 1
        BY <2>2, <2>5
      <4> QED
        BY <2>2, <2>5, <4>1, ModUnique
    <3> HIDE DEF p, m
    <3>4. Slots * p = Slots * d
      BY <2>2, <2>5, <3>2, <3>3
    <3>5. p = d
      BY <2>2, <2>5, <3>2, <3>4
    <3> QED
      BY <3>5 DEF p
  <2> QED
    BY <2>1, <2>5, <2>6, <2>7 DEF v
<1> QED
  BY <1>1, EInvAlways, PTL
=============================================================================
