---------------------------- MODULE ListArrayProof ----------------------------
(***************************************************************************)
(* Proofs about ListArray: for every LISTARRAY_MAX_SIZE the doubly linked  *)
(* list in the array is a sequence of distinct indices, and implements the *)
(* abstract list of ActiveSet.                                             *)
(***************************************************************************)
EXTENDS ListArray, FiniteSetTheorems, SequenceTheorems, NatFacts

-----------------------------------------------------------------------------
(* Walk *)

(* The equation that defines At. *)
IsAt(f, first, link) ==
    f = [k \in 1 .. MaxSize |->
            IF k = 1 THEN first
            ELSE IF f[k - 1] \in Index THEN link[f[k - 1]] ELSE NULL]

LEMMA AtUnique ==
    ASSUME NEW first, NEW link, NEW f, NEW g, IsAt(f, first, link), IsAt(g, first, link)
    PROVE  f = g
<1> DEFINE D == {k \in 1 .. MaxSize : f[k] # g[k]}
<1>1. SUFFICES ASSUME D # {} PROVE FALSE
  <2>1. DOMAIN f = 1 .. MaxSize /\ DOMAIN g = 1 .. MaxSize
    BY DEF IsAt
  <2> QED
    BY <2>1 DEF IsAt
<1>2. D \in SUBSET Nat
  BY MaxSizeAssumption
<1>3. PICK k \in D : \A j \in D : k <= j
  BY <1>1, <1>2, SmallestNumber
<1>4. k \in 1 .. MaxSize /\ f[k] # g[k]
  OBVIOUS
<1>5. CASE k = 1
  BY <1>4, <1>5 DEF IsAt
<1>6. CASE k # 1
  <2>1. k - 1 \in 1 .. MaxSize /\ k - 1 \notin D
    BY <1>3, <1>4, <1>6, MaxSizeAssumption
  <2>2. f[k - 1] = g[k - 1]
    BY <2>1
  <2>3. f[k] = IF f[k - 1] \in Index THEN link[f[k - 1]] ELSE NULL
    BY <1>4, <1>6 DEF IsAt
  <2>4. g[k] = IF g[k - 1] \in Index THEN link[g[k - 1]] ELSE NULL
    BY <1>4, <1>6 DEF IsAt
  <2> QED
    BY <1>4, <2>2, <2>3, <2>4
<1> QED
  BY <1>5, <1>6

LEMMA AtIs ==
    ASSUME NEW first, NEW link, NEW f, IsAt(f, first, link)
    PROVE  At(first, link) = f
<1>1. At(first, link) = CHOOSE g : IsAt(g, first, link)
  BY Zenon DEF At, IsAt
<1>2. IsAt(At(first, link), first, link)
  BY <1>1
<1> QED
  BY <1>2, AtUnique

LEMMA IntervalSize ==
    ASSUME NEW n \in Nat
    PROVE  IsFiniteSet(1 .. n) /\ Cardinality(1 .. n) = n
<1>1. Cardinality(1 .. n) = IF 1 > n THEN 0 ELSE n - 1 + 1
  BY FS_Interval
<1> QED
  BY <1>1, FS_Interval

(* A walk that starts at the first element of o and whose links lead from    *)
(* each element to the next one returns o.                                   *)
LEMMA WalkIs ==
    ASSUME NEW o \in Seq(Index), Len(o) <= MaxSize, NEW first, NEW link,
           first = IF Len(o) = 0 THEN NULL ELSE o[1],
           \A k \in 1 .. Len(o) : link[o[k]] = IF k = Len(o) THEN NULL ELSE o[k + 1]
    PROVE  Walk(first, link) = o
<1> DEFINE f == [k \in 1 .. MaxSize |-> IF k <= Len(o) THEN o[k] ELSE NULL]
<1>0. Len(o) \in Nat /\ NULL \notin Index /\ MaxSize \in Nat \ {0} /\ \A k \in 1 .. Len(o) : o[k] \in Index
  BY MaxSizeAssumption DEF NULL, Index
<1>1. IsAt(f, first, link)
  <2> SUFFICES ASSUME NEW k \in 1 .. MaxSize
               PROVE  f[k] = IF k = 1 THEN first
                             ELSE IF f[k - 1] \in Index THEN link[f[k - 1]] ELSE NULL
    BY DEF IsAt
  <2>1. CASE k = 1
    BY <1>0, <2>1
  <2>2. CASE k # 1
    <3>1. k - 1 \in 1 .. MaxSize
      BY <1>0, <2>2
    <3>2. CASE k - 1 <= Len(o)
      <4>1. k - 1 \in 1 .. Len(o) /\ f[k - 1] = o[k - 1]
        BY <1>0, <2>2, <3>1, <3>2
      <4>2. link[o[k - 1]] = IF k - 1 = Len(o) THEN NULL ELSE o[k]
        BY <4>1
      <4>3. f[k] = IF k - 1 = Len(o) THEN NULL ELSE o[k]
        BY <1>0, <3>2
      <4> QED
        BY <1>0, <2>2, <4>1, <4>2, <4>3
    <3>3. CASE ~(k - 1 <= Len(o))
      BY <1>0, <2>2, <3>1, <3>3
    <3> QED
      BY <3>2, <3>3
  <2> QED
    BY <2>1, <2>2
<1>2. At(first, link) = f
  BY <1>1, AtIs
<1>3. {k \in 1 .. MaxSize : f[k] \in Index} = 1 .. Len(o)
  BY <1>0
<1>4. Cardinality(1 .. Len(o)) = Len(o)
  BY <1>0, IntervalSize
<1>5. Walk(first, link) = [k \in 1 .. Len(o) |-> f[k]]
  <2> HIDE DEF f
  <2> QED
    BY <1>2, <1>3, <1>4 DEF Walk
<1>6. \A k \in 1 .. Len(o) : f[k] = o[k]
  BY <1>0
<1>7. o = [k \in 1 .. Len(o) |-> o[k]]
  BY LenProperties
<1> QED
  BY <1>5, <1>6, <1>7

-----------------------------------------------------------------------------
(* The invariant: the array holds a sequence o of distinct indices. *)

After(o, k)  == IF k = Len(o) THEN NULL ELSE o[k + 1]
Before(o, k) == IF k = 1 THEN NULL ELSE o[k - 1]

Listed(o) == {o[k] : k \in 1 .. Len(o)}

Distinct(o) == \A j, k \in 1 .. Len(o) : o[j] = o[k] => j = k

Linked(o) ==
    /\ Distinct(o)
    /\ head = IF Len(o) = 0 THEN NULL ELSE o[1]
    /\ tail = IF Len(o) = 0 THEN NULL ELSE o[Len(o)]
    /\ \A k \in 1 .. Len(o) : next[o[k]] = After(o, k) /\ prev[o[k]] = Before(o, k)
    /\ \A i \in Index \ Listed(o) : next[i] = DEAD /\ prev[i] = DEAD
    /\ \A k \in 1 .. Len(o) : o[k] <= max_index
    /\ count = Len(o)

Arrays == next \in [Index -> Pointer] /\ prev \in [Index -> Pointer] /\ max_index \in Index

LInv == Arrays /\ \E o \in Seq(Index) : Linked(o)

(* The list has room for every index, so it is never longer than the array.  *)
LEMMA ListFits ==
    ASSUME NEW o \in Seq(Index), Distinct(o)
    PROVE  Len(o) <= MaxSize
<1>0. Len(o) \in Nat /\ o \in [1 .. Len(o) -> Index]
  BY LenProperties
<1> SUFFICES ASSUME MaxSize < Len(o) PROVE FALSE
  BY <1>0, MaxSizeAssumption
<1>1. IsFiniteSet(1 .. Len(o)) /\ Cardinality(1 .. Len(o)) = Len(o)
  BY <1>0, IntervalSize
<1>2. IsFiniteSet(Index) /\ Cardinality(Index) = MaxSize
  <2>1. Cardinality(Index) = IF 0 > MaxSize - 1 THEN 0 ELSE MaxSize - 1 - 0 + 1
    BY MaxSizeAssumption, FS_Interval DEF Index
  <2> QED
    BY <2>1, MaxSizeAssumption, FS_Interval DEF Index
<1>3. \E j, k \in 1 .. Len(o) : j # k /\ o[j] = o[k]
  BY <1>0, <1>1, <1>2, FS_PigeonHole
<1> QED
  BY <1>3 DEF Distinct

(* An index is listed iff its entry says so, and the walks follow o.         *)
LEMMA LinkedShape ==
    ASSUME NEW o \in Seq(Index), Linked(o)
    PROVE  /\ Len(o) \in 0 .. MaxSize
           /\ \A i \in Index : InList(i) <=> i \in Listed(o)
           /\ Forward = o
           /\ Backward = [k \in 1 .. Len(o) |-> o[Len(o) + 1 - k]]
<1>0. /\ Len(o) \in Nat /\ \A k \in 1 .. Len(o) : o[k] \in Index
      /\ MaxSize \in Nat \ {0}
  BY MaxSizeAssumption
<1>1. Len(o) <= MaxSize
  BY ListFits DEF Linked
<1>2. \A i \in Index : InList(i) <=> i \in Listed(o)
  <2>1. \A k \in 1 .. Len(o) : After(o, k) # DEAD /\ Before(o, k) # DEAD
    BY <1>0 DEF After, Before, Index, NULL, DEAD
  <2>2. \A i \in Listed(o) : InList(i)
    BY <2>1 DEF Linked, InList, Listed
  <2>3. \A i \in Index \ Listed(o) : ~InList(i)
    BY DEF Linked, InList
  <2> QED
    BY <2>2, <2>3
<1>3. Forward = o
  <2>1. \A k \in 1 .. Len(o) : next[o[k]] = IF k = Len(o) THEN NULL ELSE o[k + 1]
    BY DEF Linked, After
  <2> QED
    BY <1>1, <2>1, WalkIs DEF Linked, Forward
<1>4. Backward = [k \in 1 .. Len(o) |-> o[Len(o) + 1 - k]]
  <2> DEFINE r == [k \in 1 .. Len(o) |-> o[Len(o) + 1 - k]]
  <2>1. r \in Seq(Index) /\ Len(r) = Len(o)
    <3>1. \A k \in 1 .. Len(o) : o[Len(o) + 1 - k] \in Index
      BY <1>0
    <3> QED
      BY <1>0, <3>1
  <2>2. tail = IF Len(r) = 0 THEN NULL ELSE r[1]
    BY <1>0, <2>1 DEF Linked
  <2>3. \A k \in 1 .. Len(r) : prev[r[k]] = IF k = Len(r) THEN NULL ELSE r[k + 1]
    <3> SUFFICES ASSUME NEW k \in 1 .. Len(o)
                 PROVE  prev[r[k]] = IF k = Len(o) THEN NULL ELSE r[k + 1]
      BY <2>1
    <3>1. Len(o) + 1 - k \in 1 .. Len(o) /\ r[k] = o[Len(o) + 1 - k]
      BY <1>0
    <3>2. prev[r[k]] = Before(o, Len(o) + 1 - k)
      BY <3>1 DEF Linked
    <3> QED
      BY <1>0, <3>2 DEF Before
  <2> HIDE DEF r
  <2>4. Backward = r
    BY <1>1, <2>1, <2>2, <2>3, WalkIs DEF Backward
  <2> QED
    BY <2>4 DEF r
<1> QED
  BY <1>0, <1>1, <1>2, <1>3, <1>4

-----------------------------------------------------------------------------
(* The two operations. *)

Without(o, m) == [j \in 1 .. Len(o) - 1 |-> o[IF j < m THEN j ELSE j + 1]]

LEMMA LinkedInit == Init => Arrays /\ Linked(<<>>)
<1>1. Len(<<>>) = 0 /\ Listed(<<>>) = {}
  BY DEF Listed
<1> QED
  BY <1>1, MaxSizeAssumption DEF Init, Arrays, Linked, Distinct, Pointer, Index

LEMMA InsertLinks ==
    ASSUME Arrays, NEW o \in Seq(Index), Linked(o), NEW i \in Index, Insert(i)
    PROVE  i \notin Listed(o) /\ Arrays' /\ Linked(Append(o, i))'
<1> DEFINE n == Len(o)
           p == Append(o, i)
<1>0. /\ n \in Nat /\ \A k \in 1 .. n : o[k] \in Index
      /\ MaxSize \in Nat \ {0} /\ NULL \notin Index /\ DEAD \notin Index /\ NULL # DEAD
  BY MaxSizeAssumption DEF Index, NULL, DEAD
<1>1. i \notin Listed(o)
  <2>1. InList(i) <=> i \in Listed(o)
    BY LinkedShape
  <2> QED
    BY <2>1 DEF Insert, InList
<1>2. /\ p \in Seq(Index) /\ Len(p) = n + 1 /\ p[n + 1] = i
      /\ \A k \in 1 .. n : p[k] = o[k]
  BY <1>0
<1> HIDE DEF p
<1>3. Listed(p) = Listed(o) \cup {i}
  BY <1>0, <1>2 DEF Listed
<1>4. /\ next' = [[j \in Index |-> IF j = tail THEN i ELSE next[j]] EXCEPT ![i] = NULL]
      /\ prev' = [prev EXCEPT ![i] = tail]
      /\ head' = (IF tail = NULL THEN i ELSE head) /\ tail' = i
      /\ max_index' = IF i > max_index THEN i ELSE max_index
      /\ count' = count + 1
  BY DEF Insert
<1>5. tail = IF n = 0 THEN NULL ELSE o[n]
  BY DEF Linked
<1>6. Arrays'
  <2>1. tail \in Pointer /\ i \in Pointer /\ NULL \in Pointer
    BY <1>0, <1>5 DEF Pointer
  <2>2. next' \in [Index -> Pointer] /\ prev' \in [Index -> Pointer]
    BY <1>4, <2>1 DEF Arrays
  <2>3. max_index' \in Index
    BY <1>4 DEF Arrays
  <2> QED
    BY <2>2, <2>3 DEF Arrays
<1>7. Distinct(p)
  BY <1>0, <1>1, <1>2 DEF Distinct, Listed, Linked
<1>8. /\ head' = IF Len(p) = 0 THEN NULL ELSE p[1]
      /\ tail' = IF Len(p) = 0 THEN NULL ELSE p[Len(p)]
  BY <1>0, <1>2, <1>4, <1>5 DEF Linked
<1>9. ASSUME NEW k \in 1 .. Len(p) PROVE next'[p[k]] = After(p, k) /\ prev'[p[k]] = Before(p, k)
  <2>1. CASE k = n + 1
    BY <1>0, <1>2, <1>4, <1>5, <2>1 DEF Arrays, After, Before
  <2>2. CASE k \in 1 .. n
    <3>1. o[k] # i /\ o[k] \in Index /\ p[k] = o[k]
      BY <1>0, <1>1, <1>2, <2>2 DEF Listed
    <3>2. prev'[o[k]] = prev[o[k]] /\ next'[o[k]] = IF o[k] = tail THEN i ELSE next[o[k]]
      BY <1>4, <3>1 DEF Arrays
    <3>3. o[k] = tail <=> k = n
      BY <1>0, <1>5, <2>2 DEF Linked, Distinct
    <3>4. next[o[k]] = After(o, k) /\ prev[o[k]] = Before(o, k)
      BY <2>2 DEF Linked
    <3>5. prev'[p[k]] = Before(p, k)
      BY <1>0, <1>2, <2>2, <3>1, <3>2, <3>4 DEF Before
    <3>6. next'[p[k]] = After(p, k)
      BY <1>0, <1>2, <2>2, <3>1, <3>2, <3>3, <3>4 DEF After
    <3> QED
      BY <3>5, <3>6
  <2> QED
    BY <1>0, <1>2, <2>1, <2>2
<1>10. ASSUME NEW j \in Index \ Listed(p) PROVE next'[j] = DEAD /\ prev'[j] = DEAD
  <2>1. j # i /\ j \notin Listed(o) /\ j # tail
    BY <1>0, <1>3, <1>5 DEF Listed
  <2> QED
    BY <1>4, <2>1 DEF Arrays, Linked
<1>11. \A k \in 1 .. Len(p) : p[k] <= max_index'
  <2>1. \A k \in 1 .. n : o[k] <= max_index
    BY DEF Linked
  <2>2. max_index' >= max_index /\ max_index' >= i /\ max_index \in Int /\ max_index' \in Int
    BY <1>4 DEF Arrays, Index
  <2>3. \A k \in 1 .. n : o[k] \in Int /\ p[k] = o[k]
    BY <1>0, <1>2 DEF Index
  <2> QED
    BY <1>0, <1>2, <2>1, <2>2, <2>3
<1>12. count' = Len(p)
  BY <1>2, <1>4 DEF Linked
<1>13. Linked(p)'
  BY <1>7, <1>8, <1>9, <1>10, <1>11, <1>12 DEF Linked
<1> QED
  BY <1>1, <1>6, <1>13 DEF p

(* Which of the four cases applies is decided by the place of i in o.        *)
LEMMA RemoveLinks ==
    ASSUME Arrays, NEW o \in Seq(Index), Linked(o), NEW i \in Index, Remove(i)
    PROVE  \E m \in 1 .. Len(o) :
               /\ o[m] = i
               /\ Without(o, m) \in Seq(Index)
               /\ Arrays' /\ Linked(Without(o, m))'
<1> DEFINE n == Len(o)
<1>0. /\ n \in Nat /\ \A k \in 1 .. n : o[k] \in Index
      /\ MaxSize \in Nat \ {0} /\ NULL \notin Index /\ DEAD \notin Index /\ NULL # DEAD
  BY MaxSizeAssumption DEF Index, NULL, DEAD
<1>1. PICK m \in 1 .. n : o[m] = i
  <2>1. i \in Listed(o)
    BY LinkedShape DEF Remove
  <2> QED
    BY <2>1 DEF Listed
<1> DEFINE q == Without(o, m)
<1>2. /\ q \in Seq(Index) /\ Len(q) = n - 1
      /\ \A k \in 1 .. n - 1 : q[k] = o[IF k < m THEN k ELSE k + 1]
  <2>1. \A k \in 1 .. n - 1 : o[IF k < m THEN k ELSE k + 1] \in Index
    BY <1>0
  <2> QED
    BY <1>0, <2>1 DEF Without
<1> HIDE DEF q
<1>3. \A j, k \in 1 .. n : o[j] = o[k] => j = k
  BY DEF Linked, Distinct
<1>4. \A k \in 1 .. n : /\ next[o[k]] = IF k = n THEN NULL ELSE o[k + 1]
                        /\ prev[o[k]] = IF k = 1 THEN NULL ELSE o[k - 1]
  BY DEF Linked, After, Before
<1>5. /\ next[i] = IF m = n THEN NULL ELSE o[m + 1]
      /\ prev[i] = IF m = 1 THEN NULL ELSE o[m - 1]
  BY <1>1, <1>4
<1>6. /\ m # n => o[m + 1] \in Index \ {i}
      /\ m # 1 => o[m - 1] \in Index \ {i}
  BY <1>0, <1>1, <1>3
<1>7. /\ head = IF n = 0 THEN NULL ELSE o[1]
      /\ tail = IF n = 0 THEN NULL ELSE o[n]
      /\ count = n /\ count' = count - 1 /\ max_index' = max_index
  BY DEF Linked, Remove
(* The pointers and the ends after the removal, in every case. *)
<1>8. /\ next' \in [Index -> Pointer] /\ prev' \in [Index -> Pointer]
      /\ next'[i] = DEAD /\ prev'[i] = DEAD
      /\ \A j \in Index \ {i} :
            /\ next'[j] = IF m # 1 /\ j = o[m - 1] THEN next[i] ELSE next[j]
            /\ prev'[j] = IF m # n /\ j = o[m + 1] THEN prev[i] ELSE prev[j]
      /\ head' = IF m = 1 THEN next[i] ELSE head
      /\ tail' = IF m = n THEN prev[i] ELSE tail
  <2>0. /\ next \in [Index -> Pointer] /\ prev \in [Index -> Pointer]
        /\ DEAD \in Pointer /\ NULL \in Pointer /\ next[i] \in Pointer /\ prev[i] \in Pointer
    BY DEF Arrays, Pointer
  <2>1. CASE RemoveOnly(i)
    <3>1. m = n /\ m = 1
      BY <1>0, <1>5, <1>6, <2>1 DEF RemoveOnly
    <3> QED
      BY <1>5, <2>0, <2>1, <3>1 DEF RemoveOnly, Unlinked
  <2>2. CASE RemoveHead(i)
    <3>1. m # n /\ m = 1
      BY <1>0, <1>5, <1>6, <2>2 DEF RemoveHead
    <3> QED
      BY <1>5, <1>6, <2>0, <2>2, <3>1 DEF RemoveHead, Unlinked
  <2>3. CASE RemoveTail(i)
    <3>1. m = n /\ m # 1
      BY <1>0, <1>5, <1>6, <2>3 DEF RemoveTail
    <3> QED
      BY <1>5, <1>6, <2>0, <2>3, <3>1 DEF RemoveTail, Unlinked
  <2>4. CASE RemoveMiddle(i)
    <3>1. m # n /\ m # 1
      BY <1>0, <1>5, <1>6, <2>4 DEF RemoveMiddle
    <3> QED
      BY <1>5, <1>6, <2>0, <2>4, <3>1 DEF RemoveMiddle, Unlinked
  <2> QED
    BY <2>1, <2>2, <2>3, <2>4 DEF Remove
<1>9. Arrays'
  BY <1>7, <1>8 DEF Arrays
<1>10. Listed(q) = Listed(o) \ {i}
  <2>1. ASSUME NEW k \in 1 .. n - 1 PROVE q[k] \in Listed(o) \ {i}
    BY <1>0, <1>1, <1>2, <1>3 DEF Listed
  <2>2. ASSUME NEW k \in 1 .. n, k # m PROVE o[k] \in Listed(q)
    <3>1. CASE k < m
      BY <1>0, <1>2, <3>1 DEF Listed
    <3>2. CASE k > m
      <4>1. k - 1 \in 1 .. n - 1 /\ q[k - 1] = o[k]
        BY <1>0, <1>2, <3>2
      <4> QED
        BY <1>2, <4>1 DEF Listed
    <3> QED
      BY <2>2, <3>1, <3>2
  <2> QED
    BY <1>1, <1>2, <2>1, <2>2 DEF Listed
<1>11. Distinct(q)
  BY <1>0, <1>2, <1>3 DEF Distinct
<1>12. /\ head' = IF Len(q) = 0 THEN NULL ELSE q[1]
       /\ tail' = IF Len(q) = 0 THEN NULL ELSE q[Len(q)]
  BY <1>0, <1>2, <1>5, <1>7, <1>8
<1>13. ASSUME NEW k \in 1 .. Len(q) PROVE next'[q[k]] = After(q, k) /\ prev'[q[k]] = Before(q, k)
  <2>1. k \in 1 .. n - 1
    BY <1>2
  <2>2. CASE k < m
    <3>1. q[k] = o[k] /\ o[k] \in Index \ {i} /\ k \in 1 .. n
      BY <1>0, <1>1, <1>2, <1>3, <2>1, <2>2
    <3>2. prev'[o[k]] = prev[o[k]]
      BY <1>0, <1>3, <1>8, <2>2, <3>1
    <3>3. prev'[q[k]] = Before(q, k)
      BY <1>0, <1>2, <1>4, <2>1, <2>2, <3>1, <3>2 DEF Before
    <3>4. next'[o[k]] = IF k = m - 1 THEN next[i] ELSE next[o[k]]
      BY <1>0, <1>3, <1>8, <2>2, <3>1
    <3>5. k # n - 1 => q[k + 1] = o[IF k + 1 < m THEN k + 1 ELSE k + 2]
      BY <1>0, <1>2, <2>1
    <3>6. next[o[k]] = o[k + 1]
      BY <1>0, <1>4, <2>1, <2>2
    <3>7. CASE k = m - 1
      BY <1>0, <1>2, <1>5, <2>1, <3>1, <3>3, <3>4, <3>5, <3>7 DEF After
    <3>8. CASE k # m - 1
      BY <1>0, <1>2, <2>1, <2>2, <3>1, <3>3, <3>4, <3>5, <3>6, <3>8 DEF After
    <3> QED
      BY <3>7, <3>8
  <2>3. CASE ~(k < m)
    <3>1. q[k] = o[k + 1] /\ o[k + 1] \in Index \ {i} /\ k + 1 \in 1 .. n
      BY <1>0, <1>1, <1>2, <1>3, <2>1, <2>3
    <3>2. next'[o[k + 1]] = next[o[k + 1]]
      BY <1>0, <1>3, <1>8, <2>3, <3>1
    <3>3. next'[q[k]] = After(q, k)
      <4>1. next[o[k + 1]] = IF k + 1 = n THEN NULL ELSE o[k + 2]
        BY <1>0, <1>4, <3>1
      <4>2. k # n - 1 => q[k + 1] = o[k + 2]
        BY <1>0, <1>2, <2>1, <2>3
      <4> QED
        BY <1>0, <1>2, <2>1, <3>1, <3>2, <4>1, <4>2 DEF After
    <3>4. prev'[o[k + 1]] = IF k = m THEN prev[i] ELSE prev[o[k + 1]]
      BY <1>0, <1>3, <1>8, <2>3, <3>1
    <3>5. prev[o[k + 1]] = o[k]
      BY <1>0, <1>4, <2>1, <3>1
    <3>6. k # 1 => q[k - 1] = o[IF k - 1 < m THEN k - 1 ELSE k]
      BY <1>0, <1>2, <2>1
    <3>7. CASE k = m
      BY <1>0, <1>2, <1>5, <2>1, <3>1, <3>3, <3>4, <3>6, <3>7 DEF Before
    <3>8. CASE k # m
      BY <1>0, <1>2, <2>1, <2>3, <3>1, <3>3, <3>4, <3>5, <3>6, <3>8 DEF Before
    <3> QED
      BY <3>7, <3>8
  <2> QED
    BY <2>2, <2>3
<1>14. ASSUME NEW j \in Index \ Listed(q) PROVE next'[j] = DEAD /\ prev'[j] = DEAD
  <2>1. CASE j = i
    BY <1>8, <2>1
  <2>2. CASE j # i
    <3>1. j \notin Listed(o) /\ next[j] = DEAD /\ prev[j] = DEAD
      BY <1>10, <2>2 DEF Linked
    <3>2. ~(m # 1 /\ j = o[m - 1]) /\ ~(m # n /\ j = o[m + 1])
      BY <1>0, <3>1 DEF Listed
    <3> QED
      BY <1>8, <2>2, <3>1, <3>2
  <2> QED
    BY <2>1, <2>2
<1>15. \A k \in 1 .. Len(q) : q[k] <= max_index'
  <2>1. \A k \in 1 .. n : o[k] <= max_index
    BY DEF Linked
  <2> QED
    BY <1>0, <1>2, <1>7, <2>1
<1>16. count' = Len(q)
  BY <1>2, <1>7
<1>17. Linked(q)'
  BY <1>11, <1>12, <1>13, <1>14, <1>15, <1>16 DEF Linked
<1> QED
  BY <1>1, <1>2, <1>9, <1>17 DEF q

LEMMA LInvStep == LInv /\ [Next]_vars => LInv'
<1> SUFFICES ASSUME LInv, [Next]_vars PROVE LInv'
  OBVIOUS
<1>1. PICK o \in Seq(Index) : Linked(o)
  BY DEF LInv
<1>2. ASSUME NEW i \in Index, Insert(i) PROVE LInv'
  <2>1. Append(o, i) \in Seq(Index)
    OBVIOUS
  <2> QED
    BY <1>1, <1>2, <2>1, InsertLinks DEF LInv
<1>3. ASSUME NEW i \in Index, Remove(i) PROVE LInv'
  BY <1>1, <1>3, RemoveLinks DEF LInv
<1>4. CASE UNCHANGED vars
  BY <1>1, <1>4 DEF vars, LInv, Arrays, Linked
<1> QED
  BY <1>2, <1>3, <1>4 DEF Next

-----------------------------------------------------------------------------
(* The theorems. *)

(* listarray_insert and listarray_remove keep the array a list.              *)
THEOREM ListInvariance == Spec => []LInv
<1>1. Init => LInv
  <2>1. <<>> \in Seq(Index)
    OBVIOUS
  <2> QED
    BY <2>1, LinkedInit DEF LInv
<1> QED
  BY <1>1, LInvStep, PTL DEF Spec

(* Each field stays in its range; in particular listarray_count never goes   *)
(* below zero, nor above LISTARRAY_MAX_SIZE, and no pointer leaves the array. *)
THEOREM ListTypeCorrect == Spec => []TypeOK
<1>1. LInv => TypeOK
  <2> SUFFICES ASSUME Arrays, NEW o \in Seq(Index), Linked(o) PROVE TypeOK
    BY DEF LInv
  <2>1. Len(o) \in 0 .. MaxSize
    BY LinkedShape
  <2>2. \A k \in 1 .. Len(o) : o[k] \in Index
    OBVIOUS
  <2>3. head \in Index \cup {NULL} /\ tail \in Index \cup {NULL}
    BY <2>1, <2>2 DEF Linked
  <2> QED
    BY <2>1, <2>3 DEF TypeOK, Arrays, Linked
<1> QED
  BY <1>1, ListInvariance, PTL

(* listarray_foreach visits exactly the entries listarray_in_list accepts,   *)
(* each once, and listarray_count is their number.                           *)
THEOREM ForeachCorrect == Spec => []ForeachVisitsListed
<1>1. LInv => ForeachVisitsListed
  <2> SUFFICES ASSUME NEW o \in Seq(Index), Linked(o) PROVE ForeachVisitsListed
    BY DEF LInv
  <2>1. Forward = o /\ \A i \in Index : InList(i) <=> i \in Listed(o)
    BY LinkedShape
  <2>2. Listed(o) \subseteq Index /\ DOMAIN o = 1 .. Len(o)
    BY DEF Listed
  <2>3. Len(o) = count
    BY DEF Linked
  <2> QED
    BY <2>1, <2>2, <2>3 DEF ForeachVisitsListed, Listed
<1> QED
  BY <1>1, ListInvariance, PTL

(* The prev pointers give the reverse of the next pointers.                  *)
THEOREM BackwardCorrect == Spec => []BackwardMirrorsForward
<1>1. LInv => BackwardMirrorsForward
  <2> SUFFICES ASSUME NEW o \in Seq(Index), Linked(o) PROVE BackwardMirrorsForward
    BY DEF LInv
  <2>1. Len(o) \in Nat
    OBVIOUS
  <2>2. Forward = o /\ Backward = [k \in 1 .. Len(o) |-> o[Len(o) + 1 - k]]
    BY LinkedShape
  <2>3. Len(Backward) = Len(o)
    BY <2>1, <2>2
  <2>4. ASSUME NEW k \in DOMAIN o PROVE Backward[Len(o) + 1 - k] = o[k]
    <3>1. k \in 1 .. Len(o) /\ Len(o) + 1 - k \in 1 .. Len(o)
      BY <2>1
    <3>2. Backward[Len(o) + 1 - k] = o[Len(o) + 1 - (Len(o) + 1 - k)]
      BY <2>2, <3>1
    <3>3. Len(o) + 1 - (Len(o) + 1 - k) = k
      BY <2>1, <3>1
    <3> QED
      BY <3>2, <3>3
  <2> QED
    BY <2>2, <2>3, <2>4 DEF BackwardMirrorsForward
<1> QED
  BY <1>1, ListInvariance, PTL

(* The scan 0..max_index that an NMI makes covers every listed entry.        *)
THEOREM ScanCorrect == Spec => []ScanCoversListed
<1>1. LInv => ScanCoversListed
  <2> SUFFICES ASSUME NEW o \in Seq(Index), Linked(o) PROVE ScanCoversListed
    BY DEF LInv
  <2>1. \A i \in Index : InList(i) <=> i \in Listed(o)
    BY LinkedShape
  <2> QED
    BY <2>1 DEF Linked, Listed, ScanCoversListed
<1> QED
  BY <1>1, ListInvariance, PTL

(* listarray.h implements the abstract list of active threads: an insertion  *)
(* appends the index, a removal takes it out and keeps the order.            *)
THEOREM ListRefinement == Spec => ImplementsActiveSet
<1>1. Init => Abstract!Init
  <2> SUFFICES ASSUME Init PROVE Forward = <<>> /\ max_index = 0
    BY DEF Abstract!Init
  <2>1. <<>> \in Seq(Index) /\ Linked(<<>>)
    BY LinkedInit
  <2> QED
    BY <2>1, LinkedShape DEF Init
<1>2. \A p \in Seq(Index) : Linked(p) => Forward = p
  BY LinkedShape
<1>3. (\A p \in Seq(Index) : Linked(p) => Forward = p)'
  BY <1>2, PTL
<1>4. LInv /\ [Next]_vars => [Abstract!Next]_<<Forward, max_index>>
  <2> SUFFICES ASSUME LInv, [Next]_vars PROVE [Abstract!Next]_<<Forward, max_index>>
    OBVIOUS
  <2>1. PICK o \in Seq(Index) : Linked(o)
    BY DEF LInv
  <2>2. Forward = o
    BY <2>1, LinkedShape
  <2>3. \A p \in Seq(Index) : Linked(p)' => Forward' = p
    BY <1>3
  <2>4. ASSUME NEW i \in Index, Insert(i) PROVE Abstract!Insert(i)
    <3>1. i \notin Listed(o) /\ Linked(Append(o, i))' /\ Append(o, i) \in Seq(Index)
      BY <2>1, <2>4, InsertLinks DEF LInv
    <3>2. i \notin Abstract!Members
      BY <2>2, <3>1 DEF Abstract!Members, Listed
    <3>3. Forward' = Append(Forward, i)
      BY <2>2, <2>3, <3>1
    <3> QED
      BY <2>4, <3>2, <3>3 DEF Abstract!Insert, Insert
  <2>5. ASSUME NEW i \in Index, Remove(i) PROVE Abstract!Remove(i)
    <3>1. PICK m \in 1 .. Len(o) : /\ o[m] = i
                                   /\ Without(o, m) \in Seq(Index)
                                   /\ Linked(Without(o, m))'
      BY <2>1, <2>5, RemoveLinks DEF LInv
    <3>2. Forward' = Without(o, m) /\ m \in DOMAIN o
      BY <2>3, <3>1
    <3> QED
      BY <2>2, <2>5, <3>1, <3>2 DEF Abstract!Remove, Without, Remove
  <2>6. CASE UNCHANGED vars
    BY <2>6 DEF vars, Forward
  <2> QED
    BY <2>4, <2>5, <2>6 DEF Next, Abstract!Next
<1> QED
  BY <1>1, <1>4, ListInvariance, PTL DEF Spec, ImplementsActiveSet, Abstract!Spec
=============================================================================
