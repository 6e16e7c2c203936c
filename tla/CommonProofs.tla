---------------------------- MODULE CommonProofs ----------------------------
(***************************************************************************)
(* Lemmas about the helpers the models share: what padding does to a size, *)
(* what is kept of a list, sums, lists joined in one, and loops in which   *)
(* each turn starts from what the turn before left.                        *)
(***************************************************************************)
EXTENDS Common, SequenceTheorems, FunctionTheorems,
        FiniteSetTheorems, WellFoundedInduction, TLAPS

\* Every inhabited set of natural numbers has a least one.
LEMMA Smallest ==
  ASSUME NEW T \in SUBSET Nat, T # {}
  PROVE  \E x \in T : \A y \in T : x <= y
<1> DEFINE R == OpToRel(<, Nat)
<1>1. PICK x \in T : \A y \in T : ~(<<y, x>> \in R)
  <2>1. IsWellFoundedOn(R, Nat)
    BY NatLessThanWellFounded
  <2> HIDE DEF R
  <2> QED BY <2>1, WFMin
<1>2. \A a, b \in Nat : a < b => <<a, b>> \in R
  BY DEF OpToRel
<1> HIDE DEF R
<1>3. \A y \in T : ~(y < x)
  BY <1>1, <1>2
<1>4. \A y \in T : x <= y
  BY <1>3
<1> QED BY <1>4

\* What holds at a and passes from each number to the next holds up to b.
LEMMA Climb ==
  ASSUME NEW a \in Nat, NEW b \in Nat, NEW S, a \in S,
         \A n \in a .. b - 1 : n \in S => n + 1 \in S
  PROVE  \A n \in a .. b : n \in S
<1> DEFINE Bad == {n \in a .. b : n \notin S}
<1>1. SUFFICES ASSUME Bad # {} PROVE FALSE
  OBVIOUS
<1>2. PICK n \in Bad : \A m \in Bad : n <= m
  <2>1. Bad \in SUBSET Nat
    OBVIOUS
  <2> HIDE DEF Bad
  <2> QED BY <1>1, <2>1, Smallest
<1>3. n \in a .. b /\ n \notin S /\ n # a
  OBVIOUS
<1>4. n - 1 \in a .. b - 1 /\ n - 1 \notin Bad /\ (n - 1) + 1 = n
  BY <1>2, <1>3
<1>5. n - 1 \in S
  BY <1>4
<1> QED BY <1>3, <1>4, <1>5

Increasing(I, f) ==
  /\ f \in [1 .. Cardinality(I) -> I]
  /\ \A m, n \in 1 .. Cardinality(I) : m < n => f[m] < f[n]

\* A bounded set of numbers can be put in order: the bound, where it is in the
\* set, comes after the others.
LEMMA OrderExists ==
  ASSUME NEW N \in Nat, NEW I \in SUBSET (1 .. N)
  PROVE  \E f : Increasing(I, f)
<1> DEFINE S == {n \in Nat : \A J \in SUBSET (1 .. n) : \E f : Increasing(J, f)}
<1>1. 0 \in S
  <2>1. ASSUME NEW J \in SUBSET (1 .. 0) PROVE \E f : Increasing(J, f)
    <3>1. J = {}
      OBVIOUS
    <3>2. Cardinality(J) = 0
      BY <3>1, FS_EmptySet
    <3> DEFINE e == [x \in 1 .. 0 |-> x]
    <3>3. e \in [1 .. 0 -> J]
      OBVIOUS
    <3> HIDE DEF e
    <3>4. Increasing(J, e)
      BY <3>2, <3>3 DEF Increasing
    <3> QED BY <3>4
  <2> QED BY <2>1
<1>2. ASSUME NEW n \in 0 .. N - 1, n \in S, NEW J \in SUBSET (1 .. n + 1)
      PROVE  \E f : Increasing(J, f)
  <2>1. CASE n + 1 \notin J
    <3>1. J \in SUBSET (1 .. n)
      BY <2>1
    <3> QED BY <1>2, <3>1
  <2>2. CASE n + 1 \in J
    <3> DEFINE K == J \ {n + 1}
    <3>1. K \in SUBSET (1 .. n)
      OBVIOUS
    <3>2. PICK f : Increasing(K, f)
      BY <1>2, <3>1
    <3>3. IsFiniteSet(J)
      <4>1. IsFiniteSet(1 .. n + 1)
        BY FS_Interval
      <4> QED BY <4>1, FS_Subset
    <3>4. PICK k \in Nat : k = Cardinality(K) /\ Cardinality(J) = k + 1
      <4>1. IsFiniteSet(K) /\ Cardinality(K) = Cardinality(J) - 1
        BY <2>2, <3>3, FS_RemoveElement
      <4>2. Cardinality(K) \in Nat /\ Cardinality(J) \in Nat
        BY <3>3, <4>1, FS_CardinalityType
      <4> HIDE DEF K
      <4> QED BY <4>1, <4>2
    <3>5. /\ f \in [1 .. k -> K]
          /\ \A a, b \in 1 .. k : a < b => f[a] < f[b]
      BY <3>2, <3>4 DEF Increasing
    <3> DEFINE g == [x \in 1 .. k + 1 |-> IF x <= k THEN f[x] ELSE n + 1]
    <3>6. g \in [1 .. k + 1 -> J]
      <4>1. ASSUME NEW x \in 1 .. k + 1 PROVE (IF x <= k THEN f[x] ELSE n + 1) \in J
        <5>1. CASE x <= k
          <6>1. x \in 1 .. k
            BY <3>4, <5>1
          <6> QED BY <3>5, <5>1, <6>1
        <5>2. CASE ~(x <= k)
          BY <2>2, <5>2
        <5> QED BY <5>1, <5>2
      <4> QED BY <4>1
    <3>7. ASSUME NEW a \in 1 .. k + 1, NEW b \in 1 .. k + 1, a < b
          PROVE  g[a] < g[b]
      <4>1. a \in 1 .. k /\ g[a] = f[a]
        BY <3>4, <3>7
      <4>2. CASE b <= k
        <5>1. b \in 1 .. k /\ g[b] = f[b]
          BY <3>4, <4>2
        <5> HIDE DEF g
        <5> QED BY <3>5, <3>7, <4>1, <5>1
      <4>3. CASE b = k + 1
        <5>1. f[a] \in 1 .. n
          BY <3>1, <3>5, <4>1
        <5>2. g[b] = n + 1
          BY <3>4, <4>3
        <5> QED BY <4>1, <5>1, <5>2
      <4> QED BY <3>4, <3>7, <4>2, <4>3
    <3>8. Increasing(J, g)
      BY <3>4, <3>6, <3>7 DEF Increasing
    <3> QED BY <3>8
  <2> QED BY <2>1, <2>2
<1>3. \A n \in 0 .. N - 1 : n \in S => n + 1 \in S
  BY <1>2
<1>4. \A n \in 0 .. N : n \in S
  <2> HIDE DEF S
  <2> QED BY <1>1, <1>3, Climb
<1> QED BY <1>4

\* InOrder() goes through the numbers of a set, each once, in their order.
LEMMA InOrderForms ==
  ASSUME NEW N \in Nat, NEW I \in SUBSET (1 .. N)
  PROVE  /\ IsFiniteSet(I)
         /\ Cardinality(I) \in Nat
         /\ Cardinality(I) <= N
         /\ InOrder(I) \in [1 .. Cardinality(I) -> I]
         /\ \A m, n \in 1 .. Cardinality(I) : m < n => InOrder(I)[m] < InOrder(I)[n]
         /\ \A i \in I : \E n \in 1 .. Cardinality(I) : InOrder(I)[n] = i
<1>1. IsFiniteSet(1 .. N) /\ Cardinality(1 .. N) = N
  BY FS_Interval
<1>2. /\ IsFiniteSet(I)
      /\ Cardinality(I) \in Nat
      /\ Cardinality(I) <= N
  BY <1>1, FS_Subset, FS_CardinalityType
<1> DEFINE k == Cardinality(I)
           f == InOrder(I)
<1>3. /\ f \in [1 .. k -> I]
      /\ \A m, n \in 1 .. k : m < n => f[m] < f[n]
  BY OrderExists DEF Increasing, InOrder
<1> HIDE DEF f
<1>4. f \in Injection(1 .. k, I)
  <2>1. ASSUME NEW m \in 1 .. k, NEW n \in 1 .. k, f[m] = f[n]
        PROVE  m = n
    <3>1. f[m] \in 1 .. N /\ f[n] \in 1 .. N
      BY <1>3
    <3>2. ~(m < n) /\ ~(n < m)
      BY <1>3, <2>1, <3>1
    <3> QED BY <1>2, <3>2
  <2> QED BY <1>3, <2>1, Fun_IsInj
<1>5. Cardinality(1 .. k) = k
  BY <1>2, FS_Interval
<1>6. f \in Surjection(1 .. k, I)
  BY <1>2, <1>4, <1>5, FS_Injection
<1>7. \A i \in I : \E n \in 1 .. k : f[n] = i
  BY <1>6 DEF Surjection
<1> QED BY <1>2, <1>3, <1>7 DEF f

\* A list keeps the elements at the positions given, and nothing else.
LEMMA KeptForms ==
  ASSUME NEW T, NEW list \in Seq(T), NEW I \in SUBSET (1 .. Len(list))
  PROVE  /\ Kept(list, I) \in Seq(T)
         /\ Len(Kept(list, I)) = Cardinality(I)
         /\ Cardinality(I) \in Nat
         /\ DOMAIN Kept(list, I) = 1 .. Cardinality(I)
         /\ InOrder(I) \in [1 .. Cardinality(I) -> I]
         /\ \A n \in 1 .. Cardinality(I) : Kept(list, I)[n] = list[InOrder(I)[n]]
         /\ \A m, n \in 1 .. Cardinality(I) : m # n => InOrder(I)[m] # InOrder(I)[n]
         /\ \A i \in I : \E n \in 1 .. Cardinality(I) : InOrder(I)[n] = i
<1>1. Len(list) \in Nat /\ list \in [1 .. Len(list) -> T]
  BY LenProperties
<1>2. /\ Cardinality(I) \in Nat
      /\ InOrder(I) \in [1 .. Cardinality(I) -> I]
      /\ \A m, n \in 1 .. Cardinality(I) : m < n => InOrder(I)[m] < InOrder(I)[n]
      /\ \A i \in I : \E n \in 1 .. Cardinality(I) : InOrder(I)[n] = i
  BY <1>1, InOrderForms
<1>3. ASSUME NEW m \in 1 .. Cardinality(I), NEW n \in 1 .. Cardinality(I), m # n
      PROVE  InOrder(I)[m] # InOrder(I)[n]
  <2>1. InOrder(I)[m] \in 1 .. Len(list) /\ InOrder(I)[n] \in 1 .. Len(list)
    BY <1>2
  <2>2. m < n \/ n < m
    BY <1>2, <1>3
  <2> QED BY <1>1, <1>2, <2>1, <2>2
<1>4. Kept(list, I) \in [1 .. Cardinality(I) -> T]
  BY <1>1, <1>2 DEF Kept
<1>5. Kept(list, I) \in Seq(T) /\ Len(Kept(list, I)) = Cardinality(I)
  BY <1>2, <1>4, SeqDef, LenProperties
<1> QED BY <1>2, <1>3, <1>4, <1>5 DEF Kept

-----------------------------------------------------------------------------
(* Padding *)

LEMMA DivMod ==
  ASSUME NEW A \in Nat \ {0}, NEW n \in Nat
  PROVE  /\ n \div A \in Nat
         /\ n % A \in 0 .. A - 1
         /\ n = A * (n \div A) + (n % A)
OBVIOUS

\* A padded size is a multiple of the alignment, the next one there is.
LEMMA PaddingForms ==
  ASSUME NEW A \in Nat \ {0}, NEW size \in Nat
  PROVE  /\ PaddingTo(size, A) \in Nat
         /\ PaddingTo(size, A) < A
         /\ \E q \in Nat : size + PaddingTo(size, A) = A * q
<1>1. PICK q \in Nat : \E m \in 0 .. A - 1 :
        m = size % A /\ size = A * q + m
  BY DivMod
<1>2. PICK m \in 0 .. A - 1 : m = size % A /\ size = A * q + m
  BY <1>1
<1>3. CASE m = 0
  <2>1. PaddingTo(size, A) = 0
    BY <1>2, <1>3 DEF PaddingTo
  <2>2. size + 0 = A * q
    BY <1>2, <1>3
  <2> QED BY <2>1, <2>2
<1>4. CASE m # 0
  <2>1. PaddingTo(size, A) = A - m
    BY <1>2, <1>4 DEF PaddingTo
  <2>2. size + (A - m) = A * (q + 1)
    BY <1>2
  <2>3. size + PaddingTo(size, A) = A * (q + 1) /\ q + 1 \in Nat
    BY <2>1, <2>2
  <2>4. PaddingTo(size, A) \in Nat /\ PaddingTo(size, A) < A
    BY <1>4, <2>1
  <2> QED BY <2>3, <2>4
<1> QED BY <1>3, <1>4

LEMMA PaddedAligned ==
  ASSUME NEW A \in Nat \ {0}, NEW size \in Nat
  PROVE  (size + PaddingTo(size, A)) % A = 0
<1>1. PICK q \in Nat : size + PaddingTo(size, A) = A * q
  BY PaddingForms
<1>2. (A * q) % A = 0
  OBVIOUS
<1> QED BY <1>1, <1>2

\* What fits in aligned room also fits in it with its padding.
LEMMA PaddedFits ==
  ASSUME NEW A \in Nat \ {0}, NEW size \in Nat,
         NEW room \in Nat, room % A = 0, size <= room
  PROVE  size + PaddingTo(size, A) <= room
<1>1. PICK q \in Nat : size + PaddingTo(size, A) = A * q
  BY PaddingForms
<1>2. PICK r \in Nat : room = A * r
  <2>1. PICK r \in Nat : r = room \div A
    BY DivMod
  <2>2. room = A * r + 0
    BY <2>1, DivMod
  <2>3. A * r + 0 = A * r
    OBVIOUS
  <2> QED BY <2>2, <2>3
<1>3. PaddingTo(size, A) \in Nat /\ PaddingTo(size, A) < A
  BY PaddingForms
<1>4. A * q < A * r + A
  BY <1>1, <1>2, <1>3
<1>5. q < r + 1
  <2>1. SUFFICES ASSUME q >= r + 1 PROVE FALSE
    OBVIOUS
  <2>2. A * q >= A * (r + 1)
    BY <2>1
  <2>3. A * (r + 1) = A * r + A
    OBVIOUS
  <2> QED BY <1>4, <2>2, <2>3
<1>6. A * q <= A * r
  BY <1>5
<1> QED BY <1>1, <1>2, <1>6

-----------------------------------------------------------------------------
(* Sums *)

Sums(w, n, g) ==
  /\ g \in [0 .. n -> Nat]
  /\ \A j \in 0 .. n : g[j] = IF j = 0 THEN 0 ELSE g[j - 1] + w[j]

\* There is a function that adds up the first numbers of a sequence.
LEMMA SumsExist ==
  ASSUME NEW w \in Seq(Nat)
  PROVE  \E g : Sums(w, Len(w), g)
<1>1. Len(w) \in Nat /\ \A j \in 1 .. Len(w) : w[j] \in Nat
  BY LenProperties, ElementOfSeq
<1> DEFINE S == {n \in 0 .. Len(w) : \E g : Sums(w, n, g)}
<1>2. 0 \in S
  <2> DEFINE z == [j \in 0 .. 0 |-> 0]
  <2>1. Sums(w, 0, z)
    BY DEF Sums
  <2> QED BY <1>1, <2>1
<1>3. ASSUME NEW n \in 0 .. Len(w) - 1, n \in S PROVE n + 1 \in S
  <2>1. PICK g : Sums(w, n, g)
    BY <1>3
  <2> DEFINE h == [j \in 0 .. n + 1 |-> IF j = n + 1 THEN g[n] + w[n + 1] ELSE g[j]]
  <2>2. g \in [0 .. n -> Nat] /\ g[n] \in Nat /\ w[n + 1] \in Nat
    BY <1>1, <2>1 DEF Sums
  <2>3. h \in [0 .. n + 1 -> Nat]
    BY <1>1, <2>2
  <2>4. ASSUME NEW j \in 0 .. n + 1 PROVE h[j] = IF j = 0 THEN 0 ELSE h[j - 1] + w[j]
    <3>1. CASE j = n + 1
      <4>1. j # 0 /\ j - 1 = n /\ n \in 0 .. n + 1 /\ n # n + 1
        BY <1>1, <3>1
      <4>2. h[j] = g[n] + w[n + 1] /\ h[n] = g[n]
        BY <1>1, <3>1
      <4> HIDE DEF h
      <4> QED BY <3>1, <4>1, <4>2
    <3>2. CASE j # n + 1
      <4>1. j \in 0 .. n /\ (j # 0 => j - 1 \in 0 .. n)
        BY <1>1, <3>2
      <4>2. \A k \in 0 .. n : h[k] = g[k]
        BY <1>1
      <4>3. g[j] = IF j = 0 THEN 0 ELSE g[j - 1] + w[j]
        BY <2>1, <4>1 DEF Sums
      <4> HIDE DEF h
      <4> QED BY <4>1, <4>2, <4>3
    <3> QED BY <3>1, <3>2
  <2>5. Sums(w, n + 1, h)
    BY <2>3, <2>4 DEF Sums
  <2> QED BY <1>1, <2>5
<1>4. \A n \in 0 .. Len(w) : n \in S
  <2> HIDE DEF S
  <2> QED BY <1>1, <1>2, <1>3, Climb
<1> QED BY <1>1, <1>4

LEMMA TotalForms ==
  ASSUME NEW w \in Seq(Nat)
  PROVE  /\ Len(w) \in Nat
         /\ Total(w) \in [0 .. Len(w) -> Nat]
         /\ Total(w)[0] = 0
         /\ \A n \in 1 .. Len(w) : Total(w)[n] = Total(w)[n - 1] + w[n]
<1>1. Len(w) \in Nat
  BY LenProperties
<1>2. PICK g : Sums(w, Len(w), g)
  BY SumsExist
<1> DEFINE Step(f) == [n \in 0 .. Len(w) |-> IF n = 0 THEN 0 ELSE f[n - 1] + w[n]]
<1>3. Total(w) = CHOOSE f : f = Step(f)
  BY DEF Total
<1>4. g = Step(g)
  BY <1>2 DEF Sums
<1>5. Total(w) = Step(Total(w))
  BY <1>3, <1>4
<1> DEFINE t == Total(w)
<1>6. /\ DOMAIN t = 0 .. Len(w)
      /\ \A n \in 0 .. Len(w) : t[n] = IF n = 0 THEN 0 ELSE t[n - 1] + w[n]
  BY <1>5
<1> HIDE DEF t
<1>7. t[0] = 0 /\ \A n \in 1 .. Len(w) : t[n] = t[n - 1] + w[n]
  BY <1>1, <1>6
<1>8. \A n \in 1 .. Len(w) : w[n] \in Nat
  BY ElementOfSeq
<1> DEFINE S == {n \in 0 .. Len(w) : t[n] \in Nat}
<1>9. 0 \in S
  BY <1>1, <1>7
<1>10. ASSUME NEW n \in 0 .. Len(w) - 1, n \in S PROVE n + 1 \in S
  <2>1. n + 1 \in 1 .. Len(w) /\ (n + 1) - 1 = n
    BY <1>1
  <2>2. t[n + 1] = t[n] + w[n + 1]
    BY <1>7, <2>1
  <2> QED BY <1>8, <1>10, <2>1, <2>2
<1>11. \A n \in 0 .. Len(w) : n \in S
  <2> HIDE DEF S
  <2> QED BY <1>1, <1>9, <1>10, Climb
<1>12. t = [n \in 0 .. Len(w) |-> t[n]]
  <2>1. Total(w) = [n \in 0 .. Len(w) |-> Total(w)[n]]
    BY <1>5
  <2> QED BY <2>1 DEF t
<1>13. t \in [0 .. Len(w) -> Nat]
  BY <1>11, <1>12
<1> QED BY <1>1, <1>7, <1>13 DEF t

\* A sum grows by the numbers added to it.
LEMMA TotalGrows ==
  ASSUME NEW w \in Seq(Nat), NEW i \in 1 .. Len(w), NEW n \in i .. Len(w)
  PROVE  Total(w)[i - 1] + w[i] <= Total(w)[n]
<1>1. /\ Len(w) \in Nat
      /\ Total(w) \in [0 .. Len(w) -> Nat]
      /\ \A j \in 1 .. Len(w) : Total(w)[j] = Total(w)[j - 1] + w[j]
      /\ \A j \in 1 .. Len(w) : w[j] \in Nat
  BY TotalForms, ElementOfSeq
<1> DEFINE S == {j \in i .. Len(w) : Total(w)[i - 1] + w[i] <= Total(w)[j]}
<1>2. i \in S
  <2>1. i \in i .. Len(w) /\ Total(w)[i] = Total(w)[i - 1] + w[i]
    BY <1>1
  <2>2. i - 1 \in 0 .. Len(w) /\ w[i] \in Nat
    BY <1>1
  <2>3. Total(w)[i - 1] \in Nat
    BY <1>1, <2>2
  <2>4. Total(w)[i - 1] + w[i] <= Total(w)[i]
    BY <2>1, <2>2, <2>3
  <2> QED BY <2>1, <2>4
<1>3. ASSUME NEW j \in i .. Len(w) - 1, j \in S PROVE j + 1 \in S
  <2>1. j + 1 \in 1 .. Len(w) /\ (j + 1) - 1 = j /\ j \in 0 .. Len(w) /\ i - 1 \in 0 .. Len(w)
    BY <1>1
  <2>2. Total(w)[j + 1] = Total(w)[j] + w[j + 1]
    BY <1>1, <2>1
  <2>3. /\ Total(w)[j] \in Nat /\ Total(w)[i - 1] \in Nat
        /\ w[j + 1] \in Nat /\ w[i] \in Nat
    BY <1>1, <2>1
  <2>4. Total(w)[i - 1] + w[i] <= Total(w)[j]
    BY <1>3
  <2>5. Total(w)[i - 1] + w[i] <= Total(w)[j + 1]
    <3>1. \A a, b, c, e \in Nat : a + b <= c => a + b <= c + e
      OBVIOUS
    <3>2. Total(w)[i - 1] + w[i] <= Total(w)[j] + w[j + 1]
      BY <2>3, <2>4, <3>1
    <3> QED BY <2>2, <3>2
  <2>6. j + 1 \in i .. Len(w)
    BY <1>1
  <2> QED BY <2>5, <2>6
<1>4. \A j \in i .. Len(w) : j \in S
  <2>1. i \in Nat /\ Len(w) \in Nat
    BY <1>1
  <2>2. \A j \in i .. Len(w) - 1 : j \in S => j + 1 \in S
    BY <1>3
  <2> HIDE DEF S
  <2> QED BY <1>2, <2>1, <2>2, Climb
<1> QED BY <1>4

-----------------------------------------------------------------------------
(* Iteration *)

Iterates(n, first, step, g, V) ==
  /\ g \in [0 .. n -> V]
  /\ \A j \in 0 .. n : g[j] = IF j = 0 THEN first ELSE step[j][g[j - 1]]

\* A loop of n turns has its values: there is a function that takes each turn
\* from what the turn before left.
LEMMA IterationExists ==
  ASSUME NEW V, NEW N \in Nat, NEW first \in V, NEW step \in [1 .. N -> [V -> V]]
  PROVE  \E g : Iterates(N, first, step, g, V)
<1> DEFINE S == {n \in 0 .. N : \E g : Iterates(n, first, step, g, V)}
<1>1. 0 \in S
  <2> DEFINE z == [j \in 0 .. 0 |-> first]
  <2>1. Iterates(0, first, step, z, V)
    BY DEF Iterates
  <2> QED BY <2>1
<1>2. ASSUME NEW n \in 0 .. N - 1, n \in S PROVE n + 1 \in S
  <2>1. PICK g : Iterates(n, first, step, g, V)
    BY <1>2
  <2> DEFINE last == step[n + 1][g[n]]
             h == [j \in 0 .. n + 1 |-> IF j = n + 1 THEN last ELSE g[j]]
  <2>2. g \in [0 .. n -> V] /\ last \in V
    <3>1. g \in [0 .. n -> V] /\ n \in 0 .. n /\ n + 1 \in 1 .. N
      BY <2>1 DEF Iterates
    <3>2. g[n] \in V /\ step[n + 1] \in [V -> V]
      BY <3>1
    <3> QED BY <3>1, <3>2
  <2> HIDE DEF last
  <2>3. h \in [0 .. n + 1 -> V]
    BY <2>2
  <2>4. ASSUME NEW j \in 0 .. n + 1
        PROVE  h[j] = IF j = 0 THEN first ELSE step[j][h[j - 1]]
    <3>1. CASE j = n + 1
      <4>1. j # 0 /\ j - 1 = n /\ n \in 0 .. n + 1 /\ n # n + 1
        BY <3>1
      <4>2. h[j] = last /\ h[n] = g[n]
        BY <3>1
      <4> HIDE DEF h
      <4> QED BY <3>1, <4>1, <4>2 DEF last
    <3>2. CASE j # n + 1
      <4>1. j \in 0 .. n /\ (j # 0 => j - 1 \in 0 .. n)
        BY <3>2
      <4>2. \A k \in 0 .. n : h[k] = g[k]
        OBVIOUS
      <4>3. g[j] = IF j = 0 THEN first ELSE step[j][g[j - 1]]
        BY <2>1, <4>1 DEF Iterates
      <4> HIDE DEF h
      <4> QED BY <4>1, <4>2, <4>3
    <3> QED BY <3>1, <3>2
  <2>5. Iterates(n + 1, first, step, h, V)
    BY <2>3, <2>4 DEF Iterates
  <2> QED BY <2>5
<1>3. \A n \in 0 .. N : n \in S
  <2>1. \A n \in 0 .. N - 1 : n \in S => n + 1 \in S
    BY <1>2
  <2> HIDE DEF S
  <2> QED BY <1>1, <2>1, Climb
<1> QED BY <1>3

-----------------------------------------------------------------------------
(* Joined lists *)

\* Where each list of w starts in what is joined.
Starts(w, start) ==
  /\ start \in [0 .. Len(w) -> Nat]
  /\ start[0] = 0
  /\ \A n \in 1 .. Len(w) : start[n] = start[n - 1] + Len(w[n])

LEMMA StartsExist ==
  ASSUME NEW T, NEW w \in Seq(Seq(T))
  PROVE  \E start : Starts(w, start)
<1> DEFINE lengths == [n \in 1 .. Len(w) |-> Len(w[n])]
<1>1. Len(w) \in Nat /\ \A n \in 1 .. Len(w) : Len(w[n]) \in Nat
  BY LenProperties, ElementOfSeq
<1>2. lengths \in [1 .. Len(w) -> Nat]
  BY <1>1
<1>3. \A n \in 1 .. Len(w) : lengths[n] = Len(w[n])
  OBVIOUS
<1> HIDE DEF lengths
<1>4. lengths \in Seq(Nat) /\ Len(lengths) = Len(w)
  <2>1. PICK n \in Nat : n = Len(w)
    BY <1>1
  <2>2. lengths \in [1 .. n -> Nat]
    BY <1>2, <2>1
  <2>3. lengths \in Seq(Nat)
    BY <2>2, SeqDef
  <2> QED BY <2>1, <2>2, <2>3, LenProperties
<1>5. Starts(w, Total(lengths))
  BY <1>3, <1>4, TotalForms DEF Starts
<1> QED BY <1>5

\* PartsJoined(w, T, h): h[n] is the first n lists of w in one.
PartsJoined(w, T, h) ==
  /\ h \in [0 .. Len(w) -> Seq(T)]
  /\ h[0] = <<>>
  /\ \A n \in 1 .. Len(w) : h[n] = h[n - 1] \o w[n]
  /\ Joined(w) = h[Len(w)]

LEMMA JoinedPrefixes ==
  ASSUME NEW T, NEW w \in Seq(Seq(T))
  PROVE  \E h : PartsJoined(w, T, h)
<1> DEFINE N == Len(w)
           Step(f) == [n \in 0 .. N |-> IF n = 0 THEN <<>> ELSE f[n - 1] \o w[n]]
           step == [n \in 1 .. N |-> [v \in Seq(T) |-> v \o w[n]]]
<1>1. N \in Nat /\ \A n \in 1 .. N : w[n] \in Seq(T) /\ Len(w[n]) \in Nat
  BY LenProperties, ElementOfSeq
<1>2. \A n \in 1 .. N : \A v \in Seq(T) : v \o w[n] \in Seq(T)
  BY <1>1, ConcatProperties
<1>3. step \in [1 .. N -> [Seq(T) -> Seq(T)]]
  BY <1>2
<1>4. <<>> \in Seq(T)
  BY EmptySeq
<1>5. \A n \in 1 .. N : \A v \in Seq(T) : step[n][v] = v \o w[n]
  OBVIOUS
<1> HIDE DEF step
<1>6. PICK g : Iterates(N, <<>>, step, g, Seq(T))
  BY <1>1, <1>3, <1>4, IterationExists
<1>7. /\ g \in [0 .. N -> Seq(T)]
      /\ g[0] = <<>>
      /\ \A n \in 1 .. N : g[n] = g[n - 1] \o w[n]
  <2>1. g \in [0 .. N -> Seq(T)]
    BY <1>6 DEF Iterates
  <2>2. \A n \in 0 .. N : g[n] = IF n = 0 THEN <<>> ELSE step[n][g[n - 1]]
    BY <1>6 DEF Iterates
  <2>3. ASSUME NEW n \in 1 .. N PROVE g[n] = g[n - 1] \o w[n]
    <3>1. n \in 0 .. N /\ n # 0 /\ n - 1 \in 0 .. N
      BY <1>1
    <3> QED BY <1>5, <2>1, <2>2, <3>1
  <2>4. g[0] = <<>>
    <3>1. 0 \in 0 .. N
      BY <1>1
    <3> QED BY <2>2, <3>1
  <2> QED BY <2>1, <2>3, <2>4
<1>8. g = Step(g)
  <2>1. \A n \in 0 .. N : n = 0 \/ n \in 1 .. N
    BY <1>1
  <2> QED BY <1>7, <2>1
<1> DEFINE joined == CHOOSE f : f = Step(f)
<1>9. Joined(w) = joined[N]
  BY DEF Joined
<1>10. joined = Step(joined)
  BY <1>8
<1>11. /\ joined = [n \in 0 .. N |-> joined[n]]
       /\ \A n \in 0 .. N : joined[n] = IF n = 0 THEN <<>> ELSE joined[n - 1] \o w[n]
  BY <1>10
<1> HIDE DEF joined, Step
<1>12. joined[0] = <<>> /\ \A n \in 1 .. N : joined[n] = joined[n - 1] \o w[n]
  <2>1. 0 \in 0 .. N /\ \A n \in 1 .. N : n \in 0 .. N /\ n # 0
    BY <1>1
  <2> QED BY <1>11, <2>1
<1> DEFINE S == {n \in 0 .. N : joined[n] = g[n]}
<1>13. 0 \in S
  BY <1>1, <1>7, <1>12
<1>14. ASSUME NEW n \in 0 .. N - 1, n \in S PROVE n + 1 \in S
  <2>1. n + 1 \in 1 .. N /\ n + 1 \in 0 .. N /\ (n + 1) - 1 = n
    BY <1>1
  <2>2. joined[n + 1] = joined[n] \o w[n + 1] /\ g[n + 1] = g[n] \o w[n + 1]
    BY <1>7, <1>12, <2>1
  <2>3. joined[n] = g[n]
    BY <1>14
  <2> QED BY <2>1, <2>2, <2>3
<1>15. \A n \in 0 .. N : joined[n] = g[n]
  <2> HIDE DEF S
  <2>1. \A n \in 0 .. N : n \in S
    BY <1>1, <1>13, <1>14, Climb
  <2> QED BY <2>1 DEF S
<1>16. PartsJoined(w, T, g)
  <2>1. N \in 0 .. N
    BY <1>1
  <2> QED BY <1>7, <1>9, <1>15, <2>1 DEF PartsJoined
<1> QED BY <1>16

\* The lists of w come in J one after the other, and nothing else does.
Joins(J, w, start) ==
  /\ Len(J) = start[Len(w)]
  /\ \A n \in 1 .. Len(w) : \A a \in 1 .. Len(w[n]) :
       /\ start[n - 1] + a \in 1 .. Len(J)
       /\ J[start[n - 1] + a] = w[n][a]
  /\ \A j \in 1 .. Len(J) :
       \E n \in 1 .. Len(w) : \E a \in 1 .. Len(w[n]) : j = start[n - 1] + a

LEMMA JoinedForms ==
  ASSUME NEW T, NEW w \in Seq(Seq(T)), NEW start, Starts(w, start)
  PROVE  Joined(w) \in Seq(T) /\ Joins(Joined(w), w, start)
<1> DEFINE N == Len(w)
<1>1. N \in Nat /\ \A n \in 1 .. N : w[n] \in Seq(T) /\ Len(w[n]) \in Nat
  BY LenProperties, ElementOfSeq
<1>2. <<>> \in Seq(T)
  BY EmptySeq
<1>3. PICK joined : PartsJoined(w, T, joined)
  BY JoinedPrefixes
<1>4. Joined(w) = joined[N]
  BY <1>3 DEF PartsJoined
<1>5. \A n \in 0 .. N : joined[n] = IF n = 0 THEN <<>> ELSE joined[n - 1] \o w[n]
  <2>1. \A n \in 0 .. N : n = 0 \/ n \in 1 .. N
    BY <1>1
  <2> QED BY <1>3, <2>1 DEF PartsJoined
<1>6. /\ start \in [0 .. N -> Nat] /\ start[0] = 0
      /\ \A n \in 1 .. N : start[n] = start[n - 1] + Len(w[n])
  BY DEF Starts
\* Up to list n, by the way.
<1> DEFINE Up(n) ==
      /\ joined[n] \in Seq(T)
      /\ Len(joined[n]) = start[n]
      /\ \A m \in 1 .. N : m <= n => \A a \in 1 .. Len(w[m]) :
           /\ start[m - 1] + a \in 1 .. start[n]
           /\ joined[n][start[m - 1] + a] = w[m][a]
      /\ \A j \in 1 .. start[n] :
           \E m \in 1 .. N : \E a \in 1 .. Len(w[m]) : j = start[m - 1] + a
    S == {n \in 0 .. N : Up(n)}
<1>7. 0 \in S
  <2>1. joined[0] = <<>>
    BY <1>1, <1>5
  <2>2. Len(<<>>) = 0
    OBVIOUS
  <2>3. Up(0)
    BY <1>1, <1>2, <1>6, <2>1, <2>2
  <2> QED BY <1>1, <2>3
<1>8. ASSUME NEW n \in 0 .. N - 1, n \in S PROVE n + 1 \in S
  <2>1. n + 1 \in 1 .. N /\ n + 1 \in 0 .. N /\ (n + 1) - 1 = n /\ n \in 0 .. N
    BY <1>1
  <2>2. Up(n)
    BY <1>8
  <2> DEFINE v == joined[n]
             x == w[n + 1]
  <2>3. /\ joined[n + 1] = v \o x
        /\ v \in Seq(T) /\ x \in Seq(T)
        /\ Len(v) = start[n] /\ start[n] \in Nat /\ start[n + 1] = start[n] + Len(x)
        /\ Len(x) \in Nat
    <3>1. n + 1 # 0
      BY <1>1
    <3>2. joined[n + 1] = v \o x
      BY <1>5, <2>1, <3>1
    <3>3. x \in Seq(T) /\ Len(x) \in Nat
      BY <1>1, <2>1
    <3>4. start[n] \in Nat /\ start[n + 1] = start[n] + Len(x)
      BY <1>6, <2>1
    <3>5. v \in Seq(T) /\ Len(v) = start[n]
      BY <2>2
    <3> QED BY <3>2, <3>3, <3>4, <3>5
  <2>4. /\ joined[n + 1] \in Seq(T)
        /\ Len(joined[n + 1]) = start[n + 1]
        /\ \A j \in 1 .. start[n + 1] :
             joined[n + 1][j] = IF j <= start[n] THEN v[j] ELSE x[j - start[n]]
    <3>1. /\ v \o x \in Seq(T)
          /\ Len(v \o x) = Len(v) + Len(x)
          /\ \A j \in 1 .. (Len(v) + Len(x)) :
               (v \o x)[j] = IF j <= Len(v) THEN v[j] ELSE x[j - Len(v)]
      BY <2>3, ConcatProperties
    <3> QED BY <2>3, <3>1
  <2>5. PICK b \in Nat, l \in Nat : b = start[n] /\ l = Len(x) /\ start[n + 1] = b + l
    BY <2>3
  <2>6. ASSUME NEW m \in 1 .. N, m <= n + 1, NEW a \in 1 .. Len(w[m])
        PROVE  /\ start[m - 1] + a \in 1 .. start[n + 1]
               /\ joined[n + 1][start[m - 1] + a] = w[m][a]
    <3>1. CASE m <= n
      <4>1. start[m - 1] + a \in 1 .. start[n] /\ v[start[m - 1] + a] = w[m][a]
        BY <2>2, <3>1
      <4>2. start[m - 1] + a \in 1 .. start[n + 1] /\ start[m - 1] + a <= start[n]
        <5>1. PICK k \in 1 .. b : k = start[m - 1] + a
          BY <2>5, <4>1
        <5>2. k \in 1 .. b + l /\ k <= b
          OBVIOUS
        <5> QED BY <2>5, <5>1, <5>2
      <4> QED BY <2>4, <4>1, <4>2
    <3>2. CASE m = n + 1
      <4>1. m - 1 = n /\ a \in 1 .. Len(x)
        BY <2>1, <3>2
      <4>2. /\ start[n] + a \in 1 .. start[n + 1] /\ ~(start[n] + a <= start[n])
            /\ (start[n] + a) - start[n] = a
        <5>1. a \in 1 .. l
          BY <2>5, <4>1
        <5>2. b + a \in 1 .. b + l /\ ~(b + a <= b) /\ (b + a) - b = a
          BY <5>1
        <5> QED BY <2>5, <5>2
      <4>3. joined[n + 1][start[n] + a] = x[a]
        BY <2>4, <4>2
      <4> QED BY <3>2, <4>1, <4>2, <4>3
    <3> QED BY <2>1, <2>6, <3>1, <3>2
  <2>7. ASSUME NEW j \in 1 .. start[n + 1]
        PROVE  \E m \in 1 .. N : \E a \in 1 .. Len(w[m]) : j = start[m - 1] + a
    <3>1. CASE j <= start[n]
      <4>1. j \in 1 .. start[n]
        <5>1. j \in 1 .. b + l /\ j <= b
          BY <2>5, <3>1
        <5>2. j \in 1 .. b
          BY <5>1
        <5> QED BY <2>5, <5>2
      <4> QED BY <2>2, <4>1
    <3>2. CASE j > start[n]
      <4>1. j - start[n] \in 1 .. Len(x) /\ j = start[n] + (j - start[n])
        <5>1. j \in 1 .. b + l /\ j > b
          BY <2>5, <3>2
        <5>2. j - b \in 1 .. l /\ j = b + (j - b)
          BY <5>1
        <5> QED BY <2>5, <5>2
      <4>2. j = start[(n + 1) - 1] + (j - start[n])
        BY <2>1, <4>1
      <4> QED BY <2>1, <4>1, <4>2
    <3> QED BY <2>3, <3>1, <3>2
  <2>8. Up(n + 1)
    BY <2>4, <2>6, <2>7
  <2> QED BY <2>1, <2>8
<1>9. \A n \in 0 .. N : n \in S
  <2>1. \A n \in 0 .. N - 1 : n \in S => n + 1 \in S
    BY <1>8
  <2> HIDE DEF S
  <2> QED BY <1>1, <1>7, <2>1, Climb
<1>10. Up(N)
  <2>1. N \in S
    <3> HIDE DEF S
    <3> QED BY <1>1, <1>9
  <2> QED BY <2>1
<1>11. Len(Joined(w)) = start[N]
  BY <1>4, <1>10
<1> QED BY <1>4, <1>10, <1>11 DEF Joins

-----------------------------------------------------------------------------
(* Maximum *)

\* One of finitely many numbers is the largest.
LEMMA Largest ==
  ASSUME NEW N \in Nat, N >= 1, NEW f \in [1 .. N -> Nat]
  PROVE  \E i \in 1 .. N : \A j \in 1 .. N : f[i] >= f[j]
<1> DEFINE S == {n \in 1 .. N : \E i \in 1 .. n : \A j \in 1 .. n : f[i] >= f[j]}
<1>1. 1 \in S
  <2>1. f[1] \in Nat /\ 1 \in 1 .. N /\ \A j \in 1 .. 1 : j = 1
    OBVIOUS
  <2>2. \A j \in 1 .. 1 : f[1] >= f[j]
    BY <2>1
  <2> QED BY <2>1, <2>2
<1>2. ASSUME NEW n \in 1 .. N - 1, n \in S PROVE n + 1 \in S
  <2>1. PICK i \in 1 .. n : \A j \in 1 .. n : f[i] >= f[j]
    BY <1>2
  <2>2. CASE f[i] >= f[n + 1]
    BY <2>1, <2>2
  <2>3. CASE ~(f[i] >= f[n + 1])
    <3>1. \A j \in 1 .. n : f[j] \in Nat
      OBVIOUS
    <3>2. n + 1 \in 1 .. N /\ f[n + 1] \in Nat
      OBVIOUS
    <3>3. \A j \in 1 .. n + 1 : f[n + 1] >= f[j]
      <4>1. PICK x \in Nat, y \in Nat : x = f[i] /\ y = f[n + 1] /\ y > x
        BY <2>3, <3>1, <3>2
      <4>2. ASSUME NEW j \in 1 .. n + 1 PROVE y >= f[j]
        <5>1. CASE j = n + 1
          BY <4>1, <5>1
        <5>2. CASE j \in 1 .. n
          <6>1. PICK z \in Nat : z = f[j] /\ x >= z
            BY <2>1, <3>1, <4>1, <5>2
          <6>2. y >= z
            BY <4>1, <6>1
          <6> QED BY <6>1, <6>2
        <5> QED BY <5>1, <5>2
      <4> QED BY <4>1, <4>2
    <3> QED BY <3>3
  <2> QED BY <2>2, <2>3
<1>3. \A n \in 1 .. N : n \in S
  <2>1. \A n \in 1 .. N - 1 : n \in S => n + 1 \in S
    BY <1>2
  <2> HIDE DEF S
  <2> QED BY <1>1, <2>1, Climb
<1>4. N \in S
  <2> HIDE DEF S
  <2> QED BY <1>3
<1> QED BY <1>4

\* Where only the last list holds something, that is what they join to.
LEMMA JoinedLast ==
  ASSUME NEW T, NEW w \in Seq(Seq(T)), Len(w) >= 1, \A n \in 1 .. Len(w) - 1 : w[n] = <<>>
  PROVE  Joined(w) = w[Len(w)]
<1>1. PICK N \in Nat : N = Len(w) /\ N >= 1 /\ \A n \in 1 .. N : w[n] \in Seq(T)
  BY LenProperties, ElementOfSeq
<1>2. PICK h : PartsJoined(w, T, h)
  BY JoinedPrefixes
<1>3. /\ h[0] = <<>> /\ Joined(w) = h[N]
      /\ \A n \in 1 .. N : h[n] = h[n - 1] \o w[n]
  BY <1>1, <1>2 DEF PartsJoined
<1>4. <<>> \in Seq(T) /\ \A v \in Seq(T) : <<>> \o v = v
  BY EmptySeq, ConcatEmptySeq
<1> DEFINE S == {n \in 0 .. N - 1 : h[n] = <<>>}
<1>5. 0 \in S
  BY <1>1, <1>3
<1>6. ASSUME NEW n \in 0 .. (N - 1) - 1, n \in S PROVE n + 1 \in S
  <2>1. n + 1 \in 1 .. N /\ n + 1 \in 0 .. N - 1 /\ n + 1 \in 1 .. N - 1 /\ (n + 1) - 1 = n
    BY <1>1
  <2>2. h[n + 1] = <<>> \o w[n + 1] /\ w[n + 1] = <<>>
    BY <1>1, <1>3, <1>6, <2>1
  <2> QED BY <1>4, <2>1, <2>2
<1>7. h[N - 1] = <<>>
  <2>1. PICK M \in Nat : M = N - 1
    BY <1>1
  <2> HIDE DEF S
  <2>2. \A n \in 0 .. M - 1 : n \in S => n + 1 \in S
    BY <1>6, <2>1
  <2>3. \A n \in 0 .. M : n \in S
    BY <1>5, <2>2, Climb
  <2>4. M \in S
    BY <2>1, <2>3
  <2> QED BY <2>1, <2>4 DEF S
<1>8. h[N] = w[N]
  <2>1. N \in 1 .. N /\ w[N] \in Seq(T)
    BY <1>1
  <2> QED BY <1>3, <1>4, <1>7, <2>1
<1> QED BY <1>1, <1>3, <1>8
=============================================================================
