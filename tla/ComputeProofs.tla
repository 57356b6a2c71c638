---------------------------- MODULE ComputeProofs ----------------------------
(***************************************************************************)
(* Proofs about the two places where compute is paid for: the stack of     *)
(* verified tasks (Merkle, ZKCompute, ResourceAllocator, ZKComputeStack)   *)
(* and the futures market with its oracle (ComputeFutures, PriceOracle).   *)
(* They hold for any number of tasks, wallets, feeders, traders, prices    *)
(* and orders.                                                             *)
(***************************************************************************)
EXTENDS ZKComputeStack, ComputeFutures, SumTheorems, TLAPS

-----------------------------------------------------------------------------
\* Merkle: a proof in a tree without promoted nodes verifies for its leaf alone.

\* Counting up to n: what 0 has, and k + 1 has if k has it, all have.
LEMMA CountingUp ==
  ASSUME NEW n \in Nat, NEW Good, 0 \in Good,
         \A k \in Nat : k < n /\ k \in Good => k + 1 \in Good
  PROVE  \A k \in 0..n : k \in Good
  <1> DEFINE S == 0..n
             Downward(T) == \A k \in T : k = 0 \/ k - 1 \in T
             Fine == {T \in SUBSET S : Downward(T) => T \subseteq Good}
  <1>1. ASSUME NEW T \in SUBSET S, \A U \in SUBSET T : U # T => U \in Fine
        PROVE  T \in Fine
    <2> SUFFICES ASSUME Downward(T), NEW k \in T PROVE k \in Good
      OBVIOUS
    <2>1. CASE k = 0
      BY <2>1
    <2>2. CASE k # 0
      <3> DEFINE U == {j \in T : j < k}
      <3>1. k - 1 \in U /\ U # T /\ U \in SUBSET T
        BY <2>2
      <3>2. Downward(U)
        <4> SUFFICES ASSUME NEW j \in U, j # 0 PROVE j - 1 \in U
          OBVIOUS
        <4>1. j \in T /\ j < k /\ j - 1 \in T
          OBVIOUS
        <4>2. j - 1 < k
          BY <4>1
        <4> QED
          BY <4>1, <4>2
      <3>3. U \subseteq Good
        BY <1>1, <3>1, <3>2
      <3>4. k - 1 \in Nat /\ k - 1 < n /\ k - 1 \in Good /\ (k - 1) + 1 = k
        BY <2>2, <3>1, <3>3
      <3> QED
        BY <3>4
    <2> QED
      BY <2>1, <2>2
  <1>2. IsFiniteSet(S)
    BY FS_Interval
  <1>3. \A T \in SUBSET S : T \in Fine
    <2> HIDE DEF Fine, S
    <2> QED
      BY <1>1, <1>2, SubsetInduction
  <1>4. Downward(S)
    OBVIOUS
  <1> QED
    BY <1>3, <1>4

\* The recursions of the tree: its levels, the indices and the siblings on the
\* way up, and the hashes of its verification.
IsLevels(f, s) == f = [k \in 0..Len(s) |-> IF k = 0 THEN s ELSE NextLevel(f[k - 1])]
IsIndexUp(f, i, n) == f = [k \in 0..n |-> IF k = 0 THEN i ELSE f[k - 1] \div 2]

AddedTo(path, level, sibling) ==
    IF Len(level) > 1 /\ sibling < Len(level) THEN Append(path, level[sibling + 1]) ELSE path
IsPath(f, s, i) ==
    f = [k \in 0..Len(s) |-> IF k = 0 THEN << >>
                             ELSE AddedTo(f[k - 1], Levels(s)[k - 1],
                                          SiblingIndex(IndexUp(i, Len(s))[k - 1]))]

Combined(hash, index, sibling) ==
    IF index % 2 = 0 THEN Internal(hash, sibling) ELSE Internal(sibling, hash)
IsHashUp(f, leaf, i, siblings) ==
    f = [k \in 0..Len(siblings) |->
            IF k = 0 THEN leaf
            ELSE Combined(f[k - 1], IndexUp(i, Len(siblings))[k - 1], siblings[k])]

LEMMA LevelsDefined ==
  ASSUME NEW s, Len(s) \in Nat
  PROVE  IsLevels(Levels(s), s)
  <1> DEFINE n == Len(s)
             Upto(f, m) == f = [k \in 0..m |-> IF k = 0 THEN s ELSE NextLevel(f[k - 1])]
             Good == {m \in 0..n : \E f : Upto(f, m)}
  <1>1. 0 \in Good
    <2> DEFINE g == [k \in 0..0 |-> s]
    <2>1. Upto(g, 0)
      OBVIOUS
    <2> HIDE DEF g, Upto
    <2> QED
      BY <2>1
  <1>2. ASSUME NEW m \in Nat, m < n, m \in Good
        PROVE  m + 1 \in Good
    <2>1. PICK f : Upto(f, m)
      BY <1>2
    <2> DEFINE g == [k \in 0..m + 1 |-> IF k <= m THEN f[k] ELSE NextLevel(f[m])]
    <2>2. ASSUME NEW k \in 0..m + 1
          PROVE  g[k] = IF k = 0 THEN s ELSE NextLevel(g[k - 1])
      <3>1. k - 1 <= m /\ (k # 0 => g[k - 1] = f[k - 1])
        OBVIOUS
      <3>2. CASE k <= m
        BY <2>1, <3>1, <3>2
      <3>3. CASE k = m + 1
        BY <3>1, <3>3
      <3> QED
        BY <3>2, <3>3
    <2>3. Upto(g, m + 1)
      BY <2>2
    <2> HIDE DEF g, Upto
    <2> QED
      BY <1>2, <2>3
  <1>3. n \in Good
    <2>1. n \in Nat /\ n \in 0..n
      OBVIOUS
    <2> HIDE DEF n, Good
    <2> QED
      BY <1>1, <1>2, <2>1, CountingUp
  <1>4. \E f : IsLevels(f, s)
    BY <1>3 DEF IsLevels
  <1>5. Levels(s) = CHOOSE f : IsLevels(f, s)
    BY DEF Levels, IsLevels
  <1> QED
    BY <1>4, <1>5

LEMMA IndexUpDefined ==
  ASSUME NEW i, NEW n \in Nat
  PROVE  IsIndexUp(IndexUp(i, n), i, n)
  <1> DEFINE Good == {m \in 0..n : \E f : IsIndexUp(f, i, m)}
  <1>1. 0 \in Good
    <2> DEFINE g == [k \in 0..0 |-> i]
    <2>1. IsIndexUp(g, i, 0)
      BY DEF IsIndexUp
    <2> HIDE DEF g
    <2> QED
      BY <2>1
  <1>2. ASSUME NEW m \in Nat, m < n, m \in Good
        PROVE  m + 1 \in Good
    <2>1. PICK f : IsIndexUp(f, i, m)
      BY <1>2
    <2> DEFINE g == [k \in 0..m + 1 |-> IF k <= m THEN f[k] ELSE f[m] \div 2]
    <2>2. ASSUME NEW k \in 0..m + 1
          PROVE  g[k] = IF k = 0 THEN i ELSE g[k - 1] \div 2
      <3>1. k - 1 <= m /\ (k # 0 => g[k - 1] = f[k - 1])
        OBVIOUS
      <3>2. CASE k <= m
        <4>1. f[k] = IF k = 0 THEN i ELSE f[k - 1] \div 2
          BY <2>1, <3>2 DEF IsIndexUp
        <4> QED
          BY <3>1, <3>2, <4>1
      <3>3. CASE k = m + 1
        BY <3>1, <3>3
      <3> QED
        BY <3>2, <3>3
    <2>3. IsIndexUp(g, i, m + 1)
      BY <2>2 DEF IsIndexUp
    <2> HIDE DEF g
    <2> QED
      BY <1>2, <2>3
  <1>3. n \in Good
    <2> HIDE DEF Good
    <2> QED
      BY <1>1, <1>2, CountingUp
  <1>4. IndexUp(i, n) = CHOOSE f : IsIndexUp(f, i, n)
    BY DEF IndexUp, IsIndexUp
  <1> QED
    BY <1>3, <1>4

LEMMA PathDefined ==
  ASSUME NEW s, Len(s) \in Nat, NEW i
  PROVE  \E f : IsPath(f, s, i) /\ Siblings(s, i) = f[Len(s)]
  <1> DEFINE n == Len(s)
             Next(path, k) == AddedTo(path, Levels(s)[k - 1], SiblingIndex(IndexUp(i, n)[k - 1]))
             Upto(f, m) == f = [k \in 0..m |-> IF k = 0 THEN << >> ELSE Next(f[k - 1], k)]
             Good == {m \in 0..n : \E f : Upto(f, m)}
  <1>1. 0 \in Good
    <2> DEFINE g == [k \in 0..0 |-> << >>]
    <2>1. Upto(g, 0)
      OBVIOUS
    <2> HIDE DEF g, Upto
    <2> QED
      BY <2>1
  <1>2. ASSUME NEW m \in Nat, m < n, m \in Good
        PROVE  m + 1 \in Good
    <2>1. PICK f : Upto(f, m)
      BY <1>2
    <2> DEFINE g == [k \in 0..m + 1 |-> IF k <= m THEN f[k] ELSE Next(f[m], m + 1)]
    <2>2. ASSUME NEW k \in 0..m + 1
          PROVE  g[k] = IF k = 0 THEN << >> ELSE Next(g[k - 1], k)
      <3> HIDE DEF Next
      <3>1. k - 1 <= m /\ (k # 0 => g[k - 1] = f[k - 1])
        OBVIOUS
      <3>2. CASE k <= m
        BY <2>1, <3>1, <3>2
      <3>3. CASE k = m + 1
        BY <3>1, <3>3
      <3> QED
        BY <3>2, <3>3
    <2>3. Upto(g, m + 1)
      <3> HIDE DEF Next
      <3> QED
        BY <2>2
    <2> HIDE DEF g, Upto
    <2> QED
      BY <1>2, <2>3
  <1>3. n \in Good
    <2>1. n \in Nat /\ n \in 0..n
      OBVIOUS
    <2> HIDE DEF n, Good
    <2> QED
      BY <1>1, <1>2, <2>1, CountingUp
  <1>4. \E f : IsPath(f, s, i)
    BY <1>3 DEF IsPath
  <1>5. Siblings(s, i) = (CHOOSE f : IsPath(f, s, i))[Len(s)]
    BY DEF Siblings, IsPath, AddedTo
  <1> QED
    BY <1>4, <1>5

LEMMA HashUpDefined ==
  ASSUME NEW leaf, NEW i, NEW siblings, Len(siblings) \in Nat
  PROVE  \E f : IsHashUp(f, leaf, i, siblings) /\ HashUp(leaf, i, siblings) = f[Len(siblings)]
  <1> DEFINE n == Len(siblings)
             Next(hash, k) == Combined(hash, IndexUp(i, n)[k - 1], siblings[k])
             Upto(f, m) == f = [k \in 0..m |-> IF k = 0 THEN leaf ELSE Next(f[k - 1], k)]
             Good == {m \in 0..n : \E f : Upto(f, m)}
  <1>1. 0 \in Good
    <2> DEFINE g == [k \in 0..0 |-> leaf]
    <2>1. Upto(g, 0)
      OBVIOUS
    <2> HIDE DEF g, Upto
    <2> QED
      BY <2>1
  <1>2. ASSUME NEW m \in Nat, m < n, m \in Good
        PROVE  m + 1 \in Good
    <2>1. PICK f : Upto(f, m)
      BY <1>2
    <2> DEFINE g == [k \in 0..m + 1 |-> IF k <= m THEN f[k] ELSE Next(f[m], m + 1)]
    <2>2. ASSUME NEW k \in 0..m + 1
          PROVE  g[k] = IF k = 0 THEN leaf ELSE Next(g[k - 1], k)
      <3> HIDE DEF Next
      <3>1. k - 1 <= m /\ (k # 0 => g[k - 1] = f[k - 1])
        OBVIOUS
      <3>2. CASE k <= m
        BY <2>1, <3>1, <3>2
      <3>3. CASE k = m + 1
        BY <3>1, <3>3
      <3> QED
        BY <3>2, <3>3
    <2>3. Upto(g, m + 1)
      <3> HIDE DEF Next
      <3> QED
        BY <2>2
    <2> HIDE DEF g, Upto
    <2> QED
      BY <1>2, <2>3
  <1>3. n \in Good
    <2>1. n \in Nat /\ n \in 0..n
      OBVIOUS
    <2> HIDE DEF n, Good
    <2> QED
      BY <1>1, <1>2, <2>1, CountingUp
  <1>4. \E f : IsHashUp(f, leaf, i, siblings)
    BY <1>3 DEF IsHashUp
  <1>5. HashUp(leaf, i, siblings) = (CHOOSE f : IsHashUp(f, leaf, i, siblings))[Len(siblings)]
    BY DEF HashUp, IsHashUp, Combined
  <1> QED
    BY <1>4, <1>5

\* A level in these words.
IsLevel(level) == Len(level) \in Nat \ {0} /\ level = [q \in 1..Len(level) |-> level[q]]

LEMMA NextLevelFacts ==
  ASSUME NEW level, IsLevel(level), Len(level) = 1 \/ Len(level) % 2 = 0
  PROVE  /\ IsLevel(NextLevel(level))
         /\ Len(level) = 1 => NextLevel(level) = level
         /\ Len(level) > 1 => Len(NextLevel(level)) < Len(level)
         /\ \A x \in 0..Len(level) - 1 : x \div 2 \in 0..Len(NextLevel(level)) - 1
         /\ Len(level) > 1 => \A x \in 0..Len(level) - 1 :
               /\ SiblingIndex(x) \in 0..Len(level) - 1
               /\ NextLevel(level)[x \div 2 + 1]
                     = Combined(level[x + 1], x, level[SiblingIndex(x) + 1])
  <1> DEFINE n == Len(level)
             m == (n + 1) \div 2
             next == NextLevel(level)
  <1>1. n \in Nat \ {0} /\ level = [q \in 1..n |-> level[q]] /\ (n = 1 \/ n % 2 = 0)
    BY DEF IsLevel
  <1>2. next = [k \in 1..m |-> IF 2 * k <= n THEN Internal(level[2 * k - 1], level[2 * k])
                                             ELSE level[2 * k - 1]]
    BY DEF NextLevel
  <1> HIDE DEF n, next
  <1>3. m \in Nat \ {0} /\ m <= n /\ (n = 1 => m = 1) /\ (n > 1 => 2 * m = n)
    BY <1>1
  <1> HIDE DEF m
  <1>4. Len(next) = m /\ next = [q \in 1..m |-> next[q]]
    BY <1>2, <1>3
  <1>5. IsLevel(next)
    BY <1>3, <1>4 DEF IsLevel
  <1>6. n = 1 => next = level
    <2> SUFFICES ASSUME n = 1 PROVE next = level
      OBVIOUS
    <2>1. m = 1
      BY <1>3
    <2>2. next = [k \in 1..1 |-> level[2 * k - 1]]
      BY <1>2, <2>1
    <2>3. level = [k \in 1..1 |-> level[k]]
      BY <1>1
    <2>4. \A k \in 1..1 : 2 * k - 1 = k
      OBVIOUS
    <2> QED
      BY <2>2, <2>3, <2>4
  <1>7. n > 1 => m < n
    BY <1>1, <1>3
  <1>8. \A x \in 0..n - 1 : x \div 2 \in 0..m - 1
    BY <1>1, <1>3
  <1>9. ASSUME n > 1, NEW x \in 0..n - 1
        PROVE  /\ SiblingIndex(x) \in 0..n - 1
               /\ next[x \div 2 + 1] = Combined(level[x + 1], x, level[SiblingIndex(x) + 1])
    <2> DEFINE k == x \div 2 + 1
    <2>1. k \in 1..m /\ 2 * k <= n
      BY <1>1, <1>3, <1>9
    <2>2. next[k] = Internal(level[2 * k - 1], level[2 * k])
      <3> HIDE DEF k
      <3> QED
        BY <1>2, <2>1
    <2>3. CASE x % 2 = 0
      <3>1. 2 * k - 1 = x + 1 /\ 2 * k = (x + 1) + 1 /\ x + 1 <= n - 1
        <4>1. 2 * k - 1 = x + 1
          BY <2>3
        <4> HIDE DEF k
        <4> QED
          BY <1>1, <2>1, <4>1
      <3>2. SiblingIndex(x) = x + 1
        BY <2>3 DEF SiblingIndex
      <3> HIDE DEF k
      <3>3. next[k] = Combined(level[x + 1], x, level[SiblingIndex(x) + 1])
        BY <2>2, <2>3, <3>1, <3>2 DEF Combined
      <3> QED
        BY <1>1, <3>1, <3>2, <3>3 DEF k
    <2>4. CASE x % 2 # 0
      <3>1. 2 * k - 1 = (x - 1) + 1 /\ 2 * k = x + 1 /\ x - 1 \in Nat
        BY <2>4
      <3>2. SiblingIndex(x) = x - 1
        BY <2>4 DEF SiblingIndex
      <3> HIDE DEF k
      <3>3. next[k] = Combined(level[x + 1], x, level[SiblingIndex(x) + 1])
        BY <2>2, <2>4, <3>1, <3>2 DEF Combined
      <3> QED
        BY <1>1, <3>1, <3>2, <3>3 DEF k
    <2> QED
      BY <2>3, <2>4
  <1> QED
    BY <1>4, <1>5, <1>6, <1>7, <1>8, <1>9 DEF n, next

\* The way up from a leaf: where it is on every level, and that it arrives.
LEMMA WayUp ==
  ASSUME NEW S, NEW s \in Seq(S), s # << >>, NothingPromoted(s), NEW i \in 0..Len(s) - 1
  PROVE  \A k \in 0..Len(s) :
            /\ IsLevel(Levels(s)[k])
            /\ Len(Levels(s)[k]) = 1 \/ Len(Levels(s)[k]) % 2 = 0
            /\ Len(Levels(s)[k]) = 1 \/ Len(Levels(s)[k]) + k <= Len(s)
            /\ IndexUp(i, Len(s))[k] \in 0..Len(Levels(s)[k]) - 1
            /\ k < Len(s) => /\ Levels(s)[k + 1] = NextLevel(Levels(s)[k])
                             /\ IndexUp(i, Len(s))[k + 1] = IndexUp(i, Len(s))[k] \div 2
  <1> DEFINE n == Len(s)
             lv == Levels(s)
             ix == IndexUp(i, n)
             Fine(k) == /\ IsLevel(lv[k])
                        /\ Len(lv[k]) = 1 \/ Len(lv[k]) + k <= n
                        /\ ix[k] \in 0..Len(lv[k]) - 1
             Good == {k \in 0..n : Fine(k)}
  <1>1. n \in Nat /\ n >= 1 /\ s = [q \in 1..n |-> s[q]]
    OBVIOUS
  <1>2. /\ DOMAIN lv = 0..n
        /\ lv[0] = s
        /\ \A k \in Nat : k < n => lv[k + 1] = NextLevel(lv[k])
    <2>1. IsLevels(lv, s)
      BY <1>1, LevelsDefined
    <2>2. lv = [k \in 0..n |-> IF k = 0 THEN s ELSE NextLevel(lv[k - 1])]
      BY <2>1 DEF IsLevels
    <2> HIDE DEF lv, n
    <2>3. ASSUME NEW k \in Nat, k < n PROVE lv[k + 1] = NextLevel(lv[k])
      <3>1. k + 1 \in 0..n /\ k + 1 # 0 /\ (k + 1) - 1 = k
        BY <1>1, <2>3
      <3> QED
        BY <2>2, <3>1
    <2>4. DOMAIN lv = 0..n
      BY <2>2
    <2>5. lv[0] = s
      BY <1>1, <2>2
    <2> QED
      BY <2>3, <2>4, <2>5
  <1>3. ix[0] = i /\ \A k \in Nat : k < n => ix[k + 1] = ix[k] \div 2
    <2>1. ix = [k \in 0..n |-> IF k = 0 THEN i ELSE ix[k - 1] \div 2]
      BY <1>1, IndexUpDefined DEF IsIndexUp
    <2> HIDE DEF ix, n
    <2>2. ASSUME NEW k \in Nat, k < n PROVE ix[k + 1] = ix[k] \div 2
      <3>1. k + 1 \in 0..n /\ k + 1 # 0 /\ (k + 1) - 1 = k
        BY <1>1, <2>2
      <3> QED
        BY <2>1, <3>1
    <2>3. ix[0] = i
      BY <1>1, <2>1
    <2> QED
      BY <2>2, <2>3
  <1>4. \A k \in 0..n : Len(lv[k]) > 1 => Len(lv[k]) % 2 = 0
    BY <1>2 DEF NothingPromoted
  <1>5. i \in 0..n - 1
    OBVIOUS
  <1>6. 0 \in Good
    BY <1>1, <1>2, <1>3 DEF IsLevel
  <1> HIDE DEF n, lv, ix
  <1>7. ASSUME NEW k \in Nat, k < n, k \in Good
        PROVE  k + 1 \in Good
    <2>1. IsLevel(lv[k]) /\ (Len(lv[k]) = 1 \/ Len(lv[k]) % 2 = 0)
      <3> DEFINE a == Len(lv[k])
      <3>1. IsLevel(lv[k]) /\ a \in Nat \ {0} /\ (a > 1 => a % 2 = 0)
        BY <1>4, <1>7 DEF IsLevel
      <3>2. a = 1 \/ a > 1
        <4> HIDE DEF a
        <4> QED
          BY <3>1
      <3> QED
        BY <3>1, <3>2
    <2>2. lv[k + 1] = NextLevel(lv[k]) /\ ix[k + 1] = ix[k] \div 2
      BY <1>2, <1>3, <1>7
    <2>3. /\ IsLevel(lv[k + 1])
          /\ Len(lv[k]) = 1 => lv[k + 1] = lv[k]
          /\ Len(lv[k]) > 1 => Len(lv[k + 1]) < Len(lv[k])
          /\ ix[k + 1] \in 0..Len(lv[k + 1]) - 1
      <3> DEFINE level == lv[k]
                 up    == NextLevel(level)
      <3>1. ix[k] \in 0..Len(level) - 1
        BY <1>7
      <3>2. /\ IsLevel(up)
            /\ Len(level) = 1 => up = level
            /\ Len(level) > 1 => Len(up) < Len(level)
            /\ \A x \in 0..Len(level) - 1 : x \div 2 \in 0..Len(up) - 1
        <4> HIDE DEF level
        <4>1. IsLevel(level) /\ (Len(level) = 1 \/ Len(level) % 2 = 0)
          BY <2>1 DEF level
        <4> QED
          BY <4>1, NextLevelFacts
      <3> QED
        BY <2>2, <3>1, <3>2
    <2>4. Len(lv[k + 1]) = 1 \/ Len(lv[k + 1]) + (k + 1) <= n
      <3> DEFINE a == Len(lv[k])
                 b == Len(lv[k + 1])
      <3>1. /\ a \in Nat \ {0} /\ b \in Nat \ {0}
            /\ a = 1 => b = a
            /\ a > 1 => b < a
            /\ a = 1 \/ a + k <= n
        BY <1>7, <2>1, <2>3 DEF IsLevel
      <3> HIDE DEF a, b
      <3>2. b = 1 \/ b + (k + 1) <= n
        BY <1>1, <1>7, <3>1
      <3> QED
        BY <3>2 DEF b
    <2> QED
      BY <1>1, <1>7, <2>3, <2>4
  <1>8. \A k \in 0..n : k \in Good
    <2> HIDE DEF Good
    <2> QED
      BY <1>1, <1>6, <1>7, CountingUp
  <1>9. ASSUME NEW k \in 0..n
        PROVE  /\ Fine(k)
               /\ Len(lv[k]) = 1 \/ Len(lv[k]) % 2 = 0
               /\ k < n => lv[k + 1] = NextLevel(lv[k]) /\ ix[k + 1] = ix[k] \div 2
    <2>1. Fine(k)
      BY <1>8
    <2>2. Len(lv[k]) = 1 \/ Len(lv[k]) % 2 = 0
      <3> DEFINE a == Len(lv[k])
      <3>1. a \in Nat \ {0} /\ (a > 1 => a % 2 = 0)
        BY <1>4, <2>1 DEF IsLevel
      <3> HIDE DEF a
      <3>2. a = 1 \/ a % 2 = 0
        BY <3>1
      <3> QED
        BY <3>2 DEF a
    <2>3. k < n => lv[k + 1] = NextLevel(lv[k]) /\ ix[k + 1] = ix[k] \div 2
      BY <1>1, <1>2, <1>3
    <2> QED
      BY <2>1, <2>2, <2>3
  <1> QED
    BY <1>9 DEF n, lv, ix

\* The proof of a leaf: one sibling of every level below the root.
SiblingsFit(s, i) ==
    LET lv == Levels(s)
        ix == IndexUp(i, Len(s))
        j  == Len(Siblings(s, i))
    IN  /\ j \in 0..Len(s)
        /\ Len(lv[j]) = 1
        /\ lv[j] = lv[Len(s)]
        /\ \A m \in 1..j : /\ Len(lv[m - 1]) > 1
                           /\ Siblings(s, i)[m] = lv[m - 1][SiblingIndex(ix[m - 1]) + 1]

LEMMA SiblingsOnTheWay ==
  ASSUME NEW S, NEW s \in Seq(S), s # << >>, NothingPromoted(s), NEW i \in 0..Len(s) - 1
  PROVE  SiblingsFit(s, i)
  <1> DEFINE n == Len(s)
             lv == Levels(s)
             ix == IndexUp(i, n)
  <1>1. n \in Nat /\ n >= 1
    OBVIOUS
  <1>2. PICK f : IsPath(f, s, i) /\ Siblings(s, i) = f[n]
    BY <1>1, PathDefined
  <1>3. /\ f[0] = << >>
        /\ \A k \in Nat : k < n => f[k + 1] = AddedTo(f[k], lv[k], SiblingIndex(ix[k]))
    <2>1. f = [k \in 0..n |-> IF k = 0 THEN << >>
                              ELSE AddedTo(f[k - 1], lv[k - 1], SiblingIndex(ix[k - 1]))]
      BY <1>2 DEF IsPath
    <2> HIDE DEF lv, ix, n
    <2>2. f[0] = << >>
      BY <1>1, <2>1
    <2>3. ASSUME NEW k \in Nat, k < n
          PROVE  f[k + 1] = AddedTo(f[k], lv[k], SiblingIndex(ix[k]))
      <3>1. k + 1 \in 0..n /\ k + 1 # 0 /\ (k + 1) - 1 = k
        BY <1>1, <2>3
      <3> QED
        BY <2>1, <3>1
    <2> QED
      BY <2>2, <2>3
  <1>4. \A k \in 0..n :
           /\ IsLevel(lv[k])
           /\ Len(lv[k]) = 1 \/ Len(lv[k]) % 2 = 0
           /\ Len(lv[k]) = 1 \/ Len(lv[k]) + k <= n
           /\ ix[k] \in 0..Len(lv[k]) - 1
           /\ k < n => lv[k + 1] = NextLevel(lv[k])
    BY WayUp
  <1> HIDE DEF n, lv, ix
  <1> DEFINE Fits(path, j, k) ==
               /\ \E V : path \in Seq(V)
               /\ Len(path) = j
               /\ lv[j] = lv[k]
               /\ Len(lv[k]) > 1 => j = k
               /\ \A m \in 1..j : /\ Len(lv[m - 1]) > 1
                                  /\ path[m] = lv[m - 1][SiblingIndex(ix[m - 1]) + 1]
             Good == {k \in 0..n : \E j \in 0..k : Fits(f[k], j, k)}
  <1>5. 0 \in Good
    <2>1. << >> \in Seq({}) /\ Len(<< >>) = 0
      OBVIOUS
    <2>2. Fits(f[0], 0, 0)
      BY <1>3, <2>1
    <2> HIDE DEF Fits
    <2> QED
      BY <1>1, <2>2
  <1>6. ASSUME NEW k \in Nat, k < n, k \in Good
        PROVE  k + 1 \in Good
    <2>1. k \in 0..n /\ k + 1 \in 0..n
      BY <1>1, <1>6
    <2>2. PICK j \in 0..k : Fits(f[k], j, k)
      BY <1>6
    <2>3. f[k + 1] = AddedTo(f[k], lv[k], SiblingIndex(ix[k]))
      BY <1>3, <1>6
    <2>4. lv[k + 1] = NextLevel(lv[k]) /\ IsLevel(lv[k]) /\ Len(lv[k]) \in Nat \ {0}
      BY <1>4, <1>6, <2>1 DEF IsLevel
    <2>5. CASE Len(lv[k]) = 1
      <3>1. lv[k + 1] = lv[k]
        BY <2>4, <2>5, NextLevelFacts
      <3>2. f[k + 1] = f[k]
        BY <2>3, <2>5 DEF AddedTo
      <3>3. Fits(f[k + 1], j, k + 1)
        <4>1. /\ \E V : f[k] \in Seq(V)
              /\ Len(f[k]) = j
              /\ lv[j] = lv[k]
              /\ \A m \in 1..j : /\ Len(lv[m - 1]) > 1
                                 /\ f[k][m] = lv[m - 1][SiblingIndex(ix[m - 1]) + 1]
          BY <2>2
        <4>2. ~(Len(lv[k]) > 1)
          BY <2>5
        <4> QED
          BY <3>1, <3>2, <4>1, <4>2
      <3> HIDE DEF Fits
      <3> QED
        BY <2>1, <2>2, <3>3
    <2>6. CASE Len(lv[k]) # 1
      <3> DEFINE e == lv[k][SiblingIndex(ix[k]) + 1]
      <3>1. Len(lv[k]) > 1
        <4> DEFINE a == Len(lv[k])
        <4>1. a \in Nat \ {0} /\ a # 1
          BY <2>4, <2>6
        <4> HIDE DEF a
        <4>2. a > 1
          BY <4>1
        <4> QED
          BY <4>2 DEF a
      <3>2. j = k
        BY <2>2, <3>1
      <3>3. f[k + 1] = Append(f[k], e)
        <4>1. SiblingIndex(ix[k]) \in 0..Len(lv[k]) - 1
          BY <1>4, <2>1, <2>4, <2>6, <3>1, NextLevelFacts
        <4>2. SiblingIndex(ix[k]) < Len(lv[k])
          BY <2>4, <4>1
        <4> QED
          BY <2>3, <3>1, <4>2 DEF AddedTo
      <3> HIDE DEF e
      <3>4. PICK V : f[k] \in Seq(V)
        BY <2>2
      <3>5. /\ f[k + 1] \in Seq(V \cup {e})
            /\ Len(f[k + 1]) = k + 1
            /\ f[k + 1][k + 1] = e
            /\ \A m \in 1..k : f[k + 1][m] = f[k][m]
        <4>1. Len(f[k]) = k
          BY <2>2, <3>2
        <4> QED
          BY <3>3, <3>4, <4>1
      <3>6. ASSUME NEW m \in 1..k + 1
            PROVE  /\ Len(lv[m - 1]) > 1
                   /\ f[k + 1][m] = lv[m - 1][SiblingIndex(ix[m - 1]) + 1]
        <4>1. CASE m = k + 1
          <5>1. m - 1 = k
            BY <4>1
          <5> QED
            BY <3>1, <3>5, <4>1, <5>1 DEF e
        <4>2. CASE m # k + 1
          <5>1. m \in 1..k
            BY <4>2
          <5> QED
            BY <2>2, <3>2, <3>5, <5>1
        <4> QED
          BY <4>1, <4>2
      <3>7. Fits(f[k + 1], k + 1, k + 1)
        BY <3>5, <3>6
      <3> HIDE DEF Fits
      <3> QED
        BY <2>1, <3>7
    <2> QED
      BY <2>5, <2>6
  <1>7. n \in Good
    <2>1. n \in 0..n
      BY <1>1
    <2> HIDE DEF Good
    <2> QED
      BY <1>1, <1>5, <1>6, <2>1, CountingUp
  <1>8. PICK j \in 0..n : Fits(f[n], j, n)
    BY <1>7
  <1>9. Len(lv[n]) = 1
    <2> DEFINE a == Len(lv[n])
    <2>1. n \in 0..n
      BY <1>1
    <2>2. a \in Nat \ {0} /\ (a = 1 \/ a + n <= n)
      BY <1>4, <2>1 DEF IsLevel
    <2> HIDE DEF a
    <2>3. a = 1
      BY <1>1, <2>2
    <2> QED
      BY <2>3 DEF a
  <1> QED
    BY <1>2, <1>8, <1>9 DEF SiblingsFit, n, lv, ix

\* What a proof verifies: the leaf it is of, and none of another content.
LEMMA ProofVerifiesItsLeaf ==
  ASSUME NEW S, NEW s \in Seq(S), s # << >>, NothingPromoted(s), NEW i \in 0..Len(s) - 1,
         NEW leaf
  PROVE  VerifyProof(leaf, i, Siblings(s, i), Root(s)) <=> leaf = s[i + 1]
  <1> DEFINE n == Len(s)
             lv == Levels(s)
             ix == IndexUp(i, n)
             sib == Siblings(s, i)
             j == Len(sib)
             at(m) == lv[m][ix[m] + 1]
  <1>1. n \in Nat /\ n >= 1
    OBVIOUS
  <1>2. /\ j \in 0..n
        /\ Len(lv[j]) = 1
        /\ lv[j] = lv[n]
        /\ \A m \in 1..j : Len(lv[m - 1]) > 1 /\ sib[m] = lv[m - 1][SiblingIndex(ix[m - 1]) + 1]
    BY SiblingsOnTheWay DEF SiblingsFit
  <1>3. PICK h : IsHashUp(h, leaf, i, sib) /\ HashUp(leaf, i, sib) = h[j]
    <2> HIDE DEF n, sib
    <2>1. Len(sib) \in Nat
      BY <1>1, <1>2
    <2> QED
      BY <2>1, HashUpDefined
  <1>4. lv[0] = s /\ ix[0] = i
    <2>1. IsLevels(lv, s) /\ IsIndexUp(ix, i, n)
      BY <1>1, LevelsDefined, IndexUpDefined
    <2>2. lv = [k \in 0..n |-> IF k = 0 THEN s ELSE NextLevel(lv[k - 1])]
      BY <2>1 DEF IsLevels
    <2>3. ix = [k \in 0..n |-> IF k = 0 THEN i ELSE ix[k - 1] \div 2]
      BY <2>1 DEF IsIndexUp
    <2> HIDE DEF lv, ix, n
    <2> QED
      BY <1>1, <2>2, <2>3
  <1>5. \A k \in 0..n :
           /\ IsLevel(lv[k])
           /\ Len(lv[k]) = 1 \/ Len(lv[k]) % 2 = 0
           /\ ix[k] \in 0..Len(lv[k]) - 1
           /\ k < n => lv[k + 1] = NextLevel(lv[k]) /\ ix[k + 1] = ix[k] \div 2
    BY WayUp
  <1> DEFINE jx == IndexUp(i, j)
  <1>6. /\ h[0] = leaf
        /\ \A k \in Nat : k < j => h[k + 1] = Combined(h[k], jx[k], sib[k + 1])
        /\ jx[0] = i
        /\ \A k \in Nat : k < j => jx[k + 1] = jx[k] \div 2
    <2>1. h = [k \in 0..j |-> IF k = 0 THEN leaf ELSE Combined(h[k - 1], jx[k - 1], sib[k])]
      BY <1>3 DEF IsHashUp
    <2>2. jx = [k \in 0..j |-> IF k = 0 THEN i ELSE jx[k - 1] \div 2]
      BY <1>1, <1>2, IndexUpDefined DEF IsIndexUp
    <2> HIDE DEF jx, j, n
    <2>3. j \in Nat /\ 0 \in 0..j
      BY <1>1, <1>2
    <2>4. h[0] = leaf /\ jx[0] = i
      BY <2>1, <2>2, <2>3
    <2>5. ASSUME NEW k \in Nat, k < j
          PROVE  /\ h[k + 1] = Combined(h[k], jx[k], sib[k + 1])
                 /\ jx[k + 1] = jx[k] \div 2
      <3>1. k + 1 \in 0..j /\ k + 1 # 0 /\ (k + 1) - 1 = k
        BY <2>3, <2>5
      <3>2. h[k + 1] = Combined(h[k], jx[k], sib[k + 1])
        BY <2>1, <3>1
      <3> QED
        BY <2>2, <3>1, <3>2
    <2> QED
      BY <2>4, <2>5
  <1>7. Root(s) = lv[n][1]
    BY DEF Root
  <1>8. VerifyProof(leaf, i, sib, Root(s)) <=> h[j] = lv[n][1]
    BY <1>3, <1>7 DEF VerifyProof
  <1> HIDE DEF jx, j, sib, ix, lv, n
  <1>9. j \in Nat
    BY <1>1, <1>2
  <1>10. \A k \in 0..j : jx[k] = ix[k]
    <2> DEFINE Good == {k \in 0..j : jx[k] = ix[k]}
    <2>1. 0 \in Good
      BY <1>4, <1>6, <1>9
    <2>2. ASSUME NEW k \in Nat, k < j, k \in Good PROVE k + 1 \in Good
      <3>1. k \in 0..n /\ k < n /\ k + 1 \in 0..j
        BY <1>1, <1>2, <2>2
      <3> QED
        BY <1>5, <1>6, <2>2, <3>1
    <2>3. \A k \in 0..j : k \in Good
      <3> HIDE DEF Good
      <3> QED
        BY <1>9, <2>1, <2>2, CountingUp
    <2> QED
      BY <2>3
  \* One level up, hash and node are combined with the same sibling.
  <1>11. ASSUME NEW k \in Nat, k < j
         PROVE  \E x : /\ h[k + 1] = Combined(h[k], ix[k], x)
                       /\ at(k + 1) = Combined(at(k), ix[k], x)
    <2>1. k \in 0..n /\ k < n /\ k \in 0..j /\ k + 1 \in 1..j /\ (k + 1) - 1 = k
      BY <1>1, <1>2, <1>11
    <2>2. Len(lv[k]) > 1 /\ sib[k + 1] = lv[k][SiblingIndex(ix[k]) + 1]
      BY <1>2, <2>1
    <2>3. h[k + 1] = Combined(h[k], ix[k], sib[k + 1])
      BY <1>6, <1>10, <1>11, <2>1
    <2>4. NextLevel(lv[k])[ix[k] \div 2 + 1]
             = Combined(lv[k][ix[k] + 1], ix[k], lv[k][SiblingIndex(ix[k]) + 1])
      BY <1>5, <2>1, <2>2, NextLevelFacts
    <2>5. at(k + 1) = Combined(at(k), ix[k], sib[k + 1])
      BY <1>5, <2>1, <2>2, <2>4
    <2> QED
      BY <2>3, <2>5
  <1>12. \A a, b, index, x : Combined(a, index, x) = Combined(b, index, x) => a = b
    BY DEF Combined, Internal
  <1>13. ASSUME NEW k \in Nat, k < j
         PROVE  h[k + 1] = at(k + 1) <=> h[k] = at(k)
    <2> HIDE DEF at
    <2>1. PICK x : /\ h[k + 1] = Combined(h[k], ix[k], x)
                   /\ at(k + 1) = Combined(at(k), ix[k], x)
      BY <1>11, <1>13
    <2> QED
      BY <1>12, <2>1
  <1>14. \A k \in 0..j : h[k] = at(k) <=> h[0] = at(0)
    <2> DEFINE Good == {k \in 0..j : h[k] = at(k) <=> h[0] = at(0)}
    <2> HIDE DEF at
    <2>1. 0 \in Good
      BY <1>9
    <2>2. ASSUME NEW k \in Nat, k < j, k \in Good PROVE k + 1 \in Good
      <3>1. k + 1 \in 0..j
        BY <1>9, <2>2
      <3> QED
        BY <1>13, <2>2, <3>1
    <2>3. \A k \in 0..j : k \in Good
      <3> HIDE DEF Good
      <3> QED
        BY <1>9, <2>1, <2>2, CountingUp
    <2> QED
      BY <2>3
  <1>15. h[j] = at(j) <=> h[0] = at(0)
    <2>1. j \in 0..j
      BY <1>9
    <2> HIDE DEF at
    <2> QED
      BY <1>14, <2>1
  <1>16. at(j) = lv[n][1]
    <2>1. ix[j] \in 0..0
      <3>1. ix[j] \in 0..Len(lv[j]) - 1 /\ Len(lv[j]) = 1
        BY <1>2, <1>5
      <3>2. 1 - 1 = 0
        OBVIOUS
      <3> QED
        BY <3>1, <3>2
    <2>2. ix[j] + 1 = 1
      BY <2>1
    <2> QED
      BY <1>2, <2>2
  <1>17. h[0] = leaf /\ at(0) = s[i + 1]
    BY <1>4, <1>6
  <1>18. VerifyProof(leaf, i, sib, Root(s)) <=> leaf = s[i + 1]
    <2> HIDE DEF at
    <2> QED
      BY <1>8, <1>15, <1>16, <1>17
  <1> QED
    BY <1>18 DEF sib

-----------------------------------------------------------------------------
\* ZKComputeStack: rewards paid, shown and distributed, and the node's capacity.

\* The parts of the sums, one function each.
Rewards(ids)  == [id \in ids |-> proofs[id].reward_amount]
Committed(r)  == [id \in DOMAIN commitments |-> commitments[id][r]]

\* The verified proofs whose clients have not distributed the reward yet.
Owed == {id \in VerifiedIds : stage[id] = "submitted"}

\* ZKTypeOK but for the leaves, which no reward depends on.
RewardTypes == /\ proofs \in [DOMAIN proofs -> ZKComputeProof]
               /\ DOMAIN proofs \subseteq TaskIds
               /\ IsFiniteSet(DOMAIN proofs)
               /\ total_tasks_verified \in Nat
               /\ total_rewards_paid \in Nat
               /\ total_rewards_distributed \in Nat
               /\ reward_balances \in [RewardWallets -> Nat]

\* What is distributed was paid, and so is what the clients still may distribute.
OwedWithinPaid ==
    total_rewards_distributed + SumFunction(Rewards(Owed)) <= total_rewards_paid

\* The inductive invariant of manager, distributor and clients.
RewardBooks == /\ RewardTypes
               /\ stage \in [TaskIds -> Stages]
               /\ VerifiedWerePaid
               /\ OwedWithinPaid
               /\ total_rewards_distributed = SumFunction(reward_balances)

\* That of the allocator.
CapacityBooks == /\ AllocatorTypeOK
                 /\ IsFiniteSet(DOMAIN commitments)
                 /\ now \in Nat
                 /\ CapacityAccounted

-----------------------------------------------------------------------------
\* A proof, and the sums over some of the verified ones.
LEMMA ProofTyped ==
  ASSUME RewardTypes, NEW id \in DOMAIN proofs
  PROVE  /\ proofs[id] \in ZKComputeProof
         /\ proofs[id].compute_type \in ComputeTypes
         /\ proofs[id].reward_amount \in Nat
         /\ proofs[id].verification_status \in {"pending", "verified"}
  <1>1. proofs[id] \in ZKComputeProof
    BY DEF RewardTypes
  <1> QED
    BY <1>1 DEF ZKComputeProof

LEMMA RewardsTyped ==
  ASSUME RewardTypes, NEW ids \in SUBSET VerifiedIds
  PROVE  /\ IsFiniteSet(ids) /\ Cardinality(ids) \in Nat
         /\ DOMAIN Rewards(ids) = ids
         /\ \A id \in ids : Rewards(ids)[id] = proofs[id].reward_amount /\ Rewards(ids)[id] \in Nat
         /\ SumFunction(Rewards(ids)) \in Nat
  <1>1. ids \subseteq DOMAIN proofs
    BY DEF VerifiedIds
  <1>2. IsFiniteSet(ids) /\ Cardinality(ids) \in Nat
    BY <1>1, FS_Subset, FS_CardinalityType DEF RewardTypes
  <1>3. DOMAIN Rewards(ids) = ids
    BY DEF Rewards
  <1>4. \A id \in ids : Rewards(ids)[id] = proofs[id].reward_amount /\ Rewards(ids)[id] \in Nat
    BY <1>1, ProofTyped DEF Rewards
  <1>5. SumFunction(Rewards(ids)) \in Nat
    BY <1>2, <1>3, <1>4, TotalNat
  <1> QED
    BY <1>2, <1>3, <1>4, <1>5

LEMMA BooksInWords ==
  /\ VerifiedWerePaid => /\ SumFunction(Rewards(VerifiedIds)) <= total_rewards_paid
                         /\ Cardinality(VerifiedIds) <= total_tasks_verified
  /\ /\ SumFunction(Rewards(VerifiedIds)') <= total_rewards_paid'
     /\ Cardinality(VerifiedIds') <= total_tasks_verified'
     => VerifiedWerePaid'
  BY DEF VerifiedWerePaid, Rewards

\* Fewer proofs are verified or owed, and those show what they showed.
LEMMA FewerRewards ==
  ASSUME RewardTypes, NEW ids \in SUBSET VerifiedIds, NEW fewer \in SUBSET ids,
         \A id \in fewer : proofs'[id] = proofs[id]
  PROVE  /\ SumFunction([id \in fewer |-> proofs'[id].reward_amount]) \in Nat
         /\ SumFunction([id \in fewer |-> proofs'[id].reward_amount]) <= SumFunction(Rewards(ids))
         /\ Cardinality(fewer) \in Nat /\ Cardinality(fewer) <= Cardinality(ids)
  <1> DEFINE g == [id \in fewer |-> proofs'[id].reward_amount]
  <1>1. \A id \in DOMAIN g : g[id] = Rewards(ids)[id] /\ g[id] \in Nat
    BY RewardsTyped
  <1>2. DOMAIN g = fewer
    OBVIOUS
  <1> HIDE DEF g
  <1>3. /\ IsFiniteSet(fewer) /\ Cardinality(fewer) \in Nat
        /\ Cardinality(fewer) <= Cardinality(ids)
    BY RewardsTyped, FS_Subset, FS_CardinalityType
  <1>4. SumFunction(g) \in Nat
    BY <1>1, <1>2, <1>3, TotalNat
  <1>5. SumFunction(g) <= SumFunction(Rewards(ids))
    BY <1>1, <1>2, RewardsTyped, TotalMonotone
  <1> QED
    BY <1>3, <1>4, <1>5 DEF g

\* submit_task: whatever the task had verified, shown and owed is withdrawn.
LEMMA SubmitBooks ==
  ASSUME RewardBooks, NEW id \in TaskIds, NEW type \in ComputeTypes, NEW genuine \in BOOLEAN,
         ClientSubmits(id, type, genuine)
  PROVE  RewardBooks'
  <1> DEFINE proof == NewProof(type, genuine)
  <1>1. proof \in ZKComputeProof /\ proof.verification_status = "pending"
    BY ZKAssumption DEF NewProof, ZKComputeProof
  <1>2. /\ proofs' = Put(proofs, id, proof)
        /\ stage' = [stage EXCEPT ![id] = "submitted"]
        /\ UNCHANGED <<total_tasks_verified, total_rewards_paid, reward_balances,
                       total_rewards_distributed>>
    BY DEF ClientSubmits, SubmitTask, MoveTo, distributorVars
  <1> HIDE DEF proof
  <1>3. /\ DOMAIN proofs' = DOMAIN proofs \cup {id}
        /\ proofs'[id] = proof
        /\ \A x \in DOMAIN proofs \ {id} : proofs'[x] = proofs[x]
    BY <1>2 DEF Put
  <1>4. RewardTypes /\ stage \in [TaskIds -> Stages]
    BY DEF RewardBooks
  <1>5. RewardTypes'
    BY <1>1, <1>2, <1>3, <1>4, FS_AddElement DEF RewardTypes, Put
  <1>6. stage' \in [TaskIds -> Stages]
    BY <1>2, <1>4 DEF Stages
  <1>7. VerifiedIds' = VerifiedIds \ {id} /\ Owed' = Owed \ {id}
    BY <1>1, <1>2, <1>3, <1>4 DEF VerifiedIds, Owed, RewardTypes
  <1>8. \A x \in VerifiedIds' : proofs'[x] = proofs[x]
    BY <1>3, <1>7 DEF VerifiedIds
  <1>9. VerifiedWerePaid'
    <2>1. /\ SumFunction(Rewards(VerifiedIds)') <= SumFunction(Rewards(VerifiedIds))
          /\ SumFunction(Rewards(VerifiedIds)') \in Nat
          /\ Cardinality(VerifiedIds') <= Cardinality(VerifiedIds)
          /\ Cardinality(VerifiedIds') \in Nat
      BY <1>4, <1>7, <1>8, FewerRewards DEF Rewards
    <2>2. /\ SumFunction(Rewards(VerifiedIds)) <= total_rewards_paid
          /\ Cardinality(VerifiedIds) <= total_tasks_verified
      BY BooksInWords DEF RewardBooks
    <2>3. total_rewards_paid \in Nat /\ total_tasks_verified \in Nat
      BY <1>4 DEF RewardTypes
    <2>4. /\ SumFunction(Rewards(VerifiedIds)) \in Nat
          /\ Cardinality(VerifiedIds) \in Nat
      BY <1>4, RewardsTyped
    <2> QED
      BY <1>2, <2>1, <2>2, <2>3, <2>4, BooksInWords
  <1>10. OwedWithinPaid'
    <2>1. Owed \subseteq VerifiedIds /\ Owed' \subseteq Owed /\ Owed' \subseteq VerifiedIds'
      BY <1>7 DEF Owed
    <2>2. /\ SumFunction(Rewards(Owed)') <= SumFunction(Rewards(Owed))
          /\ SumFunction(Rewards(Owed)') \in Nat
      BY <1>4, <1>8, <2>1, FewerRewards DEF Rewards
    <2>3. total_rewards_paid \in Nat /\ total_rewards_distributed \in Nat
      BY <1>4 DEF RewardTypes
    <2>4. SumFunction(Rewards(Owed)) \in Nat
      BY <1>4, <2>1, RewardsTyped
    <2>5. total_rewards_distributed + SumFunction(Rewards(Owed)) <= total_rewards_paid
      BY DEF RewardBooks, OwedWithinPaid
    <2>6. total_rewards_distributed' + SumFunction(Rewards(Owed)') <= total_rewards_paid'
      BY <1>2, <2>2, <2>3, <2>4, <2>5
    <2> QED
      BY <2>6 DEF OwedWithinPaid
  <1>11. total_rewards_distributed' = SumFunction(reward_balances')
    BY <1>2 DEF RewardBooks
  <1> QED
    BY <1>5, <1>6, <1>9, <1>10, <1>11 DEF RewardBooks

\* One proof of a set shows another reward: the sum changes by no more than it.
LEMMA OneReward ==
  ASSUME RewardTypes, NEW ids \in SUBSET VerifiedIds, NEW id, NEW reward \in Nat,
         proofs'[id].reward_amount = reward,
         \A x \in ids \ {id} : proofs'[x] = proofs[x]
  PROVE  /\ SumFunction([x \in ids \cup {id} |-> proofs'[x].reward_amount]) \in Nat
         /\ SumFunction([x \in ids \cup {id} |-> proofs'[x].reward_amount])
                <= SumFunction(Rewards(ids)) + reward
         /\ Cardinality(ids \cup {id}) \in Nat
         /\ Cardinality(ids \cup {id}) <= Cardinality(ids) + 1
  <1> DEFINE g == [x \in ids \cup {id} |-> proofs'[x].reward_amount]
             f == Rewards(ids)
  <1>1. /\ DOMAIN f = ids /\ IsFiniteSet(DOMAIN f)
        /\ \A x \in DOMAIN f : f[x] = proofs[x].reward_amount /\ f[x] \in Nat
    BY RewardsTyped
  <1>2. DOMAIN g = DOMAIN f \cup {id} /\ g[id] = reward
    BY <1>1
  <1>3. \A x \in DOMAIN f \ {id} : g[x] = f[x]
    BY <1>1
  <1> HIDE DEF f, g
  <1>4. SumFunction(g) \in Nat /\ SumFunction(g) <= SumFunction(f) + g[id]
    BY <1>1, <1>2, <1>3, TotalPut
  <1>5. /\ Cardinality(ids \cup {id}) \in Nat
        /\ Cardinality(ids \cup {id}) <= Cardinality(ids) + 1
    <2>1. IsFiniteSet(ids) /\ Cardinality(ids) \in Nat
      BY RewardsTyped
    <2> DEFINE more == ids \cup {id}
    <2>2. CASE id \in ids
      <3>1. more = ids
        BY <2>2
      <3>2. Cardinality(more) = Cardinality(ids)
        BY <3>1
      <3> QED
        BY <2>1, <3>2
    <2>3. CASE id \notin ids
      <3>1. Cardinality(more) = Cardinality(ids) + 1
        BY <2>1, <2>3, FS_AddElement
      <3> QED
        BY <2>1, <3>1
    <2> QED
      BY <2>2, <2>3
  <1> QED
    BY <1>2, <1>4, <1>5 DEF f, g

\* verify_task_completion: what is shown anew is counted anew.
LEMMA VerifyBooks ==
  ASSUME RewardBooks, NEW id \in DOMAIN proofs, NEW bonus \in SpeedBonuses,
         ClientVerifies(id, bonus)
  PROVE  RewardBooks'
  <1> DEFINE reward == CalculateReward(proofs[id].compute_type, bonus)
             proof == [proofs[id] EXCEPT !.verification_status = "verified",
                                         !.reward_amount = reward]
  <1>1. RewardTypes /\ stage \in [TaskIds -> Stages]
    BY DEF RewardBooks
  <1>2. proofs[id] \in ZKComputeProof /\ reward \in Nat
    <2>1. BaseReward[proofs[id].compute_type] \in Nat /\ bonus \in Nat
      BY <1>1, ProofTyped, ZKAssumption
    <2>2. \A a \in Nat, b \in Nat : a * b \in Nat
      OBVIOUS
    <2> QED
      BY <1>1, <2>1, <2>2, ProofTyped DEF CalculateReward
  <1>3. /\ proofs' = [proofs EXCEPT ![id] = proof]
        /\ stage[id] = "submitted"
        /\ total_tasks_verified' = total_tasks_verified + 1
        /\ total_rewards_paid' = total_rewards_paid + reward
        /\ UNCHANGED <<stage, reward_balances, total_rewards_distributed>>
    BY DEF ClientVerifies, VerifyTaskCompletion, distributorVars, clientVars
  <1> HIDE DEF reward
  <1>4. /\ proof \in ZKComputeProof
        /\ proof.verification_status = "verified"
        /\ proof.reward_amount = reward
    BY <1>2 DEF ZKComputeProof
  <1> HIDE DEF proof
  <1>5. /\ DOMAIN proofs' = DOMAIN proofs
        /\ proofs'[id] = proof
        /\ \A x \in DOMAIN proofs \ {id} : proofs'[x] = proofs[x]
    BY <1>3
  <1>6. total_tasks_verified \in Nat /\ total_rewards_paid \in Nat /\ total_rewards_distributed \in Nat
    BY <1>1 DEF RewardTypes
  <1>7. RewardTypes'
    BY <1>1, <1>2, <1>3, <1>4, <1>5, <1>6 DEF RewardTypes
  <1>8. VerifiedIds' = VerifiedIds \cup {id} /\ Owed' = Owed \cup {id}
    BY <1>1, <1>3, <1>4, <1>5 DEF VerifiedIds, Owed, RewardTypes
  <1>9. Owed \subseteq VerifiedIds /\ VerifiedIds \subseteq DOMAIN proofs
    BY DEF Owed, VerifiedIds
  <1>10. proofs'[id].reward_amount = reward /\ \A x \in VerifiedIds \ {id} : proofs'[x] = proofs[x]
    BY <1>4, <1>5, <1>9
  <1>11. VerifiedWerePaid'
    <2>1. /\ SumFunction(Rewards(VerifiedIds)') <= SumFunction(Rewards(VerifiedIds)) + reward
          /\ SumFunction(Rewards(VerifiedIds)') \in Nat
          /\ Cardinality(VerifiedIds') <= Cardinality(VerifiedIds) + 1
          /\ Cardinality(VerifiedIds') \in Nat
      BY <1>1, <1>2, <1>8, <1>10, OneReward DEF Rewards
    <2>2. /\ SumFunction(Rewards(VerifiedIds)) <= total_rewards_paid
          /\ Cardinality(VerifiedIds) <= total_tasks_verified
      BY BooksInWords DEF RewardBooks
    <2>3. /\ SumFunction(Rewards(VerifiedIds)) \in Nat
          /\ Cardinality(VerifiedIds) \in Nat
      BY <1>1, RewardsTyped
    <2> QED
      BY <1>2, <1>3, <1>6, <2>1, <2>2, <2>3, BooksInWords
  <1>12. OwedWithinPaid'
    <2>1. /\ SumFunction(Rewards(Owed)') <= SumFunction(Rewards(Owed)) + reward
          /\ SumFunction(Rewards(Owed)') \in Nat
      BY <1>1, <1>2, <1>8, <1>9, <1>10, OneReward DEF Rewards
    <2>2. SumFunction(Rewards(Owed)) \in Nat
      BY <1>1, <1>9, RewardsTyped
    <2>3. total_rewards_distributed + SumFunction(Rewards(Owed)) <= total_rewards_paid
      BY DEF RewardBooks, OwedWithinPaid
    <2>4. total_rewards_distributed' + SumFunction(Rewards(Owed)') <= total_rewards_paid'
      BY <1>2, <1>3, <1>6, <2>1, <2>2, <2>3
    <2> QED
      BY <2>4 DEF OwedWithinPaid
  <1>13. total_rewards_distributed' = SumFunction(reward_balances')
    BY <1>3 DEF RewardBooks
  <1> QED
    BY <1>1, <1>3, <1>7, <1>11, <1>12, <1>13 DEF RewardBooks

\* distribute_reward: the client moves on, its reward is no longer owed.
LEMMA DistributeBooks ==
  ASSUME RewardBooks, NEW id \in DOMAIN proofs, NEW wallet \in RewardWallets,
         ClientDistributes(id, wallet)
  PROVE  RewardBooks'
  <1> DEFINE reward == proofs[id].reward_amount
  <1>1. RewardTypes /\ stage \in [TaskIds -> Stages] /\ id \in TaskIds
    BY DEF RewardBooks, RewardTypes
  <1>2. reward \in Nat
    BY <1>1, ProofTyped
  <1>3. /\ id \in VerifiedIds
        /\ stage[id] = "submitted"
        /\ stage' = [stage EXCEPT ![id] = "rewarded"]
        /\ reward_balances' = [reward_balances EXCEPT ![wallet] = reward_balances[wallet] + reward]
        /\ total_rewards_distributed' = total_rewards_distributed + reward
        /\ UNCHANGED <<proofs, total_tasks_verified, total_rewards_paid>>
    BY DEF ClientDistributes, DistributeReward, Payable, MoveTo, managerVars
  <1>4. /\ total_rewards_distributed \in Nat /\ total_rewards_paid \in Nat
        /\ reward_balances \in [RewardWallets -> Nat]
    BY <1>1 DEF RewardTypes
  <1>5. id \in Owed /\ Owed' = Owed \ {id} /\ Owed \subseteq VerifiedIds
    BY <1>1, <1>3 DEF Owed, VerifiedIds
  <1> HIDE DEF reward
  <1>6. RewardTypes' /\ stage' \in [TaskIds -> Stages]
    BY <1>1, <1>2, <1>3, <1>4 DEF RewardTypes, Stages
  <1>7. VerifiedWerePaid'
    BY <1>3 DEF RewardBooks, VerifiedWerePaid, VerifiedIds
  <1>8. OwedWithinPaid'
    <2> DEFINE f == Rewards(Owed)
               g == Rewards(Owed)'
    <2>1. /\ DOMAIN f = Owed /\ IsFiniteSet(DOMAIN f)
          /\ \A x \in DOMAIN f : f[x] \in Nat
          /\ f[id] = reward
      BY <1>1, <1>5, RewardsTyped DEF reward
    <2>2. DOMAIN g = DOMAIN f \ {id} /\ \A x \in DOMAIN g : g[x] = f[x]
      BY <1>3, <1>5 DEF Rewards
    <2> HIDE DEF f, g
    <2>3. /\ SumFunction(g) = SumFunction(f) - reward
          /\ SumFunction(f) \in Nat /\ SumFunction(g) \in Nat
      BY <1>5, <2>1, <2>2, TotalDrop
    <2>4. total_rewards_distributed + SumFunction(f) <= total_rewards_paid
      BY DEF RewardBooks, OwedWithinPaid, f
    <2>5. total_rewards_distributed' + SumFunction(g) <= total_rewards_paid'
      BY <1>2, <1>3, <1>4, <2>3, <2>4
    <2> QED
      BY <2>5 DEF OwedWithinPaid, g
  <1>9. total_rewards_distributed' = SumFunction(reward_balances')
    <2>1. /\ DOMAIN reward_balances = RewardWallets
          /\ DOMAIN reward_balances' = RewardWallets \cup {wallet}
          /\ reward_balances'[wallet] = reward_balances[wallet] + reward
          /\ reward_balances[wallet] \in Nat
          /\ \A w \in RewardWallets \ {wallet} : reward_balances'[w] = reward_balances[w]
      BY <1>3, <1>4
    <2>2. reward_balances'[wallet] \in Nat /\ \A w \in RewardWallets : reward_balances[w] \in Nat
      BY <1>2, <1>4, <2>1
    <2>3. /\ SumFunction(reward_balances')
                 = SumFunction(reward_balances) - reward_balances[wallet] + reward_balances'[wallet]
          /\ SumFunction(reward_balances) \in Nat
      BY <2>1, <2>2, TotalPut, ZKAssumption
    <2>4. total_rewards_distributed = SumFunction(reward_balances)
      BY DEF RewardBooks
    <2> QED
      BY <1>2, <1>3, <2>1, <2>3, <2>4
  <1> QED
    BY <1>6, <1>7, <1>8, <1>9 DEF RewardBooks

\* Steps of the clients that no proof or reward takes part in.
LEMMA ElsewhereBooks ==
  ASSUME RewardBooks, stage' \in [TaskIds -> Stages],
         UNCHANGED <<proofs, total_tasks_verified, total_rewards_paid, distributorVars>>,
         \A id \in TaskIds : stage'[id] = "submitted" => stage[id] = "submitted"
  PROVE  RewardBooks'
  <1>1. RewardTypes /\ RewardTypes'
    BY DEF RewardBooks, RewardTypes, distributorVars
  <1>2. VerifiedWerePaid'
    BY DEF RewardBooks, VerifiedWerePaid, VerifiedIds
  <1>3. Owed \subseteq VerifiedIds /\ Owed' \subseteq Owed
    BY <1>1 DEF Owed, VerifiedIds, RewardTypes
  <1>4. /\ SumFunction(Rewards(Owed)') <= SumFunction(Rewards(Owed))
        /\ SumFunction(Rewards(Owed)') \in Nat
    BY <1>1, <1>3, FewerRewards DEF Rewards
  <1>5. SumFunction(Rewards(Owed)) \in Nat
    BY <1>1, <1>3, RewardsTyped
  <1>6. total_rewards_distributed + SumFunction(Rewards(Owed)) <= total_rewards_paid
    BY DEF RewardBooks, OwedWithinPaid
  <1>7. total_rewards_distributed' + SumFunction(Rewards(Owed)') <= total_rewards_paid'
    BY <1>1, <1>4, <1>5, <1>6 DEF RewardTypes, distributorVars
  <1> QED
    BY <1>1, <1>2, <1>7 DEF RewardBooks, OwedWithinPaid, distributorVars

LEMMA RewardBooksStep ==
  ASSUME RewardBooks, [ZKStackNext]_zkStackVars
  PROVE  RewardBooks'
  <1>1. stage \in [TaskIds -> Stages]
    BY DEF RewardBooks
  <1>2. CASE \/ \E id \in TaskIds, units \in Units : ClientAllocates(id, units)
             \/ \E id \in TaskIds : ClientReleases(id)
    <2>1. /\ stage' \in [TaskIds -> Stages]
          /\ \A id \in TaskIds : stage'[id] = "submitted" => stage[id] = "submitted"
      BY <1>1, <1>2 DEF ClientAllocates, ClientReleases, MoveTo, Stages
    <2>2. UNCHANGED <<proofs, total_tasks_verified, total_rewards_paid, distributorVars>>
      BY <1>2 DEF ClientAllocates, ClientReleases, managerVars
    <2> QED
      BY <2>1, <2>2, ElsewhereBooks
  <1>3. CASE GenerateMerkleRoot /\ UNCHANGED <<distributorVars, allocatorVars, clientVars>>
    BY <1>1, <1>3, ElsewhereBooks DEF GenerateMerkleRoot, clientVars
  <1>4. CASE UNCHANGED <<managerVars, distributorVars, allocatorVars, clientVars>>
    BY <1>1, <1>4, ElsewhereBooks DEF managerVars, clientVars
  <1> QED
    BY <1>2, <1>3, <1>4, SubmitBooks, VerifyBooks, DistributeBooks DEF ZKStackNext, zkStackVars

-----------------------------------------------------------------------------
\* The allocator.
LEMMA CommittedTyped ==
  ASSUME CapacityBooks, NEW r \in Resources
  PROVE  /\ DOMAIN Committed(r) = DOMAIN commitments
         /\ IsFiniteSet(DOMAIN Committed(r))
         /\ \A id \in DOMAIN commitments : /\ Committed(r)[id] = commitments[id][r]
                                           /\ Committed(r)[id] \in Nat
         /\ SumFunction(Committed(r)) \in Nat
         /\ available[r] + SumFunction(Committed(r)) + lost.bundle[r] = Capacity[r]
         /\ available[r] \in Nat /\ lost.bundle[r] \in Nat
  <1>1. /\ commitments \in [DOMAIN commitments -> Bundle] /\ IsFiniteSet(DOMAIN commitments)
        /\ available \in Bundle /\ lost.bundle \in Bundle
    BY DEF CapacityBooks, AllocatorTypeOK
  <1>2. DOMAIN Committed(r) = DOMAIN commitments
    BY DEF Committed
  <1>3. \A id \in DOMAIN commitments : commitments[id] \in Bundle
    BY <1>1
  <1>4. \A id \in DOMAIN commitments : /\ Committed(r)[id] = commitments[id][r]
                                       /\ Committed(r)[id] \in Nat
    BY <1>3 DEF Committed, Bundle
  <1>5. SumFunction(Committed(r)) \in Nat
    BY <1>1, <1>2, <1>4, TotalNat
  <1>6. available[r] + SumFunction(Committed(r)) + lost.bundle[r] = Capacity[r]
    BY DEF CapacityBooks, CapacityAccounted, Committed
  <1>7. available[r] \in Nat /\ lost.bundle[r] \in Nat
    BY <1>1 DEF Bundle
  <1> QED
    BY <1>1, <1>2, <1>4, <1>5, <1>6, <1>7

\* allocate_resources: what an overwritten commitment had is lost, not free.
LEMMA AllocateBooks ==
  ASSUME CapacityBooks, NEW units \in Units, AllocateResources(units), now' = now
  PROVE  CapacityBooks'
  <1> DEFINE need == Need(units)
             id == CommitmentId
  <1>1. /\ commitments \in [DOMAIN commitments -> Bundle] /\ IsFiniteSet(DOMAIN commitments)
        /\ DOMAIN commitments \subseteq Nat
        /\ available \in Bundle /\ active_tasks \in Nat /\ now \in Nat
        /\ lost \in [bundle : Bundle, count : Nat]
    BY DEF CapacityBooks, AllocatorTypeOK
  <1>2. need \in Bundle
    <2>1. \A n \in Nat, d \in Nat \ {0} : n \div d \in Nat
      OBVIOUS
    <2> QED
      BY <2>1, AllocatorAssumption, ZKStackAssumption DEF Need, Bundle
  <1>3. \A r \in Resources : need[r] <= available[r]
    <2>1. \A r \in Resources : available[r] >= need[r]
      BY DEF AllocateResources, CheckAvailable
    <2>2. \A r \in Resources : need[r] \in Nat /\ available[r] \in Nat
      BY <1>1, <1>2 DEF Bundle
    <2> HIDE DEF need
    <2> QED
      BY <2>1, <2>2
  <1>4. /\ commitments' = Put(commitments, id, need)
        /\ available' = Less(available, need)
        /\ active_tasks' = active_tasks + 1
        /\ lost' = IF id \in DOMAIN commitments
                   THEN [bundle |-> More(lost.bundle, commitments[id]), count |-> lost.count + 1]
                   ELSE lost
        /\ id \in Nat
    BY <1>1 DEF AllocateResources, CommitmentId
  <1> HIDE DEF need, id
  <1>5. /\ DOMAIN commitments' = DOMAIN commitments \cup {id}
        /\ commitments'[id] = need
        /\ \A x \in DOMAIN commitments \ {id} : commitments'[x] = commitments[x]
    BY <1>4 DEF Put
  <1>6. /\ available' \in Bundle
        /\ \A r \in Resources : available'[r] = available[r] - need[r]
    <2>1. \A r \in Resources : /\ Minus(available[r], need[r]) = available[r] - need[r]
                               /\ Minus(available[r], need[r]) \in Nat
      BY <1>1, <1>2, <1>3 DEF Minus, Bundle
    <2> QED
      BY <1>4, <2>1 DEF Less, Bundle
  <1>7. /\ lost.bundle \in Bundle /\ lost.count \in Nat
        /\ id \in DOMAIN commitments => commitments[id] \in Bundle
    BY <1>1
  <1>8. CASE id \in DOMAIN commitments
    <2>1. lost' = [bundle |-> More(lost.bundle, commitments[id]), count |-> lost.count + 1]
      BY <1>4, <1>8
    <2>2. /\ More(lost.bundle, commitments[id]) \in Bundle
          /\ \A r \in Resources : More(lost.bundle, commitments[id])[r] = lost.bundle[r] + commitments[id][r]
      BY <1>7, <1>8 DEF More, Bundle
    <2>3. /\ lost' \in [bundle : Bundle, count : Nat]
          /\ lost'.count = lost.count + 1
          /\ \A r \in Resources : lost'.bundle[r] = lost.bundle[r] + commitments[id][r]
      BY <1>7, <2>1, <2>2
    <2>4. DOMAIN commitments' = DOMAIN commitments
      BY <1>5, <1>8
    <2>5. AllocatorTypeOK'
      BY <1>1, <1>2, <1>4, <1>5, <1>6, <2>3 DEF AllocatorTypeOK, Put
    <2>6. ASSUME NEW r \in Resources
          PROVE  available'[r] + SumFunction(Committed(r)') + lost'.bundle[r] = Capacity[r]
      <3> DEFINE f == Committed(r)
                 g == Committed(r)'
      <3>1. /\ DOMAIN f = DOMAIN commitments /\ IsFiniteSet(DOMAIN f)
            /\ \A x \in DOMAIN f : f[x] = commitments[x][r] /\ f[x] \in Nat
            /\ SumFunction(f) \in Nat
            /\ available[r] + SumFunction(f) + lost.bundle[r] = Capacity[r]
            /\ available[r] \in Nat /\ lost.bundle[r] \in Nat
        BY CommittedTyped
      <3>2. /\ DOMAIN g = DOMAIN f \cup {id} /\ id \in DOMAIN f
            /\ g[id] = need[r] /\ need[r] \in Nat
            /\ \A x \in DOMAIN f \ {id} : g[x] = f[x]
        BY <1>2, <1>5, <1>8, <3>1 DEF Committed, Bundle
      <3> HIDE DEF f, g
      <3>3. SumFunction(g) = SumFunction(f) - f[id] + g[id] /\ SumFunction(g) \in Nat
        BY <3>1, <3>2, TotalPut
      <3>4. f[id] = commitments[id][r] /\ f[id] \in Nat
        BY <1>8, <3>1
      <3>5. available'[r] = available[r] - need[r] /\ lost'.bundle[r] = lost.bundle[r] + f[id]
        BY <1>6, <2>3, <3>4
      <3>6. available'[r] + SumFunction(g) + lost'.bundle[r] = Capacity[r]
        BY <3>1, <3>2, <3>3, <3>4, <3>5
      <3> QED
        BY <3>6 DEF g
    <2>7. active_tasks' = Cardinality(DOMAIN commitments') + lost'.count
      <3>1. Cardinality(DOMAIN commitments) \in Nat
        BY <1>1, FS_CardinalityType
      <3>2. active_tasks = Cardinality(DOMAIN commitments) + lost.count
        BY DEF CapacityBooks, CapacityAccounted
      <3> QED
        BY <1>4, <1>7, <2>3, <2>4, <3>1, <3>2
    <2> QED
      BY <1>1, <2>4, <2>5, <2>6, <2>7 DEF CapacityBooks, CapacityAccounted, Committed
  <1>9. CASE id \notin DOMAIN commitments
    <2>1. lost' = lost
      BY <1>4, <1>9
    <2>2. IsFiniteSet(DOMAIN commitments') /\ now' \in Nat
      BY <1>1, <1>5, FS_AddElement
    <2>3. AllocatorTypeOK'
      BY <1>1, <1>2, <1>4, <1>5, <1>6, <2>1 DEF AllocatorTypeOK, Put
    <2>4. ASSUME NEW r \in Resources
          PROVE  available'[r] + SumFunction(Committed(r)') + lost'.bundle[r] = Capacity[r]
      <3> DEFINE f == Committed(r)
                 g == Committed(r)'
      <3>1. /\ DOMAIN f = DOMAIN commitments /\ IsFiniteSet(DOMAIN f)
            /\ \A x \in DOMAIN f : f[x] \in Nat
            /\ SumFunction(f) \in Nat
            /\ available[r] + SumFunction(f) + lost.bundle[r] = Capacity[r]
            /\ available[r] \in Nat /\ lost.bundle[r] \in Nat
        BY CommittedTyped
      <3>2. /\ DOMAIN g = DOMAIN f \cup {id} /\ id \notin DOMAIN f
            /\ g[id] = need[r] /\ need[r] \in Nat
            /\ \A x \in DOMAIN f \ {id} : g[x] = f[x]
        BY <1>2, <1>5, <1>9, <3>1 DEF Committed, Bundle
      <3> HIDE DEF f, g
      <3>3. SumFunction(g) = SumFunction(f) + g[id] /\ SumFunction(g) \in Nat
        BY <3>1, <3>2, TotalPut
      <3>4. available'[r] = available[r] - need[r]
        BY <1>6
      <3>5. available'[r] + SumFunction(g) + lost'.bundle[r] = Capacity[r]
        BY <2>1, <3>1, <3>2, <3>3, <3>4
      <3> QED
        BY <3>5 DEF g
    <2>5. active_tasks' = Cardinality(DOMAIN commitments') + lost'.count
      <3>1. /\ Cardinality(DOMAIN commitments) \in Nat
            /\ Cardinality(DOMAIN commitments') = Cardinality(DOMAIN commitments) + 1
        BY <1>1, <1>5, <1>9, FS_AddElement, FS_CardinalityType
      <3>2. active_tasks = Cardinality(DOMAIN commitments) + lost.count
        BY DEF CapacityBooks, CapacityAccounted
      <3> QED
        BY <1>4, <1>7, <2>1, <3>1, <3>2
    <2> QED
      BY <2>2, <2>3, <2>4, <2>5 DEF CapacityBooks, CapacityAccounted, Committed
  <1> QED
    BY <1>8, <1>9

\* release_resources, of a commitment of whoever made it.
LEMMA ReleaseBooks ==
  ASSUME CapacityBooks, NEW id, ReleaseResources(id), now' = now
  PROVE  CapacityBooks'
  <1>1. CASE id \notin DOMAIN commitments
    BY <1>1 DEF ReleaseResources, allocatorVars, CapacityBooks, AllocatorTypeOK, CapacityAccounted
  <1>2. CASE id \in DOMAIN commitments
    <2>1. /\ commitments \in [DOMAIN commitments -> Bundle] /\ IsFiniteSet(DOMAIN commitments)
          /\ DOMAIN commitments \subseteq Nat
          /\ available \in Bundle /\ active_tasks \in Nat /\ now \in Nat
          /\ lost \in [bundle : Bundle, count : Nat] /\ lost.count \in Nat
      BY DEF CapacityBooks, AllocatorTypeOK
    <2>2. commitments[id] \in Bundle
      BY <1>2, <2>1
    <2>3. /\ available' = More(available, commitments[id])
          /\ active_tasks' = Minus(active_tasks, 1)
          /\ commitments' = [c \in DOMAIN commitments \ {id} |-> commitments[c]]
          /\ lost' = lost
      BY <1>2 DEF ReleaseResources
    <2>4. /\ available' \in Bundle
          /\ \A r \in Resources : available'[r] = available[r] + commitments[id][r]
      BY <2>1, <2>2, <2>3 DEF More, Bundle
    <2>5. /\ DOMAIN commitments' = DOMAIN commitments \ {id}
          /\ \A x \in DOMAIN commitments' : commitments'[x] = commitments[x]
          /\ IsFiniteSet(DOMAIN commitments')
          /\ commitments' \in [DOMAIN commitments' -> Bundle]
      BY <2>1, <2>3, FS_Subset
    <2>6. /\ Cardinality(DOMAIN commitments) \in Nat /\ Cardinality(DOMAIN commitments') \in Nat
          /\ Cardinality(DOMAIN commitments') = Cardinality(DOMAIN commitments) - 1
      BY <1>2, <2>1, <2>5, FS_RemoveElement, FS_CardinalityType
    <2>7. active_tasks = Cardinality(DOMAIN commitments) + lost.count
      BY DEF CapacityBooks, CapacityAccounted
    <2>8. active_tasks' = active_tasks - 1 /\ active_tasks' \in Nat
      BY <2>1, <2>3, <2>6, <2>7 DEF Minus
    <2>9. AllocatorTypeOK'
      BY <2>1, <2>3, <2>4, <2>5, <2>8 DEF AllocatorTypeOK
    <2>10. ASSUME NEW r \in Resources
           PROVE  available'[r] + SumFunction(Committed(r)') + lost'.bundle[r] = Capacity[r]
      <3> DEFINE f == Committed(r)
                 g == Committed(r)'
      <3>1. /\ DOMAIN f = DOMAIN commitments /\ IsFiniteSet(DOMAIN f)
            /\ \A x \in DOMAIN f : f[x] = commitments[x][r] /\ f[x] \in Nat
            /\ SumFunction(f) \in Nat
            /\ available[r] + SumFunction(f) + lost.bundle[r] = Capacity[r]
            /\ available[r] \in Nat /\ lost.bundle[r] \in Nat
        BY CommittedTyped
      <3>2. DOMAIN g = DOMAIN f \ {id} /\ \A x \in DOMAIN g : g[x] = f[x]
        BY <2>5, <3>1 DEF Committed
      <3>3. id \in DOMAIN f /\ f[id] = commitments[id][r] /\ f[id] \in Nat
        BY <1>2, <3>1
      <3> HIDE DEF f, g
      <3>4. SumFunction(g) = SumFunction(f) - f[id] /\ SumFunction(g) \in Nat
        BY <3>1, <3>2, <3>3, TotalDrop
      <3>5. available'[r] = available[r] + f[id]
        BY <2>4, <3>3
      <3>6. available'[r] + SumFunction(g) + lost'.bundle[r] = Capacity[r]
        BY <2>3, <3>1, <3>3, <3>4, <3>5
      <3> QED
        BY <3>6 DEF g
    <2>11. active_tasks' = Cardinality(DOMAIN commitments') + lost'.count
      BY <2>1, <2>3, <2>6, <2>7, <2>8
    <2>12. now' \in Nat
      BY <2>1
    <2> QED
      BY <2>5, <2>9, <2>10, <2>11, <2>12 DEF CapacityBooks, CapacityAccounted, Committed
  <1> QED
    BY <1>1, <1>2

LEMMA CapacityBooksStep ==
  ASSUME CapacityBooks, [ZKStackNext]_zkStackVars
  PROVE  CapacityBooks'
  <1>1. ASSUME UNCHANGED allocatorVars, now' \in Nat PROVE CapacityBooks'
    BY <1>1 DEF CapacityBooks, AllocatorTypeOK, CapacityAccounted, allocatorVars
  <1>2. now \in Nat
    BY DEF CapacityBooks
  <1>3. ASSUME NEW id \in TaskIds, NEW units \in Units, ClientAllocates(id, units), now' = now
        PROVE  CapacityBooks'
    BY <1>1, <1>2, <1>3, AllocateBooks DEF ClientAllocates
  <1>4. ASSUME NEW id \in TaskIds, ClientReleases(id), now' = now
        PROVE  CapacityBooks'
    BY <1>4, ReleaseBooks DEF ClientReleases
  <1>5. ASSUME now' = now,
               \/ \E id \in TaskIds, type \in ComputeTypes, genuine \in BOOLEAN :
                      ClientSubmits(id, type, genuine)
               \/ \E id \in DOMAIN proofs, bonus \in SpeedBonuses : ClientVerifies(id, bonus)
               \/ \E id \in DOMAIN proofs, wallet \in RewardWallets : ClientDistributes(id, wallet)
               \/ GenerateMerkleRoot /\ UNCHANGED <<distributorVars, allocatorVars, clientVars>>
        PROVE  CapacityBooks'
    <2>1. UNCHANGED allocatorVars
      BY <1>5 DEF ClientSubmits, ClientVerifies, ClientDistributes
    <2> QED
      BY <1>1, <1>2, <1>5, <2>1
  <1> QED
    BY <1>1, <1>2, <1>3, <1>4, <1>5 DEF ZKStackNext, zkStackVars, Tick,
       ClientSubmits, ClientVerifies, ClientDistributes

-----------------------------------------------------------------------------
LEMMA RewardBooksInit == ZKStackInit => RewardBooks
  <1> SUFFICES ASSUME ZKStackInit PROVE RewardBooks
    OBVIOUS
  <1> USE DEF ZKStackInit, ZKInit, EmptyTable
  <1>1. RewardTypes /\ stage \in [TaskIds -> Stages]
    BY FS_EmptySet DEF RewardTypes, Stages
  <1>2. VerifiedIds = {} /\ Owed = {} /\ IsFiniteSet({}) /\ Cardinality({}) = 0
    BY FS_EmptySet DEF VerifiedIds, Owed
  <1>3. DOMAIN Rewards({}) = {} /\ SumFunction(Rewards({})) = 0
    BY <1>2, TotalNat DEF Rewards
  <1>4. VerifiedWerePaid /\ OwedWithinPaid
    BY <1>2, <1>3 DEF VerifiedWerePaid, OwedWithinPaid, Rewards
  <1>5. total_rewards_distributed = SumFunction(reward_balances)
    <2>1. /\ DOMAIN reward_balances = RewardWallets /\ IsFiniteSet(RewardWallets)
          /\ \A w \in RewardWallets : reward_balances[w] = 0
      BY ZKAssumption
    <2>2. SumFunctionOnSet(reward_balances, RewardWallets) = 0
      BY <2>1, SumZero
    <2> QED
      BY <2>1, <2>2 DEF SumFunction
  <1> QED
    BY <1>1, <1>4, <1>5 DEF RewardBooks

LEMMA CapacityBooksInit == ZKStackInit => CapacityBooks
  <1> SUFFICES ASSUME ZKStackInit PROVE CapacityBooks
    OBVIOUS
  <1>1. /\ available = Capacity /\ active_tasks = 0 /\ now = 0
        /\ DOMAIN commitments = {}
        /\ lost = [bundle |-> [r \in Resources |-> 0], count |-> 0]
    BY DEF ZKStackInit, AllocatorInit, ClockInit, EmptyTable
  <1>2. IsFiniteSet({}) /\ Cardinality({}) = 0
    BY FS_EmptySet
  <1>3. Capacity \in Bundle /\ [r \in Resources |-> 0] \in Bundle
    BY AllocatorAssumption DEF Bundle
  <1>4. commitments \in [DOMAIN commitments -> Bundle]
    BY DEF ZKStackInit, AllocatorInit, EmptyTable
  <1>5. AllocatorTypeOK
    BY <1>1, <1>3, <1>4 DEF AllocatorTypeOK
  <1>6. ASSUME NEW r \in Resources
        PROVE  available[r] + SumFunction(Committed(r)) + lost.bundle[r] = Capacity[r]
    <2>1. DOMAIN Committed(r) = {}
      BY <1>1 DEF Committed
    <2>2. SumFunction(Committed(r)) = 0
      BY <1>2, <2>1, TotalNat
    <2>3. available[r] = Capacity[r] /\ lost.bundle[r] = 0 /\ Capacity[r] \in Nat
      BY <1>1, AllocatorAssumption
    <2> QED
      BY <2>2, <2>3
  <1>7. CapacityAccounted
    BY <1>1, <1>2, <1>6 DEF CapacityAccounted, Committed
  <1> QED
    BY <1>1, <1>2, <1>5, <1>7 DEF CapacityBooks

\* What verified proofs show was paid, though tasks are submitted and verified
\* again.
THEOREM ZKVerifiedWerePaid == ZKStackSpec => []VerifiedWerePaid
  <1>1. RewardBooks => VerifiedWerePaid
    BY DEF RewardBooks
  <1> QED
    BY <1>1, RewardBooksInit, RewardBooksStep, PTL DEF ZKStackSpec

\* Clients that keep to their tasks are distributed no more than was paid.
THEOREM ZKDistributedWithinPaid == ZKStackSpec => []DistributedWithinPaid
  <1>1. RewardBooks => DistributedWithinPaid
    <2> SUFFICES ASSUME RewardBooks PROVE DistributedWithinPaid
      OBVIOUS
    <2>1. RewardTypes /\ Owed \subseteq VerifiedIds
      BY DEF RewardBooks, Owed
    <2>2. SumFunction(Rewards(Owed)) \in Nat
      BY <2>1, RewardsTyped
    <2>3. total_rewards_distributed <= total_rewards_paid
      BY <2>1, <2>2 DEF RewardBooks, RewardTypes, OwedWithinPaid
    <2> QED
      BY <2>3 DEF RewardBooks, DistributedWithinPaid
  <1> QED
    BY <1>1, RewardBooksInit, RewardBooksStep, PTL DEF ZKStackSpec

\* The node's capacity is free, committed or lost with an overwritten commitment.
THEOREM ZKCapacityAccounted == ZKStackSpec => []CapacityAccounted
  <1>1. CapacityBooks => CapacityAccounted
    BY DEF CapacityBooks
  <1> QED
    BY <1>1, CapacityBooksInit, CapacityBooksStep, PTL DEF ZKStackSpec

-----------------------------------------------------------------------------
\* The builder holds a sequence, as long as it is filled by generate_merkle_root.
LeavesListed == \E V : leaves \in Seq(V)

LEMMA LeavesInit == ZKStackInit => LeavesListed
  <1> SUFFICES ASSUME ZKStackInit PROVE LeavesListed
    OBVIOUS
  <1>1. leaves = << >>
    BY DEF ZKStackInit, ZKInit
  <1>2. leaves \in Seq({})
    BY <1>1
  <1> QED
    BY <1>2 DEF LeavesListed

LEMMA LeavesStep ==
  ASSUME RewardBooks, LeavesListed, [ZKStackNext]_zkStackVars
  PROVE  LeavesListed'
  <1>1. CASE leaves' = leaves
    BY <1>1 DEF LeavesListed
  <1>2. CASE GenerateMerkleRoot
    <2>1. PICK V : leaves \in Seq(V)
      BY DEF LeavesListed
    <2> DEFINE added == VerifiedLeaves
               m == Cardinality(VerifiedIds)
               W == V \cup {added[k] : k \in 1..m}
    <2>2. m \in Nat
      BY RewardsTyped DEF RewardBooks
    <2>3. added = [k \in 1..m |-> added[k]]
      BY DEF VerifiedLeaves
    <2> HIDE DEF added, m
    <2>4. added \in Seq(W)
      <3>1. added \in [1..m -> W]
        BY <2>3
      <3> QED
        BY <2>2, <3>1
    <2>5. leaves \in Seq(W)
      <3>1. V \subseteq W
        OBVIOUS
      <3> HIDE DEF W
      <3> QED
        BY <2>1, <3>1
    <2>6. leaves' = leaves \o added
      BY <1>2 DEF GenerateMerkleRoot, added
    <2>7. leaves' \in Seq(W)
      BY <2>4, <2>5, <2>6
    <2> QED
      BY <2>7 DEF LeavesListed
  <1>3. UNCHANGED leaves \/ GenerateMerkleRoot
    BY DEF ZKStackNext, zkStackVars, managerVars, ClientAllocates, ClientSubmits, SubmitTask,
       ClientVerifies, VerifyTaskCompletion, ClientDistributes, ClientReleases
  <1> QED
    BY <1>1, <1>2, <1>3

\* Whatever is in the builder, and however often: as long as no node of the
\* tree is promoted, the proof of a leaf verifies for it and for nothing else.
THEOREM ZKFullTreesVerify == ZKStackSpec => []FullTreeProofsVerify
  <1>1. LeavesListed => FullTreeProofsVerify
    BY ProofVerifiesItsLeaf DEF LeavesListed, FullTreeProofsVerify
  <1>2. ZKStackSpec => []RewardBooks
    BY RewardBooksInit, RewardBooksStep, PTL DEF ZKStackSpec
  <1> QED
    BY <1>1, <1>2, LeavesInit, LeavesStep, PTL DEF ZKStackSpec

-----------------------------------------------------------------------------
\* ComputeFutures: what an order costs, and what its parts were read from.

USE OracleAssumption, MarketAssumption

FedPrice == [cpu : Prices, ram : Prices]

\* The price the three atomics stand for.
CurrentPrice == [cpu |-> current_cpu_price, ram |-> current_ram_price]

\* The index is that of the two prices, which were fed.
Settled == /\ CurrentPrice \in FedPrice
           /\ current_index = IndexOf(CurrentPrice)

\* One feeder at a time is between its stores; the atomics are settled when
\* there is none, and what it has stored is its own.
OracleInv ==
    /\ OracleTypeOK
    /\ \A f \in Feeders : feed_pc[f] # "idle" <=> feeder = f
    /\ feeder = NoFeeder /\ feeds > 0 => Settled
    /\ \A f \in Feeders :
          /\ feed_pc[f] # "idle" => feed[f] \in FedPrice
          /\ feed_pc[f] \in {"cpu", "ram"} => current_index = IndexOf(feed[f])
          /\ feed_pc[f] = "ram" => current_cpu_price = feed[f].cpu

\* What a thread that nothing was fed to has read is what the atomics say.
QuietInv ==
    \A t \in Traders : quiet[t] =>
        /\ feeder = NoFeeder /\ feeds > 0
        /\ pc[t] = "ram" => cpu_read[t] = current_cpu_price
        /\ pc[t] = "index" => notional[t] = NotionalOf(order[t], CurrentPrice)

\* The inductive invariant of the market and its oracle.
FuturesInv == /\ MarketTypeOK
              /\ OracleInv
              /\ QuietInv
              /\ QuietOpensConsistent

-----------------------------------------------------------------------------
\* Indices and values are whole numbers.
LEMMA IndexIsNat ==
  ASSUME NEW price \in Price
  PROVE  IndexOf(price) \in Nat
  BY DEF Price, IndexOf

LEMMA ProductIsNat ==
  ASSUME NEW a \in Nat, NEW b \in Nat
  PROVE  a * b \in Nat
  OBVIOUS

LEMMA NotionalIsNat ==
  ASSUME NEW o \in Order, NEW price \in Price
  PROVE  NotionalOf(o, price) \in Nat
  <1>1. WeightSum \in Nat
    BY DEF WeightSum
  <1>2. o.cpu_cores * price.cpu + o.ram_gb * price.ram \in Nat
    BY ProductIsNat DEF Order, Price
  <1>3. WeightSum * (o.cpu_cores * price.cpu + o.ram_gb * price.ram) \in Nat
    BY <1>1, <1>2, ProductIsNat
  <1>4. o.leverage \in Nat
    BY DEF Order
  <1> QED
    BY <1>3, <1>4, ProductIsNat DEF NotionalOf

LEMMA ProfitIsInt ==
  ASSUME NEW future \in ComputeFuture, NEW price \in Nat
  PROVE  GainAt(future, price) * SizeOf(future.order) \in Int
  <1>1. future.order \in Order /\ future.entry_price \in Nat
    BY DEF ComputeFuture
  <1>2. SizeOf(future.order) \in Int
    BY <1>1 DEF SizeOf, Order
  <1>3. GainAt(future, price) \in Int
    BY <1>1 DEF GainAt, Order
  <1> QED
    BY <1>2, <1>3

\* The market starts without futures, and an oracle that was not fed.
LEMMA FuturesInitInv == MarketInit => FuturesInv
  <1> SUFFICES ASSUME MarketInit PROVE FuturesInv
    OBVIOUS
  <1>1. (CHOOSE o \in Orders : TRUE) \in Orders
    OBVIOUS
  <1>2. OracleTypeOK
    BY DEF MarketInit, OracleInit, OracleTypeOK, Price
  <1>3. MarketTypeOK
    BY <1>1, <1>2 DEF MarketInit, MarketTypeOK
  <1>4. OracleInv
    BY <1>2 DEF MarketInit, OracleInit, OracleInv
  <1>5. QuietInv
    BY DEF MarketInit, QuietInv
  <1>6. QuietOpensConsistent
    BY DEF MarketInit, QuietOpensConsistent
  <1> QED
    BY <1>3, <1>4, <1>5, <1>6 DEF FuturesInv

-----------------------------------------------------------------------------
\* The oracle's own steps: its lock keeps the stores of feeders apart.
LEMMA OracleStepInv ==
  ASSUME OracleInv,
         NEW f \in Feeders,
         (\E c, r \in Prices : FeedPrice(f, [cpu |-> c, ram |-> r])) \/ FeedStep(f)
  PROVE  OracleInv'
  <1> USE DEF OracleInv, OracleTypeOK
  <1>1. ASSUME NEW c \in Prices, NEW r \in Prices, FeedPrice(f, [cpu |-> c, ram |-> r])
        PROVE  OracleInv'
    BY <1>1 DEF FeedPrice, FeedTo, priceVars, FedPrice, Price
  <1>2. ASSUME StoreIndex(f)
        PROVE  OracleInv'
    <2>1. feed[f] \in FedPrice /\ IndexOf(feed[f]) \in Nat
      BY <1>2, IndexIsNat DEF StoreIndex
    <2> QED
      BY <1>2, <2>1 DEF StoreIndex, FeedTo
  <1>3. ASSUME StoreCpu(f)
        PROVE  OracleInv'
    BY <1>3 DEF StoreCpu, FeedTo, FedPrice, Price
  <1>4. ASSUME StoreRam(f)
        PROVE  OracleInv'
    <2>1. CurrentPrice' = feed[f] /\ feed[f] \in FedPrice /\ current_index = IndexOf(feed[f])
      BY <1>4 DEF StoreRam, CurrentPrice, FedPrice, Price
    <2>2. Settled'
      BY <1>4, <2>1 DEF StoreRam, Settled
    <2> QED
      BY <1>4, <2>1, <2>2 DEF StoreRam, FeedTo, FedPrice, Price
  <1> QED
    BY <1>1, <1>2, <1>3, <1>4 DEF FeedStep

\* The market's steps leave the oracle as it is.
LEMMA OracleUntouched ==
  ASSUME OracleInv, UNCHANGED oracleVars
  PROVE  OracleInv'
  BY DEF OracleInv, OracleTypeOK, oracleVars, priceVars, Settled, CurrentPrice

-----------------------------------------------------------------------------
LEMMA OpenReadCpuInv ==
  ASSUME FuturesInv, NEW t \in Traders, NEW o \in Orders, OpenReadCpu(t, o), UNCHANGED oracleVars
  PROVE  FuturesInv'
  <1> USE DEF FuturesInv
  <1>1. OracleInv'
    BY OracleUntouched
  <1>2. MarketTypeOK'
    BY <1>1 DEF OpenReadCpu, MarketTypeOK, OracleInv, OracleTypeOK
  <1>3. QuietInv'
    BY DEF OpenReadCpu, QuietInv, MarketTypeOK, oracleVars, priceVars, CurrentPrice
  <1>4. QuietOpensConsistent'
    BY DEF OpenReadCpu, QuietOpensConsistent
  <1> QED
    BY <1>1, <1>2, <1>3, <1>4

LEMMA OpenReadRamInv ==
  ASSUME FuturesInv, NEW t \in Traders, OpenReadRam(t), UNCHANGED oracleVars
  PROVE  FuturesInv'
  <1> USE DEF FuturesInv
  <1> DEFINE price == [cpu |-> cpu_read[t], ram |-> current_ram_price]
  <1>1. OracleInv'
    BY OracleUntouched
  <1>2. NotionalOf(order[t], price) \in Nat
    <2>1. order[t] \in Order /\ price \in Price
      BY DEF MarketTypeOK, OracleTypeOK, Price
    <2> QED
      BY <2>1, NotionalIsNat
  <1>3. MarketTypeOK'
    BY <1>1, <1>2 DEF OpenReadRam, MarketTypeOK, OracleInv, OracleTypeOK
  <1>4. quiet[t] => price = CurrentPrice
    BY DEF OpenReadRam, QuietInv, CurrentPrice
  <1>5. QuietInv'
    BY <1>4 DEF OpenReadRam, QuietInv, MarketTypeOK, oracleVars, priceVars, CurrentPrice
  <1>6. QuietOpensConsistent'
    BY DEF OpenReadRam, QuietOpensConsistent
  <1> QED
    BY <1>1, <1>3, <1>5, <1>6

\* The values of a quiet future come from the one price the oracle had.
LEMMA OpenInsertInv ==
  ASSUME FuturesInv, NEW t \in Traders, OpenInsert(t), UNCHANGED oracleVars
  PROVE  FuturesInv'
  <1> USE DEF FuturesInv
  <1> DEFINE future == [order |-> order[t], status |-> "OPEN", entry_price |-> current_index,
                        notional_value |-> notional[t], pnl |-> 0, quiet |-> quiet[t]]
  <1>1. OracleInv'
    BY OracleUntouched
  <1>2. future \in ComputeFuture
    BY DEF ComputeFuture, Statuses, MarketTypeOK, OracleTypeOK
  <1>3. /\ futures' = Append(futures, future)
        /\ futures \in Seq(ComputeFuture)
    BY DEF OpenInsert, MarketTypeOK
  <1>4. MarketTypeOK'
    <2>1. OracleTypeOK'
      BY <1>1 DEF OracleInv
    <2>2. futures' \in Seq(ComputeFuture)
      <3> HIDE DEF future
      <3> QED
        BY <1>2, <1>3
    <2>3. /\ market' \in Traders \cup {NoTrader}
          /\ pc' \in [Traders -> {"idle", "ram", "index"}]
          /\ UNCHANGED <<order, cpu_read, notional, quiet>>
      BY DEF OpenInsert, MarketTypeOK
    <2> QED
      BY <2>1, <2>2, <2>3 DEF MarketTypeOK
  <1>5. QuietInv'
    BY DEF OpenInsert, QuietInv, MarketTypeOK, oracleVars, priceVars, CurrentPrice
  <1>6. quiet[t] => \E c, r \in Prices :
            LET price == [cpu |-> c, ram |-> r]
            IN  /\ current_index = IndexOf(price)
                /\ notional[t] = NotionalOf(order[t], price)
    BY DEF OpenInsert, QuietInv, OracleInv, Settled, CurrentPrice, FedPrice
  <1>7. QuietOpensConsistent'
    <2> SUFFICES ASSUME NEW id \in DOMAIN futures', futures'[id].quiet
                 PROVE  \E c, r \in Prices :
                           LET price == [cpu |-> c, ram |-> r]
                           IN  /\ futures'[id].entry_price = IndexOf(price)
                               /\ futures'[id].notional_value = NotionalOf(futures'[id].order, price)
      BY DEF QuietOpensConsistent, IndexOf, NotionalOf
    <2>1. CASE id \in DOMAIN futures
      <3>1. futures'[id] = futures[id]
        <4> HIDE DEF future
        <4> QED
          BY <2>1, <1>2, <1>3
      <3> QED
        BY <2>1, <3>1 DEF QuietOpensConsistent
    <2>2. CASE id \notin DOMAIN futures
      <3>1. futures'[id] = future /\ quiet[t]
        BY <2>2, <1>3
      <3>2. PICK c \in Prices, r \in Prices :
               LET price == [cpu |-> c, ram |-> r]
               IN  /\ current_index = IndexOf(price)
                   /\ notional[t] = NotionalOf(order[t], price)
        BY <3>1, <1>6
      <3> QED
        BY <3>1, <3>2
    <2> QED
      BY <2>1, <2>2
  <1> QED
    BY <1>1, <1>4, <1>5, <1>7

\* Settling and liquidating change the status and the result of futures alone.
LEMMA CloseInv ==
  ASSUME FuturesInv, UNCHANGED <<oracleVars, openVars>>,
         futures' \in Seq(ComputeFuture),
         Len(futures') = Len(futures),
         \A id \in DOMAIN futures :
            /\ futures'[id].order = futures[id].order
            /\ futures'[id].quiet = futures[id].quiet
            /\ futures'[id].entry_price = futures[id].entry_price
            /\ futures'[id].notional_value = futures[id].notional_value
  PROVE  FuturesInv'
  <1> USE DEF FuturesInv
  <1>1. OracleInv'
    BY OracleUntouched
  <1>2. MarketTypeOK'
    BY <1>1 DEF MarketTypeOK, OracleInv, openVars
  <1>3. QuietInv'
    BY DEF QuietInv, openVars, oracleVars, priceVars, CurrentPrice
  <1>4. DOMAIN futures' = DOMAIN futures
    BY DEF MarketTypeOK
  <1>5. QuietOpensConsistent'
    <2> SUFFICES ASSUME NEW id \in DOMAIN futures', futures'[id].quiet
                 PROVE  \E c, r \in Prices :
                           LET price == [cpu |-> c, ram |-> r]
                           IN  /\ futures'[id].entry_price = IndexOf(price)
                               /\ futures'[id].notional_value = NotionalOf(futures'[id].order, price)
      BY DEF QuietOpensConsistent, IndexOf, NotionalOf
    <2>1. /\ id \in DOMAIN futures
          /\ futures'[id].order = futures[id].order
          /\ futures[id].quiet
          /\ futures'[id].entry_price = futures[id].entry_price
          /\ futures'[id].notional_value = futures[id].notional_value
      BY <1>4
    <2>2. PICK c \in Prices, r \in Prices :
             LET price == [cpu |-> c, ram |-> r]
             IN  /\ futures[id].entry_price = IndexOf(price)
                 /\ futures[id].notional_value = NotionalOf(futures[id].order, price)
      BY <2>1 DEF QuietOpensConsistent
    <2> QED
      BY <2>1, <2>2
  <1> QED
    BY <1>1, <1>2, <1>3, <1>5

LEMMA SettleInv ==
  ASSUME FuturesInv, NEW id \in DOMAIN futures, SettleFuture(id), UNCHANGED oracleVars
  PROVE  FuturesInv'
  <1> DEFINE profit == GainAt(futures[id], current_index) * SizeOf(futures[id].order)
             settled == [futures[id] EXCEPT !.status = "SETTLED", !.pnl = profit]
  <1>1. /\ futures' = [futures EXCEPT ![id] = settled]
        /\ UNCHANGED openVars
    BY DEF SettleFuture
  <1>2. futures \in Seq(ComputeFuture) /\ futures[id] \in ComputeFuture /\ current_index \in Nat
    BY DEF FuturesInv, MarketTypeOK, OracleTypeOK
  <1>3. profit \in Int
    BY <1>2, ProfitIsInt
  <1> HIDE DEF profit
  <1>4. settled \in ComputeFuture
    BY <1>2, <1>3 DEF ComputeFuture, Statuses
  <1>5. /\ settled.order = futures[id].order
        /\ settled.quiet = futures[id].quiet
        /\ settled.entry_price = futures[id].entry_price
        /\ settled.notional_value = futures[id].notional_value
    BY <1>2 DEF ComputeFuture
  <1> HIDE DEF settled
  <1>6. futures' \in Seq(ComputeFuture) /\ Len(futures') = Len(futures)
    BY <1>1, <1>2, <1>4
  <1> QED
    BY <1>1, <1>2, <1>5, <1>6, CloseInv

LEMMA LiquidateInv ==
  ASSUME FuturesInv, CheckLiquidations, UNCHANGED oracleVars
  PROVE  FuturesInv'
  <1>1. futures \in Seq(ComputeFuture) /\ UNCHANGED openVars
    BY DEF FuturesInv, MarketTypeOK, CheckLiquidations
  <1>2. DOMAIN futures' = DOMAIN futures
    BY DEF CheckLiquidations
  <1>3. ASSUME NEW id \in DOMAIN futures
        PROVE  /\ futures'[id] \in ComputeFuture
               /\ futures'[id].order = futures[id].order
               /\ futures'[id].quiet = futures[id].quiet
               /\ futures'[id].entry_price = futures[id].entry_price
               /\ futures'[id].notional_value = futures[id].notional_value
    <2>1. futures[id] \in ComputeFuture
      BY <1>1
    <2>2. -20 * futures[id].order.collateral \in Int
      BY <2>1 DEF ComputeFuture, Order
    <2>3. \/ futures'[id] = futures[id]
          \/ futures'[id] = [futures[id] EXCEPT !.status = "LIQUIDATED",
                                                !.pnl = -20 * futures[id].order.collateral]
      BY DEF CheckLiquidations
    <2> QED
      BY <2>1, <2>2, <2>3 DEF ComputeFuture, Statuses
  <1>4. futures' \in Seq(ComputeFuture) /\ Len(futures') = Len(futures)
    <2>1. DOMAIN futures = 1..Len(futures) /\ Len(futures) \in Nat
      BY <1>1
    <2>2. futures' \in [1..Len(futures) -> ComputeFuture]
      <3>1. futures' = [id \in DOMAIN futures |-> futures'[id]]
        BY DEF CheckLiquidations
      <3> QED
        BY <1>3, <2>1, <3>1
    <2> QED
      BY <2>1, <2>2
  <1> QED
    BY <1>1, <1>3, <1>4, CloseInv

-----------------------------------------------------------------------------
LEMMA FuturesStepInv ==
  ASSUME FuturesInv, [FuturesNext]_futuresVars
  PROVE  FuturesInv'
  <1>1. ASSUME OracleNext
        PROVE  FuturesInv'
    <2>1. OracleInv'
      BY <1>1, OracleStepInv DEF FuturesInv, OracleNext
    <2>2. MarketTypeOK'
      BY <1>1, <2>1 DEF FuturesInv, OracleNext, MarketTypeOK, OracleInv
    <2>3. QuietInv'
      BY <1>1 DEF OracleNext, QuietInv
    <2>4. QuietOpensConsistent'
      BY <1>1 DEF FuturesInv, OracleNext, QuietOpensConsistent
    <2> QED
      BY <2>1, <2>2, <2>3, <2>4 DEF FuturesInv
  <1>2. ASSUME MarketNext
        PROVE  FuturesInv'
    BY <1>2, OpenReadCpuInv, OpenReadRamInv, OpenInsertInv, SettleInv, LiquidateInv
       DEF MarketNext, OpenStep
  <1>3. ASSUME UNCHANGED futuresVars
        PROVE  FuturesInv'
    <2>1. UNCHANGED <<oracleVars, openVars, futures>>
      BY <1>3 DEF futuresVars, marketVars
    <2> QED
      BY <2>1, CloseInv DEF FuturesInv, MarketTypeOK
  <1> QED
    BY <1>1, <1>2, <1>3 DEF FuturesNext

\* The types of the market and of its oracle.
THEOREM FuturesTypeCorrect == FuturesSpec => []MarketTypeOK
  <1>1. FuturesInv => MarketTypeOK
    BY DEF FuturesInv
  <1> QED
    BY <1>1, FuturesInitInv, FuturesStepInv, PTL DEF FuturesSpec

\* Once a price was fed and while no feed_price is between its stores, the
\* index is that of the two prices, however many threads feed.
THEOREM OracleSettles == FuturesSpec => []OracleSettled
  <1>1. FuturesInv => OracleSettled
    BY DEF FuturesInv, OracleInv, OracleSettled, Settled, CurrentPrice
  <1> QED
    BY <1>1, FuturesInitInv, FuturesStepInv, PTL DEF FuturesSpec

\* A future opened while nothing was fed has the values of one price.
THEOREM QuietFuturesConsistent == FuturesSpec => []QuietOpensConsistent
  <1>1. FuturesInv => QuietOpensConsistent
    BY DEF FuturesInv
  <1> QED
    BY <1>1, FuturesInitInv, FuturesStepInv, PTL DEF FuturesSpec

\* Settling and liquidating race for a future, and one of them books it: no
\* step touches a future that is closed.
THEOREM ClosedFuturesFinal == FuturesSpec => ClosedIsFinal
  <1>1. FuturesInv /\ [FuturesNext]_futuresVars
           => [\A id \in DOMAIN futures :
                  futures[id].status # "OPEN" => futures'[id] = futures[id]]_futuresVars
    <2> SUFFICES ASSUME FuturesInv, FuturesNext, NEW id \in DOMAIN futures,
                        futures[id].status # "OPEN"
                 PROVE  futures'[id] = futures[id]
      OBVIOUS
    <2>1. futures \in Seq(ComputeFuture)
      BY DEF FuturesInv, MarketTypeOK
    <2>2. CASE OracleNext
      BY <2>2 DEF OracleNext
    <2>3. ASSUME NEW t \in Traders, NEW o \in Orders, OpenReadCpu(t, o)
          PROVE  futures'[id] = futures[id]
      BY <2>3 DEF OpenReadCpu
    <2>4. ASSUME NEW t \in Traders, OpenStep(t)
          PROVE  futures'[id] = futures[id]
      <3>1. futures' = futures \/ \E future : futures' = Append(futures, future)
        BY <2>4 DEF OpenStep, OpenReadRam, OpenInsert
      <3>2. ASSUME NEW future, futures' = Append(futures, future)
            PROVE  futures'[id] = futures[id]
        BY <2>1, <3>2
      <3> QED
        BY <3>1, <3>2
    <2>5. ASSUME NEW other \in DOMAIN futures, SettleFuture(other)
          PROVE  futures'[id] = futures[id]
      BY <2>1, <2>5 DEF SettleFuture, Settleable
    <2>6. CASE CheckLiquidations
      BY <2>6 DEF CheckLiquidations
    <2> QED
      BY <2>2, <2>3, <2>4, <2>5, <2>6 DEF FuturesNext, MarketNext
  <1> QED
    BY <1>1, FuturesInitInv, FuturesStepInv, PTL DEF FuturesSpec, ClosedIsFinal
=============================================================================
