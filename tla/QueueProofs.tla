---------------------------- MODULE QueueProofs ----------------------------
(***************************************************************************)
(* Facts about the process queues of Queue.tla: what it means for a queue  *)
(* to hold a set, and that EnQue and DeQue change the set as expected as   *)
(* long as everyone who may be queued fits.                                *)
(***************************************************************************)
EXTENDS Queue, SequenceTheorems, FiniteSetTheorems, FunctionTheorems, TLAPS

\* The set a queue holds is what its cells contain.
LEMMA HoldsCells ==
  ASSUME NEW T, NEW q \in Seq(T), NEW S
  PROVE  Holds(q, S) <=>
           /\ \A i, j \in 1..Len(q) : q[i] = q[j] => i = j
           /\ S = {q[i] : i \in 1..Len(q)}
<1>1. DOMAIN q = 1..Len(q)
  BY LenProperties
<1>2. Range(q) = {q[i] : i \in 1..Len(q)}
  BY RangeEquality
<1> QED
  BY <1>1, <1>2 DEF Holds, IsInjective

LEMMA HoldsEmpty == Holds(<< >>, {})
<1>1. << >> \in Seq({}) /\ Len(<< >>) = 0
  BY EmptySeq
<1>2. DOMAIN << >> = {}
  BY <1>1, LenProperties
<1> QED
  BY <1>2 DEF Holds, IsInjective, Range

\* A queue that holds a set inside U is no longer than U is large.
LEMMA HoldsLength ==
  ASSUME NEW T, NEW q \in Seq(T), NEW S, Holds(q, S),
         NEW U, IsFiniteSet(U), S \subseteq U
  PROVE  Len(q) <= Cardinality(U)
<1>1. q \in [1..Len(q) -> U]
  <2>1. q \in [1..Len(q) -> T] /\ Len(q) \in Nat
    BY LenProperties
  <2>2. \A i \in 1..Len(q) : q[i] \in U
    BY HoldsCells
  <2> QED
    BY <2>1, <2>2
<1>2. q \in Injection(1..Len(q), U)
  BY <1>1 DEF Injection, Holds, IsInjective
<1>3. Len(q) \in Nat /\ Cardinality(1..Len(q)) = Len(q)
  BY LenProperties, FS_Interval
<1> QED
  BY <1>2, <1>3, FS_Injection

LEMMA HoldsAppend ==
  ASSUME NEW T, NEW q \in Seq(T), NEW S, Holds(q, S), NEW x \in T, x \notin S
  PROVE  Append(q, x) \in Seq(T) /\ Holds(Append(q, x), S \cup {x})
<1> DEFINE r == Append(q, x)
<1>1. /\ r \in Seq(T) /\ Len(r) = Len(q) + 1 /\ Len(q) \in Nat
      /\ \A i \in 1..Len(q) : r[i] = q[i]
      /\ r[Len(q) + 1] = x
  BY AppendProperties, LenProperties
<1>2. /\ \A i, j \in 1..Len(q) : q[i] = q[j] => i = j
      /\ S = {q[i] : i \in 1..Len(q)}
  BY HoldsCells
<1>3. \A i \in 1..Len(r) : i \in 1..Len(q) \/ i = Len(q) + 1
  BY <1>1
<1>4. \A i, j \in 1..Len(r) : r[i] = r[j] => i = j
  BY <1>1, <1>2, <1>3
<1>5. S \cup {x} = {r[i] : i \in 1..Len(r)}
  BY <1>1, <1>2, <1>3
<1>6. Holds(r, S \cup {x})
  BY <1>1, <1>4, <1>5, HoldsCells
<1> QED
  BY <1>1, <1>6

LEMMA HoldsOne ==
  ASSUME NEW T, NEW x \in T
  PROVE  <<x>> \in Seq(T) /\ Len(<<x>>) = 1 /\ Holds(<<x>>, {x})
<1>1. << >> \in Seq(T) /\ Holds(<< >>, {})
  BY EmptySeq, HoldsEmpty
<1>2. Append(<< >>, x) \in Seq(T) /\ Holds(Append(<< >>, x), {} \cup {x})
  BY <1>1, HoldsAppend
<1>3. <<x>> = Append(<< >>, x) /\ Len(<<x>>) = 1
  OBVIOUS
<1> QED
  BY <1>2, <1>3

LEMMA HoldsConcat ==
  ASSUME NEW T, NEW q \in Seq(T), NEW S, Holds(q, S),
         NEW b \in Seq(T), NEW B, Holds(b, B), S \cap B = {}
  PROVE  q \o b \in Seq(T) /\ Holds(q \o b, S \cup B)
<1> DEFINE r == q \o b
<1>1. /\ r \in Seq(T) /\ Len(r) = Len(q) + Len(b)
      /\ Len(q) \in Nat /\ Len(b) \in Nat
      /\ \A i \in 1..(Len(q) + Len(b)) :
           r[i] = IF i <= Len(q) THEN q[i] ELSE b[i - Len(q)]
  BY ConcatProperties, LenProperties
<1>2. /\ \A i, j \in 1..Len(q) : q[i] = q[j] => i = j
      /\ S = {q[i] : i \in 1..Len(q)}
      /\ \A i, j \in 1..Len(b) : b[i] = b[j] => i = j
      /\ B = {b[i] : i \in 1..Len(b)}
  BY HoldsCells
<1>3. \A i, j \in 1..Len(r) : r[i] = r[j] => i = j
  <2> SUFFICES ASSUME NEW i \in 1..Len(r), NEW j \in 1..Len(r), r[i] = r[j]
               PROVE  i = j
    OBVIOUS
  <2>1. CASE i <= Len(q) /\ j <= Len(q)
    BY <2>1, <1>1, <1>2
  <2>2. CASE i > Len(q) /\ j > Len(q)
    <3>1. i - Len(q) \in 1..Len(b) /\ j - Len(q) \in 1..Len(b)
      BY <2>2, <1>1
    <3>2. b[i - Len(q)] = b[j - Len(q)]
      BY <2>2, <1>1
    <3> QED
      BY <3>1, <3>2, <1>1, <1>2
  <2>3. CASE i <= Len(q) /\ j > Len(q)
    <3>1. r[i] \in S /\ r[j] \in B
      BY <2>3, <1>1, <1>2
    <3> QED
      BY <3>1
  <2>4. CASE i > Len(q) /\ j <= Len(q)
    <3>1. r[i] \in B /\ r[j] \in S
      BY <2>4, <1>1, <1>2
    <3> QED
      BY <3>1
  <2> QED
    BY <2>1, <2>2, <2>3, <2>4, <1>1
<1>4. Range(r) = Range(q) \cup Range(b)
  BY RangeConcatenation
<1>5. Holds(r, S \cup B)
  <2>1. DOMAIN r = 1..Len(r)
    BY <1>1, LenProperties
  <2> QED
    BY <2>1, <1>3, <1>4 DEF Holds, IsInjective
<1> QED
  BY <1>1, <1>5

LEMMA HoldsTail ==
  ASSUME NEW T, NEW q \in Seq(T), NEW S, Holds(q, S), q # << >>
  PROVE  /\ Head(q) \in S /\ Head(q) \in T
         /\ Tail(q) \in Seq(T) /\ Holds(Tail(q), S \ {Head(q)})
<1> DEFINE r == Tail(q)
<1>1. /\ r \in Seq(T) /\ Len(r) = Len(q) - 1 /\ Len(q) \in Nat \ {0}
      /\ \A i \in 1..Len(r) : r[i] = q[i + 1]
      /\ Head(q) \in T
  BY HeadTailProperties, EmptySeq, LenProperties
<1>2. Head(q) = q[1]
  BY <1>1
<1>3. /\ \A i, j \in 1..Len(q) : q[i] = q[j] => i = j
      /\ S = {q[i] : i \in 1..Len(q)}
  BY HoldsCells
<1>4. Head(q) \in S
  BY <1>1, <1>2, <1>3
<1>5. \A i, j \in 1..Len(r) : r[i] = r[j] => i = j
  <2> SUFFICES ASSUME NEW i \in 1..Len(r), NEW j \in 1..Len(r), r[i] = r[j]
               PROVE  i = j
    OBVIOUS
  <2>1. i + 1 \in 1..Len(q) /\ j + 1 \in 1..Len(q) /\ q[i + 1] = q[j + 1]
    BY <1>1
  <2> QED
    BY <2>1, <1>3
<1>6. S \ {Head(q)} = {r[i] : i \in 1..Len(r)}
  <2>1. ASSUME NEW x \in S, x # Head(q)
        PROVE  x \in {r[i] : i \in 1..Len(r)}
    <3>1. PICK i \in 1..Len(q) : x = q[i]
      BY <1>3, <2>1
    <3>2. i # 1
      BY <3>1, <1>2, <2>1
    <3>3. i - 1 \in 1..Len(r) /\ r[i - 1] = q[i]
      BY <3>2, <1>1
    <3> QED
      BY <3>1, <3>3
  <2>2. ASSUME NEW i \in 1..Len(r)
        PROVE  r[i] \in S \ {Head(q)}
    <3>1. i + 1 \in 1..Len(q) /\ 1 \in 1..Len(q) /\ i + 1 # 1 /\ r[i] = q[i + 1]
      BY <1>1
    <3> QED
      BY <3>1, <1>2, <1>3
  <2> QED
    BY <2>1, <2>2
<1>7. Holds(r, S \ {Head(q)})
  BY <1>1, <1>5, <1>6, HoldsCells
<1> QED
  BY <1>1, <1>4, <1>7

\* A loop over the pcb array visits every pid of the set once.
LEMMA InOrderHolds ==
  ASSUME NEW S, IsFiniteSet(S), S \subseteq Int, NEW b \in InOrder(S)
  PROVE  b \in Seq(S) /\ Holds(b, S)
<1> DEFINE n == Cardinality(S)
<1>1. n \in Nat
  BY FS_CardinalityType
<1>2. b \in [1..n -> S] /\ \A i, j \in 1..n : i < j => b[i] < b[j]
  BY DEF InOrder
<1>3. b \in Seq(S)
  BY <1>1, <1>2, SeqDef
<1>4. IsInjective(b)
  <2> SUFFICES ASSUME NEW i \in 1..n, NEW j \in 1..n, i < j \/ j < i
               PROVE  b[i] # b[j]
    BY <1>1, <1>2 DEF IsInjective
  <2>1. b[i] < b[j] \/ b[j] < b[i]
    BY <1>2
  <2>2. b[i] \in Int /\ b[j] \in Int
    BY <1>2
  <2> QED
    BY <2>1, <2>2
<1>5. b \in Surjection(1..n, S)
  <2>1. b \in Injection(1..n, S)
    BY <1>2, <1>4 DEF Injection
  <2>2. Cardinality(1..n) = n
    BY <1>1, FS_Interval
  <2> QED
    BY <2>1, <2>2, FS_Injection
<1>6. Range(b) = S
  BY <1>2, <1>5 DEF Range, Surjection
<1> QED
  BY <1>3, <1>4, <1>6 DEF Holds

\* The rank of a member of a finite set of integers, from 1 on, numbers the set.
Rank(S) == [x \in S |-> Cardinality({y \in S : y < x}) + 1]

LEMMA RankNumbers ==
  ASSUME NEW S, IsFiniteSet(S), S \subseteq Int
  PROVE  /\ Rank(S) \in Bijection(S, 1..Cardinality(S))
         /\ \A x, y \in S : x < y => Rank(S)[x] < Rank(S)[y]
<1> DEFINE n == Cardinality(S)
           below(x) == {y \in S : y < x}
<1>1. n \in Nat
  BY FS_CardinalityType
<1>2. ASSUME NEW x \in S
      PROVE  IsFiniteSet(below(x)) /\ Cardinality(below(x)) \in 0..(n - 1)
  <2>1. below(x) \in SUBSET S /\ x \notin below(x)
    OBVIOUS
  <2>2. IsFiniteSet(below(x)) /\ Cardinality(below(x)) <= n /\ Cardinality(below(x)) # n
    BY <2>1, FS_Subset
  <2>3. Cardinality(below(x)) \in Nat
    BY <2>2, FS_CardinalityType
  <2> QED
    BY <1>1, <2>2, <2>3
<1>3. ASSUME NEW x \in S, NEW y \in S, x < y
      PROVE  Cardinality(below(x)) < Cardinality(below(y))
  <2>1. below(x) \in SUBSET below(y) /\ x \in below(y) /\ x \notin below(x)
    <3>1. \A z \in S : z \in Int
      OBVIOUS
    <3>2. \A z \in S : z < x => z < y
      BY <1>3, <3>1
    <3>3. below(x) \in SUBSET below(y)
      BY <3>2
    <3>4. x \in below(y)
      BY <1>3
    <3>5. ~(x < x)
      BY <3>1
    <3> QED
      BY <3>3, <3>4, <3>5
  <2>2. IsFiniteSet(below(y))
    BY <1>2
  <2>3. /\ Cardinality(below(x)) <= Cardinality(below(y))
        /\ Cardinality(below(x)) # Cardinality(below(y))
    BY <2>1, <2>2, FS_Subset
  <2> QED
    BY <1>2, <2>3
<1>4. Rank(S) \in [S -> 1..n] /\ \A x \in S : Rank(S)[x] = Cardinality(below(x)) + 1
  BY <1>1, <1>2 DEF Rank
<1>5. \A x, y \in S : x < y => Rank(S)[x] < Rank(S)[y]
  <2> SUFFICES ASSUME NEW x \in S, NEW y \in S, x < y
               PROVE  Rank(S)[x] < Rank(S)[y]
    OBVIOUS
  <2>1. Cardinality(below(x)) < Cardinality(below(y))
    BY <1>3
  <2>2. Cardinality(below(x)) \in Int /\ Cardinality(below(y)) \in Int
    BY <1>1, <1>2
  <2> QED
    BY <1>4, <2>1, <2>2
<1>6. \A x, y \in S : Rank(S)[x] = Rank(S)[y] => x = y
  <2> SUFFICES ASSUME NEW x \in S, NEW y \in S, x # y
               PROVE  Rank(S)[x] # Rank(S)[y]
    OBVIOUS
  <2>1. x < y \/ y < x
    OBVIOUS
  <2> QED
    BY <1>4, <1>5, <2>1
<1>7. Rank(S) \in Injection(S, 1..n)
  BY <1>4, <1>6, Fun_IsInj
<1>8. IsFiniteSet(1..n) /\ Cardinality(1..n) = n
  BY <1>1, FS_Interval
<1>9. Rank(S) \in Surjection(S, 1..n)
  BY <1>7, <1>8, FS_Injection
<1> QED
  BY <1>5, <1>7, <1>9, Fun_IsBij

\* Such a set can be visited in order.
LEMMA InOrderExists ==
  ASSUME NEW S, IsFiniteSet(S), S \subseteq Int
  PROVE  \E b : b \in InOrder(S)
<1> DEFINE n == Cardinality(S)
           b == Inverse(Rank(S), S, 1..n)
<1>1. n \in Nat /\ 1..n \subseteq Int
  BY FS_CardinalityType
<1>2. /\ Rank(S) \in Bijection(S, 1..n)
      /\ \A x, y \in S : x < y => Rank(S)[x] < Rank(S)[y]
  BY RankNumbers
<1>3. b \in Bijection(1..n, S)
  BY <1>2, Fun_BijInverse
<1>4. \A i \in 1..n : Rank(S)[b[i]] = i
  <2>1. Rank(S) \in Surjection(S, 1..n)
    BY <1>2 DEF Bijection
  <2>2. Rank(S) \in [S -> 1..n] /\ Range(Rank(S)) = 1..n
    BY <2>1, Fun_SurjectionProperties
  <2> QED
    BY <2>2, Fun_InverseProperties
<1> HIDE DEF b
<1>5. b \in [1..n -> S]
  BY <1>3 DEF Bijection, Injection
<1>6. ASSUME NEW i \in 1..n, NEW j \in 1..n, i < j
      PROVE  b[i] < b[j]
  <2>1. b[i] \in S /\ b[j] \in S /\ b[i] \in Int /\ b[j] \in Int
    BY <1>5
  <2>2. b[i] # b[j] /\ ~(b[j] < b[i])
    BY <1>1, <1>2, <1>4, <1>6, <2>1
  <2> QED
    BY <2>1, <2>2
<1>7. DOMAIN b = 1..n
  BY <1>5
<1>8. b \in InOrder(S)
  BY <1>5, <1>6, <1>7 DEF InOrder
<1> QED
  BY <1>8

\* Such a set has a least member.
LEMMA LeastMember ==
  ASSUME NEW S, IsFiniteSet(S), S \subseteq Int, S # {}
  PROVE  \E m \in S : \A x \in S : m <= x
<1> DEFINE n == Cardinality(S)
<1>1. n \in Nat /\ n # 0
  BY FS_CardinalityType, FS_EmptySet
<1>2. PICK b : b \in InOrder(S)
  BY InOrderExists
<1>3. /\ b \in [1..n -> S] /\ \A i, j \in 1..n : i < j => b[i] < b[j]
      /\ \A x \in S : \E i \in 1..n : b[i] = x
  <2>1. b \in [1..n -> S] /\ \A i, j \in 1..n : i < j => b[i] < b[j]
    BY <1>2 DEF InOrder
  <2>2. Range(b) = S
    BY <1>2, InOrderHolds DEF Holds
  <2> QED
    BY <2>1, <2>2 DEF Range
<1> HIDE DEF n
<1>4. 1 \in 1..n
  BY <1>1
<1>5. ASSUME NEW x \in S
      PROVE  b[1] <= x
  <2>1. PICK i \in 1..n : b[i] = x
    BY <1>3
  <2>2. CASE i = 1
    BY <1>3, <1>4, <2>1, <2>2
  <2>3. CASE i # 1
    <3>1. 1 < i /\ b[1] \in S /\ b[i] \in S /\ b[1] \in Int /\ b[i] \in Int
      <4>1. 1 < i
        BY <1>1, <2>3
      <4>2. b[1] \in S /\ b[i] \in S
        BY <1>3, <1>4
      <4> QED
        BY <4>1, <4>2
    <3>2. b[1] < b[i]
      BY <1>3, <1>4, <3>1
    <3> QED
      BY <2>1, <3>1, <3>2
  <2> QED
    BY <2>2, <2>3
<1> QED
  BY <1>3, <1>4, <1>5

\* There are n members with fewer than n below them.
LEMMA FirstMembers ==
  ASSUME NEW S, IsFiniteSet(S), S \subseteq Int, NEW n \in Nat, n <= Cardinality(S)
  PROVE  LET T == {i \in S : Cardinality({j \in S : j < i}) < n}
         IN  IsFiniteSet(T) /\ Cardinality(T) = n
<1> DEFINE m == Cardinality(S)
           T == {i \in S : Cardinality({j \in S : j < i}) < n}
           r == [x \in T |-> Rank(S)[x]]
<1>1. m \in Nat /\ Rank(S) \in Bijection(S, 1..m)
  BY FS_CardinalityType, RankNumbers
<1>2. /\ Rank(S) \in [S -> 1..m]
      /\ \A x, y \in S : Rank(S)[x] = Rank(S)[y] => x = y
      /\ \A i \in 1..m : \E x \in S : Rank(S)[x] = i
  <2> DEFINE f == Rank(S)
  <2>1. f \in Injection(S, 1..m) /\ f \in Surjection(S, 1..m)
    BY <1>1 DEF Bijection
  <2> HIDE DEF f
  <2>2. f \in [S -> 1..m] /\ \A x, y \in S : f[x] = f[y] => x = y
    BY <2>1, Fun_InjectionProperties
  <2>3. \A i \in 1..m : \E x \in S : f[x] = i
    BY <2>1, Fun_SurjectionProperties
  <2> QED
    BY <2>2, <2>3 DEF f
<1>3. \A x \in S : Rank(S)[x] \in 1..m /\ (x \in T <=> Rank(S)[x] <= n)
  <2> TAKE x \in S
  <2>1. Rank(S)[x] = Cardinality({y \in S : y < x}) + 1
    BY DEF Rank
  <2>2. {y \in S : y < x} \in SUBSET S
    OBVIOUS
  <2>3. Cardinality({y \in S : y < x}) \in Nat
    BY <2>2, FS_Subset, FS_CardinalityType
  <2> QED
    BY <1>2, <2>1, <2>3
<1> HIDE DEF T
<1>4. T \subseteq S
  BY DEF T
<1>5. r \in [T -> 1..n]
  BY <1>1, <1>3, <1>4
<1>6. r \in Bijection(T, 1..n)
  <2>1. \A a, b \in T : r[a] = r[b] => a = b
    BY <1>2, <1>4
  <2>2. \A t \in 1..n : \E s \in T : r[s] = t
    <3> TAKE t \in 1..n
    <3>1. t \in 1..m
      BY <1>1
    <3>2. PICK s \in S : Rank(S)[s] = t
      BY <1>2, <3>1
    <3>3. s \in T
      BY <1>3, <3>2
    <3> QED
      BY <3>2, <3>3
  <2>3. r \in Injection(T, 1..n)
    BY <1>5, <2>1, Fun_IsInj
  <2>4. r \in Surjection(T, 1..n)
    BY <1>5, <2>2, Fun_IsSurj
  <2> QED
    BY <2>3, <2>4, Fun_IsBij
<1>7. IsFiniteSet(T)
  BY <1>4, FS_Subset
<1>8. Cardinality(1..n) = Cardinality(T)
  BY <1>6, <1>7, Fun_ExistsBij, FS_Bijection
<1>9. Cardinality(1..n) = n
  BY FS_Interval
<1> QED
  BY <1>7, <1>8, <1>9 DEF T

\* EnQue of someone new: there is room, and the set grows by the newcomer.
\* U is everyone who may ever be in the queue.
LEMMA EnQueHolds ==
  ASSUME NEW T, NEW q \in Seq(T), NEW S, Holds(q, S), NEW x \in T, x \notin S,
         QUE_MAX \in Nat, NEW U, IsFiniteSet(U), Cardinality(U) <= QUE_MAX,
         S \cup {x} \subseteq U
  PROVE  /\ EnQue(q, x) = Append(q, x)
         /\ EnQue(q, x) \in Seq(T) /\ Holds(EnQue(q, x), S \cup {x})
<1>1. Append(q, x) \in Seq(T) /\ Holds(Append(q, x), S \cup {x})
  BY HoldsAppend
<1>2. Len(Append(q, x)) <= Cardinality(U)
  BY <1>1, HoldsLength
<1>3. Len(Append(q, x)) = Len(q) + 1 /\ Len(q) \in Nat /\ Cardinality(U) \in Nat
  BY AppendProperties, LenProperties, FS_CardinalityType
<1>4. ~QueFull(q)
  BY <1>2, <1>3 DEF QueFull
<1> QED
  BY <1>1, <1>4 DEF EnQue

\* The same for the loop that enqueues every member of B.
LEMMA EnQueAllHolds ==
  ASSUME NEW T, NEW q \in Seq(T), NEW S, Holds(q, S),
         NEW b \in Seq(T), NEW B, Holds(b, B), S \cap B = {},
         QUE_MAX \in Nat, NEW U, IsFiniteSet(U), Cardinality(U) <= QUE_MAX,
         S \cup B \subseteq U
  PROVE  /\ EnQueAll(q, b) = q \o b
         /\ EnQueAll(q, b) \in Seq(T) /\ Holds(EnQueAll(q, b), S \cup B)
<1>1. q \o b \in Seq(T) /\ Holds(q \o b, S \cup B)
  BY HoldsConcat
<1>2. Len(q \o b) <= Cardinality(U)
  BY <1>1, HoldsLength
<1>3. Len(q \o b) <= QUE_MAX
  BY <1>1, <1>2, LenProperties, FS_CardinalityType
<1> QED
  BY <1>1, <1>3 DEF EnQueAll
=============================================================================
