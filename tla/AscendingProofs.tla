-------------------------- MODULE AscendingProofs --------------------------
(***************************************************************************)
(* What InOrder makes of a finite set of numbers, and what it makes of it when *)
(* a greater number is added or the greatest are taken away; and what          *)
(* SetSorted and Sorted leave of a set and of a list.                         *)
(***************************************************************************)
EXTENDS Ascending, SequencesExt, FiniteSetTheorems, TLAPS, WellFoundedInduction

\* A set of natural numbers has a least member.
LEMMA LeastNumber ==
  ASSUME NEW S \in SUBSET Nat, S # {}
  PROVE  \E m \in S : \A i \in S : m <= i
<1>1. \E m \in S : \A i \in S : ~(<<i, m>> \in OpToRel(<, Nat))
  BY NatLessThanWellFounded, WFMin
<1>2. PICK m \in S : \A i \in S : ~(<<i, m>> \in OpToRel(<, Nat))
  BY <1>1
<1>3. \A i \in S : ~(i < m)
  <2> TAKE i \in S
  <2>1. i < m => <<i, m>> \in OpToRel(<, Nat)
    BY DEF OpToRel
  <2> QED
    BY <1>2, <2>1
<1> QED
  BY <1>3

UpTo(S, i) == {j \in S : j <= i}

LEMMA NthIs == \A S, n : Nth(S, n) = {i \in S : Cardinality(UpTo(S, i)) = n}
BY DEF Nth, UpTo

LEMMA RankType ==
  ASSUME NEW S \in SUBSET Nat, IsFiniteSet(S), NEW i \in S
  PROVE  Cardinality(S) \in Nat /\ Cardinality(UpTo(S, i)) \in 1 .. Cardinality(S)
<1>1. i \in UpTo(S, i) /\ UpTo(S, i) \subseteq S
  BY DEF UpTo
<1>2. IsFiniteSet(UpTo(S, i)) /\ Cardinality(UpTo(S, i)) <= Cardinality(S)
  BY <1>1, FS_Subset
<1>3. Cardinality(UpTo(S, i)) \in Nat /\ Cardinality(S) \in Nat
  BY <1>2, FS_CardinalityType
<1>4. Cardinality(UpTo(S, i)) # 0
  BY <1>1, <1>2, FS_EmptySet
<1> QED
  BY <1>2, <1>3, <1>4

LEMMA RankAscends ==
  ASSUME NEW S \in SUBSET Nat, IsFiniteSet(S), NEW i \in S, NEW j \in S, i < j
  PROVE  Cardinality(UpTo(S, i)) < Cardinality(UpTo(S, j))
<1>1. \A k \in S : k \in Int
  OBVIOUS
<1>2. UpTo(S, i) \subseteq UpTo(S, j) /\ UpTo(S, i) # UpTo(S, j)
  <2>1. j \in UpTo(S, j) /\ j \notin UpTo(S, i)
    BY <1>1 DEF UpTo
  <2>2. \A k \in S : k <= i => k <= j
    BY <1>1
  <2> QED
    BY <2>1, <2>2 DEF UpTo
<1>3. IsFiniteSet(UpTo(S, j))
  <2>1. UpTo(S, j) \subseteq S
    BY DEF UpTo
  <2> QED
    BY <2>1, FS_Subset
<1>4. /\ Cardinality(UpTo(S, i)) <= Cardinality(UpTo(S, j))
      /\ Cardinality(UpTo(S, i)) # Cardinality(UpTo(S, j))
  BY <1>2, <1>3, FS_Subset
<1>5. Cardinality(UpTo(S, i)) \in Nat /\ Cardinality(UpTo(S, j)) \in Nat
  BY RankType
<1> QED
  BY <1>4, <1>5

(***************************************************************************)
(* Counting numbers a finite set 1, 2, 3 and so on: the ranks are different,  *)
(* and there are as many as numbers.                                        *)
(***************************************************************************)
LEMMA NthExists ==
  ASSUME NEW S \in SUBSET Nat, IsFiniteSet(S)
  PROVE  \A n \in 1 .. Cardinality(S) : Nth(S, n) # {}
<1> DEFINE rank == [i \in S |-> Cardinality(UpTo(S, i))]
           count == Cardinality(S)
<1>1. count \in Nat
  BY FS_CardinalityType
<1>2. rank \in [S -> 1 .. count]
  BY RankType
<1>3. rank \in Injection(S, 1 .. count)
  <2>1. ASSUME NEW i \in S, NEW j \in S, rank[i] = rank[j] PROVE i = j
    <3>1. Cardinality(UpTo(S, i)) \in Int
      BY <1>1, RankType
    <3>2. ~(i < j) /\ ~(j < i)
      BY <2>1, <3>1, RankAscends
    <3> QED
      BY <3>2
  <2> HIDE DEF rank
  <2> QED
    BY <1>2, <2>1, Zenon DEF Injection, IsInjective
<1>4. IsFiniteSet(1 .. count) /\ Cardinality(1 .. count) = count
  BY <1>1, FS_Interval
<1>5. rank \in Surjection(S, 1 .. count)
  BY <1>3, <1>4, FS_Injection
<1>6. ASSUME NEW n \in 1 .. count PROVE Nth(S, n) # {}
  <2>1. PICK i \in S : rank[i] = n
    BY <1>5 DEF Surjection
  <2> QED
    BY <2>1, NthIs
<1> QED
  BY <1>6

\* The numbers, each once, in ascending order.
LEMMA InOrderIs ==
  ASSUME NEW S \in SUBSET Nat, IsFiniteSet(S)
  PROVE  /\ Cardinality(S) \in Nat
         /\ InOrder(S) \in Seq(S) /\ Len(InOrder(S)) = Cardinality(S)
         /\ \A m, n \in 1 .. Cardinality(S) : m < n => InOrder(S)[m] < InOrder(S)[n]
         /\ \A i \in S : \E n \in 1 .. Cardinality(S) : InOrder(S)[n] = i
<1> DEFINE count == Cardinality(S)
<1>0. \A i \in S : i \in Int
  OBVIOUS
<1>1. count \in Nat
  BY FS_CardinalityType
<1>2. ASSUME NEW n \in 1 .. count
      PROVE  InOrder(S)[n] \in S /\ Cardinality(UpTo(S, InOrder(S)[n])) = n
  <2>1. InOrder(S)[n] \in Nth(S, n)
    BY NthExists DEF InOrder
  <2> QED
    BY <2>1, NthIs
<1>3. InOrder(S) \in [1 .. count -> S]
  BY <1>2 DEF InOrder
<1>4. InOrder(S) \in Seq(S) /\ Len(InOrder(S)) = count
  BY <1>1, <1>3
<1>5. ASSUME NEW i \in S, NEW j \in S,
             Cardinality(UpTo(S, i)) <= Cardinality(UpTo(S, j))
      PROVE  i <= j
  <2>1. Cardinality(UpTo(S, i)) \in Int /\ Cardinality(UpTo(S, j)) \in Int
    BY RankType
  <2>2. ~(j < i)
    BY <1>5, <2>1, RankAscends
  <2> QED
    BY <2>2
<1>6. ASSUME NEW m \in 1 .. count, NEW n \in 1 .. count, m < n
      PROVE  InOrder(S)[m] < InOrder(S)[n]
  <2>1. /\ InOrder(S)[m] \in S /\ InOrder(S)[n] \in S
        /\ Cardinality(UpTo(S, InOrder(S)[m])) = m /\ Cardinality(UpTo(S, InOrder(S)[n])) = n
    BY <1>2
  <2>2. InOrder(S)[m] <= InOrder(S)[n]
    <3>1. Cardinality(UpTo(S, InOrder(S)[m])) <= Cardinality(UpTo(S, InOrder(S)[n]))
      BY <1>1, <1>6, <2>1
    <3> QED
      BY <1>5, <2>1, <3>1
  <2>3. InOrder(S)[m] # InOrder(S)[n]
    BY <1>1, <1>6, <2>1
  <2>4. InOrder(S)[m] \in Int /\ InOrder(S)[n] \in Int
    BY <1>0, <2>1
  <2> QED
    BY <2>2, <2>3, <2>4
<1>7. ASSUME NEW i \in S PROVE \E n \in 1 .. count : InOrder(S)[n] = i
  <2> DEFINE n == Cardinality(UpTo(S, i))
  <2>1. n \in 1 .. count
    BY RankType
  <2>2. InOrder(S)[n] \in S /\ Cardinality(UpTo(S, InOrder(S)[n])) = n
    BY <1>2, <2>1
  <2>3. n <= n
    BY <1>1, <2>1
  <2>4. InOrder(S)[n] <= i /\ i <= InOrder(S)[n]
    BY <1>5, <2>2, <2>3
  <2>5. InOrder(S)[n] \in Int /\ i \in Int
    BY <1>0, <2>2
  <2>6. InOrder(S)[n] = i
    BY <2>4, <2>5
  <2> QED
    BY <2>1, <2>6
<1> QED
  BY <1>1, <1>4, <1>6, <1>7

\* A set the rest of a larger one is greater than comes first in it.
LEMMA NthOfFirst ==
  ASSUME NEW S \in SUBSET Nat, IsFiniteSet(S), NEW T \in SUBSET S,
         \A i \in T : \A j \in S : j <= i => j \in T
  PROVE  \A n \in 1 .. Cardinality(T) : Nth(S, n) = Nth(T, n)
<1>1. IsFiniteSet(T) /\ Cardinality(T) \in Nat
  BY FS_Subset, FS_CardinalityType
<1>2. \A i \in T : UpTo(S, i) = UpTo(T, i)
  BY DEF UpTo
<1>3. ASSUME NEW i \in S \ T PROVE Cardinality(UpTo(S, i)) > Cardinality(T)
  <2>1. T \subseteq UpTo(S, i) /\ T # UpTo(S, i)
    <3>1. \A j \in T : ~(i <= j)
      OBVIOUS
    <3>2. \A j \in T : j \in Int /\ i \in Int
      OBVIOUS
    <3>3. i \in UpTo(S, i)
      BY DEF UpTo
    <3> QED
      BY <3>1, <3>2, <3>3 DEF UpTo
  <2>2. IsFiniteSet(UpTo(S, i))
    <3>1. UpTo(S, i) \subseteq S
      BY DEF UpTo
    <3> QED
      BY <3>1, FS_Subset
  <2>3. Cardinality(T) <= Cardinality(UpTo(S, i)) /\ Cardinality(T) # Cardinality(UpTo(S, i))
    BY <2>1, <2>2, FS_Subset
  <2>4. Cardinality(UpTo(S, i)) \in Nat
    BY <2>2, FS_CardinalityType
  <2> QED
    BY <1>1, <2>3, <2>4
<1>4. ASSUME NEW n \in 1 .. Cardinality(T) PROVE Nth(S, n) = Nth(T, n)
  <2>1. \A i \in S \ T : Cardinality(UpTo(S, i)) # n
    BY <1>1, <1>3
  <2> QED
    BY <1>2, <2>1, NthIs
<1> QED
  BY <1>4

LEMMA InOrderFirst ==
  ASSUME NEW S \in SUBSET Nat, IsFiniteSet(S), NEW T \in SUBSET S,
         \A i \in T : \A j \in S : j <= i => j \in T
  PROVE  /\ Cardinality(T) \in 0 .. Cardinality(S)
         /\ InOrder(T) = SubSeq(InOrder(S), 1, Cardinality(T))
<1>1. IsFiniteSet(T) /\ Cardinality(T) \in Nat /\ Cardinality(S) \in Nat
      /\ Cardinality(T) <= Cardinality(S)
  BY FS_Subset, FS_CardinalityType
<1>2. \A n \in 1 .. Cardinality(T) : Nth(S, n) = Nth(T, n)
  BY NthOfFirst
<1>3. \A n \in 1 .. Cardinality(T) : InOrder(T)[n] = InOrder(S)[n]
  BY <1>1, <1>2 DEF InOrder
<1>4. InOrder(T) = [n \in 1 .. Cardinality(T) |-> InOrder(S)[n]]
  <2>1. InOrder(T) = [n \in 1 .. Cardinality(T) |-> InOrder(T)[n]]
    BY DEF InOrder
  <2> QED
    BY <1>3, <2>1
<1>5. InOrder(S) \in Seq(S) /\ Len(InOrder(S)) = Cardinality(S)
  BY InOrderIs
<1> QED
  BY <1>1, <1>4, <1>5

LEMMA InOrderAppended ==
  ASSUME NEW S \in SUBSET Nat, IsFiniteSet(S), NEW e \in Nat, \A i \in S : i < e
  PROVE  InOrder(S \cup {e}) = Append(InOrder(S), e)
<1> DEFINE more == S \cup {e}
           count == Cardinality(S)
<1>3. \A i \in S : i \in Int /\ ~(e <= i)
  OBVIOUS
<1>a. e \notin S
  <2>1. e <= e
    OBVIOUS
  <2> QED
    BY <1>3, <2>1
<1>b. IsFiniteSet(more) /\ Cardinality(more) = count + 1
  BY <1>a, FS_AddElement, Zenon
<1>1. more \in SUBSET Nat /\ IsFiniteSet(more) /\ e \notin S
  BY <1>a, <1>b
<1>2. Cardinality(more) = count + 1 /\ count \in Nat
  BY <1>b, FS_CardinalityType
<1>4. InOrder(S) = SubSeq(InOrder(more), 1, count)
  <2>1. \A i \in S : \A j \in more : j <= i => j \in S
    BY <1>3
  <2> HIDE DEF more
  <2> QED
    BY <1>1, <2>1, InOrderFirst DEF more
<1>5. InOrder(more) \in Seq(more) /\ Len(InOrder(more)) = count + 1
  <2> HIDE DEF more
  <2> QED
    BY <1>1, <1>2, InOrderIs
<1>6. InOrder(more)[count + 1] = e
  <2>1. PICK n \in 1 .. count + 1 : InOrder(more)[n] = e
    <3> HIDE DEF more
    <3>1. e \in more
      BY DEF more
    <3> QED
      BY <1>1, <1>2, <3>1, InOrderIs
  <2>2. CASE n = count + 1
    BY <2>1, <2>2
  <2>3. CASE n # count + 1
    <3>1. n < count + 1 /\ n \in 1 .. Cardinality(more) /\ count + 1 \in 1 .. Cardinality(more)
      BY <1>2, <2>3
    <3>2. InOrder(more)[n] < InOrder(more)[count + 1]
      <4> HIDE DEF more, count
      <4> QED
        BY <1>1, <3>1, InOrderIs
    <3>3. InOrder(more)[count + 1] \in S \cup {e}
      BY <1>2, <1>5
    <3>4. \A i \in S \cup {e} : ~(e < i)
      BY <1>3
    <3> QED
      BY <2>1, <3>2, <3>3, <3>4
  <2> QED
    BY <2>2, <2>3
<1>7. InOrder(S) \in Seq(S) /\ Len(InOrder(S)) = count
  BY InOrderIs
<1> HIDE DEF more, count
<1>8. \A n \in 1 .. count : InOrder(more)[n] = InOrder(S)[n]
  BY <1>2, <1>4, <1>5
<1>9. InOrder(more) = Append(InOrder(S), e)
  BY <1>2, <1>5, <1>6, <1>7, <1>8
<1> QED
  BY <1>9 DEF more

\* Numbers without a gap.
LEMMA InOrderInterval ==
  ASSUME NEW m \in Nat, NEW k \in Nat
  PROVE  InOrder(m + 1 .. m + k) = [n \in 1 .. k |-> m + n]
<1> DEFINE S == m + 1 .. m + k
<1>1. Cardinality(S) = k
  <2>1. m + 1 \in Int /\ m + k \in Int
    OBVIOUS
  <2>2. Cardinality(S) = IF m + 1 > m + k THEN 0 ELSE (m + k) - (m + 1) + 1
    BY <2>1, FS_Interval
  <2> HIDE DEF S
  <2> QED
    BY <2>2
<1>2. ASSUME NEW i \in S PROVE Cardinality(UpTo(S, i)) = i - m
  <2>1. UpTo(S, i) = m + 1 .. i
    BY DEF UpTo
  <2>2. m + 1 \in Int /\ i \in Int /\ i >= m + 1
    OBVIOUS
  <2>3. Cardinality(m + 1 .. i) = IF m + 1 > i THEN 0 ELSE i - (m + 1) + 1
    BY <2>2, FS_Interval
  <2>4. Cardinality(m + 1 .. i) = i - m
    BY <2>2, <2>3
  <2> QED
    BY <2>1, <2>4
<1>3. ASSUME NEW n \in 1 .. k PROVE Nth(S, n) = {m + n}
  <2>1. \A i \in S : i - m = n <=> i = m + n
    OBVIOUS
  <2>2. m + n \in S
    OBVIOUS
  <2>3. Nth(S, n) = {i \in S : Cardinality(UpTo(S, i)) = n}
    BY NthIs
  <2> HIDE DEF S
  <2> QED
    BY <1>2, <2>1, <2>2, <2>3
<1> HIDE DEF S
<1>4. InOrder(S) = [n \in 1 .. k |-> m + n]
  <2>1. \A n \in 1 .. k : (CHOOSE i \in Nth(S, n) : TRUE) = m + n
    BY <1>3
  <2> QED
    BY <1>1, <2>1 DEF InOrder
<1> QED
  BY <1>4 DEF S

LEMMA InOrderEmpty == InOrder({}) = << >>
BY FS_EmptySet DEF InOrder

-----------------------------------------------------------------------------
(* Any order.                                                               *)

\* R, a set of pairs, orders S.
Orders(R, S) ==
  /\ \A x \in S : <<x, x>> \notin R
  /\ \A x, y \in S : x = y \/ <<x, y>> \in R \/ <<y, x>> \in R
  /\ \A x, y, z \in S : <<x, y>> \in R /\ <<y, z>> \in R => <<x, z>> \in R

(***************************************************************************)
(* Counting what is below each member of a finite set that is ordered: 0, 1,  *)
(* 2 and so on, each once.                                                  *)
(***************************************************************************)
LEMMA BelowCounts ==
  ASSUME NEW S, IsFiniteSet(S), NEW R, Orders(R, S)
  PROVE  /\ Cardinality(S) \in Nat
         /\ \A x \in S : Cardinality(Below(R, S, x)) \in 0 .. Cardinality(S) - 1
         /\ \A x, y \in S : <<x, y>> \in R
               => Cardinality(Below(R, S, x)) < Cardinality(Below(R, S, y))
<1>1. Cardinality(S) \in Nat
  BY FS_CardinalityType
<1>2. ASSUME NEW x \in S
      PROVE  /\ IsFiniteSet(Below(R, S, x)) /\ Cardinality(Below(R, S, x)) \in Nat
             /\ Cardinality(Below(R, S, x)) < Cardinality(S)
  <2>1. Below(R, S, x) \subseteq S /\ x \notin Below(R, S, x)
    BY DEF Below, Orders
  <2>2. Below(R, S, x) # S
    BY <2>1
  <2>3. IsFiniteSet(Below(R, S, x)) /\ Cardinality(Below(R, S, x)) \in Nat
    BY <2>1, FS_Subset, FS_CardinalityType
  <2>4. /\ Cardinality(Below(R, S, x)) <= Cardinality(S)
        /\ Cardinality(Below(R, S, x)) # Cardinality(S)
    BY <2>1, <2>2, FS_Subset
  <2> QED
    BY <1>1, <2>3, <2>4
<1>3. ASSUME NEW x \in S, NEW y \in S, <<x, y>> \in R
      PROVE  Cardinality(Below(R, S, x)) < Cardinality(Below(R, S, y))
  <2>1. Below(R, S, x) \subseteq Below(R, S, y)
    BY <1>3 DEF Below, Orders
  <2>2. x \in Below(R, S, y) /\ x \notin Below(R, S, x)
    BY <1>3 DEF Below, Orders
  <2>3. /\ Cardinality(Below(R, S, x)) <= Cardinality(Below(R, S, y))
        /\ Cardinality(Below(R, S, x)) # Cardinality(Below(R, S, y))
    BY <1>2, <2>1, <2>2, FS_Subset
  <2>4. Cardinality(Below(R, S, x)) \in Nat /\ Cardinality(Below(R, S, y)) \in Nat
    BY <1>2
  <2> QED
    BY <2>3, <2>4
<1> QED
  BY <1>1, <1>2, <1>3

\* The members, each once, in order.
LEMMA RankedIs ==
  ASSUME NEW S, IsFiniteSet(S), NEW R, Orders(R, S)
  PROVE  /\ Cardinality(S) \in Nat
         /\ RankedBy(R, S) \in Seq(S) /\ Len(RankedBy(R, S)) = Cardinality(S)
         /\ DOMAIN RankedBy(R, S) = 1 .. Cardinality(S)
         /\ \A m, n \in 1 .. Cardinality(S) : m < n => <<RankedBy(R, S)[m], RankedBy(R, S)[n]>> \in R
         /\ \A x \in S : \E n \in 1 .. Cardinality(S) : RankedBy(R, S)[n] = x
<1> DEFINE count == Cardinality(S)
           rank  == [x \in S |-> Cardinality(Below(R, S, x)) + 1]
<1>1. /\ count \in Nat
      /\ \A x \in S : Cardinality(Below(R, S, x)) \in Nat /\ Cardinality(Below(R, S, x)) < count
      /\ \A x, y \in S : <<x, y>> \in R
            => Cardinality(Below(R, S, x)) < Cardinality(Below(R, S, y))
  BY BelowCounts
<1>2. rank \in [S -> 1 .. count]
  BY <1>1
<1>3. \A x, y \in S : rank[x] = rank[y] => x = y
  <2> TAKE x, y \in S
  <2> HAVE rank[x] = rank[y]
  <2>1. Cardinality(Below(R, S, x)) = Cardinality(Below(R, S, y))
    BY <1>1
  <2>2. <<x, y>> \notin R /\ <<y, x>> \notin R
    BY <1>1, <2>1
  <2> QED
    BY <2>2 DEF Orders
<1>4. rank \in Injection(S, 1 .. count)
  <2> HIDE DEF rank
  <2> QED
    BY <1>2, <1>3, Zenon DEF Injection, IsInjective
<1>5. IsFiniteSet(1 .. count) /\ Cardinality(1 .. count) = count
  BY <1>1, FS_Interval
<1>6. rank \in Surjection(S, 1 .. count)
  BY <1>4, <1>5, FS_Injection
<1>7. ASSUME NEW n \in 1 .. count
      PROVE  RankedBy(R, S)[n] \in S /\ rank[RankedBy(R, S)[n]] = n
  <2>1. PICK x \in S : rank[x] = n
    BY <1>6 DEF Surjection
  <2>2. Cardinality(Below(R, S, x)) = n - 1
    BY <1>1, <2>1
  <2>3. /\ RankedBy(R, S)[n] \in S
        /\ Cardinality(Below(R, S, RankedBy(R, S)[n])) = n - 1
    BY <2>2 DEF RankedBy
  <2> QED
    BY <1>1, <2>3
<1>8. RankedBy(R, S) \in [1 .. count -> S]
  BY <1>7 DEF RankedBy
<1>9. RankedBy(R, S) \in Seq(S) /\ Len(RankedBy(R, S)) = count /\ DOMAIN RankedBy(R, S) = 1 .. count
  BY <1>1, <1>8
<1> HIDE DEF rank
<1>10. ASSUME NEW m \in 1 .. count, NEW n \in 1 .. count, m < n
       PROVE  <<RankedBy(R, S)[m], RankedBy(R, S)[n]>> \in R
  <2> DEFINE x == RankedBy(R, S)[m]
             y == RankedBy(R, S)[n]
  <2>1. x \in S /\ y \in S /\ rank[x] = m /\ rank[y] = n
    BY <1>7
  <2>2. x # y
    BY <1>1, <1>10, <2>1
  <2>3. <<y, x>> \in R => rank[y] < rank[x]
    BY <1>1, <2>1 DEF rank
  <2> HIDE DEF x, y
  <2>4. <<y, x>> \notin R
    BY <1>1, <1>10, <2>1, <2>3
  <2>5. <<x, y>> \in R
    BY <2>1, <2>2, <2>4 DEF Orders
  <2> QED
    BY <2>5 DEF x, y
<1>11. ASSUME NEW x \in S PROVE \E n \in 1 .. count : RankedBy(R, S)[n] = x
  <2>1. rank[x] \in 1 .. count
    BY <1>2
  <2> QED
    BY <1>3, <1>7, <2>1
<1> QED
  BY <1>1, <1>9, <1>10, <1>11

\* R is an order that need not tell every two apart.
OrdersMostly(R, S) ==
  /\ \A x \in S : <<x, x>> \notin R
  /\ \A x, y, z \in S : <<x, y>> \in R /\ <<y, z>> \in R => <<x, z>> \in R
  /\ \A x, y, z \in S : <<x, y>> \notin R /\ <<y, z>> \notin R => <<x, z>> \notin R

LEMMA PlacesOrdered ==
  ASSUME NEW T, NEW s \in Seq(T), NEW R, OrdersMostly(R, Range(s))
  PROVE  Orders(PlacesBy(R, s), DOMAIN s)
<1> DEFINE places == PlacesBy(R, s)
           less(i, j) == <<s[i], s[j]>> \in R
<1>1. \A i \in DOMAIN s : i \in Int /\ s[i] \in Range(s)
  BY DEF Range
<1>2. \A i, j \in DOMAIN s : <<i, j>> \in places <=> less(i, j) \/ (~less(j, i) /\ i < j)
  BY DEF PlacesBy
<1>3. /\ \A i \in DOMAIN s : ~less(i, i)
      /\ \A i, j, k \in DOMAIN s : less(i, j) /\ less(j, k) => less(i, k)
      /\ \A i, j, k \in DOMAIN s : ~less(i, j) /\ ~less(j, k) => ~less(i, k)
  BY <1>1 DEF OrdersMostly
<1> HIDE DEF places, less
<1>4. \A i \in DOMAIN s : <<i, i>> \notin places
  BY <1>1, <1>2, <1>3
<1>5. \A i, j \in DOMAIN s : i = j \/ <<i, j>> \in places \/ <<j, i>> \in places
  <2> TAKE i, j \in DOMAIN s
  <2>1. i = j \/ i < j \/ j < i
    BY <1>1
  <2> QED
    BY <1>2, <2>1
<1>6. ASSUME NEW i \in DOMAIN s, NEW j \in DOMAIN s, NEW k \in DOMAIN s,
             <<i, j>> \in places, <<j, k>> \in places
      PROVE  <<i, k>> \in places
  <2>1. ~less(j, i) /\ ~less(k, j) /\ ~less(k, i)
    BY <1>2, <1>3, <1>6
  <2>2. less(i, j) \/ less(j, k) => less(i, k)
    BY <1>3, <2>1
  <2>3. ~less(i, j) /\ ~less(j, k) => i < k
    BY <1>1, <1>2, <1>6
  <2> QED
    BY <1>2, <2>1, <2>2, <2>3
<1> QED
  BY <1>4, <1>5, <1>6 DEF Orders, places

\* Each place of the list, in order of what is there.
PlacesOf(R, s) == RankedBy(PlacesBy(R, s), DOMAIN s)

LEMMA PlacesIs ==
  ASSUME NEW T, NEW s \in Seq(T), NEW R, OrdersMostly(R, Range(s))
  PROVE  /\ Orders(PlacesBy(R, s), DOMAIN s)
         /\ DOMAIN PlacesOf(R, s) = DOMAIN s
         /\ \A n \in DOMAIN s : PlacesOf(R, s)[n] \in DOMAIN s
         /\ \A m, n \in DOMAIN s : m < n => <<PlacesOf(R, s)[m], PlacesOf(R, s)[n]>> \in PlacesBy(R, s)
         /\ \A i \in DOMAIN s : \E n \in DOMAIN s : PlacesOf(R, s)[n] = i
         /\ \A m, n \in DOMAIN s : PlacesOf(R, s)[m] = PlacesOf(R, s)[n] => m = n
<1> DEFINE D == DOMAIN s
           R2 == PlacesBy(R, s)
           places == RankedBy(R2, D)
<1>1. D = 1 .. Len(s) /\ Len(s) \in Nat /\ IsFiniteSet(D) /\ Cardinality(D) = Len(s)
  <2>1. D = 1 .. Len(s) /\ Len(s) \in Nat
    OBVIOUS
  <2>2. IsFiniteSet(1 .. Len(s)) /\ Cardinality(1 .. Len(s)) = Len(s)
    BY <2>1, FS_Interval
  <2> HIDE DEF D
  <2> QED
    BY <2>1, <2>2
<1>2. Orders(R2, D)
  BY PlacesOrdered
<1>3. /\ DOMAIN places = D
      /\ \A n \in D : places[n] \in D
      /\ \A m, n \in D : m < n => <<places[m], places[n]>> \in R2
      /\ \A i \in D : \E n \in D : places[n] = i
  <2>1. places \in Seq(D) /\ Len(places) = Cardinality(D) /\ DOMAIN places = 1 .. Cardinality(D)
        /\ (\A m, n \in 1 .. Cardinality(D) : m < n => <<places[m], places[n]>> \in R2)
        /\ (\A i \in D : \E n \in 1 .. Cardinality(D) : places[n] = i)
    <3>1. IsFiniteSet(D) /\ Orders(R2, D)
      BY <1>1, <1>2
    <3> HIDE DEF D, R2
    <3> QED
      BY <3>1, RankedIs
  <2>2. 1 .. Cardinality(D) = D
    BY <1>1
  <2> HIDE DEF places, D, R2
  <2>3. \A n \in D : places[n] \in D
    BY <2>1, <2>2
  <2> QED
    BY <2>1, <2>2, <2>3
<1>4. \A m, n \in D : m # n => places[m] # places[n]
  <2>1. \A i \in D : <<i, i>> \notin R2
    BY <1>2 DEF Orders
  <2>2. \A m, n \in D : m < n => places[m] # places[n]
    BY <1>3, <2>1
  <2>3. \A m, n \in D : m # n => m < n \/ n < m
    BY <1>1
  <2> QED
    BY <2>2, <2>3
<1> HIDE DEF D, R2, places
<1>5. \A m, n \in D : places[m] = places[n] => m = n
  BY <1>4
<1>6. places = PlacesOf(R, s)
  BY DEF PlacesOf, places, R2, D
<1> QED
  BY <1>2, <1>3, <1>5, <1>6 DEF D, R2

\* The members of the list, as often as before, in order.
LEMMA ListByIs ==
  ASSUME NEW T, NEW s \in Seq(T), NEW R, OrdersMostly(R, Range(s))
  PROVE  /\ ListBy(R, s) \in Seq(T) /\ Len(ListBy(R, s)) = Len(s)
         /\ DOMAIN ListBy(R, s) = DOMAIN s
         /\ Range(ListBy(R, s)) = Range(s)
         /\ \A m, n \in DOMAIN s : m < n => <<ListBy(R, s)[n], ListBy(R, s)[m]>> \notin R
         /\ (\A i, j \in DOMAIN s : s[i] = s[j] => i = j)
              => \A m, n \in DOMAIN s : ListBy(R, s)[m] = ListBy(R, s)[n] => m = n
<1> DEFINE D == DOMAIN s
           R2 == PlacesBy(R, s)
           places == RankedBy(R2, D)
<1>1. D = 1 .. Len(s) /\ Len(s) \in Nat
  OBVIOUS
<1>2. places = PlacesOf(R, s)
  BY DEF PlacesOf
<1>3. /\ \A i \in D : <<i, i>> \notin R2
      /\ \A n \in D : places[n] \in D
      /\ \A m, n \in D : m < n => <<places[m], places[n]>> \in R2
      /\ \A i \in D : \E n \in D : places[n] = i
  BY <1>2, PlacesIs DEF Orders
<1>4. ListBy(R, s) = [n \in D |-> s[places[n]]]
  BY DEF ListBy
<1>5. \A i \in D : s[i] \in T
  BY <1>1
<1>6. \A m, n \in D : <<m, n>> \in R2 => <<s[n], s[m]>> \notin R
  <2>1. \A m, n \in D : s[m] \in Range(s) /\ s[n] \in Range(s)
    BY DEF Range
  <2>2. \A m, n \in D : <<s[m], s[n]>> \in R => <<s[n], s[m]>> \notin R
    BY <2>1 DEF OrdersMostly
  <2> QED
    BY <2>2 DEF PlacesBy
<1>7. \A m, n \in D : m # n => places[m] # places[n]
  BY <1>2, PlacesIs
<1> HIDE DEF places, R2
<1>8. ListBy(R, s) \in [1 .. Len(s) -> T] /\ \A n \in D : ListBy(R, s)[n] = s[places[n]]
  BY <1>1, <1>3, <1>4, <1>5
<1>9. ListBy(R, s) \in Seq(T) /\ Len(ListBy(R, s)) = Len(s) /\ DOMAIN ListBy(R, s) = D
  BY <1>1, <1>8
<1>10. Range(ListBy(R, s)) = Range(s)
  BY <1>3, <1>8, <1>9 DEF Range
<1>11. ASSUME NEW m \in D, NEW n \in D, m < n
       PROVE  <<ListBy(R, s)[n], ListBy(R, s)[m]>> \notin R
  <2>1. places[m] \in D /\ places[n] \in D /\ <<places[m], places[n]>> \in R2
    BY <1>3, <1>11
  <2>2. <<s[places[n]], s[places[m]]>> \notin R
    BY <1>6, <2>1
  <2> QED
    BY <1>8, <2>2
<1>12. ASSUME \A i, j \in D : s[i] = s[j] => i = j, NEW m \in D, NEW n \in D,
              ListBy(R, s)[m] = ListBy(R, s)[n]
       PROVE  m = n
  <2>1. s[places[m]] = s[places[n]] /\ places[m] \in D /\ places[n] \in D
    BY <1>3, <1>8, <1>12
  <2>2. places[m] = places[n]
    BY <1>12, <2>1
  <2> QED
    BY <1>7, <2>2
<1> QED
  BY <1>9, <1>10, <1>11, <1>12

-----------------------------------------------------------------------------
(* Lists with the same members, as often, in any order.                       *)

\* p takes every place of r to the place of s that holds the same.
Matching(p, r, s) ==
  /\ \A i, j \in DOMAIN r : p[i] = p[j] => i = j
  /\ \A k \in DOMAIN s : \E i \in DOMAIN r : p[i] = k
  /\ \A i \in DOMAIN r : r[i] = s[p[i]]

Reordered(r, s) == Len(r) = Len(s) /\ \E p \in [DOMAIN r -> DOMAIN s] : Matching(p, r, s)

LEMMA ReorderedSelf == \A r : Reordered(r, r)
<1> TAKE r
<1> DEFINE p == [i \in DOMAIN r |-> i]
<1>1. p \in [DOMAIN r -> DOMAIN r] /\ Matching(p, r, r)
  BY DEF Matching
<1> QED
  BY <1>1 DEF Reordered

LEMMA ReorderedBack ==
  ASSUME NEW r, NEW s, Reordered(r, s)
  PROVE  Reordered(s, r)
<1>1. PICK p \in [DOMAIN r -> DOMAIN s] : Matching(p, r, s)
  BY DEF Reordered
<1> DEFINE q == [k \in DOMAIN s |-> CHOOSE i \in DOMAIN r : p[i] = k]
<1>2. \A k \in DOMAIN s : q[k] \in DOMAIN r /\ p[q[k]] = k
  BY <1>1 DEF Matching
<1>3. \A i \in DOMAIN r : q[p[i]] = i
  BY <1>1, <1>2 DEF Matching
<1>4. q \in [DOMAIN s -> DOMAIN r]
  BY <1>2
<1> HIDE DEF q
<1>5. Matching(q, s, r)
  BY <1>1, <1>2, <1>3 DEF Matching
<1> QED
  BY <1>4, <1>5 DEF Reordered

LEMMA ReorderedTwice ==
  ASSUME NEW r, NEW s, NEW t, Reordered(r, s), Reordered(s, t)
  PROVE  Reordered(r, t)
<1>1. PICK p \in [DOMAIN r -> DOMAIN s] : Matching(p, r, s)
  BY DEF Reordered
<1>2. PICK q \in [DOMAIN s -> DOMAIN t] : Matching(q, s, t)
  BY DEF Reordered
<1> DEFINE both == [i \in DOMAIN r |-> q[p[i]]]
<1>3. both \in [DOMAIN r -> DOMAIN t] /\ \A i \in DOMAIN r : both[i] = q[p[i]] /\ p[i] \in DOMAIN s
  OBVIOUS
<1> HIDE DEF both
<1>4. Matching(both, r, t)
  BY <1>1, <1>2, <1>3 DEF Matching
<1> QED
  BY <1>3, <1>4 DEF Reordered

LEMMA ReorderedAppend ==
  ASSUME NEW T, NEW r \in Seq(T), NEW s \in Seq(T), NEW x \in T, Reordered(r, s)
  PROVE  Reordered(Append(r, x), Append(s, x))
<1>1. PICK p \in [DOMAIN r -> DOMAIN s] : Matching(p, r, s)
  BY DEF Reordered
<1> DEFINE n == Len(r)
           q == [i \in 1 .. n + 1 |-> IF i = n + 1 THEN n + 1 ELSE p[i]]
           more(l) == Append(l, x)
<1>2. n \in Nat /\ Len(s) = n /\ DOMAIN r = 1 .. n /\ DOMAIN s = 1 .. n
  BY DEF Reordered
<1>3. ASSUME NEW l \in Seq(T), Len(l) = n
      PROVE  /\ DOMAIN more(l) = 1 .. n + 1 /\ Len(more(l)) = n + 1
             /\ more(l)[n + 1] = x /\ \A i \in 1 .. n : more(l)[i] = l[i]
  BY <1>3
<1> HIDE DEF more, n
<1>4. /\ \A i \in 1 .. n : q[i] = p[i] /\ p[i] \in 1 .. n /\ i # n + 1 /\ i \in 1 .. n + 1
      /\ q[n + 1] = n + 1 /\ n + 1 \in 1 .. n + 1 /\ n + 1 \notin 1 .. n
      /\ \A i \in 1 .. n + 1 : i = n + 1 \/ i \in 1 .. n
  BY <1>2
<1>5. q \in [1 .. n + 1 -> 1 .. n + 1]
  BY <1>4
<1> HIDE DEF q
<1>6. \A i, j \in 1 .. n + 1 : q[i] = q[j] => i = j
  <2>1. \A i, j \in 1 .. n : p[i] = p[j] => i = j
    BY <1>1, <1>2 DEF Matching
  <2>2. \A i \in 1 .. n : q[i] # n + 1
    BY <1>4
  <2> QED
    BY <1>4, <2>1, <2>2
<1>7. ASSUME NEW k \in 1 .. n + 1 PROVE \E i \in 1 .. n + 1 : q[i] = k
  <2>1. CASE k = n + 1
    BY <1>4, <2>1
  <2>2. CASE k \in 1 .. n
    <3>1. PICK i \in 1 .. n : p[i] = k
      BY <1>1, <1>2, <2>2 DEF Matching
    <3> QED
      BY <1>4, <3>1
  <2> QED
    BY <1>4, <2>1, <2>2
<1>a. \A i \in 1 .. n : r[i] = s[p[i]]
  BY <1>1, <1>2 DEF Matching
<1>b. /\ \A i \in 1 .. n : more(r)[i] = r[i] /\ more(s)[i] = s[i]
      /\ more(r)[n + 1] = x /\ more(s)[n + 1] = x
  BY <1>2, <1>3 DEF n
<1>8. ASSUME NEW i \in 1 .. n + 1 PROVE more(r)[i] = more(s)[q[i]]
  <2>1. CASE i = n + 1
    BY <1>4, <1>b, <2>1
  <2>2. CASE i \in 1 .. n
    <3>1. q[i] = p[i] /\ p[i] \in 1 .. n
      BY <1>4, <2>2
    <3>2. more(r)[i] = r[i] /\ more(s)[p[i]] = s[p[i]]
      BY <1>b, <2>2, <3>1
    <3> QED
      BY <1>a, <2>2, <3>1, <3>2
  <2> QED
    BY <1>4, <2>1, <2>2
<1>9. /\ DOMAIN more(r) = 1 .. n + 1 /\ DOMAIN more(s) = 1 .. n + 1
      /\ Len(more(r)) = Len(more(s))
  BY <1>2, <1>3 DEF n
<1>10. Matching(q, more(r), more(s))
  BY <1>6, <1>7, <1>8, <1>9 DEF Matching
<1> QED
  BY <1>5, <1>9, <1>10 DEF Reordered, more

LEMMA ReorderedRange ==
  ASSUME NEW r, NEW s, Reordered(r, s)
  PROVE  Range(r) = Range(s)
<1>1. PICK p \in [DOMAIN r -> DOMAIN s] : Matching(p, r, s)
  BY DEF Reordered
<1> QED
  BY <1>1 DEF Matching, Range
LEMMA CountTo == \A n \in Nat : IsFiniteSet(1 .. n) /\ Cardinality(1 .. n) = n
<1> TAKE n \in Nat
<1>1. 1 \in Int /\ n \in Int
  OBVIOUS
<1>2. IsFiniteSet(1 .. n) /\ Cardinality(1 .. n) = IF 1 > n THEN 0 ELSE n - 1 + 1
  BY <1>1, FS_Interval
<1> QED
  BY <1>2

(***************************************************************************)
(* Two lists with the same members, both in an order that tells all members    *)
(* apart, are the same: were a member of one before what the other has in its  *)
(* place, then all up to it would have to be among fewer places there.        *)
(***************************************************************************)
Ascends(R, s) == \A m, n \in DOMAIN s : m < n => <<s[n], s[m]>> \notin R

LEMMA NeverBefore ==
  ASSUME NEW T, NEW r \in Seq(T), NEW s \in Seq(T), NEW R, Reordered(r, s),
         Orders(R, Range(r)), Ascends(R, r), Ascends(R, s), NEW i \in DOMAIN r
  PROVE  <<r[i], s[i]>> \notin R
<1> SUFFICES ASSUME <<r[i], s[i]>> \in R PROVE FALSE
  OBVIOUS
<1>1. PICK p \in [DOMAIN r -> DOMAIN s] : Matching(p, r, s)
  BY DEF Reordered
<1>2. DOMAIN r = 1 .. Len(r) /\ DOMAIN s = 1 .. Len(r) /\ Len(r) \in Nat /\ i \in Nat /\ i > 0
  BY DEF Reordered
<1>a. Range(r) = Range(s)
  BY ReorderedRange
<1>3. \A k \in DOMAIN r : r[k] \in Range(r) /\ s[k] \in Range(r)
  BY <1>2, <1>a DEF Range
<1>4. ASSUME NEW k \in 1 .. i PROVE p[k] \in 1 .. i - 1
  <2>1. k \in DOMAIN r /\ p[k] \in DOMAIN r /\ k \in Int /\ p[k] \in Int /\ i \in Int
    <3>1. k \in 1 .. Len(r)
      BY <1>2
    <3>2. p[k] \in 1 .. Len(r)
      BY <1>1, <1>2, <3>1
    <3> QED
      BY <1>2, <3>1, <3>2
  <2>2. <<r[k], s[i]>> \in R
    <3>1. k = i \/ <<r[i], r[k]>> \notin R
      BY <1>2, <2>1 DEF Ascends
    <3>2. r[k] = r[i] \/ <<r[k], r[i]>> \in R
      BY <1>3, <2>1, <3>1 DEF Orders
    <3> QED
      BY <1>3, <2>1, <3>2 DEF Orders
  <2>3. s[p[k]] = r[k]
    BY <1>1, <2>1 DEF Matching
  <2>4. p[k] # i
    BY <1>3, <2>1, <2>2, <2>3 DEF Orders
  <2>5. ~(i < p[k])
    BY <1>2, <2>1, <2>2, <2>3 DEF Ascends
  <2> QED
    BY <1>2, <2>1, <2>4, <2>5
<1> DEFINE first == [k \in 1 .. i |-> p[k]]
<1>5. first \in [1 .. i -> 1 .. i - 1]
  BY <1>4
<1>6. /\ IsFiniteSet(1 .. i) /\ Cardinality(1 .. i) = i
      /\ IsFiniteSet(1 .. i - 1) /\ Cardinality(1 .. i - 1) = i - 1
  <2>1. \A n \in Nat : IsFiniteSet(1 .. n) /\ Cardinality(1 .. n) = n
    BY CountTo
  <2>2. i - 1 \in Nat
    BY <1>2
  <2> QED
    BY <1>2, <2>1, <2>2
<1>7. Cardinality(1 .. i - 1) < Cardinality(1 .. i)
  BY <1>2, <1>6
<1>8. \E x, y \in 1 .. i : x # y /\ first[x] = first[y]
  <2> HIDE DEF first
  <2> QED
    BY <1>5, <1>6, <1>7, FS_PigeonHole
<1>9. 1 .. i \subseteq DOMAIN r
  BY <1>2
<1> QED
  BY <1>1, <1>8, <1>9 DEF Matching

LEMMA OneOrder ==
  ASSUME NEW T, NEW r \in Seq(T), NEW s \in Seq(T), NEW R, Reordered(r, s),
         Orders(R, Range(r)), Ascends(R, r), Ascends(R, s)
  PROVE  r = s
<1>1. DOMAIN r = 1 .. Len(r) /\ DOMAIN s = 1 .. Len(r) /\ Len(s) = Len(r)
  BY DEF Reordered
<1>2. Reordered(s, r) /\ Range(r) = Range(s)
  BY ReorderedBack, ReorderedRange
<1>3. ASSUME NEW i \in DOMAIN r PROVE r[i] = s[i]
  <2>1. <<r[i], s[i]>> \notin R
    BY NeverBefore
  <2>2. <<s[i], r[i]>> \notin R
    BY <1>1, <1>2, NeverBefore
  <2>3. r[i] \in Range(r) /\ s[i] \in Range(r)
    BY <1>1, <1>2 DEF Range
  <2> QED
    BY <2>1, <2>2, <2>3 DEF Orders
<1> QED
  BY <1>1, <1>3

LEMMA OrdersIsMostly ==
  ASSUME NEW R, NEW S, Orders(R, S)
  PROVE  OrdersMostly(R, S)
<1>1. ASSUME NEW x \in S, NEW y \in S, NEW z \in S, <<x, y>> \notin R, <<y, z>> \notin R
      PROVE  <<x, z>> \notin R
  <2>1. x = y \/ <<y, x>> \in R
    BY <1>1 DEF Orders
  <2>2. y = z \/ <<z, y>> \in R
    BY <1>1 DEF Orders
  <2>3. x = z \/ <<z, x>> \in R
    BY <2>1, <2>2 DEF Orders
  <2> QED
    BY <2>3 DEF Orders
<1> QED
  BY <1>1 DEF Orders, OrdersMostly
\* A list sorted, and lists with the same members, sorted.
LEMMA SortingReorders ==
  ASSUME NEW T, NEW s \in Seq(T), NEW R, OrdersMostly(R, Range(s))
  PROVE  Reordered(ListBy(R, s), s)
<1> DEFINE places == PlacesOf(R, s)
<1>1. ListBy(R, s) = [n \in DOMAIN s |-> s[places[n]]]
  BY DEF ListBy, PlacesOf
<1>2. Len(ListBy(R, s)) = Len(s) /\ DOMAIN ListBy(R, s) = DOMAIN s
  BY ListByIs
<1>3. /\ DOMAIN places = DOMAIN s
      /\ \A n \in DOMAIN s : places[n] \in DOMAIN s
      /\ \A i \in DOMAIN s : \E n \in DOMAIN s : places[n] = i
      /\ \A m, n \in DOMAIN s : places[m] = places[n] => m = n
  BY PlacesIs
<1> DEFINE p == [n \in DOMAIN s |-> places[n]]
<1>4. p \in [DOMAIN s -> DOMAIN s] /\ \A n \in DOMAIN s : p[n] = places[n]
  BY <1>3
<1> HIDE DEF p, places
<1>5. Matching(p, ListBy(R, s), s)
  BY <1>1, <1>2, <1>3, <1>4 DEF Matching
<1> QED
  BY <1>2, <1>4, <1>5 DEF Reordered

LEMMA SortedIs ==
  ASSUME NEW T, NEW s \in Seq(T), NEW R, Orders(R, Range(s))
  PROVE  /\ ListBy(R, s) \in Seq(T) /\ Reordered(ListBy(R, s), s) /\ Ascends(R, ListBy(R, s))
         /\ Range(ListBy(R, s)) = Range(s)
<1>1. OrdersMostly(R, Range(s))
  BY OrdersIsMostly
<1>2. ListBy(R, s) \in Seq(T) /\ DOMAIN ListBy(R, s) = DOMAIN s /\ Range(ListBy(R, s)) = Range(s)
      /\ \A m, n \in DOMAIN s : m < n => <<ListBy(R, s)[n], ListBy(R, s)[m]>> \notin R
  BY <1>1, ListByIs
<1>3. Reordered(ListBy(R, s), s)
  BY <1>1, SortingReorders
<1> QED
  BY <1>2, <1>3 DEF Ascends

LEMMA SortedAlike ==
  ASSUME NEW T, NEW r \in Seq(T), NEW s \in Seq(T), NEW R, Orders(R, Range(s)), Reordered(r, s)
  PROVE  ListBy(R, r) = ListBy(R, s)
<1> DEFINE a == ListBy(R, r)
           b == ListBy(R, s)
<1>1. Range(r) = Range(s) /\ Reordered(s, r)
  BY ReorderedRange, ReorderedBack
<1>2. a \in Seq(T) /\ Reordered(a, r) /\ Ascends(R, a) /\ Range(a) = Range(s)
  BY <1>1, SortedIs
<1>3. b \in Seq(T) /\ Reordered(b, s) /\ Ascends(R, b)
  BY SortedIs
<1> HIDE DEF a, b
<1>4. Reordered(a, b)
  <2>1. Reordered(a, s)
    BY <1>2, ReorderedTwice
  <2>2. Reordered(s, b)
    BY <1>3, ReorderedBack
  <2> QED
    BY <2>1, <2>2, ReorderedTwice
<1>5. a = b
  BY <1>2, <1>3, <1>4, OneOrder
<1> QED
  BY <1>5 DEF a, b

LEMMA SortedStays ==
  ASSUME NEW T, NEW s \in Seq(T), NEW R, Orders(R, Range(s)), Ascends(R, s)
  PROVE  ListBy(R, s) = s
<1> DEFINE a == ListBy(R, s)
<1>1. a \in Seq(T) /\ Reordered(a, s) /\ Ascends(R, a) /\ Range(a) = Range(s)
  BY SortedIs
<1> HIDE DEF a
<1>2. a = s
  BY <1>1, OneOrder
<1> QED
  BY <1>2 DEF a

-----------------------------------------------------------------------------
(* Lists of a set in an order, each member once.                             *)

Lists(s, R, S) ==
  /\ s \in Seq(S) /\ Range(s) = S
  /\ \A m, n \in DOMAIN s : m < n => <<s[m], s[n]>> \in R

LEMMA ListIs ==
  ASSUME NEW S, NEW s, NEW R, Lists(s, R, S)
  PROVE  /\ s \in Seq(S) /\ Len(s) \in Nat /\ DOMAIN s = 1 .. Len(s)
         /\ \A n \in DOMAIN s : s[n] \in S
         /\ \A x \in S : \E n \in DOMAIN s : s[n] = x
         /\ \A m, n \in DOMAIN s : m < n => <<s[m], s[n]>> \in R
<1>1. s \in Seq(S) /\ Range(s) = S
  BY DEF Lists
<1>2. Len(s) \in Nat /\ DOMAIN s = 1 .. Len(s) /\ \A n \in DOMAIN s : s[n] \in S
  BY <1>1
<1> QED
  BY <1>1, <1>2 DEF Lists, Range

LEMMA ListOnce ==
  ASSUME NEW S, NEW s, NEW R, Lists(s, R, S), \A x \in S : <<x, x>> \notin R
  PROVE  \A m, n \in DOMAIN s : s[m] = s[n] => m = n
<1>1. /\ DOMAIN s = 1 .. Len(s) /\ Len(s) \in Nat /\ \A n \in DOMAIN s : s[n] \in S
      /\ \A m, n \in DOMAIN s : m < n => <<s[m], s[n]>> \in R
  BY ListIs
<1>2. ASSUME NEW m \in DOMAIN s, NEW n \in DOMAIN s, m < n PROVE s[m] # s[n]
  BY <1>1, <1>2
<1> QED
  BY <1>1, <1>2

LEMMA ListCounts ==
  ASSUME NEW S, NEW s, NEW R, Lists(s, R, S), \A x \in S : <<x, x>> \notin R
  PROVE  IsFiniteSet(S) /\ Cardinality(S) = Len(s)
<1>1. /\ DOMAIN s = 1 .. Len(s) /\ Len(s) \in Nat /\ s \in Seq(S)
      /\ \A n \in DOMAIN s : s[n] \in S
      /\ \A x \in S : \E n \in DOMAIN s : s[n] = x
  BY ListIs
<1>2. \A m, n \in DOMAIN s : s[m] = s[n] => m = n
  BY ListOnce
<1>3. s \in [1 .. Len(s) -> S]
  BY <1>1
<1>4. s \in Bijection(1 .. Len(s), S)
  BY <1>1, <1>2, <1>3, Zenon DEF Bijection, Injection, Surjection, IsInjective
<1>5. ExistsBijection(1 .. Len(s), S)
  BY <1>4 DEF ExistsBijection
<1>6. IsFiniteSet(1 .. Len(s)) /\ Cardinality(1 .. Len(s)) = Len(s)
  BY <1>1, CountTo
<1> QED
  BY <1>5, <1>6, FS_Bijection

LEMMA SortedLists ==
  ASSUME NEW S, IsFiniteSet(S), NEW R, Orders(R, S)
  PROVE  Lists(RankedBy(R, S), R, S)
<1> DEFINE s == RankedBy(R, S)
<1>1. /\ s \in Seq(S) /\ DOMAIN s = 1 .. Cardinality(S)
      /\ \A m, n \in 1 .. Cardinality(S) : m < n => <<s[m], s[n]>> \in R
      /\ \A x \in S : \E n \in 1 .. Cardinality(S) : s[n] = x
  BY RankedIs
<1> HIDE DEF s
<1>2. \A n \in DOMAIN s : s[n] \in S
  <2>1. s \in Seq(S)
    BY <1>1
  <2> QED
    BY <2>1
<1>3. Range(s) = S
  BY <1>1, <1>2 DEF Range
<1>4. Lists(s, R, S)
  BY <1>1, <1>3 DEF Lists
<1> QED
  BY <1>4 DEF s

\* A set has one list in an order.
LEMMA OneList ==
  ASSUME NEW S, NEW R, Orders(R, S), NEW r, Lists(r, R, S), NEW s, Lists(s, R, S)
  PROVE  r = s
<1>1. /\ r \in Seq(S) /\ DOMAIN r = 1 .. Len(r) /\ Len(r) \in Nat /\ \A n \in DOMAIN r : r[n] \in S
      /\ \A x \in S : \E n \in DOMAIN r : r[n] = x
      /\ \A m, n \in DOMAIN r : m < n => <<r[m], r[n]>> \in R
  BY ListIs
<1>2. /\ s \in Seq(S) /\ DOMAIN s = 1 .. Len(s) /\ Len(s) \in Nat /\ \A n \in DOMAIN s : s[n] \in S
      /\ \A x \in S : \E n \in DOMAIN s : s[n] = x
      /\ \A m, n \in DOMAIN s : m < n => <<s[m], s[n]>> \in R
  BY ListIs
<1>3. /\ \A x \in S : <<x, x>> \notin R
      /\ \A x, y \in S : <<x, y>> \in R => <<y, x>> \notin R
  BY DEF Orders
<1>4. /\ \A m, n \in DOMAIN r : r[m] = r[n] => m = n
      /\ \A m, n \in DOMAIN s : s[m] = s[n] => m = n
      /\ Len(r) = Len(s)
  <2>1. Cardinality(S) = Len(r) /\ Cardinality(S) = Len(s)
    BY <1>3, ListCounts
  <2> QED
    BY <1>3, <2>1, ListOnce
<1> DEFINE p == [i \in DOMAIN r |-> CHOOSE n \in DOMAIN s : s[n] = r[i]]
<1>5. \A i \in DOMAIN r : p[i] \in DOMAIN s /\ s[p[i]] = r[i]
  BY <1>1, <1>2
<1>6. p \in [DOMAIN r -> DOMAIN s]
  BY <1>5
<1> HIDE DEF p
<1>7. Matching(p, r, s)
  <2>1. ASSUME NEW k \in DOMAIN s PROVE \E i \in DOMAIN r : p[i] = k
    <3>1. PICK i \in DOMAIN r : r[i] = s[k]
      BY <1>1, <1>2
    <3> QED
      BY <1>4, <1>5, <3>1
  <2>2. \A i, j \in DOMAIN r : p[i] = p[j] => i = j
    BY <1>4, <1>5
  <2> QED
    BY <1>5, <2>1, <2>2 DEF Matching
<1>8. Reordered(r, s)
  BY <1>4, <1>6, <1>7 DEF Reordered
<1>9. Ascends(R, r) /\ Ascends(R, s)
  <2>1. Ascends(R, r)
    BY <1>1, <1>3 DEF Ascends
  <2>2. Ascends(R, s)
    BY <1>2, <1>3 DEF Ascends
  <2> QED
    BY <2>1, <2>2
<1>10. Orders(R, Range(r))
  BY DEF Lists
<1> QED
  BY <1>1, <1>2, <1>8, <1>9, <1>10, OneOrder

\* What is left at some places of a list is a list of what is there.
LEMMA PlacesList ==
  ASSUME NEW S, NEW s, NEW R, Lists(s, R, S), NEW P \in SUBSET DOMAIN s
  PROVE  Lists(AtPlaces(s, P), R, {s[i] : i \in P})
<1> DEFINE T == {s[i] : i \in P}
           at == InOrder(P)
           t == AtPlaces(s, P)
<1>1. /\ DOMAIN s = 1 .. Len(s) /\ Len(s) \in Nat
      /\ \A m, n \in DOMAIN s : m < n => <<s[m], s[n]>> \in R
  BY ListIs
<1>2. IsFiniteSet(P) /\ P \in SUBSET Nat
  <2>1. IsFiniteSet(1 .. Len(s))
    BY <1>1, CountTo
  <2> QED
    BY <1>1, <2>1, FS_Subset
<1>3. /\ at \in Seq(P) /\ Len(at) = Cardinality(P) /\ Cardinality(P) \in Nat
      /\ \A m, n \in 1 .. Cardinality(P) : m < n => at[m] < at[n]
      /\ \A i \in P : \E n \in 1 .. Cardinality(P) : at[n] = i
  BY <1>2, InOrderIs
<1>4. t = [n \in DOMAIN at |-> s[at[n]]]
  BY DEF AtPlaces
<1> HIDE DEF at, t
<1>5. DOMAIN at = 1 .. Cardinality(P) /\ \A n \in DOMAIN at : at[n] \in P
  BY <1>3
<1>6. DOMAIN t = 1 .. Cardinality(P) /\ \A n \in 1 .. Cardinality(P) : t[n] = s[at[n]] /\ t[n] \in T
  BY <1>4, <1>5
<1>7. t \in Seq(T)
  <2>1. t = [n \in 1 .. Cardinality(P) |-> t[n]]
    BY <1>4, <1>5
  <2>2. t \in [1 .. Cardinality(P) -> T]
    BY <1>6, <2>1
  <2> QED
    BY <1>3, <2>2
<1>8. Range(t) = T
  <2>1. \A x \in Range(t) : x \in T
    BY <1>6 DEF Range
  <2>2. ASSUME NEW x \in T PROVE x \in Range(t)
    <3>1. PICK i \in P : x = s[i]
      OBVIOUS
    <3>2. PICK n \in 1 .. Cardinality(P) : at[n] = i
      BY <1>3
    <3>3. n \in DOMAIN t /\ t[n] = x
      BY <1>6, <3>1, <3>2
    <3> QED
      BY <3>3 DEF Range
  <2> QED
    BY <2>1, <2>2
<1>9. ASSUME NEW m \in DOMAIN t, NEW n \in DOMAIN t, m < n PROVE <<t[m], t[n]>> \in R
  <2>1. at[m] < at[n] /\ at[m] \in P /\ at[n] \in P
    BY <1>3, <1>5, <1>6, <1>9
  <2>2. <<s[at[m]], s[at[n]]>> \in R
    BY <1>1, <2>1
  <2> QED
    BY <1>6, <2>2
<1>10. Lists(t, R, T)
  BY <1>7, <1>8, <1>9 DEF Lists
<1> QED
  BY <1>10 DEF t

LEMMA EmptyList == \A R : Lists(<< >>, R, {})
<1>1. << >> \in Seq({}) /\ DOMAIN << >> = {}
  OBVIOUS
<1> QED
  BY <1>1 DEF Lists, Range

\* Two lists, the members of the one before those of the other, end to end.
LEMMA EndToEnd ==
  ASSUME NEW S, NEW T, NEW R, NEW s, NEW t, Lists(s, R, S), Lists(t, R, T),
         \A x \in S, y \in T : <<x, y>> \in R
  PROVE  Lists(s \o t, R, S \cup T)
<1> DEFINE u == s \o t
           k == Len(s)
           l == Len(t)
<1>1. /\ s \in Seq(S) /\ DOMAIN s = 1 .. k /\ k \in Nat /\ \A n \in DOMAIN s : s[n] \in S
      /\ \A x \in S : \E n \in DOMAIN s : s[n] = x
      /\ \A m, n \in DOMAIN s : m < n => <<s[m], s[n]>> \in R
  BY ListIs
<1>2. /\ t \in Seq(T) /\ DOMAIN t = 1 .. l /\ l \in Nat /\ \A n \in DOMAIN t : t[n] \in T
      /\ \A x \in T : \E n \in DOMAIN t : t[n] = x
      /\ \A m, n \in DOMAIN t : m < n => <<t[m], t[n]>> \in R
  BY ListIs
<1>3. u \in Seq(S \cup T)
  <2>1. s \in Seq(S \cup T) /\ t \in Seq(S \cup T)
    BY <1>1, <1>2
  <2> QED
    BY <2>1
<1>4. /\ DOMAIN u = 1 .. k + l
      /\ \A i \in 1 .. k : u[i] = s[i]
      /\ \A i \in 1 .. l : u[k + i] = t[i]
  BY <1>1, <1>2
<1> HIDE DEF u, k, l
<1>5. \A i \in DOMAIN u : (i \in 1 .. k /\ u[i] = s[i]) \/ (i - k \in 1 .. l /\ u[i] = t[i - k])
  <2> TAKE i \in DOMAIN u
  <2>1. CASE i <= k
    BY <1>1, <1>2, <1>4, <2>1
  <2>2. CASE ~(i <= k)
    <3>1. i - k \in 1 .. l /\ i = k + (i - k)
      BY <1>1, <1>2, <1>4, <2>2
    <3> QED
      BY <1>4, <3>1
  <2> QED
    BY <2>1, <2>2
<1>6. Range(u) = S \cup T
  <2>1. \A i \in DOMAIN u : u[i] \in S \cup T
    BY <1>1, <1>2, <1>5
  <2>2. \A x \in S : \E i \in DOMAIN u : u[i] = x
    <3> TAKE x \in S
    <3>1. PICK n \in 1 .. k : s[n] = x
      BY <1>1
    <3>2. n \in DOMAIN u
      BY <1>1, <1>2, <1>4
    <3> QED
      BY <1>4, <3>1, <3>2
  <2>3. \A x \in T : \E i \in DOMAIN u : u[i] = x
    <3> TAKE x \in T
    <3>1. PICK n \in 1 .. l : t[n] = x
      BY <1>2
    <3>2. k + n \in DOMAIN u
      BY <1>1, <1>2, <1>4
    <3> QED
      BY <1>4, <3>1, <3>2
  <2> QED
    BY <2>1, <2>2, <2>3 DEF Range
<1>7. ASSUME NEW m \in DOMAIN u, NEW n \in DOMAIN u, m < n PROVE <<u[m], u[n]>> \in R
  <2>1. CASE n \in 1 .. k
    <3>1. m \in 1 .. k
      BY <1>1, <1>2, <1>4, <1>7, <2>1
    <3> QED
      BY <1>1, <1>4, <1>7, <2>1, <3>1
  <2>2. CASE n - k \in 1 .. l /\ u[n] = t[n - k]
    <3>1. CASE m \in 1 .. k
      BY <1>1, <1>2, <1>4, <2>2, <3>1
    <3>2. CASE m - k \in 1 .. l /\ u[m] = t[m - k]
      <4>1. m - k < n - k
        BY <1>1, <1>4, <1>7
      <4> QED
        BY <1>2, <2>2, <3>2, <4>1
    <3> QED
      BY <1>5, <3>1, <3>2
  <2> QED
    BY <1>5, <2>1, <2>2
<1>8. Lists(u, R, S \cup T)
  BY <1>3, <1>6, <1>7 DEF Lists
<1> QED
  BY <1>8 DEF u

-----------------------------------------------------------------------------
(* Lists put end to end.                                                    *)

\* f[i] is the first i of these lists end to end, for i up to n.
FlatTo(f, seqs, n) == f = [i \in 1 .. n |-> IF i = 1 THEN seqs[i] ELSE f[i - 1] \o seqs[i]]

LEMMA FlatExists ==
  ASSUME NEW seqs
  PROVE  \A n \in Nat : \E f : FlatTo(f, seqs, n)
<1> DEFINE none == {n \in Nat : ~\E f : FlatTo(f, seqs, n)}
<1> SUFFICES ASSUME none # {} PROVE FALSE
  OBVIOUS
<1>1. PICK n \in none : \A i \in none : n <= i
  BY LeastNumber
<1>2. n \in Nat /\ ~\E f : FlatTo(f, seqs, n)
  BY <1>1
<1>3. n # 0
  <2>1. FlatTo(<< >>, seqs, 0)
    BY DEF FlatTo
  <2> QED
    BY <1>2, <2>1
<1>4. n - 1 \in Nat /\ n - 1 \notin none
  BY <1>1, <1>2, <1>3
<1>5. PICK f : FlatTo(f, seqs, n - 1)
  BY <1>4
<1> DEFINE g == [i \in 1 .. n |-> IF i = n THEN (IF i = 1 THEN seqs[i] ELSE f[i - 1] \o seqs[i]) ELSE f[i]]
<1>6. ASSUME NEW i \in 1 .. n
      PROVE  g[i] = IF i = 1 THEN seqs[i] ELSE g[i - 1] \o seqs[i]
  <2>1. i > 1 => i - 1 \in 1 .. n /\ i - 1 # n /\ g[i - 1] = f[i - 1]
    BY <1>2
  <2>2. CASE i = n
    BY <1>2, <2>1, <2>2
  <2>3. CASE i # n
    <3>1. i \in 1 .. n - 1
      BY <1>2, <2>3
    <3>2. f[i] = IF i = 1 THEN seqs[i] ELSE f[i - 1] \o seqs[i]
      BY <1>5, <3>1 DEF FlatTo
    <3> QED
      BY <1>2, <2>1, <2>3, <3>2
  <2> QED
    BY <2>2, <2>3
<1>7. g = [i \in 1 .. n |-> g[i]]
  OBVIOUS
<1> HIDE DEF g
<1>8. FlatTo(g, seqs, n)
  BY <1>6, <1>7 DEF FlatTo
<1> QED
  BY <1>2, <1>8

LEMMA FlattenIs ==
  ASSUME NEW T, NEW seqs \in Seq(T), seqs # << >>
  PROVE  \E f : FlatTo(f, seqs, Len(seqs)) /\ FlattenSeq(seqs) = f[Len(seqs)]
<1> DEFINE f == CHOOSE g : FlatTo(g, seqs, Len(seqs))
<1>1. Len(seqs) \in Nat /\ Len(seqs) # 0
  OBVIOUS
<1>2. FlatTo(f, seqs, Len(seqs))
  BY <1>1, FlatExists
<1>3. FlattenSeq(seqs) = f[Len(seqs)]
  BY <1>1 DEF FlattenSeq, FlatTo
<1> QED
  BY <1>2, <1>3

LEMMA JoinedMembers ==
  ASSUME NEW U, NEW s \in Seq(U), NEW t \in Seq(U)
  PROVE  s \o t \in Seq(U) /\ Range(s \o t) = Range(s) \cup Range(t)
<1> DEFINE u == s \o t
<1>1. /\ Len(s) \in Nat /\ DOMAIN s = 1 .. Len(s) /\ Len(t) \in Nat /\ DOMAIN t = 1 .. Len(t)
      /\ u \in Seq(U) /\ DOMAIN u = 1 .. Len(s) + Len(t)
  OBVIOUS
<1>2. /\ \A i \in 1 .. Len(s) : i \in DOMAIN u /\ u[i] = s[i]
      /\ \A i \in 1 .. Len(t) : Len(s) + i \in DOMAIN u /\ u[Len(s) + i] = t[i]
  BY <1>1
<1>3. \A i \in DOMAIN u : i \in 1 .. Len(s) \/ i - Len(s) \in 1 .. Len(t)
  BY <1>1
<1>4. \A i \in DOMAIN u : i \in 1 .. Len(s) \/ (i - Len(s) \in 1 .. Len(t) /\ u[i] = t[i - Len(s)])
  BY <1>1, <1>2, <1>3
<1> HIDE DEF u
<1>5. Range(u) = Range(s) \cup Range(t)
  <2>1. ASSUME NEW x \in Range(u) PROVE x \in Range(s) \cup Range(t)
    <3>1. PICK i \in DOMAIN u : u[i] = x
      BY DEF Range
    <3> QED
      BY <1>1, <1>2, <1>4, <3>1 DEF Range
  <2>2. ASSUME NEW x \in Range(s) \cup Range(t) PROVE x \in Range(u)
    BY <1>1, <1>2 DEF Range
  <2> QED
    BY <2>1, <2>2
<1> QED
  BY <1>1, <1>5 DEF u

\* What is in lists put end to end is what is in one of them.
LEMMA FlatMembers ==
  ASSUME NEW U, NEW seqs \in Seq(Seq(U))
  PROVE  /\ FlattenSeq(seqs) \in Seq(U)
         /\ Range(FlattenSeq(seqs)) = UNION {Range(seqs[i]) : i \in DOMAIN seqs}
<1> DEFINE l == Len(seqs)
           In(k) == UNION {Range(seqs[i]) : i \in 1 .. k}
<1>1. l \in Nat /\ DOMAIN seqs = 1 .. l /\ \A i \in 1 .. l : seqs[i] \in Seq(U)
  OBVIOUS
<1>2. CASE seqs = << >>
  <2>1. FlattenSeq(seqs) = << >>
    BY <1>2 DEF FlattenSeq
  <2>2. UNION {Range(seqs[i]) : i \in DOMAIN seqs} = {}
    BY <1>2
  <2>3. << >> \in Seq(U) /\ Range(<< >>) = {}
    BY DEF Range
  <2> QED
    BY <2>1, <2>2, <2>3
<1>3. CASE seqs # << >>
  <2>1. PICK f : FlatTo(f, seqs, l) /\ FlattenSeq(seqs) = f[l]
    BY <1>3, FlattenIs
  <2>2. l # 0
    BY <1>3
  <2> HIDE DEF l
  <2> DEFINE Fine(k) == f[k] \in Seq(U) /\ Range(f[k]) = In(k)
             bad == {k \in Nat : k \in 1 .. l /\ ~Fine(k)}
  <2>3. bad = {}
    <3> SUFFICES ASSUME bad # {} PROVE FALSE
      OBVIOUS
    <3>1. PICK k \in bad : \A i \in bad : k <= i
      BY LeastNumber
    <3>2. k \in 1 .. l /\ k \in Nat /\ ~Fine(k)
      BY <3>1
    <3>3. f[k] = IF k = 1 THEN seqs[k] ELSE f[k - 1] \o seqs[k]
      BY <2>1, <3>2 DEF FlatTo
    <3>4. CASE k = 1
      <4>1. In(k) = Range(seqs[k])
        BY <3>4
      <4> QED
        BY <1>1, <3>2, <3>3, <3>4, <4>1
    <3>5. CASE k # 1
      <4>1. k - 1 \in 1 .. l /\ k - 1 \in Nat /\ ~(k <= k - 1)
        BY <1>1, <3>2, <3>5
      <4>2. Fine(k - 1)
        <5>1. k - 1 \notin bad
          <6> HIDE DEF bad
          <6> QED
            BY <3>1, <4>1
        <5> QED
          BY <4>1, <5>1
      <4>3. In(k) = In(k - 1) \cup Range(seqs[k])
        <5>1. 1 .. k = (1 .. k - 1) \cup {k}
          BY <3>2, <3>5
        <5> QED
          BY <5>1
      <4>4. f[k] \in Seq(U) /\ Range(f[k]) = Range(f[k - 1]) \cup Range(seqs[k])
        <5>1. f[k - 1] \in Seq(U) /\ seqs[k] \in Seq(U) /\ f[k] = f[k - 1] \o seqs[k]
          BY <1>1, <3>2, <3>3, <3>5, <4>2
        <5> QED
          BY <5>1, JoinedMembers
      <4> HIDE DEF In
      <4> QED
        BY <3>2, <4>2, <4>3, <4>4
    <3> QED
      BY <3>4, <3>5
  <2>4. Fine(l)
    <3>1. l \in Nat /\ l \in 1 .. l
      BY <1>1, <2>2
    <3> QED
      BY <2>3, <3>1
  <2>5. In(l) = UNION {Range(seqs[i]) : i \in DOMAIN seqs}
    BY <1>1
  <2> QED
    BY <2>1, <2>4, <2>5
<1> QED
  BY <1>2, <1>3

-----------------------------------------------------------------------------
(* The members of a list at some places, in any order of the list.            *)

LEMMA PlacesMembers ==
  ASSUME NEW U, NEW s \in Seq(U), NEW P \in SUBSET DOMAIN s
  PROVE  AtPlaces(s, P) \in Seq(U) /\ Range(AtPlaces(s, P)) = {s[i] : i \in P}
<1> DEFINE at == InOrder(P)
           t == AtPlaces(s, P)
<1>1. DOMAIN s = 1 .. Len(s) /\ Len(s) \in Nat /\ \A i \in DOMAIN s : s[i] \in U
  OBVIOUS
<1>2. IsFiniteSet(P) /\ P \in SUBSET Nat
  <2>1. IsFiniteSet(1 .. Len(s))
    BY <1>1, CountTo
  <2> QED
    BY <1>1, <2>1, FS_Subset
<1>3. /\ at \in Seq(P) /\ Len(at) = Cardinality(P) /\ Cardinality(P) \in Nat
      /\ \A i \in P : \E n \in 1 .. Cardinality(P) : at[n] = i
  BY <1>2, InOrderIs
<1>4. t = [n \in DOMAIN at |-> s[at[n]]]
  BY DEF AtPlaces
<1> HIDE DEF at, t
<1>5. DOMAIN at = 1 .. Cardinality(P) /\ \A n \in DOMAIN at : at[n] \in P
  BY <1>3
<1>6. DOMAIN t = 1 .. Cardinality(P) /\ \A n \in 1 .. Cardinality(P) : t[n] = s[at[n]] /\ t[n] \in U
  BY <1>1, <1>4, <1>5
<1>7. t \in Seq(U)
  <2>1. t = [n \in 1 .. Cardinality(P) |-> t[n]]
    BY <1>4, <1>5
  <2>2. t \in [1 .. Cardinality(P) -> U]
    BY <1>6, <2>1
  <2>3. \A n \in Nat : [1 .. n -> U] \subseteq Seq(U)
    OBVIOUS
  <2> QED
    BY <1>3, <2>2, <2>3
<1>8. Range(t) = {s[i] : i \in P}
  <2>1. \A x \in Range(t) : x \in {s[i] : i \in P}
    BY <1>5, <1>6 DEF Range
  <2>2. ASSUME NEW i \in P PROVE s[i] \in Range(t)
    <3>1. PICK n \in 1 .. Cardinality(P) : at[n] = i
      BY <1>3
    <3> QED
      BY <1>6, <3>1 DEF Range
  <2> QED
    BY <2>1, <2>2
<1> QED
  BY <1>7, <1>8 DEF t
=============================================================================
