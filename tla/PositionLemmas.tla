--------------------------- MODULE PositionLemmas ---------------------------
\* The least and the last of a set of positions, for the operators that choose
\* one: NatLessThanWellFounded in a form without relations.  From it, induction
\* over the naturals with a set in place of the predicate, and by that: that a
\* fold over a sequence is a walk through it, and that finitely many numbers have
\* a least one and can be put in order.
EXTENDS Integers, FiniteSets, FiniteSetTheorems, WellFoundedInduction, TLAPS

\* A set of naturals that is not empty has a least element.
LEMMA LeastOf ==
    ASSUME NEW S, S \subseteq Nat, S # {}
    PROVE  \E x \in S : \A y \in S : x <= y
<1> DEFINE R == OpToRel(<, Nat)
<1>1. IsWellFoundedOn(R, Nat)
  BY NatLessThanWellFounded
<1>2. \A x, y \in Nat : y < x => <<y, x>> \in R
  BY DEF OpToRel
<1> HIDE DEF R
<1>3. PICK x \in S : \A y \in S : ~(<<y, x>> \in R)
  BY <1>1, WFMin
<1>4. \A y \in S : x <= y
  <2> SUFFICES ASSUME NEW y \in S PROVE x <= y
    OBVIOUS
  <2>1. x \in Nat /\ y \in Nat
    OBVIOUS
  <2>2. ~(y < x)
    BY <1>2, <1>3, <2>1
  <2>3. QED
    BY <2>1, <2>2
<1>5. QED
  BY <1>4

\* A set of positions that is not empty has a last element.
LEMMA LargestOf ==
    ASSUME NEW n \in Nat, NEW S, S \subseteq 1 .. n, S # {}
    PROVE  \E i \in S : \A j \in S : j <= i
<1> DEFINE T == {n - i : i \in S}
<1>1. T \subseteq Nat /\ T # {}
  <2>1. \A i \in S : n - i \in Nat
    OBVIOUS
  <2>2. QED
    BY <2>1
<1>2. \A i \in S : n - i \in T
  OBVIOUS
<1>3. \A x \in T : \E i \in S : x = n - i
  OBVIOUS
<1> HIDE DEF T
<1>4. PICK x \in T : \A y \in T : x <= y
  BY <1>1, LeastOf
<1>5. PICK i \in S : x = n - i
  BY <1>3
<1>6. \A j \in S : n - i <= n - j
  BY <1>2, <1>4, <1>5
<1>7. \A j \in S : j <= i
  <2> SUFFICES ASSUME NEW j \in S PROVE j <= i
    OBVIOUS
  <2>1. n - i <= n - j /\ i \in Nat /\ j \in Nat
    BY <1>6
  <2>2. QED
    BY <2>1
<1>8. QED
  BY <1>7

\* Induction over the naturals, with a set in place of the predicate.
LEMMA AllNaturals ==
    ASSUME NEW S, 0 \in S, \A n \in Nat : n \in S => n + 1 \in S
    PROVE  \A n \in Nat : n \in S
<1> SUFFICES ASSUME Nat \ S # {} PROVE FALSE
  OBVIOUS
<1>1. PICK x \in Nat \ S : \A y \in Nat \ S : x <= y
  BY LeastOf
<1>2. x - 1 \in Nat
  BY <1>1
<1>3. x - 1 \in S
  <2>1. ~(x <= x - 1)
    BY <1>1
  <2>2. QED
    BY <1>1, <1>2, <2>1
<1>4. (x - 1) + 1 = x
  BY <1>1
<1>5. QED
  BY <1>1, <1>2, <1>3, <1>4

\* The last of a set of positions (Max of FiniteSetsExt).
LastIn(s) == CHOOSE x \in s : \A y \in s : x >= y

\* It is the greatest.
LEMMA LastInIs ==
    ASSUME NEW k \in Nat, NEW s \in SUBSET (1 .. k + 1), k + 1 \in s
    PROVE  LastIn(s) = k + 1
<1>1. \A y \in s : y \in Nat /\ k + 1 >= y
  OBVIOUS
<1>2. \A x \in s : (\A y \in s : x >= y) => x = k + 1
  <2> SUFFICES ASSUME NEW x \in s, x >= k + 1 PROVE x = k + 1
    OBVIOUS
  <2>1. QED
    BY <1>1
<1>3. QED
  BY <1>1, <1>2 DEF LastIn

\* It is one of the positions, and the others are positions too.
LEMMA LastInIn ==
    ASSUME NEW k \in Nat, NEW s \in SUBSET (1 .. k), s # {}
    PROVE  LastIn(s) \in s
<1>1. PICK i \in s : \A j \in s : j <= i
  BY LargestOf
<1>2. \A j \in s : i >= j
  <2> SUFFICES ASSUME NEW j \in s PROVE i >= j
    OBVIOUS
  <2>1. i \in Nat /\ j \in Nat /\ j <= i
    BY <1>1
  <2>2. QED
    BY <2>1
<1>3. QED
  BY <1>2 DEF LastIn

\* The recursive functions over sets of positions that a fold from the left is
\* defined by, for a function f of a position and a value.
FoldsOf(n, A, base, f) ==
    {g \in [SUBSET (1 .. n) -> A] :
        \A s \in SUBSET (1 .. n) :
           g[s] = IF s = {} THEN base ELSE f[LastIn(s)][g[s \ {LastIn(s)}]]}

\* There is one.
LEMMA FoldExists ==
    ASSUME NEW n \in Nat, NEW A, NEW base \in A, NEW f \in [1 .. n -> [A -> A]]
    PROVE  FoldsOf(n, A, base, f) # {}
<1> DEFINE Folds(k) ==
             {g \in [SUBSET (1 .. k) -> A] : \A s \in SUBSET (1 .. k) :
                g[s] = IF s = {} THEN base ELSE f[LastIn(s)][g[s \ {LastIn(s)}]]}
           S == {k \in Nat : k <= n => Folds(k) # {}}
<1>1. Folds(0) # {}
  <2> DEFINE g == [s \in SUBSET (1 .. 0) |-> base]
  <2>1. \A s \in SUBSET (1 .. 0) : s = {}
    OBVIOUS
  <2>2. g \in Folds(0)
    BY <2>1
  <2>3. QED
    BY <2>2
<1>2. ASSUME NEW k \in Nat, k + 1 <= n, NEW g \in Folds(k) PROVE Folds(k + 1) # {}
  <2> DEFINE h == [s \in SUBSET (1 .. k + 1) |->
                     IF k + 1 \in s THEN f[k + 1][g[s \ {k + 1}]] ELSE g[s]]
  <2>1. /\ g \in [SUBSET (1 .. k) -> A]
        /\ \A s \in SUBSET (1 .. k) :
              g[s] = IF s = {} THEN base ELSE f[LastIn(s)][g[s \ {LastIn(s)}]]
    OBVIOUS
  <2> HIDE DEF Folds
  <2>2. \A s \in SUBSET (1 .. k + 1) : s \ {k + 1} \in SUBSET (1 .. k)
    <3>1. \A i \in 1 .. k + 1 : i # k + 1 => i \in 1 .. k
      OBVIOUS
    <3>2. QED
      BY <3>1
  <2>3. \A s \in SUBSET (1 .. k + 1) : k + 1 \notin s => s \in SUBSET (1 .. k)
    <3>1. \A s : k + 1 \notin s => s \ {k + 1} = s
      OBVIOUS
    <3>2. QED
      BY <2>2, <3>1
  <2>4. k + 1 \in 1 .. n
    BY <1>2
  <2>5. h \in [SUBSET (1 .. k + 1) -> A]
    BY <2>1, <2>2, <2>3, <2>4
  <2>6. ASSUME NEW s \in SUBSET (1 .. k + 1)
        PROVE  h[s] = IF s = {} THEN base ELSE f[LastIn(s)][h[s \ {LastIn(s)}]]
    <3>1. CASE k + 1 \in s
      <4>1. LastIn(s) = k + 1 /\ s # {}
        BY <3>1, LastInIs
      <4>2. s \ {k + 1} \in SUBSET (1 .. k + 1) /\ k + 1 \notin s \ {k + 1}
        OBVIOUS
      <4>3. h[s \ {k + 1}] = g[s \ {k + 1}]
        BY <4>2
      <4>4. h[s] = f[k + 1][g[s \ {k + 1}]]
        BY <3>1
      <4>5. QED
        BY <4>1, <4>3, <4>4
    <3>2. CASE k + 1 \notin s
      <4>1. s \in SUBSET (1 .. k)
        BY <2>3, <3>2
      <4>2. h[s] = g[s]
        BY <3>2
      <4>3. h[s \ {LastIn(s)}] = g[s \ {LastIn(s)}]
        BY <3>2
      <4>4. g[s] = IF s = {} THEN base ELSE f[LastIn(s)][g[s \ {LastIn(s)}]]
        BY <2>1, <4>1
      <4>5. QED
        BY <4>2, <4>3, <4>4
    <3>3. QED
      BY <3>1, <3>2
  <2>7. h \in Folds(k + 1)
    BY <2>5, <2>6 DEF Folds
  <2>8. QED
    BY <2>7
<1> HIDE DEF Folds
<1>3. n \in S
  <2>1. 0 \in S
    BY <1>1
  <2>2. ASSUME NEW k \in Nat, k \in S PROVE k + 1 \in S
    <3> SUFFICES ASSUME k + 1 <= n PROVE Folds(k + 1) # {}
      OBVIOUS
    <3>1. k <= n
      OBVIOUS
    <3>2. PICK g \in Folds(k) : TRUE
      BY <2>2, <3>1
    <3>3. QED
      BY <1>2
  <2> HIDE DEF S
  <2>3. QED
    BY <2>1, <2>2, AllNaturals
<1>4. PICK g \in Folds(n) : TRUE
  BY <1>3
<1>5. QED
  BY <1>4 DEF Folds, FoldsOf

\* A function that folds as far as the values are of A.
IsFold(g, n, A, base, f) ==
    /\ g[{}] = base
    /\ \A s \in SUBSET (1 .. n) : s # {} /\ g[s \ {LastIn(s)}] \in A
          => g[s] = f[LastIn(s)][g[s \ {LastIn(s)}]]

\* The values up to each position, each made of the one before.
Walks(n, A, base, f) ==
    {a \in [0 .. n -> A] : a[0] = base /\ \A i \in 1 .. n : a[i] = f[i][a[i - 1]]}

\* A fold walks to its value.
LEMMA FoldSteps ==
    ASSUME NEW n \in Nat, NEW A, NEW base \in A, NEW f \in [1 .. n -> [A -> A]],
           NEW g, IsFold(g, n, A, base, f)
    PROVE  \E a \in Walks(n, A, base, f) : a[n] = g[1 .. n]
<1> DEFINE a == [i \in 0 .. n |-> g[1 .. i]]
           S == {k \in Nat : k <= n => a[k] \in A}
<1>1. 1 .. 0 = {} /\ a[0] = base
  BY DEF IsFold
<1>2. ASSUME NEW k \in Nat, k + 1 <= n, a[k] \in A PROVE a[k + 1] = f[k + 1][a[k]]
  <2>1. /\ 1 .. (k + 1) \in SUBSET (1 .. n) /\ k + 1 \in 1 .. (k + 1)
        /\ (1 .. (k + 1)) \ {k + 1} = 1 .. k
    BY <1>2
  <2>2. LastIn(1 .. (k + 1)) = k + 1
    BY <2>1, LastInIs
  <2>3. k \in 0 .. n /\ k + 1 \in 0 .. n
    BY <1>2
  <2>4. a[k] = g[1 .. k] /\ a[k + 1] = g[1 .. (k + 1)]
    BY <2>3
  <2> HIDE DEF a
  <2>5. g[1 .. (k + 1)] = f[k + 1][g[1 .. k]]
    BY <1>2, <2>1, <2>2, <2>4 DEF IsFold
  <2>6. QED
    BY <2>4, <2>5
<1> HIDE DEF a
<1>3. \A k \in Nat : k \in S
  <2>1. 0 \in S
    BY <1>1
  <2>2. ASSUME NEW k \in Nat, k \in S PROVE k + 1 \in S
    <3> SUFFICES ASSUME k + 1 <= n PROVE a[k + 1] \in A
      OBVIOUS
    <3>1. k <= n /\ k + 1 \in 1 .. n
      OBVIOUS
    <3>2. QED
      BY <1>2, <2>2, <3>1
  <2> HIDE DEF S
  <2>3. QED
    BY <2>1, <2>2, AllNaturals
<1>4. \A i \in 0 .. n : a[i] \in A
  BY <1>3
<1>5. a \in [0 .. n -> A]
  BY <1>4 DEF a
<1>6. ASSUME NEW i \in 1 .. n PROVE a[i] = f[i][a[i - 1]]
  <2>1. i - 1 \in Nat /\ (i - 1) + 1 = i /\ i - 1 \in 0 .. n /\ i <= n
    OBVIOUS
  <2>2. QED
    BY <1>2, <1>4, <2>1
<1>7. a[n] = g[1 .. n]
  BY DEF a
<1>8. QED
  BY <1>1, <1>5, <1>6, <1>7 DEF Walks

\* Of finitely many integers that are given for the elements of a set one is the
\* least.
LEMMA CheapestOf ==
    ASSUME NEW S, IsFiniteSet(S), S # {}, NEW f \in [S -> Int]
    PROVE  \E x \in S : \A y \in S : f[x] <= f[y]
<1> DEFINE HasLeast(T) == \E x \in T : \A y \in T : f[x] <= f[y]
           Bad == {T \in SUBSET S : T # {} /\ ~HasLeast(T)}
           N == {Cardinality(T) : T \in Bad}
<1> SUFFICES ASSUME Bad # {} PROVE FALSE
  BY Zenon
<1>1. \A T \in SUBSET S : IsFiniteSet(T) /\ Cardinality(T) \in Nat
  BY FS_Subset, FS_CardinalityType
<1>2. N \subseteq Nat /\ N # {}
  BY <1>1
<1>3. PICK T \in Bad : \A U \in Bad : Cardinality(T) <= Cardinality(U)
  <2> HIDE DEF Bad
  <2>1. PICK m \in N : \A k \in N : m <= k
    BY <1>2, LeastOf
  <2>2. QED
    BY <2>1
<1>4. T \in SUBSET S /\ T # {} /\ ~HasLeast(T)
  OBVIOUS
<1>5. PICK x \in T : TRUE
  BY <1>4
<1>6. T \ {x} \in SUBSET S /\ Cardinality(T \ {x}) < Cardinality(T)
  <2>1. Cardinality(T \ {x}) = Cardinality(T) - 1
    BY <1>1, <1>4, FS_RemoveElement
  <2>2. QED
    BY <1>1, <1>4, <2>1
<1>7. T \ {x} \notin Bad
  <2> HIDE DEF Bad
  <2>1. Cardinality(T) \in Nat /\ Cardinality(T \ {x}) \in Nat
    BY <1>1, <1>4, <1>6
  <2>2. QED
    BY <1>3, <1>6, <2>1
<1>8. T \ {x} = {} \/ HasLeast(T \ {x})
  BY <1>6, <1>7
<1>9. \A y \in T : f[y] \in Int
  BY <1>4
<1>10. CASE T \ {x} = {}
  <2>1. \A y \in T : f[x] <= f[y]
    BY <1>9, <1>10
  <2>2. QED
    BY <1>4, <1>5, <2>1
<1>11. CASE HasLeast(T \ {x})
  <2>1. PICK z \in T \ {x} : \A y \in T \ {x} : f[z] <= f[y]
    BY <1>11
  <2> HIDE DEF Bad
  <2>2. CASE f[x] <= f[z]
    <3>1. \A y \in T : f[x] <= f[y]
      <4> SUFFICES ASSUME NEW y \in T PROVE f[x] <= f[y]
        OBVIOUS
      <4>1. f[x] \in Int /\ f[y] \in Int /\ f[z] \in Int
        BY <1>9
      <4>2. y = x \/ f[z] <= f[y]
        BY <2>1
      <4>3. QED
        BY <2>2, <4>1, <4>2
    <3>2. QED
      BY <1>4, <3>1
  <2>3. CASE ~(f[x] <= f[z])
    <3>1. \A y \in T : f[z] <= f[y]
      <4> SUFFICES ASSUME NEW y \in T PROVE f[z] <= f[y]
        OBVIOUS
      <4>1. f[x] \in Int /\ f[y] \in Int /\ f[z] \in Int
        BY <1>9
      <4>2. y = x \/ f[z] <= f[y]
        BY <2>1
      <4>3. QED
        BY <2>3, <4>1, <4>2
    <3>2. QED
      BY <1>4, <3>1
  <2>4. QED
    BY <2>2, <2>3
<1>12. QED
  BY <1>8, <1>10, <1>11

\* Finitely many integers can be put in order.
Ordered(S) ==
    {s \in [1 .. Cardinality(S) -> S] :
        \A i, j \in 1 .. Cardinality(S) : i < j => s[i] < s[j]}

LEMMA OrderExists ==
    ASSUME NEW S, IsFiniteSet(S), S \subseteq Int
    PROVE  Ordered(S) # {}
<1> DEFINE Bad == {T \in SUBSET S : Ordered(T) = {}}
           N == {Cardinality(T) : T \in Bad}
<1> SUFFICES ASSUME Bad # {} PROVE FALSE
  OBVIOUS
<1>1. \A T \in SUBSET S : IsFiniteSet(T) /\ Cardinality(T) \in Nat
  BY FS_Subset, FS_CardinalityType
<1>2. N \subseteq Nat /\ N # {}
  BY <1>1
<1>3. PICK T \in Bad : \A U \in Bad : Cardinality(T) <= Cardinality(U)
  <2> HIDE DEF Bad
  <2>1. PICK m \in N : \A k \in N : m <= k
    BY <1>2, LeastOf
  <2>2. QED
    BY <2>1
<1>4. T \in SUBSET S /\ Ordered(T) = {} /\ T \subseteq Int
  OBVIOUS
<1>5. T # {}
  <2> SUFFICES ASSUME T = {} PROVE FALSE
    OBVIOUS
  <2>1. Cardinality(T) = 0
    BY FS_EmptySet
  <2>2. [i \in {} |-> 0] \in Ordered(T)
    BY <2>1 DEF Ordered
  <2>3. QED
    BY <1>4, <2>2
<1>6. PICK x \in T : \A y \in T : y <= x
  <2> DEFINE f == [y \in T |-> 0 - y]
  <2>1. f \in [T -> Int] /\ IsFiniteSet(T)
    BY <1>1, <1>4
  <2>2. \A y \in T : f[y] = 0 - y
    OBVIOUS
  <2> HIDE DEF f, Bad
  <2>3. PICK x \in T : \A y \in T : f[x] <= f[y]
    BY <1>5, <2>1, CheapestOf
  <2>4. \A y \in T : y <= x
    <3> SUFFICES ASSUME NEW y \in T PROVE y <= x
      OBVIOUS
    <3>1. x \in Int /\ y \in Int /\ 0 - x <= 0 - y
      BY <1>4, <2>2, <2>3
    <3>2. QED
      BY <3>1
  <2>5. QED
    BY <2>4
<1> DEFINE U == T \ {x}
<1>7. U \in SUBSET S /\ Cardinality(T) = Cardinality(U) + 1
  <2>1. Cardinality(U) = Cardinality(T) - 1
    BY <1>1, <1>4, FS_RemoveElement
  <2>2. QED
    BY <1>1, <1>4, <2>1
<1>8. U \notin Bad
  <2> HIDE DEF Bad, U
  <2>1. Cardinality(T) \in Nat /\ Cardinality(U) \in Nat
    BY <1>1, <1>4, <1>7
  <2>2. QED
    BY <1>3, <1>7, <2>1
<1>9. PICK s \in Ordered(U) : TRUE
  BY <1>7, <1>8
<1> DEFINE n == Cardinality(U)
           r == [i \in 1 .. n + 1 |-> IF i = n + 1 THEN x ELSE s[i]]
<1>10. n \in Nat
  BY <1>1, <1>7
<1>11. s \in [1 .. n -> U] /\ \A i, j \in 1 .. n : i < j => s[i] < s[j]
  BY <1>9 DEF Ordered
<1>12. \A i \in 1 .. n : s[i] \in T /\ s[i] \in Int /\ s[i] < x
  <2> SUFFICES ASSUME NEW i \in 1 .. n PROVE s[i] \in T /\ s[i] \in Int /\ s[i] < x
    OBVIOUS
  <2>1. s[i] \in U
    BY <1>11
  <2>2. s[i] \in T /\ s[i] # x /\ s[i] <= x /\ s[i] \in Int /\ x \in Int
    BY <1>4, <1>6, <2>1
  <2>3. QED
    BY <2>2
<1> HIDE DEF n, U, Bad
<1>13. \A i \in 1 .. n + 1 : i # n + 1 => i \in 1 .. n
  BY <1>10
<1>14. r \in [1 .. n + 1 -> T]
  BY <1>12, <1>13
<1>15. \A i, j \in 1 .. n + 1 : i < j => r[i] < r[j]
  <2> SUFFICES ASSUME NEW i \in 1 .. n + 1, NEW j \in 1 .. n + 1, i < j
               PROVE  r[i] < r[j]
    OBVIOUS
  <2>1. i \in 1 .. n /\ r[i] = s[i]
    BY <1>10
  <2>2. CASE j = n + 1
    BY <1>12, <2>1, <2>2
  <2>3. CASE j # n + 1
    BY <1>11, <1>13, <2>1, <2>3
  <2>4. QED
    BY <2>2, <2>3
<1>16. r \in Ordered(T)
  <2>1. Cardinality(T) = n + 1
    BY <1>7 DEF n
  <2> HIDE DEF r
  <2>2. QED
    BY <1>14, <1>15, <2>1 DEF Ordered
<1>17. QED
  BY <1>4, <1>16
==============================================================================
