------------------------------ MODULE SetSums ------------------------------
(***************************************************************************)
(* What the sum of a function over a finite set is: the fold of the        *)
(* community modules picks the elements in an order nobody knows, and the  *)
(* sum does not depend on it.                                              *)
(***************************************************************************)
EXTENDS Integers, Functions, FiniteSetsExt, FiniteSetTheorems, WellFoundedInduction, TLAPS

\* Induction over the natural numbers, for a set instead of a predicate.
LEMMA SetInduction ==
    ASSUME NEW T \in SUBSET Nat, 0 \in T, \A n \in T : n + 1 \in T
    PROVE  T = Nat
<1> SUFFICES ASSUME Nat \ T # {} PROVE FALSE
  OBVIOUS
<1> DEFINE R == OpToRel(<, Nat)
<1>1. IsWellFoundedOn(R, Nat)
  BY NatLessThanWellFounded
<1>2. \A i, j \in Nat : <<i, j>> \in R <=> i < j
  BY DEF OpToRel
<1> HIDE DEF R
<1>3. PICK m \in Nat \ T : \A k \in Nat \ T : ~(<<k, m>> \in R)
  BY <1>1, WFMin
<1>4. m # 0 /\ m - 1 \in Nat /\ m - 1 < m
  OBVIOUS
<1>5. m - 1 \in T
  BY <1>2, <1>3, <1>4
<1> QED BY <1>4, <1>5

-----------------------------------------------------------------------------
(* The recursive function behind the fold.                                 *)

First(s) == CHOOSE x \in s : TRUE
Rest(s) == s \ {First(s)}

Adds(iter, f, D) ==
    iter = [s \in D |-> IF s = {} THEN 0 ELSE f[First(s)] + iter[Rest(s)]]

Small(S, n) == {s \in SUBSET S : Cardinality(s) <= n}

\* The element the fold takes, and what it leaves.
LEMMA FirstRest ==
    ASSUME NEW S, IsFiniteSet(S), NEW s \in SUBSET S, s # {}
    PROVE  /\ First(s) \in s /\ First(s) \notin Rest(s) /\ s = Rest(s) \cup {First(s)}
           /\ Rest(s) \in SUBSET S /\ IsFiniteSet(Rest(s))
           /\ Cardinality(s) \in Nat /\ Cardinality(Rest(s)) = Cardinality(s) - 1
           /\ Cardinality(Rest(s)) \in Nat
<1>1. First(s) \in s
  BY DEF First
<1>2. IsFiniteSet(s)
  BY FS_Subset
<1>3. Cardinality(s) \in Nat
  BY <1>2, FS_CardinalityType
<1>4. IsFiniteSet(Rest(s)) /\ Cardinality(Rest(s)) = Cardinality(s) - 1
  BY <1>1, <1>2, FS_RemoveElement DEF Rest
<1>5. Cardinality(Rest(s)) \in Nat
  BY <1>4, FS_CardinalityType
<1> QED BY <1>1, <1>3, <1>4, <1>5 DEF Rest

\* There is such a function, built up by the size of its arguments.
LEMMA SumExists ==
    ASSUME NEW S, IsFiniteSet(S), NEW f
    PROVE  \E iter : Adds(iter, f, SUBSET S)
<1> DEFINE T == {n \in Nat : \E iter : Adds(iter, f, Small(S, n))}
<1>1. 0 \in T
  <2> DEFINE iter == [s \in Small(S, 0) |-> 0]
  <2>1. \A s \in Small(S, 0) : s = {}
    BY FS_Subset, FS_EmptySet, FS_CardinalityType DEF Small
  <2>2. Adds(iter, f, Small(S, 0))
    BY <2>1 DEF Adds
  <2> HIDE DEF iter
  <2> QED BY <2>2
<1>2. ASSUME NEW n \in T PROVE n + 1 \in T
  <2>1. PICK iter : Adds(iter, f, Small(S, n))
    OBVIOUS
  <2> DEFINE next == [s \in Small(S, n + 1) |-> IF s = {} THEN 0 ELSE f[First(s)] + iter[Rest(s)]]
  <2>2. n \in Nat
    OBVIOUS
  <2>3. \A s \in Small(S, n + 1) : s # {} => Rest(s) \in Small(S, n)
    BY <2>2, FirstRest DEF Small
  <2>4. \A s \in Small(S, n) : s \in Small(S, n + 1)
    <3>1. \A s \in Small(S, n) : Cardinality(s) \in Nat
      BY FS_Subset, FS_CardinalityType DEF Small
    <3> QED BY <2>2, <3>1 DEF Small
  <2>5. \A s \in Small(S, n) : next[s] = iter[s]
    BY <2>1, <2>4 DEF Adds
  <2>6. \A s \in Small(S, n + 1) : s # {} => next[Rest(s)] = iter[Rest(s)]
    BY <2>3, <2>5
  <2>7. Adds(next, f, Small(S, n + 1))
    BY <2>6 DEF Adds
  <2> HIDE DEF next
  <2> QED BY <2>2, <2>7
<1>3. Cardinality(S) \in Nat
  BY FS_CardinalityType
<1> HIDE DEF T
<1>4. Cardinality(S) \in T
  BY <1>1, <1>2, <1>3, SetInduction DEF T
<1>5. Small(S, Cardinality(S)) = SUBSET S
  BY FS_Subset DEF Small
<1> QED BY <1>4, <1>5 DEF T

\* Two of them agree where both are defined on the same values.
LEMMA SumAgrees ==
    ASSUME NEW S1, IsFiniteSet(S1), NEW S2, IsFiniteSet(S2), NEW f, NEW g, NEW i1, NEW i2,
           Adds(i1, f, SUBSET S1), Adds(i2, g, SUBSET S2),
           NEW S, S \subseteq S1, S \subseteq S2, \A x \in S : f[x] = g[x]
    PROVE  i1[S] = i2[S]
<1> DEFINE T == {n \in Nat : \A s \in SUBSET S : Cardinality(s) <= n => i1[s] = i2[s]}
<1>1. IsFiniteSet(S)
  BY FS_Subset
<1>2. \A s \in SUBSET S :
        /\ i1[s] = IF s = {} THEN 0 ELSE f[First(s)] + i1[Rest(s)]
        /\ i2[s] = IF s = {} THEN 0 ELSE g[First(s)] + i2[Rest(s)]
  BY DEF Adds
<1>3. 0 \in T
  <2>1. \A s \in SUBSET S : Cardinality(s) <= 0 => s = {}
    BY <1>1, FS_Subset, FS_EmptySet, FS_CardinalityType
  <2> QED BY <1>2, <2>1
<1>4. ASSUME NEW n \in T PROVE n + 1 \in T
  <2>1. ASSUME NEW s \in SUBSET S, Cardinality(s) <= n + 1 PROVE i1[s] = i2[s]
    <3>1. CASE s = {}
      BY <1>2, <3>1
    <3>2. CASE s # {}
      <4>1. Rest(s) \in SUBSET S /\ Cardinality(Rest(s)) <= n /\ First(s) \in S
        BY <1>1, <2>1, <3>2, FirstRest
      <4>2. i1[Rest(s)] = i2[Rest(s)] /\ f[First(s)] = g[First(s)]
        BY <4>1
      <4> QED BY <1>2, <3>2, <4>2
    <3> QED BY <3>1, <3>2
  <2> QED BY <2>1
<1>5. Cardinality(S) \in T
  <2> HIDE DEF T
  <2>1. Cardinality(S) \in Nat
    BY <1>1, FS_CardinalityType
  <2> QED BY <1>3, <1>4, <2>1, SetInduction DEF T
<1> QED BY <1>1, <1>5, FS_CardinalityType

\* Its values are integers if those of f are.
LEMMA SumInteger ==
    ASSUME NEW S, IsFiniteSet(S), NEW f, NEW iter, Adds(iter, f, SUBSET S),
           \A x \in S : f[x] \in Int
    PROVE  \A s \in SUBSET S : iter[s] \in Int
<1> DEFINE T == {n \in Nat : \A s \in SUBSET S : Cardinality(s) <= n => iter[s] \in Int}
<1>1. \A s \in SUBSET S : iter[s] = IF s = {} THEN 0 ELSE f[First(s)] + iter[Rest(s)]
  BY DEF Adds
<1>2. /\ \A s \in SUBSET S : s = {} => iter[s] = 0
      /\ \A s \in SUBSET S : s # {} => iter[s] = f[First(s)] + iter[Rest(s)]
  BY <1>1
<1>3. 0 \in T
  <2>1. \A s \in SUBSET S : Cardinality(s) <= 0 => s = {}
    BY FS_Subset, FS_EmptySet, FS_CardinalityType
  <2> QED BY <1>2, <2>1
<1>4. ASSUME NEW n \in T PROVE n + 1 \in T
  <2>1. ASSUME NEW s \in SUBSET S, Cardinality(s) <= n + 1 PROVE iter[s] \in Int
    <3>1. CASE s = {}
      BY <1>2, <3>1
    <3>2. CASE s # {}
      <4>1. Rest(s) \in SUBSET S /\ Cardinality(Rest(s)) <= n /\ First(s) \in S
        BY <2>1, <3>2, FirstRest
      <4>2. iter[Rest(s)] \in Int /\ f[First(s)] \in Int
        BY <4>1
      <4> QED BY <1>2, <3>2, <4>2
    <3> QED BY <3>1, <3>2
  <2> QED BY <2>1
<1>5. ASSUME NEW s \in SUBSET S PROVE iter[s] \in Int
  <2> HIDE DEF T
  <2>1. Cardinality(s) \in Nat
    BY FS_Subset, FS_CardinalityType
  <2>2. Cardinality(s) \in T
    BY <1>3, <1>4, <2>1, SetInduction DEF T
  <2> QED BY <2>1, <2>2 DEF T
<1> QED BY <1>5

-----------------------------------------------------------------------------
(* The laws of SumFunctionOnSet.                                           *)

LEMMA SumIsIter ==
    ASSUME NEW S, IsFiniteSet(S), NEW f
    PROVE  \E iter : Adds(iter, f, SUBSET S) /\ SumFunctionOnSet(f, S) = iter[S]
<1> DEFINE iter == CHOOSE iter : Adds(iter, f, SUBSET S)
<1>1. Adds(iter, f, SUBSET S)
  BY SumExists
<1>2. SumFunctionOnSet(f, S) = iter[S]
  BY DEF SumFunctionOnSet, FoldFunctionOnSet, MapThenFoldSet, Adds, First, Rest
<1> QED BY <1>1, <1>2

\* SumFunctionOnSet is any such function's value, for every part of its domain.
LEMMA SumOfPart ==
    ASSUME NEW U, IsFiniteSet(U), NEW f, NEW iter, Adds(iter, f, SUBSET U), NEW S \in SUBSET U
    PROVE  SumFunctionOnSet(f, S) = iter[S]
<1>1. IsFiniteSet(S)
  BY FS_Subset
<1>2. PICK i : Adds(i, f, SUBSET S) /\ SumFunctionOnSet(f, S) = i[S]
  BY <1>1, SumIsIter
<1> QED BY <1>1, <1>2, SumAgrees

\* The laws the proofs use: nothing sums to 0,
LEMMA SumEmpty == ASSUME NEW f PROVE SumFunctionOnSet(f, {}) = 0
<1>1. PICK i : Adds(i, f, SUBSET {}) /\ SumFunctionOnSet(f, {}) = i[{}]
  BY FS_EmptySet, SumIsIter
<1> QED BY <1>1 DEF Adds

\* integers to an integer,
LEMMA SumType ==
    ASSUME NEW S, IsFiniteSet(S), NEW f, \A x \in S : f[x] \in Int
    PROVE  SumFunctionOnSet(f, S) \in Int
<1>1. PICK i : Adds(i, f, SUBSET S) /\ SumFunctionOnSet(f, S) = i[S]
  BY SumIsIter
<1> QED BY <1>1, SumInteger

\* and equal values to equal sums.
LEMMA SumSame ==
    ASSUME NEW S, IsFiniteSet(S), NEW f, NEW g, \A x \in S : f[x] = g[x]
    PROVE  SumFunctionOnSet(f, S) = SumFunctionOnSet(g, S)
<1>1. PICK i : Adds(i, f, SUBSET S) /\ SumFunctionOnSet(f, S) = i[S]
  BY SumIsIter
<1>2. PICK j : Adds(j, g, SUBSET S) /\ SumFunctionOnSet(g, S) = j[S]
  BY SumIsIter
<1> QED BY <1>1, <1>2, SumAgrees

\* The order does not matter: any element may be the one added last.
LEMMA SumAdd ==
    ASSUME NEW S, IsFiniteSet(S), NEW x, x \notin S, NEW f,
           f[x] \in Int, \A y \in S : f[y] \in Int
    PROVE  SumFunctionOnSet(f, S \cup {x}) = SumFunctionOnSet(f, S) + f[x]
<1> DEFINE U == S \cup {x}
<1>1. IsFiniteSet(U) /\ \A y \in U : f[y] \in Int
  BY FS_AddElement
<1> HIDE DEF U
<1>2. PICK iter : Adds(iter, f, SUBSET U)
  BY <1>1, SumExists
<1>3. \A s \in SUBSET U : iter[s] \in Int
  BY <1>1, <1>2, SumInteger
<1>4. /\ iter[{}] = 0
      /\ \A s \in SUBSET U : s # {} => iter[s] = f[First(s)] + iter[Rest(s)]
  BY <1>2 DEF Adds
<1> DEFINE T == {n \in Nat : \A s \in SUBSET U : \A y \in U \ s :
                                Cardinality(s) <= n => iter[s \cup {y}] = iter[s] + f[y]}
<1>5. ASSUME NEW s \in SUBSET U, NEW y \in U \ s, First(s \cup {y}) = y
      PROVE  iter[s \cup {y}] = iter[s] + f[y]
  <2>1. Rest(s \cup {y}) = s /\ s \cup {y} \in SUBSET U /\ s \cup {y} # {}
    BY <1>5 DEF Rest
  <2>2. iter[s \cup {y}] = f[y] + iter[s]
    <3> DEFINE w == s \cup {y}
    <3>1. First(w) = y /\ Rest(w) = s /\ w \in SUBSET U /\ w # {}
      BY <1>5, <2>1
    <3> HIDE DEF w
    <3>2. iter[w] = f[y] + iter[s]
      BY <1>4, <3>1
    <3> QED BY <3>2 DEF w
  <2>3. f[y] \in Int /\ iter[s] \in Int
    BY <1>1, <1>3
  <2> QED BY <2>2, <2>3
<1>6. 0 \in T
  <2>1. ASSUME NEW s \in SUBSET U, NEW y \in U \ s, Cardinality(s) <= 0
        PROVE  First(s \cup {y}) = y
    <3>1. s = {}
      BY <1>1, <2>1, FS_Subset, FS_EmptySet, FS_CardinalityType
    <3> QED BY <3>1 DEF First
  <2> QED BY <1>5, <2>1
<1>7. ASSUME NEW n \in T PROVE n + 1 \in T
  <2>1. ASSUME NEW s \in SUBSET U, NEW y \in U \ s, Cardinality(s) <= n + 1
        PROVE  iter[s \cup {y}] = iter[s] + f[y]
    <3> DEFINE c == First(s \cup {y})
    <3>1. c \in s \cup {y} /\ iter[s \cup {y}] = f[c] + iter[Rest(s \cup {y})]
      BY <1>4, <2>1 DEF First
    <3>2. CASE c = y
      BY <1>5, <3>2
    <3>3. CASE c # y
      <4> DEFINE r == s \ {c}
      <4>0. Rest(s \cup {y}) = (s \cup {y}) \ {c}
        BY DEF Rest
      <4>1. /\ c \in s /\ Rest(s \cup {y}) = r \cup {y} /\ s = r \cup {c}
            /\ r \in SUBSET U /\ y \in U \ r /\ c \in U \ r
        <5> HIDE DEF c
        <5>1. c \in s
          BY <3>1, <3>3
        <5> QED BY <2>1, <3>3, <4>0, <5>1
      <4>2. Cardinality(r) <= n
        <5>1. IsFiniteSet(s)
          BY <1>1, FS_Subset
        <5> HIDE DEF c
        <5>2. Cardinality(s) \in Nat /\ Cardinality(s \ {c}) = Cardinality(s) - 1
          BY <4>1, <5>1, FS_CardinalityType, FS_RemoveElement
        <5>3. Cardinality(r) \in Nat
          BY <5>1, FS_RemoveElement, FS_CardinalityType
        <5> QED BY <2>1, <5>2, <5>3
      <4> HIDE DEF c, r
      <4>3. iter[r \cup {y}] = iter[r] + f[y] /\ iter[r \cup {c}] = iter[r] + f[c]
        BY <4>1, <4>2
      <4>4. iter[r] \in Int /\ f[y] \in Int /\ f[c] \in Int
        BY <1>1, <1>3, <4>1
      <4>5. iter[s \cup {y}] = f[c] + iter[r \cup {y}]
        BY <3>1, <4>1 DEF c
      <4>6. iter[s] = iter[r] + f[c]
        BY <4>1, <4>3
      <4> QED BY <4>3, <4>4, <4>5, <4>6
    <3> QED BY <3>2, <3>3
  <2> QED BY <2>1
<1>8. Cardinality(S) \in T
  <2> HIDE DEF T
  <2>1. Cardinality(S) \in Nat
    BY FS_CardinalityType
  <2> QED BY <1>6, <1>7, <2>1, SetInduction DEF T
<1>9. iter[S \cup {x}] = iter[S] + f[x]
  <2>1. S \in SUBSET U /\ x \in U \ S
    BY DEF U
  <2> QED BY <1>8, <2>1, FS_CardinalityType
<1>10. SumFunctionOnSet(f, S) = iter[S] /\ SumFunctionOnSet(f, U) = iter[U]
  <2>1. S \in SUBSET U /\ U \in SUBSET U
    BY DEF U
  <2> QED BY <1>1, <1>2, <2>1, SumOfPart
<1> QED BY <1>9, <1>10 DEF U

\* Disjoint sets add up.
LEMMA SumUnion ==
    ASSUME NEW A, IsFiniteSet(A), NEW B, IsFiniteSet(B), A \cap B = {}, NEW f,
           \A x \in A \cup B : f[x] \in Int
    PROVE  SumFunctionOnSet(f, A \cup B) = SumFunctionOnSet(f, A) + SumFunctionOnSet(f, B)
<1> DEFINE Law(b) == SumFunctionOnSet(f, A \cup b) = SumFunctionOnSet(f, A) + SumFunctionOnSet(f, b)
           T == {n \in Nat : \A b \in SUBSET B : Cardinality(b) <= n => Law(b)}
<1>1. SumFunctionOnSet(f, A) \in Int
  BY SumType
<1>2. Law({})
  BY <1>1, SumEmpty
<1>3. ASSUME NEW b \in SUBSET B, NEW x \in B \ b, Law(b) PROVE Law(b \cup {x})
  <2>1. IsFiniteSet(b) /\ IsFiniteSet(A \cup b)
    BY FS_Subset, FS_Union
  <2>2. SumFunctionOnSet(f, b \cup {x}) = SumFunctionOnSet(f, b) + f[x]
    BY <2>1, SumAdd
  <2>3. SumFunctionOnSet(f, (A \cup b) \cup {x}) = SumFunctionOnSet(f, A \cup b) + f[x]
    BY <2>1, SumAdd
  <2>4. SumFunctionOnSet(f, b) \in Int /\ f[x] \in Int
    BY <2>1, SumType
  <2>5. A \cup (b \cup {x}) = (A \cup b) \cup {x}
    OBVIOUS
  <2> DEFINE a == SumFunctionOnSet(f, A)
             l == SumFunctionOnSet(f, b)
             ab == SumFunctionOnSet(f, A \cup b)
  <2>6. ab = a + l /\ a \in Int /\ l \in Int
    BY <1>1, <1>3, <2>4
  <2>7. /\ SumFunctionOnSet(f, b \cup {x}) = l + f[x]
        /\ SumFunctionOnSet(f, A \cup (b \cup {x})) = ab + f[x]
    BY <2>2, <2>3, <2>5
  <2>8. (a + l) + f[x] = a + (l + f[x])
    <3> HIDE DEF a, l
    <3> QED BY <2>4, <2>6
  <2>9. SumFunctionOnSet(f, A \cup (b \cup {x})) = a + (l + f[x])
    <3> HIDE DEF a, l, ab
    <3> QED BY <2>6, <2>7, <2>8
  <2> HIDE DEF l, ab
  <2> QED BY <2>7, <2>9
<1>4. 0 \in T
  <2>1. \A b \in SUBSET B : Cardinality(b) <= 0 => b = {}
    BY FS_Subset, FS_EmptySet, FS_CardinalityType
  <2> HIDE DEF Law
  <2> QED BY <1>2, <2>1
<1>5. ASSUME NEW n \in T PROVE n + 1 \in T
  <2>1. ASSUME NEW b \in SUBSET B, Cardinality(b) <= n + 1 PROVE Law(b)
    <3>1. CASE b = {}
      BY <1>2, <3>1
    <3>2. CASE b # {}
      <4>1. PICK x \in b : TRUE
        BY <3>2
      <4> DEFINE r == b \ {x}
      <4>2. b = r \cup {x} /\ r \in SUBSET B /\ x \in B \ r
        BY <4>1
      <4>3. Cardinality(r) <= n
        <5>1. IsFiniteSet(b)
          BY FS_Subset
        <5>2. Cardinality(b) \in Nat /\ Cardinality(r) = Cardinality(b) - 1
          BY <4>1, <5>1, FS_CardinalityType, FS_RemoveElement
        <5> QED BY <2>1, <5>2
      <4> HIDE DEF r, Law
      <4> QED BY <1>3, <4>2, <4>3
    <3> QED BY <3>1, <3>2
  <2> HIDE DEF Law
  <2> QED BY <2>1
<1>6. Cardinality(B) \in T
  <2> HIDE DEF T
  <2>1. Cardinality(B) \in Nat
    BY FS_CardinalityType
  <2> QED BY <1>4, <1>5, <2>1, SetInduction DEF T
<1> QED BY <1>6, FS_CardinalityType

\* Natural numbers sum to one,
LEMMA SumNonNegative ==
    ASSUME NEW S, IsFiniteSet(S), NEW f, \A x \in S : f[x] \in Nat
    PROVE  SumFunctionOnSet(f, S) \in Nat
<1> DEFINE T == {n \in Nat : \A s \in SUBSET S :
                                Cardinality(s) <= n => SumFunctionOnSet(f, s) \in Nat}
<1>1. 0 \in T
  <2>1. \A s \in SUBSET S : Cardinality(s) <= 0 => s = {}
    BY FS_Subset, FS_EmptySet, FS_CardinalityType
  <2> QED BY <2>1, SumEmpty
<1>2. ASSUME NEW n \in T PROVE n + 1 \in T
  <2>1. ASSUME NEW s \in SUBSET S, Cardinality(s) <= n + 1, s # {}
        PROVE  SumFunctionOnSet(f, s) \in Nat
    <3>1. PICK x \in s : TRUE
      BY <2>1
    <3> DEFINE r == s \ {x}
    <3>2. IsFiniteSet(s) /\ s = r \cup {x} /\ x \notin r /\ r \in SUBSET S /\ x \in S
      BY <3>1, FS_Subset
    <3>3. IsFiniteSet(r) /\ Cardinality(r) <= n
      <4>1. Cardinality(s) \in Nat /\ Cardinality(r) = Cardinality(s) - 1 /\ IsFiniteSet(r)
        BY <3>1, <3>2, FS_CardinalityType, FS_RemoveElement
      <4> QED BY <2>1, <4>1
    <3>4. SumFunctionOnSet(f, r) \in Nat /\ f[x] \in Nat
      BY <3>2, <3>3
    <3> HIDE DEF r
    <3>5. f[x] \in Int /\ \A y \in r : f[y] \in Int
      BY <3>2
    <3>6. SumFunctionOnSet(f, r \cup {x}) = SumFunctionOnSet(f, r) + f[x]
      BY <3>2, <3>3, <3>5, SumAdd
    <3> QED BY <3>2, <3>4, <3>6
  <2>2. SumFunctionOnSet(f, {}) = 0
    BY SumEmpty
  <2> QED BY <2>1, <2>2
<1>3. Cardinality(S) \in T
  <2> HIDE DEF T
  <2>1. Cardinality(S) \in Nat
    BY FS_CardinalityType
  <2> QED BY <1>1, <1>2, <2>1, SetInduction DEF T
<1> QED BY <1>3, FS_CardinalityType

\* and a part of them to no more.
LEMMA SumMonotone ==
    ASSUME NEW S, IsFiniteSet(S), NEW T \in SUBSET S, NEW f, \A x \in S : f[x] \in Nat
    PROVE  SumFunctionOnSet(f, T) <= SumFunctionOnSet(f, S)
<1>1. IsFiniteSet(T) /\ IsFiniteSet(S \ T) /\ S = T \cup (S \ T)
  BY FS_Subset
<1>2. SumFunctionOnSet(f, T) \in Nat /\ SumFunctionOnSet(f, S \ T) \in Nat
  BY <1>1, SumNonNegative
<1>3. SumFunctionOnSet(f, T \cup (S \ T)) = SumFunctionOnSet(f, T) + SumFunctionOnSet(f, S \ T)
  BY <1>1, SumUnion
<1>4. SumFunctionOnSet(f, S) = SumFunctionOnSet(f, T) + SumFunctionOnSet(f, S \ T)
  BY <1>1, <1>3
<1> QED BY <1>2, <1>4
=============================================================================
