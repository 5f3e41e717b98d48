--------------------------- MODULE CountingLemmas ---------------------------
(***************************************************************************)
(* What the proofs need to know of counters.                               *)
(*                                                                         *)
(* Positions are where a sequence holds a value: the removals that are     *)
(* queued in a pool, which the owners count in _finishedCount.             *)
(*                                                                         *)
(* SumFunctionOnSet of FiniteSetsExt takes the elements in an order of its *)
(* own, so that an element can be taken out of a sum has to be proved; it  *)
(* is _dispatchCount, the sum of the invocations that are not over.        *)
(***************************************************************************)
EXTENDS Integers, Sequences, FiniteSets, FiniteSetsExt, TLAPS, FiniteSetTheorems,
        WellFoundedInduction

\* A set of naturals that is not empty has a least element.
LEMMA LeastNatural ==
    ASSUME NEW S \in SUBSET Nat, S # {}
    PROVE  \E n \in S : \A m \in S : n <= m
<1> DEFINE R == {p \in Nat \X Nat : p[1] < p[2]}
<1>1. IsWellFoundedOn(R, Nat)
  BY NatLessThanWellFounded DEF OpToRel
<1> HIDE DEF R
<1>2. PICK x \in S : \A y \in S : ~ (<<y, x>> \in R)
  BY <1>1, WFMin
<1>3. ASSUME NEW y \in S PROVE x <= y
  <2>1. x \in Nat /\ y \in Nat /\ <<y, x>> \in Nat \X Nat
    OBVIOUS
  <2>2. ~ (y < x)
    <3>1. SUFFICES ASSUME y < x PROVE <<y, x>> \in R
      BY <1>2
    <3>2. QED
      BY <2>1, <3>1 DEF R
  <2>3. QED
    BY <2>1, <2>2
<1>4. QED
  BY <1>3

-----------------------------------------------------------------------------
(* The positions of a value in a sequence.                                 *)

Positions(s, x) == {i \in 1..Len(s) : s[i] = x}

\* They can be counted.
LEMMA PositionsFinite ==
    ASSUME NEW S, NEW s \in Seq(S), NEW x
    PROVE  IsFiniteSet(Positions(s, x)) /\ Cardinality(Positions(s, x)) \in Nat
<1>1. Len(s) \in Nat
  OBVIOUS
<1>2. IsFiniteSet(1..Len(s))
  BY <1>1, FS_Interval
<1>3. QED
  BY <1>2, FS_Subset, FS_CardinalityType DEF Positions

\* An element is appended.
LEMMA PositionsAppend ==
    ASSUME NEW S, NEW s \in Seq(S), NEW e \in S, NEW x
    PROVE  Cardinality(Positions(Append(s, e), x)) =
              Cardinality(Positions(s, x)) + (IF e = x THEN 1 ELSE 0)
<1>1. /\ Len(s) \in Nat /\ Len(Append(s, e)) = Len(s) + 1
      /\ \A i \in 1..(Len(s) + 1) : Append(s, e)[i] = IF i <= Len(s) THEN s[i] ELSE e
  OBVIOUS
<1>2. CASE e = x
  <2>1. Positions(Append(s, e), x) = Positions(s, x) \cup {Len(s) + 1}
    BY <1>1, <1>2 DEF Positions
  <2>2. Len(s) + 1 \notin Positions(s, x)
    BY <1>1 DEF Positions
  <2>3. QED
    BY <1>2, <2>1, <2>2, PositionsFinite, FS_AddElement
<1>3. CASE e # x
  <2>1. Positions(Append(s, e), x) = Positions(s, x)
    BY <1>1, <1>3 DEF Positions
  <2>2. QED
    BY <1>3, <2>1, PositionsFinite
<1>4. QED
  BY <1>2, <1>3

\* The first element is taken.
LEMMA PositionsTail ==
    ASSUME NEW S, NEW s \in Seq(S), s # <<>>, NEW x
    PROVE  Cardinality(Positions(s, x)) =
              Cardinality(Positions(Tail(s), x)) + (IF Head(s) = x THEN 1 ELSE 0)
<1>1. /\ Tail(s) \in Seq(S) /\ Head(s) = s[1]
      /\ Len(s) \in Nat /\ Len(s) > 0 /\ Len(Tail(s)) = Len(s) - 1
      /\ \A i \in 1..Len(Tail(s)) : Tail(s)[i] = s[i + 1]
  OBVIOUS
<1> DEFINE P == Positions(Tail(s), x)
           Q == Positions(s, x) \ {1}
<1>2. Q = {i \in 2..Len(s) : s[i] = x}
  BY <1>1 DEF Positions
<1>3. Cardinality(Q) = Cardinality(P)
  <2> DEFINE f == [i \in P |-> i + 1]
  <2>1. \A i \in P : i + 1 \in Q
    BY <1>1, <1>2 DEF Positions
  <2>2. \A j \in Q : j - 1 \in P /\ (j - 1) + 1 = j
    BY <1>1, <1>2 DEF Positions
  <2>3. \A i, j \in P : f[i] = f[j] => i = j
    BY DEF Positions
  <2>4. f \in Bijection(P, Q)
    <3> HIDE DEF P, Q
    <3>1. QED
      BY <2>1, <2>2, <2>3 DEF Bijection, Injection, Surjection, IsInjective
  <2>5. ExistsBijection(P, Q)
    BY <2>4 DEF ExistsBijection
  <2>6. QED
    BY <2>5, <1>1, PositionsFinite, FS_Bijection
<1>4. 1 \in Positions(s, x) <=> Head(s) = x
  BY <1>1 DEF Positions
<1>5. Cardinality(Q) =
         IF 1 \in Positions(s, x) THEN Cardinality(Positions(s, x)) - 1
         ELSE Cardinality(Positions(s, x))
  BY PositionsFinite, FS_RemoveElement
<1>6. QED
  BY <1>3, <1>4, <1>5, PositionsFinite
-----------------------------------------------------------------------------
(* Sums over the elements of a set.                                        *)

\* g computes the sums of f over the subsets of S of at most n elements, one
\* chosen element at a time.
Pick(s) == CHOOSE x \in s : TRUE
Body(f, g, s) == IF s = {} THEN 0 ELSE f[Pick(s)] + g[s \ {Pick(s)}]
UpTo(S, n) == {s \in SUBSET S : Cardinality(s) <= n}
Sums(g, f, S, n) == g = [s \in UpTo(S, n) |-> Body(f, g, s)]

\* What is picked from a set is in it.
LEMMA PickIn == ASSUME NEW s, s # {} PROVE Pick(s) \in s
  BY DEF Pick

\* There is such a g, by induction on n.
LEMMA SumsExist ==
    ASSUME NEW S, IsFiniteSet(S), NEW f, NEW n \in Nat
    PROVE  \E g : Sums(g, f, S, n)
<1> DEFINE Bad == {m \in Nat : ~ \E g : Sums(g, f, S, m)}
<1>1. SUFFICES ASSUME Bad # {} PROVE FALSE
  OBVIOUS
<1>2. PICK m \in Bad : \A k \in Bad : m <= k
  BY <1>1, LeastNatural
<1>3. CASE m = 0
  <2>1. UpTo(S, 0) = {{}}
    <3>1. \A s \in SUBSET S : IsFiniteSet(s) /\ Cardinality(s) \in Nat
      BY FS_Subset, FS_CardinalityType
    <3>2. \A s \in SUBSET S : Cardinality(s) <= 0 <=> s = {}
      BY <3>1, FS_EmptySet
    <3>3. QED
      BY <3>2 DEF UpTo
  <2>2. Sums([s \in UpTo(S, 0) |-> 0], f, S, 0)
    BY <2>1 DEF Sums, Body
  <2>3. QED
    BY <2>2, <1>2, <1>3
<1>4. CASE m # 0
  <2>1. m - 1 \in Nat /\ m - 1 \notin Bad
    BY <1>2, <1>4
  <2>2. PICK g : Sums(g, f, S, m - 1)
    BY <2>1
  <2> DEFINE h == [s \in UpTo(S, m) |-> Body(f, g, s)]
  <2>3. ASSUME NEW s \in UpTo(S, m), s # {}
        PROVE  s \ {Pick(s)} \in UpTo(S, m - 1)
    <3>1. IsFiniteSet(s) /\ Cardinality(s) \in Nat /\ Pick(s) \in s
      BY <2>3, FS_Subset, FS_CardinalityType, PickIn DEF UpTo
    <3>2. Cardinality(s \ {Pick(s)}) = Cardinality(s) - 1
      BY <3>1, FS_RemoveElement
    <3>3. QED
      BY <3>1, <3>2, <1>2 DEF UpTo
  <2>4. ASSUME NEW s \in UpTo(S, m - 1) PROVE s \in UpTo(S, m) /\ h[s] = g[s]
    <3>1. s \in UpTo(S, m)
      <4>1. IsFiniteSet(s) /\ Cardinality(s) \in Nat
        BY FS_Subset, FS_CardinalityType DEF UpTo
      <4>2. QED
        BY <4>1, <1>2 DEF UpTo
    <3>2. g[s] = Body(f, g, s)
      BY <2>2 DEF Sums
    <3>3. QED
      BY <3>1, <3>2
  <2>5. ASSUME NEW s \in UpTo(S, m) PROVE Body(f, g, s) = Body(f, h, s)
    BY <2>3, <2>4 DEF Body
  <2>6. h = [s \in UpTo(S, m) |-> Body(f, h, s)]
    <3> HIDE DEF h
    <3>1. \A s \in UpTo(S, m) : Body(f, g, s) = Body(f, h, s)
      BY <2>5
    <3>2. [s \in UpTo(S, m) |-> Body(f, g, s)] = [s \in UpTo(S, m) |-> Body(f, h, s)]
      BY <3>1
    <3>3. QED
      BY <3>2 DEF h
  <2>7. Sums(h, f, S, m)
    BY <2>6 DEF Sums
  <2>8. QED
    BY <2>7, <1>2
<1>5. QED
  BY <1>3, <1>4

\* The fold of the library is such a g.
LEMMA SumUnfold ==
    ASSUME NEW S, IsFiniteSet(S), NEW f
    PROVE  \E g : /\ g = [s \in SUBSET S |-> Body(f, g, s)]
                  /\ SumFunctionOnSet(f, S) = g[S]
<1> DEFINE g == CHOOSE g : g = [s \in SUBSET S |-> Body(f, g, s)]
<1>1. Cardinality(S) \in Nat /\ UpTo(S, Cardinality(S)) = SUBSET S
  BY FS_CardinalityType, FS_Subset DEF UpTo
<1>2. \E h : h = [s \in SUBSET S |-> Body(f, h, s)]
  <2>1. PICK h : Sums(h, f, S, Cardinality(S))
    BY <1>1, SumsExist
  <2>2. h = [s \in SUBSET S |-> Body(f, h, s)]
    BY <2>1, <1>1 DEF Sums
  <2>3. QED
    BY <2>2
<1>3. g = [s \in SUBSET S |-> Body(f, g, s)]
  BY <1>2
<1>4. SumFunctionOnSet(f, S) = g[S]
  BY Zenon DEF SumFunctionOnSet, FoldFunctionOnSet, MapThenFoldSet, Body, Pick
<1>5. QED
  <2> HIDE DEF g
  <2>1. QED BY <1>3, <1>4

\* Induction over the subsets of a finite set: what fails for one of them fails
\* for one that stays without it whichever element is taken away.
LEMMA MinimalSet ==
    ASSUME NEW S, IsFiniteSet(S), NEW B \in SUBSET (SUBSET S), B # {}
    PROVE  \E s \in B : \A x \in s : s \ {x} \notin B
<1> DEFINE Sizes == {Cardinality(s) : s \in B}
<1>1. \A s \in B : IsFiniteSet(s) /\ Cardinality(s) \in Nat
  BY FS_Subset, FS_CardinalityType
<1>2. PICK n \in Sizes : \A m \in Sizes : n <= m
  <2>1. Sizes \in SUBSET Nat /\ Sizes # {}
    BY <1>1
  <2>2. QED
    BY <2>1, LeastNatural
<1>3. PICK s \in B : n = Cardinality(s)
  BY <1>2
<1>4. ASSUME NEW x \in s, s \ {x} \in B PROVE FALSE
  <2>1. Cardinality(s \ {x}) = Cardinality(s) - 1
    BY <1>1, <1>4, FS_RemoveElement
  <2>2. Cardinality(s) <= Cardinality(s \ {x})
    BY <1>2, <1>3, <1>4
  <2>3. QED
    BY <2>1, <2>2, <1>1
<1>5. QED
  BY <1>4

\* The sum over a set is the sum over what is left without the picked element,
\* and that element.
LEMMA SumBody ==
    ASSUME NEW S, IsFiniteSet(S), NEW f
    PROVE  /\ SumFunctionOnSet(f, {}) = 0
           /\ S # {} => SumFunctionOnSet(f, S)
                          = f[Pick(S)] + SumFunctionOnSet(f, S \ {Pick(S)})
<1>1. SumFunctionOnSet(f, {}) = 0
  <2>1. PICK g : g = [s \in SUBSET {} |-> Body(f, g, s)] /\ SumFunctionOnSet(f, {}) = g[{}]
    BY FS_EmptySet, SumUnfold
  <2>2. QED
    BY <2>1 DEF Body
<1>2. ASSUME S # {}
      PROVE  SumFunctionOnSet(f, S) = f[Pick(S)] + SumFunctionOnSet(f, S \ {Pick(S)})
  <2> DEFINE T == S \ {Pick(S)}
  <2>1. IsFiniteSet(T) /\ T \in SUBSET S
    BY FS_RemoveElement
  <2>2. PICK g : g = [s \in SUBSET S |-> Body(f, g, s)] /\ SumFunctionOnSet(f, S) = g[S]
    BY SumUnfold
  <2>3. PICK h : h = [s \in SUBSET T |-> Body(f, h, s)] /\ SumFunctionOnSet(f, T) = h[T]
    BY <2>1, SumUnfold
  <2> HIDE DEF T
  <2> DEFINE Bad == {s \in SUBSET T : g[s] # h[s]}
  <2>4. Bad = {}
    <3>1. SUFFICES ASSUME Bad # {} PROVE FALSE
      OBVIOUS
    <3>2. PICK s \in Bad : \A x \in s : s \ {x} \notin Bad
      BY <3>1, <2>1, MinimalSet
    <3>3. s \in SUBSET T /\ s \in SUBSET S
      BY <2>1
    <3>4. g[s] = Body(f, g, s)
      BY <2>2, <3>3
    <3>5. h[s] = Body(f, h, s)
      BY <2>3, <3>3
    <3>6. s # {} => g[s \ {Pick(s)}] = h[s \ {Pick(s)}]
      BY <3>2, <3>3, PickIn
    <3>7. QED
      BY <3>2, <3>4, <3>5, <3>6 DEF Body
  <2>5. g[T] = h[T]
    BY <2>4
  <2>6. g[S] = f[Pick(S)] + g[T]
    <3>1. S \in SUBSET S
      OBVIOUS
    <3>2. g[S] = Body(f, g, S)
      BY <2>2, <3>1
    <3>3. QED
      BY <3>2, <1>2 DEF Body, T
  <2>7. QED
    BY <2>2, <2>3, <2>5, <2>6 DEF T
<1>3. QED
  BY <1>1, <1>2

\* Any element may be taken out of a sum, and sums are integers.
LEMMA SumRemove ==
    ASSUME NEW S, IsFiniteSet(S), NEW f, \A x \in S : f[x] \in Int
    PROVE  /\ SumFunctionOnSet(f, S) \in Int
           /\ \A x \in S : SumFunctionOnSet(f, S)
                             = f[x] + SumFunctionOnSet(f, S \ {x})
<1> DEFINE Sum(s) == SumFunctionOnSet(f, s)
<1>0. \A s \in SUBSET S : IsFiniteSet(s)
  BY FS_Subset
<1>1. \A s \in SUBSET S : Sum(s) \in Int
  <2> DEFINE Bad == {s \in SUBSET S : Sum(s) \notin Int}
  <2>1. SUFFICES ASSUME Bad # {} PROVE FALSE
    OBVIOUS
  <2>2. PICK s \in Bad : \A x \in s : s \ {x} \notin Bad
    BY <2>1, MinimalSet
  <2>3. s \in SUBSET S /\ IsFiniteSet(s) /\ Sum(s) \notin Int
    BY <1>0
  <2>4. s # {}
    <3>1. Sum({}) = 0
      BY SumBody
    <3>2. QED
      BY <3>1, <2>3
  <2>5. Pick(s) \in s /\ Pick(s) \in S
    BY <2>3, <2>4, PickIn
  <2>6. Sum(s) = f[Pick(s)] + Sum(s \ {Pick(s)})
    BY <2>3, <2>4, SumBody
  <2>7. Sum(s \ {Pick(s)}) \in Int
    BY <2>2, <2>3, <2>5
  <2> HIDE DEF Sum
  <2>8. QED
    BY <2>3, <2>5, <2>6, <2>7
<1>2. \A s \in SUBSET S : \A x \in s : Sum(s) = f[x] + Sum(s \ {x})
  <2> DEFINE Bad == {s \in SUBSET S : ~ \A x \in s : Sum(s) = f[x] + Sum(s \ {x})}
  <2>1. SUFFICES ASSUME Bad # {} PROVE FALSE
    OBVIOUS
  <2>2. PICK s \in Bad : \A x \in s : s \ {x} \notin Bad
    BY <2>1, MinimalSet
  <2>3. s \in SUBSET S /\ IsFiniteSet(s)
    BY <1>0
  <2>4. PICK x \in s : Sum(s) # f[x] + Sum(s \ {x})
    BY <2>2
  <2> DEFINE y == Pick(s)
  <2>5. y \in s
    BY <2>4, PickIn
  <2>6. Sum(s) = f[y] + Sum(s \ {y})
    BY <2>3, <2>4, SumBody
  <2> HIDE DEF y
  <2>7. x # y /\ x \in s \ {y} /\ y \in s \ {x}
    BY <2>4, <2>5, <2>6
  <2>8. Sum(s \ {y}) = f[x] + Sum((s \ {y}) \ {x})
    BY <2>2, <2>3, <2>5, <2>7
  <2>9. Sum(s \ {x}) = f[y] + Sum((s \ {x}) \ {y})
    BY <2>2, <2>3, <2>4, <2>7
  <2>10. (s \ {x}) \ {y} = (s \ {y}) \ {x} /\ (s \ {x}) \ {y} \in SUBSET S
    BY <2>3
  <2> DEFINE rest == Sum((s \ {x}) \ {y})
  <2>11. f[x] \in Int /\ f[y] \in Int /\ rest \in Int
    BY <2>3, <2>4, <2>5, <2>10, <1>1
  <2>12. Sum(s) = f[y] + (f[x] + rest) /\ Sum(s \ {x}) = f[y] + rest
    BY <2>6, <2>8, <2>9, <2>10
  <2> HIDE DEF Sum, rest
  <2>13. QED
    BY <2>4, <2>11, <2>12
<1>3. QED
  BY <1>1, <1>2

\* Functions that agree on a set have the same sum over it.
LEMMA SumSame ==
    ASSUME NEW S, IsFiniteSet(S), NEW f, NEW g, \A x \in S : f[x] = g[x]
    PROVE  SumFunctionOnSet(f, S) = SumFunctionOnSet(g, S)
<1> DEFINE Bad == {s \in SUBSET S : SumFunctionOnSet(f, s) # SumFunctionOnSet(g, s)}
<1>1. SUFFICES ASSUME Bad # {} PROVE FALSE
  OBVIOUS
<1>2. PICK s \in Bad : \A x \in s : s \ {x} \notin Bad
  BY <1>1, MinimalSet
<1>3. s \in SUBSET S /\ IsFiniteSet(s) /\ SumFunctionOnSet(f, s) # SumFunctionOnSet(g, s)
  BY <1>2, FS_Subset
<1>4. s # {}
  BY <1>3, SumBody
<1>5. Pick(s) \in s
  BY <1>4, PickIn
<1>6. SumFunctionOnSet(f, s \ {Pick(s)}) = SumFunctionOnSet(g, s \ {Pick(s)})
  BY <1>2, <1>3, <1>5
<1>7. f[Pick(s)] = g[Pick(s)]
  BY <1>3, <1>5
<1>8. QED
  BY <1>3, <1>4, <1>6, <1>7, SumBody

\* A sum of positive numbers is not negative, and is 0 over no set but {}.
LEMMA SumPositive ==
    ASSUME NEW S, IsFiniteSet(S), NEW f, \A x \in S : f[x] \in Nat \ {0}
    PROVE  /\ SumFunctionOnSet(f, S) \in Nat
           /\ SumFunctionOnSet(f, S) = 0 <=> S = {}
<1> DEFINE Sum(s) == SumFunctionOnSet(f, s)
<1> DEFINE Bad == {s \in SUBSET S : ~ (Sum(s) \in Nat /\ (Sum(s) = 0 <=> s = {}))}
<1>1. SUFFICES ASSUME Bad # {} PROVE FALSE
  OBVIOUS
<1>2. PICK s \in Bad : \A x \in s : s \ {x} \notin Bad
  BY <1>1, MinimalSet
<1>3. /\ s \in SUBSET S /\ IsFiniteSet(s)
      /\ ~ (Sum(s) \in Nat /\ (Sum(s) = 0 <=> s = {}))
  BY <1>2, FS_Subset
<1>4. s # {}
  <2>1. Sum({}) = 0
    BY SumBody
  <2>2. QED
    BY <2>1, <1>3
<1>5. Pick(s) \in s
  BY <1>4, PickIn
<1>6. Sum(s \ {Pick(s)}) \in Nat
  BY <1>2, <1>3, <1>5
<1>7. Sum(s) = f[Pick(s)] + Sum(s \ {Pick(s)})
  BY <1>3, <1>4, SumBody
<1>8. f[Pick(s)] \in Nat \ {0}
  BY <1>3, <1>5
<1> HIDE DEF Sum
<1>9. QED
  BY <1>3, <1>4, <1>6, <1>7, <1>8

\* A sum after one of its terms has changed, come or gone.
LEMMA SumChange ==
    ASSUME NEW S, IsFiniteSet(S), NEW f, \A y \in S : f[y] \in Int,
           NEW T, IsFiniteSet(T), NEW g, \A y \in T : g[y] \in Int,
           NEW x, S \ {x} = T \ {x}, \A y \in S \ {x} : f[y] = g[y]
    PROVE  SumFunctionOnSet(g, T) =
              SumFunctionOnSet(f, S) - (IF x \in S THEN f[x] ELSE 0)
                                     + (IF x \in T THEN g[x] ELSE 0)
<1> DEFINE rest == SumFunctionOnSet(f, S \ {x})
<1>1. IsFiniteSet(S \ {x}) /\ (x \notin S => S \ {x} = S) /\ (x \notin T => T \ {x} = T)
  BY FS_Subset
<1>2. rest \in Int
  BY <1>1, SumRemove
<1>3. rest = SumFunctionOnSet(g, T \ {x})
  BY <1>1, SumSame
<1>4. SumFunctionOnSet(f, S) = rest + (IF x \in S THEN f[x] ELSE 0)
  <2>1. CASE x \in S
    <3>1. SumFunctionOnSet(f, S) = f[x] + rest /\ f[x] \in Int
      BY <2>1, SumRemove
    <3> HIDE DEF rest
    <3>2. QED
      BY <1>2, <2>1, <3>1
  <2>2. CASE x \notin S
    <3>1. SumFunctionOnSet(f, S) = rest
      BY <1>1, <2>2
    <3> HIDE DEF rest
    <3>2. QED
      BY <1>2, <2>2, <3>1
  <2>3. QED
    BY <2>1, <2>2
<1>5. SumFunctionOnSet(g, T) = rest + (IF x \in T THEN g[x] ELSE 0)
  <2>1. CASE x \in T
    <3>1. SumFunctionOnSet(g, T) = g[x] + rest /\ g[x] \in Int
      BY <1>3, <2>1, SumRemove
    <3> HIDE DEF rest
    <3>2. QED
      BY <1>2, <2>1, <3>1
  <2>2. CASE x \notin T
    <3>1. SumFunctionOnSet(g, T) = rest
      BY <1>1, <1>3, <2>2
    <3> HIDE DEF rest
    <3>2. QED
      BY <1>2, <2>2, <3>1
  <2>3. QED
    BY <2>1, <2>2
<1>6. (IF x \in S THEN f[x] ELSE 0) \in Int /\ (IF x \in T THEN g[x] ELSE 0) \in Int
  OBVIOUS
<1> HIDE DEF rest
<1>7. QED
  BY <1>2, <1>4, <1>5, <1>6
=============================================================================
