---------------------------- MODULE SumTheorems ----------------------------
(***************************************************************************)
(* Facts about SumFunctionOnSet(f, S), the sum of f[x] over a finite set   *)
(* S, which the books of every component are kept with: how it changes     *)
(* when an element or a value of f does.  The library defines the sum by   *)
(* taking the elements in the order in which CHOOSE picks them.  Also the  *)
(* induction these facts rest on, and that recursive definitions have a    *)
(* value.                                                                  *)
(***************************************************************************)
EXTENDS Integers, FiniteSets, Functions, FiniteSetTheorems,
        WellFoundedInduction, TLAPS

---------------------------------------------------------------------------
(* Induction, for sets of numbers and sets of subsets instead of          *)
(* predicates.                                                             *)

\* A set of numbers that has 0 and the successor of each of its elements has
\* every natural number.
LEMMA NatInduct ==
  ASSUME NEW X, 0 \in X, \A n \in Nat : n \in X => n + 1 \in X
  PROVE  Nat \subseteq X
<1> SUFFICES ASSUME NEW k \in Nat, k \notin X PROVE FALSE
  OBVIOUS
<1>1. PICK x \in Nat \ X : \A y \in Nat \ X : ~(<<y, x>> \in OpToRel(<, Nat))
  BY NatLessThanWellFounded, WFMin
<1>2. \A y \in Nat \ X : ~(y < x)
  BY <1>1 DEF OpToRel
<1>3. x # 0
  OBVIOUS
<1>4. x - 1 \in Nat /\ x - 1 < x
  BY <1>3
<1>5. QED
  BY <1>2, <1>4

\* A finite set is reached from the empty one by adding its elements.
LEMMA SetInduct ==
  ASSUME NEW S, IsFiniteSet(S), NEW X, {} \in X,
         \A T \in SUBSET S : \A x \in S \ T : T \in X => T \cup {x} \in X
  PROVE  S \in X
<1> DEFINE N == {n \in Nat : \A T \in SUBSET S : Cardinality(T) = n => T \in X}
<1>1. 0 \in N
  <2>1. \A T \in SUBSET S : Cardinality(T) = 0 => T = {}
    BY FS_Subset, FS_EmptySet
  <2>2. QED
    BY <2>1
<1>2. ASSUME NEW n \in Nat, n \in N PROVE n + 1 \in N
  <2>1. SUFFICES ASSUME NEW T \in SUBSET S, Cardinality(T) = n + 1
                 PROVE  T \in X
    OBVIOUS
  <2>2. IsFiniteSet(T) /\ T # {}
    BY <1>2, <2>1, FS_Subset, FS_EmptySet
  <2>3. PICK x \in T : TRUE
    BY <2>2
  <2>4. Cardinality(T \ {x}) = n
    <3>1. Cardinality(T \ {x}) = Cardinality(T) - 1
      BY <2>2, <2>3, FS_RemoveElement
    <3>2. QED
      BY <2>1, <3>1
  <2>5. T \ {x} \in X
    BY <1>2, <2>4
  <2>6. (T \ {x}) \cup {x} = T
    OBVIOUS
  <2>7. QED
    BY <2>5, <2>6
<1>3. Nat \subseteq N
  BY <1>1, <1>2, NatInduct
<1>4. QED
  BY <1>3, FS_CardinalityType

---------------------------------------------------------------------------
(* Recursion.                                                              *)

\* Step[g] is the function that the right-hand side of a recursive definition
\* makes of g, and its value at x depends on values of lower rank only.
Descends(D, V, Rank, Step) ==
  /\ V # {} /\ Rank \in [D -> Nat] /\ Step \in [[D -> V] -> [D -> V]]
  /\ \A g, h \in [D -> V] : \A x \in D :
       (\A y \in D : Rank[y] < Rank[x] => g[y] = h[y]) => Step[g][x] = Step[h][x]

\* Such a definition has a solution.
LEMMA Recursion ==
  ASSUME NEW D, NEW V, NEW Rank, NEW Step, Descends(D, V, Rank, Step)
  PROVE  \E f \in [D -> V] : Step[f] = f
<1> USE DEF Descends
<1> DEFINE Upto(n, g) == \A x \in D : Rank[x] < n => Step[g][x] = g[x]
           N == {n \in Nat : \E g \in [D -> V] : Upto(n, g)}
           Of(n) == CHOOSE g \in [D -> V] : Upto(n, g)
           f == [x \in D |-> Of(Rank[x] + 1)[x]]
<1>1. Nat \subseteq N
  <2>1. 0 \in N
    <3>1. PICK v \in V : TRUE
      OBVIOUS
    <3>2. [x \in D |-> v] \in [D -> V] /\ Upto(0, [x \in D |-> v])
      OBVIOUS
    <3>3. QED
      BY <3>2
  <2>2. ASSUME NEW n \in Nat, n \in N PROVE n + 1 \in N
    <3>1. PICK g \in [D -> V] : Upto(n, g)
      BY <2>2
    <3>2. Step[g] \in [D -> V]
      OBVIOUS
    <3>3. ASSUME NEW x \in D, Rank[x] < n + 1 PROVE Step[Step[g]][x] = Step[g][x]
      <4>1. \A y \in D : Rank[y] < Rank[x] => Step[g][y] = g[y]
        BY <3>1, <3>3
      <4>2. QED
        BY <3>2, <4>1
    <3>4. Upto(n + 1, Step[g])
      BY <3>3
    <3>5. QED
      BY <3>2, <3>4
  <2> HIDE DEF N
  <2>3. QED
    BY <2>1, <2>2, NatInduct
<1>2. ASSUME NEW n \in Nat PROVE Of(n) \in [D -> V] /\ Upto(n, Of(n))
  BY <1>1
<1>3. ASSUME NEW g \in [D -> V], NEW h \in [D -> V], NEW n \in Nat, NEW k \in Nat,
             Upto(n, g), Upto(k, h)
      PROVE  \A x \in D : Rank[x] < n /\ Rank[x] < k => g[x] = h[x]
  <2> DEFINE M == {m \in Nat : \A x \in D :
                     Rank[x] < m /\ Rank[x] < n /\ Rank[x] < k => g[x] = h[x]}
  <2>1. 0 \in M
    OBVIOUS
  <2>2. ASSUME NEW m \in Nat, m \in M PROVE m + 1 \in M
    <3>1. SUFFICES ASSUME NEW x \in D, Rank[x] < m + 1, Rank[x] < n, Rank[x] < k
                   PROVE  g[x] = h[x]
      OBVIOUS
    <3>2. \A y \in D : Rank[y] < Rank[x] => g[y] = h[y]
      BY <2>2, <3>1
    <3>3. Step[g][x] = Step[h][x]
      BY <3>2
    <3>4. QED
      BY <1>3, <3>1, <3>3
  <2>3. Nat \subseteq M
    <3> HIDE DEF M
    <3> QED
      BY <2>1, <2>2, NatInduct
  <2>4. QED
    BY <2>3
<1> HIDE DEF Of, Upto
<1>4. f \in [D -> V]
  <2> SUFFICES ASSUME NEW x \in D PROVE Of(Rank[x] + 1)[x] \in V
    OBVIOUS
  <2>1. Rank[x] + 1 \in Nat
    OBVIOUS
  <2>2. QED
    BY <1>2, <2>1
<1>5. ASSUME NEW x \in D PROVE Step[f][x] = f[x]
  <2> DEFINE g == Of(Rank[x] + 1)
  <2>1. Rank[x] + 1 \in Nat
    OBVIOUS
  <2>2. g \in [D -> V] /\ Upto(Rank[x] + 1, g)
    BY <1>2, <2>1
  <2>3. \A y \in D : Rank[y] < Rank[x] => f[y] = g[y]
    <3> SUFFICES ASSUME NEW y \in D, Rank[y] < Rank[x] PROVE f[y] = g[y]
      OBVIOUS
    <3>1. Rank[y] + 1 \in Nat /\ Rank[y] < Rank[y] + 1 /\ Rank[y] < Rank[x] + 1
      OBVIOUS
    <3>2. Of(Rank[y] + 1) \in [D -> V] /\ Upto(Rank[y] + 1, Of(Rank[y] + 1))
      BY <1>2, <3>1
    <3>3. Of(Rank[y] + 1)[y] = g[y]
      BY <1>3, <2>1, <2>2, <3>1, <3>2
    <3>4. QED
      BY <3>3
  <2>4. Step[f][x] = Step[g][x]
    BY <1>4, <2>2, <2>3
  <2>5. Step[g][x] = g[x]
    BY <2>2 DEF Upto
  <2>6. QED
    BY <2>4, <2>5
<1>6. Step[f] = f
  <2> HIDE DEF f
  <2>1. Step[f] \in [D -> V]
    BY <1>4
  <2>2. QED
    BY <1>4, <1>5, <2>1
<1>7. QED
  BY <1>4, <1>6

---------------------------------------------------------------------------
(* The library's recursion is well defined. *)

\* g is the function the library's sum over S is the last value of.
Sums(g, f, S) ==
  g = [s \in SUBSET S |->
        IF s = {} THEN 0
        ELSE LET x == CHOOSE x \in s : TRUE IN f[x] + g[s \ {x}]]

\* SumFunctionOnSet is the value of a function that Sums describes.
LEMMA SumUnfold ==
  ASSUME NEW f, NEW S
  PROVE  SumFunctionOnSet(f, S) = (CHOOSE g : Sums(g, f, S))[S]
BY DEF SumFunctionOnSet, FoldFunctionOnSet, MapThenFoldSet, Sums

\* Two such functions agree where both are defined.
LEMMA SumsAgree ==
  ASSUME NEW f, NEW A, NEW B, NEW g, NEW h, Sums(g, f, A), Sums(h, f, B),
         NEW s, s \subseteq A, s \subseteq B, IsFiniteSet(s)
  PROVE  g[s] = h[s]
<1> DEFINE N == {n \in Nat : \A t \in SUBSET s : Cardinality(t) = n => g[t] = h[t]}
<1>1. ASSUME NEW t \in SUBSET s
      PROVE  /\ t = {} => g[t] = 0 /\ h[t] = 0
             /\ t # {} => \E x \in t : /\ g[t] = f[x] + g[t \ {x}]
                                       /\ h[t] = f[x] + h[t \ {x}]
  <2> DEFINE x == CHOOSE x \in t : TRUE
  <2>1. t \in SUBSET A /\ t \in SUBSET B
    OBVIOUS
  <2>2. g[t] = IF t = {} THEN 0 ELSE f[x] + g[t \ {x}]
    BY <2>1 DEF Sums
  <2>3. h[t] = IF t = {} THEN 0 ELSE f[x] + h[t \ {x}]
    BY <2>1 DEF Sums
  <2>4. t # {} => x \in t
    OBVIOUS
  <2>5. QED
    BY <2>2, <2>3, <2>4
<1>2. 0 \in N
  <2>1. \A t \in SUBSET s : Cardinality(t) = 0 => t = {}
    BY FS_Subset, FS_EmptySet
  <2>2. QED
    BY <1>1, <2>1
<1>3. ASSUME NEW n \in Nat, n \in N PROVE n + 1 \in N
  <2>1. SUFFICES ASSUME NEW t \in SUBSET s, Cardinality(t) = n + 1
                 PROVE  g[t] = h[t]
    OBVIOUS
  <2>2. IsFiniteSet(t) /\ t # {}
    BY <1>3, <2>1, FS_Subset, FS_EmptySet
  <2>3. PICK x \in t : g[t] = f[x] + g[t \ {x}] /\ h[t] = f[x] + h[t \ {x}]
    BY <1>1, <2>2
  <2>4. Cardinality(t \ {x}) = n
    <3>1. Cardinality(t \ {x}) = Cardinality(t) - 1
      BY <2>2, <2>3, FS_RemoveElement
    <3>2. QED
      BY <2>1, <3>1
  <2>5. g[t \ {x}] = h[t \ {x}]
    BY <1>3, <2>4
  <2>6. QED
    BY <2>3, <2>5
<1>4. Nat \subseteq N
  BY <1>2, <1>3, NatInduct
<1>5. QED
  BY <1>4, FS_CardinalityType

\* Such a function exists on the subsets of every finite set.
LEMMA SumsExist ==
  ASSUME NEW f, NEW S, IsFiniteSet(S)
  PROVE  \E g : Sums(g, f, S)
<1> DEFINE N == {n \in Nat : \A T \in SUBSET S :
                   Cardinality(T) <= n => \E g : Sums(g, f, T)}
           Of(T) == CHOOSE g : Sums(g, f, T)
           At(T) == Of(T)[T]
           First(T) == CHOOSE x \in T : TRUE
<1>1. ASSUME NEW T \in SUBSET S,
             \A t \in SUBSET T : t # T => \E g : Sums(g, f, t)
      PROVE  \E g : Sums(g, f, T)
  <2> DEFINE G == [s \in SUBSET T |->
                    IF s = {} THEN 0 ELSE f[First(s)] + At(s \ {First(s)})]
  <2>1. ASSUME NEW t \in SUBSET T, t # T PROVE G[t] = At(t)
    <3>1. Sums(Of(t), f, t)
      BY <1>1, <2>1
    <3>2. At(t) = IF t = {} THEN 0 ELSE f[First(t)] + Of(t)[t \ {First(t)}]
      BY <3>1 DEF Sums
    <3>3. CASE t # {}
      <4> DEFINE r == t \ {First(t)}
      <4>1. r \in SUBSET t /\ r \in SUBSET T /\ r # T
        BY <2>1, <3>3
      <4>2. Sums(Of(r), f, r)
        BY <1>1, <4>1
      <4>3. IsFiniteSet(r)
        BY <4>1, FS_Subset
      <4>4. Of(t)[r] = Of(r)[r]
        BY <3>1, <4>1, <4>2, <4>3, SumsAgree
      <4>5. QED
        BY <3>2, <3>3, <4>4
    <3>4. QED
      BY <3>2, <3>3
  <2>2. ASSUME NEW s \in SUBSET T
        PROVE  G[s] = IF s = {} THEN 0 ELSE f[First(s)] + G[s \ {First(s)}]
    <3>1. CASE s # {}
      <4>1. s \ {First(s)} \in SUBSET T /\ s \ {First(s)} # T
        BY <3>1
      <4>2. G[s \ {First(s)}] = At(s \ {First(s)})
        BY <2>1, <4>1
      <4>3. QED
        BY <3>1, <4>2
    <3>2. QED
      BY <3>1
  <2>3. Sums(G, f, T)
    <3>1. G = [s \in SUBSET T |-> G[s]]
      OBVIOUS
    <3> HIDE DEF G
    <3>2. QED
      BY <2>2, <3>1 DEF Sums
  <2>4. QED
    BY <2>3
<1>2. 0 \in N
  <2>1. SUFFICES ASSUME NEW T \in SUBSET S, Cardinality(T) <= 0
                 PROVE  \E g : Sums(g, f, T)
    OBVIOUS
  <2>2. T = {}
    BY <2>1, FS_Subset, FS_EmptySet, FS_CardinalityType
  <2>3. QED
    BY <1>1, <2>2
<1>3. ASSUME NEW n \in Nat, n \in N PROVE n + 1 \in N
  <2>1. SUFFICES ASSUME NEW T \in SUBSET S, Cardinality(T) <= n + 1
                 PROVE  \E g : Sums(g, f, T)
    OBVIOUS
  <2>2. ASSUME NEW t \in SUBSET T, t # T PROVE \E g : Sums(g, f, t)
    <3>1. /\ IsFiniteSet(T) /\ IsFiniteSet(t)
          /\ Cardinality(t) \in Nat /\ Cardinality(T) \in Nat
          /\ Cardinality(t) < Cardinality(T)
      BY <2>2, FS_Subset, FS_CardinalityType
    <3>2. Cardinality(t) <= n
      BY <1>3, <2>1, <3>1
    <3>3. QED
      BY <1>3, <3>2
  <2>3. QED
    BY <1>1, <2>2
<1>4. Nat \subseteq N
  BY <1>2, <1>3, NatInduct
<1>5. QED
  BY <1>4, FS_CardinalityType

\* The recursion, in terms of sums.
LEMMA SumRecursion ==
  ASSUME NEW f, NEW S, IsFiniteSet(S)
  PROVE  /\ S = {} => SumFunctionOnSet(f, S) = 0
         /\ S # {} => \E x \in S :
              SumFunctionOnSet(f, S) = f[x] + SumFunctionOnSet(f, S \ {x})
<1> DEFINE Of(T) == CHOOSE g : Sums(g, f, T)
           x == CHOOSE x \in S : TRUE
           r == S \ {x}
<1>1. Sums(Of(S), f, S)
  BY SumsExist
<1>2. Of(S)[S] = IF S = {} THEN 0 ELSE f[x] + Of(S)[r]
  BY <1>1 DEF Sums
<1>3. IsFiniteSet(r) /\ r \in SUBSET S
  BY FS_Subset
<1>4. Sums(Of(r), f, r)
  BY <1>3, SumsExist
<1>5. Of(S)[r] = Of(r)[r]
  BY <1>1, <1>3, <1>4, SumsAgree
<1>6. S # {} => x \in S
  OBVIOUS
<1>7. SumFunctionOnSet(f, S) = Of(S)[S] /\ SumFunctionOnSet(f, r) = Of(r)[r]
  BY SumUnfold
<1>8. QED
  BY <1>2, <1>5, <1>6, <1>7

---------------------------------------------------------------------------
(* Laws of sums of integers. *)

\* The empty sum.
LEMMA SumEmpty ==
  ASSUME NEW f PROVE SumFunctionOnSet(f, {}) = 0
BY SumRecursion, FS_EmptySet

\* A sum of integers is an integer, and any element can be taken out of it,
\* whichever one the library takes first.
LEMMA SumTake ==
  ASSUME NEW f, NEW S, IsFiniteSet(S), \A x \in S : f[x] \in Int
  PROVE  /\ SumFunctionOnSet(f, S) \in Int
         /\ \A x \in S :
              SumFunctionOnSet(f, S) = f[x] + SumFunctionOnSet(f, S \ {x})
<1> DEFINE Su(T) == SumFunctionOnSet(f, T)
           Takes(T) == Su(T) \in Int /\ \A x \in T : Su(T) = f[x] + Su(T \ {x})
           N == {n \in Nat : \A T \in SUBSET S : Cardinality(T) <= n => Takes(T)}
<1>1. 0 \in N
  <2>1. SUFFICES ASSUME NEW T \in SUBSET S, Cardinality(T) <= 0 PROVE Takes(T)
    OBVIOUS
  <2>2. T = {}
    BY <2>1, FS_Subset, FS_EmptySet, FS_CardinalityType
  <2>3. QED
    BY <2>2, SumEmpty
<1>2. ASSUME NEW n \in Nat, n \in N PROVE n + 1 \in N
  <2>1. SUFFICES ASSUME NEW T \in SUBSET S, Cardinality(T) <= n + 1, T # {}
                 PROVE  Takes(T)
    BY SumEmpty
  <2>2. IsFiniteSet(T)
    BY FS_Subset
  <2>3. PICK y \in T : Su(T) = f[y] + Su(T \ {y})
    BY <2>1, <2>2, SumRecursion
  <2>4. ASSUME NEW t \in SUBSET T, t # T PROVE Takes(t)
    <3>1. /\ IsFiniteSet(t) /\ Cardinality(t) \in Nat /\ Cardinality(T) \in Nat
          /\ Cardinality(t) < Cardinality(T)
      BY <2>2, <2>4, FS_Subset, FS_CardinalityType
    <3>2. Cardinality(t) <= n
      BY <1>2, <2>1, <3>1
    <3>3. QED
      BY <1>2, <3>2
  <2>5. f[y] \in Int /\ Takes(T \ {y})
    BY <2>4
  <2>6. Su(T) \in Int
    BY <2>3, <2>5
  <2>7. ASSUME NEW x \in T, x # y PROVE Su(T) = f[x] + Su(T \ {x})
    <3> DEFINE r == (T \ {x}) \ {y}
    <3>1. f[x] \in Int /\ Takes(T \ {x}) /\ Takes(r)
      BY <2>4
    <3>2. Su(T \ {x}) = f[y] + Su(r)
      BY <2>7, <3>1
    <3>3. (T \ {y}) \ {x} = r
      OBVIOUS
    <3>4. Su(T \ {y}) = f[x] + Su(r)
      BY <2>5, <2>7, <3>3
    <3>5. Su(r) \in Int
      BY <3>1
    <3> HIDE DEF Su
    <3>6. QED
      BY <2>3, <2>5, <3>1, <3>2, <3>4, <3>5
  <2>8. QED
    BY <2>3, <2>6, <2>7
<1>3. Nat \subseteq N
  BY <1>1, <1>2, NatInduct
<1>4. Takes(S)
  BY <1>3, FS_CardinalityType
<1>5. QED
  BY <1>4

\* Adding an element to the set.
LEMMA SumAdd ==
  ASSUME NEW f, NEW S, IsFiniteSet(S), NEW x, x \notin S,
         f[x] \in Int, \A y \in S : f[y] \in Int
  PROVE  SumFunctionOnSet(f, S \cup {x}) = SumFunctionOnSet(f, S) + f[x]
<1>1. IsFiniteSet(S \cup {x})
  BY FS_AddElement
<1>2. (S \cup {x}) \ {x} = S
  OBVIOUS
<1>3. SumFunctionOnSet(f, S \cup {x}) = f[x] + SumFunctionOnSet(f, S)
  BY <1>1, <1>2, SumTake
<1>4. SumFunctionOnSet(f, S) \in Int
  BY SumTake
<1>5. QED
  BY <1>3, <1>4

\* Functions that agree on a set have one sum over it.
LEMMA SumSame ==
  ASSUME NEW f, NEW g, NEW S, IsFiniteSet(S),
         \A x \in S : f[x] \in Int /\ g[x] = f[x]
  PROVE  SumFunctionOnSet(g, S) = SumFunctionOnSet(f, S)
<1> DEFINE X == {T \in SUBSET S : SumFunctionOnSet(g, T) = SumFunctionOnSet(f, T)}
<1>1. {} \in X
  BY SumEmpty
<1>2. ASSUME NEW T \in SUBSET S, NEW x \in S \ T, T \in X PROVE T \cup {x} \in X
  <2>1. IsFiniteSet(T)
    BY FS_Subset
  <2>2. SumFunctionOnSet(f, T \cup {x}) = SumFunctionOnSet(f, T) + f[x]
    BY <2>1, SumAdd
  <2>3. SumFunctionOnSet(g, T \cup {x}) = SumFunctionOnSet(g, T) + g[x]
    BY <2>1, SumAdd
  <2>4. QED
    BY <1>2, <2>2, <2>3
<1>3. S \in X
  BY <1>1, <1>2, SetInduct
<1>4. QED
  BY <1>3

\* Changing the value at one element.
LEMMA SumChange ==
  ASSUME NEW f, NEW g, NEW S, IsFiniteSet(S), NEW x \in S,
         \A y \in S : f[y] \in Int, g[x] \in Int,
         \A y \in S \ {x} : g[y] = f[y]
  PROVE  SumFunctionOnSet(g, S) = SumFunctionOnSet(f, S) + (g[x] - f[x])
<1> DEFINE r == S \ {x}
<1>1. IsFiniteSet(r)
  BY FS_Subset
<1>2. SumFunctionOnSet(g, r) = SumFunctionOnSet(f, r)
  BY <1>1, SumSame
<1>3. /\ SumFunctionOnSet(f, S) = f[x] + SumFunctionOnSet(f, r)
      /\ SumFunctionOnSet(f, r) \in Int
  BY <1>1, SumTake
<1>4. SumFunctionOnSet(g, S) = g[x] + SumFunctionOnSet(g, r)
  <2>1. \A y \in S : g[y] \in Int
    OBVIOUS
  <2>2. QED
    BY <2>1, SumTake
<1>5. f[x] \in Int
  OBVIOUS
<1>6. QED
  BY <1>2, <1>3, <1>4, <1>5

\* A sum of natural numbers is one, and no smaller than any of its terms.
LEMMA SumNat ==
  ASSUME NEW f, NEW S, IsFiniteSet(S), \A x \in S : f[x] \in Nat
  PROVE  /\ SumFunctionOnSet(f, S) \in Nat
         /\ \A x \in S : f[x] <= SumFunctionOnSet(f, S)
<1> DEFINE X == {T \in SUBSET S : SumFunctionOnSet(f, T) \in Nat}
<1>1. {} \in X
  BY SumEmpty
<1>2. ASSUME NEW T \in SUBSET S, NEW x \in S \ T, T \in X PROVE T \cup {x} \in X
  <2>1. IsFiniteSet(T)
    BY FS_Subset
  <2>2. SumFunctionOnSet(f, T \cup {x}) = SumFunctionOnSet(f, T) + f[x]
    BY <2>1, SumAdd
  <2>3. QED
    BY <1>2, <2>2
<1>3. \A T \in SUBSET S : SumFunctionOnSet(f, T) \in Nat
  <2>1. TAKE T \in SUBSET S
  <2> DEFINE Y == {U \in SUBSET T : SumFunctionOnSet(f, U) \in Nat}
  <2>2. IsFiniteSet(T) /\ {} \in Y
    BY FS_Subset, SumEmpty
  <2>3. \A U \in SUBSET T : \A x \in T \ U : U \in Y => U \cup {x} \in Y
    BY <1>2
  <2>4. T \in Y
    BY <2>2, <2>3, SetInduct
  <2>5. QED
    BY <2>4
<1>4. ASSUME NEW x \in S PROVE f[x] <= SumFunctionOnSet(f, S)
  <2>1. SumFunctionOnSet(f, S) = f[x] + SumFunctionOnSet(f, S \ {x})
    BY SumTake
  <2>2. SumFunctionOnSet(f, S \ {x}) \in Nat
    BY <1>3
  <2>3. QED
    BY <2>1, <2>2
<1>5. QED
  BY <1>3, <1>4

\* A sum of zeros.
LEMMA SumZero ==
  ASSUME NEW f, NEW S, IsFiniteSet(S), \A x \in S : f[x] = 0
  PROVE  SumFunctionOnSet(f, S) = 0
<1> DEFINE X == {T \in SUBSET S : SumFunctionOnSet(f, T) = 0}
<1>1. {} \in X
  BY SumEmpty
<1>2. ASSUME NEW T \in SUBSET S, NEW x \in S \ T, T \in X PROVE T \cup {x} \in X
  <2>1. IsFiniteSet(T)
    BY FS_Subset
  <2>2. SumFunctionOnSet(f, T \cup {x}) = SumFunctionOnSet(f, T) + f[x]
    BY <2>1, SumAdd
  <2>3. QED
    BY <1>2, <2>2
<1>3. S \in X
  BY <1>1, <1>2, SetInduct
<1>4. QED
  BY <1>3

\* A sum over disjoint sets.
LEMMA SumUnion ==
  ASSUME NEW f, NEW S, NEW R, IsFiniteSet(S), IsFiniteSet(R), S \cap R = {},
         \A x \in S \cup R : f[x] \in Int
  PROVE  SumFunctionOnSet(f, S \cup R) =
           SumFunctionOnSet(f, S) + SumFunctionOnSet(f, R)
<1> DEFINE X == {T \in SUBSET R :
                  SumFunctionOnSet(f, S \cup T) =
                    SumFunctionOnSet(f, S) + SumFunctionOnSet(f, T)}
<1>1. {} \in X
  <2>1. S \cup {} = S /\ SumFunctionOnSet(f, S) \in Int
    BY SumTake
  <2>2. QED
    BY <2>1, SumEmpty
<1>2. ASSUME NEW T \in SUBSET R, NEW x \in R \ T, T \in X PROVE T \cup {x} \in X
  <2>1. IsFiniteSet(T) /\ IsFiniteSet(S \cup T)
    BY FS_Subset, FS_Union
  <2>2. SumFunctionOnSet(f, T \cup {x}) = SumFunctionOnSet(f, T) + f[x]
    BY <2>1, SumAdd
  <2>3. SumFunctionOnSet(f, (S \cup T) \cup {x}) = SumFunctionOnSet(f, S \cup T) + f[x]
    BY <2>1, SumAdd
  <2>4. (S \cup T) \cup {x} = S \cup (T \cup {x})
    OBVIOUS
  <2>5. /\ SumFunctionOnSet(f, S) \in Int /\ SumFunctionOnSet(f, T) \in Int
        /\ f[x] \in Int
    BY <2>1, SumTake
  <2>6. SumFunctionOnSet(f, S \cup T) =
          SumFunctionOnSet(f, S) + SumFunctionOnSet(f, T)
    BY <1>2
  <2>7. SumFunctionOnSet(f, S \cup (T \cup {x})) =
          SumFunctionOnSet(f, S) + SumFunctionOnSet(f, T \cup {x})
    <3> DEFINE a == SumFunctionOnSet(f, S)
               b == SumFunctionOnSet(f, T)
               c == SumFunctionOnSet(f, S \cup T)
               d == SumFunctionOnSet(f, T \cup {x})
               e == SumFunctionOnSet(f, (S \cup T) \cup {x})
    <3>1. e = SumFunctionOnSet(f, S \cup (T \cup {x}))
      BY <2>4
    <3>2. /\ a \in Int /\ b \in Int /\ f[x] \in Int
          /\ d = b + f[x] /\ e = c + f[x] /\ c = a + b
      BY <2>2, <2>3, <2>5, <2>6
    <3> HIDE DEF a, b, c, d, e
    <3>3. e = a + d
      BY <3>2
    <3>4. QED
      BY <3>1, <3>3 DEF a, d
  <2>8. T \cup {x} \in SUBSET R
    BY <1>2
  <2>9. QED
    BY <2>7, <2>8
<1>3. R \in X
  BY <1>1, <1>2, SetInduct
<1>4. QED
  BY <1>3

\* Terms that are bounded by others and a multiple of third ones have a sum
\* that is bounded by the sum of the others and the multiple of the third.
LEMMA SumScaled ==
  ASSUME NEW f, NEW g, NEW w, NEW S, IsFiniteSet(S), NEW k \in Int,
         \A x \in S : /\ f[x] \in Int /\ g[x] \in Int /\ w[x] \in Int
                      /\ g[x] <= f[x] + k * w[x]
  PROVE  SumFunctionOnSet(g, S) <= SumFunctionOnSet(f, S) + k * SumFunctionOnSet(w, S)
<1> DEFINE Su(q, T) == SumFunctionOnSet(q, T)
           X == {T \in SUBSET S : Su(g, T) <= Su(f, T) + k * Su(w, T)}
<1>1. {} \in X
  <2>1. Su(g, {}) = 0 /\ Su(f, {}) = 0 /\ Su(w, {}) = 0
    BY SumEmpty
  <2> HIDE DEF Su
  <2>2. QED
    BY <2>1
<1>2. ASSUME NEW T \in SUBSET S, NEW x \in S \ T, T \in X PROVE T \cup {x} \in X
  <2>1. IsFiniteSet(T)
    BY FS_Subset
  <2>2. /\ Su(f, T) \in Int /\ Su(g, T) \in Int /\ Su(w, T) \in Int
    BY <2>1, SumTake
  <2>3. /\ Su(f, T \cup {x}) = Su(f, T) + f[x]
        /\ Su(g, T \cup {x}) = Su(g, T) + g[x]
        /\ Su(w, T \cup {x}) = Su(w, T) + w[x]
    BY <2>1, SumAdd
  <2>4. \A a, b \in Int : k * (a + b) = k * a + k * b /\ k * a \in Int
    OBVIOUS
  <2>5. /\ k * (Su(w, T) + w[x]) = k * Su(w, T) + k * w[x]
        /\ k * Su(w, T) \in Int /\ k * w[x] \in Int
    BY <2>2, <2>4
  <2>6. Su(g, T) <= Su(f, T) + k * Su(w, T)
    BY <1>2
  <2>7. g[x] <= f[x] + k * w[x] /\ g[x] \in Int /\ f[x] \in Int
    OBVIOUS
  <2> HIDE DEF Su
  <2>8. Su(g, T \cup {x}) <= Su(f, T \cup {x}) + k * Su(w, T \cup {x})
    BY <2>2, <2>3, <2>5, <2>6, <2>7
  <2>9. QED
    BY <2>8
<1>3. S \in X
  <2> HIDE DEF X
  <2>1. QED
    BY <1>1, <1>2, SetInduct
<1>4. QED
  BY <1>3

\* Terms that are no larger have a sum that is no larger.
LEMMA SumMono ==
  ASSUME NEW f, NEW g, NEW S, IsFiniteSet(S),
         \A x \in S : f[x] \in Int /\ g[x] \in Int /\ g[x] <= f[x]
  PROVE  SumFunctionOnSet(g, S) <= SumFunctionOnSet(f, S)
<1>1. \A x \in S : g[x] <= f[x] + 0 * f[x]
  OBVIOUS
<1>2. SumFunctionOnSet(g, S) <= SumFunctionOnSet(f, S) + 0 * SumFunctionOnSet(f, S)
  BY <1>1, SumScaled
<1>3. SumFunctionOnSet(f, S) \in Int
  BY SumTake
<1>4. QED
  BY <1>2, <1>3
=============================================================================
