------------------------- MODULE WidthBudgetProofs -------------------------
(***************************************************************************)
(* Proofs about the width budget, for any threads, any requests and any    *)
(* machine.  The invariant of the mutex is the heart of it: whenever the   *)
(* lock is free, the head of the queue does not fit (HeadBlocked), and     *)
(* what is parked fits an empty budget (ParkedFits).  Together they say    *)
(* that a parked request always has somebody to wait for (NoStranding).    *)
(***************************************************************************)
EXTENDS WidthBudget, FiniteSetTheorems, WellFoundedInduction, TLAPS

-----------------------------------------------------------------------------
(* Numbers. *)

\* Every nonempty set of naturals has a least element.
LEMMA LeastNatural ==
  ASSUME NEW S \in SUBSET Nat, S # {}
  PROVE  \E n \in S : \A m \in S : n <= m
  <1>1. PICK n \in S : \A m \in S : ~ (<<m, n>> \in OpToRel(<, Nat))
    BY NatLessThanWellFounded, WFMin
  <1>2. \A m \in S : ~ (m < n)
    BY <1>1 DEF OpToRel
  <1>3. \A m \in S : n <= m
    BY <1>2
  <1>4. QED
    BY <1>3

\* Induction, with the set of the numbers a fact holds for.
LEMMA Induction ==
  ASSUME NEW B \in SUBSET Nat, 0 \in B, \A n \in B : n + 1 \in B
  PROVE  B = Nat
  <1> SUFFICES ASSUME Nat \ B # {} PROVE FALSE
    OBVIOUS
  <1>1. PICK n \in Nat \ B : \A m \in Nat \ B : n <= m
    BY LeastNatural
  <1>2. n - 1 \in Nat /\ n - 1 \notin Nat \ B
    BY <1>1
  <1>3. (n - 1) + 1 \in B
    BY <1>2
  <1>4. QED
    BY <1>1, <1>3

-----------------------------------------------------------------------------
(* The sum over a finite set, SumFunctionOnSet of the community modules, does not   *)
(* depend on the order the fold takes the elements in, and it changes by one        *)
(* element's value when that element comes or goes.  The fold is a recursive        *)
(* function, so each fact is an induction on the size of the set, carried out with  *)
(* the set of the sizes it holds for.                                               *)

\* The element the fold takes next.
Pick(s) == CHOOSE x \in s : TRUE

\* What the fold makes of the set s, when g says what it makes of smaller ones.
Fold(g, f, s) == IF s = {} THEN 0 ELSE f[Pick(s)] + g[s \ {Pick(s)}]

\* g is the fold of f on all subsets of S.
IsFold(g, f, S) == g = [s \in SUBSET S |-> Fold(g, f, s)]

\* f and g have the same values on S.
Agree(f, g, S) == \A x \in S : f[x] = g[x]

LEMMA PickIn ==
  ASSUME NEW S, S # {}
  PROVE  Pick(S) \in S
  BY DEF Pick

\* Taking an element out of a finite set makes it smaller by one.
LEMMA SizeWithout ==
  ASSUME NEW S, IsFiniteSet(S), NEW x \in S
  PROVE  /\ IsFiniteSet(S \ {x}) /\ Cardinality(S) \in Nat \ {0}
         /\ Cardinality(S \ {x}) \in Nat
         /\ Cardinality(S \ {x}) = Cardinality(S) - 1
  BY FS_RemoveElement, FS_CardinalityType, FS_EmptySet

\* The recursive definition of the fold has a solution on every finite set.
LEMMA FoldExists ==
  ASSUME NEW f, NEW S, IsFiniteSet(S)
  PROVE  \E g : IsFold(g, f, S)
  <1> DEFINE Upto(n) == {s \in SUBSET S : Cardinality(s) <= n}
             Solved == {n \in Nat : \E g : g = [s \in Upto(n) |-> Fold(g, f, s)]}
  <1>1. \A s \in SUBSET S : IsFiniteSet(s) /\ Cardinality(s) \in Nat /\ Cardinality(s) <= Cardinality(S)
    BY FS_Subset, FS_CardinalityType
  <1>2. 0 \in Solved
    <2> DEFINE g == [s \in Upto(0) |-> 0]
    <2>1. \A s \in Upto(0) : s = {}
      BY <1>1, FS_EmptySet
    <2>2. \A s \in Upto(0) : Fold(g, f, s) = 0
      BY <2>1 DEF Fold
    <2>3. g = [s \in Upto(0) |-> Fold(g, f, s)]
      BY <2>2
    <2>4. QED
      BY <2>3
  <1>3. ASSUME NEW n \in Solved PROVE n + 1 \in Solved
    <2>1. PICK g : g = [s \in Upto(n) |-> Fold(g, f, s)]
      OBVIOUS
    <2> DEFINE h == [s \in Upto(n + 1) |-> Fold(g, f, s)]
    <2>2. ASSUME NEW s \in Upto(n + 1) PROVE Fold(h, f, s) = Fold(g, f, s)
      <3>1. CASE s = {}
        BY <3>1 DEF Fold
      <3>2. CASE s # {}
        <4> DEFINE r == s \ {Pick(s)}
        <4>1. r \in Upto(n) /\ r \in Upto(n + 1)
          BY <3>2, <1>1, PickIn, SizeWithout
        <4>2. h[r] = Fold(g, f, r) /\ g[r] = Fold(g, f, r)
          BY <4>1, <2>1
        <4>3. h[r] = g[r]
          BY <4>2
        <4> HIDE DEF h
        <4>4. QED
          BY <4>3, <3>2 DEF Fold
      <3>3. QED
        BY <3>1, <3>2
    <2>3. h = [s \in Upto(n + 1) |-> Fold(h, f, s)]
      BY <2>2
    <2>4. \E H : H = [s \in Upto(n + 1) |-> Fold(H, f, s)]
      <3> HIDE DEF h, Upto
      <3>1. QED
        BY <2>3, Zenon
    <2>5. n + 1 \in Nat
      OBVIOUS
    <2> HIDE DEF h, Upto
    <2>6. QED
      BY <2>4, <2>5
  <1>4. Cardinality(S) \in Solved
    <2> HIDE DEF Solved
    <2>1. Solved \in SUBSET Nat
      BY DEF Solved
    <2>2. Solved = Nat
      BY <2>1, <1>2, <1>3, Induction
    <2>3. QED
      BY <2>2, FS_CardinalityType
  <1>5. Upto(Cardinality(S)) = SUBSET S
    BY <1>1
  <1>6. QED
    BY <1>4, <1>5 DEF IsFold

\* The sum is what a solution makes of the whole set.
LEMMA SumIsFold ==
  ASSUME NEW f, NEW S, IsFiniteSet(S)
  PROVE  \E g : IsFold(g, f, S) /\ SumFunctionOnSet(f, S) = g[S]
  <1>1. SumFunctionOnSet(f, S) = (CHOOSE g : IsFold(g, f, S))[S]
    BY DEF SumFunctionOnSet, FoldFunctionOnSet, MapThenFoldSet, IsFold, Fold, Pick
  <1>2. QED
    BY <1>1, FoldExists

\* Two folds agree on a set both reach, when the functions agree on its elements.
LEMMA FoldsAgree ==
  ASSUME NEW f, NEW g, NEW F, NEW G, NEW S, NEW T, NEW U,
         IsFold(F, f, S), IsFold(G, g, T), U \subseteq S, U \subseteq T,
         IsFiniteSet(U), Agree(f, g, U)
  PROVE  F[U] = G[U]
  <1> DEFINE Same == {n \in Nat : \A V \in SUBSET U : Cardinality(V) = n => F[V] = G[V]}
  <1>1. \A V \in SUBSET U : IsFiniteSet(V) /\ Cardinality(V) \in Nat
    BY FS_Subset, FS_CardinalityType
  <1>2. \A V \in SUBSET U : F[V] = Fold(F, f, V) /\ G[V] = Fold(G, g, V)
    BY DEF IsFold
  <1>3. 0 \in Same
    BY <1>1, <1>2, FS_EmptySet DEF Fold
  <1>4. ASSUME NEW n \in Same PROVE n + 1 \in Same
    <2> SUFFICES ASSUME NEW V \in SUBSET U, Cardinality(V) = n + 1 PROVE F[V] = G[V]
      OBVIOUS
    <2> DEFINE p == Pick(V)
    <2>1. V # {}
      <3>1. n + 1 # 0
        OBVIOUS
      <3>2. QED
        BY <3>1, FS_EmptySet
    <2>2. p \in V
      BY <2>1, PickIn
    <2>3. V \ {p} \in SUBSET U /\ Cardinality(V \ {p}) = n
      BY <1>1, <2>2, SizeWithout
    <2>4. F[V \ {p}] = G[V \ {p}] /\ f[p] = g[p]
      BY <2>2, <2>3 DEF Agree
    <2>5. QED
      BY <1>2, <2>1, <2>4 DEF Fold
  <1>5. Same = Nat
    <2> HIDE DEF Same
    <2>1. Same \in SUBSET Nat
      BY DEF Same
    <2>2. QED
      BY <2>1, <1>3, <1>4, Induction
  <1>6. QED
    BY <1>1, <1>5

-----------------------------------------------------------------------------
(* Sums. *)

LEMMA SumEmpty ==
  ASSUME NEW f
  PROVE  SumFunctionOnSet(f, {}) = 0
  <1>1. PICK g : IsFold(g, f, {}) /\ SumFunctionOnSet(f, {}) = g[{}]
    BY SumIsFold, FS_EmptySet
  <1>2. QED
    BY <1>1 DEF IsFold, Fold

\* A sum depends on the values at its indices only.
LEMMA SumCongruence ==
  ASSUME NEW f, NEW g, NEW S, IsFiniteSet(S), Agree(f, g, S)
  PROVE  SumFunctionOnSet(f, S) = SumFunctionOnSet(g, S)
  <1>1. PICK F : IsFold(F, f, S) /\ SumFunctionOnSet(f, S) = F[S]
    BY SumIsFold
  <1>2. PICK G : IsFold(G, g, S) /\ SumFunctionOnSet(g, S) = G[S]
    BY SumIsFold
  <1>3. F[S] = G[S]
    BY <1>1, <1>2, FoldsAgree
  <1>4. QED
    BY <1>1, <1>2, <1>3

\* One turn of the fold.
LEMMA SumPick ==
  ASSUME NEW f, NEW S, IsFiniteSet(S), S # {}
  PROVE  SumFunctionOnSet(f, S) = f[Pick(S)] + SumFunctionOnSet(f, S \ {Pick(S)})
  <1> DEFINE R == S \ {Pick(S)}
  <1>1. IsFiniteSet(R)
    BY PickIn, SizeWithout
  <1>2. PICK F : IsFold(F, f, S) /\ SumFunctionOnSet(f, S) = F[S]
    BY SumIsFold
  <1>3. PICK G : IsFold(G, f, R) /\ SumFunctionOnSet(f, R) = G[R]
    BY <1>1, SumIsFold
  <1>4. F[R] = G[R]
    BY <1>1, <1>2, <1>3, FoldsAgree DEF Agree
  <1>5. F[S] = f[Pick(S)] + F[R]
    BY <1>2 DEF IsFold, Fold
  <1>6. QED
    BY <1>2, <1>3, <1>4, <1>5

\* A sum of integers is an integer, and it does not matter which element is taken
\* out first.
LEMMA SumSplit ==
  ASSUME NEW f, NEW S, IsFiniteSet(S), \A x \in S : f[x] \in Int
  PROVE  /\ SumFunctionOnSet(f, S) \in Int
         /\ \A y \in S : SumFunctionOnSet(f, S) = f[y] + SumFunctionOnSet(f, S \ {y})
  <1> DEFINE Sum(V) == SumFunctionOnSet(f, V)
             Right(V) == Sum(V) \in Int /\ \A y \in V : Sum(V) = f[y] + Sum(V \ {y})
             Good == {n \in Nat : \A V \in SUBSET S : Cardinality(V) <= n => Right(V)}
  <1>1. \A V \in SUBSET S : IsFiniteSet(V) /\ Cardinality(V) \in Nat
    BY FS_Subset, FS_CardinalityType
  <1>2. 0 \in Good
    <2> SUFFICES ASSUME NEW V \in SUBSET S, Cardinality(V) <= 0 PROVE Right(V)
      OBVIOUS
    <2>1. V = {}
      BY <1>1, FS_EmptySet
    <2>2. QED
      BY <2>1, SumEmpty
  <1>3. ASSUME NEW n \in Good PROVE n + 1 \in Good
    <2> SUFFICES ASSUME NEW V \in SUBSET S, Cardinality(V) = n + 1, V # {} PROVE Right(V)
      BY <1>1, SumEmpty
    <2> DEFINE p == Pick(V)
    <2>1. ASSUME NEW W \in SUBSET V, NEW y \in V, y \notin W PROVE W \in SUBSET S /\ Right(W)
      <3>1. IsFiniteSet(V) /\ n \in Nat
        BY <1>1
      <3>2. IsFiniteSet(V \ {y}) /\ Cardinality(V \ {y}) = n
        BY <3>1, SizeWithout
      <3>3. W \in SUBSET (V \ {y}) /\ W \in SUBSET S
        BY <2>1
      <3>4. Cardinality(W) <= n
        BY <3>2, <3>3, FS_Subset
      <3>5. QED
        BY <3>3, <3>4
    <2> HIDE DEF Right, Sum, Good
    <2>2. p \in V
      BY PickIn
    <2>3. Sum(V) = f[p] + Sum(V \ {p})
      BY <1>1, SumPick DEF Sum
    <2>4. Sum(V) \in Int
      BY <2>1, <2>2, <2>3 DEF Right
    <2>5. ASSUME NEW y \in V PROVE Sum(V) = f[y] + Sum(V \ {y})
      <3>1. CASE y = p
        BY <3>1, <2>3
      <3>2. CASE y # p
        <4>1. Sum(V \ {p}) = f[y] + Sum((V \ {p}) \ {y})
          BY <2>1, <2>2, <3>2 DEF Right
        <4>2. Sum(V \ {y}) = f[p] + Sum((V \ {y}) \ {p})
          BY <2>1, <2>2, <3>2 DEF Right
        <4>3. (V \ {p}) \ {y} = (V \ {y}) \ {p}
          OBVIOUS
        <4> DEFINE r == Sum((V \ {y}) \ {p})
        <4>4. r \in Int /\ f[p] \in Int /\ f[y] \in Int
          BY <2>1, <2>2 DEF Right
        <4> HIDE DEF r
        <4>5. Sum(V) = f[p] + (f[y] + r) /\ Sum(V \ {y}) = f[p] + r
          BY <4>1, <4>2, <4>3, <2>3 DEF r
        <4>6. QED
          BY <4>4, <4>5
      <3>3. QED
        BY <3>1, <3>2
    <2>6. QED
      BY <2>4, <2>5 DEF Right
  <1>4. Good = Nat
    <2> HIDE DEF Good
    <2>1. Good \in SUBSET Nat
      BY DEF Good
    <2>2. QED
      BY <2>1, <1>2, <1>3, Induction
  <1>5. QED
    BY <1>1, <1>4

\* A new element adds its value.
LEMMA SumAddElement ==
  ASSUME NEW f, NEW S, IsFiniteSet(S), NEW y, y \notin S, \A x \in S \cup {y} : f[x] \in Int
  PROVE  SumFunctionOnSet(f, S \cup {y}) = SumFunctionOnSet(f, S) + f[y]
  <1> DEFINE T == S \cup {y}
  <1>1. IsFiniteSet(T) /\ y \in T /\ T \ {y} = S
    BY FS_AddElement
  <1>2. SumFunctionOnSet(f, T) = f[y] + SumFunctionOnSet(f, T \ {y})
    BY <1>1, SumSplit
  <1>3. SumFunctionOnSet(f, S) \in Int /\ f[y] \in Int
    BY SumSplit
  <1>4. SumFunctionOnSet(f, T) = f[y] + SumFunctionOnSet(f, S)
    BY <1>1, <1>2
  <1> HIDE DEF T
  <1>5. SumFunctionOnSet(f, T) = SumFunctionOnSet(f, S) + f[y]
    BY <1>3, <1>4
  <1>6. QED
    BY <1>5 DEF T

\* An element that leaves takes its value with it.
LEMMA SumRemoveElement ==
  ASSUME NEW f, NEW S, IsFiniteSet(S), NEW y \in S, \A x \in S : f[x] \in Int
  PROVE  SumFunctionOnSet(f, S \ {y}) = SumFunctionOnSet(f, S) - f[y]
  <1>1. SumFunctionOnSet(f, S) = f[y] + SumFunctionOnSet(f, S \ {y})
    BY SumSplit
  <1>2. SumFunctionOnSet(f, S \ {y}) \in Int /\ f[y] \in Int
    BY SizeWithout, SumSplit
  <1>3. QED
    BY <1>1, <1>2

\* A part of a sum of naturals is not larger than the whole.
LEMMA SumSubset ==
  ASSUME NEW f, NEW S, IsFiniteSet(S), \A x \in S : f[x] \in Nat, NEW T \in SUBSET S
  PROVE  SumFunctionOnSet(f, T) <= SumFunctionOnSet(f, S)
  <1> DEFINE Sum(V) == SumFunctionOnSet(f, V)
             Good == {n \in Nat : \A V \in SUBSET S :
                                    Cardinality(V) = n /\ T \subseteq V => Sum(T) <= Sum(V)}
  <1>1. \A V \in SUBSET S : IsFiniteSet(V) /\ Cardinality(V) \in Nat
    BY FS_Subset, FS_CardinalityType
  <1>2. \A V \in SUBSET S : Sum(V) \in Int
    BY <1>1, SumSplit
  <1>3. 0 \in Good
    <2> SUFFICES ASSUME NEW V \in SUBSET S, Cardinality(V) = 0, T \subseteq V
                 PROVE  Sum(T) <= Sum(V)
      OBVIOUS
    <2>1. V = {} /\ T = {}
      BY <1>1, FS_EmptySet
    <2>2. QED
      BY <1>2, <2>1
  <1>4. ASSUME NEW n \in Good PROVE n + 1 \in Good
    <2> SUFFICES ASSUME NEW V \in SUBSET S, Cardinality(V) = n + 1, T \subseteq V, T # V
                 PROVE  Sum(T) <= Sum(V)
      BY <1>2
    <2>1. PICK y \in V : y \notin T
      OBVIOUS
    <2>2. IsFiniteSet(V) /\ n \in Nat
      BY <1>1
    <2>3. Cardinality(V \ {y}) = n /\ V \ {y} \in SUBSET S /\ T \subseteq V \ {y}
      BY <2>1, <2>2, SizeWithout
    <2>4. Sum(T) <= Sum(V \ {y})
      BY <2>3
    <2>5. Sum(V \ {y}) = Sum(V) - f[y]
      <3>1. \A x \in V : f[x] \in Int
        OBVIOUS
      <3>2. QED
        BY <2>2, <3>1, SumRemoveElement
    <2>6. f[y] \in Nat /\ Sum(T) \in Int /\ Sum(V) \in Int /\ Sum(V \ {y}) \in Int
      BY <1>2, <2>3
    <2> HIDE DEF Sum
    <2>7. QED
      BY <2>4, <2>5, <2>6
  <1>5. Good = Nat
    <2> HIDE DEF Good
    <2>1. Good \in SUBSET Nat
      BY DEF Good
    <2>2. QED
      BY <2>1, <1>3, <1>4, Induction
  <1>6. QED
    BY <1>1, <1>5

\* A sum of naturals is a natural, and none of them is larger.
LEMMA SumNat ==
  ASSUME NEW f, NEW S, IsFiniteSet(S), \A x \in S : f[x] \in Nat
  PROVE  /\ SumFunctionOnSet(f, S) \in Nat
         /\ \A y \in S : f[y] <= SumFunctionOnSet(f, S)
  <1>1. SumFunctionOnSet(f, S) \in Int
    BY SumSplit
  <1>2. 0 <= SumFunctionOnSet(f, S)
    BY SumEmpty, SumSubset
  <1>3. ASSUME NEW y \in S PROVE f[y] <= SumFunctionOnSet(f, S)
    <2> DEFINE R == S \ {y}
    <2>1. IsFiniteSet(R) /\ R \in SUBSET S /\ \A x \in R : f[x] \in Int
      BY SizeWithout
    <2>2. SumFunctionOnSet(f, R) \in Int /\ f[y] \in Nat
      BY <2>1, SumSplit
    <2>3. 0 <= SumFunctionOnSet(f, R)
      BY <2>1, SumEmpty, SumSubset
    <2>4. SumFunctionOnSet(f, R) = SumFunctionOnSet(f, S) - f[y]
      <3>1. \A x \in S : f[x] \in Int
        OBVIOUS
      <3>2. QED
        BY <3>1, SumRemoveElement
    <2>5. QED
      BY <1>1, <2>2, <2>3, <2>4
  <1>4. QED
    BY <1>1, <1>2, <1>3

\* Two sums are the same when their terms are, one by one.
LEMMA SumInjection ==
  ASSUME NEW f, NEW S, IsFiniteSet(S), \A x \in S : f[x] \in Int, NEW m,
         \A x \in S : f[m[x]] = f[x], \A x, y \in S : m[x] = m[y] => x = y
  PROVE  SumFunctionOnSet(f, {m[x] : x \in S}) = SumFunctionOnSet(f, S)
  <1> DEFINE Sum(V) == SumFunctionOnSet(f, V)
             Image(V) == {m[x] : x \in V}
             Good == {n \in Nat : \A V \in SUBSET S : Cardinality(V) = n =>
                                    IsFiniteSet(Image(V)) /\ Sum(Image(V)) = Sum(V)}
  <1>1. \A V \in SUBSET S : IsFiniteSet(V) /\ Cardinality(V) \in Nat
    BY FS_Subset, FS_CardinalityType
  <1>2. 0 \in Good
    <2> SUFFICES ASSUME NEW V \in SUBSET S, Cardinality(V) = 0
                 PROVE  IsFiniteSet(Image(V)) /\ Sum(Image(V)) = Sum(V)
      OBVIOUS
    <2>1. V = {} /\ Image(V) = {}
      BY <1>1, FS_EmptySet
    <2>2. QED
      BY <2>1, FS_EmptySet
  <1>3. ASSUME NEW n \in Good PROVE n + 1 \in Good
    <2> SUFFICES ASSUME NEW V \in SUBSET S, Cardinality(V) = n + 1
                 PROVE  IsFiniteSet(Image(V)) /\ Sum(Image(V)) = Sum(V)
      OBVIOUS
    <2>1. V # {} /\ IsFiniteSet(V) /\ n \in Nat
      BY <1>1, FS_EmptySet
    <2>2. PICK y \in V : TRUE
      BY <2>1
    <2>3. Cardinality(V \ {y}) = n /\ V \ {y} \in SUBSET S
      BY <2>1, SizeWithout, SMTT(60)
    <2>4. IsFiniteSet(Image(V \ {y})) /\ Sum(Image(V \ {y})) = Sum(V \ {y})
      BY <2>3
    <2>5. Image(V) = Image(V \ {y}) \cup {m[y]} /\ m[y] \notin Image(V \ {y})
      OBVIOUS
    <2>6. \A z \in Image(V \ {y}) \cup {m[y]} : f[z] \in Int
      OBVIOUS
    <2>7. IsFiniteSet(Image(V \ {y}) \cup {m[y]})
      BY <2>4, FS_AddElement
    <2>8. Sum(Image(V \ {y}) \cup {m[y]}) = Sum(Image(V \ {y})) + f[m[y]]
      <3>1. PICK T, z : T = Image(V \ {y}) /\ z = m[y]
        OBVIOUS
      <3> HIDE DEF Image
      <3>2. IsFiniteSet(T) /\ z \notin T /\ \A x \in T \cup {z} : f[x] \in Int
        BY <2>4, <2>5, <2>6, <3>1
      <3> HIDE DEF Good
      <3>3. SumFunctionOnSet(f, T \cup {z}) = SumFunctionOnSet(f, T) + f[z]
        BY <3>2, SumAddElement
      <3>4. QED
        BY <3>1, <3>3
    <2>9. Sum(V \ {y}) = Sum(V) - f[y]
      <3>1. \A x \in V : f[x] \in Int
        OBVIOUS
      <3>2. SumFunctionOnSet(f, V \ {y}) = SumFunctionOnSet(f, V) - f[y]
        <4> HIDE DEF Good, Image
        <4>1. QED
          BY <2>1, <2>2, <3>1, SumRemoveElement
      <3>3. QED
        BY <3>2
    <2>10. Sum(V) \in Int /\ f[y] \in Int /\ f[m[y]] = f[y]
      BY <2>1, SumSplit
    <2> HIDE DEF Image, Sum
    <2>11. QED
      BY <2>4, <2>5, <2>7, <2>8, <2>9, <2>10
  <1>4. Good = Nat
    <2> HIDE DEF Good
    <2>1. Good \in SUBSET Nat
      BY DEF Good
    <2>2. QED
      BY <2>1, <1>2, <1>3, Induction
  <1>5. QED
    BY <1>1, <1>4

-----------------------------------------------------------------------------
(* The queue has a head. *)

\* A nonempty queue has a most urgent entry: the drain always has a candidate.
LEMMA HeadExists ==
  ASSUME TypeOK, parked # {}
  PROVE  \E e \in parked : IsHead(e)
  <1> DEFINE Lag(e) == MaxRank - Rank[e.req]
             Lags == {Lag(e) : e \in parked}
  <1>1. \A e \in parked : /\ e.req \in Requests /\ e.seq \in Nat
                          /\ Lag(e) \in Nat
                          /\ Rank[e.req] \in Int /\ Tiebreak[e.req] \in Nat
    BY BudgetAssumption, SMTT(60) DEF TypeOK, Entries
  <1>2. PICK n1 \in Lags : \A m \in Lags : n1 <= m
    <2>1. Lags \in SUBSET Nat /\ Lags # {}
      BY <1>1
    <2>2. QED
      BY <2>1, LeastNatural
  <1> DEFINE Urgent == {e \in parked : Lag(e) = n1}
             Ties == {Tiebreak[e.req] : e \in Urgent}
  <1>3. PICK n2 \in Ties : \A m \in Ties : n2 <= m
    <2>1. Ties \in SUBSET Nat /\ Ties # {}
      BY <1>1, <1>2
    <2>2. QED
      BY <2>1, LeastNatural
  <1> DEFINE First == {e \in Urgent : Tiebreak[e.req] = n2}
             Seqs == {e.seq : e \in First}
  <1>4. PICK n3 \in Seqs : \A m \in Seqs : n3 <= m
    <2>1. Seqs \in SUBSET Nat /\ Seqs # {}
      BY <1>1, <1>3
    <2>2. QED
      BY <2>1, LeastNatural
  <1>5. PICK e \in First : e.seq = n3
    BY <1>4
  <1>6. ASSUME NEW f \in parked PROVE ~ MoreUrgent(f, e)
    <2>1. e \in parked /\ Lag(e) = n1 /\ Tiebreak[e.req] = n2 /\ e.seq = n3
      BY <1>5
    <2>2. Lag(e) <= Lag(f)
      BY <2>1, <1>2
    <2>3. Rank[f.req] <= Rank[e.req]
      BY <2>1, <2>2, <1>1, BudgetAssumption
    <2>4. CASE Rank[f.req] < Rank[e.req]
      BY <2>1, <2>4, <1>1 DEF MoreUrgent
    <2>5. CASE Rank[f.req] = Rank[e.req]
      <3>1. f \in Urgent
        BY <2>5, <2>1, <1>1, BudgetAssumption
      <3>2. Tiebreak[e.req] <= Tiebreak[f.req]
        BY <3>1, <2>1, <1>3
      <3>3. CASE Tiebreak[f.req] = n2
        <4>1. e.seq <= f.seq
          BY <3>1, <3>3, <2>1, <1>4
        <4>2. QED
          BY <4>1, <2>5, <2>1, <3>3, <1>1 DEF MoreUrgent
      <3>4. CASE Tiebreak[f.req] # n2
        BY <3>4, <3>2, <2>1, <2>5, <1>1 DEF MoreUrgent
      <3>5. QED
        BY <3>3, <3>4
    <2>6. QED
      BY <2>3, <2>4, <2>5, <1>1, <2>1
  <1>7. QED
    BY <1>5, <1>6 DEF IsHead

-----------------------------------------------------------------------------
(* The inductive invariant. *)

\* A request that waits has its entry in the queue.
Queued == \A r \in Requests : phase[r] = "parked" => \E e \in parked : e.req = r

\* A request whose continuation is due has left the queue.
DueServed ==
  \A t \in Threads : \A i \in DOMAIN ready[t] : phase[ready[t][i]] \notin {"idle", "parked"}

IInv == TypeOK /\ Queued /\ DueServed /\ HeadBlocked /\ ParkedFits

\* What a machine reports is a positive number of threads.
LEMMA MachineWidthPositive ==
  ASSUME NEW t \in Threads, NEW m \in MachineWidths(t)
  PROVE  m \in Nat \ {0}
  BY BudgetAssumption DEF MachineWidths

\* The clamp returns a positive width, at most the width asked for and at most
\* the total.
LEMMA ClampBounds ==
  ASSUME NEW w \in Nat \ {0}, NEW n \in Nat \ {0}
  PROVE  /\ Clamp(w, n) \in Nat \ {0}
         /\ Clamp(w, n) <= w
         /\ Clamp(w, n) <= n
  BY DEF Clamp

\* Once a request was made the total is set, so a queue is never ahead of it.
LEMMA LazyTotalBounds ==
  ASSUME TypeOK, ParkedFits, NEW t \in Threads, NEW m \in MachineWidths(t), LazyTotal(m)
  PROVE  /\ total' \in Nat \ {0}
         /\ total # 0 => total' = total
         /\ \A e \in parked : e.width <= total'
  <1>1. m \in Nat \ {0}
    BY MachineWidthPositive
  <1>2. total' \in Nat \ {0} /\ (total # 0 => total' = total)
    BY <1>1 DEF LazyTotal, TypeOK
  <1>3. ASSUME total = 0 PROVE parked = {}
    BY <1>3 DEF TypeOK, ParkedFits, Entries
  <1>4. QED
    BY <1>2, <1>3 DEF ParkedFits

\* An unused budget satisfies the invariant.
LEMMA InitIInv == BudgetInit => IInv
  BY BudgetAssumption DEF BudgetInit, IInv, TypeOK, Queued, DueServed, HeadBlocked, ParkedFits, Phases, Entries

\* acquire() of a request that is admitted at once keeps the invariant: nothing
\* is parked, before or after.
LEMMA AcquireGrantedIInv ==
  ASSUME IInv, NEW t \in Threads, NEW r \in Requests, NEW m \in MachineWidths(t),
         AcquireGranted(t, r, m)
  PROVE  IInv'
  <1> DEFINE want == Clamp(Width[r], total')
  <1>1. total' \in Nat \ {0}
    BY LazyTotalBounds DEF IInv, AcquireGranted
  <1>2. want \in Nat \ {0}
    BY <1>1, ClampBounds, BudgetAssumption
  <1>3. TypeOK'
    BY <1>1, <1>2 DEF IInv, TypeOK, AcquireGranted, Charge, Max2, Phases
  <1>4. Queued' /\ DueServed'
    BY DEF IInv, TypeOK, Queued, DueServed, AcquireGranted
  <1>5. HeadBlocked' /\ ParkedFits'
    BY DEF HeadBlocked, ParkedFits, AcquireGranted
  <1>6. QED
    BY <1>3, <1>4, <1>5 DEF IInv

\* acquire() of a request that is parked keeps it: the clamp makes the new entry
\* fit the total, and the mutex is held until its drain is over.
LEMMA AcquireParkedIInv ==
  ASSUME IInv, NEW t \in Threads, NEW r \in Requests, NEW m \in MachineWidths(t),
         AcquireParked(t, r, m)
  PROVE  IInv'
  <1> DEFINE want == Clamp(Width[r], total')
             entry == [req |-> r, seq |-> seq, width |-> want]
  <1>1. total' \in Nat \ {0} /\ \A e \in parked : e.width <= total'
    BY LazyTotalBounds DEF IInv, AcquireParked
  <1>2. want \in Nat \ {0} /\ want <= total'
    BY <1>1, ClampBounds, BudgetAssumption
  <1>3. parked' = parked \cup {entry} /\ entry \in Entries
    BY <1>2 DEF AcquireParked, IInv, TypeOK, Entries
  <1>4. TypeOK'
    BY <1>1, <1>3 DEF IInv, TypeOK, AcquireParked, Phases
  <1>5. Queued'
    <2>1. entry \in parked' /\ entry.req = r /\ \A e \in parked : e \in parked'
      BY <1>3
    <2>2. \A q \in Requests : q # r => phase'[q] = phase[q]
      BY DEF AcquireParked, IInv, TypeOK
    <2>3. QED
      BY <2>1, <2>2 DEF IInv, Queued
  <1>6. DueServed'
    BY DEF IInv, TypeOK, DueServed, AcquireParked
  <1>7. HeadBlocked'
    BY BudgetAssumption DEF HeadBlocked, AcquireParked
  <1>8. ParkedFits'
    BY <1>1, <1>2, <1>3 DEF ParkedFits
  <1>9. QED
    BY <1>4, <1>5, <1>6, <1>7, <1>8 DEF IInv

\* One turn of the drain moves exactly the head from the queue to the requests
\* to be resumed.
LEMMA DrainHeadIInv ==
  ASSUME IInv, NEW t \in Threads, DrainHead(t)
  PROVE  IInv'
  <1>1. PICK e \in parked : /\ parked' = parked \ {e}
                            /\ Charge(e.width)
                            /\ ready' = [ready EXCEPT ![t] = Append(@, e.req)]
                            /\ phase' = [phase EXCEPT ![e.req] = "drained"]
                            /\ grant' = [grant EXCEPT ![e.req] = e.width]
    BY DEF DrainHead
  <1>2. e.req \in Requests /\ e.width \in Nat \ {0}
    BY DEF IInv, TypeOK, Entries
  <1>3. ready'[t] = Append(ready[t], e.req) /\ \A u \in Threads : u # t => ready'[u] = ready[u]
    BY <1>1 DEF IInv, TypeOK
  <1>4. TypeOK'
    <2>1. ready' \in [Threads -> Seq(Requests)]
      BY <1>1, <1>2 DEF IInv, TypeOK
    <2>2. QED
      BY <1>1, <1>2, <2>1, SMTT(60) DEF IInv, TypeOK, DrainHead, Charge, Max2, Phases
  <1>5. Queued'
    BY <1>1, <1>2 DEF IInv, TypeOK, Queued
  <1>6. DueServed'
    <2> SUFFICES ASSUME NEW u \in Threads, NEW i \in DOMAIN ready'[u]
                 PROVE  phase'[ready'[u][i]] \notin {"idle", "parked"}
      BY DEF DueServed
    <2>1. CASE u # t
      BY <2>1, <1>1, <1>2, <1>3 DEF IInv, TypeOK, DueServed
    <2>2. CASE u = t /\ i \in DOMAIN ready[t]
      <3>1. ready'[t][i] = ready[t][i] /\ ready[t][i] \in Requests
        BY <2>2, <1>2, <1>3 DEF IInv, TypeOK
      <3>2. QED
        BY <2>2, <3>1, <1>1, <1>2 DEF IInv, TypeOK, DueServed
    <2>3. CASE u = t /\ i \notin DOMAIN ready[t]
      <3>1. ready'[t][i] = e.req
        BY <2>3, <1>2, <1>3 DEF IInv, TypeOK
      <3>2. QED
        BY <2>3, <3>1, <1>1, <1>2 DEF IInv, TypeOK
    <2>4. QED
      BY <2>1, <2>2, <2>3
  <1>7. HeadBlocked'
    BY BudgetAssumption DEF HeadBlocked, DrainHead
  <1>8. ParkedFits'
    BY <1>1 DEF IInv, ParkedFits, DrainHead
  <1>9. QED
    BY <1>4, <1>5, <1>6, <1>7, <1>8 DEF IInv

\* The drain gives the mutex up only with a head that does not fit.
LEMMA DrainStopIInv ==
  ASSUME IInv, NEW t \in Threads, DrainStop(t)
  PROVE  IInv'
  BY DEF IInv, TypeOK, Queued, DueServed, HeadBlocked, ParkedFits, DrainStop, IsHead, Fits, MoreUrgent

\* A continuation runs for a request that has left the queue.
LEMMA ResumeIInv ==
  ASSUME IInv, NEW t \in Threads, Resume(t)
  PROVE  IInv'
  <1>1. Head(ready[t]) \in Requests /\ Tail(ready[t]) \in Seq(Requests)
    BY DEF Resume, IInv, TypeOK
  <1>2. TypeOK'
    BY <1>1 DEF Resume, IInv, TypeOK, Phases
  <1>3. Queued'
    BY <1>1 DEF Resume, IInv, TypeOK, Queued
  <1>4. DueServed'
    <2> SUFFICES ASSUME NEW u \in Threads, NEW i \in DOMAIN ready'[u]
                 PROVE  phase'[ready'[u][i]] \notin {"idle", "parked"}
      BY DEF DueServed
    <2>1. \E j \in DOMAIN ready[u] : ready'[u][i] = ready[u][j] /\ ready[u][j] \in Requests
      <3>1. CASE u # t
        BY <3>1 DEF Resume, IInv, TypeOK
      <3>2. CASE u = t
        <4>1. ready'[u] = Tail(ready[u]) /\ ready[u] \in Seq(Requests) /\ ready[u] # <<>>
          BY <3>2 DEF Resume, IInv, TypeOK
        <4>2. i + 1 \in DOMAIN ready[u] /\ ready'[u][i] = ready[u][i + 1]
          BY <4>1
        <4>3. QED
          BY <4>1, <4>2
      <3>3. QED
        BY <3>1, <3>2
    <2>2. QED
      BY <2>1, <1>1 DEF Resume, IInv, TypeOK, DueServed
  <1>5. HeadBlocked' /\ ParkedFits'
    BY DEF Resume, IInv, HeadBlocked, ParkedFits, IsHead, Fits, MoreUrgent
  <1>6. QED
    BY <1>2, <1>3, <1>4, <1>5 DEF IInv

\* release() keeps the invariant, for it drops the mutex to nobody but its drain.
LEMMA ReleaseIInv ==
  ASSUME IInv, NEW t \in Threads, NEW r \in Requests, NEW p \in Phases \ {"idle", "parked"},
         Release(t, r, p)
  PROVE  IInv'
  <1>1. TypeOK'
    BY DEF Release, TakeBack, IInv, TypeOK
  <1>2. Queued' /\ DueServed'
    BY DEF Release, IInv, TypeOK, Queued, DueServed
  <1>3. HeadBlocked' /\ ParkedFits'
    BY BudgetAssumption DEF Release, IInv, HeadBlocked, ParkedFits
  <1>4. QED
    BY <1>1, <1>2, <1>3 DEF IInv

\* recharge() keeps it without a drain: a larger charge admits nothing new.
LEMMA ReclaimIInv ==
  ASSUME IInv, NEW t \in Threads, NEW r \in Requests, Reclaim(t, r)
  PROVE  IInv'
  <1>1. TypeOK'
    BY DEF Reclaim, IInv, TypeOK, Phases
  <1>2. Queued' /\ DueServed'
    BY DEF Reclaim, IInv, TypeOK, Queued, DueServed
  <1>3. HeadBlocked'
    <2>1. \A e \in parked : ~ Fits(e.width, total) => ~ Fits(e.width, total)'
      BY DEF Reclaim, IInv, TypeOK, Entries, Fits
    <2>2. QED
      BY <2>1 DEF Reclaim, IInv, HeadBlocked, IsHead, MoreUrgent, Fits
  <1>4. ParkedFits'
    BY DEF Reclaim, IInv, ParkedFits
  <1>5. QED
    BY <1>1, <1>2, <1>3, <1>4 DEF IInv

\* sync_machine_width() keeps it: the total moves only while nothing is parked.
LEMMA SyncMachineWidthIInv ==
  ASSUME IInv, NEW t \in Threads, NEW m \in MachineWidths(t), SyncMachineWidth(t, m)
  PROVE  IInv'
  <1>1. TypeOK'
    BY MachineWidthPositive DEF SyncMachineWidth, IInv, TypeOK
  <1>2. Queued' /\ DueServed'
    BY DEF SyncMachineWidth, IInv, TypeOK, Queued, DueServed
  <1>3. HeadBlocked' /\ ParkedFits'
    BY DEF SyncMachineWidth, IInv, HeadBlocked, ParkedFits, IsHead, MoreUrgent, Fits
  <1>4. QED
    BY <1>1, <1>2, <1>3 DEF IInv

\* reset_peak() touches nothing the invariant speaks of.
LEMMA ResetPeakIInv ==
  ASSUME IInv, NEW t \in Threads, ResetPeak(t)
  PROVE  IInv'
  BY DEF ResetPeak, IInv, TypeOK, Queued, DueServed, HeadBlocked, ParkedFits, IsHead, MoreUrgent, Fits

\* The invariant holds after every step of the budget.
LEMMA NextIInv == IInv /\ [Next]_budgetVars => IInv'
  <1> SUFFICES ASSUME IInv, [Next]_budgetVars PROVE IInv'
    OBVIOUS
  <1>1. CASE UNCHANGED budgetVars
    BY <1>1 DEF budgetVars, IInv, TypeOK, Queued, DueServed, HeadBlocked, ParkedFits, IsHead, MoreUrgent, Fits
  <1>2. CASE Next
    <2>1. PICK t \in Threads :
            \/ DrainHead(t) \/ DrainStop(t) \/ Resume(t) \/ ResetPeak(t)
            \/ \E r \in Requests : Return(t, r) \/ Lend(t, r) \/ Reclaim(t, r)
            \/ \E r \in Requests, m \in MachineWidths(t) : Acquire(t, r, m)
            \/ \E m \in MachineWidths(t) : SyncMachineWidth(t, m)
      BY <1>2 DEF Next
    <2>2. CASE DrainHead(t) \/ DrainStop(t) \/ Resume(t) \/ ResetPeak(t)
      BY <2>2, DrainHeadIInv, DrainStopIInv, ResumeIInv, ResetPeakIInv
    <2>3. CASE \E r \in Requests : Return(t, r) \/ Lend(t, r) \/ Reclaim(t, r)
      BY <2>3, ReleaseIInv, ReclaimIInv DEF Return, Lend, Phases
    <2>4. CASE \E r \in Requests, m \in MachineWidths(t) : Acquire(t, r, m)
      BY <2>4, AcquireGrantedIInv, AcquireParkedIInv DEF Acquire
    <2>5. CASE \E m \in MachineWidths(t) : SyncMachineWidth(t, m)
      BY <2>5, SyncMachineWidthIInv
    <2>6. QED
      BY <2>1, <2>2, <2>3, <2>4, <2>5
  <1>3. QED
    BY <1>1, <1>2

\* The inductive invariant of the budget holds in every reachable state.
THEOREM Invariance == Spec => []IInv
  BY InitIInv, NextIInv, PTL DEF Spec

-----------------------------------------------------------------------------
(* The results. *)

\* The counters stay natural numbers and the queues hold requests of the run.
THEOREM TypeCorrect == Spec => []TypeOK
  BY Invariance, PTL DEF IInv

\* No call leaves a request parked that the room it made would admit.
THEOREM HeadAlwaysBlocked == Spec => []HeadBlocked
  BY Invariance, PTL DEF IInv

\* A parked width fits the total of the moment, however the total moved.
THEOREM ParkedAlwaysFits == Spec => []ParkedFits
  BY Invariance, PTL DEF IInv

\* A parked request always waits for width that is charged: the queue cannot
\* strand a request on an idle machine.
THEOREM NeverStranded == Spec => []NoStranding
  <1>1. IInv => NoStranding
    <2> SUFFICES ASSUME IInv, mutex = NoThread, parked # {} PROVE inUse > 0
      BY DEF NoStranding
    <2>1. PICK e \in parked : IsHead(e)
      BY HeadExists DEF IInv
    <2>2. ~ (inUse + e.width <= total) /\ e.width <= total
      BY <2>1 DEF IInv, HeadBlocked, ParkedFits, Fits
    <2>3. inUse \in Nat /\ total \in Nat /\ e.width \in Nat
      BY DEF IInv, TypeOK, Entries
    <2>4. QED
      BY <2>2, <2>3
  <1>2. QED
    BY <1>1, Invariance, PTL

\* Requests are admitted by an acquire that finds no queue or by a drain.
LEMMA AdmittedBy ==
  ASSUME IInv, Next, NEW s \in Requests, Admitted(s)
  PROVE  \/ parked = {} /\ parked' = {} /\ inUse' <= total'
         \/ \E e \in parked : /\ IsHead(e) /\ e.req = s
                              /\ inUse' <= total'
  <1>1. PICK t \in Threads :
          \/ DrainHead(t) \/ DrainStop(t) \/ Resume(t) \/ ResetPeak(t)
          \/ \E r \in Requests : Return(t, r) \/ Lend(t, r) \/ Reclaim(t, r)
          \/ \E r \in Requests, m \in MachineWidths(t) : Acquire(t, r, m)
          \/ \E m \in MachineWidths(t) : SyncMachineWidth(t, m)
    BY DEF Next
  <1>2. CASE DrainHead(t)
    <2>1. PICK e \in parked : /\ IsHead(e) /\ Fits(e.width, total)
                              /\ Charge(e.width)
                              /\ phase' = [phase EXCEPT ![e.req] = "drained"]
                              /\ total' = total
      BY <1>2 DEF DrainHead
    <2>2. inUse' <= total'
      BY <2>1 DEF Fits, Charge
    <2>3. e.req = s
      BY <2>1 DEF Admitted, IInv, TypeOK
    <2>4. QED
      BY <2>1, <2>2, <2>3
  <1>3. CASE Resume(t)
    <2>1. 1 \in DOMAIN ready[t] /\ Head(ready[t]) = ready[t][1]
      BY <1>3 DEF Resume, IInv, TypeOK
    <2>2. phase[Head(ready[t])] \notin {"idle", "parked"}
      BY <2>1 DEF IInv, DueServed
    <2>3. QED
      BY <1>3, <2>2 DEF Resume, Admitted, IInv, TypeOK
  <1>4. CASE \E r \in Requests, m \in MachineWidths(t) : Acquire(t, r, m)
    <2>1. PICK r \in Requests, m \in MachineWidths(t) : Acquire(t, r, m)
      BY <1>4
    <2>2. CASE AcquireParked(t, r, m)
      BY <2>2 DEF AcquireParked, Admitted, IInv, TypeOK
    <2>3. CASE AcquireGranted(t, r, m)
      BY <2>3 DEF AcquireGranted, Fits, Charge
    <2>4. QED
      BY <2>1, <2>2, <2>3 DEF Acquire
  <1>5. CASE \E r \in Requests : Return(t, r) \/ Lend(t, r) \/ Reclaim(t, r)
    BY <1>5 DEF Return, Lend, Release, Reclaim, Admitted, IInv, TypeOK
  <1>6. CASE \/ DrainStop(t) \/ ResetPeak(t)
             \/ \E m \in MachineWidths(t) : SyncMachineWidth(t, m)
    BY <1>6 DEF DrainStop, ResetPeak, SyncMachineWidth, Admitted
  <1>7. QED
    BY <1>1, <1>2, <1>3, <1>4, <1>5, <1>6

\* Head-of-line blocking: no request is admitted past a more urgent one.
THEOREM HeadOfLine == Spec => NoOvertaking
  <1>1. ASSUME IInv, Next PROVE AdmitsInOrder
    <2> SUFFICES ASSUME NEW r \in Requests, NEW s \in Requests, Waits(r), Admitted(s)
                 PROVE  \/ Rank[s] > Rank[r]
                        \/ Rank[s] = Rank[r] /\ Tiebreak[s] <= Tiebreak[r]
      BY DEF AdmitsInOrder
    <2>1. PICK f \in parked : f.req = r
      BY <1>1 DEF Waits, IInv, Queued
    <2>2. PICK e \in parked : IsHead(e) /\ e.req = s
      BY <1>1, <2>1, AdmittedBy
    <2>3. ~ MoreUrgent(f, e)
      BY <2>2 DEF IsHead
    <2>4. /\ Rank[r] \in Int /\ Rank[s] \in Int
          /\ Tiebreak[r] \in Int /\ Tiebreak[s] \in Int
      BY BudgetAssumption
    <2>5. ~ (Rank[r] > Rank[s]) /\ ~ (Rank[r] = Rank[s] /\ Tiebreak[r] < Tiebreak[s])
      BY <2>1, <2>2, <2>3 DEF MoreUrgent
    <2>6. QED
      BY <2>4, <2>5
  <1>2. IInv /\ [Next]_budgetVars => [AdmitsInOrder]_budgetVars
    BY <1>1
  <1>3. QED
    BY <1>2, Invariance, PTL DEF Spec, NoOvertaking

\* An admission never oversubscribes the machine.
THEOREM AdmissionsFit == Spec => AdmissionWithinTotal
  <1>1. ASSUME IInv, Next PROVE AdmitsWithinTotal
    BY <1>1, AdmittedBy DEF AdmitsWithinTotal
  <1>2. IInv /\ [Next]_budgetVars => [AdmitsWithinTotal]_budgetVars
    BY <1>1
  <1>3. QED
    BY <1>2, Invariance, PTL DEF Spec, AdmissionWithinTotal

-----------------------------------------------------------------------------
(* The accounts. *)

\* A request is in the queue once, and its phase says so.
QueuedOnce ==
  /\ \A e \in parked : phase[e.req] = "parked"
  /\ \A e, f \in parked : e.req = f.req => e = f

\* A continuation is due once, for a request whose width is charged already.
DueOnce ==
  /\ \A t \in Threads : \A i \in DOMAIN ready[t] : phase[ready[t][i]] = "drained"
  /\ \A t, u \in Threads : \A i \in DOMAIN ready[t], j \in DOMAIN ready[u] :
       ready[t][i] = ready[u][j] => t = u /\ i = j

\* The requests that were made, of which there are finitely many at any time.
Begun == {r \in Requests : phase[r] # "idle"}

Account == QueuedOnce /\ DueOnce /\ IsFiniteSet(Begun) /\ Conservation /\ OvershootBound

\* A change of phase finds at most one more request that was made.
LEMMA BegunFinite ==
  ASSUME TypeOK, IsFiniteSet(Begun), NEW r \in Requests, NEW p \in Phases,
         phase' = [phase EXCEPT ![r] = p]
  PROVE  IsFiniteSet(Begun')
  <1>1. Begun' \in SUBSET (Begun \cup {r})
    BY DEF Begun, TypeOK
  <1>2. QED
    BY <1>1, FS_AddElement, FS_Subset

\* A part of the requests that were made adds up to a natural number, no share of
\* which is larger.
LEMMA WidthInNat ==
  ASSUME TypeOK, IsFiniteSet(Begun), NEW P, "idle" \notin P
  PROVE  /\ WidthIn(P) \in Nat
         /\ \A r \in Requests : phase[r] \in P => grant[r] <= WidthIn(P)
  <1> DEFINE S == {r \in Requests : phase[r] \in P}
  <1>1. S \in SUBSET Begun
    BY DEF Begun
  <1>2. IsFiniteSet(S)
    BY <1>1, FS_Subset
  <1>3. \A x \in S : grant[x] \in Nat
    BY DEF TypeOK
  <1>4. SumFunctionOnSet(grant, S) \in Nat /\ \A y \in S : grant[y] <= SumFunctionOnSet(grant, S)
    BY <1>2, <1>3, SumNat
  <1>5. QED
    BY <1>4 DEF WidthIn

\* When one request changes its phase and its grant, its old share leaves the sum
\* and its new one enters.
LEMMA WidthInStep ==
  ASSUME TypeOK, IsFiniteSet(Begun), NEW P, "idle" \notin P,
         NEW r \in Requests, NEW p \in Phases, NEW w \in Nat,
         phase' = [phase EXCEPT ![r] = p], grant' = [grant EXCEPT ![r] = w]
  PROVE  WidthIn(P)' = WidthIn(P) - (IF phase[r] \in P THEN grant[r] ELSE 0)
                                  + (IF p \in P THEN w ELSE 0)
  <1> DEFINE S == {q \in Requests : phase[q] \in P}
             T == {q \in Requests : phase'[q] \in P}
             R == S \ {r}
  <1>1. S \in SUBSET Begun /\ R \in SUBSET Begun /\ r \notin R
    BY DEF Begun
  <1>2. IsFiniteSet(S) /\ IsFiniteSet(R)
    BY <1>1, FS_Subset
  <1>3. phase'[r] = p /\ grant'[r] = w
    BY DEF TypeOK
  <1>4. \A q \in Requests : q # r => phase'[q] = phase[q] /\ grant'[q] = grant[q]
    BY DEF TypeOK
  <1>5. (phase[r] \in P => r \in S) /\ (phase[r] \notin P => R = S)
    OBVIOUS
  <1>6. T = IF p \in P THEN R \cup {r} ELSE R
    BY <1>3, <1>4
  <1>7. \A x \in S \cup {r} : grant[x] \in Int
    BY DEF TypeOK
  <1>8. \A x \in R \cup {r} : grant'[x] \in Int
    BY <1>1, <1>3, <1>4 DEF TypeOK, Begun
  <1>9. SumFunctionOnSet(grant, R) = SumFunctionOnSet(grant, S) - (IF phase[r] \in P THEN grant[r] ELSE 0)
    <2> HIDE DEF S
    <2>1. CASE phase[r] \in P
      <3>1. r \in S /\ \A x \in S : grant[x] \in Int
        BY <2>1, <1>5, <1>7
      <3>2. QED
        BY <1>2, <2>1, <3>1, SumRemoveElement
    <2>2. CASE phase[r] \notin P
      <3>1. R = S /\ \A x \in S : grant[x] \in Int
        BY <2>2, <1>5, <1>7
      <3>2. SumFunctionOnSet(grant, S) \in Int
        BY <1>2, <3>1, SumSplit
      <3>3. QED
        BY <2>2, <3>1, <3>2
    <2>3. QED
      BY <2>1, <2>2
  <1>10. SumFunctionOnSet(grant', R) = SumFunctionOnSet(grant, R)
    <2>1. Agree(grant', grant, R)
      BY <1>1, <1>4 DEF Agree, Begun
    <2>2. QED
      BY <1>2, <2>1, SumCongruence
  <1>11. SumFunctionOnSet(grant', T) = SumFunctionOnSet(grant', R) + (IF p \in P THEN w ELSE 0)
    <2> HIDE DEF R, T
    <2>1. SumFunctionOnSet(grant', R) \in Int
      BY <1>2, <1>8, SumSplit
    <2>2. CASE p \in P
      <3>1. r \notin R /\ IsFiniteSet(R) /\ \A x \in R \cup {r} : grant'[x] \in Int
        BY <1>1, <1>2, <1>8
      <3>2. SumFunctionOnSet(grant', R \cup {r}) = SumFunctionOnSet(grant', R) + grant'[r]
        BY <3>1, SumAddElement
      <3>3. QED
        BY <1>3, <1>6, <2>2, <3>2
    <2>3. CASE p \notin P
      BY <1>6, <2>1, <2>3
    <2>4. QED
      BY <2>2, <2>3
  <1>12. QED
    BY <1>9, <1>10, <1>11 DEF WidthIn

\* What moves in the sum over P when r goes to phase p with the grant w.
Change(P, r, p, w) == (IF p \in P THEN w ELSE 0) - (IF phase[r] \in P THEN grant[r] ELSE 0)

\* What a step does to both sums that the accounts speak of.
LEMMA AccountStep ==
  ASSUME TypeOK, IsFiniteSet(Begun), NEW r \in Requests, NEW p \in Phases, NEW w \in Nat,
         phase' = [phase EXCEPT ![r] = p], grant' = [grant EXCEPT ![r] = w]
  PROVE  /\ WidthIn(ChargedPhases) \in Nat /\ WidthIn({"resumed"}) \in Nat
         /\ phase[r] \in ChargedPhases => grant[r] <= WidthIn(ChargedPhases)
         /\ WidthIn(ChargedPhases)' = WidthIn(ChargedPhases) + Change(ChargedPhases, r, p, w)
         /\ WidthIn({"resumed"})' = WidthIn({"resumed"}) + Change({"resumed"}, r, p, w)
  <1>1. "idle" \notin ChargedPhases /\ "idle" \notin {"resumed"}
    BY DEF ChargedPhases
  <1>2. /\ WidthIn(ChargedPhases) \in Nat /\ WidthIn({"resumed"}) \in Nat
        /\ phase[r] \in ChargedPhases => grant[r] <= WidthIn(ChargedPhases)
    BY <1>1, WidthInNat
  <1>3. grant[r] \in Nat
    BY DEF TypeOK
  <1>4. WidthIn(ChargedPhases)' = WidthIn(ChargedPhases) + Change(ChargedPhases, r, p, w)
    <2>1. WidthIn(ChargedPhases)' = WidthIn(ChargedPhases) - (IF phase[r] \in ChargedPhases THEN grant[r] ELSE 0)
                                        + (IF p \in ChargedPhases THEN w ELSE 0)
      BY <1>1, WidthInStep
    <2>2. QED
      BY <1>2, <1>3, <2>1 DEF Change
  <1>5. WidthIn({"resumed"})' = WidthIn({"resumed"}) + Change({"resumed"}, r, p, w)
    <2>1. WidthIn({"resumed"})' = WidthIn({"resumed"}) - (IF phase[r] \in {"resumed"} THEN grant[r] ELSE 0)
                                        + (IF p \in {"resumed"} THEN w ELSE 0)
      BY <1>1, WidthInStep
    <2>2. QED
      BY <1>2, <1>3, <2>1 DEF Change
  <1>6. QED
    BY <1>2, <1>4, <1>5

\* An unused budget has nothing on its accounts.
LEMMA InitAccount == BudgetInit => Account
  <1> SUFFICES ASSUME BudgetInit PROVE Account
    OBVIOUS
  <1>1. Begun = {} /\ \A P : "idle" \notin P => {r \in Requests : phase[r] \in P} = {}
    BY DEF BudgetInit, Begun
  <1>2. WidthIn(ChargedPhases) = 0 /\ WidthIn({"resumed"}) = 0
    BY <1>1, SumEmpty DEF WidthIn, ChargedPhases
  <1>3. QueuedOnce /\ DueOnce
    BY DEF BudgetInit, QueuedOnce, DueOnce
  <1>4. QED
    BY <1>1, <1>2, <1>3, FS_EmptySet DEF Account, Conservation, OvershootBound, BudgetInit

\* Steps that touch neither phases nor grants, and the charge or the total only as
\* the bound allows.
LEMMA QuietAccount ==
  ASSUME IInv, Account, UNCHANGED <<inUse, parked, ready, phase, grant>>,
         inUse <= total' + WidthIn({"resumed"})
  PROVE  Account'
  BY DEF Account, QueuedOnce, DueOnce, Begun, Conservation, OvershootBound, WidthIn

\* acquire(): the width is charged, and it fits.
LEMMA AcquireGrantedAccount ==
  ASSUME IInv, Account, NEW t \in Threads, NEW r \in Requests, NEW m \in MachineWidths(t),
         AcquireGranted(t, r, m)
  PROVE  Account'
  <1> DEFINE w == Clamp(Width[r], total')
  <1>1. TypeOK /\ total' \in Nat \ {0} /\ w \in Nat
    BY LazyTotalBounds, ClampBounds, BudgetAssumption DEF IInv, AcquireGranted
  <1> HIDE DEF w
  <1>2. /\ phase[r] = "idle" /\ phase' = [phase EXCEPT ![r] = "held"]
        /\ grant' = [grant EXCEPT ![r] = w]
        /\ inUse' = inUse + w /\ inUse + w <= total'
        /\ UNCHANGED <<parked, ready>>
    BY DEF AcquireGranted, Charge, Fits, w
  <1>3. "held" \in Phases /\ "held" \in ChargedPhases /\ "idle" \notin ChargedPhases
    BY DEF Phases, ChargedPhases
  <1>4. /\ WidthIn(ChargedPhases)' = WidthIn(ChargedPhases) + w
        /\ WidthIn({"resumed"})' = WidthIn({"resumed"})
        /\ WidthIn(ChargedPhases) \in Nat /\ WidthIn({"resumed"}) \in Nat
    <2>1. IsFiniteSet(Begun)
      BY DEF Account
    <2>2. /\ WidthIn(ChargedPhases) \in Nat /\ WidthIn({"resumed"}) \in Nat
          /\ WidthIn(ChargedPhases)' = WidthIn(ChargedPhases) + Change(ChargedPhases, r, "held", w)
          /\ WidthIn({"resumed"})' = WidthIn({"resumed"}) + Change({"resumed"}, r, "held", w)
      BY <1>1, <1>2, <1>3, <2>1, AccountStep
    <2>3. QED
      BY <1>1, <1>2, <1>3, <2>2 DEF Change
  <1>5. Conservation' /\ OvershootBound'
    BY <1>1, <1>2, <1>4 DEF Account, Conservation, OvershootBound
  <1>6. QueuedOnce' /\ DueOnce'
    BY <1>1, <1>2 DEF Account, QueuedOnce, DueOnce, TypeOK, Entries
  <1>7. IsFiniteSet(Begun')
    BY <1>1, <1>2, <1>3, BegunFinite DEF Account
  <1>8. QED
    BY <1>5, <1>6, <1>7 DEF Account

\* acquire() of a request that is parked: nothing is charged, and the request, idle
\* before, had neither an entry nor a continuation.
LEMMA AcquireParkedAccount ==
  ASSUME IInv, Account, NEW t \in Threads, NEW r \in Requests, NEW m \in MachineWidths(t),
         AcquireParked(t, r, m)
  PROVE  Account'
  <1>1. /\ TypeOK /\ total \in Nat /\ total' \in Nat \ {0} /\ (total # 0 => total' = total)
        /\ inUse \in Nat
    BY LazyTotalBounds DEF IInv, TypeOK, AcquireParked
  <1>2. PICK e : e.req = r /\ parked' = parked \cup {e}
    BY DEF AcquireParked
  <1>3. /\ phase[r] = "idle" /\ phase' = [phase EXCEPT ![r] = "parked"]
        /\ UNCHANGED <<inUse, ready, grant>>
    BY DEF AcquireParked
  <1>4. "parked" \in Phases /\ "parked" \notin ChargedPhases /\ "idle" \notin ChargedPhases
    BY DEF Phases, ChargedPhases
  <1>5. grant' = [grant EXCEPT ![r] = grant[r]] /\ grant[r] \in Nat
    BY <1>1, <1>3 DEF TypeOK
  <1>6. /\ WidthIn(ChargedPhases)' = WidthIn(ChargedPhases)
        /\ WidthIn({"resumed"})' = WidthIn({"resumed"})
        /\ WidthIn({"resumed"}) \in Nat
    <2>1. IsFiniteSet(Begun)
      BY DEF Account
    <2>2. /\ WidthIn(ChargedPhases) \in Nat /\ WidthIn({"resumed"}) \in Nat
          /\ WidthIn(ChargedPhases)' = WidthIn(ChargedPhases) + Change(ChargedPhases, r, "parked", grant[r])
          /\ WidthIn({"resumed"})' = WidthIn({"resumed"}) + Change({"resumed"}, r, "parked", grant[r])
      BY <1>1, <1>3, <1>4, <1>5, <2>1, AccountStep
    <2>3. QED
      BY <1>1, <1>3, <1>4, <1>5, <2>2 DEF Change
  <1>7. Conservation' /\ OvershootBound'
    BY <1>1, <1>3, <1>6 DEF Account, Conservation, OvershootBound
  <1>8. QueuedOnce'
    <2>1. \A f \in parked : f.req \in Requests /\ f.req # r /\ phase'[f.req] = "parked"
      BY <1>1, <1>3 DEF Account, QueuedOnce, TypeOK, Entries
    <2>2. phase'[r] = "parked"
      BY <1>1, <1>3 DEF TypeOK
    <2>3. QED
      BY <1>2, <2>1, <2>2 DEF Account, QueuedOnce
  <1>9. DueOnce'
    BY <1>1, <1>3 DEF Account, DueOnce, TypeOK
  <1>10. IsFiniteSet(Begun')
    BY <1>1, <1>3, <1>4, BegunFinite DEF Account
  <1>11. QED
    BY <1>7, <1>8, <1>9, <1>10 DEF Account

\* One turn of the drain charges the head, which leaves the queue for good.
LEMMA DrainHeadAccount ==
  ASSUME IInv, Account, NEW t \in Threads, DrainHead(t)
  PROVE  Account'
  <1>1. PICK e \in parked : /\ Fits(e.width, total)
                            /\ parked' = parked \ {e}
                            /\ Charge(e.width)
                            /\ ready' = [ready EXCEPT ![t] = Append(@, e.req)]
                            /\ phase' = [phase EXCEPT ![e.req] = "drained"]
                            /\ grant' = [grant EXCEPT ![e.req] = e.width]
                            /\ total' = total
    BY DEF DrainHead
  <1> DEFINE r == e.req
             w == e.width
  <1>2. TypeOK /\ r \in Requests /\ w \in Nat /\ phase[r] = "parked" /\ inUse \in Nat /\ total \in Nat
    BY DEF IInv, TypeOK, Entries, Account, QueuedOnce
  <1>3. "drained" \in Phases /\ "drained" \in ChargedPhases /\ "parked" \notin ChargedPhases
    BY DEF Phases, ChargedPhases
  <1>4. /\ WidthIn(ChargedPhases)' = WidthIn(ChargedPhases) + w
        /\ WidthIn({"resumed"})' = WidthIn({"resumed"})
        /\ WidthIn(ChargedPhases) \in Nat /\ WidthIn({"resumed"}) \in Nat
    <2>1. IsFiniteSet(Begun)
      BY DEF Account
    <2>2. /\ WidthIn(ChargedPhases) \in Nat /\ WidthIn({"resumed"}) \in Nat
          /\ WidthIn(ChargedPhases)' = WidthIn(ChargedPhases) + Change(ChargedPhases, r, "drained", w)
          /\ WidthIn({"resumed"})' = WidthIn({"resumed"}) + Change({"resumed"}, r, "drained", w)
      BY <1>1, <1>2, <1>3, <2>1, AccountStep
    <2>3. QED
      BY <1>1, <1>2, <1>3, <2>2 DEF Change
  <1>5. Conservation' /\ OvershootBound'
    BY <1>1, <1>2, <1>4 DEF Account, Conservation, OvershootBound, Charge, Fits
  <1>6. QueuedOnce'
    BY <1>1, <1>2 DEF Account, QueuedOnce, TypeOK, Entries
  <1>7. DueOnce'
    <2>1. ready'[t] = Append(ready[t], r) /\ \A u \in Threads : u # t => ready'[u] = ready[u]
      BY <1>1, <1>2 DEF TypeOK
    <2>2. ready[t] \in Seq(Requests)
      BY <1>2 DEF TypeOK
    <2>3. \A u \in Threads : \A i \in DOMAIN ready'[u] :
            \/ u = t /\ i = Len(ready[t]) + 1 /\ ready'[u][i] = r
            \/ i \in DOMAIN ready[u] /\ ready'[u][i] = ready[u][i]
      BY <1>2, <2>1, <2>2, SMTT(60)
    <2>4. \A u \in Threads : \A i \in DOMAIN ready[u] :
            /\ ready[u][i] \in Requests /\ ready[u][i] # r
            /\ phase'[ready[u][i]] = "drained"
      BY <1>1, <1>2 DEF Account, DueOnce, TypeOK
    <2>5. phase'[r] = "drained"
      BY <1>1, <1>2 DEF TypeOK
    <2>6. \A u \in Threads : \A i \in DOMAIN ready'[u] : phase'[ready'[u][i]] = "drained"
      BY <2>3, <2>4, <2>5
    <2>7. ASSUME NEW u \in Threads, NEW v \in Threads, NEW i \in DOMAIN ready'[u],
                 NEW j \in DOMAIN ready'[v], ready'[u][i] = ready'[v][j]
          PROVE  u = v /\ i = j
      BY <2>3, <2>4, <2>7 DEF Account, DueOnce
    <2>8. QED
      BY <2>6, <2>7 DEF DueOnce
  <1>8. IsFiniteSet(Begun')
    BY <1>1, <1>2, <1>3, BegunFinite DEF Account
  <1>9. QED
    BY <1>5, <1>6, <1>7, <1>8 DEF Account

\* A continuation keeps the width its request was charged: it is due once, so no
\* later release has it too.
LEMMA ResumeAccount ==
  ASSUME IInv, Account, NEW t \in Threads, Resume(t)
  PROVE  Account'
  <1> DEFINE r == Head(ready[t])
  <1>1. /\ TypeOK /\ ready[t] \in Seq(Requests) /\ ready[t] # <<>>
        /\ 1 \in DOMAIN ready[t] /\ r = ready[t][1] /\ r \in Requests
    BY DEF IInv, TypeOK, Resume
  <1>2. phase[r] = "drained"
    BY <1>1 DEF Account, DueOnce
  <1> HIDE DEF r
  <1>3. /\ phase' = [phase EXCEPT ![r] = "held"]
        /\ ready' = [ready EXCEPT ![t] = Tail(@)]
        /\ UNCHANGED <<inUse, total, parked, grant>>
    BY DEF Resume, r
  <1>4. "held" \in Phases /\ "held" \in ChargedPhases /\ "drained" \in ChargedPhases
    BY DEF Phases, ChargedPhases
  <1>5. grant' = [grant EXCEPT ![r] = grant[r]] /\ grant[r] \in Nat
    BY <1>1, <1>3 DEF TypeOK
  <1>6. /\ WidthIn(ChargedPhases)' = WidthIn(ChargedPhases)
        /\ WidthIn({"resumed"})' = WidthIn({"resumed"})
    <2>1. IsFiniteSet(Begun)
      BY DEF Account
    <2>2. /\ WidthIn(ChargedPhases) \in Nat /\ WidthIn({"resumed"}) \in Nat
          /\ WidthIn(ChargedPhases)' = WidthIn(ChargedPhases) + Change(ChargedPhases, r, "held", grant[r])
          /\ WidthIn({"resumed"})' = WidthIn({"resumed"}) + Change({"resumed"}, r, "held", grant[r])
      BY <1>1, <1>3, <1>4, <1>5, <2>1, AccountStep, ZenonT(60)
    <2>3. QED
      BY <1>2, <1>4, <1>5, <2>2 DEF Change
  <1>7. Conservation' /\ OvershootBound'
    BY <1>3, <1>6 DEF Account, Conservation, OvershootBound
  <1>8. QueuedOnce'
    BY <1>1, <1>2, <1>3 DEF Account, QueuedOnce, TypeOK, Entries
  <1>9. DueOnce'
    <2>1. /\ \A u \in Threads : u # t => ready'[u] = ready[u]
          /\ ready'[t] = Tail(ready[t])
      BY <1>1, <1>3 DEF TypeOK
    <2>2. \A i \in DOMAIN ready'[t] : i + 1 \in DOMAIN ready[t] /\ ready'[t][i] = ready[t][i + 1] /\ i + 1 # 1
      BY <1>1, <2>1
    <2>3. \A u \in Threads : \A i \in DOMAIN ready[u] :
            /\ ready[u][i] \in Requests /\ phase[ready[u][i]] = "drained"
            /\ ready[u][i] = r => u = t /\ i = 1
      BY <1>1 DEF Account, DueOnce, TypeOK
    <2>4. \A u \in Threads : \A i \in DOMAIN ready'[u] :
            \E j \in DOMAIN ready[u] : /\ j = (IF u = t THEN i + 1 ELSE i)
                                       /\ ready'[u][i] = ready[u][j] /\ ready[u][j] # r
      <3> SUFFICES ASSUME NEW u \in Threads, NEW i \in DOMAIN ready'[u]
                   PROVE  \E j \in DOMAIN ready[u] :
                            /\ j = (IF u = t THEN i + 1 ELSE i)
                            /\ ready'[u][i] = ready[u][j] /\ ready[u][j] # r
        OBVIOUS
      <3>1. CASE u = t
        BY <3>1, <2>2, <2>3
      <3>2. CASE u # t
        BY <3>2, <2>1, <2>3
      <3>3. QED
        BY <3>1, <3>2
    <2>5. \A u \in Threads : \A i \in DOMAIN ready'[u] : phase'[ready'[u][i]] = "drained"
      BY <1>1, <1>3, <2>3, <2>4 DEF TypeOK
    <2>6. ASSUME NEW u \in Threads, NEW v \in Threads, NEW i \in DOMAIN ready'[u],
                 NEW j \in DOMAIN ready'[v], ready'[u][i] = ready'[v][j]
          PROVE  u = v /\ i = j
      <3>1. PICK k \in DOMAIN ready[u] : k = (IF u = t THEN i + 1 ELSE i) /\ ready'[u][i] = ready[u][k]
        BY <2>4
      <3>2. PICK l \in DOMAIN ready[v] : l = (IF v = t THEN j + 1 ELSE j) /\ ready'[v][j] = ready[v][l]
        BY <2>4
      <3>3. u = v /\ k = l
        <4>1. ready[u][k] = ready[v][l]
          BY <2>6, <3>1, <3>2
        <4>2. QED
          BY <4>1 DEF Account, DueOnce
      <3>4. CASE u = t
        <4>1. i + 1 = j + 1 /\ i \in Int /\ j \in Int
          BY <3>1, <3>2, <3>3, <3>4, <1>1, <2>1
        <4>2. QED
          BY <3>3, <4>1
      <3>5. CASE u # t
        BY <3>1, <3>2, <3>3, <3>5
      <3>6. QED
        BY <3>4, <3>5
    <2>7. QED
      BY <2>5, <2>6 DEF DueOnce
  <1>10. IsFiniteSet(Begun')
    BY <1>1, <1>3, <1>4, BegunFinite DEF Account
  <1>11. QED
    BY <1>7, <1>8, <1>9, <1>10 DEF Account

\* Queue and continuations are about other requests than the one whose phase goes
\* from p to q, when neither says parked or drained.
LEMMA OthersWait ==
  ASSUME TypeOK, QueuedOnce, DueOnce, NEW r \in Requests, NEW q \in Phases,
         phase[r] \notin {"parked", "drained"}, phase' = [phase EXCEPT ![r] = q],
         UNCHANGED <<parked, ready>>
  PROVE  QueuedOnce' /\ DueOnce'
  <1>1. \A e \in parked : e.req \in Requests /\ phase'[e.req] = "parked"
    BY DEF QueuedOnce, TypeOK, Entries
  <1>2. \A t \in Threads : \A i \in DOMAIN ready[t] : phase'[ready[t][i]] = "drained"
    BY DEF DueOnce, TypeOK
  <1>3. QED
    BY <1>1, <1>2 DEF QueuedOnce, DueOnce

\* release() takes back exactly what was charged: the clamp never bites.
LEMMA ReleaseAccount ==
  ASSUME IInv, Account, NEW t \in Threads, NEW r \in Requests, NEW p \in {"lent", "returned"},
         Release(t, r, p)
  PROVE  Account'
  <1>1. TypeOK /\ inUse \in Nat /\ total \in Nat /\ grant[r] \in Nat
    BY DEF IInv, TypeOK
  <1>2. /\ phase[r] \in {"held", "resumed"} /\ phase' = [phase EXCEPT ![r] = p]
        /\ TakeBack(grant[r])
        /\ UNCHANGED <<total, parked, ready, grant>>
    BY DEF Release
  <1>3. p \in Phases /\ p \notin ChargedPhases /\ {"held", "resumed"} \subseteq ChargedPhases
    BY DEF Phases, ChargedPhases
  <1>4. grant' = [grant EXCEPT ![r] = grant[r]]
    BY <1>1, <1>2 DEF TypeOK
  <1>5. /\ grant[r] <= WidthIn(ChargedPhases)
        /\ WidthIn({"resumed"}) \in Nat
        /\ WidthIn(ChargedPhases)' = WidthIn(ChargedPhases) - grant[r]
        /\ WidthIn({"resumed"})' = IF phase[r] = "resumed" THEN WidthIn({"resumed"}) - grant[r]
                                                            ELSE WidthIn({"resumed"})
    <2>1. IsFiniteSet(Begun)
      BY DEF Account
    <2>2. /\ WidthIn(ChargedPhases) \in Nat /\ WidthIn({"resumed"}) \in Nat
          /\ phase[r] \in ChargedPhases => grant[r] <= WidthIn(ChargedPhases)
          /\ WidthIn(ChargedPhases)' = WidthIn(ChargedPhases) + Change(ChargedPhases, r, p, grant[r])
          /\ WidthIn({"resumed"})' = WidthIn({"resumed"}) + Change({"resumed"}, r, p, grant[r])
      BY <1>1, <1>2, <1>3, <1>4, <2>1, AccountStep
    <2>3. QED
      BY <1>1, <1>2, <1>3, <2>2 DEF Change
  <1>6. inUse' = inUse - grant[r]
    BY <1>1, <1>2, <1>5 DEF Account, Conservation, TakeBack
  <1>7. Conservation' /\ OvershootBound'
    BY <1>1, <1>2, <1>5, <1>6 DEF Account, Conservation, OvershootBound
  <1>8. QueuedOnce' /\ DueOnce'
    BY <1>1, <1>2, <1>3, OthersWait DEF Account
  <1>9. IsFiniteSet(Begun')
    BY <1>1, <1>2, <1>3, BegunFinite DEF Account
  <1>10. QED
    BY <1>7, <1>8, <1>9 DEF Account

\* recharge() adds to the charge what it adds to the width of the resumed tasks.
LEMMA ReclaimAccount ==
  ASSUME IInv, Account, NEW t \in Threads, NEW r \in Requests, Reclaim(t, r)
  PROVE  Account'
  <1>1. TypeOK /\ inUse \in Nat /\ total \in Nat /\ grant[r] \in Nat
    BY DEF IInv, TypeOK
  <1>2. /\ phase[r] = "lent" /\ phase' = [phase EXCEPT ![r] = "resumed"]
        /\ inUse' = inUse + grant[r]
        /\ UNCHANGED <<total, parked, ready, grant>>
    BY DEF Reclaim
  <1>3. "resumed" \in Phases /\ "resumed" \in ChargedPhases /\ "lent" \notin ChargedPhases
    BY DEF Phases, ChargedPhases
  <1>4. grant' = [grant EXCEPT ![r] = grant[r]]
    BY <1>1, <1>2 DEF TypeOK
  <1>5. /\ WidthIn(ChargedPhases)' = WidthIn(ChargedPhases) + grant[r]
        /\ WidthIn({"resumed"})' = WidthIn({"resumed"}) + grant[r]
        /\ WidthIn({"resumed"}) \in Nat
    <2>1. IsFiniteSet(Begun)
      BY DEF Account
    <2>2. /\ WidthIn(ChargedPhases) \in Nat /\ WidthIn({"resumed"}) \in Nat
          /\ WidthIn(ChargedPhases)' = WidthIn(ChargedPhases) + Change(ChargedPhases, r, "resumed", grant[r])
          /\ WidthIn({"resumed"})' = WidthIn({"resumed"}) + Change({"resumed"}, r, "resumed", grant[r])
      BY <1>1, <1>2, <1>3, <1>4, <2>1, AccountStep
    <2>3. QED
      BY <1>1, <1>2, <1>3, <2>2 DEF Change
  <1>6. Conservation' /\ OvershootBound'
    BY <1>1, <1>2, <1>5 DEF Account, Conservation, OvershootBound
  <1>7. QueuedOnce' /\ DueOnce'
    BY <1>1, <1>2, <1>3, OthersWait DEF Account
  <1>8. IsFiniteSet(Begun')
    BY <1>1, <1>2, <1>3, BegunFinite DEF Account
  <1>9. QED
    BY <1>6, <1>7, <1>8 DEF Account

\* Every step of the budget keeps its accounts.
LEMMA NextAccount == IInv /\ Account /\ [Next]_budgetVars => Account'
  <1> SUFFICES ASSUME IInv, Account, [Next]_budgetVars PROVE Account'
    OBVIOUS
  <1>1. IsFiniteSet(Begun) /\ OvershootBound /\ TypeOK
    BY DEF Account, IInv
  <1>2. WidthIn({"resumed"}) \in Nat
    BY <1>1, WidthInNat
  <1>3. CASE UNCHANGED budgetVars
    BY <1>1, <1>3, QuietAccount DEF budgetVars, OvershootBound
  <1>4. CASE Next
    <2>1. PICK t \in Threads :
            \/ DrainHead(t) \/ DrainStop(t) \/ Resume(t) \/ ResetPeak(t)
            \/ \E r \in Requests : Return(t, r) \/ Lend(t, r) \/ Reclaim(t, r)
            \/ \E r \in Requests, m \in MachineWidths(t) : Acquire(t, r, m)
            \/ \E m \in MachineWidths(t) : SyncMachineWidth(t, m)
      BY <1>4 DEF Next
    <2>2. CASE DrainHead(t) \/ Resume(t)
      BY <2>2, DrainHeadAccount, ResumeAccount
    <2>3. CASE DrainStop(t) \/ ResetPeak(t)
      BY <1>1, <2>3, QuietAccount DEF DrainStop, ResetPeak, OvershootBound
    <2>4. CASE \E r \in Requests : Return(t, r) \/ Lend(t, r) \/ Reclaim(t, r)
      BY <2>4, ReleaseAccount, ReclaimAccount DEF Return, Lend
    <2>5. CASE \E r \in Requests, m \in MachineWidths(t) : Acquire(t, r, m)
      BY <2>5, AcquireGrantedAccount, AcquireParkedAccount DEF Acquire
    <2>6. CASE \E m \in MachineWidths(t) : SyncMachineWidth(t, m)
      <3>1. PICK m \in MachineWidths(t) : SyncMachineWidth(t, m)
        BY <2>6
      <3>2. m \in Nat /\ inUse \in Nat /\ total \in Nat
        BY <1>1, MachineWidthPositive DEF TypeOK
      <3>3. inUse <= total' + WidthIn({"resumed"})
        BY <1>1, <1>2, <3>1, <3>2 DEF SyncMachineWidth, OvershootBound
      <3>4. QED
        BY <3>1, <3>3, QuietAccount DEF SyncMachineWidth
    <2>7. QED
      BY <2>1, <2>2, <2>3, <2>4, <2>5, <2>6
  <1>5. QED
    BY <1>3, <1>4

\* The accounts are right in every reachable state.
LEMMA AccountInvariance == Spec => [](IInv /\ Account)
  <1>1. IInv /\ Account /\ [Next]_budgetVars => (IInv /\ Account)'
    BY NextIInv, NextAccount
  <1>2. QED
    BY <1>1, InitIInv, InitAccount, PTL DEF Spec

\* The charge is the sum of what the admitted requests hold, for any requests, any
\* threads and any order of lends, reclaims and drains; so release() never has to
\* clamp (WidthBudget.cpp).
THEOREM ChargeConserved == Spec => []Conservation
  BY AccountInvariance, PTL DEF Account

\* The charge passes the total by no more than what resumed tasks took back.
THEOREM OvershootBounded == Spec => []OvershootBound
  BY AccountInvariance, PTL DEF Account
=============================================================================
