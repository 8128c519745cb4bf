--------------------------- MODULE TensorFileProofs ---------------------------
(***************************************************************************)
(* What a tensor file keeps, for any names, sizes and values and any       *)
(* number of operations and crashes: what is read back is what was stored. *)
(***************************************************************************)
EXTENDS TensorFile, FiniteSetTheorems, SequenceTheorems, WellFoundedInduction, TLAPS

-----------------------------------------------------------------------------
(* Numbers. *)

\* Every nonempty set of naturals has a least element.
LEMMA LeastOne ==
  ASSUME NEW S \in SUBSET Nat, S # {}
  PROVE  \E n \in S : \A m \in S : n <= m
  <1>1. PICK n \in S : \A m \in S : ~ (<<m, n>> \in OpToRel(<, Nat))
    BY NatLessThanWellFounded, WFMin
  <1>2. \A m \in S : ~ (m < n)
    BY <1>1 DEF OpToRel
  <1>3. QED
    BY <1>2

\* Induction up to a bound, with the set of the numbers a fact holds for.
LEMMA Ascent ==
  ASSUME NEW B, NEW n \in Nat, 0 \in B, \A i \in 0 .. (n - 1) : i \in B => i + 1 \in B
  PROVE  \A i \in 0 .. n : i \in B
  <1> DEFINE Missing == (0 .. n) \ B
  <1> SUFFICES ASSUME Missing # {} PROVE FALSE
    OBVIOUS
  <1>1. Missing \in SUBSET Nat
    OBVIOUS
  <1>2. PICK i \in Missing : \A m \in Missing : i <= m
    <2> HIDE DEF Missing
    <2> QED BY <1>1, LeastOne
  <1>3. i # 0 /\ i - 1 \in 0 .. (n - 1) /\ i - 1 \notin Missing
    BY <1>2
  <1>4. QED
    BY <1>2, <1>3

\* A set of naturals with a bound has a maximum.
LEMMA MaxIs ==
  ASSUME NEW S \in SUBSET Nat, S # {}, NEW b \in Nat, \A y \in S : y <= b
  PROVE  Max(S) \in S /\ \A y \in S : y <= Max(S)
  <1> DEFINE Bounds == {c \in Nat : \A y \in S : y <= c}
  <1>1. Bounds \in SUBSET Nat /\ Bounds # {}
    OBVIOUS
  <1>2. PICK c \in Bounds : \A d \in Bounds : c <= d
    <2> HIDE DEF Bounds
    <2> QED BY <1>1, LeastOne
  <1>3. c \in S
    <2> SUFFICES ASSUME c \notin S PROVE FALSE
      OBVIOUS
    <2>1. \A y \in S : y <= c /\ y # c /\ y \in Nat
      BY <1>2
    <2>2. c \in Nat /\ c - 1 \in Nat
      <3>1. PICK y \in S : TRUE
        OBVIOUS
      <3>2. y \in Nat /\ y <= c /\ y # c /\ c \in Nat
        BY <1>2, <2>1
      <3> QED BY <3>2
    <2>3. c - 1 \in Bounds
      BY <2>1, <2>2
    <2> QED BY <1>2, <2>2, <2>3
  <1>4. \E x \in S : \A y \in S : x >= y
    BY <1>2, <1>3
  <1>5. Max(S) \in S /\ \A y \in S : Max(S) >= y
    BY <1>4 DEF Max
  <1>6. QED
    BY <1>5

LEMMA MaxOfTwo ==
  ASSUME NEW a \in Nat, NEW b \in Nat
  PROVE  Max({a, b}) = IF a >= b THEN a ELSE b
  <1>1. Max({a, b}) \in {a, b} /\ \A y \in {a, b} : y <= Max({a, b})
    BY MaxIs, \A y \in {a, b} : y <= a + b
  <1>2. QED
    BY <1>1

-----------------------------------------------------------------------------
(* The fold over the calls of an operation. *)

\* g is the fold of the numbers in each part of 1 .. n, the largest one last.
IsLeftFold(g, n, D, base, E) ==
  /\ g \in [SUBSET (1 .. n) -> D]
  /\ \A s \in SUBSET (1 .. n) : g[s] = IF s = {} THEN base ELSE E[<<g[s \ {Max(s)}], Max(s)>>]

\* The recursive definition of a fold from the left has a solution.
LEMMA FoldSolved ==
  ASSUME NEW n \in Nat, NEW D, NEW base \in D, NEW E \in [D \X (1 .. n) -> D]
  PROVE  \E g : IsLeftFold(g, n, D, base, E)
  <1> DEFINE Solves(g, k) ==
                /\ g \in [SUBSET (1 .. k) -> D]
                /\ \A s \in SUBSET (1 .. k) :
                      g[s] = IF s = {} THEN base ELSE E[<<g[s \ {Max(s)}], Max(s)>>]
             B == {k \in 0 .. n : \E g : Solves(g, k)}
  <1>1. ASSUME NEW k \in 0 .. n, NEW s \in SUBSET (1 .. k), s # {}
        PROVE  Max(s) \in s /\ \A y \in s : y <= Max(s)
    BY <1>1, MaxIs, s \in SUBSET Nat, k \in Nat, \A y \in s : y <= k
  <1>2. 0 \in B
    <2> DEFINE g == [s \in SUBSET (1 .. 0) |-> base]
    <2>1. \A s \in SUBSET (1 .. 0) : s = {}
      OBVIOUS
    <2>2. Solves(g, 0)
      BY <2>1
    <2> HIDE DEF g, Solves
    <2> QED BY <2>2
  <1>3. ASSUME NEW k \in 0 .. (n - 1), k \in B PROVE k + 1 \in B
    <2>1. PICK g : Solves(g, k)
      BY <1>3
    <2> DEFINE h == [s \in SUBSET (1 .. (k + 1)) |->
                       IF k + 1 \in s THEN E[<<g[s \ {k + 1}], k + 1>>] ELSE g[s]]
    <2>2. k \in 0 .. n /\ k + 1 \in 0 .. n /\ k + 1 \in 1 .. n
      OBVIOUS
    <2>3. ASSUME NEW s \in SUBSET (1 .. (k + 1)) PROVE s \ {k + 1} \in SUBSET (1 .. k)
      OBVIOUS
    <2>4. ASSUME NEW s \in SUBSET (1 .. (k + 1)), k + 1 \notin s PROVE s \in SUBSET (1 .. k) /\ h[s] = g[s]
      BY <2>4
    <2>5. h \in [SUBSET (1 .. (k + 1)) -> D]
      <3>1. ASSUME NEW s \in SUBSET (1 .. (k + 1)) PROVE h[s] \in D
        <4>1. CASE k + 1 \in s
          <5>1. g[s \ {k + 1}] \in D
            BY <2>1, <2>3
          <5>2. <<g[s \ {k + 1}], k + 1>> \in D \X (1 .. n)
            BY <5>1, <2>2
          <5> QED BY <4>1, <5>2
        <4>2. CASE k + 1 \notin s
          BY <4>2, <2>4, <2>1
        <4> QED BY <4>1, <4>2
      <3> QED BY <3>1
    <2>6. ASSUME NEW s \in SUBSET (1 .. (k + 1))
          PROVE  h[s] = IF s = {} THEN base ELSE E[<<h[s \ {Max(s)}], Max(s)>>]
      <3>1. CASE k + 1 \in s
        <4>1. Max(s) = k + 1
          <5>1. Max(s) \in s /\ \A y \in s : y <= Max(s)
            BY <1>1, <2>2, <3>1
          <5>2. Max(s) \in Nat /\ Max(s) <= k + 1
            BY <5>1, Max(s) \in 1 .. (k + 1)
          <5> QED BY <5>1, <5>2, <3>1
        <4>2. h[s \ {k + 1}] = g[s \ {k + 1}]
          BY <2>4
        <4>3. h[s] = E[<<g[s \ {k + 1}], k + 1>>]
          BY <3>1
        <4> HIDE DEF h
        <4> QED BY <3>1, <4>1, <4>2, <4>3
      <3>2. CASE k + 1 \notin s
        <4>1. s \in SUBSET (1 .. k) /\ s \ {Max(s)} \in SUBSET (1 .. k)
          BY <3>2, <2>4
        <4>2. h[s] = g[s] /\ h[s \ {Max(s)}] = g[s \ {Max(s)}]
          BY <3>2, <2>4, k + 1 \notin s \ {Max(s)}, s \ {Max(s)} \in SUBSET (1 .. (k + 1))
        <4>3. g[s] = IF s = {} THEN base ELSE E[<<g[s \ {Max(s)}], Max(s)>>]
          BY <2>1, <4>1
        <4> HIDE DEF h
        <4> QED BY <4>2, <4>3
      <3> QED BY <3>1, <3>2
    <2>7. Solves(h, k + 1)
      <3> HIDE DEF h
      <3> QED BY <2>5, <2>6
    <2> QED BY <2>2, <2>7
  <1>4. n \in B
    <2> HIDE DEF B
    <2> QED BY <1>2, <1>3, Ascent
  <1>5. QED
    BY <1>4 DEF IsLeftFold

-----------------------------------------------------------------------------
(* What a file holds. *)

EntrySet == {e \in [name : Names, at : Nat, size : Nat \ {0}] :
               e.size = Size[e.name] /\ e.at % Alignment = 0 /\ e.at >= HeaderCells}

Cell ==
  {Zero} \cup {Data(v) : v \in Values}
    \cup {<<"header", n, at>> : n \in Nat, at \in Nat}
    \cup {<<"entry", e, k>> : e \in EntrySet, k \in 0 .. (EntryCells - 1)}

Files == Seq(Cell)

Calls == [at : Nat, cells : Seq(Cell) \ {<<>>}] \cup [length : Nat]

\* What the operating system makes of a file is a file again.
Applies(calls, n) ==
  /\ n \in Nat /\ DOMAIN calls = 1 .. n
  /\ \A f \in Files : \A i \in 1 .. n : Effect(f, calls[i]) \in Files

ImageStep(fs, call) == fs \cup {Effect(f, call) : f \in fs}

FileAfter(f, calls) == FoldLeft(Effect, f, calls)
ImagesAfter(fs, calls) == FoldLeft(ImageStep, fs, calls)

\* The files, or the sets of images, from the first to the one after n calls.
FileRun(G, f, calls, n) ==
  /\ G[0] = f /\ G[n] = FileAfter(f, calls)
  /\ \A i \in 1 .. n : G[i] = Effect(G[i - 1], calls[i])

ImageRun(G, fs, calls, n) ==
  /\ G[0] = fs /\ G[n] = ImagesAfter(fs, calls)
  /\ \A i \in 1 .. n : G[i] = ImageStep(G[i - 1], calls[i])

LEMMA DoesBoth ==
  ASSUME NEW calls, Do(calls)
  PROVE  file' = FileAfter(file, calls) /\ images' = ImagesAfter(images, calls)
  BY DEF Do, FileAfter, ImagesAfter, ImageStep

\* The maximum of the numbers up to i, and the rest.
LEMMA MaxUpto ==
  ASSUME NEW i \in Nat \ {0}
  PROVE  1 .. i # {} /\ Max(1 .. i) = i /\ (1 .. i) \ {Max(1 .. i)} = 1 .. (i - 1)
  <1>1. i \in 1 .. i /\ \A y \in 1 .. i : y <= i
    OBVIOUS
  <1>2. Max(1 .. i) \in 1 .. i /\ \A y \in 1 .. i : y <= Max(1 .. i)
    BY <1>1, MaxIs, 1 .. i \in SUBSET Nat
  <1>3. Max(1 .. i) = i
    BY <1>1, <1>2
  <1>4. QED
    BY <1>1, <1>3

\* The file is changed by one call after the other.
LEMMA FileSteps ==
  ASSUME NEW f0 \in Files, NEW calls, NEW n, Applies(calls, n)
  PROVE  \E G : FileRun(G, f0, calls, n)
  <1> DEFINE E == [p \in Files \X (1 .. n) |-> Effect(p[1], calls[p[2]])]
             Folds(g) == g = [s \in SUBSET (1 .. n) |->
                           IF s = {} THEN f0 ELSE Effect(g[s \ {Max(s)}], calls[Max(s)])]
             It == CHOOSE g : Folds(g)
  <1>1. E \in [Files \X (1 .. n) -> Files]
    BY DEF Applies
  <1>2. n \in Nat /\ DOMAIN calls = 1 .. n
    BY DEF Applies
  <1>3. PICK g : IsLeftFold(g, n, Files, f0, E)
    <2> HIDE DEF E
    <2> QED BY <1>1, <1>2, FoldSolved
  <1>4. ASSUME NEW s \in SUBSET (1 .. n), s # {}
        PROVE  E[<<g[s \ {Max(s)}], Max(s)>>] = Effect(g[s \ {Max(s)}], calls[Max(s)])
    <2>1. Max(s) \in 1 .. n
      <3>1. s \in SUBSET Nat /\ \A y \in s : y <= n
        BY <1>2
      <3> QED BY <3>1, <1>2, <1>4, MaxIs
    <2>2. g[s \ {Max(s)}] \in Files
      BY <1>3 DEF IsLeftFold
    <2>3. <<g[s \ {Max(s)}], Max(s)>> \in Files \X (1 .. n)
      BY <2>1, <2>2
    <2> QED BY <2>3
  <1>5. Folds(g)
    <2>1. \A s \in SUBSET (1 .. n) :
             g[s] = IF s = {} THEN f0 ELSE Effect(g[s \ {Max(s)}], calls[Max(s)])
      <3> HIDE DEF E
      <3> QED BY <1>3, <1>4 DEF IsLeftFold
    <2> QED BY <1>3, <2>1 DEF IsLeftFold
  <1>6. Folds(It)
    <2> HIDE DEF Folds
    <2> QED BY <1>5
  <1>7. \A s \in SUBSET (1 .. n) :
           It[s] = IF s = {} THEN f0 ELSE Effect(It[s \ {Max(s)}], calls[Max(s)])
    <2> HIDE DEF It
    <2> QED BY <1>6
  <1>8. FileAfter(f0, calls) = It[1 .. n]
    BY <1>2 DEF FileAfter, FoldLeft, MapThenFoldSet
  <1> HIDE DEF It
  <1> DEFINE G == [i \in 0 .. n |-> It[1 .. i]]
  <1>9. G[0] = f0
    <2>1. 1 .. 0 = {} /\ {} \in SUBSET (1 .. n) /\ 0 \in 0 .. n
      BY <1>2
    <2>2. It[{}] = f0
      BY <1>7, <2>1
    <2> QED BY <2>1, <2>2
  <1>10. G[n] = FileAfter(f0, calls)
    BY <1>8, <1>2
  <1>11. ASSUME NEW i \in 1 .. n PROVE G[i] = Effect(G[i - 1], calls[i])
    <2>1. 1 .. i \in SUBSET (1 .. n) /\ i \in Nat \ {0} /\ i \in 0 .. n /\ i - 1 \in 0 .. n
      BY <1>2
    <2>2. 1 .. i # {} /\ Max(1 .. i) = i /\ (1 .. i) \ {Max(1 .. i)} = 1 .. (i - 1)
      BY <2>1, MaxUpto
    <2>3. It[1 .. i] = Effect(It[1 .. (i - 1)], calls[i])
      BY <1>7, <2>1, <2>2
    <2> QED BY <2>1, <2>3
  <1>12. QED
    <2>1. FileRun(G, f0, calls, n)
      <3> HIDE DEF G
      <3> QED BY <1>9, <1>10, <1>11 DEF FileRun
    <2> HIDE DEF G
    <2> QED BY <2>1

\* The files a crash may leave gain those that each call makes of them.
LEMMA ImageSteps ==
  ASSUME NEW f0 \in SUBSET Files, NEW calls, NEW n, Applies(calls, n)
  PROVE  \E G : ImageRun(G, f0, calls, n)
  <1> DEFINE E == [p \in (SUBSET Files) \X (1 .. n) |-> ImageStep(p[1], calls[p[2]])]
             Folds(g) == g = [s \in SUBSET (1 .. n) |->
                           IF s = {} THEN f0 ELSE ImageStep(g[s \ {Max(s)}], calls[Max(s)])]
             It == CHOOSE g : Folds(g)
  <1>1. E \in [(SUBSET Files) \X (1 .. n) -> SUBSET Files]
    BY DEF Applies, ImageStep
  <1>2. n \in Nat /\ DOMAIN calls = 1 .. n
    BY DEF Applies
  <1>3. PICK g : IsLeftFold(g, n, SUBSET Files, f0, E)
    <2> HIDE DEF E
    <2> QED BY <1>1, <1>2, FoldSolved
  <1>4. ASSUME NEW s \in SUBSET (1 .. n), s # {}
        PROVE  E[<<g[s \ {Max(s)}], Max(s)>>] = ImageStep(g[s \ {Max(s)}], calls[Max(s)])
    <2>1. Max(s) \in 1 .. n
      <3>1. s \in SUBSET Nat /\ \A y \in s : y <= n
        BY <1>2
      <3> QED BY <3>1, <1>2, <1>4, MaxIs
    <2>2. g[s \ {Max(s)}] \in SUBSET Files
      BY <1>3 DEF IsLeftFold
    <2>3. <<g[s \ {Max(s)}], Max(s)>> \in (SUBSET Files) \X (1 .. n)
      BY <2>1, <2>2
    <2> QED BY <2>3
  <1>5. Folds(g)
    <2>1. \A s \in SUBSET (1 .. n) :
             g[s] = IF s = {} THEN f0 ELSE ImageStep(g[s \ {Max(s)}], calls[Max(s)])
      <3> HIDE DEF E
      <3> QED BY <1>3, <1>4 DEF IsLeftFold
    <2> QED BY <1>3, <2>1 DEF IsLeftFold
  <1>6. Folds(It)
    <2> HIDE DEF Folds
    <2> QED BY <1>5
  <1>7. \A s \in SUBSET (1 .. n) :
           It[s] = IF s = {} THEN f0 ELSE ImageStep(It[s \ {Max(s)}], calls[Max(s)])
    <2> HIDE DEF It
    <2> QED BY <1>6
  <1>8. ImagesAfter(f0, calls) = It[1 .. n]
    BY <1>2 DEF ImagesAfter, FoldLeft, MapThenFoldSet
  <1> HIDE DEF It
  <1> DEFINE G == [i \in 0 .. n |-> It[1 .. i]]
  <1>9. G[0] = f0
    <2>1. 1 .. 0 = {} /\ {} \in SUBSET (1 .. n) /\ 0 \in 0 .. n
      BY <1>2
    <2>2. It[{}] = f0
      BY <1>7, <2>1
    <2> QED BY <2>1, <2>2
  <1>10. G[n] = ImagesAfter(f0, calls)
    BY <1>8, <1>2
  <1>11. ASSUME NEW i \in 1 .. n PROVE G[i] = ImageStep(G[i - 1], calls[i])
    <2>1. 1 .. i \in SUBSET (1 .. n) /\ i \in Nat \ {0} /\ i \in 0 .. n /\ i - 1 \in 0 .. n
      BY <1>2
    <2>2. 1 .. i # {} /\ Max(1 .. i) = i /\ (1 .. i) \ {Max(1 .. i)} = 1 .. (i - 1)
      BY <2>1, MaxUpto
    <2>3. It[1 .. i] = ImageStep(It[1 .. (i - 1)], calls[i])
      BY <1>7, <2>1, <2>2
    <2> QED BY <2>1, <2>3
  <1>12. QED
    <2>1. ImageRun(G, f0, calls, n)
      <3> HIDE DEF G
      <3> QED BY <1>9, <1>10, <1>11 DEF ImageRun
    <2> HIDE DEF G
    <2> QED BY <2>1

\* What every call keeps, the file and each of its images keep.
LEMMA DoKeeps ==
  ASSUME NEW calls, NEW n, Applies(calls, n), Do(calls),
         images \in SUBSET Files, file \in images,
         NEW P \in SUBSET Files, \A f \in P : \A i \in 1 .. n : Effect(f, calls[i]) \in P
  PROVE  (images \subseteq P => images' \subseteq P) /\ (file \in P => file' \in P)
  <1>1. n \in Nat
    BY DEF Applies
  <1>2. ASSUME images \subseteq P PROVE images' \subseteq P
    <2>1. PICK G : ImageRun(G, images, calls, n)
      BY ImageSteps
    <2>2. images' = G[n]
      BY <2>1, DoesBoth DEF ImageRun
    <2> DEFINE B == {i \in 0 .. n : G[i] \subseteq P}
    <2>3. 0 \in B
      BY <1>1, <1>2, <2>1 DEF ImageRun
    <2>4. ASSUME NEW i \in 0 .. (n - 1), i \in B PROVE i + 1 \in B
      <3>1. i + 1 \in 1 .. n /\ i + 1 \in 0 .. n /\ (i + 1) - 1 = i
        BY <1>1
      <3>2. G[i + 1] = ImageStep(G[i], calls[i + 1])
        BY <2>1, <3>1 DEF ImageRun
      <3>3. ImageStep(G[i], calls[i + 1]) \subseteq P
        BY <2>4, <3>1 DEF ImageStep
      <3> QED BY <3>1, <3>2, <3>3
    <2>5. n \in B
      <3> HIDE DEF B
      <3> QED BY <1>1, <2>3, <2>4, Ascent
    <2> QED BY <2>2, <2>5
  <1>3. ASSUME file \in P PROVE file' \in P
    <2>1. PICK G : FileRun(G, file, calls, n)
      BY FileSteps
    <2>2. file' = G[n]
      BY <2>1, DoesBoth DEF FileRun
    <2> DEFINE B == {i \in 0 .. n : G[i] \in P}
    <2>3. 0 \in B
      BY <1>1, <1>3, <2>1 DEF FileRun
    <2>4. ASSUME NEW i \in 0 .. (n - 1), i \in B PROVE i + 1 \in B
      <3>1. i + 1 \in 1 .. n /\ i + 1 \in 0 .. n /\ (i + 1) - 1 = i
        BY <1>1
      <3> QED BY <2>1, <2>4, <3>1 DEF FileRun
    <2>5. n \in B
      <3> HIDE DEF B
      <3> QED BY <1>1, <2>3, <2>4, Ascent
    <2> QED BY <2>2, <2>5
  <1>4. QED
    BY <1>2, <1>3

\* The images are files, the file itself among them.
LEMMA DoFiles ==
  ASSUME NEW calls, NEW n, Applies(calls, n), Do(calls), images \in SUBSET Files, file \in images
  PROVE  images' \in SUBSET Files /\ file' \in images'
  <1>1. n \in Nat
    BY DEF Applies
  <1>2. images' \subseteq Files
    BY DoKeeps DEF Applies
  <1>3. PICK G : FileRun(G, file, calls, n)
    BY FileSteps
  <1>4. PICK H : ImageRun(H, images, calls, n)
    BY ImageSteps
  <1>5. file' = G[n] /\ images' = H[n]
    BY <1>3, <1>4, DoesBoth DEF FileRun, ImageRun
  <1> DEFINE B == {i \in 0 .. n : G[i] \in H[i]}
  <1>6. 0 \in B
    BY <1>1, <1>3, <1>4 DEF FileRun, ImageRun
  <1>7. ASSUME NEW i \in 0 .. (n - 1), i \in B PROVE i + 1 \in B
    <2>1. i + 1 \in 1 .. n /\ i + 1 \in 0 .. n /\ (i + 1) - 1 = i
      BY <1>1
    <2>2. G[i + 1] = Effect(G[i], calls[i + 1]) /\ H[i + 1] = ImageStep(H[i], calls[i + 1])
      BY <1>3, <1>4, <2>1 DEF FileRun, ImageRun
    <2>3. Effect(G[i], calls[i + 1]) \in ImageStep(H[i], calls[i + 1])
      BY <1>7 DEF ImageStep
    <2> QED BY <2>1, <2>2, <2>3
  <1>8. n \in B
    <2> HIDE DEF B
    <2> QED BY <1>1, <1>6, <1>7, Ascent
  <1>9. QED
    BY <1>2, <1>5, <1>8

\* What call j brings about and the later ones keep, the file has in the end.
LEMMA DoLeaves ==
  ASSUME NEW calls, NEW n, Applies(calls, n), Do(calls), images \in SUBSET Files, file \in images,
         NEW P \in SUBSET Files, NEW j \in 1 .. n,
         \A f \in Files : Effect(f, calls[j]) \in P,
         \A f \in P : \A i \in (j + 1) .. n : Effect(f, calls[i]) \in P
  PROVE  file' \in P
  <1>1. n \in Nat
    BY DEF Applies
  <1>2. PICK G : FileRun(G, file, calls, n)
    BY FileSteps
  <1>3. file' = G[n]
    BY <1>2, DoesBoth DEF FileRun
  <1> DEFINE B == {i \in 0 .. n : G[i] \in Files /\ (i >= j => G[i] \in P)}
  <1>4. 0 \in B
    BY <1>1, <1>2 DEF FileRun
  <1>5. ASSUME NEW i \in 0 .. (n - 1), i \in B PROVE i + 1 \in B
    <2>1. i + 1 \in 1 .. n /\ i + 1 \in 0 .. n /\ (i + 1) - 1 = i
      BY <1>1
    <2>2. G[i + 1] = Effect(G[i], calls[i + 1])
      BY <1>2, <2>1 DEF FileRun
    <2>3. G[i + 1] \in Files
      BY <1>5, <2>1, <2>2 DEF Applies
    <2>4. CASE i + 1 = j
      BY <1>5, <2>1, <2>2, <2>3, <2>4
    <2>5. CASE i + 1 > j
      <3>1. i >= j /\ i + 1 \in (j + 1) .. n
        BY <1>1, <2>1, <2>5
      <3>2. G[i] \in P
        BY <1>5, <3>1
      <3> QED BY <2>1, <2>2, <2>3, <3>1, <3>2
    <2>6. CASE i + 1 < j
      BY <2>1, <2>3, <2>6
    <2> QED BY <2>1, <2>4, <2>5, <2>6
  <1>6. n \in B
    <2> HIDE DEF B
    <2>1. \A i \in 0 .. n : i \in B
      BY <1>1, <1>4, <1>5, Ascent, Zenon
    <2> QED BY <1>1, <2>1
  <1>7. QED
    BY <1>1, <1>3, <1>6

-----------------------------------------------------------------------------
(* One call. *)

LEMMA Tabulated ==
  ASSUME NEW S, NEW n \in Nat, NEW g, g = [i \in 1 .. n |-> g[i]], \A i \in 1 .. n : g[i] \in S
  PROVE  g \in Seq(S) /\ Len(g) = n /\ DOMAIN g = 1 .. n
  <1>1. g \in [1 .. n -> S]
    OBVIOUS
  <1>2. QED
    BY <1>1

LEMMA SizeIs ==
  ASSUME NEW n \in Names
  PROVE  Size[n] \in Nat /\ Size[n] >= 1
  BY TensorFileAssumption DEF TensorFileAssumption

\* A cell tells by its first component what it is.
LEMMA CellKinds ==
  ASSUME NEW c \in Cell
  PROVE  /\ c[1] = "header" => c[2] \in Nat /\ c[3] \in Nat
         /\ c[1] = "entry" => c[2] \in EntrySet
  <1>1. CASE c = Zero
    BY <1>1 DEF Zero
  <1>2. CASE \E v \in Values : c = Data(v)
    BY <1>2 DEF Data
  <1>3. CASE \E n \in Nat, at \in Nat : c = <<"header", n, at>>
    BY <1>3
  <1>4. CASE \E e \in EntrySet, k \in 0 .. (EntryCells - 1) : c = <<"entry", e, k>>
    BY <1>4
  <1>5. QED
    BY <1>1, <1>2, <1>3, <1>4 DEF Cell

LEMMA KindsOfCells ==
  /\ Zero \in Cell
  /\ \A v \in Values : Data(v) \in Cell
  /\ \A n \in Nat, at \in Nat : <<"header", n, at>> \in Cell
  /\ \A e \in EntrySet, k \in 0 .. (EntryCells - 1) : <<"entry", e, k>> \in Cell
  BY DEF Cell

LEMMA FileIs ==
  ASSUME NEW f \in Files
  PROVE  Len(f) \in Nat /\ DOMAIN f = 1 .. Len(f) /\ \A i \in 1 .. Len(f) : f[i] \in Cell
  BY DEF Files

\* File g is f with these cells written over it; a hole they leave holds zeros.
Overwritten(g, f, at, cells) ==
  /\ g \in Files
  /\ Len(g) = IF Len(f) >= at + Len(cells) THEN Len(f) ELSE at + Len(cells)
  /\ \A i \in 1 .. Len(g) :
        g[i] = IF i - at \in 1 .. Len(cells) THEN cells[i - at] ELSE IF i \in 1 .. Len(f) THEN f[i] ELSE Zero

LEMMA PwriteEffect ==
  ASSUME NEW f \in Files, NEW at \in Nat, NEW cells \in Seq(Cell)
  PROVE  Overwritten(Effect(f, Pwrite(at, cells)), f, at, cells)
  <1> DEFINE call == Pwrite(at, cells)
             n == Max({Len(f), call.at + Len(call.cells)})
             g == Effect(f, call)
  <1>1. call.at = at /\ call.cells = cells /\ "length" \notin DOMAIN call
    BY DEF Pwrite
  <1>2. /\ Len(f) \in Nat /\ DOMAIN f = 1 .. Len(f) /\ \A i \in 1 .. Len(f) : f[i] \in Cell
        /\ Len(cells) \in Nat /\ DOMAIN cells = 1 .. Len(cells) /\ \A i \in 1 .. Len(cells) : cells[i] \in Cell
    BY FileIs
  <1>3. n \in Nat /\ n = IF Len(f) >= at + Len(cells) THEN Len(f) ELSE at + Len(cells)
    BY <1>1, <1>2, MaxOfTwo
  <1>4. g = [i \in 1 .. n |-> IF i - at \in 1 .. Len(cells) THEN cells[i - at]
                              ELSE IF i \in 1 .. Len(f) THEN f[i] ELSE Zero]
    BY <1>1, <1>2 DEF Effect
  <1> HIDE DEF n, g, call
  <1>5. \A i \in 1 .. n : g[i] = IF i - at \in 1 .. Len(cells) THEN cells[i - at]
                                 ELSE IF i \in 1 .. Len(f) THEN f[i] ELSE Zero
    BY <1>4
  <1>6. ASSUME NEW i \in 1 .. n PROVE g[i] \in Cell
    BY <1>2, <1>5, KindsOfCells
  <1>7. g = [i \in 1 .. n |-> g[i]]
    BY <1>4
  <1>8. g \in Files /\ Len(g) = n
    BY <1>3, <1>6, <1>7, Tabulated DEF Files
  <1>9. Overwritten(g, f, at, cells)
    BY <1>3, <1>5, <1>8 DEF Overwritten
  <1>10. QED
    BY <1>9 DEF g, call

LEMMA TruncateEffect ==
  ASSUME NEW f \in Files, NEW n \in Nat
  PROVE  LET g == Effect(f, Truncate(n))
         IN  /\ g \in Files /\ Len(g) = n
             /\ \A i \in 1 .. n : g[i] = IF i \in 1 .. Len(f) THEN f[i] ELSE Zero
  <1> DEFINE g == Effect(f, Truncate(n))
  <1>1. Truncate(n).length = n /\ "length" \in DOMAIN Truncate(n)
    BY DEF Truncate
  <1>2. Len(f) \in Nat /\ DOMAIN f = 1 .. Len(f) /\ \A i \in 1 .. Len(f) : f[i] \in Cell
    BY FileIs
  <1>3. g = [i \in 1 .. n |-> IF i \in 1 .. Len(f) THEN f[i] ELSE Zero]
    BY <1>1, <1>2 DEF Effect
  <1> HIDE DEF g
  <1>4. \A i \in 1 .. n : g[i] = IF i \in 1 .. Len(f) THEN f[i] ELSE Zero
    BY <1>3
  <1>5. ASSUME NEW i \in 1 .. n PROVE g[i] \in Cell
    BY <1>2, <1>4, KindsOfCells
  <1>6. g = [i \in 1 .. n |-> g[i]]
    BY <1>3
  <1>7. g \in Files /\ Len(g) = n
    BY <1>5, <1>6, Tabulated DEF Files
  <1>8. QED
    BY <1>4, <1>7 DEF g

-----------------------------------------------------------------------------
(* Entries. *)

LEMMA EntryIs ==
  ASSUME NEW e \in EntrySet
  PROVE  /\ e.name \in Names /\ e.at \in Nat /\ e.size \in Nat /\ e.size >= 1
         /\ e.size = Size[e.name] /\ e.at % Alignment = 0 /\ e.at >= HeaderCells
         /\ e = Entry(e.name, e.at)
  BY DEF EntrySet, Entry

LEMMA Aligned ==
  ASSUME NEW n \in Nat
  PROVE  AlignUp(n) \in Nat /\ AlignUp(n) >= n /\ AlignUp(n) % Alignment = 0
  BY DEF AlignUp, Alignment

LEMMA NewEntry ==
  ASSUME NEW name \in Names, NEW n \in Nat, n >= HeaderCells
  PROVE  LET e == Entry(name, AlignUp(n))
         IN  e \in EntrySet /\ e.at = AlignUp(n) /\ e.size = Size[name] /\ e.name = name
  <1>1. AlignUp(n) \in Nat /\ AlignUp(n) >= HeaderCells /\ AlignUp(n) % Alignment = 0
    BY Aligned DEF HeaderCells
  <1>2. Size[name] \in Nat \ {0}
    BY SizeIs
  <1>3. QED
    BY <1>1, <1>2 DEF Entry, EntrySet

LEMMA EntriesAre ==
  ASSUME NEW es \in Seq(EntrySet)
  PROVE  Len(es) \in Nat /\ DOMAIN es = 1 .. Len(es) /\ \A i \in 1 .. Len(es) : es[i] \in EntrySet
  OBVIOUS

\* A name that has entries is found at the last of them.
LEMMA FoundEntry ==
  ASSUME NEW es \in Seq(EntrySet), NEW name, EntriesOf(es, name) # {}
  PROVE  LET m == Max(EntriesOf(es, name))
         IN  /\ m \in DOMAIN es /\ FindEntry(es, name) = es[m] /\ es[m].name = name
             /\ es[m] \in EntrySet /\ \A i \in EntriesOf(es, name) : i <= m
  <1>1. Len(es) \in Nat /\ DOMAIN es = 1 .. Len(es) /\ \A i \in 1 .. Len(es) : es[i] \in EntrySet
    BY EntriesAre
  <1>2. EntriesOf(es, name) \in SUBSET Nat /\ \A i \in EntriesOf(es, name) : i <= Len(es)
    BY <1>1 DEF EntriesOf
  <1>3. Max(EntriesOf(es, name)) \in EntriesOf(es, name)
        /\ \A i \in EntriesOf(es, name) : i <= Max(EntriesOf(es, name))
    BY <1>1, <1>2, MaxIs
  <1>4. QED
    BY <1>1, <1>3 DEF EntriesOf, FindEntry

\* What is appended next is behind all entries.
LEMMA NextIs ==
  ASSUME NEW es \in Seq(EntrySet)
  PROVE  /\ NextDataOf(es) \in Nat /\ NextDataOf(es) >= HeaderCells
         /\ \A i \in DOMAIN es : es[i].at + es[i].size <= NextDataOf(es)
         /\ NextDataOf(es) = HeaderCells \/ \E i \in DOMAIN es : NextDataOf(es) = es[i].at + es[i].size
  <1> DEFINE n == Len(es)
             Ends == {HeaderCells} \cup {es[i].at + es[i].size : i \in DOMAIN es}
             B == {k \in 0 .. n : \E b \in Nat : b >= HeaderCells /\ \A i \in 1 .. k : es[i].at + es[i].size <= b}
  <1>1. n \in Nat /\ DOMAIN es = 1 .. n /\ \A i \in 1 .. n : es[i] \in EntrySet
    BY EntriesAre
  <1>2. \A i \in 1 .. n : es[i].at + es[i].size \in Nat
    BY <1>1, EntryIs
  <1> HIDE DEF n
  <1>3. 0 \in B
    <2>1. 0 \in 0 .. n /\ HeaderCells \in Nat /\ HeaderCells >= HeaderCells /\ 1 .. 0 = {}
      BY <1>1 DEF HeaderCells
    <2> QED BY <2>1
  <1>4. ASSUME NEW k \in 0 .. (n - 1), k \in B PROVE k + 1 \in B
    <2>1. PICK b \in Nat : b >= HeaderCells /\ \A i \in 1 .. k : es[i].at + es[i].size <= b
      BY <1>4
    <2>2. PICK c \in Nat : c = es[k + 1].at + es[k + 1].size
      BY <1>1, <1>2
    <2>3. k + 1 \in 0 .. n /\ \A i \in 1 .. (k + 1) : i \in 1 .. k \/ i = k + 1
      BY <1>1
    <2>4. \A i \in 1 .. (k + 1) : i \in 1 .. n
      BY <1>1
    <2>5. \A i \in 1 .. (k + 1) : es[i].at + es[i].size <= b + c
      BY <1>2, <2>1, <2>2, <2>3, <2>4
    <2> QED BY <2>1, <2>3, <2>5 DEF HeaderCells
  <1>5. n \in B
    <2> HIDE DEF B
    <2>1. \A i \in 0 .. n : i \in B
      BY <1>1, <1>3, <1>4, Ascent, Zenon
    <2> QED BY <1>1, <2>1
  <1>6. PICK b \in Nat : b >= HeaderCells /\ \A i \in 1 .. n : es[i].at + es[i].size <= b
    BY <1>5
  <1>7. Ends \in SUBSET Nat /\ Ends # {} /\ \A y \in Ends : y <= b
    BY <1>1, <1>2, <1>6 DEF HeaderCells
  <1>8. Max(Ends) \in Ends /\ \A y \in Ends : y <= Max(Ends)
    <2> HIDE DEF Ends
    <2> QED BY <1>7, MaxIs
  <1>9. NextDataOf(es) = Max(Ends)
    BY DEF NextDataOf
  <1>10. QED
    BY <1>1, <1>7, <1>8, <1>9

LEMMA NextOfNone == NextDataOf(<<>>) = HeaderCells
  <1>1. <<>> \in Seq(EntrySet) /\ DOMAIN <<>> = {}
    OBVIOUS
  <1>2. QED
    BY <1>1, NextIs

LEMMA NextOfAppended ==
  ASSUME NEW es \in Seq(EntrySet), NEW e \in EntrySet, e.at >= NextDataOf(es)
  PROVE  /\ Append(es, e) \in Seq(EntrySet) /\ Len(Append(es, e)) = Len(es) + 1
         /\ \A i \in 1 .. Len(es) : Append(es, e)[i] = es[i]
         /\ Append(es, e)[Len(es) + 1] = e
         /\ NextDataOf(Append(es, e)) = e.at + e.size
  <1>1. PICK fs : fs = Append(es, e)
    OBVIOUS
  <1>2. /\ Len(es) \in Nat /\ DOMAIN es = 1 .. Len(es)
        /\ fs \in Seq(EntrySet) /\ Len(fs) = Len(es) + 1 /\ DOMAIN fs = 1 .. (Len(es) + 1)
        /\ \A i \in 1 .. Len(es) : fs[i] = es[i]
        /\ fs[Len(es) + 1] = e
    BY <1>1
  <1>3. PICK n : n = NextDataOf(fs)
    OBVIOUS
  <1>4. /\ n \in Nat /\ \A i \in DOMAIN fs : fs[i].at + fs[i].size <= n
        /\ n = HeaderCells \/ \E i \in DOMAIN fs : n = fs[i].at + fs[i].size
    BY <1>2, <1>3, NextIs
  <1>5. NextDataOf(es) \in Nat /\ NextDataOf(es) >= HeaderCells
        /\ \A i \in DOMAIN es : es[i].at + es[i].size <= NextDataOf(es)
    BY NextIs
  <1>6. e.at \in Nat /\ e.size \in Nat /\ e.size >= 1
    BY EntryIs
  <1>7. e.at + e.size <= n
    BY <1>2, <1>4
  <1>8. ASSUME NEW i \in DOMAIN fs PROVE fs[i].at + fs[i].size <= e.at + e.size
    <2>1. CASE i = Len(es) + 1
      BY <1>2, <1>6, <2>1
    <2>2. CASE i \in 1 .. Len(es)
      <3>1. fs[i] = es[i] /\ es[i] \in EntrySet
        BY <1>2, <2>2, EntriesAre
      <3>2. es[i].at + es[i].size <= NextDataOf(es) /\ es[i].at + es[i].size \in Nat
        BY <1>2, <1>5, <2>2, <3>1, EntryIs
      <3> QED BY <1>5, <1>6, <3>1, <3>2
    <2> QED BY <1>2, <2>1, <2>2
  <1>9. n = e.at + e.size
    BY <1>4, <1>5, <1>6, <1>7, <1>8 DEF HeaderCells
  <1>10. QED
    BY <1>1, <1>2, <1>3, <1>9

-----------------------------------------------------------------------------
(* Metadata. *)

TableAt(es) == TableOffset(NextDataOf(es))
TableEnd(es) == TableAt(es) + EntryCells * Len(es)

HeaderOf(es) == <<"header", Len(es), TableAt(es)>>
PutHeader(es) == Pwrite(0, <<HeaderOf(es), Zero>>)
PutTable(es) == Pwrite(TableAt(es), Table(es))
PutSize(es) == Truncate(TableEnd(es))

\* The file has the header and the table of these entries.
Stored(f, es) ==
  /\ Len(f) >= HeaderCells /\ Len(f) >= TableEnd(es)
  /\ f[1] = HeaderOf(es)
  /\ \A k \in 1 .. (EntryCells * Len(es)) : f[TableAt(es) + k] = Table(es)[k]

LEMMA TableAtIs ==
  ASSUME NEW es \in Seq(EntrySet)
  PROVE  /\ TableAt(es) \in Nat /\ TableAt(es) >= NextDataOf(es) /\ TableAt(es) >= HeaderCells
         /\ TableEnd(es) \in Nat /\ TableEnd(es) = TableAt(es) + EntryCells * Len(es)
         /\ TableEnd(es) >= TableAt(es) /\ EntryCells * Len(es) \in Nat
  <1>1. NextDataOf(es) \in Nat /\ NextDataOf(es) >= HeaderCells
    BY NextIs
  <1>2. TableAt(es) \in Nat /\ TableAt(es) >= NextDataOf(es)
    BY <1>1, Aligned DEF TableAt, TableOffset
  <1>3. EntryCells * Len(es) \in Nat
    BY EntriesAre DEF EntryCells
  <1>4. QED
    BY <1>1, <1>2, <1>3 DEF TableEnd, HeaderCells

LEMMA TableIs ==
  ASSUME NEW es \in Seq(EntrySet)
  PROVE  /\ Table(es) \in Seq(Cell) /\ Len(Table(es)) = EntryCells * Len(es)
         /\ \A i \in 1 .. Len(es) : \A k \in 1 .. EntryCells :
               /\ EntryCells * (i - 1) + k \in 1 .. (EntryCells * Len(es))
               /\ Table(es)[EntryCells * (i - 1) + k] = <<"entry", es[i], k - 1>>
  <1>1. PICK T, n : T = Table(es) /\ n = EntryCells * Len(es)
    OBVIOUS
  <1>2. Len(es) \in Nat /\ n = 5 * Len(es) /\ n \in Nat /\ \A i \in 1 .. Len(es) : es[i] \in EntrySet
    BY <1>1, EntriesAre DEF EntryCells
  <1>3. T = [k \in 1 .. n |-> <<"entry", es[(k - 1) \div EntryCells + 1], (k - 1) % EntryCells>>]
    BY <1>1 DEF Table
  <1>4. ASSUME NEW k \in 1 .. n PROVE T[k] \in Cell
    <2>1. (k - 1) \div 5 + 1 \in 1 .. Len(es) /\ (k - 1) % 5 \in 0 .. 4
      BY <1>2
    <2>2. PICK i \in 1 .. Len(es), j \in 0 .. 4 : i = (k - 1) \div 5 + 1 /\ j = (k - 1) % 5
      BY <2>1
    <2>3. T[k] = <<"entry", es[i], j>>
      BY <1>3, <2>2 DEF EntryCells
    <2>4. es[i] \in EntrySet /\ j \in 0 .. (EntryCells - 1)
      BY <1>2 DEF EntryCells
    <2> QED BY <2>3, <2>4, KindsOfCells
  <1>5. T \in Seq(Cell) /\ Len(T) = n
    BY <1>2, <1>3, <1>4, Tabulated
  <1>6. ASSUME NEW i \in 1 .. Len(es), NEW k \in 1 .. EntryCells
        PROVE  EntryCells * (i - 1) + k \in 1 .. n /\ T[EntryCells * (i - 1) + k] = <<"entry", es[i], k - 1>>
    <2>1. PICK m : m = 5 * (i - 1) + k
      OBVIOUS
    <2>2. m \in 1 .. n /\ (m - 1) \div 5 + 1 = i /\ (m - 1) % 5 = k - 1
      BY <1>2, <2>1 DEF EntryCells
    <2>3. T[m] = <<"entry", es[i], k - 1>>
      BY <1>3, <2>2 DEF EntryCells
    <2> QED BY <2>1, <2>2, <2>3 DEF EntryCells
  <1>7. QED
    BY <1>1, <1>5, <1>6

\* Lists put together, element by element.
LEMMA JoinOne ==
  ASSUME NEW S, NEW s \in Seq(S), NEW t \in Seq(S)
  PROVE  /\ s \o t \in Seq(S) /\ Len(s \o t) = Len(s) + Len(t) /\ DOMAIN (s \o t) = 1 .. (Len(s) + Len(t))
         /\ \A i \in 1 .. Len(s) : (s \o t)[i] = s[i]
         /\ \A i \in 1 .. Len(t) : (s \o t)[Len(s) + i] = t[i]
  <1>1. Len(s) \in Nat /\ Len(t) \in Nat
    OBVIOUS
  <1>2. /\ s \o t \in Seq(S) /\ Len(s \o t) = Len(s) + Len(t)
        /\ \A i \in 1 .. Len(s) + Len(t) : (s \o t)[i] = IF i <= Len(s) THEN s[i] ELSE t[i - Len(s)]
    BY ConcatProperties
  <1>3. DOMAIN (s \o t) = 1 .. (Len(s) + Len(t))
    BY <1>2
  <1>4. \A i \in 1 .. Len(s) : (s \o t)[i] = s[i]
    BY <1>1, <1>2
  <1>5. ASSUME NEW i \in 1 .. Len(t) PROVE (s \o t)[Len(s) + i] = t[i]
    <2>1. PICK k : k = Len(s) + i
      OBVIOUS
    <2>2. k \in 1 .. Len(s) + Len(t) /\ ~ (k <= Len(s)) /\ k - Len(s) = i
      BY <1>1, <2>1
    <2>3. (s \o t)[k] = t[i]
      BY <1>2, <2>2
    <2> QED BY <2>1, <2>3
  <1>6. QED
    BY <1>2, <1>3, <1>4, <1>5

\* The calls of write_metadata(), behind whatever went before.
EndsInMetadata(calls, n, es) ==
  /\ n \in Nat /\ DOMAIN calls = 1 .. n /\ n >= 2 /\ calls[n] = PutSize(es)
  /\ es = <<>> => calls[n - 1] = PutHeader(es)
  /\ es # <<>> => n >= 3 /\ calls[n - 1] = PutTable(es) /\ calls[n - 2] = PutHeader(es)

MetadataCalls(es) == {PutHeader(es), PutTable(es), PutSize(es)}

LEMMA MetadataIs ==
  ASSUME NEW es \in Seq(EntrySet)
  PROVE  /\ Metadata(es, NextDataOf(es)) \in Seq(MetadataCalls(es))
         /\ EndsInMetadata(Metadata(es, NextDataOf(es)), Len(Metadata(es, NextDataOf(es))), es)
  <1> DEFINE S == MetadataCalls(es)
  <1>1. PICK a, b, c : a = PutHeader(es) /\ b = PutTable(es) /\ c = PutSize(es)
    OBVIOUS
  <1>2. PICK calls : calls = Metadata(es, NextDataOf(es))
    OBVIOUS
  <1>3. calls = <<a>> \o (IF es = <<>> THEN <<>> ELSE <<b>>) \o <<c>>
    BY <1>1, <1>2 DEF Metadata, PutHeader, PutTable, PutSize, TableAt, TableEnd, HeaderOf
  <1>4. /\ <<a>> \in Seq(S) /\ <<b>> \in Seq(S) /\ <<c>> \in Seq(S) /\ <<>> \in Seq(S)
        /\ Len(<<a>>) = 1 /\ Len(<<b>>) = 1 /\ Len(<<c>>) = 1 /\ Len(<<>>) = 0
        /\ <<a>>[1] = a /\ <<b>>[1] = b /\ <<c>>[1] = c /\ 1 \in 1 .. 1
    BY <1>1 DEF MetadataCalls
  <1> HIDE DEF S
  <1>5. CASE es = <<>>
    <2>1. PICK h : h = <<a>> \o <<>>
      OBVIOUS
    <2>2. h \in Seq(S) /\ Len(h) = 1 /\ h[1] = a
      <3>1. h = <<a>>
        BY <1>4, <2>1, ConcatEmptySeq
      <3> QED BY <1>4, <3>1
    <2>3. calls = h \o <<c>>
      BY <1>3, <1>5, <2>1
    <2>4. calls \in Seq(S) /\ Len(calls) = 2 /\ DOMAIN calls = 1 .. 2 /\ calls[1] = a /\ calls[2] = c
      BY <1>4, <2>2, <2>3, JoinOne
    <2>5. EndsInMetadata(calls, 2, es)
      BY <1>1, <1>5, <2>4 DEF EndsInMetadata
    <2> QED BY <1>2, <2>4, <2>5 DEF S
  <1>6. CASE es # <<>>
    <2>1. PICK h : h = <<a>> \o <<b>>
      OBVIOUS
    <2>2. h \in Seq(S) /\ Len(h) = 2 /\ h[1] = a /\ h[2] = b
      BY <1>4, <2>1, JoinOne
    <2>3. calls = h \o <<c>>
      BY <1>3, <1>6, <2>1
    <2>4. calls \in Seq(S) /\ Len(calls) = 3 /\ DOMAIN calls = 1 .. 3
          /\ calls[1] = a /\ calls[2] = b /\ calls[3] = c
      <3>1. PICK t \in Seq(S) : t = <<c>> /\ Len(t) = 1 /\ t[1] = c
        BY <1>4
      <3>2. /\ calls \in Seq(S) /\ Len(calls) = Len(h) + Len(t) /\ DOMAIN calls = 1 .. (Len(h) + Len(t))
            /\ \A i \in 1 .. Len(h) : calls[i] = h[i]
            /\ \A i \in 1 .. Len(t) : calls[Len(h) + i] = t[i]
        <4>1. calls = h \o t /\ h \in Seq(S) /\ t \in Seq(S)
          BY <2>2, <2>3, <3>1
        <4> QED BY <4>1, JoinOne
      <3> QED BY <2>2, <3>1, <3>2
    <2>5. EndsInMetadata(calls, 3, es)
      BY <1>1, <1>6, <2>4 DEF EndsInMetadata
    <2> QED BY <1>2, <2>4, <2>5 DEF S
  <1>7. QED
    BY <1>5, <1>6

\* A file that has the metadata is read as it was written.
LEMMA StoredReads ==
  ASSUME NEW es \in Seq(EntrySet), NEW f \in Files, Stored(f, es)
  PROVE  Readable(f) /\ ReadEntries(f) = es /\ f # <<>>
  <1>1. PICK n, at : n = Len(es) /\ at = TableAt(es)
    OBVIOUS
  <1>2. n \in Nat /\ at \in Nat /\ f[1][1] = "header" /\ f[1][2] = n /\ f[1][3] = at
    BY <1>1, EntriesAre, TableAtIs DEF Stored, HeaderOf
  <1>3. Len(f) >= at + EntryCells * n /\ Len(f) >= HeaderCells /\ Len(f) \in Nat
    BY <1>1, FileIs DEF Stored, TableEnd
  <1>4. ASSUME NEW i \in 1 .. n, NEW k \in 1 .. EntryCells
        PROVE  f[at + EntryCells * (i - 1) + k] = <<"entry", es[i], k - 1>>
    <2>1. PICK m : m = EntryCells * (i - 1) + k
      OBVIOUS
    <2>2. m \in 1 .. (EntryCells * n) /\ Table(es)[m] = <<"entry", es[i], k - 1>>
      BY <1>1, <2>1, TableIs
    <2>3. f[at + m] = <<"entry", es[i], k - 1>>
      BY <1>1, <2>2 DEF Stored
    <2>4. at + EntryCells * (i - 1) + k = at + m
      BY <1>2, <2>1 DEF EntryCells
    <2> QED BY <2>3, <2>4
  <1>5. 1 \in 1 .. EntryCells
    BY DEF EntryCells
  <1>6. \A i \in 1 .. n : f[at + EntryCells * (i - 1) + 1] = <<"entry", es[i], 0>>
    BY <1>4, <1>5
  <1>7. Readable(f)
    <2>1. HasHeader(f)
      BY <1>2, <1>3 DEF HasHeader
    <2>2. ASSUME NEW i \in 1 .. n, NEW b, b = at + EntryCells * (i - 1)
          PROVE  f[b + 1][1] = "entry" /\ \A k \in 1 .. EntryCells : f[b + k] = <<"entry", f[b + 1][2], k - 1>>
      BY <2>2, <1>4, <1>6
    <2>3. \A i \in 1 .. f[1][2] : LET b == f[1][3] + EntryCells * (i - 1)
             IN f[b + 1][1] = "entry" /\ \A k \in 1 .. EntryCells : f[b + k] = <<"entry", f[b + 1][2], k - 1>>
      BY <1>2, <2>2
    <2>4. Len(f) >= f[1][3] + EntryCells * f[1][2]
      BY <1>2, <1>3
    <2> QED BY <2>1, <2>3, <2>4, Zenon DEF Readable
  <1>8. ReadEntries(f) = [i \in 1 .. n |-> es[i]]
    BY <1>2, <1>6 DEF ReadEntries, TableEntry
  <1>9. es = [i \in 1 .. n |-> es[i]]
    BY <1>1
  <1>10. f # <<>>
    BY <1>3 DEF HeaderCells
  <1>11. QED
    BY <1>7, <1>8, <1>9, <1>10

\* Whatever file is read, the entries are such as are written.
LEMMA ReadableEntries ==
  ASSUME NEW f \in Files, Readable(f)
  PROVE  ReadEntries(f) \in Seq(EntrySet)
  <1>1. Len(f) \in Nat /\ \A i \in 1 .. Len(f) : f[i] \in Cell
    BY FileIs
  <1>2. HasHeader(f) /\ Len(f) >= HeaderCells
    BY DEF Readable, HasHeader
  <1>3. f[1] \in Cell /\ f[1][1] = "header"
    BY <1>1, <1>2 DEF HasHeader, HeaderCells
  <1>4. PICK n \in Nat, at \in Nat : n = f[1][2] /\ at = f[1][3]
    BY <1>3, CellKinds
  <1>5. Len(f) >= at + EntryCells * n
    BY <1>4 DEF Readable
  <1>6. ASSUME NEW i \in 1 .. n PROVE f[at + EntryCells * (i - 1) + 1][2] \in EntrySet
    <2>1. PICK m : m = at + EntryCells * (i - 1) + 1
      OBVIOUS
    <2>2. m \in 1 .. Len(f)
      <3>1. Len(f) \in Nat /\ n \in Nat /\ at \in Nat /\ i \in 1 .. n
        BY <1>1
      <3>2. Len(f) >= at + 5 * n /\ m = at + 5 * (i - 1) + 1
        BY <1>5, <2>1 DEF EntryCells
      <3> QED BY <3>1, <3>2
    <2>3. f[m][1] = "entry"
      BY <1>4, <2>1 DEF Readable
    <2> QED BY <1>1, <2>1, <2>2, <2>3, CellKinds
  <1>7. PICK es : es = ReadEntries(f)
    OBVIOUS
  <1>8. es = [i \in 1 .. n |-> f[at + EntryCells * (i - 1) + 1][2]]
    BY <1>4, <1>7 DEF ReadEntries, TableEntry
  <1>9. es \in Seq(EntrySet)
    <2>1. \A i \in 1 .. n : es[i] \in EntrySet
      BY <1>6, <1>8
    <2>2. es = [i \in 1 .. n |-> es[i]]
      BY <1>8
    <2> QED BY <2>1, <2>2, Tabulated
  <1>10. QED
    BY <1>7, <1>9

HasHead(es) == {f \in Files : Len(f) >= HeaderCells /\ f[1] = HeaderOf(es)}
HasTable(es) ==
  {f \in Files : /\ Len(f) >= TableEnd(es)
                 /\ \A k \in 1 .. (EntryCells * Len(es)) : f[TableAt(es) + k] = Table(es)[k]}

LEMMA StoredIs ==
  ASSUME NEW es, NEW f \in Files
  PROVE  Stored(f, es) <=> f \in HasHead(es) /\ f \in HasTable(es)
  BY DEF Stored, HasHead, HasTable

\* What the three calls make of a file.
LEMMA HeaderEffect ==
  ASSUME NEW es \in Seq(EntrySet), NEW f \in Files, NEW g, g = Effect(f, PutHeader(es))
  PROVE  /\ g \in HasHead(es) /\ Len(g) >= Len(f)
         /\ \A i \in 1 .. Len(f) : i > HeaderCells => g[i] = f[i]
  <1>1. PICK cells : cells = <<HeaderOf(es), Zero>>
    OBVIOUS
  <1>2. HeaderOf(es) \in Cell /\ Zero \in Cell
    BY EntriesAre, TableAtIs, KindsOfCells DEF HeaderOf
  <1>3. cells \in Seq(Cell) /\ Len(cells) = 2 /\ cells[1] = HeaderOf(es)
    BY <1>1, <1>2
  <1>4. g = Effect(f, Pwrite(0, cells))
    BY <1>1 DEF PutHeader
  <1>5. /\ g \in Files /\ Len(g) = IF Len(f) >= 0 + Len(cells) THEN Len(f) ELSE 0 + Len(cells)
        /\ \A i \in 1 .. Len(g) :
              g[i] = IF i - 0 \in 1 .. Len(cells) THEN cells[i - 0] ELSE IF i \in 1 .. Len(f) THEN f[i] ELSE Zero
    <2>1. Overwritten(g, f, 0, cells)
      BY <1>3, <1>4, PwriteEffect, 0 \in Nat
    <2> QED BY <2>1 DEF Overwritten
  <1>6. Len(f) \in Nat /\ Len(g) \in Nat
    BY <1>5, FileIs
  <1>7. Len(g) >= 2 /\ Len(g) >= Len(f)
    BY <1>3, <1>5, <1>6
  <1>8. g[1] = HeaderOf(es)
    BY <1>3, <1>5, <1>6, <1>7
  <1>9. ASSUME NEW i \in 1 .. Len(f), i > 2 PROVE g[i] = f[i]
    BY <1>3, <1>5, <1>6, <1>7, <1>9
  <1>10. QED
    BY <1>5, <1>7, <1>8, <1>9 DEF HasHead, HeaderCells

LEMMA TableEffect ==
  ASSUME NEW es \in Seq(EntrySet), NEW f \in Files, NEW g, g = Effect(f, PutTable(es))
  PROVE  /\ g \in HasTable(es) /\ Len(g) >= Len(f)
         /\ \A i \in 1 .. Len(f) : i <= TableAt(es) => g[i] = f[i]
  <1>1. PICK at, cells, n : at = TableAt(es) /\ cells = Table(es) /\ n = EntryCells * Len(es)
    OBVIOUS
  <1>2. at \in Nat /\ n \in Nat /\ TableEnd(es) = at + n
    BY <1>1, TableAtIs
  <1>3. cells \in Seq(Cell) /\ Len(cells) = n
    BY <1>1, TableIs
  <1>4. g = Effect(f, Pwrite(at, cells))
    BY <1>1 DEF PutTable
  <1>5. /\ g \in Files /\ Len(g) = IF Len(f) >= at + Len(cells) THEN Len(f) ELSE at + Len(cells)
        /\ \A i \in 1 .. Len(g) :
              g[i] = IF i - at \in 1 .. Len(cells) THEN cells[i - at] ELSE IF i \in 1 .. Len(f) THEN f[i] ELSE Zero
    <2>1. Overwritten(g, f, at, cells)
      BY <1>2, <1>3, <1>4, PwriteEffect
    <2> QED BY <2>1 DEF Overwritten
  <1>6. Len(f) \in Nat /\ Len(g) \in Nat
    BY <1>5, FileIs
  <1>7. Len(g) >= at + n /\ Len(g) >= Len(f)
    BY <1>2, <1>3, <1>5, <1>6
  <1>8. ASSUME NEW k \in 1 .. n PROVE g[at + k] = cells[k]
    <2>1. at + k \in 1 .. Len(g) /\ (at + k) - at = k /\ k \in 1 .. Len(cells)
      BY <1>2, <1>3, <1>6, <1>7
    <2> QED BY <1>5, <2>1
  <1>9. ASSUME NEW i \in 1 .. Len(f), i <= at PROVE g[i] = f[i]
    <2>1. i \in 1 .. Len(g) /\ i - at \notin 1 .. Len(cells)
      BY <1>2, <1>6, <1>7, <1>9
    <2> QED BY <1>5, <2>1
  <1>10. QED
    BY <1>1, <1>2, <1>5, <1>7, <1>8, <1>9 DEF HasTable

LEMMA SizeEffect ==
  ASSUME NEW es \in Seq(EntrySet), NEW f \in Files, NEW g, g = Effect(f, PutSize(es))
  PROVE  /\ g \in Files /\ Len(g) = TableEnd(es)
         /\ \A i \in 1 .. Len(f) : i <= TableEnd(es) => g[i] = f[i]
  <1>1. TableEnd(es) \in Nat
    BY TableAtIs
  <1>2. /\ g \in Files /\ Len(g) = TableEnd(es)
        /\ \A i \in 1 .. TableEnd(es) : g[i] = IF i \in 1 .. Len(f) THEN f[i] ELSE Zero
    BY <1>1, TruncateEffect DEF PutSize
  <1>3. Len(f) \in Nat
    BY FileIs
  <1>4. QED
    BY <1>1, <1>2, <1>3

\* Data between the header and the table is left alone.
LEMMA MetadataEffect ==
  ASSUME NEW es \in Seq(EntrySet), NEW f \in Files, NEW call \in MetadataCalls(es), NEW g, g = Effect(f, call)
  PROVE  /\ g \in Files
         /\ f \in HasHead(es) => g \in HasHead(es)
         /\ f \in HasTable(es) => g \in HasTable(es)
         /\ \A i \in 1 .. Len(f) : i > HeaderCells /\ i <= TableAt(es) => i \in 1 .. Len(g) /\ g[i] = f[i]
  <1>1. PICK at, n, end : at = TableAt(es) /\ n = EntryCells * Len(es) /\ end = TableEnd(es)
    OBVIOUS
  <1>2. at \in Nat /\ at >= 2 /\ n \in Nat /\ end = at + n
    BY <1>1, TableAtIs DEF HeaderCells
  <1>3. Len(f) \in Nat
    BY FileIs
  <1>4. CASE call = PutHeader(es)
    <2>1. /\ g \in HasHead(es) /\ Len(g) >= Len(f)
          /\ \A i \in 1 .. Len(f) : i > 2 => g[i] = f[i]
      BY <1>4, HeaderEffect DEF HeaderCells
    <2>2. g \in Files /\ Len(g) \in Nat
      BY <2>1, FileIs DEF HasHead
    <2>3. ASSUME f \in HasTable(es) PROVE g \in HasTable(es)
      <3>1. Len(f) >= end /\ \A k \in 1 .. n : f[at + k] = Table(es)[k]
        BY <1>1, <2>3 DEF HasTable
      <3>2. ASSUME NEW k \in 1 .. n PROVE g[at + k] = Table(es)[k]
        <4>1. at + k \in 1 .. Len(f) /\ at + k > 2
          BY <1>2, <1>3, <3>1
        <4> QED BY <2>1, <3>1, <4>1
      <3>3. Len(g) >= end
        BY <1>2, <1>3, <2>1, <2>2, <3>1
      <3> QED BY <1>1, <2>2, <3>2, <3>3 DEF HasTable
    <2>4. \A i \in 1 .. Len(f) : i > 2 /\ i <= at => i \in 1 .. Len(g) /\ g[i] = f[i]
      BY <1>3, <2>1, <2>2
    <2> QED BY <1>1, <2>1, <2>2, <2>3, <2>4 DEF HeaderCells
  <1>5. CASE call = PutTable(es)
    <2>1. /\ g \in HasTable(es) /\ Len(g) >= Len(f)
          /\ \A i \in 1 .. Len(f) : i <= at => g[i] = f[i]
      BY <1>1, <1>5, TableEffect
    <2>2. g \in Files /\ Len(g) \in Nat
      BY <2>1, FileIs DEF HasTable
    <2>3. ASSUME f \in HasHead(es) PROVE g \in HasHead(es)
      <3>1. Len(f) >= 2 /\ f[1] = HeaderOf(es)
        BY <2>3 DEF HasHead, HeaderCells
      <3>2. 1 \in 1 .. Len(f) /\ 1 <= at /\ Len(g) >= 2
        BY <1>2, <1>3, <2>1, <2>2, <3>1
      <3> QED BY <2>1, <2>2, <3>1, <3>2 DEF HasHead, HeaderCells
    <2>4. \A i \in 1 .. Len(f) : i > 2 /\ i <= at => i \in 1 .. Len(g) /\ g[i] = f[i]
      BY <1>3, <2>1, <2>2
    <2> QED BY <1>1, <2>1, <2>2, <2>3, <2>4 DEF HeaderCells
  <1>6. CASE call = PutSize(es)
    <2>1. /\ g \in Files /\ Len(g) = end
          /\ \A i \in 1 .. Len(f) : i <= end => g[i] = f[i]
      BY <1>1, <1>6, SizeEffect
    <2>2. ASSUME f \in HasHead(es) PROVE g \in HasHead(es)
      <3>1. Len(f) >= 2 /\ f[1] = HeaderOf(es)
        BY <2>2 DEF HasHead, HeaderCells
      <3>2. 1 \in 1 .. Len(f) /\ 1 <= end /\ Len(g) >= 2
        BY <1>2, <1>3, <2>1, <3>1
      <3> QED BY <2>1, <3>1, <3>2 DEF HasHead, HeaderCells
    <2>3. ASSUME f \in HasTable(es) PROVE g \in HasTable(es)
      <3>1. Len(f) >= end /\ \A k \in 1 .. n : f[at + k] = Table(es)[k]
        BY <1>1, <2>3 DEF HasTable
      <3>2. ASSUME NEW k \in 1 .. n PROVE g[at + k] = Table(es)[k]
        <4>1. at + k \in 1 .. Len(f) /\ at + k <= end
          BY <1>2, <1>3, <3>1
        <4> QED BY <2>1, <3>1, <4>1
      <3> QED BY <1>1, <1>2, <2>1, <3>2 DEF HasTable
    <2>4. \A i \in 1 .. Len(f) : i > 2 /\ i <= at => i \in 1 .. Len(g) /\ g[i] = f[i]
      BY <1>2, <1>3, <2>1
    <2> QED BY <1>1, <2>1, <2>2, <2>3, <2>4 DEF HeaderCells
  <1>7. QED
    BY <1>4, <1>5, <1>6 DEF MetadataCalls

\* The size is exact, so that a table of no entries needs no call of its own.
LEMMA EmptyTable ==
  ASSUME NEW f \in Files
  PROVE  Effect(f, PutSize(<<>>)) \in HasTable(<<>>)
  <1>1. PICK es \in Seq(EntrySet) : es = <<>> /\ Len(es) = 0
    <2>1. <<>> \in Seq(EntrySet) /\ Len(<<>>) = 0
      BY EmptySeq
    <2> QED BY <2>1, Zenon
  <1>2. PICK g : g = Effect(f, PutSize(es))
    OBVIOUS
  <1>3. g \in Files /\ Len(g) = TableEnd(es)
    BY <1>2, SizeEffect
  <1>4. TableEnd(es) \in Nat /\ 1 .. (EntryCells * Len(es)) = {}
    <2>1. EntryCells * Len(es) = 0
      BY <1>1 DEF EntryCells
    <2> QED BY <2>1, TableAtIs
  <1>5. g \in HasTable(es)
    BY <1>3, <1>4 DEF HasTable
  <1>6. QED
    BY <1>1, <1>2, <1>5

\* The calls of write_metadata() leave the file with the metadata.
LEMMA MetadataStored ==
  ASSUME NEW es \in Seq(EntrySet), NEW calls, NEW n, EndsInMetadata(calls, n, es),
         Applies(calls, n), Do(calls), images \in SUBSET Files, file \in images
  PROVE  file' \in Files /\ Stored(file', es)
  <1>1. n \in Nat /\ n >= 2 /\ calls[n] = PutSize(es)
    BY DEF EndsInMetadata
  <1>2. PutTable(es) \in MetadataCalls(es) /\ PutSize(es) \in MetadataCalls(es)
    BY DEF MetadataCalls
  <1>3. HasHead(es) \in SUBSET Files /\ HasTable(es) \in SUBSET Files
    BY DEF HasHead, HasTable
  <1>4. PICK h \in 1 .. n : /\ calls[h] = PutHeader(es)
                            /\ \A i \in (h + 1) .. n : calls[i] \in MetadataCalls(es)
    <2>1. CASE es = <<>>
      <3>1. n - 1 \in 1 .. n /\ \A i \in ((n - 1) + 1) .. n : i = n
        BY <1>1
      <3> QED BY <1>1, <1>2, <2>1, <3>1 DEF EndsInMetadata
    <2>2. CASE es # <<>>
      <3>1. n - 2 \in 1 .. n /\ \A i \in ((n - 2) + 1) .. n : i = n \/ i = n - 1
        BY <1>1, <2>2 DEF EndsInMetadata
      <3> QED BY <1>1, <1>2, <2>2, <3>1 DEF EndsInMetadata
    <2> QED BY <2>1, <2>2
  <1>5. file' \in HasHead(es)
    <2>1. \A f \in Files : Effect(f, calls[h]) \in HasHead(es)
      BY <1>4, HeaderEffect
    <2>2. \A f \in HasHead(es) : \A i \in (h + 1) .. n : Effect(f, calls[i]) \in HasHead(es)
      BY <1>3, <1>4, MetadataEffect
    <2> QED BY <1>3, <2>1, <2>2, DoLeaves
  <1>6. file' \in HasTable(es)
    <2>1. CASE es = <<>>
      <3>1. \A f \in Files : Effect(f, calls[n]) \in HasTable(es)
        BY <1>1, <2>1, EmptyTable
      <3>2. n \in 1 .. n /\ (n + 1) .. n = {}
        BY <1>1
      <3> QED BY <1>3, <3>1, <3>2, DoLeaves
    <2>2. CASE es # <<>>
      <3>1. n - 1 \in 1 .. n /\ calls[n - 1] = PutTable(es) /\ \A i \in ((n - 1) + 1) .. n : i = n
        BY <1>1, <2>2 DEF EndsInMetadata
      <3>2. \A f \in Files : Effect(f, calls[n - 1]) \in HasTable(es)
        BY <3>1, TableEffect
      <3>3. \A f \in HasTable(es) : \A i \in ((n - 1) + 1) .. n : Effect(f, calls[i]) \in HasTable(es)
        BY <1>1, <1>2, <1>3, <3>1, MetadataEffect
      <3> QED BY <1>3, <3>1, <3>2, <3>3, DoLeaves
    <2> QED BY <2>1, <2>2
  <1>7. QED
    BY <1>3, <1>5, <1>6, StoredIs

-----------------------------------------------------------------------------
(* What is stored under the names. *)

Contents ==
  {c \in [Names -> Seq(Values \cup {Unwritten})] : \A n \in Names : Len(c[n]) \in {0, Size[n]}}

Found(es, n) == FindEntry(es, n).at

\* Each name that has contents has an entry, which shares no cell with another.
Alone(es, c) ==
  \A n \in Names : c[n] # Absent =>
    /\ EntriesOf(es, n) # {}
    /\ \A j \in DOMAIN es : j # Max(EntriesOf(es, n)) => Region(es[j]) \cap Region(FindEntry(es, n)) = {}

\* The file has the contents at the entries.
Kept(es, f, c) ==
  \A n \in Names : c[n] # Absent =>
    \A k \in 1 .. Size[n] :
      c[n][k] # Unwritten => Found(es, n) + k \in DOMAIN f /\ f[Found(es, n) + k] = Data(c[n][k])

\* The cells of the entry that is found are between the header and what is appended.
LEMMA FoundIs ==
  ASSUME NEW es \in Seq(EntrySet), NEW n \in Names, EntriesOf(es, n) # {}
  PROVE  /\ FindEntry(es, n) \in EntrySet /\ FindEntry(es, n).size = Size[n]
         /\ Found(es, n) \in Nat /\ Found(es, n) >= HeaderCells
         /\ Found(es, n) + Size[n] <= NextDataOf(es)
         /\ Region(FindEntry(es, n)) = (Found(es, n) + 1) .. (Found(es, n) + Size[n])
  <1>1. PICK m \in DOMAIN es : m = Max(EntriesOf(es, n)) /\ FindEntry(es, n) = es[m] /\ es[m].name = n
               /\ es[m] \in EntrySet
    BY FoundEntry
  <1>2. es[m].size = Size[n] /\ es[m].at \in Nat /\ es[m].at >= HeaderCells
    BY <1>1, EntryIs
  <1>3. es[m].at + es[m].size <= NextDataOf(es)
    BY <1>1, NextIs
  <1>4. Found(es, n) = es[m].at
    BY <1>1 DEF Found
  <1>5. Region(es[m]) = (es[m].at + 1) .. (es[m].at + es[m].size)
    BY DEF Region
  <1>6. QED
    BY <1>1, <1>2, <1>3, <1>4, <1>5

\* A file that agrees with f from the header to the data's end keeps what f keeps.
LEMMA KeptStays ==
  ASSUME NEW es \in Seq(EntrySet), NEW c, NEW f \in Files, NEW g \in Files,
         Alone(es, c), Kept(es, f, c),
         \A i \in 1 .. Len(f) : i > HeaderCells /\ i <= NextDataOf(es) => i \in 1 .. Len(g) /\ g[i] = f[i]
  PROVE  Kept(es, g, c)
  <1> SUFFICES ASSUME NEW n \in Names, c[n] # Absent, NEW k \in 1 .. Size[n], c[n][k] # Unwritten
               PROVE  Found(es, n) + k \in DOMAIN g /\ g[Found(es, n) + k] = Data(c[n][k])
    BY DEF Kept
  <1>1. EntriesOf(es, n) # {}
    BY DEF Alone
  <1>2. PICK p : p = Found(es, n) + k
    OBVIOUS
  <1>3. p \in DOMAIN f /\ f[p] = Data(c[n][k])
    BY <1>2 DEF Kept
  <1>4. p \in 1 .. Len(f) /\ p > HeaderCells /\ p <= NextDataOf(es)
    <2>1. Found(es, n) \in Nat /\ Found(es, n) >= 2 /\ Found(es, n) + Size[n] <= NextDataOf(es)
      BY <1>1, FoundIs DEF HeaderCells
    <2>2. NextDataOf(es) \in Nat /\ Size[n] \in Nat /\ k \in Nat /\ k >= 1 /\ k <= Size[n]
      BY NextIs, SizeIs
    <2>3. p > 2 /\ p <= NextDataOf(es)
      BY <1>2, <2>1, <2>2
    <2> QED BY <1>3, <2>3, FileIs DEF HeaderCells
  <1>5. p \in DOMAIN g /\ g[p] = f[p]
    BY <1>4, FileIs
  <1>6. QED
    BY <1>2, <1>3, <1>5

\* write_metadata(), or any part of it, keeps data and metadata, in all images.
LEMMA MetadataDone ==
  ASSUME NEW es \in Seq(EntrySet), NEW calls \in Seq(MetadataCalls(es)), Do(calls),
         images \in SUBSET Files, file \in images
  PROVE  /\ Applies(calls, Len(calls))
         /\ images' \in SUBSET Files /\ file' \in images'
         /\ \A c : Alone(es, c) /\ Kept(es, file, c) => Kept(es, file', c)
         /\ \A c : Alone(es, c) /\ (\A f \in images : Stored(f, es) /\ Kept(es, f, c))
                      => \A f \in images' : Stored(f, es) /\ Kept(es, f, c)
  <1> DEFINE n == Len(calls)
  <1>1. n \in Nat /\ DOMAIN calls = 1 .. n /\ \A i \in 1 .. n : calls[i] \in MetadataCalls(es)
    OBVIOUS
  <1> HIDE DEF n
  <1>2. TableAt(es) \in Nat /\ NextDataOf(es) \in Nat /\ TableAt(es) >= NextDataOf(es)
    BY TableAtIs, NextIs
  <1>3. Applies(calls, n)
    BY <1>1, MetadataEffect DEF Applies
  <1>4. images' \in SUBSET Files /\ file' \in images'
    BY <1>3, DoFiles
  <1>5. ASSUME NEW c, Alone(es, c), NEW f \in Files, Kept(es, f, c), NEW i \in 1 .. n
        PROVE  Kept(es, Effect(f, calls[i]), c)
    <2>1. PICK g : g = Effect(f, calls[i])
      OBVIOUS
    <2>2. g \in Files /\ \A k \in 1 .. Len(f) : k > HeaderCells /\ k <= TableAt(es) => k \in 1 .. Len(g) /\ g[k] = f[k]
      BY <1>1, <2>1, MetadataEffect
    <2>3. \A k \in 1 .. Len(f) : k > HeaderCells /\ k <= NextDataOf(es) => k \in 1 .. Len(g) /\ g[k] = f[k]
      BY <1>2, <2>2, FileIs
    <2> QED BY <1>5, <2>1, <2>2, <2>3, KeptStays
  <1>6. ASSUME NEW f \in Files, Stored(f, es), NEW i \in 1 .. n PROVE Stored(Effect(f, calls[i]), es)
    <2>1. PICK g : g = Effect(f, calls[i])
      OBVIOUS
    <2>2. g \in Files /\ (f \in HasHead(es) => g \in HasHead(es)) /\ (f \in HasTable(es) => g \in HasTable(es))
      BY <1>1, <2>1, MetadataEffect
    <2> QED BY <1>6, <2>1, <2>2, StoredIs
  <1>7. ASSUME NEW c, Alone(es, c), Kept(es, file, c) PROVE Kept(es, file', c)
    <2> DEFINE P == {f \in Files : Kept(es, f, c)}
    <2>1. P \in SUBSET Files /\ file \in P
      BY <1>7
    <2>2. \A f \in P : \A i \in 1 .. n : Effect(f, calls[i]) \in P
      BY <1>3, <1>5, <1>7 DEF Applies
    <2>3. file' \in P
      <3> HIDE DEF P
      <3> QED BY <1>3, <2>1, <2>2, DoKeeps
    <2> QED BY <2>3
  <1>8. ASSUME NEW c, Alone(es, c), \A f \in images : Stored(f, es) /\ Kept(es, f, c)
        PROVE  \A f \in images' : Stored(f, es) /\ Kept(es, f, c)
    <2> DEFINE P == {f \in Files : Stored(f, es) /\ Kept(es, f, c)}
    <2>1. P \in SUBSET Files /\ images \subseteq P
      BY <1>8
    <2>2. \A f \in P : \A i \in 1 .. n : Effect(f, calls[i]) \in P
      BY <1>3, <1>5, <1>6, <1>8 DEF Applies
    <2>3. images' \subseteq P
      <3> HIDE DEF P
      <3> QED BY <1>3, <2>1, <2>2, DoKeeps
    <2> QED BY <2>3
  <1>9. QED
    BY <1>3, <1>4, <1>7, <1>8 DEF n

\* File g is f with the same data in a row of cells behind at.
Filled(g, f, at, size, v) ==
  /\ g \in Files /\ Len(g) >= Len(f)
  /\ \A k \in 1 .. size : at + k \in 1 .. Len(g) /\ g[at + k] = Data(v)
  /\ \A i \in 1 .. Len(f) : i <= at \/ i > at + size => i \in 1 .. Len(g) /\ g[i] = f[i]

LEMMA DataEffect ==
  ASSUME NEW f \in Files, NEW at \in Nat, NEW size \in Nat, size >= 1, NEW v \in Values,
         NEW cells, cells = [k \in 1 .. size |-> Data(v)], NEW g, g = Effect(f, Pwrite(at, cells))
  PROVE  Filled(g, f, at, size, v)
  <1>1. cells \in Seq(Cell) /\ Len(cells) = size /\ \A k \in 1 .. size : cells[k] = Data(v)
    BY Tabulated, KindsOfCells
  <1>2. /\ g \in Files /\ Len(g) = IF Len(f) >= at + Len(cells) THEN Len(f) ELSE at + Len(cells)
        /\ \A i \in 1 .. Len(g) :
              g[i] = IF i - at \in 1 .. Len(cells) THEN cells[i - at] ELSE IF i \in 1 .. Len(f) THEN f[i] ELSE Zero
    <2>1. Overwritten(g, f, at, cells)
      BY <1>1, PwriteEffect
    <2> QED BY <2>1 DEF Overwritten
  <1>3. Len(f) \in Nat /\ Len(g) \in Nat
    BY <1>2, FileIs
  <1>4. Len(g) >= Len(f) /\ Len(g) >= at + size
    BY <1>1, <1>2, <1>3
  <1>5. ASSUME NEW k \in 1 .. size PROVE at + k \in 1 .. Len(g) /\ g[at + k] = Data(v)
    <2>1. at + k \in 1 .. Len(g) /\ (at + k) - at = k /\ k \in 1 .. Len(cells)
      BY <1>1, <1>3, <1>4
    <2> QED BY <1>1, <1>2, <2>1
  <1>6. ASSUME NEW i \in 1 .. Len(f), i <= at \/ i > at + size PROVE i \in 1 .. Len(g) /\ g[i] = f[i]
    <2>1. i \in 1 .. Len(g) /\ i - at \notin 1 .. Len(cells)
      BY <1>1, <1>3, <1>4, <1>6
    <2> QED BY <1>2, <2>1
  <1>7. QED
    BY <1>2, <1>4, <1>5, <1>6 DEF Filled

\* An entry that is appended is the one that is found under its name.
FoundLast(fs, es, e) ==
  /\ EntriesOf(fs, e.name) # {} /\ Max(EntriesOf(fs, e.name)) = Len(es) + 1 /\ FindEntry(fs, e.name) = e
  /\ \A n \in Names : n # e.name =>
        /\ EntriesOf(fs, n) = EntriesOf(es, n)
        /\ EntriesOf(es, n) # {} => FindEntry(fs, n) = FindEntry(es, n)

LEMMA FoundAppended ==
  ASSUME NEW es \in Seq(EntrySet), NEW e \in EntrySet, NEW fs, fs = Append(es, e)
  PROVE  FoundLast(fs, es, e)
  <1>1. /\ Len(es) \in Nat /\ DOMAIN es = 1 .. Len(es)
        /\ fs \in Seq(EntrySet) /\ DOMAIN fs = 1 .. (Len(es) + 1)
        /\ \A i \in 1 .. Len(es) : fs[i] = es[i]
        /\ fs[Len(es) + 1] = e
    OBVIOUS
  <1>2. EntriesOf(fs, e.name) \in SUBSET Nat /\ Len(es) + 1 \in EntriesOf(fs, e.name)
        /\ \A i \in EntriesOf(fs, e.name) : i <= Len(es) + 1
    BY <1>1 DEF EntriesOf
  <1>3. Max(EntriesOf(fs, e.name)) = Len(es) + 1
    <2>1. PICK m : m = Max(EntriesOf(fs, e.name))
      OBVIOUS
    <2>2. m \in EntriesOf(fs, e.name) /\ \A i \in EntriesOf(fs, e.name) : i <= m
      BY <1>1, <1>2, <2>1, MaxIs
    <2>3. m \in Nat /\ m <= Len(es) + 1 /\ Len(es) + 1 <= m
      BY <1>2, <2>2
    <2> QED BY <1>1, <2>1, <2>3
  <1>4. ASSUME NEW n \in Names, n # e.name
        PROVE  /\ EntriesOf(fs, n) = EntriesOf(es, n)
               /\ EntriesOf(es, n) # {} => FindEntry(fs, n) = FindEntry(es, n)
    <2>1. EntriesOf(fs, n) = EntriesOf(es, n)
      <3>1. ASSUME NEW i \in EntriesOf(fs, n) PROVE i \in EntriesOf(es, n)
        <4>1. i \in 1 .. (Len(es) + 1) /\ fs[i].name = n
          BY <1>1 DEF EntriesOf
        <4>2. i # Len(es) + 1
          BY <1>1, <1>4, <4>1
        <4>3. i \in 1 .. Len(es)
          BY <1>1, <4>1, <4>2
        <4> QED BY <1>1, <4>1, <4>3 DEF EntriesOf
      <3>2. ASSUME NEW i \in EntriesOf(es, n) PROVE i \in EntriesOf(fs, n)
        <4>1. i \in 1 .. Len(es) /\ es[i].name = n
          BY <1>1 DEF EntriesOf
        <4>2. i \in 1 .. (Len(es) + 1)
          BY <1>1, <4>1
        <4> QED BY <1>1, <4>1, <4>2 DEF EntriesOf
      <3> QED BY <3>1, <3>2
    <2>2. ASSUME EntriesOf(es, n) # {} PROVE FindEntry(fs, n) = FindEntry(es, n)
      <3>1. PICK m \in DOMAIN es : m = Max(EntriesOf(es, n)) /\ FindEntry(es, n) = es[m]
        BY <2>2, FoundEntry
      <3>2. FindEntry(fs, n) = fs[m]
        BY <2>1, <3>1 DEF FindEntry
      <3> QED BY <1>1, <3>1, <3>2
    <2> QED BY <2>1, <2>2
  <1>5. QED
    BY <1>1, <1>2, <1>3, <1>4 DEF FindEntry, FoundLast

\* The contents d are c, but for one name.
SameBut(d, c, name) == \A n \in Names : n # name => d[n] = c[n]

\* The file has these cells behind at, as far as they are known.
Shows(f, at, size, cells) ==
  \A k \in 1 .. size : cells[k] # Unwritten => at + k \in DOMAIN f /\ f[at + k] = Data(cells[k])

\* File g is f but for what is behind the data: the table, and what it hides.
SameData(f, g, next) ==
  \A i \in 1 .. Len(f) : i > HeaderCells /\ i <= next => i \in 1 .. Len(g) /\ g[i] = f[i]

LEMMA AloneAppended ==
  ASSUME NEW es \in Seq(EntrySet), NEW e \in EntrySet, NEW fs, fs = Append(es, e), e.at >= NextDataOf(es),
         NEW c, NEW d, Alone(es, c), SameBut(d, c, e.name)
  PROVE  Alone(fs, d)
  <1>1. /\ Len(es) \in Nat /\ DOMAIN es = 1 .. Len(es) /\ DOMAIN fs = 1 .. (Len(es) + 1)
        /\ \A i \in 1 .. Len(es) : fs[i] = es[i] /\ es[i] \in EntrySet
        /\ fs[Len(es) + 1] = e
    OBVIOUS
  <1>2. NextDataOf(es) \in Nat /\ e.at \in Nat /\ e.size \in Nat /\ e.at >= NextDataOf(es)
    BY NextIs, EntryIs
  <1>3. Region(e) = (e.at + 1) .. (e.at + e.size)
    BY DEF Region
  <1>7. /\ EntriesOf(fs, e.name) # {} /\ Max(EntriesOf(fs, e.name)) = Len(es) + 1 /\ FindEntry(fs, e.name) = e
        /\ \A n \in Names : n # e.name =>
              /\ EntriesOf(fs, n) = EntriesOf(es, n)
              /\ EntriesOf(es, n) # {} => FindEntry(fs, n) = FindEntry(es, n)
    <2>1. FoundLast(fs, es, e)
      BY FoundAppended
    <2> QED BY <2>1 DEF FoundLast
  <1> SUFFICES ASSUME NEW n \in Names, d[n] # Absent
               PROVE  /\ EntriesOf(fs, n) # {}
                      /\ \A j \in DOMAIN fs : j # Max(EntriesOf(fs, n)) =>
                            Region(fs[j]) \cap Region(FindEntry(fs, n)) = {}
    BY DEF Alone
  <1>4. CASE n = e.name
    <2>1. EntriesOf(fs, n) # {} /\ Max(EntriesOf(fs, n)) = Len(es) + 1 /\ FindEntry(fs, n) = e
      BY <1>4, <1>7
    <2>2. ASSUME NEW j \in DOMAIN fs, j # Len(es) + 1 PROVE Region(fs[j]) \cap Region(e) = {}
      <3>1. j \in 1 .. Len(es) /\ fs[j] = es[j] /\ es[j] \in EntrySet
        BY <1>1, <2>2
      <3>2. es[j].at + es[j].size <= NextDataOf(es) /\ es[j].at \in Nat /\ es[j].size \in Nat
        BY <1>1, <3>1, NextIs, EntryIs
      <3>3. Region(es[j]) = (es[j].at + 1) .. (es[j].at + es[j].size)
        BY DEF Region
      <3> QED BY <1>2, <1>3, <3>1, <3>2, <3>3
    <2> QED BY <2>1, <2>2
  <1>5. CASE n # e.name
    <2>1. c[n] # Absent
      BY <1>5 DEF SameBut
    <2>2. /\ EntriesOf(es, n) # {}
          /\ \A j \in DOMAIN es : j # Max(EntriesOf(es, n)) => Region(es[j]) \cap Region(FindEntry(es, n)) = {}
      BY <2>1 DEF Alone
    <2>3. EntriesOf(fs, n) = EntriesOf(es, n) /\ FindEntry(fs, n) = FindEntry(es, n)
      BY <1>5, <1>7, <2>2
    <2>4. ASSUME NEW j \in DOMAIN fs, j # Max(EntriesOf(es, n))
          PROVE  Region(fs[j]) \cap Region(FindEntry(es, n)) = {}
      <3>1. CASE j \in 1 .. Len(es)
        BY <1>1, <2>2, <2>4, <3>1
      <3>2. CASE j = Len(es) + 1
        <4>1. /\ Found(es, n) \in Nat /\ Size[n] \in Nat /\ Found(es, n) + Size[n] <= NextDataOf(es)
              /\ Region(FindEntry(es, n)) = (Found(es, n) + 1) .. (Found(es, n) + Size[n])
          BY <2>2, FoundIs, SizeIs
        <4>2. fs[j] = e
          BY <1>1, <3>2
        <4>3. PICK a \in Nat, b \in Nat : a = Found(es, n) /\ b = Size[n]
          BY <4>1
        <4>4. ((e.at + 1) .. (e.at + e.size)) \cap ((a + 1) .. (a + b)) = {}
          BY <1>2, <4>1, <4>3
        <4> QED BY <1>3, <4>1, <4>2, <4>3, <4>4
      <3> QED BY <1>1, <2>4, <3>1, <3>2
    <2> QED BY <2>2, <2>3, <2>4
  <1>6. QED
    BY <1>4, <1>5

LEMMA KeptAppended ==
  ASSUME NEW es \in Seq(EntrySet), NEW e \in EntrySet, NEW fs, fs = Append(es, e),
         NEW c, NEW d, NEW f \in Files, NEW g \in Files,
         Alone(es, c), Kept(es, f, c), SameBut(d, c, e.name),
         SameData(f, g, NextDataOf(es)), Shows(g, e.at, Size[e.name], d[e.name])
  PROVE  Kept(fs, g, d)
  <1>1. Kept(es, g, c)
    BY KeptStays DEF SameData
  <1>5. FoundLast(fs, es, e)
    BY FoundAppended
  <1> SUFFICES ASSUME NEW n \in Names, d[n] # Absent, NEW k \in 1 .. Size[n], d[n][k] # Unwritten
               PROVE  Found(fs, n) + k \in DOMAIN g /\ g[Found(fs, n) + k] = Data(d[n][k])
    BY DEF Kept
  <1>2. CASE n = e.name
    <2>1. Found(fs, n) = e.at
      BY <1>2, <1>5 DEF Found, FoundLast
    <2> QED BY <1>2, <2>1 DEF Shows
  <1>3. CASE n # e.name
    <2>1. c[n] = d[n] /\ EntriesOf(es, n) # {}
      BY <1>3 DEF Alone, SameBut
    <2>2. Found(fs, n) = Found(es, n)
      BY <1>3, <1>5, <2>1 DEF Found, FoundLast
    <2> QED BY <1>1, <2>1, <2>2 DEF Kept
  <1>4. QED
    BY <1>2, <1>3

-----------------------------------------------------------------------------
(* Slices. *)

\* The order in which a set is gone through has each element once.
LEMMA OrderIs ==
  ASSUME NEW S, IsFiniteSet(S)
  PROVE  /\ Cardinality(S) \in Nat /\ SetToSeq(S) \in [1 .. Cardinality(S) -> S]
         /\ \A x \in S : \E i \in 1 .. Cardinality(S) : SetToSeq(S)[i] = x
  <1> DEFINE n == Cardinality(S)
             q == SetToSeq(S)
  <1>1. n \in Nat /\ ExistsBijection(1 .. n, S)
    BY FS_CardinalityType
  <1>2. \E f \in [1 .. n -> S] : IsInjective(f)
    BY <1>1 DEF ExistsBijection, Bijection, Injection, IsInjective
  <1>3. q \in [1 .. n -> S] /\ IsInjective(q)
    BY <1>2 DEF SetToSeq
  <1>4. q \in Injection(1 .. n, S)
    <2> HIDE DEF q, n
    <2> QED BY <1>3 DEF Injection, IsInjective
  <1>5. IsFiniteSet(1 .. n) /\ Cardinality(1 .. n) = n
    <2> HIDE DEF n
    <2> QED BY <1>1, FS_Interval
  <1>6. q \in Surjection(1 .. n, S)
    <2> HIDE DEF q
    <2> QED BY <1>4, <1>5, FS_Injection
  <1>7. \A x \in S : \E i \in 1 .. n : q[i] = x
    <2> HIDE DEF q, n
    <2> QED BY <1>6 DEF Surjection
  <1>8. QED
    BY <1>1, <1>3, <1>7

\* The contents d are c, but for the cells of a name, of which nothing is known.
Masked(d, c, name, cells) ==
  \A n \in Names : d[n] # Absent =>
    /\ c[n] # Absent
    /\ \A k \in 1 .. Size[n] : d[n][k] # Unwritten => d[n][k] = c[n][k] /\ ~ (n = name /\ k \in cells)

SliceCalls(at, cells, v) == [i \in 1 .. Cardinality(cells) |-> Pwrite(at + SetToSeq(cells)[i] - 1, <<Data(v)>>)]

\* File g is f with one cell of data at p.
Put(g, f, p, v) ==
  /\ g \in Files /\ Len(g) >= Len(f) /\ p \in 1 .. Len(g) /\ g[p] = Data(v)
  /\ \A x \in 1 .. Len(f) : x # p => x \in 1 .. Len(g) /\ g[x] = f[x]

LEMMA SliceDone ==
  ASSUME NEW es \in Seq(EntrySet), NEW name \in Names, EntriesOf(es, name) # {}, NEW v \in Values,
         NEW cells \in SUBSET (1 .. Size[name]), NEW calls, calls = SliceCalls(Found(es, name), cells, v),
         Do(calls), images \in SUBSET Files, file \in images
  PROVE  /\ images' \in SUBSET Files /\ file' \in images'
         /\ \A k \in cells : Found(es, name) + k \in DOMAIN file' /\ file'[Found(es, name) + k] = Data(v)
         /\ \A c, d : Alone(es, c) /\ Kept(es, file, c) /\ Masked(d, c, name, cells) => Kept(es, file', d)
         /\ \A c, d : Alone(es, c) /\ (\A f \in images : Stored(f, es) /\ Kept(es, f, c)) /\ Masked(d, c, name, cells)
                         => \A f \in images' : Stored(f, es) /\ Kept(es, f, d)
  <1>1. PICK at, q, n : at = Found(es, name) /\ q = SetToSeq(cells) /\ n = Cardinality(cells)
    OBVIOUS
  <1>2. Size[name] \in Nat /\ at \in Nat /\ at >= HeaderCells /\ at + Size[name] <= NextDataOf(es)
    BY <1>1, SizeIs, FoundIs
  <1>3. NextDataOf(es) \in Nat /\ TableAt(es) \in Nat /\ TableAt(es) >= NextDataOf(es)
    BY NextIs, TableAtIs
  <1>4. IsFiniteSet(cells)
    BY <1>2, FS_Interval, FS_Subset, 1 \in Int, Size[name] \in Int
  <1>5. n \in Nat /\ q \in [1 .. n -> cells] /\ \A k \in cells : \E i \in 1 .. n : q[i] = k
    BY <1>1, <1>4, OrderIs
  <1>6. DOMAIN calls = 1 .. n /\ \A i \in 1 .. n : calls[i] = Pwrite(at + q[i] - 1, <<Data(v)>>)
    BY <1>1 DEF SliceCalls
  <1>7. ASSUME NEW i \in 1 .. n PROVE q[i] \in cells /\ q[i] \in Nat /\ q[i] >= 1 /\ q[i] <= Size[name]
    <2>1. q[i] \in cells
      BY <1>5
    <2>2. q[i] \in 1 .. Size[name]
      BY <2>1
    <2> QED BY <1>2, <2>1, <2>2
  <1>8. ASSUME NEW f \in Files, NEW i \in 1 .. n
        PROVE  Put(Effect(f, calls[i]), f, at + q[i], v)
    <2>1. PICK g : g = Effect(f, calls[i])
      OBVIOUS
    <2>2. PICK b \in Nat : b = at + q[i] - 1
      BY <1>2, <1>7
    <2>3. PICK data : data = <<Data(v)>>
      OBVIOUS
    <2>4. PICK one \in Nat : one = 1 /\ data = [k \in 1 .. one |-> Data(v)]
      BY <2>3
    <2>5. g = Effect(f, Pwrite(b, data))
      BY <1>6, <2>2, <2>3, <2>1
    <2>6. /\ g \in Files /\ Len(g) >= Len(f)
          /\ \A k \in 1 .. one : b + k \in 1 .. Len(g) /\ g[b + k] = Data(v)
          /\ \A p \in 1 .. Len(f) : p <= b \/ p > b + one => p \in 1 .. Len(g) /\ g[p] = f[p]
      <3>1. one >= 1
        BY <2>4
      <3>2. Filled(g, f, b, one, v)
        BY <2>2, <2>4, <2>5, <3>1, DataEffect
      <3> QED BY <3>2 DEF Filled
    <2>7. b + 1 = at + q[i] /\ 1 \in 1 .. one /\ b + one = b + 1
      BY <1>2, <1>7, <2>2, <2>4
    <2>8. \A p \in 1 .. Len(f) : p # at + q[i] => p <= b \/ p > b + 1
      BY <2>7, FileIs
    <2> QED BY <2>6, <2>7, <2>8, <2>1 DEF Put
  <1>9. Applies(calls, n)
    BY <1>5, <1>6, <1>8 DEF Applies, Put
  <1>10. images' \in SUBSET Files /\ file' \in images'
    BY <1>9, DoFiles
  <1>11. ASSUME NEW k \in cells PROVE at + k \in DOMAIN file' /\ file'[at + k] = Data(v)
    <2> DEFINE P == {f \in Files : at + k \in 1 .. Len(f) /\ f[at + k] = Data(v)}
    <2>1. PICK j \in 1 .. n : q[j] = k
      BY <1>5
    <2>2. \A f \in Files : Effect(f, calls[j]) \in P
      BY <1>8, <2>1 DEF Put
    <2>3. \A f \in P : \A i \in (j + 1) .. n : Effect(f, calls[i]) \in P
      <3> SUFFICES ASSUME NEW f \in P, NEW i \in (j + 1) .. n PROVE Effect(f, calls[i]) \in P
        OBVIOUS
      <3>1. i \in 1 .. n /\ f \in Files
        <4> HIDE DEF P
        <4>1. i \in 1 .. n
          BY <1>5, <2>1
        <4>2. f \in Files
          BY DEF P
        <4> QED BY <4>1, <4>2
      <3>2. PICK g : g = Effect(f, calls[i])
        OBVIOUS
      <3>3. /\ g \in Files /\ at + q[i] \in 1 .. Len(g) /\ g[at + q[i]] = Data(v)
            /\ \A p \in 1 .. Len(f) : p # at + q[i] => p \in 1 .. Len(g) /\ g[p] = f[p]
        <4> HIDE DEF P
        <4>1. Put(g, f, at + q[i], v)
          BY <1>8, <3>1, <3>2
        <4> QED BY <4>1 DEF Put
      <3>4. at + k \in 1 .. Len(g) /\ g[at + k] = Data(v)
        BY <3>3
      <3> QED BY <3>2, <3>3, <3>4
    <2>4. P \in SUBSET Files
      OBVIOUS
    <2>5. file' \in P
      <3> HIDE DEF P
      <3> QED BY <1>9, <2>2, <2>3, <2>4, DoLeaves
    <2> QED BY <2>5, FileIs
  <1>12. ASSUME NEW c, NEW d, Alone(es, c), Masked(d, c, name, cells), NEW f \in Files, Kept(es, f, d), NEW i \in 1 .. n
         PROVE  Kept(es, Effect(f, calls[i]), d)
    <2>1. PICK g : g = Effect(f, calls[i])
      OBVIOUS
    <2>2. g \in Files /\ \A p \in 1 .. Len(f) : p # at + q[i] => p \in 1 .. Len(g) /\ g[p] = f[p]
      BY <1>8, <2>1 DEF Put
    <2>3. ASSUME NEW m \in Names, d[m] # Absent, NEW k \in 1 .. Size[m], d[m][k] # Unwritten
          PROVE  Found(es, m) + k # at + q[i]
      <3>1. c[m] # Absent /\ ~ (m = name /\ k \in cells)
        BY <1>12, <2>3 DEF Masked
      <3>2. /\ EntriesOf(es, m) # {}
            /\ \A j \in DOMAIN es : j # Max(EntriesOf(es, m)) => Region(es[j]) \cap Region(FindEntry(es, m)) = {}
        BY <1>12, <3>1 DEF Alone
      <3>3. CASE m = name
        <4>1. q[i] \in cells /\ q[i] # k
          BY <1>7, <3>1, <3>3
        <4> QED BY <1>1, <1>2, <1>7, <3>3, <4>1
      <3>4. CASE m # name
        <4>1. PICK j \in DOMAIN es : j = Max(EntriesOf(es, name)) /\ FindEntry(es, name) = es[j] /\ es[j].name = name
          BY FoundEntry
        <4>2. PICK j2 \in DOMAIN es : j2 = Max(EntriesOf(es, m)) /\ es[j2].name = m
          BY <3>2, FoundEntry
        <4>3. Region(FindEntry(es, name)) \cap Region(FindEntry(es, m)) = {}
          BY <3>2, <3>4, <4>1, <4>2
        <4>4. at + q[i] \in Region(FindEntry(es, name))
          <5>1. Region(FindEntry(es, name)) = (at + 1) .. (at + Size[name])
            BY <1>1, FoundIs
          <5> QED BY <1>2, <1>7, <5>1
        <4>5. Found(es, m) + k \in Region(FindEntry(es, m))
          <5>1. /\ Found(es, m) \in Nat /\ Size[m] \in Nat
                /\ Region(FindEntry(es, m)) = (Found(es, m) + 1) .. (Found(es, m) + Size[m])
            BY <3>2, FoundIs, SizeIs
          <5> QED BY <5>1
        <4> QED BY <4>3, <4>4, <4>5
      <3> QED BY <3>3, <3>4
    <2>4. ASSUME NEW m \in Names, d[m] # Absent, NEW k \in 1 .. Size[m], d[m][k] # Unwritten
          PROVE  Found(es, m) + k \in DOMAIN g /\ g[Found(es, m) + k] = Data(d[m][k])
      <3>1. PICK p : p = Found(es, m) + k
        OBVIOUS
      <3>2. p \in DOMAIN f /\ f[p] = Data(d[m][k])
        BY <1>12, <2>4, <3>1 DEF Kept
      <3>3. p # at + q[i] /\ p \in 1 .. Len(f)
        BY <2>3, <2>4, <3>1, <3>2, FileIs
      <3> QED BY <2>2, <3>1, <3>2, <3>3, FileIs
    <2> QED BY <2>1, <2>4 DEF Kept
  <1>13. ASSUME NEW c, NEW d, Masked(d, c, name, cells), NEW f, Kept(es, f, c) PROVE Kept(es, f, d)
    BY <1>13 DEF Masked, Kept
  <1>14. ASSUME NEW f \in Files, Stored(f, es), NEW i \in 1 .. n PROVE Stored(Effect(f, calls[i]), es)
    <2>1. PICK g : g = Effect(f, calls[i])
      OBVIOUS
    <2>2. g \in Files /\ Len(g) >= Len(f) /\ \A p \in 1 .. Len(f) : p # at + q[i] => p \in 1 .. Len(g) /\ g[p] = f[p]
      BY <1>8, <2>1 DEF Put
    <2>3. at + q[i] > 2 /\ at + q[i] <= TableAt(es) /\ at + q[i] \in Nat
      BY <1>2, <1>3, <1>7 DEF HeaderCells
    <2>4. Len(f) \in Nat /\ Len(g) \in Nat
      BY <2>2, FileIs
    <2>5. Len(f) >= 2 /\ Len(f) >= TableEnd(es) /\ f[1] = HeaderOf(es)
          /\ \A k \in 1 .. (EntryCells * Len(es)) : f[TableAt(es) + k] = Table(es)[k]
      BY <1>14 DEF Stored, HeaderCells
    <2>6. TableEnd(es) = TableAt(es) + EntryCells * Len(es) /\ EntryCells * Len(es) \in Nat
      BY TableAtIs
    <2>7. g[1] = HeaderOf(es)
      <3>1. 1 \in 1 .. Len(f) /\ 1 # at + q[i]
        BY <2>3, <2>4, <2>5
      <3> QED BY <2>2, <2>5, <3>1
    <2>8. ASSUME NEW k \in 1 .. (EntryCells * Len(es)) PROVE g[TableAt(es) + k] = Table(es)[k]
      <3>1. TableAt(es) + k \in 1 .. Len(f) /\ TableAt(es) + k # at + q[i]
        BY <1>3, <2>3, <2>4, <2>5, <2>6
      <3> QED BY <2>2, <2>5, <3>1
    <2>9. Len(g) >= 2 /\ Len(g) >= TableEnd(es)
      BY <1>3, <2>2, <2>4, <2>5, <2>6
    <2> QED BY <2>1, <2>7, <2>8, <2>9 DEF Stored, HeaderCells
  <1>15. ASSUME NEW c, NEW d, Alone(es, c), Kept(es, file, c), Masked(d, c, name, cells) PROVE Kept(es, file', d)
    <2> DEFINE P == {f \in Files : Kept(es, f, d)}
    <2>1. P \in SUBSET Files /\ file \in P
      BY <1>13, <1>15
    <2>2. \A f \in P : \A i \in 1 .. n : Effect(f, calls[i]) \in P
      BY <1>9, <1>12, <1>15 DEF Applies
    <2>3. file' \in P
      <3> HIDE DEF P
      <3> QED BY <1>9, <2>1, <2>2, DoKeeps
    <2> QED BY <2>3
  <1>16. ASSUME NEW c, NEW d, Alone(es, c), \A f \in images : Stored(f, es) /\ Kept(es, f, c),
                Masked(d, c, name, cells)
         PROVE  \A f \in images' : Stored(f, es) /\ Kept(es, f, d)
    <2> DEFINE P == {f \in Files : Stored(f, es) /\ Kept(es, f, d)}
    <2>1. P \in SUBSET Files /\ images \subseteq P
      BY <1>13, <1>16
    <2>2. \A f \in P : \A i \in 1 .. n : Effect(f, calls[i]) \in P
      BY <1>9, <1>12, <1>14, <1>16 DEF Applies
    <2>3. images' \subseteq P
      <3> HIDE DEF P
      <3> QED BY <1>9, <2>1, <2>2, DoKeeps
    <2> QED BY <2>3
  <1>17. QED
    BY <1>1, <1>10, <1>11, <1>15, <1>16

-----------------------------------------------------------------------------
(* The invariant. *)

\* The object's entries, if one is open.
Told(es) == mode # "closed" => entries = es

TypeInv ==
  /\ images \in SUBSET Files /\ file \in images
  /\ mode \in {"closed", "Read", "Write", "ReadWrite"}
  /\ entries \in Seq(EntrySet) /\ syncing \in BOOLEAN
  /\ content \in Contents /\ durable \in Contents
  /\ mode = "closed" => entries = <<>> /\ nextData = 0
  /\ mode # "closed" => nextData = NextDataOf(entries)
  /\ syncing => mode \in {"Write", "ReadWrite"} /\ Stored(file, entries)

\* What the program stored is at the entries the object has or, when none is open or it
\* only reads, at those in the file.
FileHolds ==
  content # Nothing =>
    \E es \in Seq(EntrySet) :
      /\ Told(es) /\ (mode \in {"closed", "Read"} => Stored(file, es))
      /\ Alone(es, content) /\ Kept(es, file, content)

\* What a crash must leave is in every image, at the same entries in all of them.
CrashHolds ==
  durable # Nothing =>
    \E es \in Seq(EntrySet) :
      /\ Told(es) /\ Alone(es, durable)
      /\ \A f \in images : Stored(f, es) /\ Kept(es, f, durable)

IInv == TypeInv /\ FileHolds /\ CrashHolds

LEMMA NothingIs == Nothing \in Contents /\ \A n \in Names : Nothing[n] = Absent
  <1>1. Nothing = [n \in Names |-> <<>>] /\ Absent = <<>>
    BY DEF Nothing, Absent
  <1>2. Nothing \in [Names -> Seq(Values \cup {Unwritten})]
    BY <1>1
  <1>3. \A n \in Names : Len(Nothing[n]) \in {0, Size[n]}
    BY <1>1
  <1>4. QED
    BY <1>1, <1>2, <1>3 DEF Contents

LEMMA NothingHeld ==
  ASSUME NEW es, NEW f
  PROVE  Alone(es, Nothing) /\ Kept(es, f, Nothing)
  BY NothingIs DEF Alone, Kept

\* Of an object that is open, the entries are those of what is stored.
LEMMA HeldOpen ==
  ASSUME IInv, mode # "closed"
  PROVE  /\ Alone(entries, content) /\ Kept(entries, file, content)
         /\ durable # Nothing =>
              Alone(entries, durable) /\ \A f \in images : Stored(f, entries) /\ Kept(entries, f, durable)
  <1>1. CASE content = Nothing
    BY <1>1, NothingHeld DEF IInv, CrashHolds, Told
  <1>2. CASE content # Nothing
    BY <1>2 DEF IInv, FileHolds, CrashHolds, Told
  <1>3. QED
    BY <1>1, <1>2

LEMMA StartHolds ==
  ASSUME Init
  PROVE  IInv
  <1>1. /\ file = <<>> /\ images = {<<>>} /\ mode = "closed" /\ entries = <<>> /\ nextData = 0
        /\ syncing = FALSE /\ content = Nothing /\ durable = Nothing
    BY DEF Init
  <1>2. <<>> \in Files /\ <<>> \in Seq(EntrySet)
    BY DEF Files
  <1>3. TypeInv
    BY <1>1, <1>2, NothingIs DEF TypeInv
  <1>4. QED
    BY <1>1, <1>3 DEF IInv, FileHolds, CrashHolds

\* An operation that makes no call, and one that makes one.
LEMMA DoesNothing ==
  ASSUME TypeInv, Do(<<>>)
  PROVE  file' = file /\ images' = images
  <1>1. PICK calls, n : calls = <<>> /\ n = 0
    OBVIOUS
  <1>2. Applies(calls, n)
    BY <1>1 DEF Applies
  <1>3. Do(calls)
    BY <1>1
  <1>4. PICK G : FileRun(G, file, calls, n)
    BY <1>2, FileSteps DEF TypeInv
  <1>5. PICK H : ImageRun(H, images, calls, n)
    BY <1>2, ImageSteps DEF TypeInv
  <1>6. QED
    BY <1>1, <1>3, <1>4, <1>5, DoesBoth DEF FileRun, ImageRun

LEMMA DoesOne ==
  ASSUME TypeInv, NEW call, \A f \in Files : Effect(f, call) \in Files, Do(<<call>>)
  PROVE  /\ file' = Effect(file, call)
         /\ images' \in SUBSET Files /\ file' \in images'
  <1>1. PICK calls, n : calls = <<call>> /\ n = 1
    OBVIOUS
  <1>2. Applies(calls, n)
    BY <1>1 DEF Applies
  <1>3. Do(calls)
    BY <1>1
  <1>4. PICK G : FileRun(G, file, calls, n)
    BY <1>2, FileSteps DEF TypeInv
  <1>5. file' = Effect(file, call)
    BY <1>1, <1>3, <1>4, DoesBoth DEF FileRun
  <1>6. images' \in SUBSET Files /\ file' \in images'
    BY <1>2, <1>3, DoFiles DEF TypeInv
  <1>7. QED
    BY <1>5, <1>6

-----------------------------------------------------------------------------
(* The steps. *)

\* The object of Mode::Write starts with nothing that must be kept.
LEMMA CreateHolds ==
  ASSUME IInv, Create
  PROVE  IInv'
  <1>1. PICK es, meta, first : es = <<>> /\ meta = Metadata(es, NextDataOf(es)) /\ first = Truncate(0)
    OBVIOUS
  <1>2. es \in Seq(EntrySet) /\ NextDataOf(es) = HeaderCells
    BY <1>1, NextOfNone
  <1>3. PICK S : S = MetadataCalls(es) \cup {first}
    OBVIOUS
  <1>4. meta \in Seq(MetadataCalls(es))
    BY <1>1, <1>2, MetadataIs
  <1>5. meta \in Seq(S) /\ <<first>> \in Seq(S)
    BY <1>3, <1>4
  <1>6. PICK calls : calls = <<first>> \o meta
    OBVIOUS
  <1>7. calls \in Seq(S)
    BY <1>5, <1>6, JoinOne
  <1>8. ASSUME NEW f \in Files, NEW call \in S PROVE Effect(f, call) \in Files
    <2>1. CASE call = first
      BY <1>1, <2>1, TruncateEffect, 0 \in Nat
    <2>2. CASE call \in MetadataCalls(es)
      BY <1>2, <2>2, MetadataEffect
    <2> QED BY <1>3, <2>1, <2>2
  <1>9. Applies(calls, Len(calls))
    <2>1. Len(calls) \in Nat /\ DOMAIN calls = 1 .. Len(calls) /\ \A i \in 1 .. Len(calls) : calls[i] \in S
      BY <1>7
    <2> QED BY <1>8, <2>1 DEF Applies
  <1>10. Do(calls)
    BY <1>1, <1>2, <1>6 DEF Create
  <1>11. images' \in SUBSET Files /\ file' \in images'
    BY <1>9, <1>10, DoFiles DEF IInv, TypeInv
  <1>12. /\ mode = "closed" /\ mode' = "Write" /\ entries' = es /\ nextData' = NextDataOf(es) /\ syncing' = syncing
         /\ content' = Nothing /\ durable' = Nothing
    BY <1>1, <1>2 DEF Create
  <1>13. syncing' = FALSE
    BY <1>12 DEF IInv, TypeInv
  <1>14. TypeInv'
    BY <1>2, <1>11, <1>12, <1>13, NothingIs DEF TypeInv
  <1>15. QED
    BY <1>12, <1>14 DEF IInv, FileHolds, CrashHolds

\* The object opened on a file has the entries in it.
LEMMA OpenHolds ==
  ASSUME IInv, NEW m \in {"Read", "ReadWrite"}, Open(m)
  PROVE  IInv'
  <1>1. /\ mode = "closed" /\ Readable(file) /\ mode' = m
        /\ entries' = ReadEntries(file) /\ nextData' = NextDataOf(entries')
        /\ file' = file /\ images' = images /\ syncing' = syncing /\ content' = content /\ durable' = durable
    BY DEF Open, disk, history
  <1>2. file \in Files /\ file \in images
    BY DEF IInv, TypeInv
  <1>3. entries' \in Seq(EntrySet)
    BY <1>1, <1>2, ReadableEntries
  <1>4. syncing = FALSE
    BY <1>1 DEF IInv, TypeInv
  <1>5. TypeInv'
    BY <1>1, <1>3, <1>4 DEF IInv, TypeInv
  <1>6. ASSUME NEW es \in Seq(EntrySet), Stored(file, es) PROVE entries' = es
    BY <1>1, <1>2, <1>6, StoredReads
  <1>7. FileHolds'
    <2> SUFFICES ASSUME content # Nothing
                 PROVE  \E es \in Seq(EntrySet) :
                          /\ entries' = es /\ Stored(file, es) /\ Alone(es, content) /\ Kept(es, file, content)
      BY <1>1 DEF FileHolds, Told
    <2>1. PICK es \in Seq(EntrySet) : Stored(file, es) /\ Alone(es, content) /\ Kept(es, file, content)
      BY <1>1 DEF IInv, FileHolds
    <2> QED BY <1>6, <2>1
  <1>8. CrashHolds'
    <2> SUFFICES ASSUME durable # Nothing
                 PROVE  \E es \in Seq(EntrySet) :
                          /\ entries' = es /\ Alone(es, durable)
                          /\ \A f \in images : Stored(f, es) /\ Kept(es, f, durable)
      BY <1>1 DEF CrashHolds, Told
    <2>1. PICK es \in Seq(EntrySet) : Alone(es, durable) /\ \A f \in images : Stored(f, es) /\ Kept(es, f, durable)
      BY DEF IInv, CrashHolds
    <2>2. entries' = es
      BY <1>2, <1>6, <2>1
    <2> QED BY <2>1, <2>2
  <1>9. QED
    BY <1>5, <1>7, <1>8 DEF IInv

\* The metadata of an object whose entries are known: what write_metadata() keeps.
LEMMA MetadataKeeps ==
  ASSUME TypeInv, NEW es \in Seq(EntrySet), NEW calls, calls = Metadata(es, NextDataOf(es)), Do(calls)
  PROVE  /\ images' \in SUBSET Files /\ file' \in images' /\ Stored(file', es)
         /\ \A c : Alone(es, c) /\ Kept(es, file, c) => Kept(es, file', c)
         /\ \A c : Alone(es, c) /\ (\A f \in images : Stored(f, es) /\ Kept(es, f, c))
                      => \A f \in images' : Stored(f, es) /\ Kept(es, f, c)
  <1>1. calls \in Seq(MetadataCalls(es)) /\ EndsInMetadata(calls, Len(calls), es)
    BY MetadataIs
  <1>2. images \in SUBSET Files /\ file \in images
    BY DEF TypeInv
  <1>3. /\ Applies(calls, Len(calls))
        /\ images' \in SUBSET Files /\ file' \in images'
        /\ \A c : Alone(es, c) /\ Kept(es, file, c) => Kept(es, file', c)
        /\ \A c : Alone(es, c) /\ (\A f \in images : Stored(f, es) /\ Kept(es, f, c))
                      => \A f \in images' : Stored(f, es) /\ Kept(es, f, c)
    BY <1>1, <1>2, MetadataDone
  <1>4. Stored(file', es)
    BY <1>1, <1>2, <1>3, MetadataStored
  <1>5. QED
    BY <1>3, <1>4

\* An empty file holds nothing the program stored.
LEMMA OpenEmptyHolds ==
  ASSUME IInv, NEW m \in {"Read", "ReadWrite"}, OpenEmpty(m)
  PROVE  IInv'
  <1>1. /\ mode = "closed" /\ file = <<>> /\ mode' = m /\ entries' = <<>> /\ nextData' = HeaderCells
        /\ syncing' = syncing /\ content' = content /\ durable' = durable
    BY DEF OpenEmpty, history
  <1>2. file \in Files /\ file \in images /\ images \in SUBSET Files
    BY DEF IInv, TypeInv
  <1>3. \A es \in Seq(EntrySet) : ~ Stored(file, es)
    BY <1>1, <1>2, StoredReads
  <1>4. content = Nothing /\ durable = Nothing
    BY <1>1, <1>2, <1>3 DEF IInv, FileHolds, CrashHolds
  <1>5. PICK es : es = <<>>
    OBVIOUS
  <1>6. es \in Seq(EntrySet) /\ NextDataOf(es) = HeaderCells
    BY <1>5, NextOfNone
  <1>7. images' \in SUBSET Files /\ file' \in images'
    <2>1. CASE m = "ReadWrite"
      <3>1. Do(Metadata(es, NextDataOf(es)))
        BY <1>5, <1>6, <2>1 DEF OpenEmpty
      <3> QED BY <1>6, <3>1, MetadataKeeps DEF IInv
    <2>2. CASE m = "Read"
      <3>1. Do(<<>>)
        BY <2>2 DEF OpenEmpty
      <3> QED BY <1>2, <3>1, DoesNothing DEF IInv
    <2> QED BY <2>1, <2>2
  <1>8. syncing = FALSE
    BY <1>1 DEF IInv, TypeInv
  <1>9. TypeInv'
    <2>1. entries' \in Seq(EntrySet) /\ nextData' = NextDataOf(entries')
      BY <1>1, <1>5, <1>6
    <2> QED BY <1>1, <1>7, <1>8, <2>1 DEF IInv, TypeInv
  <1>10. QED
    BY <1>1, <1>4, <1>9 DEF IInv, FileHolds, CrashHolds

\* An entry is appended; what is stored under its name is new, and a crash may lose all.
LEMMA AppendHolds ==
  ASSUME IInv, NEW name \in Names, NEW e, e = Entry(name, AlignUp(nextData)), Writing, AddEntry(e),
         content' \in Contents, durable' = Nothing, SameBut(content', content, name),
         images' \in SUBSET Files, file' \in images', SameData(file, file', nextData),
         Shows(file', e.at, Size[name], content'[name])
  PROVE  IInv'
  <1>1. mode \in {"Write", "ReadWrite"} /\ syncing = FALSE
    BY DEF Writing, IInv, TypeInv
  <1>2. /\ entries \in Seq(EntrySet) /\ nextData = NextDataOf(entries)
        /\ file \in Files /\ images \in SUBSET Files /\ file' \in Files
    BY <1>1 DEF IInv, TypeInv
  <1>3. nextData \in Nat /\ nextData >= HeaderCells
    BY <1>2, NextIs
  <1>4. e \in EntrySet /\ e.at = AlignUp(nextData) /\ e.name = name
    BY <1>3, NewEntry
  <1>5. e.at >= NextDataOf(entries)
    BY <1>2, <1>3, <1>4, Aligned
  <1>6. mode' = mode /\ syncing' = syncing /\ entries' = Append(entries, e) /\ nextData' = e.at + e.size
    BY DEF AddEntry
  <1>7. entries' \in Seq(EntrySet) /\ nextData' = NextDataOf(entries')
    BY <1>2, <1>4, <1>5, <1>6, NextOfAppended
  <1>8. TypeInv'
    BY <1>1, <1>6, <1>7, NothingIs DEF TypeInv
  <1>9. Alone(entries, content) /\ Kept(entries, file, content)
    BY <1>1, HeldOpen
  <1>10. PICK fs, d, g : fs = entries' /\ d = content' /\ g = file'
    OBVIOUS
  <1>11. fs = Append(entries, e) /\ SameBut(d, content, e.name)
    BY <1>4, <1>6, <1>10
  <1>12. Alone(fs, d)
    BY <1>2, <1>4, <1>5, <1>9, <1>11, AloneAppended
  <1>13. Kept(fs, g, d)
    <2>1. SameData(file, g, NextDataOf(entries))
      BY <1>2, <1>10
    <2>2. Shows(g, e.at, Size[e.name], d[e.name])
      BY <1>4, <1>10
    <2>3. g \in Files
      BY <1>2, <1>10
    <2> QED BY <1>2, <1>4, <1>9, <1>11, <2>1, <2>2, <2>3, KeptAppended
  <1>14. FileHolds'
    BY <1>1, <1>6, <1>7, <1>10, <1>12, <1>13 DEF FileHolds, Told
  <1>15. QED
    BY <1>8, <1>14 DEF IInv, CrashHolds

\* The data is written behind what was stored, over the table.
LEMMA WriteHolds ==
  ASSUME IInv, NEW name \in Names, NEW v \in Values, Write(name, v)
  PROVE  IInv'
  <1>1. PICK e : e = Entry(name, AlignUp(nextData))
    OBVIOUS
  <1>2. PICK new : new = [k \in 1 .. Size[name] |-> v]
    OBVIOUS
  <1>3. PICK cells : cells = [k \in 1 .. Size[name] |-> Data(v)]
    OBVIOUS
  <1>4. /\ Writing /\ AddEntry(e) /\ durable' = Nothing /\ content' = [content EXCEPT ![name] = new]
    BY <1>1, <1>2 DEF Write
  <1>5. Do(<<Pwrite(e.at, cells)>>)
    <2>1. Do(<<Pwrite(e.at, [k \in DOMAIN new |-> Data(v)])>>)
      BY <1>1, <1>2 DEF Write
    <2>2. cells = [k \in DOMAIN new |-> Data(v)]
      BY <1>2, <1>3
    <2> QED BY <2>1, <2>2
  <1>6. mode \in {"Write", "ReadWrite"} /\ entries \in Seq(EntrySet) /\ nextData = NextDataOf(entries)
        /\ file \in Files /\ content \in Contents
    BY <1>4 DEF Writing, IInv, TypeInv
  <1>7. nextData \in Nat /\ nextData >= HeaderCells
    BY <1>6, NextIs
  <1>8. e.at \in Nat /\ e.at >= nextData
    BY <1>1, <1>7, NewEntry, Aligned
  <1>9. Size[name] \in Nat /\ Size[name] >= 1
    BY SizeIs
  <1>10. PICK at, size, call : at = e.at /\ size = Size[name] /\ call = Pwrite(at, cells)
    OBVIOUS
  <1>11. ASSUME NEW f \in Files PROVE Filled(Effect(f, call), f, at, size, v)
    BY <1>3, <1>8, <1>9, <1>10, DataEffect
  <1>12. file' = Effect(file, call) /\ images' \in SUBSET Files /\ file' \in images'
    <2>1. \A f \in Files : Effect(f, call) \in Files
      BY <1>11 DEF Filled
    <2> QED BY <1>5, <1>10, <2>1, DoesOne DEF IInv
  <1>13. PICK g : g = file'
    OBVIOUS
  <1>14. /\ \A k \in 1 .. size : at + k \in 1 .. Len(g) /\ g[at + k] = Data(v)
         /\ \A i \in 1 .. Len(file) : i <= at \/ i > at + size => i \in 1 .. Len(g) /\ g[i] = file[i]
         /\ g \in Files
    BY <1>6, <1>11, <1>12, <1>13 DEF Filled
  <1>15. SameData(file, g, nextData)
    <2>1. ASSUME NEW i \in 1 .. Len(file), i <= nextData PROVE i <= at
      BY <1>7, <1>8, <1>10, <2>1
    <2> QED BY <1>14, <2>1 DEF SameData
  <1>16. content' \in Contents /\ content'[name] = new /\ SameBut(content', content, name)
    <2>1. new \in Seq(Values \cup {Unwritten}) /\ Len(new) = Size[name]
      BY <1>2, <1>9, Tabulated
    <2>2. PICK d : d = content'
      OBVIOUS
    <2>3. d \in Contents /\ d[name] = new /\ SameBut(d, content, name)
      <3>1. d = [content EXCEPT ![name] = new]
        BY <1>4, <2>2
      <3>2. content \in Contents
        BY <1>6
      <3> QED BY <2>1, <3>1, <3>2 DEF Contents, SameBut
    <2> QED BY <2>2, <2>3
  <1>17. ASSUME NEW k \in 1 .. Size[name]
         PROVE  e.at + k \in DOMAIN file' /\ file'[e.at + k] = Data(content'[name][k])
    <2>1. new[k] = v /\ k \in 1 .. size
      BY <1>2, <1>10
    <2>2. at + k \in DOMAIN g /\ g[at + k] = Data(v)
      BY <1>14, <2>1, FileIs
    <2> QED BY <1>10, <1>13, <1>16, <2>1, <2>2
  <1>18. QED
    <2>1. SameData(file, file', nextData)
      BY <1>13, <1>15
    <2>2. Shows(file', e.at, Size[name], content'[name])
      BY <1>17 DEF Shows
    <2> QED BY <1>1, <1>4, <1>12, <1>16, <2>1, <2>2, AppendHolds

LEMMA ReserveHolds ==
  ASSUME IInv, NEW name \in Names, Reserve(name)
  PROVE  IInv'
  <1>1. PICK e : e = Entry(name, AlignUp(nextData))
    OBVIOUS
  <1>2. PICK new : new = [k \in 1 .. Size[name] |-> Unwritten]
    OBVIOUS
  <1>3. /\ Writing /\ AddEntry(e) /\ durable' = Nothing /\ content' = [content EXCEPT ![name] = new]
        /\ file' = file /\ images' = images
    BY <1>1, <1>2 DEF Reserve, disk
  <1>4. file \in images /\ images \in SUBSET Files /\ content \in Contents
    BY DEF IInv, TypeInv
  <1>5. content' \in Contents /\ content'[name] = new /\ SameBut(content', content, name)
    <2>1. new \in Seq(Values \cup {Unwritten}) /\ Len(new) = Size[name]
      BY <1>2, SizeIs, Tabulated
    <2>2. PICK d : d = content'
      OBVIOUS
    <2>3. d \in Contents /\ d[name] = new /\ SameBut(d, content, name)
      <3>1. d = [content EXCEPT ![name] = new]
        BY <1>3, <2>2
      <3>2. content \in Contents
        BY <1>4
      <3> QED BY <2>1, <3>1, <3>2 DEF Contents, SameBut
    <2> QED BY <2>2, <2>3
  <1>6. Shows(file', e.at, Size[name], content'[name])
    BY <1>2, <1>5 DEF Shows
  <1>7. SameData(file, file', nextData)
    BY <1>3, <1>4 DEF SameData
  <1>8. QED
    BY <1>1, <1>3, <1>4, <1>5, <1>6, <1>7, AppendHolds

\* A write that fails has written behind the data that is stored.
LEMMA WriteFailsHolds ==
  ASSUME IInv, NEW name \in Names, NEW v \in Values, WriteFails(name, v)
  PROVE  IInv'
  <1>1. /\ Writing /\ durable' = Nothing /\ content' = content
        /\ mode' = mode /\ entries' = entries /\ nextData' = nextData /\ syncing' = syncing
    BY DEF WriteFails, handle
  <1>2. mode \in {"Write", "ReadWrite"} /\ entries \in Seq(EntrySet) /\ nextData = NextDataOf(entries)
        /\ syncing = FALSE /\ file \in Files /\ content \in Contents
        /\ file \in images /\ images \in SUBSET Files
    BY <1>1 DEF Writing, IInv, TypeInv
  <1>3. nextData \in Nat
    BY <1>2, NextIs
  <1>4. AlignUp(nextData) \in Nat /\ AlignUp(nextData) >= nextData
    BY <1>3, Aligned
  <1>5. PICK done \in 0 .. (Size[name] - 1) :
           Do(IF done = 0 THEN <<>> ELSE <<Pwrite(AlignUp(nextData), [k \in 1 .. done |-> Data(v)])>>)
    BY DEF WriteFails
  <1>6. file' \in images' /\ images' \in SUBSET Files /\ SameData(file, file', nextData)
    <2>1. CASE done = 0
      <3>1. file' = file /\ images' = images
        BY <1>5, <2>1, DoesNothing DEF IInv
      <3> QED BY <1>2, <3>1 DEF SameData
    <2>2. CASE done # 0
      <3>1. done \in Nat /\ done >= 1
        BY <2>2, SizeIs
      <3>2. PICK at, cells : at = AlignUp(nextData) /\ cells = [k \in 1 .. done |-> Data(v)]
        OBVIOUS
      <3>3. PICK call : call = Pwrite(at, cells)
        OBVIOUS
      <3>4. ASSUME NEW f \in Files PROVE Filled(Effect(f, call), f, at, done, v)
        BY <1>4, <3>1, <3>2, <3>3, DataEffect
      <3>5. Do(<<call>>)
        BY <1>5, <2>2, <3>2, <3>3
      <3>6. file' = Effect(file, call) /\ images' \in SUBSET Files /\ file' \in images'
        <4>1. \A f \in Files : Effect(f, call) \in Files
          BY <3>4 DEF Filled
        <4> QED BY <3>5, <4>1, DoesOne DEF IInv
      <3>7. \A i \in 1 .. Len(file) : i <= at => i \in 1 .. Len(file') /\ file'[i] = file[i]
        BY <1>2, <3>4, <3>6 DEF Filled
      <3>8. ASSUME NEW i \in 1 .. Len(file), i <= nextData PROVE i <= at
        BY <1>3, <1>4, <3>2, <3>8
      <3> QED BY <3>6, <3>7, <3>8 DEF SameData
    <2> QED BY <2>1, <2>2
  <1>7. TypeInv'
    BY <1>1, <1>2, <1>6, NothingIs DEF TypeInv
  <1>8. Alone(entries, content) /\ Kept(entries, file, content)
    BY <1>2, HeldOpen
  <1>9. Kept(entries, file', content)
    BY <1>2, <1>6, <1>8, KeptStays DEF SameData
  <1>10. FileHolds'
    BY <1>1, <1>2, <1>8, <1>9 DEF FileHolds, Told
  <1>11. QED
    BY <1>1, <1>7, <1>10 DEF IInv, CrashHolds

\* Some cells of what is stored under a name have a new value.
Overlaid(c, name, cells, w) ==
  [c EXCEPT ![name] = [k \in DOMAIN c[name] |-> IF k \in cells THEN w ELSE c[name][k]]]

IsOverlaid(d, c, name, cells, w) ==
  /\ d \in Contents /\ SameBut(d, c, name)
  /\ d[name] # Absent <=> c[name] # Absent
  /\ c[name] = Absent => d = c
  /\ c[name] # Absent => \A k \in 1 .. Size[name] : d[name][k] = IF k \in cells THEN w ELSE c[name][k]

LEMMA OverlaidIs ==
  ASSUME NEW c \in Contents, NEW name \in Names, NEW cells \in SUBSET (1 .. Size[name]),
         NEW w \in Values \cup {Unwritten}, NEW d, d = Overlaid(c, name, cells, w)
  PROVE  IsOverlaid(d, c, name, cells, w)
  <1>1. PICK new : new = [k \in DOMAIN c[name] |-> IF k \in cells THEN w ELSE c[name][k]]
    OBVIOUS
  <1>2. d = [c EXCEPT ![name] = new]
    BY <1>1 DEF Overlaid
  <1>3. c \in [Names -> Seq(Values \cup {Unwritten})] /\ Len(c[name]) \in {0, Size[name]}
    BY DEF Contents
  <1>4. PICK n \in Nat : n = Len(c[name]) /\ DOMAIN c[name] = 1 .. n
                         /\ \A k \in 1 .. n : c[name][k] \in Values \cup {Unwritten}
    BY <1>3
  <1>5. new = [k \in 1 .. n |-> IF k \in cells THEN w ELSE c[name][k]]
    BY <1>1, <1>4
  <1>6. \A k \in 1 .. n : new[k] \in Values \cup {Unwritten}
    BY <1>4, <1>5
  <1>7. new \in Seq(Values \cup {Unwritten}) /\ Len(new) = n /\ DOMAIN new = 1 .. n
    BY <1>5, <1>6, Tabulated
  <1>8. d \in Contents /\ SameBut(d, c, name) /\ d[name] = new
    BY <1>2, <1>3, <1>4, <1>7 DEF Contents, SameBut
  <1>9. ASSUME c[name] = Absent PROVE d = c
    <2>1. n = 0 /\ new = <<>>
      BY <1>4, <1>7, <1>9 DEF Absent
    <2>2. new = c[name]
      BY <1>9, <2>1 DEF Absent
    <2> QED BY <1>2, <1>3, <2>2
  <1>10. ASSUME c[name] # Absent PROVE n = Size[name]
    BY <1>3, <1>4, <1>10 DEF Absent
  <1>11. d[name] # Absent <=> c[name] # Absent
    BY <1>4, <1>7, <1>8 DEF Absent
  <1>12. QED
    BY <1>5, <1>8, <1>9, <1>10, <1>11 DEF IsOverlaid

LEMMA OverlaidMasks ==
  ASSUME NEW c \in Contents, NEW name \in Names, NEW cells \in SUBSET (1 .. Size[name]),
         NEW d, d = Overlaid(c, name, cells, Unwritten)
  PROVE  Masked(d, c, name, cells)
  <1>1. PICK w \in Values \cup {Unwritten} : w = Unwritten
    OBVIOUS
  <1>2. IsOverlaid(d, c, name, cells, w)
    BY <1>1, OverlaidIs
  <1>3. QED
    BY <1>1, <1>2 DEF Masked, SameBut, IsOverlaid

\* The cells of a slice, and what is then known of the others.
LEMMA WriteSliceHolds ==
  ASSUME IInv, NEW name \in Names, NEW v \in Values, NEW cells \in SUBSET (1 .. Size[name]),
         WriteSlice(name, cells, v)
  PROVE  IInv'
  <1>1. /\ Writing /\ EntriesOf(entries, name) # {}
        /\ mode' = mode /\ entries' = entries /\ nextData' = nextData /\ syncing' = syncing
    BY DEF WriteSlice, handle
  <1>2. content' = Overlaid(content, name, cells, v) /\ durable' = Overlaid(durable, name, cells, Unwritten)
    BY DEF WriteSlice, Overlaid
  <1>3. mode \in {"Write", "ReadWrite"} /\ entries \in Seq(EntrySet) /\ nextData = NextDataOf(entries)
        /\ syncing = FALSE /\ file \in images /\ images \in SUBSET Files
        /\ content \in Contents /\ durable \in Contents
    BY <1>1 DEF Writing, IInv, TypeInv
  <1>4. PICK calls : calls = SliceCalls(Found(entries, name), cells, v)
    OBVIOUS
  <1>5. Do(calls)
    BY <1>4 DEF WriteSlice, SliceCalls, Found
  <1>6. /\ images' \in SUBSET Files /\ file' \in images'
        /\ \A k \in cells : Found(entries, name) + k \in DOMAIN file' /\ file'[Found(entries, name) + k] = Data(v)
        /\ \A c, d : Alone(entries, c) /\ Kept(entries, file, c) /\ Masked(d, c, name, cells) => Kept(entries, file', d)
        /\ \A c, d : Alone(entries, c) /\ (\A f \in images : Stored(f, entries) /\ Kept(entries, f, c))
                        /\ Masked(d, c, name, cells)
                     => \A f \in images' : Stored(f, entries) /\ Kept(entries, f, d)
    BY <1>1, <1>3, <1>4, <1>5, SliceDone
  <1>7. /\ Alone(entries, content) /\ Kept(entries, file, content)
        /\ durable # Nothing =>
             Alone(entries, durable) /\ \A f \in images : Stored(f, entries) /\ Kept(entries, f, durable)
    BY <1>3, HeldOpen
  <1>8. PICK c, d, b : c = content' /\ d = durable' /\ b = Overlaid(content, name, cells, Unwritten)
    OBVIOUS
  <1>9. IsOverlaid(c, content, name, cells, v)
    BY <1>2, <1>3, <1>8, OverlaidIs
  <1>10. PICK w \in Values \cup {Unwritten} : w = Unwritten
    OBVIOUS
  <1>11. IsOverlaid(b, content, name, cells, w) /\ IsOverlaid(d, durable, name, cells, w)
    BY <1>2, <1>3, <1>8, <1>10, OverlaidIs
  <1>12. Masked(b, content, name, cells) /\ Masked(d, durable, name, cells)
    BY <1>2, <1>3, <1>8, OverlaidMasks
  <1>13. Kept(entries, file', b)
    BY <1>6, <1>7, <1>12
  <1>14. Alone(entries, c)
    <2>1. \A n \in Names : c[n] # Absent => content[n] # Absent
      BY <1>9 DEF SameBut, IsOverlaid
    <2> QED BY <1>7, <2>1 DEF Alone
  <1>15. Kept(entries, file', c)
    <2> SUFFICES ASSUME NEW n \in Names, c[n] # Absent, NEW k \in 1 .. Size[n], c[n][k] # Unwritten
                 PROVE  Found(entries, n) + k \in DOMAIN file' /\ file'[Found(entries, n) + k] = Data(c[n][k])
      BY DEF Kept
    <2>1. CASE n = name /\ k \in cells
      <3>1. c[n][k] = v
        BY <1>9, <2>1 DEF IsOverlaid
      <3> QED BY <1>6, <2>1, <3>1
    <2>2. CASE n = name /\ k \notin cells
      <3>1. content[name] # Absent /\ c[n][k] = content[name][k]
        BY <1>9, <2>2 DEF IsOverlaid
      <3>2. b[n] # Absent /\ b[n][k] = content[name][k]
        BY <1>11, <2>2, <3>1 DEF IsOverlaid
      <3> QED BY <1>13, <3>1, <3>2 DEF Kept
    <2>3. CASE n # name
      <3>1. c[n] = content[n] /\ b[n] = content[n]
        BY <1>9, <1>11, <2>3 DEF SameBut, IsOverlaid
      <3> QED BY <1>13, <3>1 DEF Kept
    <2> QED BY <2>1, <2>2, <2>3
  <1>16. FileHolds'
    BY <1>1, <1>3, <1>8, <1>14, <1>15 DEF FileHolds, Told
  <1>17. TypeInv'
    BY <1>1, <1>3, <1>6, <1>8, <1>9, <1>11 DEF TypeInv, IsOverlaid
  <1>18. CrashHolds'
    <2>1. CASE durable = Nothing
      <3>1. durable[name] = Absent
        BY <2>1, NothingIs
      <3>2. d = durable
        BY <1>11, <3>1 DEF IsOverlaid
      <3> QED BY <1>8, <2>1, <3>2 DEF CrashHolds
    <2>2. CASE durable # Nothing
      <3>1. \A f \in images' : Stored(f, entries) /\ Kept(entries, f, d)
        BY <1>6, <1>7, <1>12, <2>2
      <3>2. Alone(entries, d)
        BY <1>7, <1>12, <2>2 DEF Alone, Masked
      <3> QED BY <1>1, <1>3, <1>8, <3>1, <3>2 DEF CrashHolds, Told
    <2> QED BY <2>1, <2>2
  <1>19. QED
    BY <1>16, <1>17, <1>18 DEF IInv

\* flush() leaves the metadata in the file, and what is stored where it was.
LEMMA FlushHolds ==
  ASSUME IInv, Flush
  PROVE  IInv'
  <1>1. /\ Writing /\ Do(Metadata(entries, nextData)) /\ syncing' = TRUE
        /\ mode' = mode /\ entries' = entries /\ nextData' = nextData /\ content' = content /\ durable' = durable
    BY DEF Flush, history
  <1>2. mode \in {"Write", "ReadWrite"} /\ entries \in Seq(EntrySet) /\ nextData = NextDataOf(entries)
    BY <1>1 DEF Writing, IInv, TypeInv
  <1>3. /\ images' \in SUBSET Files /\ file' \in images' /\ Stored(file', entries)
        /\ \A c : Alone(entries, c) /\ Kept(entries, file, c) => Kept(entries, file', c)
        /\ \A c : Alone(entries, c) /\ (\A f \in images : Stored(f, entries) /\ Kept(entries, f, c))
                      => \A f \in images' : Stored(f, entries) /\ Kept(entries, f, c)
    BY <1>1, <1>2, MetadataKeeps DEF IInv
  <1>4. /\ Alone(entries, content) /\ Kept(entries, file, content)
        /\ durable # Nothing =>
             Alone(entries, durable) /\ \A f \in images : Stored(f, entries) /\ Kept(entries, f, durable)
    BY <1>2, HeldOpen
  <1>5. TypeInv'
    BY <1>1, <1>2, <1>3 DEF IInv, TypeInv
  <1>6. FileHolds'
    BY <1>1, <1>2, <1>3, <1>4 DEF FileHolds, Told
  <1>7. CrashHolds'
    BY <1>1, <1>2, <1>3, <1>4 DEF CrashHolds, Told
  <1>8. QED
    BY <1>5, <1>6, <1>7 DEF IInv

\* A flush() that fails has made the first of its calls.
LEMMA FlushFailsHolds ==
  ASSUME IInv, FlushFails
  PROVE  IInv'
  <1>1. /\ Writing
        /\ mode' = mode /\ entries' = entries /\ nextData' = nextData /\ syncing' = syncing
        /\ content' = content /\ durable' = durable
    BY DEF FlushFails, handle, history
  <1>2. mode \in {"Write", "ReadWrite"} /\ entries \in Seq(EntrySet) /\ nextData = NextDataOf(entries)
        /\ syncing = FALSE /\ images \in SUBSET Files /\ file \in images
    BY <1>1 DEF Writing, IInv, TypeInv
  <1>3. PICK meta : meta = Metadata(entries, nextData)
    OBVIOUS
  <1>4. PICK done \in 0 .. (Len(meta) - 2) : Do(SubSeq(meta, 1, done))
    BY <1>3 DEF FlushFails
  <1>5. meta \in Seq(MetadataCalls(entries))
    BY <1>2, <1>3, MetadataIs
  <1>6. PICK calls : calls = SubSeq(meta, 1, done)
    OBVIOUS
  <1>7. calls \in Seq(MetadataCalls(entries))
    <2>1. Len(meta) \in Nat /\ done \in Nat /\ done <= Len(meta)
      BY <1>5
    <2>2. \A i \in 1 .. done : i \in 1 .. Len(meta)
      BY <2>1
    <2>3. calls = [i \in 1 .. done |-> meta[i]]
      BY <1>5, <1>6, <2>1
    <2>4. \A i \in 1 .. done : meta[i] \in MetadataCalls(entries)
      BY <1>5, <2>2
    <2> QED BY <2>1, <2>3, <2>4, Tabulated
  <1>8. /\ images' \in SUBSET Files /\ file' \in images'
        /\ \A c : Alone(entries, c) /\ Kept(entries, file, c) => Kept(entries, file', c)
        /\ \A c : Alone(entries, c) /\ (\A f \in images : Stored(f, entries) /\ Kept(entries, f, c))
                      => \A f \in images' : Stored(f, entries) /\ Kept(entries, f, c)
    BY <1>2, <1>4, <1>6, <1>7, MetadataDone
  <1>9. /\ Alone(entries, content) /\ Kept(entries, file, content)
        /\ durable # Nothing =>
             Alone(entries, durable) /\ \A f \in images : Stored(f, entries) /\ Kept(entries, f, durable)
    BY <1>2, HeldOpen
  <1>10. TypeInv'
    BY <1>1, <1>2, <1>8 DEF IInv, TypeInv
  <1>11. FileHolds'
    BY <1>1, <1>2, <1>8, <1>9 DEF FileHolds, Told
  <1>12. CrashHolds'
    BY <1>1, <1>2, <1>8, <1>9 DEF CrashHolds, Told
  <1>13. QED
    BY <1>10, <1>11, <1>12 DEF IInv

\* fsync(): a crash leaves the file as it is.
LEMMA SyncHolds ==
  ASSUME IInv, Sync
  PROVE  IInv'
  <1>1. /\ syncing /\ images' = {file} /\ durable' = content /\ syncing' = FALSE
        /\ file' = file /\ mode' = mode /\ entries' = entries /\ nextData' = nextData /\ content' = content
    BY DEF Sync
  <1>2. mode \in {"Write", "ReadWrite"} /\ Stored(file, entries) /\ entries \in Seq(EntrySet)
        /\ file \in Files /\ content \in Contents
    BY <1>1 DEF IInv, TypeInv
  <1>3. Alone(entries, content) /\ Kept(entries, file, content)
    BY <1>2, HeldOpen
  <1>4. TypeInv'
    BY <1>1, <1>2 DEF IInv, TypeInv
  <1>5. FileHolds'
    BY <1>1, <1>2, <1>3 DEF FileHolds, Told
  <1>6. CrashHolds'
    BY <1>1, <1>2, <1>3 DEF CrashHolds, Told
  <1>7. QED
    BY <1>4, <1>5, <1>6 DEF IInv

\* The destructor leaves in the file what a later object reads.
LEMMA CloseHolds ==
  ASSUME IInv, Close
  PROVE  IInv'
  <1>1. /\ mode # "closed" /\ ~ syncing /\ mode' = "closed" /\ entries' = <<>> /\ nextData' = 0
        /\ syncing' = syncing /\ content' = content /\ durable' = durable
    BY DEF Close, history
  <1>2. entries \in Seq(EntrySet) /\ nextData = NextDataOf(entries) /\ syncing = FALSE
        /\ images \in SUBSET Files /\ file \in images /\ <<>> \in Seq(EntrySet)
    BY <1>1 DEF IInv, TypeInv
  <1>3. /\ Alone(entries, content) /\ Kept(entries, file, content)
        /\ durable # Nothing =>
             Alone(entries, durable) /\ \A f \in images : Stored(f, entries) /\ Kept(entries, f, durable)
    BY <1>1, HeldOpen
  <1>4. /\ images' \in SUBSET Files /\ file' \in images'
        /\ content # Nothing => Stored(file', entries) /\ Kept(entries, file', content)
        /\ durable # Nothing => \A f \in images' : Stored(f, entries) /\ Kept(entries, f, durable)
    <2>1. CASE mode = "Read"
      <3>1. file' = file /\ images' = images
        BY <2>1, DoesNothing DEF Close, IInv
      <3>2. content # Nothing => Stored(file, entries)
        BY <2>1 DEF IInv, FileHolds, Told
      <3> QED BY <1>2, <1>3, <3>1, <3>2
    <2>2. CASE mode # "Read"
      <3>1. Do(Metadata(entries, nextData))
        BY <2>2 DEF Close
      <3>2. /\ images' \in SUBSET Files /\ file' \in images' /\ Stored(file', entries)
            /\ \A c : Alone(entries, c) /\ Kept(entries, file, c) => Kept(entries, file', c)
            /\ \A c : Alone(entries, c) /\ (\A f \in images : Stored(f, entries) /\ Kept(entries, f, c))
                          => \A f \in images' : Stored(f, entries) /\ Kept(entries, f, c)
        BY <1>2, <3>1, MetadataKeeps DEF IInv
      <3> QED BY <1>3, <3>2
    <2> QED BY <2>1, <2>2
  <1>5. TypeInv'
    BY <1>1, <1>2, <1>4 DEF IInv, TypeInv
  <1>6. FileHolds'
    BY <1>1, <1>2, <1>3, <1>4 DEF FileHolds, Told
  <1>7. CrashHolds'
    BY <1>1, <1>2, <1>3, <1>4 DEF CrashHolds, Told
  <1>8. QED
    BY <1>5, <1>6, <1>7 DEF IInv

\* A crash leaves one of the images.
LEMMA CrashKeeps ==
  ASSUME IInv, Crash
  PROVE  IInv'
  <1>1. PICK f \in images : file' = f /\ images' = {f}
    BY DEF Crash
  <1>2. /\ mode' = "closed" /\ entries' = <<>> /\ nextData' = 0 /\ syncing' = FALSE
        /\ content' = durable /\ durable' = durable
    BY DEF Crash
  <1>3. f \in Files /\ durable \in Contents /\ <<>> \in Seq(EntrySet)
    BY DEF IInv, TypeInv
  <1>4. durable # Nothing => \E es \in Seq(EntrySet) :
            Alone(es, durable) /\ Stored(f, es) /\ Kept(es, f, durable)
    BY DEF IInv, CrashHolds
  <1>5. TypeInv'
    BY <1>1, <1>2, <1>3 DEF TypeInv
  <1>6. FileHolds'
    BY <1>1, <1>2, <1>4 DEF FileHolds, Told
  <1>7. CrashHolds'
    BY <1>1, <1>2, <1>4 DEF CrashHolds, Told
  <1>8. QED
    BY <1>5, <1>6, <1>7 DEF IInv

LEMMA StepHolds ==
  ASSUME IInv, Next
  PROVE  IInv'
  <1>1. CASE Create
    BY <1>1, CreateHolds
  <1>2. CASE Flush
    BY <1>2, FlushHolds
  <1>3. CASE Sync
    BY <1>3, SyncHolds
  <1>4. CASE FlushFails
    BY <1>4, FlushFailsHolds
  <1>5. CASE Close
    BY <1>5, CloseHolds
  <1>6. CASE Crash
    BY <1>6, CrashKeeps
  <1>7. CASE \E m \in {"Read", "ReadWrite"} : Open(m) \/ OpenEmpty(m)
    BY <1>7, OpenHolds, OpenEmptyHolds
  <1>8. CASE \E n \in Names : Reserve(n)
    BY <1>8, ReserveHolds
  <1>9. CASE \E n \in Names, v \in Values : Write(n, v) \/ WriteFails(n, v)
    BY <1>9, WriteHolds, WriteFailsHolds
  <1>10. CASE \E n \in Names, v \in Values : \E cells \in SUBSET (1 .. Size[n]) \ {{}} : WriteSlice(n, cells, v)
    BY <1>10, WriteSliceHolds
  <1>11. QED
    BY <1>1, <1>2, <1>3, <1>4, <1>5, <1>6, <1>7, <1>8, <1>9, <1>10 DEF Next

LEMMA StutterHolds ==
  ASSUME IInv, UNCHANGED vars
  PROVE  IInv'
  <1>1. /\ file' = file /\ images' = images /\ mode' = mode /\ entries' = entries /\ nextData' = nextData
        /\ syncing' = syncing /\ content' = content /\ durable' = durable
    BY DEF vars, disk, handle, history
  <1>2. TypeInv'
    BY <1>1 DEF IInv, TypeInv
  <1>3. FileHolds'
    BY <1>1 DEF IInv, FileHolds, Told
  <1>4. CrashHolds'
    BY <1>1 DEF IInv, CrashHolds, Told
  <1>5. QED
    BY <1>2, <1>3, <1>4 DEF IInv

LEMMA InvariantHolds == Spec => []IInv
  <1>1. Init => IInv
    BY StartHolds
  <1>2. IInv /\ [Next]_vars => IInv'
    BY StepHolds, StutterHolds
  <1>3. QED
    BY <1>1, <1>2, PTL DEF Spec

-----------------------------------------------------------------------------
(* What follows. *)

LEMMA TypesFollow ==
  ASSUME IInv
  PROVE  FileTypeOK
  <1>1. /\ mode \in {"closed", "Read", "Write", "ReadWrite"} /\ file \in images
        /\ entries \in Seq(EntrySet) /\ content \in Contents /\ durable \in Contents
    BY DEF IInv, TypeInv
  <1>2. Len(entries) \in Nat /\ DOMAIN entries = 1 .. Len(entries)
        /\ \A i \in DOMAIN entries : entries[i] \in EntrySet
    BY <1>1, EntriesAre
  <1>3. ASSUME NEW i \in DOMAIN entries PROVE mode # "closed" /\ nextData = NextDataOf(entries)
    <2>1. entries # <<>>
      BY <1>1
    <2> QED BY <2>1 DEF IInv, TypeInv
  <1>4. ASSUME NEW i \in DOMAIN entries
        PROVE  /\ entries[i] = Entry(entries[i].name, entries[i].at)
               /\ entries[i].at % Alignment = 0
               /\ Region(entries[i]) \subseteq (HeaderCells + 1) .. nextData
    <2>1. PICK e \in EntrySet : e = entries[i]
      BY <1>2
    <2>2. e.at \in Nat /\ e.size \in Nat /\ e.at >= 2 /\ e.at % Alignment = 0 /\ e = Entry(e.name, e.at)
      BY EntryIs DEF HeaderCells
    <2>3. e.at + e.size <= nextData /\ nextData \in Nat
      BY <1>1, <1>3, <2>1, NextIs
    <2>4. \A p \in (e.at + 1) .. (e.at + e.size) : p \in (2 + 1) .. nextData
      BY <2>2, <2>3
    <2>5. Region(e) \subseteq (HeaderCells + 1) .. nextData
      BY <2>4 DEF Region, HeaderCells
    <2> QED BY <2>1, <2>2, <2>5
  <1>5. \A n \in Names : Len(content[n]) \in {0, Size[n]} /\ Len(durable[n]) \in {0, Size[n]}
    BY <1>1 DEF Contents
  <1>6. ASSUME NEW i \in DOMAIN entries, NEW j \in DOMAIN entries, i # j, content[entries[i].name] # Absent,
               FindEntry(entries, entries[i].name) = entries[i]
        PROVE  Region(entries[i]) \cap Region(entries[j]) = {}
    <2>1. PICK n \in Names : n = entries[i].name
      BY <1>2, EntryIs
    <2>2. Alone(entries, content)
      BY <1>3, HeldOpen
    <2>3. PICK m : m = Max(EntriesOf(entries, n))
      OBVIOUS
    <2>4. /\ EntriesOf(entries, n) # {}
          /\ \A k \in DOMAIN entries : k # m => Region(entries[k]) \cap Region(entries[i]) = {}
      BY <1>6, <2>1, <2>2, <2>3 DEF Alone
    <2>5. m \in DOMAIN entries /\ entries[m] = entries[i]
      BY <1>1, <1>6, <2>1, <2>3, <2>4, FoundEntry
    <2>6. entries[i].at + 1 \in Region(entries[i])
      <3>1. entries[i].at \in Nat /\ entries[i].size \in Nat /\ entries[i].size >= 1
        BY <1>2, EntryIs
      <3> QED BY <3>1 DEF Region
    <2>7. i = m
      BY <2>4, <2>6
    <2> QED BY <1>6, <2>4, <2>7
  <1>7. QED
    BY <1>1, <1>4, <1>5, <1>6 DEF FileTypeOK

LEMMA ReadFollows ==
  ASSUME IInv
  PROVE  ReadBack
  <1>1. PICK seen : seen = IF mode = "closed" /\ Readable(file) THEN ReadEntries(file) ELSE entries
    OBVIOUS
  <1> SUFFICES ASSUME NEW n \in Names, content[n] # Absent
               PROVE  /\ EntriesOf(seen, n) # {}
                      /\ \A k \in 1 .. Size[n] :
                           content[n][k] # Unwritten => /\ FindEntry(seen, n).at + k \in DOMAIN file
                                                        /\ file[FindEntry(seen, n).at + k] = Data(content[n][k])
    BY <1>1 DEF ReadBack
  <1>2. content # Nothing
    BY NothingIs
  <1>3. PICK es \in Seq(EntrySet) :
           /\ Told(es) /\ (mode \in {"closed", "Read"} => Stored(file, es))
           /\ Alone(es, content) /\ Kept(es, file, content)
    BY <1>2 DEF IInv, FileHolds
  <1>4. seen = es
    <2>1. CASE mode = "closed"
      <3>1. file \in Files
        BY DEF IInv, TypeInv
      <3> QED BY <1>1, <1>3, <2>1, <3>1, StoredReads
    <2>2. CASE mode # "closed"
      BY <1>1, <1>3, <2>2 DEF Told
    <2> QED BY <2>1, <2>2
  <1>5. QED
    BY <1>3, <1>4 DEF Alone, Kept, Found

\* The entries of an open TensorFile lie aligned between the header and what append
\* writes next, and a tensor that can be read shares no cell with another
\* (TensorFile.cpp: append_entry(), write_metadata(), read_metadata()).
THEOREM FileTypeCorrect == Spec => []FileTypeOK
  <1>1. IInv => FileTypeOK
    BY TypesFollow
  <1>2. QED
    BY <1>1, InvariantHolds, PTL

\* Whatever is read is what was stored last under that name: after writes and flushes
\* that failed, through an object that opens the file later, and after a crash when
\* there were no appends since the last flush().
THEOREM StoredIsReadBack == Spec => []ReadBack
  <1>1. IInv => ReadBack
    BY ReadFollows
  <1>2. QED
    BY <1>1, InvariantHolds, PTL
===============================================================================
