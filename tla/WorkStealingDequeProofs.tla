----------------------- MODULE WorkStealingDequeProofs -----------------------
(***************************************************************************)
(* The Chase-Lev deque on x86 implements the one-step deque, for any       *)
(* number of thieves and tasks and any growth of the buffer.  The proof    *)
(* looks at memory as a sequence of views: what it holds once the oldest   *)
(* n stores of the owner have reached it.  A thief reads _bottom, _buffer  *)
(* and a slot in views that only move forward, so what has to be invariant *)
(* is that any three such views agree.                                     *)
(***************************************************************************)
EXTENDS WorkStealingDeque, FiniteSetTheorems, SequenceTheorems, WellFoundedInduction, TLAPS

-----------------------------------------------------------------------------
(* Numbers. *)

\* Every nonempty set of naturals has a least element.
LEMMA LeastNatural ==
  ASSUME NEW S \in SUBSET Nat, S # {}
  PROVE  \E n \in S : \A m \in S : n <= m
  <1>1. PICK n \in S : \A m \in S : ~ (<<m, n>> \in OpToRel(<, Nat))
    BY NatLessThanWellFounded, WFMin
  <1>2. \A m \in S : ~ (m < n)
    BY <1>1 DEF OpToRel
  <1>3. \A m \in S : n <= m
    BY <1>2
  <1>4. QED
    BY <1>3

\* Induction, with the set of the numbers a fact holds for.
LEMMA Induction ==
  ASSUME NEW B \in SUBSET Nat, 0 \in B, \A n \in B : n + 1 \in B
  PROVE  B = Nat
  <1> SUFFICES ASSUME Nat \ B # {} PROVE FALSE
    OBVIOUS
  <1>1. PICK n \in Nat \ B : \A m \in Nat \ B : n <= m
    BY LeastNatural
  <1>2. n - 1 \in Nat /\ n - 1 \notin Nat \ B
    BY <1>1
  <1>3. (n - 1) + 1 \in B
    BY <1>2
  <1>4. QED
    BY <1>1, <1>3

-----------------------------------------------------------------------------
(* The invariant. *)

Current == Seen(Buffer)
Item(i) == Seen(Slot(Current, i))
Views   == 0 .. Len(stores)

Types ==
    /\ top \in Nat /\ pushed \in 0 .. MaxPush
    /\ mem = [l \in Locations |-> mem[l]]
    /\ stores \in Seq([at : Locations, val : Int])
    /\ owner \in [at : {"idle", "fence", "last"}, b : -1 .. MaxPush, t : 0 .. MaxPush]
    /\ thief \in [Thieves -> [at : {"idle", "top", "bottom", "buffer", "copied"}, t : Nat, buf : Nat, item : Values]]
    /\ runs \in [Values -> 0 .. 1]

\* Every view has indices, buffers and values the deque can have.
ViewsTyped ==
    \A n \in Views :
        /\ View(n, Bottom) \in -1 .. End
        /\ View(n, Buffer) \in 0 .. Current
        /\ \A l \in Slots : View(n, l) \in Values

\* The tasks that wait fit the buffer.
Window ==
    /\ Current \in 1 .. NumBuffers
    /\ End \in top .. pushed /\ End - top <= Cap[Current]

\* What the owner knows in the middle of pop().
Claimed ==
    /\ owner.at # "idle" => Seen(Bottom) = owner.b
    /\ owner.at = "last" => stores = <<>> /\ owner.t = owner.b /\ owner.b <= top

\* Who sees a bottom above i in one view, and takes the buffer from that view or a later
\* one, finds the task i there in this view and in all later ones.
Published ==
    \A p, n, m \in Views : \A i \in Nat :
        p <= n /\ n <= m /\ top <= i /\ i < View(p, Bottom) /\ View(n, Buffer) # Null
            => View(m, Slot(View(n, Buffer), i)) = Item(i)

\* A thief whose compare-and-swap will succeed is on its way to the oldest task.
OnItsWay(h) ==
    /\ thief[h].at = "bottom" =>
         \A n, m \in Views : n <= m /\ View(n, Buffer) # Null => View(m, Slot(View(n, Buffer), top)) = Item(top)
    /\ thief[h].at = "buffer" /\ thief[h].buf # Null => \A m \in Views : View(m, Slot(thief[h].buf, top)) = Item(top)
    /\ thief[h].at = "copied" => thief[h].item = Item(top)

Thieving ==
    \A h \in Thieves :
        /\ thief[h].t <= top /\ thief[h].buf <= Current
        /\ thief[h].t = top /\ thief[h].at \in {"bottom", "buffer", "copied"} => top < End /\ OnItsWay(h)

\* What waits are tasks that were pushed, each once, and handed to nobody.
Handed ==
    /\ \A i \in top .. End - 1 : Item(i) \in 1 .. pushed /\ runs[Item(i)] = 0
    /\ \A i, j \in top .. End - 1 : Item(i) = Item(j) => i = j
    /\ \A v \in Values : runs[v] # 0 => v \in 1 .. pushed

IInv == Types /\ ViewsTyped /\ Window /\ Claimed /\ Published /\ Thieving /\ Handed

-----------------------------------------------------------------------------
(* Capacities and locations. *)

\* Doubling defines a function of all numbers.
LEMMA CapDefined ==
  Cap = [k \in Nat |-> IF k <= 1 THEN InitialCap ELSE 2 * Cap[k - 1]]
  <1> DEFINE Next2(g, k) == IF k <= 1 THEN InitialCap ELSE 2 * g[k - 1]
             Solved == {n \in Nat : \E g : g = [k \in 0 .. n |-> Next2(g, k)]}
             Sol(n) == CHOOSE g : g = [k \in 0 .. n |-> Next2(g, k)]
  <1>1. 0 \in Solved
    <2> DEFINE g == [k \in 0 .. 0 |-> InitialCap]
    <2>1. g = [k \in 0 .. 0 |-> Next2(g, k)]
      OBVIOUS
    <2>2. QED
      BY <2>1
  <1>2. ASSUME NEW n \in Solved PROVE n + 1 \in Solved
    <2>1. PICK g : g = [k \in 0 .. n |-> Next2(g, k)]
      OBVIOUS
    <2> DEFINE h == [k \in 0 .. n + 1 |-> Next2(g, k)]
    <2>2. ASSUME NEW k \in 0 .. n + 1 PROVE Next2(h, k) = Next2(g, k)
      <3>1. CASE k > 1
        <4>1. k - 1 \in 0 .. n /\ k - 1 \in 0 .. n + 1
          BY <3>1
        <4>2. g[k - 1] = h[k - 1]
          BY <2>1, <4>1
        <4> HIDE DEF h
        <4>3. QED
          BY <4>2
      <3>2. CASE k <= 1
        BY <3>2
      <3>3. QED
        BY <3>1, <3>2
    <2>3. h = [k \in 0 .. n + 1 |-> Next2(h, k)]
      BY <2>2
    <2>4. \E H : H = [k \in 0 .. n + 1 |-> Next2(H, k)]
      <3> HIDE DEF h
      <3>1. QED
        BY <2>3, Zenon
    <2>5. QED
      BY <2>4
  <1>3. Solved = Nat
    <2> HIDE DEF Next2
    <2>1. Solved \in SUBSET Nat
      OBVIOUS
    <2> HIDE DEF Solved
    <2>2. QED
      BY <1>1, <1>2, <2>1, Induction
  <1>4. ASSUME NEW n \in Nat PROVE Sol(n) = [k \in 0 .. n |-> Next2(Sol(n), k)]
    <2>1. \E g : g = [k \in 0 .. n |-> Next2(g, k)]
      BY <1>3
    <2> HIDE DEF Next2
    <2>2. QED
      BY <2>1
  <1>5. ASSUME NEW n \in Nat, NEW k \in Nat, k <= n PROVE Sol(n)[k] = Next2(Sol(n), k)
    <2>1. k \in 0 .. n
      BY <1>5
    <2> HIDE DEF Next2, Sol
    <2>2. QED
      BY <1>4, <2>1
  <1>6. \A n \in Nat : \A k \in Nat : k <= n => Sol(n + 1)[k] = Sol(n)[k]
    <2>1. ASSUME NEW n \in Nat PROVE \A k \in Nat : k <= n => Sol(n + 1)[k] = Sol(n)[k]
      <3> DEFINE Same == {k \in Nat : k <= n => Sol(n + 1)[k] = Sol(n)[k]}
      <3> HIDE DEF Sol
      <3>1. 0 \in Same
        BY <1>5
      <3>2. ASSUME NEW k \in Same PROVE k + 1 \in Same
        <4>1. CASE k + 1 <= n
          <5>1. Sol(n + 1)[k] = Sol(n)[k]
            BY <4>1
          <5>2. Sol(n + 1)[k + 1] = Next2(Sol(n + 1), k + 1) /\ Sol(n)[k + 1] = Next2(Sol(n), k + 1)
            BY <1>5, <4>1
          <5>3. QED
            BY <5>1, <5>2
        <4>2. CASE ~ (k + 1 <= n)
          BY <4>2
        <4>3. QED
          BY <4>1, <4>2
      <3>3. Same \in SUBSET Nat
        OBVIOUS
      <3> HIDE DEF Same
      <3>4. Same = Nat
        BY <3>1, <3>2, <3>3, Induction
      <3>5. QED
        BY <3>4 DEF Same
    <2>2. QED
      BY <2>1
  <1> DEFINE F == [k \in Nat |-> Sol(k)[k]]
  <1>7. F = [k \in Nat |-> Next2(F, k)]
    <2>1. ASSUME NEW k \in Nat PROVE Sol(k)[k] = Next2(F, k)
      <3>1. Sol(k)[k] = Next2(Sol(k), k)
        BY <1>5
      <3>2. CASE k > 1
        <4>1. Sol((k - 1) + 1)[k - 1] = Sol(k - 1)[k - 1] /\ (k - 1) + 1 = k
          BY <1>6, <3>2
        <4>2. F[k - 1] = Sol(k - 1)[k - 1]
          BY <3>2
        <4> HIDE DEF F, Sol
        <4>3. QED
          BY <3>1, <4>1, <4>2
      <3>3. CASE k <= 1
        BY <3>1, <3>3
      <3>4. QED
        BY <3>2, <3>3
    <2> HIDE DEF Sol
    <2>2. QED
      BY <2>1
  <1>8. \E g : g = [k \in Nat |-> IF k <= 1 THEN InitialCap ELSE 2 * g[k - 1]]
    <2> HIDE DEF F
    <2>1. QED
      BY <1>7
  <1>9. QED
    BY <1>8 DEF Cap

LEMMA CapDoubles ==
  /\ \A k \in Nat : Cap[k] \in Nat \ {0}
  /\ \A k \in Nat \ {0} : Cap[k + 1] = 2 * Cap[k]
  <1>1. ASSUME NEW k \in Nat PROVE Cap[k] = IF k <= 1 THEN InitialCap ELSE 2 * Cap[k - 1]
    BY CapDefined
  <1> DEFINE Positive == {k \in Nat : Cap[k] \in Nat \ {0}}
  <1>2. 0 \in Positive
    BY <1>1, DequeAssumption
  <1>3. ASSUME NEW k \in Positive PROVE k + 1 \in Positive
    <2>1. Cap[k + 1] = IF k + 1 <= 1 THEN InitialCap ELSE 2 * Cap[k + 1 - 1]
      BY <1>1
    <2>2. k + 1 - 1 = k
      OBVIOUS
    <2>3. QED
      BY <2>1, <2>2, DequeAssumption
  <1>4. Positive \in SUBSET Nat
    OBVIOUS
  <1>5. Positive = Nat
    <2> HIDE DEF Positive
    <2>1. QED
      BY <1>2, <1>3, <1>4, Induction
  <1>6. ASSUME NEW k \in Nat \ {0} PROVE Cap[k + 1] = 2 * Cap[k]
    <2>1. k + 1 \in Nat /\ ~ (k + 1 <= 1) /\ k + 1 - 1 = k
      OBVIOUS
    <2>2. QED
      BY <1>1, <2>1
  <1>7. QED
    BY <1>5, <1>6

\* Two indices of one window have different slots.
LEMMA ModDistinct ==
  ASSUME NEW C \in Nat \ {0}, NEW i \in Nat, NEW j \in Nat, i < j, j < i + C
  PROVE  i % C # j % C
  <1> SUFFICES ASSUME i % C = j % C PROVE FALSE
    OBVIOUS
  <1>1. i = C * (i \div C) + (i % C) /\ j = C * (j \div C) + (j % C) /\ i \div C \in Int /\ j \div C \in Int
    OBVIOUS
  <1>2. PICK a \in Int : a = i \div C
    BY <1>1
  <1>3. PICK c \in Int : c = j \div C
    BY <1>1
  <1>4. j - i = C * c - C * a
    BY <1>1, <1>2, <1>3
  <1>5. PICK e \in Int : e = c - a
    OBVIOUS
  <1>6. j - i = C * e
    BY <1>4, <1>5
  <1>7. e >= 1 => C * e >= C
    OBVIOUS
  <1>8. e <= 0 => C * e <= 0
    OBVIOUS
  <1>9. QED
    BY <1>6, <1>7, <1>8

LEMMA Places ==
  /\ Bottom \in Locations /\ Buffer \in Locations /\ Bottom # Buffer
  /\ \A k, i : Slot(k, i) # Bottom /\ Slot(k, i) # Buffer
  /\ \A k, j, i, n : k # j => Slot(k, i) # Slot(j, n)
  /\ Bottom \notin Slots /\ Buffer \notin Slots /\ Slots \subseteq Locations
  BY DEF Locations, Bottom, Buffer, Slot, Slots

LEMMA SlotPlace ==
  ASSUME NEW k \in 1 .. NumBuffers, NEW i \in Int
  PROVE  Slot(k, i) \in Slots
  <1>1. Cap[k] \in Nat \ {0}
    BY CapDoubles, DequeAssumption
  <1>2. i % Cap[k] \in 0 .. Cap[k] - 1
    BY <1>1
  <1>3. (i % Cap[k]) % Cap[k] = i % Cap[k]
    BY <1>1, <1>2
  <1>4. Slot(k, i) = Slot(k, i % Cap[k])
    BY <1>3 DEF Slot
  <1>5. QED
    BY <1>2, <1>4 DEF Slots

LEMMA SlotsDiffer ==
  ASSUME NEW k \in 1 .. NumBuffers, NEW i \in Nat, NEW j \in Nat, i < j, j < i + Cap[k]
  PROVE  Slot(k, i) # Slot(k, j)
  <1>1. Cap[k] \in Nat \ {0}
    BY CapDoubles, DequeAssumption
  <1>2. i % Cap[k] # j % Cap[k]
    BY <1>1, ModDistinct
  <1>3. QED
    BY <1>2 DEF Slot

-----------------------------------------------------------------------------
(* Views. *)

\* Which of the first n of the stores ss are at l.
At(ss, n, l) == {m \in 1 .. n : ss[m].at = l}

\* Memory mm after the first n of the stores ss.
After(ss, mm, n, l) ==
    LET own == {m \in 1 .. n : ss[m].at = l}
    IN  IF own = {} THEN mm[l] ELSE ss[Max(own)].val

LEMMA Viewed ==
  ASSUME NEW n, NEW l
  PROVE  View(n, l) = After(stores, mem, n, l) /\ View(n, l)' = After(stores', mem', n, l)
  BY DEF View, After

\* A set of places in a sequence has a last one.
LEMMA Greatest ==
  ASSUME NEW n \in Nat, NEW S \in SUBSET (1 .. n), S # {}
  PROVE  Max(S) \in S /\ \A j \in S : j <= Max(S)
  <1> DEFINE Rest == {x \in 0 .. n : n - x \in S}
  <1>1. Rest \in SUBSET Nat
    OBVIOUS
  <1>2. Rest # {}
    <2>1. PICK j \in S : TRUE
      OBVIOUS
    <2>2. n - j \in 0 .. n /\ n - (n - j) = j
      BY <2>1
    <2>3. QED
      BY <2>1, <2>2
  <1>3. PICK x \in Rest : \A y \in Rest : x <= y
    <2> HIDE DEF Rest
    <2>1. QED
      BY <1>1, <1>2, LeastNatural
  <1>4. ASSUME NEW j \in S PROVE j <= n - x
    <2>1. n - j \in 0 .. n /\ n - (n - j) = j
      OBVIOUS
    <2>2. n - j \in Rest
      BY <2>1
    <2>3. x <= n - j
      BY <1>3, <2>2
    <2>4. QED
      BY <2>3
  <1>5. \E k \in S : \A j \in S : k >= j
    BY <1>3, <1>4
  <1>6. QED
    BY <1>5 DEF Max

LEMMA AfterNone ==
  ASSUME NEW ss, NEW mm, NEW n \in Nat, NEW m \in 0 .. n, NEW l, \A j \in m + 1 .. n : ss[j].at # l
  PROVE  After(ss, mm, n, l) = After(ss, mm, m, l)
  <1>1. {j \in 1 .. n : ss[j].at = l} = {j \in 1 .. m : ss[j].at = l}
    OBVIOUS
  <1>2. QED
    BY <1>1 DEF After

LEMMA AfterLast ==
  ASSUME NEW ss, NEW mm, NEW n \in Nat, NEW l, NEW m \in At(ss, n, l), \A j \in m + 1 .. n : ss[j].at # l
  PROVE  After(ss, mm, n, l) = ss[m].val
  <1> DEFINE S == {j \in 1 .. n : ss[j].at = l}
  <1>1. m \in S /\ \A j \in S : m >= j
    BY DEF At
  <1>2. Max(S) = m
    <2>1. \A x \in S : (\A y \in S : x >= y) => x = m
      BY <1>1
    <2> HIDE DEF S
    <2>2. QED
      BY <1>1, <2>1 DEF Max
  <1>3. S # {}
    BY <1>1
  <1>4. QED
    BY <1>2, <1>3 DEF After

LEMMA AfterZero ==
  ASSUME NEW ss, NEW mm, NEW l
  PROVE  After(ss, mm, 0, l) = mm[l]
  BY DEF After

\* One store more.
LEMMA AfterStep ==
  ASSUME NEW ss, NEW mm, NEW n \in Nat, NEW l
  PROVE  After(ss, mm, n + 1, l) = IF ss[n + 1].at = l THEN ss[n + 1].val ELSE After(ss, mm, n, l)
  <1>1. n + 1 \in Nat /\ n \in 0 .. n + 1 /\ n + 1 \in 1 .. n + 1
    OBVIOUS
  <1>2. CASE ss[n + 1].at = l
    <2> DEFINE m == n + 1
    <2>1. m \in Nat /\ m \in At(ss, m, l) /\ \A j \in m + 1 .. m : ss[j].at # l
      BY <1>2 DEF At
    <2> HIDE DEF m
    <2>2. After(ss, mm, m, l) = ss[m].val
      BY <2>1, AfterLast
    <2>3. QED
      BY <1>2, <2>2 DEF m
  <1>3. CASE ss[n + 1].at # l
    <2>1. \A j \in n + 1 .. n + 1 : ss[j].at # l
      BY <1>3
    <2>2. QED
      BY <1>1, <1>3, <2>1, AfterNone
  <1>4. QED
    BY <1>2, <1>3

\* What flushing makes of the views: the first one is gone.
LEMMA FlushViews ==
  ASSUME Types, Flush
  PROVE  /\ Len(stores) \in Nat \ {0} /\ Len(stores') = Len(stores) - 1
         /\ \A n \in 0 .. Len(stores') : \A l \in Locations : View(n, l)' = View(n + 1, l)
  <1>1. /\ stores \in Seq([at : Locations, val : Int]) /\ stores # <<>> /\ stores' = Tail(stores)
        /\ mem' = [mem EXCEPT ![stores[1].at] = stores[1].val]
        /\ mem = [l \in Locations |-> mem[l]]
    <2>1. /\ stores \in Seq([at : Locations, val : Int]) /\ stores # <<>> /\ stores' = Tail(stores)
          /\ mem' = [mem EXCEPT ![Head(stores).at] = Head(stores).val]
          /\ mem = [l \in Locations |-> mem[l]]
      BY DEF Types, Flush
    <2>2. Head(stores) = stores[1]
      BY <2>1
    <2>3. QED
      BY <2>1, <2>2
  <1>2. /\ Len(stores) \in Nat \ {0} /\ Len(stores') = Len(stores) - 1
        /\ \A n \in 1 .. Len(stores) - 1 : stores'[n] = stores[n + 1]
    BY <1>1
  <1>3. ASSUME NEW l \in Locations
        PROVE  \A n \in 0 .. Len(stores') : View(n, l)' = View(n + 1, l)
    <2> DEFINE Shifted == {n \in Nat : n <= Len(stores') => After(stores', mem', n, l) = After(stores, mem, n + 1, l)}
    <2>1. 0 \in Shifted
      <3>1. After(stores', mem', 0, l) = mem'[l] /\ After(stores, mem, 0, l) = mem[l]
        BY AfterZero
      <3>2. After(stores, mem, 0 + 1, l) = IF stores[0 + 1].at = l THEN stores[0 + 1].val ELSE After(stores, mem, 0, l)
        BY AfterStep
      <3>3. QED
        BY <1>1, <3>1, <3>2
    <2>2. ASSUME NEW n \in Shifted PROVE n + 1 \in Shifted
      <3>1. CASE n + 1 <= Len(stores')
        <4>1. After(stores', mem', n, l) = After(stores, mem, n + 1, l)
          BY <1>2, <3>1
        <4>2. After(stores', mem', n + 1, l)
                = IF stores'[n + 1].at = l THEN stores'[n + 1].val ELSE After(stores', mem', n, l)
          BY AfterStep
        <4>3. n + 1 \in Nat
          OBVIOUS
        <4>4. After(stores, mem, (n + 1) + 1, l)
                = IF stores[(n + 1) + 1].at = l THEN stores[(n + 1) + 1].val ELSE After(stores, mem, n + 1, l)
          BY <4>3, AfterStep, ZenonT(60)
        <4>5. stores'[n + 1] = stores[(n + 1) + 1]
          BY <1>2, <3>1
        <4>6. QED
          BY <4>1, <4>2, <4>4, <4>5
      <3>2. CASE ~ (n + 1 <= Len(stores'))
        BY <3>2
      <3>3. QED
        BY <3>1, <3>2
    <2>3. Shifted \in SUBSET Nat
      OBVIOUS
    <2> HIDE DEF Shifted
    <2>4. Shifted = Nat
      BY <2>1, <2>2, <2>3, Induction
    <2>5. \A n \in Nat : n <= Len(stores') => After(stores', mem', n, l) = After(stores, mem, n + 1, l)
      BY <2>4 DEF Shifted
    <2>6. QED
      BY <1>2, <2>5, Viewed
  <1>4. QED
    BY <1>2, <1>3

\* The owner stores ws.
Appends(ws) ==
    /\ ws \in Seq([at : Locations, val : Int])
    /\ stores' = stores \o ws /\ mem' = mem

\* What is appended leaves the views there were, and comes after them.
LEMMA AppendViews ==
  ASSUME Types, NEW ws, Appends(ws), NEW N, N = Len(stores)
  PROVE  /\ N \in Nat /\ Len(ws) \in Nat /\ Len(stores') = N + Len(ws)
         /\ stores' \in Seq([at : Locations, val : Int])
         /\ \A n \in 0 .. N : \A l : After(stores', mem', n, l) = After(stores, mem, n, l)
         /\ \A n \in 1 .. Len(ws) : stores'[N + n] = ws[n]
  <1> DEFINE S == [at : Locations, val : Int]
  <1>1. stores \in Seq(S) /\ ws \in Seq(S) /\ stores' = stores \o ws /\ mem' = mem
    BY DEF Types, Appends
  <1> HIDE DEF S
  <1>2. N \in Nat /\ Len(ws) \in Nat
    BY <1>1
  <1>3. /\ Len(stores') = N + Len(ws) /\ stores' \in Seq(S)
        /\ \A n \in 1 .. N : stores'[n] = stores[n]
        /\ \A n \in 1 .. Len(ws) : stores'[N + n] = ws[n]
    <2>1. /\ stores \o ws \in Seq(S) /\ Len(stores \o ws) = Len(stores) + Len(ws)
          /\ \A n \in 1 .. Len(stores) + Len(ws) :
               (stores \o ws)[n] = IF n <= Len(stores) THEN stores[n] ELSE ws[n - Len(stores)]
      BY <1>1, ConcatProperties
    <2>2. ASSUME NEW n \in 1 .. Len(ws) PROVE stores'[N + n] = ws[n]
      <3>1. N + n \in 1 .. Len(stores) + Len(ws) /\ ~ (N + n <= Len(stores)) /\ (N + n) - Len(stores) = n
        BY <1>2
      <3>2. QED
        BY <1>1, <2>1, <3>1
    <2>3. ASSUME NEW n \in 1 .. N PROVE stores'[n] = stores[n]
      BY <1>1, <1>2, <2>1
    <2>4. QED
      BY <1>1, <2>1, <2>2, <2>3
  <1>4. ASSUME NEW n \in 0 .. N, NEW l PROVE View(n, l)' = View(n, l)
    <2>1. {m \in 1 .. n : stores'[m].at = l} = {m \in 1 .. n : stores[m].at = l}
      BY <1>2, <1>3
    <2> DEFINE own == {m \in 1 .. n : stores[m].at = l}
    <2>2. ASSUME own # {} PROVE stores'[Max(own)] = stores[Max(own)]
      <3>1. n \in Nat /\ own \in SUBSET (1 .. n)
        BY <1>2
      <3>2. Max(own) \in own
        <4> HIDE DEF own
        <4>1. QED
          BY <2>2, <3>1, Greatest
      <3>3. Max(own) \in 1 .. N
        BY <1>2, <3>2
      <3> HIDE DEF own
      <3>4. QED
        BY <1>3, <3>3
    <2>3. QED
      BY <1>1, <2>1, <2>2 DEF View
  <1>5. QED
    BY <1>2, <1>3, <1>4, Viewed DEF S

LEMMA OldView ==
  ASSUME Types, NEW ws, Appends(ws), NEW n \in Views, NEW l
  PROVE  View(n, l)' = View(n, l)
  <1> DEFINE N == Len(stores)
  <1>1. n \in 0 .. N
    BY DEF Views
  <1>2. \A j \in 0 .. N : \A k : After(stores', mem', j, k) = After(stores, mem, j, k)
    BY AppendViews
  <1>3. After(stores', mem', n, l) = After(stores, mem, n, l)
    BY <1>1, <1>2
  <1>4. QED
    BY <1>3, Viewed

LEMMA ViewUnwritten ==
  ASSUME Types, NEW ws, Appends(ws), NEW N, N = Len(stores), NEW n \in N .. N + Len(ws), NEW l,
         \A j \in 1 .. n - N : ws[j].at # l
  PROVE  View(n, l)' = View(N, l)
  <1>0. /\ N \in Nat /\ Len(ws) \in Nat /\ \A j \in 1 .. Len(ws) : stores'[N + j] = ws[j]
    BY AppendViews
  <1>1. n \in Nat /\ N \in 0 .. n
    BY <1>0
  <1>2. \A j \in N + 1 .. n : stores'[j].at # l
    <2>1. ASSUME NEW j \in N + 1 .. n PROVE stores'[j].at # l
      <3>1. j - N \in 1 .. n - N /\ j - N \in 1 .. Len(ws) /\ N + (j - N) = j
        BY <1>0
      <3>2. QED
        BY <1>0, <3>1
    <2>2. QED
      BY <2>1
  <1>3. After(stores', mem', n, l) = After(stores', mem', N, l)
    BY <1>1, <1>2, AfterNone
  <1>4. View(N, l)' = View(N, l)
    <2>1. N \in Views
      BY <1>0 DEF Views
    <2>2. QED
      BY <2>1, OldView
  <1>5. QED
    BY <1>3, <1>4, Viewed

LEMMA ViewWritten ==
  ASSUME Types, NEW ws, Appends(ws), NEW N, N = Len(stores), NEW n \in N .. N + Len(ws), NEW l,
         NEW d, d = n - N, NEW m \in At(ws, d, l), \A j \in m + 1 .. d : ws[j].at # l
  PROVE  View(n, l)' = ws[m].val
  <1>0. N \in Nat /\ Len(ws) \in Nat /\ \A j \in 1 .. Len(ws) : stores'[N + j] = ws[j]
    BY AppendViews
  <1>1. n \in Nat /\ N + m \in 1 .. n /\ m \in Nat /\ m \in 1 .. Len(ws) /\ ws[m].at = l
    BY <1>0 DEF At
  <1>2. stores'[N + m] = ws[m]
    BY <1>0, <1>1
  <1>3. \A j \in (N + m) + 1 .. n : stores'[j].at # l
    <2>1. ASSUME NEW j \in (N + m) + 1 .. n PROVE stores'[j].at # l
      <3>1. j - N \in m + 1 .. d /\ j - N \in 1 .. Len(ws) /\ N + (j - N) = j
        BY <1>0, <1>1
      <3>2. QED
        BY <1>0, <3>1
    <2>2. QED
      BY <2>1
  <1>4. N + m \in At(stores', n, l)
    BY <1>1, <1>2 DEF At
  <1>5. After(stores', mem', n, l) = stores'[N + m].val
    BY <1>1, <1>3, <1>4, AfterLast, SMTT(60)
  <1>6. QED
    BY <1>2, <1>5, Viewed

\* What an appended store shows: what was there before, or the last store at the location.
LEMMA Appended ==
  ASSUME Types, NEW ws, Appends(ws), NEW N, N = Len(stores), NEW n \in N .. N + Len(ws), NEW l
  PROVE  \/ View(n, l)' = View(N, l) /\ \A j \in 1 .. n - N : ws[j].at # l
         \/ \E m \in 1 .. n - N :
              View(n, l)' = ws[m].val /\ ws[m].at = l /\ \A j \in m + 1 .. n - N : ws[j].at # l
  <1>1. N \in Nat /\ Len(ws) \in Nat
    BY AppendViews
  <1> DEFINE S == {j \in 1 .. n - N : ws[j].at = l}
  <1>2. CASE S = {}
    <2>1. \A j \in 1 .. n - N : ws[j].at # l
      BY <1>2
    <2> HIDE DEF S
    <2>2. View(n, l)' = View(N, l)
      BY <2>1, ViewUnwritten
    <2>3. QED
      BY <2>1, <2>2
  <1>3. CASE S # {}
    <2>1. n - N \in Nat /\ S \in SUBSET (1 .. n - N)
      BY <1>1
    <2>2. Max(S) \in S /\ \A j \in S : j <= Max(S)
      <3> HIDE DEF S
      <3>1. QED
        BY <1>3, <2>1, Greatest
    <2>3. PICK m \in S : \A j \in S : j <= m
      BY <2>2
    <2>4. \A j \in m + 1 .. n - N : ws[j].at # l
      BY <1>1, <2>3
    <2>5. m \in 1 .. n - N /\ ws[m].at = l /\ m \in At(ws, n - N, l)
      BY DEF At
    <2> HIDE DEF S
    <2>6. View(n, l)' = ws[m].val
      <3> DEFINE d == n - N
      <3>1. d = n - N /\ m \in At(ws, d, l) /\ \A j \in m + 1 .. d : ws[j].at # l
        BY <2>4, <2>5
      <3> HIDE DEF d
      <3>2. QED
        BY <3>1, ViewWritten, SMTT(90)
    <2>7. QED
      BY <2>4, <2>5, <2>6
  <1>4. QED
    BY <1>2, <1>3

-----------------------------------------------------------------------------
(* Steps that bring no new buffer or task: what is seen afterwards is what   *)
(* was seen before, in the same order.                                       *)

LEMMA SeenIs ==
  ASSUME NEW n, NEW l
  PROVE  /\ n = Len(stores) => Seen(l) = View(n, l)
         /\ n = Len(stores') => Seen(l)' = View(n, l)'
  BY DEF Seen, View

LEMMA ItemIs ==
  ASSUME NEW i, NEW k
  PROVE  /\ k = Current => Item(i) = Seen(Slot(k, i))
         /\ k = Current' => Item(i)' = Seen(Slot(k, i))'
  BY DEF Item, Current, Seen, View, Slot

\* Each view of the next state is the view f[n] of this one, for all but _bottom.
Moves(f) ==
    /\ \A n \in Views' : f[n] \in Views /\ View(n, Buffer)' = View(f[n], Buffer)
    /\ \A n \in Views' : \A l \in Slots : View(n, l)' = View(f[n], l)
    /\ \A n, m \in Views' : n <= m => f[n] <= f[m]
    /\ Current' = Current
    /\ \A i \in Int : Item(i)' = Item(i)

LEMMA SlotSeen ==
  ASSUME Window, ViewsTyped, NEW n \in Views, NEW i \in Int, View(n, Buffer) # Null
  PROVE  Slot(View(n, Buffer), i) \in Slots
  <1>1. View(n, Buffer) \in 0 .. Current /\ Current \in 1 .. NumBuffers /\ NumBuffers \in Nat
    BY DequeAssumption DEF Window, ViewsTyped
  <1>2. View(n, Buffer) \in 1 .. NumBuffers
    BY <1>1 DEF Null
  <1>3. QED
    BY <1>2, SlotPlace

LEMMA PublishedKept ==
  ASSUME IInv, NEW f, Moves(f), top \in Int, top' \in Int, top <= top',
         \A n \in Views' : \A i \in Nat : top' <= i /\ i < View(n, Bottom)' => i < View(f[n], Bottom)
  PROVE  Published'
  <1>1. Window /\ ViewsTyped /\ Published
    BY DEF IInv
  <1>2. SUFFICES ASSUME NEW p \in Views', NEW n \in Views', NEW m \in Views', NEW i \in Nat,
                        p <= n, n <= m, top' <= i, i < View(p, Bottom)', View(n, Buffer)' # Null
                 PROVE  View(m, Slot(View(n, Buffer), i))' = Item(i)'
    BY DEF Published
  <1>3. /\ f[p] \in Views /\ f[n] \in Views /\ f[m] \in Views /\ f[p] <= f[n] /\ f[n] <= f[m]
        /\ View(n, Buffer)' = View(f[n], Buffer) /\ Item(i)' = Item(i)
    BY <1>2 DEF Moves
  <1>4. i < View(f[p], Bottom) /\ top <= i
    BY <1>2
  <1>k. PICK k : k = View(f[n], Buffer)
    OBVIOUS
  <1>5. Slot(k, i) \in Slots
    BY <1>1, <1>2, <1>3, <1>k, SlotSeen
  <1>6. View(f[m], Slot(k, i)) = Item(i)
    BY <1>1, <1>2, <1>3, <1>4, <1>k DEF Published
  <1>7. View(m, Slot(k, i))' = View(f[m], Slot(k, i))
    BY <1>5 DEF Moves
  <1>8. View(n, Buffer)' = k
    BY <1>3, <1>k
  <1>9. View(m, Slot(View(n, Buffer), i))' = View(m, Slot(k, i))'
    <2>1. Slot(View(n, Buffer), i)' = Slot(k, i)
      BY <1>8 DEF Slot
    <2>2. QED
      BY <2>1 DEF View
  <1>10. QED
    BY <1>3, <1>6, <1>7, <1>9

LEMMA WayKept ==
  ASSUME IInv, NEW f, Moves(f), top' = top, NEW h \in Thieves, thief'[h] = thief[h], OnItsWay(h)
  PROVE  OnItsWay(h)'
  <1>1. Window /\ ViewsTyped /\ Types /\ Thieving
    BY DEF IInv
  <1>2. top \in Int /\ Item(top)' = Item(top)
    BY <1>1 DEF Types, Moves
  <1>3. ASSUME thief'[h].at = "bottom", NEW n \in Views', NEW m \in Views', n <= m, View(n, Buffer)' # Null
        PROVE  View(m, Slot(View(n, Buffer), top))' = Item(top)'
    <2>k. PICK k : k = View(f[n], Buffer)
      OBVIOUS
    <2>1. /\ f[n] \in Views /\ f[m] \in Views /\ f[n] <= f[m] /\ View(n, Buffer)' = k
      BY <1>3, <2>k DEF Moves
    <2>2. Slot(k, top) \in Slots
      BY <1>1, <1>2, <1>3, <2>1, <2>k, SlotSeen
    <2>3. View(f[m], Slot(k, top)) = Item(top)
      BY <1>3, <2>1, <2>k DEF OnItsWay
    <2>4. View(m, Slot(k, top))' = View(f[m], Slot(k, top))
      BY <2>2 DEF Moves
    <2>5. Slot(View(n, Buffer), top)' = Slot(k, top)
      BY <2>1 DEF Slot
    <2>6. View(m, Slot(View(n, Buffer), top))' = View(m, Slot(k, top))'
      BY <2>5 DEF View
    <2>7. Item(top)' = Item(top)
      BY <1>2
    <2>8. QED
      BY <2>3, <2>4, <2>6, <2>7
  <1>4. ASSUME thief'[h].at = "buffer", thief'[h].buf # Null, NEW m \in Views'
        PROVE  View(m, Slot(thief[h].buf, top))' = Item(top)'
    <2>k. PICK k : k = thief[h].buf
      OBVIOUS
    <2>1. k \in 1 .. NumBuffers
      <3>1. k \in Nat /\ k <= Current /\ k # 0
        BY <1>1, <1>4, <2>k DEF Thieving, Types, Null
      <3>2. Current \in 1 .. NumBuffers /\ NumBuffers \in Nat
        BY <1>1, DequeAssumption DEF Window
      <3>3. QED
        BY <3>1, <3>2
    <2>2. Slot(k, top) \in Slots
      BY <1>2, <2>1, SlotPlace
    <2>3. f[m] \in Views /\ View(m, Slot(k, top))' = View(f[m], Slot(k, top))
      BY <2>2 DEF Moves
    <2>4. View(f[m], Slot(k, top)) = Item(top)
      BY <1>4, <2>3, <2>k DEF OnItsWay
    <2>5. Slot(thief[h].buf, top)' = Slot(k, top)
      BY <2>k DEF Slot
    <2>6. View(m, Slot(thief[h].buf, top))' = View(m, Slot(k, top))'
      BY <2>5 DEF View
    <2>7. QED
      BY <1>2, <2>3, <2>4, <2>6
  <1>5. thief'[h].at = "copied" => thief'[h].item = Item(top)'
    BY <1>2 DEF OnItsWay
  <1>6. QED
    BY <1>3, <1>4, <1>5 DEF OnItsWay

\* A thief that does not move is where it was, or has lost the race.
LEMMA ThievingKept ==
  ASSUME IInv, NEW f, Moves(f), top' \in {top, top + 1}, top' = top /\ top < End => top' < End',
         NEW H \in SUBSET Thieves, \A h \in H : thief'[h] = thief[h], NEW h \in H
  PROVE  /\ thief'[h].t <= top' /\ thief'[h].buf <= Current'
         /\ thief'[h].t = top' /\ thief'[h].at \in {"bottom", "buffer", "copied"} => top' < End' /\ OnItsWay(h)'
  <1>1. Types /\ Thieving /\ h \in Thieves /\ thief'[h] = thief[h]
    BY DEF IInv
  <1>2. /\ top \in Nat /\ thief[h].t \in Nat /\ thief[h].t <= top /\ thief[h].buf <= Current /\ Current' = Current
        /\ thief[h].t = top /\ thief[h].at \in {"bottom", "buffer", "copied"} => top < End /\ OnItsWay(h)
    BY <1>1 DEF Thieving, Types, Moves
  <1>3. CASE top' = top
    <2>1. OnItsWay(h) => OnItsWay(h)'
      BY <1>1, <1>3, WayKept
    <2>2. QED
      BY <1>1, <1>2, <1>3, <2>1
  <1>4. CASE top' = top + 1
    BY <1>1, <1>2, <1>4
  <1>5. QED
    BY <1>3, <1>4

LEMMA SlotsTyped ==
  ASSUME IInv, NEW f, Moves(f)
  PROVE  \A n \in Views' : View(n, Buffer)' \in 0 .. Current' /\ \A l \in Slots : View(n, l)' \in Values
  BY DEF IInv, ViewsTyped, Moves

\* A store that reaches memory takes the first view away.
LEMMA FlushMoves ==
  ASSUME IInv, Flush, NEW f, f = [n \in Views' |-> n + 1]
  PROVE  /\ Moves(f) /\ Seen(Bottom)' = Seen(Bottom)
         /\ \A n \in Views' : View(n, Bottom)' = View(f[n], Bottom)
  <1>1. Types /\ Window
    BY DEF IInv
  <1>2. PICK N : N = Len(stores)
    OBVIOUS
  <1>3. /\ N \in Nat \ {0} /\ Len(stores') = N - 1
        /\ \A n \in 0 .. Len(stores') : \A l \in Locations : View(n, l)' = View(n + 1, l)
    BY <1>1, <1>2, FlushViews
  <1>4. /\ Views = 0 .. N /\ Views' = 0 .. N - 1 /\ N - 1 \in Nat
        /\ \A n \in Views' : f[n] = n + 1 /\ n + 1 \in Views /\ n \in Int
    BY <1>2, <1>3 DEF Views
  <1>5. ASSUME NEW n \in Views', NEW l \in Locations PROVE View(n, l)' = View(f[n], l)
    BY <1>3, <1>4
  <1>6. ASSUME NEW l \in Locations PROVE Seen(l)' = Seen(l)
    <2>1. PICK n : n = N - 1
      OBVIOUS
    <2>2. Seen(l)' = View(n, l)' /\ Seen(l) = View(N, l)
      BY <1>2, <1>3, <2>1, SeenIs
    <2>3. n \in Views' /\ f[n] = N
      BY <1>3, <1>4, <2>1
    <2>4. QED
      BY <1>5, <2>2, <2>3
  <1>7. Current' = Current /\ Seen(Bottom)' = Seen(Bottom)
    BY <1>6, Places DEF Current
  <1>8. ASSUME NEW i \in Int PROVE Item(i)' = Item(i)
    <2>1. PICK k : k = Current
      OBVIOUS
    <2>2. Slot(k, i) \in Locations
      BY <1>1, <2>1, SlotPlace, Places DEF Window
    <2>3. Seen(Slot(k, i))' = Seen(Slot(k, i))
      BY <1>6, <2>2
    <2>4. QED
      BY <1>7, <2>1, <2>3, ItemIs
  <1>9. \A n \in Views' : /\ View(n, Buffer)' = View(f[n], Buffer) /\ View(n, Bottom)' = View(f[n], Bottom)
                          /\ \A l \in Slots : View(n, l)' = View(f[n], l)
    BY <1>5, Places
  <1>10. \A n, m \in Views' : n <= m => f[n] <= f[m]
    BY <1>4
  <1>11. QED
    BY <1>4, <1>7, <1>8, <1>9, <1>10 DEF Moves

\* Steps that store nothing.
LEMMA StillMoves ==
  ASSUME IInv, UNCHANGED <<stores, mem>>, NEW f, f = [n \in Views' |-> n]
  PROVE  /\ Moves(f) /\ Seen(Bottom)' = Seen(Bottom)
         /\ Views' = Views /\ \A n \in Views' : f[n] = n /\ View(n, Bottom)' = View(f[n], Bottom)
  <1>1. ASSUME NEW n, NEW l PROVE View(n, l)' = View(n, l)
    BY DEF View
  <1>2. Views' = Views /\ \A n \in Views' : f[n] = n
    BY DEF Views
  <1>3. ASSUME NEW l PROVE Seen(l)' = Seen(l)
    BY DEF Seen, View
  <1>4. Current' = Current /\ Seen(Bottom)' = Seen(Bottom)
    BY <1>3 DEF Current
  <1>5. ASSUME NEW i \in Int PROVE Item(i)' = Item(i)
    <2>1. PICK k : k = Current
      OBVIOUS
    <2>2. Seen(Slot(k, i))' = Seen(Slot(k, i))
      BY <1>3
    <2>3. QED
      BY <1>4, <2>1, <2>2, ItemIs
  <1>6. \A n \in Views' : View(n, Buffer)' = View(f[n], Buffer) /\ View(n, Bottom)' = View(f[n], Bottom)
    BY <1>1, <1>2
  <1>7. \A n \in Views' : \A l \in Slots : View(n, l)' = View(f[n], l)
    BY <1>1, <1>2
  <1>8. QED
    BY <1>2, <1>4, <1>5, <1>6, <1>7 DEF Moves

\* One store at _bottom adds a view that differs from the last one there alone.
LEMMA BottomMoves ==
  ASSUME IInv, NEW v \in Int, Store(<<Write(Bottom, v)>>), mem' = mem,
         NEW f, f = [n \in Views' |-> IF n <= Len(stores) THEN n ELSE Len(stores)]
  PROVE  /\ Moves(f) /\ Seen(Bottom)' = v
         /\ stores' \in Seq([at : Locations, val : Int])
         /\ Len(stores) \in Views
         /\ \A n \in Views' : \/ View(n, Bottom)' = View(f[n], Bottom)
                              \/ View(n, Bottom)' = v /\ f[n] = Len(stores)
  <1>1. Types /\ Window
    BY DEF IInv
  <1>2. PICK N : N = Len(stores)
    OBVIOUS
  <1>3. PICK ws : ws = <<Write(Bottom, v)>>
    OBVIOUS
  <1>4. Len(ws) = 1 /\ ws[1] = Write(Bottom, v) /\ ws[1].at = Bottom /\ ws[1].val = v
    BY <1>3 DEF Write
  <1>5. Appends(ws)
    <2>1. Write(Bottom, v) \in [at : Locations, val : Int]
      BY Places DEF Write
    <2>2. QED
      BY <1>3, <2>1 DEF Appends, Store
  <1>6. N \in Nat /\ Len(stores') = N + 1 /\ stores' \in Seq([at : Locations, val : Int])
    BY <1>1, <1>2, <1>4, <1>5, AppendViews
  <1>7. Views = 0 .. N /\ Views' = 0 .. N + 1 /\ N \in Views
    BY <1>2, <1>6 DEF Views
  <1>8. \A n \in Views' : n \in Int /\ f[n] = (IF n <= N THEN n ELSE N) /\ f[n] \in Views /\ f[n] \in Int
    BY <1>2, <1>6, <1>7
  <1>9. ASSUME NEW n \in Views', NEW l, l # Bottom PROVE View(n, l)' = View(f[n], l)
    <2>1. CASE n <= N
      <3>1. n \in Views /\ f[n] = n
        BY <1>6, <1>7, <1>8, <2>1
      <3>2. QED
        BY <1>1, <1>5, <3>1, OldView
    <2>2. CASE ~ (n <= N)
      <3>1. n \in N .. N + Len(ws) /\ f[n] = N /\ n - N = 1
        BY <1>4, <1>6, <1>7, <1>8, <2>2
      <3>2. \A j \in 1 .. n - N : ws[j].at # l
        BY <1>4, <1>9, <3>1
      <3>3. View(n, l)' = View(N, l)
        BY <1>1, <1>2, <1>5, <3>1, <3>2, ViewUnwritten
      <3>4. QED
        BY <3>1, <3>3
    <2>3. QED
      BY <2>1, <2>2
  <1>10. ASSUME NEW n \in Views'
         PROVE  \/ View(n, Bottom)' = View(f[n], Bottom)
                \/ View(n, Bottom)' = v /\ f[n] = N
    <2>1. CASE n <= N
      <3>1. n \in Views /\ f[n] = n
        BY <1>6, <1>7, <1>8, <2>1
      <3>2. QED
        BY <1>1, <1>5, <3>1, OldView
    <2>2. CASE ~ (n <= N)
      <3>1. n \in N .. N + Len(ws) /\ f[n] = N /\ n - N = 1
        BY <1>4, <1>6, <1>7, <1>8, <2>2
      <3>2. \/ \A j \in 1 .. n - N : ws[j].at # Bottom
            \/ \E m \in 1 .. n - N : View(n, Bottom)' = ws[m].val
        BY <1>1, <1>2, <1>5, <3>1, Appended, SMTT(60)
      <3>3. QED
        BY <1>4, <3>1, <3>2
    <2>3. QED
      BY <2>1, <2>2
  <1>11. PICK M : M = N + 1
    OBVIOUS
  <1>12. M \in Views' /\ f[M] = N /\ \A l : Seen(l)' = View(M, l)' /\ Seen(l) = View(N, l)
    BY <1>2, <1>6, <1>7, <1>8, <1>11, SeenIs
  <1>13. ASSUME NEW l, l # Bottom PROVE Seen(l)' = Seen(l)
    BY <1>9, <1>12, <1>13
  <1>14. Seen(Bottom)' = v
    <2>1. M \in N .. N + Len(ws) /\ M - N = 1
      BY <1>4, <1>6, <1>11
    <2>2. \/ \A j \in 1 .. M - N : ws[j].at # Bottom
          \/ \E m \in 1 .. M - N : View(M, Bottom)' = ws[m].val
      BY <1>1, <1>2, <1>5, <2>1, Appended
    <2>3. QED
      BY <1>4, <1>12, <2>1, <2>2
  <1>15. Current' = Current
    BY <1>13, Places DEF Current
  <1>16. ASSUME NEW i \in Int PROVE Item(i)' = Item(i)
    <2>1. PICK k : k = Current
      OBVIOUS
    <2>2. Slot(k, i) # Bottom
      BY Places
    <2>3. Seen(Slot(k, i))' = Seen(Slot(k, i))
      BY <1>13, <2>2
    <2>4. QED
      BY <1>15, <2>1, <2>3, ItemIs
  <1>17. \A n \in Views' : /\ View(n, Buffer)' = View(f[n], Buffer)
                           /\ \A l \in Slots : View(n, l)' = View(f[n], l)
    BY <1>9, Places
  <1>18. \A n, m \in Views' : n <= m => f[n] <= f[m]
    BY <1>6, <1>8
  <1>19. Moves(f)
    BY <1>8, <1>15, <1>16, <1>17, <1>18 DEF Moves
  <1>20. QED
    BY <1>2, <1>6, <1>7, <1>10, <1>14, <1>19

-----------------------------------------------------------------------------
(* Every step keeps the invariant. *)

\* The ranges that follow from the invariant.
LEMMA Ranges ==
  ASSUME IInv
  PROVE  /\ top \in Nat /\ pushed \in Nat /\ MaxPush \in Nat /\ NumBuffers \in Nat \ {0}
         /\ End \in Int /\ top <= End /\ End <= pushed /\ pushed <= MaxPush
         /\ Current \in 1 .. NumBuffers
         /\ owner.at = "idle" => Seen(Bottom) = End
         /\ owner.at # "idle" => Seen(Bottom) = owner.b /\ End = owner.b + 1 /\ owner.b \in Int
  <1>1. Types /\ Window /\ Claimed
    BY DEF IInv
  <1>2. top \in Nat /\ pushed \in 0 .. MaxPush /\ MaxPush \in Nat /\ NumBuffers \in Nat \ {0}
        /\ owner.b \in -1 .. MaxPush
    BY <1>1, DequeAssumption DEF Types
  <1>3. /\ End \in top .. pushed /\ Current \in 1 .. NumBuffers
        /\ owner.at # "idle" => Seen(Bottom) = owner.b
    BY <1>1 DEF Window, Claimed
  <1>4. /\ owner.at = "idle" => Seen(Bottom) = End
        /\ owner.at # "idle" => End = owner.b + 1
    BY DEF End
  <1>5. QED
    BY <1>2, <1>3, <1>4

\* A task that waits is one that was pushed.
LEMMA ItemsTyped ==
  ASSUME IInv, NEW i \in Int, top <= i, i < End
  PROVE  Item(i) \in 1 .. pushed /\ Item(i) \in Values /\ Item(i) # Empty /\ runs[Item(i)] = 0
  <1>1. i \in top .. End - 1
    BY Ranges
  <1>2. Item(i) \in 1 .. pushed /\ runs[Item(i)] = 0
    BY <1>1 DEF IInv, Handed
  <1>3. QED
    BY <1>2, Ranges DEF Values, Tasks, Empty

\* Memory takes a store.
LEMMA FlushIInv ==
  ASSUME IInv, Flush
  PROVE  IInv'
  <1>1. Types /\ ViewsTyped /\ Window /\ Claimed /\ Published /\ Thieving /\ Handed
    BY DEF IInv
  <1>2. UNCHANGED <<top, pushed, owner, thief, runs>> /\ stores # <<>>
    BY DEF Flush
  <1>3. PICK f : f = [n \in Views' |-> n + 1]
    OBVIOUS
  <1>4. /\ Moves(f) /\ Seen(Bottom)' = Seen(Bottom)
        /\ \A n \in Views' : View(n, Bottom)' = View(f[n], Bottom)
    BY <1>3, FlushMoves
  <1>5. /\ End' = End /\ Current' = Current
        /\ \A n \in Views' : f[n] \in Views
        /\ \A i \in Int : Item(i)' = Item(i)
    BY <1>2, <1>4 DEF End, Moves
  <1>6. Types'
    <2>1. /\ stores \in Seq([at : Locations, val : Int])
          /\ mem = [l \in Locations |-> mem[l]]
      BY <1>1 DEF Types
    <2>2. stores' \in Seq([at : Locations, val : Int])
      BY <1>2, <2>1 DEF Flush
    <2>3. mem' = [l \in Locations |-> mem'[l]]
      BY <2>1 DEF Flush
    <2>4. QED
      BY <1>1, <1>2, <2>2, <2>3 DEF Types
  <1>7. ViewsTyped'
    <2>1. \A n \in Views' : View(n, Bottom)' \in -1 .. End'
      BY <1>1, <1>4, <1>5 DEF ViewsTyped
    <2>2. QED
      BY <1>4, <2>1, SlotsTyped DEF ViewsTyped
  <1>8. Window'
    BY <1>1, <1>2, <1>5 DEF Window
  <1>9. Claimed'
    BY <1>1, <1>2, <1>4 DEF Claimed
  <1>10. Published'
    <2>1. top \in Int /\ top' = top
      BY <1>1, <1>2 DEF Types
    <2>2. \A n \in Views' : \A i \in Nat : top' <= i /\ i < View(n, Bottom)' => i < View(f[n], Bottom)
      BY <1>4
    <2>3. top <= top' /\ top' \in Int
      BY <2>1
    <2>4. QED
      BY <1>4, <2>1, <2>2, <2>3, PublishedKept
  <1>11. Thieving'
    <2>1. ASSUME NEW h \in Thieves
          PROVE  /\ thief'[h].t <= top' /\ thief'[h].buf <= Current'
                 /\ thief'[h].t = top' /\ thief'[h].at \in {"bottom", "buffer", "copied"} => top' < End' /\ OnItsWay(h)'
      BY <1>2, <1>4, <1>5, ThievingKept
    <2>2. QED
      BY <2>1 DEF Thieving
  <1>12. Handed'
    <2>1. top \in Int /\ End \in Int
      BY <1>1, Ranges DEF Types
    <2>2. \A i \in top .. End - 1 : Item(i)' = Item(i)
      BY <1>5, <2>1
    <2>3. QED
      BY <1>1, <1>2, <1>5, <2>2 DEF Handed
  <1>13. QED
    BY <1>6, <1>7, <1>8, <1>9, <1>10, <1>11, <1>12 DEF IInv

\* The owner claims the newest task.
LEMMA PopClaimIInv ==
  ASSUME IInv, PopClaim
  PROVE  IInv'
  <1>1. Types /\ ViewsTyped /\ Window /\ Claimed /\ Published /\ Thieving /\ Handed
    BY DEF IInv
  <1>2. UNCHANGED <<top, mem, pushed, thief, runs>> /\ owner.at = "idle"
    BY DEF PopClaim
  <1>3. PICK v : v = Seen(Bottom) - 1
    OBVIOUS
  <1>4. Store(<<Write(Bottom, v)>>) /\ owner' = [owner EXCEPT !.at = "fence", !.b = v]
    BY <1>3 DEF PopClaim
  <1>5. End = v + 1 /\ v \in -1 .. MaxPush /\ v \in Int
    BY <1>2, <1>3, Ranges
  <1>6. owner'.at = "fence" /\ owner'.b = v /\ owner' \in [at : {"idle", "fence", "last"}, b : -1 .. MaxPush, t : 0 .. MaxPush]
    BY <1>1, <1>4, <1>5 DEF Types
  <1>7. PICK f : f = [n \in Views' |-> IF n <= Len(stores) THEN n ELSE Len(stores)]
    OBVIOUS
  <1>8. /\ Moves(f) /\ Seen(Bottom)' = v
        /\ stores' \in Seq([at : Locations, val : Int])
        /\ Len(stores) \in Views
        /\ \A n \in Views' : \/ View(n, Bottom)' = View(f[n], Bottom)
                             \/ View(n, Bottom)' = v /\ f[n] = Len(stores)
    BY <1>2, <1>4, <1>5, <1>7, BottomMoves
  <1>9. View(Len(stores), Bottom) = v + 1
    BY <1>2, <1>5, Ranges, SeenIs
  <1>10. /\ End' = End /\ Current' = Current
         /\ \A n \in Views' : f[n] \in Views
         /\ \A i \in Int : Item(i)' = Item(i)
    BY <1>5, <1>6, <1>8 DEF End, Moves
  <1>11. Types'
    BY <1>1, <1>2, <1>6, <1>8 DEF Types
  <1>12. ViewsTyped'
    <2>1. \A n \in Views' : View(n, Bottom)' \in -1 .. End'
      BY <1>1, <1>5, <1>8, <1>10 DEF ViewsTyped
    <2>2. QED
      BY <1>8, <2>1, SlotsTyped DEF ViewsTyped
  <1>13. Window'
    BY <1>1, <1>2, <1>10 DEF Window
  <1>14. Claimed'
    BY <1>6, <1>8 DEF Claimed
  <1>15. Published'
    <2>1. top \in Int /\ top' = top /\ top <= top' /\ top' \in Int
      BY <1>1, <1>2 DEF Types
    <2>2. ASSUME NEW n \in Views', NEW i \in Nat, i < View(n, Bottom)' PROVE i < View(f[n], Bottom)
      <3>1. CASE View(n, Bottom)' = View(f[n], Bottom)
        BY <2>2, <3>1
      <3>2. CASE View(n, Bottom)' = v /\ f[n] = Len(stores)
        BY <1>5, <1>9, <2>2, <3>2
      <3>3. QED
        BY <1>8, <3>1, <3>2
    <2>3. QED
      BY <1>8, <2>1, <2>2, PublishedKept
  <1>16. Thieving'
    <2>1. ASSUME NEW h \in Thieves
          PROVE  /\ thief'[h].t <= top' /\ thief'[h].buf <= Current'
                 /\ thief'[h].t = top' /\ thief'[h].at \in {"bottom", "buffer", "copied"} => top' < End' /\ OnItsWay(h)'
      BY <1>2, <1>8, <1>10, ThievingKept
    <2>2. QED
      BY <2>1 DEF Thieving
  <1>17. Handed'
    <2>1. top \in Int /\ End \in Int
      BY <1>1, Ranges DEF Types
    <2>2. \A i \in top .. End - 1 : Item(i)' = Item(i)
      BY <1>10, <2>1
    <2>3. QED
      BY <1>1, <1>2, <1>10, <2>2 DEF Handed
  <1>18. QED
    BY <1>11, <1>12, <1>13, <1>14, <1>15, <1>16, <1>17 DEF IInv

\* A task that is handed out was handed to nobody before, and is in one place.
LEMMA HandIsNew ==
  ASSUME IInv, NEW i \in Int, top <= i, i < End, Hand(Item(i))
  PROVE  /\ runs' \in [Values -> 0 .. 1] /\ runs' # runs
         /\ \A j \in top .. End - 1 : j # i => runs'[Item(j)] = 0
         /\ \A v \in Values : runs'[v] # 0 => v \in 1 .. pushed
  <1>1. Types /\ Handed
    BY DEF IInv
  <1>2. i \in top .. End - 1
    BY Ranges
  <1>3. PICK x : x = Item(i)
    OBVIOUS
  <1>4. x \in 1 .. pushed /\ x \in Values /\ runs[x] = 0
    BY <1>3, ItemsTyped
  <1>5. runs \in [Values -> 0 .. 1]
    BY <1>1 DEF Types
  <1>6. runs' = [runs EXCEPT ![x] = 1]
    BY <1>3, <1>4 DEF Hand
  <1>7. runs' \in [Values -> 0 .. 1] /\ runs'[x] = 1 /\ \A v \in Values : v # x => runs'[v] = runs[v]
    BY <1>4, <1>5, <1>6
  <1>8. ASSUME NEW j \in top .. End - 1, j # i PROVE runs'[Item(j)] = 0
    <2>1. Item(j) # x
      BY <1>1, <1>2, <1>3, <1>8 DEF Handed
    <2>2. Item(j) \in Values /\ runs[Item(j)] = 0
      <3>1. j \in Int /\ top <= j /\ j < End
        BY Ranges
      <3>2. QED
        BY <3>1, ItemsTyped
    <2>3. QED
      BY <1>7, <2>1, <2>2
  <1>9. \A v \in Values : runs'[v] # 0 => v \in 1 .. pushed
    BY <1>1, <1>4, <1>7 DEF Handed
  <1>10. QED
    BY <1>4, <1>7, <1>8, <1>9

\* The owner takes a task that is not the last.
LEMMA PopTakeIInv ==
  ASSUME IInv, PopTake
  PROVE  IInv'
  <1>1. Types /\ ViewsTyped /\ Window /\ Claimed /\ Published /\ Thieving /\ Handed
    BY DEF IInv
  <1>2. /\ UNCHANGED <<top, mem, stores, pushed, thief>> /\ owner' = OwnerIdle
        /\ owner.at = "fence" /\ stores = <<>> /\ top < owner.b
    BY DEF PopTake, Fenced
  <1>3. Hand(Item(owner.b))
    BY DEF PopTake, Item, Current
  <1>4. /\ End = owner.b + 1 /\ Seen(Bottom) = owner.b /\ owner.b \in Int /\ End \in Int /\ top \in Nat
        /\ End <= pushed /\ pushed \in Nat
    BY <1>2, Ranges
  <1>5. PICK f : f = [n \in Views' |-> n]
    OBVIOUS
  <1>6. /\ Moves(f) /\ Seen(Bottom)' = Seen(Bottom)
        /\ Views' = Views /\ \A n \in Views' : f[n] = n /\ View(n, Bottom)' = View(f[n], Bottom)
    BY <1>2, <1>5, StillMoves
  <1>7. /\ End' = owner.b /\ Current' = Current
        /\ \A n \in Views' : f[n] \in Views
        /\ \A i \in Int : Item(i)' = Item(i)
    BY <1>2, <1>4, <1>6 DEF End, Moves, OwnerIdle
  <1>8. /\ runs' \in [Values -> 0 .. 1]
        /\ \A j \in top .. End - 1 : j # owner.b => runs'[Item(j)] = 0
        /\ \A v \in Values : runs'[v] # 0 => v \in 1 .. pushed
    BY <1>2, <1>3, <1>4, HandIsNew
  <1>9. Types'
    <2>1. OwnerIdle \in [at : {"idle", "fence", "last"}, b : -1 .. MaxPush, t : 0 .. MaxPush]
      BY DequeAssumption DEF OwnerIdle
    <2>2. QED
      BY <1>1, <1>2, <1>8, <2>1 DEF Types
  <1>10. ViewsTyped'
    <2>1. \A n \in Views' : n = 0
      BY <1>2 DEF Views
    <2>2. View(0, Bottom) = owner.b
      BY <1>2, <1>4, SeenIs
    <2>3. \A n \in Views' : View(n, Bottom)' \in -1 .. End'
      BY <1>2, <1>4, <1>6, <1>7, <2>1, <2>2
    <2>4. QED
      BY <1>6, <2>3, SlotsTyped DEF ViewsTyped
  <1>11. Window'
    <2>1. Cap[Current] \in Nat /\ End - top <= Cap[Current] /\ Current \in 1 .. NumBuffers
      <3>1. Current \in Nat
        BY Ranges
      <3>2. QED
        BY <1>1, <3>1, CapDoubles DEF Window
    <2>2. QED
      BY <1>2, <1>4, <1>7, <2>1, SMTT(60) DEF Window
  <1>12. Claimed'
    BY <1>2 DEF Claimed, OwnerIdle
  <1>13. Published'
    <2>1. top \in Int /\ top' = top /\ top <= top' /\ top' \in Int
      BY <1>2, <1>4
    <2>2. \A n \in Views' : \A i \in Nat : top' <= i /\ i < View(n, Bottom)' => i < View(f[n], Bottom)
      BY <1>6
    <2>3. QED
      BY <1>6, <2>1, <2>2, PublishedKept
  <1>14. Thieving'
    <2>1. top' = top /\ top' < End'
      BY <1>2, <1>7
    <2>2. ASSUME NEW h \in Thieves
          PROVE  /\ thief'[h].t <= top' /\ thief'[h].buf <= Current'
                 /\ thief'[h].t = top' /\ thief'[h].at \in {"bottom", "buffer", "copied"} => top' < End' /\ OnItsWay(h)'
      BY <1>2, <1>6, <2>1, ThievingKept
    <2>3. QED
      BY <2>2 DEF Thieving
  <1>15. Handed'
    <2>1. \A i \in top .. owner.b - 1 : i \in top .. End - 1 /\ i # owner.b /\ Item(i)' = Item(i)
      BY <1>4, <1>7
    <2>2. \A i \in top .. owner.b - 1 : Item(i)' \in 1 .. pushed /\ runs'[Item(i)'] = 0
      BY <1>1, <1>8, <2>1 DEF Handed
    <2>3. \A i, j \in top .. owner.b - 1 : Item(i)' = Item(j)' => i = j
      BY <1>1, <2>1 DEF Handed
    <2>4. QED
      BY <1>2, <1>7, <1>8, <2>2, <2>3 DEF Handed
  <1>16. QED
    BY <1>9, <1>10, <1>11, <1>12, <1>13, <1>14, <1>15 DEF IInv

\* The owner sees that the task it claimed is the last.
LEMMA PopLastIInv ==
  ASSUME IInv, PopLast
  PROVE  IInv'
  <1>1. Types /\ ViewsTyped /\ Window /\ Claimed /\ Published /\ Thieving /\ Handed
    BY DEF IInv
  <1>2. /\ UNCHANGED <<top, mem, stores, pushed, thief, runs>> /\ owner' = [owner EXCEPT !.at = "last", !.t = top]
        /\ owner.at = "fence" /\ stores = <<>> /\ top = owner.b
    BY DEF PopLast, Fenced
  <1>3. /\ End = owner.b + 1 /\ Seen(Bottom) = owner.b /\ top \in 0 .. MaxPush
    <2>1. End = owner.b + 1 /\ Seen(Bottom) = owner.b /\ top \in Nat /\ top <= End /\ End \in Int /\ End <= pushed
          /\ pushed <= MaxPush /\ pushed \in Nat /\ MaxPush \in Nat
      BY <1>2, Ranges
    <2>2. QED
      BY <2>1
  <1>4. /\ owner'.at = "last" /\ owner'.b = owner.b /\ owner'.t = top
        /\ owner' \in [at : {"idle", "fence", "last"}, b : -1 .. MaxPush, t : 0 .. MaxPush]
    BY <1>1, <1>2, <1>3 DEF Types
  <1>5. PICK f : f = [n \in Views' |-> n]
    OBVIOUS
  <1>6. /\ Moves(f) /\ Seen(Bottom)' = Seen(Bottom)
        /\ Views' = Views /\ \A n \in Views' : f[n] = n /\ View(n, Bottom)' = View(f[n], Bottom)
    BY <1>2, <1>5, StillMoves
  <1>7. /\ End' = End /\ Current' = Current
        /\ \A n \in Views' : f[n] \in Views
        /\ \A i \in Int : Item(i)' = Item(i)
    BY <1>3, <1>4, <1>6 DEF End, Moves
  <1>8. Types'
    BY <1>1, <1>2, <1>4 DEF Types
  <1>9. ViewsTyped'
    <2>1. \A n \in Views' : View(n, Bottom)' \in -1 .. End'
      BY <1>1, <1>6, <1>7 DEF ViewsTyped
    <2>2. QED
      BY <1>6, <2>1, SlotsTyped DEF ViewsTyped
  <1>10. Window'
    BY <1>1, <1>2, <1>7 DEF Window
  <1>11. Claimed'
    BY <1>2, <1>3, <1>4, <1>6 DEF Claimed
  <1>12. Published'
    <2>1. top \in Int /\ top' = top /\ top <= top' /\ top' \in Int
      BY <1>2, <1>3
    <2>2. \A n \in Views' : \A i \in Nat : top' <= i /\ i < View(n, Bottom)' => i < View(f[n], Bottom)
      BY <1>6
    <2>3. QED
      BY <1>6, <2>1, <2>2, PublishedKept
  <1>13. Thieving'
    <2>1. ASSUME NEW h \in Thieves
          PROVE  /\ thief'[h].t <= top' /\ thief'[h].buf <= Current'
                 /\ thief'[h].t = top' /\ thief'[h].at \in {"bottom", "buffer", "copied"} => top' < End' /\ OnItsWay(h)'
      BY <1>2, <1>6, <1>7, ThievingKept
    <2>2. QED
      BY <2>1 DEF Thieving
  <1>14. Handed'
    <2>1. top \in Int /\ End \in Int
      BY <1>1, Ranges DEF Types
    <2>2. \A i \in top .. End - 1 : Item(i)' = Item(i)
      BY <1>7, <2>1
    <2>3. QED
      BY <1>1, <1>2, <1>7, <2>2 DEF Handed
  <1>15. QED
    BY <1>8, <1>9, <1>10, <1>11, <1>12, <1>13, <1>14 DEF IInv

\* The owner puts _bottom back, with or without the last task: nothing waits then.
LEMMA RestoreIInv ==
  ASSUME IInv, owner.at # "idle", stores = <<>>, RestoreBottom, owner' = OwnerIdle, UNCHANGED <<mem, pushed, thief>>,
         \/ top' = top /\ runs' = runs /\ owner.b < top
         \/ top = owner.b /\ top' = top + 1 /\ Hand(Item(top))
  PROVE  IInv' /\ End' = top'
  <1>1. Types /\ ViewsTyped /\ Window /\ Claimed /\ Published /\ Thieving /\ Handed
    BY DEF IInv
  <1>2. /\ End = owner.b + 1 /\ Seen(Bottom) = owner.b /\ owner.b \in Int /\ top \in Nat /\ top <= End
        /\ End <= pushed /\ pushed \in Nat /\ pushed <= MaxPush /\ MaxPush \in Nat
    BY Ranges
  <1>3. PICK v : v = owner.b + 1
    OBVIOUS
  <1>4. v \in Int /\ Store(<<Write(Bottom, v)>>) /\ End = v /\ top' = v /\ top' \in {top, top + 1} /\ top <= top' /\ v \in 0 .. pushed
    BY <1>2, <1>3 DEF RestoreBottom
  <1>5. PICK f : f = [n \in Views' |-> IF n <= Len(stores) THEN n ELSE Len(stores)]
    OBVIOUS
  <1>6. /\ Moves(f) /\ Seen(Bottom)' = v
        /\ stores' \in Seq([at : Locations, val : Int])
        /\ Len(stores) \in Views
        /\ \A n \in Views' : \/ View(n, Bottom)' = View(f[n], Bottom)
                             \/ View(n, Bottom)' = v /\ f[n] = Len(stores)
    BY <1>4, <1>5, BottomMoves
  <1>7. /\ End' = v /\ Current' = Current
        /\ \A n \in Views' : f[n] \in Views
    BY <1>6 DEF End, Moves, OwnerIdle
  <1>8. /\ runs' \in [Values -> 0 .. 1]
        /\ \A x \in Values : runs'[x] # 0 => x \in 1 .. pushed
    <2>1. CASE runs' = runs
      BY <1>1, <2>1 DEF Types, Handed
    <2>2. CASE top = owner.b /\ Hand(Item(top))
      <3>1. top \in Int /\ top <= top /\ top < End
        BY <1>2, <2>2
      <3>2. QED
        BY <2>2, <3>1, HandIsNew
    <2>3. QED
      BY <2>1, <2>2
  <1>9. Types'
    <2>1. OwnerIdle \in [at : {"idle", "fence", "last"}, b : -1 .. MaxPush, t : 0 .. MaxPush]
      BY DequeAssumption DEF OwnerIdle
    <2>2. top' \in Nat
      BY <1>4
    <2>3. QED
      BY <1>1, <1>6, <1>8, <2>1, <2>2 DEF Types
  <1>10. ViewsTyped'
    <2>1. \A n \in Views' : View(n, Bottom)' \in -1 .. End'
      BY <1>1, <1>4, <1>6, <1>7 DEF ViewsTyped
    <2>2. QED
      BY <1>6, <2>1, SlotsTyped DEF ViewsTyped
  <1>11. Window'
    <2>1. Current \in 1 .. NumBuffers /\ Cap[Current] \in Nat
      <3>1. Current \in 1 .. NumBuffers /\ Current \in Nat
        BY Ranges
      <3>2. QED
        BY <3>1, CapDoubles
    <2>2. End' \in top' .. pushed' /\ End' - top' <= Cap[Current]
      BY <1>2, <1>4, <1>7, <2>1
    <2>3. QED
      BY <1>7, <2>1, <2>2 DEF Window
  <1>12. Claimed'
    BY DEF Claimed, OwnerIdle
  <1>13. Published'
    <2>1. top \in Int /\ top <= top' /\ top' \in Int
      BY <1>2, <1>4
    <2>2. ASSUME NEW n \in Views', NEW i \in Nat, top' <= i, i < View(n, Bottom)' PROVE i < View(f[n], Bottom)
      BY <1>4, <1>6, <2>2
    <2>3. QED
      BY <1>6, <2>1, <2>2, PublishedKept
  <1>14. Thieving'
    <2>1. top' = top /\ top < End => top' < End'
      BY <1>2, <1>4
    <2>2. ASSUME NEW h \in Thieves
          PROVE  /\ thief'[h].t <= top' /\ thief'[h].buf <= Current'
                 /\ thief'[h].t = top' /\ thief'[h].at \in {"bottom", "buffer", "copied"} => top' < End' /\ OnItsWay(h)'
      BY <1>4, <1>6, <2>1, ThievingKept
    <2>3. QED
      BY <2>2 DEF Thieving
  <1>15. Handed'
    <2>1. top' .. End' - 1 = {}
      BY <1>4, <1>7
    <2>2. QED
      BY <1>8, <2>1 DEF Handed
  <1>16. QED
    BY <1>4, <1>7, <1>9, <1>10, <1>11, <1>12, <1>13, <1>14, <1>15 DEF IInv

\* The owner finds nothing.
LEMMA PopEmptyIInv ==
  ASSUME IInv, PopEmpty
  PROVE  IInv' /\ End' = top'
  <1>1. owner.at # "idle" /\ stores = <<>> /\ owner.b < top
    <2>1. owner.at = "fence" /\ stores = <<>> /\ top > owner.b
      BY DEF PopEmpty, Fenced
    <2>2. QED
      BY <2>1, Ranges
  <1>2. RestoreBottom /\ owner' = OwnerIdle /\ UNCHANGED <<top, mem, pushed, thief, runs>>
    BY DEF PopEmpty
  <1>3. QED
    BY <1>1, <1>2, RestoreIInv

\* The owner wins or loses the last task.
LEMMA PopRaceIInv ==
  ASSUME IInv, PopRace
  PROVE  IInv' /\ End' = top'
  <1>1. /\ owner.at # "idle" /\ stores = <<>> /\ owner.t = owner.b /\ owner.b <= top
        /\ RestoreBottom /\ owner' = OwnerIdle /\ UNCHANGED <<mem, pushed, thief>>
    BY DEF PopRace, IInv, Claimed
  <1>2. CASE top = owner.t
    <2>1. top = owner.b /\ top' = top + 1 /\ Hand(Item(owner.b))
      BY <1>1, <1>2 DEF PopRace, Item, Current
    <2>2. Hand(Item(top))
      BY <2>1
    <2>3. QED
      BY <1>1, <2>1, <2>2, RestoreIInv
  <1>3. CASE top # owner.t
    <2>1. top' = top /\ runs' = runs
      BY <1>3 DEF PopRace
    <2>2. owner.b < top
      BY <1>1, <1>3, Ranges
    <2>3. QED
      BY <1>1, <2>1, <2>2, RestoreIInv
  <1>4. QED
    BY <1>2, <1>3

\* A thief reads something and goes on.
LEMMA ThiefIInv ==
  ASSUME IInv, UNCHANGED <<top, mem, stores, pushed, owner, runs>>, NEW h \in Thieves,
         NEW r \in [at : {"idle", "top", "bottom", "buffer", "copied"}, t : Nat, buf : Nat, item : Values],
         thief' = [thief EXCEPT ![h] = r], r.t <= top, r.buf <= Current,
         r.t = top /\ r.at \in {"bottom", "buffer", "copied"} => top < End /\ OnItsWay(h)'
  PROVE  IInv'
  <1>1. Types /\ ViewsTyped /\ Window /\ Claimed /\ Published /\ Thieving /\ Handed
    BY DEF IInv
  <1>2. PICK f : f = [n \in Views' |-> n]
    OBVIOUS
  <1>3. /\ Moves(f) /\ Seen(Bottom)' = Seen(Bottom)
        /\ Views' = Views /\ \A n \in Views' : f[n] = n /\ View(n, Bottom)' = View(f[n], Bottom)
    BY <1>2, StillMoves
  <1>4. /\ End' = End /\ Current' = Current
        /\ \A n \in Views' : f[n] \in Views
        /\ \A i \in Int : Item(i)' = Item(i)
    BY <1>3 DEF End, Moves
  <1>5. /\ thief \in [Thieves -> [at : {"idle", "top", "bottom", "buffer", "copied"}, t : Nat, buf : Nat, item : Values]]
        /\ top \in Nat /\ top \in Int
    BY <1>1 DEF Types
  <1>6. /\ thief' \in [Thieves -> [at : {"idle", "top", "bottom", "buffer", "copied"}, t : Nat, buf : Nat, item : Values]]
        /\ thief'[h] = r /\ \A g \in Thieves \ {h} : thief'[g] = thief[g]
    BY <1>5
  <1>7. Types'
    BY <1>1, <1>6 DEF Types
  <1>8. ViewsTyped'
    <2>1. \A n \in Views' : View(n, Bottom)' \in -1 .. End'
      BY <1>1, <1>3, <1>4 DEF ViewsTyped
    <2>2. QED
      BY <1>3, <2>1, SlotsTyped DEF ViewsTyped
  <1>9. Window'
    BY <1>1, <1>4 DEF Window
  <1>10. Claimed'
    BY <1>1, <1>3 DEF Claimed
  <1>11. Published'
    <2>1. top' \in Int /\ top <= top' /\ top \in Int
      BY <1>5
    <2>2. \A n \in Views' : \A i \in Nat : top' <= i /\ i < View(n, Bottom)' => i < View(f[n], Bottom)
      BY <1>3
    <2>3. QED
      BY <1>3, <2>1, <2>2, PublishedKept
  <1>12. Thieving'
    <2>1. ASSUME NEW g \in Thieves
          PROVE  /\ thief'[g].t <= top' /\ thief'[g].buf <= Current'
                 /\ thief'[g].t = top' /\ thief'[g].at \in {"bottom", "buffer", "copied"} => top' < End' /\ OnItsWay(g)'
      <3>1. CASE g = h
        <4>1. top' = top /\ thief'[g] = r
          BY <1>6, <3>1
        <4>2. QED
          BY <1>4, <3>1, <4>1
      <3>2. CASE g # h
        <4>1. PICK H : H = Thieves \ {h}
          OBVIOUS
        <4>2. H \in SUBSET Thieves /\ g \in H /\ \A j \in H : thief'[j] = thief[j]
          BY <1>6, <3>2, <4>1
        <4>3. top' \in {top, top + 1} /\ (top' = top /\ top < End => top' < End')
          BY <1>4
        <4>4. QED
          BY <1>3, <4>2, <4>3, ThievingKept
      <3>3. QED
        BY <3>1, <3>2
    <2>2. QED
      BY <2>1 DEF Thieving
  <1>13. Handed'
    <2>1. End \in Int
      BY Ranges
    <2>2. \A i \in top .. End - 1 : Item(i)' = Item(i)
      BY <1>4, <1>5, <2>1
    <2>3. QED
      BY <1>1, <1>4, <2>2 DEF Handed
  <1>14. QED
    BY <1>7, <1>8, <1>9, <1>10, <1>11, <1>12, <1>13 DEF IInv

\* What reading alone leaves as it was.
LEMMA Still ==
  ASSUME UNCHANGED <<top, mem, stores>>
  PROVE  /\ \A n, l : View(n, l)' = View(n, l)
         /\ Views' = Views /\ Item(top)' = Item(top)
  <1>1. \A n, l : View(n, l)' = View(n, l)
    BY DEF View
  <1>2. Views' = Views
    BY DEF Views
  <1>3. Item(top)' = Item(top)
    BY DEF Item, Current, Seen, View, Slot
  <1>4. QED
    BY <1>1, <1>2, <1>3

\* A thief reads _top.
LEMMA StealTopIInv ==
  ASSUME IInv, NEW h \in Thieves, StealTop(h)
  PROVE  IInv'
  <1>1. Types /\ Thieving
    BY DEF IInv
  <1>2. PICK r : r = [thief[h] EXCEPT !.at = "top", !.t = top]
    OBVIOUS
  <1>3. /\ UNCHANGED <<top, mem, stores, pushed, owner, runs>>
        /\ thief' = [thief EXCEPT ![h] = r]
    BY <1>2 DEF StealTop
  <1>4. /\ r \in [at : {"idle", "top", "bottom", "buffer", "copied"}, t : Nat, buf : Nat, item : Values]
        /\ r.at = "top" /\ r.t = top /\ r.buf = thief[h].buf
    BY <1>1, <1>2, ZenonT(60) DEF Types
  <1>5. r.t <= top /\ r.buf <= Current
    BY <1>1, <1>4 DEF Types, Thieving
  <1>6. ~ (r.at \in {"bottom", "buffer", "copied"})
    BY <1>4
  <1>7. QED
    BY <1>3, <1>4, <1>5, <1>6, ThiefIInv

\* A thief reads _bottom: what it saw there was published.
LEMMA StealBottomIInv ==
  ASSUME IInv, NEW h \in Thieves, StealBottom(h)
  PROVE  IInv'
  <1>1. Types /\ Thieving /\ Published /\ ViewsTyped
    BY DEF IInv
  <1>2. UNCHANGED <<top, mem, stores, pushed, owner, runs>> /\ thief[h].at = "top"
    BY DEF StealBottom
  <1>3. /\ thief[h] \in [at : {"idle", "top", "bottom", "buffer", "copied"}, t : Nat, buf : Nat, item : Values]
        /\ thief \in [Thieves -> [at : {"idle", "top", "bottom", "buffer", "copied"}, t : Nat, buf : Nat, item : Values]]
        /\ thief[h].t <= top /\ thief[h].buf <= Current /\ top \in Nat
    BY <1>1 DEF Types, Thieving
  <1>4. CASE thief[h].t < mem[Bottom]
    <2>1. PICK r : r = [thief[h] EXCEPT !.at = "bottom"]
      OBVIOUS
    <2>2. thief' = [thief EXCEPT ![h] = r]
      BY <1>4, <2>1 DEF StealBottom
    <2>3. /\ r \in [at : {"idle", "top", "bottom", "buffer", "copied"}, t : Nat, buf : Nat, item : Values]
          /\ r.at = "bottom" /\ r.t = thief[h].t /\ r.buf = thief[h].buf
      BY <1>3, <2>1
    <2>4. thief'[h] = r
      BY <1>3, <2>2
    <2>5. 0 \in Views /\ \A n \in Views : 0 <= n
      <3>1. Len(stores) \in Nat
        BY <1>1 DEF Types
      <3>2. QED
        BY <3>1 DEF Views
    <2>6. mem[Bottom] = View(0, Bottom)
      BY AfterZero, Viewed
    <2>7. ASSUME r.t = top PROVE top < End /\ OnItsWay(h)'
      <3>1. top < View(0, Bottom)
        BY <1>4, <2>3, <2>6, <2>7
      <3>2. View(0, Bottom) \in -1 .. End /\ End \in Int
        BY <1>1, <2>5, Ranges DEF ViewsTyped
      <3>3. top < End
        BY <1>3, <3>1, <3>2
      <3>4. ASSUME NEW n \in Views, NEW m \in Views, n <= m, View(n, Buffer) # Null
            PROVE  View(m, Slot(View(n, Buffer), top)) = Item(top)
        BY <1>1, <1>3, <2>5, <3>1, <3>4 DEF Published
      <3>5. OnItsWay(h)'
        <4>1. ASSUME NEW n \in Views', NEW m \in Views', n <= m, View(n, Buffer)' # Null
              PROVE  View(m, Slot(View(n, Buffer), top))' = Item(top)'
          <5>1. n \in Views /\ m \in Views /\ View(n, Buffer)' = View(n, Buffer) /\ Item(top)' = Item(top)
            BY <1>2, Still
          <5>2. View(m, Slot(View(n, Buffer), top)) = Item(top)
            BY <3>4, <4>1, <5>1
          <5>3. View(m, Slot(View(n, Buffer), top))' = View(m, Slot(View(n, Buffer), top))
            BY <1>2, <5>1 DEF View, Slot
          <5>4. QED
            BY <5>1, <5>2, <5>3
        <4>2. thief'[h].at = "bottom"
          BY <2>3, <2>4
        <4>3. QED
          BY <4>1, <4>2 DEF OnItsWay
      <3>6. QED
        BY <3>3, <3>5
    <2>8. QED
      BY <1>2, <1>3, <2>2, <2>3, <2>7, ThiefIInv
  <1>5. CASE ~ (thief[h].t < mem[Bottom])
    <2>1. PICK r : r = ThiefIdle
      OBVIOUS
    <2>2. thief' = [thief EXCEPT ![h] = r]
      BY <1>5, <2>1 DEF StealBottom
    <2>3. /\ r \in [at : {"idle", "top", "bottom", "buffer", "copied"}, t : Nat, buf : Nat, item : Values]
          /\ r.at = "idle" /\ r.t = 0 /\ r.buf = 0
      BY <2>1 DEF ThiefIdle, Values, Empty, Null
    <2>4. r.t <= top /\ r.buf <= Current
      BY <1>3, <2>3, Ranges
    <2>5. ~ (r.at \in {"bottom", "buffer", "copied"})
      BY <2>3
    <2>6. QED
      BY <1>2, <2>2, <2>3, <2>4, <2>5, ThiefIInv
  <1>6. QED
    BY <1>4, <1>5

\* A thief reads _buffer: the slots of the buffer it got hold its task from now on.
LEMMA StealBufferIInv ==
  ASSUME IInv, NEW h \in Thieves, StealBuffer(h)
  PROVE  IInv'
  <1>1. Types /\ Thieving /\ ViewsTyped
    BY DEF IInv
  <1>2. UNCHANGED <<top, mem, stores, pushed, owner, runs>> /\ thief[h].at = "bottom"
    BY DEF StealBuffer
  <1>3. /\ thief[h] \in [at : {"idle", "top", "bottom", "buffer", "copied"}, t : Nat, buf : Nat, item : Values]
        /\ thief \in [Thieves -> [at : {"idle", "top", "bottom", "buffer", "copied"}, t : Nat, buf : Nat, item : Values]]
        /\ thief[h].t <= top /\ thief[h].buf <= Current /\ top \in Nat
    BY <1>1 DEF Types, Thieving
  <1>4. 0 \in Views /\ \A n \in Views : 0 <= n
    <2>1. Len(stores) \in Nat
      BY <1>1 DEF Types
    <2>2. QED
      BY <2>1 DEF Views
  <1>5. PICK k : k = mem[Buffer]
    OBVIOUS
  <1>6. View(0, Buffer) = k
    BY <1>5, AfterZero, Viewed
  <1>7. k \in Nat /\ k <= Current
    <2>1. k \in 0 .. Current /\ Current \in Int
      BY <1>1, <1>4, <1>6, Ranges DEF ViewsTyped
    <2>2. QED
      BY <2>1
  <1>8. PICK r : r = [thief[h] EXCEPT !.at = "buffer", !.buf = k]
    OBVIOUS
  <1>9. thief' = [thief EXCEPT ![h] = r]
    BY <1>5, <1>8 DEF StealBuffer
  <1>10. /\ r \in [at : {"idle", "top", "bottom", "buffer", "copied"}, t : Nat, buf : Nat, item : Values]
         /\ r.at = "buffer" /\ r.t = thief[h].t /\ r.buf = k
    BY <1>3, <1>7, <1>8
  <1>11. thief'[h] = r
    BY <1>3, <1>9
  <1>12. ASSUME r.t = top PROVE top < End /\ OnItsWay(h)'
    <2>1. top < End /\ OnItsWay(h)
      BY <1>1, <1>2, <1>10, <1>12 DEF Thieving
    <2>2. ASSUME k # Null, NEW m \in Views PROVE View(m, Slot(k, top)) = Item(top)
      BY <1>2, <1>4, <1>6, <2>1, <2>2 DEF OnItsWay
    <2>3. ASSUME k # Null, NEW m \in Views' PROVE View(m, Slot(thief[h].buf, top))' = Item(top)'
      <3>1. m \in Views /\ Item(top)' = Item(top)
        BY <1>2, Still
      <3>2. View(m, Slot(thief[h].buf, top))' = View(m, Slot(k, top))
        BY <1>2, <1>10, <1>11 DEF View, Slot
      <3>3. QED
        BY <2>2, <2>3, <3>1, <3>2
    <2>4. thief'[h].at = "buffer" /\ thief'[h].buf = k
      BY <1>10, <1>11
    <2>5. OnItsWay(h)'
      BY <2>3, <2>4 DEF OnItsWay
    <2>6. QED
      BY <2>1, <2>5
  <1>13. QED
    BY <1>2, <1>3, <1>7, <1>9, <1>10, <1>12, ThiefIInv

\* A thief copies what is in the slot.
LEMMA StealCopyIInv ==
  ASSUME IInv, NEW h \in Thieves, StealCopy(h)
  PROVE  IInv'
  <1>1. Types /\ Thieving /\ ViewsTyped
    BY DEF IInv
  <1>2. UNCHANGED <<top, mem, stores, pushed, owner, runs>> /\ thief[h].at = "buffer" /\ thief[h].buf # Null
    BY DEF StealCopy
  <1>3. /\ thief[h] \in [at : {"idle", "top", "bottom", "buffer", "copied"}, t : Nat, buf : Nat, item : Values]
        /\ thief \in [Thieves -> [at : {"idle", "top", "bottom", "buffer", "copied"}, t : Nat, buf : Nat, item : Values]]
        /\ thief[h].t <= top /\ thief[h].buf <= Current /\ top \in Nat
    BY <1>1 DEF Types, Thieving
  <1>4. 0 \in Views
    <2>1. Len(stores) \in Nat
      BY <1>1 DEF Types
    <2>2. QED
      BY <2>1 DEF Views
  <1>5. PICK l : l = Slot(thief[h].buf, thief[h].t)
    OBVIOUS
  <1>6. l \in Slots
    <2>1. thief[h].buf \in 1 .. NumBuffers
      BY <1>2, <1>3, Ranges DEF Null
    <2>2. thief[h].t \in Int
      BY <1>3
    <2>3. QED
      BY <1>5, <2>1, <2>2, SlotPlace
  <1>7. View(0, l) = mem[l] /\ mem[l] \in Values
    <2>1. View(0, l) = mem[l]
      BY AfterZero, Viewed
    <2>2. QED
      BY <1>1, <1>4, <1>6, <2>1 DEF ViewsTyped
  <1>8. PICK r : r = [thief[h] EXCEPT !.at = "copied", !.item = mem[l]]
    OBVIOUS
  <1>9. thief' = [thief EXCEPT ![h] = r]
    BY <1>5, <1>8 DEF StealCopy
  <1>10. /\ r \in [at : {"idle", "top", "bottom", "buffer", "copied"}, t : Nat, buf : Nat, item : Values]
         /\ r.at = "copied" /\ r.t = thief[h].t /\ r.buf = thief[h].buf /\ r.item = mem[l]
    BY <1>3, <1>7, <1>8
  <1>11. thief'[h] = r
    BY <1>3, <1>9
  <1>12. ASSUME r.t = top PROVE top < End /\ OnItsWay(h)'
    <2>1. top < End /\ OnItsWay(h)
      BY <1>1, <1>2, <1>10, <1>12 DEF Thieving
    <2>2. thief[h].t = top
      BY <1>10, <1>12
    <2>3. View(0, l) = Item(top)
      BY <1>2, <1>4, <1>5, <2>1, <2>2 DEF OnItsWay
    <2>4. Item(top)' = Item(top)
      BY <1>2, Still
    <2>5. thief'[h].at = "copied" /\ thief'[h].item = Item(top)'
      BY <1>7, <1>10, <1>11, <2>3, <2>4
    <2>6. OnItsWay(h)'
      BY <2>5 DEF OnItsWay
    <2>7. QED
      BY <2>1, <2>6
  <1>13. QED
    BY <1>2, <1>3, <1>9, <1>10, <1>12, ThiefIInv

\* A thief that wins the race hands out the oldest task.
LEMMA StealWins ==
  ASSUME IInv, NEW h \in Thieves, StealRace(h), top = thief[h].t
  PROVE  top < End /\ top' = top + 1 /\ Hand(Item(top))
  <1>1. Types /\ Thieving
    BY DEF IInv
  <1>2. thief[h].at = "copied" /\ top' = top + 1 /\ Hand(thief[h].item)
    BY DEF StealRace
  <1>3. top < End /\ OnItsWay(h)
    BY <1>1, <1>2 DEF Thieving
  <1>4. thief[h].item = Item(top)
    BY <1>2, <1>3 DEF OnItsWay
  <1>5. QED
    BY <1>2, <1>3, <1>4

LEMMA StealRaceIInv ==
  ASSUME IInv, NEW h \in Thieves, StealRace(h)
  PROVE  IInv'
  <1>1. Types /\ ViewsTyped /\ Window /\ Claimed /\ Published /\ Thieving /\ Handed
    BY DEF IInv
  <1>2. UNCHANGED <<mem, stores, pushed, owner>> /\ thief' = [thief EXCEPT ![h] = ThiefIdle]
    BY DEF StealRace
  <1>3. /\ thief \in [Thieves -> [at : {"idle", "top", "bottom", "buffer", "copied"}, t : Nat, buf : Nat, item : Values]]
        /\ top \in Nat
    BY <1>1 DEF Types
  <1>4. PICK r : r = ThiefIdle
    OBVIOUS
  <1>5. /\ r \in [at : {"idle", "top", "bottom", "buffer", "copied"}, t : Nat, buf : Nat, item : Values]
        /\ r.at = "idle" /\ r.t = 0 /\ r.buf = 0
    BY <1>4 DEF ThiefIdle, Values, Empty, Null
  <1>6. /\ thief' \in [Thieves -> [at : {"idle", "top", "bottom", "buffer", "copied"}, t : Nat, buf : Nat, item : Values]]
        /\ thief'[h] = r /\ \A g \in Thieves \ {h} : thief'[g] = thief[g]
    BY <1>2, <1>3, <1>4, <1>5
  <1>7. CASE top # thief[h].t
    <2>1. UNCHANGED <<top, runs>>
      BY <1>7 DEF StealRace
    <2>2. r.t <= top /\ r.buf <= Current
      BY <1>3, <1>5, Ranges
    <2>3. ~ (r.at \in {"bottom", "buffer", "copied"})
      BY <1>5
    <2>4. QED
      BY <1>2, <1>4, <1>5, <2>1, <2>2, <2>3, ThiefIInv
  <1>8. CASE top = thief[h].t
    <2>1. top < End /\ top' = top + 1 /\ Hand(Item(top))
      BY <1>8, StealWins
    <2>2. /\ runs' \in [Values -> 0 .. 1]
          /\ \A j \in top .. End - 1 : j # top => runs'[Item(j)] = 0
          /\ \A v \in Values : runs'[v] # 0 => v \in 1 .. pushed
      <3>1. top \in Int /\ top <= top
        BY <1>3
      <3>2. QED
        BY <2>1, <3>1, HandIsNew
    <2>3. PICK f : f = [n \in Views' |-> n]
      OBVIOUS
    <2>4. /\ Moves(f) /\ Seen(Bottom)' = Seen(Bottom)
          /\ Views' = Views /\ \A n \in Views' : f[n] = n /\ View(n, Bottom)' = View(f[n], Bottom)
      BY <1>2, <2>3, StillMoves
    <2>5. /\ End' = End /\ Current' = Current
          /\ \A n \in Views' : f[n] \in Views
          /\ \A i \in Int : Item(i)' = Item(i)
      BY <1>2, <2>4 DEF End, Moves
    <2>6. End \in Int /\ End <= pushed /\ pushed \in Nat /\ Current \in 1 .. NumBuffers /\ Current \in Nat
      BY Ranges
    <2>7. Types'
      <3>1. top' \in Nat
        BY <1>3, <2>1
      <3>2. QED
        BY <1>1, <1>2, <1>6, <2>2, <3>1 DEF Types
    <2>8. ViewsTyped'
      <3>1. \A n \in Views' : View(n, Bottom)' \in -1 .. End'
        BY <1>1, <2>4, <2>5 DEF ViewsTyped
      <3>2. QED
        BY <2>4, <3>1, SlotsTyped DEF ViewsTyped
    <2>9. Window'
      <3>1. Cap[Current] \in Nat
        BY <2>6, CapDoubles
      <3>2. End - top <= Cap[Current]
        BY <1>1 DEF Window
      <3>3. End \in top' .. pushed /\ End - top' <= Cap[Current]
        BY <1>3, <2>1, <2>6, <3>1, <3>2
      <3>4. QED
        BY <1>2, <2>5, <2>6, <3>3 DEF Window
    <2>10. Claimed'
      <3>1. owner.b \in Int
        BY <1>1 DEF Types
      <3>2. owner.at = "last" => owner.b <= top'
        BY <1>1, <1>3, <2>1, <3>1 DEF Claimed
      <3>3. QED
        BY <1>1, <1>2, <2>4, <3>2 DEF Claimed
    <2>11. Published'
      <3>1. top \in Int /\ top' \in Int /\ top <= top'
        BY <1>3, <2>1
      <3>2. \A n \in Views' : \A i \in Nat : top' <= i /\ i < View(n, Bottom)' => i < View(f[n], Bottom)
        BY <2>4
      <3>3. QED
        BY <2>4, <3>1, <3>2, PublishedKept
    <2>12. Thieving'
      <3>1. ASSUME NEW g \in Thieves
            PROVE  /\ thief'[g].t <= top' /\ thief'[g].buf <= Current'
                   /\ thief'[g].t = top' /\ thief'[g].at \in {"bottom", "buffer", "copied"} => top' < End' /\ OnItsWay(g)'
        <4>1. CASE g = h
          BY <1>3, <1>5, <1>6, <2>1, <2>5, <2>6, <4>1
        <4>2. CASE g # h
          <5>1. PICK H : H = Thieves \ {h}
            OBVIOUS
          <5>2. H \in SUBSET Thieves /\ g \in H /\ \A j \in H : thief'[j] = thief[j]
            BY <1>6, <4>2, <5>1
          <5>3. top' \in {top, top + 1} /\ (top' = top /\ top < End => top' < End')
            BY <2>1, <2>5
          <5>4. QED
            BY <2>4, <5>2, <5>3, ThievingKept
        <4>3. QED
          BY <4>1, <4>2
      <3>2. QED
        BY <3>1 DEF Thieving
    <2>13. Handed'
      <3>1. \A i \in top' .. End - 1 : i \in top .. End - 1 /\ i # top /\ Item(i)' = Item(i)
        BY <1>3, <2>1, <2>5, <2>6
      <3>2. \A i \in top' .. End - 1 : Item(i)' \in 1 .. pushed /\ runs'[Item(i)'] = 0
        BY <1>1, <2>2, <3>1 DEF Handed
      <3>3. \A i, j \in top' .. End - 1 : Item(i)' = Item(j)' => i = j
        BY <1>1, <3>1 DEF Handed
      <3>4. QED
        BY <1>2, <2>2, <2>5, <3>2, <3>3 DEF Handed
    <2>14. QED
      BY <2>7, <2>8, <2>9, <2>10, <2>11, <2>12, <2>13 DEF IInv
  <1>9. QED
    BY <1>7, <1>8

-----------------------------------------------------------------------------
(* push(). *)

\* What push() stores: c copies and the new buffer k2, up to the store q, if there is no
\* room; then the task and the bottom.
Described(ws, k2, c, q) ==
    /\ c \in Nat /\ q \in Nat /\ c <= q /\ Len(ws) = q + 3
    /\ \A x \in 1 .. c : ws[x] = Write(Slot(k2, top + x - 1), Item(top + x - 1))
    /\ \A x \in c + 1 .. q : ws[x] = Write(Buffer, IF x = q THEN k2 ELSE Null)
    /\ ws[q + 1] = Write(Slot(k2, End), Torn) /\ ws[q + 2] = Write(Slot(k2, End), pushed + 1)
    /\ ws[q + 3] = Write(Bottom, End + 1)
    /\ k2 \in 1 .. NumBuffers /\ End + 1 - top <= Cap[k2]
    /\ \/ k2 = Current /\ c = 0 /\ q = 0
       \/ k2 = Current + 1 /\ c = End - top /\ c < q

\* The three stores of a push that does not grow the buffer.
LEMMA Three ==
  ASSUME NEW S, NEW x \in S, NEW y \in S, NEW z \in S
  PROVE  /\ <<x, y>> \o <<z>> \in Seq(S) /\ Len(<<x, y>> \o <<z>>) = 3
         /\ (<<x, y>> \o <<z>>)[1] = x /\ (<<x, y>> \o <<z>>)[2] = y /\ (<<x, y>> \o <<z>>)[3] = z
  <1>1. <<x, y>> \in Seq(S) /\ <<z>> \in Seq(S) /\ Len(<<x, y>>) = 2 /\ Len(<<z>>) = 1
    OBVIOUS
  <1>2. PICK s, t : s = <<x, y>> /\ t = <<z>>
    OBVIOUS
  <1>3. /\ s \o t \in Seq(S) /\ Len(s \o t) = Len(s) + Len(t)
        /\ \A i \in 1 .. Len(s) + Len(t) : (s \o t)[i] = IF i <= Len(s) THEN s[i] ELSE t[i - Len(s)]
    BY <1>1, <1>2, ConcatProperties
  <1>4. Len(s) + Len(t) = 3
    BY <1>1, <1>2
  <1>5. (s \o t)[1] = s[1] /\ (s \o t)[2] = s[2] /\ (s \o t)[3] = t[1]
    BY <1>1, <1>2, <1>3, <1>4
  <1>6. s[1] = x /\ s[2] = y /\ t[1] = z
    BY <1>2
  <1>7. QED
    BY <1>2, <1>3, <1>4, <1>5, <1>6

\* The stores of a growing push: those of grow() come first.
LEMMA Joined ==
  ASSUME NEW S, NEW g \in Seq(S), NEW s \in Seq(S), NEW r, r = g \o s
  PROVE  /\ r \in Seq(S) /\ Len(g) \in Nat /\ Len(s) \in Nat /\ Len(r) = Len(g) + Len(s)
         /\ \A x \in 1 .. Len(g) : r[x] = g[x]
         /\ \A x \in 1 .. Len(s) : r[Len(g) + x] = s[x]
  <1>1. /\ r \in Seq(S) /\ Len(r) = Len(g) + Len(s)
        /\ \A i \in 1 .. Len(g) + Len(s) : r[i] = IF i <= Len(g) THEN g[i] ELSE s[i - Len(g)]
    BY ConcatProperties
  <1>2. Len(g) \in Nat /\ Len(s) \in Nat
    OBVIOUS
  <1>3. ASSUME NEW x \in 1 .. Len(g) PROVE r[x] = g[x]
    BY <1>1, <1>2
  <1>4. ASSUME NEW x \in 1 .. Len(s) PROVE r[Len(g) + x] = s[x]
    <2>1. Len(g) + x \in 1 .. Len(g) + Len(s) /\ ~ (Len(g) + x <= Len(g)) /\ (Len(g) + x) - Len(g) = x
      BY <1>2
    <2>2. QED
      BY <1>1, <2>1
  <1>5. QED
    BY <1>1, <1>2, <1>3, <1>4

LEMMA JoinAgain ==
  ASSUME NEW S, NEW g \in Seq(S), NEW s \in Seq(S), NEW t \in Seq(S)
  PROVE  (g \o s) \o t = g \o (s \o t)
  OBVIOUS

\* What grow() stores: c copies, in some builds a null, and the new buffer.
GrownTo(g, k, c, q) ==
    /\ q \in Nat /\ c \in Nat /\ c < q /\ Len(g) = q /\ g \in Seq([at : Locations, val : Int])
    /\ k + 1 \in 1 .. NumBuffers /\ End + 1 - top <= Cap[k + 1]
    /\ \A x \in 1 .. c : g[x] = Write(Slot(k + 1, top + x - 1), Item(top + x - 1))
    /\ \A x \in c + 1 .. q : g[x] = Write(Buffer, IF x = q THEN k + 1 ELSE Null)

LEMMA Grown ==
  ASSUME IInv, owner.at = "idle", pushed < MaxPush, NEW k, k = Current, Full(End, top, k),
         NEW g, g = Grow(k, End, top), NEW c, c = End - top
  PROVE  \E q : GrownTo(g, k, c, q)
  <1> DEFINE S == [at : Locations, val : Int]
  <1>1. k = Current
    OBVIOUS
  <1>2. /\ top \in Nat /\ End \in Int /\ top <= End /\ End <= pushed /\ pushed \in Nat /\ MaxPush \in Nat
        /\ k \in 1 .. NumBuffers /\ NumBuffers \in Nat /\ k \in Nat
    BY <1>1, Ranges
  <1>3. Cap[k] \in Nat \ {0} /\ Cap[k + 1] = 2 * Cap[k] /\ c <= Cap[k] /\ c >= Cap[k]
    <2>1. k \in Nat \ {0}
      BY <1>2
    <2>2. Cap[k] \in Nat \ {0} /\ Cap[k + 1] = 2 * Cap[k]
      BY <2>1, <1>2, CapDoubles
    <2>3. c <= Cap[k]
      BY <1>1 DEF IInv, Window
    <2>4. c >= Cap[k]
      BY <1>1 DEF Full
    <2>5. QED
      BY <2>2, <2>3, <2>4
  <1>4. k + 1 \in 1 .. NumBuffers
    <2>1. Cap[NumBuffers] >= MaxPush
      BY DequeAssumption
    <2>2. k # NumBuffers
      <3>1. Cap[k] <= pushed
        BY <1>2, <1>3
      <3>2. ASSUME k = NumBuffers PROVE FALSE
        <4>1. Cap[k] >= MaxPush
          BY <2>1, <3>2
        <4>2. QED
          BY <1>2, <1>3, <3>1, <4>1
      <3>3. QED
        BY <3>2
    <2>3. QED
      BY <1>2, <2>2
  <1>5. c \in Nat /\ End + 1 - top <= Cap[k + 1]
    BY <1>2, <1>3
  <1> DEFINE copy(x) == Write(Slot(k + 1, top + x - 1), Item(top + x - 1))
  <1>6. PICK g1 : g1 = [x \in 1 .. c |-> copy(x)]
    OBVIOUS
  <1>7. PICK g2 : g2 = IF NullWindow THEN <<Write(Buffer, Null)>> ELSE <<>>
    OBVIOUS
  <1>8. PICK g3 : g3 = <<Write(Buffer, k + 1)>>
    OBVIOUS
  <1>9. g = (g1 \o g2) \o g3
    BY <1>1, <1>6, <1>7, <1>8 DEF Grow, Item, Current
  <1>10. g1 \in Seq(S) /\ Len(g1) = c /\ \A x \in 1 .. c : g1[x] = copy(x)
    <2>1. ASSUME NEW x \in 1 .. c PROVE copy(x) \in S
      <3>1. top + x - 1 \in Int /\ top <= top + x - 1 /\ top + x - 1 < End
        BY <1>2, <1>5
      <3>2. Slot(k + 1, top + x - 1) \in Locations
        BY <1>4, <3>1, SlotPlace, Places
      <3>3. Item(top + x - 1) \in Int
        BY <3>1, ItemsTyped
      <3>4. QED
        BY <3>2, <3>3 DEF Write
    <2> HIDE DEF copy, S
    <2>2. g1 \in [1 .. c -> S]
      BY <1>6, <2>1
    <2>3. g1 \in Seq(S) /\ Len(g1) = c
      BY <1>5, <2>2
    <2>4. QED
      BY <1>6, <2>3
  <1>11. PICK e : e = Len(g2)
    OBVIOUS
  <1>12. g2 \in Seq(S) /\ e \in {0, 1} /\ \A x \in 1 .. e : g2[x] = Write(Buffer, Null)
    <2>1. Write(Buffer, Null) \in S
      BY Places DEF Write, Null
    <2> HIDE DEF S
    <2>2. CASE NullWindow
      BY <1>7, <1>11, <2>1, <2>2
    <2>3. CASE ~ NullWindow
      BY <1>7, <1>11, <2>3
    <2>4. QED
      BY <2>2, <2>3
  <1>13. g3 \in Seq(S) /\ Len(g3) = 1 /\ g3[1] = Write(Buffer, k + 1)
    <2>1. Write(Buffer, k + 1) \in S
      BY <1>2, Places DEF Write
    <2> HIDE DEF S
    <2>2. QED
      BY <1>8, <2>1
  <1>14. PICK a : a = g1 \o g2
    OBVIOUS
  <1>15. /\ a \in Seq(S) /\ Len(a) = c + e
         /\ \A x \in 1 .. c : a[x] = copy(x)
         /\ \A x \in 1 .. e : a[c + x] = Write(Buffer, Null)
    <2> HIDE DEF S, copy
    <2>1. g1 \in Seq(S) /\ g2 \in Seq(S)
      BY <1>10, <1>12
    <2>2. /\ a \in Seq(S) /\ Len(a) = Len(g1) + Len(g2)
          /\ \A x \in 1 .. Len(g1) : a[x] = g1[x]
          /\ \A x \in 1 .. Len(g2) : a[Len(g1) + x] = g2[x]
      BY <1>14, <2>1, Joined
    <2>3. QED
      BY <1>10, <1>11, <1>12, <2>2
  <1>16. PICK q : q = c + e + 1
    OBVIOUS
  <1>17. q \in Nat /\ c < q /\ c + e = q - 1 /\ q \in Int
    BY <1>5, <1>12, <1>16, SMTT(60)
  <1>18. /\ g \in Seq(S) /\ Len(g) = q
         /\ \A x \in 1 .. q - 1 : g[x] = a[x]
         /\ g[q] = Write(Buffer, k + 1)
    <2> HIDE DEF S, copy
    <2>0. g = a \o g3 /\ a \in Seq(S) /\ g3 \in Seq(S)
      BY <1>9, <1>13, <1>14, <1>15
    <2>1. /\ g \in Seq(S) /\ Len(g) = Len(a) + Len(g3)
          /\ \A x \in 1 .. Len(a) : g[x] = a[x]
          /\ \A x \in 1 .. Len(g3) : g[Len(a) + x] = g3[x]
      BY <2>0, Joined
    <2>2. Len(a) = q - 1 /\ Len(g3) = 1 /\ Len(a) + 1 = q
      BY <1>13, <1>15, <1>17
    <2>3. g[Len(a) + 1] = g3[1]
      BY <2>1, <2>2
    <2>4. QED
      BY <1>13, <2>1, <2>2, <2>3
  <1>19. \A x \in 1 .. c : g[x] = copy(x)
    <2> HIDE DEF copy
    <2>1. \A x \in 1 .. c : x \in 1 .. q - 1
      BY <1>5, <1>17
    <2>2. QED
      BY <1>15, <1>18, <2>1
  <1>20. ASSUME NEW x \in c + 1 .. q PROVE g[x] = Write(Buffer, IF x = q THEN k + 1 ELSE Null)
    <2>1. CASE x = q
      BY <1>18, <2>1
    <2>2. CASE x # q
      <3>1. x - c \in 1 .. e /\ c + (x - c) = x /\ x \in 1 .. q - 1
        BY <1>5, <1>12, <1>16, <2>2, SMTT(60)
      <3>2. a[x] = Write(Buffer, Null)
        BY <1>15, <3>1
      <3>3. QED
        BY <1>18, <2>2, <3>1, <3>2
    <2>3. QED
      BY <2>1, <2>2
  <1>21. QED
    BY <1>1, <1>4, <1>5, <1>17, <1>18, <1>19, <1>20 DEF GrownTo

\* The code of push() and grow() stores what is described.
LEMMA PushStores ==
  ASSUME IInv, Push
  PROVE  \E ws, k2, c, q : Appends(ws) /\ Described(ws, k2, c, q)
  <1> DEFINE S == [at : Locations, val : Int]
  <1>1. PICK k : k = Current
    OBVIOUS
  <1>2. owner.at = "idle" /\ pushed < MaxPush /\ mem' = mem /\ Seen(Bottom) = End /\ Seen(Buffer) = k
    BY <1>1, Ranges DEF Push, Current
  <1>3. /\ top \in Nat /\ End \in Int /\ top <= End /\ End <= pushed /\ pushed \in Nat /\ MaxPush \in Nat
        /\ k \in 1 .. NumBuffers /\ k \in Nat
    BY <1>1, Ranges
  <1>4. PICK k2 : k2 = IF Full(End, top, k) THEN k + 1 ELSE k
    OBVIOUS
  <1>5. PICK s : s = Assign(k2, End, pushed + 1) \o <<Write(Bottom, End + 1)>>
    OBVIOUS
  <1>6. ASSUME k2 \in 1 .. NumBuffers
        PROVE  /\ s \in Seq(S) /\ Len(s) = 3
               /\ s[1] = Write(Slot(k2, End), Torn) /\ s[2] = Write(Slot(k2, End), pushed + 1)
               /\ s[3] = Write(Bottom, End + 1)
               /\ Assign(k2, End, pushed + 1) \in Seq(S) /\ <<Write(Bottom, End + 1)>> \in Seq(S)
    <2>1. Slot(k2, End) \in Locations /\ Bottom \in Locations
      BY <1>3, <1>6, SlotPlace, Places
    <2>2. PICK x, y, z : x = Write(Slot(k2, End), Torn) /\ y = Write(Slot(k2, End), pushed + 1) /\ z = Write(Bottom, End + 1)
      OBVIOUS
    <2>3. x \in S /\ y \in S /\ z \in S
      BY <1>3, <2>1, <2>2 DEF Write, Torn
    <2>4. Assign(k2, End, pushed + 1) = <<x, y>>
      BY <2>2 DEF Assign
    <2>5. s = <<x, y>> \o <<z>>
      BY <1>5, <2>2, <2>4
    <2> HIDE DEF S
    <2>6. /\ s \in Seq(S) /\ Len(s) = 3 /\ s[1] = x /\ s[2] = y /\ s[3] = z
      BY <2>3, <2>5, Three
    <2>7. <<x, y>> \in Seq(S) /\ <<z>> \in Seq(S)
      BY <2>3
    <2>8. QED
      BY <2>2, <2>4, <2>6, <2>7
  <1>7. CASE ~ Full(End, top, k)
    <2>1. stores' = stores \o (<<>> \o Assign(k, End, pushed + 1) \o <<Write(Bottom, End + 1)>>)
      BY <1>2, <1>7 DEF Push, Store
    <2>2. k2 = k
      BY <1>4, <1>7
    <2>3. /\ s \in Seq(S) /\ Len(s) = 3
          /\ s[1] = Write(Slot(k2, End), Torn) /\ s[2] = Write(Slot(k2, End), pushed + 1)
          /\ s[3] = Write(Bottom, End + 1)
          /\ Assign(k2, End, pushed + 1) \in Seq(S)
      BY <1>3, <1>6, <2>2
    <2>4. <<>> \o Assign(k, End, pushed + 1) = Assign(k, End, pushed + 1)
      BY <2>2, <2>3
    <2>5. stores' = stores \o s
      BY <1>5, <2>1, <2>2, <2>4
    <2>6. Appends(s)
      BY <1>2, <2>3, <2>5 DEF Appends
    <2>7. End + 1 - top <= Cap[k]
      <3>1. Cap[k] \in Nat
        BY <1>3, CapDoubles
      <3>2. QED
        BY <1>3, <1>7, <3>1 DEF Full
    <2>8. Described(s, k2, 0, 0)
      BY <1>1, <1>3, <2>2, <2>3, <2>7 DEF Described
    <2>9. QED
      BY <2>6, <2>8
  <1>8. CASE Full(End, top, k)
    <2>1. PICK g, c : g = Grow(k, End, top) /\ c = End - top
      OBVIOUS
    <2>2. stores' = stores \o (g \o Assign(k + 1, End, pushed + 1) \o <<Write(Bottom, End + 1)>>)
      BY <1>2, <1>8, <2>1 DEF Push, Store
    <2>3. k2 = k + 1
      BY <1>4, <1>8
    <2>4. PICK q : GrownTo(g, k, c, q)
      BY <1>1, <1>2, <1>8, <2>1, Grown
    <2>g. /\ q \in Nat /\ c \in Nat /\ c < q /\ Len(g) = q /\ g \in Seq(S)
          /\ k + 1 \in 1 .. NumBuffers /\ End + 1 - top <= Cap[k + 1]
          /\ \A x \in 1 .. c : g[x] = Write(Slot(k + 1, top + x - 1), Item(top + x - 1))
          /\ \A x \in c + 1 .. q : g[x] = Write(Buffer, IF x = q THEN k + 1 ELSE Null)
      BY <2>4 DEF GrownTo
    <2>5. /\ s \in Seq(S) /\ Len(s) = 3
          /\ s[1] = Write(Slot(k2, End), Torn) /\ s[2] = Write(Slot(k2, End), pushed + 1)
          /\ s[3] = Write(Bottom, End + 1)
          /\ Assign(k2, End, pushed + 1) \in Seq(S) /\ <<Write(Bottom, End + 1)>> \in Seq(S)
      BY <1>6, <2>3, <2>g
    <2>6. PICK ws : ws = g \o s
      OBVIOUS
    <2>7. stores' = stores \o ws
      <3>1. (g \o Assign(k2, End, pushed + 1)) \o <<Write(Bottom, End + 1)>> = g \o s
        <4> HIDE DEF S
        <4>1. QED
          BY <1>5, <2>g, <2>5, JoinAgain, SMTT(60)
      <3>2. QED
        BY <2>2, <2>3, <2>6, <3>1
    <2>8. /\ ws \in Seq(S) /\ Len(ws) = q + 3
          /\ \A x \in 1 .. q : ws[x] = g[x]
          /\ \A x \in 1 .. 3 : ws[q + x] = s[x]
      <3> HIDE DEF S
      <3>1. g \in Seq(S) /\ s \in Seq(S)
        BY <2>g, <2>5
      <3>2. /\ ws \in Seq(S) /\ Len(ws) = Len(g) + Len(s)
            /\ \A x \in 1 .. Len(g) : ws[x] = g[x]
            /\ \A x \in 1 .. Len(s) : ws[Len(g) + x] = s[x]
        BY <2>6, <3>1, Joined
      <3>3. QED
        BY <2>g, <2>5, <3>2
    <2>9. Appends(ws)
      BY <1>2, <2>7, <2>8 DEF Appends
    <2>10. ws[q + 1] = s[1] /\ ws[q + 2] = s[2] /\ ws[q + 3] = s[3]
      BY <2>8
    <2>11. \A x \in 1 .. c : ws[x] = Write(Slot(k2, top + x - 1), Item(top + x - 1))
      <3>1. \A x \in 1 .. c : x \in 1 .. q
        BY <2>g
      <3>2. QED
        BY <2>3, <2>g, <2>8, <3>1
    <2>12. \A x \in c + 1 .. q : ws[x] = Write(Buffer, IF x = q THEN k2 ELSE Null)
      <3>1. \A x \in c + 1 .. q : x \in 1 .. q
        BY <2>g
      <3>2. QED
        BY <2>3, <2>g, <2>8, <3>1
    <2>13. Described(ws, k2, c, q)
      <3>1. c <= q
        BY <2>g
      <3>2. QED
        BY <1>1, <2>1, <2>3, <2>g, <2>5, <2>8, <2>10, <2>11, <2>12, <3>1 DEF Described
    <2>14. QED
      BY <2>9, <2>13
  <1>9. QED
    BY <1>7, <1>8

\* Where the stores of a push are, and what waits is not overwritten by them.
LEMMA PushPlaces ==
  ASSUME IInv, NEW ws, NEW k2, NEW c, NEW q, Described(ws, k2, c, q)
  PROVE  /\ \A x \in 1 .. q + 3 : \/ x \in 1 .. c
                                  \/ x \in c + 1 .. q
                                  \/ x \in q + 1 .. q + 2
                                  \/ x = q + 3
         /\ \A x \in 1 .. c : ws[x].at = Slot(k2, top + x - 1) /\ ws[x].val = Item(top + x - 1)
         /\ \A x \in c + 1 .. q : ws[x].at = Buffer /\ ws[x].val = IF x = q THEN k2 ELSE Null
         /\ \A x \in q + 1 .. q + 2 : ws[x].at = Slot(k2, End)
         /\ ws[q + 1].val = Torn /\ ws[q + 2].val = pushed + 1
         /\ ws[q + 3].at = Bottom /\ ws[q + 3].val = End + 1
  <1>1. c \in Nat /\ q \in Nat /\ c <= q
    BY DEF Described
  <1>2. \A x \in 1 .. q + 3 : \/ x \in 1 .. c
                              \/ x \in c + 1 .. q
                              \/ x \in q + 1 .. q + 2
                              \/ x = q + 3
    BY <1>1
  <1>w. \A l, v : Write(l, v).at = l /\ Write(l, v).val = v
    BY DEF Write
  <1>3. ASSUME NEW x \in 1 .. c
        PROVE  ws[x].at = Slot(k2, top + x - 1) /\ ws[x].val = Item(top + x - 1)
    <2>1. ws[x] = Write(Slot(k2, top + x - 1), Item(top + x - 1))
      BY DEF Described
    <2>2. QED
      BY <1>w, <2>1
  <1>4. ASSUME NEW x \in c + 1 .. q
        PROVE  ws[x].at = Buffer /\ ws[x].val = IF x = q THEN k2 ELSE Null
    <2>1. ws[x] = Write(Buffer, IF x = q THEN k2 ELSE Null)
      BY DEF Described
    <2>2. QED
      BY <1>w, <2>1
  <1>5. /\ ws[q + 1].at = Slot(k2, End) /\ ws[q + 1].val = Torn
        /\ ws[q + 2].at = Slot(k2, End) /\ ws[q + 2].val = pushed + 1
        /\ ws[q + 3].at = Bottom /\ ws[q + 3].val = End + 1
    BY DEF Described, Write
  <1>6. \A x \in q + 1 .. q + 2 : x = q + 1 \/ x = q + 2
    BY <1>1
  <1>7. QED
    BY <1>2, <1>3, <1>4, <1>5, <1>6

\* The slots of the tasks that wait, and of the new one, are different.
LEMMA PushSlots ==
  ASSUME IInv, NEW ws, NEW k2, NEW c, NEW q, Described(ws, k2, c, q),
         NEW i \in top .. End, NEW j \in top .. End, Slot(k2, i) = Slot(k2, j)
  PROVE  i = j
  <1>1. /\ top \in Nat /\ End \in Int /\ top <= End /\ k2 \in 1 .. NumBuffers /\ End + 1 - top <= Cap[k2]
        /\ NumBuffers \in Nat
    BY Ranges DEF Described
  <1>2. i \in Nat /\ j \in Nat
    BY <1>1
  <1>3. Cap[k2] \in Nat
    <2>1. k2 \in Nat
      BY <1>1
    <2>2. QED
      BY <2>1, CapDoubles
  <1>4. ~ (i < j)
    <2>1. ASSUME i < j PROVE FALSE
      <3>1. j < i + Cap[k2]
        BY <1>1, <1>2, <1>3
      <3>2. QED
        BY <1>1, <1>2, <2>1, <3>1, SlotsDiffer
    <2>2. QED
      BY <2>1
  <1>5. ~ (j < i)
    <2>1. ASSUME j < i PROVE FALSE
      <3>1. i < j + Cap[k2]
        BY <1>1, <1>2, <1>3
      <3>2. QED
        BY <1>1, <1>2, <2>1, <3>1, SlotsDiffer
    <2>2. QED
      BY <2>1
  <1>6. QED
    BY <1>2, <1>4, <1>5

\* What the views of a push show, from the last view N there was to the last there is, M.
Pushed(N, M, k2, e) ==
    /\ e = End
    /\ N \in Nat /\ M \in Nat /\ N < M /\ Views = 0 .. N /\ Views' = 0 .. M
    /\ stores' \in Seq([at : Locations, val : Int]) /\ Len(stores') = M
    /\ \A n \in 0 .. N : \A l : View(n, l)' = View(n, l)
    /\ \A n \in N .. M : \A j \in 1 .. Current : \A i \in top .. End - 1 : View(n, Slot(j, i))' = View(N, Slot(j, i))
    /\ \A n \in N .. M : \/ View(n, Buffer)' \in {Current, Null}
                         \/ /\ View(n, Buffer)' = k2
                            /\ \A m \in n .. M : \A i \in top .. End - 1 : View(m, Slot(k2, i))' = Item(i)
    /\ \A n \in N .. M - 1 : View(n, Bottom)' = End
    /\ View(M, Bottom)' = End + 1 /\ View(M, Buffer)' = k2
    /\ View(M, Slot(k2, e))' = pushed + 1
    /\ \A i \in top .. End - 1 : View(M, Slot(k2, i))' = Item(i)
    /\ \A n \in N .. M : \A l \in Slots : View(n, l)' \in Values
    /\ k2 \in Current .. NumBuffers /\ End + 1 - top <= Cap[k2]

LEMMA PushViews ==
  ASSUME IInv, Push
  PROVE  \E N, M, k2, e : Pushed(N, M, k2, e)
  <1>1. PICK ws, k2, c, q : Appends(ws) /\ Described(ws, k2, c, q)
    BY PushStores
  <1>2. PICK N : N = Len(stores)
    OBVIOUS
  <1>3. /\ c \in Nat /\ q \in Nat /\ c <= q /\ Len(ws) = q + 3
        /\ k2 \in 1 .. NumBuffers /\ End + 1 - top <= Cap[k2]
        /\ \/ k2 = Current /\ c = 0 /\ q = 0
           \/ k2 = Current + 1 /\ c = End - top /\ c < q
    BY <1>1 DEF Described
  <1>4. Types /\ ViewsTyped
    BY DEF IInv
  <1>5. N \in Nat /\ Len(stores') = N + (q + 3) /\ stores' \in Seq([at : Locations, val : Int])
    BY <1>1, <1>2, <1>3, <1>4, AppendViews
  <1>6. PICK M : M = N + (q + 3)
    OBVIOUS
  <1>7. M \in Nat /\ N < M /\ Views = 0 .. N /\ Views' = 0 .. M /\ M - N = q + 3
    BY <1>2, <1>3, <1>5, <1>6 DEF Views
  <1>8. /\ \A x \in 1 .. q + 3 : \/ x \in 1 .. c
                                 \/ x \in c + 1 .. q
                                 \/ x \in q + 1 .. q + 2
                                 \/ x = q + 3
        /\ \A x \in 1 .. c : ws[x].at = Slot(k2, top + x - 1) /\ ws[x].val = Item(top + x - 1)
        /\ \A x \in c + 1 .. q : ws[x].at = Buffer /\ ws[x].val = IF x = q THEN k2 ELSE Null
        /\ \A x \in q + 1 .. q + 2 : ws[x].at = Slot(k2, End)
        /\ ws[q + 1].val = Torn /\ ws[q + 2].val = pushed + 1
        /\ ws[q + 3].at = Bottom /\ ws[q + 3].val = End + 1
    BY <1>1, PushPlaces
  <1>9. ASSUME NEW i \in top .. End, NEW j \in top .. End, Slot(k2, i) = Slot(k2, j) PROVE i = j
    BY <1>1, <1>9, PushSlots
  <1>10. ASSUME NEW n \in N .. M, NEW l
         PROVE  /\ n - N \in 0 .. q + 3
                /\ \/ View(n, l)' = View(N, l) /\ \A x \in 1 .. n - N : ws[x].at # l
                   \/ \E m \in 1 .. n - N :
                        View(n, l)' = ws[m].val /\ ws[m].at = l /\ \A x \in m + 1 .. n - N : ws[x].at # l
    <2>1. n \in N .. N + Len(ws) /\ n - N \in 0 .. q + 3
      BY <1>3, <1>5, <1>6
    <2>2. Types /\ Appends(ws) /\ N = Len(stores)
      BY <1>1, <1>2, <1>4
    <2>3. \/ View(n, l)' = View(N, l) /\ \A x \in 1 .. n - N : ws[x].at # l
          \/ \E m \in 1 .. n - N :
               View(n, l)' = ws[m].val /\ ws[m].at = l /\ \A x \in m + 1 .. n - N : ws[x].at # l
      <3>1. n \in N .. N + Len(ws)
        BY <2>1
      <3>2. QED
        BY <2>2, <3>1, Appended, SMTT(90)
    <2>4. QED
      BY <2>1, <2>3
  <1>11. /\ owner.at = "idle" /\ pushed < MaxPush
         /\ top \in Nat /\ End \in Int /\ top <= End /\ End <= pushed /\ pushed \in Nat /\ MaxPush \in Nat
         /\ Current \in 1 .. NumBuffers /\ NumBuffers \in Nat /\ Current \in Nat
         /\ View(N, Bottom) = End /\ View(N, Buffer) = Current
    <2>1. View(N, Bottom) = Seen(Bottom) /\ View(N, Buffer) = Current
      BY <1>2, SeenIs DEF Current
    <2>2. owner.at = "idle" /\ pushed < MaxPush
      BY DEF Push
    <2>3. Seen(Bottom) = End
      BY <2>2, Ranges
    <2>4. QED
      BY <2>1, <2>2, <2>3, Ranges
  <1>12. ASSUME NEW n \in 0 .. N, NEW l PROVE View(n, l)' = View(n, l)
    BY <1>1, <1>4, <1>7, OldView
  <1>13. ASSUME NEW n \in N .. M, NEW j \in 1 .. Current, NEW i \in top .. End - 1
         PROVE  View(n, Slot(j, i))' = View(N, Slot(j, i))
    <2>1. ASSUME NEW x \in 1 .. q + 3 PROVE ws[x].at # Slot(j, i)
      <3>1. CASE x \in 1 .. c
        <4>1. k2 # j
          BY <1>3, <1>11, <3>1
        <4>2. QED
          BY <1>8, <3>1, <4>1, Places
      <3>2. CASE x \in c + 1 .. q
        BY <1>8, <3>2, Places
      <3>3. CASE x \in q + 1 .. q + 2
        <4>1. ws[x].at = Slot(k2, End)
          BY <1>8, <3>3
        <4>2. CASE j = k2
          <5>1. i \in top .. End /\ End \in top .. End /\ i # End
            BY <1>11
          <5>2. Slot(k2, i) # Slot(k2, End)
            BY <1>9, <5>1
          <5>3. QED
            BY <4>1, <4>2, <5>2
        <4>3. CASE j # k2
          BY <4>1, <4>3, Places
        <4>4. QED
          BY <4>2, <4>3
      <3>4. CASE x = q + 3
        BY <1>8, <3>4, Places
      <3>5. QED
        BY <1>8, <3>1, <3>2, <3>3, <3>4
    <2>2. PICK l : l = Slot(j, i)
      OBVIOUS
    <2>3. \A m \in 1 .. n - N : ws[m].at # l
      <3>1. n - N \in 0 .. q + 3
        BY <1>10
      <3>2. \A m \in 1 .. n - N : m \in 1 .. q + 3
        BY <1>3, <3>1
      <3>3. QED
        BY <2>1, <2>2, <3>2
    <2>4. View(n, l)' = View(N, l)
      BY <1>10, <2>3
    <2>5. QED
      BY <2>2, <2>4 DEF View
  <1>14. ASSUME k2 # Current, NEW n \in N .. M, c <= n - N, NEW i \in top .. End - 1
         PROVE  View(n, Slot(k2, i))' = Item(i)
    <2>1. PICK l : l = Slot(k2, i)
      OBVIOUS
    <2>2. PICK x : x = i - top + 1
      OBVIOUS
    <2>3. x \in 1 .. c /\ top + x - 1 = i /\ x \in 1 .. n - N /\ n - N \in 0 .. q + 3 /\ i \in top .. End
      BY <1>3, <1>10, <1>11, <1>14, <2>2
    <2>4. ws[x].at = l
      BY <1>8, <2>1, <2>3
    <2>5. PICK m \in 1 .. n - N : View(n, l)' = ws[m].val /\ ws[m].at = l
      BY <1>10, <2>3, <2>4
    <2>6. m \in 1 .. q + 3
      BY <1>3, <2>3
    <2>7. CASE m \in 1 .. c
      <3>1. PICK y : y = top + m - 1
        OBVIOUS
      <3>2. y \in top .. End /\ y \in Int
        BY <1>3, <1>11, <1>14, <2>7, <3>1
      <3>3. ws[m].at = Slot(k2, y) /\ ws[m].val = Item(y)
        BY <1>8, <2>7, <3>1
      <3>4. y = i
        BY <1>9, <2>1, <2>3, <2>5, <3>2, <3>3
      <3>5. QED
        BY <2>1, <2>5, <3>3, <3>4 DEF View
    <2>8. CASE m \in c + 1 .. q
      BY <1>8, <2>1, <2>5, <2>8, Places
    <2>9. CASE m \in q + 1 .. q + 2
      <3>1. End \in top .. End /\ i # End
        BY <1>11
      <3>2. Slot(k2, i) # Slot(k2, End)
        BY <1>9, <2>3, <3>1
      <3>3. QED
        BY <1>8, <2>1, <2>5, <2>9, <3>2
    <2>10. CASE m = q + 3
      BY <1>8, <2>1, <2>5, <2>10, Places
    <2>11. QED
      BY <1>8, <2>6, <2>7, <2>8, <2>9, <2>10
  <1>15. ASSUME NEW m \in 1 .. q + 3, ws[m].at = Buffer
         PROVE  m \in c + 1 .. q /\ ws[m].val = (IF m = q THEN k2 ELSE Null)
    <2>1. ~ (m \in 1 .. c)
      BY <1>8, <1>15, Places
    <2>2. ~ (m \in q + 1 .. q + 2)
      BY <1>8, <1>15, Places
    <2>3. m # q + 3
      BY <1>8, <1>15, Places
    <2>4. QED
      BY <1>8, <2>1, <2>2, <2>3
  <1>16. ASSUME NEW n \in N .. M
         PROVE  \/ View(n, Buffer)' \in {Current, Null}
                \/ /\ View(n, Buffer)' = k2
                   /\ \A m \in n .. M : \A i \in top .. End - 1 : View(m, Slot(k2, i))' = Item(i)
    <2>1. CASE View(n, Buffer)' = View(N, Buffer)
      BY <1>11, <2>1
    <2>2. CASE View(n, Buffer)' # View(N, Buffer)
      <3>1. PICK m \in 1 .. n - N : View(n, Buffer)' = ws[m].val /\ ws[m].at = Buffer
        BY <1>10, <2>2
      <3>2. m \in 1 .. q + 3 /\ n - N \in 0 .. q + 3
        <4>1. n - N \in 0 .. q + 3
          BY <1>10
        <4>2. QED
          BY <1>3, <4>1
      <3>3. m \in c + 1 .. q /\ ws[m].val = (IF m = q THEN k2 ELSE Null)
        BY <1>15, <3>1, <3>2
      <3>4. CASE m # q
        BY <3>1, <3>3, <3>4
      <3>5. CASE m = q
        <4>1. k2 # Current
          BY <1>3, <1>11, <3>3
        <4>2. ASSUME NEW j \in n .. M, NEW i \in top .. End - 1 PROVE View(j, Slot(k2, i))' = Item(i)
          <5>1. j \in N .. M /\ c <= j - N
            BY <1>3, <1>5, <1>7, <3>2, <3>5
          <5>2. QED
            BY <1>14, <4>1, <5>1
        <4>3. View(n, Buffer)' = k2
          BY <3>1, <3>3, <3>5
        <4>4. QED
          BY <4>2, <4>3
      <3>6. QED
        BY <3>4, <3>5
    <2>3. QED
      BY <2>1, <2>2
  <1>17. ASSUME NEW m \in 1 .. q + 3, ws[m].at = Bottom PROVE m = q + 3
    <2>1. ~ (m \in 1 .. c)
      BY <1>8, <1>17, Places
    <2>2. ~ (m \in c + 1 .. q)
      BY <1>8, <1>17, Places
    <2>3. ~ (m \in q + 1 .. q + 2)
      BY <1>8, <1>17, Places
    <2>4. QED
      BY <1>8, <2>1, <2>2, <2>3
  <1>18. ASSUME NEW n \in N .. M - 1 PROVE View(n, Bottom)' = End
    <2>1. n \in N .. M /\ n - N < q + 3 /\ n - N \in Int
      BY <1>5, <1>7
    <2>2. \A m \in 1 .. n - N : m \in 1 .. q + 3 /\ m # q + 3
      BY <1>3, <2>1
    <2>3. \A m \in 1 .. n - N : ws[m].at # Bottom
      BY <1>17, <2>2
    <2>4. View(n, Bottom)' = View(N, Bottom)
      BY <1>10, <2>1, <2>3
    <2>5. QED
      BY <1>11, <2>4
  <1>19. M \in N .. M /\ M - N = q + 3 /\ q + 3 \in 1 .. q + 3
    BY <1>3, <1>5, <1>7
  <1>20. View(M, Bottom)' = End + 1
    <2>1. PICK m \in 1 .. q + 3 : View(M, Bottom)' = ws[m].val /\ ws[m].at = Bottom
      BY <1>8, <1>10, <1>19
    <2>2. QED
      BY <1>8, <1>17, <2>1
  <1>21. View(M, Buffer)' = k2
    <2>1. CASE k2 = Current
      <3>1. \A m \in 1 .. q + 3 : ws[m].at # Buffer
        <4>1. q = 0 /\ c = 0
          BY <1>3, <1>11, <2>1
        <4>2. c + 1 .. q = {}
          BY <4>1
        <4>3. QED
          BY <1>15, <4>2
      <3>2. View(M, Buffer)' = View(N, Buffer)
        BY <1>10, <1>19, <3>1
      <3>3. QED
        BY <1>11, <2>1, <3>2
    <2>2. CASE k2 # Current
      <3>1. q \in c + 1 .. q /\ q \in 1 .. q + 3 /\ c < q
        BY <1>3, <2>2
      <3>2. ws[q].at = Buffer /\ ws[q].val = k2
        BY <1>8, <3>1
      <3>3. PICK m \in 1 .. q + 3 : View(M, Buffer)' = ws[m].val /\ ws[m].at = Buffer
                                    /\ \A x \in m + 1 .. q + 3 : ws[x].at # Buffer
        BY <1>10, <1>19, <3>1, <3>2
      <3>4. m \in c + 1 .. q
        BY <1>15, <3>3
      <3>5. ~ (q \in m + 1 .. q + 3)
        BY <3>2, <3>3
      <3>6. m = q
        BY <1>3, <3>4, <3>5
      <3>7. QED
        BY <3>2, <3>3, <3>6
    <2>3. QED
      BY <2>1, <2>2
  <1>e. PICK e : e = End
    OBVIOUS
  <1>22. View(M, Slot(k2, e))' = pushed + 1
    <2>1. PICK l : l = Slot(k2, e) /\ l = Slot(k2, End)
      BY <1>e
    <2>2. q + 2 \in q + 1 .. q + 2 /\ q + 2 \in 1 .. q + 3
      BY <1>3
    <2>3. ws[q + 2].at = l
      BY <1>8, <2>1, <2>2
    <2>4. PICK m \in 1 .. q + 3 : View(M, l)' = ws[m].val /\ ws[m].at = l
                                  /\ \A x \in m + 1 .. q + 3 : ws[x].at # l
      BY <1>10, <1>19, <2>2, <2>3
    <2>5. ~ (m \in 1 .. c)
      <3>1. ASSUME m \in 1 .. c PROVE FALSE
        <4>1. PICK y : y = top + m - 1
          OBVIOUS
        <4>2. y \in top .. End /\ End \in top .. End /\ y # End
          BY <1>3, <1>11, <3>1, <4>1
        <4>3. ws[m].at = Slot(k2, y)
          BY <1>8, <3>1, <4>1
        <4>4. QED
          BY <1>9, <2>1, <2>4, <4>2, <4>3
      <3>2. QED
        BY <3>1
    <2>6. ~ (m \in c + 1 .. q)
      BY <1>8, <2>1, <2>4, Places
    <2>7. m # q + 3
      BY <1>8, <2>1, <2>4, Places
    <2>8. m \in q + 1 .. q + 2
      BY <1>8, <2>5, <2>6, <2>7
    <2>9. ~ (q + 2 \in m + 1 .. q + 3)
      BY <2>3, <2>4
    <2>10. m = q + 2
      BY <1>3, <2>8, <2>9
    <2>11. QED
      BY <1>8, <2>1, <2>4, <2>10 DEF View
  <1>23. ASSUME NEW i \in top .. End - 1 PROVE View(M, Slot(k2, i))' = Item(i)
    <2>1. CASE k2 = Current
      <3>1. k2 \in 1 .. Current
        BY <1>11, <2>1
      <3>2. View(M, Slot(k2, i))' = View(N, Slot(k2, i))
        BY <1>13, <1>19, <3>1
      <3>3. Item(i) = View(N, Slot(k2, i))
        BY <1>2, <2>1, ItemIs, SeenIs
      <3>4. QED
        BY <3>2, <3>3
    <2>2. CASE k2 # Current
      <3>1. c <= M - N
        BY <1>3, <1>7
      <3>2. QED
        BY <1>14, <1>19, <2>2, <3>1
    <2>3. QED
      BY <2>1, <2>2
  <1>24. ASSUME NEW n \in N .. M, NEW l \in Slots PROVE View(n, l)' \in Values
    <2>1. CASE View(n, l)' = View(N, l)
      <3>1. N \in Views
        BY <1>5, <1>7
      <3>2. QED
        BY <1>4, <2>1, <3>1 DEF ViewsTyped
    <2>2. CASE View(n, l)' # View(N, l)
      <3>1. PICK m \in 1 .. n - N : View(n, l)' = ws[m].val /\ ws[m].at = l
        BY <1>10, <2>2
      <3>2. n - N \in 0 .. q + 3
        BY <1>10
      <3>3. m \in 1 .. q + 3 /\ l # Buffer /\ l # Bottom
        BY <1>3, <3>1, <3>2, Places
      <3>4. CASE m \in 1 .. c
        <4>1. PICK y : y = top + m - 1
          OBVIOUS
        <4>2. y \in Int /\ top <= y /\ y < End
          BY <1>3, <1>11, <3>4, <4>1
        <4>3. ws[m].val = Item(y)
          BY <1>8, <3>4, <4>1
        <4>4. QED
          BY <3>1, <4>2, <4>3, ItemsTyped
      <3>5. CASE m \in q + 1 .. q + 2
        <4>1. m = q + 1 \/ m = q + 2
          BY <1>3, <3>5
        <4>2. Torn \in Values /\ pushed + 1 \in Values
          BY <1>11 DEF Values, Tasks
        <4>3. QED
          BY <1>8, <3>1, <4>1, <4>2
      <3>6. ~ (m \in c + 1 .. q) /\ m # q + 3
        BY <1>8, <3>1, <3>3
      <3>7. QED
        BY <1>8, <3>3, <3>4, <3>5, <3>6
    <2>3. QED
      BY <2>1, <2>2
  <1>25. k2 \in Current .. NumBuffers
    BY <1>3, <1>11
  <1>26. Pushed(N, M, k2, e)
    BY <1>3, <1>5, <1>6, <1>7, <1>12, <1>13, <1>16, <1>18, <1>20, <1>21, <1>22, <1>23, <1>24, <1>25, <1>e DEF Pushed
  <1>27. QED
    BY <1>26

\* The owner adds a task.
LEMMA PushIInv ==
  ASSUME IInv, Push
  PROVE  /\ IInv' /\ End' = End + 1 /\ \A i \in top .. End - 1 : Item(i)' = Item(i)
         /\ \A e : e = End => Item(e)' = pushed + 1
  <1>1. Types /\ ViewsTyped /\ Window /\ Claimed /\ Published /\ Thieving /\ Handed
    BY DEF IInv
  <1>2. /\ UNCHANGED <<top, mem, owner, thief, runs>> /\ owner.at = "idle"
        /\ pushed' = pushed + 1 /\ pushed < MaxPush
    BY DEF Push
  <1>3. PICK N, M, k2, e : Pushed(N, M, k2, e)
    BY PushViews
  <1>4. /\ e = End /\ N \in Nat /\ M \in Nat /\ N < M /\ Views = 0 .. N /\ Views' = 0 .. M
        /\ stores' \in Seq([at : Locations, val : Int]) /\ Len(stores') = M
        /\ \A n \in 0 .. N : \A l : View(n, l)' = View(n, l)
        /\ \A n \in N .. M - 1 : View(n, Bottom)' = End
        /\ View(M, Bottom)' = End + 1 /\ View(M, Buffer)' = k2
        /\ View(M, Slot(k2, e))' = pushed + 1
        /\ \A i \in top .. End - 1 : View(M, Slot(k2, i))' = Item(i)
        /\ \A n \in N .. M : \A l \in Slots : View(n, l)' \in Values
        /\ k2 \in Current .. NumBuffers /\ End + 1 - top <= Cap[k2]
    BY <1>3 DEF Pushed
  <1>5. /\ \A n \in N .. M : \A j \in 1 .. Current : \A i \in top .. End - 1 : View(n, Slot(j, i))' = View(N, Slot(j, i))
        /\ \A n \in N .. M : \/ View(n, Buffer)' \in {Current, Null}
                             \/ /\ View(n, Buffer)' = k2
                                /\ \A m \in n .. M : \A i \in top .. End - 1 : View(m, Slot(k2, i))' = Item(i)
    BY <1>3 DEF Pushed
  <1>6. /\ top \in Nat /\ End \in Int /\ top <= End /\ End <= pushed /\ pushed \in Nat /\ MaxPush \in Nat
        /\ Current \in 1 .. NumBuffers /\ NumBuffers \in Nat /\ Current \in Nat /\ k2 \in Nat
        /\ View(N, Buffer) = Current /\ View(N, Bottom) = End
    <2>1. Len(stores) \in Nat
      BY <1>1 DEF Types
    <2>2. N = Len(stores)
      BY <1>4, <2>1 DEF Views
    <2>3. View(N, Buffer) = Current /\ View(N, Bottom) = Seen(Bottom)
      BY <2>2, SeenIs DEF Current
    <2>4. /\ top \in Nat /\ End \in Int /\ top <= End /\ End <= pushed /\ pushed \in Nat /\ MaxPush \in Nat
          /\ Current \in 1 .. NumBuffers /\ NumBuffers \in Nat /\ Seen(Bottom) = End
      BY <1>2, Ranges
    <2>5. QED
      BY <1>4, <2>3, <2>4
  <1>7. \A l : Seen(l)' = View(M, l)'
    BY <1>4, SeenIs
  <1>8. Current' = k2 /\ Seen(Bottom)' = e + 1
    BY <1>4, <1>7 DEF Current
  <1>9. End' = e + 1
    BY <1>2, <1>8 DEF End
  <1>10. ASSUME NEW i PROVE Item(i)' = View(M, Slot(k2, i))'
    BY <1>7, <1>8, ItemIs
  <1>11. Item(e)' = pushed + 1 /\ \A i \in top .. e - 1 : Item(i)' = Item(i)
    BY <1>4, <1>10
  <1>12. Types'
    <2>1. pushed' \in 0 .. MaxPush
      BY <1>2, <1>6
    <2>2. QED
      BY <1>1, <1>2, <1>4, <2>1 DEF Types
  <1>13. ViewsTyped'
    <2>1. ASSUME NEW n \in Views'
          PROVE  /\ View(n, Bottom)' \in -1 .. End' /\ View(n, Buffer)' \in 0 .. Current'
                 /\ \A l \in Slots : View(n, l)' \in Values
      <3>1. CASE n <= N
        <4>1. n \in Views /\ n \in 0 .. N
          BY <1>4, <3>1
        <4>2. View(n, Bottom) \in -1 .. End /\ View(n, Buffer) \in 0 .. Current /\ \A l \in Slots : View(n, l) \in Values
          BY <1>1, <4>1 DEF ViewsTyped
        <4>3. View(n, Bottom)' = View(n, Bottom) /\ View(n, Buffer)' = View(n, Buffer) /\ \A l \in Slots : View(n, l)' = View(n, l)
          BY <1>4, <4>1
        <4>4. View(n, Bottom)' \in -1 .. End' /\ View(n, Buffer)' \in 0 .. Current'
          BY <1>4, <1>6, <1>8, <1>9, <4>2, <4>3, SMTT(60)
        <4>5. QED
          BY <4>2, <4>3, <4>4
      <3>2. CASE ~ (n <= N)
        <4>1. n \in N .. M /\ (n = M \/ n \in N .. M - 1)
          BY <1>4, <3>2
        <4>2. View(n, Bottom)' = End \/ View(n, Bottom)' = End + 1
          BY <1>4, <4>1
        <4>3. View(n, Buffer)' \in {Current, Null, k2}
          BY <1>5, <4>1
        <4>4. View(n, Bottom)' \in -1 .. End' /\ View(n, Buffer)' \in 0 .. Current'
          BY <1>4, <1>6, <1>8, <1>9, <4>2, <4>3, SMTT(60) DEF Null
        <4>5. QED
          BY <1>4, <4>1, <4>4
      <3>3. QED
        BY <3>1, <3>2
    <2>2. QED
      BY <2>1 DEF ViewsTyped
  <1>14. Window'
    <2>1. Current' \in 1 .. NumBuffers /\ End' \in top .. pushed'
      BY <1>2, <1>4, <1>6, <1>8, <1>9
    <2>2. End' - top <= Cap[k2]
      <3>1. End' - top = End + 1 - top
        BY <1>4, <1>6, <1>9
      <3>2. QED
        BY <1>4, <3>1
    <2>3. QED
      BY <1>2, <1>8, <2>1, <2>2 DEF Window
  <1>15. Claimed'
    BY <1>2 DEF Claimed
  <1>16. PICK f : f = [n \in Views' |-> IF n <= N THEN n ELSE N]
    OBVIOUS
  <1>17. /\ \A n \in Views' : n \in Int /\ f[n] \in Views /\ f[n] \in Int /\ (n <= N => f[n] = n) /\ (~ (n <= N) => f[n] = N)
         /\ \A n, m \in Views' : n <= m => f[n] <= f[m]
    <2>1. \A n \in Views' : n \in Int /\ f[n] = (IF n <= N THEN n ELSE N) /\ 0 <= n
      BY <1>4, <1>16
    <2>2. \A n \in Views' : f[n] \in Views /\ f[n] \in Int
      BY <1>4, <2>1
    <2>3. QED
      BY <1>4, <2>1, <2>2, SMTT(60)
  <1>18. ASSUME NEW n \in Views', NEW j \in 1 .. Current, NEW i \in top .. e - 1
         PROVE  View(n, Slot(j, i))' = View(f[n], Slot(j, i))
    <2>1. CASE n <= N
      <3>1. n \in 0 .. N /\ f[n] = n
        BY <1>4, <1>17, <2>1
      <3>2. PICK l : l = Slot(j, i)
        OBVIOUS
      <3>3. View(n, l)' = View(n, l)
        BY <1>4, <3>1
      <3>4. View(n, Slot(j, i))' = View(n, l)'
        BY <3>2 DEF View
      <3>5. QED
        BY <3>1, <3>2, <3>3, <3>4
    <2>2. CASE ~ (n <= N)
      <3>1. n \in N .. M /\ f[n] = N
        BY <1>4, <1>17, <2>2
      <3>2. QED
        BY <1>4, <1>5, <3>1
    <2>3. QED
      BY <2>1, <2>2
  <1>19. ASSUME NEW n \in Views', NEW m \in Views', n <= m, NEW i \in top .. e - 1, NEW j, j = View(n, Buffer)', j # Null,
                View(f[n], Buffer) # Null => View(f[m], Slot(View(f[n], Buffer), i)) = Item(i)
         PROVE  View(m, Slot(j, i))' = Item(i)
    <2>1. CASE j = View(f[n], Buffer)
      <3>1. j \in 1 .. Current
        <4>1. j \in 0 .. Current
          BY <1>1, <1>17, <2>1 DEF ViewsTyped
        <4>2. QED
          BY <1>6, <1>19, <4>1 DEF Null
      <3>2. View(m, Slot(j, i))' = View(f[m], Slot(j, i))
        BY <1>18, <3>1
      <3>3. QED
        BY <1>19, <2>1, <3>2
    <2>2. CASE j # View(f[n], Buffer)
      <3>1. ~ (n <= N)
        <4>1. ASSUME n <= N PROVE FALSE
          <5>1. n \in 0 .. N /\ f[n] = n
            BY <1>4, <1>17, <4>1
          <5>2. View(n, Buffer)' = View(n, Buffer)
            BY <1>4, <5>1
          <5>3. QED
            BY <1>19, <2>2, <5>1, <5>2
        <4>2. QED
          BY <4>1
      <3>2. n \in N .. M /\ f[n] = N /\ m \in n .. M
        BY <1>4, <1>17, <1>19, <3>1
      <3>3. j = k2 /\ \A x \in n .. M : \A y \in top .. End - 1 : View(x, Slot(k2, y))' = Item(y)
        BY <1>5, <1>6, <1>19, <2>2, <3>2
      <3>4. View(m, Slot(k2, i))' = Item(i)
        BY <1>4, <3>2, <3>3
      <3>5. QED
        BY <3>3, <3>4
    <2>3. QED
      BY <2>1, <2>2
  <1>20. Published'
    <2>1. SUFFICES ASSUME NEW p \in Views', NEW n \in Views', NEW m \in Views', NEW i \in Nat,
                          p <= n, n <= m, top' <= i, i < View(p, Bottom)', View(n, Buffer)' # Null
                   PROVE  View(m, Slot(View(n, Buffer), i))' = Item(i)'
      BY DEF Published
    <2>2. PICK j : j = View(n, Buffer)'
      OBVIOUS
    <2>3. View(m, Slot(View(n, Buffer), i))' = View(m, Slot(j, i))'
      <3>1. Slot(View(n, Buffer), i)' = Slot(j, i)
        BY <2>2 DEF Slot
      <3>2. QED
        BY <3>1 DEF View
    <2>4. p \in Int /\ n \in Int /\ m \in Int /\ p <= M /\ n <= M /\ m <= M /\ top <= i
      BY <1>2, <1>4, <2>1
    <2>5. CASE p < M
      <3>1. View(p, Bottom)' = View(f[p], Bottom)
        <4>1. CASE p <= N
          <5>1. p \in 0 .. N /\ f[p] = p
            BY <1>4, <1>17, <4>1
          <5>2. QED
            BY <1>4, <5>1
        <4>2. CASE ~ (p <= N)
          <5>1. p \in N .. M - 1 /\ f[p] = N
            BY <1>4, <1>17, <2>4, <2>5, <4>2
          <5>2. QED
            BY <1>4, <1>6, <5>1
        <4>3. QED
          BY <4>1, <4>2
      <3>2. f[p] \in Views /\ f[n] \in Views /\ f[m] \in Views /\ f[p] <= f[n] /\ f[n] <= f[m]
        BY <1>17, <2>1
      <3>3. i < View(f[p], Bottom) /\ View(f[p], Bottom) \in -1 .. End
        BY <1>1, <2>1, <3>1, <3>2 DEF ViewsTyped
      <3>4. i \in top .. e - 1
        BY <1>4, <1>6, <2>4, <3>3, SMTT(60)
      <3>5. View(f[n], Buffer) # Null => View(f[m], Slot(View(f[n], Buffer), i)) = Item(i)
        BY <1>1, <2>4, <3>2, <3>3 DEF Published
      <3>6. View(m, Slot(j, i))' = Item(i)
        BY <1>19, <2>1, <2>2, <3>4, <3>5
      <3>7. QED
        BY <1>11, <2>3, <3>4, <3>6
    <2>6. CASE ~ (p < M)
      <3>1. p = M /\ n = M /\ m = M
        BY <1>4, <2>1, <2>4, <2>6
      <3>2. j = k2
        BY <1>4, <2>2, <3>1
      <3>3. Item(i)' = View(M, Slot(k2, i))'
        BY <1>10
      <3>4. View(m, Slot(j, i))' = View(M, Slot(k2, i))'
        BY <3>1, <3>2
      <3>5. QED
        BY <2>3, <3>3, <3>4
    <2>7. QED
      BY <2>5, <2>6
  <1>21. Thieving'
    <2>1. ASSUME NEW h \in Thieves
          PROVE  /\ thief'[h].t <= top' /\ thief'[h].buf <= Current'
                 /\ thief'[h].t = top' /\ thief'[h].at \in {"bottom", "buffer", "copied"} => top' < End' /\ OnItsWay(h)'
      <3>1. /\ thief[h].t <= top /\ thief[h].buf <= Current /\ thief[h].buf \in Nat
            /\ thief[h].t = top /\ thief[h].at \in {"bottom", "buffer", "copied"} => top < End /\ OnItsWay(h)
        BY <1>1 DEF Thieving, Types
      <3>2. thief'[h].t <= top' /\ thief'[h].buf <= Current'
        <4>1. k2 \in Current .. NumBuffers
          BY <1>4
        <4>2. \A x \in Nat : x <= Current => x <= k2
          BY <1>6, <4>1
        <4>3. thief[h].buf <= k2
          BY <3>1, <4>2
        <4>4. QED
          BY <1>2, <1>8, <3>1, <4>3
      <3>3. ASSUME thief[h].t = top, thief[h].at \in {"bottom", "buffer", "copied"} PROVE top' < End' /\ OnItsWay(h)'
        <4>1. top < End /\ OnItsWay(h)
          BY <3>1, <3>3
        <4>2. top \in top .. e - 1 /\ top' < End'
          BY <1>2, <1>4, <1>6, <1>9, <4>1
        <4>3. Item(top)' = Item(top)
          <5>1. PICK t : t = top
            OBVIOUS
          <5>2. Item(t)' = Item(t)
            BY <1>11, <4>2, <5>1
          <5>3. Item(top)' = Item(t)'
            BY <1>2, <5>1 DEF Item, Slot
          <5>4. QED
            BY <5>1, <5>2, <5>3
        <4>4. ASSUME thief[h].at = "bottom", NEW n \in Views', NEW m \in Views', n <= m, View(n, Buffer)' # Null
              PROVE  View(m, Slot(View(n, Buffer), top))' = Item(top)
          <5>1. PICK j : j = View(n, Buffer)'
            OBVIOUS
          <5>2. f[n] \in Views /\ f[m] \in Views /\ f[n] <= f[m]
            BY <1>17, <4>4
          <5>3. View(f[n], Buffer) # Null => View(f[m], Slot(View(f[n], Buffer), top)) = Item(top)
            BY <4>1, <4>4, <5>2 DEF OnItsWay
          <5>4. PICK t : t = top
            OBVIOUS
          <5>5. View(m, Slot(j, t))' = Item(t)
            BY <1>19, <4>2, <4>4, <5>1, <5>3, <5>4
          <5>6. Slot(View(n, Buffer), top)' = Slot(j, t)
            BY <1>2, <5>1, <5>4 DEF Slot
          <5>7. View(m, Slot(View(n, Buffer), top))' = View(m, Slot(j, t))'
            BY <5>6 DEF View
          <5>8. QED
            BY <5>4, <5>5, <5>7
        <4>5. ASSUME thief[h].at = "buffer", thief[h].buf # Null, NEW m \in Views'
              PROVE  View(m, Slot(thief[h].buf, top))' = Item(top)
          <5>1. PICK j, t : j = thief[h].buf /\ t = top
            OBVIOUS
          <5>2. j \in 1 .. Current
            BY <1>6, <3>1, <4>5, <5>1 DEF Null
          <5>3. f[m] \in Views
            BY <1>17
          <5>4. View(f[m], Slot(j, t)) = Item(t)
            BY <4>1, <4>5, <5>1, <5>3 DEF OnItsWay
          <5>5. View(m, Slot(j, t))' = View(f[m], Slot(j, t))
            BY <1>18, <4>2, <5>1, <5>2
          <5>6. Slot(thief[h].buf, top)' = Slot(j, t)
            BY <1>2, <5>1 DEF Slot
          <5>7. View(m, Slot(thief[h].buf, top))' = View(m, Slot(j, t))'
            BY <5>6 DEF View
          <5>8. QED
            BY <5>1, <5>4, <5>5, <5>7
        <4>6. thief'[h] = thief[h]
          BY <1>2
        <4>7. thief[h].at = "copied" => thief[h].item = Item(top)
          BY <4>1 DEF OnItsWay
        <4>8. OnItsWay(h)'
          BY <4>3, <4>4, <4>5, <4>6, <4>7 DEF OnItsWay
        <4>9. QED
          BY <4>2, <4>8
      <3>4. QED
        BY <1>2, <3>2, <3>3
    <2>2. QED
      BY <2>1 DEF Thieving
  <1>22. Handed'
    <2>1. \A i \in top .. e : i = e \/ i \in top .. e - 1
      BY <1>4, <1>6
    <2>2. \A i \in top .. e - 1 : Item(i) \in 1 .. pushed /\ runs[Item(i)] = 0
      BY <1>1, <1>4 DEF Handed
    <2>3. pushed + 1 \in Values /\ runs[pushed + 1] = 0
      <3>1. pushed + 1 \in Values /\ ~ (pushed + 1 \in 1 .. pushed)
        BY <1>2, <1>6 DEF Values, Tasks
      <3>2. QED
        BY <1>1, <3>1 DEF Handed
    <2>4. \A i \in top .. e : Item(i)' \in 1 .. pushed' /\ runs[Item(i)'] = 0
      BY <1>2, <1>6, <1>11, <2>1, <2>2, <2>3
    <2>5. ASSUME NEW i \in top .. e, NEW j \in top .. e, Item(i)' = Item(j)' PROVE i = j
      <3>1. CASE i = e /\ j = e
        BY <3>1
      <3>2. CASE i \in top .. e - 1 /\ j \in top .. e - 1
        <4>1. Item(i) = Item(j)
          BY <1>11, <2>5, <3>2
        <4>2. QED
          BY <1>1, <1>4, <3>2, <4>1 DEF Handed
      <3>3. CASE i = e /\ j \in top .. e - 1
        BY <1>6, <1>11, <2>2, <2>5, <3>3
      <3>4. CASE i \in top .. e - 1 /\ j = e
        BY <1>6, <1>11, <2>2, <2>5, <3>4
      <3>5. QED
        BY <2>1, <3>1, <3>2, <3>3, <3>4
    <2>6. top' .. End' - 1 = top .. e
      BY <1>2, <1>4, <1>6, <1>9
    <2>7. \A v \in Values : runs'[v] # 0 => v \in 1 .. pushed'
      BY <1>1, <1>2, <1>6 DEF Handed
    <2>8. QED
      BY <1>2, <2>4, <2>5, <2>6, <2>7 DEF Handed
  <1>23. QED
    BY <1>4, <1>9, <1>11, <1>12, <1>13, <1>14, <1>15, <1>20, <1>21, <1>22 DEF IInv

-----------------------------------------------------------------------------
(* The invariant holds. *)

\* A new deque is empty, and nothing was handed out.
LEMMA InitIInv ==
  ASSUME Init
  PROVE  IInv /\ End = 0 /\ top = 0
  <1>1. /\ top = 0 /\ stores = <<>> /\ pushed = 0 /\ owner = OwnerIdle
        /\ thief = [h \in Thieves |-> ThiefIdle] /\ runs = [v \in Values |-> 0]
        /\ mem = [l \in Locations |-> IF l = Buffer THEN 1 ELSE IF l = Bottom THEN 0 ELSE Empty]
    BY DEF Init
  <1>2. Len(stores) = 0 /\ Views = {0}
    BY <1>1 DEF Views
  <1>3. ASSUME NEW l PROVE View(0, l) = mem[l] /\ Seen(l) = mem[l]
    <2>1. View(0, l) = mem[l]
      BY AfterZero, Viewed
    <2>2. QED
      BY <1>2, <2>1, SeenIs
  <1>4. /\ mem[Bottom] = 0 /\ mem[Buffer] = 1 /\ \A l \in Slots : mem[l] = Empty
    BY <1>1, Places
  <1>5. End = 0 /\ Current = 1
    BY <1>1, <1>3, <1>4 DEF End, OwnerIdle, Current
  <1>6. Types
    <2>1. OwnerIdle \in [at : {"idle", "fence", "last"}, b : -1 .. MaxPush, t : 0 .. MaxPush]
      BY DequeAssumption DEF OwnerIdle
    <2>2. ThiefIdle \in [at : {"idle", "top", "bottom", "buffer", "copied"}, t : Nat, buf : Nat, item : Values]
      BY DEF ThiefIdle, Values, Empty, Null
    <2>3. thief \in [Thieves -> [at : {"idle", "top", "bottom", "buffer", "copied"}, t : Nat, buf : Nat, item : Values]]
      BY <1>1, <2>2
    <2>4. pushed \in 0 .. MaxPush /\ top \in Nat
      BY <1>1, DequeAssumption
    <2>5. mem = [l \in Locations |-> mem[l]]
      BY <1>1
    <2>6. stores \in Seq([at : Locations, val : Int])
      BY <1>1
    <2>7. runs \in [Values -> 0 .. 1]
      BY <1>1
    <2>8. QED
      BY <1>1, <2>1, <2>3, <2>4, <2>5, <2>6, <2>7 DEF Types
  <1>7. ViewsTyped
    <2>1. Empty \in Values
      BY DEF Values
    <2>2. QED
      BY <1>2, <1>3, <1>4, <1>5, <2>1 DEF ViewsTyped
  <1>8. Window
    <2>1. Cap[1] \in Nat \ {0} /\ 1 \in 1 .. NumBuffers
      BY CapDoubles, DequeAssumption
    <2>2. QED
      BY <1>1, <1>5, <2>1 DEF Window
  <1>9. Claimed
    BY <1>1 DEF Claimed, OwnerIdle
  <1>10. Published
    <2>1. \A p \in Views : View(p, Bottom) = top
      BY <1>1, <1>2, <1>3, <1>4
    <2>2. \A p \in Views : \A i \in Nat : ~ (top <= i /\ i < View(p, Bottom))
      BY <1>1, <2>1
    <2>3. QED
      BY <2>2 DEF Published
  <1>11. Thieving
    BY <1>1, <1>5 DEF Thieving, ThiefIdle, Null
  <1>12. Handed
    BY <1>1, <1>5 DEF Handed
  <1>13. QED
    BY <1>1, <1>5, <1>6, <1>7, <1>8, <1>9, <1>10, <1>11, <1>12 DEF IInv

\* Nothing happens.
LEMMA StutterIInv ==
  ASSUME IInv, UNCHANGED vars
  PROVE  IInv'
  <1>1. Types /\ ViewsTyped /\ Window /\ Claimed /\ Published /\ Thieving /\ Handed
    BY DEF IInv
  <1>2. UNCHANGED <<top, mem, stores, pushed, owner, thief, runs>>
    BY DEF vars
  <1>3. PICK f : f = [n \in Views' |-> n]
    OBVIOUS
  <1>4. /\ Moves(f) /\ Seen(Bottom)' = Seen(Bottom)
        /\ Views' = Views /\ \A n \in Views' : f[n] = n /\ View(n, Bottom)' = View(f[n], Bottom)
    BY <1>2, <1>3, StillMoves
  <1>5. /\ End' = End /\ Current' = Current /\ top \in Int /\ End \in Int
        /\ \A n \in Views' : f[n] \in Views
        /\ \A i \in Int : Item(i)' = Item(i)
    BY <1>2, <1>4, Ranges DEF End, Moves
  <1>6. Types' /\ Window' /\ Claimed'
    BY <1>1, <1>2, <1>4, <1>5 DEF Types, Window, Claimed
  <1>7. ViewsTyped'
    <2>1. \A n \in Views' : View(n, Bottom)' \in -1 .. End'
      BY <1>1, <1>4, <1>5 DEF ViewsTyped
    <2>2. QED
      BY <1>4, <2>1, SlotsTyped DEF ViewsTyped
  <1>8. Published'
    <2>1. top' \in Int /\ top <= top'
      BY <1>2, <1>5
    <2>2. \A n \in Views' : \A i \in Nat : top' <= i /\ i < View(n, Bottom)' => i < View(f[n], Bottom)
      BY <1>4
    <2>3. QED
      BY <1>4, <1>5, <2>1, <2>2, PublishedKept
  <1>9. Thieving'
    <2>1. ASSUME NEW h \in Thieves
          PROVE  /\ thief'[h].t <= top' /\ thief'[h].buf <= Current'
                 /\ thief'[h].t = top' /\ thief'[h].at \in {"bottom", "buffer", "copied"} => top' < End' /\ OnItsWay(h)'
      BY <1>2, <1>4, <1>5, ThievingKept
    <2>2. QED
      BY <2>1 DEF Thieving
  <1>10. Handed'
    <2>1. \A i \in top .. End - 1 : Item(i)' = Item(i)
      BY <1>5
    <2>2. QED
      BY <1>1, <1>2, <1>5, <2>1 DEF Handed
  <1>11. QED
    BY <1>6, <1>7, <1>8, <1>9, <1>10 DEF IInv

\* Every step of the owner, of a thief or of memory keeps the invariant.
LEMMA NextIInv ==
  ASSUME IInv, [Next]_vars
  PROVE  IInv'
  <1>1. CASE Flush
    BY <1>1, FlushIInv
  <1>2. CASE Push
    BY <1>2, PushIInv
  <1>3. CASE PopClaim
    BY <1>3, PopClaimIInv
  <1>4. CASE PopStep
    BY <1>4, PopTakeIInv, PopLastIInv, PopEmptyIInv, PopRaceIInv DEF PopStep
  <1>5. ASSUME NEW h \in Thieves, ThiefNext(h) PROVE IInv'
    BY <1>5, StealTopIInv, StealBottomIInv, StealBufferIInv, StealCopyIInv, StealRaceIInv DEF ThiefNext
  <1>6. CASE UNCHANGED vars
    BY <1>6, StutterIInv
  <1>7. QED
    BY <1>1, <1>2, <1>3, <1>4, <1>5, <1>6 DEF Next, OwnerNext

LEMMA AlwaysIInv == Spec => []IInv
  <1>1. Init => IInv
    BY InitIInv
  <1>2. IInv /\ [Next]_vars => IInv'
    BY NextIInv
  <1>3. QED
    BY <1>1, <1>2, PTL DEF Spec

-----------------------------------------------------------------------------
(* The theorems. *)

\* Every variable keeps its type, and the buffers counted suffice (WorkStealingDeque.hpp).
THEOREM DequeTypeCorrect == Spec => []DequeTypeOK
  <1>1. IInv => DequeTypeOK
    <2> SUFFICES ASSUME IInv PROVE DequeTypeOK
      OBVIOUS
    <2>1. Types /\ ViewsTyped /\ Window /\ Thieving /\ Handed
      BY DEF IInv
    <2>2. /\ top \in Nat /\ End \in Int /\ top <= End /\ End <= pushed /\ pushed \in Nat /\ pushed <= MaxPush
          /\ MaxPush \in Nat /\ Current \in 1 .. NumBuffers /\ NumBuffers \in Nat
      BY Ranges
    <2>3. View(0, Bottom) \in -1 .. End /\ View(0, Buffer) \in 0 .. Current /\ \A l \in Slots : View(0, l) \in Values
      <3>1. Len(stores) \in Nat
        BY <2>1 DEF Types
      <3>2. 0 \in Views
        BY <3>1 DEF Views
      <3>3. QED
        BY <2>1, <3>2 DEF ViewsTyped
    <2>4. \A l : View(0, l) = mem[l]
      BY AfterZero, Viewed
    <2>5. mem[Bottom] \in -1 .. MaxPush /\ mem[Buffer] \in 0 .. NumBuffers /\ \A l \in Slots : mem[l] \in Values
      BY <2>2, <2>3, <2>4
    <2>6. thief \in [Thieves -> [at : {"idle", "top", "bottom", "buffer", "copied"},
                                 t : 0 .. MaxPush, buf : 0 .. NumBuffers, item : Values]]
      <3>1. ASSUME NEW h \in Thieves
            PROVE  thief[h] \in [at : {"idle", "top", "bottom", "buffer", "copied"},
                                 t : 0 .. MaxPush, buf : 0 .. NumBuffers, item : Values]
        <4>1. /\ thief[h] \in [at : {"idle", "top", "bottom", "buffer", "copied"}, t : Nat, buf : Nat, item : Values]
              /\ thief[h].t <= top /\ thief[h].buf <= Current
          BY <2>1 DEF Types, Thieving
        <4>2. thief[h].t \in 0 .. MaxPush /\ thief[h].buf \in 0 .. NumBuffers
          BY <2>2, <4>1
        <4>3. QED
          BY <4>1, <4>2
      <3>2. QED
        BY <2>1, <3>1 DEF Types
    <2>7. runs \in [Values -> 0 .. MaxPush]
      <3>1. ASSUME NEW v \in Values PROVE runs[v] \in 0 .. MaxPush
        <4>1. runs[v] \in 0 .. 1 /\ (runs[v] # 0 => v \in 1 .. pushed)
          BY <2>1 DEF Types, Handed
        <4>2. QED
          BY <2>2, <4>1
      <3>2. QED
        BY <2>1, <3>1 DEF Types
    <2>8. DOMAIN mem = Locations /\ \A n \in DOMAIN stores : stores[n].at \in Locations
      <3>1. mem = [l \in Locations |-> mem[l]] /\ stores \in Seq([at : Locations, val : Int])
        BY <2>1 DEF Types
      <3>2. DOMAIN [l \in Locations |-> mem[l]] = Locations
        OBVIOUS
      <3>3. DOMAIN mem = Locations
        BY <3>1, <3>2
      <3>4. PICK S : S = [at : Locations, val : Int]
        OBVIOUS
      <3>5. stores \in Seq(S) /\ DOMAIN stores = 1 .. Len(stores)
        BY <3>1, <3>4, LenProperties
      <3>6. \A n \in DOMAIN stores : stores[n] \in S
        BY <3>5, ElementOfSeq
      <3>7. QED
        BY <3>3, <3>4, <3>6
    <2>9. top \in 0 .. MaxPush
      BY <2>2
    <2>10. QED
      BY <2>1, <2>5, <2>6, <2>7, <2>8, <2>9 DEF DequeTypeOK, Types
  <1>2. QED
    BY <1>1, AlwaysIInv, PTL

\* What waits, as a sequence.
LEMMA WaitingIs ==
  ASSUME IInv
  PROVE  /\ Waiting \in Seq(Values) /\ Len(Waiting) = End - top /\ End - top \in Nat
         /\ \A n \in 1 .. End - top : Waiting[n] = Item(top + n - 1)
  <1>1. top \in Nat /\ End \in Int /\ top <= End
    BY Ranges
  <1>2. End - top \in Nat
    BY <1>1
  <1>3. PICK c : c = End - top
    OBVIOUS
  <1>4. Waiting = [n \in 1 .. c |-> Item(top + n - 1)]
    BY <1>3 DEF Waiting, Item, Current
  <1>5. ASSUME NEW n \in 1 .. c PROVE Item(top + n - 1) \in Values
    <2>1. top + n - 1 \in Int /\ top <= top + n - 1 /\ top + n - 1 < End
      BY <1>1, <1>3
    <2>2. QED
      BY <2>1, ItemsTyped
  <1>6. Waiting \in [1 .. c -> Values]
    BY <1>4, <1>5
  <1>7. Waiting \in Seq(Values) /\ Len(Waiting) = c
    BY <1>2, <1>3, <1>6
  <1>8. \A n \in 1 .. c : Waiting[n] = Item(top + n - 1)
    BY <1>4, SMTT(60)
  <1>9. QED
    BY <1>2, <1>3, <1>7, <1>8

\* What waits after a step, from the items seen after it.
LEMMA WaitingNext ==
  ASSUME NEW t, NEW e, t = top', e = End', NEW w, w = [n \in 1 .. e - t |-> Item(t + n - 1)']
  PROVE  Waiting' = w
  BY DEF Waiting, Item, Current, Seen, View, Slot

\* A sequence is its elements.
LEMMA AppendIs ==
  ASSUME NEW S, NEW s \in Seq(S), NEW x \in S, NEW n \in Nat, n = Len(s), NEW w \in [1 .. n + 1 -> S],
         \A i \in 1 .. n : w[i] = s[i], w[n + 1] = x
  PROVE  w = Append(s, x)
  <1>1. /\ Append(s, x) \in Seq(S) /\ Len(Append(s, x)) = n + 1
        /\ \A i \in 1 .. n : Append(s, x)[i] = s[i]
        /\ Append(s, x)[n + 1] = x
    BY AppendProperties
  <1>2. w \in Seq(S) /\ Len(w) = n + 1
    OBVIOUS
  <1>3. ASSUME NEW i \in 1 .. n + 1 PROVE w[i] = Append(s, x)[i]
    <2>1. i \in 1 .. n \/ i = n + 1
      OBVIOUS
    <2>2. QED
      BY <1>1, <2>1
  <1>4. QED
    BY <1>1, <1>2, <1>3, SeqEqual

LEMMA FrontIs ==
  ASSUME NEW S, NEW s \in Seq(S), NEW n \in Nat, Len(s) = n + 1, NEW w \in [1 .. n -> S],
         \A i \in 1 .. n : w[i] = s[i]
  PROVE  w = Front(s) /\ Last(s) = s[n + 1] /\ s # <<>>
  <1>1. Front(s) = SubSeq(s, 1, n)
    BY DEF Front
  <1>2. \A i \in 1 .. n : s[i] \in S
    OBVIOUS
  <1>3. /\ SubSeq(s, 1, n) \in Seq(S) /\ Len(SubSeq(s, 1, n)) = (IF 1 <= n THEN n - 1 + 1 ELSE 0)
        /\ \A i \in 1 .. n - 1 + 1 : SubSeq(s, 1, n)[i] = s[1 + i - 1]
    BY <1>2, SubSeqProperties
  <1>4. n - 1 + 1 = n /\ \A i \in 1 .. n : 1 + i - 1 = i
    OBVIOUS
  <1>5. Len(SubSeq(s, 1, n)) = n
    BY <1>3, <1>4
  <1>6. w \in Seq(S) /\ Len(w) = n
    OBVIOUS
  <1>7. \A i \in 1 .. n : w[i] = SubSeq(s, 1, n)[i]
    BY <1>3, <1>4
  <1>8. w = SubSeq(s, 1, n)
    BY <1>3, <1>5, <1>6, <1>7, SeqEqual
  <1>9. Last(s) = s[n + 1] /\ s # <<>>
    BY DEF Last
  <1>10. QED
    BY <1>1, <1>8, <1>9

LEMMA TailIs ==
  ASSUME NEW S, NEW s \in Seq(S), NEW n \in Nat, Len(s) = n + 1, NEW w \in [1 .. n -> S],
         \A i \in 1 .. n : w[i] = s[i + 1]
  PROVE  w = Tail(s) /\ Head(s) = s[1] /\ s # <<>>
  <1>1. s # <<>> /\ Head(s) = s[1]
    OBVIOUS
  <1>2. /\ Tail(s) \in Seq(S) /\ Len(Tail(s)) = Len(s) - 1
        /\ \A i \in 1 .. Len(Tail(s)) : Tail(s)[i] = s[i + 1]
    BY <1>1, HeadTailProperties
  <1>3. Len(Tail(s)) = n
    BY <1>2
  <1>4. w \in Seq(S) /\ Len(w) = n
    OBVIOUS
  <1>5. \A i \in 1 .. n : w[i] = Tail(s)[i]
    BY <1>2, <1>3
  <1>6. QED
    BY <1>1, <1>2, <1>3, <1>4, <1>5, SeqEqual

\* Where bounds and items stay, what waits stays.
LEMMA WaitingKept ==
  ASSUME IInv, NEW f, Moves(f), End' = End, top' = top
  PROVE  Waiting' = Waiting
  <1>1. top \in Nat /\ End \in Int /\ top <= End
    BY Ranges
  <1>2. PICK t, e : t = top /\ e = End
    OBVIOUS
  <1>3. PICK w : w = [n \in 1 .. e - t |-> Item(t + n - 1)']
    OBVIOUS
  <1>4. Waiting' = w
    BY <1>2, <1>3, WaitingNext
  <1>5. \A n \in 1 .. e - t : Item(t + n - 1)' = Item(t + n - 1)
    <2>1. \A n \in 1 .. e - t : t + n - 1 \in Int
      BY <1>1, <1>2
    <2>2. QED
      BY <2>1 DEF Moves
  <1>6. Waiting = [n \in 1 .. e - t |-> Item(t + n - 1)]
    BY <1>2 DEF Waiting, Item, Current
  <1>7. QED
    BY <1>3, <1>4, <1>5, <1>6

LEMMA WaitingStill ==
  ASSUME UNCHANGED <<top, mem, stores, owner>>
  PROVE  Waiting' = Waiting
  BY DEF Waiting, End, Seen, View, Slot

LEMMA NothingWaits ==
  ASSUME IInv
  PROVE  /\ End = top => Waiting = <<>>
         /\ End' = top' /\ IInv' => Waiting' = <<>>
  <1>1. ASSUME End = top PROVE Waiting = <<>>
    <2>1. top \in Nat
      BY Ranges
    <2>2. End - top = 0
      BY <1>1, <2>1
    <2>3. Waiting \in Seq(Values) /\ Len(Waiting) = 0
      BY <2>2, WaitingIs
    <2>4. QED
      BY <2>3, EmptySeq
  <1>2. ASSUME End' = top', top' \in Int PROVE Waiting' = <<>>
    <2>1. PICK t, e, w : t = top' /\ e = End' /\ w = [n \in 1 .. e - t |-> Item(t + n - 1)']
      OBVIOUS
    <2>2. Waiting' = w
      BY <2>1, WaitingNext
    <2>3. e = t /\ t \in Int
      BY <1>2, <2>1
    <2>4. 1 .. e - t = {}
      BY <2>3
    <2>5. w = <<>>
      BY <2>1, <2>4
    <2>6. QED
      BY <2>2, <2>5
  <1>3. IInv' => top' \in Int
    BY DEF IInv, Types
  <1>4. QED
    BY <1>1, <1>2, <1>3

\* push() is the push of the abstract deque.
LEMMA PushRefines ==
  ASSUME IInv, Push
  PROVE  Abstract!Next
  <1>1. /\ End' = End + 1 /\ (\A i \in top .. End - 1 : Item(i)' = Item(i))
        /\ \A e : e = End => Item(e)' = pushed + 1
    BY PushIInv
  <1>2. top' = top /\ runs' = runs /\ pushed < MaxPush
    BY DEF Push
  <1>3. /\ top \in Nat /\ End \in Int /\ top <= End /\ pushed \in Nat /\ MaxPush \in Nat
    BY Ranges
  <1>4. /\ Waiting \in Seq(Values) /\ Len(Waiting) = End - top /\ End - top \in Nat
        /\ \A n \in 1 .. End - top : Waiting[n] = Item(top + n - 1)
    BY WaitingIs
  <1>5. PICK t, e, c, x : t = top /\ e = End + 1 /\ c = End - top /\ x = pushed + 1
    OBVIOUS
  <1>6. PICK w : w = [n \in 1 .. e - t |-> Item(t + n - 1)']
    OBVIOUS
  <1>7. Waiting' = w
    BY <1>1, <1>2, <1>5, <1>6, WaitingNext
  <1>8. x \in Values /\ ~ (x \in 1 .. pushed) /\ e - t = c + 1 /\ c \in Nat /\ Len(Waiting) = c
    BY <1>2, <1>3, <1>4, <1>5 DEF Values, Tasks
  <1>9. ASSUME NEW n \in 1 .. c PROVE w[n] = Waiting[n] /\ Waiting[n] \in Values /\ Waiting[n] \in 1 .. pushed
    <2>1. PICK i : i = top + n - 1
      OBVIOUS
    <2>2. i \in top .. End - 1 /\ i \in Int /\ top <= i /\ i < End /\ n \in 1 .. e - t /\ n \in 1 .. End - top
      BY <1>3, <1>5, <1>8, <2>1
    <2>3. w[n] = Item(i)'
      BY <1>5, <1>6, <2>1, <2>2
    <2>4. Item(i) \in 1 .. pushed /\ Item(i) \in Values
      BY <2>2, ItemsTyped
    <2>5. Item(i)' = Item(i) /\ Waiting[n] = Item(i)
      BY <1>1, <1>4, <2>1, <2>2
    <2>6. QED
      BY <2>3, <2>4, <2>5
  <1>10. w[c + 1] = x
    <2>1. PICK i : i = End
      OBVIOUS
    <2>2. c + 1 \in 1 .. e - t /\ t + (c + 1) - 1 = i
      BY <1>3, <1>5, <1>8, <2>1
    <2>3. w[c + 1] = Item(t + (c + 1) - 1)'
      BY <1>6, <2>2
    <2>4. Item(i)' = x
      BY <1>1, <1>5, <2>1
    <2>5. QED
      BY <2>2, <2>3, <2>4
  <1>11. w \in [1 .. c + 1 -> Values]
    <2>1. w = [n \in 1 .. c + 1 |-> w[n]]
      BY <1>6, <1>8
    <2>2. \A n \in 1 .. c + 1 : n \in 1 .. c \/ n = c + 1
      BY <1>8
    <2>3. \A n \in 1 .. c + 1 : w[n] \in Values
      BY <1>8, <1>9, <1>10, <2>2
    <2>4. QED
      BY <2>1, <2>3
  <1>12. w = Append(Waiting, x)
    BY <1>4, <1>8, <1>9, <1>10, <1>11, AppendIs
  <1>13. ~ (x \in ToSet(Waiting))
    <2>1. ASSUME NEW n \in DOMAIN Waiting PROVE Waiting[n] # x
      <3>1. n \in 1 .. c
        BY <1>4, <1>8, <2>1, LenProperties
      <3>2. QED
        BY <1>8, <1>9, <3>1
    <2>2. QED
      BY <2>1 DEF ToSet
  <1>14. runs[x] = 0
    BY <1>8 DEF IInv, Handed
  <1>15. Abstract!Push(x)
    BY <1>2, <1>7, <1>12, <1>13, <1>14 DEF Abstract!Push, ToSet, Abstract!ToSet
  <1>16. QED
    BY <1>8, <1>15 DEF Abstract!Next

\* pop() with a task is the pop of the abstract deque.
LEMMA PopRefines ==
  ASSUME IInv, NEW c \in Nat, c + 1 = End - top, NEW t, NEW e, t = top', e = End', e - t = c,
         \A n \in 1 .. c : Item(t + n - 1)' = Item(top + n - 1), NEW i, i = End - 1, Hand(Item(i))
  PROVE  Abstract!Next
  <1>1. /\ Waiting \in Seq(Values) /\ Len(Waiting) = c + 1
        /\ \A n \in 1 .. c + 1 : Waiting[n] = Item(top + n - 1)
    BY WaitingIs
  <1>2. PICK w : w = [n \in 1 .. e - t |-> Item(t + n - 1)']
    OBVIOUS
  <1>3. Waiting' = w
    BY <1>2, WaitingNext
  <1>4. \A n \in 1 .. c : n \in 1 .. c + 1 /\ w[n] = Item(t + n - 1)'
    BY <1>2
  <1>5. \A n \in 1 .. c : w[n] = Waiting[n] /\ Waiting[n] \in Values
    <2>1. ASSUME NEW n \in 1 .. c PROVE w[n] = Waiting[n] /\ Waiting[n] \in Values
      <3>1. n \in 1 .. c + 1 /\ n \in 1 .. Len(Waiting)
        BY <1>1, <1>4
      <3>2. w[n] = Waiting[n]
        BY <1>1, <1>4, <3>1
      <3>3. QED
        BY <1>1, <3>1, <3>2, ElementOfSeq
    <2>2. QED
      BY <2>1
  <1>6. w \in [1 .. c -> Values]
    BY <1>2, <1>5
  <1>7. w = Front(Waiting) /\ Last(Waiting) = Waiting[c + 1] /\ Waiting # <<>>
    BY <1>1, <1>5, <1>6, FrontIs
  <1>8. Last(Waiting) = Item(i)
    <2>1. top + (c + 1) - 1 = i /\ c + 1 \in 1 .. c + 1
      BY Ranges
    <2>2. QED
      BY <1>1, <1>7, <2>1
  <1>9. Abstract!Pop
    BY <1>3, <1>7, <1>8 DEF Abstract!Pop, Abstract!Hand, Hand, Front, Abstract!Front, Last, Abstract!Last
  <1>10. QED
    BY <1>9 DEF Abstract!Next

\* steal() with a task is the steal of the abstract deque.
LEMMA StealRefines ==
  ASSUME IInv, NEW h \in Thieves, StealRace(h), top = thief[h].t
  PROVE  Abstract!Next
  <1>1. top < End /\ top' = top + 1 /\ Hand(Item(top))
    BY StealWins
  <1>2. UNCHANGED <<mem, stores, owner>>
    BY DEF StealRace
  <1>3. top \in Nat /\ End \in Int
    BY Ranges
  <1>4. PICK f : f = [n \in Views' |-> n]
    OBVIOUS
  <1>5. Moves(f) /\ Seen(Bottom)' = Seen(Bottom)
    BY <1>2, <1>4, StillMoves
  <1>6. End' = End /\ \A i \in Int : Item(i)' = Item(i)
    BY <1>2, <1>5 DEF End, Moves
  <1>7. PICK t, e, c : t = top + 1 /\ e = End /\ c = End - top - 1
    OBVIOUS
  <1>8. c \in Nat /\ e - t = c /\ c + 1 = End - top
    <2>1. End - top \in Int /\ End - top > 0 /\ c = End - top - 1
      BY <1>1, <1>3, <1>7
    <2>2. c \in Nat /\ c + 1 = End - top
      <3>1. PICK d : d = End - top
        OBVIOUS
      <3>2. d \in Int /\ d > 0 /\ c = d - 1
        BY <2>1, <3>1
      <3>3. c \in Nat /\ c + 1 = d
        BY <3>2
      <3>4. QED
        BY <3>1, <3>3
    <2>3. e - t = c
      BY <1>3, <1>7
    <2>4. QED
      BY <2>2, <2>3
  <1>9. /\ Waiting \in Seq(Values) /\ Len(Waiting) = c + 1
        /\ \A n \in 1 .. c + 1 : Waiting[n] = Item(top + n - 1)
    BY <1>8, WaitingIs
  <1>10. PICK w : w = [n \in 1 .. e - t |-> Item(t + n - 1)']
    OBVIOUS
  <1>11. Waiting' = w
    BY <1>1, <1>6, <1>7, <1>10, WaitingNext
  <1>12. ASSUME NEW n \in 1 .. c PROVE w[n] = Waiting[n + 1] /\ Waiting[n + 1] \in Values
    <2>1. n + 1 \in 1 .. c + 1 /\ t + n - 1 = top + (n + 1) - 1 /\ t + n - 1 \in Int /\ n + 1 \in 1 .. Len(Waiting)
      <3>1. n \in Nat /\ n + 1 \in 1 .. c + 1
        BY <1>8
      <3>2. t + n - 1 = top + (n + 1) - 1 /\ t + n - 1 \in Int
        BY <1>3, <1>7, <3>1
      <3>3. QED
        BY <1>9, <3>1, <3>2
    <2>2. w[n] = Item(t + n - 1)'
      BY <1>8, <1>10
    <2>3. Item(t + n - 1)' = Item(t + n - 1)
      BY <1>6, <2>1
    <2>4. Waiting[n + 1] = Item(t + n - 1)
      BY <1>9, <2>1
    <2>5. Waiting[n + 1] \in Values
      BY <1>9, <2>1, ElementOfSeq
    <2>6. QED
      BY <2>2, <2>3, <2>4, <2>5
  <1>13. w \in [1 .. c -> Values]
    BY <1>8, <1>10, <1>12
  <1>14. w = Tail(Waiting) /\ Head(Waiting) = Waiting[1] /\ Waiting # <<>>
    BY <1>8, <1>9, <1>12, <1>13, TailIs
  <1>15. Head(Waiting) = Item(top)
    <2>1. top + 1 - 1 = top /\ 1 \in 1 .. c + 1
      BY <1>3, <1>8
    <2>2. QED
      BY <1>9, <1>14, <2>1
  <1>16. Abstract!Steal
    BY <1>1, <1>11, <1>14, <1>15 DEF Abstract!Steal, Abstract!Hand, Hand
  <1>17. QED
    BY <1>16 DEF Abstract!Next

\* Every step is a step of the abstract deque or none.
LEMMA StepRefines ==
  ASSUME IInv, [Next]_vars
  PROVE  [Abstract!Next]_(Abstract!vars)
  <1> DEFINE Stays == Waiting' = Waiting /\ runs' = runs
  <1>1. Stays => [Abstract!Next]_(Abstract!vars)
    BY DEF Abstract!vars
  <1>2. CASE Flush
    <2>1. PICK f : f = [n \in Views' |-> n + 1]
      OBVIOUS
    <2>2. Moves(f) /\ Seen(Bottom)' = Seen(Bottom)
      BY <1>2, <2>1, FlushMoves
    <2>3. UNCHANGED <<top, owner, runs>>
      BY <1>2 DEF Flush
    <2>4. End' = End
      BY <2>2, <2>3 DEF End
    <2>5. QED
      BY <1>1, <2>2, <2>3, <2>4, WaitingKept
  <1>3. CASE Push
    BY <1>3, PushRefines
  <1>4. CASE PopClaim
    <2>1. UNCHANGED <<top, mem, runs>> /\ owner.at = "idle"
      BY <1>4 DEF PopClaim
    <2>2. PICK v : v = Seen(Bottom) - 1
      OBVIOUS
    <2>3. Store(<<Write(Bottom, v)>>) /\ owner' = [owner EXCEPT !.at = "fence", !.b = v]
      BY <1>4, <2>2 DEF PopClaim
    <2>4. End = v + 1 /\ v \in Int
      BY <2>1, <2>2, Ranges
    <2>5. owner'.at = "fence" /\ owner'.b = v
      BY <2>3 DEF IInv, Types
    <2>6. PICK f : f = [n \in Views' |-> IF n <= Len(stores) THEN n ELSE Len(stores)]
      OBVIOUS
    <2>7. Moves(f)
      BY <2>1, <2>3, <2>4, <2>6, BottomMoves
    <2>8. End' = End
      BY <2>4, <2>5 DEF End
    <2>9. QED
      BY <1>1, <2>1, <2>7, <2>8, WaitingKept
  <1>5. CASE PopTake
    <2>1. UNCHANGED <<top, mem, stores>> /\ owner' = OwnerIdle /\ owner.at = "fence" /\ top < owner.b
      BY <1>5 DEF PopTake, Fenced
    <2>2. Hand(Item(owner.b))
      BY <1>5 DEF PopTake, Item, Current
    <2>3. PICK f : f = [n \in Views' |-> n]
      OBVIOUS
    <2>4. Moves(f) /\ Seen(Bottom)' = Seen(Bottom)
      BY <2>1, <2>3, StillMoves
    <2>5. End = owner.b + 1 /\ Seen(Bottom) = owner.b /\ owner.b \in Int /\ top \in Nat /\ End \in Int
      BY <2>1, Ranges
    <2>6. End' = owner.b
      BY <2>1, <2>4, <2>5 DEF End, OwnerIdle
    <2>7. PICK t, e, c, i : t = top /\ e = owner.b /\ c = owner.b - top /\ i = owner.b
      OBVIOUS
    <2>8. c \in Nat /\ c + 1 = End - top /\ e - t = c /\ i = End - 1
      BY <2>1, <2>5, <2>7
    <2>9. \A n \in 1 .. c : Item(t + n - 1)' = Item(top + n - 1)
      <3>1. \A n \in 1 .. c : t + n - 1 \in Int
        BY <2>5, <2>7
      <3>2. \A n \in 1 .. c : Item(t + n - 1)' = Item(t + n - 1)
        BY <2>4, <3>1 DEF Moves
      <3>3. QED
        BY <2>7, <3>2
    <2>10. t = top' /\ e = End' /\ Hand(Item(i))
      BY <2>1, <2>2, <2>6, <2>7
    <2>11. QED
      BY <2>8, <2>9, <2>10, PopRefines
  <1>6. CASE PopLast
    <2>1. UNCHANGED <<top, mem, stores, runs>> /\ owner' = [owner EXCEPT !.at = "last", !.t = top] /\ owner.at = "fence"
      BY <1>6 DEF PopLast, Fenced
    <2>2. PICK f : f = [n \in Views' |-> n]
      OBVIOUS
    <2>3. Moves(f)
      BY <2>1, <2>2, StillMoves
    <2>4. owner'.at = "last" /\ owner'.b = owner.b
      BY <2>1 DEF IInv, Types
    <2>5. End' = End
      BY <2>1, <2>4 DEF End
    <2>6. QED
      BY <1>1, <2>1, <2>3, <2>5, WaitingKept
  <1>7. CASE PopEmpty
    <2>1. End' = top' /\ top' = top /\ runs' = runs
      BY <1>7, PopEmptyIInv DEF PopEmpty
    <2>2. End = top
      <3>1. owner.at = "fence" /\ top > owner.b
        BY <1>7 DEF PopEmpty, Fenced
      <3>2. QED
        BY <3>1, Ranges
    <2>3. Waiting' = <<>> /\ Waiting = <<>>
      BY <1>7, <2>1, <2>2, PopEmptyIInv, NothingWaits
    <2>4. QED
      BY <1>1, <2>1, <2>3
  <1>8. CASE PopRace
    <2>1. End' = top' /\ Waiting' = <<>>
      BY <1>8, PopRaceIInv, NothingWaits
    <2>2. /\ owner.at = "last" /\ owner.t = owner.b /\ owner.b <= top /\ End = owner.b + 1 /\ owner.b \in Int
          /\ top \in Nat /\ top <= End
      <3>1. owner.at = "last"
        BY <1>8 DEF PopRace
      <3>2. QED
        BY <3>1, Ranges DEF IInv, Claimed
    <2>3. CASE top = owner.t
      <3>1. top' = top + 1 /\ Hand(Item(owner.b))
        BY <1>8, <2>3 DEF PopRace, Item, Current
      <3>2. PICK t, e, c, i : t = top + 1 /\ e = top + 1 /\ c = 0 /\ i = owner.b
        OBVIOUS
      <3>3. c \in Nat /\ c + 1 = End - top /\ e - t = c /\ i = End - 1 /\ t = top' /\ e = End' /\ Hand(Item(i))
        BY <2>1, <2>2, <2>3, <3>1, <3>2
      <3>4. \A n \in 1 .. c : Item(t + n - 1)' = Item(top + n - 1)
        BY <3>2
      <3>5. QED
        BY <3>3, <3>4, PopRefines
    <2>4. CASE top # owner.t
      <3>1. runs' = runs
        BY <1>8, <2>4 DEF PopRace
      <3>2. End = top
        BY <2>2, <2>4
      <3>3. Waiting = <<>>
        BY <3>2, NothingWaits
      <3>4. QED
        BY <1>1, <2>1, <3>1, <3>3
    <2>5. QED
      BY <2>3, <2>4
  <1>9. ASSUME NEW h \in Thieves, ThiefNext(h) PROVE [Abstract!Next]_(Abstract!vars)
    <2>1. CASE StealTop(h) \/ StealBottom(h) \/ StealBuffer(h) \/ StealCopy(h) \/ (StealRace(h) /\ top # thief[h].t)
      <3>1. UNCHANGED <<top, mem, stores, owner, runs>>
        BY <2>1 DEF StealTop, StealBottom, StealBuffer, StealCopy, StealRace
      <3>2. QED
        BY <1>1, <3>1, WaitingStill
    <2>2. CASE StealRace(h) /\ top = thief[h].t
      BY <2>2, StealRefines
    <2>3. QED
      BY <1>9, <2>1, <2>2 DEF ThiefNext
  <1>10. CASE UNCHANGED vars
    BY <1>1, <1>10, WaitingStill DEF vars
  <1>11. QED
    BY <1>2, <1>3, <1>4, <1>5, <1>6, <1>7, <1>8, <1>9, <1>10 DEF Next, OwnerNext, PopStep

\* The deque of a worker (WorkStealingDeque.hpp: push(), pop(), steal() and grow(), on
\* x86) implements the deque whose operations take one step: every task that is pushed is
\* returned to exactly one caller, the newest to the owner and the oldest to a thief, for
\* every number of thieves and tasks and through every growth of the buffer.
THEOREM DequeImplementsTaskDeque == Spec => ImplementsTaskDeque
  <1>1. Init => Abstract!Init
    <2> SUFFICES ASSUME Init PROVE Abstract!Init
      OBVIOUS
    <2>1. IInv /\ End = top
      BY InitIInv
    <2>2. Waiting = <<>>
      BY <2>1, NothingWaits
    <2>3. runs = [task \in Values |-> 0]
      BY DEF Init
    <2>4. QED
      BY <2>2, <2>3 DEF Abstract!Init
  <1>2. IInv /\ [Next]_vars => [Abstract!Next]_(Abstract!vars)
    BY StepRefines
  <1>3. QED
    BY <1>1, <1>2, AlwaysIInv, PTL DEF Spec, ImplementsTaskDeque, Abstract!Spec

\* A pop that returned nothing left nothing.
LEMMA EmptyPopStep ==
  ASSUME IInv, [Next]_vars, owner.at # "idle", owner'.at = "idle", runs' = runs
  PROVE  Waiting' = <<>>
  <1>1. ASSUME owner' = owner PROVE FALSE
    BY <1>1
  <1>2. CASE Flush \/ Push \/ UNCHANGED vars
    BY <1>1, <1>2 DEF Flush, Push, vars
  <1>3. CASE PopClaim
    BY <1>3 DEF PopClaim
  <1>4. CASE PopTake
    <2>1. owner.at = "fence" /\ top < owner.b /\ Hand(Item(owner.b))
      BY <1>4 DEF PopTake, Fenced, Item, Current
    <2>2. owner.b \in Int /\ top <= owner.b /\ owner.b < End
      BY <2>1, Ranges
    <2>3. QED
      BY <2>1, <2>2, HandIsNew
  <1>5. CASE PopLast
    <2>1. owner' = [owner EXCEPT !.at = "last", !.t = top]
      BY <1>5 DEF PopLast
    <2>2. owner'.at = "last"
      BY <2>1 DEF IInv, Types
    <2>3. QED
      BY <2>2
  <1>6. CASE PopEmpty
    BY <1>6, PopEmptyIInv, NothingWaits
  <1>7. CASE PopRace
    BY <1>7, PopRaceIInv, NothingWaits
  <1>8. ASSUME NEW h \in Thieves, ThiefNext(h) PROVE FALSE
    BY <1>1, <1>8 DEF ThiefNext, StealTop, StealBottom, StealBuffer, StealCopy, StealRace
  <1>9. QED
    BY <1>2, <1>3, <1>4, <1>5, <1>6, <1>7, <1>8 DEF Next, OwnerNext, PopStep

\* A pop() that returns nothing, because it found the deque empty or lost the race for its
\* last task, leaves none of the worker's own tasks behind (WorkStealingDeque::pop): the
\* worker that goes to steal, and to park, has nothing to come back to.
THEOREM EmptyPopFindsNothing == Spec => EmptyPopLeavesNothing
  <1>1. IInv /\ [Next]_vars
        => [owner.at # "idle" /\ owner'.at = "idle" /\ runs' = runs => Waiting' = <<>>]_vars
    BY EmptyPopStep
  <1>2. QED
    BY <1>1, AlwaysIInv, PTL DEF Spec, EmptyPopLeavesNothing

\* No task is returned by two calls of pop() and steal(), and none that waits was ever
\* returned, for any number of thieves that race with the owner and each other
\* (WorkStealingDeque.hpp, the compare-and-swap on _top and the fence of pop()).
THEOREM DequeHandsOutOnce == Spec => []Abstract!HandedOnce
  <1>1. IInv => Abstract!HandedOnce
    <2> SUFFICES ASSUME IInv PROVE Abstract!HandedOnce
      OBVIOUS
    <2>1. \A task \in Values : runs[task] <= 1
      BY DEF IInv, Types
    <2>2. ASSUME NEW n \in DOMAIN Waiting PROVE runs[Waiting[n]] = 0
      <3>1. top \in Nat /\ End \in Int
        BY Ranges
      <3>2. PICK c : c = End - top
        OBVIOUS
      <3>3. n \in 1 .. c /\ Waiting[n] = Item(top + n - 1)
        BY <3>2, WaitingIs, LenProperties
      <3>4. top + n - 1 \in Int /\ top <= top + n - 1 /\ top + n - 1 < End
        BY <3>1, <3>2, <3>3
      <3>5. QED
        BY <3>3, <3>4, ItemsTyped
    <2>3. QED
      BY <2>1, <2>2 DEF Abstract!HandedOnce
  <1>2. QED
    BY <1>1, AlwaysIInv, PTL
=============================================================================
