----------------------------- MODULE TaskPoolProofs -----------------------------
(* What holds of the task pool and its handles for any workers, callers and      *)
(* programs: every task and every registered handler is in one place at a time.  *)
EXTENDS TaskPool, FiniteSetTheorems, SequenceTheorems, TLAPS

Things == Callers \union Results
Pairs == Results \X Results
Seats == Threads \X Nat

BodyFrame == [op : {"body"}, of : Owners, next : Nat \ {0}, copy : SUBSET Tasks]
SetFrame == [op : {"set"}, of : Results, how : {"ok", "error"}]
FireFrame == [op : {"fire"}, of : Results, left : Seq(Results) \ {<<>>}]
NotifyFrame == [op : {"notify"}, all : BOOLEAN]
HelpFrame == [op : {"help"}, on : SUBSET Results, at : {"test", "external", "steal"}]
Frame == BodyFrame \union SetFrame \union FireFrame \union NotifyFrame \union HelpFrame

\* Types of the queues, the frames and the results.
StateTypeOK ==
    /\ external \in Seq(Tasks) /\ deque \in [Workers -> Seq(Tasks)]
    /\ loop \in [Workers -> {"new", "own", "external", "steal", "asleep", "exit"}]
    /\ calls \in [Threads -> Seq(Frame)]
    /\ shutdown \in BOOLEAN
    /\ outcome \in [Results -> {"none", "ok", "error"}]
    /\ handlers \in [Results -> Seq(Results)]
    /\ remaining \in [Joins -> Int]
    /\ failed \in [Joins -> BOOLEAN]
    /\ acc \in [Slots -> SUBSET Tasks]
    /\ submitted \subseteq Tasks /\ registered \subseteq Pairs

--------------------------------------------------------------------------------
(* An account of the run says at which stage each caller, task and join is, in    *)
(* which seat its frame (or the deque) that has it is, the same of each pair of   *)
(* handlers, and how far each body has got.                                       *)

AccountTypeOK(st, sp, tk, tp, at) ==
    /\ st \in [Things -> {"new", "external", "deque", "frame", "over"}]
    /\ sp \in [Things -> Seats]
    /\ tk \in [Pairs -> {"none", "handler", "firing", "done"}]
    /\ tp \in [Pairs -> Seats]
    /\ at \in [Owners -> Nat \ {0}]

\* Result x has a right to this outcome.
Deserved(x, how) ==
    /\ how = "ok" /\ x \in Tasks => x \in submitted
    /\ how = "ok" /\ x \in Joins => \A r \in Sources(x) : outcome[r] = "ok"
    /\ how = "error" => x \in submitted \/ \E r \in Sources(x) : outcome[r] = "error"

\* The handlers that frame of thread t at depth n has still to run.
FiringAt(r, t, n, tk, tp) == {x \in Results : tk[<<r, x>>] = "firing" /\ tp[<<r, x>>] = <<t, n>>}

FrameIn(f, t, n, st, sp, tk, tp, at) ==
    /\ f.op \in {"body", "set"} => st[f.of] = "frame" /\ sp[f.of] = <<t, n>>
    /\ f.op = "body" => at[f.of] = f.next /\ (f.of \in Tasks => f.of \in submitted)
    /\ f.op = "set" => Deserved(f.of, f.how)
    /\ f.op = "fire" =>
          f.left # <<>> /\ IsInjective(f.left) /\ ToSet(f.left) = FiringAt(f.of, t, n, tk, tp)

FramesIn(st, sp, tk, tp, at) ==
    \A t \in Threads : \A n \in DOMAIN calls[t] : FrameIn(calls[t][n], t, n, st, sp, tk, tp, at)

\* A frame of thing x, or of the handlers of result r, is in the seat.
SeatOf(x, t, n) == n \in DOMAIN calls[t] /\ calls[t][n].op \in {"body", "set"} /\ calls[t][n].of = x
FireSeat(r, t, n) == n \in DOMAIN calls[t] /\ calls[t][n].op = "fire" /\ calls[t][n].of = r

Seated(st, sp, tk, tp) ==
    /\ \A x \in Things : st[x] = "frame" => SeatOf(x, sp[x][1], sp[x][2])
    /\ \A r, x \in Results : tk[<<r, x>>] = "firing" => FireSeat(r, tp[<<r, x>>][1], tp[<<r, x>>][2])

QueuesIn(st, sp) ==
    /\ IsInjective(external) /\ ToSet(external) = {x \in Things : st[x] = "external"}
    /\ \A w \in Workers : IsInjective(deque[w])
    /\ \A w \in Workers : ToSet(deque[w]) = {x \in Things : st[x] = "deque" /\ sp[x] = <<w, 0>>}
    /\ \A x \in Things : st[x] = "deque" => \E w \in Workers : sp[x] = <<w, 0>>

HandlersIn(tk) ==
    \A r \in Results :
        IsInjective(handlers[r]) /\ ToSet(handlers[r]) = {x \in Results : tk[<<r, x>>] = "handler"}

PairsIn(tk) ==
    /\ registered = {p \in Pairs : tk[p] # "none"}
    /\ \A r, x \in Results :
          /\ tk[<<r, x>>] # "none" => r \in Sources(x)
          /\ tk[<<r, x>>] \in {"firing", "done"} => Over(r)
          /\ tk[<<r, x>>] = "handler" => ~ Over(r)

StagesIn(st, tk) ==
    /\ \A x \in Results : (st[x] = "over" <=> Over(x)) /\ (Over(x) => Deserved(x, outcome[x]))
    /\ \A x \in Tasks :
          /\ x \in submitted => st[x] # "new"
          /\ st[x] \in {"external", "deque"} => x \in submitted
          /\ \A r \in Sources(x) :
                /\ tk[<<r, x>>] = "done" <=> st[x] # "new"
                /\ x \in submitted => outcome[r] = "ok"

\* The inputs of a join that were counted, and those that failed it.
Counted(j, tk) == {r \in Sources(j) : tk[<<r, j>>] = "done" /\ outcome[r] = "ok"}
FailedBy(j, r, tk) == tk[<<r, j>>] = "done" /\ outcome[r] = "error"

JoinsIn(st, tk) ==
    \A j \in Joins :
        /\ remaining[j] + Cardinality(Counted(j, tk)) = FanIn(j)
        /\ failed[j] <=> \E r \in Sources(j) : FailedBy(j, r, tk)
        /\ st[j] # "new" <=> failed[j] \/ Counted(j, tk) = Sources(j)

\* What the operations a body has still to do bring about is not there yet.
AheadIn(st, tk, at) ==
    /\ \A y \in Owners : st[y] \in {"new", "external", "deque"} => at[y] = 1
    /\ \A y \in Owners : \A m \in DOMAIN Body[y] :
          m >= at[y] =>
              /\ \A x \in Tasks : Submits(Body[y][m], x) => st[x] = "new"
              /\ \A r, x \in Results : Registers(Body[y][m], r, x) => tk[<<r, x>>] = "none"

Account(st, sp, tk, tp, at) ==
    /\ AccountTypeOK(st, sp, tk, tp, at)
    /\ FramesIn(st, sp, tk, tp, at)
    /\ Seated(st, sp, tk, tp)
    /\ QueuesIn(st, sp)
    /\ HandlersIn(tk)
    /\ PairsIn(tk)
    /\ StagesIn(st, tk)
    /\ JoinsIn(st, tk)
    /\ AheadIn(st, tk, at)

Accounted == \E st, sp, tk, tp, at : Account(st, sp, tk, tp, at)

--------------------------------------------------------------------------------
(* Sequences and sets. *)

\* What is left of a list of distinct elements without its first, or its last, one.
LEMMA TailOfList ==
    ASSUME NEW S, NEW s \in Seq(S), s # <<>>, IsInjective(s)
    PROVE  /\ Head(s) \in S /\ Head(s) \in ToSet(s)
           /\ Tail(s) \in Seq(S) /\ IsInjective(Tail(s))
           /\ ToSet(Tail(s)) = ToSet(s) \ {Head(s)}
<1>1. /\ Len(s) \in Nat /\ Len(s) >= 1 /\ DOMAIN s = 1 .. Len(s)
      /\ Head(s) = s[1] /\ Tail(s) \in Seq(S) /\ Len(Tail(s)) = Len(s) - 1
      /\ DOMAIN Tail(s) = 1 .. (Len(s) - 1)
      /\ \A i \in 1 .. (Len(s) - 1) : Tail(s)[i] = s[i + 1]
    BY HeadTailProperties, LenProperties, EmptySeq
<1>2. Head(s) \in S /\ Head(s) \in ToSet(s)
    BY <1>1, ElementOfSeq DEF ToSet
<1>3. IsInjective(Tail(s))
    BY <1>1 DEF IsInjective
<1>4. ASSUME NEW x \in ToSet(Tail(s)) PROVE x \in ToSet(s) \ {Head(s)}
    <2>1. PICK i \in 1 .. (Len(s) - 1) : x = s[i + 1]
        BY <1>1, <1>4 DEF ToSet
    <2>2. i + 1 \in DOMAIN s /\ i + 1 # 1 /\ 1 \in DOMAIN s
        BY <1>1
    <2> QED BY <2>1, <2>2, <1>1 DEF ToSet, IsInjective
<1>5. ASSUME NEW x \in ToSet(s), x # Head(s) PROVE x \in ToSet(Tail(s))
    <2>1. PICK i \in 1 .. Len(s) : x = s[i]
        BY <1>1, <1>5 DEF ToSet
    <2>2. i # 1 /\ i - 1 \in 1 .. (Len(s) - 1) /\ (i - 1) + 1 = i
        BY <2>1, <1>1, <1>5
    <2>3. Tail(s)[i - 1] = x
        BY <2>1, <2>2, <1>1
    <2> QED BY <2>2, <2>3, <1>1 DEF ToSet
<1> QED BY <1>1, <1>2, <1>3, <1>4, <1>5

LEMMA FrontOfList ==
    ASSUME NEW S, NEW s \in Seq(S), s # <<>>, IsInjective(s)
    PROVE  /\ Last(s) \in S /\ Last(s) \in ToSet(s)
           /\ Front(s) \in Seq(S) /\ IsInjective(Front(s))
           /\ ToSet(Front(s)) = ToSet(s) \ {Last(s)}
<1>1. /\ Len(s) \in Nat /\ Len(s) >= 1 /\ DOMAIN s = 1 .. Len(s) /\ Last(s) = s[Len(s)]
      /\ Front(s) \in Seq(S) /\ DOMAIN Front(s) = 1 .. (Len(s) - 1)
      /\ \A i \in 1 .. (Len(s) - 1) : Front(s)[i] = s[i]
    BY LenProperties, EmptySeq, SubSeqProperties DEF Front, Last
<1>2. Last(s) \in S /\ Last(s) \in ToSet(s)
    BY <1>1, ElementOfSeq DEF ToSet
<1>3. IsInjective(Front(s))
    BY <1>1 DEF IsInjective
<1>4. ASSUME NEW x \in ToSet(Front(s)) PROVE x \in ToSet(s) \ {Last(s)}
    <2>1. PICK i \in 1 .. (Len(s) - 1) : x = s[i]
        BY <1>1, <1>4 DEF ToSet
    <2> QED BY <2>1, <1>1 DEF ToSet, IsInjective
<1>5. ASSUME NEW x \in ToSet(s), x # Last(s) PROVE x \in ToSet(Front(s))
    <2>1. PICK i \in 1 .. Len(s) : x = s[i]
        BY <1>1, <1>5 DEF ToSet
    <2>2. i \in 1 .. (Len(s) - 1)
        BY <2>1, <1>1, <1>5
    <2> QED BY <2>1, <2>2, <1>1 DEF ToSet
<1> QED BY <1>1, <1>2, <1>3, <1>4, <1>5

\* Two lists with nothing in common, one after the other.
LEMMA JoinOfLists ==
    ASSUME NEW S, NEW s \in Seq(S), NEW q \in Seq(S), IsInjective(s), IsInjective(q),
           ToSet(s) \intersect ToSet(q) = {}
    PROVE  s \o q \in Seq(S) /\ IsInjective(s \o q) /\ ToSet(s \o q) = ToSet(s) \union ToSet(q)
<1> DEFINE r == s \o q
<1>1. /\ Len(s) \in Nat /\ Len(q) \in Nat /\ DOMAIN s = 1 .. Len(s) /\ DOMAIN q = 1 .. Len(q)
      /\ r \in Seq(S) /\ DOMAIN r = 1 .. (Len(s) + Len(q))
      /\ \A i \in 1 .. (Len(s) + Len(q)) : r[i] = IF i <= Len(s) THEN s[i] ELSE q[i - Len(s)]
    BY ConcatProperties, LenProperties
<1> HIDE DEF r
<1>2. \A i \in 1 .. Len(s) : s[i] \in ToSet(s)
    BY <1>1 DEF ToSet
<1>3. \A i \in 1 .. Len(q) : q[i] \in ToSet(q)
    BY <1>1 DEF ToSet
<1>4. IsInjective(r)
    <2>1. SUFFICES ASSUME NEW i \in 1 .. (Len(s) + Len(q)), NEW k \in 1 .. (Len(s) + Len(q)), r[i] = r[k]
                   PROVE  i = k
        BY <1>1 DEF IsInjective
    <2>2. CASE i <= Len(s) /\ k <= Len(s)
        <3>1. i \in DOMAIN s /\ k \in DOMAIN s /\ s[i] = s[k]
            BY <1>1, <2>1, <2>2
        <3> QED BY <3>1 DEF IsInjective
    <2>3. CASE i > Len(s) /\ k > Len(s)
        <3>1. i - Len(s) \in DOMAIN q /\ k - Len(s) \in DOMAIN q
            BY <1>1, <2>3
        <3>2. q[i - Len(s)] = q[k - Len(s)]
            BY <1>1, <2>1, <2>3
        <3>3. i - Len(s) = k - Len(s)
            BY <3>1, <3>2 DEF IsInjective
        <3> QED BY <3>3, <1>1
    <2>4. CASE i <= Len(s) /\ k > Len(s)
        <3>1. r[i] \in ToSet(s)
            BY <1>1, <1>2, <2>4
        <3>2. k - Len(s) \in 1 .. Len(q) /\ r[k] = q[k - Len(s)]
            BY <1>1, <2>4
        <3> QED BY <3>1, <3>2, <1>3, <2>1
    <2>5. CASE i > Len(s) /\ k <= Len(s)
        <3>1. r[k] \in ToSet(s)
            BY <1>1, <1>2, <2>5
        <3>2. i - Len(s) \in 1 .. Len(q) /\ r[i] = q[i - Len(s)]
            BY <1>1, <2>5
        <3> QED BY <3>1, <3>2, <1>3, <2>1
    <2> QED BY <2>2, <2>3, <2>4, <2>5, <1>1
<1>5. ASSUME NEW x \in ToSet(r) PROVE x \in ToSet(s) \union ToSet(q)
    <2>1. PICK i \in 1 .. (Len(s) + Len(q)) : x = r[i]
        BY <1>1, <1>5 DEF ToSet
    <2>2. CASE i <= Len(s)
        BY <2>1, <2>2, <1>1, <1>2
    <2>3. CASE i > Len(s)
        <3>1. i - Len(s) \in 1 .. Len(q) /\ r[i] = q[i - Len(s)]
            BY <1>1, <2>3
        <3> QED BY <3>1, <2>1, <1>3
    <2> QED BY <2>2, <2>3, <1>1
<1>6. ASSUME NEW x \in ToSet(s) PROVE x \in ToSet(r)
    <2>1. PICK i \in 1 .. Len(s) : x = s[i]
        BY <1>1, <1>6 DEF ToSet
    <2>2. i \in 1 .. (Len(s) + Len(q)) /\ r[i] = x
        BY <2>1, <1>1
    <2> QED BY <2>2, <1>1 DEF ToSet
<1>7. ASSUME NEW x \in ToSet(q) PROVE x \in ToSet(r)
    <2>1. PICK i \in 1 .. Len(q) : x = q[i]
        BY <1>1, <1>7 DEF ToSet
    <2>2. i + Len(s) \in 1 .. (Len(s) + Len(q)) /\ ~ (i + Len(s) <= Len(s)) /\ (i + Len(s)) - Len(s) = i
        BY <2>1, <1>1
    <2>3. r[i + Len(s)] = x
        BY <2>1, <2>2, <1>1
    <2> QED BY <2>2, <2>3, <1>1 DEF ToSet
<1>8. ToSet(r) = ToSet(s) \union ToSet(q)
    BY <1>5, <1>6, <1>7
<1> QED BY <1>1, <1>4, <1>8 DEF r

\* A list cut in two.
LEMMA CutOfList ==
    ASSUME NEW S, NEW s \in Seq(S), IsInjective(s), NEW k \in 0 .. Len(s)
    PROVE  /\ SubSeq(s, 1, k) \in Seq(S) /\ SubSeq(s, k + 1, Len(s)) \in Seq(S)
           /\ IsInjective(SubSeq(s, 1, k)) /\ IsInjective(SubSeq(s, k + 1, Len(s)))
           /\ ToSet(SubSeq(s, 1, k)) \intersect ToSet(SubSeq(s, k + 1, Len(s))) = {}
           /\ ToSet(SubSeq(s, 1, k)) \union ToSet(SubSeq(s, k + 1, Len(s))) = ToSet(s)
<1> DEFINE a == SubSeq(s, 1, k)
           b == SubSeq(s, k + 1, Len(s))
<1>1. /\ Len(s) \in Nat /\ k \in Nat /\ k <= Len(s) /\ DOMAIN s = 1 .. Len(s)
    BY LenProperties
<1>2. \A i \in 1 .. Len(s) : s[i] \in S
    BY ElementOfSeq
<1>3. a \in Seq(S) /\ DOMAIN a = 1 .. k /\ \A i \in 1 .. k : a[i] = s[i]
    BY <1>1, <1>2, SubSeqProperties
<1>4. b \in Seq(S) /\ DOMAIN b = 1 .. (Len(s) - k) /\ \A i \in 1 .. (Len(s) - k) : b[i] = s[k + i]
    BY <1>1, <1>2, SubSeqProperties
<1> HIDE DEF a, b
<1>5. IsInjective(a) /\ IsInjective(b)
    <2>1. IsInjective(a)
        BY <1>1, <1>3 DEF IsInjective
    <2>2. ASSUME NEW i \in 1 .. (Len(s) - k), NEW n \in 1 .. (Len(s) - k), b[i] = b[n] PROVE i = n
        <3>1. k + i \in DOMAIN s /\ k + n \in DOMAIN s /\ s[k + i] = s[k + n]
            BY <1>1, <1>4, <2>2
        <3>2. k + i = k + n
            BY <3>1 DEF IsInjective
        <3> QED BY <3>2, <1>1
    <2> QED BY <2>1, <2>2, <1>4 DEF IsInjective
<1>6. ToSet(a) \intersect ToSet(b) = {}
    <2>1. SUFFICES ASSUME NEW x, x \in ToSet(a), x \in ToSet(b) PROVE FALSE
        OBVIOUS
    <2>2. PICK i \in 1 .. k : x = s[i]
        BY <2>1, <1>3 DEF ToSet
    <2>3. PICK n \in 1 .. (Len(s) - k) : x = s[k + n]
        BY <2>1, <1>4 DEF ToSet
    <2>4. i \in DOMAIN s /\ k + n \in DOMAIN s /\ i # k + n
        BY <1>1
    <2> QED BY <2>2, <2>3, <2>4 DEF IsInjective
<1>7. ASSUME NEW x \in ToSet(s) PROVE x \in ToSet(a) \union ToSet(b)
    <2>1. PICK i \in 1 .. Len(s) : x = s[i]
        BY <1>1, <1>7 DEF ToSet
    <2>2. CASE i <= k
        BY <2>1, <2>2, <1>1, <1>3 DEF ToSet
    <2>3. CASE i > k
        <3>1. i - k \in 1 .. (Len(s) - k) /\ k + (i - k) = i
            BY <2>1, <2>3, <1>1
        <3>2. b[i - k] = x
            BY <3>1, <2>1, <1>4
        <3> QED BY <3>1, <3>2, <1>4 DEF ToSet
    <2> QED BY <2>2, <2>3, <1>1
<1>8. ASSUME NEW x \in ToSet(a) \union ToSet(b) PROVE x \in ToSet(s)
    <2>1. CASE x \in ToSet(a)
        BY <2>1, <1>1, <1>3 DEF ToSet
    <2>2. CASE x \in ToSet(b)
        <3>1. PICK n \in 1 .. (Len(s) - k) : x = s[k + n]
            BY <2>2, <1>4 DEF ToSet
        <3>2. k + n \in 1 .. Len(s)
            BY <1>1
        <3> QED BY <3>1, <3>2, <1>1 DEF ToSet
    <2> QED BY <2>1, <2>2, <1>8
<1> QED BY <1>3, <1>4, <1>5, <1>6, <1>7, <1>8 DEF a, b

--------------------------------------------------------------------------------
(* Stacks. *)

\* The first base frames of thread t stay and frames fs come on top of them.
Stacked(t, base, fs) ==
    /\ base \in Nat /\ base <= Len(calls[t]) /\ Len(fs) \in Nat
    /\ calls' \in [Threads -> Seq(Frame)]
    /\ \A u \in Threads \ {t} : calls'[u] = calls[u]
    /\ DOMAIN calls'[t] = 1 .. (base + Len(fs))
    /\ \A n \in 1 .. base : n \in DOMAIN calls[t] /\ calls'[t][n] = calls[t][n]
    /\ \A k \in 1 .. Len(fs) : calls'[t][base + k] = fs[k]

LEMMA ConcatStacked ==
    ASSUME calls \in [Threads -> Seq(Frame)], NEW t \in Threads, NEW low \in Seq(Frame), NEW fs \in Seq(Frame),
           Len(low) <= Len(calls[t]), \A n \in 1 .. Len(low) : low[n] = calls[t][n],
           calls' = [calls EXCEPT ![t] = low \o fs]
    PROVE  Stacked(t, Len(low), fs)
<1>1. /\ Len(low) \in Nat /\ Len(fs) \in Nat /\ low \o fs \in Seq(Frame) 
      /\ DOMAIN (low \o fs) = 1 .. (Len(low) + Len(fs))
      /\ \A i \in 1 .. (Len(low) + Len(fs)) :
            (low \o fs)[i] = IF i <= Len(low) THEN low[i] ELSE fs[i - Len(low)]
    BY ConcatProperties, LenProperties
<1>2. calls'[t] = low \o fs /\ \A u \in Threads \ {t} : calls'[u] = calls[u]
    OBVIOUS
<1>3. calls' \in [Threads -> Seq(Frame)]
    BY <1>1
<1>4. \A k \in 1 .. Len(fs) : Len(low) + k \in 1 .. (Len(low) + Len(fs)) /\ ~ (Len(low) + k <= Len(low))
                             /\ (Len(low) + k) - Len(low) = k
    BY <1>1
<1>5. \A k \in 1 .. Len(fs) : calls'[t][Len(low) + k] = fs[k]
    BY <1>1, <1>2, <1>4
<1>6. \A n \in 1 .. Len(low) : n \in 1 .. (Len(low) + Len(fs)) /\ calls'[t][n] = calls[t][n]
    BY <1>1, <1>2
<1>7. calls[t] \in Seq(Frame) /\ Len(calls[t]) \in Nat /\ DOMAIN calls[t] = 1 .. Len(calls[t])
    BY LenProperties
<1>8. \A n \in 1 .. Len(low) : n \in DOMAIN calls[t]
    BY <1>1, <1>7
<1> QED BY <1>1, <1>2, <1>3, <1>5, <1>6, <1>8 DEF Stacked

LEMMA ReturnStacked ==
    ASSUME calls \in [Threads -> Seq(Frame)], NEW t \in Threads, Busy(t), NEW fs \in Seq(Frame), Return(t, fs)
    PROVE  Stacked(t, Len(calls[t]) - 1, fs)
<1>1. /\ calls[t] \in Seq(Frame) /\ Len(calls[t]) \in Nat /\ Len(calls[t]) >= 1
      /\ Front(calls[t]) \in Seq(Frame) /\ Len(Front(calls[t])) = Len(calls[t]) - 1
      /\ \A n \in 1 .. Len(Front(calls[t])) : Front(calls[t])[n] = calls[t][n]
    <2>1. calls[t] \in Seq(Frame) /\ calls[t] # <<>>
        BY DEF Busy
    <2>2. PICK s \in Seq(Frame) : s = calls[t] /\ s # <<>>
        BY <2>1
    <2>3. Len(s) \in Nat /\ Len(s) >= 1 /\ \A i \in 1 .. Len(s) : s[i] \in Frame
        BY <2>2, LenProperties, EmptySeq, ElementOfSeq
    <2>4. /\ Front(s) \in Seq(Frame) /\ Len(Front(s)) = Len(s) - 1
          /\ \A n \in 1 .. (Len(s) - 1) : Front(s)[n] = s[n]
        <3>0. Len(s) - 1 \in Nat
            BY <2>3
        <3>1. PICK n \in Nat : n = Len(s) - 1
            BY <3>0
        <3>2. \A i \in 1 .. n : s[i] \in Frame
            BY <2>3, <3>1
        <3>3. /\ SubSeq(s, 1, n) \in Seq(Frame)
              /\ Len(SubSeq(s, 1, n)) = IF 1 <= n THEN n - 1 + 1 ELSE 0
              /\ \A i \in 1 .. n - 1 + 1 : SubSeq(s, 1, n)[i] = s[1 + i - 1]
            BY <3>2, SubSeqProperties
        <3>4. Front(s) = SubSeq(s, 1, n)
            BY <3>1 DEF Front
        <3> QED BY <3>1, <3>3, <3>4
    <2> QED BY <2>2, <2>3, <2>4
<1>2. calls' = [calls EXCEPT ![t] = Front(calls[t]) \o fs]
    BY DEF Return
<1> DEFINE low == Front(calls[t])
<1>3. low \in Seq(Frame) /\ Len(low) <= Len(calls[t]) /\ \A n \in 1 .. Len(low) : low[n] = calls[t][n]
    BY <1>1
<1>4. calls' = [calls EXCEPT ![t] = low \o fs]
    BY <1>2
<1>5. Len(low) = Len(calls[t]) - 1
    BY <1>1
<1> HIDE DEF low
<1>6. Stacked(t, Len(low), fs)
    BY <1>3, <1>4, ConcatStacked
<1> QED BY <1>5, <1>6

LEMMA CallStacked ==
    ASSUME calls \in [Threads -> Seq(Frame)], NEW t \in Threads, NEW f \in Frame, Call(t, f)
    PROVE  Stacked(t, Len(calls[t]), <<f>>)
<1>1. calls[t] \in Seq(Frame) /\ Append(calls[t], f) = calls[t] \o <<f>> /\ <<f>> \in Seq(Frame)
    OBVIOUS
<1>2. calls' = [calls EXCEPT ![t] = calls[t] \o <<f>>]
    BY <1>1 DEF Call
<1> DEFINE low == calls[t]
           fs == <<f>>
<1>3. low \in Seq(Frame) /\ Len(low) <= Len(calls[t]) /\ fs \in Seq(Frame) /\ calls' = [calls EXCEPT ![t] = low \o fs]
    BY <1>1, <1>2, LenProperties
<1>4. \A n \in 1 .. Len(low) : low[n] = calls[t][n]
    OBVIOUS
<1>5. Len(low) = Len(calls[t])
    OBVIOUS
<1>6. fs = <<f>>
    OBVIOUS
<1> HIDE DEF low, fs
<1>7. Stacked(t, Len(low), fs)
    BY <1>3, <1>4, ConcatStacked
<1> QED BY <1>5, <1>6, <1>7

\* The innermost frame, by its kind.
LEMMA TopFrame ==
    ASSUME calls \in [Threads -> Seq(Frame)], NEW t \in Threads, NEW op, In(t, op)
    PROVE  /\ Busy(t) /\ Len(calls[t]) \in Nat \ {0} /\ Len(calls[t]) \in DOMAIN calls[t]
           /\ DOMAIN calls[t] = 1 .. Len(calls[t])
           /\ Top(t) = calls[t][Len(calls[t])] /\ Top(t) \in Frame /\ Top(t).op = op
<1>1. calls[t] \in Seq(Frame) /\ calls[t] # <<>>
    BY DEF In, Busy
<1>2. Len(calls[t]) \in Nat \ {0} /\ DOMAIN calls[t] = 1 .. Len(calls[t])
    BY <1>1, LenProperties, EmptySeq
<1>3. Len(calls[t]) \in DOMAIN calls[t] /\ calls[t][Len(calls[t])] \in Frame
    BY <1>1, <1>2, ElementOfSeq
<1> QED BY <1>2, <1>3 DEF In, Top, Last

LEMMA Kinds ==
    ASSUME NEW f \in Frame
    PROVE  /\ f.op = "body" => f \in BodyFrame
           /\ f.op = "set" => f \in SetFrame
           /\ f.op = "fire" => f \in FireFrame
           /\ f.op = "notify" => f \in NotifyFrame
           /\ f.op = "help" => f \in HelpFrame
BY DEF Frame, BodyFrame, SetFrame, FireFrame, NotifyFrame, HelpFrame

\* The operation a thread is about to do is one of its body's, and of its kind.
LEMMA OpFacts ==
    ASSUME calls \in [Threads -> Seq(Frame)], NEW t \in Threads, NEW op, Does(t, op)
    PROVE  /\ In(t, "body") /\ Top(t) \in BodyFrame /\ Top(t).of \in Owners /\ Top(t).next \in Nat \ {0}
           /\ Top(t).next \in DOMAIN Body[Top(t).of] /\ Op(t) = Body[Top(t).of][Top(t).next]
           /\ Op(t) \in Operation /\ Op(t).op = op
           /\ Advanced(t) \in BodyFrame /\ Advanced(t).op = "body" /\ Advanced(t).of = Top(t).of
           /\ Advanced(t).next = Top(t).next + 1 /\ Advanced(t).copy = Top(t).copy
<1>1. In(t, "body") /\ Top(t) \in BodyFrame
    BY TopFrame, Kinds DEF Does
<1>2. Top(t).of \in Owners /\ Top(t).next \in Nat \ {0}
    BY <1>1 DEF BodyFrame
<1>3. Body[Top(t).of] \in Seq(Operation)
    BY <1>2, PoolAssumption
<1>4. Top(t).next \in DOMAIN Body[Top(t).of]
    BY <1>2, <1>3, LenProperties DEF Does
<1>5. Op(t) \in Operation /\ Op(t).op = op
    BY <1>3, <1>4, ElementOfSeq, LenProperties DEF Op, Does
<1>6. /\ Advanced(t) \in BodyFrame /\ Advanced(t).op = "body" /\ Advanced(t).of = Top(t).of
      /\ Advanced(t).next = Top(t).next + 1 /\ Advanced(t).copy = Top(t).copy
    <2>1. PICK f \in BodyFrame : f = Top(t)
        BY <1>1
    <2>2. [f EXCEPT !.next = f.next + 1] \in BodyFrame
        <3>1. f.next + 1 \in Nat \ {0}
            BY DEF BodyFrame
        <3>2. \A k \in Nat \ {0} : [f EXCEPT !.next = k] \in BodyFrame
            BY DEF BodyFrame
        <3> QED BY <3>1, <3>2
    <2>3. Advanced(t) = [f EXCEPT !.next = f.next + 1]
        BY <2>1 DEF Advanced
    <2> QED BY <2>1, <2>2, <2>3 DEF BodyFrame
<1> QED BY <1>1, <1>2, <1>4, <1>5, <1>6 DEF Op

LEMMA Operations ==
    ASSUME NEW o \in Operation
    PROVE  /\ o.op \in {"submit", "batch"} => o.tasks \in Seq(Tasks)
           /\ o.op = "after" => o.on \in Results /\ o.run \in Results
           /\ o.op \in {"wait", "help"} => o.on \subseteq Results
BY DEF Operation

LEMMA NewFrames ==
    /\ \A x \in Owners : BodyOf(x) \in BodyFrame
    /\ \A r \in Results : Setting(r, "ok") \in SetFrame /\ Setting(r, "error") \in SetFrame
    /\ \A r \in Results : \A left \in Seq(Results) \ {<<>>} : Firing(r, left) \in FireFrame
    /\ \A all \in BOOLEAN : Notifying(all) \in NotifyFrame
    /\ \A rs \in SUBSET Results : Helping(rs) \in HelpFrame
BY DEF BodyOf, Setting, Firing, Notifying, Helping, BodyFrame, SetFrame, FireFrame, NotifyFrame, HelpFrame

--------------------------------------------------------------------------------
(* Types. *)

LEMMA FrameSets ==
    /\ BodyFrame \subseteq Frame /\ SetFrame \subseteq Frame /\ FireFrame \subseteq Frame
    /\ NotifyFrame \subseteq Frame /\ HelpFrame \subseteq Frame
    /\ <<>> \in Seq(Frame)
    /\ \A f \in Frame : <<f>> \in Seq(Frame) /\ Len(<<f>>) = 1 /\ <<f>>[1] = f
    /\ \A f, g \in Frame : /\ <<f, g>> \in Seq(Frame) /\ Len(<<f, g>>) = 2
                           /\ <<f, g>>[1] = f /\ <<f, g>>[2] = g
BY DEF Frame

LEMMA SlotsOfThreads == \A t \in Threads : SlotOf(t) \in Slots
BY DEF SlotOf, Slots

\* The frames a handler leaves: the rest of the handlers, and what it calls.
FiredFrames(t, frames) ==
    IF Tail(Top(t).left) = <<>> THEN frames ELSE <<Firing(Top(t).of, Tail(Top(t).left))>> \o frames

LEMMA FireFacts ==
    ASSUME calls \in [Threads -> Seq(Frame)], NEW t \in Threads, In(t, "fire")
    PROVE  /\ Top(t) \in FireFrame /\ Top(t).of \in Results
           /\ Top(t).left \in Seq(Results) /\ Top(t).left # <<>>
           /\ Head(Top(t).left) \in Results /\ Tail(Top(t).left) \in Seq(Results)
<1>1. Top(t) \in FireFrame
    BY TopFrame, Kinds
<1>2. Top(t).of \in Results /\ Top(t).left \in Seq(Results) /\ Top(t).left # <<>>
    BY <1>1 DEF FireFrame
<1> QED BY <1>1, <1>2, HeadTailProperties

LEMMA FiredStacked ==
    ASSUME calls \in [Threads -> Seq(Frame)], NEW t \in Threads, In(t, "fire"), NEW frames \in Seq(Frame),
           FiredFirst(t, frames)
    PROVE  FiredFrames(t, frames) \in Seq(Frame) /\ Stacked(t, Len(calls[t]) - 1, FiredFrames(t, frames))
<1> DEFINE left == Tail(Top(t).left)
           fs == (IF left = <<>> THEN <<>> ELSE <<Firing(Top(t).of, left)>>) \o frames
<1>1. /\ Busy(t) /\ Top(t).of \in Results /\ left \in Seq(Results)
    BY FireFacts DEF In
<1>2. left # <<>> => <<Firing(Top(t).of, left)>> \in Seq(Frame)
    BY <1>1, NewFrames, FrameSets
<1>3. fs = FiredFrames(t, frames)
    <2>1. <<>> \o frames = frames
        OBVIOUS
    <2> QED BY <2>1 DEF FiredFrames
<1>4. fs \in Seq(Frame)
    <2>1. CASE left = <<>>
        BY <2>1, <1>3 DEF FiredFrames
    <2>2. CASE left # <<>>
        BY <2>2, <1>2, ConcatProperties
    <2> QED BY <2>1, <2>2
<1>5. Return(t, fs)
    BY DEF FiredFirst
<1> HIDE DEF fs, left
<1>6. Stacked(t, Len(calls[t]) - 1, fs)
    BY <1>1, <1>4, <1>5, ReturnStacked
<1> QED BY <1>3, <1>4, <1>6

LEMMA SubmitStacked ==
    ASSUME StateTypeOK, NEW t \in Threads, Submit(t)
    PROVE  /\ Op(t).tasks \in Seq(Tasks)
           /\ Stacked(t, Len(calls[t]) - 1, <<Advanced(t), Notifying(Op(t).op = "batch")>>)
<1>1. PICK op \in {"submit", "batch"} : Does(t, op)
    BY DEF Submit
<1>2. /\ Busy(t) /\ Advanced(t) \in BodyFrame /\ Op(t) \in Operation /\ Op(t).op = op
    BY <1>1, OpFacts DEF StateTypeOK, In
<1>3. Notifying(Op(t).op = "batch") \in Frame /\ Advanced(t) \in Frame
    BY <1>2, NewFrames, FrameSets
<1>4. <<Advanced(t), Notifying(Op(t).op = "batch")>> \in Seq(Frame)
    BY <1>3, FrameSets
<1> QED BY <1>1, <1>2, <1>4, Operations, ReturnStacked DEF Submit, StateTypeOK

LEMMA PutTyped ==
    ASSUME StateTypeOK, NEW t \in Threads, NEW tasks \in Seq(Tasks), Put(t, tasks)
    PROVE  /\ external' \in Seq(Tasks) /\ deque' \in [Workers -> Seq(Tasks)] /\ submitted' \subseteq Tasks
<1>1. ToSet(tasks) \subseteq Tasks
    BY ElementOfSeq, LenProperties DEF ToSet
<1>2. external \o tasks \in Seq(Tasks) /\ \A w \in Workers : deque[w] \o tasks \in Seq(Tasks)
    BY ConcatProperties DEF StateTypeOK
<1> QED BY <1>1, <1>2 DEF Put, StateTypeOK

LEMMA EndBodyStacked ==
    ASSUME StateTypeOK, NEW t \in Threads, EndBody(t)
    PROVE  /\ Top(t) \in BodyFrame /\ Top(t).of \in Owners
           /\ \/ Top(t).of \in Callers /\ Stacked(t, Len(calls[t]) - 1, <<>>) /\ UNCHANGED <<outcome, handlers>>
              \/ \E how \in {"ok", "error"} : Top(t).of \in Tasks /\ Settle(t, Top(t).of, how)
<1>1. In(t, "body")
    BY DEF EndBody
<1>2. Busy(t) /\ Top(t) \in BodyFrame
    BY <1>1, TopFrame, Kinds DEF StateTypeOK
<1>3. Top(t).of \in Owners
    BY <1>2 DEF BodyFrame
<1>4. MayFail \subseteq Tasks
    BY PoolAssumption
<1>5. ASSUME Return(t, <<>>) PROVE Stacked(t, Len(calls[t]) - 1, <<>>)
    BY <1>2, <1>5, ReturnStacked, FrameSets DEF StateTypeOK
<1> QED BY <1>2, <1>3, <1>4, <1>5 DEF EndBody

LEMMA SettleStacked ==
    ASSUME StateTypeOK, NEW t \in Threads, Busy(t), NEW r \in Results, NEW how \in {"ok", "error"},
           Settle(t, r, how)
    PROVE  /\ outcome' \in [Results -> {"none", "ok", "error"}]
           /\ handlers' \in [Results -> Seq(Results)]
           /\ Stacked(t, Len(calls[t]) - 1, IF handlers[r] = <<>> THEN <<>> ELSE <<Firing(r, handlers[r])>>)
<1>1. handlers[r] \in Seq(Results)
    BY DEF StateTypeOK
<1>2. (IF handlers[r] = <<>> THEN <<>> ELSE <<Firing(r, handlers[r])>>) \in Seq(Frame)
    <2>1. CASE handlers[r] = <<>>
        BY <2>1, FrameSets
    <2>2. CASE handlers[r] # <<>>
        <3>1. Firing(r, handlers[r]) \in Frame
            BY <1>1, <2>2, NewFrames, FrameSets
        <3> QED BY <3>1, <2>2, FrameSets
    <2> QED BY <2>1, <2>2
<1>3. <<>> \in Seq(Results)
    OBVIOUS
<1> QED BY <1>2, <1>3, ReturnStacked DEF StateTypeOK, Settle

LEMMA SetResultFacts ==
    ASSUME StateTypeOK, NEW t \in Threads, SetResult(t)
    PROVE  /\ Busy(t) /\ Top(t) \in SetFrame /\ Top(t).of \in Results /\ Top(t).how \in {"ok", "error"}
           /\ Settle(t, Top(t).of, Top(t).how)
<1>1. Busy(t) /\ Top(t) \in SetFrame
    BY TopFrame, Kinds DEF StateTypeOK, SetResult
<1> QED BY <1>1 DEF SetFrame, SetResult

LEMMA WaitStacked ==
    ASSUME StateTypeOK, NEW t \in Threads, Wait(t)
    PROVE  \/ /\ Top(t).of \in Tasks /\ \E r \in Op(t).on : outcome[r] = "error"
              /\ Stacked(t, Len(calls[t]) - 1, <<Setting(Top(t).of, "error")>>)
           \/ Stacked(t, Len(calls[t]) - 1, <<Advanced(t)>>)
<1>1. Busy(t) /\ Advanced(t) \in Frame
    BY OpFacts, FrameSets DEF Wait, StateTypeOK, In
<1>2. Top(t).of \in Tasks => Setting(Top(t).of, "error") \in Frame
    BY NewFrames, FrameSets DEF Results
<1> QED BY <1>1, <1>2, FrameSets, ReturnStacked DEF Wait, StateTypeOK

LEMMA OnCompleteStacked ==
    ASSUME StateTypeOK, NEW t \in Threads, OnComplete(t)
    PROVE  /\ Op(t).on \in Results /\ Op(t).run \in Results
           /\ \/ ~ Over(Op(t).on) /\ Stacked(t, Len(calls[t]) - 1, <<Advanced(t)>>)
              \/ Over(Op(t).on) /\ Stacked(t, Len(calls[t]) - 1, <<Advanced(t), Firing(Op(t).on, <<Op(t).run>>)>>)
<1>1. Busy(t) /\ Advanced(t) \in Frame /\ Op(t).on \in Results /\ Op(t).run \in Results
    BY OpFacts, Operations, FrameSets DEF OnComplete, StateTypeOK, In
<1>2. <<Op(t).run>> \in Seq(Results) \ {<<>>}
    BY <1>1
<1>3. Firing(Op(t).on, <<Op(t).run>>) \in Frame
    BY <1>1, <1>2, NewFrames, FrameSets
<1> QED BY <1>1, <1>3, FrameSets, ReturnStacked DEF OnComplete, StateTypeOK

\* A step of a body that concerns no queue and no result: it may call help_until().
BodyGoesOn(t) ==
    /\ In(t, "body") /\ Top(t) \in BodyFrame /\ Top(t).of \in Owners
    /\ Top(t).next \in DOMAIN Body[Top(t).of]
    /\ \E f \in BodyFrame : \E fs \in {<<f>>} \union {<<f, h>> : h \in HelpFrame} :
          /\ f.of = Top(t).of /\ f.next = Top(t).next + 1
          /\ fs \in Seq(Frame) /\ Stacked(t, Len(calls[t]) - 1, fs)

\* A step inside of a function of the pool: it leaves frames of such functions only.
IdleFrames == {<<>>} \union {<<h>> : h \in HelpFrame} \union (HelpFrame \X NotifyFrame)
PoolGoesOn(t) ==
    /\ Busy(t) /\ Top(t) \in Frame /\ Top(t).op \in {"notify", "help"}
    /\ \E fs \in IdleFrames : fs \in Seq(Frame) /\ Stacked(t, Len(calls[t]) - 1, fs)

LEMMA PlainBodyStep ==
    ASSUME StateTypeOK, NEW t \in Threads, NEW op, Does(t, op), Return(t, <<Advanced(t)>>)
    PROVE  BodyGoesOn(t)
<1>1. /\ In(t, "body") /\ Top(t) \in BodyFrame /\ Top(t).of \in Owners /\ Top(t).next \in DOMAIN Body[Top(t).of]
      /\ Advanced(t) \in BodyFrame /\ Advanced(t).of = Top(t).of /\ Advanced(t).next = Top(t).next + 1
    BY OpFacts DEF StateTypeOK
<1>2. <<Advanced(t)>> \in Seq(Frame) /\ Stacked(t, Len(calls[t]) - 1, <<Advanced(t)>>)
    BY <1>1, FrameSets, ReturnStacked DEF StateTypeOK, In
<1> QED BY <1>1, <1>2 DEF BodyGoesOn

LEMMA StartHelpingStep ==
    ASSUME StateTypeOK, NEW t \in Threads, StartHelping(t)
    PROVE  BodyGoesOn(t)
<1>1. /\ In(t, "body") /\ Top(t) \in BodyFrame /\ Top(t).of \in Owners /\ Top(t).next \in DOMAIN Body[Top(t).of]
      /\ Advanced(t) \in BodyFrame /\ Advanced(t).of = Top(t).of /\ Advanced(t).next = Top(t).next + 1
      /\ Op(t) \in Operation /\ Op(t).op = "help"
    BY OpFacts DEF StateTypeOK, StartHelping
<1>2. Helping(Op(t).on) \in HelpFrame
    BY <1>1, Operations, NewFrames
<1>3. <<Advanced(t), Helping(Op(t).on)>> \in Seq(Frame)
    BY <1>1, <1>2, FrameSets
<1>4. Stacked(t, Len(calls[t]) - 1, <<Advanced(t), Helping(Op(t).on)>>)
    BY <1>1, <1>3, ReturnStacked DEF StateTypeOK, In, StartHelping
<1> QED BY <1>1, <1>2, <1>3, <1>4 DEF BodyGoesOn

LEMMA ReadAccStep ==
    ASSUME StateTypeOK, NEW t \in Threads, ReadAcc(t)
    PROVE  /\ BodyGoesOn(t)
           /\ Stacked(t, Len(calls[t]) - 1, <<[Advanced(t) EXCEPT !.copy = acc[SlotOf(t)]]>>)
<1>1. /\ In(t, "body") /\ Top(t) \in BodyFrame /\ Top(t).of \in Owners /\ Top(t).next \in DOMAIN Body[Top(t).of]
      /\ Advanced(t) \in BodyFrame /\ Advanced(t).of = Top(t).of /\ Advanced(t).next = Top(t).next + 1
    BY OpFacts DEF StateTypeOK, ReadAcc
<1>2. acc[SlotOf(t)] \in SUBSET Tasks
    BY SlotsOfThreads DEF StateTypeOK
<1> DEFINE f == [Advanced(t) EXCEPT !.copy = acc[SlotOf(t)]]
<1>3. f \in BodyFrame /\ f.of = Top(t).of /\ f.next = Top(t).next + 1
    BY <1>1, <1>2 DEF BodyFrame
<1>4. <<f>> \in Seq(Frame) /\ Return(t, <<f>>)
    BY <1>3, FrameSets DEF ReadAcc
<1> HIDE DEF f
<1>5. Stacked(t, Len(calls[t]) - 1, <<f>>)
    BY <1>1, <1>4, ReturnStacked DEF StateTypeOK, In
<1>6. BodyGoesOn(t)
    BY <1>1, <1>3, <1>4, <1>5 DEF BodyGoesOn
<1> QED BY <1>5, <1>6 DEF f

LEMMA HelpFacts ==
    ASSUME StateTypeOK, NEW t \in Threads, In(t, "help")
    PROVE  /\ Busy(t) /\ Top(t) \in Frame /\ Top(t).op = "help" /\ Top(t) \in HelpFrame
           /\ \A label \in {"test", "external", "steal"} :
                 HelpGoto(t, label) \in HelpFrame /\ HelpGoto(t, label).op = "help"
<1>1. Busy(t) /\ Top(t) \in Frame /\ Top(t).op = "help" /\ Top(t) \in HelpFrame
    BY TopFrame, Kinds DEF StateTypeOK
<1>2. PICK f \in HelpFrame : f = Top(t)
    BY <1>1
<1>3. \A label \in {"test", "external", "steal"} : [f EXCEPT !.at = label] \in HelpFrame
    BY DEF HelpFrame
<1> QED BY <1>1, <1>2, <1>3 DEF HelpGoto, HelpFrame

LEMMA NotifyStep ==
    ASSUME StateTypeOK, NEW t \in Threads, Notify(t)
    PROVE  PoolGoesOn(t)
<1>1. Busy(t) /\ Top(t) \in Frame /\ Top(t).op = "notify"
    BY TopFrame DEF StateTypeOK, Notify
<1>2. <<>> \in IdleFrames /\ <<>> \in Seq(Frame)
    BY DEF IdleFrames
<1>3. Stacked(t, Len(calls[t]) - 1, <<>>)
    BY <1>1, <1>2, ReturnStacked DEF StateTypeOK, Notify
<1> QED BY <1>1, <1>2, <1>3 DEF PoolGoesOn

LEMMA HelpTestStep ==
    ASSUME StateTypeOK, NEW t \in Threads, HelpTest(t)
    PROVE  PoolGoesOn(t)
<1>1. Busy(t) /\ Top(t) \in Frame /\ Top(t).op = "help" /\ HelpGoto(t, "external") \in HelpFrame
    BY HelpFacts DEF HelpTest, HelpAt
<1>2. Notifying(FALSE) \in NotifyFrame
    BY NewFrames
<1> DEFINE two == <<HelpGoto(t, "external"), Notifying(FALSE)>>
<1>3. two \in IdleFrames /\ <<>> \in IdleFrames
    <2>1. two \in HelpFrame \X NotifyFrame
        BY <1>1, <1>2
    <2> QED BY <2>1 DEF IdleFrames
<1>4. two \in Seq(Frame) /\ <<>> \in Seq(Frame)
    BY <1>1, <1>2, FrameSets
<1>5. Return(t, <<>>) \/ Return(t, two)
    BY DEF HelpTest
<1> HIDE DEF two
<1>6. Stacked(t, Len(calls[t]) - 1, <<>>) \/ Stacked(t, Len(calls[t]) - 1, two)
    BY <1>1, <1>4, <1>5, ReturnStacked DEF StateTypeOK
<1> QED BY <1>1, <1>3, <1>4, <1>6 DEF PoolGoesOn

LEMMA HelpGotoStep ==
    ASSUME StateTypeOK, NEW t \in Threads, In(t, "help"), NEW label \in {"test", "external", "steal"},
           Return(t, <<HelpGoto(t, label)>>)
    PROVE  PoolGoesOn(t)
<1>1. Busy(t) /\ Top(t) \in Frame /\ Top(t).op = "help" /\ HelpGoto(t, label) \in HelpFrame
    BY HelpFacts
<1>2. <<HelpGoto(t, label)>> \in IdleFrames /\ <<HelpGoto(t, label)>> \in Seq(Frame)
    BY <1>1, FrameSets DEF IdleFrames
<1>3. Stacked(t, Len(calls[t]) - 1, <<HelpGoto(t, label)>>)
    BY <1>1, <1>2, ReturnStacked DEF StateTypeOK
<1> QED BY <1>1, <1>2, <1>3 DEF PoolGoesOn

\* Thread t takes task x, from the loop of a worker or inside of help_until().
Takes(t, x) ==
    /\ x \in Tasks
    /\ \/ Stacked(t, Len(calls[t]), <<BodyOf(x)>>)
       \/ In(t, "help") /\ \E h \in HelpFrame : Stacked(t, Len(calls[t]) - 1, <<h, BodyOf(x)>>)

LEMMA CallTakes ==
    ASSUME StateTypeOK, NEW t \in Threads, NEW x \in Tasks, Call(t, BodyOf(x))
    PROVE  Takes(t, x)
<1>1. BodyOf(x) \in Frame /\ <<BodyOf(x)>> \in Seq(Frame)
    BY NewFrames, FrameSets DEF Owners
<1>2. Stacked(t, Len(calls[t]), <<BodyOf(x)>>)
    BY <1>1, CallStacked DEF StateTypeOK
<1> QED BY <1>2 DEF Takes

LEMMA HelpTakes ==
    ASSUME StateTypeOK, NEW t \in Threads, NEW x \in Tasks, In(t, "help"),
           Return(t, <<HelpGoto(t, "test"), BodyOf(x)>>)
    PROVE  Takes(t, x)
<1>1. Busy(t) /\ HelpGoto(t, "test") \in HelpFrame
    BY HelpFacts
<1>2. BodyOf(x) \in Frame
    BY NewFrames, FrameSets DEF Owners
<1>3. <<HelpGoto(t, "test"), BodyOf(x)>> \in Seq(Frame)
    BY <1>1, <1>2, FrameSets
<1>4. Stacked(t, Len(calls[t]) - 1, <<HelpGoto(t, "test"), BodyOf(x)>>)
    BY <1>1, <1>3, ReturnStacked DEF StateTypeOK
<1> QED BY <1>1, <1>4 DEF Takes

\* The queues' part of a step that takes x: the shared queue's, with a share of k tasks
\* for w, or a deque's, from either end.
TakesShared(x) == external # <<>> /\ x = Head(external) /\ external' = Tail(external) /\ UNCHANGED deque
TakesShare(x, w) ==
    /\ external # <<>> /\ x = Head(external) /\ external' = Left(Tail(external))
    /\ deque' = [deque EXCEPT ![w] = @ \o Taken(Tail(external))]
TakesFrom(x, v) ==
    /\ deque[v] # <<>> /\ UNCHANGED external
    /\ \/ x = Last(deque[v]) /\ deque' = [deque EXCEPT ![v] = Front(@)]
       \/ x = Head(deque[v]) /\ deque' = [deque EXCEPT ![v] = Tail(@)]

\* Where a thread can take task x from.
TakenFromQueue(x) ==
    \/ TakesShared(x)
    \/ \E w \in Workers : TakesShare(x, w)
    \/ \E v \in Workers : TakesFrom(x, v)

LEMMA ShareBounds ==
    ASSUME NEW rest \in Seq(Tasks)
    PROVE  /\ Share(rest) \in 0 .. Len(rest)
           /\ Taken(rest) = SubSeq(rest, 1, Share(rest)) /\ Left(rest) = SubSeq(rest, Share(rest) + 1, Len(rest))
<1>1. Len(rest) \in Nat /\ Cardinality(Workers) \in Nat
    BY LenProperties, FS_CardinalityType, PoolAssumption
<1>2. PICK n \in Nat, d \in Nat \ {0} : n = Len(rest) /\ d = Cardinality(Workers) + 1
    BY <1>1
<1>3. n \div d \in 0 .. n
    BY <1>2
<1> QED BY <1>2, <1>3 DEF Share, Taken, Left

LEMMA QueueHeads ==
    ASSUME StateTypeOK
    PROVE  /\ external # <<>> => Head(external) \in Tasks /\ Tail(external) \in Seq(Tasks)
           /\ \A v \in Workers : deque[v] # <<>> =>
                 /\ Head(deque[v]) \in Tasks /\ Tail(deque[v]) \in Seq(Tasks)
                 /\ Last(deque[v]) \in Tasks /\ Front(deque[v]) \in Seq(Tasks)
<1>1. \A s \in Seq(Tasks) : s # <<>> => Head(s) \in Tasks /\ Tail(s) \in Seq(Tasks)
    BY HeadTailProperties
<1>2. ASSUME NEW s \in Seq(Tasks), s # <<>> PROVE Last(s) \in Tasks /\ Front(s) \in Seq(Tasks)
    <2>1. Len(s) \in Nat /\ Len(s) >= 1 /\ \A i \in 1 .. Len(s) : s[i] \in Tasks
        BY <1>2, LenProperties, EmptySeq, ElementOfSeq
    <2> QED BY <2>1, SubSeqProperties DEF Front, Last
<1> QED BY <1>1, <1>2 DEF StateTypeOK

LEMMA TakingTyped ==
    ASSUME StateTypeOK, NEW x, TakesShared(x) \/ (\E w \in Workers : TakesShare(x, w)) \/ \E v \in Workers : TakesFrom(x, v)
    PROVE  external' \in Seq(Tasks) /\ deque' \in [Workers -> Seq(Tasks)]
<1>1. CASE TakesShared(x)
    BY <1>1, QueueHeads DEF TakesShared, StateTypeOK
<1>2. ASSUME NEW w \in Workers, TakesShare(x, w)
      PROVE  external' \in Seq(Tasks) /\ deque' \in [Workers -> Seq(Tasks)]
    <2>1. PICK rest \in Seq(Tasks) : rest = Tail(external)
        BY <1>2, QueueHeads DEF TakesShare
    <2>2. Share(rest) \in 0 .. Len(rest) /\ \A i \in 1 .. Len(rest) : rest[i] \in Tasks
        BY ShareBounds, ElementOfSeq
    <2>3. Len(rest) \in Nat
        BY LenProperties
    <2>4. Taken(rest) \in Seq(Tasks) /\ Left(rest) \in Seq(Tasks)
        <3>1. PICK k \in Nat : k = Share(rest) /\ k <= Len(rest)
            BY <2>2, <2>3
        <3>2. SubSeq(rest, 1, k) \in Seq(Tasks)
            BY <2>2, <2>3, <3>1, SubSeqProperties
        <3>3. SubSeq(rest, k + 1, Len(rest)) \in Seq(Tasks)
            BY <2>2, <2>3, <3>1, SubSeqProperties
        <3> QED BY <3>1, <3>2, <3>3, ShareBounds
    <2>5. deque[w] \o Taken(rest) \in Seq(Tasks)
        BY <2>4, ConcatProperties DEF StateTypeOK
    <2> QED BY <1>2, <2>1, <2>4, <2>5 DEF TakesShare, StateTypeOK
<1>3. ASSUME NEW v \in Workers, TakesFrom(x, v)
      PROVE  external' \in Seq(Tasks) /\ deque' \in [Workers -> Seq(Tasks)]
    BY <1>3, QueueHeads DEF TakesFrom, StateTypeOK
<1> QED BY <1>1, <1>2, <1>3

\* The steps that take a task.
LEMMA TakingSteps ==
    ASSUME StateTypeOK, NEW t \in Threads,
           \/ t \in Workers /\ (PopOwn(t) \/ TakeExternal(t) \/ Steal(t))
           \/ HelpExternal(t) \/ HelpSteal(t)
    PROVE  \/ \E x \in Tasks : Takes(t, x) /\ TakenFromQueue(x)
           \/ t \in Workers /\ UNCHANGED <<external, deque, calls>>
           \/ PoolGoesOn(t) /\ UNCHANGED <<external, deque>>
<1> USE DEF TakenFromQueue
<1>1. ASSUME t \in Workers, PopOwn(t), deque[t] # <<>>
      PROVE  \E x \in Tasks : Takes(t, x) /\ TakenFromQueue(x)
    <2>1. Last(deque[t]) \in Tasks /\ TakesFrom(Last(deque[t]), t)
        BY <1>1, QueueHeads DEF PopOwn, TakesFrom
    <2>2. Takes(t, Last(deque[t]))
        BY <1>1, <2>1, CallTakes DEF PopOwn
    <2> QED BY <1>1, <2>1, <2>2
<1>2. ASSUME t \in Workers, TakeExternal(t), external # <<>>
      PROVE  \E x \in Tasks : Takes(t, x) /\ TakenFromQueue(x)
    <2>1. Head(external) \in Tasks /\ TakesShare(Head(external), t)
        BY <1>2, QueueHeads DEF TakeExternal, TakesShare
    <2>2. Takes(t, Head(external))
        BY <1>2, <2>1, CallTakes DEF TakeExternal
    <2> QED BY <1>2, <2>1, <2>2
<1>3. ASSUME t \in Workers, Steal(t)
      PROVE  \E x \in Tasks : Takes(t, x) /\ TakenFromQueue(x)
    <2>1. PICK v \in Workers : StealFrom(v) /\ Call(t, BodyOf(Head(deque[v])))
        BY <1>3 DEF Steal
    <2>2. Head(deque[v]) \in Tasks /\ TakesFrom(Head(deque[v]), v)
        BY <2>1, QueueHeads DEF StealFrom, TakesFrom
    <2>3. Takes(t, Head(deque[v]))
        BY <2>1, <2>2, CallTakes
    <2> QED BY <2>2, <2>3
<1>4. ASSUME HelpExternal(t), external # <<>>
      PROVE  \E x \in Tasks : Takes(t, x) /\ TakenFromQueue(x)
    <2>1. Head(external) \in Tasks /\ TakesShared(Head(external))
        BY <1>4, QueueHeads DEF HelpExternal, TakesShared
    <2>2. Takes(t, Head(external))
        BY <1>4, <2>1, HelpTakes DEF HelpExternal, HelpAt
    <2> QED BY <2>1, <2>2
<1>5. ASSUME HelpSteal(t)
      PROVE  \E x \in Tasks : Takes(t, x) /\ TakenFromQueue(x)
    <2>1. PICK v \in Workers : StealFrom(v) /\ Return(t, <<HelpGoto(t, "test"), BodyOf(Head(deque[v]))>>)
        BY <1>5 DEF HelpSteal
    <2>2. Head(deque[v]) \in Tasks /\ TakesFrom(Head(deque[v]), v)
        BY <2>1, QueueHeads DEF StealFrom, TakesFrom
    <2>3. Takes(t, Head(deque[v]))
        BY <1>5, <2>1, <2>2, HelpTakes DEF HelpSteal, HelpAt
    <2> QED BY <2>2, <2>3
<1>6. ASSUME HelpExternal(t), external = <<>>
      PROVE  PoolGoesOn(t) /\ UNCHANGED <<external, deque>>
    BY <1>6, HelpGotoStep DEF HelpExternal, HelpAt
<1>7. ASSUME t \in Workers, PopOwn(t) \/ TakeExternal(t), PopOwn(t) => deque[t] = <<>>,
             TakeExternal(t) => external = <<>>
      PROVE  UNCHANGED <<external, deque, calls>>
    BY <1>7 DEF PopOwn, TakeExternal
<1> QED BY <1>1, <1>2, <1>3, <1>4, <1>5, <1>6, <1>7

LEMMA StartedTyped ==
    ASSUME StateTypeOK
    PROVE  /\ Started \in [Workers -> {"new", "own", "external", "steal", "asleep", "exit"}]
           /\ \A woken : Awake(woken) \in [Workers -> {"new", "own", "external", "steal", "asleep", "exit"}]
BY DEF StateTypeOK, Started, Awake

LEMMA FireSteps ==
    ASSUME StateTypeOK, NEW t \in Threads, Fire(t)
    PROVE  /\ In(t, "fire") /\ Head(Top(t).left) \in Results
           /\ \/ /\ CountDown(t, Head(Top(t).left)) /\ Head(Top(t).left) \in Joins
                 /\ \E frames \in {<<>>, <<Setting(Head(Top(t).left), "ok")>>, <<Setting(Head(Top(t).left), "error")>>} :
                       FiredFirst(t, frames) /\ frames \in Seq(Frame)
              \/ /\ Continue(t, Head(Top(t).left)) /\ Head(Top(t).left) \in Tasks
                 /\ \E frames \in {<<Notifying(FALSE)>>, <<Setting(Head(Top(t).left), "error")>>} :
                       FiredFirst(t, frames) /\ frames \in Seq(Frame)
<1> DEFINE x == Head(Top(t).left)
<1>1. In(t, "fire") /\ x \in Results /\ (CountDown(t, x) \/ Continue(t, x))
    BY FireFacts DEF Fire, StateTypeOK
<1>2. <<Setting(x, "ok")>> \in Seq(Frame) /\ <<Setting(x, "error")>> \in Seq(Frame)
    BY <1>1, NewFrames, FrameSets
<1>3. <<Notifying(FALSE)>> \in Seq(Frame) /\ <<>> \in Seq(Frame)
    BY NewFrames, FrameSets
<1> HIDE DEF x
<1>4. ASSUME CountDown(t, x)
      PROVE  x \in Joins /\ \E frames \in {<<>>, <<Setting(x, "ok")>>, <<Setting(x, "error")>>} :
                                FiredFirst(t, frames)
    BY <1>4 DEF CountDown
<1>5. ASSUME Continue(t, x)
      PROVE  x \in Tasks /\ \E frames \in {<<Notifying(FALSE)>>, <<Setting(x, "error")>>} : FiredFirst(t, frames)
    BY <1>5 DEF Continue
<1>6. CASE CountDown(t, x)
    BY <1>1, <1>2, <1>3, <1>4, <1>6 DEF x
<1>7. CASE Continue(t, x)
    BY <1>1, <1>2, <1>3, <1>5, <1>7 DEF x
<1> QED BY <1>1, <1>6, <1>7

\* Every step keeps the types of the queues, frames and results.
LEMMA StepTyped ==
    ASSUME StateTypeOK, [Next]_vars
    PROVE  StateTypeOK'
<1> USE DEF queues, results
<1>1. ASSUME NEW t \in Threads, Submit(t) PROVE StateTypeOK'
    BY <1>1, SubmitStacked, PutTyped, StartedTyped DEF StateTypeOK, Stacked, Submit
<1>2. ASSUME NEW t \in Threads, Notify(t) PROVE StateTypeOK'
    <2>1. calls' \in [Threads -> Seq(Frame)]
        BY <1>2, NotifyStep DEF PoolGoesOn, Stacked
    <2>2. UNCHANGED loop \/ (\E woken : loop' = Awake(woken))
        BY <1>2 DEF Notify
    <2>3. loop' \in [Workers -> {"new", "own", "external", "steal", "asleep", "exit"}]
        BY <2>2, StartedTyped DEF StateTypeOK
    <2>4. UNCHANGED <<external, deque, submitted, shutdown, outcome, handlers, remaining, failed, registered, acc>>
        BY <1>2 DEF Notify
    <2> QED BY <2>1, <2>3, <2>4 DEF StateTypeOK
<1>3. ASSUME NEW t \in Threads, EndBody(t) PROVE StateTypeOK'
    <2>1. Busy(t)
        BY <1>3 DEF EndBody, In
    <2>2. CASE Top(t).of \in Callers /\ Stacked(t, Len(calls[t]) - 1, <<>>) /\ UNCHANGED <<outcome, handlers>>
        BY <1>3, <2>2 DEF StateTypeOK, Stacked, EndBody
    <2>3. CASE \E how \in {"ok", "error"} : Top(t).of \in Tasks /\ Settle(t, Top(t).of, how)
        <3>1. PICK how \in {"ok", "error"} : Settle(t, Top(t).of, how)
            BY <2>3
        <3>2. Top(t).of \in Results
            BY <2>3 DEF Results
        <3>3. /\ outcome' \in [Results -> {"none", "ok", "error"}] /\ handlers' \in [Results -> Seq(Results)]
              /\ calls' \in [Threads -> Seq(Frame)]
            BY <2>1, <3>1, <3>2, SettleStacked DEF Stacked
        <3> QED BY <1>3, <3>3 DEF StateTypeOK, EndBody
    <2> QED BY <1>3, <2>2, <2>3, EndBodyStacked
<1>4. ASSUME NEW t \in Threads, SetResult(t) PROVE StateTypeOK'
    <2>1. /\ outcome' \in [Results -> {"none", "ok", "error"}] /\ handlers' \in [Results -> Seq(Results)]
          /\ calls' \in [Threads -> Seq(Frame)]
        BY <1>4, SetResultFacts, SettleStacked DEF Stacked
    <2> QED BY <1>4, <2>1 DEF StateTypeOK, SetResult
<1>5. ASSUME NEW t \in Threads, Fire(t) PROVE StateTypeOK'
    <2> DEFINE x == Head(Top(t).left)
    <2>1. x \in Results /\ calls' \in [Threads -> Seq(Frame)]
        BY <1>5, FireSteps, FiredStacked DEF Stacked, StateTypeOK
    <2> HIDE DEF x
    <2>2. CASE CountDown(t, x)
        <3>1. remaining' \in [Joins -> Int] /\ failed' \in [Joins -> BOOLEAN]
            <4>1. \A j \in Joins : remaining[j] - 1 \in Int
                BY DEF StateTypeOK
            <4> QED BY <2>2, <4>1 DEF CountDown, StateTypeOK
        <3> QED BY <1>5, <2>1, <2>2, <3>1 DEF StateTypeOK, Fire, CountDown
    <2>3. CASE Continue(t, x)
        <3>1. \/ Put(t, <<x>>) /\ loop' = Started
              \/ UNCHANGED <<external, deque, submitted, loop>>
            BY <2>3 DEF Continue
        <3>2. x \in Tasks /\ <<x>> \in Seq(Tasks) /\ UNCHANGED <<remaining, failed>>
            BY <2>3 DEF Continue
        <3>3. /\ external' \in Seq(Tasks) /\ deque' \in [Workers -> Seq(Tasks)] /\ submitted' \subseteq Tasks
              /\ loop' \in [Workers -> {"new", "own", "external", "steal", "asleep", "exit"}]
            BY <3>1, <3>2, PutTyped, StartedTyped DEF StateTypeOK
        <3> QED BY <1>5, <2>1, <3>2, <3>3 DEF StateTypeOK, Fire
    <2> QED BY <1>5, <2>2, <2>3 DEF Fire, x
<1>6. ASSUME NEW t \in Threads, OnComplete(t) PROVE StateTypeOK'
    <2>1. Op(t).on \in Results /\ Op(t).run \in Results /\ calls' \in [Threads -> Seq(Frame)]
        BY <1>6, OnCompleteStacked DEF Stacked
    <2>2. handlers' \in [Results -> Seq(Results)]
        <3>1. Append(handlers[Op(t).on], Op(t).run) \in Seq(Results)
            BY <2>1 DEF StateTypeOK
        <3> QED BY <1>6, <3>1 DEF OnComplete, StateTypeOK
    <2> QED BY <1>6, <2>1, <2>2 DEF StateTypeOK, OnComplete, Pairs
<1>7. ASSUME NEW t \in Threads, Wait(t) PROVE StateTypeOK'
    BY <1>7, WaitStacked DEF StateTypeOK, Stacked, Wait
<1>8. ASSUME NEW t \in Threads, StartHelping(t) \/ ReadAcc(t) \/ JoinCallers(t) \/ JoinWorkers(t) PROVE StateTypeOK'
    <2>1. BodyGoesOn(t)
        BY <1>8, StartHelpingStep, ReadAccStep, PlainBodyStep DEF JoinCallers, JoinWorkers
    <2> QED BY <1>8, <2>1 DEF BodyGoesOn, Stacked, StateTypeOK, StartHelping, ReadAcc, JoinCallers, JoinWorkers
<1>9. ASSUME NEW t \in Threads, WriteAcc(t) PROVE StateTypeOK'
    <2>1. calls' \in [Threads -> Seq(Frame)]
        BY <1>9, PlainBodyStep DEF WriteAcc, BodyGoesOn, Stacked
    <2>2. Top(t).of \in Tasks /\ Top(t).copy \subseteq Tasks
        <3>1. Top(t) \in BodyFrame /\ Top(t).of \in Owners /\ Body[Top(t).of][Top(t).next].op = "write"
              /\ Top(t).next \in DOMAIN Body[Top(t).of]
            BY <1>9, OpFacts DEF WriteAcc, StateTypeOK
        <3> QED BY <3>1, PoolAssumption DEF BodyFrame, Owners
    <2>3. acc' \in [Slots -> SUBSET Tasks]
        BY <1>9, <2>2 DEF WriteAcc, StateTypeOK
    <2> QED BY <1>9, <2>1, <2>3 DEF StateTypeOK, WriteAcc
<1>10. ASSUME NEW t \in Threads, HelpTest(t) \/ HelpMiss(t) PROVE StateTypeOK'
    <2>1. PoolGoesOn(t)
        BY <1>10, HelpTestStep, HelpGotoStep DEF HelpMiss, HelpAt
    <2> QED BY <1>10, <2>1 DEF PoolGoesOn, Stacked, StateTypeOK, HelpTest, HelpMiss
<1>11. ASSUME NEW t \in Threads,
              \/ t \in Workers /\ (PopOwn(t) \/ TakeExternal(t) \/ Steal(t))
              \/ HelpExternal(t) \/ HelpSteal(t)
       PROVE  StateTypeOK'
    <2>1. calls' \in [Threads -> Seq(Frame)] /\ external' \in Seq(Tasks) /\ deque' \in [Workers -> Seq(Tasks)]
        BY <1>11, TakingSteps, TakingTyped DEF Takes, TakenFromQueue, PoolGoesOn, Stacked, StateTypeOK
    <2>2. loop' \in [Workers -> {"new", "own", "external", "steal", "asleep", "exit"}]
        BY <1>11 DEF PopOwn, TakeExternal, Steal, HelpExternal, HelpSteal, Goto, StateTypeOK
    <2>3. UNCHANGED <<submitted, shutdown, outcome, handlers, remaining, failed, registered, acc>>
        BY <1>11 DEF PopOwn, TakeExternal, Steal, HelpExternal, HelpSteal, StealFrom
    <2> QED BY <2>1, <2>2, <2>3 DEF StateTypeOK
<1>12. ASSUME NEW w \in Workers, Park(w) \/ Timeout(w) \/ Exit(w) PROVE StateTypeOK'
    BY <1>12 DEF Park, Timeout, Exit, Goto, StateTypeOK
<1>13. ASSUME NEW t \in Threads, StartShutdown(t) PROVE StateTypeOK'
    BY <1>13, StartedTyped DEF StartShutdown, StateTypeOK
<1>14. CASE UNCHANGED vars
    BY <1>14 DEF vars, StateTypeOK
<1>15. Workers \subseteq Threads
    BY DEF Threads
<1> QED BY <1>1, <1>2, <1>3, <1>4, <1>5, <1>6, <1>7, <1>8, <1>9, <1>10, <1>11, <1>12, <1>13, <1>14, <1>15
        DEF Next, Proceed, Loop, Done

--------------------------------------------------------------------------------
(* The account of the frames. *)

\* Seat s is not one that thread t clears down to base frames.
Stays(s, t, base) == s[1] = t => s[2] <= base

\* The things and handlers in seats that are not cleared stay there.
SeatsKept(t, base, st, sp, tk, tp, at, st1, sp1, tk1, tp1, at1) ==
    /\ \A x \in Things : st[x] = "frame" /\ Stays(sp[x], t, base) =>
          st1[x] = "frame" /\ sp1[x] = sp[x] /\ (x \in Owners => at1[x] = at[x])
    /\ \A r, x \in Results : tk[<<r, x>>] = "firing" /\ Stays(tp[<<r, x>>], t, base) =>
          tk1[<<r, x>>] = "firing" /\ tp1[<<r, x>>] = tp[<<r, x>>]

\* The others that have a seat have one of the new frames.
SeatsNew(t, base, fs, st, sp, tk, tp, st1, sp1, tk1, tp1) ==
    /\ \A x \in Things : st1[x] = "frame" =>
          \/ st[x] = "frame" /\ sp1[x] = sp[x] /\ Stays(sp[x], t, base)
          \/ \E k \in 1 .. Len(fs) : sp1[x] = <<t, base + k>> /\ fs[k].op \in {"body", "set"} /\ fs[k].of = x
    /\ \A r, x \in Results : tk1[<<r, x>>] = "firing" =>
          \/ tk[<<r, x>>] = "firing" /\ tp1[<<r, x>>] = tp[<<r, x>>] /\ Stays(tp[<<r, x>>], t, base)
          \/ \E k \in 1 .. Len(fs) : tp1[<<r, x>>] = <<t, base + k>> /\ fs[k].op = "fire" /\ fs[k].of = r

\* Nothing is unsaid: outcomes stay, and with them what they give a right to.
Onward ==
    /\ submitted \subseteq submitted'
    /\ \A r \in Results : outcome[r] # "none" => outcome'[r] = outcome[r]

LEMMA StillDeserved ==
    ASSUME Onward, NEW x, NEW how, Deserved(x, how)
    PROVE  Deserved(x, how)'
<1>1. \A r \in Sources(x) : r \in Results
    BY DEF Sources
<1> QED BY <1>1 DEF Onward, Deserved

LEMMA FramesStep ==
    ASSUME StateTypeOK, NEW t \in Threads, NEW base, NEW fs \in Seq(Frame), Stacked(t, base, fs), Onward,
           NEW st, NEW sp, NEW tk, NEW tp, NEW at, NEW st1, NEW sp1, NEW tk1, NEW tp1, NEW at1,
           AccountTypeOK(st, sp, tk, tp, at), 
           FramesIn(st, sp, tk, tp, at), Seated(st, sp, tk, tp),
           SeatsKept(t, base, st, sp, tk, tp, at, st1, sp1, tk1, tp1, at1),
           SeatsNew(t, base, fs, st, sp, tk, tp, st1, sp1, tk1, tp1),
           \A k \in 1 .. Len(fs) : FrameIn(fs[k], t, base + k, st1, sp1, tk1, tp1, at1)'
    PROVE  FramesIn(st1, sp1, tk1, tp1, at1)' /\ Seated(st1, sp1, tk1, tp1)'
<1>1. /\ base \in Nat /\ Len(fs) \in Nat /\ DOMAIN calls'[t] = 1 .. (base + Len(fs))
      /\ \A u \in Threads \ {t} : calls'[u] = calls[u]
      /\ \A n \in 1 .. base : n \in DOMAIN calls[t] /\ calls'[t][n] = calls[t][n]
      /\ \A k \in 1 .. Len(fs) : calls'[t][base + k] = fs[k]
    BY DEF Stacked
<1>2. ASSUME NEW u \in Threads, NEW n \in DOMAIN calls'[u], u = t => n <= base
      PROVE  n \in DOMAIN calls[u] /\ calls'[u][n] = calls[u][n] /\ n \in Nat
    <2>1. CASE u = t
        BY <1>1, <1>2, <2>1
    <2>2. CASE u # t
        <3>1. calls'[u] = calls[u] /\ calls[u] \in Seq(Frame)
            BY <1>1, <2>2 DEF StateTypeOK
        <3> QED BY <3>1, LenProperties
    <2> QED BY <2>1, <2>2
<1>3. ASSUME NEW u \in Threads, NEW n \in DOMAIN calls[u], u = t => n <= base
      PROVE  n \in DOMAIN calls'[u] /\ calls'[u][n] = calls[u][n]
    <2>1. CASE u = t
        <3>1. n \in 1 .. base
            BY <1>1, <1>3, <2>1, LenProperties DEF StateTypeOK
        <3> QED BY <1>1, <3>1, <2>1
    <2>2. CASE u # t
        BY <1>1, <2>2
    <2> QED BY <2>1, <2>2
<1>4. ASSUME NEW u \in Threads, NEW n \in DOMAIN calls'[u], u = t => n <= base
      PROVE  FrameIn(calls[u][n], u, n, st1, sp1, tk1, tp1, at1)'
    <2>1. n \in DOMAIN calls[u] /\ calls'[u][n] = calls[u][n] /\ n \in Nat
        BY <1>2, <1>4
    <2>2. PICK f \in Frame : f = calls[u][n]
        BY <2>1, ElementOfSeq, LenProperties DEF StateTypeOK
    <2>3. FrameIn(f, u, n, st, sp, tk, tp, at)
        BY <2>1, <2>2 DEF FramesIn
    <2>4. f.op = "body" => f.of \in Owners /\ f.of \in Things
        BY Kinds DEF BodyFrame, Owners, Things, Results
    <2>5. f.op = "set" => f.of \in Results /\ f.of \in Things
        BY Kinds DEF SetFrame, Things
    <2>6. f.op = "fire" => f.of \in Results
        BY Kinds DEF FireFrame
    <2>7. Stays(<<u, n>>, t, base)
        BY <1>4 DEF Stays
    <2>8. f.op \in {"body", "set"} => st1[f.of] = "frame" /\ sp1[f.of] = <<u, n>>
        BY <2>3, <2>4, <2>5, <2>7 DEF FrameIn, SeatsKept
    <2>9. f.op = "body" => at1[f.of] = f.next /\ (f.of \in Tasks => f.of \in submitted')
        BY <2>3, <2>4, <2>7 DEF FrameIn, SeatsKept, Onward
    <2>10. f.op = "set" => Deserved(f.of, f.how)'
        BY <2>3, StillDeserved DEF FrameIn
    <2>11. ASSUME f.op = "fire"
           PROVE  /\ f.left # <<>> /\ IsInjective(f.left)
                  /\ ToSet(f.left) = FiringAt(f.of, u, n, tk1, tp1)
        <3>1. f.left # <<>> /\ IsInjective(f.left) /\ ToSet(f.left) = FiringAt(f.of, u, n, tk, tp)
            BY <2>3, <2>11 DEF FrameIn
        <3>2. ASSUME NEW x \in FiringAt(f.of, u, n, tk, tp) PROVE x \in FiringAt(f.of, u, n, tk1, tp1)
            BY <2>6, <2>7, <2>11, <3>2 DEF FiringAt, SeatsKept
        <3>3. ASSUME NEW x \in FiringAt(f.of, u, n, tk1, tp1) PROVE x \in FiringAt(f.of, u, n, tk, tp)
            <4>1. x \in Results /\ tk1[<<f.of, x>>] = "firing" /\ tp1[<<f.of, x>>] = <<u, n>>
                BY <3>3 DEF FiringAt
            <4>2. ASSUME NEW k \in 1 .. Len(fs), <<u, n>> = <<t, base + k>> PROVE FALSE
                BY <4>2, <1>1, <1>4
            <4> QED BY <4>1, <4>2, <2>6, <2>11 DEF SeatsNew, FiringAt
        <3> QED BY <3>1, <3>2, <3>3
    <2>12. FrameIn(f, u, n, st1, sp1, tk1, tp1, at1)'
        BY <2>8, <2>9, <2>10, <2>11 DEF FrameIn, FiringAt
    <2> QED BY <2>12, <2>1, <2>2
<1>5. FramesIn(st1, sp1, tk1, tp1, at1)'
    <2>1. ASSUME NEW u \in Threads, NEW n \in DOMAIN calls'[u], ~ (u = t => n <= base)
          PROVE  FrameIn(calls[u][n], u, n, st1, sp1, tk1, tp1, at1)'
        <3>1. PICK k \in 1 .. Len(fs) : k = n - base
            BY <1>1, <2>1
        <3>2. n = base + k /\ calls'[u][n] = fs[k]
            BY <1>1, <2>1, <3>1
        <3> QED BY <3>2, <2>1
    <2> QED BY <1>4, <2>1 DEF FramesIn
<1>6. ASSUME NEW k \in 1 .. Len(fs) PROVE base + k \in DOMAIN calls'[t] /\ calls'[t][base + k] = fs[k]
    BY <1>1
<1>7. \A s \in Seats : s = <<s[1], s[2]>> /\ s[1] \in Threads /\ s[2] \in Nat
    BY DEF Seats
<1>8. ASSUME NEW x \in Things, st1[x] = "frame" PROVE SeatOf(x, sp1[x][1], sp1[x][2])'
    <2>1. CASE st[x] = "frame" /\ sp1[x] = sp[x] /\ Stays(sp[x], t, base)
        <3>1. SeatOf(x, sp[x][1], sp[x][2]) /\ sp[x][1] \in Threads
            BY <2>1, <1>7 DEF Seated, AccountTypeOK
        <3> QED BY <2>1, <3>1, <1>3 DEF SeatOf, Stays
    <2>2. ASSUME NEW k \in 1 .. Len(fs), sp1[x] = <<t, base + k>>, fs[k].op \in {"body", "set"}, fs[k].of = x
          PROVE  SeatOf(x, sp1[x][1], sp1[x][2])'
        BY <2>2, <1>6 DEF SeatOf
    <2> QED BY <1>8, <2>1, <2>2 DEF SeatsNew
<1>9. \A r, x \in Results : tk1[<<r, x>>] = "firing" =>
          \/ tk[<<r, x>>] = "firing" /\ tp1[<<r, x>>] = tp[<<r, x>>] /\ Stays(tp[<<r, x>>], t, base)
          \/ \E k \in 1 .. Len(fs) : tp1[<<r, x>>] = <<t, base + k>> /\ fs[k].op = "fire" /\ fs[k].of = r
    BY Zenon DEF SeatsNew
<1>10. ASSUME NEW r \in Results, NEW x \in Results, tk1[<<r, x>>] = "firing"
      PROVE  FireSeat(r, tp1[<<r, x>>][1], tp1[<<r, x>>][2])'
    <2>1. CASE tk[<<r, x>>] = "firing" /\ tp1[<<r, x>>] = tp[<<r, x>>] /\ Stays(tp[<<r, x>>], t, base)
        <3>1. FireSeat(r, tp[<<r, x>>][1], tp[<<r, x>>][2]) /\ tp[<<r, x>>][1] \in Threads
            BY <2>1, <1>7 DEF Seated, AccountTypeOK, Pairs
        <3> QED BY <2>1, <3>1, <1>3 DEF FireSeat, Stays
    <2>2. ASSUME NEW k \in 1 .. Len(fs), tp1[<<r, x>>] = <<t, base + k>>, fs[k].op = "fire", fs[k].of = r
          PROVE  FireSeat(r, tp1[<<r, x>>][1], tp1[<<r, x>>][2])'
        BY <2>2, <1>6 DEF FireSeat
    <2>3. \/ tk[<<r, x>>] = "firing" /\ tp1[<<r, x>>] = tp[<<r, x>>] /\ Stays(tp[<<r, x>>], t, base)
          \/ \E k \in 1 .. Len(fs) : tp1[<<r, x>>] = <<t, base + k>> /\ fs[k].op = "fire" /\ fs[k].of = r
        BY <1>10, <1>9, Zenon
    <2> QED BY <2>1, <2>2, <2>3
<1>11. Seated(st1, sp1, tk1, tp1)'
    BY <1>8, <1>10 DEF Seated
<1> QED BY <1>5, <1>11

\* What the seat of the innermost frame can hold: the frame's own thing or handlers.
LEMMA TopSeat ==
    ASSUME StateTypeOK, NEW t \in Threads, Busy(t), NEW st, NEW sp, NEW tk, NEW tp, NEW at,
           Account(st, sp, tk, tp, at)
    PROVE  /\ Len(calls[t]) \in Nat \ {0} /\ Len(calls[t]) - 1 \in Nat
           /\ FrameIn(Top(t), t, Len(calls[t]), st, sp, tk, tp, at)
           /\ \A x \in Things : st[x] = "frame" /\ ~ Stays(sp[x], t, Len(calls[t]) - 1) =>
                 sp[x] = <<t, Len(calls[t])>> /\ Top(t).op \in {"body", "set"} /\ Top(t).of = x
           /\ \A r, x \in Results : tk[<<r, x>>] = "firing" /\ ~ Stays(tp[<<r, x>>], t, Len(calls[t]) - 1) =>
                 tp[<<r, x>>] = <<t, Len(calls[t])>> /\ Top(t).op = "fire" /\ Top(t).of = r
<1>1. /\ Len(calls[t]) \in Nat \ {0} /\ DOMAIN calls[t] = 1 .. Len(calls[t])
      /\ Len(calls[t]) \in DOMAIN calls[t] /\ Top(t) = calls[t][Len(calls[t])]
    <2>1. In(t, Top(t).op)
        BY DEF In
    <2> QED BY <2>1, TopFrame DEF StateTypeOK
<1>2. FrameIn(Top(t), t, Len(calls[t]), st, sp, tk, tp, at)
    BY <1>1 DEF Account, FramesIn
<1>3. \A s \in Seats : s = <<s[1], s[2]>> /\ s[1] \in Threads /\ s[2] \in Nat
    BY DEF Seats
<1>4. ASSUME NEW s \in Seats, ~ Stays(s, t, Len(calls[t]) - 1), s[2] \in DOMAIN calls[s[1]]
      PROVE  s = <<t, Len(calls[t])>> /\ s[1] = t /\ s[2] = Len(calls[t])
    BY <1>1, <1>3, <1>4 DEF Stays
<1>5. ASSUME NEW x \in Things, st[x] = "frame", ~ Stays(sp[x], t, Len(calls[t]) - 1)
      PROVE  sp[x] = <<t, Len(calls[t])>> /\ Top(t).op \in {"body", "set"} /\ Top(t).of = x
    <2>1. SeatOf(x, sp[x][1], sp[x][2]) /\ sp[x] \in Seats
        BY <1>5 DEF Account, Seated, AccountTypeOK
    <2> QED BY <1>1, <1>4, <1>5, <2>1 DEF SeatOf
<1>6. ASSUME NEW r \in Results, NEW x \in Results, tk[<<r, x>>] = "firing",
             ~ Stays(tp[<<r, x>>], t, Len(calls[t]) - 1)
      PROVE  tp[<<r, x>>] = <<t, Len(calls[t])>> /\ Top(t).op = "fire" /\ Top(t).of = r
    <2>1. FireSeat(r, tp[<<r, x>>][1], tp[<<r, x>>][2]) /\ tp[<<r, x>>] \in Seats
        BY <1>6 DEF Account, Seated, AccountTypeOK, Pairs
    <2> QED BY <1>1, <1>4, <1>6, <2>1 DEF FireSeat
<1> QED BY <1>1, <1>2, <1>5, <1>6

\* A call clears no seat.
LEMMA AllStay ==
    ASSUME StateTypeOK, NEW t \in Threads, NEW st, NEW sp, NEW tk, NEW tp, NEW at,
           Account(st, sp, tk, tp, at)
    PROVE  /\ Len(calls[t]) \in Nat
           /\ \A x \in Things : st[x] = "frame" => Stays(sp[x], t, Len(calls[t]))
           /\ \A r, x \in Results : tk[<<r, x>>] = "firing" => Stays(tp[<<r, x>>], t, Len(calls[t]))
<1>1. Len(calls[t]) \in Nat /\ DOMAIN calls[t] = 1 .. Len(calls[t])
    BY LenProperties DEF StateTypeOK
<1>2. ASSUME NEW x \in Things, st[x] = "frame" PROVE Stays(sp[x], t, Len(calls[t]))
    BY <1>1, <1>2 DEF Account, Seated, SeatOf, Stays
<1>3. ASSUME NEW r \in Results, NEW x \in Results, tk[<<r, x>>] = "firing"
      PROVE  Stays(tp[<<r, x>>], t, Len(calls[t]))
    BY <1>1, <1>3 DEF Account, Seated, FireSeat, Stays
<1> QED BY <1>1, <1>2, <1>3

Elsewhere == UNCHANGED <<external, deque, submitted, outcome, handlers, remaining, failed, registered>>

LEMMA RestStays ==
    ASSUME Elsewhere, NEW st, NEW sp, NEW tk, NEW tp, NEW at, Account(st, sp, tk, tp, at)
    PROVE  /\ Onward
           /\ QueuesIn(st, sp)' /\ HandlersIn(tk)' /\ PairsIn(tk)' /\ StagesIn(st, tk)' /\ JoinsIn(st, tk)'
<1>1. Onward
    BY DEF Onward, Elsewhere
<1>2. QueuesIn(st, sp)' /\ HandlersIn(tk)' /\ PairsIn(tk)'
    BY DEF Account, QueuesIn, HandlersIn, PairsIn, Elsewhere, Over
<1>3. StagesIn(st, tk)'
    BY DEF Account, StagesIn, Deserved, Elsewhere, Over
<1>4. JoinsIn(st, tk)'
    <2>1. \A j \in Joins : Counted(j, tk)' = Counted(j, tk) /\ \A r : FailedBy(j, r, tk)' <=> FailedBy(j, r, tk)
        BY DEF Counted, FailedBy, Elsewhere
    <2>2. remaining' = remaining /\ failed' = failed
        BY DEF Elsewhere
    <2>3. JoinsIn(st, tk)
        BY DEF Account
    <2> QED BY <2>1, <2>2, <2>3 DEF JoinsIn
<1> QED BY <1>1, <1>2, <1>3, <1>4

\* A step inside of a function of the pool changes nothing in the account.
LEMMA PoolStepAccount ==
    ASSUME StateTypeOK, NEW t \in Threads, PoolGoesOn(t), Elsewhere,
           NEW st, NEW sp, NEW tk, NEW tp, NEW at, Account(st, sp, tk, tp, at)
    PROVE  Account(st, sp, tk, tp, at)'
<1>1. PICK fs \in IdleFrames : fs \in Seq(Frame) /\ Stacked(t, Len(calls[t]) - 1, fs)
    BY DEF PoolGoesOn
<1>0. PICK base : base = Len(calls[t]) - 1
    OBVIOUS
<1>2. /\ Busy(t) /\ Top(t).op \in {"notify", "help"}
    BY DEF PoolGoesOn
<1>3. \A k \in 1 .. Len(fs) : fs[k].op \in {"notify", "help"}
    <2>1. CASE fs = <<>>
        BY <2>1
    <2>2. ASSUME NEW h \in HelpFrame, fs = <<h>> PROVE \A k \in 1 .. Len(fs) : fs[k].op \in {"notify", "help"}
        BY <2>2 DEF HelpFrame
    <2>3. ASSUME NEW h \in HelpFrame, NEW m \in NotifyFrame, fs = <<h, m>>
          PROVE  \A k \in 1 .. Len(fs) : fs[k].op \in {"notify", "help"}
        BY <2>3 DEF HelpFrame, NotifyFrame
    <2> QED BY <1>1, <2>1, <2>2, <2>3 DEF IdleFrames
<1>4. \A k \in 1 .. Len(fs) : FrameIn(fs[k], t, base + k, st, sp, tk, tp, at)'
    BY <1>3 DEF FrameIn
<1>5. SeatsKept(t, base, st, sp, tk, tp, at, st, sp, tk, tp, at)
    BY DEF SeatsKept
<1>6. SeatsNew(t, base, fs, st, sp, tk, tp, st, sp, tk, tp)
    BY <1>0, <1>2, TopSeat DEF SeatsNew
<1>7. AccountTypeOK(st, sp, tk, tp, at) /\ FramesIn(st, sp, tk, tp, at) /\ Seated(st, sp, tk, tp) /\ AheadIn(st, tk, at)
    BY DEF Account
<1>8. Onward
    BY RestStays
<1>9. FramesIn(st, sp, tk, tp, at)' /\ Seated(st, sp, tk, tp)'
    <2>1. Stacked(t, base, fs)
        BY <1>0, <1>1
    <2> QED BY <1>1, <2>1, <1>4, <1>5, <1>6, <1>7, <1>8, FramesStep
<1>10. AheadIn(st, tk, at)' /\ AccountTypeOK(st, sp, tk, tp, at)'
    BY <1>7 DEF AheadIn, AccountTypeOK
<1> QED BY <1>9, <1>10, RestStays DEF Account

\* The body on top of thread t's stack goes on to its next operation.
Further(at, x) == [at EXCEPT ![x] = at[x] + 1]

LEMMA FurtherTyped ==
    ASSUME NEW at \in [Owners -> Nat \ {0}], NEW x \in Owners
    PROVE  /\ Further(at, x) \in [Owners -> Nat \ {0}] /\ Further(at, x)[x] = at[x] + 1
           /\ \A y \in Owners : y # x => Further(at, x)[y] = at[y]
           /\ \A y \in Owners : at[y] \in Nat /\ Further(at, x)[y] \in Nat /\ at[y] <= Further(at, x)[y]
<1>1. at[x] + 1 \in Nat \ {0} /\ at[x] \in Nat /\ at[x] <= at[x] + 1
    OBVIOUS
<1>2. \A k \in Nat \ {0} : [at EXCEPT ![x] = k] \in [Owners -> Nat \ {0}]
    OBVIOUS
<1>3. /\ Further(at, x) \in [Owners -> Nat \ {0}] /\ Further(at, x)[x] = at[x] + 1
      /\ \A y \in Owners : y # x => Further(at, x)[y] = at[y]
    BY <1>1, <1>2 DEF Further
<1>4. ASSUME NEW y \in Owners PROVE at[y] \in Nat /\ Further(at, x)[y] \in Nat /\ at[y] <= Further(at, x)[y]
    BY <1>1, <1>3
<1> QED BY <1>3, <1>4

LEMMA BodyTop ==
    ASSUME StateTypeOK, NEW t \in Threads, In(t, "body"), Top(t) \in BodyFrame, Top(t).of \in Owners,
           NEW st, NEW sp, NEW tk, NEW tp, NEW at, Account(st, sp, tk, tp, at)
    PROVE  /\ Top(t).of \in Things /\ st[Top(t).of] = "frame" /\ sp[Top(t).of] = <<t, Len(calls[t])>>
           /\ at[Top(t).of] = Top(t).next
           /\ Top(t).of \in Tasks => Top(t).of \in submitted
           /\ \A x \in Things : st[x] = "frame" /\ ~ Stays(sp[x], t, Len(calls[t]) - 1) => x = Top(t).of
           /\ \A r, x \in Results : tk[<<r, x>>] = "firing" => Stays(tp[<<r, x>>], t, Len(calls[t]) - 1)
           /\ \A x \in Things : st[x] = "frame" /\ Stays(sp[x], t, Len(calls[t]) - 1) => x # Top(t).of
<1>1. Top(t).op = "body" /\ Busy(t)
    BY DEF In
<1>2. FrameIn(Top(t), t, Len(calls[t]), st, sp, tk, tp, at) /\ Len(calls[t]) \in Nat \ {0}
    BY <1>1, TopSeat
<1>3. Top(t).of \in Things
    BY DEF Things, Owners, Results
<1>4. /\ st[Top(t).of] = "frame" /\ sp[Top(t).of] = <<t, Len(calls[t])>> /\ at[Top(t).of] = Top(t).next
      /\ Top(t).of \in Tasks => Top(t).of \in submitted
    BY <1>1, <1>2 DEF FrameIn
<1>5. ~ Stays(<<t, Len(calls[t])>>, t, Len(calls[t]) - 1)
    BY <1>2 DEF Stays
<1> QED BY <1>1, <1>3, <1>4, <1>5, TopSeat

LEMMA BodyStepAccount ==
    ASSUME StateTypeOK, NEW t \in Threads, BodyGoesOn(t), Elsewhere,
           NEW st, NEW sp, NEW tk, NEW tp, NEW at, Account(st, sp, tk, tp, at)
    PROVE  \E at1 : Account(st, sp, tk, tp, at1)'
<1>1. PICK f \in BodyFrame : \E fs \in {<<f>>} \union {<<f, h>> : h \in HelpFrame} :
          /\ f.of = Top(t).of /\ f.next = Top(t).next + 1
          /\ fs \in Seq(Frame) /\ Stacked(t, Len(calls[t]) - 1, fs)
    BY DEF BodyGoesOn
<1>2. PICK fs \in {<<f>>} \union {<<f, h>> : h \in HelpFrame} :
          /\ f.of = Top(t).of /\ f.next = Top(t).next + 1
          /\ fs \in Seq(Frame) /\ Stacked(t, Len(calls[t]) - 1, fs)
    BY <1>1
<1>3. PICK x, base : x = Top(t).of /\ base = Len(calls[t]) - 1
    OBVIOUS
<1>4. PICK at1 : at1 = Further(at, x)
    OBVIOUS
<1>5. /\ x \in Owners /\ x \in Things /\ st[x] = "frame" /\ sp[x] = <<t, base + 1>>
      /\ at[x] = Top(t).next /\ (x \in Tasks => x \in submitted)
      /\ \A y \in Things : st[y] = "frame" /\ ~ Stays(sp[y], t, base) => y = x
      /\ \A y \in Things : st[y] = "frame" /\ Stays(sp[y], t, base) => y # x
      /\ \A r, y \in Results : tk[<<r, y>>] = "firing" => Stays(tp[<<r, y>>], t, base)
    <2>1. Len(calls[t]) \in Nat /\ base + 1 = Len(calls[t])
        BY <1>3, LenProperties DEF StateTypeOK
    <2>2. In(t, "body") /\ Top(t) \in BodyFrame /\ Top(t).of \in Owners
        BY DEF BodyGoesOn
    <2>3. /\ x \in Owners /\ x \in Things /\ st[x] = "frame" /\ sp[x] = <<t, Len(calls[t])>>
          /\ at[x] = Top(t).next /\ (x \in Tasks => x \in submitted)
        BY <1>3, <2>2, BodyTop
    <2>4. /\ \A y \in Things : st[y] = "frame" /\ ~ Stays(sp[y], t, base) => y = x
          /\ \A y \in Things : st[y] = "frame" /\ Stays(sp[y], t, base) => y # x
          /\ \A r, y \in Results : tk[<<r, y>>] = "firing" => Stays(tp[<<r, y>>], t, base)
        BY <1>3, <2>2, BodyTop
    <2> QED BY <2>1, <2>3, <2>4
<1>6. AccountTypeOK(st, sp, tk, tp, at) /\ FramesIn(st, sp, tk, tp, at) /\ Seated(st, sp, tk, tp) /\ AheadIn(st, tk, at)
    BY DEF Account
<1>7. /\ at1 \in [Owners -> Nat \ {0}] /\ at1[x] = f.next /\ \A y \in Owners : y # x => at1[y] = at[y]
      /\ \A y \in Owners : at[y] \in Nat /\ at1[y] \in Nat /\ at[y] <= at1[y]
    BY <1>2, <1>3, <1>4, <1>5, <1>6, FurtherTyped DEF AccountTypeOK
<1>8. /\ f.of = x /\ f.op = "body" /\ Len(fs) >= 1 /\ fs[1] = f /\ 1 \in 1 .. Len(fs)
      /\ \A k \in 1 .. Len(fs) : fs[k].op # "body" => fs[k].op = "help"
      /\ \A k \in 1 .. Len(fs) : fs[k].op = "body" => k = 1
    <2>1. CASE fs = <<f>>
        BY <1>2, <1>3, <2>1 DEF BodyFrame
    <2>2. ASSUME NEW h \in HelpFrame, fs = <<f, h>>
          PROVE  /\ f.of = x /\ f.op = "body" /\ Len(fs) >= 1 /\ fs[1] = f /\ 1 \in 1 .. Len(fs)
                 /\ \A k \in 1 .. Len(fs) : fs[k].op # "body" => fs[k].op = "help"
                 /\ \A k \in 1 .. Len(fs) : fs[k].op = "body" => k = 1
        BY <1>2, <1>3, <2>2 DEF BodyFrame, HelpFrame
    <2> QED BY <1>2, <2>1, <2>2
<1>9. \A k \in 1 .. Len(fs) : FrameIn(fs[k], t, base + k, st, sp, tk, tp, at1)'
    <2>1. submitted' = submitted
        BY DEF Elsewhere
    <2>2. FrameIn(f, t, base + 1, st, sp, tk, tp, at1)'
        BY <1>5, <1>7, <1>8, <2>1 DEF FrameIn
    <2>3. ASSUME NEW k \in 1 .. Len(fs), fs[k].op = "help" PROVE FrameIn(fs[k], t, base + k, st, sp, tk, tp, at1)'
        BY <2>3 DEF FrameIn
    <2>4. ASSUME NEW k \in 1 .. Len(fs), fs[k].op = "body" PROVE FrameIn(fs[k], t, base + k, st, sp, tk, tp, at1)'
        <3>1. k = 1 /\ fs[k] = f
            BY <1>8, <2>4
        <3> QED BY <3>1, <2>2
    <2> QED BY <1>8, <2>3, <2>4
<1>10. SeatsKept(t, base, st, sp, tk, tp, at, st, sp, tk, tp, at1)
    BY <1>5, <1>7 DEF SeatsKept
<1>11. SeatsNew(t, base, fs, st, sp, tk, tp, st, sp, tk, tp)
    BY <1>5, <1>8 DEF SeatsNew
<1>12. FramesIn(st, sp, tk, tp, at1)' /\ Seated(st, sp, tk, tp)'
    <2>1. Stacked(t, base, fs) /\ Onward
        BY <1>2, <1>3, RestStays
    <2> QED BY <1>2, <2>1, <1>6, <1>9, <1>10, <1>11, FramesStep
<1>13. AheadIn(st, tk, at1)'
    <2>1. \A y \in Owners : st[y] \in {"new", "external", "deque"} => y # x
        BY <1>5
    <2>2. \A y \in Owners : DOMAIN Body[y] \subseteq Nat
        BY PoolAssumption, LenProperties
    <2> QED BY <1>6, <1>7, <2>1, <2>2 DEF AheadIn
<1>14. AccountTypeOK(st, sp, tk, tp, at1)'
    BY <1>6, <1>7 DEF AccountTypeOK
<1> QED BY <1>12, <1>13, <1>14, RestStays DEF Account

\* Task x gets a seat, and the tasks D go to the deque of w.
TakenSt(st, x, D) == [y \in Things |-> IF y = x THEN "frame" ELSE IF y \in D THEN "deque" ELSE st[y]]
TakenSp(sp, x, seat, D, w) == [y \in Things |-> IF y = x THEN seat ELSE IF y \in D THEN <<w, 0>> ELSE sp[y]]

\* What a step that takes x does to the queues' part of the account.
QueueTaken(x, seat, st, sp, D, w) ==
    /\ st[x] \in {"external", "deque"} /\ x \notin D /\ \A y \in D : st[y] = "external"
    /\ QueuesIn(TakenSt(st, x, D), TakenSp(sp, x, seat, D, w))'

LEMMA SharedTaken ==
    ASSUME StateTypeOK, NEW st, NEW sp, QueuesIn(st, sp), NEW x \in Things, NEW seat, seat[2] # 0, TakesShared(x),
           NEW w \in Workers
    PROVE  QueueTaken(x, seat, st, sp, {}, w)
<1> USE DEF TakesShared
<1>1. /\ x \in ToSet(external) /\ IsInjective(external') /\ ToSet(external') = ToSet(external) \ {x}
    BY TailOfList DEF StateTypeOK, QueuesIn
<1>2. st[x] = "external"
    BY <1>1 DEF QueuesIn
<1>3. PICK st1, sp1 : st1 = TakenSt(st, x, {}) /\ sp1 = TakenSp(sp, x, seat, {}, w)
    OBVIOUS
<1>4. \A y \in Things : y # x => st1[y] = st[y] /\ sp1[y] = sp[y]
    BY <1>3 DEF TakenSt, TakenSp
<1>5. st1[x] = "frame"
    BY <1>3 DEF TakenSt
<1>6. ToSet(external') = {y \in Things : st1[y] = "external"}
    BY <1>1, <1>2, <1>4, <1>5 DEF QueuesIn
<1>7. ASSUME NEW v \in Workers PROVE ToSet(deque'[v]) = {y \in Things : st1[y] = "deque" /\ sp1[y] = <<v, 0>>}
    BY <1>2, <1>4, <1>5 DEF QueuesIn
<1>8. \A y \in Things : st1[y] = "deque" => \E v \in Workers : sp1[y] = <<v, 0>>
    BY <1>4, <1>5 DEF QueuesIn
<1>9. QueuesIn(st1, sp1)'
    BY <1>1, <1>6, <1>7, <1>8 DEF QueuesIn
<1> QED BY <1>2, <1>3, <1>9 DEF QueueTaken

LEMMA DequeTaken ==
    ASSUME StateTypeOK, NEW st, NEW sp, QueuesIn(st, sp), NEW x \in Things, NEW seat, seat[2] # 0, NEW v \in Workers,
           TakesFrom(x, v)
    PROVE  QueueTaken(x, seat, st, sp, {}, v)
<1> USE DEF TakesFrom
<1>1. deque[v] \in Seq(Tasks) /\ deque[v] # <<>> /\ IsInjective(deque[v])
    BY DEF StateTypeOK, QueuesIn
<1>2. /\ x \in ToSet(deque[v]) /\ IsInjective(deque'[v]) /\ ToSet(deque'[v]) = ToSet(deque[v]) \ {x}
      /\ \A u \in Workers \ {v} : deque'[u] = deque[u]
    <2>1. CASE x = Last(deque[v]) /\ deque' = [deque EXCEPT ![v] = Front(@)]
        BY <1>1, <2>1, FrontOfList DEF StateTypeOK
    <2>2. CASE x = Head(deque[v]) /\ deque' = [deque EXCEPT ![v] = Tail(@)]
        BY <1>1, <2>2, TailOfList DEF StateTypeOK
    <2> QED BY <2>1, <2>2
<1>3. st[x] = "deque" /\ sp[x] = <<v, 0>>
    BY <1>2 DEF QueuesIn
<1>4. PICK st1, sp1 : st1 = TakenSt(st, x, {}) /\ sp1 = TakenSp(sp, x, seat, {}, v)
    OBVIOUS
<1>5. \A y \in Things : y # x => st1[y] = st[y] /\ sp1[y] = sp[y]
    BY <1>4 DEF TakenSt, TakenSp
<1>6. st1[x] = "frame"
    BY <1>4 DEF TakenSt
<1>7. ToSet(external') = {y \in Things : st1[y] = "external"}
    BY <1>3, <1>5, <1>6 DEF QueuesIn
<1>8. ASSUME NEW u \in Workers
      PROVE  IsInjective(deque'[u]) /\ ToSet(deque'[u]) = {y \in Things : st1[y] = "deque" /\ sp1[y] = <<u, 0>>}
    <2>1. CASE u = v
        <3>1. ToSet(deque[v]) = {y \in Things : st[y] = "deque" /\ sp[y] = <<v, 0>>}
            BY DEF QueuesIn
        <3> QED BY <1>2, <1>5, <1>6, <2>1, <3>1
    <2>2. CASE u # v
        <3>1. deque'[u] = deque[u] /\ IsInjective(deque[u])
            BY <1>2, <2>2 DEF QueuesIn
        <3>2. ToSet(deque[u]) = {y \in Things : st[y] = "deque" /\ sp[y] = <<u, 0>>}
            BY DEF QueuesIn
        <3>3. <<u, 0>> # <<v, 0>>
            BY <2>2
        <3> QED BY <1>3, <1>5, <1>6, <3>1, <3>2, <3>3
    <2> QED BY <2>1, <2>2
<1>9. \A y \in Things : st1[y] = "deque" => \E u \in Workers : sp1[y] = <<u, 0>>
    BY <1>5, <1>6 DEF QueuesIn
<1>10. IsInjective(external')
    BY DEF QueuesIn
<1>11. QueuesIn(st1, sp1)'
    BY <1>7, <1>8, <1>9, <1>10 DEF QueuesIn
<1> QED BY <1>3, <1>4, <1>11 DEF QueueTaken

LEMMA ShareTaken ==
    ASSUME StateTypeOK, NEW st, NEW sp, QueuesIn(st, sp), NEW x \in Things, NEW seat, seat[2] # 0, NEW w \in Workers,
           TakesShare(x, w)
    PROVE  \E D \in SUBSET Tasks : QueueTaken(x, seat, st, sp, D, w)
<1> USE DEF TakesShare
<1>1. PICK rest \in Seq(Tasks) : rest = Tail(external)
    BY QueueHeads
<1>2. x \in ToSet(external) /\ IsInjective(rest) /\ ToSet(rest) = ToSet(external) \ {x}
    BY <1>1, TailOfList DEF StateTypeOK, QueuesIn
<1>3. PICK D : D = ToSet(Taken(rest))
    OBVIOUS
<1>4. /\ Taken(rest) \in Seq(Tasks) /\ IsInjective(Taken(rest)) /\ IsInjective(Left(rest))
      /\ D \intersect ToSet(Left(rest)) = {} /\ D \union ToSet(Left(rest)) = ToSet(rest)
    <2>1. PICK k \in 0 .. Len(rest) : k = Share(rest)
        BY ShareBounds
    <2>2. /\ SubSeq(rest, 1, k) \in Seq(Tasks)
          /\ IsInjective(SubSeq(rest, 1, k)) /\ IsInjective(SubSeq(rest, k + 1, Len(rest)))
          /\ ToSet(SubSeq(rest, 1, k)) \intersect ToSet(SubSeq(rest, k + 1, Len(rest))) = {}
          /\ ToSet(SubSeq(rest, 1, k)) \union ToSet(SubSeq(rest, k + 1, Len(rest))) = ToSet(rest)
        BY <1>2, CutOfList
    <2>3. Taken(rest) = SubSeq(rest, 1, k) /\ Left(rest) = SubSeq(rest, k + 1, Len(rest))
        BY <2>1, ShareBounds
    <2> QED BY <1>3, <2>2, <2>3
<1>5. st[x] = "external" /\ x \notin D /\ \A y \in D : y \in Things /\ st[y] = "external"
    BY <1>2, <1>4 DEF QueuesIn
<1>6. D \subseteq Tasks
    BY <1>3, <1>4, ElementOfSeq, LenProperties DEF ToSet
<1>7. /\ IsInjective(deque'[w]) /\ ToSet(deque'[w]) = ToSet(deque[w]) \union D
      /\ \A u \in Workers \ {w} : deque'[u] = deque[u]
    <2>1. PICK mine \in Seq(Tasks) : mine = deque[w]
        BY DEF StateTypeOK
    <2>2. IsInjective(mine) /\ \A y \in ToSet(mine) : st[y] = "deque"
        BY <2>1 DEF QueuesIn
    <2>3. ToSet(mine) \intersect ToSet(Taken(rest)) = {}
        BY <1>3, <1>5, <2>2
    <2>4. IsInjective(mine \o Taken(rest)) /\ ToSet(mine \o Taken(rest)) = ToSet(mine) \union D
        BY <1>3, <1>4, <2>2, <2>3, JoinOfLists
    <2>5. deque' = [deque EXCEPT ![w] = mine \o Taken(rest)]
        BY <1>1, <2>1
    <2> QED BY <2>1, <2>4, <2>5 DEF StateTypeOK
<1>8. PICK st1, sp1 : st1 = TakenSt(st, x, D) /\ sp1 = TakenSp(sp, x, seat, D, w)
    OBVIOUS
<1>9. /\ \A y \in Things : y # x /\ y \notin D => st1[y] = st[y] /\ sp1[y] = sp[y]
      /\ \A y \in D : st1[y] = "deque" /\ sp1[y] = <<w, 0>>
      /\ st1[x] = "frame"
    BY <1>5, <1>8 DEF TakenSt, TakenSp
<1>10. ToSet(external') = {y \in Things : st1[y] = "external"} /\ IsInjective(external')
    <2>1. external' = Left(rest)
        BY <1>1
    <2>2. ToSet(Left(rest)) = (ToSet(external) \ {x}) \ D
        BY <1>2, <1>4
    <2>3. ToSet(external) = {y \in Things : st[y] = "external"}
        BY DEF QueuesIn
    <2> QED BY <1>4, <1>5, <1>9, <2>1, <2>2, <2>3
<1>11. ASSUME NEW u \in Workers
       PROVE  IsInjective(deque'[u]) /\ ToSet(deque'[u]) = {y \in Things : st1[y] = "deque" /\ sp1[y] = <<u, 0>>}
    <2>1. ToSet(deque[u]) = {y \in Things : st[y] = "deque" /\ sp[y] = <<u, 0>>} /\ IsInjective(deque[u])
        BY DEF QueuesIn
    <2>2. CASE u = w
        BY <1>5, <1>7, <1>9, <2>1, <2>2
    <2>3. CASE u # w
        <3>1. deque'[u] = deque[u] /\ <<u, 0>> # <<w, 0>>
            BY <1>7, <2>3
        <3> QED BY <1>5, <1>9, <2>1, <3>1
    <2> QED BY <2>2, <2>3
<1>12. \A y \in Things : st1[y] = "deque" => \E u \in Workers : sp1[y] = <<u, 0>>
    BY <1>9 DEF QueuesIn
<1>13. QueuesIn(st1, sp1)'
    BY <1>10, <1>11, <1>12 DEF QueuesIn
<1> QED BY <1>5, <1>6, <1>8, <1>13 DEF QueueTaken

\* The frame of the task that is taken is one of those that come on top; no seat with a
\* thing or with handlers is cleared for it.
TakeShape(t, x, base, fs, k, st, sp, tk, tp) ==
    /\ Stacked(t, base, fs) /\ k \in 1 .. Len(fs) /\ fs[k] = BodyOf(x)
    /\ \A i \in 1 .. Len(fs) : i # k => fs[i].op = "help"
    /\ \A y \in Things : st[y] = "frame" => Stays(sp[y], t, base)
    /\ \A r, y \in Results : tk[<<r, y>>] = "firing" => Stays(tp[<<r, y>>], t, base)

LEMMA TakesShape ==
    ASSUME StateTypeOK, NEW t \in Threads, NEW x, Takes(t, x),
           NEW st, NEW sp, NEW tk, NEW tp, NEW at, Account(st, sp, tk, tp, at)
    PROVE  \E base \in Nat, fs \in Seq(Frame), k \in Nat \ {0} : TakeShape(t, x, base, fs, k, st, sp, tk, tp)
<1>1. BodyOf(x) \in Frame /\ x \in Tasks
    BY NewFrames, FrameSets DEF Owners, Takes
<1>2. CASE Stacked(t, Len(calls[t]), <<BodyOf(x)>>)
    <2>1. <<BodyOf(x)>> \in Seq(Frame) /\ Len(<<BodyOf(x)>>) = 1 /\ <<BodyOf(x)>>[1] = BodyOf(x)
        BY <1>1, FrameSets
    <2>2. PICK fs \in Seq(Frame) : fs = <<BodyOf(x)>>
        BY <2>1
    <2>3. PICK base \in Nat : base = Len(calls[t])
        BY AllStay
    <2>4. /\ \A y \in Things : st[y] = "frame" => Stays(sp[y], t, base)
          /\ \A r, y \in Results : tk[<<r, y>>] = "firing" => Stays(tp[<<r, y>>], t, base)
        BY <2>3, AllStay
    <2>5. Stacked(t, base, fs) /\ 1 \in 1 .. Len(fs) /\ fs[1] = BodyOf(x) /\ 1 \in Nat \ {0}
        BY <1>2, <2>1, <2>2, <2>3
    <2>6. \A i \in 1 .. Len(fs) : i # 1 => fs[i].op = "help"
        BY <2>1, <2>2
    <2>7. TakeShape(t, x, base, fs, 1, st, sp, tk, tp)
        BY <2>4, <2>5, <2>6 DEF TakeShape
    <2> QED BY <2>5, <2>7
<1>3. ASSUME In(t, "help"), NEW h \in HelpFrame, Stacked(t, Len(calls[t]) - 1, <<h, BodyOf(x)>>)
      PROVE  \E base \in Nat, fs \in Seq(Frame), k \in Nat \ {0} : TakeShape(t, x, base, fs, k, st, sp, tk, tp)
    <2>1. /\ <<h, BodyOf(x)>> \in Seq(Frame) /\ Len(<<h, BodyOf(x)>>) = 2
          /\ <<h, BodyOf(x)>>[1] = h /\ <<h, BodyOf(x)>>[2] = BodyOf(x)
        BY <1>1, FrameSets
    <2>2. PICK fs \in Seq(Frame) : fs = <<h, BodyOf(x)>>
        BY <2>1
    <2>3. Busy(t) /\ Top(t).op = "help"
        BY <1>3 DEF In
    <2>4. PICK base \in Nat : base = Len(calls[t]) - 1
        BY <2>3, TopSeat
    <2>5. /\ \A y \in Things : st[y] = "frame" => Stays(sp[y], t, base)
          /\ \A r, y \in Results : tk[<<r, y>>] = "firing" => Stays(tp[<<r, y>>], t, base)
        BY <2>3, <2>4, TopSeat
    <2>6. Stacked(t, base, fs) /\ 2 \in 1 .. Len(fs) /\ fs[2] = BodyOf(x) /\ 2 \in Nat \ {0}
        BY <1>3, <2>1, <2>2, <2>4
    <2>7. \A i \in 1 .. Len(fs) : i # 2 => fs[i].op = "help"
        <3>1. Len(fs) = 2 /\ fs[1] = h /\ h.op = "help"
            BY <2>1, <2>2 DEF HelpFrame
        <3> QED BY <3>1
    <2>8. TakeShape(t, x, base, fs, 2, st, sp, tk, tp)
        BY <2>5, <2>6, <2>7 DEF TakeShape
    <2> QED BY <2>6, <2>8
<1> QED BY <1>2, <1>3 DEF Takes

Unsettled == UNCHANGED <<submitted, outcome, handlers, remaining, failed, registered>>

\* Things go from a queue to a frame or another queue.
LEMMA StagesMoved ==
    ASSUME Unsettled, NEW st, NEW sp, NEW tk, NEW tp, NEW at, Account(st, sp, tk, tp, at), NEW st1,
           \A y \in Things : /\ st1[y] = "new" <=> st[y] = "new"
                             /\ st1[y] = "over" <=> st[y] = "over"
                             /\ st1[y] \in {"external", "deque"} => st[y] \in {"external", "deque"}
    PROVE  /\ Onward /\ HandlersIn(tk)' /\ PairsIn(tk)' /\ StagesIn(st1, tk)' /\ JoinsIn(st1, tk)'
           /\ AheadIn(st1, tk, at)'
<1>1. Onward
    BY DEF Onward, Unsettled
<1>2. HandlersIn(tk)' /\ PairsIn(tk)'
    BY DEF Account, HandlersIn, PairsIn, Unsettled, Over
<1>3. Tasks \subseteq Results /\ Results \subseteq Things /\ Joins \subseteq Things /\ Owners \subseteq Things
    BY DEF Results, Things, Owners
<1>4. StagesIn(st1, tk)'
    BY <1>3 DEF Account, StagesIn, Deserved, Unsettled, Over
<1>5. JoinsIn(st1, tk)'
    <2>1. \A j \in Joins : Counted(j, tk)' = Counted(j, tk) /\ \A r : FailedBy(j, r, tk)' <=> FailedBy(j, r, tk)
        BY DEF Counted, FailedBy, Unsettled
    <2>2. remaining' = remaining /\ failed' = failed
        BY DEF Unsettled
    <2>3. JoinsIn(st, tk)
        BY DEF Account
    <2> QED BY <1>3, <2>1, <2>2, <2>3 DEF JoinsIn
<1>6. AheadIn(st1, tk, at)'
    <2>1. AheadIn(st, tk, at)
        BY DEF Account
    <2> QED BY <1>3, <2>1 DEF AheadIn
<1> QED BY <1>1, <1>2, <1>4, <1>5, <1>6

LEMMA TakesAccount ==
    ASSUME StateTypeOK, NEW t \in Threads, NEW x, Takes(t, x), TakenFromQueue(x), Unsettled,
           NEW st, NEW sp, NEW tk, NEW tp, NEW at, Account(st, sp, tk, tp, at)
    PROVE  \E st1, sp1 : Account(st1, sp1, tk, tp, at)'
<1>0. PICK base \in Nat, fs \in Seq(Frame), k \in Nat \ {0} : TakeShape(t, x, base, fs, k, st, sp, tk, tp)
    BY TakesShape
<1>1. /\ Stacked(t, base, fs) /\ k \in 1 .. Len(fs) /\ fs[k] = BodyOf(x)
      /\ \A i \in 1 .. Len(fs) : i # k => fs[i].op = "help"
      /\ \A y \in Things : st[y] = "frame" => Stays(sp[y], t, base)
      /\ \A r, y \in Results : tk[<<r, y>>] = "firing" => Stays(tp[<<r, y>>], t, base)
    BY <1>0 DEF TakeShape
<1>2. x \in Tasks /\ x \in Things /\ x \in Owners
    BY DEF Takes, Things, Results, Owners
<1>3. PICK seat : seat = <<t, base + k>>
    OBVIOUS
<1>4. seat \in Seats /\ seat[2] # 0
    BY <1>3 DEF Seats
<1>5. AccountTypeOK(st, sp, tk, tp, at) /\ FramesIn(st, sp, tk, tp, at) /\ Seated(st, sp, tk, tp) /\ QueuesIn(st, sp)
    BY DEF Account
<1>6. PICK D \in SUBSET Tasks, w \in Workers : QueueTaken(x, seat, st, sp, D, w)
    <2>1. PICK w0 \in Workers : TRUE
        BY PoolAssumption
    <2>2. CASE TakesShared(x)
        <3>1. QueueTaken(x, seat, st, sp, {}, w0)
            BY <1>2, <1>4, <1>5, <2>2, SharedTaken
        <3> QED BY <3>1
    <2>3. ASSUME NEW v \in Workers, TakesShare(x, v)
          PROVE  \E D \in SUBSET Tasks, w \in Workers : QueueTaken(x, seat, st, sp, D, w)
        BY <1>2, <1>4, <1>5, <2>3, ShareTaken
    <2>4. ASSUME NEW v \in Workers, TakesFrom(x, v)
          PROVE  \E D \in SUBSET Tasks, w \in Workers : QueueTaken(x, seat, st, sp, D, w)
        <3>1. QueueTaken(x, seat, st, sp, {}, v)
            BY <1>2, <1>4, <1>5, <2>4, DequeTaken
        <3> QED BY <3>1
    <2> QED BY <2>2, <2>3, <2>4 DEF TakenFromQueue
<1>7. PICK st1, sp1 : st1 = TakenSt(st, x, D) /\ sp1 = TakenSp(sp, x, seat, D, w)
    OBVIOUS
<1>8. /\ st[x] \in {"external", "deque"} /\ x \notin D /\ \A y \in D : st[y] = "external" /\ y \in Things
      /\ QueuesIn(st1, sp1)'
    BY <1>6, <1>7 DEF QueueTaken, Things, Results
<1>9. /\ \A y \in Things : y # x /\ y \notin D => st1[y] = st[y] /\ sp1[y] = sp[y]
      /\ \A y \in D : st1[y] = "deque" /\ sp1[y] = <<w, 0>>
      /\ st1[x] = "frame" /\ sp1[x] = seat
    BY <1>2, <1>7, <1>8 DEF TakenSt, TakenSp
<1>10. AccountTypeOK(st1, sp1, tk, tp, at)'
    <2>1. <<w, 0>> \in Seats
        BY DEF Seats, Threads
    <2>2. st1 \in [Things -> {"new", "external", "deque", "frame", "over"}] /\ sp1 \in [Things -> Seats]
        BY <1>4, <1>5, <1>7, <2>1 DEF TakenSt, TakenSp, AccountTypeOK
    <2> QED BY <1>5, <2>2 DEF AccountTypeOK
<1>11. \A y \in Things : /\ st1[y] = "new" <=> st[y] = "new"
                         /\ st1[y] = "over" <=> st[y] = "over"
                         /\ st1[y] \in {"external", "deque"} => st[y] \in {"external", "deque"}
    BY <1>8, <1>9
<1>12. /\ Onward /\ HandlersIn(tk)' /\ PairsIn(tk)' /\ StagesIn(st1, tk)' /\ JoinsIn(st1, tk)'
       /\ AheadIn(st1, tk, at)'
    BY <1>11, StagesMoved
<1>13. SeatsKept(t, base, st, sp, tk, tp, at, st1, sp1, tk, tp, at)
    BY <1>8, <1>9 DEF SeatsKept
<1>14. SeatsNew(t, base, fs, st, sp, tk, tp, st1, sp1, tk, tp)
    <2>1. ASSUME NEW y \in Things, st1[y] = "frame"
          PROVE  \/ st[y] = "frame" /\ sp1[y] = sp[y] /\ Stays(sp[y], t, base)
                 \/ \E i \in 1 .. Len(fs) : sp1[y] = <<t, base + i>> /\ fs[i].op \in {"body", "set"} /\ fs[i].of = y
        <3>1. CASE y = x
            <4>1. sp1[y] = <<t, base + k>> /\ fs[k].op = "body" /\ fs[k].of = y
                BY <1>1, <1>3, <1>9, <3>1 DEF BodyOf
            <4> QED BY <4>1, <1>1
        <3>2. CASE y # x
            <4>1. y \notin D
                BY <1>9, <2>1
            <4> QED BY <4>1, <1>1, <1>9, <2>1, <3>2
        <3> QED BY <3>1, <3>2
    <2> QED BY <2>1, <1>1 DEF SeatsNew
<1>15. \A i \in 1 .. Len(fs) : FrameIn(fs[i], t, base + i, st1, sp1, tk, tp, at)'
    <2>1. at[x] = 1 /\ x \in submitted /\ submitted' = submitted
        BY <1>2, <1>8 DEF Account, AheadIn, StagesIn, Unsettled
    <2>2. FrameIn(BodyOf(x), t, base + k, st1, sp1, tk, tp, at)'
        BY <1>3, <1>9, <2>1 DEF FrameIn, BodyOf
    <2>3. ASSUME NEW i \in 1 .. Len(fs), i # k PROVE FrameIn(fs[i], t, base + i, st1, sp1, tk, tp, at)'
        <3>1. fs[i].op = "help"
            BY <1>1, <2>3
        <3> QED BY <3>1 DEF FrameIn
    <2> QED BY <1>1, <2>2, <2>3
<1>16. FramesIn(st1, sp1, tk, tp, at)' /\ Seated(st1, sp1, tk, tp)'
    BY <1>1, <1>5, <1>12, <1>13, <1>14, <1>15, FramesStep
<1> QED BY <1>8, <1>10, <1>12, <1>16 DEF Account

\* Result r gets its outcome, and its handlers go to the seat that was its.
OverSt(st, r) == [y \in Things |-> IF y = r THEN "over" ELSE st[y]]
FiredTk(tk, r) == [p \in Pairs |-> IF p[1] = r /\ tk[p] = "handler" THEN "firing" ELSE tk[p]]
FiredTp(tk, tp, r, seat) == [p \in Pairs |-> IF p[1] = r /\ tk[p] = "handler" THEN seat ELSE tp[p]]

LEMMA OverFacts ==
    ASSUME NEW st, NEW r \in Things
    PROVE  /\ OverSt(st, r)[r] = "over"
           /\ \A y \in Things : y # r => OverSt(st, r)[y] = st[y]
BY DEF OverSt

LEMMA FiredFacts ==
    ASSUME NEW tk, NEW tp, NEW r \in Results, NEW seat
    PROVE  /\ \A q, x \in Results : FiredTk(tk, r)[<<q, x>>] =
                 (IF q = r /\ tk[<<q, x>>] = "handler" THEN "firing" ELSE tk[<<q, x>>])
           /\ \A q, x \in Results : FiredTp(tk, tp, r, seat)[<<q, x>>] =
                 (IF q = r /\ tk[<<q, x>>] = "handler" THEN seat ELSE tp[<<q, x>>])
BY DEF FiredTk, FiredTp, Pairs

LEMMA SettleSeats ==
    ASSUME StateTypeOK, NEW t \in Threads, Busy(t), NEW r \in Results, NEW how \in {"ok", "error"},
           Top(t).op \in {"body", "set"}, Top(t).of = r, Settle(t, r, how), Onward,
           NEW st, NEW sp, NEW tk, NEW tp, NEW at, Account(st, sp, tk, tp, at),
           NEW st1, NEW tk1, NEW tp1,
           st1 = OverSt(st, r), tk1 = FiredTk(tk, r), tp1 = FiredTp(tk, tp, r, <<t, Len(calls[t])>>)
    PROVE  FramesIn(st1, sp, tk1, tp1, at)' /\ Seated(st1, sp, tk1, tp1)'
<1>1. PICK fs : fs = IF handlers[r] = <<>> THEN <<>> ELSE <<Firing(r, handlers[r])>>
    OBVIOUS
<1>2. PICK base : base = Len(calls[t]) - 1
    OBVIOUS
<1>3. /\ base \in Nat /\ base + 1 = Len(calls[t])
      /\ FrameIn(Top(t), t, Len(calls[t]), st, sp, tk, tp, at)
      /\ \A y \in Things : st[y] = "frame" /\ ~ Stays(sp[y], t, base) => y = r
      /\ \A q, y \in Results : tk[<<q, y>>] = "firing" => Stays(tp[<<q, y>>], t, base)
    BY <1>2, TopSeat
<1>4. handlers[r] \in Seq(Results) /\ fs \in Seq(Frame) /\ Stacked(t, base, fs)
    <2>1. handlers[r] \in Seq(Results) /\ Stacked(t, base, fs)
        BY <1>1, <1>2, SettleStacked DEF StateTypeOK
    <2>2. handlers[r] # <<>> => <<Firing(r, handlers[r])>> \in Seq(Frame)
        BY <2>1, NewFrames, FrameSets
    <2> QED BY <1>1, <2>1, <2>2, FrameSets
<1>5. AccountTypeOK(st, sp, tk, tp, at) /\ FramesIn(st, sp, tk, tp, at) /\ Seated(st, sp, tk, tp)
    BY DEF Account
<1>6. r \in Things /\ st[r] = "frame" /\ sp[r] = <<t, base + 1>> /\ ~ Over(r)
    <2>1. r \in Things /\ st[r] = "frame" /\ sp[r] = <<t, base + 1>>
        BY <1>3 DEF FrameIn, Things
    <2>2. ~ Over(r)
        BY <2>1 DEF Account, StagesIn
    <2> QED BY <2>1, <2>2
<1>7. /\ st1[r] = "over" /\ \A y \in Things : y # r => st1[y] = st[y]
      /\ \A q, x \in Results : tk1[<<q, x>>] = (IF q = r /\ tk[<<q, x>>] = "handler" THEN "firing" ELSE tk[<<q, x>>])
      /\ \A q, x \in Results : tp1[<<q, x>>] = (IF q = r /\ tk[<<q, x>>] = "handler" THEN <<t, base + 1>> ELSE tp[<<q, x>>])
    <2>1. st1[r] = "over" /\ \A y \in Things : y # r => st1[y] = st[y]
        BY <1>6, OverFacts
    <2>2. PICK seat : seat = <<t, Len(calls[t])>>
        OBVIOUS
    <2>3. tk1 = FiredTk(tk, r) /\ tp1 = FiredTp(tk, tp, r, seat)
        BY <2>2
    <2>4. \A q, x \in Results : tk1[<<q, x>>] = (IF q = r /\ tk[<<q, x>>] = "handler" THEN "firing" ELSE tk[<<q, x>>])
        BY <2>3 DEF FiredTk, Pairs
    <2>5. \A q, x \in Results : tp1[<<q, x>>] = (IF q = r /\ tk[<<q, x>>] = "handler" THEN seat ELSE tp[<<q, x>>])
        BY <2>3 DEF FiredTp, Pairs
    <2>6. seat = <<t, base + 1>>
        BY <1>3, <2>2
    <2> QED BY <2>1, <2>4, <2>5, <2>6
<1>8. IsInjective(handlers[r]) /\ ToSet(handlers[r]) = {x \in Results : tk[<<r, x>>] = "handler"}
    BY DEF Account, HandlersIn
<1>9. ~ Stays(<<t, base + 1>>, t, base)
    BY <1>3 DEF Stays
<1>10. \A y \in Things : st[y] = "frame" /\ Stays(sp[y], t, base) => y # r
    BY <1>6, <1>9
<1>11. SeatsKept(t, base, st, sp, tk, tp, at, st1, sp, tk1, tp1, at)
    BY <1>7, <1>10 DEF SeatsKept
<1>12. SeatsNew(t, base, fs, st, sp, tk, tp, st1, sp, tk1, tp1)
    <2>1. ASSUME NEW x \in Things, st1[x] = "frame" PROVE st[x] = "frame" /\ Stays(sp[x], t, base)
        BY <1>3, <1>7, <2>1
    <2>2. ASSUME NEW q \in Results, NEW x \in Results, tk1[<<q, x>>] = "firing", ~ (q = r /\ tk[<<q, x>>] = "handler")
          PROVE  tk[<<q, x>>] = "firing" /\ tp1[<<q, x>>] = tp[<<q, x>>] /\ Stays(tp[<<q, x>>], t, base)
        BY <1>3, <1>7, <2>2
    <2>3. ASSUME NEW q \in Results, NEW x \in Results, q = r, tk[<<q, x>>] = "handler"
          PROVE  \E k \in 1 .. Len(fs) : tp1[<<q, x>>] = <<t, base + k>> /\ fs[k].op = "fire" /\ fs[k].of = q
        <3>1. handlers[r] # <<>>
            BY <1>8, <2>3 DEF ToSet
        <3>2. Len(fs) = 1 /\ fs[1] = Firing(r, handlers[r])
            BY <1>1, <3>1
        <3>3. 1 \in 1 .. Len(fs) /\ tp1[<<q, x>>] = <<t, base + 1>> /\ fs[1].op = "fire" /\ fs[1].of = q
            BY <1>7, <2>3, <3>2 DEF Firing
        <3> QED BY <3>3
    <2>4. ASSUME NEW q \in Results, NEW x \in Results, tk1[<<q, x>>] = "firing"
          PROVE  \/ tk[<<q, x>>] = "firing" /\ tp1[<<q, x>>] = tp[<<q, x>>] /\ Stays(tp[<<q, x>>], t, base)
                 \/ \E k \in 1 .. Len(fs) : tp1[<<q, x>>] = <<t, base + k>> /\ fs[k].op = "fire" /\ fs[k].of = q
        <3>1. CASE q = r /\ tk[<<q, x>>] = "handler"
            BY <2>3, <3>1
        <3>2. CASE ~ (q = r /\ tk[<<q, x>>] = "handler")
            BY <2>2, <2>4, <3>2
        <3> QED BY <3>1, <3>2
    <2> QED BY <2>1, <2>4 DEF SeatsNew
<1>13. \A k \in 1 .. Len(fs) : FrameIn(fs[k], t, base + k, st1, sp, tk1, tp1, at)'
    <2>1. CASE handlers[r] = <<>>
        BY <1>1, <2>1
    <2>2. CASE handlers[r] # <<>>
        <3>1. Len(fs) = 1 /\ fs[1] = Firing(r, handlers[r])
            BY <1>1, <2>2
        <3>2. \A x \in Results : tk[<<r, x>>] # "firing"
            BY <1>6 DEF Account, PairsIn
        <3>3. PICK left : left = handlers[r]
            OBVIOUS
        <3>4. ToSet(left) = FiringAt(r, t, base + 1, tk1, tp1)
            BY <1>7, <1>8, <3>2, <3>3 DEF FiringAt
        <3>5. FrameIn(Firing(r, left), t, base + 1, st1, sp, tk1, tp1, at)'
            BY <1>8, <2>2, <3>3, <3>4 DEF FrameIn, Firing, FiringAt
        <3> QED BY <3>1, <3>3, <3>5
    <2> QED BY <2>1, <2>2
<1> QED BY <1>4, <1>5, <1>11, <1>12, <1>13, FramesStep

LEMMA SettleAccount ==
    ASSUME StateTypeOK, NEW t \in Threads, Busy(t), NEW r \in Results, NEW how \in {"ok", "error"},
           Top(t).op \in {"body", "set"}, Top(t).of = r, Deserved(r, how), Settle(t, r, how),
           UNCHANGED <<external, deque, submitted, remaining, failed, registered>>,
           NEW st, NEW sp, NEW tk, NEW tp, NEW at, Account(st, sp, tk, tp, at)
    PROVE  \E st1, tk1, tp1 : Account(st1, sp, tk1, tp1, at)'
<1>1. PICK st1, tk1, tp1 :
          st1 = OverSt(st, r) /\ tk1 = FiredTk(tk, r) /\ tp1 = FiredTp(tk, tp, r, <<t, Len(calls[t])>>)
    OBVIOUS
<1>2. /\ AccountTypeOK(st, sp, tk, tp, at) /\ QueuesIn(st, sp) /\ HandlersIn(tk) /\ PairsIn(tk)
      /\ StagesIn(st, tk) /\ JoinsIn(st, tk) /\ AheadIn(st, tk, at)
    BY DEF Account
<1>3. r \in Things /\ st[r] = "frame" /\ ~ Over(r)
    <2>1. r \in Things /\ st[r] = "frame"
        BY TopSeat DEF FrameIn, Things
    <2>2. ~ Over(r)
        BY <1>2, <2>1 DEF StagesIn
    <2> QED BY <2>1, <2>2
<1>4. /\ st1[r] = "over" /\ \A y \in Things : y # r => st1[y] = st[y]
      /\ \A q, x \in Results : tk1[<<q, x>>] = (IF q = r /\ tk[<<q, x>>] = "handler" THEN "firing" ELSE tk[<<q, x>>])
    BY <1>1, <1>3, OverFacts, FiredFacts
<1>5. /\ outcome'[r] = how /\ \A q \in Results : q # r => outcome'[q] = outcome[q]
      /\ handlers'[r] = <<>> /\ \A q \in Results : q # r => handlers'[q] = handlers[q]
    BY DEF Settle, StateTypeOK
<1>6. Onward
    BY <1>3, <1>5 DEF Onward, Over
<1>7. FramesIn(st1, sp, tk1, tp1, at)' /\ Seated(st1, sp, tk1, tp1)'
    BY <1>1, <1>6, SettleSeats
<1>8. AccountTypeOK(st1, sp, tk1, tp1, at)'
    <2>1. st1 \in [Things -> {"new", "external", "deque", "frame", "over"}]
        BY <1>1, <1>2 DEF AccountTypeOK, OverSt
    <2>2. tk1 \in [Pairs -> {"none", "handler", "firing", "done"}]
        BY <1>1, <1>2 DEF AccountTypeOK, FiredTk
    <2>3. <<t, Len(calls[t])>> \in Seats
        BY LenProperties DEF Seats, StateTypeOK
    <2>4. tp1 \in [Pairs -> Seats]
        BY <1>1, <1>2, <2>3 DEF AccountTypeOK, FiredTp
    <2> QED BY <1>2, <2>1, <2>2, <2>4 DEF AccountTypeOK
<1>9. QueuesIn(st1, sp)'
    <2>1. \A y \in Things : st1[y] = "external" <=> st[y] = "external"
        BY <1>3, <1>4
    <2>2. \A y \in Things : st1[y] = "deque" <=> st[y] = "deque"
        BY <1>3, <1>4
    <2> QED BY <1>2, <2>1, <2>2 DEF QueuesIn
<1>10. HandlersIn(tk1)'
    <2>1. ASSUME NEW q \in Results
          PROVE  IsInjective(handlers'[q]) /\ ToSet(handlers'[q]) = {x \in Results : tk1[<<q, x>>] = "handler"}
        <3>1. CASE q = r
            <4>1. IsInjective(<<>>) /\ ToSet(<<>>) = {}
                BY DEF IsInjective, ToSet
            <4> QED BY <3>1, <4>1, <1>4, <1>5
        <3>2. CASE q # r
            BY <3>2, <1>2, <1>4, <1>5 DEF HandlersIn
        <3> QED BY <3>1, <3>2
    <2> QED BY <2>1 DEF HandlersIn
<1>11. PairsIn(tk1)'
    <2>1. \A p \in Pairs : tk1[p] = "none" <=> tk[p] = "none"
        BY <1>4 DEF Pairs
    <2>2. registered' = {p \in Pairs : tk1[p] # "none"}
        BY <1>2, <2>1 DEF PairsIn
    <2>3. ASSUME NEW q \in Results, NEW x \in Results
          PROVE  /\ tk1[<<q, x>>] # "none" => q \in Sources(x)
                 /\ tk1[<<q, x>>] \in {"firing", "done"} => outcome'[q] # "none"
                 /\ tk1[<<q, x>>] = "handler" => ~ (outcome'[q] # "none")
        BY <1>2, <1>4, <1>5 DEF PairsIn, Over
    <2> QED BY <2>2, <2>3 DEF PairsIn, Over
<1>12. \A x \in Results : \A q \in Sources(x) : tk1[<<q, x>>] = "done" <=> tk[<<q, x>>] = "done"
    BY <1>4 DEF Sources
<1>13. \A x \in Results : \A q \in Sources(x) : q \in Results /\ (tk[<<q, x>>] = "done" => outcome[q] # "none")
    BY <1>2 DEF PairsIn, Over, Sources
<1>14. StagesIn(st1, tk1)'
    <2>1. ASSUME NEW x \in Results
          PROVE  (st1[x] = "over" <=> Over(x)') /\ (Over(x)' => Deserved(x, outcome[x])')
        <3>1. CASE x = r
            <4>1. Deserved(r, how)'
                BY <1>6, StillDeserved
            <4> QED BY <3>1, <4>1, <1>4, <1>5 DEF Over
        <3>2. CASE x # r
            <4>1. x \in Things /\ st1[x] = st[x] /\ outcome'[x] = outcome[x]
                BY <3>2, <1>4, <1>5 DEF Things
            <4>2. outcome[x] # "none" => Deserved(x, outcome[x])
                BY <1>2 DEF StagesIn, Over
            <4>3. PICK h : h = outcome[x]
                OBVIOUS
            <4>4. h # "none" => Deserved(x, h)'
                BY <1>6, <4>2, <4>3, StillDeserved
            <4> QED BY <1>2, <4>1, <4>3, <4>4 DEF StagesIn, Over
        <3> QED BY <3>1, <3>2
    <2>2. ASSUME NEW x \in Tasks
          PROVE  /\ x \in submitted => st1[x] # "new"
                 /\ st1[x] \in {"external", "deque"} => x \in submitted
                 /\ st1[x] # "new" <=> st[x] # "new"
        BY <1>2, <1>3, <1>4 DEF StagesIn, Things, Results
    <2>3. ASSUME NEW x \in Tasks, NEW q \in Sources(x)
          PROVE  (tk1[<<q, x>>] = "done" <=> st1[x] # "new") /\ (x \in submitted => outcome'[q] = "ok")
        <3>1. (tk[<<q, x>>] = "done" <=> st[x] # "new") /\ (x \in submitted => outcome[q] = "ok")
            BY <1>2 DEF StagesIn
        <3>2. x \in Results
            BY DEF Results
        <3> QED BY <3>1, <3>2, <2>2, <1>3, <1>5, <1>12, <1>13 DEF Over
    <2> QED BY <2>1, <2>2, <2>3 DEF StagesIn
<1>15. JoinsIn(st1, tk1)'
    <2>1. ASSUME NEW j \in Joins, NEW q \in Sources(j)
          PROVE  /\ (tk1[<<q, j>>] = "done" /\ outcome'[q] = "ok") <=> (tk[<<q, j>>] = "done" /\ outcome[q] = "ok")
                 /\ (tk1[<<q, j>>] = "done" /\ outcome'[q] = "error") <=> (tk[<<q, j>>] = "done" /\ outcome[q] = "error")
        <3>1. j \in Results
            BY DEF Results
        <3> QED BY <3>1, <1>3, <1>5, <1>12, <1>13 DEF Over
    <2>2. \A j \in Joins : Counted(j, tk1)' = Counted(j, tk) /\ \A q \in Sources(j) : FailedBy(j, q, tk1)' <=> FailedBy(j, q, tk)
        BY <2>1 DEF Counted, FailedBy
    <2>3. \A j \in Joins : st1[j] # "new" <=> st[j] # "new"
        BY <1>3, <1>4 DEF Things, Results
    <2> QED BY <1>2, <2>2, <2>3 DEF JoinsIn
<1>16. AheadIn(st1, tk1, at)'
    <2>1. \A y \in Things : (st1[y] = "new" <=> st[y] = "new") /\ (st1[y] \in {"external", "deque"} => st[y] \in {"external", "deque"})
        BY <1>3, <1>4
    <2>2. \A q, x \in Results : tk1[<<q, x>>] = "none" <=> tk[<<q, x>>] = "none"
        BY <1>4
    <2>3. Owners \subseteq Things /\ Tasks \subseteq Things
        BY DEF Owners, Things, Results
    <2> QED BY <1>2, <2>1, <2>2, <2>3 DEF AheadIn
<1> QED BY <1>7, <1>8, <1>9, <1>10, <1>11, <1>14, <1>15, <1>16 DEF Account

\* Thread t's innermost frame, a body, is over, and nothing else changes.
LEMMA CallerOverAccount ==
    ASSUME StateTypeOK, NEW t \in Threads, In(t, "body"), Top(t) \in BodyFrame, Top(t).of \in Callers,
           Stacked(t, Len(calls[t]) - 1, <<>>), Elsewhere,
           NEW st, NEW sp, NEW tk, NEW tp, NEW at, Account(st, sp, tk, tp, at)
    PROVE  \E st1 : Account(st1, sp, tk, tp, at)'
<1>1. PICK c, base, st1 : c = Top(t).of /\ base = Len(calls[t]) - 1 /\ st1 = OverSt(st, c)
    OBVIOUS
<1>2. /\ AccountTypeOK(st, sp, tk, tp, at) /\ QueuesIn(st, sp) /\ HandlersIn(tk) /\ PairsIn(tk)
      /\ StagesIn(st, tk) /\ JoinsIn(st, tk) /\ AheadIn(st, tk, at)
      /\ FramesIn(st, sp, tk, tp, at) /\ Seated(st, sp, tk, tp)
    BY DEF Account
<1>3. /\ c \in Callers /\ c \in Owners /\ c \in Things /\ c \notin Results /\ st[c] = "frame"
      /\ \A x \in Things : st[x] = "frame" /\ ~ Stays(sp[x], t, base) => x = c
      /\ \A r, x \in Results : tk[<<r, x>>] = "firing" => Stays(tp[<<r, x>>], t, base)
      /\ \A x \in Things : st[x] = "frame" /\ Stays(sp[x], t, base) => x # c
    <2>1. Top(t).of \in Owners
        BY DEF Owners
    <2> QED BY <1>1, <2>1, BodyTop, PoolAssumption
<1>4. st1[c] = "over" /\ \A y \in Things : y # c => st1[y] = st[y]
    BY <1>1, <1>3, OverFacts
<1>5. Onward /\ HandlersIn(tk)' /\ PairsIn(tk)'
    BY RestStays
<1>6. Results \subseteq Things /\ Tasks \subseteq Results /\ Joins \subseteq Results /\ Owners \subseteq Things
    BY DEF Results, Things, Owners
<1>7. \A y \in Results : st1[y] = st[y]
    BY <1>3, <1>4, <1>6
<1>8. AccountTypeOK(st1, sp, tk, tp, at)'
    <2>1. st1 \in [Things -> {"new", "external", "deque", "frame", "over"}]
        BY <1>1, <1>2 DEF AccountTypeOK, OverSt
    <2> QED BY <1>2, <2>1 DEF AccountTypeOK
<1>9. QueuesIn(st1, sp)'
    <2>1. \A y \in Things : (st1[y] = "external" <=> st[y] = "external") /\ (st1[y] = "deque" <=> st[y] = "deque")
        BY <1>3, <1>4
    <2>2. QueuesIn(st1, sp)
        BY <1>2, <2>1 DEF QueuesIn
    <2> QED BY <2>2 DEF QueuesIn, Elsewhere
<1>10. StagesIn(st1, tk)'
    <2>1. StagesIn(st1, tk)
        BY <1>2, <1>6, <1>7 DEF StagesIn
    <2> QED BY <2>1 DEF StagesIn, Deserved, Over, Elsewhere
<1>11. JoinsIn(st1, tk)'
    <2>1. JoinsIn(st, tk)'
        BY RestStays
    <2> QED BY <2>1, <1>6, <1>7 DEF JoinsIn
<1>12. AheadIn(st1, tk, at)'
    <2>1. \A y \in Things : (st1[y] = "new" <=> st[y] = "new") /\ (st1[y] \in {"external", "deque"} => st[y] \in {"external", "deque"})
        BY <1>3, <1>4
    <2> QED BY <1>2, <1>6, <2>1 DEF AheadIn
<1>13. PICK fs \in Seq(Frame) : fs = <<>>
    BY FrameSets
<1>14. FramesIn(st1, sp, tk, tp, at)' /\ Seated(st1, sp, tk, tp)'
    <2>1. Stacked(t, base, fs) /\ Len(fs) = 0
        BY <1>1, <1>13
    <2>2. SeatsKept(t, base, st, sp, tk, tp, at, st1, sp, tk, tp, at)
        BY <1>3, <1>4 DEF SeatsKept
    <2>3. SeatsNew(t, base, fs, st, sp, tk, tp, st1, sp, tk, tp)
        BY <1>3, <1>4 DEF SeatsNew
    <2>4. \A k \in 1 .. Len(fs) : FrameIn(fs[k], t, base + k, st1, sp, tk, tp, at)'
        BY <2>1
    <2> QED BY <2>1, <2>2, <2>3, <2>4, <1>2, <1>5, FramesStep
<1> QED BY <1>5, <1>8, <1>9, <1>10, <1>11, <1>12, <1>14 DEF Account

\* A body that throws leaves the exception to be set in its place.
LEMMA ThrowAccount ==
    ASSUME StateTypeOK, NEW t \in Threads, In(t, "body"), Top(t) \in BodyFrame, Top(t).of \in Tasks,
           Stacked(t, Len(calls[t]) - 1, <<Setting(Top(t).of, "error")>>), Elsewhere,
           NEW st, NEW sp, NEW tk, NEW tp, NEW at, Account(st, sp, tk, tp, at)
    PROVE  Account(st, sp, tk, tp, at)'
<1>1. PICK x, base : x = Top(t).of /\ base = Len(calls[t]) - 1
    OBVIOUS
<1>2. PICK fs : fs = <<Setting(x, "error")>>
    OBVIOUS
<1>3. /\ x \in Tasks /\ x \in Results /\ base \in Nat /\ base + 1 = Len(calls[t])
      /\ st[x] = "frame" /\ sp[x] = <<t, base + 1>> /\ x \in submitted
      /\ \A y \in Things : st[y] = "frame" /\ ~ Stays(sp[y], t, base) => y = x
      /\ \A r, y \in Results : tk[<<r, y>>] = "firing" => Stays(tp[<<r, y>>], t, base)
    <2>1. Top(t).of \in Owners /\ Busy(t)
        BY DEF Owners, In
    <2>2. base \in Nat /\ base + 1 = Len(calls[t])
        BY <1>1, <2>1, TopSeat
    <2>3. st[x] = "frame" /\ sp[x] = <<t, Len(calls[t])>> /\ x \in submitted
        BY <1>1, <2>1, BodyTop
    <2>4. /\ \A y \in Things : st[y] = "frame" /\ ~ Stays(sp[y], t, base) => y = x
          /\ \A r, y \in Results : tk[<<r, y>>] = "firing" => Stays(tp[<<r, y>>], t, base)
        BY <1>1, <2>1, BodyTop
    <2> QED BY <1>1, <2>2, <2>3, <2>4 DEF Results
<1>4. fs \in Seq(Frame) /\ Len(fs) = 1 /\ fs[1] = Setting(x, "error")
    BY <1>2, <1>3, NewFrames, FrameSets
<1>5. AccountTypeOK(st, sp, tk, tp, at) /\ FramesIn(st, sp, tk, tp, at) /\ Seated(st, sp, tk, tp) /\ AheadIn(st, tk, at)
    BY DEF Account
<1>6. Onward
    BY RestStays
<1>7. \A k \in 1 .. Len(fs) : FrameIn(fs[k], t, base + k, st, sp, tk, tp, at)'
    <2>1. x \in submitted'
        BY <1>3, <1>6 DEF Onward
    <2>2. Deserved(x, "error")'
        BY <2>1 DEF Deserved
    <2>3. FrameIn(Setting(x, "error"), t, base + 1, st, sp, tk, tp, at)'
        BY <1>3, <2>2 DEF FrameIn, Setting
    <2> QED BY <1>4, <2>3
<1>8. SeatsKept(t, base, st, sp, tk, tp, at, st, sp, tk, tp, at)
    BY DEF SeatsKept
<1>9. SeatsNew(t, base, fs, st, sp, tk, tp, st, sp, tk, tp)
    <2>1. fs[1].op = "set" /\ fs[1].of = x /\ 1 \in 1 .. Len(fs)
        BY <1>4 DEF Setting
    <2> QED BY <1>3, <2>1 DEF SeatsNew
<1>10. FramesIn(st, sp, tk, tp, at)' /\ Seated(st, sp, tk, tp)'
    <2>1. Stacked(t, base, fs)
        BY <1>1, <1>2
    <2> QED BY <1>4, <1>5, <1>6, <1>7, <1>8, <1>9, <2>1, FramesStep
<1>11. AheadIn(st, tk, at)' /\ AccountTypeOK(st, sp, tk, tp, at)'
    BY <1>5 DEF AheadIn, AccountTypeOK
<1> QED BY <1>10, <1>11, RestStays DEF Account

LEMMA EndBodyAccount ==
    ASSUME StateTypeOK, Accounted, NEW t \in Threads, EndBody(t)
    PROVE  Accounted'
<1>1. PICK st, sp, tk, tp, at : Account(st, sp, tk, tp, at)
    BY DEF Accounted
<1>2. /\ In(t, "body") /\ Busy(t) /\ Top(t) \in BodyFrame /\ Top(t).of \in Owners /\ Top(t).op = "body"
      /\ UNCHANGED <<external, deque, submitted, remaining, failed, registered>>
    BY EndBodyStacked DEF EndBody, In, queues
<1>3. CASE Top(t).of \in Callers /\ Stacked(t, Len(calls[t]) - 1, <<>>) /\ UNCHANGED <<outcome, handlers>>
    <2>1. \E st1 : Account(st1, sp, tk, tp, at)'
        BY <1>1, <1>2, <1>3, CallerOverAccount DEF Elsewhere
    <2> QED BY <2>1 DEF Accounted
<1>4. ASSUME NEW how \in {"ok", "error"}, Top(t).of \in Tasks, Settle(t, Top(t).of, how)
      PROVE  Accounted'
    <2>1. PICK r \in Results : r = Top(t).of
        BY <1>4 DEF Results
    <2>2. r \in submitted
        BY <1>1, <1>2, <1>4, <2>1, BodyTop
    <2>3. Deserved(r, how)
        BY <1>4, <2>1, <2>2, PoolAssumption DEF Deserved
    <2>4. \E st1, tk1, tp1 : Account(st1, sp, tk1, tp1, at)'
        BY <1>1, <1>2, <1>4, <2>1, <2>3, SettleAccount
    <2> QED BY <2>4 DEF Accounted
<1> QED BY <1>3, <1>4, EndBodyStacked

LEMMA SetResultAccount ==
    ASSUME StateTypeOK, Accounted, NEW t \in Threads, SetResult(t)
    PROVE  Accounted'
<1>1. PICK st, sp, tk, tp, at : Account(st, sp, tk, tp, at)
    BY DEF Accounted
<1>2. /\ Busy(t) /\ Top(t).of \in Results /\ Top(t).how \in {"ok", "error"} /\ Settle(t, Top(t).of, Top(t).how)
      /\ Top(t).op = "set"
      /\ UNCHANGED <<external, deque, submitted, remaining, failed, registered>>
    BY SetResultFacts DEF SetResult, In, queues
<1>3. PICK r \in Results, how \in {"ok", "error"} : r = Top(t).of /\ how = Top(t).how
    BY <1>2
<1>4. Deserved(r, how)
    BY <1>1, <1>2, <1>3, TopSeat DEF FrameIn
<1>5. \E st1, tk1, tp1 : Account(st1, sp, tk1, tp1, at)'
    BY <1>1, <1>2, <1>3, <1>4, SettleAccount
<1> QED BY <1>5 DEF Accounted

LEMMA WaitAccount ==
    ASSUME StateTypeOK, Accounted, NEW t \in Threads, Wait(t)
    PROVE  Accounted'
<1>1. PICK st, sp, tk, tp, at : Account(st, sp, tk, tp, at)
    BY DEF Accounted
<1>2. Does(t, "wait") /\ Elsewhere
    BY DEF Wait, Elsewhere, queues, results
<1>3. In(t, "body") /\ Top(t) \in BodyFrame
    BY <1>2, OpFacts DEF StateTypeOK
<1>4. CASE Top(t).of \in Tasks /\ Stacked(t, Len(calls[t]) - 1, <<Setting(Top(t).of, "error")>>)
    <2>1. Account(st, sp, tk, tp, at)'
        BY <1>1, <1>2, <1>3, <1>4, ThrowAccount
    <2> QED BY <2>1 DEF Accounted
<1>5. CASE Return(t, <<Advanced(t)>>)
    <2>1. \E at1 : Account(st, sp, tk, tp, at1)'
        BY <1>1, <1>2, <1>5, PlainBodyStep, BodyStepAccount
    <2> QED BY <2>1 DEF Accounted
<1>6. CASE Top(t).of \in Tasks /\ \E r \in Op(t).on : outcome[r] = "error"
    <2>1. Busy(t) /\ <<Setting(Top(t).of, "error")>> \in Seq(Frame)
        BY <1>3, <1>6, NewFrames, FrameSets DEF In, Results
    <2>2. Return(t, <<Setting(Top(t).of, "error")>>)
        BY <1>6 DEF Wait
    <2>3. Stacked(t, Len(calls[t]) - 1, <<Setting(Top(t).of, "error")>>)
        BY <2>1, <2>2, ReturnStacked DEF StateTypeOK
    <2> QED BY <1>4, <1>6, <2>3
<1> QED BY <1>5, <1>6 DEF Wait

--------------------------------------------------------------------------------
(* The operations that bring a task about. *)

\* The body on top goes on, and what comes above it holds no thing.
BodySeats(t, base, fs, st, sp, tk, tp, st1, sp1, tk1, tp1) ==
    /\ \A y \in Things : st[y] = "frame" => st1[y] = "frame" /\ sp1[y] = sp[y]
    /\ \A y \in Things : st1[y] = "frame" => st[y] = "frame"
    /\ \A r, y \in Results : tk[<<r, y>>] = "firing" => tk1[<<r, y>>] = "firing" /\ tp1[<<r, y>>] = tp[<<r, y>>]
    /\ \A r, y \in Results : tk1[<<r, y>>] = "firing" =>
          \/ tk[<<r, y>>] = "firing"
          \/ tp1[<<r, y>>] = <<t, base + 2>> /\ Len(fs) = 2 /\ fs[2].op = "fire" /\ fs[2].of = r

LEMMA BodyFrames ==
    ASSUME StateTypeOK, NEW t \in Threads, NEW op, Does(t, op), NEW fs \in Seq(Frame),
           NEW base \in Nat, base + 1 = Len(calls[t]), Stacked(t, base, fs),
           Onward, Len(fs) = 1 \/ Len(fs) = 2, fs[1] = Advanced(t),
           NEW st, NEW sp, NEW tk, NEW tp, NEW at, Account(st, sp, tk, tp, at),
           NEW st1, NEW sp1, NEW tk1, NEW tp1, NEW at1, at1 = Further(at, Top(t).of),
           BodySeats(t, base, fs, st, sp, tk, tp, st1, sp1, tk1, tp1),
           Len(fs) = 2 => FrameIn(fs[2], t, base + 2, st1, sp1, tk1, tp1, at1)'
    PROVE  FramesIn(st1, sp1, tk1, tp1, at1)' /\ Seated(st1, sp1, tk1, tp1)'
<1>1. PICK x, n : x = Top(t).of /\ n = Top(t).next
    OBVIOUS
<1>2. /\ In(t, "body") /\ Busy(t) /\ Top(t) \in BodyFrame /\ x \in Owners /\ x \in Things /\ n \in Nat \ {0}
      /\ fs[1].op = "body" /\ fs[1].of = x /\ fs[1].next = n + 1
    BY <1>1, OpFacts DEF In, StateTypeOK, Owners, Things, Results
<1>3. base = Len(calls[t]) - 1
    OBVIOUS
<1>4. /\ st[x] = "frame" /\ sp[x] = <<t, base + 1>> /\ at[x] = n /\ (x \in Tasks => x \in submitted)
      /\ \A y \in Things : st[y] = "frame" /\ ~ Stays(sp[y], t, base) => y = x
      /\ \A y \in Things : st[y] = "frame" /\ Stays(sp[y], t, base) => y # x
      /\ \A r, y \in Results : tk[<<r, y>>] = "firing" => Stays(tp[<<r, y>>], t, base)
    <2>0. In(t, "body") /\ Top(t) \in BodyFrame /\ Top(t).of \in Owners
        BY <1>1, <1>2
    <2>1. /\ st[Top(t).of] = "frame" /\ sp[Top(t).of] = <<t, Len(calls[t])>>
          /\ at[Top(t).of] = Top(t).next /\ (Top(t).of \in Tasks => Top(t).of \in submitted)
        BY <2>0, BodyTop
    <2>2. /\ \A y \in Things : st[y] = "frame" /\ ~ Stays(sp[y], t, base) => y = Top(t).of
          /\ \A y \in Things : st[y] = "frame" /\ Stays(sp[y], t, base) => y # Top(t).of
          /\ \A r, y \in Results : tk[<<r, y>>] = "firing" => Stays(tp[<<r, y>>], t, base)
        BY <1>3, <2>0, BodyTop
    <2> QED BY <1>1, <2>1, <2>2
<1>5. AccountTypeOK(st, sp, tk, tp, at) /\ FramesIn(st, sp, tk, tp, at) /\ Seated(st, sp, tk, tp)
    BY DEF Account
<1>6. at1[x] = n + 1 /\ \A y \in Owners : y # x => at1[y] = at[y]
    BY <1>1, <1>2, <1>4, <1>5, FurtherTyped DEF AccountTypeOK
<1>7. SeatsKept(t, base, st, sp, tk, tp, at, st1, sp1, tk1, tp1, at1)
    BY <1>4, <1>6 DEF SeatsKept, BodySeats
<1>8. /\ 1 \in 1 .. Len(fs) /\ (Len(fs) = 2 => 2 \in 1 .. Len(fs))
      /\ \A k \in 1 .. Len(fs) : k = 1 \/ (k = 2 /\ Len(fs) = 2)
    <2>1. CASE Len(fs) = 1
        BY <2>1
    <2>2. CASE Len(fs) = 2
        BY <2>2
    <2> QED BY <2>1, <2>2
<1>9. SeatsNew(t, base, fs, st, sp, tk, tp, st1, sp1, tk1, tp1)
    <2>1. ASSUME NEW y \in Things, st1[y] = "frame"
          PROVE  \/ st[y] = "frame" /\ sp1[y] = sp[y] /\ Stays(sp[y], t, base)
                 \/ \E k \in 1 .. Len(fs) : sp1[y] = <<t, base + k>> /\ fs[k].op \in {"body", "set"} /\ fs[k].of = y
        BY <1>2, <1>4, <1>8, <2>1 DEF BodySeats
    <2>2. ASSUME NEW r \in Results, NEW y \in Results, tk1[<<r, y>>] = "firing"
          PROVE  \/ tk[<<r, y>>] = "firing" /\ tp1[<<r, y>>] = tp[<<r, y>>] /\ Stays(tp[<<r, y>>], t, base)
                 \/ \E k \in 1 .. Len(fs) : tp1[<<r, y>>] = <<t, base + k>> /\ fs[k].op = "fire" /\ fs[k].of = r
        <3>1. \/ tk[<<r, y>>] = "firing" /\ tp1[<<r, y>>] = tp[<<r, y>>]
              \/ tp1[<<r, y>>] = <<t, base + 2>> /\ Len(fs) = 2 /\ fs[2].op = "fire" /\ fs[2].of = r
            BY <2>2 DEF BodySeats
        <3>2. CASE tk[<<r, y>>] = "firing" /\ tp1[<<r, y>>] = tp[<<r, y>>]
            BY <1>4, <3>2
        <3>3. CASE tp1[<<r, y>>] = <<t, base + 2>> /\ Len(fs) = 2 /\ fs[2].op = "fire" /\ fs[2].of = r
            BY <1>8, <3>3
        <3> QED BY <3>1, <3>2, <3>3
    <2> QED BY <2>1, <2>2 DEF SeatsNew
<1>10. \A k \in 1 .. Len(fs) : FrameIn(fs[k], t, base + k, st1, sp1, tk1, tp1, at1)'
    <2>1. x \in Tasks => x \in submitted'
        BY <1>4 DEF Onward
    <2>2. PICK f : f = fs[1]
        OBVIOUS
    <2>3. FrameIn(f, t, base + 1, st1, sp1, tk1, tp1, at1)'
        BY <1>2, <1>4, <1>6, <2>1, <2>2 DEF FrameIn, BodySeats
    <2> QED BY <1>3, <1>8, <2>2, <2>3
<1> QED BY <1>1, <1>5, <1>7, <1>9, <1>10, FramesStep

\* What one operation brings about, no later one does.
LEMMA AheadNext ==
    ASSUME NEW st, NEW tk, NEW at \in [Owners -> Nat \ {0}], AheadIn(st, tk, at), NEW x \in Owners, st[x] = "frame",
           at[x] \in DOMAIN Body[x], NEW st1, NEW tk1,
           \A y \in Owners : st1[y] \in {"new", "external", "deque"} => st[y] \in {"new", "external", "deque"},
           \A z \in Tasks : st[z] = "new" /\ st1[z] # "new" => Submits(Body[x][at[x]], z),
           \A r, z \in Results : tk[<<r, z>>] = "none" /\ tk1[<<r, z>>] # "none" => Registers(Body[x][at[x]], r, z)
    PROVE  AheadIn(st1, tk1, Further(at, x))
<1>1. PICK at1 : at1 = Further(at, x)
    OBVIOUS
<1>2. /\ at1[x] = at[x] + 1 /\ at[x] \in Nat /\ \A y \in Owners : y # x => at1[y] = at[y]
      /\ \A y \in Owners : at[y] \in Nat /\ at1[y] \in Nat /\ at[y] <= at1[y]
    BY <1>1, FurtherTyped
<1>3. \A y \in Owners : st1[y] \in {"new", "external", "deque"} => at1[y] = 1
    BY <1>2 DEF AheadIn
<1>4. ASSUME NEW y \in Owners, NEW m \in DOMAIN Body[y], m >= at1[y]
      PROVE  /\ m >= at[y] /\ ~ (y = x /\ m = at[x])
    <2>1. m \in Nat
        BY PoolAssumption, LenProperties
    <2> QED BY <1>2, <1>4, <2>1
<1>5. ASSUME NEW y \in Owners, NEW m \in DOMAIN Body[y], m >= at1[y], NEW z \in Tasks, Submits(Body[y][m], z)
      PROVE  st1[z] = "new"
    <2>1. st[z] = "new"
        BY <1>4, <1>5 DEF AheadIn
    <2>2. Submits(Body[x][at[x]], z) => (y = x /\ m = at[x])
        BY <1>5, PoolAssumption DEF Creates
    <2> QED BY <1>4, <1>5, <2>1, <2>2
<1>6. ASSUME NEW y \in Owners, NEW m \in DOMAIN Body[y], m >= at1[y], NEW r \in Results, NEW z \in Results,
             Registers(Body[y][m], r, z)
      PROVE  tk1[<<r, z>>] = "none"
    <2>1. tk[<<r, z>>] = "none"
        BY <1>4, <1>6 DEF AheadIn
    <2>2. Registers(Body[x][at[x]], r, z) => (y = x /\ m = at[x])
        BY <1>6, PoolAssumption
    <2> QED BY <1>4, <1>6, <2>1, <2>2
<1> QED BY <1>1, <1>3, <1>5, <1>6 DEF AheadIn

\* The tasks D are put into the queue that thread t adds to.
PutSt(st, D, t) == [y \in Things |-> IF y \in D THEN (IF t \in Workers THEN "deque" ELSE "external") ELSE st[y]]
PutSp(sp, D, t) == [y \in Things |-> IF y \in D THEN <<t, 0>> ELSE sp[y]]

LEMMA PutFacts ==
    ASSUME NEW st, NEW sp, NEW D, NEW t \in Threads
    PROVE  /\ \A y \in Things : y \notin D => PutSt(st, D, t)[y] = st[y] /\ PutSp(sp, D, t)[y] = sp[y]
           /\ \A y \in Things : y \in D => PutSp(sp, D, t)[y] = <<t, 0>> /\ PutSt(st, D, t)[y] \in {"deque", "external"}
           /\ \A y \in Things : y \in D => PutSt(st, D, t)[y] = (IF t \in Workers THEN "deque" ELSE "external")
BY DEF PutSt, PutSp

LEMMA PutQueues ==
    ASSUME StateTypeOK, NEW t \in Threads, NEW tasks \in Seq(Tasks), IsInjective(tasks), Put(t, tasks),
           NEW st, NEW sp, QueuesIn(st, sp), \A x \in ToSet(tasks) : st[x] = "new"
    PROVE  QueuesIn(PutSt(st, ToSet(tasks), t), PutSp(sp, ToSet(tasks), t))'
<1>1. PICK D, st1, sp1 : D = ToSet(tasks) /\ st1 = PutSt(st, D, t) /\ sp1 = PutSp(sp, D, t)
    OBVIOUS
<1>2. D \subseteq Tasks /\ D \subseteq Things /\ \A x \in D : st[x] = "new"
    BY <1>1, ElementOfSeq, LenProperties DEF ToSet, Things, Results
<1>3. /\ \A y \in Things : y \notin D => st1[y] = st[y] /\ sp1[y] = sp[y]
      /\ \A y \in D : sp1[y] = <<t, 0>> /\ st1[y] = (IF t \in Workers THEN "deque" ELSE "external")
    BY <1>1, <1>2, PutFacts
<1>4. CASE t \in Workers
    <2>1. external' = external /\ deque' = [deque EXCEPT ![t] = @ \o tasks]
        BY <1>4 DEF Put
    <2>2. PICK mine \in Seq(Tasks) : mine = deque[t]
        BY <1>4 DEF StateTypeOK
    <2>3. IsInjective(mine) /\ ToSet(mine) = {x \in Things : st[x] = "deque" /\ sp[x] = <<t, 0>>}
        BY <1>4, <2>2 DEF QueuesIn
    <2>4. ToSet(mine) \intersect ToSet(tasks) = {}
        BY <1>1, <1>2, <2>3
    <2>5. IsInjective(mine \o tasks) /\ ToSet(mine \o tasks) = ToSet(mine) \union D
        BY <1>1, <2>3, <2>4, JoinOfLists
    <2>6. deque'[t] = mine \o tasks /\ \A w \in Workers \ {t} : deque'[w] = deque[w]
        BY <1>4, <2>1, <2>2 DEF StateTypeOK
    <2>7. ToSet(external') = {x \in Things : st1[x] = "external"} /\ IsInjective(external')
        BY <1>2, <1>3, <1>4, <2>1 DEF QueuesIn
    <2>8. ASSUME NEW w \in Workers
          PROVE  IsInjective(deque'[w]) /\ ToSet(deque'[w]) = {x \in Things : st1[x] = "deque" /\ sp1[x] = <<w, 0>>}
        <3>1. CASE w = t
            BY <3>1, <1>2, <1>3, <1>4, <2>3, <2>5, <2>6
        <3>2. CASE w # t
            <4>1. <<w, 0>> # <<t, 0>> /\ deque'[w] = deque[w] /\ IsInjective(deque[w])
                BY <3>2, <2>6 DEF QueuesIn
            <4>2. ToSet(deque[w]) = {x \in Things : st[x] = "deque" /\ sp[x] = <<w, 0>>}
                BY DEF QueuesIn
            <4> QED BY <1>2, <1>3, <4>1, <4>2
        <3> QED BY <3>1, <3>2
    <2>9. \A x \in Things : st1[x] = "deque" => \E w \in Workers : sp1[x] = <<w, 0>>
        BY <1>3, <1>4 DEF QueuesIn
    <2>10. QueuesIn(st1, sp1)'
        BY <2>7, <2>8, <2>9 DEF QueuesIn
    <2> QED BY <1>1, <2>10
<1>5. CASE t \notin Workers
    <2>1. external' = external \o tasks /\ deque' = deque
        BY <1>5 DEF Put
    <2>2. IsInjective(external) /\ ToSet(external) = {x \in Things : st[x] = "external"} /\ external \in Seq(Tasks)
        BY DEF QueuesIn, StateTypeOK
    <2>3. ToSet(external) \intersect ToSet(tasks) = {}
        BY <1>1, <1>2, <2>2
    <2>4. IsInjective(external \o tasks) /\ ToSet(external \o tasks) = ToSet(external) \union D
        BY <1>1, <2>2, <2>3, JoinOfLists
    <2>5. IsInjective(external') /\ ToSet(external') = {x \in Things : st1[x] = "external"}
        BY <1>2, <1>3, <1>5, <2>1, <2>2, <2>4
    <2>6. \A x \in Things : (st1[x] = "deque" <=> st[x] = "deque") /\ (st1[x] = "deque" => sp1[x] = sp[x])
        BY <1>2, <1>3, <1>5
    <2>7. ASSUME NEW w \in Workers
          PROVE  IsInjective(deque'[w]) /\ ToSet(deque'[w]) = {x \in Things : st1[x] = "deque" /\ sp1[x] = <<w, 0>>}
        <3>1. IsInjective(deque[w]) /\ ToSet(deque[w]) = {x \in Things : st[x] = "deque" /\ sp[x] = <<w, 0>>}
            BY DEF QueuesIn
        <3> QED BY <3>1, <2>1, <2>6
    <2>8. \A x \in Things : st1[x] = "deque" => \E w \in Workers : sp1[x] = <<w, 0>>
        BY <2>6 DEF QueuesIn
    <2>9. QueuesIn(st1, sp1)'
        BY <2>5, <2>7, <2>8 DEF QueuesIn
    <2> QED BY <1>1, <2>9
<1> QED BY <1>4, <1>5

LEMMA PutStages ==
    ASSUME NEW t \in Threads, NEW D \in SUBSET Tasks, NEW st, NEW sp, NEW tk, NEW tp, NEW at,
           AccountTypeOK(st, sp, tk, tp, at)
    PROVE  AccountTypeOK(PutSt(st, D, t), PutSp(sp, D, t), tk, tp, at)
<1>1. <<t, 0>> \in Seats
    BY DEF Seats
<1>2. /\ PutSt(st, D, t) \in [Things -> {"new", "external", "deque", "frame", "over"}]
      /\ PutSp(sp, D, t) \in [Things -> Seats]
    BY <1>1 DEF AccountTypeOK, PutSt, PutSp
<1> QED BY <1>2 DEF AccountTypeOK

\* The tasks that are submitted run after nothing.
LEMMA SubmitsFirst ==
    ASSUME NEW y \in Owners, NEW n \in DOMAIN Body[y], NEW x \in Tasks, Submits(Body[y][n], x)
    PROVE  Sources(x) = {}
<1>1. SUFFICES ASSUME NEW r \in Sources(x) PROVE FALSE
    OBVIOUS
<1>2. PICK z \in Owners : \E m \in DOMAIN Body[z] : Registers(Body[z][m], r, x)
    BY <1>1 DEF Sources
<1>3. PICK m \in DOMAIN Body[z] : Registers(Body[z][m], r, x)
    BY <1>2
<1>4. Creates(Body[y][n], x) /\ Creates(Body[z][m], x)
    BY <1>3 DEF Creates, Sources
<1>5. y = z /\ n = m
    BY <1>4, PoolAssumption
<1> QED BY <1>3, <1>5 DEF Submits, Registers

LEMMA SubmitAccount ==
    ASSUME StateTypeOK, Accounted, NEW t \in Threads, Submit(t)
    PROVE  Accounted'
<1>1. PICK st, sp, tk, tp, at : Account(st, sp, tk, tp, at)
    BY DEF Accounted
<1>2. /\ AccountTypeOK(st, sp, tk, tp, at) /\ QueuesIn(st, sp) /\ HandlersIn(tk) /\ PairsIn(tk)
      /\ StagesIn(st, tk) /\ JoinsIn(st, tk) /\ AheadIn(st, tk, at)
    BY <1>1 DEF Account
<1>3. PICK op \in {"submit", "batch"} : Does(t, op)
    BY DEF Submit
<1>4. /\ In(t, "body") /\ Busy(t) /\ Top(t) \in BodyFrame /\ Top(t).of \in Owners /\ Op(t).op \in {"submit", "batch"}
      /\ Top(t).next \in DOMAIN Body[Top(t).of] /\ Op(t) = Body[Top(t).of][Top(t).next]
      /\ Advanced(t) \in Frame
    BY <1>3, OpFacts, FrameSets DEF In, StateTypeOK
<1>5. PICK x, n : x = Top(t).of /\ n = Top(t).next
    OBVIOUS
<1>6. PICK tasks : tasks = Op(t).tasks
    OBVIOUS
<1>7. PICK all \in BOOLEAN : all = (Op(t).op = "batch")
    OBVIOUS
<1>8. PICK fs : fs = <<Advanced(t), Notifying(all)>>
    OBVIOUS
<1>9. tasks \in Seq(Tasks) /\ Stacked(t, Len(calls[t]) - 1, fs)
    BY <1>6, <1>7, <1>8, SubmitStacked
<1>10. Notifying(all) \in Frame
    BY NewFrames, FrameSets
<1>11. fs \in Seq(Frame) /\ Len(fs) = 2 /\ fs[1] = Advanced(t) /\ fs[2] = Notifying(all)
    BY <1>4, <1>8, <1>10, FrameSets
<1>12. PICK D : D = ToSet(tasks)
    OBVIOUS
<1>13. D \subseteq Tasks /\ D \subseteq Things /\ D \subseteq Results
    BY <1>9, <1>12, ElementOfSeq, LenProperties DEF ToSet, Things, Results
<1>14. IsInjective(tasks) /\ \A z \in D : Submits(Body[x][n], z)
    BY <1>4, <1>5, <1>6, <1>12, PoolAssumption DEF Submits
<1>15. x \in Owners /\ x \in Things /\ n \in DOMAIN Body[x] /\ at[x] = n /\ st[x] = "frame"
    BY <1>1, <1>4, <1>5, BodyTop
<1>16. n >= at[x]
    BY <1>15, <1>2 DEF AccountTypeOK
<1>17. \A z \in D : st[z] = "new" /\ Sources(z) = {}
    <2>1. \A z \in D : st[z] = "new"
        BY <1>2, <1>13, <1>14, <1>15, <1>16 DEF AheadIn
    <2>2. \A z \in D : Sources(z) = {}
        BY <1>13, <1>14, <1>15, SubmitsFirst
    <2> QED BY <2>1, <2>2
<1>18. PICK st1, sp1, at1 : st1 = PutSt(st, D, t) /\ sp1 = PutSp(sp, D, t) /\ at1 = Further(at, x)
    OBVIOUS
<1>19. /\ \A y \in Things : y \notin D => st1[y] = st[y] /\ sp1[y] = sp[y]
       /\ \A y \in D : st1[y] \in {"deque", "external"}
    BY <1>13, <1>18, PutFacts
<1>20. Put(t, tasks) /\ UNCHANGED <<outcome, handlers, remaining, failed, registered>> /\ submitted' = submitted \union D
    BY <1>6, <1>12 DEF Submit, Put, results
<1>21. QueuesIn(st1, sp1)'
    BY <1>2, <1>9, <1>12, <1>14, <1>17, <1>18, <1>20, PutQueues
<1>22. Onward
    BY <1>20 DEF Onward
<1>23. AccountTypeOK(st1, sp1, tk, tp, at1)'
    <2>1. AccountTypeOK(st1, sp1, tk, tp, at)
        BY <1>2, <1>13, <1>18, PutStages
    <2>2. at1 \in [Owners -> Nat \ {0}]
        BY <1>2, <1>15, <1>18, FurtherTyped DEF AccountTypeOK
    <2> QED BY <2>1, <2>2 DEF AccountTypeOK
<1>24. HandlersIn(tk)' /\ PairsIn(tk)'
    BY <1>2, <1>20 DEF HandlersIn, PairsIn, Over
<1>25. \A y \in Joins : y \in Results /\ y \in Things /\ y \notin D
    BY <1>13, PoolAssumption DEF Results, Things
<1>26. StagesIn(st1, tk)'
    <2>1. ASSUME NEW y \in Results
          PROVE  (st1[y] = "over" <=> Over(y)') /\ (Over(y)' => Deserved(y, outcome[y])')
        <3>1. y \in Things /\ (st[y] = "over" <=> Over(y)) /\ (Over(y) => Deserved(y, outcome[y]))
            BY <1>2 DEF StagesIn, Things
        <3>2. st1[y] = "over" <=> st[y] = "over"
            BY <1>17, <1>19, <3>1
        <3>3. outcome'[y] = outcome[y] /\ (Over(y)' <=> Over(y))
            BY <1>20 DEF Over
        <3>4. PICK h : h = outcome[y]
            OBVIOUS
        <3>5. Over(y) => Deserved(y, h)'
            BY <1>22, <3>1, <3>4, StillDeserved
        <3> QED BY <3>1, <3>2, <3>3, <3>4, <3>5
    <2>2. ASSUME NEW y \in Tasks
          PROVE  /\ y \in submitted' => st1[y] # "new"
                 /\ st1[y] \in {"external", "deque"} => y \in submitted'
                 /\ \A r \in Sources(y) : (tk[<<r, y>>] = "done" <=> st1[y] # "new") /\ (y \in submitted' => outcome'[r] = "ok")
        <3>1. CASE y \in D
            BY <3>1, <1>17, <1>19, <1>20
        <3>2. CASE y \notin D
            <4>1. st1[y] = st[y] /\ (y \in submitted' <=> y \in submitted)
                BY <3>2, <1>19, <1>20 DEF Things, Results
            <4> QED BY <4>1, <1>2, <1>20 DEF StagesIn
        <3> QED BY <3>1, <3>2
    <2> QED BY <2>1, <2>2 DEF StagesIn
<1>27. JoinsIn(st1, tk)'
    <2>1. \A j \in Joins : Counted(j, tk)' = Counted(j, tk) /\ \A r : FailedBy(j, r, tk)' <=> FailedBy(j, r, tk)
        BY <1>20 DEF Counted, FailedBy
    <2>2. \A j \in Joins : st1[j] = st[j]
        BY <1>19, <1>25
    <2> QED BY <1>2, <1>20, <2>1, <2>2 DEF JoinsIn
<1>28. AheadIn(st1, tk, at1)'
    <2>1. \A y \in Owners : st1[y] \in {"new", "external", "deque"} => st[y] \in {"new", "external", "deque"}
        BY <1>17, <1>19 DEF Owners, Things, Results
    <2>2. \A z \in Tasks : st[z] = "new" /\ st1[z] # "new" => Submits(Body[x][at[x]], z)
        BY <1>14, <1>15, <1>19 DEF Things, Results
    <2>3. AheadIn(st1, tk, at1)
        BY <1>2, <1>15, <1>18, <2>1, <2>2, AheadNext DEF AccountTypeOK
    <2> QED BY <2>3 DEF AheadIn
<1>29. FramesIn(st1, sp1, tk, tp, at1)' /\ Seated(st1, sp1, tk, tp)'
    <2>00. Len(calls[t]) \in Nat /\ Len(calls[t]) - 1 \in Nat
        BY <1>1, <1>4, TopSeat
    <2>0. PICK base \in Nat : base + 1 = Len(calls[t]) /\ base = Len(calls[t]) - 1
        BY <2>00
    <2>1. FrameIn(fs[2], t, base + 2, st1, sp1, tk, tp, at1)'
        <3>1. fs[2].op = "notify"
            BY <1>11 DEF Notifying
        <3> QED BY <3>1 DEF FrameIn
    <2>2. BodySeats(t, base, fs, st, sp, tk, tp, st1, sp1, tk, tp)
        BY <1>17, <1>19 DEF BodySeats
    <2>4. (Len(fs) = 1 \/ Len(fs) = 2) /\ at1 = Further(at, Top(t).of)
        BY <1>5, <1>11, <1>18
    <2>3. Stacked(t, base, fs)
        BY <1>9, <2>0
    <2> QED BY <1>1, <1>3, <1>11, <1>22, <2>0, <2>1, <2>2, <2>3, <2>4, BodyFrames
<1>30. Account(st1, sp1, tk, tp, at1)'
    BY <1>21, <1>23, <1>24, <1>26, <1>27, <1>28, <1>29 DEF Account
<1> QED BY <1>30 DEF Accounted

Tokened(tk, r, x, v) == [p \in Pairs |-> IF p = <<r, x>> THEN v ELSE tk[p]]

LEMMA TokenFacts ==
    ASSUME NEW tk, NEW r \in Results, NEW x \in Results, NEW v
    PROVE  /\ Tokened(tk, r, x, v)[<<r, x>>] = v
           /\ \A q, z \in Results : ~ (q = r /\ z = x) => Tokened(tk, r, x, v)[<<q, z>>] = tk[<<q, z>>]
BY DEF Tokened, Pairs

LEMMA AppendToList ==
    ASSUME NEW S, NEW s \in Seq(S), NEW x \in S, IsInjective(s), x \notin ToSet(s)
    PROVE  IsInjective(Append(s, x)) /\ ToSet(Append(s, x)) = ToSet(s) \union {x}
<1>0. <<x>> \in Seq(S)
    OBVIOUS
<1>1. PICK q \in Seq(S) : q = <<x>>
    BY <1>0
<1>2. IsInjective(q) /\ ToSet(q) = {x}
    BY <1>1 DEF IsInjective, ToSet
<1>3. ToSet(s) \intersect ToSet(q) = {}
    BY <1>2
<1>4. IsInjective(s \o q) /\ ToSet(s \o q) = ToSet(s) \union {x}
    BY <1>2, <1>3, JoinOfLists
<1>5. Append(s, x) = s \o q
    BY <1>1
<1> QED BY <1>4, <1>5

\* A pair of handlers gets its first token.
LEMMA RegisteredRest ==
    ASSUME StateTypeOK, NEW r \in Results, NEW x \in Results, r \in Sources(x),
           UNCHANGED <<external, deque, submitted, outcome, remaining, failed>>, registered' = registered \union {<<r, x>>},
           NEW st, NEW sp, NEW tk, NEW tp, NEW at, Account(st, sp, tk, tp, at), tk[<<r, x>>] = "none",
           NEW v \in {"handler", "firing"}, v = "handler" <=> ~ Over(r), NEW tk1, tk1 = Tokened(tk, r, x, v)
    PROVE  /\ QueuesIn(st, sp)' /\ PairsIn(tk1)' /\ StagesIn(st, tk1)' /\ JoinsIn(st, tk1)'
           /\ tk1 \in [Pairs -> {"none", "handler", "firing", "done"}]
<1>1. /\ tk1[<<r, x>>] = v /\ \A q, z \in Results : ~ (q = r /\ z = x) => tk1[<<q, z>>] = tk[<<q, z>>]
    BY TokenFacts
<1>2. \A q, z \in Results : (tk1[<<q, z>>] = "done" <=> tk[<<q, z>>] = "done")
    BY <1>1
<1>3. QueuesIn(st, sp)'
    BY DEF Account, QueuesIn
<1>4. PairsIn(tk1)'
    <2>1. <<r, x>> \in Pairs /\ \A p \in Pairs : tk1[p] # "none" <=> tk[p] # "none" \/ p = <<r, x>>
        BY <1>1 DEF Pairs
    <2>2. registered = {p \in Pairs : tk[p] # "none"}
        BY DEF Account, PairsIn
    <2>3. registered' = {p \in Pairs : tk1[p] # "none"}
        BY <2>1, <2>2
    <2>4. ASSUME NEW q \in Results, NEW z \in Results
          PROVE  /\ tk1[<<q, z>>] # "none" => q \in Sources(z)
                 /\ tk1[<<q, z>>] \in {"firing", "done"} => Over(q)
                 /\ tk1[<<q, z>>] = "handler" => ~ Over(q)
        <3>1. CASE q = r /\ z = x
            BY <1>1, <3>1
        <3>2. CASE ~ (q = r /\ z = x)
            BY <1>1, <3>2 DEF Account, PairsIn
        <3> QED BY <3>1, <3>2
    <2> QED BY <2>3, <2>4 DEF PairsIn, Over
<1>5. \A z : \A q \in Sources(z) : q \in Results
    BY DEF Sources
<1>6. Tasks \subseteq Results /\ Joins \subseteq Results
    BY DEF Results
<1>7. StagesIn(st, tk1)'
    <2>1. StagesIn(st, tk)
        BY DEF Account
    <2>2. StagesIn(st, tk1)
        BY <1>2, <1>5, <1>6, <2>1 DEF StagesIn
    <2> QED BY <2>2 DEF StagesIn, Deserved, Over
<1>8. JoinsIn(st, tk1)'
    <2>1. JoinsIn(st, tk)
        BY DEF Account
    <2>2. \A j \in Joins : Counted(j, tk1)' = Counted(j, tk) /\ \A q \in Sources(j) : FailedBy(j, q, tk1)' <=> FailedBy(j, q, tk)
        BY <1>2, <1>5, <1>6 DEF Counted, FailedBy
    <2> QED BY <2>1, <2>2 DEF JoinsIn
<1>9. tk1 \in [Pairs -> {"none", "handler", "firing", "done"}]
    <2>1. tk \in [Pairs -> {"none", "handler", "firing", "done"}]
        BY DEF Account, AccountTypeOK
    <2> QED BY <2>1 DEF Tokened
<1> QED BY <1>3, <1>4, <1>7, <1>8, <1>9

\* The operation that thread t does, on_complete(): its handlers have no token yet.
LEMMA OnCompleteFacts ==
    ASSUME StateTypeOK, NEW t \in Threads, OnComplete(t), NEW st, NEW sp, NEW tk, NEW tp, NEW at, Account(st, sp, tk, tp, at)
    PROVE  /\ Does(t, "after") /\ Busy(t) /\ In(t, "body") /\ Top(t) \in BodyFrame /\ Top(t).of \in Owners
           /\ at[Top(t).of] \in DOMAIN Body[Top(t).of] /\ st[Top(t).of] = "frame"
           /\ Registers(Body[Top(t).of][at[Top(t).of]], Op(t).on, Op(t).run)
           /\ Op(t).on \in Results /\ Op(t).run \in Results /\ Op(t).on \in Sources(Op(t).run)
           /\ tk[<<Op(t).on, Op(t).run>>] = "none" /\ Advanced(t) \in Frame
<1>1. /\ Does(t, "after") /\ In(t, "body") /\ Busy(t) /\ Top(t) \in BodyFrame /\ Top(t).of \in Owners
      /\ Top(t).next \in DOMAIN Body[Top(t).of] /\ Op(t) = Body[Top(t).of][Top(t).next] /\ Op(t).op = "after"
      /\ Advanced(t) \in Frame /\ Top(t).next \in Nat
    BY OpFacts, FrameSets DEF In, StateTypeOK, OnComplete
<1>2. Op(t).on \in Results /\ Op(t).run \in Results
    BY OnCompleteStacked
<1>3. at[Top(t).of] = Top(t).next /\ st[Top(t).of] = "frame"
    BY <1>1, BodyTop
<1>4. Registers(Op(t), Op(t).on, Op(t).run)
    BY <1>1 DEF Registers
<1>5. Op(t).on \in Sources(Op(t).run)
    BY <1>1, <1>2, <1>4 DEF Sources
<1>6. tk[<<Op(t).on, Op(t).run>>] = "none"
    <2>1. PICK y, n, o, r, x : y = Top(t).of /\ n = Top(t).next /\ o = Op(t) /\ r = o.on /\ x = o.run
        OBVIOUS
    <2>2. y \in Owners /\ n \in DOMAIN Body[y] /\ n \in Nat /\ at[y] = n /\ Registers(Body[y][n], r, x)
          /\ r \in Results /\ x \in Results
        BY <1>1, <1>2, <1>3, <1>4, <2>1
    <2>3. n >= at[y] /\ AheadIn(st, tk, at)
        BY <2>2 DEF Account
    <2>4. tk[<<r, x>>] = "none"
        BY <2>2, <2>3 DEF AheadIn
    <2> QED BY <2>1, <2>4
<1> QED BY <1>1, <1>2, <1>3, <1>4, <1>5, <1>6

LEMMA OnCompleteAccount ==
    ASSUME StateTypeOK, Accounted, NEW t \in Threads, OnComplete(t)
    PROVE  Accounted'
<1>1. PICK st, sp, tk, tp, at : Account(st, sp, tk, tp, at)
    BY DEF Accounted
<1>2. PICK r \in Results, x \in Results : r = Op(t).on /\ x = Op(t).run
    BY <1>1, OnCompleteFacts
<1>3. PICK y \in Owners : y = Top(t).of
    BY <1>1, OnCompleteFacts
<1>4. /\ Does(t, "after") /\ Busy(t) /\ at[y] \in DOMAIN Body[y] /\ st[y] = "frame" /\ Registers(Body[y][at[y]], r, x)
      /\ r \in Sources(x) /\ tk[<<r, x>>] = "none" /\ Advanced(t) \in Frame
    BY <1>1, <1>2, <1>3, OnCompleteFacts
<1>5. Len(calls[t]) \in Nat /\ Len(calls[t]) - 1 \in Nat
    BY <1>1, <1>4, TopSeat
<1>6. PICK base \in Nat : base + 1 = Len(calls[t]) /\ base = Len(calls[t]) - 1
    BY <1>5
<1>7. /\ UNCHANGED <<external, deque, submitted, outcome, remaining, failed>>
      /\ registered' = registered \union {<<r, x>>} /\ Onward
    BY <1>2 DEF OnComplete, queues, Onward
<1>8. AccountTypeOK(st, sp, tk, tp, at) /\ HandlersIn(tk) /\ AheadIn(st, tk, at)
    BY <1>1 DEF Account
<1>9. PICK at1 : at1 = Further(at, Top(t).of) /\ at1 = Further(at, y)
    BY <1>3
<1>10. at1 \in [Owners -> Nat \ {0}]
    BY <1>8, <1>9, FurtherTyped DEF AccountTypeOK
<1>11. ASSUME NEW v \in {"handler", "firing"} PROVE AheadIn(st, Tokened(tk, r, x, v), at1)
    <2>1. PICK tk1 : tk1 = Tokened(tk, r, x, v)
        OBVIOUS
    <2>2. \A q, z \in Results : tk[<<q, z>>] = "none" /\ tk1[<<q, z>>] # "none" => Registers(Body[y][at[y]], q, z)
        BY <1>4, <2>1, TokenFacts
    <2>3. \A z \in Tasks : st[z] = "new" /\ st[z] # "new" => Submits(Body[y][at[y]], z)
        OBVIOUS
    <2>4. AheadIn(st, tk1, at1)
        BY <1>4, <1>8, <1>9, <2>2, <2>3, AheadNext DEF AccountTypeOK
    <2> QED BY <2>1, <2>4
<1>12. CASE ~ Over(r)
    <2>1. PICK tk1 : tk1 = Tokened(tk, r, x, "handler")
        OBVIOUS
    <2>2. tk1[<<r, x>>] = "handler" /\ \A q, z \in Results : ~ (q = r /\ z = x) => tk1[<<q, z>>] = tk[<<q, z>>]
        BY <2>1, TokenFacts
    <2>3. QueuesIn(st, sp)' /\ PairsIn(tk1)' /\ StagesIn(st, tk1)' /\ JoinsIn(st, tk1)'
        BY <1>1, <1>4, <1>7, <1>12, <2>1, RegisteredRest
    <2>4. tk1 \in [Pairs -> {"none", "handler", "firing", "done"}]
        BY <1>1, <1>4, <1>7, <1>12, <2>1, RegisteredRest
    <2>5. handlers'[r] = Append(handlers[r], x) /\ \A q \in Results \ {r} : handlers'[q] = handlers[q]
        BY <1>2, <1>12 DEF OnComplete, StateTypeOK
    <2>6. HandlersIn(tk1)'
        <3>1. ASSUME NEW q \in Results
              PROVE  IsInjective(handlers'[q]) /\ ToSet(handlers'[q]) = {z \in Results : tk1[<<q, z>>] = "handler"}
            <4>1. IsInjective(handlers[q]) /\ ToSet(handlers[q]) = {z \in Results : tk[<<q, z>>] = "handler"}
                BY <1>8 DEF HandlersIn
            <4>2. CASE q = r
                <5>1. PICK hs \in Seq(Results) : hs = handlers[r]
                    BY DEF StateTypeOK
                <5>2. x \notin ToSet(hs) /\ IsInjective(hs)
                    BY <1>4, <4>1, <4>2, <5>1
                <5>3. IsInjective(Append(hs, x)) /\ ToSet(Append(hs, x)) = ToSet(hs) \union {x}
                    BY <5>2, AppendToList
                <5>4. handlers'[q] = Append(hs, x)
                    BY <2>5, <4>2, <5>1
                <5>5. {z \in Results : tk1[<<q, z>>] = "handler"} = {z \in Results : tk[<<q, z>>] = "handler"} \union {x}
                    BY <2>2, <4>2
                <5>6. ToSet(hs) = {z \in Results : tk[<<q, z>>] = "handler"}
                    BY <4>1, <4>2, <5>1
                <5> QED BY <5>3, <5>4, <5>5, <5>6
            <4>3. CASE q # r
                BY <2>2, <2>5, <4>1, <4>3
            <4> QED BY <4>2, <4>3
        <3> QED BY <3>1 DEF HandlersIn
    <2>7. PICK fs : fs = <<Advanced(t)>>
        OBVIOUS
    <2>8. fs \in Seq(Frame) /\ Len(fs) = 1 /\ fs[1] = Advanced(t) /\ Stacked(t, base, fs)
        BY <1>2, <1>4, <1>6, <1>12, <2>7, FrameSets, OnCompleteStacked
    <2>9. BodySeats(t, base, fs, st, sp, tk, tp, st, sp, tk1, tp)
        BY <1>4, <2>2 DEF BodySeats
    <2>10. FramesIn(st, sp, tk1, tp, at1)' /\ Seated(st, sp, tk1, tp)'
        <3>1. (Len(fs) = 1 \/ Len(fs) = 2) /\ (Len(fs) = 2 => FrameIn(fs[2], t, base + 2, st, sp, tk1, tp, at1)')
            BY <2>8
        <3> QED BY <1>1, <1>4, <1>6, <1>7, <1>9, <2>8, <2>9, <3>1, BodyFrames
    <2>11. AheadIn(st, tk1, at1)' /\ AccountTypeOK(st, sp, tk1, tp, at1)'
        BY <1>8, <1>10, <1>11, <2>1, <2>4 DEF AheadIn, AccountTypeOK
    <2>12. Account(st, sp, tk1, tp, at1)'
        BY <2>3, <2>6, <2>10, <2>11 DEF Account
    <2> QED BY <2>12 DEF Accounted
<1>13. CASE Over(r)
    <2>0. PICK seat : seat = <<t, base + 2>>
        OBVIOUS
    <2>1. PICK tk1, tp1 : tk1 = Tokened(tk, r, x, "firing") /\ tp1 = Tokened(tp, r, x, seat)
        OBVIOUS
    <2>2. /\ tk1[<<r, x>>] = "firing" /\ \A q, z \in Results : ~ (q = r /\ z = x) => tk1[<<q, z>>] = tk[<<q, z>>]
          /\ tp1[<<r, x>>] = <<t, base + 2>> /\ \A q, z \in Results : ~ (q = r /\ z = x) => tp1[<<q, z>>] = tp[<<q, z>>]
        <3>1. tk1[<<r, x>>] = "firing" /\ \A q, z \in Results : ~ (q = r /\ z = x) => tk1[<<q, z>>] = tk[<<q, z>>]
            BY <2>1, TokenFacts
        <3>2. tp1[<<r, x>>] = seat /\ \A q, z \in Results : ~ (q = r /\ z = x) => tp1[<<q, z>>] = tp[<<q, z>>]
            BY <2>1, TokenFacts
        <3> QED BY <2>0, <3>1, <3>2
    <2>3. QueuesIn(st, sp)' /\ PairsIn(tk1)' /\ StagesIn(st, tk1)' /\ JoinsIn(st, tk1)'
        BY <1>1, <1>4, <1>7, <1>13, <2>1, RegisteredRest
    <2>4. tk1 \in [Pairs -> {"none", "handler", "firing", "done"}]
        BY <1>1, <1>4, <1>7, <1>13, <2>1, RegisteredRest
    <2>5. HandlersIn(tk1)'
        <3>1. handlers' = handlers
            BY <1>2, <1>13 DEF OnComplete
        <3>2. \A q, z \in Results : tk1[<<q, z>>] = "handler" <=> tk[<<q, z>>] = "handler"
            BY <1>4, <2>2
        <3> QED BY <1>8, <3>1, <3>2 DEF HandlersIn
    <2>51. <<x>> \in Seq(Results)
        OBVIOUS
    <2>6. PICK left \in Seq(Results) : left = <<x>>
        BY <2>51
    <2>7. left # <<>> /\ IsInjective(left) /\ ToSet(left) = {x}
        BY <2>6 DEF IsInjective, ToSet
    <2>8. PICK fs : fs = <<Advanced(t), Firing(r, left)>>
        OBVIOUS
    <2>9. Firing(r, left) \in Frame
        BY <2>7, NewFrames, FrameSets
    <2>10. fs \in Seq(Frame) /\ Len(fs) = 2 /\ fs[1] = Advanced(t) /\ fs[2] = Firing(r, left)
        BY <1>4, <2>8, <2>9, FrameSets
    <2>11. Stacked(t, base, fs)
        BY <1>2, <1>6, <1>13, <2>6, <2>8, OnCompleteStacked
    <2>12. fs[2].op = "fire" /\ fs[2].of = r /\ fs[2].left = left
        BY <2>10 DEF Firing
    <2>13. BodySeats(t, base, fs, st, sp, tk, tp, st, sp, tk1, tp1)
        BY <1>4, <2>2, <2>10, <2>12 DEF BodySeats
    <2>14. \A z \in Results : tk[<<r, z>>] = "firing" => tp[<<r, z>>] # <<t, base + 2>>
        <3>1. \A z \in Results : tk[<<r, z>>] = "firing" => Stays(tp[<<r, z>>], t, base + 1)
            BY <1>1, <1>6, AllStay
        <3>2. ~ Stays(<<t, base + 2>>, t, base + 1)
            BY DEF Stays
        <3> QED BY <3>1, <3>2
    <2>15. ToSet(left) = FiringAt(r, t, base + 2, tk1, tp1)
        BY <2>2, <2>7, <2>14 DEF FiringAt
    <2>16. FrameIn(fs[2], t, base + 2, st, sp, tk1, tp1, at1)'
        BY <2>7, <2>12, <2>15 DEF FrameIn, FiringAt
    <2>17. FramesIn(st, sp, tk1, tp1, at1)' /\ Seated(st, sp, tk1, tp1)'
        BY <1>1, <1>4, <1>6, <1>7, <1>9, <2>10, <2>11, <2>13, <2>16, BodyFrames
    <2>18. tp1 \in [Pairs -> Seats]
        <3>1. <<t, base + 2>> \in Seats
            BY DEF Seats
        <3> QED BY <1>8, <2>0, <2>1, <3>1 DEF AccountTypeOK, Tokened
    <2>180. AheadIn(st, tk1, at1)
        BY <1>11, <2>1
    <2>181. AheadIn(st, tk1, at1)'
        BY <2>180 DEF AheadIn
    <2>19. AheadIn(st, tk1, at1)' /\ AccountTypeOK(st, sp, tk1, tp1, at1)'
        BY <1>8, <1>10, <2>4, <2>18, <2>181 DEF AccountTypeOK
    <2>20. Account(st, sp, tk1, tp1, at1)'
        BY <2>3, <2>5, <2>17, <2>19 DEF Account
    <2> QED BY <2>20 DEF Accounted
<1> QED BY <1>12, <1>13

--------------------------------------------------------------------------------
(* The handlers that run. *)

\* Thread t is about to run x, the first of the handlers left of r.
FireAt(t, r, left, x) == In(t, "fire") /\ r = Top(t).of /\ left = Top(t).left /\ x = Head(left)

LEMMA FireTop ==
    ASSUME StateTypeOK, NEW t \in Threads, NEW r, NEW left, NEW x, FireAt(t, r, left, x),
           NEW st, NEW sp, NEW tk, NEW tp, NEW at, Account(st, sp, tk, tp, at)
    PROVE  /\ r \in Results /\ x \in Results /\ x \in Things /\ r \in Sources(x)
           /\ outcome[r] \in {"ok", "error"} /\ tk[<<r, x>>] = "firing" /\ tp[<<r, x>>] = <<t, Len(calls[t])>>
           /\ left \in Seq(Results) /\ left # <<>> /\ Tail(left) \in Seq(Results) /\ IsInjective(Tail(left))
           /\ ToSet(left) = FiringAt(r, t, Len(calls[t]), tk, tp) /\ ToSet(Tail(left)) = ToSet(left) \ {x}
<1>1. /\ Top(t) \in FireFrame /\ r \in Results /\ left \in Seq(Results) /\ left # <<>> /\ Busy(t) /\ Top(t).op = "fire"
    BY FireFacts DEF In, StateTypeOK, FireAt
<1>2. IsInjective(left) /\ ToSet(left) = FiringAt(r, t, Len(calls[t]), tk, tp)
    BY <1>1, TopSeat DEF FrameIn, FireAt
<1>3. /\ x \in Results /\ x \in ToSet(left) /\ Tail(left) \in Seq(Results) /\ IsInjective(Tail(left))
      /\ ToSet(Tail(left)) = ToSet(left) \ {x}
    BY <1>1, <1>2, TailOfList DEF FireAt
<1>4. tk[<<r, x>>] = "firing" /\ tp[<<r, x>>] = <<t, Len(calls[t])>>
    BY <1>2, <1>3 DEF FiringAt
<1>5. r \in Sources(x) /\ outcome[r] # "none"
    BY <1>1, <1>3, <1>4 DEF Account, PairsIn, Over
<1>6. outcome[r] \in {"ok", "error"}
    BY <1>1, <1>5 DEF StateTypeOK
<1> QED BY <1>1, <1>2, <1>3, <1>4, <1>5, <1>6 DEF Things

\* What x gets from the handler: its stage changes only from new on, and what has a
\* frame has the last of the new ones.
FiredThing(x, seat, fs, st, sp, st1, sp1) ==
    /\ \A y \in Things : y # x => st1[y] = st[y] /\ sp1[y] = sp[y]
    /\ st[x] # "new" => st1[x] = st[x] /\ sp1[x] = sp[x]
    /\ st1[x] = "frame" /\ st[x] = "new" => Len(fs) = 1 /\ fs[1].op = "set" /\ fs[1].of = x /\ sp1[x] = seat

\* The frames: the rest of the handlers, if there is one, and what this one calls.
FireMove(t, x, left, base, depth, frames, st, sp, st1, sp1, tk1, tp, at) ==
    /\ base \in Nat /\ base + 1 = Len(calls[t]) /\ depth = base + (IF Tail(left) = <<>> THEN 1 ELSE 2)
    /\ frames \in Seq(Frame) /\ (frames = <<>> \/ Len(frames) = 1)
    /\ FiredFirst(t, frames)
    /\ FiredThing(x, <<t, depth>>, frames, st, sp, st1, sp1)
    /\ Len(frames) = 1 =>
          FrameIn(frames[1], t, depth, st1, sp1, tk1, tp, at)' /\ frames[1].op \in {"set", "notify"}

LEMMA FireFrames ==
    ASSUME StateTypeOK, NEW t \in Threads, NEW r, NEW left, NEW x, FireAt(t, r, left, x), Onward,
           NEW st, NEW sp, NEW tk, NEW tp, NEW at, Account(st, sp, tk, tp, at),
           NEW base, NEW depth, NEW frames, NEW st1, NEW sp1, NEW tk1, tk1 = Tokened(tk, r, x, "done"),
           FireMove(t, x, left, base, depth, frames, st, sp, st1, sp1, tk1, tp, at)
    PROVE  FramesIn(st1, sp1, tk1, tp, at)' /\ Seated(st1, sp1, tk1, tp)'
<1>00. /\ base \in Nat /\ base + 1 = Len(calls[t]) /\ depth = base + (IF Tail(left) = <<>> THEN 1 ELSE 2)
       /\ frames \in Seq(Frame) /\ (frames = <<>> \/ Len(frames) = 1)
       /\ FiredFirst(t, frames)
       /\ FiredThing(x, <<t, depth>>, frames, st, sp, st1, sp1)
       /\ Len(frames) = 1 => FrameIn(frames[1], t, depth, st1, sp1, tk1, tp, at)'
    BY DEF FireMove
<1>0. PICK k \in Nat \ {0} : k = (IF Tail(left) = <<>> THEN 1 ELSE 2) /\ depth = base + k
    <2>1. CASE Tail(left) = <<>>
        BY <1>00, <2>1
    <2>2. CASE Tail(left) # <<>>
        BY <1>00, <2>2
    <2> QED BY <2>1, <2>2
<1>1. PICK fs : fs = FiredFrames(t, frames)
    OBVIOUS
<1>2. base = Len(calls[t]) - 1
    BY <1>00, LenProperties DEF StateTypeOK
<1>3. fs \in Seq(Frame) /\ Stacked(t, base, fs)
    BY <1>00, <1>1, <1>2, FiredStacked DEF StateTypeOK, FireAt
<1>4. PICK rest : rest = Tail(left)
    OBVIOUS
<1>5. /\ r \in Results /\ x \in Results /\ x \in Things /\ tk[<<r, x>>] = "firing"
      /\ rest \in Seq(Results) /\ IsInjective(rest) /\ ToSet(left) = FiringAt(r, t, base + 1, tk, tp)
      /\ ToSet(rest) = ToSet(left) \ {x}
    BY <1>00, <1>4, FireTop
<1>6. /\ Busy(t) /\ Top(t).op = "fire"
      /\ \A y \in Things : st[y] = "frame" => Stays(sp[y], t, base)
      /\ \A q, y \in Results : tk[<<q, y>>] = "firing" /\ ~ Stays(tp[<<q, y>>], t, base) =>
            tp[<<q, y>>] = <<t, base + 1>> /\ q = r
    <2>1. Busy(t) /\ Top(t).op = "fire"
        BY DEF In, FireAt
    <2>2. \A y \in Things : st[y] = "frame" => Stays(sp[y], t, base)
        BY <1>2, <2>1, TopSeat
    <2>3. \A q, y \in Results : tk[<<q, y>>] = "firing" /\ ~ Stays(tp[<<q, y>>], t, Len(calls[t]) - 1) =>
             tp[<<q, y>>] = <<t, Len(calls[t])>> /\ Top(t).of = q
        BY <2>1, TopSeat
    <2> QED BY <1>00, <1>2, <2>1, <2>2, <2>3 DEF FireAt
<1>7. /\ tk1[<<r, x>>] = "done"
      /\ \A q, z \in Results : ~ (q = r /\ z = x) => tk1[<<q, z>>] = tk[<<q, z>>]
    BY <1>5, TokenFacts
<1>8. /\ \A i \in 1 .. Len(fs) :
            \/ i = k /\ Len(frames) = 1 /\ fs[i] = frames[1]
            \/ i = 1 /\ rest # <<>> /\ fs[i] = Firing(r, rest)
      /\ Len(frames) = 1 => k \in 1 .. Len(fs) /\ fs[k] = frames[1]
      /\ rest # <<>> => 1 \in 1 .. Len(fs) /\ fs[1] = Firing(r, rest)
    <2>1. CASE rest = <<>>
        <3>1. fs = frames /\ k = 1
            BY <1>0, <1>1, <1>4, <2>1 DEF FiredFrames, FireAt
        <3>2. CASE frames = <<>>
            <4>1. Len(frames) = 0 /\ Len(fs) = 0
                BY <3>1, <3>2
            <4> QED BY <2>1, <4>1
        <3>3. CASE Len(frames) = 1
            <4>1. Len(fs) = 1 /\ fs[1] = frames[1] /\ \A i \in 1 .. Len(fs) : i = 1
                BY <3>1, <3>3
            <4>2. \A i \in 1 .. Len(fs) : i = k /\ fs[i] = frames[1]
                BY <3>1, <4>1
            <4>3. k \in 1 .. Len(fs) /\ fs[k] = frames[1]
                BY <3>1, <4>1
            <4> QED BY <2>1, <3>3, <4>2, <4>3
        <3> QED BY <1>00, <3>2, <3>3
    <2>2. CASE rest # <<>>
        <3>1. fs = <<Firing(r, rest)>> \o frames /\ k = 2
            BY <1>0, <1>1, <1>4, <2>2 DEF FiredFrames, FireAt
        <3>2. Firing(r, rest) \in Frame
            BY <1>5, <2>2, NewFrames, FrameSets
        <3>3. PICK f \in Frame : f = Firing(r, rest)
            BY <3>2
        <3>4. <<f>> \in Seq(Frame) /\ Len(<<f>>) = 1 /\ <<f>>[1] = f
            BY FrameSets
        <3>5. CASE frames = <<>>
            <4>1. fs = <<f>>
                BY <3>1, <3>3, <3>4, <3>5, ConcatEmptySeq
            <4>2. Len(fs) = 1 /\ fs[1] = f /\ Len(frames) = 0
                BY <3>4, <3>5, <4>1
            <4> QED BY <2>2, <3>3, <4>2
        <3>6. CASE Len(frames) = 1
            <4>1. PICK one \in Seq(Frame) : one = <<f>>
                BY <3>4
            <4>2. Len(one) = 1 /\ one[1] = f /\ fs = one \o frames
                BY <3>1, <3>3, <3>4, <4>1
            <4>3. /\ Len(one \o frames) = 2 /\ (one \o frames)[1] = one[1] /\ (one \o frames)[2] = frames[1]
                <5>1. /\ Len(one \o frames) = Len(one) + Len(frames)
                      /\ \A i \in 1 .. Len(one) + Len(frames) :
                            (one \o frames)[i] = IF i <= Len(one) THEN one[i] ELSE frames[i - Len(one)]
                    BY <1>00, <4>1, ConcatProperties
                <5>2. /\ \A i \in 1 .. 2 : (one \o frames)[i] = IF i <= 1 THEN one[i] ELSE frames[i - 1]
                      /\ Len(one \o frames) = 2
                    BY <3>6, <4>2, <5>1
                <5>3. 1 \in 1 .. 2 /\ 2 \in 1 .. 2 /\ 2 - 1 = 1
                    OBVIOUS
                <5> QED BY <5>2, <5>3
            <4>4. Len(fs) = 2 /\ fs[1] = f /\ fs[2] = frames[1]
                BY <4>2, <4>3
            <4>5. \A i \in 1 .. Len(fs) : i = 1 \/ i = 2
                BY <4>4
            <4>6. 1 \in 1 .. Len(fs) /\ 2 \in 1 .. Len(fs)
                BY <4>4
            <4> QED BY <2>2, <3>1, <3>3, <3>6, <4>4, <4>5, <4>6
        <3> QED BY <1>00, <3>5, <3>6
    <2> QED BY <2>1, <2>2
<1>9. ~ Stays(<<t, base + 1>>, t, base)
    BY <1>00 DEF Stays
<1>10. tp[<<r, x>>] = <<t, base + 1>>
    <2>1. tp[<<r, x>>] = <<t, Len(calls[t])>>
        BY FireTop
    <2> QED BY <1>00, <2>1
<1>11. SeatsKept(t, base, st, sp, tk, tp, at, st1, sp1, tk1, tp, at)
    <2>1. \A y \in Things : st[y] = "frame" => st1[y] = "frame" /\ sp1[y] = sp[y]
        BY <1>00 DEF FiredThing
    <2>2. \A q, y \in Results : tk[<<q, y>>] = "firing" /\ Stays(tp[<<q, y>>], t, base) => tk1[<<q, y>>] = "firing"
        BY <1>7, <1>9, <1>10
    <2> QED BY <2>1, <2>2 DEF SeatsKept
<1>12. SeatsNew(t, base, fs, st, sp, tk, tp, st1, sp1, tk1, tp)
    <2>1. ASSUME NEW y \in Things, st1[y] = "frame"
          PROVE  \/ st[y] = "frame" /\ sp1[y] = sp[y] /\ Stays(sp[y], t, base)
                 \/ \E i \in 1 .. Len(fs) : sp1[y] = <<t, base + i>> /\ fs[i].op \in {"body", "set"} /\ fs[i].of = y
        <3>1. CASE y = x /\ st[x] = "new"
            <4>1. Len(frames) = 1 /\ frames[1].op = "set" /\ frames[1].of = x /\ sp1[x] = <<t, base + k>>
                BY <1>00, <1>0, <2>1, <3>1 DEF FiredThing
            <4> QED BY <1>8, <3>1, <4>1
        <3>2. CASE ~ (y = x /\ st[x] = "new")
            <4>1. st[y] = "frame" /\ sp1[y] = sp[y]
                BY <1>00, <2>1, <3>2 DEF FiredThing
            <4> QED BY <1>6, <4>1
        <3> QED BY <3>1, <3>2
    <2>2. ASSUME NEW q \in Results, NEW y \in Results, tk1[<<q, y>>] = "firing"
          PROVE  \/ tk[<<q, y>>] = "firing" /\ tp[<<q, y>>] = tp[<<q, y>>] /\ Stays(tp[<<q, y>>], t, base)
                 \/ \E i \in 1 .. Len(fs) : tp[<<q, y>>] = <<t, base + i>> /\ fs[i].op = "fire" /\ fs[i].of = q
        <3>1. ~ (q = r /\ y = x) /\ tk[<<q, y>>] = "firing"
            BY <1>7, <2>2
        <3>2. CASE ~ Stays(tp[<<q, y>>], t, base)
            <4>1. tp[<<q, y>>] = <<t, base + 1>> /\ q = r
                BY <1>6, <3>1, <3>2
            <4>2. y \in ToSet(rest)
                BY <1>5, <3>1, <4>1 DEF FiringAt
            <4>3. rest # <<>>
                BY <4>2 DEF ToSet
            <4>4. 1 \in 1 .. Len(fs) /\ fs[1].op = "fire" /\ fs[1].of = r
                BY <1>8, <4>3 DEF Firing
            <4> QED BY <4>1, <4>4
        <3> QED BY <3>1, <3>2
    <2> QED BY <2>1, <2>2 DEF SeatsNew
<1>13. ASSUME rest # <<>> PROVE FrameIn(Firing(r, rest), t, base + 1, st1, sp1, tk1, tp, at)'
    <2>1. ToSet(rest) = FiringAt(r, t, base + 1, tk1, tp)
        <3>1. \A y \in Results : y # x => tk1[<<r, y>>] = tk[<<r, y>>]
            BY <1>5, <1>7
        <3> QED BY <1>5, <1>7, <3>1 DEF FiringAt
    <2> QED BY <1>5, <1>13, <2>1 DEF FrameIn, FiringAt, Firing
<1>14. \A i \in 1 .. Len(fs) : FrameIn(fs[i], t, base + i, st1, sp1, tk1, tp, at)'
    <2>1. ASSUME NEW i \in 1 .. Len(fs) PROVE FrameIn(fs[i], t, base + i, st1, sp1, tk1, tp, at)'
        BY <1>00, <1>0, <1>8, <1>13
    <2> QED BY <2>1
<1>15. AccountTypeOK(st, sp, tk, tp, at) /\ FramesIn(st, sp, tk, tp, at) /\ Seated(st, sp, tk, tp)
    BY DEF Account
<1> QED BY <1>00, <1>3, <1>11, <1>12, <1>14, <1>15, FramesStep

\* A task that a handler brings about is new, and runs after one result only.
LEMMA FireTask ==
    ASSUME StateTypeOK, NEW t \in Threads, NEW r, NEW left, NEW x \in Tasks, FireAt(t, r, left, x),
           NEW st, NEW sp, NEW tk, NEW tp, NEW at, Account(st, sp, tk, tp, at)
    PROVE  /\ st[x] = "new" /\ Sources(x) = {r} /\ x \notin submitted
           /\ \A y \in Owners : \A n \in DOMAIN Body[y] : ~ Submits(Body[y][n], x)
<1>1. r \in Results /\ x \in Results /\ r \in Sources(x) /\ tk[<<r, x>>] = "firing"
    BY FireTop
<1>2. st[x] = "new" /\ x \notin submitted
    BY <1>1 DEF Account, StagesIn
<1>3. ASSUME NEW q \in Sources(x) PROVE q = r
    <2>1. PICK y \in Owners : \E n \in DOMAIN Body[y] : Registers(Body[y][n], r, x)
        BY <1>1 DEF Sources
    <2>2. PICK z \in Owners : \E m \in DOMAIN Body[z] : Registers(Body[z][m], q, x)
        BY <1>3 DEF Sources
    <2>5. PICK n \in DOMAIN Body[y] : Registers(Body[y][n], r, x)
        BY <2>1
    <2>6. PICK m \in DOMAIN Body[z] : Registers(Body[z][m], q, x)
        BY <2>2
    <2>3. Creates(Body[y][n], x) /\ Creates(Body[z][m], x)
        BY <1>1, <1>3, <2>5, <2>6 DEF Creates, Sources
    <2>4. y = z /\ n = m
        BY <2>3, PoolAssumption
    <2> QED BY <2>4, <2>5, <2>6 DEF Registers
<1>4. Sources(x) = {r}
    BY <1>1, <1>3
<1>5. \A y \in Owners : \A n \in DOMAIN Body[y] : ~ Submits(Body[y][n], x)
    BY <1>1, SubmitsFirst
<1> QED BY <1>2, <1>4, <1>5

\* What a handler does besides its frames and queues.
Handled(r, x, st, st1) ==
    /\ UNCHANGED <<outcome, handlers, registered>>
    /\ \A y \in Things : y # x => st1[y] = st[y]
    /\ st[x] # "new" => st1[x] = st[x]
    /\ x \in Tasks =>
          /\ st1[x] \in {"external", "deque", "frame"}
          /\ submitted' = (IF st1[x] = "frame" THEN submitted ELSE submitted \union {x})
          /\ st1[x] # "frame" => outcome[r] = "ok"
    /\ x \in Joins => submitted' = submitted /\ st1[x] \in {st[x], "frame"}

LEMMA FireRest ==
    ASSUME StateTypeOK, NEW t \in Threads, NEW r, NEW left, NEW x, FireAt(t, r, left, x),
           NEW st, NEW sp, NEW tk, NEW tp, NEW at, Account(st, sp, tk, tp, at),
           NEW st1, Handled(r, x, st, st1), NEW tk1, tk1 = Tokened(tk, r, x, "done")
    PROVE  /\ Onward /\ HandlersIn(tk1)' /\ PairsIn(tk1)' /\ StagesIn(st1, tk1)' /\ AheadIn(st1, tk1, at)'
           /\ tk1 \in [Pairs -> {"none", "handler", "firing", "done"}]
<1>1. /\ r \in Results /\ x \in Results /\ x \in Things /\ r \in Sources(x) /\ tk[<<r, x>>] = "firing"
      /\ outcome[r] \in {"ok", "error"}
    BY FireTop
<1>2. /\ tk1[<<r, x>>] = "done"
      /\ \A q, z \in Results : ~ (q = r /\ z = x) => tk1[<<q, z>>] = tk[<<q, z>>]
    BY <1>1, TokenFacts
<1>3. /\ HandlersIn(tk) /\ PairsIn(tk) /\ StagesIn(st, tk) /\ AheadIn(st, tk, at) /\ AccountTypeOK(st, sp, tk, tp, at)
    BY DEF Account
<1>4. x \in Tasks => /\ st[x] = "new" /\ Sources(x) = {r} /\ x \notin submitted
                     /\ \A y \in Owners : \A n \in DOMAIN Body[y] : ~ Submits(Body[y][n], x)
    BY FireTask
<1>5. (x \in Tasks \/ x \in Joins) /\ ~ (x \in Tasks /\ x \in Joins)
    BY <1>1, PoolAssumption DEF Results
<1>6. Onward
    BY <1>5 DEF Onward, Handled
<1>7. HandlersIn(tk1)'
    <2>1. \A q, z \in Results : tk1[<<q, z>>] = "handler" <=> tk[<<q, z>>] = "handler"
        BY <1>1, <1>2
    <2> QED BY <1>3, <2>1 DEF HandlersIn, Handled
<1>8. PairsIn(tk1)'
    <2>1. \A p \in Pairs : tk1[p] = "none" <=> tk[p] = "none"
        BY <1>1, <1>2 DEF Pairs
    <2>2. registered' = {p \in Pairs : tk1[p] # "none"}
        BY <1>3, <2>1 DEF PairsIn, Handled
    <2>3. ASSUME NEW q \in Results, NEW z \in Results
          PROVE  /\ tk1[<<q, z>>] # "none" => q \in Sources(z)
                 /\ tk1[<<q, z>>] \in {"firing", "done"} => Over(q)
                 /\ tk1[<<q, z>>] = "handler" => ~ Over(q)
        <3>1. CASE q = r /\ z = x
            BY <1>1, <1>2, <3>1 DEF Over
        <3>2. CASE ~ (q = r /\ z = x)
            BY <1>2, <1>3, <3>2 DEF PairsIn
        <3> QED BY <3>1, <3>2
    <2> QED BY <2>2, <2>3 DEF PairsIn, Over, Handled
<1>9. Tasks \subseteq Results /\ Results \subseteq Things /\ Owners \subseteq Things
    BY DEF Results, Things, Owners
<1>10. st1[x] = "over" <=> st[x] = "over"
    BY <1>4, <1>5 DEF Handled
<1>11. StagesIn(st1, tk1)'
    <2>1. ASSUME NEW y \in Results
          PROVE  (st1[y] = "over" <=> Over(y)') /\ (Over(y)' => Deserved(y, outcome[y])')
        <3>1. (st[y] = "over" <=> Over(y)) /\ (Over(y) => Deserved(y, outcome[y]))
            BY <1>3 DEF StagesIn
        <3>2. st1[y] = "over" <=> st[y] = "over"
            BY <1>9, <1>10 DEF Handled
        <3>3. outcome'[y] = outcome[y] /\ (Over(y)' <=> Over(y))
            BY DEF Over, Handled
        <3>4. PICK h : h = outcome[y]
            OBVIOUS
        <3>5. Over(y) => Deserved(y, h)'
            BY <1>6, <3>1, <3>4, StillDeserved
        <3> QED BY <3>1, <3>2, <3>3, <3>4, <3>5
    <2>2. ASSUME NEW y \in Tasks
          PROVE  /\ y \in submitted' => st1[y] # "new"
                 /\ st1[y] \in {"external", "deque"} => y \in submitted'
                 /\ \A q \in Sources(y) : (tk1[<<q, y>>] = "done" <=> st1[y] # "new") /\ (y \in submitted' => outcome'[q] = "ok")
        <3>1. CASE y = x
            <4>1. Sources(y) = {r} /\ y \notin submitted /\ outcome' = outcome
                BY <1>4, <3>1 DEF Handled
            <4>2. /\ st1[y] \in {"external", "deque", "frame"}
                  /\ st1[y] # "frame" => outcome[r] = "ok"
                  /\ submitted' = (IF st1[y] = "frame" THEN submitted ELSE submitted \union {y})
                BY <3>1 DEF Handled
            <4> QED BY <1>2, <3>1, <4>1, <4>2
        <3>2. CASE y # x
            <4>1. st1[y] = st[y] /\ (y \in submitted' <=> y \in submitted) /\ outcome' = outcome
                BY <1>5, <1>9, <3>2 DEF Handled
            <4>2. \A q \in Sources(y) : q \in Results /\ tk1[<<q, y>>] = tk[<<q, y>>]
                BY <1>2, <1>9, <3>2 DEF Sources
            <4> QED BY <1>3, <4>1, <4>2 DEF StagesIn
        <3> QED BY <3>1, <3>2
    <2> QED BY <2>1, <2>2 DEF StagesIn
<1>12. AheadIn(st1, tk1, at)'
    <2>1. ASSUME NEW y \in Owners, st1[y] \in {"new", "external", "deque"} PROVE at[y] = 1
        <3>1. st[y] \in {"new", "external", "deque"}
            <4>1. CASE y = x
                BY <1>4, <1>5, <2>1, <4>1 DEF Handled
            <4>2. CASE y # x
                BY <1>9, <2>1, <4>2 DEF Handled
            <4> QED BY <4>1, <4>2
        <3> QED BY <1>3, <3>1 DEF AheadIn
    <2>2. ASSUME NEW y \in Owners, NEW m \in DOMAIN Body[y], m >= at[y]
          PROVE  /\ \A z \in Tasks : Submits(Body[y][m], z) => st1[z] = "new"
                 /\ \A q, z \in Results : Registers(Body[y][m], q, z) => tk1[<<q, z>>] = "none"
        <3>1. /\ \A z \in Tasks : Submits(Body[y][m], z) => st[z] = "new"
              /\ \A q, z \in Results : Registers(Body[y][m], q, z) => tk[<<q, z>>] = "none"
            BY <1>3, <2>2 DEF AheadIn
        <3>2. \A z \in Tasks : Submits(Body[y][m], z) => z # x
            BY <1>4
        <3>3. \A z \in Tasks : Submits(Body[y][m], z) => st1[z] = "new"
            BY <1>9, <3>1, <3>2 DEF Handled
        <3>4. \A q, z \in Results : Registers(Body[y][m], q, z) => tk1[<<q, z>>] = "none"
            BY <1>1, <1>2, <3>1
        <3> QED BY <3>3, <3>4
    <2> QED BY <2>1, <2>2 DEF AheadIn
<1>13. tk1 \in [Pairs -> {"none", "handler", "firing", "done"}]
    BY <1>3 DEF AccountTypeOK, Tokened
<1> QED BY <1>6, <1>7, <1>8, <1>11, <1>12, <1>13

\* x gets a frame if b, and nothing otherwise.
SetSt(st, x, b) == [y \in Things |-> IF b /\ y = x THEN "frame" ELSE st[y]]
SetSp(sp, x, b, seat) == [y \in Things |-> IF b /\ y = x THEN seat ELSE sp[y]]

LEMMA SetFacts ==
    ASSUME NEW st, NEW sp, NEW x \in Things, NEW b \in BOOLEAN, NEW seat
    PROVE  /\ \A y \in Things : y # x => SetSt(st, x, b)[y] = st[y] /\ SetSp(sp, x, b, seat)[y] = sp[y]
           /\ b => SetSt(st, x, b)[x] = "frame" /\ SetSp(sp, x, b, seat)[x] = seat
           /\ ~ b => SetSt(st, x, b)[x] = st[x] /\ SetSp(sp, x, b, seat)[x] = sp[x]
BY DEF SetSt, SetSp

\* The handlers that set a result, or do nothing.
LEMMA SetAccount ==
    ASSUME StateTypeOK, NEW t \in Threads, NEW r, NEW left, NEW x, FireAt(t, r, left, x),
           NEW st, NEW sp, NEW tk, NEW tp, NEW at, Account(st, sp, tk, tp, at),
           UNCHANGED <<external, deque, submitted, outcome, handlers, registered>>,
           NEW how \in {"ok", "error"}, NEW b \in BOOLEAN, FiredFirst(t, IF b THEN <<Setting(x, how)>> ELSE <<>>),
           b => st[x] = "new" /\ Deserved(x, how), x \in Tasks => b,
           JoinsIn(SetSt(st, x, b), Tokened(tk, r, x, "done"))'
    PROVE  Accounted'
<1>1. /\ r \in Results /\ x \in Results /\ x \in Things /\ left \in Seq(Results)
    BY FireTop
<1>2. Busy(t) /\ AccountTypeOK(st, sp, tk, tp, at) /\ QueuesIn(st, sp)
    BY DEF Account, FireAt, In
<1>3. Len(calls[t]) \in Nat /\ Len(calls[t]) - 1 \in Nat
    BY <1>2, TopSeat
<1>4. PICK base \in Nat : base + 1 = Len(calls[t])
    BY <1>3
<1>5. PICK depth \in Nat : depth = base + (IF Tail(left) = <<>> THEN 1 ELSE 2)
    <2>1. base + (IF Tail(left) = <<>> THEN 1 ELSE 2) \in Nat
        OBVIOUS
    <2> QED BY <2>1
<1>6. PICK seat \in Seats : seat = <<t, depth>>
    <2>1. <<t, depth>> \in Seats
        BY DEF Seats
    <2> QED BY <2>1
<1>7. PICK st1, sp1, tk1 : st1 = SetSt(st, x, b) /\ sp1 = SetSp(sp, x, b, seat) /\ tk1 = Tokened(tk, r, x, "done")
    OBVIOUS
<1>8. /\ \A y \in Things : y # x => st1[y] = st[y] /\ sp1[y] = sp[y]
      /\ b => st1[x] = "frame" /\ sp1[x] = seat
      /\ ~ b => st1[x] = st[x] /\ sp1[x] = sp[x]
    BY <1>1, <1>7 DEF SetSt, SetSp
<1>9. Setting(x, how) \in Frame
    BY <1>1, NewFrames, FrameSets
<1>10. PICK frames \in Seq(Frame) : frames = IF b THEN <<Setting(x, how)>> ELSE <<>>
    BY <1>9, FrameSets
<1>11. /\ frames = <<>> \/ Len(frames) = 1
       /\ b => Len(frames) = 1 /\ frames[1] = Setting(x, how)
       /\ Len(frames) = 1 => b
    <2>1. CASE b
        BY <1>10, <2>1
    <2>2. CASE ~ b
        <3>1. frames = <<>> /\ Len(frames) = 0
            BY <1>10, <2>2
        <3> QED BY <2>2, <3>1
    <2> QED BY <2>1, <2>2
<1>12. Handled(r, x, st, st1)
    <2>1. x \in Joins => st1[x] \in {st[x], "frame"}
        BY <1>8
    <2>2. x \in Tasks => st1[x] = "frame"
        BY <1>8
    <2>3. st[x] # "new" => st1[x] = st[x]
        BY <1>8
    <2> QED BY <1>8, <2>1, <2>2, <2>3 DEF Handled
<1>13. /\ Onward /\ HandlersIn(tk1)' /\ PairsIn(tk1)' /\ StagesIn(st1, tk1)' /\ AheadIn(st1, tk1, at)'
       /\ tk1 \in [Pairs -> {"none", "handler", "firing", "done"}]
    BY <1>7, <1>12, FireRest
<1>14. QueuesIn(st1, sp1)'
    <2>1. ASSUME NEW y \in Things
          PROVE  /\ st1[y] = "external" <=> st[y] = "external"
                 /\ st1[y] = "deque" <=> st[y] = "deque"
                 /\ st1[y] = "deque" => sp1[y] = sp[y]
        BY <1>8
    <2> QED BY <1>2, <2>1 DEF QueuesIn
<1>15. FiredThing(x, seat, frames, st, sp, st1, sp1)
    <2>1. Setting(x, how).op = "set" /\ Setting(x, how).of = x
        BY DEF Setting
    <2> QED BY <1>8, <1>11, <2>1 DEF FiredThing
<1>16. Len(frames) = 1 => FrameIn(frames[1], t, depth, st1, sp1, tk1, tp, at)'
    <2>1. ASSUME Len(frames) = 1 PROVE FrameIn(Setting(x, how), t, depth, st1, sp1, tk1, tp, at)'
        <3>1. st1[x] = "frame" /\ sp1[x] = <<t, depth>>
            BY <1>6, <1>8, <1>11, <2>1
        <3>2. Deserved(x, how)'
            BY <1>11, <1>13, <2>1, StillDeserved
        <3> QED BY <3>1, <3>2 DEF FrameIn, Setting
    <2> QED BY <1>11, <2>1
<1>17. Len(frames) = 1 => frames[1].op \in {"set", "notify"}
    BY <1>11 DEF Setting
<1>18. FramesIn(st1, sp1, tk1, tp, at)' /\ Seated(st1, sp1, tk1, tp)'
    <2>1. FiredFirst(t, frames) /\ FiredThing(x, <<t, depth>>, frames, st, sp, st1, sp1)
        BY <1>6, <1>10, <1>15
    <2>2. FireMove(t, x, left, base, depth, frames, st, sp, st1, sp1, tk1, tp, at)
        BY <1>4, <1>5, <1>10, <1>11, <1>16, <1>17, <2>1 DEF FireMove
    <2> QED BY <1>7, <1>13, <2>2, FireFrames
<1>19. AccountTypeOK(st1, sp1, tk1, tp, at)'
    <2>1. st1 \in [Things -> {"new", "external", "deque", "frame", "over"}] /\ sp1 \in [Things -> Seats]
        BY <1>2, <1>7 DEF AccountTypeOK, SetSt, SetSp
    <2> QED BY <1>2, <1>13, <2>1 DEF AccountTypeOK
<1>20. JoinsIn(st1, tk1)'
    BY <1>7
<1>21. Account(st1, sp1, tk1, tp, at)'
    BY <1>13, <1>14, <1>18, <1>19, <1>20 DEF Account
<1> QED BY <1>21 DEF Accounted

\* The handlers of tasks leave the counts of the joins alone.
LEMMA OtherJoins ==
    ASSUME NEW r \in Results, NEW x \in Tasks, UNCHANGED <<outcome, remaining, failed>>,
           NEW st, NEW tk, JoinsIn(st, tk), NEW st1, \A y \in Things : y # x => st1[y] = st[y],
           NEW tk1, tk1 = Tokened(tk, r, x, "done")
    PROVE  JoinsIn(st1, tk1)'
<1>1. \A j \in Joins : j # x /\ j \in Things /\ j \in Results
    BY PoolAssumption DEF Things, Results
<1>2. \A q, z \in Results : ~ (q = r /\ z = x) => tk1[<<q, z>>] = tk[<<q, z>>]
    <2>1. x \in Results
        BY DEF Results
    <2> QED BY <2>1 DEF Tokened, Pairs
<1>3. \A j \in Joins : \A q \in Sources(j) : tk1[<<q, j>>] = tk[<<q, j>>]
    BY <1>1, <1>2 DEF Sources
<1>4. \A j \in Joins : Counted(j, tk1)' = Counted(j, tk) /\ \A q \in Sources(j) : FailedBy(j, q, tk1)' <=> FailedBy(j, q, tk)
    BY <1>3 DEF Counted, FailedBy
<1> QED BY <1>1, <1>4 DEF JoinsIn

LEMMA CountOne ==
    ASSUME NEW S, IsFiniteSet(S), NEW C \in SUBSET S, NEW r \in S, r \notin C
    PROVE  /\ Cardinality(C) \in Nat /\ Cardinality(S) \in Nat /\ Cardinality(C) < Cardinality(S)
           /\ Cardinality(C \union {r}) = Cardinality(C) + 1
           /\ Cardinality(C \union {r}) = Cardinality(S) <=> C \union {r} = S
<1>1. C \union {r} \subseteq S /\ IsFiniteSet(C)
    BY FS_Subset
<1>2. Cardinality(C \union {r}) = Cardinality(C) + 1
    BY <1>1, FS_AddElement
<1>3. Cardinality(C) \in Nat /\ Cardinality(S) \in Nat
    BY <1>1, FS_CardinalityType
<1>4. Cardinality(C \union {r}) <= Cardinality(S) /\ (Cardinality(S) = Cardinality(C \union {r}) => S = C \union {r})
    BY <1>1, FS_Subset
<1> QED BY <1>2, <1>3, <1>4

LEMMA ContinueAccount ==
    ASSUME StateTypeOK, Accounted, NEW t \in Threads, NEW r, NEW left, NEW x, FireAt(t, r, left, x), Continue(t, x),
           UNCHANGED <<outcome, handlers, registered>>
    PROVE  Accounted'
<1>1. PICK st, sp, tk, tp, at : Account(st, sp, tk, tp, at)
    BY DEF Accounted
<1>2. /\ r \in Results /\ x \in Tasks /\ x \in Results /\ x \in Things /\ r \in Sources(x) /\ left \in Seq(Results)
    BY <1>1, FireTop DEF Continue
<1>3. st[x] = "new" /\ Sources(x) = {r} /\ x \notin submitted
    BY <1>1, <1>2, FireTask
<1>4. JoinsIn(st, tk) /\ QueuesIn(st, sp) /\ AccountTypeOK(st, sp, tk, tp, at) /\ UNCHANGED <<remaining, failed>>
    BY <1>1 DEF Account, Continue
<1>7. Len(calls[t]) \in Nat /\ Len(calls[t]) - 1 \in Nat
    <2>1. Busy(t)
        BY DEF FireAt, In
    <2> QED BY <1>1, <2>1, TopSeat
<1>8. PICK base \in Nat : base + 1 = Len(calls[t])
    BY <1>7
<1>9. PICK depth : depth = base + (IF Tail(left) = <<>> THEN 1 ELSE 2)
    OBVIOUS
<1>5. CASE outcome[r] = "error" /\ FiredFirst(t, <<Setting(x, "error")>>) /\ UNCHANGED <<queues, loop>>
    <2>1. FiredFirst(t, IF TRUE THEN <<Setting(x, "error")>> ELSE <<>>)
        BY <1>5
    <2>2. Deserved(x, "error")
        BY <1>2, <1>5 DEF Deserved
    <2>3. JoinsIn(SetSt(st, x, TRUE), Tokened(tk, r, x, "done"))'
        <3>1. \A y \in Things : y # x => SetSt(st, x, TRUE)[y] = st[y]
            BY DEF SetSt
        <3> QED BY <1>2, <1>4, <3>1, OtherJoins
    <2>4. UNCHANGED <<external, deque, submitted, outcome, handlers, registered>>
        BY <1>5 DEF queues
    <2> QED BY <1>1, <1>3, <2>1, <2>2, <2>3, <2>4, SetAccount
<1>6. CASE outcome[r] = "ok" /\ Put(t, <<x>>) /\ FiredFirst(t, <<Notifying(FALSE)>>)
    <2>1. <<x>> \in Seq(Tasks) /\ IsInjective(<<x>>) /\ ToSet(<<x>>) = {x}
        BY <1>2 DEF IsInjective, ToSet
    <2>2. PICK tasks \in Seq(Tasks) : tasks = <<x>>
        BY <2>1
    <2>3. PICK st1, sp1, tk1 : st1 = PutSt(st, {x}, t) /\ sp1 = PutSp(sp, {x}, t) /\ tk1 = Tokened(tk, r, x, "done")
        OBVIOUS
    <2>4. /\ \A y \in Things : y # x => st1[y] = st[y] /\ sp1[y] = sp[y]
          /\ st1[x] \in {"deque", "external"}
        BY <1>2, <2>3, PutFacts
    <2>5. QueuesIn(st1, sp1)'
        BY <1>3, <1>4, <1>6, <2>1, <2>2, <2>3, PutQueues
    <2>6. submitted' = submitted \union {x}
        BY <1>6, <2>1 DEF Put
    <2>7. Handled(r, x, st, st1)
        <3>1. x \notin Joins
            BY <1>2, PoolAssumption
        <3> QED BY <1>3, <1>6, <2>4, <2>6, <3>1 DEF Handled
    <2>8. /\ Onward /\ HandlersIn(tk1)' /\ PairsIn(tk1)' /\ StagesIn(st1, tk1)' /\ AheadIn(st1, tk1, at)'
          /\ tk1 \in [Pairs -> {"none", "handler", "firing", "done"}]
        BY <1>1, <2>3, <2>7, FireRest
    <2>9. JoinsIn(st1, tk1)'
        BY <1>2, <1>4, <2>3, <2>4, OtherJoins
    <2>10. AccountTypeOK(st1, sp1, tk1, tp, at)'
        <3>1. AccountTypeOK(st1, sp1, tk, tp, at)
            BY <1>2, <1>4, <2>3, PutStages
        <3> QED BY <2>8, <3>1 DEF AccountTypeOK
    <2>11. PICK frames \in Seq(Frame) : frames = <<Notifying(FALSE)>>
        BY NewFrames, FrameSets
    <2>12. Len(frames) = 1 /\ frames[1].op = "notify"
        BY <2>11 DEF Notifying
    <2>17. FiredThing(x, <<t, depth>>, frames, st, sp, st1, sp1)
        BY <1>3, <2>4 DEF FiredThing
    <2>18. FrameIn(frames[1], t, depth, st1, sp1, tk1, tp, at)'
        BY <2>12 DEF FrameIn
    <2>19. FiredFirst(t, frames)
        BY <1>6, <2>11
    <2>20. FramesIn(st1, sp1, tk1, tp, at)' /\ Seated(st1, sp1, tk1, tp)'
        <3>1. FireMove(t, x, left, base, depth, frames, st, sp, st1, sp1, tk1, tp, at)
            BY <1>8, <1>9, <2>11, <2>12, <2>17, <2>18, <2>19 DEF FireMove
        <3> QED BY <1>1, <2>3, <2>8, <3>1, FireFrames
    <2>21. Account(st1, sp1, tk1, tp, at)'
        BY <2>5, <2>8, <2>9, <2>10, <2>20 DEF Account
    <2> QED BY <2>21 DEF Accounted
<1> QED BY <1>5, <1>6 DEF Continue, FireAt

\* What the handler of an input does to the count of join x; the other joins are as they were.
JoinCounted(x, tk1, st1) ==
    /\ remaining[x] + Cardinality(Counted(x, tk1)) = FanIn(x)
    /\ failed[x] <=> \E q \in Sources(x) : FailedBy(x, q, tk1)
    /\ st1[x] # "new" <=> failed[x] \/ Counted(x, tk1) = Sources(x)

LEMMA TheJoins ==
    ASSUME StateTypeOK, NEW r \in Results, NEW x \in Joins, UNCHANGED outcome,
           NEW st, NEW tk, JoinsIn(st, tk), NEW st1, \A y \in Things : y # x => st1[y] = st[y],
           NEW tk1, tk1 = Tokened(tk, r, x, "done"),
           \A j \in Joins : j # x => remaining'[j] = remaining[j] /\ failed'[j] = failed[j],
           JoinCounted(x, tk1, st1)'
    PROVE  JoinsIn(st1, tk1)'
<1>1. \A j \in Joins : j \in Things /\ j \in Results
    BY DEF Things, Results
<1>2. \A q, z \in Results : ~ (q = r /\ z = x) => tk1[<<q, z>>] = tk[<<q, z>>]
    BY <1>1 DEF Tokened, Pairs
<1>3. ASSUME NEW j \in Joins, j # x
      PROVE  /\ (remaining[j] + Cardinality(Counted(j, tk1)) = FanIn(j))'
             /\ (failed[j] <=> \E q \in Sources(j) : FailedBy(j, q, tk1))'
             /\ (st1[j] # "new" <=> failed[j] \/ Counted(j, tk1) = Sources(j))'
    <2>1. \A q \in Sources(j) : q \in Results /\ tk1[<<q, j>>] = tk[<<q, j>>]
        BY <1>1, <1>2, <1>3 DEF Sources
    <2>2. Counted(j, tk1)' = Counted(j, tk) /\ \A q \in Sources(j) : FailedBy(j, q, tk1)' <=> FailedBy(j, q, tk)
        BY <2>1 DEF Counted, FailedBy
    <2>3. /\ remaining[j] + Cardinality(Counted(j, tk)) = FanIn(j)
          /\ failed[j] <=> \E q \in Sources(j) : FailedBy(j, q, tk)
          /\ st[j] # "new" <=> failed[j] \/ Counted(j, tk) = Sources(j)
        BY DEF JoinsIn
    <2>4. st1[j] = st[j] /\ remaining'[j] = remaining[j] /\ failed'[j] = failed[j]
        BY <1>1, <1>3
    <2> QED BY <2>2, <2>3, <2>4
<1> QED BY <1>3 DEF JoinsIn, JoinCounted

LEMMA CountDownAccount ==
    ASSUME StateTypeOK, Accounted, NEW t \in Threads, NEW r, NEW left, NEW x, FireAt(t, r, left, x), CountDown(t, x),
           UNCHANGED <<outcome, handlers, registered>>
    PROVE  Accounted'
<1>1. PICK st, sp, tk, tp, at : Account(st, sp, tk, tp, at)
    BY DEF Accounted
<1>2. /\ r \in Results /\ x \in Joins /\ x \in Results /\ x \in Things /\ r \in Sources(x) /\ tk[<<r, x>>] = "firing"
      /\ x \notin Tasks /\ r = Top(t).of
    BY <1>1, FireTop, PoolAssumption DEF CountDown, FireAt
<1>3. JoinsIn(st, tk) /\ UNCHANGED <<external, deque, submitted, outcome, handlers, registered>>
    BY <1>1 DEF Account, CountDown, queues
<1>4. PICK C \in SUBSET Sources(x) : C = Counted(x, tk)
    BY DEF Counted
<1>5. PICK k \in Int : k = remaining[x] /\ k + Cardinality(C) = Cardinality(Sources(x))
    BY <1>2, <1>3, <1>4 DEF JoinsIn, FanIn, StateTypeOK
<1>6. /\ r \notin C /\ C # Sources(x)
      /\ Cardinality(C) \in Nat /\ Cardinality(Sources(x)) \in Nat /\ Cardinality(C) < Cardinality(Sources(x))
      /\ Cardinality(C \union {r}) = Cardinality(C) + 1
      /\ Cardinality(C \union {r}) = Cardinality(Sources(x)) <=> C \union {r} = Sources(x)
    <2>1. r \notin C
        BY <1>2, <1>4 DEF Counted
    <2>2. IsFiniteSet(Sources(x))
        BY <1>2, PoolAssumption
    <2>3. PICK S : S = Sources(x)
        OBVIOUS
    <2>4. IsFiniteSet(S) /\ C \in SUBSET S /\ r \in S
        BY <1>2, <2>2, <2>3
    <2>5. /\ Cardinality(C) \in Nat /\ Cardinality(S) \in Nat /\ Cardinality(C) < Cardinality(S)
          /\ Cardinality(C \union {r}) = Cardinality(C) + 1
          /\ Cardinality(C \union {r}) = Cardinality(S) <=> C \union {r} = S
        BY <2>1, <2>4, CountOne
    <2> QED BY <1>2, <2>1, <2>3, <2>5
<1>7. /\ failed[x] <=> \E q \in Sources(x) : FailedBy(x, q, tk)
      /\ st[x] # "new" <=> failed[x]
      /\ failed[x] \in BOOLEAN
    BY <1>2, <1>3, <1>4, <1>6 DEF JoinsIn, StateTypeOK
<1>8. PICK tk1 : tk1 = Tokened(tk, r, x, "done")
    OBVIOUS
<1>9. /\ tk1[<<r, x>>] = "done"
      /\ \A q, z \in Results : ~ (q = r /\ z = x) => tk1[<<q, z>>] = tk[<<q, z>>]
    BY <1>2, <1>8 DEF Tokened, Pairs
<1>10. \A q \in Sources(x) : q \in Results /\ (q # r => tk1[<<q, x>>] = tk[<<q, x>>])
    BY <1>2, <1>9 DEF Sources
<1>11. CASE /\ outcome[r] = "ok"
            /\ remaining' = [remaining EXCEPT ![x] = @ - 1]
            /\ FiredFirst(t, IF remaining[x] = 1 /\ ~ failed[x] THEN <<Setting(x, "ok")>> ELSE <<>>)
            /\ UNCHANGED failed
    <2>1. PICK b \in BOOLEAN : b <=> (remaining[x] = 1 /\ ~ failed[x])
        OBVIOUS
    <2>2. Counted(x, tk1)' = C \union {r}
        BY <1>2, <1>3, <1>4, <1>9, <1>10, <1>11 DEF Counted
    <2>3. \A q \in Sources(x) : FailedBy(x, q, tk1)' <=> FailedBy(x, q, tk)
        BY <1>2, <1>3, <1>9, <1>10, <1>11 DEF FailedBy
    <2>4. remaining'[x] = k - 1 /\ failed'[x] = failed[x]
        BY <1>2, <1>5, <1>11 DEF StateTypeOK
    <2>5. b <=> (C \union {r} = Sources(x) /\ ~ failed[x])
        BY <1>5, <1>6, <2>1
    <2>6. b => st[x] = "new" /\ Deserved(x, "ok")
        <3>1. b => \A q \in Sources(x) : outcome[q] = "ok"
            BY <1>4, <1>11, <2>5 DEF Counted
        <3> QED BY <1>2, <1>7, <2>5, <3>1 DEF Deserved
    <2>7. PICK st1 : st1 = SetSt(st, x, b)
        OBVIOUS
    <2>8. /\ \A y \in Things : y # x => st1[y] = st[y]
          /\ st1[x] = IF b THEN "frame" ELSE st[x]
        BY <1>2, <2>7 DEF SetSt
    <2>9. JoinCounted(x, tk1, st1)'
        <3>1. (remaining[x] + Cardinality(Counted(x, tk1)) = FanIn(x))'
            BY <1>5, <1>6, <2>2, <2>4 DEF FanIn
        <3>2. (failed[x] <=> \E q \in Sources(x) : FailedBy(x, q, tk1))'
            BY <1>7, <2>3, <2>4
        <3>3. (st1[x] # "new" <=> failed[x] \/ Counted(x, tk1) = Sources(x))'
            BY <1>7, <2>2, <2>4, <2>5, <2>8
        <3> QED BY <3>1, <3>2, <3>3 DEF JoinCounted
    <2>10. \A j \in Joins : j # x => remaining'[j] = remaining[j] /\ failed'[j] = failed[j]
        BY <1>11 DEF StateTypeOK
    <2>11. JoinsIn(st1, tk1)'
        BY <1>2, <1>3, <1>8, <2>8, <2>9, <2>10, TheJoins
    <2>12. FiredFirst(t, IF b THEN <<Setting(x, "ok")>> ELSE <<>>)
        <3>1. CASE b
            <4>1. remaining[x] = 1 /\ ~ failed[x]
                BY <2>1, <3>1
            <4> QED BY <1>11, <3>1, <4>1
        <3>2. CASE ~ b
            <4>1. ~ (remaining[x] = 1 /\ ~ failed[x])
                BY <2>1, <3>2
            <4> QED BY <1>11, <3>2, <4>1
        <3> QED BY <3>1, <3>2
    <2>13. JoinsIn(SetSt(st, x, b), Tokened(tk, r, x, "done"))'
        BY <1>8, <2>7, <2>11
    <2> QED BY <1>1, <1>2, <1>3, <2>6, <2>12, <2>13, SetAccount
<1>12. CASE /\ outcome[r] = "error"
            /\ failed' = [failed EXCEPT ![x] = TRUE]
            /\ FiredFirst(t, IF failed[x] THEN <<>> ELSE <<Setting(x, "error")>>)
            /\ UNCHANGED remaining
    <2>1. PICK b \in BOOLEAN : b <=> ~ failed[x]
        OBVIOUS
    <2>2. Counted(x, tk1)' = C
        BY <1>2, <1>3, <1>4, <1>10, <1>12 DEF Counted
    <2>3. FailedBy(x, r, tk1)'
        BY <1>3, <1>9, <1>12 DEF FailedBy
    <2>4. remaining'[x] = k /\ failed'[x]
        BY <1>2, <1>5, <1>12 DEF StateTypeOK
    <2>5. b => st[x] = "new" /\ Deserved(x, "error")
        BY <1>2, <1>7, <1>12, <2>1 DEF Deserved
    <2>6. PICK st1 : st1 = SetSt(st, x, b)
        OBVIOUS
    <2>7. /\ \A y \in Things : y # x => st1[y] = st[y]
          /\ st1[x] = IF b THEN "frame" ELSE st[x]
        BY <1>2, <2>6 DEF SetSt
    <2>8. JoinCounted(x, tk1, st1)'
        <3>1. (remaining[x] + Cardinality(Counted(x, tk1)) = FanIn(x))'
            BY <1>5, <2>2, <2>4 DEF FanIn
        <3>2. (failed[x] <=> \E q \in Sources(x) : FailedBy(x, q, tk1))'
            BY <1>2, <2>3, <2>4
        <3>3. (st1[x] # "new" <=> failed[x] \/ Counted(x, tk1) = Sources(x))'
            BY <1>7, <2>1, <2>4, <2>7
        <3> QED BY <3>1, <3>2, <3>3 DEF JoinCounted
    <2>9. \A j \in Joins : j # x => remaining'[j] = remaining[j] /\ failed'[j] = failed[j]
        BY <1>12 DEF StateTypeOK
    <2>10. JoinsIn(st1, tk1)'
        BY <1>2, <1>3, <1>8, <2>7, <2>8, <2>9, TheJoins
    <2>11. FiredFirst(t, IF b THEN <<Setting(x, "error")>> ELSE <<>>)
        <3>1. CASE b
            <4>1. ~ failed[x]
                BY <2>1, <3>1
            <4> QED BY <1>12, <3>1, <4>1
        <3>2. CASE ~ b
            <4>1. failed[x]
                BY <2>1, <3>2
            <4> QED BY <1>12, <3>2, <4>1
        <3> QED BY <3>1, <3>2
    <2>12. JoinsIn(SetSt(st, x, b), Tokened(tk, r, x, "done"))'
        BY <1>8, <2>6, <2>10
    <2> QED BY <1>1, <1>2, <1>3, <2>5, <2>11, <2>12, SetAccount
<1> QED BY <1>2, <1>11, <1>12 DEF CountDown

LEMMA FireAccount ==
    ASSUME StateTypeOK, Accounted, NEW t \in Threads, Fire(t)
    PROVE  Accounted'
<1>1. PICK r, left, x : r = Top(t).of /\ left = Top(t).left /\ x = Head(left)
    OBVIOUS
<1>2. FireAt(t, r, left, x)
    BY <1>1 DEF FireAt, Fire
<1>3. (CountDown(t, x) \/ Continue(t, x)) /\ UNCHANGED <<outcome, handlers, registered>>
    BY <1>1 DEF Fire
<1> QED BY <1>2, <1>3, CountDownAccount, ContinueAccount

\* A step that changes no queue, no frame and no result.
LEMMA IdleAccount ==
    ASSUME Accounted, Elsewhere, UNCHANGED calls
    PROVE  Accounted'
<1>1. PICK st, sp, tk, tp, at : Account(st, sp, tk, tp, at)
    BY DEF Accounted
<1>2. QueuesIn(st, sp)' /\ HandlersIn(tk)' /\ PairsIn(tk)' /\ StagesIn(st, tk)' /\ JoinsIn(st, tk)' /\ Onward
    BY <1>1, RestStays
<1>3. AccountTypeOK(st, sp, tk, tp, at)' /\ AheadIn(st, tk, at)'
    BY <1>1 DEF Account, AccountTypeOK, AheadIn
<1>4. Seated(st, sp, tk, tp)'
    <2>1. Seated(st, sp, tk, tp)
        BY <1>1 DEF Account
    <2>2. \A x, t, n : SeatOf(x, t, n)' <=> SeatOf(x, t, n)
        BY DEF SeatOf
    <2>3. \A r, t, n : FireSeat(r, t, n)' <=> FireSeat(r, t, n)
        BY DEF FireSeat
    <2>4. ASSUME NEW x \in Things, st[x] = "frame" PROVE SeatOf(x, sp[x][1], sp[x][2])'
        BY <2>1, <2>2, <2>4 DEF Seated
    <2>5. ASSUME NEW r \in Results, NEW x \in Results, tk[<<r, x>>] = "firing"
          PROVE  FireSeat(r, tp[<<r, x>>][1], tp[<<r, x>>][2])'
        BY <2>1, <2>3, <2>5 DEF Seated
    <2> QED BY <2>4, <2>5 DEF Seated
<1>5. FramesIn(st, sp, tk, tp, at)'
    <2>1. ASSUME NEW t \in Threads, NEW n \in DOMAIN calls[t]
          PROVE  FrameIn(calls[t][n], t, n, st, sp, tk, tp, at)'
        <3>1. FrameIn(calls[t][n], t, n, st, sp, tk, tp, at)
            BY <1>1 DEF Account, FramesIn
        <3>2. PICK f : f = calls[t][n]
            OBVIOUS
        <3>3. f.op = "set" => Deserved(f.of, f.how)'
            BY <1>2, <3>1, <3>2, StillDeserved DEF FrameIn
        <3>4. FrameIn(f, t, n, st, sp, tk, tp, at)'
            BY <1>2, <3>1, <3>2, <3>3 DEF FrameIn, Onward
        <3> QED BY <3>2, <3>4
    <2> QED BY <2>1 DEF FramesIn
<1>6. Account(st, sp, tk, tp, at)'
    BY <1>2, <1>3, <1>4, <1>5 DEF Account
<1> QED BY <1>6 DEF Accounted

\* The steps in which a thread takes a task, or looks for one and finds none.
LEMMA TakingAccount ==
    ASSUME StateTypeOK, Accounted, NEW t \in Threads,
           \/ t \in Workers /\ (PopOwn(t) \/ TakeExternal(t) \/ Steal(t))
           \/ HelpExternal(t) \/ HelpSteal(t)
    PROVE  Accounted'
<1>1. Unsettled
    BY DEF PopOwn, TakeExternal, Steal, HelpExternal, HelpSteal, StealFrom, Unsettled, results
<1>2. ASSUME NEW x \in Tasks, Takes(t, x), TakenFromQueue(x) PROVE Accounted'
    <2>1. PICK st, sp, tk, tp, at : Account(st, sp, tk, tp, at)
        BY DEF Accounted
    <2>2. \E st1, sp1 : Account(st1, sp1, tk, tp, at)'
        BY <1>1, <1>2, <2>1, TakesAccount
    <2> QED BY <2>2 DEF Accounted
<1>3. ASSUME UNCHANGED <<external, deque>> PROVE Elsewhere
    BY <1>1, <1>3 DEF Unsettled, Elsewhere
<1>4. CASE UNCHANGED <<external, deque, calls>>
    BY <1>3, <1>4, IdleAccount
<1>5. CASE PoolGoesOn(t) /\ UNCHANGED <<external, deque>>
    <2>1. PICK st, sp, tk, tp, at : Account(st, sp, tk, tp, at)
        BY DEF Accounted
    <2>2. Account(st, sp, tk, tp, at)'
        BY <1>3, <1>5, <2>1, PoolStepAccount
    <2> QED BY <2>2 DEF Accounted
<1> QED BY <1>2, <1>4, <1>5, TakingSteps

\* The steps of a body and those of a function of the pool that change no result.
LEMMA QuietAccount ==
    ASSUME StateTypeOK, Accounted, NEW t \in Threads,
           \/ Notify(t) \/ HelpTest(t) \/ HelpMiss(t)
           \/ StartHelping(t) \/ ReadAcc(t) \/ WriteAcc(t) \/ JoinCallers(t) \/ JoinWorkers(t)
    PROVE  Accounted'
<1>1. PICK st, sp, tk, tp, at : Account(st, sp, tk, tp, at)
    BY DEF Accounted
<1>2. Elsewhere
    BY DEF Notify, HelpTest, HelpMiss, StartHelping, ReadAcc, WriteAcc, JoinCallers, JoinWorkers,
           Elsewhere, queues, results
<1>3. CASE Notify(t) \/ HelpTest(t) \/ HelpMiss(t)
    <2>1. PoolGoesOn(t)
        BY <1>3, NotifyStep, HelpTestStep, HelpGotoStep DEF HelpMiss, HelpAt
    <2>2. Account(st, sp, tk, tp, at)'
        BY <1>1, <1>2, <2>1, PoolStepAccount
    <2> QED BY <2>2 DEF Accounted
<1>4. CASE StartHelping(t) \/ ReadAcc(t) \/ WriteAcc(t) \/ JoinCallers(t) \/ JoinWorkers(t)
    <2>1. BodyGoesOn(t)
        BY <1>4, StartHelpingStep, ReadAccStep, PlainBodyStep DEF WriteAcc, JoinCallers, JoinWorkers
    <2>2. \E at1 : Account(st, sp, tk, tp, at1)'
        BY <1>1, <1>2, <2>1, BodyStepAccount
    <2> QED BY <2>2 DEF Accounted
<1> QED BY <1>3, <1>4

\* Every step keeps the account.
LEMMA StepAccounted ==
    ASSUME StateTypeOK, Accounted, [Next]_vars
    PROVE  Accounted'
<1>1. ASSUME NEW t \in Threads, Proceed(t) PROVE Accounted'
    <2>1. CASE StartShutdown(t)
        <3>1. Elsewhere /\ UNCHANGED calls
            BY <2>1 DEF StartShutdown, Elsewhere, queues, results
        <3> QED BY <3>1, IdleAccount
    <2>2. CASE \/ Notify(t) \/ HelpTest(t) \/ HelpMiss(t)
               \/ StartHelping(t) \/ ReadAcc(t) \/ WriteAcc(t) \/ JoinCallers(t) \/ JoinWorkers(t)
        BY <2>2, QuietAccount
    <2>3. CASE HelpExternal(t)
        BY <2>3, TakingAccount
    <2> QED BY <1>1, <2>1, <2>2, <2>3, SubmitAccount, EndBodyAccount, SetResultAccount, FireAccount,
               OnCompleteAccount, WaitAccount DEF Proceed
<1>2. ASSUME NEW w \in Workers, Loop(w) \/ Steal(w) PROVE Accounted'
    <2>1. w \in Threads
        BY DEF Threads
    <2>2. CASE Park(w) \/ Timeout(w) \/ Exit(w)
        <3>1. Elsewhere /\ UNCHANGED calls
            BY <2>2 DEF Park, Timeout, Exit, Elsewhere, queues, results
        <3> QED BY <3>1, IdleAccount
    <2>3. CASE PopOwn(w) \/ TakeExternal(w) \/ Steal(w)
        BY <2>1, <2>3, TakingAccount
    <2> QED BY <1>2, <2>2, <2>3 DEF Loop
<1>3. ASSUME NEW t \in Threads, HelpSteal(t) PROVE Accounted'
    BY <1>3, TakingAccount
<1>4. CASE UNCHANGED vars
    <2>1. Elsewhere /\ UNCHANGED calls
        BY <1>4 DEF vars, Elsewhere
    <2> QED BY <2>1, IdleAccount
<1> QED BY <1>1, <1>2, <1>3, <1>4 DEF Next, Done

--------------------------------------------------------------------------------
(* The account of the initial states, and what follows from an account. *)

LEMMA InitTyped ==
    ASSUME Init
    PROVE  StateTypeOK
<1>1. calls \in [Threads -> Seq(Frame)]
    <2>1. ASSUME NEW t \in Threads PROVE (IF t \in Callers THEN <<BodyOf(t)>> ELSE <<>>) \in Seq(Frame)
        <3>1. CASE t \in Callers
            <4>1. BodyOf(t) \in Frame
                BY <3>1, NewFrames, FrameSets DEF Owners
            <4> QED BY <3>1, <4>1
        <3>2. CASE t \notin Callers
            BY <3>2
        <3> QED BY <3>1, <3>2
    <2> QED BY <2>1 DEF Init
<1>2. remaining \in [Joins -> Int]
    <2>1. \A j \in Joins : FanIn(j) \in Int
        BY PoolAssumption, FS_CardinalityType DEF FanIn
    <2> QED BY <2>1 DEF Init
<1>3. external \in Seq(Tasks) /\ deque \in [Workers -> Seq(Tasks)] /\ handlers \in [Results -> Seq(Results)]
    BY DEF Init
<1> QED BY <1>1, <1>2, <1>3 DEF Init, StateTypeOK

\* The bodies of the callers are the only frames, and nothing else is there yet.
LEMMA InitAccounted ==
    ASSUME Init
    PROVE  Accounted
<1>1. StateTypeOK
    BY InitTyped
<1>2. PICK w0 \in Workers : w0 \in Threads
    BY PoolAssumption DEF Threads
<1>3. <<w0, 0>> \in Seats /\ \A c \in Callers : <<c, 1>> \in Seats /\ c \in Threads
    BY <1>2 DEF Seats, Threads
<1>4. PICK st, sp, tk, tp, at :
          /\ st = [x \in Things |-> IF x \in Callers THEN "frame" ELSE "new"]
          /\ sp = [x \in Things |-> IF x \in Callers THEN <<x, 1>> ELSE <<w0, 0>>]
          /\ tk = [p \in Pairs |-> "none"]
          /\ tp = [p \in Pairs |-> <<w0, 0>>]
          /\ at = [x \in Owners |-> 1]
    OBVIOUS
<1>5. /\ \A c \in Callers : st[c] = "frame" /\ sp[c] = <<c, 1>> /\ at[c] = 1 /\ c \notin Results /\ c \in Things
      /\ \A x \in Results : st[x] = "new" /\ x \in Things
      /\ \A x \in Things : st[x] \in {"frame", "new"} /\ (st[x] = "frame" => x \in Callers)
      /\ \A r, x \in Results : tk[<<r, x>>] = "none"
    BY <1>4, PoolAssumption DEF Things, Owners, Pairs
<1>6. AccountTypeOK(st, sp, tk, tp, at)
    BY <1>3, <1>4 DEF AccountTypeOK
<1>7. \A t \in Threads : \A n \in DOMAIN calls[t] : t \in Callers /\ n = 1 /\ calls[t][n] = BodyOf(t)
    <2>1. ASSUME NEW t \in Threads, NEW n \in DOMAIN calls[t] PROVE t \in Callers /\ n = 1 /\ calls[t][n] = BodyOf(t)
        <3>1. calls[t] = (IF t \in Callers THEN <<BodyOf(t)>> ELSE <<>>)
            BY DEF Init
        <3>2. CASE t \in Callers
            BY <3>1, <3>2
        <3>3. CASE t \notin Callers
            BY <3>1, <3>3
        <3> QED BY <3>2, <3>3
    <2> QED BY <2>1
<1>8. FramesIn(st, sp, tk, tp, at)
    <2>1. ASSUME NEW t \in Threads, NEW n \in DOMAIN calls[t]
          PROVE  FrameIn(calls[t][n], t, n, st, sp, tk, tp, at)
        <3>1. t \in Callers /\ n = 1 /\ calls[t][n] = BodyOf(t)
            BY <1>7
        <3>2. t \notin Tasks
            BY <3>1, PoolAssumption DEF Results
        <3> QED BY <1>5, <3>1, <3>2 DEF FrameIn, BodyOf
    <2> QED BY <2>1 DEF FramesIn
<1>9. Seated(st, sp, tk, tp)
    <2>1. ASSUME NEW x \in Things, st[x] = "frame" PROVE SeatOf(x, sp[x][1], sp[x][2])
        <3>1. x \in Callers /\ x \in Threads /\ sp[x] = <<x, 1>>
            BY <1>3, <1>5, <2>1
        <3>2. calls[x] = <<BodyOf(x)>>
            BY <3>1 DEF Init
        <3>3. 1 \in DOMAIN calls[x] /\ calls[x][1] = BodyOf(x)
            BY <3>2
        <3> QED BY <3>1, <3>3 DEF SeatOf, BodyOf
    <2> QED BY <1>5, <2>1 DEF Seated
<1>10. QueuesIn(st, sp)
    <2>1. IsInjective(<<>>) /\ ToSet(<<>>) = {}
        BY DEF IsInjective, ToSet
    <2>2. external = <<>> /\ \A w \in Workers : deque[w] = <<>>
        BY DEF Init
    <2> QED BY <1>5, <2>1, <2>2 DEF QueuesIn
<1>11. HandlersIn(tk)
    <2>1. IsInjective(<<>>) /\ ToSet(<<>>) = {}
        BY DEF IsInjective, ToSet
    <2>2. \A r \in Results : handlers[r] = <<>>
        BY DEF Init
    <2> QED BY <1>5, <2>1, <2>2 DEF HandlersIn
<1>12. PairsIn(tk)
    BY <1>4, <1>5 DEF PairsIn, Pairs, Init
<1>13. StagesIn(st, tk)
    <2>1. \A x \in Results : ~ Over(x)
        BY DEF Init, Over
    <2>2. \A x \in Tasks : x \in Results /\ \A r \in Sources(x) : r \in Results
        BY DEF Results, Sources
    <2> QED BY <1>5, <2>1, <2>2 DEF StagesIn, Init
<1>14. JoinsIn(st, tk)
    <2>1. ASSUME NEW j \in Joins
          PROVE  /\ remaining[j] + Cardinality(Counted(j, tk)) = FanIn(j)
                 /\ failed[j] <=> \E r \in Sources(j) : FailedBy(j, r, tk)
                 /\ st[j] # "new" <=> failed[j] \/ Counted(j, tk) = Sources(j)
        <3>1. j \in Results /\ \A r \in Sources(j) : tk[<<r, j>>] = "none"
            BY <1>5 DEF Results, Sources
        <3>2. Counted(j, tk) = {} /\ \A r \in Sources(j) : ~ FailedBy(j, r, tk)
            BY <3>1 DEF Counted, FailedBy
        <3>3. Sources(j) # {} /\ FanIn(j) \in Nat
            BY PoolAssumption, FS_CardinalityType DEF FanIn
        <3>4. remaining[j] = FanIn(j) /\ failed[j] = FALSE
            BY DEF Init
        <3>5. Cardinality({}) = 0
            BY FS_EmptySet
        <3>6. remaining[j] + Cardinality(Counted(j, tk)) = FanIn(j)
            BY <3>2, <3>3, <3>4, <3>5
        <3>7. st[j] = "new"
            BY <1>5, <3>1
        <3> QED BY <3>2, <3>3, <3>4, <3>6, <3>7
    <2> QED BY <2>1 DEF JoinsIn
<1>15. AheadIn(st, tk, at)
    <2>1. Tasks \subseteq Results
        BY DEF Results
    <2> QED BY <1>4, <1>5, <2>1 DEF AheadIn
<1> QED BY <1>6, <1>8, <1>9, <1>10, <1>11, <1>12, <1>13, <1>14, <1>15 DEF Account, Accounted

LEMMA AlwaysAccounted == Spec => [](StateTypeOK /\ Accounted)
<1>1. Init => StateTypeOK /\ Accounted
    BY InitTyped, InitAccounted
<1>2. StateTypeOK /\ Accounted /\ [Next]_vars => StateTypeOK' /\ Accounted'
    BY StepTyped, StepAccounted
<1> QED BY <1>1, <1>2, PTL DEF Spec

\* Types: what is queued is a task, and a combined result waits for none of its inputs
\* twice (when_all(), TaskHandle.hpp): its count stays between zero and their number.
THEOREM PoolTypeCorrect == Spec => []PoolTypeOK
<1>1. ASSUME StateTypeOK, Accounted PROVE PoolTypeOK
    <2>1. PICK st, sp, tk, tp, at : Account(st, sp, tk, tp, at)
        BY <1>1 DEF Accounted
    <2>2. ASSUME NEW j \in Joins PROVE remaining[j] \in 0 .. Cardinality(Sources(j))
        <3>1. remaining[j] + Cardinality(Counted(j, tk)) = FanIn(j) /\ remaining[j] \in Int
            BY <1>1, <2>1 DEF Account, JoinsIn, StateTypeOK
        <3>2. IsFiniteSet(Sources(j)) /\ Counted(j, tk) \subseteq Sources(j)
            BY PoolAssumption DEF Counted
        <3>3. PICK n \in Nat, m \in Nat : n = Cardinality(Sources(j)) /\ m = Cardinality(Counted(j, tk)) /\ m <= n
            BY <3>2, FS_Subset, FS_CardinalityType
        <3>4. remaining[j] + m = n
            BY <3>1, <3>3 DEF FanIn
        <3>5. remaining[j] \in 0 .. n
            BY <3>1, <3>3, <3>4
        <3> QED BY <3>3, <3>5
    <2> QED BY <1>1, <2>2 DEF StateTypeOK, PoolTypeOK, Pairs
<1> QED BY <1>1, AlwaysAccounted, PTL

LEMMA PlacesThree ==
    ASSUME NEW x, NEW p
    PROVE  p \in Places(x) <=>
              \/ \E n \in Spots(external, x) : p = <<"external", n>>
              \/ \E w \in Workers : \E n \in Spots(deque[w], x) : p = <<"deque", w, n>>
              \/ \E t \in Threads : \E n \in FramesOf(t, x) : p = <<"calls", t, n>>
<1>1. p \in InExternal(x) <=> \E n \in Spots(external, x) : p = <<"external", n>>
    BY DEF InExternal
<1>2. p \in InDeques(x) <=>
         \E w \in Workers : \E n \in Spots(deque[w], x) : p = <<"deque", w, n>>
    <2>1. ASSUME NEW w PROVE p \in {<<"deque", w, n>> : n \in Spots(deque[w], x)} <=>
                             \E n \in Spots(deque[w], x) : p = <<"deque", w, n>>
        OBVIOUS
    <2> QED BY <2>1 DEF InDeques
<1>3. p \in InCalls(x) <=>
         \E t \in Threads : \E n \in FramesOf(t, x) : p = <<"calls", t, n>>
    <2>1. ASSUME NEW t PROVE p \in {<<"calls", t, n>> : n \in FramesOf(t, x)} <=>
                             \E n \in FramesOf(t, x) : p = <<"calls", t, n>>
        OBVIOUS
    <2> QED BY <2>1 DEF InCalls
<1>4. p \in Places(x) <=> p \in InExternal(x) \/ p \in InDeques(x) \/ p \in InCalls(x)
    BY DEF Places
<1> QED BY <1>1, <1>2, <1>3, <1>4

\* A task is where its stage says, and nowhere else.
LEMMA PlacesFound ==
    ASSUME StateTypeOK, NEW st, NEW sp, NEW tk, NEW tp, NEW at, Account(st, sp, tk, tp, at), NEW x \in Tasks
    PROVE  /\ \A n \in Spots(external, x) : st[x] = "external" /\ n \in DOMAIN external /\ external[n] = x
           /\ \A w \in Workers : \A n \in Spots(deque[w], x) :
                 st[x] = "deque" /\ sp[x] = <<w, 0>> /\ n \in DOMAIN deque[w] /\ deque[w][n] = x
           /\ \A t \in Threads : \A n \in FramesOf(t, x) : st[x] = "frame" /\ sp[x] = <<t, n>>
           /\ st[x] = "external" => \E n : n \in Spots(external, x)
           /\ st[x] = "deque" => \E w \in Workers : \E n : n \in Spots(deque[w], x)
           /\ st[x] = "frame" => \E t \in Threads : \E n : n \in FramesOf(t, x)
<1>1. x \in Things
    BY DEF Things, Results
<1>2. QueuesIn(st, sp) /\ FramesIn(st, sp, tk, tp, at) /\ Seated(st, sp, tk, tp) /\ AccountTypeOK(st, sp, tk, tp, at)
    BY DEF Account
<1>3. /\ \A n \in Spots(external, x) : st[x] = "external" /\ n \in DOMAIN external /\ external[n] = x
      /\ st[x] = "external" => \E n : n \in Spots(external, x)
    BY <1>1, <1>2 DEF QueuesIn, Spots, ToSet
<1>4. ASSUME NEW w \in Workers, NEW n \in Spots(deque[w], x)
      PROVE  st[x] = "deque" /\ sp[x] = <<w, 0>> /\ n \in DOMAIN deque[w] /\ deque[w][n] = x
    <2>1. n \in DOMAIN deque[w] /\ deque[w][n] = x
        BY <1>4 DEF Spots
    <2>2. x \in ToSet(deque[w])
        BY <2>1 DEF ToSet
    <2> QED BY <1>2, <2>1, <2>2 DEF QueuesIn
<1>5. ASSUME st[x] = "deque" PROVE \E w \in Workers : \E n : n \in Spots(deque[w], x)
    <2>1. PICK w \in Workers : sp[x] = <<w, 0>>
        BY <1>1, <1>2, <1>5 DEF QueuesIn
    <2>2. x \in ToSet(deque[w])
        BY <1>1, <1>2, <1>5, <2>1 DEF QueuesIn
    <2> QED BY <2>2 DEF Spots, ToSet
<1>6. ASSUME NEW t \in Threads, NEW n \in FramesOf(t, x) PROVE st[x] = "frame" /\ sp[x] = <<t, n>>
    <2>1. n \in DOMAIN calls[t] /\ calls[t][n].op \in {"body", "set"} /\ calls[t][n].of = x
        BY <1>6 DEF FramesOf
    <2> QED BY <1>2, <2>1 DEF FramesIn, FrameIn
<1>7. ASSUME st[x] = "frame" PROVE \E t \in Threads : \E n : n \in FramesOf(t, x)
    <2>1. SeatOf(x, sp[x][1], sp[x][2])
        BY <1>1, <1>2, <1>7 DEF Seated
    <2>2. sp[x] \in Seats
        BY <1>1, <1>2 DEF AccountTypeOK
    <2>3. sp[x][1] \in Threads
        BY <2>2 DEF Seats
    <2> QED BY <2>1, <2>3 DEF SeatOf, FramesOf
<1> QED BY <1>3, <1>4, <1>5, <1>6, <1>7

\* What is registered with a result that is there is fired, or was run.
LEMMA FiredOrDone ==
    ASSUME StateTypeOK, NEW st, NEW sp, NEW tk, NEW tp, NEW at, Account(st, sp, tk, tp, at),
           NEW x \in Results, NEW r \in Sources(x), <<r, x>> \in registered, Over(r), ~ Pending(x)
    PROVE  tk[<<r, x>>] = "done"
<1>1. r \in Results /\ <<r, x>> \in Pairs
    BY DEF Sources, Pairs
<1>2. tk[<<r, x>>] \in {"firing", "done"}
    BY <1>1 DEF Account, PairsIn, AccountTypeOK
<1>3. ASSUME tk[<<r, x>>] = "firing" PROVE FALSE
    <2>1. PICK t \in Threads, n \in Nat : tp[<<r, x>>] = <<t, n>>
        BY <1>1 DEF Account, AccountTypeOK, Seats
    <2>2. FireSeat(r, t, n)
        BY <1>1, <1>3, <2>1 DEF Account, Seated
    <2>3. PICK f : f = calls[t][n]
        OBVIOUS
    <2>4. n \in DOMAIN calls[t] /\ f.op = "fire" /\ f.of = r
        BY <2>2, <2>3 DEF FireSeat
    <2>5. ToSet(f.left) = FiringAt(r, t, n, tk, tp)
        BY <2>3, <2>4 DEF Account, FramesIn, FrameIn
    <2>6. x \in ToSet(f.left)
        BY <1>3, <2>1, <2>5 DEF FiringAt
    <2> QED BY <2>3, <2>4, <2>6 DEF Pending
<1> QED BY <1>2, <1>3

\* What is beyond its beginning is seen to.
LEMMA BegunSeenTo ==
    ASSUME StateTypeOK, NEW st, NEW sp, NEW tk, NEW tp, NEW at, Account(st, sp, tk, tp, at),
           NEW x \in Results, st[x] # "new"
    PROVE  SeenTo(x) \/ Pending(x)
<1>1. x \in Things /\ x \notin Callers /\ st[x] \in {"external", "deque", "frame", "over"}
    BY PoolAssumption DEF Account, AccountTypeOK, Things
<1>2. CASE st[x] = "over"
    BY <1>2 DEF Account, StagesIn, SeenTo
<1>3. CASE st[x] \in {"external", "deque"}
    <2>1. x \in Tasks
        <3>1. CASE st[x] = "external"
            BY <1>1, <3>1 DEF Account, QueuesIn, ToSet, StateTypeOK
        <3>2. CASE st[x] = "deque"
            <4>1. PICK w \in Workers : sp[x] = <<w, 0>>
                BY <1>1, <3>2 DEF Account, QueuesIn
            <4>2. x \in ToSet(deque[w]) /\ deque[w] \in Seq(Tasks)
                BY <1>1, <3>2, <4>1 DEF Account, QueuesIn, StateTypeOK
            <4> QED BY <4>2 DEF ToSet
        <3> QED BY <1>3, <3>1, <3>2
    <2> QED BY <1>3, <2>1 DEF Account, StagesIn, SeenTo
<1>4. CASE st[x] = "frame"
    <2>1. PICK t \in Threads, n \in Nat : sp[x] = <<t, n>>
        BY <1>1 DEF Account, AccountTypeOK, Seats
    <2>2. SeatOf(x, t, n)
        BY <1>1, <1>4, <2>1 DEF Account, Seated
    <2>3. PICK f : f = calls[t][n]
        OBVIOUS
    <2>4. n \in DOMAIN calls[t] /\ f.op \in {"body", "set"} /\ f.of = x
        BY <2>2, <2>3 DEF SeatOf
    <2>5. CASE f.op = "set"
        BY <2>3, <2>4, <2>5 DEF Pending
    <2>6. CASE f.op = "body"
        <3>1. f \in Frame
            BY <2>3, <2>4 DEF StateTypeOK
        <3>2. x \in Owners
            BY <2>4, <2>6, <3>1, Kinds DEF BodyFrame
        <3>3. x \in Tasks
            BY <1>1, <3>2 DEF Owners
        <3>4. FrameIn(f, t, n, st, sp, tk, tp, at)
            BY <2>3, <2>4 DEF Account, FramesIn
        <3> QED BY <2>4, <2>6, <3>3, <3>4 DEF FrameIn, SeenTo
    <2> QED BY <2>4, <2>5, <2>6
<1> QED BY <1>1, <1>2, <1>3, <1>4

\* Nothing is orphaned: the last of the inputs to come, or a failed one, has the
\* handler that begins x, or it was run and x has begun.
LEMMA ReadySeenTo ==
    ASSUME StateTypeOK, NEW st, NEW sp, NEW tk, NEW tp, NEW at, Account(st, sp, tk, tp, at),
           NEW x \in Dependents, Ready(x)
    PROVE  SeenTo(x) \/ Pending(x)
<1>1. x \in Results /\ Sources(x) # {}
    BY DEF Dependents
<1>2. SUFFICES ASSUME ~ Pending(x) PROVE st[x] # "new"
    BY <1>1, BegunSeenTo
<1>3. \A r \in Sources(x) : r \in Results /\ (<<r, x>> \in registered /\ Over(r) => tk[<<r, x>>] = "done")
    BY <1>1, <1>2, FiredOrDone DEF Sources
<1>4. PICK r \in Sources(x) : <<r, x>> \in registered /\ Over(r)
    BY <1>1 DEF Ready, Over
<1>5. CASE x \in Tasks
    BY <1>3, <1>4, <1>5 DEF Account, StagesIn
<1>6. CASE x \in Joins
    <2>1. /\ failed[x] <=> \E q \in Sources(x) : FailedBy(x, q, tk)
          /\ st[x] # "new" <=> failed[x] \/ Counted(x, tk) = Sources(x)
        BY <1>6 DEF Account, JoinsIn
    <2>2. CASE \E q \in Sources(x) : <<q, x>> \in registered /\ outcome[q] = "error"
        <3>1. PICK q \in Sources(x) : <<q, x>> \in registered /\ outcome[q] = "error"
            BY <2>2
        <3>2. tk[<<q, x>>] = "done"
            BY <1>3, <3>1 DEF Over
        <3> QED BY <2>1, <3>1, <3>2 DEF FailedBy
    <2>3. CASE \A q \in Sources(x) : <<q, x>> \in registered /\ Over(q)
        <3>1. \A q \in Sources(x) : tk[<<q, x>>] = "done" /\ outcome[q] \in {"ok", "error"}
            BY <1>3, <2>3 DEF Over, StateTypeOK
        <3>2. CASE \E q \in Sources(x) : outcome[q] = "error"
            BY <2>1, <3>1, <3>2 DEF FailedBy
        <3>3. CASE \A q \in Sources(x) : outcome[q] = "ok"
            BY <2>1, <3>1, <3>3 DEF Counted
        <3> QED BY <3>1, <3>2, <3>3
    <2> QED BY <2>2, <2>3 DEF Ready
<1> QED BY <1>1, <1>5, <1>6 DEF Results

\* Nothing is lost or done twice, for any workers, callers and programs: a task is
\* moved by enqueue(), the workers' share of the shared queue, thieves and helpers, and
\* set_value(), set_exception() and on_complete() of several threads take the locks
\* of the results in any order (TaskPool.cpp, TaskHandle.hpp).
THEOREM NothingEverLost == Spec => []NothingLost
<1>1. ASSUME StateTypeOK, Accounted PROVE NothingLost
    <2>1. PICK st, sp, tk, tp, at : Account(st, sp, tk, tp, at)
        BY <1>1 DEF Accounted
    <2>2. ASSUME NEW x \in Tasks, NEW p \in Places(x), NEW q \in Places(x) PROVE p = q /\ ~ Over(x)
        <3>1. st[x] = "over" <=> Over(x)
            BY <2>1 DEF Account, StagesIn, Results
        <3>2. IsInjective(external) /\ \A w \in Workers : IsInjective(deque[w])
            BY <2>1 DEF Account, QueuesIn
        <3>3. ASSUME NEW z \in Places(x)
              PROVE  \/ \E n \in Spots(external, x) : z = <<"external", n>>
                     \/ \E w \in Workers : \E n \in Spots(deque[w], x) : z = <<"deque", w, n>>
                     \/ \E t \in Threads : \E n \in FramesOf(t, x) : z = <<"calls", t, n>>
            BY <3>3, PlacesThree
        <3>4. CASE \E n \in Spots(external, x) : p = <<"external", n>>
            <4>1. PICK n \in Spots(external, x) : p = <<"external", n>>
                BY <3>4
            <4>2. st[x] = "external" /\ n \in DOMAIN external /\ external[n] = x
                BY <1>1, <2>1, PlacesFound
            <4>3. PICK m \in Spots(external, x) : q = <<"external", m>>
                BY <1>1, <2>1, <3>3, <4>2, PlacesFound
            <4>4. m \in DOMAIN external /\ external[m] = x
                BY <1>1, <2>1, PlacesFound
            <4> QED BY <3>1, <3>2, <4>1, <4>2, <4>3, <4>4 DEF IsInjective
        <3>5. CASE \E w \in Workers : \E n \in Spots(deque[w], x) : p = <<"deque", w, n>>
            <4>1. PICK w \in Workers : \E n \in Spots(deque[w], x) : p = <<"deque", w, n>>
                BY <3>5
            <4>2. PICK n \in Spots(deque[w], x) : p = <<"deque", w, n>>
                BY <4>1
            <4>3. st[x] = "deque" /\ sp[x] = <<w, 0>> /\ n \in DOMAIN deque[w] /\ deque[w][n] = x
                BY <1>1, <2>1, PlacesFound
            <4>4. PICK v \in Workers : \E m \in Spots(deque[v], x) : q = <<"deque", v, m>>
                BY <1>1, <2>1, <3>3, <4>3, PlacesFound
            <4>5. PICK m \in Spots(deque[v], x) : q = <<"deque", v, m>>
                BY <4>4
            <4>6. sp[x] = <<v, 0>> /\ m \in DOMAIN deque[v] /\ deque[v][m] = x
                BY <1>1, <2>1, PlacesFound
            <4>7. v = w
                BY <4>3, <4>6
            <4>8. m = n
                BY <3>2, <4>3, <4>6, <4>7 DEF IsInjective
            <4> QED BY <3>1, <4>2, <4>3, <4>5, <4>7, <4>8
        <3>6. CASE \E t \in Threads : \E n \in FramesOf(t, x) : p = <<"calls", t, n>>
            <4>1. PICK t \in Threads : \E n \in FramesOf(t, x) : p = <<"calls", t, n>>
                BY <3>6
            <4>2. PICK n \in FramesOf(t, x) : p = <<"calls", t, n>>
                BY <4>1
            <4>3. st[x] = "frame" /\ sp[x] = <<t, n>>
                BY <1>1, <2>1, PlacesFound
            <4>4. PICK u \in Threads : \E m \in FramesOf(u, x) : q = <<"calls", u, m>>
                BY <1>1, <2>1, <3>3, <4>3, PlacesFound
            <4>5. PICK m \in FramesOf(u, x) : q = <<"calls", u, m>>
                BY <4>4
            <4>6. sp[x] = <<u, m>>
                BY <1>1, <2>1, PlacesFound
            <4> QED BY <3>1, <4>2, <4>3, <4>5, <4>6
        <3> QED BY <3>3, <3>4, <3>5, <3>6
    <2>3. ASSUME NEW x \in Tasks, x \in submitted, ~ Over(x) PROVE Places(x) # {}
        <3>1. st[x] # "new" /\ st[x] # "over"
            BY <2>1, <2>3 DEF Account, StagesIn, Results
        <3>2. st[x] \in {"external", "deque", "frame"}
            BY <2>1, <3>1 DEF Account, AccountTypeOK, Things, Results
        <3>3. \/ \E n : n \in Spots(external, x)
              \/ \E w \in Workers : \E n : n \in Spots(deque[w], x)
              \/ \E t \in Threads : \E n : n \in FramesOf(t, x)
            BY <1>1, <2>1, <3>2, PlacesFound
        <3>4. \E p : p \in Places(x)
            <4>1. ASSUME NEW n \in Spots(external, x) PROVE <<"external", n>> \in Places(x)
                BY PlacesThree
            <4>2. ASSUME NEW w \in Workers, NEW n \in Spots(deque[w], x) PROVE <<"deque", w, n>> \in Places(x)
                BY PlacesThree
            <4>3. ASSUME NEW t \in Threads, NEW n \in FramesOf(t, x) PROVE <<"calls", t, n>> \in Places(x)
                BY PlacesThree
            <4> QED BY <3>3, <4>1, <4>2, <4>3
        <3> QED BY <3>4
    <2>4. \A x \in Dependents : Ready(x) => SeenTo(x) \/ Pending(x)
        BY <1>1, <2>1, ReadySeenTo
    <2> QED BY <2>2, <2>3, <2>4 DEF NothingLost
<1> QED BY <1>1, AlwaysAccounted, PTL

\* What runs after others runs after they succeeded, for any program: the handlers of
\* then(), dataflow() and when_all() look at the result they were called with, and the
\* exception of one input is passed on (TaskHandle.hpp).
THEOREM InputsAlwaysFirst == Spec => []InputsFirst
<1>1. ASSUME StateTypeOK, Accounted PROVE InputsFirst
    <2>1. PICK st, sp, tk, tp, at : Account(st, sp, tk, tp, at)
        BY <1>1 DEF Accounted
    <2>2. ASSUME NEW x \in Dependents
          PROVE  /\ x \in submitted \/ outcome[x] = "ok" => \A r \in Sources(x) : outcome[r] = "ok"
                 /\ outcome[x] = "error" => x \in submitted \/ \E r \in Sources(x) : outcome[r] = "error"
        <3>1. x \in Results /\ submitted \subseteq Tasks
            BY <1>1 DEF Dependents, StateTypeOK
        <3>2. outcome[x] # "none" => Deserved(x, outcome[x])
            BY <2>1, <3>1 DEF Account, StagesIn, Over
        <3>3. x \in submitted => \A r \in Sources(x) : outcome[r] = "ok"
            BY <2>1, <3>1 DEF Account, StagesIn
        <3>4. outcome[x] = "ok" => x \in submitted \/ \A r \in Sources(x) : outcome[r] = "ok"
            BY <3>1, <3>2 DEF Deserved, Results
        <3>5. outcome[x] = "error" => x \in submitted \/ \E r \in Sources(x) : outcome[r] = "error"
            BY <3>2 DEF Deserved
        <3> QED BY <3>3, <3>4, <3>5
    <2> QED BY <2>2 DEF InputsFirst
<1> QED BY <1>1, AlwaysAccounted, PTL

--------------------------------------------------------------------------------
(* Reductions. *)

\* A caller that may help, in the loops that call help_until().
Helper(c) == \E n \in DOMAIN Body[c] : Body[c][n].op = "help"

\* What parallel_reduce() counts on: a chunk does nothing but add to its slot, and one
\* of the threads outside of the pool helps, since they have a slot between them.
ChunksPlain == \A x \in Chunks : Body[x] = <<[op |-> "read"], [op |-> "write"]>>
OneHelper == \A c, d \in Callers : Helper(c) /\ Helper(d) => c = d

Queued(x) == x \in ToSet(external) \/ \E w \in Workers : x \in ToSet(deque[w])
Added(x) == \E s \in Slots : x \in acc[s]

\* A frame of a chunk is between its two accesses only as the innermost one, with what
\* the slot holds; bodies of tasks are run inside of help_until(), or by workers.
FrameAdds(f, t, top) ==
    /\ f.op = "body" /\ f.of \in Callers => f.of = t
    /\ t \in Callers /\ (f.op = "help" \/ (f.op = "body" /\ f.of \in Tasks)) => Helper(t)
    /\ f.op = "set" /\ f.of \in Tasks => f.how = "error"
    /\ f.op = "body" /\ f.of \in Chunks =>
          /\ f.next >= 3 <=> Added(f.of)
          /\ f.next = 2 => top /\ f.copy = acc[SlotOf(t)]

FramesAdd == \A t \in Threads : \A n \in DOMAIN calls[t] : FrameAdds(calls[t][n], t, n = Len(calls[t]))

Reduction ==
    /\ FramesAdd
    /\ \A x \in Chunks : outcome[x] = "ok" => Added(x)
    /\ \A x \in Chunks : Added(x) => x \in submitted /\ ~ Queued(x)
    /\ \A s, u \in Slots : s # u => acc[s] \intersect acc[u] = {}

LEMMA QueuedStage ==
    ASSUME NEW st, NEW sp, QueuesIn(st, sp), NEW x \in Things
    PROVE  Queued(x) <=> st[x] \in {"external", "deque"}
<1>1. st[x] = "external" <=> x \in ToSet(external)
    BY DEF QueuesIn
<1>2. st[x] = "deque" <=> \E w \in Workers : x \in ToSet(deque[w])
    BY DEF QueuesIn
<1> QED BY <1>1, <1>2 DEF Queued

LEMMA QueuedNext ==
    ASSUME NEW st, NEW sp, QueuesIn(st, sp)', NEW x \in Things
    PROVE  Queued(x)' <=> st[x] \in {"external", "deque"}
<1>1. st[x] = "external" <=> x \in ToSet(external')
    BY DEF QueuesIn
<1>2. st[x] = "deque" <=> \E w \in Workers : x \in ToSet(deque'[w])
    BY DEF QueuesIn
<1> QED BY <1>1, <1>2 DEF Queued

\* What is queued by a step was queued before, or was not submitted.
LEMMA TakenQueued ==
    ASSUME StateTypeOK, Accounted, NEW x \in Tasks, TakenFromQueue(x)
    PROVE  Queued(x) /\ ~ Over(x) /\ x \in submitted /\ \A y \in Tasks : Queued(y)' => Queued(y)
<1>1. PICK st, sp, tk, tp, at : Account(st, sp, tk, tp, at)
    BY DEF Accounted
<1>2. x \in Things /\ QueuesIn(st, sp) /\ \A y \in Tasks : y \in Things /\ y \in Results
    BY <1>1 DEF Account, Things, Results
<1>3. PICK seat : seat = <<0, 1>>
    OBVIOUS
<1>4. seat[2] # 0
    BY <1>3
<1>5. PICK w0 \in Workers : TRUE
    BY PoolAssumption
<1>6. PICK D \in SUBSET Tasks, w \in Workers : QueueTaken(x, seat, st, sp, D, w)
    <2>1. CASE TakesShared(x)
        BY <1>2, <1>4, <1>5, <2>1, SharedTaken
    <2>2. CASE \E w \in Workers : TakesShare(x, w)
        BY <1>2, <1>4, <2>2, ShareTaken
    <2>3. CASE \E v \in Workers : TakesFrom(x, v)
        BY <1>2, <1>4, <2>3, DequeTaken
    <2> QED BY <2>1, <2>2, <2>3 DEF TakenFromQueue
<1>7. PICK st1, sp1 : st1 = TakenSt(st, x, D) /\ sp1 = TakenSp(sp, x, seat, D, w)
    OBVIOUS
<1>8. st[x] \in {"external", "deque"} /\ (\A y \in D : st[y] = "external") /\ QueuesIn(st1, sp1)'
    BY <1>6, <1>7 DEF QueueTaken
<1>9. \A y \in Things : st1[y] \in {"external", "deque"} => st[y] \in {"external", "deque"}
    BY <1>7, <1>8 DEF TakenSt
<1>10. \A y \in Tasks : Queued(y)' <=> st1[y] \in {"external", "deque"}
    BY <1>2, <1>8, QueuedNext
<1>11. \A y \in Tasks : Queued(y) <=> st[y] \in {"external", "deque"}
    BY <1>2, QueuedStage
<1>12. ~ Over(x) /\ x \in submitted
    <2>1. StagesIn(st, tk) /\ x \in Results
        BY <1>1, <1>2 DEF Account
    <2>2. st[x] = "over" <=> Over(x)
        BY <2>1 DEF StagesIn
    <2>3. st[x] \in {"external", "deque"} => x \in submitted
        BY <2>1 DEF StagesIn
    <2>4. ~ Over(x)
        BY <1>8, <2>2 DEF Over
    <2> QED BY <1>8, <2>3, <2>4
<1>13. ASSUME NEW y \in Tasks, Queued(y)' PROVE Queued(y)
    <2>1. st1[y] \in {"external", "deque"}
        BY <1>10, <1>13
    <2>2. st[y] \in {"external", "deque"}
        BY <1>2, <1>9, <2>1
    <2> QED BY <1>11, <2>2
<1>14. Queued(x)
    BY <1>8, <1>11
<1> QED BY <1>12, <1>13, <1>14

LEMMA PutQueued ==
    ASSUME StateTypeOK, Accounted, NEW t \in Threads, NEW tasks \in Seq(Tasks), IsInjective(tasks), Put(t, tasks),
           NEW st, NEW sp, QueuesIn(st, sp), \A x \in ToSet(tasks) : st[x] = "new" /\ x \notin submitted
    PROVE  \A y \in Tasks : Queued(y)' => Queued(y) \/ y \notin submitted
<1>1. PICK D, st1, sp1 : D = ToSet(tasks) /\ st1 = PutSt(st, D, t) /\ sp1 = PutSp(sp, D, t)
    OBVIOUS
<1>2. QueuesIn(st1, sp1)'
    BY <1>1, PutQueues
<1>3. \A y \in Tasks : y \in Things
    BY DEF Things, Results
<1>4. \A y \in Tasks : Queued(y)' <=> st1[y] \in {"external", "deque"}
    BY <1>2, <1>3, QueuedNext
<1>5. \A y \in Tasks : Queued(y) <=> st[y] \in {"external", "deque"}
    BY <1>3, QueuedStage
<1>6. \A y \in Things : y \notin D => st1[y] = st[y]
    BY <1>1 DEF PutSt
<1> QED BY <1>1, <1>3, <1>4, <1>5, <1>6

LEMMA SubmitQueued ==
    ASSUME StateTypeOK, Accounted, NEW t \in Threads, Submit(t)
    PROVE  \A y \in Tasks : Queued(y)' => Queued(y) \/ y \notin submitted
<1>1. PICK st, sp, tk, tp, at : Account(st, sp, tk, tp, at)
    BY DEF Accounted
<1>2. PICK op \in {"submit", "batch"} : Does(t, op)
    BY DEF Submit
<1>3. /\ In(t, "body") /\ Top(t).of \in Owners /\ Op(t).op \in {"submit", "batch"}
      /\ Top(t).next \in DOMAIN Body[Top(t).of] /\ Op(t) = Body[Top(t).of][Top(t).next]
    BY <1>2, OpFacts DEF StateTypeOK
<1>4. PICK tasks : tasks = Op(t).tasks
    OBVIOUS
<1>5. tasks \in Seq(Tasks) /\ Put(t, tasks)
    BY <1>4, SubmitStacked DEF Submit
<1>6. IsInjective(tasks)
    BY <1>3, <1>4, PoolAssumption
<1>7. PICK y, n : y = Top(t).of /\ n = Top(t).next
    OBVIOUS
<1>8. at[y] = n
    <2>1. Busy(t) /\ Top(t).op = "body"
        BY <1>3 DEF In
    <2>2. FrameIn(Top(t), t, Len(calls[t]), st, sp, tk, tp, at)
        BY <1>1, <2>1, TopSeat
    <2> QED BY <1>7, <2>1, <2>2 DEF FrameIn
<1>9. ASSUME NEW x \in ToSet(tasks) PROVE st[x] = "new" /\ x \notin submitted
    <2>1. x \in Tasks
        BY <1>5, <1>9, ElementOfSeq, LenProperties DEF ToSet
    <2>2. Submits(Body[y][n], x) /\ y \in Owners /\ n \in DOMAIN Body[y]
        BY <1>3, <1>4, <1>7, <1>9 DEF Submits
    <2>3. n \in Nat
        BY <1>1, <1>8, <2>2 DEF Account, AccountTypeOK
    <2>4. st[x] = "new"
        BY <1>1, <1>8, <2>1, <2>2, <2>3 DEF Account, AheadIn
    <2> QED BY <1>1, <2>1, <2>4 DEF Account, StagesIn
<1>10. QueuesIn(st, sp)
    BY <1>1 DEF Account
<1> QED BY <1>5, <1>6, <1>9, <1>10, PutQueued

LEMMA FireQueued ==
    ASSUME StateTypeOK, Accounted, NEW t \in Threads, Fire(t)
    PROVE  \A y \in Tasks : Queued(y)' => Queued(y) \/ y \notin submitted
<1>1. PICK st, sp, tk, tp, at : Account(st, sp, tk, tp, at)
    BY DEF Accounted
<1>2. PICK r, left, x : FireAt(t, r, left, x)
    BY DEF FireAt, Fire
<1>3. CASE UNCHANGED <<external, deque>>
    BY <1>3 DEF Queued
<1>4. CASE x \in Tasks /\ Put(t, <<x>>)
    <2>1. st[x] = "new" /\ x \notin submitted /\ QueuesIn(st, sp)
        BY <1>1, <1>2, <1>4, FireTask DEF Account
    <2>2. PICK tasks : tasks = <<x>>
        OBVIOUS
    <2>3. tasks \in Seq(Tasks) /\ IsInjective(tasks) /\ ToSet(tasks) = {x} /\ Put(t, tasks)
        BY <1>4, <2>2 DEF IsInjective, ToSet
    <2> QED BY <2>1, <2>3, PutQueued
<1> QED BY <1>2, <1>3, <1>4 DEF Fire, FireAt, CountDown, Continue, queues

\* A chunk is a task that reads and then writes, and no other body writes.
LEMMA ChunkFacts ==
    ASSUME ChunksPlain
    PROVE  /\ \A x \in Chunks : /\ x \in Tasks /\ x \in Owners /\ x \in Results /\ x \notin Callers
                                /\ DOMAIN Body[x] = {1, 2} /\ Len(Body[x]) = 2
                                /\ Body[x][1].op = "read" /\ Body[x][2].op = "write"
           /\ \A y \in Owners : \A n \in DOMAIN Body[y] : Body[y][n].op = "write" => y \in Chunks
<1>1. ASSUME NEW x \in Chunks
      PROVE  /\ x \in Tasks /\ x \in Owners /\ x \in Results /\ x \notin Callers
             /\ DOMAIN Body[x] = {1, 2} /\ Len(Body[x]) = 2
             /\ Body[x][1].op = "read" /\ Body[x][2].op = "write"
    <2>1. x \in Tasks /\ x \in Owners /\ x \in Results /\ x \notin Callers
        BY PoolAssumption DEF Chunks, Owners, Results
    <2>2. Body[x] = <<[op |-> "read"], [op |-> "write"]>>
        BY DEF ChunksPlain
    <2>3. DOMAIN Body[x] = {1, 2} /\ Len(Body[x]) = 2
        BY <2>2
    <2> QED BY <2>1, <2>2, <2>3
<1>2. ASSUME NEW y \in Owners, NEW n \in DOMAIN Body[y], Body[y][n].op = "write" PROVE y \in Chunks
    BY <1>2, PoolAssumption DEF Owners, Chunks
<1> QED BY <1>1, <1>2

LEMMA FrameStill ==
    ASSUME UNCHANGED acc, NEW f, NEW t, NEW a \in BOOLEAN, NEW b \in BOOLEAN, a => b, FrameAdds(f, t, a)
    PROVE  FrameAdds(f, t, b)'
<1>1. Added(f.of)' <=> Added(f.of)
    BY DEF Added
<1> QED BY <1>1 DEF FrameAdds

\* A step of thread t that replaces its innermost frame, or calls from the loop.
LEMMA FramesAddStep ==
    ASSUME StateTypeOK, FramesAdd, UNCHANGED acc, NEW t \in Threads, NEW base, NEW fs \in Seq(Frame),
           Stacked(t, base, fs), base < Len(calls[t]) \/ base = 0,
           \A k \in 1 .. Len(fs) : FrameAdds(fs[k], t, k = Len(fs))
    PROVE  FramesAdd'
<1>1. /\ base \in Nat /\ base <= Len(calls[t]) /\ Len(fs) \in Nat
      /\ calls' \in [Threads -> Seq(Frame)]
      /\ \A u \in Threads \ {t} : calls'[u] = calls[u]
      /\ DOMAIN calls'[t] = 1 .. (base + Len(fs))
      /\ \A n \in 1 .. base : n \in DOMAIN calls[t] /\ calls'[t][n] = calls[t][n]
      /\ \A k \in 1 .. Len(fs) : calls'[t][base + k] = fs[k]
    BY DEF Stacked
<1>2. Len(calls'[t]) = base + Len(fs)
    <2>1. Len(calls'[t]) \in Nat /\ DOMAIN calls'[t] = 1 .. Len(calls'[t])
        BY <1>1, LenProperties
    <2> QED BY <1>1, <2>1
<1>3. PICK k0 \in Nat : k0 = Len(fs)
    BY <1>1
<1>4. PICK l0 \in Nat : l0 = Len(calls[t])
    <2>1. Len(calls[t]) \in Nat
        BY LenProperties DEF StateTypeOK
    <2> QED BY <2>1
<1>5. ASSUME NEW u \in Threads \ {t}, NEW n \in DOMAIN calls'[u]
      PROVE  FrameAdds(calls[u][n], u, n = Len(calls[u]))'
    <2>1. n \in DOMAIN calls[u] /\ calls'[u] = calls[u]
        BY <1>1, <1>5
    <2>2. PICK b \in BOOLEAN : b = (n = Len(calls[u]))
        OBVIOUS
    <2>3. PICK f : f = calls[u][n]
        OBVIOUS
    <2>4. FrameAdds(f, u, b)
        BY <2>1, <2>2, <2>3 DEF FramesAdd
    <2>5. FrameAdds(f, u, b)'
        BY <2>4, FrameStill
    <2> QED BY <2>1, <2>2, <2>3, <2>5
<1>6. ASSUME NEW n \in DOMAIN calls'[t]
      PROVE  FrameAdds(calls[t][n], t, n = Len(calls[t]))'
    <2>1. n \in 1 .. (base + k0)
        BY <1>1, <1>3, <1>6
    <2>0. PICK c \in BOOLEAN : c = (n = base + k0)
        OBVIOUS
    <2>2. PICK f : f = calls'[t][n]
        OBVIOUS
    <2>3. CASE n \in 1 .. base
        <3>1. n \in DOMAIN calls[t] /\ f = calls[t][n] /\ n # l0
            <4>1. base >= 1
                BY <1>1, <2>3
            <4>2. base < l0
                BY <1>1, <1>4, <4>1
            <4> QED BY <1>1, <2>2, <2>3, <4>2
        <3>2. FrameAdds(calls[t][n], t, n = Len(calls[t]))
            BY <3>1 DEF FramesAdd
        <3>3. FrameAdds(f, t, FALSE)
            BY <1>4, <3>1, <3>2
        <3>4. FrameAdds(f, t, c)'
            BY <3>3, FrameStill
        <3> QED BY <1>2, <1>3, <2>0, <2>2, <3>4
    <2>4. CASE n \notin 1 .. base
        <3>1. PICK k \in 1 .. k0 : n = base + k
            <4>1. n - base \in 1 .. k0 /\ n = base + (n - base)
                BY <1>1, <2>1, <2>4
            <4> QED BY <4>1
        <3>2. f = fs[k] /\ k \in 1 .. Len(fs) /\ (c <=> k = k0)
            <4>1. f = fs[k] /\ k \in 1 .. Len(fs)
                BY <1>1, <1>3, <2>2, <3>1
            <4>2. n = base + k0 <=> k = k0
                BY <1>1, <3>1
            <4> QED BY <2>0, <4>1, <4>2
        <3>3. FrameAdds(fs[k], t, k = Len(fs))
            BY <3>2
        <3>4. PICK d \in BOOLEAN : d = (k = Len(fs))
            OBVIOUS
        <3>5. FrameAdds(f, t, d) /\ d = c
            BY <1>3, <3>2, <3>3, <3>4
        <3>6. FrameAdds(f, t, c)'
            BY <3>5, FrameStill
        <3> QED BY <1>2, <1>3, <2>0, <2>2, <3>6
    <2> QED BY <2>3, <2>4
<1> QED BY <1>5, <1>6 DEF FramesAdd

LEMMA CallsStay ==
    ASSUME FramesAdd, UNCHANGED <<acc, calls>>
    PROVE  FramesAdd'
<1>1. ASSUME NEW t \in Threads, NEW n \in DOMAIN calls'[t] PROVE FrameAdds(calls[t][n], t, n = Len(calls[t]))'
    <2>1. PICK b \in BOOLEAN : b = (n = Len(calls[t]))
        OBVIOUS
    <2>2. PICK f : f = calls[t][n]
        OBVIOUS
    <2>3. FrameAdds(f, t, b)
        BY <1>1, <2>1, <2>2 DEF FramesAdd
    <2>4. FrameAdds(f, t, b)'
        BY <2>3, FrameStill
    <2> QED BY <2>1, <2>2, <2>4
<1> QED BY <1>1 DEF FramesAdd

LEMMA TopAdds ==
    ASSUME StateTypeOK, FramesAdd, NEW t \in Threads, Busy(t)
    PROVE  /\ FrameAdds(Top(t), t, TRUE) /\ Top(t) \in Frame
           /\ Len(calls[t]) \in DOMAIN calls[t] /\ Len(calls[t]) \in Nat /\ Len(calls[t]) - 1 < Len(calls[t])
<1>1. In(t, Top(t).op)
    BY DEF In
<1>2. Len(calls[t]) \in DOMAIN calls[t] /\ Top(t) = calls[t][Len(calls[t])] /\ Top(t) \in Frame /\ Len(calls[t]) \in Nat
    BY <1>1, TopFrame DEF StateTypeOK
<1>3. PICK n : n = Len(calls[t])
    OBVIOUS
<1>4. PICK b \in BOOLEAN : b = (n = Len(calls[t]))
    OBVIOUS
<1>5. FrameAdds(calls[t][n], t, TRUE)
    <2>1. FrameAdds(calls[t][n], t, b)
        BY <1>2, <1>3, <1>4 DEF FramesAdd
    <2>2. b
        BY <1>3, <1>4
    <2> QED BY <2>1, <2>2 DEF FrameAdds
<1>6. FrameAdds(Top(t), t, TRUE)
    <2>1. Top(t) = calls[t][n]
        BY <1>2, <1>3
    <2> QED BY <1>5, <2>1
<1>7. Len(calls[t]) - 1 < Len(calls[t])
    BY <1>2
<1> QED BY <1>2, <1>6, <1>7

\* The frames that end up in place of the innermost one: none, one or two.
LEMMA NoneAdds ==
    ASSUME StateTypeOK, FramesAdd, UNCHANGED acc, NEW t \in Threads, Busy(t), Stacked(t, Len(calls[t]) - 1, <<>>)
    PROVE  FramesAdd'
<1>1. PICK base : base = Len(calls[t]) - 1
    OBVIOUS
<1>2. Stacked(t, base, <<>>) /\ base < Len(calls[t])
    BY <1>1, TopAdds
<1>3. PICK fs \in Seq(Frame) : fs = <<>>
    BY FrameSets
<1>4. Stacked(t, base, fs) /\ \A k \in 1 .. Len(fs) : FrameAdds(fs[k], t, k = Len(fs))
    BY <1>2, <1>3
<1> QED BY <1>2, <1>4, FramesAddStep

LEMMA OneAdds ==
    ASSUME StateTypeOK, FramesAdd, UNCHANGED acc, NEW t \in Threads, Busy(t), NEW f \in Frame,
           Stacked(t, Len(calls[t]) - 1, <<f>>), FrameAdds(f, t, TRUE)
    PROVE  FramesAdd'
<1>1. PICK base : base = Len(calls[t]) - 1
    OBVIOUS
<1>2. Stacked(t, base, <<f>>) /\ base < Len(calls[t])
    BY <1>1, TopAdds
<1>3. PICK fs \in Seq(Frame) : fs = <<f>>
    BY FrameSets
<1>4. Stacked(t, base, fs) /\ Len(fs) = 1 /\ fs[1] = f
    BY <1>2, <1>3, FrameSets
<1>5. ASSUME NEW k \in 1 .. Len(fs) PROVE FrameAdds(fs[k], t, k = Len(fs))
    <2>1. k = 1 /\ (k = Len(fs)) = TRUE
        BY <1>4
    <2> QED BY <1>4, <2>1
<1> QED BY <1>2, <1>4, <1>5, FramesAddStep

LEMMA TwoAdds ==
    ASSUME StateTypeOK, FramesAdd, UNCHANGED acc, NEW t \in Threads, Busy(t), NEW f \in Frame, NEW g \in Frame,
           Stacked(t, Len(calls[t]) - 1, <<f, g>>), FrameAdds(f, t, FALSE), FrameAdds(g, t, TRUE)
    PROVE  FramesAdd'
<1>1. PICK base : base = Len(calls[t]) - 1
    OBVIOUS
<1>2. Stacked(t, base, <<f, g>>) /\ base < Len(calls[t])
    BY <1>1, TopAdds
<1>3. PICK fs \in Seq(Frame) : fs = <<f, g>>
    BY FrameSets
<1>4. Stacked(t, base, fs) /\ Len(fs) = 2 /\ fs[1] = f /\ fs[2] = g
    BY <1>2, <1>3, FrameSets
<1>5. ASSUME NEW k \in 1 .. Len(fs) PROVE FrameAdds(fs[k], t, k = Len(fs))
    <2>1. CASE k = 1
        <3>1. (k = Len(fs)) = FALSE
            BY <1>4, <2>1
        <3> QED BY <1>4, <2>1, <3>1
    <2>2. CASE k = 2
        <3>1. (k = Len(fs)) = TRUE
            BY <1>4, <2>2
        <3> QED BY <1>4, <2>2, <3>1
    <2> QED BY <1>4, <2>1, <2>2
<1> QED BY <1>2, <1>4, <1>5, FramesAddStep

\* A frame of a body goes on past an operation that is not one of a chunk's.
LEMMA AdvancedAdds ==
    ASSUME StateTypeOK, FramesAdd, ChunksPlain, NEW t \in Threads, NEW op, Does(t, op), op \notin {"read", "write"}
    PROVE  Busy(t) /\ Advanced(t) \in Frame /\ FrameAdds(Advanced(t), t, FALSE) /\ FrameAdds(Advanced(t), t, TRUE)
<1>1. /\ In(t, "body") /\ Top(t).of \in Owners /\ Top(t).next \in DOMAIN Body[Top(t).of]
      /\ Body[Top(t).of][Top(t).next].op = op /\ Advanced(t) \in Frame
      /\ Advanced(t).op = "body" /\ Advanced(t).of = Top(t).of
    BY OpFacts, FrameSets DEF StateTypeOK
<1>2. Busy(t) /\ Top(t).op = "body" /\ FrameAdds(Top(t), t, TRUE)
    BY <1>1, TopAdds DEF In
<1>3. Top(t).of \notin Chunks
    BY <1>1, ChunkFacts
<1> QED BY <1>1, <1>2, <1>3 DEF FrameAdds

\* The frames of the handlers, the wake-ups and the exceptions add nothing.
LEMMA OtherAdds ==
    ASSUME NEW t
    PROVE  /\ \A r, left : \A b \in BOOLEAN : FrameAdds(Firing(r, left), t, b)
           /\ \A all : \A b \in BOOLEAN : FrameAdds(Notifying(all), t, b)
           /\ \A r : \A b \in BOOLEAN : FrameAdds(Setting(r, "error"), t, b)
           /\ \A r \in Joins : \A how : \A b \in BOOLEAN : FrameAdds(Setting(r, how), t, b)
BY PoolAssumption DEF FrameAdds, Firing, Notifying, Setting

LEMMA FiredAdds ==
    ASSUME StateTypeOK, FramesAdd, UNCHANGED acc, NEW t \in Threads, In(t, "fire"), NEW frames,
           FiredFirst(t, frames), frames = <<>> \/ \E g \in Frame : frames = <<g>> /\ FrameAdds(g, t, TRUE)
    PROVE  FramesAdd'
<1>1. Busy(t) /\ Top(t).of \in Results /\ Tail(Top(t).left) \in Seq(Results)
    BY FireFacts DEF In, StateTypeOK
<1>2. PICK rest, r : rest = Tail(Top(t).left) /\ r = Top(t).of
    OBVIOUS
<1>3. Return(t, (IF rest = <<>> THEN <<>> ELSE <<Firing(r, rest)>>) \o frames)
    BY <1>2 DEF FiredFirst
<1>4. rest # <<>> => Firing(r, rest) \in Frame /\ FrameAdds(Firing(r, rest), t, FALSE) /\ FrameAdds(Firing(r, rest), t, TRUE)
    BY <1>1, <1>2, NewFrames, FrameSets, OtherAdds
<1>5. calls \in [Threads -> Seq(Frame)]
    BY DEF StateTypeOK
<1>6. CASE rest = <<>> /\ frames = <<>>
    <2>1. Return(t, <<>>)
        BY <1>3, <1>6
    <2>2. Stacked(t, Len(calls[t]) - 1, <<>>)
        BY <1>1, <1>5, <2>1, ReturnStacked, FrameSets
    <2> QED BY <1>1, <2>2, NoneAdds
<1>7. CASE rest # <<>> /\ frames = <<>>
    <2>1. PICK f \in Frame : f = Firing(r, rest)
        BY <1>4, <1>7
    <2>2. Return(t, <<f>>) /\ FrameAdds(f, t, TRUE)
        <3>1. <<f>> \o <<>> = <<f>>
            OBVIOUS
        <3>2. Return(t, <<f>> \o <<>>)
            BY <1>3, <1>7, <2>1
        <3> QED BY <1>4, <1>7, <2>1, <3>1, <3>2
    <2>3. Stacked(t, Len(calls[t]) - 1, <<f>>)
        BY <1>1, <1>5, <2>2, ReturnStacked, FrameSets
    <2> QED BY <1>1, <2>2, <2>3, OneAdds
<1>8. ASSUME NEW g \in Frame, frames = <<g>>, FrameAdds(g, t, TRUE) PROVE FramesAdd'
    <2>1. CASE rest = <<>>
        <3>1. Return(t, <<g>>)
            BY <1>3, <1>8, <2>1
        <3>2. Stacked(t, Len(calls[t]) - 1, <<g>>)
            BY <1>1, <1>5, <3>1, ReturnStacked, FrameSets
        <3> QED BY <1>1, <1>8, <3>2, OneAdds
    <2>2. CASE rest # <<>>
        <3>1. PICK f \in Frame : f = Firing(r, rest)
            BY <1>4, <2>2
        <3>2. Return(t, <<f, g>>) /\ FrameAdds(f, t, FALSE)
            <4>1. <<f>> \o <<g>> = <<f, g>>
                <5>1. PICK fs, gs : fs = <<f>> /\ gs = <<g>>
                    OBVIOUS
                <5>2. fs \in Seq(Frame) /\ gs \in Seq(Frame) /\ Len(fs) = 1 /\ Len(gs) = 1 /\ fs[1] = f /\ gs[1] = g
                    BY <5>1, FrameSets
                <5>3. fs \o gs \in Seq(Frame) /\ Len(fs \o gs) = 2 /\ (fs \o gs)[1] = f /\ (fs \o gs)[2] = g
                    BY <5>2, ConcatProperties
                <5>4. PICK h \in Seq(Frame) : h = fs \o gs
                    BY <5>3
                <5>5. Len(h) = 2 /\ h[1] = f /\ h[2] = g
                    BY <5>3, <5>4
                <5>6. h = <<f, g>>
                    BY <5>5
                <5> QED BY <5>1, <5>4, <5>6
            <4>2. Return(t, <<f>> \o <<g>>)
                BY <1>3, <1>8, <2>2, <3>1
            <4> QED BY <1>4, <2>2, <3>1, <4>1, <4>2
        <3>3. Stacked(t, Len(calls[t]) - 1, <<f, g>>)
            BY <1>1, <1>5, <3>2, ReturnStacked, FrameSets
        <3> QED BY <1>1, <1>8, <3>2, <3>3, TwoAdds
    <2> QED BY <2>1, <2>2
<1> QED BY <1>6, <1>7, <1>8

LEMMA SettledAdds ==
    ASSUME StateTypeOK, FramesAdd, UNCHANGED acc, NEW t \in Threads, Busy(t), NEW r \in Results,
           NEW how \in {"ok", "error"}, Settle(t, r, how)
    PROVE  FramesAdd'
<1>1. handlers[r] \in Seq(Results)
    BY DEF StateTypeOK
<1>2. Stacked(t, Len(calls[t]) - 1, IF handlers[r] = <<>> THEN <<>> ELSE <<Firing(r, handlers[r])>>)
    BY SettleStacked
<1>3. CASE handlers[r] = <<>>
    <2>1. Stacked(t, Len(calls[t]) - 1, <<>>)
        BY <1>2, <1>3
    <2> QED BY <2>1, NoneAdds
<1>4. CASE handlers[r] # <<>>
    <2>1. PICK f \in Frame : f = Firing(r, handlers[r]) /\ FrameAdds(f, t, TRUE)
        BY <1>1, <1>4, NewFrames, FrameSets, OtherAdds
    <2>2. Stacked(t, Len(calls[t]) - 1, <<f>>)
        BY <1>2, <1>4, <2>1
    <2> QED BY <2>1, <2>2, OneAdds
<1> QED BY <1>3, <1>4

\* The steps of a body that are not its end and not an access to a slot.
LEMMA BodyAdds ==
    ASSUME StateTypeOK, FramesAdd, ChunksPlain, NEW t \in Threads,
           Submit(t) \/ OnComplete(t) \/ Wait(t) \/ StartHelping(t) \/ JoinCallers(t) \/ JoinWorkers(t)
    PROVE  FramesAdd'
<1>0. UNCHANGED acc
    BY DEF Submit, OnComplete, Wait, StartHelping, JoinCallers, JoinWorkers
<1>1. PICK op : Does(t, op) /\ op \notin {"read", "write"}
    BY DEF Submit, OnComplete, Wait, StartHelping, JoinCallers, JoinWorkers
<1>2. PICK f \in Frame : f = Advanced(t) /\ FrameAdds(f, t, FALSE) /\ FrameAdds(f, t, TRUE)
    BY <1>1, AdvancedAdds
<1>3. Busy(t)
    BY <1>1, AdvancedAdds
<1>4. CASE Stacked(t, Len(calls[t]) - 1, <<Advanced(t)>>)
    <2>1. Stacked(t, Len(calls[t]) - 1, <<f>>)
        BY <1>2, <1>4
    <2> QED BY <1>0, <1>2, <1>3, <2>1, OneAdds
<1>5. ASSUME NEW g \in Frame, Stacked(t, Len(calls[t]) - 1, <<Advanced(t), g>>), FrameAdds(g, t, TRUE)
      PROVE  FramesAdd'
    <2>1. Stacked(t, Len(calls[t]) - 1, <<f, g>>)
        BY <1>2, <1>5
    <2> QED BY <1>0, <1>2, <1>3, <1>5, <2>1, TwoAdds
<1>6. CASE Submit(t)
    <2>1. PICK all \in BOOLEAN : all = (Op(t).op = "batch")
        OBVIOUS
    <2>2. Notifying(all) \in Frame /\ FrameAdds(Notifying(all), t, TRUE)
        BY NewFrames, FrameSets, OtherAdds
    <2>3. Stacked(t, Len(calls[t]) - 1, <<Advanced(t), Notifying(all)>>)
        BY <1>6, <2>1, SubmitStacked
    <2> QED BY <1>5, <2>2, <2>3
<1>7. CASE OnComplete(t)
    <2>1. Op(t).on \in Results /\ <<Op(t).run>> \in Seq(Results) \ {<<>>}
        <3>1. Op(t).on \in Results /\ Op(t).run \in Results
            BY <1>7, OnCompleteStacked
        <3> QED BY <3>1
    <2>2. Firing(Op(t).on, <<Op(t).run>>) \in Frame /\ FrameAdds(Firing(Op(t).on, <<Op(t).run>>), t, TRUE)
        BY <2>1, NewFrames, FrameSets, OtherAdds
    <2> QED BY <1>4, <1>5, <1>7, <2>2, OnCompleteStacked
<1>8. CASE Wait(t)
    <2>1. ASSUME Top(t).of \in Tasks, Stacked(t, Len(calls[t]) - 1, <<Setting(Top(t).of, "error")>>) PROVE FramesAdd'
        <3>1. PICK g \in Frame : g = Setting(Top(t).of, "error") /\ FrameAdds(g, t, TRUE)
            BY <2>1, NewFrames, FrameSets, OtherAdds DEF Results
        <3>2. Stacked(t, Len(calls[t]) - 1, <<g>>)
            BY <2>1, <3>1
        <3> QED BY <1>0, <1>3, <3>1, <3>2, OneAdds
    <2> QED BY <1>4, <1>8, <2>1, WaitStacked
<1>9. CASE StartHelping(t)
    <2>1. /\ In(t, "body") /\ Top(t).of \in Owners /\ Top(t).next \in DOMAIN Body[Top(t).of]
          /\ Op(t) \in Operation /\ Op(t).op = "help" /\ Op(t) = Body[Top(t).of][Top(t).next]
        BY <1>9, OpFacts DEF StateTypeOK, StartHelping
    <2>2. PICK g \in Frame : g = Helping(Op(t).on)
        BY <2>1, Operations, NewFrames, FrameSets
    <2>3. FrameAdds(Top(t), t, TRUE) /\ Top(t).op = "body"
        BY <1>3, <2>1, TopAdds DEF In
    <2>4. t \in Callers => Helper(t)
        <3>1. CASE Top(t).of \in Tasks
            BY <2>3, <3>1 DEF FrameAdds
        <3>2. CASE Top(t).of \in Callers
            <4>1. Top(t).of = t
                BY <2>3, <3>2 DEF FrameAdds
            <4> QED BY <2>1, <4>1 DEF Helper
        <3> QED BY <2>1, <3>1, <3>2 DEF Owners
    <2>5. FrameAdds(g, t, TRUE)
        BY <2>2, <2>4 DEF FrameAdds, Helping
    <2>6. Stacked(t, Len(calls[t]) - 1, <<Advanced(t), g>>)
        <3>1. Return(t, <<f, g>>)
            BY <1>2, <1>9, <2>2 DEF StartHelping
        <3>2. Stacked(t, Len(calls[t]) - 1, <<f, g>>)
            BY <1>3, <3>1, ReturnStacked, FrameSets DEF StateTypeOK
        <3> QED BY <1>2, <3>2
    <2> QED BY <1>5, <2>5, <2>6
<1>10. CASE JoinCallers(t) \/ JoinWorkers(t)
    <2>1. Return(t, <<f>>)
        BY <1>2, <1>10 DEF JoinCallers, JoinWorkers
    <2>2. Stacked(t, Len(calls[t]) - 1, <<f>>)
        BY <1>3, <2>1, ReturnStacked, FrameSets DEF StateTypeOK
    <2> QED BY <1>2, <1>4, <2>2
<1> QED BY <1>6, <1>7, <1>8, <1>9, <1>10

LEMMA FireAdds ==
    ASSUME StateTypeOK, FramesAdd, NEW t \in Threads, Fire(t)
    PROVE  FramesAdd'
<1>1. PICK x : x = Head(Top(t).left)
    OBVIOUS
<1>2. In(t, "fire") /\ x \in Results /\ (CountDown(t, x) \/ Continue(t, x)) /\ UNCHANGED acc
    BY <1>1, FireSteps DEF Fire
<1>3. ASSUME NEW g \in Frame, FiredFirst(t, <<g>>), FrameAdds(g, t, TRUE) PROVE FramesAdd'
    <2>1. PICK frames : frames = <<g>>
        OBVIOUS
    <2>2. FiredFirst(t, frames)
        BY <1>3, <2>1
    <2> QED BY <1>2, <1>3, <2>1, <2>2, FiredAdds
<1>4. ASSUME FiredFirst(t, <<>>) PROVE FramesAdd'
    BY <1>2, <1>4, FiredAdds
<1>5. Setting(x, "ok") \in Frame /\ Setting(x, "error") \in Frame /\ Notifying(FALSE) \in Frame
    BY <1>2, NewFrames, FrameSets
<1>6. /\ FrameAdds(Setting(x, "error"), t, TRUE) /\ FrameAdds(Notifying(FALSE), t, TRUE)
      /\ x \in Joins => FrameAdds(Setting(x, "ok"), t, TRUE)
    BY OtherAdds
<1>7. CASE CountDown(t, x)
    <2>1. \/ FiredFirst(t, <<>>)
          \/ FiredFirst(t, <<Setting(x, "ok")>>)
          \/ FiredFirst(t, <<Setting(x, "error")>>)
        BY <1>7 DEF CountDown
    <2> QED BY <1>3, <1>4, <1>5, <1>6, <1>7, <2>1 DEF CountDown
<1>8. CASE Continue(t, x)
    <2>1. FiredFirst(t, <<Notifying(FALSE)>>) \/ FiredFirst(t, <<Setting(x, "error")>>)
        BY <1>8 DEF Continue
    <2> QED BY <1>3, <1>5, <1>6, <2>1
<1> QED BY <1>2, <1>7, <1>8

\* A task that is taken has added nothing, and who takes it in a loop for helpers is
\* a worker or a helper.
LEMMA TakenAdds ==
    ASSUME StateTypeOK, Accounted, Reduction, NEW t \in Threads, NEW x \in Tasks, TakenFromQueue(x),
           t \in Callers => Helper(t)
    PROVE  BodyOf(x) \in Frame /\ \A b \in BOOLEAN : FrameAdds(BodyOf(x), t, b)
<1>1. BodyOf(x) \in Frame /\ x \notin Callers
    BY NewFrames, FrameSets, PoolAssumption DEF Owners, Results
<1>2. Queued(x)
    BY TakenQueued
<1>3. x \in Chunks => ~ Added(x)
    BY <1>2 DEF Reduction
<1>4. ASSUME NEW b \in BOOLEAN PROVE FrameAdds(BodyOf(x), t, b)
    BY <1>1, <1>3 DEF FrameAdds, BodyOf
<1> QED BY <1>1, <1>4

\* The steps of the loop of a worker, and those inside of help_until().
LEMMA LoopAdds ==
    ASSUME StateTypeOK, Accounted, Reduction, NEW w \in Workers, Loop(w) \/ Steal(w)
    PROVE  FramesAdd'
<1>1. w \in Threads /\ w \notin Callers
    BY PoolAssumption DEF Threads
<1>2. FramesAdd /\ UNCHANGED acc
    BY DEF Reduction, Loop, PopOwn, TakeExternal, Park, Timeout, Exit, Steal, StealFrom
<1>3. ASSUME NEW x \in Tasks, TakenFromQueue(x), Call(w, BodyOf(x)), ~ Busy(w) PROVE FramesAdd'
    <2>1. PICK f \in Frame : f = BodyOf(x) /\ FrameAdds(f, w, TRUE)
        BY <1>1, <1>3, TakenAdds
    <2>2. Call(w, f)
        BY <1>3, <2>1
    <2>3. Stacked(w, Len(calls[w]), <<f>>)
        BY <1>1, <2>2, CallStacked DEF StateTypeOK
    <2>4. Len(calls[w]) = 0
        BY <1>3 DEF Busy
    <2>5. PICK fs \in Seq(Frame) : fs = <<f>>
        BY FrameSets
    <2>6. Len(fs) = 1 /\ fs[1] = f
        BY <2>5, FrameSets
    <2>7. ASSUME NEW k \in 1 .. Len(fs) PROVE FrameAdds(fs[k], w, k = Len(fs))
        <3>1. k = 1 /\ (k = Len(fs)) = TRUE
            BY <2>6
        <3> QED BY <2>1, <2>6, <3>1
    <2>8. PICK base : base = 0
        OBVIOUS
    <2>9. Stacked(w, base, fs)
        BY <2>3, <2>4, <2>5, <2>8
    <2> QED BY <1>1, <1>2, <2>7, <2>8, <2>9, FramesAddStep
<1>4. CASE UNCHANGED calls
    BY <1>2, <1>4, CallsStay
<1>5. CASE PopOwn(w) /\ deque[w] # <<>>
    <2>1. Last(deque[w]) \in Tasks /\ TakesFrom(Last(deque[w]), w)
        BY <1>5, QueueHeads DEF PopOwn, TakesFrom
    <2> QED BY <1>3, <1>5, <2>1 DEF PopOwn, At, TakenFromQueue
<1>6. CASE TakeExternal(w) /\ external # <<>>
    <2>1. Head(external) \in Tasks /\ TakesShare(Head(external), w)
        BY <1>6, QueueHeads DEF TakeExternal, TakesShare
    <2> QED BY <1>3, <1>6, <2>1 DEF TakeExternal, At, TakenFromQueue
<1>7. CASE Steal(w)
    <2>1. PICK v \in Workers : StealFrom(v) /\ Call(w, BodyOf(Head(deque[v])))
        BY <1>7 DEF Steal
    <2>2. Head(deque[v]) \in Tasks /\ TakesFrom(Head(deque[v]), v)
        BY <2>1, QueueHeads DEF StealFrom, TakesFrom
    <2> QED BY <1>3, <1>7, <2>1, <2>2 DEF Steal, At, TakenFromQueue
<1> QED BY <1>4, <1>5, <1>6, <1>7 DEF Loop, PopOwn, TakeExternal, Park, Timeout, Exit

LEMMA HelpAdds ==
    ASSUME StateTypeOK, Accounted, Reduction, NEW t \in Threads,
           HelpTest(t) \/ HelpExternal(t) \/ HelpSteal(t) \/ HelpMiss(t)
    PROVE  FramesAdd'
<1>1. In(t, "help") /\ FramesAdd /\ UNCHANGED acc
    BY DEF Reduction, HelpTest, HelpExternal, HelpSteal, HelpMiss, HelpAt, StealFrom
<1>2. Busy(t) /\ Top(t).op = "help" /\ FrameAdds(Top(t), t, TRUE)
    BY <1>1, TopAdds DEF In
<1>3. t \in Callers => Helper(t)
    BY <1>2 DEF FrameAdds
<1>4. \A label \in {"test", "external", "steal"} : HelpGoto(t, label) \in Frame /\ HelpGoto(t, label).op = "help"
    BY <1>1, HelpFacts, FrameSets
<1>5. \A label \in {"test", "external", "steal"} : \A b \in BOOLEAN : FrameAdds(HelpGoto(t, label), t, b)
    BY <1>3, <1>4 DEF FrameAdds
<1>6. calls \in [Threads -> Seq(Frame)]
    BY DEF StateTypeOK
<1>7. ASSUME NEW label \in {"test", "external", "steal"}, Return(t, <<HelpGoto(t, label)>>) PROVE FramesAdd'
    <2>1. PICK f \in Frame : f = HelpGoto(t, label) /\ FrameAdds(f, t, TRUE)
        BY <1>4, <1>5
    <2>2. Return(t, <<f>>)
        BY <1>7, <2>1
    <2>3. Stacked(t, Len(calls[t]) - 1, <<f>>)
        BY <1>2, <1>6, <2>2, ReturnStacked, FrameSets
    <2> QED BY <1>1, <1>2, <2>1, <2>3, OneAdds
<1>8. ASSUME NEW label \in {"test", "external", "steal"}, NEW g \in Frame, Return(t, <<HelpGoto(t, label), g>>),
             FrameAdds(g, t, TRUE)
      PROVE  FramesAdd'
    <2>1. PICK f \in Frame : f = HelpGoto(t, label) /\ FrameAdds(f, t, FALSE)
        BY <1>4, <1>5
    <2>2. Return(t, <<f, g>>)
        BY <1>8, <2>1
    <2>3. Stacked(t, Len(calls[t]) - 1, <<f, g>>)
        BY <1>2, <1>6, <2>2, ReturnStacked, FrameSets
    <2> QED BY <1>1, <1>2, <1>8, <2>1, <2>3, TwoAdds
<1>9. ASSUME NEW x \in Tasks, TakenFromQueue(x), Return(t, <<HelpGoto(t, "test"), BodyOf(x)>>) PROVE FramesAdd'
    <2>1. BodyOf(x) \in Frame /\ FrameAdds(BodyOf(x), t, TRUE)
        BY <1>3, <1>9, TakenAdds
    <2> QED BY <1>8, <1>9, <2>1
<1>10. CASE HelpTest(t)
    <2>1. Notifying(FALSE) \in Frame /\ FrameAdds(Notifying(FALSE), t, TRUE)
        BY NewFrames, FrameSets, OtherAdds
    <2>2. CASE Return(t, <<>>)
        <3>1. Stacked(t, Len(calls[t]) - 1, <<>>)
            BY <1>2, <1>6, <2>2, ReturnStacked, FrameSets
        <3> QED BY <1>1, <1>2, <3>1, NoneAdds
    <2>3. CASE Return(t, <<HelpGoto(t, "external"), Notifying(FALSE)>>)
        BY <1>8, <2>1, <2>3
    <2> QED BY <1>10, <2>2, <2>3 DEF HelpTest
<1>11. CASE HelpExternal(t)
    <2>1. CASE external # <<>>
        <3>1. Head(external) \in Tasks /\ TakesShared(Head(external))
            BY <1>11, <2>1, QueueHeads DEF HelpExternal, TakesShared
        <3> QED BY <1>9, <1>11, <2>1, <3>1 DEF HelpExternal, TakenFromQueue
    <2>2. CASE external = <<>>
        BY <1>7, <1>11, <2>2 DEF HelpExternal
    <2> QED BY <2>1, <2>2
<1>12. CASE HelpSteal(t)
    <2>1. PICK v \in Workers : StealFrom(v) /\ Return(t, <<HelpGoto(t, "test"), BodyOf(Head(deque[v]))>>)
        BY <1>12 DEF HelpSteal
    <2>2. Head(deque[v]) \in Tasks /\ TakesFrom(Head(deque[v]), v)
        BY <2>1, QueueHeads DEF StealFrom, TakesFrom
    <2> QED BY <1>9, <2>1, <2>2 DEF TakenFromQueue
<1>13. CASE HelpMiss(t)
    BY <1>7, <1>13 DEF HelpMiss
<1> QED BY <1>10, <1>11, <1>12, <1>13

LEMMA ReadAdds ==
    ASSUME StateTypeOK, FramesAdd, ChunksPlain, NEW t \in Threads, ReadAcc(t)
    PROVE  FramesAdd'
<1>1. /\ In(t, "body") /\ Busy(t) /\ Top(t).of \in Owners /\ Top(t).next \in DOMAIN Body[Top(t).of]
      /\ Body[Top(t).of][Top(t).next].op = "read" /\ Advanced(t) \in BodyFrame /\ Top(t).next \in Nat
      /\ Advanced(t).op = "body" /\ Advanced(t).of = Top(t).of /\ Advanced(t).next = Top(t).next + 1
    BY OpFacts DEF StateTypeOK, ReadAcc, In
<1>2. FrameAdds(Top(t), t, TRUE) /\ Top(t).op = "body"
    BY <1>1, TopAdds DEF In
<1>3. PICK f : f = [Advanced(t) EXCEPT !.copy = acc[SlotOf(t)]]
    OBVIOUS
<1>4. acc[SlotOf(t)] \in SUBSET Tasks
    BY SlotsOfThreads DEF StateTypeOK
<1>5. f \in BodyFrame /\ f.op = "body" /\ f.of = Top(t).of /\ f.next = Top(t).next + 1 /\ f.copy = acc[SlotOf(t)]
    BY <1>1, <1>3, <1>4 DEF BodyFrame
<1>6. Top(t).of \in Chunks => Top(t).next = 1 /\ ~ Added(Top(t).of)
    <2>1. ASSUME Top(t).of \in Chunks PROVE Top(t).next = 1 /\ ~ Added(Top(t).of)
        <3>1. Top(t).next = 1
            BY <1>1, <2>1, ChunkFacts
        <3> QED BY <1>2, <2>1, <3>1 DEF FrameAdds
    <2> QED BY <2>1
<1>7. FrameAdds(f, t, TRUE)
    BY <1>2, <1>5, <1>6 DEF FrameAdds
<1>8. Stacked(t, Len(calls[t]) - 1, <<f>>)
    BY <1>3, ReadAccStep
<1>9. f \in Frame /\ UNCHANGED acc
    BY <1>5, FrameSets DEF ReadAcc
<1> QED BY <1>1, <1>7, <1>8, <1>9, OneAdds

\* The ends of bodies and of the pool's functions.
LEMMA EndAdds ==
    ASSUME StateTypeOK, FramesAdd, NEW t \in Threads,
           Notify(t) \/ EndBody(t) \/ SetResult(t) \/ StartShutdown(t)
    PROVE  FramesAdd'
<1>1. UNCHANGED acc
    BY DEF Notify, EndBody, SetResult, StartShutdown
<1>2. CASE Notify(t)
    <2>1. Busy(t) /\ Return(t, <<>>) /\ <<>> \in Seq(Frame)
        BY <1>2, FrameSets DEF Notify, In
    <2>2. Stacked(t, Len(calls[t]) - 1, <<>>)
        BY <2>1, ReturnStacked DEF StateTypeOK
    <2> QED BY <1>1, <2>1, <2>2, NoneAdds
<1>3. CASE EndBody(t)
    <2>1. Busy(t)
        BY <1>3 DEF EndBody, In
    <2>2. CASE Stacked(t, Len(calls[t]) - 1, <<>>)
        BY <1>1, <2>1, <2>2, NoneAdds
    <2>3. ASSUME NEW how \in {"ok", "error"}, Top(t).of \in Tasks, Settle(t, Top(t).of, how) PROVE FramesAdd'
        BY <1>1, <2>1, <2>3, SettledAdds DEF Results
    <2> QED BY <1>3, <2>2, <2>3, EndBodyStacked
<1>4. CASE SetResult(t)
    BY <1>1, <1>4, SetResultFacts, SettledAdds
<1>5. CASE StartShutdown(t)
    BY <1>1, <1>5, CallsStay DEF StartShutdown
<1> QED BY <1>2, <1>3, <1>4, <1>5

\* No step queues a task that was submitted before and is not queued.
LEMMA StepQueued ==
    ASSUME StateTypeOK, Accounted, [Next]_vars
    PROVE  submitted \subseteq submitted' /\ \A y \in Tasks : Queued(y)' => Queued(y) \/ y \notin submitted
<1>1. ASSUME UNCHANGED <<external, deque>> PROVE \A y \in Tasks : Queued(y)' => Queued(y)
    BY <1>1 DEF Queued
<1>2. ASSUME NEW t \in Threads,
             \/ t \in Workers /\ (PopOwn(t) \/ TakeExternal(t) \/ Steal(t))
             \/ HelpExternal(t) \/ HelpSteal(t)
      PROVE  submitted' = submitted /\ \A y \in Tasks : Queued(y)' => Queued(y)
    <2>1. submitted' = submitted
        BY <1>2 DEF PopOwn, TakeExternal, Steal, HelpExternal, HelpSteal, StealFrom
    <2>2. ASSUME NEW x \in Tasks, TakenFromQueue(x) PROVE \A y \in Tasks : Queued(y)' => Queued(y)
        BY <2>2, TakenQueued
    <2> QED BY <1>1, <1>2, <2>1, <2>2, TakingSteps
<1>3. ASSUME NEW t \in Threads, Proceed(t)
      PROVE  submitted \subseteq submitted' /\ \A y \in Tasks : Queued(y)' => Queued(y) \/ y \notin submitted
    <2>1. CASE Submit(t)
        BY <2>1, SubmitQueued DEF Submit, Put
    <2>2. CASE Fire(t)
        <3>1. submitted \subseteq submitted'
            BY <2>2 DEF Fire, CountDown, Continue, Put, queues
        <3> QED BY <2>2, <3>1, FireQueued
    <2>3. CASE HelpExternal(t)
        BY <1>2, <2>3
    <2>4. ASSUME UNCHANGED queues
          PROVE  submitted \subseteq submitted' /\ \A y \in Tasks : Queued(y)' => Queued(y) \/ y \notin submitted
        BY <1>1, <2>4 DEF queues
    <2>5. CASE \/ Notify(t) \/ EndBody(t) \/ SetResult(t) \/ OnComplete(t) \/ Wait(t)
               \/ StartHelping(t) \/ HelpTest(t) \/ HelpMiss(t)
               \/ ReadAcc(t) \/ WriteAcc(t) \/ JoinCallers(t) \/ StartShutdown(t) \/ JoinWorkers(t)
        BY <2>4, <2>5 DEF Notify, EndBody, SetResult, OnComplete, Wait, StartHelping, HelpTest, HelpMiss,
                          ReadAcc, WriteAcc, JoinCallers, StartShutdown, JoinWorkers
    <2> QED BY <1>3, <2>1, <2>2, <2>3, <2>5 DEF Proceed
<1>4. ASSUME NEW w \in Workers, Loop(w) \/ Steal(w)
      PROVE  submitted' = submitted /\ \A y \in Tasks : Queued(y)' => Queued(y)
    <2>1. CASE Park(w) \/ Timeout(w) \/ Exit(w)
        BY <1>1, <2>1 DEF Park, Timeout, Exit, queues
    <2>2. CASE PopOwn(w) \/ TakeExternal(w) \/ Steal(w)
        BY <1>2, <2>2 DEF Threads
    <2> QED BY <1>4, <2>1, <2>2 DEF Loop
<1>5. CASE UNCHANGED vars
    BY <1>1, <1>5 DEF vars
<1> QED BY <1>2, <1>3, <1>4, <1>5 DEF Next, Done

\* A result that becomes a chunk's and says that it succeeded is set at its body's end.
LEMMA OkAdds ==
    ASSUME StateTypeOK, ChunksPlain, FramesAdd, NEW t \in Threads, EndBody(t) \/ SetResult(t),
           NEW x \in Chunks, outcome'[x] = "ok"
    PROVE  outcome[x] = "ok" \/ Added(x)
<1>1. x \in Tasks /\ x \in Results /\ x \notin Callers /\ Len(Body[x]) = 2
    BY ChunkFacts
<1>2. Busy(t) /\ FrameAdds(Top(t), t, TRUE)
    <2>1. Busy(t)
        BY DEF EndBody, SetResult, In
    <2> QED BY <2>1, TopAdds
<1>3. ASSUME NEW r \in Results, NEW how, Settle(t, r, how), r # x PROVE outcome[x] = "ok"
    BY <1>1, <1>3 DEF Settle, StateTypeOK
<1>4. ASSUME NEW how, Settle(t, x, how) PROVE how = "ok"
    BY <1>1, <1>4 DEF Settle, StateTypeOK
<1>5. CASE EndBody(t)
    <2>1. CASE Top(t).of # x
        BY <1>3, <1>5, <2>1, EndBodyStacked DEF Results
    <2>2. CASE Top(t).of = x
        <3>1. /\ Top(t).op = "body" /\ Top(t).next > 2 /\ Top(t).next \in Nat
            BY <1>1, <1>5, <2>2, EndBodyStacked DEF EndBody, In, BodyFrame
        <3>2. Top(t).next >= 3
            BY <3>1
        <3> QED BY <1>2, <2>2, <3>1, <3>2 DEF FrameAdds
    <2> QED BY <2>1, <2>2
<1>6. CASE SetResult(t)
    <2>1. Top(t).of \in Results /\ Top(t).how \in {"ok", "error"} /\ Settle(t, Top(t).of, Top(t).how) /\ Top(t).op = "set"
        BY <1>6, SetResultFacts DEF SetResult, In
    <2>2. CASE Top(t).of # x
        BY <1>3, <2>1, <2>2
    <2>3. CASE Top(t).of = x
        <3>1. Top(t).how = "error"
            BY <1>1, <1>2, <2>1, <2>3 DEF FrameAdds
        <3>2. Top(t).how = "ok"
            BY <1>4, <2>1, <2>3
        <3> QED BY <3>1, <3>2
    <2> QED BY <2>2, <2>3
<1> QED BY <1>5, <1>6

\* Every step but a chunk's write leaves the contributions as they are.
LEMMA FramesKept ==
    ASSUME StateTypeOK, Accounted, Reduction, ChunksPlain, [Next]_vars, ~ \E t \in Threads : WriteAcc(t)
    PROVE  FramesAdd' /\ UNCHANGED acc
<1>1. FramesAdd
    BY DEF Reduction
<1>2. ASSUME NEW t \in Threads, Proceed(t) PROVE FramesAdd' /\ UNCHANGED acc
    <2>1. UNCHANGED acc
        BY <1>2 DEF Proceed, Submit, Notify, EndBody, SetResult, Fire, OnComplete, Wait, StartHelping, HelpTest,
                    HelpExternal, HelpMiss, ReadAcc, JoinCallers, StartShutdown, JoinWorkers
    <2>2. CASE Submit(t) \/ OnComplete(t) \/ Wait(t) \/ StartHelping(t) \/ JoinCallers(t) \/ JoinWorkers(t)
        BY <1>1, <2>1, <2>2, BodyAdds
    <2>3. CASE Notify(t) \/ EndBody(t) \/ SetResult(t) \/ StartShutdown(t)
        BY <1>1, <2>1, <2>3, EndAdds
    <2>4. CASE HelpTest(t) \/ HelpExternal(t) \/ HelpMiss(t)
        BY <2>1, <2>4, HelpAdds
    <2> QED BY <1>1, <1>2, <2>1, <2>2, <2>3, <2>4, FireAdds, ReadAdds DEF Proceed
<1>3. ASSUME NEW t \in Threads, HelpSteal(t) PROVE FramesAdd' /\ UNCHANGED acc
    BY <1>3, HelpAdds DEF HelpSteal, StealFrom
<1>4. ASSUME NEW w \in Workers, Loop(w) \/ Steal(w) PROVE FramesAdd' /\ UNCHANGED acc
    BY <1>4, LoopAdds DEF Loop, PopOwn, TakeExternal, Park, Timeout, Exit, Steal, StealFrom
<1>5. CASE UNCHANGED vars
    BY <1>1, <1>5, CallsStay DEF vars
<1> QED BY <1>2, <1>3, <1>4, <1>5 DEF Next, Done

LEMMA OutcomesAdd ==
    ASSUME StateTypeOK, Reduction, ChunksPlain, [Next]_vars, NEW x \in Chunks, outcome'[x] = "ok"
    PROVE  Added(x)
<1>1. FramesAdd /\ (outcome[x] = "ok" => Added(x))
    BY DEF Reduction
<1>2. ASSUME NEW t \in Threads, Proceed(t) PROVE Added(x)
    <2>1. CASE EndBody(t) \/ SetResult(t)
        BY <1>1, <2>1, OkAdds
    <2>2. CASE ~ EndBody(t) /\ ~ SetResult(t)
        <3>1. UNCHANGED outcome
            BY <1>2, <2>2 DEF Proceed, Submit, Notify, Fire, OnComplete, Wait, StartHelping, HelpTest, HelpExternal,
                              HelpMiss, ReadAcc, WriteAcc, JoinCallers, StartShutdown, JoinWorkers, results
        <3> QED BY <1>1, <3>1
    <2> QED BY <2>1, <2>2
<1>3. ASSUME NEW t \in Threads, HelpSteal(t) PROVE Added(x)
    BY <1>1, <1>3 DEF HelpSteal, StealFrom, results
<1>4. ASSUME NEW w \in Workers, Loop(w) \/ Steal(w) PROVE Added(x)
    BY <1>1, <1>4 DEF Loop, PopOwn, TakeExternal, Park, Timeout, Exit, Steal, StealFrom, results
<1>5. CASE UNCHANGED vars
    BY <1>1, <1>5 DEF vars
<1> QED BY <1>2, <1>3, <1>4, <1>5 DEF Next, Done

LEMMA KeptReduction ==
    ASSUME StateTypeOK, Accounted, Reduction, ChunksPlain, [Next]_vars, ~ \E t \in Threads : WriteAcc(t)
    PROVE  Reduction'
<1>1. FramesAdd' /\ UNCHANGED acc
    BY FramesKept
<1>2. \A x : Added(x)' <=> Added(x)
    BY <1>1 DEF Added
<1>3. \A x \in Chunks : outcome'[x] = "ok" => Added(x)'
    BY <1>2, OutcomesAdd
<1>4. ASSUME NEW x \in Chunks, Added(x) PROVE x \in submitted' /\ ~ Queued(x)'
    <2>1. x \in submitted /\ ~ Queued(x) /\ x \in Tasks
        BY <1>4 DEF Reduction, Chunks
    <2> QED BY <2>1, StepQueued
<1>5. \A s, u \in Slots : s # u => acc'[s] \intersect acc'[u] = {}
    BY <1>1 DEF Reduction
<1> QED BY <1>1, <1>2, <1>3, <1>4, <1>5 DEF Reduction

--------------------------------------------------------------------------------
(* A chunk's write. *)

\* Thread t writes chunk x, alone with its slot.
Writes(t, x) ==
    /\ x \in Chunks /\ x \in Tasks /\ x \in submitted /\ ~ Queued(x) /\ ~ Added(x)
    /\ In(t, "body") /\ Top(t).of = x /\ Top(t).next = 2
    /\ acc' = [acc EXCEPT ![SlotOf(t)] = @ \union {x}]
    /\ Stacked(t, Len(calls[t]) - 1, <<Advanced(t)>>)
    /\ \A u \in Threads : \A n \in DOMAIN calls[u] :
          calls[u][n].op = "body" /\ calls[u][n].of = x => u = t /\ n = Len(calls[t])

LEMMA WriteFacts ==
    ASSUME StateTypeOK, Accounted, FramesAdd, ChunksPlain, NEW t \in Threads, WriteAcc(t)
    PROVE  Writes(t, Top(t).of)
<1>1. PICK x : x = Top(t).of
    OBVIOUS
<1>2. /\ In(t, "body") /\ Busy(t) /\ Top(t).op = "body" /\ x \in Owners /\ Top(t).next \in DOMAIN Body[x]
      /\ Body[x][Top(t).next].op = "write" /\ Advanced(t) \in Frame
    BY <1>1, OpFacts, FrameSets DEF StateTypeOK, WriteAcc, In
<1>3. x \in Chunks /\ x \in Tasks /\ Top(t).next = 2
    <2>1. x \in Chunks
        BY <1>2, ChunkFacts
    <2>2. x \in Tasks /\ DOMAIN Body[x] = {1, 2} /\ Body[x][1].op = "read"
        BY <2>1, ChunkFacts
    <2> QED BY <1>2, <2>1, <2>2
<1>4. FrameAdds(Top(t), t, TRUE)
    BY <1>2, TopAdds
<1>5. Top(t).copy = acc[SlotOf(t)] /\ ~ Added(x)
    BY <1>1, <1>2, <1>3, <1>4 DEF FrameAdds
<1>6. acc' = [acc EXCEPT ![SlotOf(t)] = @ \union {x}]
    BY <1>1, <1>5 DEF WriteAcc
<1>7. Stacked(t, Len(calls[t]) - 1, <<Advanced(t)>>)
    BY <1>2, ReturnStacked, FrameSets DEF StateTypeOK, WriteAcc
<1>8. PICK st, sp, tk, tp, at : Account(st, sp, tk, tp, at)
    BY DEF Accounted
<1>9. st[x] = "frame" /\ sp[x] = <<t, Len(calls[t])>> /\ x \in submitted
    <2>1. FrameIn(Top(t), t, Len(calls[t]), st, sp, tk, tp, at)
        BY <1>2, <1>8, TopSeat
    <2> QED BY <1>1, <1>2, <1>3, <2>1 DEF FrameIn
<1>10. ~ Queued(x)
    <2>1. QueuesIn(st, sp) /\ x \in Things
        BY <1>3, <1>8 DEF Account, Things, Results
    <2> QED BY <1>9, <2>1, QueuedStage
<1>11. ASSUME NEW u \in Threads, NEW n \in DOMAIN calls[u], calls[u][n].op = "body", calls[u][n].of = x
       PROVE  u = t /\ n = Len(calls[t])
    <2>1. FrameIn(calls[u][n], u, n, st, sp, tk, tp, at)
        BY <1>8 DEF Account, FramesIn
    <2>2. sp[x] = <<u, n>>
        BY <1>11, <2>1 DEF FrameIn
    <2>3. PICK m : m = Len(calls[t])
        OBVIOUS
    <2>4. <<u, n>> = <<t, m>>
        BY <1>9, <2>2, <2>3
    <2> QED BY <2>3, <2>4
<1>12. Writes(t, x)
    BY <1>1, <1>2, <1>3, <1>5, <1>6, <1>7, <1>9, <1>10, <1>11 DEF Writes
<1> QED BY <1>1, <1>12

LEMMA WrittenSlots ==
    ASSUME StateTypeOK, Reduction, NEW t \in Threads, NEW x, Writes(t, x)
    PROVE  /\ \A y : Added(y)' <=> Added(y) \/ y = x
           /\ \A s \in Slots : s # SlotOf(t) => acc'[s] = acc[s]
           /\ \A s, u \in Slots : s # u => acc'[s] \intersect acc'[u] = {}
<1>1. PICK k \in Slots : k = SlotOf(t)
    BY SlotsOfThreads
<1>2. acc'[k] = acc[k] \union {x} /\ \A s \in Slots : s # k => acc'[s] = acc[s]
    BY <1>1 DEF Writes, StateTypeOK
<1>3. \A s \in Slots : x \notin acc[s]
    BY DEF Writes, Added
<1>4. ASSUME NEW y PROVE Added(y)' <=> Added(y) \/ y = x
    <2>1. ASSUME NEW s \in Slots, y \in acc'[s] PROVE y = x \/ y \in acc[s]
        BY <1>2, <2>1
    <2>2. \A s \in Slots : acc[s] \subseteq acc'[s]
        BY <1>2
    <2> QED BY <1>2, <2>1, <2>2 DEF Added
<1>5. ASSUME NEW s \in Slots, NEW u \in Slots, s # u PROVE acc'[s] \intersect acc'[u] = {}
    <2>1. acc[s] \intersect acc[u] = {}
        BY <1>5 DEF Reduction
    <2>2. CASE s = k
        BY <1>2, <1>3, <1>5, <2>1, <2>2
    <2>3. CASE u = k
        BY <1>2, <1>3, <1>5, <2>1, <2>3
    <2>4. CASE s # k /\ u # k
        BY <1>2, <2>1, <2>4
    <2> QED BY <2>2, <2>3, <2>4
<1> QED BY <1>1, <1>2, <1>4, <1>5

\* Two threads that run tasks have two slots.
LEMMA SlotsApart ==
    ASSUME OneHelper, NEW t \in Threads, NEW u \in Threads, t # u,
           t \in Callers => Helper(t), u \in Callers => Helper(u)
    PROVE  SlotOf(t) # SlotOf(u)
<1>1. CASE t \in Workers /\ u \in Workers
    <2>1. PICK a \in Nat, b \in Nat : a = t /\ b = u
        BY <1>1, PoolAssumption
    <2>2. a + 1 # b + 1
        BY <2>1
    <2> QED BY <1>1, <2>1, <2>2 DEF SlotOf
<1>2. CASE t \in Workers /\ u \notin Workers
    <2>1. PICK a \in Nat : a = t
        BY <1>2, PoolAssumption
    <2>2. a + 1 # 0
        OBVIOUS
    <2> QED BY <1>2, <2>1, <2>2 DEF SlotOf
<1>3. CASE t \notin Workers /\ u \in Workers
    <2>1. PICK b \in Nat : b = u
        BY <1>3, PoolAssumption
    <2>2. b + 1 # 0
        OBVIOUS
    <2> QED BY <1>3, <2>1, <2>2 DEF SlotOf
<1>4. CASE t \notin Workers /\ u \notin Workers
    BY <1>4 DEF Threads, OneHelper
<1> QED BY <1>1, <1>2, <1>3, <1>4

LEMMA WrittenFrame ==
    ASSUME NEW x, \A y : Added(y)' <=> Added(y) \/ y = x,
           NEW f, NEW u, NEW a \in BOOLEAN, NEW b \in BOOLEAN, a => b, FrameAdds(f, u, a),
           f.op = "body" /\ f.of \in Chunks => f.of # x /\ (f.next = 2 => acc'[SlotOf(u)] = acc[SlotOf(u)])
    PROVE  FrameAdds(f, u, b)'
<1>1. f.op = "body" /\ f.of \in Chunks => (Added(f.of)' <=> Added(f.of))
    OBVIOUS
<1> QED BY <1>1 DEF FrameAdds

LEMMA WriteReduction ==
    ASSUME StateTypeOK, Accounted, Reduction, ChunksPlain, OneHelper, NEW t \in Threads, WriteAcc(t)
    PROVE  Reduction'
<1>1. FramesAdd
    BY DEF Reduction
<1>2. PICK x, f : x = Top(t).of /\ f = Advanced(t)
    OBVIOUS
<1>3. Writes(t, x)
    BY <1>1, <1>2, WriteFacts
<1>4. /\ \A y : Added(y)' <=> Added(y) \/ y = x
      /\ \A s \in Slots : s # SlotOf(t) => acc'[s] = acc[s]
      /\ \A s, u \in Slots : s # u => acc'[s] \intersect acc'[u] = {}
    BY <1>3, WrittenSlots
<1>5. /\ Busy(t) /\ f \in Frame /\ f.op = "body" /\ f.of = x /\ f.next = 3
      /\ Top(t).op = "body" /\ x \in Tasks /\ x \in Chunks
    <2>1. Does(t, "write") /\ In(t, "body") /\ Top(t).next = 2 /\ x \in Tasks /\ x \in Chunks
        BY <1>3 DEF WriteAcc, Writes
    <2>2. f \in Frame /\ f.op = "body" /\ f.of = x /\ f.next = Top(t).next + 1
        BY <1>2, <2>1, OpFacts, FrameSets DEF StateTypeOK
    <2> QED BY <2>1, <2>2 DEF In
<1>6. FrameAdds(Top(t), t, TRUE) /\ Len(calls[t]) \in Nat
    BY <1>1, <1>5, TopAdds
<1>7. t \in Callers => Helper(t)
    BY <1>2, <1>5, <1>6 DEF FrameAdds
<1>8. PICK base : base = Len(calls[t]) - 1
    OBVIOUS
<1>9. /\ base \in Nat /\ base + 1 = Len(calls[t])
      /\ calls' \in [Threads -> Seq(Frame)]
      /\ \A u \in Threads \ {t} : calls'[u] = calls[u]
      /\ DOMAIN calls'[t] = 1 .. (base + 1)
      /\ \A n \in 1 .. base : n \in DOMAIN calls[t] /\ calls'[t][n] = calls[t][n]
      /\ calls'[t][base + 1] = f
    <2>1. PICK fs : fs = <<f>>
        OBVIOUS
    <2>2. Stacked(t, base, fs) /\ Len(fs) = 1 /\ fs[1] = f
        BY <1>2, <1>3, <1>5, <1>8, <2>1, FrameSets DEF Writes
    <2> QED BY <1>6, <1>8, <2>2 DEF Stacked
<1>10. Len(calls'[t]) = base + 1
    <2>1. Len(calls'[t]) \in Nat /\ DOMAIN calls'[t] = 1 .. Len(calls'[t])
        BY <1>9, LenProperties
    <2> QED BY <1>9, <2>1
<1>11. ASSUME NEW u \in Threads \ {t}, NEW n \in DOMAIN calls'[u]
       PROVE  FrameAdds(calls[u][n], u, n = Len(calls[u]))'
    <2>1. n \in DOMAIN calls[u] /\ calls'[u] = calls[u]
        BY <1>9, <1>11
    <2>2. PICK b \in BOOLEAN, g \in {calls[u][n]} : b = (n = Len(calls[u]))
        OBVIOUS
    <2>3. FrameAdds(g, u, b)
        BY <1>1, <2>1, <2>2 DEF FramesAdd
    <2>4. ASSUME g.op = "body", g.of \in Chunks PROVE g.of # x /\ acc'[SlotOf(u)] = acc[SlotOf(u)]
        <3>1. g.of # x
            BY <1>3, <2>1, <2>2, <2>4 DEF Writes
        <3>2. u \in Callers => Helper(u)
            BY <2>3, <2>4 DEF FrameAdds, Chunks
        <3>3. SlotOf(u) # SlotOf(t) /\ SlotOf(u) \in Slots
            BY <1>7, <3>2, SlotsApart, SlotsOfThreads
        <3> QED BY <1>4, <3>1, <3>3
    <2>5. FrameAdds(g, u, b)'
        BY <1>4, <2>3, <2>4, WrittenFrame
    <2> QED BY <2>1, <2>2, <2>5
<1>12. ASSUME NEW n \in DOMAIN calls'[t]
       PROVE  FrameAdds(calls[t][n], t, n = Len(calls[t]))'
    <2>1. PICK b \in BOOLEAN, g \in {calls'[t][n]} : b = (n = base + 1)
        OBVIOUS
    <2>2. CASE n \in 1 .. base
        <3>1. n \in DOMAIN calls[t] /\ g = calls[t][n] /\ n # Len(calls[t])
            BY <1>9, <2>1, <2>2
        <3>2. FrameAdds(calls[t][n], t, n = Len(calls[t]))
            BY <1>1, <3>1 DEF FramesAdd
        <3>3. FrameAdds(g, t, FALSE)
            <4>1. (n = Len(calls[t])) = FALSE
                BY <3>1
            <4> QED BY <3>1, <3>2, <4>1
        <3>4. g.op = "body" /\ g.of \in Chunks => g.of # x /\ (g.next = 2 => acc'[SlotOf(t)] = acc[SlotOf(t)])
            BY <1>3, <3>1, <3>3 DEF Writes, FrameAdds
        <3>5. FrameAdds(g, t, b)'
            <4>1. PICK a \in BOOLEAN : a = FALSE
                OBVIOUS
            <4>2. (a => b) /\ FrameAdds(g, t, a)
                BY <3>3, <4>1
            <4> QED BY <1>4, <3>4, <4>2, WrittenFrame
        <3> QED BY <1>10, <2>1, <3>5
    <2>3. CASE n \notin 1 .. base
        <3>1. n = base + 1 /\ g = f
            BY <1>9, <2>1, <2>3
        <3>2. Added(x)' /\ x \notin Callers
            BY <1>4, <1>5, PoolAssumption DEF Results
        <3>3. FrameAdds(f, t, b)'
            BY <1>5, <1>7, <3>2 DEF FrameAdds
        <3> QED BY <1>10, <2>1, <3>1, <3>3
    <2> QED BY <2>2, <2>3
<1>13. FramesAdd'
    BY <1>11, <1>12 DEF FramesAdd
<1>14. UNCHANGED <<external, deque, submitted, outcome>>
    BY DEF WriteAcc, queues, results
<1>15. \A y : Queued(y)' <=> Queued(y)
    BY <1>14 DEF Queued
<1>16. \A y \in Chunks : outcome'[y] = "ok" => Added(y)'
    BY <1>4, <1>14 DEF Reduction
<1>17. \A y \in Chunks : Added(y)' => y \in submitted' /\ ~ Queued(y)'
    BY <1>3, <1>4, <1>14, <1>15 DEF Reduction, Writes
<1> QED BY <1>4, <1>13, <1>16, <1>17 DEF Reduction

LEMMA InitReduction ==
    ASSUME Init
    PROVE  Reduction
<1>1. \A s \in Slots : acc[s] = {}
    BY DEF Init
<1>2. \A x : ~ Added(x)
    BY <1>1 DEF Added
<1>3. ASSUME NEW t \in Threads, NEW n \in DOMAIN calls[t] PROVE FrameAdds(calls[t][n], t, n = Len(calls[t]))
    <2>1. t \in Callers /\ calls[t][n] = BodyOf(t)
        <3>1. calls[t] = (IF t \in Callers THEN <<BodyOf(t)>> ELSE <<>>)
            BY DEF Init
        <3>2. CASE t \in Callers
            BY <3>1, <3>2
        <3>3. CASE t \notin Callers
            BY <3>1, <3>3
        <3> QED BY <3>2, <3>3
    <2>2. t \notin Tasks /\ t \notin Chunks
        BY <2>1, PoolAssumption DEF Results, Chunks
    <2>3. PICK f : f = calls[t][n]
        OBVIOUS
    <2>4. f.op = "body" /\ f.of = t
        BY <2>1, <2>3 DEF BodyOf
    <2> QED BY <2>1, <2>2, <2>3, <2>4 DEF FrameAdds
<1>4. \A x \in Chunks : outcome[x] = "none"
    BY DEF Init, Chunks, Results
<1> QED BY <1>1, <1>2, <1>3, <1>4 DEF Reduction, FramesAdd

\* No contribution to a reduction is lost or added twice, for any workers and programs
\* in which chunks only add and one thread outside of the pool helps: two that help at
\* the same time share slot 0 (parallel_reduce() and current_slot(), TaskPool.hpp).
THEOREM ReductionAlwaysComplete ==
    ASSUME ChunksPlain, OneHelper
    PROVE  Spec => []ReductionComplete
<1>1. Init => Reduction
    BY InitReduction
<1>2. StateTypeOK /\ Accounted /\ Reduction /\ [Next]_vars => Reduction'
    BY KeptReduction, WriteReduction
<1>3. Reduction => ReductionComplete
    BY DEF Reduction, ReductionComplete, Added
<1> QED BY <1>1, <1>2, <1>3, AlwaysAccounted, PTL DEF Spec
================================================================================
