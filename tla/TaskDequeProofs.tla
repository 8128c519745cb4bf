---------------------------- MODULE TaskDequeProofs ----------------------------
(* A deque whose operations are single steps hands every task out at most      *)
(* once, for any set of tasks and any number of them.                          *)
EXTENDS TaskDeque, SequenceTheorems, TLAPS

\* The deque holds each task once, and none that was handed out.
IInv ==
    /\ deque \in Seq(Values)
    /\ runs \in [Values -> 0 .. 1]
    /\ \A m, n \in 1 .. Len(deque) : deque[m] = deque[n] => m = n
    /\ \A n \in 1 .. Len(deque) : runs[deque[n]] = 0

\* The invariant holds of an empty deque that has handed out nothing (the constructor).
LEMMA InitIInv == Init => IInv
  BY DEF Init, IInv

\* push() keeps it: the task is new to the deque and to its users.
LEMMA PushIInv == ASSUME IInv, NEW task \in Values, Push(task) PROVE IInv'
<1>1. /\ deque' \in Seq(Values)
      /\ Len(deque') = Len(deque) + 1
      /\ \A n \in 1 .. Len(deque) : deque'[n] = deque[n]
      /\ deque'[Len(deque) + 1] = task
  BY DEF IInv, Push
<1>2. \A n \in 1 .. Len(deque) : deque[n] # task
  BY DEF IInv, Push, ToSet
<1>3. runs' = runs /\ runs[task] = 0
  BY DEF Push
<1>4. \A n \in 1 .. Len(deque') : n \in 1 .. Len(deque) \/ n = Len(deque) + 1
  BY <1>1 DEF IInv
<1>5. \A m, n \in 1 .. Len(deque') : deque'[m] = deque'[n] => m = n
  BY <1>1, <1>2, <1>4 DEF IInv
<1>6. \A n \in 1 .. Len(deque') : runs'[deque'[n]] = 0
  BY <1>1, <1>3, <1>4 DEF IInv
<1>. QED
  BY <1>1, <1>3, <1>5, <1>6 DEF IInv

\* pop() keeps it: what is left of the deque holds every task but the newest.
LEMMA PopIInv == ASSUME IInv, Pop PROVE IInv'
<1>1. Len(deque) \in Nat \ {0} /\ Len(deque) \in 1 .. Len(deque)
  BY DEF IInv, Pop
<1>2. /\ deque' \in Seq(Values)
      /\ Len(deque') = Len(deque) - 1
      /\ \A n \in 1 .. Len(deque) - 1 : deque'[n] = deque[n]
  <2>1. deque' = SubSeq(deque, 1, Len(deque) - 1)
    BY DEF Pop, Front
  <2>2. \A n \in 1 .. Len(deque) - 1 : deque[n] \in Values
    BY DEF IInv
  <2>. DEFINE k == Len(deque) - 1
  <2>3. k \in Nat
    BY <1>1
  <2>4. /\ SubSeq(deque, 1, k) \in Seq(Values)
        /\ Len(SubSeq(deque, 1, k)) = IF 1 <= k THEN k - 1 + 1 ELSE 0
        /\ \A n \in 1 .. k - 1 + 1 : SubSeq(deque, 1, k)[n] = deque[1 + n - 1]
    <3>. HIDE DEF k
    <3>. QED
      BY <2>2, <2>3, SubSeqProperties DEF k
  <2>5. k - 1 + 1 = k /\ \A n \in 1 .. k : 1 + n - 1 = n
    BY <2>3
  <2>6. Len(deque') = k
    BY <2>1, <2>3, <2>4, <2>5
  <2>7. \A n \in 1 .. k : deque'[n] = deque[n]
    BY <2>1, <2>4, <2>5
  <2>. QED
    BY <2>1, <2>4, <2>6, <2>7
<1>3. Last(deque) \in Values /\ runs[Last(deque)] = 0
  BY <1>1 DEF IInv, Last
<1>4. runs' = [runs EXCEPT ![Last(deque)] = 1]
  BY <1>3 DEF Pop, Hand
<1>5. \A n \in 1 .. Len(deque) - 1 : deque[n] # Last(deque)
  BY <1>1 DEF IInv, Last
<1>6. \A m, n \in 1 .. Len(deque') : deque'[m] = deque'[n] => m = n
  BY <1>1, <1>2 DEF IInv
<1>7. \A n \in 1 .. Len(deque') : runs'[deque'[n]] = 0
  BY <1>1, <1>2, <1>4, <1>5 DEF IInv
<1>. QED
  BY <1>2, <1>3, <1>4, <1>6, <1>7 DEF IInv

\* steal() keeps it: what is left of the deque holds every task but the oldest.
LEMMA StealIInv == ASSUME IInv, Steal PROVE IInv'
<1>1. Len(deque) \in Nat \ {0} /\ 1 \in 1 .. Len(deque)
  BY DEF IInv, Steal
<1>2. /\ deque' \in Seq(Values)
      /\ Len(deque') = Len(deque) - 1
      /\ \A n \in 1 .. Len(deque) - 1 : deque'[n] = deque[n + 1]
  BY <1>1 DEF IInv, Steal
<1>3. Head(deque) = deque[1] /\ Head(deque) \in Values /\ runs[Head(deque)] = 0
  BY <1>1 DEF IInv
<1>4. runs' = [runs EXCEPT ![Head(deque)] = 1]
  BY <1>3 DEF Steal, Hand
<1>5. \A n \in 1 .. Len(deque) - 1 : n + 1 \in 1 .. Len(deque) /\ deque[n + 1] # Head(deque)
  BY <1>1, <1>3 DEF IInv
<1>6. \A m, n \in 1 .. Len(deque') : deque'[m] = deque'[n] => m = n
  BY <1>1, <1>2, <1>5 DEF IInv
<1>7. \A n \in 1 .. Len(deque') : runs'[deque'[n]] = 0
  BY <1>1, <1>2, <1>4, <1>5 DEF IInv
<1>. QED
  BY <1>2, <1>3, <1>4, <1>6, <1>7 DEF IInv

\* Every step of the deque keeps the invariant.
LEMMA NextIInv == IInv /\ [Next]_vars => IInv'
<1>. SUFFICES ASSUME IInv, [Next]_vars PROVE IInv'
  OBVIOUS
<1>1. CASE \E task \in Values : Push(task)
  BY <1>1, PushIInv
<1>2. CASE Pop
  BY <1>2, PopIInv
<1>3. CASE Steal
  BY <1>3, StealIInv
<1>4. CASE UNCHANGED vars
  BY <1>4 DEF IInv, vars
<1>. QED
  BY <1>1, <1>2, <1>3, <1>4 DEF Next

\* A deque that keeps its promise hands no task out twice (WorkStealingDeque.hpp).
THEOREM TasksHandedOnce == Spec => []HandedOnce
<1>1. IInv => HandedOnce
  BY DEF IInv, HandedOnce
<1>. QED
  BY InitIInv, NextIInv, <1>1, PTL DEF Spec
================================================================================
