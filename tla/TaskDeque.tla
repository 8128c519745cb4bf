------------------------------- MODULE TaskDeque -------------------------------
(* What a worker's deque promises the task pool: a double-ended queue whose    *)
(* owner adds and takes at the bottom and whose thieves take at the top, every *)
(* operation in one step.  The executor models take the pool for a bag of      *)
(* tasks; a deque that keeps this promise neither loses a task nor runs it     *)
(* twice.                                                                      *)
EXTENDS Naturals, Sequences, SequencesExt

CONSTANT Values \* what a slot of the deque can hold

VARIABLES
    deque, \* the tasks that wait, the oldest first
    runs   \* how often each value was handed to a caller

vars == <<deque, runs>>

Hand(task) == runs' = [runs EXCEPT ![task] = @ + 1]

Init == deque = <<>> /\ runs = [task \in Values |-> 0]

\* The owner adds a task that was never added before.
Push(task) ==
    /\ task \notin ToSet(deque) /\ runs[task] = 0
    /\ deque' = Append(deque, task)
    /\ UNCHANGED runs

\* The owner takes the newest task.
Pop ==
    /\ deque # <<>>
    /\ deque' = Front(deque)
    /\ Hand(Last(deque))

\* A thief takes the oldest task.
Steal ==
    /\ deque # <<>>
    /\ deque' = Tail(deque)
    /\ Hand(Head(deque))

Next == (\E task \in Values : Push(task)) \/ Pop \/ Steal

Spec == Init /\ [][Next]_vars

--------------------------------------------------------------------------------
\* No task is handed out twice, and none that still waits was ever handed out
\* (WorkStealingDeque.hpp, pop() and steal()): what a user of the deque, which runs each
\* task it is handed, relies on.
HandedOnce ==
    /\ \A task \in Values : runs[task] <= 1
    /\ \A n \in DOMAIN deque : runs[deque[n]] = 0
================================================================================
