------------------------------ MODULE MCTaskPool ------------------------------
(* Two workers and two callers.  One caller submits two tasks, joins them and     *)
(* waits for a continuation, which waits in turn for a task of its own; one of    *)
(* the two may throw.  The other caller reduces over two chunks and shuts down.   *)
EXTENDS TaskPool

CONSTANTS a, b, d, q, p1, p2, j, c1, c2

MCWorkers == {0, 1}
MCCallers == {c1, c2}
MCTasks == {a, b, d, q, p1, p2}
MCJoins == {j}

DoSubmit(x) == [op |-> "submit", tasks |-> <<x>>]
DoBatch(s) == [op |-> "batch", tasks |-> s]
DoAfter(r, x) == [op |-> "after", on |-> r, run |-> x]
DoWait(s) == [op |-> "wait", on |-> s]
DoHelp(s) == [op |-> "help", on |-> s]
DoJoin(s) == [op |-> "join", on |-> s]
Do(op) == [op |-> op]

MCBody ==
    [x \in MCCallers \union MCTasks |->
        CASE x = c1 -> <<DoBatch(<<a, b>>), DoAfter(a, j), DoAfter(b, j), DoAfter(j, d), DoWait({d})>>
          [] x = c2 -> <<DoSubmit(p1), DoSubmit(p2), DoHelp({p1, p2}), DoJoin({c1}), Do("shutdown")>>
          [] x = d -> <<DoSubmit(q), DoWait({q})>>
          [] x \in {p1, p2} -> <<Do("read"), Do("write")>>
          [] OTHER -> <<>>]
================================================================================
