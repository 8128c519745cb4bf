------------------------------- MODULE TaskPool -------------------------------
(* The task pool (TaskPool.cpp) with its handles (TaskHandle.hpp), groups and   *)
(* data-parallel loops: workers with a deque each, a queue for the threads      *)
(* outside, parking with a timeout, threads that help while they wait, results  *)
(* with continuations, shutdown.                                                *)
(*                                                                              *)
(* What callers and tasks do is a program, a sequence of operations per caller  *)
(* and task.  A thread's calls are a stack of frames, innermost last; a frame   *)
(* is a body that is being run or a function of the pool it is inside of, one   *)
(* step per access to shared state.  A deque is a TaskDeque.                    *)
EXTENDS Naturals, FiniteSets, Sequences, SequencesExt

CONSTANTS
    Workers, \* the pool's threads, numbered from 0
    Callers, \* the threads outside the pool
    Tasks,   \* what is submitted, each with its result
    Joins,   \* the combined results of when_all()
    Body,    \* the operations of each caller and each task, in order
    MayFail  \* the tasks whose callable may throw

Threads == Workers \union Callers
Results == Tasks \union Joins

\* What callers and tasks do.
Operation ==
    [op : {"submit", "batch"}, tasks : Seq(Tasks)]
      \union [op : {"after"}, on : Results, run : Results]
      \union [op : {"wait", "help"}, on : SUBSET Results]
      \union [op : {"join"}, on : SUBSET Callers]
      \union [op : {"read", "write", "shutdown"}]

Owners == Callers \union Tasks

Submits(o, x) == o.op \in {"submit", "batch"} /\ x \in ToSet(o.tasks)
Registers(o, r, x) == o.op = "after" /\ o.on = r /\ o.run = x

\* The results a join combines or a continuation runs after.
Sources(x) == {r \in Results : \E y \in Owners : \E n \in DOMAIN Body[y] : Registers(Body[y][n], r, x)}

\* Operation o is the one that brings task x about.
Creates(o, x) == Submits(o, x) \/ \E r \in Results : Registers(o, r, x)

\* A result is new when submit(), then() or dataflow() return it, so that one
\* operation creates it; when_all() takes one input or more, each once (of none it is
\* ready at once, make_ready_handle()).  The chunks of a reduction are tasks.
ASSUME PoolAssumption ==
    /\ Workers \subseteq Nat /\ IsFiniteSet(Workers) /\ Workers # {}
    /\ Workers \intersect Callers = {} /\ Tasks \intersect Joins = {}
    /\ Callers \intersect Results = {}
    /\ MayFail \subseteq Tasks
    /\ \A y \in Owners : Body[y] \in Seq(Operation)
    /\ \A c \in Callers : \A n \in DOMAIN Body[c] : Body[c][n].op \notin {"read", "write"}
    /\ \A y, z \in Owners : \A m \in DOMAIN Body[y], n \in DOMAIN Body[z] :
          /\ \A x \in Tasks : (Creates(Body[y][m], x) /\ Creates(Body[z][n], x)) => (y = z /\ m = n)
          /\ \A r, x \in Results :
                (Registers(Body[y][m], r, x) /\ Registers(Body[z][n], r, x)) => (y = z /\ m = n)
    /\ \A y \in Owners : \A n \in DOMAIN Body[y] :
          Body[y][n].op \in {"submit", "batch"} => IsInjective(Body[y][n].tasks)
    /\ \A j \in Joins : IsFiniteSet(Sources(j)) /\ Sources(j) # {}

VARIABLES
    external,  \* _external_queue
    deque,     \* the deque of each worker, the oldest task first
    loop,      \* where each worker is in worker_loop()
    calls,     \* what each thread is inside of, innermost last
    shutdown,  \* _shutdown_flag
    outcome,   \* ready, result and exception of each SharedState
    handlers,  \* continuations and exc_continuations, registered in pairs
    remaining, \* the inputs each join still waits for
    failed,    \* a join has passed on the exception of one input
    acc,       \* accs of parallel_reduce: the contributions in each slot
    submitted, \* history: the tasks that were enqueued
    registered \* history: the results on_complete() was called on, each with what it runs

vars == <<external, deque, loop, calls, shutdown, outcome, handlers, remaining, failed,
          acc, submitted, registered>>

queues == <<external, deque, submitted>>
results == <<outcome, handlers, remaining, failed, registered>>

--------------------------------------------------------------------------------
(* Frames. *)

BodyOf(x) == [op |-> "body", of |-> x, next |-> 1, copy |-> {}]
Setting(r, how) == [op |-> "set", of |-> r, how |-> how]
Firing(r, left) == [op |-> "fire", of |-> r, left |-> left]
Notifying(all) == [op |-> "notify", all |-> all]
Helping(tasks) == [op |-> "help", on |-> tasks, at |-> "test"]

Busy(t) == calls[t] # <<>>
Top(t) == Last(calls[t])
In(t, op) == Busy(t) /\ Top(t).op = op

\* The innermost frame is over, and frames takes its place.
Return(t, frames) == calls' = [calls EXCEPT ![t] = Front(@) \o frames]
Call(t, frame) == calls' = [calls EXCEPT ![t] = Append(@, frame)]

\* Thread t is about to do operation op of the body it runs.
Op(t) == Body[Top(t).of][Top(t).next]
Does(t, op) == In(t, "body") /\ Top(t).next <= Len(Body[Top(t).of]) /\ Op(t).op = op
Advanced(t) == [Top(t) EXCEPT !.next = @ + 1]

Over(r) == outcome[r] # "none"

--------------------------------------------------------------------------------
(* Submission. *)

\* A worker adds to its own deque, any other thread to the shared queue.
Put(t, tasks) ==
    /\ \/ /\ t \in Workers
          /\ deque' = [deque EXCEPT ![t] = @ \o tasks]
          /\ UNCHANGED external
       \/ /\ t \notin Workers
          /\ external' = external \o tasks
          /\ UNCHANGED deque
    /\ submitted' = submitted \union ToSet(tasks)

\* ensure_started(): the first submission starts the workers.
Started == [w \in Workers |-> IF loop[w] = "new" THEN "own" ELSE loop[w]]

\* enqueue() for a task, submit_bare_batch() for several, up to the wake-up.
Submit(t) ==
    /\ Does(t, "submit") \/ Does(t, "batch")
    /\ Put(t, Op(t).tasks)
    /\ loop' = Started
    /\ Return(t, <<Advanced(t), Notifying(Op(t).op = "batch")>>)
    /\ UNCHANGED <<shutdown, results, acc>>

Asleep == {w \in Workers : loop[w] = "asleep"}
Awake(woken) == [w \in Workers |-> IF w \in woken THEN "own" ELSE loop[w]]

\* A worker counts itself as parked before it sleeps; a wake-up in between is as
\* lost as one before it counted, which makes the two moments one here.
Notify(t) ==
    /\ In(t, "notify")
    /\ \/ Asleep = {} /\ UNCHANGED loop
       \/ Top(t).all /\ Asleep # {} /\ loop' = Awake(Asleep)
       \/ ~ Top(t).all /\ \E w \in Asleep : loop' = Awake({w})
    /\ Return(t, <<>>)
    /\ UNCHANGED <<queues, shutdown, results, acc>>

--------------------------------------------------------------------------------
(* worker_loop(). *)

At(w, label) == ~ Busy(w) /\ loop[w] = label

Goto(w, label) == loop' = [loop EXCEPT ![w] = label]

\* Step 1: the newest task of the worker's own deque.
PopOwn(w) ==
    /\ At(w, "own") /\ ~ shutdown
    /\ \/ /\ deque[w] # <<>>
          /\ deque' = [deque EXCEPT ![w] = Front(@)]
          /\ Call(w, BodyOf(Last(deque[w])))
          /\ UNCHANGED loop
       \/ /\ deque[w] = <<>>
          /\ Goto(w, "external")
          /\ UNCHANGED <<deque, calls>>
    /\ UNCHANGED <<external, submitted, shutdown, results, acc>>

\* What a worker takes besides the task it runs: its share of what is left.
Share(rest) == Len(rest) \div (Cardinality(Workers) + 1)
Taken(rest) == SubSeq(rest, 1, Share(rest))

Left(rest) == SubSeq(rest, Share(rest) + 1, Len(rest))

\* Step 2: a task of the shared queue, and a share of the others for the deque.
TakeExternal(w) ==
    /\ At(w, "external")
    /\ \/ /\ external # <<>>
          /\ external' = Left(Tail(external))
          /\ deque' = [deque EXCEPT ![w] = @ \o Taken(Tail(external))]
          /\ Call(w, BodyOf(Head(external)))
          /\ Goto(w, "own")
       \/ /\ external = <<>>
          /\ Goto(w, "steal")
          /\ UNCHANGED <<external, deque, calls>>
    /\ UNCHANGED <<submitted, shutdown, results, acc>>

\* Step 3: the oldest task of another worker.
StealFrom(v) ==
    /\ deque[v] # <<>>
    /\ deque' = [deque EXCEPT ![v] = Tail(@)]
    /\ UNCHANGED <<external, submitted, shutdown, results, acc>>

Steal(w) ==
    /\ At(w, "steal") /\ ~ shutdown
    /\ \E v \in Workers \ {w} :
          /\ StealFrom(v)
          /\ Call(w, BodyOf(Head(deque[v])))
    /\ Goto(w, "own")

\* Step 4: the 64 attempts at random victims are used up, or the flag ends them;
\* the worker sleeps, counted as parked, until a wake-up or the timeout of 1 ms.
Park(w) ==
    /\ At(w, "steal")
    /\ Goto(w, "asleep")
    /\ UNCHANGED <<queues, calls, shutdown, results, acc>>

\* Mutant: only shutdown ends the wait.
TimeoutNever(w) ==
    /\ At(w, "asleep") /\ shutdown
    /\ Goto(w, "own")
    /\ UNCHANGED <<queues, calls, shutdown, results, acc>>

Timeout(w) ==
    /\ At(w, "asleep")
    /\ Goto(w, "own")
    /\ UNCHANGED <<queues, calls, shutdown, results, acc>>

Exit(w) ==
    /\ At(w, "own") /\ shutdown
    /\ Goto(w, "exit")
    /\ UNCHANGED <<queues, calls, shutdown, results, acc>>

--------------------------------------------------------------------------------
(* Results and continuations. *)

\* set_value() and set_exception(): the handlers are taken out under the lock
\* and run after it.
Settle(t, r, how) ==
    /\ outcome' = [outcome EXCEPT ![r] = how]
    /\ handlers' = [handlers EXCEPT ![r] = <<>>]
    /\ Return(t, IF handlers[r] = <<>> THEN <<>> ELSE <<Firing(r, handlers[r])>>)

SetResult(t) ==
    /\ In(t, "set")
    /\ Settle(t, Top(t).of, Top(t).how)
    /\ UNCHANGED <<queues, loop, shutdown, remaining, failed, registered, acc>>

\* A body is over: the wrapper around a task sets its result, or its exception.
EndBody(t) ==
    /\ In(t, "body") /\ Top(t).next > Len(Body[Top(t).of])
    /\ LET x == Top(t).of
       IN \/ /\ x \in Callers
             /\ Return(t, <<>>)
             /\ UNCHANGED <<outcome, handlers>>
          \/ x \in Tasks /\ Settle(t, x, "ok")
          \/ x \in MayFail /\ Settle(t, x, "error")
    /\ UNCHANGED <<queues, loop, shutdown, remaining, failed, registered, acc>>

\* The rest of a frame that fires handlers, below what the first one calls.
FiredFirst(t, frames) ==
    LET left == Tail(Top(t).left)
    IN Return(t, (IF left = <<>> THEN <<>> ELSE <<Firing(Top(t).of, left)>>) \o frames)

\* Mutant: the last input is not counted.
FanInButOne(j) == Cardinality(Sources(j)) - 1
FanIn(j) == Cardinality(Sources(j))

\* The handlers of when_all(): the last success sets the combined result, the
\* first failure its exception.
CountDown(t, j) ==
    /\ j \in Joins
    /\ \/ /\ outcome[Top(t).of] = "ok"
          /\ remaining' = [remaining EXCEPT ![j] = @ - 1]
          /\ FiredFirst(t, IF remaining[j] = 1 /\ ~ failed[j] THEN <<Setting(j, "ok")>> ELSE <<>>)
          /\ UNCHANGED failed
       \/ /\ outcome[Top(t).of] = "error"
          /\ failed' = [failed EXCEPT ![j] = TRUE]
          /\ FiredFirst(t, IF failed[j] THEN <<>> ELSE <<Setting(j, "error")>>)
          /\ UNCHANGED remaining
    /\ UNCHANGED <<queues, loop>>

\* Mutant: the handler that submits runs whatever the result.
ContinueAnyway(t, x) ==
    /\ x \in Tasks
    /\ Put(t, <<x>>)
    /\ loop' = Started
    /\ FiredFirst(t, <<Notifying(FALSE)>>)
    /\ UNCHANGED <<remaining, failed>>

\* The handlers of then() and dataflow(): the task is submitted, or gets the
\* exception without having run.
Continue(t, x) ==
    /\ x \in Tasks
    /\ \/ /\ outcome[Top(t).of] = "ok"
          /\ Put(t, <<x>>)
          /\ loop' = Started
          /\ FiredFirst(t, <<Notifying(FALSE)>>)
       \/ /\ outcome[Top(t).of] = "error"
          /\ FiredFirst(t, <<Setting(x, "error")>>)
          /\ UNCHANGED <<queues, loop>>
    /\ UNCHANGED <<remaining, failed>>

Fire(t) ==
    /\ In(t, "fire")
    /\ LET x == Head(Top(t).left) IN CountDown(t, x) \/ Continue(t, x)
    /\ UNCHANGED <<outcome, handlers, registered, shutdown, acc>>

\* Mutant: the handlers are registered without a look at the result.
OnCompleteLater(t) ==
    /\ Does(t, "after")
    /\ handlers' = [handlers EXCEPT ![Op(t).on] = Append(@, Op(t).run)]
    /\ registered' = registered \union {<<Op(t).on, Op(t).run>>}
    /\ Return(t, <<Advanced(t)>>)
    /\ UNCHANGED <<queues, loop, shutdown, outcome, remaining, failed, acc>>

\* on_complete(): the pair of handlers waits for the result, or one of them runs
\* at once, after the lock.
OnComplete(t) ==
    /\ Does(t, "after")
    /\ LET r == Op(t).on
           x == Op(t).run
       IN \/ /\ ~ Over(r)
             /\ handlers' = [handlers EXCEPT ![r] = Append(@, x)]
             /\ Return(t, <<Advanced(t)>>)
          \/ /\ Over(r)
             /\ Return(t, <<Advanced(t), Firing(r, <<x>>)>>)
             /\ UNCHANGED handlers
    /\ registered' = registered \union {<<Op(t).on, Op(t).run>>}
    /\ UNCHANGED <<queues, loop, shutdown, outcome, remaining, failed, acc>>

\* get() and wait() block until the result is there, and wait_all() until those
\* of a group are; none of them helps.  A task that is handed an exception throws it.
Wait(t) ==
    /\ Does(t, "wait")
    /\ \A r \in Op(t).on : Over(r)
    /\ IF Top(t).of \in Tasks /\ \E r \in Op(t).on : outcome[r] = "error"
       THEN Return(t, <<Setting(Top(t).of, "error")>>)
       ELSE Return(t, <<Advanced(t)>>)
    /\ UNCHANGED <<queues, loop, shutdown, results, acc>>

--------------------------------------------------------------------------------
(* help_until(), as parallel_for() and the executors call it. *)

StartHelping(t) ==
    /\ Does(t, "help")
    /\ Return(t, <<Advanced(t), Helping(Op(t).on)>>)
    /\ UNCHANGED <<queues, loop, shutdown, results, acc>>

HelpAt(t, label) == In(t, "help") /\ Top(t).at = label
HelpGoto(t, label) == [Top(t) EXCEPT !.at = label]

\* The predicate, which says that all chunks or nodes are over, and the flag.
HelpTest(t) ==
    /\ HelpAt(t, "test")
    /\ \/ /\ shutdown \/ \A x \in Top(t).on : Over(x)
          /\ Return(t, <<>>)
       \/ /\ ~ shutdown /\ \E x \in Top(t).on : ~ Over(x)
          /\ Return(t, <<HelpGoto(t, "external"), Notifying(FALSE)>>)
    /\ UNCHANGED <<queues, loop, shutdown, results, acc>>

HelpExternal(t) ==
    /\ HelpAt(t, "external")
    /\ \/ /\ external # <<>>
          /\ external' = Tail(external)
          /\ Return(t, <<HelpGoto(t, "test"), BodyOf(Head(external))>>)
       \/ /\ external = <<>>
          /\ Return(t, <<HelpGoto(t, "steal")>>)
          /\ UNCHANGED external
    /\ UNCHANGED <<deque, submitted, loop, shutdown, results, acc>>

\* Every deque is a victim, the helper's own among them.
HelpSteal(t) ==
    /\ HelpAt(t, "steal")
    /\ \E v \in Workers :
          /\ StealFrom(v)
          /\ Return(t, <<HelpGoto(t, "test"), BodyOf(Head(deque[v]))>>)
    /\ UNCHANGED loop

HelpMiss(t) ==
    /\ HelpAt(t, "steal")
    /\ Return(t, <<HelpGoto(t, "test")>>)
    /\ UNCHANGED <<queues, loop, shutdown, results, acc>>

--------------------------------------------------------------------------------
(* parallel_reduce(): a chunk's body adds to the accumulator of its thread's    *)
(* slot, a read and a write that nothing protects.                              *)

\* Mutant: the slot of worker 0 is the caller's.
SlotWithoutOffset(t) == IF t \in Workers THEN t ELSE 0
SlotOf(t) == IF t \in Workers THEN t + 1 ELSE 0
Slots == {0} \union {w + 1 : w \in Workers}

ReadAcc(t) ==
    /\ Does(t, "read")
    /\ Return(t, <<[Advanced(t) EXCEPT !.copy = acc[SlotOf(t)]]>>)
    /\ UNCHANGED <<queues, loop, shutdown, results, acc>>

WriteAcc(t) ==
    /\ Does(t, "write")
    /\ acc' = [acc EXCEPT ![SlotOf(t)] = Top(t).copy \union {Top(t).of}]
    /\ Return(t, <<Advanced(t)>>)
    /\ UNCHANGED <<queues, loop, shutdown, results>>

--------------------------------------------------------------------------------
(* shutdown(), which the runtime calls when the program's threads are done.     *)

JoinCallers(t) ==
    /\ Does(t, "join")
    /\ \A c \in Op(t).on : ~ Busy(c)
    /\ Return(t, <<Advanced(t)>>)
    /\ UNCHANGED <<queues, loop, shutdown, results, acc>>

\* The flag is set and all who sleep are woken, again and again for 10 ms.
StartShutdown(t) ==
    /\ Does(t, "shutdown") /\ ~ shutdown
    /\ shutdown' = TRUE
    /\ loop' = Awake(Asleep)
    /\ UNCHANGED <<queues, calls, results, acc>>

JoinWorkers(t) ==
    /\ Does(t, "shutdown") /\ shutdown
    /\ \A w \in Workers : loop[w] \in {"new", "exit"}
    /\ Return(t, <<Advanced(t)>>)
    /\ UNCHANGED <<queues, loop, shutdown, results, acc>>

--------------------------------------------------------------------------------
Init ==
    /\ external = <<>>
    /\ deque = [w \in Workers |-> <<>>]
    /\ loop = [w \in Workers |-> "new"]
    /\ calls = [t \in Threads |-> IF t \in Callers THEN <<BodyOf(t)>> ELSE <<>>]
    /\ shutdown = FALSE
    /\ outcome = [r \in Results |-> "none"]
    /\ handlers = [r \in Results |-> <<>>]
    /\ remaining = [j \in Joins |-> FanIn(j)]
    /\ failed = [j \in Joins |-> FALSE]
    /\ acc = [s \in Slots |-> {}]
    /\ submitted = {}
    /\ registered = {}

\* What a thread does inside of a call, on its own.
Proceed(t) ==
    \/ Submit(t) \/ Notify(t)
    \/ EndBody(t) \/ SetResult(t) \/ Fire(t) \/ OnComplete(t) \/ Wait(t)
    \/ StartHelping(t) \/ HelpTest(t) \/ HelpExternal(t) \/ HelpMiss(t)
    \/ ReadAcc(t) \/ WriteAcc(t)
    \/ JoinCallers(t) \/ StartShutdown(t) \/ JoinWorkers(t)

\* What a worker does between two tasks.
Loop(w) == PopOwn(w) \/ TakeExternal(w) \/ Park(w) \/ Timeout(w) \/ Exit(w)

Done == (\A t \in Threads : ~ Busy(t)) /\ (\A w \in Workers : loop[w] = "exit") /\ UNCHANGED vars

Next ==
    \/ \E t \in Threads : Proceed(t) \/ HelpSteal(t)
    \/ \E w \in Workers : Loop(w) \/ Steal(w)
    \/ Done

\* A thread that can go on does, the timeout of a parked worker expires, and the
\* random victims of a worker that tries again and again include one with a task.
\* Nothing is assumed of the thefts of helpers.
Fairness ==
    /\ \A t \in Threads : WF_vars(Proceed(t))
    /\ \A w \in Workers : WF_vars(Loop(w)) /\ SF_vars(Steal(w))

Spec == Init /\ [][Next]_vars /\ Fairness

--------------------------------------------------------------------------------
(* Properties. *)

\* Types: queues hold tasks, frames name what exists (TaskPool.hpp, the members).
PoolTypeOK ==
    /\ external \in Seq(Tasks) /\ deque \in [Workers -> Seq(Tasks)]
    /\ loop \in [Workers -> {"new", "own", "external", "steal", "asleep", "exit"}]
    /\ shutdown \in BOOLEAN
    /\ outcome \in [Results -> {"none", "ok", "error"}]
    /\ handlers \in [Results -> Seq(Results)]
    /\ \A j \in Joins : remaining[j] \in 0 .. Cardinality(Sources(j))
    /\ failed \in [Joins -> BOOLEAN]
    /\ acc \in [Slots -> SUBSET Tasks]
    /\ submitted \subseteq Tasks /\ registered \subseteq Results \X Results

\* Where a task is waiting, is run, or is about to be over.
Spots(s, x) == {n \in DOMAIN s : s[n] = x}
FramesOf(t, x) == {n \in DOMAIN calls[t] : calls[t][n].op \in {"body", "set"} /\ calls[t][n].of = x}
InExternal(x) == {<<"external", n>> : n \in Spots(external, x)}
InDeques(x) == UNION {{<<"deque", w, n>> : n \in Spots(deque[w], x)} : w \in Workers}
InCalls(x) == UNION {{<<"calls", t, n>> : n \in FramesOf(t, x)} : t \in Threads}
Places(x) == InExternal(x) \union InDeques(x) \union InCalls(x)

Dependents == {x \in Results : Sources(x) # {}}

\* Some thread has still to run one of the handlers of x, or to set its result.
Pending(x) ==
    \E t \in Threads : \E n \in DOMAIN calls[t] :
        LET f == calls[t][n]
        IN \/ f.op = "fire" /\ x \in ToSet(f.left)
           \/ f.op = "set" /\ f.of = x

SeenTo(x) == Over(x) \/ x \in submitted

\* What x is to run after is there: one failure is enough.
Ready(x) ==
    \/ \A r \in Sources(x) : <<r, x>> \in registered /\ Over(r)
    \/ \E r \in Sources(x) : <<r, x>> \in registered /\ outcome[r] = "error"

\* Nothing is lost or done twice.  A submitted task that is not over is in exactly
\* one place, whoever moved it: enqueue(), a worker's share of the shared queue, a
\* thief, a helper.  What was registered with results that are there is not orphaned,
\* in whatever order set_value() or set_exception() of one thread and on_complete() of
\* another take the lock: it is submitted or over, or some thread still sees to it.
NothingLost ==
    /\ \A x \in Tasks :
          /\ Over(x) => Places(x) = {}
          /\ x \in submitted /\ ~ Over(x) => Places(x) # {}
          /\ \A p, q \in Places(x) : p = q
    /\ \A x \in Dependents : Ready(x) => SeenTo(x) \/ Pending(x)

\* A continuation is submitted, and a join succeeds, only when everything it needs
\* succeeded; either has an exception of its own, or that of an input (exactly one
\* of the two handlers fires, TaskHandle.hpp:103).
InputsFirst ==
    \A x \in Dependents :
        /\ x \in submitted \/ outcome[x] = "ok" => \A r \in Sources(x) : outcome[r] = "ok"
        /\ outcome[x] = "error" => x \in submitted \/ \E r \in Sources(x) : outcome[r] = "error"

\* Each chunk that succeeded has its contribution in the accumulators, once: no update
\* of a slot is lost to another thread's (parallel_reduce(), TaskPool.hpp:199).
Chunks == {x \in Tasks : \E n \in DOMAIN Body[x] : Body[x][n].op = "write"}
ReductionComplete ==
    /\ \A x \in Chunks : outcome[x] = "ok" => \E s \in Slots : x \in acc[s]
    /\ \A s, u \in Slots : s # u => acc[s] \intersect acc[u] = {}

\* Every caller's get(), help_until() and shutdown() returns and the workers leave,
\* however wake-ups are lost between a scan of the queues and the wait.
EveryCallReturns == <>[]((\A c \in Callers : ~ Busy(c)) /\ \A w \in Workers : loop[w] = "exit")
================================================================================
