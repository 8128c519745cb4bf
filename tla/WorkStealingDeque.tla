--------------------------- MODULE WorkStealingDeque ---------------------------
(* The Chase-Lev deque of one worker (WorkStealingDeque.hpp) as an x86 build   *)
(* runs it: the owner's stores go through a store buffer and reach the other   *)
(* threads one by one and in order, `_top` is written by compare-and-swap      *)
(* only, and a thread sees its own stores at once.                             *)
(*                                                                             *)
(* A step of the owner ends where it next reads what a thief writes (`_top`),  *)
(* a step of a thief where it next reads anything shared.  Whatever the owner  *)
(* does between two such reads only fills its store buffer, so push() with the *)
(* whole of grow() is one step, and its stores become visible one at a time.   *)
EXTENDS Integers, Sequences, SequencesExt

CONSTANTS
    Thieves,     \* the threads that steal: other workers and threads in help_until
    InitialCap,  \* initial_capacity: a power of two, whose mask is a remainder
    NumBuffers,  \* bound: buffers 1 .. NumBuffers are enough for MaxPush tasks
    MaxPush,     \* bound: tasks the owner pushes in a behaviour, numbered 1 .. MaxPush
    NullWindow   \* does the build store the null that a moved-from _buffer holds?

\* The capacity of each buffer: grow() doubles that of the one before.
Cap[k \in Nat] == IF k <= 1 THEN InitialCap ELSE 2 * Cap[k - 1]

ASSUME DequeAssumption ==
    /\ InitialCap \in Nat \ {0} /\ NumBuffers \in Nat \ {0} /\ MaxPush \in Nat
    /\ MaxPush <= Cap[NumBuffers]
    /\ NullWindow \in BOOLEAN

Empty == 0   \* a default-constructed std::function
Torn  == -1  \* a std::function read in the middle of its assignment
Null  == 0   \* no buffer
Tasks  == 1 .. MaxPush
Values == Tasks \cup {Empty, Torn}

\* The shared locations the owner writes with plain or atomic stores.
Bottom     == <<"bottom">>
Buffer     == <<"buffer">>
Slot(k, i) == <<"slot", k, i % Cap[k]>>
Slots      == UNION {{Slot(k, i) : i \in 0 .. Cap[k] - 1} : k \in 1 .. NumBuffers}
Locations  == {Bottom, Buffer} \cup Slots

VARIABLES
    top,    \* _top
    mem,    \* what the other threads see of _bottom, _buffer and the slots
    stores, \* the owner's store buffer, the oldest store first
    pushed, \* how many tasks were pushed: the next one is pushed + 1
    owner,  \* what the owner is in: [at, b, t]
    thief,  \* what each thief is in: [at, t, buf, item]
    runs    \* how often each value was returned by pop() or steal()

vars == <<top, mem, stores, pushed, owner, thief, runs>>

Write(l, v) == [at |-> l, val |-> v]

\* What memory holds at l once the oldest n stores of the owner have reached it.
View(n, l) ==
    LET own == {m \in 1 .. n : stores[m].at = l}
    IN  IF own = {} THEN mem[l] ELSE stores[Max(own)].val

\* What the owner reads at l: its own latest store, or memory.
Seen(l) == View(Len(stores), l)

Store(writes) == stores' = stores \o writes
Hand(item)    == runs' = [runs EXCEPT ![item] = @ + 1]

OwnerIdle == [at |-> "idle", b |-> 0, t |-> 0]
ThiefIdle == [at |-> "idle", t |-> 0, buf |-> Null, item |-> Empty]

Init ==
    /\ top = 0
    /\ mem = [l \in Locations |-> IF l = Buffer THEN 1 ELSE IF l = Bottom THEN 0 ELSE Empty]
    /\ stores = <<>>
    /\ pushed = 0
    /\ owner = OwnerIdle
    /\ thief = [h \in Thieves |-> ThiefIdle]
    /\ runs = [v \in Values |-> 0]

\* The oldest store of the owner reaches memory.
Flush ==
    /\ stores # <<>>
    /\ mem' = [mem EXCEPT ![Head(stores).at] = Head(stores).val]
    /\ stores' = Tail(stores)
    /\ UNCHANGED <<top, pushed, owner, thief, runs>>

--------------------------------------------------------------------------------
(* The owner: push() and pop().                                                *)

\* Mutant: the test for room is off by one.
FullOneLate(b, t, k) == b - t > Cap[k]

Full(b, t, k) == b - t >= Cap[k]

\* CircularBuffer::store: the assignment of a std::function takes several stores.
Assign(k, i, task) == <<Write(Slot(k, i), Torn), Write(Slot(k, i), task)>>

\* grow(): copy t .. b-1 into the buffer after `old`, then replace _buffer.  The move of
\* _buffer into _old_buffers leaves a null behind until the new buffer is assigned.
Grow(old, b, t) ==
    [n \in 1 .. b - t |-> Write(Slot(old + 1, t + n - 1), Seen(Slot(old, t + n - 1)))]
    \o (IF NullWindow THEN <<Write(Buffer, Null)>> ELSE <<>>)
    \o <<Write(Buffer, old + 1)>>

Push ==
    /\ owner.at = "idle"
    /\ pushed < MaxPush
    /\ LET b    == Seen(Bottom)
           old  == Seen(Buffer)
           full == Full(b, top, old)
           buf  == IF full THEN old + 1 ELSE old
       IN  Store((IF full THEN Grow(old, b, top) ELSE <<>>)
                 \o Assign(buf, b, pushed + 1) \o <<Write(Bottom, b + 1)>>)
    /\ pushed' = pushed + 1
    /\ UNCHANGED <<top, mem, owner, thief, runs>>

\* pop() lowers _bottom, which claims the newest task ...
PopClaim ==
    /\ owner.at = "idle"
    /\ LET b == Seen(Bottom) - 1
       IN  Store(<<Write(Bottom, b)>>) /\ owner' = [owner EXCEPT !.at = "fence", !.b = b]
    /\ UNCHANGED <<top, mem, pushed, thief, runs>>

\* ... passes the fence, for which its stores must have left the store buffer, and reads
\* _top: it takes a task no thief can reach, races for the last one, or finds nothing.
\*
\* Mutant: no fence.
Unfenced == owner.at = "fence"

Fenced == owner.at = "fence" /\ stores = <<>>

\* Mutant: a pop that takes nothing does not put _bottom back.
LeaveBottom == UNCHANGED stores

RestoreBottom == Store(<<Write(Bottom, owner.b + 1)>>)

PopTake ==
    /\ Fenced /\ top < owner.b
    /\ Hand(Seen(Slot(Seen(Buffer), owner.b)))
    /\ owner' = OwnerIdle
    /\ UNCHANGED <<top, mem, stores, pushed, thief>>

PopLast ==
    /\ Fenced /\ top = owner.b
    /\ owner' = [owner EXCEPT !.at = "last", !.t = top]
    /\ UNCHANGED <<top, mem, stores, pushed, thief, runs>>

\* Mutant: the last task is taken for none.
PopEmptyAtLast ==
    /\ Fenced /\ top >= owner.b
    /\ RestoreBottom
    /\ owner' = OwnerIdle
    /\ UNCHANGED <<top, mem, pushed, thief, runs>>

PopEmpty ==
    /\ Fenced /\ top > owner.b
    /\ RestoreBottom
    /\ owner' = OwnerIdle
    /\ UNCHANGED <<top, mem, pushed, thief, runs>>

\* The compare-and-swap on _top; won or lost, _bottom goes back to where it was.
PopRace ==
    /\ owner.at = "last"
    /\ IF top = owner.t
       THEN top' = top + 1 /\ Hand(Seen(Slot(Seen(Buffer), owner.b)))
       ELSE UNCHANGED <<top, runs>>
    /\ RestoreBottom
    /\ owner' = OwnerIdle
    /\ UNCHANGED <<mem, pushed, thief>>

--------------------------------------------------------------------------------
(* A thief: steal().                                                           *)

StealTop(h) ==
    /\ thief[h].at = "idle"
    /\ thief' = [thief EXCEPT ![h].at = "top", ![h].t = top]
    /\ UNCHANGED <<top, mem, stores, pushed, owner, runs>>

\* Reads _bottom: returns nothing when the deque looks empty.
StealBottom(h) ==
    /\ thief[h].at = "top"
    /\ thief' = [thief EXCEPT ![h] = IF @.t < mem[Bottom] THEN [@ EXCEPT !.at = "bottom"]
                                                       ELSE ThiefIdle]
    /\ UNCHANGED <<top, mem, stores, pushed, owner, runs>>

StealBuffer(h) ==
    /\ thief[h].at = "bottom"
    /\ thief' = [thief EXCEPT ![h].at = "buffer", ![h].buf = mem[Buffer]]
    /\ UNCHANGED <<top, mem, stores, pushed, owner, runs>>

\* Copies the std::function in its slot; through a null buffer the program ends here.
StealCopy(h) ==
    /\ thief[h].at = "buffer" /\ thief[h].buf # Null
    /\ thief' = [thief EXCEPT ![h].at = "copied", ![h].item = mem[Slot(thief[h].buf, thief[h].t)]]
    /\ UNCHANGED <<top, mem, stores, pushed, owner, runs>>

StealRace(h) ==
    /\ thief[h].at = "copied"
    /\ IF top = thief[h].t
       THEN top' = top + 1 /\ Hand(thief[h].item)
       ELSE UNCHANGED <<top, runs>>
    /\ thief' = [thief EXCEPT ![h] = ThiefIdle]
    /\ UNCHANGED <<mem, stores, pushed, owner>>

--------------------------------------------------------------------------------
PopStep == PopTake \/ PopLast \/ PopEmpty \/ PopRace
OwnerNext == Push \/ PopClaim \/ PopStep
ThiefNext(h) == StealTop(h) \/ StealBottom(h) \/ StealBuffer(h) \/ StealCopy(h) \/ StealRace(h)

Next == Flush \/ OwnerNext \/ \E h \in Thieves : ThiefNext(h)

\* Stores reach memory, and the owner's thread runs: worker_loop() pops again whenever
\* it has nothing else to do.  Nothing is assumed of the thieves.
Fairness == WF_vars(Flush) /\ WF_vars(PopClaim) /\ WF_vars(PopStep)

Spec == Init /\ [][Next]_vars /\ Fairness

--------------------------------------------------------------------------------
(* Properties.                                                                 *)

\* Every variable keeps its type: in particular the owner never needs a buffer beyond
\* NumBuffers, so the bound on the buffers is no restriction.
DequeTypeOK ==
    /\ top \in 0 .. MaxPush
    /\ DOMAIN mem = Locations
    /\ mem[Bottom] \in -1 .. MaxPush /\ mem[Buffer] \in 0 .. NumBuffers
    /\ \A l \in Slots : mem[l] \in Values
    /\ \A n \in DOMAIN stores : stores[n].at \in Locations
    /\ pushed \in 0 .. MaxPush
    /\ owner \in [at : {"idle", "fence", "last"}, b : -1 .. MaxPush, t : 0 .. MaxPush]
    /\ thief \in [Thieves -> [at : {"idle", "top", "bottom", "buffer", "copied"},
                              t : 0 .. MaxPush, buf : 0 .. NumBuffers, item : Values]]
    /\ runs \in [Values -> 0 .. MaxPush]

\* The tasks that wait: from _top up to the bottom of the owner, who holds on to a claimed
\* task until it has read _top.
End == IF owner.at = "idle" THEN Seen(Bottom) ELSE owner.b + 1
Waiting == [n \in 1 .. End - top |-> Seen(Slot(Seen(Buffer), top + n - 1))]

\* The deque implements the one-step deque: push() adds at the bottom, pop() returns the
\* newest and steal() the oldest waiting task, no task is returned twice or lost, and
\* nothing but a task is returned, whatever the growth of the buffer, the reuse of slots
\* and the delay of stores do to a thief that is between two of its reads.
Abstract == INSTANCE TaskDeque WITH deque <- Waiting
ImplementsTaskDeque == Abstract!Spec

\* pop() returns nothing only when no task waits: a worker that goes to look elsewhere,
\* and to park, leaves nothing of its own behind (TaskPool::worker_loop).
EmptyPopLeavesNothing ==
    [][owner.at # "idle" /\ owner'.at = "idle" /\ runs' = runs => Waiting' = <<>>]_vars

\* Every pushed task is returned by some pop() or steal(), however the thieves stall.
EveryTaskRuns == \A task \in Tasks : pushed >= task ~> runs[task] = 1

\* A thief copies a task through a buffer that is there: "Keep old buffers alive to prevent
\* use-after-free from concurrent steal()" (WorkStealingDeque.hpp).
ThiefHasBuffer == \A h \in Thieves : thief[h].at = "buffer" => thief[h].buf # Null
================================================================================
