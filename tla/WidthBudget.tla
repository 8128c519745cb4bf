---------------------------- MODULE WidthBudget ----------------------------
(***************************************************************************)
(* The process-wide admission control of the task pool (TaskPool,          *)
(* WidthBudget.hpp/.cpp).  A moldable task asks for a width, the number of *)
(* threads its kernel forks, and runs once that width is charged.  A       *)
(* request that does not fit is parked in a priority queue that only its   *)
(* head may leave, a task that waits for a nested run lends its width back *)
(* (BlockedScope) and takes it again without a check when the run returns. *)
(*                                                                         *)
(* The mutex of the class is modelled because the drain of the queue is a  *)
(* loop under it and the continuations of the drained requests run after   *)
(* it is dropped.  The clients follow the contract of the class: a request *)
(* is made once, and what it was granted is handed back once.              *)
(***************************************************************************)
EXTENDS Integers, Functions, Sequences

CONSTANTS
  Threads,    \* the threads that call the budget
  Workers,    \* those of them that are workers of the pool
  PoolSize,   \* the number of workers the pool was started with
  Ceilings,   \* what the OpenMP ceiling of a thread outside the pool may read
  Requests,   \* the admission requests of the run, one per gated task
  Width,      \* the width each request asks for
  MaxRank,    \* the largest rank (INT64_MAX in the code)
  Rank,       \* Priority::rank of each request, larger is more urgent
  Tiebreak,   \* Priority::tiebreak of each request, smaller is more urgent
  NoThread    \* the owner of an unlocked mutex

ASSUME BudgetAssumption ==
  /\ Workers \subseteq Threads
  /\ NoThread \notin Threads
  /\ PoolSize \in Nat \ {0}
  /\ Ceilings \subseteq Nat \ {0}
  /\ Width \in [Requests -> Nat \ {0}]
  /\ MaxRank \in Nat
  /\ Rank \in [Requests -> 0 .. MaxRank]
  /\ Tiebreak \in [Requests -> Nat]

VARIABLES
  total,   \* _total: the threads being rationed, 0 until the first use
  inUse,   \* _in_use: the width charged now
  peak,    \* _peak: the largest charge an admission made
  seq,     \* _seq: arrival number of the next parked request
  parked,  \* _parked: the heap of pending requests, as a set of entries
  mutex,   \* the thread holding _mutex
  ready,   \* per thread: requests it drained and has not resumed yet
  phase,   \* per request: where it is in its life
  grant    \* per request: the width charged for it

budgetVars == <<total, inUse, peak, seq, parked, mutex, ready, phase, grant>>

Phases == {"idle", "parked", "drained", "held", "lent", "resumed", "returned"}

\* A request in one of these phases has its grant in _in_use.
ChargedPhases == {"drained", "held", "resumed"}

Entries == [req : Requests, seq : Nat, width : Nat \ {0}]

Max2(a, b) == IF a >= b THEN a ELSE b

-----------------------------------------------------------------------------
(* The order of the queue and the charge. *)

\* less_urgent with its arguments swapped: e is admitted before f.
MoreUrgent(e, f) ==
  LET re == Rank[e.req]
      rf == Rank[f.req]
      te == Tiebreak[e.req]
      tf == Tiebreak[f.req]
  IN  \/ re > rf
      \/ re = rf /\ te < tf
      \/ re = rf /\ te = tf /\ e.seq < f.seq

\* The front of the heap: nothing parked is more urgent.
IsHead(e) == e \in parked /\ \A f \in parked : ~ MoreUrgent(f, e)

\* Variant: a request wider than the machine keeps its width.
NoClamp(w, limit) == w

\* A request wider than the machine is clamped to it, not refused.
Clamp(w, limit) == IF w <= limit THEN w ELSE limit

\* Variant: the room is tested before the width is added.
FitsIfAnyRoom(w, limit) == inUse < limit

Fits(w, limit) == inUse + w <= limit

Charge(w) ==
  /\ inUse' = inUse + w
  /\ peak' = Max2(peak, inUse + w)

\* release(): a return of more than is charged clamps the counter.
TakeBack(w) == inUse' = IF w > inUse THEN 0 ELSE inUse - w

\* machine_width(): a worker answers with the size of the pool, any other
\* thread with its OpenMP ceiling.
MachineWidths(t) == IF t \in Workers THEN {PoolSize} ELSE Ceilings

\* A thread is between two calls: it holds no lock and has run every
\* continuation of its last drain.
AtRest(t) == mutex # t /\ ready[t] = <<>>

-----------------------------------------------------------------------------
BudgetInit ==
  /\ total = 0
  /\ inUse = 0
  /\ peak = 0
  /\ seq = 0
  /\ parked = {}
  /\ mutex = NoThread
  /\ ready = [t \in Threads |-> <<>>]
  /\ phase = [r \in Requests |-> "idle"]
  /\ grant = [r \in Requests |-> 0]

\* What every acquire() does first: the total is read from the machine once.
LazyTotal(m) == total' = IF total = 0 THEN m ELSE total

\* Variant: a newcomer that fits is admitted past the queue.
AcquirePastQueue(t, r, m) ==
  /\ mutex = NoThread /\ AtRest(t) /\ phase[r] = "idle"
  /\ LazyTotal(m)
  /\ LET want == Clamp(Width[r], total')
     IN  /\ Fits(want, total')
         /\ Charge(want)
         /\ grant' = [grant EXCEPT ![r] = want]
  /\ phase' = [phase EXCEPT ![r] = "held"]
  /\ UNCHANGED <<seq, parked, mutex, ready>>

\* acquire() when nothing is parked and the clamped width fits.
AcquireGranted(t, r, m) ==
  /\ mutex = NoThread /\ AtRest(t) /\ phase[r] = "idle"
  /\ LazyTotal(m)
  /\ LET want == Clamp(Width[r], total')
     IN  /\ parked = {} /\ Fits(want, total')
         /\ Charge(want)
         /\ grant' = [grant EXCEPT ![r] = want]
  /\ phase' = [phase EXCEPT ![r] = "held"]
  /\ UNCHANGED <<seq, parked, mutex, ready>>

\* acquire() otherwise: park, keep the lock and drain.
AcquireParked(t, r, m) ==
  /\ mutex = NoThread /\ AtRest(t) /\ phase[r] = "idle"
  /\ LazyTotal(m)
  /\ LET want == Clamp(Width[r], total')
     IN  /\ ~ (parked = {} /\ Fits(want, total'))
         /\ parked' = parked \cup {[req |-> r, seq |-> seq, width |-> want]}
  /\ seq' = seq + 1
  /\ phase' = [phase EXCEPT ![r] = "parked"]
  /\ mutex' = t
  /\ UNCHANGED <<inUse, peak, ready, grant>>

Acquire(t, r, m) == AcquireGranted(t, r, m) \/ AcquireParked(t, r, m)

\* Variant: the head is taken whether it fits or not.
DrainRegardless(t) ==
  /\ mutex = t
  /\ \E e \in parked :
       /\ IsHead(e)
       /\ parked' = parked \ {e}
       /\ Charge(e.width)
       /\ ready' = [ready EXCEPT ![t] = Append(@, e.req)]
       /\ phase' = [phase EXCEPT ![e.req] = "drained"]
       /\ grant' = [grant EXCEPT ![e.req] = e.width]
  /\ UNCHANGED <<total, seq, mutex>>

\* One turn of drain_locked(): the head is charged and moved to `ready`.
DrainHead(t) ==
  /\ mutex = t
  /\ \E e \in parked :
       /\ IsHead(e) /\ Fits(e.width, total)
       /\ parked' = parked \ {e}
       /\ Charge(e.width)
       /\ ready' = [ready EXCEPT ![t] = Append(@, e.req)]
       /\ phase' = [phase EXCEPT ![e.req] = "drained"]
       /\ grant' = [grant EXCEPT ![e.req] = e.width]
  /\ UNCHANGED <<total, seq, mutex>>

\* Variant: one admission per drain, an `if` where the code has a `while`.
DrainOnce(t) ==
  /\ mutex = t
  /\ mutex' = NoThread
  /\ UNCHANGED <<total, inUse, peak, seq, parked, ready, phase, grant>>

\* The drain ends at the first head that does not fit, or at an empty queue.
DrainStop(t) ==
  /\ mutex = t
  /\ \A e \in parked : IsHead(e) => ~ Fits(e.width, total)
  /\ mutex' = NoThread
  /\ UNCHANGED <<total, inUse, peak, seq, parked, ready, phase, grant>>

\* After the unlock, the continuations run one by one in admission order.
Resume(t) ==
  /\ mutex # t /\ ready[t] # <<>>
  /\ phase' = [phase EXCEPT ![Head(ready[t])] = "held"]
  /\ ready' = [ready EXCEPT ![t] = Tail(@)]
  /\ UNCHANGED <<total, inUse, peak, seq, parked, mutex, grant>>

\* Variant: the width goes back and nobody looks at the queue.
ReleaseNoDrain(t, r, p) ==
  /\ mutex = NoThread /\ AtRest(t) /\ phase[r] \in {"held", "resumed"}
  /\ TakeBack(grant[r])
  /\ phase' = [phase EXCEPT ![r] = p]
  /\ UNCHANGED <<total, peak, seq, parked, mutex, ready, grant>>

\* release() of the width of r, which leaves r in phase p, and its drain.
Release(t, r, p) ==
  /\ mutex = NoThread /\ AtRest(t) /\ phase[r] \in {"held", "resumed"}
  /\ TakeBack(grant[r])
  /\ phase' = [phase EXCEPT ![r] = p]
  /\ mutex' = t
  /\ UNCHANGED <<total, peak, seq, parked, ready, grant>>

\* The task is over and hands its width back for good.
Return(t, r) == Release(t, r, "returned")

\* BlockedScope(): the task starts a nested run and lends its width to it.
Lend(t, r) == Release(t, r, "lent")

\* Variant: the resumed task computes on width it never took back.
ReclaimNothing(t, r) ==
  /\ mutex = NoThread /\ AtRest(t) /\ phase[r] = "lent"
  /\ phase' = [phase EXCEPT ![r] = "resumed"]
  /\ UNCHANGED <<total, inUse, peak, seq, parked, mutex, ready, grant>>

\* Variant: the width is taken off the charge a second time.
ReclaimWrongSign(t, r) ==
  /\ mutex = NoThread /\ AtRest(t) /\ phase[r] = "lent"
  /\ inUse' = inUse - grant[r]
  /\ phase' = [phase EXCEPT ![r] = "resumed"]
  /\ UNCHANGED <<total, peak, seq, parked, mutex, ready, grant>>

\* ~BlockedScope(): recharge() asks nobody and leaves the peak alone.
Reclaim(t, r) ==
  /\ mutex = NoThread /\ AtRest(t) /\ phase[r] = "lent"
  /\ inUse' = inUse + grant[r]
  /\ phase' = [phase EXCEPT ![r] = "resumed"]
  /\ UNCHANGED <<total, peak, seq, parked, mutex, ready, grant>>

\* Variant: the total moves while tasks hold it or wait for it.
SyncAlways(t, m) ==
  /\ t \notin Workers
  /\ mutex = NoThread /\ AtRest(t)
  /\ total' = m
  /\ UNCHANGED <<inUse, peak, seq, parked, mutex, ready, phase, grant>>

\* sync_machine_width(): workers return early, and only an idle budget moves.
SyncMachineWidth(t, m) ==
  /\ t \notin Workers
  /\ mutex = NoThread /\ AtRest(t)
  /\ total' = IF inUse = 0 /\ parked = {} THEN m ELSE total
  /\ UNCHANGED <<inUse, peak, seq, parked, mutex, ready, phase, grant>>

ResetPeak(t) ==
  /\ mutex = NoThread /\ AtRest(t)
  /\ peak' = inUse
  /\ UNCHANGED <<total, inUse, seq, parked, mutex, ready, phase, grant>>

Next ==
  \E t \in Threads :
    \/ DrainHead(t) \/ DrainStop(t) \/ Resume(t) \/ ResetPeak(t)
    \/ \E r \in Requests : Return(t, r) \/ Lend(t, r) \/ Reclaim(t, r)
    \/ \E r \in Requests, m \in MachineWidths(t) : Acquire(t, r, m)
    \/ \E m \in MachineWidths(t) : SyncMachineWidth(t, m)

(***************************************************************************)
(* A thread inside the budget runs on.  A task that holds width computes   *)
(* to its end or lends it a finite number of times, a nested run ends, and *)
(* a thread that waits for the mutex gets it: the guards of the last two   *)
(* flicker with the mutex, hence strong fairness.                          *)
(***************************************************************************)
Fairness ==
  /\ \A t \in Threads :
       WF_budgetVars(DrainHead(t)) /\ WF_budgetVars(DrainStop(t)) /\ WF_budgetVars(Resume(t))
  /\ \A r \in Requests :
       /\ SF_budgetVars(\E t \in Threads : Return(t, r))
       /\ SF_budgetVars(\E t \in Threads : Reclaim(t, r))

Spec == BudgetInit /\ [][Next]_budgetVars
FairSpec == Spec /\ Fairness

-----------------------------------------------------------------------------
(* Type invariant. *)

\* The counters never go below zero and every queue holds requests of the run.
TypeOK ==
  /\ total \in Nat /\ inUse \in Nat /\ peak \in Nat /\ seq \in Nat
  /\ parked \subseteq Entries
  /\ mutex \in Threads \cup {NoThread}
  /\ ready \in [Threads -> Seq(Requests)]
  /\ phase \in [Requests -> Phases]
  /\ grant \in [Requests -> Nat]

(* Safety. *)

\* The sum of the widths of the requests whose phase is in P.
WidthIn(P) == SumFunctionOnSet(grant, {r \in Requests : phase[r] \in P})

\* No unit is lost or minted: _in_use is the sum of what the admitted tasks
\* hold, whatever was lent, reclaimed or drained in between, so the clamp of
\* release() never hides an error of its callers.
Conservation == inUse = WidthIn(ChargedPhases)

\* The charge passes the total by no more than the width of the tasks that
\* resumed after a nested run: admissions alone never oversubscribe, even if
\* the total was changed while their width was lent.
OvershootBound == inUse <= total + WidthIn({"resumed"})

\* With the lock free the head of the queue does not fit: no release, lend or
\* enqueue forgets to admit a request there is room for.
HeadBlocked ==
  mutex = NoThread => \A e \in parked : IsHead(e) => ~ Fits(e.width, total)

\* What is parked can still be admitted by an empty budget: the clamp made at
\* the request is not outdated by a later change of the total.
ParkedFits == \A e \in parked : e.width <= total

\* Nobody waits for a machine nobody uses: while a request is parked and the
\* lock is free, some width is charged, so a release is still to come.
NoStranding == (mutex = NoThread /\ parked # {}) => inUse > 0

(* Action properties. *)

Waits(r) == phase[r] = "parked" /\ phase'[r] = "parked"
Admitted(r) == phase[r] \in {"idle", "parked"} /\ phase'[r] \in {"drained", "held"}

AdmitsInOrder ==
  \A r, s \in Requests :
    Waits(r) /\ Admitted(s) =>
      \/ Rank[s] > Rank[r]
      \/ Rank[s] = Rank[r] /\ Tiebreak[s] <= Tiebreak[r]

\* Head-of-line blocking: a request is never admitted past a parked one that is
\* more urgent, however well the newcomer would fit.
NoOvertaking == [][AdmitsInOrder]_budgetVars

AdmitsWithinTotal == (\E r \in Requests : Admitted(r)) => inUse' <= total'

\* An admission, at the request or by a drain, never takes the charge past the
\* total: only a reclaim may, and nothing is admitted until it is worked off.
AdmissionWithinTotal == [][AdmitsWithinTotal]_budgetVars

(* Liveness. *)

\* Every parked request is resumed, the widest ones included.
EveryParkedResumed ==
  \A r \in Requests : phase[r] = "parked" ~> phase[r] = "held"

=============================================================================
