----------------------------- MODULE WorkerPool -----------------------------
(***************************************************************************)
(* WorkerPool (native/platform/worker_pool.cpp): threads that drain a FIFO *)
(* of tasks, a mutex and a condition variable.                             *)
(*                                                                         *)
(* Every stretch of code under the mutex is one action. The notifications  *)
(* come after the mutex is released, so they are actions of their own; a   *)
(* wait may also end without one. A post after stopAndDrain() returns at   *)
(* once and changes nothing, as does a second stopAndDrain().              *)
(***************************************************************************)
EXTENDS Naturals, Sequences, FiniteSets

CONSTANTS Worker,   \* the pool's threads
          Task,     \* tasks posted during the run
          None      \* no task

ASSUME WorkerPoolAssumption ==
    /\ Worker # {} /\ IsFiniteSet(Worker) /\ IsFiniteSet(Task)
    /\ None \notin Task

VARIABLES queue,    \* queue_
          stopping, \* stopping_
          pc,       \* of each worker: "awake", "waiting", "running" or "exited"
          holds,    \* the task a worker runs
          owed,     \* notify_one() calls whose post has released the mutex
          stopper,  \* of the caller of stopAndDrain()
          posted    \* tasks accepted so far

vars == <<queue, stopping, pc, holds, owed, stopper, posted>>

Waiting == {w \in Worker : pc[w] = "waiting"}
Running == {w \in Worker : pc[w] = "running"}

Init ==
    /\ queue = <<>> /\ stopping = FALSE
    /\ pc = [w \in Worker |-> "awake"]
    /\ holds = [w \in Worker |-> None]
    /\ owed = 0 /\ stopper = "idle" /\ posted = {}

\* post(), up to the release of the mutex.
Post(t) ==
    /\ t \notin posted /\ ~stopping
    /\ queue' = Append(queue, t)
    /\ owed' = owed + 1
    /\ posted' = posted \cup {t}
    /\ UNCHANGED <<stopping, pc, holds, stopper>>

\* Plausible bug: the first task alone is announced.
WakesIfFirst(n) == n > 0 /\ Len(queue) <= 1

\* Does the notification reach a waiting worker, with n of them?
Wakes(n) == n > 0

NotifyOne ==
    /\ owed > 0 /\ owed' = owed - 1
    /\ IF Wakes(Cardinality(Waiting))
       THEN \E w \in Waiting : pc' = [pc EXCEPT ![w] = "awake"]
       ELSE UNCHANGED pc
    /\ UNCHANGED <<queue, stopping, holds, stopper, posted>>

Spurious(w) ==
    /\ pc[w] = "waiting" /\ pc' = [pc EXCEPT ![w] = "awake"]
    /\ UNCHANGED <<queue, stopping, holds, owed, stopper, posted>>

\* The negation of the wait predicate.
MayWait == ~stopping /\ queue = <<>>

Wait(w) ==
    /\ pc[w] = "awake" /\ MayWait
    /\ pc' = [pc EXCEPT ![w] = "waiting"]
    /\ UNCHANGED <<queue, stopping, holds, owed, stopper, posted>>

\* Plausible bug: the task is copied, and stays in the queue.
TakeNoPop(w) ==
    /\ pc[w] = "awake" /\ queue # <<>>
    /\ pc' = [pc EXCEPT ![w] = "running"]
    /\ holds' = [holds EXCEPT ![w] = Head(queue)]
    /\ UNCHANGED <<queue, stopping, owed, stopper, posted>>

Take(w) ==
    /\ pc[w] = "awake" /\ queue # <<>>
    /\ pc' = [pc EXCEPT ![w] = "running"]
    /\ holds' = [holds EXCEPT ![w] = Head(queue)]
    /\ queue' = Tail(queue)
    /\ UNCHANGED <<stopping, owed, stopper, posted>>

\* task() has returned.
Finish(w) ==
    /\ pc[w] = "running"
    /\ pc' = [pc EXCEPT ![w] = "awake"]
    /\ holds' = [holds EXCEPT ![w] = None]
    /\ UNCHANGED <<queue, stopping, owed, stopper, posted>>

Exit(w) ==
    /\ pc[w] = "awake" /\ queue = <<>> /\ stopping
    /\ pc' = [pc EXCEPT ![w] = "exited"]
    /\ UNCHANGED <<queue, stopping, holds, owed, stopper, posted>>

\* Plausible bug: tasks that never started are kept when the pool stops.
LeftByStopAll == queue

\* What stopAndDrain() leaves of the queue.
LeftByStop == <<>>

\* stopAndDrain(), up to the release of the mutex.
Stop ==
    /\ stopper = "idle" /\ stopper' = "flagged"
    /\ stopping' = TRUE
    /\ queue' = LeftByStop
    /\ UNCHANGED <<pc, holds, owed, posted>>

\* The workers notify_all() wakes.
Told == Waiting

NotifyAll ==
    /\ stopper = "flagged" /\ stopper' = "joining"
    /\ pc' = [w \in Worker |-> IF w \in Told THEN "awake" ELSE pc[w]]
    /\ UNCHANGED <<queue, stopping, holds, owed, posted>>

\* Plausible bug: idle workers alone are joined.
JoinedIfIdle(w) == pc[w] # "waiting"

Joined(w) == pc[w] = "exited"

Join ==
    /\ stopper = "joining" /\ \A w \in Worker : Joined(w)
    /\ stopper' = "returned"
    /\ UNCHANGED <<queue, stopping, pc, holds, owed, posted>>

Step(w) == Spurious(w) \/ Wait(w) \/ Take(w) \/ Finish(w) \/ Exit(w)

Next ==
    \/ \E t \in Task : Post(t)
    \/ \E w \in Worker : Step(w)
    \/ NotifyOne \/ Stop \/ NotifyAll \/ Join

Spec == Init /\ [][Next]_vars

\* The system runs the threads. A task may block for ever: Finish has no fairness.
ThreadFairness ==
    /\ WF_vars(NotifyOne) /\ WF_vars(NotifyAll) /\ WF_vars(Join)
    /\ \A w \in Worker : WF_vars(Wait(w) \/ Take(w) \/ Exit(w))

FairSpec == Spec /\ ThreadFairness

-----------------------------------------------------------------------------
(* Properties.                                                              *)

InQueue == {queue[i] : i \in 1..Len(queue)}
Held == {holds[w] : w \in Running}

TypeOK ==
    /\ queue \in Seq(Task)
    /\ stopping \in BOOLEAN
    /\ pc \in [Worker -> {"awake", "waiting", "running", "exited"}]
    /\ holds \in [Worker -> Task \cup {None}]
    /\ owed \in Nat
    /\ stopper \in {"idle", "flagged", "joining", "returned"}
    /\ posted \subseteq Task

\* A task is in one place at a time: no two workers run the same one, and none
\* runs a task that is still queued (worker_pool.cpp:57-58).
OnePlace ==
    /\ \A v, w \in Running : holds[v] = holds[w] => v = w
    /\ Held \cap InQueue = {}
    /\ \A i, j \in 1..Len(queue) : queue[i] = queue[j] => i = j

\* Once stopAndDrain() has returned nothing runs or can run, so that nothing
\* outlives the owner of the pool (worker_pool.h:30-32).
QuietAfterStop == stopper = "returned" => Running = {} /\ queue = <<>>

\* The pool behaves as its users assume.
Phase == CASE stopper = "idle" -> "open"
           [] stopper = "returned" -> "closed"
           [] OTHER -> "closing"

Promise == INSTANCE TaskPool WITH
    accepted <- posted, pending <- queue, running <- Held, phase <- Phase

ImplementsPool == Promise!PoolSpec

\* A queued task does not wait beside an idle worker, even if other tasks block
\* for ever: the notifications are enough.
NoneIdlesBesideWork ==
    \A t \in Task : t \in InQueue ~> (t \notin InQueue \/ Running = Worker)

\* stopAndDrain() returns, whatever the workers were doing when it was called, if
\* the tasks they run return (those of the scrapers do once they see the flag).
StopReturns ==
    <>[](Running = {}) => (stopper = "flagged" ~> stopper = "returned")

\* Nobody waits for ever: no task beside an idle worker, nor the thread that stops.
WorkGoesOn == NoneIdlesBesideWork /\ StopReturns
=============================================================================
