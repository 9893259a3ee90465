-------------------------- MODULE WorkerPoolProofs --------------------------
(***************************************************************************)
(* Theorems about WorkerPool, for any number of workers and tasks. The     *)
(* inductive invariant adds to the properties that everything queued or    *)
(* run was posted, and how the stop flag, the queue and the caller of      *)
(* stopAndDrain() go together.                                             *)
(***************************************************************************)
EXTENDS WorkerPool, SequenceTheorems, TLAPS

\* Only posted tasks are queued or run.
AllPosted ==
    /\ \A i \in 1..Len(queue) : queue[i] \in posted
    /\ \A w \in Worker : pc[w] = "running" => holds[w] \in posted

\* Two workers run two tasks, and neither is in the queue; the queue repeats none.
Distinct ==
    /\ \A v, w \in Worker :
          pc[v] = "running" /\ pc[w] = "running" /\ holds[v] = holds[w] => v = w
    /\ \A w \in Worker, i \in 1..Len(queue) :
          pc[w] = "running" => holds[w] # queue[i]
    /\ \A i, j \in 1..Len(queue) : queue[i] = queue[j] => i = j

\* Stopping is decided once, empties the queue, and ends when all have exited.
StopOrder ==
    /\ stopping <=> stopper # "idle"
    /\ stopping => queue = <<>>
    /\ stopper = "returned" => \A w \in Worker : pc[w] = "exited"

IInv == TypeOK /\ AllPosted /\ Distinct /\ StopOrder

\* The actions that leave the tasks where they are and take no worker from running.
Quiet ==
    /\ UNCHANGED <<queue, holds, posted>>
    /\ \A w \in Worker : pc'[w] = "running" <=> pc[w] = "running"

-----------------------------------------------------------------------------

\* The invariant holds at the start.
LEMMA InitInv == Init => IInv
  <1> SUFFICES ASSUME Init PROVE IInv
    OBVIOUS
  <1>1. queue = <<>> /\ Len(queue) = 0 /\ queue \in Seq(Task)
    BY DEF Init
  <1>2. TypeOK
    BY <1>1 DEF Init, TypeOK
  <1>3. AllPosted /\ Distinct
    BY <1>1 DEF Init, AllPosted, Distinct
  <1>4. StopOrder
    BY <1>1 DEF Init, StopOrder
  <1> QED
    BY <1>2, <1>3, <1>4 DEF IInv

\* A step that moves no task keeps the parts of the invariant about tasks.
LEMMA QuietKeeps == IInv /\ Quiet => AllPosted' /\ Distinct'
  BY DEF IInv, Quiet, AllPosted, Distinct

\* post() keeps the invariant: the new task was never posted before.
LEMMA PostInv == ASSUME IInv, NEW t \in Task, Post(t) PROVE IInv'
  <1> DEFINE q == Append(queue, t)
  <1>1. /\ queue' = q /\ q \in Seq(Task) /\ Len(q) = Len(queue) + 1
        /\ Len(queue) \in Nat
        /\ \A i \in 1..Len(queue) : q[i] = queue[i]
        /\ q[Len(queue) + 1] = t
    BY AppendProperties, LenProperties DEF Post, IInv, TypeOK
  <1>2. /\ t \notin posted /\ posted' = posted \cup {t} /\ ~stopping
        /\ UNCHANGED <<stopping, pc, holds, stopper>> /\ owed' = owed + 1
    BY DEF Post
  <1> HIDE DEF q
  <1>3. TypeOK'
    BY <1>1, <1>2 DEF IInv, TypeOK
  <1>4. \A i \in 1..Len(q) : i \in 1..Len(queue) \/ i = Len(queue) + 1
    BY <1>1
  <1>5. AllPosted'
    <2>1. \A i \in 1..Len(q) : q[i] \in posted'
      BY <1>1, <1>2, <1>4 DEF IInv, AllPosted
    <2>2. \A w \in Worker : pc'[w] = "running" => holds'[w] \in posted'
      BY <1>2 DEF IInv, AllPosted
    <2> QED
      BY <1>1, <2>1, <2>2 DEF AllPosted
  <1>6. Distinct'
    <2>1. \A w \in Worker, i \in 1..Len(q) : pc[w] = "running" => holds[w] # q[i]
      BY <1>1, <1>2, <1>4 DEF IInv, AllPosted, Distinct
    <2>2. \A i, j \in 1..Len(q) : q[i] = q[j] => i = j
      BY <1>1, <1>2, <1>4 DEF IInv, AllPosted, Distinct
    <2> QED
      BY <1>1, <1>2, <2>1, <2>2 DEF IInv, Distinct
  <1>7. StopOrder'
    BY <1>2 DEF IInv, StopOrder
  <1> QED
    BY <1>3, <1>5, <1>6, <1>7 DEF IInv

\* Taking a task keeps the invariant: the head leaves the queue as it starts.
LEMMA TakeInv == ASSUME IInv, NEW w \in Worker, Take(w) PROVE IInv'
  <1> DEFINE q == Tail(queue)
             h == Head(queue)
  <1>1. /\ queue \in Seq(Task) /\ queue # <<>> /\ queue' = q
        /\ pc[w] = "awake" /\ pc' = [pc EXCEPT ![w] = "running"]
        /\ holds' = [holds EXCEPT ![w] = h]
        /\ UNCHANGED <<stopping, owed, stopper, posted>>
    BY DEF Take, IInv, TypeOK
  <1>2. /\ h \in Task /\ q \in Seq(Task) /\ Len(queue) \in Nat \ {0}
        /\ Len(q) = Len(queue) - 1 /\ Len(q) \in Nat /\ h = queue[1]
        /\ \A i \in 1..Len(q) : q[i] = queue[i + 1]
    BY <1>1, HeadTailProperties, EmptySeq, LenProperties
  <1>3. \A i \in 1..Len(q) : i + 1 \in 1..Len(queue) /\ i + 1 # 1
    BY <1>2
  <1>4. 1 \in 1..Len(queue)
    BY <1>2
  <1> HIDE DEF q, h
  <1>5. TypeOK'
    BY <1>1, <1>2 DEF IInv, TypeOK
  <1>6. AllPosted'
    <2>1. \A i \in 1..Len(q) : q[i] \in posted
      BY <1>2, <1>3 DEF IInv, AllPosted
    <2>2. h \in posted
      BY <1>2, <1>4 DEF IInv, AllPosted
    <2>3. \A v \in Worker : pc'[v] = "running" => holds'[v] \in posted
      BY <1>1, <2>2 DEF IInv, TypeOK, AllPosted
    <2> QED
      BY <1>1, <2>1, <2>3 DEF AllPosted
  <1>7. Distinct'
    <2>1. \A v \in Worker : pc[v] = "running" => holds[v] # h
      BY <1>2, <1>4 DEF IInv, Distinct
    <2>2. \A u, v \in Worker : pc'[u] = "running" /\ pc'[v] = "running"
                                 /\ holds'[u] = holds'[v] => u = v
      BY <1>1, <2>1 DEF IInv, TypeOK, Distinct
    <2>3. \A i \in 1..Len(q) : h # q[i]
      BY <1>2, <1>3, <1>4 DEF IInv, Distinct
    <2>4. \A v \in Worker, i \in 1..Len(q) : pc[v] = "running" => holds[v] # q[i]
      BY <1>2, <1>3 DEF IInv, Distinct
    <2>5. \A v \in Worker, i \in 1..Len(q) : pc'[v] = "running" => holds'[v] # q[i]
      BY <1>1, <2>3, <2>4 DEF IInv, TypeOK
    <2>6. \A i, j \in 1..Len(q) : q[i] = q[j] => i = j
      <3> SUFFICES ASSUME NEW i \in 1..Len(q), NEW j \in 1..Len(q), q[i] = q[j]
                   PROVE i = j
        OBVIOUS
      <3>1. queue[i + 1] = queue[j + 1]
        BY <1>2
      <3>2. i + 1 = j + 1
        BY <1>3, <3>1 DEF IInv, Distinct
      <3> QED
        BY <3>2
    <2> QED
      BY <1>1, <2>2, <2>5, <2>6 DEF Distinct
  <1>8. StopOrder'
    BY <1>1 DEF IInv, TypeOK, StopOrder
  <1> QED
    BY <1>5, <1>6, <1>7, <1>8 DEF IInv

\* A task that ends keeps the invariant.
LEMMA FinishInv == ASSUME IInv, NEW w \in Worker, Finish(w) PROVE IInv'
  <1>1. TypeOK'
    BY DEF IInv, TypeOK, Finish
  <1>2. AllPosted' /\ Distinct'
    BY DEF IInv, TypeOK, AllPosted, Distinct, Finish
  <1>3. StopOrder'
    BY DEF IInv, TypeOK, StopOrder, Finish
  <1> QED
    BY <1>1, <1>2, <1>3 DEF IInv

\* Waiting, waking and exiting keep the invariant.
LEMMA SleepInv == ASSUME IInv, NEW w \in Worker, Spurious(w) \/ Wait(w) \/ Exit(w)
                  PROVE IInv'
  <1>1. /\ UNCHANGED <<queue, stopping, holds, owed, stopper, posted>>
        /\ pc[w] # "running" /\ pc[w] # "exited"
        /\ \E c \in {"awake", "waiting", "exited"} : pc' = [pc EXCEPT ![w] = c]
    BY DEF Spurious, Wait, Exit
  <1>2. TypeOK'
    BY <1>1 DEF IInv, TypeOK
  <1>3. Quiet
    BY <1>1 DEF IInv, TypeOK, Quiet
  <1>4. StopOrder'
    BY <1>1 DEF IInv, TypeOK, StopOrder
  <1> QED
    BY <1>2, <1>3, <1>4, QuietKeeps DEF IInv

\* A notification keeps the invariant.
LEMMA NotifyInv == IInv /\ NotifyOne => IInv'
  <1> SUFFICES ASSUME IInv, NotifyOne PROVE IInv'
    OBVIOUS
  <1>1. /\ UNCHANGED <<queue, stopping, holds, stopper, posted>>
        /\ owed \in Nat /\ owed > 0 /\ owed' = owed - 1
        /\ \/ \E w \in Waiting : pc' = [pc EXCEPT ![w] = "awake"]
           \/ pc' = pc
    BY DEF NotifyOne, IInv, TypeOK
  <1>2. owed' \in Nat
    BY <1>1
  <1>3. TypeOK'
    BY <1>1, <1>2 DEF IInv, TypeOK, Waiting
  <1>4. Quiet
    BY <1>1 DEF IInv, TypeOK, Quiet, Waiting
  <1>5. StopOrder'
    BY <1>1 DEF IInv, TypeOK, StopOrder, Waiting
  <1> QED
    BY <1>3, <1>4, <1>5, QuietKeeps DEF IInv

\* stopAndDrain() keeps the invariant: it empties the queue under the mutex.
LEMMA StopInv == IInv /\ Stop => IInv'
  <1> SUFFICES ASSUME IInv, Stop PROVE IInv'
    OBVIOUS
  <1>1. /\ queue' = <<>> /\ Len(queue') = 0 /\ queue' \in Seq(Task)
        /\ stopping' = TRUE /\ stopper' = "flagged"
        /\ UNCHANGED <<pc, holds, owed, posted>>
    BY DEF Stop, LeftByStop
  <1>2. TypeOK'
    BY <1>1 DEF IInv, TypeOK
  <1>3. AllPosted' /\ Distinct'
    BY <1>1 DEF IInv, AllPosted, Distinct
  <1>4. StopOrder'
    BY <1>1 DEF StopOrder
  <1> QED
    BY <1>2, <1>3, <1>4 DEF IInv

\* Waking all workers and joining them keep the invariant.
LEMMA DrainInv == IInv /\ (NotifyAll \/ Join) => IInv'
  <1>1. ASSUME IInv, NotifyAll PROVE IInv'
    <2>1. TypeOK'
      BY <1>1 DEF IInv, TypeOK, NotifyAll
    <2>2. Quiet
      BY <1>1 DEF IInv, TypeOK, Quiet, NotifyAll, Told, Waiting
    <2>3. StopOrder'
      BY <1>1 DEF IInv, TypeOK, StopOrder, NotifyAll
    <2> QED
      BY <1>1, <2>1, <2>2, <2>3, QuietKeeps DEF IInv
  <1>2. ASSUME IInv, Join PROVE IInv'
    <2>1. TypeOK' /\ Quiet
      BY <1>2 DEF IInv, TypeOK, Quiet, Join
    <2>2. StopOrder'
      BY <1>2 DEF IInv, TypeOK, StopOrder, Join, Joined
    <2> QED
      BY <1>2, <2>1, <2>2, QuietKeeps DEF IInv
  <1> QED
    BY <1>1, <1>2

\* Every step keeps the invariant.
LEMMA StepInv == IInv /\ [Next]_vars => IInv'
  <1> SUFFICES ASSUME IInv, [Next]_vars PROVE IInv'
    OBVIOUS
  <1>1. ASSUME NEW t \in Task, Post(t) PROVE IInv'
    BY <1>1, PostInv
  <1>2. ASSUME NEW w \in Worker, Step(w) PROVE IInv'
    BY <1>2, TakeInv, FinishInv, SleepInv DEF Step
  <1>3. CASE NotifyOne
    BY <1>3, NotifyInv
  <1>4. CASE Stop
    BY <1>4, StopInv
  <1>5. CASE NotifyAll \/ Join
    BY <1>5, DrainInv
  <1>6. CASE UNCHANGED vars
    BY <1>6 DEF vars, IInv, TypeOK, AllPosted, Distinct, StopOrder
  <1> QED
    BY <1>1, <1>2, <1>3, <1>4, <1>5, <1>6 DEF Next

\* Every reachable state is well typed and satisfies the invariant.
THEOREM Invariance == Spec => []IInv
  BY InitInv, StepInv, PTL DEF Spec

\* A task is never run by two workers, nor run while it is queued.
THEOREM OnePlaceHolds == Spec => []OnePlace
  <1>1. IInv => OnePlace
    BY DEF IInv, Distinct, OnePlace, Held, InQueue, Running
  <1> QED
    BY <1>1, Invariance, PTL

\* After stopAndDrain() has returned no task runs, and none ever will.
THEOREM QuietAfterStopHolds == Spec => []QuietAfterStop
  <1>1. IInv => QuietAfterStop
    BY DEF IInv, StopOrder, QuietAfterStop, Running
  <1> QED
    BY <1>1, Invariance, PTL

-----------------------------------------------------------------------------
(* WorkerPool implements TaskPool. *)

\* A quiet step changes nothing the users of the pool see of running tasks.
LEMMA HeldQuiet == Quiet => Held' = Held
  BY DEF Quiet, Held, Running

\* Until the caller of stopAndDrain() moves, the phase stays.
LEMMA PhaseKept == stopper' = stopper => Phase' = Phase
  BY DEF Phase

\* The phases, one by one.
LEMMA Phases == /\ stopper = "idle" => Phase = "open"
                /\ stopper \in {"flagged", "joining"} => Phase = "closing"
                /\ stopper = "returned" => Phase = "closed"
  BY DEF Phase

\* post() accepts a task.
LEMMA PostAccepts == ASSUME IInv, NEW t \in Task, Post(t) PROVE Promise!Accept(t)
  <1>1. Held' = Held /\ Phase' = Phase
    BY PhaseKept DEF Post, Held, Running
  <1>2. Phase = "open"
    BY Phases DEF IInv, StopOrder, Post
  <1> QED
    BY <1>1, <1>2 DEF Post, Promise!Accept

\* Taking the head of the queue starts it.
LEMMA TakeStarts == ASSUME IInv, NEW w \in Worker, Take(w) PROVE Promise!Start
  <1>1. Phase' = Phase /\ Phase = "open"
    BY PhaseKept, Phases DEF IInv, StopOrder, Take
  <1>2. Held' = Held \cup {Head(queue)}
    <2>1. /\ pc[w] = "awake" /\ pc' = [pc EXCEPT ![w] = "running"]
          /\ holds' = [holds EXCEPT ![w] = Head(queue)]
          /\ pc \in [Worker -> {"awake", "waiting", "running", "exited"}]
          /\ holds \in [Worker -> Task \cup {None}]
      BY DEF Take, IInv, TypeOK
    <2>2. Running' = Running \cup {w} /\ w \notin Running
      BY <2>1 DEF Running
    <2>3. \A v \in Running : holds'[v] = holds[v]
      BY <2>1, <2>2 DEF Running
    <2>4. holds'[w] = Head(queue)
      BY <2>1
    <2> QED
      BY <2>2, <2>3, <2>4 DEF Held
  <1> QED
    BY <1>1, <1>2 DEF Take, Promise!Start

\* A task that returns ends: no other worker holds it.
LEMMA FinishEnds == ASSUME IInv, NEW w \in Worker, Finish(w)
                    PROVE holds[w] \in Task /\ Promise!End(holds[w])
  <1>1. /\ pc[w] = "running" /\ pc' = [pc EXCEPT ![w] = "awake"]
        /\ holds' = [holds EXCEPT ![w] = None]
        /\ pc \in [Worker -> {"awake", "waiting", "running", "exited"}]
        /\ holds \in [Worker -> Task \cup {None}]
    BY DEF Finish, IInv, TypeOK
  <1>2. holds[w] \in Task /\ holds[w] \in Held
    BY <1>1 DEF IInv, TypeOK, AllPosted, Held, Running
  <1>3. Running' = Running \ {w} /\ w \in Running
    BY <1>1 DEF Running
  <1>4. \A v \in Running \ {w} : holds'[v] = holds[v] /\ holds[v] # holds[w]
    BY <1>1, <1>3 DEF Running, IInv, Distinct
  <1>5. Held' = Held \ {holds[w]}
    BY <1>3, <1>4 DEF Held
  <1>6. Phase' = Phase
    BY PhaseKept DEF Finish
  <1> QED
    BY <1>2, <1>5, <1>6 DEF Finish, Promise!End

\* Every step is a step of the abstract pool or changes nothing of it.
LEMMA StepRefines == IInv /\ [Next]_vars => [Promise!PoolNext]_(Promise!poolVars)
  <1> SUFFICES ASSUME IInv, [Next]_vars
               PROVE Promise!PoolNext \/ UNCHANGED <<posted, queue, Held, Phase>>
    BY DEF Promise!poolVars
  <1>1. ASSUME NEW t \in Task, Post(t) PROVE Promise!PoolNext
    BY <1>1, PostAccepts DEF Promise!PoolNext
  <1>2. ASSUME NEW w \in Worker, Step(w)
        PROVE Promise!PoolNext \/ UNCHANGED <<posted, queue, Held, Phase>>
    <2>1. CASE Take(w)
      BY <2>1, TakeStarts DEF Promise!PoolNext
    <2>2. CASE Finish(w)
      BY <2>2, FinishEnds DEF Promise!PoolNext
    <2>3. CASE Spurious(w) \/ Wait(w) \/ Exit(w)
      <3>1. Quiet /\ stopper' = stopper
        BY <2>3 DEF Spurious, Wait, Exit, Quiet, IInv, TypeOK
      <3> QED
        BY <3>1, HeldQuiet, PhaseKept DEF Quiet
    <2> QED
      BY <1>2, <2>1, <2>2, <2>3 DEF Step
  <1>3. CASE NotifyOne
    <2>1. /\ UNCHANGED <<queue, holds, posted, stopper>>
          /\ \/ \E w \in Waiting : pc' = [pc EXCEPT ![w] = "awake"]
             \/ pc' = pc
      BY <1>3 DEF NotifyOne
    <2>2. Quiet
      BY <2>1 DEF Quiet, Waiting, IInv, TypeOK
    <2> QED
      BY <2>1, <2>2, HeldQuiet, PhaseKept
  <1>4. CASE Stop
    <2>1. Phase = "open" /\ Phase' = "closing"
      BY <1>4 DEF Stop, Phase
    <2>2. Held' = Held
      BY <1>4 DEF Stop, Held, Running
    <2>3. Promise!Close
      BY <1>4, <2>1, <2>2 DEF Stop, LeftByStop, Promise!Close
    <2> QED
      BY <2>3 DEF Promise!PoolNext
  <1>5. CASE NotifyAll
    <2>1. Quiet
      BY <1>5 DEF NotifyAll, Told, Waiting, Quiet, IInv, TypeOK
    <2>2. Phase' = Phase
      BY <1>5 DEF NotifyAll, Phase
    <2> QED
      BY <2>1, <2>2, HeldQuiet DEF Quiet
  <1>6. CASE Join
    <2>1. Phase = "closing" /\ Phase' = "closed"
      BY <1>6 DEF Join, Phase
    <2>2. Held = {} /\ Held' = Held
      BY <1>6 DEF Join, Joined, Held, Running
    <2>3. Promise!Return
      BY <1>6, <2>1, <2>2 DEF Join, Promise!Return
    <2> QED
      BY <2>3 DEF Promise!PoolNext
  <1>7. CASE UNCHANGED vars
    BY <1>7 DEF vars, Held, Running, Phase
  <1> QED
    BY <1>1, <1>2, <1>3, <1>4, <1>5, <1>6, <1>7 DEF Next

\* The pool of threads keeps the promises of TaskPool: FIFO, once, none after stop.
THEOREM Refinement == Spec => ImplementsPool
  <1>1. Init => Promise!PoolInit
    BY DEF Init, Promise!PoolInit, Held, Running, Phase
  <1> QED
    BY <1>1, StepRefines, Invariance, PTL DEF Spec, ImplementsPool, Promise!PoolSpec
=============================================================================
