------------------------------ MODULE TaskPool ------------------------------
(***************************************************************************)
(* What a WorkerPool promises its users: accepted tasks start in the order *)
(* they were accepted, each once; closing drops those that have not        *)
(* started, lets the running ones finish, and after it nothing runs.       *)
(***************************************************************************)
EXTENDS Sequences

CONSTANT Task

VARIABLES accepted,  \* tasks ever accepted
          pending,   \* accepted and not started, in order
          running,
          phase      \* "open", "closing" or "closed"

poolVars == <<accepted, pending, running, phase>>

PoolInit ==
    /\ accepted = {} /\ pending = <<>> /\ running = {}
    /\ phase = "open"

Accept(t) ==
    /\ phase = "open" /\ t \notin accepted
    /\ accepted' = accepted \cup {t}
    /\ pending' = Append(pending, t)
    /\ UNCHANGED <<running, phase>>

Start ==
    /\ phase = "open" /\ pending # <<>>
    /\ running' = running \cup {Head(pending)}
    /\ pending' = Tail(pending)
    /\ UNCHANGED <<accepted, phase>>

End(t) ==
    /\ t \in running
    /\ running' = running \ {t}
    /\ UNCHANGED <<accepted, pending, phase>>

Close ==
    /\ phase = "open" /\ phase' = "closing"
    /\ pending' = <<>>
    /\ UNCHANGED <<accepted, running>>

Return ==
    /\ phase = "closing" /\ running = {} /\ phase' = "closed"
    /\ UNCHANGED <<accepted, pending, running>>

PoolNext ==
    \/ \E t \in Task : Accept(t) \/ End(t)
    \/ Start \/ Close \/ Return

PoolSpec == PoolInit /\ [][PoolNext]_poolVars
=============================================================================
