------------------------------ MODULE TaskQueue ------------------------------
(***************************************************************************)
(* What the thread pool promises its user: a bounded first-in first-out    *)
(* queue whose tasks idle workers take and run, one each, and which after  *)
(* it is closed accepts no more and runs what it has.                      *)
(***************************************************************************)
EXTENDS Naturals, Sequences

CONSTANTS Workers, Capacity, Tasks, Nothing

VARIABLES
    pending,    \* tasks added and not taken
    running,    \* the task a worker runs, or Nothing
    closed      \* thread_pool_destroy has been called

queueVars == <<pending, running, closed>>

QueueInit ==
    /\ pending = <<>>
    /\ running = [w \in Workers |-> Nothing]
    /\ closed = FALSE

Put ==
    /\ ~closed
    /\ Len(pending) < Capacity
    /\ \E t \in Tasks : pending' = Append(pending, t)
    /\ UNCHANGED <<running, closed>>

Get(w) ==
    /\ running[w] = Nothing
    /\ pending # <<>>
    /\ running' = [running EXCEPT ![w] = Head(pending)]
    /\ pending' = Tail(pending)
    /\ UNCHANGED closed

Finish(w) ==
    /\ running[w] # Nothing
    /\ running' = [running EXCEPT ![w] = Nothing]
    /\ UNCHANGED <<pending, closed>>

Close ==
    /\ ~closed
    /\ closed' = TRUE
    /\ UNCHANGED <<pending, running>>

GetAny == \E w \in Workers : Get(w)

QueueNext == Put \/ Close \/ GetAny \/ \E w \in Workers : Finish(w)

\* While a worker is free and a task is pending, some worker takes one.
QueueSpec ==
    /\ QueueInit /\ [][QueueNext]_queueVars
    /\ WF_queueVars(GetAny)
    /\ \A w \in Workers : WF_queueVars(Finish(w))

=============================================================================
