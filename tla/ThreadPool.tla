----------------------------- MODULE ThreadPool -----------------------------
(***************************************************************************)
(* The thread pool of src/server/thread_pool.c: a bounded queue, a mutex,  *)
(* the condition variables not_empty and not_full, and shutdown.           *)
(*                                                                         *)
(* The server's main thread is the only caller: it adds tasks one after    *)
(* the other and in the end destroys the pool.  What a thread does between *)
(* taking the mutex and giving it up, by unlocking or by waiting, is one   *)
(* step.  A thread in pthread_cond_wait is "waiting" until a signal, a     *)
(* broadcast or a spurious wake-up makes it "woken"; it then competes for  *)
(* the mutex like any other and tests its condition again.                 *)
(***************************************************************************)
EXTENDS Naturals, Sequences, FiniteSets, WorkerThreads

CONSTANTS
    Capacity,     \* queue.capacity
    MaxTasks,     \* bound: tasks added in a run
    NoTask

ASSUME CapacityAssumption == Capacity \in Nat \ {0}
ASSUME TasksAssumption == MaxTasks \in Nat /\ NoTask \notin 1 .. MaxTasks

VARIABLES
    queue,       \* the task list; queue.size is its length
    shutdown,
    caller,      \* where the main thread is
    added,       \* tasks added so far; a task is the number of its addition
    worker,      \* where each worker is
    task         \* the task a worker has taken

vars == <<queue, shutdown, caller, added, worker, task>>

Init ==
    /\ queue = <<>>
    /\ shutdown = FALSE
    /\ caller = "creating"
    /\ added = 0
    /\ worker = [w \in Workers |-> "none"]
    /\ task = [w \in Workers |-> NoTask]

Waiting == {w \in Workers : worker[w] = "waiting"}

-----------------------------------------------------------------------------
(* The workers.                                                            *)

\* A worker that gets the mutex, first or again after a wait.
AtMutex(w) == worker[w] \in {"locking", "woken"}

WaitForTask(w) ==
    /\ AtMutex(w)
    /\ queue = <<>>
    /\ ~shutdown
    /\ worker' = [worker EXCEPT ![w] = "waiting"]
    /\ UNCHANGED <<queue, shutdown, caller, added, task>>

MayExit_Mutant == shutdown

\* A worker leaves only when the queue is drained.
MayExit == shutdown /\ queue = <<>>

ExitWorker(w) ==
    /\ AtMutex(w)
    /\ MayExit
    /\ worker' = [worker EXCEPT ![w] = "exited"]
    /\ UNCHANGED <<queue, shutdown, caller, added, task>>

SignalNotFull_Mutant == UNCHANGED caller

SignalNotFull == caller' = IF caller = "waiting" THEN "woken" ELSE caller

TakeTask(w) ==
    /\ AtMutex(w)
    /\ queue # <<>>
    /\ task' = [task EXCEPT ![w] = Head(queue)]
    /\ queue' = Tail(queue)
    /\ SignalNotFull
    /\ worker' = [worker EXCEPT ![w] = "running"]
    /\ UNCHANGED <<shutdown, added>>

\* task->function returns and the task is freed.
FinishTask(w) ==
    /\ worker[w] = "running"
    /\ task' = [task EXCEPT ![w] = NoTask]
    /\ worker' = [worker EXCEPT ![w] = "locking"]
    /\ UNCHANGED <<queue, shutdown, caller, added>>

thread_worker(w) == WaitForTask(w) \/ ExitWorker(w) \/ TakeTask(w) \/ FinishTask(w)

-----------------------------------------------------------------------------
(* The main thread.                                                        *)

Broadcast == worker' = [w \in Workers |-> IF w \in Waiting THEN "woken" ELSE worker[w]]

\* pthread_create for every worker; when one fails, those there are leave and are joined.
thread_pool_create ==
    /\ caller = "creating"
    /\ \/ /\ \E w \in Workers : worker[w] = "none" /\ worker' = [worker EXCEPT ![w] = "locking"]
          /\ caller' = IF \A w \in Workers : worker'[w] # "none" THEN "out" ELSE "creating"
          /\ UNCHANGED shutdown
       \/ /\ shutdown' = TRUE
          /\ Broadcast
          /\ caller' = "joining"
    /\ UNCHANGED <<queue, added, task>>

\* A call of thread_pool_add that has its node.  One whose allocation fails returns before
\* it takes the mutex: it leaves the pool as it is, and ServerLoop has what its caller does.
CallAdd ==
    /\ caller = "out"
    /\ added < MaxTasks
    /\ caller' = "locking"
    /\ UNCHANGED <<queue, shutdown, added, worker, task>>

IsFull == Len(queue) = Capacity

WaitForRoom ==
    /\ caller \in {"locking", "woken"}
    /\ IsFull
    /\ ~shutdown
    /\ caller' = "waiting"
    /\ UNCHANGED <<queue, shutdown, added, worker, task>>

SignalNotEmpty_Mutant ==
    worker' = IF Len(queue) = 0 /\ Waiting # {}
              THEN [worker EXCEPT ![CHOOSE w \in Waiting : TRUE] = "woken"] ELSE worker

\* pthread_cond_signal wakes one waiter, if there is one.
SignalNotEmpty ==
    \/ \E w \in Waiting : worker' = [worker EXCEPT ![w] = "woken"]
    \/ Waiting = {} /\ UNCHANGED worker

Enqueue_Mutant(t) == <<t>> \o queue

\* The new task goes behind the tail.
Enqueue(t) == Append(queue, t)

AddTask ==
    /\ caller \in {"locking", "woken"}
    /\ ~IsFull
    /\ ~shutdown
    /\ queue' = Enqueue(added + 1)
    /\ added' = added + 1
    /\ SignalNotEmpty
    /\ caller' = "out"
    /\ UNCHANGED <<shutdown, task>>

\* With the mutex.  The branch for a pool that is shutting down is never taken: the thread
\* that adds is the one that destroys.
thread_pool_add == WaitForRoom \/ AddTask

thread_pool_destroy ==
    /\ caller = "out"
    /\ shutdown' = TRUE
    /\ Broadcast
    /\ caller' = "joining"
    /\ UNCHANGED <<queue, added, task>>

\* pthread_join of every worker; the pool is freed.
JoinWorkers ==
    /\ caller = "joining"
    /\ \A w \in Workers : worker[w] \in {"none", "exited"}
    /\ caller' = "done"
    /\ UNCHANGED <<queue, shutdown, added, worker, task>>

-----------------------------------------------------------------------------

\* POSIX lets pthread_cond_wait return without a signal.
SpuriousWakeup ==
    /\ \/ /\ \E w \in Waiting : worker' = [worker EXCEPT ![w] = "woken"]
          /\ UNCHANGED caller
       \/ /\ caller = "waiting"
          /\ caller' = "woken"
          /\ UNCHANGED worker
    /\ UNCHANGED <<queue, shutdown, added, task>>

Next ==
    \/ \E w \in Workers : thread_worker(w)
    \/ thread_pool_create
    \/ CallAdd
    \/ thread_pool_add
    \/ thread_pool_destroy
    \/ JoinWorkers
    \/ SpuriousWakeup

\* Threads are scheduled and tasks end; the main thread need not call anything.
Fairness ==
    /\ \A w \in Workers : WF_vars(thread_worker(w))
    /\ WF_vars(thread_pool_create)
    /\ WF_vars(thread_pool_add)
    /\ WF_vars(JoinWorkers)

Spec == Init /\ [][Next]_vars /\ Fairness

-----------------------------------------------------------------------------
(* Properties.                                                             *)

\* The variables have their types, and the queue stays within its capacity.
TypeOK ==
    /\ queue \in Seq(1 .. MaxTasks) /\ Len(queue) <= Capacity
    /\ shutdown \in BOOLEAN
    /\ caller \in {"creating", "out", "locking", "waiting", "woken", "joining", "done"}
    /\ added \in 0 .. MaxTasks
    /\ worker \in [Workers -> {"none", "locking", "waiting", "woken", "running", "exited"}]
    /\ task \in [Workers -> 1 .. MaxTasks \cup {NoTask}]

\* No wake-up is lost.  While a worker waits for a task, every queued task has a worker of
\* its own on its way to the mutex, so none sits behind a long transfer; the main thread
\* sleeps in thread_pool_add only while the queue is full; nobody sleeps through a shutdown.
NoLostWakeup ==
    /\ Waiting # {} => Len(queue) <= Cardinality({w \in Workers : AtMutex(w)})
    /\ caller = "waiting" => Len(queue) = Capacity
    /\ shutdown => Waiting = {}

\* When thread_pool_destroy returns, nothing is left in the queue or running.
DrainedAtJoin ==
    caller = "done" => queue = <<>> /\ \A w \in Workers : task[w] = NoTask

\* The pool seen as the queue it promises to be.
Abstract == INSTANCE TaskQueue
            WITH pending <- queue, running <- task, closed <- shutdown,
                 Tasks <- 1 .. MaxTasks, Nothing <- NoTask

\* The pool implements its promise, a bounded first-in first-out queue that is served
\* while a worker is free.
ImplementsQueue == Abstract!QueueSpec

\* thread_pool_add returns, and so does whoever joins the workers: thread_pool_destroy, and
\* a thread_pool_create that could not start them all.
CallsReturn ==
    /\ caller \in {"locking", "waiting", "woken"} ~> caller = "out"
    /\ caller = "joining" ~> caller = "done"

=============================================================================
