------------------------- MODULE ServerPoolsProofs -------------------------
(***************************************************************************)
(* Proofs about the thread pool, and about the server process around its   *)
(* two pools, for any number of workers, tasks and connections.            *)
(*                                                                         *)
(* PoolInv is the invariant of the thread pool.  It carries over to the    *)
(* server because every step of the server is one of the pool or leaves it *)
(* alone.  MainInv says how far main is with its resources; from it        *)
(* follows that nobody uses the database pool unless it is open, on which  *)
(* the invariant of the connections, ConnInv, rests.                       *)
(***************************************************************************)
EXTENDS ServerPools, FiniteSetTheorems, SequenceTheorems, TLAPS

-----------------------------------------------------------------------------
(* The thread pool.                                                        *)

AtMutexSet == {w \in Workers : AtMutex(w)}

\* A worker has a task exactly while it runs it; where the main thread is goes with the
\* shutdown flag, with the workers there are and with what may be left in the queue.
Places ==
    /\ \A w \in Workers : worker[w] = "running" <=> task[w] # NoTask
    /\ caller \in {"locking", "waiting", "woken"} => added < MaxTasks
    /\ shutdown <=> caller \in {"joining", "done"}
    /\ caller = "creating" => queue = <<>>
    /\ (\E w \in Workers : worker[w] = "none") => queue = <<>>
    /\ (\E w \in Workers : worker[w] = "none") => caller \in {"creating", "joining", "done"}
    /\ (\E w \in Workers : worker[w] = "exited") => shutdown /\ queue = <<>>
    /\ caller = "done" => \A w \in Workers : worker[w] \in {"none", "exited"}

\* The inductive invariant: no wake-up is lost because every step keeps the balance of
\* queued tasks and workers on their way to the mutex.
PoolInv == TypeOK /\ Places /\ NoLostWakeup

-----------------------------------------------------------------------------
(* The workers on their way to the mutex.                                  *)

\* They are finitely many.
LEMMA AtMutexFinite == IsFiniteSet(AtMutexSet) /\ Cardinality(AtMutexSet) \in Nat
<1>1. IsFiniteSet(AtMutexSet)
  BY WorkersAssumption, FS_Subset, Zenon DEF AtMutexSet
<1> QED
  BY <1>1, FS_CardinalityType, Zenon

\* Between two states they are more, one more, or one less.
LEMMA AtMutexGrows == AtMutexSet \subseteq AtMutexSet' => Cardinality(AtMutexSet) <= Cardinality(AtMutexSet')
<1>. SUFFICES ASSUME AtMutexSet \subseteq AtMutexSet'
              PROVE  Cardinality(AtMutexSet) <= Cardinality(AtMutexSet')
    BY Zenon
<1>1. AtMutexSet' \subseteq Workers
    BY Zenon DEF AtMutexSet
<1>2. IsFiniteSet(AtMutexSet')
    BY <1>1, WorkersAssumption, FS_Subset, Zenon
<1>. QED
    BY <1>2, FS_Subset, Zenon

\* One more.
LEMMA AtMutexGains ==
    ASSUME NEW w \in Workers, w \notin AtMutexSet, AtMutexSet' = AtMutexSet \cup {w}
    PROVE  Cardinality(AtMutexSet') = Cardinality(AtMutexSet) + 1
    BY AtMutexFinite, FS_AddElement, Zenon

\* One less.
LEMMA AtMutexLoses ==
    ASSUME NEW w \in Workers, w \in AtMutexSet, AtMutexSet' = AtMutexSet \ {w}
    PROVE  Cardinality(AtMutexSet') = Cardinality(AtMutexSet) - 1
    BY AtMutexFinite, FS_RemoveElement, Zenon

\* What taking the first task leaves.
LEMMA QueueHeadTail ==
    ASSUME NEW S, NEW q \in Seq(S), q # <<>>
    PROVE  /\ Head(q) \in S /\ Tail(q) \in Seq(S)
           /\ Len(Tail(q)) = Len(q) - 1 /\ Len(q) \in Nat
<1>1. Len(q) \in Nat /\ Len(q) # 0
    BY EmptySeq, LenProperties, Zenon
<1>2. Head(q) \in S /\ Tail(q) \in Seq(S) /\ Len(Tail(q)) = Len(q) - 1
    BY <1>1, HeadTailProperties, Zenon
<1>. QED
    BY <1>1, <1>2, Zenon

-----------------------------------------------------------------------------
(* The pool as thread_pool_create finds it.                                *)

\* The initial states satisfy the invariant.
LEMMA PoolInitInv == Init => PoolInv
<1>. SUFFICES ASSUME Init PROVE PoolInv
    BY Zenon
<1>1. TypeOK
  <2>1. <<>> \in Seq(1 .. MaxTasks) /\ Len(<<>>) = 0
    OBVIOUS
  <2>2. 0 <= Capacity /\ 0 \in 0 .. MaxTasks
    BY CapacityAssumption, TasksAssumption
  <2>. QED
    BY <2>1, <2>2, Zenon DEF Init, TypeOK
<1>2. Places
    BY Zenon DEF Init, Places
<1>3. Waiting = {}
    BY Zenon DEF Init, Waiting
<1>4. NoLostWakeup
    BY <1>3, Zenon DEF Init, NoLostWakeup
<1>. QED
    BY <1>1, <1>2, <1>4, Zenon DEF PoolInv

-----------------------------------------------------------------------------
(* The workers' steps.                                                     *)

\* A worker that goes to sleep: the queue is empty.
LEMMA WaitForTaskInv ==
    ASSUME NEW w \in Workers, PoolInv, WaitForTask(w)
    PROVE  PoolInv'
<1>. USE DEF PoolInv
<1>1. TypeOK'
    BY Zenon DEF WaitForTask, TypeOK
<1>2. Places'
    BY Zenon DEF WaitForTask, Places, TypeOK, AtMutex
<1>3. Len(queue') = 0
    BY Zenon DEF WaitForTask
<1>4. Cardinality(AtMutexSet') \in Nat
  <2>1. AtMutexSet' \subseteq Workers
    BY Zenon DEF AtMutexSet
  <2>. QED
    BY <2>1, WorkersAssumption, FS_Subset, FS_CardinalityType, Zenon
<1>5. NoLostWakeup'
    BY <1>3, <1>4 DEF WaitForTask, NoLostWakeup, AtMutexSet
<1>. QED
    BY <1>1, <1>2, <1>5, Zenon

\* A worker that exits: it was a shutdown, and nobody sleeps.
LEMMA ExitWorkerInv ==
    ASSUME NEW w \in Workers, PoolInv, ExitWorker(w)
    PROVE  PoolInv'
<1>. USE DEF PoolInv
<1>1. TypeOK'
    BY Zenon DEF ExitWorker, TypeOK
<1>2. Places'
    BY Zenon DEF ExitWorker, MayExit, Places, TypeOK, AtMutex
<1>3. Waiting' = {}
    BY Zenon DEF ExitWorker, MayExit, NoLostWakeup, Waiting, TypeOK
<1>4. NoLostWakeup'
    BY <1>3, Zenon DEF ExitWorker, NoLostWakeup
<1>. QED
    BY <1>1, <1>2, <1>4, Zenon

\* A worker that takes a task leaves the mutex, and one task less is queued.
LEMMA TakeTaskInv ==
    ASSUME NEW w \in Workers, PoolInv, TakeTask(w)
    PROVE  PoolInv'
<1>. USE DEF PoolInv
<1>1. queue \in Seq(1 .. MaxTasks) /\ queue # <<>>
    BY Zenon DEF TakeTask, TypeOK
<1>2. /\ Head(queue) \in 1 .. MaxTasks
      /\ Tail(queue) \in Seq(1 .. MaxTasks)
      /\ Len(Tail(queue)) = Len(queue) - 1
      /\ Len(queue) \in Nat
    BY <1>1, QueueHeadTail, Zenon
<1>3. TypeOK'
    BY <1>2, CapacityAssumption DEF TakeTask, SignalNotFull, TypeOK
<1>4. Places'
    BY <1>1, <1>2, TasksAssumption, Zenon DEF TakeTask, SignalNotFull, Places, TypeOK, AtMutex
<1>5. Waiting' = Waiting
    BY Zenon DEF TakeTask, AtMutex, Waiting, TypeOK
<1>6. w \in AtMutexSet /\ AtMutexSet' = AtMutexSet \ {w}
    BY Zenon DEF TakeTask, AtMutexSet, AtMutex, TypeOK
<1>7. Cardinality(AtMutexSet') = Cardinality(AtMutexSet) - 1
    BY <1>6, AtMutexLoses, Zenon
<1>8. Waiting' # {} => Len(queue') <= Cardinality(AtMutexSet')
    BY <1>2, <1>5, <1>7, AtMutexFinite DEF TakeTask, NoLostWakeup, AtMutexSet
<1>9. caller' # "waiting"
    BY Zenon DEF TakeTask, SignalNotFull
<1>10. shutdown' => Waiting' = {}
    BY <1>5, Zenon DEF TakeTask, NoLostWakeup
<1>11. NoLostWakeup'
    BY <1>8, <1>9, <1>10, Zenon DEF NoLostWakeup, AtMutexSet
<1>. QED
    BY <1>3, <1>4, <1>11, Zenon

\* A worker that has run its task comes back to the mutex.
LEMMA FinishTaskInv ==
    ASSUME NEW w \in Workers, PoolInv, FinishTask(w)
    PROVE  PoolInv'
<1>. USE DEF PoolInv
<1>1. TypeOK'
    BY Zenon DEF FinishTask, TypeOK
<1>2. Places'
    BY Zenon DEF FinishTask, Places, TypeOK
<1>3. Waiting' = Waiting /\ AtMutexSet \subseteq AtMutexSet'
    BY Zenon DEF FinishTask, Waiting, AtMutexSet, AtMutex, TypeOK
<1>4. Cardinality(AtMutexSet) <= Cardinality(AtMutexSet')
    BY <1>3, AtMutexGrows, Zenon
<1>5. Len(queue) \in Nat /\ Cardinality(AtMutexSet') \in Nat
  <2>1. AtMutexSet' \subseteq Workers
    BY Zenon DEF AtMutexSet
  <2>. QED
    BY <2>1, WorkersAssumption, FS_Subset, FS_CardinalityType, LenProperties, Zenon DEF TypeOK
<1>6. NoLostWakeup'
    BY <1>3, <1>4, <1>5, AtMutexFinite DEF FinishTask, NoLostWakeup, AtMutexSet
<1>. QED
    BY <1>1, <1>2, <1>6, Zenon

-----------------------------------------------------------------------------
(* The main thread's steps.                                                *)

\* The set stays finite in the next state too.
LEMMA AtMutexStaysFinite == Cardinality(AtMutexSet') \in Nat
<1>1. AtMutexSet' \subseteq Workers
    BY Zenon DEF AtMutexSet
<1>. QED
    BY <1>1, WorkersAssumption, FS_Subset, FS_CardinalityType, Zenon

\* A thread more, or the end of those there are.
LEMMA CreateInv ==
    ASSUME PoolInv, thread_pool_create
    PROVE  PoolInv'
<1>. USE DEF PoolInv
<1>1. CASE shutdown' = TRUE /\ Broadcast /\ caller' = "joining"
  <2>1. UNCHANGED <<queue, added, task>> /\ caller = "creating"
    BY Zenon DEF thread_pool_create
  <2>2. worker' \in [Workers -> {"none", "locking", "woken", "running", "exited"}]
    BY <1>1, Zenon DEF Broadcast, TypeOK, Waiting
  <2>3. TypeOK'
    BY <1>1, <2>1, <2>2, Zenon DEF TypeOK
  <2>4. Places'
    BY <1>1, <2>1, Zenon DEF Places, Broadcast, Waiting, TypeOK
  <2>5. Waiting' = {}
    BY <2>2, Zenon DEF Waiting
  <2>6. NoLostWakeup'
    BY <1>1, <2>5, Zenon DEF NoLostWakeup
  <2>. QED
    BY <2>3, <2>4, <2>6, Zenon
<1>2. CASE /\ \E w \in Workers : worker[w] = "none" /\ worker' = [worker EXCEPT ![w] = "locking"]
           /\ caller' = IF \A w \in Workers : worker'[w] # "none" THEN "out" ELSE "creating"
           /\ UNCHANGED shutdown
  <2>1. UNCHANGED <<queue, added, task, shutdown>> /\ caller = "creating"
    BY <1>2, Zenon DEF thread_pool_create
  <2>2. PICK w \in Workers : worker[w] = "none" /\ worker' = [worker EXCEPT ![w] = "locking"]
    BY <1>2, Zenon
  <2>3. TypeOK'
    BY <1>2, <2>1, <2>2, Zenon DEF TypeOK
  <2>4. Places'
    BY <1>2, <2>1, <2>2 DEF Places, TypeOK
  <2>5. queue' = <<>> /\ ~shutdown' /\ caller' # "waiting"
    BY <1>2, <2>1 DEF Places
  <2>6. Len(queue') = 0
    BY <2>5, Zenon
  <2>7. NoLostWakeup'
    BY <2>5, <2>6, AtMutexStaysFinite DEF NoLostWakeup, AtMutexSet
  <2>. QED
    BY <2>3, <2>4, <2>7, Zenon
<1>. QED
    BY <1>1, <1>2, Zenon DEF thread_pool_create

\* A call of thread_pool_add, and one that has to wait.
LEMMA CallInv ==
    ASSUME PoolInv, CallAdd \/ WaitForRoom
    PROVE  PoolInv'
<1>. USE DEF PoolInv
<1>1. UNCHANGED <<queue, shutdown, added, worker, task>>
    BY Zenon DEF CallAdd, WaitForRoom
<1>2. TypeOK'
    BY <1>1, Zenon DEF CallAdd, WaitForRoom, TypeOK
<1>3. Places'
    BY <1>1, TasksAssumption, Zenon DEF CallAdd, WaitForRoom, Places, TypeOK
<1>4. Waiting' = Waiting /\ AtMutexSet' = AtMutexSet
    BY <1>1, Zenon DEF Waiting, AtMutexSet, AtMutex
<1>5. NoLostWakeup'
    BY <1>1, <1>4, Zenon DEF CallAdd, WaitForRoom, IsFull, NoLostWakeup, AtMutexSet
<1>. QED
    BY <1>2, <1>3, <1>5, Zenon

\* A task more is queued, and a sleeping worker, if there is one, on its way.
LEMMA AddTaskInv ==
    ASSUME PoolInv, AddTask
    PROVE  PoolInv'
<1>. USE DEF PoolInv
<1>1. /\ queue' = Append(queue, added + 1) /\ added' = added + 1
      /\ caller' = "out" /\ UNCHANGED <<shutdown, task>> /\ ~shutdown
      /\ added < MaxTasks /\ Len(queue) # Capacity
    BY Zenon DEF AddTask, Enqueue, IsFull, Places
<1>2. added + 1 \in 1 .. MaxTasks /\ added' \in 0 .. MaxTasks
    BY <1>1, TasksAssumption DEF TypeOK
<1>3. /\ queue' \in Seq(1 .. MaxTasks) /\ Len(queue') = Len(queue) + 1
      /\ Len(queue) \in Nat
    BY <1>1, <1>2, AppendProperties, LenProperties, Zenon DEF TypeOK
<1>4. Len(queue') <= Capacity
    BY <1>1, <1>3, CapacityAssumption DEF TypeOK
<1>5. /\ worker' \in [Workers -> {"none", "locking", "waiting", "woken", "running", "exited"}]
      /\ \A u \in Workers : \/ worker'[u] = worker[u]
                            \/ worker[u] = "waiting" /\ worker'[u] = "woken"
    BY Zenon DEF AddTask, SignalNotEmpty, Waiting, TypeOK
<1>6. TypeOK'
    BY <1>1, <1>2, <1>3, <1>4, <1>5, Zenon DEF TypeOK
<1>7. Places'
    BY <1>1, <1>5 DEF AddTask, Places, TypeOK
<1>8. Waiting' # {} => Len(queue') <= Cardinality(AtMutexSet')
  <2>1. CASE Waiting = {} /\ UNCHANGED worker
    BY <2>1, Zenon DEF Waiting
  <2>2. CASE \E w \in Waiting : worker' = [worker EXCEPT ![w] = "woken"]
    <3>1. PICK w \in Waiting : worker' = [worker EXCEPT ![w] = "woken"]
      BY <2>2, Zenon
    <3>2. w \in Workers /\ w \notin AtMutexSet /\ AtMutexSet' = AtMutexSet \cup {w}
      BY <3>1, Zenon DEF Waiting, AtMutexSet, AtMutex, TypeOK
    <3>3. Cardinality(AtMutexSet') = Cardinality(AtMutexSet) + 1
      BY <3>2, AtMutexGains, Zenon
    <3>4. Len(queue) <= Cardinality(AtMutexSet)
      BY <3>1, Zenon DEF NoLostWakeup, AtMutexSet
    <3>. QED
      BY <1>3, <3>3, <3>4, AtMutexFinite
  <2>. QED
    BY <2>1, <2>2, Zenon DEF AddTask, SignalNotEmpty
<1>9. NoLostWakeup'
    BY <1>1, <1>8, Zenon DEF NoLostWakeup, AtMutexSet
<1>. QED
    BY <1>6, <1>7, <1>9, Zenon

\* Everybody is woken for the shutdown.
LEMMA DestroyInv ==
    ASSUME PoolInv, thread_pool_destroy
    PROVE  PoolInv'
<1>. USE DEF PoolInv
<1>1. worker' \in [Workers -> {"none", "locking", "woken", "running", "exited"}]
    BY Zenon DEF thread_pool_destroy, Broadcast, TypeOK, Waiting
<1>2. TypeOK'
    BY <1>1, Zenon DEF thread_pool_destroy, TypeOK
<1>3. Places'
    BY Zenon DEF thread_pool_destroy, Places, Broadcast, Waiting, TypeOK
<1>4. Waiting' = {}
    BY <1>1, Zenon DEF Waiting
<1>5. NoLostWakeup'
    BY <1>4, Zenon DEF thread_pool_destroy, NoLostWakeup
<1>. QED
    BY <1>2, <1>3, <1>5, Zenon

\* The join.
LEMMA JoinInv ==
    ASSUME PoolInv, JoinWorkers
    PROVE  PoolInv'
<1>. USE DEF PoolInv
<1>1. TypeOK'
    BY Zenon DEF JoinWorkers, TypeOK
<1>2. Places'
    BY Zenon DEF JoinWorkers, Places
<1>3. Waiting' = Waiting /\ AtMutexSet' = AtMutexSet
    BY Zenon DEF JoinWorkers, Waiting, AtMutexSet, AtMutex
<1>4. NoLostWakeup'
    BY <1>3, Zenon DEF JoinWorkers, NoLostWakeup, AtMutexSet
<1>. QED
    BY <1>1, <1>2, <1>4, Zenon

\* A wake-up without a reason does no harm.
LEMMA SpuriousInv ==
    ASSUME PoolInv, SpuriousWakeup
    PROVE  PoolInv'
<1>. USE DEF PoolInv
<1>1. /\ UNCHANGED <<queue, shutdown, added, task>>
      /\ worker' \in [Workers -> {"none", "locking", "waiting", "woken", "running", "exited"}]
      /\ \A u \in Workers : \/ worker'[u] = worker[u]
                            \/ worker[u] = "waiting" /\ worker'[u] = "woken"
      /\ (caller' = caller \/ (caller = "waiting" /\ caller' = "woken"))
    BY Zenon DEF SpuriousWakeup, Waiting, TypeOK
<1>2. TypeOK'
    BY <1>1, Zenon DEF TypeOK
<1>3. Places'
    BY <1>1, Zenon DEF Places, TypeOK
<1>4. Waiting' \subseteq Waiting /\ AtMutexSet \subseteq AtMutexSet'
    BY <1>1, Zenon DEF Waiting, AtMutexSet, AtMutex
<1>5. Cardinality(AtMutexSet) <= Cardinality(AtMutexSet')
    BY <1>4, AtMutexGrows, Zenon
<1>6. Len(queue) \in Nat
    BY LenProperties, Zenon DEF TypeOK
<1>7. Waiting' # {} => Len(queue') <= Cardinality(AtMutexSet')
    BY <1>1, <1>4, <1>5, <1>6, AtMutexFinite, AtMutexStaysFinite DEF NoLostWakeup, AtMutexSet
<1>8. NoLostWakeup'
    BY <1>1, <1>4, <1>7, Zenon DEF NoLostWakeup, AtMutexSet
<1>. QED
    BY <1>2, <1>3, <1>8, Zenon

-----------------------------------------------------------------------------
(* The theorems.                                                           *)

\* The inductive step over all of the pool's actions.
LEMMA PoolNextInv ==
    ASSUME PoolInv, [Next]_vars
    PROVE  PoolInv'
<1>1. CASE \E w \in Workers : thread_worker(w)
    BY <1>1, WaitForTaskInv, ExitWorkerInv, TakeTaskInv, FinishTaskInv, Zenon DEF thread_worker
<1>2. CASE thread_pool_create
    BY <1>2, CreateInv, Zenon
<1>3. CASE CallAdd \/ WaitForRoom
    BY <1>3, CallInv, Zenon
<1>4. CASE AddTask
    BY <1>4, AddTaskInv, Zenon
<1>5. CASE thread_pool_destroy
    BY <1>5, DestroyInv, Zenon
<1>6. CASE JoinWorkers
    BY <1>6, JoinInv, Zenon
<1>7. CASE SpuriousWakeup
    BY <1>7, SpuriousInv, Zenon
<1>8. CASE UNCHANGED vars
  <2>1. Waiting' = Waiting /\ AtMutexSet' = AtMutexSet
    BY <1>8, Zenon DEF vars, Waiting, AtMutexSet, AtMutex
  <2>2. TypeOK' /\ Places'
    BY <1>8, Zenon DEF PoolInv, vars, TypeOK, Places
  <2>3. NoLostWakeup'
    BY <1>8, <2>1, Zenon DEF PoolInv, vars, NoLostWakeup, AtMutexSet
  <2>. QED
    BY <2>2, <2>3, Zenon DEF PoolInv
<1>. QED
    BY <1>1, <1>2, <1>3, <1>4, <1>5, <1>6, <1>7, <1>8, Zenon DEF Next, thread_pool_add

\* The inductive invariant holds throughout.
LEMMA PoolInvariant == Spec => []PoolInv
    BY PoolInitInv, PoolNextInv, PTL DEF Spec

\* For any number of workers and any capacity the variables keep their types; in
\* particular the queue of thread_pool.c never exceeds its capacity.
THEOREM PoolTypeCorrect == Spec => []TypeOK
<1>1. PoolInv => TypeOK
    BY Zenon DEF PoolInv
<1>. QED
    BY <1>1, PoolInvariant, PTL

\* One pthread_cond_signal per added task and a broadcast at shutdown are enough, for any
\* number of workers: a worker sleeps only while each queued task has its own worker.
THEOREM NeverLosesWakeup == Spec => []NoLostWakeup
<1>1. PoolInv => NoLostWakeup
    BY Zenon DEF PoolInv
<1>. QED
    BY <1>1, PoolInvariant, PTL

\* The join of thread_pool_destroy (and of a thread_pool_create that fails) returns only
\* when every task added has been run.
THEOREM JoinDrains == Spec => []DrainedAtJoin
<1>1. PoolInv => DrainedAtJoin
  <2>1. SUFFICES ASSUME PoolInv, caller = "done"
                 PROVE  queue = <<>> /\ \A w \in Workers : task[w] = NoTask
    BY Zenon DEF DrainedAtJoin
  <2>2. \A w \in Workers : worker[w] \in {"none", "exited"}
    BY <2>1, Zenon DEF PoolInv, Places
  <2>3. \A w \in Workers : task[w] = NoTask
    BY <2>1, <2>2, Zenon DEF PoolInv, Places
  <2>4. PICK w \in Workers : TRUE
    BY WorkersAssumption, Zenon
  <2>5. queue = <<>>
    BY <2>1, <2>2, <2>4, Zenon DEF PoolInv, Places
  <2>. QED
    BY <2>3, <2>5, Zenon
<1>. QED
    BY <1>1, PoolInvariant, PTL

\* Every step of the pool is a step of the bounded queue, or none of its business.
LEMMA PoolStepSimulates ==
    ASSUME PoolInv, [Next]_vars
    PROVE  [Abstract!QueueNext]_(Abstract!queueVars)
<1>. USE DEF Abstract!queueVars
<1>1. ASSUME NEW w \in Workers, thread_worker(w)
      PROVE  [Abstract!QueueNext]_(Abstract!queueVars)
  <2>1. CASE WaitForTask(w) \/ ExitWorker(w)
    BY <2>1, Zenon DEF WaitForTask, ExitWorker
  <2>2. CASE TakeTask(w)
    <3>1. task[w] = NoTask
      BY <2>2, Zenon DEF PoolInv, Places, TakeTask, AtMutex
    <3>2. Abstract!Get(w)
      BY <2>2, <3>1, Zenon DEF TakeTask, Abstract!Get
    <3>. QED
      BY <3>2, Zenon DEF Abstract!QueueNext, Abstract!GetAny
  <2>3. CASE FinishTask(w)
    <3>1. Abstract!Finish(w)
      BY <2>3, Zenon DEF PoolInv, Places, FinishTask, Abstract!Finish
    <3>. QED
      BY <3>1, Zenon DEF Abstract!QueueNext
  <2>. QED
    BY <1>1, <2>1, <2>2, <2>3, Zenon DEF thread_worker
<1>2. CASE CallAdd \/ WaitForRoom \/ JoinWorkers \/ SpuriousWakeup \/ UNCHANGED vars
    BY <1>2, Zenon DEF CallAdd, WaitForRoom, JoinWorkers, SpuriousWakeup, vars
<1>3. CASE AddTask
  <2>1. added < MaxTasks /\ added \in 0 .. MaxTasks
    BY <1>3, Zenon DEF PoolInv, Places, TypeOK, AddTask
  <2>2. added + 1 \in 1 .. MaxTasks
    BY <2>1, TasksAssumption
  <2>3. Len(queue) \in Nat
    BY LenProperties, Zenon DEF PoolInv, TypeOK
  <2>4. Len(queue) < Capacity
    BY <1>3, <2>3, CapacityAssumption DEF PoolInv, TypeOK, AddTask, IsFull
  <2>5. Abstract!Put
    BY <1>3, <2>2, <2>4, Zenon DEF AddTask, Enqueue, Abstract!Put
  <2>. QED
    BY <2>5, Zenon DEF Abstract!QueueNext
<1>4. CASE thread_pool_create \/ thread_pool_destroy
  <2>1. ~shutdown
    BY <1>4, Zenon DEF PoolInv, Places, thread_pool_create, thread_pool_destroy
  <2>2. UNCHANGED <<queue, task>> /\ (shutdown' = TRUE \/ shutdown' = shutdown)
    BY <1>4, Zenon DEF thread_pool_create, thread_pool_destroy
  <2>3. CASE shutdown' = TRUE
    BY <2>1, <2>2, <2>3, Zenon DEF Abstract!Close, Abstract!QueueNext
  <2>4. CASE shutdown' = shutdown
    BY <2>2, <2>4, Zenon
  <2>. QED
    BY <2>2, <2>3, <2>4, Zenon
<1>. QED
    BY <1>1, <1>2, <1>3, <1>4, Zenon DEF Next, thread_pool_add

\* The safety half of the pool's promise: whatever the interleaving, the pool is a bounded
\* first-in first-out queue, whose tasks idle workers take once each.
THEOREM PoolIsQueue ==
    Spec => Abstract!QueueInit /\ [][Abstract!QueueNext]_(Abstract!queueVars)
<1>1. Init => Abstract!QueueInit
    BY Zenon DEF Init, Abstract!QueueInit
<1>. QED
    BY <1>1, PoolInvariant, PoolStepSimulates, PTL DEF Spec

-----------------------------------------------------------------------------
(* The server.                                                             *)

\* Each step of the server is a step of the thread pool or leaves it alone.
LEMMA ServerStepsPool ==
    ASSUME [ServerNext]_serverVars
    PROVE  [Next]_vars
<1>1. CASE MainStep
    BY <1>1, Zenon DEF MainStep, StartDatabase, StartThreads, StartOther, Add, StopThreads,
                StopDatabase, StopOther, Next
<1>2. CASE Dispatch \/ Shutdown \/ Wakeup
    BY <1>2, Zenon DEF Dispatch, Shutdown, Wakeup, Next
<1>3. CASE \E w \in Workers : WorkerStep(w)
    BY <1>3, Zenon DEF WorkerStep, PoolWork, DatabaseWork, Next
<1>4. CASE UNCHANGED serverVars
    BY <1>4, Zenon DEF serverVars
<1>. QED
    BY <1>1, <1>2, <1>3, <1>4, Zenon DEF ServerNext

\* The thread pool's invariant holds in the server.
LEMMA ServerKeepsPoolInv == ServerSpec => []PoolInv
<1>1. ServerInit => PoolInv
    BY PoolInitInv, Zenon DEF ServerInit
<1>2. PoolInv /\ [ServerNext]_serverVars => PoolInv'
    BY ServerStepsPool, PoolNextInv, Zenon
<1>. QED
    BY <1>1, <1>2, PTL DEF ServerSpec

\* However the server starts, serves and stops, with any number of workers, no wake-up of
\* thread_pool.c is lost.
THEOREM ServerNeverLosesWakeup == ServerSpec => []NoLostWakeup
<1>1. PoolInv => NoLostWakeup
    BY Zenon DEF PoolInv
<1>. QED
    BY <1>1, ServerKeepsPoolInv, PTL

-----------------------------------------------------------------------------
(* How far main is.                                                        *)

Busy == queue # <<>> \/ \E w \in Workers : task[w] # NoTask

NoneStarted == caller = "creating" /\ \A w \in Workers : worker[w] = "none"

All == {"db", "threads", "sessions", "wheel", "pipe", "timer", "listener", "epoll"}

StartInv ==
    main = "starting" =>
        /\ todo = <<>> /\ ~Busy
        /\ "db" \notin held => NoneStarted
        /\ "threads" \notin held => caller \in {"creating", "joining"}
        /\ "threads" \in held => caller = "out"

ServeInv ==
    main = "serving" =>
        todo = <<>> /\ held = All /\ caller \in {"out", "locking", "waiting", "woken"}

\* The ways on, once the thread pool is destroyed and before.
Stopped ==
    \/ todo = <<>> /\ held = {}
    \/ todo = <<{"db"}>> /\ held = {"db"}
    \/ todo = <<{"wheel"}, {"db"}>> /\ held = {"wheel", "db"}
    \/ todo = <<{"sessions"}, {"db"}>> /\ held = {"sessions", "db"}
    \/ todo = <<{"sessions"}, {"wheel"}, {"db"}>> /\ held = {"sessions", "wheel", "db"}

Draining ==
    \/ todo = <<{"threads"}, {"db"}>> /\ held = {"threads", "db"} /\ ~Busy
    \/ /\ todo = <<{"threads"}, {"sessions"}, {"db"}>>
       /\ held = {"threads", "sessions", "db"} /\ ~Busy
    \/ /\ todo = <<{"threads"}, {"sessions"}, {"wheel"}, {"db"}>>
       /\ held = {"threads", "sessions", "wheel", "db"}
    \/ \E D \in SUBSET {"pipe", "timer", "listener", "epoll"} :
          /\ todo = <<D, {"threads"}, {"sessions"}, {"wheel"}, {"db"}>>
          /\ held = D \cup {"threads", "sessions", "wheel", "db"}

LeaveInv ==
    main = "leaving" =>
        \/ caller = "done" /\ Stopped
        \/ NoneStarted /\ todo = <<>> /\ held = {} /\ ~Busy
        \/ caller \in {"out", "joining"} /\ Draining

MainInv ==
    /\ main \in {"starting", "serving", "leaving"}
    /\ StartInv /\ ServeInv /\ LeaveInv
    /\ pool = "open" <=> "db" \in held
    /\ pool = "creating" <=> main = "starting" /\ "db" \notin held

\* The part of thread_pool_destroy that comes after its join.
LEMMA DoneIsIdle ==
    ASSUME PoolInv, caller = "done"
    PROVE  ~Busy /\ \A w \in Workers : worker[w] \in {"none", "exited"}
<1>1. \A w \in Workers : worker[w] \in {"none", "exited"}
    BY Zenon DEF PoolInv, Places
<1>2. \A w \in Workers : task[w] = NoTask
    BY <1>1, Zenon DEF PoolInv, Places
<1>3. PICK w \in Workers : TRUE
    BY WorkersAssumption, Zenon
<1>4. queue = <<>>
    BY <1>1, <1>3, Zenon DEF PoolInv, Places
<1>. QED
    BY <1>1, <1>2, <1>4, Zenon DEF Busy

\* Whoever has something to do has the database pool to do it with.
LEMMA BusyHasDatabase ==
    ASSUME PoolInv, MainInv, Busy
    PROVE  {"db", "sessions", "wheel"} \subseteq held /\ pool = "open"
<1>1. caller # "done"
    BY DoneIsIdle, Zenon
<1>2. main # "starting"
    BY Zenon DEF MainInv, StartInv
<1>3. CASE main = "serving"
    BY <1>3, Zenon DEF MainInv, ServeInv, All
<1>4. CASE main = "leaving"
    BY <1>1, <1>4, Zenon DEF MainInv, LeaveInv, Draining
<1>. QED
    BY <1>2, <1>3, <1>4, Zenon DEF MainInv

\* The server begins with nothing.
LEMMA MainInitInv == ServerInit => MainInv
<1>1. SUFFICES ASSUME ServerInit PROVE MainInv
    BY Zenon
<1>2. ~Busy /\ NoneStarted
    BY <1>1, Zenon DEF ServerInit, Init, Busy, NoneStarted
<1>. QED
    BY <1>1, <1>2, Zenon DEF ServerInit, DatabaseInit, MainInv, StartInv, ServeInv, LeaveInv, NoneStarted

-----------------------------------------------------------------------------

\* A worker's step, and a wake-up, change nothing main has.
LEMMA WorkerMainInv ==
    ASSUME PoolInv, MainInv, NEW w \in Workers, WorkerStep(w)
    PROVE  MainInv'
<1>1. CASE PoolWork(w)
  <2>1. UNCHANGED <<main, held, todo, pool>> /\ thread_worker(w)
    BY <1>1, Zenon DEF PoolWork, databaseVars, poolVars, mainVars
  <2>2. ~Busy => ~Busy'
    BY <2>1, Zenon DEF thread_worker, WaitForTask, ExitWorker, TakeTask, FinishTask, Busy, PoolInv, TypeOK
  <2>3. caller' = caller \/ (caller = "waiting" /\ caller' = "woken")
    BY <2>1, Zenon DEF thread_worker, WaitForTask, ExitWorker, TakeTask, FinishTask, SignalNotFull
  <2>4. ~NoneStarted
    BY <2>1, Zenon DEF thread_worker, WaitForTask, ExitWorker, TakeTask, FinishTask, AtMutex, NoneStarted
  <2>5. StartInv'
    BY <2>1, <2>2, <2>3, <2>4, Zenon DEF MainInv, StartInv
  <2>6. ServeInv'
    BY <2>1, <2>3, Zenon DEF MainInv, ServeInv
  <2>7. LeaveInv'
    BY <2>1, <2>2, <2>3, <2>4, Zenon DEF MainInv, LeaveInv, Stopped, Draining
  <2>. QED
    BY <2>1, <2>5, <2>6, <2>7, Zenon DEF MainInv
<1>2. CASE DatabaseWork(w)
  <2>1. UNCHANGED <<main, held, todo, pool, vars>>
    BY <1>2, Zenon DEF DatabaseWork, database_pool_acquire, database_pool_release, ReadErrno,
                poolVars, mainVars
  <2>. QED
    BY <2>1, Zenon DEF vars, MainInv, StartInv, ServeInv, LeaveInv, Stopped, Draining, Busy, NoneStarted
<1>. QED
    BY <1>1, <1>2, Zenon DEF WorkerStep

\* Nor does a spurious wake-up, or a step that is none.
LEMMA WakeupMainInv ==
    ASSUME PoolInv, MainInv, Wakeup \/ UNCHANGED serverVars
    PROVE  MainInv'
<1>1. UNCHANGED <<main, held, todo, pool, queue, task>>
    BY Zenon DEF Wakeup, SpuriousWakeup, DatabaseSpurious, vars, databaseVars, poolVars, mainVars, serverVars
<1>2. caller' = caller \/ (caller = "waiting" /\ caller' = "woken")
    BY Zenon DEF Wakeup, SpuriousWakeup, vars, serverVars
<1>3. NoneStarted => NoneStarted'
    BY Zenon DEF Wakeup, SpuriousWakeup, Waiting, NoneStarted, vars, serverVars
<1>4. Busy' <=> Busy
    BY <1>1, Zenon DEF Busy
<1>5. StartInv'
    BY <1>1, <1>2, <1>3, <1>4, Zenon DEF MainInv, StartInv
<1>6. ServeInv'
    BY <1>1, <1>2, Zenon DEF MainInv, ServeInv
<1>7. LeaveInv'
    BY <1>1, <1>2, <1>3, <1>4, Zenon DEF MainInv, LeaveInv, Stopped, Draining
<1>. QED
    BY <1>1, <1>5, <1>6, <1>7, Zenon DEF MainInv

\* While it serves.
LEMMA ServeMainInv ==
    ASSUME PoolInv, MainInv, Dispatch \/ Add
    PROVE  MainInv'
<1>1. UNCHANGED <<main, held, todo, pool>> /\ main = "serving"
    BY Zenon DEF Dispatch, Add, databaseVars, poolVars, mainVars
<1>2. caller' \in {"out", "locking", "waiting", "woken"}
    BY Zenon DEF Dispatch, Add, CallAdd, thread_pool_add, WaitForRoom, AddTask
<1>. QED
    BY <1>1, <1>2, Zenon DEF MainInv, StartInv, ServeInv, LeaveInv

\* And when it is told to stop.
LEMMA ShutdownMainInv ==
    ASSUME PoolInv, MainInv, Shutdown
    PROVE  MainInv'
<1>1. /\ main = "serving" /\ main' = "leaving" /\ held' = held /\ pool' = pool /\ held = All
      /\ caller' = "out"
      /\ todo' = <<{"listener", "pipe", "timer", "epoll"}, {"threads"}, {"sessions"}, {"wheel"},
                   {"db"}>>
    BY Zenon DEF Shutdown, Leave, Cleanup, databaseVars, poolVars, vars, MainInv, ServeInv
<1>2. Draining'
  <2>1. held' = {"listener", "pipe", "timer", "epoll"} \cup {"threads", "sessions", "wheel", "db"}
    BY <1>1, Zenon DEF All
  <2>. QED
    BY <1>1, <2>1, Zenon DEF Draining
<1>. QED
    BY <1>1, <1>2, Zenon DEF MainInv, StartInv, ServeInv, LeaveInv

-----------------------------------------------------------------------------
(* Start-up.                                                               *)

\* What is there when each of the resources is created.
LEMMA Stages ==
    /\ Starting("db") => held = {}
    /\ Starting("threads") => held = {"db"}
    /\ Starting("sessions") => held = {"db", "threads"}
    /\ Starting("wheel") => held = {"db", "threads", "sessions"}
    /\ Starting("pipe") => held = {"db", "threads", "sessions", "wheel"}
    /\ Starting("timer") => held = {"db", "threads", "sessions", "wheel", "pipe"}
    /\ Starting("listener") => held = {"db", "threads", "sessions", "wheel", "pipe", "timer"}
    /\ Starting("epoll") =>
          held = {"db", "threads", "sessions", "wheel", "pipe", "timer", "listener"}
<1>1. Len(Resources) = 8
    BY Zenon DEF Resources
<1>2. /\ Resources[1] = "db" /\ Resources[2] = "threads" /\ Resources[3] = "sessions"
      /\ Resources[4] = "wheel" /\ Resources[5] = "pipe" /\ Resources[6] = "timer"
      /\ Resources[7] = "listener" /\ Resources[8] = "epoll"
    BY Zenon DEF Resources
<1>3. ASSUME NEW n \in 1 .. 8, Starting(Resources[n])
      PROVE  held = {Resources[j] : j \in 1 .. n - 1}
  <2>1. PICK i \in 1 .. 8 : Resources[n] = Resources[i] /\ held = {Resources[j] : j \in 1 .. i - 1}
    BY <1>1, <1>3, Zenon DEF Starting
  <2>2. i = n
    BY <1>2, <2>1
  <2>. QED
    BY <2>1, <2>2, Zenon
<1>4. Starting("db") => held = {}
    BY <1>2, <1>3
<1>5. Starting("threads") => held = {"db"}
    BY <1>2, <1>3
<1>6. Starting("sessions") => held = {"db", "threads"}
    BY <1>2, <1>3
<1>7. Starting("wheel") => held = {"db", "threads", "sessions"}
    BY <1>2, <1>3
<1>8. Starting("pipe") => held = {"db", "threads", "sessions", "wheel"}
    BY <1>2, <1>3
<1>9. Starting("timer") => held = {"db", "threads", "sessions", "wheel", "pipe"}
    BY <1>2, <1>3
<1>10. Starting("listener") => held = {"db", "threads", "sessions", "wheel", "pipe", "timer"}
    BY <1>2, <1>3
<1>11. Starting("epoll") =>
          held = {"db", "threads", "sessions", "wheel", "pipe", "timer", "listener"}
    BY <1>2, <1>3
<1>. QED
    BY <1>4, <1>5, <1>6, <1>7, <1>8, <1>9, <1>10, <1>11

\* The database pool comes up, or main leaves with nothing.
LEMMA StartDatabaseMainInv ==
    ASSUME PoolInv, MainInv, StartDatabase
    PROVE  MainInv'
<1>1. /\ held = {} /\ main = "starting" /\ UNCHANGED vars /\ database_pool_create
      /\ pool = "creating"
    BY Stages, Zenon DEF StartDatabase, Starting, database_pool_create
<1>2. NoneStarted' /\ ~Busy' /\ caller' = "creating" /\ todo = <<>>
    BY <1>1, Zenon DEF MainInv, StartInv, vars, NoneStarted, Busy
<1>3. pool' \in {"creating", "open", "freed"}
    BY <1>1, Zenon DEF database_pool_create
<1>4. CASE pool' = "open"
  <2>1. held' = {"db"} /\ main' = "starting" /\ UNCHANGED todo
    BY <1>1, <1>4, Zenon DEF StartDatabase, Created, Resources
  <2>. QED
    BY <1>2, <1>4, <2>1, Zenon DEF MainInv, StartInv, ServeInv, LeaveInv
<1>5. CASE pool' = "freed"
  <2>1. held' = {} /\ main' = "leaving" /\ todo' = <<>>
    BY <1>1, <1>5, Zenon DEF StartDatabase, Leave, Cleanup
  <2>. QED
    BY <1>2, <1>5, <2>1, Zenon DEF MainInv, StartInv, ServeInv, LeaveInv
<1>6. CASE pool' = "creating"
  <2>1. UNCHANGED <<main, held, todo>>
    BY <1>6, Zenon DEF StartDatabase, mainVars
  <2>. QED
    BY <1>1, <1>2, <1>6, <2>1, Zenon DEF MainInv, StartInv, ServeInv, LeaveInv
<1>. QED
    BY <1>3, <1>4, <1>5, <1>6, Zenon

\* So does the thread pool, or it is joined.
LEMMA StartThreadsMainInv ==
    ASSUME PoolInv, MainInv, StartThreads
    PROVE  MainInv'
<1>1. /\ held = {"db"} /\ main = "starting" /\ UNCHANGED <<pool, queue, task>>
      /\ pool = "open" /\ ~Busy /\ todo = <<>>
    BY Stages, Zenon DEF StartThreads, Starting, MainInv, StartInv, databaseVars, poolVars,
                  thread_pool_create, JoinWorkers
<1>2. caller' \in {"creating", "out", "joining", "done"}
    BY Zenon DEF StartThreads, thread_pool_create, JoinWorkers
<1>3. ~Busy'
    BY <1>1, Zenon DEF Busy
<1>4. CASE caller' = "out"
  <2>1. held' = {"db", "threads"} /\ main' = "starting" /\ UNCHANGED todo
    BY <1>1, <1>4, Zenon DEF StartThreads, Created, Resources
  <2>. QED
    BY <1>1, <1>3, <1>4, <2>1, Zenon DEF MainInv, StartInv, ServeInv, LeaveInv
<1>5. CASE caller' = "done"
  <2>1. held' = {"db"} /\ main' = "leaving" /\ todo' = <<{"db"}>>
    BY <1>1, <1>5, Zenon DEF StartThreads, Leave, Cleanup
  <2>. QED
    BY <1>1, <1>5, <2>1, Zenon DEF MainInv, StartInv, ServeInv, LeaveInv, Stopped
<1>6. CASE caller' \in {"creating", "joining"}
  <2>1. UNCHANGED <<main, held, todo>>
    BY <1>6, Zenon DEF StartThreads, mainVars
  <2>. QED
    BY <1>1, <1>3, <1>6, <2>1, Zenon DEF MainInv, StartInv, ServeInv, LeaveInv
<1>. QED
    BY <1>2, <1>4, <1>5, <1>6, Zenon

\* The rest comes up, or main takes the exit for it.
LEMMA StartOtherMainInv ==
    ASSUME PoolInv, MainInv, NEW resource \in Others, StartOther(resource)
    PROVE  MainInv'
<1>1. /\ Starting(resource) /\ main = "starting" /\ UNCHANGED <<vars, pool>>
      /\ {"db", "threads"} \subseteq held
    BY Stages, Zenon DEF StartOther, Starting, Others, databaseVars, poolVars
<1>2. caller' = "out" /\ caller = "out" /\ ~Busy' /\ todo = <<>> /\ pool = "open"
    BY <1>1, Zenon DEF MainInv, StartInv, vars, Busy
<1>3. CASE Created(resource)
  <2>1. held' = held \cup {resource} /\ UNCHANGED todo
    BY <1>3, Zenon DEF Created
  <2>2. CASE resource = "epoll"
    <3>1. main' = "serving"
      BY <1>3, <2>2, Zenon DEF Created, Resources
    <3>2. held' = All
      BY <1>1, <2>1, <2>2, Stages, Zenon DEF All
    <3>. QED
      BY <1>1, <1>2, <2>1, <3>1, <3>2, Zenon DEF MainInv, StartInv, ServeInv, LeaveInv
  <2>3. CASE resource # "epoll"
    <3>1. main' = "starting"
      BY <1>3, <2>3, Zenon DEF Created, Resources
    <3>. QED
      BY <1>1, <1>2, <2>1, <3>1, Zenon DEF MainInv, StartInv, ServeInv, LeaveInv
  <2>. QED
    BY <2>2, <2>3, Zenon
<1>4. CASE Leave(resource)
  <2>1. main' = "leaving" /\ held' = held /\ todo' = Cleanup[resource]
    BY <1>4, Zenon DEF Leave
  <2>2. Draining'
    <3>1. CASE resource \in {"sessions", "wheel", "pipe"}
      BY <1>1, <1>2, <2>1, <3>1, Stages DEF Draining, Cleanup
    <3>2. CASE resource = "timer"
      <4>1. /\ todo' = <<{"pipe"}, {"threads"}, {"sessions"}, {"wheel"}, {"db"}>>
            /\ held' = {"pipe"} \cup {"threads", "sessions", "wheel", "db"}
        BY <1>1, <2>1, <3>2, Stages, Zenon DEF Cleanup
      <4>. QED
        BY <4>1, Zenon DEF Draining
    <3>3. CASE resource = "listener"
      <4>1. /\ todo' = <<{"pipe", "timer"}, {"threads"}, {"sessions"}, {"wheel"}, {"db"}>>
            /\ held' = {"pipe", "timer"} \cup {"threads", "sessions", "wheel", "db"}
        BY <1>1, <2>1, <3>3, Stages, Zenon DEF Cleanup
      <4>. QED
        BY <4>1, Zenon DEF Draining
    <3>4. CASE resource = "epoll"
      <4>1. /\ todo' = <<{"listener", "pipe", "timer"}, {"threads"}, {"sessions"}, {"wheel"}, {"db"}>>
            /\ held' = {"listener", "pipe", "timer"} \cup {"threads", "sessions", "wheel", "db"}
        BY <1>1, <2>1, <3>4, Stages, Zenon DEF Cleanup
      <4>. QED
        BY <4>1, Zenon DEF Draining
    <3>. QED
      BY <3>1, <3>2, <3>3, <3>4, Zenon DEF Others
  <2>. QED
    BY <1>1, <1>2, <2>1, <2>2, Zenon DEF MainInv, StartInv, ServeInv, LeaveInv
<1>. QED
    BY <1>3, <1>4, Zenon DEF StartOther

-----------------------------------------------------------------------------
(* The way out.                                                            *)

\* What is left of the lists of Cleanup without their heads.
LEMMA TailOfList ==
    ASSUME NEW S, NEW s \in Seq(S), NEW t \in Seq(S), s # <<>>,
           Len(t) = Len(s) - 1, \A i \in 1 .. Len(t) : t[i] = s[i + 1]
    PROVE  Tail(s) = t
<1>1. /\ Tail(s) \in Seq(S) /\ Len(Tail(s)) = Len(s) - 1
      /\ \A i \in 1 .. Len(Tail(s)) : Tail(s)[i] = s[i + 1]
    BY HeadTailProperties, Zenon
<1>. QED
    BY <1>1, SeqEqual, Zenon

\* The same, for the lengths there are.
LEMMA Tails ==
    ASSUME NEW a, NEW b, NEW c, NEW d, NEW e
    PROVE  /\ Tail(<<a>>) = <<>>
           /\ Tail(<<a, b>>) = <<b>>
           /\ Tail(<<a, b, c>>) = <<b, c>>
           /\ Tail(<<a, b, c, d>>) = <<b, c, d>>
           /\ Tail(<<a, b, c, d, e>>) = <<b, c, d, e>>
<1>. DEFINE S == {a, b, c, d, e}
<1>1. /\ <<>> \in Seq(S) /\ <<a>> \in Seq(S) /\ <<b>> \in Seq(S)
      /\ <<a, b>> \in Seq(S) /\ <<b, c>> \in Seq(S)
      /\ <<a, b, c>> \in Seq(S) /\ <<b, c, d>> \in Seq(S)
      /\ <<a, b, c, d>> \in Seq(S) /\ <<b, c, d, e>> \in Seq(S)
      /\ <<a, b, c, d, e>> \in Seq(S)
    OBVIOUS
<1>2. \A i \in 1 .. Len(<<>>) : <<>>[i] = <<a>>[i + 1]
    OBVIOUS
<1>3. \A i \in 1 .. Len(<<b>>) : <<b>>[i] = <<a, b>>[i + 1]
    OBVIOUS
<1>4. \A i \in 1 .. Len(<<b, c>>) : <<b, c>>[i] = <<a, b, c>>[i + 1]
    OBVIOUS
<1>5. \A i \in 1 .. Len(<<b, c, d>>) : <<b, c, d>>[i] = <<a, b, c, d>>[i + 1]
    OBVIOUS
<1>6. \A i \in 1 .. Len(<<b, c, d, e>>) : <<b, c, d, e>>[i] = <<a, b, c, d, e>>[i + 1]
    OBVIOUS
<1>7. /\ Len(<<>>) = Len(<<a>>) - 1 /\ Len(<<b>>) = Len(<<a, b>>) - 1
      /\ Len(<<b, c>>) = Len(<<a, b, c>>) - 1
      /\ Len(<<b, c, d>>) = Len(<<a, b, c, d>>) - 1
      /\ Len(<<b, c, d, e>>) = Len(<<a, b, c, d, e>>) - 1
    OBVIOUS
<1>8. /\ <<a>> # <<>> /\ <<a, b>> # <<>> /\ <<a, b, c>> # <<>> /\ <<a, b, c, d>> # <<>>
      /\ <<a, b, c, d, e>> # <<>>
    BY Zenon
<1>. HIDE DEF S
<1>9. Tail(<<a>>) = <<>>
    BY <1>1, <1>2, <1>7, <1>8, TailOfList, Zenon
<1>10. Tail(<<a, b>>) = <<b>>
    BY <1>1, <1>3, <1>7, <1>8, TailOfList, Zenon
<1>11. Tail(<<a, b, c>>) = <<b, c>>
    BY <1>1, <1>4, <1>7, <1>8, TailOfList, Zenon
<1>12. Tail(<<a, b, c, d>>) = <<b, c, d>>
    BY <1>1, <1>5, <1>7, <1>8, TailOfList, Zenon
<1>13. Tail(<<a, b, c, d, e>>) = <<b, c, d, e>>
    BY <1>1, <1>6, <1>7, <1>8, TailOfList, Zenon
<1>. QED
    BY <1>9, <1>10, <1>11, <1>12, <1>13, Zenon

\* The lists differ in their heads, too.
LEMMA Heads ==
    ASSUME MainInv, main = "leaving", todo # <<>>
    PROVE  /\ Head(todo) = {"threads"} =>
                 /\ caller \in {"out", "joining"}
                 /\ \/ todo = <<{"threads"}, {"db"}>> /\ held = {"threads", "db"} /\ ~Busy
                    \/ /\ todo = <<{"threads"}, {"sessions"}, {"db"}>>
                       /\ held = {"threads", "sessions", "db"} /\ ~Busy
                    \/ /\ todo = <<{"threads"}, {"sessions"}, {"wheel"}, {"db"}>>
                       /\ held = {"threads", "sessions", "wheel", "db"}
           /\ Head(todo) = {"db"} => caller = "done" /\ todo = <<{"db"}>> /\ held = {"db"}
<1>1. CASE caller = "done" /\ Stopped
  <2>1. todo \in {<<{"wheel"}, {"db"}>>, <<{"sessions"}, {"db"}>>,
                  <<{"sessions"}, {"wheel"}, {"db"}>>} =>
            Head(todo) # {"threads"} /\ Head(todo) # {"db"}
    OBVIOUS
  <2>2. todo = <<{"db"}>> => Head(todo) # {"threads"}
    OBVIOUS
  <2>. QED
    BY <1>1, <2>1, <2>2, Zenon DEF Stopped
<1>2. CASE caller \in {"out", "joining"} /\ Draining
  <2>1. ASSUME NEW D \in SUBSET {"pipe", "timer", "listener", "epoll"},
               todo = <<D, {"threads"}, {"sessions"}, {"wheel"}, {"db"}>>
        PROVE  Head(todo) # {"threads"} /\ Head(todo) # {"db"}
    BY <2>1
  <2>. QED
    BY <1>2, <2>1 DEF Draining
<1>. QED
    BY <1>1, <1>2, Zenon DEF MainInv, LeaveInv

\* The thread pool is told to stop, and joined.
LEMMA StopThreadsMainInv ==
    ASSUME PoolInv, MainInv, StopThreads
    PROVE  MainInv'
<1>1. /\ main = "leaving" /\ todo # <<>> /\ Head(todo) = {"threads"}
      /\ pool' = pool /\ main' = "leaving"
    BY Zenon DEF StopThreads, Leaving, databaseVars, poolVars, mainVars, Destroyed
<1>2. CASE thread_pool_destroy /\ UNCHANGED mainVars
  <2>1. UNCHANGED <<main, held, todo, queue, task>> /\ caller' = "joining"
    BY <1>2, Zenon DEF thread_pool_destroy, mainVars
  <2>2. Draining'
    BY <1>1, <2>1, Heads, Zenon DEF Draining, Busy
  <2>. QED
    BY <1>1, <2>1, <2>2, Zenon DEF MainInv, StartInv, ServeInv, LeaveInv
<1>3. CASE JoinWorkers /\ Destroyed
  <2>1. held' = held \ {"threads"} /\ todo' = Tail(todo) /\ caller' = "done"
    BY <1>1, <1>3, Zenon DEF JoinWorkers, Destroyed
  <2>2. CASE todo = <<{"threads"}, {"db"}>> /\ held = {"threads", "db"}
    <3>1. todo' = <<{"db"}>> /\ held' = {"db"}
      BY <2>1, <2>2, Tails, Zenon
    <3>. QED
      BY <1>1, <2>1, <2>2, <3>1, Zenon DEF MainInv, StartInv, ServeInv, LeaveInv, Stopped
  <2>3. CASE todo = <<{"threads"}, {"sessions"}, {"db"}>> /\ held = {"threads", "sessions", "db"}
    <3>1. todo' = <<{"sessions"}, {"db"}>> /\ held' = {"sessions", "db"}
      BY <2>1, <2>3, Tails
    <3>. QED
      BY <1>1, <2>1, <2>3, <3>1, Zenon DEF MainInv, StartInv, ServeInv, LeaveInv, Stopped
  <2>4. CASE /\ todo = <<{"threads"}, {"sessions"}, {"wheel"}, {"db"}>>
             /\ held = {"threads", "sessions", "wheel", "db"}
    <3>1. todo' = <<{"sessions"}, {"wheel"}, {"db"}>> /\ held' = {"sessions", "wheel", "db"}
      BY <2>1, <2>4, Tails
    <3>. QED
      BY <1>1, <2>1, <2>4, <3>1, Zenon DEF MainInv, StartInv, ServeInv, LeaveInv, Stopped
  <2>. QED
    BY <1>1, <2>2, <2>3, <2>4, Heads, Zenon
<1>. QED
    BY <1>2, <1>3, Zenon DEF StopThreads

\* The database pool is the last to go.
LEMMA StopDatabaseMainInv ==
    ASSUME PoolInv, MainInv, StopDatabase
    PROVE  MainInv' /\ caller = "done"
<1>1. /\ main = "leaving" /\ main' = "leaving" /\ pool' = "freed" /\ UNCHANGED vars
      /\ caller = "done" /\ todo = <<{"db"}>> /\ held = {"db"}
      /\ held' = held \ {"db"} /\ todo' = Tail(todo)
    BY Heads, Zenon DEF StopDatabase, Leaving, Destroyed, database_pool_destroy
<1>2. held' = {} /\ todo' = <<>>
    BY <1>1, Tails, Zenon
<1>. QED
    BY <1>1, <1>2, Zenon DEF vars, MainInv, StartInv, ServeInv, LeaveInv, Stopped

\* The rest.
LEMMA StopOtherMainInv ==
    ASSUME PoolInv, MainInv, StopOther
    PROVE  MainInv'
<1>1. /\ main = "leaving" /\ main' = "leaving" /\ UNCHANGED <<vars, pool>> /\ todo # <<>>
      /\ Head(todo) # {"threads"} /\ Head(todo) # {"db"}
      /\ held' = held \ Head(todo) /\ todo' = Tail(todo)
    BY Zenon DEF StopOther, Leaving, Destroyed, databaseVars, poolVars
<1>2. CASE caller = "done" /\ Stopped
  <2>1. CASE todo = <<{"wheel"}, {"db"}>> /\ held = {"wheel", "db"}
    <3>1. todo' = <<{"db"}>> /\ held' = {"db"}
      BY <1>1, <2>1, Tails
    <3>. QED
      BY <1>1, <1>2, <2>1, <3>1, Zenon DEF vars, MainInv, StartInv, ServeInv, LeaveInv, Stopped
  <2>2. CASE todo = <<{"sessions"}, {"db"}>> /\ held = {"sessions", "db"}
    <3>1. todo' = <<{"db"}>> /\ held' = {"db"}
      BY <1>1, <2>2, Tails
    <3>. QED
      BY <1>1, <1>2, <2>2, <3>1, Zenon DEF vars, MainInv, StartInv, ServeInv, LeaveInv, Stopped
  <2>3. CASE todo = <<{"sessions"}, {"wheel"}, {"db"}>> /\ held = {"sessions", "wheel", "db"}
    <3>1. todo' = <<{"wheel"}, {"db"}>> /\ held' = {"wheel", "db"}
      BY <1>1, <2>3, Tails
    <3>. QED
      BY <1>1, <1>2, <2>3, <3>1, Zenon DEF vars, MainInv, StartInv, ServeInv, LeaveInv, Stopped
  <2>4. todo # <<{"db"}>>
    BY <1>1
  <2>. QED
    BY <1>1, <1>2, <2>1, <2>2, <2>3, <2>4, Zenon DEF Stopped
<1>3. CASE caller \in {"out", "joining"} /\ Draining
  <2>1. PICK D \in SUBSET {"pipe", "timer", "listener", "epoll"} :
              /\ todo = <<D, {"threads"}, {"sessions"}, {"wheel"}, {"db"}>>
              /\ held = D \cup {"threads", "sessions", "wheel", "db"}
    BY <1>1, <1>3 DEF Draining
  <2>2. /\ todo' = <<{"threads"}, {"sessions"}, {"wheel"}, {"db"}>>
        /\ held' = {"threads", "sessions", "wheel", "db"}
    BY <1>1, <2>1, Tails
  <2>3. Draining'
    BY <2>2, Zenon DEF Draining
  <2>4. "db" \in held /\ "db" \in held'
    BY <2>1, <2>2, Zenon
  <2>. QED
    BY <1>1, <1>3, <2>3, <2>4, Zenon DEF vars, MainInv, StartInv, ServeInv, LeaveInv
<1>. QED
    BY <1>1, <1>2, <1>3, Zenon DEF MainInv, LeaveInv

\* The inductive step over all of the server's actions.
LEMMA MainNextInv ==
    ASSUME PoolInv, MainInv, [ServerNext]_serverVars
    PROVE  MainInv'
    BY WorkerMainInv, WakeupMainInv, ServeMainInv, ShutdownMainInv, StartDatabaseMainInv,
       StartThreadsMainInv, StartOtherMainInv, StopThreadsMainInv, StopDatabaseMainInv,
       StopOtherMainInv, Zenon DEF ServerNext, MainStep

\* Whichever step of start-up fails and whenever the server stops, main destroys all it
\* has created, and no task outlives what it uses.
THEOREM ServerExitsClean == ServerSpec => []CleanExit
<1>1. PoolInv /\ MainInv => CleanExit
  <2>1. SUFFICES ASSUME PoolInv, MainInv PROVE CleanExit
    BY Zenon
  <2>2. ASSUME main = "leaving", todo = <<>>
        PROVE  held = {} /\ \A w \in Workers : worker[w] \in {"none", "exited"}
    <3>1. CASE caller = "done" /\ Stopped
      BY <2>1, <2>2, <3>1, DoneIsIdle, Zenon DEF Stopped
    <3>2. CASE NoneStarted /\ held = {}
      BY <3>2, Zenon DEF NoneStarted
    <3>3. ~Draining
      BY <2>2, Zenon DEF Draining
    <3>. QED
      BY <2>1, <2>2, <3>1, <3>2, <3>3, Zenon DEF MainInv, LeaveInv
  <2>3. Busy => {"db", "sessions", "wheel"} \subseteq held
    BY <2>1, BusyHasDatabase, Zenon
  <2>. QED
    BY <2>2, <2>3, Zenon DEF CleanExit, Busy
<1>2. PoolInv /\ MainInv /\ [ServerNext]_serverVars => MainInv'
    BY MainNextInv, Zenon
<1>. QED
    BY <1>1, <1>2, MainInitInv, ServerKeepsPoolInv, PTL DEF ServerSpec

-----------------------------------------------------------------------------
(* The connections.                                                        *)

UsingSet == {w \in Workers : db[w] = "using"}
WokenSet == {w \in Workers : db[w] = "woken"}
Unopened == {c \in Connections : handle[c] = "none"}

DatabaseTypeOK ==
    /\ pool \in {"creating", "open", "freed"}
    /\ connections \in [Slots -> Connections \cup {NoConnection}]
    /\ available \in 0 .. PoolSize
    /\ db \in [Workers -> {"idle", "waiting", "woken", "using", "errno"}]
    /\ conn \in [Workers -> Connections \cup {NoConnection}]
    /\ handle \in [Connections -> {"none", "connected", "closed"}]

\* Nothing is twice in the array or in two hands, and the array is packed.
Apart ==
    /\ pool # "freed" => \A i \in Slots : connections[i] = NoConnection <=> i >= available
    /\ pool # "freed" => \A i, j \in Slots :
          connections[i] = connections[j] /\ connections[i] # NoConnection => i = j
    /\ \A w, u \in UsingSet : conn[w] = conn[u] => w = u
    /\ \A w \in UsingSet, i \in Slots : conn[w] # connections[i]

\* While the pool is created, and while it is open, nothing is lost.
Complete ==
    /\ pool = "creating" =>
          /\ \A c \in Connections :
                handle[c] = "none" \/ (handle[c] = "connected" /\ \E i \in Slots : connections[i] = c)
          /\ \A i \in Slots : connections[i] \notin Unopened
          /\ Cardinality(Unopened) + available = PoolSize
    /\ pool = "open" =>
          /\ \A c \in Connections : handle[c] = "connected"
          /\ \A c \in Connections : \/ \E i \in Slots : connections[i] = c
                                     \/ \E w \in UsingSet : conn[w] = c
          /\ available + Cardinality(UsingSet) = PoolSize
    /\ pool = "freed" => \A c \in Connections : handle[c] # "connected"

\* Only a task that runs is in a call to the database.
Callers ==
    \A w \in Workers :
        /\ worker[w] # "running" => db[w] = "idle"
        /\ conn[w] = NoConnection <=> db[w] \notin {"using", "errno"}

ConnInv == DatabaseTypeOK /\ Apart /\ Complete /\ Callers /\ NoLostConnection

\* The sets counted are finite.
LEMMA CountedFinite ==
    /\ IsFiniteSet(UsingSet) /\ IsFiniteSet(WokenSet) /\ IsFiniteSet(Unopened)
    /\ Cardinality(UsingSet) \in Nat /\ Cardinality(WokenSet) \in Nat
    /\ Cardinality(Unopened) \in Nat
<1>1. UsingSet \subseteq Workers /\ WokenSet \subseteq Workers /\ Unopened \subseteq Connections
    BY Zenon DEF UsingSet, WokenSet, Unopened
<1>2. IsFiniteSet(UsingSet) /\ IsFiniteSet(WokenSet) /\ IsFiniteSet(Unopened)
    BY <1>1, WorkersAssumption, PoolAssumption, FS_Subset, Zenon
<1>. QED
    BY <1>2, FS_CardinalityType, Zenon

\* So they are in the next state.
LEMMA CountedStayFinite ==
    /\ IsFiniteSet(UsingSet') /\ IsFiniteSet(WokenSet') /\ IsFiniteSet(Unopened')
    /\ Cardinality(UsingSet') \in Nat /\ Cardinality(WokenSet') \in Nat
    /\ Cardinality(Unopened') \in Nat
<1>1. UsingSet' \subseteq Workers /\ WokenSet' \subseteq Workers /\ Unopened' \subseteq Connections
    BY Zenon DEF UsingSet, WokenSet, Unopened
<1>2. IsFiniteSet(UsingSet') /\ IsFiniteSet(WokenSet') /\ IsFiniteSet(Unopened')
    BY <1>1, WorkersAssumption, PoolAssumption, FS_Subset, Zenon
<1>. QED
    BY <1>2, FS_CardinalityType, Zenon

\* A worker that runs has the pool open; when it is not open nobody is in it.
LEMMA RunningHasPool ==
    ASSUME PoolInv, MainInv, NEW w \in Workers, worker[w] = "running"
    PROVE  pool = "open"
<1>1. Busy
    BY Zenon DEF Busy, PoolInv, Places
<1>. QED
    BY <1>1, BusyHasDatabase, Zenon

\* The server begins with an empty array and no connection.
LEMMA ConnInitInv == ServerInit => ConnInv
<1>1. SUFFICES ASSUME ServerInit PROVE ConnInv
    BY Zenon
<1>2. DatabaseTypeOK
    BY <1>1, PoolAssumption DEF ServerInit, DatabaseInit, DatabaseTypeOK, Slots
<1>3. UsingSet = {} /\ ConnWaiters = {} /\ Unopened = Connections
    BY <1>1, Zenon DEF ServerInit, DatabaseInit, UsingSet, ConnWaiters, Unopened
<1>4. Apart
    BY <1>1, <1>3, PoolAssumption DEF ServerInit, DatabaseInit, Apart, Slots
<1>5. Complete
    BY <1>1, <1>3, PoolAssumption DEF ServerInit, DatabaseInit, Complete, Slots
<1>6. Callers
    BY <1>1, Zenon DEF ServerInit, DatabaseInit, Callers
<1>7. NoLostConnection
    BY <1>3, Zenon DEF NoLostConnection
<1>. QED
    BY <1>2, <1>4, <1>5, <1>6, <1>7, Zenon DEF ConnInv

-----------------------------------------------------------------------------

\* A step that leaves the database pool alone, and moves no worker in a call.
LEMMA ElsewhereConnInv ==
    ASSUME ConnInv, UNCHANGED databaseVars,
           \A w \in Workers : worker'[w] = "running" \/ worker[w] # "running" \/ db[w] = "idle"
    PROVE  ConnInv'
<1>1. UNCHANGED <<pool, connections, available, db, conn, handle>>
    BY Zenon DEF databaseVars, poolVars
<1>2. UsingSet' = UsingSet /\ WokenSet' = WokenSet /\ Unopened' = Unopened /\ ConnWaiters' = ConnWaiters
    BY <1>1, Zenon DEF UsingSet, WokenSet, Unopened, ConnWaiters
<1>3. DatabaseTypeOK'
    BY <1>1, Zenon DEF ConnInv, DatabaseTypeOK
<1>4. Apart'
    BY <1>1, <1>2, Zenon DEF ConnInv, Apart
<1>5. Complete'
    BY <1>1, <1>2, Zenon DEF ConnInv, Complete
<1>6. Callers'
    BY <1>1, Zenon DEF ConnInv, Callers
<1>7. NoLostConnection'
    BY <1>1, <1>2, Zenon DEF ConnInv, NoLostConnection, WokenSet
<1>. QED
    BY <1>3, <1>4, <1>5, <1>6, <1>7, Zenon DEF ConnInv

\* When the pool is not open, nobody uses it.
LEMMA NobodyInside ==
    ASSUME PoolInv, MainInv, ConnInv, pool # "open" \/ caller = "done"
    PROVE  UsingSet = {} /\ ConnWaiters = {} /\ \A w \in Workers : db[w] = "idle"
<1>1. \A w \in Workers : worker[w] # "running"
    BY RunningHasPool, DoneIsIdle, Zenon
<1>. QED
    BY <1>1, Zenon DEF ConnInv, Callers, UsingSet, ConnWaiters

\* A connection is opened into the next slot, or all there are are closed.
LEMMA CreateConnInv ==
    ASSUME PoolInv, MainInv, ConnInv, StartDatabase
    PROVE  ConnInv'
<1>. USE DEF ConnInv
<1>1. /\ pool = "creating" /\ UNCHANGED <<db, conn, worker>> /\ database_pool_create
    BY Zenon DEF StartDatabase, database_pool_create, vars
<1>2. UsingSet = {} /\ ConnWaiters = {} /\ \A w \in Workers : db[w] = "idle"
    BY <1>1, NobodyInside, Zenon
<1>3. UsingSet' = {} /\ ConnWaiters' = {}
    BY <1>1, <1>2, Zenon DEF UsingSet, ConnWaiters
<1>4. Callers' /\ NoLostConnection'
    BY <1>1, <1>3, Zenon DEF Callers, NoLostConnection
<1>5. ASSUME NEW c \in Connections, handle[c] = "none",
             connections' = [connections EXCEPT ![available] = c],
             handle' = [handle EXCEPT ![c] = "connected"],
             available' = available + 1,
             pool' = IF available' = PoolSize THEN "open" ELSE "creating"
      PROVE  ConnInv'
  <2>1. c \in Unopened /\ c # NoConnection
    BY <1>5, PoolAssumption, Zenon DEF Unopened
  <2>2. Unopened' = Unopened \ {c}
    BY <1>5, <2>1, Zenon DEF Unopened, DatabaseTypeOK
  <2>3. Cardinality(Unopened') = Cardinality(Unopened) - 1
    BY <2>1, <2>2, CountedFinite, FS_RemoveElement, Zenon
  <2>4. available \in Slots /\ available' \in 0 .. PoolSize
    BY <1>1, <1>5, <2>3, CountedFinite, CountedStayFinite, PoolAssumption
       DEF Complete, DatabaseTypeOK, Slots
  <2>5. DatabaseTypeOK'
    BY <1>1, <1>5, <2>4, Zenon DEF DatabaseTypeOK
  <2>6. \A i \in Slots : connections'[i] = IF i = available THEN c ELSE connections[i]
    BY <1>5, <2>4, Zenon DEF DatabaseTypeOK
  <2>7. \A i \in Slots : connections[i] # c
    BY <1>1, <2>1, Zenon DEF Complete
  <2>8. Apart'
    <3>1. \A i \in Slots : connections'[i] = NoConnection <=> i >= available'
      BY <1>1, <1>5, <2>1, <2>4, <2>6 DEF Apart, Slots
    <3>2. \A i, j \in Slots : connections'[i] = connections'[j] /\ connections'[i] # NoConnection => i = j
      BY <1>1, <2>6, <2>7, Zenon DEF Apart
    <3>. QED
      BY <1>3, <3>1, <3>2, Zenon DEF Apart
  <2>9. /\ \A d \in Connections :
              handle'[d] = "none" \/ (handle'[d] = "connected" /\ \E i \in Slots : connections'[i] = d)
        /\ \A i \in Slots : connections'[i] \notin Unopened'
        /\ Cardinality(Unopened') + available' = PoolSize
    <3>1. ASSUME NEW d \in Connections, handle'[d] # "none"
          PROVE  handle'[d] = "connected" /\ \E i \in Slots : connections'[i] = d
      <4>1. CASE d = c
        BY <1>5, <2>4, <2>6, <4>1, Zenon DEF DatabaseTypeOK
      <4>2. CASE d # c
        <5>1. handle[d] = "connected" /\ handle'[d] = "connected"
          BY <1>1, <1>5, <3>1, <4>2, Zenon DEF DatabaseTypeOK, Complete
        <5>2. PICK i \in Slots : connections[i] = d
          BY <1>1, <5>1, Zenon DEF Complete
        <5>3. i # available
          BY <1>1, <2>4, <5>2, PoolAssumption DEF Apart, Slots
        <5>. QED
          BY <2>6, <5>1, <5>2, <5>3, Zenon
      <4>. QED
        BY <4>1, <4>2, Zenon
    <3>2. \A i \in Slots : connections'[i] \notin Unopened'
      BY <1>1, <2>2, <2>6, Zenon DEF Complete
    <3>3. Cardinality(Unopened') + available' = PoolSize
      BY <1>1, <1>5, <2>3, CountedFinite, PoolAssumption DEF Complete, DatabaseTypeOK
    <3>. QED
      BY <3>1, <3>2, <3>3, Zenon
  <2>10. pool' = "open" => \A d \in Connections : handle'[d] # "none"
    <3>1. SUFFICES ASSUME pool' = "open" PROVE Unopened' = {}
      BY Zenon DEF Unopened
    <3>2. Cardinality(Unopened') = 0
      BY <1>5, <2>9, <3>1, CountedStayFinite, PoolAssumption
    <3>. QED
      BY <3>2, CountedStayFinite, FS_EmptySet, Zenon
  <2>11. pool' = "open" => available' + Cardinality(UsingSet') = PoolSize
    BY <1>3, <1>5, FS_EmptySet, PoolAssumption
  <2>12. Complete'
    BY <1>5, <2>9, <2>10, <2>11 DEF Complete
  <2>. QED
    BY <1>4, <2>5, <2>8, <2>12, Zenon
<1>6. ASSUME CloseFirst(available), pool' = "freed", UNCHANGED <<connections, available>>
      PROVE  ConnInv'
  <2>1. DatabaseTypeOK'
    BY <1>1, <1>6, Zenon DEF DatabaseTypeOK, CloseFirst
  <2>2. Apart'
    BY <1>3, <1>6, Zenon DEF Apart
  <2>3. ASSUME NEW c \in Connections PROVE handle'[c] # "connected"
    <3>1. CASE handle[c] = "none"
      BY <1>6, <3>1, Zenon DEF CloseFirst
    <3>2. CASE handle[c] # "none"
      <4>1. PICK i \in Slots : connections[i] = c
        BY <1>1, <3>2, Zenon DEF Complete
      <4>2. i \in 0 .. available - 1
        BY <1>1, <4>1, PoolAssumption DEF Apart, Slots, DatabaseTypeOK
      <4>. QED
        BY <1>6, <4>1, <4>2, Zenon DEF CloseFirst
    <3>. QED
      BY <3>1, <3>2, Zenon
  <2>. QED
    BY <1>4, <1>6, <2>1, <2>2, <2>3, Zenon DEF Complete
<1>. QED
    BY <1>1, <1>5, <1>6, Zenon DEF database_pool_create

\* main closes what is in the array, which is all.
LEMMA DestroyConnInv ==
    ASSUME PoolInv, MainInv, ConnInv, StopDatabase
    PROVE  ConnInv'
<1>. USE DEF ConnInv
<1>1. /\ pool = "open" /\ pool' = "freed" /\ CloseFirst(available)
      /\ UNCHANGED <<connections, available, db, conn, worker>>
    BY Zenon DEF StopDatabase, database_pool_destroy, vars
<1>2. UsingSet = {} /\ ConnWaiters = {}
    BY NobodyInside, StopDatabaseMainInv, Zenon
<1>3. UsingSet' = {} /\ ConnWaiters' = {}
    BY <1>1, <1>2, Zenon DEF UsingSet, ConnWaiters
<1>4. Callers' /\ NoLostConnection'
    BY <1>1, <1>3, Zenon DEF Callers, NoLostConnection
<1>5. DatabaseTypeOK'
    BY <1>1, Zenon DEF DatabaseTypeOK, CloseFirst
<1>6. Apart'
    BY <1>1, <1>3, Zenon DEF Apart
<1>7. ASSUME NEW c \in Connections PROVE handle'[c] # "connected"
  <2>1. PICK i \in Slots : connections[i] = c
    BY <1>1, <1>2, Zenon DEF Complete
  <2>2. i \in 0 .. available - 1
    BY <1>1, <2>1, PoolAssumption DEF Apart, Slots, DatabaseTypeOK
  <2>. QED
    BY <1>1, <2>1, <2>2, Zenon DEF CloseFirst
<1>. QED
    BY <1>1, <1>4, <1>5, <1>6, <1>7, Zenon DEF Complete

-----------------------------------------------------------------------------

\* A worker that finds the pool empty sleeps.
LEMMA AcquireWaitConnInv ==
    ASSUME ConnInv, NEW w \in Workers, worker[w] = "running", db[w] \in {"idle", "woken"},
           available = 0, db' = [db EXCEPT ![w] = "waiting"],
           UNCHANGED <<connections, available, conn, pool, handle, worker>>
    PROVE  ConnInv'
<1>. USE DEF ConnInv
<1>1. DatabaseTypeOK'
    BY Zenon DEF DatabaseTypeOK
<1>2. UsingSet' = UsingSet /\ Unopened' = Unopened
    BY Zenon DEF UsingSet, Unopened, DatabaseTypeOK
<1>3. Apart'
    BY <1>2, Zenon DEF Apart, UsingSet
<1>4. Complete'
    BY <1>2, Zenon DEF Complete
<1>5. Callers'
    BY Zenon DEF Callers, DatabaseTypeOK
<1>6. NoLostConnection'
    BY CountedStayFinite DEF NoLostConnection, WokenSet
<1>. QED
    BY <1>1, <1>3, <1>4, <1>5, <1>6, Zenon

\* One that does not takes the last connection.
LEMMA AcquireConnInv ==
    ASSUME ConnInv, pool = "open", NEW w \in Workers, worker[w] = "running",
           db[w] \in {"idle", "woken"}, available # 0,
           conn' = [conn EXCEPT ![w] = connections[Top]],
           connections' = [connections EXCEPT ![Top] = NoConnection],
           available' = available - 1, db' = [db EXCEPT ![w] = "using"],
           UNCHANGED <<pool, handle, worker>>
    PROVE  ConnInv'
<1>. USE DEF ConnInv
<1>. DEFINE c == connections[Top]
<1>1. Top \in Slots /\ available' = Top /\ available' \in 0 .. PoolSize
    BY PoolAssumption DEF DatabaseTypeOK, Top, Slots
<1>2. c \in Connections /\ c # NoConnection
    BY <1>1, PoolAssumption DEF DatabaseTypeOK, Apart, Top, Slots
<1>3. DatabaseTypeOK'
    BY <1>1, <1>2, Zenon DEF DatabaseTypeOK
<1>4. /\ \A i \in Slots : connections'[i] = IF i = Top THEN NoConnection ELSE connections[i]
      /\ \A u \in Workers : conn'[u] = IF u = w THEN c ELSE conn[u]
    BY <1>1, Zenon DEF DatabaseTypeOK
<1>5. UsingSet' = UsingSet \cup {w} /\ w \notin UsingSet /\ Unopened' = Unopened
    BY Zenon DEF UsingSet, Unopened, DatabaseTypeOK
<1>6. Cardinality(UsingSet') = Cardinality(UsingSet) + 1
    BY <1>5, CountedFinite, FS_AddElement, Zenon
<1>. HIDE DEF c
<1>7. Apart'
  <2>1. \A i \in Slots : connections'[i] = NoConnection <=> i >= available'
    BY <1>1, <1>4, PoolAssumption DEF Apart, Slots, DatabaseTypeOK, Top
  <2>2. \A i, j \in Slots : connections'[i] = connections'[j] /\ connections'[i] # NoConnection => i = j
    BY <1>4 DEF Apart
  <2>3. \A u \in UsingSet : conn[u] # c /\ u # w /\ u \in Workers
    BY <1>1, <1>5, Zenon DEF Apart, c, UsingSet
  <2>4. \A u, v \in UsingSet' : conn'[u] = conn'[v] => u = v
    BY <1>4, <1>5, <2>3 DEF Apart
  <2>5. \A u \in UsingSet', i \in Slots : conn'[u] # connections'[i]
    <3>1. SUFFICES ASSUME NEW u \in UsingSet', NEW i \in Slots PROVE conn'[u] # connections'[i]
      BY Zenon
    <3>2. CASE u = w
      <4>1. i # Top => connections[i] # c
        BY <1>1, <1>2, Zenon DEF Apart, c
      <4>. QED
        BY <1>2, <1>4, <3>2, <4>1
    <3>3. CASE u # w
      <4>1. u \in UsingSet /\ conn'[u] = conn[u] /\ conn[u] # NoConnection
        BY <1>4, <1>5, <3>3, <2>3 DEF Callers, UsingSet
      <4>. QED
        BY <1>4, <4>1 DEF Apart
    <3>. QED
      BY <3>2, <3>3, Zenon
  <2>. QED
    BY <2>1, <2>2, <2>4, <2>5, Zenon DEF Apart
<1>8. Complete'
  <2>1. available' + Cardinality(UsingSet') = PoolSize
    BY <1>6, CountedFinite, PoolAssumption, SMTT(30) DEF Complete, DatabaseTypeOK
  <2>2. ASSUME NEW d \in Connections
        PROVE  (\E i \in Slots : connections'[i] = d) \/ \E u \in UsingSet' : conn'[u] = d
    <3>1. CASE d = c
      BY <1>4, <1>5, <3>1, Zenon
    <3>2. CASE d # c /\ \E i \in Slots : connections[i] = d
      BY <1>4, <3>2, Zenon DEF c
    <3>3. CASE \E u \in UsingSet : conn[u] = d
      BY <1>4, <1>5, <3>3, Zenon DEF UsingSet
    <3>. QED
      BY <3>1, <3>2, <3>3, Zenon DEF Complete
  <2>. QED
    BY <2>1, <2>2 DEF Complete
<1>9. Callers'
    BY <1>2, <1>4, Zenon DEF Callers, DatabaseTypeOK
<1>10. NoLostConnection'
  <2>1. ConnWaiters' = ConnWaiters /\ WokenSet' = WokenSet \ {w}
    BY Zenon DEF ConnWaiters, WokenSet, DatabaseTypeOK
  <2>2. Cardinality(WokenSet') >= Cardinality(WokenSet) - 1
    <3>1. CASE w \in WokenSet
      <4>1. Cardinality(WokenSet') = Cardinality(WokenSet) - 1
        BY <2>1, <3>1, CountedFinite, FS_RemoveElement, Zenon
      <4>. QED
        BY <4>1, CountedFinite
    <3>2. CASE w \notin WokenSet
      <4>1. WokenSet' = WokenSet
        BY <2>1, <3>2, Zenon
      <4>. QED
        BY <4>1, CountedFinite
    <3>. QED
      BY <3>1, <3>2, Zenon
  <2>3. ConnWaiters # {} => available <= Cardinality(WokenSet)
    BY Zenon DEF NoLostConnection, WokenSet
  <2>4. ConnWaiters' # {} => available' <= Cardinality(WokenSet')
    BY <2>1, <2>2, <2>3, CountedFinite, CountedStayFinite, PoolAssumption, SMTT(30) DEF DatabaseTypeOK
  <2>. QED
    BY <2>4, Zenon DEF NoLostConnection, WokenSet
<1>. QED
    BY <1>3, <1>7, <1>8, <1>9, <1>10, Zenon

\* A release puts it back and wakes somebody who waits.
LEMMA ReleaseConnInv ==
    ASSUME ConnInv, pool = "open", NEW w \in Workers, worker[w] = "running",
           database_pool_release(w), UNCHANGED worker
    PROVE  ConnInv'
<1>. USE DEF ConnInv
<1>1. /\ db[w] = "using" /\ connections' = [connections EXCEPT ![available] = conn[w]]
      /\ available' = available + 1 /\ UNCHANGED <<pool, handle>>
    BY Zenon DEF database_pool_release
<1>2. PICK at \in {"idle", "errno"} :
          /\ SignalConnection(w, at)
          /\ conn' = IF at = "idle" THEN [conn EXCEPT ![w] = NoConnection] ELSE conn
    BY Zenon DEF database_pool_release
<1>3. /\ db' \in [Workers -> {"idle", "waiting", "woken", "using", "errno"}]
      /\ db'[w] = at
      /\ \A u \in Workers \ {w} : db'[u] = db[u] \/ (db[u] = "waiting" /\ db'[u] = "woken")
    BY <1>1, <1>2, Zenon DEF SignalConnection, ConnWaiters, DatabaseTypeOK
<1>4. w \in UsingSet /\ UsingSet' = UsingSet \ {w} /\ Unopened' = Unopened
    BY <1>1, <1>2, <1>3, Zenon DEF UsingSet, Unopened
<1>5. Cardinality(UsingSet') = Cardinality(UsingSet) - 1
    BY <1>4, CountedFinite, FS_RemoveElement, Zenon
<1>6. available \in Slots /\ available' \in 0 .. PoolSize
    BY <1>1, <1>5, CountedFinite, CountedStayFinite, PoolAssumption, SMTT(30)
       DEF Complete, DatabaseTypeOK, Slots
<1>7. conn[w] \in Connections /\ conn[w] # NoConnection
    BY <1>1, PoolAssumption, Zenon DEF Callers, DatabaseTypeOK
<1>8. DatabaseTypeOK'
    BY <1>1, <1>2, <1>3, <1>6, <1>7, Zenon DEF DatabaseTypeOK
<1>9. /\ \A i \in Slots : connections'[i] = IF i = available THEN conn[w] ELSE connections[i]
      /\ \A u \in Workers \ {w} : conn'[u] = conn[u]
  <2>1. /\ connections \in [Slots -> Connections \cup {NoConnection}]
        /\ conn \in [Workers -> Connections \cup {NoConnection}]
    BY Zenon DEF DatabaseTypeOK
  <2>2. \A i \in Slots : connections'[i] = IF i = available THEN conn[w] ELSE connections[i]
    BY <1>1, <2>1, Zenon
  <2>3. \A u \in Workers \ {w} : conn'[u] = conn[u]
    BY <1>2, <2>1, Zenon
  <2>. QED
    BY <2>2, <2>3, Zenon
<1>10. Apart'
  <2>1. \A i \in Slots : connections'[i] = NoConnection <=> i >= available'
    BY <1>1, <1>6, <1>7, <1>9, SMTT(30) DEF Apart, Slots
  <2>2. \A i \in Slots : connections[i] # conn[w]
    BY <1>4, Zenon DEF Apart
  <2>3. \A i, j \in Slots : connections'[i] = connections'[j] /\ connections'[i] # NoConnection => i = j
    BY <1>1, <1>9, <2>2, SMTT(30) DEF Apart
  <2>4. \A u \in UsingSet' : u \in UsingSet /\ u \in Workers \ {w} /\ conn[u] # conn[w]
    BY <1>4, Zenon DEF Apart, UsingSet
  <2>5. \A u, v \in UsingSet' : conn'[u] = conn'[v] => u = v
    BY <1>9, <2>4, Zenon DEF Apart
  <2>6. \A u \in UsingSet', i \in Slots : conn'[u] # connections'[i]
    BY <1>9, <2>4 DEF Apart
  <2>. QED
    BY <2>1, <2>3, <2>5, <2>6, Zenon DEF Apart
<1>11. Complete'
  <2>1. available' + Cardinality(UsingSet') = PoolSize
    BY <1>1, <1>5, CountedFinite, PoolAssumption, SMTT(30) DEF Complete, DatabaseTypeOK
  <2>2. ASSUME NEW d \in Connections
        PROVE  (\E i \in Slots : connections'[i] = d) \/ \E u \in UsingSet' : conn'[u] = d
    <3>1. CASE d = conn[w]
      BY <1>6, <1>9, <3>1, Zenon
    <3>2. CASE \E i \in Slots : connections[i] = d
      <4>1. PICK i \in Slots : connections[i] = d
        BY <3>2, Zenon
      <4>2. i # available
        BY <1>6, <4>1, PoolAssumption DEF Apart, Slots
      <4>. QED
        BY <1>9, <4>1, <4>2, Zenon
    <3>3. CASE d # conn[w] /\ \E u \in UsingSet : conn[u] = d
      BY <1>4, <1>9, <3>3, Zenon DEF UsingSet
    <3>. QED
      BY <3>1, <3>2, <3>3, Zenon DEF Complete
  <2>. QED
    BY <1>1, <2>1, <2>2, Zenon DEF Complete
<1>12. Callers'
    BY <1>1, <1>2, <1>3, <1>7, <1>9 DEF Callers, DatabaseTypeOK
<1>13. NoLostConnection'
  <2>1. CASE ConnWaiters = {} /\ db' = [db EXCEPT ![w] = at]
    <3>1. ConnWaiters' = {}
      BY <1>2, <1>3, <2>1, Zenon DEF ConnWaiters
    <3>. QED
      BY <3>1, Zenon DEF NoLostConnection
  <2>2. CASE \E u \in ConnWaiters : db' = [db EXCEPT ![u] = "woken", ![w] = at]
    <3>1. PICK u \in ConnWaiters : db' = [db EXCEPT ![u] = "woken", ![w] = at]
      BY <2>2, Zenon
    <3>2. u # w /\ u \notin WokenSet /\ WokenSet' = WokenSet \cup {u}
      BY <1>1, <1>2, <3>1, Zenon DEF ConnWaiters, WokenSet, DatabaseTypeOK
    <3>3. Cardinality(WokenSet') = Cardinality(WokenSet) + 1
      BY <3>2, CountedFinite, FS_AddElement, Zenon
    <3>4. available <= Cardinality(WokenSet)
      BY <3>1, Zenon DEF NoLostConnection, WokenSet
    <3>5. available' <= Cardinality(WokenSet')
      BY <1>1, <3>3, <3>4, CountedFinite, PoolAssumption DEF DatabaseTypeOK
    <3>. QED
      BY <3>5, Zenon DEF NoLostConnection, WokenSet
  <2>. QED
    BY <1>2, <2>1, <2>2, Zenon DEF SignalConnection
<1>. QED
    BY <1>8, <1>10, <1>11, <1>12, <1>13, Zenon

\* mysql_errno is read without the pool's help.
LEMMA ErrnoConnInv ==
    ASSUME ConnInv, NEW w \in Workers, ReadErrno(w), UNCHANGED worker
    PROVE  ConnInv'
<1>. USE DEF ConnInv
<1>1. /\ db[w] = "errno" /\ db' = [db EXCEPT ![w] = "idle"]
      /\ conn' = [conn EXCEPT ![w] = NoConnection]
      /\ UNCHANGED <<pool, connections, available, handle>>
    BY Zenon DEF ReadErrno, poolVars
<1>2. DatabaseTypeOK'
    BY <1>1, Zenon DEF DatabaseTypeOK
<1>3. /\ UsingSet' = UsingSet /\ Unopened' = Unopened /\ ConnWaiters' = ConnWaiters
      /\ WokenSet' = WokenSet /\ w \notin UsingSet
    BY <1>1, Zenon DEF UsingSet, Unopened, ConnWaiters, WokenSet, DatabaseTypeOK
<1>4. \A u \in UsingSet : conn'[u] = conn[u]
    BY <1>1, <1>3, Zenon DEF UsingSet, DatabaseTypeOK
<1>5. Apart'
    BY <1>1, <1>3, <1>4 DEF Apart
<1>6. Complete'
    BY <1>1, <1>3, <1>4 DEF Complete
<1>7. Callers'
    BY <1>1, Zenon DEF Callers, DatabaseTypeOK
<1>8. NoLostConnection'
    BY <1>1, <1>3, Zenon DEF NoLostConnection, WokenSet
<1>. QED
    BY <1>2, <1>5, <1>6, <1>7, <1>8, Zenon

\* A wake-up without a reason does no harm here either.
LEMMA SpuriousConnInv ==
    ASSUME ConnInv, DatabaseSpurious, UNCHANGED worker
    PROVE  ConnInv'
<1>. USE DEF ConnInv
<1>1. PICK w \in ConnWaiters : db' = [db EXCEPT ![w] = "woken"]
    BY Zenon DEF DatabaseSpurious
<1>2. UNCHANGED <<pool, connections, available, conn, handle>>
    BY Zenon DEF DatabaseSpurious, poolVars
<1>3. w \in Workers /\ db[w] = "waiting"
    BY <1>1, Zenon DEF ConnWaiters
<1>4. DatabaseTypeOK'
    BY <1>1, <1>2, <1>3, Zenon DEF DatabaseTypeOK
<1>5. /\ UsingSet' = UsingSet /\ Unopened' = Unopened /\ w \notin WokenSet
      /\ WokenSet' = WokenSet \cup {w}
    BY <1>1, <1>2, <1>3, Zenon DEF UsingSet, Unopened, WokenSet, DatabaseTypeOK
<1>6. Cardinality(WokenSet') = Cardinality(WokenSet) + 1
    BY <1>5, CountedFinite, FS_AddElement, Zenon
<1>7. Apart'
    BY <1>2, <1>5, Zenon DEF Apart
<1>8. Complete'
    BY <1>2, <1>5, Zenon DEF Complete
<1>9. Callers'
    BY <1>1, <1>2, <1>3, Zenon DEF Callers, DatabaseTypeOK
<1>10. available <= Cardinality(WokenSet)
    BY <1>1, Zenon DEF NoLostConnection, WokenSet
<1>11. available' <= Cardinality(WokenSet')
    BY <1>2, <1>6, <1>10, CountedFinite, PoolAssumption DEF DatabaseTypeOK
<1>12. NoLostConnection'
    BY <1>11, Zenon DEF NoLostConnection, WokenSet
<1>. QED
    BY <1>4, <1>7, <1>8, <1>9, <1>12, Zenon

\* The inductive step over all of the server's actions.
LEMMA ConnNextInv ==
    ASSUME PoolInv, MainInv, ConnInv, [ServerNext]_serverVars
    PROVE  ConnInv'
<1>1. CASE StartDatabase
    BY <1>1, CreateConnInv, Zenon
<1>2. CASE StopDatabase
    BY <1>2, DestroyConnInv, Zenon
<1>3. ASSUME NEW w \in Workers, DatabaseWork(w) PROVE ConnInv'
  <2>1. worker[w] = "running" /\ UNCHANGED worker /\ pool = "open"
    BY <1>3, RunningHasPool, Zenon DEF DatabaseWork, vars
  <2>2. CASE database_pool_acquire(w)
    BY <2>1, <2>2, AcquireWaitConnInv, AcquireConnInv, Zenon DEF database_pool_acquire
  <2>3. CASE database_pool_release(w)
    BY <2>1, <2>3, ReleaseConnInv, Zenon
  <2>4. CASE ReadErrno(w)
    BY <2>1, <2>4, ErrnoConnInv, Zenon
  <2>. QED
    BY <1>3, <2>2, <2>3, <2>4, Zenon DEF DatabaseWork
<1>4. ASSUME NEW w \in Workers, PoolWork(w) PROVE ConnInv'
  <2>1. UNCHANGED databaseVars /\ thread_worker(w) /\ (worker[w] = "running" => db[w] = "idle")
    BY <1>4, Zenon DEF PoolWork, Outside
  <2>2. \A u \in Workers : worker'[u] = "running" \/ worker[u] # "running" \/ db[u] = "idle"
    BY <2>1, Zenon DEF thread_worker, WaitForTask, ExitWorker, TakeTask, FinishTask, PoolInv, TypeOK
  <2>. QED
    BY <2>1, <2>2, ElsewhereConnInv, Zenon
<1>5. CASE DatabaseSpurious /\ UNCHANGED vars
    BY <1>5, SpuriousConnInv, Zenon DEF vars
<1>6. CASE SpuriousWakeup /\ UNCHANGED databaseVars
  <2>1. \A u \in Workers : worker'[u] = "running" \/ worker[u] # "running"
    BY <1>6, Zenon DEF SpuriousWakeup, Waiting, PoolInv, TypeOK
  <2>. QED
    BY <1>6, <2>1, ElsewhereConnInv, Zenon
<1>7. CASE \/ Dispatch \/ Add \/ Shutdown \/ StartThreads \/ StopThreads \/ StopOther
           \/ (\E resource \in Others : StartOther(resource))
           \/ UNCHANGED serverVars
  <2>1. UNCHANGED databaseVars
    BY <1>7, Zenon DEF Dispatch, Add, Shutdown, StartThreads, StopThreads, StopOther, StartOther, serverVars
  <2>2. \/ UNCHANGED worker \/ AddTask \/ thread_pool_create \/ thread_pool_destroy
    BY <1>7, Zenon DEF Dispatch, Add, Shutdown, StartThreads, StopThreads, StopOther, StartOther, serverVars,
                CallAdd, thread_pool_add, WaitForRoom, JoinWorkers, vars
  <2>3. \A u \in Workers : worker'[u] = "running" \/ worker[u] # "running"
    BY <2>2, Zenon DEF AddTask, SignalNotEmpty, thread_pool_create, thread_pool_destroy, Broadcast, Waiting,
                PoolInv, TypeOK
  <2>. QED
    BY <2>1, <2>3, ElsewhereConnInv, Zenon
<1>. QED
    BY <1>1, <1>2, <1>3, <1>4, <1>5, <1>6, <1>7, Zenon DEF ServerNext, MainStep, WorkerStep, Wakeup

\* All three invariants together.
LEMMA ServerInvariant == ServerSpec => [](PoolInv /\ MainInv /\ ConnInv)
<1>1. PoolInv /\ MainInv /\ [ServerNext]_serverVars => MainInv'
    BY MainNextInv, Zenon
<1>2. PoolInv /\ MainInv /\ ConnInv /\ [ServerNext]_serverVars => ConnInv'
    BY ConnNextInv, Zenon
<1>. QED
    BY <1>1, <1>2, MainInitInv, ConnInitInv, ServerKeepsPoolInv, PTL DEF ServerSpec

\* One signal per release is enough, for any number of workers and connections: nobody
\* sleeps in database_pool_acquire beside a free connection that nobody is coming for.
THEOREM NeverLosesConnection == ServerSpec => []NoLostConnection
<1>1. ConnInv => NoLostConnection
    BY Zenon DEF ConnInv
<1>. QED
    BY <1>1, ServerInvariant, PTL

\* In every open pool each connection is in exactly one place, none is leaked when the
\* pool is freed, and no pointer is left to one that is closed.
THEOREM ConnectionsConserved == ServerSpec => []ConnsConserved
<1>1. PoolInv /\ MainInv /\ ConnInv => ConnsConserved
  <2>1. SUFFICES ASSUME PoolInv, MainInv, ConnInv PROVE ConnsConserved
    BY Zenon
  <2>2. ASSUME pool = "open", NEW c \in Connections
        PROVE  Cardinality(Users(c)) + Cardinality(SlotsOf(c)) = 1
    <3>0. c # NoConnection
      BY PoolAssumption, Zenon
    <3>1. CASE \E i \in Slots : connections[i] = c
      <4>1. PICK i \in Slots : connections[i] = c
        BY <3>1, Zenon
      <4>2. SlotsOf(c) = {i}
        BY <2>1, <2>2, <3>0, <4>1 DEF SlotsOf, ConnInv, Apart
      <4>3. Users(c) = {}
        BY <2>1, <4>1, Zenon DEF Users, ConnInv, Apart, UsingSet
      <4>. QED
        BY <4>2, <4>3, FS_EmptySet, FS_Singleton
    <3>2. CASE \E w \in UsingSet : conn[w] = c
      <4>1. PICK w \in UsingSet : conn[w] = c
        BY <3>2, Zenon
      <4>2. SlotsOf(c) = {}
        BY <2>1, <4>1, Zenon DEF SlotsOf, ConnInv, Apart
      <4>3. Users(c) = {w}
        BY <2>1, <4>1 DEF Users, ConnInv, Apart, UsingSet
      <4>. QED
        BY <4>2, <4>3, FS_EmptySet, FS_Singleton
    <3>. QED
      BY <2>1, <2>2, <3>1, <3>2, Zenon DEF ConnInv, Complete
  <2>3. ASSUME NEW w \in Workers, conn[w] # NoConnection PROVE handle[conn[w]] = "connected"
    <3>1. worker[w] = "running" /\ conn[w] \in Connections
      BY <2>1, <2>3, Zenon DEF ConnInv, Callers, DatabaseTypeOK
    <3>2. pool = "open"
      BY <2>1, <3>1, RunningHasPool, Zenon
    <3>. QED
      BY <2>1, <3>1, <3>2, Zenon DEF ConnInv, Complete
  <2>4. pool = "open" => \A i \in Slots : connections[i] = NoConnection <=> i >= available
    BY <2>1, Zenon DEF ConnInv, Apart
  <2>5. pool = "freed" => \A c \in Connections : handle[c] # "connected"
    BY <2>1, Zenon DEF ConnInv, Complete
  <2>. QED
    BY <2>2, <2>3, <2>4, <2>5, Zenon DEF ConnsConserved
<1>. QED
    BY <1>1, ServerInvariant, PTL
=============================================================================
