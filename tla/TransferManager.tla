-------------------------- MODULE TransferManager --------------------------
(***************************************************************************)
(* The client's background transfers (src/client/transfer.c): the manager  *)
(* with its lock, its list of active tasks and its list of events, and the *)
(* detached thread of every task.  A step is what a thread does in one     *)
(* critical section, or one system call between two of them.               *)
(*                                                                         *)
(* The life of a task:                                                     *)
(*   opening    connecting, with no socket yet                             *)
(*   opened     connected, the socket not published                        *)
(*   running    run_upload or run_download on the published socket, which  *)
(*              transfer_manager_stop may shut down (TransferStream has    *)
(*              what happens on it)                                        *)
(*   closing    the socket unpublished, and not closed                     *)
(*   ended      the socket closed, the result not fixed                    *)
(*   reporting  the result fixed, the task still on the list               *)
(*   unlinked   off the list, its event queued, its memory not freed       *)
(*   freed                                                                 *)
(* Descriptors are numbers that the kernel gives out again, the lowest     *)
(* free one first; the control connection has one too.                     *)
(***************************************************************************)
EXTENDS Integers, Sequences, FiniteSets

CONSTANTS
    Tasks,
    TargetOf, NoTarget,     \* the local target of a download; an upload has none
    MaxConcurrent,
    MaxFd

NoFd == -1
Fds == 0 .. MaxFd
Free == "free"
Control == "control"

ASSUME ManagerAssumption ==
    /\ MaxConcurrent \in Nat \ {0} /\ MaxFd \in Nat
    /\ Free \notin Tasks /\ Control \notin Tasks

VARIABLES
    stopping, active, active_count,   \* the manager
    events,                           \* those queued
    waiter,                           \* transfer_manager_stop at its condition variable
    step, fd, socket_fd, canceled, result, ok,   \* each task
    owner, shut                       \* whose each descriptor is; those shut down

managerVars == <<stopping, active, active_count, events, waiter>>
taskVars == <<step, fd, socket_fd, canceled, result, ok>>
fdVars == <<owner, shut>>
transferVars == <<managerVars, taskVars, fdVars>>

TransferInit ==
    /\ stopping = FALSE
    /\ active = {}
    /\ active_count = 0
    /\ events = <<>>
    /\ waiter = "out"
    /\ step = [t \in Tasks |-> "none"]
    /\ fd = [t \in Tasks |-> NoFd]
    /\ socket_fd = [t \in Tasks |-> NoFd]
    /\ canceled = [t \in Tasks |-> FALSE]
    /\ result = [t \in Tasks |-> "none"]
    /\ ok = [t \in Tasks |-> FALSE]
    /\ owner = [f \in Fds |-> Free]
    /\ shut = {}

-----------------------------------------------------------------------------
(* Descriptors.                                                            *)

FreeFds == {f \in Fds : owner[f] = Free}

\* The new descriptor f belongs to who.
OpenFd(f, who) ==
    /\ f \in FreeFds /\ \A g \in FreeFds : f <= g
    /\ owner' = [owner EXCEPT ![f] = who]
    /\ UNCHANGED shut

CloseFd(f) ==
    /\ owner' = [owner EXCEPT ![f] = Free]
    /\ shut' = shut \ {f}

-----------------------------------------------------------------------------
(* A task's thread: transfer_worker.                                       *)

GoTo(t, place) == step' = [step EXCEPT ![t] = place]

\* client_connection_open
OpenSocket(t) ==
    /\ step[t] = "opening"
    /\ \/ /\ \E f \in Fds : OpenFd(f, t) /\ fd' = [fd EXCEPT ![t] = f]
          /\ GoTo(t, "opened")
       \/ GoTo(t, "ended") /\ UNCHANGED <<fd, fdVars>>
    /\ UNCHANGED <<managerVars, socket_fd, canceled, result, ok>>

\* A task that was cancelled meanwhile keeps its socket to itself, and closes it.
task_publish_socket(t) ==
    /\ step[t] = "opened"
    /\ IF canceled[t]
       THEN GoTo(t, "closing") /\ UNCHANGED socket_fd
       ELSE GoTo(t, "running") /\ socket_fd' = [socket_fd EXCEPT ![t] = fd[t]]
    /\ UNCHANGED <<managerVars, fd, canceled, result, ok, fdVars>>

task_close_socket_Mutant(t) ==
    /\ step[t] = "running"
    /\ \E success \in BOOLEAN : ok' = [ok EXCEPT ![t] = success]
    /\ GoTo(t, "closing")
    /\ UNCHANGED <<managerVars, socket_fd, fd, canceled, result, fdVars>>

\* The operation is over, one way or the other; nobody may shut the socket down any more.
task_close_socket(t) ==
    /\ step[t] = "running"
    /\ \E success \in BOOLEAN : ok' = [ok EXCEPT ![t] = success]
    /\ socket_fd' = [socket_fd EXCEPT ![t] = NoFd]
    /\ GoTo(t, "closing")
    /\ UNCHANGED <<managerVars, fd, canceled, result, fdVars>>

\* client_connection_close, outside the lock.
CloseSocket(t) ==
    /\ step[t] = "closing"
    /\ CloseFd(fd[t])
    /\ fd' = [fd EXCEPT ![t] = NoFd]
    /\ GoTo(t, "ended")
    /\ UNCHANGED <<managerVars, socket_fd, canceled, result, ok>>

ResultOf_Mutant(t) == IF ok[t] THEN "ok" ELSE "canceled"

ResultOf(t) == IF canceled[t] THEN "canceled" ELSE IF ok[t] THEN "ok" ELSE "failed"

\* finish_task fixes the result before it takes the lock.
FixResult(t) ==
    /\ step[t] = "ended"
    /\ result' = [result EXCEPT ![t] = ResultOf(t)]
    /\ GoTo(t, "reporting")
    /\ UNCHANGED <<managerVars, fd, socket_fd, canceled, ok, fdVars>>

Wake_Mutant == UNCHANGED waiter

\* pthread_cond_broadcast(&manager->idle)
Wake == waiter' = IF waiter = "waiting" THEN "woken" ELSE waiter

FinishTask_Mutant(t) ==
    /\ step[t] = "reporting"
    /\ active_count' = active_count - 1
    /\ events' = Append(events, [task |-> t, result |-> result[t]])
    /\ IF active_count' = 0 THEN Wake ELSE UNCHANGED waiter
    /\ GoTo(t, "unlinked")
    /\ UNCHANGED <<stopping, active, fd, socket_fd, canceled, result, ok, fdVars>>

FinishTask(t) ==
    /\ step[t] = "reporting"
    /\ active' = active \ {t}
    /\ active_count' = IF t \in active THEN active_count - 1 ELSE active_count
    /\ events' = Append(events, [task |-> t, result |-> result[t]])
    /\ IF active_count' = 0 THEN Wake ELSE UNCHANGED waiter
    /\ GoTo(t, "unlinked")
    /\ result' = [result EXCEPT ![t] = "none"]
    /\ ok' = [ok EXCEPT ![t] = FALSE]
    /\ UNCHANGED <<stopping, fd, socket_fd, canceled, fdVars>>

FreeTask(t) ==
    /\ step[t] = "unlinked"
    /\ GoTo(t, "freed")
    /\ canceled' = [canceled EXCEPT ![t] = FALSE]
    /\ UNCHANGED <<managerVars, fd, socket_fd, result, ok, fdVars>>

transfer_worker(t) ==
    \/ OpenSocket(t) \/ task_publish_socket(t) \/ task_close_socket(t) \/ CloseSocket(t)
    \/ FixResult(t) \/ FinishTask(t) \/ FreeTask(t)

-----------------------------------------------------------------------------
(* The main thread's calls.                                                *)

\* A download whose target is being downloaded waits for its turn.
TargetBusy(t) == TargetOf[t] # NoTarget /\ \E u \in active : TargetOf[u] = TargetOf[t]

\* start_task: the list and the thread, or, when the manager is stopping or full, the
\* target is busy or the thread cannot be created, nothing.
start_task(t) ==
    /\ step[t] = "none"
    /\ ~stopping /\ active_count < MaxConcurrent /\ ~TargetBusy(t)
    /\ active' = active \cup {t}
    /\ active_count' = active_count + 1
    /\ GoTo(t, "opening")
    /\ UNCHANGED <<stopping, events, waiter, fd, socket_fd, canceled, result, ok,
                   fdVars>>

\* transfer_manager_stop cancels every task on the list and shuts its socket down.
StopTasks ==
    /\ waiter = "out" /\ ~stopping
    /\ stopping' = TRUE
    /\ canceled' = [t \in Tasks |-> canceled[t] \/ t \in active]
    /\ shut' = shut \cup {socket_fd[t] : t \in {u \in active : socket_fd[u] # NoFd}}
    /\ waiter' = IF active_count = 0 THEN "returned" ELSE "waiting"
    /\ UNCHANGED <<active, active_count, events, step, fd, socket_fd, result, ok,
                   owner>>

Recheck ==
    /\ waiter = "woken"
    /\ waiter' = IF active_count = 0 THEN "returned" ELSE "waiting"
    /\ UNCHANGED <<stopping, active, active_count, events, taskVars, fdVars>>

\* pthread_cond_wait may return without a signal.
SpuriousWakeup ==
    /\ waiter = "waiting"
    /\ waiter' = "woken"
    /\ UNCHANGED <<stopping, active, active_count, events, taskVars, fdVars>>

transfer_manager_drain_events ==
    /\ events' = <<>>
    /\ UNCHANGED <<stopping, active, active_count, waiter, taskVars, fdVars>>

\* transfer_manager_destroy, once stopped and drained; no thread uses the manager.
transfer_manager_destroy ==
    /\ waiter = "returned"
    /\ waiter' = "destroyed"
    /\ events' = <<>>
    /\ UNCHANGED <<stopping, active, active_count, taskVars, fdVars>>

-----------------------------------------------------------------------------
(* Properties.                                                             *)

\* A task on the list is alive: transfer_manager_stop, which walks the list, never
\* touches memory that was freed, and no thread uses a manager that was destroyed.
NoTouchAfterFree ==
    /\ \A t \in active : step[t] \notin {"none", "unlinked", "freed"}
    /\ waiter = "destroyed" => \A t \in Tasks : step[t] \in {"none", "unlinked", "freed"}

\* A published socket is the task's own, open descriptor, never one that was closed and
\* given out again; and once the manager stops, no published socket is left to block on.
SocketsUnderControl ==
    \A t \in Tasks :
        socket_fd[t] # NoFd =>
            /\ owner[socket_fd[t]] = t
            /\ stopping => canceled[t] /\ socket_fd[t] \in shut

Service ==
    INSTANCE TransferService WITH
        running <- active,
        outcomes <- events,
        reported <- {t \in Tasks : /\ step[t] \in {"unlinked", "freed"}
                                   /\ \A i \in DOMAIN events : events[i].task # t},
        service <- IF waiter = "destroyed" THEN "closed"
                   ELSE IF stopping THEN "closing" ELSE "open"

\* The manager implements the service: limits, one end and one report per transfer, in
\* order, cancellation only by the stop, and nothing left at the end.
ImplementsTransfers == Service!ServiceSpec
=============================================================================
