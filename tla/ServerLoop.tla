----------------------------- MODULE ServerLoop -----------------------------
(***************************************************************************)
(* The server's event loop, its workers and what they share: the epoll     *)
(* set, the timing wheel, the session table and the client descriptors     *)
(* (src/server/main.c, handler_event.c, and the task entry points of       *)
(* handler_basic.c and handler_transfer.c).                                *)
(*                                                                         *)
(* A descriptor is an integer the kernel hands out again after close, and  *)
(* all three tables are keyed by it.  conn[fd] is a ghost: the number of   *)
(* the connection now open on fd.                                          *)
(*                                                                         *)
(* Abstractions: the wheel is the set of its fds and an advance may expire *)
(* any of them (TimerWheel has the times); the table is SessionTable; the  *)
(* queue is a bounded sequence (ThreadPool has the mutex and condition     *)
(* variables).  A handler's replies, database and file work are left out:  *)
(* what remains is its effect on the tables.  A step of the main thread    *)
(* that only touches a descriptor it owns is not split further.            *)
(***************************************************************************)
EXTENDS Naturals, Sequences, FiniteSets

CONSTANTS
    Fds, Ids, Dirs, Root, NoSession,   \* as in SessionTable
    Workers,                           \* threads of the pool
    QueueCapacity,                     \* queue_capacity of the pool
    MaxConns,                          \* bound: connections accepted in a run
    Requests,                          \* what peers may send
    NoRequest, NoTask

VARIABLES
    live, issued, binding, connections, connection_count, cwd,  \* the session table
    conn,          \* ghost: the connection open on an fd, 0 when the fd is closed
    accepted,      \* ghost: connections accepted so far
    bound_by,      \* ghost: the connection that was open when the fd was bound
    input,         \* the request the peer of an fd has sent and the server has not read
    hup,           \* fds whose peer has hung up
    epoll,         \* client fds with epoll interest
    tracked,       \* fds in the timing wheel
    main,          \* where the main thread is
    batch,         \* client events of the current epoll_wait not yet handled
    accept_ready, timer_ready,   \* listen_fd is in the batch; timer_fd was in it
    expiring,      \* fds the current advance still closes
    handoff,       \* the task the main thread is adding to the queue
    queue,         \* the thread pool's tasks
    worker         \* what each worker is doing

tableVars == <<live, issued, binding, connections, connection_count, cwd>>
kernelVars == <<conn, accepted, bound_by, input, hup, epoll, tracked>>
mainVars == <<main, batch, accept_ready, timer_ready, expiring, handoff>>
vars == <<tableVars, kernelVars, mainVars, queue, worker>>

ST == INSTANCE SessionTable

\* "login" is any anonymous command, "basic" any other one that is answered on the
\* control connection, "transfer" puts or gets.
Commands == {"login", "basic", "transfer"}

ASSUME RequestsAssumption == Requests \subseteq [cmd : Commands, sid : Ids \cup {NoSession}]

Tasks == [fd : Fds, conn : 1 .. MaxConns, cmd : Commands, sid : Ids \cup {NoSession}]
Idle  == [at |-> "idle", task |-> NoTask]

ASSUME LoopAssumption ==
    /\ Root \in Dirs /\ NoSession \notin Ids
    /\ QueueCapacity \in Nat /\ MaxConns \in Nat
    /\ NoTask \notin Tasks /\ NoRequest \notin Requests

Open == {fd \in Fds : conn[fd] # 0}

Init ==
    /\ ST!TableInit
    /\ conn = [fd \in Fds |-> 0]
    /\ accepted = 0
    /\ bound_by = [fd \in Fds |-> 0]
    /\ input = [fd \in Fds |-> NoRequest]
    /\ hup = {}
    /\ epoll = {}
    /\ tracked = {}
    /\ main = "waiting"
    /\ batch = {}
    /\ accept_ready = FALSE
    /\ timer_ready = FALSE
    /\ expiring = {}
    /\ handoff = NoTask
    /\ queue = <<>>
    /\ worker = [w \in Workers |-> Idle]

-----------------------------------------------------------------------------
(* The peers: one outstanding request per connection, or a hang-up.        *)

SendRequest(fd, r) ==
    /\ conn[fd] # 0
    /\ fd \notin hup
    /\ input[fd] = NoRequest
    /\ input' = [input EXCEPT ![fd] = r]
    /\ UNCHANGED <<tableVars, conn, accepted, bound_by, hup, epoll, tracked, mainVars,
                   queue, worker>>

HangUp(fd) ==
    /\ conn[fd] # 0
    /\ fd \notin hup
    /\ hup' = hup \cup {fd}
    /\ UNCHANGED <<tableVars, conn, accepted, bound_by, input, epoll, tracked, mainVars,
                   queue, worker>>

-----------------------------------------------------------------------------
(* Operations on a descriptor.                                             *)

\* The session table with fd detached; the ghost goes with the binding.
Detach(fd) ==
    /\ ST!session_detach_fd(fd)
    /\ bound_by' = [bound_by EXCEPT ![fd] = 0]

CloseFd(fd) ==
    /\ conn' = [conn EXCEPT ![fd] = 0]
    /\ input' = [input EXCEPT ![fd] = NoRequest]
    /\ hup' = hup \ {fd}

\* close_client and close_idle_client: out of the wheel, epoll and the session table,
\* then closed.
close_client(fd) ==
    /\ tracked' = tracked \ {fd}
    /\ epoll' = epoll \ {fd}
    /\ Detach(fd)
    /\ CloseFd(fd)
    /\ UNCHANGED accepted

-----------------------------------------------------------------------------
(* The main thread.                                                        *)

Ready == {fd \in epoll : input[fd] # NoRequest \/ fd \in hup}

\* epoll_wait returns: every client fd that is ready, and possibly the listening
\* socket and the timer.
EpollWait ==
    /\ main = "waiting"
    /\ batch' = {[fd |-> fd, conn |-> conn[fd],
                  events |-> IF fd \in hup THEN "EPOLLHUP" ELSE "EPOLLIN"] : fd \in Ready}
    /\ accept_ready' \in (IF accepted < MaxConns THEN BOOLEAN ELSE {FALSE})
    /\ timer_ready' \in BOOLEAN
    /\ batch' # {} \/ accept_ready' \/ timer_ready'
    /\ main' = "batch"
    /\ UNCHANGED <<tableVars, kernelVars, expiring, handoff, queue, worker>>

\* handle_accept_event: some fd the kernel has free gets interest and a deadline.
handle_accept_event ==
    /\ main = "batch"
    /\ accept_ready
    /\ accept_ready' = FALSE
    /\ \/ \E fd \in Fds \ Open :
            /\ conn' = [conn EXCEPT ![fd] = accepted + 1]
            /\ accepted' = accepted + 1
            /\ epoll' = epoll \cup {fd}
            /\ tracked' = tracked \cup {fd}
       \/ UNCHANGED <<conn, accepted, epoll, tracked>>  \* accept, ADD or track failed
    /\ UNCHANGED <<tableVars, bound_by, input, hup, main, batch, timer_ready,
                   expiring, handoff, queue, worker>>

\* handle_client_event: hang-up, failed receive, failed send or failed allocation.
DropClient(e) ==
    /\ main = "batch"
    /\ e \in batch
    /\ batch' = batch \ {e}
    /\ close_client(e.fd)
    /\ UNCHANGED <<main, accept_ready, timer_ready, expiring, handoff, queue, worker>>

Anonymous(r) == r.cmd = "login"

\* An anonymous command carries no session id; any other one passes session_authorize.
Acceptable(fd, r) ==
    IF Anonymous(r) THEN r.sid = NoSession
                    ELSE r.sid # NoSession /\ ST!MayUse(fd, r.sid)

\* The event is EPOLLIN alone and its packet has been received.
Received(e) ==
    /\ main = "batch"
    /\ e \in batch
    /\ e.events = "EPOLLIN"
    /\ batch' = batch \ {e}
    /\ input' = [input EXCEPT ![e.fd] = NoRequest]

\* handle_client_event: BAD_REQUEST or UNAUTHORIZED is sent and the fd stays.
RejectRequest(e) ==
    /\ Received(e)
    /\ ~Acceptable(e.fd, input[e.fd])
    /\ UNCHANGED <<tableVars, conn, accepted, bound_by, hup, epoll, tracked, main,
                   accept_ready, timer_ready, expiring, handoff, queue, worker>>

Authorize_Mutant(fd, r) == UNCHANGED <<tableVars, bound_by>>

\* session_authorize binds the fd to the session of its request.
Authorize(fd, r) ==
    IF Anonymous(r)
    THEN UNCHANGED <<tableVars, bound_by>>
    ELSE /\ ST!session_authorize(fd, r.sid)
         /\ bound_by' = IF binding[fd] = NoSession
                        THEN [bound_by EXCEPT ![fd] = conn[fd]] ELSE bound_by

Disarm_Mutant(fd) ==
    /\ tracked' = tracked \ {fd}
    /\ UNCHANGED epoll

Disarm_TimedMutant(fd) ==
    /\ epoll' = epoll \ {fd}
    /\ UNCHANGED tracked

\* A worker-owned fd has neither a deadline nor epoll interest.
Disarm(fd) ==
    /\ tracked' = tracked \ {fd}
    /\ epoll' = epoll \ {fd}

\* handle_client_event: a good request is authorized, the fd leaves the wheel and
\* epoll, and its task is to be added to the pool.
DispatchRequest(e) ==
    /\ Received(e)
    /\ Acceptable(e.fd, input[e.fd])
    /\ Authorize(e.fd, input[e.fd])
    /\ Disarm(e.fd)
    /\ handoff' = [fd |-> e.fd, conn |-> e.conn, cmd |-> input[e.fd].cmd,
                   sid |-> input[e.fd].sid]
    /\ main' = "adding"
    /\ UNCHANGED <<conn, accepted, hup, accept_ready, timer_ready, expiring, queue,
                   worker>>

\* thread_pool_add allocates its node before it looks at the queue.
AllocateTask ==
    /\ main = "adding"
    /\ main' = "queueing"
    /\ UNCHANGED <<tableVars, kernelVars, batch, accept_ready, timer_ready, expiring,
                   handoff, queue, worker>>

\* The allocation fails, and the caller closes the connection.
AddFails ==
    /\ main = "adding"
    /\ close_client(handoff.fd)
    /\ handoff' = NoTask
    /\ main' = "batch"
    /\ UNCHANGED <<batch, accept_ready, timer_ready, expiring, queue, worker>>

HasRoom_Mutant == Len(queue) + 1 < QueueCapacity

\* thread_pool_add blocks while the queue is full.
HasRoom == Len(queue) < QueueCapacity

AddTask ==
    /\ main = "queueing"
    /\ HasRoom
    /\ queue' = Append(queue, handoff)
    /\ handoff' = NoTask
    /\ main' = "batch"
    /\ UNCHANGED <<tableVars, kernelVars, batch, accept_ready, timer_ready, expiring,
                   worker>>

BatchHandled_Mutant == main = "batch"

\* Expiry is processed only after every event of the batch.
BatchHandled == main = "batch" /\ batch = {} /\ ~accept_ready

\* The end of a batch: timer_wheel_advance if the timer fired.
EndBatch ==
    /\ BatchHandled
    /\ timer_ready' = FALSE
    /\ expiring' \in (IF timer_ready THEN SUBSET tracked ELSE {{}})
    /\ main' = IF expiring' = {} THEN "waiting" ELSE "expiring"
    /\ UNCHANGED <<tableVars, kernelVars, batch, accept_ready, handoff, queue, worker>>

\* The advance frees one node and calls close_idle_client, the wheel's mutex held.
ExpireOne(fd) ==
    /\ main = "expiring"
    /\ fd \in expiring
    /\ expiring' = expiring \ {fd}
    /\ main' = IF expiring' = {} THEN "waiting" ELSE "expiring"
    /\ close_client(fd)
    /\ UNCHANGED <<batch, accept_ready, timer_ready, handoff, queue, worker>>

\* SIGINT: the pipe's event may come anywhere in a batch; what is left of the batch is
\* dropped, epoll is closed and thread_pool_destroy waits for the workers.
ShutDown ==
    /\ main \in {"waiting", "batch"}
    /\ main' = "draining"
    /\ batch' = {}
    /\ accept_ready' = FALSE
    /\ timer_ready' = FALSE
    /\ epoll' = {}
    /\ UNCHANGED <<tableVars, conn, accepted, bound_by, input, hup, tracked,
                   expiring, handoff, queue, worker>>

Quiet_StuckMutant == queue = <<>> /\ Open = {}

Quiet == queue = <<>> /\ \A w \in Workers : worker[w] = Idle

\* Every worker has been joined, and the process exits; ServerPools has what is destroyed
\* on the way and in which order.
Exit ==
    /\ main = "draining"
    /\ Quiet
    /\ main' = "stopped"
    /\ UNCHANGED <<tableVars, kernelVars, batch, accept_ready, timer_ready, expiring,
                   handoff, queue, worker>>

-----------------------------------------------------------------------------
(* The workers.                                                            *)

At(w, place) == worker[w].at = place
Goto(w, place) == worker' = [worker EXCEPT ![w].at = place]

Take(w) ==
    /\ At(w, "idle")
    /\ queue # <<>>
    /\ worker' = [worker EXCEPT ![w] = [at |-> "running", task |-> Head(queue)]]
    /\ queue' = Tail(queue)
    /\ UNCHANGED <<tableVars, kernelVars, mainVars>>

\* handle_login creates a session unless the fd has one.
handle_login(t) ==
    \E id \in Ids :
        /\ ST!session_create(t.fd, id)
        /\ bound_by' = [bound_by EXCEPT ![t.fd] = conn[t.fd]]

\* cd is the short command that writes the table.
handle_cd(t) ==
    \E dir \in Dirs : ST!session_update_cwd(t.fd, t.sid, dir) /\ UNCHANGED bound_by

\* handle_basic_task: the handler, or a handler that ends with an error.
RunBasic(w) ==
    LET t == worker[w].task
    IN  /\ At(w, "running")
        /\ t.cmd # "transfer"
        /\ \/ t.cmd = "login" /\ handle_login(t)
           \/ t.cmd = "basic" /\ handle_cd(t)
           \/ UNCHANGED <<tableVars, bound_by>>
        /\ Goto(w, "rearm")
        /\ UNCHANGED <<conn, accepted, input, hup, epoll, tracked, mainVars, queue>>

Rearm_Mutant(w) ==
    LET fd == worker[w].task.fd
    IN  /\ At(w, "rearm")
        /\ main \notin {"expiring", "draining", "stopped"}
        /\ fd \notin tracked
        /\ tracked' = tracked \cup {fd}
        /\ epoll' = epoll \cup {fd}
        /\ worker' = [worker EXCEPT ![w] = Idle]
        /\ UNCHANGED <<tableVars, conn, accepted, bound_by, input, hup, mainVars, queue>>

\* track_and_publish: a deadline and epoll interest, or neither.  Not during an advance,
\* which holds the wheel's mutex.
Rearm(w) ==
    LET fd == worker[w].task.fd
    IN  /\ At(w, "rearm")
        /\ main # "expiring"
        /\ \/ /\ main \notin {"draining", "stopped"}
              /\ fd \notin tracked
              /\ tracked' = tracked \cup {fd}
              /\ epoll' = epoll \cup {fd}
              /\ worker' = [worker EXCEPT ![w] = Idle]
           \/ /\ Goto(w, "detach")
              /\ UNCHANGED <<tracked, epoll>>
        /\ UNCHANGED <<tableVars, conn, accepted, bound_by, input, hup, mainVars, queue>>

\* handle_transfer_task: the transfer ends, well or not.
EndTransfer(w) ==
    /\ At(w, "running")
    /\ worker[w].task.cmd = "transfer"
    /\ Goto(w, "detach")
    /\ UNCHANGED <<tableVars, kernelVars, mainVars, queue>>

Release_Mutant(w) ==
    LET fd == worker[w].task.fd
    IN  \/ /\ At(w, "detach")
           /\ CloseFd(fd)
           /\ Goto(w, "close")
           /\ UNCHANGED <<tableVars, accepted, bound_by, epoll, tracked, mainVars, queue>>
        \/ /\ At(w, "close")
           /\ Detach(fd)
           /\ worker' = [worker EXCEPT ![w] = Idle]
           /\ UNCHANGED <<conn, accepted, input, hup, epoll, tracked, mainVars, queue>>

\* A worker gives up its fd: session_detach_fd, then close.
Release(w) ==
    LET fd == worker[w].task.fd
    IN  \/ /\ At(w, "detach")
           /\ Detach(fd)
           /\ Goto(w, "close")
           /\ UNCHANGED <<conn, accepted, input, hup, epoll, tracked, mainVars, queue>>
        \/ /\ At(w, "close")
           /\ CloseFd(fd)
           /\ worker' = [worker EXCEPT ![w] = Idle]
           /\ UNCHANGED <<tableVars, accepted, bound_by, epoll, tracked, mainVars, queue>>

-----------------------------------------------------------------------------

PeerStep == main # "stopped" /\ \E fd \in Fds : HangUp(fd) \/ \E r \in Requests : SendRequest(fd, r)

EventStep == \E e \in batch : DropClient(e) \/ RejectRequest(e) \/ DispatchRequest(e)

LoopStep ==
    \/ EpollWait
    \/ handle_accept_event
    \/ EventStep
    \/ AllocateTask
    \/ AddTask
    \/ EndBatch
    \/ \E fd \in expiring : ExpireOne(fd)
    \/ Exit

WorkerStep(w) == Take(w) \/ RunBasic(w) \/ Rearm(w) \/ EndTransfer(w) \/ Release(w)

Next == PeerStep \/ LoopStep \/ AddFails \/ ShutDown \/ \E w \in Workers : WorkerStep(w)

\* The threads are scheduled, and a worker waiting for the wheel's mutex, which the loop
\* holds once a second, gets it in the end.  Peers and the operator need do nothing, and
\* an allocation need not fail: a loop that waits for room is freed by a worker or not at all.
Fairness ==
    /\ WF_vars(LoopStep)
    /\ \A w \in Workers : WF_vars(WorkerStep(w)) /\ SF_vars(Rearm(w))

Spec == Init /\ [][Next]_vars /\ Fairness

-----------------------------------------------------------------------------
(* Properties.                                                             *)

TasksOut ==
    ({queue[i] : i \in DOMAIN queue} \cup {worker[w].task : w \in Workers} \cup {handoff})
        \ {NoTask}

Held(fd) == \E t \in TasksOut : t.fd = fd

\* The variables beside the table have their types, and the queue stays within its
\* capacity.
TypeOK ==
    /\ conn \in [Fds -> 0 .. MaxConns] /\ bound_by \in [Fds -> 0 .. MaxConns]
    /\ accepted \in 0 .. MaxConns
    /\ input \in [Fds -> Requests \cup {NoRequest}] /\ hup \subseteq Fds
    /\ epoll \subseteq Fds /\ tracked \subseteq Fds /\ expiring \subseteq Fds
    /\ main \in {"waiting", "batch", "adding", "queueing", "expiring", "draining", "stopped"}
    /\ batch \subseteq [fd : Fds, conn : 1 .. MaxConns, events : {"EPOLLIN", "EPOLLHUP"}]
    /\ accept_ready \in BOOLEAN /\ timer_ready \in BOOLEAN
    /\ handoff \in Tasks \cup {NoTask}
    /\ queue \in Seq(Tasks) /\ Len(queue) <= QueueCapacity
    /\ worker \in [Workers -> [at : {"idle", "running", "rearm", "detach", "close"},
                               task : Tasks \cup {NoTask}]]

\* Who owns a client fd: while the loop runs, an open fd is either armed (it has both
\* epoll interest and a deadline) or held by exactly one task, never both and never
\* neither, so no connection is served twice or leaked.
OwnedOnce ==
    main \notin {"draining", "stopped"} =>
        /\ epoll = tracked
        /\ \A fd \in Open : fd \in epoll <=> ~Held(fd)
        /\ \A fd \in Fds \ Open : fd \notin epoll /\ ~Held(fd)
        /\ \A w1, w2 \in Workers :
              w1 # w2 /\ ~At(w1, "idle") /\ ~At(w2, "idle")
                 => worker[w1].task.fd # worker[w2].task.fd

\* No event is handled for a connection other than the one it was raised for: the fds
\* of a batch are not closed and handed out again before their event is handled.
FreshEvents ==
    \A e \in batch : conn[e.fd] = e.conn /\ e.fd \in epoll

\* A binding belongs to the connection now open on its fd: no connection inherits the
\* session of the one that had the fd before it.
BindingsFresh ==
    \A fd \in Fds : binding[fd] # NoSession => bound_by[fd] = conn[fd] /\ conn[fd] # 0

\* From authorization until its fd is detached, an authorized task's fd stays bound to the
\* task's session, which therefore lives as long as the task needs it.
TasksAuthorized ==
    \A t \in TasksOut :
        \/ t.cmd = "login"
        \/ binding[t.fd] = t.sid /\ t.sid \in live
        \/ \E w \in Workers : worker[w].task = t /\ At(w, "close")

\* A task is served on the connection whose request it holds: until its worker has closed
\* the fd, neither expiry nor a hang-up closes it and no other peer gets its number, so that
\* no answer or file goes to another connection.
TasksKeepConnection ==
    \A t \in TasksOut : conn[t.fd] = t.conn

\* An fd taken from epoll for a request is given back or closed: neither a full queue
\* nor busy workers keep it for ever.
TaskFinishes ==
    \A fd \in Fds : Held(fd) ~> ~Held(fd)

\* A request or hang-up that has arrived on an armed fd is seen, unless the server stops.
InputServed ==
    \A fd \in Fds : fd \in Ready ~> fd \notin Ready \/ main \in {"draining", "stopped"}

\* After SIGINT the drained pool lets the process exit.
ShutdownCompletes == main = "draining" ~> main = "stopped"

=============================================================================
