-------------------------- MODULE ServerLoopProofs --------------------------
(***************************************************************************)
(* Proofs about the event loop and its workers, for any number of          *)
(* descriptors, sessions, workers and connections and any capacity of the  *)
(* queue.                                                                  *)
(*                                                                         *)
(* A task is in one of three places: in the hands of the main thread, in   *)
(* the queue, or with a worker.  The argument is that the descriptors of   *)
(* all tasks differ (Distinct) and are none of those the loop watches      *)
(* (Owned), so that whoever acts on a descriptor acts alone.  That the     *)
(* table of sessions is only used through its operations lets its own      *)
(* invariant, proved in SessionTableProofs, be taken over as it is.        *)
(***************************************************************************)
EXTENDS ServerLoop, SequenceTheorems, TLAPS

TP == INSTANCE SessionTableProofs

-----------------------------------------------------------------------------
(* The inductive invariant.                                                *)

\* Where the threads are and what they have in hand.
Control ==
    /\ handoff # NoTask <=> main \in {"adding", "queueing"}
    /\ batch # {} => main \in {"batch", "adding", "queueing"}
    /\ expiring # {} => main = "expiring"
    /\ accept_ready => accepted < MaxConns
    /\ \A w \in Workers : worker[w].at = "idle" <=> worker[w].task = NoTask
    /\ main = "stopped" => queue = <<>> /\ \A w \in Workers : worker[w].task = NoTask

\* No two tasks have the same descriptor.
Distinct ==
    /\ \A i, j \in 1 .. Len(queue) : i # j => queue[i].fd # queue[j].fd
    /\ \A w \in Workers : worker[w].task # NoTask =>
          /\ \A i \in 1 .. Len(queue) : queue[i].fd # worker[w].task.fd
          /\ \A v \in Workers \ {w} :
                worker[v].task # NoTask => worker[v].task.fd # worker[w].task.fd
    /\ handoff # NoTask =>
          /\ \A i \in 1 .. Len(queue) : queue[i].fd # handoff.fd
          /\ \A w \in Workers : worker[w].task # NoTask => worker[w].task.fd # handoff.fd

\* Some task has the descriptor.
Holder(fd) ==
    \/ \E i \in 1 .. Len(queue) : queue[i].fd = fd
    \/ \E w \in Workers : worker[w].task # NoTask /\ worker[w].task.fd = fd
    \/ handoff # NoTask /\ handoff.fd = fd

Running == main \notin {"draining", "stopped"}

\* A descriptor is watched by the loop or held by a task.
Owned ==
    /\ epoll \subseteq tracked /\ (Running => epoll = tracked)
    /\ expiring \subseteq tracked
    /\ \A fd \in tracked : conn[fd] # 0 /\ ~Holder(fd)
    /\ \A fd \in Fds : Holder(fd) => conn[fd] # 0
    /\ Running => \A fd \in Fds : conn[fd] # 0 => fd \in epoll \/ Holder(fd)

\* An event is about the connection it was raised for; one that is no hang-up has a
\* request to read.
Events ==
    /\ FreshEvents
    /\ \A e \in batch : e.events = "EPOLLIN" => input[e.fd] # NoRequest
    /\ \A e, f \in batch : e.fd = f.fd => e = f

\* The descriptor of a task is bound to the session of its request.
Authorized(t) == t.cmd = "login" \/ (t.sid # NoSession /\ binding[t.fd] = t.sid)

Bound ==
    /\ \A i \in 1 .. Len(queue) : Authorized(queue[i])
    /\ handoff # NoTask => Authorized(handoff)
    /\ \A w \in Workers : worker[w].task # NoTask =>
          IF worker[w].at = "close" THEN binding[worker[w].task.fd] = NoSession
                                    ELSE Authorized(worker[w].task)

LoopInv ==
    /\ TypeOK /\ TP!TableInv
    /\ Control /\ Distinct /\ Owned /\ Events /\ BindingsFresh /\ Bound

-----------------------------------------------------------------------------
(* The session table.                                                      *)

\* The operations the loop uses are those SessionTableProofs is about.
LEMMA TableStep == TP!TableInv /\ [ST!TableNext]_tableVars => TP!TableInv'
<1>1. [ST!TableNext]_tableVars => [TP!TableNext]_(TP!tableVars)
    BY Zenon DEF ST!TableNext, TP!TableNext, tableVars, ST!tableVars, TP!tableVars,
           ST!session_create, TP!session_create, ST!session_detach_fd, TP!session_detach_fd,
           ST!session_authorize, TP!session_authorize, ST!MayUse, TP!MayUse,
           ST!BindNew, TP!BindNew, ST!session_update_cwd, TP!session_update_cwd,
           ST!Survivors, TP!Survivors
<1>2. TP!TableInv /\ [TP!TableNext]_(TP!tableVars) => TP!TableInv'
    BY TP!TableNextInv, LoopAssumption, Zenon
<1>. QED
    BY <1>1, <1>2, Zenon

\* The facts about the table that the loop needs.
LEMMA TableFacts ==
    ASSUME TP!TableInv
    PROVE  /\ binding \in [Fds -> Ids \cup {NoSession}] /\ live \subseteq Ids
           /\ \A fd \in Fds : binding[fd] # NoSession => binding[fd] \in live
<1>1. TP!TableTypeOK /\ TP!IndexesAgree /\ TP!LiveIffBound
    BY Zenon DEF TP!TableInv
<1>. QED
    BY <1>1, Zenon DEF TP!TableTypeOK, TP!IndexesAgree, TP!LiveIffBound

\* session_detach_fd and the ghost change one descriptor.
LEMMA DetachFacts ==
    ASSUME TP!TableInv, TypeOK, NEW fd \in Fds, Detach(fd)
    PROVE  /\ binding' \in [Fds -> Ids \cup {NoSession}] /\ binding'[fd] = NoSession
           /\ bound_by' \in [Fds -> 0 .. MaxConns]
           /\ \A g \in Fds \ {fd} : binding'[g] = binding[g] /\ bound_by'[g] = bound_by[g]
           /\ [ST!TableNext]_tableVars
<1>1. binding \in [Fds -> Ids \cup {NoSession}]
    BY TableFacts, Zenon
<1>2. ST!session_detach_fd(fd) /\ bound_by' = [bound_by EXCEPT ![fd] = 0]
    BY Zenon DEF Detach
<1>3. binding' = [binding EXCEPT ![fd] = NoSession]
    BY <1>1, <1>2, Zenon DEF ST!session_detach_fd, ST!tableVars
<1>4. [ST!TableNext]_tableVars
    BY <1>2, Zenon DEF ST!TableNext
<1>5. bound_by \in [Fds -> 0 .. MaxConns] /\ 0 \in 0 .. MaxConns
    BY LoopAssumption DEF TypeOK
<1>. QED
    BY <1>1, <1>2, <1>3, <1>4, <1>5, Zenon

\* What a task is, wherever it is.
LEMMA TaskTypes ==
    ASSUME TypeOK
    PROVE  /\ Len(queue) \in Nat
           /\ \A i \in 1 .. Len(queue) : queue[i] \in Tasks
           /\ handoff # NoTask => handoff \in Tasks
           /\ \A w \in Workers : worker[w].task # NoTask => worker[w].task \in Tasks
           /\ \A t \in Tasks : t.fd \in Fds /\ t # NoTask
<1>1. queue \in Seq(Tasks)
    BY Zenon DEF TypeOK
<1>2. Len(queue) \in Nat /\ \A i \in 1 .. Len(queue) : queue[i] \in Tasks
    BY <1>1, ElementOfSeq, LenProperties, Zenon
<1>3. \A t \in Tasks : t.fd \in Fds /\ t # NoTask
    BY LoopAssumption, Zenon DEF Tasks
<1>. QED
    BY <1>2, <1>3, Zenon DEF TypeOK

-----------------------------------------------------------------------------
(* Steps that leave the tasks and the table alone.                         *)

\* Whoever has the tasks, they are the same.
LEMMA SameTasks ==
    ASSUME queue' = queue, handoff' = handoff,
           \A w \in Workers : worker'[w].task = worker[w].task
    PROVE  /\ \A fd \in Fds : Holder(fd)' <=> Holder(fd)
           /\ Distinct => Distinct'
BY DEF Holder, Distinct

\* What no step of this kind disturbs.
LEMMA QuietStep ==
    ASSUME LoopInv, UNCHANGED <<tableVars, bound_by, queue, handoff, worker>>
    PROVE  /\ TP!TableInv' /\ Distinct' /\ Bound'
           /\ \A fd \in Fds : Holder(fd)' <=> Holder(fd)
<1>1. TP!TableInv'
    BY TableStep, Zenon DEF LoopInv
<1>2. Distinct' /\ \A fd \in Fds : Holder(fd)' <=> Holder(fd)
    BY SameTasks, Zenon DEF LoopInv
<1>3. Bound'
    BY Zenon DEF LoopInv, Bound, Authorized, tableVars
<1>. QED
    BY <1>1, <1>2, <1>3, Zenon

\* A peer sends a request or hangs up.
LEMMA PeerInv ==
    ASSUME LoopInv, PeerStep
    PROVE  LoopInv'
<1>1. /\ UNCHANGED <<tableVars, bound_by, queue, handoff, worker>>
      /\ UNCHANGED <<conn, accepted, epoll, tracked, main, batch, accept_ready, timer_ready,
                     expiring, binding>>
    BY Zenon DEF PeerStep, SendRequest, HangUp, mainVars, tableVars
<1>2. /\ TP!TableInv' /\ Distinct' /\ Bound'
      /\ \A fd \in Fds : Holder(fd)' <=> Holder(fd)
    BY <1>1, QuietStep, Zenon
<1>3. /\ input' \in [Fds -> Requests \cup {NoRequest}] /\ hup' \subseteq Fds
      /\ \A fd \in Fds : input[fd] # NoRequest => input'[fd] # NoRequest
  <2>1. input \in [Fds -> Requests \cup {NoRequest}] /\ hup \subseteq Fds
    BY Zenon DEF LoopInv, TypeOK
  <2>2. ASSUME NEW fd \in Fds, HangUp(fd)
        PROVE  input' = input /\ hup' = hup \cup {fd}
    BY <2>2, Zenon DEF HangUp
  <2>3. ASSUME NEW fd \in Fds, NEW r \in Requests, SendRequest(fd, r)
        PROVE  input' = [input EXCEPT ![fd] = r] /\ hup' = hup
    BY <2>3, Zenon DEF SendRequest
  <2>. QED
    BY <2>1, <2>2, <2>3, LoopAssumption, Zenon DEF PeerStep
<1>4. TypeOK'
    BY <1>1, <1>3, Zenon DEF LoopInv, TypeOK
<1>5. Control' /\ BindingsFresh'
    BY <1>1, Zenon DEF LoopInv, Control, BindingsFresh
<1>6. Owned'
    BY <1>1, <1>2, Zenon DEF LoopInv, Owned, TypeOK, Running
<1>7. Events'
    BY <1>1, <1>3, Zenon DEF LoopInv, Events, FreshEvents, TypeOK
<1>. QED
    BY <1>2, <1>4, <1>5, <1>6, <1>7, Zenon DEF LoopInv

\* epoll_wait raises events for what is watched now.
LEMMA EpollWaitInv ==
    ASSUME LoopInv, EpollWait
    PROVE  LoopInv'
<1>1. /\ UNCHANGED <<tableVars, bound_by, queue, handoff, worker>>
      /\ UNCHANGED <<conn, accepted, input, hup, epoll, tracked, expiring, binding>>
      /\ main = "waiting" /\ main' = "batch" /\ timer_ready' \in BOOLEAN
      /\ accept_ready' \in BOOLEAN /\ (accept_ready' => accepted < MaxConns)
      /\ batch' = {[fd |-> fd, conn |-> conn[fd],
                    events |-> IF fd \in hup THEN "EPOLLHUP" ELSE "EPOLLIN"] : fd \in Ready}
    BY Zenon DEF EpollWait, kernelVars, tableVars
<1>2. /\ TP!TableInv' /\ Distinct' /\ Bound'
      /\ \A fd \in Fds : Holder(fd)' <=> Holder(fd)
    BY <1>1, QuietStep, Zenon
<1>3. ASSUME NEW fd \in Ready
      PROVE  /\ fd \in Fds /\ fd \in epoll /\ conn[fd] \in 1 .. MaxConns
             /\ input[fd] # NoRequest \/ fd \in hup
    BY LoopAssumption DEF LoopInv, TypeOK, Owned, Ready
<1>4. ASSUME NEW e \in batch'
      PROVE  /\ e \in [fd : Fds, conn : 1 .. MaxConns, events : {"EPOLLIN", "EPOLLHUP"}]
             /\ conn[e.fd] = e.conn /\ e.fd \in epoll
             /\ e.events = "EPOLLIN" => input[e.fd] # NoRequest
             /\ e = [fd |-> e.fd, conn |-> conn[e.fd],
                     events |-> IF e.fd \in hup THEN "EPOLLHUP" ELSE "EPOLLIN"]
  <2>1. PICK fd \in Ready :
            e = [fd |-> fd, conn |-> conn[fd],
                 events |-> IF fd \in hup THEN "EPOLLHUP" ELSE "EPOLLIN"]
    BY <1>1, Zenon
  <2>2. CASE fd \in hup
    BY <1>3, <2>1, <2>2, Zenon
  <2>3. CASE fd \notin hup
    BY <1>3, <2>1, <2>3, Zenon
  <2>. QED
    BY <2>2, <2>3, Zenon
<1>5. TypeOK'
    BY <1>1, <1>4, Zenon DEF LoopInv, TypeOK
<1>6. Control' /\ BindingsFresh'
    BY <1>1, Zenon DEF LoopInv, Control, BindingsFresh
<1>7. Owned'
    BY <1>1, <1>2, Zenon DEF LoopInv, Owned, TypeOK, Running
<1>8. Events'
  <2>1. \A e, f \in batch' : e.fd = f.fd => e = f
    BY <1>4, Zenon
  <2>. QED
    BY <1>1, <1>4, <2>1, Zenon DEF Events, FreshEvents
<1>. QED
    BY <1>2, <1>5, <1>6, <1>7, <1>8, Zenon DEF LoopInv

\* The kernel gives out a descriptor that nobody has.
LEMMA AcceptInv ==
    ASSUME LoopInv, handle_accept_event
    PROVE  LoopInv'
<1>1. /\ UNCHANGED <<tableVars, bound_by, queue, handoff, worker>>
      /\ UNCHANGED <<input, hup, main, batch, timer_ready, expiring, binding>>
      /\ main = "batch" /\ accept_ready /\ accept_ready' = FALSE
    BY Zenon DEF handle_accept_event, tableVars
<1>2. /\ TP!TableInv' /\ Distinct' /\ Bound'
      /\ \A fd \in Fds : Holder(fd)' <=> Holder(fd)
    BY <1>1, QuietStep, Zenon
<1>3. CASE UNCHANGED <<conn, accepted, epoll, tracked>>
  <2>1. TypeOK'
    BY <1>1, <1>3, Zenon DEF LoopInv, TypeOK
  <2>2. Control' /\ BindingsFresh'
    BY <1>1, <1>3, Zenon DEF LoopInv, Control, BindingsFresh
  <2>3. Owned'
    BY <1>1, <1>2, <1>3, Zenon DEF LoopInv, Owned, TypeOK, Running
  <2>4. Events'
    BY <1>1, <1>3, Zenon DEF LoopInv, Events, FreshEvents
  <2>. QED
    BY <1>2, <2>1, <2>2, <2>3, <2>4, Zenon DEF LoopInv
<1>4. ASSUME NEW fd \in Fds \ Open, conn' = [conn EXCEPT ![fd] = accepted + 1],
             accepted' = accepted + 1, epoll' = epoll \cup {fd}, tracked' = tracked \cup {fd}
      PROVE  LoopInv'
  <2>1. accepted \in Nat /\ accepted < MaxConns /\ conn[fd] = 0 /\ accepted + 1 \in 1 .. MaxConns
    BY <1>1, LoopAssumption DEF LoopInv, Control, TypeOK, Open
  <2>2. /\ conn' \in [Fds -> 0 .. MaxConns] /\ conn'[fd] = accepted + 1 /\ conn'[fd] # 0
        /\ \A g \in Fds \ {fd} : conn'[g] = conn[g]
    BY <1>4, <2>1 DEF LoopInv, TypeOK
  <2>3. TypeOK'
    BY <1>1, <1>4, <2>1, <2>2, Zenon DEF LoopInv, TypeOK
  <2>4. Control'
    BY <1>1, Zenon DEF LoopInv, Control
  <2>5. BindingsFresh'
    BY <1>1, <2>1, <2>2, Zenon DEF LoopInv, BindingsFresh
  <2>6. Owned'
    BY <1>1, <1>2, <1>4, <2>1, <2>2, Zenon DEF LoopInv, Owned, TypeOK, Running
  <2>7. Events'
    BY <1>1, <1>4, <2>1, <2>2 DEF LoopInv, Events, FreshEvents, TypeOK
  <2>. QED
    BY <1>2, <2>3, <2>4, <2>5, <2>6, <2>7, Zenon DEF LoopInv
<1>. QED
    BY <1>3, <1>4, Zenon DEF handle_accept_event

\* A request that is refused is read and the descriptor stays watched.
LEMMA RejectInv ==
    ASSUME LoopInv, NEW e \in batch, RejectRequest(e)
    PROVE  LoopInv'
<1>1. /\ UNCHANGED <<tableVars, bound_by, queue, handoff, worker>>
      /\ UNCHANGED <<conn, accepted, hup, epoll, tracked, main, accept_ready, timer_ready,
                     expiring, binding>>
      /\ main = "batch" /\ batch' = batch \ {e}
      /\ input' = [input EXCEPT ![e.fd] = NoRequest]
    BY Zenon DEF RejectRequest, Received, tableVars
<1>2. /\ TP!TableInv' /\ Distinct' /\ Bound'
      /\ \A fd \in Fds : Holder(fd)' <=> Holder(fd)
    BY <1>1, QuietStep, Zenon
<1>3. e.fd \in Fds /\ \A f \in batch' : f \in batch /\ f.fd \in Fds /\ f.fd # e.fd
    BY <1>1, Zenon DEF LoopInv, TypeOK, Events
<1>4. TypeOK'
    BY <1>1, Zenon DEF LoopInv, TypeOK
<1>5. Control' /\ BindingsFresh'
    BY <1>1, Zenon DEF LoopInv, Control, BindingsFresh
<1>6. Owned'
    BY <1>1, <1>2, Zenon DEF LoopInv, Owned, TypeOK, Running
<1>7. Events'
    BY <1>1, <1>3, Zenon DEF LoopInv, Events, FreshEvents, TypeOK
<1>. QED
    BY <1>2, <1>4, <1>5, <1>6, <1>7, Zenon DEF LoopInv

\* The end of a batch, the allocation of a task, SIGINT and the exit.
LEMMA TurnInv ==
    ASSUME LoopInv, EndBatch \/ AllocateTask \/ ShutDown \/ Exit
    PROVE  LoopInv'
<1>1. /\ UNCHANGED <<tableVars, bound_by, queue, handoff, worker>>
      /\ UNCHANGED <<conn, accepted, input, hup, tracked, binding>>
    BY Zenon DEF EndBatch, AllocateTask, ShutDown, Exit, kernelVars, tableVars
<1>2. /\ TP!TableInv' /\ Distinct' /\ Bound'
      /\ \A fd \in Fds : Holder(fd)' <=> Holder(fd)
    BY <1>1, QuietStep, Zenon
<1>3. BindingsFresh'
    BY <1>1, Zenon DEF LoopInv, BindingsFresh
<1>4. CASE EndBatch
  <2>1. /\ main = "batch" /\ batch = {} /\ batch' = batch /\ epoll' = epoll
        /\ accept_ready' = accept_ready /\ timer_ready' = FALSE /\ expiring' \subseteq tracked
        /\ main' = IF expiring' = {} THEN "waiting" ELSE "expiring"
    BY <1>4, Zenon DEF EndBatch, BatchHandled, kernelVars
  <2>2. TypeOK'
    BY <1>1, <2>1, Zenon DEF LoopInv, TypeOK
  <2>3. Control'
    BY <1>1, <2>1, Zenon DEF LoopInv, Control
  <2>4. Owned'
    BY <1>1, <1>2, <2>1, Zenon DEF LoopInv, Owned, TypeOK, Running
  <2>5. Events'
    BY <1>1, <2>1, Zenon DEF LoopInv, Events, FreshEvents
  <2>. QED
    BY <1>2, <1>3, <2>2, <2>3, <2>4, <2>5, Zenon DEF LoopInv
<1>5. CASE ShutDown
  <2>1. /\ main \in {"waiting", "batch"} /\ main' = "draining" /\ batch' = {} /\ epoll' = {}
        /\ accept_ready' = FALSE /\ timer_ready' = FALSE /\ expiring' = expiring
    BY <1>5, Zenon DEF ShutDown
  <2>2. TypeOK'
    BY <1>1, <2>1, Zenon DEF LoopInv, TypeOK
  <2>3. Control'
    BY <1>1, <2>1, Zenon DEF LoopInv, Control
  <2>4. Owned'
    BY <1>1, <1>2, <2>1, Zenon DEF LoopInv, Owned, TypeOK, Running
  <2>5. Events'
    BY <2>1, Zenon DEF Events, FreshEvents
  <2>. QED
    BY <1>2, <1>3, <2>2, <2>3, <2>4, <2>5, Zenon DEF LoopInv
<1>6. CASE Exit
  <2>1. /\ main = "draining" /\ main' = "stopped"
        /\ UNCHANGED <<batch, accept_ready, timer_ready, expiring, epoll>>
        /\ queue = <<>> /\ \A w \in Workers : worker[w].task = NoTask
    BY <1>6 DEF Exit, Quiet, Idle, kernelVars
  <2>2. TypeOK'
    BY <1>1, <2>1, Zenon DEF LoopInv, TypeOK
  <2>3. Control'
    BY <1>1, <2>1, Zenon DEF LoopInv, Control
  <2>4. Owned'
    BY <1>1, <1>2, <2>1, Zenon DEF LoopInv, Owned, TypeOK, Running
  <2>5. Events'
    BY <1>1, <2>1, Zenon DEF LoopInv, Events, FreshEvents
  <2>. QED
    BY <1>2, <1>3, <2>2, <2>3, <2>4, <2>5, Zenon DEF LoopInv
<1>7. CASE AllocateTask
  <2>1. /\ main = "adding" /\ main' = "queueing"
        /\ UNCHANGED <<batch, accept_ready, timer_ready, expiring, epoll>>
    BY <1>7, Zenon DEF AllocateTask, kernelVars
  <2>2. TypeOK'
    BY <1>1, <2>1, Zenon DEF LoopInv, TypeOK
  <2>3. Control'
    BY <1>1, <2>1, Zenon DEF LoopInv, Control
  <2>4. Owned'
    BY <1>1, <1>2, <2>1, Zenon DEF LoopInv, Owned, TypeOK, Running
  <2>5. Events'
    BY <1>1, <2>1, Zenon DEF LoopInv, Events, FreshEvents
  <2>. QED
    BY <1>2, <1>3, <2>2, <2>3, <2>4, <2>5, Zenon DEF LoopInv
<1>. QED
    BY <1>4, <1>5, <1>6, <1>7, Zenon

-----------------------------------------------------------------------------
(* The main thread closes a descriptor.                                    *)

\* What close does to each descriptor.
LEMMA CloseFdFacts ==
    ASSUME TypeOK, NEW fd \in Fds, CloseFd(fd)
    PROVE  /\ conn' \in [Fds -> 0 .. MaxConns] /\ conn'[fd] = 0
           /\ input' \in [Fds -> Requests \cup {NoRequest}] /\ hup' \subseteq Fds
           /\ \A g \in Fds \ {fd} : conn'[g] = conn[g] /\ input'[g] = input[g]
BY LoopAssumption DEF CloseFd, TypeOK

\* What close_client does to each descriptor.
LEMMA CloseFacts ==
    ASSUME LoopInv, NEW fd \in Fds, close_client(fd)
    PROVE  /\ tracked' = tracked \ {fd} /\ epoll' = epoll \ {fd} /\ accepted' = accepted
           /\ conn' \in [Fds -> 0 .. MaxConns] /\ conn'[fd] = 0
           /\ input' \in [Fds -> Requests \cup {NoRequest}] /\ hup' \subseteq Fds
           /\ binding' \in [Fds -> Ids \cup {NoSession}] /\ binding'[fd] = NoSession
           /\ bound_by' \in [Fds -> 0 .. MaxConns]
           /\ \A g \in Fds \ {fd} : /\ conn'[g] = conn[g] /\ input'[g] = input[g]
                                     /\ binding'[g] = binding[g] /\ bound_by'[g] = bound_by[g]
           /\ TP!TableInv'
<1>1. TypeOK /\ TP!TableInv
    BY Zenon DEF LoopInv
<1>2. Detach(fd) /\ CloseFd(fd)
    BY Zenon DEF close_client
<1>3. /\ binding' \in [Fds -> Ids \cup {NoSession}] /\ binding'[fd] = NoSession
      /\ bound_by' \in [Fds -> 0 .. MaxConns]
      /\ \A g \in Fds \ {fd} : binding'[g] = binding[g] /\ bound_by'[g] = bound_by[g]
      /\ [ST!TableNext]_tableVars
    BY <1>1, <1>2, DetachFacts, Zenon
<1>4. TP!TableInv'
    BY <1>1, <1>3, TableStep, Zenon
<1>5. /\ conn' \in [Fds -> 0 .. MaxConns] /\ conn'[fd] = 0
      /\ input' \in [Fds -> Requests \cup {NoRequest}] /\ hup' \subseteq Fds
      /\ \A g \in Fds \ {fd} : conn'[g] = conn[g] /\ input'[g] = input[g]
    BY <1>1, <1>2, CloseFdFacts, Zenon
<1>. QED
    BY <1>3, <1>4, <1>5, Zenon DEF close_client

\* BindingsFresh, when one descriptor is closed.
LEMMA CloseBindings ==
    ASSUME LoopInv, NEW fd \in Fds, binding'[fd] = NoSession,
           \A g \in Fds \ {fd} : /\ conn'[g] = conn[g] /\ binding'[g] = binding[g]
                                 /\ bound_by'[g] = bound_by[g]
    PROVE  BindingsFresh'
BY Zenon DEF LoopInv, BindingsFresh

\* A watched descriptor is closed: no task has it.
LEMMA CloseWatched ==
    ASSUME LoopInv, NEW fd \in tracked, close_client(fd),
           UNCHANGED <<handoff, queue, worker>>
    PROVE  /\ TP!TableInv' /\ Distinct' /\ Bound' /\ BindingsFresh'
           /\ \A g \in Fds : Holder(g)' <=> Holder(g)
<1>1. fd \in Fds /\ ~Holder(fd)
    BY Zenon DEF LoopInv, TypeOK, Owned
<1>2. /\ binding'[fd] = NoSession /\ TP!TableInv'
      /\ \A g \in Fds \ {fd} : /\ conn'[g] = conn[g] /\ binding'[g] = binding[g]
                                /\ bound_by'[g] = bound_by[g]
    BY <1>1, CloseFacts, Zenon
<1>3. Distinct' /\ \A g \in Fds : Holder(g)' <=> Holder(g)
    BY SameTasks, Zenon DEF LoopInv
<1>4. BindingsFresh'
    BY <1>1, <1>2, CloseBindings, Zenon
<1>5. Bound'
  <2>1. \A i \in 1 .. Len(queue) : binding'[queue[i].fd] = binding[queue[i].fd]
    BY <1>1, <1>2, TaskTypes, Zenon DEF LoopInv, Holder
  <2>2. handoff # NoTask => binding'[handoff.fd] = binding[handoff.fd]
    BY <1>1, <1>2, TaskTypes, Zenon DEF LoopInv, Holder
  <2>3. \A w \in Workers : worker[w].task # NoTask =>
            binding'[worker[w].task.fd] = binding[worker[w].task.fd]
    BY <1>1, <1>2, TaskTypes, Zenon DEF LoopInv, Holder
  <2>. QED
    BY <2>1, <2>2, <2>3, Zenon DEF LoopInv, Bound, Authorized
<1>. QED
    BY <1>2, <1>3, <1>4, <1>5, Zenon

\* handle_client_event closes the descriptor of an event.
LEMMA DropInv ==
    ASSUME LoopInv, NEW e \in batch, DropClient(e)
    PROVE  LoopInv'
<1>. DEFINE fd == e.fd
<1>1. /\ close_client(fd) /\ main = "batch" /\ batch' = batch \ {e}
      /\ UNCHANGED <<main, accept_ready, timer_ready, expiring, handoff, queue, worker>>
    BY Zenon DEF DropClient
<1>2. fd \in Fds /\ fd \in tracked /\ expiring = {} /\ epoll = tracked
    BY <1>1, Zenon DEF LoopInv, TypeOK, Events, FreshEvents, Owned, Control, Running
<1>3. \A f \in batch' : f \in batch /\ f.fd \in Fds /\ f.fd # fd
    BY <1>1, Zenon DEF LoopInv, TypeOK, Events
<1>. HIDE DEF fd
<1>4. /\ tracked' = tracked \ {fd} /\ epoll' = epoll \ {fd} /\ accepted' = accepted
      /\ conn' \in [Fds -> 0 .. MaxConns] /\ conn'[fd] = 0
      /\ input' \in [Fds -> Requests \cup {NoRequest}] /\ hup' \subseteq Fds
      /\ bound_by' \in [Fds -> 0 .. MaxConns]
      /\ \A g \in Fds \ {fd} : conn'[g] = conn[g] /\ input'[g] = input[g]
    BY <1>1, <1>2, CloseFacts, Zenon
<1>5. /\ TP!TableInv' /\ Distinct' /\ Bound' /\ BindingsFresh'
      /\ \A g \in Fds : Holder(g)' <=> Holder(g)
    BY <1>1, <1>2, CloseWatched, Zenon
<1>6. TypeOK'
    BY <1>1, <1>4, Zenon DEF LoopInv, TypeOK
<1>7. Control'
    BY <1>1, <1>4, Zenon DEF LoopInv, Control
<1>8. Owned'
    BY <1>1, <1>2, <1>4, <1>5, Zenon DEF LoopInv, Owned, TypeOK, Running
<1>9. Events'
    BY <1>1, <1>3, <1>4, Zenon DEF LoopInv, Events, FreshEvents
<1>. QED
    BY <1>5, <1>6, <1>7, <1>8, <1>9, Zenon DEF LoopInv

\* timer_wheel_advance closes an idle one.
LEMMA ExpireInv ==
    ASSUME LoopInv, NEW fd \in expiring, ExpireOne(fd)
    PROVE  LoopInv'
<1>1. /\ close_client(fd) /\ main = "expiring" /\ expiring' = expiring \ {fd}
      /\ main' = IF expiring' = {} THEN "waiting" ELSE "expiring"
      /\ UNCHANGED <<batch, accept_ready, timer_ready, handoff, queue, worker>>
    BY Zenon DEF ExpireOne
<1>2. fd \in Fds /\ fd \in tracked /\ batch = {} /\ epoll = tracked
    BY <1>1, Zenon DEF LoopInv, TypeOK, Owned, Control, Running
<1>3. /\ tracked' = tracked \ {fd} /\ epoll' = epoll \ {fd} /\ accepted' = accepted
      /\ conn' \in [Fds -> 0 .. MaxConns] /\ conn'[fd] = 0
      /\ input' \in [Fds -> Requests \cup {NoRequest}] /\ hup' \subseteq Fds
      /\ bound_by' \in [Fds -> 0 .. MaxConns]
      /\ \A g \in Fds \ {fd} : conn'[g] = conn[g] /\ input'[g] = input[g]
    BY <1>1, <1>2, CloseFacts, Zenon
<1>4. /\ TP!TableInv' /\ Distinct' /\ Bound' /\ BindingsFresh'
      /\ \A g \in Fds : Holder(g)' <=> Holder(g)
    BY <1>1, <1>2, CloseWatched, Zenon
<1>5. TypeOK'
    BY <1>1, <1>3, Zenon DEF LoopInv, TypeOK
<1>6. Control'
    BY <1>1, <1>2, <1>3, Zenon DEF LoopInv, Control
<1>7. Owned'
    BY <1>1, <1>2, <1>3, <1>4, Zenon DEF LoopInv, Owned, TypeOK, Running
<1>8. Events'
    BY <1>1, <1>2, Zenon DEF Events, FreshEvents
<1>. QED
    BY <1>4, <1>5, <1>6, <1>7, <1>8, Zenon DEF LoopInv

-----------------------------------------------------------------------------
(* A request becomes a task.                                               *)

\* session_authorize changes the binding of one descriptor, to that of the request.
LEMMA AuthorizeFacts ==
    ASSUME LoopInv, NEW fd \in Fds, NEW r \in Requests, conn[fd] # 0,
           Acceptable(fd, r), Authorize(fd, r)
    PROVE  /\ TP!TableInv' /\ [ST!TableNext]_tableVars
           /\ bound_by' \in [Fds -> 0 .. MaxConns]
           /\ r.cmd = "login" \/ (r.sid # NoSession /\ binding'[fd] = r.sid)
           /\ binding'[fd] # NoSession => bound_by'[fd] = conn[fd]
           /\ \A g \in Fds \ {fd} : binding'[g] = binding[g] /\ bound_by'[g] = bound_by[g]
<1>1. /\ r.cmd \in Commands /\ r.sid \in Ids \cup {NoSession}
      /\ binding \in [Fds -> Ids \cup {NoSession}]
      /\ bound_by \in [Fds -> 0 .. MaxConns] /\ conn[fd] \in 0 .. MaxConns
      /\ binding[fd] # NoSession => bound_by[fd] = conn[fd]
    BY RequestsAssumption, TableFacts, Zenon DEF LoopInv, TypeOK, BindingsFresh
<1>2. CASE r.cmd = "login"
  <2>1. UNCHANGED <<tableVars, binding, bound_by>>
    BY <1>2, Zenon DEF Authorize, Anonymous, tableVars
  <2>. QED
    BY <1>1, <1>2, <2>1, TableStep, Zenon DEF LoopInv
<1>3. CASE r.cmd # "login"
  <2>1. /\ r.sid # NoSession /\ r.sid \in Ids
        /\ ST!session_authorize(fd, r.sid)
        /\ bound_by' = IF binding[fd] = NoSession
                       THEN [bound_by EXCEPT ![fd] = conn[fd]] ELSE bound_by
    BY <1>1, <1>3, Zenon DEF Acceptable, Authorize, Anonymous
  <2>2. [ST!TableNext]_tableVars
    BY <2>1, Zenon DEF ST!TableNext
  <2>3. TP!TableInv'
    BY <2>2, TableStep, Zenon DEF LoopInv
  <2>4. /\ binding[fd] \in {NoSession, r.sid}
        /\ binding' = IF binding[fd] = NoSession
                      THEN [binding EXCEPT ![fd] = r.sid] ELSE binding
    BY <2>1, Zenon DEF ST!session_authorize, ST!MayUse, ST!BindNew
  <2>. QED
    BY <1>1, <2>1, <2>2, <2>3, <2>4, Zenon
<1>. QED
    BY <1>2, <1>3, Zenon

\* handle_client_event hands the descriptor of a good request over.
LEMMA DispatchInv ==
    ASSUME LoopInv, NEW e \in batch, DispatchRequest(e)
    PROVE  LoopInv'
<1>. DEFINE fd == e.fd
            r == input[fd]
            t == [fd |-> fd, conn |-> e.conn, cmd |-> r.cmd, sid |-> r.sid]
<1>1. /\ main = "batch" /\ batch' = batch \ {e} /\ e.events = "EPOLLIN"
      /\ input' = [input EXCEPT ![fd] = NoRequest]
      /\ Acceptable(fd, r) /\ Authorize(fd, r)
      /\ tracked' = tracked \ {fd} /\ epoll' = epoll \ {fd}
      /\ handoff' = t /\ main' = "adding"
      /\ UNCHANGED <<conn, accepted, hup, accept_ready, timer_ready, expiring, queue, worker>>
    BY Zenon DEF DispatchRequest, Received, Disarm
<1>2. /\ fd \in Fds /\ fd \in tracked /\ expiring = {} /\ epoll = tracked /\ ~Holder(fd)
      /\ conn[fd] = e.conn /\ conn[fd] # 0 /\ e.conn \in 1 .. MaxConns
      /\ r \in Requests
    BY <1>1, Zenon DEF LoopInv, TypeOK, Events, FreshEvents, Owned, Control, Running
<1>3. t \in Tasks /\ t # NoTask
    BY <1>2, RequestsAssumption, LoopAssumption, SMTT(30) DEF Tasks
<1>4. \A f \in batch' : f \in batch /\ f.fd \in Fds /\ f.fd # fd
    BY <1>1, Zenon DEF LoopInv, TypeOK, Events
<1>5. t.fd = fd /\ t.sid = r.sid /\ t.cmd = r.cmd
    BY Zenon
<1>. HIDE DEF fd, r, t
<1>6. /\ TP!TableInv' /\ bound_by' \in [Fds -> 0 .. MaxConns]
      /\ r.cmd = "login" \/ (r.sid # NoSession /\ binding'[fd] = r.sid)
      /\ binding'[fd] # NoSession => bound_by'[fd] = conn[fd]
      /\ \A g \in Fds \ {fd} : binding'[g] = binding[g] /\ bound_by'[g] = bound_by[g]
    BY <1>1, <1>2, AuthorizeFacts, Zenon
<1>7. /\ \A i \in 1 .. Len(queue) : queue[i].fd \in Fds \ {fd}
      /\ \A w \in Workers : worker[w].task # NoTask => worker[w].task.fd \in Fds \ {fd}
    BY <1>2, TaskTypes, Zenon DEF LoopInv, Holder
<1>8. TypeOK'
    BY <1>1, <1>2, <1>3, <1>6, Zenon DEF LoopInv, TypeOK
<1>9. Control'
    BY <1>1, <1>2, <1>3, Zenon DEF LoopInv, Control
<1>10. Distinct'
    BY <1>1, <1>3, <1>5, <1>7 DEF LoopInv, Distinct
<1>11. \A g \in Fds : Holder(g)' <=> Holder(g) \/ g = fd
    BY <1>1, <1>3, <1>5, Zenon DEF LoopInv, Control, Holder
<1>12. Owned'
    BY <1>1, <1>2, <1>11, Zenon DEF LoopInv, Owned, TypeOK, Running
<1>13. Events'
    BY <1>1, <1>2, <1>4, Zenon DEF LoopInv, Events, FreshEvents, TypeOK
<1>14. BindingsFresh'
    BY <1>1, <1>2, <1>6, Zenon DEF LoopInv, BindingsFresh
<1>15. Bound'
  <2>1. \A i \in 1 .. Len(queue) : binding'[queue[i].fd] = binding[queue[i].fd]
    BY <1>6, <1>7, Zenon
  <2>2. Authorized(handoff)'
    BY <1>1, <1>5, <1>6, Zenon DEF Authorized
  <2>3. \A w \in Workers : worker[w].task # NoTask =>
            binding'[worker[w].task.fd] = binding[worker[w].task.fd]
    BY <1>6, <1>7, Zenon
  <2>. QED
    BY <1>1, <2>1, <2>2, <2>3, Zenon DEF LoopInv, Bound, Authorized
<1>. QED
    BY <1>6, <1>8, <1>9, <1>10, <1>12, <1>13, <1>14, <1>15, Zenon DEF LoopInv

\* thread_pool_add queues the task.
LEMMA AddInv ==
    ASSUME LoopInv, AddTask
    PROVE  LoopInv'
<1>. DEFINE n == Len(queue)
<1>1. /\ main = "queueing" /\ Len(queue) < QueueCapacity /\ queue' = Append(queue, handoff)
      /\ handoff' = NoTask /\ main' = "batch"
      /\ UNCHANGED <<tableVars, binding, conn, accepted, bound_by, input, hup, epoll, tracked>>
      /\ UNCHANGED <<batch, accept_ready, timer_ready, expiring, worker>>
    BY Zenon DEF AddTask, HasRoom, tableVars, kernelVars
<1>2. handoff # NoTask /\ handoff \in Tasks /\ handoff.fd \in Fds /\ queue \in Seq(Tasks)
    BY <1>1, TaskTypes, Zenon DEF LoopInv, Control, TypeOK
<1>3. /\ queue' \in Seq(Tasks) /\ n \in Nat /\ Len(queue') = n + 1
      /\ \A i \in 1 .. n : queue'[i] = queue[i]
      /\ queue'[n + 1] = handoff
    BY <1>1, <1>2, AppendProperties, LenProperties, SMTT(30)
<1>4. 1 .. Len(queue') = 1 .. n \cup {n + 1} /\ n + 1 \notin 1 .. n
    BY <1>3
<1>5. Len(queue') <= QueueCapacity
    BY <1>1, <1>3, LoopAssumption
<1>. HIDE DEF n
<1>6. TypeOK'
    BY <1>1, <1>3, <1>5, Zenon DEF LoopInv, TypeOK
<1>7. TP!TableInv'
    BY <1>1, TableStep, Zenon DEF LoopInv
<1>8. Control'
    BY <1>1, Zenon DEF LoopInv, Control
<1>9. Distinct'
    BY <1>1, <1>2, <1>3, <1>4, SMTT(30) DEF LoopInv, Distinct, n
<1>10. \A g \in Fds : Holder(g)' <=> Holder(g)
    BY <1>1, <1>2, <1>3, <1>4, Zenon DEF Holder, n
<1>11. Owned'
    BY <1>1, <1>10, Zenon DEF LoopInv, Owned, TypeOK, Running
<1>12. Events' /\ BindingsFresh'
    BY <1>1, Zenon DEF LoopInv, Events, FreshEvents, BindingsFresh
<1>13. Bound'
    BY <1>1, <1>2, <1>3, <1>4, Zenon DEF LoopInv, Bound, Authorized, n
<1>. QED
    BY <1>6, <1>7, <1>8, <1>9, <1>11, <1>12, <1>13, Zenon DEF LoopInv

\* thread_pool_add fails and the descriptor is closed.
LEMMA AddFailsInv ==
    ASSUME LoopInv, AddFails
    PROVE  LoopInv'
<1>. DEFINE fd == handoff.fd
<1>1. /\ main = "adding" /\ close_client(fd) /\ handoff' = NoTask /\ main' = "batch"
      /\ UNCHANGED <<batch, accept_ready, timer_ready, expiring, queue, worker>>
    BY Zenon DEF AddFails
<1>2. handoff # NoTask /\ fd \in Fds
    BY <1>1, TaskTypes, Zenon DEF LoopInv, Control
<1>3. /\ \A i \in 1 .. Len(queue) : queue[i].fd \in Fds \ {fd}
      /\ \A w \in Workers : worker[w].task # NoTask => worker[w].task.fd \in Fds \ {fd}
    BY <1>2, TaskTypes, Zenon DEF LoopInv, Distinct
<1>4. fd \notin tracked /\ fd \notin epoll /\ Holder(fd)
    BY <1>2, Zenon DEF LoopInv, Owned, Holder
<1>5. \A g \in Fds : Holder(g)' <=> (Holder(g) /\ g # fd)
    BY <1>1, <1>2, <1>3, Zenon DEF Holder
<1>. HIDE DEF fd
<1>6. /\ tracked' = tracked \ {fd} /\ epoll' = epoll \ {fd} /\ accepted' = accepted
      /\ conn' \in [Fds -> 0 .. MaxConns] /\ conn'[fd] = 0
      /\ input' \in [Fds -> Requests \cup {NoRequest}] /\ hup' \subseteq Fds
      /\ binding'[fd] = NoSession /\ bound_by' \in [Fds -> 0 .. MaxConns]
      /\ \A g \in Fds \ {fd} : /\ conn'[g] = conn[g] /\ input'[g] = input[g]
                                /\ binding'[g] = binding[g] /\ bound_by'[g] = bound_by[g]
      /\ TP!TableInv'
    BY <1>1, <1>2, CloseFacts, Zenon
<1>7. \A e \in batch : e.fd \in Fds \ {fd}
    BY <1>4, Zenon DEF LoopInv, TypeOK, Events, FreshEvents
<1>8. TypeOK'
    BY <1>1, <1>6, Zenon DEF LoopInv, TypeOK
<1>9. Control'
    BY <1>1, <1>6, Zenon DEF LoopInv, Control
<1>10. Distinct'
    BY <1>1, Zenon DEF LoopInv, Distinct
<1>11. Owned'
    BY <1>1, <1>4, <1>5, <1>6, Zenon DEF LoopInv, Owned, TypeOK, Running
<1>12. Events'
    BY <1>1, <1>4, <1>6, <1>7, Zenon DEF LoopInv, Events, FreshEvents
<1>13. BindingsFresh'
    BY <1>2, <1>6, CloseBindings, Zenon
<1>14. Bound'
  <2>1. \A i \in 1 .. Len(queue) : binding'[queue[i].fd] = binding[queue[i].fd]
    BY <1>3, <1>6, Zenon
  <2>2. \A w \in Workers : worker[w].task # NoTask =>
            binding'[worker[w].task.fd] = binding[worker[w].task.fd]
    BY <1>3, <1>6, Zenon
  <2>. QED
    BY <1>1, <2>1, <2>2, Zenon DEF LoopInv, Bound, Authorized
<1>. QED
    BY <1>6, <1>8, <1>9, <1>10, <1>11, <1>12, <1>13, <1>14, Zenon DEF LoopInv

-----------------------------------------------------------------------------
(* The workers.                                                            *)

\* A worker takes the first task of the queue.
LEMMA TakeInv ==
    ASSUME LoopInv, NEW w \in Workers, Take(w)
    PROVE  LoopInv'
<1>. DEFINE n == Len(queue)
            m == Len(queue')
<1>1. /\ worker[w].at = "idle" /\ queue # <<>> /\ queue' = Tail(queue)
      /\ worker' = [worker EXCEPT ![w] = [at |-> "running", task |-> Head(queue)]]
      /\ UNCHANGED <<tableVars, binding, conn, accepted, bound_by, input, hup, epoll, tracked>>
      /\ UNCHANGED <<main, batch, accept_ready, timer_ready, expiring, handoff>>
    BY Zenon DEF Take, At, tableVars, kernelVars, mainVars
<1>2. queue \in Seq(Tasks) /\ n \in Nat /\ n # 0
    BY <1>1, LenProperties, EmptySeq, Zenon DEF LoopInv, TypeOK
<1>3. /\ queue' \in Seq(Tasks) /\ m = n - 1 /\ Head(queue) = queue[1]
      /\ \A i \in 1 .. m : queue'[i] = queue[i + 1]
    BY <1>1, <1>2, HeadTailProperties
<1>4. /\ m \in Nat /\ 1 \in 1 .. n /\ m <= n
      /\ \A i \in 1 .. m : i + 1 \in 1 .. n /\ i + 1 # 1
      /\ \A i, j \in 1 .. m : i # j => i + 1 # j + 1
      /\ \A i \in 1 .. n : i = 1 \/ (i - 1 \in 1 .. m /\ i = (i - 1) + 1)
    BY <1>2, <1>3
<1>5. Head(queue) \in Tasks /\ Head(queue) # NoTask /\ Head(queue).fd \in Fds
    BY <1>3, <1>4, TaskTypes, Zenon DEF LoopInv
<1>6. /\ worker'[w] = [at |-> "running", task |-> queue[1]]
      /\ worker[w].task = NoTask
      /\ worker' \in [Workers -> [at : {"idle", "running", "rearm", "detach", "close"},
                                  task : Tasks \cup {NoTask}]]
      /\ \A v \in Workers \ {w} : worker'[v] = worker[v]
    BY <1>1, <1>3, <1>5, Zenon DEF LoopInv, TypeOK, Control
<1>7. worker'[w].at = "running" /\ worker'[w].task = queue[1] /\ queue[1] # NoTask
    BY <1>3, <1>5, <1>6, SMTT(30)
<1>8. main # "stopped"
    BY <1>1, Zenon DEF LoopInv, Control
<1>. HIDE DEF n, m
<1>9. m <= QueueCapacity
    BY <1>2, <1>4, LoopAssumption DEF LoopInv, TypeOK, n
<1>10. TypeOK'
    BY <1>1, <1>3, <1>6, <1>9, Zenon DEF LoopInv, TypeOK, m
<1>11. TP!TableInv'
    BY <1>1, TableStep, Zenon DEF LoopInv
<1>12. Control'
    BY <1>1, <1>6, <1>7, <1>8, Zenon DEF LoopInv, Control
<1>13. Distinct'
  <2>1. \A i, j \in 1 .. m : i # j => queue'[i].fd # queue'[j].fd
    BY <1>3, <1>4 DEF LoopInv, Distinct, n
  <2>2. \A i \in 1 .. m : queue'[i].fd # queue[1].fd
    BY <1>3, <1>4 DEF LoopInv, Distinct, n
  <2>3. \A v \in Workers \ {w} : worker[v].task # NoTask =>
            /\ worker[v].task.fd # queue[1].fd
            /\ \A i \in 1 .. m : queue'[i].fd # worker[v].task.fd
    BY <1>3, <1>4, SMTT(30) DEF LoopInv, Distinct, n
  <2>4. handoff # NoTask =>
            /\ handoff.fd # queue[1].fd
            /\ \A i \in 1 .. m : queue'[i].fd # handoff.fd
            /\ \A v \in Workers : worker[v].task # NoTask => worker[v].task.fd # handoff.fd
    BY <1>3, <1>4 DEF LoopInv, Distinct, n
  <2>5. \A v, u \in Workers \ {w} : v # u /\ worker[v].task # NoTask /\ worker[u].task # NoTask
            => worker[v].task.fd # worker[u].task.fd
    BY Zenon DEF LoopInv, Distinct
  <2>. QED
    BY <1>1, <1>6, <1>7, <2>1, <2>2, <2>3, <2>4, <2>5, SMTT(30) DEF Distinct, m
<1>14. \A g \in Fds : Holder(g)' <=> Holder(g)
  <2>1. \A g \in Fds : (\E i \in 1 .. n : queue[i].fd = g)
            <=> (queue[1].fd = g \/ \E i \in 1 .. m : queue'[i].fd = g)
    <3>1. \A i \in 1 .. n : i = 1 \/ (i - 1 \in 1 .. m /\ queue'[i - 1] = queue[i])
        BY <1>3, <1>4, Zenon
    <3>2. \A i \in 1 .. m : i + 1 \in 1 .. n /\ queue'[i] = queue[i + 1]
        BY <1>3, <1>4, Zenon
    <3>. QED
        BY <1>4, <3>1, <3>2, Zenon
  <2>2. \A g \in Fds : (\E v \in Workers : worker'[v].task # NoTask /\ worker'[v].task.fd = g)
            <=> (queue[1].fd = g \/ \E v \in Workers : worker[v].task # NoTask /\ worker[v].task.fd = g)
    BY <1>6, <1>7, Zenon
  <2>. QED
    BY <1>1, <2>1, <2>2, Zenon DEF Holder, n, m
<1>15. Owned'
    BY <1>1, <1>14, Zenon DEF LoopInv, Owned, TypeOK, Running
<1>16. Events' /\ BindingsFresh'
    BY <1>1, Zenon DEF LoopInv, Events, FreshEvents, BindingsFresh
<1>17. Bound'
    BY <1>1, <1>3, <1>4, <1>6, <1>7, SMTT(30) DEF LoopInv, Bound, Authorized, n, m
<1>. QED
    BY <1>10, <1>11, <1>12, <1>13, <1>15, <1>16, <1>17, Zenon DEF LoopInv

\* A step of one worker keeps the tasks bound when the other tasks and their bindings stay.
LEMMA BoundStep ==
    ASSUME Bound, NEW w \in Workers, UNCHANGED <<queue, handoff>>,
           \A i \in 1 .. Len(queue) : binding'[queue[i].fd] = binding[queue[i].fd],
           handoff # NoTask => binding'[handoff.fd] = binding[handoff.fd],
           \A v \in Workers \ {w} : worker'[v] = worker[v],
           \A v \in Workers \ {w} : worker[v].task # NoTask =>
               binding'[worker[v].task.fd] = binding[worker[v].task.fd],
           worker'[w].task # NoTask =>
               IF worker'[w].at = "close" THEN binding'[worker'[w].task.fd] = NoSession
                                          ELSE Authorized(worker[w].task)'
    PROVE  Bound'
<1>1. \A i \in 1 .. Len(queue) : Authorized(queue[i])'
    BY Zenon DEF Bound, Authorized
<1>2. handoff # NoTask => Authorized(handoff)'
    BY Zenon DEF Bound, Authorized
<1>3. ASSUME NEW v \in Workers \ {w}, worker'[v].task # NoTask
      PROVE  IF worker'[v].at = "close" THEN binding'[worker'[v].task.fd] = NoSession
                                        ELSE Authorized(worker[v].task)'
    BY <1>3, SMTT(30) DEF Bound, Authorized
<1>. QED
    BY <1>1, <1>2, <1>3, Zenon DEF Bound

\* A busy worker goes on with its task.
LEMMA GotoFacts ==
    ASSUME LoopInv, NEW w \in Workers, NEW p \in {"rearm", "detach", "close"},
           worker[w].at # "idle", Goto(w, p), UNCHANGED <<queue, handoff>>
    PROVE  /\ worker[w].task # NoTask /\ worker[w].task \in Tasks /\ worker[w].task.fd \in Fds
           /\ worker[w].task.fd \notin tracked /\ conn[worker[w].task.fd] # 0
           /\ main # "stopped"
           /\ worker' \in [Workers -> [at : {"idle", "running", "rearm", "detach", "close"},
                                       task : Tasks \cup {NoTask}]]
           /\ worker'[w].at = p /\ worker'[w].task = worker[w].task
           /\ \A v \in Workers \ {w} : worker'[v] = worker[v]
           /\ Distinct' /\ \A g \in Fds : Holder(g)' <=> Holder(g)
<1>1. worker[w].task # NoTask /\ main # "stopped"
    BY Zenon DEF LoopInv, Control
<1>2. worker[w].task \in Tasks /\ worker[w].task.fd \in Fds
    BY <1>1, TaskTypes, Zenon DEF LoopInv
<1>3. worker[w].task.fd \notin tracked /\ conn[worker[w].task.fd] # 0
    BY <1>1, <1>2, Zenon DEF LoopInv, Owned, Holder
<1>4. /\ worker' \in [Workers -> [at : {"idle", "running", "rearm", "detach", "close"},
                                  task : Tasks \cup {NoTask}]]
      /\ worker'[w].at = p /\ worker'[w].task = worker[w].task
      /\ \A v \in Workers \ {w} : worker'[v] = worker[v]
    BY Zenon DEF LoopInv, TypeOK, Goto
<1>5. Distinct' /\ \A g \in Fds : Holder(g)' <=> Holder(g)
    BY <1>4, SameTasks, Zenon DEF LoopInv
<1>. QED
    BY <1>1, <1>2, <1>3, <1>4, <1>5, Zenon

\* A busy worker is done with its task.
LEMMA DoneFacts ==
    ASSUME LoopInv, NEW w \in Workers, worker[w].at # "idle",
           worker' = [worker EXCEPT ![w] = Idle], UNCHANGED <<queue, handoff>>
    PROVE  /\ worker[w].task # NoTask /\ worker[w].task.fd \in Fds
           /\ worker[w].task.fd \notin tracked /\ conn[worker[w].task.fd] # 0
           /\ main # "stopped"
           /\ worker' \in [Workers -> [at : {"idle", "running", "rearm", "detach", "close"},
                                       task : Tasks \cup {NoTask}]]
           /\ worker'[w].at = "idle" /\ worker'[w].task = NoTask
           /\ \A v \in Workers \ {w} : worker'[v] = worker[v]
           /\ Distinct'
           /\ \A g \in Fds : Holder(g)' <=> (Holder(g) /\ g # worker[w].task.fd)
<1>1. worker[w].task # NoTask /\ main # "stopped"
    BY Zenon DEF LoopInv, Control
<1>2. worker[w].task.fd \in Fds
    BY <1>1, TaskTypes, Zenon DEF LoopInv
<1>3. worker[w].task.fd \notin tracked /\ conn[worker[w].task.fd] # 0
    BY <1>1, <1>2, Zenon DEF LoopInv, Owned, Holder
<1>4. /\ worker' \in [Workers -> [at : {"idle", "running", "rearm", "detach", "close"},
                                  task : Tasks \cup {NoTask}]]
      /\ worker'[w].at = "idle" /\ worker'[w].task = NoTask
      /\ \A v \in Workers \ {w} : worker'[v] = worker[v]
    BY Zenon DEF LoopInv, TypeOK, Idle
<1>5. Distinct'
    BY <1>4, SMTT(30) DEF LoopInv, Distinct
<1>6. \A g \in Fds : Holder(g)' <=> (Holder(g) /\ g # worker[w].task.fd)
    BY <1>1, <1>4, SMTT(30) DEF LoopInv, Distinct, Holder
<1>. QED
    BY <1>1, <1>2, <1>3, <1>4, <1>5, <1>6, Zenon

\* What a short command does to the session table.
LEMMA HandlerFacts ==
    ASSUME LoopInv, NEW t \in Tasks, conn[t.fd] # 0,
           \/ t.cmd = "login" /\ handle_login(t)
           \/ t.cmd = "basic" /\ handle_cd(t)
           \/ UNCHANGED <<tableVars, bound_by>>
    PROVE  /\ [ST!TableNext]_tableVars /\ bound_by' \in [Fds -> 0 .. MaxConns]
           /\ \A g \in Fds \ {t.fd} : binding'[g] = binding[g] /\ bound_by'[g] = bound_by[g]
           /\ binding'[t.fd] # NoSession => bound_by'[t.fd] = conn[t.fd]
           /\ t.cmd # "login" => binding'[t.fd] = binding[t.fd]
<1>. DEFINE fd == t.fd
<1>1. /\ fd \in Fds /\ t.sid \in Ids \cup {NoSession}
      /\ binding \in [Fds -> Ids \cup {NoSession}] /\ live \subseteq Ids
      /\ bound_by \in [Fds -> 0 .. MaxConns] /\ conn[fd] \in 0 .. MaxConns
      /\ binding[fd] # NoSession => bound_by[fd] = conn[fd]
    BY TableFacts, Zenon DEF LoopInv, TypeOK, BindingsFresh, Tasks
<1>2. CASE t.cmd = "login" /\ handle_login(t)
  <2>1. PICK id \in Ids : /\ ST!session_create(fd, id)
                          /\ bound_by' = [bound_by EXCEPT ![fd] = conn[fd]]
    BY <1>2, Zenon DEF handle_login
  <2>2. binding' = [binding EXCEPT ![fd] = id]
    BY <2>1, Zenon DEF ST!session_create
  <2>3. [ST!TableNext]_tableVars
    BY <1>1, <2>1, Zenon DEF ST!TableNext
  <2>. QED
    BY <1>1, <1>2, <2>1, <2>2, <2>3, Zenon
<1>3. CASE t.cmd = "basic" /\ handle_cd(t)
  <2>1. PICK dir \in Dirs : ST!session_update_cwd(fd, t.sid, dir) /\ bound_by' = bound_by
    BY <1>3, Zenon DEF handle_cd
  <2>2. t.sid \in Ids /\ binding' = binding
    BY <1>1, <2>1, Zenon DEF ST!session_update_cwd
  <2>3. [ST!TableNext]_tableVars
    BY <1>1, <2>1, <2>2, Zenon DEF ST!TableNext
  <2>. QED
    BY <1>1, <2>1, <2>2, <2>3, Zenon
<1>4. CASE UNCHANGED <<tableVars, bound_by>>
  <2>1. binding' = binding /\ bound_by' = bound_by
    BY <1>4, Zenon DEF tableVars
  <2>. QED
    BY <1>1, <1>4, <2>1, Zenon
<1>. QED
    BY <1>2, <1>3, <1>4, Zenon

\* handle_basic_task runs a short command.
LEMMA RunBasicInv ==
    ASSUME LoopInv, NEW w \in Workers, RunBasic(w)
    PROVE  LoopInv'
<1>. DEFINE t == worker[w].task
            fd == t.fd
<1>1. /\ worker[w].at = "running" /\ Goto(w, "rearm")
      /\ UNCHANGED <<conn, accepted, input, hup, epoll, tracked, queue, handoff>>
      /\ UNCHANGED <<main, batch, accept_ready, timer_ready, expiring>>
    BY Zenon DEF RunBasic, At, mainVars
<1>2. /\ t # NoTask /\ t \in Tasks /\ fd \in Fds /\ conn[fd] # 0 /\ main # "stopped"
      /\ worker' \in [Workers -> [at : {"idle", "running", "rearm", "detach", "close"},
                                  task : Tasks \cup {NoTask}]]
      /\ worker'[w].at = "rearm" /\ worker'[w].task = t
      /\ \A v \in Workers \ {w} : worker'[v] = worker[v]
      /\ Distinct' /\ \A g \in Fds : Holder(g)' <=> Holder(g)
    BY <1>1, GotoFacts, Zenon
<1>3. /\ [ST!TableNext]_tableVars /\ bound_by' \in [Fds -> 0 .. MaxConns]
      /\ \A g \in Fds \ {fd} : binding'[g] = binding[g] /\ bound_by'[g] = bound_by[g]
      /\ binding'[fd] # NoSession => bound_by'[fd] = conn[fd]
      /\ t.cmd # "login" => binding'[fd] = binding[fd]
    BY <1>2, HandlerFacts, Zenon DEF RunBasic
<1>4. /\ \A i \in 1 .. Len(queue) : queue[i].fd \in Fds \ {fd}
      /\ handoff # NoTask => handoff.fd \in Fds \ {fd}
      /\ \A v \in Workers \ {w} : worker[v].task # NoTask => worker[v].task.fd \in Fds \ {fd}
    BY <1>2, TaskTypes, Zenon DEF LoopInv, Distinct
<1>5. Authorized(t)
    BY <1>1, <1>2, Zenon DEF LoopInv, Bound
<1>. HIDE DEF t
<1>6. TypeOK'
    BY <1>1, <1>2, <1>3, Zenon DEF LoopInv, TypeOK
<1>7. TP!TableInv'
    BY <1>3, TableStep, Zenon DEF LoopInv
<1>8. Control'
    BY <1>1, <1>2, Zenon DEF LoopInv, Control
<1>9. Owned'
    BY <1>1, <1>2, Zenon DEF LoopInv, Owned, TypeOK, Running
<1>10. Events'
    BY <1>1, Zenon DEF LoopInv, Events, FreshEvents
<1>11. BindingsFresh'
    BY <1>1, <1>2, <1>3, Zenon DEF LoopInv, BindingsFresh
<1>12. Bound'
  <2>1. /\ \A i \in 1 .. Len(queue) : binding'[queue[i].fd] = binding[queue[i].fd]
        /\ handoff # NoTask => binding'[handoff.fd] = binding[handoff.fd]
        /\ \A v \in Workers \ {w} : worker[v].task # NoTask =>
              binding'[worker[v].task.fd] = binding[worker[v].task.fd]
    BY <1>3, <1>4, Zenon
  <2>2. worker'[w].at # "close" /\ Authorized(worker[w].task)'
    BY <1>2, <1>3, <1>5, Zenon DEF Authorized
  <2>. QED
    BY <1>1, <1>2, <2>1, <2>2, BoundStep, Zenon DEF LoopInv
<1>. QED
    BY <1>2, <1>6, <1>7, <1>8, <1>9, <1>10, <1>11, <1>12, Zenon DEF LoopInv

\* track_and_publish gives the descriptor back to the loop.
LEMMA RearmInv ==
    ASSUME LoopInv, NEW w \in Workers, Rearm(w), worker' = [worker EXCEPT ![w] = Idle],
           Running, tracked' = tracked \cup {worker[w].task.fd},
           epoll' = epoll \cup {worker[w].task.fd}
    PROVE  LoopInv'
<1>. DEFINE fd == worker[w].task.fd
<1>1. /\ worker[w].at = "rearm" /\ main # "expiring"
      /\ UNCHANGED <<tableVars, binding, conn, accepted, bound_by, input, hup, queue, handoff>>
      /\ UNCHANGED <<main, batch, accept_ready, timer_ready, expiring>>
    BY Zenon DEF Rearm, At, mainVars, tableVars
<1>2. /\ fd \in Fds /\ fd \notin tracked /\ conn[fd] # 0 /\ main # "stopped"
      /\ worker' \in [Workers -> [at : {"idle", "running", "rearm", "detach", "close"},
                                  task : Tasks \cup {NoTask}]]
      /\ worker'[w].at = "idle" /\ worker'[w].task = NoTask
      /\ \A v \in Workers \ {w} : worker'[v] = worker[v]
      /\ Distinct'
      /\ \A g \in Fds : Holder(g)' <=> (Holder(g) /\ g # fd)
    BY <1>1, DoneFacts, Zenon
<1>3. tracked' = tracked \cup {fd} /\ epoll' = epoll \cup {fd}
    BY Zenon
<1>. HIDE DEF fd
<1>4. TypeOK'
    BY <1>1, <1>2, <1>3, Zenon DEF LoopInv, TypeOK
<1>5. TP!TableInv'
    BY <1>1, TableStep, Zenon DEF LoopInv
<1>6. Control'
    BY <1>1, <1>2, Zenon DEF LoopInv, Control
<1>7. Owned'
    BY <1>1, <1>2, <1>3, SMTT(30) DEF LoopInv, Owned, TypeOK, Running
<1>8. Events' /\ BindingsFresh'
    BY <1>1, <1>3, Zenon DEF LoopInv, Events, FreshEvents, BindingsFresh
<1>9. Bound'
    BY <1>1, <1>2, BoundStep, Zenon DEF LoopInv
<1>. QED
    BY <1>2, <1>4, <1>5, <1>6, <1>7, <1>8, <1>9, Zenon DEF LoopInv

\* The worker will close the descriptor: a failed publication, or the end of a transfer.
LEMMA GiveUpInv ==
    ASSUME LoopInv, NEW w \in Workers, worker[w].at \in {"running", "rearm"},
           Goto(w, "detach"), UNCHANGED <<tableVars, kernelVars, mainVars, queue>>
    PROVE  LoopInv'
<1>1. /\ UNCHANGED <<tableVars, binding, conn, accepted, bound_by, input, hup, queue, handoff>>
      /\ UNCHANGED <<main, batch, accept_ready, timer_ready, expiring, epoll, tracked>>
    BY Zenon DEF mainVars, tableVars, kernelVars
<1>2. /\ worker[w].task # NoTask /\ main # "stopped"
      /\ worker' \in [Workers -> [at : {"idle", "running", "rearm", "detach", "close"},
                                  task : Tasks \cup {NoTask}]]
      /\ worker'[w].at = "detach" /\ worker'[w].task = worker[w].task
      /\ \A v \in Workers \ {w} : worker'[v] = worker[v]
      /\ Distinct' /\ \A g \in Fds : Holder(g)' <=> Holder(g)
    BY <1>1, GotoFacts, Zenon
<1>3. TypeOK'
    BY <1>1, <1>2, Zenon DEF LoopInv, TypeOK
<1>4. TP!TableInv'
    BY <1>1, TableStep, Zenon DEF LoopInv
<1>5. Control'
    BY <1>1, <1>2, Zenon DEF LoopInv, Control
<1>6. Owned'
    BY <1>1, <1>2, Zenon DEF LoopInv, Owned, TypeOK, Running
<1>7. Events' /\ BindingsFresh'
    BY <1>1, Zenon DEF LoopInv, Events, FreshEvents, BindingsFresh
<1>8. Bound'
  <2>1. worker'[w].at # "close" /\ Authorized(worker[w].task)'
    BY <1>1, <1>2, Zenon DEF LoopInv, Bound, Authorized
  <2>. QED
    BY <1>1, <1>2, <2>1, BoundStep, Zenon DEF LoopInv
<1>. QED
    BY <1>2, <1>3, <1>4, <1>5, <1>6, <1>7, <1>8, Zenon DEF LoopInv

\* The first half of giving up a descriptor: session_detach_fd.
LEMMA ReleaseDetachInv ==
    ASSUME LoopInv, NEW w \in Workers, worker[w].at = "detach", Goto(w, "close"),
           Detach(worker[w].task.fd),
           UNCHANGED <<conn, accepted, input, hup, epoll, tracked, mainVars, queue>>
    PROVE  LoopInv'
<1>. DEFINE fd == worker[w].task.fd
<1>1. /\ UNCHANGED <<conn, accepted, input, hup, queue, handoff>> /\ Detach(fd)
      /\ UNCHANGED <<main, batch, accept_ready, timer_ready, expiring, epoll, tracked>>
    BY Zenon DEF mainVars
<1>2. /\ worker[w].task # NoTask /\ fd \in Fds /\ main # "stopped"
      /\ worker' \in [Workers -> [at : {"idle", "running", "rearm", "detach", "close"},
                                  task : Tasks \cup {NoTask}]]
      /\ worker'[w].at = "close" /\ worker'[w].task = worker[w].task
      /\ \A v \in Workers \ {w} : worker'[v] = worker[v]
      /\ Distinct' /\ \A g \in Fds : Holder(g)' <=> Holder(g)
    BY <1>1, GotoFacts, Zenon
<1>3. /\ \A i \in 1 .. Len(queue) : queue[i].fd \in Fds \ {fd}
      /\ handoff # NoTask => handoff.fd \in Fds \ {fd}
      /\ \A v \in Workers \ {w} : worker[v].task # NoTask => worker[v].task.fd \in Fds \ {fd}
    BY <1>2, TaskTypes, Zenon DEF LoopInv, Distinct
<1>4. worker'[w].task.fd = fd
    BY <1>2, Zenon
<1>. HIDE DEF fd
<1>5. /\ binding'[fd] = NoSession /\ bound_by' \in [Fds -> 0 .. MaxConns]
      /\ \A g \in Fds \ {fd} : binding'[g] = binding[g] /\ bound_by'[g] = bound_by[g]
      /\ [ST!TableNext]_tableVars
    BY <1>1, <1>2, DetachFacts, Zenon DEF LoopInv
<1>6. TypeOK'
    BY <1>1, <1>2, <1>5, Zenon DEF LoopInv, TypeOK
<1>7. TP!TableInv'
    BY <1>5, TableStep, Zenon DEF LoopInv
<1>8. Control'
    BY <1>1, <1>2, Zenon DEF LoopInv, Control
<1>9. Owned'
    BY <1>1, <1>2, Zenon DEF LoopInv, Owned, TypeOK, Running
<1>10. Events'
    BY <1>1, Zenon DEF LoopInv, Events, FreshEvents
<1>11. BindingsFresh'
    BY <1>1, <1>2, <1>5, CloseBindings, Zenon
<1>12. Bound'
  <2>1. /\ \A i \in 1 .. Len(queue) : binding'[queue[i].fd] = binding[queue[i].fd]
        /\ handoff # NoTask => binding'[handoff.fd] = binding[handoff.fd]
        /\ \A v \in Workers \ {w} : worker[v].task # NoTask =>
              binding'[worker[v].task.fd] = binding[worker[v].task.fd]
    BY <1>3, <1>5, Zenon
  <2>2. worker'[w].at = "close" /\ binding'[worker'[w].task.fd] = NoSession
    BY <1>2, <1>4, <1>5, Zenon
  <2>. QED
    BY <1>1, <1>2, <2>1, <2>2, BoundStep, Zenon DEF LoopInv
<1>. QED
    BY <1>2, <1>6, <1>7, <1>8, <1>9, <1>10, <1>11, <1>12, Zenon DEF LoopInv

\* The second half: close.
LEMMA ReleaseCloseInv ==
    ASSUME LoopInv, NEW w \in Workers, worker[w].at = "close",
           worker' = [worker EXCEPT ![w] = Idle], CloseFd(worker[w].task.fd),
           UNCHANGED <<tableVars, accepted, bound_by, epoll, tracked, mainVars, queue>>
    PROVE  LoopInv'
<1>. DEFINE fd == worker[w].task.fd
<1>1. /\ UNCHANGED <<tableVars, binding, accepted, bound_by, queue, handoff>> /\ CloseFd(fd)
      /\ UNCHANGED <<main, batch, accept_ready, timer_ready, expiring, epoll, tracked>>
    BY Zenon DEF mainVars, tableVars
<1>2. /\ worker[w].task # NoTask /\ fd \in Fds /\ fd \notin tracked /\ main # "stopped"
      /\ worker' \in [Workers -> [at : {"idle", "running", "rearm", "detach", "close"},
                                  task : Tasks \cup {NoTask}]]
      /\ worker'[w].at = "idle" /\ worker'[w].task = NoTask
      /\ \A v \in Workers \ {w} : worker'[v] = worker[v]
      /\ Distinct'
      /\ \A g \in Fds : Holder(g)' <=> (Holder(g) /\ g # fd)
    BY <1>1, DoneFacts, Zenon
<1>3. binding[fd] = NoSession
    BY <1>2, Zenon DEF LoopInv, Bound
<1>4. TypeOK /\ fd \in Fds /\ CloseFd(fd)
    BY <1>1, <1>2, Zenon DEF LoopInv
<1>5. /\ fd \notin tracked /\ UNCHANGED <<main, expiring, epoll, tracked>>
       /\ \A g \in Fds : Holder(g)' <=> (Holder(g) /\ g # fd)
    BY <1>1, <1>2, Zenon
<1>. HIDE DEF fd
<1>6. /\ conn' \in [Fds -> 0 .. MaxConns] /\ conn'[fd] = 0
      /\ input' \in [Fds -> Requests \cup {NoRequest}] /\ hup' \subseteq Fds
      /\ \A g \in Fds \ {fd} : conn'[g] = conn[g] /\ input'[g] = input[g]
    BY <1>4, CloseFdFacts, Zenon
<1>7. \A e \in batch : e.fd \in Fds \ {fd}
    BY <1>2, SMTT(30) DEF LoopInv, TypeOK, Events, FreshEvents, Owned
<1>8. TypeOK'
    BY <1>1, <1>2, <1>6, Zenon DEF LoopInv, TypeOK
<1>9. TP!TableInv'
    BY <1>1, TableStep, Zenon DEF LoopInv
<1>10. Control'
    BY <1>1, <1>2, Zenon DEF LoopInv, Control
<1>11. Owned'
    BY <1>4, <1>5, <1>6, Zenon DEF LoopInv, Owned, TypeOK, Running
<1>12. Events'
    BY <1>1, <1>6, <1>7, Zenon DEF LoopInv, Events, FreshEvents
<1>13. BindingsFresh'
    BY <1>1, <1>2, <1>3, <1>6, CloseBindings, Zenon
<1>14. Bound'
    BY <1>1, <1>2, BoundStep, Zenon DEF LoopInv
<1>. QED
    BY <1>2, <1>8, <1>9, <1>10, <1>11, <1>12, <1>13, <1>14, Zenon DEF LoopInv

\* Every step of a worker.
LEMMA WorkerInv ==
    ASSUME LoopInv, NEW w \in Workers, WorkerStep(w)
    PROVE  LoopInv'
<1>1. CASE Take(w)
    BY <1>1, TakeInv, Zenon
<1>2. CASE RunBasic(w)
    BY <1>2, RunBasicInv, Zenon
<1>3. CASE Rearm(w)
  <2>1. \/ /\ Running /\ worker' = [worker EXCEPT ![w] = Idle]
           /\ tracked' = tracked \cup {worker[w].task.fd}
           /\ epoll' = epoll \cup {worker[w].task.fd}
        \/ /\ worker[w].at = "rearm" /\ Goto(w, "detach")
           /\ UNCHANGED <<tableVars, kernelVars, mainVars, queue>>
    BY <1>3, Zenon DEF Rearm, At, Running, kernelVars
  <2>. QED
    BY <1>3, <2>1, RearmInv, GiveUpInv, Zenon
<1>4. CASE EndTransfer(w)
    BY <1>4, GiveUpInv, Zenon DEF EndTransfer, At
<1>5. CASE Release(w)
    BY <1>5, ReleaseDetachInv, ReleaseCloseInv, Zenon DEF Release, At
<1>. QED
    BY <1>1, <1>2, <1>3, <1>4, <1>5, Zenon DEF WorkerStep

-----------------------------------------------------------------------------
(* The theorems.                                                           *)

\* The invariant holds when the loop starts.
LEMMA InitInv == Init => LoopInv
<1>. SUFFICES ASSUME Init PROVE LoopInv
    BY Zenon
<1>1. TP!TableInit
    BY Zenon DEF Init, ST!TableInit, TP!TableInit
<1>2. TP!TableInv
    BY <1>1, TP!TableInitInv, LoopAssumption, Zenon
<1>3. Len(queue) = 0 /\ queue \in Seq(Tasks) /\ 1 .. Len(queue) = {}
    BY DEF Init
<1>4. TypeOK
  <2>1. 0 \in 0 .. MaxConns /\ Len(queue) <= QueueCapacity
    BY <1>3, LoopAssumption
  <2>2. worker \in [Workers -> [at : {"idle", "running", "rearm", "detach", "close"},
                                task : Tasks \cup {NoTask}]]
    BY Zenon DEF Init, Idle
  <2>3. conn \in [Fds -> 0 .. MaxConns] /\ bound_by \in [Fds -> 0 .. MaxConns]
    BY <2>1, Zenon DEF Init
  <2>. QED
    BY <1>3, <2>1, <2>2, <2>3, Zenon DEF Init, TypeOK
<1>5. Control /\ Distinct /\ Owned
    BY <1>3, LoopAssumption, Zenon DEF Init, Control, Distinct, Owned, Idle, Holder, Running
<1>6. Events /\ BindingsFresh /\ Bound
    BY <1>3, Zenon DEF Init, Events, FreshEvents, BindingsFresh, Bound, Idle, ST!TableInit
<1>. QED
    BY <1>2, <1>4, <1>5, <1>6, Zenon DEF LoopInv

\* Every step preserves it.
LEMMA NextInv == LoopInv /\ [Next]_vars => LoopInv'
<1>. SUFFICES ASSUME LoopInv, [Next]_vars PROVE LoopInv'
    BY Zenon
<1>1. CASE PeerStep
    BY <1>1, PeerInv, Zenon
<1>2. CASE LoopStep
  <2>1. CASE EventStep
    BY <2>1, DropInv, RejectInv, DispatchInv, Zenon DEF EventStep
  <2>2. CASE \E fd \in expiring : ExpireOne(fd)
    BY <2>2, ExpireInv, Zenon
  <2>. QED
    BY <1>2, <2>1, <2>2, EpollWaitInv, AcceptInv, AddInv, TurnInv, Zenon DEF LoopStep
<1>3. CASE ShutDown \/ AddFails
    BY <1>3, TurnInv, AddFailsInv, Zenon
<1>4. CASE \E w \in Workers : WorkerStep(w)
    BY <1>4, WorkerInv, Zenon
<1>5. CASE UNCHANGED vars
  <2>1. UNCHANGED <<live, issued, binding, connections, connection_count, cwd, conn, accepted,
                    bound_by, input, hup, epoll, tracked, main, batch, accept_ready,
                    timer_ready, expiring, handoff, queue, worker>>
    BY <1>5, Zenon DEF vars, tableVars, kernelVars, mainVars
  <2>2. TP!TableInv'
    BY <2>1, TableStep, Zenon DEF LoopInv, tableVars
  <2>3. TypeOK'
    BY <2>1, Zenon DEF LoopInv, TypeOK
  <2>4. Control'
    BY <2>1, Zenon DEF LoopInv, Control
  <2>5. Distinct' /\ \A fd \in Fds : Holder(fd)' <=> Holder(fd)
    BY <2>1, SameTasks, Zenon DEF LoopInv
  <2>6. Owned'
    BY <2>1, <2>5, Zenon DEF LoopInv, Owned, TypeOK, Running
  <2>7. Events'
    BY <2>1, Zenon DEF LoopInv, Events, FreshEvents
  <2>8. BindingsFresh'
    BY <2>1, Zenon DEF LoopInv, BindingsFresh
  <2>9. Bound'
    BY <2>1, Zenon DEF LoopInv, Bound, Authorized
  <2>. QED
    BY <2>2, <2>3, <2>4, <2>5, <2>6, <2>7, <2>8, <2>9, Zenon DEF LoopInv
<1>. QED
    BY <1>1, <1>2, <1>3, <1>4, <1>5, Zenon DEF Next

\* The invariant holds in every state the loop, its workers and its peers can reach.
THEOREM LoopInvariant == Spec => []LoopInv
BY InitInv, NextInv, PTL DEF Spec

\* What a task's descriptor is, in the terms of the properties.
LEMMA HeldIsHolder ==
    ASSUME LoopInv
    PROVE  \A fd \in Fds : Held(fd) <=> Holder(fd)
<1>1. queue \in Seq(Tasks) /\ DOMAIN queue = 1 .. Len(queue)
    BY LenProperties, Zenon DEF LoopInv, TypeOK
<1>2. \A i \in 1 .. Len(queue) : queue[i] # NoTask
    BY TaskTypes, Zenon DEF LoopInv
<1>. QED
    BY <1>1, <1>2, Zenon DEF Held, TasksOut, Holder

\* While the loop runs an open descriptor is watched by the loop or held by exactly one
\* task, never both and never neither.
THEOREM DescriptorsOwnedOnce == Spec => []OwnedOnce
<1>1. LoopInv => OwnedOnce
  <2>. SUFFICES ASSUME LoopInv, Running PROVE OwnedOnce
    BY Zenon DEF OwnedOnce, Running
  <2>1. /\ epoll = tracked /\ epoll \subseteq Fds
        /\ \A fd \in epoll : conn[fd] # 0 /\ ~Holder(fd)
        /\ \A fd \in Fds : Holder(fd) => conn[fd] # 0
        /\ \A fd \in Fds : conn[fd] # 0 => fd \in epoll \/ Holder(fd)
    BY Zenon DEF LoopInv, Owned, TypeOK
  <2>2. \A w1, w2 \in Workers : w1 # w2 /\ ~At(w1, "idle") /\ ~At(w2, "idle")
            => worker[w1].task.fd # worker[w2].task.fd
    BY Zenon DEF LoopInv, Control, Distinct, At
  <2>. QED
    BY <2>1, <2>2, HeldIsHolder, Zenon DEF OwnedOnce, Open
<1>. QED
    BY <1>1, LoopInvariant, PTL

\* The descriptor of an event is not closed and handed out again before the event is
\* handled, whatever the other events of the batch and the workers do.
THEOREM EventsStayFresh == Spec => []FreshEvents
<1>1. LoopInv => FreshEvents
    BY Zenon DEF LoopInv, Events
<1>. QED
    BY <1>1, LoopInvariant, PTL

\* No connection inherits the session of the one that had its descriptor before.
THEOREM BindingsStayFresh == Spec => []BindingsFresh
<1>1. LoopInv => BindingsFresh
    BY Zenon DEF LoopInv
<1>. QED
    BY <1>1, LoopInvariant, PTL

\* The session of an authorized task lives, bound to the task's descriptor, until the
\* worker detaches it.
THEOREM TasksStayAuthorized == Spec => []TasksAuthorized
<1>1. LoopInv => TasksAuthorized
  <2>. SUFFICES ASSUME LoopInv, NEW t \in TasksOut
                PROVE  \/ t.cmd = "login"
                       \/ binding[t.fd] = t.sid /\ t.sid \in live
                       \/ \E w \in Workers : worker[w].task = t /\ At(w, "close")
    BY Zenon DEF TasksAuthorized
  <2>1. queue \in Seq(Tasks) /\ DOMAIN queue = 1 .. Len(queue)
    BY LenProperties, Zenon DEF LoopInv, TypeOK
  <2>2. \/ \E i \in 1 .. Len(queue) : t = queue[i]
        \/ \E w \in Workers : t = worker[w].task /\ worker[w].task # NoTask
        \/ t = handoff /\ handoff # NoTask
    BY <2>1, Zenon DEF TasksOut
  <2>3. t \in Tasks /\ t.fd \in Fds
    BY <2>2, TaskTypes, Zenon DEF LoopInv
  <2>4. Authorized(t) \/ \E w \in Workers : worker[w].task = t /\ worker[w].at = "close"
    BY <2>2, Zenon DEF LoopInv, Bound
  <2>5. Authorized(t) => t.cmd = "login" \/ (binding[t.fd] = t.sid /\ t.sid \in live)
    BY <2>3, TableFacts, Zenon DEF LoopInv, Authorized
  <2>. QED
    BY <2>4, <2>5, Zenon DEF At
<1>. QED
    BY <1>1, LoopInvariant, PTL

-----------------------------------------------------------------------------
(* A task keeps its connection.                                            *)

\* TasksKeepConnection, place by place.
Kept ==
    /\ \A i \in 1 .. Len(queue) : conn[queue[i].fd] = queue[i].conn
    /\ handoff # NoTask => conn[handoff.fd] = handoff.conn
    /\ \A w \in Workers : worker[w].task # NoTask =>
          conn[worker[w].task.fd] = worker[w].task.conn

\* A step that hands no task on, and changes the connection only of descriptors that no
\* task has afterwards.
LEMMA KeptStep ==
    ASSUME LoopInv, Kept, queue' = queue, handoff' \in {handoff, NoTask},
           \A w \in Workers : worker'[w].task \in {worker[w].task, NoTask},
           \A fd \in Fds : conn'[fd] = conn[fd] \/ ~Holder(fd)'
    PROVE  Kept'
<1>1. /\ \A i \in 1 .. Len(queue) : queue[i].fd \in Fds
      /\ handoff # NoTask => handoff.fd \in Fds
      /\ \A w \in Workers : worker[w].task # NoTask => worker[w].task.fd \in Fds
    BY TaskTypes, Zenon DEF LoopInv
<1>2. \A i \in 1 .. Len(queue) : conn'[queue[i].fd] = queue[i].conn
  <2>1. \A i \in 1 .. Len(queue) : Holder(queue[i].fd)'
    BY Zenon DEF Holder
  <2>. QED
    BY <1>1, <2>1, Zenon DEF Kept
<1>3. ASSUME handoff' # NoTask
      PROVE  conn'[handoff.fd] = handoff.conn /\ handoff' = handoff
  <2>1. handoff' = handoff /\ handoff # NoTask
    BY <1>3, Zenon
  <2>2. Holder(handoff.fd)'
    BY <1>3, <2>1, Zenon DEF Holder
  <2>. QED
    BY <1>1, <2>1, <2>2, Zenon DEF Kept
<1>4. ASSUME NEW w \in Workers, worker'[w].task # NoTask
      PROVE  conn'[worker[w].task.fd] = worker[w].task.conn /\ worker'[w].task = worker[w].task
  <2>1. worker'[w].task = worker[w].task /\ worker[w].task # NoTask
    BY <1>4, Zenon
  <2>2. Holder(worker[w].task.fd)'
    BY <1>4, <2>1, Zenon DEF Holder
  <2>. QED
    BY <1>1, <2>1, <2>2, Zenon DEF Kept
<1>. QED
    BY <1>2, <1>3, <1>4, Zenon DEF Kept

\* The main thread and the peers: a descriptor is closed when no task has it, and a new
\* connection gets one that nobody has.
LEMMA KeptLoop ==
    ASSUME LoopInv, Kept, PeerStep \/ LoopStep \/ AddFails \/ ShutDown,
           ~EventStep, ~AddTask
    PROVE  Kept'
<1>1. CASE PeerStep \/ EpollWait \/ AllocateTask \/ EndBatch \/ Exit \/ ShutDown
  <2>1. UNCHANGED <<conn, queue, handoff, worker>>
    BY <1>1, Zenon DEF PeerStep, SendRequest, HangUp, EpollWait, AllocateTask, EndBatch, Exit,
           ShutDown, kernelVars, mainVars
  <2>. QED
    BY <2>1, KeptStep, Zenon
<1>2. CASE handle_accept_event
  <2>1. UNCHANGED <<queue, handoff, worker>>
    BY <1>2, Zenon DEF handle_accept_event
  <2>2. \A fd \in Fds : conn'[fd] = conn[fd] \/ conn[fd] = 0
    BY <1>2, Zenon DEF handle_accept_event, LoopInv, TypeOK, Open
  <2>3. \A fd \in Fds : Holder(fd)' => conn[fd] # 0
    BY <2>1, SameTasks, Zenon DEF LoopInv, Owned
  <2>. QED
    BY <2>1, <2>2, <2>3, KeptStep, Zenon
<1>3. CASE \E fd \in expiring : ExpireOne(fd)
  <2>1. PICK fd \in expiring : ExpireOne(fd)
    BY <1>3, Zenon
  <2>2. close_client(fd) /\ UNCHANGED <<queue, handoff, worker>>
    BY <2>1, Zenon DEF ExpireOne
  <2>3. fd \in tracked /\ fd \in Fds /\ ~Holder(fd)
    BY <2>1, Zenon DEF LoopInv, Owned, TypeOK
  <2>4. \A g \in Fds \ {fd} : conn'[g] = conn[g]
    BY <2>2, <2>3, CloseFacts, Zenon
  <2>5. ~Holder(fd)'
    BY <2>2, <2>3, SameTasks, Zenon
  <2>. QED
    BY <2>2, <2>4, <2>5, KeptStep, Zenon
<1>4. CASE AddFails
  <2>1. /\ main = "adding" /\ close_client(handoff.fd) /\ handoff' = NoTask
        /\ UNCHANGED <<queue, worker>>
    BY <1>4, Zenon DEF AddFails
  <2>2. handoff # NoTask /\ handoff.fd \in Fds
    BY <2>1, TaskTypes, Zenon DEF LoopInv, Control
  <2>3. \A g \in Fds \ {handoff.fd} : conn'[g] = conn[g]
    BY <2>1, <2>2, CloseFacts, Zenon
  <2>4. \A g \in Fds : g = handoff.fd => ~Holder(g)'
    BY <2>1, <2>2, Zenon DEF LoopInv, Distinct, Holder
  <2>. QED
    BY <2>1, <2>3, <2>4, KeptStep, Zenon
<1>. QED
    BY <1>1, <1>2, <1>3, <1>4, Zenon DEF LoopStep

\* The event of a request is about the connection open on its descriptor, and so is the
\* task made of it.
LEMMA KeptEvent ==
    ASSUME LoopInv, Kept, NEW e \in batch,
           DropClient(e) \/ RejectRequest(e) \/ DispatchRequest(e)
    PROVE  Kept'
<1>1. e.fd \in Fds /\ e.fd \in tracked /\ ~Holder(e.fd) /\ conn[e.fd] = e.conn
    BY Zenon DEF LoopInv, TypeOK, Events, FreshEvents, Owned
<1>2. CASE DropClient(e)
  <2>1. close_client(e.fd) /\ UNCHANGED <<queue, handoff, worker>>
    BY <1>2, Zenon DEF DropClient
  <2>2. \A g \in Fds \ {e.fd} : conn'[g] = conn[g]
    BY <1>1, <2>1, CloseFacts, Zenon
  <2>3. ~Holder(e.fd)'
    BY <1>1, <2>1, SameTasks, Zenon
  <2>. QED
    BY <2>1, <2>2, <2>3, KeptStep, Zenon
<1>3. CASE RejectRequest(e)
  <2>1. UNCHANGED <<conn, queue, handoff, worker>>
    BY <1>3, Zenon DEF RejectRequest
  <2>. QED
    BY <2>1, KeptStep, Zenon
<1>4. CASE DispatchRequest(e)
  <2>1. /\ UNCHANGED <<conn, queue, worker>>
        /\ handoff' = [fd |-> e.fd, conn |-> e.conn, cmd |-> input[e.fd].cmd,
                       sid |-> input[e.fd].sid]
    BY <1>4, Zenon DEF DispatchRequest
  <2>2. handoff'.fd = e.fd /\ handoff'.conn = e.conn
    BY <2>1, Zenon
  <2>. QED
    BY <1>1, <2>1, <2>2, Zenon DEF Kept
<1>. QED
    BY <1>2, <1>3, <1>4, Zenon

\* A task changes hands: from the main thread to the queue, from the queue to a worker.
LEMMA KeptHandedOn ==
    ASSUME LoopInv, Kept, AddTask \/ \E w \in Workers : Take(w)
    PROVE  Kept'
<1>. DEFINE n == Len(queue)
            m == Len(queue')
<1>1. queue \in Seq(Tasks) /\ n \in Nat
    BY LenProperties, Zenon DEF LoopInv, TypeOK
<1>2. CASE AddTask
  <2>1. /\ main = "queueing" /\ queue' = Append(queue, handoff) /\ handoff' = NoTask
        /\ UNCHANGED <<conn, worker>>
    BY <1>2, Zenon DEF AddTask, kernelVars
  <2>2. handoff # NoTask /\ handoff \in Tasks
    BY <2>1, TaskTypes, Zenon DEF LoopInv, Control
  <2>3. /\ m = n + 1 /\ queue'[n + 1] = handoff
        /\ \A i \in 1 .. n : queue'[i] = queue[i]
    BY <1>1, <2>1, <2>2, AppendProperties, LenProperties, SMTT(30)
  <2>4. 1 .. m = 1 .. n \cup {n + 1}
    BY <1>1, <2>3
  <2>. QED
    BY <2>1, <2>2, <2>3, <2>4, Zenon DEF Kept
<1>3. ASSUME NEW w \in Workers, Take(w)
      PROVE  Kept'
  <2>1. /\ queue # <<>> /\ queue' = Tail(queue) /\ UNCHANGED <<conn, handoff>>
        /\ worker' = [worker EXCEPT ![w] = [at |-> "running", task |-> Head(queue)]]
    BY <1>3, Zenon DEF Take, kernelVars, mainVars
  <2>2. n # 0
    BY <1>1, <2>1, EmptySeq, Zenon
  <2>3. /\ m = n - 1 /\ Head(queue) = queue[1]
        /\ \A i \in 1 .. m : queue'[i] = queue[i + 1]
    BY <1>1, <2>1, <2>2, HeadTailProperties
  <2>4. 1 \in 1 .. n /\ \A i \in 1 .. m : i + 1 \in 1 .. n
    BY <1>1, <2>2, <2>3
  <2>5. /\ worker'[w].task = queue[1]
        /\ \A v \in Workers \ {w} : worker'[v] = worker[v]
    BY <2>1, <2>3, Zenon DEF LoopInv, TypeOK
  <2>6. \A i \in 1 .. n : conn[queue[i].fd] = queue[i].conn
    BY Zenon DEF Kept
  <2>7. \A i \in 1 .. m : conn'[queue'[i].fd] = queue'[i].conn
    BY <2>1, <2>3, <2>4, <2>6, Zenon
  <2>8. conn'[worker'[w].task.fd] = worker'[w].task.conn
    BY <2>1, <2>4, <2>5, <2>6, Zenon
  <2>. QED
    BY <2>1, <2>5, <2>7, <2>8, Zenon DEF Kept
<1>. QED
    BY <1>2, <1>3, Zenon

\* A busy worker: it closes its descriptor only with the task that has it.
LEMMA KeptWorker ==
    ASSUME LoopInv, Kept, NEW w \in Workers,
           RunBasic(w) \/ Rearm(w) \/ EndTransfer(w) \/ Release(w)
    PROVE  Kept'
<1>1. /\ UNCHANGED <<queue, handoff>> /\ worker[w].at # "idle"
      /\ \/ worker' = [worker EXCEPT ![w] = Idle] \/ \E p \in {"rearm", "detach", "close"} : Goto(w, p)
    BY Zenon DEF RunBasic, Rearm, EndTransfer, Release, At, mainVars
<1>2. \A v \in Workers : worker'[v].task \in {worker[v].task, NoTask}
  <2>1. worker \in [Workers -> [at : {"idle", "running", "rearm", "detach", "close"},
                                 task : Tasks \cup {NoTask}]]
    BY Zenon DEF LoopInv, TypeOK
  <2>2. CASE worker' = [worker EXCEPT ![w] = Idle]
    BY <2>1, <2>2, Zenon DEF Idle
  <2>3. ASSUME NEW p \in {"rearm", "detach", "close"}, Goto(w, p)
        PROVE  \A v \in Workers : worker'[v].task = worker[v].task
    BY <2>1, <2>3, Zenon DEF Goto
  <2>. QED
    BY <1>1, <2>2, <2>3, Zenon
<1>3. CASE conn' = conn
    BY <1>1, <1>2, <1>3, KeptStep, Zenon
<1>4. CASE worker' = [worker EXCEPT ![w] = Idle] /\ CloseFd(worker[w].task.fd)
  <2>1. /\ worker[w].task.fd \in Fds
        /\ \A g \in Fds : Holder(g)' <=> (Holder(g) /\ g # worker[w].task.fd)
    BY <1>1, <1>4, DoneFacts, Zenon
  <2>2. \A g \in Fds \ {worker[w].task.fd} : conn'[g] = conn[g]
    BY <1>4, <2>1, CloseFdFacts, Zenon DEF LoopInv
  <2>. QED
    BY <1>1, <1>2, <2>1, <2>2, KeptStep, Zenon
<1>. QED
    BY <1>3, <1>4, Zenon DEF RunBasic, Rearm, EndTransfer, Release, kernelVars

\* Every step keeps the tasks on their connections.
LEMMA KeptNext == LoopInv /\ Kept /\ [Next]_vars => Kept'
<1>. SUFFICES ASSUME LoopInv, Kept, [Next]_vars PROVE Kept'
    BY Zenon
<1>1. CASE PeerStep \/ LoopStep \/ AddFails \/ ShutDown
    BY <1>1, KeptLoop, KeptEvent, KeptHandedOn, Zenon DEF EventStep
<1>2. CASE \E w \in Workers : WorkerStep(w)
    BY <1>2, KeptWorker, KeptHandedOn, Zenon DEF WorkerStep
<1>3. CASE UNCHANGED vars
  <2>1. UNCHANGED <<conn, queue, handoff, worker>>
    BY <1>3, Zenon DEF vars, kernelVars, mainVars
  <2>. QED
    BY <2>1, KeptStep, Zenon
<1>. QED
    BY <1>1, <1>2, <1>3, Zenon DEF Next

\* From the request to the end of its task the descriptor stays on the connection the
\* request came on: no expiry, hang-up or other worker closes it, and so no other peer gets
\* its number and the answer.
THEOREM TasksStayOnConnection == Spec => []TasksKeepConnection
<1>1. Init => Kept
  <2>1. Init => 1 .. Len(queue) = {}
    BY DEF Init
  <2>2. Init => handoff = NoTask /\ \A w \in Workers : worker[w].task = NoTask
    <3>1. Init => handoff = NoTask /\ \A w \in Workers : worker[w] = Idle
      BY Zenon DEF Init
    <3>2. Idle.task = NoTask
      BY Zenon DEF Idle
    <3>. QED
      BY <3>1, <3>2, Zenon
  <2>3. Init => \A i \in 1 .. Len(queue) : conn[queue[i].fd] = queue[i].conn
    BY <2>1, Zenon
  <2>. QED
    BY <2>2, <2>3, Zenon DEF Kept
<1>2. Spec => []Kept
    BY <1>1, KeptNext, LoopInvariant, PTL DEF Spec
<1>3. LoopInv /\ Kept => TasksKeepConnection
  <2>1. LoopInv => DOMAIN queue = 1 .. Len(queue)
    BY LenProperties, Zenon DEF LoopInv, TypeOK
  <2>2. ASSUME LoopInv, Kept, NEW t \in TasksOut
        PROVE  conn[t.fd] = t.conn
    <3>1. \/ \E i \in 1 .. Len(queue) : t = queue[i]
          \/ \E w \in Workers : t = worker[w].task /\ worker[w].task # NoTask
          \/ t = handoff /\ handoff # NoTask
      BY <2>1, <2>2, Zenon DEF TasksOut
    <3>. QED
      BY <2>2, <3>1, Zenon DEF Kept
  <2>. QED
    BY <2>2, Zenon DEF TasksKeepConnection
<1>. QED
    BY <1>2, <1>3, LoopInvariant, PTL

=============================================================================
