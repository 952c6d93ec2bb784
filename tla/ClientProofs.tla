---------------------------- MODULE ClientProofs ----------------------------
(***************************************************************************)
(* Proofs about the client's background transfers, for any number of them, *)
(* any limit, any targets and any number of descriptors, beside everything *)
(* the main thread does.  The inductive invariant says for each task which *)
(* of its fields are set at each step of its life (Lives), whose each      *)
(* descriptor is (Owned), what the stop has done so far (Stop) and what is *)
(* in the list of events (Queued).                                         *)
(*                                                                         *)
(* Then the mirror of the remote directory, for any arguments of cd: what  *)
(* each end holds while a request or its reply is under way                *)
(* (Conversation), and that the server's directory is where the session's  *)
(* cds lead (PathNormalizeProofs).                                         *)
(***************************************************************************)
EXTENDS Client, PathNormalizeProofs

Places ==
    {"none", "opening", "opened", "running", "closing", "ended", "reporting", "unlinked", "freed"}

OnList == {"opening", "opened", "running", "closing", "ended", "reporting"}

Results == {"ok", "failed", "canceled"}

TransferTypeOK ==
    /\ stopping \in BOOLEAN
    /\ active \subseteq Tasks /\ IsFiniteSet(active) /\ active_count = Cardinality(active)
    /\ events \in Seq([task : Tasks, result : Results])
    /\ waiter \in {"out", "waiting", "woken", "returned", "destroyed"}
    /\ step \in [Tasks -> Places]
    /\ fd \in [Tasks -> Fds \cup {NoFd}]
    /\ socket_fd \in [Tasks -> Fds \cup {NoFd}]
    /\ canceled \in [Tasks -> BOOLEAN]
    /\ result \in [Tasks -> Results \cup {"none"}]
    /\ ok \in [Tasks -> BOOLEAN]
    /\ owner \in [Fds -> Tasks \cup {Free, Control}]
    /\ shut \subseteq Fds
    /\ control_fd \in Fds \cup {NoFd}

Lives ==
    \A t \in Tasks :
        /\ t \in active <=> step[t] \in OnList
        /\ fd[t] # NoFd <=> step[t] \in {"opened", "running", "closing"}
        /\ socket_fd[t] = IF step[t] = "running" THEN fd[t] ELSE NoFd
        /\ step[t] = "reporting" => result[t] # "none"

Owned ==
    /\ \A t \in Tasks : fd[t] # NoFd => owner[fd[t]] = t
    /\ control_fd # NoFd => owner[control_fd] = Control

Stop ==
    /\ stopping <=> waiter # "out"
    /\ waiter \in {"returned", "destroyed"} => active = {}
    /\ \A t \in Tasks :
          /\ canceled[t] \/ result[t] = "canceled" => stopping
          /\ stopping /\ t \in active => canceled[t]
          /\ stopping /\ step[t] = "running" => fd[t] \in shut

Queued == \A i \in DOMAIN events : step[events[i].task] \in {"unlinked", "freed"}

Main ==
    /\ main \notin {"close", "exited"} => waiter # "destroyed"
    /\ main = "destroy" => waiter = "returned" /\ events = <<>>

TransferInv == TransferTypeOK /\ Lives /\ Owned /\ Stop /\ Queued /\ Main

-----------------------------------------------------------------------------

\* No descriptor is -1.
LEMMA FdIsNumber == NoFd \notin Fds
    BY ManagerAssumption DEF NoFd, Fds

\* Nothing is transferred to begin with.
LEMMA TransferInitInv == Init => TransferInv
<1>1. SUFFICES ASSUME Init PROVE TransferInv
    BY Zenon
<1>2. <<>> \in Seq([task : Tasks, result : Results]) /\ DOMAIN <<>> = {}
    OBVIOUS
<1>3. IsFiniteSet({}) /\ Cardinality({}) = 0
    BY FS_EmptySet, Zenon
<1>4. TransferTypeOK
    BY <1>1, <1>2, <1>3, Zenon DEF Init, TransferInit, TransferTypeOK, Places
<1>5. Lives /\ Owned /\ Stop
    BY <1>1, Zenon DEF Init, TransferInit, Lives, Owned, Stop, OnList
<1>6. Queued /\ Main
    BY <1>1, <1>2, Zenon DEF Init, TransferInit, Queued, Main
<1>. QED
    BY <1>4, <1>5, <1>6, Zenon DEF TransferInv

-----------------------------------------------------------------------------
(* A task's thread.                                                        *)

\* The events queued name tasks, and stay true when another task goes on.
LEMMA QueuedStays ==
    ASSUME TransferTypeOK, Queued, NEW t \in Tasks, NEW place, events' = events,
           step' = [step EXCEPT ![t] = place],
           step[t] \in {"unlinked", "freed"} => place \in {"unlinked", "freed"}
    PROVE  Queued'
<1>1. \A i \in DOMAIN events : events[i].task \in Tasks
  <2>. DEFINE E == [task : Tasks, result : Results]
  <2>1. events \in Seq(E)
    BY Zenon DEF TransferTypeOK
  <2>. HIDE DEF E
  <2>2. \A i \in DOMAIN events : events[i] \in E
    BY <2>1, LenProperties, ElementOfSeq, Zenon
  <2>. QED
    BY <2>2, Zenon DEF E
<1>. QED
    BY <1>1, Zenon DEF Queued, TransferTypeOK

\* A socket is opened, or cannot be.
LEMMA OpenSocketInv ==
    ASSUME TransferInv, NEW t \in Tasks, OpenSocket(t), UNCHANGED <<main, control_fd>>
    PROVE  TransferInv'
<1>. USE DEF TransferInv
<1>1. /\ step[t] = "opening"
      /\ UNCHANGED <<stopping, active, active_count, events, waiter, socket_fd, canceled, result, ok>>
    BY Zenon DEF OpenSocket, managerVars
<1>2. CASE (\E f \in Fds : OpenFd(f, t) /\ fd' = [fd EXCEPT ![t] = f]) /\ GoTo(t, "opened")
  <2>1. PICK f \in Fds : OpenFd(f, t) /\ fd' = [fd EXCEPT ![t] = f]
    BY <1>2, Zenon
  <2>2. /\ owner[f] = Free /\ owner' = [owner EXCEPT ![f] = t] /\ shut' = shut
        /\ step' = [step EXCEPT ![t] = "opened"]
    BY <1>2, <2>1, Zenon DEF OpenFd, FreeFds, GoTo
  <2>3. TransferTypeOK'
    BY <1>1, <2>1, <2>2, Zenon DEF TransferTypeOK, Places
  <2>4. Lives'
    BY <1>1, <2>1, <2>2, FdIsNumber, Zenon DEF TransferTypeOK, Lives, OnList
  <2>5. Owned'
    BY <2>1, <2>2, ManagerAssumption DEF TransferTypeOK, Owned, Free, Control
  <2>6. Stop'
    BY <1>1, <2>1, <2>2, Zenon DEF TransferTypeOK, Stop
  <2>7. Queued' /\ Main'
    BY <1>1, <2>2, QueuedStays, Zenon DEF Main
  <2>. QED
    BY <2>3, <2>4, <2>5, <2>6, <2>7, Zenon
<1>3. CASE GoTo(t, "ended") /\ UNCHANGED <<fd, fdVars>>
  <2>1. step' = [step EXCEPT ![t] = "ended"] /\ UNCHANGED <<fd, owner, shut>>
    BY <1>3, Zenon DEF GoTo, fdVars
  <2>2. TransferTypeOK'
    BY <1>1, <2>1, Zenon DEF TransferTypeOK, Places
  <2>3. Lives'
    BY <1>1, <2>1, Zenon DEF TransferTypeOK, Lives, OnList
  <2>4. Owned' /\ Stop'
    BY <1>1, <2>1, Zenon DEF TransferTypeOK, Owned, Stop
  <2>5. Queued' /\ Main'
    BY <1>1, <2>1, QueuedStays, Zenon DEF Main
  <2>. QED
    BY <2>2, <2>3, <2>4, <2>5, Zenon
<1>. QED
    BY <1>2, <1>3, Zenon DEF OpenSocket

\* The socket is published unless the stop came first.
LEMMA PublishInv ==
    ASSUME TransferInv, NEW t \in Tasks, task_publish_socket(t), UNCHANGED <<main, control_fd>>
    PROVE  TransferInv'
<1>. USE DEF TransferInv
<1>1. /\ step[t] = "opened"
      /\ UNCHANGED <<stopping, active, active_count, events, waiter, fd, canceled, result, ok,
                     owner, shut>>
    BY Zenon DEF task_publish_socket, managerVars, fdVars
<1>2. t \in active
    BY <1>1, Zenon DEF Lives, OnList
<1>3. CASE canceled[t]
  <2>1. step' = [step EXCEPT ![t] = "closing"] /\ UNCHANGED socket_fd
    BY <1>3, Zenon DEF task_publish_socket, GoTo
  <2>2. TransferTypeOK'
    BY <1>1, <2>1, Zenon DEF TransferTypeOK, Places
  <2>3. Lives'
    BY <1>1, <2>1, Zenon DEF TransferTypeOK, Lives, OnList
  <2>4. Owned' /\ Stop'
    BY <1>1, <2>1 DEF TransferTypeOK, Owned, Stop
  <2>5. Queued' /\ Main'
    BY <1>1, <2>1, QueuedStays, Zenon DEF Main
  <2>. QED
    BY <2>2, <2>3, <2>4, <2>5, Zenon
<1>4. CASE ~canceled[t]
  <2>1. step' = [step EXCEPT ![t] = "running"] /\ socket_fd' = [socket_fd EXCEPT ![t] = fd[t]]
    BY <1>4, Zenon DEF task_publish_socket, GoTo
  <2>2. TransferTypeOK'
    BY <1>1, <2>1, Zenon DEF TransferTypeOK, Places
  <2>3. Lives'
    BY <1>1, <2>1, Zenon DEF TransferTypeOK, Lives, OnList
  <2>4. ~stopping
    BY <1>2, <1>4, Zenon DEF Stop
  <2>5. Owned' /\ Stop'
    BY <1>1, <2>1, <2>4, Zenon DEF TransferTypeOK, Owned, Stop
  <2>6. Queued' /\ Main'
    BY <1>1, <2>1, QueuedStays, Zenon DEF Main
  <2>. QED
    BY <2>2, <2>3, <2>5, <2>6, Zenon
<1>. QED
    BY <1>3, <1>4, Zenon

\* It is unpublished before it is closed.
LEMMA UnpublishInv ==
    ASSUME TransferInv, NEW t \in Tasks, task_close_socket(t), UNCHANGED <<main, control_fd>>
    PROVE  TransferInv'
<1>. USE DEF TransferInv
<1>1. /\ step[t] = "running" /\ step' = [step EXCEPT ![t] = "closing"]
      /\ socket_fd' = [socket_fd EXCEPT ![t] = NoFd]
      /\ ok' \in [Tasks -> BOOLEAN]
      /\ UNCHANGED <<stopping, active, active_count, events, waiter, fd, canceled, result, owner, shut>>
    BY Zenon DEF task_close_socket, managerVars, fdVars, GoTo, TransferTypeOK
<1>2. TransferTypeOK'
    BY <1>1, Zenon DEF TransferTypeOK, Places
<1>3. Lives'
    BY <1>1, Zenon DEF TransferTypeOK, Lives, OnList
<1>4. Owned' /\ Stop'
    BY <1>1 DEF TransferTypeOK, Owned, Stop
<1>5. Queued' /\ Main'
    BY <1>1, QueuedStays, Zenon DEF Main
<1>. QED
    BY <1>2, <1>3, <1>4, <1>5, Zenon

\* The close gives the descriptor back, and nobody else's.
LEMMA CloseSocketInv ==
    ASSUME TransferInv, NEW t \in Tasks, CloseSocket(t), UNCHANGED <<main, control_fd>>
    PROVE  TransferInv'
<1>. USE DEF TransferInv
<1>1. /\ step[t] = "closing" /\ step' = [step EXCEPT ![t] = "ended"]
      /\ fd' = [fd EXCEPT ![t] = NoFd]
      /\ owner' = [owner EXCEPT ![fd[t]] = Free] /\ shut' = shut \ {fd[t]}
      /\ UNCHANGED <<stopping, active, active_count, events, waiter, socket_fd, canceled, result, ok>>
    BY Zenon DEF CloseSocket, CloseFd, managerVars, GoTo
<1>2. fd[t] \in Fds /\ owner[fd[t]] = t
    BY <1>1 DEF TransferTypeOK, Lives, Owned
<1>3. \A u \in Tasks : u # t /\ fd[u] # NoFd => fd[u] # fd[t]
    BY <1>2, Zenon DEF Owned
<1>4. control_fd # fd[t]
    BY <1>2, ManagerAssumption, FdIsNumber, Zenon DEF Owned
<1>5. TransferTypeOK'
    BY <1>1, Zenon DEF TransferTypeOK, Places
<1>6. Lives'
    BY <1>1, Zenon DEF TransferTypeOK, Lives, OnList
<1>7. Owned'
    BY <1>1, <1>2, <1>3, <1>4, Zenon DEF TransferTypeOK, Owned
<1>8. Stop'
  <2>1. \A u \in Tasks : step'[u] = "running" => u # t /\ step[u] = "running" /\ fd'[u] = fd[u] /\ fd[u] # NoFd
    BY <1>1, Zenon DEF TransferTypeOK, Lives
  <2>. QED
    BY <1>1, <1>3, <2>1 DEF Stop
<1>9. Queued' /\ Main'
    BY <1>1, QueuedStays, Zenon DEF Main
<1>. QED
    BY <1>5, <1>6, <1>7, <1>8, <1>9, Zenon

\* The result is fixed.
LEMMA FixResultInv ==
    ASSUME TransferInv, NEW t \in Tasks, FixResult(t), UNCHANGED <<main, control_fd>>
    PROVE  TransferInv'
<1>. USE DEF TransferInv
<1>1. /\ step[t] = "ended" /\ step' = [step EXCEPT ![t] = "reporting"]
      /\ result' = [result EXCEPT ![t] = ResultOf(t)]
      /\ UNCHANGED <<stopping, active, active_count, events, waiter, fd, socket_fd, canceled, ok,
                     owner, shut>>
    BY Zenon DEF FixResult, managerVars, fdVars, GoTo
<1>2. ResultOf(t) \in Results /\ (ResultOf(t) = "canceled" => canceled[t])
    BY Zenon DEF ResultOf, Results
<1>3. TransferTypeOK'
    BY <1>1, <1>2, Zenon DEF TransferTypeOK, Places
<1>4. Lives'
    BY <1>1, <1>2, Zenon DEF TransferTypeOK, Lives, OnList, Results
<1>5. Owned' /\ Stop'
    BY <1>1, <1>2, Zenon DEF TransferTypeOK, Owned, Stop
<1>6. Queued' /\ Main'
    BY <1>1, QueuedStays, Zenon DEF Main
<1>. QED
    BY <1>3, <1>4, <1>5, <1>6, Zenon

\* The task leaves the list and its event takes its place; the last one wakes the stop.
LEMMA FinishTaskInv ==
    ASSUME TransferInv, NEW t \in Tasks, FinishTask(t), UNCHANGED <<main, control_fd>>
    PROVE  TransferInv'
<1>. USE DEF TransferInv
<1>1. /\ step[t] = "reporting" /\ step' = [step EXCEPT ![t] = "unlinked"]
      /\ active' = active \ {t}
      /\ result' = [result EXCEPT ![t] = "none"] /\ ok' = [ok EXCEPT ![t] = FALSE]
      /\ events' = Append(events, [task |-> t, result |-> result[t]])
      /\ UNCHANGED <<stopping, fd, socket_fd, canceled, owner, shut>>
    BY Zenon DEF FinishTask, fdVars, GoTo
<1>2. t \in active /\ result[t] \in Results
    BY <1>1, Zenon DEF Lives, OnList, TransferTypeOK
<1>3. active_count' = active_count - 1 /\ active_count' = Cardinality(active') /\ IsFiniteSet(active')
    BY <1>1, <1>2, FS_RemoveElement DEF TransferTypeOK, FinishTask
<1>4. /\ waiter' \in {"out", "waiting", "woken"} /\ waiter \in {"out", "waiting", "woken"}
      /\ waiter' = "out" <=> waiter = "out"
    BY <1>2, Zenon DEF FinishTask, Wake, TransferTypeOK, Stop
<1>. DEFINE E == [task : Tasks, result : Results]
            e == [task |-> t, result |-> result[t]]
<1>5. e \in E /\ e.task = t
    BY <1>2, Zenon
<1>6. events \in Seq(E)
    BY Zenon DEF TransferTypeOK
<1>7. events' = Append(events, e)
    BY <1>1, Zenon
<1>. HIDE DEF E, e
<1>8. /\ events' \in Seq(E) /\ DOMAIN events' = 1 .. Len(events) + 1 /\ DOMAIN events = 1 .. Len(events)
      /\ Len(events) \in Nat
      /\ \A i \in 1 .. Len(events) : events'[i] = events[i]
      /\ events'[Len(events) + 1] = e
    BY <1>5, <1>6, <1>7, AppendProperties, LenProperties
<1>9. TransferTypeOK'
    BY <1>1, <1>3, <1>4, <1>8, Zenon DEF TransferTypeOK, Places, E
<1>10. Lives'
    BY <1>1, Zenon DEF TransferTypeOK, Lives, OnList
<1>11. Owned' /\ Stop'
    BY <1>1, <1>4, Zenon DEF TransferTypeOK, Owned, Stop
<1>12. Queued'
  <2>1. SUFFICES ASSUME NEW i \in DOMAIN events' PROVE step'[events'[i].task] \in {"unlinked", "freed"}
    BY Zenon DEF Queued
  <2>2. CASE i = Len(events) + 1
    BY <1>1, <1>5, <1>8, <2>2, Zenon DEF TransferTypeOK
  <2>3. CASE i \in 1 .. Len(events)
    <3>1. events'[i] = events[i] /\ step[events[i].task] \in {"unlinked", "freed"}
      BY <1>8, <2>3, Zenon DEF Queued
    <3>2. events[i] \in E
      BY <1>6, <2>3, ElementOfSeq, Zenon
    <3>3. events[i].task \in Tasks
      BY <3>2, Zenon DEF E
    <3>. QED
      BY <1>1, <3>1, <3>3, Zenon DEF TransferTypeOK
  <2>. QED
    BY <1>8, <2>1, <2>2, <2>3
<1>13. Main'
    BY <1>4 DEF Main
<1>. QED
    BY <1>9, <1>10, <1>11, <1>12, <1>13, Zenon

\* Its memory goes last.
LEMMA FreeTaskInv ==
    ASSUME TransferInv, NEW t \in Tasks, FreeTask(t), UNCHANGED <<main, control_fd>>
    PROVE  TransferInv'
<1>. USE DEF TransferInv
<1>1. /\ step[t] = "unlinked" /\ step' = [step EXCEPT ![t] = "freed"]
      /\ canceled' = [canceled EXCEPT ![t] = FALSE]
      /\ UNCHANGED <<stopping, active, active_count, events, waiter, fd, socket_fd, result, ok,
                     owner, shut>>
    BY Zenon DEF FreeTask, managerVars, fdVars, GoTo
<1>2. TransferTypeOK'
    BY <1>1, Zenon DEF TransferTypeOK, Places
<1>3. Lives'
    BY <1>1, Zenon DEF TransferTypeOK, Lives, OnList
<1>4. t \notin active
    BY <1>1, Zenon DEF Lives, OnList
<1>5. Owned' /\ Stop'
    BY <1>1, <1>4 DEF TransferTypeOK, Owned, Stop
<1>6. Queued' /\ Main'
    BY <1>1, QueuedStays, Zenon DEF Main
<1>. QED
    BY <1>2, <1>3, <1>5, <1>6, Zenon

-----------------------------------------------------------------------------
(* The main thread's calls.                                                *)

\* A task is accepted.
LEMMA StartTaskInv ==
    ASSUME TransferInv, NEW t \in Tasks, start_task(t), UNCHANGED control_fd,
           main' \notin {"destroy", "close", "exited"}, main \notin {"destroy", "close", "exited"}
    PROVE  TransferInv'
<1>. USE DEF TransferInv
<1>1. /\ step[t] = "none" /\ ~stopping /\ step' = [step EXCEPT ![t] = "opening"]
      /\ active' = active \cup {t} /\ active_count' = active_count + 1
      /\ UNCHANGED <<stopping, events, waiter, fd, socket_fd, canceled, result, ok, owner, shut>>
    BY Zenon DEF start_task, fdVars, GoTo
<1>2. t \notin active
    BY <1>1, Zenon DEF Lives, OnList
<1>3. IsFiniteSet(active') /\ active_count' = Cardinality(active')
    BY <1>1, <1>2, FS_AddElement, Zenon DEF TransferTypeOK
<1>4. TransferTypeOK'
    BY <1>1, <1>3, Zenon DEF TransferTypeOK, Places
<1>5. Lives'
    BY <1>1, Zenon DEF TransferTypeOK, Lives, OnList
<1>6. Owned' /\ Stop'
    BY <1>1, Zenon DEF TransferTypeOK, Owned, Stop
<1>7. Queued' /\ Main'
    BY <1>1, QueuedStays, Zenon DEF Main
<1>. QED
    BY <1>4, <1>5, <1>6, <1>7, Zenon

\* The stop cancels what is on the list and shuts down what is published.
LEMMA StopTasksInv ==
    ASSUME TransferInv, StopTasks, UNCHANGED <<main, control_fd>>, main = "stop"
    PROVE  TransferInv'
<1>. USE DEF TransferInv
<1>1. /\ waiter = "out" /\ ~stopping /\ stopping' = TRUE
      /\ canceled' = [t \in Tasks |-> canceled[t] \/ t \in active]
      /\ shut' = shut \cup {socket_fd[t] : t \in {u \in active : socket_fd[u] # NoFd}}
      /\ waiter' = IF active_count = 0 THEN "returned" ELSE "waiting"
      /\ UNCHANGED <<active, active_count, events, step, fd, socket_fd, result, ok, owner>>
    BY Zenon DEF StopTasks
<1>2. active_count = 0 => active = {}
    BY FS_EmptySet, Zenon DEF TransferTypeOK
<1>3. TransferTypeOK'
    BY <1>1 DEF TransferTypeOK
<1>4. Lives' /\ Owned' /\ Queued' /\ Main'
    BY <1>1, Zenon DEF Lives, Owned, Queued, Main
<1>5. ASSUME NEW t \in Tasks
      PROVE  /\ t \in active => canceled'[t]
             /\ step[t] = "running" => fd[t] \in shut'
  <2>1. t \in active => canceled'[t]
    BY <1>1, Zenon
  <2>2. step[t] = "running" => t \in active /\ socket_fd[t] = fd[t] /\ fd[t] # NoFd
    BY Zenon DEF Lives, OnList
  <2>3. step[t] = "running" => fd[t] \in shut'
    BY <1>1, <2>2, Zenon
  <2>. QED
    BY <2>1, <2>3, Zenon
<1>6. Stop'
    BY <1>1, <1>2, <1>5, Zenon DEF Stop
<1>. QED
    BY <1>3, <1>4, <1>6, Zenon

\* What moves only the waiter, the events and the main thread.
LEMMA ManagerCallInv ==
    ASSUME TransferInv, UNCHANGED <<stopping, active, active_count, taskVars, fdVars, control_fd>>,
           events' = events \/ events' = <<>>,
           waiter' \in {"out", "waiting", "woken", "returned", "destroyed"},
           waiter' = "out" <=> waiter = "out",
           waiter' \in {"returned", "destroyed"} => active = {},
           Main'
    PROVE  TransferInv'
<1>. USE DEF TransferInv
<1>1. UNCHANGED <<step, fd, socket_fd, canceled, result, ok, owner, shut>>
    BY Zenon DEF taskVars, fdVars
<1>2. <<>> \in Seq([task : Tasks, result : Results]) /\ DOMAIN <<>> = {}
    OBVIOUS
<1>3. TransferTypeOK'
    BY <1>1, <1>2, Zenon DEF TransferTypeOK
<1>4. Lives' /\ Owned' /\ Stop'
    BY <1>1, Zenon DEF Lives, Owned, Stop
<1>5. Queued'
    BY <1>1, <1>2, Zenon DEF Queued
<1>. QED
    BY <1>3, <1>4, <1>5, Zenon

\* The control connection comes, goes or stays.
LEMMA ControlInv ==
    ASSUME TransferInv, UNCHANGED <<managerVars, taskVars>>, Main',
           \/ UNCHANGED <<fdVars, control_fd>>
           \/ \E f \in Fds : OpenFd(f, Control) /\ control_fd' = f
           \/ /\ IF control_fd = NoFd THEN UNCHANGED fdVars ELSE CloseFd(control_fd)
              /\ control_fd' = NoFd
    PROVE  TransferInv'
<1>. USE DEF TransferInv
<1>1. UNCHANGED <<stopping, active, active_count, events, waiter, step, fd, socket_fd, canceled,
                  result, ok>>
    BY Zenon DEF managerVars, taskVars
<1>2. Lives' /\ Queued'
    BY <1>1, Zenon DEF Lives, Queued
<1>3. CASE UNCHANGED <<owner, shut>> /\ control_fd' \in {control_fd, NoFd}
    BY <1>1, <1>2, <1>3, Zenon DEF TransferTypeOK, Owned, Stop
<1>4. CASE \E f \in Fds : OpenFd(f, Control) /\ control_fd' = f
  <2>1. PICK f \in Fds : OpenFd(f, Control) /\ control_fd' = f
    BY <1>4, Zenon
  <2>2. owner[f] = Free /\ owner' = [owner EXCEPT ![f] = Control] /\ shut' = shut
    BY <2>1, Zenon DEF OpenFd, FreeFds
  <2>3. TransferTypeOK'
    BY <1>1, <2>1, <2>2, Zenon DEF TransferTypeOK
  <2>4. Owned'
    BY <1>1, <2>1, <2>2, ManagerAssumption DEF TransferTypeOK, Owned
  <2>5. Stop'
    BY <1>1, <2>2, Zenon DEF Stop
  <2>. QED
    BY <1>2, <2>3, <2>4, <2>5, Zenon
<1>5. CASE control_fd # NoFd /\ CloseFd(control_fd) /\ control_fd' = NoFd
  <2>1. owner' = [owner EXCEPT ![control_fd] = Free] /\ shut' = shut \ {control_fd}
    BY <1>5, Zenon DEF CloseFd
  <2>2. \A t \in Tasks : fd[t] # NoFd => fd[t] # control_fd
    BY <1>5, ManagerAssumption, Zenon DEF Owned
  <2>3. TransferTypeOK'
    BY <1>1, <1>5, <2>1, Zenon DEF TransferTypeOK
  <2>4. Owned'
    BY <1>1, <1>5, <2>1, <2>2, Zenon DEF TransferTypeOK, Owned
  <2>5. \A t \in Tasks : step[t] = "running" => fd[t] # NoFd
    BY Zenon DEF Lives
  <2>6. Stop'
    BY <1>1, <2>1, <2>2, <2>5, Zenon DEF Stop
  <2>. QED
    BY <1>2, <2>3, <2>4, <2>6, Zenon
<1>. QED
    BY <1>3, <1>4, <1>5, Zenon DEF fdVars

\* The last steps of the program.
LEMMA DestroyInv ==
    ASSUME TransferInv, client_runtime_destroy
    PROVE  TransferInv'
<1>1. CASE StopTransfers
  <2>1. main = "stop" /\ UNCHANGED <<main, control_fd>>
    BY <1>1, Zenon DEF StopTransfers, runtimeVars
  <2>2. CASE StopTasks
    BY <2>1, <2>2, StopTasksInv, Zenon
  <2>3. CASE Recheck
    <3>1. active_count = 0 => active = {}
      BY FS_EmptySet, Zenon DEF TransferInv, TransferTypeOK
    <3>2. UNCHANGED <<stopping, active, active_count, events, taskVars, fdVars>>
      BY <2>3, Zenon DEF Recheck
    <3>3. /\ waiter' \in {"returned", "waiting"} /\ waiter = "woken"
          /\ waiter' = "returned" => active = {}
      BY <2>3, <3>1, Zenon DEF Recheck
    <3>4. Main'
      BY <2>1, <3>2, <3>3, Zenon DEF TransferInv, Main
    <3>. QED
      BY <2>1, <3>2, <3>3, <3>4, ManagerCallInv, Zenon
  <2>. QED
    BY <1>1, <2>2, <2>3, Zenon DEF StopTransfers
<1>2. CASE LastEvents
  <2>1. /\ UNCHANGED <<stopping, active, active_count, waiter, taskVars, fdVars, control_fd>>
        /\ events' = <<>> /\ waiter = "returned" /\ main' = "destroy"
    BY <1>2, Zenon DEF LastEvents, transfer_manager_drain_events, runtimeVars
  <2>2. Main'
    BY <2>1, Zenon DEF Main
  <2>3. active = {}
    BY <2>1, Zenon DEF TransferInv, Stop
  <2>. QED
    BY <2>1, <2>2, <2>3, ManagerCallInv, Zenon
<1>3. CASE DestroyManager
  <2>1. /\ UNCHANGED <<stopping, active, active_count, taskVars, fdVars, control_fd>>
        /\ events' = <<>> /\ waiter = "returned" /\ waiter' = "destroyed" /\ main' = "close"
    BY <1>3, Zenon DEF DestroyManager, transfer_manager_destroy, runtimeVars
  <2>2. Main'
    BY <2>1, Zenon DEF Main
  <2>3. active = {}
    BY <2>1, Zenon DEF TransferInv, Stop
  <2>. QED
    BY <2>1, <2>2, <2>3, ManagerCallInv
<1>4. CASE CloseControl
  <2>1. main' = "exited" /\ client_runtime_disconnect_control /\ UNCHANGED <<managerVars, taskVars>>
    BY <1>4, Zenon DEF CloseControl
  <2>2. Main'
    BY <2>1, Zenon DEF Main
  <2>. QED
    BY <2>1, <2>2, ControlInv, Zenon DEF client_runtime_disconnect_control
<1>. QED
    BY <1>1, <1>2, <1>3, <1>4, Zenon DEF client_runtime_destroy

\* The steps of the main thread that leave the transfers alone.
Apart ==
    \/ OpenControl \/ DropControl \/ ReceiveAuth \/ LoseAuth \/ TimeoutCommand \/ ReceiveReply
    \/ (\E type \in {"login", "register"} : SendAuth(type))
    \/ LeaveMenu \/ Quit \/ DeadConnection
    \/ (\E command \in Commands : SendCommand(command))
    \/ Server

\* They move nothing but the control connection.
LEMMA ApartInv ==
    ASSUME TransferInv, Apart
    PROVE  TransferInv' /\ UNCHANGED <<managerVars, taskVars>>
<1>1. /\ UNCHANGED <<managerVars, taskVars>>
      /\ \/ UNCHANGED <<fdVars, control_fd>>
         \/ \E f \in Fds : OpenFd(f, Control) /\ control_fd' = f
         \/ /\ IF control_fd = NoFd THEN UNCHANGED fdVars ELSE CloseFd(control_fd)
            /\ control_fd' = NoFd
  <2>1. CASE OpenControl
    BY <2>1, Zenon DEF OpenControl
  <2>2. CASE DropControl \/ TimeoutCommand \/ DeadConnection
    BY <2>2, Zenon DEF DropControl, TimeoutCommand, DeadConnection, LoseControl,
                client_runtime_disconnect_control
  <2>3. CASE ReceiveReply
    BY <2>3, Zenon DEF ReceiveReply, LoseControl, client_runtime_disconnect_control, transferVars
  <2>4. CASE ReceiveAuth \/ LoseAuth \/ LeaveMenu \/ Quit
    BY <2>4, Zenon DEF ReceiveAuth, LoseAuth, LeaveMenu, Quit, transferVars, runtimeVars
  <2>5. CASE \E type \in {"login", "register"} : SendAuth(type)
    BY <2>5, Zenon DEF SendAuth, transferVars
  <2>6. CASE \E command \in Commands : SendCommand(command)
    BY <2>6, Zenon DEF SendCommand, transferVars, runtimeVars
  <2>7. CASE Server
    BY <2>7, Zenon DEF Server, ServeAuth, ServeCd, ServeRm, ServerDrops, transferVars, runtimeVars
  <2>. QED
    BY <2>1, <2>2, <2>3, <2>4, <2>5, <2>6, <2>7 DEF Apart
<1>2. \/ main' = main
      \/ main \notin {"destroy", "close", "exited"} /\ main' \notin {"destroy", "close", "exited"}
  <2>1. CASE OpenControl \/ DropControl \/ TimeoutCommand \/ DeadConnection \/ ReceiveReply
    BY <2>1, Zenon DEF OpenControl, DropControl, TimeoutCommand, DeadConnection, LoseControl, ReceiveReply
  <2>2. CASE ReceiveAuth \/ LoseAuth \/ LeaveMenu \/ Quit
    BY <2>2, Zenon DEF ReceiveAuth, LoseAuth, LeaveMenu, Quit
  <2>3. CASE \E type \in {"login", "register"} : SendAuth(type)
    BY <2>3, Zenon DEF SendAuth
  <2>4. CASE \E command \in Commands : SendCommand(command)
    BY <2>4, Zenon DEF SendCommand
  <2>5. CASE Server
    BY <2>5, Zenon DEF Server, ServeAuth, ServeCd, ServeRm, ServerDrops
  <2>. QED
    BY <2>1, <2>2, <2>3, <2>4, <2>5, Zenon DEF Apart
<1>3. Main'
    BY <1>1, <1>2, Zenon DEF TransferInv, Main, managerVars
<1>. QED
    BY <1>1, <1>3, ControlInv, Zenon

\* Every step of the program is one of these.
LEMMA ClientSteps ==
    ASSUME Next
    PROVE  \/ Apart \/ client_runtime_destroy \/ DrainEvents \/ Wakeup
           \/ \E t \in Tasks : SubmitTransfer(t) \/ Worker(t)
    BY Zenon DEF Next, UserStep, MainStep, Apart

\* The inductive step over all of the program's actions.
LEMMA TransferNextInv ==
    ASSUME TransferInv, [Next]_vars
    PROVE  TransferInv'
<1>1. CASE Apart
    BY <1>1, ApartInv, Zenon
<1>2. CASE client_runtime_destroy
    BY <1>2, DestroyInv, Zenon
<1>3. CASE DrainEvents
  <2>1. /\ UNCHANGED <<stopping, active, active_count, waiter, taskVars, fdVars, control_fd>>
        /\ events' = <<>> /\ main = "loop" /\ main' = "prompt"
    BY <1>3, Zenon DEF DrainEvents, transfer_manager_drain_events, runtimeVars
  <2>2. Main'
    BY <2>1, Zenon DEF TransferInv, Main
  <2>. QED
    BY <2>1, <2>2, ManagerCallInv, Zenon DEF TransferInv, TransferTypeOK, Stop
<1>4. CASE Wakeup
  <2>1. /\ UNCHANGED <<stopping, active, active_count, events, taskVars, fdVars, control_fd, main>>
        /\ waiter = "waiting" /\ waiter' = "woken"
    BY <1>4, Zenon DEF Wakeup, SpuriousWakeup, runtimeVars
  <2>2. Main'
    BY <2>1, Zenon DEF TransferInv, Main
  <2>. QED
    BY <2>1, <2>2, ManagerCallInv, Zenon
<1>5. ASSUME NEW t \in Tasks, SubmitTransfer(t) PROVE TransferInv'
  <2>1. main = "prompt" /\ main' = "loop" /\ UNCHANGED control_fd
    BY <1>5, Zenon DEF SubmitTransfer, runtimeVars
  <2>2. CASE start_task(t)
    BY <2>1, <2>2, StartTaskInv
  <2>3. CASE UNCHANGED transferVars
    <3>1. Main'
      BY <2>1, <2>3, Zenon DEF TransferInv, Main, transferVars, managerVars
    <3>. QED
      BY <2>1, <2>3, <3>1, ControlInv, Zenon DEF transferVars
  <2>. QED
    BY <1>5, <2>2, <2>3, Zenon DEF SubmitTransfer
<1>6. ASSUME NEW t \in Tasks, Worker(t) PROVE TransferInv'
  <2>1. transfer_worker(t) /\ UNCHANGED <<main, control_fd>>
    BY <1>6, Zenon DEF Worker, runtimeVars
  <2>. QED
    BY <2>1, OpenSocketInv, PublishInv, UnpublishInv, CloseSocketInv, FixResultInv, FinishTaskInv,
       FreeTaskInv DEF transfer_worker
<1>7. CASE UNCHANGED vars
  <2>1. UNCHANGED <<managerVars, taskVars, fdVars, control_fd, main>>
    BY <1>7, Zenon DEF vars, transferVars, runtimeVars
  <2>2. Main'
    BY <2>1, Zenon DEF TransferInv, Main, managerVars
  <2>. QED
    BY <2>1, <2>2, ControlInv, Zenon
<1>. QED
    BY <1>1, <1>2, <1>3, <1>4, <1>5, <1>6, <1>7, ClientSteps

\* The invariant holds throughout.
LEMMA TransferInvariant == Spec => []TransferInv
    BY TransferInitInv, TransferNextInv, PTL DEF Spec

-----------------------------------------------------------------------------
(* The theorems.                                                           *)

\* transfer_manager_stop walks a list of tasks that are all alive, and the manager is
\* destroyed only when no thread uses it, for any number of transfers.
THEOREM TransfersOutliveNothing == Spec => []NoTouchAfterFree
<1>1. TransferInv => NoTouchAfterFree
    BY DEF TransferInv, TransferTypeOK, Lives, Stop, NoTouchAfterFree, OnList, Places
<1>. QED
    BY <1>1, TransferInvariant, PTL

\* transfer_manager_stop shuts down the tasks' own sockets only, however descriptors are
\* reused, and leaves none published that is not shut down.
THEOREM StopReachesEverySocket == Spec => []SocketsUnderControl
<1>1. TransferInv => SocketsUnderControl
  <2>1. SUFFICES ASSUME TransferInv, NEW t \in Tasks, socket_fd[t] # NoFd
                 PROVE  /\ owner[socket_fd[t]] = t
                        /\ stopping => canceled[t] /\ socket_fd[t] \in shut
    BY Zenon DEF SocketsUnderControl
  <2>2. step[t] = "running" /\ socket_fd[t] = fd[t] /\ t \in active /\ fd[t] # NoFd
    BY <2>1, Zenon DEF TransferInv, Lives, OnList
  <2>. QED
    BY <2>1, <2>2, Zenon DEF TransferInv, Owned, Stop
<1>. QED
    BY <1>1, TransferInvariant, PTL

-----------------------------------------------------------------------------
(* The manager implements the service.                                     *)

Reported ==
    {t \in Tasks : step[t] \in {"unlinked", "freed"} /\ \A i \in DOMAIN events : events[i].task # t}

State == IF waiter = "destroyed" THEN "closed" ELSE IF stopping THEN "closing" ELSE "open"

\* A step that changes none of what the service shows.
LEMMA Unseen ==
    ASSUME active' = active, events' = events, Reported' = Reported, State' = State
    PROVE  [Service!ServiceNext]_(Service!serviceVars)
    BY Zenon DEF Service!serviceVars, Reported, State

\* The steps of a task's thread that the service does not show.
LEMMA PrivateStep ==
    ASSUME TransferInv, NEW t \in Tasks,
           \/ OpenSocket(t) \/ task_publish_socket(t) \/ task_close_socket(t) \/ CloseSocket(t)
           \/ FixResult(t) \/ FreeTask(t)
    PROVE  [Service!ServiceNext]_(Service!serviceVars)
<1>1. UNCHANGED <<active, events, waiter, stopping>>
    BY Zenon DEF OpenSocket, task_publish_socket, task_close_socket, CloseSocket, FixResult, FreeTask,
           managerVars
<1>2. \A u \in Tasks : step'[u] \in {"unlinked", "freed"} <=> step[u] \in {"unlinked", "freed"}
    BY Zenon DEF OpenSocket, task_publish_socket, task_close_socket, CloseSocket, FixResult, FreeTask,
           GoTo, TransferInv, TransferTypeOK
<1>3. Reported' = Reported
    BY <1>1, <1>2, Zenon DEF Reported
<1>. QED
    BY <1>1, <1>3, Unseen, Zenon DEF State

\* A task's end is the end of its transfer.
LEMMA FinishIsEnd ==
    ASSUME TransferInv, NEW t \in Tasks, FinishTask(t)
    PROVE  Service!End(t, result[t]) /\ result[t] \in Results
<1>1. /\ step[t] = "reporting" /\ step' = [step EXCEPT ![t] = "unlinked"]
      /\ active' = active \ {t} /\ UNCHANGED stopping
      /\ events' = Append(events, [task |-> t, result |-> result[t]])
    BY Zenon DEF FinishTask, GoTo
<1>2. t \in active /\ result[t] \in Results
    BY <1>1, Zenon DEF TransferInv, TransferTypeOK, Lives, OnList
<1>3. waiter # "destroyed" /\ waiter' # "destroyed"
    BY <1>2, Zenon DEF FinishTask, Wake, TransferInv, Stop
<1>4. State' = State /\ (result[t] = "canceled" => State = "closing")
    BY <1>1, <1>3, Zenon DEF State, TransferInv, Stop
<1>. DEFINE E == [task : Tasks, result : Results]
            e == [task |-> t, result |-> result[t]]
<1>5. e \in E /\ e.task = t /\ events \in Seq(E) /\ events' = Append(events, e)
    BY <1>1, <1>2, Zenon DEF TransferInv, TransferTypeOK
<1>. HIDE DEF E, e
<1>6. /\ DOMAIN events' = 1 .. Len(events) + 1 /\ DOMAIN events = 1 .. Len(events)
      /\ Len(events) \in Nat
      /\ \A i \in 1 .. Len(events) : events'[i] = events[i]
      /\ events'[Len(events) + 1] = e
    BY <1>5, AppendProperties, LenProperties, SMTT(30)
<1>7. Reported' = Reported
  <2>1. ASSUME NEW u \in Tasks PROVE u \in Reported' <=> u \in Reported
    <3>1. CASE u = t
      <4>1. Len(events) + 1 \in DOMAIN events' /\ events'[Len(events) + 1].task = u
        BY <1>5, <1>6, <3>1
      <4>. QED
        BY <1>1, <3>1, <4>1, Zenon DEF Reported
    <3>2. CASE u # t
      <4>1. step'[u] = step[u]
        BY <1>1, <3>2, Zenon DEF TransferInv, TransferTypeOK
      <4>2. (\A i \in DOMAIN events' : events'[i].task # u) <=> \A i \in DOMAIN events : events[i].task # u
        <5>1. \A i \in DOMAIN events' : i \in DOMAIN events \/ i = Len(events) + 1
          BY <1>6
        <5>2. DOMAIN events \subseteq DOMAIN events'
          BY <1>6
        <5>. QED
          BY <1>5, <1>6, <3>2, <5>1, <5>2
      <4>. QED
        BY <4>1, <4>2, Zenon DEF Reported
    <3>. QED
      BY <3>1, <3>2, Zenon
  <2>. QED
    BY <2>1, Zenon DEF Reported
<1>. QED
    BY <1>1, <1>2, <1>4, <1>7, Zenon DEF Service!End, Reported, State

\* A task's start is an acceptance.
LEMMA StartIsAccept ==
    ASSUME TransferInv, NEW t \in Tasks, start_task(t)
    PROVE  Service!Accept(t)
<1>1. /\ step[t] = "none" /\ ~stopping /\ step' = [step EXCEPT ![t] = "opening"]
      /\ active_count < MaxConcurrent /\ ~TargetBusy(t) /\ active' = active \cup {t}
      /\ UNCHANGED <<stopping, events, waiter>>
    BY Zenon DEF start_task, GoTo
<1>2. State = "open" /\ State' = State
    BY <1>1, Zenon DEF State, TransferInv, Stop
<1>3. t \notin active /\ t \notin Reported /\ t \notin Service!TasksIn(events)
    BY <1>1, Zenon DEF TransferInv, Lives, OnList, Reported, Queued, Service!TasksIn
<1>4. Cardinality(active) < MaxConcurrent
    BY <1>1, Zenon DEF TransferInv, TransferTypeOK
<1>5. TargetOf[t] # NoTarget => \A u \in active : TargetOf[u] # TargetOf[t]
    BY <1>1, Zenon DEF TargetBusy
<1>6. Reported' = Reported
    BY <1>1, Zenon DEF Reported, TransferInv, TransferTypeOK
<1>7. t \notin active \cup Service!TasksIn(events) \cup Reported
    BY <1>3, Zenon
<1>8. State = "open" /\ active' = active \cup {t} /\ UNCHANGED <<events, Reported, State>>
    BY <1>1, <1>2, <1>6, Zenon
<1>9. Service!Cardinality(active) < MaxConcurrent
    BY <1>4, Zenon DEF Service!Cardinality, Cardinality
<1>. QED
    BY <1>5, <1>7, <1>8, <1>9, Zenon DEF Service!Accept, Reported, State

\* The main thread's last calls are the service's.
LEMMA CallsAreService ==
    ASSUME TransferInv, UNCHANGED <<active, step>>,
           \/ StopTasks /\ main = "stop"
           \/ transfer_manager_drain_events /\ main \in {"loop", "stop"}
           \/ transfer_manager_destroy /\ main = "destroy"
    PROVE  Service!ServiceNext
<1>1. CASE StopTasks
  <2>1. UNCHANGED events /\ State = "open" /\ State' = "closing" /\ Reported' = Reported
    BY <1>1, Zenon DEF StopTasks, State, Reported
  <2>2. Service!BeginClose
    BY <2>1, Zenon DEF Service!BeginClose, State, Reported
  <2>. QED
    BY <2>2, Zenon DEF Service!ServiceNext
<1>2. CASE transfer_manager_drain_events /\ main \in {"loop", "stop"}
  <2>1. events' = <<>> /\ UNCHANGED <<waiter, stopping>> /\ waiter # "destroyed"
    BY <1>2, Zenon DEF transfer_manager_drain_events, TransferInv, Main
  <2>2. State' = State /\ State # "closed"
    BY <2>1, Zenon DEF State
  <2>3. DOMAIN events' = {}
    BY <2>1
  <2>4. Reported' = Reported \cup Service!TasksIn(events)
    <3>1. \A u \in Service!TasksIn(events) : u \in Tasks /\ step[u] \in {"unlinked", "freed"}
      <4>. DEFINE E == [task : Tasks, result : Results]
      <4>1. events \in Seq(E)
        BY Zenon DEF TransferInv, TransferTypeOK
      <4>. HIDE DEF E
      <4>2. \A i \in DOMAIN events : events[i] \in E
        BY <4>1, LenProperties, ElementOfSeq, Zenon
      <4>3. \A i \in DOMAIN events : events[i].task \in Tasks
        BY <4>2, Zenon DEF E
      <4>. QED
        BY <4>3, Zenon DEF Service!TasksIn, TransferInv, Queued
    <3>2. Reported' = {u \in Tasks : step[u] \in {"unlinked", "freed"}}
      BY <2>3, Zenon DEF Reported
    <3>. QED
      BY <3>1, <3>2, Zenon DEF Reported, Service!TasksIn
  <2>5. Service!ReportAll
    BY <2>1, <2>2, <2>4, Zenon DEF Service!ReportAll, Reported, State
  <2>. QED
    BY <2>5, Zenon DEF Service!ServiceNext
<1>3. CASE transfer_manager_destroy /\ main = "destroy"
  <2>1. /\ events' = <<>> /\ events = <<>> /\ waiter = "returned" /\ waiter' = "destroyed"
        /\ stopping /\ active = {}
    BY <1>3, Zenon DEF transfer_manager_destroy, TransferInv, Main, Stop
  <2>2. State = "closing" /\ State' = "closed" /\ Reported' = Reported
    BY <2>1, Zenon DEF State, Reported
  <2>3. Service!Close
    BY <2>1, <2>2, Zenon DEF Service!Close, Reported, State
  <2>. QED
    BY <2>3, Zenon DEF Service!ServiceNext
<1>. QED
    BY <1>1, <1>2, <1>3, Zenon

\* Every step of the program is a step of the service, or none of its business.
LEMMA ClientStepSimulates ==
    ASSUME TransferInv, [Next]_vars
    PROVE  [Service!ServiceNext]_(Service!serviceVars)
<1>1. ASSUME UNCHANGED <<stopping, active, events, step>>, State' = State
      PROVE  [Service!ServiceNext]_(Service!serviceVars)
    BY <1>1, Unseen, Zenon DEF Reported
<1>2. CASE Apart
  <2>1. UNCHANGED <<stopping, active, events, waiter, step>>
    BY <1>2, ApartInv, Zenon DEF managerVars, taskVars
  <2>. QED
    BY <1>1, <2>1, Zenon DEF State
<1>3. CASE client_runtime_destroy
  <2>1. CASE StopTransfers /\ StopTasks
    BY <2>1, CallsAreService, Zenon DEF StopTransfers, StopTasks
  <2>2. CASE StopTransfers /\ Recheck
    BY <1>1, <2>2, Zenon DEF Recheck, State, taskVars
  <2>3. CASE LastEvents
    BY <2>3, CallsAreService, Zenon DEF LastEvents, transfer_manager_drain_events, taskVars
  <2>4. CASE DestroyManager
    BY <2>4, CallsAreService, Zenon DEF DestroyManager, transfer_manager_destroy, taskVars
  <2>5. CASE CloseControl
    BY <1>1, <2>5, Zenon DEF CloseControl, State, managerVars, taskVars
  <2>. QED
    BY <1>3, <2>1, <2>2, <2>3, <2>4, <2>5, Zenon DEF client_runtime_destroy, StopTransfers
<1>4. CASE DrainEvents
    BY <1>4, CallsAreService, Zenon DEF DrainEvents, transfer_manager_drain_events, taskVars
<1>5. CASE Wakeup
    BY <1>1, <1>5, Zenon DEF Wakeup, SpuriousWakeup, State, taskVars
<1>6. ASSUME NEW t \in Tasks, SubmitTransfer(t)
      PROVE  [Service!ServiceNext]_(Service!serviceVars)
  <2>1. CASE start_task(t)
    BY <2>1, StartIsAccept, Zenon DEF Service!ServiceNext
  <2>2. CASE UNCHANGED transferVars
    BY <1>1, <2>2, Zenon DEF State, transferVars, managerVars, taskVars
  <2>. QED
    BY <1>6, <2>1, <2>2, Zenon DEF SubmitTransfer
<1>7. ASSUME NEW t \in Tasks, Worker(t)
      PROVE  [Service!ServiceNext]_(Service!serviceVars)
  <2>1. CASE FinishTask(t)
    BY <2>1, FinishIsEnd, Zenon DEF Service!ServiceNext, Results
  <2>2. CASE ~FinishTask(t)
    BY <1>7, <2>2, PrivateStep, Zenon DEF Worker, transfer_worker
  <2>. QED
    BY <2>1, <2>2, Zenon
<1>8. CASE UNCHANGED vars
    BY <1>1, <1>8, Zenon DEF vars, transferVars, managerVars, taskVars, State
<1>. QED
    BY <1>2, <1>3, <1>4, <1>5, <1>6, <1>7, <1>8, ClientSteps

\* transfer.c implements the service for any number of transfers, any limit and any
\* targets: within the limit and one per target, each accepted transfer ends once and is
\* reported once, cancelled only by the stop, with nothing left when it is destroyed.
THEOREM ManagerIsService == Spec => ImplementsTransfers
<1>1. Init => Service!ServiceInit
  <2>1. SUFFICES ASSUME Init PROVE Service!ServiceInit
    BY Zenon
  <2>2. Reported = {} /\ State = "open" /\ active = {} /\ events = <<>>
    BY <2>1, Zenon DEF Init, TransferInit, Reported, State
  <2>. QED
    BY <2>2, Zenon DEF Service!ServiceInit, Reported, State
<1>. QED
    BY <1>1, TransferInvariant, ClientStepSimulates, PTL
       DEF Spec, ImplementsTransfers, Service!ServiceSpec

-----------------------------------------------------------------------------
(* The mirror of the remote directory.  Under way on the control           *)
(* connection is at most one request or its answer, and which one it is    *)
(* follows from where the main thread is.                                  *)

\* A login or registration, or its answer.
AuthUnderWay ==
    \/ /\ requests = <<Request(pending.type, NoSession, NoArg)>> /\ replies = <<>>
       /\ pending.type \in {"login", "register"}
    \/ /\ requests = <<>>
       /\ \E r : /\ replies = <<r>>
                 /\ pending.type = "login" /\ r.type = "ack" => r.id = srv.id /\ srv.cwd = RootDir

\* A short command, or its answer.
CommandUnderWay ==
    /\ pending \in Commands
    /\ \/ /\ requests = <<Request(pending.type, session_id, pending.arg)>> /\ replies = <<>>
          /\ remote_cwd = srv.cwd
       \/ /\ requests = <<>>
          /\ \E r : /\ replies = <<r>> /\ r.id = session_id
                    /\ IF pending.type = "cd" /\ r.type = "ack" THEN r.text = srv.cwd
                       ELSE remote_cwd = srv.cwd

Conversation ==
    /\ main \in {"menu", "auth"} => trail = <<>>
    /\ main = "menu" => requests = <<>> /\ replies = <<>>
    /\ main = "auth" => AuthUnderWay
    /\ main \in {"loop", "prompt", "command"} => session_id = srv.id /\ Leads(trail, srv.cwd)
    /\ main \in {"loop", "prompt"} =>
          requests = <<>> /\ replies = <<>> /\ remote_cwd = srv.cwd
    /\ main = "command" => CommandUnderWay

MirrorInv ==
    /\ main = "connect" => requests = <<>> /\ replies = <<>> /\ trail = <<>>
    /\ srv = [open |-> srv.open, id |-> srv.id, cwd |-> srv.cwd] /\ srv.open \in BOOLEAN
    /\ srv.open /\ doubled = 0 => Conversation

CdTrail(arg) == (IF arg.absolute \/ arg.tokens = <<>> THEN <<>> ELSE trail) \o arg.tokens

\* What handle_cd makes of the session's directory is where all its cds lead.
LEMMA CdLeads ==
    ASSUME Leads(trail, srv.cwd), NEW arg \in Args
    PROVE  Leads(CdTrail(arg), CdTarget(arg))
<1>1. arg.tokens \in Seq(Token) /\ arg.absolute \in BOOLEAN
    BY ClientAssumption, Zenon DEF Token
<1>2. <<>> \o arg.tokens = arg.tokens
    BY <1>1
<1>3. CASE arg.tokens = <<>> /\ ~arg.absolute
    BY <1>2, <1>3, RootLeads, Zenon DEF CdTarget, CdTrail
<1>4. CASE arg.absolute
  <2>1. Leads(<<>> \o arg.tokens, TakeTokens(<<>> \o arg.tokens))
    BY <1>1, RootLeads, TokensLead, Zenon DEF RootDir
  <2>2. CdTarget(arg) = TakeTokens(arg.tokens)
    BY <1>4, Zenon DEF CdTarget, normalize_cd_path
  <2>. QED
    BY <1>2, <1>4, <2>1, <2>2, Zenon DEF CdTrail
<1>5. CASE ~arg.absolute /\ arg.tokens # <<>>
  <2>1. Leads(trail \o arg.tokens, TakeTokens(srv.cwd \o arg.tokens))
    BY <1>1, TokensLead, Zenon
  <2>2. CdTarget(arg) = TakeTokens(srv.cwd \o arg.tokens)
    BY <1>5, Zenon DEF CdTarget, normalize_cd_path
  <2>. QED
    BY <1>5, <2>1, <2>2, Zenon DEF CdTrail
<1>. QED
    BY <1>1, <1>3, <1>4, <1>5, Zenon

\* A cd has its argument.
LEMMA CommandTypes ==
    ASSUME NEW command \in Commands
    PROVE  command.type \in {"cd", "rm"} /\ (command.type = "cd" => command.arg \in Args)
BY DEF Commands

\* A channel with one packet.
LEMMA OnePacket ==
    ASSUME NEW p
    PROVE  /\ Append(<<>>, p) = <<p>> /\ <<p>> # <<>> /\ Head(<<p>>) = p /\ Tail(<<p>>) = <<>>
           /\ \A r : <<p>> = <<r>> => p = r
OBVIOUS

\* A step of something else.
LEMMA MirrorElsewhere ==
    ASSUME MirrorInv, UNCHANGED <<main, runtimeVars, pending, serverVars>>
    PROVE  MirrorInv'
<1>1. UNCHANGED <<main, session_id, remote_cwd, pending, srv, requests, replies, trail, doubled>>
    BY Zenon DEF runtimeVars, serverVars
<1>2. AuthUnderWay' = AuthUnderWay
    BY <1>1, Zenon DEF AuthUnderWay
<1>3. CommandUnderWay' = CommandUnderWay
    BY <1>1, Zenon DEF CommandUnderWay
<1>4. Leads(trail, srv.cwd)' = Leads(trail, srv.cwd)
    BY <1>1, Zenon
<1>5. Conversation => Conversation'
    BY <1>1, <1>2, <1>3, <1>4, Zenon DEF Conversation
<1>. QED
    BY <1>1, <1>5, Zenon DEF MirrorInv

\* The main thread goes where it has nothing to do with the connection any more.
LEMMA MirrorAway ==
    ASSUME MirrorInv, main' \in {"drop", "stop", "destroy", "close", "exited"},
           srv' = srv
    PROVE  MirrorInv'
<1>1. Conversation'
    BY Zenon DEF Conversation
<1>. QED
    BY <1>1, Zenon DEF MirrorInv

\* A closed connection says nothing.
LEMMA MirrorClosed ==
    ASSUME client_runtime_disconnect_control
    PROVE  MirrorInv'
<1>1. /\ srv' = [open |-> FALSE, id |-> NoSession, cwd |-> RootDir]
      /\ requests' = <<>> /\ replies' = <<>> /\ trail' = <<>>
    BY Zenon DEF client_runtime_disconnect_control, NoConnection
<1>. QED
    BY <1>1, Zenon DEF MirrorInv

\* A new one, neither.
LEMMA OpenControlMirror ==
    ASSUME MirrorInv, OpenControl
    PROVE  MirrorInv'
<1>1. CASE main' = "stop"
    BY <1>1, MirrorAway, Zenon DEF OpenControl
<1>2. CASE main' = "menu"
  <2>1. /\ srv' = [open |-> TRUE, id |-> NoSession, cwd |-> RootDir]
        /\ requests' = <<>> /\ replies' = <<>> /\ trail' = <<>>
    BY <1>2, Zenon DEF OpenControl, NoConnection, MirrorInv
  <2>2. Conversation'
    BY <1>2, <2>1, Zenon DEF Conversation
  <2>. QED
    BY <1>2, <2>1, <2>2, Zenon DEF MirrorInv
<1>. QED
    BY <1>1, <1>2, Zenon DEF OpenControl

\* A login or registration is sent.
LEMMA SendAuthMirror ==
    ASSUME MirrorInv, NEW type \in {"login", "register"}, SendAuth(type)
    PROVE  MirrorInv'
<1>1. /\ main = "menu" /\ main' = "auth" /\ pending' = [type |-> type]
      /\ requests' = Append(requests, Request(type, NoSession, NoArg))
      /\ UNCHANGED <<srv, replies, trail, doubled>>
    BY Zenon DEF SendAuth
<1>2. ASSUME srv.open, doubled = 0
      PROVE  Conversation'
  <2>1. requests = <<>> /\ replies = <<>> /\ trail = <<>>
    BY <1>1, <1>2, Zenon DEF MirrorInv, Conversation
  <2>2. requests' = <<Request(type, NoSession, NoArg)>> /\ pending'.type = type
    BY <1>1, <2>1, OnePacket, Zenon
  <2>3. AuthUnderWay'
    BY <1>1, <2>1, <2>2, Zenon DEF AuthUnderWay
  <2>. QED
    BY <1>1, <2>1, <2>3, Zenon DEF Conversation
<1>. QED
    BY <1>1, <1>2, Zenon DEF MirrorInv

\* Its answer begins a session at the root, or does not.
LEMMA ReceiveAuthMirror ==
    ASSUME MirrorInv, ReceiveAuth
    PROVE  MirrorInv'
<1>. DEFINE reply == Head(replies)
            accepted == pending.type = "login" /\ reply.type = "ack" /\ reply.id # NoSession
<1>1. /\ main = "auth" /\ replies # <<>> /\ replies' = Tail(replies)
      /\ main' = IF accepted THEN "loop" ELSE "menu"
      /\ accepted => session_id' = reply.id /\ remote_cwd' = RootDir
      /\ UNCHANGED <<srv, requests, trail, doubled>>
    BY Zenon DEF ReceiveAuth
<1>2. ASSUME srv.open, doubled = 0
      PROVE  Conversation'
  <2>1. trail = <<>> /\ AuthUnderWay
    BY <1>1, <1>2, Zenon DEF MirrorInv, Conversation
  <2>2. PICK r : /\ replies = <<r>> /\ requests = <<>>
                 /\ pending.type = "login" /\ r.type = "ack" => r.id = srv.id /\ srv.cwd = RootDir
    BY <1>1, <2>1, Zenon DEF AuthUnderWay
  <2>3. reply = r /\ replies' = <<>>
    BY <1>1, <2>2, OnePacket, Zenon
  <2>. HIDE DEF reply
  <2>4. CASE accepted
    <3>1. Leads(trail, srv.cwd)'
      BY <1>1, <2>1, <2>2, <2>3, <2>4, RootLeads, Zenon
    <3>. QED
      BY <1>1, <2>2, <2>3, <2>4, <3>1, Zenon DEF Conversation
  <2>5. CASE ~accepted
    BY <1>1, <2>1, <2>2, <2>3, <2>5 DEF Conversation
  <2>. QED
    BY <2>4, <2>5, Zenon
<1>3. main' \in {"loop", "menu"}
    BY <1>1, Zenon
<1>. QED
    BY <1>1, <1>2, <1>3, Zenon DEF MirrorInv

\* The command loop goes round without a word to the server.
LEMMA LoopMirror ==
    ASSUME MirrorInv, main \in {"loop", "prompt"}, main' \in {"loop", "prompt"},
           UNCHANGED <<runtimeVars, serverVars>>
    PROVE  MirrorInv'
<1>1. UNCHANGED <<session_id, remote_cwd, srv, requests, replies, trail, doubled>>
    BY Zenon DEF runtimeVars, serverVars
<1>2. Leads(trail, srv.cwd)' = Leads(trail, srv.cwd)
    BY <1>1, Zenon
<1>3. Conversation => Conversation'
    BY <1>1, <1>2, Zenon DEF Conversation
<1>. QED
    BY <1>1, <1>3, Zenon DEF MirrorInv

\* A command is sent when nothing is under way, unless rm has answered twice.
LEMMA SendCommandMirror ==
    ASSUME MirrorInv, doubled \in Nat, NEW command \in Commands, SendCommand(command)
    PROVE  MirrorInv'
<1>. DEFINE request == Request(command.type, session_id, command.arg)
<1>1. /\ main = "prompt" /\ main' = "command" /\ pending' = command
      /\ requests' = IF srv.open THEN Append(requests, request) ELSE requests
      /\ UNCHANGED <<session_id, remote_cwd, srv, replies, trail>>
      /\ doubled' = IF doubled = 0 THEN 0 ELSE doubled + 1
    BY Zenon DEF SendCommand, runtimeVars
<1>2. ASSUME srv.open, doubled = 0
      PROVE  Conversation'
  <2>1. /\ requests = <<>> /\ replies = <<>> /\ remote_cwd = srv.cwd
        /\ session_id = srv.id /\ Leads(trail, srv.cwd)
    BY <1>1, <1>2, Zenon DEF MirrorInv, Conversation
  <2>2. requests' = <<request>>
    BY <1>1, <1>2, <2>1, OnePacket, Zenon
  <2>3. pending' \in Commands /\ Commands' = Commands
    BY <1>1, Zenon DEF Commands
  <2>4. requests' = <<Request(pending.type, session_id, pending.arg)>>'
    BY <1>1, <2>2, Zenon
  <2>. HIDE DEF request
  <2>5. CommandUnderWay'
    BY <1>1, <2>1, <2>3, <2>4, Zenon DEF CommandUnderWay
  <2>6. Leads(trail, srv.cwd)'
    BY <1>1, <2>1, Zenon
  <2>. QED
    BY <1>1, <2>1, <2>5, <2>6 DEF Conversation
<1>3. doubled' = 0 => doubled = 0
    BY <1>1
<1>. QED
    BY <1>1, <1>2, <1>3, Zenon DEF MirrorInv

\* Its answer changes the mirror as the command changed the session.
LEMMA ReceiveReplyMirror ==
    ASSUME MirrorInv, ReceiveReply
    PROVE  MirrorInv'
<1>. DEFINE reply == Head(replies)
<1>1. CASE LoseControl
    BY <1>1, MirrorClosed, Zenon DEF LoseControl
<1>2. CASE ~LoseControl
  <2>1. /\ main = "command" /\ main' = "loop" /\ replies # <<>> /\ replies' = Tail(replies)
        /\ remote_cwd' = IF reply.id = session_id /\ reply.type = "ack" /\ pending.type = "cd"
                         THEN reply.text ELSE remote_cwd
        /\ UNCHANGED <<session_id, srv, requests, trail, doubled>>
    BY <1>2, Zenon DEF ReceiveReply
  <2>2. ASSUME srv.open, doubled = 0
        PROVE  Conversation'
    <3>1. CommandUnderWay /\ session_id = srv.id /\ Leads(trail, srv.cwd)
      BY <2>1, <2>2, Zenon DEF MirrorInv, Conversation
    <3>2. PICK r : /\ requests = <<>> /\ replies = <<r>> /\ r.id = session_id
                   /\ IF pending.type = "cd" /\ r.type = "ack" THEN r.text = srv.cwd
                      ELSE remote_cwd = srv.cwd
      BY <2>1, <3>1, Zenon DEF CommandUnderWay
    <3>3. reply = r /\ replies' = <<>>
      BY <2>1, <3>2, OnePacket, Zenon
    <3>4. remote_cwd' = srv.cwd
      BY <2>1, <3>2, <3>3, Zenon
    <3>5. Leads(trail, srv.cwd)'
      BY <2>1, <3>1, Zenon
    <3>. QED
      BY <2>1, <3>1, <3>2, <3>3, <3>4, <3>5, Zenon DEF Conversation
  <2>. QED
    BY <2>1, <2>2, Zenon DEF MirrorInv
<1>. QED
    BY <1>1, <1>2, Zenon

\* The server serves a login or registration only when it is the one that is waited for.
LEMMA ServeAuthMirror ==
    ASSUME MirrorInv, ServeAuth
    PROVE  MirrorInv'
<1>1. /\ srv.open /\ requests # <<>> /\ Head(requests).type \in {"login", "register"}
      /\ requests' = Tail(requests) /\ UNCHANGED <<main, pending, trail, doubled>>
      /\ session_id' = session_id /\ remote_cwd' = remote_cwd
    BY Zenon DEF ServeAuth, Serves, runtimeVars
<1>2. srv = [open |-> TRUE, id |-> srv.id, cwd |-> srv.cwd]
    BY <1>1, Zenon DEF MirrorInv
<1>. DEFINE Answered(r) ==
                /\ replies' = Append(replies, r)
                /\ srv' = [open |-> TRUE, id |-> srv'.id, cwd |-> srv'.cwd]
                /\ \/ srv'.id = r.id /\ srv'.cwd = RootDir
                   \/ r.type = "error" \/ Head(requests).type = "register"
<1>3. \E r : Answered(r)
  <2>1. ASSUME srv' = [srv EXCEPT !.id = sessions', !.cwd = RootDir],
               replies' = Append(replies, Reply("ack", sessions', NoPath))
        PROVE  Answered(Reply("ack", sessions', NoPath))
    <3>1. srv' = [open |-> TRUE, id |-> sessions', cwd |-> RootDir]
      <4>1. PICK id, cwd : srv = [open |-> TRUE, id |-> id, cwd |-> cwd]
        BY <1>2, Zenon
      <4>. QED
        BY <2>1, <4>1, Zenon
    <3>. QED
      BY <2>1, <3>1, Zenon DEF Reply
  <2>2. ASSUME srv' = srv, replies' = Append(replies, Reply("error", NoSession, NoPath))
        PROVE  Answered(Reply("error", NoSession, NoPath))
    BY <1>2, <2>2, Zenon DEF Reply
  <2>3. ASSUME srv' = srv, replies' = Append(replies, Reply("ack", NoSession, NoPath)),
               Head(requests).type = "register"
        PROVE  Answered(Reply("ack", NoSession, NoPath))
    BY <1>2, <2>3, Zenon DEF Reply
  <2>. HIDE DEF Answered
  <2>. QED
    BY <2>1, <2>2, <2>3, Zenon DEF ServeAuth, Serves
<1>4. PICK r : Answered(r)
    BY <1>3, Zenon
<1>5. /\ replies' = Append(replies, r)
      /\ srv' = [open |-> TRUE, id |-> srv'.id, cwd |-> srv'.cwd] /\ srv'.open = TRUE
      /\ \/ srv'.id = r.id /\ srv'.cwd = RootDir
         \/ r.type = "error" \/ Head(requests).type = "register"
    BY <1>4
<1>. HIDE DEF Answered
<1>6. ASSUME doubled = 0
      PROVE  Conversation'
  <2>1. Conversation
    BY <1>1, <1>6, Zenon DEF MirrorInv
  <2>2. main \notin {"menu", "loop", "prompt"}
    BY <1>1, <2>1, Zenon DEF Conversation
  <2>3. main # "command"
    <3>. SUFFICES ASSUME main = "command" PROVE FALSE
      BY Zenon
    <3>1. requests = <<Request(pending.type, session_id, pending.arg)>> /\ pending \in Commands
      BY <1>1, <2>1, Zenon DEF Conversation, CommandUnderWay
    <3>2. Head(requests).type = pending.type
      BY <3>1, OnePacket DEF Request
    <3>. QED
      BY <1>1, <3>1, <3>2, CommandTypes
  <2>4. ASSUME main = "auth"
        PROVE  trail' = <<>> /\ AuthUnderWay'
    <3>1. /\ requests = <<Request(pending.type, NoSession, NoArg)>> /\ replies = <<>>
          /\ trail = <<>>
      BY <1>1, <2>1, <2>4, Zenon DEF Conversation, AuthUnderWay
    <3>2. Head(requests).type = pending.type /\ Tail(requests) = <<>> /\ replies' = <<r>>
      BY <1>5, <3>1, OnePacket DEF Request
    <3>3. pending'.type = "login" /\ r.type = "ack" => r.id = srv'.id /\ srv'.cwd = RootDir
      BY <1>1, <1>5, <3>2, Zenon
    <3>. QED
      BY <1>1, <3>1, <3>2, <3>3, Zenon DEF AuthUnderWay
  <2>. QED
    BY <1>1, <2>2, <2>3, <2>4, Zenon DEF Conversation
<1>7. main # "connect"
    BY <1>1, Zenon DEF MirrorInv
<1>. QED
    BY <1>1, <1>5, <1>6, <1>7, Zenon DEF MirrorInv

\* Whoever is served a command waits for it, with the session that is served.
LEMMA CommandServed ==
    ASSUME MirrorInv, doubled = 0, srv.open, requests # <<>>, Head(requests).type \in {"cd", "rm"},
           main \notin {"drop", "stop", "destroy", "close", "exited"}
    PROVE  /\ main = "command" \/ main \notin {"menu", "auth", "loop", "prompt", "command", "connect"}
           /\ main = "command" =>
                 /\ replies = <<>> /\ Tail(requests) = <<>> /\ pending \in Commands
                 /\ Head(requests) = Request(pending.type, session_id, pending.arg)
                 /\ session_id = srv.id /\ remote_cwd = srv.cwd /\ Leads(trail, srv.cwd)
<1>1. Conversation
    BY Zenon DEF MirrorInv
<1>2. main \notin {"menu", "loop", "prompt", "connect"}
    BY <1>1, Zenon DEF Conversation, MirrorInv
<1>3. main # "auth"
  <2>. SUFFICES ASSUME main = "auth" PROVE FALSE
    BY Zenon
  <2>1. /\ requests = <<Request(pending.type, NoSession, NoArg)>>
        /\ pending.type \in {"login", "register"}
    BY <1>1, Zenon DEF Conversation, AuthUnderWay
  <2>2. Head(requests).type = pending.type
    BY <2>1, OnePacket DEF Request
  <2>. QED
    BY <2>1, <2>2, Zenon
<1>4. ASSUME main = "command"
      PROVE  /\ replies = <<>> /\ Tail(requests) = <<>> /\ pending \in Commands
             /\ Head(requests) = Request(pending.type, session_id, pending.arg)
             /\ session_id = srv.id /\ remote_cwd = srv.cwd /\ Leads(trail, srv.cwd)
  <2>1. CommandUnderWay /\ session_id = srv.id /\ Leads(trail, srv.cwd)
    BY <1>1, <1>4, Zenon DEF Conversation
  <2>2. /\ pending \in Commands /\ replies = <<>> /\ remote_cwd = srv.cwd
        /\ requests = <<Request(pending.type, session_id, pending.arg)>>
    BY <2>1, Zenon DEF CommandUnderWay
  <2>. QED
    BY <2>1, <2>2, OnePacket, Zenon
<1>. QED
    BY <1>2, <1>3, <1>4, Zenon

\* A command is served and answered: only a cd that succeeds changes the directory.
LEMMA CommandMirror ==
    ASSUME MirrorInv, srv.open, requests # <<>>, Head(requests).type \in {"cd", "rm"},
           requests' = Tail(requests), UNCHANGED <<main, runtimeVars, pending>>, doubled' = doubled,
           NEW r, replies' = Append(replies, r), r.id = srv.id,
           srv' = [open |-> TRUE, id |-> srv.id, cwd |-> srv'.cwd],
           \/ r.type = "error" /\ UNCHANGED <<srv, trail>>
           \/ Head(requests).type = "rm" /\ UNCHANGED <<srv, trail>>
           \/ /\ r.type = "ack" /\ Head(requests).type = "cd" /\ r.text = srv'.cwd
              /\ main = "command" /\ doubled = 0 => Leads(trail', srv'.cwd)
    PROVE  MirrorInv'
<1>1. /\ srv'.open = TRUE /\ srv'.id = srv.id
      /\ session_id' = session_id /\ remote_cwd' = remote_cwd
    BY DEF runtimeVars
<1>2. main' # "connect"
    BY Zenon DEF MirrorInv
<1>3. CASE doubled # 0 \/ main \in {"drop", "stop", "destroy", "close", "exited"}
    BY <1>1, <1>2, <1>3, Zenon DEF MirrorInv, Conversation
<1>4. CASE doubled = 0 /\ main \notin {"drop", "stop", "destroy", "close", "exited"}
  <2>1. main \notin {"menu", "auth", "loop", "prompt"}
    BY <1>4, CommandServed, Zenon
  <2>2. ASSUME main = "command"
        PROVE  session_id' = srv'.id /\ Leads(trail, srv.cwd)' /\ CommandUnderWay'
    <3>1. /\ replies = <<>> /\ Tail(requests) = <<>> /\ pending \in Commands
          /\ Head(requests) = Request(pending.type, session_id, pending.arg)
          /\ session_id = srv.id /\ remote_cwd = srv.cwd /\ Leads(trail, srv.cwd)
      BY <1>4, <2>2, CommandServed, Zenon
    <3>2. Head(requests).type = pending.type /\ replies' = <<r>> /\ requests' = <<>>
      BY <3>1, OnePacket DEF Request
    <3>3. pending' \in Commands'
      BY <3>1, Zenon DEF Commands
    <3>4. IF pending.type = "cd" /\ r.type = "ack" THEN r.text = srv'.cwd
          ELSE remote_cwd' = srv'.cwd
      BY <1>1, <3>1, <3>2, Zenon
    <3>5. CommandUnderWay'
      BY <1>1, <3>1, <3>2, <3>3, <3>4, Zenon DEF CommandUnderWay
    <3>6. Leads(trail, srv.cwd)'
      BY <1>4, <2>2, <3>1, Zenon
    <3>. QED
      BY <1>1, <3>1, <3>5, <3>6, Zenon
  <2>3. Conversation'
    BY <2>1, <2>2, Zenon DEF Conversation
  <2>. QED
    BY <1>1, <1>2, <2>3, Zenon DEF MirrorInv
<1>. QED
    BY <1>3, <1>4, Zenon

\* handle_cd
LEMMA ServeCdMirror ==
    ASSUME MirrorInv, ServeCd
    PROVE  MirrorInv'
<1>. DEFINE arg == Head(requests).arg
            path == CdTarget(arg)
            on == CdTrail(arg)
<1>1. /\ srv.open /\ requests # <<>> /\ Head(requests).type = "cd"
      /\ requests' = Tail(requests) /\ UNCHANGED <<main, runtimeVars, pending, doubled>>
      /\ \/ /\ srv' = [srv EXCEPT !.cwd = path] /\ trail' = on
            /\ replies' = Append(replies, Reply("ack", srv.id, path))
         \/ /\ replies' = Append(replies, Reply("error", srv.id, path))
            /\ UNCHANGED <<srv, trail>>
    BY Zenon DEF ServeCd, Serves, CdTrail
<1>2. srv = [open |-> TRUE, id |-> srv.id, cwd |-> srv.cwd]
    BY <1>1, Zenon DEF MirrorInv
<1>3. ASSUME main = "command", doubled = 0
      PROVE  Leads(on, path)
  <2>1. /\ pending \in Commands /\ Leads(trail, srv.cwd)
        /\ Head(requests) = Request(pending.type, session_id, pending.arg)
    BY <1>1, <1>3, CommandServed, Zenon
  <2>2. arg \in Args
    BY <1>1, <2>1, CommandTypes DEF Request
  <2>. HIDE DEF arg
  <2>. QED
    BY <2>1, <2>2, CdLeads, Zenon
<1>. HIDE DEF arg, path, on
<1>4. CASE srv' = [srv EXCEPT !.cwd = path] /\ trail' = on
           /\ replies' = Append(replies, Reply("ack", srv.id, path))
  <2>1. srv' = [open |-> TRUE, id |-> srv.id, cwd |-> path]
    <3>1. PICK id, cwd : srv = [open |-> TRUE, id |-> id, cwd |-> cwd]
      BY <1>2, Zenon
    <3>. QED
      BY <1>4, <3>1, Zenon
  <2>2. srv'.cwd = path
    BY <2>1, Zenon
  <2>. DEFINE r == Reply("ack", srv.id, path)
  <2>3. r.id = srv.id /\ r.type = "ack" /\ r.text = srv'.cwd
    BY <2>2, Zenon DEF Reply
  <2>4. srv' = [open |-> TRUE, id |-> srv.id, cwd |-> srv'.cwd]
    BY <2>1, <2>2, Zenon
  <2>5. main = "command" /\ doubled = 0 => Leads(trail', srv'.cwd)
    BY <1>3, <1>4, <2>2, Zenon
  <2>. HIDE DEF r
  <2>. QED
    BY <1>1, <1>4, <2>3, <2>4, <2>5, CommandMirror, Zenon DEF r
<1>5. CASE replies' = Append(replies, Reply("error", srv.id, path)) /\ UNCHANGED <<srv, trail>>
  <2>. DEFINE r == Reply("error", srv.id, path)
  <2>1. r.id = srv.id /\ r.type = "error"
    BY Zenon DEF Reply
  <2>2. srv' = [open |-> TRUE, id |-> srv.id, cwd |-> srv'.cwd]
    BY <1>2, <1>5, Zenon
  <2>. HIDE DEF r
  <2>. QED
    BY <1>1, <1>5, <2>1, <2>2, CommandMirror, Zenon DEF r
<1>. QED
    BY <1>1, <1>4, <1>5, Zenon

\* handle_rm: when it answers twice, what is under way is counted no more.
LEMMA ServeRmMirror ==
    ASSUME MirrorInv, ServeRm
    PROVE  MirrorInv'
<1>1. /\ srv.open /\ requests # <<>> /\ Head(requests).type = "rm"
      /\ requests' = Tail(requests) /\ UNCHANGED <<main, runtimeVars, pending, srv, trail>>
      /\ \/ \E r : /\ replies' = Append(replies, r) /\ doubled' = doubled /\ r.id = srv.id
         \/ doubled' # 0
    BY DEF ServeRm, Serves, Reply
<1>2. srv = [open |-> TRUE, id |-> srv.id, cwd |-> srv.cwd]
    BY <1>1, Zenon DEF MirrorInv
<1>3. CASE doubled' # 0
  <2>1. main' # "connect"
    BY <1>1, Zenon DEF MirrorInv
  <2>. QED
    BY <1>1, <1>3, <2>1, Zenon DEF MirrorInv
<1>4. ASSUME NEW r, replies' = Append(replies, r), doubled' = doubled, r.id = srv.id
      PROVE  MirrorInv'
  <2>1. srv' = [open |-> TRUE, id |-> srv.id, cwd |-> srv'.cwd]
    BY <1>1, <1>2, Zenon
  <2>. QED
    BY <1>1, <1>4, <2>1, CommandMirror, Zenon
<1>. QED
    BY <1>1, <1>3, <1>4, Zenon

\* The server is gone, and with it what the mirror should agree with.
LEMMA ServerDropsMirror ==
    ASSUME MirrorInv, ServerDrops
    PROVE  MirrorInv'
<1>1. /\ srv' = [open |-> FALSE, id |-> NoSession, cwd |-> RootDir]
      /\ requests' = <<>> /\ trail' = <<>> /\ main' = main
      /\ replies' \in {replies, <<>>}
    BY Zenon DEF ServerDrops, NoConnection
<1>2. main' = "connect" => replies' = <<>>
    BY <1>1, Zenon DEF MirrorInv
<1>. QED
    BY <1>1, <1>2, Zenon DEF MirrorInv

\* There is no connection at first.
LEMMA MirrorInit == Init => MirrorInv
<1>. SUFFICES ASSUME Init PROVE MirrorInv
    BY Zenon
<1>1. /\ srv = [open |-> FALSE, id |-> NoSession, cwd |-> RootDir]
      /\ requests = <<>> /\ replies = <<>> /\ trail = <<>>
    BY Zenon DEF Init, NoConnection
<1>. QED
    BY <1>1, Zenon DEF MirrorInv

\* And every step keeps the invariant.
LEMMA MirrorNext == MirrorInv /\ doubled \in Nat /\ [Next]_vars => MirrorInv'
<1>. SUFFICES ASSUME MirrorInv, doubled \in Nat, [Next]_vars PROVE MirrorInv'
    BY Zenon
<1>1. CASE Server
    BY <1>1, ServeAuthMirror, ServeCdMirror, ServeRmMirror, ServerDropsMirror, Zenon DEF Server
<1>2. CASE \/ StopTransfers \/ Wakeup \/ (\E t \in Tasks : Worker(t)) \/ UNCHANGED vars
  <2>1. UNCHANGED <<main, runtimeVars, pending, serverVars>>
    BY <1>2, Zenon DEF StopTransfers, Wakeup, Worker, vars
  <2>. QED
    BY <2>1, MirrorElsewhere, Zenon
<1>3. CASE LeaveMenu \/ LoseAuth \/ Quit \/ LastEvents \/ DestroyManager
  <2>1. main' \in {"drop", "stop", "destroy", "close", "exited"} /\ srv' = srv
    BY <1>3, Zenon DEF LeaveMenu, LoseAuth, Quit, LastEvents, DestroyManager, serverVars
  <2>. QED
    BY <2>1, MirrorAway, Zenon
<1>4. CASE DropControl \/ DeadConnection \/ TimeoutCommand \/ CloseControl
  <2>1. client_runtime_disconnect_control
    BY <1>4, Zenon DEF DropControl, DeadConnection, TimeoutCommand, CloseControl, LoseControl
  <2>. QED
    BY <2>1, MirrorClosed, Zenon
<1>5. CASE DrainEvents \/ \E t \in Tasks : SubmitTransfer(t)
  <2>1. /\ main \in {"loop", "prompt"} /\ main' \in {"loop", "prompt"}
        /\ UNCHANGED <<runtimeVars, serverVars>>
    BY <1>5, Zenon DEF DrainEvents, SubmitTransfer
  <2>. QED
    BY <2>1, LoopMirror, Zenon
<1>6. CASE \/ OpenControl \/ ReceiveAuth \/ ReceiveReply
           \/ (\E type \in {"login", "register"} : SendAuth(type))
           \/ (\E command \in Commands : SendCommand(command))
    BY <1>6, OpenControlMirror, ReceiveAuthMirror, ReceiveReplyMirror, SendAuthMirror,
       SendCommandMirror
<1>. QED
    BY <1>1, <1>2, <1>3, <1>4, <1>5, <1>6 DEF Next, UserStep, MainStep, client_runtime_destroy

-----------------------------------------------------------------------------
(* The session, which also holds when rm has answered twice and answers    *)
(* are taken for those of other commands: what is under way is then any    *)
(* number of requests, but all of them are the session's.                  *)

InSession ==
    /\ session_id = srv.id
    /\ Leads(trail, srv.cwd)
    /\ requests \in Seq({Request(c.type, srv.id, c.arg) : c \in Commands})

SessionInv ==
    /\ doubled \in Nat
    /\ main \in {"connect", "menu", "auth"} => doubled = 0
    /\ srv.open /\ main \in {"loop", "prompt", "command"} => InSession

\* What the server finds at the head of its requests, and leaves.
LEMMA RequestServed ==
    ASSUME InSession, requests # <<>>
    PROVE  /\ \E c \in Commands : Head(requests) = Request(c.type, srv.id, c.arg)
           /\ Tail(requests) \in Seq({Request(c.type, srv.id, c.arg) : c \in Commands})
<1>. DEFINE S == {Request(c.type, srv.id, c.arg) : c \in Commands}
<1>1. requests \in Seq(S)
    BY Zenon DEF InSession
<1>. HIDE DEF S
<1>2. Head(requests) \in S /\ Tail(requests) \in Seq(S)
    BY <1>1, HeadTailProperties, Zenon
<1>. QED
    BY <1>2, Zenon DEF S

\* The login's answer begins the session, with no request under way.
LEMMA ReceiveAuthSession ==
    ASSUME MirrorInv, SessionInv, ReceiveAuth
    PROVE  SessionInv'
<1>1. /\ main = "auth" /\ main' \in {"loop", "menu"} /\ UNCHANGED <<srv, doubled>>
    BY Zenon DEF ReceiveAuth
<1>2. doubled' = 0 /\ MirrorInv'
    BY <1>1, ReceiveAuthMirror, Zenon DEF SessionInv
<1>3. ASSUME srv'.open, main' = "loop"
      PROVE  InSession'
  <2>1. Conversation'
    BY <1>2, <1>3, Zenon DEF MirrorInv
  <2>2. session_id' = srv'.id /\ Leads(trail, srv.cwd)' /\ requests' = <<>>
    BY <1>3, <2>1, Zenon DEF Conversation
  <2>. QED
    BY <2>2, EmptySeq, Zenon DEF InSession
<1>. QED
    BY <1>1, <1>2, <1>3 DEF SessionInv

\* A command joins the requests under way.
LEMMA SendCommandSession ==
    ASSUME SessionInv, NEW command \in Commands, SendCommand(command)
    PROVE  SessionInv'
<1>1. /\ main = "prompt" /\ main' = "command" /\ UNCHANGED <<session_id, srv, trail>>
      /\ requests' = IF srv.open THEN Append(requests, Request(command.type, session_id, command.arg))
                     ELSE requests
      /\ doubled' = IF doubled = 0 THEN 0 ELSE doubled + 1
    BY Zenon DEF SendCommand, runtimeVars
<1>2. doubled' \in Nat
    BY <1>1 DEF SessionInv
<1>3. ASSUME srv.open
      PROVE  InSession'
  <2>. DEFINE S == {Request(c.type, srv.id, c.arg) : c \in Commands}
  <2>1. InSession
    BY <1>1, <1>3, Zenon DEF SessionInv
  <2>2. requests \in Seq(S) /\ Request(command.type, session_id, command.arg) \in S
    BY <2>1, Zenon DEF InSession
  <2>3. S' = S
    BY <1>1, Zenon DEF Commands
  <2>4. requests' \in Seq(S)
    <3>. HIDE DEF S
    <3>. QED
      BY <1>1, <1>3, <2>2, AppendProperties, Zenon
  <2>5. session_id' = srv'.id /\ Leads(trail, srv.cwd)'
    BY <1>1, <2>1, Zenon DEF InSession
  <2>. QED
    BY <2>3, <2>4, <2>5, Zenon DEF InSession
<1>. QED
    BY <1>1, <1>2, <1>3, Zenon DEF SessionInv

\* A request of the session is served: the requests that are left are the session's.
LEMMA ServedSession ==
    ASSUME SessionInv, srv.open, requests # <<>>, requests' = Tail(requests),
           main' = main, session_id' = session_id, srv'.id = srv.id,
           doubled' \in Nat, main \in {"connect", "menu", "auth"} => doubled' = 0,
           main \in {"loop", "prompt", "command"} => Leads(trail, srv.cwd)'
    PROVE  SessionInv'
<1>1. ASSUME main \in {"loop", "prompt", "command"}
      PROVE  InSession'
  <2>1. InSession
    BY <1>1, Zenon DEF SessionInv
  <2>2. Tail(requests) \in Seq({Request(c.type, srv.id, c.arg) : c \in Commands})
    BY <2>1, RequestServed, Zenon
  <2>3. requests' \in Seq({Request(c.type, srv.id, c.arg) : c \in Commands})'
    BY <2>2, Zenon DEF Commands
  <2>. QED
    BY <1>1, <2>1, <2>3, Zenon DEF InSession
<1>. QED
    BY <1>1, Zenon DEF SessionInv

\* The server's end: a session's requests are commands, so that none of them is a login.
LEMMA ServerSession ==
    ASSUME MirrorInv, SessionInv, Server
    PROVE  SessionInv'
<1>1. CASE ServerDrops
  <2>1. srv'.open = FALSE /\ UNCHANGED <<main, doubled>>
    BY <1>1, Zenon DEF ServerDrops, NoConnection
  <2>. QED
    BY <2>1, Zenon DEF SessionInv
<1>2. CASE ServeAuth
  <2>1. /\ srv.open /\ requests # <<>> /\ Head(requests).type \in {"login", "register"}
        /\ UNCHANGED <<main, doubled>>
    BY <1>2, Zenon DEF ServeAuth, Serves
  <2>2. main \notin {"loop", "prompt", "command"}
    <3>. SUFFICES ASSUME main \in {"loop", "prompt", "command"} PROVE FALSE
      BY Zenon
    <3>1. PICK c \in Commands : Head(requests) = Request(c.type, srv.id, c.arg)
      BY <2>1, RequestServed, Zenon DEF SessionInv
    <3>2. Head(requests).type = c.type
      BY <3>1 DEF Request
    <3>. QED
      BY <2>1, <3>2, CommandTypes
  <2>. QED
    BY <2>1, <2>2, Zenon DEF SessionInv
<1>3. CASE ServeCd
  <2>. DEFINE arg == Head(requests).arg
  <2>1. /\ srv.open /\ requests # <<>> /\ Head(requests).type = "cd"
        /\ requests' = Tail(requests) /\ UNCHANGED <<main, session_id, doubled>>
        /\ \/ srv' = [srv EXCEPT !.cwd = CdTarget(arg)] /\ trail' = CdTrail(arg)
           \/ UNCHANGED <<srv, trail>>
    BY <1>3, Zenon DEF ServeCd, Serves, CdTrail, runtimeVars
  <2>2. srv = [open |-> srv.open, id |-> srv.id, cwd |-> srv.cwd]
    BY Zenon DEF MirrorInv
  <2>3. ASSUME main \in {"loop", "prompt", "command"}
        PROVE  Leads(CdTrail(arg), CdTarget(arg)) /\ Leads(trail, srv.cwd)
    <3>1. InSession
      BY <2>1, <2>3, Zenon DEF SessionInv
    <3>2. PICK c \in Commands : Head(requests) = Request(c.type, srv.id, c.arg)
      BY <2>1, <3>1, RequestServed, Zenon
    <3>3. c.type = "cd" /\ arg = c.arg
      BY <2>1, <3>2 DEF Request
    <3>4. arg \in Args
      BY <3>3, CommandTypes, Zenon
    <3>. HIDE DEF arg
    <3>. QED
      BY <3>1, <3>4, CdLeads, Zenon DEF InSession
  <2>. HIDE DEF arg
  <2>4. CASE srv' = [srv EXCEPT !.cwd = CdTarget(arg)] /\ trail' = CdTrail(arg)
    <3>1. srv'.id = srv.id /\ srv'.cwd = CdTarget(arg)
      BY <2>2, <2>4
    <3>. QED
      BY <2>1, <2>3, <2>4, <3>1, ServedSession, Zenon DEF SessionInv
  <2>5. CASE UNCHANGED <<srv, trail>>
    BY <2>1, <2>3, <2>5, ServedSession, Zenon DEF SessionInv
  <2>. QED
    BY <2>1, <2>4, <2>5, Zenon
<1>4. CASE ServeRm
  <2>1. /\ srv.open /\ requests # <<>> /\ Head(requests).type = "rm"
        /\ requests' = Tail(requests) /\ UNCHANGED <<main, session_id, srv, trail>>
        /\ doubled' = doubled \/ doubled' = 1
    BY <1>4, Zenon DEF ServeRm, Serves, runtimeVars
  <2>2. doubled' \in Nat
    BY <2>1 DEF SessionInv
  <2>3. main \notin {"connect", "menu", "auth"}
    <3>. SUFFICES ASSUME main \in {"connect", "menu", "auth"} PROVE FALSE
      BY Zenon
    <3>1. doubled = 0
      BY Zenon DEF SessionInv
    <3>. QED
      BY <2>1, <3>1, CommandServed
  <2>4. main \in {"loop", "prompt", "command"} => Leads(trail, srv.cwd)'
    BY <2>1, Zenon DEF SessionInv, InSession
  <2>. QED
    BY <2>1, <2>2, <2>3, <2>4, ServedSession, Zenon
<1>. QED
    BY <1>1, <1>2, <1>3, <1>4, Zenon DEF Server

\* There is no session at first.
LEMMA SessionInit == Init => SessionInv
<1>1. Init => main = "connect" /\ doubled = 0
    BY Zenon DEF Init
<1>. QED
    BY <1>1 DEF SessionInv

\* And every step keeps the session's invariant.
LEMMA SessionNext == MirrorInv /\ SessionInv /\ [Next]_vars => SessionInv'
<1>. SUFFICES ASSUME MirrorInv, SessionInv, [Next]_vars PROVE SessionInv'
    BY Zenon
<1>1. CASE Server
    BY <1>1, ServerSession, Zenon
<1>2. ASSUME main' \in {"drop", "stop", "destroy", "close", "exited"}, doubled' = doubled
      PROVE  SessionInv'
    BY <1>2, Zenon DEF SessionInv
<1>3. ASSUME client_runtime_disconnect_control
      PROVE  SessionInv'
  <2>1. srv'.open = FALSE /\ doubled' = 0 /\ 0 \in Nat
    BY <1>3 DEF client_runtime_disconnect_control, NoConnection
  <2>. QED
    BY <2>1, Zenon DEF SessionInv
<1>4. ASSUME UNCHANGED <<session_id, srv, requests, trail, doubled>>,
             \/ main' = main
             \/ main \in {"loop", "prompt", "command"} /\ main' \in {"loop", "prompt"}
      PROVE  SessionInv'
  <2>1. InSession => InSession'
    BY <1>4, Zenon DEF InSession, Commands
  <2>. QED
    BY <1>4, <2>1, Zenon DEF SessionInv
<1>5. CASE \/ StopTransfers \/ Wakeup \/ (\E t \in Tasks : Worker(t)) \/ UNCHANGED vars
  <2>1. main' = main /\ UNCHANGED <<session_id, srv, requests, trail, doubled>>
    BY <1>5, Zenon DEF StopTransfers, Wakeup, Worker, vars, runtimeVars, serverVars
  <2>. QED
    BY <1>4, <2>1, Zenon
<1>6. CASE LeaveMenu \/ LoseAuth \/ Quit \/ LastEvents \/ DestroyManager
    BY <1>2, <1>6, Zenon DEF LeaveMenu, LoseAuth, Quit, LastEvents, DestroyManager, serverVars
<1>7. CASE DropControl \/ DeadConnection \/ TimeoutCommand \/ CloseControl
    BY <1>3, <1>7, Zenon DEF DropControl, DeadConnection, TimeoutCommand, CloseControl, LoseControl
<1>8. CASE DrainEvents \/ \E t \in Tasks : SubmitTransfer(t)
    BY <1>4, <1>8, Zenon DEF DrainEvents, SubmitTransfer, runtimeVars, serverVars
<1>9. CASE ReceiveReply
  <2>1. CASE LoseControl
    BY <1>3, <2>1, Zenon DEF LoseControl
  <2>2. CASE ~LoseControl
    BY <1>4, <1>9, <2>2, Zenon DEF ReceiveReply
  <2>. QED
    BY <2>1, <2>2, Zenon
<1>10. CASE OpenControl \/ \E type \in {"login", "register"} : SendAuth(type)
  <2>1. main \in {"connect", "menu"} /\ main' \in {"menu", "auth", "stop"} /\ doubled' = doubled
    BY <1>10, Zenon DEF OpenControl, SendAuth
  <2>. QED
    BY <2>1, Zenon DEF SessionInv
<1>11. CASE ReceiveAuth \/ \E command \in Commands : SendCommand(command)
    BY <1>11, ReceiveAuthSession, SendCommandSession, Zenon
<1>. QED
    BY <1>1, <1>5, <1>6, <1>7, <1>8, <1>9, <1>10, <1>11
       DEF Next, UserStep, MainStep, client_runtime_destroy

\* At the prompt of a client whose connection is open the session is the server's and its
\* directory is where the session's cds lead, whatever the arguments and however commands
\* failed, timed out or reconnected (execute_short_command, handle_cd and
\* normalize_cd_path); and the client has that directory, unless rm has answered twice on
\* the connection.
THEOREM MirrorStaysTrue == Spec => []MirrorAgrees
<1>1. MirrorInv /\ SessionInv => MirrorAgrees
    BY LeadsIsReference, Zenon DEF MirrorInv, SessionInv, InSession, Conversation, MirrorAgrees
<1>2. SessionInv => doubled \in Nat
    BY Zenon DEF SessionInv
<1>. QED
    BY <1>1, <1>2, MirrorInit, SessionInit, MirrorNext, SessionNext, PTL DEF Spec
=============================================================================
