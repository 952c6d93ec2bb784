------------------------------- MODULE Client -------------------------------
(***************************************************************************)
(* The client program (src/client): the main thread with its control       *)
(* connection, session and mirror of the remote directory (main.c,         *)
(* user_auth.c, command.c, runtime.c), beside the transfers it started     *)
(* (TransferManager), and the server's end of the control connection.      *)
(*                                                                         *)
(* main is where the main thread is:                                       *)
(*   connect     about to open the control connection                      *)
(*   menu        user_auth asks what to do                                 *)
(*   auth        a login or registration waits for its answer              *)
(*   drop        the connection is given up, and not closed yet            *)
(*   loop        the top of the command loop                               *)
(*   prompt      the user is asked for a command                           *)
(*   command     a short command waits for its answer                      *)
(*   stop        client_runtime_destroy, from here on                      *)
(*   exited                                                                *)
(* A command that waits may time out, whatever the server does.  The       *)
(* server's part is one request at a time; ServerLoop has how it gets      *)
(* there.  It may drop the connection at any time (expiry, shutdown).      *)
(***************************************************************************)
EXTENDS TransferManager, PathNormalize

CONSTANTS
    Args,                       \* arguments of cd
    MaxSessions, MaxTrail,      \* bounds: logins, and tokens of a session's cds
    MaxDoubled, MaxDrift        \* bounds: sessions in which rm answers twice, and commands
                                \* sent after that on their connection

ASSUME ClientAssumption ==
    \A a \in Args : a.absolute \in BOOLEAN /\ a.tokens \in Seq(STRING)

NoPath == <<"no path">>
FileName == <<"file name">>     \* what rm answers with
NoSession == 0
NoCommand == [type |-> "none"]
NoArg == [absolute |-> FALSE, tokens |-> <<>>]
NoConnection == [open |-> FALSE, id |-> NoSession, cwd |-> RootDir]

VARIABLES
    main,
    control_fd, session_id, remote_cwd,     \* client_runtime_t
    pending,                                \* the command that waits
    srv,                                    \* the server's end: its session and cwd
    requests, replies,                      \* packets under way
    trail, doubled,                         \* history: the tokens of the session's cds; 0, or
                                            \* one more than the commands sent on this connection
                                            \* since rm answered twice
    sessions                                \* how many there were

runtimeVars == <<control_fd, session_id, remote_cwd>>
serverVars == <<srv, requests, replies, trail, doubled, sessions>>
vars == <<transferVars, main, runtimeVars, pending, serverVars>>

Init ==
    /\ TransferInit
    /\ main = "connect"
    /\ control_fd = NoFd /\ session_id = NoSession /\ remote_cwd = NoPath
    /\ pending = NoCommand
    /\ srv = NoConnection
    /\ requests = <<>> /\ replies = <<>>
    /\ trail = <<>> /\ doubled = 0
    /\ sessions = 0

-----------------------------------------------------------------------------
(* The control connection.                                                 *)

\* client_connection_is_alive: bytes to read, or no end of file.
IsAlive == control_fd # NoFd /\ (srv.open \/ replies # <<>>)

\* client_runtime_disconnect_control; the server drops the session with the connection.
client_runtime_disconnect_control ==
    /\ IF control_fd = NoFd THEN UNCHANGED fdVars ELSE CloseFd(control_fd)
    /\ control_fd' = NoFd
    /\ session_id' = NoSession
    /\ remote_cwd' = NoPath
    /\ srv' = NoConnection
    /\ requests' = <<>> /\ replies' = <<>>
    /\ trail' = <<>> /\ doubled' = 0
    /\ UNCHANGED sessions

\* connect_control, when the old connection is closed.
OpenControl ==
    /\ main = "connect"
    /\ \/ /\ \E f \in Fds : OpenFd(f, Control) /\ control_fd' = f
          /\ srv' = [NoConnection EXCEPT !.open = TRUE]
          /\ main' = "menu"
       \/ main' = "stop" /\ UNCHANGED <<control_fd, srv, fdVars>>
    /\ UNCHANGED <<managerVars, taskVars, session_id, remote_cwd, pending, requests,
                   replies, trail, doubled, sessions>>

\* connect_control closes the old connection first.
DropControl ==
    /\ main = "drop"
    /\ client_runtime_disconnect_control
    /\ main' = "connect"
    /\ pending' = NoCommand
    /\ UNCHANGED <<managerVars, taskVars>>

-----------------------------------------------------------------------------
(* user_auth.                                                              *)

Request(type, id, arg) == [type |-> type, id |-> id, arg |-> arg]

\* user_login forgets the session; user_register does not.
SendAuth(type) ==
    /\ main = "menu" /\ IsAlive
    /\ requests' = Append(requests, Request(type, NoSession, NoArg))
    /\ pending' = [type |-> type]
    /\ IF type = "login" THEN session_id' = NoSession /\ remote_cwd' = NoPath
       ELSE UNCHANGED <<session_id, remote_cwd>>
    /\ main' = "auth"
    /\ UNCHANGED <<transferVars, control_fd, srv, replies, trail, doubled, sessions>>

\* The menu's exit, or a connection that is gone.
LeaveMenu ==
    /\ main = "menu"
    /\ main' \in {"stop"} \cup (IF IsAlive THEN {} ELSE {"drop"})
    /\ UNCHANGED <<transferVars, runtimeVars, pending, serverVars>>

ReceiveAuth ==
    /\ main = "auth" /\ replies # <<>>
    /\ LET reply == Head(replies)
           accepted == pending.type = "login" /\ reply.type = "ack" /\ reply.id # NoSession
       IN  /\ main' = IF accepted THEN "loop" ELSE "menu"
           /\ IF accepted THEN session_id' = reply.id /\ remote_cwd' = RootDir
              ELSE UNCHANGED <<session_id, remote_cwd>>
    /\ replies' = Tail(replies)
    /\ pending' = NoCommand
    /\ UNCHANGED <<transferVars, control_fd, srv, requests, trail, doubled,
                   sessions>>

\* The answer does not come in time, or the connection ends.
LoseAuth ==
    /\ main = "auth"
    /\ main' = "drop"
    /\ UNCHANGED <<transferVars, runtimeVars, pending, serverVars>>

-----------------------------------------------------------------------------
(* The command loop.                                                       *)

DrainEvents ==
    /\ main = "loop"
    /\ transfer_manager_drain_events
    /\ main' = "prompt"
    /\ UNCHANGED <<runtimeVars, pending, serverVars>>

\* puts and gets; a transfer that is refused is only reported to the user.
SubmitTransfer(t) ==
    /\ main = "prompt" /\ IsAlive
    /\ start_task(t) \/ UNCHANGED transferVars
    /\ main' = "loop"
    /\ UNCHANGED <<runtimeVars, pending, serverVars>>

\* quit, or the end of the input.
Quit ==
    /\ main = "prompt"
    /\ main' = "stop"
    /\ UNCHANGED <<transferVars, runtimeVars, pending, serverVars>>

\* The client knows nothing of a second answer, and goes on.
SendCommand(command) ==
    /\ main = "prompt" /\ IsAlive
    /\ doubled <= MaxDrift
    /\ command.type = "cd" => Len(trail) + Len(command.arg.tokens) <= MaxTrail
    /\ pending' = command
    /\ requests' = IF srv.open THEN Append(requests, Request(command.type, session_id, command.arg))
                   ELSE requests
    /\ main' = "command"
    /\ doubled' = IF doubled = 0 THEN 0 ELSE doubled + 1
    /\ UNCHANGED <<transferVars, runtimeVars, srv, replies, trail, sessions>>

\* control_connection_lost: the session goes with the connection.
LoseControl ==
    /\ client_runtime_disconnect_control
    /\ main' = "connect"
    /\ pending' = NoCommand
    /\ UNCHANGED <<managerVars, taskVars>>

DeadConnection == main = "prompt" /\ ~IsAlive /\ LoseControl

TimeoutCommand_Mutant ==
    /\ main = "command"
    /\ main' = "loop"
    /\ UNCHANGED <<transferVars, runtimeVars, pending, serverVars>>

TimeoutCommand == main = "command" /\ LoseControl

\* execute_short_command's answer.  One for another session is an error and no more.
ReceiveReply ==
    /\ main = "command" /\ replies # <<>>
    /\ LET reply == Head(replies)
       IN  IF reply.id = session_id /\ reply.type = "unauthorized"
           THEN LoseControl
           ELSE /\ remote_cwd' = IF /\ reply.id = session_id
                                    /\ reply.type = "ack" /\ pending.type = "cd"
                                 THEN reply.text ELSE remote_cwd
                /\ replies' = Tail(replies)
                /\ main' = "loop"
                /\ pending' = NoCommand
                /\ UNCHANGED <<transferVars, control_fd, session_id, srv, requests,
                               trail, doubled, sessions>>

-----------------------------------------------------------------------------
(* The server's end.                                                       *)

Reply(type, id, text) == [type |-> type, id |-> id, text |-> text]

Serves(type) == srv.open /\ requests # <<>> /\ Head(requests).type = type

\* handle_login creates a session; handle_register leaves the connection anonymous.
ServeAuth ==
    /\ \/ /\ Serves("login") /\ sessions < MaxSessions
          /\ sessions' = sessions + 1
          /\ srv' = [srv EXCEPT !.id = sessions', !.cwd = RootDir]
          /\ replies' = Append(replies, Reply("ack", sessions', NoPath))
       \/ /\ Serves("login") \/ Serves("register")
          /\ replies' = Append(replies, Reply("error", NoSession, NoPath))
          /\ UNCHANGED <<srv, sessions>>
       \/ /\ Serves("register")
          /\ replies' = Append(replies, Reply("ack", NoSession, NoPath))
          /\ UNCHANGED <<srv, sessions>>
    /\ requests' = Tail(requests)
    /\ UNCHANGED <<transferVars, main, runtimeVars, pending, trail, doubled>>

\* handle_client_event turns away a request that does not carry the connection's session.
Authorized == Head(requests).id = srv.id /\ srv.id # NoSession

CdTarget(arg) == IF arg.tokens = <<>> /\ ~arg.absolute THEN RootDir
                 ELSE normalize_cd_path(srv.cwd, arg)

\* handle_cd changes the session before it answers; there may be no such directory.
ServeCd ==
    /\ Serves("cd") /\ Authorized
    /\ LET arg == Head(requests).arg
           path == CdTarget(arg)
       IN  \/ /\ srv' = [srv EXCEPT !.cwd = path]
              /\ trail' = (IF arg.absolute \/ arg.tokens = <<>> THEN <<>> ELSE trail) \o arg.tokens
              /\ replies' = Append(replies, Reply("ack", srv.id, path))
           \/ replies' = Append(replies, Reply("error", srv.id, path)) /\ UNCHANGED <<srv, trail>>
    /\ requests' = Tail(requests)
    /\ UNCHANGED <<transferVars, main, runtimeVars, pending, doubled, sessions>>

\* handle_rm answers a second time when the stored file could not be unlinked (once per
\* connection and in the first sessions, bounds).
ServeRm ==
    /\ Serves("rm") /\ Authorized
    /\ LET done == Reply("ack", srv.id, FileName)
           failed == Reply("error", srv.id, FileName)
       IN  \/ \E reply \in {done, failed} : replies' = Append(replies, reply) /\ UNCHANGED doubled
           \/ doubled = 0 /\ srv.id <= MaxDoubled
              /\ replies' = replies \o <<failed, done>> /\ doubled' = 1
    /\ requests' = Tail(requests)
    /\ UNCHANGED <<transferVars, main, runtimeVars, pending, srv, trail, sessions>>

\* Expiry, a failed send, a shutdown or a crash; an answer under way may arrive or not.
ServerDrops ==
    /\ srv.open
    /\ srv' = NoConnection
    /\ requests' = <<>>
    /\ replies' \in {replies, <<>>}
    /\ trail' = <<>>
    /\ UNCHANGED <<transferVars, main, runtimeVars, pending, doubled, sessions>>

Server == ServeAuth \/ ServeCd \/ ServeRm \/ ServerDrops

-----------------------------------------------------------------------------
(* client_runtime_destroy.                                                 *)

StopTransfers ==
    /\ main = "stop"
    /\ StopTasks \/ Recheck
    /\ UNCHANGED <<main, runtimeVars, pending, serverVars>>

LastEvents ==
    /\ main = "stop" /\ waiter = "returned"
    /\ transfer_manager_drain_events
    /\ main' = "destroy"
    /\ UNCHANGED <<runtimeVars, pending, serverVars>>

DestroyManager ==
    /\ main = "destroy"
    /\ transfer_manager_destroy
    /\ main' = "close"
    /\ UNCHANGED <<runtimeVars, pending, serverVars>>

CloseControl ==
    /\ main = "close"
    /\ client_runtime_disconnect_control
    /\ main' = "exited"
    /\ UNCHANGED <<managerVars, taskVars, pending>>

client_runtime_destroy == StopTransfers \/ LastEvents \/ DestroyManager \/ CloseControl

-----------------------------------------------------------------------------

Commands == [type : {"cd"}, arg : Args] \cup {[type |-> "rm", arg |-> NoArg]}

UserStep ==
    \/ \E type \in {"login", "register"} : SendAuth(type)
    \/ LeaveMenu \/ Quit \/ DeadConnection
    \/ \E t \in Tasks : SubmitTransfer(t)
    \/ \E command \in Commands : SendCommand(command)

MainStep ==
    \/ OpenControl \/ DropControl \/ ReceiveAuth \/ LoseAuth \/ DrainEvents
    \/ TimeoutCommand \/ ReceiveReply \/ client_runtime_destroy

\* A thread of the manager touches nothing of the main thread's.
Worker(t) ==
    /\ transfer_worker(t)
    /\ UNCHANGED <<main, runtimeVars, pending, serverVars>>

Wakeup ==
    /\ SpuriousWakeup
    /\ UNCHANGED <<main, runtimeVars, pending, serverVars>>

Next == UserStep \/ MainStep \/ Server \/ Wakeup \/ \E t \in Tasks : Worker(t)

\* Threads are scheduled, and every wait of theirs has a timeout; a user need not type.
Spec ==
    /\ Init /\ [][Next]_vars
    /\ WF_vars(MainStep)
    /\ \A t \in Tasks : WF_vars(Worker(t))

-----------------------------------------------------------------------------
(* Properties.                                                             *)

\* At the prompt the client's session is the server's, and the session's directory is where
\* its cds lead, taken together: however commands fail, time out or reconnect
\* (execute_short_command).  The client's remote_cwd is that directory, unless rm has
\* answered twice on the connection (handle_rm); a new connection heals that.
MirrorAgrees ==
    main = "prompt" /\ srv.open =>
        /\ session_id = srv.id
        /\ doubled = 0 => remote_cwd = srv.cwd
        /\ LeadsTo(trail, srv.cwd)

\* Once the user leaves, the process ends, whatever the transfers are doing: the last
\* thread to finish wakes transfer_manager_stop, and none is left to wait for.
ExitCompletes == main = "stop" ~> main = "exited"
=============================================================================
