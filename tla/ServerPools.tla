---------------------------- MODULE ServerPools ----------------------------
(***************************************************************************)
(* The server process around its two pools: main (src/server/main.c) from  *)
(* its start-up, any step of which may fail, to its exit, with the thread  *)
(* pool and the database pool as the tasks use them.  A handler makes some *)
(* calls to the database, one after the other, each of which has at most   *)
(* one connection.  What the loop does while it serves is in ServerLoop.   *)
(***************************************************************************)
EXTENDS ThreadPool, DatabasePool

CONSTANT MaxCalls      \* bound: calls to the database in a task

VARIABLES
    main,              \* "starting", "serving" or "leaving"
    held,              \* what main has created and not destroyed
    todo,              \* what it is about to destroy on its way out, in order
    calls              \* database calls of the task each worker runs

mainVars == <<main, held, todo>>
serverVars == <<vars, databaseVars, mainVars, calls>>

ServerInit ==
    /\ Init
    /\ DatabaseInit
    /\ main = "starting" /\ held = {} /\ todo = <<>>
    /\ calls = [w \in Workers |-> 0]

-----------------------------------------------------------------------------
(* Start-up.                                                               *)

Resources == <<"db", "threads", "sessions", "wheel", "pipe", "timer", "listener", "epoll">>

Cleanup_Mutant ==
    [why \in {"db", "threads", "sessions", "wheel", "pipe", "timer", "listener", "epoll",
              "shutdown"} |->
        <<{"listener", "pipe", "timer", "epoll"}, {"db"}, {"threads"}, {"sessions"}, {"wheel"}>>]

\* What each exit of main destroys, by the step that fails; descriptors are closed together.
Cleanup ==
    [db       |-> <<>>,
     threads  |-> <<{"db"}>>,
     sessions |-> <<{"threads"}, {"db"}>>,
     wheel    |-> <<{"threads"}, {"sessions"}, {"db"}>>,
     pipe     |-> <<{"threads"}, {"sessions"}, {"wheel"}, {"db"}>>,
     timer    |-> <<{"pipe"}, {"threads"}, {"sessions"}, {"wheel"}, {"db"}>>,
     listener |-> <<{"pipe", "timer"}, {"threads"}, {"sessions"}, {"wheel"}, {"db"}>>,
     epoll    |-> <<{"listener", "pipe", "timer"}, {"threads"}, {"sessions"}, {"wheel"}, {"db"}>>,
     shutdown |-> <<{"listener", "pipe", "timer", "epoll"}, {"threads"}, {"sessions"}, {"wheel"},
                    {"db"}>>]

\* The resource to create next, after those before it.
Starting(resource) ==
    /\ main = "starting"
    /\ \E i \in 1 .. Len(Resources) :
          resource = Resources[i] /\ held = {Resources[j] : j \in 1 .. i - 1}

Created(resource) ==
    /\ held' = held \cup {resource}
    /\ main' = IF resource = Resources[Len(Resources)] THEN "serving" ELSE "starting"
    /\ UNCHANGED todo

Leave(why) ==
    /\ main' = "leaving"
    /\ todo' = Cleanup[why]
    /\ UNCHANGED held

StartDatabase ==
    /\ Starting("db")
    /\ database_pool_create
    /\ CASE pool' = "open" -> Created("db")
         [] pool' = "freed" -> Leave("db")
         [] OTHER -> UNCHANGED mainVars
    /\ UNCHANGED <<vars, calls>>

\* thread_pool_create joins the threads it has when one cannot be created.
StartThreads ==
    /\ Starting("threads")
    /\ thread_pool_create \/ JoinWorkers
    /\ CASE caller' = "out" -> Created("threads")
         [] caller' = "done" -> Leave("threads")
         [] OTHER -> UNCHANGED mainVars
    /\ UNCHANGED <<databaseVars, calls>>

\* The session table, the timing wheel and the descriptors.
StartOther(resource) ==
    /\ Starting(resource)
    /\ Created(resource) \/ Leave(resource)
    /\ UNCHANGED <<vars, databaseVars, calls>>

-----------------------------------------------------------------------------

Dispatch ==
    /\ main = "serving"
    /\ CallAdd
    /\ UNCHANGED <<databaseVars, mainVars, calls>>

Add ==
    /\ main = "serving"
    /\ thread_pool_add
    /\ UNCHANGED <<databaseVars, mainVars, calls>>

\* A signal, or an epoll_wait that fails.
Shutdown ==
    /\ main = "serving" /\ caller = "out"
    /\ Leave("shutdown")
    /\ UNCHANGED <<vars, databaseVars, calls>>

Leaving(resources) == main = "leaving" /\ todo # <<>> /\ Head(todo) = resources

Destroyed ==
    /\ held' = held \ Head(todo)
    /\ todo' = Tail(todo)
    /\ UNCHANGED main

StopThreads ==
    /\ Leaving({"threads"})
    /\ \/ thread_pool_destroy /\ UNCHANGED mainVars
       \/ JoinWorkers /\ Destroyed
    /\ UNCHANGED <<databaseVars, calls>>

StopDatabase ==
    /\ Leaving({"db"})
    /\ database_pool_destroy
    /\ Destroyed
    /\ UNCHANGED <<vars, calls>>

StopOther ==
    /\ todo # <<>> /\ Leaving(Head(todo)) /\ Head(todo) \notin {{"threads"}, {"db"}}
    /\ Destroyed
    /\ UNCHANGED <<vars, databaseVars, calls>>

-----------------------------------------------------------------------------
(* The workers.                                                            *)

\* The handler is not in a call to the database.
Outside(w) == db[w] = "idle"

PoolWork(w) ==
    /\ thread_worker(w)
    /\ worker[w] = "running" => Outside(w)
    /\ calls' = [calls EXCEPT ![w] = 0]
    /\ UNCHANGED <<databaseVars, mainVars>>

DatabaseWork(w) ==
    /\ worker[w] = "running"
    /\ \/ /\ Outside(w) => calls[w] < MaxCalls
          /\ database_pool_acquire(w)
          /\ calls' = IF Outside(w) THEN [calls EXCEPT ![w] = @ + 1] ELSE calls
       \/ database_pool_release(w) /\ UNCHANGED calls
       \/ ReadErrno(w) /\ UNCHANGED calls
    /\ UNCHANGED <<vars, mainVars>>

Wakeup ==
    /\ \/ SpuriousWakeup /\ UNCHANGED databaseVars
       \/ DatabaseSpurious /\ UNCHANGED vars
    /\ UNCHANGED <<mainVars, calls>>

-----------------------------------------------------------------------------

Others == {"sessions", "wheel", "pipe", "timer", "listener", "epoll"}

MainStep ==
    \/ StartDatabase \/ StartThreads \/ \E resource \in Others : StartOther(resource)
    \/ Add \/ StopThreads \/ StopDatabase \/ StopOther

WorkerStep(w) == PoolWork(w) \/ DatabaseWork(w)

ServerNext == MainStep \/ Dispatch \/ Shutdown \/ Wakeup \/ \E w \in Workers : WorkerStep(w)

\* Threads are scheduled and statements end; nobody need connect or stop the server.
ServerSpec ==
    /\ ServerInit /\ [][ServerNext]_serverVars
    /\ \A w \in Workers : WF_serverVars(WorkerStep(w))
    /\ WF_serverVars(MainStep)

-----------------------------------------------------------------------------
(* Properties.                                                             *)

\* Whichever step of main fails and however the server stops, main destroys all it has
\* created, the pools first drained; and a task that is queued or runs never outlives the
\* session table, the wheel and the database pool it uses.
CleanExit ==
    /\ main = "leaving" /\ todo = <<>> =>
          held = {} /\ \A w \in Workers : worker[w] \in {"none", "exited"}
    /\ (\E w \in Workers : task[w] # NoTask) \/ queue # <<>> =>
          {"db", "sessions", "wheel"} \subseteq held
=============================================================================
