---------------------------- MODULE DatabasePool ----------------------------
(***************************************************************************)
(* The pool of database connections (src/server/database_pool.c): an array *)
(* used as a stack, a mutex and the condition variable not_empty.  A step  *)
(* is what a thread does between taking the mutex and giving it up, or one *)
(* use of a connection outside of it.                                      *)
(*                                                                         *)
(* Where a worker is with the pool:                                        *)
(*   idle       not using it                                               *)
(*   waiting    in pthread_cond_wait, until a wake-up makes it             *)
(*   woken      about to test the condition again                          *)
(*   using      it has a connection and runs statements on it              *)
(*   errno      its statement failed, the connection is released, and its  *)
(*              error code not yet read (database_pool_execute)            *)
(***************************************************************************)
EXTENDS Naturals, FiniteSets, WorkerThreads

CONSTANTS
    Connections,      \* those of MySQL; database_pool_create opens PoolSize of them
    PoolSize,
    NoConnection

ASSUME PoolAssumption ==
    /\ PoolSize \in Nat \ {0}
    /\ IsFiniteSet(Connections) /\ Cardinality(Connections) = PoolSize
    /\ NoConnection \notin Connections

VARIABLES
    pool,             \* "creating", "open" or "freed"
    connections,      \* the array
    available,
    db,               \* where each worker is
    conn,             \* the connection a worker's variable conn points to
    handle            \* of each connection: "none", "connected" or "closed"

poolVars == <<pool, connections, available>>
databaseVars == <<poolVars, db, conn, handle>>

Slots == 0 .. PoolSize - 1

DatabaseInit ==
    /\ pool = "creating"
    /\ connections = [i \in Slots |-> NoConnection]
    /\ available = 0
    /\ db = [w \in Workers |-> "idle"]
    /\ conn = [w \in Workers |-> NoConnection]
    /\ handle = [c \in Connections |-> "none"]

-----------------------------------------------------------------------------
(* The main thread.                                                        *)

\* mysql_close of the first connections in the array.
CloseFirst(n) ==
    handle' = [c \in Connections |->
                  IF \E i \in 0 .. n - 1 : connections[i] = c THEN "closed" ELSE handle[c]]

\* mysql_connect_one for every slot; one that fails undoes the others.
database_pool_create ==
    /\ pool = "creating"
    /\ \/ /\ \E c \in {d \in Connections : handle[d] = "none"} :
                /\ connections' = [connections EXCEPT ![available] = c]
                /\ handle' = [handle EXCEPT ![c] = "connected"]
          /\ available' = available + 1
          /\ pool' = IF available' = PoolSize THEN "open" ELSE "creating"
       \/ /\ CloseFirst(available)
          /\ pool' = "freed"
          /\ UNCHANGED <<connections, available>>
    /\ UNCHANGED <<db, conn>>

\* Only the connections in the array are closed.
database_pool_destroy ==
    /\ pool = "open"
    /\ CloseFirst(available)
    /\ pool' = "freed"
    /\ UNCHANGED <<connections, available, db, conn>>

-----------------------------------------------------------------------------
(* The workers.                                                            *)

ConnWaiters == {w \in Workers : db[w] = "waiting"}

\* The slot of connections[--available].
Top == available - 1

database_pool_acquire(w) ==
    /\ db[w] \in {"idle", "woken"}
    /\ \/ /\ available = 0
          /\ db' = [db EXCEPT ![w] = "waiting"]
          /\ UNCHANGED <<connections, available, conn>>
       \/ /\ available # 0
          /\ conn' = [conn EXCEPT ![w] = connections[Top]]
          /\ connections' = [connections EXCEPT ![Top] = NoConnection]
          /\ available' = available - 1
          /\ db' = [db EXCEPT ![w] = "using"]
    /\ UNCHANGED <<pool, handle>>

SignalConnection_Mutant(w, at) == db' = [db EXCEPT ![w] = at]

\* One waiter is woken, if there is one, and w goes on.
SignalConnection(w, at) ==
    \/ \E u \in ConnWaiters : db' = [db EXCEPT ![u] = "woken", ![w] = at]
    \/ ConnWaiters = {} /\ db' = [db EXCEPT ![w] = at]

\* Every call releases what it acquired on every path, after its ROLLBACK or COMMIT; only
\* database_pool_execute keeps the pointer, when its statement has failed.
database_pool_release(w) ==
    /\ db[w] = "using"
    /\ connections' = [connections EXCEPT ![available] = conn[w]]
    /\ available' = available + 1
    /\ \/ SignalConnection(w, "idle") /\ conn' = [conn EXCEPT ![w] = NoConnection]
       \/ SignalConnection(w, "errno") /\ UNCHANGED conn
    /\ UNCHANGED <<pool, handle>>

\* mysql_errno(conn), after the release: the code may be of another thread's statement.
ReadErrno(w) ==
    /\ db[w] = "errno"
    /\ db' = [db EXCEPT ![w] = "idle"]
    /\ conn' = [conn EXCEPT ![w] = NoConnection]
    /\ UNCHANGED <<poolVars, handle>>

DatabaseSpurious ==
    /\ \E w \in ConnWaiters : db' = [db EXCEPT ![w] = "woken"]
    /\ UNCHANGED <<poolVars, conn, handle>>

-----------------------------------------------------------------------------
(* Properties.                                                             *)

Users(c) == {w \in Workers : db[w] = "using" /\ conn[w] = c}
SlotsOf(c) == {i \in Slots : connections[i] = c}

\* Each connection of an open pool is in one place, a slot below available or the hands
\* of one worker, and the slots above are empty.  When the pool is freed none is leaked.
\* A pointer a worker still has, and database_pool_execute still reads after its release,
\* is never to a connection that database_pool_destroy has closed.
ConnsConserved ==
    /\ pool = "open" =>
          /\ \A i \in Slots : connections[i] = NoConnection <=> i >= available
          /\ \A c \in Connections : Cardinality(Users(c)) + Cardinality(SlotsOf(c)) = 1
    /\ pool = "freed" => \A c \in Connections : handle[c] # "connected"
    /\ \A w \in Workers : conn[w] # NoConnection => handle[conn[w]] = "connected"

\* While a worker waits for a connection, every free one has a worker on its way to it.
NoLostConnection ==
    ConnWaiters # {} => available <= Cardinality({w \in Workers : db[w] = "woken"})
=============================================================================
