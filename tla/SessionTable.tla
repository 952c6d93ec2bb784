---------------------------- MODULE SessionTable ----------------------------
(***************************************************************************)
(* The session table of src/server/session.c: two hash tables, from a      *)
(* session id to a session and from a client fd to its binding, and in     *)
(* each session the list of its bindings with a counter.  One mutex guards *)
(* all of it, so every operation is one step.                              *)
(*                                                                         *)
(* Abstractions: a hash table is a set or a function, a list a set.        *)
(* generate_session_id draws random bytes: the model draws an id never     *)
(* drawn before (a collision with a live session is retried by the code    *)
(* and changes nothing).  An operation that returns -1 leaves the table as *)
(* it was; the guards say when it does not.                                *)
(***************************************************************************)
EXTENDS Naturals, FiniteSets

CONSTANTS
    Fds,         \* client file descriptors
    Ids,         \* session ids
    Dirs,        \* working directories
    Root,        \* the directory "/"
    NoSession    \* an fd that has no binding

ASSUME RootAssumption == Root \in Dirs
ASSUME IdAssumption   == NoSession \notin Ids

VARIABLES
    live,               \* the ids in session_buckets
    issued,             \* history: every id drawn so far
    binding,            \* fd_buckets: the session an fd is bound to
    connections,        \* session->connections
    connection_count,   \* session->connection_count
    cwd                 \* session->cwd

tableVars == <<live, issued, binding, connections, connection_count, cwd>>

TableInit ==
    /\ live = {}
    /\ issued = {}
    /\ binding = [fd \in Fds |-> NoSession]
    /\ connections = [id \in Ids |-> {}]
    /\ connection_count = [id \in Ids |-> 0]
    /\ cwd = [id \in Ids |-> Root]

-----------------------------------------------------------------------------
(* The operations.                                                         *)

session_create_Mutant(fd, id) ==
    /\ id \notin issued
    /\ live' = live \cup {id}
    /\ issued' = issued \cup {id}
    /\ binding' = [binding EXCEPT ![fd] = id]
    /\ connections' = [connections EXCEPT ![id] = {fd}]
    /\ connection_count' = [connection_count EXCEPT ![id] = 1]
    /\ cwd' = [cwd EXCEPT ![id] = Root]

\* A login on an fd that is not bound: a new session with that one connection.
session_create(fd, id) ==
    /\ binding[fd] = NoSession
    /\ id \notin issued
    /\ live' = live \cup {id}
    /\ issued' = issued \cup {id}
    /\ binding' = [binding EXCEPT ![fd] = id]
    /\ connections' = [connections EXCEPT ![id] = {fd}]
    /\ connection_count' = [connection_count EXCEPT ![id] = 1]
    /\ cwd' = [cwd EXCEPT ![id] = Root]

\* session_authorize succeeds for a live session, on an fd bound to it or to none.
MayUse(fd, id) ==
    /\ id \in live
    /\ binding[fd] \in {NoSession, id}

BindNew_Mutant(fd, id) ==
    /\ binding' = [binding EXCEPT ![fd] = id]
    /\ connections' = [connections EXCEPT ![id] = @ \cup {fd}]
    /\ connection_count' = [connection_count EXCEPT ![id] = @ + 1]

\* The fd gets a binding to the session unless it has it.
BindNew(fd, id) ==
    IF binding[fd] = NoSession
    THEN /\ binding' = [binding EXCEPT ![fd] = id]
         /\ connections' = [connections EXCEPT ![id] = @ \cup {fd}]
         /\ connection_count' = [connection_count EXCEPT ![id] = @ + 1]
    ELSE UNCHANGED <<binding, connections, connection_count>>

session_authorize(fd, id) ==
    /\ MayUse(fd, id)
    /\ BindNew(fd, id)
    /\ UNCHANGED <<live, issued, cwd>>

session_update_cwd(fd, id, dir) ==
    /\ id \in live
    /\ binding[fd] = id
    /\ cwd' = [cwd EXCEPT ![id] = dir]
    /\ UNCHANGED <<live, issued, binding, connections, connection_count>>

Survivors_Mutant(id) == live

\* A session whose last connection is detached is freed.
Survivors(id) == IF connection_count[id] = 1 THEN live \ {id} ELSE live

\* Idempotent: an fd with no binding is left alone.
session_detach_fd(fd) ==
    LET id == binding[fd]
    IN  IF id = NoSession
        THEN UNCHANGED tableVars
        ELSE /\ binding' = [binding EXCEPT ![fd] = NoSession]
             /\ connections' = [connections EXCEPT ![id] = @ \ {fd}]
             /\ connection_count' = [connection_count EXCEPT ![id] = @ - 1]
             /\ live' = Survivors(id)
             /\ UNCHANGED <<issued, cwd>>

-----------------------------------------------------------------------------

TableNext ==
    \E fd \in Fds :
        \/ session_detach_fd(fd)
        \/ \E id \in Ids :
            \/ session_create(fd, id)
            \/ session_authorize(fd, id)
            \/ \E dir \in Dirs : session_update_cwd(fd, id, dir)

TableSpec == TableInit /\ [][TableNext]_tableVars

-----------------------------------------------------------------------------
(* Properties.                                                             *)

\* The variables have their types.
TableTypeOK ==
    /\ live \subseteq Ids
    /\ issued \subseteq Ids
    /\ binding \in [Fds -> Ids \cup {NoSession}]
    /\ connections \in [Ids -> SUBSET Fds]
    /\ connection_count \in [Ids -> Nat]
    /\ cwd \in [Ids -> Dirs]

\* The fd index and the sessions' connection lists describe the same bindings, so an
\* fd is in at most one session's list.
IndexesAgree ==
    \A fd \in Fds : \A id \in Ids : fd \in connections[id] <=> binding[fd] = id

\* connection_count is the number of connections, and never underflows.
CountExact ==
    \A id \in Ids :
        IsFiniteSet(connections[id]) /\ connection_count[id] = Cardinality(connections[id])

\* A session is in the table exactly while it has a connection: none leaks with no
\* connection left, and no binding points to a freed session.
LiveIffBound ==
    \A id \in Ids : id \in live <=> connections[id] # {}

\* A connection never changes its session in one step: it is detached first.
NoSwitch ==
    [][\A fd \in Fds :
          binding[fd] # NoSession => binding'[fd] \in {binding[fd], NoSession}]_tableVars

=============================================================================
