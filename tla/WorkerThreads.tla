--------------------------- MODULE WorkerThreads ---------------------------
(* The threads of the server's pool, which are also the users of its       *)
(* database connections (thread_pool.threads of src/server/thread_pool.c). *)
EXTENDS FiniteSets

CONSTANT Workers

ASSUME WorkersAssumption == IsFiniteSet(Workers) /\ Workers # {}
=============================================================================
