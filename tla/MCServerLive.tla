---------------------------- MODULE MCServerLive ----------------------------
(* The instance of ServerLoop for the liveness run.  One worker and a      *)
(* queue of one task are busy with two connections while the loop waits    *)
(* for room with the task of a third and the fourth has something to say.  *)
EXTENDS ServerLoop, TLC

CONSTANTS f1, f2, f3, f4, s1

\* Four connections that one session has used are idle: one that logged in, and three that
\* came with its id.
LiveInit ==
    /\ live = {s1} /\ issued = {s1}
    /\ binding = [fd \in Fds |-> s1]
    /\ connections = [id \in Ids |-> Fds]
    /\ connection_count = [id \in Ids |-> Cardinality(Fds)]
    /\ cwd = [id \in Ids |-> Root]
    /\ conn = f1 :> 1 @@ f2 :> 2 @@ f3 :> 3 @@ f4 :> 4
    /\ accepted = MaxConns
    /\ bound_by = conn
    /\ input = [fd \in Fds |-> NoRequest]
    /\ hup = {}
    /\ epoll = Fds /\ tracked = Fds
    /\ main = "waiting"
    /\ batch = {} /\ accept_ready = FALSE /\ timer_ready = FALSE
    /\ expiring = {}
    /\ handoff = NoTask
    /\ queue = <<>>
    /\ worker = [w \in Workers |-> Idle]

LiveRequests == [cmd : {"basic", "transfer"}, sid : Ids]

\* f1 and f2 send short commands, f3 a transfer; f1 and f4, which is silent, may hang up.
LivePeers ==
    /\ main # "stopped"
    /\ \/ \E fd \in {f1, f2} : SendRequest(fd, [cmd |-> "basic", sid |-> s1])
       \/ SendRequest(f3, [cmd |-> "transfer", sid |-> s1])
       \/ \E fd \in {f1, f4} : HangUp(fd)

LiveNext == LivePeers \/ LoopStep \/ AddFails \/ ShutDown \/ \E w \in Workers : WorkerStep(w)

LiveSpec == LiveInit /\ [][LiveNext]_vars /\ Fairness
=============================================================================
