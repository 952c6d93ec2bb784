-------------------------- MODULE TransferService --------------------------
(***************************************************************************)
(* What the transfer manager promises the client's main thread: transfers  *)
(* run in the background, at most MaxConcurrent of them and one per local  *)
(* target; each one that was accepted ends once and is reported once, in   *)
(* the order they end; only closing the service cancels; and the service   *)
(* is closed when no transfer is left running and none unreported.         *)
(***************************************************************************)
EXTENDS Naturals, Sequences, FiniteSets

CONSTANTS Tasks, TargetOf, NoTarget, MaxConcurrent

VARIABLES
    running,     \* transfers accepted and not ended
    outcomes,    \* how transfers ended that are not reported, in order
    reported,    \* transfers reported
    service      \* "open", "closing" or "closed"

serviceVars == <<running, outcomes, reported, service>>

TasksIn(sequence) == {sequence[i].task : i \in DOMAIN sequence}

ServiceInit ==
    /\ running = {}
    /\ outcomes = <<>>
    /\ reported = {}
    /\ service = "open"

Accept(t) ==
    /\ service = "open"
    /\ t \notin running \cup TasksIn(outcomes) \cup reported
    /\ Cardinality(running) < MaxConcurrent
    /\ TargetOf[t] # NoTarget => \A u \in running : TargetOf[u] # TargetOf[t]
    /\ running' = running \cup {t}
    /\ UNCHANGED <<outcomes, reported, service>>

End(t, result) ==
    /\ t \in running
    /\ result = "canceled" => service = "closing"
    /\ running' = running \ {t}
    /\ outcomes' = Append(outcomes, [task |-> t, result |-> result])
    /\ UNCHANGED <<reported, service>>

ReportAll ==
    /\ service # "closed"
    /\ reported' = reported \cup TasksIn(outcomes)
    /\ outcomes' = <<>>
    /\ UNCHANGED <<running, service>>

BeginClose ==
    /\ service = "open"
    /\ service' = "closing"
    /\ UNCHANGED <<running, outcomes, reported>>

Close ==
    /\ service = "closing"
    /\ running = {} /\ outcomes = <<>>
    /\ service' = "closed"
    /\ UNCHANGED <<running, outcomes, reported>>

ServiceNext ==
    \/ \E t \in Tasks :
          Accept(t) \/ \E result \in {"ok", "failed", "canceled"} : End(t, result)
    \/ ReportAll \/ BeginClose \/ Close

ServiceSpec == ServiceInit /\ [][ServiceNext]_serviceVars
=============================================================================
