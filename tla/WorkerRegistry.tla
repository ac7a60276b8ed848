--------------------------- MODULE WorkerRegistry ---------------------------
(***************************************************************************)
(* The in-memory registry of a coordinator (internal/coordinator/registry/ *)
(* worker_registry.go).  Every method takes the registry's lock and is one *)
(* action.  Heartbeat times are abstracted to what performCleanup does     *)
(* about them: late (suspect) and very late (deleted).                     *)
(***************************************************************************)
EXTENDS Naturals

CONSTANTS Worker,     \* worker identifiers
          Capacity    \* MaxConcurrentTasks of every worker, at least 1

VARIABLE reg          \* the map workers: status and CurrentTaskCount

Unknown == [status |-> "unknown", current |-> 0]   \* no entry in the map

RegistryTypeOK ==
  reg \in [Worker -> [status : {"unknown", "active", "suspect"},
                      current : 0..Capacity]]

Known(w) == reg[w].status # "unknown"

NoWorkers == [w \in Worker |-> Unknown]

\* A known worker is reactivated and keeps its count.
RegisterWorker(w) == reg' = [reg EXCEPT ![w].status = "active"]

\* Rejected when the worker is unknown.
UpdateHeartbeat(w) ==
  /\ reg[w].status = "suspect"
  /\ reg' = [reg EXCEPT ![w].status = "active"]

Available(w) == reg[w].status = "active" /\ reg[w].current < Capacity

\* An error when the worker is unknown or full; nothing changes then.
IncrementTaskCount(w) ==
  reg' = IF Known(w) /\ reg[w].current < Capacity
         THEN [reg EXCEPT ![w].current = @ + 1]
         ELSE reg

DecrementTaskCount(w) ==
  reg' = IF reg[w].current > 0 THEN [reg EXCEPT ![w].current = @ - 1] ELSE reg

MarkWorkerSuspect(w) ==
  reg' = IF Known(w) THEN [reg EXCEPT ![w].status = "suspect"] ELSE reg

\* performCleanup: a late heartbeat, and one late by three timeouts.
SuspectLateWorker(w) ==
  /\ reg[w].status = "active"
  /\ reg' = [reg EXCEPT ![w].status = "suspect"]

RemoveDeadWorker(w) ==
  /\ Known(w)
  /\ reg' = [reg EXCEPT ![w] = Unknown]
=============================================================================
