----------------------------- MODULE TaskStore -----------------------------
(***************************************************************************)
(* The PostgreSQL tables tasks, workers and task_assignments, and every    *)
(* statement the coordinator and the gateway run on them: the methods of   *)
(* internal/storage/postgres/task_repository.go and the stored functions   *)
(* of migrations/001_initial_schema.up.sql they call.                      *)
(*                                                                         *)
(* A stored function is one transaction and one action here, except        *)
(* fail_task: it SELECTs the row, decides, and UPDATEs it by id with no    *)
(* guard.  Under READ COMMITTED other transactions commit between the two  *)
(* statements, so the SELECT (FailTaskRead) and the rest (FailTask) are    *)
(* separate actions of a database session.                                 *)
(***************************************************************************)
EXTENDS Naturals

CONSTANTS Task,        \* task identifiers, tasks.id
          Worker,      \* worker identifiers, workers.id
          NoWorker,    \* SQL NULL in tasks.worker_id
          Session,     \* database sessions that may be inside fail_task
          MaxRetries   \* tasks.max_retries (3 in the schema)

ASSUME StoreAssumption == NoWorker \notin Worker /\ MaxRetries \in Nat

VARIABLES
  tasks,     \* table tasks: status, worker_id and retry_count of each row
  workers,   \* table workers: status and current_task_count of each row
  open,      \* open[t]: workers with an open task_assignments row for t
  failing    \* failing[s]: what session s read in fail_task, or Idle

storeVars == <<tasks, workers, open, failing>>

Idle == [task |-> "none"]

Status == {"absent", "pending", "assigned", "in_progress", "completed",
           "failed"}

FailRead == [task : Task, worker : Worker, retry : BOOLEAN]

TypeOK ==
  /\ tasks \in [Task -> [status : Status, worker : Worker \cup {NoWorker},
                         retries : Nat]]
  /\ workers \in [Worker -> [status : {"absent", "active", "dead"},
                             count : Nat]]
  /\ open \in [Task -> SUBSET Worker]
  /\ failing \in [Session -> FailRead \cup {Idle}]

Held(t) == tasks[t].status \in {"assigned", "in_progress"}

Init ==
  /\ tasks = [t \in Task |->
                [status |-> "absent", worker |-> NoWorker, retries |-> 0]]
  /\ workers = [w \in Worker |-> [status |-> "absent", count |-> 0]]
  /\ open = [t \in Task |-> {}]
  /\ failing = [s \in Session |-> Idle]

-----------------------------------------------------------------------------
(* Workers table *)

\* INSERT ... ON CONFLICT: a row that exists keeps its count.
CreateWorker(w) ==
  /\ workers' = [workers EXCEPT ![w].status = "active"]
  /\ UNCHANGED <<tasks, open, failing>>

MarkWorkerDead(w) ==
  /\ workers[w].status # "absent"
  /\ workers' = [workers EXCEPT ![w].status = "dead"]
  /\ UNCHANGED <<tasks, open, failing>>

-----------------------------------------------------------------------------
(* Tasks table *)

CreateTask(t) ==
  /\ tasks[t].status = "absent"
  /\ tasks' = [tasks EXCEPT ![t].status = "pending"]
  /\ UNCHANGED <<workers, open, failing>>

CanAssignHeld(t, w) == workers[w].status # "absent"   \* mutant

\* assign_task_to_worker.  The foreign key of task_assignments aborts the
\* transaction when the worker has no row.
CanAssign(t, w) == tasks[t].status = "pending" /\ workers[w].status # "absent"

AssignTaskUncounted(t, w) ==   \* mutant: current_task_count is forgotten
  /\ CanAssign(t, w)
  /\ tasks' = [tasks EXCEPT ![t].status = "assigned", ![t].worker = w]
  /\ open' = [open EXCEPT ![t] = @ \cup {w}]
  /\ UNCHANGED <<workers, failing>>

AssignTask(t, w) ==
  /\ CanAssign(t, w)
  /\ tasks' = [tasks EXCEPT ![t].status = "assigned", ![t].worker = w]
  /\ workers' = [workers EXCEPT ![w].count = @ + 1]
  /\ open' = [open EXCEPT ![t] = @ \cup {w}]
  /\ UNCHANGED failing


\* start_task checks the worker as well as the status.
CanStart(t, w) == tasks[t].status = "assigned" /\ tasks[t].worker = w

StartTask(t, w) ==
  /\ CanStart(t, w)
  /\ tasks' = [tasks EXCEPT ![t].status = "in_progress"]
  /\ UNCHANGED <<workers, open, failing>>

\* UnassignTask leaves the worker's count and the assignment row as they are.
UnassignTask(t) ==
  /\ tasks[t].status = "assigned"
  /\ tasks' = [tasks EXCEPT ![t].status = "pending", ![t].worker = NoWorker]
  /\ UNCHANGED <<workers, open, failing>>

ResetTaskKeepingWorker(t) ==   \* mutant: worker_id is not cleared
  /\ tasks[t].status = "in_progress"
  /\ tasks' = [tasks EXCEPT ![t].status = "pending", ![t].retries = @ + 1]
  /\ UNCHANGED <<workers, open, failing>>

ResetTaskWithinRetries(t) ==   \* mutant: AND retry_count < max_retries
  /\ tasks[t].status = "in_progress" /\ tasks[t].retries < MaxRetries
  /\ tasks' = [tasks EXCEPT ![t].status = "pending", ![t].worker = NoWorker,
                            ![t].retries = @ + 1]
  /\ UNCHANGED <<workers, open, failing>>

\* ResetTaskToPending counts a retry but never compares it with max_retries.
ResetTaskToPending(t) ==
  /\ tasks[t].status = "in_progress"
  /\ tasks' = [tasks EXCEPT ![t].status = "pending", ![t].worker = NoWorker,
                            ![t].retries = @ + 1]
  /\ UNCHANGED <<workers, open, failing>>

ReleaseSlotUnchecked(w) ==   \* mutant: the CHECK constraint is dropped
  workers' = [workers EXCEPT ![w].count = @ - 1]

\* CHECK valid_current_count: a decrement below zero aborts the transaction.
ReleaseSlot(w) ==
  /\ workers[w].count > 0
  /\ workers' = [workers EXCEPT ![w].count = @ - 1]

\* complete_task looks at the status only, never at who reports.
CanComplete(t) ==
  /\ tasks[t].status = "in_progress"
  /\ workers[tasks[t].worker].count > 0

CompleteTask(t) ==
  /\ tasks[t].status = "in_progress"
  /\ ReleaseSlot(tasks[t].worker)
  /\ tasks' = [tasks EXCEPT ![t].status = "completed"]
  /\ open' = [open EXCEPT ![t] = @ \ {tasks[t].worker}]
  /\ UNCHANGED failing

FailTaskReadOffByOne(s, t) ==   \* mutant: compares retry_count + 1
  /\ failing[s] = Idle
  /\ tasks[t].worker # NoWorker
  /\ failing' = [failing EXCEPT ![s] =
                   [task |-> t, worker |-> tasks[t].worker,
                    retry |-> tasks[t].retries + 1 < MaxRetries]]
  /\ UNCHANGED <<tasks, workers, open>>

\* fail_task, the SELECT and the decision taken from what it read.  A row
\* without a worker returns FALSE and changes nothing.
FailTaskRead(s, t) ==
  /\ failing[s] = Idle
  /\ tasks[t].worker # NoWorker
  /\ failing' = [failing EXCEPT ![s] =
                   [task |-> t, worker |-> tasks[t].worker,
                    retry |-> tasks[t].retries < MaxRetries]]
  /\ UNCHANGED <<tasks, workers, open>>

FailTaskGuarded(s) ==   \* mutant: only the UPDATE of tasks gets a guard
  /\ failing[s] # Idle
  /\ LET f == failing[s] IN
     /\ ReleaseSlot(f.worker)
     /\ tasks' = [tasks EXCEPT ![f.task] =
                    IF @.status # "in_progress" THEN @
                    ELSE IF f.retry
                    THEN [status |-> "pending", worker |-> NoWorker,
                          retries |-> @.retries + 1]
                    ELSE [@ EXCEPT !.status = "failed"]]
     /\ open' = [open EXCEPT ![f.task] = @ \ {f.worker}]
  /\ failing' = [failing EXCEPT ![s] = Idle]

\* fail_task, the UPDATEs: by id, whatever the row has become.
FailTask(s) ==
  /\ failing[s] # Idle
  /\ LET f == failing[s] IN
     /\ ReleaseSlot(f.worker)
     /\ tasks' = [tasks EXCEPT ![f.task] =
                    IF f.retry
                    THEN [status |-> "pending", worker |-> NoWorker,
                          retries |-> @.retries + 1]
                    ELSE [@ EXCEPT !.status = "failed"]]
     /\ open' = [open EXCEPT ![f.task] = @ \ {f.worker}]
  /\ failing' = [failing EXCEPT ![s] = Idle]

\* Sessions roll back: the CHECK on current_task_count, a lost connection.
Rollback(S) ==
  /\ failing' = [s \in Session |-> IF s \in S THEN Idle ELSE failing[s]]
  /\ UNCHANGED <<tasks, workers, open>>

-----------------------------------------------------------------------------
Next ==
  \/ \E w \in Worker : CreateWorker(w) \/ MarkWorkerDead(w)
  \/ \E t \in Task :
       \/ CreateTask(t)
       \/ \E w \in Worker : AssignTask(t, w) \/ StartTask(t, w)
       \/ UnassignTask(t)
       \/ ResetTaskToPending(t)
       \/ CompleteTask(t)
       \/ \E s \in Session : FailTaskRead(s, t)
  \/ \E s \in Session : FailTask(s)
  \/ \E S \in SUBSET Session : Rollback(S)

Spec == Init /\ [][Next]_storeVars

-----------------------------------------------------------------------------
(* Properties *)

\* The CHECK constraint valid_status_transitions of table tasks: no statement
\* ever builds a row PostgreSQL would refuse, not even fail_task writing over
\* a row that changed since it was read.
RowsValid ==
  \A t \in Task :
    /\ tasks[t].status \in {"absent", "pending"} => tasks[t].worker = NoWorker
    /\ Held(t) => tasks[t].worker \in Worker

\* The audit trail never loses an attempt in progress: while a worker holds a
\* task, task_assignments has an open row for that pair, although fail_task
\* closes rows by the worker it read and may race with a reassignment.
HeldTaskHasOpenRow == \A t \in Task : Held(t) => tasks[t].worker \in open[t]

\* A task fails for good only once its retries are used up, although
\* fail_task decides on a retry_count it read earlier (001:348-363).
FailedOnlyWhenExhausted ==
  \A t \in Task : tasks[t].status = "failed" => tasks[t].retries >= MaxRetries

\* The worker a task is leased to: TaskLease's variable.
holder == [t \in Task |-> IF Held(t) THEN tasks[t].worker ELSE NoWorker]

Lease == INSTANCE TaskLease

\* No task is ever held by two workers, nor handed from one to another
\* without going back to pending: double assignment is impossible.
LeaseSpec == Lease!Spec
=============================================================================
