-------------------------- MODULE TaskStoreProofs --------------------------
(***************************************************************************)
(* Proofs, for any sets of tasks, workers and sessions and any retry       *)
(* limit, that the statements of the task store keep its rows valid, keep  *)
(* the audit trail complete, fail a task only once its retries are used    *)
(* up, and implement TaskLease.                                            *)
(*                                                                         *)
(* None of the invariants but TypeOK is inductive alone: fail_task writes  *)
(* what it decided from an earlier read, so ReadsStillTrue relates every   *)
(* pending write to the row as it is now.                                  *)
(***************************************************************************)
EXTENDS TaskStore, TLAPS

\* What a session read in fail_task and decided not to retry is still
\* exhausted when it writes: retry_count never decreases.
ReadsStillTrue ==
  \A s \in Session :
    failing[s] # Idle /\ ~failing[s].retry
      => tasks[failing[s].task].retries >= MaxRetries

\* The inductive invariant.
StoreInv ==
  /\ TypeOK
  /\ RowsValid
  /\ HeldTaskHasOpenRow
  /\ ReadsStillTrue
  /\ FailedOnlyWhenExhausted

USE StoreAssumption

LEMMA InitStoreInv == Init => StoreInv
  BY DEF Init, StoreInv, TypeOK, RowsValid, HeldTaskHasOpenRow, ReadsStillTrue,
       FailedOnlyWhenExhausted, Held, Status, Idle

\* Only fail_task makes a task failed or removes rows behind a changed task,
\* so every other statement is checked conjunct by conjunct.
LEMMA NextStoreInv == StoreInv /\ [Next]_storeVars => StoreInv'
<1> SUFFICES ASSUME StoreInv, [Next]_storeVars PROVE StoreInv'
  OBVIOUS
<1> USE DEF StoreInv, TypeOK, RowsValid, HeldTaskHasOpenRow, ReadsStillTrue,
     FailedOnlyWhenExhausted, Held, Status
<1>1. ASSUME NEW w \in Worker, CreateWorker(w) PROVE StoreInv'
  BY <1>1 DEF CreateWorker
<1>2. ASSUME NEW w \in Worker, MarkWorkerDead(w) PROVE StoreInv'
  BY <1>2 DEF MarkWorkerDead
<1>3. ASSUME NEW t \in Task, CreateTask(t) PROVE StoreInv'
  BY <1>3 DEF CreateTask, FailRead
<1>4. ASSUME NEW t \in Task, NEW w \in Worker, AssignTask(t, w)
      PROVE StoreInv'
  BY <1>4 DEF AssignTask, CanAssign, FailRead
<1>5. ASSUME NEW t \in Task, NEW w \in Worker, StartTask(t, w)
      PROVE StoreInv'
  BY <1>5 DEF StartTask, CanStart, FailRead
<1>6. ASSUME NEW t \in Task, UnassignTask(t) PROVE StoreInv'
  BY <1>6 DEF UnassignTask, FailRead
<1>7. ASSUME NEW t \in Task, ResetTaskToPending(t) PROVE StoreInv'
  BY <1>7 DEF ResetTaskToPending, FailRead
<1>8. ASSUME NEW t \in Task, CompleteTask(t) PROVE StoreInv'
  BY <1>8 DEF CompleteTask, ReleaseSlot, FailRead
<1>9. ASSUME NEW t \in Task, NEW s \in Session, FailTaskRead(s, t)
      PROVE StoreInv'
  <2> DEFINE f == [task |-> t, worker |-> tasks[t].worker,
                   retry |-> tasks[t].retries < MaxRetries]
  <2>1. f \in FailRead
    BY <1>9 DEF FailTaskRead, FailRead
  <2>2. ~f.retry => tasks[f.task].retries >= MaxRetries
    <3>1. ~(tasks[t].retries < MaxRetries) => tasks[t].retries >= MaxRetries
      OBVIOUS
    <3>2. f.retry = (tasks[t].retries < MaxRetries) /\ f.task = t
      BY Zenon
    <3>3. QED
      BY <3>1, <3>2, Zenon
  <2> HIDE DEF f
  <2>3. failing' = [failing EXCEPT ![s] = f] /\ UNCHANGED <<tasks, workers, open>>
    BY <1>9 DEF FailTaskRead, f
  <2>4. QED
    BY <2>1, <2>2, <2>3
<1>10. ASSUME NEW s \in Session, FailTask(s) PROVE StoreInv'
  <2> DEFINE f == failing[s]
  <2>1. f \in FailRead
    BY <1>10 DEF FailTask
  <2>2. TypeOK'
    BY <1>10, <2>1 DEF FailTask, ReleaseSlot, FailRead
  <2>3. RowsValid' /\ HeldTaskHasOpenRow'
    BY <1>10, <2>1 DEF FailTask, FailRead
  <2>4. tasks'[f.task].retries >= tasks[f.task].retries
    BY <1>10, <2>1 DEF FailTask, FailRead
  <2>5. ReadsStillTrue'
    BY <1>10, <2>1, <2>4 DEF FailTask, FailRead
  <2>6. FailedOnlyWhenExhausted'
    BY <1>10, <2>1 DEF FailTask, FailRead
  <2>7. QED
    BY <2>2, <2>3, <2>5, <2>6
<1>11. ASSUME NEW S \in SUBSET Session, Rollback(S) PROVE StoreInv'
  BY <1>11 DEF Rollback
<1>12. CASE UNCHANGED storeVars
  BY <1>12 DEF storeVars
<1>13. QED
  BY <1>1, <1>2, <1>3, <1>4, <1>5, <1>6, <1>7, <1>8, <1>9, <1>10, <1>11,
       <1>12 DEF Next

LEMMA StoreInvariant == Spec => []StoreInv
  BY InitStoreInv, NextStoreInv, PTL DEF Spec

\* Every reachable database has well-typed rows.
THEOREM StoreTypeOK == Spec => []TypeOK
<1>1. StoreInv => TypeOK
  BY DEF StoreInv
<1>2. QED
  BY <1>1, StoreInvariant, PTL

\* No statement builds a row that CHECK valid_status_transitions would
\* refuse, for any number of concurrent fail_task calls.
THEOREM StoreRowsValid == Spec => []RowsValid
<1>1. StoreInv => RowsValid
  BY DEF StoreInv
<1>2. QED
  BY <1>1, StoreInvariant, PTL

\* A task in the hands of a worker always has an open row in the audit trail.
THEOREM StoreAuditTrail == Spec => []HeldTaskHasOpenRow
<1>1. StoreInv => HeldTaskHasOpenRow
  BY DEF StoreInv
<1>2. QED
  BY <1>1, StoreInvariant, PTL

\* A task fails for good only after max_retries retries, although fail_task
\* decides on a value that may be stale when it writes.
THEOREM StoreFailedOnlyWhenExhausted == Spec => []FailedOnlyWhenExhausted
<1>1. StoreInv => FailedOnlyWhenExhausted
  BY DEF StoreInv
<1>2. QED
  BY <1>1, StoreInvariant, PTL

-----------------------------------------------------------------------------
(* The store implements TaskLease *)

LEMMA InitLease == Init => Lease!Init
  BY DEF Init, Lease!Init, holder, Held

\* A step that changes one row at most is a step of TaskLease if the row's
\* lease is kept, given up, or taken when nobody held it.
LEMMA OneRowLease ==
  ASSUME NEW t \in Task,
         \A u \in Task \ {t} : tasks'[u] = tasks[u],
         \/ holder'[t] = holder[t]
         \/ holder[t] # NoWorker /\ holder'[t] = NoWorker
         \/ holder[t] = NoWorker /\ holder'[t] \in Worker
  PROVE  [Lease!Next]_holder
<1>1. \A u \in Task \ {t} : holder'[u] = holder[u]
  BY DEF holder, Held
<1>2. holder' = [holder EXCEPT ![t] = holder'[t]]
  BY <1>1 DEF holder
<1>3. CASE holder'[t] = holder[t]
  BY <1>1, <1>3 DEF holder
<1>4. CASE holder[t] # NoWorker /\ holder'[t] = NoWorker
  BY <1>2, <1>4 DEF Lease!Next, Lease!Release
<1>5. CASE holder[t] = NoWorker /\ holder'[t] \in Worker
  BY <1>2, <1>5 DEF Lease!Next, Lease!Acquire
<1>6. QED
  BY <1>3, <1>4, <1>5

LEMMA StepLease == StoreInv /\ [Next]_storeVars => [Lease!Next]_holder
<1> SUFFICES ASSUME StoreInv, [Next]_storeVars PROVE [Lease!Next]_holder
  OBVIOUS
<1> USE DEF StoreInv, TypeOK, Held, Status
<1>1. CASE UNCHANGED tasks
  BY <1>1 DEF holder
<1>2. ASSUME NEW t \in Task, CreateTask(t) PROVE [Lease!Next]_holder
  BY <1>2, OneRowLease DEF CreateTask, holder
<1>3. ASSUME NEW t \in Task, NEW w \in Worker, AssignTask(t, w)
      PROVE [Lease!Next]_holder
  BY <1>3, OneRowLease DEF AssignTask, CanAssign, holder
<1>4. ASSUME NEW t \in Task, NEW w \in Worker, StartTask(t, w)
      PROVE [Lease!Next]_holder
  BY <1>4, OneRowLease DEF StartTask, CanStart, holder
<1>5. ASSUME NEW t \in Task, UnassignTask(t) PROVE [Lease!Next]_holder
  BY <1>5, OneRowLease DEF UnassignTask, holder, RowsValid
<1>6. ASSUME NEW t \in Task, ResetTaskToPending(t) PROVE [Lease!Next]_holder
  BY <1>6, OneRowLease DEF ResetTaskToPending, holder, RowsValid
<1>7. ASSUME NEW t \in Task, CompleteTask(t) PROVE [Lease!Next]_holder
  BY <1>7, OneRowLease DEF CompleteTask, holder, RowsValid
<1>8. ASSUME NEW s \in Session, FailTask(s) PROVE [Lease!Next]_holder
  <2>1. failing[s] \in FailRead
    BY <1>8 DEF FailTask
  <2>2. failing[s].task \in Task
    BY <2>1 DEF FailRead
  <2>3. \A u \in Task \ {failing[s].task} : tasks'[u] = tasks[u]
    BY <1>8 DEF FailTask
  <2>4. tasks'[failing[s].task].status \in {"pending", "failed"}
    BY <1>8, <2>2 DEF FailTask
  <2>5. holder'[failing[s].task] = NoWorker
    BY <2>2, <2>4 DEF holder
  <2>6. QED
    BY <2>2, <2>3, <2>5, OneRowLease
<1>9. QED
  BY <1>1, <1>2, <1>3, <1>4, <1>5, <1>6, <1>7, <1>8
     DEF Next, storeVars, CreateWorker, MarkWorkerDead, FailTaskRead, Rollback

\* Every behaviour of the task store is a behaviour of TaskLease: at most one
\* holder per task, and no lease passes from worker to worker directly.
THEOREM StoreImplementsLease == Spec => LeaseSpec
  BY InitLease, StepLease, StoreInvariant, PTL DEF Spec, LeaseSpec, Lease!Spec
=============================================================================
