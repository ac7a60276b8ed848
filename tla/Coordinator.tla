---------------------------- MODULE Coordinator ----------------------------
(***************************************************************************)
(* One leading coordinator at work: its two scheduler goroutines           *)
(* (scheduler/task_scheduler.go), the stale-task sweep, the gRPC handlers  *)
(* (service/grpc_service.go) and the registry, on top of the task store,   *)
(* with the worker processes (internal/worker) at the other end of the     *)
(* task streams and of the RPCs.                                           *)
(*                                                                         *)
(* Every call to the database, to the registry or across a channel is a    *)
(* step of its own, so goroutines interleave between them.  Faults (lost   *)
(* or late messages, crashes, slow proofs) spend a budget: MaxFaults = 0   *)
(* is the system on a good day.                                            *)
(***************************************************************************)
EXTENDS Naturals, Sequences, FiniteSets, SequencesExt

CONSTANTS Tasks,       \* how many tasks clients submit; a task is its rank
                       \* in ORDER BY created_at
          Worker, NoWorker, Capacity, MaxRetries,
          Thread,      \* goroutines that run scheduleOneCycle
          Handler,     \* gRPC report handlers that may run at once
          BatchSize,   \* tasks fetched per cycle (10 in the code)
          Job,         \* deliveries the workers may be busy with at once
          BufferSize,  \* TaskStreamBufferSize (10 in the code)
          MaxSends,    \* RPCs per report: RetryWithBackoff's attempts
          MaxFaults    \* the fault budget

Task == 1..Tasks

ASSUME CoordinatorAssumption ==
  /\ {Tasks, Capacity, BatchSize, BufferSize, MaxSends} \subseteq Nat \ {0}
  /\ {MaxRetries, MaxFaults} \subseteq Nat
  /\ NoWorker \notin Worker /\ IsFiniteSet(Worker)
  /\ IsFiniteSet(Thread) /\ IsFiniteSet(Handler)
  /\ Job \subseteq Nat

VARIABLES
  tasks, workers, open, failing,   \* the task store
  reg,         \* the registry
  threads,     \* threads[th]: where the goroutine is in its cycle
  sweep,       \* stale tasks read by HandleStaleTasks and not dealt with
  resetting,   \* the one of them whose worker it has marked suspect
  late,        \* StartTask calls whose caller has died or waits no longer
  handlers,    \* handlers[h]: the report RPC h is serving
  completed,   \* completedTasks, the idempotency map
  stream,      \* stream[w]: the channel of w's open ReceiveTasks call
  up,          \* up[w]: the worker process runs
  jobs,        \* jobs[j]: a task a worker received and has not settled
  faults,      \* faults so far
  acked        \* history: tasks whose completion report was answered Success

storeVars == <<tasks, workers, open, failing>>
serviceVars == <<handlers, completed, acked>>
nodeVars == <<stream, up, jobs>>
callVars == <<sweep, resetting, late>>
vars == <<storeVars, reg, threads, callVars, serviceVars, nodeVars, faults>>

Store == INSTANCE TaskStore WITH Session <- Handler
Registry == INSTANCE WorkerRegistry

\* Between two cycles: eventDrivenLoop waits for an event, schedulingLoop for
\* its ticker, and either may wake when it likes.
IdleThread == [pc |-> "idle"]
IdleHandler == [pc |-> "idle"]
NoJob == [stage |-> "none"]
NoStream == <<0>>       \* no task has rank 0

Fetched == [pc : {"fetched"}, batch : Seq(Task)]
Thrd == [pc : {"assign", "increment", "send", "revert", "release"},
         batch : Seq(Task), avail : Seq(Worker)]
Report == [pc : {"check", "complete", "mark", "read", "write", "decrement"},
           job : Job, task : Task, worker : Worker]
JobState == [stage : {"received", "running", "proved", "failed"},
             start : BOOLEAN, sends : 0..MaxSends, task : Task,
             worker : Worker]

TypeOK ==
  /\ Store!TypeOK /\ Registry!RegistryTypeOK
  /\ threads \in [Thread -> {IdleThread} \cup Fetched \cup Thrd]
  /\ sweep \subseteq Task \X Worker /\ resetting \subseteq Task \X Worker
  /\ late \subseteq Task \X Worker
  /\ handlers \in [Handler -> Report \cup {IdleHandler}]
  /\ completed \subseteq Task /\ acked \subseteq Task
  /\ stream \in [Worker -> {NoStream} \cup BoundedSeq(Task, BufferSize)]
  /\ up \in [Worker -> BOOLEAN]
  /\ jobs \in [Job -> JobState \cup {NoJob}]
  /\ faults \in 0..MaxFaults

Init ==
  /\ Store!Init
  /\ reg = Registry!NoWorkers
  /\ threads = [th \in Thread |-> IdleThread]
  /\ sweep = {} /\ resetting = {} /\ late = {}
  /\ handlers = [h \in Handler |-> IdleHandler]
  /\ completed = {}
  /\ stream = [w \in Worker |-> NoStream]
  /\ up = [w \in Worker |-> FALSE]
  /\ jobs = [j \in Job |-> NoJob]
  /\ faults = 0
  /\ acked = {}

Fault == faults < MaxFaults /\ faults' = faults + 1

\* A fault unless the condition makes the event part of a normal run.
FaultUnless(normal) == IF normal THEN UNCHANGED faults ELSE Fault

-----------------------------------------------------------------------------
(* The gateway *)

\* Tasks are created in the order of their ranks.
CreateTask(t) ==
  /\ \A u \in 1..t-1 : tasks[u].status # "absent"
  /\ Store!CreateTask(t)
  /\ UNCHANGED <<reg, threads, callVars, serviceVars, nodeVars, faults>>

-----------------------------------------------------------------------------
(* Worker membership *)

\* The RPC.  A new registry entry is persisted; when that fails the
\* registration goes on in memory.
RegisterWorker(w) ==
  /\ Registry!RegisterWorker(w)
  /\ \/ /\ IF Registry!Known(w) THEN UNCHANGED storeVars
                                ELSE Store!CreateWorker(w)
        /\ UNCHANGED faults
     \/ ~Registry!Known(w) /\ Fault /\ UNCHANGED storeVars

\* Worker.Start: a worker runs once it has registered.
StartWorker(w) ==
  /\ ~up[w]
  /\ up' = [up EXCEPT ![w] = TRUE]
  /\ RegisterWorker(w)
  /\ UNCHANGED <<threads, callVars, serviceVars, stream, jobs>>

\* ReceiveTasks opens a stream, some time after registration or after a
\* disconnection; the coordinator does not ask whether w is registered.
OpenStream(w) ==
  /\ up[w] /\ stream[w] = NoStream
  /\ stream' = [stream EXCEPT ![w] = <<>>]
  /\ UNCHANGED <<storeVars, reg, threads, callVars, serviceVars, up, jobs,
                 faults>>

\* The worker waits for the answer to StartTask (or has yet to call it).
Starting(j, r) ==
  jobs[j] # NoJob /\ jobs[j].start /\ r = <<jobs[j].task, jobs[j].worker>>

\* The connection drops; tasks still in the channel go with it.
DropStream(w) ==
  /\ stream[w] # NoStream
  /\ Fault
  /\ stream' = [stream EXCEPT ![w] = NoStream]
  /\ UNCHANGED <<storeVars, reg, threads, callVars, serviceVars, up, jobs>>

\* What it has asked of the coordinator may be served all the same.
CrashWorker(w) ==
  /\ up[w]
  /\ Fault
  /\ up' = [up EXCEPT ![w] = FALSE]
  /\ stream' = [stream EXCEPT ![w] = NoStream]
  /\ jobs' = [j \in Job |-> IF jobs[j] # NoJob /\ jobs[j].worker = w
                            THEN NoJob ELSE jobs[j]]
  /\ late' = late \cup {r \in Task \X {w} : \E j \in Job : Starting(j, r)}
  /\ UNCHANGED <<storeVars, reg, threads, sweep, resetting, serviceVars>>

Heartbeat(w) ==
  /\ up[w]
  /\ Registry!UpdateHeartbeat(w)
  /\ UNCHANGED <<storeVars, threads, callVars, serviceVars, nodeVars, faults>>

\* performCleanup.  The heartbeats of a running worker are late by a fault.
SuspectLateWorker(w) ==
  /\ Registry!SuspectLateWorker(w)
  /\ FaultUnless(~up[w])
  /\ UNCHANGED <<storeVars, threads, callVars, serviceVars, nodeVars>>

RemoveDeadWorker(w) ==
  /\ Registry!RemoveDeadWorker(w)
  /\ FaultUnless(~up[w])
  /\ IF workers[w].status = "absent" THEN UNCHANGED storeVars
                                     ELSE Store!MarkWorkerDead(w)
  /\ UNCHANGED <<threads, callVars, serviceVars, nodeVars>>

-----------------------------------------------------------------------------
(* scheduleOneCycle and assignTaskToWorker *)

GoTo(th, pc) == threads' = [threads EXCEPT ![th].pc = pc]

Pending == {t \in Task : tasks[t].status = "pending"}

CurrentTask(th) == threads[th].batch[1]

\* Round robin over the snapshot of workers, from the first one each cycle:
\* the next worker is at the head and goes to the back when used.
CurrentWorker(th) == threads[th].avail[1]

\* The next task of the batch, or the end of the cycle.
NextTask(th) ==
  threads' = [threads EXCEPT ![th] =
                IF Len(@.batch) = 1 THEN IdleThread
                ELSE [pc |-> "assign", batch |-> Tail(@.batch),
                      avail |-> Append(Tail(@.avail), Head(@.avail))]]

GetPendingTasks(th) ==
  /\ threads[th] = IdleThread
  /\ Pending # {}
  /\ \E sorted \in SetToSeqs(Pending) :
       /\ \A i, j \in DOMAIN sorted : i < j => sorted[i] < sorted[j]
       /\ threads' = [threads EXCEPT ![th] =
                        [pc |-> "fetched",
                         batch |-> SubSeq(sorted, 1, IF Len(sorted) < BatchSize
                                                     THEN Len(sorted)
                                                     ELSE BatchSize)]]
  /\ UNCHANGED <<storeVars, reg, callVars, serviceVars, nodeVars, faults>>

\* A snapshot in the random order of a Go map.  The last heartbeat of a
\* worker that is down may be fresh enough or not.
GetAvailableWorkers(th) ==
  /\ threads[th].pc = "fetched"
  /\ \E fresh \in SUBSET {w \in Worker : ~up[w]} :
       LET found == {w \in Worker : Registry!Available(w)
                                       /\ (up[w] \/ w \in fresh)} IN
       IF found = {}
       THEN threads' = [threads EXCEPT ![th] = IdleThread]
       ELSE \E order \in SetToSeqs(found) :
              threads' = [threads EXCEPT ![th] =
                            [pc |-> "assign", batch |-> @.batch,
                             avail |-> order]]
  /\ UNCHANGED <<storeVars, reg, callVars, serviceVars, nodeVars, faults>>

AssignTask(th) ==
  /\ threads[th].pc = "assign"
  /\ LET t == CurrentTask(th)
         w == CurrentWorker(th)
     IN \/ Store!AssignTask(t, w) /\ GoTo(th, "increment")
        \/ ~Store!CanAssign(t, w) /\ NextTask(th) /\ UNCHANGED storeVars
  /\ UNCHANGED <<reg, callVars, serviceVars, nodeVars, faults>>

\* The context of the cycle expires after 5s: every AssignTask left fails.
CycleTimeout(th) ==
  /\ threads[th].pc = "assign"
  /\ Fault
  /\ threads' = [threads EXCEPT ![th] = IdleThread]
  /\ UNCHANGED <<storeVars, reg, callVars, serviceVars, nodeVars>>

\* An error (the worker is full or unknown) is logged and ignored.
IncrementTaskCount(th) ==
  /\ threads[th].pc = "increment"
  /\ Registry!IncrementTaskCount(CurrentWorker(th))
  /\ GoTo(th, "send")
  /\ UNCHANGED <<storeVars, callVars, serviceVars, nodeVars, faults>>

SendTaskNoRevert(th) ==   \* mutant: the error path skips UnassignTask
  /\ threads[th].pc = "send"
  /\ LET w == CurrentWorker(th) IN
     IF Registry!Known(w) /\ stream[w] # NoStream
     THEN /\ Len(stream[w]) < BufferSize
          /\ stream' = [stream EXCEPT ![w] = Append(@, CurrentTask(th))]
          /\ NextTask(th)
     ELSE GoTo(th, "release") /\ UNCHANGED stream
  /\ UNCHANGED <<storeVars, reg, callVars, serviceVars, up, jobs, faults>>

\* SendTask and PushTaskToWorker.  No entry or no stream: an error at once.
\* A full channel: wait for room, or for the 5s of TaskPushTimeout; by then
\* the context of the cycle has expired, so UnassignTask fails too.
SendTask(th) ==
  /\ threads[th].pc = "send"
  /\ LET w == CurrentWorker(th) IN
     \/ /\ Registry!Known(w) /\ stream[w] # NoStream
        /\ Len(stream[w]) < BufferSize
        /\ stream' = [stream EXCEPT ![w] = Append(@, CurrentTask(th))]
        /\ NextTask(th)
        /\ UNCHANGED faults
     \/ /\ ~Registry!Known(w) \/ stream[w] = NoStream
        /\ GoTo(th, "revert")
        /\ UNCHANGED <<stream, faults>>
     \/ /\ Registry!Known(w) /\ stream[w] # NoStream
        /\ Len(stream[w]) = BufferSize
        /\ Fault
        /\ GoTo(th, "release")
        /\ UNCHANGED stream
  /\ UNCHANGED <<storeVars, reg, callVars, serviceVars, up, jobs>>

\* UnassignTask takes the task from whoever it is assigned to by now.
RevertAssignment(th) ==
  /\ threads[th].pc = "revert"
  /\ LET t == CurrentTask(th) IN
     IF tasks[t].status = "assigned" THEN Store!UnassignTask(t)
                                     ELSE UNCHANGED storeVars
  /\ GoTo(th, "release")
  /\ UNCHANGED <<reg, callVars, serviceVars, nodeVars, faults>>

\* Whether or not the count was incremented.
ReleaseWorker(th) ==
  /\ threads[th].pc = "release"
  /\ Registry!DecrementTaskCount(CurrentWorker(th))
  /\ NextTask(th)
  /\ UNCHANGED <<storeVars, callVars, serviceVars, nodeVars, faults>>

-----------------------------------------------------------------------------
(* HandleStaleTasks *)

Working(t, w) ==
  \E j \in Job : jobs[j] # NoJob /\ jobs[j].task = t /\ jobs[j].worker = w

\* Tasks in progress for longer than the threshold.  One that a worker is
\* still busy with, or whose report is being served, is stale by a fault.
GetStaleTasks ==
  /\ sweep = {} /\ resetting = {}
  /\ \E stale \in SUBSET {t \in Task : tasks[t].status = "in_progress"} :
       /\ stale # {}
       /\ sweep' = {<<t, tasks[t].worker>> : t \in stale}
       /\ FaultUnless(\A t \in stale : ~Working(t, tasks[t].worker))
  /\ UNCHANGED <<storeVars, reg, threads, resetting, late, serviceVars,
                 nodeVars>>

MarkStaleWorker ==
  /\ resetting = {}
  /\ \E stale \in sweep :
       /\ sweep' = sweep \ {stale} /\ resetting' = {stale}
       /\ Registry!MarkWorkerSuspect(stale[2])
  /\ UNCHANGED <<storeVars, threads, late, serviceVars, nodeVars, faults>>

ResetStaleTaskAnyway ==   \* mutant: UPDATE ... WHERE id only
  \E stale \in resetting :
    /\ resetting' = {}
    /\ tasks' = [tasks EXCEPT ![stale[1]].status = "pending",
                              ![stale[1]].worker = NoWorker]
    /\ UNCHANGED <<workers, open, failing, reg, threads, sweep, late,
                   serviceVars, nodeVars, faults>>

\* ResetTaskToPending does not ask whether the attempt in progress is the
\* one that was found stale.
ResetStaleTask ==
  \E stale \in resetting :
    /\ resetting' = {}
    /\ IF tasks[stale[1]].status = "in_progress"
       THEN Store!ResetTaskToPending(stale[1])
       ELSE UNCHANGED storeVars
    /\ UNCHANGED <<reg, threads, sweep, late, serviceVars, nodeVars, faults>>

-----------------------------------------------------------------------------
(* The worker's side of a task: taskReceiverLoop, processTask, reports *)

\* A handler may outlive the job it serves: its slot is not reused before.
Free(j) ==
  /\ jobs[j] = NoJob
  /\ \A h \in Handler : handlers[h] # IdleHandler => handlers[h].job # j

ReceiveTask(w) ==
  /\ stream[w] # NoStream /\ stream[w] # <<>>
  /\ \E j \in Job :
       /\ Free(j) /\ \A i \in Job : Free(i) => j <= i
       /\ jobs' = [jobs EXCEPT ![j] =
                     [task |-> Head(stream[w]), worker |-> w, start |-> TRUE,
                      stage |-> "received", sends |-> 0]]
  /\ stream' = [stream EXCEPT ![w] = Tail(@)]
  /\ UNCHANGED <<storeVars, reg, threads, callVars, serviceVars, up, faults>>

\* The coordinator serves StartTask while the worker waits for the answer.
ServeStart(j) ==
  /\ jobs[j] # NoJob /\ jobs[j].start
  /\ LET t == jobs[j].task
         w == jobs[j].worker
     IN \/ Store!StartTask(t, w)
        \/ ~Store!CanStart(t, w) /\ UNCHANGED storeVars
  /\ jobs' = [jobs EXCEPT ![j].start = FALSE]
  /\ UNCHANGED <<reg, threads, callVars, serviceVars, stream, up, faults>>

LoseStart(j) ==
  /\ jobs[j] # NoJob /\ jobs[j].start
  /\ Fault
  /\ jobs' = [jobs EXCEPT ![j].start = FALSE]
  /\ UNCHANGED <<storeVars, reg, threads, callVars, serviceVars, stream, up>>

\* Nobody waits, so the call may be served at any time or never: the worker
\* may have reported by then, or run again, and the task be someone else's.
\* Two calls about the same task and worker are not told apart.
ServeLateStart(t, w) ==
  /\ <<t, w>> \in late
  /\ Store!StartTask(t, w) \/ UNCHANGED storeVars
  /\ late' = late \ {<<t, w>>}
  /\ UNCHANGED <<reg, threads, sweep, resetting, serviceVars, nodeVars, faults>>

\* Whatever StartTask answered, or after TaskStartTimeout without an answer,
\* the task goes to the pool.
SubmitTask(j) ==
  /\ jobs[j].stage = "received"
  /\ FaultUnless(~jobs[j].start)
  /\ jobs' = [jobs EXCEPT ![j].stage = "running", ![j].start = FALSE]
  /\ late' = late \cup {r \in Task \X Worker : Starting(j, r)}
  /\ UNCHANGED <<storeVars, reg, threads, sweep, resetting, serviceVars, stream,
                 up>>

\* Input that does not parse fails the task before StartTask is called.
RejectInput(j) ==
  /\ jobs[j].stage = "received" /\ jobs[j].start
  /\ jobs' = [jobs EXCEPT ![j].stage = "failed", ![j].start = FALSE]
  /\ UNCHANGED <<storeVars, reg, threads, callVars, serviceVars, stream, up,
                 faults>>

ProcessTaskSilently(j) ==   \* mutant: a failure is logged and not reported
  /\ jobs[j].stage = "running"
  /\ \/ jobs' = [jobs EXCEPT ![j].stage = "proved"]
     \/ jobs' = [jobs EXCEPT ![j] = NoJob]
  /\ UNCHANGED <<storeVars, reg, threads, callVars, serviceVars, stream, up,
                 faults>>

ProcessTask(j) ==
  /\ jobs[j].stage = "running"
  /\ \E outcome \in {"proved", "failed"} :
       jobs' = [jobs EXCEPT ![j].stage = outcome]
  /\ UNCHANGED <<storeVars, reg, threads, callVars, serviceVars, stream, up,
                 faults>>

Served(j) == \E h \in Handler : handlers[h] # IdleHandler /\ handlers[h].job = j

\* ReportCompletion or ReportFailure, and its retries: after an error, or
\* after TaskResultTimeout while the first call may still be served.
SendReport(j, h) ==
  /\ jobs[j].stage \in {"proved", "failed"}
  /\ jobs[j].sends < MaxSends
  /\ handlers[h] = IdleHandler
  /\ FaultUnless(~Served(j))
  /\ handlers' = [handlers EXCEPT ![h] =
                    [pc |-> IF jobs[j].stage = "proved" THEN "check" ELSE "read",
                     job |-> j, task |-> jobs[j].task,
                     worker |-> jobs[j].worker]]
  /\ jobs' = [jobs EXCEPT ![j].sends = @ + 1]
  /\ UNCHANGED <<storeVars, reg, threads, callVars, completed, acked, stream,
                 up>>

\* All attempts answered with an error or lost: the result is dropped.
GiveUp(j) ==
  /\ jobs[j] # NoJob /\ jobs[j].sends = MaxSends /\ ~Served(j)
  /\ jobs' = [jobs EXCEPT ![j] = NoJob]
  /\ UNCHANGED <<storeVars, reg, threads, callVars, serviceVars, stream, up,
                 faults>>

-----------------------------------------------------------------------------
(* ReportCompletion and ReportFailure on the coordinator *)

Continue(h, pc) == handlers' = [handlers EXCEPT ![h].pc = pc] /\ UNCHANGED jobs

ReplyError(h) == handlers' = [handlers EXCEPT ![h] = IdleHandler]
                 /\ UNCHANGED <<jobs, acked, faults>>

\* The answer settles the worker's job unless it is lost.
ReplySuccess(h) ==
  LET j == handlers[h].job IN
  /\ handlers' = [handlers EXCEPT ![h] = IdleHandler]
  /\ \/ jobs' = [jobs EXCEPT ![j] = NoJob] /\ UNCHANGED faults
     \/ jobs[j] # NoJob /\ Fault /\ UNCHANGED jobs

CheckCompletedOnly(h) ==   \* mutant: the database is never told
  /\ handlers[h].pc = "check"
  /\ IF handlers[h].task \in completed
     THEN ReplySuccess(h) /\ acked' = acked \cup {handlers[h].task}
     ELSE Continue(h, "mark") /\ UNCHANGED <<acked, faults>>
  /\ UNCHANGED <<storeVars, reg, threads, callVars, completed, stream, up>>

\* completedTasks answers Success for a task it knows.
CheckCompleted(h) ==
  /\ handlers[h].pc = "check"
  /\ IF handlers[h].task \in completed
     THEN ReplySuccess(h) /\ acked' = acked \cup {handlers[h].task}
     ELSE Continue(h, "complete") /\ UNCHANGED <<acked, faults>>
  /\ UNCHANGED <<storeVars, reg, threads, callVars, completed, stream, up>>

CompleteTask(h) ==
  /\ handlers[h].pc = "complete"
  /\ \/ /\ Store!CompleteTask(handlers[h].task)
        /\ Continue(h, "mark") /\ UNCHANGED <<acked, faults>>
     \/ /\ ~Store!CanComplete(handlers[h].task)
        /\ ReplyError(h) /\ UNCHANGED storeVars
  /\ UNCHANGED <<reg, threads, callVars, completed, stream, up>>

MarkCompletedOnly(h) ==   \* mutant: the registry is not told
  /\ handlers[h].pc = "mark"
  /\ completed' = completed \cup {handlers[h].task}
  /\ ReplySuccess(h)
  /\ acked' = acked \cup {handlers[h].task}
  /\ UNCHANGED <<storeVars, reg, threads, callVars, stream, up>>

\* completedTasks, then the registry, each under its own lock.
MarkCompleted(h) ==
  /\ handlers[h].pc = "mark"
  /\ completed' = completed \cup {handlers[h].task}
  /\ Registry!DecrementTaskCount(handlers[h].worker)
  /\ ReplySuccess(h)
  /\ acked' = acked \cup {handlers[h].task}
  /\ UNCHANGED <<storeVars, threads, callVars, stream, up>>

\* fail_task: a row without a worker is an error.
ReadFailedTask(h) ==
  /\ handlers[h].pc = "read"
  /\ LET t == handlers[h].task IN
     \/ /\ Store!FailTaskRead(h, t)
        /\ Continue(h, "write") /\ UNCHANGED <<acked, faults>>
     \/ /\ tasks[t].worker = NoWorker
        /\ ReplyError(h) /\ UNCHANGED storeVars
  /\ UNCHANGED <<reg, threads, callVars, completed, stream, up>>

FailTask(h) ==
  /\ handlers[h].pc = "write"
  /\ \/ /\ Store!FailTask(h)
        /\ Continue(h, "decrement") /\ UNCHANGED <<acked, faults>>
     \/ /\ workers[failing[h].worker].count = 0
        /\ Store!Rollback({h})
        /\ ReplyError(h)
  /\ UNCHANGED <<reg, threads, callVars, completed, stream, up>>

ReleaseFailedWorker(h) ==
  /\ handlers[h].pc = "decrement"
  /\ Registry!DecrementTaskCount(handlers[h].worker)
  /\ ReplySuccess(h)
  /\ UNCHANGED <<storeVars, threads, callVars, completed, acked, stream, up>>

\* The coordinator process dies and starts again: everything in memory is
\* gone, loadWorkersFromDB logs the workers and restores none of them.
RestartCoordinator ==
  /\ Fault
  /\ reg' = Registry!NoWorkers
  /\ threads' = [th \in Thread |-> IdleThread]
  /\ sweep' = {} /\ resetting' = {}
  /\ handlers' = [h \in Handler |-> IdleHandler]
  /\ Store!Rollback(Handler)
  /\ completed' = {}
  /\ stream' = [w \in Worker |-> NoStream]
  /\ UNCHANGED <<up, jobs, late, acked>>

-----------------------------------------------------------------------------
Membership(w) ==
  \/ StartWorker(w) \/ OpenStream(w) \/ DropStream(w) \/ CrashWorker(w)
  \/ Heartbeat(w) \/ SuspectLateWorker(w) \/ RemoveDeadWorker(w)

Schedule(th) ==
  \/ GetPendingTasks(th) \/ GetAvailableWorkers(th) \/ AssignTask(th)
  \/ CycleTimeout(th) \/ IncrementTaskCount(th) \/ SendTask(th)
  \/ RevertAssignment(th) \/ ReleaseWorker(th)

\* startStaleTaskCleanup, from tick to tick.
Sweep == GetStaleTasks \/ MarkStaleWorker \/ ResetStaleTask

Work(j) ==
  \/ ServeStart(j) \/ LoseStart(j) \/ SubmitTask(j) \/ RejectInput(j)
  \/ ProcessTask(j) \/ GiveUp(j)

Serve(h) ==
  \/ CheckCompleted(h) \/ CompleteTask(h) \/ MarkCompleted(h)
  \/ ReadFailedTask(h) \/ FailTask(h) \/ ReleaseFailedWorker(h)

Next ==
  \/ \E t \in Task : CreateTask(t)
  \/ \E w \in Worker : Membership(w) \/ ReceiveTask(w)
  \/ \E th \in Thread : Schedule(th)
  \/ Sweep
  \/ \E j \in Job : Work(j) \/ \E h \in Handler : SendReport(j, h)
  \/ \E t \in Task, w \in Worker : ServeLateStart(t, w)
  \/ \E h \in Handler : Serve(h)
  \/ RestartCoordinator

Spec == Init /\ [][Next]_vars

\* Goroutines run, tickers tick, connected peers answer, workers are started
\* and proofs end.  Nothing obliges a client to submit or a fault to happen.
Fairness ==
  /\ \A w \in Worker :
       /\ WF_vars(UNCHANGED faults /\ StartWorker(w))
       /\ WF_vars(OpenStream(w)) /\ WF_vars(Heartbeat(w))
       /\ WF_vars(ReceiveTask(w))
  /\ \A th \in Thread : WF_vars(UNCHANGED faults /\ Schedule(th))
  /\ WF_vars(UNCHANGED faults /\ Sweep)
  /\ \A j \in Job :
       /\ WF_vars(UNCHANGED faults /\ Work(j))
       /\ WF_vars(UNCHANGED faults /\ \E h \in Handler : SendReport(j, h))
  /\ \A h \in Handler : WF_vars(UNCHANGED faults /\ Serve(h))

FairSpec == Spec /\ Fairness

-----------------------------------------------------------------------------
(* Properties *)

InProgress(t) == tasks[t].status = "in_progress"

Computing(j) == jobs[j].stage \in {"received", "running", "proved"}

\* The coordinator touches the tables through the store's statements only, so
\* what holds of TaskStore (TaskStoreProofs) holds of the running system.
StoreSpec == Store!Spec

\* Two scheduler goroutines work from stale snapshots of the pending tasks;
\* without faults the database still never lets two workers compute the same
\* task, and whoever computes it is its holder.
ExclusiveExecution ==
  \A j \in Job : Computing(j) =>
    /\ \A i \in Job \ {j} : Computing(i) => jobs[i].task # jobs[j].task
    /\ tasks[jobs[j].task].worker = jobs[j].worker

\* Without faults complete_task is never refused by the CHECK on the worker's
\* current_task_count, although unassigned tasks leak into that count.
CompletionNeverRefused ==
  \A t \in Task : InProgress(t) => workers[tasks[t].worker].count > 0

\* Without faults the registry loses no capacity either: an entry counts no
\* more tasks than its worker has been given and not settled, or than a failed
\* send or a served report is about to take off.  IncrementTaskCount may have
\* been refused, sends are reverted and reports of other tasks are served
\* meanwhile; a slot that did not come back would be gone for as long as the
\* worker lives.
SlotsComeBack ==
  \A w \in Worker :
    reg[w].current <=
      Cardinality({t \in Task : Store!holder[t] = w})
      + Cardinality({th \in Thread : threads[th].pc = "release"
                                       /\ CurrentWorker(th) = w})
      + Cardinality({h \in Handler : handlers[h].pc \in {"mark", "decrement"}
                                       /\ handlers[h].worker = w})

\* A worker is told that a proof is recorded, or is a duplicate of a recorded
\* one (grpc_service.go:333), only if it is.  Holds without faults.
AckedIsRecorded == \A t \in acked : tasks[t].status = "completed"

\* A worker, as far as the coordinator sees it, does what WorkerJobs says: a
\* late answer, to a report that was repeated or of a worker that crashed, never
\* ends a job that is being computed, and no job ends without a report unless
\* something failed.
stage ==
  [j \in Job |-> IF jobs[j].stage \in {"proved", "failed"} THEN "finished"
                                                        ELSE jobs[j].stage]

intact == faults = 0

Jobs == INSTANCE WorkerJobs

JobsSpec == Jobs!Spec

\* Until a first fault every task is eventually completed or failed for good.
EveryTaskSettled ==
  \A t \in Task : tasks[t].status = "pending"
                     ~> tasks[t].status \in {"completed", "failed"} \/ faults > 0

\* An attempt does not stay in progress for ever, whatever crashes: a report
\* settles it or the sweep resets it.
AttemptEnds == \A t \in Task : InProgress(t) ~> ~InProgress(t)
=============================================================================
