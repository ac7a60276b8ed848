----------------------------- MODULE WorkerNode -----------------------------
(***************************************************************************)
(* One worker process, which Coordinator takes for a set of jobs: the      *)
(* goroutine that reads the task stream (client/coordinator_client.go),    *)
(* taskReceiverLoop and resultReporterLoop (worker.go), the pool's         *)
(* goroutines and channels (executor/worker_pool.go), and the shutdown     *)
(* that runs beside them (Worker.Stop under the time limit of              *)
(* cmd/worker/main.go).                                                    *)
(*                                                                         *)
(* A task is in one place at a time; a channel is the set of the tasks in  *)
(* it.  The two that feed the pool have one sender, so their first task is *)
(* the one that arrived first.  The worker starts connected and registered.*)
(* What the coordinator does with the RPCs is in Coordinator.              *)
(***************************************************************************)
EXTENDS Naturals, FiniteSets

CONSTANTS Tasks,         \* how many assignments arrive on the stream
          Concurrency,   \* goroutines of the pool
          TaskBuffer,    \* CoordinatorClientTaskChannelBuffer
          Fatal          \* tasks with several leaves, one over 32 bytes long

Task == 1..Tasks   \* in the order they arrive

ASSUME WorkerAssumption ==
  /\ {Tasks, Concurrency, TaskBuffer} \subseteq Nat \ {0}
  /\ Fatal \subseteq Task

VARIABLES
  place,      \* place[t]: which goroutine or channel has t, or how t ended
  receiver,   \* taskReceiverLoop runs
  reporter,   \* resultReporterLoop runs
  exited,     \* goroutines of the pool that have returned
  phase       \* how far Worker.Stop has got, or how the process ended

vars == <<place, receiver, reporter, exited, phase>>

Place ==
  {"wire",                                \* not received yet
   "stream", "taskChan",                  \* receiveTasksStream and its channel
   "received", "submitting", "failing",   \* held by taskReceiverLoop
   "tasks", "proving", "sending", "results",   \* the pool
   "reporting",                           \* a goroutine of the reporter
   "reported", "givenUp",                 \* answered; all attempts failed
   "dropped"}                             \* forgotten, or the process ended

At(p) == {t \in Task : place[t] \in p}

First(t, p) == \A u \in 1..t-1 : place[u] # p

PoolBuffer == 2 * Concurrency   \* of wp.tasks and of wp.results

Busy == Cardinality(At({"proving", "sending"}))

TypeOK ==
  /\ place \in [Task -> Place]
  /\ receiver \in BOOLEAN /\ reporter \in BOOLEAN
  /\ exited \in 0..Concurrency
  /\ phase \in {"running", "cancelled", "draining", "drained", "stopped",
                "exited", "crashed", "panicked"}
  /\ Cardinality(At({"stream"})) <= 1
  /\ Cardinality(At({"received", "submitting", "failing"})) <= 1
  /\ Cardinality(At({"taskChan"})) <= TaskBuffer
  /\ Cardinality(At({"tasks"})) <= PoolBuffer
  /\ Cardinality(At({"results"})) <= PoolBuffer
  /\ Busy + exited <= Concurrency

Init ==
  /\ place = [t \in Task |-> "wire"]
  /\ receiver = TRUE /\ reporter = TRUE
  /\ exited = 0
  /\ phase = "running"

Running == phase \notin {"exited", "crashed", "panicked"}

\* w.ctx, from which every context of the worker derives, is cancelled.
Cancelled == phase \notin {"running", "panicked"}

TasksClosed == phase \in {"draining", "drained", "stopped"}

Move(t, from, to) ==
  /\ Running /\ place[t] = from
  /\ place' = [place EXCEPT ![t] = to]

\* Tasks the process has and has not settled.
InHand == Task \ At({"wire", "reported", "givenUp", "dropped"})

\* The process ends and loses them, but for the reports under way that the
\* coordinator serves all the same.
EndProcess(how, served) ==
  /\ phase' = how
  /\ place' = [t \in Task |-> IF t \in served THEN "reported"
                              ELSE IF t \in InHand THEN "dropped" ELSE place[t]]
  /\ UNCHANGED <<receiver, reporter, exited>>

-----------------------------------------------------------------------------
(* receiveTasksStream.  Reconnecting after an error changes nothing here.  *)

\* Recv may still return a message that had arrived when its context was
\* cancelled.
Recv(t) ==
  /\ At({"stream"}) = {} /\ First(t, "wire")
  /\ Move(t, "wire", "stream")
  /\ UNCHANGED <<receiver, reporter, exited, phase>>

\* taskChan <- task
PassOn(t) ==
  /\ Cardinality(At({"taskChan"})) < TaskBuffer /\ phase # "stopped"
  /\ Move(t, "stream", "taskChan")
  /\ UNCHANGED <<receiver, reporter, exited, phase>>

\* case <-ctx.Done()
AbandonStream(t) ==
  /\ Cancelled
  /\ Move(t, "stream", "dropped")
  /\ UNCHANGED <<receiver, reporter, exited, phase>>

\* Disconnect has closed taskChan: the select may choose the send, which
\* panics, and nothing recovers.
SendOnClosedTaskChan(t) ==
  /\ phase = "stopped" /\ place[t] = "stream"
  /\ EndProcess("crashed", {})

-----------------------------------------------------------------------------
(* taskReceiverLoop *)

ReceiverFree == receiver /\ At({"received", "submitting", "failing"}) = {}

TakeTask(t) ==
  /\ ReceiverFree /\ First(t, "taskChan")
  /\ Move(t, "taskChan", "received")
  /\ UNCHANGED <<receiver, reporter, exited, phase>>

\* Input that is not JSON (a keepalive's is empty) is reported at once.
RejectInput(t) ==
  /\ Move(t, "received", "failing")
  /\ UNCHANGED <<receiver, reporter, exited, phase>>

StartTaskOrSkip(t) ==   \* mutant: no attempt is made at a refused task
  /\ Move(t, "received", "submitting") \/ Move(t, "received", "givenUp")
  /\ UNCHANGED <<receiver, reporter, exited, phase>>

\* StartTask, whatever it answers.
StartTask(t) ==
  /\ Move(t, "received", "submitting")
  /\ UNCHANGED <<receiver, reporter, exited, phase>>

Submit(t) ==
  /\ ~TasksClosed /\ Cardinality(At({"tasks"})) < PoolBuffer
  /\ Move(t, "submitting", "tasks")
  /\ UNCHANGED <<receiver, reporter, exited, phase>>

SubmitForgets(t) ==   \* mutant: the error is logged and not reported
  /\ Cancelled \/ Cardinality(At({"tasks"})) = PoolBuffer
  /\ Move(t, "submitting", "dropped")
  /\ UNCHANGED <<receiver, reporter, exited, phase>>

\* TaskSubmitTimeout, or w.ctx is cancelled.
SubmitFails(t) ==
  /\ Cancelled \/ Cardinality(At({"tasks"})) = PoolBuffer
  /\ Move(t, "submitting", "failing")
  /\ UNCHANGED <<receiver, reporter, exited, phase>>

\* A send on wp.tasks after close(wp.tasks): the loop dies of the panic that
\* Worker.Start's deferred function recovers.
SubmitPanics(t) ==
  /\ TasksClosed
  /\ Move(t, "submitting", "dropped")
  /\ receiver' = FALSE
  /\ UNCHANGED <<reporter, exited, phase>>

ReceiverEndsOnClose ==   \* mutant: no case <-w.ctx.Done()
  /\ ReceiverFree /\ phase = "stopped"
  /\ receiver' = FALSE
  /\ UNCHANGED <<place, reporter, exited, phase>>

\* case <-w.ctx.Done(), or taskChan closed
ReceiverEnds ==
  /\ Running /\ ReceiverFree /\ Cancelled
  /\ receiver' = FALSE
  /\ UNCHANGED <<place, reporter, exited, phase>>

-----------------------------------------------------------------------------
(* WorkerPool.worker *)

Take(t) ==
  /\ Busy + exited < Concurrency /\ First(t, "tasks")
  /\ Move(t, "tasks", "proving")
  /\ UNCHANGED <<receiver, reporter, exited, phase>>

ProveAndReturn(t) ==   \* mutant: return instead of continue on an error
  /\ t \notin Fatal
  /\ \/ /\ Move(t, "proving", "sending")
        /\ UNCHANGED <<receiver, reporter, exited, phase>>
     \/ /\ Move(t, "proving", "results")
        /\ exited' = exited + 1
        /\ UNCHANGED <<receiver, reporter, phase>>

\* processTask succeeds or fails: either way there is a result.
ProcessTask(t) ==
  /\ t \notin Fatal
  /\ Move(t, "proving", "sending")
  /\ UNCHANGED <<receiver, reporter, exited, phase>>

\* FillBytes panics on a leaf that does not fit 32 bytes, and no goroutine of
\* the pool recovers.
ProcessTaskPanics(t) ==
  /\ Running /\ t \in Fatal /\ place[t] = "proving"
  /\ \E served \in SUBSET At({"failing", "reporting"}) :
       EndProcess("panicked", IF Cancelled THEN {} ELSE served)

SendUnbuffered(t) ==   \* mutant: make(chan TaskResult), no buffer
  /\ reporter
  /\ Move(t, "sending", "reporting")
  /\ UNCHANGED <<receiver, reporter, exited, phase>>

\* results <- result.  The other case, <-wp.ctx.Done(), is never ready: Stop
\* cancels wp.ctx when every goroutine has returned.
SendResult(t) ==
  /\ Cardinality(At({"results"})) < PoolBuffer
  /\ Move(t, "sending", "results")
  /\ UNCHANGED <<receiver, reporter, exited, phase>>

GoroutineExitsAtOnce ==   \* mutant: does not drain what is queued
  /\ Running /\ TasksClosed
  /\ Busy + exited < Concurrency
  /\ exited' = exited + 1
  /\ UNCHANGED <<place, receiver, reporter, phase>>

\* wp.tasks is closed and drained.
GoroutineExits ==
  /\ Running /\ TasksClosed /\ At({"tasks"}) = {}
  /\ Busy + exited < Concurrency
  /\ exited' = exited + 1
  /\ UNCHANGED <<place, receiver, reporter, phase>>

-----------------------------------------------------------------------------
(* resultReporterLoop, and the reports *)

\* A goroutine of its own per result, so the loop never waits for an RPC.
TakeResult(t) ==
  /\ reporter
  /\ Move(t, "results", "reporting")
  /\ UNCHANGED <<receiver, reporter, exited, phase>>

ReporterEnds ==
  /\ Running /\ reporter /\ Cancelled
  /\ reporter' = FALSE
  /\ UNCHANGED <<place, receiver, exited, phase>>

\* An attempt reaches the coordinator.  Under a cancelled context it can only
\* have been on its way before; see Cancel.
Reported(t) ==
  /\ ~Cancelled
  /\ Move(t, place[t], "reported") /\ place[t] \in {"failing", "reporting"}
  /\ UNCHANGED <<receiver, reporter, exited, phase>>

\* RetryWithBackoff: MaxRetries attempts failed.
GiveUp(t) ==
  /\ ~Cancelled
  /\ Move(t, place[t], "givenUp") /\ place[t] \in {"failing", "reporting"}
  /\ UNCHANGED <<receiver, reporter, exited, phase>>

\* RetryWithBackoff under a cancelled context: the attempt fails at once and
\* the wait for the next one returns ctx.Err().
AbandonReport(t) ==
  /\ Cancelled
  /\ Move(t, place[t], "dropped") /\ place[t] \in {"failing", "reporting"}
  /\ UNCHANGED <<receiver, reporter, exited, phase>>

-----------------------------------------------------------------------------
(* Worker.Stop, and the end of the process *)

\* Any of the reports under way may have been served already.
Cancel ==
  /\ phase = "running"
  /\ phase' = "cancelled"
  /\ \E served \in SUBSET At({"failing", "reporting"}) :
       place' = [t \in Task |-> IF t \in served THEN "reported" ELSE place[t]]
  /\ UNCHANGED <<receiver, reporter, exited>>

CloseTasks ==
  /\ phase = "cancelled"
  /\ phase' = "draining"
  /\ UNCHANGED <<place, receiver, reporter, exited>>

\* wg.Wait, then close(results) and wp.cancel.
PoolStopped ==
  /\ phase = "draining" /\ exited = Concurrency
  /\ phase' = "drained"
  /\ UNCHANGED <<place, receiver, reporter, exited>>

Disconnect ==
  /\ phase = "drained"
  /\ phase' = "stopped"
  /\ UNCHANGED <<place, receiver, reporter, exited>>

\* main returns when Stop has returned, or after ShutdownTimeout.
ExitProcess ==
  /\ phase \in {"cancelled", "draining", "drained", "stopped"}
  /\ EndProcess("exited", {})

-----------------------------------------------------------------------------
ReceiveLoop(t) ==
  \/ TakeTask(t) \/ RejectInput(t) \/ StartTask(t) \/ Submit(t)
  \/ SubmitFails(t) \/ SubmitPanics(t)

Pool(t) ==
  Take(t) \/ ProcessTask(t) \/ ProcessTaskPanics(t) \/ SendResult(t)

Reports(t) == TakeResult(t) \/ Reported(t) \/ GiveUp(t) \/ AbandonReport(t)

StopWorker == Cancel \/ CloseTasks \/ PoolStopped \/ Disconnect

Next ==
  \/ \E t \in Task :
       \/ Recv(t) \/ PassOn(t) \/ AbandonStream(t) \/ SendOnClosedTaskChan(t)
       \/ ReceiveLoop(t) \/ Pool(t) \/ Reports(t)
  \/ ReceiverEnds \/ ReporterEnds \/ GoroutineExits
  \/ StopWorker \/ ExitProcess

Spec == Init /\ [][Next]_vars

\* Goroutines run, proofs end and calls have deadlines.  Nobody has to send a
\* task or to stop the worker, and the time limit need not run out.
Fairness ==
  /\ \A t \in Task :
       /\ WF_vars(PassOn(t) \/ AbandonStream(t) \/ SendOnClosedTaskChan(t))
       /\ WF_vars(ReceiveLoop(t)) /\ WF_vars(Pool(t)) /\ WF_vars(Reports(t))
  /\ WF_vars(ReceiverEnds) /\ WF_vars(ReporterEnds) /\ WF_vars(GoroutineExits)
  /\ WF_vars(CloseTasks \/ PoolStopped \/ Disconnect)

FairSpec == Spec /\ Fairness

-----------------------------------------------------------------------------
(* Properties *)

\* "losing results is unacceptable" (worker_pool.go:166): a worker that was not
\* told to stop loses a task only when it dies of a fatal one; no loop that
\* ends, no select that gives up and no closed channel loses any.
DroppedOnlyOnStopOrPanic ==
  At({"dropped"}) # {}
    => Cancelled \/ (phase = "panicked" /\ At({"dropped"}) \cap Fatal # {})

\* "waits for in-progress proofs to complete" (worker.go:154): when the pool
\* has stopped, everything submitted to it was computed, and nobody is left to
\* send on the closed results channel.
SubmittedIsComputed ==
  phase \in {"drained", "stopped"} => At({"tasks", "proving", "sending"}) = {}

\* Channels, loops and goroutines together do what Coordinator takes a worker
\* to do: no report before the task was refused or computed, and none missing
\* before the worker is told to stop or a panic ends it.
StageAt(p) ==
  CASE p = "received" -> "received"
    [] p \in {"submitting", "tasks", "proving"} -> "running"
    [] p \in {"failing", "sending", "results", "reporting"} -> "finished"
    [] OTHER -> "none"

stage == [t \in Task |-> StageAt(place[t])]

intact == phase = "running"

Jobs == INSTANCE WorkerJobs WITH Job <- Task

JobsSpec == Jobs!Spec

\* Back pressure never stalls a running worker: what the stream hands over is
\* reported, or all attempts to report it fail, unless the worker is told to
\* stop or a fatal task takes the process with it.
EveryTaskSettled ==
  \A t \in Task : place[t] = "stream"
       ~> place[t] \in {"reported", "givenUp"} \/ phase # "running"

\* Once told to stop, the loops end whatever they were doing.
LoopsEnd == Cancelled ~> (~receiver /\ ~reporter) \/ ~Running

\* The pool's Stop returns by itself when the results channel can hold all
\* that is left to compute.  With more it waits for ever if the reporter has
\* ended before: only the time limit of main.go ends the process then.
DrainsWithinBuffer ==
  phase = "draining"
    /\ Cardinality(At({"tasks", "proving", "sending", "results"})) <= PoolBuffer
    ~> phase # "draining"

\* cmd/worker/main.go:228, "Report any pending results to coordinator": after
\* a shutdown that ended in time no result is left behind.  The code does not
\* do this: the context of the reports is the first thing Stop cancels.
PendingResultsReported == phase = "stopped" => At({"results", "dropped"}) = {}
=============================================================================
