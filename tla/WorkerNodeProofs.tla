-------------------------- MODULE WorkerNodeProofs --------------------------
(***************************************************************************)
(* Theorems about WorkerNode, for any number of tasks, pool goroutines and *)
(* places in the task channel.                                             *)
(***************************************************************************)
EXTENDS WorkerNode, FiniteSetTheorems, TLAPS

LEMMA Numbers ==
  Tasks \in Nat \ {0} /\ Concurrency \in Nat \ {0} /\ TaskBuffer \in Nat \ {0}
BY WorkerAssumption

-----------------------------------------------------------------------------
(* What one step of one task does to the places *)

LEMMA AtFinite ==
  ASSUME NEW p
  PROVE  IsFiniteSet(At(p)) /\ Cardinality(At(p)) \in Nat
<1>1. IsFiniteSet(Task)
  BY Numbers, FS_Interval DEF Task
<1> QED BY <1>1, FS_Subset, FS_CardinalityType DEF At

Goes(t, from, to) ==
  place[t] = from /\ place' = [place EXCEPT ![t] = to]

\* A task that stays among the places p, or outside, does not change who is
\* there; one that comes in or leaves counts for one.
LEMMA Moved ==
  ASSUME place \in [Task -> Place], NEW t \in Task, NEW from, NEW to,
         Goes(t, from, to), NEW p
  PROVE  /\ (from \in p <=> to \in p) => At(p)' = At(p)
         /\ from \in p /\ to \notin p => At(p)' = At(p) \ {t} /\ t \in At(p)
         /\ from \notin p /\ to \in p => At(p)' = At(p) \cup {t} /\ t \notin At(p)
BY DEF Goes, At

LEMMA MovedCardinality ==
  ASSUME place \in [Task -> Place], NEW t \in Task, NEW from, NEW to,
         Goes(t, from, to), NEW p
  PROVE  /\ (from \in p <=> to \in p)
              => Cardinality(At(p)') = Cardinality(At(p))
         /\ from \in p /\ to \notin p
              => Cardinality(At(p)') = Cardinality(At(p)) - 1
         /\ from \notin p /\ to \in p
              => Cardinality(At(p)') = Cardinality(At(p)) + 1
<1>1. IsFiniteSet(At(p))
  BY AtFinite
<1> QED BY <1>1, Moved, FS_AddElement, FS_RemoveElement

-----------------------------------------------------------------------------
(* Type correctness *)

Flags ==
  /\ place \in [Task -> Place]
  /\ receiver \in BOOLEAN /\ reporter \in BOOLEAN
  /\ exited \in 0..Concurrency
  /\ phase \in {"running", "cancelled", "draining", "drained", "stopped",
                "exited", "crashed", "panicked"}

Limits ==
  /\ Cardinality(At({"stream"})) <= 1
  /\ Cardinality(At({"received", "submitting", "failing"})) <= 1
  /\ Cardinality(At({"taskChan"})) <= TaskBuffer
  /\ Cardinality(At({"tasks"})) <= PoolBuffer
  /\ Cardinality(At({"results"})) <= PoolBuffer
  /\ Busy + exited <= Concurrency

LEMMA TypeParts == TypeOK <=> Flags /\ Limits
BY DEF TypeOK, Flags, Limits

\* Every step but Cancel and the end of the process moves at most one task.
Compute(t) == Take(t) \/ ProcessTask(t) \/ SendResult(t)

TaskStep ==
  \E t \in Task :
    \/ Recv(t) \/ PassOn(t) \/ AbandonStream(t)
    \/ ReceiveLoop(t) \/ Compute(t) \/ Reports(t)

PhaseStep == ReceiverEnds \/ ReporterEnds \/ CloseTasks \/ PoolStopped \/ Disconnect

EndStep ==
  \/ \E t \in Task : SendOnClosedTaskChan(t) \/ ProcessTaskPanics(t)
  \/ ExitProcess

LEMMA Steps == Next <=> TaskStep \/ PhaseStep \/ EndStep \/ GoroutineExits \/ Cancel
BY DEF Next, TaskStep, PhaseStep, EndStep, StopWorker, Pool, Compute

\* However the process ends, each task in hand is dropped unless its report
\* was served; a process that was not told to stop ends by a fatal task.
LEMMA Ends ==
  ASSUME EndStep
  PROVE  \E how \in {"exited", "crashed", "panicked"},
            served \in SUBSET At({"failing", "reporting"}) :
           /\ EndProcess(how, served)
           /\ how = "panicked" => \E t \in Task : t \in Fatal /\ place[t] = "proving"
           /\ ~Cancelled => phase = "running" /\ how = "panicked"
<1>1. ASSUME NEW t \in Task, SendOnClosedTaskChan(t)
      PROVE  EndProcess("crashed", {}) /\ Cancelled
  BY <1>1 DEF SendOnClosedTaskChan, Cancelled
<1>2. CASE ExitProcess
  BY <1>2 DEF ExitProcess, Cancelled
<1>3. ASSUME NEW t \in Task, ProcessTaskPanics(t)
      PROVE  \E served \in SUBSET At({"failing", "reporting"}) :
               /\ EndProcess("panicked", served)
               /\ t \in Fatal /\ place[t] = "proving"
               /\ ~Cancelled => phase = "running"
  <2>1. PICK some \in SUBSET At({"failing", "reporting"}) :
          EndProcess("panicked", IF Cancelled THEN {} ELSE some)
    BY <1>3 DEF ProcessTaskPanics
  <2>2. t \in Fatal /\ place[t] = "proving" /\ (~Cancelled => phase = "running")
    BY <1>3 DEF ProcessTaskPanics, Cancelled, Running
  <2> QED BY <2>1, <2>2
<1> QED BY <1>1, <1>2, <1>3 DEF EndStep

\* A step of one task, and what it takes to get to the place it goes to.
Step(t, from, to) ==
  /\ Goes(t, from, to) /\ Running
  /\ phase' = phase /\ exited' = exited

Entry(from, to) ==
  /\ to = "stream" => Cardinality(At({"stream"})) = 0
  /\ to = "taskChan" => Cardinality(At({"taskChan"})) < TaskBuffer
  /\ to = "received"
       => Cardinality(At({"received", "submitting", "failing"})) = 0
  /\ to \in {"submitting", "failing"} => from \in {"received", "submitting"}
  /\ to = "tasks" => ~TasksClosed /\ Cardinality(At({"tasks"})) < PoolBuffer
  /\ to = "proving" => from = "tasks" /\ Busy + exited < Concurrency
  /\ to = "sending" => from = "proving"
  /\ to = "results" => Cardinality(At({"results"})) < PoolBuffer
  /\ to = "dropped" => Cancelled

LEMMA EveryEntry ==
  ASSUME TaskStep
  PROVE  \E t \in Task, from \in Place, to \in Place :
            Step(t, from, to) /\ Entry(from, to)
<1> PICK t \in Task : \/ Recv(t) \/ PassOn(t) \/ AbandonStream(t)
                      \/ ReceiveLoop(t) \/ Compute(t) \/ Reports(t)
  BY DEF TaskStep
<1> SUFFICES \E from \in Place, to \in Place : Step(t, from, to) /\ Entry(from, to)
  OBVIOUS
<1>e. Cardinality({}) = 0
  BY FS_EmptySet
<1>1. CASE Recv(t) \/ PassOn(t) \/ AbandonStream(t)
  BY <1>1, <1>e DEF Recv, PassOn, AbandonStream, Move, Step, Goes, Entry, Place
<1>2. CASE TakeTask(t) \/ RejectInput(t) \/ StartTask(t)
  BY <1>2, <1>e DEF TakeTask, RejectInput, StartTask, ReceiverFree, Move, Step,
                    Goes, Entry, Place
<1>3. CASE Submit(t) \/ SubmitFails(t) \/ SubmitPanics(t)
  BY <1>3 DEF Submit, SubmitFails, SubmitPanics, Move, Step, Goes, Entry, Place,
              TasksClosed, Cancelled
<1>4. CASE Compute(t)
  BY <1>4 DEF Compute, Take, ProcessTask, SendResult, Move, Step, Goes, Entry, Place
<1>5. CASE Reports(t)
  BY <1>5 DEF Reports, TakeResult, Reported, GiveUp, AbandonReport, Move, Step,
              Goes, Entry, Place
<1> QED BY <1>1, <1>2, <1>3, <1>4, <1>5 DEF ReceiveLoop

LEMMA LimitKept ==
  ASSUME place \in [Task -> Place], NEW t \in Task, NEW from, NEW to,
         Goes(t, from, to), NEW p, NEW n \in Nat, Cardinality(At(p)) <= n,
         to \in p => from \in p \/ Cardinality(At(p)) < n
  PROVE  Cardinality(At(p)') <= n
BY AtFinite, MovedCardinality

LEMMA TypeTaskStep ==
  ASSUME TypeOK, TaskStep
  PROVE  TypeOK'
<1> USE TypeParts
<1>1. Flags'
  BY DEF TaskStep, Recv, PassOn, AbandonStream, ReceiveLoop, TakeTask, RejectInput,
         StartTask, Submit, SubmitFails, SubmitPanics, Compute, Take, ProcessTask,
         SendResult, Reports, TakeResult, Reported, GiveUp, AbandonReport, Move,
         Flags, Place
<1> PICK t \in Task, from \in Place, to \in Place :
      Step(t, from, to) /\ Entry(from, to)
  BY EveryEntry
<1>2. /\ place \in [Task -> Place] /\ Goes(t, from, to) /\ exited' = exited
      /\ exited \in 0..Concurrency
  BY DEF Flags, Step
<1>3. PoolBuffer \in Nat /\ Concurrency - exited \in Nat
  BY <1>2, Numbers DEF PoolBuffer
<1>4. Cardinality(At({"stream"})') <= 1
  BY <1>2, LimitKept DEF Limits, Entry
<1>5. Cardinality(At({"received", "submitting", "failing"})') <= 1
  BY <1>2, LimitKept DEF Limits, Entry
<1>6. Cardinality(At({"taskChan"})') <= TaskBuffer
  BY <1>2, LimitKept, Numbers DEF Limits, Entry
<1>7. Cardinality(At({"tasks"})') <= PoolBuffer
  BY <1>2, <1>3, LimitKept DEF Limits, Entry
<1>8. Cardinality(At({"results"})') <= PoolBuffer
  BY <1>2, <1>3, LimitKept DEF Limits, Entry
<1>9. Cardinality(At({"proving", "sending"})') <= Concurrency - exited
  <2>1. Cardinality(At({"proving", "sending"})) \in Nat
    BY AtFinite
  <2>2. Cardinality(At({"proving", "sending"})) <= Concurrency - exited
    BY <2>1, <1>2, Numbers DEF Limits, Busy
  <2>3. to \in {"proving", "sending"}
          => \/ from \in {"proving", "sending"}
             \/ Cardinality(At({"proving", "sending"})) < Concurrency - exited
    BY <2>1, <1>2, Numbers DEF Entry, Busy
  <2> QED BY <2>2, <2>3, <1>2, <1>3, LimitKept
<1>10. (Busy + exited)' <= Concurrency
  <2>1. Cardinality(At({"proving", "sending"})') \in Nat
    BY AtFinite, MovedCardinality, <1>2, Moved, FS_AddElement, FS_RemoveElement,
       FS_CardinalityType
  <2> QED BY <2>1, <1>2, <1>9, Numbers DEF Busy
<1>11. Limits'
  BY <1>4, <1>5, <1>6, <1>7, <1>8, <1>10 DEF Limits, PoolBuffer
<1> QED BY <1>1, <1>11 DEF TypeOK, Flags, Limits

LEMMA TypeOtherStep ==
  ASSUME TypeOK, PhaseStep \/ UNCHANGED vars
  PROVE  TypeOK'
BY DEF PhaseStep, ReceiverEnds, ReporterEnds, CloseTasks, PoolStopped,
       Disconnect, vars, TypeOK, At, Busy, PoolBuffer

LEMMA TypeGoroutineExits ==
  ASSUME TypeOK, GoroutineExits
  PROVE  TypeOK'
<1>1. Busy \in Nat
  BY AtFinite DEF Busy
<1>2. exited' \in 0..Concurrency /\ (Busy + exited)' <= Concurrency
  BY <1>1, Numbers DEF GoroutineExits, TypeOK, Busy, At
<1> QED BY <1>2 DEF GoroutineExits, TypeOK, At, Busy, PoolBuffer

\* Served reports, and dropped tasks, move to places without a limit.
LEMMA TypeCancel ==
  ASSUME TypeOK, Cancel \/ EndStep
  PROVE  TypeOK'
<1>0. /\ \A t \in Task : place'[t] \in {place[t], "reported", "dropped"}
      /\ place' \in [Task -> Place]
      /\ phase' \in {"cancelled", "exited", "crashed", "panicked"}
      /\ UNCHANGED <<receiver, reporter, exited>>
  <2>1. CASE Cancel
    BY <2>1 DEF Cancel, At, TypeOK, Place
  <2>2. CASE EndStep
    BY <2>2, Ends DEF EndProcess, At, TypeOK, Place
  <2> QED BY <2>1, <2>2
<1>1. ASSUME NEW p, "reported" \notin p, "dropped" \notin p
      PROVE  At(p)' \subseteq At(p)
  BY <1>0, <1>1 DEF At
<1>2. ASSUME NEW p, "reported" \notin p, "dropped" \notin p
      PROVE  Cardinality(At(p)') <= Cardinality(At(p)) /\ Cardinality(At(p)') \in Nat
  BY <1>1, <1>2, AtFinite, FS_Subset, FS_CardinalityType
<1>3. Flags'
  BY <1>0 DEF Flags, TypeOK
<1>4. exited \in Nat /\ exited' = exited
  BY <1>0 DEF TypeOK
<1>5. Cardinality(At({"proving", "sending"})') <= Cardinality(At({"proving", "sending"}))
  BY <1>2
<1>6. (Busy + exited)' <= Concurrency
  BY <1>2, <1>4, <1>5, AtFinite, Numbers DEF TypeOK, Busy
<1>7. Limits'
  BY <1>2, <1>6, AtFinite, Numbers DEF TypeOK, Limits, PoolBuffer
<1> QED BY <1>3, <1>7 DEF TypeOK, Flags, Limits

LEMMA TypeStep ==
  ASSUME TypeOK, [Next]_vars
  PROVE  TypeOK'
BY Steps, TypeTaskStep, TypeOtherStep, TypeGoroutineExits, TypeCancel

LEMMA TypeInit == Init => TypeOK
<1> SUFFICES ASSUME Init PROVE TypeOK
  OBVIOUS
<1>1. ASSUME NEW p, "wire" \notin p
      PROVE  Cardinality(At(p)) = 0
  <2>1. At(p) = {}
    BY <1>1 DEF Init, At
  <2> QED BY <2>1, FS_EmptySet
<1> QED BY <1>1, Numbers DEF Init, TypeOK, Place, Busy, PoolBuffer

\* Every reachable state of the worker is well typed: no channel holds more
\* than its capacity, each loop has at most one task in hand, and no more
\* goroutines compute than the pool has left.
THEOREM WorkerTypeOK == Spec => []TypeOK
BY TypeInit, TypeStep, PTL DEF Spec

-----------------------------------------------------------------------------
(* A running worker forgets nothing *)

LEMMA DroppedStep ==
  ASSUME TypeOK, DroppedOnlyOnStopOrPanic, [Next]_vars
  PROVE  DroppedOnlyOnStopOrPanic'
<1>1. CASE TaskStep
  <2> PICK t \in Task, from \in Place, to \in Place :
        Step(t, from, to) /\ Entry(from, to)
    BY <1>1, EveryEntry
  <2>1. to # "dropped" => At({"dropped"})' \subseteq At({"dropped"})
    BY DEF Step, Goes, At, TypeOK
  <2>2. phase # "panicked" /\ phase' = phase
    BY DEF Step, Running
  <2> QED BY <2>1, <2>2 DEF Entry, DroppedOnlyOnStopOrPanic, Cancelled
<1>2. CASE PhaseStep \/ GoroutineExits \/ UNCHANGED vars
  BY <1>2 DEF PhaseStep, ReceiverEnds, ReporterEnds, CloseTasks, PoolStopped,
       Disconnect, GoroutineExits, Running, TasksClosed, vars,
       DroppedOnlyOnStopOrPanic, Cancelled, At
<1>3. CASE Cancel
  BY <1>3 DEF Cancel, DroppedOnlyOnStopOrPanic, Cancelled
<1>4. CASE EndStep
  <2>1. PICK how \in {"exited", "crashed", "panicked"},
             served \in SUBSET At({"failing", "reporting"}) :
          /\ EndProcess(how, served)
          /\ how = "panicked" => \E t \in Task : t \in Fatal /\ place[t] = "proving"
    BY <1>4, Ends
  <2>2. CASE how = "panicked"
    <3>1. PICK t \in Task : t \in Fatal /\ place[t] = "proving"
      BY <2>1, <2>2
    <3>2. place'[t] = "dropped"
      BY <2>1, <3>1 DEF EndProcess, InHand, At
    <3>3. t \in At({"dropped"})' /\ phase' = "panicked"
      BY <2>1, <2>2, <3>2 DEF EndProcess, At
    <3> QED BY <3>1, <3>3 DEF DroppedOnlyOnStopOrPanic
  <2>3. CASE how # "panicked"
    BY <2>1, <2>3 DEF EndProcess, DroppedOnlyOnStopOrPanic, Cancelled
  <2> QED BY <2>2, <2>3
<1> QED BY <1>1, <1>2, <1>3, <1>4, Steps

\* A worker that was not told to stop loses a task only by dying of a fatal
\* one, which is among the lost; no loop, select or closed channel loses any.
THEOREM WorkerDropsOnlyOnStopOrPanic == Spec => []DroppedOnlyOnStopOrPanic
<1>1. Init => DroppedOnlyOnStopOrPanic
  BY DEF Init, DroppedOnlyOnStopOrPanic, At
<1>2. TypeOK /\ DroppedOnlyOnStopOrPanic /\ [Next]_vars => DroppedOnlyOnStopOrPanic'
  BY DroppedStep
<1> QED BY <1>1, <1>2, WorkerTypeOK, PTL DEF Spec

-----------------------------------------------------------------------------
(* The pool computes what it was given *)

\* The first goroutine that returns finds the queue closed and empty, so it
\* stays empty, and the pool has stopped when all have returned.
PoolInv ==
  /\ exited > 0 => phase \notin {"running", "cancelled"} /\ At({"tasks"}) = {}
  /\ phase \in {"drained", "stopped"} => exited = Concurrency

LEMMA PoolStep ==
  ASSUME TypeOK, PoolInv, [Next]_vars
  PROVE  PoolInv'
<1>1. CASE TaskStep
  <2> PICK t \in Task, from \in Place, to \in Place :
        Step(t, from, to) /\ Entry(from, to)
    BY <1>1, EveryEntry
  <2>1. to # "tasks" => At({"tasks"})' \subseteq At({"tasks"})
    BY DEF Step, Goes, At, TypeOK
  <2>2. to = "tasks" => phase \in {"running", "cancelled"}
    BY DEF Step, Entry, Running, TasksClosed, TypeOK
  <2> QED BY <2>1, <2>2 DEF Step, PoolInv
<1>2. CASE PhaseStep \/ UNCHANGED vars
  BY <1>2, Numbers
     DEF PhaseStep, ReceiverEnds, ReporterEnds, CloseTasks, PoolStopped,
         Disconnect, vars, PoolInv, At
<1>3. CASE GoroutineExits
  <2>1. Busy \in Nat
    BY AtFinite DEF Busy
  <2> QED BY <1>3, <2>1, Numbers
          DEF GoroutineExits, PoolInv, At, TasksClosed, TypeOK
<1>4. CASE Cancel
  BY <1>4 DEF Cancel, PoolInv, TypeOK
<1>5. CASE EndStep
  <2>1. PICK how \in {"exited", "crashed", "panicked"},
             served \in SUBSET At({"failing", "reporting"}) :
          EndProcess(how, served)
    BY <1>5, Ends
  <2>2. At({"tasks"})' \subseteq At({"tasks"})
    BY <2>1 DEF EndProcess, At
  <2> QED BY <2>1, <2>2 DEF EndProcess, PoolInv
<1> QED BY <1>1, <1>2, <1>3, <1>4, <1>5, Steps

LEMMA StoppedPoolIsEmpty ==
  ASSUME TypeOK, PoolInv
  PROVE  SubmittedIsComputed
<1> SUFFICES ASSUME phase \in {"drained", "stopped"}
             PROVE  At({"tasks", "proving", "sending"}) = {}
  BY DEF SubmittedIsComputed
<1>1. exited = Concurrency /\ At({"tasks"}) = {}
  BY Numbers DEF PoolInv
<1>2. Cardinality(At({"proving", "sending"})) = 0
  BY <1>1, AtFinite, Numbers DEF TypeOK, Busy
<1>3. At({"proving", "sending"}) = {}
  BY <1>2, AtFinite, FS_EmptySet
<1> QED BY <1>1, <1>3 DEF At

\* When the pool has stopped everything submitted to it has been computed,
\* however the closing of its queue met the goroutines and the loop before it.
THEOREM WorkerSubmittedIsComputed == Spec => []SubmittedIsComputed
<1>1. Init => PoolInv
  BY DEF Init, PoolInv
<1>2. TypeOK /\ PoolInv /\ [Next]_vars => PoolInv'
  BY PoolStep
<1>3. TypeOK /\ PoolInv => SubmittedIsComputed
  BY StoppedPoolIsEmpty
<1> QED BY <1>1, <1>2, <1>3, WorkerTypeOK, PTL DEF Spec

-----------------------------------------------------------------------------
(* The contract with Coordinator *)

LEMMA TaskBecomes ==
  ASSUME NEW t \in Task, NEW from, NEW to, Goes(t, from, to), TypeOK
  PROVE  Jobs!Becomes(t, StageAt(from), StageAt(to))
<1>1. stage[t] = StageAt(from)
  BY DEF Goes, stage
<1>2. \A u \in Task : stage'[u] = [stage EXCEPT ![t] = StageAt(to)][u]
  BY DEF Goes, stage, TypeOK
<1>3. stage' = [stage EXCEPT ![t] = StageAt(to)]
  BY <1>2 DEF stage
<1> QED BY <1>1, <1>3 DEF Jobs!Becomes

LEMMA TaskKeepsStage ==
  ASSUME NEW t \in Task, NEW from, NEW to, Goes(t, from, to), TypeOK,
         StageAt(from) = StageAt(to)
  PROVE  UNCHANGED stage
<1>1. \A u \in Task : stage'[u] = stage[u]
  BY DEF Goes, stage, TypeOK
<1> QED BY <1>1 DEF stage

\* A step takes at most one task further, or the worker was told to stop.
JobsMove ==
  \/ UNCHANGED stage
  \/ \E t \in Task : Jobs!Advance(t)
  \/ ~intact' /\ \E forgotten \in SUBSET Task : Jobs!Forget(forgotten)

\* A task that is dropped is forgotten.
LEMMA DroppedJobs ==
  ASSUME TypeOK, Cancelled, NEW t \in Task, NEW from, Goes(t, from, "dropped"),
         UNCHANGED phase
  PROVE  JobsMove
<1>1. \A u \in Task : stage'[u] = IF u \in {t} THEN "none" ELSE stage[u]
  BY DEF Goes, stage, StageAt, TypeOK
<1>2. Jobs!Forget({t})
  BY <1>1 DEF Jobs!Forget, stage
<1> QED BY <1>2 DEF JobsMove, intact, Cancelled

LEMMA ReceiveJobs ==
  ASSUME TypeOK, NEW t \in Task,
         \/ Recv(t) \/ PassOn(t) \/ AbandonStream(t) \/ ReceiveLoop(t)
  PROVE  JobsMove
<1>1. CASE Recv(t) \/ PassOn(t)
  <2>1. Goes(t, "wire", "stream") \/ Goes(t, "stream", "taskChan")
    BY <1>1 DEF Recv, PassOn, Move, Goes
  <2>2. UNCHANGED stage
    BY <2>1, TaskKeepsStage DEF StageAt
  <2> QED BY <2>2 DEF JobsMove
<1>2. CASE AbandonStream(t) \/ SubmitPanics(t)
  <2>1. /\ Cancelled /\ UNCHANGED phase
        /\ Goes(t, "stream", "dropped") \/ Goes(t, "submitting", "dropped")
    BY <1>2 DEF AbandonStream, SubmitPanics, Move, Goes, TasksClosed, Cancelled
  <2> QED BY <2>1, DroppedJobs
<1>3. CASE TakeTask(t)
  <2>1. Goes(t, "taskChan", "received")
    BY <1>3 DEF TakeTask, Move, Goes
  <2>2. Jobs!Receive(t)
    BY <2>1, TaskBecomes DEF StageAt, Jobs!Receive
  <2> QED BY <2>2 DEF JobsMove, Jobs!Advance
<1>4. CASE RejectInput(t)
  <2>1. Goes(t, "received", "failing")
    BY <1>4 DEF RejectInput, Move, Goes
  <2>2. Jobs!Refuse(t)
    BY <2>1, TaskBecomes DEF StageAt, Jobs!Refuse
  <2> QED BY <2>2 DEF JobsMove, Jobs!Advance
<1>5. CASE StartTask(t)
  <2>1. Goes(t, "received", "submitting")
    BY <1>5 DEF StartTask, Move, Goes
  <2>2. Jobs!Submit(t)
    BY <2>1, TaskBecomes DEF StageAt, Jobs!Submit
  <2> QED BY <2>2 DEF JobsMove, Jobs!Advance
<1>6. CASE Submit(t)
  <2>1. Goes(t, "submitting", "tasks")
    BY <1>6 DEF Submit, Move, Goes
  <2>2. UNCHANGED stage
    BY <2>1, TaskKeepsStage DEF StageAt
  <2> QED BY <2>2 DEF JobsMove
<1>7. CASE SubmitFails(t)
  <2>1. Goes(t, "submitting", "failing")
    BY <1>7 DEF SubmitFails, Move, Goes
  <2>2. Jobs!Finish(t)
    BY <2>1, TaskBecomes DEF StageAt, Jobs!Finish
  <2> QED BY <2>2 DEF JobsMove, Jobs!Advance
<1> QED BY <1>1, <1>2, <1>3, <1>4, <1>5, <1>6, <1>7 DEF ReceiveLoop

LEMMA PoolJobs ==
  ASSUME TypeOK, NEW t \in Task, Compute(t) \/ Reports(t)
  PROVE  JobsMove
<1>1. CASE Take(t) \/ SendResult(t) \/ TakeResult(t)
  <2>1. \/ Goes(t, "tasks", "proving") \/ Goes(t, "sending", "results")
        \/ Goes(t, "results", "reporting")
    BY <1>1 DEF Take, SendResult, TakeResult, Move, Goes
  <2>2. UNCHANGED stage
    BY <2>1, TaskKeepsStage DEF StageAt
  <2> QED BY <2>2 DEF JobsMove
<1>2. CASE ProcessTask(t)
  <2>1. Goes(t, "proving", "sending")
    BY <1>2 DEF ProcessTask, Move, Goes
  <2>2. Jobs!Finish(t)
    BY <2>1, TaskBecomes DEF StageAt, Jobs!Finish
  <2> QED BY <2>2 DEF JobsMove, Jobs!Advance
<1>3. CASE Reported(t) \/ GiveUp(t)
  <2>1. PICK from \in {"failing", "reporting"}, to \in {"reported", "givenUp"} :
          Goes(t, from, to)
    BY <1>3 DEF Reported, GiveUp, Move, Goes
  <2>2. StageAt(from) = "finished" /\ StageAt(to) = "none"
    BY DEF StageAt
  <2>3. Jobs!Settle(t)
    BY <2>1, <2>2, TaskBecomes DEF Jobs!Settle
  <2> QED BY <2>3 DEF JobsMove, Jobs!Advance
<1>4. CASE AbandonReport(t)
  <2>1. Cancelled /\ UNCHANGED phase /\ Goes(t, place[t], "dropped")
    BY <1>4 DEF AbandonReport, Move, Goes
  <2> QED BY <2>1, DroppedJobs
<1> QED BY <1>1, <1>2, <1>3, <1>4 DEF Compute, Reports

\* The reports that had been served by then end their tasks.
LEMMA CancelJobs ==
  ASSUME TypeOK, Cancel
  PROVE  JobsMove
<1>1. PICK served \in SUBSET Task :
        \A u \in Task : place'[u] = IF u \in served THEN "reported" ELSE place[u]
  BY DEF Cancel, At
<1>2. \A u \in Task : stage'[u] = IF u \in served THEN "none" ELSE stage[u]
  BY <1>1 DEF stage, StageAt
<1>3. Jobs!Forget(served)
  BY <1>2 DEF Jobs!Forget, stage
<1> QED BY <1>3 DEF JobsMove, Cancel, intact, Cancelled

\* With the process its tasks are forgotten.
LEMMA EndJobs ==
  ASSUME TypeOK, EndStep
  PROVE  JobsMove /\ ~intact'
<1>1. PICK how \in {"exited", "crashed", "panicked"},
           served \in SUBSET At({"failing", "reporting"}) :
        EndProcess(how, served)
  BY Ends
<1>2. \A u \in Task : stage'[u] = IF u \in Task THEN "none" ELSE stage[u]
  BY <1>1 DEF EndProcess, stage, StageAt, InHand, At
<1>3. Jobs!Forget(Task)
  BY <1>2 DEF Jobs!Forget, stage
<1>4. ~intact'
  BY <1>1 DEF EndProcess, intact
<1> QED BY <1>3, <1>4 DEF JobsMove

LEMMA StepJobs ==
  ASSUME TypeOK, [Next]_vars
  PROVE  JobsMove /\ (intact' => intact)
<1>1. CASE TaskStep
  <2>1. UNCHANGED phase
    BY <1>1 DEF TaskStep, Recv, PassOn, AbandonStream, ReceiveLoop, TakeTask,
         RejectInput, StartTask, Submit, SubmitFails, SubmitPanics, Compute, Take,
         ProcessTask, SendResult, Reports, TakeResult, Reported, GiveUp,
         AbandonReport
  <2> QED BY <1>1, <2>1, ReceiveJobs, PoolJobs DEF TaskStep, intact, Cancelled
<1>2. CASE PhaseStep \/ GoroutineExits \/ UNCHANGED vars
  <2>1. UNCHANGED place
    BY <1>2 DEF PhaseStep, ReceiverEnds, ReporterEnds, CloseTasks, PoolStopped,
         Disconnect, GoroutineExits, vars
  <2>2. intact' => intact
    BY <1>2 DEF PhaseStep, ReceiverEnds, ReporterEnds, CloseTasks, PoolStopped,
         Disconnect, GoroutineExits, vars, intact
  <2> QED BY <2>1, <2>2 DEF JobsMove, stage
<1>3. CASE Cancel
  BY <1>3, CancelJobs DEF Cancel, intact
<1>4. CASE EndStep
  BY <1>4, EndJobs
<1> QED BY <1>1, <1>2, <1>3, <1>4, Steps

\* The worker in detail is a worker as Coordinator has it: what it received is
\* reported when it was refused or computed and not before, and until it is
\* told to stop or a panic ends it everything is, whatever waits for whom.
THEOREM WorkerImplementsJobs == Spec => JobsSpec
<1>1. Init => Jobs!Init
  BY DEF Init, Jobs!Init, stage, StageAt, intact, Cancelled
<1>2. TypeOK /\ [Next]_vars => [Jobs!Next]_<<stage, intact>>
  BY StepJobs DEF JobsMove, Jobs!Next
<1> QED BY <1>1, <1>2, WorkerTypeOK, PTL DEF Spec, JobsSpec, Jobs!Spec
=============================================================================
