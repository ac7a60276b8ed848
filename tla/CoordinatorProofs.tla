------------------------- MODULE CoordinatorProofs -------------------------
(***************************************************************************)
(* The running coordinator touches the tables only through the statements  *)
(* of TaskStore, for any numbers of tasks, workers, goroutines, deliveries *)
(* and report handlers and any faults; so the theorems of TaskStoreProofs  *)
(* hold of it.                                                             *)
(*                                                                         *)
(* It takes what goroutines, handlers and deliveries hold: a goroutine     *)
(* never runs out of tasks or workers inside a cycle, and what the sweep   *)
(* remembers is a worker because the rows are valid.                       *)
(*                                                                         *)
(* The end is about the system until its first fault.  Then a task is in   *)
(* one pair of hands at a time: a goroutine that has assigned it, a        *)
(* worker's channel, or a delivery; and its row says whose.  No two        *)
(* workers compute it, nobody finds it stale, no report on it is sent      *)
(* twice or refused, and the counts cover the slots that are taken.  The   *)
(* registry's counts are the last part: every slot taken has a claim, a    *)
(* counted task, a failed send or a served report.                         *)
(*                                                                         *)
(* In between: the tables lease tasks to workers as TaskLease says, since  *)
(* TaskStore does; and the workers the coordinator sees keep to            *)
(* WorkerJobs, as the goroutines of WorkerNode do.                         *)
(***************************************************************************)
EXTENDS Coordinator, FiniteSetTheorems, SequenceTheorems, TLAPS

StoreFacts == INSTANCE TaskStoreProofs WITH Session <- Handler

USE CoordinatorAssumption

LEMMA StoreAssumed == NoWorker \notin Worker /\ MaxRetries \in Nat
  OBVIOUS

ThreadState == {IdleThread} \cup Fetched \cup Thrd

\* Between two cycles a goroutine has nothing; inside it has work.
CyclesHaveWork ==
  \A th \in Thread : threads[th] # IdleThread =>
    /\ threads[th].batch # <<>>
    /\ threads[th].pc # "fetched" => threads[th].avail # <<>>

LateStart == \E t \in Task, w \in Worker : ServeLateStart(t, w)

\* The inductive invariant.
CoordinatorInv == TypeOK /\ CyclesHaveWork /\ StoreFacts!StoreInv

-----------------------------------------------------------------------------
(* What goroutines hold *)

LEMMA InCycle ==
  ASSUME TypeOK, CyclesHaveWork, NEW th \in Thread,
         threads[th].pc \in {"assign", "increment", "send", "revert", "release"}
  PROVE  /\ threads[th] \in Thrd
         /\ threads[th].batch \in Seq(Task) /\ threads[th].batch # <<>>
         /\ threads[th].avail \in Seq(Worker) /\ threads[th].avail # <<>>
         /\ CurrentTask(th) \in Task
         /\ CurrentWorker(th) \in Worker
<1>1. threads[th] \in Thrd
  BY DEF TypeOK, IdleThread, Fetched
<1>2. threads[th] # IdleThread /\ threads[th].pc # "fetched"
  BY DEF IdleThread
<1>3. /\ threads[th].batch \in Seq(Task) /\ threads[th].batch # <<>>
      /\ threads[th].avail \in Seq(Worker) /\ threads[th].avail # <<>>
  BY <1>1, <1>2 DEF Thrd, CyclesHaveWork
<1>4. CurrentTask(th) \in Task /\ CurrentWorker(th) \in Worker
  <2>1. /\ 1 \in 1..Len(threads[th].batch)
        /\ 1 \in 1..Len(threads[th].avail)
    BY <1>3
  <2>2. threads[th].batch[1] \in Task /\ threads[th].avail[1] \in Worker
    BY <1>3, <2>1, ElementOfSeq
  <2> QED BY <2>2 DEF CurrentTask, CurrentWorker
<1>5. QED
  BY <1>1, <1>3, <1>4

LEMMA BoundedSequence ==
  ASSUME NEW S, NEW n \in Nat, NEW s
  PROVE  s \in BoundedSeq(S, n) <=> s \in Seq(S) /\ Len(s) <= n
<1>1. ASSUME s \in BoundedSeq(S, n) PROVE s \in Seq(S) /\ Len(s) <= n
  <2>1. PICK m \in 0..n : s \in [1..m -> S]
    BY <1>1 DEF BoundedSeq, SeqOf
  <2>2. s \in Seq(S)
    BY <2>1, SeqDef
  <2>3. Len(s) = m
    BY <2>1, <2>2, LenProperties
  <2>4. QED
    BY <2>2, <2>3
<1>2. ASSUME s \in Seq(S), Len(s) <= n PROVE s \in BoundedSeq(S, n)
  BY <1>2, LenProperties DEF BoundedSeq, SeqOf
<1>3. QED
  BY <1>1, <1>2

LEMMA StreamIsSeq ==
  ASSUME TypeOK, NEW w \in Worker, stream[w] # NoStream
  PROVE  stream[w] \in Seq(Task) /\ Len(stream[w]) <= BufferSize
  BY BoundedSequence DEF TypeOK

-----------------------------------------------------------------------------
(* The statements of the store *)

LEMMA CoordinatorStepsStore ==
  TypeOK /\ CyclesHaveWork /\ [Next]_vars => [Store!Next]_storeVars
<1> SUFFICES ASSUME TypeOK, CyclesHaveWork, [Next]_vars
             PROVE  Store!Next \/ UNCHANGED storeVars
  BY DEF storeVars, Store!storeVars
<1>1. ASSUME NEW t \in Task, CreateTask(t) PROVE Store!Next \/ UNCHANGED storeVars
  BY <1>1 DEF CreateTask, Store!Next
<1>2. ASSUME NEW w \in Worker, Membership(w)
      PROVE  Store!Next \/ UNCHANGED storeVars
  <2>1. CASE StartWorker(w)
    BY <2>1 DEF StartWorker, RegisterWorker, Store!Next
  <2>2. CASE RemoveDeadWorker(w)
    BY <2>2 DEF RemoveDeadWorker, Store!Next
  <2>3. CASE \/ OpenStream(w) \/ DropStream(w) \/ CrashWorker(w)
             \/ Heartbeat(w) \/ SuspectLateWorker(w)
    BY <2>3 DEF OpenStream, DropStream, CrashWorker, Heartbeat,
         SuspectLateWorker
  <2>4. QED
    BY <1>2, <2>1, <2>2, <2>3 DEF Membership
<1>3. ASSUME NEW w \in Worker, ReceiveTask(w) PROVE UNCHANGED storeVars
  BY <1>3 DEF ReceiveTask
<1>4. ASSUME NEW th \in Thread, Schedule(th)
      PROVE  Store!Next \/ UNCHANGED storeVars
  <2>1. CASE AssignTask(th)
    BY <2>1, InCycle DEF AssignTask, Store!Next
  <2>2. CASE RevertAssignment(th)
    BY <2>2, InCycle DEF RevertAssignment, Store!Next
  <2>3. CASE \/ GetPendingTasks(th) \/ GetAvailableWorkers(th) \/ CycleTimeout(th)
             \/ IncrementTaskCount(th) \/ SendTask(th) \/ ReleaseWorker(th)
    BY <2>3 DEF GetPendingTasks, GetAvailableWorkers, CycleTimeout,
         IncrementTaskCount, SendTask, ReleaseWorker
  <2>4. QED
    BY <1>4, <2>1, <2>2, <2>3 DEF Schedule
<1>5. CASE Sweep
  BY <1>5 DEF Sweep, GetStaleTasks, MarkStaleWorker, ResetStaleTask, TypeOK, Store!Next
<1>6. ASSUME NEW j \in Job, Work(j) PROVE Store!Next \/ UNCHANGED storeVars
  <2>1. CASE ServeStart(j)
    <3>1. jobs[j].task \in Task /\ jobs[j].worker \in Worker
      BY <2>1 DEF ServeStart, TypeOK, JobState, NoJob
    <3>2. QED
      BY <2>1, <3>1 DEF ServeStart, Store!Next
  <2>2. CASE \/ LoseStart(j) \/ SubmitTask(j) \/ RejectInput(j)
             \/ ProcessTask(j) \/ GiveUp(j)
    BY <2>2 DEF LoseStart, SubmitTask, RejectInput, ProcessTask, GiveUp
  <2>3. QED
    BY <1>6, <2>1, <2>2 DEF Work
<1>7. ASSUME NEW j \in Job, NEW h \in Handler, SendReport(j, h)
      PROVE  UNCHANGED storeVars
  BY <1>7 DEF SendReport
<1>8. ASSUME NEW h \in Handler, Serve(h) PROVE Store!Next \/ UNCHANGED storeVars
  <2>1. CASE CompleteTask(h) \/ ReadFailedTask(h)
    <3>1. handlers[h].task \in Task
      BY <2>1 DEF CompleteTask, ReadFailedTask, TypeOK, Report, IdleHandler
    <3>2. QED
      BY <2>1, <3>1 DEF CompleteTask, ReadFailedTask, Store!Next
  <2>2. CASE FailTask(h)
    BY <2>2 DEF FailTask, Store!Next
  <2>3. CASE CheckCompleted(h) \/ MarkCompleted(h) \/ ReleaseFailedWorker(h)
    BY <2>3 DEF CheckCompleted, MarkCompleted, ReleaseFailedWorker
  <2>4. QED
    BY <1>8, <2>1, <2>2, <2>3 DEF Serve
<1>9. CASE RestartCoordinator
  BY <1>9 DEF RestartCoordinator, Store!Next
<1>10. CASE UNCHANGED vars
  BY <1>10 DEF vars
<1>11. CASE LateStart
  BY <1>11 DEF LateStart, ServeLateStart, Store!Next
<1>12. QED
  BY <1>1, <1>2, <1>3, <1>4, <1>5, <1>6, <1>7, <1>8, <1>9, <1>10, <1>11
     DEF Next, LateStart

-----------------------------------------------------------------------------
(* Types, one part of the state at a time *)

LEMMA RegistryOps ==
  ASSUME Registry!RegistryTypeOK, NEW w \in Worker,
         \/ Registry!RegisterWorker(w) \/ Registry!UpdateHeartbeat(w)
         \/ Registry!IncrementTaskCount(w) \/ Registry!DecrementTaskCount(w)
         \/ Registry!MarkWorkerSuspect(w) \/ Registry!SuspectLateWorker(w)
         \/ Registry!RemoveDeadWorker(w) \/ reg' = Registry!NoWorkers
  PROVE  Registry!RegistryTypeOK'
<1> USE DEF Registry!RegistryTypeOK
<1>1. CASE \/ Registry!RegisterWorker(w) \/ Registry!UpdateHeartbeat(w)
           \/ Registry!MarkWorkerSuspect(w) \/ Registry!SuspectLateWorker(w)
  BY <1>1 DEF Registry!RegisterWorker, Registry!UpdateHeartbeat,
       Registry!MarkWorkerSuspect, Registry!SuspectLateWorker
<1>2. CASE Registry!IncrementTaskCount(w) \/ Registry!DecrementTaskCount(w)
  BY <1>2 DEF Registry!IncrementTaskCount, Registry!DecrementTaskCount
<1>3. CASE Registry!RemoveDeadWorker(w) \/ reg' = Registry!NoWorkers
  BY <1>3 DEF Registry!RemoveDeadWorker, Registry!NoWorkers, Registry!Unknown
<1>4. QED
  BY <1>1, <1>2, <1>3

LEMMA RegistryTypes ==
  TypeOK /\ CyclesHaveWork /\ [Next]_vars => Registry!RegistryTypeOK'
<1> SUFFICES ASSUME TypeOK, CyclesHaveWork, [Next]_vars
             PROVE  Registry!RegistryTypeOK'
  OBVIOUS
<1>0. Registry!RegistryTypeOK
  BY DEF TypeOK
<1>1. CASE UNCHANGED reg
  BY <1>0, <1>1 DEF Registry!RegistryTypeOK
<1>2. ASSUME NEW w \in Worker, Membership(w) \/ ReceiveTask(w)
      PROVE  Registry!RegistryTypeOK'
  BY <1>0, <1>1, <1>2, RegistryOps
     DEF Membership, StartWorker, RegisterWorker, OpenStream, DropStream,
         CrashWorker, Heartbeat, SuspectLateWorker, RemoveDeadWorker,
         ReceiveTask
<1>3. ASSUME NEW th \in Thread, Schedule(th) PROVE Registry!RegistryTypeOK'
  <2>1. CASE IncrementTaskCount(th) \/ ReleaseWorker(th)
    BY <1>0, <2>1, InCycle, RegistryOps DEF IncrementTaskCount, ReleaseWorker
  <2>2. CASE \/ GetPendingTasks(th) \/ GetAvailableWorkers(th) \/ AssignTask(th)
             \/ CycleTimeout(th) \/ SendTask(th) \/ RevertAssignment(th)
    BY <1>1, <2>2 DEF GetPendingTasks, GetAvailableWorkers, AssignTask,
         CycleTimeout, SendTask, RevertAssignment
  <2>3. QED
    BY <1>3, <2>1, <2>2 DEF Schedule
<1>4. CASE Sweep
  <2>1. CASE MarkStaleWorker
    <3>1. PICK stale \in sweep : Registry!MarkWorkerSuspect(stale[2])
      BY <2>1 DEF MarkStaleWorker
    <3>2. stale[2] \in Worker
      BY <3>1 DEF TypeOK
    <3>3. QED
      BY <1>0, <3>1, <3>2, RegistryOps
  <2>2. CASE GetStaleTasks \/ ResetStaleTask
    BY <1>1, <2>2 DEF GetStaleTasks, ResetStaleTask
  <2>3. QED
    BY <1>4, <2>1, <2>2 DEF Sweep
<1>5. ASSUME NEW h \in Handler, Serve(h) PROVE Registry!RegistryTypeOK'
  <2>1. CASE MarkCompleted(h) \/ ReleaseFailedWorker(h)
    <3>1. handlers[h].worker \in Worker
      BY <2>1 DEF MarkCompleted, ReleaseFailedWorker, TypeOK, Report,
           IdleHandler
    <3>2. QED
      BY <1>0, <2>1, <3>1, RegistryOps DEF MarkCompleted, ReleaseFailedWorker
  <2>2. CASE \/ CheckCompleted(h) \/ CompleteTask(h) \/ ReadFailedTask(h)
             \/ FailTask(h)
    BY <1>1, <2>2 DEF CheckCompleted, CompleteTask, ReadFailedTask, FailTask
  <2>3. QED
    BY <1>5, <2>1, <2>2 DEF Serve
<1>6. CASE RestartCoordinator
  BY <1>6 DEF RestartCoordinator, Registry!RegistryTypeOK, Registry!NoWorkers,
       Registry!Unknown
<1>7. ASSUME NEW j \in Job, Work(j) \/ \E h \in Handler : SendReport(j, h)
      PROVE  Registry!RegistryTypeOK'
  BY <1>1, <1>7 DEF Work, ServeStart, LoseStart, SubmitTask, RejectInput,
       ProcessTask, GiveUp, SendReport
<1>8. ASSUME NEW t \in Task, CreateTask(t) PROVE Registry!RegistryTypeOK'
  BY <1>1, <1>8 DEF CreateTask
<1>9. CASE LateStart \/ UNCHANGED vars
  BY <1>1, <1>9 DEF LateStart, ServeLateStart, vars
<1>10. QED
  BY <1>2, <1>3, <1>4, <1>5, <1>6, <1>7, <1>8, <1>9 DEF Next, LateStart

\* A member of SetToSeqs is a sequence of the set, empty only if the set is.
LEMMA SequenceOfSet ==
  ASSUME NEW S, IsFiniteSet(S), S # {}, NEW order \in SetToSeqs(S)
  PROVE  order \in Seq(S) /\ order # <<>> /\ Len(order) \in Nat \ {0}
<1> DEFINE n == Cardinality(S)
<1>1. n \in Nat \ {0}
  BY FS_CardinalityType, FS_EmptySet
<1>2. order \in [1..n -> S]
  BY DEF SetToSeqs
<1> HIDE DEF n
<1>3. order \in Seq(S)
  BY <1>1, <1>2, SeqDef
<1>4. Len(order) = n
  BY <1>1, <1>2, <1>3, LenProperties
<1>5. QED
  BY <1>1, <1>3, <1>4

LEMMA NextOfSequence ==
  ASSUME NEW S, NEW s \in Seq(S), s # <<>>
  PROVE  /\ Tail(s) \in Seq(S) /\ (Len(s) # 1 => Tail(s) # <<>>)
         /\ Append(Tail(s), Head(s)) \in Seq(S)
         /\ Append(Tail(s), Head(s)) # <<>>
<1>1. Len(s) \in Nat \ {0}
  BY EmptySeq
<1>2. Tail(s) \in Seq(S) /\ Head(s) \in S /\ Len(Tail(s)) = Len(s) - 1
  BY HeadTailProperties
<1>3. Len(s) # 1 => Tail(s) # <<>>
  <2>1. Len(<<>>) = 0
    OBVIOUS
  <2>2. Tail(s) = <<>> => Len(Tail(s)) = 0
    BY <2>1, Zenon
  <2>3. QED
    BY <1>1, <1>2, <2>2
<1>4. Append(Tail(s), Head(s)) \in Seq(S) /\ Append(Tail(s), Head(s)) # <<>>
  BY <1>2, AppendProperties
<1>5. QED
  BY <1>2, <1>3, <1>4

LEMMA NextTaskHasWork ==
  ASSUME TypeOK, CyclesHaveWork, NEW th \in Thread,
         threads[th].pc \in {"assign", "increment", "send", "revert", "release"},
         NextTask(th)
  PROVE  threads' \in [Thread -> ThreadState] /\ CyclesHaveWork'
<1> DEFINE b == threads[th].batch
           a == threads[th].avail
           next == [pc |-> "assign", batch |-> Tail(b),
                    avail |-> Append(Tail(a), Head(a))]
<1>1. b \in Seq(Task) /\ b # <<>> /\ a \in Seq(Worker) /\ a # <<>>
  BY InCycle
<1>a. next = [pc |-> "assign", batch |-> Tail(b), avail |-> Append(Tail(a), Head(a))]
  OBVIOUS
<1> HIDE DEF a, b, next
<1>2. Tail(b) \in Seq(Task) /\ (Len(b) # 1 => Tail(b) # <<>>)
  BY <1>1, NextOfSequence
<1>3. /\ Append(Tail(a), Head(a)) \in Seq(Worker)
      /\ Append(Tail(a), Head(a)) # <<>>
  BY <1>1, NextOfSequence
<1>4. /\ next \in Thrd /\ next.batch = Tail(b)
      /\ next.avail = Append(Tail(a), Head(a))
  BY <1>a, <1>2, <1>3 DEF Thrd
<1>5. threads' = [threads EXCEPT ![th] = IF Len(b) = 1 THEN IdleThread ELSE next]
  BY DEF NextTask, next, a, b
<1>6. threads \in [Thread -> ThreadState]
  BY DEF TypeOK, ThreadState
<1>7. QED
  BY <1>2, <1>3, <1>4, <1>5, <1>6 DEF ThreadState, CyclesHaveWork

LEMMA GoToHasWork ==
  ASSUME TypeOK, CyclesHaveWork, NEW th \in Thread,
         threads[th].pc \in {"assign", "increment", "send", "revert", "release"},
         NEW pc \in {"assign", "increment", "send", "revert", "release"},
         GoTo(th, pc)
  PROVE  threads' \in [Thread -> ThreadState] /\ CyclesHaveWork'
<1> DEFINE next == [threads[th] EXCEPT !.pc = pc]
<1>1. threads[th] \in Thrd /\ threads[th].batch # <<>> /\ threads[th].avail # <<>>
  BY InCycle
<1>2. /\ next \in Thrd /\ next.batch = threads[th].batch
      /\ next.avail = threads[th].avail
  BY <1>1 DEF Thrd
<1>3. threads' = [threads EXCEPT ![th] = next]
  BY DEF GoTo
<1> HIDE DEF next
<1>4. threads \in [Thread -> ThreadState]
  BY DEF TypeOK, ThreadState
<1>5. QED
  BY <1>1, <1>2, <1>3, <1>4 DEF ThreadState, CyclesHaveWork

LEMMA FetchHasWork ==
  ASSUME TypeOK, CyclesHaveWork, NEW th \in Thread, GetPendingTasks(th)
  PROVE  threads' \in [Thread -> ThreadState] /\ CyclesHaveWork'
<1>1. IsFiniteSet(Pending)
  <2>1. Tasks \in Int /\ 1 \in Int
    OBVIOUS
  <2>2. IsFiniteSet(1..Tasks)
    BY <2>1, FS_Interval
  <2>3. Pending \subseteq 1..Tasks
    BY DEF Pending, Task
  <2>4. QED
    BY <2>2, <2>3, FS_Subset
<1>2. PICK sorted \in SetToSeqs(Pending) :
        threads' = [threads EXCEPT ![th] =
                      [pc |-> "fetched",
                       batch |-> SubSeq(sorted, 1, IF Len(sorted) < BatchSize
                                                   THEN Len(sorted)
                                                   ELSE BatchSize)]]
  BY DEF GetPendingTasks
<1> DEFINE n == IF Len(sorted) < BatchSize THEN Len(sorted) ELSE BatchSize
           batch == SubSeq(sorted, 1, n)
           next == [pc |-> "fetched", batch |-> batch]
<1>3. sorted \in Seq(Pending) /\ Len(sorted) \in Nat \ {0}
  BY <1>1, SequenceOfSet DEF GetPendingTasks
<1>4. n \in Nat \ {0} /\ n <= Len(sorted)
  BY <1>3
<1>5. \A i \in 1..n : sorted[i] \in Task
  BY <1>3, <1>4, ElementOfSeq DEF Pending
<1> HIDE DEF n
<1>6. batch \in Seq(Task) /\ Len(batch) = n
  BY <1>4, <1>5, SubSeqProperties
<1>7. batch # <<>>
  BY <1>4, <1>6
<1>8. threads' = [threads EXCEPT ![th] = next]
  BY <1>2 DEF n
<1>9. threads \in [Thread -> ThreadState]
  BY DEF TypeOK, ThreadState
<1> HIDE DEF batch
<1>10. next \in Fetched /\ next.batch = batch /\ next.pc = "fetched"
  BY <1>6 DEF Fetched
<1> HIDE DEF next
<1>11. QED
  BY <1>7, <1>8, <1>9, <1>10 DEF ThreadState, CyclesHaveWork

LEMMA SnapshotHasWork ==
  ASSUME TypeOK, CyclesHaveWork, NEW th \in Thread, GetAvailableWorkers(th)
  PROVE  threads' \in [Thread -> ThreadState] /\ CyclesHaveWork'
<1>0. threads \in [Thread -> ThreadState] /\ threads[th].pc = "fetched"
  BY DEF TypeOK, ThreadState, GetAvailableWorkers
<1>1. threads[th].batch \in Seq(Task) /\ threads[th].batch # <<>>
  BY <1>0 DEF ThreadState, IdleThread, Fetched, Thrd, CyclesHaveWork
<1>2. CASE threads' = [threads EXCEPT ![th] = IdleThread]
  BY <1>0, <1>2 DEF ThreadState, CyclesHaveWork
<1>3. ASSUME NEW found \in SUBSET Worker, found # {}, NEW order \in SetToSeqs(found),
             threads' = [threads EXCEPT ![th] =
                           [pc |-> "assign", batch |-> threads[th].batch,
                            avail |-> order]]
      PROVE  threads' \in [Thread -> ThreadState] /\ CyclesHaveWork'
  <2> DEFINE next == [pc |-> "assign", batch |-> threads[th].batch,
    avail |-> order]
  <2>1. order \in Seq(found) /\ order # <<>>
    BY <1>3, FS_Subset, SequenceOfSet
  <2>2. order \in Seq(Worker)
    BY <2>1
  <2>3. next \in Thrd /\ next.batch = threads[th].batch /\ next.avail = order
    BY <1>1, <2>2 DEF Thrd
  <2> HIDE DEF next
  <2>4. threads' = [threads EXCEPT ![th] = next]
    BY <1>3 DEF next
  <2>5. QED
    BY <1>0, <1>1, <2>1, <2>3, <2>4 DEF ThreadState, CyclesHaveWork
<1>4. QED
  <2>1. PICK fresh \in SUBSET {w \in Worker : ~up[w]} :
          LET found == {w \in Worker : Registry!Available(w)
                                          /\ (up[w] \/ w \in fresh)} IN
          IF found = {}
          THEN threads' = [threads EXCEPT ![th] = IdleThread]
          ELSE \E order \in SetToSeqs(found) :
                 threads' = [threads EXCEPT ![th] =
                               [pc |-> "assign", batch |-> threads[th].batch,
                                avail |-> order]]
    BY DEF GetAvailableWorkers
  <2> DEFINE found == {w \in Worker : Registry!Available(w)
                                         /\ (up[w] \/ w \in fresh)}
  <2>2. found \in SUBSET Worker
    OBVIOUS
  <2>3. \/ threads' = [threads EXCEPT ![th] = IdleThread]
        \/ found # {} /\ \E order \in SetToSeqs(found) :
             threads' = [threads EXCEPT ![th] =
                           [pc |-> "assign", batch |-> threads[th].batch,
                            avail |-> order]]
    BY <2>1
  <2> HIDE DEF found
  <2>4. QED
    BY <1>2, <1>3, <2>2, <2>3

LEMMA ThreadTypes ==
  TypeOK /\ CyclesHaveWork /\ [Next]_vars
    => threads' \in [Thread -> ThreadState] /\ CyclesHaveWork'
<1> SUFFICES ASSUME TypeOK, CyclesHaveWork, [Next]_vars
             PROVE  threads' \in [Thread -> ThreadState] /\ CyclesHaveWork'
  OBVIOUS
<1>1. CASE UNCHANGED threads
  BY <1>1 DEF TypeOK, ThreadState, CyclesHaveWork
<1>2. ASSUME NEW th \in Thread, Schedule(th)
      PROVE  threads' \in [Thread -> ThreadState] /\ CyclesHaveWork'
  <2>1. CASE GetPendingTasks(th)
    BY <2>1, FetchHasWork
  <2>2. CASE GetAvailableWorkers(th)
    BY <2>2, SnapshotHasWork
  <2>3. CASE CycleTimeout(th)
    BY <2>3 DEF CycleTimeout, TypeOK, ThreadState, CyclesHaveWork
  <2>4. CASE \/ AssignTask(th) \/ IncrementTaskCount(th) \/ SendTask(th)
             \/ RevertAssignment(th) \/ ReleaseWorker(th)
    <3>1. threads[th].pc \in {"assign", "increment", "send", "revert", "release"}
      BY <2>4 DEF AssignTask, IncrementTaskCount, SendTask, RevertAssignment,
           ReleaseWorker
    <3>2. \/ NextTask(th)
          \/ \E pc \in {"increment", "send", "revert", "release"} : GoTo(th, pc)
      BY <2>4 DEF AssignTask, IncrementTaskCount, SendTask, RevertAssignment,
           ReleaseWorker
    <3>3. QED
      BY <3>1, <3>2, NextTaskHasWork, GoToHasWork
  <2>5. QED
    BY <1>2, <2>1, <2>2, <2>3, <2>4 DEF Schedule
<1>3. CASE RestartCoordinator
  BY <1>3 DEF RestartCoordinator, ThreadState, CyclesHaveWork
<1>4. ASSUME ~(\E th \in Thread : Schedule(th)), ~RestartCoordinator
      PROVE  UNCHANGED threads
  <2>1. ASSUME NEW t \in Task, CreateTask(t) PROVE UNCHANGED threads
    BY <2>1 DEF CreateTask
  <2>2. ASSUME NEW w \in Worker, Membership(w) \/ ReceiveTask(w)
        PROVE  UNCHANGED threads
    BY <2>2 DEF Membership, StartWorker, RegisterWorker, OpenStream,
         DropStream, CrashWorker, Heartbeat, SuspectLateWorker,
         RemoveDeadWorker, ReceiveTask
  <2>3. CASE Sweep
    BY <2>3 DEF Sweep, GetStaleTasks, MarkStaleWorker, ResetStaleTask
  <2>4. ASSUME NEW j \in Job, Work(j) \/ \E h \in Handler : SendReport(j, h)
        PROVE  UNCHANGED threads
    BY <2>4 DEF Work, ServeStart, LoseStart, SubmitTask, RejectInput,
         ProcessTask, GiveUp, SendReport
  <2>5. ASSUME NEW h \in Handler, Serve(h) PROVE UNCHANGED threads
    BY <2>5 DEF Serve, CheckCompleted, CompleteTask, MarkCompleted,
         ReadFailedTask, FailTask, ReleaseFailedWorker
  <2>6. CASE LateStart
    BY <2>6 DEF LateStart, ServeLateStart
  <2>7. QED
    BY <1>4, <2>1, <2>2, <2>3, <2>4, <2>5, <2>6 DEF Next, LateStart, vars
<1>5. QED
  BY <1>1, <1>2, <1>3, <1>4

CallTypes ==
  /\ sweep \subseteq Task \X Worker /\ resetting \subseteq Task \X Worker
  /\ late \subseteq Task \X Worker

\* What the sweep reads is in progress, so the row names a worker.
LEMMA SweepCalls ==
  ASSUME TypeOK, StoreFacts!StoreInv, Sweep
  PROVE  CallTypes'
<1>1. CallTypes
  BY DEF TypeOK, CallTypes
<1>2. CASE GetStaleTasks
  <2>1. \A t \in Task : tasks[t].status = "in_progress" => tasks[t].worker \in Worker
    BY DEF StoreFacts!StoreInv, StoreFacts!RowsValid, StoreFacts!Held
  <2> QED BY <1>1, <1>2, <2>1 DEF GetStaleTasks, CallTypes
<1>3. CASE MarkStaleWorker \/ ResetStaleTask
  BY <1>1, <1>3 DEF MarkStaleWorker, ResetStaleTask, CallTypes
<1> QED BY <1>2, <1>3 DEF Sweep

\* And a call that nobody waits for was a delivery's.
LEMMA StepCalls ==
  TypeOK /\ StoreFacts!StoreInv /\ [Next]_vars => CallTypes'
<1> SUFFICES ASSUME TypeOK, StoreFacts!StoreInv, [Next]_vars
             PROVE  CallTypes'
  OBVIOUS
<1>0. CallTypes
  BY DEF TypeOK, CallTypes
<1>1. CASE UNCHANGED callVars
  BY <1>0, <1>1 DEF callVars, CallTypes
<1>2. ASSUME NEW t \in Task, CreateTask(t) PROVE UNCHANGED callVars
  BY <1>2 DEF CreateTask
<1>3. ASSUME NEW w \in Worker, Membership(w) \/ ReceiveTask(w) PROVE CallTypes'
  <2>1. CASE CrashWorker(w)
    BY <1>0, <2>1 DEF CrashWorker, CallTypes
  <2>2. CASE ~CrashWorker(w)
    BY <1>1, <1>3, <2>2
       DEF Membership, StartWorker, RegisterWorker, OpenStream, DropStream,
           Heartbeat, SuspectLateWorker, RemoveDeadWorker, ReceiveTask
  <2> QED BY <2>1, <2>2
<1>4. ASSUME NEW th \in Thread, Schedule(th) PROVE UNCHANGED callVars
  BY <1>4 DEF Schedule, GetPendingTasks, GetAvailableWorkers, AssignTask,
       CycleTimeout, IncrementTaskCount, SendTask, RevertAssignment,
       ReleaseWorker
<1>5. ASSUME NEW j \in Job, Work(j) \/ \E h \in Handler : SendReport(j, h)
      PROVE  CallTypes'
  <2>1. CASE SubmitTask(j)
    BY <1>0, <2>1 DEF SubmitTask, CallTypes
  <2>2. CASE ~SubmitTask(j)
    BY <1>1, <1>5, <2>2 DEF Work, ServeStart, LoseStart, RejectInput,
         ProcessTask, GiveUp, SendReport
  <2> QED BY <2>1, <2>2
<1>6. CASE LateStart
  BY <1>0, <1>6 DEF LateStart, ServeLateStart, CallTypes
<1>7. ASSUME NEW h \in Handler, Serve(h) PROVE UNCHANGED callVars
  BY <1>7 DEF Serve, CheckCompleted, CompleteTask, MarkCompleted,
       ReadFailedTask, FailTask, ReleaseFailedWorker
<1>8. CASE RestartCoordinator
  BY <1>0, <1>8 DEF RestartCoordinator, CallTypes
<1>9. QED
  BY <1>1, <1>2, <1>3, <1>4, <1>5, <1>6, <1>7, <1>8, SweepCalls
     DEF Next, LateStart, vars

\* A step spends at most one fault of the budget.
LEMMA StepFaults == [Next]_vars => UNCHANGED faults \/ Fault
<1> SUFFICES ASSUME [Next]_vars PROVE UNCHANGED faults \/ Fault
  OBVIOUS
<1>2. ASSUME NEW t \in Task, CreateTask(t) PROVE UNCHANGED faults
  BY <1>2 DEF CreateTask
<1>3. ASSUME NEW w \in Worker, Membership(w) \/ ReceiveTask(w)
      PROVE  UNCHANGED faults \/ Fault
  BY <1>3 DEF Membership, StartWorker, RegisterWorker, OpenStream, DropStream,
       CrashWorker, FaultUnless, Heartbeat, SuspectLateWorker,
       RemoveDeadWorker, ReceiveTask
<1>4. ASSUME NEW th \in Thread, Schedule(th) PROVE UNCHANGED faults \/ Fault
  BY <1>4 DEF Schedule, GetPendingTasks, GetAvailableWorkers, AssignTask,
       CycleTimeout, IncrementTaskCount, SendTask, RevertAssignment,
       ReleaseWorker
<1>5. CASE Sweep
  BY <1>5 DEF Sweep, GetStaleTasks, MarkStaleWorker, ResetStaleTask, FaultUnless
<1>6. ASSUME NEW j \in Job, Work(j) \/ \E h \in Handler : SendReport(j, h)
      PROVE  UNCHANGED faults \/ Fault
  BY <1>6 DEF Work, ServeStart, LoseStart, SubmitTask, RejectInput,
       ProcessTask, GiveUp, SendReport, FaultUnless
<1>7. ASSUME NEW h \in Handler, Serve(h) PROVE UNCHANGED faults \/ Fault
  BY <1>7 DEF Serve, CheckCompleted, CompleteTask, MarkCompleted,
       ReadFailedTask, FailTask, ReleaseFailedWorker, ReplySuccess, ReplyError
<1>8. CASE RestartCoordinator \/ LateStart
  BY <1>8 DEF RestartCoordinator, LateStart, ServeLateStart
<1>9. QED
  BY <1>2, <1>3, <1>4, <1>5, <1>6, <1>7, <1>8 DEF Next, LateStart, vars

LEMMA FaultTypes == TypeOK /\ [Next]_vars => faults' \in 0..MaxFaults
  BY StepFaults DEF TypeOK, Fault

\* Acknowledged and completed tasks, and which workers run.
LEMMA RecordTypes ==
  TypeOK /\ [Next]_vars
    => completed' \subseteq Task /\ acked' \subseteq Task /\ up' \in [Worker -> BOOLEAN]
<1> SUFFICES ASSUME TypeOK, [Next]_vars
             PROVE  /\ completed' \subseteq Task /\ acked' \subseteq Task
                    /\ up' \in [Worker -> BOOLEAN]
  OBVIOUS
<1>0. completed \subseteq Task /\ acked \subseteq Task /\ up \in [Worker -> BOOLEAN]
  BY DEF TypeOK
<1>1. CASE UNCHANGED <<completed, acked, up>>
  BY <1>0, <1>1
<1>2. ASSUME NEW t \in Task, CreateTask(t) PROVE UNCHANGED <<completed, acked, up>>
  BY <1>2 DEF CreateTask, serviceVars, nodeVars
<1>3. ASSUME NEW w \in Worker, Membership(w) \/ ReceiveTask(w)
      PROVE  /\ completed' \subseteq Task /\ acked' \subseteq Task
             /\ up' \in [Worker -> BOOLEAN]
  <2>1. UNCHANGED <<completed, acked>>
    BY <1>3 DEF Membership, StartWorker, RegisterWorker, OpenStream,
         DropStream, CrashWorker, Heartbeat, SuspectLateWorker,
         RemoveDeadWorker, ReceiveTask, serviceVars
  <2>2. up' = up \/ \E b \in BOOLEAN : up' = [up EXCEPT ![w] = b]
    BY <1>3 DEF Membership, StartWorker, RegisterWorker, OpenStream,
         DropStream, CrashWorker, Heartbeat, SuspectLateWorker,
         RemoveDeadWorker, ReceiveTask, nodeVars
  <2>3. QED
    BY <1>0, <2>1, <2>2
<1>4. ASSUME NEW th \in Thread, Schedule(th)
      PROVE  UNCHANGED <<completed, acked, up>>
  BY <1>4 DEF Schedule, GetPendingTasks, GetAvailableWorkers, AssignTask,
       CycleTimeout, IncrementTaskCount, SendTask, RevertAssignment,
       ReleaseWorker, serviceVars, nodeVars
<1>5. CASE Sweep \/ LateStart
  <2>1. UNCHANGED <<completed, acked, up>>
    BY <1>5 DEF Sweep, GetStaleTasks, MarkStaleWorker, ResetStaleTask, LateStart,
         ServeLateStart, serviceVars, nodeVars
  <2>2. QED
    BY <1>1, <2>1
<1>6. ASSUME NEW j \in Job, Work(j) \/ \E h \in Handler : SendReport(j, h)
      PROVE  UNCHANGED <<completed, acked, up>>
  BY <1>6 DEF Work, ServeStart, LoseStart, SubmitTask, RejectInput,
       ProcessTask, GiveUp, SendReport, serviceVars
<1>7. ASSUME NEW h \in Handler, Serve(h)
      PROVE  /\ completed' \subseteq Task /\ acked' \subseteq Task
             /\ up' \in [Worker -> BOOLEAN]
  <2>1. CASE CheckCompleted(h) \/ MarkCompleted(h)
    <3>1. handlers[h].task \in Task
      BY <2>1 DEF CheckCompleted, MarkCompleted, TypeOK, Report, IdleHandler
    <3>2. /\ completed' \in {completed, completed \cup {handlers[h].task}}
          /\ acked' \in {acked, acked \cup {handlers[h].task}}
          /\ up' = up
      BY <2>1 DEF CheckCompleted, MarkCompleted
    <3>3. QED
      BY <1>0, <3>1, <3>2
  <2>2. CASE \/ CompleteTask(h) \/ ReadFailedTask(h) \/ FailTask(h)
             \/ ReleaseFailedWorker(h)
    <3>1. UNCHANGED <<completed, acked, up>>
      BY <2>2 DEF CompleteTask, ReadFailedTask, FailTask, ReleaseFailedWorker,
           ReplyError
    <3>2. QED
      BY <1>1, <3>1
  <2>3. QED
    BY <1>7, <2>1, <2>2 DEF Serve
<1>8. CASE RestartCoordinator
  BY <1>0, <1>8 DEF RestartCoordinator
<1>9. QED
  BY <1>1, <1>2, <1>3, <1>4, <1>5, <1>6, <1>7, <1>8
     DEF Next, LateStart, vars, serviceVars, nodeVars

LEMMA HandlerTypes ==
  TypeOK /\ [Next]_vars => handlers' \in [Handler -> Report \cup {IdleHandler}]
<1> SUFFICES ASSUME TypeOK, [Next]_vars
             PROVE  handlers' \in [Handler -> Report \cup {IdleHandler}]
  OBVIOUS
<1>0. handlers \in [Handler -> Report \cup {IdleHandler}]
  BY DEF TypeOK
<1>1. CASE UNCHANGED handlers
  BY <1>0, <1>1
<1>2. ASSUME NEW t \in Task, CreateTask(t) PROVE UNCHANGED handlers
  BY <1>2 DEF CreateTask, serviceVars
<1>3. ASSUME NEW w \in Worker, Membership(w) \/ ReceiveTask(w)
      PROVE  UNCHANGED handlers
  BY <1>3 DEF Membership, StartWorker, RegisterWorker, OpenStream, DropStream,
       CrashWorker, Heartbeat, SuspectLateWorker, RemoveDeadWorker,
       ReceiveTask, serviceVars
<1>4. ASSUME NEW th \in Thread, Schedule(th) PROVE UNCHANGED handlers
  BY <1>4 DEF Schedule, GetPendingTasks, GetAvailableWorkers, AssignTask,
       CycleTimeout, IncrementTaskCount, SendTask, RevertAssignment,
       ReleaseWorker, serviceVars
<1>5. CASE Sweep \/ LateStart
  <2>1. UNCHANGED handlers
    BY <1>5 DEF Sweep, GetStaleTasks, MarkStaleWorker, ResetStaleTask, LateStart,
         ServeLateStart, serviceVars
  <2>2. QED
    BY <1>1, <2>1
<1>6. ASSUME NEW j \in Job, Work(j) PROVE UNCHANGED handlers
  BY <1>6 DEF Work, ServeStart, LoseStart, SubmitTask, RejectInput,
       ProcessTask, GiveUp, serviceVars
<1>7. ASSUME NEW j \in Job, NEW h \in Handler, SendReport(j, h)
      PROVE  handlers' \in [Handler -> Report \cup {IdleHandler}]
  <2>1. jobs[j].task \in Task /\ jobs[j].worker \in Worker
    BY <1>7 DEF SendReport, TypeOK, JobState, NoJob
  <2>2. PICK pc \in {"check", "read"} :
          handlers' = [handlers EXCEPT ![h] = [pc |-> pc, job |-> j,
                         task |-> jobs[j].task, worker |-> jobs[j].worker]]
    BY <1>7 DEF SendReport
  <2>3. [pc |-> pc, job |-> j, task |-> jobs[j].task, worker |-> jobs[j].worker]
          \in Report
    BY <2>1 DEF Report
  <2>4. QED
    BY <1>0, <2>2, <2>3
<1>8. ASSUME NEW h \in Handler, Serve(h)
      PROVE  handlers' \in [Handler -> Report \cup {IdleHandler}]
  <2>1. CASE handlers' = [handlers EXCEPT ![h] = IdleHandler]
    BY <1>0, <2>1
  <2>2. ASSUME NEW pc \in {"complete", "mark", "write", "decrement"},
               Continue(h, pc), handlers[h].pc # "idle"
        PROVE  handlers' \in [Handler -> Report \cup {IdleHandler}]
    <3>1. handlers[h] \in Report
      BY <1>0, <2>2 DEF IdleHandler
    <3>2. [handlers[h] EXCEPT !.pc = pc] \in Report
      BY <3>1 DEF Report
    <3>3. handlers' = [handlers EXCEPT ![h] = [handlers[h] EXCEPT !.pc = pc]]
      BY <2>2 DEF Continue
    <3>4. QED
      BY <1>0, <3>2, <3>3
  <2>3. CASE \/ CheckCompleted(h) \/ CompleteTask(h) \/ ReadFailedTask(h)
             \/ FailTask(h)
    BY <2>1, <2>2, <2>3 DEF CheckCompleted, CompleteTask, ReadFailedTask,
         FailTask, ReplySuccess, ReplyError
  <2>4. CASE MarkCompleted(h) \/ ReleaseFailedWorker(h)
    BY <2>1, <2>4 DEF MarkCompleted, ReleaseFailedWorker, ReplySuccess
  <2>5. QED
    BY <1>8, <2>3, <2>4 DEF Serve
<1>9. CASE RestartCoordinator
  BY <1>9 DEF RestartCoordinator
<1>10. QED
  BY <1>1, <1>2, <1>3, <1>4, <1>5, <1>6, <1>7, <1>8, <1>9
     DEF Next, LateStart, vars, serviceVars

JobType == JobState \cup {NoJob}

LEMMA JobTypes == TypeOK /\ [Next]_vars => jobs' \in [Job -> JobType]
<1> SUFFICES ASSUME TypeOK, [Next]_vars PROVE jobs' \in [Job -> JobType]
  OBVIOUS
<1>0. /\ jobs \in [Job -> JobType]
      /\ handlers \in [Handler -> Report \cup {IdleHandler}]
  BY DEF TypeOK, JobType
<1>1. CASE UNCHANGED jobs
  BY <1>0, <1>1
<1>2. ASSUME NEW t \in Task, CreateTask(t) PROVE UNCHANGED jobs
  BY <1>2 DEF CreateTask, nodeVars
<1>3. ASSUME NEW w \in Worker, Membership(w) PROVE jobs' \in [Job -> JobType]
  <2>1. CASE CrashWorker(w)
    BY <1>0, <2>1 DEF CrashWorker, JobType
  <2>2. CASE ~CrashWorker(w)
    BY <1>1, <1>3, <2>2
       DEF Membership, StartWorker, RegisterWorker, OpenStream, DropStream,
           Heartbeat, SuspectLateWorker, RemoveDeadWorker, nodeVars
  <2>3. QED
    BY <2>1, <2>2
<1>4. ASSUME NEW w \in Worker, ReceiveTask(w) PROVE jobs' \in [Job -> JobType]
  <2>1. stream[w] \in Seq(Task) /\ stream[w] # <<>>
    BY <1>4, StreamIsSeq DEF ReceiveTask
  <2>2. Head(stream[w]) \in Task
    BY <2>1, HeadTailProperties
  <2>3. PICK j \in Job :
          jobs' = [jobs EXCEPT ![j] = [task |-> Head(stream[w]), worker |-> w,
                     start |-> TRUE, stage |-> "received", sends |-> 0]]
    BY <1>4 DEF ReceiveTask
  <2>4. [task |-> Head(stream[w]), worker |-> w, start |-> TRUE,
         stage |-> "received", sends |-> 0] \in JobState
    BY <2>2 DEF JobState
  <2>5. QED
    BY <1>0, <2>3, <2>4 DEF JobType
<1>5. ASSUME NEW th \in Thread, Schedule(th) PROVE UNCHANGED jobs
  BY <1>5 DEF Schedule, GetPendingTasks, GetAvailableWorkers, AssignTask,
       CycleTimeout, IncrementTaskCount, SendTask, RevertAssignment,
       ReleaseWorker, nodeVars
<1>6. CASE Sweep \/ LateStart
  <2>1. UNCHANGED jobs
    BY <1>6 DEF Sweep, GetStaleTasks, MarkStaleWorker, ResetStaleTask, LateStart,
         ServeLateStart, nodeVars
  <2>2. QED
    BY <1>1, <2>1
<1>7. ASSUME NEW j \in Job, Work(j) PROVE jobs' \in [Job -> JobType]
  <2>1. CASE GiveUp(j)
    BY <1>0, <2>1 DEF GiveUp, JobType
  <2>2. CASE ServeStart(j) \/ LoseStart(j)
    <3>1. jobs[j] \in JobState
      BY <1>0, <2>2 DEF ServeStart, LoseStart, JobType
    <3>2. [jobs[j] EXCEPT !.start = FALSE] \in JobState
      BY <3>1 DEF JobState
    <3>3. jobs' = [jobs EXCEPT ![j] = [jobs[j] EXCEPT !.start = FALSE]]
      BY <2>2 DEF ServeStart, LoseStart
    <3>4. QED
      BY <1>0, <3>2, <3>3 DEF JobType
  <2>3. CASE ProcessTask(j)
    <3>1. jobs[j] \in JobState
      BY <1>0, <2>3 DEF ProcessTask, JobType, NoJob
    <3>2. PICK st \in {"proved", "failed"} :
            jobs' = [jobs EXCEPT ![j] = [jobs[j] EXCEPT !.stage = st]]
      BY <2>3 DEF ProcessTask
    <3>3. [jobs[j] EXCEPT !.stage = st] \in JobState
      BY <3>1 DEF JobState
    <3>4. QED
      BY <1>0, <3>2, <3>3 DEF JobType
  <2>4. CASE SubmitTask(j) \/ RejectInput(j)
    <3>1. jobs[j] \in JobState
      BY <1>0, <2>4 DEF SubmitTask, RejectInput, JobType, NoJob
    <3>2. \A st \in {"running", "failed"} :
            [jobs[j] EXCEPT !.stage = st, !.start = FALSE] \in JobState
      BY <3>1 DEF JobState
    <3>3. \E st \in {"running", "failed"} :
            jobs' = [jobs EXCEPT ![j] =
                       [jobs[j] EXCEPT !.stage = st, !.start = FALSE]]
      BY <2>4 DEF SubmitTask, RejectInput
    <3>4. QED
      BY <1>0, <3>2, <3>3 DEF JobType
  <2>5. QED
    BY <1>7, <2>1, <2>2, <2>3, <2>4 DEF Work
<1>8. ASSUME NEW j \in Job, NEW h \in Handler, SendReport(j, h)
      PROVE  jobs' \in [Job -> JobType]
  <2>1. jobs[j] \in JobState /\ jobs[j].sends < MaxSends
    BY <1>0, <1>8 DEF SendReport, JobType, NoJob
  <2>2. jobs[j].sends + 1 \in 0..MaxSends
    BY <2>1 DEF JobState
  <2>3. [jobs[j] EXCEPT !.sends = jobs[j].sends + 1] \in JobState
    BY <2>1, <2>2 DEF JobState
  <2>4. jobs' = [jobs EXCEPT ![j] = [jobs[j] EXCEPT !.sends = jobs[j].sends + 1]]
    BY <1>8 DEF SendReport
  <2>5. QED
    BY <1>0, <2>3, <2>4 DEF JobType
<1>9. ASSUME NEW h \in Handler, Serve(h) PROVE jobs' \in [Job -> JobType]
  <2>1. jobs' \in {jobs, [jobs EXCEPT ![handlers[h].job] = NoJob]}
    BY <1>9 DEF Serve, CheckCompleted, CompleteTask, MarkCompleted,
         ReadFailedTask, FailTask, ReleaseFailedWorker, ReplySuccess,
         ReplyError, Continue
  <2>2. QED
    BY <1>0, <2>1 DEF JobType
<1>10. CASE RestartCoordinator
  BY <1>1, <1>10 DEF RestartCoordinator
<1>11. QED
  BY <1>1, <1>2, <1>3, <1>4, <1>5, <1>6, <1>7, <1>8, <1>9, <1>10
     DEF Next, LateStart, vars, nodeVars

StreamType == {NoStream} \cup BoundedSeq(Task, BufferSize)

LEMMA StreamTypes ==
  TypeOK /\ CyclesHaveWork /\ [Next]_vars => stream' \in [Worker -> StreamType]
<1> SUFFICES ASSUME TypeOK, CyclesHaveWork, [Next]_vars
             PROVE  stream' \in [Worker -> StreamType]
  OBVIOUS
<1>0. stream \in [Worker -> StreamType]
  BY DEF TypeOK, StreamType
<1>1. CASE UNCHANGED stream
  BY <1>0, <1>1
<1>2. ASSUME NEW t \in Task, CreateTask(t) PROVE UNCHANGED stream
  BY <1>2 DEF CreateTask, nodeVars
<1>3. ASSUME NEW w \in Worker, Membership(w) PROVE stream' \in [Worker -> StreamType]
  <2>1. stream' \in {stream, [stream EXCEPT ![w] = <<>>],
                     [stream EXCEPT ![w] = NoStream]}
    BY <1>3 DEF Membership, StartWorker, RegisterWorker, OpenStream,
         DropStream, CrashWorker, Heartbeat, SuspectLateWorker,
         RemoveDeadWorker, nodeVars
  <2>2. <<>> \in StreamType
    <3>1. <<>> \in Seq(Task) /\ Len(<<>>) <= BufferSize
      BY EmptySeq
    <3>2. QED
      BY <3>1, BoundedSequence DEF StreamType
  <2>3. QED
    BY <1>0, <2>1, <2>2 DEF StreamType
<1>4. ASSUME NEW w \in Worker, ReceiveTask(w) PROVE stream' \in [Worker -> StreamType]
  <2>1. stream[w] \in Seq(Task) /\ stream[w] # <<>> /\ Len(stream[w]) <= BufferSize
    BY <1>4, StreamIsSeq DEF ReceiveTask
  <2>2. Tail(stream[w]) \in Seq(Task) /\ Len(Tail(stream[w])) <= BufferSize
    BY <2>1, HeadTailProperties, LenProperties
  <2>3. Tail(stream[w]) \in StreamType
    BY <2>2, BoundedSequence DEF StreamType
  <2>4. stream' = [stream EXCEPT ![w] = Tail(stream[w])]
    BY <1>4 DEF ReceiveTask
  <2>5. QED
    BY <1>0, <2>3, <2>4
<1>5. ASSUME NEW th \in Thread, Schedule(th) PROVE stream' \in [Worker -> StreamType]
  <2>1. CASE SendTask(th)
    <3> DEFINE w == CurrentWorker(th)
               t == CurrentTask(th)
    <3>1. w \in Worker /\ t \in Task
      BY <2>1, InCycle DEF SendTask
    <3> HIDE DEF w, t
    <3>2. \/ stream' = stream
          \/ /\ stream[w] # NoStream /\ Len(stream[w]) < BufferSize
             /\ stream' = [stream EXCEPT ![w] = Append(stream[w], t)]
      BY <2>1 DEF SendTask, w, t
    <3>3. CASE stream[w] # NoStream /\ Len(stream[w]) < BufferSize
      <4>1. stream[w] \in Seq(Task)
        BY <3>1, <3>3, StreamIsSeq
      <4>2. Append(stream[w], t) \in Seq(Task)
            /\ Len(Append(stream[w], t)) <= BufferSize
        BY <3>1, <3>3, <4>1, AppendProperties, LenProperties
      <4>3. Append(stream[w], t) \in StreamType
        BY <4>2, BoundedSequence DEF StreamType
      <4>4. QED
        BY <1>0, <3>2, <4>3
    <3>4. QED
      BY <1>0, <3>2, <3>3
  <2>2. CASE \/ GetPendingTasks(th) \/ GetAvailableWorkers(th) \/ AssignTask(th)
             \/ CycleTimeout(th) \/ IncrementTaskCount(th) \/ RevertAssignment(th)
             \/ ReleaseWorker(th)
    BY <1>1, <2>2 DEF GetPendingTasks, GetAvailableWorkers, AssignTask,
         CycleTimeout, IncrementTaskCount, RevertAssignment, ReleaseWorker,
         nodeVars
  <2>3. QED
    BY <1>5, <2>1, <2>2 DEF Schedule
<1>6. CASE Sweep \/ LateStart
  <2>1. UNCHANGED stream
    BY <1>6 DEF Sweep, GetStaleTasks, MarkStaleWorker, ResetStaleTask, LateStart,
         ServeLateStart, nodeVars
  <2>2. QED
    BY <1>1, <2>1
<1>7. ASSUME NEW j \in Job, Work(j) \/ \E h \in Handler : SendReport(j, h)
      PROVE  UNCHANGED stream
  BY <1>7 DEF Work, ServeStart, LoseStart, SubmitTask, RejectInput,
       ProcessTask, GiveUp, SendReport
<1>8. ASSUME NEW h \in Handler, Serve(h) PROVE UNCHANGED stream
  BY <1>8 DEF Serve, CheckCompleted, CompleteTask, MarkCompleted,
       ReadFailedTask, FailTask, ReleaseFailedWorker
<1>9. CASE RestartCoordinator
  BY <1>9 DEF RestartCoordinator, StreamType
<1>10. QED
  BY <1>1, <1>2, <1>3, <1>4, <1>5, <1>6, <1>7, <1>8, <1>9
     DEF Next, LateStart, vars, nodeVars

-----------------------------------------------------------------------------
(* The theorems *)

LEMMA SameNext == [Store!Next]_storeVars => [StoreFacts!Next]_(StoreFacts!storeVars)
  BY DEF Store!Next, StoreFacts!Next, storeVars, StoreFacts!storeVars,
       Store!CreateWorker, Store!MarkWorkerDead, Store!CreateTask,
       Store!AssignTask, Store!CanAssign, Store!StartTask, Store!CanStart,
       Store!UnassignTask, Store!ResetTaskToPending, Store!CompleteTask,
       Store!ReleaseSlot, Store!FailTaskRead, Store!FailTask, Store!Rollback,
       Store!Idle, StoreFacts!CreateWorker, StoreFacts!MarkWorkerDead,
       StoreFacts!CreateTask, StoreFacts!AssignTask, StoreFacts!CanAssign,
       StoreFacts!StartTask, StoreFacts!CanStart, StoreFacts!UnassignTask,
       StoreFacts!ResetTaskToPending, StoreFacts!CompleteTask,
       StoreFacts!ReleaseSlot, StoreFacts!FailTaskRead, StoreFacts!FailTask,
       StoreFacts!Rollback, StoreFacts!Idle

LEMMA InitCoordinatorInv == Init => CoordinatorInv
<1> SUFFICES ASSUME Init PROVE CoordinatorInv
  OBVIOUS
<1>1. StoreFacts!StoreInv
  BY StoreAssumed, StoreFacts!InitStoreInv DEF Init, Store!Init,
       StoreFacts!Init, Store!Idle, StoreFacts!Idle
<1>2. Store!TypeOK
  BY <1>1 DEF StoreFacts!StoreInv, StoreFacts!TypeOK, Store!TypeOK,
       Store!Status, StoreFacts!Status, Store!FailRead, StoreFacts!FailRead,
       Store!Idle, StoreFacts!Idle
<1>3. Registry!RegistryTypeOK
  BY DEF Init, Registry!RegistryTypeOK, Registry!NoWorkers, Registry!Unknown
<1>4. CyclesHaveWork
  BY DEF Init, CyclesHaveWork
<1>5. TypeOK
  BY <1>2, <1>3 DEF Init, TypeOK
<1>6. QED
  BY <1>1, <1>4, <1>5 DEF CoordinatorInv

LEMMA NextCoordinatorInv == CoordinatorInv /\ [Next]_vars => CoordinatorInv'
<1> SUFFICES ASSUME CoordinatorInv, [Next]_vars PROVE CoordinatorInv'
  OBVIOUS
<1>0. TypeOK /\ CyclesHaveWork /\ StoreFacts!StoreInv
  BY DEF CoordinatorInv
<1>1. StoreFacts!StoreInv'
  BY <1>0, StoreAssumed, CoordinatorStepsStore, StoreFacts!NextStoreInv,
       SameNext
<1>2. Store!TypeOK'
  BY <1>1 DEF StoreFacts!StoreInv, StoreFacts!TypeOK, Store!TypeOK,
       Store!Status, StoreFacts!Status, Store!FailRead, StoreFacts!FailRead,
       Store!Idle, StoreFacts!Idle
<1>3. TypeOK'
  BY <1>0, <1>2, RegistryTypes, ThreadTypes, StepCalls, FaultTypes,
       RecordTypes, HandlerTypes, JobTypes, StreamTypes
     DEF TypeOK, CallTypes, ThreadState, JobType, StreamType
<1>4. QED
  BY <1>0, <1>1, <1>3, ThreadTypes DEF CoordinatorInv

LEMMA CoordinatorInvariant == Spec => []CoordinatorInv
  BY InitCoordinatorInv, NextCoordinatorInv, PTL DEF Spec

\* Everything the coordinator, its handlers and the workers hold stays well
\* typed, and no channel holds more than its buffer.
THEOREM CoordinatorTypeOK == Spec => []TypeOK
<1>1. CoordinatorInv => TypeOK
  BY DEF CoordinatorInv
<1>2. QED
  BY <1>1, CoordinatorInvariant, PTL

\* The running coordinator implements the task store: it changes the tables
\* by the store's statements, one at a time, whatever fails.
THEOREM CoordinatorImplementsStore == Spec => StoreSpec
<1>1. Init => Store!Init
  BY DEF Init
<1>2. CoordinatorInv /\ [Next]_vars => [Store!Next]_storeVars
  BY CoordinatorStepsStore DEF CoordinatorInv
<1>3. QED
  BY <1>1, <1>2, CoordinatorInvariant, PTL DEF Spec, StoreSpec, Store!Spec,
       Store!storeVars, storeVars

\* So the rows stay valid and a held task keeps its open audit row while
\* goroutines, reports, sweeps, crashes and restarts interleave.
THEOREM CoordinatorRowsValid == Spec => [](Store!RowsValid /\ Store!HeldTaskHasOpenRow)
<1>1. CoordinatorInv => Store!RowsValid /\ Store!HeldTaskHasOpenRow
  BY DEF CoordinatorInv, StoreFacts!StoreInv, StoreFacts!RowsValid,
       Store!RowsValid, StoreFacts!HeldTaskHasOpenRow,
       Store!HeldTaskHasOpenRow, Store!Held, StoreFacts!Held
<1>2. QED
  BY <1>1, CoordinatorInvariant, PTL

\* And a task fails for good only once its retries are used up.
THEOREM CoordinatorFailedOnlyWhenExhausted == Spec => []Store!FailedOnlyWhenExhausted
<1>1. CoordinatorInv => Store!FailedOnlyWhenExhausted
  BY DEF CoordinatorInv, StoreFacts!StoreInv,
       StoreFacts!FailedOnlyWhenExhausted, Store!FailedOnlyWhenExhausted
<1>2. QED
  BY <1>1, CoordinatorInvariant, PTL

\* And whatever goroutines, handlers and sweeps do at the same time, a task is
\* leased to one worker at a time and no lease is passed on directly.
THEOREM CoordinatorImplementsLease == Spec => Store!LeaseSpec
<1>1. Init => Store!Lease!Init
  BY DEF Init, Store!Init, Store!Lease!Init, Store!holder, Store!Held
<1>2. CoordinatorInv /\ [Next]_vars => [Store!Lease!Next]_(Store!holder)
  <2> SUFFICES ASSUME CoordinatorInv, [Next]_vars
               PROVE  [Store!Lease!Next]_(Store!holder)
    OBVIOUS
  <2>1. StoreFacts!StoreInv /\ [StoreFacts!Next]_(StoreFacts!storeVars)
    BY StoreAssumed, CoordinatorStepsStore, SameNext DEF CoordinatorInv
  <2>2. [StoreFacts!Lease!Next]_(StoreFacts!holder)
    BY <2>1, StoreAssumed, StoreFacts!StepLease
  <2>3. /\ StoreFacts!holder = Store!holder
        /\ StoreFacts!holder' = Store!holder'
    BY DEF StoreFacts!holder, Store!holder, StoreFacts!Held, Store!Held
  <2> QED BY <2>2, <2>3
          DEF StoreFacts!Lease!Next, StoreFacts!Lease!Acquire,
              StoreFacts!Lease!Release, Store!Lease!Next, Store!Lease!Acquire,
              Store!Lease!Release
<1> QED BY <1>1, <1>2, CoordinatorInvariant, PTL
        DEF Spec, Store!LeaseSpec, Store!Lease!Spec

-----------------------------------------------------------------------------
(* The jobs of a worker *)

StageOf(job) == IF job.stage \in {"proved", "failed"} THEN "finished"
                                                      ELSE job.stage

\* At most the job j changes.
Only(j) == \A i \in Job \ {j} : jobs'[i] = jobs[i]

LEMMA OneJob ==
  ASSUME NEW j \in Job, Only(j)
  PROVE  Jobs!Becomes(j, StageOf(jobs[j]), StageOf(jobs'[j]))
<1>1. stage[j] = StageOf(jobs[j])
  BY DEF stage, StageOf
<1>2. \A i \in Job : stage'[i] = [stage EXCEPT ![j] = StageOf(jobs'[j])][i]
  BY DEF stage, StageOf, Only
<1>3. stage' = [stage EXCEPT ![j] = StageOf(jobs'[j])]
  BY <1>2 DEF stage
<1> QED BY <1>1, <1>3 DEF Jobs!Becomes

LEMMA SameStage ==
  ASSUME NEW j \in Job, Only(j), StageOf(jobs'[j]) = StageOf(jobs[j])
  PROVE  UNCHANGED stage
<1>1. \A i \in Job : stage'[i] = stage[i]
  BY DEF stage, StageOf, Only
<1> QED BY <1>1 DEF stage

Serving(h, j) == handlers[h] # IdleHandler /\ handlers[h].job = j

\* What is not computed yet was not reported and nobody serves a report on it.
EarlyUnreported ==
  \A j \in Job : jobs[j].stage \in {"received", "running"} =>
    jobs[j].sends = 0 /\ \A h \in Handler : ~Serving(h, j)

\* A step takes at most one job further, or a fault makes a worker forget all.
JobsMove ==
  \/ UNCHANGED stage
  \/ \E j \in Job : Jobs!Advance(j)
  \/ ~intact' /\ \E forgotten \in SUBSET Job : Jobs!Forget(forgotten)

LEMMA NoReportBegins ==
  ASSUME TypeOK, EarlyUnreported, UNCHANGED jobs,
         \A h \in Handler, j \in Job : Serving(h, j)' => Serving(h, j)
  PROVE  EarlyUnreported' /\ JobsMove
  BY DEF EarlyUnreported, JobsMove, stage

LEMMA IntactStep == TypeOK /\ [Next]_vars => (intact' => intact)
<1> SUFFICES ASSUME TypeOK, [Next]_vars, intact' PROVE intact
  OBVIOUS
<1>1. faults \in Nat /\ (faults' = faults \/ faults' = faults + 1)
  BY StepFaults DEF TypeOK, Fault
<1> QED BY <1>1 DEF intact

LEMMA MembershipJobs ==
  ASSUME TypeOK, EarlyUnreported, NEW w \in Worker, Membership(w)
  PROVE  EarlyUnreported' /\ JobsMove
<1>1. CASE CrashWorker(w)
  <2> DEFINE Lost == {j \in Job : jobs[j] # NoJob /\ jobs[j].worker = w}
  <2>1. \A j \in Job : jobs'[j] = IF j \in Lost THEN NoJob ELSE jobs[j]
    BY <1>1 DEF CrashWorker
  <2>2. UNCHANGED handlers
    BY <1>1 DEF CrashWorker, serviceVars
  <2>3. EarlyUnreported'
    <3> SUFFICES ASSUME NEW j \in Job, jobs'[j].stage \in {"received", "running"}
                 PROVE  jobs'[j].sends = 0 /\ \A h \in Handler : ~Serving(h, j)'
      BY DEF EarlyUnreported
    <3>1. jobs'[j] = jobs[j]
      BY <2>1 DEF NoJob
    <3> QED BY <2>2, <3>1 DEF EarlyUnreported, Serving
  <2>4. Jobs!Forget(Lost)
    BY <2>1 DEF Jobs!Forget, stage, NoJob
  <2>5. ~intact'
    BY <1>1 DEF CrashWorker, Fault, intact, TypeOK
  <2> QED BY <2>3, <2>4, <2>5 DEF JobsMove
<1>2. CASE ~CrashWorker(w)
  <2>1. UNCHANGED <<jobs, handlers>>
    BY <1>2 DEF Membership, StartWorker, RegisterWorker, OpenStream, DropStream,
         Heartbeat, SuspectLateWorker, RemoveDeadWorker, nodeVars, serviceVars
  <2> QED BY <2>1, NoReportBegins DEF Serving
<1> QED BY <1>1, <1>2

LEMMA ReceiveJobs ==
  ASSUME TypeOK, EarlyUnreported, NEW w \in Worker, ReceiveTask(w)
  PROVE  EarlyUnreported' /\ JobsMove
<1>1. PICK j \in Job : /\ Free(j)
                       /\ jobs' = [jobs EXCEPT ![j] =
                            [task |-> Head(stream[w]), worker |-> w, start |-> TRUE,
                             stage |-> "received", sends |-> 0]]
  BY DEF ReceiveTask
<1>2. UNCHANGED handlers
  BY DEF ReceiveTask, serviceVars
<1>3. EarlyUnreported'
  BY <1>1, <1>2 DEF EarlyUnreported, Serving, Free, TypeOK
<1>4. /\ Only(j) /\ StageOf(jobs[j]) = "none"
      /\ StageOf(jobs'[j]) = "received"
  BY <1>1 DEF Free, NoJob, StageOf, Only, TypeOK
<1>5. Jobs!Receive(j)
  BY <1>4, OneJob DEF Jobs!Receive
<1> QED BY <1>3, <1>5 DEF JobsMove, Jobs!Advance

\* On the worker's side.
LEMMA WorkJobs ==
  ASSUME TypeOK, EarlyUnreported, NEW j \in Job, Work(j)
  PROVE  EarlyUnreported' /\ JobsMove
<1>1. jobs[j] \in JobState \cup {NoJob}
  BY DEF TypeOK
<1>2. UNCHANGED handlers
  BY DEF Work, ServeStart, LoseStart, SubmitTask, RejectInput, ProcessTask, GiveUp,
         serviceVars
<1>3. Only(j)
  BY DEF Work, ServeStart, LoseStart, SubmitTask, RejectInput, ProcessTask, GiveUp,
         TypeOK, Only
<1>4. ASSUME jobs'[j].stage \in {"received", "running"} =>
               /\ jobs[j].stage \in {"received", "running"}
               /\ jobs'[j].sends = jobs[j].sends
      PROVE  EarlyUnreported'
  BY <1>2, <1>3, <1>4 DEF EarlyUnreported, Serving, Only
<1>5. CASE ServeStart(j) \/ LoseStart(j)
  <2>1. jobs[j] \in JobState /\ jobs'[j] = [jobs[j] EXCEPT !.start = FALSE]
    BY <1>1, <1>5 DEF ServeStart, LoseStart, TypeOK
  <2>2. jobs'[j].stage = jobs[j].stage /\ jobs'[j].sends = jobs[j].sends
    BY <2>1 DEF JobState
  <2>3. UNCHANGED stage
    BY <1>3, <2>2, SameStage DEF StageOf
  <2> QED BY <2>2, <2>3, <1>4 DEF JobsMove
<1>6. CASE SubmitTask(j)
  <2>1. /\ jobs[j] \in JobState /\ jobs[j].stage = "received"
        /\ jobs'[j] = [jobs[j] EXCEPT !.stage = "running", !.start = FALSE]
    BY <1>1, <1>6 DEF SubmitTask, NoJob, TypeOK
  <2>2. jobs'[j].stage = "running" /\ jobs'[j].sends = jobs[j].sends
    BY <2>1 DEF JobState
  <2>3. Jobs!Submit(j)
    BY <1>3, <2>1, <2>2, OneJob DEF StageOf, Jobs!Submit
  <2> QED BY <2>1, <2>2, <2>3, <1>4 DEF JobsMove, Jobs!Advance
<1>7. CASE RejectInput(j)
  <2>1. /\ jobs[j] \in JobState /\ jobs[j].stage = "received"
        /\ jobs'[j] = [jobs[j] EXCEPT !.stage = "failed", !.start = FALSE]
    BY <1>1, <1>7 DEF RejectInput, NoJob, TypeOK
  <2>2. jobs'[j].stage = "failed"
    BY <2>1 DEF JobState
  <2>3. Jobs!Refuse(j)
    BY <1>3, <2>1, <2>2, OneJob DEF StageOf, Jobs!Refuse
  <2> QED BY <2>2, <2>3, <1>4 DEF JobsMove, Jobs!Advance
<1>8. CASE ProcessTask(j)
  <2>1. PICK outcome \in {"proved", "failed"} :
          jobs' = [jobs EXCEPT ![j].stage = outcome]
    BY <1>8 DEF ProcessTask
  <2>2. jobs[j] \in JobState /\ jobs[j].stage = "running"
    BY <1>1, <1>8 DEF ProcessTask, NoJob
  <2>3. jobs'[j].stage = outcome
    BY <2>1, <2>2 DEF TypeOK, JobState
  <2>4. StageOf(jobs[j]) = "running" /\ StageOf(jobs'[j]) = "finished"
    BY <2>2, <2>3 DEF StageOf
  <2>5. Jobs!Finish(j)
    BY <1>3, <2>4, OneJob DEF Jobs!Finish
  <2> QED BY <2>3, <2>5, <1>4 DEF JobsMove, Jobs!Advance
<1>9. CASE GiveUp(j)
  <2>1. jobs'[j] = NoJob /\ jobs[j] \in JobState /\ jobs[j].sends = MaxSends
    BY <1>1, <1>9 DEF GiveUp, TypeOK
  <2>2. jobs[j].stage \in {"proved", "failed"}
    BY <2>1 DEF EarlyUnreported, JobState
  <2>3. StageOf(jobs[j]) = "finished" /\ StageOf(jobs'[j]) = "none"
    BY <2>1, <2>2 DEF StageOf, NoJob
  <2>4. Jobs!Settle(j)
    BY <1>3, <2>3, OneJob DEF Jobs!Settle
  <2> QED BY <2>1, <2>4, <1>4 DEF JobsMove, Jobs!Advance, NoJob
<1> QED BY <1>5, <1>6, <1>7, <1>8, <1>9 DEF Work

LEMMA SendReportJobs ==
  ASSUME TypeOK, EarlyUnreported, NEW j \in Job, NEW h \in Handler, SendReport(j, h)
  PROVE  EarlyUnreported' /\ JobsMove
<1>1. /\ jobs' = [jobs EXCEPT ![j] = [jobs[j] EXCEPT !.sends = @ + 1]]
      /\ jobs[j].stage \in {"proved", "failed"} /\ jobs[j] \in JobState
  BY DEF SendReport, TypeOK, NoJob
<1>2. [jobs[j] EXCEPT !.sends = @ + 1].stage = jobs[j].stage
  BY <1>1 DEF JobState
<1>3. UNCHANGED stage
  <2>1. Only(j) /\ jobs'[j].stage = jobs[j].stage
    BY <1>1, <1>2 DEF Only, TypeOK
  <2> QED BY <2>1, SameStage DEF StageOf
<1>4. \A g \in Handler, i \in Job \ {j} : Serving(g, i)' => Serving(g, i)
  BY DEF SendReport, Serving, TypeOK
<1>5. EarlyUnreported'
  BY <1>1, <1>2, <1>4 DEF EarlyUnreported, TypeOK
<1> QED BY <1>3, <1>5 DEF JobsMove

\* An answer reaches a job that was reported, or whose worker has crashed.
LEMMA ServeJobs ==
  ASSUME TypeOK, EarlyUnreported, NEW h \in Handler, Serve(h)
  PROVE  EarlyUnreported' /\ JobsMove
<1>1. handlers[h] \in Report
  <2>1. handlers[h].pc # "idle"
    BY DEF Serve, CheckCompleted, CompleteTask, MarkCompleted, ReadFailedTask, FailTask,
           ReleaseFailedWorker
  <2>2. handlers[h] \in Report \cup {IdleHandler}
    BY DEF TypeOK
  <2> QED BY <2>1, <2>2 DEF IdleHandler
<1>2. PICK j \in Job : j = handlers[h].job /\ Serving(h, j)
  <2>1. handlers[h].job \in Job /\ handlers[h].pc # "idle"
    BY <1>1 DEF Report
  <2>2. handlers[h] # IdleHandler
    BY <2>1 DEF IdleHandler
  <2> QED BY <2>1, <2>2 DEF Serving
<1>3. CASE ReplySuccess(h) /\ ~UNCHANGED jobs
  <2>1. jobs' = [jobs EXCEPT ![j] = NoJob]
    BY <1>2, <1>3 DEF ReplySuccess
  <2>2. handlers' = [handlers EXCEPT ![h] = IdleHandler]
    BY <1>3 DEF ReplySuccess
  <2>3. jobs[j].stage \in {"none", "proved", "failed"}
    <3>1. jobs[j] \in JobState \cup {NoJob}
      BY DEF TypeOK
    <3>2. jobs[j].stage \notin {"received", "running"}
      BY <1>2 DEF EarlyUnreported
    <3> QED BY <3>1, <3>2 DEF JobState, NoJob
  <2>4. EarlyUnreported'
    BY <2>1, <2>2 DEF EarlyUnreported, Serving, TypeOK, NoJob
  <2>5. Only(j) /\ StageOf(jobs'[j]) = "none"
    BY <2>1 DEF Only, StageOf, NoJob, TypeOK
  <2>6. CASE jobs[j].stage = "none"
    <3>1. UNCHANGED stage
      BY <2>5, <2>6, SameStage DEF StageOf
    <3> QED BY <2>4, <3>1 DEF JobsMove
  <2>7. CASE jobs[j].stage # "none"
    <3>1. StageOf(jobs[j]) = "finished"
      BY <2>3, <2>7 DEF StageOf
    <3>2. Jobs!Settle(j)
      BY <2>5, <3>1, OneJob DEF Jobs!Settle
    <3> QED BY <2>4, <3>2 DEF JobsMove, Jobs!Advance
  <2> QED BY <2>6, <2>7
<1>4. CASE UNCHANGED jobs
  <2>1. \/ handlers' = [handlers EXCEPT ![h] = IdleHandler]
        \/ \E pc \in {"complete", "mark", "write", "decrement"} :
             handlers' = [handlers EXCEPT ![h].pc = pc]
    BY DEF Serve, CheckCompleted, CompleteTask, MarkCompleted, ReadFailedTask,
           FailTask, ReleaseFailedWorker, ReplySuccess, ReplyError, Continue
  <2>2. \A g \in Handler, i \in Job : Serving(g, i)' => Serving(g, i)
    <3>1. CASE handlers' = [handlers EXCEPT ![h] = IdleHandler]
      BY <3>1 DEF Serving, TypeOK
    <3>2. ASSUME NEW pc, handlers' = [handlers EXCEPT ![h].pc = pc]
          PROVE  \A g \in Handler, i \in Job : Serving(g, i)' => Serving(g, i)
      <4>1. handlers'[h].job = handlers[h].job
        BY <1>1, <3>2 DEF TypeOK, Report
      <4>2. handlers[h] # IdleHandler
        BY <1>2 DEF Serving
      <4> QED BY <3>2, <4>1, <4>2 DEF Serving, TypeOK
    <3> QED BY <2>1, <3>1, <3>2
  <2> QED BY <1>4, <2>2, NoReportBegins
<1>5. UNCHANGED jobs \/ ReplySuccess(h)
  BY DEF Serve, CheckCompleted, CompleteTask, MarkCompleted, ReadFailedTask, FailTask,
         ReleaseFailedWorker, ReplyError, Continue
<1> QED BY <1>3, <1>4, <1>5

LEMMA StepJobs ==
  ASSUME TypeOK, EarlyUnreported, [Next]_vars
  PROVE  EarlyUnreported' /\ JobsMove
<1>1. CASE \/ \E t \in Task : CreateTask(t)
           \/ \E th \in Thread : Schedule(th)
           \/ Sweep
           \/ LateStart
           \/ UNCHANGED vars
  <2>1. UNCHANGED <<jobs, handlers>>
    BY <1>1 DEF CreateTask, Schedule, GetPendingTasks, GetAvailableWorkers, AssignTask,
         CycleTimeout, IncrementTaskCount, SendTask, RevertAssignment, ReleaseWorker,
         Sweep, GetStaleTasks, MarkStaleWorker, ResetStaleTask, LateStart,
         ServeLateStart, nodeVars, serviceVars, vars
  <2> QED BY <2>1, NoReportBegins DEF Serving
<1>2. CASE RestartCoordinator
  <2>1. UNCHANGED jobs /\ \A h \in Handler : handlers'[h] = IdleHandler
    BY <1>2 DEF RestartCoordinator
  <2> QED BY <2>1, NoReportBegins DEF Serving
<1> QED
  BY <1>1, <1>2, MembershipJobs, ReceiveJobs, WorkJobs, SendReportJobs, ServeJobs
     DEF Next, LateStart

\* Whatever is repeated, late or lost, and whichever side crashes: a worker's
\* job passes through the stages of WorkerJobs in their order, an answer ends
\* it only after the worker has something to report, and without a fault no
\* job ends otherwise.
THEOREM CoordinatorImplementsJobs == Spec => JobsSpec
<1>1. Init => EarlyUnreported /\ Jobs!Init
  BY DEF Init, EarlyUnreported, Jobs!Init, stage, intact, NoJob
<1>2. TypeOK /\ EarlyUnreported /\ [Next]_vars
        => EarlyUnreported' /\ [Jobs!Next]_<<stage, intact>>
  BY StepJobs, IntactStep DEF JobsMove, Jobs!Next
<1> QED BY <1>1, <1>2, CoordinatorTypeOK, PTL DEF Spec, JobsSpec, Jobs!Spec

-----------------------------------------------------------------------------
(* Until the first fault *)

\* The task a goroutine has assigned and not handed over yet.
Out(th) ==
  IF threads[th].pc \in {"increment", "send", "revert"} THEN {CurrentTask(th)}
                                                        ELSE {}

Queue(w) == {t \in Task : \E i \in 1..Len(stream[w]) : stream[w][i] = t}

\* Its proof is recorded, its failure is recorded; only the answer is missing.
Marking(j) == \E h \in Handler : Serving(h, j) /\ handlers[h].pc = "mark"
Releasing(j) == \E h \in Handler : Serving(h, j) /\ handlers[h].pc = "decrement"

\* A delivery has its task until the coordinator has recorded its failure.
Holding(j) == jobs[j] # NoJob /\ ~Releasing(j)

AssignedTo(t, w) == tasks[t].status = "assigned" /\ tasks[t].worker = w

\* A task is with one goroutine, in one channel or with one delivery.
OneHand ==
  /\ \A th \in Thread : \A ti \in Thread \ {th} : Out(th) \cap Out(ti) = {}
  /\ \A th \in Thread, w \in Worker : Out(th) \cap Queue(w) = {}
  /\ \A j \in Job : Holding(j) =>
       /\ \A th \in Thread : jobs[j].task \notin Out(th)
       /\ \A w \in Worker : jobs[j].task \notin Queue(w)
       /\ \A i \in Job \ {j} : Holding(i) => jobs[i].task # jobs[j].task

\* No channel has a task twice.
QueuedOnce ==
  \A w \in Worker : \A i, k \in 1..Len(stream[w]) :
    stream[w][i] = stream[w][k] => i = k

\* What a goroutine or a channel has is assigned to the worker it goes to.
RowsFit ==
  /\ \A th \in Thread : \A t \in Out(th) : AssignedTo(t, CurrentWorker(th))
  /\ \A w \in Worker : \A t \in Queue(w) : AssignedTo(t, w)

\* The row of a task that a worker has, and how far the two have got.
JobFits(j) ==
  LET row == tasks[jobs[j].task] IN
  /\ row.worker = jobs[j].worker
  /\ row.status \in {"assigned", "in_progress", "completed"}
  /\ row.status = "assigned" => jobs[j].stage = "failed" \/ jobs[j].start
  /\ jobs[j].start => row.status = "assigned"
  /\ row.status = "completed" <=> Marking(j)

JobsFit ==
  \A j \in Job : jobs[j] # NoJob =>
    /\ jobs[j].start => jobs[j].stage = "received"
    /\ Holding(j) => JobFits(j)

\* Somebody works at every task in progress.
Attended ==
  \A t \in Task : InProgress(t) => \E j \in Job : Holding(j) /\ jobs[j].task = t

\* A report RPC is the only one about its delivery and says what became of it.
ReportFits(h) ==
  LET j == handlers[h].job IN
  /\ jobs[j] # NoJob /\ jobs[j].sends > 0
  /\ handlers[h].task = jobs[j].task /\ handlers[h].worker = jobs[j].worker
  /\ jobs[j].stage = IF handlers[h].pc \in {"check", "complete", "mark"}
                     THEN "proved" ELSE "failed"
  /\ \A g \in Handler \ {h} : ~Serving(g, j)

ReportsFit == \A h \in Handler : handlers[h] # IdleHandler => ReportFits(h)

\* A report that was sent is being served: no answer is lost.
SentIsServed ==
  \A j \in Job : jobs[j] # NoJob /\ jobs[j].sends > 0 => Served(j)

\* What a handler inside fail_task has read is what it reports on.
FailingFits ==
  \A h \in Handler :
    /\ handlers[h].pc = "write" <=> failing[h] # Store!Idle
    /\ handlers[h].pc = "write" => failing[h].task = handlers[h].task
                                     /\ failing[h].worker = handlers[h].worker

SlotsOf(w) == {t \in Task : Store!Held(t) /\ tasks[t].worker = w}

\* current_task_count covers the rows that the worker holds, or more.
Counted ==
  \A w \in Worker : Cardinality(SlotsOf(w)) <= workers[w].count

\* What the idempotency map and the workers know is in the table.
Recorded == \A t \in completed \cup acked : tasks[t].status = "completed"

\* Nothing is stale and no call is late.
NoCalls == <<{}, {}, {}>>

GoodDay ==
  /\ OneHand /\ QueuedOnce /\ RowsFit
  /\ JobsFit /\ Attended
  /\ ReportsFit /\ SentIsServed /\ FailingFits
  /\ Counted /\ Recorded /\ callVars = NoCalls

\* The inductive invariant of the system until something goes wrong.
GoodInv == faults = 0 => GoodDay

-----------------------------------------------------------------------------
(* What a step leaves alone *)

LEMMA OneHandShrinks ==
  ASSUME OneHand,
         \A th \in Thread : Out(th)' \subseteq Out(th),
         \A w \in Worker : Queue(w)' \subseteq Queue(w),
         \A j \in Job : Holding(j)' => Holding(j) /\ jobs'[j].task = jobs[j].task
  PROVE  OneHand'
  BY DEF OneHand

LEMMA RowsKept ==
  ASSUME RowsFit,
         \A th \in Thread : \A t \in Out(th)' :
           /\ t \in Out(th) /\ CurrentWorker(th)' = CurrentWorker(th)
           /\ tasks'[t] = tasks[t],
         \A w \in Worker : \A t \in Queue(w)' : t \in Queue(w) /\ tasks'[t] = tasks[t]
  PROVE  RowsFit'
  BY DEF RowsFit, AssignedTo

LEMMA JobsKept ==
  ASSUME JobsFit, Attended, UNCHANGED <<jobs, handlers>>,
         \A j \in Job : Holding(j) => tasks'[jobs[j].task] = tasks[jobs[j].task],
         \A t \in Task : InProgress(t)' => InProgress(t)
  PROVE  JobsFit' /\ Attended'
<1>1. \A j \in Job : (Holding(j)' <=> Holding(j)) /\ (Marking(j)' <=> Marking(j))
  BY DEF Holding, Marking, Releasing, Serving
<1>2. JobsFit'
  BY <1>1 DEF JobsFit, JobFits
<1>3. Attended'
  BY <1>1 DEF Attended
<1> QED BY <1>2, <1>3

LEMMA ReportsKept ==
  ASSUME ReportsFit, SentIsServed, FailingFits, UNCHANGED <<jobs, handlers, failing>>
  PROVE  ReportsFit' /\ SentIsServed' /\ FailingFits'
<1>1. ReportsFit'
  BY DEF ReportsFit, ReportFits, Serving
<1>2. SentIsServed'
  BY DEF SentIsServed, Served
<1>3. FailingFits'
  BY DEF FailingFits, Store!Idle
<1> QED BY <1>1, <1>2, <1>3

LEMMA SlotsFinite == \A w : IsFiniteSet(SlotsOf(w)) /\ Cardinality(SlotsOf(w)) \in Nat
<1>1. Tasks \in Int /\ 1 \in Int
  OBVIOUS
<1>2. IsFiniteSet(1..Tasks)
  BY <1>1, FS_Interval
<1>3. \A w : SlotsOf(w) \subseteq 1..Tasks
  BY DEF SlotsOf, Task
<1> QED BY <1>2, <1>3, FS_Subset, FS_CardinalityType

LEMMA CountedKept ==
  ASSUME TypeOK, TypeOK', Counted,
         \A w \in Worker : SlotsOf(w)' \subseteq SlotsOf(w)
                             /\ workers'[w].count = workers[w].count
  PROVE  Counted'
<1> SUFFICES ASSUME NEW w \in Worker
             PROVE  Cardinality(SlotsOf(w)') <= workers'[w].count
  BY DEF Counted
<1>1. Cardinality(SlotsOf(w)) <= workers[w].count
  BY DEF Counted
<1>2. IsFiniteSet(SlotsOf(w)) /\ Cardinality(SlotsOf(w)) \in Nat
  BY SlotsFinite
<1>3. Cardinality(SlotsOf(w)') <= Cardinality(SlotsOf(w)) /\ Cardinality(SlotsOf(w)') \in Nat
  BY <1>2, FS_Subset, FS_CardinalityType
<1>4. workers[w].count \in Nat
  BY DEF TypeOK, Store!TypeOK
<1> QED BY <1>1, <1>2, <1>3, <1>4

\* A step without a fault, from a day on which there was none.
Undisturbed == CoordinatorInv /\ CoordinatorInv' /\ GoodDay /\ ~Fault

LEMMA Shapes ==
  ASSUME TypeOK
  PROVE  /\ tasks \in [Task -> [status : Store!Status,
                                worker : Worker \cup {NoWorker}, retries : Nat]]
         /\ workers \in [Worker -> [status : {"absent", "active", "dead"},
                                    count : Nat]]
         /\ threads \in [Thread -> ThreadState]
         /\ handlers \in [Handler -> Report \cup {IdleHandler}]
         /\ jobs \in [Job -> JobType]
         /\ stream \in [Worker -> StreamType]
         /\ failing \in [Handler -> Store!FailRead \cup {Store!Idle}]
         /\ completed \subseteq Task /\ acked \subseteq Task
  BY DEF TypeOK, Store!TypeOK, ThreadState, JobType, StreamType

LEMMA JobShape ==
  ASSUME TypeOK, NEW j \in Job, jobs[j] # NoJob
  PROVE  /\ jobs[j] \in JobState
         /\ jobs[j].task \in Task /\ jobs[j].worker \in Worker
         /\ jobs[j].start \in BOOLEAN /\ jobs[j].sends \in Nat
<1>1. jobs[j] \in JobState
  BY DEF TypeOK
<1> QED BY <1>1 DEF JobState

LEMMA ReportShape ==
  ASSUME TypeOK, NEW h \in Handler, handlers[h].pc # "idle"
  PROVE  /\ handlers[h] # IdleHandler /\ handlers[h] \in Report
         /\ handlers[h].job \in Job /\ handlers[h].task \in Task
         /\ handlers[h].worker \in Worker
<1>1. handlers[h] # IdleHandler /\ handlers[h] \in Report
  BY DEF TypeOK, IdleHandler
<1> QED BY <1>1 DEF Report

\* A goroutine's next task, or its next point in assignTaskToWorker.
LEMMA OutElsewhere ==
  ASSUME TypeOK, NEW th \in Thread, NEW ti \in Thread \ {th}, NEW x,
         threads' = [threads EXCEPT ![th] = x]
  PROVE  Out(ti)' = Out(ti) /\ CurrentWorker(ti)' = CurrentWorker(ti)
<1>1. threads'[ti] = threads[ti]
  BY DEF TypeOK
<1> QED BY <1>1 DEF Out, CurrentTask, CurrentWorker

LEMMA OutNext ==
  ASSUME TypeOK, NEW th \in Thread, NextTask(th)
  PROVE  /\ Out(th)' = {}
         /\ \A ti \in Thread \ {th} :
              Out(ti)' = Out(ti) /\ CurrentWorker(ti)' = CurrentWorker(ti)
<1> DEFINE b == threads[th].batch
           a == threads[th].avail
           x == IF Len(b) = 1 THEN IdleThread
                ELSE [pc |-> "assign", batch |-> Tail(b),
                      avail |-> Append(Tail(a), Head(a))]
<1>1. threads' = [threads EXCEPT ![th] = x]
  BY DEF NextTask
<1>2. x.pc \in {"idle", "assign"}
  BY DEF IdleThread
<1> HIDE DEF x
<1>3. threads'[th] = x
  BY <1>1 DEF TypeOK
<1> QED BY <1>1, <1>2, <1>3, OutElsewhere DEF Out

LEMMA OutGoTo ==
  ASSUME TypeOK, NEW th \in Thread, threads[th] \in Thrd, NEW pc, GoTo(th, pc)
  PROVE  /\ Out(th)' = IF pc \in {"increment", "send", "revert"}
                       THEN {CurrentTask(th)} ELSE {}
         /\ CurrentWorker(th)' = CurrentWorker(th)
         /\ \A ti \in Thread \ {th} :
              Out(ti)' = Out(ti) /\ CurrentWorker(ti)' = CurrentWorker(ti)
<1> DEFINE x == [threads[th] EXCEPT !.pc = pc]
<1>1. threads' = [threads EXCEPT ![th] = x]
  BY DEF GoTo
<1>2. x.pc = pc /\ x.batch = threads[th].batch /\ x.avail = threads[th].avail
  BY DEF Thrd
<1> HIDE DEF x
<1>3. threads'[th] = x
  BY <1>1 DEF TypeOK
<1> QED BY <1>1, <1>2, <1>3, OutElsewhere DEF Out, CurrentTask, CurrentWorker

\* Steps that touch no task.
LEMMA QuietStep ==
  ASSUME Undisturbed,
         UNCHANGED <<tasks, jobs, handlers, failing, completed, acked, callVars>>,
         \A th \in Thread : \A t \in Out(th)' :
           t \in Out(th) /\ CurrentWorker(th)' = CurrentWorker(th),
         \A w \in Worker : Queue(w)' \subseteq Queue(w), QueuedOnce',
         \A w \in Worker : workers'[w].count = workers[w].count
  PROVE  GoodDay'
<1>0. GoodDay /\ TypeOK /\ TypeOK'
  BY DEF Undisturbed, CoordinatorInv
<1>1. OneHand'
  <2>1. \A j \in Job : Holding(j)' => Holding(j) /\ jobs'[j].task = jobs[j].task
    BY DEF Holding, Marking, Releasing, Serving
  <2> QED BY <1>0, <2>1, OneHandShrinks DEF GoodDay
<1>2. RowsFit'
  BY <1>0, RowsKept DEF GoodDay
<1>3. JobsFit' /\ Attended'
  BY <1>0, JobsKept DEF GoodDay, InProgress
<1>4. ReportsFit' /\ SentIsServed' /\ FailingFits'
  BY <1>0, ReportsKept DEF GoodDay
<1>5. Counted'
  <2>1. \A w \in Worker : SlotsOf(w)' = SlotsOf(w)
    BY DEF SlotsOf, Store!Held
  <2> QED BY <1>0, <2>1, CountedKept DEF GoodDay
<1>6. Recorded' /\ (callVars = NoCalls)'
  BY <1>0 DEF GoodDay, Recorded
<1> QED BY <1>1, <1>2, <1>3, <1>4, <1>5, <1>6 DEF GoodDay

LEMMA QueuesKept ==
  ASSUME Undisturbed, UNCHANGED stream
  PROVE  (\A w \in Worker : Queue(w)' = Queue(w)) /\ QueuedOnce'
<1>1. QueuedOnce
  BY DEF Undisturbed, GoodDay
<1> QED BY <1>1 DEF QueuedOnce, Queue

LEMMA OutsKept ==
  ASSUME UNCHANGED threads
  PROVE  \A th \in Thread :
           Out(th)' = Out(th) /\ CurrentWorker(th)' = CurrentWorker(th)
  BY DEF Out, CurrentTask, CurrentWorker

LEMMA MembershipGood ==
  ASSUME Undisturbed, NEW w \in Worker, Membership(w)
  PROVE  GoodDay'
<1>0. TypeOK /\ GoodDay /\ ~Fault
  BY DEF Undisturbed, CoordinatorInv
<1>1. CASE \/ StartWorker(w) \/ Heartbeat(w) \/ SuspectLateWorker(w)
           \/ RemoveDeadWorker(w)
  <2>1. /\ UNCHANGED <<tasks, threads, jobs, handlers, failing, completed,
                       acked, callVars, stream>>
        /\ \/ UNCHANGED workers
           \/ \E s \in {"active", "dead"} :
                workers' = [workers EXCEPT ![w].status = s]
    BY <1>0, <1>1 DEF StartWorker, RegisterWorker, Heartbeat, SuspectLateWorker,
         RemoveDeadWorker, storeVars, serviceVars, nodeVars,
         Store!CreateWorker, Store!MarkWorkerDead
  <2>2. \A v \in Worker : workers'[v].count = workers[v].count
    BY <1>0, <2>1, Shapes
  <2> QED BY <2>1, <2>2, OutsKept, QueuesKept, QuietStep
<1>2. CASE OpenStream(w)
  <2>1. /\ UNCHANGED <<tasks, threads, jobs, handlers, failing, completed,
                       acked, callVars, workers>>
        /\ stream' = [stream EXCEPT ![w] = <<>>]
    BY <1>2 DEF OpenStream, storeVars, serviceVars
  <2>2. \A v \in Worker : stream'[v] = IF v = w THEN <<>> ELSE stream[v]
    BY <1>0, <2>1, Shapes
  <2>3. Len(<<>>) = 0
    OBVIOUS
  <2>4. \A v \in Worker : Queue(v)' \subseteq Queue(v)
    BY <2>2, <2>3 DEF Queue
  <2>5. QueuedOnce'
    BY <1>0, <2>2, <2>3 DEF GoodDay, QueuedOnce
  <2> QED BY <2>1, <2>4, <2>5, OutsKept, QuietStep
<1>3. ~DropStream(w) /\ ~CrashWorker(w)
  BY <1>0 DEF DropStream, CrashWorker
<1> QED BY <1>1, <1>2, <1>3 DEF Membership

LEMMA OutTask ==
  ASSUME CoordinatorInv
  PROVE  \A th \in Thread : Out(th) \subseteq Task
<1>1. TypeOK /\ CyclesHaveWork
  BY DEF CoordinatorInv
<1> QED BY <1>1, InCycle DEF Out

\* A step that rewrites one row that no hand is at, and moves nothing.
LEMMA FreeRow ==
  ASSUME Undisturbed, NEW t \in Task,
         tasks[t].status \notin {"assigned", "in_progress", "completed"}
  PROVE  /\ \A th \in Thread : t \notin Out(th)
         /\ \A w \in Worker : t \notin Queue(w) /\ t \notin SlotsOf(w)
         /\ \A j \in Job : Holding(j) => jobs[j].task # t
         /\ t \notin completed \cup acked
<1>0. GoodDay
  BY DEF Undisturbed
<1>1. /\ \A th \in Thread : t \notin Out(th)
      /\ \A w \in Worker : t \notin Queue(w)
  BY <1>0 DEF GoodDay, RowsFit, AssignedTo
<1>2. \A j \in Job : Holding(j) => jobs[j].task # t
  BY <1>0 DEF GoodDay, JobsFit, JobFits, Holding
<1>3. t \notin completed \cup acked
  BY <1>0 DEF GoodDay, Recorded
<1>4. \A w \in Worker : t \notin SlotsOf(w)
  BY DEF SlotsOf, Store!Held
<1> QED BY <1>1, <1>2, <1>3, <1>4

LEMMA CreateGood ==
  ASSUME Undisturbed, NEW t \in Task, CreateTask(t)
  PROVE  GoodDay'
<1>0. TypeOK /\ TypeOK' /\ GoodDay
  BY DEF Undisturbed, CoordinatorInv
<1>1. /\ tasks[t].status = "absent" /\ tasks' = [tasks EXCEPT ![t].status = "pending"]
      /\ UNCHANGED <<workers, threads, jobs, handlers, failing, completed,
                     acked, callVars, stream>>
  BY DEF CreateTask, Store!CreateTask, serviceVars, nodeVars
<1>2. /\ tasks'[t].status = "pending"
      /\ \A u \in Task \ {t} : tasks'[u] = tasks[u]
  BY <1>0, <1>1, Shapes
<1>3. /\ \A th \in Thread : t \notin Out(th)
      /\ \A w \in Worker : t \notin Queue(w) /\ t \notin SlotsOf(w)
      /\ \A j \in Job : Holding(j) => jobs[j].task # t
      /\ t \notin completed \cup acked
  BY <1>1, FreeRow
<1>4. /\ \A th \in Thread : Out(th)' = Out(th)
                              /\ CurrentWorker(th)' = CurrentWorker(th)
      /\ \A w \in Worker : Queue(w)' = Queue(w)
      /\ QueuedOnce'
  BY <1>1, OutsKept, QueuesKept
<1>5. OneHand'
  <2>1. \A j \in Job : Holding(j)' => Holding(j) /\ jobs'[j].task = jobs[j].task
    BY <1>1 DEF Holding, Marking, Releasing, Serving
  <2> QED BY <1>0, <1>4, <2>1, OneHandShrinks DEF GoodDay
<1>6. RowsFit'
  <2>1. \A th \in Thread : \A u \in Out(th) : u \in Task
    BY OutTask DEF Undisturbed
  <2>2. \A w \in Worker : \A u \in Queue(w) : u \in Task
    BY DEF Queue
  <2> QED BY <1>0, <1>2, <1>3, <1>4, <2>1, <2>2, RowsKept DEF GoodDay
<1>7. JobsFit' /\ Attended'
  <2>1. \A j \in Job : Holding(j) => jobs[j].task \in Task
    BY <1>0, JobShape DEF Holding
  <2>2. \A u \in Task : InProgress(u)' => InProgress(u)
    BY <1>2 DEF InProgress
  <2> QED BY <1>0, <1>1, <1>2, <1>3, <2>1, <2>2, JobsKept DEF GoodDay
<1>8. ReportsFit' /\ SentIsServed' /\ FailingFits'
  BY <1>0, <1>1, ReportsKept DEF GoodDay
<1>9. Counted'
  <2>1. \A w \in Worker : SlotsOf(w)' \subseteq SlotsOf(w)
    BY <1>2 DEF SlotsOf, Store!Held
  <2> QED BY <1>0, <1>1, <2>1, CountedKept DEF GoodDay
<1>10. Recorded' /\ (callVars = NoCalls)'
  BY <1>0, <1>1, <1>2, <1>3, Shapes DEF GoodDay, Recorded
<1> QED BY <1>4, <1>5, <1>6, <1>7, <1>8, <1>9, <1>10 DEF GoodDay

LEMMA SnapshotsGood ==
  ASSUME Undisturbed, NEW th \in Thread,
         GetPendingTasks(th) \/ GetAvailableWorkers(th) \/ IncrementTaskCount(th)
           \/ ReleaseWorker(th)
  PROVE  GoodDay'
<1>0. TypeOK /\ CyclesHaveWork
  BY DEF Undisturbed, CoordinatorInv
<1>1. UNCHANGED <<tasks, workers, jobs, handlers, failing, completed, acked,
                  callVars, stream>>
  BY DEF GetPendingTasks, GetAvailableWorkers, IncrementTaskCount,
     ReleaseWorker, storeVars, serviceVars, nodeVars
<1>2. ASSUME NEW x, threads' = [threads EXCEPT ![th] = x],
             x.pc \in {"idle", "fetched", "assign"}, NEW ti \in Thread
      PROVE  \A t \in Out(ti)' :
               t \in Out(ti) /\ CurrentWorker(ti)' = CurrentWorker(ti)
  <2>1. threads'[th] = x
    BY <1>0, <1>2, Shapes
  <2> QED BY <1>0, <1>2, <2>1, OutElsewhere DEF Out
<1>3. CASE GetPendingTasks(th)
  <2>1. PICK batch : threads' = [threads EXCEPT ![th] =
                                   [pc |-> "fetched", batch |-> batch]]
    BY <1>3 DEF GetPendingTasks
  <2>2. [pc |-> "fetched", batch |-> batch].pc = "fetched"
    OBVIOUS
  <2>3. \A ti \in Thread : \A t \in Out(ti)' :
          t \in Out(ti) /\ CurrentWorker(ti)' = CurrentWorker(ti)
    BY <1>2, <2>1, <2>2
  <2> QED BY <1>1, <2>3, QueuesKept, QuietStep
<1>4. CASE GetAvailableWorkers(th)
  <2>1. \/ threads' = [threads EXCEPT ![th] = IdleThread]
        \/ \E order : threads' = [threads EXCEPT ![th] =
             [pc |-> "assign", batch |-> threads[th].batch, avail |-> order]]
    BY <1>4 DEF GetAvailableWorkers
  <2>2. PICK x : threads' = [threads EXCEPT ![th] = x] /\ x.pc \in {"idle", "assign"}
    <3>1. IdleThread.pc = "idle"
      BY DEF IdleThread
    <3>2. \A order :
            [pc |-> "assign", batch |-> threads[th].batch, avail |-> order].pc = "assign"
      OBVIOUS
    <3> QED BY <2>1, <3>1, <3>2
  <2>3. \A ti \in Thread : \A t \in Out(ti)' :
          t \in Out(ti) /\ CurrentWorker(ti)' = CurrentWorker(ti)
    BY <1>2, <2>2
  <2> QED BY <1>1, <2>3, QueuesKept, QuietStep
<1>5. CASE IncrementTaskCount(th)
  <2>1. threads[th].pc = "increment" /\ GoTo(th, "send") /\ threads[th] \in Thrd
    BY <1>0, <1>5, InCycle DEF IncrementTaskCount
  <2>2. Out(th)' = Out(th)
    BY <1>0, <2>1, OutGoTo DEF Out
  <2>3. \A ti \in Thread : Out(ti)' = Out(ti) /\ CurrentWorker(ti)' = CurrentWorker(ti)
    BY <1>0, <2>1, <2>2, OutGoTo
  <2> QED BY <1>1, <2>3, QueuesKept, QuietStep
<1>6. CASE ReleaseWorker(th)
  <2>1. NextTask(th)
    BY <1>6 DEF ReleaseWorker
  <2>2. \A ti \in Thread : \A t \in Out(ti)' :
          t \in Out(ti) /\ CurrentWorker(ti)' = CurrentWorker(ti)
    BY <1>0, <2>1, OutNext
  <2> QED BY <1>1, <2>2, QueuesKept, QuietStep
<1> QED BY <1>3, <1>4, <1>5, <1>6

\* The only way into somebody's hands: from a row that is pending.
LEMMA AssignGood ==
  ASSUME Undisturbed, NEW th \in Thread, AssignTask(th)
  PROVE  GoodDay'
<1>t. PICK t \in Task, w \in Worker : t = CurrentTask(th) /\ w = CurrentWorker(th)
  BY InCycle DEF Undisturbed, CoordinatorInv, AssignTask
<1>0. /\ TypeOK /\ TypeOK' /\ GoodDay /\ CyclesHaveWork
      /\ threads[th].pc = "assign" /\ threads[th] \in Thrd
  BY InCycle DEF Undisturbed, CoordinatorInv, AssignTask
<1>1. UNCHANGED <<jobs, handlers, failing, completed, acked, callVars, stream>>
  BY DEF AssignTask, storeVars, serviceVars, nodeVars, Store!AssignTask
<1>2. CASE NextTask(th) /\ UNCHANGED storeVars
  <2>1. \A ti \in Thread : \A u \in Out(ti)' :
          u \in Out(ti) /\ CurrentWorker(ti)' = CurrentWorker(ti)
    BY <1>0, <1>2, OutNext
  <2>2. UNCHANGED <<tasks, workers>>
    BY <1>2 DEF storeVars
  <2> QED BY <1>1, <2>1, <2>2, QueuesKept, QuietStep
<1>3. CASE Store!AssignTask(t, w) /\ GoTo(th, "increment")
  <2>1. /\ tasks[t].status = "pending"
        /\ tasks' = [tasks EXCEPT ![t].status = "assigned", ![t].worker = w]
        /\ workers' = [workers EXCEPT ![w].count = @ + 1]
    BY <1>3 DEF Store!AssignTask, Store!CanAssign
  <2>2. /\ \A ti \in Thread : t \notin Out(ti)
        /\ \A v \in Worker : t \notin Queue(v) /\ t \notin SlotsOf(v)
        /\ \A j \in Job : Holding(j) => jobs[j].task # t
        /\ t \notin completed \cup acked
    BY <1>0, <2>1, FreeRow
  <2>3. /\ Out(th)' = {t} /\ CurrentWorker(th)' = w
        /\ \A ti \in Thread \ {th} :
             Out(ti)' = Out(ti) /\ CurrentWorker(ti)' = CurrentWorker(ti)
    BY <1>0, <1>t, <1>3, OutGoTo
  <2>4. /\ \A v \in Worker : Queue(v)' = Queue(v)
        /\ QueuedOnce'
    BY <1>1, QueuesKept
  <2>5. /\ tasks'[t].status = "assigned" /\ tasks'[t].worker = w
        /\ \A u \in Task \ {t} : tasks'[u] = tasks[u]
        /\ workers'[w].count = workers[w].count + 1
        /\ \A v \in Worker \ {w} : workers'[v].count = workers[v].count
    BY <1>0, <2>1, Shapes
  <2>6. OneHand'
    <3>1. \A j \in Job : (Holding(j)' <=> Holding(j)) /\ jobs'[j].task = jobs[j].task
      BY <1>1 DEF Holding, Marking, Releasing, Serving
    <3>2. OneHand
      BY <1>0 DEF GoodDay
    <3>3. \A ti \in Thread : \A tj \in Thread \ {ti} : Out(ti)' \cap Out(tj)' = {}
      BY <2>2, <2>3, <3>2 DEF OneHand
    <3>4. \A ti \in Thread, v \in Worker : Out(ti)' \cap Queue(v)' = {}
      BY <2>2, <2>3, <2>4, <3>2 DEF OneHand
    <3>5. ASSUME NEW j \in Job, Holding(j)'
          PROVE  /\ \A ti \in Thread : jobs'[j].task \notin Out(ti)'
                 /\ \A v \in Worker : jobs'[j].task \notin Queue(v)'
                 /\ \A i \in Job \ {j} : Holding(i)' => jobs'[i].task # jobs'[j].task
      <4>1. Holding(j) /\ jobs'[j].task = jobs[j].task /\ jobs[j].task # t
        BY <2>2, <3>1, <3>5
      <4>2. \A ti \in Thread : jobs[j].task \notin Out(ti)'
        BY <2>3, <3>2, <4>1 DEF OneHand
      <4>3. \A v \in Worker : jobs[j].task \notin Queue(v)'
        BY <2>4, <3>2, <4>1 DEF OneHand
      <4>4. \A i \in Job \ {j} : Holding(i)' => jobs'[i].task # jobs'[j].task
        BY <3>1, <3>2, <4>1 DEF OneHand
      <4> QED BY <4>1, <4>2, <4>3, <4>4
    <3> QED BY <3>3, <3>4, <3>5 DEF OneHand
  <2>7. RowsFit'
    <3>1. \A ti \in Thread : \A u \in Out(ti) : u \in Task /\ u # t
      BY <2>2, OutTask DEF Undisturbed
    <3>2. \A v \in Worker : \A u \in Queue(v) : u \in Task /\ u # t
      BY <2>2 DEF Queue
    <3>3. RowsFit
      BY <1>0 DEF GoodDay
    <3> QED BY <2>3, <2>4, <2>5, <3>1, <3>2, <3>3 DEF RowsFit, AssignedTo
  <2>8. JobsFit' /\ Attended'
    <3>1. \A j \in Job : Holding(j) => jobs[j].task \in Task
      BY <1>0, JobShape DEF Holding
    <3>2. \A u \in Task : InProgress(u)' => InProgress(u)
      BY <2>5 DEF InProgress
    <3> QED BY <1>0, <1>1, <2>2, <2>5, <3>1, <3>2, JobsKept DEF GoodDay
  <2>9. ReportsFit' /\ SentIsServed' /\ FailingFits'
    BY <1>0, <1>1, ReportsKept DEF GoodDay
  <2>10. Counted'
    <3>1. SlotsOf(w)' = SlotsOf(w) \cup {t} /\ t \notin SlotsOf(w)
      BY <1>0, <2>2, <2>5 DEF SlotsOf, Store!Held
    <3>2. \A v \in Worker \ {w} : SlotsOf(v)' = SlotsOf(v)
      BY <1>0, <2>2, <2>5 DEF SlotsOf, Store!Held
    <3>3. Cardinality(SlotsOf(w)') = Cardinality(SlotsOf(w)) + 1
      BY <3>1, SlotsFinite, FS_AddElement
    <3>4. Counted /\ \A v \in Worker : workers[v].count \in Nat
      BY <1>0, Shapes DEF GoodDay
    <3>5. Cardinality(SlotsOf(w)) <= workers[w].count
      BY <1>0, <3>4 DEF Counted
    <3>6. Cardinality(SlotsOf(w)') <= workers'[w].count
      BY <1>0, <2>5, <3>3, <3>4, <3>5, SlotsFinite
    <3>7. \A v \in Worker \ {w} : Cardinality(SlotsOf(v)') <= workers'[v].count
      BY <2>5, <3>2, <3>4 DEF Counted
    <3> QED BY <3>6, <3>7 DEF Counted
  <2>11. Recorded' /\ (callVars = NoCalls)'
    BY <1>0, <1>1, <2>2, <2>5, Shapes DEF GoodDay, Recorded
  <2> QED BY <2>4, <2>6, <2>7, <2>8, <2>9, <2>10, <2>11 DEF GoodDay
<1> QED BY <1>t, <1>2, <1>3 DEF AssignTask

\* The channel takes the task over from the goroutine.
LEMMA PushGood ==
  ASSUME Undisturbed, NEW th \in Thread, NEW t \in Task, NEW w \in Worker,
         t = CurrentTask(th), w = CurrentWorker(th), threads[th].pc = "send",
         stream[w] # NoStream, stream' = [stream EXCEPT ![w] = Append(@, t)],
         NextTask(th),
         UNCHANGED <<tasks, workers, jobs, handlers, failing, completed, acked,
                     callVars>>
  PROVE  GoodDay'
<1>0. TypeOK /\ TypeOK' /\ GoodDay
  BY DEF Undisturbed, CoordinatorInv
<1>1. /\ Out(th) = {t} /\ Out(th)' = {} /\ AssignedTo(t, w)
      /\ \A ti \in Thread \ {th} :
           /\ Out(ti)' = Out(ti) /\ CurrentWorker(ti)' = CurrentWorker(ti)
           /\ t \notin Out(ti)
      /\ \A v \in Worker : t \notin Queue(v)
      /\ \A j \in Job : Holding(j) => jobs[j].task # t
  <2>1. Out(th) = {t}
    BY DEF Out
  <2>2. /\ Out(th)' = {}
        /\ \A ti \in Thread \ {th} :
             Out(ti)' = Out(ti) /\ CurrentWorker(ti)' = CurrentWorker(ti)
    BY <1>0, OutNext
  <2> QED BY <1>0, <2>1, <2>2 DEF GoodDay, OneHand, RowsFit
<1>2. /\ \A v \in Worker \ {w} : stream'[v] = stream[v]
      /\ stream'[w] = Append(stream[w], t)
      /\ Len(stream[w]) \in Nat /\ Len(stream'[w]) = Len(stream[w]) + 1
      /\ stream'[w][Len(stream[w]) + 1] = t
      /\ \A i \in 1..Len(stream[w]) : stream'[w][i] = stream[w][i]
  <2>1. stream[w] \in Seq(Task)
    BY <1>0, StreamIsSeq
  <2>2. stream'[w] = Append(stream[w], t) /\ \A v \in Worker \ {w} : stream'[v] = stream[v]
    BY <1>0, Shapes
  <2> QED BY <2>1, <2>2, AppendProperties, LenProperties
<1>3. /\ Queue(w)' = Queue(w) \cup {t}
      /\ \A v \in Worker \ {w} : Queue(v)' = Queue(v)
  <2>1. ASSUME NEW u \in Task
        PROVE  (\E i \in 1..Len(stream'[w]) : stream'[w][i] = u)
                 <=> u = t \/ \E i \in 1..Len(stream[w]) : stream[w][i] = u
    <3>1. ASSUME NEW i \in 1..Len(stream'[w]), stream'[w][i] = u
          PROVE  u = t \/ \E k \in 1..Len(stream[w]) : stream[w][k] = u
      BY <1>2, <3>1
    <3>2. u = t => Len(stream[w]) + 1 \in 1..Len(stream'[w])
                     /\ stream'[w][Len(stream[w]) + 1] = u
      BY <1>2
    <3>3. ASSUME NEW i \in 1..Len(stream[w]), stream[w][i] = u
          PROVE  i \in 1..Len(stream'[w]) /\ stream'[w][i] = u
      BY <1>2, <3>3
    <3> QED BY <3>1, <3>2, <3>3
  <2> QED BY <1>2, <2>1 DEF Queue
<1>4. QueuedOnce'
  <2>1. QueuedOnce
    BY <1>0 DEF GoodDay
  <2>2. \A i \in 1..Len(stream[w]) : stream[w][i] # t
    BY <1>1 DEF Queue
  <2>3. ASSUME NEW i \in 1..Len(stream'[w]), NEW k \in 1..Len(stream'[w]),
               stream'[w][i] = stream'[w][k]
        PROVE  i = k
    BY <1>2, <2>1, <2>2, <2>3 DEF QueuedOnce
  <2> QED BY <1>2, <2>1, <2>3 DEF QueuedOnce
<1>5. OneHand'
  <2>1. \A j \in Job : (Holding(j)' <=> Holding(j)) /\ jobs'[j].task = jobs[j].task
    BY DEF Holding, Marking, Releasing, Serving
  <2>2. OneHand
    BY <1>0 DEF GoodDay
  <2>3. \A ti \in Thread : \A tj \in Thread \ {ti} : Out(ti)' \cap Out(tj)' = {}
    BY <1>1, <2>2 DEF OneHand
  <2>4. \A ti \in Thread, v \in Worker : Out(ti)' \cap Queue(v)' = {}
    BY <1>1, <1>3, <2>2 DEF OneHand
  <2>5. ASSUME NEW j \in Job, Holding(j)'
        PROVE  /\ \A ti \in Thread : jobs'[j].task \notin Out(ti)'
               /\ \A v \in Worker : jobs'[j].task \notin Queue(v)'
               /\ \A i \in Job \ {j} : Holding(i)' => jobs'[i].task # jobs'[j].task
    BY <1>1, <1>3, <2>1, <2>2, <2>5 DEF OneHand
  <2> QED BY <2>3, <2>4, <2>5 DEF OneHand
<1>6. RowsFit'
  BY <1>0, <1>1, <1>3 DEF GoodDay, RowsFit, AssignedTo
<1>7. JobsFit' /\ Attended'
  BY <1>0, JobsKept DEF GoodDay, InProgress
<1>8. ReportsFit' /\ SentIsServed' /\ FailingFits'
  BY <1>0, ReportsKept DEF GoodDay
<1>9. Counted'
  <2>1. \A v \in Worker : SlotsOf(v)' = SlotsOf(v)
    BY DEF SlotsOf, Store!Held
  <2> QED BY <1>0, <2>1, CountedKept DEF GoodDay
<1>10. Recorded' /\ (callVars = NoCalls)'
  BY <1>0 DEF GoodDay, Recorded
<1> QED BY <1>4, <1>5, <1>6, <1>7, <1>8, <1>9, <1>10 DEF GoodDay

LEMMA SendGood ==
  ASSUME Undisturbed, NEW th \in Thread, SendTask(th)
  PROVE  GoodDay'
<1>0. /\ TypeOK /\ CyclesHaveWork /\ ~Fault
      /\ threads[th].pc = "send" /\ threads[th] \in Thrd
      /\ CurrentTask(th) \in Task /\ CurrentWorker(th) \in Worker
  BY InCycle DEF Undisturbed, CoordinatorInv, SendTask
<1>1. UNCHANGED <<tasks, workers, jobs, handlers, failing, completed, acked, callVars>>
  BY DEF SendTask, storeVars, serviceVars
<1>2. PICK t \in Task, w \in Worker : t = CurrentTask(th) /\ w = CurrentWorker(th)
  BY <1>0
<1>3. CASE /\ stream[w] # NoStream
           /\ stream' = [stream EXCEPT ![w] = Append(@, t)] /\ NextTask(th)
  BY <1>0, <1>1, <1>2, <1>3, PushGood
<1>4. CASE GoTo(th, "revert") /\ UNCHANGED stream
  <2>1. Out(th)' = Out(th)
    BY <1>0, <1>4, OutGoTo DEF Out
  <2>2. \A ti \in Thread : Out(ti)' = Out(ti) /\ CurrentWorker(ti)' = CurrentWorker(ti)
    BY <1>0, <1>4, <2>1, OutGoTo
  <2> QED BY <1>1, <1>4, <2>2, QueuesKept, QuietStep
<1> QED BY <1>0, <1>2, <1>3, <1>4 DEF SendTask

\* Only the goroutine that holds the task lets go of it.
LEMMA RevertGood ==
  ASSUME Undisturbed, NEW th \in Thread, RevertAssignment(th)
  PROVE  GoodDay'
<1>t. PICK t \in Task, w \in Worker : t = CurrentTask(th) /\ w = CurrentWorker(th)
  BY InCycle DEF Undisturbed, CoordinatorInv, RevertAssignment
<1>0. /\ TypeOK /\ TypeOK' /\ GoodDay
      /\ threads[th].pc = "revert" /\ threads[th] \in Thrd
      /\ GoTo(th, "release")
  BY InCycle DEF Undisturbed, CoordinatorInv, RevertAssignment
<1>1. UNCHANGED <<workers, jobs, handlers, failing, completed, acked, callVars, stream>>
  BY DEF RevertAssignment, storeVars, serviceVars, nodeVars, Store!UnassignTask
<1>2. Out(th) = {t} /\ AssignedTo(t, w)
  BY <1>0, <1>t DEF Out, GoodDay, RowsFit
<1>3. tasks' = [tasks EXCEPT ![t].status = "pending", ![t].worker = NoWorker]
  BY <1>t, <1>2 DEF RevertAssignment, AssignedTo, Store!UnassignTask
<1>4. /\ tasks'[t].status = "pending"
      /\ \A u \in Task \ {t} : tasks'[u] = tasks[u]
  BY <1>0, <1>3, Shapes
<1>5. /\ Out(th)' = {}
      /\ \A ti \in Thread \ {th} :
           /\ Out(ti)' = Out(ti) /\ CurrentWorker(ti)' = CurrentWorker(ti)
           /\ t \notin Out(ti)
      /\ \A v \in Worker : Queue(v)' = Queue(v) /\ t \notin Queue(v)
      /\ QueuedOnce'
      /\ \A j \in Job : Holding(j) => jobs[j].task # t
  <2>1. /\ Out(th)' = {}
        /\ \A ti \in Thread \ {th} :
             Out(ti)' = Out(ti) /\ CurrentWorker(ti)' = CurrentWorker(ti)
    BY <1>0, OutGoTo
  <2>2. (\A v \in Worker : Queue(v)' = Queue(v)) /\ QueuedOnce'
    BY <1>1, QueuesKept
  <2> QED BY <1>0, <1>2, <2>1, <2>2 DEF GoodDay, OneHand
<1>6. OneHand'
  <2>1. \A j \in Job : Holding(j)' => Holding(j) /\ jobs'[j].task = jobs[j].task
    BY <1>1 DEF Holding, Marking, Releasing, Serving
  <2> QED BY <1>0, <1>5, <2>1, OneHandShrinks DEF GoodDay
<1>7. RowsFit'
  <2>1. \A ti \in Thread : \A u \in Out(ti) : u \in Task
    BY OutTask DEF Undisturbed
  <2>2. \A v \in Worker : \A u \in Queue(v) : u \in Task
    BY DEF Queue
  <2> QED BY <1>0, <1>4, <1>5, <2>1, <2>2, RowsKept DEF GoodDay
<1>8. JobsFit' /\ Attended'
  <2>1. \A j \in Job : Holding(j) => jobs[j].task \in Task
    BY <1>0, JobShape DEF Holding
  <2>2. \A u \in Task : InProgress(u)' => InProgress(u)
    BY <1>4 DEF InProgress
  <2> QED BY <1>0, <1>1, <1>4, <1>5, <2>1, <2>2, JobsKept DEF GoodDay
<1>9. ReportsFit' /\ SentIsServed' /\ FailingFits'
  BY <1>0, <1>1, ReportsKept DEF GoodDay
<1>10. Counted'
  <2>1. \A v \in Worker : SlotsOf(v)' \subseteq SlotsOf(v)
    BY <1>4 DEF SlotsOf, Store!Held
  <2> QED BY <1>0, <1>1, <2>1, CountedKept DEF GoodDay
<1>11. Recorded' /\ (callVars = NoCalls)'
  BY <1>0, <1>1, <1>2, <1>4, Shapes DEF GoodDay, Recorded, AssignedTo
<1> QED BY <1>5, <1>6, <1>7, <1>8, <1>9, <1>10, <1>11 DEF GoodDay

\* The worker takes the task over from its channel.
LEMMA ReceiveGood ==
  ASSUME Undisturbed, NEW w \in Worker, ReceiveTask(w)
  PROVE  GoodDay'
<1>0. TypeOK /\ TypeOK' /\ GoodDay
  BY DEF Undisturbed, CoordinatorInv
<1>1. UNCHANGED <<tasks, workers, threads, handlers, failing, completed, acked, callVars>>
  BY DEF ReceiveTask, storeVars, serviceVars
<1>2. PICK j \in Job, t \in Task :
        /\ Free(j) /\ t = Head(stream[w])
        /\ jobs' = [jobs EXCEPT ![j] =
                      [task |-> t, worker |-> w, start |-> TRUE,
                       stage |-> "received", sends |-> 0]]
  <2>1. stream[w] \in Seq(Task) /\ stream[w] # <<>>
    BY <1>0, StreamIsSeq DEF ReceiveTask
  <2>2. Head(stream[w]) \in Task
    BY <2>1, HeadTailProperties
  <2> QED BY <2>2 DEF ReceiveTask
<1>3. /\ stream[w] # <<>> /\ stream[w] \in Seq(Task)
      /\ stream'[w] = Tail(stream[w])
      /\ \A v \in Worker \ {w} : stream'[v] = stream[v]
  <2>1. stream' = [stream EXCEPT ![w] = Tail(@)]
    BY DEF ReceiveTask
  <2> QED BY <1>0, <2>1, Shapes, StreamIsSeq DEF ReceiveTask
<1>4. /\ Len(stream[w]) \in Nat \ {0} /\ Len(stream'[w]) = Len(stream[w]) - 1
      /\ stream[w][1] = t
      /\ \A i \in 1..Len(stream'[w]) : stream'[w][i] = stream[w][i + 1]
  BY <1>2, <1>3, HeadTailProperties, EmptySeq, LenProperties
<1>5. /\ Queue(w)' = Queue(w) \ {t} /\ t \in Queue(w)
      /\ \A v \in Worker \ {w} : Queue(v)' = Queue(v)
      /\ QueuedOnce'
  <2>1. QueuedOnce
    BY <1>0 DEF GoodDay
  <2>2. ASSUME NEW u \in Task
        PROVE  (\E i \in 1..Len(stream'[w]) : stream'[w][i] = u)
                 <=> u # t /\ \E i \in 1..Len(stream[w]) : stream[w][i] = u
    <3>1. ASSUME NEW i \in 1..Len(stream'[w]), stream'[w][i] = u
          PROVE  u # t /\ \E k \in 1..Len(stream[w]) : stream[w][k] = u
      <4>1. stream[w][i + 1] = u
        BY <1>4, <3>1
      <4>2. i + 1 \in 1..Len(stream[w]) /\ i + 1 # 1 /\ 1 \in 1..Len(stream[w])
        BY <1>4
      <4> QED BY <1>4, <2>1, <4>1, <4>2 DEF QueuedOnce
    <3>2. ASSUME NEW i \in 1..Len(stream[w]), stream[w][i] = u, u # t
          PROVE  \E k \in 1..Len(stream'[w]) : stream'[w][k] = u
      <4>1. i - 1 \in 1..Len(stream'[w]) /\ stream'[w][i - 1] = u
        <5>1. i # 1
          BY <1>4, <3>2
        <5>2. i - 1 \in 1..Len(stream'[w]) /\ (i - 1) + 1 = i
          BY <1>4, <5>1
        <5> QED BY <1>4, <3>2, <5>2
      <4> QED BY <4>1
    <3> QED BY <3>1, <3>2
  <2>3. t \in Queue(w)
    BY <1>4 DEF Queue
  <2>4. Queue(w)' = Queue(w) \ {t}
    BY <2>2 DEF Queue
  <2>5. \A v \in Worker \ {w} : Queue(v)' = Queue(v)
    BY <1>3 DEF Queue
  <2>6. \A i, k \in 1..Len(stream'[w]) : stream'[w][i] = stream'[w][k] => i = k
    <3>1. \A i \in 1..Len(stream'[w]) : i + 1 \in 1..Len(stream[w])
      BY <1>4
    <3> QED BY <1>4, <2>1, <3>1 DEF QueuedOnce
  <2>7. QueuedOnce'
    BY <1>3, <2>1, <2>6 DEF QueuedOnce
  <2> QED BY <2>3, <2>4, <2>5, <2>7
<1>6. /\ AssignedTo(t, w)
      /\ \A th \in Thread : t \notin Out(th)
      /\ \A v \in Worker : t \notin Queue(v)'
      /\ \A i \in Job : Holding(i) => jobs[i].task # t
  <2>1. OneHand /\ RowsFit
    BY <1>0 DEF GoodDay
  <2>2. AssignedTo(t, w) /\ \A v \in Worker \ {w} : t \notin Queue(v)
    BY <1>5, <2>1 DEF RowsFit, AssignedTo
  <2> QED BY <1>5, <2>1, <2>2 DEF OneHand
<1>7. /\ jobs[j] = NoJob /\ jobs'[j] # NoJob
      /\ jobs'[j].task = t /\ jobs'[j].worker = w /\ jobs'[j].start = TRUE
      /\ jobs'[j].stage = "received" /\ jobs'[j].sends = 0
      /\ \A i \in Job \ {j} : jobs'[i] = jobs[i]
      /\ ~Marking(j) /\ ~Releasing(j)
      /\ ~Served(j)
  <2>1. jobs[j] = NoJob /\ ~Served(j)
    BY <1>2 DEF Free, Served
  <2>2. jobs'[j] = [task |-> t, worker |-> w, start |-> TRUE,
                    stage |-> "received", sends |-> 0]
        /\ \A i \in Job \ {j} : jobs'[i] = jobs[i]
    BY <1>0, <1>2, Shapes
  <2>3. jobs'[j].stage = "received" /\ NoJob.stage = "none"
    BY <2>2 DEF NoJob
  <2>4. jobs'[j] # NoJob
    BY <2>3
  <2> QED BY <2>1, <2>2, <2>4 DEF Marking, Releasing, Serving, Served
<1>8. \A i \in Job : (Marking(i)' <=> Marking(i)) /\ (Releasing(i)' <=> Releasing(i))
  BY <1>1 DEF Marking, Releasing, Serving
<1>9. \A i \in Job \ {j} : Holding(i)' <=> Holding(i)
  BY <1>7, <1>8 DEF Holding
<1>10. OneHand'
  <2>1. OneHand /\ \A th \in Thread : Out(th)' = Out(th)
    BY <1>0, <1>1, OutsKept DEF GoodDay
  <2>2. \A th \in Thread, v \in Worker : Out(th)' \cap Queue(v)' = {}
    BY <1>5, <2>1 DEF OneHand
  <2>3. ASSUME NEW i \in Job, Holding(i)'
        PROVE  /\ \A th \in Thread : jobs'[i].task \notin Out(th)'
               /\ \A v \in Worker : jobs'[i].task \notin Queue(v)'
               /\ \A k \in Job \ {i} : Holding(k)' => jobs'[k].task # jobs'[i].task
    <3>1. CASE i = j
      BY <1>6, <1>7, <1>9, <2>1, <3>1
    <3>2. CASE i # j
      BY <1>5, <1>6, <1>7, <1>9, <2>1, <2>3, <3>2 DEF OneHand
    <3> QED BY <3>1, <3>2
  <2> QED BY <2>1, <2>2, <2>3 DEF OneHand
<1>11. RowsFit'
  BY <1>0, <1>1, <1>5, OutsKept, RowsKept DEF GoodDay
<1>12. JobsFit'
  <2>1. JobsFit
    BY <1>0 DEF GoodDay
  <2>2. JobFits(j)'
    BY <1>1, <1>6, <1>7, <1>8 DEF JobFits, AssignedTo
  <2>3. ASSUME NEW i \in Job \ {j}, jobs'[i] # NoJob
        PROVE  /\ jobs'[i].start => jobs'[i].stage = "received"
               /\ Holding(i)' => JobFits(i)'
    BY <1>1, <1>7, <1>8, <1>9, <2>1, <2>3 DEF JobsFit, JobFits
  <2> QED BY <1>7, <2>2, <2>3 DEF JobsFit
<1>13. Attended'
  <2>1. Attended
    BY <1>0 DEF GoodDay
  <2>2. \A i \in Job : Holding(i) => i # j
    BY <1>7 DEF Holding
  <2> QED BY <1>1, <1>7, <1>9, <2>1, <2>2 DEF Attended, InProgress
<1>14. ReportsFit' /\ SentIsServed' /\ FailingFits'
  <2>1. ReportsFit /\ SentIsServed /\ FailingFits
    BY <1>0 DEF GoodDay
  <2>2. ASSUME NEW h \in Handler, handlers[h] # IdleHandler PROVE ReportFits(h)'
    <3>1. handlers[h].job # j
      BY <1>7, <2>2 DEF Served
    <3>2. handlers[h].job \in Job
      BY <1>0, <2>2, Shapes DEF Report
    <3>3. ReportFits(h)
      BY <2>1, <2>2 DEF ReportsFit
    <3> QED BY <1>1, <1>7, <3>1, <3>2, <3>3 DEF ReportFits, Serving
  <2>3. SentIsServed'
    BY <1>1, <1>7, <2>1 DEF SentIsServed, Served
  <2>4. FailingFits'
    BY <1>1, <2>1 DEF FailingFits, Store!Idle
  <2> QED BY <1>1, <2>2, <2>3, <2>4 DEF ReportsFit
<1>15. Counted' /\ Recorded' /\ (callVars = NoCalls)'
  <2>1. \A v \in Worker : SlotsOf(v)' = SlotsOf(v)
    BY <1>1 DEF SlotsOf, Store!Held
  <2> QED BY <1>0, <1>1, <2>1, CountedKept DEF GoodDay, Recorded
<1> QED BY <1>5, <1>10, <1>11, <1>12, <1>13, <1>14, <1>15 DEF GoodDay

\* A delivery nobody reports on yet is held, and its row is not completed.
LEMMA Unreported ==
  ASSUME Undisturbed, NEW j \in Job, jobs[j] # NoJob, ~Served(j)
  PROVE  /\ Holding(j) /\ JobFits(j) /\ ~Marking(j) /\ ~Releasing(j)
         /\ jobs[j].sends = 0
         /\ tasks[jobs[j].task].status \in {"assigned", "in_progress"}
<1>0. TypeOK /\ GoodDay
  BY DEF Undisturbed, CoordinatorInv
<1>1. ~Marking(j) /\ ~Releasing(j)
  BY DEF Served, Marking, Releasing, Serving
<1>2. Holding(j)
  BY <1>1 DEF Holding
<1>3. JobFits(j)
  BY <1>0, <1>2 DEF GoodDay, JobsFit
<1>4. jobs[j].sends \in Nat
  BY <1>0, JobShape
<1>5. ~(jobs[j].sends > 0)
  BY <1>0 DEF GoodDay, SentIsServed
<1>6. jobs[j].sends = 0
  BY <1>4, <1>5
<1> QED BY <1>1, <1>2, <1>3, <1>6 DEF JobFits

\* A delivery that goes on and does not change hands.
LEMMA JobStep ==
  ASSUME Undisturbed, NEW j \in Job, jobs[j] # NoJob, ~Served(j),
         NEW t \in Task, t = jobs[j].task, NEW x,
         jobs' = [jobs EXCEPT ![j] = x], x # NoJob, x.task = t,
         x.worker = jobs[j].worker, x.sends = jobs[j].sends,
         \A u \in Task \ {t} : tasks'[u] = tasks[u],
         tasks'[t].worker = tasks[t].worker,
         tasks'[t].status \in {"assigned", "in_progress"},
         tasks'[t].status = "assigned" => x.stage = "failed" \/ x.start,
         x.start => tasks'[t].status = "assigned" /\ x.stage = "received",
         UNCHANGED <<workers, threads, handlers, failing, completed, acked,
                     callVars, stream>>
  PROVE  GoodDay'
<1>0. TypeOK /\ TypeOK' /\ GoodDay
  BY DEF Undisturbed, CoordinatorInv
<1>1. jobs'[j] = x /\ \A i \in Job \ {j} : jobs'[i] = jobs[i]
  BY <1>0, Shapes
<1>2. /\ Holding(j) /\ JobFits(j) /\ jobs[j].sends = 0
      /\ tasks[t].status \in {"assigned", "in_progress"}
      /\ ~Marking(j) /\ ~Releasing(j)
  BY Unreported
<1>3. \A i \in Job : (Marking(i)' <=> Marking(i)) /\ (Releasing(i)' <=> Releasing(i))
  BY DEF Marking, Releasing, Serving
<1>4. \A i \in Job : Holding(i)' <=> Holding(i)
  BY <1>1, <1>2, <1>3 DEF Holding
<1>5. /\ \A th \in Thread : t \notin Out(th)
      /\ \A w \in Worker : t \notin Queue(w)
      /\ \A i \in Job \ {j} : Holding(i) => jobs[i].task # t
      /\ t \notin completed \cup acked
  <2>1. OneHand /\ Recorded
    BY <1>0 DEF GoodDay
  <2>2. t \notin completed \cup acked
    BY <1>2, <2>1 DEF Recorded
  <2> QED BY <1>2, <2>1, <2>2 DEF OneHand
<1>6. OneHand'
  <2>1. \A i \in Job : Holding(i)' => Holding(i) /\ jobs'[i].task = jobs[i].task
    BY <1>1, <1>4
  <2>2. \A w \in Worker : Queue(w)' = Queue(w)
    BY QueuesKept
  <2> QED BY <1>0, <2>1, <2>2, OutsKept, OneHandShrinks DEF GoodDay
<1>7. RowsFit' /\ QueuedOnce'
  <2>1. \A th \in Thread : \A u \in Out(th) : u \in Task \ {t}
    BY <1>5, OutTask DEF Undisturbed
  <2>2. \A w \in Worker : \A u \in Queue(w) : u \in Task \ {t}
    BY <1>5 DEF Queue
  <2>3. QueuedOnce' /\ \A w \in Worker : Queue(w)' = Queue(w)
    BY QueuesKept
  <2> QED BY <1>0, <2>1, <2>2, <2>3, OutsKept, RowsKept DEF GoodDay
<1>8. JobsFit'
  <2>1. JobsFit
    BY <1>0 DEF GoodDay
  <2>2. JobFits(j)'
    BY <1>1, <1>2, <1>3 DEF JobFits
  <2>3. ASSUME NEW i \in Job \ {j}, jobs'[i] # NoJob
        PROVE  /\ jobs'[i].start => jobs'[i].stage = "received"
               /\ Holding(i)' => JobFits(i)'
    <3>1. jobs'[i] = jobs[i] /\ jobs[i].task \in Task
      BY <1>0, <1>1, <2>3, JobShape
    <3>2. Holding(i) => tasks'[jobs[i].task] = tasks[jobs[i].task]
      BY <1>5, <3>1
    <3>3. Holding(i)' => JobFits(i)'
      <4>1. Holding(i)' => JobFits(i)
        BY <1>4, <2>1, <2>3, <3>1 DEF JobsFit
      <4> QED BY <1>3, <1>4, <3>1, <3>2, <4>1 DEF JobFits
    <3> QED BY <2>1, <2>3, <3>1, <3>3 DEF JobsFit
  <2> QED BY <1>1, <2>2, <2>3 DEF JobsFit
<1>9. Attended'
  <2>1. Attended
    BY <1>0 DEF GoodDay
  <2>2. ASSUME NEW u \in Task \ {t}, InProgress(u)'
        PROVE  \E i \in Job : Holding(i)' /\ jobs'[i].task = u
    <3>1. PICK i \in Job : Holding(i) /\ jobs[i].task = u
      BY <2>1, <2>2 DEF Attended, InProgress
    <3>2. i # j
      BY <3>1
    <3> QED BY <1>1, <1>4, <3>1, <3>2
  <2> QED BY <1>1, <1>2, <1>4, <2>2 DEF Attended
<1>10. ReportsFit' /\ SentIsServed' /\ FailingFits'
  <2>1. ReportsFit /\ SentIsServed /\ FailingFits
    BY <1>0 DEF GoodDay
  <2>2. ASSUME NEW h \in Handler, handlers[h] # IdleHandler PROVE ReportFits(h)'
    <3>1. handlers[h].job # j
      BY <2>2 DEF Served
    <3>2. handlers[h].job \in Job
      BY <1>0, <2>2, Shapes DEF Report
    <3>3. ReportFits(h)
      BY <2>1, <2>2 DEF ReportsFit
    <3> QED BY <1>1, <3>1, <3>2, <3>3 DEF ReportFits, Serving
  <2>3. SentIsServed'
    BY <1>1, <1>2, <2>1 DEF SentIsServed, Served
  <2>4. FailingFits'
    BY <2>1 DEF FailingFits, Store!Idle
  <2> QED BY <2>2, <2>3, <2>4 DEF ReportsFit
<1>11. Counted'
  <2>1. \A w \in Worker : SlotsOf(w)' = SlotsOf(w)
    BY <1>2 DEF SlotsOf, Store!Held
  <2> QED BY <1>0, <2>1, CountedKept DEF GoodDay
<1>12. Recorded' /\ (callVars = NoCalls)'
  <2>1. \A u \in completed \cup acked : u \in Task \ {t}
    BY <1>0, <1>5, Shapes
  <2> QED BY <1>0, <2>1 DEF GoodDay, Recorded
<1> QED BY <1>6, <1>7, <1>8, <1>9, <1>10, <1>11, <1>12 DEF GoodDay

\* Before the proof is done nobody serves a report on the delivery.
LEMMA EarlyUnserved ==
  ASSUME Undisturbed, NEW j \in Job, jobs[j].stage \in {"received", "running"}
  PROVE  jobs[j] # NoJob /\ ~Served(j)
<1>1. jobs[j] # NoJob
  BY DEF NoJob
<1>2. ASSUME NEW h \in Handler, handlers[h] # IdleHandler, handlers[h].job = j
      PROVE  FALSE
  BY <1>2 DEF Undisturbed, GoodDay, ReportsFit, ReportFits
<1> QED BY <1>1, <1>2 DEF Served

LEMMA WorkGood ==
  ASSUME Undisturbed, NEW j \in Job, Work(j)
  PROVE  GoodDay'
<1>0. /\ TypeOK /\ GoodDay /\ ~Fault
      /\ jobs[j] # NoJob => (jobs[j].start => jobs[j].stage = "received")
  BY DEF Undisturbed, CoordinatorInv, GoodDay, JobsFit
<1>1. CASE ServeStart(j)
  <2>0. jobs[j] # NoJob /\ jobs[j].start /\ jobs[j].stage = "received"
    BY <1>0, <1>1 DEF ServeStart
  <2>1. PICK t \in Task : t = jobs[j].task
    BY <1>0, <2>0, JobShape
  <2>2. ~Served(j) /\ JobFits(j)
    BY <2>0, EarlyUnserved, Unreported
  <2>3. tasks[t].status = "assigned" /\ tasks[t].worker = jobs[j].worker
    BY <2>0, <2>1, <2>2 DEF JobFits
  <2>4. Store!StartTask(t, jobs[j].worker)
    BY <1>1, <2>1, <2>3 DEF ServeStart, Store!CanStart
  <2>5. tasks' = [tasks EXCEPT ![t].status = "in_progress"]
    BY <2>4 DEF Store!StartTask
  <2>6. /\ tasks'[t].status = "in_progress" /\ tasks'[t].worker = tasks[t].worker
        /\ \A u \in Task \ {t} : tasks'[u] = tasks[u]
    BY <1>0, <2>5, Shapes
  <2> DEFINE x == [jobs[j] EXCEPT !.start = FALSE]
  <2>7. jobs' = [jobs EXCEPT ![j] = x]
    BY <1>1 DEF ServeStart
  <2>8. /\ x.task = t /\ x.worker = jobs[j].worker /\ x.sends = jobs[j].sends
        /\ x.start = FALSE /\ x.stage = "received"
    BY <1>0, <2>0, <2>1, JobShape DEF JobState
  <2>9. x # NoJob
    BY <2>8 DEF NoJob
  <2> HIDE DEF x
  <2>10. UNCHANGED <<workers, threads, handlers, failing, completed, acked,
                     callVars, stream>>
    BY <1>1, <2>4 DEF ServeStart, Store!StartTask, serviceVars
  <2> QED BY <2>0, <2>1, <2>2, <2>6, <2>7, <2>8, <2>9, <2>10, JobStep
<1>2. ASSUME jobs[j].stage \in {"received", "running"}, UNCHANGED tasks,
             UNCHANGED <<workers, threads, handlers, failing, completed, acked,
                         callVars, stream>>,
             NEW x, jobs' = [jobs EXCEPT ![j] = x], x # NoJob,
             x.task = jobs[j].task, x.worker = jobs[j].worker,
             x.sends = jobs[j].sends, x.start = FALSE,
             jobs[j].start => x.stage = "failed"
      PROVE  GoodDay'
  <2>1. jobs[j] # NoJob /\ ~Served(j)
    BY <1>2, EarlyUnserved
  <2>2. PICK t \in Task : t = jobs[j].task
    BY <1>0, <2>1, JobShape
  <2>3. JobFits(j) /\ tasks[t].status \in {"assigned", "in_progress"}
    BY <2>1, <2>2, Unreported
  <2>4. tasks[t].status = "assigned" => x.stage = "failed"
    BY <1>2, <2>2, <2>3 DEF JobFits
  <2> QED BY <1>2, <2>1, <2>2, <2>3, <2>4, JobStep
<1>3. CASE SubmitTask(j)
  <2>1. jobs[j].stage = "received" /\ ~jobs[j].start
    BY <1>0, <1>3 DEF SubmitTask, FaultUnless
  <2>2. jobs[j] # NoJob
    BY <2>1, EarlyUnserved
  <2> DEFINE x == [jobs[j] EXCEPT !.stage = "running", !.start = FALSE]
  <2>3. jobs' = [jobs EXCEPT ![j] = x]
    BY <1>3 DEF SubmitTask
  <2>4. /\ x.task = jobs[j].task /\ x.worker = jobs[j].worker
        /\ x.sends = jobs[j].sends /\ x.start = FALSE /\ x.stage = "running"
    BY <1>0, <2>1, <2>2, JobShape DEF JobState
  <2>5. x # NoJob
    BY <2>4 DEF NoJob
  <2> HIDE DEF x
  <2>6. UNCHANGED <<tasks, workers, threads, handlers, failing, completed,
                    acked, callVars, stream>>
    BY <1>3, <2>1 DEF SubmitTask, Starting, storeVars, serviceVars, callVars
  <2> QED BY <1>2, <2>1, <2>3, <2>4, <2>5, <2>6
<1>4. CASE RejectInput(j)
  <2>1. jobs[j].stage = "received" /\ jobs[j] # NoJob
    BY <1>4, EarlyUnserved DEF RejectInput
  <2> DEFINE x == [jobs[j] EXCEPT !.stage = "failed", !.start = FALSE]
  <2>3. jobs' = [jobs EXCEPT ![j] = x]
    BY <1>4 DEF RejectInput
  <2>4. /\ x.task = jobs[j].task /\ x.worker = jobs[j].worker
        /\ x.sends = jobs[j].sends /\ x.start = FALSE /\ x.stage = "failed"
    BY <1>0, <2>1, JobShape DEF JobState
  <2>5. x # NoJob
    BY <2>4 DEF NoJob
  <2> HIDE DEF x
  <2>6. UNCHANGED <<tasks, workers, threads, handlers, failing, completed,
                    acked, callVars, stream>>
    BY <1>4 DEF RejectInput, storeVars, serviceVars
  <2> QED BY <1>2, <2>1, <2>3, <2>4, <2>5, <2>6
<1>5. CASE ProcessTask(j)
  <2>1. jobs[j].stage = "running" /\ jobs[j] # NoJob
    BY <1>5, EarlyUnserved DEF ProcessTask
  <2>2. PICK outcome \in {"proved", "failed"} :
          jobs' = [jobs EXCEPT ![j] = [jobs[j] EXCEPT !.stage = outcome]]
    BY <1>5 DEF ProcessTask
  <2> DEFINE x == [jobs[j] EXCEPT !.stage = outcome]
  <2>3. jobs' = [jobs EXCEPT ![j] = x]
    BY <2>2
  <2>4. /\ x.task = jobs[j].task /\ x.worker = jobs[j].worker
        /\ x.sends = jobs[j].sends /\ x.start = jobs[j].start
        /\ x.stage \in {"proved", "failed"} /\ jobs[j].start \in BOOLEAN
    BY <1>0, <2>1, JobShape DEF JobState
  <2>5. x # NoJob /\ ~jobs[j].start
    BY <1>0, <2>1, <2>4 DEF NoJob
  <2> HIDE DEF x
  <2>6. UNCHANGED <<tasks, workers, threads, handlers, failing, completed,
                    acked, callVars, stream>>
    BY <1>5 DEF ProcessTask, storeVars, serviceVars
  <2> QED BY <1>2, <2>1, <2>3, <2>4, <2>5, <2>6
<1>6. ~LoseStart(j)
  BY <1>0 DEF LoseStart
<1>7. ~GiveUp(j)
  <2>1. jobs[j] # NoJob /\ ~Served(j) => jobs[j].sends = 0
    BY Unreported
  <2> QED BY <2>1 DEF GiveUp
<1> QED BY <1>1, <1>3, <1>4, <1>5, <1>6, <1>7 DEF Work

\* The report RPC h and the delivery it is about.
LEMMA Serves ==
  ASSUME Undisturbed, NEW h \in Handler, handlers[h].pc # "idle"
  PROVE  \E j \in Job, t \in Task, w \in Worker :
           /\ handlers[h] # IdleHandler /\ handlers[h].job = j
           /\ jobs[j] # NoJob /\ jobs[j].sends > 0
           /\ handlers[h].task = t /\ jobs[j].task = t
           /\ handlers[h].worker = w /\ jobs[j].worker = w
           /\ jobs[j].start = FALSE
           /\ jobs[j].stage = IF handlers[h].pc \in {"check", "complete", "mark"}
                              THEN "proved" ELSE "failed"
           /\ \A g \in Handler \ {h} : ~Serving(g, j)
           /\ Marking(j) <=> handlers[h].pc = "mark"
           /\ Releasing(j) <=> handlers[h].pc = "decrement"
           /\ Holding(j) <=> handlers[h].pc # "decrement"
           /\ Holding(j) => JobFits(j)
<1>0. TypeOK /\ GoodDay
  BY DEF Undisturbed, CoordinatorInv
<1>1. PICK j \in Job, t \in Task, w \in Worker :
        /\ handlers[h] # IdleHandler /\ handlers[h].job = j
        /\ handlers[h].task = t /\ handlers[h].worker = w
  BY <1>0, ReportShape
<1>2. ReportFits(h)
  BY <1>0, <1>1 DEF GoodDay, ReportsFit
<1>3. /\ jobs[j] # NoJob /\ jobs[j].sends > 0
      /\ jobs[j].task = t /\ jobs[j].worker = w
      /\ jobs[j].stage = IF handlers[h].pc \in {"check", "complete", "mark"}
                         THEN "proved" ELSE "failed"
      /\ \A g \in Handler \ {h} : ~Serving(g, j)
  BY <1>1, <1>2 DEF ReportFits
<1>4. /\ Marking(j) <=> handlers[h].pc = "mark"
      /\ Releasing(j) <=> handlers[h].pc = "decrement"
  BY <1>1, <1>3 DEF Marking, Releasing, Serving
<1>5. /\ Holding(j) <=> handlers[h].pc # "decrement"
      /\ Holding(j) => JobFits(j)
      /\ jobs[j].start => jobs[j].stage = "received"
  BY <1>0, <1>3, <1>4 DEF Holding, GoodDay, JobsFit
<1>6. jobs[j].start = FALSE
  BY <1>0, <1>3, <1>5, JobShape
<1> QED BY <1>1, <1>3, <1>4, <1>5, <1>6

\* A worker with a slot taken is one whose count is not zero.
LEMMA SlotTaken ==
  ASSUME TypeOK, Counted, NEW t \in Task, NEW w \in Worker,
         Store!Held(t), tasks[t].worker = w
  PROVE  workers[w].count > 0
<1>1. t \in SlotsOf(w)
  BY DEF SlotsOf
<1>2. Cardinality(SlotsOf(w)) # 0
  BY <1>1, SlotsFinite, FS_EmptySet
<1>3. Cardinality(SlotsOf(w)) <= workers[w].count /\ workers[w].count \in Nat
  BY Shapes DEF Counted
<1> QED BY <1>2, <1>3, SlotsFinite

\* A row that is settled frees one slot and takes one off the count.
LEMMA SlotFreed ==
  ASSUME TypeOK, Counted, NEW t \in Task, NEW w \in Worker,
         Store!Held(t), tasks[t].worker = w, ~Store!Held(t)',
         \A u \in Task \ {t} : tasks'[u] = tasks[u],
         workers' = [workers EXCEPT ![w].count = @ - 1]
  PROVE  Counted'
<1>1. /\ workers'[w].count = workers[w].count - 1
      /\ \A v \in Worker \ {w} : workers'[v].count = workers[v].count
      /\ \A v \in Worker : workers[v].count \in Nat
  BY Shapes
<1>2. /\ SlotsOf(w)' = SlotsOf(w) \ {t} /\ t \in SlotsOf(w)
      /\ \A v \in Worker \ {w} : SlotsOf(v)' = SlotsOf(v)
  BY DEF SlotsOf, Store!Held
<1>3. Cardinality(SlotsOf(w)') = Cardinality(SlotsOf(w)) - 1
  <2>1. IsFiniteSet(SlotsOf(w)) /\ t \in SlotsOf(w)
    BY <1>2, SlotsFinite
  <2>2. Cardinality(SlotsOf(w) \ {t}) = Cardinality(SlotsOf(w)) - 1
    BY <2>1, FS_RemoveElement
  <2> QED BY <1>2, <2>2
<1>4. Cardinality(SlotsOf(w)') <= workers'[w].count
  <2>1. Cardinality(SlotsOf(w)) <= workers[w].count
    BY DEF Counted
  <2> QED BY <1>1, <1>3, <2>1, SlotsFinite
<1>5. \A v \in Worker \ {w} : Cardinality(SlotsOf(v)') <= workers'[v].count
  BY <1>1, <1>2 DEF Counted
<1> QED BY <1>4, <1>5 DEF Counted

\* A handler that goes on is still the only one that serves its delivery.
LEMMA HandlerMoves ==
  ASSUME NEW h \in Handler, NEW j \in Job, NEW r,
         r # IdleHandler, r.job = j, handlers'[h] = r,
         \A g \in Handler \ {h} : handlers'[g] = handlers[g],
         handlers[h] = IdleHandler \/ handlers[h].job = j,
         \A g \in Handler \ {h} : ~Serving(g, j)
  PROVE  /\ Marking(j)' <=> r.pc = "mark"
         /\ Releasing(j)' <=> r.pc = "decrement"
         /\ \A i \in Job \ {j} : Marking(i)' <=> Marking(i)
         /\ \A i \in Job \ {j} : Releasing(i)' <=> Releasing(i)
         /\ \A g \in Handler \ {h} : ~Serving(g, j)'
         /\ \A i \in Job \ {j} : Served(i) => Served(i)'
         /\ Served(j)'
<1>1. \A g \in Handler \ {h} : \A i : Serving(g, i)' <=> Serving(g, i)
  BY DEF Serving
<1>2. /\ Serving(h, j)' /\ \A i \in Job \ {j} : ~Serving(h, i)'
      /\ \A i \in Job \ {j} : ~Serving(h, i)
  BY DEF Serving
<1>3. /\ Marking(j)' <=> r.pc = "mark"
      /\ Releasing(j)' <=> r.pc = "decrement"
  BY <1>1, <1>2 DEF Marking, Releasing
<1>4. \A i \in Job \ {j} :
        (Marking(i)' <=> Marking(i)) /\ (Releasing(i)' <=> Releasing(i))
  BY <1>1, <1>2 DEF Marking, Releasing
<1>5. (\A i \in Job \ {j} : Served(i) => Served(i)') /\ Served(j)'
  BY <1>1, <1>2 DEF Served, Serving
<1> QED BY <1>1, <1>3, <1>4, <1>5

\* The first report on a delivery; another one would be a fault.
LEMMA SendReportGood ==
  ASSUME Undisturbed, NEW j \in Job, NEW h \in Handler, SendReport(j, h)
  PROVE  GoodDay'
<1>0. /\ TypeOK /\ TypeOK' /\ GoodDay /\ ~Fault
      /\ jobs[j].stage \in {"proved", "failed"} /\ handlers[h] = IdleHandler
  BY DEF Undisturbed, CoordinatorInv, SendReport
<1>1. jobs[j] # NoJob /\ ~Served(j)
  BY <1>0 DEF NoJob, SendReport, FaultUnless
<1>2. /\ Holding(j) /\ JobFits(j) /\ jobs[j].sends = 0
      /\ tasks[jobs[j].task].status \in {"assigned", "in_progress"}
      /\ ~Marking(j) /\ ~Releasing(j)
  BY <1>1, Unreported
<1>3. UNCHANGED <<tasks, workers, threads, failing, completed, acked, callVars, stream>>
  BY DEF SendReport, storeVars
<1>r. PICK r, x :
        /\ r = [pc |-> IF jobs[j].stage = "proved" THEN "check" ELSE "read",
                job |-> j, task |-> jobs[j].task, worker |-> jobs[j].worker]
        /\ x = [jobs[j] EXCEPT !.sends = @ + 1]
  OBVIOUS
<1>4. handlers' = [handlers EXCEPT ![h] = r] /\ jobs' = [jobs EXCEPT ![j] = x]
  BY <1>r DEF SendReport
<1>5. /\ r.pc = IF jobs[j].stage = "proved" THEN "check" ELSE "read"
      /\ r.job = j /\ r.task = jobs[j].task /\ r.worker = jobs[j].worker
  BY <1>r
<1>6. /\ x.task = jobs[j].task /\ x.worker = jobs[j].worker
      /\ x.start = jobs[j].start /\ x.stage = jobs[j].stage /\ x.sends = 1
  BY <1>r, <1>0, <1>1, <1>2, JobShape DEF JobState
<1>7. x # NoJob /\ r # IdleHandler
  BY <1>0, <1>5, <1>6 DEF NoJob, IdleHandler
<1>8. jobs'[j] = x /\ \A i \in Job \ {j} : jobs'[i] = jobs[i]
  BY <1>0, <1>4, Shapes
<1>9. \A g \in Handler \ {h} : ~Serving(g, j)
  BY <1>1 DEF Served, Serving
<1>10. /\ handlers'[h] = r
       /\ \A g \in Handler \ {h} : handlers'[g] = handlers[g]
  BY <1>0, <1>4, Shapes
<1>m. /\ Marking(j)' <=> r.pc = "mark"
      /\ Releasing(j)' <=> r.pc = "decrement"
      /\ \A i \in Job \ {j} : Marking(i)' <=> Marking(i)
      /\ \A i \in Job \ {j} : Releasing(i)' <=> Releasing(i)
      /\ \A g \in Handler \ {h} : ~Serving(g, j)'
      /\ \A i \in Job \ {j} : Served(i) => Served(i)'
      /\ Served(j)'
  BY <1>0, <1>5, <1>7, <1>9, <1>10, HandlerMoves
<1>11. \A i \in Job : Holding(i)' <=> Holding(i)
  BY <1>2, <1>5, <1>7, <1>8, <1>m DEF Holding
<1>12. \A i \in Job : jobs'[i].task = jobs[i].task /\ jobs'[i].worker = jobs[i].worker
                        /\ jobs'[i].start = jobs[i].start
                        /\ jobs'[i].stage = jobs[i].stage
                        /\ (jobs'[i] # NoJob <=> jobs[i] # NoJob)
  BY <1>1, <1>6, <1>7, <1>8
<1>13. OneHand'
  <2>1. \A w \in Worker : Queue(w)' = Queue(w)
    BY <1>3, QueuesKept
  <2> QED BY <1>0, <1>3, <1>11, <1>12, <2>1, OutsKept, OneHandShrinks DEF GoodDay
<1>14. RowsFit' /\ QueuedOnce'
  <2>1. QueuedOnce' /\ \A w \in Worker : Queue(w)' = Queue(w)
    BY <1>3, QueuesKept
  <2> QED BY <1>0, <1>3, <2>1, OutsKept, RowsKept DEF GoodDay
<1>15. JobsFit' /\ Attended'
  <2>1. JobsFit /\ Attended
    BY <1>0 DEF GoodDay
  <2>2. JobFits(j)'
    BY <1>2, <1>3, <1>5, <1>10, <1>m, <1>12 DEF JobFits
  <2>3. ASSUME NEW i \in Job, jobs'[i] # NoJob
        PROVE  /\ jobs'[i].start => jobs'[i].stage = "received"
               /\ Holding(i)' => JobFits(i)'
    BY <1>3, <1>10, <1>m, <1>11, <1>12, <2>1, <2>2, <2>3 DEF JobsFit, JobFits
  <2>4. Attended'
    BY <1>3, <1>11, <1>12, <2>1 DEF Attended, InProgress
  <2> QED BY <2>3, <2>4 DEF JobsFit
<1>16. ReportsFit'
  <2>1. ReportFits(h)'
    BY <1>0, <1>5, <1>6, <1>8, <1>10, <1>m, <1>7 DEF ReportFits
  <2>2. ASSUME NEW g \in Handler \ {h}, handlers[g] # IdleHandler
        PROVE  ReportFits(g)'
    <3>1. ReportFits(g)
      BY <1>0, <2>2 DEF GoodDay, ReportsFit
    <3>2. handlers[g].job \in Job \ {j}
      BY <1>0, <1>9, <2>2, Shapes DEF Report, Serving
    <3>3. \A f \in Handler : Serving(f, handlers[g].job)' => Serving(f, handlers[g].job)
      BY <1>5, <1>10, <1>m, <2>2, <3>2 DEF Serving
    <3> QED BY <1>8, <1>10, <1>m, <3>1, <3>2, <3>3 DEF ReportFits
  <2> QED BY <1>10, <1>m, <2>1, <2>2 DEF ReportsFit
<1>17. SentIsServed'
  BY <1>0, <1>8, <1>10, <1>m DEF GoodDay, SentIsServed
<1>18. FailingFits'
  <2>1. FailingFits /\ handlers[h].pc = "idle" /\ r.pc # "write"
    BY <1>0, <1>5 DEF GoodDay, IdleHandler
  <2> QED BY <1>3, <1>10, <1>m, <2>1 DEF FailingFits, Store!Idle
<1>19. Counted' /\ Recorded' /\ (callVars = NoCalls)'
  <2>1. \A v \in Worker : SlotsOf(v)' = SlotsOf(v)
    BY <1>3 DEF SlotsOf, Store!Held
  <2> QED BY <1>0, <1>3, <2>1, CountedKept DEF GoodDay, Recorded
<1> QED BY <1>13, <1>14, <1>15, <1>16, <1>17, <1>18, <1>19 DEF GoodDay

\* A handler that goes on.
LEMMA HandlerStep ==
  ASSUME Undisturbed, NEW h \in Handler, handlers[h].pc # "idle",
         NEW j \in Job, NEW t \in Task, j = handlers[h].job, t = handlers[h].task,
         NEW pc \in {"complete", "mark", "write", "decrement"},
         handlers' = [handlers EXCEPT ![h].pc = pc],
         pc \in {"complete", "mark"} <=> handlers[h].pc \in {"check", "complete", "mark"},
         handlers[h].pc \notin {"mark", "decrement"},
         \A u \in Task \ {t} : tasks'[u] = tasks[u],
         IF pc = "decrement" THEN ~InProgress(t)'
                             ELSE tasks'[t].worker = tasks[t].worker,
         pc = "mark" => tasks'[t].status = "completed",
         pc \in {"complete", "write"} => tasks'[t].status = tasks[t].status,
         \A g \in Handler \ {h} : failing'[g] = failing[g],
         pc = "write" <=> failing'[h] # Store!Idle,
         pc = "write" => failing'[h].task = t
                           /\ failing'[h].worker = handlers[h].worker,
         Counted', UNCHANGED <<jobs, threads, completed, acked, callVars, stream>>
  PROVE  GoodDay'
<1>0. TypeOK /\ TypeOK' /\ GoodDay
  BY DEF Undisturbed, CoordinatorInv
<1>1. PICK w \in Worker :
        /\ handlers[h] # IdleHandler
        /\ jobs[j] # NoJob /\ jobs[j].sends > 0 /\ jobs[j].task = t
        /\ handlers[h].worker = w /\ jobs[j].worker = w
        /\ jobs[j].start = FALSE
        /\ jobs[j].stage = IF handlers[h].pc \in {"check", "complete", "mark"}
                           THEN "proved" ELSE "failed"
        /\ \A g \in Handler \ {h} : ~Serving(g, j)
        /\ Marking(j) <=> handlers[h].pc = "mark"
        /\ Holding(j) /\ JobFits(j)
  <2>1. PICK i \in Job, u \in Task, w \in Worker :
           /\ handlers[h] # IdleHandler /\ handlers[h].job = i
           /\ jobs[i] # NoJob /\ jobs[i].sends > 0
           /\ handlers[h].task = u /\ jobs[i].task = u
           /\ handlers[h].worker = w /\ jobs[i].worker = w
           /\ jobs[i].start = FALSE
           /\ jobs[i].stage = IF handlers[h].pc \in {"check", "complete", "mark"}
                              THEN "proved" ELSE "failed"
           /\ \A g \in Handler \ {h} : ~Serving(g, i)
           /\ Marking(i) <=> handlers[h].pc = "mark"
           /\ Holding(i) <=> handlers[h].pc # "decrement"
           /\ Holding(i) => JobFits(i)
    BY Serves
  <2> QED BY <2>1
<1>2. PICK r : r = [handlers[h] EXCEPT !.pc = pc]
  OBVIOUS
<1>3. /\ handlers' = [handlers EXCEPT ![h] = r]
      /\ r.pc = pc /\ r.job = j /\ r.task = t /\ r.worker = w
  BY <1>0, <1>1, <1>2, ReportShape DEF Report
<1>4. r # IdleHandler
  BY <1>3 DEF IdleHandler
<1>5. /\ handlers'[h] = r
      /\ \A g \in Handler \ {h} : handlers'[g] = handlers[g]
  BY <1>0, <1>3, Shapes
<1>m. /\ Marking(j)' <=> pc = "mark"
      /\ Releasing(j)' <=> pc = "decrement"
      /\ \A i \in Job \ {j} : Marking(i)' <=> Marking(i)
      /\ \A i \in Job \ {j} : Releasing(i)' <=> Releasing(i)
      /\ \A g \in Handler \ {h} : ~Serving(g, j)'
      /\ \A i \in Job \ {j} : Served(i) => Served(i)'
      /\ Served(j)'
  <2>1. \A g \in Handler \ {h} : ~Serving(g, j)
    BY <1>1
  <2> QED BY <1>3, <1>4, <1>5, <2>1, HandlerMoves
<1>6. /\ \A i \in Job \ {j} : Holding(i)' <=> Holding(i)
      /\ Holding(j)' <=> pc # "decrement"
  BY <1>1, <1>5, <1>m DEF Holding
<1>7. /\ \A th \in Thread : t \notin Out(th)
      /\ \A v \in Worker : t \notin Queue(v)
      /\ \A i \in Job \ {j} : Holding(i) => jobs[i].task # t
      /\ t \notin completed \cup acked
  BY <1>0, <1>1 DEF GoodDay, OneHand, Recorded, JobFits
<1>8. OneHand'
  <2>1. \A v \in Worker : Queue(v)' = Queue(v)
    BY QueuesKept
  <2>2. \A i \in Job : Holding(i)' => Holding(i) /\ jobs'[i].task = jobs[i].task
    BY <1>1, <1>6
  <2> QED BY <1>0, <2>1, <2>2, OutsKept, OneHandShrinks DEF GoodDay
<1>9. RowsFit' /\ QueuedOnce'
  <2>1. \A th \in Thread : \A u \in Out(th) : u \in Task \ {t}
    BY <1>7, OutTask DEF Undisturbed
  <2>2. \A v \in Worker : \A u \in Queue(v) : u \in Task \ {t}
    BY <1>7 DEF Queue
  <2>3. QueuedOnce' /\ \A v \in Worker : Queue(v)' = Queue(v)
    BY QueuesKept
  <2> QED BY <1>0, <2>1, <2>2, <2>3, OutsKept, RowsKept DEF GoodDay
<1>10. JobsFit'
  <2>1. JobsFit
    BY <1>0 DEF GoodDay
  <2>2. Holding(j)' => JobFits(j)'
    <3>1. CASE pc = "mark"
      BY <1>1, <1>5, <1>m, <3>1 DEF JobFits
    <3>2. CASE pc \in {"complete", "write"}
      BY <1>1, <1>5, <1>m, <3>2 DEF JobFits
    <3> QED BY <1>6, <3>1, <3>2
  <2>3. ASSUME NEW i \in Job \ {j}, jobs[i] # NoJob, Holding(i) PROVE JobFits(i)'
    <3>1. jobs[i].task \in Task \ {t}
      BY <1>0, <1>7, <2>3, JobShape
    <3> QED BY <1>5, <1>m, <2>1, <2>3, <3>1 DEF JobsFit, JobFits
  <2> QED BY <1>1, <1>6, <2>1, <2>2, <2>3 DEF JobsFit
<1>11. Attended'
  <2>1. Attended
    BY <1>0 DEF GoodDay
  <2>2. ASSUME NEW u \in Task \ {t}, InProgress(u)'
        PROVE  \E i \in Job : Holding(i)' /\ jobs'[i].task = u
    <3>1. PICK i \in Job : Holding(i) /\ jobs[i].task = u
      BY <2>1, <2>2 DEF Attended, InProgress
    <3>2. i # j
      BY <1>1, <3>1
    <3> QED BY <1>6, <3>1, <3>2
  <2> QED BY <1>1, <1>6, <2>2 DEF Attended
<1>12. ReportsFit'
  <2>1. ReportFits(h)'
    BY <1>1, <1>3, <1>5, <1>m DEF ReportFits
  <2>2. ASSUME NEW g \in Handler \ {h}, handlers[g] # IdleHandler
        PROVE  ReportFits(g)'
    <3>1. ReportFits(g)
      BY <1>0, <2>2 DEF GoodDay, ReportsFit
    <3>2. handlers[g].job # j
      BY <1>1, <2>2 DEF Serving
    <3>3. \A f \in Handler : Serving(f, handlers[g].job)' => Serving(f, handlers[g].job)
      BY <1>3, <1>5, <1>m, <2>2, <3>2 DEF Serving
    <3> QED BY <1>5, <1>m, <3>1, <3>2, <3>3 DEF ReportFits
  <2> QED BY <1>5, <1>m, <2>1, <2>2 DEF ReportsFit
<1>13. SentIsServed'
  BY <1>0, <1>5, <1>m DEF GoodDay, SentIsServed
<1>14. FailingFits'
  <2>1. FailingFits
    BY <1>0 DEF GoodDay
  <2> QED BY <1>1, <1>3, <1>5, <1>m, <2>1 DEF FailingFits, Store!Idle
<1>15. Recorded' /\ (callVars = NoCalls)'
  <2>1. \A u \in completed \cup acked : u \in Task \ {t}
    BY <1>0, <1>7, Shapes
  <2> QED BY <1>0, <2>1 DEF GoodDay, Recorded
<1> QED BY <1>8, <1>9, <1>10, <1>11, <1>12, <1>13, <1>14, <1>15 DEF GoodDay

\* The answer settles a delivery whose row is settled.
LEMMA ReplyGood ==
  ASSUME Undisturbed, NEW h \in Handler, handlers[h].pc \in {"mark", "decrement"},
         NEW j \in Job, NEW t \in Task, j = handlers[h].job, t = handlers[h].task,
         handlers' = [handlers EXCEPT ![h] = IdleHandler],
         jobs' = [jobs EXCEPT ![j] = NoJob],
         UNCHANGED <<tasks, workers, threads, failing, callVars, stream>>,
         \A u \in completed' \cup acked' :
           u \in completed \cup acked \/ (u = t /\ handlers[h].pc = "mark")
  PROVE  GoodDay'
<1>0. TypeOK /\ TypeOK' /\ GoodDay
  BY DEF Undisturbed, CoordinatorInv
<1>1. /\ handlers[h] # IdleHandler /\ jobs[j].task = t
      /\ \A g \in Handler \ {h} : ~Serving(g, j)
      /\ Holding(j) => JobFits(j)
      /\ Marking(j) <=> handlers[h].pc = "mark"
      /\ Holding(j) <=> handlers[h].pc # "decrement"
  <2>1. PICK i \in Job, u \in Task :
          /\ handlers[h] # IdleHandler /\ handlers[h].job = i
          /\ handlers[h].task = u /\ jobs[i].task = u
          /\ \A g \in Handler \ {h} : ~Serving(g, i)
          /\ Holding(i) => JobFits(i)
          /\ Marking(i) <=> handlers[h].pc = "mark"
          /\ Holding(i) <=> handlers[h].pc # "decrement"
    BY Serves
  <2> QED BY <2>1
<1>2. /\ handlers'[h] = IdleHandler /\ jobs'[j] = NoJob
      /\ \A g \in Handler \ {h} : handlers'[g] = handlers[g]
      /\ \A i \in Job \ {j} : jobs'[i] = jobs[i]
  BY <1>0, Shapes
<1>3. /\ \A g \in Handler : \A i \in Job \ {j} : Serving(g, i)' <=> Serving(g, i)
      /\ \A g \in Handler : ~Serving(g, j)'
  BY <1>1, <1>2 DEF Serving
<1>4. \A i \in Job \ {j} : (Marking(i)' <=> Marking(i)) /\ (Releasing(i)' <=> Releasing(i))
  BY <1>2, <1>3 DEF Marking, Releasing, Serving
<1>5. /\ \A i \in Job \ {j} : Holding(i)' <=> Holding(i)
      /\ ~Holding(j)'
  BY <1>2, <1>4 DEF Holding
<1>6. OneHand'
  <2>1. \A w \in Worker : Queue(w)' = Queue(w)
    BY QueuesKept
  <2>2. \A i \in Job : Holding(i)' => Holding(i) /\ jobs'[i].task = jobs[i].task
    BY <1>2, <1>5
  <2> QED BY <1>0, <2>1, <2>2, OutsKept, OneHandShrinks DEF GoodDay
<1>7. RowsFit' /\ QueuedOnce'
  <2>1. QueuedOnce' /\ \A w \in Worker : Queue(w)' = Queue(w)
    BY QueuesKept
  <2> QED BY <1>0, <2>1, OutsKept, RowsKept DEF GoodDay
<1>8. JobsFit'
  <2>1. JobsFit
    BY <1>0 DEF GoodDay
  <2>2. ASSUME NEW i \in Job \ {j}, jobs[i] # NoJob, Holding(i) PROVE JobFits(i)'
    BY <1>2, <1>4, <2>1, <2>2 DEF JobsFit, JobFits
  <2> QED BY <1>2, <1>5, <2>1, <2>2 DEF JobsFit
<1>9. Attended'
  <2>1. Attended
    BY <1>0 DEF GoodDay
  <2>2. ASSUME NEW u \in Task, InProgress(u)
        PROVE  \E i \in Job : Holding(i)' /\ jobs'[i].task = u
    <3>1. PICK i \in Job : Holding(i) /\ jobs[i].task = u
      BY <2>1, <2>2 DEF Attended
    <3>2. i # j
      BY <1>1, <2>2, <3>1 DEF JobFits, InProgress
    <3> QED BY <1>2, <1>5, <3>1, <3>2
  <2> QED BY <2>2 DEF Attended, InProgress
<1>10. ReportsFit'
  <2>1. ASSUME NEW g \in Handler \ {h}, handlers[g] # IdleHandler
        PROVE  ReportFits(g)'
    <3>1. ReportFits(g)
      BY <1>0, <2>1 DEF GoodDay, ReportsFit
    <3>2. handlers[g].job \in Job \ {j}
      BY <1>0, <1>1, <2>1, Shapes DEF Report, Serving
    <3> QED BY <1>2, <1>3, <3>1, <3>2 DEF ReportFits
  <2> QED BY <1>2, <2>1 DEF ReportsFit
<1>11. SentIsServed'
  <2>1. ASSUME NEW i \in Job \ {j}, Served(i) PROVE Served(i)'
    BY <1>3, <2>1 DEF Served, Serving
  <2> QED BY <1>0, <1>2, <2>1 DEF GoodDay, SentIsServed
<1>12. FailingFits'
  <2>1. FailingFits /\ IdleHandler.pc = "idle"
    BY <1>0 DEF GoodDay, IdleHandler
  <2> QED BY <1>2, <2>1 DEF FailingFits, Store!Idle
<1>13. Counted' /\ (callVars = NoCalls)'
  <2>1. \A w \in Worker : SlotsOf(w)' = SlotsOf(w)
    BY DEF SlotsOf, Store!Held
  <2> QED BY <1>0, <2>1, CountedKept DEF GoodDay
<1>14. Recorded'
  <2>1. handlers[h].pc = "mark" => tasks[t].status = "completed"
    BY <1>1 DEF JobFits
  <2> QED BY <1>0, <2>1 DEF GoodDay, Recorded
<1> QED BY <1>6, <1>7, <1>8, <1>9, <1>10, <1>11, <1>12, <1>13, <1>14 DEF GoodDay

LEMMA CompletionGood ==
  ASSUME Undisturbed, NEW h \in Handler, CheckCompleted(h) \/ CompleteTask(h)
  PROVE  GoodDay'
<1>0. TypeOK /\ TypeOK' /\ GoodDay /\ handlers[h].pc \in {"check", "complete"}
  BY DEF Undisturbed, CoordinatorInv, CheckCompleted, CompleteTask
<1>1. PICK j \in Job, t \in Task, w \in Worker :
        /\ handlers[h].job = j /\ handlers[h].task = t
        /\ jobs[j].task = t /\ jobs[j].worker = w
        /\ jobs[j].start = FALSE /\ jobs[j].stage = "proved"
        /\ Marking(j) <=> handlers[h].pc = "mark"
        /\ JobFits(j)
  BY <1>0, Serves
<1>2. tasks[t].status = "in_progress" /\ tasks[t].worker = w
  BY <1>0, <1>1 DEF JobFits
<1>3. t \notin completed
  BY <1>0, <1>2 DEF GoodDay, Recorded
<1>4. failing[h] = Store!Idle
  BY <1>0 DEF GoodDay, FailingFits
<1>5. CASE CheckCompleted(h)
  <2>1. /\ handlers[h].pc = "check"
        /\ handlers' = [handlers EXCEPT ![h].pc = "complete"]
        /\ UNCHANGED <<tasks, workers, failing, jobs, threads, completed,
                       acked, callVars, stream>>
    BY <1>1, <1>3, <1>5 DEF CheckCompleted, Continue, storeVars
  <2>2. Counted'
    <3>1. \A v \in Worker : SlotsOf(v)' = SlotsOf(v)
      BY <2>1 DEF SlotsOf, Store!Held
    <3> QED BY <1>0, <2>1, <3>1, CountedKept DEF GoodDay
  <2>3. failing'[h] = Store!Idle
    BY <1>4, <2>1
  <2> QED BY <1>1, <2>1, <2>2, <2>3, HandlerStep
<1>6. CASE CompleteTask(h)
  <2>1. workers[w].count > 0
    BY <1>0, <1>2, SlotTaken DEF GoodDay, Store!Held
  <2>2. /\ handlers[h].pc = "complete"
        /\ Store!CompleteTask(t)
        /\ handlers' = [handlers EXCEPT ![h].pc = "mark"]
        /\ UNCHANGED <<jobs, threads, completed, acked, callVars, stream>>
    BY <1>1, <1>2, <1>6, <2>1 DEF CompleteTask, Continue, Store!CanComplete
  <2>3. /\ workers' = [workers EXCEPT ![w].count = @ - 1]
        /\ tasks' = [tasks EXCEPT ![t].status = "completed"]
        /\ UNCHANGED failing
    BY <1>2, <2>2 DEF Store!CompleteTask, Store!ReleaseSlot
  <2>4. /\ tasks'[t].status = "completed" /\ tasks'[t].worker = tasks[t].worker
        /\ \A u \in Task \ {t} : tasks'[u] = tasks[u]
    BY <1>0, <2>3, Shapes
  <2>5. Counted'
    BY <1>0, <1>2, <2>3, <2>4, SlotFreed DEF GoodDay, Store!Held
  <2>6. failing'[h] = Store!Idle
    BY <1>4, <2>3
  <2> QED BY <1>1, <2>2, <2>3, <2>4, <2>5, <2>6, HandlerStep
<1> QED BY <1>5, <1>6

LEMMA FailureGood ==
  ASSUME Undisturbed, NEW h \in Handler, ReadFailedTask(h) \/ FailTask(h)
  PROVE  GoodDay'
<1>0. TypeOK /\ TypeOK' /\ GoodDay /\ handlers[h].pc \in {"read", "write"}
  BY DEF Undisturbed, CoordinatorInv, ReadFailedTask, FailTask
<1>1. PICK j \in Job, t \in Task, w \in Worker :
        /\ handlers[h].job = j /\ handlers[h].task = t
        /\ handlers[h].worker = w
        /\ jobs[j].task = t /\ jobs[j].worker = w
        /\ Marking(j) <=> handlers[h].pc = "mark"
        /\ JobFits(j)
  BY <1>0, Serves
<1>2. tasks[t].status \in {"assigned", "in_progress"} /\ tasks[t].worker = w
  BY <1>0, <1>1 DEF JobFits
<1>3. CASE ReadFailedTask(h)
  <2>1. w # NoWorker
    OBVIOUS
  <2>2. /\ handlers[h].pc = "read"
        /\ Store!FailTaskRead(h, t)
        /\ handlers' = [handlers EXCEPT ![h].pc = "write"]
        /\ UNCHANGED <<jobs, threads, completed, acked, callVars, stream>>
    BY <1>1, <1>2, <1>3, <2>1 DEF ReadFailedTask, Continue
  <2>3. PICK f : /\ f = [task |-> t, worker |-> tasks[t].worker,
                         retry |-> tasks[t].retries < MaxRetries]
                 /\ failing' = [failing EXCEPT ![h] = f]
                 /\ UNCHANGED <<tasks, workers>>
    BY <2>2 DEF Store!FailTaskRead
  <2>4. f.task = t /\ f.worker = w
    BY <1>2, <2>3
  <2>5. f # Store!Idle
    <3>1. f.worker # NoWorker /\ f \in [task : Task, worker : Worker, retry : BOOLEAN]
      BY <1>2, <2>3
    <3>2. Store!Idle \notin [task : Task, worker : Worker, retry : BOOLEAN]
      BY DEF Store!Idle
    <3> QED BY <3>1, <3>2
  <2>6. failing'[h] = f /\ \A g \in Handler \ {h} : failing'[g] = failing[g]
    BY <1>0, <2>3, Shapes
  <2>7. Counted'
    <3>1. \A v \in Worker : SlotsOf(v)' = SlotsOf(v)
      BY <2>3 DEF SlotsOf, Store!Held
    <3> QED BY <1>0, <2>3, <3>1, CountedKept DEF GoodDay
  <2> QED BY <1>1, <2>2, <2>3, <2>4, <2>5, <2>6, <2>7, HandlerStep
<1>4. CASE FailTask(h)
  <2>0. failing[h] # Store!Idle /\ failing[h].task = t /\ failing[h].worker = w
    BY <1>1, <1>4 DEF FailTask, GoodDay, Undisturbed, FailingFits
  <2>1. workers[w].count > 0 /\ workers[w].count \in Nat
    BY <1>0, <1>2, SlotTaken, Shapes DEF GoodDay, Store!Held
  <2>2. /\ handlers[h].pc = "write"
        /\ Store!FailTask(h)
        /\ handlers' = [handlers EXCEPT ![h].pc = "decrement"]
        /\ UNCHANGED <<jobs, threads, completed, acked, callVars, stream>>
    BY <1>4, <2>0, <2>1 DEF FailTask, Continue
  <2>3. /\ tasks'[t].status \in {"pending", "failed"}
        /\ \A u \in Task \ {t} : tasks'[u] = tasks[u]
    <3>1. PICK again, failed :
            /\ again = [status |-> "pending", worker |-> NoWorker,
                        retries |-> tasks[t].retries + 1]
            /\ failed = [tasks[t] EXCEPT !.status = "failed"]
            /\ tasks' = [tasks EXCEPT ![t] = IF failing[h].retry THEN again
                                                               ELSE failed]
      BY <2>0, <2>2 DEF Store!FailTask
    <3>2. failed.status = "failed"
      BY <1>0, <3>1, Shapes
    <3>3. again.status = "pending"
      BY <3>1
    <3> QED BY <1>0, <3>1, <3>2, <3>3, Shapes
  <2>4. /\ workers' = [workers EXCEPT ![w].count = @ - 1]
        /\ failing' = [failing EXCEPT ![h] = Store!Idle]
    BY <2>0, <2>2 DEF Store!FailTask, Store!ReleaseSlot
  <2>5. /\ failing'[h] = Store!Idle
        /\ \A g \in Handler \ {h} : failing'[g] = failing[g]
    BY <1>0, <2>4, Shapes
  <2>6. Counted'
    BY <1>0, <1>2, <2>3, <2>4, SlotFreed DEF GoodDay, Store!Held
  <2>7. ~InProgress(t)'
    BY <2>3 DEF InProgress
  <2> QED BY <1>1, <2>2, <2>3, <2>5, <2>6, <2>7, HandlerStep
<1> QED BY <1>3, <1>4

LEMMA SettledGood ==
  ASSUME Undisturbed, NEW h \in Handler, MarkCompleted(h) \/ ReleaseFailedWorker(h)
  PROVE  GoodDay'
<1>0. ~Fault /\ handlers[h].pc \in {"mark", "decrement"}
  BY DEF Undisturbed, MarkCompleted, ReleaseFailedWorker
<1>1. PICK j \in Job, t \in Task : j = handlers[h].job /\ t = handlers[h].task
  BY <1>0, ReportShape DEF Undisturbed, CoordinatorInv
<1>2. /\ handlers' = [handlers EXCEPT ![h] = IdleHandler]
      /\ jobs' = [jobs EXCEPT ![j] = NoJob]
  BY <1>0, <1>1 DEF MarkCompleted, ReleaseFailedWorker, ReplySuccess
<1>3. /\ UNCHANGED <<tasks, workers, threads, failing, callVars, stream>>
      /\ \A u \in completed' \cup acked' :
           u \in completed \cup acked \/ (u = t /\ handlers[h].pc = "mark")
  <2>1. CASE MarkCompleted(h)
    BY <1>1, <2>1 DEF MarkCompleted, storeVars
  <2>2. CASE ReleaseFailedWorker(h)
    <3>1. UNCHANGED <<storeVars, threads, callVars, completed, acked, stream>>
      BY <2>2 DEF ReleaseFailedWorker
    <3> QED BY <3>1 DEF storeVars
  <2> QED BY <2>1, <2>2
<1> QED BY <1>0, <1>1, <1>2, <1>3, ReplyGood

LEMMA ServeGood ==
  ASSUME Undisturbed, NEW h \in Handler, Serve(h)
  PROVE  GoodDay'
  BY CompletionGood, FailureGood, SettledGood DEF Serve

LEMMA ScheduleGood ==
  ASSUME Undisturbed, NEW th \in Thread, Schedule(th)
  PROVE  GoodDay'
<1>1. ~CycleTimeout(th)
  BY DEF Undisturbed, CycleTimeout
<1> QED BY <1>1, SnapshotsGood, AssignGood, SendGood, RevertGood DEF Schedule

\* A worker is busy with every task in progress, so the sweep finds none.
LEMMA NothingStale ==
  ASSUME Undisturbed
  PROVE  ~Sweep /\ ~LateStart
<1>0. TypeOK /\ GoodDay /\ ~Fault
  BY DEF Undisturbed, CoordinatorInv
<1>a. sweep = {} /\ resetting = {} /\ late = {}
  BY <1>0 DEF GoodDay, NoCalls, callVars
<1>1. ~MarkStaleWorker /\ ~ResetStaleTask /\ ~LateStart
  BY <1>a DEF MarkStaleWorker, ResetStaleTask, LateStart, ServeLateStart
<1>2. ASSUME NEW t \in Task, InProgress(t) PROVE Working(t, tasks[t].worker)
  <2>1. PICK j \in Job : Holding(j) /\ jobs[j].task = t
    BY <1>0, <1>2 DEF GoodDay, Attended
  <2>2. JobFits(j) /\ jobs[j] # NoJob
    BY <1>0, <2>1 DEF GoodDay, JobsFit, Holding
  <2> QED BY <2>1, <2>2 DEF JobFits, Working
<1>3. ~GetStaleTasks
  BY <1>0, <1>2 DEF GetStaleTasks, FaultUnless, InProgress
<1> QED BY <1>1, <1>3 DEF Sweep

LEMMA NextGoodDay ==
  ASSUME Undisturbed, [Next]_vars
  PROVE  GoodDay'
<1>1. ASSUME NEW t \in Task, CreateTask(t) PROVE GoodDay'
  BY <1>1, CreateGood
<1>2. ASSUME NEW w \in Worker, Membership(w) \/ ReceiveTask(w) PROVE GoodDay'
  BY <1>2, MembershipGood, ReceiveGood
<1>3. ASSUME NEW th \in Thread, Schedule(th) PROVE GoodDay'
  BY <1>3, ScheduleGood
<1>4. ASSUME NEW j \in Job, Work(j) PROVE GoodDay'
  BY <1>4, WorkGood
<1>5. ASSUME NEW j \in Job, NEW h \in Handler, SendReport(j, h) PROVE GoodDay'
  BY <1>5, SendReportGood
<1>6. ASSUME NEW h \in Handler, Serve(h) PROVE GoodDay'
  BY <1>6, ServeGood
<1>7. ~Sweep /\ ~LateStart /\ ~RestartCoordinator
  BY NothingStale DEF Undisturbed, RestartCoordinator
<1>8. CASE UNCHANGED vars
  <2>1. UNCHANGED <<tasks, workers, threads, jobs, handlers, failing,
                    completed, acked, callVars, stream>>
    BY <1>8 DEF vars, storeVars, serviceVars, nodeVars
  <2> QED BY <2>1, OutsKept, QueuesKept, QuietStep
<1> QED BY <1>1, <1>2, <1>3, <1>4, <1>5, <1>6, <1>7, <1>8 DEF Next, LateStart

LEMMA InitGoodDay == Init => GoodDay
<1> SUFFICES ASSUME Init PROVE GoodDay
  OBVIOUS
<1>1. /\ tasks = [t \in Task |->
                    [status |-> "absent", worker |-> NoWorker, retries |-> 0]]
      /\ workers = [w \in Worker |-> [status |-> "absent", count |-> 0]]
      /\ failing = [h \in Handler |-> Store!Idle]
      /\ threads = [th \in Thread |-> IdleThread]
      /\ handlers = [h \in Handler |-> IdleHandler]
      /\ jobs = [j \in Job |-> NoJob]
      /\ stream = [w \in Worker |-> NoStream]
      /\ completed = {} /\ acked = {} /\ callVars = NoCalls
  BY DEF Init, Store!Init, Store!Idle, callVars, NoCalls
<1>2. \A th \in Thread : Out(th) = {}
  BY <1>1 DEF Out, IdleThread
<1>3. /\ \A w \in Worker : Queue(w) = {}
      /\ QueuedOnce
  <2>1. Len(<<0>>) = 1 /\ <<0>>[1] = 0 /\ \A t \in Task : t # 0
    BY DEF Task
  <2>2. \A w \in Worker : stream[w] = <<0>>
    BY <1>1 DEF NoStream
  <2>3. \A w \in Worker : Len(stream[w]) = 1 /\ stream[w][1] = 0
    BY <2>1, <2>2
  <2>4. \A w \in Worker, t \in Task : t \notin Queue(w)
    BY <2>1, <2>3 DEF Queue
  <2>5. \A w \in Worker : Queue(w) \subseteq Task
    BY DEF Queue
  <2>6. QueuedOnce
    BY <2>3 DEF QueuedOnce
  <2> QED BY <2>4, <2>5, <2>6
<1>4. \A j \in Job : jobs[j] = NoJob /\ ~Holding(j)
  BY <1>1 DEF Holding
<1>5. \A t \in Task : tasks[t].status = "absent"
  BY <1>1
<1>6. OneHand /\ RowsFit
  BY <1>2, <1>3, <1>4 DEF OneHand, RowsFit
<1>7. JobsFit /\ Attended
  BY <1>4, <1>5 DEF JobsFit, Attended, InProgress
<1>8. ReportsFit /\ SentIsServed /\ FailingFits
  BY <1>1, <1>4 DEF ReportsFit, SentIsServed, FailingFits, IdleHandler
<1>9. Counted
  <2>1. \A w \in Worker : SlotsOf(w) = {}
    BY <1>5 DEF SlotsOf, Store!Held
  <2>2. Cardinality({}) = 0
    BY FS_EmptySet
  <2>3. \A w \in Worker : workers[w].count = 0
    BY <1>1
  <2>4. \A w \in Worker : Cardinality(SlotsOf(w)) = 0
    BY <2>1, <2>2
  <2> QED BY <2>3, <2>4 DEF Counted
<1> QED BY <1>1, <1>3, <1>6, <1>7, <1>8, <1>9 DEF GoodDay, Recorded

\* Until the first fault every day is a good day.
LEMMA GoodInvariant == Spec => [](faults = 0 => GoodDay)
<1>1. Init => GoodInv
  BY InitGoodDay DEF GoodInv
<1>2. CoordinatorInv /\ CoordinatorInv' /\ GoodInv /\ [Next]_vars => GoodInv'
  <2> SUFFICES ASSUME CoordinatorInv, CoordinatorInv', GoodInv, [Next]_vars,
                      faults' = 0
               PROVE  GoodDay'
    BY DEF GoodInv
  <2>1. faults \in Nat
    BY DEF CoordinatorInv, TypeOK
  <2>2. ~Fault
    BY <2>1 DEF Fault
  <2>3. UNCHANGED faults
    BY <2>2, StepFaults
  <2>4. Undisturbed
    BY <2>2, <2>3 DEF Undisturbed, GoodInv
  <2> QED BY <2>4, NextGoodDay
<1>3. Spec => []GoodInv
  BY <1>1, <1>2, CoordinatorInvariant, PTL DEF Spec
<1> QED BY <1>3, PTL DEF GoodInv

\* Two scheduler goroutines, each with a stale snapshot of the pending tasks,
\* never give one task to two workers, and whoever computes it is its holder,
\* however many goroutines, workers and retries there are, until a fault.
THEOREM ExclusiveExecutionUntilAFault == Spec => [](faults = 0 => ExclusiveExecution)
<1>1. CoordinatorInv /\ GoodDay => ExclusiveExecution
  <2> SUFFICES ASSUME CoordinatorInv, GoodDay, NEW j \in Job, Computing(j)
               PROVE  /\ \A i \in Job \ {j} : Computing(i) => jobs[i].task # jobs[j].task
                      /\ tasks[jobs[j].task].worker = jobs[j].worker
    BY DEF ExclusiveExecution
  <2>1. ASSUME NEW i \in Job, Computing(i) PROVE Holding(i)
    <3>1. jobs[i] # NoJob
      BY <2>1 DEF Computing, NoJob
    <3>2. ASSUME NEW h \in Handler, Serving(h, i), handlers[h].pc = "decrement"
          PROVE  FALSE
      BY <2>1, <3>2 DEF GoodDay, ReportsFit, ReportFits, Serving, Computing
    <3> QED BY <3>1, <3>2 DEF Holding, Releasing
  <2>2. Holding(j) /\ jobs[j] # NoJob
    BY <2>1 DEF Holding
  <2>3. tasks[jobs[j].task].worker = jobs[j].worker
    BY <2>2 DEF GoodDay, JobsFit, JobFits
  <2>4. \A i \in Job \ {j} : Computing(i) => jobs[i].task # jobs[j].task
    BY <2>1, <2>2 DEF GoodDay, OneHand
  <2> QED BY <2>3, <2>4
<1> QED BY <1>1, GoodInvariant, CoordinatorInvariant, PTL

\* complete_task is never refused by the CHECK on current_task_count: the
\* count of a worker is at least the number of rows it holds, although an
\* unassigned row leaves its count behind, until a fault.
THEOREM CompletionNeverRefusedUntilAFault ==
  Spec => [](faults = 0 => CompletionNeverRefused)
<1>1. CoordinatorInv /\ GoodDay => CompletionNeverRefused
  <2> SUFFICES ASSUME CoordinatorInv, GoodDay, NEW t \in Task, InProgress(t)
               PROVE  workers[tasks[t].worker].count > 0
    BY DEF CompletionNeverRefused
  <2>1. TypeOK /\ Store!Held(t)
    BY DEF CoordinatorInv, InProgress, Store!Held
  <2>2. PICK j \in Job : Holding(j) /\ jobs[j].task = t
    BY DEF GoodDay, Attended
  <2>3. jobs[j] # NoJob /\ JobFits(j)
    BY <2>2 DEF GoodDay, JobsFit, Holding
  <2>4. tasks[t].worker \in Worker
    BY <2>1, <2>2, <2>3, JobShape DEF JobFits
  <2> QED BY <2>1, <2>4, SlotTaken DEF GoodDay
<1> QED BY <1>1, GoodInvariant, CoordinatorInvariant, PTL

\* A worker that is told its proof is recorded finds it recorded ever after,
\* until a fault.
THEOREM AckedIsRecordedUntilAFault == Spec => [](faults = 0 => AckedIsRecorded)
<1>1. GoodDay => AckedIsRecorded
  BY DEF GoodDay, Recorded, AckedIsRecorded
<1> QED BY <1>1, GoodInvariant, PTL
-----------------------------------------------------------------------------
(* The registry's capacity, until the first fault *)

\* A goroutine that has assigned a task and not counted it yet.
Taking(th) == IF threads[th].pc = "increment" THEN {CurrentTask(th)} ELSE {}

\* What may account for a slot taken in w's registry entry: a task the worker
\* holds and that was counted, a failed send or a served report about to give
\* the slot back.
Given(w) == {t \in SlotsOf(w) : \A th \in Thread : t \notin Taking(th)}

Reverting(w) ==
  {th \in Thread : threads[th].pc = "release" /\ CurrentWorker(th) = w}

Settling(w) ==
  {h \in Handler : handlers[h].pc \in {"mark", "decrement"} /\ handlers[h].worker = w}

Claims(w) == ({"task"} \X Given(w)) \cup ({"thread"} \X Reverting(w))
               \cup ({"handler"} \X Settling(w))

\* Every slot taken is accounted for.
RegistryFits == \A w \in Worker : reg[w].current <= Cardinality(Claims(w))

LEMMA UnionBound ==
  ASSUME NEW S, NEW T, IsFiniteSet(S), IsFiniteSet(T)
  PROVE  /\ IsFiniteSet(S \cup T) /\ Cardinality(S \cup T) \in Nat
         /\ Cardinality(S \cup T) <= Cardinality(S) + Cardinality(T)
<1>1. /\ IsFiniteSet(S \cup T)
      /\ Cardinality(S \cup T) = Cardinality(S) + Cardinality(T) - Cardinality(S \cap T)
  BY FS_Union
<1>2. IsFiniteSet(S \cap T)
  BY FS_Subset
<1> QED BY <1>1, <1>2, FS_CardinalityType

\* About any tasks, goroutines and handlers, so before and after a step alike.
LEMMA ClaimsCount ==
  ASSUME NEW S \in SUBSET Task, NEW R \in SUBSET Thread, NEW H \in SUBSET Handler
  PROVE  LET all == ({"task"} \X S) \cup ({"thread"} \X R) \cup ({"handler"} \X H)
         IN  /\ IsFiniteSet(all) /\ Cardinality(all) \in Nat
             /\ Cardinality(all) <= Cardinality(S) + Cardinality(R) + Cardinality(H)
<1>1. ASSUME NEW c, NEW U, IsFiniteSet(U)
      PROVE  /\ IsFiniteSet({c} \X U) /\ Cardinality({c} \X U) = Cardinality(U)
             /\ Cardinality(U) \in Nat
  <2>1. IsFiniteSet({c}) /\ Cardinality({c}) = 1
    BY FS_Singleton
  <2>2. /\ IsFiniteSet({c} \X U)
        /\ Cardinality({c} \X U) = Cardinality({c}) * Cardinality(U)
    BY <1>1, <2>1, FS_Product
  <2>3. Cardinality(U) \in Nat
    BY <1>1, FS_CardinalityType
  <2> QED BY <2>1, <2>2, <2>3
<1>2. IsFiniteSet(S) /\ IsFiniteSet(R) /\ IsFiniteSet(H)
  <2>1. Tasks \in Int /\ 1 \in Int
    OBVIOUS
  <2>2. IsFiniteSet(Task)
    BY <2>1, FS_Interval DEF Task
  <2> QED BY <2>2, FS_Subset
<1> DEFINE A == {"task"} \X S
           B == {"thread"} \X R
           C == {"handler"} \X H
<1>3. /\ IsFiniteSet(A) /\ Cardinality(A) = Cardinality(S)
      /\ IsFiniteSet(B) /\ Cardinality(B) = Cardinality(R)
      /\ IsFiniteSet(C) /\ Cardinality(C) = Cardinality(H)
      /\ {Cardinality(A), Cardinality(B), Cardinality(C)} \subseteq Nat
  BY <1>1, <1>2
<1> HIDE DEF A, B, C
<1>4. /\ IsFiniteSet(A \cup B) /\ Cardinality(A \cup B) \in Nat
      /\ Cardinality(A \cup B) <= Cardinality(A) + Cardinality(B)
  BY <1>3, UnionBound
<1>5. /\ IsFiniteSet((A \cup B) \cup C) /\ Cardinality((A \cup B) \cup C) \in Nat
      /\ Cardinality((A \cup B) \cup C) <= Cardinality(A \cup B) + Cardinality(C)
  BY <1>3, <1>4, UnionBound
<1> QED BY <1>3, <1>4, <1>5 DEF A, B, C

LEMMA ClaimsFinite ==
  ASSUME NEW w
  PROVE  /\ IsFiniteSet(Claims(w)) /\ IsFiniteSet(Claims(w)')
         /\ Cardinality(Claims(w)) \in Nat /\ Cardinality(Claims(w)') \in Nat
<1>1. /\ Given(w) \in SUBSET Task /\ Given(w)' \in SUBSET Task
      /\ Reverting(w) \in SUBSET Thread /\ Reverting(w)' \in SUBSET Thread
      /\ Settling(w) \in SUBSET Handler /\ Settling(w)' \in SUBSET Handler
  BY DEF Given, SlotsOf, Reverting, Settling
<1> QED BY <1>1, ClaimsCount DEF Claims

LEMMA ClaimsBound ==
  ASSUME NEW w
  PROVE  /\ Cardinality(Claims(w)) <= Cardinality(SlotsOf(w)) + Cardinality(Reverting(w))
                                        + Cardinality(Settling(w))
         /\ {Cardinality(Claims(w)), Cardinality(SlotsOf(w)),
             Cardinality(Reverting(w)), Cardinality(Settling(w))} \subseteq Nat
<1>1. /\ Given(w) \in SUBSET Task /\ Reverting(w) \in SUBSET Thread
      /\ Settling(w) \in SUBSET Handler
  BY DEF Given, SlotsOf, Reverting, Settling
<1>2. Cardinality(Claims(w)) <= Cardinality(Given(w)) + Cardinality(Reverting(w))
                                  + Cardinality(Settling(w))
  BY <1>1, ClaimsCount DEF Claims
<1>3. Cardinality(Given(w)) \in Nat /\ Cardinality(Given(w)) <= Cardinality(SlotsOf(w))
  <2>1. Given(w) \subseteq SlotsOf(w)
    BY DEF Given
  <2> QED BY <2>1, SlotsFinite, FS_Subset, FS_CardinalityType
<1>4. Cardinality(Reverting(w)) \in Nat /\ Cardinality(Settling(w)) \in Nat
  BY <1>1, FS_Subset, FS_CardinalityType
<1> QED BY <1>2, <1>3, <1>4, SlotsFinite, ClaimsFinite

\* A finite set that loses x and gains y counts no less, and so on.
LEMMA CountMoves ==
  ASSUME NEW S, NEW T, IsFiniteSet(S), IsFiniteSet(T), NEW c \in Nat,
         c <= Cardinality(S)
  PROVE  /\ S \subseteq T => c <= Cardinality(T)
         /\ \A x : S \ {x} \subseteq T => c - 1 <= Cardinality(T)
         /\ \A y : y \notin S /\ S \cup {y} \subseteq T => c + 1 <= Cardinality(T)
         /\ \A x, y : y \notin S /\ (S \ {x}) \cup {y} \subseteq T
                        => c <= Cardinality(T)
<1>1. Cardinality(S) \in Nat /\ Cardinality(T) \in Nat
  BY FS_CardinalityType
<1>2. \A U : U \subseteq T => Cardinality(U) <= Cardinality(T)
  BY FS_Subset
<1>3. ASSUME NEW x
      PROVE  /\ IsFiniteSet(S \ {x}) /\ Cardinality(S \ {x}) >= Cardinality(S) - 1
             /\ Cardinality(S \ {x}) \in Nat
  BY <1>1, FS_RemoveElement, FS_CardinalityType
<1>4. ASSUME NEW y, y \notin S
      PROVE  Cardinality(S \cup {y}) = Cardinality(S) + 1
  BY <1>4, FS_AddElement
<1>5. ASSUME NEW x, NEW y, y \notin S
      PROVE  Cardinality((S \ {x}) \cup {y}) >= Cardinality(S)
  <2>0. IsFiniteSet(S \ {x}) /\ y \notin S \ {x}
    BY <1>3, <1>5
  <2>1. Cardinality((S \ {x}) \cup {y}) = Cardinality(S \ {x}) + 1
    BY <2>0, FS_AddElement
  <2>2. Cardinality(S \ {x}) >= Cardinality(S) - 1 /\ Cardinality(S \ {x}) \in Nat
    BY <1>3
  <2> HIDE <1>3
  <2> QED BY <1>1, <2>1, <2>2
<1>6. S \subseteq T => c <= Cardinality(T)
  BY <1>1, <1>2
<1>7. ASSUME NEW x, S \ {x} \subseteq T PROVE c - 1 <= Cardinality(T)
  <2>1. Cardinality(S \ {x}) <= Cardinality(T)
    BY <1>2, <1>7
  <2> QED BY <1>1, <1>3, <2>1
<1>8. ASSUME NEW y, y \notin S, S \cup {y} \subseteq T PROVE c + 1 <= Cardinality(T)
  <2>1. Cardinality(S \cup {y}) <= Cardinality(T)
    BY <1>2, <1>8
  <2> QED BY <1>1, <1>4, <1>8, <2>1
<1>9. ASSUME NEW x, NEW y, y \notin S, (S \ {x}) \cup {y} \subseteq T
      PROVE  c <= Cardinality(T)
  <2>1. Cardinality((S \ {x}) \cup {y}) <= Cardinality(T)
    BY <1>2, <1>9
  <2>2. Cardinality((S \ {x}) \cup {y}) \in Nat
    BY <1>3, FS_AddElement, FS_CardinalityType
  <2> QED BY <1>1, <1>5, <1>9, <2>1, <2>2
<1> QED BY <1>6, <1>7, <1>8, <1>9

\* Steps that take no slot and let go of no claim.
LEMMA FitsKept ==
  ASSUME TypeOK, RegistryFits, NEW w \in Worker, reg'[w].current <= reg[w].current,
         reg'[w].current \in Nat,
         Given(w) \subseteq Given(w)', Reverting(w) \subseteq Reverting(w)',
         Settling(w) \subseteq Settling(w)'
  PROVE  reg'[w].current <= Cardinality(Claims(w)')
<1>1. Claims(w) \subseteq Claims(w)'
  BY DEF Claims
<1>2. reg[w].current \in Nat /\ reg[w].current <= Cardinality(Claims(w))
  BY DEF RegistryFits, TypeOK, Registry!RegistryTypeOK
<1>3. /\ IsFiniteSet(Claims(w)) /\ IsFiniteSet(Claims(w)')
      /\ Cardinality(Claims(w)') \in Nat
  BY ClaimsFinite
<1>4. reg[w].current <= Cardinality(Claims(w)')
  BY <1>1, <1>2, <1>3, CountMoves
<1> QED BY <1>2, <1>3, <1>4

\* No method of the registry but IncrementTaskCount takes a slot.
LEMMA CountsFall ==
  ASSUME TypeOK, NEW w \in Worker, NEW v \in Worker,
         \/ Registry!RegisterWorker(w) \/ Registry!UpdateHeartbeat(w)
         \/ Registry!DecrementTaskCount(w) \/ Registry!SuspectLateWorker(w)
         \/ Registry!RemoveDeadWorker(w) \/ UNCHANGED reg
  PROVE  reg'[v].current <= reg[v].current /\ reg'[v].current \in Nat
<1>1. /\ reg \in [Worker -> [status : {"unknown", "active", "suspect"},
                             current : 0..Capacity]]
      /\ reg[v].current \in Nat
  BY DEF TypeOK, Registry!RegistryTypeOK
<1>2. CASE \/ Registry!RegisterWorker(w) \/ Registry!UpdateHeartbeat(w)
           \/ Registry!SuspectLateWorker(w)
  <2>1. \E s : reg' = [reg EXCEPT ![w].status = s]
    BY <1>2 DEF Registry!RegisterWorker, Registry!UpdateHeartbeat,
         Registry!SuspectLateWorker
  <2>2. reg'[v].current = reg[v].current
    BY <1>1, <2>1
  <2> QED BY <1>1, <2>2
<1>3. CASE Registry!DecrementTaskCount(w)
  BY <1>1, <1>3 DEF Registry!DecrementTaskCount
<1>4. CASE Registry!RemoveDeadWorker(w)
  BY <1>1, <1>4 DEF Registry!RemoveDeadWorker, Registry!Unknown
<1> QED BY <1>1, <1>2, <1>3, <1>4

\* Steps of worker and client: whoever holds a task holds it still.
LEMMA HoldersKept ==
  ASSUME TypeOK, TypeOK', RegistryFits, UNCHANGED threads,
         \A v \in Worker : SlotsOf(v) \subseteq SlotsOf(v)',
         \A v \in Worker : Settling(v) \subseteq Settling(v)',
         \A v \in Worker : reg'[v].current <= reg[v].current
  PROVE  RegistryFits'
<1>1. \A v \in Worker : Given(v) \subseteq Given(v)' /\ Reverting(v) \subseteq Reverting(v)'
  BY DEF Given, Taking, CurrentTask, Reverting, CurrentWorker
<1>2. \A v \in Worker : reg'[v].current \in Nat
  BY DEF TypeOK, Registry!RegistryTypeOK
<1> QED BY <1>1, <1>2, FitsKept DEF RegistryFits

LEMMA MembershipFits ==
  ASSUME Undisturbed, RegistryFits, NEW w \in Worker, Membership(w) \/ ReceiveTask(w)
  PROVE  RegistryFits'
<1>0. TypeOK /\ TypeOK' /\ ~Fault
  BY DEF Undisturbed, CoordinatorInv
<1>1. UNCHANGED <<tasks, threads, handlers>>
  BY DEF Membership, StartWorker, OpenStream, DropStream, CrashWorker, Heartbeat,
         SuspectLateWorker, RemoveDeadWorker, ReceiveTask, RegisterWorker, serviceVars,
         storeVars, Store!CreateWorker, Store!MarkWorkerDead
<1>2. \/ Registry!RegisterWorker(w) \/ Registry!UpdateHeartbeat(w)
      \/ Registry!SuspectLateWorker(w) \/ Registry!RemoveDeadWorker(w)
      \/ UNCHANGED reg
  BY DEF Membership, StartWorker, OpenStream, DropStream, CrashWorker, Heartbeat,
         SuspectLateWorker, RemoveDeadWorker, ReceiveTask, RegisterWorker
<1>3. \A v \in Worker : reg'[v].current <= reg[v].current
  BY <1>0, <1>2, CountsFall
<1>4. \A v \in Worker : SlotsOf(v)' = SlotsOf(v) /\ Settling(v)' = Settling(v)
  BY <1>1 DEF SlotsOf, Store!Held, Settling
<1> QED BY <1>0, <1>1, <1>3, <1>4, HoldersKept

LEMMA WorkFits ==
  ASSUME Undisturbed, RegistryFits,
         \/ \E t \in Task : CreateTask(t)
         \/ \E j \in Job : Work(j)
         \/ \E j \in Job, h \in Handler : SendReport(j, h)
  PROVE  RegistryFits'
<1>0. TypeOK /\ TypeOK'
  BY DEF Undisturbed, CoordinatorInv
<1>1. UNCHANGED <<threads, reg>>
  BY DEF CreateTask, Work, ServeStart, LoseStart, SubmitTask, RejectInput,
         ProcessTask, GiveUp, SendReport
<1>2. \A v \in Worker : reg'[v].current <= reg[v].current
  BY <1>0, <1>1, CountsFall
<1>3. \A v \in Worker : SlotsOf(v) \subseteq SlotsOf(v)'
  <2>1. CASE UNCHANGED tasks
    BY <2>1 DEF SlotsOf, Store!Held
  <2>2. ASSUME NEW t \in Task, CreateTask(t)
        PROVE  \A v \in Worker : SlotsOf(v) \subseteq SlotsOf(v)'
    <3>1. tasks[t].status = "absent" /\ \A u \in Task \ {t} : tasks'[u] = tasks[u]
      BY <1>0, <2>2, Shapes DEF CreateTask, Store!CreateTask
    <3> QED BY <3>1 DEF SlotsOf, Store!Held
  <2>3. ASSUME NEW j \in Job, ServeStart(j), ~UNCHANGED tasks
        PROVE  \A v \in Worker : SlotsOf(v) \subseteq SlotsOf(v)'
    <3>1. PICK t \in Task, w \in Worker : Store!StartTask(t, w)
      BY <1>0, <2>3, JobShape DEF ServeStart, storeVars
    <3>2. tasks' = [tasks EXCEPT ![t].status = "in_progress"]
      BY <3>1 DEF Store!StartTask
    <3>3. /\ tasks'[t].status = "in_progress" /\ tasks'[t].worker = tasks[t].worker
          /\ \A u \in Task \ {t} : tasks'[u] = tasks[u]
      BY <1>0, <3>2, Shapes
    <3> QED BY <3>3 DEF SlotsOf, Store!Held
  <2>4. ASSUME NEW j \in Job, Work(j), ~ServeStart(j) PROVE UNCHANGED tasks
    BY <2>4 DEF Work, LoseStart, SubmitTask, RejectInput, ProcessTask, GiveUp, storeVars
  <2>5. ASSUME NEW j \in Job, NEW h \in Handler, SendReport(j, h) PROVE UNCHANGED tasks
    BY <2>5 DEF SendReport, storeVars
  <2> QED BY <2>1, <2>2, <2>3, <2>4, <2>5
<1>4. \A v \in Worker : Settling(v) \subseteq Settling(v)'
  <2>1. CASE UNCHANGED handlers
    BY <2>1 DEF Settling
  <2>2. ASSUME NEW j \in Job, NEW h \in Handler, SendReport(j, h)
        PROVE  \A v \in Worker : Settling(v) \subseteq Settling(v)'
    <3>1. handlers[h].pc = "idle" /\ \A g \in Handler \ {h} : handlers'[g] = handlers[g]
      BY <1>0, <2>2, Shapes DEF SendReport, IdleHandler
    <3> QED BY <3>1 DEF Settling
  <2>3. ASSUME NEW t \in Task, CreateTask(t) PROVE UNCHANGED handlers
    BY <2>3 DEF CreateTask, serviceVars
  <2>4. ASSUME NEW j \in Job, Work(j) PROVE UNCHANGED handlers
    BY <2>4 DEF Work, ServeStart, LoseStart, SubmitTask, RejectInput, ProcessTask,
         GiveUp, serviceVars
  <2> QED BY <2>1, <2>2, <2>3, <2>4
<1> QED BY <1>0, <1>1, <1>2, <1>3, <1>4, HoldersKept

\* A claim is handed on, or given back with the slot it accounts for.
LEMMA FitsMoved ==
  ASSUME TypeOK, RegistryFits, NEW w \in Worker, NEW x, NEW y, y \notin Claims(w),
         (Claims(w) \ {x}) \cup {y} \subseteq Claims(w)', UNCHANGED reg
  PROVE  reg'[w].current <= Cardinality(Claims(w)')
<1>1. reg[w].current \in Nat /\ reg[w].current <= Cardinality(Claims(w))
  BY DEF RegistryFits, TypeOK, Registry!RegistryTypeOK
<1>2. IsFiniteSet(Claims(w)) /\ IsFiniteSet(Claims(w)')
  BY ClaimsFinite
<1> QED BY <1>1, <1>2, CountMoves

LEMMA FitsReturned ==
  ASSUME TypeOK, RegistryFits, NEW w \in Worker, NEW x,
         Claims(w) \ {x} \subseteq Claims(w)', Registry!DecrementTaskCount(w)
  PROVE  reg'[w].current <= Cardinality(Claims(w)')
<1>1. /\ reg \in [Worker -> [status : {"unknown", "active", "suspect"},
                             current : 0..Capacity]]
      /\ reg[w].current \in Nat /\ reg[w].current <= Cardinality(Claims(w))
  BY DEF RegistryFits, TypeOK, Registry!RegistryTypeOK
<1>2. /\ IsFiniteSet(Claims(w)) /\ IsFiniteSet(Claims(w)')
      /\ Cardinality(Claims(w)') \in Nat
  BY ClaimsFinite
<1>3. reg[w].current - 1 <= Cardinality(Claims(w)')
  BY <1>1, <1>2, CountMoves
<1>4. reg'[w].current = IF reg[w].current > 0 THEN reg[w].current - 1
                                              ELSE reg[w].current
  BY <1>1 DEF Registry!DecrementTaskCount
<1> QED BY <1>1, <1>2, <1>3, <1>4

\* What a step of one goroutine leaves alone.
LEMMA Goroutine ==
  ASSUME TypeOK, NEW th \in Thread, NEW x, threads' = [threads EXCEPT ![th] = x]
  PROVE  /\ threads'[th] = x
         /\ \A ti \in Thread \ {th} : Taking(ti)' = Taking(ti)
         /\ \A w \in Worker : Reverting(w) \ {th} \subseteq Reverting(w)'
<1>1. threads'[th] = x /\ \A ti \in Thread \ {th} : threads'[ti] = threads[ti]
  BY DEF TypeOK
<1> QED BY <1>1 DEF Taking, CurrentTask, Reverting, CurrentWorker

\* Where it may go: on to the next task, or to another point.
LEMMA GoroutineNext ==
  ASSUME TypeOK, NEW th \in Thread, NextTask(th)
  PROVE  /\ Taking(th)' = {}
         /\ \A ti \in Thread \ {th} : Taking(ti)' = Taking(ti)
         /\ \A w \in Worker : Reverting(w) \ {th} \subseteq Reverting(w)'
<1> DEFINE b == threads[th].batch
           a == threads[th].avail
           x == IF Len(b) = 1 THEN IdleThread
                ELSE [pc |-> "assign", batch |-> Tail(b),
                      avail |-> Append(Tail(a), Head(a))]
<1>1. threads' = [threads EXCEPT ![th] = x]
  BY DEF NextTask
<1>2. x.pc \in {"idle", "assign"}
  BY DEF IdleThread
<1> HIDE DEF x
<1>3. threads'[th] = x
  BY <1>1, Goroutine
<1>4. Taking(th)' = {}
  BY <1>2, <1>3 DEF Taking
<1> QED BY <1>1, <1>4, Goroutine

LEMMA GoroutineGoes ==
  ASSUME TypeOK, NEW th \in Thread, threads[th] \in Thrd, NEW pc, GoTo(th, pc)
  PROVE  /\ threads'[th].pc = pc
         /\ CurrentTask(th)' = CurrentTask(th) /\ CurrentWorker(th)' = CurrentWorker(th)
         /\ \A ti \in Thread \ {th} : Taking(ti)' = Taking(ti)
         /\ \A w \in Worker : Reverting(w) \ {th} \subseteq Reverting(w)'
<1> DEFINE x == [threads[th] EXCEPT !.pc = pc]
<1>1. threads' = [threads EXCEPT ![th] = x]
  BY DEF GoTo
<1>2. x.pc = pc /\ x.batch = threads[th].batch /\ x.avail = threads[th].avail
  BY DEF Thrd
<1> HIDE DEF x
<1>3. threads'[th] = x
  BY <1>1, Goroutine
<1>4. /\ threads'[th].pc = pc
      /\ CurrentTask(th)' = CurrentTask(th) /\ CurrentWorker(th)' = CurrentWorker(th)
  BY <1>2, <1>3 DEF CurrentTask, CurrentWorker
<1> QED BY <1>1, <1>4, Goroutine

\* A step of a goroutine that takes no slot and holds no claim.
LEMMA GoroutineFits ==
  ASSUME TypeOK, TypeOK', RegistryFits, UNCHANGED <<reg, handlers>>,
         NEW th \in Thread, threads[th].pc # "release",
         \A v \in Worker : SlotsOf(v) \subseteq SlotsOf(v)',
         \A v \in Worker : \A t \in SlotsOf(v) : t \notin Taking(th)',
         \A ti \in Thread \ {th} : Taking(ti)' = Taking(ti),
         \A w \in Worker : Reverting(w) \ {th} \subseteq Reverting(w)'
  PROVE  RegistryFits'
<1>1. ASSUME NEW w \in Worker
      PROVE  /\ Given(w) \subseteq Given(w)' /\ Settling(w) \subseteq Settling(w)'
             /\ Reverting(w) \subseteq Reverting(w)'
  <2>1. Given(w) \subseteq Given(w)'
    <3>1. ASSUME NEW t \in Given(w), NEW ti \in Thread PROVE t \notin Taking(ti)'
      BY DEF Given
    <3>2. \A t \in Given(w) : t \in SlotsOf(w)'
      BY DEF Given
    <3> QED BY <3>1, <3>2 DEF Given
  <2>2. Reverting(w) \subseteq Reverting(w)'
    BY DEF Reverting
  <2>3. Settling(w) \subseteq Settling(w)'
    BY DEF Settling
  <2> QED BY <2>1, <2>2, <2>3
<1>2. \A w \in Worker : reg'[w].current \in Nat /\ reg'[w].current <= reg[w].current
  BY DEF TypeOK, Registry!RegistryTypeOK
<1> QED BY <1>1, <1>2, FitsKept DEF RegistryFits

LEMMA AssignFits ==
  ASSUME Undisturbed, RegistryFits, NEW th \in Thread,
         \/ GetPendingTasks(th) \/ GetAvailableWorkers(th) \/ AssignTask(th)
         \/ SendTask(th)
  PROVE  RegistryFits'
<1>0. TypeOK /\ TypeOK' /\ CyclesHaveWork /\ ~Fault
  BY DEF Undisturbed, CoordinatorInv
<1>1. /\ UNCHANGED <<reg, handlers>>
      /\ threads[th].pc # "release"
  BY DEF GetPendingTasks, GetAvailableWorkers, AssignTask, SendTask, serviceVars,
         IdleThread
<1>2. CASE GetPendingTasks(th) \/ GetAvailableWorkers(th)
  <2>1. UNCHANGED tasks
    BY <1>2 DEF GetPendingTasks, GetAvailableWorkers, storeVars
  <2>2. \E x : threads' = [threads EXCEPT ![th] = x] /\ x.pc # "increment"
    <3>1. CASE GetPendingTasks(th)
      <4>1. PICK batch : threads' = [threads EXCEPT ![th] = [pc |-> "fetched", batch |-> batch]]
        BY <3>1 DEF GetPendingTasks
      <4>2. [pc |-> "fetched", batch |-> batch].pc # "increment"
        OBVIOUS
      <4> QED BY <4>1, <4>2
    <3>2. CASE GetAvailableWorkers(th)
      BY <3>2 DEF GetAvailableWorkers, IdleThread
    <3> QED BY <1>2, <3>1, <3>2
  <2>3. Taking(th)' = {}
    BY <1>0, <2>2, Goroutine DEF Taking
  <2>4. \A v \in Worker : SlotsOf(v) \subseteq SlotsOf(v)'
    BY <2>1 DEF SlotsOf, Store!Held
  <2> QED BY <1>0, <1>1, <2>2, <2>3, <2>4, Goroutine, GoroutineFits
<1>3. CASE NextTask(th) /\ UNCHANGED storeVars
  <2>1. \A v \in Worker : SlotsOf(v) \subseteq SlotsOf(v)'
    BY <1>3 DEF SlotsOf, Store!Held, storeVars
  <2> QED BY <1>0, <1>1, <1>3, <2>1, GoroutineNext, GoroutineFits
<1>4. CASE AssignTask(th) /\ ~(NextTask(th) /\ UNCHANGED storeVars)
  <2>1. PICK t \in Task, w \in Worker : t = CurrentTask(th) /\ w = CurrentWorker(th)
    BY <1>0, <1>4, InCycle DEF AssignTask
  <2>2. /\ threads[th] \in Thrd
        /\ Store!AssignTask(t, w) /\ GoTo(th, "increment")
    BY <1>0, <1>4, <2>1, InCycle DEF AssignTask
  <2>3. /\ tasks[t].status = "pending"
        /\ tasks' = [tasks EXCEPT ![t].status = "assigned", ![t].worker = w]
    BY <2>2 DEF Store!AssignTask, Store!CanAssign
  <2>4. \A u \in Task \ {t} : tasks'[u] = tasks[u]
    BY <1>0, <2>3, Shapes
  <2>5. \A v \in Worker : t \notin SlotsOf(v) /\ SlotsOf(v) \subseteq SlotsOf(v)'
    BY <2>3, <2>4 DEF SlotsOf, Store!Held
  <2>6. Taking(th)' \subseteq {t}
    BY <1>0, <2>1, <2>2, GoroutineGoes DEF Taking
  <2> QED BY <1>0, <1>1, <2>2, <2>5, <2>6, GoroutineGoes, GoroutineFits
<1>5. CASE SendTask(th) /\ ~(NextTask(th) /\ UNCHANGED storeVars)
  <2>1. threads[th] \in Thrd /\ GoTo(th, "revert") /\ UNCHANGED tasks
    BY <1>0, <1>5, InCycle DEF SendTask, storeVars
  <2>2. Taking(th)' = {}
    BY <1>0, <2>1, GoroutineGoes DEF Taking
  <2>3. \A v \in Worker : SlotsOf(v) \subseteq SlotsOf(v)'
    BY <2>1 DEF SlotsOf, Store!Held
  <2> QED BY <1>0, <1>1, <2>1, <2>2, <2>3, GoroutineGoes, GoroutineFits
<1> QED BY <1>2, <1>3, <1>4, <1>5

LEMMA IncrementFits ==
  ASSUME Undisturbed, RegistryFits, NEW th \in Thread, IncrementTaskCount(th)
  PROVE  RegistryFits'
<1>t. PICK t \in Task, w \in Worker : t = CurrentTask(th) /\ w = CurrentWorker(th)
  BY InCycle DEF Undisturbed, CoordinatorInv, IncrementTaskCount
<1>0. /\ TypeOK /\ TypeOK' /\ OneHand
      /\ threads[th].pc = "increment" /\ threads[th] \in Thrd
      /\ GoTo(th, "send") /\ Registry!IncrementTaskCount(w)
      /\ UNCHANGED <<tasks, handlers>>
  BY <1>t, InCycle DEF Undisturbed, CoordinatorInv, GoodDay, IncrementTaskCount,
       storeVars, serviceVars
<1>1. Taking(th) = {t} /\ t \in SlotsOf(w)
  <2>1. Taking(th) = {t} /\ t \in Out(th)
    BY <1>t, <1>0 DEF Taking, Out
  <2>2. AssignedTo(t, w)
    BY <1>t, <2>1 DEF Undisturbed, GoodDay, RowsFit
  <2> QED BY <2>1, <2>2 DEF AssignedTo, SlotsOf, Store!Held
<1>2. /\ Taking(th)' = {}
      /\ \A ti \in Thread \ {th} : Taking(ti)' = Taking(ti) /\ t \notin Taking(ti)
  <2>1. \A ti \in Thread \ {th} : t \notin Out(ti)
    BY <1>t, <1>0 DEF OneHand, Out
  <2>2. Taking(th)' = {} /\ \A ti \in Thread \ {th} : Taking(ti)' = Taking(ti)
    BY <1>0, GoroutineGoes DEF Taking
  <2> QED BY <2>1, <2>2 DEF Out, Taking
<1>3. /\ \A v \in Worker : Given(v) \subseteq Given(v)'
      /\ t \in Given(w)' /\ t \notin Given(w)
  <2>1. \A v \in Worker : SlotsOf(v)' = SlotsOf(v)
    BY <1>0 DEF SlotsOf, Store!Held
  <2> QED BY <1>1, <1>2, <2>1 DEF Given
<1>4. \A v \in Worker : Reverting(v) \subseteq Reverting(v)' /\ Settling(v)' = Settling(v)
  <2>1. \A v \in Worker : Reverting(v) \ {th} \subseteq Reverting(v)'
    BY <1>0, GoroutineGoes
  <2> QED BY <1>0, <2>1 DEF Reverting, Settling
<1>5. ASSUME NEW v \in Worker, reg'[v].current <= reg[v].current
      PROVE  reg'[v].current <= Cardinality(Claims(v)')
  <2>1. reg'[v].current \in Nat
    BY <1>0 DEF TypeOK, Registry!RegistryTypeOK
  <2> QED BY <1>0, <1>3, <1>4, <1>5, <2>1, FitsKept
<1>6. /\ \A v \in Worker \ {w} : reg'[v].current <= reg[v].current
      /\ reg'[w].current <= reg[w].current + 1
  <2>1. reg \in [Worker -> [status : {"unknown", "active", "suspect"},
                            current : 0..Capacity]]
    BY <1>0 DEF TypeOK, Registry!RegistryTypeOK
  <2> QED BY <1>0, <2>1 DEF Registry!IncrementTaskCount
<1>7. reg'[w].current <= Cardinality(Claims(w)')
  <2>1. <<"task", t>> \notin Claims(w) /\ Claims(w) \cup {<<"task", t>>} \subseteq Claims(w)'
    BY <1>3, <1>4 DEF Claims
  <2>2. /\ reg[w].current \in Nat /\ reg[w].current <= Cardinality(Claims(w))
        /\ reg'[w].current \in Nat
    BY <1>0 DEF RegistryFits, TypeOK, Registry!RegistryTypeOK
  <2>3. /\ IsFiniteSet(Claims(w)) /\ IsFiniteSet(Claims(w)')
        /\ Cardinality(Claims(w)') \in Nat
    BY ClaimsFinite
  <2>4. reg[w].current + 1 <= Cardinality(Claims(w)')
    BY <2>1, <2>2, <2>3, CountMoves
  <2> QED BY <1>6, <2>2, <2>3, <2>4
<1> QED BY <1>5, <1>6, <1>7 DEF RegistryFits

\* A failed send: the task goes, the goroutine stands for its slot.
LEMMA RevertFits ==
  ASSUME Undisturbed, RegistryFits, NEW th \in Thread, RevertAssignment(th)
  PROVE  RegistryFits'
<1>t. PICK t \in Task, w \in Worker : t = CurrentTask(th) /\ w = CurrentWorker(th)
  BY InCycle DEF Undisturbed, CoordinatorInv, RevertAssignment
<1>0. /\ TypeOK /\ TypeOK'
      /\ threads[th].pc = "revert" /\ threads[th] \in Thrd
      /\ GoTo(th, "release") /\ UNCHANGED <<reg, handlers>>
  BY InCycle DEF Undisturbed, CoordinatorInv, RevertAssignment, serviceVars
<1>1. tasks[t].worker = w /\ tasks' = [tasks EXCEPT ![t].status = "pending",
                                                    ![t].worker = NoWorker]
  <2>1. AssignedTo(t, w)
    BY <1>0, <1>t DEF Out, Undisturbed, GoodDay, RowsFit
  <2> QED BY <1>t, <2>1 DEF RevertAssignment, AssignedTo, Store!UnassignTask
<1>2. \A u \in Task \ {t} : tasks'[u] = tasks[u]
  BY <1>0, <1>1, Shapes
<1>3. /\ SlotsOf(w) \ {t} \subseteq SlotsOf(w)'
      /\ \A v \in Worker \ {w} : SlotsOf(v) \subseteq SlotsOf(v)'
  BY <1>1, <1>2 DEF SlotsOf, Store!Held
<1>4. /\ threads'[th].pc = "release" /\ CurrentWorker(th)' = w /\ Taking(th)' = {}
      /\ \A ti \in Thread \ {th} : Taking(ti)' = Taking(ti)
      /\ \A v \in Worker : Reverting(v) \ {th} \subseteq Reverting(v)'
  BY <1>t, <1>0, GoroutineGoes DEF Taking
<1>5. /\ Given(w) \ {t} \subseteq Given(w)'
      /\ \A v \in Worker \ {w} : Given(v) \subseteq Given(v)'
  BY <1>3, <1>4 DEF Given
<1>6. /\ th \in Reverting(w)' /\ \A v \in Worker : th \notin Reverting(v)
      /\ \A v \in Worker : Reverting(v) \subseteq Reverting(v)' /\ Settling(v)' = Settling(v)
  BY <1>0, <1>4 DEF Reverting, Settling
<1>7. reg'[w].current <= Cardinality(Claims(w)')
  <2>1. <<"thread", th>> \notin Claims(w)
    BY <1>6 DEF Claims
  <2>2. (Claims(w) \ {<<"task", t>>}) \cup {<<"thread", th>>} \subseteq Claims(w)'
    BY <1>5, <1>6 DEF Claims
  <2> QED BY <1>0, <2>1, <2>2, FitsMoved
<1>8. ASSUME NEW v \in Worker \ {w} PROVE reg'[v].current <= Cardinality(Claims(v)')
  <2>1. reg'[v].current \in Nat /\ reg'[v].current <= reg[v].current
    BY <1>0 DEF TypeOK, Registry!RegistryTypeOK
  <2> QED BY <1>0, <1>5, <1>6, <2>1, FitsKept
<1> QED BY <1>7, <1>8 DEF RegistryFits

LEMMA ReleaseFits ==
  ASSUME Undisturbed, RegistryFits, NEW th \in Thread, ReleaseWorker(th)
  PROVE  RegistryFits'
<1>t. PICK w \in Worker : w = CurrentWorker(th)
  BY InCycle DEF Undisturbed, CoordinatorInv, ReleaseWorker
<1>0. /\ TypeOK /\ TypeOK' /\ threads[th].pc = "release"
      /\ NextTask(th) /\ Registry!DecrementTaskCount(w)
      /\ UNCHANGED <<tasks, handlers>>
  BY <1>t DEF Undisturbed, CoordinatorInv, ReleaseWorker, storeVars, serviceVars
<1>1. /\ \A ti \in Thread : Taking(ti)' \subseteq Taking(ti)
      /\ \A v \in Worker : Reverting(v) \ {th} \subseteq Reverting(v)'
  BY <1>0, GoroutineNext
<1>2. /\ \A v \in Worker : Given(v) \subseteq Given(v)' /\ Settling(v)' = Settling(v)
      /\ \A v \in Worker \ {w} : Reverting(v) \subseteq Reverting(v)'
  <2>1. \A v \in Worker : SlotsOf(v)' = SlotsOf(v) /\ Settling(v)' = Settling(v)
    BY <1>0 DEF SlotsOf, Store!Held, Settling
  <2>2. \A v \in Worker \ {w} : th \notin Reverting(v)
    BY <1>t DEF Reverting
  <2> QED BY <1>1, <2>1, <2>2 DEF Given
<1>3. Claims(w) \ {<<"thread", th>>} \subseteq Claims(w)'
  BY <1>1, <1>2 DEF Claims
<1>4. reg'[w].current <= Cardinality(Claims(w)')
  BY <1>0, <1>3, FitsReturned
<1>5. ASSUME NEW v \in Worker \ {w} PROVE reg'[v].current <= Cardinality(Claims(v)')
  BY <1>0, <1>2, CountsFall, FitsKept
<1> QED BY <1>4, <1>5 DEF RegistryFits

\* A handler that stops short of the record, or goes on to it.
LEMMA NothingRecorded ==
  ASSUME TypeOK, TypeOK', RegistryFits, NEW h \in Handler,
         handlers[h].pc \notin {"mark", "decrement"},
         \E r : handlers' = [handlers EXCEPT ![h] = r],
         UNCHANGED <<tasks, reg, threads>>
  PROVE  RegistryFits'
<1>1. \A g \in Handler \ {h} : handlers'[g] = handlers[g]
  BY Shapes
<1>2. \A v \in Worker : Settling(v) \subseteq Settling(v)'
  BY <1>1 DEF Settling
<1>3. \A v \in Worker : SlotsOf(v)' = SlotsOf(v)
  BY DEF SlotsOf, Store!Held
<1>4. \A v \in Worker : reg'[v].current <= reg[v].current
  BY DEF TypeOK, Registry!RegistryTypeOK
<1> QED BY <1>2, <1>3, <1>4, HoldersKept

\* The row of a task is settled: its handler stands for the slot until the
\* registry has taken it off.
LEMMA RecordFits ==
  ASSUME Undisturbed, RegistryFits, NEW h \in Handler, NEW t \in Task, NEW w \in Worker,
         handlers[h].pc \in {"complete", "write"}, handlers[h].worker = w,
         tasks[t].worker = w, \A u \in Task \ {t} : tasks'[u] = tasks[u],
         NEW pc \in {"mark", "decrement"},
         handlers' = [handlers EXCEPT ![h].pc = pc], UNCHANGED <<reg, threads>>
  PROVE  RegistryFits'
<1>0. TypeOK /\ TypeOK'
  BY DEF Undisturbed, CoordinatorInv
<1>1. /\ handlers'[h].pc = pc /\ handlers'[h].worker = w
      /\ \A g \in Handler \ {h} : handlers'[g] = handlers[g]
  <2>1. handlers[h] \in Report
    BY <1>0, ReportShape
  <2>2. [handlers[h] EXCEPT !.pc = pc].pc = pc /\ [handlers[h] EXCEPT !.pc = pc].worker = w
    BY <2>1 DEF Report
  <2> QED BY <1>0, <2>2, Shapes
<1>2. /\ SlotsOf(w) \ {t} \subseteq SlotsOf(w)'
      /\ \A v \in Worker \ {w} : SlotsOf(v) \subseteq SlotsOf(v)'
  BY DEF SlotsOf, Store!Held
<1>3. /\ Given(w) \ {t} \subseteq Given(w)'
      /\ \A v \in Worker \ {w} : Given(v) \subseteq Given(v)'
      /\ \A v \in Worker : Reverting(v) \subseteq Reverting(v)'
  BY <1>2 DEF Given, Taking, CurrentTask, Reverting, CurrentWorker
<1>4. /\ h \in Settling(w)' /\ h \notin Settling(w)
      /\ \A v \in Worker : Settling(v) \subseteq Settling(v)'
  BY <1>1 DEF Settling
<1>5. reg'[w].current <= Cardinality(Claims(w)')
  <2>1. <<"handler", h>> \notin Claims(w)
    BY <1>4 DEF Claims
  <2>2. (Claims(w) \ {<<"task", t>>}) \cup {<<"handler", h>>} \subseteq Claims(w)'
    BY <1>3, <1>4 DEF Claims
  <2> QED BY <1>0, <2>1, <2>2, FitsMoved
<1>6. ASSUME NEW v \in Worker \ {w} PROVE reg'[v].current <= Cardinality(Claims(v)')
  <2>1. reg'[v].current \in Nat /\ reg'[v].current <= reg[v].current
    BY <1>0 DEF TypeOK, Registry!RegistryTypeOK
  <2> QED BY <1>0, <1>3, <1>4, <2>1, FitsKept
<1> QED BY <1>5, <1>6 DEF RegistryFits

\* The registry takes the slot off.
LEMMA SettleFits ==
  ASSUME Undisturbed, RegistryFits, NEW h \in Handler,
         MarkCompleted(h) \/ ReleaseFailedWorker(h)
  PROVE  RegistryFits'
<1>0. /\ TypeOK /\ TypeOK' /\ handlers[h].pc \in {"mark", "decrement"}
      /\ handlers' = [handlers EXCEPT ![h] = IdleHandler]
      /\ UNCHANGED <<tasks, threads>>
  BY DEF Undisturbed, CoordinatorInv, MarkCompleted, ReleaseFailedWorker, ReplySuccess,
       storeVars
<1>1. PICK w \in Worker : w = handlers[h].worker
  BY <1>0, ReportShape
<1>2. Registry!DecrementTaskCount(w)
  BY <1>1 DEF MarkCompleted, ReleaseFailedWorker
<1>3. \A v \in Worker : Given(v) = Given(v)' /\ Reverting(v) = Reverting(v)'
  BY <1>0 DEF Given, SlotsOf, Store!Held, Taking, CurrentTask, Reverting, CurrentWorker
<1>4. /\ \A v \in Worker : Settling(v) \ {h} \subseteq Settling(v)'
      /\ \A v \in Worker \ {w} : Settling(v) \subseteq Settling(v)'
  <2>1. \A g \in Handler \ {h} : handlers'[g] = handlers[g]
    BY <1>0, Shapes
  <2> QED BY <1>1, <2>1 DEF Settling
<1>5. Claims(w) \ {<<"handler", h>>} \subseteq Claims(w)'
  BY <1>3, <1>4 DEF Claims
<1>6. reg'[w].current <= Cardinality(Claims(w)')
  BY <1>0, <1>2, <1>5, FitsReturned
<1>7. ASSUME NEW v \in Worker \ {w} PROVE reg'[v].current <= Cardinality(Claims(v)')
  BY <1>0, <1>2, <1>3, <1>4, CountsFall, FitsKept
<1> QED BY <1>6, <1>7 DEF RegistryFits

LEMMA ServeFits ==
  ASSUME Undisturbed, RegistryFits, NEW h \in Handler, Serve(h)
  PROVE  RegistryFits'
<1>0. TypeOK /\ TypeOK' /\ ~Fault /\ GoodDay
  BY DEF Undisturbed, CoordinatorInv
<1>1. CASE MarkCompleted(h) \/ ReleaseFailedWorker(h)
  BY <1>1, SettleFits
<1>2. CASE CompleteTask(h) \/ FailTask(h)
  <2>1. handlers[h].pc \in {"complete", "write"} /\ UNCHANGED <<reg, threads>>
    BY <1>2 DEF CompleteTask, FailTask
  <2>2. PICK t \in Task, w \in Worker :
          /\ handlers[h].task = t /\ handlers[h].worker = w /\ tasks[t].worker = w
    <3>1. PICK j \in Job, t \in Task, w \in Worker :
            /\ handlers[h].task = t /\ handlers[h].worker = w
            /\ jobs[j].task = t /\ jobs[j].worker = w /\ JobFits(j)
      BY <2>1, Serves
    <3> QED BY <3>1 DEF JobFits
  <2>3. CASE CompleteTask(h)
    <3>1. CASE /\ Store!CompleteTask(t) /\ handlers' = [handlers EXCEPT ![h].pc = "mark"]
      <4>1. tasks' = [tasks EXCEPT ![t].status = "completed"]
        BY <3>1 DEF Store!CompleteTask
      <4>2. \A u \in Task \ {t} : tasks'[u] = tasks[u]
        BY <1>0, <4>1, Shapes
      <4> QED BY <2>1, <2>2, <3>1, <4>2, RecordFits
    <3>2. CASE ReplyError(h) /\ UNCHANGED storeVars
      BY <1>0, <2>1, <3>2, NothingRecorded DEF ReplyError, storeVars
    <3> QED BY <2>2, <2>3, <3>1, <3>2 DEF CompleteTask, Continue
  <2>4. CASE FailTask(h)
    <3>1. failing[h] # Store!Idle /\ failing[h].task = t
      BY <1>0, <2>2, <2>4 DEF FailTask, GoodDay, FailingFits
    <3>2. CASE /\ Store!FailTask(h) /\ handlers' = [handlers EXCEPT ![h].pc = "decrement"]
      <4>1. \E row : tasks' = [tasks EXCEPT ![t] = row]
        BY <3>1, <3>2 DEF Store!FailTask
      <4>2. \A u \in Task \ {t} : tasks'[u] = tasks[u]
        BY <1>0, <4>1, Shapes
      <4> QED BY <2>1, <2>2, <3>2, <4>2, RecordFits
    <3>3. CASE ReplyError(h) /\ UNCHANGED tasks
      BY <1>0, <2>1, <3>3, NothingRecorded DEF ReplyError
    <3> QED BY <2>4, <3>2, <3>3 DEF FailTask, Continue, Store!Rollback
  <2> QED BY <1>2, <2>3, <2>4
<1>3. CASE CheckCompleted(h) \/ ReadFailedTask(h)
  <2>1. /\ handlers[h].pc \in {"check", "read"}
        /\ UNCHANGED <<tasks, reg, threads>>
        /\ \E r : handlers' = [handlers EXCEPT ![h] = r]
    <3>1. CASE CheckCompleted(h)
      BY <3>1 DEF CheckCompleted, ReplySuccess, Continue, storeVars
    <3>2. CASE ReadFailedTask(h)
      BY <3>2 DEF ReadFailedTask, ReplyError, Continue, storeVars, Store!FailTaskRead
    <3> QED BY <1>3, <3>1, <3>2
  <2> QED BY <1>0, <2>1, NothingRecorded
<1> QED BY <1>1, <1>2, <1>3 DEF Serve

LEMMA NextFits ==
  ASSUME Undisturbed, RegistryFits, [Next]_vars
  PROVE  RegistryFits'
<1>0. TypeOK /\ TypeOK' /\ ~Fault
  BY DEF Undisturbed, CoordinatorInv
<1>1. ASSUME NEW th \in Thread, Schedule(th) PROVE RegistryFits'
  <2>1. ~CycleTimeout(th)
    BY <1>0 DEF CycleTimeout
  <2> QED BY <1>1, <2>1, AssignFits, IncrementFits, RevertFits, ReleaseFits DEF Schedule
<1>2. ~Sweep /\ ~LateStart /\ ~RestartCoordinator
  BY NothingStale DEF Undisturbed, RestartCoordinator
<1>3. CASE UNCHANGED vars
  <2>1. UNCHANGED <<tasks, reg, threads, handlers>>
    BY <1>3 DEF vars, storeVars, serviceVars
  <2>2. /\ \A v \in Worker : SlotsOf(v)' = SlotsOf(v) /\ Settling(v)' = Settling(v)
        /\ \A v \in Worker : reg'[v].current <= reg[v].current
    BY <1>0, <2>1, CountsFall DEF SlotsOf, Store!Held, Settling
  <2> QED BY <1>0, <2>1, <2>2, HoldersKept
<1> QED BY <1>1, <1>2, <1>3, MembershipFits, WorkFits, ServeFits DEF Next, LateStart

LEMMA InitFits == Init => RegistryFits
<1> SUFFICES ASSUME Init, NEW w \in Worker PROVE reg[w].current <= Cardinality(Claims(w))
  BY DEF RegistryFits
<1>1. reg[w].current = 0
  BY DEF Init, Registry!NoWorkers, Registry!Unknown
<1> QED BY <1>1, ClaimsFinite

\* The registry loses no capacity: an entry counts no more slots than there
\* are tasks its worker holds, failed sends and served reports, for any
\* number of workers, tasks, goroutines and handlers, until a fault.
THEOREM SlotsComeBackUntilAFault == Spec => [](faults = 0 => SlotsComeBack)
<1> DEFINE Fits == faults = 0 => RegistryFits
<1>1. Init => Fits
  BY InitFits
<1>2. /\ CoordinatorInv /\ CoordinatorInv' /\ (faults = 0 => GoodDay)
      /\ Fits /\ [Next]_vars
      => Fits'
  <2> SUFFICES ASSUME CoordinatorInv, CoordinatorInv', faults = 0 => GoodDay, Fits,
                      [Next]_vars, faults' = 0
               PROVE  RegistryFits'
    OBVIOUS
  <2>1. faults \in Nat
    BY DEF CoordinatorInv, TypeOK
  <2>2. ~Fault
    BY <2>1 DEF Fault
  <2>3. UNCHANGED faults
    BY <2>2, StepFaults
  <2>4. Undisturbed
    BY <2>2, <2>3 DEF Undisturbed
  <2> QED BY <2>3, <2>4, NextFits
<1>3. CoordinatorInv /\ Fits => (faults = 0 => SlotsComeBack)
  <2> SUFFICES ASSUME CoordinatorInv, RegistryFits, NEW w \in Worker
               PROVE  reg[w].current <=
                        Cardinality({t \in Task : Store!holder[t] = w})
                        + Cardinality({th \in Thread : threads[th].pc = "release"
                                                         /\ CurrentWorker(th) = w})
                        + Cardinality({h \in Handler : handlers[h].pc \in {"mark", "decrement"}
                                                         /\ handlers[h].worker = w})
    BY DEF SlotsComeBack
  <2>1. {t \in Task : Store!holder[t] = w} = SlotsOf(w)
    BY DEF Store!holder, SlotsOf
  <2>2. reg[w].current \in Nat /\ reg[w].current <= Cardinality(Claims(w))
    BY DEF CoordinatorInv, TypeOK, Registry!RegistryTypeOK, RegistryFits
  <2>3. reg[w].current <= Cardinality(SlotsOf(w)) + Cardinality(Reverting(w))
                            + Cardinality(Settling(w))
    BY <2>2, ClaimsBound
  <2> QED BY <2>1, <2>3 DEF Reverting, Settling
<1>4. Spec => []Fits
  <2> HIDE DEF Fits
  <2> QED BY <1>1, <1>2, CoordinatorInvariant, GoodInvariant, PTL DEF Spec
<1> QED BY <1>3, <1>4, CoordinatorInvariant, PTL
=============================================================================
