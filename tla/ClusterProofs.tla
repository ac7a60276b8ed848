---------------------------- MODULE ClusterProofs ----------------------------
(***************************************************************************)
(* Theorems about Cluster, for any nodes, workers and tasks and any number *)
(* of faults, that hold whoever takes itself for the leader.               *)
(***************************************************************************)
EXTENDS Cluster, FiniteSetTheorems, TLAPS

-----------------------------------------------------------------------------
(* Type correctness *)

\* The steps, by what they change.
TableStep == \E t \in Task : CreateTask(t)

NodeStep ==
  \E n \in Node :
    \/ BecomeLeader(n) \/ StepDown(n) \/ Restart(n) \/ GetStaleTasks(n)
    \/ \E t \in Task : ResetStaleTask(n, t)

WorkerStep ==
  \E w \in Serving :
    \/ Register(w) \/ ReceiveTasks(w) \/ RemoveDeadWorker(w) \/ EndStream(w)
    \/ CrashWorker(w)

CycleStep ==
  \E w \in Serving :
    GetPendingTasks(w) \/ \E t \in Task : AssignTask(w, t) \/ SendTask(w, t)

ReportStep ==
  \E w \in Serving, t \in Task : StartTask(w, t) \/ ReportCompletion(w, t)

LEMMA Steps ==
  Next <=> TableStep \/ NodeStep \/ WorkerStep \/ CycleStep \/ ReportStep
BY DEF Next, TableStep, NodeStep, WorkerStep, CycleStep, ReportStep, Sweep,
       Membership, Cycle

LEMMA FaultsBounded ==
  ASSUME faults \in 0..MaxFaults, Fault
  PROVE  faults' \in 0..MaxFaults
BY ClusterAssumption, SMT DEF Fault

LEMMA CountBounded ==
  ASSUME TypeOK, NEW w \in Serving, IncrementTaskCount(w) \/ DecrementTaskCount(w)
  PROVE  current' \in [Serving -> 0..Capacity]
BY ClusterAssumption, SMT DEF IncrementTaskCount, DecrementTaskCount, Full, TypeOK

LEMMA TypeNodeStep ==
  ASSUME TypeOK, NodeStep
  PROVE  TypeOK'
<1>1. ASSUME NEW n \in Node, BecomeLeader(n) \/ StepDown(n)
      PROVE  TypeOK'
  BY <1>1 DEF TypeOK, BecomeLeader, StepDown, tableVars, deliveryVars, loopVars
<1>2. ASSUME NEW n \in Node, Restart(n)
      PROVE  TypeOK'
  <2>1. faults' \in 0..MaxFaults
    BY <1>2, FaultsBounded DEF Restart, TypeOK
  <2>2. /\ stream' \in [Serving -> {"none", "parked", "open"}]
        /\ queue' \in [Serving -> SUBSET Task]
        /\ \A w \in Serving : stream'[w] # "open" => queue'[w] = {}
    BY <1>2 DEF Restart, TypeOK
  <2>3. current' \in [Serving -> 0..Capacity]
    BY <1>2, ClusterAssumption, SMT DEF Restart, TypeOK
  <2>4. /\ batch' \in [Node -> SUBSET Task] /\ sending' \in [Node -> SUBSET Task]
        /\ stale' \in [Node -> SUBSET Task]
    BY <1>2 DEF Restart, TypeOK
  <2> QED BY <1>2, <2>1, <2>2, <2>3, <2>4 DEF Restart, TypeOK, tableVars
<1>3. ASSUME NEW n \in Node, GetStaleTasks(n)
      PROVE  TypeOK'
  <2>1. faults' \in 0..MaxFaults
    BY <1>3, FaultsBounded DEF GetStaleTasks, FaultUnless, TypeOK
  <2> QED BY <1>3, <2>1 DEF GetStaleTasks, TypeOK, tableVars, memberVars,
                            deliveryVars
<1>4. ASSUME NEW n \in Node, NEW t \in Task, ResetStaleTask(n, t)
      PROVE  TypeOK'
  BY <1>4 DEF ResetStaleTask, TypeOK, tableVars, memberVars, deliveryVars
<1> QED BY <1>1, <1>2, <1>3, <1>4 DEF NodeStep

LEMMA TypeWorkerStep ==
  ASSUME TypeOK, WorkerStep
  PROVE  TypeOK'
<1>1. ASSUME NEW w \in Serving, Register(w)
      PROVE  TypeOK'
  <2>1. faults' \in 0..MaxFaults
    BY <1>1, FaultsBounded DEF Register, TypeOK
  <2> QED BY <1>1, <2>1 DEF Register, TypeOK, tableVars, deliveryVars, loopVars
<1>2. ASSUME NEW w \in Serving, ReceiveTasks(w)
      PROVE  TypeOK'
  BY <1>2 DEF ReceiveTasks, TypeOK, tableVars, memberVars, loopVars
<1>3. ASSUME NEW w \in Serving, RemoveDeadWorker(w)
      PROVE  TypeOK'
  <2>1. current' \in [Serving -> 0..Capacity]
    BY <1>3, ClusterAssumption, SMT DEF RemoveDeadWorker, TypeOK
  <2> QED BY <1>3, <2>1 DEF RemoveDeadWorker, TypeOK, tableVars, deliveryVars,
                            loopVars
<1>4. ASSUME NEW w \in Serving, EndStream(w)
      PROVE  TypeOK'
  <2>1. faults' \in 0..MaxFaults
    BY <1>4, FaultsBounded DEF EndStream, FaultUnless, TypeOK
  <2> QED BY <1>4, <2>1 DEF EndStream, TypeOK, tableVars, memberVars, loopVars
<1>5. ASSUME NEW w \in Serving, CrashWorker(w)
      PROVE  TypeOK'
  <2>1. faults' \in 0..MaxFaults
    BY <1>5, FaultsBounded DEF CrashWorker, TypeOK
  <2> QED BY <1>5, <2>1 DEF CrashWorker, TypeOK, tableVars, loopVars
<1> QED BY <1>1, <1>2, <1>3, <1>4, <1>5 DEF WorkerStep

LEMMA TypeCycleStep ==
  ASSUME TypeOK, CycleStep
  PROVE  TypeOK'
<1> USE ClusterAssumption
<1>1. ASSUME NEW w \in Serving, GetPendingTasks(w)
      PROVE  TypeOK'
  BY <1>1 DEF GetPendingTasks, Pending, TypeOK, tableVars, memberVars,
              deliveryVars
<1>2. ASSUME NEW w \in Serving, NEW t \in Task, AssignTask(w, t)
      PROVE  TypeOK'
  <2>1. current' \in [Serving -> 0..Capacity]
    BY <1>2, CountBounded DEF AssignTask, TypeOK
  <2> QED BY <1>2, <2>1 DEF AssignTask, TypeOK, deliveryVars
<1>3. ASSUME NEW w \in Serving, NEW t \in Task, SendTask(w, t)
      PROVE  TypeOK'
  <2>1. current' \in [Serving -> 0..Capacity]
    BY <1>3, CountBounded DEF SendTask, TypeOK
  <2> QED BY <1>3, <2>1 DEF SendTask, TypeOK
<1> QED BY <1>1, <1>2, <1>3 DEF CycleStep

LEMMA TypeReportStep ==
  ASSUME TypeOK, ReportStep
  PROVE  TypeOK'
<1>1. ASSUME NEW w \in Serving, NEW t \in Task, StartTask(w, t)
      PROVE  TypeOK'
  BY <1>1 DEF StartTask, TypeOK, memberVars, loopVars
<1>2. ASSUME NEW w \in Serving, NEW t \in Task, ReportCompletion(w, t)
      PROVE  TypeOK'
  <2>1. current' \in [Serving -> 0..Capacity]
    BY <1>2, CountBounded DEF ReportCompletion, TypeOK
  <2> QED BY <1>2, <2>1 DEF ReportCompletion, TypeOK, loopVars
<1> QED BY <1>1, <1>2 DEF ReportStep

LEMMA TypeStep ==
  ASSUME TypeOK, [Next]_vars
  PROVE  TypeOK'
<1>1. CASE TableStep
  BY <1>1 DEF TableStep, CreateTask, TypeOK, memberVars, deliveryVars, loopVars
<1>2. CASE UNCHANGED vars
  BY <1>2 DEF vars, TypeOK, tableVars, memberVars, deliveryVars, loopVars
<1> QED
  BY <1>1, <1>2, Steps, TypeNodeStep, TypeWorkerStep, TypeCycleStep,
     TypeReportStep

\* Every reachable state of coordinators, workers and tables is well typed, and
\* no task waits in the channel of a call that is not being served.
THEOREM ClusterTypeOK == Spec => []TypeOK
<1>1. Init => TypeOK
  BY ClusterAssumption, SMT DEF Init, TypeOK
<1> QED BY <1>1, TypeStep, PTL DEF Spec

-----------------------------------------------------------------------------
(* One worker at a time *)

\* A task no sweep has touched leaves no trace when it is pending; otherwise
\* whoever sends or has it is the worker of its row, and not both at once.
InOneHand(t) ==
  \A w \in Serving :
    /\ Has(w, t) => worker[t] = w /\ status[t] \notin {"absent", "pending"}
    /\ t \in sending[w] => worker[t] = w /\ status[t] = "assigned" /\ ~Has(w, t)

HandsInv == \A t \in Task \ reset : InOneHand(t)

LEMMA HandsNodeStep ==
  ASSUME TypeOK, HandsInv, NodeStep
  PROVE  HandsInv'
<1> SUFFICES ASSUME NEW t \in Task \ reset'
             PROVE  InOneHand(t)'
  BY DEF HandsInv
<1>1. ASSUME NEW n \in Node, BecomeLeader(n) \/ StepDown(n) \/ GetStaleTasks(n)
      PROVE  InOneHand(t)'
  BY <1>1 DEF BecomeLeader, StepDown, GetStaleTasks, HandsInv, InOneHand, Has,
              tableVars, deliveryVars, loopVars
<1>2. ASSUME NEW n \in Node, Restart(n)
      PROVE  InOneHand(t)'
  BY <1>2, ClusterAssumption
     DEF Restart, HandsInv, InOneHand, Has, TypeOK, tableVars
<1>3. ASSUME NEW n \in Node, NEW u \in Task, ResetStaleTask(n, u)
      PROVE  InOneHand(t)'
  BY <1>3 DEF ResetStaleTask, HandsInv, InOneHand, Has, TypeOK, tableVars,
              deliveryVars
<1> QED BY <1>1, <1>2, <1>3 DEF NodeStep

LEMMA HandsWorkerStep ==
  ASSUME TypeOK, HandsInv, WorkerStep
  PROVE  HandsInv'
BY DEF WorkerStep, Register, ReceiveTasks, RemoveDeadWorker, EndStream,
       CrashWorker, HandsInv, InOneHand, Has, TypeOK, tableVars, deliveryVars,
       loopVars

LEMMA HandsCycleStep ==
  ASSUME TypeOK, HandsInv, CycleStep
  PROVE  HandsInv'
<1> USE ClusterAssumption
<1> SUFFICES ASSUME NEW t \in Task \ reset', NEW v \in Serving
             PROVE  InOneHand(t)!(v)'
  BY DEF HandsInv, InOneHand
<1>1. ASSUME NEW w \in Serving, GetPendingTasks(w)
      PROVE  InOneHand(t)!(v)'
  BY <1>1 DEF GetPendingTasks, HandsInv, InOneHand, Has, tableVars, deliveryVars
<1>2. ASSUME NEW w \in Serving, NEW u \in Task, AssignTask(w, u)
      PROVE  InOneHand(t)!(v)'
  BY <1>2 DEF AssignTask, CanAssign, HandsInv, InOneHand, Has, TypeOK,
              deliveryVars
<1>3. ASSUME NEW w \in Serving, NEW u \in Task, SendTask(w, u)
      PROVE  InOneHand(t)!(v)'
  BY <1>3 DEF SendTask, HandsInv, InOneHand, Has, TypeOK
<1> QED BY <1>1, <1>2, <1>3 DEF CycleStep

LEMMA HandsReportStep ==
  ASSUME TypeOK, HandsInv, ReportStep
  PROVE  HandsInv'
<1> USE ClusterAssumption
<1> SUFFICES ASSUME NEW t \in Task \ reset', NEW v \in Serving
             PROVE  InOneHand(t)!(v)'
  BY DEF HandsInv, InOneHand
<1>1. ASSUME NEW w \in Serving, NEW u \in Task, StartTask(w, u)
      PROVE  InOneHand(t)!(v)'
  BY <1>1 DEF StartTask, HandsInv, InOneHand, Has, TypeOK, loopVars
<1>2. ASSUME NEW w \in Serving, NEW u \in Task, ReportCompletion(w, u)
      PROVE  InOneHand(t)!(v)'
  BY <1>2 DEF ReportCompletion, HandsInv, InOneHand, Has, TypeOK, loopVars
<1> QED BY <1>1, <1>2 DEF ReportStep

LEMMA HandsStep ==
  ASSUME TypeOK, HandsInv, [Next]_vars
  PROVE  HandsInv'
<1>1. CASE TableStep
  BY <1>1 DEF TableStep, CreateTask, HandsInv, InOneHand, Has, TypeOK,
              deliveryVars, loopVars
<1>2. CASE UNCHANGED vars
  BY <1>2 DEF vars, HandsInv, InOneHand, Has, tableVars, deliveryVars, loopVars
<1> QED
  BY <1>1, <1>2, Steps, HandsNodeStep, HandsWorkerStep, HandsCycleStep,
     HandsReportStep

\* Those who have a task are among the one worker of its row.
LEMMA OneHandIsExclusive ==
  ASSUME HandsInv
  PROVE  ExclusiveExecution
<1> SUFFICES ASSUME NEW t \in Task, t \notin reset
             PROVE  ~(Cardinality({w \in Serving : Has(w, t)}) > 1)
  BY DEF ExclusiveExecution
<1> DEFINE Holders == {w \in Serving : Has(w, t)}
<1>1. Holders \subseteq {worker[t]}
  BY DEF HandsInv, InOneHand
<1>2. /\ IsFiniteSet({worker[t]}) /\ Cardinality({worker[t]}) = 1
  BY FS_Singleton
<1>3. Cardinality(Holders) <= 1 /\ Cardinality(Holders) \in Nat
  BY <1>1, <1>2, FS_Subset, FS_CardinalityType
<1> QED BY <1>3

\* However many nodes take themselves for the leader, and however stale the
\* cycles of deposed ones are, no two workers have one task before a sweep has
\* taken it away from one of them.
THEOREM ClusterExclusiveExecution == Spec => []ExclusiveExecution
<1>1. Init => TypeOK /\ HandsInv
  BY ClusterAssumption DEF Init, TypeOK, HandsInv, InOneHand, Has
<1>2. TypeOK /\ HandsInv /\ [Next]_vars => (TypeOK /\ HandsInv)'
  BY TypeStep, HandsStep
<1>3. HandsInv => ExclusiveExecution
  BY OneHandIsExclusive
<1> QED BY <1>1, <1>2, <1>3, PTL DEF Spec

-----------------------------------------------------------------------------
(* The rows implement TaskLease *)

Leased(t) == status[t] \in {"assigned", "in_progress"}

\* A leased row names a worker.
LeasesInv == \A t \in Task : Leased(t) => worker[t] \in Serving

\* What a step does to the one row it touches.
RowKept(t) == (Leased(t) <=> Leased(t)') /\ worker'[t] = worker[t]

RowGivenUp(t) == Leased(t) /\ ~Leased(t)'

RowTaken(t) == ~Leased(t) /\ Leased(t)' /\ worker'[t] \in Serving

OneRow(t) ==
  /\ \A u \in Task \ {t} : RowKept(u)
  /\ RowKept(t) \/ RowGivenUp(t) \/ RowTaken(t)

LEMMA CycleOneRow ==
  ASSUME TypeOK, NEW w \in Serving, NEW t \in Task, AssignTask(w, t) \/ SendTask(w, t)
  PROVE  OneRow(t)
BY DEF AssignTask, CanAssign, SendTask, TypeOK, OneRow, RowKept, RowGivenUp,
       RowTaken, Leased

LEMMA ReportOneRow ==
  ASSUME TypeOK, NEW w \in Serving, NEW t \in Task,
         StartTask(w, t) \/ ReportCompletion(w, t)
  PROVE  OneRow(t)
BY DEF StartTask, ReportCompletion, TypeOK, OneRow, RowKept, RowGivenUp, Leased

LEMMA OtherOneRow ==
  ASSUME TypeOK, NEW t \in Task,
         CreateTask(t) \/ \E n \in Node : ResetStaleTask(n, t)
  PROVE  OneRow(t)
BY DEF CreateTask, ResetStaleTask, TypeOK, OneRow, RowKept, RowGivenUp, Leased,
       tableVars

\* Every step touches one row, or none.
LEMMA StepOneRow ==
  ASSUME TypeOK, [Next]_vars
  PROVE  (\E t \in Task : OneRow(t)) \/ UNCHANGED <<status, worker>>
<1>1. CASE TableStep
  BY <1>1, OtherOneRow DEF TableStep
<1>2. CASE NodeStep
  BY <1>2, OtherOneRow
     DEF NodeStep, BecomeLeader, StepDown, Restart, GetStaleTasks, tableVars
<1>3. CASE WorkerStep
  BY <1>3 DEF WorkerStep, Register, ReceiveTasks, RemoveDeadWorker, EndStream,
              CrashWorker, tableVars
<1>4. CASE CycleStep
  BY <1>4, CycleOneRow DEF CycleStep, GetPendingTasks, tableVars
<1>5. CASE ReportStep
  BY <1>5, ReportOneRow DEF ReportStep
<1>6. CASE UNCHANGED vars
  BY <1>6 DEF vars, tableVars
<1> QED BY <1>1, <1>2, <1>3, <1>4, <1>5, <1>6, Steps

LEMMA OneRowLease ==
  ASSUME LeasesInv, NEW t \in Task, OneRow(t)
  PROVE  LeasesInv' /\ [Lease!Next]_holder
<1>1. LeasesInv'
  BY DEF LeasesInv, OneRow, RowKept, RowGivenUp, RowTaken
<1>2. \A u \in Task \ {t} : holder'[u] = holder[u]
  BY DEF OneRow, RowKept, Leased, holder
<1>3. holder' = [holder EXCEPT ![t] = holder'[t]]
  BY <1>2 DEF holder
<1>4. CASE RowKept(t)
  <2>1. \A u \in Task : holder'[u] = holder[u]
    BY <1>2, <1>4 DEF RowKept, Leased, holder
  <2>2. holder' = holder
    BY <2>1 DEF holder
  <2> QED BY <1>1, <2>2
<1>5. CASE RowGivenUp(t)
  <2>1. holder[t] # NoWorker /\ holder'[t] = NoWorker
    BY <1>5, ClusterAssumption DEF RowGivenUp, Leased, LeasesInv, holder
  <2> QED BY <1>1, <1>3, <2>1 DEF Lease!Next, Lease!Release
<1>6. CASE RowTaken(t)
  <2>1. holder[t] = NoWorker /\ holder'[t] \in Serving
    BY <1>6 DEF RowTaken, Leased, holder
  <2> QED BY <1>1, <1>3, <2>1 DEF Lease!Next, Lease!Acquire
<1> QED BY <1>4, <1>5, <1>6 DEF OneRow

LEMMA LeaseStep ==
  ASSUME TypeOK, LeasesInv, [Next]_vars
  PROVE  LeasesInv' /\ [Lease!Next]_holder
<1>1. CASE UNCHANGED <<status, worker>>
  BY <1>1 DEF LeasesInv, Leased, holder
<1> QED BY <1>1, StepOneRow, OneRowLease

\* What several coordinators do to the rows is what TaskLease allows: no lease
\* passes from worker to worker directly, although nodes that do not lead any
\* more go on assigning, reverting and sweeping.
THEOREM ClusterImplementsLease == Spec => LeaseSpec
<1>1. Init => LeasesInv /\ Lease!Init
  BY DEF Init, LeasesInv, Leased, Lease!Init, holder
<1> QED BY <1>1, LeaseStep, ClusterTypeOK, PTL DEF Spec, LeaseSpec, Lease!Spec
=============================================================================
