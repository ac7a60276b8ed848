------------------------------- MODULE Cluster -------------------------------
(***************************************************************************)
(* Several coordinators over one task store (cmd/coordinator/main.go,      *)
(* raft/raft_node.go and what scheduler, registry and gRPC service do      *)
(* about leadership).  Raft only says who may begin a cycle, register a    *)
(* worker or serve a stream.  A deposed leader ends the cycle it is in,    *)
(* the sweep for stale tasks runs on every node, and registries and        *)
(* streams are not replicated.                                             *)
(*                                                                         *)
(* A worker is configured with the address of one coordinator              *)
(* (docker-compose-cluster.yml), so it is named after that node here.  A   *)
(* row is its status and worker_id.  The registry's task count decides     *)
(* whom a cycle may use; that of table workers, failed proofs and late     *)
(* messages are in Coordinator.                                            *)
(***************************************************************************)
EXTENDS FiniteSets, Naturals

CONSTANTS
  Node,        \* the coordinators
  Serving,     \* those that some worker is configured to connect to
  NoWorker,    \* SQL NULL in tasks.worker_id
  Task,
  Capacity,    \* MaxConcurrentTasks of a worker
  MaxFaults    \* bound on faults

ASSUME ClusterAssumption ==
  /\ Serving \subseteq Node /\ NoWorker \notin Serving
  /\ Capacity \in Nat \ {0} /\ MaxFaults \in Nat

VARIABLES
  status, worker,   \* table tasks
  rows,        \* table workers: those that have a row
  leads,       \* nodes where raft.State() is Leader
  known,       \* workers in the registry of their node
  current,     \* current[w]: CurrentTaskCount of its entry, 0 without one
  running,     \* workers that have registered and not died since
  stream,      \* stream[w]: its ReceiveTasks call: "none", "parked", "open"
  queue,       \* queue[w]: tasks in the channel of its open stream
  work,        \* work[w]: tasks it has received and not reported
  batch,       \* batch[n]: tasks the cycle of n has read and not dealt with
  sending,     \* sending[n]: tasks it has assigned and not sent
  stale,       \* stale[n]: tasks HandleStaleTasks on n has read
  reset,       \* history: tasks a sweep has taken from a worker
  faults

tableVars == <<status, worker, reset>>
memberVars == <<rows, leads, known, current, running>>
deliveryVars == <<stream, queue, work>>
loopVars == <<batch, sending, stale>>
vars == <<tableVars, memberVars, deliveryVars, loopVars, faults>>

TypeOK ==
  /\ status \in [Task -> {"absent", "pending", "assigned", "in_progress",
                          "completed"}]
  /\ worker \in [Task -> Serving \cup {NoWorker}]
  /\ rows \subseteq Serving /\ known \subseteq Serving /\ running \subseteq Serving
  /\ leads \subseteq Node
  /\ current \in [Serving -> 0..Capacity]
  /\ stream \in [Serving -> {"none", "parked", "open"}]
  /\ queue \in [Serving -> SUBSET Task] /\ work \in [Serving -> SUBSET Task]
  /\ batch \in [Node -> SUBSET Task] /\ sending \in [Node -> SUBSET Task]
  /\ stale \in [Node -> SUBSET Task]
  /\ \A w \in Serving : stream[w] # "open" => queue[w] = {}
  /\ reset \subseteq Task
  /\ faults \in 0..MaxFaults

Init ==
  /\ status = [t \in Task |-> "absent"]
  /\ worker = [t \in Task |-> NoWorker]
  /\ rows = {} /\ known = {} /\ running = {} /\ leads = {}
  /\ current = [w \in Serving |-> 0]
  /\ stream = [w \in Serving |-> "none"]
  /\ queue = [w \in Serving |-> {}] /\ work = [w \in Serving |-> {}]
  /\ batch = [n \in Node |-> {}] /\ sending = [n \in Node |-> {}]
  /\ stale = [n \in Node |-> {}]
  /\ reset = {} /\ faults = 0

Fault == faults < MaxFaults /\ faults' = faults + 1

\* A fault unless the condition makes the event part of a normal run.
FaultUnless(normal) == IF normal THEN UNCHANGED faults ELSE Fault

CreateTask(t) ==
  /\ status[t] = "absent"
  /\ status' = [status EXCEPT ![t] = "pending"]
  /\ UNCHANGED <<worker, reset, memberVars, deliveryVars, loopVars, faults>>

-----------------------------------------------------------------------------
(* Leadership *)

\* A node does not learn at once that another one was elected: two may take
\* themselves for the leader.
BecomeLeader(n) ==
  /\ n \notin leads
  /\ leads' = leads \cup {n}
  /\ UNCHANGED <<tableVars, rows, known, current, running, deliveryVars, loopVars,
                 faults>>

StepDown(n) ==
  /\ n \in leads
  /\ leads' = leads \ {n}
  /\ UNCHANGED <<tableVars, rows, known, current, running, deliveryVars, loopVars,
                 faults>>

\* The process dies and starts again with an empty registry: loadWorkersFromDB
\* counts the rows and restores none.
Restart(n) ==
  /\ Fault
  /\ leads' = leads \ {n} /\ known' = known \ {n}
  /\ current' = [w \in Serving |-> IF w = n THEN 0 ELSE current[w]]
  /\ stream' = [w \in Serving |-> IF w = n THEN "none" ELSE stream[w]]
  /\ queue' = [w \in Serving |-> IF w = n THEN {} ELSE queue[w]]
  /\ batch' = [batch EXCEPT ![n] = {}]
  /\ sending' = [sending EXCEPT ![n] = {}]
  /\ stale' = [stale EXCEPT ![n] = {}]
  /\ UNCHANGED <<tableVars, rows, running, work>>

-----------------------------------------------------------------------------
(* Workers *)

\* Only a leader registers.  A worker that is turned away exits and is started
\* again with the same address.  A new entry is written to the table; when
\* that fails the registration goes on.  The entry of a known worker is not
\* written, and keeps its task count although the worker has lost the tasks.
Register(w) ==
  /\ w \notin running /\ w \in leads
  /\ running' = running \cup {w}
  /\ known' = known \cup {w}
  /\ \/ rows' = (IF w \in known THEN rows ELSE rows \cup {w}) /\ UNCHANGED faults
     \/ w \notin known /\ Fault /\ UNCHANGED rows
  /\ UNCHANGED <<tableVars, leads, current, deliveryVars, loopVars>>

\* The heartbeats have stopped.
RemoveDeadWorker(w) ==
  /\ w \in known \ running
  /\ known' = known \ {w} /\ current' = [current EXCEPT ![w] = 0]
  /\ UNCHANGED <<tableVars, rows, leads, running, deliveryVars, loopVars, faults>>

CrashWorker(w) ==
  /\ w \in running /\ Fault
  /\ running' = running \ {w}
  /\ stream' = [stream EXCEPT ![w] = "none"]
  /\ queue' = [queue EXCEPT ![w] = {}]
  /\ work' = [work EXCEPT ![w] = {}]
  /\ UNCHANGED <<tableVars, rows, leads, known, current, loopVars>>

\* A node that does not lead keeps the call without serving it.
ReceiveTasks(w) ==
  /\ w \in running /\ stream[w] = "none"
  /\ stream' = [stream EXCEPT ![w] = IF w \in leads THEN "open" ELSE "parked"]
  /\ UNCHANGED <<tableVars, memberVars, queue, work, loopVars, faults>>

EndNoParkedStream(w) ==   \* mutant: no MaxConnectionAge, a parked call lasts
  /\ stream[w] = "open" /\ Fault
  /\ stream' = [stream EXCEPT ![w] = "none"]
  /\ queue' = [queue EXCEPT ![w] = {}]
  /\ UNCHANGED <<tableVars, memberVars, work, loopVars>>

\* MaxConnectionAge ends every connection; the worker connects again.  For an
\* open stream that is rare enough to count as a fault.
EndStream(w) ==
  /\ stream[w] # "none"
  /\ FaultUnless(stream[w] = "parked")
  /\ stream' = [stream EXCEPT ![w] = "none"]
  /\ queue' = [queue EXCEPT ![w] = {}]
  /\ UNCHANGED <<tableVars, memberVars, work, loopVars>>

-----------------------------------------------------------------------------
(* scheduleOneCycle.  A node's registry has at most the worker of that node. *)

Pending == {t \in Task : status[t] = "pending"}

Full(w) == current[w] >= Capacity

IncrementTaskCount(w) ==   \* an error is ignored
  current' = IF w \in known /\ ~Full(w)
             THEN [current EXCEPT ![w] = @ + 1] ELSE current

DecrementTaskCount(w) ==
  current' = IF current[w] > 0 THEN [current EXCEPT ![w] = @ - 1] ELSE current

\* The only look at leadership is before the cycle, and so is the only look
\* at the worker's room.  The entry of a worker that died may pass for fresh.
\* One that HandleStaleTasks made suspect is active again by its next
\* heartbeat.
GetPendingTasks(n) ==
  /\ n \in leads \cap known /\ ~Full(n)
  /\ batch[n] = {} /\ sending[n] = {}
  /\ Pending # {}
  /\ batch' = [batch EXCEPT ![n] = Pending]
  /\ UNCHANGED <<tableVars, memberVars, deliveryVars, sending, stale, faults>>

CanAssignAny(t, w) == w \in rows   \* mutant: no WHERE status = 'pending'

\* assign_task_to_worker; the foreign key wants the worker's row.
CanAssign(t, w) == status[t] = "pending" /\ w \in rows

AssignTask(n, t) ==
  /\ t \in batch[n] /\ sending[n] = {}
  /\ batch' = [batch EXCEPT ![n] = @ \ {t}]
  /\ IF CanAssign(t, n)
     THEN /\ status' = [status EXCEPT ![t] = "assigned"]
          /\ worker' = [worker EXCEPT ![t] = n]
          /\ sending' = [sending EXCEPT ![n] = {t}]
          /\ IncrementTaskCount(n)
     ELSE UNCHANGED <<status, worker, sending, current>>
  /\ UNCHANGED <<reset, rows, leads, known, running, deliveryVars, stale, faults>>

SendTaskTimedOut(n, t) ==   \* mutant: a push that is given up may arrive
  /\ t \in sending[n]
  /\ sending' = [sending EXCEPT ![n] = {}]
  /\ queue' = [queue EXCEPT ![n] = IF stream[n] = "open" THEN @ \cup {t} ELSE @]
  /\ IF status[t] = "assigned"
     THEN /\ status' = [status EXCEPT ![t] = "pending"]
          /\ worker' = [worker EXCEPT ![t] = NoWorker]
     ELSE UNCHANGED <<status, worker>>
  /\ DecrementTaskCount(n)
  /\ UNCHANGED <<reset, rows, leads, known, running, stream, work, batch, stale,
                 faults>>

\* PushTaskToWorker; when there is no stream UnassignTask and the decrement.
SendTask(n, t) ==
  /\ t \in sending[n]
  /\ sending' = [sending EXCEPT ![n] = {}]
  /\ IF stream[n] = "open"
     THEN /\ queue' = [queue EXCEPT ![n] = @ \cup {t}]
          /\ UNCHANGED <<status, worker, current>>
     ELSE /\ IF status[t] = "assigned"
             THEN /\ status' = [status EXCEPT ![t] = "pending"]
                  /\ worker' = [worker EXCEPT ![t] = NoWorker]
             ELSE UNCHANGED <<status, worker>>
          /\ DecrementTaskCount(n)
          /\ UNCHANGED queue
  /\ UNCHANGED <<reset, rows, leads, known, running, stream, work, batch, stale,
                 faults>>

-----------------------------------------------------------------------------
(* The worker's side; StartTask and reports are served by any node. *)

StartTask(w, t) ==
  /\ t \in queue[w]
  /\ queue' = [queue EXCEPT ![w] = @ \ {t}]
  /\ work' = [work EXCEPT ![w] = @ \cup {t}]
  /\ status' = IF status[t] = "assigned" /\ worker[t] = w
               THEN [status EXCEPT ![t] = "in_progress"] ELSE status
  /\ UNCHANGED <<worker, reset, memberVars, stream, loopVars, faults>>

\* complete_task looks at the status only; a refused report is dropped, and
\* gives no slot back in the registry of the worker's node.
ReportCompletion(w, t) ==
  /\ t \in work[w]
  /\ work' = [work EXCEPT ![w] = @ \ {t}]
  /\ IF status[t] = "in_progress"
     THEN status' = [status EXCEPT ![t] = "completed"] /\ DecrementTaskCount(w)
     ELSE UNCHANGED <<status, current>>
  /\ UNCHANGED <<worker, reset, rows, leads, known, running, stream, queue,
                 loopVars, faults>>

-----------------------------------------------------------------------------
(* startStaleTaskCleanup, on every node whoever leads *)

Abandoned(t) ==
  status[t] = "in_progress" /\ \A w \in Serving : t \notin work[w]

GetStaleTasksOnLeader(n) ==   \* mutant: the sweep asks who leads
  /\ n \in leads /\ stale[n] = {}
  /\ \E slow \in SUBSET {t \in Task : status[t] = "in_progress"} :
       /\ slow # {} /\ FaultUnless(\A t \in slow : Abandoned(t))
       /\ stale' = [stale EXCEPT ![n] = slow]
  /\ UNCHANGED <<tableVars, memberVars, deliveryVars, batch, sending>>

\* A task that some worker is still busy with is stale by a fault.
GetStaleTasks(n) ==
  /\ stale[n] = {}
  /\ \E slow \in SUBSET {t \in Task : status[t] = "in_progress"} :
       /\ slow # {} /\ FaultUnless(\A t \in slow : Abandoned(t))
       /\ stale' = [stale EXCEPT ![n] = slow]
  /\ UNCHANGED <<tableVars, memberVars, deliveryVars, batch, sending>>

\* ResetTaskToPending has no idea which attempt was stale.
ResetStaleTask(n, t) ==
  /\ t \in stale[n]
  /\ stale' = [stale EXCEPT ![n] = @ \ {t}]
  /\ IF status[t] = "in_progress"
     THEN /\ status' = [status EXCEPT ![t] = "pending"]
          /\ worker' = [worker EXCEPT ![t] = NoWorker]
          /\ reset' = reset \cup {t}
     ELSE UNCHANGED tableVars
  /\ UNCHANGED <<memberVars, deliveryVars, batch, sending, faults>>

-----------------------------------------------------------------------------
Cycle(n) ==
  GetPendingTasks(n) \/ \E t \in Task : AssignTask(n, t) \/ SendTask(n, t)

Sweep(n) == GetStaleTasks(n) \/ \E t \in Task : ResetStaleTask(n, t)

Membership(w) ==
  Register(w) \/ ReceiveTasks(w) \/ RemoveDeadWorker(w) \/ EndStream(w)

Next ==
  \/ \E t \in Task : CreateTask(t)
  \/ \E n \in Node : BecomeLeader(n) \/ StepDown(n) \/ Restart(n) \/ Sweep(n)
  \/ \E w \in Serving : Membership(w) \/ CrashWorker(w) \/ Cycle(w)
  \/ \E w \in Serving, t \in Task : StartTask(w, t) \/ ReportCompletion(w, t)

Spec == Init /\ [][Next]_vars

\* Tickers tick, workers are started again and connect again, what is in a
\* channel is received, proofs end, connections grow old.  Nothing obliges a
\* node to lead or to use the entry of a worker that has died.  What happens
\* by a fault is never obliged to happen.
FairSpec ==
  /\ Spec
  /\ \A n \in Node :
       /\ WF_vars(GetStaleTasks(n) /\ UNCHANGED faults)
       /\ WF_vars(\E t \in Task : ResetStaleTask(n, t))
  /\ \A w \in Serving :
       /\ WF_vars(w \in running /\ GetPendingTasks(w))
       /\ WF_vars(\E t \in Task : AssignTask(w, t) \/ SendTask(w, t))
       /\ WF_vars(Register(w) /\ UNCHANGED faults) /\ WF_vars(ReceiveTasks(w))
       /\ WF_vars(EndStream(w) /\ UNCHANGED faults)
       /\ \A t \in Task : WF_vars(StartTask(w, t)) /\ WF_vars(ReportCompletion(w, t))

-----------------------------------------------------------------------------
(* Properties *)

\* main.go:268, "ONLY THE RAFT LEADER SCHEDULES TASKS to avoid duplicate
\* assignments": it is the database that avoids them.  Whatever nodes believe
\* themselves leaders, deposed ones in the middle of a cycle included, two
\* workers have a task only after a sweep took it from one of them.
Has(w, t) == t \in queue[w] \cup work[w]

ExclusiveExecution ==
  \A t \in Task : Cardinality({w \in Serving : Has(w, t)}) > 1 => t \in reset

\* The rows alone: who leads does not matter for the promise of the store either.
\* Whichever node assigns, sends, reverts or sweeps, and however late, a task
\* is leased to one worker at a time and goes back to pending in between.
holder ==
  [t \in Task |-> IF status[t] \in {"assigned", "in_progress"}
                  THEN worker[t] ELSE NoWorker]

Lease == INSTANCE TaskLease WITH Worker <- Serving

LeaseSpec == Lease!Spec

\* A task lost on the way: assigned, and in no hand that will start it.
Lost(t) ==
  /\ status[t] = "assigned"
  /\ \A n \in Serving : t \notin sending[n] /\ t \notin queue[n]

\* Failover: once Raft settles on a node and its worker starts after the last
\* fault, every pending task gets to a worker, although the node began with an
\* empty registry, the worker may have been turned away or have a call parked
\* before, and deposed leaders are still in their cycles.  Two things the code
\* never repairs are excluded: a row that CreateWorker failed to write, and a
\* registry that counts slots nobody uses as taken until nothing is left of
\* the worker, because it crashed with its tasks and came back too soon, or
\* because a sweep took its last task and the report was refused.
Healed(w) ==
  /\ w \in leads /\ w \notin running /\ faults = MaxFaults
  /\ w \in known => w \in rows

PendingIsTaken ==
  (\E w \in Serving : <>[](leads = {w}) /\ <>Healed(w) /\ []<>~Full(w))
    => \A t \in Task : status[t] = "pending" ~>
                         status[t] \in {"in_progress", "completed"} \/ Lost(t)

\* An attempt ends although nobody may lead: reports and sweeps do not ask.
AttemptEnds ==
  \A t \in Task : status[t] = "in_progress" ~> status[t] # "in_progress"
=============================================================================
