------------------------- MODULE CoordinatorClaims -------------------------
(***************************************************************************)
(* What the repository's documents and comments say of the coordinator and *)
(* its code does not do.  Each claim is quoted with its place and stated   *)
(* as a property; TLC finds a counterexample to each on the instance the   *)
(* README gives for it.                                                    *)
(***************************************************************************)
EXTENDS MCCoordinator

\* COORDINATOR_ARCHITECTURE_GUIDE.md:429 "tasks eventually complete even with
\* worker failures": at least when some worker ends up registered, connected
\* and running for good.
SettledDespiteFailures ==
  (\E w \in Worker : <>[](up[w] /\ Registry!Known(w) /\ stream[w] # NoStream))
    => \A t \in Task : tasks[t].status = "pending"
                          ~> tasks[t].status \in {"completed", "failed"}

\* 001_initial_schema.up.sql:448 "pending->assigned->in_progress->
\* completed/failed": a completed task is never pending again.
CompletedIsNotReopened ==
  [][\A t \in Task : tasks[t].status = "completed"
                       => tasks'[t].status # "pending"]_tasks

\* 001_initial_schema.up.sql:457 "automatic retry logic up to max_retries":
\* fail_task gives a task at most max_retries retries.
RetriedUpToMax ==
  [][\A h \in Handler :
       LET t == handlers[h].task IN
       handlers[h].pc = "write" /\ tasks'[t].retries > tasks[t].retries
         => tasks'[t].retries <= MaxRetries]_<<tasks, handlers>>

\* worker_registry.go:302 "prevent over-assignment": no worker holds more
\* tasks than MaxConcurrentTasks.
NoOverAssignment ==
  \A w \in Worker :
    Cardinality({t \in Task : Store!holder[t] = w}) <= Capacity

\* worker.go:267: the coordinator accepts a completion from 'assigned' (when
\* the StartTask notification was lost).
AssignedCanComplete ==
  [][\A h \in Handler :
       LET t == handlers[h].task IN
       /\ handlers[h].pc = "complete" /\ handlers'[h].pc # "complete"
       /\ tasks[t].status = "assigned"
       => tasks'[t].status = "completed"]_<<tasks, handlers>>

\* worker_registry.go:546 "restores worker state [...] to recover from
\* restarts": a running worker that the database calls active is, in the end,
\* in the registry.
ActiveWorkerIsKnown ==
  \A w \in Worker : up[w] /\ workers[w].status = "active"
                       ~> Registry!Known(w) \/ ~up[w]

\* worker_registry.go:475 "prevents drift between memory and database": the
\* two task counts of a worker agree when nobody is about to change them.
Quiet ==
  /\ \A th \in Thread : threads[th] = IdleThread
  /\ \A h \in Handler : handlers[h] = IdleHandler

CountsAgree ==
  Quiet => \A w \in Worker : Registry!Known(w)
                                => reg[w].current = workers[w].count
=============================================================================
