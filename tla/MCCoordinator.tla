--------------------------- MODULE MCCoordinator ---------------------------
(* Coordinator on small instances.  retry_count and current_task_count     *)
(* have no upper limit in the code; the guards below cap them.             *)
EXTENDS Coordinator, TLC

CONSTANTS RetryBound,   \* no step takes a retry_count above it
          CountBound    \* no step takes a current_task_count above it

Bounded ==
  /\ \A t \in Task : tasks[t].retries <= RetryBound
  /\ \A w \in Worker : workers[w].count <= CountBound

\* For the invariants only: tasks and jobs are ordered, the rest is not.
Symmetric ==
  Permutations(Worker) \cup Permutations(Thread) \cup Permutations(Handler)

\* An ACTION_CONSTRAINT: every step is guarded by it.
BoundedStep == Bounded'

\* For liveness, the only limit on steps, as an ACTION_CONSTRAINT too: the
\* leak of current_task_count is capped by letting a send wait for the stream
\* instead of failing when its worker's count has reached CountBound.
LeakBounded ==
  \A th \in Thread : threads[th].pc = "send" /\ threads'[th].pc = "revert"
                        => workers[CurrentWorker(th)].count < CountBound
=============================================================================
