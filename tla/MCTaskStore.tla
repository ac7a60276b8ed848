---------------------------- MODULE MCTaskStore ----------------------------
(* TaskStore on a small instance.  retry_count and current_task_count have *)
(* no upper limit in the code (resets and unassignments leak), so the      *)
(* guards below cap them.                                                  *)
EXTENDS TaskStore, TLC

CONSTANTS RetryBound,   \* no step takes a retry_count above it
          CountBound    \* no step takes a current_task_count above it

Bounded ==
  /\ \A t \in Task : tasks[t].retries <= RetryBound
  /\ \A w \in Worker : workers[w].count <= CountBound

\* Tasks, workers and sessions are interchangeable in every property checked.
Symmetric ==
  Permutations(Task) \cup Permutations(Worker) \cup Permutations(Session)

\* An ACTION_CONSTRAINT: every step is guarded by it.
BoundedStep == Bounded'
=============================================================================
