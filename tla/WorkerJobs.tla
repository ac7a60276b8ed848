----------------------------- MODULE WorkerJobs -----------------------------
(***************************************************************************)
(* What becomes of the tasks a worker receives, the contract between the   *)
(* coarse worker of Coordinator and the detailed one of WorkerNode: a task *)
(* is computed only after it got to the pool, reported only when it was    *)
(* refused or computed, and, as long as nothing fails, forgotten only when *)
(* it has been reported or every attempt to report it was made.            *)
(***************************************************************************)
CONSTANT Job       \* the tasks received, or the places for them

VARIABLES stage,   \* stage[j]: how far the worker is with j
          intact   \* nothing has made the worker forget a task yet

Stage == {"none", "received", "running", "finished"}

Init ==
  /\ stage = [j \in Job |-> "none"]
  /\ intact = TRUE

Becomes(j, from, to) ==
  /\ stage[j] = from
  /\ stage' = [stage EXCEPT ![j] = to]

Receive(j) == Becomes(j, "none", "received")

Submit(j) == Becomes(j, "received", "running")

\* The input does not parse, or the pool does not take it.
Refuse(j) == Becomes(j, "received", "finished")

\* The pool has a result, or could not be given the task.
Finish(j) == Becomes(j, "running", "finished")

\* The report was answered, or no attempt is left.
Settle(j) == Becomes(j, "finished", "none")

\* The process ends, or stops waiting.
Forget(jobs) ==
  stage' = [j \in Job |-> IF j \in jobs THEN "none" ELSE stage[j]]

Advance(j) == Receive(j) \/ Submit(j) \/ Refuse(j) \/ Finish(j) \/ Settle(j)

\* Trouble may come with any step, and is for good.
Next ==
  /\ intact' => intact
  /\ \/ UNCHANGED stage
     \/ \E j \in Job : Advance(j)
     \/ ~intact' /\ \E jobs \in SUBSET Job : Forget(jobs)

Spec == Init /\ [][Next]_<<stage, intact>>
=============================================================================
