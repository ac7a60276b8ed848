----------------------------- MODULE TaskLease -----------------------------
(***************************************************************************)
(* What the task store promises its clients, independently of statuses,    *)
(* stored procedures and retries: every task is leased to at most one      *)
(* worker, a lease is granted only on a task nobody holds, and it passes   *)
(* to another worker only after it has been given up.                      *)
(***************************************************************************)
CONSTANTS Task,      \* task identifiers (tasks.id)
          Worker,    \* worker identifiers (workers.id)
          NoWorker   \* SQL NULL in tasks.worker_id

VARIABLE holder      \* holder[t]: the worker t is leased to, or NoWorker

Init == holder = [t \in Task |-> NoWorker]

Acquire(t, w) ==
  /\ holder[t] = NoWorker
  /\ holder' = [holder EXCEPT ![t] = w]

Release(t) ==
  /\ holder[t] # NoWorker
  /\ holder' = [holder EXCEPT ![t] = NoWorker]

Next == \E t \in Task : Release(t) \/ \E w \in Worker : Acquire(t, w)

Spec == Init /\ [][Next]_holder
=============================================================================
