------------------------------ MODULE Gateway ------------------------------
(***************************************************************************)
(* The API gateways: submissions and status queries                        *)
(* (internal/api/handlers/proof_handler.go), served by any number of       *)
(* processes that share Redis (internal/common/cache/cache.go) and         *)
(* PostgreSQL.  Each Redis command and each SQL statement is a step of its *)
(* own.  A task has the identifier of the submission that created it, and  *)
(* a request hash is the content it is computed from.                      *)
(*                                                                         *)
(* A fault is an error of Redis or PostgreSQL, an expired deadline or TTL, *)
(* or a crash of gateways; MaxFaults bounds them.  MaxChanges bounds the   *)
(* changes of status the coordinator makes.                                *)
(***************************************************************************)
EXTENDS Naturals

CONSTANTS Submissions,     \* how many POST requests clients send
          Content,         \* what clients ask to be proved
          Query,           \* GET requests that may be served at once
          None,            \* no task, no cached entry, no answer yet
          Error,           \* a 500 or 503 answer
          MaxLockRetries,  \* 3 in the code
          MaxChanges, MaxFaults

Submission == 1..Submissions   \* in the order they arrive
Task == Submission             \* a submission creates at most one task

Settled == {"completed", "failed"}
Status == {"absent", "pending"} \cup Settled
Row == [content : Content, status : Status \ {"absent"}]

ASSUME GatewayAssumption ==
  /\ None \notin Row
  /\ {None, Error} \cap Submission = {} /\ None # Error
  /\ {Submissions, MaxLockRetries, MaxChanges, MaxFaults} \subseteq Nat

VARIABLES
  subs,      \* subs[s]: where the handler of s is and what it answers
  queries,   \* queries[q]: the same of q, and the statuses q could have seen
  lock,      \* contents whose lock key exists in Redis; the key names no owner
  dedup,     \* dedup[c]: the task cached under the request hash
  results,   \* results[t]: the status in the cached result of t
  rows,      \* rows[t]: content and status of t in PostgreSQL
  changes,   \* changes of status so far
  faults     \* faults so far

vars == <<subs, queries, lock, dedup, results, rows, changes, faults>>

NewSubmission == [pc |-> "new"]
NewQuery == [pc |-> "new"]

SubState == [pc : {"acquire", "lookup", "release", "wait", "create", "cache",
                   "done", "crashed"},
             content : Content, tries : 0..MaxLockRetries,
             answer : Task \cup {None, Error}, late : BOOLEAN]
QueryState == [pc : {"cache", "invalidate", "database", "store", "done"},
               task : Task, answer : Status \cup {None}, seen : SUBSET Status]

TypeOK ==
  /\ subs \in [Submission -> SubState \cup {NewSubmission}]
  /\ queries \in [Query -> QueryState \cup {NewQuery}]
  /\ lock \subseteq Content
  /\ dedup \in [Content -> Task \cup {None}]
  /\ results \in [Task -> Settled \cup {None}]
  /\ rows \in [Task -> Row \cup {None}]
  /\ changes \in 0..MaxChanges /\ faults \in 0..MaxFaults

Init ==
  /\ subs = [s \in Submission |-> NewSubmission]
  /\ queries = [q \in Query |-> NewQuery]
  /\ lock = {}
  /\ dedup = [c \in Content |-> None]
  /\ results = [t \in Task |-> None]
  /\ rows = [t \in Task |-> None]
  /\ changes = 0 /\ faults = 0

Fault == faults < MaxFaults /\ faults' = faults + 1

StatusOf(t) == IF rows[t] = None THEN "absent" ELSE rows[t].status

\* Every query of t that is under way has had this status to see.
Witness(t, status) ==
  queries' = [q \in Query |->
                IF queries[q].pc \notin {"new", "done"} /\ queries[q].task = t
                THEN [queries[q] EXCEPT !.seen = @ \cup {status}]
                ELSE queries[q]]

-----------------------------------------------------------------------------
(* CacheLayer: a key of a request is the hash of its content *)

GetByRequestHash(c) == dedup[c]

\* Overwrites.
SetByRequestHash(c, t) == dedup' = [dedup EXCEPT ![c] = t]

\* DEL, whoever holds the lock by now.
DeleteLock(c) == lock' = lock \ {c}

-----------------------------------------------------------------------------
(* SubmitMerkleProofTask *)

At(s, pc) == subs[s].pc = pc
GoTo(s, pc) == subs' = [subs EXCEPT ![s].pc = pc]
Answer(s, a) == subs' = [subs EXCEPT ![s].pc = "done", ![s].answer = a]

Answered(s) == At(s, "done") /\ subs[s].answer \in Task

\* late: the same content was answered with a task before s arrived.
Submit(s) ==
  /\ At(s, "new") /\ \A r \in 1..s-1 : ~At(r, "new")
  /\ \E c \in Content :
       subs' = [subs EXCEPT ![s] =
         [pc |-> "acquire", content |-> c, tries |-> 0, answer |-> None,
          late |-> \E r \in Submission : Answered(r) /\ subs[r].content = c]]
  /\ UNCHANGED <<queries, lock, dedup, results, rows, changes, faults>>

\* SETNX.  On an error the handler answers 503, whether Redis has set the key
\* or not.
AcquireLock(s) ==
  LET c == subs[s].content IN
  /\ At(s, "acquire")
  /\ \/ /\ GoTo(s, IF c \in lock THEN "wait" ELSE "lookup")
        /\ lock' = lock \cup {c}
        /\ UNCHANGED faults
     \/ /\ Fault /\ Answer(s, Error)
        /\ \/ lock' = lock \cup {c}
           \/ UNCHANGED lock
  /\ UNCHANGED <<queries, dedup, results, rows, changes>>

\* GetByRequestHash under the lock.  An error counts as a miss.
Lookup(s) ==
  /\ At(s, "lookup")
  /\ \/ /\ subs' = [subs EXCEPT ![s].pc = "release",
                                ![s].answer = GetByRequestHash(subs[s].content)]
        /\ UNCHANGED faults
     \/ Fault /\ GoTo(s, "release")
  /\ UNCHANGED <<queries, lock, dedup, results, rows, changes>>

\* The deferred ReleaseLock of checkDuplicateTask: before any task is created.
ReleaseLock(s) ==
  /\ At(s, "release")
  /\ GoTo(s, IF subs[s].answer = None THEN "create" ELSE "done")
  /\ \/ DeleteLock(subs[s].content) /\ UNCHANGED faults
     \/ Fault /\ UNCHANGED lock
  /\ UNCHANGED <<queries, dedup, results, rows, changes>>

WaitForever(s) ==   \* mutant: no limit on the attempts
  /\ At(s, "wait")
  /\ LET found == dedup[subs[s].content] IN
     IF found # None THEN Answer(s, found) ELSE UNCHANGED subs
  /\ UNCHANGED <<queries, lock, dedup, results, rows, changes, faults>>

\* The lock is held: look for its holder's task, MaxLockRetries times.  An
\* error of Redis is a miss; an expired context ends the loop.
RetryLookup(s) ==
  /\ At(s, "wait")
  /\ LET found == GetByRequestHash(subs[s].content)
         Miss == subs' = [subs EXCEPT ![s].tries = @ + 1]
     IN \/ /\ subs[s].tries < MaxLockRetries
           /\ IF found # None THEN Answer(s, found) ELSE Miss
           /\ UNCHANGED faults
        \/ subs[s].tries < MaxLockRetries /\ Fault /\ Miss
        \/ subs[s].tries = MaxLockRetries /\ Answer(s, Error) /\ UNCHANGED faults
        \/ Fault /\ Answer(s, Error)
  /\ UNCHANGED <<queries, lock, dedup, results, rows, changes>>

Insert(s) ==
  /\ rows' = [rows EXCEPT ![s] = [content |-> subs[s].content,
                                  status |-> "pending"]]
  /\ Witness(s, "pending")

\* On an error the handler answers 500; the INSERT may have been committed.
CreateTask(s) ==
  /\ At(s, "create")
  /\ \/ Insert(s) /\ GoTo(s, "cache") /\ UNCHANGED faults
     \/ /\ Fault /\ Answer(s, Error)
        /\ Insert(s) \/ UNCHANGED <<rows, queries>>
  /\ UNCHANGED <<lock, dedup, results, changes>>

CacheByRequestID(s) ==   \* mutant: the key includes the request id
  /\ At(s, "cache")
  /\ Answer(s, s)
  /\ UNCHANGED <<queries, lock, dedup, results, rows, changes, faults>>

CacheOneForAll(s) ==   \* mutant: the key leaves the content out
  /\ At(s, "cache")
  /\ Answer(s, s)
  /\ dedup' = [c \in Content |-> s]
  /\ UNCHANGED <<queries, lock, results, rows, changes, faults>>

\* An error of SetByRequestHash is only logged.
CacheTaskID(s) ==
  /\ At(s, "cache")
  /\ Answer(s, s)
  /\ \/ SetByRequestHash(subs[s].content, s) /\ UNCHANGED faults
     \/ Fault /\ UNCHANGED dedup
  /\ UNCHANGED <<queries, lock, results, rows, changes>>

-----------------------------------------------------------------------------
(* Redis keys expire, gateways crash *)

\* The lock's TTL equals the deadline of a request, so an expiry is a fault
\* unless the process that would release the lock is gone.
ExpireLock(c) ==
  /\ c \in lock
  /\ lock' = lock \ {c}
  /\ IF \E s \in Submission : subs[s].pc \in {"lookup", "release"}
                                 /\ subs[s].content = c
     THEN Fault ELSE UNCHANGED faults
  /\ UNCHANGED <<subs, queries, dedup, results, rows, changes>>

\* RequestDedupCacheTTL: five minutes.
ExpireDedup(c) ==
  /\ dedup[c] # None
  /\ Fault
  /\ dedup' = [dedup EXCEPT ![c] = None]
  /\ UNCHANGED <<subs, queries, lock, results, rows, changes>>

ExpireResult(t) ==
  /\ results[t] # None
  /\ results' = [results EXCEPT ![t] = None]
  /\ UNCHANGED <<subs, queries, lock, dedup, rows, changes, faults>>

\* What a gateway was serving is lost with it.
Crash(S) ==
  /\ S # {} /\ \A s \in S : subs[s].pc \notin {"new", "done", "crashed"}
  /\ Fault
  /\ subs' = [s \in Submission |->
                IF s \in S THEN [subs[s] EXCEPT !.pc = "crashed"] ELSE subs[s]]
  /\ UNCHANGED <<queries, lock, dedup, results, rows, changes>>

-----------------------------------------------------------------------------
(* GetTaskStatus *)

\* The identifier may be of a task that does not exist (yet).
Ask(q) ==
  /\ queries[q].pc \in {"new", "done"}
  /\ \E t \in Task :
       queries' = [queries EXCEPT ![q] = [pc |-> "cache", task |-> t,
                                          answer |-> None,
                                          seen |-> {StatusOf(t)}]]
  /\ UNCHANGED <<subs, lock, dedup, results, rows, changes, faults>>

ServeCached(q) ==   \* mutant: the type assertion succeeds
  LET t == queries[q].task IN
  /\ queries[q].pc = "cache"
  /\ queries' = [queries EXCEPT ![q] =
                   IF results[t] = None THEN [@ EXCEPT !.pc = "database"]
                   ELSE [@ EXCEPT !.pc = "done", !.answer = results[t]]]
  /\ UNCHANGED <<subs, lock, dedup, results, rows, changes, faults>>

\* A cached entry comes back from JSON as a map, never as a
\* TaskStatusResponse: what is found is taken for corrupt.  An error is a miss.
GetCached(q) ==
  /\ queries[q].pc = "cache"
  /\ \E pc \in {"invalidate", "database"} :
       /\ queries' = [queries EXCEPT ![q].pc = pc]
       /\ IF (pc = "invalidate") <=> (results[queries[q].task] # None)
          THEN UNCHANGED faults ELSE pc = "database" /\ Fault
  /\ UNCHANGED <<subs, lock, dedup, results, rows, changes>>

Invalidate(q) ==
  /\ queries[q].pc = "invalidate"
  /\ queries' = [queries EXCEPT ![q].pc = "database"]
  /\ \/ results' = [results EXCEPT ![queries[q].task] = None] /\ UNCHANGED faults
     \/ Fault /\ UNCHANGED results
  /\ UNCHANGED <<subs, lock, dedup, rows, changes>>

\* Any error of the database is answered 404.
GetTask(q) ==
  LET status == StatusOf(queries[q].task) IN
  /\ queries[q].pc = "database"
  /\ \/ /\ queries' = [queries EXCEPT
              ![q].answer = status,
              ![q].pc = IF status \in Settled THEN "store" ELSE "done"]
        /\ UNCHANGED faults
     \/ /\ Fault
        /\ queries' = [queries EXCEPT ![q].answer = "absent", ![q].pc = "done"]
  /\ UNCHANGED <<subs, lock, dedup, results, rows, changes>>

\* SetTaskResult, then the answer.
StoreResult(q) ==
  LET t == queries[q].task IN
  /\ queries[q].pc = "store"
  /\ queries' = [queries EXCEPT ![q].pc = "done"]
  /\ \/ results' = [results EXCEPT ![t] = queries[q].answer] /\ UNCHANGED faults
     \/ Fault /\ UNCHANGED results
  /\ UNCHANGED <<subs, lock, dedup, rows, changes>>

\* The coordinator settles a task, or fail_task sets a settled one back.
ChangeStatus(t) ==
  /\ rows[t] # None /\ changes < MaxChanges
  /\ \E status \in Status \ {"absent", rows[t].status} :
       /\ rows' = [rows EXCEPT ![t].status = status]
       /\ Witness(t, status)
  /\ changes' = changes + 1
  /\ UNCHANGED <<subs, lock, dedup, results, faults>>

-----------------------------------------------------------------------------
Handle(s) ==
  \/ AcquireLock(s) \/ Lookup(s) \/ ReleaseLock(s) \/ RetryLookup(s)
  \/ CreateTask(s) \/ CacheTaskID(s)

Look(q) == GetCached(q) \/ Invalidate(q) \/ GetTask(q) \/ StoreResult(q)

Next ==
  \/ \E s \in Submission : Submit(s) \/ Handle(s)
  \/ \E q \in Query : Ask(q) \/ Look(q)
  \/ \E c \in Content : ExpireLock(c) \/ ExpireDedup(c)
  \/ \E t \in Task : ExpireResult(t) \/ ChangeStatus(t)
  \/ \E S \in SUBSET Submission : Crash(S)

Spec == Init /\ [][Next]_vars

\* Handlers run, and each of their calls returns.
Fairness ==
  /\ \A s \in Submission : WF_vars(Handle(s))
  /\ \A q \in Query : WF_vars(Look(q))

FairSpec == Spec /\ Fairness

-----------------------------------------------------------------------------
(* Properties *)

\* Who is answered with a task can poll it: the row exists and is for what
\* was asked, also when the identifier came from the cache, an INSERT failed
\* half-way, or a gateway crashed (proof_handler.go:120-160).
AnsweredTaskExists ==
  \A s \in Submission : Answered(s) =>
    /\ rows[subs[s].answer] # None
    /\ rows[subs[s].answer].content = subs[s].content

\* Idempotency as far as it goes: within the TTL and without errors, a client
\* that repeats a request after somebody got a task for it creates no second
\* one, although concurrent creators overwrite each other's cache entry.
NoDuplicateAfterAnswer ==
  faults = 0 =>
    \A s \in Submission : rows[s] # None => ~subs[s].late

\* A query answers a status that the task had while the query was served:
\* the cache never serves a result the database has moved on from.  A failing
\* database looks like a task that does not exist.
FreshStatus ==
  \A q \in Query : queries[q].pc = "done" =>
    \/ queries[q].answer \in queries[q].seen
    \/ queries[q].answer = "absent" /\ faults > 0

\* No handler waits for ever, even for a lock whose holder has crashed.
EverySubmissionAnswered ==
  \A s \in Submission : At(s, "acquire") ~> subs[s].pc \in {"done", "crashed"}

\* cache.go:335, "Distributed Lock (for preventing duplicate task
\* submissions)": one task per content.  The code releases the lock before it
\* creates the task, so concurrent requests get past it one after the other.
OneTaskPerContent ==
  \A s, r \in Submission :
    rows[s] # None /\ rows[r] # None /\ s # r => rows[s].content # rows[r].content
=============================================================================
