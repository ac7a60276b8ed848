--------------------------- MODULE GatewayProofs ---------------------------
(***************************************************************************)
(* Proofs, for any number of submissions, contents, queries, lock retries  *)
(* and faults, that an identifier a client is given leads to a row for     *)
(* what was asked, that a repeated request creates no second task within   *)
(* the TTL, and that a query answers a status from its own time.           *)
(*                                                                         *)
(* An answer may come out of the cache, where a concurrent creator wrote   *)
(* it: what makes it right is a relation between all of submissions,       *)
(* cache and rows, which is what has to be inductive.                      *)
(***************************************************************************)
EXTENDS Gateway, TLAPS

Arrived(s) == subs[s].pc # "new"

\* The row of a task is for what its own submission asked.
RowsAreOwn ==
  \A s \in Submission : rows[s] # None =>
    Arrived(s) /\ rows[s].content = subs[s].content

RowFor(t, c) == rows[t] # None /\ rows[t].content = c

\* Whatever is cached, answered, or about to be, is in the database.
NamedTasksExist ==
  /\ \A c \in Content : dedup[c] # None => RowFor(dedup[c], c)
  /\ \A s \in Submission :
       Arrived(s) /\ subs[s].answer \in Task
         => RowFor(subs[s].answer, subs[s].content)
  /\ \A s \in Submission : subs[s].pc = "cache" => RowFor(s, subs[s].content)

\* Without faults a content stays cached once somebody was told a task for it,
\* so the lookup of a late submission succeeds and it never gets to create.
LateFindsEntry ==
  faults = 0 => \A s \in Submission : Arrived(s) =>
    /\ subs[s].answer \in Task \/ subs[s].late => dedup[subs[s].content] # None
    /\ subs[s].late => subs[s].pc \notin {"create", "cache"}
    /\ subs[s].late /\ subs[s].pc = "release" => subs[s].answer # None
    /\ subs[s].late => rows[s] = None

UnderWay(q) == queries[q].pc \notin {"new", "done"}

\* What a query is about to answer, or has answered, was true in its time.
AnswersWitnessed ==
  \A q \in Query :
    /\ UnderWay(q) => StatusOf(queries[q].task) \in queries[q].seen
    /\ queries[q].pc = "store" => queries[q].answer \in queries[q].seen

\* Only a final status is on its way to the cache of results.
StoresSettled ==
  \A q \in Query : queries[q].pc = "store" => queries[q].answer \in Settled

\* The inductive invariant.
GatewayInv ==
  /\ TypeOK
  /\ StoresSettled
  /\ RowsAreOwn
  /\ NamedTasksExist
  /\ LateFindsEntry
  /\ AnswersWitnessed
  /\ FreshStatus

USE GatewayAssumption

LEMMA InitGatewayInv == Init => GatewayInv
  BY DEF Init, GatewayInv, TypeOK, RowsAreOwn, NamedTasksExist, LateFindsEntry,
       AnswersWitnessed, FreshStatus, StoresSettled, Arrived, RowFor, UnderWay,
       StatusOf, NewSubmission, NewQuery, Task, Submission, Row, Status, Settled

\* A record keeps its type because only final statuses reach StoreResult.
LEMMA GatewayTypes == TypeOK /\ StoresSettled /\ [Next]_vars => TypeOK'
<1> SUFFICES ASSUME TypeOK, StoresSettled, [Next]_vars PROVE TypeOK'
  OBVIOUS
<1> USE DEF TypeOK, Fault, GoTo, Answer, At, SubState, QueryState,
     NewSubmission, NewQuery, Row, Status, Settled, Task
<1>1. ASSUME NEW s \in Submission, Submit(s) PROVE TypeOK'
  BY <1>1 DEF Submit
<1>2. ASSUME NEW s \in Submission, AcquireLock(s) PROVE TypeOK'
  BY <1>2 DEF AcquireLock
<1>3. ASSUME NEW s \in Submission, Lookup(s) PROVE TypeOK'
  BY <1>3 DEF Lookup, GetByRequestHash
<1>4. ASSUME NEW s \in Submission, ReleaseLock(s) PROVE TypeOK'
  BY <1>4 DEF ReleaseLock, DeleteLock
<1>5. ASSUME NEW s \in Submission, RetryLookup(s) PROVE TypeOK'
  BY <1>5 DEF RetryLookup, GetByRequestHash
<1>6. ASSUME NEW s \in Submission, CreateTask(s) PROVE TypeOK'
  <2>1. subs[s] \in SubState
    BY <1>6 DEF CreateTask
  <2>2. subs' \in [Submission -> SubState \cup {NewSubmission}]
    BY <1>6, <2>1 DEF CreateTask
  <2>3. CASE Insert(s)
    <3>1. /\ rows' \in [Task -> Row \cup {None}]
          /\ queries' \in [Query -> QueryState \cup {NewQuery}]
      BY <2>1, <2>3 DEF Insert, Witness
    <3> QED BY <1>6, <2>2, <3>1 DEF CreateTask
  <2>4. CASE UNCHANGED <<rows, queries>>
    BY <1>6, <2>2, <2>4 DEF CreateTask
  <2> QED BY <1>6, <2>3, <2>4 DEF CreateTask
<1>7. ASSUME NEW s \in Submission, CacheTaskID(s) PROVE TypeOK'
  <2>1. subs' = [subs EXCEPT ![s].pc = "done", ![s].answer = s]
    BY <1>7 DEF CacheTaskID, SetByRequestHash
  <2>2. s \in Task /\ subs[s] \in SubState
    BY <1>7 DEF CacheTaskID, SetByRequestHash
  <2>3. [subs[s] EXCEPT !.pc = "done", !.answer = s] \in SubState
    BY <2>2
  <2>4. subs' \in [Submission -> SubState \cup {NewSubmission}]
    BY <2>1, <2>3
  <2>5. dedup' \in [Content -> Task \cup {None}]
    BY <1>7, <2>2 DEF CacheTaskID, SetByRequestHash
  <2>6. QED
    BY <1>7, <2>4, <2>5 DEF CacheTaskID, SetByRequestHash
<1>8. ASSUME NEW c \in Content, ExpireLock(c) PROVE TypeOK'
  BY <1>8 DEF ExpireLock
<1>9. ASSUME NEW c \in Content, ExpireDedup(c) PROVE TypeOK'
  BY <1>9 DEF ExpireDedup
<1>10. ASSUME NEW t \in Task, ExpireResult(t) PROVE TypeOK'
  BY <1>10 DEF ExpireResult
<1>11. ASSUME NEW t \in Task, ChangeStatus(t) PROVE TypeOK'
  BY <1>11 DEF ChangeStatus, Witness
<1>12. ASSUME NEW S \in SUBSET Submission, Crash(S) PROVE TypeOK'
  BY <1>12 DEF Crash
<1>13. ASSUME NEW q \in Query, Ask(q) PROVE TypeOK'
  BY <1>13 DEF Ask, StatusOf
<1>14. ASSUME NEW q \in Query, GetCached(q) PROVE TypeOK'
  BY <1>14 DEF GetCached
<1>15. ASSUME NEW q \in Query, Invalidate(q) PROVE TypeOK'
  BY <1>15 DEF Invalidate
<1>16. ASSUME NEW q \in Query, GetTask(q) PROVE TypeOK'
  BY <1>16 DEF GetTask, StatusOf
<1>17. ASSUME NEW q \in Query, StoreResult(q) PROVE TypeOK'
  BY <1>17 DEF StoreResult, StoresSettled
<1>18. CASE UNCHANGED vars
  BY <1>18 DEF vars
<1>19. QED
  BY <1>1, <1>2, <1>3, <1>4, <1>5, <1>6, <1>7, <1>8, <1>9, <1>10, <1>11, <1>12,
       <1>13, <1>14, <1>15, <1>16, <1>17, <1>18 DEF Next, Handle, Look

\* What submissions, cache and rows know of each other.
SubsInv == RowsAreOwn /\ NamedTasksExist /\ LateFindsEntry

LEMMA GatewaySubs == TypeOK /\ SubsInv /\ [Next]_vars => SubsInv'
<1> SUFFICES ASSUME TypeOK, SubsInv, [Next]_vars PROVE SubsInv'
  OBVIOUS
<1> USE DEF SubsInv, RowsAreOwn, NamedTasksExist, LateFindsEntry, RowFor,
     Arrived, TypeOK, Fault, GoTo, Answer, At, SubState, NewSubmission, Row,
     Status, Settled, Task
<1>1. ASSUME NEW s \in Submission, Submit(s) PROVE SubsInv'
  <2>1. RowsAreOwn'
    BY <1>1 DEF Submit, Answered
  <2>2. NamedTasksExist'
    BY <1>1 DEF Submit, Answered
  <2>3. LateFindsEntry'
    BY <1>1 DEF Submit, Answered
  <2>4. QED
    BY <2>1, <2>2, <2>3
<1>2. ASSUME NEW s \in Submission, AcquireLock(s) PROVE SubsInv'
  <2>1. RowsAreOwn'
    BY <1>2 DEF AcquireLock, Answered
  <2>2. NamedTasksExist'
    BY <1>2 DEF AcquireLock, Answered
  <2>3. LateFindsEntry'
    BY <1>2 DEF AcquireLock, Answered
  <2>4. QED
    BY <2>1, <2>2, <2>3
<1>3. ASSUME NEW s \in Submission, Lookup(s) PROVE SubsInv'
  <2>1. RowsAreOwn'
    BY <1>3 DEF Lookup, GetByRequestHash, Answered
  <2>2. NamedTasksExist'
    BY <1>3 DEF Lookup, GetByRequestHash, Answered
  <2>3. LateFindsEntry'
    BY <1>3 DEF Lookup, GetByRequestHash, Answered
  <2>4. QED
    BY <2>1, <2>2, <2>3
<1>4. ASSUME NEW s \in Submission, ReleaseLock(s) PROVE SubsInv'
  <2>1. RowsAreOwn'
    BY <1>4 DEF ReleaseLock, DeleteLock, Answered
  <2>2. NamedTasksExist'
    BY <1>4 DEF ReleaseLock, DeleteLock, Answered
  <2>3. LateFindsEntry'
    BY <1>4 DEF ReleaseLock, DeleteLock, Answered
  <2>4. QED
    BY <2>1, <2>2, <2>3
<1>5. ASSUME NEW s \in Submission, RetryLookup(s) PROVE SubsInv'
  <2>0. /\ dedup' = dedup /\ rows' = rows
        /\ \A r \in Submission : Arrived(r) =>
             Arrived(r)' /\ subs'[r].content = subs[r].content
    BY <1>5 DEF RetryLookup
  <2>1. RowsAreOwn'
    BY <2>0
  <2>2. NamedTasksExist'
    BY <1>5 DEF RetryLookup, GetByRequestHash, Answered
  <2>3. LateFindsEntry'
    BY <1>5 DEF RetryLookup, GetByRequestHash, Answered
  <2>4. QED
    BY <2>1, <2>2, <2>3
<1>6. ASSUME NEW s \in Submission, CreateTask(s) PROVE SubsInv'
  <2>1. RowsAreOwn'
    BY <1>6 DEF CreateTask, Insert, Witness, Answered
  <2>2. NamedTasksExist'
    <3>1. \A t \in Task, c \in Content : RowFor(t, c) => RowFor(t, c)'
      BY <1>6 DEF CreateTask, Insert
    <3>2. subs'[s].pc = "cache" => RowFor(s, subs[s].content)'
      BY <1>6 DEF CreateTask, Insert
    <3>3. /\ dedup' = dedup
          /\ subs'[s].pc \in {"cache", "done"}
          /\ subs'[s].content = subs[s].content
          /\ subs'[s].answer \in {subs[s].answer, Error}
          /\ \A r \in Submission \ {s} : subs'[r] = subs[r]
      BY <1>6 DEF CreateTask
    <3>4. QED
      BY <1>6, <3>1, <3>2, <3>3 DEF CreateTask
  <2>3. LateFindsEntry'
    BY <1>6 DEF CreateTask, Insert, Witness, Answered
  <2>4. QED
    BY <2>1, <2>2, <2>3
<1>7. ASSUME NEW s \in Submission, CacheTaskID(s) PROVE SubsInv'
  <2>1. RowsAreOwn'
    BY <1>7 DEF CacheTaskID, SetByRequestHash, Answered
  <2>2. NamedTasksExist'
    BY <1>7 DEF CacheTaskID, SetByRequestHash, Answered
  <2>3. LateFindsEntry'
    BY <1>7 DEF CacheTaskID, SetByRequestHash, Answered
  <2>4. QED
    BY <2>1, <2>2, <2>3
<1>8. ASSUME NEW c \in Content, ExpireLock(c) PROVE SubsInv'
  BY <1>8 DEF ExpireLock
<1>9. ASSUME NEW c \in Content, ExpireDedup(c) PROVE SubsInv'
  BY <1>9 DEF ExpireDedup
<1>10. ASSUME NEW t \in Task, ExpireResult(t) PROVE SubsInv'
  BY <1>10 DEF ExpireResult
<1>11. ASSUME NEW t \in Task, ChangeStatus(t) PROVE SubsInv'
  <2>1. \A u \in Task : /\ rows'[u] = None <=> rows[u] = None
                        /\ rows[u] # None => rows'[u].content = rows[u].content
    BY <1>11 DEF ChangeStatus
  <2>2. UNCHANGED <<subs, dedup, faults>>
    BY <1>11 DEF ChangeStatus
  <2>3. QED
    BY <2>1, <2>2
<1>12. ASSUME NEW S \in SUBSET Submission, Crash(S) PROVE SubsInv'
  BY <1>12 DEF Crash
<1>13. ASSUME NEW q \in Query, Ask(q) PROVE SubsInv'
  BY <1>13 DEF Ask, StatusOf
<1>14. ASSUME NEW q \in Query, GetCached(q) PROVE SubsInv'
  BY <1>14 DEF GetCached
<1>15. ASSUME NEW q \in Query, Invalidate(q) PROVE SubsInv'
  BY <1>15 DEF Invalidate
<1>16. ASSUME NEW q \in Query, GetTask(q) PROVE SubsInv'
  BY <1>16 DEF GetTask, StatusOf
<1>17. ASSUME NEW q \in Query, StoreResult(q) PROVE SubsInv'
  BY <1>17 DEF StoreResult
<1>18. CASE UNCHANGED vars
  BY <1>18 DEF vars
<1>19. QED
  BY <1>1, <1>2, <1>3, <1>4, <1>5, <1>6, <1>7, <1>8, <1>9, <1>10, <1>11, <1>12,
       <1>13, <1>14, <1>15, <1>16, <1>17, <1>18 DEF Next, Handle, Look

\* What the queries know of the rows.
QueriesInv == StoresSettled /\ AnswersWitnessed /\ FreshStatus

\* A row changes together with what the queries under way have seen of it.
LEMMA WitnessedChange ==
  ASSUME TypeOK, QueriesInv, NEW t \in Task, NEW status \in Status,
         StatusOf(t)' = status, \A u \in Task \ {t} : rows'[u] = rows[u],
         Witness(t, status), faults' \in {faults, faults + 1}
  PROVE  QueriesInv'
<1> USE DEF TypeOK, QueryState, NewQuery, Status, Settled
<1>1. ASSUME NEW q \in Query
      PROVE  /\ queries'[q].pc = queries[q].pc
             /\ UnderWay(q) \/ queries[q].pc = "done" =>
                  /\ queries'[q].task = queries[q].task
                  /\ queries'[q].answer = queries[q].answer
                  /\ queries'[q].seen \in {queries[q].seen, queries[q].seen \cup {status}}
             /\ UnderWay(q) /\ queries[q].task = t => status \in queries'[q].seen
  BY DEF Witness, UnderWay
<1>2. \A u \in Task \ {t} : StatusOf(u)' = StatusOf(u)
  BY DEF StatusOf
<1>3. ASSUME NEW q \in Query
      PROVE  UnderWay(q)' => StatusOf(queries[q].task)' \in queries'[q].seen
  BY <1>1, <1>2, <1>3 DEF UnderWay, QueriesInv, AnswersWitnessed
<1>4. AnswersWitnessed'
  BY <1>1, <1>3 DEF UnderWay, QueriesInv, AnswersWitnessed, StatusOf
<1>5. StoresSettled' /\ FreshStatus'
  BY <1>1 DEF UnderWay, QueriesInv, StoresSettled, FreshStatus
<1>6. QED
  BY <1>4, <1>5 DEF QueriesInv

LEMMA GatewayQueries == TypeOK /\ QueriesInv /\ [Next]_vars => QueriesInv'
<1> SUFFICES ASSUME TypeOK, QueriesInv, [Next]_vars PROVE QueriesInv'
  OBVIOUS
<1> USE DEF QueriesInv, StoresSettled, AnswersWitnessed, FreshStatus, UnderWay,
     StatusOf, TypeOK, Fault, QueryState, NewQuery, Row, Status, Settled
<1>1. ASSUME NEW s \in Submission, Submit(s) PROVE QueriesInv'
  BY <1>1 DEF Submit
<1>2. ASSUME NEW s \in Submission, AcquireLock(s) PROVE QueriesInv'
  BY <1>2 DEF AcquireLock
<1>3. ASSUME NEW s \in Submission, Lookup(s) PROVE QueriesInv'
  BY <1>3 DEF Lookup, GetByRequestHash
<1>4. ASSUME NEW s \in Submission, ReleaseLock(s) PROVE QueriesInv'
  BY <1>4 DEF ReleaseLock, DeleteLock
<1>5. ASSUME NEW s \in Submission, RetryLookup(s) PROVE QueriesInv'
  BY <1>5 DEF RetryLookup, GetByRequestHash
<1>6. ASSUME NEW s \in Submission, CreateTask(s) PROVE QueriesInv'
  <2>1. CASE Insert(s)
    <3>1. subs[s].content \in Content
      BY <1>6 DEF CreateTask, At, SubState, NewSubmission
    <3>2. StatusOf(s)' = "pending"
      BY <2>1, <3>1 DEF Insert, Task
    <3>3. QED
      BY <1>6, <2>1, <3>2, WitnessedChange DEF CreateTask, Insert, Task
  <2>2. CASE UNCHANGED <<rows, queries>> /\ Fault
    BY <2>2
  <2>3. QED
    BY <1>6, <2>1, <2>2 DEF CreateTask
<1>7. ASSUME NEW s \in Submission, CacheTaskID(s) PROVE QueriesInv'
  BY <1>7 DEF CacheTaskID, SetByRequestHash
<1>8. ASSUME NEW c \in Content, ExpireLock(c) PROVE QueriesInv'
  BY <1>8 DEF ExpireLock
<1>9. ASSUME NEW c \in Content, ExpireDedup(c) PROVE QueriesInv'
  BY <1>9 DEF ExpireDedup
<1>10. ASSUME NEW t \in Task, ExpireResult(t) PROVE QueriesInv'
  BY <1>10 DEF ExpireResult
<1>11. ASSUME NEW t \in Task, ChangeStatus(t) PROVE QueriesInv'
  <2>1. PICK status \in Status \ {"absent", rows[t].status} :
          rows' = [rows EXCEPT ![t].status = status] /\ Witness(t, status)
    BY <1>11 DEF ChangeStatus
  <2>2. StatusOf(t)' = status
    BY <1>11, <2>1 DEF ChangeStatus
  <2>3. QED
    BY <1>11, <2>1, <2>2, WitnessedChange DEF ChangeStatus
<1>12. ASSUME NEW S \in SUBSET Submission, Crash(S) PROVE QueriesInv'
  BY <1>12 DEF Crash
<1>13. ASSUME NEW q \in Query, Ask(q) PROVE QueriesInv'
  BY <1>13 DEF Ask, StatusOf
<1>14. ASSUME NEW q \in Query, GetCached(q) PROVE QueriesInv'
  BY <1>14 DEF GetCached
<1>15. ASSUME NEW q \in Query, Invalidate(q) PROVE QueriesInv'
  BY <1>15 DEF Invalidate
<1>16. ASSUME NEW q \in Query, GetTask(q) PROVE QueriesInv'
  BY <1>16 DEF GetTask, StatusOf
<1>17. ASSUME NEW q \in Query, StoreResult(q) PROVE QueriesInv'
  BY <1>17 DEF StoreResult
<1>18. CASE UNCHANGED vars
  BY <1>18 DEF vars
<1>19. QED
  BY <1>1, <1>2, <1>3, <1>4, <1>5, <1>6, <1>7, <1>8, <1>9, <1>10, <1>11, <1>12,
       <1>13, <1>14, <1>15, <1>16, <1>17, <1>18 DEF Next, Handle, Look

LEMMA GatewayInvariant == Spec => []GatewayInv
<1>1. GatewayInv /\ [Next]_vars => GatewayInv'
  BY GatewayTypes, GatewaySubs, GatewayQueries DEF GatewayInv, SubsInv,
       QueriesInv
<1>2. QED
  BY <1>1, InitGatewayInv, PTL DEF Spec

\* Every reachable state of the handlers, Redis and the rows is well typed.
THEOREM GatewayTypeOK == Spec => []TypeOK
<1>1. GatewayInv => TypeOK
  BY DEF GatewayInv
<1>2. QED
  BY <1>1, GatewayInvariant, PTL

\* Whoever is answered with a task finds its row, and what was asked in it,
\* however many gateways fail or crash.
THEOREM GatewayAnswersExist == Spec => []AnsweredTaskExists
<1>1. GatewayInv => AnsweredTaskExists
  BY DEF GatewayInv, TypeOK, NamedTasksExist, RowFor, Arrived, Answered,
       AnsweredTaskExists, At
<1>2. QED
  BY <1>1, GatewayInvariant, PTL

\* Without faults, what was answered once is never created again, although
\* the lock does not cover the creation.
THEOREM GatewayNoLateDuplicate == Spec => []NoDuplicateAfterAnswer
<1>1. GatewayInv => NoDuplicateAfterAnswer
  BY DEF GatewayInv, RowsAreOwn, LateFindsEntry, Arrived, TypeOK, SubState,
       NewSubmission, NoDuplicateAfterAnswer
<1>2. QED
  BY <1>1, GatewayInvariant, PTL

\* A query answers a status of its own time: the cache of results adds no
\* staleness to what the database says.
THEOREM GatewayFreshStatus == Spec => []FreshStatus
<1>1. GatewayInv => FreshStatus
  BY DEF GatewayInv
<1>2. QED
  BY <1>1, GatewayInvariant, PTL
=============================================================================
