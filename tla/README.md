# A TLA+ model of the distributed ZKP network

Clients submit Merkle-proof tasks to API gateways; a coordinator (the Raft
leader of several) hands the tasks to workers over gRPC streams; workers compute
the proofs and report them; PostgreSQL holds the tasks, Redis a cache, a lock
and a channel of events. This directory models the parts that carry the
system's own logic, checks them with TLC on small instances, and proves with
TLAPS, for every instance, the safety of each of them.

Paths below are relative to `src/`.

## The system: parts, state, interaction

| Part | State it keeps | Operations | What is hard |
|---|---|---|---|
| task store, `internal/storage/postgres` | tables `tasks`, `workers`, `task_assignments` | create, assign, start, unassign, complete, fail, reset a task; create, mark dead a worker | `fail_task` reads, decides and writes without a lock; reports are matched by task and not by attempt |
| worker registry, `internal/coordinator/registry` | a map of workers with status and task count, in memory | register, heartbeat, increment, decrement, suspect, remove | two copies of the task count; lost at a restart |
| scheduler, `internal/coordinator/scheduler` | nothing: each cycle works from a snapshot | `scheduleOneCycle` in two goroutines, `HandleStaleTasks` | stale snapshots; an assignment is four calls, each of which can fail |
| gRPC service, `internal/coordinator/service` | `taskStreams`, one channel per stream, `completedTasks` | register, heartbeat, start, report, receive tasks, push, keepalive, shutdown | sends outside the lock; overlapping streams; closing channels; retried and late reports |
| worker, `internal/worker` | its channels, the pool's queue and results | receive, start, submit, prove, report, stop | back pressure; a shutdown that races with everything |
| API gateway, `internal/api`, `internal/common/cache` | Redis: request hashes, locks, results | submit, query | a lock without owner; cached results that outlive their rows; half-failed steps |
| event bus, `internal/common/events` | subscriptions, a channel and a receiving goroutine each | publish, subscribe, receive, close | lost, dropped and delayed events; a receiver nothing wakes; channels closed twice |
| Raft, `internal/coordinator/raft`, `cmd/coordinator` | leadership | `IsLeader` before a cycle, a registration, a stream | two nodes that lead, deposed leaders in mid-cycle, sweeps on every node, registries and streams that are not replicated |
| prover, `internal/zkp` | compiled circuits with their keys, a mutex | build the tree and the path, get or compile the circuit, prove | odd numbers of nodes; leaves that are no field elements; double-checked locking |

Gateways and coordinator meet in the tables only (an event merely wakes a
cycle). Scheduler, registry and service share memory under locks, and call the
store. Coordinator and workers exchange RPCs, each of which may be lost or
served late, and one stream per worker in which a buffered task may be lost.

## Modules

| Module | What it is |
|---|---|
| `TaskLease` | abstract: a task is leased to at most one worker at a time, and returns before it is leased again |
| `WorkerJobs` | abstract: what becomes of a task a worker received; it is reported only when refused or computed, and forgotten before that only when something failed (a fault in `Coordinator`; a shutdown or a panic in `WorkerNode`) |
| `TaskStore` | the tables and every SQL statement the running system issues; `fail_task` is two steps. Implements `TaskLease` |
| `WorkerRegistry` | the registry's map and its methods |
| `Coordinator` | the leader at work: composes `TaskStore` and `WorkerRegistry` with the scheduler goroutines, the sweep, the report handlers and the workers at the other end. Implements `TaskStore` (so `TaskLease`) and `WorkerJobs` |
| `CoordinatorClaims` | what comments and documents say of it that the code does not do |
| `TaskStreams` | `ReceiveTasks`, the map of channels, pushes, keepalives, `Shutdown`: the detail behind `stream` in `Coordinator` |
| `WorkerNode` | the goroutines and channels of a worker and its shutdown: the detail behind `jobs` in `Coordinator`. Implements `WorkerJobs` too |
| `Gateway` | submissions with deduplication, and status queries |
| `Cluster` | several coordinators over one store: who may schedule, register and serve a stream as leadership moves, and the sweep that asks nobody. Implements `TaskLease` |
| `LossyEvents` | abstract: events come to a subscriber in order and at most once |
| `EventBus` | from the gateway's `Publish` over Redis and `receiveLoop` to the scheduler's two loops, and the shutdown that closes the bus. Implements `LossyEvents` |
| `MerkleTree` | the tree, the path and the circuit as functions, with reference definitions: the levels that `NewMerkleTree` builds against each node from the leaves below it (`ReferenceNode`), and what the circuit makes of a path (`Folded`) |
| `Prover` | the pool's goroutines at their tasks, over `MerkleTree`, and the cache of compiled circuits they share: the detail behind `ProcessTask` in `WorkerNode` |
| `MC*` | bounds and symmetry for TLC |
| `TaskStoreProofs`, `CoordinatorProofs`, `TaskStreamsProofs`, `WorkerNodeProofs`, `GatewayProofs`, `ClusterProofs`, `EventBusProofs`, `ProverProofs` | theorems about the module each is named after |

The correspondence of every definition with lines of the source is in
`PROJECT.json` under "map". In general a call to the database, to Redis or
across a channel, and a critical section, is one action; what a goroutine does
between two of them happens with the later one. Payloads, identifiers, times and
messages are left out: a deadline is a step that may happen, a task is a rank or
a model value.

Some choices worth knowing:

* `Coordinator` orders tasks by rank, which is `ORDER BY created_at`. The
  registry's map is iterated in any order (`SetToSeqs`).
* A *fault* in `Coordinator`, `Cluster`, `EventBus` and `Gateway` is anything a good day does not have:
  a lost or late message, a crash, an error of a store, an expired deadline. It
  spends a budget, `MaxFaults`, so that properties can be stated for good days
  (`MaxFaults = 0`, or `faults = 0`) and for bad ones.
* In `WorkerNode` a task is in one *place* (a goroutine or a channel); a channel
  is the set of tasks in it, bounded by the channel's capacity, and the two
  channels before the pool are FIFO because the rank is the order of arrival.
* `Cluster` keeps of a row its status and its worker and of a delivery which
  hand a task is in, and of a registry entry its task count (`current`), which a
  worker that comes back finds as it left it; the count in the tables, failed
  proofs and late messages are in `Coordinator`. A worker is configured with one coordinator's address
  (`docker-compose-cluster.yml`), so it is named after that node, and it can
  register only while that node leads.
* In `EventBus` a task is its number in the order of creation and an event its
  number in the order of publication. A cycle sees the `BatchSize` oldest of the
  pending tasks (`Batch`, adding to `seen`) and may leave each of them pending; a
  task that was assigned may be pending again (`TaskReturns`), by a reset or a
  retry.
* In `Coordinator` a `StartTask` whose caller has died or given up waiting is
  `late`: it may be served at any time, or never.
* In `MerkleTree` a byte string is a leaf with a size class (a field element,
  32 bytes not below the modulus, longer than 32 bytes, not hexadecimal) or a hash
  of what it hashes. `MiMC` is free: hashes are equal only if their elements are.
* In `TaskStreams`, `WorkerNode`, `EventBus` and `Prover` panics are modelled: a send on a closed
  channel, a close of a closed one, a leaf too long for `FillBytes`. Goroutines
  that recover lose what they held, the others take the process with them
  (`crashed`; in `WorkerNode` also `panicked`, when a pool goroutine meets a task
  of `Fatal` and every task of the worker is lost).

## Runs

| Run | Instance | Shows |
|---|---|---|
| `store` | 2 tasks, 2 workers, 2 sessions in `fail_task`, 1 retry | rows valid, audit trail complete, failed only when retries are used up, `TaskLease` implemented |
| `good_day` | 2 tasks, 2 workers, 2 scheduler goroutines, no fault | no task is computed twice, no completion refused, no false acknowledgement; the registry loses no capacity |
| `live` | 2 tasks, 1 worker, 2 goroutines, no fault | every pending task is settled in the end |
| `recovery` | 1 task, 2 workers, 2 handlers, reports sent twice, 1 fault | no attempt stays in progress for ever; the coordinator stays within the store's statements (refinement of `TaskStore`); its workers keep to `WorkerJobs` |
| `streams` | 1 worker with 2 calls, 2 pushes, channel of 1 | a mapped channel is open; a failed push is never delivered; nothing is stuck |
| `worker_node` | 4 tasks, the third of them fatal, 1 goroutine (channels of 2), `taskChan` of 1 | before a shutdown nothing is lost except by the panic of the fatal task, loops end with the shutdown, the pool drains; `WorkerJobs` implemented |
| `gateway` | 2 submissions, 2 contents, 1 poller, 2 faults, 2 status changes | answered tasks exist, a repeated request gets its task, answers are fresh, all are answered |
| `cluster` | 3 coordinators, 2 of them with a worker of capacity 1, 1 task, 2 faults | a task in two hands was taken from one by a sweep; after a failover pending tasks get to a worker; attempts end although nobody leads; `TaskLease` implemented |
| `event_bus` | 2 tasks, 2 subscriptions, channel of 1, a batch of 1, 1 fault | events in order and at most once (refinement of `LossyEvents`); events alone suffice on a good day, polling alone on any, unless a full batch of older tasks stays pending; goroutines end after the shutdown; panics only after `Close` |
| `prover` | 2 tasks, 2 goroutines, up to 6 leaves, every index, a leaf of any size class among up to 2 | one key pair per depth; roots as the reference defines them; which tasks can never be proved; every task ends |
| `find_*` | the smallest that show it | see *Disagreements* |

Bounds. `RetryBound` and `CountBound` cap `retry_count` and
`current_task_count`, which nothing limits in the code (unassigned tasks leak
into the count); they are guards on steps (`BoundedStep`). In the liveness
instances one guard is left: `LeakBounded` lets a send to a missing stream wait
once the leak has reached the bound. Two of each actor is where the races of
this code are: two goroutines on one snapshot, two sessions in `fail_task`, two
handlers of one report, an old and a new stream of one worker. Queues are as short
as will let them be both full and empty; four tasks fill the worker's queue with
one more waiting to be submitted. In `Coordinator` a worker slot `Job` is a
delivery a worker is busy with; two let a task be in two hands. In `Cluster` the
third node has no worker and may still lead, sweep and restart; two faults let a
lost stream or a crash meet a second one, or a sweep that is too early. A second
subscription in `EventBus` is there for the loop that a panic starts. A batch of 1
lets one task that stays pending keep the next one out, as the ten oldest do in
the code. A capacity of 1 lets one lost task fill a registry entry in `Cluster`;
`PendingIsTaken` also holds there with 2 tasks on one worker of capacity 1 or 2
and 1 fault. Five leaves are the fewest with an unpaired node above the leaves,
over an unpaired leaf; six have one over a full pair; the depths are 0 to 3, so two
tasks may or may not share a circuit.

Fairness. Goroutines run (`WF` on each loop's next step), every RPC and database
call returns or times out (the code gives each a deadline), tickers tick, proofs
end, workers are (re)started and reconnect with backoff. It is weak fairness
except for what waits among others: a mutex that is free again and again is handed
to each who waits (`Lock`), and of two ready cases of a `select` each is taken
sometime (`EndLoop`, `EndPolling`). In `Cluster` nothing obliges a node to lead;
`PendingIsTaken` assumes that one does in the end, that its worker starts after
the last fault, and that the registry does not count it as full for ever (below). A call that a follower keeps
without serving ends by the age limit of connections
(`GRPCKeepaliveMaxConnectionAge`), which is fair for parked calls and counts as a
fault for open streams, where it may lose tasks. Nothing obliges a client to submit, a fault to happen, a shutdown
to begin or its time limit to run out. In `Coordinator`
and `Cluster` fairness is on the steps that are not faults.

Two liveness properties carry an exception because the code has a limit there.

* `PendingIsTaken` (`Cluster`) assumes that the worker is not counted full for
  ever. A worker that registers again before its entry is removed keeps
  `CurrentTaskCount` (`worker_registry.go:144`), and nothing gives back the slots of
  the tasks it crashed with (`HandleStaleTasks` only marks it suspect), nor that of a
  task a sweep took from it when its report is then refused. When all its slots are
  taken that way it is not scheduled again until its entry is removed or the
  coordinator restarts. Without the assumption TLC finds that behaviour.
  `SlotsComeBack` says that on good days no slot is lost.
* `EveryTaskScheduled` (`EventBus`) excepts a task with a whole batch of older ones
  that stay pending: a cycle reads the ten oldest pending tasks
  (`task_scheduler.go:204`), so later ones are not looked at while those are neither
  assigned nor removed.

Deadlock is not checked (`CHECK_DEADLOCK FALSE`) except for the store: a system
whose clients have been served, whose worker has exited or whose coordinator has
stopped has nothing left to do.

## Proofs

`TaskStoreProofs` proves, for any sets of tasks, workers and sessions and any
`MaxRetries`, from `StoreAssumption` alone: type correctness, `RowsValid`,
`HeldTaskHasOpenRow`, `FailedOnlyWhenExhausted`, and that the store implements
`TaskLease`. The argument is about the gap in `fail_task`: what a session has
read (`failing[s]`) may be false by the time it writes, but a read row stays
assigned to a worker or has passed through *pending*, and a retry count never
decreases; the invariant relates every pending write to the row as it is now.

`CoordinatorProofs` carries that over to the running system, for any number of
tasks, workers, scheduler goroutines, deliveries and handlers, from
`CoordinatorAssumption` (the bounds are natural numbers, batches, channels and
capacities are not empty, a report is sent at least once, workers, goroutines and
handlers are finitely many). Its inductive invariant `CoordinatorInv` is `TypeOK`, the fact that a
goroutine between `assign` and `release` has a task and a worker at hand
(`CyclesHaveWork`), and the store's invariant. Every step of the coordinator is
one statement of the store or leaves the tables alone
(`CoordinatorImplementsStore`), a `StartTask` that is served long after its worker
died included, so `RowsValid`, `HeldTaskHasOpenRow` and
`FailedOnlyWhenExhausted` hold by the store's theorems and are not proved twice; `CoordinatorImplementsLease` composes the two
refinements in the same way.

`CoordinatorImplementsJobs` and `WorkerImplementsJobs` are the two sides of one
contract. The coordinator knows a worker as `jobs`, a record per delivery;
`WorkerNode` has the goroutines. Both are proved to implement `WorkerJobs`, so
`Coordinator` grants its worker no order of steps that the contract forbids and
`WorkerNode` has none either. On the coordinator's side the invariant is
`EarlyUnreported`: nothing is sent or served about a job that is not computed
yet, so an answer, however late, ends only a finished job.

The good days of `Coordinator` are one inductive invariant, `GoodDay`, which holds
until the first fault, whatever `MaxFaults` is (`good_day` runs with 0). Its core is `OneHand`: a task
is with one goroutine between assignment and push, in one channel, or in one
delivery, and never in two. Around it, `RowsFit` and `JobsFit` say what the row is
meanwhile, for every program counter; `Attended`, that a task in progress is in
somebody's hands, so that no sweep finds one; `ReportFits` and `SentIsServed`,
that a delivery has at most one report under way, which says what became of it;
`FailingFits`, that what `fail_task` read is still so; `Counted`, that
`current_task_count` covers the slots that are taken, so the decrements in the
statements find something to decrement. `ExclusiveExecution`,
`CompletionNeverRefused` and `AckedIsRecorded` follow
(`ExclusiveExecutionUntilAFault` and so on). `SlotsComeBackUntilAFault` rests on
`GoodDay` too: its invariant (`RegistryFits`) gives every slot an entry counts as
taken a *claim* (`Claims`), a task that was counted and is held, a goroutine about
to take a failed send off, or a handler about to take a settled task off; a step
hands a claim on, or gives it back together with the slot (`CountMoves`).

`TaskStreamsProofs` proves type correctness, `MappedIsOpen` and
`FailedIsNotDelivered`. The first needs to know who closes: a call that is not in
the map yet has an open channel (`UnregisteredIsOpen`), and a mapped call is one
that serves its loop (`MappedIsServing`). The second needs that only what a push
has put into a buffer is ever delivered (`OnlyQueuedArrives`).

`GatewayProofs` proves type correctness, `AnsweredTaskExists`,
`NoDuplicateAfterAnswer` and `FreshStatus`. An answer may come from the cache,
where a concurrent creator wrote it, so submissions, cache and rows are related:
rows are of their own submission (`RowsAreOwn`), whatever is cached or about to be
answered has its row (`NamedTasksExist`), and without faults an answered content
stays cached (`LateFindsEntry`). For status queries the invariant keeps the set of
statuses a query may have seen (`AnswersWitnessed`).

`WorkerNodeProofs` proves type correctness, which includes that no channel holds
more than its capacity, `DroppedOnlyOnStopOrPanic` and `SubmittedIsComputed`. Channels
are sets of tasks with one place, so most of it is counting: who moves a task
takes it from one set and adds it to one other (`Moved`, `MovedCardinality`). The
pool has stopped when all its goroutines have left, and they leave only when
nothing is queued (`PoolInv`). `WorkerImplementsJobs` maps a task's place to a stage of
`WorkerJobs`: no loop takes a task past a stage, and one is forgotten only when the
worker's context is cancelled or the process has panicked. A panic takes
every task, and the fatal one is among those it takes.

`ClusterProofs` proves type correctness and `ExclusiveExecution` for any number
of nodes, workers, tasks and faults, whoever takes itself for the leader. The
invariant (`HandsInv`) says that a task no sweep has touched is in at most one hand
(`InOneHand`), a goroutine about to send it counting as one, that the hand is the
one of the row, and that there is none as long as the row is pending. That is why
it is the guard of `assign_task_to_worker` and not the leadership that keeps tasks
from being computed twice. With the holder of a row as the lease, each step, of
any number of leaders and sweeps, gives or takes at most one task as `TaskLease`
allows (`ClusterImplementsLease`).

`EventBusProofs` proves type correctness, `CrashOnlyOnClose` and that the bus
implements `LossyEvents`: what is on its way to a subscriber, from the connection
through the receiver's hand to the channel, is ascending and newer than what it has
taken (`OnTheWay`), and until `Close` only its own receiver closes a channel
(`OpenUntilClose`).

`ProverProofs` proves type correctness, mutual exclusion included, and
`OneKeyPairPerCircuit`: an entry of the cache is written only under the mutex and
only where there was none, so it never changes, and whoever proves has the key
pair the cache has by then.

It also proves what the tree computes, for every number of leaves, every index
and every choice of leaves: a task that is proved has the reference's root
(`ProverRootIsReference`), and the tasks that are proved are those with neither an
unpaired ancestor above the leaves nor, at the leaf or beside it, something that is
no field element (`ProverUnsatisfiedExactly`).
These need induction over the levels. The library's induction theorems take the
property as an operator, which the provers cannot instantiate; the induction here
is over *sets* (`LeastNumber`, `SetInduction`): every nonempty set of natural
numbers has a least element, by `NatLessThanWellFounded` and `WFMin`, so the set of
levels where a claim fails is empty. From that follow that the recursive functions
exist (`RecursionExists`); that level *l* has *w* nodes with
(*w* - 1) 2^*l* < *n* <= *w* 2^*l* (`LevelSize`); that each node is the reference's
(`NodeIsReference`) and where in the tree it is (`NodeInTree`); and that the hash
folded along a path is the tree's node up to the first level where the
neighbour is taken from the wrong place, and never comes back to it, because
`MiMC` is free (`FirstAboveIsNew`, `OnTrackFirst`).

Every safety property a run checks is thereby a theorem, and so is every
module's type invariant; of the type invariants only the store's is also run.
Liveness stays with TLC: fairness needs `ENABLED`, which is out of the
provers' reach.

## Disagreements between the code and what is said of it

Found with a run of their own:

* `find_reopened`: a failure report of an earlier attempt, served after another
  attempt completed the task, sends the *completed* task back to pending, against
  the comment on `valid_status_transitions`. It takes a sweep that resets an attempt
  too early, which costs a retry, and one retry more (`MaxRetries` = 2 in the run);
  with none left the completed task becomes failed.
* `find_stuck_task`: a task in the channel of a stream that closes stays
  *assigned* for ever; the sweep looks at *in_progress* only.

Stated as properties and refuted by TLC on the instance given, without a run of
their own (`CoordinatorClaims` and the ends of the other modules):

| Property | Instance | Against |
|---|---|---|
| `NoOverAssignment` | 2 tasks, 1 worker, `BatchSize` 2, no fault | `worker_registry.go:302` |
| `CountsAgree` | 1 task, `BatchSize` 2, no fault | `worker_registry.go:475` |
| `RetriedUpToMax` | 1 task, 2 handlers, `MaxSends` 2, 1 fault | `001_initial_schema.up.sql:457` |
| `AssignedCanComplete` | 1 task, 1 fault | `worker.go:267` |
| `AckedIsRecorded` | 1 task, 2 workers, 2 faults | `grpc_service.go:333` |
| `ActiveWorkerIsKnown` | 1 worker, 1 fault, `FairSpec` | `worker_registry.go:546` |
| `PendingResultsReported` | 1 task | `cmd/worker/main.go:228` |
| `ShutdownIsGraceful` | 1 call: `Shutdown` with an open stream closes its channel twice, a panic nothing recovers | `grpc_service.go:82` |
| `OneTaskPerContent` | 2 submissions, no fault: the lock is released before the task is created | `cache.go:335` |
| `ClosesGracefully` | `MCEventBus.cfg`: a receiver that `redis.Close` wakes closes its channel again | `event_bus.go:307` |
| `EveryLeafProvable` | `MCProver.cfg`: with 5 or 6 leaves the path of the last ones does not lead to the root, since `GenerateProof` compares a number within the level with an offset in the tree | `circuits/factory.go:74` |

Two more statements are true only for reasons other than the ones given.
`cmd/coordinator/main.go:268` says that only the leader schedules "to avoid
duplicate assignments"; cycles of deposed leaders overlap with those of the new
one, and it is the guard of `assign_task_to_worker` that avoids them (`cluster`
holds for any set of leaders). `grpc_service.go:456` says that workers "will
reconnect on leadership change"; nothing tells them to, and a call that a follower
has parked ends by the age limit of its connection, half an hour later.

## Not modelled

`UpdateTaskStatus`, `IncrementTaskCount` and `DecrementTaskCount` of the
repository, `mark_dead_workers`, `cleanup_old_tasks`, the least-loaded and
priority policies, `VerifyProof` (which returns true): no caller. `dbSyncLoop`
writes heartbeat times. The Raft FSM: nothing is ever proposed. Raft, Redis and
gnark are libraries: leadership comes and goes, connections break, a proof exists
exactly if the witness satisfies the circuit. Middleware (a token bucket per
address, size limits, request ids), configuration and its validation, health
checks, the HTTP endpoints of the coordinator and start-up have no protocol with
the rest; the protocol code is generated.

`WorkerNode` does not say how long its process stays down after a panic, and
`Coordinator` has the crash of a worker as `CrashWorker`, whatever its cause.

Left out of a modelled part: a cache that is disabled from the start
(`Gateway`), event types nobody subscribes to (`EventBus`), the count in the
tables across several coordinators (`Cluster`; one coordinator's is in
`Coordinator`).

## Plan

Done: store, registry and coordinator; streams; worker; gateway; several
coordinators; event bus; tree and prover; theorems for all their safety
properties, and the refinements `TaskStore`, `Coordinator` and `Cluster` to
`TaskLease`, `Coordinator` and `WorkerNode` to `WorkerJobs`, `EventBus` to
`LossyEvents`. Next:

1. the contract between `TaskStreams` and the `stream` of `Coordinator`: a buffer
   that takes in order, gives in order and may be lost with its call.
2. the contract between the goroutines of `Prover` and `ProcessTask` and
   `ProcessTaskPanics` of `WorkerNode`, which share the fatal tasks.
3. the table of `Gateway` as a part of `TaskStore`: rows are created once and
   read as the statements left them.
4. the rate limiter's table of addresses, the one state the middleware keeps.
