------------------------------ MODULE EventBus ------------------------------
(***************************************************************************)
(* The wake-up of a coordinator by events (common/events/event_bus.go and  *)
(* the loops of scheduler/task_scheduler.go), from the gateway's goroutine *)
(* that publishes a created task to the scheduling cycle, next to the loop *)
(* that polls, and the shutdown of main, which closes the bus.             *)
(*                                                                         *)
(* A subscription is an instance of eventDrivenLoop with the goroutine of  *)
(* receiveLoop that feeds its channel; a loop that panics starts another.  *)
(* An event is its number in the order of publication, a task its number   *)
(* in the order of creation: nothing else about them matters here.  Which  *)
(* of the tasks it sees a cycle can assign is up to the workers, and in    *)
(* Coordinator.                                                            *)
(***************************************************************************)
EXTENDS Naturals, Sequences, FiniteSets, SequencesExt

CONSTANTS
  MaxTasks,        \* bound on the tasks
  Sub, FirstSub,   \* subscriptions; Sub bounds the panics of event loops
  Capacity,        \* of a subscriber's channel (100)
  BatchSize,       \* pending tasks a cycle fetches (10)
  MaxFaults        \* bound on faults

ASSUME EventBusAssumption ==
  /\ FirstSub \in Sub /\ {Capacity, BatchSize} \subseteq Nat \ {0}
  /\ MaxTasks \in Nat /\ MaxFaults \in Nat

VARIABLES
  enabled,     \* the bus is connected; else only polling
  created,     \* tasks 1..created exist
  announced,   \* for so many of them Publish has been called
  published,   \* events 1..published went out
  wire,        \* wire[s]: events in the connection to s
  conn,        \* conn[s]: "none", "up", "down"
  buffer,      \* buffer[s]: the channel of s
  open,        \* open[s]: it is not closed
  mapped,      \* the subscriptions in eb.channels
  recv,        \* recv[s]: where receiveLoop is
  hold,        \* hold[s]: the event it holds, or 0
  loop,        \* loop[s]: where eventDrivenLoop is
  last,        \* last[s]: the latest event it took
  poll,        \* where schedulingLoop is
  leader,      \* raftNode.IsLeader()
  pending,     \* the tasks that wait for a worker
  seen,        \* history: the tasks that some cycle fetched
  main,        \* where the shutdown is
  faults, crashed

busVars == <<wire, conn, buffer, open, mapped, recv, hold>>
queueVars == <<pending, seen>>
loopVars == <<loop, last, poll, queueVars>>
taskVars == <<created, announced, published>>
envVars == <<enabled, taskVars, leader>>

vars == <<busVars, loopVars, envVars, main, faults, crashed>>

BusTypeOK ==
  /\ wire \in [Sub -> Seq(Nat)]
  /\ conn \in [Sub -> {"none", "up", "down"}]
  /\ buffer \in [Sub -> Seq(Nat)]
  /\ \A s \in Sub : Len(buffer[s]) <= Capacity
  /\ open \in [Sub -> BOOLEAN]
  /\ mapped \subseteq Sub
  /\ recv \in [Sub -> {"off", "check", "receive", "send", "backoff", "close",
                       "delete", "ended"}]
  /\ hold \in [Sub -> Nat]
  /\ \A s \in mapped : recv[s] \notin {"off", "ended"}

LoopTypeOK ==
  /\ loop \in [Sub -> {"off", "subscribe", "register", "wait", "cycle", "ended"}]
  /\ last \in [Sub -> Nat]
  /\ poll \in {"wait", "cycle", "ended"}
  /\ pending \subseteq 1..created /\ seen \subseteq 1..created

EnvTypeOK ==
  /\ enabled \in BOOLEAN /\ leader \in BOOLEAN
  /\ created \in 0..MaxTasks /\ announced \in 0..created
  /\ published \in 0..announced
  /\ main \in {"run", "stopped", "cancelled", "locked", "closed",
               "lockedAgain", "exited"}
  /\ faults \in 0..MaxFaults /\ crashed \in BOOLEAN

TypeOK == BusTypeOK /\ LoopTypeOK /\ EnvTypeOK

\* NewEventBus falls back to a disabled bus when Redis does not answer.
Init ==
  /\ enabled \in BOOLEAN
  /\ created = 0 /\ announced = 0 /\ published = 0
  /\ wire = [s \in Sub |-> <<>>]
  /\ conn = [s \in Sub |-> "none"]
  /\ buffer = [s \in Sub |-> <<>>]
  /\ open = [s \in Sub |-> FALSE]
  /\ mapped = {}
  /\ recv = [s \in Sub |-> "off"]
  /\ hold = [s \in Sub |-> 0]
  /\ loop = [s \in Sub |-> IF enabled /\ s = FirstSub THEN "subscribe" ELSE "off"]
  /\ last = [s \in Sub |-> 0]
  /\ poll = "wait"
  /\ leader \in BOOLEAN
  /\ pending = {} /\ seen = {}
  /\ main = "run"
  /\ faults = 0 /\ crashed = FALSE

Up == ~crashed /\ main # "exited"

\* ts.ctx and eb.ctx.
Stopped == main # "run"
Cancelled == main \notin {"run", "stopped"}

\* eb.mu; the other critical sections are single actions.
MutexFree == main \notin {"locked", "lockedAgain"}

RedisClosed == main \in {"closed", "lockedAgain", "exited"}

Fault == faults < MaxFaults /\ faults' = faults + 1

RecvTo(s, there) == recv' = [recv EXCEPT ![s] = there]
LoopTo(s, there) == loop' = [loop EXCEPT ![s] = there]

-----------------------------------------------------------------------------
(* The gateway *)

CreateTask ==
  /\ created < MaxTasks
  /\ created' = created + 1
  /\ pending' = pending \cup {created + 1}
  /\ UNCHANGED <<busVars, loop, last, poll, seen, enabled, announced, published,
                 leader, main, faults, crashed>>

\* A failed or stale task goes back to its place in ORDER BY created_at.
TaskReturns(t) ==
  /\ Up /\ t \in seen \ pending /\ Fault
  /\ pending' = pending \cup {t}
  /\ UNCHANGED <<busVars, loop, last, poll, seen, envVars, main, crashed>>

\* Redis hands an event to the connections it has; who is not connected
\* misses it.
Publish ==
  /\ enabled /\ announced < created
  /\ announced' = announced + 1
  /\ published' = published + 1
  /\ wire' = [s \in Sub |-> IF conn[s] = "up" THEN Append(wire[s], published + 1)
                                              ELSE wire[s]]
  /\ UNCHANGED <<conn, buffer, open, mapped, recv, hold, loopVars, enabled, created,
                 leader, main, faults, crashed>>

\* Publish tells nobody when it fails.
PublishFails ==
  /\ enabled /\ announced < created /\ Fault
  /\ announced' = announced + 1
  /\ UNCHANGED <<busVars, loopVars, enabled, created, published, leader, main,
                 crashed>>

-----------------------------------------------------------------------------
(* Subscribe *)

SubscribeUnconfirmed(s) ==   \* mutant: the loop goes on before it is connected
  /\ Up /\ loop[s] = "subscribe" /\ ~RedisClosed
  /\ conn' = [conn EXCEPT ![s] = "down"]
  /\ LoopTo(s, "register")
  /\ UNCHANGED <<wire, buffer, open, mapped, recv, hold, last, poll, queueVars,
                 envVars, main, faults, crashed>>

\* redis.Subscribe and the confirmation, without which the loop ends.
Subscribe(s) ==
  /\ Up /\ loop[s] = "subscribe"
  /\ \/ /\ ~RedisClosed
        /\ conn' = [conn EXCEPT ![s] = "up"]
        /\ LoopTo(s, "register") /\ UNCHANGED faults
     \/ /\ RedisClosed \/ Stopped
        /\ LoopTo(s, "ended") /\ UNCHANGED <<conn, faults>>
     \/ Fault /\ LoopTo(s, "ended") /\ UNCHANGED conn
  /\ UNCHANGED <<wire, buffer, open, mapped, recv, hold, last, poll, queueVars,
                 envVars, main, crashed>>

Register(s) ==
  /\ Up /\ loop[s] = "register" /\ MutexFree
  /\ open' = [open EXCEPT ![s] = TRUE]
  /\ mapped' = mapped \cup {s}
  /\ RecvTo(s, "check")
  /\ LoopTo(s, "wait")
  /\ UNCHANGED <<wire, conn, buffer, hold, last, poll, queueVars, envVars, main,
                 faults, crashed>>

-----------------------------------------------------------------------------
(* receiveLoop *)

Check(s) ==
  /\ Up /\ recv[s] = "check"
  /\ RecvTo(s, IF Stopped \/ Cancelled THEN "close" ELSE "receive")
  /\ UNCHANGED <<wire, conn, buffer, open, mapped, hold, loopVars, envVars, main,
                 faults, crashed>>

ReceiveUnacknowledged(s) ==   \* mutant: what is received comes again
  /\ Up /\ recv[s] = "receive" /\ conn[s] = "up" /\ wire[s] # <<>>
  /\ hold' = [hold EXCEPT ![s] = Head(wire[s])]
  /\ wire' = [wire EXCEPT ![s] = Append(Tail(@), Head(@))]
  /\ RecvTo(s, "send")
  /\ UNCHANGED <<conn, buffer, open, mapped, loopVars, envVars, main, faults,
                 crashed>>

\* ReceiveMessage; no cancelled context wakes it while it waits.
ReceiveMessage(s) ==
  /\ Up /\ recv[s] = "receive" /\ conn[s] = "up" /\ wire[s] # <<>>
  /\ hold' = [hold EXCEPT ![s] = Head(wire[s])]
  /\ wire' = [wire EXCEPT ![s] = Tail(@)]
  /\ RecvTo(s, "send")
  /\ UNCHANGED <<conn, buffer, open, mapped, loopVars, envVars, main, faults,
                 crashed>>

\* It dials again when the connection was lost, or returns an error.
Redial(s) ==
  /\ Up /\ recv[s] = "receive" /\ conn[s] = "down" /\ ~RedisClosed
  /\ conn' = [conn EXCEPT ![s] = "up"]
  /\ UNCHANGED <<wire, buffer, open, mapped, recv, hold, loopVars, envVars, main,
                 faults, crashed>>

\* The error of a lost connection may come after the attempt to dial again.
ReceiveError(s) ==
  /\ Up /\ recv[s] = "receive" /\ conn[s] = "down"
  /\ RecvTo(s, IF Stopped THEN "close" ELSE "backoff")
  /\ \/ UNCHANGED conn
     \/ ~RedisClosed /\ conn' = [conn EXCEPT ![s] = "up"]
  /\ UNCHANGED <<wire, buffer, open, mapped, hold, loopVars, envVars, main,
                 faults, crashed>>

Wake(s) ==
  /\ Up /\ recv[s] = "backoff"
  /\ RecvTo(s, "check")
  /\ UNCHANGED <<wire, conn, buffer, open, mapped, hold, loopVars, envVars, main,
                 faults, crashed>>

\* The select: a send to a closed channel panics, a full one drops the event.
Send(s) ==
  /\ Up /\ recv[s] = "send"
  /\ \/ /\ ~open[s] /\ crashed' = TRUE
        /\ UNCHANGED <<buffer, recv, hold>>
     \/ /\ open[s] /\ Len(buffer[s]) < Capacity
        /\ buffer' = [buffer EXCEPT ![s] = Append(@, hold[s])]
        /\ hold' = [hold EXCEPT ![s] = 0]
        /\ RecvTo(s, "check") /\ UNCHANGED crashed
     \/ /\ Stopped
        /\ hold' = [hold EXCEPT ![s] = 0]
        /\ RecvTo(s, "close") /\ UNCHANGED <<buffer, crashed>>
     \/ /\ open[s] /\ Len(buffer[s]) = Capacity /\ ~Stopped
        /\ hold' = [hold EXCEPT ![s] = 0]
        /\ RecvTo(s, "check") /\ UNCHANGED <<buffer, crashed>>
  /\ UNCHANGED <<wire, conn, open, mapped, loopVars, envVars, main, faults>>

\* The deferred close, which panics when Close was there before, and
\* pubsub.Close.
CloseChannel(s) ==
  /\ Up /\ recv[s] = "close"
  /\ IF open[s] THEN /\ open' = [open EXCEPT ![s] = FALSE]
                     /\ conn' = [conn EXCEPT ![s] = "none"]
                     /\ wire' = [wire EXCEPT ![s] = <<>>]
                     /\ RecvTo(s, "delete") /\ UNCHANGED crashed
                ELSE crashed' = TRUE /\ UNCHANGED <<open, conn, wire, recv>>
  /\ UNCHANGED <<buffer, mapped, hold, loopVars, envVars, main, faults>>

Delete(s) ==
  /\ Up /\ recv[s] = "delete" /\ MutexFree
  /\ mapped' = mapped \ {s}
  /\ RecvTo(s, "ended")
  /\ UNCHANGED <<wire, conn, buffer, open, hold, loopVars, envVars, main, faults,
                 crashed>>

\* The connection of a subscription breaks; what was in it is lost.
Disconnect(s) ==
  /\ Up /\ conn[s] = "up" /\ Fault
  /\ conn' = [conn EXCEPT ![s] = "down"]
  /\ wire' = [wire EXCEPT ![s] = <<>>]
  /\ UNCHANGED <<buffer, open, mapped, recv, hold, loopVars, envVars, main, crashed>>

-----------------------------------------------------------------------------
(* eventDrivenLoop *)

\* The event is only a reason to look, and only for a leader.
TakeEvent(s) ==
  /\ Up /\ loop[s] = "wait" /\ buffer[s] # <<>>
  /\ last' = [last EXCEPT ![s] = Head(buffer[s])]
  /\ buffer' = [buffer EXCEPT ![s] = Tail(@)]
  /\ LoopTo(s, IF leader THEN "cycle" ELSE "wait")
  /\ UNCHANGED <<wire, conn, open, mapped, recv, hold, poll, queueVars, envVars,
                 main, faults, crashed>>

\* The context is cancelled, or the channel is closed and empty.
EndLoop(s) ==
  /\ Up /\ loop[s] = "wait"
  /\ Stopped \/ (~open[s] /\ buffer[s] = <<>>)
  /\ LoopTo(s, "ended")
  /\ UNCHANGED <<busVars, last, poll, queueVars, envVars, main, faults, crashed>>

\* Pending tasks that come before t in ORDER BY created_at.
Older(t) == {u \in pending : u < t}

Batch == {t \in pending : Cardinality(Older(t)) < BatchSize}

\* scheduleOneCycle fetches the oldest pending tasks, unless its context is
\* cancelled, and assigns what the workers can take, perhaps nothing.
Schedule ==
  /\ IF Stopped
     THEN UNCHANGED queueVars
     ELSE /\ seen' = seen \cup Batch
          /\ \E assigned \in SUBSET Batch : pending' = pending \ assigned
  /\ UNCHANGED faults

\* Its error is logged.
ScheduleFails == Fault /\ UNCHANGED queueVars

Cycle(s) ==
  /\ Up /\ loop[s] = "cycle"
  /\ Schedule \/ ScheduleFails
  /\ LoopTo(s, "wait")
  /\ UNCHANGED <<busVars, last, poll, envVars, main, crashed>>

\* A loop that panics starts another one, with a subscription of its own; its
\* own receiver stays.
Panic(s) ==
  /\ Up /\ loop[s] = "cycle" /\ Fault
  /\ \E other \in Sub :
       /\ loop[other] = "off"
       /\ loop' = [loop EXCEPT ![s] = "ended", ![other] = "subscribe"]
  /\ UNCHANGED <<busVars, last, poll, queueVars, envVars, main, crashed>>

-----------------------------------------------------------------------------
(* schedulingLoop *)

TickInsteadOfEvents ==   \* mutant: a loop that polls only without a bus
  /\ Up /\ poll = "wait" /\ leader /\ ~enabled
  /\ poll' = "cycle"
  /\ UNCHANGED <<busVars, loop, last, queueVars, envVars, main, faults, crashed>>

Tick ==
  /\ Up /\ poll = "wait" /\ leader
  /\ poll' = "cycle"
  /\ UNCHANGED <<busVars, loop, last, queueVars, envVars, main, faults, crashed>>

PollCycle ==
  /\ Up /\ poll = "cycle"
  /\ Schedule \/ ScheduleFails
  /\ poll' = "wait"
  /\ UNCHANGED <<busVars, loop, last, envVars, main, crashed>>

EndPolling ==
  /\ Up /\ poll = "wait" /\ Stopped
  /\ poll' = "ended"
  /\ UNCHANGED <<busVars, loop, last, queueVars, envVars, main, faults, crashed>>

LeaderChanges ==
  /\ Up /\ ~Cancelled
  /\ leader' = ~leader
  /\ UNCHANGED <<busVars, loopVars, enabled, taskVars, main, faults, crashed>>

-----------------------------------------------------------------------------
(* The shutdown: TaskScheduler.Stop and EventBus.Close, which main calls at *)
(* the end of the sequence and once more when it returns.                  *)

MainTo(there) == main' = there

StopClosing ==   \* mutant: Stop closes the channels, before anything ended
  /\ Up /\ main = "run"
  /\ MainTo("stopped")
  /\ open' = [s \in Sub |-> FALSE]
  /\ UNCHANGED <<wire, conn, buffer, mapped, recv, hold, loopVars, envVars, faults,
                 crashed>>

Stop ==
  /\ Up /\ main = "run"
  /\ MainTo("stopped")
  /\ UNCHANGED <<busVars, loopVars, envVars, faults, crashed>>

\* raftNode.Shutdown, and the beginning of Close.
CancelBus ==
  /\ Up /\ main = "stopped"
  /\ leader' = FALSE
  /\ MainTo(IF enabled THEN "cancelled" ELSE "exited")
  /\ UNCHANGED <<busVars, loopVars, enabled, taskVars, faults, crashed>>

\* A channel that its receiver has closed and not yet deleted is closed again.
CloseChannels ==
  /\ Up /\ main \in {"cancelled", "closed"}
  /\ IF \E s \in mapped : ~open[s]
     THEN crashed' = TRUE /\ UNCHANGED <<open, mapped, main>>
     ELSE /\ open' = [s \in Sub |-> open[s] /\ s \notin mapped]
          /\ mapped' = {}
          /\ MainTo(IF main = "closed" THEN "lockedAgain" ELSE "locked")
          /\ UNCHANGED crashed
  /\ UNCHANGED <<wire, conn, buffer, recv, hold, loopVars, envVars, faults>>

CloseRedisKeeping ==   \* mutant: the connections stay
  /\ Up /\ main \in {"locked", "lockedAgain"}
  /\ MainTo(IF main = "locked" THEN "closed" ELSE "exited")
  /\ UNCHANGED <<busVars, loopVars, envVars, faults, crashed>>

\* redis.Close breaks the connections, which wakes the receivers.
CloseRedis ==
  /\ Up /\ main \in {"locked", "lockedAgain"}
  /\ MainTo(IF main = "locked" THEN "closed" ELSE "exited")
  /\ conn' = [s \in Sub |-> IF conn[s] = "up" THEN "down" ELSE conn[s]]
  /\ wire' = [s \in Sub |-> <<>>]
  /\ UNCHANGED <<buffer, open, mapped, recv, hold, loopVars, envVars, faults,
                 crashed>>

-----------------------------------------------------------------------------
Receiver(s) ==
  \/ Check(s) \/ ReceiveMessage(s) \/ Redial(s) \/ ReceiveError(s) \/ Wake(s)
  \/ Send(s) \/ CloseChannel(s) \/ Delete(s)

EventLoop(s) ==
  Subscribe(s) \/ Register(s) \/ TakeEvent(s) \/ EndLoop(s) \/ Cycle(s)

Polling == Tick \/ PollCycle \/ EndPolling

Shutdown == Stop \/ CancelBus \/ CloseChannels \/ CloseRedis

Next ==
  \/ CreateTask \/ Publish \/ PublishFails
  \/ \E t \in seen : TaskReturns(t)
  \/ \E s \in Sub : Receiver(s) \/ EventLoop(s) \/ Panic(s) \/ Disconnect(s)
  \/ Polling \/ LeaderChanges \/ Shutdown

Spec == Init /\ [][Next]_vars

\* The runtime schedules every goroutine; of two ready cases of a select each
\* is taken sometime, so a loop that could end and never does is not fair.
\* The ticker ticks.  Once main has begun Close it comes to its end.
FairSpec ==
  /\ Spec
  /\ WF_vars(Publish)
  /\ \A s \in Sub : /\ WF_vars(Receiver(s)) /\ WF_vars(EventLoop(s))
                    /\ SF_vars(EndLoop(s))
  /\ WF_vars(Polling) /\ SF_vars(EndPolling)
  /\ WF_vars(main = "cancelled" /\ CloseChannels)
  /\ WF_vars(CloseRedis)

-----------------------------------------------------------------------------
(* Properties *)

\* Publish and Subscribe together: what a loop takes is a subsequence of what
\* was published, none twice, whatever is dropped or lost on the way.
InOrder == INSTANCE LossyEvents
EventsInOrder == InOrder!Spec

\* Channels are closed twice, or sent to when closed, only after main has
\* called Close: no reconnection, panic, full channel or Stop leads to it.
CrashOnlyOnClose == crashed => Cancelled

\* As long as nothing fails and the node stays the leader, events alone, even
\* those that find the channel full, get every task into a cycle: its event, or
\* one before it, makes the event loop begin a cycle when the task is there.
\* The ticker is not needed.
EventsSuffice ==
  [](leader /\ faults = 0 /\ main = "run")
    => \A t \in 1..MaxTasks :
         (loop[FirstSub] \in {"register", "wait"} /\ announced < t /\ t <= created)
            ~> loop[FirstSub] = "cycle"

\* Whatever happens to its event, a task comes into a cycle of a node that
\* remains the leader, by polling at the latest, unless a whole batch of older
\* tasks stays pending for ever.
EveryTaskScheduled ==
  <>[](leader /\ main = "run")
    => \A t \in 1..MaxTasks :
         \/ t <= created ~> t \in seen
         \/ <>[](Cardinality(Older(t)) >= BatchSize)

\* When main has stopped the scheduler and closed the bus every goroutine of
\* both ends, if the process lives that long.
LoopsEnd ==
  main = "closed" ~>
    \/ crashed \/ main = "exited"
    \/ /\ poll = "ended"
       /\ \A s \in Sub : recv[s] \in {"off", "ended"} /\ loop[s] \in {"off", "ended"}

\* event_bus.go:307, "Close gracefully shuts down the event bus".  The code
\* does not do this: a receiver that waits in ReceiveMessage is woken by
\* redis.Close after its channel was closed, and closes it again.
ClosesGracefully == ~crashed
=============================================================================
