---------------------------- MODULE TaskStreams ----------------------------
(***************************************************************************)
(* The task streams of a coordinator, which Coordinator takes for one      *)
(* queue per worker: the calls of ReceiveTasks, each with a Go channel of  *)
(* its own, the map taskStreams under streamsMu, the scheduler goroutines  *)
(* inside PushTaskToWorker, keepalives, and the shutdown of the service    *)
(* (internal/coordinator/service/grpc_service.go).                         *)
(*                                                                         *)
(* What is done under streamsMu is one step.  A send on a closed channel   *)
(* and the close of a closed one panic: the scheduler's loops recover from *)
(* a panic, the process does not survive one in a gRPC handler.            *)
(***************************************************************************)
EXTENDS Naturals, Sequences, SequencesExt

CONSTANTS Worker,      \* worker identifiers
          Calls,       \* how many ReceiveTasks calls the workers make
          Push,        \* calls of PushTaskToWorker, each for a task of its own
          Keepalive,   \* the assignment with an empty TaskId
          BufferSize   \* TaskStreamBufferSize

ASSUME StreamsAssumption ==
  /\ Calls \in Nat /\ BufferSize \in Nat \ {0}
  /\ Keepalive \notin Push

Call == 1..Calls   \* in the order they are made
NoCall == 0        \* no entry in taskStreams

VARIABLES
  calls,        \* calls[c]: where the handler of c is, and for whom
  alive,        \* alive[c]: the client still holds the connection of c
  channels,     \* channels[c]: buffer of c's channel, and whether it is closed
  taskStreams,  \* the map from workers to the call that serves them
  pushes,       \* pushes[p]: where PushTaskToWorker is
  delivered,    \* pushes whose task reached a worker
  leader,       \* what raftNode.IsLeader() answers
  phase         \* of Shutdown: running, cancelled, closed, stopped; or
                \* crashed, when a handler's panic took the process with it

vars == <<calls, alive, channels, taskStreams, pushes, delivered, leader,
          phase>>

Item == Push \cup {Keepalive}

NoCallYet == [pc |-> "none"]
NewPush == [state |-> "new"]

CallState == [pc : {"parked", "accepted", "serving", "closing", "closed"},
              worker : Worker]
PushState == [state : {"sending", "queued", "failed", "panicked", "died"}, call : Call]

TypeOK ==
  /\ calls \in [Call -> CallState \cup {NoCallYet}]
  /\ alive \in [Call -> BOOLEAN]
  /\ channels \in [Call -> [buffer : Seq(Item), closed : BOOLEAN]]
  /\ \A c \in Call : Len(channels[c].buffer) <= BufferSize
  /\ taskStreams \in [Worker -> Call \cup {NoCall}]
  /\ pushes \in [Push -> PushState \cup {NewPush, [state |-> "failed"]}]
  /\ delivered \subseteq Push
  /\ leader \in BOOLEAN
  /\ phase \in {"running", "cancelled", "closed", "stopped", "crashed"}

Init ==
  /\ calls = [c \in Call |-> NoCallYet]
  /\ alive = [c \in Call |-> FALSE]
  /\ channels = [c \in Call |-> [buffer |-> <<>>, closed |-> FALSE]]
  /\ taskStreams = [w \in Worker |-> NoCall]
  /\ pushes = [p \in Push |-> NewPush]
  /\ delivered = {}
  /\ leader = TRUE
  /\ phase = "running"

\* Another node wins or loses a Raft election; this node learns of it.
ChangeLeader ==
  /\ phase # "crashed"
  /\ leader' = ~leader
  /\ UNCHANGED <<calls, alive, channels, taskStreams, pushes, delivered, phase>>

-----------------------------------------------------------------------------
(* ReceiveTasks *)

GoTo(c, pc) == calls' = [calls EXCEPT ![c].pc = pc]

Room(c) == Len(channels[c].buffer) < BufferSize

Put(c, item) ==
  channels' = [channels EXCEPT ![c].buffer = Append(@, item)]

\* A worker opens a call only when its previous one has ended on its side;
\* the server may not have noticed.  A node that does not lead parks it.
ReceiveTasks(c, w) ==
  /\ calls[c] = NoCallYet /\ phase \notin {"stopped", "crashed"}
  /\ \A d \in 1..c-1 : calls[d] # NoCallYet
  /\ \A d \in Call : calls[d] # NoCallYet /\ calls[d].worker = w => ~alive[d]
  /\ calls' = [calls EXCEPT ![c] =
                 [pc |-> IF leader THEN "accepted" ELSE "parked", worker |-> w]]
  /\ alive' = [alive EXCEPT ![c] = TRUE]
  /\ UNCHANGED <<channels, taskStreams, pushes, delivered, leader, phase>>

RegisterStream(c) ==
  /\ calls[c].pc = "accepted"
  /\ taskStreams' = [taskStreams EXCEPT ![calls[c].worker] = c]
  /\ GoTo(c, "serving")
  /\ UNCHANGED <<alive, channels, pushes, delivered, leader, phase>>

\* The connection ends on the client's side: a network failure, the limit on
\* its age, the end of the worker.
Disconnect(c) ==
  /\ alive[c]
  /\ alive' = [alive EXCEPT ![c] = FALSE]
  /\ UNCHANGED <<calls, channels, taskStreams, pushes, delivered, leader, phase>>

SendWhileMapped(c) ==   \* mutant: the loop looks its channel up in the map
  /\ calls[c].pc = "serving" /\ channels[c].buffer # <<>>
  /\ taskStreams[calls[c].worker] = c
  /\ channels' = [channels EXCEPT ![c].buffer = Tail(@)]
  /\ IF alive[c]
     THEN /\ delivered' = delivered \cup ({Head(channels[c].buffer)} \cap Push)
          /\ UNCHANGED calls
     ELSE /\ GoTo(c, "closing")
          /\ UNCHANGED delivered
  /\ UNCHANGED <<alive, taskStreams, pushes, leader, phase>>

\* The loop takes the next item and sends it.  To a client that is gone the
\* send may fail, which ends the call, or seem to succeed.
SendToWorker(c) ==
  /\ calls[c].pc = "serving" /\ channels[c].buffer # <<>>
  /\ channels' = [channels EXCEPT ![c].buffer = Tail(@)]
  /\ IF alive[c]
     THEN /\ delivered' = delivered \cup ({Head(channels[c].buffer)} \cap Push)
          /\ UNCHANGED calls
     ELSE /\ \/ UNCHANGED calls
             \/ GoTo(c, "closing")
          /\ UNCHANGED delivered
  /\ UNCHANGED <<alive, taskStreams, pushes, leader, phase>>

\* The loop ends: the context of the stream is done, or the channel is closed
\* and drained.
EndLoop(c) ==
  /\ \/ /\ calls[c].pc = "serving"
        /\ alive[c] => channels[c].closed /\ channels[c].buffer = <<>>
        /\ GoTo(c, "closing")
     \/ calls[c].pc = "parked" /\ ~alive[c] /\ GoTo(c, "closed")
  /\ UNCHANGED <<alive, channels, taskStreams, pushes, delivered, leader, phase>>

\* A panic in a handler ends the process, with every call and goroutine in it.
Crash ==
  /\ phase' = "crashed"
  /\ calls' = [c \in Call |-> IF calls[c] = NoCallYet THEN NoCallYet
                             ELSE [calls[c] EXCEPT !.pc = "closed"]]
  /\ alive' = [c \in Call |-> FALSE]
  /\ channels' = [c \in Call |-> [buffer |-> <<>>, closed |-> TRUE]]
  /\ taskStreams' = [w \in Worker |-> NoCall]
  /\ pushes' = [p \in Push |-> IF pushes[p].state = "sending"
                              THEN [pushes[p] EXCEPT !.state = "died"]
                              ELSE pushes[p]]

CloseKeepingEntry(c) ==   \* mutant: the entry in the map is left alone
  /\ calls[c].pc = "closing"
  /\ IF channels[c].closed THEN Crash
     ELSE /\ channels' = [channels EXCEPT ![c] = [buffer |-> <<>>, closed |-> TRUE]]
          /\ GoTo(c, "closed")
          /\ UNCHANGED <<alive, pushes, phase, taskStreams>>
  /\ UNCHANGED <<delivered, leader>>

\* The deferred function: it deletes whatever entry the worker has by now, and
\* closes its channel even when CloseAllStreams has closed it already.
CloseStream(c) ==
  /\ calls[c].pc = "closing"
  /\ IF channels[c].closed THEN Crash
     ELSE /\ taskStreams' = [taskStreams EXCEPT ![calls[c].worker] = NoCall]
          /\ channels' = [channels EXCEPT ![c] = [buffer |-> <<>>, closed |-> TRUE]]
          /\ GoTo(c, "closed")
          /\ UNCHANGED <<alive, pushes, phase>>
  /\ UNCHANGED <<delivered, leader>>

-----------------------------------------------------------------------------
(* PushTaskToWorker *)

\* The lookup, under RLock; the lock is given up before the send.
FindStream(p, w) ==
  /\ pushes[p] = NewPush /\ phase # "crashed"
  /\ pushes' = [pushes EXCEPT ![p] =
                  IF taskStreams[w] = NoCall THEN [state |-> "failed"]
                  ELSE [state |-> "sending", call |-> taskStreams[w]]]
  /\ UNCHANGED <<calls, alive, channels, taskStreams, delivered, leader, phase>>

End(p, state) == pushes' = [pushes EXCEPT ![p].state = state]

SendDetached(p) ==   \* mutant: the send goes on in a goroutine of its own
  /\ pushes[p].state = "sending"
  /\ LET c == pushes[p].call IN
     \/ ~channels[c].closed /\ Room(c) /\ Put(c, p) /\ End(p, "failed")
     \/ channels[c].closed /\ End(p, "panicked") /\ UNCHANGED channels
  /\ UNCHANGED <<calls, alive, taskStreams, delivered, leader, phase>>

SendForever(p) ==   \* mutant: no timeout and no shutdown case
  /\ pushes[p].state = "sending"
  /\ LET c == pushes[p].call IN
     \/ ~channels[c].closed /\ Room(c) /\ Put(c, p) /\ End(p, "queued")
     \/ channels[c].closed /\ End(p, "panicked") /\ UNCHANGED channels
  /\ UNCHANGED <<calls, alive, taskStreams, delivered, leader, phase>>

\* The select: the channel, the 5s of TaskPushTimeout, or the shutdown.  A
\* channel closed in the meantime is ready, and panics.
SendOrFail(p) ==
  /\ pushes[p].state = "sending"
  /\ LET c == pushes[p].call IN
     \/ ~channels[c].closed /\ Room(c) /\ Put(c, p) /\ End(p, "queued")
     \/ ~channels[c].closed /\ ~Room(c) /\ End(p, "failed") /\ UNCHANGED channels
     \/ phase # "running" /\ End(p, "failed") /\ UNCHANGED channels
     \/ channels[c].closed /\ End(p, "panicked") /\ UNCHANGED channels
  /\ UNCHANGED <<calls, alive, taskStreams, delivered, leader, phase>>

\* sendKeepaliveToIdleStreams, for one stream: under RLock, never blocking.
SendKeepalive(w) ==
  /\ phase \in {"running", "cancelled"}
  /\ taskStreams[w] # NoCall /\ Room(taskStreams[w])
  /\ Put(taskStreams[w], Keepalive)
  /\ UNCHANGED <<calls, alive, taskStreams, pushes, delivered, leader, phase>>

-----------------------------------------------------------------------------
(* Shutdown *)

CancelShutdownCtx ==
  /\ phase = "running"
  /\ phase' = "cancelled"
  /\ UNCHANGED <<calls, alive, channels, taskStreams, pushes, delivered, leader>>

CloseAllStreams ==
  /\ phase = "cancelled"
  /\ phase' = "closed"
  /\ LET mapped == {taskStreams[w] : w \in Worker} IN
     channels' = [c \in Call |-> IF c \in mapped
                                 THEN [channels[c] EXCEPT !.closed = TRUE]
                                 ELSE channels[c]]
  /\ taskStreams' = [w \in Worker |-> NoCall]
  /\ UNCHANGED <<calls, alive, pushes, delivered, leader>>

\* grpcServer.Stop, once GracefulStop has waited for StreamDrainTimeout.
StopServer ==
  /\ phase = "closed"
  /\ phase' = "stopped"
  /\ alive' = [c \in Call |-> FALSE]
  /\ UNCHANGED <<calls, channels, taskStreams, pushes, delivered, leader>>

-----------------------------------------------------------------------------
Handle(c) ==
  \/ RegisterStream(c) \/ SendToWorker(c) \/ EndLoop(c) \/ CloseStream(c)

Shutdown == CancelShutdownCtx \/ CloseAllStreams \/ StopServer

Next ==
  \/ ChangeLeader
  \/ \E c \in Call :
       Handle(c) \/ Disconnect(c) \/ \E w \in Worker : ReceiveTasks(c, w)
  \/ \E w \in Worker : SendKeepalive(w) \/ \E p \in Push : FindStream(p, w)
  \/ \E p \in Push : SendOrFail(p)
  \/ Shutdown

Spec == Init /\ [][Next]_vars

\* Goroutines run and a shutdown that has begun goes on.  Nothing obliges a
\* client to connect or to leave, a task to be pushed, a keepalive to be due.
Fairness ==
  /\ \A c \in Call : WF_vars(Handle(c))
  /\ \A p \in Push : WF_vars(SendOrFail(p))
  /\ WF_vars(CloseAllStreams \/ StopServer)

FairSpec == Spec /\ Fairness

-----------------------------------------------------------------------------
(* Properties *)

\* A channel found in the map under the lock is open, so a keepalive never
\* panics: every close of a channel takes its entry away under the same lock,
\* whichever calls of a worker overlap and whenever the service shuts down.
MappedIsOpen ==
  \A w \in Worker : taskStreams[w] # NoCall => ~channels[taskStreams[w]].closed

Buffered(p) == \E c \in Call : p \in ToSet(channels[c].buffer)

\* When PushTaskToWorker returns an error the scheduler gives the task to
\* someone else, so it must not reach the worker any more: not after a
\* timeout, not while the service shuts down.
FailedIsNotDelivered ==
  \A p \in Push : pushes[p].state \in {"failed", "panicked"}
                    => ~Buffered(p) /\ p \notin delivered

\* PushTaskToWorker does not block its scheduler goroutine for ever, however
\* slow or dead the worker is.
PushEnds ==
  \A p \in Push : pushes[p].state = "sending" ~> pushes[p].state # "sending"

\* A queued task does not stay in a channel for ever, even when the entry of
\* its stream was overwritten, or deleted by an older call: it is delivered,
\* or dropped as its connection ends.
QueuedLeaves == \A p \in Push : Buffered(p) ~> ~Buffered(p)

\* "Shutdown gracefully stops the gRPC service" (grpc_service.go:82): it does
\* not end in a panic.
ShutdownIsGraceful == phase # "crashed"
=============================================================================
