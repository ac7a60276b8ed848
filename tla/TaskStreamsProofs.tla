------------------------- MODULE TaskStreamsProofs -------------------------
(***************************************************************************)
(* Proofs, for any workers, calls, pushes and channel sizes, that a        *)
(* channel found in taskStreams is open, and that a task given up by       *)
(* PushTaskToWorker never reaches a worker.                                *)
(*                                                                         *)
(* That a mapped channel is open is not inductive alone: a call registers  *)
(* after others have closed channels, deletes an entry that may be of a    *)
(* younger call, and the shutdown closes what it finds in the map.         *)
(***************************************************************************)
EXTENDS TaskStreams, TLAPS

USE StreamsAssumption

Channel == [buffer : Seq(Item), closed : BOOLEAN]

\* A call that has not registered has an open channel.
UnregisteredIsOpen ==
  \A c \in Call :
    channels[c].closed /\ calls[c].pc \in {"none", "parked", "accepted"}
      => phase = "crashed" /\ calls[c].pc = "none"

\* A call is mapped only under its own worker, and until it has closed.
MappedIsServing ==
  \A w \in Worker : taskStreams[w] # NoCall =>
    /\ calls[taskStreams[w]].pc \in {"serving", "closing"}
    /\ calls[taskStreams[w]].worker = w

MapInv == UnregisteredIsOpen /\ MappedIsServing /\ MappedIsOpen

-----------------------------------------------------------------------------
(* What a channel holds *)

LEMMA PutTypes ==
  ASSUME TypeOK, NEW c \in Call, NEW item \in Item, Room(c), Put(c, item)
  PROVE  /\ channels' \in [Call -> Channel]
         /\ \A d \in Call : Len(channels'[d].buffer) <= BufferSize
         /\ \A d \in Call : channels'[d].closed = channels[d].closed
<1>1. channels[c].buffer \in Seq(Item) /\ channels[c].closed \in BOOLEAN
  BY DEF TypeOK
<1>2. /\ Append(channels[c].buffer, item) \in Seq(Item)
      /\ Len(Append(channels[c].buffer, item)) <= BufferSize
  BY <1>1 DEF Room
<1>3. PICK longer : longer = Append(channels[c].buffer, item)
  OBVIOUS
<1>4. channels' = [channels EXCEPT ![c].buffer = longer]
  BY <1>3 DEF Put
<1>5. channels \in [Call -> Channel]
  BY DEF TypeOK, Channel
<1>6. [channels[c] EXCEPT !.buffer = longer] \in Channel
  BY <1>2, <1>3, <1>5 DEF Channel
<1>7. channels' \in [Call -> Channel]
  BY <1>4, <1>5, <1>6
<1>8. \A d \in Call :
        /\ channels'[d].closed = channels[d].closed
        /\ channels'[d].buffer = IF d = c THEN longer ELSE channels[d].buffer
  <2>1. \A d \in Call :
          channels'[d] = IF d = c THEN [channels[c] EXCEPT !.buffer = longer]
                                  ELSE channels[d]
    BY <1>4, <1>5
  <2>2. QED
    BY <1>5, <2>1 DEF Channel
<1>9. \A d \in Call : Len(channels[d].buffer) <= BufferSize
  BY DEF TypeOK
<1>10. QED
  BY <1>2, <1>3, <1>7, <1>8, <1>9

LEMMA TakeTypes ==
  ASSUME TypeOK, NEW c \in Call, channels[c].buffer # <<>>,
         channels' = [channels EXCEPT ![c].buffer = Tail(@)]
  PROVE  /\ channels' \in [Call -> Channel]
         /\ \A d \in Call : Len(channels'[d].buffer) <= BufferSize
         /\ \A d \in Call : channels'[d].closed = channels[d].closed
<1> DEFINE rest == Tail(channels[c].buffer)
<1>1. channels[c].buffer \in Seq(Item) /\ channels[c].closed \in BOOLEAN
  BY DEF TypeOK
<1>2. rest \in Seq(Item) /\ Len(rest) <= BufferSize
  BY <1>1 DEF TypeOK
<1>3. channels' = [channels EXCEPT ![c].buffer = rest]
  OBVIOUS
<1> HIDE DEF rest
<1>4. channels \in [Call -> Channel]
  BY DEF TypeOK, Channel
<1>5. [channels[c] EXCEPT !.buffer = rest] \in Channel
  BY <1>2, <1>4 DEF Channel
<1>6. channels' \in [Call -> Channel]
  BY <1>3, <1>4, <1>5
<1>7. \A d \in Call :
        /\ channels'[d].closed = channels[d].closed
        /\ channels'[d].buffer = IF d = c THEN rest ELSE channels[d].buffer
  <2>1. \A d \in Call :
          channels'[d] = IF d = c THEN [channels[c] EXCEPT !.buffer = rest]
                                  ELSE channels[d]
    BY <1>3, <1>4
  <2>2. QED
    BY <1>4, <2>1 DEF Channel
<1>8. \A d \in Call : Len(channels[d].buffer) <= BufferSize
  BY DEF TypeOK
<1>9. QED
  BY <1>2, <1>6, <1>7, <1>8

\* A call in progress that moves on keeps its worker.
LEMMA GoToTypes ==
  ASSUME TypeOK, NEW c \in Call, calls[c].pc # "none",
         NEW pc \in {"serving", "closing", "closed"}, GoTo(c, pc)
  PROVE  /\ calls' \in [Call -> CallState \cup {NoCallYet}]
         /\ calls'[c].pc = pc
         /\ calls'[c].worker = calls[c].worker
         /\ \A d \in Call \ {c} : calls'[d] = calls[d]
<1>1. calls[c] \in CallState
  BY DEF TypeOK, NoCallYet
<1>2. [calls[c] EXCEPT !.pc = pc] \in CallState
  BY <1>1 DEF CallState
<1>3. /\ calls' = [calls EXCEPT ![c] = [calls[c] EXCEPT !.pc = pc]]
      /\ calls \in [Call -> CallState \cup {NoCallYet}]
  BY DEF GoTo, TypeOK
<1>4. calls'[c] = [calls[c] EXCEPT !.pc = pc]
  BY <1>3
<1>5. QED
  BY <1>1, <1>2, <1>3, <1>4 DEF CallState

LEMMA EndTypes ==
  ASSUME TypeOK, NEW p \in Push, pushes[p].state = "sending",
         NEW state \in {"queued", "failed", "panicked"}, End(p, state)
  PROVE  pushes' \in [Push -> PushState \cup {NewPush, [state |-> "failed"]}]
<1>1. pushes[p] \in PushState
  BY DEF TypeOK, NewPush
<1>2. [pushes[p] EXCEPT !.state = state] \in PushState
  BY <1>1 DEF PushState
<1>3. QED
  BY <1>2 DEF End, TypeOK

\* A closed channel is emptied.
LEMMA ClosedTypes ==
  [buffer |-> <<>>, closed |-> TRUE] \in {ch \in Channel : Len(ch.buffer) <= BufferSize}
<1>1. <<>> \in Seq(Item) /\ Len(<<>>) <= BufferSize
  OBVIOUS
<1>2. QED
  BY <1>1 DEF Channel

-----------------------------------------------------------------------------
LEMMA InitMapInv == Init => TypeOK /\ MapInv
  BY DEF Init, MapInv, TypeOK, UnregisteredIsOpen, MappedIsServing,
       MappedIsOpen, NoCallYet, NewPush, NoCall, Item, Call

LEMMA StreamsTypes == TypeOK /\ [Next]_vars => TypeOK'
<1> SUFFICES ASSUME TypeOK, [Next]_vars PROVE TypeOK'
  OBVIOUS
<1> USE DEF TypeOK
<1>1. CASE ChangeLeader
  BY <1>1 DEF ChangeLeader
<1>2. ASSUME NEW c \in Call, NEW w \in Worker, ReceiveTasks(c, w) PROVE TypeOK'
  BY <1>2 DEF ReceiveTasks, CallState
<1>3. ASSUME NEW c \in Call, RegisterStream(c) PROVE TypeOK'
  <2>1. calls[c].pc = "accepted" /\ calls[c].worker \in Worker
    BY <1>3 DEF RegisterStream, CallState, NoCallYet
  <2>2. calls' \in [Call -> CallState \cup {NoCallYet}]
    BY <1>3, <2>1, GoToTypes DEF RegisterStream
  <2>3. QED
    BY <1>3, <2>1, <2>2 DEF RegisterStream
<1>4. ASSUME NEW c \in Call, Disconnect(c) PROVE TypeOK'
  BY <1>4 DEF Disconnect
<1>5. ASSUME NEW c \in Call, SendToWorker(c) PROVE TypeOK'
  <2>1. /\ channels' \in [Call -> Channel]
        /\ \A d \in Call : Len(channels'[d].buffer) <= BufferSize
    BY <1>5, TakeTypes DEF SendToWorker
  <2>2. calls' \in [Call -> CallState \cup {NoCallYet}]
    BY <1>5, GoToTypes DEF SendToWorker
  <2>3. QED
    BY <1>5, <2>1, <2>2 DEF SendToWorker, Channel
<1>6. ASSUME NEW c \in Call, EndLoop(c) PROVE TypeOK'
  <2>1. calls' \in [Call -> CallState \cup {NoCallYet}]
    BY <1>6, GoToTypes DEF EndLoop
  <2>2. QED
    BY <1>6, <2>1 DEF EndLoop
<1>7. ASSUME NEW c \in Call, CloseStream(c) PROVE TypeOK'
  <2> DEFINE drained == [buffer |-> <<>>, closed |-> TRUE]
  <2>1. drained \in Channel /\ Len(drained.buffer) <= BufferSize
    BY ClosedTypes DEF Channel
  <2> HIDE DEF drained
  <2>2. CASE Crash /\ UNCHANGED <<delivered, leader>>
    <3>1. channels' = [d \in Call |-> drained]
      BY <2>2 DEF Crash, drained
    <3>2. /\ channels' \in [Call -> Channel]
          /\ \A d \in Call : Len(channels'[d].buffer) <= BufferSize
      BY <2>1, <3>1
    <3>3. calls' \in [Call -> CallState \cup {NoCallYet}]
      BY <2>2 DEF Crash, CallState
    <3>4. ASSUME NEW p \in Push, pushes[p].state = "sending"
          PROVE  [pushes[p] EXCEPT !.state = "died"] \in PushState
      <4>1. pushes[p] \in PushState
        <5>1. pushes[p] \in PushState \cup {NewPush, [state |-> "failed"]}
          OBVIOUS
        <5>2. QED
          BY <3>4, <5>1 DEF NewPush
      <4>2. pushes[p].call \in Call
        BY <4>1 DEF PushState
      <4>3. QED
        BY <4>1, <4>2 DEF PushState
    <3>5. pushes' = [p \in Push |-> IF pushes[p].state = "sending"
                                   THEN [pushes[p] EXCEPT !.state = "died"]
                                   ELSE pushes[p]]
      BY <2>2 DEF Crash
    <3>6. pushes' \in [Push -> PushState \cup {NewPush, [state |-> "failed"]}]
      BY <3>4, <3>5
    <3>7. QED
      BY <2>2, <3>2, <3>3, <3>6 DEF Crash, Channel
  <2>3. CASE /\ taskStreams' = [taskStreams EXCEPT ![calls[c].worker] = NoCall]
             /\ channels' = [channels EXCEPT ![c] = drained]
             /\ GoTo(c, "closed")
             /\ UNCHANGED <<alive, pushes, phase, delivered, leader>>
    <3>1. /\ channels' \in [Call -> Channel]
          /\ \A d \in Call : Len(channels'[d].buffer) <= BufferSize
      BY <2>1, <2>3 DEF Channel
    <3>2. calls' \in [Call -> CallState \cup {NoCallYet}]
      BY <1>7, <2>3, GoToTypes DEF CloseStream
    <3>3. QED
      BY <2>3, <3>1, <3>2 DEF Channel
  <2>4. QED
    BY <1>7, <2>2, <2>3 DEF CloseStream, drained
<1>8. ASSUME NEW p \in Push, NEW w \in Worker, FindStream(p, w) PROVE TypeOK'
  <2>1. /\ [state |-> "sending", call |-> taskStreams[w]] \in PushState
        \/ taskStreams[w] = NoCall
    BY DEF PushState, NoCall
  <2>2. pushes' \in [Push -> PushState \cup {NewPush, [state |-> "failed"]}]
    BY <1>8, <2>1 DEF FindStream
  <2>3. QED
    BY <1>8, <2>2 DEF FindStream
<1>9. ASSUME NEW p \in Push, SendOrFail(p) PROVE TypeOK'
  <2>1. pushes[p].call \in Call
    BY <1>9 DEF SendOrFail, PushState, NewPush
  <2>2. pushes' \in [Push -> PushState \cup {NewPush, [state |-> "failed"]}]
    BY <1>9, EndTypes DEF SendOrFail
  <2>3. /\ channels' \in [Call -> Channel]
        /\ \A d \in Call : Len(channels'[d].buffer) <= BufferSize
    BY <1>9, <2>1, PutTypes DEF SendOrFail, Channel, Item
  <2>4. QED
    BY <1>9, <2>2, <2>3 DEF SendOrFail, Channel
<1>10. ASSUME NEW w \in Worker, SendKeepalive(w) PROVE TypeOK'
  <2>1. /\ channels' \in [Call -> Channel]
        /\ \A d \in Call : Len(channels'[d].buffer) <= BufferSize
    BY <1>10, PutTypes DEF SendKeepalive, Item
  <2>2. QED
    BY <1>10, <2>1 DEF SendKeepalive, Channel
<1>11. CASE CancelShutdownCtx
  BY <1>11 DEF CancelShutdownCtx
<1>12. CASE CloseAllStreams
  <2>1. ASSUME NEW d \in Call
        PROVE  [channels[d] EXCEPT !.closed = TRUE] \in Channel
    <3>1. channels[d] \in Channel
      BY DEF Channel
    <3>2. QED
      BY <3>1 DEF Channel
  <2>2. \A d \in Call :
          /\ channels'[d] \in Channel
          /\ channels'[d].buffer = channels[d].buffer
    BY <1>12, <2>1 DEF CloseAllStreams, Channel
  <2>3. channels' \in [Call -> Channel]
    BY <1>12, <2>2 DEF CloseAllStreams
  <2>4. QED
    BY <1>12, <2>2, <2>3 DEF CloseAllStreams, Channel
<1>13. CASE StopServer
  BY <1>13 DEF StopServer
<1>14. CASE UNCHANGED vars
  BY <1>14 DEF vars
<1>15. QED
  BY <1>1, <1>2, <1>3, <1>4, <1>5, <1>6, <1>7, <1>8, <1>9, <1>10, <1>11, <1>12,
       <1>13, <1>14 DEF Next, Handle, Shutdown

LEMMA StreamsMap == TypeOK /\ MapInv /\ [Next]_vars => MapInv'
<1> SUFFICES ASSUME TypeOK, MapInv, [Next]_vars
             PROVE  MapInv'
  OBVIOUS
<1> USE DEF MapInv, UnregisteredIsOpen, MappedIsServing, MappedIsOpen
<1>0. /\ calls \in [Call -> CallState \cup {NoCallYet}]
      /\ channels \in [Call -> Channel]
      /\ taskStreams \in [Worker -> Call \cup {NoCall}]
  BY DEF TypeOK, Channel
<1>1. CASE ChangeLeader
  BY <1>0, <1>1 DEF ChangeLeader
<1>2. ASSUME NEW c \in Call, NEW w \in Worker, ReceiveTasks(c, w) PROVE MapInv'
  <2>1. /\ calls[c].pc = "none" /\ phase # "crashed"
        /\ UNCHANGED <<channels, taskStreams, phase>>
        /\ \A d \in Call \ {c} : calls'[d] = calls[d]
    BY <1>0, <1>2 DEF ReceiveTasks, NoCallYet
  <2>2. QED
    BY <1>0, <2>1
<1>3. ASSUME NEW c \in Call, RegisterStream(c) PROVE MapInv'
  <2> DEFINE v == calls[c].worker
  <2>1. v \in Worker /\ calls[c].pc = "accepted"
    BY <1>0, <1>3 DEF RegisterStream, CallState, NoCallYet
  <2>2. taskStreams' = [taskStreams EXCEPT ![v] = c]
    BY <1>3 DEF RegisterStream
  <2>3. UNCHANGED <<channels, phase>>
    BY <1>3 DEF RegisterStream
  <2>4. /\ calls'[c].pc = "serving" /\ calls'[c].worker = v
        /\ \A d \in Call \ {c} : calls'[d] = calls[d]
    BY <1>3, <2>1, GoToTypes DEF RegisterStream
  <2>5. QED
    BY <1>0, <2>1, <2>2, <2>3, <2>4
<1>4. ASSUME NEW c \in Call, Disconnect(c) PROVE MapInv'
  BY <1>0, <1>4 DEF Disconnect
<1>5. ASSUME NEW c \in Call, SendToWorker(c) PROVE MapInv'
  <2>1. UNCHANGED <<taskStreams, phase>> /\ calls[c].pc = "serving"
    BY <1>5 DEF SendToWorker
  <2>2. \A d \in Call : channels'[d].closed = channels[d].closed
    BY <1>5, TakeTypes DEF SendToWorker
  <2>3. calls' = calls \/ GoTo(c, "closing")
    BY <1>5 DEF SendToWorker
  <2>4. CASE GoTo(c, "closing")
    <3>1. /\ calls'[c].pc = "closing" /\ calls'[c].worker = calls[c].worker
          /\ \A d \in Call \ {c} : calls'[d] = calls[d]
      BY <2>1, <2>4, GoToTypes
    <3>2. QED
      BY <1>0, <2>1, <2>2, <3>1
  <2>5. QED
    BY <1>0, <2>1, <2>2, <2>3, <2>4
<1>6. ASSUME NEW c \in Call, EndLoop(c) PROVE MapInv'
  <2>1. /\ UNCHANGED <<taskStreams, phase, channels>>
        /\ \/ calls[c].pc = "serving" /\ GoTo(c, "closing")
           \/ calls[c].pc = "parked" /\ GoTo(c, "closed")
    BY <1>6 DEF EndLoop
  <2>2. /\ calls'[c].worker = calls[c].worker
        /\ \/ calls[c].pc = "serving" /\ calls'[c].pc = "closing"
           \/ calls[c].pc = "parked" /\ calls'[c].pc = "closed"
        /\ \A d \in Call \ {c} : calls'[d] = calls[d]
    BY <2>1, GoToTypes
  <2>3. QED
    BY <1>0, <2>1, <2>2
<1>7. ASSUME NEW c \in Call, CloseStream(c) PROVE MapInv'
  <2>1. CASE Crash
    <3>1. /\ phase' = "crashed" /\ taskStreams' = [w \in Worker |-> NoCall]
          /\ \A d \in Call : calls'[d].pc \in {"none", "closed"}
      BY <1>0, <2>1 DEF Crash, CallState, NoCallYet
    <3>2. QED
      BY <3>1
  <2>2. CASE /\ taskStreams' = [taskStreams EXCEPT ![calls[c].worker] = NoCall]
             /\ channels' = [channels EXCEPT ![c] = [buffer |-> <<>>, closed |-> TRUE]]
             /\ GoTo(c, "closed") /\ calls[c].pc = "closing"
             /\ phase' = phase
    <3>1. /\ calls'[c].pc = "closed"
          /\ \A d \in Call \ {c} : calls'[d] = calls[d]
      BY <2>2, GoToTypes
    <3>2. \A d \in Call \ {c} : channels'[d] = channels[d]
      BY <1>0, <2>2
    <3>3. \A w \in Worker : taskStreams'[w] # NoCall =>
            taskStreams'[w] = taskStreams[w] /\ taskStreams[w] # c
      BY <1>0, <2>2
    <3>4. QED
      BY <1>0, <2>2, <3>1, <3>2, <3>3
  <2>3. QED
    BY <1>7, <2>1, <2>2 DEF CloseStream
<1>8. ASSUME NEW p \in Push, NEW w \in Worker, FindStream(p, w) PROVE MapInv'
  BY <1>0, <1>8 DEF FindStream
<1>9. ASSUME NEW p \in Push, SendOrFail(p) PROVE MapInv'
  <2>1. pushes[p].call \in Call
    BY <1>9 DEF SendOrFail, PushState, NewPush, TypeOK
  <2>2. \A d \in Call : channels'[d].closed = channels[d].closed
    BY <1>9, <2>1, PutTypes DEF SendOrFail, Item
  <2>3. UNCHANGED <<taskStreams, phase, calls>>
    BY <1>9 DEF SendOrFail
  <2>4. QED
    BY <1>0, <2>2, <2>3
<1>10. ASSUME NEW w \in Worker, SendKeepalive(w) PROVE MapInv'
  <2>1. \A d \in Call : channels'[d].closed = channels[d].closed
    BY <1>0, <1>10, PutTypes DEF SendKeepalive, Item
  <2>2. UNCHANGED <<taskStreams, phase, calls>>
    BY <1>10 DEF SendKeepalive
  <2>3. QED
    BY <1>0, <2>1, <2>2
<1>11. CASE CancelShutdownCtx
  BY <1>0, <1>11 DEF CancelShutdownCtx
<1>12. CASE CloseAllStreams
  <2>1. /\ phase = "cancelled" /\ UNCHANGED calls
        /\ taskStreams' = [w \in Worker |-> NoCall]
    BY <1>12 DEF CloseAllStreams
  <2>2. \A d \in Call : channels'[d].closed =>
          channels[d].closed \/ \E w \in Worker : d = taskStreams[w]
    BY <1>0, <1>12 DEF CloseAllStreams
  <2>3. \A d \in Call : channels'[d].closed =>
          channels[d].closed \/ calls[d].pc \in {"serving", "closing"}
    BY <1>0, <2>2 DEF NoCall, Call
  <2>4. QED
    BY <2>1, <2>3
<1>13. CASE StopServer
  BY <1>0, <1>13 DEF StopServer
<1>14. CASE UNCHANGED vars
  BY <1>0, <1>14 DEF vars
<1>15. QED
  BY <1>1, <1>2, <1>3, <1>4, <1>5, <1>6, <1>7, <1>8, <1>9, <1>10, <1>11, <1>12,
       <1>13, <1>14 DEF Next, Handle, Shutdown

-----------------------------------------------------------------------------
(* What was given up stays away from the workers *)

\* Only a queued push is in a channel or has reached a worker.
OnlyQueuedArrives ==
  \A p \in Push : pushes[p].state # "queued" => ~Buffered(p) /\ p \notin delivered

LEMMA PutBuffers ==
  ASSUME TypeOK, NEW c \in Call, NEW item \in Item, Put(c, item)
  PROVE  \A p \in Push : Buffered(p)' => Buffered(p) \/ p = item
<1> DEFINE b == channels[c].buffer
<1>1. b \in Seq(Item)
  BY DEF TypeOK
<1>2. ASSUME NEW p \in Push, p \in ToSet(Append(b, item)) PROVE p \in ToSet(b) \/ p = item
  BY <1>1, <1>2 DEF ToSet
<1>3. channels'[c].buffer = Append(b, item)
  BY DEF Put, TypeOK
<1>4. \A d \in Call \ {c} : channels'[d] = channels[d]
  BY DEF Put, TypeOK
<1> HIDE DEF b
<1>5. QED
  BY <1>2, <1>3, <1>4 DEF Buffered, b

LEMMA TakeBuffers ==
  ASSUME TypeOK, NEW c \in Call, channels[c].buffer # <<>>,
         channels' = [channels EXCEPT ![c].buffer = Tail(@)]
  PROVE  /\ \A p \in Push : Buffered(p)' => Buffered(p)
         /\ \A p \in Push : p = Head(channels[c].buffer) => Buffered(p)
<1> DEFINE b == channels[c].buffer
<1>1. b \in Seq(Item) /\ b # <<>>
  BY DEF TypeOK
<1>2. ToSet(Tail(b)) \subseteq ToSet(b) /\ Head(b) \in ToSet(b)
  BY <1>1 DEF ToSet
<1>3. channels'[c].buffer = Tail(b)
  BY DEF TypeOK
<1>4. \A d \in Call \ {c} : channels'[d] = channels[d]
  BY DEF TypeOK
<1> HIDE DEF b
<1>5. QED
  BY <1>2, <1>3, <1>4 DEF Buffered, b

LEMMA StreamsDelivery ==
  TypeOK /\ OnlyQueuedArrives /\ [Next]_vars => OnlyQueuedArrives'
<1> SUFFICES ASSUME TypeOK, OnlyQueuedArrives, [Next]_vars PROVE OnlyQueuedArrives'
  OBVIOUS
<1>0. /\ channels \in [Call -> Channel]
      /\ pushes \in [Push -> PushState \cup {NewPush, [state |-> "failed"]}]
      /\ \A p \in Push : pushes[p].state # "queued" => ~Buffered(p) /\ p \notin delivered
  BY DEF TypeOK, Channel, OnlyQueuedArrives
\* Most steps leave the pushes, the buffers and what is delivered alone.
<1>q. ASSUME UNCHANGED <<pushes, delivered>>,
             \A c \in Call : channels'[c].buffer \in {channels[c].buffer, <<>>}
      PROVE  OnlyQueuedArrives'
  <2>1. ToSet(<<>>) = {}
    BY DEF ToSet
  <2>2. \A p \in Push : Buffered(p)' => Buffered(p)
    BY <1>q, <2>1 DEF Buffered
  <2>3. QED
    BY <1>0, <1>q, <2>2 DEF OnlyQueuedArrives
<1>1. CASE UNCHANGED <<channels, pushes, delivered>>
  BY <1>q, <1>1
<1>2. ASSUME NEW c \in Call, SendToWorker(c) PROVE OnlyQueuedArrives'
  <2>1. \A p \in Push : (Buffered(p)' => Buffered(p)) /\ (p \in delivered' => p \in delivered \/ Buffered(p))
    BY <1>2, TakeBuffers DEF SendToWorker
  <2>2. pushes' = pushes
    BY <1>2 DEF SendToWorker
  <2>3. QED
    BY <1>0, <2>1, <2>2 DEF OnlyQueuedArrives
<1>3. ASSUME NEW c \in Call, CloseStream(c) PROVE OnlyQueuedArrives'
  <2>1. delivered' = delivered
    BY <1>3 DEF CloseStream
  <2>2. \A d \in Call : channels'[d].buffer \in {channels[d].buffer, <<>>}
    BY <1>0, <1>3 DEF CloseStream, Crash
  <2>3. \A p \in Push : pushes'[p].state = "queued" <=> pushes[p].state = "queued"
    BY <1>0, <1>3 DEF CloseStream, Crash, PushState, NewPush
  <2>4. ToSet(<<>>) = {}
    BY DEF ToSet
  <2>5. \A p \in Push : Buffered(p)' => Buffered(p)
    BY <2>2, <2>4 DEF Buffered
  <2>6. QED
    BY <1>0, <2>1, <2>3, <2>5 DEF OnlyQueuedArrives
<1>4. ASSUME NEW p \in Push, NEW w \in Worker, FindStream(p, w) PROVE OnlyQueuedArrives'
  <2>1. /\ UNCHANGED <<channels, delivered>>
        /\ pushes[p].state # "queued"
        /\ \A r \in Push \ {p} : pushes'[r] = pushes[r]
    BY <1>0, <1>4 DEF FindStream, NewPush
  <2>2. QED
    BY <1>0, <2>1 DEF OnlyQueuedArrives, Buffered
<1>5. ASSUME NEW p \in Push, SendOrFail(p) PROVE OnlyQueuedArrives'
  <2>1. /\ delivered' = delivered /\ pushes[p].state = "sending"
        /\ \A r \in Push \ {p} : pushes'[r] = pushes[r]
    BY <1>0, <1>5 DEF SendOrFail, End
  <2>2. pushes[p].call \in Call
    BY <1>0, <2>1 DEF PushState, NewPush
  <2>3. CASE channels' = channels
    BY <1>0, <2>1, <2>3 DEF OnlyQueuedArrives, Buffered
  <2>4. CASE Put(pushes[p].call, p) /\ End(p, "queued")
    <3>1. pushes'[p].state = "queued"
      BY <1>0, <2>1, <2>4 DEF End, PushState, NewPush
    <3>2. \A r \in Push \ {p} : Buffered(r)' => Buffered(r)
      BY <2>2, <2>4, PutBuffers DEF Item
    <3>3. QED
      BY <1>0, <2>1, <3>1, <3>2 DEF OnlyQueuedArrives
  <2>5. QED
    BY <1>5, <2>3, <2>4 DEF SendOrFail
<1>6. ASSUME NEW w \in Worker, SendKeepalive(w) PROVE OnlyQueuedArrives'
  <2>1. taskStreams[w] \in Call /\ UNCHANGED <<pushes, delivered>>
    BY <1>6 DEF SendKeepalive, TypeOK
  <2>2. \A p \in Push : Buffered(p)' => Buffered(p)
    BY <1>6, <2>1, PutBuffers DEF SendKeepalive, Item
  <2>3. QED
    BY <1>0, <2>1, <2>2 DEF OnlyQueuedArrives
<1>7. CASE CloseAllStreams
  <2>1. /\ UNCHANGED <<pushes, delivered>>
        /\ \A c \in Call : channels'[c].buffer = channels[c].buffer
    BY <1>0, <1>7 DEF CloseAllStreams, Channel
  <2>2. QED
    BY <1>q, <2>1
<1>8. CASE \/ ChangeLeader \/ CancelShutdownCtx \/ StopServer \/ UNCHANGED vars
           \/ \E c \in Call : \/ RegisterStream(c) \/ EndLoop(c) \/ Disconnect(c)
                              \/ \E w \in Worker : ReceiveTasks(c, w)
  <2>1. UNCHANGED <<channels, pushes, delivered>>
    BY <1>8 DEF ChangeLeader, CancelShutdownCtx, StopServer, vars,
         RegisterStream, EndLoop, Disconnect, ReceiveTasks
  <2>2. QED
    BY <1>1, <2>1
<1>9. QED
  BY <1>2, <1>3, <1>4, <1>5, <1>6, <1>7, <1>8 DEF Next, Handle, Shutdown

-----------------------------------------------------------------------------
LEMMA StreamsInvariant == Spec => [](TypeOK /\ MapInv /\ OnlyQueuedArrives)
<1>1. Init => OnlyQueuedArrives
  BY DEF Init, OnlyQueuedArrives, Buffered, ToSet, NewPush
<1>2. QED
  BY <1>1, InitMapInv, StreamsTypes, StreamsMap, StreamsDelivery, PTL DEF Spec

\* Calls, channels, map and pushes stay well typed, and no channel ever holds
\* more than its buffer.
THEOREM StreamsTypeOK == Spec => []TypeOK
  BY StreamsInvariant, PTL

\* A channel found in taskStreams is open, for any number of overlapping calls
\* of a worker and any moment of the shutdown.
THEOREM StreamsMappedIsOpen == Spec => []MappedIsOpen
<1>1. MapInv => MappedIsOpen
  BY DEF MapInv
<1>2. QED
  BY <1>1, StreamsInvariant, PTL

\* A task PushTaskToWorker has given up is in no channel and with no worker.
THEOREM StreamsFailedIsNotDelivered == Spec => []FailedIsNotDelivered
<1>1. OnlyQueuedArrives => FailedIsNotDelivered
  BY DEF OnlyQueuedArrives, FailedIsNotDelivered
<1>2. QED
  BY <1>1, StreamsInvariant, PTL
=============================================================================
