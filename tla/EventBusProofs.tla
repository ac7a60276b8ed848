--------------------------- MODULE EventBusProofs ---------------------------
(***************************************************************************)
(* Proofs, for any number of tasks, subscriptions and faults and any       *)
(* capacity, that the state keeps its type, that the bus implements        *)
(* LossyEvents, and that its channels are misused only after Close.        *)
(*                                                                         *)
(* Order: what is on its way to a subscriber, from the connection through  *)
(* the receiver's hand to the channel, is ascending and newer than what    *)
(* the subscriber has taken.                                               *)
(***************************************************************************)
EXTENDS EventBus, TLAPS

Ascending(q) == \A i, j \in DOMAIN q : i < j => q[i] < q[j]

Above(q, n) == \A i \in DOMAIN q : n < q[i]

\* What is under way to s, in order.
OnTheWay(s) ==
  /\ Ascending(buffer[s]) /\ Ascending(wire[s])
  /\ Above(buffer[s], last[s]) /\ Above(wire[s], last[s])
  /\ \A i \in DOMAIN buffer[s] : Above(wire[s], buffer[s][i])
  /\ \A i \in DOMAIN buffer[s] : buffer[s][i] <= published
  /\ \A i \in DOMAIN wire[s] : wire[s][i] <= published
  /\ recv[s] = "send" =>
       /\ hold[s] <= published
       /\ last[s] < hold[s] /\ Above(wire[s], hold[s])
       /\ \A i \in DOMAIN buffer[s] : buffer[s][i] < hold[s]

\* Until Close only its own receiver closes a channel, as its last act.
OpenUntilClose ==
  ~Cancelled => \A s \in Sub :
    recv[s] \in {"check", "receive", "send", "backoff", "close"} => open[s]

\* The inductive invariant.
BusInv ==
  /\ TypeOK
  /\ \A s \in Sub : OnTheWay(s) /\ last[s] <= published
  /\ OpenUntilClose
  /\ CrashOnlyOnClose

USE EventBusAssumption

LEMMA EmptySequence == <<>> \in Seq(Nat) /\ Len(<<>>) = 0
  OBVIOUS

LEMMA InitBusInv == Init => BusInv
<1> SUFFICES ASSUME Init PROVE BusInv
  OBVIOUS
<1>1. BusTypeOK
  BY EmptySequence DEF Init, BusTypeOK
<1>4. LoopTypeOK
  BY DEF Init, LoopTypeOK
<1>5. EnvTypeOK
  <2>1. enabled \in BOOLEAN /\ leader \in BOOLEAN /\ crashed \in BOOLEAN
    BY Zenon DEF Init
  <2>2. /\ created = 0 /\ announced = 0 /\ published = 0 /\ main = "run"
        /\ faults = 0
    BY Zenon DEF Init
  <2> QED BY <2>1, <2>2 DEF EnvTypeOK
<1>2. \A s \in Sub : OnTheWay(s) /\ last[s] <= published
  BY DEF Init, OnTheWay, Ascending, Above
<1>3. OpenUntilClose /\ CrashOnlyOnClose
  BY DEF Init, OpenUntilClose, CrashOnlyOnClose
<1> QED BY <1>1, <1>2, <1>3, <1>4, <1>5 DEF BusInv, TypeOK

LEMMA SequencesStay ==
  ASSUME NEW q \in Seq(Nat)
  PROVE  /\ q # <<>> => /\ Tail(q) \in Seq(Nat) /\ Head(q) \in Nat
                        /\ Len(Tail(q)) = Len(q) - 1
         /\ \A x \in Nat : Append(q, x) \in Seq(Nat)
                             /\ Len(Append(q, x)) = Len(q) + 1
  OBVIOUS

LEMMA EnvTypes == TypeOK /\ [Next]_vars => EnvTypeOK'
<1> SUFFICES ASSUME TypeOK, [Next]_vars PROVE EnvTypeOK'
  OBVIOUS
<1> USE DEF TypeOK, EnvTypeOK, Fault, MainTo, envVars, taskVars
<1>1. CASE CreateTask \/ Publish \/ PublishFails
  <2>1. CASE CreateTask
    BY <2>1 DEF CreateTask
  <2>2. CASE Publish
    BY <2>2 DEF Publish
  <2>3. CASE PublishFails
    BY <2>3 DEF PublishFails
  <2> QED BY <1>1, <2>1, <2>2, <2>3
<1>2. ASSUME NEW s \in Sub, Receiver(s) PROVE EnvTypeOK'
  BY <1>2 DEF Receiver, Check, ReceiveMessage, Redial, ReceiveError, Wake, Send,
              CloseChannel, Delete
<1>3. ASSUME NEW s \in Sub, EventLoop(s) PROVE EnvTypeOK'
  BY <1>3 DEF EventLoop, Subscribe, Register, TakeEvent, EndLoop, Cycle, Schedule,
              ScheduleFails
<1>4. ASSUME NEW s \in Sub, Panic(s) \/ Disconnect(s) PROVE EnvTypeOK'
  <2>1. /\ faults' \in 0..MaxFaults
        /\ UNCHANGED <<envVars, main, crashed>>
    BY <1>4 DEF Panic, Disconnect
  <2> QED BY <2>1
<1>5. CASE Polling
  <2>1. faults' \in 0..MaxFaults /\ UNCHANGED <<envVars, main, crashed>>
    BY <1>5 DEF Polling, Tick, PollCycle, EndPolling, Schedule, ScheduleFails
  <2> QED BY <2>1
<1>8. CASE LeaderChanges
  BY <1>8 DEF LeaderChanges
<1>6. CASE Shutdown
  BY <1>6 DEF Shutdown, Stop, CancelBus, CloseChannels, CloseRedis
<1>7. CASE UNCHANGED vars
  BY <1>7 DEF vars
<1>9. ASSUME NEW t \in seen, TaskReturns(t) PROVE EnvTypeOK'
  BY <1>9 DEF TaskReturns
<1> QED BY <1>1, <1>2, <1>3, <1>4, <1>5, <1>6, <1>7, <1>8, <1>9 DEF Next

LEMMA LoopTypes == TypeOK /\ [Next]_vars => LoopTypeOK'
<1> SUFFICES ASSUME TypeOK, [Next]_vars PROVE LoopTypeOK'
  OBVIOUS
<1> USE DEF TypeOK, LoopTypeOK, EnvTypeOK, LoopTo, loopVars, queueVars, envVars,
     taskVars
<1>1. CASE CreateTask \/ Publish \/ PublishFails
  <2>1. CASE CreateTask
    <3>1. created' = created + 1 /\ created \in Nat
      BY <2>1 DEF CreateTask
    <3>2. 1..created \subseteq 1..created' /\ created' \in 1..created'
      BY <3>1
    <3> QED BY <2>1, <3>1, <3>2 DEF CreateTask
  <2>2. CASE Publish \/ PublishFails
    BY <2>2 DEF Publish, PublishFails
  <2> QED BY <1>1, <2>1, <2>2
<1>0. ASSUME Schedule \/ ScheduleFails
      PROVE  pending' \subseteq 1..created /\ seen' \subseteq 1..created
  BY <1>0 DEF Schedule, ScheduleFails, Batch
<1>9. ASSUME NEW t \in seen, TaskReturns(t) PROVE LoopTypeOK'
  BY <1>9 DEF TaskReturns
<1>2. ASSUME NEW s \in Sub, Receiver(s) PROVE LoopTypeOK'
  BY <1>2 DEF Receiver, Check, ReceiveMessage, Redial, ReceiveError, Wake, Send,
              CloseChannel, Delete
<1>3. ASSUME NEW s \in Sub, EventLoop(s) PROVE LoopTypeOK'
  <2>1. CASE TakeEvent(s)
    BY <2>1, SequencesStay DEF TakeEvent, BusTypeOK
  <2>2. CASE Cycle(s)
    BY <1>0, <2>2 DEF Cycle
  <2>3. CASE Subscribe(s) \/ Register(s) \/ EndLoop(s)
    BY <2>3 DEF Subscribe, Register, EndLoop
  <2> QED BY <1>3, <2>1, <2>2, <2>3 DEF EventLoop
<1>4. ASSUME NEW s \in Sub, Panic(s) \/ Disconnect(s) PROVE LoopTypeOK'
  BY <1>4 DEF Panic, Disconnect
<1>5. CASE Polling \/ LeaderChanges
  <2>1. CASE PollCycle
    BY <1>0, <2>1 DEF PollCycle
  <2>2. CASE Tick \/ EndPolling \/ LeaderChanges
    BY <2>2 DEF Tick, EndPolling, LeaderChanges
  <2> QED BY <1>5, <2>1, <2>2 DEF Polling
<1>6. CASE Shutdown
  BY <1>6 DEF Shutdown, Stop, CancelBus, CloseChannels, CloseRedis
<1>7. CASE UNCHANGED vars
  BY <1>7 DEF vars
<1> QED BY <1>1, <1>2, <1>3, <1>4, <1>5, <1>6, <1>7, <1>9 DEF Next

LEMMA BusTypes == TypeOK /\ [Next]_vars => BusTypeOK'
<1> SUFFICES ASSUME TypeOK, [Next]_vars PROVE BusTypeOK'
  OBVIOUS
<1> USE DEF TypeOK, BusTypeOK, RecvTo, busVars
<1>1. CASE Publish
  BY <1>1, SequencesStay DEF Publish, EnvTypeOK
<1>2. CASE CreateTask \/ PublishFails \/ Polling \/ LeaderChanges
           \/ \E t \in seen : TaskReturns(t)
  BY <1>2 DEF CreateTask, PublishFails, Polling, Tick, PollCycle, EndPolling,
              LeaderChanges, TaskReturns
<1>3. ASSUME NEW s \in Sub, Receiver(s) PROVE BusTypeOK'
  <2>1. CASE Check(s) \/ Redial(s) \/ ReceiveError(s) \/ Wake(s)
    BY <2>1 DEF Check, Redial, ReceiveError, Wake
  <2>2. CASE ReceiveMessage(s)
    <3>1. Tail(wire[s]) \in Seq(Nat) /\ Head(wire[s]) \in Nat
      BY <2>2, SequencesStay DEF ReceiveMessage
    <3> QED BY <2>2, <3>1 DEF ReceiveMessage
  <2>3. CASE Send(s)
    <3>1. CASE UNCHANGED buffer
      <4>1. /\ recv[s] = "send"
            /\ recv' = recv \/ recv' = [recv EXCEPT ![s] = "check"]
                 \/ recv' = [recv EXCEPT ![s] = "close"]
            /\ hold' = hold \/ hold' = [hold EXCEPT ![s] = 0]
            /\ UNCHANGED <<wire, conn, open, mapped>>
        BY <2>3 DEF Send
      <4>2. PICK there \in {"send", "check", "close"} :
              recv' = [recv EXCEPT ![s] = there]
        BY <4>1
      <4>3. hold' \in [Sub -> Nat]
        <5>1. hold \in [Sub -> Nat]
          OBVIOUS
        <5>2. CASE hold' = hold
          BY <5>1, <5>2
        <5>3. CASE hold' = [hold EXCEPT ![s] = 0]
          BY <5>1, <5>3
        <5> QED BY <4>1, <5>2, <5>3
      <4>4. recv' \in [Sub -> {"off", "check", "receive", "send", "backoff",
                             "close", "delete", "ended"}]
        BY <4>2
      <4>5. \A r \in mapped' : recv'[r] \notin {"off", "ended"}
        BY <4>1, <4>2
      <4> QED BY <3>1, <4>1, <4>3, <4>4, <4>5
    <3>2. CASE ~UNCHANGED buffer
      <4>1. /\ Len(buffer[s]) < Capacity /\ recv[s] = "send"
            /\ buffer' = [buffer EXCEPT ![s] = Append(@, hold[s])]
            /\ hold' = [hold EXCEPT ![s] = 0]
            /\ recv' = [recv EXCEPT ![s] = "check"]
            /\ UNCHANGED <<wire, conn, open, mapped>>
        BY <2>3, <3>2 DEF Send
      <4>2. /\ Append(buffer[s], hold[s]) \in Seq(Nat)
            /\ Len(Append(buffer[s], hold[s])) <= Capacity
        BY <4>1, SequencesStay
      <4> QED BY <4>1, <4>2
    <3> QED BY <3>1, <3>2
  <2>4. CASE CloseChannel(s)
    <3>1. CASE open[s]
      <4>1. /\ open' = [open EXCEPT ![s] = FALSE]
            /\ conn' = [conn EXCEPT ![s] = "none"]
            /\ wire' = [wire EXCEPT ![s] = <<>>]
            /\ recv' = [recv EXCEPT ![s] = "delete"]
            /\ UNCHANGED <<buffer, mapped, hold>>
        BY <2>4, <3>1 DEF CloseChannel
      <4>2. wire' \in [Sub -> Seq(Nat)]
        BY <4>1, EmptySequence
      <4> QED BY <4>1, <4>2
    <3>2. CASE ~open[s]
      BY <2>4, <3>2 DEF CloseChannel
    <3> QED BY <3>1, <3>2
  <2>5. CASE Delete(s)
    BY <2>5 DEF Delete
  <2> QED BY <1>3, <2>1, <2>2, <2>3, <2>4, <2>5 DEF Receiver
<1>4. ASSUME NEW s \in Sub, EventLoop(s) PROVE BusTypeOK'
  <2>1. CASE Subscribe(s)
    BY <2>1 DEF Subscribe
  <2>2. CASE Register(s)
    BY <2>2 DEF Register
  <2>3. CASE TakeEvent(s)
    <3>1. Tail(buffer[s]) \in Seq(Nat) /\ Len(Tail(buffer[s])) <= Capacity
      BY <2>3, SequencesStay DEF TakeEvent
    <3> QED BY <2>3, <3>1 DEF TakeEvent
  <2>4. CASE EndLoop(s) \/ Cycle(s)
    BY <2>4 DEF EndLoop, Cycle
  <2> QED BY <1>4, <2>1, <2>2, <2>3, <2>4 DEF EventLoop
<1>5. ASSUME NEW s \in Sub, Panic(s) \/ Disconnect(s) PROVE BusTypeOK'
  <2>1. CASE Panic(s)
    BY <2>1 DEF Panic
  <2>2. CASE Disconnect(s)
    BY <2>2, EmptySequence DEF Disconnect
  <2> QED BY <1>5, <2>1, <2>2
<1>6. CASE Shutdown
  <2>1. CASE Stop \/ CancelBus
    BY <2>1 DEF Stop, CancelBus
  <2>2. CASE CloseChannels
    BY <2>2 DEF CloseChannels
  <2>3. CASE CloseRedis
    BY <2>3, EmptySequence DEF CloseRedis
  <2> QED BY <1>6, <2>1, <2>2, <2>3 DEF Shutdown
<1>7. CASE UNCHANGED vars
  BY <1>7 DEF vars
<1> QED BY <1>1, <1>2, <1>3, <1>4, <1>5, <1>6, <1>7 DEF Next

LEMMA Types == TypeOK /\ [Next]_vars => TypeOK'
  BY EnvTypes, LoopTypes, BusTypes DEF TypeOK

\* The state of bus, loops and shutdown keeps its type; a channel in the map
\* has a receiver that has not ended.
THEOREM EventBusTypeOK == Spec => []TypeOK
<1>1. Init => TypeOK
  BY InitBusInv DEF BusInv
<1> QED BY <1>1, Types, PTL DEF Spec

-----------------------------------------------------------------------------
\* Nothing under way to s, and nothing of what s has, changes.
LEMMA WayStays ==
  ASSUME TypeOK, NEW s \in Sub, OnTheWay(s), published' \in Nat,
         published' >= published, buffer'[s] = buffer[s], wire'[s] = wire[s],
         last'[s] = last[s], recv'[s] # "send" \/ (recv'[s] = recv[s] /\ hold'[s] = hold[s])
  PROVE  OnTheWay(s)'
<1>1. buffer[s] \in Seq(Nat) /\ wire[s] \in Seq(Nat) /\ hold[s] \in Nat
  BY DEF TypeOK, BusTypeOK
<1>2. published \in Nat
  BY DEF TypeOK, EnvTypeOK
<1> QED BY <1>1, <1>2 DEF OnTheWay, Ascending, Above

\* What was under way in the connection is lost.
LEMMA WayCut ==
  ASSUME TypeOK, NEW s \in Sub, OnTheWay(s), UNCHANGED published,
         buffer'[s] = buffer[s], wire'[s] = <<>>, last'[s] = last[s],
         recv'[s] # "send" \/ (recv'[s] = recv[s] /\ hold'[s] = hold[s])
  PROVE  OnTheWay(s)'
<1>1. buffer[s] \in Seq(Nat) /\ hold[s] \in Nat
  BY DEF TypeOK, BusTypeOK
<1> QED BY <1>1 DEF OnTheWay, Ascending, Above

LEMMA AppendAscending ==
  ASSUME NEW q \in Seq(Nat), NEW x \in Nat, Ascending(q),
         \A i \in DOMAIN q : q[i] < x
  PROVE  Ascending(Append(q, x))
<1> DEFINE r == Append(q, x)
<1>1. /\ DOMAIN r = 1..Len(q) + 1 /\ r[Len(q) + 1] = x /\ Len(q) \in Nat
      /\ DOMAIN q = 1..Len(q) /\ \A i \in DOMAIN q : r[i] = q[i]
  OBVIOUS
<1> HIDE DEF r
<1>2. ASSUME NEW i \in DOMAIN r, NEW j \in DOMAIN r, i < j PROVE r[i] < r[j]
  <2>1. i \in DOMAIN q
    BY <1>1, <1>2
  <2>2. CASE j = Len(q) + 1
    BY <1>1, <2>1, <2>2
  <2>3. CASE j # Len(q) + 1
    BY <1>1, <1>2, <2>1, <2>3 DEF Ascending
  <2> QED BY <2>2, <2>3
<1>3. Ascending(r)
  BY <1>2 DEF Ascending
<1> QED BY <1>3 DEF r

LEMMA AppendAbove ==
  ASSUME NEW q \in Seq(Nat), NEW x \in Nat, NEW n, Above(q, n), n < x
  PROVE  Above(Append(q, x), n)
  BY DEF Above

LEMMA TailAscending ==
  ASSUME NEW q \in Seq(Nat), q # <<>>, Ascending(q)
  PROVE  Ascending(Tail(q)) /\ Above(Tail(q), Head(q))
<1> DEFINE r == Tail(q)
<1>1. /\ DOMAIN r = 1..Len(q) - 1 /\ DOMAIN q = 1..Len(q) /\ Len(q) \in Nat
      /\ Head(q) = q[1] /\ 1 \in DOMAIN q
      /\ \A i \in DOMAIN r : r[i] = q[i + 1] /\ i + 1 \in DOMAIN q /\ 1 < i + 1
  OBVIOUS
<1> HIDE DEF r
<1>2. Ascending(r)
  BY <1>1 DEF Ascending
<1>3. Above(r, Head(q))
  BY <1>1 DEF Above, Ascending
<1> QED BY <1>2, <1>3 DEF r

LEMMA TailAbove ==
  ASSUME NEW q \in Seq(Nat), q # <<>>, NEW n, Above(q, n)
  PROVE  Above(Tail(q), n) /\ n < Head(q)
  BY DEF Above

\* A new event is newer than all there are.
LEMMA WayGrows ==
  ASSUME TypeOK, NEW s \in Sub, OnTheWay(s), published' = published + 1,
         wire'[s] = Append(wire[s], published + 1),
         buffer'[s] = buffer[s], last'[s] = last[s], last[s] <= published,
         recv'[s] = recv[s], hold'[s] = hold[s]
  PROVE  OnTheWay(s)'
<1>1. /\ buffer[s] \in Seq(Nat) /\ wire[s] \in Seq(Nat) /\ hold[s] \in Nat
      /\ published \in Nat /\ last[s] \in Nat
  BY DEF TypeOK, BusTypeOK, LoopTypeOK, EnvTypeOK
<1>2. /\ DOMAIN wire'[s] = 1..Len(wire[s]) + 1
      /\ wire'[s][Len(wire[s]) + 1] = published + 1
      /\ \A i \in DOMAIN wire[s] : wire'[s][i] = wire[s][i]
      /\ DOMAIN wire[s] = 1..Len(wire[s]) /\ Len(wire[s]) \in Nat
  BY <1>1
<1>9. \A i \in DOMAIN wire[s] : wire[s][i] \in Nat /\ wire[s][i] <= published
  <2>1. \A i \in DOMAIN wire[s] : wire[s][i] <= published
    BY Zenon DEF OnTheWay
  <2> QED BY <1>1, <2>1
<1>10. \A i \in DOMAIN buffer[s] : buffer[s][i] \in Nat /\ buffer[s][i] <= published
  <2>1. \A i \in DOMAIN buffer[s] : buffer[s][i] <= published
    BY Zenon DEF OnTheWay
  <2> QED BY <1>1, <2>1
<1>3. Ascending(wire'[s]) /\ Above(wire'[s], last'[s])
  <2>1. \A i \in DOMAIN wire[s] : wire[s][i] < published + 1
    BY <1>1, <1>9
  <2>2. Ascending(wire[s]) /\ Above(wire[s], last[s])
    BY Zenon DEF OnTheWay
  <2> QED BY <1>1, <2>1, <2>2, AppendAscending, AppendAbove
<1>4. \A i \in DOMAIN buffer'[s] : Above(wire'[s], buffer'[s][i])
  <2>1. \A i \in DOMAIN buffer[s] : Above(wire[s], buffer[s][i])
    BY Zenon DEF OnTheWay
  <2>2. ASSUME NEW i \in DOMAIN buffer[s] PROVE Above(wire'[s], buffer[s][i])
    <3>1. Above(wire[s], buffer[s][i]) /\ buffer[s][i] < published + 1
      BY <1>1, <1>10, <2>1
    <3>2. published + 1 \in Nat
      BY <1>1
    <3> QED BY <1>1, <3>1, <3>2, AppendAbove
  <2> QED BY <2>2
<1>5. recv'[s] = "send" => Above(wire'[s], hold'[s])
  <2>1. recv[s] = "send" => Above(wire[s], hold[s]) /\ hold[s] < published + 1
    BY <1>1 DEF OnTheWay
  <2> QED BY <1>1, <2>1, AppendAbove
<1>6. /\ \A i \in DOMAIN buffer'[s] : buffer'[s][i] <= published'
      /\ \A i \in DOMAIN wire'[s] : wire'[s][i] <= published'
  <2>1. \A i \in DOMAIN buffer[s] : buffer[s][i] <= published + 1
    BY <1>1, <1>10
  <2>2. ASSUME NEW i \in DOMAIN wire'[s] PROVE wire'[s][i] <= published + 1
    <3>1. CASE i \in DOMAIN wire[s]
      <4>1. wire'[s][i] \in Nat /\ wire'[s][i] <= published
        BY <1>2, <1>9, <3>1
      <4> QED BY <1>1, <4>1
    <3>2. CASE i = Len(wire[s]) + 1
      BY <1>1, <1>2, <3>2
    <3> QED BY <1>2, <3>1, <3>2
  <2> QED BY <2>1, <2>2
<1>7. recv'[s] = "send" =>
        /\ hold'[s] <= published' /\ last'[s] < hold'[s]
        /\ \A i \in DOMAIN buffer'[s] : buffer'[s][i] < hold'[s]
  BY <1>1 DEF OnTheWay
<1>8. Ascending(buffer'[s]) /\ Above(buffer'[s], last'[s])
  BY DEF OnTheWay
<1> QED BY <1>3, <1>4, <1>5, <1>6, <1>7, <1>8 DEF OnTheWay

\* The oldest in the connection comes to the receiver's hand.
LEMMA WayToHand ==
  ASSUME TypeOK, NEW s \in Sub, OnTheWay(s), wire[s] # <<>>,
         hold'[s] = Head(wire[s]), wire'[s] = Tail(wire[s]),
         buffer'[s] = buffer[s], UNCHANGED <<last, published>>
  PROVE  OnTheWay(s)'
<1>1. /\ buffer[s] \in Seq(Nat) /\ wire[s] \in Seq(Nat)
      /\ published \in Nat /\ last[s] \in Nat
  BY DEF TypeOK, BusTypeOK, LoopTypeOK, EnvTypeOK
<1>2. /\ DOMAIN wire'[s] = 1..Len(wire[s]) - 1 /\ DOMAIN wire[s] = 1..Len(wire[s])
      /\ \A i \in 1..Len(wire[s]) - 1 : wire'[s][i] = wire[s][i + 1]
      /\ hold'[s] = wire[s][1] /\ 1 \in DOMAIN wire[s] /\ Len(wire[s]) \in Nat
  BY <1>1
<1>3. \A i \in DOMAIN wire'[s] : i + 1 \in DOMAIN wire[s] /\ 1 < i + 1
                                  /\ wire'[s][i] = wire[s][i + 1]
  BY <1>2
<1>4. Ascending(wire'[s]) /\ Above(wire'[s], hold'[s]) /\ Above(wire'[s], last'[s])
  BY <1>1, TailAscending, TailAbove DEF OnTheWay
<1>5. \A i \in DOMAIN buffer'[s] :
        Above(wire'[s], buffer'[s][i]) /\ buffer'[s][i] < hold'[s]
  BY <1>1, <1>2, <1>3 DEF OnTheWay, Above
<1>6. hold'[s] <= published' /\ last'[s] < hold'[s]
  BY <1>1, <1>2 DEF OnTheWay, Above
<1>7. \A i \in DOMAIN wire'[s] : wire'[s][i] <= published'
  BY <1>2, <1>3 DEF OnTheWay
<1> QED BY <1>1, <1>4, <1>5, <1>6, <1>7 DEF OnTheWay

\* What is in hand goes behind what is in the channel.
LEMMA WayToChannel ==
  ASSUME TypeOK, NEW s \in Sub, OnTheWay(s), recv[s] = "send", recv'[s] = "check",
         buffer'[s] = Append(buffer[s], hold[s]), wire'[s] = wire[s],
         UNCHANGED <<last, published>>
  PROVE  OnTheWay(s)'
<1>1. /\ buffer[s] \in Seq(Nat) /\ wire[s] \in Seq(Nat) /\ hold[s] \in Nat
      /\ published \in Nat /\ last[s] \in Nat
  BY DEF TypeOK, BusTypeOK, LoopTypeOK, EnvTypeOK
<1>2. /\ DOMAIN buffer'[s] = 1..Len(buffer[s]) + 1
      /\ buffer'[s][Len(buffer[s]) + 1] = hold[s]
      /\ \A i \in DOMAIN buffer[s] : buffer'[s][i] = buffer[s][i]
      /\ DOMAIN buffer[s] = 1..Len(buffer[s]) /\ Len(buffer[s]) \in Nat
  BY <1>1
<1>3. Ascending(buffer'[s]) /\ Above(buffer'[s], last'[s])
  BY <1>1, AppendAscending, AppendAbove DEF OnTheWay
<1>4. \A i \in DOMAIN buffer'[s] : Above(wire'[s], buffer'[s][i])
  BY <1>1, <1>2 DEF OnTheWay
<1>5. \A i \in DOMAIN buffer'[s] : buffer'[s][i] <= published'
  BY <1>1, <1>2 DEF OnTheWay
<1> QED BY <1>1, <1>3, <1>4, <1>5 DEF OnTheWay

\* The oldest in the channel is taken.
LEMMA WayEnds ==
  ASSUME TypeOK, NEW s \in Sub, OnTheWay(s), buffer[s] # <<>>,
         last'[s] = Head(buffer[s]), buffer'[s] = Tail(buffer[s]),
         UNCHANGED <<wire, recv, hold, published>>
  PROVE  OnTheWay(s)' /\ last[s] < last'[s] /\ last'[s] <= published
<1>1. /\ buffer[s] \in Seq(Nat) /\ wire[s] \in Seq(Nat) /\ hold[s] \in Nat
      /\ published \in Nat /\ last[s] \in Nat
  BY DEF TypeOK, BusTypeOK, LoopTypeOK, EnvTypeOK
<1>2. /\ DOMAIN buffer'[s] = 1..Len(buffer[s]) - 1
      /\ DOMAIN buffer[s] = 1..Len(buffer[s])
      /\ \A i \in 1..Len(buffer[s]) - 1 : buffer'[s][i] = buffer[s][i + 1]
      /\ last'[s] = buffer[s][1] /\ 1 \in DOMAIN buffer[s] /\ Len(buffer[s]) \in Nat
  BY <1>1
<1>3. \A i \in DOMAIN buffer'[s] : i + 1 \in DOMAIN buffer[s] /\ 1 < i + 1
                                    /\ buffer'[s][i] = buffer[s][i + 1]
  BY <1>2
<1>4. Ascending(buffer'[s]) /\ Above(buffer'[s], last'[s])
  BY <1>1, TailAscending DEF OnTheWay
<1>5. Above(wire'[s], last'[s])
        /\ \A i \in DOMAIN buffer'[s] : Above(wire'[s], buffer'[s][i])
  BY <1>2, <1>3 DEF OnTheWay
<1>6. recv'[s] = "send" =>
        /\ last'[s] < hold'[s] /\ Above(wire'[s], hold'[s]) /\ hold'[s] <= published'
        /\ \A i \in DOMAIN buffer'[s] : buffer'[s][i] < hold'[s]
  BY <1>2, <1>3 DEF OnTheWay
<1>7. \A i \in DOMAIN buffer'[s] : buffer'[s][i] <= published'
  BY <1>2, <1>3 DEF OnTheWay
<1>8. last[s] < last'[s] /\ last'[s] <= published
  BY <1>2 DEF OnTheWay, Above
<1> QED BY <1>4, <1>5, <1>6, <1>7, <1>8 DEF OnTheWay

\* One lemma above per way a step can move an event; all other steps leave what
\* is under way alone.
LEMMA WaysStep ==
  TypeOK /\ (\A s \in Sub : OnTheWay(s) /\ last[s] <= published) /\ [Next]_vars
    => \A s \in Sub : OnTheWay(s)' /\ last'[s] <= published'
<1> SUFFICES ASSUME TypeOK, \A s \in Sub : OnTheWay(s) /\ last[s] <= published,
                    [Next]_vars, NEW r \in Sub
             PROVE  OnTheWay(r)' /\ last'[r] <= published'
  OBVIOUS
<1>t. /\ published \in Nat /\ last \in [Sub -> Nat] /\ hold \in [Sub -> Nat]
      /\ wire \in [Sub -> Seq(Nat)] /\ buffer \in [Sub -> Seq(Nat)]
      /\ recv \in [Sub -> {"off", "check", "receive", "send", "backoff", "close",
                           "delete", "ended"}]
  BY DEF TypeOK, BusTypeOK, LoopTypeOK, EnvTypeOK
<1>o. OnTheWay(r) /\ last[r] <= published
  OBVIOUS
<1> USE DEF RecvTo, LoopTo, busVars, loopVars, envVars, taskVars
<1>1. CASE Publish
  <2>1. CASE wire'[r] = wire[r]
    BY <1>1, <1>t, <1>o, <2>1, WayStays DEF Publish
  <2>2. CASE wire'[r] # wire[r]
    <3>1. wire'[r] = Append(wire[r], published + 1)
      BY <1>1, <1>t, <2>2 DEF Publish
    <3> QED BY <1>1, <1>t, <1>o, <3>1, WayGrows DEF Publish
  <2> QED BY <2>1, <2>2
<1>2. CASE CreateTask \/ PublishFails \/ Polling \/ LeaderChanges \/ Stop
           \/ CancelBus \/ CloseChannels \/ UNCHANGED vars
           \/ \E t \in seen : TaskReturns(t)
  <2>1. UNCHANGED <<wire, buffer, recv, hold, last, published>>
    BY <1>2 DEF CreateTask, PublishFails, Polling, Tick, PollCycle, EndPolling,
                LeaderChanges, Stop, CancelBus, CloseChannels, TaskReturns, vars
  <2> QED BY <1>t, <1>o, <2>1, WayStays
<1>3. ASSUME NEW s \in Sub, Receiver(s) PROVE OnTheWay(r)' /\ last'[r] <= published'
  <2>1. UNCHANGED <<last, published>>
    BY <1>3 DEF Receiver, Check, ReceiveMessage, Redial, ReceiveError, Wake, Send,
                CloseChannel, Delete
  <2>2. CASE Check(s) \/ Redial(s) \/ ReceiveError(s) \/ Wake(s) \/ Delete(s)
    <3>1. /\ UNCHANGED <<wire, buffer, hold>>
          /\ recv'[r] # "send" \/ recv'[r] = recv[r]
      BY <1>t, <2>2 DEF Check, Redial, ReceiveError, Wake, Delete
    <3> QED BY <1>t, <1>o, <2>1, <3>1, WayStays
  <2>3. CASE ReceiveMessage(s)
    <3>1. CASE r = s
      <4>1. /\ wire[r] # <<>> /\ hold'[r] = Head(wire[r]) /\ wire'[r] = Tail(wire[r])
            /\ buffer'[r] = buffer[r]
        BY <1>t, <2>3, <3>1 DEF ReceiveMessage
      <4> QED BY <1>t, <1>o, <2>1, <4>1, WayToHand
    <3>2. CASE r # s
      <4>1. /\ wire'[r] = wire[r] /\ buffer'[r] = buffer[r]
            /\ recv'[r] = recv[r] /\ hold'[r] = hold[r]
        BY <1>t, <2>3, <3>2 DEF ReceiveMessage
      <4> QED BY <1>t, <1>o, <2>1, <4>1, WayStays
    <3> QED BY <3>1, <3>2
  <2>4. CASE Send(s)
    <3>1. CASE buffer'[r] # buffer[r]
      <4>1. /\ r = s /\ recv[r] = "send" /\ recv'[r] = "check"
            /\ buffer'[r] = Append(buffer[r], hold[r]) /\ wire'[r] = wire[r]
        BY <1>t, <2>4, <3>1 DEF Send
      <4> QED BY <1>t, <1>o, <2>1, <4>1, WayToChannel
    <3>2. CASE buffer'[r] = buffer[r]
      <4>1. wire'[r] = wire[r]
        BY <2>4 DEF Send
      <4>2. recv'[r] # "send" \/ (recv'[r] = recv[r] /\ hold'[r] = hold[r])
        BY <1>t, <2>4 DEF Send
      <4> QED BY <1>t, <1>o, <2>1, <3>2, <4>1, <4>2, WayStays
    <3> QED BY <3>1, <3>2
  <2>5. CASE CloseChannel(s)
    <3>1. /\ UNCHANGED <<buffer, hold>> /\ wire'[r] \in {wire[r], <<>>}
          /\ recv'[r] # "send" \/ recv'[r] = recv[r]
      BY <1>t, <2>5 DEF CloseChannel
    <3>2. CASE wire'[r] = wire[r]
      BY <1>t, <1>o, <2>1, <3>1, <3>2, WayStays
    <3>3. CASE wire'[r] = <<>>
      BY <1>t, <1>o, <2>1, <3>1, <3>3, WayCut
    <3> QED BY <3>1, <3>2, <3>3
  <2> QED BY <1>3, <2>2, <2>3, <2>4, <2>5 DEF Receiver
<1>4. ASSUME NEW s \in Sub, EventLoop(s) PROVE OnTheWay(r)' /\ last'[r] <= published'
  <2>1. CASE TakeEvent(s) /\ r = s
    <3>1. /\ buffer[r] # <<>> /\ last'[r] = Head(buffer[r])
          /\ buffer'[r] = Tail(buffer[r]) /\ UNCHANGED <<wire, recv, hold, published>>
      BY <1>t, <2>1 DEF TakeEvent
    <3>2. OnTheWay(r)' /\ last'[r] <= published
      BY <1>o, <3>1, WayEnds
    <3> QED BY <3>1, <3>2
  <2>2. CASE (TakeEvent(s) /\ r # s) \/ Subscribe(s) \/ Register(s) \/ EndLoop(s)
             \/ Cycle(s)
    <3>1. /\ wire'[r] = wire[r] /\ buffer'[r] = buffer[r] /\ last'[r] = last[r]
          /\ hold'[r] = hold[r] /\ published' = published
          /\ recv'[r] # "send" \/ recv'[r] = recv[r]
      BY <1>t, <2>2 DEF TakeEvent, Subscribe, Register, EndLoop, Cycle
    <3> QED BY <1>t, <1>o, <3>1, WayStays
  <2> QED BY <1>4, <2>1, <2>2 DEF EventLoop
<1>5. ASSUME NEW s \in Sub, Panic(s) PROVE OnTheWay(r)' /\ last'[r] <= published'
  <2>1. UNCHANGED <<wire, buffer, recv, hold, last, published>>
    BY <1>5 DEF Panic
  <2> QED BY <1>t, <1>o, <2>1, WayStays
<1>6. ASSUME NEW s \in Sub, Disconnect(s) \/ CloseRedis
      PROVE  OnTheWay(r)' /\ last'[r] <= published'
  <2>1. /\ UNCHANGED <<buffer, hold, recv, last, published>>
        /\ wire'[r] \in {wire[r], <<>>}
    BY <1>t, <1>6 DEF Disconnect, CloseRedis
  <2>2. CASE wire'[r] = wire[r]
    BY <1>t, <1>o, <2>1, <2>2, WayStays
  <2>3. CASE wire'[r] = <<>>
    BY <1>t, <1>o, <2>1, <2>3, WayCut
  <2> QED BY <2>1, <2>2, <2>3
<1> QED BY <1>1, <1>2, <1>3, <1>4, <1>5, <1>6 DEF Next, Shutdown

\* Who closes channels before Close, and who would find one closed.
LEMMA OpenStep ==
  TypeOK /\ OpenUntilClose /\ CrashOnlyOnClose /\ [Next]_vars
    => OpenUntilClose' /\ CrashOnlyOnClose'
<1> SUFFICES ASSUME TypeOK, OpenUntilClose, CrashOnlyOnClose, [Next]_vars
             PROVE  OpenUntilClose' /\ CrashOnlyOnClose'
  OBVIOUS
<1>t. /\ open \in [Sub -> BOOLEAN]
      /\ recv \in [Sub -> {"off", "check", "receive", "send", "backoff", "close",
                           "delete", "ended"}]
  BY DEF TypeOK, BusTypeOK
<1> USE DEF RecvTo, LoopTo, MainTo, busVars, loopVars, envVars, taskVars,
     OpenUntilClose, CrashOnlyOnClose, Cancelled
<1>1. CASE \/ CreateTask \/ Publish \/ PublishFails \/ Polling \/ LeaderChanges
           \/ \E t \in seen : TaskReturns(t)
           \/ UNCHANGED vars
  <2>1. UNCHANGED <<open, recv, main, crashed>>
    BY <1>1 DEF CreateTask, Publish, PublishFails, Polling, Tick, PollCycle,
                EndPolling, LeaderChanges, TaskReturns, vars
  <2> QED BY <2>1
<1>2. ASSUME NEW s \in Sub, Receiver(s) PROVE OpenUntilClose' /\ CrashOnlyOnClose'
  <2>1. CASE Check(s) \/ ReceiveMessage(s) \/ Redial(s) \/ ReceiveError(s) \/ Wake(s)
    <3>1. /\ UNCHANGED <<open, main, crashed>>
          /\ \A r \in Sub : recv'[r] = recv[r]
               \/ recv[r] \in {"check", "receive", "backoff"}
      BY <1>t, <2>1 DEF Check, ReceiveMessage, Redial, ReceiveError, Wake
    <3> QED BY <3>1
  <2>2. CASE Send(s)
    <3>1. /\ UNCHANGED <<open, main>> /\ recv[s] = "send"
          /\ crashed' = crashed \/ ~open[s]
          /\ \A r \in Sub : recv'[r] = recv[r] \/ r = s
      BY <1>t, <2>2 DEF Send
    <3> QED BY <3>1
  <2>3. CASE CloseChannel(s)
    <3>1. CASE open[s]
      BY <1>t, <2>3, <3>1 DEF CloseChannel
    <3>2. CASE ~open[s]
      BY <1>t, <2>3, <3>2 DEF CloseChannel
    <3> QED BY <3>1, <3>2
  <2>4. CASE Delete(s)
    BY <1>t, <2>4 DEF Delete
  <2> QED BY <1>2, <2>1, <2>2, <2>3, <2>4 DEF Receiver
<1>3. ASSUME NEW s \in Sub, EventLoop(s) PROVE OpenUntilClose' /\ CrashOnlyOnClose'
  <2>1. CASE Register(s)
    BY <1>t, <2>1 DEF Register
  <2>2. CASE Subscribe(s) \/ TakeEvent(s) \/ EndLoop(s) \/ Cycle(s)
    <3>1. UNCHANGED <<open, recv, main, crashed>>
      BY <2>2 DEF Subscribe, TakeEvent, EndLoop, Cycle
    <3> QED BY <3>1
  <2> QED BY <1>3, <2>1, <2>2 DEF EventLoop
<1>4. ASSUME NEW s \in Sub, Panic(s) \/ Disconnect(s)
      PROVE  OpenUntilClose' /\ CrashOnlyOnClose'
  <2>1. UNCHANGED <<open, recv, main, crashed>>
    BY <1>4 DEF Panic, Disconnect
  <2> QED BY <2>1
<1>5. CASE Shutdown
  <2>1. CASE Stop \/ CancelBus
    BY <2>1 DEF Stop, CancelBus
  <2>2. CASE CloseChannels \/ CloseRedis
    BY <2>2 DEF CloseChannels, CloseRedis
  <2> QED BY <1>5, <2>1, <2>2 DEF Shutdown
<1> QED BY <1>1, <1>2, <1>3, <1>4, <1>5 DEF Next

LEMMA BusInvStep == BusInv /\ [Next]_vars => BusInv'
  BY Types, WaysStep, OpenStep DEF BusInv

LEMMA BusInvHolds == Spec => []BusInv
<1> QED BY InitBusInv, BusInvStep, PTL DEF Spec

\* A panic of the bus's channels needs Close: neither a reconnection nor a full
\* channel, a loop that starts again or the scheduler's Stop is enough.
THEOREM EventBusCrash == Spec => []CrashOnlyOnClose
<1>1. BusInv => CrashOnlyOnClose
  BY DEF BusInv
<1> QED BY <1>1, BusInvHolds, PTL

\* What a step means to a subscriber: an event is published, one later than its
\* latest comes, or nothing happens.
LEMMA StepIsLossy ==
  BusInv /\ [Next]_vars => [InOrder!Next]_<<published, last>>
<1> SUFFICES ASSUME BusInv, [Next]_vars PROVE [InOrder!Next]_<<published, last>>
  OBVIOUS
<1>t. published \in Nat /\ last \in [Sub -> Nat] /\ buffer \in [Sub -> Seq(Nat)]
  BY DEF BusInv, TypeOK, BusTypeOK, LoopTypeOK, EnvTypeOK
<1>1. CASE Publish
  BY <1>1 DEF Publish, InOrder!Next, InOrder!Publish, loopVars
<1>2. ASSUME NEW s \in Sub, TakeEvent(s) PROVE InOrder!Come(s)
  <2>1. /\ buffer[s] # <<>> /\ last' = [last EXCEPT ![s] = Head(buffer[s])]
        /\ last'[s] = Head(buffer[s]) /\ buffer'[s] = Tail(buffer[s])
        /\ UNCHANGED <<wire, recv, hold, published>>
    BY <1>2, <1>t DEF TakeEvent, envVars, taskVars
  <2>2. last[s] < last'[s] /\ last'[s] <= published
    BY <2>1, WayEnds DEF BusInv
  <2>3. Head(buffer[s]) \in 1..published
    BY <1>t, <2>1, <2>2
  <2> QED BY <2>1, <2>2, <2>3 DEF InOrder!Come
<1>3. CASE ~Publish /\ \A s \in Sub : ~TakeEvent(s)
  <2>1. UNCHANGED <<published, last>>
    BY <1>3 DEF Next, vars, busVars, loopVars, envVars, taskVars, CreateTask,
       TaskReturns,
       PublishFails, Receiver, Check, ReceiveMessage, Redial, ReceiveError, Wake, Send,
       CloseChannel, Delete, EventLoop, Subscribe, Register, EndLoop, Cycle, Panic,
       Disconnect, Polling, Tick, PollCycle, EndPolling, LeaderChanges, Shutdown, Stop,
       CancelBus, CloseChannels, CloseRedis
  <2> QED BY <2>1
<1> QED BY <1>1, <1>2, <1>3 DEF InOrder!Next

\* The bus delivers what LossyEvents promises: in order, nothing twice.
THEOREM EventBusDelivers == Spec => EventsInOrder
<1>1. Init => InOrder!Init
  BY DEF Init, InOrder!Init
<1> QED BY <1>1, BusInvHolds, StepIsLossy, PTL DEF Spec, EventsInOrder, InOrder!Spec
=============================================================================
