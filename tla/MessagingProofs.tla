-------------------------- MODULE MessagingProofs --------------------------
(***************************************************************************)
(* What holds of the RabbitMQ layer for any queues, messages and number of *)
(* faults: one goroutine looks after the connection, no connection but the *)
(* current one is open, and no message the broker has taken is lost.         *)
(*                                                                         *)
(* The connection is proved about first: KeeperInv says where its keepers  *)
(* can be, PaidFor that faults bound the dials.  Neither depends on what   *)
(* the consumers do.  The deliveries then rest on OnlyCurrentOpen: what is *)
(* held through an open channel is held through c.conn, and requeued when  *)
(* that connection is shut.                                                *)
(***************************************************************************)
EXTENDS Messaging, TLAPS

USE FaultAssumption

\* A keeper answers for the connection: Active, as a predicate of the keeper.
IsActive(k) == keeper[k] \in {"connecting", "dialling", "declaring", "watching", "woken"}

\* Where one keeper can be: who is about to replace the connection has none,
\* and the connection a keeper watches is the current one.
Placed(k) ==
    /\ keeper[k] \in {"connecting", "dialling", "woken"} => conn \notin open
    /\ keeper[k] \in {"watching", "woken"} => k = conn
    /\ keeper[k] \in {"connecting", "dialling"} => k <= conn
    /\ keeper[k] = "declaring" => k < conn

\* No two keepers answer for the connection, and one does until the service is
\* told to stop.
KeeperInv ==
    /\ ConnectionTypeOK
    /\ conn = dialled
    /\ OnlyCurrentOpen
    /\ isClosed => cancelled
    /\ \A k, l \in Keeper : IsActive(k) /\ IsActive(l) => k = l
    /\ ~cancelled => \E k \in Keeper : IsActive(k)
    /\ \A k \in Keeper : Placed(k)

\* Every dial but the first is paid for by a fault.
PaidFor ==
    /\ dialled <= faults + 1
    /\ conn \notin open /\ ~isClosed => dialled <= faults
    /\ \A k \in Keeper :
        /\ keeper[k] = "dialling" => dialled <= faults
        /\ keeper[k] = "connecting" /\ ~cancelled => dialled <= faults

ConnectionInv == KeeperInv /\ PaidFor

LEMMA ConnectionInit == Init => ConnectionInv
<1> SUFFICES ASSUME Init PROVE ConnectionInv
  OBVIOUS
<1>1. ConnectionTypeOK
  <2>1. keeper \in [Keeper -> KeeperStep]
    BY DEF Init, KeeperStep
  <2>2. 0 \in Keeper /\ 0 \in 0 .. MaxFaults
    BY DEF Keeper
  <2>3. QED
    BY <2>1, <2>2 DEF Init, ConnectionTypeOK
<1>2. /\ \A k \in Keeper : keeper[k] = IF k = 0 THEN "connecting" ELSE "none"
      /\ 0 \in Keeper
  BY DEF Init, Keeper
<1>3. /\ \A k, l \in Keeper : IsActive(k) /\ IsActive(l) => k = l
      /\ \E k \in Keeper : IsActive(k)
  BY <1>2 DEF IsActive
<1>4. KeeperInv
  BY <1>1, <1>2, <1>3 DEF Init, KeeperInv, OnlyCurrentOpen, Keeper, Placed
<1>5. PaidFor
  BY <1>2 DEF Init, PaidFor
<1>6. QED
  BY <1>4, <1>5 DEF ConnectionInv

\* A step that moves one keeper on and leaves the connection as it is keeps
\* the invariant if the keeper's new place is one it can be in.
LEMMA KeeperMoves ==
    ASSUME ConnectionInv, NEW k \in Keeper, NEW step \in KeeperStep,
           keeper' = [keeper EXCEPT ![k] = step],
           UNCHANGED <<conn, isClosed, dialled, open, cancelled, faults>>,
           epoch' \in Nat,
           step \notin {"none", "notifying", "done"} => IsActive(k),
           IsActive(k) /\ ~cancelled => step \notin {"none", "notifying", "done"},
           Placed(k)',
           step = "dialling" => dialled <= faults,
           step = "connecting" /\ ~cancelled => dialled <= faults
    PROVE  ConnectionInv'
<1>1. ConnectionTypeOK'
  BY DEF ConnectionInv, KeeperInv, ConnectionTypeOK
<1>2. \A l \in Keeper : keeper'[l] = IF l = k THEN step ELSE keeper[l]
  BY DEF ConnectionInv, KeeperInv, ConnectionTypeOK
<1>3. \A l \in Keeper : IsActive(l)' => IsActive(l)
  BY <1>2 DEF IsActive
<1>4. ~cancelled => \A l \in Keeper : IsActive(l) => IsActive(l)'
  BY <1>2 DEF IsActive, KeeperStep
<1>5. \A l \in Keeper : Placed(l)'
  BY <1>2 DEF ConnectionInv, KeeperInv, Placed
<1>6. KeeperInv'
  BY <1>1, <1>3, <1>4, <1>5 DEF ConnectionInv, KeeperInv, OnlyCurrentOpen
<1>7. PaidFor'
  BY <1>2 DEF ConnectionInv, PaidFor
<1>8. QED
  BY <1>6, <1>7 DEF ConnectionInv

\* The steps of Connect.
LEMMA ConnectSteps ==
    ASSUME ConnectionInv, NEW k \in Keeper,
           CheckContext(k) \/ Dial(k) \/ DeclareFails(k) \/ Declare(k)
    PROVE  ConnectionInv'
<1> USE DEF ConnectionInv
<1>1. CASE CheckContext(k)
  <2>1. PICK step \in {"dialling", "done"} :
            /\ keeper' = [keeper EXCEPT ![k] = step]
            /\ step = "done" <=> cancelled
    BY <1>1 DEF CheckContext
  <2>2. /\ UNCHANGED <<conn, isClosed, dialled, open, cancelled, faults, epoch>>
        /\ keeper[k] = "connecting" /\ keeper'[k] = step /\ epoch \in Nat
    BY <1>1, <2>1 DEF CheckContext, KeeperInv, ConnectionTypeOK
  <2>3. Placed(k)' /\ IsActive(k)
    BY <2>1, <2>2 DEF KeeperInv, Placed, IsActive
  <2>4. step = "dialling" => dialled <= faults
    BY <2>1, <2>2 DEF PaidFor
  <2>5. QED
    BY <2>1, <2>2, <2>3, <2>4, KeeperMoves DEF KeeperStep
<1>2. CASE Dial(k)
  <2>1. /\ dialled' = dialled + 1 /\ conn' = dialled + 1 /\ dialled <= faults
        /\ keeper[k] = "dialling" /\ keeper' = [keeper EXCEPT ![k] = "declaring"]
        /\ ~isClosed' /\ UNCHANGED <<cancelled, faults, epoch>>
        /\ open' = open \cup {dialled + 1}
    BY <1>2 DEF Dial, PaidFor
  <2>2. /\ open = {} /\ open' = {dialled + 1}
        /\ dialled + 1 \in Number /\ dialled + 1 \in Keeper
    <3>1. conn \notin open /\ open \subseteq {conn}
      BY <2>1 DEF KeeperInv, Placed, OnlyCurrentOpen
    <3>2. dialled + 1 \in Number /\ dialled + 1 \in Keeper
      BY <2>1 DEF KeeperInv, ConnectionTypeOK, Keeper, Number
    <3>3. QED
      BY <2>1, <3>1, <3>2
  <2>3. \A l \in Keeper : keeper'[l] = IF l = k THEN "declaring" ELSE keeper[l]
    BY <2>1 DEF KeeperInv, ConnectionTypeOK
  <2>4. \A l \in Keeper : IsActive(l) <=> l = k
    BY <2>1 DEF KeeperInv, IsActive
  <2>5. ConnectionTypeOK'
    <3>1. keeper' \in [Keeper -> KeeperStep]
      BY <2>1 DEF KeeperInv, ConnectionTypeOK, KeeperStep
    <3>2. isClosed' \in BOOLEAN
      BY <1>2 DEF Dial
    <3>3. QED
      BY <2>1, <2>2, <3>1, <3>2 DEF KeeperInv, ConnectionTypeOK
  <2>6. \A l \in Keeper : IsActive(l)' <=> l = k
    BY <2>3, <2>4 DEF IsActive
  <2>7. \A l \in Keeper : Placed(l)'
    BY <2>1, <2>3, <2>6 DEF KeeperInv, ConnectionTypeOK, Placed, IsActive, Keeper
  <2>8. KeeperInv'
    BY <2>1, <2>2, <2>5, <2>6, <2>7 DEF KeeperInv, OnlyCurrentOpen
  <2>9. PaidFor'
    <3>1. dialled + 1 <= faults + 1
      BY <2>1 DEF KeeperInv, ConnectionTypeOK, Keeper
    <3>2. \A l \in Keeper : keeper'[l] \notin {"dialling", "connecting"}
      BY <2>3, <2>6 DEF IsActive
    <3>3. QED
      BY <2>1, <2>2, <3>1, <3>2 DEF PaidFor
  <2>10. QED
    BY <2>8, <2>9
<1>3. CASE DeclareFails(k)
  <2>1. /\ keeper[k] = "declaring" /\ keeper' = [keeper EXCEPT ![k] = "connecting"]
        /\ UNCHANGED <<conn, isClosed, epoch, dialled, cancelled>>
        /\ open' = open \ {conn}
        /\ \/ conn \notin open /\ faults' = faults
           \/ conn \in open /\ faults < MaxFaults /\ faults' = faults + 1
    BY <1>3 DEF DeclareFails, Shut
  <2>2. open' = {}
    BY <2>1 DEF KeeperInv, OnlyCurrentOpen
  <2>3. \A l \in Keeper : keeper'[l] = IF l = k THEN "connecting" ELSE keeper[l]
    BY <2>1 DEF KeeperInv, ConnectionTypeOK
  <2>4. \A l \in Keeper : (IsActive(l) <=> l = k) /\ (IsActive(l)' <=> l = k)
    BY <2>1, <2>3 DEF KeeperInv, IsActive
  <2>5. ConnectionTypeOK'
    BY <2>1, <2>2 DEF KeeperInv, ConnectionTypeOK, KeeperStep
  <2>6. \A l \in Keeper : Placed(l)'
    BY <2>1, <2>2, <2>3, <2>4 DEF KeeperInv, ConnectionTypeOK, Placed, IsActive, Keeper
  <2>7. KeeperInv'
    BY <2>1, <2>2, <2>4, <2>5, <2>6 DEF KeeperInv, OnlyCurrentOpen
  <2>8. dialled <= faults' \/ isClosed
    BY <2>1 DEF PaidFor, KeeperInv, ConnectionTypeOK, Keeper
  <2>9. dialled <= faults' + 1 /\ faults <= faults'
    BY <2>1 DEF PaidFor, KeeperInv, ConnectionTypeOK, Keeper
  <2>10. PaidFor'
    BY <2>1, <2>2, <2>4, <2>8, <2>9 DEF PaidFor, KeeperInv, IsActive
  <2>11. QED
    BY <2>7, <2>10
<1>4. CASE Declare(k)
  <2> DEFINE left == IF k = 0 THEN "done" ELSE "notifying"
  <2>1. /\ keeper[k] = "declaring" /\ conn \in open
        /\ keeper' = [keeper EXCEPT ![k] = left, ![conn] = "watching"]
        /\ UNCHANGED <<conn, isClosed, epoch, dialled, open, cancelled, faults>>
    BY <1>4 DEF Declare
  <2>2. conn \in Keeper /\ k < conn
    BY <2>1 DEF KeeperInv, ConnectionTypeOK, Placed
  <2>3. k # conn
    BY <2>2 DEF Keeper
  <2>4. /\ keeper'[conn] = "watching"
        /\ keeper'[k] \in {"done", "notifying"}
        /\ \A l \in Keeper : l # conn /\ l # k => keeper'[l] = keeper[l]
    BY <2>1, <2>2, <2>3 DEF KeeperInv, ConnectionTypeOK
  <2>5. \A l \in Keeper : (IsActive(l) <=> l = k) /\ (IsActive(l)' <=> l = conn)
    <3>1. IsActive(k)
      BY <2>1 DEF IsActive
    <3>2. \A l \in Keeper : IsActive(l) <=> l = k
      BY <3>1 DEF KeeperInv
    <3>3. \A l \in Keeper : l # conn => ~IsActive(l)'
      BY <2>4, <3>2 DEF IsActive
    <3>4. \A l \in Keeper : l = conn => IsActive(l)'
      BY <2>4 DEF IsActive
    <3>5. QED
      BY <2>1, <3>2, <3>3, <3>4
  <2>6. ConnectionTypeOK'
    BY <2>1, <2>2 DEF KeeperInv, ConnectionTypeOK, KeeperStep
  <2>7. \A l \in Keeper : Placed(l)'
    <3>1. \A l \in Keeper : l # conn => ~IsActive(l)'
      BY <2>5
    <3>2. \A l \in Keeper : l # conn => Placed(l)'
      BY <3>1 DEF Placed, IsActive
    <3>3. \A l \in Keeper : l = conn => Placed(l)'
      BY <2>1, <2>2, <2>4 DEF Placed
    <3>4. QED
      BY <3>2, <3>3
  <2>8. KeeperInv'
    BY <2>1, <2>2, <2>5, <2>6, <2>7 DEF KeeperInv, OnlyCurrentOpen
  <2>9. PaidFor'
    <3>1. \A l \in Keeper : keeper'[l] \notin {"dialling", "connecting"}
      BY <2>4, <2>5 DEF IsActive
    <3>2. QED
      BY <2>1, <3>1 DEF PaidFor
  <2>10. QED
    BY <2>8, <2>9
<1>5. QED
  BY <1>1, <1>2, <1>3, <1>4

\* The steps of handleDisconnect and notifyReconnect.
LEMMA DisconnectSteps ==
    ASSUME ConnectionInv, NEW k \in Keeper,
           Wake(k) \/ DecideReconnect(k) \/ NotifyReconnect(k)
    PROVE  ConnectionInv'
<1>1. /\ UNCHANGED <<conn, isClosed, dialled, open, cancelled, faults>>
      /\ epoch \in Nat /\ epoch' \in {epoch, epoch + 1}
  BY DEF Wake, DecideReconnect, NotifyReconnect, ConnectionInv, KeeperInv, ConnectionTypeOK
<1>2. PICK step \in {"woken", "connecting", "done"} :
          /\ keeper' = [keeper EXCEPT ![k] = step]
          /\ step = "woken" => keeper[k] = "watching" /\ conn \notin open
          /\ step = "connecting" => keeper[k] = "woken" /\ ~isClosed
          /\ step = "done" => keeper[k] = "notifying" \/ cancelled \/ isClosed
  BY DEF Wake, DecideReconnect, NotifyReconnect
<1>3. keeper'[k] = step
  BY <1>2 DEF ConnectionInv, KeeperInv, ConnectionTypeOK
<1>4. Placed(k)'
  BY <1>1, <1>2, <1>3 DEF ConnectionInv, KeeperInv, ConnectionTypeOK, Placed, Keeper
<1>5. step = "connecting" => dialled <= faults
  BY <1>2 DEF ConnectionInv, KeeperInv, PaidFor, Placed
<1>6. /\ step # "done" => IsActive(k)
      /\ step = "done" => ~IsActive(k) \/ cancelled
  BY <1>2 DEF IsActive, ConnectionInv, KeeperInv
<1>7. step \in KeeperStep /\ epoch' \in Nat
  BY <1>1 DEF KeeperStep
<1>8. QED
  BY <1>1, <1>2, <1>4, <1>5, <1>6, <1>7, KeeperMoves

\* Whoever stops the service or disturbs the connection.
LEMMA ShutSteps ==
    ASSUME ConnectionInv, Drop \/ Cancel \/ Close \/ \E q \in Queue : ChannelFails(q)
    PROVE  ConnectionInv'
<1> USE DEF ConnectionInv
<1>1. /\ UNCHANGED <<conn, dialled, keeper, epoch>>
      /\ open' \in {open, open \ {conn}}
      /\ faults' \in {faults, faults + 1} /\ faults' \in 0 .. MaxFaults
      /\ conn \in open /\ conn \notin open' => faults' = faults + 1 \/ isClosed'
      /\ isClosed' \in BOOLEAN /\ cancelled' \in BOOLEAN
      /\ isClosed => isClosed'
      /\ cancelled => cancelled'
      /\ isClosed' => cancelled'
  <2>1. CASE Drop
    BY <2>1 DEF Drop, Shut, connection, KeeperInv, ConnectionTypeOK
  <2>2. CASE Cancel
    BY <2>2 DEF Cancel, KeeperInv, ConnectionTypeOK
  <2>3. CASE Close
    BY <2>3 DEF Close, Shut, KeeperInv, ConnectionTypeOK
  <2>4. CASE \E q \in Queue : ChannelFails(q)
    BY <2>4 DEF ChannelFails, connection, KeeperInv, ConnectionTypeOK
  <2>5. QED
    BY <2>1, <2>2, <2>3, <2>4
<1>2. ConnectionTypeOK'
  BY <1>1 DEF KeeperInv, ConnectionTypeOK
<1>3. /\ \A k \in Keeper : Placed(k)'
      /\ \A k \in Keeper : IsActive(k)' <=> IsActive(k)
  BY <1>1 DEF KeeperInv, Placed, IsActive
<1>4. KeeperInv'
  BY <1>1, <1>2, <1>3 DEF KeeperInv, OnlyCurrentOpen
<1>5. dialled \in Nat /\ faults \in Nat
  BY DEF KeeperInv, ConnectionTypeOK, Keeper
<1>6. faults' = faults \/ faults' = faults + 1
  BY <1>1
<1>7. dialled' <= faults' + 1
  <2>1. dialled <= faults + 1 /\ dialled' = dialled
    BY <1>1 DEF PaidFor
  <2>2. QED
    BY <1>5, <1>6, <2>1
<1>8. conn' \notin open' /\ ~isClosed' => dialled' <= faults'
  <2>1. CASE conn \in open
    BY <1>1, <1>5, <2>1 DEF PaidFor
  <2>2. CASE conn \notin open
    BY <1>1, <1>5, <1>6, <2>2 DEF PaidFor
  <2>3. QED
    BY <2>1, <2>2
<1>9. \A k \in Keeper :
          /\ keeper'[k] = "dialling" => dialled' <= faults'
          /\ keeper'[k] = "connecting" /\ ~cancelled' => dialled' <= faults'
  BY <1>1, <1>5, <1>6 DEF PaidFor
<1>10. PaidFor'
  BY <1>7, <1>8, <1>9 DEF PaidFor
<1>11. QED
  BY <1>4, <1>10

\* Consumers and publishers leave the connection alone.
LEMMA OtherSteps ==
    ASSUME ConnectionInv,
           \/ \E q \in Queue : ConsumerNext(q)
           \/ \E q \in Queue, m \in Message : Publish(q, m) \/ Arrive(q, m)
    PROVE  ConnectionInv' /\ UNCHANGED <<connection, open>>
<1> USE DEF ConnectionInv
<1>1. UNCHANGED <<conn, isClosed, epoch, dialled, open, cancelled, keeper>>
  BY DEF ConsumerNext, Subscribe, OpenChannel, Deliver, Acknowledge, Reject, DeliveriesEnd,
         CheckStop, WaitReconnect, Resume, Publish, Arrive, connection
<1>2. faults' = faults \/ (faults < MaxFaults /\ faults' = faults + 1)
  BY DEF ConsumerNext, Subscribe, OpenChannel, Deliver, Acknowledge, Reject, DeliveriesEnd,
         CheckStop, WaitReconnect, Resume, Publish, Arrive
<1>3. ConnectionTypeOK'
  BY <1>1, <1>2 DEF KeeperInv, ConnectionTypeOK
<1>4. KeeperInv'
  BY <1>1, <1>3 DEF KeeperInv, OnlyCurrentOpen, IsActive, Placed
<1>5. dialled \in Nat /\ faults \in Nat
  BY DEF KeeperInv, ConnectionTypeOK, Keeper
<1>6. PaidFor'
  BY <1>1, <1>2, <1>5 DEF PaidFor
<1>7. QED
  BY <1>1, <1>4, <1>6 DEF connection

\* The keepers keep their places whatever happens.
THEOREM ConnectionCorrect == Spec => []ConnectionInv
<1>1. ConnectionInv /\ [Next]_vars => ConnectionInv'
  <2> SUFFICES ASSUME ConnectionInv, [Next]_vars PROVE ConnectionInv'
    OBVIOUS
  <2>1. CASE Next
    BY <2>1, ConnectSteps, DisconnectSteps, ShutSteps, OtherSteps DEF Next, KeeperNext
  <2>2. CASE UNCHANGED vars
    BY <2>2
       DEF vars, ConnectionInv, KeeperInv, ConnectionTypeOK, OnlyCurrentOpen, PaidFor,
           IsActive, Placed
  <2>3. QED
    BY <2>1, <2>2
<1>2. QED
  BY <1>1, ConnectionInit, PTL DEF Spec

\* No connection but the current one is ever open.
THEOREM OnlyCurrentOpenCorrect == Spec => []OnlyCurrentOpen
<1>1. ConnectionInv => OnlyCurrentOpen
  BY DEF ConnectionInv, KeeperInv
<1>2. QED
  BY <1>1, ConnectionCorrect, PTL

\* Until the service is told to stop, exactly one goroutine answers for there
\* being a connection.
THEOREM OneKeeperCorrect == Spec => []OneKeeper
<1>1. ConnectionInv => OneKeeper
  <2> SUFFICES ASSUME ConnectionInv, ~cancelled
               PROVE  \E k \in Keeper : Active = {k}
    BY DEF OneKeeper
  <2>1. PICK k \in Keeper : IsActive(k)
    BY DEF ConnectionInv, KeeperInv
  <2>2. Active = {k}
    BY <2>1 DEF ConnectionInv, KeeperInv, Active, IsActive
  <2>3. QED
    BY <2>2
<1>2. QED
  BY <1>1, ConnectionCorrect, PTL
-----------------------------------------------------------------------------
\* A consumer holds a delivery while its handler runs, and at no other time;
\* no consumer runs before main has connected.
HandlerInv ==
    /\ \A q \in Queue : (consumer[q] = "handling") <=> (held[q] # NoMessage)
    /\ keeper[0] # "done" => \A q \in Queue : consumer[q] = "none"

DeliveryInv == DeliveryTypeOK /\ HandlerInv /\ NothingLost

LEMMA DeliveryInit == Init => DeliveryInv
<1> SUFFICES ASSUME Init PROVE DeliveryInv
  OBVIOUS
<1>1. 0 \in Keeper
  BY DEF Keeper
<1>2. DeliveryTypeOK
  BY <1>1 DEF Init, DeliveryTypeOK, ConsumerStep
<1>3. HandlerInv /\ NothingLost
  BY DEF Init, HandlerInv, NothingLost
<1>4. QED
  BY <1>2, <1>3 DEF DeliveryInv

\* When the current connection is shut, all that was held through an open
\* channel was held through this one, and is ready again.
LEMMA DeliveryShut ==
    ASSUME DeliveryInv, OnlyCurrentOpen, Shut(conn), conn \in Keeper,
           UNCHANGED <<consumers, reached, processed>>,
           keeper'[0] = "done" \/ keeper[0] # "done"
    PROVE  DeliveryInv'
<1>1. UNCHANGED <<consumer, via, ticket, held>>
  BY DEF consumers
<1>2. \A q \in Queue : queue'[q] = IF conn \in open /\ via[q] = conn /\ held[q] # NoMessage
                                   THEN queue[q] \cup {held[q]} ELSE queue[q]
  BY DEF Shut, Requeued, DeliveryInv, DeliveryTypeOK
<1>3. DeliveryTypeOK'
  BY <1>1 DEF Shut, Requeued, DeliveryInv, DeliveryTypeOK
<1>4. HandlerInv'
  BY <1>1 DEF DeliveryInv, HandlerInv
<1>5. NothingLost'
  <2> SUFFICES ASSUME NEW q \in Queue, NEW m \in reached[q]
               PROVE  m \in queue'[q] \cup processed[q]
    BY <1>1 DEF NothingLost
  <2>1. CASE m \in queue[q] \cup processed[q]
    BY <1>2, <2>1
  <2>2. CASE held[q] = m /\ via[q] \in open
    <3>1. via[q] = conn /\ conn \in open
      BY <2>2 DEF OnlyCurrentOpen
    <3>2. held[q] # NoMessage
      BY <2>2, MessageAssumption DEF DeliveryInv, DeliveryTypeOK
    <3>3. QED
      BY <1>2, <2>2, <3>1, <3>2
  <2>3. QED
    BY <2>1, <2>2 DEF DeliveryInv, NothingLost
<1>6. QED
  BY <1>3, <1>4, <1>5 DEF DeliveryInv

\* The other steps of the keepers do not touch what is queued or held; main
\* starts the consumers when it is connected.
LEMMA DeliveryKeeper ==
    ASSUME ConnectionInv, DeliveryInv, NEW k \in Keeper, KeeperNext(k)
    PROVE  DeliveryInv'
<1>1. conn \in Keeper /\ OnlyCurrentOpen /\ 0 \in Keeper
  BY DEF ConnectionInv, KeeperInv, ConnectionTypeOK, Keeper
<1>2. keeper'[0] = "done" \/ keeper[0] # "done"
  <2>1. CASE CheckContext(k) \/ Dial(k) \/ DeclareFails(k) \/ Wake(k) \/ DecideReconnect(k)
             \/ NotifyReconnect(k)
    BY <1>1, <2>1
       DEF CheckContext, Dial, DeclareFails, Wake, DecideReconnect, NotifyReconnect,
           ConnectionInv, KeeperInv, ConnectionTypeOK
  <2>2. CASE Declare(k)
    <3>1. conn # 0
      BY <1>1, <2>2 DEF Declare, ConnectionInv, KeeperInv, Placed, Keeper
    <3>2. QED
      BY <1>1, <2>2, <3>1 DEF Declare, ConnectionInv, KeeperInv, ConnectionTypeOK
  <2>3. QED
    BY <2>1, <2>2 DEF KeeperNext
<1>3. CASE DeclareFails(k)
  BY <1>1, <1>2, <1>3, DeliveryShut DEF DeclareFails
<1>4. CASE Declare(k) /\ k = 0
  <2>1. /\ consumer' = [q \in Queue |-> "subscribing"]
        /\ UNCHANGED <<open, queue, via, ticket, held, flight, reached, processed>>
        /\ keeper[0] # "done" /\ keeper'[0] = "done"
    <3>1. keeper[0] = "declaring" /\ keeper' = [keeper EXCEPT ![0] = "done", ![conn] = "watching"]
      BY <1>4 DEF Declare
    <3>2. conn # 0
      BY <1>1, <3>1 DEF ConnectionInv, KeeperInv, Placed, Keeper
    <3>3. keeper'[0] = "done"
      BY <1>1, <3>1, <3>2 DEF ConnectionInv, KeeperInv, ConnectionTypeOK
    <3>4. QED
      BY <1>4, <3>1, <3>3 DEF Declare
  <2>2. \A q \in Queue : held[q] = NoMessage
    BY <2>1 DEF DeliveryInv, HandlerInv
  <2>3. DeliveryTypeOK'
    BY <2>1 DEF DeliveryInv, DeliveryTypeOK, ConsumerStep
  <2>4. HandlerInv' /\ NothingLost'
    BY <2>1, <2>2 DEF DeliveryInv, HandlerInv, NothingLost
  <2>5. QED
    BY <2>3, <2>4 DEF DeliveryInv
<1>5. CASE ~DeclareFails(k) /\ (Declare(k) => k # 0)
  <2>1. /\ UNCHANGED <<queue, consumer, via, ticket, held, flight, reached, processed>>
        /\ open \subseteq open'
    BY <1>5
       DEF KeeperNext, CheckContext, Dial, Declare, Wake, DecideReconnect, NotifyReconnect,
           consumers
  <2>2. QED
    BY <1>2, <2>1 DEF DeliveryInv, DeliveryTypeOK, HandlerInv, NothingLost
<1>6. QED
  BY <1>3, <1>4, <1>5

\* A consumer that takes no delivery and returns none.
LEMMA DeliveryMoves ==
    ASSUME ConnectionInv, DeliveryInv, NEW q \in Queue,
           \/ Subscribe(q) \/ OpenChannel(q) \/ DeliveriesEnd(q) \/ CheckStop(q)
           \/ WaitReconnect(q) \/ Resume(q)
    PROVE  DeliveryInv'
<1>1. PICK step \in ConsumerStep \ {"none", "handling"} :
          consumer' = [consumer EXCEPT ![q] = step]
  BY DEF Subscribe, OpenChannel, DeliveriesEnd, CheckStop, WaitReconnect, Resume, Goto,
         ConsumerStep
<1>2. /\ UNCHANGED <<open, queue, held, flight, reached, processed, keeper>>
      /\ consumer[q] \notin {"none", "handling"}
      /\ conn \in Keeper /\ epoch \in Nat
  BY DEF Subscribe, OpenChannel, DeliveriesEnd, CheckStop, WaitReconnect, Resume, connection,
         ConnectionInv, KeeperInv, ConnectionTypeOK
<1>3. /\ via' \in [Queue -> Keeper] /\ ticket' \in [Queue -> Nat]
      /\ \A p \in Queue : p # q => via'[p] = via[p]
  BY <1>2
     DEF Subscribe, OpenChannel, DeliveriesEnd, CheckStop, WaitReconnect, Resume, DeliveryInv,
         DeliveryTypeOK
<1>4. held[q] = NoMessage
  BY <1>2 DEF DeliveryInv, HandlerInv
<1>5. DeliveryTypeOK'
  BY <1>1, <1>2, <1>3 DEF DeliveryInv, DeliveryTypeOK
<1>6. HandlerInv'
  BY <1>1, <1>2, <1>4 DEF DeliveryInv, HandlerInv, DeliveryTypeOK
<1>7. NothingLost'
  <2> SUFFICES ASSUME NEW p \in Queue, NEW m \in reached[p]
               PROVE  \/ m \in queue[p] \cup processed[p]
                      \/ held[p] = m /\ via'[p] \in open
    BY <1>2 DEF NothingLost
  <2>1. m # NoMessage
    BY MessageAssumption DEF DeliveryInv, DeliveryTypeOK
  <2>2. QED
    BY <1>3, <1>4, <2>1 DEF DeliveryInv, NothingLost
<1>8. QED
  BY <1>5, <1>6, <1>7 DEF DeliveryInv

\* A delivery is taken, acknowledged, refused or goes back.
LEMMA DeliveryHandled ==
    ASSUME DeliveryInv, NEW q \in Queue,
           Deliver(q) \/ Acknowledge(q) \/ Reject(q) \/ ChannelFails(q)
    PROVE  DeliveryInv'
<1> USE DEF DeliveryInv, DeliveryTypeOK, HandlerInv
<1>1. CASE Deliver(q)
  <2>1. PICK m \in queue[q] : /\ held' = [held EXCEPT ![q] = m]
                              /\ queue' = [queue EXCEPT ![q] = @ \ {m}]
    BY <1>1 DEF Deliver
  <2>2. /\ consumer[q] = "consuming" /\ via[q] \in open
        /\ consumer' = [consumer EXCEPT ![q] = "handling"]
        /\ UNCHANGED <<open, via, ticket, flight, reached, processed, keeper>>
    BY <1>1 DEF Deliver, Goto, connection
  <2>3. m \in Message /\ m # NoMessage /\ held[q] = NoMessage
    BY <2>2, MessageAssumption
  <2>4. DeliveryTypeOK'
    BY <2>1, <2>2, <2>3 DEF ConsumerStep
  <2>5. HandlerInv'
    BY <2>1, <2>2, <2>3
  <2>6. NothingLost'
    <3> SUFFICES ASSUME NEW p \in Queue, NEW n \in reached[p]
                 PROVE  \/ n \in queue'[p] \cup processed[p]
                        \/ held'[p] = n /\ via[p] \in open
      BY <2>2 DEF NothingLost
    <3>1. n # NoMessage
      BY MessageAssumption
    <3>2. QED
      BY <2>1, <2>2, <2>3, <3>1 DEF NothingLost
  <2>7. QED
    BY <2>4, <2>5, <2>6
<1>2. CASE Acknowledge(q) \/ Reject(q)
  <2>1. /\ consumer[q] = "handling"
        /\ consumer' = [consumer EXCEPT ![q] = "consuming"]
        /\ held' = [held EXCEPT ![q] = NoMessage]
        /\ UNCHANGED <<open, via, ticket, flight, reached, keeper>>
    BY <1>2 DEF Acknowledge, Reject, Goto, connection
  <2>2. held[q] \in Message
    BY <2>1
  <2>3. /\ queue' \in [Queue -> SUBSET Message] /\ processed' \in [Queue -> SUBSET Message]
        /\ \A p \in Queue : queue[p] \subseteq queue'[p] /\ processed[p] \subseteq processed'[p]
        /\ via[q] \in open => held[q] \in queue'[q] \cup processed'[q]
    <3>1. CASE Acknowledge(q)
      BY <2>2, <3>1 DEF Acknowledge
    <3>2. CASE Reject(q)
      BY <2>2, <3>2, MessageAssumption DEF Reject, Requeued
    <3>3. QED
      BY <1>2, <3>1, <3>2
  <2>4. DeliveryTypeOK'
    BY <2>1, <2>3 DEF ConsumerStep
  <2>5. HandlerInv'
    BY <2>1
  <2>6. NothingLost'
    <3> SUFFICES ASSUME NEW p \in Queue, NEW n \in reached[p]
                 PROVE  \/ n \in queue'[p] \cup processed'[p]
                        \/ held'[p] = n /\ via[p] \in open
      BY <2>1 DEF NothingLost
    <3>1. QED
      BY <2>1, <2>3 DEF NothingLost
  <2>7. QED
    BY <2>4, <2>5, <2>6
<1>3. CASE ChannelFails(q)
  <2>1. /\ via' = [via EXCEPT ![q] = 0] /\ queue' = Requeued({q})
        /\ UNCHANGED <<open, consumer, ticket, held, flight, reached, processed, keeper>>
    BY <1>3 DEF ChannelFails, connection
  <2>2. 0 \in Keeper
    BY DEF Keeper
  <2>3. DeliveryTypeOK'
    BY <2>1, <2>2 DEF Requeued
  <2>4. HandlerInv'
    BY <2>1
  <2>5. NothingLost'
    <3> SUFFICES ASSUME NEW p \in Queue, NEW n \in reached[p]
                 PROVE  \/ n \in queue'[p] \cup processed[p]
                        \/ held[p] = n /\ via'[p] \in open
      BY <2>1 DEF NothingLost
    <3>1. n # NoMessage
      BY MessageAssumption
    <3>2. QED
      BY <2>1, <3>1 DEF Requeued, NothingLost
  <2>6. QED
    BY <2>3, <2>4, <2>5
<1>4. QED
  BY <1>1, <1>2, <1>3

\* Somebody publishes, a message arrives, or the service is told to stop.
LEMMA DeliveryOthers ==
    ASSUME DeliveryInv,
           Cancel \/ \E q \in Queue, m \in Message : Publish(q, m) \/ Arrive(q, m)
    PROVE  DeliveryInv'
<1>1. CASE Cancel
  BY <1>1 DEF Cancel, consumers, DeliveryInv, DeliveryTypeOK, HandlerInv, NothingLost
<1>2. ASSUME NEW q \in Queue, NEW m \in Message, Publish(q, m)
      PROVE  DeliveryInv'
  <2>1. /\ UNCHANGED <<open, queue, keeper, consumer, via, ticket, held, reached, processed>>
        /\ flight' = [flight EXCEPT ![q] = @ \cup {m}]
    BY <1>2 DEF Publish, connection, consumers
  <2>2. QED
    BY <2>1 DEF DeliveryInv, DeliveryTypeOK, HandlerInv, NothingLost
<1>3. ASSUME NEW q \in Queue, NEW m \in Message, Arrive(q, m)
      PROVE  DeliveryInv'
  <2>1. /\ UNCHANGED <<open, keeper, consumer, via, ticket, held, processed>>
        /\ flight' = [flight EXCEPT ![q] = @ \ {m}]
        /\ reached' = [reached EXCEPT ![q] = @ \cup {m}]
        /\ queue' = [queue EXCEPT ![q] = @ \cup {m}]
    BY <1>3 DEF Arrive, connection, consumers
  <2>2. QED
    BY <2>1 DEF DeliveryInv, DeliveryTypeOK, HandlerInv, NothingLost
<1>4. QED
  BY <1>1, <1>2, <1>3

\* The deliveries are typed, and no message is lost.
THEOREM DeliveryCorrect == Spec => []DeliveryInv
<1>1. ConnectionInv /\ DeliveryInv /\ [Next]_vars => DeliveryInv'
  <2> SUFFICES ASSUME ConnectionInv, DeliveryInv, [Next]_vars PROVE DeliveryInv'
    OBVIOUS
  <2>1. CASE Drop \/ Close
    <3>1. conn \in Keeper /\ OnlyCurrentOpen
      BY DEF ConnectionInv, KeeperInv, ConnectionTypeOK
    <3>2. Shut(conn) /\ UNCHANGED <<keeper, consumers, reached, processed>>
      BY <2>1 DEF Drop, Close, connection
    <3>3. QED
      BY <3>1, <3>2, DeliveryShut
  <2>2. CASE Next /\ ~Drop /\ ~Close
    BY <2>2, DeliveryKeeper, DeliveryMoves, DeliveryHandled, DeliveryOthers
       DEF Next, ConsumerNext
  <2>3. CASE UNCHANGED vars
    BY <2>3 DEF vars, DeliveryInv, DeliveryTypeOK, HandlerInv, NothingLost
  <2>4. QED
    BY <2>1, <2>2, <2>3
<1>2. QED
  BY <1>1, DeliveryInit, ConnectionCorrect, PTL DEF Spec

\* Every variable of the RabbitMQ layer keeps its type, and faults bound the
\* number of dials.
THEOREM TypeOKCorrect == Spec => []TypeOK
<1>1. ConnectionInv /\ DeliveryInv => TypeOK
  BY DEF ConnectionInv, KeeperInv, DeliveryInv, TypeOK
<1>2. QED
  BY <1>1, ConnectionCorrect, DeliveryCorrect, PTL

\* No message the broker has taken is lost, however the connection drops and
\* handlers fail.
THEOREM NothingLostCorrect == Spec => []NothingLost
<1>1. DeliveryInv => NothingLost
  BY DEF DeliveryInv
<1>2. QED
  BY <1>1, DeliveryCorrect, PTL
=============================================================================
