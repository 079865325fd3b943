----------------------------- MODULE Messaging -----------------------------
(***************************************************************************)
(* The RabbitMQ layer of a service (src/internal/shared/messaging): one    *)
(* Connection shared by the consumers of several queues and by whoever     *)
(* publishes.  The goroutines are                                          *)
(*                                                                         *)
(*   - the keepers of the connection: keeper 0 is main, which connects for *)
(*     the first time, and keeper n the handleDisconnect started for the   *)
(*     n-th connection, which replaces it when it closes;                  *)
(*   - the consumers, one for each queue, started by RunConsumer.          *)
(*                                                                         *)
(* Connections are numbered in the order they are dialled.  A delivery the *)
(* broker has not seen acknowledged goes back to its queue when the        *)
(* channel it came by closes.                                              *)
(***************************************************************************)
EXTENDS Naturals

CONSTANTS
    Queue,      \* queue names, each with one consumer
    Message,    \* message bodies
    NoMessage,  \* the consumer holds no delivery
    MaxFaults   \* bound: dropped connections, failed declarations and handlers

ASSUME MessageAssumption == NoMessage \notin Message
ASSUME FaultAssumption == MaxFaults \in Nat

VARIABLES
    \* struct Connection
    conn,       \* the number of c.conn, 0 when nil
    isClosed,   \* c.isClosed
    epoch,      \* which reconnectCh is the current one
    \* the broker's view
    dialled,    \* connections dialled so far
    open,       \* those that are open
    flight,     \* messages written to the socket of the connection, by queue
    queue,      \* messages ready in each queue
    \* goroutines
    cancelled,  \* the context of the service is done
    keeper,     \* where each keeper is
    consumer,   \* where each consumer is
    via,        \* the connection of its channel, 0 for none
    ticket,     \* the reconnectCh it waits for
    held,       \* the delivery its handler works on
    \* bookkeeping
    reached,    \* messages the broker has taken
    processed,  \* messages whose handler returned without error
    faults

connection == <<conn, isClosed, epoch, dialled, cancelled, keeper>>
consumers  == <<consumer, via, ticket, held>>
vars == <<conn, isClosed, epoch, dialled, open, flight, queue, cancelled,
          keeper, consumer, via, ticket, held, reached, processed, faults>>

\* Each dial after the first replaces a connection lost to a fault.
Number == 1 .. MaxFaults + 1
Keeper == 0 .. MaxFaults + 1

KeeperStep == {"none", "connecting", "dialling", "declaring", "watching",
               "woken", "notifying", "done"}
ConsumerStep == {"none", "subscribing", "opening", "consuming", "handling",
                 "stopped", "unready", "waiting", "returned"}

\* The keepers that answer for there being a connection.
Active == {k \in Keeper : keeper[k] \in {"connecting", "dialling", "declaring",
                                          "watching", "woken"}}

Init ==
    /\ conn = 0
    /\ isClosed = FALSE
    /\ epoch = 0
    /\ dialled = 0
    /\ open = {}
    /\ flight = [q \in Queue |-> {}]
    /\ queue = [q \in Queue |-> {}]
    /\ cancelled = FALSE
    /\ keeper = [k \in Keeper |-> IF k = 0 THEN "connecting" ELSE "none"]
    /\ consumer = [q \in Queue |-> "none"]
    /\ via = [q \in Queue |-> 0]
    /\ ticket = [q \in Queue |-> 0]
    /\ held = [q \in Queue |-> NoMessage]
    /\ reached = [q \in Queue |-> {}]
    /\ processed = [q \in Queue |-> {}]
    /\ faults = 0
-----------------------------------------------------------------------------
(* The broker *)

\* The deliveries these consumers hold and have not acknowledged are ready again.
Requeued(qs) ==
    [q \in Queue |-> IF q \in qs /\ held[q] # NoMessage
                     THEN queue[q] \cup {held[q]} ELSE queue[q]]

\* A connection is closed, by whomever, unless it is closed already.  What is still
\* on its socket never reaches the broker.
Shut(n) ==
    /\ open' = open \ {n}
    /\ flight' = IF n \in open THEN [q \in Queue |-> {}] ELSE flight
    /\ queue' = IF n \in open THEN Requeued({q \in Queue : via[q] = n}) ELSE queue
-----------------------------------------------------------------------------
(* Connect *)

\* The head of the loop: a cancelled context ends it.
CheckContext(k) ==
    /\ keeper[k] = "connecting"
    /\ keeper' = [keeper EXCEPT ![k] = IF cancelled THEN "done" ELSE "dialling"]
    /\ UNCHANGED <<conn, isClosed, epoch, dialled, open, queue, cancelled, consumers,
                   flight, reached, processed, faults>>

\* A dial that fails is tried again after five seconds; one that succeeds
\* replaces the connection, and forgets that Close may have been called.
Dial(k) ==
    /\ keeper[k] = "dialling"
    /\ dialled' = dialled + 1
    /\ conn' = dialled'
    /\ open' = open \cup {dialled'}
    /\ isClosed' = FALSE
    /\ keeper' = [keeper EXCEPT ![k] = "declaring"]
    /\ UNCHANGED <<epoch, queue, cancelled, consumers, flight, reached, processed,
                   faults>>

\* Mutant: the connection is left open when its topology cannot be declared.
DeclareFailsLeaky(k) ==
    /\ keeper[k] = "declaring"
    /\ \/ conn \notin open /\ UNCHANGED faults
       \/ conn \in open /\ faults < MaxFaults /\ faults' = faults + 1
    /\ keeper' = [keeper EXCEPT ![k] = "connecting"]
    /\ UNCHANGED <<conn, isClosed, epoch, dialled, open, queue, cancelled, consumers,
                   flight, reached, processed>>

\* setupTopology fails, with the connection or without: it is closed.
DeclareFails(k) ==
    /\ keeper[k] = "declaring"
    /\ \/ conn \notin open /\ UNCHANGED faults
       \/ conn \in open /\ faults < MaxFaults /\ faults' = faults + 1
    /\ Shut(conn)
    /\ keeper' = [keeper EXCEPT ![k] = "connecting"]
    /\ UNCHANGED <<conn, isClosed, epoch, dialled, cancelled, consumers, reached,
                   processed>>

\* Mutant: nobody watches a connection that replaces another.
DeclareUnwatched(k) ==
    /\ keeper[k] = "declaring"
    /\ conn \in open
    /\ keeper' = IF k = 0 THEN [keeper EXCEPT ![0] = "done", ![conn] = "watching"]
                 ELSE [keeper EXCEPT ![k] = "notifying"]
    /\ consumer' = IF k = 0 THEN [q \in Queue |-> "subscribing"] ELSE consumer
    /\ UNCHANGED <<conn, isClosed, epoch, dialled, open, queue, cancelled, via, ticket,
                   held, flight, reached, processed, faults>>

\* The topology stands: the connection gets a keeper of its own.  The keeper
\* it replaces goes on to notifyReconnect; main goes on to start the consumers.
Declare(k) ==
    /\ keeper[k] = "declaring"
    /\ conn \in open
    /\ keeper' = [keeper EXCEPT ![k] = IF k = 0 THEN "done" ELSE "notifying",
                                ![conn] = "watching"]
    /\ consumer' = IF k = 0 THEN [q \in Queue |-> "subscribing"] ELSE consumer
    /\ UNCHANGED <<conn, isClosed, epoch, dialled, open, queue, cancelled, via, ticket,
                   held, flight, reached, processed, faults>>
-----------------------------------------------------------------------------
(* handleDisconnect, notifyReconnect, Close *)

\* Mutant: the keeper replaces a connection that is well.
WakeAnyway(k) ==
    /\ keeper[k] = "watching"
    /\ keeper' = [keeper EXCEPT ![k] = "woken"]
    /\ UNCHANGED <<conn, isClosed, epoch, dialled, open, queue, cancelled, consumers,
                   flight, reached, processed, faults>>

\* NotifyClose fires, or the context is done.
Wake(k) ==
    /\ keeper[k] = "watching"
    /\ \/ conn \notin open /\ keeper' = [keeper EXCEPT ![k] = "woken"]
       \/ cancelled /\ keeper' = [keeper EXCEPT ![k] = "done"]
    /\ UNCHANGED <<conn, isClosed, epoch, dialled, open, queue, cancelled, consumers,
                   flight, reached, processed, faults>>

\* A connection we have closed ourselves is not replaced.
DecideReconnect(k) ==
    /\ keeper[k] = "woken"
    /\ keeper' = [keeper EXCEPT ![k] = IF isClosed THEN "done" ELSE "connecting"]
    /\ UNCHANGED <<conn, isClosed, epoch, dialled, open, queue, cancelled, consumers,
                   flight, reached, processed, faults>>

\* Mutant: a reconnect is not made known.
NotifyNobody(k) ==
    /\ keeper[k] = "notifying"
    /\ keeper' = [keeper EXCEPT ![k] = "done"]
    /\ UNCHANGED <<conn, isClosed, epoch, dialled, open, queue, cancelled, consumers,
                   flight, reached, processed, faults>>

\* Closing reconnectCh wakes all who wait for it; a new one takes its place.
NotifyReconnect(k) ==
    /\ keeper[k] = "notifying"
    /\ epoch' = epoch + 1
    /\ keeper' = [keeper EXCEPT ![k] = "done"]
    /\ UNCHANGED <<conn, isClosed, dialled, open, queue, cancelled, consumers, flight,
                   reached, processed, faults>>

\* The service is told to stop.
Cancel ==
    /\ ~cancelled
    /\ cancelled' = TRUE
    /\ UNCHANGED <<conn, isClosed, epoch, dialled, open, queue, keeper, consumers,
                   flight, reached, processed, faults>>

\* main closes the connection after its HTTP server has stopped.
Close ==
    /\ cancelled
    /\ keeper[0] = "done"
    /\ ~isClosed
    /\ isClosed' = TRUE
    /\ Shut(conn)
    /\ UNCHANGED <<conn, epoch, dialled, cancelled, keeper, consumers, reached,
                   processed, faults>>
-----------------------------------------------------------------------------
(* RunConsumer, Consume, WaitReconnect *)

Goto(q, step) == consumer' = [consumer EXCEPT ![q] = step]

\* NewChannel reads c.conn ...
Subscribe(q) ==
    /\ consumer[q] = "subscribing"
    /\ via' = [via EXCEPT ![q] = conn]
    /\ Goto(q, "opening")
    /\ UNCHANGED <<connection, open, queue, ticket, held, flight, reached, processed,
                   faults>>

\* ... and opens the channel, if that connection is still open.
OpenChannel(q) ==
    /\ consumer[q] = "opening"
    /\ Goto(q, IF via[q] \in open THEN "consuming" ELSE "stopped")
    /\ UNCHANGED <<connection, open, queue, via, ticket, held, flight, reached,
                   processed, faults>>

\* One delivery at a time (Qos 1).
Deliver(q) ==
    /\ consumer[q] = "consuming"
    /\ via[q] \in open
    /\ \E m \in queue[q] :
           /\ held' = [held EXCEPT ![q] = m]
           /\ queue' = [queue EXCEPT ![q] = @ \ {m}]
    /\ Goto(q, "handling")
    /\ UNCHANGED <<connection, open, via, ticket, flight, reached, processed, faults>>

\* The handler is done and the delivery acknowledged: if the channel is gone
\* the broker does not hear it and has requeued the message.
Acknowledge(q) ==
    /\ consumer[q] = "handling"
    /\ processed' = [processed EXCEPT ![q] = @ \cup {held[q]}]
    /\ held' = [held EXCEPT ![q] = NoMessage]
    /\ Goto(q, "consuming")
    /\ UNCHANGED <<connection, open, queue, via, ticket, flight, reached, faults>>

\* Mutant: the delivery is acknowledged although its handler failed.
RejectForgotten(q) ==
    /\ consumer[q] = "handling"
    /\ faults < MaxFaults
    /\ faults' = faults + 1
    /\ held' = [held EXCEPT ![q] = NoMessage]
    /\ Goto(q, "consuming")
    /\ UNCHANGED <<connection, open, queue, via, ticket, flight, reached, processed>>

\* The handler fails: Nack with requeue.
Reject(q) ==
    /\ consumer[q] = "handling"
    /\ faults < MaxFaults
    /\ faults' = faults + 1
    /\ queue' = IF via[q] \in open THEN Requeued({q}) ELSE queue
    /\ held' = [held EXCEPT ![q] = NoMessage]
    /\ Goto(q, "consuming")
    /\ UNCHANGED <<connection, open, via, ticket, flight, reached, processed>>

\* The channel of deliveries is closed with the connection: Consume returns.
DeliveriesEnd(q) ==
    /\ consumer[q] = "consuming"
    /\ via[q] \notin open
    /\ Goto(q, "stopped")
    /\ UNCHANGED <<connection, open, queue, via, ticket, held, flight, reached,
                   processed, faults>>

CheckStop(q) ==
    /\ consumer[q] = "stopped"
    /\ Goto(q, IF cancelled \/ isClosed THEN "returned" ELSE "unready")
    /\ UNCHANGED <<connection, open, queue, via, ticket, held, flight, reached,
                   processed, faults>>

\* WaitReconnect takes the current reconnectCh and waits until it is closed.
WaitReconnect(q) ==
    /\ consumer[q] = "unready"
    /\ ticket' = [ticket EXCEPT ![q] = epoch]
    /\ Goto(q, "waiting")
    /\ UNCHANGED <<connection, open, queue, via, held, flight, reached, processed,
                   faults>>

Resume(q) ==
    /\ consumer[q] = "waiting"
    /\ \/ ticket[q] < epoch /\ Goto(q, "subscribing")
       \/ cancelled /\ Goto(q, "returned")
    /\ UNCHANGED <<connection, open, queue, via, ticket, held, flight, reached,
                   processed, faults>>
-----------------------------------------------------------------------------
\* Publisher.Publish, on a channel of its own: an error if c.conn is not open.  The
\* channel confirms nothing: PublishWithContext is content when it has written ...
Publish(q, m) ==
    /\ conn \in open
    /\ m \notin flight[q] \cup reached[q]
    /\ flight' = [flight EXCEPT ![q] = @ \cup {m}]
    /\ UNCHANGED <<connection, open, queue, consumers, reached, processed, faults>>

\* ... and the message arrives, unless the connection is lost first.
Arrive(q, m) ==
    /\ m \in flight[q]
    /\ flight' = [flight EXCEPT ![q] = @ \ {m}]
    /\ queue' = [queue EXCEPT ![q] = @ \cup {m}]
    /\ reached' = [reached EXCEPT ![q] = @ \cup {m}]
    /\ UNCHANGED <<connection, open, consumers, processed, faults>>

\* The network or the broker closes the connection.
Drop ==
    /\ conn \in open
    /\ faults < MaxFaults
    /\ faults' = faults + 1
    /\ Shut(conn)
    /\ UNCHANGED <<connection, consumers, reached, processed>>

\* The broker closes one channel, the connection stays.
ChannelFails(q) ==
    /\ via[q] \in open
    /\ faults < MaxFaults
    /\ faults' = faults + 1
    /\ via' = [via EXCEPT ![q] = 0]
    /\ queue' = Requeued({q})
    /\ UNCHANGED <<connection, open, consumer, ticket, held, flight, reached,
                   processed>>
-----------------------------------------------------------------------------
KeeperNext(k) ==
    \/ CheckContext(k) \/ Dial(k) \/ DeclareFails(k) \/ Declare(k)
    \/ Wake(k) \/ DecideReconnect(k) \/ NotifyReconnect(k)

ConsumerNext(q) ==
    \/ Subscribe(q) \/ OpenChannel(q) \/ Deliver(q) \/ Acknowledge(q)
    \/ Reject(q) \/ DeliveriesEnd(q) \/ CheckStop(q) \/ WaitReconnect(q)
    \/ Resume(q)

Next ==
    \/ \E k \in Keeper : KeeperNext(k)
    \/ \E q \in Queue : ConsumerNext(q)
    \/ \E q \in Queue, m \in Message : Publish(q, m) \/ Arrive(q, m)
    \/ Drop
    \/ \E q \in Queue : ChannelFails(q)
    \/ Cancel
    \/ Close

Spec == Init /\ [][Next]_vars

\* Goroutines run on, the broker answers in the end and handlers return.
\* Nothing has to be published or arrive, and nobody has to stop the service.
Fairness ==
    /\ \A k \in Keeper : WF_vars(KeeperNext(k))
    /\ \A q \in Queue : WF_vars(ConsumerNext(q))

FairSpec == Spec /\ Fairness
-----------------------------------------------------------------------------
(* Properties *)

\* What the goroutines that keep the connection work on.
ConnectionTypeOK ==
    /\ conn \in Keeper
    /\ isClosed \in BOOLEAN
    /\ epoch \in Nat
    /\ dialled \in Keeper
    /\ open \subseteq Number
    /\ cancelled \in BOOLEAN
    /\ keeper \in [Keeper -> KeeperStep]
    /\ faults \in 0 .. MaxFaults

\* What the consumers work on.
DeliveryTypeOK ==
    /\ flight \in [Queue -> SUBSET Message] /\ queue \in [Queue -> SUBSET Message]
    /\ consumer \in [Queue -> ConsumerStep]
    /\ via \in [Queue -> Keeper]
    /\ ticket \in [Queue -> Nat]
    /\ held \in [Queue -> Message \cup {NoMessage}]
    /\ reached \in [Queue -> SUBSET Message]
    /\ processed \in [Queue -> SUBSET Message]

\* Every variable keeps its type, and the connection is dialled no more often
\* than it is lost: one dial and one for each fault are enough.
TypeOK == ConnectionTypeOK /\ DeliveryTypeOK

\* No connection is leaked, however often declaring the topology fails and
\* whoever drops what when: only the one in c.conn can be open, so that a
\* message never goes to a channel nobody reads.
OnlyCurrentOpen == open \subseteq {conn}

\* The connection is always looked after by exactly one goroutine, until the
\* service is told to stop: a lost connection is never left alone, and never
\* replaced by two keepers at once (rabbitmq.go:78, 179).
OneKeeper == ~cancelled => \E k \in Keeper : Active = {k}

\* At least once: a message that has reached the broker is ready in its queue, with
\* a consumer that the broker will hear from, or processed; through dropped
\* connections and failing handlers (consumer.go:29-35).  One that was published
\* without error need not have reached it.
NothingLost ==
    \A q \in Queue : \A m \in reached[q] :
        \/ m \in queue[q] \cup processed[q]
        \/ held[q] = m /\ via[q] \in open

\* The service gets its connection back.
Reconnects == conn \notin open ~> conn \in open \/ cancelled

\* A consumer that has begun to wait before its connection was replaced does
\* not wait for ever.
WaiterIsWoken ==
    \A q \in Queue : consumer[q] = "waiting" /\ conn \notin open ~> consumer[q] # "waiting"

\* README.md:361: "Consumers automatically resubscribe after RabbitMQ
\* reconnect."
Resubscribes ==
    \A k \in Keeper, q \in Queue :
        keeper[k] = "notifying" ~>
            \/ consumer[q] \in {"consuming", "handling"} /\ via[q] \in open
            \/ conn \notin open
            \/ cancelled
=============================================================================
