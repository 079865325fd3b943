---------------------------- MODULE RideService ----------------------------
(***************************************************************************)
(* The ride service (src/internal/ride): the rides table with its audit    *)
(* trail, and every goroutine of one service instance that writes to them: *)
(*                                                                         *)
(*   - the HTTP handler that creates a ride, one per ride;                 *)
(*   - the HTTP handlers that cancel a ride, one per element of Call;      *)
(*   - the matching timer of each ride, whose goroutine is named by the    *)
(*     ride it was started for;                                            *)
(*   - the consumers of the queues driver_responses and driver_status,     *)
(*     each of which handles one delivery at a time (prefetch 1).          *)
(*                                                                         *)
(* A database transaction is one step: each starts by locking the row of   *)
(* the ride (SELECT ... FOR UPDATE).  What a goroutine does before and     *)
(* after its transaction are steps of their own, so that what it has read  *)
(* may be stale when it uses it.  The database and the queues survive a    *)
(* crash; goroutines and timers do not.                                    *)
(*                                                                         *)
(* The driver and location service appears as the sender of the messages   *)
(* of the two queues, under the conditions its handlers check and no other.*)
(***************************************************************************)
EXTENDS Naturals, Sequences

CONSTANTS
    Ride,           \* ride identifiers; a ride also names its timer goroutine
    Driver,         \* driver identifiers
    Call,           \* HTTP requests that cancel a ride
    NoDriver,       \* rides.driver_id IS NULL
    NoRide,         \* the target of a goroutine that works on no ride
    MaxAccepts,     \* bound: accepting driver responses sent
    MaxReports,     \* bound: status reports sent by drivers' apps
    MaxFaults       \* bound: crashes, failed calls and lost acknowledgements

ASSUME RideAssumption ==
    /\ Ride \cap Call = {}
    /\ "responses" \notin Ride \cup Call
    /\ "statuses" \notin Ride \cup Call
    /\ NoRide \notin Ride

ASSUME DriverAssumption == NoDriver \notin Driver

ASSUME BoundAssumption ==
    /\ MaxAccepts \in Nat
    /\ MaxReports \in Nat
    /\ MaxFaults \in Nat

VARIABLES
    \* the database
    status,         \* rides.status of each ride, NONE before it is inserted
    driver,         \* rides.driver_id
    trail,          \* the rows of ride_events of each ride, in order
    \* the memory of the ride service
    creation,       \* how far the CreateRide handler of each ride has come
    timer,          \* the ride's entry in Service.matchTimers
    pc,             \* where each goroutine is
    target,         \* the ride each goroutine works on
    view,           \* the status its last GetRide returned
    quote,          \* the refund it computed from that status, in percent
    \* RabbitMQ
    responseQ,      \* queue driver_responses
    statusQ,        \* queue driver_status
    matchedQ,       \* rides announced as MATCHED to the driver service
    \* the passenger
    shown,          \* the last status pushed to the passenger's socket
    \* bookkeeping of the bounds
    accepts, reports, faults

db      == <<status, driver, trail>>
local   == <<target, view, quote>>
queues  == <<responseQ, statusQ, matchedQ>>
budgets == <<accepts, reports, faults>>
vars == <<status, driver, trail, creation, timer, pc, target, view, quote,
          responseQ, statusQ, matchedQ, shown, accepts, reports, faults>>

Consumer  == {"responses", "statuses"}
Canceller == Call \cup Ride
Thread    == Canceller \cup Consumer

RideStatus == {"REQUESTED", "MATCHED", "EN_ROUTE", "ARRIVED", "IN_PROGRESS",
               "COMPLETED", "CANCELLED"}
Status     == RideStatus \cup {"NONE"}
\* Mutant: a ride can be cancelled when its driver is on the way.
CancellableEnRoute == {"REQUESTED", "MATCHED", "EN_ROUTE"}
Cancellable == {"REQUESTED", "MATCHED"}

EventType == {"RIDE_REQUESTED", "DRIVER_MATCHED", "STATUS_CHANGED",
              "RIDE_CANCELLED"}
Event     == [type : EventType, old : Status, new : RideStatus,
              refund : {0, 80, 100}]

\* A row of ride_events that carries no refund.
Change(type, old, new) ==
    [type |-> type, old |-> old, new |-> new, refund |-> 0]

DriverStatus == {"EN_ROUTE", "ARRIVED", "BUSY", "AVAILABLE"}
Response == [ride : Ride, driver : Driver]
Report   == [ride : Ride, status : DriverStatus]

CreationStep == {"none", "stored", "published", "armed", "failed", "unarmed"}
ThreadStep == {"idle", "checking", "unmatched", "quoted", "decided",
               "committed", "loaded", "announced", "done"}
-----------------------------------------------------------------------------
(* refund.go and consumer.go: the pure parts *)

\* Mutant: half of the fare in MATCHED, an amount no test expects.
CalculateRefundHalf(previous) ==
    CASE previous = "REQUESTED" -> 100
      [] previous = "MATCHED"   -> 50
      [] OTHER                  -> 0

\* CalculateRefund: the refund as a percentage of the estimated fare.
CalculateRefund(previous) ==
    CASE previous = "REQUESTED" -> 100
      [] previous = "MATCHED"   -> 80
      [] OTHER                  -> 0

\* Mutant: AVAILABLE completes a ride whatever its status.
NewStatusUnguarded(reported, current) ==
    CASE reported = "EN_ROUTE"  -> "EN_ROUTE"
      [] reported = "ARRIVED"   -> "ARRIVED"
      [] reported = "BUSY"      -> "IN_PROGRESS"
      [] reported = "AVAILABLE" -> "COMPLETED"
      [] OTHER -> "NONE"

\* mapDriverStatusToRideStatus, with the case HandleDriverStatus adds to it: a
\* driver who becomes AVAILABLE completes a ride in progress.  NONE: no change.
NewStatus(reported, current) ==
    CASE reported = "EN_ROUTE" -> "EN_ROUTE"
      [] reported = "ARRIVED"  -> "ARRIVED"
      [] reported = "BUSY"     -> "IN_PROGRESS"
      [] reported = "AVAILABLE" /\ current = "IN_PROGRESS" -> "COMPLETED"
      [] OTHER -> "NONE"
-----------------------------------------------------------------------------
Init ==
    /\ status   = [r \in Ride |-> "NONE"]
    /\ driver   = [r \in Ride |-> NoDriver]
    /\ trail    = [r \in Ride |-> <<>>]
    /\ creation = [r \in Ride |-> "none"]
    /\ timer    = [r \in Ride |-> "none"]
    /\ pc       = [t \in Thread |-> "idle"]
    /\ target   = [t \in Thread |-> IF t \in Ride THEN t ELSE NoRide]
    /\ view     = [t \in Thread |-> "NONE"]
    /\ quote    = [t \in Thread |-> 0]
    /\ responseQ = <<>>
    /\ statusQ   = <<>>
    /\ matchedQ  = <<>>
    /\ shown    = [r \in Ride |-> "NONE"]
    /\ accepts = 0
    /\ reports = 0
    /\ faults  = 0
-----------------------------------------------------------------------------
(* CreateRide *)

\* repository.CreateRide: the ride and its first event are one transaction.
CreateRide(r) ==
    /\ creation[r] = "none"
    /\ creation' = [creation EXCEPT ![r] = "stored"]
    /\ status' = [status EXCEPT ![r] = "REQUESTED"]
    /\ trail' = [trail EXCEPT ![r] =
           Append(@, Change("RIDE_REQUESTED", "NONE", "REQUESTED"))]
    /\ UNCHANGED <<driver, timer, pc, local, queues, shown, budgets>>

\* The ride request is published for the matcher of the driver service.
PublishRideRequest(r) ==
    /\ creation[r] = "stored"
    /\ creation' = [creation EXCEPT ![r] = "published"]
    /\ UNCHANGED <<db, timer, pc, local, queues, shown, budgets>>

\* The publish fails: the handler returns, before it starts the timer.
PublishRideRequestFails(r) ==
    /\ creation[r] = "stored"
    /\ faults < MaxFaults
    /\ creation' = [creation EXCEPT ![r] = "failed"]
    /\ faults' = faults + 1
    /\ UNCHANGED <<db, timer, pc, local, queues, shown, accepts, reports>>

\* Mutant: the timer is not started.
StartNoTimeout(r) ==
    /\ creation[r] = "published"
    /\ creation' = [creation EXCEPT ![r] = "armed"]
    /\ UNCHANGED <<db, timer, pc, local, queues, shown, budgets>>

StartMatchingTimeout(r) ==
    /\ creation[r] = "published"
    /\ creation' = [creation EXCEPT ![r] = "armed"]
    /\ timer' = [timer EXCEPT ![r] = "running"]
    /\ UNCHANGED <<db, pc, local, queues, shown, budgets>>

Published(r) == creation[r] \in {"published", "armed", "unarmed"}
-----------------------------------------------------------------------------
(* The matching timer: the function startMatchingTimeout gives to AfterFunc *)

\* Two minutes are over.  The map keeps the entry of a timer that has fired.
MatchingTimeout(r) ==
    /\ timer[r] = "running"
    /\ timer' = [timer EXCEPT ![r] = "fired"]
    /\ pc' = [pc EXCEPT ![r] = "checking"]
    /\ UNCHANGED <<db, creation, local, queues, shown, budgets>>

\* The timer's own GetRide: only a ride still REQUESTED is to be cancelled.
CheckUnmatched(r) ==
    /\ pc[r] = "checking"
    /\ pc' = [pc EXCEPT ![r] = IF status[r] = "REQUESTED" THEN "unmatched"
                               ELSE "done"]
    /\ UNCHANGED <<db, creation, timer, local, queues, shown, budgets>>
-----------------------------------------------------------------------------
(* cancelRide: called by the cancel handler and by the matching timer *)

\* Mutant: the refund is not computed.
ReadWithoutQuote(t, r) ==
    /\ status[r] # "NONE"
    /\ target' = [target EXCEPT ![t] = r]
    /\ view' = [view EXCEPT ![t] = status[r]]
    /\ pc' = [pc EXCEPT ![t] = "quoted"]
    /\ UNCHANGED <<db, creation, timer, quote, queues, shown, budgets>>

\* Mutant: the timer is cleared before the cancellation is known to succeed.
ReadAndClear(t, r) ==
    /\ status[r] # "NONE"
    /\ timer' = [timer EXCEPT ![r] = "none"]
    /\ target' = [target EXCEPT ![t] = r]
    /\ view' = [view EXCEPT ![t] = status[r]]
    /\ quote' = [quote EXCEPT ![t] = CalculateRefund(status[r])]
    /\ pc' = [pc EXCEPT ![t] = "quoted"]
    /\ UNCHANGED <<db, creation, queues, shown, budgets>>

\* GetRide, and the refund computed from the status it returns.
ReadForRefund(t, r) ==
    /\ status[r] # "NONE"
    /\ target' = [target EXCEPT ![t] = r]
    /\ view' = [view EXCEPT ![t] = status[r]]
    /\ quote' = [quote EXCEPT ![t] = CalculateRefund(status[r])]
    /\ pc' = [pc EXCEPT ![t] = "quoted"]
    /\ UNCHANGED <<db, creation, timer, queues, shown, budgets>>

\* A passenger cancels; a request for a ride that does not exist, or for
\* another passenger's ride, changes nothing and is left out.
PassengerCancels(c, r) == pc[c] = "idle" /\ ReadForRefund(c, r)

TimeoutCancels(r) == pc[r] = "unmatched" /\ ReadForRefund(r, r)

\* A goroutine that ends its work on a ride: its local variables are gone.
Leave(t, step) ==
    /\ pc' = [pc EXCEPT ![t] = step]
    /\ target' = [target EXCEPT ![t] = IF t \in Ride THEN t ELSE NoRide]
    /\ view' = [view EXCEPT ![t] = "NONE"]
    /\ quote' = [quote EXCEPT ![t] = 0]

\* repository.CancelRide: the status is read again under the row lock and
\* guards the cancellation, but the refund is the one the caller computed.
CommitCancel(t) ==
    LET r == target[t]
        row == [type   |-> "RIDE_CANCELLED", old |-> status[r],
                new    |-> "CANCELLED", refund |-> quote[t]]
    IN  /\ pc[t] = "quoted"
        /\ status[r] \in Cancellable
        /\ status' = [status EXCEPT ![r] = "CANCELLED"]
        /\ trail' = [trail EXCEPT ![r] = Append(@, row)]
        /\ pc' = [pc EXCEPT ![t] = "committed"]
        /\ UNCHANGED <<driver, creation, timer, local, queues, shown, budgets>>

\* Mutant: the rejected cancellation is announced like a successful one.
RejectButAnnounce(t) ==
    /\ pc[t] = "quoted"
    /\ status[target[t]] \notin Cancellable
    /\ view' = [view EXCEPT ![t] = "CANCELLED"]
    /\ pc' = [pc EXCEPT ![t] = "loaded"]
    /\ UNCHANGED <<db, creation, timer, target, quote, queues, shown, budgets>>

\* ErrRideNotCancellable.
RejectCancel(t) ==
    /\ pc[t] = "quoted"
    /\ status[target[t]] \notin Cancellable
    /\ Leave(t, "done")
    /\ UNCHANGED <<db, creation, timer, queues, shown, budgets>>
-----------------------------------------------------------------------------
(* The consumer of driver_responses: HandleDriverMatched *)

\* Mutant: only a cancelled ride is refused, a matched one matched again.
CommitMatchAgain ==
    LET m == Head(responseQ)
    IN  /\ pc["responses"] = "idle"
        /\ responseQ # <<>>
        /\ status[m.ride] # "CANCELLED"
        /\ status' = [status EXCEPT ![m.ride] = "MATCHED"]
        /\ driver' = [driver EXCEPT ![m.ride] = m.driver]
        /\ trail' = [trail EXCEPT ![m.ride] =
               Append(@, Change("DRIVER_MATCHED", status[m.ride], "MATCHED"))]
        /\ target' = [target EXCEPT !["responses"] = m.ride]
        /\ pc' = [pc EXCEPT !["responses"] = "committed"]
        /\ UNCHANGED <<creation, timer, view, quote, queues, shown, budgets>>

\* repository.UpdateRideMatched: the first accepting driver gets the ride.
CommitMatch ==
    LET m == Head(responseQ)
    IN  /\ pc["responses"] = "idle"
        /\ responseQ # <<>>
        /\ status[m.ride] = "REQUESTED"
        /\ status' = [status EXCEPT ![m.ride] = "MATCHED"]
        /\ driver' = [driver EXCEPT ![m.ride] = m.driver]
        /\ trail' = [trail EXCEPT ![m.ride] =
               Append(@, Change("DRIVER_MATCHED", "REQUESTED", "MATCHED"))]
        /\ target' = [target EXCEPT !["responses"] = m.ride]
        /\ pc' = [pc EXCEPT !["responses"] = "committed"]
        /\ UNCHANGED <<creation, timer, view, quote, queues, shown, budgets>>

\* ErrRideAlreadyMatched, whatever the status: the delivery is acknowledged.
DropResponse ==
    /\ pc["responses"] = "idle"
    /\ responseQ # <<>>
    /\ status[Head(responseQ).ride] # "REQUESTED"
    /\ responseQ' = Tail(responseQ)
    /\ UNCHANGED <<db, creation, timer, pc, local, statusQ, matchedQ, shown,
                   budgets>>
-----------------------------------------------------------------------------
(* The consumer of driver_status: HandleDriverStatus *)

\* GetRide, and the decision it is for.
ReadForStatus ==
    LET m == Head(statusQ)
        new == NewStatus(m.status, status[m.ride])
    IN  /\ pc["statuses"] = "idle"
        /\ statusQ # <<>>
        /\ status[m.ride] # "NONE"
        /\ new \notin {"NONE", status[m.ride]}
        /\ target' = [target EXCEPT !["statuses"] = m.ride]
        /\ view' = [view EXCEPT !["statuses"] = status[m.ride]]
        /\ pc' = [pc EXCEPT !["statuses"] = "decided"]
        /\ UNCHANGED <<db, creation, timer, quote, queues, shown, budgets>>

\* There is no such ride, the report changes nothing, or the ride already has
\* that status.
DropReport ==
    LET m == Head(statusQ)
    IN  /\ pc["statuses"] = "idle"
        /\ statusQ # <<>>
        /\ \/ status[m.ride] = "NONE"
           \/ NewStatus(m.status, status[m.ride]) \in {"NONE", status[m.ride]}
        /\ statusQ' = Tail(statusQ)
        /\ UNCHANGED <<db, creation, timer, pc, local, responseQ, matchedQ,
                       shown, budgets>>

\* Mutant: old_status is the status the handler had read before the lock.
CommitStatusRead ==
    LET r == target["statuses"]
        new == NewStatus(Head(statusQ).status, view["statuses"])
    IN  /\ pc["statuses"] = "decided"
        /\ status' = [status EXCEPT ![r] = new]
        /\ trail' = [trail EXCEPT ![r] =
               Append(@, Change("STATUS_CHANGED", view["statuses"], new))]
        /\ pc' = [pc EXCEPT !["statuses"] = "committed"]
        /\ UNCHANGED <<driver, creation, timer, local, queues, shown, budgets>>

\* repository.UpdateRideStatus: the status under the lock goes into the event
\* as old_status; nothing is checked against it.
CommitStatus ==
    LET r == target["statuses"]
        new == NewStatus(Head(statusQ).status, view["statuses"])
    IN  /\ pc["statuses"] = "decided"
        /\ status' = [status EXCEPT ![r] = new]
        /\ trail' = [trail EXCEPT ![r] =
               Append(@, Change("STATUS_CHANGED", status[r], new))]
        /\ pc' = [pc EXCEPT !["statuses"] = "committed"]
        /\ UNCHANGED <<driver, creation, timer, local, queues, shown, budgets>>
-----------------------------------------------------------------------------
(* What every transaction is followed by *)

\* The repository's GetRide after the commit, outside the transaction.
LoadUpdated(t) ==
    /\ pc[t] = "committed"
    /\ view' = [view EXCEPT ![t] = status[target[t]]]
    /\ pc' = [pc EXCEPT ![t] = "loaded"]
    /\ UNCHANGED <<db, creation, timer, target, quote, queues, shown, budgets>>

\* clearMatchingTimeout, which cancelRide and HandleDriverMatched call.
ClearMatchingTimeout(t) ==
    timer' = IF t = "statuses" THEN timer
             ELSE [timer EXCEPT ![target[t]] = "none"]

\* Mutant: the driver service takes a cancellation for a match.
ToDriverServiceCancelled(t) ==
    IF view[t] \in {"MATCHED", "CANCELLED"}
    THEN Append(matchedQ, target[t])
    ELSE matchedQ

\* Mutant: the driver service is told of nothing.
ToDriverServiceNever(t) == matchedQ

\* The driver service ignores every status but MATCHED.
ToDriverService(t) ==
    IF view[t] = "MATCHED"
    THEN Append(matchedQ, target[t])
    ELSE matchedQ

\* A handler's last step: the timer is cleared, the status that was loaded is
\* published and pushed to the passenger, if connected.  A request or a timer
\* is over; a consumer has yet to acknowledge its delivery.
Finish(t) == Leave(t, IF t \in Consumer THEN "announced" ELSE "done")

Announce(t) ==
    /\ pc[t] = "loaded"
    /\ ClearMatchingTimeout(t)
    /\ matchedQ' = ToDriverService(t)
    /\ \/ shown' = [shown EXCEPT ![target[t]] = view[t]]
       \/ UNCHANGED shown
    /\ Finish(t)
    /\ UNCHANGED <<db, creation, responseQ, statusQ, budgets>>

\* The publish fails, which is only logged.
AnnounceUnpublished(t) ==
    /\ pc[t] = "loaded"
    /\ faults < MaxFaults
    /\ faults' = faults + 1
    /\ ClearMatchingTimeout(t)
    /\ \/ shown' = [shown EXCEPT ![target[t]] = view[t]]
       \/ UNCHANGED shown
    /\ Finish(t)
    /\ UNCHANGED <<db, creation, queues, accepts, reports>>

\* Consume acknowledges the delivery the handler has returned from.
AckResponse ==
    /\ pc["responses"] = "announced"
    /\ responseQ' = Tail(responseQ)
    /\ pc' = [pc EXCEPT !["responses"] = "idle"]
    /\ UNCHANGED <<db, creation, timer, local, statusQ, matchedQ, shown, budgets>>

AckReport ==
    /\ pc["statuses"] = "announced"
    /\ statusQ' = Tail(statusQ)
    /\ pc' = [pc EXCEPT !["statuses"] = "idle"]
    /\ UNCHANGED <<db, creation, timer, local, responseQ, matchedQ, shown, budgets>>
-----------------------------------------------------------------------------
(* What can fail.  Every failure uses up one of MaxFaults. *)

\* Mutant: a consumer acknowledges the report its handler has failed on.
DatabaseCallFailsAcked(t) ==
    /\ pc[t] \in {"checking", "unmatched", "quoted", "decided", "committed"}
    /\ faults < MaxFaults
    /\ faults' = faults + 1
    /\ Leave(t, IF t \in Consumer THEN "idle" ELSE "done")
    /\ statusQ' = IF t = "statuses" THEN Tail(statusQ) ELSE statusQ
    /\ UNCHANGED <<db, creation, timer, responseQ, matchedQ, shown, accepts, reports>>

\* A database call returns an error or a request's context ends: the handler
\* returns.  A transaction that fails leaves no trace; after a commit only the
\* rest of the handler is lost.  A consumer refuses the delivery, which goes
\* back to the head of its queue.
DatabaseCallFails(t) ==
    /\ pc[t] \in {"checking", "unmatched", "quoted", "decided", "committed"}
    /\ faults < MaxFaults
    /\ faults' = faults + 1
    /\ Leave(t, IF t \in Consumer THEN "idle" ELSE "done")
    /\ UNCHANGED <<db, creation, timer, queues, shown, accepts, reports>>

\* The channel closes before the acknowledgement: the delivery comes again.
AckLost(t) ==
    /\ t \in Consumer
    /\ pc[t] = "announced"
    /\ faults < MaxFaults
    /\ faults' = faults + 1
    /\ pc' = [pc EXCEPT ![t] = "idle"]
    /\ UNCHANGED <<db, creation, timer, local, queues, shown, accepts, reports>>

\* The process is killed and started again.  Nothing of what it had in memory
\* is restored: no timer is armed for the rides it finds in the database.
Crash ==
    /\ faults < MaxFaults
    /\ faults' = faults + 1
    /\ creation' = [r \in Ride |->
           CASE creation[r] = "stored" -> "failed"
             [] creation[r] \in {"published", "armed"} -> "unarmed"
             [] OTHER -> creation[r]]
    /\ timer' = [r \in Ride |-> "none"]
    /\ pc' = [t \in Thread |-> IF t \in Consumer \/ pc[t] = "idle" THEN "idle"
                               ELSE "done"]
    /\ target' = [t \in Thread |-> IF t \in Ride THEN t ELSE NoRide]
    /\ view' = [t \in Thread |-> "NONE"]
    /\ quote' = [t \in Thread |-> 0]
    /\ UNCHANGED <<db, queues, shown, accepts, reports>>
-----------------------------------------------------------------------------
(* The driver and location service, as the sender of the two queues *)

\* onMatchSuccess: a driver accepted the offer of a published ride.  A request
\* delivered twice is matched twice, so that several drivers may accept.
AcceptOffer(r, d) ==
    /\ Published(r)
    /\ accepts < MaxAccepts
    /\ accepts' = accepts + 1
    /\ responseQ' = Append(responseQ, [ride |-> r, driver |-> d])
    /\ UNCHANGED <<db, creation, timer, pc, local, statusQ, matchedQ, shown,
                   reports, faults>>

\* handleRideStatus: the matched driver is told, and reported EN_ROUTE.
SendEnRoute ==
    statusQ' = Append(statusQ, [ride |-> Head(matchedQ), status |-> "EN_ROUTE"])

HandleMatched ==
    /\ matchedQ # <<>>
    /\ SendEnRoute
    /\ matchedQ' = Tail(matchedQ)
    /\ UNCHANGED <<db, creation, timer, pc, local, responseQ, shown, budgets>>

\* The announcement is not acknowledged, and will be handled again.
HandleMatchedUnacknowledged ==
    /\ matchedQ # <<>>
    /\ faults < MaxFaults
    /\ faults' = faults + 1
    /\ SendEnRoute
    /\ UNCHANGED <<db, creation, timer, pc, local, responseQ, matchedQ, shown,
                   accepts, reports>>

\* A driver's app reports ARRIVED (HandleWSStatusUpdate), BUSY (HandleStart) or
\* AVAILABLE (HandleComplete).  Only ARRIVED is checked: the ride was assigned to
\* that driver, and MATCHED or EN_ROUTE then; it may be anything when the report
\* is published.  The other two name any ride whatever, in any order.
DriverReports(r, s) ==
    /\ reports < MaxReports
    /\ s = "ARRIVED" => driver[r] # NoDriver
    /\ reports' = reports + 1
    /\ statusQ' = Append(statusQ, [ride |-> r, status |-> s])
    /\ UNCHANGED <<db, creation, timer, pc, local, responseQ, matchedQ, shown,
                   accepts, faults>>
-----------------------------------------------------------------------------
CreateStep(r) ==
    CreateRide(r) \/ PublishRideRequest(r) \/ StartMatchingTimeout(r)

TimerStep(r) == MatchingTimeout(r) \/ CheckUnmatched(r) \/ TimeoutCancels(r)

HandlerStep(t) ==
    CommitCancel(t) \/ RejectCancel(t) \/ LoadUpdated(t) \/ Announce(t)

ResponseStep == CommitMatch \/ DropResponse \/ AckResponse

StatusStep == ReadForStatus \/ DropReport \/ CommitStatus \/ AckReport

DriverStep ==
    \/ \E r \in Ride, d \in Driver : AcceptOffer(r, d)
    \/ HandleMatched
    \/ \E r \in Ride, s \in DriverStatus \ {"EN_ROUTE"} : DriverReports(r, s)

Fault ==
    \/ \E r \in Ride : PublishRideRequestFails(r)
    \/ \E t \in Thread : AnnounceUnpublished(t)
    \/ \E t \in Thread : DatabaseCallFails(t)
    \/ \E t \in Thread : AckLost(t)
    \/ Crash
    \/ HandleMatchedUnacknowledged

Next ==
    \/ \E r \in Ride : CreateStep(r)
    \/ \E r \in Ride : TimerStep(r)
    \/ \E c \in Call, r \in Ride : PassengerCancels(c, r)
    \/ \E t \in Thread : HandlerStep(t)
    \/ ResponseStep
    \/ StatusStep
    \/ DriverStep
    \/ Fault

Spec == Init /\ [][Next]_vars

\* A handler that has been called runs on, a running timer expires, and a
\* message is delivered.  Nobody is forced to call, accept, report or fail.
Fairness ==
    /\ \A r \in Ride : /\ WF_vars(PublishRideRequest(r))
                       /\ WF_vars(StartMatchingTimeout(r))
                       /\ WF_vars(TimerStep(r))
    /\ \A t \in Thread : WF_vars(HandlerStep(t))
    /\ WF_vars(ResponseStep)
    /\ WF_vars(StatusStep)
    /\ WF_vars(HandleMatched)

FairSpec == Spec /\ Fairness
-----------------------------------------------------------------------------
(* Properties *)

\* Every variable keeps its type: what each column, local variable and queue
\* of the service can hold.
TypeOK ==
    /\ status   \in [Ride -> Status]
    /\ driver   \in [Ride -> Driver \cup {NoDriver}]
    /\ trail    \in [Ride -> Seq(Event)]
    /\ creation \in [Ride -> CreationStep]
    /\ timer    \in [Ride -> {"none", "running", "fired"}]
    /\ pc       \in [Thread -> ThreadStep]
    /\ target   \in [Thread -> Ride \cup {NoRide}]
    /\ view     \in [Thread -> Status]
    /\ quote    \in [Thread -> {0, 80, 100}]
    /\ responseQ \in Seq(Response)
    /\ statusQ   \in Seq(Report)
    /\ matchedQ  \in Seq(Ride)
    /\ shown    \in [Ride -> Status]
    /\ accepts \in Nat /\ reports \in Nat /\ faults \in Nat

\* ride_events is a complete account of a ride: each event starts from the
\* status the one before it left, and the last one left the current status,
\* although three kinds of goroutine write both (repository.go: every update of
\* rides.status inserts its event in the same transaction).
TrailExplainsStatus ==
    \A r \in Ride :
        /\ (status[r] = "NONE") <=> (trail[r] = <<>>)
        /\ trail[r] # <<>> => status[r] = trail[r][Len(trail[r])].new
        /\ \A i \in 2 .. Len(trail[r]) : trail[r][i].old = trail[r][i - 1].new

\* A ride has at most one driver and is cancelled, hence refunded, at most
\* once, whatever responses are delivered twice and whoever cancels at the same
\* time as the timer: a match or a cancellation is never entered twice, and
\* nothing is matched or refunded after the driver has set out.
SettledOnce ==
    \A r \in Ride : \A i, j \in DOMAIN trail[r] :
        i < j => /\ trail[r][i].type = "RIDE_CANCELLED" =>
                        trail[r][j].type = "STATUS_CHANGED"
                 /\ trail[r][j].type = "DRIVER_MATCHED" =>
                        trail[r][i].type = "RIDE_REQUESTED"
                 /\ trail[r][i].type = "STATUS_CHANGED" =>
                        trail[r][j].type \notin {"DRIVER_MATCHED", "RIDE_CANCELLED"}

\* The passenger is never refunded less than the status the ride was cancelled
\* in entitles to, although cancelRide computes the refund before it locks the
\* row (service.go:142-152).
RefundNeverShort ==
    \A r \in Ride : \A i \in DOMAIN trail[r] :
        trail[r][i].type = "RIDE_CANCELLED" =>
            trail[r][i].refund >= CalculateRefund(trail[r][i].old)

\* Nobody sets out for, or arrives at, a ride that no driver was matched to: MATCHED
\* is announced from a status loaded after the commit, by whoever loads it, and
\* handled again when the acknowledgement is lost; and a report may be entered long
\* after it was checked.  (BUSY is not checked: it starts a ride that has no driver.)
SettingOutHasDriver ==
    \A r \in Ride :
        status[r] \in {"MATCHED", "EN_ROUTE", "ARRIVED"} => driver[r] # NoDriver

\* A ride is completed, and its final fare charged, only from IN_PROGRESS, and
\* no more often than it was started, even if AVAILABLE is delivered twice and
\* although the transaction does not look at the old status.
CompletedOnlyFromProgress ==
    \A r \in Ride : \A i \in DOMAIN trail[r] :
        trail[r][i].new = "COMPLETED" => trail[r][i].old = "IN_PROGRESS"

\* The passenger's app is never shown a status the ride has not really had: a
\* push follows the commit it tells of.
ShownIsTrue ==
    \A r \in Ride :
        shown[r] # "NONE" => \E i \in DOMAIN trail[r] : trail[r][i].new = shown[r]

\* A ride that waits for a driver is watched: its timer runs, or the goroutine of
\* its timer is on the way to cancel it.  No handler clears the timer of a ride
\* still REQUESTED, whatever fails; once it is armed, only a crash, or a failed call
\* of the timer's own goroutine, leaves the ride alone (service.go:298-328).
RequestedIsWatched ==
    \A r \in Ride :
        creation[r] = "armed" /\ status[r] = "REQUESTED" =>
            \/ timer[r] = "running"
            \/ /\ timer[r] = "fired"
               /\ \/ pc[r] \in {"checking", "unmatched", "quoted"}
                  \/ pc[r] = "done" /\ faults > 0

\* A requested ride is matched or cancelled in the end: the matching timer is
\* started for each (service.go:113).
NoRideLeftRequested ==
    \A r \in Ride : status[r] = "REQUESTED" ~> status[r] # "REQUESTED"

\* A matched ride does not stay MATCHED: it is cancelled, or its driver is told
\* and sets out (service.go:191, driverlocation/service.go:65-77).
NoRideLeftMatched ==
    \A r \in Ride : status[r] = "MATCHED" ~> status[r] # "MATCHED"

\* The service implements the lifecycle.  The refund of a ride is the one its
\* cancellation has entered in the audit trail.
RefundOf(r) ==
    IF \E i \in DOMAIN trail[r] : trail[r][i].type = "RIDE_CANCELLED"
    THEN LET i == CHOOSE i \in DOMAIN trail[r] : trail[r][i].type = "RIDE_CANCELLED"
         IN  trail[r][i].refund
    ELSE 0

Lifecycle == INSTANCE RideLifecycle WITH refund <- [r \in Ride |-> RefundOf(r)]

\* Every step of the service is one operation of RideLifecycle or changes
\* nothing it speaks of, and what a transaction does does not depend on what
\* its handler read before: but for the refund, which is never too small.
ImplementsLifecycle == Lifecycle!Spec
-----------------------------------------------------------------------------
(* What the documentation says, and the service does not guarantee *)

\* README.md:46-48: CANCELLED ends the lifecycle.
CancelledIsFinal ==
    \A r \in Ride : \A i \in DOMAIN trail[r] : trail[r][i].old # "CANCELLED"

\* fare_test.go:34-42: the refund is full in REQUESTED, 80 % in MATCHED.
RefundIsExact ==
    \A r \in Ride : \A i \in DOMAIN trail[r] :
        LET e == trail[r][i]
        IN  e.type = "RIDE_CANCELLED" => e.refund = CalculateRefund(e.old)
=============================================================================
