------------------------------ MODULE RideHail ------------------------------
(***************************************************************************)
(* The ride service and the driver and location service together, over     *)
(* their queues: each is the environment the other's module assumes.       *)
(*                                                                         *)
(* RideService gives the goroutines of the ride service and the queues;    *)
(* what it leaves to "the driver and location service" is here a step of   *)
(* Dispatch.  Dispatch gives the searches, the offers and the status of    *)
(* drivers; what it leaves to the ride service, whose operations it takes  *)
(* for atomic, is here done by those goroutines.  A step below names what  *)
(* changes on both sides, and that the result is a behaviour of both       *)
(* modules is checked, not assumed.                                        *)
(***************************************************************************)
EXTENDS Naturals, Sequences, FiniteSets

CONSTANTS
    Ride, Driver, Search, NoRide, NoDriver,
    MaxCandidates,
    MaxAccepts,     \* bound of RideService: no fewer than there are searches
    MaxReports,     \* bound: calls of the drivers' apps that report a ride
    MaxFaults       \* bound: faults of the two services together

ASSUME AcceptAssumption == Cardinality(Search) <= MaxAccepts

ASSUME NameAssumption ==
    /\ "responses" \notin Ride /\ "statuses" \notin Ride
    /\ NoRide \notin Ride /\ NoDriver \notin Driver

ASSUME BoundAssumption ==
    /\ MaxCandidates \in Nat /\ MaxAccepts \in Nat
    /\ MaxReports \in Nat /\ MaxFaults \in Nat

VARIABLES
    \* of RideService
    status, driver, trail, creation, timer, pc, target, view, quote,
    responseQ, statusQ, matchedQ, shown, accepts, reports, faults,
    \* of Dispatch: the messages each queue holds, to those who must act on them
    driverStatus, requests, responses, matched, search, request, candidates,
    pending, replies, arriving, agreed, freed, unmarked,
    matcherFaults,  \* its faults, counted apart
    lost,           \* those it does not see: reports that were not published
    \* history
    latest,         \* how far the last report published of each ride was
    disordered      \* rides whose reports were not published in order

rideService == <<status, driver, trail, creation, timer, pc, target, view, quote,
                 responseQ, statusQ, matchedQ, shown, accepts, reports>>
dispatch == <<driverStatus, requests, responses, matched, search, request, candidates,
              pending, replies, arriving, agreed, freed, unmarked, matcherFaults>>
published == <<lost, latest, disordered>>
vars == <<rideService, faults, dispatch, published>>

R == INSTANCE RideService WITH Call <- {}
D == INSTANCE Dispatch WITH rideStatus <- status, rideDriver <- driver,
                            faults <- matcherFaults

\* How far a report says its ride has come; 0: there was none.
Stage == [EN_ROUTE |-> 1, ARRIVED |-> 2, BUSY |-> 3, AVAILABLE |-> 4]

Init ==
    /\ R!Init /\ D!Init
    /\ lost = 0
    /\ latest = [r \in Ride |-> 0] /\ disordered = {}

\* The faults of both services count together.
Bounded ==
    \/ UNCHANGED <<faults, matcherFaults, lost>>
    \/ faults' + matcherFaults' + lost' <= MaxFaults

-----------------------------------------------------------------------------
(* Steps of the ride service.                                               *)

\* A step that the driver service sees nothing of.  The passenger is left out:
\* nothing reads what is pushed to his socket, and a cancellation of his is one
\* of the timer that has seen the ride REQUESTED and comes later.
Internal ==
    /\ \/ \E r \in Ride : \/ R!PublishRideRequest(r) \/ R!PublishRideRequestFails(r)
                          \/ R!StartMatchingTimeout(r) \/ R!TimerStep(r)
       \/ \E t \in R!Thread : \/ R!RejectCancel(t) \/ R!LoadUpdated(t) \/ R!Announce(t)
                              \/ R!AnnounceUnpublished(t) \/ R!DatabaseCallFails(t)
                              \/ R!AckLost(t)
       \/ R!AckResponse \/ R!ReadForStatus \/ R!DropReport \/ R!CommitStatus \/ R!AckReport
       \/ R!Crash
    /\ UNCHANGED <<shown, dispatch, published>>
    /\ Bounded

Requested(r) ==
    /\ R!CreateRide(r)
    /\ requests' = requests \cup {r}
    /\ UNCHANGED <<driverStatus, responses, matched, search, request, candidates, pending,
                   replies, arriving, agreed, freed, unmarked, matcherFaults,
                   published>>

Cancelled(t) ==
    /\ R!CommitCancel(t)
    /\ UNCHANGED <<dispatch, published>>

\* The response at the head of the queue, as Dispatch names it.
FirstResponse == <<Head(responseQ).ride, Head(responseQ).driver>>

Matched ==
    /\ R!CommitMatch
    /\ responses' = responses \ {FirstResponse}
    /\ matched' = matched \cup {FirstResponse}
    /\ UNCHANGED <<driverStatus, requests, search, request, candidates, pending, replies,
                   arriving, agreed, freed, unmarked, matcherFaults, published>>

NotMatched ==
    /\ R!DropResponse
    /\ responses' = responses \ {FirstResponse}
    /\ UNCHANGED <<driverStatus, requests, matched, search, request, candidates, pending,
                   replies, arriving, agreed, freed, unmarked, matcherFaults, published>>

-----------------------------------------------------------------------------
(* Steps of the driver and location service.                                *)

\* A step that the ride service sees nothing of.
Apart ==
    /\ \/ \E g \in Search : \/ D!FindNearbyDrivers(g) \/ D!FindFails(g) \/ D!Exhausted(g)
                            \/ D!Unreachable(g) \/ D!OfferToDriver(g) \/ D!Accepted(g)
                            \/ D!Rejected(g) \/ D!OfferTimeout(g) \/ D!MarkEnRoute(g)
                            \/ D!MarkFails(g) \/ D!PublishFails(g)
                            \/ \E d \in Driver, a \in BOOLEAN : D!HandleDriverResponse(<<g, d>>, a)
       \/ \E d \in Driver : D!HandleOnline(d) \/ D!HandleOffline(d)
       \/ D!Crash
    /\ UNCHANGED <<rideService, faults, published>>
    /\ Bounded

\* The request has been published before it is delivered.
Searched(g, r) ==
    /\ R!Published(r)
    /\ D!HandleRideRequest(g, r)
    /\ UNCHANGED <<rideService, faults, published>>
    /\ Bounded

Accepted(g) ==
    /\ search[g] = "marked"
    /\ R!AcceptOffer(request[g], Head(candidates[g]))
    /\ D!Return(g)
    /\ responses' = responses \cup {<<request[g], Head(candidates[g])>>}
    /\ UNCHANGED <<driverStatus, requests, matched, request, pending, replies,
                   arriving, agreed, freed, unmarked, matcherFaults, published>>

\* What a published report adds to the history.  The reports of a ride are in order
\* if each is of a ride there is, none comes after one further on, and AVAILABLE
\* only after a BUSY.
Publishes(r, s) ==
    LET inOrder == /\ status[r] # "NONE"
                   /\ Stage[s] >= latest[r]
                   /\ s = "AVAILABLE" => latest[r] >= Stage.BUSY
    IN  /\ latest' = [latest EXCEPT ![r] = Stage[s]]
        /\ disordered' = IF inOrder THEN disordered ELSE disordered \cup {r}
        /\ UNCHANGED lost

\* The matched driver is EN_ROUTE and reported so.  The announcement comes again if
\* the report is not published, or the delivery not acknowledged: the latter is a
\* fault on both sides.
Announced(d) ==
    LET r == Head(matchedQ)
        Again == /\ matcherFaults < MaxFaults
                 /\ matcherFaults' = matcherFaults + 1
                 /\ UNCHANGED matched
    IN  /\ matchedQ # <<>>
        /\ driver[r] = d
        /\ driverStatus' = [driverStatus EXCEPT ![d] = "EN_ROUTE"]
        /\ \/ /\ R!HandleMatched /\ Publishes(r, "EN_ROUTE")
              /\ matched' = matched \ {<<r, d>>}
              /\ UNCHANGED matcherFaults
           \/ R!HandleMatchedUnacknowledged /\ Publishes(r, "EN_ROUTE") /\ Again
           \/ UNCHANGED <<rideService, faults, published>> /\ Again
        /\ UNCHANGED <<requests, responses, search, request, candidates, pending, replies,
                       arriving, agreed, freed, unmarked>>
        /\ Bounded

\* Calls of the apps are bounded: those whose report is out or lost, or to come.
Calling == reports + lost + Cardinality(arriving) < MaxReports

\* ARRIVED is checked before it is entered and reported.
Arriving(d, r) ==
    /\ Calling
    /\ D!CheckArrived(d, r)
    /\ UNCHANGED <<rideService, faults, published>>

\* publishStatus: that it fails is only logged.
PublishStatus(r, s) ==
    \/ R!DriverReports(r, s) /\ Publishes(r, s)
    \/ /\ lost' = lost + 1
       /\ UNCHANGED <<rideService, faults, latest, disordered>>

\* The handlers that set the driver's status report it as well, HandleStart and
\* HandleComplete for whatever ride the app names.
Reported(d, r) ==
    /\ \/ D!SetArrived(d, r) /\ PublishStatus(r, "ARRIVED")
       \/ Calling /\ D!HandleStart(d) /\ PublishStatus(r, "BUSY")
       \/ Calling /\ D!HandleComplete(d) /\ PublishStatus(r, "AVAILABLE")
    /\ Bounded

-----------------------------------------------------------------------------
Next ==
    \/ Internal \/ Matched \/ NotMatched \/ Apart
    \/ \E r \in Ride : Requested(r)
    \/ \E t \in R!Thread : Cancelled(t)
    \/ \E g \in Search : Accepted(g) \/ \E r \in Ride : Searched(g, r)
    \/ \E d \in Driver : Announced(d) \/ \E r \in Ride : Arriving(d, r) \/ Reported(d, r)

Spec == Init /\ [][Next]_vars

-----------------------------------------------------------------------------
\* The driver service is to RideService what RideService assumes of it: a response
\* is sent only of a ride whose request was published, an ARRIVED only of a ride with
\* a driver, and an announced match is reported before its delivery is acknowledged.
ImplementsRideService == R!Spec

\* The ride service is to Dispatch what Dispatch assumes: cut into its goroutines,
\* with its faults, redeliveries and crashes, it still matches, cancels and moves on
\* the rides of the drivers as the atomic Request, Match, Cancel and Advance do.
ImplementsDispatch == D!Spec

\* A completion reported in order is entered, or waits to be with the BUSY that lets
\* it be, whatever fails in the ride service and whoever cancels: each report is
\* applied from a status read before the row is locked (service.go:222), and again if
\* its handler fails.  Nothing makes the apps keep the order, or the broker the BUSY
\* (handler.go:334, 374): a completion after a BUSY that was lost is dropped.
CompletionIsEntered ==
    \A r \in Ride :
        latest[r] = Stage.AVAILABLE /\ r \notin disordered
        => \/ status[r] = "COMPLETED"
           \/ \E i \in DOMAIN statusQ :
                  /\ statusQ[i] = [ride |-> r, status |-> "AVAILABLE"]
                  /\ \/ status[r] = "IN_PROGRESS"
                     \/ \E j \in 1 .. i - 1 : statusQ[j] = [ride |-> r, status |-> "BUSY"]
=============================================================================
