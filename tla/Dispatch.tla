------------------------------ MODULE Dispatch ------------------------------
(***************************************************************************)
(* Matching in the driver and location service (src/internal/              *)
(* driverlocation): the goroutines that offer a ride to one driver after   *)
(* another (MatchRide), the answers that come in from the drivers' sockets *)
(* (HandleDriverResponse), the consumer of ride_status and the handlers    *)
(* that set a driver's status.                                             *)
(*                                                                         *)
(* A driver is offered a ride at most once by one search, so that an offer *)
(* is named by the pair of both.  The ride service appears as the          *)
(* operations of RideLifecycle, which RideService is shown to implement;   *)
(* what the drivers report to it is not kept here, a ride simply moves on. *)
(***************************************************************************)
EXTENDS Naturals, Sequences

CONSTANTS
    Ride,
    Driver,
    Search,         \* goroutines that run MatchRide
    NoRide,
    NoDriver,
    MaxCandidates,  \* maxCandidates
    MaxFaults       \* bound: failed calls, redeliveries and crashes

ASSUME CandidateAssumption == MaxCandidates \in Nat
ASSUME FaultAssumption == MaxFaults \in Nat
ASSUME NothingAssumption == NoRide \notin Ride /\ NoDriver \notin Driver

VARIABLES
    \* the database
    driverStatus,  \* drivers.status
    rideStatus,    \* rides.status, NONE before the ride is inserted
    rideDriver,    \* rides.driver_id
    \* the queues driver_matching, driver_responses and ride_status
    requests,      \* requested rides whose delivery is not acknowledged
    responses,     \* accepted matches <<ride, driver>>
    matched,       \* matches <<ride, driver>> announced to this service
    \* the memory of this service
    search,        \* where each search is
    request,       \* the ride it is for
    candidates,    \* the drivers it has yet to try, the current one first
    pending,       \* m.pending: offers <<search, driver>> that wait
    replies,       \* <<search, driver, accepted>> in their channels
    arriving,      \* <<ride, driver>>: the driver's ARRIVED was found right
    \* history and bounds
    agreed,        \* <<ride, driver>>: accepted while the offer was pending
    freed,         \* <<ride, driver>>: agreed, and freed by his own app since he was marked
    unmarked,      \* rides whose driver could not be marked EN_ROUTE
    faults

database == <<driverStatus, rideStatus, rideDriver>>
queues   == <<requests, responses, matched>>
offers   == <<pending, replies, agreed>>
history  == <<freed, unmarked>>
vars == <<driverStatus, rideStatus, rideDriver, requests, responses, matched,
          search, request, candidates, pending, replies, arriving,
          agreed, freed, unmarked, faults>>

DriverStatus == {"OFFLINE", "AVAILABLE", "EN_ROUTE", "ARRIVED", "BUSY"}
RideStatus   == {"NONE", "REQUESTED", "MATCHED", "EN_ROUTE", "ARRIVED",
                 "IN_PROGRESS", "COMPLETED", "CANCELLED"}
SearchStep   == {"idle", "querying", "offering", "waiting", "accepted", "marked", "done"}

\* Results of the query: different drivers, in some order, not too many.
CandidateList(available) ==
    UNION {{f \in [1 .. n -> available] :
                \A i, j \in 1 .. n : f[i] = f[j] => i = j} : n \in 0 .. MaxCandidates}

Init ==
    /\ driverStatus = [d \in Driver |-> "OFFLINE"]
    /\ rideStatus = [r \in Ride |-> "NONE"]
    /\ rideDriver = [r \in Ride |-> NoDriver]
    /\ requests = {} /\ responses = {} /\ matched = {}
    /\ search = [g \in Search |-> "idle"]
    /\ request = [g \in Search |-> NoRide]
    /\ candidates = [g \in Search |-> <<>>]
    /\ pending = {} /\ replies = {} /\ arriving = {}
    /\ agreed = {} /\ freed = {} /\ unmarked = {}
    /\ faults = 0
-----------------------------------------------------------------------------
(* handleRideRequest and MatchRide *)

Goto(g, step) == search' = [search EXCEPT ![g] = step]

\* A goroutine takes the ride; the delivery is acknowledged, or comes again.
HandleRideRequest(g, r) ==
    /\ r \in requests
    /\ search[g] = "idle"
    /\ request' = [request EXCEPT ![g] = r]
    /\ Goto(g, "querying")
    /\ \/ requests' = requests \ {r} /\ UNCHANGED faults
       \/ faults < MaxFaults /\ faults' = faults + 1 /\ UNCHANGED requests
    /\ UNCHANGED <<database, responses, matched, candidates, offers, arriving, history>>

\* Available drivers near the pickup, whichever these are.
FindNearbyDrivers(g) ==
    /\ search[g] = "querying"
    /\ \E list \in CandidateList({d \in Driver : driverStatus[d] = "AVAILABLE"}) :
           candidates' = [candidates EXCEPT ![g] = list]
    /\ Goto(g, "offering")
    /\ UNCHANGED <<database, queues, request, offers, arriving, history, faults>>

\* The query fails: the ride is given up.
FindFails(g) ==
    /\ search[g] = "querying"
    /\ faults < MaxFaults
    /\ faults' = faults + 1
    /\ Goto(g, "done")
    /\ UNCHANGED <<database, queues, request, candidates, offers, arriving, history>>

\* Nobody, or nobody else, to offer the ride to.
Exhausted(g) ==
    /\ search[g] = "offering"
    /\ candidates[g] = <<>>
    /\ Goto(g, "done")
    /\ UNCHANGED <<database, queues, request, candidates, offers, arriving, history, faults>>

\* The current driver is given up for the next.
NextDriver(g) == candidates' = [candidates EXCEPT ![g] = Tail(@)]

\* The driver is not connected: the offer is withdrawn at once.
Unreachable(g) ==
    /\ search[g] = "offering"
    /\ candidates[g] # <<>>
    /\ NextDriver(g)
    /\ UNCHANGED <<database, queues, search, request, offers, arriving, history, faults>>

\* The offer is entered in m.pending and given to the driver's socket.  One that is
\* lost there is not answered, which no driver has to do.
OfferToDriver(g) ==
    LET offer == <<g, Head(candidates[g])>>
    IN  /\ search[g] = "offering"
        /\ candidates[g] # <<>>
        /\ pending' = pending \cup {offer}
        /\ Goto(g, "waiting")
        /\ UNCHANGED <<database, queues, request, candidates, replies, agreed,
                       arriving, history, faults>>

\* The offer is deleted from m.pending, and its channel forgotten.
Withdraw(g) ==
    /\ pending' = pending \ {<<g, Head(candidates[g])>>}
    /\ replies' = replies \ {<<g, Head(candidates[g]), a>> : a \in BOOLEAN}

Accepted(g) ==
    /\ search[g] = "waiting"
    /\ <<g, Head(candidates[g]), TRUE>> \in replies
    /\ Withdraw(g)
    /\ Goto(g, "accepted")
    /\ UNCHANGED <<database, queues, request, candidates, agreed,
                   arriving, history, faults>>

Rejected(g) ==
    /\ search[g] = "waiting"
    /\ <<g, Head(candidates[g]), FALSE>> \in replies
    /\ Withdraw(g)
    /\ NextDriver(g)
    /\ Goto(g, "offering")
    /\ UNCHANGED <<database, queues, request, agreed, arriving, history, faults>>

\* Mutant: an offer that has timed out stays in m.pending.
OfferTimeoutLeaky(g) ==
    /\ search[g] = "waiting"
    /\ NextDriver(g)
    /\ Goto(g, "offering")
    /\ UNCHANGED <<database, queues, request, pending, replies, agreed,
                   arriving, history, faults>>

\* Mutant: only an offer that was answered expires.
OfferTimeoutAnswered(g) ==
    /\ search[g] = "waiting"
    /\ \E a \in BOOLEAN : <<g, Head(candidates[g]), a>> \in replies
    /\ Withdraw(g)
    /\ NextDriver(g)
    /\ Goto(g, "offering")
    /\ UNCHANGED <<database, queues, request, agreed, arriving, history, faults>>

\* Thirty seconds are over, whether or not an answer has just come in.
OfferTimeout(g) ==
    /\ search[g] = "waiting"
    /\ Withdraw(g)
    /\ NextDriver(g)
    /\ Goto(g, "offering")
    /\ UNCHANGED <<database, queues, request, agreed, arriving, history, faults>>
-----------------------------------------------------------------------------
(* onMatchSuccess *)

SetDriverStatus(d, status) == driverStatus' = [driverStatus EXCEPT ![d] = status]

\* Mutant: the match is published before the driver is marked.
MarkLater(g) ==
    /\ search[g] = "accepted"
    /\ Goto(g, "marked")
    /\ UNCHANGED <<database, queues, request, candidates, offers, arriving, history, faults>>

MarkEnRoute(g) ==
    /\ search[g] = "accepted"
    /\ SetDriverStatus(Head(candidates[g]), "EN_ROUTE")
    /\ freed' = freed \ {<<request[g], Head(candidates[g])>>}
    /\ Goto(g, "marked")
    /\ UNCHANGED <<rideStatus, rideDriver, queues, request, candidates, offers,
                   arriving, unmarked, faults>>

\* The update fails, which is only logged.
MarkFails(g) ==
    /\ search[g] = "accepted"
    /\ faults < MaxFaults
    /\ faults' = faults + 1
    /\ unmarked' = unmarked \cup {request[g]}
    /\ Goto(g, "marked")
    /\ UNCHANGED <<database, queues, request, candidates, offers, arriving, freed>>

\* The goroutine returns, and its candidates are forgotten.
Return(g) ==
    /\ Goto(g, "done")
    /\ candidates' = [candidates EXCEPT ![g] = <<>>]

PublishMatch(g) ==
    /\ search[g] = "marked"
    /\ responses' = responses \cup {<<request[g], Head(candidates[g])>>}
    /\ Return(g)
    /\ UNCHANGED <<database, requests, matched, request, offers, arriving, history, faults>>

\* The publish fails: nobody hears of the match.
PublishFails(g) ==
    /\ search[g] = "marked"
    /\ faults < MaxFaults
    /\ faults' = faults + 1
    /\ Return(g)
    /\ UNCHANGED <<database, queues, request, offers, arriving, history>>
-----------------------------------------------------------------------------
(* HandleDriverResponse *)

Answered(o) == \E a \in BOOLEAN : <<o[1], o[2], a>> \in replies

\* Mutant: the answer is taken for the offer its ride is waiting with.
HandleResponseByRide(o, accepted) ==
    /\ \/ \E p \in pending :
            /\ request[p[1]] = request[o[1]]
            /\ ~ Answered(p)
            /\ replies' = replies \cup {<<p[1], p[2], accepted>>}
            /\ agreed' = IF accepted THEN agreed \cup {<<request[o[1]], o[2]>>} ELSE agreed
       \/ UNCHANGED <<replies, agreed>>
    /\ UNCHANGED <<database, queues, search, request, candidates, pending,
                   arriving, history, faults>>

\* An app answers an offer, once or again, in time or not.  The first answer to a
\* pending offer goes to its channel, which holds one; any other is dropped.
HandleDriverResponse(o, accepted) ==
    /\ IF o \in pending /\ ~ Answered(o)
       THEN /\ replies' = replies \cup {<<o[1], o[2], accepted>>}
            /\ agreed' = IF accepted THEN agreed \cup {<<request[o[1]], o[2]>>} ELSE agreed
       ELSE UNCHANGED <<replies, agreed>>
    /\ UNCHANGED <<database, queues, search, request, candidates, pending,
                   arriving, history, faults>>
-----------------------------------------------------------------------------
(* handleRideStatus *)

\* A match: the driver gets the details, and is EN_ROUTE.  If the report cannot
\* be published the delivery comes again.
HandleRideStatus(m) ==
    /\ m \in matched
    /\ SetDriverStatus(m[2], "EN_ROUTE")
    /\ \/ matched' = matched \ {m} /\ UNCHANGED faults
       \/ faults < MaxFaults /\ faults' = faults + 1 /\ UNCHANGED matched
    /\ UNCHANGED <<rideStatus, rideDriver, requests, responses, search, request,
                   candidates, offers, arriving, history>>
-----------------------------------------------------------------------------
(* The handlers of a driver's status.  Only ARRIVED is checked against a ride: *)
(* an app may go online or offline, start and complete whenever it likes, and  *)
(* name whatever ride it likes.                                                *)

\* The driver's own app ends every engagement he has entered into.
Frees(d) == freed' = freed \cup {p \in agreed : p[2] = d}

HandleOnline(d) ==
    /\ SetDriverStatus(d, "AVAILABLE")
    /\ Frees(d)
    /\ UNCHANGED <<rideStatus, rideDriver, queues, search, request, candidates,
                   offers, arriving, unmarked, faults>>

HandleOffline(d) ==
    /\ SetDriverStatus(d, "OFFLINE")
    /\ Frees(d)
    /\ UNCHANGED <<rideStatus, rideDriver, queues, search, request, candidates,
                   offers, arriving, unmarked, faults>>

\* HandleWSStatusUpdate: ARRIVED is accepted for the driver's ride before it
\* starts ...
CheckArrived(d, r) ==
    /\ rideDriver[r] = d
    /\ rideStatus[r] \in {"MATCHED", "EN_ROUTE"}
    /\ arriving' = arriving \cup {<<r, d>>}
    /\ UNCHANGED <<database, queues, search, request, candidates, offers, history, faults>>

\* ... and entered in another statement.
SetArrived(d, r) ==
    /\ <<r, d>> \in arriving
    /\ SetDriverStatus(d, "ARRIVED")
    /\ arriving' = arriving \ {<<r, d>>}
    /\ UNCHANGED <<rideStatus, rideDriver, queues, search, request, candidates,
                   offers, history, faults>>

\* Mutant: the driver gets the status of the ride.
HandleStartInProgress(d) ==
    /\ SetDriverStatus(d, "IN_PROGRESS")
    /\ UNCHANGED <<rideStatus, rideDriver, queues, search, request, candidates,
                   offers, arriving, history, faults>>

HandleStart(d) ==
    /\ SetDriverStatus(d, "BUSY")
    /\ UNCHANGED <<rideStatus, rideDriver, queues, search, request, candidates,
                   offers, arriving, history, faults>>

HandleComplete(d) ==
    /\ SetDriverStatus(d, "AVAILABLE")
    /\ Frees(d)
    /\ UNCHANGED <<rideStatus, rideDriver, queues, search, request, candidates,
                   offers, arriving, unmarked, faults>>

\* The service is killed and started again: searches and offers are gone.
Crash ==
    /\ faults < MaxFaults
    /\ faults' = faults + 1
    /\ search' = [g \in Search |-> IF search[g] = "idle" THEN "idle" ELSE "done"]
    /\ candidates' = [g \in Search |-> <<>>]
    /\ pending' = {} /\ replies' = {} /\ arriving' = {}
    /\ UNCHANGED <<database, queues, request, agreed, history>>
-----------------------------------------------------------------------------
(* The ride service, as RideLifecycle *)

Request(r) ==
    /\ rideStatus[r] = "NONE"
    /\ rideStatus' = [rideStatus EXCEPT ![r] = "REQUESTED"]
    /\ requests' = requests \cup {r}
    /\ UNCHANGED <<driverStatus, rideDriver, responses, matched, search, request,
                   candidates, offers, arriving, history, faults>>

\* The first response of a ride still REQUESTED matches it; others are dropped.
Match(m) ==
    /\ m \in responses
    /\ responses' = responses \ {m}
    /\ IF rideStatus[m[1]] = "REQUESTED"
       THEN /\ rideStatus' = [rideStatus EXCEPT ![m[1]] = "MATCHED"]
            /\ rideDriver' = [rideDriver EXCEPT ![m[1]] = m[2]]
            /\ matched' = matched \cup {m}
       ELSE UNCHANGED <<rideStatus, rideDriver, matched>>
    /\ UNCHANGED <<driverStatus, requests, search, request, candidates, offers,
                   arriving, history, faults>>

Cancel(r) ==
    /\ rideStatus[r] \in {"REQUESTED", "MATCHED"}
    /\ rideStatus' = [rideStatus EXCEPT ![r] = "CANCELLED"]
    /\ UNCHANGED <<driverStatus, rideDriver, queues, search, request, candidates,
                   offers, arriving, history, faults>>

\* A report moves a ride on: BUSY even one that has no driver, AVAILABLE only one
\* that is IN_PROGRESS.
Advance(r, s) ==
    /\ rideStatus[r] \notin {"NONE", s}
    /\ rideStatus[r] = "REQUESTED" => s = "IN_PROGRESS"
    /\ s = "COMPLETED" => rideStatus[r] = "IN_PROGRESS"
    /\ rideStatus' = [rideStatus EXCEPT ![r] = s]
    /\ UNCHANGED <<driverStatus, rideDriver, queues, search, request, candidates,
                   offers, arriving, history, faults>>
-----------------------------------------------------------------------------
SearchNext(g) ==
    \/ FindNearbyDrivers(g) \/ FindFails(g) \/ Exhausted(g) \/ Unreachable(g)
    \/ OfferToDriver(g) \/ Accepted(g) \/ Rejected(g) \/ OfferTimeout(g)
    \/ MarkEnRoute(g) \/ MarkFails(g) \/ PublishMatch(g) \/ PublishFails(g)

DriverNext(d) ==
    \/ HandleOnline(d) \/ HandleOffline(d) \/ HandleStart(d) \/ HandleComplete(d)
    \/ \E r \in Ride : \/ CheckArrived(d, r) \/ SetArrived(d, r)
    \/ \E g \in Search, a \in BOOLEAN : HandleDriverResponse(<<g, d>>, a)

RideNext(r) ==
    \/ Request(r) \/ Cancel(r)
    \/ \E g \in Search : HandleRideRequest(g, r)
    \/ \E d \in Driver : Match(<<r, d>>) \/ HandleRideStatus(<<r, d>>)
    \/ \E s \in {"EN_ROUTE", "ARRIVED", "IN_PROGRESS", "COMPLETED"} : Advance(r, s)

Next ==
    \/ \E g \in Search : SearchNext(g)
    \/ \E d \in Driver : DriverNext(d)
    \/ \E r \in Ride : RideNext(r)
    \/ Crash

Spec == Init /\ [][Next]_vars

\* A search runs on: the query returns and an offer expires.
Fairness == \A g \in Search : WF_vars(SearchNext(g))

FairSpec == Spec /\ Fairness
-----------------------------------------------------------------------------
(* Properties *)

\* Every variable keeps its type.
TypeOK ==
    /\ driverStatus \in [Driver -> DriverStatus]
    /\ rideStatus \in [Ride -> RideStatus]
    /\ rideDriver \in [Ride -> Driver \cup {NoDriver}]
    /\ requests \subseteq Ride
    /\ responses \subseteq Ride \X Driver
    /\ matched \subseteq Ride \X Driver
    /\ search \in [Search -> SearchStep]
    /\ request \in [Search -> Ride \cup {NoRide}]
    /\ \A g \in Search : candidates[g] \in Seq(Driver) /\ Len(candidates[g]) <= MaxCandidates
    /\ pending \subseteq Search \X Driver
    /\ replies \subseteq Search \X Driver \X BOOLEAN
    /\ arriving \subseteq Ride \X Driver
    /\ agreed \subseteq Ride \X Driver
    /\ freed \subseteq Ride \X Driver /\ unmarked \subseteq Ride
    /\ faults \in 0 .. MaxFaults

\* A ride is given only to a driver who accepted the offer of that ride while
\* it was pending: an answer that comes late, while the next driver is being
\* asked, is nobody's (matching.go:192-199).
DriverHasAgreed ==
    \A r \in Ride, d \in Driver :
        <<r, d>> \in responses \/ rideDriver[r] = d => <<r, d>> \in agreed

\* m.pending holds an offer exactly as long as its search waits for the answer,
\* so that the map does not grow and a search never has two offers open
\* (matching.go:81-89).
PendingIsAwaited ==
    pending = {<<g, Head(candidates[g])>> : g \in {h \in Search : search[h] = "waiting"}}

\* Whoever was named to the ride service as the driver of a ride is not available
\* for others, until his own app ends it by going online or offline or completing a
\* ride: his status is set before anyone hears of the match, and nothing that the
\* two services do later, or do twice, brings him back.  So it is for each of his
\* rides, the next ones too, however many he has agreed to at once.  It needs that
\* the first update did not fail (matching.go:131 only logs it).
EngagedIsTaken ==
    \A r \in Ride, d \in Driver :
        /\ <<r, d>> \in responses \cup matched \/ rideDriver[r] = d
        /\ r \notin unmarked /\ <<r, d>> \notin freed
        => driverStatus[d] \in {"EN_ROUTE", "ARRIVED", "BUSY"}

\* Every search comes to an end, with a match or without, although no driver
\* need answer: offers expire (matching.go:121).
SearchEnds == \A g \in Search : search[g] = "querying" ~> search[g] = "done"
=============================================================================
