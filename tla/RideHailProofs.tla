--------------------------- MODULE RideHailProofs ---------------------------
(***************************************************************************)
(* Proofs about RideHail, for any number of rides, drivers, searches,      *)
(* reports and faults: that each service is to the other what the other's  *)
(* module assumes, so that what is proved of either holds of both          *)
(* together, and that the completion of a ride is entered.                 *)
(*                                                                         *)
(* A step of the whole is a step of RideService because the driver service *)
(* sends what it may send (RideServiceStep).  That it is a step of         *)
(* Dispatch (DispatchStep) needs more: the ride service works on what the  *)
(* queues hold, and Dispatch has sets in their place.  LinkInv says how    *)
(* the two agree.  FlowInv, for the completion, says how the reports of a  *)
(* ride that wait relate to its status.                                    *)
(***************************************************************************)
EXTENDS RideHail, TLAPS

RP == INSTANCE RideTrailProofs WITH Call <- {}
DP == INSTANCE DispatchProofs WITH rideStatus <- status, rideDriver <- driver,
                                   faults <- matcherFaults

\* What RideService assumes of its constants.
LEMMA RideServiceAssumptions ==
    RP!RideAssumption /\ RP!DriverAssumption /\ RP!BoundAssumption
BY NameAssumption, BoundAssumption
   DEF RP!RideAssumption, RP!DriverAssumption, RP!BoundAssumption

\* What Dispatch assumes of its constants.
LEMMA DispatchAssumptions ==
    DP!CandidateAssumption /\ DP!FaultAssumption /\ DP!NothingAssumption
BY NameAssumption, BoundAssumption
   DEF DP!CandidateAssumption, DP!FaultAssumption, DP!NothingAssumption

\* The ride service this module composes is the one the proofs are about.
LEMMA SameRideService ==
    /\ R!Init <=> RP!Init
    /\ R!Next <=> RP!Next
    /\ R!vars = RP!vars
<1>1. R!Init <=> RP!Init
  BY DEF R!Init, RP!Init, R!Thread, RP!Thread, R!Canceller, RP!Canceller, R!Consumer,
         RP!Consumer
<1>2. R!Next <=> RP!Next
  BY DEF R!CreateRide, R!PublishRideRequest, R!PublishRideRequestFails,
         R!StartMatchingTimeout, R!MatchingTimeout, R!CheckUnmatched, R!TimeoutCancels,
         R!ReadForRefund, R!PassengerCancels, R!CommitCancel, R!RejectCancel,
         R!LoadUpdated, R!Announce, R!AnnounceUnpublished, R!DatabaseCallFails,
         R!AckLost, R!Crash, R!CommitMatch, R!DropResponse, R!AckResponse,
         R!ReadForStatus, R!DropReport, R!CommitStatus, R!AckReport, R!AcceptOffer,
         R!HandleMatched, R!HandleMatchedUnacknowledged, R!SendEnRoute, R!DriverReports,
         R!CreateStep, R!TimerStep, R!HandlerStep, R!ResponseStep, R!StatusStep,
         R!DriverStep, R!Fault, R!Next, R!Published, R!Leave, R!Finish,
         R!ClearMatchingTimeout, R!ToDriverService, R!NewStatus, R!CalculateRefund,
         R!Change, R!Cancellable, R!Thread, R!Consumer, R!Canceller, R!DriverStatus,
         R!db, R!local, R!queues, R!budgets, RP!CreateRide, RP!PublishRideRequest,
         RP!PublishRideRequestFails, RP!StartMatchingTimeout, RP!MatchingTimeout,
         RP!CheckUnmatched, RP!TimeoutCancels, RP!ReadForRefund, RP!PassengerCancels,
         RP!CommitCancel, RP!RejectCancel, RP!LoadUpdated, RP!Announce,
         RP!AnnounceUnpublished, RP!DatabaseCallFails, RP!AckLost, RP!Crash,
         RP!CommitMatch, RP!DropResponse, RP!AckResponse, RP!ReadForStatus,
         RP!DropReport, RP!CommitStatus, RP!AckReport, RP!AcceptOffer, RP!HandleMatched,
         RP!HandleMatchedUnacknowledged, RP!SendEnRoute, RP!DriverReports, RP!CreateStep,
         RP!TimerStep, RP!HandlerStep, RP!ResponseStep, RP!StatusStep, RP!DriverStep,
         RP!Fault, RP!Next, RP!Published, RP!Leave, RP!Finish, RP!ClearMatchingTimeout,
         RP!ToDriverService, RP!NewStatus, RP!CalculateRefund, RP!Change, RP!Cancellable,
         RP!Thread, RP!Consumer, RP!Canceller, RP!DriverStatus, RP!db, RP!local,
         RP!queues, RP!budgets
<1>3. R!vars = RP!vars
  BY DEF R!vars, RP!vars
<1>4. QED
  BY <1>1, <1>2, <1>3

\* So are its transactions.
LEMMA SameTransactions ==
    /\ \A r \in Ride : R!CreateRide(r) <=> RP!CreateRide(r)
    /\ \A t \in R!Thread : R!CommitCancel(t) <=> RP!CommitCancel(t)
    /\ R!CommitMatch <=> RP!CommitMatch
    /\ R!CommitStatus <=> RP!CommitStatus
    /\ R!Thread = RP!Thread
BY DEF R!CreateRide, RP!CreateRide, R!CommitCancel, RP!CommitCancel, R!CommitMatch,
       RP!CommitMatch, R!CommitStatus, RP!CommitStatus, R!Change, RP!Change, R!NewStatus,
       RP!NewStatus, R!Cancellable, RP!Cancellable, R!Thread, RP!Thread, R!Canceller,
       RP!Canceller, R!Consumer, RP!Consumer, R!local, RP!local, R!queues, RP!queues,
       R!budgets, RP!budgets

\* The driver service is the one the proofs are about, too.
LEMMA SameDispatch ==
    /\ D!Init <=> DP!Init
    /\ D!Next <=> DP!Next
    /\ D!vars = DP!vars
<1>1. D!Init <=> DP!Init
  BY DEF D!Init, DP!Init
<1>2. D!Next <=> DP!Next
  BY DEF D!HandleRideRequest, D!FindNearbyDrivers, D!FindFails, D!Exhausted,
         D!Unreachable, D!OfferToDriver, D!Accepted, D!Rejected, D!OfferTimeout,
         D!MarkEnRoute, D!MarkFails, D!PublishMatch, D!PublishFails,
         D!HandleDriverResponse, D!HandleRideStatus, D!HandleOnline, D!HandleOffline,
         D!CheckArrived, D!SetArrived, D!HandleStart, D!HandleComplete, D!Crash,
         D!Request, D!Match, D!Cancel, D!Advance, D!SearchNext, D!DriverNext, D!RideNext,
         D!Next, D!CandidateList, D!Goto, D!NextDriver, D!Withdraw, D!SetDriverStatus,
         D!Frees, D!Answered, D!Return, D!database, D!queues, D!offers, D!history,
         DP!HandleRideRequest,
         DP!FindNearbyDrivers, DP!FindFails, DP!Exhausted, DP!Unreachable,
         DP!OfferToDriver, DP!Accepted, DP!Rejected, DP!OfferTimeout, DP!MarkEnRoute,
         DP!MarkFails, DP!PublishMatch, DP!PublishFails, DP!HandleDriverResponse,
         DP!HandleRideStatus, DP!HandleOnline, DP!HandleOffline, DP!CheckArrived,
         DP!SetArrived, DP!HandleStart, DP!HandleComplete, DP!Crash, DP!Request,
         DP!Match, DP!Cancel, DP!Advance, DP!SearchNext, DP!DriverNext, DP!RideNext,
         DP!Next, DP!CandidateList, DP!Goto, DP!NextDriver, DP!Withdraw,
         DP!SetDriverStatus, DP!Frees, DP!Answered, DP!Return, DP!database, DP!queues,
         DP!offers, DP!history
<1>3. D!vars = DP!vars
  BY DEF D!vars, DP!vars
<1>4. QED
  BY <1>1, <1>2, <1>3

\* What the ride service and the searches keep of themselves.
OwnInv == RP!BaseInv /\ DP!OfferInv

\* The types of what the two services share, and of their queues.
LEMMA OwnTypes ==
    ASSUME OwnInv
    PROVE  /\ status \in [Ride -> RP!Status] /\ driver \in [Ride -> Driver \cup {NoDriver}]
           /\ pc \in [RP!Thread -> RP!ThreadStep]
           /\ target \in [RP!Thread -> Ride \cup {NoRide}]
           /\ view \in [RP!Thread -> RP!Status]
           /\ responseQ \in Seq(RP!Response) /\ statusQ \in Seq(RP!Report)
           /\ matchedQ \in Seq(Ride)
BY DEF OwnInv, RP!BaseInv, RP!TypeInv, RP!TypeOK

-----------------------------------------------------------------------------
(* A step of the whole is a step of the ride service                         *)

\* Most steps of the driver service are no step of the ride service.
LEMMA NoRideServiceStep == UNCHANGED <<rideService, faults>> => UNCHANGED R!vars
BY DEF rideService, R!vars

\* The steps of the ride service itself are steps of RideService.
LEMMA InternalStep == Internal => R!Next
<1>1. ASSUME NEW r \in Ride,
             \/ R!PublishRideRequest(r) \/ R!PublishRideRequestFails(r)
             \/ R!StartMatchingTimeout(r) \/ R!TimerStep(r)
      PROVE  R!Next
  BY <1>1 DEF R!Next, R!CreateStep, R!Fault
<1>2. ASSUME NEW t \in R!Thread,
             \/ R!RejectCancel(t) \/ R!LoadUpdated(t) \/ R!Announce(t)
             \/ R!AnnounceUnpublished(t) \/ R!DatabaseCallFails(t) \/ R!AckLost(t)
      PROVE  R!Next
  BY <1>2 DEF R!Next, R!HandlerStep, R!Fault
<1>3. CASE \/ R!AckResponse \/ R!ReadForStatus \/ R!DropReport \/ R!CommitStatus
           \/ R!AckReport \/ R!Crash
  BY <1>3 DEF R!Next, R!ResponseStep, R!StatusStep, R!Fault
<1>4. QED
  BY <1>1, <1>2, <1>3 DEF Internal

\* The driver service sends what RideService lets it send: a search that has
\* been accepted is for a ride whose request was published, and ARRIVED, checked
\* before, is reported of a ride that has a driver still.
LEMMA RideServiceStep ==
    ASSUME OwnInv, [Next]_vars
    PROVE  [R!Next]_(R!vars)
<1>1. CASE Internal
  BY <1>1, InternalStep
<1>2. CASE Matched \/ NotMatched
  BY <1>2 DEF Matched, NotMatched, R!Next, R!ResponseStep
<1>3. CASE Apart \/ (\E g \in Search, r \in Ride : Searched(g, r))
  BY <1>3, NoRideServiceStep DEF Apart, Searched
<1>4. CASE \E r \in Ride : Requested(r)
  BY <1>4 DEF Requested, R!Next, R!CreateStep
<1>5. CASE \E t \in R!Thread : Cancelled(t)
  BY <1>5 DEF Cancelled, R!Next, R!HandlerStep
<1>6. ASSUME NEW g \in Search, Accepted(g) PROVE R!Next
  <2>1. /\ search[g] = "marked" /\ candidates[g] \in Seq(Driver)
        /\ request[g] \in Ride /\ candidates[g] # <<>>
    BY <1>6 DEF Accepted, OwnInv, DP!OfferInv, DP!SearchTypeOK, DP!SearchInv
  <2>2. Head(candidates[g]) \in Driver
    BY <2>1
  <2>3. QED
    BY <1>6, <2>1, <2>2 DEF Accepted, R!Next, R!DriverStep
<1>7. ASSUME NEW d \in Driver, Announced(d) PROVE R!Next \/ UNCHANGED R!vars
  BY <1>7, NoRideServiceStep DEF Announced, R!Next, R!DriverStep, R!Fault
<1>8. CASE \E d \in Driver, r \in Ride : Arriving(d, r)
  BY <1>8, NoRideServiceStep DEF Arriving
<1>9. ASSUME NEW d \in Driver, NEW r \in Ride, Reported(d, r) PROVE R!Next \/ UNCHANGED R!vars
  <2>1. ASSUME NEW s \in {"ARRIVED", "BUSY", "AVAILABLE"}, PublishStatus(r, s)
        PROVE  R!Next \/ UNCHANGED R!vars
    BY <2>1, NoRideServiceStep DEF PublishStatus, R!Next, R!DriverStep, R!DriverStatus
  <2>2. QED
    BY <1>9, <2>1 DEF Reported
<1>10. CASE UNCHANGED vars
  BY <1>10, NoRideServiceStep DEF vars
<1>11. QED
  BY <1>1, <1>2, <1>3, <1>4, <1>5, <1>6, <1>7, <1>8, <1>9, <1>10 DEF Next

-----------------------------------------------------------------------------
(* How the queues of the ride service agree with the sets of Dispatch        *)

\* The messages a queue holds, and that it holds none twice.
Waiting(q) == {q[i] : i \in DOMAIN q}
Distinct(q) == \A i, j \in DOMAIN q : q[i] = q[j] => i = j

\* A response that waits is of a ride that was requested; Dispatch has it as long
\* as it can still match the ride.
ResponseLink ==
    \A m \in Waiting(responseQ) :
        /\ status[m.ride] # "NONE"
        /\ status[m.ride] = "REQUESTED" => <<m.ride, m.driver>> \in responses

\* A match that is announced, or about to be, is one Dispatch has, and is announced
\* once: for its removal there must leave none waiting here.
MatchLink ==
    /\ Distinct(matchedQ)
    /\ \A r \in Waiting(matchedQ) :
          <<r, driver[r]>> \in matched /\ status[r] \notin {"NONE", "REQUESTED"}
    /\ pc["responses"] \in {"committed", "loaded"} =>
          /\ <<target["responses"], driver[target["responses"]]>> \in matched
          /\ target["responses"] \notin Waiting(matchedQ)

\* Nobody else announces a match.
OtherThreads ==
    \A t \in RP!Thread \ {"responses"} :
        /\ pc[t] = "committed" => status[target[t]] \notin {"NONE", "REQUESTED", "MATCHED"}
        /\ pc[t] = "loaded" => view[t] # "MATCHED"

LinkInv == ResponseLink /\ MatchLink /\ OtherThreads

\* What appending to a queue, and taking its head, makes of the messages in it.
LEMMA WaitingAppended ==
    ASSUME NEW S, NEW q \in Seq(S), NEW e \in S
    PROVE  /\ Waiting(Append(q, e)) = Waiting(q) \cup {e}
           /\ Distinct(q) /\ e \notin Waiting(q) => Distinct(Append(q, e))
<1>1. /\ DOMAIN q = 1 .. Len(q) /\ Len(q) \in Nat
      /\ DOMAIN Append(q, e) = 1 .. Len(q) + 1
      /\ \A i \in 1 .. Len(q) : Append(q, e)[i] = q[i]
      /\ Append(q, e)[Len(q) + 1] = e
  OBVIOUS
<1>2. \A i \in 1 .. Len(q) + 1 : i \in 1 .. Len(q) \/ i = Len(q) + 1
  BY <1>1
<1>3. Waiting(Append(q, e)) = Waiting(q) \cup {e}
  BY <1>1, <1>2 DEF Waiting
<1>4. ASSUME Distinct(q), e \notin Waiting(q) PROVE Distinct(Append(q, e))
  BY <1>1, <1>2, <1>4 DEF Waiting, Distinct
<1>5. QED
  BY <1>3, <1>4

LEMMA WaitingTaken ==
    ASSUME NEW S, NEW q \in Seq(S), q # <<>>
    PROVE  /\ Head(q) \in S /\ Head(q) \in Waiting(q)
           /\ Waiting(Tail(q)) \subseteq Waiting(q)
           /\ Distinct(q) => Distinct(Tail(q)) /\ Head(q) \notin Waiting(Tail(q))
<1>1. /\ Head(q) \in S /\ Head(q) = q[1] /\ DOMAIN q = 1 .. Len(q) /\ Len(q) \in Nat \ {0}
      /\ DOMAIN Tail(q) = 1 .. Len(q) - 1
      /\ \A i \in 1 .. Len(q) - 1 : Tail(q)[i] = q[i + 1]
  OBVIOUS
<1>2. 1 \in DOMAIN q /\ \A i \in 1 .. Len(q) - 1 : i + 1 \in DOMAIN q /\ i + 1 # 1
  BY <1>1
<1>3. Waiting(Tail(q)) \subseteq Waiting(q)
  BY <1>1, <1>2 DEF Waiting
<1>4. ASSUME Distinct(q) PROVE Distinct(Tail(q)) /\ Head(q) \notin Waiting(Tail(q))
  BY <1>1, <1>2, <1>4 DEF Distinct, Waiting
<1>5. QED
  BY <1>1, <1>2, <1>3, <1>4 DEF Waiting

\* At the start all queues are empty, and no goroutine has begun.
LEMMA LinkInit == Init => LinkInv
<1> SUFFICES ASSUME Init PROVE LinkInv
  OBVIOUS
<1>1. /\ responseQ = <<>> /\ matchedQ = <<>>
      /\ pc = [t \in RP!Thread |-> "idle"]
  BY SameRideService DEF Init, RP!Init
<1>2. Waiting(<<>>) = {} /\ Distinct(<<>>)
  BY DEF Waiting, Distinct
<1>3. "responses" \in RP!Thread
  BY DEF RP!Thread, RP!Consumer
<1>4. QED
  BY <1>1, <1>2, <1>3 DEF LinkInv, ResponseLink, MatchLink, OtherThreads

-----------------------------------------------------------------------------
(* A step of the whole is a step of Dispatch                                 *)

\* What the matching of drivers has no part in.
LEMMA NoDispatchStep == UNCHANGED <<status, driver, dispatch>> => UNCHANGED D!vars
BY DEF dispatch, D!vars

\* The response at the head of its queue is one Dispatch has, if it matches.
LEMMA FirstResponseWaits ==
    ASSUME OwnInv, LinkInv, responseQ # <<>>
    PROVE  /\ Head(responseQ).ride \in Ride /\ Head(responseQ).driver \in Driver
           /\ status[Head(responseQ).ride] = "REQUESTED" => FirstResponse \in responses
<1>1. Head(responseQ) \in RP!Response /\ Head(responseQ) \in Waiting(responseQ)
  BY OwnTypes, WaitingTaken
<1>2. QED
  BY <1>1 DEF RP!Response, LinkInv, ResponseLink, FirstResponse

\* So is the announcement at the head of its queue, for the driver of the ride.
LEMMA FirstMatchWaits ==
    ASSUME OwnInv, LinkInv, matchedQ # <<>>
    PROVE  Head(matchedQ) \in Ride /\ <<Head(matchedQ), driver[Head(matchedQ)]>> \in matched
<1>1. Head(matchedQ) \in Ride /\ Head(matchedQ) \in Waiting(matchedQ)
  BY OwnTypes, WaitingTaken
<1>2. QED
  BY <1>1 DEF LinkInv, MatchLink

\* The transaction of the consumer of driver_status is Advance: the report it has
\* decided on moves the ride on, and completes it only from IN_PROGRESS.
LEMMA CommitAdvances ==
    ASSUME OwnInv, LinkInv, R!CommitStatus, UNCHANGED dispatch
    PROVE  D!Next
<1> DEFINE r == target["statuses"]
           new == RP!NewStatus(Head(statusQ).status, view["statuses"])
           row == RP!Change("STATUS_CHANGED", status[r], new)
<1>1. /\ r \in Ride /\ row \in RP!Event /\ RP!Enters(r, row)
      /\ pc["statuses"] = "decided"
  BY RP!StatusEnters, RideServiceAssumptions, SameTransactions DEF OwnInv, RP!StatusEnters
<1>2. /\ new \in {"EN_ROUTE", "ARRIVED", "IN_PROGRESS", "COMPLETED"}
      /\ status[r] \notin {"NONE", new}
      /\ status[r] = "REQUESTED" => new = "IN_PROGRESS"
      /\ new = "COMPLETED" => status[r] = "IN_PROGRESS"
      /\ status' = [status EXCEPT ![r] = new] /\ driver' = driver
  BY <1>1 DEF RP!Enters, RP!Legal, RP!Change, R!CommitStatus
<1>3. D!Advance(r, new)
  BY <1>1, <1>2 DEF D!Advance, dispatch, D!queues, D!offers, D!history
<1>4. QED
  BY <1>1, <1>2, <1>3 DEF D!Next, D!RideNext

\* The other steps of the ride service itself do not concern it.
LEMMA InternalDispatch ==
    ASSUME OwnInv, LinkInv, Internal
    PROVE  D!Next \/ UNCHANGED D!vars
<1>1. CASE R!CommitStatus
  BY <1>1, CommitAdvances DEF Internal
<1>2. ASSUME NEW r \in Ride,
             \/ R!PublishRideRequest(r) \/ R!PublishRideRequestFails(r)
             \/ R!StartMatchingTimeout(r) \/ R!TimerStep(r)
      PROVE  UNCHANGED <<status, driver>>
  BY <1>2 DEF R!PublishRideRequest, R!PublishRideRequestFails, R!StartMatchingTimeout,
              R!TimerStep, R!MatchingTimeout, R!CheckUnmatched, R!TimeoutCancels,
              R!ReadForRefund, R!db
<1>3. ASSUME NEW t \in R!Thread,
             \/ R!RejectCancel(t) \/ R!LoadUpdated(t) \/ R!Announce(t)
             \/ R!AnnounceUnpublished(t) \/ R!DatabaseCallFails(t) \/ R!AckLost(t)
      PROVE  UNCHANGED <<status, driver>>
  BY <1>3 DEF R!RejectCancel, R!LoadUpdated, R!Announce, R!AnnounceUnpublished,
              R!DatabaseCallFails, R!AckLost, R!db
<1>4. CASE \/ R!AckResponse \/ R!ReadForStatus \/ R!DropReport \/ R!AckReport \/ R!Crash
  BY <1>4, NoDispatchStep
     DEF Internal, R!AckResponse, R!ReadForStatus, R!DropReport, R!AckReport, R!Crash, R!db
<1>5. QED
  BY <1>1, <1>2, <1>3, <1>4, NoDispatchStep DEF Internal

\* The goroutines of the ride service do to the rides what the atomic operations
\* of Dispatch do.
LEMMA DispatchStep ==
    ASSUME OwnInv, LinkInv, [Next]_vars
    PROVE  [D!Next]_(D!vars)
<1>1. CASE Internal
  BY <1>1, InternalDispatch
<1>2. ASSUME NEW r \in Ride, Requested(r) PROVE D!Next
  <2>1. status[r] = "NONE"
    BY <1>2 DEF Requested, R!CreateRide, OwnInv, RP!BaseInv, RP!DriverInv
  <2>2. D!Request(r)
    BY <1>2, <2>1 DEF Requested, R!CreateRide, D!Request, D!offers, D!history, published
  <2>3. QED
    BY <2>2 DEF D!Next, D!RideNext
<1>3. ASSUME NEW t \in R!Thread, Cancelled(t) PROVE D!Next
  <2>1. target[t] \in Ride
    BY <1>3, SameTransactions
       DEF Cancelled, R!CommitCancel, OwnInv, RP!BaseInv, RP!TypeInv, RP!RoleInv
  <2>2. D!Cancel(target[t])
    BY <1>3 DEF Cancelled, R!CommitCancel, R!Cancellable, dispatch, D!Cancel, D!queues,
                D!offers, D!history
  <2>3. QED
    BY <2>1, <2>2 DEF D!Next, D!RideNext
<1>4. CASE Matched
  <2>1. responseQ # <<>> /\ status[Head(responseQ).ride] = "REQUESTED"
    BY <1>4 DEF Matched, R!CommitMatch
  <2>2. D!Match(FirstResponse)
    BY <1>4, <2>1, FirstResponseWaits
       DEF Matched, FirstResponse, R!CommitMatch, D!Match, D!offers, D!history
  <2>3. QED
    BY <2>1, <2>2, FirstResponseWaits DEF FirstResponse, D!Next, D!RideNext
<1>5. CASE NotMatched
  <2>1. responseQ # <<>> /\ status[Head(responseQ).ride] # "REQUESTED"
        /\ UNCHANGED <<status, driver>>
    BY <1>5 DEF NotMatched, R!DropResponse, R!db
  <2>2. CASE FirstResponse \in responses
    <3>1. D!Match(FirstResponse)
      BY <1>5, <2>1, <2>2 DEF NotMatched, FirstResponse, D!Match, D!offers, D!history
    <3>2. QED
      BY <2>1, <3>1, FirstResponseWaits DEF FirstResponse, D!Next, D!RideNext
  <2>3. CASE FirstResponse \notin responses
    BY <1>5, <2>1, <2>3 DEF NotMatched, D!vars
  <2>4. QED
    BY <2>2, <2>3
<1>6. CASE Apart
  BY <1>6 DEF Apart, D!Next, D!SearchNext, D!DriverNext
<1>7. ASSUME NEW g \in Search, NEW r \in Ride, Searched(g, r) PROVE D!Next
  BY <1>7 DEF Searched, D!Next, D!RideNext
<1>8. ASSUME NEW g \in Search, Accepted(g) PROVE D!Next
  <2>1. D!PublishMatch(g)
    BY <1>8 DEF Accepted, R!AcceptOffer, R!db, D!PublishMatch, D!database, D!offers,
                D!history
  <2>2. QED
    BY <2>1 DEF D!Next, D!SearchNext
<1>9. ASSUME NEW d \in Driver, Announced(d) PROVE D!Next
  <2> DEFINE m == <<Head(matchedQ), d>>
  <2>1. Head(matchedQ) \in Ride /\ m \in matched
    BY <1>9, FirstMatchWaits DEF Announced
  <2>2. UNCHANGED <<status, driver>>
    BY <1>9 DEF Announced, R!HandleMatched, R!HandleMatchedUnacknowledged, R!db, rideService
  <2>3. D!HandleRideStatus(m)
    BY <1>9, <2>1, <2>2
       DEF Announced, D!HandleRideStatus, D!SetDriverStatus, D!offers, D!history
  <2>4. QED
    BY <2>1, <2>3 DEF D!Next, D!RideNext
<1>10. ASSUME NEW d \in Driver, NEW r \in Ride, Arriving(d, r) \/ Reported(d, r) PROVE D!Next
  BY <1>10 DEF Arriving, Reported, D!Next, D!DriverNext
<1>11. CASE UNCHANGED vars
  BY <1>11, NoDispatchStep DEF vars, rideService
<1>12. QED
  BY <1>1, <1>2, <1>3, <1>4, <1>5, <1>6, <1>7, <1>8, <1>9, <1>10, <1>11 DEF Next

-----------------------------------------------------------------------------
(* The queues and the sets go on to agree                                    *)

\* What is proved of RideService's steps may be used of the steps of the whole.
LEMMA OwnStep ==
    ASSUME OwnInv, LinkInv, [Next]_vars
    PROVE  /\ [RP!Next]_(RP!vars) /\ [DP!Next]_(DP!vars)
           /\ OwnInv'
<1>1. [RP!Next]_(RP!vars) /\ [DP!Next]_(DP!vars)
  BY RideServiceStep, DispatchStep, SameRideService, SameDispatch
     DEF R!vars, RP!vars, D!vars, DP!vars
<1>2. RP!BaseInv'
  BY <1>1, RP!BaseStep, RideServiceAssumptions DEF OwnInv, RP!BaseStep
<1>3. DP!OfferInv'
  BY <1>1, DP!OfferStep, DispatchAssumptions DEF OwnInv, DP!OfferStep
<1>4. QED
  BY <1>1, <1>2, <1>3 DEF OwnInv

\* How the status and the driver of a ride move.
LEMMA RideMoves ==
    ASSUME OwnInv, [RP!Next]_(RP!vars), NEW r \in Ride
    PROVE  /\ status[r] # "NONE" => status'[r] # "NONE"
           /\ status[r] \notin {"NONE", "REQUESTED"} =>
                  /\ status'[r] \notin {"NONE", "REQUESTED"}
                  /\ driver'[r] = driver[r]
           /\ status[r] \notin {"NONE", "REQUESTED", "MATCHED"} =>
                  status'[r] \notin {"NONE", "REQUESTED", "MATCHED"}
<1>1. /\ status[r] # "NONE" => status'[r] # "NONE"
      /\ status[r] \notin {"NONE", "REQUESTED"} => status'[r] \notin {"NONE", "REQUESTED"}
      /\ status[r] \notin {"NONE"} \cup RP!Cancellable => status'[r] \notin RP!Cancellable
  BY RP!StatusMoves, RideServiceAssumptions DEF OwnInv, RP!StatusMoves
<1>2. status[r] # "REQUESTED" => driver'[r] = driver[r]
  <2>1. \/ UNCHANGED <<status, driver, trail>> \/ (\E q \in Ride : RP!CreateRide(q))
        \/ (\E t \in RP!Thread : RP!CommitCancel(t)) \/ RP!CommitMatch \/ RP!CommitStatus
    BY RP!OnlyTransactions, RideServiceAssumptions DEF RP!OnlyTransactions
  <2>2. CASE RP!CommitMatch
    BY <2>2, OwnTypes DEF RP!CommitMatch
  <2>3. QED
    BY <2>1, <2>2 DEF RP!CreateRide, RP!CommitCancel, RP!CommitStatus
<1>3. QED
  BY <1>1, <1>2 DEF RP!Cancellable

\* Where the responses can go.  One that Dispatch drops cannot match any more.
LEMMA ResponseMoves ==
    ASSUME OwnInv, LinkInv, [Next]_vars
    PROVE  /\ \A m \in Waiting(responseQ') :
                 \/ m \in Waiting(responseQ)
                 \/ /\ m \in RP!Response /\ status'[m.ride] # "NONE"
                    /\ <<m.ride, m.driver>> \in responses'
           /\ \A m \in RP!Response :
                 <<m.ride, m.driver>> \in responses \ responses' => status'[m.ride] # "REQUESTED"
<1> DEFINE Same == UNCHANGED <<responseQ, responses>>
<1>0. responseQ # <<>> => Waiting(Tail(responseQ)) \subseteq Waiting(responseQ)
  BY OwnTypes, WaitingTaken
<1>1. CASE Internal
  <2>1. responses' = responses
    BY <1>1 DEF Internal, dispatch
  <2>2. responseQ' = responseQ \/ (responseQ # <<>> /\ responseQ' = Tail(responseQ))
    <3>1. CASE R!AckResponse
      BY <3>1 DEF R!AckResponse, OwnInv, RP!BaseInv, RP!TypeInv, RP!RoleInv
    <3>2. ASSUME NEW r \in Ride,
                 \/ R!PublishRideRequest(r) \/ R!PublishRideRequestFails(r)
                 \/ R!StartMatchingTimeout(r) \/ R!TimerStep(r)
          PROVE  responseQ' = responseQ
      BY <3>2 DEF R!PublishRideRequest, R!PublishRideRequestFails, R!StartMatchingTimeout,
                  R!TimerStep, R!MatchingTimeout, R!CheckUnmatched, R!TimeoutCancels,
                  R!ReadForRefund, R!queues
    <3>3. ASSUME NEW t \in R!Thread,
                 \/ R!RejectCancel(t) \/ R!LoadUpdated(t) \/ R!Announce(t)
                 \/ R!AnnounceUnpublished(t) \/ R!DatabaseCallFails(t) \/ R!AckLost(t)
          PROVE  responseQ' = responseQ
      BY <3>3 DEF R!RejectCancel, R!LoadUpdated, R!Announce, R!AnnounceUnpublished,
                  R!DatabaseCallFails, R!AckLost, R!queues
    <3>4. CASE \/ R!ReadForStatus \/ R!DropReport \/ R!CommitStatus \/ R!AckReport
               \/ R!Crash
      BY <3>4 DEF R!ReadForStatus, R!DropReport, R!CommitStatus, R!AckReport, R!Crash,
                  R!queues
    <3>5. QED
      BY <1>1, <3>1, <3>2, <3>3, <3>4 DEF Internal
  <2>3. QED
    BY <1>0, <2>1, <2>2
<1>2. CASE Matched
  <2>1. /\ responses' = responses \ {FirstResponse} /\ responseQ' = responseQ
        /\ Head(responseQ).ride \in Ride
        /\ status' = [status EXCEPT ![Head(responseQ).ride] = "MATCHED"]
    BY <1>2, FirstResponseWaits DEF Matched, R!CommitMatch, R!queues
  <2>2. status'[Head(responseQ).ride] = "MATCHED"
    BY <2>1, OwnTypes
  <2>3. QED
    BY <2>1, <2>2 DEF FirstResponse
<1>3. CASE NotMatched
  <2>1. /\ responses' = responses \ {FirstResponse} /\ responseQ # <<>>
        /\ responseQ' = Tail(responseQ) /\ status' = status
        /\ status[Head(responseQ).ride] # "REQUESTED"
    BY <1>3 DEF NotMatched, R!DropResponse, R!db
  <2>2. QED
    BY <1>0, <2>1 DEF FirstResponse
<1>4. ASSUME NEW g \in Search, Accepted(g)
      PROVE  \E m \in RP!Response :
                 /\ responseQ' = Append(responseQ, m) /\ status'[m.ride] # "NONE"
                 /\ responses' = responses \cup {<<m.ride, m.driver>>}
  <2> DEFINE m == [ride |-> request[g], driver |-> Head(candidates[g])]
  <2>1. /\ search[g] = "marked" /\ candidates[g] \in Seq(Driver)
        /\ request[g] \in Ride /\ candidates[g] # <<>>
    BY <1>4 DEF Accepted, OwnInv, DP!OfferInv, DP!SearchTypeOK, DP!SearchInv
  <2>2. m \in RP!Response
    BY <2>1 DEF RP!Response
  <2>3. /\ responseQ' = Append(responseQ, m) /\ status' = status
        /\ creation[m.ride] # "none"
        /\ responses' = responses \cup {<<m.ride, m.driver>>}
    BY <1>4 DEF Accepted, R!AcceptOffer, R!Published, R!db
  <2>4. status[m.ride] # "NONE"
    BY <2>1, <2>3 DEF OwnInv, RP!BaseInv, RP!DriverInv
  <2>5. QED
    BY <2>2, <2>3, <2>4
<1>5. CASE \E g \in Search : Accepted(g)
  <2>1. PICK m \in RP!Response :
            /\ responseQ' = Append(responseQ, m) /\ status'[m.ride] # "NONE"
            /\ responses' = responses \cup {<<m.ride, m.driver>>}
    BY <1>4, <1>5
  <2>2. Waiting(responseQ') = Waiting(responseQ) \cup {m}
    BY <2>1, OwnTypes, WaitingAppended
  <2>3. QED
    BY <2>1, <2>2
<1>6. CASE \/ \E r \in Ride : Requested(r)
           \/ \E t \in R!Thread : Cancelled(t)
  BY <1>6 DEF Requested, R!CreateRide, Cancelled, R!CommitCancel, R!queues, dispatch
<1>7. CASE Apart
  <2>1. responseQ' = responseQ
    BY <1>7 DEF Apart, rideService
  <2>2. \/ responses' = responses
        \/ \E g \in Search : D!MarkFails(g) \/ D!MarkEnRoute(g)
    BY <1>7 DEF Apart, D!FindNearbyDrivers, D!FindFails, D!Exhausted, D!Unreachable,
                D!OfferToDriver, D!Accepted, D!Rejected, D!OfferTimeout, D!PublishFails,
                D!HandleDriverResponse, D!HandleOnline, D!HandleOffline, D!Crash, D!queues
  <2>3. responses' = responses
    BY <2>2 DEF D!MarkFails, D!MarkEnRoute, D!queues
  <2>4. QED
    BY <2>1, <2>3
<1>8. CASE \E g \in Search, r \in Ride : Searched(g, r)
  BY <1>8 DEF Searched, D!HandleRideRequest, rideService
<1>9. CASE \E d \in Driver : Announced(d)
  BY <1>9 DEF Announced, R!HandleMatched, R!HandleMatchedUnacknowledged, rideService
<1>10. CASE \E d \in Driver, r \in Ride : Arriving(d, r) \/ Reported(d, r)
  BY <1>10 DEF Arriving, Reported, PublishStatus, R!DriverReports, D!CheckArrived,
               D!SetArrived, D!HandleStart, D!HandleComplete, rideService, D!queues
<1>11. CASE UNCHANGED vars
  BY <1>11 DEF vars, rideService, dispatch
<1>12. QED
  BY <1>1, <1>2, <1>3, <1>5, <1>6, <1>7, <1>8, <1>9, <1>10, <1>11 DEF Next

\* The responses go on to agree.
LEMMA ResponseLinkStep ==
    ASSUME OwnInv, LinkInv, [Next]_vars
    PROVE  ResponseLink'
<1>1. [RP!Next]_(RP!vars)
  BY OwnStep
<1>2. Waiting(responseQ) \subseteq RP!Response
  BY OwnTypes DEF Waiting
<1>3. ASSUME NEW m \in Waiting(responseQ)
      PROVE  /\ status'[m.ride] # "NONE"
             /\ status'[m.ride] = "REQUESTED" => <<m.ride, m.driver>> \in responses'
  <2>1. m \in RP!Response /\ m.ride \in Ride
    BY <1>2 DEF RP!Response
  <2>2. /\ status[m.ride] # "NONE"
        /\ status[m.ride] = "REQUESTED" => <<m.ride, m.driver>> \in responses
    BY DEF LinkInv, ResponseLink
  <2>3. status'[m.ride] # "NONE" /\ (status'[m.ride] = "REQUESTED" => status[m.ride] = "REQUESTED")
    BY <1>1, <2>1, <2>2, RideMoves
  <2>4. QED
    BY <2>1, <2>2, <2>3, ResponseMoves
<1>4. QED
  BY <1>3, ResponseMoves DEF ResponseLink

\* A step that enters a match is Matched.
LEMMA OnlyMatched ==
    ASSUME OwnInv, [Next]_vars, RP!CommitMatch
    PROVE  Matched
<1>1. /\ pc["responses"] = "idle" /\ pc'["responses"] = "committed"
      /\ Head(responseQ).ride \in Ride /\ status' # status
  <2>1. /\ status[Head(responseQ).ride] = "REQUESTED" /\ Head(responseQ).ride \in Ride
    BY RP!MatchEnters, RideServiceAssumptions DEF OwnInv, RP!MatchEnters
  <2>2. "responses" \in RP!Thread
    BY DEF RP!Thread, RP!Consumer
  <2>3. QED
    BY <2>1, <2>2, OwnTypes DEF RP!CommitMatch
<1>2. CASE pc' = pc
  BY <1>1, <1>2
<1>3. CASE Internal
  <2>1. ASSUME NEW r \in Ride,
               \/ R!PublishRideRequest(r) \/ R!PublishRideRequestFails(r)
               \/ R!StartMatchingTimeout(r) \/ R!TimerStep(r)
        PROVE  status' = status
    BY <2>1 DEF R!PublishRideRequest, R!PublishRideRequestFails, R!StartMatchingTimeout,
                R!TimerStep, R!MatchingTimeout, R!CheckUnmatched, R!TimeoutCancels,
                R!ReadForRefund, R!db
  <2>2. ASSUME NEW t \in R!Thread,
               \/ R!RejectCancel(t) \/ R!LoadUpdated(t) \/ R!Announce(t)
               \/ R!AnnounceUnpublished(t) \/ R!DatabaseCallFails(t) \/ R!AckLost(t)
        PROVE  status' = status
    BY <2>2 DEF R!RejectCancel, R!LoadUpdated, R!Announce, R!AnnounceUnpublished,
                R!DatabaseCallFails, R!AckLost, R!db
  <2>3. CASE \/ R!AckResponse \/ R!ReadForStatus \/ R!DropReport \/ R!AckReport \/ R!Crash
    BY <1>1, <2>3 DEF R!AckResponse, R!ReadForStatus, R!DropReport, R!AckReport, R!Crash, R!db
  <2>4. CASE R!CommitStatus
    BY <1>1, <2>4, OwnTypes DEF R!CommitStatus
  <2>5. QED
    BY <1>1, <1>3, <2>1, <2>2, <2>3, <2>4 DEF Internal
<1>4. ASSUME NEW t \in R!Thread, Cancelled(t) PROVE FALSE
  BY <1>1, <1>4, OwnTypes DEF Cancelled, R!CommitCancel
<1>5. CASE NotMatched \/ Apart \/ \E r \in Ride : Requested(r)
  BY <1>2, <1>5 DEF NotMatched, R!DropResponse, Apart, Requested, R!CreateRide, rideService
<1>6. CASE \E g \in Search : Accepted(g) \/ \E r \in Ride : Searched(g, r)
  BY <1>2, <1>6 DEF Accepted, R!AcceptOffer, Searched, rideService
<1>7. CASE \E d \in Driver : Announced(d)
  BY <1>2, <1>7 DEF Announced, R!HandleMatched, R!HandleMatchedUnacknowledged, rideService
<1>8. CASE \E d \in Driver, r \in Ride : Arriving(d, r) \/ Reported(d, r)
  BY <1>2, <1>8 DEF Arriving, Reported, PublishStatus, R!DriverReports, rideService
<1>9. CASE UNCHANGED vars
  BY <1>2, <1>9 DEF vars, rideService
<1>10. QED
  BY <1>3, <1>4, <1>5, <1>6, <1>7, <1>8, <1>9 DEF Next

\* Where the announcements can go.  Only the consumer of driver_responses adds one,
\* and the last delivery of one takes it from both sides.
LEMMA AnnouncementMoves ==
    ASSUME OwnInv, LinkInv, [Next]_vars
    PROVE  \/ matchedQ' = matchedQ /\ matched \subseteq matched'
           \/ /\ pc["responses"] = "loaded" /\ pc'["responses"] \notin {"committed", "loaded"}
              /\ matchedQ' = Append(matchedQ, target["responses"])
              /\ matched' = matched
           \/ /\ matchedQ # <<>> /\ matchedQ' = Tail(matchedQ)
              /\ \E d \in Driver : matched' = matched \ {<<Head(matchedQ), d>>}
<1> DEFINE Same == matchedQ' = matchedQ /\ matched \subseteq matched'
<1>1. CASE Internal
  <2>1. matched' = matched
    BY <1>1 DEF Internal, dispatch
  <2>2. ASSUME NEW r \in Ride,
               \/ R!PublishRideRequest(r) \/ R!PublishRideRequestFails(r)
               \/ R!StartMatchingTimeout(r) \/ R!TimerStep(r)
        PROVE  matchedQ' = matchedQ
    BY <2>2 DEF R!PublishRideRequest, R!PublishRideRequestFails, R!StartMatchingTimeout,
                R!TimerStep, R!MatchingTimeout, R!CheckUnmatched, R!TimeoutCancels,
                R!ReadForRefund, R!queues
  <2>3. ASSUME NEW t \in R!Thread,
               \/ R!RejectCancel(t) \/ R!LoadUpdated(t)
               \/ R!AnnounceUnpublished(t) \/ R!DatabaseCallFails(t) \/ R!AckLost(t)
        PROVE  matchedQ' = matchedQ
    BY <2>3 DEF R!RejectCancel, R!LoadUpdated, R!AnnounceUnpublished, R!DatabaseCallFails,
                R!AckLost, R!queues
  <2>4. ASSUME NEW t \in R!Thread, R!Announce(t), matchedQ' # matchedQ
        PROVE  /\ pc["responses"] = "loaded" /\ pc'["responses"] \notin {"committed", "loaded"}
               /\ matchedQ' = Append(matchedQ, target["responses"])
    <3>1. pc[t] = "loaded" /\ view[t] = "MATCHED" /\ matchedQ' = Append(matchedQ, target[t])
      BY <2>4 DEF R!Announce, R!ToDriverService
    <3>2. t = "responses"
      BY <3>1, SameTransactions DEF LinkInv, OtherThreads
    <3>3. pc'[t] \notin {"committed", "loaded"}
      BY <2>4, OwnTypes, SameTransactions DEF R!Announce, R!Finish, R!Leave
    <3>4. QED
      BY <3>1, <3>2, <3>3
  <2>5. CASE \/ R!AckResponse \/ R!ReadForStatus \/ R!DropReport \/ R!CommitStatus
             \/ R!AckReport \/ R!Crash
    BY <2>1, <2>5 DEF R!AckResponse, R!ReadForStatus, R!DropReport, R!CommitStatus,
                      R!AckReport, R!Crash, R!queues
  <2>6. QED
    BY <1>1, <2>1, <2>2, <2>3, <2>4, <2>5 DEF Internal
<1>2. CASE Matched \/ NotMatched
  BY <1>2 DEF Matched, NotMatched, R!CommitMatch, R!DropResponse, R!queues
<1>3. CASE \/ \E r \in Ride : Requested(r)
           \/ \E t \in R!Thread : Cancelled(t)
  BY <1>3 DEF Requested, R!CreateRide, Cancelled, R!CommitCancel, R!queues, dispatch
<1>4. CASE Apart
  <2>1. matchedQ' = matchedQ
    BY <1>4 DEF Apart, rideService
  <2>2. matched' = matched
    BY <1>4 DEF Apart, D!FindNearbyDrivers, D!FindFails, D!Exhausted, D!Unreachable,
                D!OfferToDriver, D!Accepted, D!Rejected, D!OfferTimeout, D!MarkEnRoute,
                D!MarkFails, D!PublishFails, D!HandleDriverResponse, D!HandleOnline,
                D!HandleOffline, D!Crash, D!queues
  <2>3. QED
    BY <2>1, <2>2
<1>5. CASE \E g \in Search : Accepted(g) \/ \E r \in Ride : Searched(g, r)
  BY <1>5 DEF Accepted, R!AcceptOffer, Searched, D!HandleRideRequest, rideService
<1>6. ASSUME NEW d \in Driver, Announced(d)
      PROVE  \/ Same
             \/ /\ matchedQ # <<>> /\ matchedQ' = Tail(matchedQ)
                /\ matched' = matched \ {<<Head(matchedQ), d>>}
  BY <1>6 DEF Announced, R!HandleMatched, R!HandleMatchedUnacknowledged, rideService
<1>7. CASE \E d \in Driver, r \in Ride : Arriving(d, r) \/ Reported(d, r)
  BY <1>7 DEF Arriving, Reported, PublishStatus, R!DriverReports, D!CheckArrived,
              D!SetArrived, D!HandleStart, D!HandleComplete, rideService, D!queues
<1>8. CASE UNCHANGED vars
  BY <1>8 DEF vars, rideService, dispatch
<1>9. QED
  BY <1>1, <1>2, <1>3, <1>4, <1>5, <1>6, <1>7, <1>8 DEF Next

\* The announcements that wait go on to agree.
LEMMA WaitingLinkStep ==
    ASSUME OwnInv, LinkInv, [Next]_vars
    PROVE  /\ Distinct(matchedQ')
           /\ \A r \in Waiting(matchedQ') :
                 <<r, driver'[r]>> \in matched' /\ status'[r] \notin {"NONE", "REQUESTED"}
<1>1. [RP!Next]_(RP!vars)
  BY OwnStep
<1>2. matchedQ \in Seq(Ride) /\ Waiting(matchedQ) \subseteq Ride /\ Distinct(matchedQ)
  BY OwnTypes DEF LinkInv, MatchLink, Waiting
<1>3. ASSUME NEW r \in Waiting(matchedQ)
      PROVE  /\ <<r, driver'[r]>> \in matched
             /\ status'[r] \notin {"NONE", "REQUESTED"}
  BY <1>1, <1>2, RideMoves DEF LinkInv, MatchLink
<1>4. CASE matchedQ' = matchedQ /\ matched \subseteq matched'
  BY <1>2, <1>3, <1>4
<1>5. CASE /\ pc["responses"] = "loaded" /\ matchedQ' = Append(matchedQ, target["responses"])
           /\ matched' = matched
  <2> DEFINE r == target["responses"]
  <2>1. "responses" \in RP!Thread
    BY DEF RP!Thread, RP!Consumer
  <2>2. r \in Ride /\ status[r] \notin {"NONE", "REQUESTED"}
    BY <1>5, <2>1
       DEF OwnInv, RP!BaseInv, RP!TypeInv, RP!RoleInv, RP!ReadInv, RP!WrittenInv
  <2>3. <<r, driver[r]>> \in matched /\ r \notin Waiting(matchedQ)
    BY <1>5 DEF LinkInv, MatchLink
  <2>4. driver'[r] = driver[r] /\ status'[r] \notin {"NONE", "REQUESTED"}
    BY <1>1, <2>2, RideMoves
  <2>5. Waiting(matchedQ') = Waiting(matchedQ) \cup {r} /\ Distinct(matchedQ')
    BY <1>2, <1>5, <2>2, <2>3, WaitingAppended
  <2>6. QED
    BY <1>3, <1>5, <2>3, <2>4, <2>5
<1>6. CASE /\ matchedQ # <<>> /\ matchedQ' = Tail(matchedQ)
           /\ \E d \in Driver : matched' = matched \ {<<Head(matchedQ), d>>}
  <2>1. /\ Waiting(matchedQ') \subseteq Waiting(matchedQ)
        /\ Distinct(matchedQ') /\ Head(matchedQ) \notin Waiting(matchedQ')
    BY <1>2, <1>6, WaitingTaken
  <2>2. QED
    BY <1>3, <1>6, <2>1
<1>7. QED
  BY <1>4, <1>5, <1>6, AnnouncementMoves

\* The match that is about to be announced does, too.
LEMMA MatchLinkStep ==
    ASSUME OwnInv, LinkInv, [Next]_vars
    PROVE  MatchLink'
<1>1. [RP!Next]_(RP!vars) /\ "responses" \in RP!Thread
  BY OwnStep DEF RP!Thread, RP!Consumer
<1> DEFINE r == target["responses"]
<1>2. ASSUME pc'["responses"] \in {"committed", "loaded"}
      PROVE  \/ Matched
             \/ pc["responses"] \in {"committed", "loaded"} /\ target'["responses"] = r
  <2>1. RP!Moves("responses")
    BY <1>1, RP!ThreadMoves, RideServiceAssumptions DEF OwnInv, RP!BaseInv, RP!ThreadMoves
  <2>2. ~ RP!CommitCancel("responses")
    BY <1>1, NameAssumption
       DEF RP!CommitCancel, OwnInv, RP!BaseInv, RP!TypeInv, RP!RoleInv, RP!Canceller
  <2>3. ~ \E q \in Ride : RP!ReadForRefund("responses", q)
    BY <1>1, <1>2, OwnTypes DEF RP!ReadForRefund
  <2>4. QED
    BY <1>1, <1>2, <2>1, <2>2, <2>3, OnlyMatched DEF RP!Moves, RP!Kept, RP!LoadUpdated
<1>3. CASE Matched
  <2> DEFINE q == Head(responseQ).ride
  <2>1. /\ q \in Ride /\ status[q] = "REQUESTED"
        /\ driver' = [driver EXCEPT ![q] = Head(responseQ).driver]
        /\ target' = [target EXCEPT !["responses"] = q]
        /\ matchedQ' = matchedQ
        /\ matched' = matched \cup {<<q, Head(responseQ).driver>>}
    BY <1>3, FirstResponseWaits DEF Matched, FirstResponse, R!CommitMatch, R!queues
  <2>2. target'["responses"] = q /\ driver'[q] = Head(responseQ).driver
    BY <1>1, <2>1, OwnTypes
  <2>3. q \notin Waiting(matchedQ)
    BY <2>1 DEF LinkInv, MatchLink
  <2>4. QED
    BY <2>1, <2>2, <2>3, WaitingLinkStep DEF MatchLink
<1>4. CASE pc["responses"] \in {"committed", "loaded"} /\ target'["responses"] = r
           /\ pc'["responses"] \in {"committed", "loaded"}
  <2>1. r \in Ride /\ status[r] \notin {"NONE", "REQUESTED"}
    BY <1>1, <1>4
       DEF OwnInv, RP!BaseInv, RP!TypeInv, RP!RoleInv, RP!ReadInv, RP!WrittenInv
  <2>2. driver'[r] = driver[r]
    BY <1>1, <2>1, RideMoves
  <2>3. <<r, driver[r]>> \in matched /\ r \notin Waiting(matchedQ)
    BY <1>4 DEF LinkInv, MatchLink
  <2>4. <<r, driver[r]>> \in matched' /\ r \notin Waiting(matchedQ')
    <3>1. CASE matchedQ' = matchedQ /\ matched \subseteq matched'
      BY <2>3, <3>1
    <3>2. CASE /\ matchedQ # <<>> /\ matchedQ' = Tail(matchedQ)
               /\ \E d \in Driver : matched' = matched \ {<<Head(matchedQ), d>>}
      <4>1. /\ Waiting(matchedQ') \subseteq Waiting(matchedQ)
            /\ Head(matchedQ) \in Waiting(matchedQ)
        BY <3>2, OwnTypes, WaitingTaken
      <4>2. QED
        BY <2>3, <3>2, <4>1
    <3>3. QED
      BY <1>4, <3>1, <3>2, AnnouncementMoves
  <2>5. QED
    BY <1>4, <2>2, <2>4, WaitingLinkStep DEF MatchLink
<1>5. CASE pc'["responses"] \notin {"committed", "loaded"}
  BY <1>5, WaitingLinkStep DEF MatchLink
<1>6. QED
  BY <1>2, <1>3, <1>4, <1>5

\* What another goroutine has entered is no match, and stays none.
LEMMA OtherThreadsStep ==
    ASSUME OwnInv, LinkInv, [Next]_vars
    PROVE  OtherThreads'
<1> SUFFICES ASSUME NEW t \in RP!Thread \ {"responses"}
             PROVE  /\ pc'[t] = "committed" =>
                           status'[target'[t]] \notin {"NONE", "REQUESTED", "MATCHED"}
                    /\ pc'[t] = "loaded" => view'[t] # "MATCHED"
  BY DEF OtherThreads, RP!Thread, RP!Canceller, RP!Consumer
<1>1. [RP!Next]_(RP!vars)
  BY OwnStep
<1>2. RP!Moves(t)
  BY <1>1, RP!ThreadMoves, RideServiceAssumptions DEF OwnInv, RP!BaseInv, RP!ThreadMoves
<1>3. /\ pc[t] = "committed" => status[target[t]] \notin {"NONE", "REQUESTED", "MATCHED"}
      /\ pc[t] = "loaded" => view[t] # "MATCHED"
      /\ pc[t] = "committed" => target[t] \in Ride
  BY DEF LinkInv, OtherThreads, OwnInv, RP!BaseInv, RP!TypeInv, RP!RoleInv
<1>4. CASE RP!Kept(t)
  BY <1>1, <1>3, <1>4, RideMoves DEF RP!Kept
<1>5. CASE \E r \in Ride : RP!ReadForRefund(t, r)
  BY <1>5, OwnTypes DEF RP!ReadForRefund
<1>6. CASE RP!ReadForStatus
  BY <1>3, <1>6, OwnTypes DEF RP!ReadForStatus, RP!db
<1>7. CASE RP!CommitCancel(t)
  <2>1. target[t] \in Ride
    BY <1>7 DEF RP!CommitCancel, OwnInv, RP!BaseInv, RP!TypeInv, RP!RoleInv
  <2>2. QED
    BY <1>7, <2>1, OwnTypes DEF RP!CommitCancel, RP!local
<1>8. CASE t = "statuses" /\ RP!CommitStatus
  <2> DEFINE r == target["statuses"]
             row == RP!Change("STATUS_CHANGED", status[r],
                              RP!NewStatus(Head(statusQ).status, view["statuses"]))
  <2>1. r \in Ride /\ row \in RP!Event /\ RP!Enters(r, row)
    BY <1>8, RP!StatusEnters, RideServiceAssumptions DEF OwnInv, RP!StatusEnters
  <2>2. status' = [status EXCEPT ![r] = row.new]
        /\ row.new \in {"EN_ROUTE", "ARRIVED", "IN_PROGRESS", "COMPLETED"}
    BY <2>1 DEF RP!Enters, RP!Legal, RP!Change
  <2>3. pc'[t] = "committed" /\ target' = target
    BY <1>8, OwnTypes DEF RP!CommitStatus, RP!local
  <2>4. QED
    BY <1>8, <2>1, <2>2, <2>3, OwnTypes
<1>9. CASE RP!LoadUpdated(t)
  BY <1>3, <1>9, OwnTypes DEF RP!LoadUpdated
<1>10. QED
  BY <1>2, <1>4, <1>5, <1>6, <1>7, <1>8, <1>9 DEF RP!Moves

\* Where the reports can go: the history notes what is published.  One that is
\* dropped would not change its ride.
Useless(m) ==
    status[m.ride] = "NONE" \/ RP!NewStatus(m.status, status[m.ride]) \in {"NONE", status[m.ride]}

LEMMA ReportMoves ==
    ASSUME OwnInv, LinkInv, [Next]_vars
    PROVE  \/ statusQ' = statusQ /\ UNCHANGED <<latest, disordered>>
           \/ /\ statusQ # <<>> /\ statusQ' = Tail(statusQ)
              /\ UNCHANGED <<latest, disordered, status>> /\ pc'["statuses"] = "idle"
              /\ pc["statuses"] = "announced" \/ Useless(Head(statusQ))
           \/ \E m \in RP!Report :
                 /\ statusQ' = Append(statusQ, m)
                 /\ Publishes(m.ride, m.status)
                 /\ UNCHANGED <<status, pc>>
<1> DEFINE Same == statusQ' = statusQ /\ UNCHANGED <<latest, disordered>>
           Sent(m) == /\ statusQ' = Append(statusQ, m)
                      /\ Publishes(m.ride, m.status)
                      /\ UNCHANGED <<status, pc>>
<1>1. CASE Internal
  <2>1. UNCHANGED <<latest, disordered>>
    BY <1>1 DEF Internal, published
  <2>2. ASSUME NEW r \in Ride,
               \/ R!PublishRideRequest(r) \/ R!PublishRideRequestFails(r)
               \/ R!StartMatchingTimeout(r) \/ R!TimerStep(r)
        PROVE  statusQ' = statusQ
    BY <2>2 DEF R!PublishRideRequest, R!PublishRideRequestFails, R!StartMatchingTimeout,
                R!TimerStep, R!MatchingTimeout, R!CheckUnmatched, R!TimeoutCancels,
                R!ReadForRefund, R!queues
  <2>3. ASSUME NEW t \in R!Thread,
               \/ R!RejectCancel(t) \/ R!LoadUpdated(t) \/ R!Announce(t)
               \/ R!AnnounceUnpublished(t) \/ R!DatabaseCallFails(t) \/ R!AckLost(t)
        PROVE  statusQ' = statusQ
    BY <2>3 DEF R!RejectCancel, R!LoadUpdated, R!Announce, R!AnnounceUnpublished,
                R!DatabaseCallFails, R!AckLost, R!queues
  <2>4. CASE R!AckResponse \/ R!ReadForStatus \/ R!CommitStatus \/ R!Crash
    BY <2>1, <2>4 DEF R!AckResponse, R!ReadForStatus, R!CommitStatus, R!Crash, R!queues
  <2>5. CASE R!DropReport \/ R!AckReport
    <3>1. statusQ # <<>> /\ statusQ' = Tail(statusQ) /\ UNCHANGED status
      BY <2>5
         DEF R!DropReport, R!AckReport, R!db, OwnInv, RP!BaseInv, RP!TypeInv, RP!RoleInv
    <3>2. pc'["statuses"] = "idle"
      BY <2>5, OwnTypes DEF R!DropReport, R!AckReport, RP!Thread, RP!Consumer
    <3>3. pc["statuses"] = "announced" \/ Useless(Head(statusQ))
      BY <2>5 DEF R!DropReport, R!AckReport, Useless, R!NewStatus, RP!NewStatus
    <3>4. QED
      BY <2>1, <3>1, <3>2, <3>3
  <2>6. QED
    BY <1>1, <2>1, <2>2, <2>3, <2>4, <2>5 DEF Internal
<1>2. CASE Matched \/ NotMatched
  BY <1>2 DEF Matched, NotMatched, R!CommitMatch, R!DropResponse, R!queues, published
<1>3. CASE \/ \E r \in Ride : Requested(r)
           \/ \E t \in R!Thread : Cancelled(t)
  BY <1>3 DEF Requested, R!CreateRide, Cancelled, R!CommitCancel, R!queues, published
<1>4. CASE Apart \/ (\E d \in Driver, r \in Ride : Arriving(d, r))
  BY <1>4 DEF Apart, Arriving, rideService, published
<1>5. CASE \E g \in Search : Accepted(g) \/ \E r \in Ride : Searched(g, r)
  BY <1>5 DEF Accepted, R!AcceptOffer, Searched, rideService, published
<1>6. ASSUME NEW d \in Driver, Announced(d)
      PROVE  Same \/ Sent([ride |-> Head(matchedQ), status |-> "EN_ROUTE"])
  BY <1>6 DEF Announced, R!HandleMatched, R!HandleMatchedUnacknowledged, R!SendEnRoute, R!db,
              rideService, published
<1>7. CASE \E d \in Driver : Announced(d)
  <2> DEFINE m == [ride |-> Head(matchedQ), status |-> "EN_ROUTE"]
  <2>1. matchedQ # <<>>
    BY <1>7 DEF Announced
  <2>2. m \in RP!Report
    BY <2>1, OwnTypes, WaitingTaken DEF RP!Report, RP!DriverStatus
  <2> HIDE DEF m
  <2>3. Same \/ Sent(m)
    BY <1>6, <1>7 DEF m
  <2>4. QED
    BY <2>2, <2>3
<1>8. ASSUME NEW r \in Ride, NEW s \in RP!DriverStatus, PublishStatus(r, s)
      PROVE  Same \/ \E m \in RP!Report : Sent(m)
  <2> DEFINE m == [ride |-> r, status |-> s]
  <2>1. m \in RP!Report
    BY DEF RP!Report
  <2>2. Same \/ Sent(m)
    BY <1>8 DEF PublishStatus, R!DriverReports, R!db, rideService
  <2>3. QED
    BY <2>1, <2>2
<1>9. CASE \E d \in Driver, r \in Ride : Reported(d, r)
  <2>1. \E r \in Ride, s \in RP!DriverStatus : PublishStatus(r, s)
    BY <1>9 DEF Reported, RP!DriverStatus
  <2>2. QED
    BY <1>8, <2>1
<1>10. CASE UNCHANGED vars
  BY <1>10 DEF vars, rideService, published
<1>11. QED
  BY <1>1, <1>2, <1>3, <1>4, <1>5, <1>7, <1>9, <1>10 DEF Next

\* Every step keeps the queues and the sets in agreement.
LEMMA LinkStep == OwnInv /\ LinkInv /\ [Next]_vars => OwnInv' /\ LinkInv'
BY OwnStep, ResponseLinkStep, MatchLinkStep, OtherThreadsStep DEF LinkInv

\* At the start neither service has done anything.
LEMMA OwnInit == Init => OwnInv
<1>1. Init => RP!BaseInv
  BY RP!BaseInit, RideServiceAssumptions, SameRideService DEF Init, RP!BaseInit
<1>2. Init => DP!OfferInv
  BY DP!OfferInit, DispatchAssumptions, SameDispatch DEF Init, DP!OfferInit
<1>3. QED
  BY <1>1, <1>2 DEF OwnInv

\* What the services keep of themselves and of each other holds in every state.
THEOREM LinkCorrect == Spec => [](OwnInv /\ LinkInv)
BY OwnInit, LinkInit, LinkStep, PTL DEF Spec

\* The driver service sends to the ride service nothing RideService does not assume,
\* which is little: a response is of a ride whose request was published, and an
\* ARRIVED, though entered and sent after it was checked, of a ride that has a driver.
\* Whatever fails between the two, their composition is a behaviour of RideService.
THEOREM RideServiceImplemented == Spec => ImplementsRideService
<1>1. Init => R!Init
  BY DEF Init
<1>2. QED
  BY <1>1, RideServiceStep, LinkCorrect, PTL DEF Spec, ImplementsRideService, R!Spec

\* The goroutines of the ride service, interleaved, failing and restarted, do for
\* the matching of drivers what the atomic operations of Dispatch do.
THEOREM DispatchImplemented == Spec => ImplementsDispatch
<1>1. Init => D!Init
  BY DEF Init
<1>2. QED
  BY <1>1, DispatchStep, LinkCorrect, PTL DEF Spec, ImplementsDispatch, D!Spec

\* What is proved of the ride service alone holds of it in this company: a ride is
\* settled once, no refund falls short, and only a ride in progress is completed.
THEOREM RideServiceInherited ==
    Spec => [](R!SettledOnce /\ R!RefundNeverShort /\ R!CompletedOnlyFromProgress)
<1>1. Init => RP!Init
  BY SameRideService DEF Init
<1>2. OwnInv /\ LinkInv /\ [Next]_vars => [RP!Next]_(RP!vars)
  BY OwnStep
<1>3. Spec => RP!Spec
  BY <1>1, <1>2, LinkCorrect, PTL DEF Spec, RP!Spec
<1>4. RP!Spec => []RP!SettledOnce
  BY RP!SettledOnceCorrect, RideServiceAssumptions DEF RP!SettledOnceCorrect
<1>5. RP!Spec => []RP!RefundNeverShort
  BY RP!RefundNeverShortCorrect, RideServiceAssumptions DEF RP!RefundNeverShortCorrect
<1>6. RP!Spec => []RP!CompletedOnlyFromProgress
  BY RP!CompletedOnlyFromProgressCorrect, RideServiceAssumptions
     DEF RP!CompletedOnlyFromProgressCorrect
<1>7. RP!SettledOnce /\ RP!RefundNeverShort /\ RP!CompletedOnlyFromProgress
          => R!SettledOnce /\ R!RefundNeverShort /\ R!CompletedOnlyFromProgress
  BY DEF RP!SettledOnce, R!SettledOnce, RP!RefundNeverShort, R!RefundNeverShort,
         RP!CalculateRefund, R!CalculateRefund, RP!CompletedOnlyFromProgress,
         R!CompletedOnlyFromProgress
<1>8. QED
  BY <1>3, <1>4, <1>5, <1>6, <1>7, PTL

\* What is proved of the matching of drivers holds with the goroutines of the ride
\* service in place of its operations: a ride is only given to a driver who agreed,
\* and he is not available for others until his own app says so.
THEOREM DispatchInherited == Spec => [](D!DriverHasAgreed /\ D!EngagedIsTaken)
<1>1. Init => DP!Init
  BY SameDispatch DEF Init
<1>2. OwnInv /\ LinkInv /\ [Next]_vars => [DP!Next]_(DP!vars)
  BY OwnStep
<1>3. Spec => DP!Spec
  BY <1>1, <1>2, LinkCorrect, PTL DEF Spec, DP!Spec
<1>4. DP!Spec => []DP!DriverHasAgreed
  BY DP!DriverHasAgreedCorrect, DispatchAssumptions DEF DP!DriverHasAgreedCorrect
<1>5. DP!Spec => []DP!EngagedIsTaken
  BY DP!EngagedIsTakenCorrect, DispatchAssumptions DEF DP!EngagedIsTakenCorrect
<1>6. DP!DriverHasAgreed /\ DP!EngagedIsTaken => D!DriverHasAgreed /\ D!EngagedIsTaken
  BY DEF DP!DriverHasAgreed, D!DriverHasAgreed, DP!EngagedIsTaken, D!EngagedIsTaken
<1>7. QED
  BY <1>3, <1>4, <1>5, <1>6, PTL

-----------------------------------------------------------------------------
(* The completion of a ride is entered                                       *)

\* How far a status says the ride has come, as Stage does for reports.
Rank(s) ==
    CASE s = "EN_ROUTE"    -> 1
      [] s = "ARRIVED"     -> 2
      [] s = "IN_PROGRESS" -> 3
      [] s = "COMPLETED"   -> 4
      [] OTHER -> 0

\* The ride has been started, or a report that starts it waits.
Started(r) ==
    \/ status[r] \in {"IN_PROGRESS", "COMPLETED"}
    \/ \E i \in DOMAIN statusQ : statusQ[i] = [ride |-> r, status |-> "BUSY"]

\* The ride has been completed, or a report waits that will be applied to a ride in
\* progress and complete it.
Completing(r) ==
    \/ status[r] = "COMPLETED"
    \/ \E i \in DOMAIN statusQ :
           /\ statusQ[i] = [ride |-> r, status |-> "AVAILABLE"]
           /\ \/ status[r] = "IN_PROGRESS"
              \/ \E j \in DOMAIN statusQ :
                     j < i /\ statusQ[j] = [ride |-> r, status |-> "BUSY"]

\* What waits of a ride says it is no less far than it is, and no further than the
\* last report published; in between it is in order.  (A cancellation sets the ride
\* back, and so does no harm.)  A report that has been entered and is still to be
\* acknowledged says just where the ride is.
Flow(r) ==
    /\ Rank(status[r]) <= latest[r]
    /\ latest[r] > 0 => status[r] # "NONE"
    /\ \A i \in DOMAIN statusQ : statusQ[i].ride = r =>
          Rank(status[r]) <= Stage[statusQ[i].status] /\ Stage[statusQ[i].status] <= latest[r]
    /\ \A i, j \in DOMAIN statusQ : i < j /\ statusQ[i].ride = r /\ statusQ[j].ride = r =>
          Stage[statusQ[i].status] <= Stage[statusQ[j].status]
    /\ pc["statuses"] \in {"committed", "loaded", "announced"} /\ Head(statusQ).ride = r =>
          Rank(status[r]) = Stage[Head(statusQ).status]
    /\ latest[r] >= 3 => Started(r)
    /\ latest[r] = 4 => Completing(r)

FlowInv == latest \in [Ride -> 0 .. 4] /\ \A r \in Ride : r \notin disordered => Flow(r)

\* Reports and statuses are ordered alike.
LEMMA StageFacts ==
    /\ Stage["EN_ROUTE"] = 1 /\ Stage["ARRIVED"] = 2 /\ Stage["BUSY"] = 3
    /\ Stage["AVAILABLE"] = 4
    /\ \A s \in RP!DriverStatus : Stage[s] \in 1 .. 4
    /\ \A s \in RP!DriverStatus : Stage[s] = 4 => s = "AVAILABLE"
    /\ \A s \in RP!DriverStatus : Stage[s] = 3 => s = "BUSY"
BY DEF Stage, RP!DriverStatus

LEMMA RankFacts ==
    /\ Rank("EN_ROUTE") = 1 /\ Rank("ARRIVED") = 2 /\ Rank("IN_PROGRESS") = 3
    /\ Rank("COMPLETED") = 4
    /\ \A s \in {"NONE", "REQUESTED", "MATCHED", "CANCELLED"} : Rank(s) = 0
    /\ \A s : Rank(s) \in 0 .. 4
    /\ \A s : Rank(s) = 3 <=> s = "IN_PROGRESS"
    /\ \A s : Rank(s) = 4 <=> s = "COMPLETED"
    /\ \A s, t : RP!NewStatus(s, t) # "NONE" => Rank(RP!NewStatus(s, t)) = Stage[s]
BY DEF Rank, RP!NewStatus, Stage

\* The indices of a queue that loses its head, or grows.
LEMMA TailIndices ==
    ASSUME NEW S, NEW q \in Seq(S), q # <<>>
    PROVE  /\ DOMAIN q \subseteq Nat /\ DOMAIN Tail(q) \subseteq Nat
           /\ 1 \in DOMAIN q /\ Head(q) = q[1]
           /\ \A i \in DOMAIN Tail(q) : i + 1 \in DOMAIN q /\ Tail(q)[i] = q[i + 1]
           /\ \A i \in DOMAIN q : i > 1 => i - 1 \in DOMAIN Tail(q) /\ Tail(q)[i - 1] = q[i]
OBVIOUS

LEMMA AppendIndices ==
    ASSUME NEW S, NEW q \in Seq(S), NEW e \in S
    PROVE  \E n \in Nat :
              /\ DOMAIN q = 1 .. n - 1 /\ DOMAIN Append(q, e) = 1 .. n /\ n > 0
              /\ \A i \in 1 .. n - 1 : Append(q, e)[i] = q[i]
              /\ Append(q, e)[n] = e
              /\ q # <<>> => Head(Append(q, e)) = Head(q)
<1> DEFINE n == Len(q) + 1
<1>1. /\ n \in Nat /\ n > 0
      /\ DOMAIN q = 1 .. n - 1 /\ DOMAIN Append(q, e) = 1 .. n
      /\ \A i \in 1 .. n - 1 : Append(q, e)[i] = q[i]
      /\ Append(q, e)[n] = e
  OBVIOUS
<1>2. q # <<>> => Head(Append(q, e)) = Head(q)
  OBVIOUS
<1>3. QED
  BY <1>1, <1>2

\* Only the consumer of driver_status moves a ride on, or back once it is under way.
LEMMA OtherMoves ==
    ASSUME OwnInv, [RP!Next]_(RP!vars), NEW r \in Ride
    PROVE  \/ RP!CommitStatus /\ r = target["statuses"]
           \/ /\ Rank(status'[r]) = Rank(status[r])
              /\ status[r] \in {"IN_PROGRESS", "COMPLETED"} => status'[r] = status[r]
<1>1. \/ UNCHANGED <<status, driver, trail>> \/ (\E q \in Ride : RP!CreateRide(q))
      \/ (\E t \in RP!Thread : RP!CommitCancel(t)) \/ RP!CommitMatch \/ RP!CommitStatus
  BY RP!OnlyTransactions, RideServiceAssumptions DEF RP!OnlyTransactions
<1>2. ASSUME NEW q \in Ride, RP!CreateRide(q)
      PROVE  status[q] = "NONE" /\ status' = [status EXCEPT ![q] = "REQUESTED"]
  BY <1>2 DEF RP!CreateRide, OwnInv, RP!BaseInv, RP!DriverInv
<1>3. CASE \E q \in Ride : RP!CreateRide(q)
  BY <1>2, <1>3, OwnTypes, RankFacts
<1>4. ASSUME NEW t \in RP!Thread, RP!CommitCancel(t)
      PROVE  \/ status'[r] = status[r]
             \/ status[r] \in {"REQUESTED", "MATCHED"} /\ status'[r] = "CANCELLED"
  BY <1>4, OwnTypes DEF RP!CommitCancel, RP!Cancellable
<1>5. CASE \E t \in RP!Thread : RP!CommitCancel(t)
  BY <1>4, <1>5, RankFacts
<1>6. CASE RP!CommitMatch
  BY <1>6, OwnTypes, RankFacts DEF RP!CommitMatch
<1>7. CASE RP!CommitStatus
  BY <1>7, OwnTypes DEF RP!CommitStatus
<1>8. QED
  BY <1>1, <1>3, <1>5, <1>6, <1>7

\* The report that is entered is at the head of the queue, and moves the ride on.
LEMMA FlowCommitted ==
    ASSUME OwnInv, FlowInv, RP!CommitStatus, NEW r \in Ride, r = target["statuses"],
           r \notin disordered, UNCHANGED <<statusQ, latest>>
    PROVE  Flow(r)'
<1> DEFINE new == RP!NewStatus(Head(statusQ).status, view["statuses"])
           row == RP!Change("STATUS_CHANGED", status[r], new)
<1>1. /\ row \in RP!Event /\ RP!Enters(r, row) /\ pc["statuses"] = "decided"
  BY RP!StatusEnters, RideServiceAssumptions DEF OwnInv, RP!StatusEnters
<1>2. /\ new \in {"EN_ROUTE", "ARRIVED", "IN_PROGRESS", "COMPLETED"}
      /\ status'[r] = new
  BY <1>1, OwnTypes DEF RP!Enters, RP!Legal, RP!Change
<1>3. statusQ # <<>> /\ r = Head(statusQ).ride /\ Rank(new) = Stage[Head(statusQ).status]
  BY <1>1, <1>2, RankFacts DEF OwnInv, RP!BaseInv, RP!TypeInv, RP!RoleInv
<1>4. /\ 1 \in DOMAIN statusQ /\ Head(statusQ) = statusQ[1] /\ Head(statusQ) \in RP!Report
      /\ \A i \in DOMAIN statusQ : i \in Nat /\ (i = 1 \/ 1 < i)
  BY <1>3, OwnTypes
<1>5. Flow(r)
  BY DEF FlowInv
<1>6. Head(statusQ).status \in RP!DriverStatus
  BY <1>4 DEF RP!Report
<1>7. /\ Rank(status'[r]) <= latest'[r]
      /\ \A i \in DOMAIN statusQ' : statusQ'[i].ride = r =>
            /\ Rank(status'[r]) <= Stage[statusQ'[i].status]
            /\ Stage[statusQ'[i].status] <= latest'[r]
  BY <1>2, <1>3, <1>4, <1>5, <1>6, StageFacts DEF Flow
<1>8. /\ status[r] = "IN_PROGRESS" => status'[r] \in {"IN_PROGRESS", "COMPLETED"}
      /\ status[r] = "COMPLETED" => status'[r] = "COMPLETED"
  <2>1. Rank(status[r]) <= Rank(new) /\ Rank(new) \in 0 .. 4
    BY <1>3, <1>4, <1>5, RankFacts DEF Flow
  <2>2. CASE status[r] = "COMPLETED"
    BY <1>2, <2>1, <2>2, RankFacts
  <2>3. CASE status[r] = "IN_PROGRESS"
    <3>1. Rank(new) = 3 \/ Rank(new) = 4
      BY <2>1, <2>3, RankFacts
    <3>2. QED
      BY <1>2, <3>1, <2>3, RankFacts
  <2>4. QED
    BY <2>2, <2>3
<1>9. latest'[r] >= 3 => Started(r)'
  BY <1>5, <1>8 DEF Flow, Started
<1>10. latest'[r] = 4 => Completing(r)'
  BY <1>5, <1>8 DEF Flow, Completing
<1>11. QED
  BY <1>2, <1>3, <1>5, <1>7, <1>9, <1>10 DEF Flow

\* Nothing happens to the reports, and nothing to how far the ride is.
LEMMA FlowKept ==
    ASSUME OwnInv, FlowInv, [RP!Next]_(RP!vars), NEW r \in Ride, r \notin disordered,
           UNCHANGED <<statusQ, latest>>,
           ~ (RP!CommitStatus /\ r = target["statuses"]),
           Rank(status'[r]) = Rank(status[r]),
           status[r] \in {"IN_PROGRESS", "COMPLETED"} => status'[r] = status[r]
    PROVE  Flow(r)'
<1>1. Flow(r)
  BY DEF FlowInv
<1>2. ASSUME pc'["statuses"] \in {"committed", "loaded", "announced"}, Head(statusQ).ride = r
      PROVE  pc["statuses"] \in {"committed", "loaded", "announced"}
  <2>1. RP!CommitStatus => target["statuses"] = Head(statusQ).ride
    BY DEF RP!CommitStatus, OwnInv, RP!BaseInv, RP!TypeInv, RP!RoleInv
  <2>2. RP!CommitStatus \/ pc["statuses"] \in {"committed", "loaded", "announced"}
    BY <1>2, RP!BehindCommit, RideServiceAssumptions DEF OwnInv, RP!BaseInv, RP!BehindCommit
  <2>3. QED
    BY <1>2, <2>1, <2>2
<1>3. status[r] # "NONE" => status'[r] # "NONE"
  BY RideMoves
<1>4. latest'[r] >= 3 => Started(r)'
  BY <1>1 DEF Flow, Started
<1>5. latest'[r] = 4 => Completing(r)'
  BY <1>1 DEF Flow, Completing
<1>6. QED
  BY <1>1, <1>2, <1>3, <1>4, <1>5 DEF Flow

\* The report at the head of the queue is done with.
LEMMA FlowTaken ==
    ASSUME OwnInv, FlowInv, NEW r \in Ride, r \notin disordered,
           statusQ # <<>>, statusQ' = Tail(statusQ), UNCHANGED <<latest, status>>,
           pc'["statuses"] = "idle",
           pc["statuses"] = "announced" \/ Useless(Head(statusQ))
    PROVE  Flow(r)'
<1>1. Flow(r)
  BY DEF FlowInv
<1>2. /\ DOMAIN statusQ \subseteq Nat /\ DOMAIN statusQ' \subseteq Nat
      /\ 1 \in DOMAIN statusQ /\ Head(statusQ) = statusQ[1]
      /\ \A i \in DOMAIN statusQ' : i + 1 \in DOMAIN statusQ /\ statusQ'[i] = statusQ[i + 1]
      /\ \A i \in DOMAIN statusQ : i > 1 =>
            i - 1 \in DOMAIN statusQ' /\ statusQ'[i - 1] = statusQ[i]
      /\ \A i \in DOMAIN statusQ : i # 1 => i > 1
  <2>1. statusQ \in Seq(RP!Report)
    BY OwnTypes
  <2>2. \A i \in DOMAIN statusQ : i # 1 => i > 1
    BY <2>1
  <2>3. QED
    BY <2>1, <2>2, TailIndices
<1>3. /\ \A i \in DOMAIN statusQ' : statusQ'[i].ride = r =>
            /\ Rank(status[r]) <= Stage[statusQ'[i].status]
            /\ Stage[statusQ'[i].status] <= latest[r]
      /\ \A i, j \in DOMAIN statusQ' :
            i < j /\ statusQ'[i].ride = r /\ statusQ'[j].ride = r =>
                Stage[statusQ'[i].status] <= Stage[statusQ'[j].status]
  <2>1. \A i, j \in DOMAIN statusQ' : i < j => i + 1 < j + 1
    BY <1>2
  <2>2. QED
    BY <1>1, <1>2, <2>1 DEF Flow
<1>4. ASSUME latest[r] >= 3, statusQ[1] = [ride |-> r, status |-> "BUSY"]
      PROVE  status[r] = "IN_PROGRESS"
  <2>1. Head(statusQ).ride = r /\ Head(statusQ).status = "BUSY"
    BY <1>2, <1>4
  <2>2. CASE pc["statuses"] = "announced"
    <3>1. Rank(status[r]) = 3
      BY <1>1, <2>1, <2>2, StageFacts DEF Flow
    <3>2. QED
      BY <3>1, RankFacts
  <2>3. CASE Useless(Head(statusQ))
    <3>1. latest[r] \in 0 .. 4
      BY DEF FlowInv
    <3>2. status[r] # "NONE"
      BY <1>1, <1>4, <3>1 DEF Flow
    <3>3. RP!NewStatus("BUSY", status[r]) = "IN_PROGRESS"
      BY DEF RP!NewStatus
    <3>4. QED
      BY <2>1, <2>3, <3>2, <3>3 DEF Useless
  <2>4. QED
    BY <2>2, <2>3
<1>5. ASSUME latest[r] = 4, statusQ[1] = [ride |-> r, status |-> "AVAILABLE"]
      PROVE  status[r] = "COMPLETED"
  <2>1. Head(statusQ).ride = r /\ Head(statusQ).status = "AVAILABLE"
    BY <1>2, <1>5
  <2>2. CASE pc["statuses"] = "announced"
    <3>1. Rank(status[r]) = 4
      BY <1>1, <2>1, <2>2, StageFacts DEF Flow
    <3>2. QED
      BY <3>1, RankFacts
  <2>3. CASE Useless(Head(statusQ))
    <3>1. RP!NewStatus("AVAILABLE", "IN_PROGRESS") = "COMPLETED"
      BY DEF RP!NewStatus
    <3>2. status[r] # "IN_PROGRESS"
      BY <2>1, <2>3, <3>1 DEF Useless
    <3>3. ASSUME NEW j \in DOMAIN statusQ, statusQ[j] = [ride |-> r, status |-> "BUSY"]
          PROVE  FALSE
      <4>1. j # 1
        BY <1>5, <3>3
      <4>2. j > 1 /\ 1 \in DOMAIN statusQ
        BY <1>2, <4>1
      <4>3. Stage[statusQ[1].status] <= Stage[statusQ[j].status]
        BY <1>1, <1>5, <3>3, <4>2 DEF Flow
      <4>4. QED
        BY <1>5, <3>3, <4>3, StageFacts
    <3>4. QED
      BY <1>1, <1>5, <3>2, <3>3 DEF Flow, Completing
  <2>4. QED
    BY <2>2, <2>3
<1>6. latest[r] >= 3 => Started(r)'
  BY <1>1, <1>2, <1>4 DEF Flow, Started
<1>7. ASSUME latest[r] = 4, status[r] # "COMPLETED"
      PROVE  Completing(r)'
  <2>1. PICK i \in DOMAIN statusQ :
            /\ statusQ[i] = [ride |-> r, status |-> "AVAILABLE"]
            /\ \/ status[r] = "IN_PROGRESS"
               \/ \E j \in DOMAIN statusQ :
                      j < i /\ statusQ[j] = [ride |-> r, status |-> "BUSY"]
    BY <1>1, <1>7 DEF Flow, Completing
  <2>2. i - 1 \in DOMAIN statusQ' /\ statusQ'[i - 1] = [ride |-> r, status |-> "AVAILABLE"]
    BY <1>2, <1>5, <1>7, <2>1
  <2>3. CASE status[r] = "IN_PROGRESS"
    BY <2>2, <2>3 DEF Completing
  <2>4. ASSUME NEW j \in DOMAIN statusQ, j < i, status[r] # "IN_PROGRESS",
               statusQ[j] = [ride |-> r, status |-> "BUSY"]
        PROVE  Completing(r)'
    <3>1. j - 1 \in DOMAIN statusQ' /\ statusQ'[j - 1] = [ride |-> r, status |-> "BUSY"]
      BY <1>2, <1>4, <1>7, <2>4
    <3>2. j - 1 < i - 1
      BY <1>2, <2>1, <2>4
    <3>3. QED
      BY <2>2, <3>1, <3>2 DEF Completing
  <2>5. QED
    BY <2>1, <2>3, <2>4
<1>8. status[r] = "COMPLETED" => Completing(r)'
  BY DEF Completing
<1>9. QED
  BY <1>1, <1>3, <1>6, <1>7, <1>8 DEF Flow

\* A report is published: behind the others, and if it is in order, no less far on.
LEMMA FlowSent ==
    ASSUME OwnInv, FlowInv, NEW r \in Ride, r \notin disordered',
           NEW m \in RP!Report, statusQ' = Append(statusQ, m), Publishes(m.ride, m.status),
           UNCHANGED <<status, pc>>
    PROVE  Flow(r)'
<1>0. m.ride = r => /\ status[r] # "NONE" /\ Stage[m.status] >= latest[r]
                    /\ m.status = "AVAILABLE" => latest[r] >= 3
  BY StageFacts DEF Publishes, Stage
<1>1. Flow(r) /\ latest \in [Ride -> 0 .. 4]
  BY DEF FlowInv, Publishes
<1>2. PICK n \in Nat :
          /\ DOMAIN statusQ = 1 .. n - 1 /\ DOMAIN statusQ' = 1 .. n /\ n > 0
          /\ \A i \in 1 .. n - 1 : statusQ'[i] = statusQ[i]
          /\ statusQ'[n] = m
          /\ statusQ # <<>> => Head(statusQ') = Head(statusQ)
  <2>1. statusQ \in Seq(RP!Report)
    BY OwnTypes
  <2>2. \E n \in Nat :
            /\ DOMAIN statusQ = 1 .. n - 1 /\ DOMAIN Append(statusQ, m) = 1 .. n /\ n > 0
            /\ \A i \in 1 .. n - 1 : Append(statusQ, m)[i] = statusQ[i]
            /\ Append(statusQ, m)[n] = m
            /\ statusQ # <<>> => Head(Append(statusQ, m)) = Head(statusQ)
    BY <2>1, AppendIndices
  <2>3. QED
    BY <2>2
<1>3. /\ m.ride \in Ride /\ m.status \in RP!DriverStatus /\ Stage[m.status] \in 1 .. 4
      /\ m = [ride |-> m.ride, status |-> m.status]
  BY StageFacts DEF RP!Report
<1>4. /\ m.ride = r => latest'[r] = Stage[m.status] /\ latest[r] <= Stage[m.status]
      /\ m.ride # r => latest'[r] = latest[r]
  <2>1. latest' = [latest EXCEPT ![m.ride] = Stage[m.status]]
    BY DEF Publishes
  <2>2. m.ride = r => ~ (Stage[m.status] < latest[r])
    BY <1>0, <1>1, <1>3
  <2>3. latest[r] \in 0 .. 4
    BY <1>1
  <2>4. QED
    BY <1>1, <1>3, <2>1, <2>2, <2>3
<1>5. latest[r] \in 0 .. 4 /\ latest'[r] \in 0 .. 4 /\ Rank(status[r]) \in 0 .. 4
      /\ latest[r] <= latest'[r]
  BY <1>1, <1>3, <1>4, RankFacts
<1>6. \A i \in 1 .. n - 1 : statusQ[i].ride = r =>
          /\ Rank(status[r]) <= Stage[statusQ[i].status]
          /\ Stage[statusQ[i].status] <= latest[r]
          /\ Stage[statusQ[i].status] \in 1 .. 4
  <2>1. \A i \in 1 .. n - 1 : statusQ[i] \in RP!Report
    BY <1>2, OwnTypes
  <2>2. QED
    BY <1>1, <1>2, <2>1, StageFacts DEF Flow, RP!Report
<1>7. \A i \in 1 .. n : i = n \/ i \in 1 .. n - 1
  BY <1>2
<1>8. \A i \in 1 .. n : statusQ'[i].ride = r =>
          /\ Rank(status[r]) <= Stage[statusQ'[i].status]
          /\ Stage[statusQ'[i].status] <= latest'[r]
  <2>1. Rank(status[r]) <= latest[r]
    BY <1>1 DEF Flow
  <2>2. \A i \in 1 .. n - 1 : statusQ'[i].ride = r =>
            /\ Rank(status[r]) <= Stage[statusQ'[i].status]
            /\ Stage[statusQ'[i].status] <= latest'[r]
    BY <1>2, <1>5, <1>6
  <2>3. m.ride = r => Rank(status[r]) <= Stage[m.status] /\ Stage[m.status] <= latest'[r]
    BY <1>3, <1>4, <1>5, <2>1
  <2>4. QED
    BY <1>2, <1>7, <2>2, <2>3
<1>9. ASSUME NEW i \in 1 .. n, NEW j \in 1 .. n,
             i < j, statusQ'[i].ride = r, statusQ'[j].ride = r
      PROVE  Stage[statusQ'[i].status] <= Stage[statusQ'[j].status]
  <2>1. i \in 1 .. n - 1
    BY <1>9, <1>2
  <2>2. CASE j = n
    BY <1>2, <1>3, <1>4, <1>5, <1>6, <1>9, <2>1, <2>2
  <2>3. CASE j \in 1 .. n - 1
    BY <1>1, <1>2, <1>9, <2>1, <2>3 DEF Flow
  <2>4. QED
    BY <1>7, <2>2, <2>3
<1>10. ASSUME pc'["statuses"] \in {"committed", "loaded", "announced"}, Head(statusQ').ride = r
       PROVE  Rank(status'[r]) = Stage[Head(statusQ').status]
  <2>1. statusQ # <<>>
    BY <1>10 DEF OwnInv, RP!BaseInv, RP!TypeInv, RP!RoleInv
  <2>2. QED
    BY <1>1, <1>2, <1>10, <2>1 DEF Flow
<1>11. \A i \in 1 .. n - 1 : i \in 1 .. n /\ i < n
  BY <1>2
<1>12. ASSUME latest'[r] >= 3 PROVE Started(r)'
  <2>1. CASE latest[r] >= 3
    BY <1>1, <1>2, <1>11, <2>1 DEF Flow, Started
  <2>2. CASE ~ (latest[r] >= 3)
    <3>1. m.ride = r /\ Stage[m.status] = 3
      <4>1. m.ride = r
        BY <1>4, <1>12, <2>2
      <4>2. Stage[m.status] >= 3 /\ Stage[m.status] # 4
        BY <1>0, <1>3, <1>4, <1>12, <2>2, <4>1, StageFacts
      <4>3. QED
        BY <1>3, <4>1, <4>2
    <3>2. statusQ'[n] = [ride |-> r, status |-> "BUSY"]
      BY <1>2, <1>3, <3>1, StageFacts
    <3>3. QED
      BY <1>2, <3>2 DEF Started
  <2>3. QED
    BY <2>1, <2>2
<1>13. ASSUME latest'[r] = 4 PROVE Completing(r)'
  <2>1. CASE m.ride = r
    <3>1. m.status = "AVAILABLE" /\ statusQ'[n] = [ride |-> r, status |-> "AVAILABLE"]
      BY <1>2, <1>3, <1>4, <1>13, <2>1, StageFacts
    <3>2. Started(r)
      BY <1>0, <1>1, <2>1, <3>1 DEF Flow
    <3>3. n \in DOMAIN statusQ'
      BY <1>2
    <3>4. QED
      BY <1>2, <1>11, <3>1, <3>2, <3>3 DEF Started, Completing
  <2>2. CASE m.ride # r
    <3>1. Completing(r)
      BY <1>1, <1>4, <1>13, <2>2 DEF Flow
    <3>2. QED
      BY <1>2, <1>11, <3>1 DEF Completing
  <2>3. QED
    BY <2>1, <2>2
<1>14. Rank(status'[r]) <= latest'[r] /\ (latest'[r] > 0 => status'[r] # "NONE")
  BY <1>0, <1>1, <1>4, <1>5 DEF Flow
<1>15. QED
  BY <1>2, <1>8, <1>9, <1>10, <1>12, <1>13, <1>14 DEF Flow

\* Every step keeps the reports that are published in order in order.
LEMMA FlowStep == OwnInv /\ LinkInv /\ FlowInv /\ [Next]_vars => FlowInv'
<1> SUFFICES ASSUME OwnInv, LinkInv, FlowInv, [Next]_vars PROVE FlowInv'
  OBVIOUS
<1>1. [RP!Next]_(RP!vars)
  BY OwnStep
<1>2. latest' \in [Ride -> 0 .. 4]
  <2>1. ASSUME NEW m \in RP!Report, Publishes(m.ride, m.status) PROVE latest' \in [Ride -> 0 .. 4]
    BY <2>1, StageFacts DEF Publishes, FlowInv, RP!Report
  <2>2. QED
    BY <2>1, ReportMoves DEF FlowInv
<1>3. ASSUME NEW r \in Ride, r \notin disordered' PROVE Flow(r)'
  <2>1. CASE statusQ' = statusQ /\ UNCHANGED <<latest, disordered>>
    <3>1. CASE RP!CommitStatus /\ r = target["statuses"]
      BY <1>3, <2>1, <3>1, FlowCommitted
    <3>2. CASE ~ (RP!CommitStatus /\ r = target["statuses"])
      BY <1>1, <1>3, <2>1, <3>2, OtherMoves, FlowKept
    <3>3. QED
      BY <3>1, <3>2
  <2>2. CASE /\ statusQ # <<>> /\ statusQ' = Tail(statusQ)
             /\ UNCHANGED <<latest, disordered, status>> /\ pc'["statuses"] = "idle"
             /\ pc["statuses"] = "announced" \/ Useless(Head(statusQ))
    BY <1>3, <2>2, FlowTaken
  <2>3. ASSUME NEW m \in RP!Report, statusQ' = Append(statusQ, m),
               Publishes(m.ride, m.status), UNCHANGED <<status, pc>>
        PROVE  Flow(r)'
    BY <1>3, <2>3, FlowSent
  <2>4. QED
    BY <2>1, <2>2, <2>3, ReportMoves
<1>4. QED
  BY <1>2, <1>3 DEF FlowInv

\* At the start no report was published.
LEMMA FlowInit == Init => FlowInv
<1> SUFFICES ASSUME Init PROVE FlowInv
  OBVIOUS
<1>1. /\ latest = [r \in Ride |-> 0] /\ statusQ = <<>> /\ status = [r \in Ride |-> "NONE"]
      /\ pc = [t \in RP!Thread |-> "idle"] /\ "statuses" \in RP!Thread
  BY SameRideService DEF Init, RP!Init, RP!Thread, RP!Consumer
<1>2. DOMAIN statusQ = {} /\ pc["statuses"] = "idle"
  BY <1>1
<1>3. QED
  BY <1>1, <1>2, RankFacts DEF FlowInv, Flow

\* A completion that was reported in order is entered, or waits to be with the BUSY
\* that lets it be, whatever fails and whoever cancels.
THEOREM CompletionIsEnteredCorrect == Spec => []CompletionIsEntered
<1>1. OwnInv /\ FlowInv => CompletionIsEntered
  <2> SUFFICES ASSUME OwnInv, FlowInv, NEW r \in Ride, latest[r] = 4, r \notin disordered,
                      status[r] # "COMPLETED"
               PROVE  \E i \in DOMAIN statusQ :
                          /\ statusQ[i] = [ride |-> r, status |-> "AVAILABLE"]
                          /\ \/ status[r] = "IN_PROGRESS"
                             \/ \E j \in 1 .. i - 1 :
                                    statusQ[j] = [ride |-> r, status |-> "BUSY"]
    BY StageFacts DEF CompletionIsEntered, Stage
  <2>1. \A i, j \in DOMAIN statusQ : j < i => j \in 1 .. i - 1
    <3>1. statusQ \in Seq(RP!Report)
      BY OwnTypes
    <3>2. QED
      BY <3>1
  <2>2. QED
    BY <2>1 DEF FlowInv, Flow, Completing
<1>2. QED
  BY <1>1, FlowInit, FlowStep, LinkCorrect, PTL DEF Spec
=============================================================================
