------------------------- MODULE RideServiceProofs -------------------------
(***************************************************************************)
(* Proofs about RideService, for any sets of rides, drivers and calls and  *)
(* any bounds: its type invariant, and that nobody sets out for a ride that *)
(* no driver was matched to.                                               *)
(*                                                                         *)
(* They are proved in two layers: the types and which goroutine can be     *)
(* where (TypeInv), then, from those, which rides have a driver            *)
(* (DriverInv).                                                            *)
(***************************************************************************)
EXTENDS RideService, TLAPS

\* Which goroutine can be at which step: only cancelRide quotes, only timers
\* check, only consumers wait for an acknowledgement.  A consumer that is not
\* idle has a delivery, and one that writes a status has one to write.
RoleInv ==
    /\ \A t \in Thread :
        /\ pc[t] = "quoted" => t \in Canceller
        /\ pc[t] \in {"checking", "unmatched"} => t \in Ride
        /\ pc[t] = "decided" => t = "statuses"
        /\ pc[t] = "announced" => t \in Consumer
        /\ pc[t] \in {"quoted", "decided", "committed", "loaded"} => target[t] \in Ride
    /\ pc["responses"] # "idle" => responseQ # <<>>
    /\ pc["statuses"] # "idle" => statusQ # <<>>
    /\ pc["statuses"] = "decided" =>
          /\ target["statuses"] = Head(statusQ).ride
          /\ NewStatus(Head(statusQ).status, view["statuses"]) # "NONE"

TypeInv == TypeOK /\ RoleInv

\* A ride exists from its transaction on; it has a driver from its match on, and
\* without one it can only be started by BUSY; and a report of EN_ROUTE or ARRIVED,
\* or an announcement, is about a ride that has a driver.
Undriven == {"NONE", "REQUESTED", "CANCELLED", "IN_PROGRESS", "COMPLETED"}

Driven(m) == m.status \in {"EN_ROUTE", "ARRIVED"} => driver[m.ride] # NoDriver

DriverInv ==
    /\ \A r \in Ride :
        /\ creation[r] = "none" <=> status[r] = "NONE"
        /\ status[r] \in {"NONE", "REQUESTED"} => driver[r] = NoDriver
        /\ driver[r] = NoDriver => status[r] \in Undriven
    /\ \A i \in 1 .. Len(statusQ) : Driven(statusQ[i])
    /\ \A i \in 1 .. Len(matchedQ) : driver[matchedQ[i]] # NoDriver
    /\ \A t \in Thread :
        pc[t] = "loaded" /\ view[t] = "MATCHED" => driver[target[t]] # NoDriver
    /\ pc["statuses"] = "decided" => status[target["statuses"]] # "NONE"

-----------------------------------------------------------------------------
(* Queues and trails *)

\* What appending to a queue or a trail does.
LEMMA AppendFacts ==
    ASSUME NEW S, NEW q \in Seq(S), NEW e \in S
    PROVE  /\ Append(q, e) \in Seq(S)
           /\ Append(q, e) # <<>>
           /\ Len(q) \in Nat
           /\ Len(Append(q, e)) = Len(q) + 1
           /\ DOMAIN q = 1 .. Len(q)
           /\ DOMAIN Append(q, e) = 1 .. Len(q) + 1
           /\ \A i \in 1 .. Len(q) : Append(q, e)[i] = q[i]
           /\ Append(q, e)[Len(q) + 1] = e
OBVIOUS

\* A queue that is not empty keeps its head when it grows.
LEMMA HeadOfAppend ==
    ASSUME NEW S, NEW q \in Seq(S), NEW e \in S, q # <<>>
    PROVE  Head(Append(q, e)) = Head(q)
BY AppendFacts

\* What taking the head of a queue leaves.
LEMMA TailFacts ==
    ASSUME NEW S, NEW q \in Seq(S), q # <<>>
    PROVE  /\ Head(q) \in S
           /\ Head(q) = q[1]
           /\ 1 \in 1 .. Len(q)
           /\ Tail(q) \in Seq(S)
           /\ \A i \in 1 .. Len(Tail(q)) : i + 1 \in 1 .. Len(q) /\ Tail(q)[i] = q[i + 1]
OBVIOUS
-----------------------------------------------------------------------------
(* Type correctness *)

\* The local variables a goroutine leaves behind when its handler returns keep
\* their types, and its target stays the ride of its timer.
LEMMA LeaveType ==
    ASSUME TypeOK, NEW t \in Thread, NEW step \in ThreadStep, Leave(t, step)
    PROVE  /\ pc' = [pc EXCEPT ![t] = step]
           /\ pc' \in [Thread -> ThreadStep]
           /\ target' \in [Thread -> Ride \cup {NoRide}]
           /\ view' \in [Thread -> Status]
           /\ quote' \in [Thread -> {0, 80, 100}]
           /\ \A u \in Thread \ {t} : target'[u] = target[u] /\ view'[u] = view[u]
BY DEF TypeOK, Leave, Thread, Canceller, Consumer, ThreadStep, Status, RideStatus

\* At the start every variable has its type and no goroutine has begun.
LEMMA TypeInit == Init => TypeInv
<1> SUFFICES ASSUME Init PROVE TypeInv
  OBVIOUS
<1>1. TypeOK
  BY DriverAssumption DEF Init, TypeOK, Thread, Status, CreationStep, ThreadStep
<1>2. RoleInv
  BY DEF Init, RoleInv, Thread, Consumer
<1>3. QED
  BY <1>1, <1>2 DEF TypeInv

\* No step of CreateRide changes more than its ride and its timer.
LEMMA TypeCreate ==
    ASSUME TypeInv, NEW r \in Ride, CreateStep(r) \/ PublishRideRequestFails(r)
    PROVE  TypeInv'
<1> USE DEF TypeInv, TypeOK, RoleInv, db, local, queues, budgets
<1>1. CASE CreateRide(r)
  BY <1>1 DEF CreateRide, Change, Event, EventType, Status, RideStatus, CreationStep
<1>2. CASE PublishRideRequest(r)
  BY <1>2 DEF PublishRideRequest, CreationStep
<1>3. CASE StartMatchingTimeout(r)
  BY <1>3 DEF StartMatchingTimeout, CreationStep
<1>4. CASE PublishRideRequestFails(r)
  BY <1>4 DEF PublishRideRequestFails, CreationStep
<1>5. QED
  BY <1>1, <1>2, <1>3, <1>4 DEF CreateStep

\* The read that starts a cancellation is the canceller's.
LEMMA TypeRead ==
    ASSUME TypeInv, NEW t \in Canceller, NEW r \in Ride, ReadForRefund(t, r)
    PROVE  TypeInv'
<1>1. t \in Thread /\ t \notin Consumer
  BY RideAssumption DEF Thread, Canceller, Consumer
<1>2. CalculateRefund(status[r]) \in {0, 80, 100}
  BY DEF CalculateRefund
<1>3. TypeOK'
  BY <1>1, <1>2 DEF TypeInv, TypeOK, ReadForRefund, db, queues, budgets, ThreadStep
<1>4. RoleInv'
  BY <1>1 DEF TypeInv, TypeOK, RoleInv, ReadForRefund, db, queues, budgets, Thread, Consumer
<1>5. QED
  BY <1>3, <1>4 DEF TypeInv

\* The steps of a timer's goroutine.
LEMMA TypeTimer ==
    ASSUME TypeInv, NEW r \in Ride, TimerStep(r)
    PROVE  TypeInv'
<1>1. CASE MatchingTimeout(r)
  BY <1>1, RideAssumption
     DEF MatchingTimeout, TypeInv, TypeOK, RoleInv, db, local, queues, budgets,
         Thread, Canceller, Consumer, ThreadStep
<1>2. CASE CheckUnmatched(r)
  BY <1>2, RideAssumption
     DEF CheckUnmatched, TypeInv, TypeOK, RoleInv, db, local, queues, budgets,
         Thread, Canceller, Consumer, ThreadStep
<1>3. CASE TimeoutCancels(r)
  BY <1>3, TypeRead DEF TimeoutCancels, Canceller
<1>4. QED
  BY <1>1, <1>2, <1>3 DEF TimerStep

\* The steps that cancelRide, HandleDriverMatched and HandleDriverStatus share.
LEMMA TypeHandler ==
    ASSUME TypeInv, NEW t \in Thread,
           HandlerStep(t) \/ AnnounceUnpublished(t) \/ DatabaseCallFails(t) \/ AckLost(t)
    PROVE  TypeInv'
<1>1. CASE CommitCancel(t)
  <2>1. /\ pc[t] = "quoted" /\ t \in Canceller /\ t \notin Consumer /\ target[t] \in Ride
    BY <1>1, RideAssumption DEF CommitCancel, TypeInv, RoleInv, Canceller, Consumer
  <2>2. TypeOK'
    BY <1>1, <2>1
       DEF CommitCancel, TypeInv, TypeOK, Event, EventType, Status, RideStatus,
           local, queues, budgets, ThreadStep
  <2>3. RoleInv'
    BY <1>1, <2>1
       DEF CommitCancel, TypeInv, TypeOK, RoleInv, local, queues, budgets, Thread, Consumer
  <2>4. QED
    BY <2>2, <2>3 DEF TypeInv
<1>2. CASE RejectCancel(t)
  <2>1. /\ pc[t] = "quoted" /\ t \in Canceller /\ t \notin Consumer
    BY <1>2, RideAssumption DEF RejectCancel, TypeInv, RoleInv, Canceller, Consumer
  <2>2. Leave(t, "done") /\ TypeOK /\ "done" \in ThreadStep
    BY <1>2 DEF RejectCancel, TypeInv, ThreadStep
  <2>3. /\ pc' = [pc EXCEPT ![t] = "done"]
        /\ pc' \in [Thread -> ThreadStep]
        /\ target' \in [Thread -> Ride \cup {NoRide}]
        /\ view' \in [Thread -> Status]
        /\ quote' \in [Thread -> {0, 80, 100}]
        /\ \A u \in Thread \ {t} : target'[u] = target[u] /\ view'[u] = view[u]
    BY <2>2, LeaveType
  <2>4. TypeOK'
    BY <1>2, <2>2, <2>3 DEF RejectCancel, TypeOK, db, queues, budgets
  <2>5. RoleInv'
    BY <1>2, <2>1, <2>3
       DEF RejectCancel, TypeInv, RoleInv, TypeOK, queues, Thread, Consumer
  <2>6. QED
    BY <2>4, <2>5 DEF TypeInv
<1>3. CASE LoadUpdated(t)
  <2>1. target[t] \in Ride
    BY <1>3 DEF LoadUpdated, TypeInv, RoleInv
  <2>2. QED
    BY <1>3, <2>1
       DEF LoadUpdated, TypeInv, TypeOK, RoleInv, db, queues, budgets, ThreadStep
<1>4. CASE Announce(t) \/ AnnounceUnpublished(t)
  <2> DEFINE step == IF t \in Consumer THEN "announced" ELSE "done"
  <2>1. pc[t] = "loaded" /\ target[t] \in Ride /\ Leave(t, step) /\ step \in ThreadStep
    BY <1>4
       DEF Announce, AnnounceUnpublished, Finish, TypeInv, RoleInv, ThreadStep
  <2>2. /\ pc' = [pc EXCEPT ![t] = step]
        /\ pc' \in [Thread -> ThreadStep]
        /\ target' \in [Thread -> Ride \cup {NoRide}]
        /\ view' \in [Thread -> Status]
        /\ quote' \in [Thread -> {0, 80, 100}]
        /\ \A u \in Thread \ {t} : target'[u] = target[u] /\ view'[u] = view[u]
    BY <2>1, LeaveType
    DEF TypeInv
  <2>3. /\ timer' \in [Ride -> {"none", "running", "fired"}]
        /\ shown' \in [Ride -> Status]
    <3>1. timer' = timer \/ timer' = [timer EXCEPT ![target[t]] = "none"]
      BY <1>4 DEF Announce, AnnounceUnpublished, ClearMatchingTimeout
    <3>2. shown' = [shown EXCEPT ![target[t]] = view[t]] \/ shown' = shown
      BY <1>4 DEF Announce, AnnounceUnpublished
    <3>3. target[t] \in Ride /\ view[t] \in Status
      BY <2>1 DEF TypeInv, TypeOK
    <3>4. /\ timer \in [Ride -> {"none", "running", "fired"}]
          /\ shown \in [Ride -> Status]
      BY DEF TypeInv, TypeOK
    <3>5. QED
      BY <3>1, <3>2, <3>3, <3>4
  <2>4. matchedQ' \in Seq(Ride) /\ UNCHANGED <<responseQ, statusQ>>
    <3>1. matchedQ' = matchedQ \/ matchedQ' = Append(matchedQ, target[t])
      BY <1>4 DEF Announce, AnnounceUnpublished, ToDriverService, queues
    <3>2. UNCHANGED <<responseQ, statusQ>>
      BY <1>4 DEF Announce, AnnounceUnpublished, queues
    <3>3. target[t] \in Ride /\ matchedQ \in Seq(Ride)
      BY <2>1 DEF TypeInv, TypeOK
    <3>4. QED
      BY <3>1, <3>2, <3>3
  <2>5. UNCHANGED <<status, driver, trail, creation, accepts, reports>> /\ faults' \in Nat
    BY <1>4 DEF Announce, AnnounceUnpublished, TypeInv, TypeOK, db, budgets
  <2>6. TypeOK'
    BY <2>2, <2>3, <2>4, <2>5 DEF TypeInv, TypeOK
  <2>7. RoleInv'
    BY <2>1, <2>2, <2>4 DEF TypeInv, TypeOK, RoleInv, Thread, Consumer
  <2>8. QED
    BY <2>6, <2>7 DEF TypeInv
<1>5. CASE DatabaseCallFails(t)
  <2> DEFINE step == IF t \in Consumer THEN "idle" ELSE "done"
  <2>1. Leave(t, step) /\ step \in ThreadStep /\ TypeOK
    BY <1>5 DEF DatabaseCallFails, TypeInv, ThreadStep
  <2>2. /\ pc' = [pc EXCEPT ![t] = step]
        /\ pc' \in [Thread -> ThreadStep]
        /\ target' \in [Thread -> Ride \cup {NoRide}]
        /\ view' \in [Thread -> Status]
        /\ quote' \in [Thread -> {0, 80, 100}]
        /\ \A u \in Thread \ {t} : target'[u] = target[u] /\ view'[u] = view[u]
    BY <2>1, LeaveType
  <2>3. TypeOK'
    BY <1>5, <2>1, <2>2 DEF DatabaseCallFails, TypeOK, db, queues
  <2>4. RoleInv'
    BY <1>5, <2>1, <2>2
       DEF DatabaseCallFails, TypeInv, TypeOK, RoleInv, queues, Thread, Consumer
  <2>5. QED
    BY <2>3, <2>4 DEF TypeInv
<1>6. CASE AckLost(t)
  BY <1>6 DEF AckLost, TypeInv, TypeOK, RoleInv, db, local, queues, ThreadStep
<1>7. QED
  BY <1>1, <1>2, <1>3, <1>4, <1>5, <1>6 DEF HandlerStep

\* The steps of the two consumers, before and after the shared ones.
LEMMA TypeConsumer ==
    ASSUME TypeInv, ResponseStep \/ StatusStep
    PROVE  TypeInv'
<1>1. "responses" \in Thread /\ "statuses" \in Thread /\ "responses" # "statuses"
  BY DEF Thread, Consumer
<1>2. CASE CommitMatch
  <2> DEFINE m == Head(responseQ)
  <2>1. responseQ # <<>> /\ m \in Response
    BY <1>2 DEF CommitMatch, TypeInv, TypeOK
  <2>2. m.ride \in Ride /\ m.driver \in Driver
    BY <2>1 DEF Response
  <2>3. Change("DRIVER_MATCHED", "REQUESTED", "MATCHED") \in Event
    BY DEF Change, Event, EventType, Status, RideStatus
  <2>4. TypeOK'
    <3>1. /\ status' = [status EXCEPT ![m.ride] = "MATCHED"]
          /\ driver' = [driver EXCEPT ![m.ride] = m.driver]
          /\ trail' = [trail EXCEPT ![m.ride] =
                 Append(@, Change("DRIVER_MATCHED", "REQUESTED", "MATCHED"))]
          /\ target' = [target EXCEPT !["responses"] = m.ride]
          /\ pc' = [pc EXCEPT !["responses"] = "committed"]
      BY <1>2 DEF CommitMatch
    <3>2. /\ trail' \in [Ride -> Seq(Event)]
          /\ target' \in [Thread -> Ride \cup {NoRide}]
          /\ driver' \in [Ride -> Driver \cup {NoDriver}]
      BY <1>1, <2>2, <2>3, <3>1 DEF TypeInv, TypeOK
    <3>3. status' \in [Ride -> Status] /\ pc' \in [Thread -> ThreadStep]
      BY <1>1, <2>2, <3>1 DEF TypeInv, TypeOK, Status, RideStatus, ThreadStep
    <3>4. QED
      BY <1>2, <3>2, <3>3 DEF CommitMatch, TypeInv, TypeOK, queues, budgets
  <2>5. RoleInv'
    BY <1>1, <1>2, <2>1, <2>2
       DEF CommitMatch, TypeInv, TypeOK, RoleInv, queues, budgets
  <2>6. QED
    BY <2>4, <2>5 DEF TypeInv
<1>3. CASE DropResponse
  BY <1>3 DEF DropResponse, TypeInv, TypeOK, RoleInv, db, local, budgets
<1>4. CASE AckResponse
  <2>1. responseQ # <<>>
    BY <1>4 DEF AckResponse, TypeInv, RoleInv
  <2>2. TypeOK'
    BY <1>1, <1>4, <2>1 DEF AckResponse, TypeInv, TypeOK, db, local, budgets, ThreadStep
  <2>3. RoleInv'
    BY <1>1, <1>4, <2>1 DEF AckResponse, TypeInv, TypeOK, RoleInv, db, local, budgets
  <2>4. QED
    BY <2>2, <2>3 DEF TypeInv
<1>5. CASE ReadForStatus
  <2>1. Head(statusQ) \in Report /\ statusQ # <<>>
    BY <1>5 DEF ReadForStatus, TypeInv, TypeOK
  <2>2. Head(statusQ).ride \in Ride
    BY <2>1 DEF Report
  <2>3. TypeOK'
    BY <1>1, <1>5, <2>2
       DEF ReadForStatus, TypeInv, TypeOK, db, queues, budgets, ThreadStep
  <2>4. RoleInv'
    BY <1>1, <1>5, <2>1, <2>2
       DEF ReadForStatus, TypeInv, TypeOK, RoleInv, queues
  <2>5. QED
    BY <2>3, <2>4 DEF TypeInv
<1>6. CASE DropReport
  BY <1>6 DEF DropReport, TypeInv, TypeOK, RoleInv, db, local, budgets
<1>7. CASE CommitStatus
  <2> DEFINE r == target["statuses"]
             new == NewStatus(Head(statusQ).status, view["statuses"])
  <2>1. r \in Ride /\ status[r] \in Status
    BY <1>1, <1>7 DEF CommitStatus, TypeInv, TypeOK, RoleInv
  <2>2. new \in RideStatus
    <3>1. new # "NONE"
      BY <1>7 DEF CommitStatus, TypeInv, RoleInv
    <3>2. QED
      BY <3>1 DEF NewStatus, RideStatus
  <2>3. TypeOK'
    <3>1. /\ status' = [status EXCEPT ![r] = new]
          /\ trail' = [trail EXCEPT ![r] = Append(@, Change("STATUS_CHANGED", status[r], new))]
          /\ pc' = [pc EXCEPT !["statuses"] = "committed"]
      BY <1>7 DEF CommitStatus
    <3>2. Change("STATUS_CHANGED", status[r], new) \in Event
      BY <2>1, <2>2 DEF Change, Event, EventType
    <3>3. trail' \in [Ride -> Seq(Event)]
      BY <2>1, <3>1, <3>2 DEF TypeInv, TypeOK
    <3>4. status' \in [Ride -> Status] /\ pc' \in [Thread -> ThreadStep]
      BY <1>1, <2>1, <2>2, <3>1 DEF TypeInv, TypeOK, Status, ThreadStep
    <3>5. QED
      BY <1>7, <3>3, <3>4 DEF CommitStatus, TypeInv, TypeOK, local, queues, budgets
  <2>4. RoleInv'
    BY <1>1, <1>7, <2>1
       DEF CommitStatus, TypeInv, TypeOK, RoleInv, local, queues
  <2>5. QED
    BY <2>3, <2>4 DEF TypeInv
<1>8. CASE AckReport
  <2>1. statusQ # <<>>
    BY <1>8 DEF AckReport, TypeInv, RoleInv
  <2>2. TypeOK'
    BY <1>1, <1>8, <2>1 DEF AckReport, TypeInv, TypeOK, db, local, budgets, ThreadStep
  <2>3. RoleInv'
    BY <1>1, <1>8, <2>1 DEF AckReport, TypeInv, TypeOK, RoleInv, db, local, budgets
  <2>4. QED
    BY <2>2, <2>3 DEF TypeInv
<1>9. QED
  BY <1>2, <1>3, <1>4, <1>5, <1>6, <1>7, <1>8 DEF ResponseStep, StatusStep

\* The driver service only adds messages, a crash only takes goroutines away.
LEMMA TypeEnvironment ==
    ASSUME TypeInv,
           \/ DriverStep
           \/ HandleMatchedUnacknowledged
           \/ Crash
           \/ \E c \in Call, r \in Ride : PassengerCancels(c, r)
    PROVE  TypeInv'
<1>1. ASSUME NEW r \in Ride, NEW d \in Driver, AcceptOffer(r, d)
      PROVE  TypeInv'
  <2>1. [ride |-> r, driver |-> d] \in Response
    BY DEF Response
  <2>2. responseQ' = Append(responseQ, [ride |-> r, driver |-> d])
    BY <1>1 DEF AcceptOffer
  <2>3. responseQ' \in Seq(Response) /\ responseQ' # <<>>
    <3>1. responseQ \in Seq(Response)
      BY DEF TypeInv, TypeOK
    <3>2. \A e \in Response : Append(responseQ, e) \in Seq(Response) /\ Append(responseQ, e) # <<>>
      BY <3>1, AppendFacts
    <3>3. QED
      BY <2>1, <2>2, <3>2
  <2>4. TypeOK'
    BY <1>1, <2>3 DEF AcceptOffer, TypeInv, TypeOK, db, local
  <2>5. RoleInv'
    BY <1>1, <2>3 DEF AcceptOffer, TypeInv, RoleInv, local
  <2>6. QED
    BY <2>4, <2>5 DEF TypeInv
<1>2. CASE HandleMatched \/ HandleMatchedUnacknowledged
  <2>1. Head(matchedQ) \in Ride /\ matchedQ' \in Seq(Ride) /\ faults' \in Nat
    <3>1. matchedQ # <<>> /\ matchedQ \in Seq(Ride) /\ faults \in Nat
      BY <1>2 DEF HandleMatched, HandleMatchedUnacknowledged, TypeInv, TypeOK
    <3>2. Head(matchedQ) \in Ride /\ Tail(matchedQ) \in Seq(Ride)
      BY <3>1, TailFacts
    <3>3. matchedQ' = Tail(matchedQ) \/ matchedQ' = matchedQ
      BY <1>2 DEF HandleMatched, HandleMatchedUnacknowledged
    <3>4. faults' = faults \/ faults' = faults + 1
      BY <1>2 DEF HandleMatched, HandleMatchedUnacknowledged, budgets
    <3>5. QED
      BY <3>1, <3>2, <3>3, <3>4
  <2>2. [ride |-> Head(matchedQ), status |-> "EN_ROUTE"] \in Report
    BY <2>1 DEF Report, DriverStatus
  <2>3. statusQ' = Append(statusQ, [ride |-> Head(matchedQ), status |-> "EN_ROUTE"])
    BY <1>2 DEF HandleMatched, HandleMatchedUnacknowledged, SendEnRoute
  <2>4. /\ statusQ' \in Seq(Report) /\ statusQ' # <<>>
        /\ statusQ # <<>> => Head(statusQ') = Head(statusQ)
    BY <2>2, <2>3, AppendFacts, HeadOfAppend DEF TypeInv, TypeOK
  <2>5. /\ UNCHANGED <<db, creation, timer, pc, local, responseQ, shown>>
        /\ UNCHANGED <<accepts, reports>>
    BY <1>2 DEF HandleMatched, HandleMatchedUnacknowledged, budgets
  <2>6. QED
    BY <2>1, <2>4, <2>5 DEF TypeInv, TypeOK, RoleInv, db, local
<1>3. ASSUME NEW r \in Ride, NEW s \in DriverStatus, DriverReports(r, s)
      PROVE  TypeInv'
  <2>1. [ride |-> r, status |-> s] \in Report
    BY DEF Report
  <2>2. statusQ' = Append(statusQ, [ride |-> r, status |-> s])
    BY <1>3 DEF DriverReports
  <2>3. /\ statusQ' \in Seq(Report) /\ statusQ' # <<>>
        /\ statusQ # <<>> => Head(statusQ') = Head(statusQ)
    <3>1. statusQ \in Seq(Report)
      BY DEF TypeInv, TypeOK
    <3>2. \A e \in Report :
              /\ Append(statusQ, e) \in Seq(Report) /\ Append(statusQ, e) # <<>>
              /\ statusQ # <<>> => Head(Append(statusQ, e)) = Head(statusQ)
      BY <3>1, AppendFacts, HeadOfAppend
    <3>3. QED
      BY <2>1, <2>2, <3>2
  <2>4. TypeOK'
    BY <1>3, <2>3 DEF DriverReports, TypeInv, TypeOK, db, local
  <2>5. RoleInv'
    BY <1>3, <2>3 DEF DriverReports, TypeInv, RoleInv, local
  <2>6. QED
    BY <2>4, <2>5 DEF TypeInv
<1>4. CASE Crash
  <2>1. TypeOK'
    BY <1>4 DEF Crash, TypeInv, TypeOK, db, queues, CreationStep, ThreadStep, Status
  <2>2. RoleInv'
    BY <1>4 DEF Crash, TypeInv, TypeOK, RoleInv, Thread, Consumer
  <2>3. QED
    BY <2>1, <2>2 DEF TypeInv
<1>5. ASSUME NEW c \in Call, NEW r \in Ride, PassengerCancels(c, r)
      PROVE  TypeInv'
  BY <1>5, TypeRead DEF PassengerCancels, Canceller
<1>6. QED
  BY <1>1, <1>2, <1>3, <1>4, <1>5 DEF DriverStep

\* Every step of the service keeps every variable's type and every goroutine
\* where it can be.
LEMMA TypeStep == TypeInv /\ [Next]_vars => TypeInv'
<1> SUFFICES ASSUME TypeInv, [Next]_vars PROVE TypeInv'
  OBVIOUS
<1>1. CASE Next
  BY <1>1, TypeCreate, TypeTimer, TypeHandler, TypeConsumer, TypeEnvironment
     DEF Next, Fault
<1>2. CASE UNCHANGED vars
  BY <1>2 DEF vars, TypeInv, TypeOK, RoleInv
<1>3. QED
  BY <1>1, <1>2

\* The state of the ride service always has its type, and its goroutines are
\* where RoleInv says.
THEOREM TypeCorrect == Spec => []TypeInv
BY TypeInit, TypeStep, PTL DEF Spec

\* Every variable of the ride service keeps its type: status values, events,
\* local variables and messages are of the kinds the schema and the Go types
\* allow, whatever fails.
THEOREM TypeOKCorrect == Spec => []TypeOK
<1>1. TypeInv => TypeOK
  BY DEF TypeInv
<1>2. QED
  BY TypeCorrect, <1>1, PTL
-----------------------------------------------------------------------------
(* Rides that are driven to have a driver *)

\* At the start there is no ride and no message.
LEMMA DriverInit == Init => DriverInv
<1> SUFFICES ASSUME Init PROVE DriverInv
  OBVIOUS
<1>1. \A t \in Thread : pc[t] = "idle"
  BY DEF Init
<1>2. pc["statuses"] = "idle"
  BY <1>1 DEF Thread, Consumer
<1>3. /\ Len(statusQ) = 0 /\ Len(matchedQ) = 0
      /\ \A r \in Ride : creation[r] = "none" /\ status[r] = "NONE" /\ driver[r] = NoDriver
  BY DEF Init
<1>4. QED
  BY <1>1, <1>2, <1>3 DEF DriverInv, Undriven

\* Only CreateRide makes a ride exist, and a crash does not unmake it.
LEMMA DriverCreation ==
    ASSUME TypeInv, DriverInv,
           \/ \E r \in Ride : CreateStep(r) \/ PublishRideRequestFails(r)
           \/ Crash
    PROVE  DriverInv'
<1> USE DEF TypeInv, TypeOK, DriverInv, Undriven, Driven, db, local, queues
<1>1. ASSUME NEW r \in Ride, CreateRide(r) PROVE DriverInv'
  <2>1. /\ status' = [status EXCEPT ![r] = "REQUESTED"]
        /\ creation' = [creation EXCEPT ![r] = "stored"]
        /\ creation[r] = "none"
        /\ UNCHANGED <<driver, statusQ, matchedQ, pc, view, target>>
    BY <1>1 DEF CreateRide
  <2>2. QED
    BY <2>1
<1>2. ASSUME NEW r \in Ride,
             PublishRideRequest(r) \/ StartMatchingTimeout(r) \/ PublishRideRequestFails(r)
      PROVE  DriverInv'
  BY <1>2 DEF PublishRideRequest, StartMatchingTimeout, PublishRideRequestFails
<1>3. ASSUME Crash PROVE DriverInv'
  <2>1. \A r \in Ride : creation[r] = "none" <=> creation'[r] = "none"
    BY <1>3 DEF Crash
  <2>2. \A t \in Thread : view'[t] = "NONE"
    BY <1>3 DEF Crash
  <2>3. pc'["statuses"] # "decided"
    BY <1>3 DEF Crash, Thread, Consumer
  <2>4. QED
    BY <1>3, <2>1, <2>2, <2>3 DEF Crash
<1>4. QED
  BY <1>1, <1>2, <1>3 DEF CreateStep

\* Cancelling, matching and reporting keep a driver wherever one is needed: a
\* report is about the ride at the head of its queue.
LEMMA DriverCommit ==
    ASSUME TypeInv, DriverInv, NEW t \in Thread,
           CommitCancel(t) \/ CommitMatch \/ CommitStatus
    PROVE  DriverInv'
<1>1. CASE CommitCancel(t)
  <2>1. /\ target[t] \in Ride
        /\ status' = [status EXCEPT ![target[t]] = "CANCELLED"]
        /\ status[target[t]] \in Cancellable
        /\ pc' = [pc EXCEPT ![t] = "committed"]
        /\ UNCHANGED <<driver, creation, statusQ, matchedQ, view, target>>
    BY <1>1 DEF CommitCancel, TypeInv, RoleInv, local, queues
  <2>2. QED
    BY <2>1 DEF TypeInv, TypeOK, DriverInv, Undriven, Driven, Cancellable
<1>2. CASE CommitMatch
  <2> DEFINE m == Head(responseQ)
  <2>1. m \in Response
    <3>1. responseQ # <<>> /\ responseQ \in Seq(Response)
      BY <1>2 DEF CommitMatch, TypeInv, TypeOK
    <3>2. QED
      BY <3>1, TailFacts
  <2>2. m.ride \in Ride /\ m.driver # NoDriver
    BY <2>1, DriverAssumption DEF Response
  <2>3. /\ status[m.ride] = "REQUESTED"
        /\ status' = [status EXCEPT ![m.ride] = "MATCHED"]
        /\ driver' = [driver EXCEPT ![m.ride] = m.driver]
        /\ pc' = [pc EXCEPT !["responses"] = "committed"]
        /\ target' = [target EXCEPT !["responses"] = m.ride]
        /\ UNCHANGED <<creation, statusQ, matchedQ, view>>
    BY <1>2 DEF CommitMatch, queues
  <2>4. \A r \in Ride : driver[r] # NoDriver => driver'[r] # NoDriver
    BY <2>2, <2>3 DEF TypeInv, TypeOK
  <2>5. \A r \in Ride :
            /\ creation'[r] = "none" <=> status'[r] = "NONE"
            /\ status'[r] \in {"NONE", "REQUESTED"} => driver'[r] = NoDriver
            /\ driver'[r] = NoDriver => status'[r] \in Undriven
    BY <2>2, <2>3 DEF TypeInv, TypeOK, DriverInv
  <2>6. \A i \in 1 .. Len(statusQ') : Driven(statusQ[i])'
    <3>1. \A i \in 1 .. Len(statusQ) : statusQ[i] \in Report
      BY DEF TypeInv, TypeOK
    <3>2. QED
      BY <2>3, <2>4, <3>1 DEF DriverInv, Driven, Report
  <2>7. \A i \in 1 .. Len(matchedQ') : driver'[matchedQ'[i]] # NoDriver
    <3>1. \A i \in 1 .. Len(matchedQ) : matchedQ[i] \in Ride
      BY DEF TypeInv, TypeOK
    <3>2. QED
      BY <2>3, <2>4, <3>1 DEF DriverInv
  <2>8. ASSUME NEW u \in Thread, pc'[u] = "loaded", view'[u] = "MATCHED"
        PROVE  driver'[target'[u]] # NoDriver
    <3>1. u # "responses" /\ pc[u] = "loaded" /\ view[u] = "MATCHED" /\ target'[u] = target[u]
      BY <2>3, <2>8 DEF TypeInv, TypeOK
    <3>2. target[u] \in Ride /\ driver[target[u]] # NoDriver
      BY <3>1 DEF TypeInv, RoleInv, DriverInv
    <3>3. QED
      BY <2>4, <3>1, <3>2
  <2>9. pc'["statuses"] = "decided" => status'[target'["statuses"]] # "NONE"
    <3>1. /\ pc'["statuses"] = pc["statuses"] /\ target'["statuses"] = target["statuses"]
          /\ m.ride \in Ride /\ status \in [Ride -> Status]
      BY <2>2, <2>3 DEF TypeInv, TypeOK, Thread, Consumer
    <3>2. pc["statuses"] = "decided" => target["statuses"] \in Ride
      BY DEF TypeInv, RoleInv, Thread, Consumer
    <3>3. QED
      BY <2>3, <3>1, <3>2 DEF DriverInv
  <2>10. QED
    BY <2>5, <2>6, <2>7, <2>8, <2>9 DEF DriverInv
<1>3. CASE CommitStatus
  <2> DEFINE r == target["statuses"]
             new == NewStatus(Head(statusQ).status, view["statuses"])
  <2>1. /\ status' = [status EXCEPT ![r] = new]
        /\ pc' = [pc EXCEPT !["statuses"] = "committed"]
        /\ UNCHANGED <<driver, creation, statusQ, matchedQ, view, target>>
        /\ pc["statuses"] = "decided"
    BY <1>3 DEF CommitStatus, local, queues
  <2>2. r \in Ride /\ r = Head(statusQ).ride /\ statusQ # <<>> /\ new # "NONE"
    BY <2>1 DEF TypeInv, RoleInv, Thread, Consumer
  <2>3. new \in {"EN_ROUTE", "ARRIVED", "IN_PROGRESS", "COMPLETED"}
    BY <2>2 DEF NewStatus
  <2>4. driver[r] = NoDriver => new \in {"IN_PROGRESS", "COMPLETED"}
    <3>1. Head(statusQ) = statusQ[1] /\ 1 \in 1 .. Len(statusQ)
      BY <2>2, TailFacts DEF TypeInv, TypeOK
    <3>2. Driven(Head(statusQ))
      BY <3>1 DEF DriverInv
    <3>3. QED
      BY <2>2, <2>3, <3>2 DEF Driven, NewStatus
  <2>5. /\ status[r] # "NONE"
        /\ creation[r] # "none"
    BY <2>1, <2>2 DEF DriverInv
  <2>6. \A q \in Ride :
            /\ creation'[q] = "none" <=> status'[q] = "NONE"
            /\ status'[q] \in {"NONE", "REQUESTED"} => driver'[q] = NoDriver
            /\ driver'[q] = NoDriver => status'[q] \in Undriven
    BY <2>1, <2>2, <2>3, <2>4, <2>5 DEF TypeInv, TypeOK, DriverInv, Undriven
  <2>7. \A i \in 1 .. Len(statusQ') : Driven(statusQ[i])'
    BY <2>1 DEF DriverInv, Driven
  <2>8. \A u \in Thread : pc'[u] = "loaded" => pc[u] = "loaded"
    BY <2>1 DEF TypeInv, TypeOK
  <2>9. pc'["statuses"] # "decided"
    BY <2>1 DEF TypeInv, TypeOK, Thread, Consumer
  <2>10. QED
    BY <2>1, <2>6, <2>7, <2>8, <2>9 DEF DriverInv
<1>4. QED
  BY <1>1, <1>2, <1>3

\* The other steps of a handler read the ride, and announce to the driver
\* service no ride but a matched one.
LEMMA DriverHandler ==
    ASSUME TypeInv, DriverInv, NEW t \in Thread,
           \/ RejectCancel(t) \/ LoadUpdated(t) \/ Announce(t)
           \/ AnnounceUnpublished(t) \/ DatabaseCallFails(t) \/ AckLost(t)
    PROVE  DriverInv'
<1>1. CASE LoadUpdated(t)
  <2>1. /\ target[t] \in Ride
        /\ pc' = [pc EXCEPT ![t] = "loaded"]
        /\ view' = [view EXCEPT ![t] = status[target[t]]]
        /\ UNCHANGED <<status, driver, creation, statusQ, matchedQ, target>>
    BY <1>1 DEF LoadUpdated, TypeInv, RoleInv, db, queues
  <2>2. \A u \in Thread : pc'[u] = "loaded" /\ view'[u] = "MATCHED" => driver'[target'[u]] # NoDriver
    BY <2>1 DEF TypeInv, TypeOK, DriverInv, Undriven
  <2>3. pc'["statuses"] = "decided" => pc["statuses"] = "decided"
    BY <2>1 DEF TypeInv, TypeOK, Thread, Consumer
  <2>4. QED
    BY <2>1, <2>2, <2>3 DEF DriverInv, Driven
<1>2. CASE RejectCancel(t) \/ DatabaseCallFails(t) \/ AckLost(t)
  <2>1. PICK step \in {"idle", "done"} : pc' = [pc EXCEPT ![t] = step]
    BY <1>2 DEF RejectCancel, DatabaseCallFails, AckLost, Leave
  <2>2. /\ \A u \in Thread \ {t} : target'[u] = target[u] /\ view'[u] = view[u]
        /\ UNCHANGED <<status, driver, creation, statusQ, matchedQ>>
    <3>1. UNCHANGED <<status, driver, creation, statusQ, matchedQ>>
      BY <1>2 DEF RejectCancel, DatabaseCallFails, AckLost, db, queues
    <3>2. CASE AckLost(t)
      BY <3>1, <3>2 DEF AckLost, local
    <3>3. CASE RejectCancel(t) \/ DatabaseCallFails(t)
      BY <3>1, <3>3 DEF RejectCancel, DatabaseCallFails, Leave, TypeInv, TypeOK
    <3>4. QED
      BY <1>2, <3>2, <3>3
  <2>3. \A u \in Thread : pc'[u] \in {"loaded", "decided"} =>
            pc'[u] = pc[u] /\ target'[u] = target[u] /\ view'[u] = view[u]
    BY <2>1, <2>2 DEF TypeInv, TypeOK
  <2>4. QED
    BY <2>2, <2>3 DEF DriverInv, Driven, Thread, Consumer
<1>3. CASE Announce(t) \/ AnnounceUnpublished(t)
  <2>1. /\ pc[t] = "loaded" /\ target[t] \in Ride
        /\ UNCHANGED <<status, driver, creation, statusQ>>
    BY <1>3 DEF Announce, AnnounceUnpublished, TypeInv, RoleInv, db, queues
  <2>2. PICK step \in {"announced", "done"} : pc' = [pc EXCEPT ![t] = step]
    BY <1>3 DEF Announce, AnnounceUnpublished, Finish, Leave
  <2>3. \A u \in Thread \ {t} : target'[u] = target[u] /\ view'[u] = view[u]
    BY <1>3 DEF Announce, AnnounceUnpublished, Finish, Leave, TypeInv, TypeOK
  <2>4. \A u \in Thread : pc'[u] \in {"loaded", "decided"} =>
            pc'[u] = pc[u] /\ target'[u] = target[u] /\ view'[u] = view[u]
    BY <2>2, <2>3 DEF TypeInv, TypeOK
  <2>5. \A i \in 1 .. Len(matchedQ') : driver[matchedQ'[i]] # NoDriver
    <3>1. \/ matchedQ' = matchedQ
          \/ view[t] = "MATCHED" /\ matchedQ' = Append(matchedQ, target[t])
      BY <1>3 DEF Announce, AnnounceUnpublished, ToDriverService, queues
    <3>2. CASE matchedQ' = matchedQ
      BY <3>2 DEF DriverInv
    <3>3. CASE view[t] = "MATCHED" /\ matchedQ' = Append(matchedQ, target[t])
      <4>1. driver[target[t]] # NoDriver
        BY <2>1, <3>3 DEF DriverInv
      <4>2. matchedQ \in Seq(Ride)
        BY DEF TypeInv, TypeOK
      <4>3. /\ Len(matchedQ') = Len(matchedQ) + 1 /\ Len(matchedQ) \in Nat
            /\ \A i \in 1 .. Len(matchedQ) : matchedQ'[i] = matchedQ[i]
            /\ matchedQ'[Len(matchedQ) + 1] = target[t]
        BY <2>1, <3>3, <4>2, AppendFacts
      <4>4. QED
        BY <4>1, <4>3 DEF DriverInv
    <3>4. QED
      BY <3>1, <3>2, <3>3
  <2>6. QED
    BY <2>1, <2>4, <2>5 DEF DriverInv, Driven, Thread, Consumer
<1>4. QED
  BY <1>1, <1>2, <1>3

\* A step that begins a handler's work, or takes a delivery off its queue.
LEMMA DriverBegin ==
    ASSUME TypeInv, DriverInv,
           \/ \E r \in Ride : TimerStep(r)
           \/ \E c \in Call, r \in Ride : PassengerCancels(c, r)
           \/ DropResponse \/ AckResponse \/ ReadForStatus \/ DropReport \/ AckReport
    PROVE  DriverInv'
<1>1. UNCHANGED <<status, driver, creation, matchedQ>>
  BY DEF TimerStep, MatchingTimeout, CheckUnmatched, TimeoutCancels, PassengerCancels,
         ReadForRefund, DropResponse, AckResponse, ReadForStatus, DropReport, AckReport,
         db, queues
<1>2. statusQ' = statusQ \/ (statusQ # <<>> /\ statusQ' = Tail(statusQ))
  <2>1. AckReport => statusQ # <<>>
    BY DEF AckReport, TypeInv, RoleInv
  <2>2. QED
    BY <2>1
       DEF TimerStep, MatchingTimeout, CheckUnmatched, TimeoutCancels, PassengerCancels,
           ReadForRefund, DropResponse, AckResponse, ReadForStatus, DropReport, AckReport,
           queues
<1> DEFINE Kept == \A t \in Thread : pc'[t] = "loaded" =>
              pc[t] = "loaded" /\ target'[t] = target[t] /\ view'[t] = view[t]
<1>3. Kept
  <2>1. ASSUME NEW r \in Ride, NEW t \in Canceller, ReadForRefund(t, r)
        PROVE  Kept
    BY <2>1 DEF ReadForRefund, TypeInv, TypeOK, Thread
  <2>2. ASSUME NEW r \in Ride, TimerStep(r) PROVE Kept
    BY <2>1, <2>2
       DEF TimerStep, MatchingTimeout, CheckUnmatched, TimeoutCancels, local, Canceller,
           TypeInv, TypeOK, Thread
  <2>3. ASSUME NEW c \in Call, NEW r \in Ride, PassengerCancels(c, r) PROVE Kept
    BY <2>1, <2>3 DEF PassengerCancels, Canceller
  <2>4. CASE DropResponse \/ AckResponse \/ DropReport \/ AckReport
    BY <2>4 DEF DropResponse, AckResponse, DropReport, AckReport, local, TypeInv, TypeOK
  <2>5. CASE ReadForStatus
    BY <2>5 DEF ReadForStatus, TypeInv, TypeOK
  <2>6. QED
    BY <2>2, <2>3, <2>4, <2>5
<1>4. \A i \in 1 .. Len(statusQ') : Driven(statusQ'[i])
  <2>1. statusQ \in Seq(Report)
    BY DEF TypeInv, TypeOK
  <2>2. QED
    BY <1>2, <2>1, TailFacts DEF DriverInv
<1>5. pc'["statuses"] = "decided" => status[target'["statuses"]] # "NONE"
  <2>1. CASE ReadForStatus
    BY <2>1 DEF ReadForStatus, TypeInv, TypeOK, Thread, Consumer
  <2>2. CASE pc'["statuses"] = pc["statuses"] /\ target'["statuses"] = target["statuses"]
    BY <2>2 DEF DriverInv
  <2>3. CASE pc'["statuses"] # "decided"
    BY <2>3
  <2>4. \/ ReadForStatus \/ pc'["statuses"] # "decided"
        \/ pc'["statuses"] = pc["statuses"] /\ target'["statuses"] = target["statuses"]
    BY RideAssumption
       DEF TimerStep, MatchingTimeout, CheckUnmatched, TimeoutCancels, PassengerCancels,
           ReadForRefund, DropResponse, AckResponse, DropReport, AckReport,
           TypeInv, TypeOK, local, Thread, Consumer, Canceller
  <2>5. QED
    BY <2>1, <2>2, <2>3, <2>4
<1>6. QED
  BY <1>1, <1>3, <1>4, <1>5 DEF DriverInv, Driven

\* The driver service reports on rides it was told of, or that are assigned.
LEMMA DriverMessages ==
    ASSUME TypeInv, DriverInv, DriverStep \/ HandleMatchedUnacknowledged
    PROVE  DriverInv'
<1>1. UNCHANGED <<status, driver, creation, pc, view, target>>
  BY DEF DriverStep, AcceptOffer, HandleMatched, HandleMatchedUnacknowledged,
         DriverReports, db, local
<1>2. matchedQ' = matchedQ \/ (matchedQ # <<>> /\ matchedQ' = Tail(matchedQ))
  BY DEF DriverStep, AcceptOffer, HandleMatched, HandleMatchedUnacknowledged, DriverReports
<1>3. \A i \in 1 .. Len(matchedQ') : driver[matchedQ'[i]] # NoDriver
  <2>1. matchedQ \in Seq(Ride)
    BY DEF TypeInv, TypeOK
  <2>2. QED
    BY <1>2, <2>1, TailFacts DEF DriverInv
<1>4. \/ statusQ' = statusQ
      \/ \E m \in Report : Driven(m) /\ statusQ' = Append(statusQ, m)
  <2>1. ASSUME NEW r \in Ride, NEW s \in DriverStatus \ {"EN_ROUTE"}, DriverReports(r, s)
        PROVE  \E m \in Report : Driven(m) /\ statusQ' = Append(statusQ, m)
    <3>1. [ride |-> r, status |-> s] \in Report /\ Driven([ride |-> r, status |-> s])
      BY <2>1 DEF DriverReports, Report, Driven, DriverStatus
    <3>2. statusQ' = Append(statusQ, [ride |-> r, status |-> s])
      BY <2>1 DEF DriverReports
    <3>3. QED
      BY <3>1, <3>2
  <2>2. CASE HandleMatched \/ HandleMatchedUnacknowledged
    <3>1. matchedQ # <<>> /\ matchedQ \in Seq(Ride)
      BY <2>2 DEF HandleMatched, HandleMatchedUnacknowledged, TypeInv, TypeOK
    <3>2. Head(matchedQ) \in Ride /\ driver[Head(matchedQ)] # NoDriver
      BY <3>1, TailFacts DEF DriverInv
    <3>3. [ride |-> Head(matchedQ), status |-> "EN_ROUTE"] \in Report
      BY <3>2 DEF Report, DriverStatus
    <3>4. statusQ' = Append(statusQ, [ride |-> Head(matchedQ), status |-> "EN_ROUTE"])
      BY <2>2 DEF HandleMatched, HandleMatchedUnacknowledged, SendEnRoute
    <3>5. QED
      BY <3>2, <3>3, <3>4 DEF Driven
  <2>3. ASSUME NEW r \in Ride, NEW d \in Driver, AcceptOffer(r, d) PROVE statusQ' = statusQ
    BY <2>3 DEF AcceptOffer
  <2>4. QED
    BY <2>1, <2>2, <2>3 DEF DriverStep
<1>5. \A i \in 1 .. Len(statusQ') : Driven(statusQ'[i])
  <2>1. statusQ \in Seq(Report)
    BY DEF TypeInv, TypeOK
  <2>2. CASE statusQ' = statusQ
    BY <2>2 DEF DriverInv
  <2>3. ASSUME NEW m \in Report, Driven(m), statusQ' = Append(statusQ, m)
        PROVE  \A i \in 1 .. Len(statusQ') : Driven(statusQ'[i])
    <3>1. /\ Len(statusQ') = Len(statusQ) + 1 /\ Len(statusQ) \in Nat
          /\ \A i \in 1 .. Len(statusQ) : statusQ'[i] = statusQ[i]
          /\ statusQ'[Len(statusQ) + 1] = m
      BY <2>1, <2>3, AppendFacts
    <3>2. QED
      BY <2>3, <3>1 DEF DriverInv
  <2>4. QED
    BY <1>4, <2>2, <2>3
<1>6. QED
  BY <1>1, <1>3, <1>5 DEF DriverInv, Driven

\* Every step keeps the drivers of rides.
LEMMA DriverInvStep == TypeInv /\ DriverInv /\ [Next]_vars => DriverInv'
<1> SUFFICES ASSUME TypeInv, DriverInv, [Next]_vars PROVE DriverInv'
  OBVIOUS
<1>1. CASE Next
  BY <1>1, DriverCreation, DriverCommit, DriverHandler, DriverBegin, DriverMessages
     DEF Next, Fault, HandlerStep, ResponseStep, StatusStep, Thread, Consumer
<1>2. CASE UNCHANGED vars
  BY <1>2 DEF vars, DriverInv, Driven
<1>3. QED
  BY <1>1, <1>2

\* A ride without a driver stays where Undriven says, and so does everything that is
\* on its way to it in the queues and in the goroutines.
THEOREM DriverCorrect == Spec => []DriverInv
BY DriverInvStep, DriverInit, TypeCorrect, PTL DEF Spec

\* Nobody sets out for a ride without a driver, or arrives at one, whatever order the
\* match, the cancellations and the reports come in, and whichever rides BUSY and
\* AVAILABLE name.
THEOREM SettingOutHasDriverCorrect == Spec => []SettingOutHasDriver
<1>1. DriverInv => SettingOutHasDriver
  BY DEF DriverInv, Undriven, SettingOutHasDriver
<1>2. QED
  BY DriverCorrect, <1>1, PTL
=============================================================================
