-------------------------- MODULE RideTrailProofs --------------------------
(***************************************************************************)
(* More proofs about RideService, for any constants: what the audit trail  *)
(* of a ride can hold, and that the service implements RideLifecycle.      *)
(*                                                                         *)
(* The argument goes through what goroutines have read.  ReadInv says how  *)
(* stale that can be; from it every step either leaves the rides alone or  *)
(* adds one legal row to the trail of one ride (Entries), and the          *)
(* properties of the trail follow from the rows alone.                     *)
(***************************************************************************)
EXTENDS RideServiceProofs

\* A row of ride_events that some operation of RideLifecycle accounts for.
Legal(e) ==
    /\ e.type = "RIDE_REQUESTED" => e.old = "NONE" /\ e.new = "REQUESTED"
    /\ e.type = "DRIVER_MATCHED" => e.old = "REQUESTED" /\ e.new = "MATCHED"
    /\ e.type = "RIDE_CANCELLED" =>
          /\ e.old \in Cancellable /\ e.new = "CANCELLED"
          /\ e.refund >= CalculateRefund(e.old)
    /\ e.type = "STATUS_CHANGED" =>
          /\ e.old \notin {"NONE", e.new}
          /\ e.old = "REQUESTED" => e.new = "IN_PROGRESS"
          /\ e.new \in {"EN_ROUTE", "ARRIVED", "IN_PROGRESS", "COMPLETED"}
          /\ e.new = "COMPLETED" => e.old = "IN_PROGRESS"

\* A step that adds the row e to the trail of r, and nothing else to any trail.
Enters(r, e) ==
    /\ Legal(e)
    /\ e.old = status[r]
    /\ status' = [status EXCEPT ![r] = e.new]
    /\ trail' = [trail EXCEPT ![r] = Append(@, e)]

\* How stale a read can be.  A canceller holds the refund of the status it has
\* read, and since then the ride has not come closer to its beginning.  The
\* consumer of driver_status is the only writer of a ride that is under way, so
\* that only a match and a cancellation can have come between its read and its
\* write; and nothing but BUSY is entered for a ride still REQUESTED.
QuotedInv(t) ==
    pc[t] = "quoted" =>
        /\ status[target[t]] # "NONE"
        /\ quote[t] = CalculateRefund(view[t])
        /\ view[t] \notin Cancellable => status[target[t]] \notin Cancellable
        /\ view[t] = "MATCHED" => status[target[t]] # "REQUESTED"

WrittenInv(t) ==
    pc[t] \in {"committed", "loaded"} => status[target[t]] \notin {"NONE", "REQUESTED"}

DecidedInv ==
    LET r == target["statuses"]
        seen == view["statuses"]
    IN  pc["statuses"] = "decided" =>
            /\ seen # "NONE"
            /\ NewStatus(Head(statusQ).status, seen) # seen
            /\ seen = "REQUESTED" => Head(statusQ).status = "BUSY"
            /\ status[r] # seen => seen \in Cancellable /\ status[r] \in {"MATCHED", "CANCELLED"}

ReadInv ==
    /\ \A r \in Ride : target[r] = r
    /\ \A t \in Thread : QuotedInv(t) /\ WrittenInv(t)
    /\ DecidedInv

\* What the service knows of its goroutines and rides at every step.
BaseInv == TypeInv /\ DriverInv /\ ReadInv

LegalTrail == \A r \in Ride : \A i \in DOMAIN trail[r] : Legal(trail[r][i])

\* What is in the trail of a ride that still can be matched or cancelled.
PhaseInv ==
    \A r \in Ride : \A i \in DOMAIN trail[r] :
        /\ status[r] = "REQUESTED" => trail[r][i].type = "RIDE_REQUESTED"
        /\ status[r] = "MATCHED" => trail[r][i].type \in {"RIDE_REQUESTED", "DRIVER_MATCHED"}

TrailInv == TrailExplainsStatus /\ LegalTrail /\ PhaseInv /\ SettledOnce

\* What a handler is about to show the passenger is in the trail.
LoadedInv ==
    \A t \in Thread : pc[t] = "loaded" =>
        \E i \in DOMAIN trail[target[t]] : trail[target[t]][i].new = view[t]
-----------------------------------------------------------------------------
(* The rows the transactions enter *)

\* No step but the four transactions writes to the database.
LEMMA OnlyTransactions ==
    ASSUME [Next]_vars
    PROVE  \/ UNCHANGED <<status, driver, trail>>
           \/ \E r \in Ride : CreateRide(r)
           \/ \E t \in Thread : CommitCancel(t)
           \/ CommitMatch
           \/ CommitStatus
<1>1. CASE UNCHANGED vars
  BY <1>1 DEF vars
<1>2. ASSUME NEW r \in Ride, TimerStep(r) PROVE UNCHANGED <<status, driver, trail>>
  BY <1>2 DEF TimerStep, MatchingTimeout, CheckUnmatched, TimeoutCancels, ReadForRefund, db
<1>3. ASSUME NEW c \in Call, NEW r \in Ride, PassengerCancels(c, r)
      PROVE  UNCHANGED <<status, driver, trail>>
  BY <1>3 DEF PassengerCancels, ReadForRefund, db
<1>4. CASE DriverStep
  BY <1>4 DEF DriverStep, AcceptOffer, HandleMatched, DriverReports, db
<1>5. CASE Fault
  BY <1>5
     DEF Fault, PublishRideRequestFails, AnnounceUnpublished, DatabaseCallFails, AckLost,
         Crash, HandleMatchedUnacknowledged, db
<1>6. CASE ResponseStep \/ StatusStep
  BY <1>6
     DEF ResponseStep, DropResponse, AckResponse, StatusStep, ReadForStatus, DropReport,
         AckReport, db
<1>7. ASSUME NEW t \in Thread, HandlerStep(t)
      PROVE  CommitCancel(t) \/ UNCHANGED <<status, driver, trail>>
  BY <1>7 DEF HandlerStep, RejectCancel, LoadUpdated, Announce, db
<1>8. ASSUME NEW r \in Ride, CreateStep(r)
      PROVE  CreateRide(r) \/ UNCHANGED <<status, driver, trail>>
  BY <1>8 DEF CreateStep, PublishRideRequest, StartMatchingTimeout, db
<1>9. QED
  BY <1>1, <1>2, <1>3, <1>4, <1>5, <1>6, <1>7, <1>8 DEF Next

\* CreateRide enters the first row of its ride.
LEMMA CreationEnters ==
    ASSUME BaseInv, NEW r \in Ride, CreateRide(r)
    PROVE  /\ status[r] = "NONE"
           /\ Change("RIDE_REQUESTED", "NONE", "REQUESTED") \in Event
           /\ Enters(r, Change("RIDE_REQUESTED", "NONE", "REQUESTED"))
<1>1. status[r] = "NONE"
  BY DEF CreateRide, BaseInv, DriverInv
<1>2. QED
  BY <1>1 DEF CreateRide, Change, Event, EventType, Status, RideStatus, Enters, Legal

\* The refund entered is that of an earlier status of the ride, which never
\* entitled to less.
LEMMA CancelEnters ==
    ASSUME BaseInv, NEW t \in Thread, CommitCancel(t)
    PROVE  LET r == target[t]
               row == [type |-> "RIDE_CANCELLED", old |-> status[r],
                       new |-> "CANCELLED", refund |-> quote[t]]
           IN  r \in Ride /\ row \in Event /\ Enters(r, row)
<1> DEFINE r == target[t]
           row == [type |-> "RIDE_CANCELLED", old |-> status[r],
                   new |-> "CANCELLED", refund |-> quote[t]]
<1>1. /\ pc[t] = "quoted" /\ status[r] \in Cancellable
      /\ status' = [status EXCEPT ![r] = "CANCELLED"]
      /\ trail' = [trail EXCEPT ![r] = Append(@, row)]
  BY DEF CommitCancel
<1>2. r \in Ride /\ quote[t] \in {0, 80, 100}
  BY <1>1 DEF BaseInv, TypeInv, TypeOK, RoleInv
<1>3. QuotedInv(t)
  BY DEF BaseInv, ReadInv
<1>4. quote[t] >= CalculateRefund(status[r])
  <2>1. view[t] \in Cancellable /\ quote[t] = CalculateRefund(view[t])
    BY <1>1, <1>3 DEF QuotedInv
  <2>2. view[t] = "MATCHED" => status[r] = "MATCHED"
    BY <1>1, <1>3 DEF QuotedInv, Cancellable
  <2>3. QED
    BY <1>1, <2>1, <2>2 DEF Cancellable, CalculateRefund
<1>5. row \in Event
  BY <1>1, <1>2 DEF Event, EventType, Status, RideStatus, Cancellable
<1>6. Enters(r, row)
  BY <1>1, <1>4 DEF Enters, Legal
<1>7. QED
  BY <1>2, <1>5, <1>6

\* A match is entered for a ride that waits for one.
LEMMA MatchEnters ==
    ASSUME BaseInv, CommitMatch
    PROVE  /\ Head(responseQ) \in Response
           /\ Head(responseQ).ride \in Ride /\ Head(responseQ).driver \in Driver
           /\ status[Head(responseQ).ride] = "REQUESTED"
           /\ Change("DRIVER_MATCHED", "REQUESTED", "MATCHED") \in Event
           /\ Enters(Head(responseQ).ride, Change("DRIVER_MATCHED", "REQUESTED", "MATCHED"))
<1>1. responseQ # <<>> /\ responseQ \in Seq(Response)
  BY DEF CommitMatch, BaseInv, TypeInv, TypeOK
<1>2. Head(responseQ) \in Response
  BY <1>1, TailFacts
<1>3. Head(responseQ).ride \in Ride /\ Head(responseQ).driver \in Driver
  BY <1>2 DEF Response
<1>4. status[Head(responseQ).ride] = "REQUESTED"
  BY DEF CommitMatch
<1>5. QED
  BY <1>2, <1>3, <1>4
     DEF CommitMatch, Change, Event, EventType, Status, RideStatus, Enters, Legal

\* A report is entered for a ride as it was read, or matched or cancelled since.
LEMMA StatusEnters ==
    ASSUME BaseInv, CommitStatus
    PROVE  LET r == target["statuses"]
               row == Change("STATUS_CHANGED", status[r],
                             NewStatus(Head(statusQ).status, view["statuses"]))
           IN  /\ r \in Ride /\ row \in Event /\ Enters(r, row)
               /\ pc["statuses"] = "decided"
<1> DEFINE r == target["statuses"]
           new == NewStatus(Head(statusQ).status, view["statuses"])
           row == Change("STATUS_CHANGED", status[r], new)
<1>1. /\ pc["statuses"] = "decided"
      /\ status' = [status EXCEPT ![r] = new]
      /\ trail' = [trail EXCEPT ![r] = Append(@, row)]
  BY DEF CommitStatus
<1>2. /\ r \in Ride /\ r = Head(statusQ).ride /\ statusQ # <<>> /\ new # "NONE"
      /\ status[r] \in Status
  BY <1>1 DEF BaseInv, TypeInv, TypeOK, RoleInv, Thread, Consumer
<1>3. DecidedInv
  BY DEF BaseInv, ReadInv
<1>4. new \in {"EN_ROUTE", "ARRIVED", "IN_PROGRESS", "COMPLETED"}
  BY <1>2 DEF NewStatus
<1>5. /\ status[r] \notin {"NONE", new}
      /\ status[r] = "REQUESTED" => new = "IN_PROGRESS"
      /\ new = "COMPLETED" => status[r] = "IN_PROGRESS"
  <2>1. /\ view["statuses"] \notin {"NONE", new}
        /\ view["statuses"] = "REQUESTED" => Head(statusQ).status = "BUSY"
        /\ status[r] # view["statuses"] =>
               view["statuses"] \in Cancellable /\ status[r] \in {"MATCHED", "CANCELLED"}
    BY <1>1, <1>3 DEF DecidedInv
  <2>2. /\ new = "COMPLETED" => view["statuses"] = "IN_PROGRESS"
        /\ Head(statusQ).status = "BUSY" => new = "IN_PROGRESS"
    BY DEF NewStatus
  <2>3. QED
    BY <1>4, <2>1, <2>2 DEF Cancellable
<1>6. row \in Event
  BY <1>2, <1>4 DEF Change, Event, EventType, RideStatus
<1>7. Enters(r, row)
  BY <1>1, <1>4, <1>5 DEF Enters, Legal, Change
<1>8. QED
  BY <1>1, <1>2, <1>6, <1>7

\* Every step leaves all rides alone or enters one legal row for one of them.
LEMMA Entries ==
    ASSUME BaseInv, [Next]_vars
    PROVE  \/ UNCHANGED <<status, trail>>
           \/ \E r \in Ride, e \in Event : Enters(r, e)
<1> DEFINE Entry == \E r \in Ride, e \in Event : Enters(r, e)
<1>1. ASSUME NEW r \in Ride, CreateRide(r) PROVE Entry
  BY <1>1, CreationEnters
<1>2. ASSUME NEW t \in Thread, CommitCancel(t) PROVE Entry
  BY <1>2, CancelEnters
<1>3. CASE CommitMatch
  BY <1>3, MatchEnters
<1>4. CASE CommitStatus
  BY <1>4, StatusEnters
<1>5. CASE UNCHANGED <<status, driver, trail>>
  BY <1>5
<1>6. CASE \E r \in Ride : CreateRide(r)
  BY <1>1, <1>6
<1>7. CASE \E t \in Thread : CommitCancel(t)
  BY <1>2, <1>7
<1>8. UNCHANGED <<status, trail>> \/ Entry
  BY <1>3, <1>4, <1>5, <1>6, <1>7, OnlyTransactions
<1>9. QED
  BY <1>8
-----------------------------------------------------------------------------
(* What a goroutine has read *)

\* Where a step can leave a goroutine: untouched, with nothing it relies on, or
\* just behind one of the steps that read or write.
Kept(t) == pc'[t] = pc[t] /\ target'[t] = target[t] /\ view'[t] = view[t] /\ quote'[t] = quote[t]

Moves(t) ==
    \/ Kept(t)
    \/ pc'[t] \notin {"quoted", "decided", "committed", "loaded"}
    \/ \E r \in Ride : ReadForRefund(t, r)
    \/ t = "statuses" /\ ReadForStatus
    \/ CommitCancel(t)
    \/ t = "responses" /\ CommitMatch
    \/ t = "statuses" /\ CommitStatus
    \/ LoadUpdated(t)

\* A goroutine that returns leaves the others as they are.
LEMMA LeaveMoves ==
    ASSUME TypeInv, NEW t \in Thread, NEW u \in Thread,
           NEW step \in {"idle", "done", "announced"}, Leave(u, step)
    PROVE  Kept(t) \/ pc'[t] \notin {"quoted", "decided", "committed", "loaded"}
<1>1. /\ pc \in [Thread -> ThreadStep]
      /\ target \in [Thread -> Ride \cup {NoRide}]
      /\ view \in [Thread -> Status]
      /\ quote \in [Thread -> {0, 80, 100}]
  BY DEF TypeInv, TypeOK
<1>2. QED
  BY <1>1 DEF Leave, Kept

\* No other step brings a goroutine to where it relies on what it has read.
LEMMA ThreadMoves ==
    ASSUME TypeInv, [Next]_vars, NEW t \in Thread
    PROVE  Moves(t)
<1> DEFINE Same == UNCHANGED <<pc, target, view, quote>>
<1>0. /\ pc \in [Thread -> ThreadStep]
      /\ target \in [Thread -> Ride \cup {NoRide}]
      /\ view \in [Thread -> Status]
      /\ quote \in [Thread -> {0, 80, 100}]
      /\ "responses" \in Thread /\ "statuses" \in Thread
  BY DEF TypeInv, TypeOK, Thread, Consumer
<1>1. Same => Moves(t)
  BY DEF Moves, Kept
<1>2. ASSUME NEW r \in Ride, CreateStep(r) \/ PublishRideRequestFails(r) PROVE Moves(t)
  BY <1>1, <1>2
     DEF CreateStep, CreateRide, PublishRideRequest, StartMatchingTimeout,
         PublishRideRequestFails, local
<1>3. ASSUME NEW u \in Thread, NEW r \in Ride, ReadForRefund(u, r) PROVE Moves(t)
  BY <1>0, <1>3 DEF ReadForRefund, Moves, Kept
<1>4. ASSUME NEW r \in Ride, TimerStep(r) PROVE Moves(t)
  <2>1. r \in Thread
    BY DEF Thread, Canceller
  <2>2. CASE MatchingTimeout(r) \/ CheckUnmatched(r)
    BY <1>0, <2>1, <2>2 DEF MatchingTimeout, CheckUnmatched, Moves, Kept, local
  <2>3. CASE TimeoutCancels(r)
    BY <1>3, <2>1, <2>3 DEF TimeoutCancels
  <2>4. QED
    BY <1>4, <2>2, <2>3 DEF TimerStep
<1>5. ASSUME NEW c \in Call, NEW r \in Ride, PassengerCancels(c, r) PROVE Moves(t)
  <2>1. c \in Thread
    BY DEF Thread, Canceller
  <2>2. QED
    BY <1>3, <1>5, <2>1 DEF PassengerCancels
<1>6. ASSUME NEW u \in Thread, CommitCancel(u) \/ LoadUpdated(u) PROVE Moves(t)
  BY <1>0, <1>6 DEF CommitCancel, LoadUpdated, Moves, Kept, local
<1>7. ASSUME NEW u \in Thread,
             RejectCancel(u) \/ Announce(u) \/ AnnounceUnpublished(u) \/ DatabaseCallFails(u)
      PROVE  Moves(t)
  <2>1. PICK step \in {"idle", "done", "announced"} : Leave(u, step)
    BY <1>7 DEF RejectCancel, Announce, AnnounceUnpublished, DatabaseCallFails, Finish
  <2>2. QED
    BY <2>1, LeaveMoves DEF Moves
<1>8. ASSUME NEW u \in Thread, AckLost(u) PROVE Moves(t)
  BY <1>0, <1>8 DEF AckLost, Moves, Kept, local
<1>9. CASE ResponseStep
  BY <1>0, <1>9 DEF ResponseStep, CommitMatch, DropResponse, AckResponse, Moves, Kept, local
<1>10. CASE StatusStep
  BY <1>0, <1>10
     DEF StatusStep, ReadForStatus, DropReport, CommitStatus, AckReport, Moves, Kept, local
<1>11. CASE DriverStep \/ HandleMatchedUnacknowledged
  BY <1>1, <1>11
     DEF DriverStep, AcceptOffer, HandleMatched, HandleMatchedUnacknowledged, DriverReports,
         local
<1>12. CASE Crash
  BY <1>0, <1>12 DEF Crash, Moves
<1>13. CASE UNCHANGED vars
  BY <1>1, <1>13 DEF vars
<1>14. CASE Fault
  BY <1>2, <1>7, <1>8, <1>11, <1>12, <1>14 DEF Fault
<1>15. ASSUME NEW u \in Thread, HandlerStep(u) PROVE Moves(t)
  BY <1>6, <1>7, <1>15 DEF HandlerStep
<1>16. QED
  BY <1>2, <1>4, <1>5, <1>9, <1>10, <1>11, <1>13, <1>14, <1>15 DEF Next

\* The goroutine of a timer works on no other ride than its own.
LEMMA OwnTarget ==
    ASSUME TypeInv, [Next]_vars, NEW r \in Ride, target[r] = r
    PROVE  target'[r] = r
<1>0. /\ target \in [Thread -> Ride \cup {NoRide}]
      /\ r \in Thread /\ r \notin Consumer /\ r \notin Call
  BY RideAssumption DEF TypeInv, TypeOK, Thread, Canceller, Consumer
<1>1. ASSUME NEW u \in Thread, NEW step, Leave(u, step) PROVE target'[r] = r
  BY <1>0, <1>1 DEF Leave
<1>2. ASSUME NEW q \in Ride, CreateStep(q) \/ PublishRideRequestFails(q) PROVE target'[r] = r
  BY <1>2
     DEF CreateStep, CreateRide, PublishRideRequest, StartMatchingTimeout,
         PublishRideRequestFails, local
<1>3. ASSUME NEW q \in Ride, TimerStep(q) PROVE target'[r] = r
  BY <1>0, <1>3
     DEF TimerStep, MatchingTimeout, CheckUnmatched, TimeoutCancels, ReadForRefund, local
<1>4. ASSUME NEW c \in Call, NEW q \in Ride, PassengerCancels(c, q) PROVE target'[r] = r
  BY <1>0, <1>4 DEF PassengerCancels, ReadForRefund
<1>5. ASSUME NEW u \in Thread, HandlerStep(u) PROVE target'[r] = r
  BY <1>1, <1>5
     DEF HandlerStep, CommitCancel, RejectCancel, LoadUpdated, Announce, Finish, local
<1>6. CASE ResponseStep \/ StatusStep
  BY <1>0, <1>6
     DEF ResponseStep, CommitMatch, DropResponse, AckResponse, StatusStep, ReadForStatus,
         DropReport, CommitStatus, AckReport, Consumer, local
<1>7. CASE DriverStep
  BY <1>7 DEF DriverStep, AcceptOffer, HandleMatched, DriverReports, local
<1>8. CASE Crash
  BY <1>0, <1>8 DEF Crash
<1>9. ASSUME NEW u \in Thread, AnnounceUnpublished(u) \/ DatabaseCallFails(u) \/ AckLost(u)
      PROVE  target'[r] = r
  BY <1>1, <1>9 DEF AnnounceUnpublished, DatabaseCallFails, AckLost, Finish, local
<1>10. CASE Fault
  BY <1>2, <1>8, <1>9, <1>10 DEF Fault, HandleMatchedUnacknowledged, local
<1>11. CASE UNCHANGED vars
  BY <1>11 DEF vars
<1>12. QED
  BY <1>2, <1>3, <1>4, <1>5, <1>6, <1>7, <1>10, <1>11 DEF Next

\* The report a decision was made on stays at the head of its queue until the
\* decision is written.
LEMMA HeadKept ==
    ASSUME TypeInv, [Next]_vars, pc["statuses"] = "decided"
    PROVE  Head(statusQ') = Head(statusQ)
<1>1. statusQ # <<>> /\ statusQ \in Seq(Report) /\ matchedQ \in Seq(Ride)
  BY DEF TypeInv, TypeOK, RoleInv
<1>2. \A m \in Report : Head(Append(statusQ, m)) = Head(statusQ)
  BY <1>1, HeadOfAppend
<1>3. CASE HandleMatched \/ HandleMatchedUnacknowledged
  <2>1. Head(matchedQ) \in Ride
    BY <1>1, <1>3, TailFacts DEF HandleMatched, HandleMatchedUnacknowledged
  <2>2. [ride |-> Head(matchedQ), status |-> "EN_ROUTE"] \in Report
    BY <2>1 DEF Report, DriverStatus
  <2>3. statusQ' = Append(statusQ, [ride |-> Head(matchedQ), status |-> "EN_ROUTE"])
    BY <1>3 DEF HandleMatched, HandleMatchedUnacknowledged, SendEnRoute
  <2>4. QED
    BY <1>2, <2>2, <2>3
<1>4. ASSUME NEW r \in Ride, NEW s \in DriverStatus, DriverReports(r, s)
      PROVE  Head(statusQ') = Head(statusQ)
  <2>1. [ride |-> r, status |-> s] \in Report
    BY DEF Report
  <2>2. statusQ' = Append(statusQ, [ride |-> r, status |-> s])
    BY <1>4 DEF DriverReports
  <2>3. QED
    BY <1>2, <2>1, <2>2
<1>5. ASSUME NEW r \in Ride, NEW d \in Driver, AcceptOffer(r, d) PROVE statusQ' = statusQ
  BY <1>5 DEF AcceptOffer
<1>6. CASE StatusStep
  BY <1>6 DEF StatusStep, ReadForStatus, DropReport, CommitStatus, AckReport, queues
<1>7. ASSUME NEW r \in Ride, CreateStep(r) \/ TimerStep(r) PROVE statusQ' = statusQ
  BY <1>7
     DEF CreateStep, CreateRide, PublishRideRequest, StartMatchingTimeout, TimerStep,
         MatchingTimeout, CheckUnmatched, TimeoutCancels, ReadForRefund, queues
<1>8. ASSUME NEW c \in Call, NEW r \in Ride, PassengerCancels(c, r) PROVE statusQ' = statusQ
  BY <1>8 DEF PassengerCancels, ReadForRefund, queues
<1>9. ASSUME NEW t \in Thread, HandlerStep(t) PROVE statusQ' = statusQ
  BY <1>9 DEF HandlerStep, CommitCancel, RejectCancel, LoadUpdated, Announce, queues
<1>10. CASE ResponseStep
  BY <1>10 DEF ResponseStep, CommitMatch, DropResponse, AckResponse, queues
<1>11. CASE Fault
  BY <1>3, <1>11
     DEF Fault, PublishRideRequestFails, AnnounceUnpublished, DatabaseCallFails, AckLost,
         Crash, queues
<1>12. CASE UNCHANGED vars
  BY <1>12 DEF vars
<1>13. QED
  BY <1>3, <1>4, <1>5, <1>6, <1>7, <1>8, <1>9, <1>10, <1>11, <1>12 DEF Next, DriverStep

\* The consumer of driver_status comes behind its transaction only by it.
LEMMA BehindCommit ==
    ASSUME TypeInv, [Next]_vars, pc'["statuses"] \in {"committed", "loaded", "announced"}
    PROVE  CommitStatus \/ pc["statuses"] \in {"committed", "loaded", "announced"}
<1> DEFINE Behind == pc["statuses"] \in {"committed", "loaded", "announced"}
<1>0. /\ pc \in [Thread -> ThreadStep]
      /\ "statuses" \in Thread /\ "statuses" \notin Canceller
  BY RideAssumption DEF TypeInv, TypeOK, Thread, Canceller, Consumer
<1>1. CASE pc'["statuses"] = pc["statuses"]
  BY <1>1
<1>2. ASSUME NEW r \in Ride, CreateStep(r) \/ PublishRideRequestFails(r) PROVE Behind
  BY <1>1, <1>2
     DEF CreateStep, CreateRide, PublishRideRequest, StartMatchingTimeout,
         PublishRideRequestFails
<1>3. ASSUME NEW t \in Canceller, NEW r \in Ride,
             MatchingTimeout(t) \/ CheckUnmatched(t) \/ ReadForRefund(t, r)
      PROVE  Behind
  BY <1>0, <1>1, <1>3 DEF MatchingTimeout, CheckUnmatched, ReadForRefund
<1>4. CASE \/ \E r \in Ride : TimerStep(r)
           \/ \E c \in Call, r \in Ride : PassengerCancels(c, r)
  BY <1>3, <1>4 DEF TimerStep, TimeoutCancels, PassengerCancels, Canceller
<1>5. ASSUME NEW t \in Thread, HandlerStep(t) \/ AnnounceUnpublished(t) PROVE Behind
  <2>1. pc' = [pc EXCEPT ![t] = pc'[t]]
    BY <1>0, <1>5
       DEF HandlerStep, CommitCancel, RejectCancel, LoadUpdated, Announce,
           AnnounceUnpublished, Finish, Leave
  <2>2. pc[t] \in {"committed", "loaded"} \/ pc[t] = "quoted"
    BY <1>5
       DEF HandlerStep, CommitCancel, RejectCancel, LoadUpdated, Announce,
           AnnounceUnpublished
  <2>3. pc["statuses"] # "quoted"
    BY <1>0 DEF TypeInv, RoleInv
  <2>4. QED
    BY <1>0, <2>1, <2>2, <2>3
<1>6. ASSUME NEW t \in Thread, DatabaseCallFails(t) \/ AckLost(t) PROVE Behind
  BY <1>0, <1>6 DEF DatabaseCallFails, AckLost, Leave
<1>7. CASE ResponseStep \/ StatusStep
  BY <1>0, <1>7
     DEF ResponseStep, CommitMatch, DropResponse, AckResponse, StatusStep, ReadForStatus,
         DropReport, AckReport
<1>8. CASE DriverStep \/ HandleMatchedUnacknowledged
  BY <1>1, <1>8
     DEF DriverStep, AcceptOffer, HandleMatched, HandleMatchedUnacknowledged, DriverReports
<1>9. CASE Crash
  BY <1>0, <1>9 DEF Crash, Consumer
<1>10. CASE UNCHANGED vars
  BY <1>1, <1>10 DEF vars
<1>11. QED
  BY <1>2, <1>4, <1>5, <1>6, <1>7, <1>8, <1>9, <1>10 DEF Next, Fault

\* A ride never comes closer to its beginning, and but for the consumer of
\* driver_status the only thing that happens to a matched ride is that it is
\* cancelled.
LEMMA StatusMoves ==
    ASSUME BaseInv, [Next]_vars, NEW r \in Ride
    PROVE  /\ status[r] # "NONE" => status'[r] # "NONE"
           /\ status[r] \notin {"NONE", "REQUESTED"} => status'[r] \notin {"NONE", "REQUESTED"}
           /\ status[r] \notin {"NONE"} \cup Cancellable => status'[r] \notin Cancellable
           /\ \/ CommitStatus
              \/ status[r] = "NONE"
              \/ status'[r] = status[r]
              \/ status[r] \in Cancellable /\ status'[r] \in {"MATCHED", "CANCELLED"}
<1>0. status \in [Ride -> Status]
  BY DEF BaseInv, TypeInv, TypeOK
<1>1. CASE UNCHANGED <<status, driver, trail>>
  BY <1>1 DEF Cancellable
<1>2. ASSUME NEW q \in Ride, CreateRide(q)
      PROVE  status[q] = "NONE" /\ status' = [status EXCEPT ![q] = "REQUESTED"]
  BY <1>2, CreationEnters DEF CreateRide
<1>3. CASE \E q \in Ride : CreateRide(q)
  BY <1>0, <1>2, <1>3 DEF Cancellable
<1>4. ASSUME NEW t \in Thread, CommitCancel(t)
      PROVE  \E q \in Ride : status[q] \in Cancellable /\ status' = [status EXCEPT ![q] = "CANCELLED"]
  BY <1>4, CancelEnters DEF CommitCancel
<1>5. CASE \E t \in Thread : CommitCancel(t)
  <2>1. PICK q \in Ride : status[q] \in Cancellable /\ status' = [status EXCEPT ![q] = "CANCELLED"]
    BY <1>4, <1>5
  <2>2. QED
    BY <1>0, <2>1 DEF Cancellable
<1>6. CASE CommitMatch
  <2>1. PICK q \in Ride : status[q] = "REQUESTED" /\ status' = [status EXCEPT ![q] = "MATCHED"]
    BY <1>6, MatchEnters DEF CommitMatch
  <2>2. QED
    BY <1>0, <2>1 DEF Cancellable
<1>7. CASE CommitStatus
  <2>1. PICK q \in Ride, new \in {"EN_ROUTE", "ARRIVED", "IN_PROGRESS", "COMPLETED"} :
            status[q] # "NONE" /\ status' = [status EXCEPT ![q] = new]
    BY <1>7, StatusEnters DEF Enters, Legal, Change
  <2>2. QED
    BY <1>0, <1>7, <2>1 DEF Cancellable
<1>8. QED
  BY <1>1, <1>3, <1>5, <1>6, <1>7, OnlyTransactions

\* At the start nobody has read anything.
LEMMA ReadInit == Init => ReadInv
BY DEF Init, ReadInv, QuotedInv, WrittenInv, DecidedInv, Thread, Canceller, Consumer

\* The refund in hand stays what the status read entitles to, and the ride does
\* not go back to a status that entitles to more.
LEMMA QuotedStep ==
    ASSUME BaseInv, TypeInv', [Next]_vars, NEW t \in Thread
    PROVE  QuotedInv(t)'
<1> SUFFICES ASSUME pc'[t] = "quoted"
             PROVE  /\ status'[target'[t]] # "NONE"
                    /\ quote'[t] = CalculateRefund(view'[t])
                    /\ view'[t] \notin Cancellable => status'[target'[t]] \notin Cancellable
                    /\ view'[t] = "MATCHED" => status'[target'[t]] # "REQUESTED"
  BY DEF QuotedInv, Cancellable, CalculateRefund
<1>0. /\ pc \in [Thread -> ThreadStep]
      /\ target \in [Thread -> Ride \cup {NoRide}]
      /\ view \in [Thread -> Status]
      /\ quote \in [Thread -> {0, 80, 100}]
  BY DEF BaseInv, TypeInv, TypeOK
<1>1. Moves(t)
  BY ThreadMoves DEF BaseInv
<1>2. CASE Kept(t)
  <2>1. target[t] \in Ride /\ QuotedInv(t) /\ pc[t] = "quoted"
    BY <1>2 DEF Kept, BaseInv, TypeInv, RoleInv, ReadInv
  <2>2. /\ status[target[t]] # "NONE"
        /\ quote[t] = CalculateRefund(view[t])
        /\ view[t] \notin Cancellable => status[target[t]] \notin Cancellable
        /\ view[t] = "MATCHED" => status[target[t]] # "REQUESTED"
    BY <2>1 DEF QuotedInv
  <2>3. /\ status'[target[t]] # "NONE"
        /\ status[target[t]] # "REQUESTED" => status'[target[t]] # "REQUESTED"
        /\ status[target[t]] \notin Cancellable => status'[target[t]] \notin Cancellable
    BY <2>1, <2>2, StatusMoves
  <2>4. QED
    BY <1>2, <2>2, <2>3 DEF Kept
<1>3. ASSUME NEW r \in Ride, ReadForRefund(t, r)
      PROVE  /\ target'[t] = r /\ view'[t] = status[r] /\ status' = status
             /\ quote'[t] = CalculateRefund(status[r]) /\ status[r] # "NONE"
  BY <1>0, <1>3 DEF ReadForRefund, db
<1>4. CASE \E r \in Ride : ReadForRefund(t, r)
  BY <1>3, <1>4
<1>5. ~ (t = "statuses" /\ ReadForStatus)
  BY <1>0 DEF ReadForStatus
<1>6. ~ (CommitCancel(t) \/ (t = "responses" /\ CommitMatch)
            \/ (t = "statuses" /\ CommitStatus) \/ LoadUpdated(t))
  BY <1>0 DEF CommitCancel, CommitMatch, CommitStatus, LoadUpdated
<1>7. QED
  BY <1>1, <1>2, <1>4, <1>5, <1>6 DEF Moves

\* A goroutine that has committed works on a ride that no longer waits for a
\* driver, and will not wait for one again.
LEMMA WrittenStep ==
    ASSUME BaseInv, TypeInv', [Next]_vars, NEW t \in Thread
    PROVE  WrittenInv(t)'
<1> SUFFICES ASSUME pc'[t] \in {"committed", "loaded"}
             PROVE  status'[target'[t]] \notin {"NONE", "REQUESTED"}
  BY DEF WrittenInv
<1>0. /\ pc \in [Thread -> ThreadStep]
      /\ target \in [Thread -> Ride \cup {NoRide}]
      /\ status \in [Ride -> Status]
  BY DEF BaseInv, TypeInv, TypeOK
<1>1. Moves(t)
  BY ThreadMoves DEF BaseInv
<1>2. CASE Kept(t)
  <2>1. /\ target[t] \in Ride /\ target'[t] = target[t]
        /\ status[target[t]] \notin {"NONE", "REQUESTED"}
    BY <1>2 DEF Kept, BaseInv, TypeInv, RoleInv, ReadInv, WrittenInv
  <2>2. QED
    BY <2>1, StatusMoves
<1>3. CASE LoadUpdated(t)
  <2>1. /\ target' = target /\ status' = status
        /\ status[target[t]] \notin {"NONE", "REQUESTED"}
    BY <1>3 DEF LoadUpdated, db, BaseInv, ReadInv, WrittenInv
  <2>2. QED
    BY <2>1
<1>4. CASE CommitCancel(t)
  <2>1. target[t] \in Ride
    BY <1>4, CancelEnters
  <2>2. target' = target /\ status' = [status EXCEPT ![target[t]] = "CANCELLED"]
    BY <1>4 DEF CommitCancel, local
  <2>3. QED
    BY <1>0, <2>1, <2>2
<1>5. CASE t = "responses" /\ CommitMatch
  <2>1. Head(responseQ).ride \in Ride
    BY <1>5, MatchEnters
  <2>2. /\ target' = [target EXCEPT !["responses"] = Head(responseQ).ride]
        /\ status' = [status EXCEPT ![Head(responseQ).ride] = "MATCHED"]
    BY <1>5 DEF CommitMatch
  <2>3. QED
    BY <1>0, <1>5, <2>1, <2>2
<1>6. CASE t = "statuses" /\ CommitStatus
  <2>1. PICK new \in {"EN_ROUTE", "ARRIVED", "IN_PROGRESS", "COMPLETED"} :
            target[t] \in Ride /\ status' = [status EXCEPT ![target[t]] = new]
    BY <1>6, StatusEnters DEF Enters, Legal, Change
  <2>2. target' = target
    BY <1>6 DEF CommitStatus, local
  <2>3. QED
    BY <1>0, <2>1, <2>2
<1>7. ~ ((\E r \in Ride : ReadForRefund(t, r)) \/ (t = "statuses" /\ ReadForStatus))
  BY <1>0 DEF ReadForRefund, ReadForStatus
<1>8. QED
  BY <1>1, <1>2, <1>3, <1>4, <1>5, <1>6, <1>7 DEF Moves

\* Between the read and the write of a report nobody but a canceller touches
\* the ride, and only while it is MATCHED.
LEMMA DecidedStep ==
    ASSUME BaseInv, TypeInv', [Next]_vars
    PROVE  DecidedInv'
<1> DEFINE r == target["statuses"]
           seen == view["statuses"]
<1> SUFFICES ASSUME pc'["statuses"] = "decided"
             PROVE  /\ seen' # "NONE"
                    /\ NewStatus(Head(statusQ').status, seen') # seen'
                    /\ seen' = "REQUESTED" => Head(statusQ').status = "BUSY"
                    /\ status'[r'] # seen' =>
                           seen' \in Cancellable /\ status'[r'] \in {"MATCHED", "CANCELLED"}
  BY DEF DecidedInv, NewStatus, Cancellable
<1>0. /\ pc \in [Thread -> ThreadStep]
      /\ target \in [Thread -> Ride \cup {NoRide}]
      /\ view \in [Thread -> Status]
      /\ "statuses" \in Thread
  BY DEF BaseInv, TypeInv, TypeOK, Thread, Consumer
<1>1. Moves("statuses")
  BY <1>0, ThreadMoves DEF BaseInv
<1>2. CASE Kept("statuses")
  <2>1. pc["statuses"] = "decided" /\ r' = r /\ seen' = seen /\ r \in Ride
    BY <1>0, <1>2 DEF Kept, BaseInv, TypeInv, RoleInv
  <2>2. /\ seen # "NONE"
        /\ NewStatus(Head(statusQ).status, seen) # seen
        /\ seen = "REQUESTED" => Head(statusQ).status = "BUSY"
        /\ status[r] # seen => seen \in Cancellable /\ status[r] \in {"MATCHED", "CANCELLED"}
    BY <2>1 DEF BaseInv, ReadInv, DecidedInv
  <2>3. Head(statusQ') = Head(statusQ)
    BY <2>1, HeadKept DEF BaseInv
  <2>4. ~ CommitStatus
    BY <1>0 DEF CommitStatus
  <2>5. \/ status'[r] = status[r]
        \/ status[r] \in Cancellable /\ status'[r] \in {"MATCHED", "CANCELLED"}
    <3>1. status[r] # "NONE"
      BY <2>2
    <3>2. QED
      BY <2>1, <2>4, <3>1, StatusMoves
  <2>6. QED
    BY <2>1, <2>2, <2>3, <2>5 DEF Cancellable
<1>3. CASE ReadForStatus
  <2> DEFINE m == Head(statusQ)
  <2>1. /\ r' = m.ride /\ seen' = status[m.ride] /\ UNCHANGED <<status, statusQ>>
        /\ NewStatus(m.status, status[m.ride]) \notin {"NONE", status[m.ride]}
        /\ statusQ # <<>> /\ status[m.ride] # "NONE"
    BY <1>0, <1>3 DEF ReadForStatus, db, queues
  <2>2. m \in Report /\ m = statusQ[1] /\ 1 \in 1 .. Len(statusQ)
    <3>1. statusQ \in Seq(Report)
      BY DEF BaseInv, TypeInv, TypeOK
    <3>2. QED
      BY <2>1, <3>1, TailFacts
  <2>3. m.ride \in Ride /\ Driven(m) /\ m.status \in DriverStatus
    BY <2>2 DEF BaseInv, DriverInv, Report
  <2>4. status[m.ride] = "REQUESTED" => m.status \in {"BUSY", "AVAILABLE"}
    BY <2>3 DEF BaseInv, DriverInv, Driven, DriverStatus
  <2>5. status[m.ride] = "REQUESTED" => m.status = "BUSY"
    BY <2>1, <2>4 DEF NewStatus
  <2>6. QED
    BY <2>1, <2>5
<1>4. ~ \/ \E q \in Ride : ReadForRefund("statuses", q)
        \/ CommitCancel("statuses") \/ CommitStatus \/ LoadUpdated("statuses")
  BY <1>0 DEF ReadForRefund, CommitCancel, CommitStatus, LoadUpdated
<1>5. QED
  BY <1>1, <1>2, <1>3, <1>4 DEF Moves

\* Every step keeps what the service knows of its goroutines and rides.
LEMMA BaseStep == BaseInv /\ [Next]_vars => BaseInv'
<1> SUFFICES ASSUME BaseInv, [Next]_vars PROVE BaseInv'
  OBVIOUS
<1>1. TypeInv' /\ DriverInv'
  BY TypeStep, DriverInvStep DEF BaseInv
<1>2. \A r \in Ride : target'[r] = r
  BY OwnTarget DEF BaseInv, ReadInv
<1>3. \A t \in Thread : QuotedInv(t)' /\ WrittenInv(t)'
  BY <1>1, QuotedStep, WrittenStep
<1>4. QED
  BY <1>1, <1>2, <1>3, DecidedStep DEF BaseInv, ReadInv

\* At the start nobody has read anything.
LEMMA BaseInit == Init => BaseInv
BY TypeInit, DriverInit, ReadInit DEF BaseInv

\* In every state of the service.
LEMMA BaseCorrect == Spec => []BaseInv
BY BaseInit, BaseStep, PTL DEF Spec

\* What goroutines have read is never staler than ReadInv says.
THEOREM ReadCorrect == Spec => []ReadInv
<1>1. BaseInv => ReadInv
  BY DEF BaseInv
<1>2. QED
  BY <1>1, BaseCorrect, PTL
-----------------------------------------------------------------------------
(* What the trail of a ride holds *)

\* The rows of the other trails, and the rows before the new one, stay.
LEMMA EntryFacts ==
    ASSUME TypeInv, NEW r \in Ride, NEW e \in Event, Enters(r, e)
    PROVE  LET n == Len(trail[r]) + 1
           IN  /\ n \in Nat \ {0}
               /\ DOMAIN trail[r] = 1 .. n - 1
               /\ DOMAIN trail'[r] = 1 .. n
               /\ trail[r] = <<>> <=> n = 1
               /\ trail'[r] # <<>> /\ Len(trail'[r]) = n
               /\ \A i \in 1 .. n - 1 : trail'[r][i] = trail[r][i]
               /\ trail'[r][n] = e
               /\ status'[r] = e.new
               /\ \A q \in Ride \ {r} : trail'[q] = trail[q] /\ status'[q] = status[q]
<1>1. trail \in [Ride -> Seq(Event)] /\ status \in [Ride -> Status]
  BY DEF TypeInv, TypeOK
<1>2. trail[r] \in Seq(Event)
  BY <1>1
<1>3. /\ trail'[r] = Append(trail[r], e) /\ status'[r] = e.new
      /\ \A q \in Ride \ {r} : trail'[q] = trail[q] /\ status'[q] = status[q]
  BY <1>1 DEF Enters
<1>4. trail[r] = <<>> <=> Len(trail[r]) = 0
  BY <1>2
<1>5. /\ Append(trail[r], e) # <<>>
      /\ Len(trail[r]) \in Nat
      /\ Len(Append(trail[r], e)) = Len(trail[r]) + 1
      /\ DOMAIN trail[r] = 1 .. Len(trail[r])
      /\ DOMAIN Append(trail[r], e) = 1 .. Len(trail[r]) + 1
      /\ \A i \in 1 .. Len(trail[r]) : Append(trail[r], e)[i] = trail[r][i]
      /\ Append(trail[r], e)[Len(trail[r]) + 1] = e
  BY <1>2, AppendFacts
<1>6. QED
  BY <1>3, <1>4, <1>5

\* A row that starts from the current status prolongs the chain.
LEMMA ChainStep ==
    ASSUME TypeInv, TrailExplainsStatus, NEW r \in Ride, NEW e \in Event, Enters(r, e)
    PROVE  TrailExplainsStatus'
<1> DEFINE n == Len(trail[r]) + 1
<1>1. /\ n \in Nat \ {0}
      /\ trail[r] = <<>> <=> n = 1
      /\ trail'[r] # <<>> /\ Len(trail'[r]) = n
      /\ \A i \in 1 .. n - 1 : trail'[r][i] = trail[r][i]
      /\ trail'[r][n] = e
      /\ status'[r] = e.new
      /\ \A q \in Ride \ {r} : trail'[q] = trail[q] /\ status'[q] = status[q]
  BY EntryFacts
<1>2. e.old = status[r] /\ e.new # "NONE"
  BY DEF Enters, Event, RideStatus
<1>3. /\ n > 1 => status[r] = trail[r][n - 1].new
      /\ \A i \in 2 .. n - 1 : trail[r][i].old = trail[r][i - 1].new
  BY <1>1 DEF TrailExplainsStatus
<1>4. \A i \in 2 .. n : trail'[r][i].old = trail'[r][i - 1].new
  <2> SUFFICES ASSUME NEW i \in 2 .. n PROVE trail'[r][i].old = trail'[r][i - 1].new
    OBVIOUS
  <2>1. CASE i = n
    <3>1. n - 1 \in 1 .. n - 1 /\ n > 1
      BY <1>1, <2>1
    <3>2. trail'[r][n - 1] = trail[r][n - 1]
      BY <1>1, <3>1
    <3>3. QED
      BY <1>1, <1>2, <1>3, <2>1, <3>1, <3>2
  <2>2. CASE i # n
    <3>1. i \in 2 .. n - 1 /\ i \in 1 .. n - 1 /\ i - 1 \in 1 .. n - 1
      BY <1>1, <2>2
    <3>2. trail'[r][i] = trail[r][i] /\ trail'[r][i - 1] = trail[r][i - 1]
      BY <1>1, <3>1
    <3>3. QED
      BY <1>3, <3>1, <3>2
  <2>3. QED
    BY <2>1, <2>2
<1>5. \A q \in Ride \ {r} :
          /\ (status'[q] = "NONE") <=> (trail'[q] = <<>>)
          /\ trail'[q] # <<>> => status'[q] = trail'[q][Len(trail'[q])].new
          /\ \A i \in 2 .. Len(trail'[q]) : trail'[q][i].old = trail'[q][i - 1].new
  BY <1>1 DEF TrailExplainsStatus
<1>6. /\ (status'[r] = "NONE") <=> (trail'[r] = <<>>)
      /\ trail'[r] # <<>> => status'[r] = trail'[r][Len(trail'[r])].new
      /\ \A i \in 2 .. Len(trail'[r]) : trail'[r][i].old = trail'[r][i - 1].new
  BY <1>1, <1>2, <1>4
<1>7. QED
  BY <1>5, <1>6 DEF TrailExplainsStatus

\* A legal row keeps the rows legal, and what went before a match or a
\* cancellation is what could go before it.
LEMMA PhaseStep ==
    ASSUME TypeInv, TrailInv, NEW r \in Ride, NEW e \in Event, Enters(r, e)
    PROVE  LegalTrail' /\ PhaseInv' /\ SettledOnce'
<1> DEFINE n == Len(trail[r]) + 1
           Before == \A i \in 1 .. n - 1 :
               /\ status[r] = "REQUESTED" => trail[r][i].type = "RIDE_REQUESTED"
               /\ status[r] = "MATCHED" =>
                      trail[r][i].type \in {"RIDE_REQUESTED", "DRIVER_MATCHED"}
<1>1. /\ n \in Nat \ {0}
      /\ DOMAIN trail[r] = 1 .. n - 1
      /\ DOMAIN trail'[r] = 1 .. n
      /\ trail[r] = <<>> <=> n = 1
      /\ \A i \in 1 .. n - 1 : trail'[r][i] = trail[r][i]
      /\ trail'[r][n] = e
      /\ status'[r] = e.new
      /\ \A q \in Ride \ {r} : trail'[q] = trail[q] /\ status'[q] = status[q]
  BY EntryFacts
<1>2. /\ e.type \in EventType /\ e.old = status[r]
      /\ e.type = "RIDE_REQUESTED" => e.old = "NONE" /\ e.new = "REQUESTED"
      /\ e.type = "DRIVER_MATCHED" => e.old = "REQUESTED" /\ e.new = "MATCHED"
      /\ e.type = "RIDE_CANCELLED" => e.old \in {"REQUESTED", "MATCHED"} /\ e.new = "CANCELLED"
      /\ e.type = "STATUS_CHANGED" => e.new \in {"EN_ROUTE", "ARRIVED", "IN_PROGRESS", "COMPLETED"}
  BY DEF Enters, Legal, Event, Cancellable
<1>3. Before
  BY <1>1 DEF TrailInv, PhaseInv
<1>4. e.old = "NONE" => n = 1
  BY <1>1, <1>2 DEF TrailInv, TrailExplainsStatus
<1>5. LegalTrail'
  <2>1. Legal(e)
    BY DEF Enters
  <2>2. \A i \in 1 .. n : Legal(trail'[r][i])
    <3>1. \A i \in 1 .. n - 1 : Legal(trail[r][i])
      BY <1>1 DEF TrailInv, LegalTrail
    <3>2. \A i \in 1 .. n : i = n \/ i \in 1 .. n - 1
      BY <1>1
    <3>3. QED
      BY <1>1, <2>1, <3>1, <3>2
  <2>3. \A q \in Ride \ {r} : \A i \in DOMAIN trail'[q] : Legal(trail'[q][i])
    BY <1>1 DEF TrailInv, LegalTrail
  <2>4. LegalTrail' <=> \A q \in Ride : \A i \in DOMAIN trail'[q] : Legal(trail'[q][i])
    BY DEF LegalTrail, Legal, Cancellable, CalculateRefund
  <2>5. QED
    BY <1>1, <2>2, <2>3, <2>4
<1>6. PhaseInv'
  <2>1. \A i \in 1 .. n :
            /\ status'[r] = "REQUESTED" => trail'[r][i].type = "RIDE_REQUESTED"
            /\ status'[r] = "MATCHED" =>
                   trail'[r][i].type \in {"RIDE_REQUESTED", "DRIVER_MATCHED"}
    <3> SUFFICES ASSUME NEW i \in 1 .. n
                 PROVE  /\ e.new = "REQUESTED" => trail'[r][i].type = "RIDE_REQUESTED"
                        /\ e.new = "MATCHED" =>
                               trail'[r][i].type \in {"RIDE_REQUESTED", "DRIVER_MATCHED"}
      BY <1>1
    <3>1. CASE i = n
      BY <1>1, <1>2, <3>1 DEF EventType
    <3>2. CASE i # n
      <4>1. i \in 1 .. n - 1 /\ n # 1
        BY <1>1, <3>2
      <4>2. trail'[r][i] = trail[r][i] /\ e.old # "NONE"
        BY <1>1, <1>4, <4>1
      <4>3. QED
        BY <1>2, <1>3, <4>1, <4>2 DEF EventType
    <3>3. QED
      BY <3>1, <3>2
  <2>2. \A q \in Ride \ {r} : \A i \in DOMAIN trail'[q] :
            /\ status'[q] = "REQUESTED" => trail'[q][i].type = "RIDE_REQUESTED"
            /\ status'[q] = "MATCHED" =>
                   trail'[q][i].type \in {"RIDE_REQUESTED", "DRIVER_MATCHED"}
    BY <1>1 DEF TrailInv, PhaseInv
  <2>3. QED
    BY <1>1, <2>1, <2>2 DEF PhaseInv
<1>7. SettledOnce'
  <2> DEFINE Settled(a, b) ==
               /\ a.type = "RIDE_CANCELLED" => b.type = "STATUS_CHANGED"
               /\ b.type = "DRIVER_MATCHED" => a.type = "RIDE_REQUESTED"
               /\ a.type = "STATUS_CHANGED" => b.type \notin {"DRIVER_MATCHED", "RIDE_CANCELLED"}
  <2>1. ASSUME NEW i \in 1 .. n, NEW j \in 1 .. n, i < j
        PROVE  Settled(trail'[r][i], trail'[r][j])
    <3>1. i \in 1 .. n - 1 /\ trail'[r][i] = trail[r][i] /\ n # 1
      BY <1>1, <2>1
    <3>2. CASE j = n
      <4>1. trail'[r][j] = e /\ e.old # "NONE"
        BY <1>1, <1>4, <3>1, <3>2
      <4>2. QED
        BY <1>2, <1>3, <3>1, <4>1 DEF EventType
    <3>3. CASE j # n
      <4>1. j \in 1 .. n - 1
        BY <1>1, <3>3
      <4>2. trail'[r][j] = trail[r][j]
        BY <1>1, <4>1
      <4>3. Settled(trail[r][i], trail[r][j])
        BY <1>1, <2>1, <3>1, <4>1 DEF TrailInv, SettledOnce
      <4>4. QED
        BY <3>1, <4>2, <4>3
    <3>4. QED
      BY <3>2, <3>3
  <2>2. \A q \in Ride \ {r} : \A i, j \in DOMAIN trail'[q] :
            i < j => Settled(trail'[q][i], trail'[q][j])
    BY <1>1 DEF TrailInv, SettledOnce
  <2>3. \A i, j \in DOMAIN trail'[r] : i < j => Settled(trail'[r][i], trail'[r][j])
    BY <1>1, <2>1
  <2>4. QED
    BY <2>2, <2>3 DEF SettledOnce
<1>8. QED
  BY <1>5, <1>6, <1>7

\* At the start no ride has a trail.
LEMMA TrailInit == Init => TrailInv
BY DEF Init, TrailInv, TrailExplainsStatus, LegalTrail, PhaseInv, SettledOnce

\* Every step keeps the trails.
LEMMA TrailStep == BaseInv /\ TrailInv /\ [Next]_vars => TrailInv'
<1> SUFFICES ASSUME BaseInv, TrailInv, [Next]_vars PROVE TrailInv'
  OBVIOUS
<1>1. CASE UNCHANGED <<status, trail>>
  BY <1>1
     DEF TrailInv, TrailExplainsStatus, LegalTrail, PhaseInv, SettledOnce, Legal,
         Cancellable, CalculateRefund
<1>2. ASSUME NEW r \in Ride, NEW e \in Event, Enters(r, e) PROVE TrailInv'
  BY <1>2, ChainStep, PhaseStep DEF BaseInv, TrailInv
<1>3. QED
  BY <1>1, <1>2, Entries

\* The trails of all rides are chains of legal rows that end in the status.
THEOREM TrailCorrect == Spec => []TrailInv
BY TrailInit, TrailStep, BaseCorrect, PTL DEF Spec

\* The audit trail is a complete account of every ride, however many handlers,
\* timers and consumers write to it in whatever order.
THEOREM TrailExplainsStatusCorrect == Spec => []TrailExplainsStatus
<1>1. TrailInv => TrailExplainsStatus
  BY DEF TrailInv
<1>2. QED
  BY TrailCorrect, <1>1, PTL

\* No ride is matched twice or cancelled twice, and none is matched or
\* cancelled after its driver has set out.
THEOREM SettledOnceCorrect == Spec => []SettledOnce
<1>1. TrailInv => SettledOnce
  BY DEF TrailInv
<1>2. QED
  BY TrailCorrect, <1>1, PTL

\* No cancellation refunds less than the status it was entered in entitles to,
\* although the refund is computed before the row is locked.
THEOREM RefundNeverShortCorrect == Spec => []RefundNeverShort
<1>1. TrailInv => RefundNeverShort
  BY DEF TrailInv, LegalTrail, Legal, RefundNeverShort
<1>2. QED
  BY TrailCorrect, <1>1, PTL

\* No ride is completed but from IN_PROGRESS.
THEOREM CompletedOnlyFromProgressCorrect == Spec => []CompletedOnlyFromProgress
<1>1. TypeInv /\ TrailInv => CompletedOnlyFromProgress
  <2> SUFFICES ASSUME TypeInv, TrailInv, NEW r \in Ride, NEW i \in DOMAIN trail[r],
                      trail[r][i].new = "COMPLETED"
               PROVE  trail[r][i].old = "IN_PROGRESS"
    BY DEF CompletedOnlyFromProgress
  <2>1. trail[r] \in Seq(Event)
    BY DEF TypeInv, TypeOK
  <2>2. trail[r][i] \in Event
    BY <2>1
  <2>3. QED
    BY <2>2 DEF TrailInv, LegalTrail, Legal, Event, EventType
<1>2. QED
  BY TypeCorrect, TrailCorrect, <1>1, PTL
-----------------------------------------------------------------------------
(* What the passenger is shown *)

\* No row of a trail is changed or removed.
LEMMA TrailGrows ==
    ASSUME BaseInv, [Next]_vars, NEW r \in Ride, NEW i \in DOMAIN trail[r]
    PROVE  i \in DOMAIN trail'[r] /\ trail'[r][i] = trail[r][i]
<1>1. CASE UNCHANGED <<status, trail>>
  BY <1>1
<1>2. ASSUME NEW q \in Ride, NEW e \in Event, Enters(q, e)
      PROVE  i \in DOMAIN trail'[r] /\ trail'[r][i] = trail[r][i]
  <2> DEFINE n == Len(trail[q]) + 1
  <2>1. /\ n \in Nat \ {0}
        /\ DOMAIN trail[q] = 1 .. n - 1
        /\ DOMAIN trail'[q] = 1 .. n
        /\ \A k \in 1 .. n - 1 : trail'[q][k] = trail[q][k]
        /\ \A p \in Ride \ {q} : trail'[p] = trail[p]
    BY <1>2, EntryFacts DEF BaseInv
  <2>2. CASE r = q
    <3>1. i \in 1 .. n - 1 /\ i \in 1 .. n
      BY <2>1, <2>2
    <3>2. QED
      BY <2>1, <2>2, <3>1
  <2>3. CASE r # q
    BY <2>1, <2>3
  <2>4. QED
    BY <2>2, <2>3
<1>3. QED
  BY <1>1, <1>2, Entries

\* What a handler loads after its commit is the last row of the trail.
LEMMA LoadedStep ==
    ASSUME BaseInv, TypeInv', TrailInv, LoadedInv, [Next]_vars
    PROVE  LoadedInv'
<1> SUFFICES ASSUME NEW t \in Thread, pc'[t] = "loaded"
             PROVE  \E i \in DOMAIN trail'[target'[t]] : trail'[target'[t]][i].new = view'[t]
  BY DEF LoadedInv
<1>0. /\ pc \in [Thread -> ThreadStep]
      /\ view \in [Thread -> Status]
  BY DEF BaseInv, TypeInv, TypeOK
<1>1. Moves(t)
  BY ThreadMoves DEF BaseInv
<1>2. CASE Kept(t)
  <2>1. /\ pc[t] = "loaded" /\ target'[t] = target[t] /\ view'[t] = view[t]
        /\ target[t] \in Ride
    BY <1>2 DEF Kept, BaseInv, TypeInv, RoleInv
  <2>2. PICK i \in DOMAIN trail[target[t]] : trail[target[t]][i].new = view[t]
    BY <2>1 DEF LoadedInv
  <2>3. QED
    BY <2>1, <2>2, TrailGrows
<1>3. CASE LoadUpdated(t)
  <2>1. /\ pc[t] = "committed" /\ target' = target /\ trail' = trail
        /\ view'[t] = status[target[t]]
    BY <1>0, <1>3 DEF LoadUpdated, db
  <2>2. target[t] \in Ride /\ status[target[t]] # "NONE"
    BY <2>1 DEF BaseInv, TypeInv, RoleInv, ReadInv, WrittenInv
  <2>3. trail[target[t]] \in Seq(Event) /\ trail[target[t]] # <<>>
    BY <2>2 DEF BaseInv, TypeInv, TypeOK, TrailInv, TrailExplainsStatus
  <2>4. /\ status[target[t]] = trail[target[t]][Len(trail[target[t]])].new
        /\ Len(trail[target[t]]) \in DOMAIN trail[target[t]]
    BY <2>2, <2>3 DEF TrailInv, TrailExplainsStatus
  <2>5. QED
    BY <2>1, <2>4
<1>4. ~ \/ \E r \in Ride : ReadForRefund(t, r)
        \/ t = "statuses" /\ ReadForStatus
        \/ CommitCancel(t)
        \/ t = "responses" /\ CommitMatch
        \/ t = "statuses" /\ CommitStatus
  BY <1>0 DEF ReadForRefund, ReadForStatus, CommitCancel, CommitMatch, CommitStatus
<1>5. QED
  BY <1>1, <1>2, <1>3, <1>4 DEF Moves

\* Only a handler that has loaded the ride pushes, and it pushes what it loaded.
LEMMA ShownMoves ==
    ASSUME [Next]_vars
    PROVE  \/ shown' = shown
           \/ \E t \in Thread : pc[t] = "loaded" /\ shown' = [shown EXCEPT ![target[t]] = view[t]]
<1> DEFINE Pushed == \E t \in Thread : /\ pc[t] = "loaded"
                                       /\ shown' = [shown EXCEPT ![target[t]] = view[t]]
<1>1. ASSUME NEW t \in Thread, Announce(t) \/ AnnounceUnpublished(t)
      PROVE  shown' = shown \/ Pushed
  BY <1>1 DEF Announce, AnnounceUnpublished
<1>2. ASSUME NEW t \in Thread, HandlerStep(t) PROVE shown' = shown \/ Pushed
  BY <1>1, <1>2 DEF HandlerStep, CommitCancel, RejectCancel, LoadUpdated
<1>3. CASE Fault
  BY <1>1, <1>3
     DEF Fault, PublishRideRequestFails, DatabaseCallFails, AckLost, Crash,
         HandleMatchedUnacknowledged
<1>4. ASSUME NEW r \in Ride, CreateStep(r) \/ TimerStep(r) PROVE shown' = shown
  BY <1>4
     DEF CreateStep, CreateRide, PublishRideRequest, StartMatchingTimeout, TimerStep,
         MatchingTimeout, CheckUnmatched, TimeoutCancels, ReadForRefund
<1>5. ASSUME NEW c \in Call, NEW r \in Ride, PassengerCancels(c, r) PROVE shown' = shown
  BY <1>5 DEF PassengerCancels, ReadForRefund
<1>6. CASE ResponseStep \/ StatusStep \/ DriverStep
  BY <1>6
     DEF ResponseStep, CommitMatch, DropResponse, AckResponse, StatusStep, ReadForStatus,
         DropReport, CommitStatus, AckReport, DriverStep, AcceptOffer, HandleMatched,
         DriverReports
<1>7. CASE UNCHANGED vars
  BY <1>7 DEF vars
<1>8. QED
  BY <1>2, <1>3, <1>4, <1>5, <1>6, <1>7 DEF Next

\* The passenger is only shown statuses the ride has really had.
THEOREM ShownIsTrueCorrect == Spec => []ShownIsTrue
<1> DEFINE ShownInv == LoadedInv /\ ShownIsTrue
<1>1. Init => ShownInv
  BY DEF Init, LoadedInv, ShownIsTrue
<1>2. BaseInv /\ TypeInv' /\ TrailInv /\ ShownInv /\ [Next]_vars => ShownInv'
  <2> SUFFICES ASSUME BaseInv, TypeInv', TrailInv, ShownInv, [Next]_vars PROVE ShownInv'
    OBVIOUS
  <2>1. ASSUME NEW r \in Ride, shown'[r] # "NONE"
        PROVE  \E i \in DOMAIN trail'[r] : trail'[r][i].new = shown'[r]
    <3>1. shown \in [Ride -> Status]
      BY DEF BaseInv, TypeInv, TypeOK
    <3>2. CASE shown'[r] = shown[r]
      <4>1. PICK i \in DOMAIN trail[r] : trail[r][i].new = shown[r]
        BY <2>1, <3>2 DEF ShownIsTrue
      <4>2. QED
        BY <3>2, <4>1, TrailGrows
    <3>3. CASE shown'[r] # shown[r]
      <4>1. PICK t \in Thread : pc[t] = "loaded" /\ shown' = [shown EXCEPT ![target[t]] = view[t]]
        BY <3>3, ShownMoves
      <4>2. target[t] = r /\ shown'[r] = view[t]
        BY <3>1, <3>3, <4>1
      <4>3. PICK i \in DOMAIN trail[r] : trail[r][i].new = view[t]
        BY <4>1, <4>2 DEF LoadedInv
      <4>4. QED
        BY <4>2, <4>3, TrailGrows
    <3>4. QED
      BY <3>2, <3>3
  <2>2. ShownIsTrue'
    BY <2>1 DEF ShownIsTrue
  <2>3. QED
    BY <2>2, LoadedStep
<1>3. ShownInv => ShownIsTrue
  OBVIOUS
<1> HIDE DEF ShownInv
<1>4. QED
  BY <1>1, <1>2, <1>3, TypeCorrect, BaseCorrect, TrailCorrect, PTL DEF Spec
-----------------------------------------------------------------------------
(* The matching timer *)

\* Who watches one ride.
Watched(r) ==
    \/ timer[r] = "running"
    \/ /\ timer[r] = "fired"
       /\ \/ pc[r] \in {"checking", "unmatched", "quoted"}
          \/ pc[r] = "done" /\ faults > 0

\* Neither a step of the ride's own timer, nor of a handler that clears a timer,
\* nor a fault leaves a requested ride alone.
LEMMA WatchedStep ==
    ASSUME BaseInv, TypeInv', RequestedIsWatched, [Next]_vars, NEW r \in Ride,
           creation'[r] = "armed", status'[r] = "REQUESTED"
    PROVE  Watched(r)'
<1> USE DEF Watched
<1>0. /\ pc \in [Thread -> ThreadStep] /\ timer \in [Ride -> {"none", "running", "fired"}]
      /\ creation \in [Ride -> CreationStep] /\ status \in [Ride -> Status]
      /\ faults \in Nat /\ faults' \in Nat
      /\ r \in Thread /\ r \notin Consumer /\ r \notin Call /\ target[r] = r
  BY RideAssumption DEF BaseInv, TypeInv, TypeOK, ReadInv, Thread, Canceller, Consumer
<1>1. status[r] = "REQUESTED" \/ creation[r] = "none"
  <2>1. status[r] # "NONE" /\ status[r] # "REQUESTED" => status'[r] # "REQUESTED"
    BY StatusMoves
  <2>2. status[r] = "NONE" => creation[r] = "none"
    BY DEF BaseInv, DriverInv
  <2>3. QED
    BY <2>1, <2>2
<1>2. creation[r] = "armed" => Watched(r)
  BY <1>1 DEF RequestedIsWatched
<1>3. faults > 0 => faults' > 0
  <2>1. faults' = faults \/ faults' = faults + 1
    BY DEF Next, vars, budgets, CreateStep, CreateRide, PublishRideRequest,
           StartMatchingTimeout, TimerStep, MatchingTimeout, CheckUnmatched, TimeoutCancels,
           ReadForRefund, PassengerCancels, HandlerStep, CommitCancel, RejectCancel,
           LoadUpdated, Announce, ResponseStep, CommitMatch, DropResponse, AckResponse,
           StatusStep, ReadForStatus, DropReport, CommitStatus, AckReport, DriverStep,
           AcceptOffer, HandleMatched, DriverReports, Fault, PublishRideRequestFails,
           AnnounceUnpublished, DatabaseCallFails, AckLost, Crash,
           HandleMatchedUnacknowledged
  <2>2. QED
    BY <1>0, <2>1
<1> DEFINE Same == creation' = creation /\ timer' = timer /\ pc'[r] = pc[r]
<1>4. Same => Watched(r)'
  BY <1>2, <1>3
<1>5. ASSUME NEW q \in Ride, CreateStep(q) \/ PublishRideRequestFails(q) PROVE Watched(r)'
  BY <1>0, <1>2, <1>3, <1>5
     DEF CreateStep, CreateRide, PublishRideRequest, StartMatchingTimeout,
         PublishRideRequestFails
<1>6. ASSUME NEW q \in Ride, TimerStep(q) PROVE Watched(r)'
  BY <1>0, <1>1, <1>2, <1>3, <1>6
     DEF TimerStep, MatchingTimeout, CheckUnmatched, TimeoutCancels, ReadForRefund, Thread,
         Canceller
<1>7. ASSUME NEW c \in Call, NEW q \in Ride, PassengerCancels(c, q) PROVE Watched(r)'
  BY <1>0, <1>4, <1>7 DEF PassengerCancels, ReadForRefund
<1>8. ASSUME NEW t \in Thread, Announce(t) \/ AnnounceUnpublished(t) PROVE Watched(r)'
  <2>1. /\ pc[t] = "loaded" /\ target[t] \in Ride
        /\ status[target[t]] # "REQUESTED" /\ status' = status /\ creation' = creation
    BY <1>8 DEF Announce, AnnounceUnpublished, BaseInv, TypeInv, RoleInv, ReadInv, WrittenInv, db
  <2>2. target[t] # r /\ t # r
    BY <1>0, <2>1
  <2>3. timer' = timer \/ timer' = [timer EXCEPT ![target[t]] = "none"]
    BY <1>8 DEF Announce, AnnounceUnpublished, ClearMatchingTimeout
  <2>4. timer'[r] = timer[r]
    BY <1>0, <2>1, <2>2, <2>3
  <2>5. pc'[r] = pc[r]
    BY <1>0, <1>8, <2>2 DEF Announce, AnnounceUnpublished, Finish, Leave
  <2>6. QED
    BY <1>2, <1>3, <2>1, <2>4, <2>5
<1>9. ASSUME NEW t \in Thread, CommitCancel(t) \/ RejectCancel(t) \/ LoadUpdated(t)
      PROVE  Watched(r)'
  <2>1. creation' = creation /\ timer' = timer
    BY <1>9 DEF CommitCancel, RejectCancel, LoadUpdated
  <2>2. CASE t # r
    BY <1>0, <1>4, <1>9, <2>1, <2>2 DEF CommitCancel, RejectCancel, LoadUpdated, Leave
  <2>3. CASE t = r
    <3>1. ~ CommitCancel(r)
      BY <1>0 DEF CommitCancel
    <3>2. ~ RejectCancel(r)
      BY <1>0 DEF RejectCancel, Cancellable, db
    <3>3. ~ LoadUpdated(r)
      BY <1>0 DEF LoadUpdated, BaseInv, ReadInv, WrittenInv, db
    <3>4. QED
      BY <1>9, <2>3, <3>1, <3>2, <3>3
  <2>4. QED
    BY <2>2, <2>3
<1>10. ASSUME NEW t \in Thread, HandlerStep(t) PROVE Watched(r)'
  BY <1>8, <1>9, <1>10 DEF HandlerStep
<1>11. CASE ResponseStep \/ StatusStep
  BY <1>0, <1>4, <1>11
     DEF ResponseStep, CommitMatch, DropResponse, AckResponse, StatusStep, ReadForStatus,
         DropReport, CommitStatus, AckReport, Consumer
<1>12. CASE DriverStep \/ HandleMatchedUnacknowledged
  BY <1>4, <1>12
     DEF DriverStep, AcceptOffer, HandleMatched, HandleMatchedUnacknowledged, DriverReports
<1>13. ASSUME NEW t \in Thread, DatabaseCallFails(t) PROVE Watched(r)'
  <2>1. /\ creation' = creation /\ timer' = timer /\ faults' = faults + 1
        /\ pc' = [pc EXCEPT ![t] = IF t \in Consumer THEN "idle" ELSE "done"]
    BY <1>13 DEF DatabaseCallFails, Leave
  <2>2. faults' > 0
    BY <1>0, <2>1
  <2>3. pc'[r] = pc[r] \/ pc'[r] = "done"
    BY <1>0, <2>1
  <2>4. QED
    BY <1>2, <2>1, <2>2, <2>3
<1>14. ASSUME NEW t \in Thread, AckLost(t) PROVE Watched(r)'
  BY <1>0, <1>4, <1>14 DEF AckLost
<1>15. ~ Crash
  BY <1>0 DEF Crash
<1>16. CASE Fault
  BY <1>5, <1>8, <1>12, <1>13, <1>14, <1>15, <1>16 DEF Fault
<1>17. CASE UNCHANGED vars
  BY <1>4, <1>17 DEF vars
<1>18. QED
  BY <1>5, <1>6, <1>7, <1>10, <1>11, <1>12, <1>16, <1>17 DEF Next

\* A ride whose timer was started is watched for as long as it is requested.
THEOREM RequestedIsWatchedCorrect == Spec => []RequestedIsWatched
<1>1. Init => RequestedIsWatched
  BY DEF Init, RequestedIsWatched
<1>2. BaseInv /\ TypeInv' /\ RequestedIsWatched /\ [Next]_vars => RequestedIsWatched'
  BY WatchedStep DEF RequestedIsWatched, Watched
<1>3. QED
  BY <1>1, <1>2, TypeCorrect, BaseCorrect, PTL DEF Spec
-----------------------------------------------------------------------------
(* The service implements RideLifecycle *)

\* The refund of a ride is that of its only cancellation, and nothing without
\* one.
LEMMA RefundOfFacts ==
    ASSUME TypeInv, SettledOnce, NEW r \in Ride
    PROVE  /\ \A k \in DOMAIN trail[r] :
                  trail[r][k].type = "RIDE_CANCELLED" => RefundOf(r) = trail[r][k].refund
           /\ (\A k \in DOMAIN trail[r] : trail[r][k].type # "RIDE_CANCELLED") => RefundOf(r) = 0
<1>1. ASSUME NEW k \in DOMAIN trail[r], trail[r][k].type = "RIDE_CANCELLED"
      PROVE  RefundOf(r) = trail[r][k].refund
  <2> DEFINE i == CHOOSE i \in DOMAIN trail[r] : trail[r][i].type = "RIDE_CANCELLED"
  <2>1. i \in DOMAIN trail[r] /\ trail[r][i].type = "RIDE_CANCELLED"
    BY <1>1
  <2>2. RefundOf(r) = trail[r][i].refund
    BY <1>1 DEF RefundOf
  <2> HIDE DEF i
  <2>3. i \in Nat /\ k \in Nat
    <3>1. trail[r] \in Seq(Event)
      BY DEF TypeInv, TypeOK
    <3>2. QED
      BY <1>1, <2>1, <3>1
  <2>4. ~ (i < k) /\ ~ (k < i)
    BY <1>1, <2>1 DEF SettledOnce
  <2>5. i = k
    BY <2>3, <2>4
  <2>6. QED
    BY <2>2, <2>5
<1>2. (\A k \in DOMAIN trail[r] : trail[r][k].type # "RIDE_CANCELLED") => RefundOf(r) = 0
  BY DEF RefundOf
<1>3. QED
  BY <1>1, <1>2

\* The same facts of the next state.
LEMMA RefundOfNext ==
    ASSUME TypeInv', SettledOnce', NEW r \in Ride
    PROVE  /\ \A k \in DOMAIN trail'[r] :
                  trail'[r][k].type = "RIDE_CANCELLED" => RefundOf(r)' = trail'[r][k].refund
           /\ (\A k \in DOMAIN trail'[r] : trail'[r][k].type # "RIDE_CANCELLED") => RefundOf(r)' = 0
<1>1. ASSUME NEW k \in DOMAIN trail'[r], trail'[r][k].type = "RIDE_CANCELLED"
      PROVE  RefundOf(r)' = trail'[r][k].refund
  <2> DEFINE i == CHOOSE i \in DOMAIN trail'[r] : trail'[r][i].type = "RIDE_CANCELLED"
  <2>1. i \in DOMAIN trail'[r] /\ trail'[r][i].type = "RIDE_CANCELLED"
    BY <1>1
  <2>2. RefundOf(r)' = trail'[r][i].refund
    BY <1>1 DEF RefundOf
  <2> HIDE DEF i
  <2>3. i \in Nat /\ k \in Nat
    <3>1. trail'[r] \in Seq(Event)
      BY DEF TypeInv, TypeOK
    <3>2. QED
      BY <1>1, <2>1, <3>1
  <2>4. ~ (i < k) /\ ~ (k < i)
    BY <1>1, <2>1 DEF SettledOnce
  <2>5. i = k
    BY <2>3, <2>4
  <2>6. QED
    BY <2>2, <2>5
<1>2. (\A k \in DOMAIN trail'[r] : trail'[r][k].type # "RIDE_CANCELLED") => RefundOf(r)' = 0
  BY DEF RefundOf
<1>3. QED
  BY <1>1, <1>2

\* A row that is no cancellation leaves every refund as it is; a cancellation
\* makes its own refund that of its ride, which had none.
LEMMA RefundOfEntry ==
    ASSUME TypeInv, TrailInv, TypeInv', TrailInv', NEW r \in Ride, NEW e \in Event, Enters(r, e)
    PROVE  /\ \A q \in Ride \ {r} : RefundOf(q)' = RefundOf(q)
           /\ e.type # "RIDE_CANCELLED" => RefundOf(r)' = RefundOf(r)
           /\ e.type = "RIDE_CANCELLED" => RefundOf(r)' = e.refund
<1> DEFINE n == Len(trail[r]) + 1
<1>1. /\ n \in Nat \ {0}
      /\ DOMAIN trail[r] = 1 .. n - 1
      /\ DOMAIN trail'[r] = 1 .. n
      /\ \A i \in 1 .. n - 1 : trail'[r][i] = trail[r][i]
      /\ trail'[r][n] = e
      /\ \A q \in Ride \ {r} : trail'[q] = trail[q]
  BY EntryFacts
<1>2. \A q \in Ride \ {r} : RefundOf(q)' = RefundOf(q)
  BY <1>1 DEF RefundOf
<1>3. /\ \A k \in DOMAIN trail[r] :
             trail[r][k].type = "RIDE_CANCELLED" => RefundOf(r) = trail[r][k].refund
      /\ (\A k \in DOMAIN trail[r] : trail[r][k].type # "RIDE_CANCELLED") => RefundOf(r) = 0
  BY RefundOfFacts DEF TrailInv
<1>4. /\ \A k \in DOMAIN trail'[r] :
             trail'[r][k].type = "RIDE_CANCELLED" => RefundOf(r)' = trail'[r][k].refund
      /\ (\A k \in DOMAIN trail'[r] : trail'[r][k].type # "RIDE_CANCELLED") => RefundOf(r)' = 0
  BY RefundOfNext DEF TrailInv
<1>5. n \in 1 .. n /\ \A i \in 1 .. n : i = n \/ i \in 1 .. n - 1
  BY <1>1
<1>6. e.type = "RIDE_CANCELLED" => RefundOf(r)' = e.refund
  BY <1>1, <1>4, <1>5
<1>7. ASSUME e.type # "RIDE_CANCELLED" PROVE RefundOf(r)' = RefundOf(r)
  <2>1. CASE \E k \in 1 .. n - 1 : trail[r][k].type = "RIDE_CANCELLED"
    <3>1. PICK k \in 1 .. n - 1 : trail[r][k].type = "RIDE_CANCELLED"
      BY <2>1
    <3>2. k \in 1 .. n /\ trail'[r][k] = trail[r][k]
      BY <1>1, <3>1
    <3>3. QED
      BY <1>1, <1>3, <1>4, <3>1, <3>2
  <2>2. CASE \A k \in 1 .. n - 1 : trail[r][k].type # "RIDE_CANCELLED"
    BY <1>1, <1>3, <1>4, <1>5, <1>7, <2>2
  <2>3. QED
    BY <2>1, <2>2
<1>8. QED
  BY <1>2, <1>6, <1>7

\* A transaction of the service is one operation of the lifecycle, every other
\* step a stutter.
LEMMA LifecycleStep ==
    ASSUME BaseInv, TrailInv, TypeInv', TrailInv', [Next]_vars
    PROVE  [Lifecycle!Next]_(Lifecycle!lifecycle)
<1> DEFINE refunds == [r \in Ride |-> RefundOf(r)]
<1>0. /\ status \in [Ride -> Status] /\ driver \in [Ride -> Driver \cup {NoDriver}]
  BY DEF BaseInv, TypeInv, TypeOK
<1>1. ASSUME NEW r \in Ride, NEW e \in Event, Enters(r, e)
      PROVE  /\ e.type # "RIDE_CANCELLED" => refunds' = refunds
             /\ e.type = "RIDE_CANCELLED" => refunds' = [refunds EXCEPT ![r] = e.refund]
  BY <1>1, RefundOfEntry DEF BaseInv
<1>2. CASE UNCHANGED <<status, driver, trail>>
  <2>1. \A r \in Ride : RefundOf(r)' = RefundOf(r)
    BY <1>2 DEF RefundOf
  <2>2. refunds' = refunds
    BY <2>1
  <2>3. QED
    BY <1>2, <2>2 DEF Lifecycle!lifecycle
<1>3. ASSUME NEW r \in Ride, CreateRide(r) PROVE Lifecycle!Next
  <2> DEFINE e == Change("RIDE_REQUESTED", "NONE", "REQUESTED")
  <2>1. status[r] = "NONE" /\ e \in Event /\ Enters(r, e)
    BY <1>3, CreationEnters
  <2>2. /\ refunds' = refunds /\ driver' = driver
        /\ status' = [status EXCEPT ![r] = "REQUESTED"]
    BY <1>1, <1>3, <2>1 DEF CreateRide, Change
  <2>3. Lifecycle!Request(r)
    BY <2>1, <2>2 DEF Lifecycle!Request
  <2>4. QED
    BY <2>3 DEF Lifecycle!Next
<1>4. ASSUME NEW t \in Thread, CommitCancel(t) PROVE Lifecycle!Next
  <2> DEFINE r == target[t]
             e == [type |-> "RIDE_CANCELLED", old |-> status[r],
                   new |-> "CANCELLED", refund |-> quote[t]]
  <2>1. r \in Ride /\ e \in Event /\ Enters(r, e)
    BY <1>4, CancelEnters
  <2>2. /\ driver' = driver /\ status[r] \in {"REQUESTED", "MATCHED"}
        /\ status' = [status EXCEPT ![r] = "CANCELLED"]
    BY <1>4 DEF CommitCancel, Cancellable
  <2>3. refunds' = [refunds EXCEPT ![r] = quote[t]]
    BY <1>1, <2>1
  <2>4. quote[t] \in {0, 80, 100} /\ quote[t] >= CalculateRefund(status[r])
    BY <2>1 DEF Event, Enters, Legal
  <2>5. quote[t] \in {80, 100} /\ quote[t] >= Lifecycle!Entitled(status[r])
    BY <2>2, <2>4 DEF CalculateRefund, Lifecycle!Entitled
  <2>6. Lifecycle!Cancel(r, quote[t])
    BY <2>2, <2>3, <2>5 DEF Lifecycle!Cancel
  <2>7. QED
    BY <2>1, <2>5, <2>6 DEF Lifecycle!Next
<1>5. CASE CommitMatch
  <2> DEFINE r == Head(responseQ).ride
             d == Head(responseQ).driver
             e == Change("DRIVER_MATCHED", "REQUESTED", "MATCHED")
  <2>1. r \in Ride /\ d \in Driver /\ status[r] = "REQUESTED" /\ e \in Event /\ Enters(r, e)
    BY <1>5, MatchEnters
  <2>2. /\ refunds' = refunds
        /\ status' = [status EXCEPT ![r] = "MATCHED"]
        /\ driver' = [driver EXCEPT ![r] = d]
    BY <1>1, <1>5, <2>1 DEF CommitMatch, Change
  <2>3. Lifecycle!Match(r, d)
    BY <2>1, <2>2 DEF Lifecycle!Match
  <2>4. QED
    BY <2>1, <2>3 DEF Lifecycle!Next
<1>6. CASE CommitStatus
  <2> DEFINE r == target["statuses"]
             new == NewStatus(Head(statusQ).status, view["statuses"])
             e == Change("STATUS_CHANGED", status[r], new)
  <2>1. r \in Ride /\ e \in Event /\ Enters(r, e)
    BY <1>6, StatusEnters
  <2>2. /\ refunds' = refunds /\ driver' = driver
        /\ status' = [status EXCEPT ![r] = new]
    BY <1>1, <1>6, <2>1 DEF CommitStatus, Change
  <2>3. /\ new \in {"EN_ROUTE", "ARRIVED", "IN_PROGRESS", "COMPLETED"}
        /\ status[r] \notin {"NONE", new}
        /\ status[r] = "REQUESTED" => new = "IN_PROGRESS"
        /\ new = "COMPLETED" => status[r] = "IN_PROGRESS"
    BY <2>1 DEF Enters, Legal, Change
  <2>4. CASE new = "COMPLETED"
    BY <2>1, <2>2, <2>3, <2>4 DEF Lifecycle!Complete, Lifecycle!Next
  <2>5. CASE new # "COMPLETED"
    <3>1. Lifecycle!Advance(r, new)
      BY <2>1, <2>2, <2>3 DEF Lifecycle!Advance
    <3>2. new \in {"EN_ROUTE", "ARRIVED", "IN_PROGRESS"}
      BY <2>3, <2>5
    <3>3. QED
      BY <2>1, <3>1, <3>2 DEF Lifecycle!Next
  <2>6. QED
    BY <2>4, <2>5
<1>7. CASE \E r \in Ride : CreateRide(r)
  BY <1>3, <1>7
<1>8. CASE \E t \in Thread : CommitCancel(t)
  BY <1>4, <1>8
<1>9. QED
  BY <1>2, <1>5, <1>6, <1>7, <1>8, OnlyTransactions

\* Whatever the goroutines do in whatever order, and whatever fails, status,
\* driver and refund of every ride change as RideLifecycle says.
THEOREM LifecycleImplemented == Spec => ImplementsLifecycle
<1>1. Init => Lifecycle!Init
  <2> SUFFICES ASSUME Init PROVE Lifecycle!Init
    OBVIOUS
  <2>1. \A r \in Ride : trail[r] = <<>>
    BY DEF Init
  <2>2. DOMAIN <<>> = {}
    OBVIOUS
  <2>3. \A r \in Ride : RefundOf(r) = 0
    BY <2>1, <2>2, Zenon DEF RefundOf
  <2>4. QED
    BY <2>3 DEF Init, Lifecycle!Init
<1>2. BaseInv /\ TrailInv /\ TypeInv' /\ TrailInv' /\ [Next]_vars
          => [Lifecycle!Next]_(Lifecycle!lifecycle)
  BY LifecycleStep
<1>3. QED
  BY <1>1, <1>2, TypeCorrect, BaseCorrect, TrailCorrect, PTL
     DEF Spec, ImplementsLifecycle, Lifecycle!Spec
=============================================================================
