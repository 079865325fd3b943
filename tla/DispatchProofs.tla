--------------------------- MODULE DispatchProofs ---------------------------
(***************************************************************************)
(* Proofs about Dispatch, for any number of rides, drivers, searches,      *)
(* candidates and faults.                                                  *)
(***************************************************************************)
EXTENDS Dispatch, TLAPS

SearchTypeOK ==
    /\ requests \subseteq Ride
    /\ search \in [Search -> SearchStep]
    /\ request \in [Search -> Ride \cup {NoRide}]
    /\ candidates \in [Search -> Seq(Driver)]
    /\ pending \subseteq Search \X Driver
    /\ replies \subseteq Search \X Driver \X BOOLEAN

\* A search that is on has a ride, and one that has made an offer a driver.
SearchInv ==
    \A g \in Search :
        /\ search[g] # "idle" => request[g] \in Ride
        /\ search[g] \in {"waiting", "accepted", "marked"} => candidates[g] # <<>>

\* A reply waits only in the channel of a pending offer, and whoever accepted
\* has agreed.
ReplyInv ==
    \A g \in Search, d \in Driver, a \in BOOLEAN :
        <<g, d, a>> \in replies =>
            /\ <<g, d>> \in pending
            /\ a => <<request[g], d>> \in agreed

\* A search that has been accepted was accepted by its current driver.
AcceptInv ==
    \A g \in Search : search[g] \in {"accepted", "marked"}
                          => <<request[g], Head(candidates[g])>> \in agreed

OfferInv == SearchTypeOK /\ SearchInv /\ PendingIsAwaited /\ ReplyInv /\ AcceptInv

\* What the library says of sequences, for the lists of candidates.
LEMMA HeadAndTail ==
    ASSUME NEW list \in Seq(Driver), list # <<>>
    PROVE  Head(list) \in Driver /\ Tail(list) \in Seq(Driver)
  OBVIOUS

\* A list of candidates is a sequence of drivers.
LEMMA CandidatesAreDrivers ==
    ASSUME NEW available \in SUBSET Driver, NEW list \in CandidateList(available)
    PROVE  list \in Seq(Driver)
<1>1. PICK n \in 0 .. MaxCandidates : list \in [1 .. n -> available]
  BY DEF CandidateList
<1>2. n \in Nat /\ list \in [1 .. n -> Driver]
  BY <1>1, CandidateAssumption
<1> QED
  BY <1>2

\* No search has made an offer.
LEMMA OfferInit == Init => OfferInv
  BY DEF Init, OfferInv, SearchTypeOK, SearchInv, PendingIsAwaited, ReplyInv,
         AcceptInv, SearchStep

\* The steps of a search that has no offer open and makes none.
LEMMA OfferSearch ==
    ASSUME OfferInv, NEW g \in Search,
           FindNearbyDrivers(g) \/ FindFails(g) \/ Exhausted(g) \/ Unreachable(g)
           \/ MarkEnRoute(g) \/ MarkFails(g) \/ PublishMatch(g) \/ PublishFails(g)
    PROVE  OfferInv'
<1> USE DEF OfferInv
<1>1. /\ search' = [search EXCEPT ![g] = search'[g]]
      /\ candidates' = [candidates EXCEPT ![g] = candidates'[g]]
      /\ UNCHANGED <<requests, request, pending, replies, agreed>>
  BY DEF SearchTypeOK, FindNearbyDrivers, FindFails, Exhausted, Unreachable,
         MarkEnRoute, MarkFails, PublishMatch, PublishFails, Goto, Return, NextDriver,
         queues, offers
<1>2. /\ search[g] \in {"querying", "offering", "accepted", "marked"}
      /\ search'[g] \in {"offering", "marked", "done"}
      /\ search'[g] = "marked" => search[g] = "accepted" /\ candidates' = candidates
      /\ candidates'[g] \in Seq(Driver)
  <2>1. CASE FindNearbyDrivers(g)
    <3>1. candidates'[g] \in CandidateList({d \in Driver : driverStatus[d] = "AVAILABLE"})
      BY <2>1 DEF FindNearbyDrivers, SearchTypeOK
    <3> QED
      BY <2>1, <3>1, CandidatesAreDrivers DEF FindNearbyDrivers, Goto, SearchTypeOK
  <2>2. CASE Unreachable(g)
    BY <2>2, HeadAndTail DEF Unreachable, NextDriver, SearchTypeOK
  <2>3. CASE FindFails(g) \/ Exhausted(g)
    BY <2>3 DEF FindFails, Exhausted, Goto, SearchTypeOK
  <2>4. CASE MarkEnRoute(g) \/ MarkFails(g)
    BY <2>4 DEF MarkEnRoute, MarkFails, Goto, SearchTypeOK
  <2>5. CASE PublishMatch(g) \/ PublishFails(g)
    <3>1. search[g] = "marked" /\ search'[g] = "done" /\ candidates'[g] = <<>>
      BY <2>5 DEF PublishMatch, PublishFails, Return, Goto, SearchTypeOK
    <3> QED
      BY <3>1
  <2> QED
    BY <2>1, <2>2, <2>3, <2>4, <2>5
<1>3. SearchTypeOK'
  BY <1>1, <1>2 DEF SearchTypeOK, SearchStep
<1>4. SearchInv'
  BY <1>1, <1>2 DEF SearchTypeOK, SearchInv
<1>5. PendingIsAwaited'
  <2>1. \A h \in Search : h # g => search'[h] = search[h] /\ candidates'[h] = candidates[h]
    BY <1>1 DEF SearchTypeOK
  <2>2. search[g] # "waiting" /\ search'[g] # "waiting"
    BY <1>2
  <2> QED
    BY <1>1, <2>1, <2>2 DEF PendingIsAwaited
<1>6. ReplyInv'
  BY <1>1 DEF ReplyInv
<1>7. AcceptInv'
  BY <1>1, <1>2 DEF SearchTypeOK, AcceptInv
<1> QED
  BY <1>3, <1>4, <1>5, <1>6, <1>7

\* A search makes an offer.
LEMMA OfferMade ==
    ASSUME OfferInv, NEW g \in Search, OfferToDriver(g)
    PROVE  OfferInv'
<1> USE DEF OfferInv
<1> DEFINE d == Head(candidates[g])
<1>1. /\ search[g] = "offering" /\ candidates[g] # <<>>
      /\ search' = [search EXCEPT ![g] = "waiting"]
      /\ pending' = pending \cup {<<g, d>>}
      /\ UNCHANGED <<requests, request, candidates, replies, agreed>>
  BY DEF OfferToDriver, Goto, queues
<1>2. d \in Driver
  BY <1>1, HeadAndTail DEF SearchTypeOK
<1>3. SearchTypeOK'
  BY <1>1, <1>2 DEF SearchTypeOK, SearchStep
<1>4. SearchInv'
  BY <1>1 DEF SearchTypeOK, SearchInv
<1>5. PendingIsAwaited'
  BY <1>1 DEF SearchTypeOK, PendingIsAwaited
<1>6. ReplyInv'
  BY <1>1 DEF ReplyInv
<1>7. AcceptInv'
  BY <1>1 DEF SearchTypeOK, AcceptInv
<1> QED
  BY <1>3, <1>4, <1>5, <1>6, <1>7

\* An offer ends: accepted, rejected or expired.
LEMMA OfferEnds ==
    ASSUME OfferInv, NEW g \in Search, Accepted(g) \/ Rejected(g) \/ OfferTimeout(g)
    PROVE  OfferInv'
<1> USE DEF OfferInv
<1> DEFINE d == Head(candidates[g])
<1>1. /\ search[g] = "waiting"
      /\ pending' = pending \ {<<g, d>>}
      /\ replies' = replies \ {<<g, d, a>> : a \in BOOLEAN}
      /\ \/ /\ search' = [search EXCEPT ![g] = "accepted"]
            /\ candidates' = candidates
            /\ <<g, d, TRUE>> \in replies
         \/ /\ search' = [search EXCEPT ![g] = "offering"]
            /\ candidates' = [candidates EXCEPT ![g] = Tail(@)]
      /\ UNCHANGED <<requests, request, agreed>>
  BY DEF Accepted, Rejected, OfferTimeout, Withdraw, Goto, NextDriver, queues
<1>2. d \in Driver /\ Tail(candidates[g]) \in Seq(Driver)
  BY <1>1, HeadAndTail DEF SearchTypeOK, SearchInv
<1>3. SearchTypeOK'
  BY <1>1, <1>2 DEF SearchTypeOK, SearchStep
<1>4. SearchInv'
  BY <1>1 DEF SearchTypeOK, SearchInv
<1>5. PendingIsAwaited'
  <2>1. \A h \in Search : h # g => search'[h] = search[h] /\ candidates'[h] = candidates[h]
    BY <1>1 DEF SearchTypeOK
  <2>2. search'[g] # "waiting"
    BY <1>1 DEF SearchTypeOK
  <2> QED
    BY <1>1, <2>1, <2>2 DEF PendingIsAwaited
<1>6. ReplyInv'
  <2>1. \A h \in Search, e \in Driver, a \in BOOLEAN :
            <<h, e, a>> \in replies' => <<h, e, a>> \in replies /\ <<h, e>> # <<g, d>>
    BY <1>1
  <2> QED
    BY <1>1, <2>1 DEF ReplyInv
<1>7. AcceptInv'
  <2>1. <<g, d, TRUE>> \in replies => <<request[g], d>> \in agreed
    BY <1>2 DEF ReplyInv
  <2> QED
    BY <1>1, <2>1 DEF SearchTypeOK, AcceptInv
<1> QED
  BY <1>3, <1>4, <1>5, <1>6, <1>7

\* A driver answers.
LEMMA OfferAnswered ==
    ASSUME OfferInv, NEW g \in Search, NEW d \in Driver, NEW accepted \in BOOLEAN,
           HandleDriverResponse(<<g, d>>, accepted)
    PROVE  OfferInv'
<1> USE DEF OfferInv
<1>1. /\ agreed \subseteq agreed'
      /\ UNCHANGED <<requests, search, request, candidates, pending>>
  BY DEF HandleDriverResponse, queues
<1>2. /\ replies' \subseteq replies \cup {<<g, d, accepted>>}
      /\ replies' # replies => /\ <<g, d>> \in pending
                               /\ accepted => <<request[g], d>> \in agreed'
  BY DEF HandleDriverResponse
<1>3. SearchTypeOK'
  BY <1>1, <1>2 DEF SearchTypeOK
<1>4. SearchInv' /\ PendingIsAwaited'
  BY <1>1 DEF SearchInv, PendingIsAwaited
<1>5. ReplyInv'
  BY <1>1, <1>2 DEF ReplyInv
<1>6. AcceptInv'
  BY <1>1 DEF AcceptInv
<1> QED
  BY <1>3, <1>4, <1>5, <1>6

\* A ride is taken up by a search.
LEMMA OfferTaken ==
    ASSUME OfferInv, NEW g \in Search, NEW r \in Ride, HandleRideRequest(g, r)
    PROVE  OfferInv'
<1> USE DEF OfferInv
<1>1. /\ search[g] = "idle" /\ search' = [search EXCEPT ![g] = "querying"]
      /\ request' = [request EXCEPT ![g] = r]
      /\ requests' \subseteq requests
      /\ UNCHANGED <<candidates, pending, replies, agreed>>
  BY DEF HandleRideRequest, Goto, offers
<1>2. \A d \in Driver : <<g, d>> \notin pending
  BY <1>1 DEF PendingIsAwaited
<1>3. SearchTypeOK'
  BY <1>1 DEF SearchTypeOK, SearchStep
<1>4. SearchInv'
  BY <1>1 DEF SearchTypeOK, SearchInv
<1>5. PendingIsAwaited'
  BY <1>1 DEF SearchTypeOK, PendingIsAwaited
<1>6. ReplyInv'
  BY <1>1, <1>2 DEF SearchTypeOK, ReplyInv
<1>7. AcceptInv'
  BY <1>1 DEF SearchTypeOK, AcceptInv
<1> QED
  BY <1>3, <1>4, <1>5, <1>6, <1>7

\* The service is started anew.
LEMMA OfferCrash == OfferInv /\ Crash => OfferInv'
<1> SUFFICES ASSUME OfferInv, Crash
             PROVE  OfferInv'
  OBVIOUS
<1>1. /\ search' = [g \in Search |-> IF search[g] = "idle" THEN "idle" ELSE "done"]
      /\ pending' = {} /\ replies' = {}
      /\ candidates' = [g \in Search |-> <<>>]
      /\ UNCHANGED <<requests, request, agreed>>
  BY DEF Crash, queues
<1>2. SearchTypeOK'
  BY <1>1 DEF OfferInv, SearchTypeOK, SearchStep
<1>3. SearchInv' /\ PendingIsAwaited' /\ ReplyInv' /\ AcceptInv'
  BY <1>1 DEF OfferInv, SearchInv, PendingIsAwaited, ReplyInv, AcceptInv
<1> QED
  BY <1>2, <1>3 DEF OfferInv

\* Everything else leaves the offers alone.
LEMMA OfferOther ==
    ASSUME OfferInv,
           requests' \subseteq Ride,
           UNCHANGED <<search, request, candidates, pending, replies, agreed>>
    PROVE  OfferInv'
  BY DEF OfferInv, SearchTypeOK, SearchInv, PendingIsAwaited, ReplyInv, AcceptInv

\* Every step keeps the offers in order.
LEMMA OfferStep == OfferInv /\ [Next]_vars => OfferInv'
<1> SUFFICES ASSUME OfferInv, [Next]_vars
             PROVE  OfferInv'
  OBVIOUS
<1>1. requests \subseteq Ride
  BY DEF OfferInv, SearchTypeOK
<1>2. CASE \E g \in Search : SearchNext(g)
  BY <1>2, OfferSearch, OfferMade, OfferEnds DEF SearchNext
<1>3. CASE \E d \in Driver : DriverNext(d)
  <2> PICK d \in Driver : DriverNext(d)
    BY <1>3
  <2>1. CASE HandleOnline(d) \/ HandleOffline(d) \/ HandleStart(d) \/ HandleComplete(d)
    BY <2>1, <1>1, OfferOther
    DEF HandleOnline, HandleOffline, HandleStart, HandleComplete, queues, offers
  <2>2. CASE \E r \in Ride : CheckArrived(d, r) \/ SetArrived(d, r)
    BY <2>2, <1>1, OfferOther DEF CheckArrived, SetArrived, queues, offers
  <2>3. CASE \E g \in Search, a \in BOOLEAN : HandleDriverResponse(<<g, d>>, a)
    BY <2>3, OfferAnswered
  <2> QED
    BY <2>1, <2>2, <2>3 DEF DriverNext
<1>4. CASE \E r \in Ride : RideNext(r)
  <2> PICK r \in Ride : RideNext(r)
    BY <1>4
  <2>1. CASE Request(r) \/ Cancel(r)
    BY <2>1, <1>1, OfferOther DEF Request, Cancel, queues, offers
  <2>2. CASE \E g \in Search : HandleRideRequest(g, r)
    BY <2>2, OfferTaken
  <2>3. CASE \E d \in Driver : Match(<<r, d>>) \/ HandleRideStatus(<<r, d>>)
    BY <2>3, <1>1, OfferOther DEF Match, HandleRideStatus, offers
  <2>4. CASE \E s \in {"EN_ROUTE", "ARRIVED", "IN_PROGRESS", "COMPLETED"} : Advance(r, s)
    BY <2>4, <1>1, OfferOther DEF Advance, queues, offers
  <2> QED
    BY <2>1, <2>2, <2>3, <2>4 DEF RideNext
<1>5. CASE Crash
  BY <1>5, OfferCrash
<1>6. CASE UNCHANGED vars
  BY <1>6, <1>1, OfferOther DEF vars
<1> QED
  BY <1>2, <1>3, <1>4, <1>5, <1>6 DEF Next

\* The offers of every search are in order in every state.
THEOREM OfferCorrect == Spec => []OfferInv
  BY OfferInit, OfferStep, PTL DEF Spec

\* PendingIsAwaited: m.pending holds what is waited for, and nothing else
\* (matching.go:81-89).
THEOREM PendingIsAwaitedCorrect == Spec => []PendingIsAwaited
  BY OfferCorrect, PTL DEF OfferInv
-----------------------------------------------------------------------------
(* Who gets the ride *)

RideTypeOK ==
    /\ rideStatus \in [Ride -> RideStatus]
    /\ rideDriver \in [Ride -> Driver \cup {NoDriver}]
    /\ responses \subseteq Ride \X Driver
    /\ matched \subseteq Ride \X Driver

\* A ride has no driver before its match, and then the one that is announced.
RideInv ==
    /\ \A r \in Ride : rideStatus[r] \in {"NONE", "REQUESTED"} => rideDriver[r] = NoDriver
    /\ \A r \in Ride, d \in Driver : <<r, d>> \in matched => rideDriver[r] = d

AgreedInv == OfferInv /\ RideTypeOK /\ RideInv /\ DriverHasAgreed

\* Nothing is matched.
LEMMA AgreedInit == Init => AgreedInv
  BY OfferInit, NothingAssumption
  DEF Init, AgreedInv, RideTypeOK, RideStatus, RideInv, DriverHasAgreed

\* The search publishes a match with the driver who accepted.
LEMMA AgreedPublish ==
    ASSUME AgreedInv, NEW g \in Search, PublishMatch(g)
    PROVE  RideTypeOK' /\ RideInv' /\ DriverHasAgreed'
<1> DEFINE r == request[g]
           d == Head(candidates[g])
<1>1. /\ search[g] = "marked"
      /\ responses' = responses \cup {<<r, d>>}
      /\ UNCHANGED <<rideStatus, rideDriver, matched, agreed>>
  BY DEF PublishMatch, database, offers
<1>2. r \in Ride /\ d \in Driver
  BY <1>1, HeadAndTail DEF AgreedInv, OfferInv, SearchTypeOK, SearchInv
<1>3. <<r, d>> \in agreed
  BY <1>1 DEF AgreedInv, OfferInv, AcceptInv
<1> HIDE DEF r, d
<1>4. RideTypeOK'
  BY <1>1, <1>2 DEF AgreedInv, RideTypeOK
<1>5. RideInv'
  BY <1>1 DEF AgreedInv, RideInv
<1>6. DriverHasAgreed'
  BY <1>1, <1>3 DEF AgreedInv, DriverHasAgreed
<1> QED
  BY <1>4, <1>5, <1>6

\* The ride service takes the match, or drops it.
LEMMA AgreedMatch ==
    ASSUME AgreedInv, NEW r \in Ride, NEW d \in Driver, Match(<<r, d>>)
    PROVE  RideTypeOK' /\ RideInv' /\ DriverHasAgreed'
<1>1. /\ <<r, d>> \in responses
      /\ responses' \subseteq responses
      /\ agreed' = agreed
  BY DEF Match, offers
<1>2. CASE rideStatus[r] = "REQUESTED"
  <2>1. /\ rideStatus' = [rideStatus EXCEPT ![r] = "MATCHED"]
        /\ rideDriver' = [rideDriver EXCEPT ![r] = d]
        /\ matched' = matched \cup {<<r, d>>}
        /\ rideDriver[r] = NoDriver
    BY <1>2 DEF Match, AgreedInv, RideInv
  <2>2. RideTypeOK'
    BY <1>1, <2>1 DEF AgreedInv, RideTypeOK, RideStatus
  <2>3. \A q \in Ride, e \in Driver : <<q, e>> \in matched => q # r
    BY <2>1, NothingAssumption DEF AgreedInv, RideInv
  <2>4. RideInv'
    BY <2>1, <2>3 DEF AgreedInv, RideTypeOK, RideInv
  <2>5. DriverHasAgreed'
    BY <1>1, <2>1 DEF AgreedInv, RideTypeOK, DriverHasAgreed
  <2> QED
    BY <2>2, <2>4, <2>5
<1>3. CASE rideStatus[r] # "REQUESTED"
  <2>1. UNCHANGED <<rideStatus, rideDriver, matched>>
    BY <1>3 DEF Match
  <2> QED
    BY <1>1, <2>1 DEF AgreedInv, RideTypeOK, RideInv, DriverHasAgreed
<1> QED
  BY <1>2, <1>3

\* The status of a ride changes in the ride service.
LEMMA AgreedMoves ==
    ASSUME AgreedInv, NEW r \in Ride, NEW s \in RideStatus,
           rideStatus' = [rideStatus EXCEPT ![r] = s],
           s = "REQUESTED" => rideDriver[r] = NoDriver,
           s # "NONE",
           UNCHANGED <<rideDriver, responses, matched, agreed>>
    PROVE  RideTypeOK' /\ RideInv' /\ DriverHasAgreed'
<1>1. RideTypeOK'
  BY DEF AgreedInv, RideTypeOK
<1>2. RideInv'
  BY DEF AgreedInv, RideTypeOK, RideInv
<1>3. DriverHasAgreed'
  BY DEF AgreedInv, DriverHasAgreed
<1> QED
  BY <1>1, <1>2, <1>3

\* Everything else leaves the rides alone; more drivers may have agreed.
LEMMA AgreedOther ==
    ASSUME AgreedInv,
           matched' \subseteq matched, agreed \subseteq agreed',
           UNCHANGED <<rideStatus, rideDriver, responses>>
    PROVE  RideTypeOK' /\ RideInv' /\ DriverHasAgreed'
  BY DEF AgreedInv, RideTypeOK, RideInv, DriverHasAgreed

\* Every step gives a ride only to a driver who agreed.
LEMMA AgreedStep == AgreedInv /\ [Next]_vars => AgreedInv'
<1> SUFFICES ASSUME AgreedInv, [Next]_vars
             PROVE  RideTypeOK' /\ RideInv' /\ DriverHasAgreed'
  BY OfferStep DEF AgreedInv
<1>1. CASE \E g \in Search : SearchNext(g)
  <2> PICK g \in Search : SearchNext(g)
    BY <1>1
  <2>1. CASE PublishMatch(g)
    BY <2>1, AgreedPublish
  <2>2. CASE FindNearbyDrivers(g) \/ FindFails(g) \/ Exhausted(g) \/ Unreachable(g)
    BY <2>2, AgreedOther
    DEF FindNearbyDrivers, FindFails, Exhausted, Unreachable, database, queues, offers
  <2>3. CASE OfferToDriver(g) \/ Accepted(g) \/ Rejected(g) \/ OfferTimeout(g)
    BY <2>3, AgreedOther
    DEF OfferToDriver, Accepted, Rejected, OfferTimeout, database, queues
  <2>4. CASE MarkEnRoute(g) \/ MarkFails(g) \/ PublishFails(g)
    BY <2>4, AgreedOther DEF MarkEnRoute, MarkFails, PublishFails, database, queues, offers
  <2> QED
    BY <2>1, <2>2, <2>3, <2>4 DEF SearchNext
<1>2. CASE \E d \in Driver : DriverNext(d)
  <2> PICK d \in Driver : DriverNext(d)
    BY <1>2
  <2>1. CASE HandleOnline(d) \/ HandleOffline(d) \/ HandleStart(d) \/ HandleComplete(d)
    BY <2>1, AgreedOther
    DEF HandleOnline, HandleOffline, HandleStart, HandleComplete, queues, offers
  <2>2. CASE \E r \in Ride : CheckArrived(d, r) \/ SetArrived(d, r)
    BY <2>2, AgreedOther DEF CheckArrived, SetArrived, database, queues, offers
  <2>3. CASE \E g \in Search, a \in BOOLEAN : HandleDriverResponse(<<g, d>>, a)
    <3>1. agreed \subseteq agreed'
      BY <2>3 DEF HandleDriverResponse
    <3> QED
      BY <2>3, <3>1, AgreedOther DEF HandleDriverResponse, database, queues
  <2> QED
    BY <2>1, <2>2, <2>3 DEF DriverNext
<1>3. CASE \E r \in Ride : RideNext(r)
  <2> PICK r \in Ride : RideNext(r)
    BY <1>3
  <2>1. CASE Request(r)
    <3>1. rideDriver[r] = NoDriver
      BY <2>1 DEF Request, AgreedInv, RideInv
    <3> QED
      BY <2>1, <3>1, AgreedMoves DEF Request, RideStatus, offers
  <2>2. CASE Cancel(r)
    BY <2>2, AgreedMoves DEF Cancel, RideStatus, queues, offers
  <2>3. CASE \E g \in Search : HandleRideRequest(g, r)
    BY <2>3, AgreedOther DEF HandleRideRequest, database, offers
  <2>4. CASE \E d \in Driver : Match(<<r, d>>)
    BY <2>4, AgreedMatch
  <2>5. CASE \E d \in Driver : HandleRideStatus(<<r, d>>)
    BY <2>5, AgreedOther DEF HandleRideStatus, offers
  <2>6. CASE \E s \in {"EN_ROUTE", "ARRIVED", "IN_PROGRESS", "COMPLETED"} : Advance(r, s)
    BY <2>6, AgreedMoves DEF Advance, RideStatus, queues, offers
  <2> QED
    BY <2>1, <2>2, <2>3, <2>4, <2>5, <2>6 DEF RideNext
<1>4. CASE Crash
  BY <1>4, AgreedOther DEF Crash, database, queues
<1>5. CASE UNCHANGED vars
  BY <1>5, AgreedOther DEF vars
<1> QED
  BY <1>1, <1>2, <1>3, <1>4, <1>5 DEF Next

\* In every state the driver of each ride agreed to it.
THEOREM AgreedCorrect == Spec => []AgreedInv
  BY AgreedInit, AgreedStep, PTL DEF Spec

\* DriverHasAgreed: no late answer is taken for the offer of another driver, or
\* of another ride (matching.go:192-199).
THEOREM DriverHasAgreedCorrect == Spec => []DriverHasAgreed
  BY AgreedCorrect, PTL DEF AgreedInv
-----------------------------------------------------------------------------
(* The driver of a published match is not offered others *)

Taken(d) == driverStatus[d] \in {"EN_ROUTE", "ARRIVED", "BUSY"}

\* From the mark on, through the match that waits in a queue, to the ride.
Engaged(r, d) ==
    \/ \E g \in Search : search[g] = "marked" /\ request[g] = r /\ Head(candidates[g]) = d
    \/ <<r, d>> \in responses \cup matched
    \/ rideDriver[r] = d

TakenInv ==
    \A r \in Ride, d \in Driver :
        Engaged(r, d) /\ r \notin unmarked /\ <<r, d>> \notin freed => Taken(d)

EngagedInv == AgreedInv /\ driverStatus \in [Driver -> DriverStatus] /\ TakenInv

\* Nobody is engaged at the start.
LEMMA EngagedInit == Init => EngagedInv
<1> SUFFICES ASSUME Init
             PROVE  TakenInv /\ driverStatus \in [Driver -> DriverStatus]
  BY AgreedInit DEF EngagedInv
<1>1. \A r \in Ride, d \in Driver : ~ Engaged(r, d)
  BY NothingAssumption DEF Init, Engaged
<1> QED
  BY <1>1 DEF Init, TakenInv, DriverStatus

\* Whoever is engaged has agreed.
LEMMA EngagedHasAgreed ==
    ASSUME AgreedInv, NEW r \in Ride, NEW d \in Driver, Engaged(r, d)
    PROVE  <<r, d>> \in agreed
  BY DEF AgreedInv, OfferInv, AcceptInv, RideInv, DriverHasAgreed, Engaged

\* A step that frees nobody and engages nobody.
LEMMA TakenKept ==
    ASSUME TakenInv,
           unmarked \subseteq unmarked', freed' = freed,
           \A r \in Ride, d \in Driver : Engaged(r, d)' => Engaged(r, d),
           \A d \in Driver : Taken(d) => Taken(d)'
    PROVE  TakenInv'
  BY DEF TakenInv

\* Nobody is engaged when no match is accepted or published, and no ride
\* changes hands.
LEMMA EngagedKept ==
    ASSUME rideDriver' = rideDriver, responses' = responses, matched' \subseteq matched,
           \A g \in Search : search'[g] = "marked" =>
               search[g] = "marked" /\ request'[g] = request[g] /\ candidates'[g] = candidates[g]
    PROVE  \A r \in Ride, d \in Driver : Engaged(r, d)' => Engaged(r, d)
  BY DEF Engaged

\* A driver may get any status that takes him.
LEMMA StatusTakes ==
    ASSUME driverStatus \in [Driver -> DriverStatus], NEW d \in Driver,
           NEW s \in {"EN_ROUTE", "ARRIVED", "BUSY"}, SetDriverStatus(d, s)
    PROVE  /\ driverStatus' \in [Driver -> DriverStatus]
           /\ \A e \in Driver : Taken(e) => Taken(e)'
           /\ Taken(d)'
<1>1. driverStatus' = [driverStatus EXCEPT ![d] = s]
  BY DEF SetDriverStatus
<1> QED
  BY <1>1 DEF DriverStatus, Taken

\* A driver's app frees him from all that engages him.
LEMMA StatusFrees ==
    ASSUME EngagedInv, NEW d \in Driver, NEW s \in DriverStatus,
           SetDriverStatus(d, s), Frees(d), unmarked' = unmarked,
           \A r \in Ride, e \in Driver : Engaged(r, e)' => Engaged(r, e)
    PROVE  driverStatus' \in [Driver -> DriverStatus] /\ TakenInv'
<1>1. driverStatus' = [driverStatus EXCEPT ![d] = s]
  BY DEF SetDriverStatus
<1>2. driverStatus' \in [Driver -> DriverStatus]
  BY <1>1 DEF EngagedInv
<1>3. \A e \in Driver : e # d /\ Taken(e) => Taken(e)'
  BY <1>1 DEF EngagedInv, Taken
<1>4. \A r \in Ride : Engaged(r, d) => <<r, d>> \in freed'
  BY EngagedHasAgreed DEF EngagedInv, Frees
<1>5. freed \subseteq freed'
  BY DEF Frees
<1>6. TakenInv'
  BY <1>3, <1>4, <1>5 DEF EngagedInv, TakenInv
<1> QED
  BY <1>2, <1>6

\* The search marks its driver, whatever his app did before.
LEMMA TakenMarked ==
    ASSUME EngagedInv, NEW g \in Search, MarkEnRoute(g)
    PROVE  driverStatus' \in [Driver -> DriverStatus] /\ TakenInv'
<1> DEFINE d == Head(candidates[g])
<1>1. /\ search[g] = "accepted"
      /\ search' = [search EXCEPT ![g] = "marked"]
      /\ SetDriverStatus(d, "EN_ROUTE")
      /\ freed' = freed \ {<<request[g], d>>}
      /\ UNCHANGED <<rideDriver, responses, matched, request, candidates, unmarked>>
  BY DEF MarkEnRoute, Goto, queues, offers
<1>2. d \in Driver
  BY <1>1, HeadAndTail DEF EngagedInv, AgreedInv, OfferInv, SearchTypeOK, SearchInv
<1>3. /\ driverStatus' \in [Driver -> DriverStatus]
      /\ \A e \in Driver : Taken(e) => Taken(e)'
      /\ Taken(d)'
  BY <1>1, <1>2, StatusTakes DEF EngagedInv
<1>4. \A r \in Ride, e \in Driver : Engaged(r, e)' => Engaged(r, e) \/ e = d
  BY <1>1 DEF EngagedInv, AgreedInv, OfferInv, SearchTypeOK, Engaged
<1>5. \A r \in Ride, e \in Driver : e # d /\ <<r, e>> \notin freed' => <<r, e>> \notin freed
  BY <1>1
<1>6. TakenInv'
  BY <1>1, <1>3, <1>4, <1>5 DEF EngagedInv, TakenInv
<1> QED
  BY <1>3, <1>6

\* The search could not mark its driver.
LEMMA TakenUnmarked ==
    ASSUME EngagedInv, NEW g \in Search, MarkFails(g)
    PROVE  driverStatus' = driverStatus /\ TakenInv'
<1>1. /\ search' = [search EXCEPT ![g] = "marked"]
      /\ unmarked' = unmarked \cup {request[g]}
      /\ UNCHANGED <<driverStatus, rideDriver, responses, matched, request, candidates, freed>>
  BY DEF MarkFails, Goto, database, queues, offers
<1>2. \A r \in Ride, e \in Driver : Engaged(r, e)' => Engaged(r, e) \/ r = request[g]
  BY <1>1 DEF EngagedInv, AgreedInv, OfferInv, SearchTypeOK, Engaged
<1>3. TakenInv'
  BY <1>1, <1>2 DEF EngagedInv, TakenInv, Taken
<1> QED
  BY <1>1, <1>3

\* The match of a marked driver is published, and he stays engaged.
LEMMA TakenPublished ==
    ASSUME EngagedInv, NEW g \in Search, PublishMatch(g)
    PROVE  driverStatus' = driverStatus /\ TakenInv'
<1>1. /\ search[g] = "marked"
      /\ search' = [search EXCEPT ![g] = "done"]
      /\ candidates' = [candidates EXCEPT ![g] = <<>>]
      /\ responses' = responses \cup {<<request[g], Head(candidates[g])>>}
      /\ UNCHANGED <<driverStatus, rideDriver, matched, request, freed, unmarked>>
  BY DEF PublishMatch, Goto, Return, database, offers, history
<1>2. \A r \in Ride, d \in Driver : Engaged(r, d)' => Engaged(r, d)
  BY <1>1 DEF EngagedInv, AgreedInv, OfferInv, SearchTypeOK, Engaged
<1>3. TakenInv'
  BY <1>1, <1>2, TakenKept DEF EngagedInv, Taken
<1> QED
  BY <1>1, <1>3

\* The ride gets its driver, who was engaged by the match already.
LEMMA TakenMatched ==
    ASSUME EngagedInv, NEW r \in Ride, NEW d \in Driver, Match(<<r, d>>)
    PROVE  driverStatus' = driverStatus /\ TakenInv'
<1>1. /\ <<r, d>> \in responses /\ responses' \subseteq responses
      /\ matched' \subseteq matched \cup {<<r, d>>}
      /\ UNCHANGED <<driverStatus, search, request, candidates, freed, unmarked>>
  BY DEF Match, offers, history
<1>2. rideDriver' = rideDriver \/ rideDriver' = [rideDriver EXCEPT ![r] = d]
  BY DEF Match
<1>3. \A q \in Ride, e \in Driver : Engaged(q, e)' => Engaged(q, e)
  BY <1>1, <1>2 DEF EngagedInv, AgreedInv, RideTypeOK, Engaged
<1>4. TakenInv'
  BY <1>1, <1>3, TakenKept DEF EngagedInv, Taken
<1> QED
  BY <1>1, <1>4

\* A driver's app goes online or offline, or completes a ride.
LEMMA TakenFreed ==
    ASSUME EngagedInv, NEW d \in Driver,
           HandleOnline(d) \/ HandleOffline(d) \/ HandleComplete(d)
    PROVE  driverStatus' \in [Driver -> DriverStatus] /\ TakenInv'
<1>1. /\ SetDriverStatus(d, "AVAILABLE") \/ SetDriverStatus(d, "OFFLINE")
      /\ Frees(d)
      /\ UNCHANGED <<rideDriver, responses, matched, search, request, candidates, unmarked>>
  BY DEF HandleOnline, HandleOffline, HandleComplete, queues
<1>2. \A r \in Ride, e \in Driver : Engaged(r, e)' => Engaged(r, e)
  BY <1>1, EngagedKept
<1> QED
  BY <1>1, <1>2, StatusFrees DEF DriverStatus

\* Everything else frees and engages nobody.
LEMMA TakenOther ==
    ASSUME EngagedInv,
           driverStatus' \in [Driver -> DriverStatus],
           \A d \in Driver : Taken(d) => Taken(d)',
           UNCHANGED <<rideDriver, responses, freed, unmarked>>,
           matched' \subseteq matched,
           \A g \in Search : search'[g] = "marked" =>
               search[g] = "marked" /\ request'[g] = request[g] /\ candidates'[g] = candidates[g]
    PROVE  driverStatus' \in [Driver -> DriverStatus] /\ TakenInv'
  BY EngagedKept, TakenKept DEF EngagedInv

\* The steps of a search before it is accepted, and after it is done.
LEMMA TakenSearch ==
    ASSUME EngagedInv, NEW g \in Search,
           FindNearbyDrivers(g) \/ FindFails(g) \/ Exhausted(g) \/ Unreachable(g)
           \/ OfferToDriver(g) \/ Accepted(g) \/ Rejected(g) \/ OfferTimeout(g)
           \/ PublishFails(g)
    PROVE  driverStatus' \in [Driver -> DriverStatus] /\ TakenInv'
<1>1. UNCHANGED <<driverStatus, rideDriver, responses, matched, request, freed, unmarked>>
  BY DEF FindNearbyDrivers, FindFails, Exhausted, Unreachable, OfferToDriver, Accepted,
         Rejected, OfferTimeout, PublishFails, database, queues, offers, history
<1>2. \A h \in Search : search'[h] = "marked" =>
          search[h] = "marked" /\ request'[h] = request[h] /\ candidates'[h] = candidates[h]
  <2>1. search' = [search EXCEPT ![g] = search'[g]] /\ search'[g] # "marked"
    BY DEF EngagedInv, AgreedInv, OfferInv, SearchTypeOK, FindNearbyDrivers, FindFails,
           Exhausted, Unreachable, OfferToDriver, Accepted, Rejected, OfferTimeout,
           PublishFails, Goto, Return
  <2>2. candidates' = [candidates EXCEPT ![g] = candidates'[g]]
    BY DEF EngagedInv, AgreedInv, OfferInv, SearchTypeOK, FindNearbyDrivers, FindFails,
           Exhausted, Unreachable, OfferToDriver, Accepted, Rejected, OfferTimeout,
           PublishFails, NextDriver, Return
  <2> QED
    BY <1>1, <2>1, <2>2 DEF EngagedInv, AgreedInv, OfferInv, SearchTypeOK
<1> QED
  BY <1>1, <1>2, TakenOther DEF EngagedInv, Taken

\* Every step keeps engaged drivers taken.
LEMMA EngagedStep == EngagedInv /\ [Next]_vars => EngagedInv'
<1> SUFFICES ASSUME EngagedInv, [Next]_vars
             PROVE  driverStatus' \in [Driver -> DriverStatus] /\ TakenInv'
  BY AgreedStep DEF EngagedInv
<1>1. CASE \E g \in Search : SearchNext(g)
  BY <1>1, TakenSearch, TakenMarked, TakenUnmarked, TakenPublished
  DEF SearchNext, EngagedInv
<1>2. CASE \E d \in Driver : DriverNext(d)
  <2> PICK d \in Driver : DriverNext(d)
    BY <1>2
  <2>1. CASE HandleOnline(d) \/ HandleOffline(d) \/ HandleComplete(d)
    BY <2>1, TakenFreed
  <2>2. CASE \E r \in Ride : SetArrived(d, r)
    BY <2>2, StatusTakes, TakenOther DEF SetArrived, EngagedInv, queues, offers, history
  <2>3. CASE \E r \in Ride : CheckArrived(d, r)
    BY <2>3, TakenOther DEF CheckArrived, EngagedInv, Taken, database, queues, offers, history
  <2>4. CASE HandleStart(d)
    BY <2>4, StatusTakes, TakenOther DEF HandleStart, EngagedInv, queues, offers, history
  <2>5. CASE \E g \in Search, a \in BOOLEAN : HandleDriverResponse(<<g, d>>, a)
    BY <2>5, TakenOther
    DEF HandleDriverResponse, EngagedInv, Taken, database, queues, history
  <2> QED
    BY <2>1, <2>2, <2>3, <2>4, <2>5 DEF DriverNext
<1>3. CASE \E r \in Ride : RideNext(r)
  <2> PICK r \in Ride : RideNext(r)
    BY <1>3
  <2>1. CASE Request(r) \/ Cancel(r)
    BY <2>1, TakenOther DEF Request, Cancel, EngagedInv, Taken, queues, offers, history
  <2>2. CASE \E g \in Search : HandleRideRequest(g, r)
    <3> PICK g \in Search : HandleRideRequest(g, r)
      BY <2>2
    <3>1. \A h \in Search : search'[h] = "marked" =>
              search[h] = "marked" /\ request'[h] = request[h] /\ candidates'[h] = candidates[h]
      BY DEF HandleRideRequest, Goto, EngagedInv, AgreedInv, OfferInv, SearchTypeOK
    <3> QED
      BY <3>1, TakenOther DEF HandleRideRequest, EngagedInv, Taken, database, offers, history
  <2>3. CASE \E d \in Driver : Match(<<r, d>>)
    BY <2>3, TakenMatched DEF EngagedInv
  <2>4. CASE \E d \in Driver : HandleRideStatus(<<r, d>>)
    BY <2>4, StatusTakes, TakenOther DEF HandleRideStatus, EngagedInv, offers, history
  <2>5. CASE \E s \in {"EN_ROUTE", "ARRIVED", "IN_PROGRESS", "COMPLETED"} : Advance(r, s)
    BY <2>5, TakenOther DEF Advance, EngagedInv, Taken, queues, offers, history
  <2> QED
    BY <2>1, <2>2, <2>3, <2>4, <2>5 DEF RideNext
<1>4. CASE Crash
  <2>1. \A g \in Search : search'[g] # "marked"
    BY <1>4 DEF Crash
  <2> QED
    BY <1>4, <2>1, TakenOther DEF Crash, EngagedInv, Taken, database, queues, history
<1>5. CASE UNCHANGED vars
  BY <1>5, TakenOther DEF vars, EngagedInv, Taken
<1> QED
  BY <1>1, <1>2, <1>3, <1>4, <1>5 DEF Next

\* In every state the engaged drivers are taken.
THEOREM EngagedCorrect == Spec => []EngagedInv
  BY EngagedInit, EngagedStep, PTL DEF Spec

\* EngagedIsTaken: the driver of a published match is not among the available ones,
\* until his own app frees him (matching.go:131, before the publish at 155).
THEOREM EngagedIsTakenCorrect == Spec => []EngagedIsTaken
<1>1. EngagedInv => EngagedIsTaken
  BY DEF EngagedInv, TakenInv, EngagedIsTaken, Engaged, Taken
<1> QED
  BY <1>1, EngagedCorrect, PTL
-----------------------------------------------------------------------------
(* Types *)

\* What TypeOK says that the invariants above do not.
RestTypeOK ==
    /\ \A g \in Search : Len(candidates[g]) <= MaxCandidates
    /\ arriving \subseteq Ride \X Driver
    /\ agreed \subseteq Ride \X Driver
    /\ freed \subseteq Ride \X Driver /\ unmarked \subseteq Ride
    /\ faults \in 0 .. MaxFaults

\* A list without its head is shorter.
LEMMA TailIsShorter ==
    ASSUME NEW list \in Seq(Driver), list # <<>>, Len(list) <= MaxCandidates
    PROVE  Len(Tail(list)) <= MaxCandidates
  BY CandidateAssumption

\* The query returns no more than was asked for.
LEMMA CandidatesAreFew ==
    ASSUME NEW available, NEW list \in CandidateList(available)
    PROVE  Len(list) <= MaxCandidates
<1>1. PICK n \in 0 .. MaxCandidates : list \in [1 .. n -> available]
  BY DEF CandidateList
<1>2. Len(list) = n
  BY <1>1, CandidateAssumption
<1> QED
  BY <1>1, <1>2, CandidateAssumption

\* A step may be a fault as long as the bound is not reached.
LEMMA FaultCount == faults \in 0 .. MaxFaults /\ faults < MaxFaults => faults + 1 \in 0 .. MaxFaults
  BY FaultAssumption

\* The lists of candidates stay short.
LEMMA CandidatesStep ==
    ASSUME AgreedInv, RestTypeOK, NEW g \in Search, SearchNext(g), NEW h \in Search
    PROVE  Len(candidates'[h]) <= MaxCandidates
<1> USE DEF AgreedInv, OfferInv, SearchTypeOK, RestTypeOK
<1>1. CASE FindNearbyDrivers(g)
  <2>1. PICK list \in CandidateList({d \in Driver : driverStatus[d] = "AVAILABLE"}) :
            candidates' = [candidates EXCEPT ![g] = list]
    BY <1>1 DEF FindNearbyDrivers
  <2> QED
    BY <2>1, CandidatesAreFew
<1>2. CASE Unreachable(g) \/ Rejected(g) \/ OfferTimeout(g)
  <2>1. candidates' = [candidates EXCEPT ![g] = Tail(@)] /\ candidates[g] # <<>>
    BY <1>2 DEF Unreachable, Rejected, OfferTimeout, NextDriver, SearchInv
  <2> QED
    BY <2>1, TailIsShorter
<1>3. CASE PublishMatch(g) \/ PublishFails(g)
  <2>1. candidates' = [candidates EXCEPT ![g] = <<>>]
    BY <1>3 DEF PublishMatch, PublishFails, Return
  <2> QED
    BY <2>1, CandidateAssumption
<1>4. CASE \/ FindFails(g) \/ Exhausted(g) \/ OfferToDriver(g) \/ Accepted(g)
           \/ MarkEnRoute(g) \/ MarkFails(g)
  BY <1>4 DEF FindFails, Exhausted, OfferToDriver, Accepted, MarkEnRoute, MarkFails
<1> QED
  BY <1>1, <1>2, <1>3, <1>4 DEF SearchNext

\* Every step keeps the rest of the types.
LEMMA RestStep == AgreedInv /\ RestTypeOK /\ [Next]_vars => RestTypeOK'
<1> SUFFICES ASSUME AgreedInv, RestTypeOK, [Next]_vars
             PROVE  RestTypeOK'
  OBVIOUS
<1> USE FaultCount DEF RestTypeOK
<1>1. CASE \E g \in Search : SearchNext(g)
  <2> PICK g \in Search : SearchNext(g)
    BY <1>1
  <2>1. \A h \in Search : Len(candidates'[h]) <= MaxCandidates
    BY CandidatesStep
  <2>2. CASE MarkFails(g)
    <3>1. request[g] \in Ride
      BY <2>2 DEF MarkFails, AgreedInv, OfferInv, SearchInv
    <3> QED
      BY <2>1, <2>2, <3>1 DEF MarkFails, offers
  <2>3. CASE FindFails(g) \/ PublishFails(g)
    BY <2>1, <2>3 DEF FindFails, PublishFails, offers, history
  <2>4. CASE FindNearbyDrivers(g) \/ Exhausted(g) \/ Unreachable(g) \/ PublishMatch(g)
    BY <2>1, <2>4
    DEF FindNearbyDrivers, Exhausted, Unreachable, PublishMatch, offers, history
  <2>6. CASE MarkEnRoute(g)
    BY <2>1, <2>6 DEF MarkEnRoute, offers
  <2>5. CASE OfferToDriver(g) \/ Accepted(g) \/ Rejected(g) \/ OfferTimeout(g)
    BY <2>1, <2>5 DEF OfferToDriver, Accepted, Rejected, OfferTimeout, history
  <2> QED
    BY <2>2, <2>3, <2>4, <2>5, <2>6 DEF SearchNext
<1>2. CASE \E d \in Driver : DriverNext(d)
  <2> PICK d \in Driver : DriverNext(d)
    BY <1>2
  <2>1. CASE HandleOnline(d) \/ HandleOffline(d) \/ HandleComplete(d)
    <3>1. freed' \subseteq Ride \X Driver
      BY <2>1 DEF HandleOnline, HandleOffline, HandleComplete, Frees
    <3>2. UNCHANGED <<candidates, arriving, agreed, unmarked, faults>>
      BY <2>1 DEF HandleOnline, HandleOffline, HandleComplete, offers
    <3> QED
      BY <3>1, <3>2
  <2>2. CASE \E r \in Ride : CheckArrived(d, r) \/ SetArrived(d, r)
    BY <2>2 DEF CheckArrived, SetArrived, offers, history
  <2>3. CASE \E g \in Search, a \in BOOLEAN : HandleDriverResponse(<<g, d>>, a)
    <3> PICK g \in Search, a \in BOOLEAN : HandleDriverResponse(<<g, d>>, a)
      BY <2>3
    <3>1. <<g, d>> \in pending => request[g] \in Ride
      BY DEF AgreedInv, OfferInv, SearchInv, PendingIsAwaited
    <3>2. agreed' \subseteq Ride \X Driver
      BY <3>1 DEF HandleDriverResponse
    <3> QED
      BY <3>2 DEF HandleDriverResponse, history
  <2>4. CASE HandleStart(d)
    BY <2>4 DEF HandleStart, offers, history
  <2> QED
    BY <2>1, <2>2, <2>3, <2>4 DEF DriverNext
<1>3. CASE \E r \in Ride : RideNext(r)
  <2> PICK r \in Ride : RideNext(r)
    BY <1>3
  <2>1. CASE Request(r) \/ Cancel(r)
    BY <2>1 DEF Request, Cancel, offers, history
  <2>2. CASE \E g \in Search : HandleRideRequest(g, r)
    BY <2>2 DEF HandleRideRequest, offers, history
  <2>3. CASE \E d \in Driver : Match(<<r, d>>) \/ HandleRideStatus(<<r, d>>)
    BY <2>3 DEF Match, HandleRideStatus, offers, history
  <2>4. CASE \E s \in {"EN_ROUTE", "ARRIVED", "IN_PROGRESS", "COMPLETED"} : Advance(r, s)
    BY <2>4 DEF Advance, offers, history
  <2> QED
    BY <2>1, <2>2, <2>3, <2>4 DEF RideNext
<1>4. CASE Crash
  BY <1>4, CandidateAssumption DEF Crash, history
<1>5. CASE UNCHANGED vars
  BY <1>5 DEF vars
<1> QED
  BY <1>1, <1>2, <1>3, <1>4, <1>5 DEF Next

\* TypeOK: every variable of Dispatch keeps its type.
THEOREM TypeOKCorrect == Spec => []TypeOK
<1>1. Init => RestTypeOK
  BY CandidateAssumption, FaultAssumption DEF Init, RestTypeOK
<1>2. EngagedInv /\ RestTypeOK => TypeOK
  BY DEF EngagedInv, AgreedInv, OfferInv, SearchTypeOK, RideTypeOK, RestTypeOK, TypeOK
<1>3. EngagedInv => AgreedInv
  BY DEF EngagedInv
<1> QED
  BY <1>1, <1>2, <1>3, RestStep, EngagedCorrect, PTL DEF Spec
=============================================================================
