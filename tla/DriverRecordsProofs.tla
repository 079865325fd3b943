------------------------ MODULE DriverRecordsProofs ------------------------
(***************************************************************************)
(* Proofs about DriverRecords, for any numbers of requests, rides, fares   *)
(* and faults and any rate limit.                                          *)
(***************************************************************************)
EXTENDS DriverRecords, TLAPS, FiniteSetTheorems, SequenceTheorems

Session == [open : BOOLEAN, rides : Nat, earnings : Nat]

\* A cut of the next-state relation, for the case distinctions below.
LEMMA Actions ==
    ASSUME Next
    PROVE  \/ \E q \in Request, k \in Kind, r \in Ride \cup {NoRide} : Begin(q, k, r)
           \/ \E q \in Request : RequestStep(q)
           \/ \E r \in Ride : Activate(r) \/ Cancel(r) \/ Complete(r)
           \/ Tick \/ Crash
  BY DEF Next

LEMMA TypeInit == Init => TypeOK
  BY NoValueAssumption, TimeAssumption DEF Init, TypeOK, Place

\* What a statement does that ends well or fails.
LEMMA GotoType ==
    ASSUME TypeOK, NEW q \in Request, NEW place \in Place, Goto(q, place)
    PROVE  pc' \in [Request -> Place]
  BY DEF TypeOK, Goto

LEMMA FaultType == TypeOK /\ Fault => faults' \in 0..MaxFaults
  BY TimeAssumption DEF TypeOK, Fault

LEMMA EndsType ==
    ASSUME TypeOK, NEW q \in Request, NEW place \in Place, Ends(q, place)
    PROVE  pc' \in [Request -> Place] /\ faults' \in 0..MaxFaults
  BY DEF TypeOK, Ends, Goto

LEMMA FailsType ==
    ASSUME TypeOK, NEW q \in Request, Fails(q)
    PROVE  pc' \in [Request -> Place] /\ faults' \in 0..MaxFaults
  BY TimeAssumption DEF TypeOK, Fails, Fault, Goto, Place

LEMMA PickType ==
    ASSUME TypeOK, NEW q \in Request, PickSession(q)
    PROVE  TypeOK'
<1>1. chosen' \in [Request -> 0..Len(sessions)]
  <2>1. sessions \in Seq([open : BOOLEAN, rides : Nat, earnings : Nat])
    BY DEF TypeOK
  <2>2. 0 \in 0..Len(sessions) /\ DOMAIN sessions \subseteq 0..Len(sessions)
    BY <2>1
  <2>3. \E s \in 0..Len(sessions) : chosen' = [chosen EXCEPT ![q] = s]
    BY <2>2 DEF PickSession, Newest
  <2>4. chosen \in [Request -> 0..Len(sessions)]
    BY DEF TypeOK
  <2> QED
    BY <2>3, <2>4
<1>2. pc' \in [Request -> Place] /\ faults' \in 0..MaxFaults
  BY EndsType DEF PickSession, Place
<1> QED
  BY <1>1, <1>2 DEF TypeOK, PickSession, database, locations, history

LEMMA StartType ==
    ASSUME TypeOK, NEW q \in Request, StartDriverSession(q)
    PROVE  TypeOK'
<1> DEFINE fresh == [open |-> TRUE, rides |-> 0, earnings |-> 0]
<1>1. sessions \in Seq(Session)
  BY DEF TypeOK, Session
<1>2. fresh \in Session
  BY DEF Session
<1>3. Append(sessions, fresh) \in Seq(Session) /\ Len(Append(sessions, fresh)) = Len(sessions) + 1
  BY <1>1, <1>2, AppendProperties
<1>4. sessions' \in {sessions, Append(sessions, fresh)}
  BY DEF StartDriverSession
<1>5. sessions' \in Seq(Session) /\ 0..Len(sessions) \subseteq 0..Len(sessions')
  <2>1. Len(sessions) \in Nat
    BY <1>1
  <2> QED
    BY <1>1, <1>3, <1>4, <2>1
<1>6. chosen' \in [Request -> 0..Len(sessions')]
  <2>1. chosen \in [Request -> 0..Len(sessions)] /\ chosen' = chosen
    BY DEF TypeOK, StartDriverSession, locals
  <2> QED
    BY <1>5, <2>1
<1>7. pc' \in [Request -> Place] /\ faults' \in 0..MaxFaults
  BY EndsType, FailsType DEF StartDriverSession, Place
<1> QED
  BY <1>5, <1>6, <1>7 DEF TypeOK, Session, StartDriverSession, locations, locals, history

LEMMA EndType ==
    ASSUME TypeOK, NEW q \in Request, EndDriverSession(q)
    PROVE  TypeOK'
<1> DEFINE s == chosen[q]
           closed == IF s = 0 THEN sessions ELSE [sessions EXCEPT ![s].open = FALSE]
<1>1. sessions \in Seq(Session) /\ s \in 0..Len(sessions)
  BY DEF TypeOK, Session
<1>2. closed \in Seq(Session) /\ Len(closed) = Len(sessions)
  <2>1. CASE s = 0
    BY <1>1, <2>1
  <2>2. CASE s # 0
    <3>1. s \in 1..Len(sessions) /\ sessions[s] \in Session
      BY <1>1, <2>2, ElementOfSeq
    <3>2. [sessions[s] EXCEPT !.open = FALSE] \in Session
      BY <3>1 DEF Session
    <3> QED
      BY <1>1, <2>2, <3>1, <3>2, ExceptSeq
  <2> QED
    BY <2>1, <2>2
<1>3. sessions' \in {sessions, closed}
  BY DEF EndDriverSession
<1>4. summary' \in [Request -> Nat]
  <2>1. summary \in [Request -> Nat]
    BY DEF TypeOK
  <2>2. s # 0 => sessions[s].rides \in Nat
    <3>1. s # 0 => s \in 1..Len(sessions)
      BY <1>1
    <3>2. s # 0 => sessions[s] \in Session
      BY <1>1, <3>1, ElementOfSeq
    <3> QED
      BY <3>2 DEF Session
  <2>3. \/ summary' = [summary EXCEPT ![q] = IF s = 0 THEN 0 ELSE sessions[s].rides]
        \/ summary' = summary
    BY DEF EndDriverSession
  <2>4. (IF s = 0 THEN 0 ELSE sessions[s].rides) \in Nat
    BY <2>2
  <2> HIDE DEF s
  <2> QED
    BY <2>1, <2>3, <2>4
<1>5. closers' \subseteq Request
  BY DEF TypeOK, EndDriverSession
<1>6. pc' \in [Request -> Place] /\ faults' \in 0..MaxFaults
  BY EndsType, FailsType DEF EndDriverSession, Place
<1>7. sessions' \in Seq(Session) /\ Len(sessions') = Len(sessions)
  BY <1>1, <1>2, <1>3
<1> QED
  BY <1>4, <1>5, <1>6, <1>7 DEF TypeOK, Session, EndDriverSession, locations

LEMMA CreditedType ==
    ASSUME NEW session \in Session, NEW tenths \in Nat
    PROVE  Credited(session, tenths) \in Session
<1>1. 10 * session.earnings + tenths \in Nat
  BY DEF Session
<1>2. \A n \in Nat : Rounded(n) \in Nat
  BY DEF Rounded
<1> QED
  BY <1>1, <1>2 DEF Session, Credited

LEMMA RecordType ==
    ASSUME TypeOK, NEW q \in Request, RecordCompletedRide(q)
    PROVE  TypeOK'
<1> DEFINE s == chosen[q]
           credited == [sessions EXCEPT ![s] = Credited(sessions[s], earnings[q])]
<1>1. sessions \in Seq(Session) /\ s \in 0..Len(sessions) /\ earnings[q] \in Nat
  BY DEF TypeOK, Session
<1>2. s # 0 => credited \in Seq(Session) /\ Len(credited) = Len(sessions)
  <2>1. SUFFICES ASSUME s # 0
                 PROVE  credited \in Seq(Session) /\ Len(credited) = Len(sessions)
    OBVIOUS
  <2>2. s \in 1..Len(sessions) /\ sessions[s] \in Session
    BY <1>1, <2>1, ElementOfSeq
  <2>3. Credited(sessions[s], earnings[q]) \in Session
    BY <1>1, <2>2, CreditedType
  <2> QED
    BY <1>1, <2>2, <2>3, ExceptSeq
<1>3. sessions' = sessions \/ (s # 0 /\ sessions' = credited)
  BY DEF RecordCompletedRide
<1>4. sessions' \in Seq(Session) /\ Len(sessions') = Len(sessions)
  BY <1>1, <1>2, <1>3
<1>5. credits' \subseteq Request
  BY DEF TypeOK, RecordCompletedRide
<1>6. pc' \in [Request -> Place] /\ faults' \in 0..MaxFaults
  BY EndsType, FailsType DEF RecordCompletedRide, Place
<1> QED
  BY <1>4, <1>5, <1>6 DEF TypeOK, Session, RecordCompletedRide, locations, locals

\* Every action keeps the types.
LEMMA TypeStep == TypeOK /\ [Next]_vars => TypeOK'
<1> SUFFICES ASSUME TypeOK, [Next]_vars
             PROVE  TypeOK'
  OBVIOUS
<1> USE NoValueAssumption, TimeAssumption
<1>1. CASE \E q \in Request, k \in Kind, r \in Ride \cup {NoRide} : Begin(q, k, r)
  BY <1>1 DEF TypeOK, Place, Begin, Goto, At, Ends, Fails, Fault, database, locations, locals, history, Busy
<1>2. CASE \E q \in Request : RequestStep(q)
  <2> PICK q \in Request : RequestStep(q)
    BY <1>2
  <2>1. CASE SetDriverStatus(q)
    <3>1. pc' \in [Request -> Place] /\ faults' \in 0..MaxFaults
      BY <2>1, EndsType, FailsType DEF SetDriverStatus, Place
    <3>2. driverStatus' \in {"OFFLINE", "AVAILABLE"}
      BY <2>1 DEF SetDriverStatus, TypeOK
    <3> QED
      BY <2>1, <3>1, <3>2 DEF TypeOK, SetDriverStatus, locations, locals, history
  <2>2. CASE AllowLocationUpdate(q)
    <3>1. pc' \in [Request -> Place]
      BY <2>2 DEF AllowLocationUpdate, Goto, TypeOK, Place
    <3>2. /\ now \in 0..MaxTime /\ last \in 0..MaxTime \cup {Never}
          /\ admitted \in [Request -> 0..MaxTime \cup {Never}]
      BY DEF TypeOK
    <3>3. \/ last' = last /\ admitted' = admitted
          \/ last' = now /\ admitted' = [admitted EXCEPT ![q] = now]
      BY <2>2 DEF AllowLocationUpdate
    <3>4. last' \in 0..MaxTime \cup {Never} /\ admitted' \in [Request -> 0..MaxTime \cup {Never}]
      BY <3>2, <3>3
    <3> QED
      BY <2>2, <3>1, <3>4 DEF TypeOK, AllowLocationUpdate, database, locations, locals
  <2>3. CASE GetActiveRideTarget(q)
    <3>1. pc' \in [Request -> Place] /\ faults' \in 0..MaxFaults
      BY <2>3, EndsType, GotoType, FaultType DEF GetActiveRideTarget, Place
    <3>2. \E r \in Ride \cup {NoRide} : ride' = [ride EXCEPT ![q] = r]
      BY <2>3 DEF GetActiveRideTarget
    <3>3. ride \in [Request -> Ride \cup {NoRide}]
      BY DEF TypeOK
    <3>4. ride' \in [Request -> Ride \cup {NoRide}]
      BY <3>2, <3>3
    <3> QED
      BY <2>3, <3>1, <3>4 DEF TypeOK, GetActiveRideTarget, database, locations, history
  <2>4. CASE FindCurrent(q)
    BY <2>4 DEF TypeOK, Place, FindCurrent, Goto, At, Ends, Fails, Fault, database, locations, locals, history
  <2>5. CASE ClearRow(q)
    <3>1. /\ seen' \in [Request -> SUBSET Request]
          /\ held' \in [Request -> SUBSET Request]
      BY <2>5 DEF ClearRow, TypeOK
    <3> QED
      BY <2>5, <3>1 DEF TypeOK, ClearRow, database, locations, history
  <2>6. CASE CommitLocation(q)
    <3>1. pc' \in [Request -> Place] /\ faults' \in 0..MaxFaults
      BY <2>6, EndsType, FailsType DEF CommitLocation, Place
    <3>2. rows' \subseteq Request /\ current' \subseteq rows' /\ held' \in [Request -> SUBSET Request]
      BY <2>6 DEF CommitLocation, TypeOK
    <3> QED
      BY <2>6, <3>1, <3>2 DEF TypeOK, CommitLocation, history
  <2>7. CASE RollBack(q)
    <3>1. pc' \in [Request -> Place] /\ faults' \in 0..MaxFaults
      BY <2>7, FailsType DEF RollBack
    <3>2. seen' \in [Request -> SUBSET Request] /\ held' \in [Request -> SUBSET Request]
      BY <2>7 DEF RollBack, TypeOK
    <3> QED
      BY <2>7, <3>1, <3>2 DEF TypeOK, RollBack, database, locations, history
  <2>8. CASE MarkLocationUpdated(q)
    BY <2>8 DEF TypeOK, Place, MarkLocationUpdated, Goto, At, Ends, Fails, Fault, database, locations, locals, history
  <2>9. CASE StartDriverSession(q)
    BY <2>9, StartType
  <2>10. CASE GetRideFare(q)
    <3>1. pc' \in [Request -> Place] /\ faults' \in 0..MaxFaults
      BY <2>10, EndsType, FailsType DEF GetRideFare, Place
    <3> DEFINE read == IF ride[q] \notin Ride THEN 0
                       ELSE IF finalFare[ride[q]] # NoFare THEN finalFare[ride[q]]
                       ELSE Estimate[ride[q]]
    <3>2. 8 * read \in Nat
      <4>1. finalFare \in [Ride -> Fare \cup {NoFare}]
        BY DEF TypeOK
      <4>2. read \in Nat
        BY <4>1, FareAssumption
      <4> HIDE DEF read
      <4> QED
        BY <4>2
    <3>3. earnings' \in {earnings, [earnings EXCEPT ![q] = 8 * read]}
      BY <2>10 DEF GetRideFare
    <3>4. earnings \in [Request -> Nat]
      BY DEF TypeOK
    <3> HIDE DEF read
    <3>5. earnings' \in [Request -> Nat]
      BY <3>2, <3>3, <3>4
    <3> QED
      BY <2>10, <3>1, <3>5 DEF TypeOK, GetRideFare, database, locations, history
  <2>11. CASE PickSession(q)
    BY <2>11, PickType
  <2>12. CASE EndDriverSession(q)
    BY <2>12, EndType
  <2>13. CASE RecordCompletedRide(q)
    BY <2>13, RecordType
  <2> QED
    BY <2>1, <2>2, <2>3, <2>4, <2>5, <2>6, <2>7, <2>8, <2>9, <2>10, <2>11, <2>12, <2>13 DEF RequestStep
<1>3. CASE \E r \in Ride : Activate(r) \/ Cancel(r) \/ Complete(r)
  <2> PICK r \in Ride : Activate(r) \/ Cancel(r) \/ Complete(r)
    BY <1>3
  <2> rides \in [Ride -> {"none", "active", "over"}] /\ finalFare \in [Ride -> Fare \cup {NoFare}]
    BY DEF TypeOK
  <2>1. rides' \in [Ride -> {"none", "active", "over"}]
    BY DEF Activate, Cancel, Complete
  <2>2. finalFare' \in [Ride -> Fare \cup {NoFare}]
    BY DEF Activate, Cancel, Complete
  <2>3. met' \in [Request -> SUBSET Ride] /\ stood' \in [Request -> SUBSET (Fare \cup {NoFare})]
    <3>1. met \in [Request -> SUBSET Ride] /\ stood \in [Request -> SUBSET (Fare \cup {NoFare})]
      BY DEF TypeOK
    <3>2. CASE Activate(r)
      <4>1. stood' = stood
        BY <3>2 DEF Activate
      <4>2. met' \in [Request -> SUBSET Ride]
        BY <3>1, <3>2 DEF Activate
      <4> QED
        BY <3>1, <4>1, <4>2
    <3>3. CASE Cancel(r)
      BY <3>1, <3>3 DEF Cancel, history
    <3>4. CASE Complete(r)
      <4>1. met' = met
        BY <3>4 DEF Complete
      <4>2. stood' \in [Request -> SUBSET (Fare \cup {NoFare})]
        BY <3>1, <3>4 DEF Complete
      <4> QED
        BY <3>1, <4>1, <4>2
    <3> QED
      BY <3>2, <3>3, <3>4
  <2> QED
    BY <2>1, <2>2, <2>3 DEF TypeOK, Activate, Cancel, Complete, locations, locals, history
<1>4. CASE Tick
  BY <1>4 DEF TypeOK, Place, Tick, Goto, At, Ends, Fails, Fault, database, locations, locals, history
<1>5. CASE Crash
  BY <1>5 DEF TypeOK, Place, Crash, Goto, At, Ends, Fails, Fault, database, locations, locals, history, Busy
<1>6. CASE UNCHANGED vars
  BY <1>6 DEF TypeOK, vars, database, locations, locals, history
<1> QED
  BY <1>1, <1>2, <1>3, <1>4, <1>5, <1>6, Actions

\* Every value stays in its range: no session picked is one that does not exist,
\* no fare and no sum is negative, the clock and the faults keep their bounds.
THEOREM TypeOKCorrect == Spec => []TypeOK
  BY TypeInit, TypeStep, PTL DEF Spec

-----------------------------------------------------------------------------
(* Side by side.                                                            *)

\* Requests in progress know of each other, and mutually.
BesideInv ==
    /\ \A p, q \in Request : q \in beside[p] => p \in beside[q]
    /\ \A p, q \in Busy : p # q => q \in beside[p]
    /\ \A q \in Request : At(q, "idle") => beside[q] = {}

\* The part of TypeOK that the proofs about locations use.
LocationType ==
    /\ rows \subseteq Request /\ current \subseteq rows
    /\ pc \in [Request -> Place]
    /\ seen \in [Request -> SUBSET Request] /\ held \in [Request -> SUBSET Request]
    /\ beside \in [Request -> SUBSET Request]

LEMMA LocationTyped == TypeOK => LocationType
  BY DEF TypeOK, LocationType

\* Only Begin starts a request; it is entered beside all in progress.
LEMMA BesideStep == TypeOK /\ BesideInv /\ [Next]_vars => BesideInv'
<1> SUFFICES ASSUME TypeOK, BesideInv, [Next]_vars
             PROVE  BesideInv'
  OBVIOUS
<1> USE LocationTyped DEF LocationType, BesideInv
<1>1. CASE \E q \in Request, k \in Kind, r \in Ride \cup {NoRide} : Begin(q, k, r)
  BY <1>1 DEF Begin, Goto, At, Ends, Fails, Fault, database, locations, locals, history, Busy
<1>2. CASE \E q \in Request : RequestStep(q)
  <2> PICK q \in Request : RequestStep(q)
    BY <1>2
  <2>1. CASE SetDriverStatus(q)
    BY <2>1 DEF SetDriverStatus, Goto, At, Ends, Fails, Fault, database, locations, locals, history, Busy
  <2>2. CASE AllowLocationUpdate(q)
    BY <2>2 DEF AllowLocationUpdate, Goto, At, Ends, Fails, Fault, database, locations, locals, history, Busy
  <2>3. CASE GetActiveRideTarget(q)
    BY <2>3 DEF GetActiveRideTarget, Goto, At, Ends, Fails, Fault, database, locations, locals, history, Busy
  <2>4. CASE FindCurrent(q)
    BY <2>4 DEF FindCurrent, Goto, At, Ends, Fails, Fault, database, locations, locals, history, Busy
  <2>5. CASE ClearRow(q)
    BY <2>5 DEF ClearRow, Goto, At, Ends, Fails, Fault, database, locations, locals, history, Busy
  <2>6. CASE CommitLocation(q)
    BY <2>6 DEF CommitLocation, Goto, At, Ends, Fails, Fault, database, locations, locals, history, Busy
  <2>7. CASE RollBack(q)
    BY <2>7 DEF RollBack, Goto, At, Ends, Fails, Fault, database, locations, locals, history, Busy
  <2>8. CASE MarkLocationUpdated(q)
    BY <2>8 DEF MarkLocationUpdated, Goto, At, Ends, Fails, Fault, database, locations, locals, history, Busy
  <2>9. CASE StartDriverSession(q)
    BY <2>9 DEF StartDriverSession, Goto, At, Ends, Fails, Fault, database, locations, locals, history, Busy
  <2>10. CASE GetRideFare(q)
    BY <2>10 DEF GetRideFare, Goto, At, Ends, Fails, Fault, database, locations, locals, history, Busy
  <2>11. CASE PickSession(q)
    BY <2>11 DEF PickSession, Goto, At, Ends, Fails, Fault, database, locations, locals, history, Busy
  <2>12. CASE EndDriverSession(q)
    BY <2>12 DEF EndDriverSession, Goto, At, Ends, Fails, Fault, database, locations, locals, history, Busy
  <2>13. CASE RecordCompletedRide(q)
    BY <2>13 DEF RecordCompletedRide, Goto, At, Ends, Fails, Fault, database, locations, locals, history, Busy
  <2> QED
    BY <2>1, <2>2, <2>3, <2>4, <2>5, <2>6, <2>7, <2>8, <2>9, <2>10, <2>11, <2>12, <2>13 DEF RequestStep
<1>3. CASE \E r \in Ride : Activate(r) \/ Cancel(r) \/ Complete(r)
  BY <1>3 DEF Activate, Cancel, Complete, Goto, At, Ends, Fails, Fault, database, locations, locals, history, Busy
<1>4. CASE Tick
  BY <1>4 DEF Tick, Goto, At, Ends, Fails, Fault, database, locations, locals, history, Busy
<1>5. CASE Crash
  <2>1. /\ beside' = beside
        /\ \A q \in Request : pc'[q] = IF q \in Busy THEN "done" ELSE pc[q]
    BY <1>5 DEF Crash
  <2> QED
    BY <2>1 DEF At, Busy
<1>6. CASE UNCHANGED vars
  <2>1. pc' = pc /\ beside' = beside
    BY <1>6 DEF vars, history
  <2>2. rows' = rows /\ current' = current /\ seen' = seen /\ held' = held
    BY <1>6 DEF vars, database, locations, locals
  <2> QED
    BY <2>1, <2>2 DEF At, Busy
<1> QED
  BY <1>1, <1>2, <1>3, <1>4, <1>5, <1>6, Actions

-----------------------------------------------------------------------------
(* Locations.                                                               *)

\* What stands between an update and the rows that are current: it has yet to come
\* to them, or changed them, or they were committed beside it.  Where one of those
\* it has yet to come to is no longer current, whoever cleared it left his own.
RowInv ==
    /\ \A q \in rows : pc[q] \in {"mark", "start", "done"}
    /\ \A q \in Request : ~ At(q, "clear") => seen[q] = {} /\ held[q] = {}
    /\ \A q \in Request :
        /\ seen[q] \subseteq rows
        /\ held[q] \subseteq current \ seen[q]
        /\ At(q, "clear") => current \subseteq seen[q] \cup held[q] \cup beside[q]
        /\ seen[q] \subseteq current \/ \E x \in current : x \notin seen[q] \cup held[q]
    /\ \A p, q \in Request : p # q => held[p] \cap held[q] = {}
    /\ OneCurrentUnlessBeside
    /\ LocatedForGood

\* An update that holds a row and waits for another: that one is current too, or
\* whoever cleared it has left his own.
LEMMA HolderWaits == TypeOK /\ RowInv => HolderWaitsOnlyBesideCurrent
  BY DEF TypeOK, RowInv, HolderWaitsOnlyBesideCurrent

\* A row committed beside others is beside each of them; every other row that is
\* current is one they clear.
LEMMA RowStep == TypeOK /\ BesideInv /\ RowInv /\ [Next]_vars => RowInv'
<1> SUFFICES ASSUME TypeOK, BesideInv, RowInv, [Next]_vars
             PROVE  RowInv'
  OBVIOUS
<1> USE LocationTyped DEF LocationType, RowInv, OneCurrentUnlessBeside, LocatedForGood
<1>1. CASE \E q \in Request, k \in Kind, r \in Ride \cup {NoRide} : Begin(q, k, r)
  <2> PICK q \in Request : \E k \in Kind, r \in Ride \cup {NoRide} : Begin(q, k, r)
    BY <1>1
  <2>1. /\ pc[q] = "idle" /\ UNCHANGED <<rows, current, seen, held>>
        /\ \E place \in {"allow", "status"} : pc' = [pc EXCEPT ![q] = place]
    BY DEF Begin, Goto, At, database, locations
  <2>2. \A p \in Request : p # q => beside[p] \subseteq beside'[p]
    BY DEF Begin
  <2>3. q \notin rows
    BY <2>1
  <2> QED
    BY <2>1, <2>2, <2>3 DEF At
<1>2. CASE \E q \in Request : RequestStep(q)
  <2> PICK q \in Request : RequestStep(q)
    BY <1>2
  <2>1. CASE SetDriverStatus(q)
    BY <2>1 DEF SetDriverStatus, Goto, At, Ends, Fails, Fault, database, locations, locals, history, Busy
  <2>2. CASE AllowLocationUpdate(q)
    BY <2>2 DEF AllowLocationUpdate, Goto, At, Ends, Fails, Fault, database, locations, locals, history, Busy
  <2>3. CASE GetActiveRideTarget(q)
    BY <2>3 DEF GetActiveRideTarget, Goto, At, Ends, Fails, Fault, database, locations, locals, history, Busy
  <2>4. CASE FindCurrent(q)
    BY <2>4 DEF FindCurrent, Goto, At, Ends, Fails, Fault, database, locations, locals, history, Busy
  <2>5. CASE ClearRow(q)
    BY <2>5 DEF ClearRow, Goto, At, Ends, Fails, Fault, database, locations, locals, history, Busy
  <2>6. CASE CommitLocation(q)
    <3>1. /\ rows' = rows \cup {q} /\ current' = (current \ held[q]) \cup {q}
          /\ held' = [held EXCEPT ![q] = {}] /\ seen' = seen /\ beside' = beside
          /\ At(q, "clear") /\ seen[q] = {}
      BY <2>6 DEF CommitLocation, history
    <3>2. \E place \in {"mark", "done"} : pc' = [pc EXCEPT ![q] = place]
      BY <2>6 DEF CommitLocation, Ends, Fails, Goto
    <3>3. \A p \in current \ held[q] : p # q /\ p \in beside[q] /\ q \in beside[p]
      BY <3>1 DEF At, BesideInv
    <3>4. \A p \in Request : p # q /\ At(p, "clear") => q \in beside[p]
      BY <3>1 DEF At, BesideInv, Busy
    <3>5. \A p \in rows' : pc'[p] \in {"mark", "start", "done"}
      BY <3>1, <3>2
    <3>6. OneCurrentUnlessBeside' /\ LocatedForGood'
      BY <3>1, <3>3
    <3>7. q \notin rows /\ pc'[q] # "clear" /\ \A p \in Request : p # q => pc'[p] = pc[p]
      BY <3>1, <3>2 DEF At
    <3>8. ASSUME NEW p \in Request
          PROVE  /\ ~ At(p, "clear")' => seen'[p] = {} /\ held'[p] = {}
                 /\ seen'[p] \subseteq rows'
                 /\ held'[p] \subseteq current' \ seen'[p]
                 /\ At(p, "clear")' => current' \subseteq seen'[p] \cup held'[p] \cup beside'[p]
                 /\ seen'[p] \subseteq current' \/ \E x \in current' : x \notin seen'[p] \cup held'[p]
      <4>1. CASE p = q
        BY <3>1, <3>7, <4>1 DEF At
      <4>2. CASE p # q
        <5>1. held'[p] = held[p] /\ seen'[p] = seen[p] /\ pc'[p] = pc[p] /\ held[p] \cap held[q] = {}
          BY <3>1, <3>7, <4>2
        <5>2. q \in current' /\ q \notin seen[p] \cup held[p]
          BY <3>1, <3>7
        <5> QED
          BY <3>1, <3>4, <4>2, <5>1, <5>2 DEF At
      <4> QED
        BY <4>1, <4>2
    <3>9. \A p, x \in Request : p # x => held'[p] \cap held'[x] = {}
      BY <3>1
    <3> QED
      BY <3>5, <3>6, <3>8, <3>9
  <2>7. CASE RollBack(q)
    BY <2>7 DEF RollBack, Goto, At, Ends, Fails, Fault, database, locations, locals, history, Busy
  <2>8. CASE MarkLocationUpdated(q)
    BY <2>8 DEF MarkLocationUpdated, Goto, At, Ends, Fails, Fault, database, locations, locals, history, Busy
  <2>9. CASE StartDriverSession(q)
    BY <2>9 DEF StartDriverSession, Goto, At, Ends, Fails, Fault, database, locations, locals, history, Busy
  <2>10. CASE GetRideFare(q)
    BY <2>10 DEF GetRideFare, Goto, At, Ends, Fails, Fault, database, locations, locals, history, Busy
  <2>11. CASE PickSession(q)
    BY <2>11 DEF PickSession, Goto, At, Ends, Fails, Fault, database, locations, locals, history, Busy
  <2>12. CASE EndDriverSession(q)
    BY <2>12 DEF EndDriverSession, Goto, At, Ends, Fails, Fault, database, locations, locals, history, Busy
  <2>13. CASE RecordCompletedRide(q)
    BY <2>13 DEF RecordCompletedRide, Goto, At, Ends, Fails, Fault, database, locations, locals, history, Busy
  <2> QED
    BY <2>1, <2>2, <2>3, <2>4, <2>5, <2>6, <2>7, <2>8, <2>9, <2>10, <2>11, <2>12, <2>13 DEF RequestStep
<1>3. CASE \E r \in Ride : Activate(r) \/ Cancel(r) \/ Complete(r)
  BY <1>3 DEF Activate, Cancel, Complete, Goto, At, Ends, Fails, Fault, database, locations, locals, history, Busy
<1>4. CASE Tick
  BY <1>4 DEF Tick, Goto, At, Ends, Fails, Fault, database, locations, locals, history, Busy
<1>5. CASE Crash
  BY <1>5 DEF Crash, Goto, At, Ends, Fails, Fault, database, locations, locals, history, Busy
<1>6. CASE UNCHANGED vars
  <2>1. pc' = pc /\ beside' = beside
    BY <1>6 DEF vars, history
  <2>2. rows' = rows /\ current' = current /\ seen' = seen /\ held' = held
    BY <1>6 DEF vars, database, locations, locals
  <2> QED
    BY <2>1, <2>2 DEF At, Busy
<1> QED
  BY <1>1, <1>2, <1>3, <1>4, <1>5, <1>6, Actions

LEMMA RowInit == Init => BesideInv /\ RowInv
  BY DEF Init, BesideInv, RowInv, OneCurrentUnlessBeside, LocatedForGood, At, Busy

\* Two requests in progress know of each other, rows changed and not committed
\* are held by one of them, and two current rows are of requests side by side.
THEOREM RowInvCorrect == Spec => [](BesideInv /\ RowInv)
  BY TypeOKCorrect, RowInit, BesideStep, RowStep, PTL DEF Spec

\* Two current rows are of requests that ran side by side (UpdateDriverLocation).
THEOREM OneCurrentUnlessBesideCorrect == Spec => []OneCurrentUnlessBeside
  BY RowInvCorrect, PTL DEF RowInv

\* A driver who has been located stays so (UpdateDriverLocation).
THEOREM LocatedForGoodCorrect == Spec => []LocatedForGood
  BY RowInvCorrect, PTL DEF RowInv

\* An update that holds a row waits for another only where the driver has two that
\* are current, so that no two wait for each other while he has one
\* (UpdateDriverLocation).
THEOREM HolderWaitsOnlyBesideCurrentCorrect == Spec => []HolderWaitsOnlyBesideCurrent
  BY TypeOKCorrect, RowInvCorrect, HolderWaits, PTL

-----------------------------------------------------------------------------
(* Which handler can be where.                                              *)

RoleInv ==
    /\ \A q \in Request :
        /\ At(q, "status") => kind[q] # "location"
        /\ At(q, "allow") => kind[q] = "location"
        /\ pc[q] \in {"target", "snapshot", "clear"} => kind[q] \in {"online", "location"}
        /\ pc[q] \in {"mark", "start"} => kind[q] = "online"
        /\ At(q, "fare") => kind[q] = "complete"
        /\ pc[q] \in {"pick", "apply"} => kind[q] \in {"offline", "complete"}
    /\ \A q \in rows : kind[q] \in {"online", "location"} /\ pc[q] \in {"mark", "start", "done"}
    /\ \A q \in credits : kind[q] = "complete" /\ At(q, "done")
    /\ \A q \in closers : kind[q] = "offline" /\ At(q, "done")

RoleType ==
    /\ pc \in [Request -> Place] /\ kind \in [Request -> Kind \cup {"location"}]
    /\ rows \subseteq Request /\ credits \subseteq Request /\ closers \subseteq Request

LEMMA RoleTyped == TypeOK => RoleType
  BY DEF TypeOK, RoleType

\* Each handler goes through its own places.
LEMMA RoleStep == TypeOK /\ RoleInv /\ [Next]_vars => RoleInv'
<1> SUFFICES ASSUME TypeOK, RoleInv, [Next]_vars
             PROVE  RoleInv'
  OBVIOUS
<1> USE RoleTyped, KindAssumption DEF RoleType, RoleInv
<1>1. CASE \E q \in Request, k \in Kind, r \in Ride \cup {NoRide} : Begin(q, k, r)
  BY <1>1 DEF Begin, Goto, At, Ends, Fails, Fault, database, locations, locals, history, Busy
<1>2. CASE \E q \in Request : RequestStep(q)
  <2> PICK q \in Request : RequestStep(q)
    BY <1>2
  <2>1. CASE SetDriverStatus(q)
    <3>1. At(q, "status") /\ kind' = kind /\ rows' = rows /\ credits' = credits /\ closers' = closers
      BY <2>1 DEF SetDriverStatus, locations, locals, history
    <3>2. kind[q] \in {"online", "offline", "complete"}
      BY <3>1, KindAssumption DEF At
    <3>3. pc' \in {[pc EXCEPT ![q] = "done"],
                  [pc EXCEPT ![q] = IF kind[q] = "online" THEN "target"
                                    ELSE IF kind[q] = "offline" THEN "pick" ELSE "fare"]}
      BY <2>1 DEF SetDriverStatus, Ends, Fails, Goto
    <3> QED
      BY <3>1, <3>2, <3>3 DEF At
  <2>2. CASE AllowLocationUpdate(q)
    <3>1. At(q, "allow") /\ kind' = kind /\ rows' = rows /\ credits' = credits /\ closers' = closers
      BY <2>2 DEF AllowLocationUpdate, database, locations, locals
    <3>2. pc' \in {[pc EXCEPT ![q] = "done"], [pc EXCEPT ![q] = "target"]}
      BY <2>2 DEF AllowLocationUpdate, Goto
    <3> QED
      BY <3>1, <3>2 DEF At
  <2>3. CASE GetActiveRideTarget(q)
    BY <2>3 DEF GetActiveRideTarget, Goto, At, Ends, Fails, Fault, database, locations, locals, history, Busy
  <2>4. CASE FindCurrent(q)
    BY <2>4 DEF FindCurrent, Goto, At, Ends, Fails, Fault, database, locations, locals, history, Busy
  <2>5. CASE ClearRow(q)
    BY <2>5 DEF ClearRow, Goto, At, Ends, Fails, Fault, database, locations, locals, history, Busy
  <2>6. CASE CommitLocation(q)
    BY <2>6 DEF CommitLocation, Goto, At, Ends, Fails, Fault, database, locations, locals, history, Busy
  <2>7. CASE RollBack(q)
    BY <2>7 DEF RollBack, Goto, At, Ends, Fails, Fault, database, locations, locals, history, Busy
  <2>8. CASE MarkLocationUpdated(q)
    BY <2>8 DEF MarkLocationUpdated, Goto, At, Ends, Fails, Fault, database, locations, locals, history, Busy
  <2>9. CASE StartDriverSession(q)
    BY <2>9 DEF StartDriverSession, Goto, At, Ends, Fails, Fault, database, locations, locals, history, Busy
  <2>10. CASE GetRideFare(q)
    BY <2>10 DEF GetRideFare, Goto, At, Ends, Fails, Fault, database, locations, locals, history, Busy
  <2>11. CASE PickSession(q)
    BY <2>11 DEF PickSession, Goto, At, Ends, Fails, Fault, database, locations, locals, history, Busy
  <2>12. CASE EndDriverSession(q)
    BY <2>12 DEF EndDriverSession, Goto, At, Ends, Fails, Fault, database, locations, locals, history, Busy
  <2>13. CASE RecordCompletedRide(q)
    BY <2>13 DEF RecordCompletedRide, Goto, At, Ends, Fails, Fault, database, locations, locals, history, Busy
  <2> QED
    BY <2>1, <2>2, <2>3, <2>4, <2>5, <2>6, <2>7, <2>8, <2>9, <2>10, <2>11, <2>12, <2>13 DEF RequestStep
<1>3. CASE \E r \in Ride : Activate(r) \/ Cancel(r) \/ Complete(r)
  BY <1>3 DEF Activate, Cancel, Complete, Goto, At, Ends, Fails, Fault, database, locations, locals, history, Busy
<1>4. CASE Tick
  BY <1>4 DEF Tick, Goto, At, Ends, Fails, Fault, database, locations, locals, history, Busy
<1>5. CASE Crash
  BY <1>5 DEF Crash, Goto, At, Ends, Fails, Fault, database, locations, locals, history, Busy
<1>6. CASE UNCHANGED vars
  <2>1. pc' = pc /\ kind' = kind /\ rows' = rows /\ credits' = credits /\ closers' = closers
    BY <1>6 DEF vars, database, locations, locals, history
  <2> QED
    BY <2>1 DEF At
<1> QED
  BY <1>1, <1>2, <1>3, <1>4, <1>5, <1>6, Actions

-----------------------------------------------------------------------------
(* The rate limit.                                                          *)

\* The time of the last location in memory is no later than now, and no earlier
\* than that of any location let through since the service started.
TimeInv ==
    /\ last # Never => last <= now
    /\ \A q \in Request : admitted[q] # Never => last # Never /\ admitted[q] <= last
    /\ RateKept

TimeType ==
    /\ now \in Nat /\ last \in Nat \cup {Never}
    /\ admitted \in [Request -> Nat \cup {Never}]

LEMMA TimeTyped == TypeOK => TimeType
  BY TimeAssumption DEF TypeOK, TimeType

\* Whoever is let through comes RateLimit after the last time in memory, and so
\* after everybody else.
LEMMA TimeStep == TypeOK /\ TimeInv /\ [Next]_vars => TimeInv'
<1> SUFFICES ASSUME TypeOK, TimeInv, [Next]_vars
             PROVE  TimeInv'
  OBVIOUS
<1> USE TimeTyped, TimeAssumption, NoValueAssumption DEF TimeType, TimeInv, RateKept
<1>1. CASE \E q \in Request, k \in Kind, r \in Ride \cup {NoRide} : Begin(q, k, r)
  BY <1>1 DEF Begin, history, locals
<1>2. CASE \E q \in Request : RequestStep(q)
  <2> PICK q \in Request : RequestStep(q)
    BY <1>2
  <2>1. CASE SetDriverStatus(q)
    BY <2>1 DEF SetDriverStatus, history, locals
  <2>2. CASE AllowLocationUpdate(q)
    <3>1. CASE last # Never /\ now - last < RateLimit
      BY <2>2, <3>1 DEF AllowLocationUpdate
    <3>2. CASE ~(last # Never /\ now - last < RateLimit)
      <4>1. last' = now /\ now' = now /\ admitted' = [admitted EXCEPT ![q] = now]
        BY <2>2, <3>2 DEF AllowLocationUpdate
      <4>2. \A p \in Request : admitted[p] # Never =>
                /\ admitted[p] \in Nat /\ admitted[p] <= now /\ now - admitted[p] >= RateLimit
        BY <3>2
      <4>3. now \in Nat
        OBVIOUS
      <4> QED
        BY <4>1, <4>2, <4>3
    <3> QED
      BY <3>1, <3>2
  <2>3. CASE GetActiveRideTarget(q)
    BY <2>3 DEF GetActiveRideTarget, history, locals
  <2>4. CASE FindCurrent(q)
    BY <2>4 DEF FindCurrent, history, locals
  <2>5. CASE ClearRow(q)
    BY <2>5 DEF ClearRow, history, locals
  <2>6. CASE CommitLocation(q)
    BY <2>6 DEF CommitLocation, history, locals
  <2>7. CASE RollBack(q)
    BY <2>7 DEF RollBack, history, locals
  <2>8. CASE MarkLocationUpdated(q)
    BY <2>8 DEF MarkLocationUpdated, history, locals
  <2>9. CASE StartDriverSession(q)
    BY <2>9 DEF StartDriverSession, history, locals
  <2>10. CASE GetRideFare(q)
    BY <2>10 DEF GetRideFare, history, locals
  <2>11. CASE PickSession(q)
    BY <2>11 DEF PickSession, history, locals
  <2>12. CASE EndDriverSession(q)
    BY <2>12 DEF EndDriverSession, history, locals
  <2>13. CASE RecordCompletedRide(q)
    BY <2>13 DEF RecordCompletedRide, history, locals
  <2> QED
    BY <2>1, <2>2, <2>3, <2>4, <2>5, <2>6, <2>7, <2>8, <2>9, <2>10, <2>11, <2>12, <2>13 DEF RequestStep
<1>3. CASE \E r \in Ride : Activate(r) \/ Cancel(r) \/ Complete(r)
  BY <1>3 DEF Activate, Cancel, Complete, history, locals
<1>4. CASE Tick
  BY <1>4 DEF Tick, history, locals
<1>5. CASE Crash
  BY <1>5 DEF Crash, history, locals
<1>6. CASE UNCHANGED vars
  BY <1>6 DEF vars, history
<1> QED
  BY <1>1, <1>2, <1>3, <1>4, <1>5, <1>6, Actions

-----------------------------------------------------------------------------
(* Rides and fares.                                                         *)

RideType ==
    /\ pc \in [Request -> Place] /\ rows \subseteq Request /\ credits \subseteq Request
    /\ kind \in [Request -> Kind \cup {"location"}]
    /\ ride \in [Request -> Ride \cup {NoRide}]
    /\ earnings \in [Request -> Nat]
    /\ rides \in [Ride -> {"none", "active", "over"}]
    /\ finalFare \in [Ride -> Fare \cup {NoFare}]
    /\ met \in [Request -> SUBSET Ride]
    /\ stood \in [Request -> SUBSET (Fare \cup {NoFare})]

LEMMA RideTyped == TypeOK => RideType
  BY DEF TypeOK, RideType

\* Who has yet to look has met the rides that are active and seen the fare that
\* stands; who has looked has found one of those he met.
RideInv ==
    /\ \A q \in Request, r \in Ride :
        /\ kind[q] \in Locating /\ Looking(q) /\ rides[r] = "active" => r \in met[q]
        /\ pc[q] \in {"status", "fare"} /\ ride[q] = r => finalFare[r] \in stood[q]
    /\ \A q \in Request :
        /\ (kind[q] = "complete" /\ pc[q] \in {"pick", "apply"}) \/ q \in credits
        /\ ride[q] \in Ride /\ NoFare \notin stood[q]
        => \E f \in stood[q] : earnings[q] = 8 * f
    /\ \A q \in Request :
        (pc[q] \in {"snapshot", "clear"} \/ q \in rows) /\ ride[q] \in Ride => ride[q] \in met[q]

LEMMA FindRideStep ==
    ASSUME TypeOK, RoleInv, RideInv, NEW q \in Request, GetActiveRideTarget(q)
    PROVE  RideInv'
<1>1. /\ rides' = rides /\ finalFare' = finalFare /\ met' = met /\ stood' = stood
      /\ kind' = kind /\ rows' = rows /\ credits' = credits /\ earnings' = earnings
      /\ At(q, "target") /\ pc' = [pc EXCEPT ![q] = "snapshot"]
  BY DEF GetActiveRideTarget, database, locations, history, Ends, Goto
<1>2. PICK r \in Ride \cup {NoRide} : /\ ride' = [ride EXCEPT ![q] = r]
                                      /\ r \in Ride => rides[r] = "active"
  BY NoValueAssumption DEF GetActiveRideTarget, Newest
<1>3. pc \in [Request -> Place] /\ ride \in [Request -> Ride \cup {NoRide}]
  BY DEF TypeOK
<1>4. /\ \A p \in Request : p # q => ride'[p] = ride[p] /\ pc'[p] = pc[p]
      /\ ride'[q] = r /\ pc'[q] = "snapshot"
  BY <1>1, <1>2, <1>3
<1>5. q \notin credits /\ kind[q] \in Locating
  BY <1>1 DEF RoleInv, At, Locating
<1>6. r \in Ride => r \in met[q]
  BY <1>1, <1>2, <1>5 DEF RideInv, Looking, At
<1> QED
  BY <1>1, <1>4, <1>5, <1>6 DEF RideInv, Looking

\* What the ride service writes is met and seen by all who have yet to look.
LEMMA RideStep == TypeOK /\ RoleInv /\ RideInv /\ [Next]_vars => RideInv'
<1> SUFFICES ASSUME TypeOK, RoleInv, RideInv, [Next]_vars
             PROVE  RideInv'
  OBVIOUS
<1> USE RideTyped, NoValueAssumption, FareAssumption DEF RideType, RoleInv, RideInv, Looking, Locating
<1>1. CASE \E q \in Request, k \in Kind, r \in Ride \cup {NoRide} : Begin(q, k, r)
  BY <1>1 DEF Begin, Goto, At, Ends, Fails, Fault, database, locations, locals, history, Busy
<1>2. CASE \E q \in Request : RequestStep(q)
  <2> PICK q \in Request : RequestStep(q)
    BY <1>2
  <2>1. CASE SetDriverStatus(q)
    BY <2>1 DEF SetDriverStatus, Goto, At, Ends, Fails, Fault, database, locations, locals, history
  <2>2. CASE AllowLocationUpdate(q)
    BY <2>2 DEF AllowLocationUpdate, Goto, At, Ends, Fails, Fault, database, locations, locals, history
  <2>3. CASE GetActiveRideTarget(q)
    BY <2>3, FindRideStep
  <2>4. CASE FindCurrent(q)
    BY <2>4 DEF FindCurrent, Goto, At, Ends, Fails, Fault, database, locations, locals, history
  <2>5. CASE ClearRow(q)
    BY <2>5 DEF ClearRow, Goto, At, Ends, Fails, Fault, database, locations, locals, history
  <2>6. CASE CommitLocation(q)
    BY <2>6 DEF CommitLocation, Goto, At, Ends, Fails, Fault, database, locations, locals, history
  <2>7. CASE RollBack(q)
    BY <2>7 DEF RollBack, Goto, At, Ends, Fails, Fault, database, locations, locals, history
  <2>8. CASE MarkLocationUpdated(q)
    BY <2>8 DEF MarkLocationUpdated, Goto, At, Ends, Fails, Fault, database, locations, locals, history
  <2>9. CASE StartDriverSession(q)
    <3>1. /\ rides' = rides /\ finalFare' = finalFare /\ stood' = stood /\ met' = met /\ ride' = ride
          /\ kind' = kind /\ rows' = rows /\ credits' = credits /\ earnings' = earnings
      BY <2>9 DEF StartDriverSession, locations, locals, history
    <3>2. At(q, "start") /\ pc' = [pc EXCEPT ![q] = "done"]
      BY <2>9 DEF StartDriverSession, Ends, Fails, Goto
    <3> QED
      BY <3>1, <3>2 DEF At
  <2>10. CASE GetRideFare(q)
    <3>1. /\ rides' = rides /\ finalFare' = finalFare /\ stood' = stood /\ met' = met /\ ride' = ride
          /\ kind' = kind /\ rows' = rows /\ credits' = credits /\ At(q, "fare")
      BY <2>10 DEF GetRideFare, database, locations, history
    <3>2. CASE Ends(q, "pick")
      <4>1. pc' = [pc EXCEPT ![q] = "pick"]
        BY <3>2 DEF Ends, Goto
      <4>2. /\ ride[q] \in Ride /\ finalFare[ride[q]] # NoFare => earnings'[q] = 8 * finalFare[ride[q]]
            /\ \A p \in Request : p # q => earnings'[p] = earnings[p]
        BY <2>10, <3>2 DEF GetRideFare, Ends, Fails, Goto, At
      <4>3. \A p \in Request : p # q => earnings'[p] = earnings[p] /\ pc'[p] = pc[p]
        BY <4>1, <4>2
      <4>4. ride[q] \in Ride /\ NoFare \notin stood[q] => \E f \in stood[q] : earnings'[q] = 8 * f
        <5>1. ride[q] \in Ride => finalFare[ride[q]] \in stood[q]
          BY <3>1 DEF At
        <5> HIDE DEF RideInv, RoleInv
        <5> QED
          BY <4>2, <5>1
      <4>5. pc'[q] = "pick" /\ q \notin rows
        BY <3>1, <4>1 DEF At
      <4> QED
        BY <3>1, <4>3, <4>4, <4>5
    <3>3. CASE Fails(q) /\ earnings' = earnings
      BY <3>1, <3>3 DEF Fails, Goto, At
    <3> QED
      BY <2>10, <3>2, <3>3 DEF GetRideFare
  <2>11. CASE PickSession(q)
    BY <2>11 DEF PickSession, Goto, At, Ends, Fails, Fault, database, locations, locals, history
  <2>12. CASE EndDriverSession(q)
    BY <2>12 DEF EndDriverSession, Goto, At, Ends, Fails, Fault, database, locations, locals, history
  <2>13. CASE RecordCompletedRide(q)
    BY <2>13 DEF RecordCompletedRide, Goto, At, Ends, Fails, Fault, database, locations, locals, history
  <2> QED
    BY <2>1, <2>2, <2>3, <2>4, <2>5, <2>6, <2>7, <2>8, <2>9, <2>10, <2>11, <2>12, <2>13 DEF RequestStep
<1>3. CASE \E r \in Ride : Activate(r) \/ Cancel(r) \/ Complete(r)
  BY <1>3 DEF Activate, Cancel, Complete, Goto, At, Ends, Fails, Fault, database, locations, locals, history
<1>4. CASE Tick
  BY <1>4 DEF Tick, Goto, At, Ends, Fails, Fault, database, locations, locals, history
<1>5. CASE Crash
  BY <1>5 DEF Crash, Goto, At, Ends, Fails, Fault, database, locations, locals, history, Busy
<1>6. CASE UNCHANGED vars
  BY <1>6 DEF vars, database, locations, locals, history
<1> QED
  BY <1>1, <1>2, <1>3, <1>4, <1>5, <1>6, Actions

-----------------------------------------------------------------------------
(* Sessions.                                                                *)

SessionType ==
    /\ pc \in [Request -> Place] /\ kind \in [Request -> Kind \cup {"location"}]
    /\ sessions \in Seq(Session)
    /\ chosen \in [Request -> 0..Len(sessions)]
    /\ summary \in [Request -> Nat]
    /\ beside \in [Request -> SUBSET Request]
    /\ credits \subseteq Request /\ closers \subseteq Request

LEMMA SessionTyped == TypeOK => SessionType
  BY DEF TypeOK, SessionType, Session

\* The completions entered in the session of an offline request beside it.
Late(q) == {p \in credits \cap beside[q] : chosen[p] = chosen[q]}

\* A session told of in a summary is closed; who still has it in hand runs, or
\* ran, beside the request that told.
SessionInv ==
    /\ \A q \in closers : chosen[q] # 0 /\ ~ sessions[chosen[q]].open
    /\ \A q \in closers, p \in Request :
           At(p, "apply") /\ chosen[p] = chosen[q] => p \in beside[q]
    /\ ClosedOnceUnlessBeside
    /\ IsFiniteSet(credits)
    /\ \A q \in closers : sessions[chosen[q]].rides - summary[q] <= Cardinality(Late(q))

\* What is left of SessionInv by a step that keeps what was told.
LEMMA SessionFrame ==
    ASSUME TypeOK, SessionInv,
           beside' = beside, credits' = credits, closers' = closers, summary' = summary,
           \A p \in credits \cup closers : chosen'[p] = chosen[p],
           \A p \in closers : sessions'[chosen[p]] = sessions[chosen[p]],
           \A p \in Request : \/ At(p, "apply")' => At(p, "apply") /\ chosen'[p] = chosen[p]
                              \/ \A q \in closers : chosen'[p] # chosen[q]
    PROVE  SessionInv'
<1>1. closers \subseteq Request /\ credits \subseteq Request
  BY DEF TypeOK
<1>2. \A p \in closers : Late(p)' = Late(p)
  BY <1>1 DEF Late
<1>3. \A q \in closers, p \in Request :
         At(p, "apply")' /\ chosen'[p] = chosen'[q] => p \in beside'[q]
  BY <1>1 DEF SessionInv
<1>4. ClosedOnceUnlessBeside'
  BY <1>1 DEF SessionInv, ClosedOnceUnlessBeside
<1>5. \A q \in closers : sessions'[chosen'[q]].rides - summary'[q] <= Cardinality(Late(q)')
  BY <1>1, <1>2 DEF SessionInv
<1>6. \A q \in closers : chosen'[q] # 0 /\ ~ sessions'[chosen'[q]].open
  BY <1>1 DEF SessionInv
<1> QED
  BY <1>3, <1>4, <1>5, <1>6 DEF SessionInv

LEMMA StartStep ==
    ASSUME TypeOK, SessionInv, NEW q \in Request, StartDriverSession(q)
    PROVE  SessionInv'
<1> DEFINE fresh == [open |-> TRUE, rides |-> 0, earnings |-> 0]
<1>1. /\ chosen' = chosen /\ summary' = summary /\ beside' = beside /\ credits' = credits
      /\ closers' = closers /\ At(q, "start") /\ pc' = [pc EXCEPT ![q] = "done"]
  BY DEF StartDriverSession, locals, history, Ends, Fails, Goto
<1>2. sessions \in Seq(Session) /\ pc \in [Request -> Place] /\ closers \subseteq Request
      /\ chosen \in [Request -> 0..Len(sessions)]
  BY DEF TypeOK, Session
<1>3. \A s \in 1..Len(sessions) : sessions'[s] = sessions[s]
  <2>1. fresh \in Session
    BY DEF Session
  <2>2. sessions' \in {sessions, Append(sessions, fresh)}
    BY DEF StartDriverSession
  <2> QED
    BY <1>2, <2>1, <2>2, AppendProperties
<1>4. \A p \in closers : chosen[p] \in 1..Len(sessions)
  BY <1>2 DEF SessionInv
<1>5. \A p \in Request : At(p, "apply")' => At(p, "apply")
  BY <1>1, <1>2 DEF At
<1> QED
  BY <1>1, <1>3, <1>4, <1>5, SessionFrame

LEMMA PickStep ==
    ASSUME TypeOK, RoleInv, SessionInv, NEW q \in Request, PickSession(q)
    PROVE  SessionInv'
<1>1. /\ sessions' = sessions /\ summary' = summary /\ beside' = beside /\ credits' = credits
      /\ closers' = closers /\ At(q, "pick") /\ pc' = [pc EXCEPT ![q] = "apply"]
  BY DEF PickSession, database, history, Ends, Goto
<1>2. pc \in [Request -> Place] /\ closers \subseteq Request /\ credits \subseteq Request
      /\ chosen \in [Request -> 0..Len(sessions)]
  BY DEF TypeOK
<1>3. PICK s : chosen' = [chosen EXCEPT ![q] = s] /\ (s = 0 \/ sessions[s].open)
  BY DEF PickSession, Newest
<1>4. q \notin closers /\ q \notin credits
  BY <1>1 DEF At, RoleInv
<1>5. \A p \in Request : p # q => chosen'[p] = chosen[p] /\ pc'[p] = pc[p]
  BY <1>1, <1>2, <1>3
<1>6. \A p \in closers : chosen'[q] # chosen[p]
  BY <1>2, <1>3 DEF SessionInv
<1>7. \A p \in Request : \/ At(p, "apply")' => At(p, "apply") /\ chosen'[p] = chosen[p]
                         \/ \A x \in closers : chosen'[p] # chosen[x]
  BY <1>5, <1>6 DEF At
<1>8. \A p \in credits \cup closers : chosen'[p] = chosen[p]
  BY <1>2, <1>4, <1>5
<1> QED
  BY <1>1, <1>7, <1>8, SessionFrame

LEMMA EndStep ==
    ASSUME TypeOK, RoleInv, BesideInv, SessionInv, NEW q \in Request, EndDriverSession(q)
    PROVE  SessionInv'
<1> DEFINE s == chosen[q]
<1>1. /\ chosen' = chosen /\ beside' = beside /\ credits' = credits
      /\ At(q, "apply") /\ pc' = [pc EXCEPT ![q] = "done"]
  BY DEF EndDriverSession, Ends, Fails, Goto
<1>2. sessions \in Seq(Session) /\ pc \in [Request -> Place] /\ closers \subseteq Request
      /\ chosen \in [Request -> 0..Len(sessions)] /\ summary \in [Request -> Nat]
      /\ credits \subseteq Request
  BY DEF TypeOK, Session
<1>3. /\ q \notin closers
      /\ \A p \in Request : p # q /\ At(p, "apply") => p \in beside[q]
      /\ \A p \in closers : chosen[p] = s => q \in beside[p] /\ p \in beside[q]
  <2>1. q \in Busy /\ \A p \in Request : At(p, "apply") => p \in Busy
    BY <1>1 DEF At, Busy
  <2> QED
    BY <1>1, <1>2, <2>1 DEF At, RoleInv, BesideInv, SessionInv
<1>4. \A p \in Request : Late(p)' = Late(p)
  BY <1>1 DEF Late
<1>5. \A p \in closers : chosen[p] \in 1..Len(sessions)
  BY <1>2 DEF SessionInv
<1>6. \A p \in Request : At(p, "apply")' => At(p, "apply") /\ p # q
  BY <1>1, <1>2 DEF At
<1>7. CASE s = 0
  <2>1. sessions' = sessions /\ closers' = closers /\ \A p \in closers : summary'[p] = summary[p]
    BY <1>2, <1>3, <1>7 DEF EndDriverSession
  <2> QED
    BY <1>1, <1>2, <1>4, <1>6, <2>1 DEF SessionInv, ClosedOnceUnlessBeside
<1>8. CASE s # 0
  <2> DEFINE closed == [sessions EXCEPT ![s].open = FALSE]
  <2>1. s \in 1..Len(sessions) /\ sessions[s] \in Session
    BY <1>2, <1>8, ElementOfSeq
  <2>2. /\ closed[s].rides = sessions[s].rides /\ ~ closed[s].open
        /\ \A t \in 1..Len(sessions) : t # s => closed[t] = sessions[t]
    BY <1>2, <2>1 DEF Session
  <2> HIDE DEF closed
  <2>3. sessions' \in {sessions, closed}
    BY <1>8 DEF EndDriverSession, closed
  <2>4. \A p \in closers : /\ chosen[p] # 0 /\ ~ sessions'[chosen[p]].open
                           /\ sessions'[chosen[p]].rides - summary[p] <= Cardinality(Late(p))
    BY <1>5, <2>2, <2>3 DEF SessionInv
  <2>5. CASE closers' = closers /\ summary' = summary
    BY <1>1, <1>2, <1>4, <1>6, <2>4, <2>5 DEF SessionInv, ClosedOnceUnlessBeside
  <2>6. CASE /\ closers' = closers \cup {q} /\ sessions' = closed
             /\ summary' = [summary EXCEPT ![q] = sessions[s].rides]
    <3>1. Cardinality(Late(q)) \in Nat
      BY FS_Subset, FS_CardinalityType DEF SessionInv, Late
    <3>2. sessions[s].rides \in Nat
      BY <2>1 DEF Session
    <3>3. /\ summary'[q] = sessions[s].rides
          /\ \A p \in closers : summary'[p] = summary[p]
      BY <1>2, <1>3, <2>6
    <3>4. sessions'[s].rides - summary'[q] <= Cardinality(Late(q))
      BY <2>2, <2>6, <3>1, <3>2, <3>3
    <3>5. \A p \in closers' : /\ chosen'[p] # 0 /\ ~ sessions'[chosen'[p]].open
                              /\ sessions'[chosen'[p]].rides - summary'[p] <= Cardinality(Late(p)')
      BY <1>1, <1>2, <1>4, <1>8, <2>2, <2>4, <2>6, <3>3, <3>4
    <3>6. \A p \in closers', x \in Request :
             At(x, "apply")' /\ chosen'[x] = chosen'[p] => x \in beside'[p]
      BY <1>1, <1>2, <1>3, <1>6, <2>6 DEF SessionInv
    <3>7. ClosedOnceUnlessBeside'
      BY <1>1, <1>3, <2>6 DEF SessionInv, ClosedOnceUnlessBeside
    <3> QED
      BY <1>1, <3>5, <3>6, <3>7 DEF SessionInv
  <2> QED
    BY <1>8, <2>5, <2>6 DEF EndDriverSession, closed
<1> QED
  BY <1>7, <1>8

LEMMA RecordStep ==
    ASSUME TypeOK, RoleInv, SessionInv, NEW q \in Request, RecordCompletedRide(q)
    PROVE  SessionInv'
<1> DEFINE s == chosen[q]
<1>1. /\ chosen' = chosen /\ beside' = beside /\ closers' = closers /\ summary' = summary
      /\ At(q, "apply") /\ pc' = [pc EXCEPT ![q] = "done"]
  BY DEF RecordCompletedRide, Ends, Fails, Goto, locals
<1>2. sessions \in Seq(Session) /\ pc \in [Request -> Place] /\ closers \subseteq Request
      /\ chosen \in [Request -> 0..Len(sessions)] /\ summary \in [Request -> Nat]
      /\ credits \subseteq Request
  BY DEF TypeOK, Session
<1>3. q \notin credits /\ \A p \in closers : chosen[p] = s => q \in beside[p]
  BY <1>1, <1>2 DEF At, RoleInv, SessionInv
<1>4. \A p \in Request : At(p, "apply")' => At(p, "apply")
  BY <1>1, <1>2 DEF At
<1>5. CASE sessions' = sessions /\ credits' = credits
  BY <1>1, <1>4, <1>5, SessionFrame
<1>6. CASE /\ s # 0 /\ credits' = credits \cup {q}
           /\ sessions' = [sessions EXCEPT ![s] = Credited(sessions[s], earnings[q])]
  <2>1. s \in 1..Len(sessions) /\ sessions[s] \in Session
    BY <1>2, <1>6, ElementOfSeq
  <2>2. /\ sessions'[s].rides = sessions[s].rides + 1 /\ sessions'[s].open = sessions[s].open
        /\ \A t \in 1..Len(sessions) : t # s => sessions'[t] = sessions[t]
    BY <1>2, <1>6, <2>1 DEF Credited
  <2>3. \A p \in closers : chosen[p] \in 1..Len(sessions) /\ chosen[p] # 0 /\ ~ sessions[chosen[p]].open
    BY <1>2 DEF SessionInv
  <2>4. \A p \in closers : ~ sessions'[chosen[p]].open
    BY <2>2, <2>3
  <2>5. ASSUME NEW p \in closers
        PROVE  sessions'[chosen[p]].rides - summary[p] <= Cardinality(Late(p)')
    <3>1. sessions[chosen[p]].rides - summary[p] <= Cardinality(Late(p))
      BY DEF SessionInv
    <3>2. CASE chosen[p] = s
      <4>1. Late(p)' = Late(p) \cup {q} /\ q \notin Late(p)
        BY <1>1, <1>2, <1>3, <1>6, <3>2 DEF Late
      <4>2. IsFiniteSet(Late(p))
        BY FS_Subset DEF SessionInv, Late
      <4>3. Cardinality(Late(p)) \in Nat
        BY <4>2, FS_CardinalityType
      <4>4. Cardinality(Late(p) \cup {q}) = Cardinality(Late(p)) + 1
        BY <4>1, <4>2, FS_AddElement
      <4>5. sessions[s].rides \in Nat /\ summary[p] \in Nat
        BY <1>2, <2>1 DEF Session
      <4> QED
        BY <2>2, <3>1, <3>2, <4>1, <4>3, <4>4, <4>5
    <3>3. CASE chosen[p] # s
      <4>1. Late(p)' = Late(p)
        BY <1>1, <1>6, <3>3 DEF Late
      <4>2. sessions'[chosen[p]] = sessions[chosen[p]]
        BY <2>2, <2>3, <3>3
      <4> QED
        BY <3>1, <4>1, <4>2
    <3> QED
      BY <3>2, <3>3
  <2>6. IsFiniteSet(credits')
    BY <1>6, FS_AddElement DEF SessionInv
  <2>7. \A x \in closers', p \in Request :
           At(p, "apply")' /\ chosen'[p] = chosen'[x] => p \in beside'[x]
    BY <1>1, <1>2, <1>4 DEF SessionInv
  <2>8. ClosedOnceUnlessBeside'
    BY <1>1 DEF SessionInv, ClosedOnceUnlessBeside
  <2> QED
    BY <1>1, <2>3, <2>4, <2>5, <2>6, <2>7, <2>8 DEF SessionInv
<1> QED
  BY <1>5, <1>6 DEF RecordCompletedRide

\* What is picked is open; what is closed stays so.
LEMMA SessionStep == TypeOK /\ RoleInv /\ BesideInv /\ SessionInv /\ [Next]_vars => SessionInv'
<1> SUFFICES ASSUME TypeOK, RoleInv, BesideInv, SessionInv, [Next]_vars
             PROVE  SessionInv'
  OBVIOUS
<1> USE SessionTyped DEF SessionType, RoleInv, SessionInv, ClosedOnceUnlessBeside, Late
<1>1. CASE \E q \in Request, k \in Kind, r \in Ride \cup {NoRide} : Begin(q, k, r)
  <2> PICK q \in Request, k \in Kind, r \in Ride \cup {NoRide} : Begin(q, k, r)
    BY <1>1
  <2>1. /\ sessions' = sessions /\ chosen' = chosen /\ summary' = summary /\ credits' = credits
        /\ closers' = closers /\ At(q, "idle")
        /\ \A p \in Request : p # q /\ p \notin Busy => beside'[p] = beside[p]
        /\ pc' = [pc EXCEPT ![q] = IF k = "location" THEN "allow" ELSE "status"]
    BY DEF Begin, database, Goto
  <2>2. \A p \in closers : beside'[p] = beside[p]
    BY <2>1 DEF At, Busy
  <2>3. \A p \in closers : Late(p)' = Late(p)
    BY <2>1, <2>2
  <2> QED
    BY <2>1, <2>2, <2>3 DEF At
<1>2. CASE \E q \in Request : RequestStep(q)
  <2> PICK q \in Request : RequestStep(q)
    BY <1>2
  <2>1. CASE SetDriverStatus(q)
    BY <2>1 DEF SetDriverStatus, Goto, At, Ends, Fails, Fault, database, locations, locals, history
  <2>2. CASE AllowLocationUpdate(q)
    BY <2>2 DEF AllowLocationUpdate, Goto, At, Ends, Fails, Fault, database, locations, locals, history
  <2>3. CASE GetActiveRideTarget(q)
    BY <2>3 DEF GetActiveRideTarget, Goto, At, Ends, Fails, Fault, database, locations, locals, history
  <2>4. CASE FindCurrent(q)
    BY <2>4 DEF FindCurrent, Goto, At, Ends, Fails, Fault, database, locations, locals, history
  <2>5. CASE ClearRow(q)
    BY <2>5 DEF ClearRow, Goto, At, Ends, Fails, Fault, database, locations, locals, history
  <2>6. CASE CommitLocation(q)
    BY <2>6 DEF CommitLocation, Goto, At, Ends, Fails, Fault, database, locations, locals, history
  <2>7. CASE RollBack(q)
    BY <2>7 DEF RollBack, Goto, At, Ends, Fails, Fault, database, locations, locals, history
  <2>8. CASE MarkLocationUpdated(q)
    BY <2>8 DEF MarkLocationUpdated, Goto, At, Ends, Fails, Fault, database, locations, locals, history
  <2>9. CASE StartDriverSession(q)
    BY <2>9, StartStep
  <2>10. CASE GetRideFare(q)
    BY <2>10 DEF GetRideFare, Goto, At, Ends, Fails, Fault, database, locations, locals, history
  <2>11. CASE PickSession(q)
    BY <2>11, PickStep
  <2>12. CASE EndDriverSession(q)
    BY <2>12, EndStep
  <2>13. CASE RecordCompletedRide(q)
    BY <2>13, RecordStep
  <2> QED
    BY <2>1, <2>2, <2>3, <2>4, <2>5, <2>6, <2>7, <2>8, <2>9, <2>10, <2>11, <2>12, <2>13 DEF RequestStep
<1>3. CASE \E r \in Ride : Activate(r) \/ Cancel(r) \/ Complete(r)
  <2>1. /\ sessions' = sessions /\ chosen' = chosen /\ summary' = summary /\ credits' = credits
        /\ closers' = closers /\ beside' = beside /\ pc' = pc
    BY <1>3 DEF Activate, Cancel, Complete, locals, history
  <2>2. \A p \in closers : Late(p)' = Late(p)
    BY <2>1
  <2> QED
    BY <2>1, <2>2 DEF At
<1>4. CASE Tick
  BY <1>4 DEF Tick, Goto, At, Ends, Fails, Fault, database, locations, locals, history
<1>5. CASE Crash
  BY <1>5 DEF Crash, Goto, At, Ends, Fails, Fault, database, locations, locals, history, Busy
<1>6. CASE UNCHANGED vars
  <2>1. /\ sessions' = sessions /\ chosen' = chosen /\ summary' = summary /\ credits' = credits
        /\ closers' = closers /\ beside' = beside /\ pc' = pc
    BY <1>6 DEF vars, database, locals, history
  <2>2. \A p \in closers : Late(p)' = Late(p)
    BY <2>1
  <2> QED
    BY <2>1, <2>2 DEF At
<1> QED
  BY <1>1, <1>2, <1>3, <1>4, <1>5, <1>6, Actions

-----------------------------------------------------------------------------
(* Sums.                                                                    *)

\* A set of as many pairs as the sum of e over S.
Pairs(e, S) == UNION {{q} \X (1 .. e[q]) : q \in S}
Any(s) == CHOOSE x \in s : TRUE

\* An element more is as many pairs more as e has for it.
LEMMA PairsAdd ==
    ASSUME NEW A, NEW e \in [A -> Nat], NEW S, S \subseteq A, IsFiniteSet(S), NEW q \in A, q \notin S
    PROVE  /\ IsFiniteSet(Pairs(e, S))
           /\ Cardinality(Pairs(e, S \cup {q})) = e[q] + Cardinality(Pairs(e, S))
<1> DEFINE P(x) == {x} \X (1 .. e[x])
<1>1. \A x \in A : IsFiniteSet(P(x)) /\ Cardinality(P(x)) = e[x]
  <2> TAKE x \in A
  <2>1. IsFiniteSet(1 .. e[x]) /\ Cardinality(1 .. e[x]) = e[x]
    BY FS_Interval
  <2>2. IsFiniteSet({x}) /\ Cardinality({x}) = 1
    BY FS_Singleton
  <2>3. Cardinality(P(x)) = Cardinality({x}) * Cardinality(1 .. e[x]) /\ IsFiniteSet(P(x))
    BY <2>1, <2>2, FS_Product
  <2> QED
    BY <2>1, <2>2, <2>3
<1>2. IsFiniteSet(Pairs(e, S))
  <2>1. IsFiniteSet({P(x) : x \in S})
    <3> DEFINE f == [x \in S |-> P(x)]
    <3>1. f \in Surjection(S, {P(x) : x \in S})
      BY DEF Surjection
    <3> QED
      BY <3>1, FS_Surjection
  <2>2. \A T \in {P(x) : x \in S} : IsFiniteSet(T)
    BY <1>1
  <2> QED
    BY <2>1, <2>2, FS_UNION DEF Pairs
<1>3. Pairs(e, S \cup {q}) = Pairs(e, S) \cup P(q)
  BY DEF Pairs
<1>4. Pairs(e, S) \cap P(q) = {}
  BY DEF Pairs
<1>5. Cardinality(Pairs(e, S) \cup P(q))
        = Cardinality(Pairs(e, S)) + Cardinality(P(q)) - Cardinality(Pairs(e, S) \cap P(q))
  BY <1>1, <1>2, FS_Union
<1>6. Cardinality(Pairs(e, S)) \in Nat
  BY <1>2, FS_CardinalityType
<1>7. Cardinality(Pairs(e, S) \cap P(q)) = 0
  BY <1>4, FS_EmptySet
<1>8. Cardinality(P(q)) = e[q] /\ e[q] \in Nat
  BY <1>1
<1>9. Cardinality(Pairs(e, S \cup {q})) = e[q] + Cardinality(Pairs(e, S))
  <2> DEFINE T == Pairs(e, S)
             U == P(q)
             V == T \cap U
             W == Pairs(e, S \cup {q})
  <2>1. W = T \cup U
    BY <1>3
  <2>2. Cardinality(T \cup U) = Cardinality(T) + Cardinality(U) - Cardinality(V)
    BY <1>5
  <2>3. Cardinality(T) \in Nat /\ Cardinality(U) = e[q] /\ e[q] \in Nat /\ Cardinality(V) = 0
    BY <1>6, <1>7, <1>8
  <2> HIDE DEF T, U, V, W
  <2>4. Cardinality(W) = e[q] + Cardinality(T)
    BY <2>1, <2>2, <2>3
  <2> QED
    BY <2>4 DEF T, W
<1> QED
  BY <1>2, <1>9

\* The library's sum, which takes its elements in an order of its own, is the number
\* of pairs: that number meets the equation the sum is defined by, and a least set
\* on which the two differ there would be none.
LEMMA SumCounts ==
    ASSUME NEW A, NEW e \in [A -> Nat], NEW S, S \subseteq A, IsFiniteSet(S)
    PROVE  MapThenSumSet(LAMBDA q : e[q], S) = Cardinality(Pairs(e, S))
<1> DEFINE Sums(f) == f = [s \in SUBSET S |-> IF s = {} THEN 0 ELSE e[Any(s)] + f[s \ {Any(s)}]]
           count == [s \in SUBSET S |-> Cardinality(Pairs(e, s))]
           iter == CHOOSE f : Sums(f)
<1>1. \A s \in SUBSET S :
          IF s = {} THEN count[s] = 0 ELSE count[s] = e[Any(s)] + count[s \ {Any(s)}]
  <2> TAKE s \in SUBSET S
  <2>1. CASE s = {}
    BY <2>1, FS_EmptySet DEF Pairs
  <2>2. CASE s # {}
    <3>1. Any(s) \in s
      BY <2>2 DEF Any
    <3>2. IsFiniteSet(s \ {Any(s)}) /\ s \ {Any(s)} \subseteq A
      BY FS_Subset, FS_RemoveElement
    <3>3. (s \ {Any(s)}) \cup {Any(s)} = s
      BY <3>1
    <3> QED
      BY <2>2, <3>1, <3>2, <3>3, PairsAdd
  <2> QED
    BY <2>1, <2>2
<1>2. Sums(count)
  <2> DEFINE g == [s \in SUBSET S |-> IF s = {} THEN 0 ELSE e[Any(s)] + count[s \ {Any(s)}]]
  <2>1. \A s \in SUBSET S : count[s] = g[s]
    BY <1>1
  <2> QED
    BY <2>1
<1>3. Sums(iter)
  BY <1>2
<1> HIDE DEF iter
<1>4. \A s \in SUBSET S : iter[s] = count[s]
  <2> DEFINE wrong == {s \in SUBSET S : iter[s] # count[s]}
  <2>1. SUFFICES ASSUME wrong # {} PROVE FALSE
    OBVIOUS
  <2>2. wrong \subseteq FiniteSubsetsOf(S)
    BY FS_Subset DEF FiniteSubsetsOf
  <2>3. PICK s \in wrong : \A t \in wrong : ~ (<<t, s>> \in StrictSubsetOrdering(S))
    BY <2>1, <2>2, FS_StrictSubsetOrderingWellFounded, WFMin
  <2>4. s # {}
    BY <1>1, <1>3
  <2>5. Any(s) \in s
    BY <2>4 DEF Any
  <2>6. s \ {Any(s)} \notin wrong
    <3> DEFINE t == s \ {Any(s)}
    <3>1. t \subseteq s /\ t # s /\ t \in SUBSET S /\ s \in SUBSET S
      BY <2>5
    <3>2. <<t, s>> \in StrictSubsetOrdering(S)
      BY <3>1 DEF StrictSubsetOrdering
    <3> QED
      BY <2>3, <3>2
  <2>7. iter[s \ {Any(s)}] = count[s \ {Any(s)}]
    BY <2>6
  <2> QED
    BY <1>1, <1>3, <2>4, <2>7
<1>5. MapThenSumSet(LAMBDA q : e[q], S) = iter[S]
  BY Zenon DEF iter, MapThenSumSet, MapThenFoldSet, Any
<1> QED
  BY <1>4, <1>5

-----------------------------------------------------------------------------
(* Credits.                                                                 *)

\* The completions entered in a session, and the earnings they were answered with.
Mine(s) == {q \in credits : chosen[q] = s}
Told(s) == Cardinality(Pairs(earnings, Mine(s)))

\* n rides were credited with e cents; t tenths of a cent were told.
InBalance(n, e, t) == -5 * n <= 10 * e - t /\ 10 * e - t <= 5 * n

\* CreditsKept, with the sum as a number of pairs.
CreditInv ==
    \A s \in DOMAIN sessions :
        /\ sessions[s].rides = Cardinality(Mine(s))
        /\ InBalance(sessions[s].rides, sessions[s].earnings, Told(s))

\* One completion more is half a cent more or less.
LEMMA CreditBalance ==
    ASSUME NEW n \in Nat, NEW e \in Nat, NEW t \in Nat, NEW x \in Nat, InBalance(n, e, t)
    PROVE  InBalance(n + 1, Rounded(10 * e + x), t + x)
<1> DEFINE y == 10 * e + x + 5
           d == y \div 10
<1>1. d \in Int /\ 10 * d <= y /\ y <= 10 * d + 9
  OBVIOUS
<1>2. Rounded(10 * e + x) = d
  BY DEF Rounded
<1> HIDE DEF d
<1> QED
  BY <1>1, <1>2 DEF InBalance

\* A step that credits nothing, and changes no session but its status.
LEMMA CreditFrame ==
    ASSUME CreditInv, credits' = credits,
           \A p \in credits : chosen'[p] = chosen[p] /\ earnings'[p] = earnings[p],
           \A s \in DOMAIN sessions' :
               \/ /\ s \in DOMAIN sessions
                  /\ sessions'[s].rides = sessions[s].rides
                  /\ sessions'[s].earnings = sessions[s].earnings
               \/ /\ sessions'[s].rides = 0 /\ sessions'[s].earnings = 0
                  /\ \A p \in credits : chosen[p] # s
    PROVE  CreditInv'
<1> SUFFICES ASSUME NEW s \in DOMAIN sessions'
             PROVE  /\ sessions'[s].rides = Cardinality(Mine(s)')
                    /\ InBalance(sessions'[s].rides, sessions'[s].earnings, Told(s)')
  BY DEF CreditInv, InBalance
<1>1. Mine(s)' = Mine(s)
  BY DEF Mine
<1>2. Pairs(earnings, Mine(s))' = Pairs(earnings, Mine(s))
  BY <1>1 DEF Pairs, Mine
<1>3. CASE /\ s \in DOMAIN sessions
           /\ sessions'[s].rides = sessions[s].rides
           /\ sessions'[s].earnings = sessions[s].earnings
  BY <1>1, <1>2, <1>3 DEF CreditInv, Told
<1>4. CASE /\ sessions'[s].rides = 0 /\ sessions'[s].earnings = 0
           /\ \A p \in credits : chosen[p] # s
  <2>1. Mine(s) = {} /\ Pairs(earnings, Mine(s)) = {}
    BY <1>4 DEF Mine, Pairs
  <2> QED
    BY <1>1, <1>2, <1>4, <2>1, FS_EmptySet DEF Told, InBalance
<1> QED
  BY <1>3, <1>4

\* A completion is entered in the session it has picked.
LEMMA CreditRecord ==
    ASSUME TypeOK, RoleInv, CreditInv, IsFiniteSet(credits),
           NEW q \in Request, RecordCompletedRide(q)
    PROVE  CreditInv'
<1> PICK s : s = chosen[q]
  OBVIOUS
<1>1. chosen' = chosen /\ earnings' = earnings /\ At(q, "apply")
  BY DEF RecordCompletedRide, locals
<1>2. sessions \in Seq(Session) /\ chosen \in [Request -> 0..Len(sessions)]
      /\ earnings \in [Request -> Nat] /\ credits \subseteq Request
  BY DEF TypeOK, Session
<1>3. q \notin credits
  BY <1>1 DEF At, RoleInv
<1>4. CASE sessions' = sessions /\ credits' = credits
  BY <1>1, <1>4, CreditFrame
<1>5. CASE /\ s # 0 /\ credits' = credits \cup {q}
           /\ sessions' = [sessions EXCEPT ![s] = Credited(sessions[s], earnings[q])]
  <2>1. s \in DOMAIN sessions /\ sessions[s] \in Session
    BY <1>2, <1>5, ElementOfSeq
  <2>2. /\ sessions[s].rides \in Nat /\ sessions[s].earnings \in Nat /\ earnings[q] \in Nat
        /\ sessions'[s].rides = sessions[s].rides + 1
        /\ sessions'[s].earnings = Rounded(10 * sessions[s].earnings + earnings[q])
        /\ DOMAIN sessions' = DOMAIN sessions
        /\ \A t \in DOMAIN sessions : t # s => sessions'[t] = sessions[t]
    BY <1>2, <1>5, <2>1 DEF Credited, Session
  <2>3. /\ q \notin Mine(s) /\ Mine(s)' = Mine(s) \cup {q}
        /\ IsFiniteSet(Mine(s)) /\ Mine(s) \subseteq Request
    BY <1>1, <1>2, <1>3, <1>5, FS_Subset DEF Mine
  <2>4. Cardinality(Mine(s)') = Cardinality(Mine(s)) + 1
    BY <2>3, FS_AddElement
  <2>5. Told(s) \in Nat /\ Told(s)' = Told(s) + earnings[q]
    <3>1. /\ IsFiniteSet(Pairs(earnings, Mine(s)))
          /\ Cardinality(Pairs(earnings, Mine(s) \cup {q}))
               = earnings[q] + Cardinality(Pairs(earnings, Mine(s)))
      <4> DEFINE mine == Mine(s)
      <4>1. /\ earnings \in [Request -> Nat] /\ mine \subseteq Request
            /\ IsFiniteSet(mine) /\ q \in Request /\ q \notin mine
        BY <1>2, <2>3
      <4> HIDE DEF mine
      <4>2. /\ IsFiniteSet(Pairs(earnings, mine))
            /\ Cardinality(Pairs(earnings, mine \cup {q}))
                 = earnings[q] + Cardinality(Pairs(earnings, mine))
        BY <4>1, PairsAdd
      <4> QED
        BY <4>2 DEF mine
    <3>2. Cardinality(Pairs(earnings, Mine(s))) \in Nat
      BY <3>1, FS_CardinalityType
    <3>3. Told(s)' = Cardinality(Pairs(earnings, Mine(s) \cup {q}))
      BY <1>1, <2>3 DEF Told
    <3> QED
      BY <2>2, <3>1, <3>2, <3>3 DEF Told
  <2>6. sessions'[s].rides = Cardinality(Mine(s)')
    BY <2>1, <2>2, <2>4 DEF CreditInv
  <2>7. InBalance(sessions'[s].rides, sessions'[s].earnings, Told(s)')
    <3>1. InBalance(sessions[s].rides, sessions[s].earnings, Told(s))
      BY <2>1 DEF CreditInv
    <3>2. InBalance(sessions[s].rides + 1,
                    Rounded(10 * sessions[s].earnings + earnings[q]), Told(s) + earnings[q])
      BY <2>2, <2>5, <3>1, CreditBalance
    <3>3. /\ sessions'[s].rides = sessions[s].rides + 1
          /\ sessions'[s].earnings = Rounded(10 * sessions[s].earnings + earnings[q])
          /\ Told(s)' = Told(s) + earnings[q]
      BY <2>2, <2>5
    <3> QED
      BY ONLY <3>2, <3>3
  <2>8. ASSUME NEW t \in DOMAIN sessions, t # s
        PROVE  /\ sessions'[t].rides = Cardinality(Mine(t)')
               /\ InBalance(sessions'[t].rides, sessions'[t].earnings, Told(t)')
    <3>1. Mine(t)' = Mine(t)
      BY <1>1, <1>5, <2>8 DEF Mine
    <3>2. Told(t)' = Told(t)
      BY <1>1, <3>1 DEF Told
    <3> QED
      BY <2>2, <2>8, <3>1, <3>2 DEF CreditInv
  <2>9. \A t \in DOMAIN sessions' :
            /\ sessions'[t].rides = Cardinality(Mine(t)')
            /\ InBalance(sessions'[t].rides, sessions'[t].earnings, Told(t)')
    BY <2>2, <2>6, <2>7, <2>8
  <2> QED
    BY <2>9 DEF CreditInv, InBalance
<1> QED
  BY <1>4, <1>5 DEF RecordCompletedRide

\* What another step does to the credits: nothing.
LEMMA CreditMoves ==
    ASSUME TypeOK, RoleInv, [Next]_vars, ~ \E q \in Request : RecordCompletedRide(q)
    PROVE  /\ credits' = credits
           /\ \A p \in credits : chosen'[p] = chosen[p] /\ earnings'[p] = earnings[p]
           /\ \/ sessions' = sessions
              \/ \E q \in Request : StartDriverSession(q) \/ EndDriverSession(q)
<1>1. /\ chosen \in [Request -> 0..Len(sessions)] /\ earnings \in [Request -> Nat]
      /\ credits \subseteq Request
  BY DEF TypeOK
<1>2. \A p \in credits : At(p, "done")
  BY DEF RoleInv
<1>3. CASE \E q \in Request, k \in Kind, r \in Ride \cup {NoRide} : Begin(q, k, r)
  BY <1>3 DEF Begin, database
<1>4. CASE \E q \in Request : RequestStep(q)
  <2> PICK q \in Request : RequestStep(q)
    BY <1>4
  <2>1. CASE SetDriverStatus(q) \/ MarkLocationUpdated(q) \/ AllowLocationUpdate(q)
    BY <2>1 DEF SetDriverStatus, MarkLocationUpdated, AllowLocationUpdate, database, locals, history
  <2>2. CASE GetActiveRideTarget(q) \/ FindCurrent(q) \/ ClearRow(q)
    BY <2>2 DEF GetActiveRideTarget, FindCurrent, ClearRow, database, history
  <2>3. CASE CommitLocation(q) \/ RollBack(q)
    BY <2>3 DEF CommitLocation, RollBack, database, history
  <2>4. CASE StartDriverSession(q) \/ EndDriverSession(q)
    BY <2>4 DEF StartDriverSession, EndDriverSession, locals, history
  <2>5. CASE GetRideFare(q)
    <3>1. q \notin credits
      BY <1>2, <2>5 DEF GetRideFare, At
    <3>2. \A p \in credits : earnings'[p] = earnings[p]
      BY <1>1, <2>5, <3>1 DEF GetRideFare
    <3> QED
      BY <2>5, <3>2 DEF GetRideFare, database, history
  <2>6. CASE PickSession(q)
    <3>1. q \notin credits
      BY <1>2, <2>6 DEF PickSession, At
    <3>2. \A p \in credits : chosen'[p] = chosen[p]
      BY <1>1, <2>6, <3>1 DEF PickSession
    <3> QED
      BY <2>6, <3>2 DEF PickSession, database, history
  <2> QED
    BY <2>1, <2>2, <2>3, <2>4, <2>5, <2>6 DEF RequestStep
<1>5. CASE \E r \in Ride : Activate(r) \/ Cancel(r) \/ Complete(r)
  BY <1>5 DEF Activate, Cancel, Complete, locals, history
<1>6. CASE Tick \/ Crash
  BY <1>6 DEF Tick, Crash, database, locals, history
<1>7. CASE UNCHANGED vars
  BY <1>7 DEF vars, database, locals, history
<1> QED
  BY <1>3, <1>4, <1>5, <1>6, <1>7, Actions

\* Sessions are opened empty, and closed as they are.
LEMMA CreditStep ==
    TypeOK /\ RoleInv /\ SessionInv /\ CreditInv /\ [Next]_vars => CreditInv'
<1> SUFFICES ASSUME TypeOK, RoleInv, SessionInv, CreditInv, [Next]_vars
             PROVE  CreditInv'
  OBVIOUS
<1>1. /\ sessions \in Seq(Session) /\ chosen \in [Request -> 0..Len(sessions)]
      /\ credits \subseteq Request /\ IsFiniteSet(credits)
  BY DEF TypeOK, Session, SessionInv
<1>2. CASE \E q \in Request : RecordCompletedRide(q)
  BY <1>1, <1>2, CreditRecord
<1>3. CASE ~ \E q \in Request : RecordCompletedRide(q)
  <2>1. /\ credits' = credits
        /\ \A p \in credits : chosen'[p] = chosen[p] /\ earnings'[p] = earnings[p]
        /\ \/ sessions' = sessions
           \/ \E q \in Request : StartDriverSession(q) \/ EndDriverSession(q)
    BY <1>3, CreditMoves
  <2>2. CASE sessions' = sessions
    BY <2>1, <2>2, CreditFrame
  <2>3. CASE \E q \in Request : StartDriverSession(q)
    <3> DEFINE fresh == [open |-> TRUE, rides |-> 0, earnings |-> 0]
    <3>1. fresh \in Session
      BY DEF Session
    <3>2. sessions' \in {sessions, Append(sessions, fresh)}
      BY <2>3 DEF StartDriverSession
    <3>3. \A p \in credits : chosen[p] # Len(sessions) + 1
      BY <1>1
    <3>4. CASE sessions' = sessions
      BY <2>1, <3>4, CreditFrame
    <3>5. CASE sessions' = Append(sessions, fresh)
      <4>1. /\ DOMAIN sessions' = 1..Len(sessions) + 1
            /\ DOMAIN sessions = 1..Len(sessions)
            /\ \A s \in 1..Len(sessions) : sessions'[s] = sessions[s]
            /\ sessions'[Len(sessions) + 1] = fresh
        BY <1>1, <3>1, <3>5
      <4>2. ASSUME NEW s \in DOMAIN sessions'
            PROVE  \/ /\ s \in DOMAIN sessions
                      /\ sessions'[s].rides = sessions[s].rides
                      /\ sessions'[s].earnings = sessions[s].earnings
                   \/ /\ sessions'[s].rides = 0 /\ sessions'[s].earnings = 0
                      /\ \A p \in credits : chosen[p] # s
        BY <1>1, <3>3, <4>1
      <4> QED
        BY <2>1, <4>2, CreditFrame
    <3> QED
      BY <3>2, <3>4, <3>5
  <2>4. CASE \E q \in Request : EndDriverSession(q)
    <3>1. PICK q \in Request : EndDriverSession(q)
      BY <2>4
    <3>2. CASE sessions' = sessions
      BY <2>1, <3>2, CreditFrame
    <3>3. CASE chosen[q] # 0 /\ sessions' = [sessions EXCEPT ![chosen[q]].open = FALSE]
      <4>1. chosen[q] \in DOMAIN sessions /\ \A s \in DOMAIN sessions : sessions[s] \in Session
        BY <1>1, <3>3, ElementOfSeq
      <4>2. /\ DOMAIN sessions' = DOMAIN sessions
            /\ \A s \in DOMAIN sessions : /\ sessions'[s].rides = sessions[s].rides
                                          /\ sessions'[s].earnings = sessions[s].earnings
        BY <1>1, <3>3, <4>1 DEF Session
      <4> QED
        BY <2>1, <4>2, CreditFrame
    <3> QED
      BY <3>1, <3>2, <3>3 DEF EndDriverSession
  <2> QED
    BY <2>1, <2>2, <2>3, <2>4
<1> QED
  BY <1>2, <1>3

LEMMA CreditInit == Init => CreditInv
  BY DEF Init, CreditInv

-----------------------------------------------------------------------------
(* What follows for every behaviour.                                        *)

LEMMA RoleInit == Init => RoleInv
  BY DEF Init, RoleInv, At

LEMMA TimeInit == Init => TimeInv
  BY DEF Init, TimeInv, RateKept

LEMMA RideInit == Init => RideInv
<1> SUFFICES ASSUME Init
             PROVE  RideInv
  OBVIOUS
<1>1. /\ \A r \in Ride : rides[r] = "none" /\ finalFare[r] = NoFare
      /\ \A q \in Request : pc[q] = "idle"
      /\ rows = {} /\ credits = {}
  BY DEF Init
<1> QED
  BY <1>1 DEF RideInv, Looking

LEMMA SessionInit == Init => SessionInv
<1> SUFFICES ASSUME Init
             PROVE  SessionInv
  OBVIOUS
<1>1. closers = {} /\ credits = {}
  BY DEF Init
<1> QED
  BY <1>1, FS_EmptySet DEF SessionInv, ClosedOnceUnlessBeside

\* What the handlers know of each other, of the clock, of rides and of sessions.
THEOREM RecordsInvCorrect == Spec => [](RoleInv /\ TimeInv /\ RideInv /\ SessionInv)
<1>1. Init => RoleInv /\ TimeInv /\ RideInv /\ SessionInv
  BY RoleInit, TimeInit, RideInit, SessionInit
<1>2. TypeOK /\ BesideInv /\ RoleInv /\ TimeInv /\ RideInv /\ SessionInv /\ [Next]_vars
      => (RoleInv /\ TimeInv /\ RideInv /\ SessionInv)'
  BY RoleStep, TimeStep, RideStep, SessionStep
<1> QED
  BY <1>1, <1>2, TypeOKCorrect, RowInvCorrect, PTL DEF Spec

\* At most one location every RateLimit is let through (allowLocationUpdate).
THEOREM RateKeptCorrect == Spec => []RateKept
  BY RecordsInvCorrect, PTL DEF TimeInv

\* A ride whose final fare stood is credited by a final fare it had (GetRideFare).
THEOREM PaidByFinalFareCorrect == Spec => []PaidByFinalFare
<1>1. TypeOK => credits \subseteq Request
  BY DEF TypeOK
<1>2. RideInv /\ TypeOK => PaidByFinalFare
  BY <1>1 DEF RideInv, PaidByFinalFare
<1> QED
  BY <1>2, RecordsInvCorrect, TypeOKCorrect, PTL

\* No location is filed under a ride not active since the call (GetActiveRideTarget).
THEOREM NotFiledUnderPastRideCorrect == Spec => []NotFiledUnderPastRide
<1>1. TypeOK => rows \subseteq Request
  BY DEF TypeOK
<1>2. RideInv /\ TypeOK => NotFiledUnderPastRide
  BY <1>1 DEF RideInv, NotFiledUnderPastRide
<1> QED
  BY <1>2, RecordsInvCorrect, TypeOKCorrect, PTL

\* A session is closed twice only by requests side by side (EndDriverSession).
THEOREM ClosedOnceUnlessBesideCorrect == Spec => []ClosedOnceUnlessBeside
  BY RecordsInvCorrect, PTL DEF SessionInv

\* What the summary of a session misses was completed beside it (EndDriverSession).
THEOREM SummaryMissesOnlyBesideCorrect == Spec => []SummaryMissesOnlyBeside
<1>1. SessionInv => SummaryMissesOnlyBeside
  BY DEF SessionInv, SummaryMissesOnlyBeside, Late
<1> QED
  BY <1>1, RecordsInvCorrect, PTL

\* The balance of every session, in every state.
THEOREM CreditInvCorrect == Spec => []CreditInv
  BY CreditInit, CreditStep, TypeOKCorrect, RecordsInvCorrect, PTL DEF Spec

\* A session has the rides and earnings of the completions entered in it, each once
\* and to half a cent (RecordCompletedRide).
THEOREM CreditsKeptCorrect == Spec => []CreditsKept
<1>1. TypeOK /\ SessionInv /\ CreditInv => CreditsKept
  <2> SUFFICES ASSUME TypeOK, SessionInv, CreditInv PROVE CreditsKept
    OBVIOUS
  <2>1. \A s : MapThenSumSet(LAMBDA q : earnings[q], Mine(s)) = Told(s)
    <3> TAKE s
    <3>1. /\ earnings \in [Request -> Nat] /\ Mine(s) \subseteq Request
          /\ IsFiniteSet(Mine(s))
      BY FS_Subset DEF TypeOK, SessionInv, Mine
    <3> QED
      BY <3>1, SumCounts DEF Told
  <2> QED
    BY <2>1 DEF CreditInv, CreditsKept, InBalance, Mine
<1> QED
  BY <1>1, CreditInvCorrect, RecordsInvCorrect, TypeOKCorrect, PTL
=============================================================================
