--------------------------- MODULE DriverRecords ---------------------------
(***************************************************************************)
(* What the driver and location service keeps of one driver: his status,   *)
(* his rows of coordinates and location_history, his sessions and the time *)
(* of his last location in memory (internal/driverlocation, handler.go and *)
(* repository.go).  Every statement names its driver, so that the rows of  *)
(* two drivers never meet.  The requests of his app run side by side, each *)
(* in a goroutine of its own, statement by statement under READ COMMITTED: *)
(* an UPDATE finds its rows in the snapshot it starts with and changes     *)
(* their latest versions, one row after the other in any order, and waits  *)
(* for each until no other transaction holds it.                           *)
(***************************************************************************)
EXTENDS Integers, Sequences, FiniteSets, FiniteSetsExt

CONSTANTS
    Request,        \* requests of the driver's app
    Kind,           \* the handlers it calls
    Ride,           \* his rides, numbered in the order they were requested
    Estimate,       \* estimated_fare of each ride, in cents
    NoRide,         \* no ride, also the ID of a ride that does not exist
    Fare,           \* the final fares there may be, in cents
    NoFare,         \* a fare that is NULL
    RateLimit,      \* locationRateLimit
    MaxTime,        \* bound: the clock
    MaxFaults,      \* bound: failed calls and crashes
    Never           \* a time that has not come

ASSUME KindAssumption == Kind \subseteq {"online", "offline", "complete", "location"}
ASSUME NoValueAssumption == NoRide \notin Ride /\ NoFare \notin Fare /\ Never \notin Nat
ASSUME FareAssumption == Ride \subseteq Nat /\ Fare \subseteq Nat /\ Estimate \in [Ride -> Nat]
ASSUME TimeAssumption == RateLimit \in Nat /\ MaxTime \in Nat /\ MaxFaults \in Nat

VARIABLES
    \* the database
    driverStatus,   \* drivers.status
    rows,           \* requests whose coordinates, and their copy in location_history
                    \* for the ride found, are committed
    current,        \* those of them with is_current
    sessions,       \* driver_sessions, in the order of started_at
    rides,          \* the ride service's: "none" of his, "active" or "over"
    finalFare,      \* the ride service's: final_fare
    \* the service
    last,           \* lastLocation of the driver, in memory
    \* the goroutine of each request
    pc,             \* its next statement
    kind,           \* the handler it is in
    ride,           \* the ride it names or has found
    seen,           \* the rows its UPDATE has found and not yet changed
    held,           \* the rows it has changed and not yet committed
    chosen,         \* the session its statement has picked, 0 for none
    earnings,       \* the driver_earnings it answers with, in tenths of a cent
    summary,        \* the rides_completed it answers with
    \* the clock and the faults
    now, faults,
    \* history, for the properties alone
    beside,         \* the requests that ran side by side with it
    credits,        \* completions that have been entered in a session
    closers,        \* requests that have closed a session and say so
    admitted,       \* when the rate limit let it pass
    met,            \* rides active at some time before it looked for one
    stood           \* final fares of its ride, or NULL, before it looked for that

locations == <<rows, current>>
database == <<driverStatus, locations, sessions, rides, finalFare>>
locals == <<kind, ride, seen, held, chosen, earnings, summary>>
history == <<beside, credits, closers, admitted, met, stood>>
vars == <<database, last, pc, locals, now, faults, history>>

Place == {"idle", "status", "allow", "target", "snapshot", "clear", "mark",
          "start", "pick", "fare", "apply", "done"}

Init ==
    /\ driverStatus = "OFFLINE"
    /\ rows = {} /\ current = {} /\ sessions = <<>>
    /\ rides = [r \in Ride |-> "none"]
    /\ finalFare = [r \in Ride |-> NoFare]
    /\ last = Never
    /\ pc = [q \in Request |-> "idle"]
    /\ kind = [q \in Request |-> "location"]
    /\ ride = [q \in Request |-> NoRide]
    /\ seen = [q \in Request |-> {}]
    /\ held = [q \in Request |-> {}]
    /\ chosen = [q \in Request |-> 0]
    /\ earnings = [q \in Request |-> 0]
    /\ summary = [q \in Request |-> 0]
    /\ now = 0 /\ faults = 0
    /\ beside = [q \in Request |-> {}]
    /\ credits = {} /\ closers = {}
    /\ admitted = [q \in Request |-> Never]
    /\ met = [q \in Request |-> {}] /\ stood = [q \in Request |-> {}]

Busy == {q \in Request : pc[q] \notin {"idle", "done"}}
At(q, place) == pc[q] = place
Goto(q, place) == pc' = [pc EXCEPT ![q] = place]
Fault == faults < MaxFaults /\ faults' = faults + 1

\* A statement that ends well, or fails: then the handler answers without the
\* rest, and what the statement was to do may be done or not.
Ends(q, place) == Goto(q, place) /\ UNCHANGED faults
Fails(q) == Goto(q, "done") /\ Fault

\* The handlers that store a location.
Locating == {"online", "location"}

-----------------------------------------------------------------------------
(* A request arrives.                                                       *)

\* The app calls a handler, with the ride it completes.  It need not have one.
Begin(q, k, r) ==
    /\ At(q, "idle")
    /\ k # "complete" => r = NoRide
    /\ kind' = [kind EXCEPT ![q] = k]
    /\ ride' = [ride EXCEPT ![q] = r]
    /\ Goto(q, IF k = "location" THEN "allow" ELSE "status")
    /\ beside' = [p \in Request |-> IF p = q THEN Busy
                                    ELSE IF p \in Busy THEN beside[p] \cup {q} ELSE beside[p]]
    /\ met' = [met EXCEPT ![q] = {a \in Ride : k \in Locating /\ rides[a] = "active"}]
    /\ stood' = [stood EXCEPT ![q] = IF r \in Ride THEN {finalFare[r]} ELSE {}]
    /\ UNCHANGED <<database, last, seen, held, chosen, earnings, summary, now, faults,
                   credits, closers, admitted>>

\* The first statement of HandleOnline, HandleOffline and HandleComplete.
SetDriverStatus(q) ==
    LET new == IF kind[q] = "offline" THEN "OFFLINE" ELSE "AVAILABLE"
    IN  /\ At(q, "status")
        /\ \/ /\ driverStatus' = new
              /\ Ends(q, IF kind[q] = "online" THEN "target"
                         ELSE IF kind[q] = "offline" THEN "pick" ELSE "fare")
           \/ driverStatus' \in {driverStatus, new} /\ Fails(q)
        /\ UNCHANGED <<locations, sessions, rides, finalFare, last, locals, now, history>>

-----------------------------------------------------------------------------
(* Locations: HandleLocation, HandleWSLocationUpdate and HandleOnline.      *)

\* Mutant: the time is entered when the location is stored, as in HandleOnline.
AllowWithoutStamp(q) ==
    /\ At(q, "allow")
    /\ IF last # Never /\ now - last < RateLimit
       THEN Goto(q, "done") /\ UNCHANGED admitted
       ELSE /\ admitted' = [admitted EXCEPT ![q] = now]
            /\ Goto(q, "target")
    /\ UNCHANGED <<database, last, locals, now, faults, beside, credits, closers, met, stood>>

\* Mutant: the time when the next one is due is entered.
AllowFrom(q) ==
    /\ At(q, "allow")
    /\ IF last # Never /\ now < last
       THEN Goto(q, "done") /\ UNCHANGED <<last, admitted>>
       ELSE /\ last' = now + RateLimit
            /\ admitted' = [admitted EXCEPT ![q] = now]
            /\ Goto(q, "target")
    /\ UNCHANGED <<database, locals, now, faults, beside, credits, closers, met, stood>>

\* allowLocationUpdate looks at the clock and enters the time under one lock.
AllowLocationUpdate(q) ==
    /\ At(q, "allow")
    /\ IF last # Never /\ now - last < RateLimit
       THEN Goto(q, "done") /\ UNCHANGED <<last, admitted>>
       ELSE /\ last' = now
            /\ admitted' = [admitted EXCEPT ![q] = now]
            /\ Goto(q, "target")
    /\ UNCHANGED <<database, locals, now, faults, beside, credits, closers, met, stood>>

\* ORDER BY ... DESC LIMIT 1.
Newest(x, S) == x \in S /\ \A y \in S : y <= x

\* Mutant: the driver's newest ride, whatever its status.
GetNewestRide(q) ==
    LET his == {r \in Ride : rides[r] # "none"}
    IN  /\ At(q, "target")
        /\ \/ his = {} /\ ride' = [ride EXCEPT ![q] = NoRide]
           \/ \E r \in his : Newest(r, his) /\ ride' = [ride EXCEPT ![q] = r]
        /\ Ends(q, "snapshot")
        /\ UNCHANGED <<database, last, kind, seen, held, chosen, earnings, summary, now, history>>

\* The driver's newest active ride; without an answer the location is stored for
\* no ride.
GetActiveRideTarget(q) ==
    LET active == {r \in Ride : rides[r] = "active"}
    IN  /\ At(q, "target")
        /\ \/ /\ \/ active = {} /\ ride' = [ride EXCEPT ![q] = NoRide]
                 \/ \E r \in active : Newest(r, active) /\ ride' = [ride EXCEPT ![q] = r]
              /\ Ends(q, "snapshot")
           \/ /\ ride' = [ride EXCEPT ![q] = NoRide]
              /\ Fault /\ Goto(q, "snapshot")
        /\ UNCHANGED <<database, last, kind, seen, held, chosen, earnings, summary, now,
                       history>>

\* Mutant: without is_current = true.
FindAllRows(q) ==
    /\ At(q, "snapshot")
    /\ seen' = [seen EXCEPT ![q] = rows]
    /\ Goto(q, "clear")
    /\ UNCHANGED <<database, last, kind, ride, held, chosen, earnings, summary, now,
                   faults, history>>

\* UpdateDriverLocation begins: its UPDATE finds the current rows.
FindCurrent(q) ==
    /\ At(q, "snapshot")
    /\ seen' = [seen EXCEPT ![q] = current]
    /\ Goto(q, "clear")
    /\ UNCHANGED <<database, last, kind, ride, held, chosen, earnings, summary, now,
                   faults, history>>

\* Mutant: the rows are cleared in a transaction of their own.
ClearAtOnce(q) ==
    /\ At(q, "clear") /\ seen[q] # {}
    /\ current' = current \ seen[q]
    /\ seen' = [seen EXCEPT ![q] = {}]
    /\ UNCHANGED <<driverStatus, rows, sessions, rides, finalFare, last, pc, kind, ride, held,
                   chosen, earnings, summary, now, faults, history>>

\* It comes to one of them, waits for whoever has changed it, and clears it if it
\* is still current.
ClearRow(q) ==
    /\ At(q, "clear")
    /\ \E x \in seen[q] :
          /\ \A p \in Request : x \notin held[p]
          /\ seen' = [seen EXCEPT ![q] = @ \ {x}]
          /\ held' = [held EXCEPT ![q] = @ \cup ({x} \cap current)]
    /\ UNCHANGED <<database, last, pc, kind, ride, chosen, earnings, summary, now, faults,
                   history>>

\* Mutant: it is committed without clearing the row before.
CommitBeside(q) ==
    /\ At(q, "clear")
    /\ rows' = rows \cup {q}
    /\ current' = current \cup {q}
    /\ seen' = [seen EXCEPT ![q] = {}] /\ held' = [held EXCEPT ![q] = {}]
    /\ \/ Ends(q, IF kind[q] = "online" THEN "mark" ELSE "done")
       \/ Fails(q)
    /\ UNCHANGED <<driverStatus, sessions, rides, finalFare, last, kind, ride, chosen,
                   earnings, summary, now, history>>

\* When it has done with all of them, the new row and its copy in location_history
\* are inserted and committed.
CommitLocation(q) ==
    /\ At(q, "clear") /\ seen[q] = {}
    /\ rows' = rows \cup {q}
    /\ current' = (current \ held[q]) \cup {q}
    /\ held' = [held EXCEPT ![q] = {}]
    /\ \/ Ends(q, IF kind[q] = "online" THEN "mark" ELSE "done")
       \/ Fails(q)
    /\ UNCHANGED <<driverStatus, sessions, rides, finalFare, last, kind, ride, seen, chosen,
                   earnings, summary, now, history>>

\* A statement of the transaction fails, or the database gives it up because it
\* and others wait for each other: nothing of it stays.
RollBack(q) ==
    /\ pc[q] \in {"snapshot", "clear"}
    /\ held' = [held EXCEPT ![q] = {}]
    /\ seen' = [seen EXCEPT ![q] = {}]
    /\ Fails(q)
    /\ UNCHANGED <<database, last, kind, ride, chosen, earnings, summary, now,
                   history>>

\* HandleOnline enters the time afterwards.
MarkLocationUpdated(q) ==
    /\ At(q, "mark")
    /\ last' = now
    /\ Goto(q, "start")
    /\ UNCHANGED <<database, locals, now, faults, history>>

-----------------------------------------------------------------------------
(* Sessions: the rest of HandleOnline, HandleOffline and HandleComplete.    *)

StartDriverSession(q) ==
    LET opened == Append(sessions, [open |-> TRUE, rides |-> 0, earnings |-> 0])
    IN  /\ At(q, "start")
        /\ \/ sessions' = opened /\ Ends(q, "done")
           \/ sessions' \in {sessions, opened} /\ Fails(q)
        /\ UNCHANGED <<driverStatus, locations, rides, finalFare, last, locals, now, history>>

\* Mutant: COALESCE(estimated_fare, final_fare, 0).
GetEstimatedFare(q) ==
    /\ At(q, "fare")
    /\ earnings' = [earnings EXCEPT ![q] = IF ride[q] \in Ride THEN 8 * Estimate[ride[q]] ELSE 0]
    /\ Ends(q, "pick")
    /\ UNCHANGED <<database, last, kind, ride, seen, held, chosen, summary, now, history>>

\* GetRideFare: COALESCE(final_fare, estimated_fare, 0); no row is no fare.  The
\* driver is told driverEarnRatio of it, whatever becomes of the rest.
GetRideFare(q) ==
    LET read == IF ride[q] \notin Ride THEN 0
                ELSE IF finalFare[ride[q]] # NoFare THEN finalFare[ride[q]]
                ELSE Estimate[ride[q]]
    IN  /\ At(q, "fare")
        /\ \/ earnings' = [earnings EXCEPT ![q] = 8 * read] /\ Ends(q, "pick")
           \/ Fails(q) /\ UNCHANGED earnings
        /\ UNCHANGED <<database, last, kind, ride, seen, held, chosen, summary, now, history>>

\* Mutant: a closed session is picked as well.
PickClosed(q) ==
    /\ At(q, "pick")
    /\ chosen' = [chosen EXCEPT ![q] = Len(sessions)]
    /\ Goto(q, "apply")
    /\ UNCHANGED <<database, last, kind, ride, seen, held, earnings, summary, now, faults,
                   history>>

\* EndDriverSession and RecordCompletedRide pick the session in a subselect ...
PickSession(q) ==
    LET open == {s \in DOMAIN sessions : sessions[s].open}
    IN  /\ At(q, "pick")
        /\ \/ open = {} /\ chosen' = [chosen EXCEPT ![q] = 0]
           \/ \E s \in open : Newest(s, open) /\ chosen' = [chosen EXCEPT ![q] = s]
        /\ Ends(q, "apply")
        /\ UNCHANGED <<database, last, kind, ride, seen, held, earnings, summary, now, history>>

\* ... which is not evaluated again when the row has changed since: it is closed
\* or credited as it then is.  A failed EndDriverSession is answered with zeros.
EndDriverSession(q) ==
    LET s == chosen[q]
        closed == IF s = 0 THEN sessions ELSE [sessions EXCEPT ![s].open = FALSE]
    IN  /\ At(q, "apply") /\ kind[q] = "offline"
        /\ \/ /\ sessions' = closed
              /\ summary' = [summary EXCEPT ![q] = IF s = 0 THEN 0 ELSE sessions[s].rides]
              /\ closers' = IF s = 0 THEN closers ELSE closers \cup {q}
              /\ Ends(q, "done")
           \/ /\ sessions' \in {sessions, closed} /\ UNCHANGED <<summary, closers>>
              /\ Fails(q)
        /\ UNCHANGED <<driverStatus, locations, rides, finalFare, last, kind, ride, seen, held,
                       chosen, earnings, now, beside, credits, admitted, met, stood>>

\* total_earnings is a DECIMAL(10, 2): the sum is rounded to the cent.
Rounded(tenths) == (tenths + 5) \div 10

Credited(session, tenths) ==
    [open |-> session.open,
     rides |-> session.rides + 1,
     earnings |-> Rounded(10 * session.earnings + tenths)]

\* Mutant: every open session of the driver is credited.
CreditAllOpen(q) ==
    /\ At(q, "apply") /\ kind[q] = "complete"
    /\ chosen[q] # 0
    /\ sessions' = [s \in DOMAIN sessions |->
           IF sessions[s].open
           THEN Credited(sessions[s], earnings[q])
           ELSE sessions[s]]
    /\ credits' = credits \cup {q}
    /\ Ends(q, "done")
    /\ UNCHANGED <<driverStatus, locations, rides, finalFare, last, locals, now, beside,
                   closers, admitted, met, stood>>

RecordCompletedRide(q) ==
    LET s == chosen[q]
        Credit ==
            IF s = 0 THEN UNCHANGED <<sessions, credits>>
            ELSE /\ sessions' = [sessions EXCEPT ![s] = Credited(@, earnings[q])]
                 /\ credits' = credits \cup {q}
    IN  /\ At(q, "apply") /\ kind[q] = "complete"
        /\ \/ Credit /\ Ends(q, "done")
           \/ (Credit \/ UNCHANGED <<sessions, credits>>) /\ Fails(q)
        /\ UNCHANGED <<driverStatus, locations, rides, finalFare, last, locals, now, beside,
                       closers, admitted, met, stood>>

-----------------------------------------------------------------------------
(* The rest of the world.                                                   *)

\* Requests that have yet to look at the rides find what the ride service writes.
Looking(q) == pc[q] \in {"status", "allow", "target", "fare"}

\* MatchDriver matches a requested ride with the driver.  Or UpdateRideStatus,
\* which asks for no status, brings back one of his that is over.
Activate(r) ==
    /\ \/ rides[r] = "none" /\ finalFare[r] = NoFare
       \/ rides[r] = "over"
    /\ rides' = [rides EXCEPT ![r] = "active"]
    /\ met' = [q \in Request |-> IF Looking(q) /\ kind[q] \in Locating THEN met[q] \cup {r}
                                ELSE met[q]]
    /\ UNCHANGED <<driverStatus, locations, sessions, finalFare, last, pc, locals, now, faults,
                   beside, credits, closers, admitted, stood>>

\* CancelRideTransaction cancels it.
Cancel(r) ==
    /\ rides[r] = "active"
    /\ rides' = [rides EXCEPT ![r] = "over"]
    /\ UNCHANGED <<driverStatus, locations, sessions, finalFare, last, pc, locals, now, faults,
                   history>>

\* UpdateRideStatus completes it, also one cancelled meanwhile or nobody's, and
\* enters the final fare in place of one there may be.
Complete(r) ==
    /\ rides' = [rides EXCEPT ![r] = IF @ = "none" THEN "none" ELSE "over"]
    /\ \E f \in Fare :
          /\ finalFare' = [finalFare EXCEPT ![r] = f]
          /\ stood' = [q \in Request |-> IF Looking(q) /\ ride[q] = r THEN stood[q] \cup {f}
                                         ELSE stood[q]]
    /\ UNCHANGED <<driverStatus, locations, sessions, last, pc, locals, now, faults,
                   beside, credits, closers, admitted, met>>

Tick ==
    /\ now < MaxTime
    /\ now' = now + 1
    /\ UNCHANGED <<database, last, pc, locals, faults, history>>

\* The service stops: its requests end, its transactions are rolled back and the
\* time of the last location is forgotten.
Crash ==
    /\ Fault
    /\ pc' = [q \in Request |-> IF q \in Busy THEN "done" ELSE pc[q]]
    /\ seen' = [q \in Request |-> {}] /\ held' = [q \in Request |-> {}]
    /\ last' = Never
    /\ admitted' = [q \in Request |-> Never]
    /\ UNCHANGED <<database, kind, ride, chosen, earnings, summary, now, beside, credits,
                   closers, met, stood>>

-----------------------------------------------------------------------------
RequestStep(q) ==
    \/ SetDriverStatus(q)
    \/ AllowLocationUpdate(q) \/ GetActiveRideTarget(q) \/ FindCurrent(q) \/ ClearRow(q)
    \/ CommitLocation(q) \/ RollBack(q) \/ MarkLocationUpdated(q)
    \/ StartDriverSession(q) \/ GetRideFare(q)
    \/ PickSession(q) \/ EndDriverSession(q) \/ RecordCompletedRide(q)

Next ==
    \/ \E q \in Request : \/ \E k \in Kind, r \in Ride \cup {NoRide} : Begin(q, k, r)
                          \/ RequestStep(q)
    \/ \E r \in Ride : Activate(r) \/ Cancel(r) \/ Complete(r)
    \/ Tick \/ Crash

Spec == Init /\ [][Next]_vars

-----------------------------------------------------------------------------
TypeOK ==
    /\ driverStatus \in {"OFFLINE", "AVAILABLE"}
    /\ rows \subseteq Request /\ current \subseteq rows
    /\ sessions \in Seq([open : BOOLEAN, rides : Nat, earnings : Nat])
    /\ rides \in [Ride -> {"none", "active", "over"}]
    /\ finalFare \in [Ride -> Fare \cup {NoFare}]
    /\ last \in 0..MaxTime \cup {Never}
    /\ pc \in [Request -> Place]
    /\ kind \in [Request -> Kind \cup {"location"}]
    /\ ride \in [Request -> Ride \cup {NoRide}]
    /\ seen \in [Request -> SUBSET Request] /\ held \in [Request -> SUBSET Request]
    /\ chosen \in [Request -> 0..Len(sessions)]
    /\ earnings \in [Request -> Nat] /\ summary \in [Request -> Nat]
    /\ now \in 0..MaxTime /\ faults \in 0..MaxFaults
    /\ beside \in [Request -> SUBSET Request]
    /\ credits \subseteq Request /\ closers \subseteq Request
    /\ admitted \in [Request -> 0..MaxTime \cup {Never}]
    /\ met \in [Request -> SUBSET Ride]
    /\ stood \in [Request -> SUBSET (Fare \cup {NoFare})]

\* A driver has one current row of coordinates, as FindNearbyDrivers and the admin
\* queries join it, but for rows of requests that ran side by side
\* (UpdateDriverLocation under READ COMMITTED).
OneCurrentUnlessBeside ==
    \A p, q \in current : p # q => q \in beside[p]

\* A driver who has been located stays so, whichever updates fail, overlap or are
\* cut off by a crash (UpdateDriverLocation is one transaction).
LocatedForGood == rows # {} => current # {}

\* The rides and earnings of a session are those of the completions entered in
\* it, each once, to half a cent (RecordCompletedRide beside itself and others).
CreditsKept ==
    \A s \in DOMAIN sessions :
        LET mine == {q \in credits : chosen[q] = s}
            told == MapThenSumSet(LAMBDA q : earnings[q], mine)
            off  == 10 * sessions[s].earnings - told
        IN  /\ sessions[s].rides = Cardinality(mine)
            /\ -5 * sessions[s].rides <= off /\ off <= 5 * sessions[s].rides

\* What a session has more than its driver was told when he went offline was
\* completed beside that request (EndDriverSession and RecordCompletedRide).
SummaryMissesOnlyBeside ==
    \A q \in closers :
        sessions[chosen[q]].rides - summary[q]
            <= Cardinality({p \in credits \cap beside[q] : chosen[p] = chosen[q]})

\* A session is closed twice only by requests side by side (EndDriverSession).
ClosedOnceUnlessBeside ==
    \A p, q \in closers : p # q /\ chosen[p] = chosen[q] => q \in beside[p]

\* A ride whose final fare stood when its completion was called is credited by
\* the final fare it had, then or when it was looked up: by none of its other
\* amounts, however often it is completed meanwhile (GetRideFare).
PaidByFinalFare ==
    \A q \in credits :
        ride[q] \in Ride /\ NoFare \notin stood[q] => \E f \in stood[q] : earnings[q] = 8 * f

\* No location is filed under, and pushed to the passenger of, a ride that was
\* at no time active between the call of the update and its look at the rides,
\* whichever rides end or come back meanwhile (GetActiveRideTarget).
NotFiledUnderPastRide == \A q \in rows : ride[q] \in Ride => ride[q] \in met[q]

\* README.md:402: at most one update every RateLimit, of those the limit is for
\* (allowLocationUpdate, from several goroutines).
RateKept ==
    \A p, q \in Request :
        p # q /\ admitted[p] # Never /\ admitted[q] # Never
            => admitted[p] - admitted[q] >= RateLimit \/ admitted[q] - admitted[p] >= RateLimit

\* An update that has changed a row and not ended has no other to wait for, unless
\* the driver has another current row: updates wait for each other in a circle
\* only where OneCurrentUnlessBeside has its exception (UpdateDriverLocation).
HolderWaitsOnlyBesideCurrent ==
    \A p \in Request : held[p] # {} /\ seen[p] # {} => current \ held[p] # {}
=============================================================================
