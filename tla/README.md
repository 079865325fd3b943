# Verification of ride-hail

TLA+ modules, TLC runs and TLAPS proofs for the ride-hailing services in `src/`: the ride
service, the driver and location service (matching, driver status, locations, sessions), the
two joined over their queues, the fares, the RabbitMQ layer and the WebSocket hub. Paths below are relative to `src/`.

- [The system](#the-system): components, their state, how they interact, what is hard
- [The modules](#the-modules): what stands for what
- [The runs](#the-runs): what TLC checks, the bounds and the fairness
- [The proofs](#the-proofs)
- [What the runs found](#what-the-runs-found)
- [What is not modelled](#what-is-not-modelled)
- [Plan](#plan)

Model-check with `tlc -workers 2 -config <cfg> <module>`, prove with `tlapm <module>.tla`.

## The system

Three processes share a PostgreSQL database and a RabbitMQ broker.

| component | state | operations | must |
|---|---|---|---|
| Ride service `internal/ride` | rows of `rides`, rows of `ride_events`, `matchTimers` and `correlationID` in memory | CreateRide, CancelRide (HTTP), the matching timer, HandleDriverMatched, HandleDriverStatus, HandleLocationUpdate (queues) | match and cancel a ride at most once; never refund too little; keep the audit trail a chain; let nobody set out for a ride without a driver; complete only a ride in progress; leave no ride waiting for ever |
| Matching `internal/driverlocation/matching.go` | `pending`: offers and the channels of their answers | MatchRide (a goroutine per ride), HandleDriverResponse | give a ride only to a driver who accepted its offer in time; leave no offer in the map; always end |
| Driver and location service `internal/driverlocation` | `drivers.status`, `driver_sessions`, `coordinates`, `location_history`, `lastLocation` | online, offline, start, complete, location (HTTP), ARRIVED and location (socket), handleRideRequest, handleRideStatus (queues) | offer rides to available drivers only, and to none who was named as a ride's driver before his app frees him; keep a located driver located, in one place; credit a completion once, to the open session, by the right fare; keep the rate limit |
| RabbitMQ layer `internal/shared/messaging` | `conn`, `isClosed`, `reconnectCh` | Connect, handleDisconnect, Close, RunConsumer, Publish | lose no message the broker has taken; one connection, looked after by one goroutine; come back |
| WebSocket hub `internal/shared/ws` | the table of clients; socket, send channel and two goroutines of each | HandleConnection, readPump, writePump, disconnect, SendJSON | never send on a closed channel; keep a connected client reachable; leak no goroutine |
| Authentication `internal/shared/auth` | none | token generation and parsing | - |
| Admin service `internal/admin` | none | read-only queries | - |
| Start-up, configuration, logging, database pool | none | - | - |

How they interact. The ride service inserts a ride and publishes `ride.request.*`. The
driver service consumes it from `driver_matching`, acknowledges it and searches in a
goroutine of its own: it offers the ride to one driver after another over the hub and waits
up to 30 s for each. An acceptance arrives on that driver's socket and goes through
`HandleDriverResponse` into the channel of the offer. The driver is set EN_ROUTE and
`driver.response.*` is published. The ride service consumes it from `driver_responses`,
enters the match and publishes `ride.status.MATCHED`; the driver service consumes that from
`ride_status`, sends the driver the details, sets him EN_ROUTE (again) and publishes
`driver.status.*`, which the ride service consumes from `driver_status` and turns into the
ride's next status. Later reports (ARRIVED, BUSY, AVAILABLE) come from the handlers the
driver's app calls; only ARRIVED is checked against the ride. A timer of 120 s per ride cancels what nobody has taken.

What is hard.

- In the ride service three kinds of goroutine (HTTP handlers, timers, two consumers)
  change one ride. Each reads the ride, decides, and changes it in a transaction of its own,
  so that the decision may be stale; publishing and pushing follow the commit unordered.
- Timers live in memory, everything else in the database and the queues: a crash, a failed
  call or a lost acknowledgement separates them, and every message may come twice.
- An offer expires while its answer is on the way; the same driver may be a candidate of
  two searches; the driver's status is written by five handlers without a look at the old one.
- A connection to the broker is lost while consumers are in their handlers, is lost again
  while the topology is declared, or is closed by the shutdown in between.
- The hub sends to a channel that the reader's goroutine may just be closing; a client may
  be connected twice.
- The requests of one driver's app (two HTTP handlers, or HTTP and socket) run side by side
  under READ COMMITTED: an UPDATE waits for a row, but neither looks again for rows inserted
  meanwhile nor picks the session of its subselect again.
- A ride's reports come from two senders, and the driver's status and the ride's are changed
  by different services. The apps may start and complete any ride, in any order: neither service
  asks whose it is, and the ride service asks for a status only before it completes one.
- An UPDATE locks its rows one after the other, and a publish that returns no error is only on
  its way.

The full list, at its lines, is under `hazards` in `PROJECT.json`, each with the properties
that would catch it or the reason why none does.

## The modules

| module | what it is |
|---|---|
| `RideLifecycle` | abstract: what the ride service promises of a ride, one atomic step per operation |
| `RideService` | the ride service, one step per transaction, read, publish or acknowledgement of a goroutine |
| `Dispatch` | matching and driver status in the driver and location service |
| `DriverRecords` | what the driver service keeps of one driver: locations, sessions, earnings, the rate limit, one step per SQL statement |
| `Fares` | estimates, final fares and refunds as operators on whole centimetres, seconds and cents |
| `RideHail` | RideService and Dispatch composed: each in the place of the other's environment |
| `Messaging` | the RabbitMQ layer of one service |
| `Hub` | the WebSocket hub of one service |
| `MCRideService`, `MCDispatch`, `MCDriverRecords`, `MCRideHail`, `MCMessaging`, `MCHub` | what TLC needs beside the constants: symmetry; in `MCDriverRecords` also the fares against fare_test.go and their definitions |
| `RideServiceProofs`, `RideTrailProofs`, `DispatchProofs`, `RideHailProofs`, `DriverRecordsProofs`, `FaresProofs`, `MessagingProofs`, `HubProofs` | theorems |

Definitions marked *Mutant* are the code with a plausible mistake; no specification uses
them. `PROJECT.json` names, for every property, the mutant that it catches.

### RideService

`status`, `driver` and `trail` are the columns `rides.status`, `rides.driver_id` and the rows
of `ride_events`; a row keeps its type, the statuses before and after and the refund, in
percent. `timer` is the entry in `matchTimers`. Each goroutine has a place `pc` and its local
variables: the ride (`target`), the status it read (`view`), the refund it computed from it
(`quote`). A goroutine is a passenger's cancellation (an element of `Call`), the callback of a
ride's timer (named by the ride), or one of the consumers `responses` and `statuses`, each of
which holds the head of its queue while it works, as with prefetch 1.

A transaction starts with `SELECT ... FOR UPDATE` on the ride and is one step (`CommitCancel`,
`CommitMatch`, `CommitStatus`); its guards are those the transaction checks, no more. What
comes before (`ReadForRefund`, `ReadForStatus`, `CheckUnmatched`) and after (`LoadUpdated`,
`Announce`, `AckResponse`, `AckReport`) are steps of their own. Faults are a failed database
call, a failed publish, a lost acknowledgement, and a crash, which forgets `pc` and the timers
and keeps the database and the queues. `AcceptOffer`, `HandleMatched` and `DriverReports` send
what the driver service sends, under the guards of its handlers and no others: `DriverReports`
asks for a driver before ARRIVED and for nothing before BUSY and AVAILABLE, which an app may
report of any ride, also of one there is not (yet).

`RideLifecycle` is what this amounts to: Request, Match, Cancel, Advance, Complete. It promises
what the code keeps, which is less than the diagram at README.md:46: a report
moves a ride from any status, a cancelled one too, and BUSY one that was never matched. `ImplementsLifecycle` instantiates it with
the refund read off the audit trail.

### Dispatch

`search`, `request` and `candidates` are a goroutine of MatchRide: where it is, its ride, and
the drivers it has yet to try. `pending` is the map of offers, keyed by search and driver: an
offer ID is fresh, and one search offers a ride to a driver once. `replies` holds what is in
the channels, one each: a second answer is dropped, as is one to an offer that is no longer
pending, whichever the app sends and however often. `driverStatus` is `drivers.status`. `FindNearbyDrivers` returns any list of different available drivers, since
distance and rating do not matter to the properties. Its result is stale from the next step on.
`OfferTimeout` is always possible for a search that waits, also when an answer lies in the
channel, as `select` may take either.

HandleWSStatusUpdate reads the ride's status and sets the driver's in two statements:
`CheckArrived` and `SetArrived`, between which the pair of ride and driver is in `arriving`; one
driver's reads of two rides do not replace each other. The other handlers check nothing, and so
are possible at any time: an app goes online or offline, starts and completes whenever it likes.
The ride service is the four operations Request, Match, Cancel and Advance of `RideLifecycle`,
with the queues between. `agreed`, `freed` and `unmarked` are history: who accepted which offer
in time, whom his own app has freed since he was marked for a ride, and whose mark failed.

### DriverRecords

The requests of one driver's app, any number of them side by side; every statement names its
driver, so that two drivers never touch each other's rows. A request calls a handler (`kind`)
and goes through its statements (`pc`): SetDriverStatus, GetActiveRideTarget,
UpdateDriverLocation, StartDriverSession, EndDriverSession, GetRideFare, RecordCompletedRide.
`rows` are the coordinates committed with their copy in `location_history`, named by the request
that wrote them, and `current` those with `is_current`.

UpdateDriverLocation is a transaction of several steps. `FindCurrent` is the snapshot of its
UPDATE (`seen`, the rows it has yet to come to); `ClearRow` comes to one of them, in any order,
waits until no other transaction holds it, and changes it if it is still current (`held`);
`CommitLocation` inserts the new row and commits, when none is left. So an update may hold one
row and wait for another. A row inserted between the snapshot and the wait is not seen.
`RollBack` is the deferred Rollback after a failed statement, also when the database gives up one
of several transactions that wait for each other. In EndDriverSession and RecordCompletedRide `PickSession` is the subselect and
the next step the UPDATE, which changes the row as it then is. Money is in cents, earnings
(80 %, unrounded) in tenths of a cent, rounded by the column.

`Activate`, `Cancel` and `Complete` are the ride service: a ride is matched with the driver or
brought back after its end (UpdateRideStatus asks for no status), cancelled, or completed, again
and again, each time with a final fare that replaces the last one; also a ride that is not his.
`Tick` is the clock of the rate limit. `last` is the entry
of `lastLocation`, which `AllowLocationUpdate` tests and sets under one lock and going online sets
without a test. A failed call may have taken effect. `beside`, `credits`, `closers` and `admitted`
are history: the properties say what may go wrong only between requests that ran side
by side, which the code does nothing against. So are `met`, the rides that were active at some
time between the call of an update and its look-up, and `stood`, the final fares its ride had
between the call of a completion and GetRideFare: what a request may find although rides end and
come back meanwhile.

### RideHail

RideService takes the driver service for granted (`AcceptOffer`, `HandleMatched`,
`DriverReports`), Dispatch the ride service (`Request`, `Match`, `Cancel`, `Advance`). RideHail
instantiates both over the same `rides` rows and couples their steps: `Accepted` publishes the
response of a marked search, `Matched` is the transaction that Dispatch calls Match, `Announced` is
handleRideStatus, which sets the driver's status and publishes the report, and comes again if
either fails or the acknowledgement is lost. `Reported` is the handlers that
set the driver's status and report it, for whatever ride the app names, in whatever order; that
the report cannot be published is only logged
(`PublishStatus`), and is a fault of a kind of its own, `lost`. Whatever the ride service does
besides is one step of `Internal`. `ImplementsDispatch` is then the claim that the ride service,
cut into goroutines, is what Dispatch assumes of it, and `ImplementsRideService` that the driver
service is what RideService assumes: a response only of a ride whose request was published,
ARRIVED only of a ride with a driver.

Nothing is assumed of the apps. The passenger is left out: his
cancellation is the timer's without the first read. All faults share one bound; `matcherFaults`
counts those of the driver service. `latest` and `disordered` are history: how far on the last
published report of a ride was, and whether the published reports of a ride were out of order
(one after a report further on, AVAILABLE without a BUSY before it, or any before the ride was
there). `CompletionIsEntered` asks that they were not, since nothing in the code makes up for
it. What is on the socket to the broker counts as published here; that it may be lost there is in
Messaging, and is for the ride like a report that could not be published.

### Fares

What the code computes in float64 and rounds to two digits is here exact and rounded once; the
rates are whole numbers, so that both differ at most where the exact amount is half a cent, or the
exact duration whole minutes. The distance is a parameter: the great-circle formula is not
modelled, and it is the same for the estimate and the final fare of a ride.

### Messaging

A keeper is a goroutine that answers for the connection: `main` in Connect, and one
handleDisconnect per connection. `conn`, `isClosed` and `epoch` (which `reconnectCh` is the
current one) are the fields of Connection. A consumer goes through RunConsumer, NewChannel,
Consume and WaitReconnect; `ticket` is the channel it waits on. The broker requeues what was not
acknowledged when a channel closes. A publish is two steps, since the channels are not in confirm
mode: `Publish` writes the message to the socket (`flight`) and returns without error, `Arrive` is
the broker taking it (`reached`); a connection that closes in between takes along what is in
flight. That the broker knows no more of a message than its queue, and routes it there, is
RabbitMQ's part.

### Hub

A session is one connection with its reader and writer. SendJSON is two steps, `Lookup` under
the lock and `Send` after it. Sending on a closed channel panics: in a goroutine of net/http it
is recovered (`SendPanics`), elsewhere the process dies (`Crash`). Of the messages in a channel
only the number is kept. `overlap` records the sessions that ran beside another one of their client.

## The runs

| run | instance | states | shows |
|---|---|---|---|
| `ride_races` | 1 ride, 1 driver, 1 cancelling call, 2 acceptances, 2 reports of any kind at any time, no faults, fair | 0.3 M | every interleaving of passenger, timer, match and reports; no ride stays REQUESTED or MATCHED |
| `ride_faults` | 1 ride, 2 drivers, 2 acceptances, 2 reports, 1 fault anywhere | 1.3 M | redelivery and crashes change nothing twice; nobody sets out without a driver; the refinement |
| `ride_revived`, `ride_refund` | small | | see [findings](#what-the-runs-found) |
| `dispatch_searches` | 1 ride, 2 drivers, 2 searches, 1 fault, fair | 0.4 M | matching, with redelivered requests and crashes, and apps that do as they like |
| `driver_locations` | 3 requests to go online or send a location, 1 ride that ends and comes back, 2 instants, 1 fault | 0.9 M | current rows, row locks, rate limit, the ride a location is filed under |
| `driver_sessions` | 3 requests to go online, go offline or complete, 1 ride that ends and comes back, 2 final fares, 1 fault | 3.0 M | sessions, credits, summaries, earnings |
| `ride_hail` | 1 ride, 1 driver, 1 search, 2 calls that report, 1 fault of the two services together | 1.1 M | the composition |
| `messaging_reconnect` | 1 consumer, 2 messages, 3 faults, fair | 0.3 M | the connection, the publishes and the deliveries |
| `messaging_missed` | 1 consumer, 1 message, 1 fault | | see findings |
| `hub_sessions` | 2 clients, 2 sessions, 2 senders, 3 sends, channels of 1, fair | 0.1 M | the table and the pumps |
| `hub_panic` | small | | see findings |

Why the bounds are enough. One ride is where the races of the ride service are: its goroutines
meet on the row of a ride, and two rides share only the consumers. Two acceptances are needed
for a second match, two reports (the EN_ROUTE of the announcement and one of the app) for one that
is applied twice or out of order, one call beside
the timer for two cancellations at once. One fault separates any two steps of one handler; a
second one repeats the first after a redelivery. Two drivers and two searches are needed for a
late answer to meet the next offer, and for one driver to be a candidate twice. What that instance
does not have is a driver's next ride, or two rides at once: beside the run, TLC checked the
invariants of Dispatch on two rides, one driver and two searches with one fault (1.0 M states), and
`EngagedIsTakenCorrect` has them for any number. Three requests
of a driver are two that race and one that suffers from it, or online, complete and offline in
any overlap; two final fares, so that a completion can overwrite one by the other; the one ride
can end and come back any number of times. In `RideHail` two calls are a start and a completion, in
either order or the same twice, beside the EN_ROUTE of the announcement, and one
fault is enough to have any message twice, or not at all; a second ride, driver or search would
only share the consumers with the first, which is what the theorems about `RideHail` cover. In `Messaging`
three faults are a lost connection, a failed declaration and a failed handler in one run. In
`Hub` two sessions are needed to replace each other, and a channel of one message is full at
once. The theorems below do not depend on the bounds.

No run checks for deadlock: the systems come to rest when the bounded inputs are used up, and
in reality when nobody calls.

Fairness. Weak fairness of each goroutine that has something to do: the Go scheduler runs it,
database and broker calls return, the timers of the runtime fire, RabbitMQ delivers what is
ready. Nothing is assumed of people: no passenger calls, no driver accepts, answers or reports.
Faults need not happen; those that do end at their bound, so that liveness is claimed for
systems in which they end. In `Hub` reads and writes
have deadlines (hub.go), so a broken peer ends both pumps; a ping need not fail.

## The proofs

TLAPS proves, for any sets of rides, drivers, queues, clients and goroutines and any bounds:

| theorem | module | says |
|---|---|---|
| `TypeOKCorrect` | all but RideTrailProofs, RideHailProofs, FaresProofs | the type invariants |
| `SettingOutHasDriverCorrect` | RideServiceProofs | no ride is MATCHED, EN_ROUTE or ARRIVED without a driver |
| `TrailExplainsStatusCorrect` | RideTrailProofs | the audit trail is a chain that ends in the ride's status |
| `SettledOnceCorrect`, `RefundNeverShortCorrect` | RideTrailProofs | matched once, cancelled once, never refunded too little |
| `CompletedOnlyFromProgressCorrect` | RideTrailProofs | a ride is completed only from IN_PROGRESS |
| `ShownIsTrueCorrect` | RideTrailProofs | a passenger is shown only what is in the trail |
| `RequestedIsWatchedCorrect` | RideTrailProofs | a ride that waits has its timer |
| `LifecycleImplemented` | RideTrailProofs | the ride service implements `RideLifecycle` |
| `PendingIsAwaitedCorrect` | DispatchProofs | the map of offers holds what is waited for and nothing else |
| `DriverHasAgreedCorrect` | DispatchProofs | a ride goes only to a driver who accepted its offer in time |
| `EngagedIsTakenCorrect` | DispatchProofs | whoever was named as a ride's driver is not available until his own app frees him, for each of his rides |
| `OneCurrentUnlessBesideCorrect` | DriverRecordsProofs | two current rows of a driver are of updates side by side |
| `LocatedForGoodCorrect` | DriverRecordsProofs | a located driver stays located |
| `HolderWaitsOnlyBesideCurrentCorrect` | DriverRecordsProofs | an update holds one row and waits for another only while the driver has a second current row |
| `RateKeptCorrect` | DriverRecordsProofs | the rate limit, from any number of goroutines |
| `PaidByFinalFareCorrect` | DriverRecordsProofs | a ride that has a final fare is paid by one it had between the call and the look-up |
| `NotFiledUnderPastRideCorrect` | DriverRecordsProofs | no location for a ride that was not active at some time between the call and the look-up |
| `ClosedOnceUnlessBesideCorrect`, `SummaryMissesOnlyBesideCorrect` | DriverRecordsProofs | sessions and their summaries |
| `CreditsKeptCorrect` | DriverRecordsProofs | a session holds the rides and earnings entered in it, to half a cent each |
| `RideServiceImplemented`, `DispatchImplemented` | RideHailProofs | the two services together are a behaviour of RideService and one of Dispatch |
| `RideServiceInherited`, `DispatchInherited` | RideHailProofs | so that what is proved of either holds of both together |
| `CompletionIsEnteredCorrect` | RideHailProofs | a completion reported in order is entered, or waits to be |
| `LinkCorrect` | RideHailProofs | the queues of the one module and the sets of the other agree |
| `OnlyCurrentOpenCorrect`, `OneKeeperCorrect`, `NothingLostCorrect` | MessagingProofs | no leaked connection, one keeper, at least once from the broker on |
| `OnTimeCostsNoMore`, `NeverFree`, `RestartedCostsOneMinute` | FaresProofs | the final fare against the estimate, the distance, the clocks |
| `DurationIsLeast`, `EstimateFits`, `RefundWithinFare` | FaresProofs | the estimated duration, the column of the fare, the refund in cents |
| `RegisteredIsOpenCorrect`, `ServedIsRegisteredCorrect` | HubProofs | the table leads to open channels, and to every client connected once |

The assumptions are the named ASSUMEs of the modules: bounds are natural numbers, and the
values for "none" are not rides, drivers and so on.

The arguments. None of the invariants is inductive by itself.

- *SettingOutHasDriver* needs `RoleInv` (which goroutine can be at which step) and `DriverInv`:
  an announcement of a match, and a report of EN_ROUTE or ARRIVED, exists only after the match, so
  that the driver is there when it is applied, however late; a ride without one can only have been
  started by BUSY, completed or cancelled since.
- The trail. `ReadInv` says how stale a read can be: a canceller holds the refund of the status
  it read, and the ride has not come closer to its beginning since; the consumer of reports is
  the only writer of a ride under way, so that only a cancellation can have come between its read
  and its write. From it `Entries` follows: a step leaves the rides alone or adds one legal row to
  the trail of one of them. `TrailInv` (the properties of the trail, and what the trail of a ride
  still REQUESTED or MATCHED can hold) is kept by every such row. *ShownIsTrue* needs `LoadedInv`:
  what a goroutine is about to push is in the trail, which only grows.
- *LifecycleImplemented* matches each transaction with one action of RideLifecycle, every other
  step with a stutter. The abstract refund of a ride is read off its trail with CHOOSE: it is the
  one cancellation there is, by *SettledOnce* (`RefundOfFacts`, `RefundOfEntry`).
- *PendingIsAwaited*, with `ReplyInv`: an answer lies only in the channel of a pending offer,
  and was counted as an agreement then. `AcceptInv` carries this to the search that takes it,
  and `AgreedInv` over the queue to the row of the ride: *DriverHasAgreed*.
- *EngagedIsTaken* follows a driver from the mark (`Marked`) through the queue to the ride
  (`Engaged`). Every step keeps `Taken` for whoever is engaged: the first update precedes
  the publish (`TakenMarked`, `TakenPublished`), later updates of the two services take him again
  (`StatusTakes`), and the handlers that make him available are his own app's, which frees him from
  every ride he has agreed to (`TakenFreed`). So it holds of a driver with two rides as of one
  with one. Where it would break is the mark that failed, which is why the property asks that it
  did not.
- In `DriverRecords`, *OneCurrentUnlessBeside* needs `BesideInv` (who is under way together with
  whom) and `RowInv`: a current row that an update has not seen, or does not hold when it
  commits, is of a request beside it; and a row that somebody holds is still current, so that
  nobody else can clear it, which is also why the last current row never goes without a new
  one (*LocatedForGood*). An update that still has a row to come to has it from its snapshot, and
  either that one is still current, or it has been cleared by an update whose new row is current
  now: in both cases there is a current row beside what it holds (*HolderWaitsOnlyBesideCurrent*).
  `RowInv` is proved once, the three row theorems follow from it.
- *RateKept* needs `TimeInv`: the entry in `lastLocation` is no older than any admitted update of
  this process. *PaidByFinalFare* and *NotFiledUnderPastRide* need `RideInv`: as long as a
  request has yet to look, `met` and `stood` hold what there is to be found, and once it has, what
  it has found is in them. The session theorems need `SessionInv`:
  a closed session stays closed, and whoever still has it as his choice began before it was
  closed, hence beside the request that closed it.
- *OneKeeper* and *OnlyCurrentOpen* need `Placed` (what a keeper's place says of the
  connection) and `PaidFor` (each dial but the first is owed to a fault). *NothingLost* rests
  on OnlyCurrentOpen: what is held by an open channel is held by the current one.
- The fares: `Rounding` says that an amount in cents is the nearest one, `RoundingMonotone` that
  more is never rounded to less, `FareIsExact` what is rounded; the theorems are arithmetic from
  there.
- *RegisteredIsOpen* and *ServedIsRegistered* need each other and `OverlapInv`: two sessions
  of one client that both will remove it know of each other.

- *CreditsKept* compares a session with a sum over a set of requests, which the library defines
  by recursion, in an order of its own. `SumCounts` says what that sum is without recursion: the
  number of pairs of a request and a number up to its earnings. This number meets the recursive
  equation, so that the equation has a solution, and on a least set on which another solution
  differed it could not differ (WFMin in place of an induction theorem). `CreditInv` is the
  property with that number, and a completion adds one request, not yet among them, to one
  session (`CreditRecord`); every other step keeps rides and earnings of every session, or opens
  one that nobody has picked (`CreditFrame`).
- `RideHail`. A step of the whole is one of RideService because what the driver service sends is
  what RideService lets it send (`RideServiceStep`): a response is of a ride that was published, an
  ARRIVED of one that was found to be the driver's. So the invariants of RideService and, once its
  steps are shown to be Dispatch's, those of Dispatch hold of the whole: their theorems are
  instantiated, not proved again (`OwnInv`). That a step is one of Dispatch (`DispatchStep`) needs
  `LinkInv`: every response in the queue is one of Dispatch's `responses`, or of a ride that is no
  longer REQUESTED (`ResponseLink`); every announcement, published or about to be, is one of
  `matched` (`MatchLink`), and nobody but the consumer of responses announces one
  (`OtherThreads`). `LinkStep` keeps each of them from what the step does to rides, responses,
  announcements and reports (`RideMoves`, `ResponseMoves` and so on).
- *CompletionIsEntered* needs `FlowInv`: as long as the reports of a ride are published in order,
  those that wait are ordered, none of them less far on than the ride's status and none further
  than the last one published. Once BUSY is out the ride is started or a BUSY waits (`Started`);
  once AVAILABLE is out it is completed, or an AVAILABLE waits, behind a BUSY or with the ride
  IN_PROGRESS, so that it is neither dropped nor overtaken (`Completing`). A cancellation does not
  disturb this: the database cancels only a ride that is REQUESTED or MATCHED, and a report is
  applied to a cancelled one as to any other. A report taken from the queue (`FlowTaken`), one
  added to it (`FlowSent`) and any other step (`FlowKept`) keep this.

`ImplementsRideService` is no property of the run: TLC found it true of that instance, the theorem
has it for every instance.

Only model-checked: the liveness properties, since fairness and ENABLED are beyond the prover.
Every invariant of the passing runs and both refinements are theorems.

## What the runs found

| run | what happens |
|---|---|
| `ride_revived` | HandleDriverStatus applies a report to a ride cancelled meanwhile: CANCELLED becomes EN_ROUTE, although it was refunded |
| `ride_refund` | a match between cancelRide's read and its transaction: 100 % is refunded for a ride cancelled in MATCHED |
| `messaging_missed` | a consumer that was in its handler during the reconnect waits for the next one |
| `hub_panic` | SendJSON sends on a channel that disconnect has closed since the look-up |

Behaviour without a run of its own, which the models show as well:

- After a failed publish of its request (service.go:109), a failed read in the timer
  (service.go:309) or a crash, a ride stays REQUESTED for ever. `RequestedIsWatched` shows that
  nothing else leaves a ride unwatched.
- The timer reads REQUESTED, a driver is matched, and the timer cancels the matched ride for
  want of a driver (service.go:308-313): CancelRide accepts MATCHED.
- HandleStart and HandleComplete (handler.go:319-398) ask for no ride, driver or status, and
  HandleDriverStatus (service.go:211-245) for no driver: BUSY turns a ride that is REQUESTED, with no
  driver or somebody else's, into IN_PROGRESS with driver_id NULL, an arrow the diagram at
  README.md:46-48 has not. Nobody can be matched to it any more, and AVAILABLE completes it.
  `SettingOutHasDriver` is what remains: EN_ROUTE and ARRIVED are reported only after a check.
- An app that completes one ride, or any, or goes online, is available again, whatever else its
  driver has accepted; `EngagedIsTaken` says that nothing but his own app does this.
- Reports are applied in the order they arrive from two senders, and publishes of the two may
  overtake each other: an ARRIVED sent before handleRideStatus has published the EN_ROUTE
  (service.go:75) is taken back by it. If a match is announced twice (the first time
  unacknowledged), the second time sets a driver EN_ROUTE again whom his app had freed, and the
  second EN_ROUTE can come after the ride has started: the AVAILABLE that follows is dropped, and
  the ride is never completed. `CompletionIsEntered` says that nothing but reports published out of
  order, or not at all, can have this effect.
- A report that could not be published (handler.go:40) is lost for good, and the driver's status
  set all the same; so is one that was published without error and was still on the socket when the
  connection dropped (publisher.go:38). After a lost BUSY the AVAILABLE is dropped, after a lost
  AVAILABLE the ride stays IN_PROGRESS for ever. So may be a ride.request, which leaves the ride to
  its timer, or a driver.response, which leaves the driver EN_ROUTE as well.
- A message that is not JSON is not acknowledged but requeued, since the handlers return the
  error (consumer.go:30-33, service.go:44-46), and comes back for ever; with prefetch 1 it keeps
  its consumer busy.
- disconnect deletes whatever is registered for the client (hub.go:141): when a client has
  reconnected before its old connection is noticed to be gone, the end of the old session makes the
  new one unreachable, though it is served. `ServedIsRegistered` says that this is the only way.
- Two updates of one driver side by side, of which the second waits for the first, leave two
  current rows: FindNearbyDrivers lists him twice until the next update. With two current rows, two
  more updates side by side can lock one each and wait for the other, until PostgreSQL gives one of
  them up; its request is answered with an error.
- UpdateRideStatus overwrites final_fare whenever a ride is completed again (repository.go:303-309):
  two completions may be credited by different fares. A ride that was over and is revived is found
  by GetActiveRideTarget again, and locations are filed under it and pushed to its passenger.
- A session closed between the subselect and the UPDATE of another request is closed a second
  time, or credited after its driver was told the sum. A driver who goes online twice has two
  open sessions, and only the last is ever closed. HandleComplete tells the driver his earnings
  whether or not they could be entered in a session, and the estimate if the final fare has not
  been entered yet, as is usual: the report that leads to it was published a moment before.
- A ride that was completed and is then started again (by a late BUSY) and completed again is
  charged for one minute: its completed_at is still the first one, so that the elapsed time is
  negative (refund.go:36-42, `RestartedCostsOneMinute`). started_at is overwritten whenever a ride
  becomes IN_PROGRESS again (repository.go:300), and the fare counts the time to the moment the
  report of the completion is handled, not to when the driver sent it.
- HandleLocationUpdate of the ride service (service.go:268) pushes a location to the passenger
  without a look at the ride's status.
- The entries of `correlationID` (service.go:333), and those of timers armed after their ride was
  matched, stay in their maps for the life of the process.
- The passenger can be shown MATCHED after CANCELLED: pushes are not ordered.
- If a match or its announcement is lost after the commit (the GetRide at repository.go:259
  fails, or a crash), the redelivered response is dropped as already matched; no driver is
  told and the ride stays MATCHED.
- A driver can be offered two rides at once and accept both. A driver whose match is dropped,
  whose ride is cancelled, or whose match could not be published stays EN_ROUTE until his app
  does something about it.
- A channel closed by the broker alone ends its consumer for good: the connection, which the
  consumer then waits for, is not replaced.

## What is not modelled

- The great-circle distance (`CalculateDistanceKM`), validation of a request (`validation.go`) and
  ride numbers (`random.go`): trigonometry, formats and random digits, without state.
- Location updates in the ride service: they change no ride, only push to the passenger.
- Tokens (`shared/auth`), routing, request parsing, the admin queries, logging,
  configuration, start-up. Malformed messages (see above) never get past the parsing.
- Durations: a timer may fire at any time after it was started, and an offer expire at any
  time. That five offers last longer than the matching timer is one case of this.
- More than one instance of a service: hub, timers and offers are in memory, and the
  deployment has one of each.
- A restart of the broker that loses its queues.

## Plan

Done, in this order: RideLifecycle and RideService; Messaging; Hub; Dispatch; DriverRecords with
its theorems; RideHail; the theorems about the trail and `RideService => RideLifecycle`; Fares;
the theorems about RideHail (both refinements, and the completion); the credits of a session.
