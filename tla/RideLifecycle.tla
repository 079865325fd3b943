--------------------------- MODULE RideLifecycle ---------------------------
(***************************************************************************)
(* What the ride service promises of a ride, whatever its goroutines do in *)
(* whatever order: the status of a ride, its driver and the refund entered *)
(* for it change only by the operations below, each in one step.           *)
(*                                                                         *)
(* The promise is the one the code keeps, not the diagram of README.md: a  *)
(* driver's report is applied to a cancelled ride too, and to one that has *)
(* no driver.  RideService is shown to implement this module.              *)
(***************************************************************************)
EXTENDS Naturals

CONSTANTS Ride, Driver, NoDriver

VARIABLES
    status,     \* the status of each ride, NONE before it is requested
    driver,     \* its driver
    refund      \* percentage of the fare refunded, 0 if nothing was

lifecycle == <<status, driver, refund>>

\* CalculateRefund: the refund a ride in this status entitles to.
Entitled(s) == CASE s = "REQUESTED" -> 100
                 [] s = "MATCHED"   -> 80
                 [] OTHER           -> 0

Init ==
    /\ status = [r \in Ride |-> "NONE"]
    /\ driver = [r \in Ride |-> NoDriver]
    /\ refund = [r \in Ride |-> 0]

\* A passenger requests a ride.
Request(r) ==
    /\ status[r] = "NONE"
    /\ status' = [status EXCEPT ![r] = "REQUESTED"]
    /\ UNCHANGED <<driver, refund>>

\* A ride that waits for a driver gets its only one.
Match(r, d) ==
    /\ status[r] = "REQUESTED"
    /\ status' = [status EXCEPT ![r] = "MATCHED"]
    /\ driver' = [driver EXCEPT ![r] = d]
    /\ UNCHANGED refund

\* Before the driver sets out a ride can be cancelled, with no less than the
\* refund its status entitles to.
Cancel(r, percent) ==
    /\ status[r] \in {"REQUESTED", "MATCHED"}
    /\ percent >= Entitled(status[r])
    /\ status' = [status EXCEPT ![r] = "CANCELLED"]
    /\ refund' = [refund EXCEPT ![r] = percent]
    /\ UNCHANGED driver

\* A report moves a ride along, in any order, whoever drives it: BUSY starts even
\* a ride that no driver was matched to.
Advance(r, s) ==
    /\ status[r] \notin {"NONE", s}
    /\ status[r] = "REQUESTED" => s = "IN_PROGRESS"
    /\ status' = [status EXCEPT ![r] = s]
    /\ UNCHANGED <<driver, refund>>

\* A ride is completed from IN_PROGRESS and from nowhere else.
Complete(r) ==
    /\ status[r] = "IN_PROGRESS"
    /\ status' = [status EXCEPT ![r] = "COMPLETED"]
    /\ UNCHANGED <<driver, refund>>

Next ==
    \E r \in Ride :
        \/ Request(r)
        \/ \E d \in Driver : Match(r, d)
        \/ \E percent \in {80, 100} : Cancel(r, percent)
        \/ \E s \in {"EN_ROUTE", "ARRIVED", "IN_PROGRESS"} : Advance(r, s)
        \/ Complete(r)

Spec == Init /\ [][Next]_lifecycle
=============================================================================
