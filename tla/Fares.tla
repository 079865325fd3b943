------------------------------- MODULE Fares -------------------------------
(***************************************************************************)
(* What a ride costs (src/internal/ride/fare.go, refund.go): the estimate  *)
(* at its creation, the final fare at its completion, and the refund of a  *)
(* cancellation.                                                           *)
(*                                                                         *)
(* Distances are whole centimetres, times whole seconds, amounts whole     *)
(* cents: the code computes in float64 and rounds the result to cents.     *)
(* The distance is a parameter.  It is computed from the coordinates of    *)
(* the ride, which do not change, so that estimate and final fare have it  *)
(* in common.                                                              *)
(***************************************************************************)
EXTENDS Integers

RideType == {"ECONOMY", "PREMIUM", "XL"}

\* fareRatesByRideType, in whole units of the currency: for the ride, for a
\* kilometre and for a minute.
Base(type) == CASE type = "ECONOMY" -> 500
                [] type = "PREMIUM" -> 800
                [] type = "XL"      -> 1000
                [] OTHER -> 0

PerKilometre(type) == CASE type = "ECONOMY" -> 100
                        [] type = "PREMIUM" -> 120
                        [] type = "XL"      -> 150
                        [] OTHER -> 0

PerMinute(type) == CASE type = "ECONOMY" -> 50
                     [] type = "PREMIUM" -> 60
                     [] type = "XL"      -> 75
                     [] OTHER -> 0

\* round: n/m of a cent to whole cents, halves upwards, for amounts that are
\* not negative.
InCents(n, m) == (2 * n + m) \div (2 * m)

\* averageRideSpeedKMH is 500 metres a minute; minimumRideDuration is 1.
PerMinuteTravelled == 50000

EstimateDurationMinutes(distance) ==
    IF distance <= 0 THEN 1
    ELSE (distance + PerMinuteTravelled - 1) \div PerMinuteTravelled

\* The errors of CalculateFare.
Refused == "refused"

\* CalculateFare: base + km * rate + minutes * rate, in cents.
CalculateFare(type, distance, minutes) ==
    IF type \notin RideType \/ distance < 0 \/ minutes < 0 THEN Refused
    ELSE InCents(100000 * Base(type) + distance * PerKilometre(type)
                     + 100000 * minutes * PerMinute(type), 1000)

CalculateFareEstimate(type, distance) ==
    CalculateFare(type, distance, EstimateDurationMinutes(distance))

\* int(elapsed.Minutes()): the fraction is cut off, towards zero.
WholeMinutes(elapsed) == IF elapsed >= 0 THEN elapsed \div 60 ELSE - ((- elapsed) \div 60)

\* calculateFinalFare: by the estimated minutes for a ride that was never started;
\* else by the time from started_at to completed_at if the ride was completed
\* before, else to now.  A ride completed before may have been started again since:
\* the time can be negative.
CalculateFinalFare(type, distance, estimated, started, elapsed) ==
    CalculateFare(type, distance,
                  CASE ~ started -> estimated
                    [] started /\ WholeMinutes(elapsed) < 1 -> 1
                    [] OTHER -> WholeMinutes(elapsed))

\* CalculateRefund, of an estimated fare in cents.
CalculateRefund(previous, fare) ==
    CASE previous = "REQUESTED" -> fare
      [] previous = "MATCHED"   -> InCents(4 * fare, 5)
      [] OTHER -> 0
=============================================================================
