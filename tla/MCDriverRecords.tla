-------------------------- MODULE MCDriverRecords --------------------------
(* Constants and symmetry for the model checking of DriverRecords, and the *)
(* fares against the tests of the code and against their definitions.      *)
EXTENDS DriverRecords, Fares, TLC

Symmetry == Permutations(Request)
MCEstimate == [r \in Ride |-> 7]

\* fare_test.go: 5 km and 9 minutes; full refund and 80 %.
ASSUME FareTests ==
    /\ CalculateFare("ECONOMY", 500000, 9) = 145000
    /\ CalculateRefund("REQUESTED", 100000) = 100000
    /\ CalculateRefund("MATCHED", 100000) = 80000

\* The estimated duration is the least number of minutes, one at least, in which
\* a car comes as far at 30 km/h.
ASSUME DurationReference ==
    \A d \in {50000 * k + e : k \in 0 .. 5, e \in {0, 1, 24999, 49999}} :
        EstimateDurationMinutes(d) = Min({m \in 1 .. 10 : 50000 * m >= d})

\* An amount in cents is the nearest to the exact one.
ASSUME RoundingReference ==
    \A n \in 0 .. 60, m \in {1, 5, 10} : 2 * (n - m * InCents(n, m)) \in -m .. m - 1
=============================================================================
