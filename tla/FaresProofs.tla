---------------------------- MODULE FaresProofs ----------------------------
(***************************************************************************)
(* What holds of every fare: nobody pays more than the estimate but for    *)
(* the time a ride has really taken, no clock makes a ride free, and no    *)
(* estimate is too large for its column.                                   *)
(***************************************************************************)
EXTENDS Fares, TLAPS

\* The rates are whole numbers.
LEMMA Rates ==
    ASSUME NEW type \in RideType
    PROVE  /\ Base(type) \in 500 .. 1000
           /\ PerKilometre(type) \in 100 .. 150
           /\ PerMinute(type) \in 50 .. 75
BY DEF RideType, Base, PerKilometre, PerMinute

\* Rounding to cents is monotone, and off by half a cent at most.
LEMMA Rounding ==
    ASSUME NEW n \in Nat, NEW m \in Nat \ {0}
    PROVE  /\ InCents(n, m) \in Nat
           /\ 2 * (m * InCents(n, m) - n) <= m
           /\ 2 * (n - m * InCents(n, m)) < m
<1> DEFINE q == (2 * n + m) \div (2 * m)
<1>1. 2 * n + m \in Nat /\ 2 * m \in Nat \ {0}
  OBVIOUS
<1>2. \A a \in Nat, b \in Nat \ {0} :
          a \div b \in Nat /\ b * (a \div b) <= a /\ a < b * (a \div b) + b
  OBVIOUS
<1>3. q \in Nat /\ (2 * m) * q <= 2 * n + m /\ 2 * n + m < (2 * m) * q + 2 * m
  BY <1>1, <1>2
<1>4. (2 * m) * q = 2 * (m * q)
  BY <1>3
<1> HIDE DEF q
<1>5. m * q \in Nat
  BY <1>3
<1>6. 2 * (m * q - n) <= m /\ 2 * (n - m * q) < m
  BY <1>3, <1>4, <1>5
<1>7. QED
  BY <1>3, <1>6 DEF InCents, q

\* The larger amount is not rounded to less.
LEMMA RoundingMonotone ==
    ASSUME NEW n \in Nat, NEW k \in Nat, n <= k, NEW m \in Nat \ {0}
    PROVE  InCents(n, m) <= InCents(k, m)
<1>1. \A a \in Nat, c \in Nat, b \in Nat \ {0} : a <= c => a \div b <= c \div b
  <2> SUFFICES ASSUME NEW a \in Nat, NEW c \in Nat, NEW b \in Nat \ {0}, a <= c,
                      a \div b >= c \div b + 1
               PROVE  FALSE
    OBVIOUS
  <2>1. /\ a \div b \in Nat /\ c \div b \in Nat
        /\ b * (a \div b) <= a /\ c < b * (c \div b) + b
    OBVIOUS
  <2>2. b * (a \div b) >= b * (c \div b + 1)
    BY <2>1
  <2>3. b * (c \div b + 1) = b * (c \div b) + b
    BY <2>1
  <2>4. b * (c \div b) \in Nat /\ b * (a \div b) \in Nat
    BY <2>1
  <2>5. QED
    BY <2>1, <2>2, <2>3, <2>4
<1>2. 2 * n + m \in Nat /\ 2 * k + m \in Nat /\ 2 * m \in Nat \ {0} /\ 2 * n + m <= 2 * k + m
  OBVIOUS
<1>3. QED
  BY <1>1, <1>2 DEF InCents

\* The exact fare in thousandths of a cent.
Exact(type, distance, minutes) ==
    100000 * Base(type) + distance * PerKilometre(type) + 100000 * minutes * PerMinute(type)

\* The fare of a ride is its exact fare, rounded.
LEMMA FareIsExact ==
    ASSUME NEW type \in RideType, NEW distance \in Nat, NEW minutes \in Nat
    PROVE  /\ CalculateFare(type, distance, minutes) = InCents(Exact(type, distance, minutes), 1000)
           /\ Exact(type, distance, minutes) \in Nat
           /\ CalculateFare(type, distance, minutes) \in Nat
<1>1. Base(type) \in Nat /\ PerKilometre(type) \in Nat /\ PerMinute(type) \in {50, 60, 75}
  BY DEF RideType, Base, PerKilometre, PerMinute
<1>2. distance * PerKilometre(type) \in Nat
  BY <1>1
<1>3. Exact(type, distance, minutes) \in Nat
  BY <1>1, <1>2 DEF Exact
<1>4. CalculateFare(type, distance, minutes) = InCents(Exact(type, distance, minutes), 1000)
  BY DEF CalculateFare, Exact
<1>5. QED
  BY <1>3, <1>4, Rounding

\* The fare does not fall with the time.
LEMMA FareMonotone ==
    ASSUME NEW type \in RideType, NEW distance \in Nat, NEW m \in Nat, NEW k \in Nat, m <= k
    PROVE  CalculateFare(type, distance, m) <= CalculateFare(type, distance, k)
<1>1. Base(type) \in Nat /\ PerKilometre(type) \in Nat /\ PerMinute(type) \in {50, 60, 75}
  BY DEF RideType, Base, PerKilometre, PerMinute
<1>2. distance * PerKilometre(type) \in Nat
  BY <1>1
<1>3. Exact(type, distance, m) <= Exact(type, distance, k)
  BY <1>1, <1>2 DEF Exact
<1>4. QED
  BY <1>3, FareIsExact, RoundingMonotone

\* The estimated duration is the least number of minutes, and one at least, in
\* which a car at 30 km/h covers the distance (EstimateDurationMinutes).
THEOREM DurationIsLeast ==
    ASSUME NEW distance \in Nat
    PROVE  /\ EstimateDurationMinutes(distance) \in Nat \ {0}
           /\ PerMinuteTravelled * EstimateDurationMinutes(distance) >= distance
           /\ \A m \in Nat \ {0} :
                  PerMinuteTravelled * m >= distance => EstimateDurationMinutes(distance) <= m
BY DEF EstimateDurationMinutes, PerMinuteTravelled

\* A passenger pays more than the estimate only if the ride took longer than
\* estimated: a minute that has only begun is not charged (calculateFinalFare).
THEOREM OnTimeCostsNoMore ==
    ASSUME NEW type \in RideType, NEW distance \in Nat, NEW estimated, NEW elapsed \in Int,
           elapsed < 60 * (EstimateDurationMinutes(distance) + 1)
    PROVE  CalculateFinalFare(type, distance, estimated, TRUE, elapsed)
               <= CalculateFareEstimate(type, distance)
<1> DEFINE m == IF WholeMinutes(elapsed) < 1 THEN 1 ELSE WholeMinutes(elapsed)
           e == EstimateDurationMinutes(distance)
<1>1. e \in Nat \ {0}
  BY DurationIsLeast
<1>2. m \in Nat /\ m <= e
  BY <1>1 DEF WholeMinutes
<1>3. /\ CalculateFinalFare(type, distance, estimated, TRUE, elapsed) = CalculateFare(type, distance, m)
      /\ CalculateFareEstimate(type, distance) = CalculateFare(type, distance, e)
  BY DEF CalculateFinalFare, CalculateFareEstimate
<1> HIDE DEF m, e
<1>4. QED
  BY <1>1, <1>2, <1>3, FareMonotone

\* Whatever the clocks say, a ride that was started costs its distance and one minute
\* at least (calculateFinalFare: minimumRideDuration).
THEOREM NeverFree ==
    ASSUME NEW type \in RideType, NEW distance \in Nat, NEW estimated, NEW elapsed \in Int
    PROVE  /\ CalculateFinalFare(type, distance, estimated, TRUE, elapsed) >= CalculateFare(type, distance, 1)
           /\ CalculateFare(type, distance, 1) >= 100 * Base(type) + 100 * PerMinute(type)
<1> DEFINE m == IF WholeMinutes(elapsed) < 1 THEN 1 ELSE WholeMinutes(elapsed)
<1>1. m \in Nat /\ 1 <= m
  BY DEF WholeMinutes
<1>2. CalculateFinalFare(type, distance, estimated, TRUE, elapsed) >= CalculateFare(type, distance, 1)
  <2>1. CalculateFinalFare(type, distance, estimated, TRUE, elapsed) = CalculateFare(type, distance, m)
    BY DEF CalculateFinalFare
  <2> HIDE DEF m
  <2>2. CalculateFare(type, distance, 1) <= CalculateFare(type, distance, m)
    BY <1>1, FareMonotone
  <2>3. \A k \in Nat : CalculateFare(type, distance, k) \in Nat
    BY FareIsExact
  <2>4. QED
    BY <1>1, <2>1, <2>2, <2>3
<1>3. /\ Base(type) \in Nat /\ PerKilometre(type) \in Nat /\ PerMinute(type) \in Nat
      /\ distance * PerKilometre(type) \in Nat
  BY Rates
<1> DEFINE x == Exact(type, distance, 1)
<1>4. x \in Nat /\ x >= 1000 * (100 * Base(type) + 100 * PerMinute(type))
  BY <1>3 DEF Exact
<1> HIDE DEF x
<1>5. CalculateFare(type, distance, 1) = InCents(x, 1000)
  BY FareIsExact DEF x
<1>6. InCents(x, 1000) \in Nat /\ 2 * (x - 1000 * InCents(x, 1000)) < 1000
  BY <1>4, Rounding
<1>7. CalculateFare(type, distance, 1) >= 100 * Base(type) + 100 * PerMinute(type)
  BY <1>3, <1>4, <1>5, <1>6
<1>8. QED
  BY <1>2, <1>7

\* A ride that was completed, started again by a late report and completed again
\* is charged for one minute, however long it took: its completed_at is older
\* than its started_at (refund.go:34-44).
THEOREM RestartedCostsOneMinute ==
    ASSUME NEW type \in RideType, NEW distance \in Nat, NEW estimated, NEW elapsed \in Int,
           elapsed < 0
    PROVE  CalculateFinalFare(type, distance, estimated, TRUE, elapsed) = CalculateFare(type, distance, 1)
<1>1. WholeMinutes(elapsed) < 1
  BY DEF WholeMinutes
<1>2. QED
  BY <1>1 DEF CalculateFinalFare

\* Half the circumference of the earth is less than 20016 km.
HalfAround == 20016 * 100000

\* No ride, were it half around the earth, is estimated at more than the column
\* rides.estimated_fare can hold, DECIMAL(10, 2): less than 100 000 000.
THEOREM EstimateFits ==
    ASSUME NEW type \in RideType, NEW distance \in Nat, distance <= HalfAround
    PROVE  CalculateFareEstimate(type, distance) < 100000 * 100000
<1> DEFINE e == EstimateDurationMinutes(distance)
           x == Exact(type, distance, e)
<1>1. e \in Nat /\ e <= 40033
  BY DEF EstimateDurationMinutes, PerMinuteTravelled, HalfAround
<1>2. CalculateFareEstimate(type, distance) = InCents(x, 1000)
  BY <1>1, FareIsExact DEF CalculateFareEstimate
<1> HIDE DEF e
<1>3. x \in Nat /\ x <= 100000 * 7000000
  <2>1. Base(type) <= 1000 /\ Base(type) \in Nat
    BY Rates
  <2>2. distance * PerKilometre(type) \in Nat /\ distance * PerKilometre(type) <= 150 * HalfAround
    <3>1. PerKilometre(type) \in {100, 120, 150}
      BY DEF RideType, PerKilometre
    <3>2. HalfAround \in Nat
      BY DEF HalfAround
    <3>3. QED
      BY <3>1, <3>2
  <2>3. 100000 * e * PerMinute(type) \in Nat /\ 100000 * e * PerMinute(type) <= 100000 * 40033 * 75
    BY <1>1 DEF RideType, PerMinute
  <2>4. QED
    BY <2>1, <2>2, <2>3 DEF Exact, HalfAround
<1> HIDE DEF x
<1>4. InCents(x, 1000) \in Nat /\ 2 * (1000 * InCents(x, 1000) - x) <= 1000
  BY <1>3, Rounding
<1>5. QED
  BY <1>2, <1>3, <1>4

\* A refund is no more than the fare, all of it before the match, and what a
\* matched ride is refunded is 80 % to half a cent (CalculateRefund).
THEOREM RefundWithinFare ==
    ASSUME NEW previous, NEW fare \in Nat
    PROVE  /\ CalculateRefund(previous, fare) \in 0 .. fare
           /\ previous = "REQUESTED" => CalculateRefund(previous, fare) = fare
           /\ previous = "MATCHED" =>
                  10 * CalculateRefund(previous, fare) \in 8 * fare - 5 .. 8 * fare + 5
<1> DEFINE x == InCents(4 * fare, 5)
<1>1. x \in Nat /\ 2 * (5 * x - 4 * fare) <= 5 /\ 2 * (4 * fare - 5 * x) < 5
  BY Rounding
<1> HIDE DEF x
<1>2. CASE previous = "REQUESTED"
  BY <1>2 DEF CalculateRefund
<1>3. CASE previous = "MATCHED"
  <2>1. CalculateRefund(previous, fare) = x
    BY <1>3 DEF CalculateRefund, x
  <2>2. QED
    BY <1>1, <1>3, <2>1
<1>4. CASE previous \notin {"REQUESTED", "MATCHED"}
  BY <1>4 DEF CalculateRefund
<1>5. QED
  BY <1>2, <1>3, <1>4
=============================================================================
