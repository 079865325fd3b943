--------------------------- MODULE MCRideService ---------------------------
(* Constants and symmetry for the model checking of RideService. *)
EXTENDS RideService, TLC

\* Rides name their timers, calls are interchangeable requests: no action
\* tells two rides, two drivers or two calls apart.
Symmetry == Permutations(Ride) \cup Permutations(Driver) \cup Permutations(Call)
=============================================================================
