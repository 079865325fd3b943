----------------------------- MODULE MCRideHail -----------------------------
EXTENDS RideHail, TLC
Symmetry == Permutations(Driver) \cup Permutations(Search)
=============================================================================
