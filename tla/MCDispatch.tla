----------------------------- MODULE MCDispatch -----------------------------
(* Constants and symmetry for the model checking of Dispatch. *)
EXTENDS Dispatch, TLC

Symmetry == Permutations(Ride) \cup Permutations(Driver) \cup Permutations(Search)
=============================================================================
