-------------------------------- MODULE MCHub --------------------------------
(* Constants for the model checking of Hub. *)
EXTENDS Hub, TLC
=============================================================================
