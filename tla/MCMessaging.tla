---------------------------- MODULE MCMessaging ----------------------------
(* The instance of Messaging that TLC checks. *)
EXTENDS Messaging, TLC
=============================================================================
