----------------------------- MODULE MCMessenger -----------------------------
(* The instances of Messenger that TLC checks.                             *)
EXTENDS MessengerInvariant

MCIntents == 1 .. 3
=============================================================================
