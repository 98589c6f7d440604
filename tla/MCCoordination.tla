--------------------------- MODULE MCCoordination ---------------------------
(* The instances of Coordination that TLC checks.                          *)
EXTENDS CoordinationInvariant

MCNodes == 1 .. 2
=============================================================================
