---------------------------- MODULE MCFleetLock ----------------------------
(* Instances of FleetLock for TLC. *)
EXTENDS FleetLock

CONSTANTS c1, c2

TwoCoords == {c1, c2}
=============================================================================
