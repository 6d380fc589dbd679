---------------------------- MODULE MCMfaBridge ----------------------------
(***************************************************************************)
(* Instances of MfaBridge: which faults may occur.                         *)
(***************************************************************************)
EXTENDS MfaBridge

Tolerated == {"lost", "mute", "raise"}
Blips == {"blip"}
NoFaults == {}
=============================================================================
