---------------------------- MODULE MCSupervisor ----------------------------
(***************************************************************************)
(* Small instances of Supervisor for TLC: a day of a few time units, one   *)
(* or two sign-ins allowed, one library more than needed for "the next     *)
(* library of the same cycle" to exist.                                    *)
(***************************************************************************)
EXTENDS Supervisor

NoFaults == {}
Disasters == {"kill", "raise", "revoke", "nosave"}
Kills == {"kill"}
=============================================================================
