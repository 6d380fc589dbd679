----------------------------- MODULE MCAuthFiles -----------------------------
(***************************************************************************)
(* Instances of AuthFiles: deaths at every step of a reauth up to and      *)
(* including the run and its clean-up, or at every step whatsoever.        *)
(***************************************************************************)
EXTENDS AuthFiles

ReauthKills == {"idle", "backup", "unlink", "run", "discard"}
AllKills == Phases
=============================================================================
