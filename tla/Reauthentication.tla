--------------------------- MODULE Reauthentication ---------------------------
(***************************************************************************)
(* What a re-authentication promises about the files of the account.  The  *)
(* promise is stated over the files a restart would find, wherever they    *)
(* are kept: only what icloudpd writes, and putting back what a failed     *)
(* re-authentication found, changes them.  Module AuthFiles is shown to    *)
(* implement it.                                                           *)
(***************************************************************************)
EXTENDS Naturals

CONSTANTS Files,  \* the account's files
          Absent  \* what a file holds that is not there

VARIABLES files,  \* what a restart would find in each file
          aside,  \* files it would find only because it recovers them first
          old,    \* the files as the current or last sign-in found them in place
          phase,  \* is a re-authentication running, failing, or is all settled?
          gen     \* number of the current or last sign-in

promiseVars == <<files, aside, old, phase, gen>>

\* What sign-in g leaves in a file before and after its second factor.
Half(g) == [kind |-> "half", gen |-> g]
Good(g) == [kind |-> "good", gen |-> g]

InPlace == [f \in Files |-> IF f \in aside THEN Absent ELSE files[f]]

Init ==
  /\ files \in [Files -> {Absent, Good(0)}]
  /\ aside = {} /\ old = files /\ phase = "settled" /\ gen = 0

SignIn(p) ==
  /\ phase = "settled" /\ phase' = p
  /\ gen' = gen + 1 /\ old' = InPlace /\ aside' = {}

\* A sync's run signs in again.
Elsewhere ==
  /\ SignIn("settled")
  /\ \E content \in {Half(gen'), Good(gen')} : files' = [f \in Files |-> content]

Begin == SignIn("running") /\ UNCHANGED files

Write ==
  /\ phase = "running"
  /\ \E W \in SUBSET Files, content \in {Half(gen), Good(gen)} :
       files' = [f \in Files |-> IF f \in W THEN content ELSE files[f]]
  /\ UNCHANGED <<aside, old, phase, gen>>

Succeed ==
  /\ phase = "running" /\ \A f \in Files : files[f] = Good(gen)
  /\ phase' = "settled"
  /\ UNCHANGED <<files, aside, old, gen>>

\* The process dies, or an exception ends the re-authentication.
Abandon ==
  /\ phase = "running" /\ phase' = "settled"
  /\ aside' \in SUBSET {f \in Files : files[f] # Absent}
  /\ UNCHANGED <<files, old, gen>>

Fail ==
  /\ phase = "running" /\ phase' = "failing"
  /\ UNCHANGED <<files, aside, old, gen>>

PutBack(f) ==
  /\ phase = "failing" /\ old[f] # Absent
  /\ files' = [files EXCEPT ![f] = old[f]]
  /\ UNCHANGED <<aside, old, phase, gen>>

\* A failure is over when every file that was there is back in place.
Done ==
  /\ phase = "failing" /\ \A f \in Files : old[f] # Absent => files[f] = old[f]
  /\ phase' = "settled"
  /\ aside' \in SUBSET {f \in Files : old[f] = Absent}
  /\ UNCHANGED <<files, old, gen>>

Recover ==
  /\ phase = "settled" /\ aside' \in SUBSET aside
  /\ UNCHANGED <<files, old, phase, gen>>

Next ==
  \/ Elsewhere \/ Begin \/ Write \/ Succeed \/ Abandon \/ Fail
  \/ \E f \in Files : PutBack(f)
  \/ Done \/ Recover

Spec == Init /\ [][Next]_promiseVars
=============================================================================
