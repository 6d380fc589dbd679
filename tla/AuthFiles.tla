------------------------------- MODULE AuthFiles -------------------------------
(***************************************************************************)
(* The account's cookie and session file and their .reauth-backup copies,  *)
(* through a re-authentication, a death of the container at any step of it *)
(* and the recovery at the next start (cookies.py, Supervisor.run_reauth,  *)
(* Supervisor.__init__).                                                   *)
(*                                                                         *)
(* Writing a file is two steps, since write_bytes truncates and then       *)
(* writes; removing one is one step.  What icloudpd writes during its run  *)
(* is the environment's.                                                   *)
(***************************************************************************)
EXTENDS Naturals

CONSTANTS
  MaxReauths,  \* bound: reauths and other sign-ins in a behaviour
  KillPoints,  \* values of pc at which the container may die
  MayRaise     \* may an exception escape the run?

Files == {"cookie", "session"}
Phases == {"idle", "backup", "unlink", "run", "discard", "restore", "recover"}

ASSUME AuthFilesAssumption ==
  MaxReauths \in Nat /\ KillPoints \subseteq Phases /\ MayRaise \in BOOLEAN

\* What a file may hold: nothing, a truncated write, or what the sign-in
\* number gen left before (half) or after (good) the second factor.
Absent == [kind |-> "absent", gen |-> 0]
Torn == [kind |-> "torn", gen |-> 0]
Half(g) == [kind |-> "half", gen |-> g]
Good(g) == [kind |-> "good", gen |-> g]
Contents == {Absent, Torn} \union {Half(g) : g \in 1 .. MaxReauths}
                           \union {Good(g) : g \in 0 .. MaxReauths}

VARIABLES
  pc,       \* which loop the main thread is in
  todo,     \* the files that loop has still to visit
  step,     \* how far the visit of the first of them is
  pairs,    \* the files run_reauth has backed up
  orig,     \* the files themselves
  copy,     \* their .reauth-backup copies
  gen,      \* history: number of the current or last sign-in
  before,   \* history: the files as that reauth found them
  wrote,    \* history: the files icloudpd wrote during it
  outcome   \* history: how it went

thread == <<pc, todo, step, pairs>>
history == <<gen, before, wrote, outcome>>
vars == <<thread, orig, copy, history>>

\* Every loop takes the cookie file first.
Current == IF "cookie" \in todo THEN "cookie" ELSE "session"

\* The main thread enters a loop over the files S, or moves on in one.
Enter(phase, S) == pc' = phase /\ todo' = S /\ step' = "start"
Advance == pc' = pc /\ todo' = todo \ {Current} /\ step' = "start"
Visits(phase, s) == pc = phase /\ todo # {} /\ step = s

Init ==
  /\ pc = "idle" /\ todo = {} /\ step = "start" /\ pairs = {}
  /\ orig \in [Files -> {Absent, Good(0)}]
  /\ copy = [f \in Files |-> Absent]
  /\ gen = 0 /\ before = orig /\ wrote = {} /\ outcome = "none"

\* run_reauth, the budget and the keyring permitting (module Supervisor).
StartReauth ==
  /\ pc = "idle" /\ gen < MaxReauths
  /\ Enter("backup", Files)
  /\ pairs' = {}
  /\ gen' = gen + 1 /\ before' = orig /\ wrote' = {} /\ outcome' = "running"
  /\ UNCHANGED <<orig, copy>>

\* A sync's run signs in again; the two-factor step may be left undone.
SyncSignIn ==
  /\ pc = "idle" /\ gen < MaxReauths
  /\ gen' = gen + 1 /\ before' = orig /\ wrote' = Files /\ outcome' = "none"
  /\ \E content \in {Half(gen'), Good(gen')} : orig' = [f \in Files |-> content]
  /\ UNCHANGED <<thread, copy>>

\* backup_auth_files ----------------------------------------------------------

SkipMissing ==
  /\ Visits("backup", "start") /\ orig[Current] = Absent
  /\ Advance
  /\ UNCHANGED <<pairs, orig, copy, history>>

\* Mutants: the pair is noted before its copy is there; the file is moved
\* rather than copied.
PairFirst ==
  /\ Visits("backup", "start") /\ orig[Current] # Absent
  /\ pairs' = pairs \union {Current}
  /\ copy' = [copy EXCEPT ![Current] = Torn]
  /\ step' = "opened"
  /\ UNCHANGED <<pc, todo, orig, history>>
MoveAside ==
  /\ Visits("backup", "start") /\ orig[Current] # Absent
  /\ copy' = [copy EXCEPT ![Current] = Torn]
  /\ orig' = [orig EXCEPT ![Current] = Absent]
  /\ step' = "opened"
  /\ UNCHANGED <<pc, todo, pairs, history>>
OpenBackup ==
  /\ Visits("backup", "start") /\ orig[Current] # Absent
  /\ copy' = [copy EXCEPT ![Current] = Torn]
  /\ step' = "opened"
  /\ UNCHANGED <<pc, todo, pairs, orig, history>>

WriteBackup ==
  /\ Visits("backup", "opened")
  /\ copy' = [copy EXCEPT ![Current] = orig[Current]]
  /\ pairs' = pairs \union {Current}
  /\ Advance
  /\ UNCHANGED <<orig, history>>

\* The originals go once every copy is complete.
BackedUp ==
  /\ pc = "backup" /\ todo = {}
  /\ Enter("unlink", pairs)
  /\ UNCHANGED <<pairs, orig, copy, history>>

UnlinkOriginal ==
  /\ Visits("unlink", "start")
  /\ orig' = [orig EXCEPT ![Current] = Absent]
  /\ Advance
  /\ UNCHANGED <<pairs, copy, history>>

Unlinked ==
  /\ pc = "unlink" /\ todo = {}
  /\ Enter("run", {})
  /\ UNCHANGED <<pairs, orig, copy, history>>

\* icloudpd --auth-only -------------------------------------------------------

\* Every response of the sign-in is persisted in the session file, and perhaps
\* in the cookie file.
SignInWrites ==
  /\ pc = "run" /\ wrote = {}
  /\ wrote' \in {{"session"}, Files}
  /\ orig' = [f \in Files |-> IF f \in wrote' THEN Half(gen) ELSE orig[f]]
  /\ UNCHANGED <<thread, copy, gen, before, outcome>>

TrustWrites ==
  /\ pc = "run" /\ wrote # {}
  /\ wrote' = Files
  /\ orig' = [f \in Files |-> Good(gen)]
  /\ UNCHANGED <<thread, copy, gen, before, outcome>>

RunSucceeds ==
  /\ pc = "run" /\ \A f \in Files : orig[f] = Good(gen)
  /\ Enter("discard", pairs)
  /\ outcome' = "ok"
  /\ UNCHANGED <<pairs, orig, copy, gen, before, wrote>>

RunFails ==
  /\ pc = "run"
  /\ Enter("restore", pairs)
  /\ outcome' = "failed"
  /\ UNCHANGED <<pairs, orig, copy, gen, before, wrote>>

\* The exception unwinds run_reauth; run_forever goes on.
RunRaises ==
  /\ MayRaise /\ pc = "run"
  /\ Enter("idle", {})
  /\ outcome' = "raised"
  /\ UNCHANGED <<pairs, orig, copy, gen, before, wrote>>

\* discard_backups, restore_auth_files, recover_stale_backups -----------------

DiscardBackup ==
  /\ Visits("discard", "start")
  /\ copy' = [copy EXCEPT ![Current] = Absent]
  /\ Advance
  /\ UNCHANGED <<pairs, orig, history>>

NoBackup ==
  /\ Visits("restore", "start") \/ Visits("recover", "start")
  /\ copy[Current] = Absent
  /\ Advance
  /\ UNCHANGED <<pairs, orig, copy, history>>

\* Only the recovery looks whether the original is there.  Mutant: it does not.
DiscardAny ==
  /\ Visits("recover", "start") /\ copy[Current] # Absent
  /\ copy' = [copy EXCEPT ![Current] = Absent]
  /\ Advance
  /\ UNCHANGED <<pairs, orig, history>>
DiscardStale ==
  /\ Visits("recover", "start")
  /\ copy[Current] # Absent /\ orig[Current] # Absent
  /\ copy' = [copy EXCEPT ![Current] = Absent]
  /\ Advance
  /\ UNCHANGED <<pairs, orig, history>>

\* Mutant: the recovery prefers the copy whatever became of the original.
RestoreAlways ==
  /\ Visits("restore", "start") \/ Visits("recover", "start")
  /\ copy[Current] # Absent
  /\ orig' = [orig EXCEPT ![Current] = Torn]
  /\ step' = "opened"
  /\ UNCHANGED <<pc, todo, pairs, copy, history>>
OpenOriginal ==
  /\ \/ Visits("restore", "start")
     \/ Visits("recover", "start") /\ orig[Current] = Absent
  /\ copy[Current] # Absent
  /\ orig' = [orig EXCEPT ![Current] = Torn]
  /\ step' = "opened"
  /\ UNCHANGED <<pc, todo, pairs, copy, history>>

\* Mutant: the copy is removed before it was written back.
WriteNothing ==
  /\ Visits("restore", "opened") \/ Visits("recover", "opened")
  /\ copy' = [copy EXCEPT ![Current] = Absent]
  /\ Advance
  /\ UNCHANGED <<pairs, orig, history>>
WriteOriginal ==
  /\ Visits("restore", "opened") \/ Visits("recover", "opened")
  /\ orig' = [orig EXCEPT ![Current] = copy[Current]]
  /\ step' = "written"
  /\ UNCHANGED <<pc, todo, pairs, copy, history>>

UnlinkBackup ==
  /\ Visits("restore", "written") \/ Visits("recover", "written")
  /\ copy' = [copy EXCEPT ![Current] = Absent]
  /\ Advance
  /\ UNCHANGED <<pairs, orig, history>>

LoopDone ==
  /\ pc \in {"discard", "restore", "recover"} /\ todo = {}
  /\ Enter("idle", {})
  /\ outcome' = IF pc = "recover" /\ outcome = "killed" THEN "recovered" ELSE outcome
  /\ UNCHANGED <<pairs, orig, copy, gen, before, wrote>>

\* The container ----------------------------------------------------------------

Kill ==
  /\ pc \in KillPoints
  /\ Enter("down", {})
  /\ pairs' = {}
  /\ outcome' = IF outcome = "running" THEN "killed" ELSE outcome
  /\ UNCHANGED <<orig, copy, gen, before, wrote>>

\* Supervisor.__init__ recovers before anything else reads the files.
Boot ==
  /\ pc = "down"
  /\ Enter("recover", Files)
  /\ UNCHANGED <<pairs, orig, copy, history>>

Next ==
  \/ SyncSignIn \/ StartReauth \/ SkipMissing \/ OpenBackup \/ WriteBackup \/ BackedUp
  \/ UnlinkOriginal \/ Unlinked
  \/ SignInWrites \/ TrustWrites \/ RunSucceeds \/ RunFails \/ RunRaises
  \/ DiscardBackup \/ NoBackup \/ DiscardStale \/ OpenOriginal \/ WriteOriginal
  \/ UnlinkBackup \/ LoopDone
  \/ Kill \/ Boot

Spec == Init /\ [][Next]_vars

-------------------------------------------------------------------------------
\* Properties

\* Every variable has its type, and until the run is over a file the reauth
\* lists as backed up has a complete copy (run_reauth's backups).
TypeOK ==
  /\ pc \in Phases \union {"down"}
  /\ todo \subseteq Files
  /\ step \in {"start", "opened", "written"} /\ pairs \subseteq Files
  /\ orig \in [Files -> Contents] /\ copy \in [Files -> Contents]
  /\ gen \in 0 .. MaxReauths /\ before \in [Files -> Contents] /\ wrote \subseteq Files
  /\ outcome \in {"none", "running", "ok", "failed", "raised", "killed", "recovered"}
  /\ pc \in {"backup", "unlink", "run"} => \A f \in pairs : copy[f] = before[f] /\ copy[f] # Absent

\* While a reauth is under way, and after it died until the recovery looks, the
\* old version of each file exists whole, in place or as its copy.
OldFilesSurvive ==
  (outcome = "running" \/ pc = "restore" \/ (pc = "down" /\ outcome = "killed")) =>
    \A f \in Files : before[f] # Absent => before[f] \in {orig[f], copy[f]}

\* A copy that is not complete is never the only version of its file, so no
\* recovery restores one.
TornCopyNotAlone ==
  \A f \in Files : copy[f] = Torn => orig[f] \notin {Absent, Torn}

\* A reauth that failed has put back exactly what it found and left no copy:
\* "The old cookies are backed up and restored on failure" (run_reauth).
FailureRestores ==
  pc = "idle" /\ outcome = "failed" =>
    \A f \in Files : before[f] # Absent => orig[f] = before[f] /\ copy[f] = Absent

\* Once icloudpd reported success, no death, restart or left-over copy brings
\* the old files back.
SuccessStays == outcome = "ok" => \A f \in Files : orig[f] = Good(gen)

\* A container that died before icloudpd wrote a file starts again with the
\* file as it was (recover_stale_backups).
UntouchedRecovered ==
  pc = "idle" /\ outcome = "recovered" =>
    \A f \in Files \ wrote : before[f] # Absent => orig[f] = before[f]

\* What would stand in each file once the write under way, or a recovery, has
\* put it there; and which files only a recovery would bring back.
Restarted == [f \in Files |-> IF orig[f] \in {Absent, Torn} THEN copy[f] ELSE orig[f]]
Stage == IF outcome = "running" THEN "running"
         ELSE IF pc = "restore" THEN "failing" ELSE "settled"
Aside == IF Stage = "settled"
         THEN {f \in Files : orig[f] \in {Absent, Torn} /\ copy[f] # Absent} ELSE {}

\* All the copying, removing, truncating, restoring and discarding is invisible
\* after a restart: what it finds changes only by what icloudpd writes, and back
\* to what a failed reauth found (run_reauth and recover_stale_backups together).
Promise == INSTANCE Reauthentication
             WITH files <- Restarted, aside <- Aside, old <- before, phase <- Stage
ReauthKept == Promise!Spec

\* "discard a backup whose original exists (the reauth finished but cleanup did
\* not)": what the recovery discards is superseded by a finished reauth, or is
\* a copy of what still stands in place.
DiscardMeansFinished ==
  [][DiscardStale => orig[Current] = Good(gen) \/ orig[Current] = before[Current]]_vars
=============================================================================
