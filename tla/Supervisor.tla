------------------------------ MODULE Supervisor ------------------------------
(***************************************************************************)
(* The supervisor's main loop, its sign-in budget and its schedule         *)
(* (scheduler.py, state.py, and the parts of runner.py and cookies.py they *)
(* call), with icloudpd, Apple, the operator and the container runtime as  *)
(* the environment.                                                        *)
(*                                                                         *)
(* The main thread is a program counter; one icloudpd run at a time is in  *)
(* flight (the loop blocks in runner.run).  Sign-ins are numbered by their *)
(* position in the history signIns; an entry of the budget carries the     *)
(* number of the sign-in it was recorded for, which the code does not      *)
(* store and no guard reads.                                               *)
(***************************************************************************)
EXTENDS Integers, Sequences, FiniteSets

CONSTANTS
  Day,          \* 86400: the budget's rolling window
  Interval,     \* download_interval, at least 3600
  Retry,        \* the 300 s of a refused cycle
  MaxAuth,      \* max_auth_per_day
  Named,        \* configured libraries that need no lookup
  NeedsLookup,  \* is the alias "shared" configured?
  Shared,       \* SharedSync libraries of the account
  Faults,       \* which faults the environment may show
  MaxTime,      \* bound: the clock stops here
  MaxSignIns    \* bound: sign-ins in a behaviour

ASSUME ConstantsAssumption ==
  /\ Day \in Nat \ {0} /\ Retry \in Nat \ {0} /\ Interval \in Nat
  /\ Retry <= Interval /\ Retry <= Day
  /\ MaxAuth \in Nat /\ Named \in Nat /\ Shared \in Nat
  /\ NeedsLookup \in BOOLEAN /\ (~NeedsLookup => Named > 0)
  /\ Faults \subseteq {"kill", "raise", "revoke", "expire", "nosave"}
  /\ MaxTime \in Nat /\ MaxSignIns \in Nat

NoTime == -1
JarStates == {"absent", "untrusted", "trusted", "revoked"}
States == {"starting", "idle", "syncing", "waiting_for_mfa",
           "password_needed", "auth_rate_limited"}

VARIABLES
  pc,        \* main thread: down, top of loop, commands.get, schedule check, or in a run
  manual,    \* was the current cycle asked for by the user?
  left,      \* libraries of the current cycle still to sync, this one included
  pairs,     \* did the current reauth back a jar up?
  run,       \* the icloudpd run in flight
  state,     \* Supervisor.state
  stop,      \* Supervisor._stop
  next,      \* Supervisor.next_sync_time
  attempts,  \* PersistedState.auth_attempts
  lastSync,  \* PersistedState.last_sync_time
  libs,      \* number of resolved libraries, 0 while None
  disk,      \* the state file
  keyring,   \* is a password stored?
  jar,       \* cookie and session of the account
  backup,    \* their .reauth-backup, or "none"
  now,       \* the wall clock
  signIns,   \* history: the times of the sign-ins Apple saw
  seen,      \* history: sign-ins whose 2FA prompt was noticed, except those
             \* a process took along unsaved
  lastAuto,  \* history: when the last unattended cycle launched icloudpd
  unsaved    \* history: sign-ins recorded in memory since the last save that worked

control == <<pc, manual, left, pairs, run>>
memory  == <<state, stop, next, attempts, lastSync, libs>>
files   == <<disk, unsaved, keyring, jar, backup>>
history == <<signIns, seen, lastAuto>>
vars    == <<control, memory, files, now, history>>

\* MFA and prompt fields: what icloudpd needs, what the tick has noticed.
NoRun == [phase |-> "none", id |-> 0, mfa |-> "none",
          prompted |-> FALSE, recorded |-> FALSE]
Launched == [NoRun EXCEPT !.phase = "live"]
Ended == run.phase \in {"ok", "failed"}

\* CookieStatus.valid reads the expiry date in the jar; whether the session
\* still works is for Apple to say.
CookieValid == jar \in {"trusted", "revoked"}
SessionWorks == jar = "trusted"

\* The budget -----------------------------------------------------------------

\* Mutant: an entry exactly a day old still counts.
RecentInclusive == {e \in attempts : e.time >= now - Day}
Recent == {e \in attempts : e.time > now - Day}
BudgetSpent == Cardinality(Recent) >= MaxAuth
\* min(auth_attempts, default=now)
IsOldest(t) == IF Recent = {} THEN t = now
               ELSE (\E e \in Recent : e.time = t) /\ \A e \in Recent : t <= e.time
Later(a, b) == IF a >= b THEN a ELSE b

\* save replaces the state file as a whole; an OSError is only logged.
Save(entries, last, new) ==
  \/ disk' = [attempts |-> entries, lastSync |-> last] /\ unsaved' = {}
  \/ "nosave" \in Faults /\ UNCHANGED disk /\ unsaved' = unsaved \union new

\* Mutant: the entry holds the time it ages out.
RecordExpiry ==
  /\ attempts' = Recent \union {[id |-> run.id, time |-> now + Day]}
  /\ Save(attempts', lastSync, {run.id})

\* record_auth_attempt, then save.
Record ==
  /\ attempts' = Recent \union {[id |-> run.id, time |-> now]}
  /\ Save(attempts', lastSync, {run.id})

\* The end of _bridged_run: a rotated session token not yet recorded is recorded.
\* Mutants: never recorded; recorded although the prompt was.
AccountNever == UNCHANGED <<attempts, disk, unsaved>>
AccountAgain == IF run.id # 0 THEN Record ELSE UNCHANGED <<attempts, disk, unsaved>>
AccountForRun ==
  \/ run.id # 0 /\ ~run.recorded /\ Record
  \/ (run.id = 0 \/ run.recorded) /\ UNCHANGED <<attempts, disk, unsaved>>

\* The prompt is recorded at once.  Mutant: left to the end of the run.
ChargeLater == attempts' = Recent /\ UNCHANGED <<disk, unsaved>>
ChargePrompt ==
  \/ ~run.recorded /\ Record
  \/ run.recorded /\ attempts' = Recent /\ UNCHANGED <<disk, unsaved>>

\* _set_state writes the status file, which counts and so prunes the budget.
\* Mutant: a wait for a code is not overwritten.
SetStateUnlessWaiting(s) ==
  /\ state' = IF state = "waiting_for_mfa" THEN state ELSE s
  /\ attempts' = Recent
SetState(s) == state' = s /\ attempts' = Recent

\* Process lifetime -----------------------------------------------------------

Forget ==
  /\ pc' = "down" /\ manual' = FALSE /\ left' = 0 /\ pairs' = FALSE /\ run' = NoRun
  /\ state' = "starting" /\ stop' = FALSE /\ next' = 0
  /\ attempts' = {} /\ lastSync' = NoTime /\ libs' = 0
  /\ seen' = seen \ unsaved /\ unsaved' = {}
  /\ UNCHANGED <<disk, keyring, jar, backup, now, signIns, lastAuto>>

\* Mutant: a restart starts from nothing, as the legacy container did.
BootFresh ==
  /\ pc = "down"
  /\ pc' = "top" /\ next' = now /\ state' = "idle"
  /\ jar' = IF backup # "none" /\ jar = "absent" THEN backup ELSE jar
  /\ backup' = "none"
  /\ UNCHANGED <<manual, left, pairs, run, stop, attempts, lastSync, libs, disk,
                 unsaved, keyring, now, history>>

\* Supervisor(...), then run_forever up to its loop.
Boot ==
  /\ pc = "down"
  /\ pc' = "top"
  /\ attempts' = {e \in disk.attempts : e.time > now - Day}
  /\ lastSync' = disk.lastSync
  /\ next' = IF disk.lastSync = NoTime THEN now ELSE Later(now, disk.lastSync + Interval)
  /\ jar' = IF backup # "none" /\ jar = "absent" THEN backup ELSE jar
  /\ backup' = "none"
  /\ state' = "idle"
  /\ UNCHANGED <<manual, left, pairs, run, stop, libs, disk, unsaved, keyring, now, history>>

Stop ==
  /\ pc # "down" /\ ~stop
  /\ stop' = TRUE
  /\ UNCHANGED <<control, state, next, attempts, lastSync, libs, files, now, history>>

Kill == "kill" \in Faults /\ pc # "down" /\ Forget

\* The loop -------------------------------------------------------------------

\* An unattended cycle returns to the top of the loop; a command is followed
\* by the schedule check of the same iteration.
\* Mutant: the schedule is checked only when no command came.
AfterContinue(m) == "top"
After(m) == IF m THEN "due" ELSE "top"

\* Mutant: the stop flag is only looked at during runs.
LoopForever ==
  /\ pc = "top" /\ pc' = "wait"
  /\ UNCHANGED <<manual, left, pairs, run, memory, files, now, history>>

LoopTop ==
  /\ pc = "top"
  /\ \/ stop /\ Forget
     \/ /\ ~stop
        /\ pc' = "wait"
        /\ UNCHANGED <<manual, left, pairs, run, memory, files, now, history>>

\* commands.get times out, or yields status, help or a stray code.
NothingToDo ==
  /\ pc = "wait"
  /\ pc' = "due"
  /\ UNCHANGED <<manual, left, pairs, run, memory, files, now, history>>

\* The iteration ends with _check_cookie_expiry, which saves when it warns, and
\* the status file's refresh.
NotDue ==
  /\ pc = "due" /\ now < next
  /\ pc' = "top"
  /\ attempts' = Recent
  /\ UNCHANGED <<disk, unsaved>> \/ Save(attempts, lastSync, {})
  /\ UNCHANGED <<manual, left, pairs, run, state, stop, next, lastSync, libs,
                 keyring, jar, backup, now, history>>

\* run_sync_cycle -------------------------------------------------------------

RefuseKeyring(m) ==
  /\ ~keyring
  /\ SetState("password_needed")
  /\ next' = now + Retry
  /\ pc' = After(m)
  /\ UNCHANGED <<manual, left, pairs, run, stop, lastSync, libs, files, now, history>>

RefuseBudget(m) ==
  /\ keyring /\ BudgetSpent /\ ~CookieValid
  /\ SetState("auth_rate_limited")
  /\ \E oldest \in 0 .. now :
       IsOldest(oldest) /\ next' = Later(now + Retry, oldest + Day)
  /\ pc' = After(m)
  /\ UNCHANGED <<manual, left, pairs, run, stop, lastSync, libs, files, now, history>>

StartCycle(m) ==
  /\ keyring /\ (~BudgetSpent \/ CookieValid)
  /\ SetState("syncing")
  /\ manual' = m
  /\ lastAuto' = IF m THEN lastAuto ELSE now
  /\ run' = Launched
  /\ \/ /\ NeedsLookup /\ libs = 0
        /\ pc' = "lookup"
        /\ UNCHANGED <<left, libs>>
     \/ /\ ~(NeedsLookup /\ libs = 0)
        /\ pc' = "sync"
        /\ libs' = IF libs = 0 THEN Named ELSE libs
        /\ left' = libs'
  /\ UNCHANGED <<pairs, stop, next, lastSync, files, now, signIns, seen>>

SyncCycle(m) == RefuseKeyring(m) \/ RefuseBudget(m) \/ StartCycle(m)

SyncCommand == pc = "wait" /\ SyncCycle(TRUE)
Due == pc = "due" /\ now >= next /\ SyncCycle(FALSE)

FinishCycle ==
  /\ lastSync' = now
  /\ Save(attempts, now, {})
  /\ next' = now + Interval
  /\ SetState("idle")
  /\ pc' = After(manual)
  /\ manual' = FALSE /\ left' = 0 /\ run' = NoRun
  /\ UNCHANGED <<pairs, stop, libs, keyring, jar, backup, now, history>>

\* The lookup's output is parsed whether or not it succeeded; what it yields
\* is cached unless nothing at all was resolved.
LookupDone ==
  /\ pc = "lookup" /\ Ended
  /\ \E found \in IF run.phase = "ok" THEN {Shared} ELSE {0, Shared} :
       \/ Named + found = 0 /\ FinishCycle
       \/ /\ Named + found > 0
          /\ libs' = Named + found
          /\ left' = Named + found
          /\ pc' = "sync"
          /\ run' = Launched
          /\ UNCHANGED <<manual, pairs, state, stop, next, attempts, lastSync,
                         files, now, history>>

NextLibrary ==
  /\ pc = "sync" /\ run.phase = "ok" /\ left > 1
  /\ left' = left - 1
  /\ run' = Launched
  /\ UNCHANGED <<pc, manual, pairs, memory, files, now, history>>

SyncDone ==
  /\ pc = "sync" /\ Ended
  /\ run.phase = "failed" \/ left = 1
  /\ FinishCycle

\* run_reauth -----------------------------------------------------------------

RefuseReauth ==
  /\ \/ ~keyring /\ SetState("password_needed")
     \/ keyring /\ BudgetSpent /\ attempts' = Recent /\ UNCHANGED state
  /\ pc' = After(TRUE)
  /\ UNCHANGED <<manual, left, pairs, run, stop, next, lastSync, libs, files,
                 now, history>>

StartReauth ==
  /\ keyring /\ ~BudgetSpent
  /\ SetState("syncing")
  /\ pairs' = (jar # "absent")
  /\ backup' = IF jar = "absent" THEN backup ELSE jar
  /\ jar' = "absent"
  /\ run' = Launched
  /\ pc' = "auth"
  /\ UNCHANGED <<manual, left, stop, next, lastSync, libs, disk, unsaved, keyring,
                 now, history>>

ReauthCommand == pc = "wait" /\ (RefuseReauth \/ StartReauth)

\* discard_backups on success, restore_auth_files on failure; both only touch
\* what this reauth backed up.
ReauthDone ==
  /\ pc = "auth" /\ Ended
  /\ jar' = IF pairs /\ run.phase = "failed" THEN backup ELSE jar
  /\ backup' = IF pairs THEN "none" ELSE backup
  /\ SetState("idle")
  /\ pc' = After(TRUE) /\ pairs' = FALSE /\ run' = NoRun
  /\ UNCHANGED <<manual, left, stop, next, lastSync, libs, disk, unsaved, keyring,
                 now, history>>

\* A run of icloudpd ----------------------------------------------------------

\* icloudpd signs in with the password when its session does not work, and
\* then either is trusted at once or waits for a two-factor code.
SignIn ==
  /\ run.phase = "live" /\ run.id = 0 /\ ~SessionWorks
  /\ Len(signIns) < MaxSignIns
  /\ signIns' = Append(signIns, now)
  /\ \E need \in BOOLEAN :
       /\ run' = [run EXCEPT !.id = Len(signIns) + 1,
                             !.mfa = IF need THEN "wait" ELSE "done"]
       /\ jar' = IF need THEN "untrusted" ELSE "trusted"
  /\ UNCHANGED <<pc, manual, left, pairs, memory, disk, unsaved, keyring, backup, now,
                 seen, lastAuto>>

\* The tick that first sees NEED_MFA.
Prompt ==
  /\ run.phase = "live" /\ run.mfa = "wait" /\ ~run.prompted /\ ~stop
  /\ state' = "waiting_for_mfa"
  /\ ChargePrompt
  /\ run' = [run EXCEPT !.prompted = TRUE, !.recorded = TRUE]
  /\ seen' = seen \union {run.id}
  /\ UNCHANGED <<pc, manual, left, pairs, stop, next, lastSync, libs, keyring,
                 jar, backup, now, signIns, lastAuto>>

\* The user's code reaches icloudpd through the prompt and Apple takes it.
CodeAccepted ==
  /\ run.phase = "live" /\ run.mfa = "wait" /\ run.recorded
  /\ run' = [run EXCEPT !.mfa = "done"]
  /\ jar' = "trusted"
  /\ UNCHANGED <<pc, manual, left, pairs, memory, disk, unsaved, keyring, backup, now, history>>

\* The tick that finds no prompt after a code was submitted: icloudpd took the
\* code, or its webui did not answer this once and the prompt will be back.
Verified ==
  /\ run.phase = "live" /\ run.mfa \in {"wait", "done"} /\ run.prompted /\ ~stop
  /\ run' = [run EXCEPT !.prompted = FALSE]
  /\ SetState("syncing")
  /\ UNCHANGED <<pc, manual, left, pairs, stop, next, lastSync, libs, files, now, history>>

\* The process ends by itself, at its timeout or terminated by the tick.
RunEnds ==
  /\ run.phase = "live"
  /\ \E p \in {"ok", "failed"} :
       /\ p = "ok" => SessionWorks
       /\ run' = [run EXCEPT !.phase = p]
  /\ AccountForRun
  /\ UNCHANGED <<pc, manual, left, pairs, state, stop, next, lastSync, libs,
                 keyring, jar, backup, now, history>>

\* An exception escapes the run (Popen or a tick): run_forever logs it.
Raise ==
  /\ "raise" \in Faults /\ run.phase = "live"
  /\ run' = NoRun
  /\ pc' = "top" /\ manual' = FALSE /\ left' = 0 /\ pairs' = FALSE
  /\ UNCHANGED <<memory, files, now, history>>

\* The rest of the environment ------------------------------------------------

\* A trust cookie expires between runs, or under a cycle in progress.
Expire ==
  /\ jar = "trusted"
  /\ pc \in {"down", "top", "wait", "due"} \/ "expire" \in Faults
  /\ jar' = "untrusted"
  /\ UNCHANGED <<control, memory, disk, unsaved, keyring, backup, now, history>>

\* Apple stops honouring a session whose cookie still has an expiry to come.
Revoke ==
  /\ "revoke" \in Faults /\ jar = "trusted"
  /\ jar' = "revoked"
  /\ UNCHANGED <<control, memory, disk, unsaved, keyring, backup, now, history>>

\* The operator's interactive init, in a process of its own.
OperatorInit ==
  /\ ~keyring
  /\ keyring' = TRUE
  /\ jar' \in {jar, "trusted"}
  /\ UNCHANGED <<control, memory, disk, unsaved, backup, now, history>>

Tick ==
  /\ now < MaxTime
  /\ now' = now + 1
  /\ UNCHANGED <<control, memory, files, history>>

\* Specification --------------------------------------------------------------

Init ==
  /\ pc = "down" /\ manual = FALSE /\ left = 0 /\ pairs = FALSE /\ run = NoRun
  /\ state = "starting" /\ stop = FALSE /\ next = 0
  /\ attempts = {} /\ lastSync = NoTime /\ libs = 0
  /\ disk = [attempts |-> {}, lastSync |-> NoTime]
  /\ keyring \in BOOLEAN /\ jar \in {"absent", "untrusted", "trusted"}
  /\ backup = "none"
  /\ now = 0 /\ signIns = << >> /\ seen = {} /\ lastAuto = NoTime /\ unsaved = {}

\* What the main thread does; a run in flight is part of it, since the tick
\* and the run's timeout end every run.
MainThread ==
  \/ LoopTop \/ NothingToDo \/ NotDue \/ SyncCommand \/ ReauthCommand \/ Due
  \/ LookupDone \/ NextLibrary \/ SyncDone \/ ReauthDone \/ RunEnds

Environment ==
  \/ SignIn \/ Prompt \/ CodeAccepted \/ Verified \/ Raise
  \/ Boot \/ Stop \/ Kill \/ Expire \/ Revoke \/ OperatorInit \/ Tick

Next == MainThread \/ Environment

Spec == Init /\ [][Next]_vars
FairSpec == Spec /\ WF_vars(MainThread)

-------------------------------------------------------------------------------
\* Properties

AtRest == pc \in {"top", "wait", "due"}
RecentSignIns == {n \in DOMAIN signIns : signIns[n] > now - Day}

\* Entries of the budget and the run in flight refer to sign-ins that happened.
Times == 0 .. now
Entries == [id : DOMAIN signIns, time : Times]
Disks == [attempts : SUBSET Entries, lastSync : {NoTime} \union Times]
Runs == [phase : {"none", "live", "ok", "failed"}, id : 0 .. Len(signIns),
         mfa : {"none", "wait", "done"}, prompted : BOOLEAN, recorded : BOOLEAN]

ControlType ==
  /\ pc \in {"down", "top", "wait", "due", "lookup", "sync", "auth"}
  /\ manual \in BOOLEAN /\ left \in Nat /\ pairs \in BOOLEAN /\ run \in Runs
MemoryType ==
  /\ state \in States /\ stop \in BOOLEAN /\ next \in Nat
  /\ attempts \subseteq Entries /\ lastSync \in {NoTime} \union Times /\ libs \in Nat
FilesType ==
  /\ disk \in Disks /\ keyring \in BOOLEAN /\ jar \in JarStates
  /\ backup \in {"none"} \union JarStates
HistoryType ==
  /\ now \in Nat /\ now <= MaxTime
  /\ signIns \in Seq(Nat) /\ Len(signIns) <= MaxSignIns
  /\ \A n \in DOMAIN signIns : signIns[n] <= now
  /\ seen \subseteq DOMAIN signIns /\ unsaved \subseteq DOMAIN signIns
  /\ lastAuto \in {NoTime} \union Times

\* Nothing is recorded or prompted before a sign-in; what a reauth backed up is there.
Coherent ==
  /\ run.id = 0 => run.mfa = "none" /\ ~run.recorded
  /\ pairs => pc = "auth" /\ backup # "none"

\* Every variable has its type, and no recorded time lies in the future (the
\* fields of scheduler.py and state.py).
TypeOK == ControlType /\ MemoryType /\ FilesType /\ HistoryType /\ Coherent

\* Apple never sees more than max_auth_per_day password sign-ins in a rolling
\* day, whatever the order of commands, schedule, restarts and prompts: the
\* promise of config.py's max_auth_per_day.
RollingBudget == Cardinality(RecentSignIns) <= MaxAuth

\* Between runs the persisted budget agrees with Apple: every sign-in of the
\* last day has an entry that is not older than it (_bridged_run, the tick).
CountedAtRest ==
  AtRest => \A n \in RecentSignIns :
              \E e \in attempts \cap disk.attempts : e.id = n /\ e.time >= signIns[n]

\* A sign-in is charged to the budget at most once, although both the prompt
\* and the rotated token announce it (_auth_recorded_this_run).
ChargedOnce == \A d, e \in attempts \union disk.attempts : d.id = e.id => d = e

\* A prompt once noticed stays on the books for a day through any kill,
\* restart or exception (the immediate record in _tick_during_run).  If the
\* state file cannot be written, memory keeps it while the process lives, and
\* the next save that works brings the file up to date (PersistedState.save).
PromptKept ==
  \A n \in seen : n \in RecentSignIns =>
    /\ n \notin unsaved => \E e \in disk.attempts : e.id = n
    /\ pc # "down" => \E e \in attempts : e.id = n

\* The schedule never launches icloudpd twice within a retry interval:
\* "Apple is never contacted in an unattended retry loop" (scheduler.py).
AutoLaunch == pc = "due" /\ pc' \in {"lookup", "sync"}
UnattendedSpacing ==
  [][AutoLaunch /\ lastAuto # NoTime => now >= lastAuto + Retry]_vars

\* A rate-limited supervisor's next try finds an attempt to spend: the time
\* run_sync_cycle computes is never a moment too early for _prune.
RetryFindsBudget ==
  state = "auth_rate_limited" /\ now >= next => ~BudgetSpent

\* A finished cycle or reauth leaves no "syncing" or "waiting_for_mfa" behind
\* for the status file, the report and the healthcheck to show.
StateAtRest == AtRest => state \notin {"starting", "syncing", "waiting_for_mfa"}

\* A due sync is served even if commands never stop arriving: each command is
\* followed by the schedule check of run_forever.
ScheduleServed == (pc # "down" /\ now >= next) ~> (pc = "down" \/ now < next)

\* SIGTERM ends the process whatever run is in flight (stop, the tick's abort).
StopEndsProcess == stop ~> (pc = "down")
=============================================================================
