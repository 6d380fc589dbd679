# Verification of icloudpd-supervisor

TLA+ models, TLC runs and machine-checked proofs for the program in
`src/supervisor/icloudpd_supervisor/`: a supervisor that runs icloudpd on a
schedule, relays Apple's two-factor prompts to Telegram and rations password
sign-ins so that Apple does not lock the account.

## 1. The system

| Part | Source | State it keeps | Operations |
|---|---|---|---|
| main loop, schedule, cycles | `scheduler.py` `run_forever`, `run_sync_cycle`, `_resolve_libraries`, `run_reauth` | `state`, `_stop`, `next_sync_time`, `_resolved_libraries` | take a command, start / refuse / finish a cycle or a reauth, stop |
| sign-in budget, persisted state | `state.py`, `_record_auth_attempt`, `_auth_budget_remaining` | `auth_attempts`, `last_sync_time`, in memory and in the state file | load, record, prune, save |
| runner | `runner.py` `run` | the child process, the session token before it | launch, tick each second, time out, terminate, compare tokens |
| two-factor bridge | `_tick_during_run`, `_handle_code_mid_run`, `_bridged_run`, `webui.py` | `_mfa_*`, `_pending_code`, `_auth_recorded_this_run`, `poll_urgency` | drain commands, look at the page, prompt, submit, report, give up |
| cookie and session files | `cookies.py`, `run_reauth` | the two files, their `.reauth-backup` copies | back up, unlink, restore, discard, recover at start |
| Telegram client and listener | `telegram.py` | update offset file, urgency flag (shared), command queue (shared) | poll, store the offset, parse, queue, send |
| command parser | `telegram.py` `parse_command` | none | pure function |
| configuration | `config.py` | none; reads the environment and the legacy file | look up, convert, validate |
| status file, healthcheck | `state.py` `StatusFile`, `main.py` `run_healthcheck` | status file, the times of its last refreshes | write, read its age |
| start-up, `init` | `main.py` | keyring, process identity | preflight, drop privileges, signal handler, interactive sign-in |

How they interact.  One thread runs the main loop and, inside it, one icloudpd
run at a time: the loop is blocked in `runner.run`, whose tick calls back into
the scheduler.  The listener thread only appends to the command queue and reads
the urgency flag.  The signal handler only sets `_stop`.  The status file goes
to the healthcheck's process, the state file and the cookie files to the next
incarnation of the container, and the cookie files also to icloudpd, which
writes them whenever Apple answers.

What is hard about it: sign-ins are seen only indirectly (a prompt, or a rotated
token once the run is over); the container can die between any two steps; the
page, Telegram and the user answer late, twice or not at all; and several
decisions are taken on one check for a long sequence of actions.

What makes the parts correct:

* budget: no more than `max_auth_per_day` sign-ins in any rolling day; each
  counted, none twice, none forgotten by a restart;
* schedule: no unattended retry loop, and yet every due sync is served;
* bridge: a code reaches the prompt it was meant for, a verdict reaches the
  user and a false one is taken back, every wait ends;
* files: no failure, death or left-over copy costs a working session;
* Telegram: every instance that shares a bot token gets the commands meant for
  it, soon, in order, once, and nobody else acts on them;
* life of the container: a supervisor that serves is not found unhealthy and
  restarted, one that hangs is.

## 2. Modules

| Module | Models |
|---|---|
| `Reauthentication` | what a reauth promises about the files a restart would find, as a specification |
| `Supervisor` | main loop, schedule, cycles, budget, restart; icloudpd, Apple, operator and container runtime as environment |
| `AuthFiles` | the cookie and session files, one file operation per step |
| `MfaBridge` | the tick, one step per HTTP exchange, against page, user, clock and Telegram |
| `CommandParser` | what a Telegram message means to an instance, as operators over words |
| `CommandFeed` | what the Telegram side promises, as a specification |
| `TelegramPolling` | the listeners of several supervisors on one bot token, against server, users and clock |
| `Configuration` | how environment, legacy file and defaults become a configuration, as operators |
| `Lifecycle` | start-up, the status file, healthcheck, Docker, autoheal, edits of the legacy file |
| `MCSupervisor`, `MCAuthFiles`, `MCMfaBridge`, `MCTelegramPolling`, `MCLifecycle` | constants for TLC |
| `SupervisorProofs`, `LedgerProofs`, `BudgetProofs`, `ScheduleProofs` | theorems about `Supervisor`: types; the books under every fault; the budget; state, spacing, retry |
| `AuthFilesProofs`, `MfaBridgeProofs`, `TelegramProofs`, `LifecycleProofs` | theorems about the module each is named for |

`TelegramPolling` implements `CommandFeed` (`FeedKept`), whose variables are
histories of its own.  `AuthFiles` implements `Reauthentication` (`ReauthKept`) under a mapping that has
to be computed.  `TelegramPolling` is built on `CommandParser` and `Lifecycle`
on `Configuration`.  `AuthFiles` refines what `Supervisor` does in one step each
(`StartReauth`, `ReauthDone`, the recovery in `Boot`), and `MfaBridge` refines
its `Prompt`, `CodeAccepted`, `Verified` and `RunEnds`; both are separate
modules because their interleavings do not interact with the schedule.

### Supervisor

The program counter `pc` is where the main thread is: `down`, at the `top` of
the loop, at `commands.get` (`wait`), at the schedule check (`due`), or in a run
for the library `lookup`, a `sync` or a reauth (`auth`).  `run` is the icloudpd
run in flight: did it sign in (`id`), does it wait for a code (`mfa`), has the
tick noticed (`prompted`), is it on the books (`recorded`).  `attempts`,
`lastSync` and `next` are the fields of the same meaning; `disk` is the state
file.  `jar` is the pair of cookie and session, `backup` its copy.

| Actions | Code |
|---|---|
| `Boot`, `Stop`, `Kill`, `LoopTop` | `Supervisor.__init__`, `stop`, death of the container, `while not self._stop` |
| `NothingToDo`, `NotDue`, `SyncCommand`, `ReauthCommand`, `Due` | the body of `run_forever` |
| `RefuseKeyring`, `RefuseBudget`, `StartCycle`, `LookupDone`, `NextLibrary`, `SyncDone`, `FinishCycle` | `run_sync_cycle`, `_resolve_libraries`, `_finish_cycle` |
| `RefuseReauth`, `StartReauth`, `ReauthDone` | `run_reauth` |
| `Prompt`, `Verified`, `RunEnds`, `Raise` | the tick, `_bridged_run`, the loop's `except` |
| `Save` (part of the actions that save) | `PersistedState.save` |
| `SignIn`, `CodeAccepted`, `Expire`, `Revoke`, `OperatorInit`, `Tick` | icloudpd, Apple, the operator, the clock |

Decisions worth knowing.  An entry of the budget carries the number of the
sign-in it was recorded for; the code stores only the time, and no guard reads
the number.  `Verified` may also happen while icloudpd still waits, because the
code takes an unreachable page for a verified code (finding `false_success`).
After an unattended cycle the same iteration of the loop warns of an expiring
cookie; since that only saves the state file again, the model leaves it to the
`NotDue` that ends the next iteration.  A sign-in is one that rotates the
session token, as `runner.py` assumes.  The operator's own `init` signs in by
hand and is not counted, in the code or in the model's history.  A run needs its
session to work in order to succeed.

`Faults` chooses what may go wrong: `kill`, `raise` (an exception escapes a run),
`revoke` (Apple drops a session whose cookie is in date), `expire` (a cookie
expires inside a cycle) and `nosave` (the state file cannot be written, which the
code only logs).  With `nosave` memory and disk part ways: `unsaved` is the set
of sign-ins recorded since the last save that worked, and a process that ends
takes them out of `seen`, the prompts somebody still knows of.

### AuthFiles

`pc` is the loop that runs, `todo` the files it still has to visit, the cookie
first, and `step` how far the visit is.
`write_bytes` is two steps: the file is truncated, then written.  The content of
a file is what sign-in number `gen` left before (`half`) or after (`good`) the
second factor.  icloudpd writes the session file in its first step, which
`runner.py` relies on ("every response persists ... into it").

`Reauthentication` knows neither copies nor loops.  It speaks of the version of
each file that a restart would find: `Restarted` is the original, or its copy if
the original is missing or truncated, which is what `recover_stale_backups`
decides.  `Stage` says whether a reauth is running, failing or settled, and
`Aside` names the files that a restart finds only in a copy.  Only icloudpd and
the putting back after a failure may change `Restarted`; every other step of the
loops, and every death between them, has to leave it alone.

### MfaBridge

`pc` is `rest` between runs, `wait` in `process.wait`, and `drain`, `look`,
`react`, `handover` inside the tick: commands are taken one per step, the page
is fetched in a step of its own and what the tick decides is decided on that
snapshot, so icloudpd, the user and the clock may move in between.  `flow` holds
the `_mfa_*` fields and the buffered code, `age` the three time differences the
tick compares, capped one above the limit they are compared with.  `told` is the
last verdict the user was sent in this run.  icloudpd does not go on from its
prompt without a code, as `webui.py` states and the code relies on, and it only
ends well with nothing left to ask; but it may fail or crash anywhere (`Finish`),
at its prompt and while it verifies a code too.  How a run ends decides what is
reported of it (`Reports`): a run that took too long (`BeginTick`, `Terminate`) is
passed over, one aborted by a stop (`StopTick`) is reported like a failure, and
either only if no prompt is on the books.

### TelegramPolling, CommandParser, CommandFeed

An update is its position in `log`.  The server keeps what lies above
`confirmed`, the highest offset anybody asked beyond; a poll confirms first and
is answered with all the rest (`getUpdates` would cut at 100, which the bounds
do not reach).  Each listener is `off`, in its `wait` or `backoff`, or on its way
from a good poll to the queue: `store` and `write` are the truncation of the
offset file and the new contents, with a kill or an `OSError` possible before,
between and after, and `queue` hands the texts over one per step.  The urgency
flag is set and cleared by the supervisor at any time (`SetUrgency`).

| Actions | Code |
|---|---|
| `PollOk`, `PollFails` | `poll_updates`: request and answer; a failure also after the server acted |
| `Truncate`, `Write`, `StoreFails` | `_store_offset`; `Requested` is `_load_offset` plus one |
| `Queue`, `BeginWait` | `TelegramListener.run`: parse and put, then wait by the urgency |
| `Start`, `Kill`, `SetUrgency` | `run_supervisor`, death, `poll_urgency` in `scheduler.py` |

The other variables are histories of what the properties speak of: `age` (how
long a message has been waited for since a good poll), `misses` (failed polls in
a row), `urgentFor`, `rivals` (who was served since this instance was),
`excused` (overtaken by a rival between two of its polls, or killed with a
message in hand) and `exact` (instances whose offset could always be stored).

`Hear` is `parse_command` with the alias and the prefix rule that
`run_supervisor` gives an instance, over texts that are sequences of words: only
the first word is compared with the aliases.  `Advertised` is what `_send_help`
tells the user to send.

### Lifecycle, Configuration

The question is time, so every place where the main thread blocks has a longest
duration: `left` is what is left of it, the thread may go on at any moment
before, and the clock cannot pass it.  `pc` follows `run_forever`
(`greet`, `wait`, `answer`, `order`, `due`, `warn`), a run with its tick (`run`,
`tick`, `page`, `reply`, `success`, `end`, `close`), the message of a lookup that
found no shared library (`resolve`), the `report` of a cycle, and what the loop cannot leave: `hung` in `process.wait` after a kill that does not
take, and `paused`, the `signal.pause` after a failed preflight.  `beacon` is the
age of the status file, `tickAge` and `loopAge` those of the two rate limits on
refreshing it.

Two things have no bound in the code: exceptions that come again before the next
write of the status file (`Raise` may come at any place of the iteration, also
before a cycle's first write), and the commands that one tick answers (`Drain`).
Either puts the write off for as long as it goes on.  `lapse` follows them: it is
`raised` after an exception with no write since, `open` after another one or after
more than `Burst` commands in a tick, `mended` once the status file is written
again, and `none` once a healthcheck has seen that.  The properties hold through
the first exception and through `Burst` commands, and excuse the rest openly.

| Actions | Code |
|---|---|
| `Start`, `Greeted` | `load_config`, `_preflight`, `run_supervisor`; the first messages and status write |
| `NoCommand`, `Command`, `Answered`, `NotDue`, `Warned`, `Logged` | the loop of `run_forever` with its refresh every 10 s, and its `except` |
| `Refuse`, `Launch`, `NoneShared`, `NextRun`, `Report`, `Finish` | `run_sync_cycle`, `_resolve_libraries`, `run_reauth`, `_finish_cycle` |
| `Tick`, `Drain`, `Look`, `Prompted`, `Told`, `Verified`, `Abort`, `TickDone` | `_tick_during_run` with its refresh every 60 s |
| `RunEnds`, `Raise`, `Hang` | `runner.run` |
| `Check`, inside `Clock` | `run_healthcheck` and Docker's count of failures in a row |
| `Kill`, `Autoheal`, `Edit` | container runtime, companion, operator |

A source of settings is a function from keys to texts, with the empty text for a
missing key, as the code treats them.  `Get` is the precedence (environment in
lower case, in upper case, legacy file), `Parsed` the `Config`, `Valid` and
`Loads` the checks.  Two of the numbers stand for all: one that the legacy file
knows and one that it does not.

## 3. Runs

| Run | Module, bounds | Shows |
|---|---|---|
| `supervisor` | budget 1 and 2 libraries, day 3, interval 2, retry 1, 5 time units, 3 sign-ins; no faults | `RollingBudget`, `CountedAtRest`, `RetryFindsBudget`, `UnattendedSpacing`, `StateAtRest`, `ScheduleServed`, `StopEndsProcess` |
| `supervisor_faults` | budget 1, a lookup that finds no shared library beside the personal one, day and interval 2, retry 1, 2 time units, 2 sign-ins; `kill`, `raise`, `revoke`, `nosave` | `ChargedOnce`, `PromptKept` |
| `authfiles` | 3 sign-ins or reauths, exceptions, death at any step but inside the restore | `OldFilesSurvive`, `TornCopyNotAlone`, `FailureRestores`, `SuccessStays`, `UntouchedRecovered`, `ReauthKept` |
| `mfabridge` | 2 messages per run, queue of 2, timeout 2, lost POSTs, unreachable Telegram, exceptions; an icloudpd that fails anywhere | `VerdictAwaited`, `SuccessRetracted`, `EarlyCodeUsed`, `EarlyCodeKept`, `HeldCodeIsFresh`, `NoSecondReport`, `PromptEnds`, `VerdictArrives` |
| `telegram` | a named and an unnamed instance in one chat, 2 messages, interval 2, urgent interval 1, back-off 1; the one is killed, fails to store and hurries, the polls of the other fail | `FeedKept`, `Delivered`, `OneTaker`, `HelpUnderstood`, `CommandLatency`, `UrgentLatency` |
| `lifecycle` | the code's own durations in steps of 20 s, 2 commands in a tick and more, 3 runs per cycle, 4 legacy files; kills, exceptions, a hung child, a failed preflight | `BeaconFresh`, `NeverCondemned`, `HangReported` |
| `lookup_overspends`, `killed_signin`, `restart_syncs`, `killed_reauth`, `false_success`, `silent_failure` | the smallest instances that show them; `killed_reauth` lets the container die at every step, the restore included | section 5 |

The first run of each module also checks its `TypeOK`.  The exact constants are in
the `.cfg` files and the `MC` modules.

Why the bounds are enough. In `supervisor` the day is longer than the interval
and the interval longer than the retry, as in the program, so that an attempt
can age out, a cycle can come due before it does, and a refused cycle can be
tried twice; the clock runs past a full day. In `supervisor_faults` the clock
just reaches the day, so that the first attempt ages out, and the two properties
speak of no interval; a cookie that expires inside a cycle and
libraries that only the lookup finds are left to the theorems, which include
them, to keep the run small. More sign-ins than the budget
are allowed, which is what a violation needs. Two libraries give a cycle with a
next one. In `authfiles` three generations give a failed reauth, the copy it
leaves behind and a later success. In `mfabridge` the ages saturate, so runs
follow each other without end; two messages are a code before and one after the
prompt, or a wrong and a right one.

In `telegram` two instances are what it takes to overtake one another; two
messages give an order, a message behind one in hand, and one that is meant for
one instance next to one that is meant for the other.  `age` counts up to two
of the longest pauses and a back-off plus one, beyond every limit the properties
name; the longest pause is the urgent interval where `telegram_poll_interval` is
shorter than it, which the configuration allows and the theorems include.  The
clock has no bound.  `MaxTaken` stops store failures after one command was
queued, since each lets a command be taken once more and the histories grow
without end; more messages and failures are covered by the theorems.

In `lifecycle` durations are rounded up to steps of 20 s: the limit of 900 s is
45, a refresh every 60 s is `TickGap` 3, every 10 s `LoopGap` 1, a message (30 s
to connect and 30 s to answer) 3, a request to the page 1, ending icloudpd (15 s
until the kill) or waiting for its output (10 s) 1 each, a wait 1, the healthcheck
3 retries of 60 s.  With three runs in a cycle and two commands answered in one
tick while Telegram hangs, and with one exception, the oldest beacon TLC finds is
42 steps; the bound of the proof, `LongestGap` in `LifecycleProofs`, is 43, since
it adds up the worst of each place.  A fourth run costs two steps more and
another command in the tick four, so the limit of 45 is not met by much.

In `supervisor` the clock stops at `MaxTime` and sign-ins at `MaxSignIns`; the
leads-to properties do not need either to go on.  Deadlock is checked in all
passing runs.

### Fairness

`Supervisor!FairSpec` is weak fairness of the main thread alone, a run in flight
included: every run ends, because icloudpd ends, the tick aborts it or its
timeout (24 h for a sync, `mfa_timeout` plus some minutes otherwise) does.
Nothing is assumed of the user, of Apple or of the clock, so `ScheduleServed`
and `StopEndsProcess` hold whatever they do.  `MfaBridge!FairSpec` adds the clock
(needed for a deadline) and icloudpd's answer to a submitted code (needed only by
`VerdictArrives`); `PromptEnds` holds although the user may stay silent for ever.
`Lifecycle!Spec` asks only that time passes and that the autoheal companion
restarts what Docker calls unhealthy, which `HangReported` needs; the main thread
needs no fairness, since the clock waits for it.  `TelegramPolling` has none: its
latencies are bounds on `age`, and the clock waits for a listener that does not
rest.

## 4. Proofs

All theorems hold for all values of the constants.

| Theorem | Property | Assumes of the faults |
|---|---|---|
| `TypeCorrect` | `TypeOK` of `Supervisor` | nothing |
| `BudgetKept` | `RollingBudget` | none at all, and no lookup |
| `CeilingKept` | at most `Ceiling` sign-ins in a day, the budget or, with a lookup, one more | none at all |
| `BooksAgree` | `CountedAtRest` | no kill, exception or failing save |
| `BooksNeverOverrun`, `PromptsNeverOverrun` | at most `Ceiling` live entries in memory and on disk, and noticed prompts in a day | no revoked or expiring session in a run |
| `NeverChargedTwice`, `PromptNeverLost` | `ChargedOnce`, `PromptKept` | nothing |
| `StateHonest` | `StateAtRest` | no exception |
| `CyclesSpaced` | `UnattendedSpacing` | no kill, exception or failing save |
| `RetrySucceeds` | `RetryFindsBudget` | no revoked or expiring session in a run, no lookup, a budget above 0 |
| `PollingTypes`, `FeedImplemented`, `EveryMessageSeen`, `TakenByOne`, `HelpHonest`, `CommandsInTime`, `CodesInTime` | the properties of `TelegramPolling` | nothing |
| `LifecycleTypes` | `TypeOK` of `Lifecycle` | nothing |
| `FileTypes`, `OldVersionsSurvive`, `TornCopyHarmless`, `FailureUndone`, `SuccessIsFinal`, `UntouchedReturns`, `ReauthImplemented` | the invariants of `AuthFiles`, `ReauthKept` | no death inside a restore or a recovery |
| `DiscardSound` | `DiscardMeansFinished` | no exception, and no death inside the run, a restore or a recovery |
| `BridgeTypes`, `EarlyCodeNotLeft`, `EarlyCodeNotLost`, `HeldCodeFresh`, `OneReport` | `TypeOK`, `EarlyCodeUsed`, `EarlyCodeKept`, `HeldCodeIsFresh`, `NoSecondReport` of `MfaBridge` | nothing |
| `SuccessAfterVerdict`, `FalseSuccessRetracted` | `VerdictAwaited`, `SuccessRetracted` | no look at the page fails while there is a page |
| `BeaconNeverStale` | `BeaconFresh` | the longest gap fits into the limit |
| `UnhealthyForCause` | `NeverCondemned` | the same, and two messages are shorter than the healthcheck's retries |
| `HangCountedDown` | a hang is reported within `Patience`, each step of time brings it closer | nothing |

Where a fault is excluded the property is false with it, and TLC shows it: the
faults of `BudgetKept`, `BooksAgree` and `DiscardSound` were let in one at a time,
and each of them alone breaks the property.  `killed_signin` and
`lookup_overspends` keep two of these for the budget, `restart_syncs` one for the
spacing, `killed_reauth` one for the copies and `false_success` the one for the
success message (`VerdictAwaited` is the part of its property that needs only that
fault to stay away).  A death inside the loop that writes an original back leaves
that original truncated, which the next start takes for complete.  The converse
is the use of `CeilingKept`, `PromptsNeverOverrun`, `DiscardSound`,
`SuccessAfterVerdict` and `FalseSuccessRetracted`: they bound how far the findings
of section 5 can go.

**Types.**  `TypeOK` of `Supervisor` needs two facts beyond the types
(`Coherent`): nothing is recorded or prompted before a sign-in, and what a reauth
backed up is there.

**Books.**  `LedgerInv` holds under every fault.  A run that is still to be
recorded has no entry (`NotYetEntered`), so it never gets a second; an entry of a
noticed prompt is not older than its sign-in (`PromptsEntered`), so pruning drops
it only when the sign-in has aged out; and a noticed run is recorded, so that a
kill, an exception or a failing save cannot come between the two.

**Budget.**  `RollingBudget` speaks of sign-ins, the code of entries, so it is
not inductive.  The proof goes in two halves, which need different faults to stay
away.  `BooksInv` limits the entries, while Apple keeps to the cookie's date:

* `BooksBounded`: memory and disk each hold no more than `Ceiling` live entries;
* `RoomToRecord`: what is in flight and not recorded, and what may still sign in
  because the jar is not trusted, was launched with room for its entry, and
  nothing was recorded since.  The room is `Allowance`: `MaxAuth`, or `Ceiling` in
  the sync after a lookup, which may find the budget spent by that lookup;
* `RoomAfterLookup`: as long as the lookup may sign in, that sync has room too;
* `Honoured`: a run that succeeded left a trusted jar, so the next library of the
  cycle does not sign in, and no jar or copy is revoked.

`CountInv` says that the entries are the sign-ins, as long as no process dies and
every save works: memory and disk agree on the last day (`MemoryAgrees`), and each
sign-in of the last day has an entry not older than it, except the one in flight
(`AllEntered`).  Sign-ins of the last day then inject into live entries, with room
for one that is not entered yet (`SignInsWithinCeiling`); that is `CeilingKept`,
and `BudgetKept` where no lookup raises the ceiling.  Without `CountInv` the same
injection still takes the prompts that were noticed, by `PromptsEntered`
(`PromptsNeverOverrun`).

**Schedule.**  `SpacingInv`: outside a cycle the sync on record is no older than
the last unattended launch, in memory and on disk, and the next is due a retry
interval after it; a restart computes its schedule from the disk and finds the
same.  For `RetrySucceeds`: by `BooksInv` the books never hold more entries than
the budget when a run is refused; a budget that is still spent has then lost no
entry, and the one the next try waits for is still among them (`WorthWaiting`),
until the very moment `_prune` drops it.

**Files.**  `FilesInv`: an original is torn only while it is being written back
from a good copy (`OnlyRestoringTears`), a copy only while it is being written or
when the container died there, with its original intact (`OnlyDeathLeavesTorn`);
`UnderWay` follows the reauth through its loops and `Outcomes` says what failure,
death and success leave.  `OldFilesSurvive` is not inductive without them: the loop
that unlinks relies on the copies of the loop before.  For `ReauthImplemented`
every action falls into one of four kinds: it leaves `Restarted` alone (copying,
unlinking, discarding, dying), it writes an original back, it ends a reauth, or
it is icloudpd's own; the steps that are invisible are so because of `UnderWay`,
which says that an original is unlinked only when its copy is whole.
`Superseded` says whose copies are left at each place: behind a death only those
of a reauth that succeeded or had not yet started icloudpd, if nothing ends
icloudpd's run before it is over.

**Bridge.**  `FlowInv`: a held code and a noticed prompt exclude each other except
in the handover (`Holding`), and after the deadline nothing happens but the end of
the run (`TimedOut`).  `SuccessInv`: as long as its process lives, a submission
Apple did not take is being verified or is rejected on the page (`Pending`), so a
later look without a prompt comes after the verdict or at a process that is gone
(`SeenAfter`).  That the page may move on between look and reaction is what makes
the second part necessary.  A process whose code was accepted asks for nothing any
more (`Settled`), so after a success no prompt is on the books nor about to be seen
(`SuccessFinal`): nothing then suppresses the report of a failure, and a user who
was told of a success too early hears that the run failed (`SuccessRetracted`).

**Telegram.**  `FeedInv`: what an instance has taken lies below what it holds and,
if its offsets were stored, below its offset or its batch, through the empty file
between truncation and write; that makes the next command newer than all before.
`ServedInv`: a message below `confirmed` was dropped by the instance itself, which
then has it, or by a rival that came between.  `LateInv` bounds the age of what
waits by what has passed of the current wait or back-off (`Timing`, `OnTime`), each
of them at most `LongestPause`, whichever of the two intervals is the longer.

**Lifecycle.**  `FreshInv` bounds at each place the beacon's age plus the rest of
the block (`Timely`): by the worst way there since the last write with one
exception on it (`Within`, `LongestGap`), and in the loop, if there was none, by the
refresh at its end (`Quick`), which needs that a refresh was left out only because
the beacon was written not long ago (`Refreshed`).  `Within` says nothing while
`lapse` is `open`; the next write restores it.  `CalmInv` counts failed healthchecks
by the time the beacon has been stale: as long as writes are `InOrder` they can only
fail in a new life before its first write, which comes after at most two messages,
less than `Retries` intervals of the healthcheck.  `Countdown` is the measure behind `HangReported`: while the thread hangs,
each step of time lowers it and nothing else touches it, so the container is
unhealthy after `Patience` at the latest.

Only model-checked: all liveness (`ScheduleServed`, `StopEndsProcess`,
`PromptEnds`, `VerdictArrives`, `HangReported`), because fairness and `ENABLED` are
outside what the proof system can do here.  Of `HangReported` the theorem
`HangCountedDown` proves everything but that time passes and autoheal acts.

## 5. Findings

1. `lookup_overspends` - the budget is checked once per cycle, but lookup and
   sync can both sign in.  It costs one sign-in, never two (`CeilingKept`).
2. `killed_signin` - a sign-in without a noticed prompt is recorded only when its
   run is over; a death before that forgets it.  A sign-in whose prompt was
   noticed is not forgotten, unless its save fails as well (`PromptNeverLost`).
3. `restart_syncs` - a container that died inside a cycle syncs again at once.
4. `killed_reauth` - icloudpd writes both files while it signs in; a reauth killed
   while it waits for the code leaves them half signed-in, and the recovery takes
   such a file for the end of the reauth and discards its good copy.  In the
   shortest trace it is the cookie's, the session file having been absent before.
   `DiscardSound` shows which other ways there are: an exception out of the run, and
   a death in a loop that writes an original back.
5. `false_success` - a page that does not answer after a submission is reported as
   a successful authentication: because one look failed, or because icloudpd died
   while it verified the code.  In the second case the failure of the run follows
   (`FalseSuccessRetracted`); in the first it may not.
6. `silent_failure` - a run that fails by itself while a prompt is on the books goes
   unreported: a crash of icloudpd at its prompt, while it verifies a code, or after
   Apple took it and before the next look at the page.

Each quotes, in `PROJECT.json`, the line of the repository it contradicts.

Observed on the way, without a run of its own:

* An exception that escapes a run leaves `next_sync_time` in the past and skips
  the accounting of the run; the loop launches icloudpd again after its 5 s.
  `UnattendedSpacing` is false with the fault `raise` as it is with `kill`.
* After a failed preflight `main.py:217` waits in `signal.pause` without a status
  file, so the healthcheck fails and an autoheal companion restarts the container
  into the same failure, the loop the comment at `main.py:214-215` and
  `docs/legacy-audit.md:132` want to avoid, and which `supervisor/README.md:19` says
  does not exist.  `NeverCondemned` exempts it (`paused`).
* Two other ways lead to the same restart.  An exception that returns in every
  iteration before a cycle's first write (the `stat` of the keyring at
  `scheduler.py:421`, say) also skips the refresh at `scheduler.py:584`, so a loop
  that is alive and messages its user is found unhealthy.  And a tick that answers
  commands while Telegram hangs (`scheduler.py:192`) writes nothing until the queue
  is empty.  `BeaconFresh` and `NeverCondemned` exempt both (`lapse`) up to the next
  write; within one exception and `Burst` commands they hold.
* An instance whose name has a blank understands none of the commands its help
  advertises, since the parser compares one word.  `HelpUnderstood` is stated for
  names of one word; `validate` lets the others through.
* An instance named like a command ("sync", "help") shares its first word with that
  command of an unnamed instance in the same chat; `NamesApart` leaves such pairs
  out, `validate` does not.
* A POST to the page whose answer is lost was carried out, but is not noted
  (`_mfa_submitted_at` stays empty): the model has it, and every wait still ends, but
  no property follows what the status file says of it meanwhile.
* A code that is still in the queue when a run starts is taken for one of that run,
  whenever it was sent; `HeldCodeIsFresh` counts from the moment it is taken.
* `StopEndsProcess` says that a stop ends the process, not that it does so within
  Docker's stop timeout.
* A legacy file that stops loading makes the healthcheck succeed whatever the
  main thread does; `HangReported` exempts it.

## 6. Not modelled, and the plan

Not modelled:

* argument lists and output parsing of icloudpd, HTML markers, privileges,
  logging, message wording, image and CI: pure I/O or data no property tells
  apart;
* a status file that cannot be written, and a listener thread that dies of an
  unexpected exception: the code has no handling to model, the first is only
  logged, the second silent;
* a corrupt state file, which the atomic replacement of `save` does not leave
  behind and which `load` reads as a fresh one;
* steps of the wall clock: the budget and the schedule are both kept in wall-clock
  time, and the model has no other;
* `telegram_poll_interval` of 0 or less, which `validate` accepts: a listener that
  polls without rest.

Next, in this order:

1. Steps of the wall clock and a lost state file as faults of `Supervisor`, with a
   second, true clock for the history.
2. `Reauthentication` as the step of `Supervisor`: a mapping between `Restarted`
   and the pair of `jar` and `backup`, so that the two proofs meet.
3. The queue between `TelegramPolling` and `MfaBridge` composed, for the latency
   of a code from the chat to Apple.
