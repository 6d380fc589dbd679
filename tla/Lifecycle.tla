------------------------------ MODULE Lifecycle ------------------------------
(***************************************************************************)
(* The life of a container: start-up and preflight (main.py), the liveness *)
(* beacon that the main thread leaves in the status file (state.py         *)
(* StatusFile, scheduler.py), the healthcheck that reads it in a process   *)
(* of its own and, around them, Docker, an autoheal companion and the      *)
(* operator.                                                               *)
(*                                                                         *)
(* Where the main thread blocks, left is how long it may still do so: it   *)
(* goes on at any moment before that, and at the latest then.              *)
(***************************************************************************)
EXTENDS Configuration

CONSTANTS
  Limit,        \* 900 s: an older beacon is stale
  TickGap,      \* 60 s: the refresh while icloudpd runs
  LoopGap,      \* 10 s: the refresh in the loop
  Message,      \* the longest request to Telegram
  Request,      \* the longest request to icloudpd's page
  Ending,       \* the longest wait for icloudpd to end, or for its last output
  Pause,        \* a wait of 1 s, or the 5 s after an exception
  Burst,        \* the commands of one tick that the refresh can wait for
  Runs,         \* bound: the runs of a cycle, the library lookup included
  Probe,        \* the healthcheck's interval
  Retries,      \* so many failures in a row make a container unhealthy
  StartPeriod,  \* failures before it is over do not count
  Lower, Upper, \* the environment of the container
  Files,        \* the legacy files the operator may leave
  Faults        \* which of kill, raise, hang and preflight happen

ASSUME DurationsAssumption ==
  /\ Limit \in Nat /\ TickGap \in Nat /\ LoopGap \in Nat /\ LoopGap <= TickGap
  /\ Message \in Nat /\ Request \in Nat /\ Ending \in Nat /\ Pause \in Nat
  /\ Burst \in Nat /\ Runs \in Nat \ {0}
  /\ Probe \in Nat \ {0} /\ Retries \in Nat \ {0} /\ StartPeriod \in Nat

VARIABLES
  pc,       \* where the main thread is; off while the container is down
  left,     \* how long it may still block there
  runs,     \* the runs begun in this cycle
  manual,   \* is this the cycle or the answer of a command?
  config,   \* the configuration of the process
  file,     \* the legacy file
  loads,    \* does load_config accept it?
  beacon,   \* the age of updated_at up to Limit + 1, which also stands for no status file
  tickAge,  \* since _last_tick_status_write, up to TickGap + 1
  loopAge,  \* since last_status_write, up to LoopGap + 1
  lapse,    \* history: an exception since the last write; a write put off; failed checks of that
  burst,    \* the commands drained in this tick, up to Burst
  probeIn,  \* until the next healthcheck
  failing,  \* failed healthchecks in a row
  up        \* since the container started, up to StartPeriod

thread == <<pc, left, runs, manual>>
volume == <<file, loads>>
ages == <<beacon, tickAge, loopAge, lapse>>
docker == <<probeIn, failing, up>>
vars == <<thread, config, volume, ages, burst, docker>>

\* What load_config reads.
Settings(f) == [lower |-> Lower, upper |-> Upper, file |-> f]

\* Every state of the supervisor is meant to be healthy.
InCycle == {"run", "tick", "page", "reply", "success", "end", "close", "resolve", "report"}
Iteration == {"answer", "order", "due", "warn"} \union InCycle
Serving == {"wait", "error"} \union Iteration

\* No configuration yet.
Unread == [telegram |-> FALSE]

Block(p, most) == pc' = p /\ left' = most
\* notify sends nothing without Telegram.
Messages(n) == IF config.telegram THEN n * Message ELSE 0
Written ==
  /\ beacon' = 0
  /\ lapse' = CASE lapse = "raised" -> "none" [] lapse = "open" -> "mended" [] OTHER -> lapse
WriteStatus == Written /\ UNCHANGED <<tickAge, loopAge>>

\* Start-up ----------------------------------------------------------------------

\* load_config, _preflight and run_supervisor, up to the messages that
\* run_forever begins with.  With a configuration error the process exits and
\* Docker starts it again; the status file of the last life is still there.
Start ==
  /\ pc = "off" /\ loads
  /\ config' = Parsed(Settings(file))
  /\ \/ /\ Block("greet", IF config'.telegram THEN 2 * Message ELSE 0)
        /\ tickAge' = TickGap + 1 /\ loopAge' = LoopGap + 1
     \/ "preflight" \in Faults /\ Block("paused", 0) /\ UNCHANGED <<tickAge, loopAge>>
  /\ UNCHANGED <<runs, manual, volume, beacon, lapse, burst, docker>>

Greeted ==
  /\ pc = "greet"
  /\ Block("wait", Pause) /\ WriteStatus
  /\ UNCHANGED <<runs, manual, config, volume, burst, docker>>

\* The loop ------------------------------------------------------------------------

\* commands.get times out.
NoCommand ==
  /\ pc = "wait"
  /\ Block("due", 0)
  /\ UNCHANGED <<runs, manual, config, volume, ages, burst, docker>>

\* status, help, a stray code, and a reauth without budget; or sync and reauth.
Command ==
  /\ pc = "wait" /\ config.telegram
  /\ \E p \in {"answer", "order"} : Block(p, Messages(1))
  /\ manual' = TRUE
  /\ UNCHANGED <<runs, config, volume, ages, burst, docker>>

\* The rest of the iteration: the schedule is looked at after a command.
\* Mutant: the next cycle still counts as the command's.
ResumeManual ==
  Block(IF manual THEN "due" ELSE "warn", IF manual THEN 0 ELSE Messages(1)) /\ UNCHANGED manual
Resume ==
  /\ Block(IF manual THEN "due" ELSE "warn", IF manual THEN 0 ELSE Messages(1))
  /\ manual' = FALSE

Answered ==
  /\ pc = "answer"
  /\ Resume
  /\ UNCHANGED <<runs, config, volume, ages, burst, docker>>

\* Of the schedule only that a cycle may be due is of interest here.
NotDue ==
  /\ pc = "due"
  /\ Block("warn", Messages(1))
  /\ UNCHANGED <<runs, manual, config, volume, ages, burst, docker>>

\* The end of the iteration: the cookie's expiry, and the refresh.
Warned ==
  /\ pc = "warn"
  /\ Block("wait", Pause)
  /\ IF loopAge > LoopGap THEN Written /\ loopAge' = 0 /\ UNCHANGED tickAge
     ELSE UNCHANGED ages
  /\ UNCHANGED <<runs, manual, config, volume, burst, docker>>

\* Cycles and runs -----------------------------------------------------------------

\* No password is stored, or the budget is spent.
Refuse ==
  /\ pc \in {"order", "due"}
  /\ Block("answer", Messages(1)) /\ WriteStatus
  /\ UNCHANGED <<runs, manual, config, volume, burst, docker>>

Launch ==
  /\ pc \in {"order", "due"}
  /\ Block("run", Pause) /\ runs' = 1 /\ WriteStatus
  /\ UNCHANGED <<manual, config, volume, burst, docker>>

\* The tick refreshes the beacon first.  Mutant: it does not.
TickSilently ==
  /\ pc = "run"
  /\ Block("tick", 0) /\ burst' = 0
  /\ UNCHANGED <<runs, manual, config, volume, ages, docker>>

Tick ==
  /\ pc = "run"
  /\ Block("tick", 0) /\ burst' = 0
  /\ IF tickAge > TickGap THEN Written /\ tickAge' = 0 /\ UNCHANGED loopAge
     ELSE UNCHANGED ages
  /\ UNCHANGED <<runs, manual, config, volume, docker>>

\* A command is answered, a code is posted too, as many as there are; after Burst
\* of them the refresh is put off.
Drain ==
  /\ pc = "tick" /\ config.telegram
  /\ Block("tick", Request + Messages(1))
  /\ \/ burst < Burst /\ burst' = burst + 1 /\ UNCHANGED lapse
     \/ burst = Burst /\ lapse' = "open" /\ UNCHANGED burst
  /\ UNCHANGED <<runs, manual, config, volume, beacon, tickAge, loopAge, docker>>

Look ==
  /\ pc = "tick"
  /\ Block("page", Request) /\ burst' = 0
  /\ UNCHANGED <<runs, manual, config, volume, ages, docker>>

\* A prompt: it is announced, and a code that was waiting is posted.
Prompted ==
  /\ pc = "page"
  /\ Block("reply", Messages(2) + Request) /\ WriteStatus
  /\ UNCHANGED <<runs, manual, config, volume, burst, docker>>

\* A rejection, a second attempt at the prompt, or nothing at all.
Told ==
  /\ pc = "page"
  /\ Block("reply", Messages(2))
  /\ UNCHANGED <<runs, manual, config, volume, ages, burst, docker>>

Verified ==
  /\ pc = "page"
  /\ Block("success", Messages(1))
  /\ UNCHANGED <<runs, manual, config, volume, ages, burst, docker>>

\* The wait for a code is over, icloudpd wants the password, or we are stopping.
Abort ==
  /\ pc = "page"
  /\ Block("end", Messages(2) + Ending)
  /\ UNCHANGED <<runs, manual, config, volume, ages, burst, docker>>

\* The run goes on, or is terminated for having taken too long.
TickDone ==
  /\ \/ pc = "reply" /\ UNCHANGED ages
     \/ pc = "success" /\ WriteStatus
  /\ Block("run", Pause) \/ Block("end", Ending)
  /\ UNCHANGED <<runs, manual, config, volume, burst, docker>>

RunEnds ==
  /\ pc \in {"run", "end"}
  /\ Block("close", Ending)
  /\ UNCHANGED <<runs, manual, config, volume, ages, burst, docker>>

\* The lookup found no shared library, which is told first.
NoneShared ==
  /\ pc = "close" /\ runs = 1
  /\ \E k \in DOMAIN config.libraries : config.libraries[k] = "shared"
  /\ Block("resolve", Messages(1))
  /\ UNCHANGED <<runs, manual, config, volume, ages, burst, docker>>

\* The next library's run starts without a word in the status file.
NextRun ==
  /\ pc \in {"close", "resolve"} /\ runs < Runs
  /\ Block("run", Pause) /\ runs' = runs + 1
  /\ UNCHANGED <<manual, config, volume, ages, burst, docker>>

\* The outcome of the cycle, or of the reauth, is told before it is noted.
Report ==
  /\ pc \in {"close", "resolve"}
  /\ Block("report", Messages(1))
  /\ UNCHANGED <<runs, manual, config, volume, ages, burst, docker>>

Finish ==
  /\ pc = "report"
  /\ Resume /\ runs' = 0 /\ WriteStatus
  /\ UNCHANGED <<config, volume, burst, docker>>

\* An exception escapes the iteration, the refresh at its end included: it is
\* logged, and the loop goes on.
Raise ==
  /\ "raise" \in Faults /\ pc \in Iteration
  /\ Block("error", Ending + Messages(1) + Pause)
  /\ manual' = FALSE /\ runs' = 0 /\ burst' = 0
  /\ lapse' = IF lapse = "none" THEN "raised" ELSE "open"
  /\ UNCHANGED <<config, volume, beacon, tickAge, loopAge, docker>>

Logged ==
  /\ pc = "error"
  /\ Block("wait", Pause)
  /\ UNCHANGED <<runs, manual, config, volume, ages, burst, docker>>

\* icloudpd cannot be killed (it waits for its disk) when it has to end, at a
\* timeout, a stop or an exception too, and wait() does not return.
Hang ==
  /\ "hang" \in Faults /\ pc \in {"run", "tick", "page", "reply", "end"}
  /\ Block("hung", 0)
  /\ UNCHANGED <<runs, manual, config, volume, ages, burst, docker>>

\* Docker and the operator -------------------------------------------------------------

Down ==
  /\ Block("off", 0) /\ manual' = FALSE /\ runs' = 0 /\ burst' = 0
  /\ probeIn' = Probe /\ failing' = 0 /\ up' = 0 /\ lapse' = "none"
  /\ UNCHANGED <<config, volume, tickAge, loopAge>>

\* The container is stopped or killed, and perhaps made anew without /tmp.
Kill == "kill" \in Faults /\ pc # "off" /\ Down /\ beacon' \in {beacon, Limit + 1}

Unhealthy == failing = Retries
Autoheal == pc # "off" /\ Unhealthy /\ Down /\ UNCHANGED beacon

Edit ==
  /\ \E f \in Files \ {file} : file' = f /\ loads' = Loads(Settings(f))
  /\ UNCHANGED <<thread, config, ages, burst, docker>>

\* run_healthcheck, behind main's load_config.  Mutants: a configuration error
\* fails the check; the age is not looked at.
CheckStrictly == loads /\ beacon <= Limit
CheckLoosely == TRUE
CheckPasses == ~loads \/ beacon <= Limit

\* Docker counts from the start period's end, or from the first success.
Check ==
  /\ probeIn' = Probe
  /\ failing' = IF CheckPasses \/ up < StartPeriod THEN 0
                ELSE IF failing < Retries THEN failing + 1 ELSE Retries
  /\ up' = IF CheckPasses \/ up = StartPeriod THEN StartPeriod ELSE up + 1
  /\ lapse' = IF CheckPasses /\ lapse = "mended" THEN "none" ELSE lapse

Older(age, most) == IF age <= most THEN age + 1 ELSE age

Clock ==
  /\ pc \in {"off", "paused", "hung"} \/ left > 0
  /\ left' = IF left > 0 THEN left - 1 ELSE 0
  /\ beacon' = Older(beacon, Limit)
  /\ tickAge' = Older(tickAge, TickGap) /\ loopAge' = Older(loopAge, LoopGap)
  /\ \/ pc = "off" /\ UNCHANGED <<docker, lapse>>
     \/ pc # "off" /\ probeIn = 1 /\ Check
     \/ /\ pc # "off" /\ probeIn > 1
        /\ probeIn' = probeIn - 1
        /\ up' = IF up < StartPeriod THEN up + 1 ELSE up
        /\ UNCHANGED <<failing, lapse>>
  /\ UNCHANGED <<pc, runs, manual, config, volume, burst>>

\* Specification -------------------------------------------------------------------------

Init ==
  /\ pc = "off" /\ left = 0 /\ runs = 0 /\ manual = FALSE
  /\ file \in Files /\ loads = Loads(Settings(file)) /\ config = Unread
  /\ beacon = Limit + 1 /\ tickAge = TickGap + 1 /\ loopAge = LoopGap + 1
  /\ lapse = "none" /\ burst = 0 /\ probeIn = Probe /\ failing = 0 /\ up = 0

Loop == NoCommand \/ Command \/ Answered \/ NotDue \/ Warned
Run ==
  \/ Refuse \/ Launch \/ Tick \/ Drain \/ Look \/ Prompted \/ Told \/ Verified \/ Abort
  \/ TickDone \/ RunEnds \/ NoneShared \/ NextRun \/ Report \/ Finish \/ Raise \/ Logged \/ Hang

Next == Start \/ Greeted \/ Loop \/ Run \/ Kill \/ Autoheal \/ Edit \/ Clock

\* Time passes, and an autoheal companion restarts an unhealthy container.
Spec == Init /\ [][Next]_vars /\ WF_vars(Clock) /\ WF_vars(Autoheal)

-------------------------------------------------------------------------------
\* Properties

\* Every variable has its type; the flag of a command does not outlive its
\* cycle or its answer, after which the schedule is on its own again.
TypeOK ==
  /\ pc \in Serving \union {"off", "greet", "paused", "hung"}
  /\ runs > 0 <=> pc \in InCycle \union {"hung"}
  /\ manual => pc \in InCycle \union {"hung", "answer", "order"}
  /\ left \in Nat /\ runs \in 0 .. Runs /\ manual \in BOOLEAN
  /\ file \in Files /\ loads \in BOOLEAN /\ burst \in 0 .. Burst
  /\ beacon \in 0 .. Limit + 1 /\ tickAge \in 0 .. TickGap + 1 /\ loopAge \in 0 .. LoopGap + 1
  /\ lapse \in {"none", "raised", "open", "mended"}
  /\ probeIn \in 1 .. Probe /\ failing \in 0 .. Retries /\ up \in 0 .. StartPeriod

\* No healthcheck finds a stale beacon while the loop is alive: not during a day's
\* download, nor while messages hang, nor through cycle after cycle that ends in an
\* exception (_write_status by _set_state, tick and loop).  Excused are the two ways
\* on which the code puts the write off without an end, up to the next write: a
\* second exception with no write since the first, and more than Burst commands in
\* one tick.
BeaconFresh == pc \in Serving /\ lapse # "open" => beacon <= Limit

\* Apart from those ways, until a healthcheck passes again, only a hung main thread
\* and a failed preflight make a container unhealthy, whatever file the last life
\* left and whatever the operator edits meanwhile (main.py run_healthcheck).
NeverCondemned ==
  Unhealthy /\ lapse \in {"none", "raised"} => pc \in {"hung", "paused"}

\* A main thread that hangs is noticed and its container restarted, unless the
\* legacy file no longer loads, which silences the healthcheck.
HangReported == pc = "hung" ~> (pc # "hung" \/ ~loads)
=============================================================================
