------------------------------ MODULE MfaBridge ------------------------------
(***************************************************************************)
(* The two-factor bridge: what the tick does each second while icloudpd    *)
(* runs (scheduler.py _tick_during_run, _handle_code_mid_run,              *)
(* _bridged_run), against icloudpd's web page, the user's messages and     *)
(* Telegram.                                                               *)
(*                                                                         *)
(* A tick is several steps, since icloudpd, the listener and the clock go  *)
(* on while the main thread waits for an HTTP answer: one step per command *)
(* it takes, one for the page it fetches, one for what it makes of it.     *)
(* Runs are those of a sync cycle.  The budget, the schedule and the state *)
(* shown to the user are module Supervisor's.  poll_urgency is set and     *)
(* cleared exactly with _mfa_prompted_at, so flow.prompted stands for both.*)
(***************************************************************************)
EXTENDS Naturals, Sequences

CONSTANTS
  PollGap,     \* the 2 s between two looks at the page
  RetryGap,    \* the 60 s between two tries to deliver the prompt
  MfaTimeout,  \* mfa_timeout
  Faults,      \* which faults the environment may show
  MaxQueue,    \* bound: commands waiting
  MaxSent      \* bound: messages of the user per run

ASSUME BridgeAssumption ==
  /\ PollGap \in Nat \ {0} /\ RetryGap \in Nat /\ MfaTimeout \in Nat
  /\ MaxQueue \in Nat /\ MaxSent \in Nat
  \* a look at the page fails; a POST or its answer is lost; Telegram is
  \* unreachable; an exception escapes the tick
  /\ Faults \subseteq {"blip", "lost", "mute", "raise"}

VARIABLES
  pc,      \* main thread: between runs, in process.wait, or in the tick
  queue,   \* Supervisor.commands
  flow,    \* the _mfa_* fields and _pending_code
  age,     \* seconds since the prompt, the last try to deliver it, the last look
  status,  \* what the last look at the page showed
  proc,    \* icloudpd: how it ended, whether too late, its page, the code it verifies
  run,     \* history: parity of the run
  sent,    \* history: messages sent since the run began
  told     \* history: the last verdict the user was sent in this run

vars == <<pc, queue, flow, age, status, proc, run, sent, told>>

Codes == {"right", "wrong"}
Commands == Codes \union {"other"}
NoCode == [code |-> "none", run |-> 0]
NoFlow == [prompted |-> FALSE, submitted |-> FALSE, delivered |-> FALSE, held |-> NoCode]
NewProcess == [exit |-> "running", timedOut |-> FALSE, ui |-> "down", error |-> FALSE,
               given |-> "none", accepted |-> FALSE]
NoStatus == [state |-> "unreachable", error |-> FALSE]

Running == proc.exit = "running"
Gone(how) == [proc EXCEPT !.exit = how, !.ui = "down", !.error = FALSE]

\* The supervisor terminates it: no effect on a process that is gone already.
Terminated == IF Running THEN Gone("cut") ELSE proc

\* A run ------------------------------------------------------------------------

\* Mutant: the flow is only reset when a run ends.
StartKeeping ==
  /\ pc = "rest"
  /\ pc' = "wait" /\ proc' = NewProcess
  /\ run' = 1 - run /\ sent' = 0 /\ told' = "nothing"
  /\ UNCHANGED <<queue, flow, age, status>>

\* _bridged_run up to process.wait.
StartRun ==
  /\ pc = "rest"
  /\ pc' = "wait" /\ flow' = NoFlow /\ proc' = NewProcess
  /\ run' = 1 - run /\ sent' = 0 /\ told' = "nothing"
  /\ UNCHANGED <<queue, age, status>>

\* Between runs run_forever answers the command and forgets it.
Stray ==
  /\ pc = "rest" /\ queue # << >>
  /\ queue' = Tail(queue)
  /\ UNCHANGED <<pc, flow, age, status, proc, run, sent, told>>

\* runner.run before a tick: once the run has taken too long, this is its last.
BeginTick ==
  /\ pc = "wait" /\ Running /\ ~proc.timedOut
  /\ \E late \in BOOLEAN : proc' = [proc EXCEPT !.timedOut = late]
  /\ pc' = "drain"
  /\ UNCHANGED <<queue, flow, age, status, run, sent, told>>

\* That tick is over: the process is terminated.
Terminate ==
  /\ pc = "wait" /\ proc.timedOut /\ Running
  /\ proc' = Terminated
  /\ UNCHANGED <<pc, queue, flow, age, status, run, sent, told>>

\* A tick that finds the stop request: it only ends the run.
StopTick ==
  /\ pc = "wait" /\ Running /\ ~proc.timedOut
  /\ \E late \in BOOLEAN : proc' = [Gone("cut") EXCEPT !.timedOut = late]
  /\ UNCHANGED <<pc, queue, flow, age, status, run, sent, told>>

\* process.wait returns: _bridged_run notes whether a prompt was pending and
\* resets the flow; run_sync_cycle reports a failure unless one was, or the run
\* took too long.
Reports == proc.exit \in {"failed", "cut"} /\ ~proc.timedOut /\ ~flow.prompted
RunOver ==
  /\ pc = "wait" /\ ~Running
  /\ pc' = "rest" /\ flow' = NoFlow
  /\ told' = IF Reports THEN "failed" ELSE told
  /\ UNCHANGED <<queue, age, status, proc, run, sent>>

\* runner.run kills the process; the flow is left as it was.
Raise ==
  /\ "raise" \in Faults /\ pc \notin {"rest", "wait"}
  /\ pc' = "rest" /\ proc' = Gone("raised")
  /\ UNCHANGED <<queue, flow, age, status, run, sent, told>>

\* The tick: commands -------------------------------------------------------------

\* Mutant: the submission is not noted.
SubmitUnnoted(code) ==
  /\ proc' = IF proc.ui = "mfa"
             THEN [proc EXCEPT !.ui = "checking", !.error = FALSE, !.given = code] ELSE proc
  /\ told' = IF proc.ui = "mfa" THEN "verifying" ELSE "undelivered"
  /\ flow' = [flow EXCEPT !.held = NoCode]

\* webui.submit_code and what the user is told of it.
Submit(code) ==
  \E taken \in {proc.ui = "mfa"} \union (IF "lost" \in Faults THEN {FALSE} ELSE {}) :
    /\ proc' = IF taken
               THEN [proc EXCEPT !.ui = "checking", !.error = FALSE, !.given = code] ELSE proc
    /\ \E answered \in {taken} \union (IF "lost" \in Faults THEN {FALSE} ELSE {}) :
         /\ told' = IF answered THEN "verifying" ELSE "undelivered"
         /\ flow' = [flow EXCEPT !.submitted = @ \/ answered, !.held = NoCode]

\* _handle_code_mid_run.  Mutant: a code nobody asked for is submitted too.
SubmitAlways(code) == Submit(code)
HandleCode(code) ==
  \/ flow.prompted /\ Submit(code)
  \/ /\ ~flow.prompted
     /\ flow' = [flow EXCEPT !.held = [code |-> code, run |-> run]]
     /\ UNCHANGED <<proc, told>>

Command ==
  /\ pc = "drain" /\ queue # << >>
  /\ queue' = Tail(queue)
  /\ \/ Head(queue) \in Codes /\ HandleCode(Head(queue))
     \/ Head(queue) \notin Codes /\ UNCHANGED <<flow, proc, told>>
  /\ UNCHANGED <<pc, age, status, run, sent>>

Drained ==
  /\ pc = "drain" /\ queue = << >>
  /\ pc' = IF age.poll < PollGap THEN "wait" ELSE "look"
  /\ UNCHANGED <<queue, flow, age, status, proc, run, sent, told>>

\* The tick: the page -------------------------------------------------------------

Page == [state |-> IF proc.ui = "down" THEN "unreachable" ELSE proc.ui,
         error |-> proc.error]

\* webui.status.  From here on the tick works with what it saw.
Look ==
  /\ pc = "look"
  /\ status' \in {Page} \union (IF "blip" \in Faults THEN {NoStatus} ELSE {})
  /\ age' = [age EXCEPT !.poll = 0]
  /\ pc' = "react"
  /\ UNCHANGED <<queue, flow, proc, run, sent, told>>

Sees(states) == pc = "react" /\ status.state \in states
Rejected == flow.submitted /\ status.error
DeliveredOrNot == {TRUE} \union (IF "mute" \in Faults THEN {FALSE} ELSE {})

SeeChecking ==
  /\ Sees({"checking"})
  /\ pc' = "wait"
  /\ UNCHANGED <<queue, flow, age, status, proc, run, sent, told>>

\* The first sight of the prompt; a code held so far is then submitted.
\* Mutants: it is forgotten; it is kept for another prompt.
ForgetHeld ==
  /\ Sees({"mfa"}) /\ ~flow.prompted
  /\ \E d \in DeliveredOrNot :
       flow' = [NoFlow EXCEPT !.prompted = TRUE, !.delivered = d]
  /\ age' = [age EXCEPT !.prompt = 0, !.try = 0]
  /\ pc' = "wait"
  /\ UNCHANGED <<queue, status, proc, run, sent, told>>
KeepHeld ==
  /\ Sees({"mfa"}) /\ ~flow.prompted
  /\ \E d \in DeliveredOrNot :
       flow' = [flow EXCEPT !.prompted = TRUE, !.delivered = d]
  /\ age' = [age EXCEPT !.prompt = 0, !.try = 0]
  /\ pc' = "wait"
  /\ UNCHANGED <<queue, status, proc, run, sent, told>>
SeePrompt ==
  /\ Sees({"mfa"}) /\ ~flow.prompted
  /\ \E d \in DeliveredOrNot :
       flow' = [flow EXCEPT !.prompted = TRUE, !.delivered = d]
  /\ age' = [age EXCEPT !.prompt = 0, !.try = 0]
  /\ pc' = IF flow.held = NoCode THEN "wait" ELSE "handover"
  /\ UNCHANGED <<queue, status, proc, run, sent, told>>

Handover ==
  /\ pc = "handover"
  /\ Submit(flow.held.code)
  /\ pc' = "wait"
  /\ UNCHANGED <<queue, age, status, run, sent>>

\* Nobody answered in time: the run is terminated, the flow kept for
\* _bridged_run to see.  Mutants: it is reset here; the wait has no end.
DeadlineResets ==
  /\ Sees({"mfa"}) /\ flow.prompted /\ age.prompt > MfaTimeout
  /\ told' = "timeout" /\ proc' = Terminated /\ flow' = NoFlow
  /\ pc' = "wait"
  /\ UNCHANGED <<queue, age, status, run, sent>>
NoDeadline ==
  /\ Sees({"mfa"}) /\ flow.prompted /\ age.prompt > MfaTimeout
  /\ pc' = "wait"
  /\ UNCHANGED <<queue, flow, age, status, proc, run, sent, told>>
SeeDeadline ==
  /\ Sees({"mfa"}) /\ flow.prompted /\ age.prompt > MfaTimeout
  /\ told' = "timeout"
  /\ proc' = Terminated
  /\ flow' = [flow EXCEPT !.submitted = @ /\ ~Rejected]
  /\ pc' = "wait"
  /\ UNCHANGED <<queue, age, status, run, sent>>

\* Still waiting: report a rejection, repeat a prompt that did not get through.
SeeWaiting ==
  /\ Sees({"mfa"}) /\ flow.prompted /\ age.prompt <= MfaTimeout
  /\ told' = IF Rejected THEN "rejected" ELSE told
  /\ \/ /\ ~flow.delivered /\ age.try > RetryGap
        /\ \E d \in DeliveredOrNot :
             flow' = [flow EXCEPT !.submitted = @ /\ ~Rejected, !.delivered = d]
        /\ age' = [age EXCEPT !.try = 0]
     \/ /\ flow.delivered \/ age.try <= RetryGap
        /\ flow' = [flow EXCEPT !.submitted = @ /\ ~Rejected]
        /\ UNCHANGED age
  /\ pc' = "wait"
  /\ UNCHANGED <<queue, status, proc, run, sent>>

\* No prompt on the page.  Mutant: a code being verified counts as verified.
CheckingIsSuccess ==
  /\ Sees({"idle", "unreachable", "checking"}) /\ flow.submitted
  /\ flow' = NoFlow /\ told' = "success"
  /\ pc' = "wait"
  /\ UNCHANGED <<queue, age, status, proc, run, sent>>
\* Mutant: the flow stays as if the prompt were still there.
SuccessKeepsFlow ==
  /\ Sees({"idle", "unreachable"}) /\ flow.submitted
  /\ flow' = [flow EXCEPT !.submitted = FALSE] /\ told' = "success"
  /\ pc' = "wait"
  /\ UNCHANGED <<queue, age, status, proc, run, sent>>
SeeSuccess ==
  /\ Sees({"idle", "unreachable"}) /\ flow.submitted
  /\ flow' = NoFlow /\ told' = "success"
  /\ pc' = "wait"
  /\ UNCHANGED <<queue, age, status, proc, run, sent>>

SeeNothing ==
  /\ Sees({"idle", "unreachable"}) /\ ~flow.submitted
  /\ pc' = "wait"
  /\ UNCHANGED <<queue, flow, age, status, proc, run, sent, told>>

SeePassword ==
  /\ Sees({"password"})
  /\ told' = "password"
  /\ proc' = Terminated
  /\ pc' = "wait"
  /\ UNCHANGED <<queue, flow, age, status, run, sent>>

\* icloudpd -------------------------------------------------------------------------

Show(from, to) ==
  /\ Running /\ proc.ui = from
  /\ proc' = to
  /\ UNCHANGED <<pc, queue, flow, age, status, run, sent, told>>

ServerUp == Show("down", [proc EXCEPT !.ui = "idle"])
NeedCode == ~proc.accepted /\ Show("idle", [proc EXCEPT !.ui = "mfa"])
NeedPassword == ~proc.accepted /\ Show("idle", [proc EXCEPT !.ui = "password"])
Verify ==
  \/ proc.given = "right" /\ Show("checking", [proc EXCEPT !.ui = "idle", !.accepted = TRUE])
  \/ proc.given = "wrong" /\ Show("checking", [proc EXCEPT !.ui = "mfa", !.error = TRUE])
\* It ends well with nothing left to ask; it may fail or crash anywhere.
Finish ==
  \/ proc.ui \in {"idle", "down"} /\ Show(proc.ui, Gone("ok"))
  \/ Show(proc.ui, Gone("failed"))

\* The user and the clock -----------------------------------------------------------

\* A message reaches the queue through the listener thread.
Send ==
  /\ sent < MaxSent /\ Len(queue) < MaxQueue
  /\ \E c \in Commands : queue' = Append(queue, c)
  /\ sent' = sent + 1
  /\ UNCHANGED <<pc, flow, age, status, proc, run, told>>

Ages == [prompt : 0 .. MfaTimeout + 1, try : 0 .. RetryGap + 1, poll : 0 .. PollGap]
Older(a, limit) == IF a < limit THEN a + 1 ELSE a
Clock ==
  /\ age' = [prompt |-> Older(age.prompt, MfaTimeout + 1), try |-> Older(age.try, RetryGap + 1),
             poll |-> Older(age.poll, PollGap)]
  /\ age' # age
  /\ UNCHANGED <<pc, queue, flow, status, proc, run, sent, told>>

\* Specification --------------------------------------------------------------------

Init ==
  /\ pc = "rest" /\ queue = << >> /\ flow = NoFlow /\ status = NoStatus
  /\ age = [prompt |-> 0, try |-> 0, poll |-> PollGap]
  /\ proc = [NewProcess EXCEPT !.exit = "ok"] /\ run = 0 /\ sent = 0 /\ told = "nothing"

MainThread ==
  \/ BeginTick \/ Terminate \/ RunOver \/ Command \/ Drained \/ Look
  \/ SeeChecking \/ SeePrompt \/ Handover \/ SeeDeadline \/ SeeWaiting
  \/ SeeSuccess \/ SeeNothing \/ SeePassword

Environment ==
  \/ StartRun \/ Stray \/ StopTick \/ Raise
  \/ ServerUp \/ NeedCode \/ NeedPassword \/ Verify \/ Finish
  \/ Send \/ Clock

Next == MainThread \/ Environment

Spec == Init /\ [][Next]_vars
FairSpec == Spec /\ WF_vars(MainThread) /\ WF_vars(Clock) /\ WF_vars(Verify)

-------------------------------------------------------------------------------
\* Properties

\* Every variable has its type, and the fields of the flow cohere: a code is
\* only submitted to, and none is held back from, a prompt that was noticed
\* (_tick_during_run, _handle_code_mid_run).
TypeOK ==
  /\ pc \in {"rest", "wait", "drain", "look", "react", "handover"}
  /\ queue \in Seq(Commands) /\ Len(queue) <= MaxQueue
  /\ flow \in [prompted : BOOLEAN, submitted : BOOLEAN, delivered : BOOLEAN,
               held : {NoCode} \union [code : Codes, run : 0 .. 1]]
  /\ age \in Ages
  /\ status \in [state : {"unreachable", "idle", "mfa", "checking", "password"}, error : BOOLEAN]
  /\ proc \in [exit : {"running", "ok", "failed", "cut", "raised"}, timedOut : BOOLEAN,
               error : BOOLEAN, ui : {"down", "idle", "mfa", "checking", "password"},
               given : Codes \union {"none"}, accepted : BOOLEAN]
  /\ run \in 0 .. 1 /\ sent \in 0 .. MaxSent
  /\ told \in {"nothing", "verifying", "undelivered", "rejected", "success",
               "timeout", "password", "failed"}
  /\ flow.submitted \/ flow.delivered => flow.prompted

\* "Two-factor authentication successful" is only said when Apple took the
\* code: "Left NEED_MFA after our submission: authenticated" (_tick_during_run).
SuccessMeansAccepted == told = "success" => proc.accepted

\* Nobody is told of a success while icloudpd still verifies the code or asks for
\* another one (_tick_during_run's CHECKING and NEED_MFA against a submission
\* noted in an earlier tick).
VerdictAwaited == told = "success" /\ Running => proc.accepted

\* A success that was reported of a run that then fails is not left as the last
\* word: the failure follows it, since the flow is over (_tick_during_run's reset
\* against _bridged_run's mfa_was_pending), unless the run took too long.
SuccessRetracted ==
  pc = "rest" /\ proc.exit \in {"failed", "cut"} /\ ~proc.timedOut => told # "success"

\* A code that came before the prompt was noticed is out of the buffer by the
\* end of the tick that notices the prompt (_handle_code_mid_run's buffer).
EarlyCodeUsed == flow.prompted /\ pc \in {"wait", "drain", "look"} => flow.held = NoCode

\* It leaves the buffer only for the prompt, or because the run is over.
EarlyCodeKept ==
  [][flow.held # NoCode /\ flow'.held = NoCode => pc = "handover" \/ ~Running]_flow

\* A held code is one of the run in flight, never of an earlier one, even when
\* that one ended in an exception (_reset_mfa_flow at both ends of _bridged_run).
HeldCodeIsFresh == pc # "rest" /\ flow.held # NoCode => flow.held.run = run

\* A user told that the wait timed out is not told again that the sync failed
\* (the flow outlives the abort until _bridged_run has read it).
NoSecondReport == [][~(told = "timeout" /\ told' = "failed")]_told

\* A sync that failed by itself tells the user so: only "the run we ourselves are
\* terminating" is passed over in silence (_bridged_run's mfa_was_pending).
FailureReported ==
  pc = "rest" /\ proc.exit = "failed" /\ ~proc.timedOut => told \in {"timeout", "password", "failed"}

\* icloudpd is never left at its prompt for ever: a code arrives or the deadline
\* ends the run, whatever the user and Telegram do (_tick_during_run's deadline).
PromptEnds == (Running /\ proc.ui = "mfa") ~> ~(Running /\ proc.ui = "mfa")

\* A user told that a code is being verified hears the verdict, or the run is over.
VerdictArrives == (told = "verifying") ~> (told # "verifying" \/ pc = "rest")
=============================================================================
