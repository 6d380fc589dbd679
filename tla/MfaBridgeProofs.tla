-------------------------- MODULE MfaBridgeProofs --------------------------
(***************************************************************************)
(* Proofs about MfaBridge: types, the fate of a code that comes early, one *)
(* report per timeout under every fault; and, as long as every look at the *)
(* page succeeds, that no success is reported ahead of the verdict or is   *)
(* the last word about a run that failed.                                  *)
(***************************************************************************)
EXTENDS MfaBridge, TLAPS

\* The inductive invariant of the flow -------------------------------------------

\* A process that ended shows no page, and none outlives the run.
Ended == /\ ~Running => proc.ui = "down"
         /\ pc = "rest" => ~Running

\* A code is held back until the prompt is noticed, then handed over at once.
Holding ==
  /\ pc = "handover" => flow.prompted /\ flow.held # NoCode
  /\ flow.prompted /\ pc \notin {"rest", "handover"} => flow.held = NoCode

\* After the deadline nothing happens but the end of the run, which still
\* sees the prompt.
TimedOut ==
  told = "timeout" => pc = "rest" \/ (pc = "wait" /\ flow.prompted /\ ~Running)

FlowInv == TypeOK /\ Ended /\ Holding /\ HeldCodeIsFresh /\ TimedOut

\* The inductive invariant of a submission ----------------------------------------

\* A submission Apple did not take is being verified, is rejected on the page,
\* or died with its process.
Pending ==
  flow.submitted /\ Running =>
    \/ proc.accepted
    \/ proc.ui = "checking"
    \/ proc.ui = "mfa" /\ proc.error

\* A look that shows no prompt after a submission is a look after the verdict, or
\* at a process that is gone.
SeenAfter ==
  /\ pc = "react" /\ flow.submitted /\ status.state \in {"idle", "unreachable"} =>
       proc.accepted \/ ~Running
  /\ VerdictAwaited

\* A process whose code was accepted asks for nothing any more.
Settled == proc.accepted => proc.ui \in {"idle", "down"}

\* After a success no prompt is on the books, nor is the tick about to see one.
SuccessFinal ==
  told = "success" /\ pc # "rest" =>
    /\ ~flow.prompted
    /\ pc = "react" => status.state \in {"idle", "unreachable"}

SuccessInv == Pending /\ SeenAfter /\ Settled /\ SuccessFinal /\ SuccessRetracted

\* Types --------------------------------------------------------------------------

Pcs == {"rest", "wait", "drain", "look", "react", "handover"}
Uis == {"down", "idle", "mfa", "checking", "password"}
Tolds == {"nothing", "verifying", "undelivered", "rejected", "success",
          "timeout", "password", "failed"}
Flows == [prompted : BOOLEAN, submitted : BOOLEAN, delivered : BOOLEAN,
          held : {NoCode} \union [code : Codes, run : 0 .. 1]]
Procs == [exit : {"running", "ok", "failed", "cut", "raised"}, timedOut : BOOLEAN,
          error : BOOLEAN, ui : Uis, given : Codes \union {"none"}, accepted : BOOLEAN]
Seen == [state : {"unreachable", "idle", "mfa", "checking", "password"}, error : BOOLEAN]
Coherent(f) == f.submitted \/ f.delivered => f.prompted

\* What a step must establish of the flow and the process.
LEMMA TypesNamed ==
  TypeOK <=> /\ pc \in Pcs /\ queue \in Seq(Commands) /\ Len(queue) <= MaxQueue
             /\ flow \in Flows /\ Coherent(flow)
             /\ age \in Ages /\ status \in Seen /\ proc \in Procs
             /\ run \in 0 .. 1 /\ sent \in 0 .. MaxSent /\ told \in Tolds
  BY DEF TypeOK, Pcs, Flows, Procs, Seen, Uis, Tolds, Coherent

\* The fresh flow and process have their types.
LEMMA FreshTypes ==
  /\ NoFlow \in Flows /\ Coherent(NoFlow) /\ NewProcess \in Procs /\ NoStatus \in Seen
  BY DEF NoFlow, NoCode, Flows, Coherent, NewProcess, Procs, Uis, NoStatus, Seen

\* A process that ended has its type, and only how it ended is new.
LEMMA GoneTypes ==
  ASSUME proc \in Procs, NEW how \in {"ok", "failed", "cut", "raised"}
  PROVE  /\ Gone(how) \in Procs
         /\ Gone(how).exit = how /\ Gone(how).ui = "down"
         /\ Gone(how).accepted = proc.accepted
  BY DEF Gone, Procs, Uis

\* Also when the supervisor ended it, and when a timeout is noted first.
LEMMA TerminatedTypes ==
  ASSUME proc \in Procs, ~Running => proc.ui = "down"
  PROVE  /\ Terminated \in Procs /\ Terminated.exit # "running" /\ Terminated.ui = "down"
         /\ Terminated.accepted = proc.accepted
<1>1. CASE Running
  BY <1>1, GoneTypes DEF Terminated
<1>2. CASE ~Running
  BY <1>2 DEF Terminated, Running
<1> QED BY <1>1, <1>2

LEMMA LateTypes ==
  ASSUME proc \in Procs, NEW late \in BOOLEAN
  PROVE  /\ [proc EXCEPT !.timedOut = late] \in Procs
         /\ [proc EXCEPT !.timedOut = late].exit = proc.exit
         /\ [proc EXCEPT !.timedOut = late].ui = proc.ui
         /\ [proc EXCEPT !.timedOut = late].error = proc.error
         /\ [proc EXCEPT !.timedOut = late].accepted = proc.accepted
         /\ [Gone("cut") EXCEPT !.timedOut = late] \in Procs
         /\ [Gone("cut") EXCEPT !.timedOut = late].exit = "cut"
         /\ [Gone("cut") EXCEPT !.timedOut = late].ui = "down"
         /\ [Gone("cut") EXCEPT !.timedOut = late].accepted = proc.accepted
  BY DEF Gone, Procs, Uis

\* What is in the queue is a command.
LEMMA HeadTypes ==
  ASSUME queue \in Seq(Commands), queue # << >>
  PROVE  /\ Head(queue) \in Commands /\ Tail(queue) \in Seq(Commands)
         /\ Len(Tail(queue)) <= Len(queue)
<1> DEFINE S == Commands
<1>1. ASSUME NEW q \in Seq(S), q # << >>
      PROVE  Head(q) \in S /\ Tail(q) \in Seq(S) /\ Len(Tail(q)) <= Len(q)
  <2> HIDE DEF S
  <2> QED BY <1>1
<1> QED BY <1>1

\* A capped age stays below its cap.
LEMMA OlderBounded ==
  ASSUME NEW limit \in Nat, NEW a \in 0 .. limit
  PROVE  Older(a, limit) \in 0 .. limit
  BY DEF Older

\* What a submission may do to flow and page.
LEMMA SubmitEffect ==
  ASSUME NEW code \in Codes, Submit(code), flow \in Flows, proc \in Procs, flow.prompted
  PROVE  /\ flow' \in Flows /\ Coherent(flow') /\ proc' \in Procs
         /\ told' \in {"verifying", "undelivered"}
         /\ flow'.prompted = flow.prompted /\ flow'.held = NoCode
         /\ proc'.exit = proc.exit /\ proc'.accepted = proc.accepted
         /\ \/ proc' = proc /\ flow'.submitted = flow.submitted
            \/ proc.ui = "mfa" /\ proc'.ui = "checking"
<1> DEFINE May == IF "lost" \in Faults THEN {FALSE} ELSE {}
<1>1. PICK taken \in {proc.ui = "mfa"} \union May :
        /\ proc' = IF taken THEN [proc EXCEPT !.ui = "checking", !.error = FALSE, !.given = code]
                   ELSE proc
        /\ \E answered \in {taken} \union May :
             /\ told' = IF answered THEN "verifying" ELSE "undelivered"
             /\ flow' = [flow EXCEPT !.submitted = @ \/ answered, !.held = NoCode]
  BY Zenon DEF Submit
<1>2. PICK answered \in {taken} \union May :
        /\ told' = IF answered THEN "verifying" ELSE "undelivered"
        /\ flow' = [flow EXCEPT !.submitted = @ \/ answered, !.held = NoCode]
  BY Zenon, <1>1
<1>3. taken = (proc.ui = "mfa") \/ taken = FALSE
  OBVIOUS
<1>4. answered = taken \/ answered = FALSE
  OBVIOUS
<1>5. /\ taken \in BOOLEAN /\ answered \in BOOLEAN
      /\ taken => proc.ui = "mfa"
      /\ answered => taken
  BY <1>3, <1>4
<1>6. /\ proc' \in Procs /\ proc'.exit = proc.exit /\ proc'.accepted = proc.accepted
      /\ IF taken THEN proc'.ui = "checking" ELSE proc' = proc
  BY <1>1, <1>5 DEF Procs, Uis
<1>7. /\ flow' \in Flows /\ flow'.prompted = flow.prompted /\ flow'.held = NoCode
      /\ ~answered => flow'.submitted = flow.submitted
  BY <1>2, <1>5 DEF Flows, NoCode
<1>8. Coherent(flow')
  BY <1>7 DEF Coherent
<1> QED BY <1>2, <1>5, <1>6, <1>7, <1>8

\* What the environment may do to a process: it ends, it opens a page while it
\* needs one, or Apple decides on the code.
LEMMA ShowEffect ==
  ASSUME proc \in Procs, ServerUp \/ NeedCode \/ NeedPassword \/ Verify \/ Finish
  PROVE  /\ proc' \in Procs /\ Running
         /\ UNCHANGED <<pc, queue, flow, age, status, run, sent, told>>
         /\ \/ proc'.exit # "running" /\ proc'.ui = "down" /\ proc'.accepted = proc.accepted
            \/ /\ proc'.exit = "running" /\ proc'.accepted = proc.accepted
               /\ proc.ui \in {"down", "idle"} /\ (proc.accepted => proc'.ui = "idle")
            \/ /\ proc'.exit = "running" /\ proc.ui = "checking"
               /\ \/ proc'.accepted /\ proc'.ui = "idle"
                  \/ proc'.accepted = proc.accepted /\ proc'.ui = "mfa" /\ proc'.error
<1>1. CASE ServerUp
  BY <1>1 DEF ServerUp, Show, Procs, Uis, Running
<1>2. CASE NeedCode \/ NeedPassword
  BY <1>2 DEF NeedCode, NeedPassword, Show, Procs, Uis, Running
<1>3. CASE Verify
  BY <1>3 DEF Verify, Show, Procs, Uis, Running
<1>4. CASE Finish
  <2>1. PICK how \in {"ok", "failed"} : proc' = Gone(how)
    BY <1>4 DEF Finish, Show
  <2>2. Running /\ UNCHANGED <<pc, queue, flow, age, status, run, sent, told>>
    BY <1>4 DEF Finish, Show
  <2> QED BY <2>1, <2>2, GoneTypes
<1> QED BY <1>1, <1>2, <1>3, <1>4

\* Every step keeps the types; the handover needs the code it hands over.
LEMMA TypesStep ==
  ASSUME TypeOK, Ended, Holding, [Next]_vars
  PROVE  TypeOK'
<1>0. /\ pc \in Pcs /\ queue \in Seq(Commands) /\ Len(queue) <= MaxQueue
      /\ flow \in Flows /\ Coherent(flow)
      /\ age \in Ages /\ status \in Seen /\ proc \in Procs
      /\ run \in 0 .. 1 /\ sent \in 0 .. MaxSent /\ told \in Tolds
  BY TypesNamed
<1> SUFFICES /\ pc' \in Pcs /\ queue' \in Seq(Commands) /\ Len(queue') <= MaxQueue
             /\ flow' \in Flows /\ Coherent(flow')
             /\ age' \in Ages /\ status' \in Seen /\ proc' \in Procs
             /\ run' \in 0 .. 1 /\ sent' \in 0 .. MaxSent /\ told' \in Tolds
  BY DEF TypeOK, Pcs, Flows, Procs, Seen, Uis, Tolds, Coherent
<1>1. CASE UNCHANGED vars
  BY <1>0, <1>1 DEF vars, Coherent
<1>2. CASE Drained \/ SeeChecking \/ SeeNothing
  BY <1>0, <1>2 DEF Drained, SeeChecking, SeeNothing, Pcs, Coherent
<1>3. CASE StartRun
  BY <1>0, <1>3, FreshTypes, BridgeAssumption DEF StartRun, Pcs, Tolds, Coherent
<1>4. CASE Stray
  BY <1>0, <1>4, HeadTypes, BridgeAssumption DEF Stray, Coherent
<1>5. CASE RunOver
  BY <1>0, <1>5, FreshTypes DEF RunOver, Pcs, Tolds, Coherent
<1>6. CASE Raise
  BY <1>0, <1>6, GoneTypes DEF Raise, Pcs, Coherent
<1>17. CASE BeginTick \/ StopTick \/ Terminate
  <2>1. proc' \in Procs
    BY <1>0, <1>17, LateTypes, TerminatedTypes DEF BeginTick, StopTick, Terminate, Ended
  <2>2. /\ pc' \in {pc, "drain"} /\ UNCHANGED <<queue, flow, age, status, run, sent, told>>
    BY <1>17 DEF BeginTick, StopTick, Terminate
  <2> QED BY <1>0, <2>1, <2>2 DEF Pcs, Coherent
<1>7. CASE Command
  <2>1. /\ queue' \in Seq(Commands) /\ Len(queue') <= MaxQueue
        /\ UNCHANGED <<pc, age, status, run, sent>>
    BY <1>0, <1>7, HeadTypes, BridgeAssumption DEF Command
  <2>2. flow' \in Flows /\ Coherent(flow') /\ proc' \in Procs /\ told' \in Tolds
    <3>1. CASE Head(queue) \notin Codes
      BY <1>0, <1>7, <3>1 DEF Command, Coherent
    <3>2. CASE Head(queue) \in Codes /\ flow.prompted /\ Submit(Head(queue))
      BY <1>0, <3>2, SubmitEffect DEF Tolds
    <3>3. CASE /\ Head(queue) \in Codes /\ ~flow.prompted
               /\ flow' = [flow EXCEPT !.held = [code |-> Head(queue), run |-> run]]
               /\ UNCHANGED <<proc, told>>
      BY <1>0, <3>3 DEF Flows, Coherent
    <3> QED BY <1>7, <3>1, <3>2, <3>3 DEF Command, HandleCode
  <2> QED BY <1>0, <2>1, <2>2
<1>8. CASE Look
  <2>1. Page \in Seen /\ NoStatus \in Seen
    BY <1>0, FreshTypes DEF Page, Seen, Procs, Uis
  <2>2. age' \in Ages
    BY <1>0, <1>8, BridgeAssumption DEF Look, Ages
  <2> QED BY <1>0, <1>8, <2>1, <2>2 DEF Look, Pcs, Coherent
<1>9. CASE SeePrompt
  <2>1. PICK d \in BOOLEAN : flow' = [flow EXCEPT !.prompted = TRUE, !.delivered = d]
    BY <1>9 DEF SeePrompt, DeliveredOrNot
  <2>2. flow' \in Flows /\ Coherent(flow')
    BY <1>0, <2>1 DEF Flows, Coherent
  <2>3. age' \in Ages
    <3>1. age' = [age EXCEPT !.prompt = 0, !.try = 0]
      BY <1>9 DEF SeePrompt
    <3>2. 0 \in 0 .. MfaTimeout + 1 /\ 0 \in 0 .. RetryGap + 1
      BY BridgeAssumption
    <3> QED BY <1>0, <3>1, <3>2 DEF Ages
  <2> QED BY <1>0, <1>9, <2>2, <2>3 DEF SeePrompt, Pcs
<1>10. CASE Handover
  <2>1. flow.held.code \in Codes /\ flow.prompted
    BY <1>0, <1>10 DEF Handover, Holding, Flows
  <2>2. flow' \in Flows /\ Coherent(flow') /\ proc' \in Procs /\ told' \in Tolds
    BY <1>0, <1>10, <2>1, SubmitEffect DEF Handover, Tolds
  <2> QED BY <1>0, <1>10, <2>2 DEF Handover, Pcs
<1>11. CASE SeeDeadline \/ SeePassword
  BY <1>0, <1>11, TerminatedTypes
  DEF SeeDeadline, SeePassword, Rejected, Pcs, Flows, Tolds, Coherent, Ended
<1>12. CASE SeeWaiting
  <2>1. flow' \in Flows /\ Coherent(flow')
    BY <1>0, <1>12 DEF SeeWaiting, DeliveredOrNot, Rejected, Flows, Coherent
  <2>2. age' \in Ages
    <3>1. age' = [age EXCEPT !.try = 0] \/ age' = age
      BY <1>12 DEF SeeWaiting
    <3> QED BY <1>0, <3>1, BridgeAssumption DEF Ages
  <2> QED BY <1>0, <1>12, <2>1, <2>2 DEF SeeWaiting, Pcs, Tolds
<1>13. CASE SeeSuccess
  BY <1>0, <1>13, FreshTypes DEF SeeSuccess, Pcs, Tolds, Coherent
<1>14. CASE ServerUp \/ NeedCode \/ NeedPassword \/ Verify \/ Finish
  BY <1>0, <1>14, ShowEffect DEF Coherent
<1>15. CASE Send
  <2>1. PICK c \in Commands : queue' = Append(queue, c)
    BY <1>15 DEF Send
  <2>2. queue' \in Seq(Commands) /\ Len(queue') <= MaxQueue
    <3> DEFINE S == Commands
    <3>1. queue \in Seq(S) /\ c \in S /\ Len(queue) \in Nat
      BY <1>0
    <3>2. Append(queue, c) \in Seq(S) /\ Len(Append(queue, c)) = Len(queue) + 1
      <4> HIDE DEF S
      <4> QED BY <3>1
    <3> QED BY <1>15, <2>1, <3>1, <3>2, BridgeAssumption DEF Send
  <2>3. sent' \in 0 .. MaxSent
    BY <1>0, <1>15, BridgeAssumption DEF Send
  <2> QED BY <1>0, <1>15, <2>2, <2>3 DEF Send, Coherent
<1>16. CASE Clock
  <2>1. age' \in Ages
    <3>1. /\ MfaTimeout + 1 \in Nat /\ RetryGap + 1 \in Nat /\ PollGap \in Nat
          /\ age.prompt \in 0 .. MfaTimeout + 1 /\ age.try \in 0 .. RetryGap + 1
          /\ age.poll \in 0 .. PollGap
      BY <1>0, BridgeAssumption DEF Ages
    <3>2. /\ Older(age.prompt, MfaTimeout + 1) \in 0 .. MfaTimeout + 1
          /\ Older(age.try, RetryGap + 1) \in 0 .. RetryGap + 1
          /\ Older(age.poll, PollGap) \in 0 .. PollGap
      BY <3>1, OlderBounded
    <3> QED BY <1>16, <3>2 DEF Clock, Ages
  <2> QED BY <1>0, <1>16, <2>1 DEF Clock, Coherent
<1> QED BY <1>1, <1>2, <1>3, <1>4, <1>5, <1>6, <1>7, <1>8, <1>9, <1>10, <1>11, <1>12,
           <1>13, <1>14, <1>15, <1>16, <1>17 DEF Next, MainThread, Environment

\* The flow -------------------------------------------------------------------------

\* Every step keeps the invariant of the flow; a held code is only cleared in a
\* handover or with the run over, and a timeout is not followed by a failure.
LEMMA FlowStep ==
  ASSUME FlowInv, [Next]_vars
  PROVE  /\ FlowInv'
         /\ flow.held # NoCode /\ flow'.held = NoCode => pc = "handover" \/ ~Running
         /\ ~(told = "timeout" /\ told' = "failed")
<1> DEFINE Kept == flow.held # NoCode /\ flow'.held = NoCode => pc = "handover" \/ ~Running
           Once == ~(told = "timeout" /\ told' = "failed")
<1>0. /\ pc \in Pcs /\ flow \in Flows /\ Coherent(flow) /\ status \in Seen /\ proc \in Procs
      /\ queue \in Seq(Commands)
      /\ Ended /\ Holding /\ HeldCodeIsFresh /\ TimedOut
  BY TypesNamed DEF FlowInv
<1>1. TypeOK'
  BY TypesStep DEF FlowInv
<1> SUFFICES Ended' /\ Holding' /\ HeldCodeIsFresh' /\ TimedOut' /\ Kept /\ Once
  BY <1>1 DEF FlowInv
<1> USE DEF Ended, Holding, HeldCodeIsFresh, TimedOut, Running
<1>2. CASE UNCHANGED vars
  BY <1>0, <1>2 DEF vars
<1>3. CASE Drained \/ SeeChecking \/ SeeNothing \/ Stray \/ Send \/ Clock \/ Look
  BY <1>0, <1>3 DEF Drained, SeeChecking, SeeNothing, Stray, Send, Clock, Look, Sees
<1>4. CASE StartRun
  BY <1>0, <1>4 DEF StartRun, NoFlow, NewProcess
<1>5. CASE RunOver
  BY <1>0, <1>5 DEF RunOver, Reports, NoFlow
<1>6. CASE Raise
  BY <1>0, <1>6, GoneTypes DEF Raise
<1>14. CASE BeginTick \/ StopTick \/ Terminate
  <2>1. proc'.ui = "down" \/ (proc'.exit = proc.exit /\ proc'.ui = proc.ui /\ Running)
    BY <1>0, <1>14, LateTypes, TerminatedTypes DEF BeginTick, StopTick, Terminate
  <2>2. /\ pc = "wait" /\ pc' \in {"wait", "drain"} /\ Running
        /\ UNCHANGED <<queue, flow, age, status, run, sent, told>>
    BY <1>14 DEF BeginTick, StopTick, Terminate
  <2> QED BY <1>0, <2>1, <2>2
<1>7. CASE Command
  <2>1. pc = "drain" /\ pc' = "drain" /\ run' = run
    BY <1>7 DEF Command
  <2>2. CASE Head(queue) \notin Codes
    BY <1>0, <1>7, <2>1, <2>2 DEF Command
  <2>3. CASE Head(queue) \in Codes /\ flow.prompted /\ Submit(Head(queue))
    <3>1. /\ flow'.prompted /\ flow'.held = NoCode /\ told' \in {"verifying", "undelivered"}
          /\ proc'.exit = proc.exit /\ (proc' = proc \/ proc.ui = "mfa")
      BY ONLY <1>0, <2>3, SubmitEffect
    <3>2. Ended'
      BY <1>0, <2>1, <3>1
    <3>3. Holding' /\ HeldCodeIsFresh'
      BY <1>0, <2>1, <3>1
    <3>4. TimedOut' /\ Once
      BY <2>1, <3>1
    <3>5. Kept
      BY <1>0, <2>1, <2>3
    <3> QED BY <3>2, <3>3, <3>4, <3>5
  <2>4. CASE /\ Head(queue) \in Codes /\ ~flow.prompted
             /\ flow' = [flow EXCEPT !.held = [code |-> Head(queue), run |-> run]]
             /\ UNCHANGED <<proc, told>>
    <3>1. /\ flow'.held.run = run /\ flow'.held.code # "none" /\ ~flow'.prompted
      BY <1>0, <2>4 DEF Flows, Codes
    <3>2. flow'.held # NoCode
      BY <3>1 DEF NoCode
    <3> QED BY <1>0, <2>1, <2>4, <3>1, <3>2
  <2> QED BY <1>7, <2>2, <2>3, <2>4 DEF Command, HandleCode
<1>8. CASE SeePrompt
  <2>1. PICK d \in BOOLEAN : flow' = [flow EXCEPT !.prompted = TRUE, !.delivered = d]
    BY <1>8 DEF SeePrompt, DeliveredOrNot
  <2>2. flow'.prompted /\ flow'.held = flow.held
    BY <1>0, <2>1 DEF Flows
  <2> QED BY <1>0, <1>8, <2>2 DEF SeePrompt, Sees
<1>9. CASE Handover
  <2>1. flow.held.code \in Codes /\ flow.prompted
    BY <1>0, <1>9 DEF Handover, Flows
  <2>2. /\ flow'.prompted /\ flow'.held = NoCode /\ told' \in {"verifying", "undelivered"}
        /\ proc'.exit = proc.exit /\ (proc' = proc \/ proc.ui = "mfa")
    BY ONLY <1>0, <1>9, <2>1, SubmitEffect DEF Handover
  <2>3. pc = "handover" /\ pc' = "wait" /\ run' = run
    BY <1>9 DEF Handover
  <2>4. Ended'
    BY <1>0, <2>2, <2>3
  <2>5. Holding' /\ HeldCodeIsFresh'
    BY <2>2, <2>3
  <2>6. TimedOut' /\ Once
    BY <2>2, <2>3
  <2> QED BY <2>3, <2>4, <2>5, <2>6
<1>10. CASE SeeDeadline \/ SeePassword
  <2>1. /\ pc = "react" /\ pc' = "wait" /\ run' = run /\ proc' = Terminated
        /\ told' = "password" \/ (told' = "timeout" /\ flow.prompted)
    BY <1>10 DEF SeeDeadline, SeePassword, Sees
  <2>2. flow'.prompted = flow.prompted /\ flow'.held = flow.held
    BY <1>0, <1>10 DEF SeeDeadline, SeePassword, Flows
  <2> QED BY <1>0, <2>1, <2>2, TerminatedTypes
<1>11. CASE SeeWaiting
  <2>1. flow'.prompted = flow.prompted /\ flow'.held = flow.held
    BY <1>0, <1>11 DEF SeeWaiting, Flows
  <2> QED BY <1>0, <1>11, <2>1 DEF SeeWaiting, Sees
<1>12. CASE SeeSuccess
  BY <1>0, <1>12 DEF SeeSuccess, Sees, NoFlow, Coherent
<1>13. CASE ServerUp \/ NeedCode \/ NeedPassword \/ Verify \/ Finish
  BY <1>0, <1>13, ShowEffect
<1> QED BY <1>2, <1>3, <1>4, <1>5, <1>6, <1>7, <1>8, <1>9, <1>10, <1>11, <1>12, <1>13,
           <1>14
        DEF Next, MainThread, Environment

LEMMA FlowInit == Init => FlowInv
<1> SUFFICES ASSUME Init PROVE FlowInv
  OBVIOUS
<1>1. proc \in Procs /\ proc.exit = "ok" /\ proc.ui = "down"
  BY DEF Init, NewProcess, Procs, Uis
<1>2. age \in Ages
  BY BridgeAssumption DEF Init, Ages
<1>3. /\ queue \in Seq(Commands) /\ Len(queue) <= MaxQueue
      /\ run \in 0 .. 1 /\ sent \in 0 .. MaxSent
  BY BridgeAssumption DEF Init
<1>4. TypeOK
  BY <1>1, <1>2, <1>3, FreshTypes, TypesNamed DEF Init, Pcs, Tolds
<1>5. Ended /\ Holding /\ HeldCodeIsFresh /\ TimedOut
  BY <1>1 DEF Init, Ended, Holding, HeldCodeIsFresh, TimedOut, Running, NoFlow
<1> QED BY <1>4, <1>5 DEF FlowInv

\* A submission ----------------------------------------------------------------------

\* Without blips every step keeps the fate of a submission.
LEMMA SuccessStep ==
  ASSUME FlowInv, FlowInv', SuccessInv, [Next]_vars, "blip" \notin Faults
  PROVE  SuccessInv'
<1>0. /\ pc \in Pcs /\ flow \in Flows /\ Coherent(flow) /\ status \in Seen /\ proc \in Procs
      /\ queue \in Seq(Commands)
      /\ Ended /\ Holding /\ Pending /\ SeenAfter /\ Settled /\ SuccessFinal
      /\ SuccessRetracted
  BY TypesNamed DEF FlowInv, SuccessInv
<1> SUFFICES Pending' /\ SeenAfter' /\ Settled' /\ SuccessFinal' /\ SuccessRetracted'
  BY DEF SuccessInv
<1> USE DEF Ended, Pending, SeenAfter, VerdictAwaited, Settled, SuccessFinal,
            SuccessRetracted, Running
<1>1. CASE UNCHANGED vars
  BY <1>0, <1>1 DEF vars
<1>2. CASE Drained \/ SeeChecking \/ SeeNothing \/ Stray \/ Send \/ Clock
  BY <1>0, <1>2 DEF Drained, SeeChecking, SeeNothing, Stray, Send, Clock, Sees
<1>3. CASE StartRun
  BY <1>0, <1>3 DEF StartRun, NoFlow, NewProcess
<1>4. CASE RunOver
  BY <1>0, <1>4 DEF RunOver, Reports, NoFlow
<1>5. CASE Raise
  BY <1>0, <1>5, GoneTypes DEF Raise
<1>14. CASE BeginTick \/ StopTick \/ Terminate
  <2>1. \/ proc'.exit # "running" /\ proc'.ui = "down" /\ proc'.accepted = proc.accepted
        \/ /\ proc'.exit = proc.exit /\ proc'.ui = proc.ui /\ proc'.error = proc.error
           /\ proc'.accepted = proc.accepted
    <3>1. CASE BeginTick
      <4>1. PICK late \in BOOLEAN : proc' = [proc EXCEPT !.timedOut = late]
        BY <3>1 DEF BeginTick
      <4> QED BY <1>0, <4>1, LateTypes
    <3>2. CASE StopTick
      <4>1. PICK late \in BOOLEAN : proc' = [Gone("cut") EXCEPT !.timedOut = late]
        BY <3>2 DEF StopTick
      <4> QED BY <1>0, <4>1, LateTypes
    <3>3. CASE Terminate
      BY <1>0, <3>3, TerminatedTypes DEF Terminate
    <3> QED BY <1>14, <3>1, <3>2, <3>3
  <2>2. /\ pc = "wait" /\ pc' \in {"wait", "drain"}
        /\ UNCHANGED <<queue, flow, age, status, run, sent, told>>
    BY <1>14 DEF BeginTick, StopTick, Terminate
  <2> QED BY <1>0, <2>1, <2>2
<1>6. CASE Command
  <2>1. pc = "drain" /\ pc' = "drain"
    BY <1>6 DEF Command
  <2>2. CASE UNCHANGED <<proc, told>> /\ flow'.submitted = flow.submitted
             /\ flow'.prompted = flow.prompted
    BY <1>0, <2>1, <2>2
  <2>3. CASE Head(queue) \in Codes /\ flow.prompted /\ Submit(Head(queue))
    BY <1>0, <2>1, <2>3, SubmitEffect
  <2>4. CASE /\ flow' = [flow EXCEPT !.held = [code |-> Head(queue), run |-> run]]
             /\ UNCHANGED <<proc, told>>
    BY <1>0, <2>2, <2>4 DEF Flows
  <2> QED BY <1>6, <2>2, <2>3, <2>4 DEF Command, HandleCode
<1>7. CASE Look
  <2>1. /\ pc = "look" /\ pc' = "react" /\ status' = Page /\ UNCHANGED <<flow, proc, told>>
    BY <1>7 DEF Look
  <2>2. Page.state = IF proc.ui = "down" THEN "unreachable" ELSE proc.ui
    BY DEF Page
  <2> QED BY <1>0, <2>1, <2>2
<1>8. CASE SeePrompt
  <2>1. /\ pc = "react" /\ status.state = "mfa" /\ ~flow.submitted
        /\ pc' \in {"wait", "handover"} /\ UNCHANGED <<proc, told>>
    BY <1>0, <1>8 DEF SeePrompt, Coherent, Sees
  <2>2. PICK d \in BOOLEAN : flow' = [flow EXCEPT !.prompted = TRUE, !.delivered = d]
    BY <1>8 DEF SeePrompt, DeliveredOrNot
  <2>3. flow'.submitted = flow.submitted
    BY <1>0, <2>2 DEF Flows
  <2> QED BY <1>0, <2>1, <2>3
<1>9. CASE Handover
  <2>1. flow.held.code \in Codes /\ flow.prompted
    BY <1>0, <1>9 DEF Handover, Flows, Holding
  <2> QED BY <1>0, <1>9, <2>1, SubmitEffect DEF Handover
<1>10. CASE SeeDeadline \/ SeePassword
  <2>1. /\ pc = "react" /\ pc' = "wait" /\ proc' = Terminated
        /\ told' \in {"timeout", "password"}
    BY <1>10 DEF SeeDeadline, SeePassword, Sees
  <2> QED BY <1>0, <2>1, TerminatedTypes
<1>11. CASE SeeWaiting
  <2>1. /\ pc = "react" /\ pc' = "wait" /\ UNCHANGED proc
        /\ told' \in {"rejected", told}
    BY <1>11 DEF SeeWaiting, Sees
  <2>2. flow'.prompted = flow.prompted /\ (flow'.submitted => flow.submitted)
    BY <1>0, <1>11 DEF SeeWaiting, Flows
  <2> QED BY <1>0, <2>1, <2>2
<1>12. CASE SeeSuccess
  BY <1>0, <1>12 DEF SeeSuccess, Sees, NoFlow
<1>13. CASE ServerUp \/ NeedCode \/ NeedPassword \/ Verify \/ Finish
  BY <1>0, <1>13, ShowEffect
<1> QED BY <1>1, <1>2, <1>3, <1>4, <1>5, <1>6, <1>7, <1>8, <1>9, <1>10, <1>11, <1>12, <1>13,
           <1>14
        DEF Next, MainThread, Environment

LEMMA SuccessInit == Init => SuccessInv
  BY DEF Init, SuccessInv, Pending, SeenAfter, VerdictAwaited, Settled, SuccessFinal,
         SuccessRetracted, NoFlow, NewProcess

\* Theorems --------------------------------------------------------------------------

LEMMA FlowHolds == Spec => []FlowInv
<1>1. FlowInv /\ [Next]_vars => FlowInv'
  BY FlowStep
<1> QED BY <1>1, FlowInit, PTL DEF Spec

\* Every variable of the bridge has its type, and nothing is submitted to or
\* delivered for a prompt that was not noticed, under every fault.
THEOREM BridgeTypes == Spec => []TypeOK
<1>1. FlowInv => TypeOK
  BY DEF FlowInv
<1> QED BY <1>1, FlowHolds, PTL

\* A code that came early is out of the buffer by the end of the tick that
\* notices the prompt, under every fault.
THEOREM EarlyCodeNotLeft == Spec => []EarlyCodeUsed
<1>1. FlowInv => EarlyCodeUsed
  BY DEF FlowInv, Holding, EarlyCodeUsed
<1> QED BY <1>1, FlowHolds, PTL

\* A held code is one of the run in flight, also after an exception.
THEOREM HeldCodeFresh == Spec => []HeldCodeIsFresh
<1>1. FlowInv => HeldCodeIsFresh
  BY DEF FlowInv
<1> QED BY <1>1, FlowHolds, PTL

\* A held code leaves the buffer only for the prompt or because the run is over.
THEOREM EarlyCodeNotLost == Spec => EarlyCodeKept
<1>1. FlowInv /\ [Next]_vars =>
        [flow.held # NoCode /\ flow'.held = NoCode => pc = "handover" \/ ~Running]_flow
  BY FlowStep
<1> QED BY <1>1, FlowHolds, PTL DEF Spec, EarlyCodeKept

\* Nobody is told of a failed sync after being told that the wait timed out.
THEOREM OneReport == Spec => NoSecondReport
<1>1. FlowInv /\ [Next]_vars => [~(told = "timeout" /\ told' = "failed")]_told
  BY FlowStep
<1> QED BY <1>1, FlowHolds, PTL DEF Spec, NoSecondReport

LEMMA SuccessHolds ==
  ASSUME "blip" \notin Faults
  PROVE  Spec => []SuccessInv
<1>1. FlowInv /\ FlowInv' /\ SuccessInv /\ [Next]_vars => SuccessInv'
  BY SuccessStep
<1> QED BY <1>1, FlowHolds, SuccessInit, PTL DEF Spec

\* While every look at the page succeeds, nobody is told of a success while
\* icloudpd is alive and Apple has not taken the code, whatever POSTs and messages
\* are lost, whatever raises and wherever icloudpd dies.
THEOREM SuccessAfterVerdict ==
  ASSUME "blip" \notin Faults
  PROVE  Spec => []VerdictAwaited
<1>1. SuccessInv => VerdictAwaited
  BY DEF SuccessInv, SeenAfter
<1> QED BY <1>1, SuccessHolds, PTL

\* And a success that was reported too early, of a process that died while it
\* verified the code, is followed by the report of the failure.
THEOREM FalseSuccessRetracted ==
  ASSUME "blip" \notin Faults
  PROVE  Spec => []SuccessRetracted
<1>1. SuccessInv => SuccessRetracted
  BY DEF SuccessInv
<1> QED BY <1>1, SuccessHolds, PTL
=============================================================================
