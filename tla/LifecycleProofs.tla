--------------------------- MODULE LifecycleProofs ---------------------------
(***************************************************************************)
(* Proofs about module Lifecycle, for all durations and all settings.      *)
(***************************************************************************)
EXTENDS Lifecycle, TLAPS

-------------------------------------------------------------------------------
\* Type correctness

LEMMA LoadsType == ASSUME NEW f \in Files PROVE Loads(Settings(f)) \in BOOLEAN
BY DEF Loads

LEMMA InitTypes == Init => TypeOK
<1> SUFFICES ASSUME Init PROVE TypeOK
  OBVIOUS
<1>1. file \in Files /\ loads \in BOOLEAN
  BY LoadsType DEF Init
<1>2. ~manual /\ manual \in BOOLEAN
  BY Zenon DEF Init
<1>3. /\ left \in Nat /\ runs \in 0 .. Runs /\ ~(runs > 0) /\ burst \in 0 .. Burst
      /\ beacon \in 0 .. Limit + 1 /\ tickAge \in 0 .. TickGap + 1 /\ loopAge \in 0 .. LoopGap + 1
      /\ probeIn \in 1 .. Probe /\ failing \in 0 .. Retries /\ up \in 0 .. StartPeriod
      /\ lapse \in {"none", "raised", "open", "mended"}
  BY DurationsAssumption DEF Init
<1>4. pc \in Serving \union {"off", "greet", "paused", "hung"} /\ pc \notin InCycle \union {"hung"}
  BY DEF Init, InCycle
<1> QED
  BY <1>1, <1>2, <1>3, <1>4 DEF TypeOK

LEMMA MessagesType ==
  ASSUME NEW n \in Nat
  PROVE  Messages(n) \in Nat /\ Messages(n) <= n * Message
BY DurationsAssumption DEF Messages

LEMMA StepTypes == TypeOK /\ [Next]_vars => TypeOK'
<1> SUFFICES ASSUME TypeOK, [Next]_vars PROVE TypeOK'
  OBVIOUS
<1> USE DurationsAssumption
<1>0. /\ Messages(1) \in Nat /\ Messages(2) \in Nat
  BY MessagesType
<1> USE <1>0
<1>1. CASE Start
  BY <1>1 DEF Start, TypeOK, Serving, Iteration, InCycle, Block, WriteStatus, Written, thread, ages, docker, volume
<1>2. CASE Greeted
  BY <1>2 DEF Greeted, TypeOK, Serving, Iteration, InCycle, Block, WriteStatus, Written, thread, ages, docker, volume
<1>3. CASE NoCommand
  BY <1>3 DEF NoCommand, TypeOK, Serving, Iteration, InCycle, Block, WriteStatus, Written, thread, ages, docker, volume
<1>4. CASE Command
  BY <1>4 DEF Command, TypeOK, Serving, Iteration, InCycle, Block, WriteStatus, Written, thread, ages, docker, volume
<1>5. CASE Answered
  BY <1>5 DEF Answered, TypeOK, Serving, Iteration, InCycle, Block, WriteStatus, Written, thread, ages, docker, volume, Resume
<1>6. CASE NotDue
  BY <1>6 DEF NotDue, TypeOK, Serving, Iteration, InCycle, Block, WriteStatus, Written, thread, ages, docker, volume
<1>7. CASE Warned
  BY <1>7 DEF Warned, TypeOK, Serving, Iteration, InCycle, Block, WriteStatus, Written, thread, ages, docker, volume
<1>8. CASE Refuse
  BY <1>8 DEF Refuse, TypeOK, Serving, Iteration, InCycle, Block, WriteStatus, Written, thread, ages, docker, volume
<1>9. CASE Launch
  BY <1>9 DEF Launch, TypeOK, Serving, Iteration, InCycle, Block, WriteStatus, Written, thread, ages, docker, volume
<1>10. CASE Tick
  BY <1>10 DEF Tick, TypeOK, Serving, Iteration, InCycle, Block, WriteStatus, Written, thread, ages, docker, volume
<1>11. CASE Drain
  BY <1>11 DEF Drain, TypeOK, Serving, Iteration, InCycle, Block, WriteStatus, Written, thread, ages, docker, volume
<1>12. CASE Look
  BY <1>12 DEF Look, TypeOK, Serving, Iteration, InCycle, Block, WriteStatus, Written, thread, ages, docker, volume
<1>13. CASE Prompted
  BY <1>13 DEF Prompted, TypeOK, Serving, Iteration, InCycle, Block, WriteStatus, Written, thread, ages, docker, volume
<1>14. CASE Told
  BY <1>14 DEF Told, TypeOK, Serving, Iteration, InCycle, Block, WriteStatus, Written, thread, ages, docker, volume
<1>15. CASE Verified
  BY <1>15 DEF Verified, TypeOK, Serving, Iteration, InCycle, Block, WriteStatus, Written, thread, ages, docker, volume
<1>16. CASE Abort
  BY <1>16 DEF Abort, TypeOK, Serving, Iteration, InCycle, Block, WriteStatus, Written, thread, ages, docker, volume
<1>17. CASE TickDone
  BY <1>17 DEF TickDone, TypeOK, Serving, Iteration, InCycle, Block, WriteStatus, Written, thread, ages, docker, volume
<1>18. CASE RunEnds
  BY <1>18 DEF RunEnds, TypeOK, Serving, Iteration, InCycle, Block, WriteStatus, Written, thread, ages, docker, volume
<1>19. CASE NextRun
  BY <1>19 DEF NextRun, TypeOK, Serving, Iteration, InCycle, Block, WriteStatus, Written, thread, ages, docker, volume
<1>30. CASE NoneShared
  BY <1>30 DEF NoneShared, TypeOK, Serving, Iteration, InCycle, Block, thread, ages, docker, volume
<1>20. CASE Report
  BY <1>20 DEF Report, TypeOK, Serving, Iteration, InCycle, Block, WriteStatus, Written, thread, ages, docker, volume
<1>21. CASE Finish
  <2>1. /\ pc' \in {"due", "warn"} /\ runs' = 0 /\ manual' = FALSE
    BY <1>21 DEF Finish, Block, Resume
  <2>2. left' \in Nat /\ file' \in Files /\ loads' \in BOOLEAN /\ burst' \in 0 .. Burst
    BY <1>21 DEF Finish, TypeOK, Serving, Iteration, InCycle, Block, WriteStatus, Written, thread, ages, docker, volume, Resume
  <2>3. /\ beacon' \in 0 .. Limit + 1 /\ tickAge' \in 0 .. TickGap + 1 /\ loopAge' \in 0 .. LoopGap + 1
        /\ probeIn' \in 1 .. Probe /\ failing' \in 0 .. Retries /\ up' \in 0 .. StartPeriod
        /\ lapse' \in {"none", "raised", "open", "mended"}
    BY <1>21 DEF Finish, TypeOK, Serving, Iteration, InCycle, Block, WriteStatus, Written, thread, ages, docker, volume, Resume
  <2>4. ~manual' /\ manual' \in BOOLEAN
    BY <2>1, Zenon
  <2>5. runs' \in 0 .. Runs /\ ~(runs' > 0)
    BY <2>1
  <2>6. pc' \in Serving \union {"off", "greet", "paused", "hung"} /\ pc' \notin InCycle \union {"hung"}
    BY <2>1 DEF Serving, Iteration, InCycle
  <2> QED BY <2>2, <2>3, <2>4, <2>5, <2>6 DEF TypeOK
<1>22. CASE Raise
  <2>1. /\ pc' \in {"error"} /\ runs' = 0 /\ manual' = FALSE
    BY <1>22 DEF Raise, Block
  <2>2. left' \in Nat /\ file' \in Files /\ loads' \in BOOLEAN /\ burst' \in 0 .. Burst
    BY <1>22 DEF Raise, TypeOK, Serving, Iteration, InCycle, Block, WriteStatus, Written, thread, ages, docker, volume
  <2>3. /\ beacon' \in 0 .. Limit + 1 /\ tickAge' \in 0 .. TickGap + 1 /\ loopAge' \in 0 .. LoopGap + 1
        /\ probeIn' \in 1 .. Probe /\ failing' \in 0 .. Retries /\ up' \in 0 .. StartPeriod
        /\ lapse' \in {"none", "raised", "open", "mended"}
    BY <1>22 DEF Raise, TypeOK, Serving, Iteration, InCycle, Block, WriteStatus, Written, thread, ages, docker, volume
  <2>4. ~manual' /\ manual' \in BOOLEAN
    BY <2>1, Zenon
  <2>5. runs' \in 0 .. Runs /\ ~(runs' > 0)
    BY <2>1
  <2>6. pc' \in Serving \union {"off", "greet", "paused", "hung"} /\ pc' \notin InCycle \union {"hung"}
    BY <2>1 DEF Serving, Iteration, InCycle
  <2> QED BY <2>2, <2>3, <2>4, <2>5, <2>6 DEF TypeOK
<1>23. CASE Logged
  BY <1>23 DEF Logged, TypeOK, Serving, Iteration, InCycle, Block, WriteStatus, Written, thread, ages, docker, volume
<1>24. CASE Hang
  BY <1>24 DEF Hang, TypeOK, Serving, Iteration, InCycle, Block, WriteStatus, Written, thread, ages, docker, volume
<1>25. CASE Kill
  <2>1. /\ pc' \in {"off"} /\ runs' = 0 /\ manual' = FALSE
    BY <1>25 DEF Kill, Block, Down
  <2>2. left' \in Nat /\ file' \in Files /\ loads' \in BOOLEAN /\ burst' \in 0 .. Burst
    BY <1>25 DEF Kill, TypeOK, Serving, Iteration, InCycle, Block, WriteStatus, Written, thread, ages, docker, volume, Down
  <2>3. /\ beacon' \in 0 .. Limit + 1 /\ tickAge' \in 0 .. TickGap + 1 /\ loopAge' \in 0 .. LoopGap + 1
        /\ probeIn' \in 1 .. Probe /\ failing' \in 0 .. Retries /\ up' \in 0 .. StartPeriod
        /\ lapse' \in {"none", "raised", "open", "mended"}
    BY <1>25 DEF Kill, TypeOK, Serving, Iteration, InCycle, Block, WriteStatus, Written, thread, ages, docker, volume, Down
  <2>4. ~manual' /\ manual' \in BOOLEAN
    BY <2>1, Zenon
  <2>5. runs' \in 0 .. Runs /\ ~(runs' > 0)
    BY <2>1
  <2>6. pc' \in Serving \union {"off", "greet", "paused", "hung"} /\ pc' \notin InCycle \union {"hung"}
    BY <2>1 DEF Serving, Iteration, InCycle
  <2> QED BY <2>2, <2>3, <2>4, <2>5, <2>6 DEF TypeOK
<1>26. CASE Autoheal
  <2>1. /\ pc' \in {"off"} /\ runs' = 0 /\ manual' = FALSE
    BY <1>26 DEF Autoheal, Block, Down
  <2>2. left' \in Nat /\ file' \in Files /\ loads' \in BOOLEAN /\ burst' \in 0 .. Burst
    BY <1>26 DEF Autoheal, TypeOK, Serving, Iteration, InCycle, Block, WriteStatus, Written, thread, ages, docker, volume, Down
  <2>3. /\ beacon' \in 0 .. Limit + 1 /\ tickAge' \in 0 .. TickGap + 1 /\ loopAge' \in 0 .. LoopGap + 1
        /\ probeIn' \in 1 .. Probe /\ failing' \in 0 .. Retries /\ up' \in 0 .. StartPeriod
        /\ lapse' \in {"none", "raised", "open", "mended"}
    BY <1>26 DEF Autoheal, TypeOK, Serving, Iteration, InCycle, Block, WriteStatus, Written, thread, ages, docker, volume, Down
  <2>4. ~manual' /\ manual' \in BOOLEAN
    BY <2>1, Zenon
  <2>5. runs' \in 0 .. Runs /\ ~(runs' > 0)
    BY <2>1
  <2>6. pc' \in Serving \union {"off", "greet", "paused", "hung"} /\ pc' \notin InCycle \union {"hung"}
    BY <2>1 DEF Serving, Iteration, InCycle
  <2> QED BY <2>2, <2>3, <2>4, <2>5, <2>6 DEF TypeOK
<1>27. CASE Edit
  BY <1>27 DEF Edit, TypeOK, Serving, Iteration, InCycle, Block, WriteStatus, Written, thread, ages, docker, volume, Loads, Malformed, Valid
<1>28. CASE Clock
  BY <1>28 DEF Clock, TypeOK, Serving, Iteration, InCycle, Block, WriteStatus, Written, thread, ages, docker, volume, Older, Check
<1>29. CASE UNCHANGED vars
  BY <1>29 DEF vars, TypeOK, thread, ages, docker, volume
<1> QED
  BY <1>1, <1>2, <1>3, <1>4, <1>5, <1>6, <1>7, <1>8, <1>9, <1>10, <1>11, <1>12, <1>13, <1>14, <1>15, <1>16, <1>17, <1>18, <1>19, <1>20, <1>21, <1>22, <1>23, <1>24, <1>25, <1>26, <1>27, <1>28, <1>29, <1>30
  DEF Next, Loop, Run

\* The type invariant holds for all durations and settings (state of the main
\* thread, main.py and scheduler.py).
THEOREM LifecycleTypes == Spec => []TypeOK
<1>1. Init => TypeOK
  BY InitTypes
<1>2. TypeOK /\ [Next]_vars => TypeOK'
  BY StepTypes
<1> QED
  BY <1>1, <1>2, PTL DEF Spec

-------------------------------------------------------------------------------
\* The age of the beacon: every place of the main thread has a latest age at
\* which it can be left.  A tick does not refresh a beacon written within
\* TickGap; then come the commands, the page, and what follows from it; a run
\* that ends before its first tick is followed by another, the first perhaps by a
\* message; an exception leads back to the loop without a refresh, and a last
\* command delays it once more.

Slower == IF Pause >= Ending THEN Pause ELSE Ending
Ticked(u) == TickGap + u * (Request + Message)
Paged == Ticked(Burst) + Request
Base(r) == Paged + 2 * Message + Request + Slower + (r - 1) * (Pause + Ending)
Running(r) == Base(r) + (IF r = 1 THEN 0 ELSE Message)
Closed == Base(Runs) + Message + Ending
Failed == Closed + Message + Ending + Message + Pause
LongestGap == Failed + Pause + 2 * Message

Within(p, b, l, r, u) ==
  /\ p = "tick" => b + l <= Ticked(u)
  /\ p = "page" => b + l <= Paged
  /\ p = "reply" => b + l <= Paged + 2 * Message + Request
  /\ p = "success" => b + l <= Paged + Message
  /\ p = "end" => b + l <= Paged + 2 * Message + Request + Ending
  /\ p = "run" => b + l <= Running(r)
  /\ p = "close" => b + l <= Running(r) + Ending
  /\ p = "resolve" => r = 1 /\ b + l <= Running(r) + Ending + Message
  /\ p = "report" => b + l <= Closed + Message
  /\ p = "error" => b + l <= Failed
  /\ p = "wait" => b + l <= Failed + Pause
  /\ p \in {"answer", "order", "due"} => b + l <= Failed + Pause + Message
  /\ p = "warn" => b + l <= LongestGap

\* Without an exception the loop itself does not get far from a write.
Quick(p, b, l) ==
  /\ p # "error"
  /\ p = "wait" => b + l <= LoopGap + Pause
  /\ p \in {"answer", "order", "due"} => b + l <= LoopGap + Pause + Message
  /\ p = "warn" => b + l <= LoopGap + Pause + 2 * Message

Refreshed ==
  /\ pc \in Serving /\ tickAge <= TickGap => beacon <= tickAge
  /\ pc \in Serving /\ loopAge <= LoopGap => beacon <= loopAge

Timely ==
  /\ lapse # "open" => Within(pc, beacon, left, runs, burst)
  /\ lapse \in {"none", "mended"} => Quick(pc, beacon, left)

FreshInv == Timely /\ Refreshed

LEMMA DrainTime ==
  ASSUME NEW u \in 0 .. Burst
  PROVE  /\ Ticked(u) \in Nat /\ TickGap <= Ticked(u) /\ Ticked(u) <= Ticked(Burst)
         /\ Ticked(u + 1) = Ticked(u) + Request + Message
         /\ Ticked(0) = TickGap
<1>1. /\ TickGap \in Nat /\ Request + Message \in Nat /\ Burst \in Nat
      /\ Request \in Nat /\ Message \in Nat
  BY DurationsAssumption
<1>2. \A k \in Nat : /\ u * k \in Nat /\ u * k <= Burst * k /\ (u + 1) * k = u * k + k
                     /\ Burst * k \in Nat /\ 0 * k = 0
  BY <1>1
<1> QED
  BY <1>1, <1>2 DEF Ticked

LEMMA RunTime ==
  ASSUME NEW r \in 1 .. Runs
  PROVE  /\ Running(r) \in Nat /\ Running(r) + Ending <= Closed
         /\ Running(r + 1) \in Nat
         /\ r + 1 <= Runs => Running(r) + Pause + Ending <= Running(r + 1)
         /\ r = 1 /\ r + 1 <= Runs => Running(r) + Message + Pause + Ending <= Running(r + 1)
         /\ r = 1 => Running(r) + Ending + Message <= Closed
         /\ Paged \in Nat /\ Slower \in Nat /\ Closed \in Nat
         /\ Paged + 2 * Message + Request + Slower <= Running(r)
<1>1. /\ Pause \in Nat /\ Ending \in Nat /\ Pause + Ending \in Nat /\ Runs \in Nat \ {0}
      /\ Request \in Nat /\ Message \in Nat /\ Burst \in Nat
  BY DurationsAssumption
<1>2. \A k \in Nat : /\ (r - 1) * k \in Nat /\ (r - 1) * k <= (Runs - 1) * k
                     /\ (r + 1 - 1) * k = (r - 1) * k + k /\ (Runs - 1) * k \in Nat
  BY <1>1
<1>3. Paged \in Nat /\ Slower \in Nat
  BY <1>1, DrainTime DEF Paged, Slower
<1>4. /\ Base(r) \in Nat /\ Base(r) <= Base(Runs) /\ Base(r + 1) = Base(r) + Pause + Ending
      /\ Base(Runs) \in Nat /\ Paged + 2 * Message + Request + Slower <= Base(r)
  BY <1>1, <1>2, <1>3 DEF Base
<1>5. /\ Running(r) = Base(r) \/ Running(r) = Base(r) + Message
      /\ r = 1 => Running(r) = Base(r)
      /\ r # 1 => Running(r) = Base(r) + Message
      /\ Running(r + 1) = Base(r + 1) + Message
      /\ Closed = Base(Runs) + Message + Ending
  BY <1>1, <1>4 DEF Running, Closed
<1> QED
  BY <1>1, <1>3, <1>4, <1>5

LEMMA Sizes ==
  ASSUME TypeOK
  PROVE  /\ Message \in Nat /\ Request \in Nat /\ Ending \in Nat /\ Pause \in Nat /\ Limit \in Nat
         /\ TickGap \in Nat /\ LoopGap \in Nat /\ LoopGap <= TickGap
         /\ left \in Nat /\ beacon \in Nat /\ tickAge \in Nat /\ loopAge \in Nat
         /\ Paged \in Nat /\ Slower \in Nat /\ Closed \in Nat /\ Failed \in Nat
         /\ TickGap <= Paged /\ Paged + 2 * Message + Request + Slower + Ending <= Closed
         /\ Pause <= Slower /\ Ending <= Slower
         /\ Failed = Closed + Message + Ending + Message + Pause
         /\ LongestGap = Failed + Pause + 2 * Message
         /\ Messages(1) \in Nat /\ Messages(1) <= Message
         /\ Messages(2) \in Nat /\ Messages(2) <= 2 * Message
<1>1. /\ Message \in Nat /\ Request \in Nat /\ Ending \in Nat /\ Pause \in Nat /\ Limit \in Nat
      /\ TickGap \in Nat /\ LoopGap \in Nat /\ LoopGap <= TickGap /\ Burst \in Nat /\ Runs \in 1 .. Runs
  BY DurationsAssumption
<1>2. /\ Paged \in Nat /\ Slower \in Nat /\ Closed \in Nat /\ Running(Runs) \in Nat
      /\ Paged + 2 * Message + Request + Slower <= Running(Runs) /\ Running(Runs) + Ending <= Closed
  BY <1>1, RunTime
<1>3. TickGap <= Paged
  BY <1>1, DrainTime DEF Paged
<1>4. Pause <= Slower /\ Ending <= Slower
  BY <1>1 DEF Slower
<1>5. left \in Nat /\ beacon \in Nat /\ tickAge \in Nat /\ loopAge \in Nat
  BY <1>1 DEF TypeOK
<1>6. /\ Messages(1) \in Nat /\ Messages(1) <= Message /\ Messages(2) \in Nat /\ Messages(2) <= 2 * Message
  BY <1>1, MessagesType
<1> QED
  BY <1>1, <1>2, <1>3, <1>4, <1>5, <1>6 DEF Failed, LongestGap

\* The bounds at the run in flight.
LEMMA RunSizes ==
  ASSUME TypeOK
  PROVE  /\ pc \in InCycle =>
              /\ Running(runs) \in Nat /\ Running(runs) + Ending <= Closed
              /\ Running(runs + 1) \in Nat
              /\ runs + 1 <= Runs => Running(runs) + Pause + Ending <= Running(runs + 1)
              /\ runs = 1 /\ runs + 1 <= Runs =>
                   Running(runs) + Message + Pause + Ending <= Running(runs + 1)
              /\ runs = 1 => Running(runs) + Ending + Message <= Closed
              /\ Paged + 2 * Message + Request + Slower <= Running(runs)
              /\ runs \in Nat /\ Runs \in Nat
         /\ Running(1) \in Nat /\ Paged + 2 * Message + Request + Slower <= Running(1)
         /\ burst \in 0 .. Burst /\ Burst \in Nat /\ Paged = Ticked(Burst) + Request
         /\ Ticked(burst) \in Nat /\ Ticked(Burst) \in Nat /\ Ticked(burst) <= Ticked(Burst)
         /\ Ticked(burst + 1) = Ticked(burst) + Request + Message /\ Ticked(0) = TickGap
<1>1. pc \in InCycle => runs \in 1 .. Runs
  BY DEF TypeOK, InCycle
<1>2. 1 \in 1 .. Runs /\ Runs \in Nat /\ Burst \in Nat
  BY DurationsAssumption
<1>3. burst \in 0 .. Burst /\ Paged = Ticked(Burst) + Request
  BY DEF TypeOK, Paged
<1>4. /\ Ticked(burst) \in Nat /\ Ticked(Burst) \in Nat /\ Ticked(burst) <= Ticked(Burst)
      /\ Ticked(burst + 1) = Ticked(burst) + Request + Message /\ Ticked(0) = TickGap
  BY <1>2, <1>3, DrainTime
<1>5. Running(1) \in Nat /\ Paged + 2 * Message + Request + Slower <= Running(1)
  BY <1>2, RunTime
<1>6. pc \in InCycle =>
        /\ Running(runs) \in Nat /\ Running(runs) + Ending <= Closed
        /\ Running(runs + 1) \in Nat
        /\ runs + 1 <= Runs => Running(runs) + Pause + Ending <= Running(runs + 1)
        /\ runs = 1 /\ runs + 1 <= Runs =>
             Running(runs) + Message + Pause + Ending <= Running(runs + 1)
        /\ runs = 1 => Running(runs) + Ending + Message <= Closed
        /\ Paged + 2 * Message + Request + Slower <= Running(runs)
        /\ runs \in Nat
  BY <1>1, RunTime
<1> QED
  BY <1>2, <1>3, <1>4, <1>5, <1>6

\* A step of the main thread that keeps the ages, or writes the status file.
LEMMA AgesKept ==
  ASSUME TypeOK, Refreshed, pc \in Serving, TypeOK',
         UNCHANGED <<beacon, tickAge, loopAge>> \/ WriteStatus
  PROVE  Refreshed'
<1>1. CASE UNCHANGED <<beacon, tickAge, loopAge>>
  BY <1>1 DEF Refreshed
<1>2. CASE WriteStatus
  BY <1>2, DurationsAssumption DEF WriteStatus, Written, Refreshed, TypeOK
<1> QED
  BY <1>1, <1>2

\* The loop.
LEMMA LoopFresh ==
  ASSUME TypeOK, TypeOK', FreshInv, Loop
  PROVE  FreshInv'
<1> USE Sizes
<1>0. Timely /\ Refreshed
  BY DEF FreshInv
<1>1. CASE NoCommand
  <2>1. /\ pc = "wait" /\ pc' = "due" /\ left' = 0
        /\ beacon' = beacon /\ lapse' = lapse
        /\ UNCHANGED <<beacon, tickAge, loopAge>> \/ WriteStatus
    BY <1>1 DEF NoCommand, Block, ages
  <2>3. Timely'
    BY <2>1, <1>0 DEF Timely, Within, Quick
  <2> QED BY <2>1, <2>3, AgesKept DEF Serving, Iteration, InCycle, FreshInv
<1>2. CASE Command
  <2>1. /\ pc = "wait" /\ pc' \in {"answer", "order"} /\ left' = Messages(1)
        /\ beacon' = beacon /\ lapse' = lapse
        /\ UNCHANGED <<beacon, tickAge, loopAge>> \/ WriteStatus
    BY <1>2 DEF Command, Block, ages
  <2>3. Timely'
    BY <2>1, <1>0 DEF Timely, Within, Quick
  <2> QED BY <2>1, <2>3, AgesKept DEF Serving, Iteration, InCycle, FreshInv
<1>3. CASE Answered
  <2>1. /\ pc = "answer" /\ pc' \in {"due", "warn"}
        /\ left' \in {0, Messages(1)} /\ (pc' = "due" => left' = 0)
        /\ beacon' = beacon /\ lapse' = lapse
        /\ UNCHANGED <<beacon, tickAge, loopAge>> \/ WriteStatus
    BY <1>3 DEF Answered, Block, ages, Resume
  <2>3. Timely'
    BY <2>1, <1>0 DEF Timely, Within, Quick
  <2> QED BY <2>1, <2>3, AgesKept DEF Serving, Iteration, InCycle, FreshInv
<1>4. CASE NotDue
  <2>1. /\ pc = "due" /\ pc' = "warn" /\ left' = Messages(1)
        /\ beacon' = beacon /\ lapse' = lapse
        /\ UNCHANGED <<beacon, tickAge, loopAge>> \/ WriteStatus
    BY <1>4 DEF NotDue, Block, ages
  <2>3. Timely'
    BY <2>1, <1>0 DEF Timely, Within, Quick
  <2> QED BY <2>1, <2>3, AgesKept DEF Serving, Iteration, InCycle, FreshInv
<1>5. CASE Warned
  <2>1. pc = "warn" /\ pc' = "wait" /\ left' = Pause
    BY <1>5 DEF Warned, Block
  <2>2. CASE loopAge > LoopGap
    <3>1. beacon' = 0 /\ loopAge' = 0 /\ tickAge' = tickAge
      BY <1>5, <2>2 DEF Warned, Written
    <3>2. Timely'
      BY <2>1, <3>1 DEF Timely, Within, Quick
    <3>3. Refreshed'
      BY <3>1 DEF Refreshed
    <3> QED BY <3>2, <3>3 DEF FreshInv
  <2>3. CASE ~(loopAge > LoopGap)
    <3>1. UNCHANGED <<beacon, tickAge, loopAge>>
      BY <1>5, <2>3 DEF Warned, ages
    <3>2. beacon <= LoopGap
      BY <1>0, <2>1, <2>3 DEF Refreshed, Serving, Iteration
    <3>3. Timely'
      BY <2>1, <3>1, <3>2 DEF Timely, Within, Quick
    <3> QED BY <1>0, <2>1, <3>1, <3>3, AgesKept DEF Serving, Iteration, FreshInv
  <2> QED BY <2>2, <2>3
<1> QED
  BY <1>1, <1>2, <1>3, <1>4, <1>5 DEF Loop

\* Cycles and runs.
LEMMA RunFresh ==
  ASSUME TypeOK, TypeOK', FreshInv, Run
  PROVE  FreshInv'
<1> USE Sizes
<1>0. Timely /\ Refreshed
  BY DEF FreshInv
<1>b. pc \in InCycle =>
        /\ Running(runs) \in Nat /\ Running(runs) + Ending <= Closed
        /\ Running(runs + 1) \in Nat
        /\ runs + 1 <= Runs => Running(runs) + Pause + Ending <= Running(runs + 1)
        /\ runs = 1 /\ runs + 1 <= Runs =>
             Running(runs) + Message + Pause + Ending <= Running(runs + 1)
        /\ runs = 1 => Running(runs) + Ending + Message <= Closed
        /\ Paged + 2 * Message + Request + Slower <= Running(runs)
        /\ runs \in Nat /\ Runs \in Nat
  BY RunSizes
<1>d. /\ burst \in 0 .. Burst /\ Burst \in Nat /\ Paged = Ticked(Burst) + Request
      /\ Ticked(burst) \in Nat /\ Ticked(Burst) \in Nat /\ Ticked(burst) <= Ticked(Burst)
      /\ Ticked(burst + 1) = Ticked(burst) + Request + Message /\ Ticked(0) = TickGap
      /\ Running(1) \in Nat /\ Paged + 2 * Message + Request + Slower <= Running(1)
  BY RunSizes
<1>1. CASE Refuse
  <2>1. /\ pc \in {"order", "due"} /\ pc' = "answer" /\ left' = Messages(1)
        /\ beacon' = 0
        /\ UNCHANGED <<beacon, tickAge, loopAge>> \/ WriteStatus
    BY <1>1 DEF Refuse, Block, ages, WriteStatus, Written
  <2>3. Timely'
    BY <2>1, <1>0 DEF Timely, Within, Quick
  <2> QED BY <2>1, <2>3, AgesKept DEF Serving, Iteration, InCycle, FreshInv
<1>2. CASE Launch
  <2>1. /\ pc \in {"order", "due"} /\ pc' = "run" /\ runs' = 1 /\ left' = Pause
        /\ beacon' = 0
        /\ UNCHANGED <<beacon, tickAge, loopAge>> \/ WriteStatus
    BY <1>2 DEF Launch, Block, ages, WriteStatus, Written
  <2>3. Timely'
    BY <2>1, <1>0, <1>d DEF Timely, Within, Quick
  <2> QED BY <2>1, <2>3, AgesKept DEF Serving, Iteration, InCycle, FreshInv
<1>3. CASE Tick
  <2>1. pc = "run" /\ pc' = "tick" /\ left' = 0 /\ burst' = 0
    BY <1>3 DEF Tick, Block
  <2>2. CASE tickAge > TickGap
    <3>1. beacon' = 0 /\ tickAge' = 0 /\ loopAge' = loopAge
      BY <1>3, <2>2 DEF Tick, Written
    <3>2. Timely'
      BY <1>d, <2>1, <3>1 DEF Timely, Within, Quick
    <3>3. Refreshed'
      BY <3>1 DEF Refreshed
    <3> QED BY <3>2, <3>3 DEF FreshInv
  <2>3. CASE ~(tickAge > TickGap)
    <3>1. UNCHANGED <<beacon, tickAge, loopAge>>
      BY <1>3, <2>3 DEF Tick, ages
    <3>2. beacon <= TickGap
      BY <1>0, <2>1, <2>3 DEF Refreshed, Serving, Iteration, InCycle
    <3>3. Timely'
      BY <1>d, <2>1, <3>1, <3>2 DEF Timely, Within, Quick
    <3> QED BY <1>0, <2>1, <3>1, <3>3, AgesKept DEF Serving, Iteration, InCycle, FreshInv
  <2> QED BY <2>2, <2>3
<1>4. CASE Drain
  <2>1. /\ pc = "tick" /\ pc' = "tick" /\ left' = Request + Messages(1)
        /\ UNCHANGED <<beacon, tickAge, loopAge>>
        /\ (burst' = burst + 1 /\ lapse' = lapse) \/ lapse' = "open"
    BY <1>4 DEF Drain, Block
  <2>3. Timely'
    BY <2>1, <1>0, <1>d DEF Timely, Within, Quick
  <2> QED BY <1>0, <2>1, <2>3, AgesKept DEF Serving, Iteration, InCycle, FreshInv
<1>5. CASE Look
  <2>1. /\ pc = "tick" /\ pc' = "page" /\ left' = Request
        /\ beacon' = beacon /\ lapse' = lapse
        /\ UNCHANGED <<beacon, tickAge, loopAge>> \/ WriteStatus
    BY <1>5 DEF Look, Block, ages
  <2>3. Timely'
    BY <2>1, <1>0, <1>d DEF Timely, Within, Quick
  <2> QED BY <2>1, <2>3, AgesKept DEF Serving, Iteration, InCycle, FreshInv
<1>6. CASE Prompted
  <2>1. /\ pc = "page" /\ pc' = "reply" /\ left' = Messages(2) + Request
        /\ beacon' = 0
        /\ UNCHANGED <<beacon, tickAge, loopAge>> \/ WriteStatus
    BY <1>6 DEF Prompted, Block, ages, WriteStatus, Written
  <2>3. Timely'
    BY <2>1, <1>0 DEF Timely, Within, Quick
  <2> QED BY <2>1, <2>3, AgesKept DEF Serving, Iteration, InCycle, FreshInv
<1>7. CASE Told
  <2>1. /\ pc = "page" /\ pc' = "reply" /\ left' = Messages(2)
        /\ beacon' = beacon /\ lapse' = lapse
        /\ UNCHANGED <<beacon, tickAge, loopAge>> \/ WriteStatus
    BY <1>7 DEF Told, Block, ages
  <2>3. Timely'
    BY <2>1, <1>0 DEF Timely, Within, Quick
  <2> QED BY <2>1, <2>3, AgesKept DEF Serving, Iteration, InCycle, FreshInv
<1>8. CASE Verified
  <2>1. /\ pc = "page" /\ pc' = "success" /\ left' = Messages(1)
        /\ beacon' = beacon /\ lapse' = lapse
        /\ UNCHANGED <<beacon, tickAge, loopAge>> \/ WriteStatus
    BY <1>8 DEF Verified, Block, ages
  <2>3. Timely'
    BY <2>1, <1>0 DEF Timely, Within, Quick
  <2> QED BY <2>1, <2>3, AgesKept DEF Serving, Iteration, InCycle, FreshInv
<1>9. CASE Abort
  <2>1. /\ pc = "page" /\ pc' = "end" /\ left' = Messages(2) + Ending
        /\ beacon' = beacon /\ lapse' = lapse
        /\ UNCHANGED <<beacon, tickAge, loopAge>> \/ WriteStatus
    BY <1>9 DEF Abort, Block, ages
  <2>3. Timely'
    BY <2>1, <1>0 DEF Timely, Within, Quick
  <2> QED BY <2>1, <2>3, AgesKept DEF Serving, Iteration, InCycle, FreshInv
<1>10. CASE TickDone
  <2>1. /\ pc \in {"reply", "success"} /\ runs' = runs
        /\ (pc' = "run" /\ left' = Pause) \/ (pc' = "end" /\ left' = Ending)
        /\ (beacon' = beacon /\ lapse' = lapse) \/ beacon' = 0
        /\ UNCHANGED <<beacon, tickAge, loopAge>> \/ WriteStatus
    BY <1>10 DEF TickDone, Block, ages, WriteStatus, Written
  <2>2. pc \in InCycle
    BY <2>1 DEF InCycle
  <2>3. Timely'
    BY <2>1, <1>0, <2>2, <1>b DEF Timely, Within, Quick
  <2> QED BY <2>1, <2>3, AgesKept DEF Serving, Iteration, InCycle, FreshInv
<1>11. CASE RunEnds
  <2>1. /\ pc \in {"run", "end"} /\ pc' = "close" /\ runs' = runs /\ left' = Ending
        /\ beacon' = beacon /\ lapse' = lapse
        /\ UNCHANGED <<beacon, tickAge, loopAge>> \/ WriteStatus
    BY <1>11 DEF RunEnds, Block, ages
  <2>2. pc \in InCycle
    BY <2>1 DEF InCycle
  <2>3. Timely'
    BY <2>1, <1>0, <2>2, <1>b DEF Timely, Within, Quick
  <2> QED BY <2>1, <2>3, AgesKept DEF Serving, Iteration, InCycle, FreshInv
<1>12. CASE NextRun
  <2>1. /\ pc \in {"close", "resolve"} /\ pc' = "run" /\ runs' = runs + 1 /\ left' = Pause
        /\ runs < Runs
        /\ beacon' = beacon /\ lapse' = lapse
        /\ UNCHANGED <<beacon, tickAge, loopAge>> \/ WriteStatus
    BY <1>12 DEF NextRun, Block, ages
  <2>2. pc \in InCycle
    BY <2>1 DEF InCycle
  <2>4. lapse # "open" => beacon + Pause <= Running(runs + 1)
    <3>0. /\ runs + 1 <= Runs /\ Running(runs) \in Nat /\ Running(runs + 1) \in Nat
          /\ beacon \in Nat /\ left \in Nat
          /\ Running(runs) + Pause + Ending <= Running(runs + 1)
          /\ runs = 1 => Running(runs) + Message + Pause + Ending <= Running(runs + 1)
      BY <2>1, <2>2, <1>b
    <3>1. CASE pc = "close" /\ lapse # "open"
      <4>1. beacon + left <= Running(runs) + Ending
        BY <3>1, <1>0 DEF Timely, Within
      <4> QED BY <4>1, <3>0
    <3>2. CASE pc = "resolve" /\ lapse # "open"
      <4>1. runs = 1 /\ beacon + left <= Running(runs) + Ending + Message
        BY <3>2, <1>0 DEF Timely, Within
      <4>2. Running(runs) + Message + Pause + Ending <= Running(runs + 1)
        BY <3>0, <4>1
      <4> QED BY <4>1, <4>2, <3>0
    <3> QED BY <2>1, <3>1, <3>2
  <2>5. beacon' = beacon
    BY <2>1
  <2>3. Timely'
    BY <2>1, <2>4, <2>5 DEF Timely, Within, Quick
  <2> QED BY <2>1, <2>3, AgesKept DEF Serving, Iteration, InCycle, FreshInv
<1>18. CASE NoneShared
  <2>1. /\ pc = "close" /\ pc' = "resolve" /\ runs = 1 /\ runs' = runs /\ left' = Messages(1)
        /\ beacon' = beacon /\ lapse' = lapse
        /\ UNCHANGED <<beacon, tickAge, loopAge>> \/ WriteStatus
    BY <1>18 DEF NoneShared, Block, ages
  <2>2. pc \in InCycle
    BY <2>1 DEF InCycle
  <2>3. Timely'
    BY <2>1, <1>0, <2>2, <1>b DEF Timely, Within, Quick
  <2> QED BY <2>1, <2>3, AgesKept DEF Serving, Iteration, InCycle, FreshInv
<1>13. CASE Report
  <2>1. /\ pc \in {"close", "resolve"} /\ pc' = "report" /\ left' = Messages(1)
        /\ beacon' = beacon /\ lapse' = lapse
        /\ UNCHANGED <<beacon, tickAge, loopAge>> \/ WriteStatus
    BY <1>13 DEF Report, Block, ages
  <2>2. pc \in InCycle
    BY <2>1 DEF InCycle
  <2>3. Timely'
    BY <2>1, <1>0, <2>2, <1>b DEF Timely, Within, Quick
  <2> QED BY <2>1, <2>3, AgesKept DEF Serving, Iteration, InCycle, FreshInv
<1>14. CASE Finish
  <2>1. /\ pc = "report" /\ pc' \in {"due", "warn"} /\ left' \in {0, Messages(1)}
        /\ beacon' = 0
        /\ UNCHANGED <<beacon, tickAge, loopAge>> \/ WriteStatus
    BY <1>14 DEF Finish, Block, ages, WriteStatus, Written, Resume
  <2>3. Timely'
    BY <2>1, <1>0 DEF Timely, Within, Quick
  <2> QED BY <2>1, <2>3, AgesKept DEF Serving, Iteration, InCycle, FreshInv
<1>15. CASE Raise
  <2>1. /\ pc \in Iteration /\ pc' = "error" /\ left' = Ending + Messages(1) + Pause
        /\ UNCHANGED <<beacon, tickAge, loopAge>>
        /\ lapse' = IF lapse = "none" THEN "raised" ELSE "open"
    BY <1>15 DEF Raise, Block
  <2>2. CASE lapse = "none"
    <3>1. CASE pc \in InCycle
      <4>1. beacon <= Closed + Message
        BY <1>0, <1>b, <1>d, <2>2, <3>1 DEF Timely, Within, InCycle
      <4>2. Timely'
        BY <2>1, <2>2, <4>1 DEF Timely, Within
      <4> QED BY <1>0, <2>1, <4>2, AgesKept DEF Serving, FreshInv
    <3>2. CASE pc \notin InCycle
      <4>1. beacon <= Closed + Message
        BY <1>0, <2>1, <2>2, <3>2 DEF Timely, Quick, Iteration
      <4>2. Timely'
        BY <2>1, <2>2, <4>1 DEF Timely, Within
      <4> QED BY <1>0, <2>1, <4>2, AgesKept DEF Serving, FreshInv
    <3> QED BY <3>1, <3>2
  <2>3. CASE lapse # "none"
    BY <1>0, <2>1, <2>3, AgesKept DEF Timely, Serving, FreshInv
  <2> QED BY <2>2, <2>3
<1>16. CASE Logged
  <2>1. /\ pc = "error" /\ pc' = "wait" /\ left' = Pause
        /\ beacon' = beacon /\ lapse' = lapse
        /\ UNCHANGED <<beacon, tickAge, loopAge>> \/ WriteStatus
    BY <1>16 DEF Logged, Block, ages
  <2>3. Timely'
    BY <2>1, <1>0 DEF Timely, Within, Quick
  <2> QED BY <2>1, <2>3, AgesKept DEF Serving, Iteration, InCycle, FreshInv
<1>17. CASE Hang
  <2>1. pc' = "hung"
    BY <1>17 DEF Hang, Block
  <2> QED BY <2>1 DEF FreshInv, Timely, Refreshed, Within, Quick, Serving, Iteration, InCycle
<1> QED
  BY <1>1, <1>2, <1>3, <1>4, <1>5, <1>6, <1>7, <1>8, <1>9,
     <1>10, <1>11, <1>12, <1>13, <1>14, <1>15, <1>16, <1>17, <1>18 DEF Run

\* Every place has its bound, and with it the beacon.
LEMMA GapBound ==
  ASSUME TypeOK, Timely, lapse # "open", pc \in Serving
  PROVE  beacon + left <= LongestGap
<1> USE Sizes
<1>1. CASE pc \in InCycle
  BY <1>1, RunSizes DEF Timely, Within, InCycle
<1>2. CASE pc \notin InCycle
  BY <1>2 DEF Timely, Within, Serving, Iteration
<1> QED BY <1>1, <1>2

\* The rest of the container; time makes the beacon older and the wait shorter.
LEMMA ClockFresh ==
  ASSUME TypeOK, TypeOK', FreshInv, Clock
  PROVE  FreshInv'
<1> USE Sizes
<1>0. Timely /\ Refreshed
  BY DEF FreshInv
<1>1. pc' = pc /\ runs' = runs /\ burst' = burst
  BY DEF Clock
<1>2. CASE pc \in Serving
  <2>1. left > 0 /\ left' = left - 1 /\ beacon' = Older(beacon, Limit)
        /\ tickAge' = Older(tickAge, TickGap) /\ loopAge' = Older(loopAge, LoopGap)
    BY <1>2 DEF Clock, Serving, Iteration, InCycle
  <2>2. lapse' = lapse \/ (lapse = "mended" /\ lapse' = "none")
    BY <1>2 DEF Clock, Check, Serving, Iteration, InCycle
  <2>3. beacon' <= beacon + 1 /\ beacon' \in Nat
    BY <2>1 DEF Older
  <2>4. beacon' + left' <= beacon + left
    BY <2>1, <2>3
  <2>5. Timely'
    <3>1. lapse' # "open" => Within(pc', beacon', left', runs', burst')
      <4>1. CASE pc \in InCycle
        BY <1>0, <1>1, <2>1, <2>2, <2>3, <2>4, <4>1, RunSizes DEF Timely, Within, InCycle
      <4>2. CASE pc \notin InCycle
        BY <1>0, <1>1, <2>1, <2>2, <2>3, <2>4, <4>2 DEF Timely, Within, InCycle
      <4> QED BY <4>1, <4>2
    <3>2. lapse' \in {"none", "mended"} => Quick(pc', beacon', left')
      BY <1>0, <1>1, <2>1, <2>2, <2>3, <2>4 DEF Timely, Quick
    <3> QED BY <3>1, <3>2 DEF Timely
  <2>7. /\ tickAge' <= TickGap => tickAge' = tickAge + 1 /\ tickAge <= TickGap
        /\ loopAge' <= LoopGap => loopAge' = loopAge + 1 /\ loopAge <= LoopGap
    BY <2>1 DEF Older
  <2>8. /\ tickAge' <= TickGap => beacon' <= tickAge'
        /\ loopAge' <= LoopGap => beacon' <= loopAge'
    BY <1>0, <1>2, <2>3, <2>7 DEF Refreshed
  <2> QED BY <2>5, <2>8 DEF FreshInv, Refreshed
<1>3. CASE pc \notin Serving
  BY <1>1, <1>3 DEF FreshInv, Timely, Refreshed, Within, Quick, Serving, Iteration, InCycle
<1> QED
  BY <1>2, <1>3

LEMMA FreshStep ==
  ASSUME TypeOK, TypeOK', FreshInv, [Next]_vars
  PROVE  FreshInv'
<1>1. CASE Start \/ Kill \/ Autoheal
  <2>1. pc' \in {"greet", "paused", "off"}
    BY <1>1 DEF Start, Kill, Autoheal, Down, Block
  <2> QED BY <2>1 DEF FreshInv, Timely, Refreshed, Within, Quick, Serving, Iteration, InCycle
<1>2. CASE Greeted
  <2>1. /\ pc' = "wait" /\ left' = Pause /\ beacon' = 0
        /\ tickAge' \in Nat /\ loopAge' \in Nat
    BY <1>2, DurationsAssumption DEF Greeted, Block, WriteStatus, Written, TypeOK
  <2>2. Timely'
    BY <2>1, Sizes DEF Timely, Within, Quick
  <2> QED BY <2>1, <2>2 DEF FreshInv, Refreshed
<1>3. CASE Edit \/ UNCHANGED vars
  BY <1>3 DEF Edit, vars, thread, ages, FreshInv, Timely, Refreshed, Within, Quick
<1> QED
  BY <1>1, <1>2, <1>3, LoopFresh, RunFresh, ClockFresh DEF Next

\* The beacon is never stale while the main thread serves, as long as no second
\* exception and no more than Burst commands in a tick put the write off, for every
\* timing in which the longest way between two writes fits into the healthcheck's
\* limit (main.py run_healthcheck; scheduler.py _tick_during_run and run_forever).
THEOREM BeaconNeverStale ==
  ASSUME LongestGap <= Limit
  PROVE  Spec => []BeaconFresh
<1>1. Init => FreshInv
  BY DEF Init, FreshInv, Timely, Refreshed, Within, Quick, Serving, Iteration, InCycle
<1>2. TypeOK /\ TypeOK' /\ FreshInv /\ [Next]_vars => FreshInv'
  BY FreshStep
<1>3. TypeOK /\ FreshInv => BeaconFresh
  <2> SUFFICES ASSUME TypeOK, FreshInv, pc \in Serving, lapse # "open" PROVE beacon <= Limit
    BY DEF BeaconFresh
  <2>1. beacon + left <= LongestGap
    BY GapBound DEF FreshInv
  <2> QED BY <2>1, Sizes
<1> QED
  BY <1>1, <1>2, <1>3, LifecycleTypes, PTL DEF Spec
-------------------------------------------------------------------------------
\* The verdict of Docker: a failed healthcheck is counted only during the first
\* messages, which are over before there can be Retries of them.

\* No failed check remains of a write that was put off.
InOrder == lapse \in {"none", "raised"}

CalmInv ==
  /\ pc = "off" => failing = 0 /\ probeIn = Probe
  /\ pc = "greet" => failing * Probe + Probe - probeIn + left <= 2 * Message
  /\ pc \in Serving /\ InOrder => failing < Retries

LEMMA CalmStep ==
  ASSUME TypeOK, TypeOK', CalmInv, BeaconFresh, [Next]_vars, 2 * Message < Retries * Probe
  PROVE  CalmInv'
<1>1. /\ failing \in Nat /\ probeIn \in Nat /\ probeIn <= Probe /\ left \in Nat /\ Message \in Nat
      /\ Probe \in Nat \ {0} /\ Retries \in Nat \ {0} /\ failing <= Retries
  BY DurationsAssumption DEF TypeOK
<1>2. failing * Probe \in Nat /\ (failing + 1) * Probe = failing * Probe + Probe /\ 0 * Probe = 0
  BY <1>1
<1>3. CASE Start
  <2>1. pc = "off" /\ failing' = failing /\ probeIn' = probeIn
    BY <1>3 DEF Start, docker
  <2>2. \/ pc' = "paused"
        \/ pc' = "greet" /\ left' \in Nat /\ left' <= 2 * Message
    BY <1>1, <1>3 DEF Start, Block
  <2>3. pc' = "greet" => failing' * Probe + Probe - probeIn' + left' <= 2 * Message
    BY <1>1, <1>2, <2>1, <2>2 DEF CalmInv
  <2> QED BY <2>2, <2>3 DEF CalmInv, Serving, Iteration, InCycle
<1>4. CASE Greeted
  <2>1. pc = "greet" /\ pc' = "wait" /\ failing' = failing
    BY <1>4 DEF Greeted, Block, docker
  <2>2. failing # Retries
    BY <1>1, <1>2, <2>1 DEF CalmInv
  <2> QED BY <1>1, <2>1, <2>2 DEF CalmInv
<1>5. CASE Loop \/ Run
  <2>1. docker' = docker /\ pc \in Serving /\ pc' \in Serving \union {"hung"}
    BY <1>5 DEF Loop, NoCommand, Command, Answered, Resume, NotDue, Warned, Run, Refuse, Launch, Tick,
                Drain, Look, Prompted, Told, Verified, Abort, TickDone, RunEnds, NoneShared, NextRun, Report,
                Finish, Raise, Logged, Hang, Block, Serving, Iteration, InCycle
  <2>2. lapse' \in {"none", "raised"} => lapse \in {"none", "raised"}
    BY <1>5 DEF Loop, NoCommand, Command, Answered, NotDue, Warned, Run, Refuse, Launch, Tick,
                Drain, Look, Prompted, Told, Verified, Abort, TickDone, RunEnds, NoneShared,
                NextRun, Report, Finish, Raise, Logged, Hang, ages, WriteStatus, Written
  <2> QED BY <2>1, <2>2 DEF CalmInv, InOrder, docker, Serving, Iteration, InCycle
<1>6. CASE Kill \/ Autoheal
  BY <1>6 DEF Kill, Autoheal, Down, Block, CalmInv, Serving, Iteration, InCycle
<1>7. CASE Edit \/ UNCHANGED vars
  BY <1>7 DEF Edit, vars, thread, docker, ages, InOrder, CalmInv
<1>8. CASE Clock
  <2>1. pc' = pc
    BY <1>8 DEF Clock
  <2>2. CASE pc = "off"
    BY <1>8, <2>1, <2>2 DEF Clock, docker, CalmInv, Serving, Iteration, InCycle
  <2>3. CASE pc = "greet"
    <3>1. left > 0 /\ left' = left - 1
      BY <1>8, <2>3 DEF Clock
    <3>2. CASE probeIn = 1
      <4>1. probeIn' = Probe /\ (failing' = 0 \/ failing' = failing + 1 \/ failing = Retries)
        <5>1. Check
          BY <1>8, <2>3, <3>2 DEF Clock
        <5>2. failing < Retries \/ failing = Retries
          BY <1>1
        <5> QED BY <5>1, <5>2 DEF Check
      <4>2. failing # Retries
        BY <1>1, <1>2, <2>3 DEF CalmInv
      <4>3. failing' * Probe + Probe - probeIn' + left' <= 2 * Message
        <5>1. CASE failing' = 0
          BY <1>1, <1>2, <2>3, <3>1, <3>2, <4>1, <5>1 DEF CalmInv
        <5>2. CASE failing' = failing + 1
          BY <1>1, <1>2, <2>3, <3>1, <3>2, <4>1, <5>2 DEF CalmInv
        <5> QED BY <4>1, <4>2, <5>1, <5>2
      <4> QED BY <2>1, <2>3, <4>3 DEF CalmInv, Serving, Iteration, InCycle
    <3>3. CASE probeIn # 1
      <4>1. probeIn' = probeIn - 1 /\ failing' = failing
        BY <1>8, <2>3, <3>3 DEF Clock
      <4>2. failing' * Probe + Probe - probeIn' + left' <= 2 * Message
        BY <1>1, <1>2, <2>3, <3>1, <4>1 DEF CalmInv
      <4> QED BY <2>1, <2>3, <4>2 DEF CalmInv, Serving, Iteration, InCycle
    <3> QED BY <3>2, <3>3
  <2>4. CASE pc \in Serving
    <3>1. lapse' = "open" \/ failing' = 0 \/ (failing' = failing /\ lapse' = lapse)
      <4>1. CASE probeIn = 1 /\ Check
        BY <2>4, <4>1 DEF Check, CheckPasses, BeaconFresh
      <4>2. CASE UNCHANGED <<failing, lapse>>
        BY <4>2
      <4> QED BY <1>8, <2>4, <4>1, <4>2 DEF Clock, Serving, Iteration, InCycle
    <3> QED BY <1>1, <2>1, <2>4, <3>1 DEF CalmInv, InOrder, Serving, Iteration, InCycle
  <2>5. CASE pc \in {"hung", "paused"}
    BY <2>1, <2>5 DEF CalmInv, Serving, Iteration, InCycle
  <2> QED BY <2>2, <2>3, <2>4, <2>5 DEF TypeOK
<1> QED
  BY <1>3, <1>4, <1>5, <1>6, <1>7, <1>8 DEF Next

\* Nothing but a hung main thread, a failed preflight and a write put off makes a
\* container unhealthy, for every timing in which also the first messages are over
\* before so many healthchecks could fail (main.py run_healthcheck).
THEOREM UnhealthyForCause ==
  ASSUME LongestGap <= Limit, 2 * Message < Retries * Probe
  PROVE  Spec => []NeverCondemned
<1>1. Init => CalmInv
  BY DEF Init, CalmInv, Serving, Iteration, InCycle
<1>2. TypeOK /\ TypeOK' /\ BeaconFresh /\ CalmInv /\ [Next]_vars => CalmInv'
  BY CalmStep
<1>3. TypeOK /\ CalmInv => NeverCondemned
  <2> SUFFICES ASSUME TypeOK, CalmInv, failing = Retries, InOrder
               PROVE  pc \in {"hung", "paused"}
    BY DEF NeverCondemned, Unhealthy, InOrder
  <2>1. /\ failing \in Nat /\ probeIn \in Nat /\ probeIn <= Probe /\ left \in Nat /\ Message \in Nat
        /\ Probe \in Nat \ {0} /\ Retries \in Nat \ {0}
    BY DurationsAssumption DEF TypeOK
  <2>2. failing * Probe = Retries * Probe /\ Retries * Probe \in Nat
    BY <2>1
  <2>3. pc # "off" /\ pc # "greet" /\ pc \notin Serving
    BY <2>1, <2>2 DEF CalmInv
  <2> QED BY <2>3 DEF TypeOK
<1>4. Spec => []BeaconFresh
  BY BeaconNeverStale
<1> QED
  BY <1>1, <1>2, <1>3, <1>4, LifecycleTypes, PTL DEF Spec
-------------------------------------------------------------------------------
\* How soon a hang is reported: the measure that falls with every step of time, so
\* that a container whose main thread hangs is unhealthy after Patience at the
\* latest.  (That the restart then follows needs fairness, and stays with TLC.)

\* Before failed checks count: the beacon has to age, the start period to end.
Settling == (Limit + 1 - beacon) + (StartPeriod - up)

\* An upper bound on the time until the container is unhealthy.
Countdown == IF Settling > 0 THEN Settling + (Retries + 1) * Probe
             ELSE (Retries - failing) * Probe + probeIn

Patience == Limit + 1 + StartPeriod + (Retries + 1) * Probe

\* Time runs down, and nothing else, as long as the main thread hangs.
CountsDown ==
  /\ pc = "hung" /\ loads /\ ~Unhealthy /\ Clock => Countdown' < Countdown
  /\ pc = "hung" /\ pc' = "hung" /\ ~Clock => Countdown' = Countdown

LEMMA MeasureTypes ==
  ASSUME TypeOK
  PROVE  /\ Limit \in Nat /\ beacon \in 0 .. Limit + 1 /\ StartPeriod \in Nat
         /\ up \in 0 .. StartPeriod /\ Probe \in Nat \ {0} /\ probeIn \in 1 .. Probe
         /\ Retries \in Nat \ {0} /\ failing \in 0 .. Retries
         /\ (Retries - failing) * Probe \in Nat
         /\ (Retries - failing) * Probe <= Retries * Probe
         /\ Retries * Probe \in Nat
         /\ (Retries + 1) * Probe = Retries * Probe + Probe
<1>1. ASSUME NEW n \in Nat, NEW k \in Nat, NEW q \in Nat
      PROVE  n * q \in Nat /\ (n + k) * q = n * q + k * q /\ k * q \in Nat
  OBVIOUS
<1>2. /\ Retries - failing \in Nat /\ failing \in Nat /\ Probe \in Nat /\ Retries \in Nat
      /\ (Retries - failing) + failing = Retries
  BY DurationsAssumption DEF TypeOK
<1>3. /\ (Retries - failing) * Probe \in Nat /\ failing * Probe \in Nat
      /\ Retries * Probe = (Retries - failing) * Probe + failing * Probe
  BY <1>1, <1>2
<1>4. Retries * Probe \in Nat /\ (Retries + 1) * Probe = Retries * Probe + Probe
  BY <1>1, <1>2
<1> QED BY <1>3, <1>4, DurationsAssumption DEF TypeOK

LEMMA CountdownBounded == TypeOK => Countdown \in 1 .. Patience
BY MeasureTypes DEF Countdown, Settling, Patience

LEMMA CountdownFalls ==
  ASSUME TypeOK, TypeOK', pc = "hung", loads, ~Unhealthy, Clock
  PROVE  Countdown' < Countdown
<1>1. /\ beacon' = Older(beacon, Limit)
      /\ \/ probeIn = 1 /\ Check
         \/ /\ probeIn > 1 /\ probeIn' = probeIn - 1 /\ failing' = failing
            /\ up' = IF up < StartPeriod THEN up + 1 ELSE up
  BY DEF Clock
<1>2. /\ beacon' = IF beacon <= Limit THEN beacon + 1 ELSE beacon
      /\ beacon' \in 0 .. Limit + 1 /\ up' \in 0 .. StartPeriod /\ probeIn' \in 1 .. Probe
      /\ failing' \in 0 .. Retries /\ failing < Retries
  BY <1>1, MeasureTypes DEF Older, TypeOK, Unhealthy
<1>3. /\ up <= up'
      /\ beacon = Limit + 1 => up' = IF up < StartPeriod THEN up + 1 ELSE up
  BY <1>1, MeasureTypes DEF Check, CheckPasses
<1>4. (Retries - failing') * Probe \in Nat /\ (Retries - failing') * Probe <= Retries * Probe
  <2>1. ASSUME NEW f \in 0 .. Retries
        PROVE  (Retries - f) * Probe \in Nat /\ (Retries - f) * Probe <= Retries * Probe
    <3>1. ASSUME NEW n \in Nat, NEW k \in Nat, NEW q \in Nat
          PROVE  n * q \in Nat /\ (n + k) * q = n * q + k * q /\ k * q \in Nat
      OBVIOUS
    <3>2. Retries - f \in Nat /\ f \in Nat /\ Probe \in Nat /\ (Retries - f) + f = Retries
      BY MeasureTypes
    <3> QED BY <3>1, <3>2
  <2> QED BY <1>2, <2>1
<1>5. CASE Settling > 0
  <2>1. Settling' < Settling
    BY <1>2, <1>3, <1>5, MeasureTypes DEF Settling
  <2> QED BY <1>2, <1>4, <1>5, <2>1, MeasureTypes DEF Countdown, Settling
<1>6. CASE ~(Settling > 0)
  <2>1. /\ beacon = Limit + 1 /\ up = StartPeriod /\ beacon' = beacon /\ up' = up
        /\ ~(Settling' > 0)
    <3>1. beacon = Limit + 1 /\ up = StartPeriod
      <4>1. /\ Limit \in Nat /\ beacon \in 0 .. Limit + 1 /\ StartPeriod \in Nat
            /\ up \in 0 .. StartPeriod
        BY MeasureTypes
      <4> QED BY ONLY <1>6, <4>1 DEF Settling
    <3>2. beacon' = beacon /\ up' = up
      BY <1>2, <1>3, <3>1, MeasureTypes
    <3> QED BY <1>6, <3>1, <3>2 DEF Settling
  <2>2. CASE probeIn = 1 /\ Check
    <3>1. probeIn' = Probe /\ failing' = failing + 1
      BY <1>2, <2>1, <2>2, MeasureTypes DEF Check, CheckPasses
    <3>2. (Retries - failing) * Probe = (Retries - failing') * Probe + Probe
      <4>1. ASSUME NEW n \in Nat, NEW q \in Nat PROVE (n + 1) * q = n * q + q
        OBVIOUS
      <4>2. Retries - failing' \in Nat /\ (Retries - failing') + 1 = Retries - failing
        BY <1>2, <3>1, MeasureTypes
      <4> QED BY <4>1, <4>2, MeasureTypes
    <3> QED BY <1>4, <1>6, <2>1, <2>2, <3>1, <3>2, MeasureTypes DEF Countdown
  <2>3. CASE probeIn > 1 /\ probeIn' = probeIn - 1 /\ failing' = failing
    BY <1>6, <2>1, <2>3, MeasureTypes DEF Countdown
  <2> QED BY <1>1, <2>2, <2>3
<1> QED BY <1>5, <1>6

\* As long as the main thread hangs and the legacy file loads, each step of time
\* brings the verdict closer, from at most Patience away, and nothing puts it off: the
\* beacon is not refreshed, and no check in between passes (run_healthcheck).
THEOREM HangCountedDown ==
  Spec => [](Countdown \in 1 .. Patience) /\ [][CountsDown]_vars
<1>1. TypeOK /\ TypeOK' /\ [Next]_vars => [CountsDown]_vars
  <2> SUFFICES ASSUME TypeOK, TypeOK', Next PROVE CountsDown
    OBVIOUS
  <2>1. ASSUME pc = "hung", pc' = "hung", ~Clock PROVE Countdown' = Countdown
    <3>1. UNCHANGED <<beacon, up, probeIn, failing>>
      BY <2>1 DEF Next, Start, Greeted, Loop, NoCommand, Command, Answered, NotDue, Warned, Run,
         Refuse, Launch, Tick, Drain, Look, Prompted, Told, Verified, Abort, TickDone, RunEnds,
         NoneShared, NextRun, Report, Finish, Raise, Logged, Hang, Kill, Autoheal, Down, Edit, Block, ages,
         docker
    <3> QED BY <3>1 DEF Countdown, Settling
  <2> QED BY <2>1, CountdownFalls DEF CountsDown
<1> QED BY <1>1, CountdownBounded, LifecycleTypes, PTL DEF Spec
=============================================================================
