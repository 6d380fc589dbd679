---------------------------- MODULE ScheduleProofs ----------------------------
(***************************************************************************)
(* What module Supervisor's schedule keeps, and under which of its faults: *)
(* the reported state, the spacing of unattended cycles, and the moment a  *)
(* refused cycle is tried again.                                           *)
(***************************************************************************)
EXTENDS BudgetProofs

-------------------------------------------------------------------------------
(* The reported state.                                                       *)

LEMMA RestStep ==
  ASSUME "raise" \notin Faults, Blocked, StateAtRest, [Next]_vars
  PROVE  StateAtRest'
<1>1. CASE LoopTop \/ Kill
  BY <1>1 DEF LoopTop, Kill, Forget, Blocked, StateAtRest, AtRest, NoRun, memory
<1>2. CASE SyncCommand \/ Due
  BY <1>2 DEF SyncCommand, Due, SyncCycle, RefuseKeyring, RefuseBudget, StartCycle,
              SetState, After, Blocked, StateAtRest, AtRest
<1>3. CASE ReauthCommand
  BY <1>3 DEF ReauthCommand, RefuseReauth, StartReauth, SetState, After,
              Blocked, StateAtRest, AtRest
<1>4. CASE LookupDone \/ SyncDone
  BY <1>4 DEF LookupDone, SyncDone, FinishCycle, SetState, After, StateAtRest,
              AtRest, NoRun
<1>5. CASE ReauthDone
  BY <1>5 DEF ReauthDone, SetState, After, Blocked, StateAtRest, AtRest, NoRun
<1>6. CASE Prompt \/ Verified
  BY <1>6 DEF Prompt, Verified, Blocked, StateAtRest, AtRest
<1>7. CASE NothingToDo \/ NotDue \/ Boot
  BY <1>7 DEF NothingToDo, NotDue, Boot, Blocked, StateAtRest, AtRest, memory
<1>8. CASE NextLibrary \/ RunEnds \/ SignIn \/ CodeAccepted
  BY <1>8 DEF NextLibrary, RunEnds, SignIn, CodeAccepted, Blocked, StateAtRest, AtRest
<1>9. CASE Stop \/ Expire \/ Revoke \/ OperatorInit \/ Tick \/ UNCHANGED vars
  BY <1>9 DEF Stop, Expire, Revoke, OperatorInit, Tick, vars, control, memory,
              Blocked, StateAtRest, AtRest
<1>10. CASE Raise
  BY <1>10 DEF Raise
<1> QED
  BY <1>1, <1>2, <1>3, <1>4, <1>5, <1>6, <1>7, <1>8, <1>9, <1>10
     DEF Next, MainThread, Environment

LEMMA RestInit == Init => StateAtRest
BY DEF Init, StateAtRest, AtRest

\* Unless an exception escapes a run, nothing leaves "syncing" or "waiting_for_mfa"
\* behind when the loop has the thread again (_set_state in scheduler.py).
THEOREM StateHonest ==
  ASSUME "raise" \notin Faults
  PROVE  Spec => []StateAtRest
<1>1. Blocked /\ StateAtRest /\ [Next]_vars => StateAtRest'
  BY RestStep
<1> QED BY <1>1, RestInit, BlockedKept, PTL DEF Spec

-------------------------------------------------------------------------------
(* The spacing of unattended cycles.                                         *)

\* Outside a cycle the last unattended launch is older than the sync on record,
\* in memory and on disk, and the next is due a retry interval after it.
SpacingInv ==
  lastAuto # NoTime /\ pc \notin {"lookup", "sync"} =>
    /\ disk.lastSync >= lastAuto
    /\ pc # "down" => lastSync >= lastAuto /\ next >= lastAuto + Retry

LEMMA SaveWorks ==
  ASSUME "nosave" \notin Faults, NEW S, NEW last, NEW N, Save(S, last, N)
  PROVE  disk'.lastSync = last
BY DEF Save

LEMMA SpacingTypes ==
  ASSUME TypeOK
  PROVE  /\ lastAuto \in Int /\ lastAuto <= now /\ lastSync \in Int /\ disk.lastSync \in Int
         /\ next \in Nat /\ now \in Nat /\ Retry \in Nat /\ Interval \in Nat
         /\ Retry <= Interval
<1>1. now \in Nat /\ lastAuto \in {NoTime} \union 0 .. now
  BY DEF TypeOK, HistoryType, Times
<1>2. lastSync \in {NoTime} \union 0 .. now /\ next \in Nat
  BY DEF TypeOK, MemoryType, Times
<1>3. disk.lastSync \in {NoTime} \union 0 .. now
  BY DEF TypeOK, FilesType, Disks, Times
<1> QED BY <1>1, <1>2, <1>3, ConstantsAssumption DEF NoTime

LEMMA CycleSpacing ==
  ASSUME TypeOK, SpacingInv, NEW m \in BOOLEAN, SyncCycle(m), pc \in {"wait", "due"}
  PROVE  SpacingInv'
<1>1. CASE RefuseKeyring(m)
  <2>1. /\ next' = now + Retry /\ lastSync' = lastSync /\ disk' = disk
        /\ lastAuto' = lastAuto
    BY <1>1 DEF RefuseKeyring, files, history
  <2> QED BY <2>1, SpacingTypes DEF SpacingInv
<1>2. CASE RefuseBudget(m)
  <2>1. PICK oldest \in 0 .. now : next' = Later(now + Retry, oldest + Day)
    BY <1>2 DEF RefuseBudget
  <2>2. lastSync' = lastSync /\ disk' = disk /\ lastAuto' = lastAuto
    BY <1>2 DEF RefuseBudget, files, history
  <2>3. next' >= now + Retry
    BY <2>1, SpacingTypes, ConstantsAssumption DEF Later
  <2>4. next' \in Int
    BY <2>1, SpacingTypes, ConstantsAssumption DEF Later
  <2>5. next' >= lastAuto + Retry
    BY <2>3, <2>4, SpacingTypes
  <2> QED BY <2>2, <2>5 DEF SpacingInv
<1>3. CASE StartCycle(m)
  BY <1>3 DEF StartCycle, SpacingInv
<1> QED BY <1>1, <1>2, <1>3 DEF SyncCycle

LEMMA FinishSpacing ==
  ASSUME TypeOK, "nosave" \notin Faults, FinishCycle
  PROVE  SpacingInv'
<1>1. /\ next' = now + Interval /\ lastSync' = now /\ disk'.lastSync = now
      /\ lastAuto' = lastAuto
  BY SaveWorks DEF FinishCycle, history
<1> QED BY <1>1, SpacingTypes DEF SpacingInv

LEMMA BootSpacing == ASSUME TypeOK, SpacingInv, Boot PROVE SpacingInv'
<1>1. disk' = disk /\ lastSync' = disk.lastSync /\ lastAuto' = lastAuto /\ pc = "down"
  BY DEF Boot, history
<1>2. CASE disk.lastSync = NoTime
  BY <1>1, <1>2, SpacingTypes DEF SpacingInv, TypeOK, HistoryType, Times, NoTime
<1>3. CASE disk.lastSync # NoTime
  <2>1. next' = Later(now, disk.lastSync + Interval)
    BY <1>3 DEF Boot
  <2>2. next' >= disk.lastSync + Interval /\ next' \in Int
    BY <2>1, SpacingTypes DEF Later
  <2> QED BY <1>1, <2>2, SpacingTypes DEF SpacingInv
<1> QED BY <1>2, <1>3

\* Steps that change neither the record of the last sync nor what is due.
LEMMA SameSpacing ==
  ASSUME SpacingInv, lastAuto' = lastAuto, next' = next, lastSync' = lastSync,
         \/ disk'.lastSync = disk.lastSync
         \/ pc # "down" /\ disk'.lastSync = lastSync,
         pc' \in {"lookup", "sync"} \/ pc \notin {"lookup", "sync"},
         pc = "down" => pc' = "down"
  PROVE  SpacingInv'
BY DEF SpacingInv

LEMMA SpacingStep ==
  ASSUME Faults \cap {"kill", "raise", "nosave"} = {}, TypeOK, Blocked, SpacingInv,
         [Next]_vars
  PROVE  SpacingInv'
<1>1. CASE LoopTop
  <2>1. CASE Forget
    <3>1. lastAuto' = lastAuto /\ disk' = disk /\ pc' = "down" /\ pc = "top"
      BY <1>1, <2>1 DEF Forget, LoopTop
    <3> QED BY <3>1 DEF SpacingInv
  <2>2. CASE ~Forget
    <3>1. /\ lastAuto' = lastAuto /\ next' = next /\ lastSync' = lastSync /\ disk' = disk
          /\ pc = "top" /\ pc' = "wait"
      BY <1>1, <2>2 DEF LoopTop, memory, files, history
    <3> QED BY <3>1, SameSpacing
  <2> QED BY <2>1, <2>2
<1>2. CASE SyncCommand \/ Due
  BY <1>2, CycleSpacing DEF SyncCommand, Due
<1>3. CASE ReauthCommand
  <2>1. /\ lastAuto' = lastAuto /\ next' = next /\ lastSync' = lastSync /\ disk' = disk
        /\ pc = "wait"
    BY <1>3 DEF ReauthCommand, RefuseReauth, StartReauth, files, history
  <2> QED BY <2>1, SameSpacing
<1>4. CASE LookupDone \/ SyncDone
  <2>1. CASE FinishCycle
    BY <2>1, FinishSpacing
  <2>2. CASE ~FinishCycle
    BY <1>4, <2>2 DEF LookupDone, SyncDone, SpacingInv
  <2> QED BY <2>1, <2>2
<1>5. CASE ReauthDone
  <2>1. /\ lastAuto' = lastAuto /\ next' = next /\ lastSync' = lastSync /\ disk' = disk
        /\ pc = "auth"
    BY <1>5 DEF ReauthDone, files, history
  <2> QED BY <2>1, SameSpacing
<1>6. CASE Prompt
  <2>1. /\ lastAuto' = lastAuto /\ next' = next /\ lastSync' = lastSync /\ pc' = pc
        /\ pc # "down"
    BY <1>6 DEF Prompt, Blocked
  <2>2. disk' = disk \/ disk'.lastSync = lastSync
    BY <1>6 DEF Prompt, ChargePrompt, Record, Save
  <2> QED BY <2>1, <2>2, SameSpacing
<1>7. CASE RunEnds
  <2>1. /\ lastAuto' = lastAuto /\ next' = next /\ lastSync' = lastSync /\ pc' = pc
        /\ pc # "down"
    BY <1>7 DEF RunEnds, Blocked, history
  <2>2. disk' = disk \/ disk'.lastSync = lastSync
    BY <1>7 DEF RunEnds, AccountForRun, Record, Save
  <2> QED BY <2>1, <2>2, SameSpacing
<1>8. CASE NotDue
  <2>1. /\ lastAuto' = lastAuto /\ next' = next /\ lastSync' = lastSync /\ pc = "due"
    BY <1>8 DEF NotDue, history
  <2>2. disk' = disk \/ disk'.lastSync = lastSync
    BY <1>8 DEF NotDue, Save
  <2> QED BY <2>1, <2>2, SameSpacing
<1>9. CASE Boot
  BY <1>9, BootSpacing
<1>10. CASE NothingToDo \/ NextLibrary \/ Verified
  <2>1. /\ lastAuto' = lastAuto /\ next' = next /\ lastSync' = lastSync /\ disk' = disk
        /\ pc = "wait" \/ pc' = pc
    BY <1>10 DEF NothingToDo, NextLibrary, Verified, memory, files, history
  <2> QED BY <1>10, <2>1, SameSpacing DEF NothingToDo
<1>11. CASE SignIn \/ CodeAccepted \/ Stop \/ Expire \/ Revoke \/ OperatorInit \/ Tick
            \/ UNCHANGED vars
  <2>1. /\ lastAuto' = lastAuto /\ next' = next /\ lastSync' = lastSync /\ disk' = disk
        /\ pc' = pc
    BY <1>11 DEF SignIn, CodeAccepted, Stop, Expire, Revoke, OperatorInit, Tick, vars,
                 control, memory, files, history
  <2> QED BY <2>1, SameSpacing
<1>12. CASE Raise \/ Kill
  BY <1>12 DEF Raise, Kill
<1> QED
  BY <1>1, <1>2, <1>3, <1>4, <1>5, <1>6, <1>7, <1>8, <1>9, <1>10, <1>11, <1>12
     DEF Next, MainThread, Environment

\* The schedule launches only what is due.
LEMMA LaunchIsDue == ASSUME Next, AutoLaunch PROVE now >= next
BY DEF Next, MainThread, Environment, AutoLaunch, LoopTop, Forget, NothingToDo, NotDue,
       SyncCommand, ReauthCommand, Due, LookupDone, NextLibrary, SyncDone, ReauthDone,
       RunEnds, SignIn, Prompt, CodeAccepted, Verified, Raise, Boot, Stop, Kill, Expire,
       Revoke, OperatorInit, Tick, control

\* "Apple is never contacted in an unattended retry loop" (scheduler.py), unless the
\* container is killed, a run raises an exception or the state file cannot be written:
\* otherwise unattended launches are a retry interval apart, through stops and restarts.
THEOREM CyclesSpaced ==
  ASSUME Faults \cap {"kill", "raise", "nosave"} = {}
  PROVE  Spec => UnattendedSpacing
<1>1. Init => SpacingInv
  BY DEF Init, SpacingInv
<1>2. TypeOK /\ Blocked /\ SpacingInv /\ [Next]_vars => SpacingInv'
  BY SpacingStep
<1>3. TypeOK /\ SpacingInv /\ [Next]_vars
        => [AutoLaunch /\ lastAuto # NoTime => now >= lastAuto + Retry]_vars
  <2> SUFFICES ASSUME TypeOK, SpacingInv, Next, AutoLaunch, lastAuto # NoTime
               PROVE  now >= lastAuto + Retry
    OBVIOUS
  <2>1. now >= next
    BY LaunchIsDue
  <2>2. next >= lastAuto + Retry
    BY DEF SpacingInv, AutoLaunch
  <2> QED BY <2>1, <2>2, SpacingTypes
<1> QED BY <1>1, <1>2, <1>3, BlockedKept, TypeCorrect, PTL DEF Spec, UnattendedSpacing

-------------------------------------------------------------------------------
(* When a refused cycle is tried again.                                      *)

\* A spent budget has an entry that ages out by the time of the next try.
WorthWaiting ==
  state = "auth_rate_limited" =>
    AtRest /\ (BudgetSpent => \E e \in Recent : e.time + Day <= next)

\* Refused, the supervisor waits until the oldest entry has aged out.
LEMMA RefusedWaits ==
  ASSUME MaxAuth > 0, TypeOK, NEW m \in BOOLEAN, RefuseBudget(m)
  PROVE  WorthWaiting'
<1>1. attempts' = Recent /\ now' = now /\ pc' \in {"due", "top"}
  BY DEF RefuseBudget, SetState, After, history
<1>2. Recent' = Recent
  BY <1>1, SameRecent
<1>3. Recent # {}
  BY FS_EmptySet, ConstantsAssumption DEF RefuseBudget, BudgetSpent
<1>4. PICK oldest \in 0 .. now : IsOldest(oldest) /\ next' = Later(now + Retry, oldest + Day)
  BY DEF RefuseBudget
<1>5. PICK e \in Recent : e.time = oldest
  BY <1>3, <1>4 DEF IsOldest
<1>6. oldest \in Nat /\ now \in Nat /\ Day \in Nat /\ Retry \in Nat
  BY ConstantsAssumption DEF TypeOK, HistoryType
<1>7. oldest + Day <= next'
  BY <1>4, <1>6 DEF Later
<1> QED BY <1>1, <1>2, <1>5, <1>7 DEF WorthWaiting, AtRest

\* The clock: a budget that is still spent has lost no entry.
LEMMA TickWaits ==
  ASSUME ~NeedsLookup, TypeOK, BooksInv, WorthWaiting, Tick
  PROVE  WorthWaiting'
<1>1. pc' = pc /\ state' = state /\ next' = next
  BY DEF Tick, control, memory
<1>2. BudgetSpent' => BudgetSpent /\ Recent' = Recent
  <2> SUFFICES ASSUME BudgetSpent' PROVE BudgetSpent /\ Recent' = Recent
    OBVIOUS
  <2>1. /\ BooksInv' /\ Recent' \subseteq Recent
        /\ IsFiniteSet(Recent) /\ Cardinality(Recent) \in Nat
        /\ Cardinality(Recent) <= MaxAuth
    BY TickBooks, RecentSize, CeilingType DEF BooksInv, BooksBounded, Bounded
  <2>2. /\ Cardinality(Recent') <= Cardinality(Recent) /\ Cardinality(Recent') \in Nat
        /\ Cardinality(Recent') >= MaxAuth
    BY <2>1, FS_CardinalityType, FS_Subset DEF BudgetSpent
  <2>3. Cardinality(Recent') = Cardinality(Recent) /\ Cardinality(Recent) >= MaxAuth
    BY <2>1, <2>2, ConstantsAssumption
  <2>4. Recent' = Recent
    BY <2>1, <2>3, FS_Subset
  <2> QED BY <2>3, <2>4 DEF BudgetSpent
<1> QED BY <1>1, <1>2 DEF WorthWaiting, AtRest

LEMMA WaitingStep ==
  ASSUME MaxAuth > 0, ~NeedsLookup, Faults \cap {"revoke", "expire"} = {},
         TypeOK, Blocked, BooksInv, WorthWaiting, [Next]_vars
  PROVE  WorthWaiting'
<1>1. ASSUME state' = state, next' = next, Recent' = Recent, AtRest => AtRest'
      PROVE  WorthWaiting'
  BY <1>1 DEF WorthWaiting, BudgetSpent
<1>2. CASE LoopTop \/ NothingToDo \/ NotDue
  <2>1. CASE Forget
    BY <2>1 DEF Forget, WorthWaiting
  <2>2. CASE ~Forget
    <3>1. state' = state /\ next' = next /\ AtRest'
      BY <1>2, <2>2 DEF LoopTop, NothingToDo, NotDue, memory, AtRest
    <3> QED BY <1>1, <1>2, <2>2, <3>1, OtherBooks, EndBooks
  <2> QED BY <2>1, <2>2
<1>3. CASE Stop \/ Expire \/ OperatorInit \/ UNCHANGED vars
  <2>1. state' = state /\ next' = next /\ pc' = pc
    BY <1>3 DEF Stop, Expire, OperatorInit, vars, control, memory
  <2> QED BY <1>1, <1>3, <2>1, OtherBooks DEF AtRest
<1>4. CASE ReauthCommand /\ RefuseReauth
  <2>1. /\ next' = next /\ state' \in {state, "password_needed"} /\ pc = "wait" /\ pc' = "due"
    BY <1>4 DEF ReauthCommand, RefuseReauth, SetState, After
  <2>2. Recent' = Recent
    BY <1>4, <2>1, StartBooks
  <2> QED BY <2>1, <2>2 DEF WorthWaiting, AtRest, BudgetSpent
<1>5. CASE \E m \in BOOLEAN : RefuseBudget(m)
  BY <1>5, RefusedWaits
<1>6. CASE \/ \E m \in BOOLEAN : RefuseKeyring(m) \/ StartCycle(m)
           \/ StartReauth \/ ReauthDone \/ FinishCycle \/ Prompt \/ Verified \/ Boot \/ Kill
  <2>1. state' # "auth_rate_limited"
    BY <1>6 DEF RefuseKeyring, StartCycle, StartReauth, ReauthDone, FinishCycle, Prompt,
                Verified, Boot, Kill, Forget, SetState
  <2> QED BY <2>1 DEF WorthWaiting
<1>7. CASE \/ LookupDone /\ ~FinishCycle
           \/ NextLibrary \/ RunEnds \/ SignIn \/ CodeAccepted \/ Raise
  <2>1. state' = state /\ run.phase # "none"
    BY <1>7 DEF LookupDone, NextLibrary, RunEnds, SignIn, CodeAccepted, Raise, Ended, memory
  <2>2. ~AtRest
    BY <2>1 DEF Blocked, AtRest
  <2> QED BY <2>1, <2>2 DEF WorthWaiting
<1>8. CASE Tick
  BY <1>8, TickWaits
<1>9. CASE Revoke
  BY <1>9 DEF Revoke
<1>10. (SyncCommand \/ Due) => \E m \in BOOLEAN : SyncCycle(m)
  BY DEF SyncCommand, Due
<1> QED
  BY <1>2, <1>3, <1>4, <1>5, <1>6, <1>7, <1>8, <1>9, <1>10
     DEF Next, MainThread, Environment, SyncCycle, ReauthCommand, SyncDone

\* A refused supervisor's next try finds an attempt to spend (run_sync_cycle's
\* oldest + 86400 against _prune), through kills, exceptions and failing saves, if
\* there is a budget, no library lookup, and Apple keeps to the cookie's expiry date.
THEOREM RetrySucceeds ==
  ASSUME MaxAuth > 0, ~NeedsLookup, Faults \cap {"revoke", "expire"} = {}
  PROVE  Spec => []RetryFindsBudget
<1>1. Init => WorthWaiting
  BY DEF Init, WorthWaiting
<1>2. TypeOK /\ Blocked /\ BooksInv /\ WorthWaiting /\ [Next]_vars => BooksInv' /\ WorthWaiting'
  BY BooksStep, WaitingStep
<1>3. TypeOK /\ WorthWaiting => RetryFindsBudget
  <2> SUFFICES ASSUME TypeOK, WorthWaiting, state = "auth_rate_limited", now >= next, BudgetSpent
               PROVE  FALSE
    BY DEF RetryFindsBudget
  <2>1. PICK e \in Recent : e.time + Day <= next
    BY DEF WorthWaiting
  <2>2. e.time \in Nat /\ e.time > now - Day /\ now \in Nat /\ next \in Nat /\ Day \in Nat
    BY <2>1, ConstantsAssumption
       DEF Recent, TypeOK, MemoryType, HistoryType, Entries, Times
  <2> QED BY <2>1, <2>2
<1> QED BY <1>1, <1>2, <1>3, InitBooks, BlockedKept, TypeCorrect, PTL DEF Spec
=============================================================================
