----------------------------- MODULE BudgetProofs -----------------------------
(***************************************************************************)
(* What the budget of module Supervisor limits, with any libraries: the    *)
(* entries of the books, while Apple honours every session until its       *)
(* cookie expires between runs, and through them the sign-ins Apple sees.  *)
(***************************************************************************)
EXTENDS LedgerProofs

-------------------------------------------------------------------------------
(* The books never hold more than the ceiling.                               *)

\* A lookup may spend the last attempt of the cycle it belongs to; the sync that
\* follows it starts without another look at the budget.
Ceiling == MaxAuth + (IF NeedsLookup THEN 1 ELSE 0)

Bounded(S) == IsFiniteSet(S) /\ Cardinality(S) <= Ceiling
BooksBounded ==
  /\ IsFiniteSet(attempts) /\ IsFiniteSet(disk.attempts)
  /\ Bounded(Recent) /\ Bounded(RecentOnDisk)

\* Entries the books may have before a run of the current kind is recorded: only
\* the sync after a lookup may find the budget spent.
Allowance == IF pc = "sync" THEN Ceiling ELSE MaxAuth

\* A sign-in that is not recorded yet, or may still come, finds room.
RoomToRecord ==
  Lives /\ ~run.recorded /\ (run.id # 0 \/ jar # "trusted")
    => Cardinality(Recent) < Allowance

\* The sync after a lookup will have room as well.
RoomAfterLookup ==
  pc = "lookup" => NeedsLookup /\ (jar # "trusted" => Cardinality(Recent) <= MaxAuth)

\* Only a session that works lets icloudpd succeed, and every valid cookie works.
Honoured ==
  /\ run.phase = "ok" => jar = "trusted"
  /\ jar # "revoked" /\ backup # "revoked"

BooksInv == BooksBounded /\ RoomToRecord /\ RoomAfterLookup /\ Honoured

LEMMA CeilingType ==
  /\ MaxAuth \in Nat /\ Ceiling \in Nat /\ MaxAuth <= Ceiling /\ Ceiling <= MaxAuth + 1
  /\ NeedsLookup => Ceiling = MaxAuth + 1
  /\ ~NeedsLookup => Ceiling = MaxAuth
BY ConstantsAssumption DEF Ceiling

LEMMA BoundedSubset ==
  ASSUME NEW S, NEW T, T \subseteq S, Bounded(S)
  PROVE  Bounded(T) /\ Cardinality(T) <= Cardinality(S)
<1>1. IsFiniteSet(T) /\ Cardinality(T) <= Cardinality(S)
  BY FS_Subset DEF Bounded
<1>2. Cardinality(S) \in Nat /\ Cardinality(T) \in Nat
  BY <1>1, FS_CardinalityType DEF Bounded
<1> QED BY <1>1, <1>2, CeilingType DEF Bounded

LEMMA RecentSize ==
  ASSUME BooksBounded
  PROVE  /\ Cardinality(Recent) \in Nat /\ Cardinality(Recent) <= Ceiling
         /\ ~BudgetSpent <=> Cardinality(Recent) < MaxAuth
BY FS_CardinalityType, CeilingType DEF BooksBounded, Bounded, BudgetSpent

\* Steps that leave the clock alone, may prune the memory and may save it.
LEMMA SameBooks ==
  ASSUME BooksBounded, now' = now, attempts' = attempts \/ attempts' = Recent,
         disk' = disk \/ disk'.attempts = attempts
  PROVE  BooksBounded' /\ Recent' = Recent /\ BudgetSpent' = BudgetSpent
<1>1. Recent' = Recent /\ Recent \subseteq attempts
  BY SameRecent DEF Recent
<1>2. IsFiniteSet(attempts') /\ IsFiniteSet(disk'.attempts)
  BY <1>1, FS_Subset DEF BooksBounded
<1>3. RecentOnDisk' \in {RecentOnDisk, Recent}
  BY DEF RecentOnDisk, Recent
<1> QED BY <1>1, <1>2, <1>3 DEF BooksBounded, Bounded, BudgetSpent

\* Recording a sign-in that has room.
LEMMA RecordedBooks ==
  ASSUME TypeOK, BooksBounded, Record, now' = now,
         Cardinality(Recent) < Allowance
  PROVE  BooksBounded' /\ Cardinality(Recent') <= Allowance
<1> DEFINE new == Recent \union {[id |-> run.id, time |-> now]}
<1>1. IsFiniteSet(Recent) /\ Cardinality(Recent) \in Nat
  BY FS_CardinalityType DEF BooksBounded, Bounded
<1>2. /\ IsFiniteSet(new)
      /\ Cardinality(new) \in {Cardinality(Recent), Cardinality(Recent) + 1}
  BY <1>1, FS_AddElement
<1>3. Bounded(new) /\ Cardinality(new) <= Allowance
  BY <1>1, <1>2, CeilingType DEF Allowance, Bounded
<1>4. attempts' = new /\ Recent' \subseteq new
  BY DEF Record, Recent
<1>5. Bounded(Recent') /\ Cardinality(Recent') <= Cardinality(new)
  BY <1>3, <1>4, BoundedSubset
<1>6. Cardinality(Recent') \in Nat /\ Cardinality(new) \in Nat
  BY <1>2, <1>5, FS_CardinalityType DEF Bounded
<1>7. Cardinality(Recent') <= Allowance
  BY <1>3, <1>5, <1>6, CeilingType DEF Allowance
<1>8. IsFiniteSet(disk'.attempts) /\ Bounded(RecentOnDisk')
  <2>1. CASE disk' = disk
    <3>1. RecentOnDisk' = RecentOnDisk
      BY <2>1 DEF RecentOnDisk
    <3> QED BY <2>1, <3>1 DEF BooksBounded, Bounded
  <2>2. CASE disk'.attempts = new
    <3>1. RecentOnDisk' \subseteq new
      BY <2>2 DEF RecentOnDisk
    <3> QED BY <1>2, <1>3, <2>2, <3>1, BoundedSubset
  <2> QED BY <1>4, <2>1, <2>2 DEF Record, Save
<1> QED BY <1>2, <1>4, <1>5, <1>7, <1>8 DEF BooksBounded

LEMMA InitBooks == Init => BooksInv
<1> SUFFICES ASSUME Init PROVE BooksInv
  OBVIOUS
<1>1. Recent = {} /\ RecentOnDisk = {} /\ disk.attempts = {}
  BY DEF Init, Recent, RecentOnDisk
<1> QED
  BY <1>1, FS_EmptySet, CeilingType
     DEF Init, BooksInv, BooksBounded, Bounded, RoomToRecord, RoomAfterLookup, Honoured, Lives,
         NoRun

LEMMA ForgetBooks == ASSUME BooksInv, Forget PROVE BooksInv'
<1>1. /\ now' = now /\ disk' = disk /\ jar' = jar /\ backup' = backup /\ run' = NoRun
      /\ attempts' = {} /\ pc' = "down"
  BY DEF Forget
<1>2. Recent' = {} /\ RecentOnDisk' = RecentOnDisk
  BY <1>1 DEF Recent, RecentOnDisk
<1>3. BooksBounded'
  BY <1>1, <1>2, FS_EmptySet, CeilingType DEF BooksInv, BooksBounded, Bounded
<1> QED
  BY <1>1, <1>3 DEF BooksInv, RoomToRecord, RoomAfterLookup, Honoured, Lives, NoRun

LEMMA BootBooks == ASSUME Blocked, BooksInv, Boot PROVE BooksInv'
<1>1. /\ now' = now /\ disk' = disk /\ run' = run /\ attempts' = RecentOnDisk
      /\ run.phase = "none" /\ pc' = "top"
      /\ jar' \in {jar, backup} /\ backup' = "none"
  BY DEF Boot, RecentOnDisk, history, Blocked
<1>2. Recent' = RecentOnDisk /\ RecentOnDisk' = RecentOnDisk
  BY <1>1 DEF Recent, RecentOnDisk
<1>3. IsFiniteSet(RecentOnDisk)
  BY DEF BooksInv, BooksBounded, Bounded
<1>4. BooksBounded'
  BY <1>1, <1>2, <1>3 DEF BooksInv, BooksBounded, Bounded
<1> QED
  BY <1>1, <1>4 DEF BooksInv, RoomToRecord, RoomAfterLookup, Honoured, Lives

\* A cycle or a reauth starts with room, or with a session that works.
LEMMA StartBooks ==
  ASSUME Blocked, BooksInv, pc \in {"wait", "due"},
         (\E m \in BOOLEAN : SyncCycle(m)) \/ RefuseReauth \/ StartReauth
  PROVE  BooksInv' /\ Recent' = Recent
<1>1. now' = now /\ disk' = disk /\ attempts' = Recent
  BY DEF SyncCycle, RefuseKeyring, RefuseBudget, StartCycle, RefuseReauth, StartReauth,
         SetState, files, history
<1>2. BooksBounded' /\ Recent' = Recent
  BY <1>1, SameBooks DEF BooksInv
<1>3. CASE \E m \in BOOLEAN : StartCycle(m)
  <2>1. /\ run' = Launched /\ jar' = jar /\ backup' = backup
        /\ pc' \in {"lookup", "sync"}
        /\ pc' = "lookup" => NeedsLookup
        /\ ~BudgetSpent \/ CookieValid
    BY <1>3 DEF StartCycle, files
  <2>2. jar # "trusted" => Cardinality(Recent) < MaxAuth
    BY <2>1, RecentSize DEF CookieValid, BooksInv, Honoured
  <2>3. RoomToRecord' /\ RoomAfterLookup'
    BY <1>2, <2>1, <2>2, RecentSize, CeilingType
       DEF RoomToRecord, RoomAfterLookup, Allowance, BooksInv, Lives, Launched, NoRun
  <2> QED
    BY <1>2, <2>1, <2>3 DEF BooksInv, Honoured, Launched, NoRun
<1>4. CASE StartReauth
  <2>1. /\ run' = Launched /\ jar' = "absent" /\ backup' \in {backup, jar}
        /\ pc' = "auth" /\ ~BudgetSpent
    BY <1>4 DEF StartReauth
  <2> QED
    BY <1>2, <2>1, RecentSize
       DEF BooksInv, RoomToRecord, RoomAfterLookup, Allowance, Honoured, Launched, NoRun
<1>5. CASE RefuseReauth \/ \E m \in BOOLEAN : RefuseKeyring(m) \/ RefuseBudget(m)
  <2>1. /\ run' = run /\ jar' = jar /\ backup' = backup /\ pc' \in {"due", "top"}
        /\ run.phase = "none"
    BY <1>5 DEF RefuseReauth, RefuseKeyring, RefuseBudget, After, files, Blocked
  <2> QED
    BY <1>2, <2>1 DEF BooksInv, RoomToRecord, RoomAfterLookup, Honoured, Lives
<1> QED BY <1>3, <1>4, <1>5 DEF SyncCycle

LEMMA LookupBooks == ASSUME TypeOK, BooksInv, LookupDone, ~FinishCycle PROVE BooksInv'
<1>1. /\ now' = now /\ attempts' = attempts /\ disk' = disk /\ jar' = jar /\ backup' = backup
      /\ pc = "lookup" /\ pc' = "sync" /\ run' = Launched
  BY DEF LookupDone, files, history
<1>2. BooksBounded' /\ Recent' = Recent
  BY <1>1, SameBooks DEF BooksInv
<1>3. jar # "trusted" => Cardinality(Recent) < Ceiling
  BY <1>1, RecentSize, CeilingType DEF BooksInv, RoomAfterLookup
<1> QED
  BY <1>1, <1>2, <1>3
     DEF BooksInv, RoomToRecord, RoomAfterLookup, Allowance, Honoured, Launched, NoRun

LEMMA EndBooks ==
  ASSUME BooksInv, (FinishCycle /\ pc # "down") \/ ReauthDone \/ NextLibrary \/ NotDue
  PROVE  BooksInv' /\ Recent' = Recent
<1>1. /\ now' = now
      /\ attempts' = attempts \/ attempts' = Recent
      /\ disk' = disk \/ disk'.attempts = attempts
  <2>1. CASE FinishCycle \/ NotDue
    BY <2>1 DEF FinishCycle, NotDue, SetState, Save, history
  <2>2. CASE ReauthDone \/ NextLibrary
    BY <2>2 DEF ReauthDone, NextLibrary, SetState, memory, files, history
  <2> QED BY <2>1, <2>2
<1>2. BooksBounded' /\ Recent' = Recent
  BY <1>1, SameBooks DEF BooksInv
<1>3. CASE FinishCycle \/ ReauthDone
  <2>1. /\ run' = NoRun /\ jar' \in {jar, backup} /\ backup' \in {backup, "none"}
        /\ pc' \in {"due", "top"}
    BY <1>3 DEF FinishCycle, ReauthDone, After
  <2> QED
    BY <1>2, <2>1 DEF BooksInv, RoomToRecord, RoomAfterLookup, Honoured, Lives, NoRun
<1>4. CASE NextLibrary
  <2>1. /\ run' = Launched /\ jar' = jar /\ backup' = backup /\ pc' = "sync"
        /\ run.phase = "ok"
    BY <1>4 DEF NextLibrary, files
  <2> QED
    BY <1>2, <2>1 DEF BooksInv, RoomToRecord, RoomAfterLookup, Honoured, Launched, NoRun
<1>5. CASE NotDue
  <2>1. run' = run /\ jar' = jar /\ backup' = backup /\ pc = "due" /\ pc' = "top"
    BY <1>5 DEF NotDue
  <2> QED
    BY <1>2, <2>1
       DEF BooksInv, RoomToRecord, RoomAfterLookup, Allowance, Honoured, Lives
<1> QED BY <1>3, <1>4, <1>5

LEMMA SignInBooks ==
  ASSUME TypeOK, BooksInv, SignIn
  PROVE  BooksInv' /\ Recent' = Recent /\ Cardinality(Recent) < Allowance
<1>1. /\ now' = now /\ attempts' = attempts /\ disk' = disk /\ backup' = backup
      /\ pc' = pc /\ jar' \in {"trusted", "untrusted"} /\ jar # "trusted"
      /\ run.phase = "live" /\ run.id = 0 /\ run'.phase = "live"
      /\ run'.recorded = run.recorded
  BY DEF SignIn, SessionWorks, memory, TypeOK, ControlType, Runs
<1>2. ~run.recorded
  BY <1>1 DEF TypeOK, Coherent
<1>3. BooksBounded' /\ Recent' = Recent
  BY <1>1, SameBooks DEF BooksInv
<1>4. Cardinality(Recent) < Allowance
  BY <1>1, <1>2 DEF BooksInv, RoomToRecord, Lives
<1> QED
  BY <1>1, <1>3, <1>4 DEF BooksInv, RoomToRecord, RoomAfterLookup, Allowance, Honoured, Lives

\* Recording, at the prompt or at the end of the run.
LEMMA RecordBooks ==
  ASSUME TypeOK, BooksInv, Record, Lives, run.id # 0, ~run.recorded,
         now' = now, pc' = pc, jar' = jar, backup' = backup,
         run'.phase # "live" \/ run'.recorded,
         run'.phase = "ok" => jar = "trusted"
  PROVE  BooksInv'
<1>1. Cardinality(Recent) < Allowance
  BY DEF BooksInv, RoomToRecord
<1>2. BooksBounded' /\ Cardinality(Recent') <= Allowance
  BY <1>1, RecordedBooks DEF BooksInv
<1> QED
  BY <1>2 DEF BooksInv, RoomToRecord, RoomAfterLookup, Allowance, Honoured, Lives

LEMMA PromptBooks == ASSUME TypeOK, BooksInv, Prompt PROVE BooksInv'
<1>1. /\ now' = now /\ jar' = jar /\ backup' = backup /\ pc' = pc
      /\ run'.recorded /\ run.id # 0 /\ run'.phase = "live" /\ Lives
  BY DEF Prompt, TypeOK, ControlType, Runs, Coherent, Lives
<1>2. CASE ~run.recorded /\ Record
  BY <1>1, <1>2, RecordBooks
<1>3. CASE run.recorded /\ attempts' = Recent /\ disk' = disk
  <2>1. BooksBounded' /\ Recent' = Recent
    BY <1>1, <1>3, SameBooks DEF BooksInv
  <2> QED BY <1>1, <2>1 DEF BooksInv, RoomToRecord, RoomAfterLookup, Honoured, Lives
<1> QED BY <1>2, <1>3 DEF Prompt, ChargePrompt

LEMMA RunEndsBooks == ASSUME TypeOK, BooksInv, RunEnds PROVE BooksInv'
<1>1. /\ now' = now /\ jar' = jar /\ backup' = backup /\ pc' = pc /\ Lives
      /\ run'.phase \in {"ok", "failed"}
      /\ run'.phase = "ok" => jar = "trusted"
  BY DEF RunEnds, SessionWorks, TypeOK, ControlType, Runs, history, Lives
<1>2. CASE run.id # 0 /\ ~run.recorded /\ Record
  BY <1>1, <1>2, RecordBooks
<1>3. CASE attempts' = attempts /\ disk' = disk
  <2>1. BooksBounded' /\ Recent' = Recent
    BY <1>1, <1>3, SameBooks DEF BooksInv
  <2> QED BY <1>1, <2>1 DEF BooksInv, RoomToRecord, RoomAfterLookup, Honoured, Lives
<1> QED BY <1>2, <1>3 DEF RunEnds, AccountForRun

\* The clock only takes entries away.
LEMMA TickBooks ==
  ASSUME TypeOK, BooksInv, Tick
  PROVE  BooksInv' /\ Recent' \subseteq Recent
<1>1. /\ now \in Nat /\ now' = now + 1 /\ attempts' = attempts /\ disk' = disk
      /\ jar' = jar /\ backup' = backup /\ pc' = pc /\ run' = run
  BY DEF Tick, TypeOK, HistoryType, control, memory, files
<1>2. \A e \in Books : e.time \in Nat
  BY EntryType
<1>3. Recent' \subseteq Recent /\ RecentOnDisk' \subseteq RecentOnDisk
  BY <1>1, <1>2, ConstantsAssumption DEF Recent, RecentOnDisk, Books
<1>4. /\ Bounded(Recent') /\ Bounded(RecentOnDisk')
      /\ Cardinality(Recent') <= Cardinality(Recent)
  BY <1>3, BoundedSubset DEF BooksInv, BooksBounded
<1>5. BooksBounded'
  BY <1>1, <1>4 DEF BooksInv, BooksBounded, Bounded
<1>6. Cardinality(Recent) \in Nat /\ Cardinality(Recent') \in Nat
  BY <1>4, RecentSize, FS_CardinalityType DEF BooksInv, Bounded
<1>7. RoomToRecord' /\ RoomAfterLookup'
  BY <1>1, <1>4, <1>6, CeilingType
     DEF BooksInv, RoomToRecord, RoomAfterLookup, Allowance, Lives
<1> QED BY <1>1, <1>3, <1>5, <1>7 DEF BooksInv, Honoured

LEMMA OtherBooks ==
  ASSUME TypeOK, Blocked, BooksInv, Faults \cap {"revoke", "expire"} = {},
         \/ NothingToDo \/ CodeAccepted \/ Verified \/ Stop \/ Expire \/ OperatorInit
         \/ Raise \/ (LoopTop /\ ~Forget) \/ UNCHANGED vars
  PROVE  BooksInv' /\ Recent' = Recent
<1>1. /\ now' = now /\ disk' = disk /\ backup' = backup
      /\ attempts' = attempts \/ attempts' = Recent
  BY DEF NothingToDo, CodeAccepted, Verified, SetState, Stop, Expire, OperatorInit, Raise,
         LoopTop, vars, control, memory, files, history
<1>2. BooksBounded' /\ Recent' = Recent
  BY <1>1, SameBooks DEF BooksInv
<1>3. CASE NothingToDo \/ (LoopTop /\ ~Forget)
  <2>1. run' = run /\ jar' = jar /\ run.phase = "none" /\ pc' \in {"wait", "due"}
    BY <1>3 DEF NothingToDo, LoopTop, files, Blocked
  <2> QED BY <1>1, <1>2, <2>1 DEF BooksInv, RoomToRecord, RoomAfterLookup, Honoured, Lives
<1>4. CASE Stop \/ OperatorInit \/ UNCHANGED vars
  <2>1. run' = run /\ pc' = pc /\ jar' \in {jar, "trusted"}
    BY <1>4 DEF Stop, OperatorInit, vars, control, files
  <2> QED
    BY <1>1, <1>2, <2>1
       DEF BooksInv, RoomToRecord, RoomAfterLookup, Allowance, Honoured, Lives
<1>5. CASE Expire
  <2>1. run' = run /\ pc' = pc /\ run.phase = "none" /\ jar' = "untrusted" /\ pc # "lookup"
    BY <1>5 DEF Expire, control, Blocked
  <2> QED BY <1>1, <1>2, <2>1 DEF BooksInv, RoomToRecord, RoomAfterLookup, Honoured, Lives
<1>6. CASE CodeAccepted
  <2>1. jar' = "trusted" /\ pc' = pc /\ run'.recorded /\ run'.phase = "live"
    BY <1>6 DEF CodeAccepted, TypeOK, ControlType, Runs
  <2> QED BY <1>1, <1>2, <2>1 DEF BooksInv, RoomToRecord, RoomAfterLookup, Honoured, Lives
<1>7. CASE Verified
  <2>1. /\ jar' = jar /\ pc' = pc /\ run'.recorded = run.recorded /\ run'.phase = run.phase
        /\ run'.id = run.id
    BY <1>7 DEF Verified, files, TypeOK, ControlType, Runs
  <2> QED
    BY <1>1, <1>2, <2>1
       DEF BooksInv, RoomToRecord, RoomAfterLookup, Allowance, Honoured, Lives
<1>8. CASE Raise
  <2>1. jar' = jar /\ pc' = "top" /\ run' = NoRun
    BY <1>8 DEF Raise, files
  <2> QED
    BY <1>1, <1>2, <2>1 DEF BooksInv, RoomToRecord, RoomAfterLookup, Honoured, Lives, NoRun
<1> QED BY <1>3, <1>4, <1>5, <1>6, <1>7, <1>8

LEMMA BooksStep ==
  ASSUME Faults \cap {"revoke", "expire"} = {}, TypeOK, Blocked, BooksInv, [Next]_vars
  PROVE  BooksInv'
<1>1. CASE LoopTop \/ Kill
  BY <1>1, ForgetBooks, OtherBooks DEF LoopTop, Kill
<1>2. CASE SyncCommand \/ Due \/ ReauthCommand
  BY <1>2, StartBooks DEF SyncCommand, Due, ReauthCommand
<1>3. CASE LookupDone \/ SyncDone
  BY <1>3, LookupBooks, EndBooks DEF LookupDone, SyncDone
<1>4. CASE Revoke
  BY <1>4 DEF Revoke
<1> QED
  BY <1>1, <1>2, <1>3, <1>4, EndBooks, SignInBooks, PromptBooks, RunEndsBooks, TickBooks,
     OtherBooks, BootBooks
     DEF Next, MainThread, Environment

\* Neither the memory nor the state file ever holds more entries of the last day
\* than max_auth_per_day, plus one with a library lookup, through kills, exceptions
\* and failing saves (record_auth_attempt behind the checks of run_sync_cycle and
\* run_reauth), if Apple keeps to the cookie's expiry date.
BooksLimited == Cardinality(Recent) <= Ceiling /\ Cardinality(RecentOnDisk) <= Ceiling
THEOREM BooksNeverOverrun ==
  ASSUME Faults \cap {"revoke", "expire"} = {}
  PROVE  Spec => []BooksLimited
<1>1. TypeOK /\ Blocked /\ BooksInv /\ [Next]_vars => BooksInv'
  BY BooksStep
<1>2. BooksInv => BooksLimited
  BY DEF BooksInv, BooksBounded, Bounded, BooksLimited
<1> QED BY <1>1, <1>2, InitBooks, BlockedKept, TypeCorrect, PTL DEF Spec

-------------------------------------------------------------------------------
(* With the books right and bounded, so is what Apple sees.                  *)

\* Sign-ins with an entry each are no more than the entries.
LEMMA EnteredBound ==
  ASSUME NEW B, Bounded(B), NEW S, \A n \in S : \E e \in B : e.id = n
  PROVE  /\ IsFiniteSet(S) /\ Cardinality(S) <= Cardinality(B) /\ Cardinality(S) <= Ceiling
         /\ Cardinality(S) \in Nat
<1> DEFINE f == [n \in S |-> CHOOSE e \in B : e.id = n]
<1>1. f \in Injection(S, B)
  BY DEF Injection, IsInjective
<1>2. IsFiniteSet(S) /\ Cardinality(S) <= Cardinality(B)
  BY <1>1, FS_Injection DEF Bounded
<1> QED BY <1>2, FS_CardinalityType, CeilingType DEF Bounded

LEMMA EnteredOnDisk ==
  ASSUME TypeOK, NEW n \in RecentSignIns, Entered(disk.attempts, n)
  PROVE  \E e \in RecentOnDisk : e.id = n
BY EntryIsRecent DEF Entered, Books, RecentOnDisk

\* The sign-in in flight, which is on no books yet, takes the room kept for it.
LEMMA SignInsWithinCeiling ==
  ASSUME TypeOK, Blocked, CountInv, BooksInv
  PROVE  Cardinality(RecentSignIns) <= Ceiling
<1> DEFINE S == {n \in RecentSignIns : ~InFlight(n)}
<1>1. /\ IsFiniteSet(S) /\ Cardinality(S) <= Cardinality(RecentOnDisk)
      /\ Cardinality(S) <= Ceiling /\ Cardinality(S) \in Nat
  BY EnteredOnDisk, EnteredBound DEF CountInv, AllEntered, BooksInv, BooksBounded
<1>2. Cardinality(RecentOnDisk) \in Nat
  BY FS_CardinalityType DEF BooksInv, BooksBounded, Bounded
<1>3. CASE S = RecentSignIns
  BY <1>1, <1>2, <1>3, CeilingType
<1>4. CASE S # RecentSignIns
  <2>1. Lives /\ ~run.recorded /\ run.id \in RecentSignIns
    BY <1>4 DEF InFlight
  <2>2. RecentSignIns = S \union {run.id} /\ run.id \notin S
    BY <2>1 DEF InFlight
  <2>3. Cardinality(RecentSignIns) = Cardinality(S) + 1
    BY <1>1, <2>2, FS_AddElement
  <2>4. run.id # 0
    BY <2>1, EntryType DEF RecentSignIns
  <2>5. RecentOnDisk = Recent
    BY <2>1 DEF CountInv, MemoryAgrees, Blocked, Lives
  <2>6. Cardinality(RecentOnDisk) < Ceiling
    BY <1>2, <2>1, <2>4, <2>5, CeilingType DEF BooksInv, RoomToRecord, Allowance
  <2> QED BY <1>1, <1>2, <2>3, <2>6, CeilingType
<1> QED BY <1>3, <1>4

\* Without faults Apple never sees more than max_auth_per_day password sign-ins in a
\* rolling day, plus one with a library lookup: the attempt that a lookup can spend
\* twice is never spent three times, however cycles, commands and restarts fall.
SignInsLimited == Cardinality(RecentSignIns) <= Ceiling
THEOREM CeilingKept ==
  ASSUME Faults = {}
  PROVE  Spec => []SignInsLimited
<1>1. TypeOK /\ Blocked /\ CountInv /\ BooksInv /\ [Next]_vars => CountInv' /\ BooksInv'
  BY CountStep, BooksStep
<1>2. TypeOK /\ Blocked /\ CountInv /\ BooksInv => SignInsLimited
  BY SignInsWithinCeiling DEF SignInsLimited
<1> QED BY <1>1, <1>2, InitCount, InitBooks, BlockedKept, TypeCorrect, PTL DEF Spec

\* Whatever dies, fails or cannot be saved, no more sign-ins of a rolling day ask for
\* a code and are noticed than the ceiling allows, but for those a dying process took
\* along unsaved: the entry made at the prompt outlives the process, and the checks of
\* run_sync_cycle and run_reauth count it.
PromptsLimited == Cardinality(RecentSignIns \cap seen) <= Ceiling
THEOREM PromptsNeverOverrun ==
  ASSUME Faults \cap {"revoke", "expire"} = {}
  PROVE  Spec => []PromptsLimited
<1>1. TypeOK /\ Blocked /\ BooksInv /\ [Next]_vars => BooksInv'
  BY BooksStep
<1>2. LedgerInv /\ BooksInv => PromptsLimited
  <2> SUFFICES ASSUME LedgerInv, BooksInv PROVE PromptsLimited
    OBVIOUS
  <2>1. TypeOK
    BY DEF LedgerInv
  <2>2. CASE pc = "down"
    <3>1. \A n \in RecentSignIns \cap seen : Entered(disk.attempts, n)
      BY <2>2 DEF LedgerInv, PromptsEntered
    <3>2. \A n \in RecentSignIns \cap seen : \E e \in RecentOnDisk : e.id = n
      BY <2>1, <3>1, EnteredOnDisk
    <3> QED BY <3>2, EnteredBound DEF BooksInv, BooksBounded, PromptsLimited
  <2>3. CASE pc # "down"
    <3>1. \A n \in RecentSignIns \cap seen : \E e \in Recent : e.id = n
      BY <2>1, <2>3, PruningSpares DEF LedgerInv, PromptsEntered, Entered, RecentSignIns
    <3> QED BY <3>1, EnteredBound DEF BooksInv, BooksBounded, PromptsLimited
  <2> QED BY <2>2, <2>3
<1> QED BY <1>1, <1>2, InitBooks, BlockedKept, LedgerKept, TypeCorrect, PTL DEF Spec

\* Without faults and without a library lookup, Apple never sees more than
\* max_auth_per_day password sign-ins in a rolling day, for every budget, day,
\* interval and number of libraries.
THEOREM BudgetKept ==
  ASSUME Faults = {}, ~NeedsLookup
  PROVE  Spec => []RollingBudget
<1>1. SignInsLimited => RollingBudget
  BY CeilingType DEF SignInsLimited, RollingBudget
<1> QED BY <1>1, CeilingKept, PTL
=============================================================================
