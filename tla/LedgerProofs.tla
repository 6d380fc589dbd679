----------------------------- MODULE LedgerProofs -----------------------------
(***************************************************************************)
(* What the books of the budget keep under every fault of module           *)
(* Supervisor: kills, exceptions, a state file that cannot be written,     *)
(* revoked and expired sessions, and with libraries that need a lookup.    *)
(***************************************************************************)
EXTENDS SupervisorProofs

Lives == run.phase = "live"
Books == attempts \union disk.attempts
Entered(S, n) == \E e \in S : e.id = n /\ e.time >= signIns[n]

\* A run that waits to be recorded has no entry yet.
NotYetEntered == Lives /\ ~run.recorded => \A e \in Books : e.id # run.id

\* A noticed prompt is on disk if it could be saved and, while the process lives,
\* in memory; the time of the entry keeps it from being pruned before the sign-in
\* has aged out.
PromptsEntered ==
  \A n \in seen : n \in RecentSignIns =>
    /\ n \notin unsaved => Entered(disk.attempts, n)
    /\ pc # "down" => Entered(attempts, n)

LedgerInv ==
  /\ TypeOK
  /\ Lives => pc # "down"
  /\ pc = "down" => unsaved = {}
  /\ run.recorded => run.id \in seen
  /\ ChargedOnce /\ NotYetEntered /\ PromptsEntered

\* The steps that record nothing: they may prune what memory holds and save it.
Keeps ==
  /\ now' = now /\ signIns' = signIns
  /\ seen' = seen \/ (seen' = seen \ unsaved /\ run' = NoRun)
  /\ attempts' = attempts \/ attempts' = Recent \/ (attempts' = {} /\ pc' = "down")
  /\ \/ disk' = disk /\ unsaved' = unsaved
     \/ disk' = disk /\ unsaved' = {} /\ seen' = seen \ unsaved
     \/ disk'.attempts = attempts /\ unsaved' = {} /\ pc # "down"
  /\ pc' = "down" => unsaved' = {}
  /\ pc' = "down" \/ pc # "down"
  /\ run' = NoRun \/ run' = Launched
       \/ (run'.id = run.id /\ run'.recorded = run.recorded /\ (run'.phase = "live" => Lives))
  /\ run'.phase = "live" => pc' # "down"

LEMMA EntryType ==
  ASSUME TypeOK
  PROVE  /\ \A e \in Books : e.id \in DOMAIN signIns /\ e.id # 0 /\ e.time \in Nat
         /\ \A n \in seen : n \in DOMAIN signIns
         /\ \A n \in DOMAIN signIns : signIns[n] \in Nat /\ signIns[n] <= now
         /\ now \in Nat /\ Day \in Nat /\ DOMAIN signIns = 1 .. Len(signIns) /\ Len(signIns) \in Nat
<1>1. /\ signIns \in Seq(Nat) /\ now \in Nat /\ seen \subseteq DOMAIN signIns
      /\ \A n \in DOMAIN signIns : signIns[n] <= now
  BY DEF TypeOK, HistoryType
<1>2. attempts \subseteq Entries /\ disk.attempts \subseteq Entries
  BY DEF TypeOK, MemoryType, FilesType, Disks
<1>3. DOMAIN signIns = 1 .. Len(signIns) /\ Len(signIns) \in Nat
      /\ \A n \in DOMAIN signIns : signIns[n] \in Nat
  BY <1>1
<1>4. \A e \in Entries : e.id \in DOMAIN signIns /\ e.time \in Nat
  BY <1>1 DEF Entries, Times
<1>5. \A e \in Books : e.id \in DOMAIN signIns /\ e.time \in Nat
  BY <1>2, <1>4 DEF Books
<1>6. \A n \in DOMAIN signIns : n # 0
  BY <1>3
<1> QED
  BY <1>1, <1>3, <1>5, <1>6, ConstantsAssumption

\* Pruning spares the entry of a sign-in of the last day.
LEMMA PruningSpares ==
  ASSUME TypeOK, NEW n \in DOMAIN signIns, n \in RecentSignIns, Entered(attempts, n)
  PROVE  Entered(Recent, n)
<1>1. PICK e \in attempts : e.id = n /\ e.time >= signIns[n]
  BY DEF Entered
<1>2. e.time \in Nat /\ signIns[n] \in Nat /\ now \in Nat /\ Day \in Nat
  BY EntryType DEF Books
<1>3. e.time > now - Day
  BY <1>1, <1>2 DEF RecentSignIns
<1> QED
  BY <1>1, <1>3 DEF Recent, Entered

LEMMA KeepsLedger ==
  ASSUME LedgerInv, TypeOK', Keeps
  PROVE  LedgerInv'
<1>1. TypeOK /\ Recent \subseteq attempts
  BY DEF LedgerInv, Recent
<1>2. Books' \subseteq Books
  BY <1>1 DEF Keeps, Books
<1>3. ChargedOnce'
  BY <1>2 DEF LedgerInv, ChargedOnce, Books
<1>4. NotYetEntered'
  <2>1. ASSUME run'.phase = "live", ~run'.recorded, NEW e \in Books' PROVE e.id # run'.id
    <3>1. e \in Books /\ e.id # 0
      BY <1>1, <1>2, <2>1, EntryType
    <3>2. CASE run' = NoRun \/ run' = Launched
      BY <3>1, <3>2 DEF NoRun, Launched
    <3>3. CASE ~(run' = NoRun \/ run' = Launched)
      BY <2>1, <3>1, <3>3 DEF Keeps, LedgerInv, NotYetEntered
    <3> QED BY <3>2, <3>3
  <2> QED BY <2>1 DEF NotYetEntered, Lives
<1>5. run'.recorded => run'.id \in seen'
  <2>1. CASE run' = NoRun \/ run' = Launched
    BY <2>1 DEF NoRun, Launched
  <2>2. CASE ~(run' = NoRun \/ run' = Launched)
    <3>1. seen' = seen /\ run'.id = run.id /\ run'.recorded = run.recorded
      BY <2>2 DEF Keeps
    <3> QED BY <3>1 DEF LedgerInv
  <2> QED BY <2>1, <2>2
<1>6. PromptsEntered'
  <2> SUFFICES ASSUME NEW n \in seen', n \in RecentSignIns'
               PROVE  /\ n \notin unsaved' => Entered(disk.attempts, n)'
                      /\ pc' # "down" => Entered(attempts, n)'
    BY DEF PromptsEntered
  <2>1. n \in seen /\ n \in RecentSignIns /\ n \in DOMAIN signIns
    BY <1>1, EntryType DEF Keeps, RecentSignIns
  <2>2. /\ n \notin unsaved => Entered(disk.attempts, n)
        /\ pc # "down" => Entered(attempts, n)
    BY <2>1 DEF LedgerInv, PromptsEntered
  <2>3. pc # "down" => Entered(Recent, n)
    BY <1>1, <2>1, <2>2, PruningSpares
  <2>4. ASSUME n \notin unsaved' PROVE Entered(disk.attempts, n)'
    <3>1. /\ signIns' = signIns
          /\ \/ disk' = disk /\ n \notin unsaved
             \/ pc # "down" /\ disk'.attempts = attempts
      BY <2>4 DEF Keeps
    <3> QED BY <2>2, <3>1 DEF Entered
  <2>5. ASSUME pc' # "down" PROVE Entered(attempts, n)'
    <3>1. /\ signIns' = signIns /\ pc # "down"
          /\ attempts' = attempts \/ attempts' = Recent
      BY <2>5 DEF Keeps
    <3> QED BY <2>2, <2>3, <3>1 DEF Entered
  <2> QED BY <2>4, <2>5
<1> QED
  BY <1>3, <1>4, <1>5, <1>6 DEF LedgerInv, Lives, Keeps

\* Recording the sign-in of the run, which had no entry yet.
LEMMA RecordLedger ==
  ASSUME LedgerInv, TypeOK', Record, Lives, ~run.recorded, run.id # 0,
         now' = now, signIns' = signIns, pc' = pc, run'.id = run.id,
         \/ run'.recorded /\ seen' = seen \union {run.id}
         \/ run'.phase # "live" /\ ~run'.recorded /\ seen' = seen
  PROVE  LedgerInv'
<1> DEFINE new == [id |-> run.id, time |-> now]
<1>1. /\ attempts' = Recent \union {new}
      /\ \/ disk'.attempts = attempts' /\ unsaved' = {}
         \/ disk' = disk /\ unsaved' = unsaved \union {run.id}
  BY DEF Record, Save
<1>2. Books' \subseteq Books \union {new} /\ \A e \in Books : e.id # new.id
  BY <1>1 DEF Books, Recent, LedgerInv, NotYetEntered
<1>3. ChargedOnce'
  BY <1>2 DEF LedgerInv, ChargedOnce, Books
<1>4. NotYetEntered' /\ (run'.recorded => run'.id \in seen')
  BY DEF NotYetEntered, Lives, LedgerInv
<1>5. pc # "down" /\ TypeOK
  BY DEF LedgerInv
<1>6. run.id \in DOMAIN signIns /\ signIns[run.id] <= now
  BY <1>5 DEF TypeOK, ControlType, Runs, HistoryType
<1>7. PromptsEntered'
  <2> SUFFICES ASSUME NEW n \in seen', n \in RecentSignIns'
               PROVE  /\ Entered(attempts', n)
                      /\ n \notin unsaved' => Entered(disk'.attempts, n)
    BY DEF PromptsEntered, Entered
  <2>1. n \in RecentSignIns
    BY DEF RecentSignIns
  <2> SUFFICES /\ Entered(attempts', n)
               /\ n # run.id /\ n \notin unsaved => Entered(disk.attempts, n)
    BY <1>1
  <2>2. CASE n = run.id
    <3>1. new \in attempts' /\ new.id = n /\ new.time >= signIns[n]
      BY <1>1, <1>5, <1>6, <2>2, EntryType
    <3> QED BY <2>2, <3>1 DEF Entered
  <2>3. CASE n \in seen
    <3>1. /\ Entered(attempts, n) /\ n \in DOMAIN signIns
          /\ n \notin unsaved => Entered(disk.attempts, n)
      BY <1>5, <2>1, <2>3, EntryType DEF LedgerInv, PromptsEntered
    <3>2. Entered(Recent, n)
      BY <1>5, <2>1, <3>1, PruningSpares
    <3> QED BY <1>1, <3>1, <3>2 DEF Entered
  <2> QED BY <2>2, <2>3
<1> QED
  BY <1>3, <1>4, <1>5, <1>7 DEF LedgerInv, Lives

\* The steps of the main thread.
LEMMA ThreadLedger ==
  ASSUME LedgerInv, TypeOK', MainThread
  PROVE  LedgerInv'
<1>0. TypeOK
  BY DEF LedgerInv
<1>1. CASE LoopTop
  <2>1. Keeps
    BY <1>0, <1>1 DEF LoopTop, Forget, Keeps, memory, files, history, NoRun, LedgerInv, Lives
  <2> QED BY <2>1, KeepsLedger
<1>2. CASE NothingToDo
  <2>1. Keeps
    BY <1>0, <1>2 DEF NothingToDo, Keeps, memory, files, history, Lives
  <2> QED BY <2>1, KeepsLedger
<1>3. CASE NotDue
  <2>1. Keeps
    BY <1>0, <1>3 DEF NotDue, Save, Keeps, history, Lives
  <2> QED BY <2>1, KeepsLedger
<1>4. CASE SyncCommand \/ Due
  <2>1. PICK m \in BOOLEAN : SyncCycle(m) /\ pc \in {"wait", "due"}
    BY <1>4 DEF SyncCommand, Due
  <2>2. CASE RefuseKeyring(m) \/ RefuseBudget(m)
    <3>1. Keeps
      BY <1>0, <2>1, <2>2 DEF RefuseKeyring, RefuseBudget, SetState, After, Keeps, files, history, Lives
    <3> QED BY <3>1, KeepsLedger
  <2>3. CASE StartCycle(m)
    <3>1. Keeps
      BY <1>0, <2>1, <2>3 DEF StartCycle, SetState, Keeps, files, Launched, Lives
    <3> QED BY <3>1, KeepsLedger
  <2> QED BY <2>1, <2>2, <2>3 DEF SyncCycle
<1>5. CASE ReauthCommand
  <2>1. Keeps
    BY <1>0, <1>5 DEF ReauthCommand, RefuseReauth, StartReauth, SetState, After, Keeps, files,
                      history, Lives
  <2> QED BY <2>1, KeepsLedger
<1>6. ASSUME FinishCycle, pc # "down" PROVE LedgerInv'
  <2>1. Keeps
    BY <1>0, <1>6 DEF FinishCycle, Save, SetState, After, Keeps, history, NoRun, Lives
  <2> QED BY <2>1, KeepsLedger
<1>7. CASE LookupDone
  <2>1. CASE FinishCycle
    BY <1>6, <1>7, <2>1 DEF LookupDone
  <2>2. CASE ~FinishCycle
    <3>1. Keeps
      BY <1>0, <1>7, <2>2 DEF LookupDone, Keeps, files, history, Lives
    <3> QED BY <3>1, KeepsLedger
  <2> QED BY <2>1, <2>2
<1>8. CASE NextLibrary
  <2>1. Keeps
    BY <1>0, <1>8 DEF NextLibrary, Keeps, memory, files, history, Lives
  <2> QED BY <2>1, KeepsLedger
<1>9. CASE SyncDone
  BY <1>6, <1>9 DEF SyncDone
<1>10. CASE ReauthDone
  <2>1. Keeps
    BY <1>0, <1>10 DEF ReauthDone, SetState, After, Keeps, history, NoRun, Lives
  <2> QED BY <2>1, KeepsLedger
<1>11. CASE RunEnds
  <2>1. /\ run'.id = run.id /\ run'.recorded = run.recorded /\ run'.phase # "live" /\ Lives
        /\ now' = now /\ signIns' = signIns /\ seen' = seen /\ pc' = pc
    BY <1>0, <1>11 DEF RunEnds, history, TypeOK, ControlType, Runs, Lives
  <2>2. CASE run.id # 0 /\ ~run.recorded /\ Record
    BY <2>1, <2>2, RecordLedger
  <2>3. CASE UNCHANGED <<attempts, disk, unsaved>>
    <3>1. pc # "down"
      BY <2>1 DEF LedgerInv
    <3>2. Keeps
      BY <2>1, <2>3, <3>1 DEF Keeps
    <3> QED BY <3>2, KeepsLedger
  <2> QED BY <1>11, <2>2, <2>3 DEF RunEnds, AccountForRun
<1> QED
  BY <1>1, <1>2, <1>3, <1>4, <1>5, <1>7, <1>8, <1>9, <1>10, <1>11 DEF MainThread

\* The steps of icloudpd, Apple, the operator, the clock and the container.
LEMMA WorldLedger ==
  ASSUME LedgerInv, TypeOK', Environment
  PROVE  LedgerInv'
<1>0. TypeOK
  BY DEF LedgerInv
<1>1. CASE Stop \/ Expire \/ Revoke \/ OperatorInit
  <2>1. /\ UNCHANGED <<control, attempts, disk, unsaved, now, history>>
    BY <1>1 DEF Stop, Expire, Revoke, OperatorInit, memory, files
  <2> QED BY <2>1 DEF LedgerInv, Lives, ChargedOnce, NotYetEntered, PromptsEntered, Books, Entered,
                      RecentSignIns, control, history
<1>2. CASE Kill
  <2>1. Keeps
    BY <1>0, <1>2 DEF Kill, Forget, Keeps, files, history, NoRun, Lives
  <2> QED BY <2>1, KeepsLedger
<1>3. CASE Raise
  <2>1. pc # "down"
    BY <1>3 DEF Raise, LedgerInv, Lives
  <2>2. Keeps
    BY <1>0, <1>3, <2>1 DEF Raise, Keeps, memory, files, history, NoRun, Lives
  <2> QED BY <2>2, KeepsLedger
<1>4. CASE CodeAccepted \/ Verified
  <2>1. pc # "down" /\ run \in Runs
    BY <1>0, <1>4 DEF CodeAccepted, Verified, LedgerInv, Lives, TypeOK, ControlType
  <2>2. run'.id = run.id /\ run'.recorded = run.recorded /\ run'.phase = run.phase
    BY <1>4, <2>1 DEF CodeAccepted, Verified, Runs
  <2>3. Keeps
    BY <1>4, <2>1, <2>2 DEF CodeAccepted, Verified, SetState, Keeps, memory, files, history, Lives
  <2> QED BY <2>3, KeepsLedger
<1>5. CASE Tick
  <2>1. /\ UNCHANGED <<pc, run, attempts, disk, unsaved, signIns, seen>> /\ now' = now + 1
    BY <1>5 DEF Tick, control, memory, files, history
  <2>2. RecentSignIns' \subseteq RecentSignIns
    BY <1>0, <2>1, EntryType DEF RecentSignIns
  <2>3. PromptsEntered'
    BY <2>1, <2>2 DEF LedgerInv, PromptsEntered, Entered
  <2> QED BY <2>1, <2>3 DEF LedgerInv, Lives, ChargedOnce, NotYetEntered, Books
<1>6. CASE SignIn
  <2>1. /\ UNCHANGED <<pc, attempts, disk, unsaved, seen, now>> /\ signIns' = Append(signIns, now)
        /\ run.phase = "live" /\ run.id = 0
    BY <1>6 DEF SignIn, memory
  <2>2. run'.phase = run.phase /\ run'.id = Len(signIns) + 1 /\ run'.recorded = run.recorded
    BY <1>0, <1>6 DEF SignIn, TypeOK, ControlType, Runs
  <2>3. ~run.recorded
    BY <1>0, <2>1 DEF TypeOK, Coherent
  <2>4. \A n \in DOMAIN signIns : n \in DOMAIN signIns' /\ signIns'[n] = signIns[n]
    BY <1>0, <2>1 DEF TypeOK, HistoryType
  <2>5. NotYetEntered'
    BY <1>0, <2>1, <2>2, EntryType DEF NotYetEntered, Books
  <2>6. PromptsEntered'
    BY <1>0, <2>1, <2>4, EntryType DEF LedgerInv, PromptsEntered, Entered, RecentSignIns
  <2> QED BY <2>1, <2>2, <2>3, <2>5, <2>6 DEF LedgerInv, Lives, ChargedOnce
<1>7. CASE Boot
  <2>1. /\ UNCHANGED <<run, disk, unsaved, seen, signIns, now>> /\ pc = "down" /\ pc' = "top"
        /\ attempts' = {e \in disk.attempts : e.time > now - Day}
    BY <1>7 DEF Boot, history
  <2>2. ~Lives /\ Books' \subseteq Books
    BY <2>1 DEF LedgerInv, Books
  <2>3. ChargedOnce' /\ NotYetEntered'
    BY <2>1, <2>2 DEF LedgerInv, ChargedOnce, NotYetEntered, Books, Lives
  <2>4. PromptsEntered'
    <3> SUFFICES ASSUME NEW n \in seen, n \in RecentSignIns
                 PROVE  Entered(disk.attempts, n) /\ Entered(attempts', n)
      BY <2>1 DEF PromptsEntered, Entered, RecentSignIns
    <3>1. PICK e \in disk.attempts : e.id = n /\ e.time >= signIns[n]
      BY <2>1 DEF LedgerInv, PromptsEntered, Entered
    <3>2. e.time \in Nat /\ signIns[n] \in Nat /\ now \in Nat /\ Day \in Nat
      BY <1>0, EntryType DEF Books
    <3>3. e.time > now - Day
      BY <3>1, <3>2 DEF RecentSignIns
    <3> QED BY <2>1, <3>1, <3>3 DEF Entered
  <2> QED BY <2>1, <2>2, <2>3, <2>4 DEF LedgerInv, Lives
<1>8. CASE Prompt
  <2>1. /\ run'.id = run.id /\ run'.recorded /\ run'.phase = "live" /\ Lives /\ run.id # 0
        /\ now' = now /\ signIns' = signIns /\ seen' = seen \union {run.id} /\ pc' = pc
    BY <1>0, <1>8 DEF Prompt, TypeOK, Coherent, ControlType, Runs, Lives
  <2>2. CASE ~run.recorded /\ Record
    BY <2>1, <2>2, RecordLedger
  <2>3. CASE run.recorded /\ attempts' = Recent /\ UNCHANGED <<disk, unsaved>>
    <3>1. pc # "down" /\ seen' = seen
      BY <2>1, <2>3 DEF LedgerInv
    <3>2. Keeps
      BY <2>1, <2>3, <3>1 DEF Keeps
    <3> QED BY <3>2, KeepsLedger
  <2> QED BY <1>8, <2>2, <2>3 DEF Prompt, ChargePrompt
<1> QED
  BY <1>1, <1>2, <1>3, <1>4, <1>5, <1>6, <1>7, <1>8 DEF Environment

LEMMA LedgerStep == LedgerInv /\ TypeOK' /\ [Next]_vars => LedgerInv'
<1>1. LedgerInv /\ TypeOK' /\ Next => LedgerInv'
  BY ThreadLedger, WorldLedger DEF Next
<1>2. LedgerInv /\ UNCHANGED vars => LedgerInv'
  BY DEF LedgerInv, TypeOK, ControlType, MemoryType, FilesType, HistoryType, Coherent, Lives, ChargedOnce,
         NotYetEntered, PromptsEntered, Books, Entered, RecentSignIns, Times, Entries, Disks, Runs,
         vars, control, memory, files, history
<1> QED BY <1>1, <1>2

LEMMA LedgerInit == Init => LedgerInv
<1>1. Init => TypeOK
  BY InitType
<1> QED
  BY <1>1 DEF Init, LedgerInv, Lives, NoRun, ChargedOnce, NotYetEntered, PromptsEntered, Books

LEMMA LedgerKept == Spec => []LedgerInv
<1> QED BY LedgerInit, LedgerStep, TypeCorrect, PTL DEF Spec

\* A sign-in is never charged twice, whatever dies or fails between its prompt
\* and the end of its run (_auth_recorded_this_run in scheduler.py).
THEOREM NeverChargedTwice == Spec => []ChargedOnce
<1>1. LedgerInv => ChargedOnce
  BY DEF LedgerInv
<1> QED BY <1>1, LedgerKept, PTL

\* A prompt once noticed is on the books for a day, through kills, restarts,
\* exceptions and failing saves (the record and save in _tick_during_run).
THEOREM PromptNeverLost == Spec => []PromptKept
<1>1. LedgerInv => PromptKept
  BY DEF LedgerInv, PromptsEntered, Entered, PromptKept
<1> QED BY <1>1, LedgerKept, PTL

-------------------------------------------------------------------------------
(* The books agree with Apple between runs, unless the container is killed,  *)
(* a run raises an exception or the state file cannot be written.            *)

RecentOnDisk == {e \in disk.attempts : e.time > now - Day}

\* The sign-in of the run in flight is on nobody's books until its prompt is
\* noticed or the run ends.
InFlight(n) == Lives /\ n = run.id /\ ~run.recorded

\* Memory and disk agree on the last day, and every other sign-in of it is entered.
MemoryAgrees == pc # "down" => RecentOnDisk = Recent
AllEntered == \A n \in RecentSignIns : Entered(disk.attempts, n) \/ InFlight(n)
CountInv == MemoryAgrees /\ AllEntered

\* Entries that are not older than a sign-in of the last day are of the last day.
LEMMA EntryIsRecent ==
  ASSUME TypeOK, NEW n \in RecentSignIns, NEW e \in Books, e.time >= signIns[n]
  PROVE  e.time > now - Day
BY EntryType DEF RecentSignIns

\* What the file holds of the last day is in memory, pruned or not.
LEMMA EnteredInMemory ==
  ASSUME TypeOK, CountInv, pc # "down", NEW n \in RecentSignIns, Entered(disk.attempts, n)
  PROVE  Entered(Recent, n)
<1>1. PICK e \in disk.attempts : e.id = n /\ e.time >= signIns[n]
  BY DEF Entered
<1>2. e.time > now - Day
  BY <1>1, EntryIsRecent DEF Books
<1>3. e \in Recent
  BY <1>1, <1>2 DEF CountInv, MemoryAgrees, RecentOnDisk
<1> QED BY <1>1, <1>3 DEF Entered

\* The steps that record nothing: they may prune what memory holds and save it.
LEMMA KeepsCount ==
  ASSUME TypeOK, CountInv, pc # "down", pc' # "down", now' = now, signIns' = signIns,
         attempts' = attempts \/ attempts' = Recent,
         disk' = disk \/ disk'.attempts = attempts,
         \A n \in DOMAIN signIns : InFlight(n) => InFlight(n)'
  PROVE  CountInv'
<1>1. Recent' = Recent /\ RecentSignIns' = RecentSignIns
  BY SameRecent DEF RecentSignIns
<1>2. RecentOnDisk' \in {RecentOnDisk, Recent}
  BY DEF RecentOnDisk, Recent
<1>3. MemoryAgrees'
  BY <1>1, <1>2 DEF CountInv, MemoryAgrees
<1>4. ASSUME NEW n \in RecentSignIns PROVE Entered(disk.attempts, n)' \/ InFlight(n)'
  <2>1. CASE InFlight(n)
    BY <2>1 DEF RecentSignIns
  <2>2. CASE Entered(disk.attempts, n)
    <3>1. Entered(attempts, n)
      BY <2>2, EnteredInMemory DEF Entered, Recent
    <3> QED BY <2>2, <3>1 DEF Entered
  <2> QED BY <2>1, <2>2 DEF CountInv, AllEntered
<1> QED BY <1>1, <1>3, <1>4 DEF CountInv, AllEntered

\* Recording keeps what was entered and enters the sign-in of the run.
LEMMA RecordCount ==
  ASSUME "nosave" \notin Faults, TypeOK, CountInv, pc # "down", Record, run.id # 0,
         now' = now, signIns' = signIns
  PROVE  CountInv'
<1> DEFINE new == [id |-> run.id, time |-> now]
<1>1. attempts' = Recent \union {new} /\ disk'.attempts = attempts'
  BY DEF Record, Save
<1>2. RecentOnDisk' = Recent'
  BY <1>1 DEF RecentOnDisk, Recent
<1>3. RecentSignIns' = RecentSignIns
  BY DEF RecentSignIns
<1>4. ASSUME NEW n \in RecentSignIns PROVE Entered(disk.attempts, n)'
  <2>1. CASE n = run.id
    <3>1. new.id = n /\ new.time >= signIns[n] /\ new \in disk'.attempts
      BY <1>1, <2>1, EntryType DEF RecentSignIns
    <3> QED BY <3>1 DEF Entered
  <2>2. CASE n # run.id
    <3>1. Entered(Recent, n)
      BY <2>2, EnteredInMemory DEF CountInv, AllEntered, InFlight
    <3> QED BY <1>1, <3>1 DEF Entered
  <2> QED BY <2>1, <2>2
<1> QED BY <1>2, <1>3, <1>4 DEF CountInv, MemoryAgrees, AllEntered

LEMMA InitCount == Init => CountInv
BY DEF Init, CountInv, MemoryAgrees, AllEntered, RecentSignIns

LEMMA ForgetCount ==
  ASSUME CountInv, Forget, ~Lives
  PROVE  CountInv'
BY DEF CountInv, Forget, MemoryAgrees, AllEntered, Entered, InFlight, RecentSignIns

LEMMA BootCount ==
  ASSUME CountInv, Blocked, Boot
  PROVE  CountInv'
<1>1. /\ now' = now /\ signIns' = signIns /\ disk' = disk /\ run' = run /\ ~Lives
      /\ attempts' = RecentOnDisk
  BY DEF Boot, history, Blocked, Lives, RecentOnDisk
<1> QED
  BY <1>1 DEF CountInv, MemoryAgrees, AllEntered, Entered, InFlight, RecentSignIns,
              RecentOnDisk, Recent

LEMMA SignInCount ==
  ASSUME TypeOK, CountInv, SignIn
  PROVE  CountInv'
<1>1. /\ pc' = pc /\ attempts' = attempts /\ disk' = disk /\ now' = now
      /\ signIns \in Seq(Nat) /\ signIns' = Append(signIns, now)
  BY DEF SignIn, memory, TypeOK, HistoryType
<1>2. /\ \A n \in DOMAIN signIns : n \in DOMAIN signIns' /\ signIns'[n] = signIns[n]
      /\ \A n \in DOMAIN signIns' : n \in DOMAIN signIns \/ n = Len(signIns) + 1
  BY <1>1
<1>3. run'.phase = "live" /\ run'.id = Len(signIns) + 1 /\ ~run'.recorded
  BY DEF SignIn, TypeOK, ControlType, Runs, Coherent
<1>4. MemoryAgrees'
  BY <1>1 DEF CountInv, MemoryAgrees, RecentOnDisk, Recent
<1>5. ASSUME NEW n \in RecentSignIns' PROVE Entered(disk.attempts, n)' \/ InFlight(n)'
  <2>1. CASE n = Len(signIns) + 1
    BY <1>3, <2>1 DEF InFlight, Lives
  <2>2. CASE n \in DOMAIN signIns
    <3>1. n \in RecentSignIns /\ n # 0
      BY <1>1, <1>2, <2>2 DEF RecentSignIns
    <3>2. Entered(disk.attempts, n)
      BY <3>1 DEF CountInv, AllEntered, InFlight, SignIn
    <3> QED BY <1>1, <1>2, <2>2, <3>2 DEF Entered
  <2> QED BY <1>2, <2>1, <2>2 DEF RecentSignIns
<1> QED BY <1>4, <1>5 DEF CountInv, AllEntered

\* As the day moves on, both the sign-ins and the entries it covers only shrink.
LEMMA TickCount ==
  ASSUME TypeOK, CountInv, Tick
  PROVE  CountInv'
<1>1. /\ UNCHANGED <<pc, run, attempts, disk, signIns>> /\ now' = now + 1
  BY DEF Tick, control, memory, files, history
<1>2. /\ now \in Nat /\ Day \in Nat /\ \A e \in Books : e.time \in Nat
      /\ \A n \in DOMAIN signIns : signIns[n] \in Nat
  BY EntryType
<1>3. /\ \A e \in Books : e.time > now' - Day => e.time > now - Day
      /\ \A n \in DOMAIN signIns : signIns[n] > now' - Day => signIns[n] > now - Day
  BY <1>1, <1>2
<1>4. RecentSignIns' \subseteq RecentSignIns
  BY <1>1, <1>3 DEF RecentSignIns
<1>5. /\ RecentOnDisk' = {e \in RecentOnDisk : e.time > now' - Day}
      /\ Recent' = {e \in Recent : e.time > now' - Day}
  BY <1>1, <1>3 DEF RecentOnDisk, Recent, Books
<1> QED
  BY <1>1, <1>4, <1>5 DEF CountInv, MemoryAgrees, AllEntered, Entered, InFlight, Lives

LEMMA RunEndsCount ==
  ASSUME "nosave" \notin Faults, TypeOK, Blocked, CountInv, RunEnds
  PROVE  CountInv'
<1>1. now' = now /\ signIns' = signIns /\ pc' = pc /\ pc # "down"
  BY DEF RunEnds, history, Blocked
<1>2. CASE run.id # 0 /\ ~run.recorded /\ Record
  BY <1>1, <1>2, RecordCount
<1>3. CASE (run.id = 0 \/ run.recorded) /\ UNCHANGED <<attempts, disk>>
  <2>1. \A n \in DOMAIN signIns : ~InFlight(n)
    BY <1>3, EntryType DEF InFlight
  <2> QED BY <1>1, <1>3, <2>1, KeepsCount
<1> QED BY <1>2, <1>3 DEF RunEnds, AccountForRun

LEMMA PromptCount ==
  ASSUME "nosave" \notin Faults, TypeOK, Blocked, CountInv, Prompt
  PROVE  CountInv'
<1>1. now' = now /\ signIns' = signIns /\ pc' = pc /\ pc # "down" /\ run.id # 0
  BY DEF Prompt, Blocked, TypeOK, Coherent
<1>2. CASE ~run.recorded /\ Record
  BY <1>1, <1>2, RecordCount
<1>3. CASE run.recorded /\ attempts' = Recent /\ UNCHANGED disk
  <2>1. \A n \in DOMAIN signIns : ~InFlight(n)
    BY <1>3 DEF InFlight
  <2> QED BY <1>1, <1>3, <2>1, KeepsCount
<1> QED BY <1>2, <1>3 DEF Prompt, ChargePrompt

\* The steps that neither record a sign-in nor see one.
LEMMA QuietCount ==
  ASSUME Faults \cap {"kill", "raise", "nosave"} = {}, TypeOK, Blocked, CountInv,
         \/ LoopTop \/ NothingToDo \/ NotDue \/ SyncCommand \/ Due \/ ReauthCommand
         \/ LookupDone \/ NextLibrary \/ SyncDone \/ ReauthDone
         \/ CodeAccepted \/ Verified
  PROVE  CountInv'
<1>1. pc # "down"
  BY DEF LoopTop, NothingToDo, NotDue, SyncCommand, Due, ReauthCommand, LookupDone,
         NextLibrary, SyncDone, ReauthDone, CodeAccepted, Verified, Blocked
<1>2. CASE LoopTop /\ Forget
  BY <1>2, ForgetCount DEF LoopTop, Blocked, Lives
<1>3. CASE \/ LoopTop /\ ~Forget
           \/ NothingToDo \/ NotDue \/ SyncCommand \/ Due \/ ReauthCommand
  <2>1. /\ now' = now /\ signIns' = signIns /\ pc' # "down" /\ ~Lives
        /\ attempts' = attempts \/ attempts' = Recent
        /\ disk' = disk \/ disk'.attempts = attempts
    BY <1>1, <1>3
       DEF LoopTop, NothingToDo, NotDue, SyncCommand, Due, SyncCycle, RefuseKeyring,
           RefuseBudget, StartCycle, ReauthCommand, RefuseReauth, StartReauth, SetState, Save,
           After, memory, files, history, Blocked, Lives
  <2> QED BY <1>1, <2>1, KeepsCount DEF InFlight
<1>4. CASE LookupDone \/ NextLibrary \/ SyncDone \/ ReauthDone
  <2>1. /\ now' = now /\ signIns' = signIns /\ pc' # "down" /\ ~Lives
        /\ attempts' = attempts \/ attempts' = Recent
        /\ disk' = disk \/ disk'.attempts = attempts
    BY <1>1, <1>4
       DEF LookupDone, NextLibrary, SyncDone, ReauthDone, FinishCycle, SetState, Save, After,
           Ended, memory, files, history, Lives
  <2> QED BY <1>1, <2>1, KeepsCount DEF InFlight
<1>5. CASE CodeAccepted \/ Verified
  <2>1. /\ now' = now /\ signIns' = signIns /\ pc' = pc /\ disk' = disk
        /\ attempts' = attempts \/ attempts' = Recent
        /\ run'.phase = run.phase /\ run'.id = run.id /\ run'.recorded = run.recorded
    BY <1>5 DEF CodeAccepted, Verified, SetState, memory, files, history, TypeOK, ControlType,
                Runs
  <2>2. \A n \in DOMAIN signIns : InFlight(n) => InFlight(n)'
    BY <2>1 DEF InFlight, Lives
  <2> QED BY <1>1, <2>1, <2>2, KeepsCount
<1> QED BY <1>2, <1>3, <1>4, <1>5

LEMMA CountStep ==
  ASSUME Faults \cap {"kill", "raise", "nosave"} = {}, TypeOK, Blocked, CountInv, [Next]_vars
  PROVE  CountInv'
<1>1. CASE Stop \/ Expire \/ Revoke \/ OperatorInit \/ UNCHANGED vars
  <2>1. UNCHANGED <<control, attempts, disk, now, signIns>>
    BY <1>1 DEF Stop, Expire, Revoke, OperatorInit, vars, memory, files, history
  <2> QED BY <2>1 DEF control, CountInv, MemoryAgrees, AllEntered, Entered, InFlight, Lives,
                      RecentOnDisk, Recent, RecentSignIns
<1>2. CASE Kill \/ Raise
  BY <1>2 DEF Kill, Raise
<1> QED
  BY <1>1, <1>2, QuietCount, RunEndsCount, PromptCount, SignInCount, TickCount, BootCount
     DEF Next, MainThread, Environment

\* Between runs each sign-in of the last day has an entry in memory and in the state
\* file that is not older than it, whatever Apple revokes, whichever cookie expires
\* and whichever library must be looked up (_tick_during_run, _bridged_run).
THEOREM BooksAgree ==
  ASSUME Faults \cap {"kill", "raise", "nosave"} = {}
  PROVE  Spec => []CountedAtRest
<1>1. TypeOK /\ Blocked /\ CountInv /\ [Next]_vars => CountInv'
  BY CountStep
<1>2. TypeOK /\ Blocked /\ CountInv => CountedAtRest
  <2> SUFFICES ASSUME TypeOK, Blocked, CountInv, AtRest, NEW n \in RecentSignIns
               PROVE  \E e \in attempts \cap disk.attempts : e.id = n /\ e.time >= signIns[n]
    BY DEF CountedAtRest
  <2>1. pc # "down" /\ ~InFlight(n)
    BY DEF AtRest, Blocked, InFlight, Lives
  <2>2. Entered(disk.attempts, n)
    BY <2>1 DEF CountInv, AllEntered
  <2>3. PICK e \in Recent : e.id = n /\ e.time >= signIns[n]
    BY <2>1, <2>2, EnteredInMemory DEF Entered
  <2>4. e \in attempts /\ e \in RecentOnDisk
    BY <2>1, <2>3 DEF CountInv, MemoryAgrees, Recent
  <2> QED BY <2>3, <2>4 DEF RecentOnDisk
<1> QED BY <1>1, <1>2, InitCount, BlockedKept, TypeCorrect, PTL DEF Spec
=============================================================================
