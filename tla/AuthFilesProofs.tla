---------------------------- MODULE AuthFilesProofs ----------------------------
(***************************************************************************)
(* Theorems about module AuthFiles: whatever number of sign-ins and        *)
(* reauths, exceptions and deaths outside a loop that writes an original   *)
(* back, the account's old files survive a failure and never override a    *)
(* success.                                                                *)
(***************************************************************************)
EXTENDS AuthFiles, TLAPS

\* A file that is being written back is torn, and nothing else is.
OnlyRestoringTears ==
  /\ \A f \in Files : before[f] # Torn
  /\ step # "start" => todo # {}
  /\ step = "opened" => pc \in {"backup", "restore", "recover"}
  /\ step = "written" => pc \in {"restore", "recover"}
  /\ \A f \in Files : orig[f] = Torn =>
       /\ pc \in {"restore", "recover"} /\ step = "opened" /\ f = Current
       /\ copy[f] \notin {Absent, Torn}
  /\ pc \in {"restore", "recover"} /\ step = "opened" =>
       orig[Current] = Torn /\ copy[Current] \notin {Absent, Torn}
  /\ pc \in {"restore", "recover"} /\ step = "written" => orig[Current] = copy[Current]

\* A torn copy is being written, or was when the container died.
OnlyDeathLeavesTorn ==
  \A f \in Files : copy[f] = Torn =>
    /\ orig[f] \notin {Absent, Torn}
    /\ \/ pc = "backup" /\ step = "opened" /\ f = Current
       \/ pc = "down"
       \/ pc = "recover" /\ f \in todo

Found == {f \in Files : before[f] # Absent}

\* The progress of a reauth.
UnderWay ==
  /\ outcome = "running" <=> pc \in {"backup", "unlink", "run"}
  /\ outcome = "running" => gen > 0
  /\ pc = "restore" => outcome = "failed"
  /\ pc = "discard" => outcome = "ok"
  /\ outcome = "killed" => pc \in {"down", "recover"}
  /\ outcome = "recovered" => pc \in {"idle", "down", "recover"}
  /\ pc \in {"idle", "run", "down"} => todo = {}
  /\ pc \in {"backup", "unlink"} => wrote = {}
  /\ pc = "backup" => orig = before /\ pairs = Found \ todo
  /\ pc = "backup" /\ step = "opened" => Current \in Found
  /\ pc \in {"unlink", "run", "restore"} => pairs = Found
  /\ pc \in {"unlink", "restore"} => todo \subseteq Found
  /\ pc = "unlink" =>
       \A f \in Files : orig[f] = IF f \in todo THEN before[f] ELSE Absent
  /\ pc = "run" => \A f \in Files \ wrote : orig[f] = Absent

\* What a failure, a death and a success leave of the files.
Outcomes ==
  /\ pc = "restore" => \A f \in todo : copy[f] = before[f]
  /\ outcome = "failed" /\ pc \in {"restore", "idle", "down", "recover"} =>
       \A f \in Found \ (IF pc = "restore" THEN todo ELSE {}) :
         orig[f] = before[f] /\ copy[f] = Absent
  /\ outcome = "ok" => \A f \in Files : orig[f] = Good(gen)
  /\ outcome = "killed" =>
       \A f \in Found :
         \/ orig[f] = before[f]
         \/ f \in wrote /\ (pc = "down" => copy[f] = before[f])
         \/ /\ copy[f] = before[f] /\ orig[f] \in {Absent, Torn}
            /\ pc = "recover" => f \in todo
  /\ outcome = "recovered" => \A f \in Found \ wrote : orig[f] = before[f]

FilesInv == TypeOK /\ OnlyRestoringTears /\ OnlyDeathLeavesTorn /\ UnderWay /\ Outcomes

\* What the steps do to files is clear without what is in them.
LEMMA ContentFacts ==
  /\ Absent # Torn
  /\ \A g : Half(g) # Absent /\ Half(g) # Torn /\ Good(g) # Absent /\ Good(g) # Torn
  /\ Absent \in Contents /\ Torn \in Contents
  /\ \A g \in 1 .. MaxReauths : Half(g) \in Contents /\ Good(g) \in Contents
<1>1. Absent # Torn
  BY DEF Absent, Torn
<1>2. ASSUME NEW g PROVE Half(g) # Absent /\ Half(g) # Torn
  BY DEF Absent, Torn, Half
<1>3. ASSUME NEW g PROVE Good(g) # Absent /\ Good(g) # Torn
  BY DEF Absent, Torn, Good
<1>4. \A g \in 1 .. MaxReauths : g \in 0 .. MaxReauths
  BY AuthFilesAssumption
<1> QED BY <1>1, <1>2, <1>3, <1>4 DEF Contents

LEMMA CurrentFacts ==
  ASSUME todo \subseteq Files, todo # {}
  PROVE  Current \in todo /\ Current \in Files
BY DEF Current, Files

LEMMA SameCurrent == todo' = todo => Current' = Current
BY DEF Current

LEMMA InitFiles == Init => FilesInv
<1> SUFFICES ASSUME Init PROVE FilesInv
  OBVIOUS
<1>1. Absent \in Contents /\ Good(0) \in Contents
  BY AuthFilesAssumption DEF Contents
<1>2. Good(0) # Torn /\ Absent # Torn
  BY ContentFacts
<1>3. orig \in [Files -> Contents] /\ copy \in [Files -> Contents] /\ before = orig
  BY <1>1 DEF Init
<1>4. \A f \in Files : orig[f] # Torn /\ copy[f] = Absent
  BY <1>2 DEF Init
<1>5. TypeOK
  BY <1>3, AuthFilesAssumption DEF Init, TypeOK, Phases
<1> QED
  BY <1>2, <1>3, <1>4, <1>5
     DEF Init, FilesInv, OnlyRestoringTears, OnlyDeathLeavesTorn, UnderWay, Outcomes

LEMMA TypeStep == ASSUME FilesInv, Next PROVE TypeOK'
<1> USE ContentFacts, AuthFilesAssumption
<1>1. CASE SyncSignIn \/ StartReauth
  BY <1>1 DEF SyncSignIn, StartReauth, Enter, thread, history, FilesInv, TypeOK, Phases
<1>2. CASE SkipMissing \/ OpenBackup \/ WriteBackup \/ BackedUp
  BY <1>2, CurrentFacts, SameCurrent DEF SkipMissing, OpenBackup, WriteBackup, BackedUp, Visits, Enter,
     Advance, thread, history, FilesInv, TypeOK, UnderWay, Found, Phases
<1>3. CASE UnlinkOriginal \/ Unlinked \/ RunSucceeds \/ RunFails \/ RunRaises
  BY <1>3, CurrentFacts, SameCurrent DEF UnlinkOriginal, Unlinked, RunSucceeds, RunFails, RunRaises,
     Visits, Enter, Advance, thread, history, FilesInv, TypeOK, Phases
<1>4. CASE SignInWrites \/ TrustWrites
  <2>1. gen \in 1 .. MaxReauths
    BY <1>4 DEF SignInWrites, TrustWrites, FilesInv, TypeOK, UnderWay
  <2>2. Half(gen) \in Contents /\ Good(gen) \in Contents
    BY <2>1
  <2>3. wrote' \subseteq Files
    BY <1>4 DEF SignInWrites, TrustWrites, Files
  <2>4. orig' \in [Files -> Contents]
    BY <1>4, <2>2 DEF SignInWrites, TrustWrites, FilesInv, TypeOK
  <2> QED
    BY <1>4, <2>3, <2>4 DEF SignInWrites, TrustWrites, thread, history, FilesInv, TypeOK, Phases
<1>5. CASE DiscardBackup \/ NoBackup \/ DiscardStale \/ OpenOriginal \/ WriteOriginal
           \/ UnlinkBackup \/ LoopDone
  BY <1>5, CurrentFacts, SameCurrent DEF DiscardBackup, NoBackup, DiscardStale, OpenOriginal,
     WriteOriginal, UnlinkBackup, LoopDone, Visits, Enter, Advance, thread, history,
     FilesInv, TypeOK, Phases
<1>6. CASE Kill \/ Boot
  BY <1>6 DEF Kill, Boot, Enter, thread, history, FilesInv, TypeOK, Phases
<1> QED BY <1>1, <1>2, <1>3, <1>4, <1>5, <1>6 DEF Next

LEMMA RestoringStep ==
  ASSUME FilesInv, Next, KillPoints \cap {"restore", "recover"} = {}
  PROVE  OnlyRestoringTears'
<1> USE ContentFacts
<1>0. TypeOK
  BY DEF FilesInv
<1>1. CASE SyncSignIn \/ StartReauth
  BY <1>0, <1>1, CurrentFacts, SameCurrent DEF SyncSignIn, StartReauth, Visits, Enter, Advance, thread, history,
     FilesInv, TypeOK, OnlyRestoringTears
<1>2. CASE SkipMissing \/ BackedUp
  BY <1>0, <1>2, CurrentFacts, SameCurrent DEF SkipMissing, BackedUp, Visits, Enter, Advance, thread, history,
     FilesInv, TypeOK, OnlyRestoringTears
<1>3. CASE OpenBackup \/ WriteBackup
  BY <1>0, <1>3, CurrentFacts, SameCurrent DEF OpenBackup, WriteBackup, Visits, Enter, Advance, thread, history,
     FilesInv, TypeOK, OnlyRestoringTears
<1>4. CASE UnlinkOriginal \/ Unlinked
  BY <1>0, <1>4, CurrentFacts, SameCurrent DEF UnlinkOriginal, Unlinked, Visits, Enter, Advance, thread, history,
     FilesInv, TypeOK, OnlyRestoringTears
<1>5. CASE SignInWrites \/ TrustWrites
  BY <1>0, <1>5, CurrentFacts, SameCurrent DEF SignInWrites, TrustWrites, Visits, Enter, Advance, thread, history,
     FilesInv, TypeOK, OnlyRestoringTears
<1>6. CASE RunSucceeds \/ RunFails \/ RunRaises
  BY <1>0, <1>6, CurrentFacts, SameCurrent DEF RunSucceeds, RunFails, RunRaises, Visits, Enter, Advance, thread, history,
     FilesInv, TypeOK, OnlyRestoringTears
<1>7. CASE DiscardBackup \/ NoBackup \/ DiscardStale
  BY <1>0, <1>7, CurrentFacts, SameCurrent DEF DiscardBackup, NoBackup, DiscardStale, Visits, Enter, Advance, thread, history,
     FilesInv, TypeOK, OnlyRestoringTears
<1>8. CASE OpenOriginal
  <2>1. /\ todo' = todo /\ Current' = Current /\ Current \in todo /\ Current \in Files
        /\ orig' = [orig EXCEPT ![Current] = Torn] /\ copy' = copy /\ before' = before
        /\ pc' = pc /\ pc \in {"restore", "recover"} /\ step = "start" /\ step' = "opened"
        /\ copy[Current] # Absent
    BY <1>0, <1>8, CurrentFacts, SameCurrent DEF OpenOriginal, Visits, history, TypeOK
  <2>2. copy[Current] # Torn
    <3>1. CASE pc = "restore"
      BY <2>1, <3>1 DEF FilesInv, Outcomes, OnlyRestoringTears
    <3>2. CASE pc = "recover"
      BY <1>8, <3>2 DEF OpenOriginal, Visits, FilesInv, OnlyDeathLeavesTorn, TypeOK, Files,
         Current
    <3> QED BY <2>1, <3>1, <3>2
  <2> QED BY <1>0, <2>1, <2>2 DEF FilesInv, TypeOK, OnlyRestoringTears
<1>11. CASE WriteOriginal
  <2>1. /\ todo' = todo /\ Current' = Current /\ Current \in todo /\ Current \in Files
        /\ orig' = [orig EXCEPT ![Current] = copy[Current]] /\ copy' = copy
        /\ before' = before /\ pc' = pc /\ pc \in {"restore", "recover"}
        /\ step = "opened" /\ step' = "written"
    BY <1>0, <1>11, CurrentFacts, SameCurrent DEF WriteOriginal, Visits, history, TypeOK
  <2> QED BY <1>0, <2>1 DEF FilesInv, TypeOK, OnlyRestoringTears
<1>9. CASE UnlinkBackup \/ LoopDone
  BY <1>0, <1>9, CurrentFacts, SameCurrent DEF UnlinkBackup, LoopDone, Visits, Enter, Advance, thread, history,
     FilesInv, TypeOK, OnlyRestoringTears
<1>10. CASE Kill \/ Boot
  BY <1>0, <1>10, CurrentFacts, SameCurrent DEF Kill, Boot, Visits, Enter, Advance, thread, history,
     FilesInv, TypeOK, OnlyRestoringTears
<1> QED BY <1>1, <1>2, <1>3, <1>4, <1>5, <1>6, <1>7, <1>8, <1>9, <1>10, <1>11 DEF Next

LEMMA TornStep ==
  ASSUME FilesInv, Next, KillPoints \cap {"restore", "recover"} = {}
  PROVE  OnlyDeathLeavesTorn'
<1> USE ContentFacts
<1>0. TypeOK
  BY DEF FilesInv
<1>1. CASE SyncSignIn \/ StartReauth
  BY <1>0, <1>1, CurrentFacts, SameCurrent DEF SyncSignIn, StartReauth, Visits, Enter, Advance, thread, history,
     FilesInv, TypeOK, OnlyRestoringTears, OnlyDeathLeavesTorn, UnderWay, Found
<1>2. CASE SkipMissing \/ BackedUp
  BY <1>0, <1>2, CurrentFacts, SameCurrent DEF SkipMissing, BackedUp, Visits, Enter, Advance, thread, history,
     FilesInv, TypeOK, OnlyRestoringTears, OnlyDeathLeavesTorn, UnderWay, Found
<1>3. CASE OpenBackup \/ WriteBackup
  BY <1>0, <1>3, CurrentFacts, SameCurrent DEF OpenBackup, WriteBackup, Visits, Enter, Advance, thread, history,
     FilesInv, TypeOK, OnlyRestoringTears, OnlyDeathLeavesTorn, UnderWay, Found
<1>4. CASE UnlinkOriginal \/ Unlinked
  BY <1>0, <1>4, CurrentFacts, SameCurrent DEF UnlinkOriginal, Unlinked, Visits, Enter, Advance, thread, history,
     FilesInv, TypeOK, OnlyRestoringTears, OnlyDeathLeavesTorn, UnderWay, Found
<1>5. CASE SignInWrites \/ TrustWrites
  BY <1>0, <1>5, CurrentFacts, SameCurrent DEF SignInWrites, TrustWrites, Visits, Enter, Advance, thread, history,
     FilesInv, TypeOK, OnlyRestoringTears, OnlyDeathLeavesTorn, UnderWay, Found
<1>6. CASE RunSucceeds \/ RunFails \/ RunRaises
  BY <1>0, <1>6, CurrentFacts, SameCurrent DEF RunSucceeds, RunFails, RunRaises, Visits, Enter, Advance, thread, history,
     FilesInv, TypeOK, OnlyRestoringTears, OnlyDeathLeavesTorn, UnderWay, Found
<1>7. CASE DiscardBackup \/ NoBackup \/ DiscardStale
  BY <1>0, <1>7, CurrentFacts, SameCurrent DEF DiscardBackup, NoBackup, DiscardStale, Visits, Enter, Advance, thread, history,
     FilesInv, TypeOK, OnlyRestoringTears, OnlyDeathLeavesTorn, UnderWay, Found
<1>8. CASE OpenOriginal \/ WriteOriginal
  BY <1>0, <1>8, CurrentFacts, SameCurrent DEF OpenOriginal, WriteOriginal, Visits, Enter, Advance, thread, history,
     FilesInv, TypeOK, OnlyRestoringTears, OnlyDeathLeavesTorn, UnderWay, Found
<1>9. CASE UnlinkBackup \/ LoopDone
  BY <1>0, <1>9, CurrentFacts, SameCurrent DEF UnlinkBackup, LoopDone, Visits, Enter, Advance, thread, history,
     FilesInv, TypeOK, OnlyRestoringTears, OnlyDeathLeavesTorn, UnderWay, Found
<1>10. CASE Kill \/ Boot
  BY <1>0, <1>10, CurrentFacts, SameCurrent DEF Kill, Boot, Visits, Enter, Advance, thread, history,
     FilesInv, TypeOK, OnlyRestoringTears, OnlyDeathLeavesTorn, UnderWay, Found
<1> QED BY <1>1, <1>2, <1>3, <1>4, <1>5, <1>6, <1>7, <1>8, <1>9, <1>10 DEF Next

LEMMA UnderWayStep ==
  ASSUME FilesInv, Next, KillPoints \cap {"restore", "recover"} = {}
  PROVE  UnderWay'
<1> USE ContentFacts
<1>0. TypeOK
  BY DEF FilesInv
<1>1. CASE SyncSignIn \/ StartReauth
  BY <1>0, <1>1, CurrentFacts, SameCurrent DEF SyncSignIn, StartReauth, Visits, Enter, Advance, thread, history,
     FilesInv, TypeOK, OnlyRestoringTears, UnderWay, Found
<1>2. CASE SkipMissing \/ BackedUp
  BY <1>0, <1>2, CurrentFacts, SameCurrent DEF SkipMissing, BackedUp, Visits, Enter, Advance, thread, history,
     FilesInv, TypeOK, OnlyRestoringTears, UnderWay, Found
<1>3. CASE OpenBackup \/ WriteBackup
  BY <1>0, <1>3, CurrentFacts, SameCurrent DEF OpenBackup, WriteBackup, Visits, Enter, Advance, thread, history,
     FilesInv, TypeOK, OnlyRestoringTears, UnderWay, Found
<1>4. CASE UnlinkOriginal \/ Unlinked
  BY <1>0, <1>4, CurrentFacts, SameCurrent DEF UnlinkOriginal, Unlinked, Visits, Enter, Advance, thread, history,
     FilesInv, TypeOK, OnlyRestoringTears, UnderWay, Found
<1>5. CASE SignInWrites \/ TrustWrites
  BY <1>0, <1>5, CurrentFacts, SameCurrent DEF SignInWrites, TrustWrites, Visits, Enter, Advance, thread, history,
     FilesInv, TypeOK, OnlyRestoringTears, UnderWay, Found
<1>6. CASE RunSucceeds \/ RunFails \/ RunRaises
  BY <1>0, <1>6, CurrentFacts, SameCurrent DEF RunSucceeds, RunFails, RunRaises, Visits, Enter, Advance, thread, history,
     FilesInv, TypeOK, OnlyRestoringTears, UnderWay, Found
<1>7. CASE DiscardBackup \/ NoBackup \/ DiscardStale
  BY <1>0, <1>7, CurrentFacts, SameCurrent DEF DiscardBackup, NoBackup, DiscardStale, Visits, Enter, Advance, thread, history,
     FilesInv, TypeOK, OnlyRestoringTears, UnderWay, Found
<1>8. CASE OpenOriginal \/ WriteOriginal
  BY <1>0, <1>8, CurrentFacts, SameCurrent DEF OpenOriginal, WriteOriginal, Visits, Enter, Advance, thread, history,
     FilesInv, TypeOK, OnlyRestoringTears, UnderWay, Found
<1>9. CASE UnlinkBackup \/ LoopDone
  BY <1>0, <1>9, CurrentFacts, SameCurrent DEF UnlinkBackup, LoopDone, Visits, Enter, Advance, thread, history,
     FilesInv, TypeOK, OnlyRestoringTears, UnderWay, Found
<1>10. CASE Kill \/ Boot
  BY <1>0, <1>10, CurrentFacts, SameCurrent DEF Kill, Boot, Visits, Enter, Advance, thread, history,
     FilesInv, TypeOK, OnlyRestoringTears, UnderWay, Found
<1> QED BY <1>1, <1>2, <1>3, <1>4, <1>5, <1>6, <1>7, <1>8, <1>9, <1>10 DEF Next

LEMMA OutcomesStep ==
  ASSUME FilesInv, Next, KillPoints \cap {"restore", "recover"} = {}
  PROVE  Outcomes'
<1> USE ContentFacts
<1>0. TypeOK
  BY DEF FilesInv
<1>1. CASE SyncSignIn \/ StartReauth
  BY <1>0, <1>1, CurrentFacts, SameCurrent DEF SyncSignIn, StartReauth, Visits, Enter, Advance, thread, history,
     FilesInv, TypeOK, OnlyRestoringTears, UnderWay, Found, Outcomes
<1>2. CASE SkipMissing \/ BackedUp
  BY <1>0, <1>2, CurrentFacts, SameCurrent DEF SkipMissing, BackedUp, Visits, Enter, Advance, thread, history,
     FilesInv, TypeOK, OnlyRestoringTears, UnderWay, Found, Outcomes
<1>3. CASE OpenBackup \/ WriteBackup
  BY <1>0, <1>3, CurrentFacts, SameCurrent DEF OpenBackup, WriteBackup, Visits, Enter, Advance, thread, history,
     FilesInv, TypeOK, OnlyRestoringTears, UnderWay, Found, Outcomes
<1>4. CASE UnlinkOriginal \/ Unlinked
  BY <1>0, <1>4, CurrentFacts, SameCurrent DEF UnlinkOriginal, Unlinked, Visits, Enter, Advance, thread, history,
     FilesInv, TypeOK, OnlyRestoringTears, UnderWay, Found, Outcomes
<1>5. CASE SignInWrites \/ TrustWrites
  BY <1>0, <1>5, CurrentFacts, SameCurrent DEF SignInWrites, TrustWrites, Visits, Enter, Advance, thread, history,
     FilesInv, TypeOK, OnlyRestoringTears, UnderWay, Found, Outcomes
<1>6. CASE RunSucceeds \/ RunFails \/ RunRaises
  BY <1>0, <1>6, CurrentFacts, SameCurrent DEF RunSucceeds, RunFails, RunRaises, Visits, Enter, Advance, thread, history,
     FilesInv, TypeOK, OnlyRestoringTears, UnderWay, Found, Outcomes
<1>7. CASE DiscardBackup \/ NoBackup \/ DiscardStale
  BY <1>0, <1>7, CurrentFacts, SameCurrent DEF DiscardBackup, NoBackup, DiscardStale, Visits, Enter, Advance, thread, history,
     FilesInv, TypeOK, OnlyRestoringTears, UnderWay, Found, Outcomes
<1>8. CASE OpenOriginal \/ WriteOriginal
  <2>1. /\ todo' = todo /\ Current' = Current /\ Current \in todo /\ Current \in Files
        /\ \A f \in Files \ {Current} : orig'[f] = orig[f]
        /\ orig'[Current] \in {Torn, copy[Current]}
        /\ copy' = copy /\ before' = before /\ wrote' = wrote /\ gen' = gen
        /\ outcome' = outcome /\ pc' = pc /\ pc \in {"restore", "recover"}
    BY <1>0, <1>8, CurrentFacts, SameCurrent
       DEF OpenOriginal, WriteOriginal, Visits, history, TypeOK
  <2>2. pc = "recover" => orig[Current] \in {Absent, Torn}
    BY <1>8 DEF OpenOriginal, WriteOriginal, Visits, FilesInv, OnlyRestoringTears
  <2> QED BY <1>0, <2>1, <2>2 DEF FilesInv, OnlyRestoringTears, UnderWay, Found, Outcomes
<1>9. CASE UnlinkBackup \/ LoopDone
  BY <1>0, <1>9, CurrentFacts, SameCurrent DEF UnlinkBackup, LoopDone, Visits, Enter, Advance, thread, history,
     FilesInv, TypeOK, OnlyRestoringTears, UnderWay, Found, Outcomes
<1>10. CASE Boot
  BY <1>0, <1>10 DEF Boot, Enter, history, FilesInv, TypeOK, OnlyRestoringTears, UnderWay,
     Found, Outcomes
<1>11. CASE Kill
  <2>1. /\ pc' = "down" /\ todo' = {} /\ orig' = orig /\ copy' = copy /\ gen' = gen
        /\ before' = before /\ wrote' = wrote /\ pc \notin {"restore", "recover", "down"}
        /\ outcome' = IF outcome = "running" THEN "killed" ELSE outcome
    BY <1>0, <1>11, AuthFilesAssumption DEF Kill, Enter, TypeOK, Phases
  <2>2. CASE outcome = "running"
    <3>1. CASE pc = "backup"
      BY <2>1, <2>2, <3>1 DEF FilesInv, UnderWay, Found, Outcomes
    <3>2. CASE pc = "unlink"
      BY <1>0, <2>1, <2>2, <3>2 DEF FilesInv, TypeOK, UnderWay, Found, Outcomes
    <3>3. CASE pc = "run"
      BY <1>0, <2>1, <2>2, <3>3 DEF FilesInv, TypeOK, UnderWay, Found, Outcomes
    <3> QED BY <2>2, <3>1, <3>2, <3>3 DEF FilesInv, UnderWay
  <2>3. CASE outcome # "running"
    <3>1. outcome' = outcome /\ Found' = Found /\ pc \in {"idle", "discard"} /\ outcome # "killed"
      BY <1>0, <2>1, <2>3 DEF FilesInv, TypeOK, UnderWay, Found, Phases
    <3> QED BY <2>1, <3>1 DEF FilesInv, UnderWay, Outcomes
  <2> QED BY <2>2, <2>3
<1> QED BY <1>1, <1>2, <1>3, <1>4, <1>5, <1>6, <1>7, <1>8, <1>9, <1>10, <1>11 DEF Next

LEMMA FilesStep ==
  ASSUME KillPoints \cap {"restore", "recover"} = {}
  PROVE  FilesInv /\ [Next]_vars => FilesInv'
<1> SUFFICES ASSUME FilesInv, [Next]_vars PROVE FilesInv'
  OBVIOUS
<1>1. CASE Next
  BY <1>1, TypeStep, RestoringStep, TornStep, UnderWayStep, OutcomesStep DEF FilesInv
<1>2. CASE UNCHANGED vars
  BY <1>2 DEF vars, thread, history, FilesInv, TypeOK, OnlyRestoringTears,
     OnlyDeathLeavesTorn, UnderWay, Found, Outcomes, Current
<1> QED BY <1>1, <1>2

\* The type invariant, with the copies a reauth relies on (backup_auth_files).
THEOREM FileTypes ==
  ASSUME KillPoints \cap {"restore", "recover"} = {}
  PROVE  Spec => []TypeOK
<1>1. FilesInv => TypeOK
  BY DEF FilesInv
<1> QED BY <1>1, InitFiles, FilesStep, PTL DEF Spec

\* While a reauth is under way, or died, the old version of each file exists whole,
\* for any number of reauths, and deaths anywhere but in a restore (run_reauth).
THEOREM OldVersionsSurvive ==
  ASSUME KillPoints \cap {"restore", "recover"} = {}
  PROVE  Spec => []OldFilesSurvive
<1>1. FilesInv => OldFilesSurvive
  <2> SUFFICES ASSUME FilesInv, NEW f \in Found,
                      outcome = "running" \/ pc = "restore" \/ (pc = "down" /\ outcome = "killed")
               PROVE  before[f] \in {orig[f], copy[f]}
    BY DEF OldFilesSurvive, Found
  <2>1. CASE pc = "backup"
    BY <2>1 DEF FilesInv, UnderWay
  <2>2. CASE pc \in {"unlink", "run"}
    BY <2>2 DEF FilesInv, UnderWay, TypeOK
  <2>3. CASE pc = "restore"
    BY <2>3 DEF FilesInv, UnderWay, Outcomes
  <2>4. CASE pc = "down"
    BY <2>4 DEF FilesInv, UnderWay, Outcomes
  <2> QED BY <2>1, <2>2, <2>3, <2>4 DEF FilesInv, UnderWay
<1> QED BY <1>1, InitFiles, FilesStep, PTL DEF Spec

\* No recovery restores a copy that is not complete (recover_stale_backups).
THEOREM TornCopyHarmless ==
  ASSUME KillPoints \cap {"restore", "recover"} = {}
  PROVE  Spec => []TornCopyNotAlone
<1>1. FilesInv => TornCopyNotAlone
  BY DEF FilesInv, OnlyDeathLeavesTorn, TornCopyNotAlone
<1> QED BY <1>1, InitFiles, FilesStep, PTL DEF Spec

\* "The old cookies are backed up and restored on failure" (run_reauth).
THEOREM FailureUndone ==
  ASSUME KillPoints \cap {"restore", "recover"} = {}
  PROVE  Spec => []FailureRestores
<1>1. FilesInv => FailureRestores
  BY DEF FilesInv, Outcomes, Found, FailureRestores
<1> QED BY <1>1, InitFiles, FilesStep, PTL DEF Spec

\* Nothing brings the old files back after a success (discard_backups and
\* recover_stale_backups).
THEOREM SuccessIsFinal ==
  ASSUME KillPoints \cap {"restore", "recover"} = {}
  PROVE  Spec => []SuccessStays
<1>1. FilesInv => SuccessStays
  BY DEF FilesInv, Outcomes, SuccessStays
<1> QED BY <1>1, InitFiles, FilesStep, PTL DEF Spec

\* A file that icloudpd had not touched when the container died is back after the
\* next start (recover_stale_backups).
THEOREM UntouchedReturns ==
  ASSUME KillPoints \cap {"restore", "recover"} = {}
  PROVE  Spec => []UntouchedRecovered
<1>1. FilesInv => UntouchedRecovered
  BY DEF FilesInv, Outcomes, Found, UntouchedRecovered
<1> QED BY <1>1, InitFiles, FilesStep, PTL DEF Spec

-------------------------------------------------------------------------------
(* The refinement: what a restart would find, step by step.                  *)

StageOf ==
  /\ pc \in {"backup", "unlink", "run"} => Stage = "running" /\ Aside = {}
  /\ pc = "restore" => Stage = "failing" /\ Aside = {}
  /\ pc \in {"idle", "discard", "down", "recover"} =>
       /\ Stage = "settled"
       /\ Aside = {f \in Files : orig[f] \in {Absent, Torn} /\ copy[f] # Absent}

LEMMA StageNow == FilesInv => StageOf
BY DEF FilesInv, UnderWay, Stage, Aside, StageOf

LEMMA StageNext == FilesInv' => StageOf'
BY DEF FilesInv, UnderWay, Stage, Aside, StageOf

\* A step that changes none of what the promise speaks of.
Invisible ==
  Restarted' = Restarted /\ Aside' = Aside /\ before' = before /\ Stage' = Stage /\ gen' = gen

LEMMA InvisibleStep == Invisible => UNCHANGED Promise!promiseVars
BY DEF Invisible, Promise!promiseVars

\* Files are copied, and then removed, out of sight.
LEMMA BackupInvisible ==
  ASSUME FilesInv, FilesInv', SkipMissing \/ OpenBackup \/ WriteBackup \/ BackedUp
                             \/ UnlinkOriginal \/ Unlinked
  PROVE  Invisible
<1>1. /\ pc \in {"backup", "unlink"} /\ pc' \in {"backup", "unlink", "run"}
      /\ before' = before /\ gen' = gen
  BY DEF SkipMissing, OpenBackup, WriteBackup, BackedUp, UnlinkOriginal, Unlinked, Visits, Enter,
         Advance, history
<1>2. Stage' = Stage /\ Aside' = Aside
  BY <1>1, StageNow, StageNext DEF StageOf
<1>3. ASSUME NEW f \in Files PROVE Restarted'[f] = Restarted[f]
  <2>1. TypeOK
    BY DEF FilesInv
  <2>2. orig[f] # Torn /\ orig'[f] # Torn
    BY <1>1 DEF FilesInv, OnlyRestoringTears
  <2>3. CASE SkipMissing \/ BackedUp \/ Unlinked
    BY <2>3 DEF SkipMissing, BackedUp, Unlinked, Restarted
  <2>4. CASE OpenBackup \/ WriteBackup
    <3>1. orig' = orig /\ (f # Current => copy'[f] = copy[f])
      BY <2>1, <2>4 DEF OpenBackup, WriteBackup, TypeOK
    <3>2. orig[Current] # Absent
      BY <2>4 DEF OpenBackup, WriteBackup, Visits, FilesInv, UnderWay, Found
    <3> QED BY <2>2, <3>1, <3>2 DEF Restarted
  <2>5. CASE UnlinkOriginal
    <3>1. /\ copy' = copy /\ pc = "unlink" /\ Current \in todo /\ Current \in Files
          /\ orig' = [orig EXCEPT ![Current] = Absent]
      BY <2>1, <2>5, CurrentFacts DEF UnlinkOriginal, Visits, TypeOK
    <3>2. orig[Current] = before[Current] /\ copy[Current] = before[Current]
      BY <2>1, <3>1 DEF FilesInv, UnderWay, TypeOK
    <3>3. CASE f = Current
      <4>1. orig'[f] = Absent
        BY <2>1, <3>1, <3>3 DEF TypeOK
      <4> QED BY <2>2, <3>1, <3>2, <3>3, <4>1 DEF Restarted
    <3>4. CASE f # Current
      <4>1. orig'[f] = orig[f]
        BY <2>1, <3>1, <3>4 DEF TypeOK
      <4> QED BY <3>1, <4>1 DEF Restarted
    <3> QED BY <3>3, <3>4
  <2> QED BY <2>3, <2>4, <2>5
<1>4. Restarted' = Restarted
  BY <1>3 DEF Restarted
<1> QED BY <1>1, <1>2, <1>4 DEF Invisible

\* A copy is discarded only behind a file that is there.
LEMMA CleanupInvisible ==
  ASSUME FilesInv, FilesInv', DiscardBackup \/ NoBackup \/ DiscardStale \/ UnlinkBackup \/ Boot
  PROVE  Invisible
<1>0. TypeOK
  BY DEF FilesInv
<1>1. /\ before' = before /\ gen' = gen /\ orig' = orig
      /\ pc' = pc \/ (pc = "down" /\ pc' = "recover")
      /\ pc \in {"discard", "restore", "recover", "down"}
  BY DEF DiscardBackup, NoBackup, DiscardStale, UnlinkBackup, Boot, Visits, Enter, Advance,
         history
<1>2. ASSUME NEW f \in Files, copy'[f] # copy[f]
      PROVE  orig[f] \notin {Absent, Torn}
  <2>1. f = Current /\ copy'[f] = Absent
    BY <1>0, <1>2 DEF DiscardBackup, NoBackup, DiscardStale, UnlinkBackup, Boot, TypeOK
  <2>2. CASE DiscardBackup
    BY <2>2, ContentFacts DEF DiscardBackup, Visits, FilesInv, UnderWay, Outcomes
  <2>3. CASE DiscardStale
    BY <2>1, <2>3 DEF DiscardStale, Visits, FilesInv, OnlyRestoringTears
  <2>4. CASE UnlinkBackup
    BY <1>2, <2>1, <2>4 DEF UnlinkBackup, Visits, FilesInv, OnlyRestoringTears
  <2> QED BY <1>2, <2>2, <2>3, <2>4 DEF NoBackup, Boot
<1>3. Restarted' = Restarted
  BY <1>1, <1>2 DEF Restarted
<1>4. Aside' = Aside /\ Stage' = Stage
  BY <1>1, <1>2, StageNow, StageNext DEF StageOf
<1> QED BY <1>1, <1>3, <1>4 DEF Invisible

\* Writing a copy back: a recovery brings back what it was seen to hold, a failed
\* reauth what it found.
LEMMA WriteBackStep ==
  ASSUME FilesInv, FilesInv', OpenOriginal \/ WriteOriginal
  PROVE  [Promise!Next]_(Promise!promiseVars)
<1>0. TypeOK
  BY DEF FilesInv
<1>1. /\ before' = before /\ gen' = gen /\ copy' = copy /\ pc' = pc /\ todo' = todo
      /\ pc \in {"restore", "recover"} /\ Current \in todo /\ Current \in Files
      /\ Stage' = Stage
  <2>1. /\ before' = before /\ gen' = gen /\ copy' = copy /\ pc' = pc /\ todo' = todo
        /\ pc \in {"restore", "recover"}
    BY DEF OpenOriginal, WriteOriginal, Visits, history
  <2>2. Current \in todo /\ Current \in Files
    BY <1>0, CurrentFacts DEF OpenOriginal, WriteOriginal, Visits, TypeOK
  <2> QED BY <2>1, <2>2, StageNow, StageNext DEF StageOf
<1>2. CASE WriteOriginal
  <2>1. /\ orig' = [orig EXCEPT ![Current] = copy[Current]]
        /\ orig[Current] = Torn /\ copy[Current] \notin {Absent, Torn}
    BY <1>1, <1>2 DEF WriteOriginal, Visits, FilesInv, OnlyRestoringTears
  <2>2. orig'[Current] = copy[Current] /\ \A f \in Files \ {Current} : orig'[f] = orig[f]
    BY <1>0, <1>1, <2>1 DEF TypeOK
  <2>3. Restarted' = Restarted
    BY <1>1, <2>1, <2>2 DEF Restarted
  <2>4. Aside' \in SUBSET Aside
    <3>1. CASE pc = "restore"
      BY <1>1, <3>1, StageNext DEF StageOf
    <3>2. CASE pc = "recover"
      <4>1. /\ Aside = {f \in Files : copy[f] # Absent /\ orig[f] \in {Absent, Torn}}
            /\ Aside' = {f \in Files : copy[f] # Absent /\ orig'[f] \in {Absent, Torn}}
        BY <1>1, <3>2, StageNow, StageNext DEF StageOf
      <4>2. orig'[Current] \notin {Absent, Torn}
        BY <2>1, <2>2
      <4> QED BY <2>2, <4>1, <4>2
    <3> QED BY <1>1, <3>1, <3>2
  <2>5. pc = "restore" => Aside' = Aside
    BY <1>1, StageNow, StageNext DEF StageOf
  <2>6. pc = "recover" => Stage = "settled"
    BY StageNow DEF StageOf
  <2> QED
    BY <1>1, <2>3, <2>4, <2>5, <2>6 DEF Promise!Next, Promise!Recover, Promise!promiseVars
<1>3. CASE OpenOriginal
  <2>1. orig' = [orig EXCEPT ![Current] = Torn] /\ copy[Current] # Absent
    BY <1>3 DEF OpenOriginal
  <2>2. orig'[Current] = Torn /\ \A f \in Files \ {Current} : orig'[f] = orig[f]
    BY <1>0, <1>1, <2>1 DEF TypeOK
  <2>3. CASE pc = "recover"
    <3>1. orig[Current] = Absent
      BY <1>3, <2>3 DEF OpenOriginal, Visits
    <3>2. Restarted' = Restarted
      BY <1>1, <2>2, <3>1 DEF Restarted
    <3>3. Aside' = Aside
      BY <1>1, <2>2, <2>3, <3>1, StageNow, StageNext DEF StageOf
    <3> QED BY <1>1, <3>2, <3>3 DEF Promise!promiseVars
  <2>4. CASE pc = "restore"
    <3>1. copy[Current] = before[Current] /\ before[Current] # Absent
      BY <1>1, <2>1, <2>4 DEF FilesInv, Outcomes
    <3>2. Restarted' = [Restarted EXCEPT ![Current] = before[Current]]
      BY <1>1, <2>2, <3>1 DEF Restarted
    <3>3. Stage = "failing" /\ Aside' = Aside
      BY <1>1, <2>4, StageNow, StageNext DEF StageOf
    <3>4. Promise!PutBack(Current)
      BY <1>1, <3>1, <3>2, <3>3 DEF Promise!PutBack
    <3> QED BY <1>1, <3>4 DEF Promise!Next
  <2> QED BY <1>1, <2>3, <2>4
<1> QED BY <1>2, <1>3

\* A reauth ends in one of three ways.
LEMMA EndStep ==
  ASSUME FilesInv, FilesInv', RunSucceeds \/ RunFails \/ RunRaises \/ Kill \/ LoopDone,
         KillPoints \cap {"restore", "recover"} = {}
  PROVE  [Promise!Next]_(Promise!promiseVars)
<1>0. TypeOK
  BY DEF FilesInv
<1>1. /\ before' = before /\ gen' = gen /\ copy' = copy /\ orig' = orig
      /\ Restarted' = Restarted
  <2>1. before' = before /\ gen' = gen /\ copy' = copy /\ orig' = orig
    BY DEF RunSucceeds, RunFails, RunRaises, Kill, LoopDone
  <2> QED BY <2>1 DEF Restarted
<1>2. CASE RunSucceeds
  <2>1. /\ Stage = "running" /\ Stage' = "settled" /\ Aside = {}
        /\ Aside' = {f \in Files : orig[f] \in {Absent, Torn} /\ copy[f] # Absent}
    BY <1>1, <1>2, StageNow, StageNext DEF RunSucceeds, Enter, StageOf
  <2>2. \A f \in Files : orig[f] = Good(gen) /\ Restarted[f] = Good(gen)
    BY <1>2, ContentFacts DEF RunSucceeds, Restarted
  <2>3. Aside' = Aside
    BY <2>1, <2>2, ContentFacts
  <2>4. Promise!Succeed
    BY <1>1, <2>1, <2>2, <2>3 DEF Promise!Succeed, Promise!Good, Good
  <2> QED BY <2>4 DEF Promise!Next
<1>3. CASE RunFails
  <2>1. Stage = "running" /\ Stage' = "failing" /\ Aside' = Aside
    BY <1>1, <1>3, StageNow, StageNext DEF RunFails, Enter, StageOf
  <2> QED BY <1>1, <2>1 DEF Promise!Next, Promise!Fail
<1>4. CASE RunRaises \/ (Kill /\ pc \in {"backup", "unlink", "run"})
  <2>1. /\ Stage = "running" /\ Stage' = "settled"
        /\ Aside' = {f \in Files : orig[f] \in {Absent, Torn} /\ copy[f] # Absent}
    BY <1>1, <1>4, StageNow, StageNext DEF RunRaises, Kill, Enter, StageOf
  <2>2. Aside' \in SUBSET {f \in Files : Restarted[f] # Absent}
    BY <2>1 DEF Restarted
  <2> QED BY <1>1, <2>1, <2>2 DEF Promise!Next, Promise!Abandon
<1>5. CASE Kill /\ pc \notin {"backup", "unlink", "run"}
  <2>1. pc \in {"idle", "discard"} /\ pc' = "down"
    BY <1>5, AuthFilesAssumption DEF Kill, Enter, Phases
  <2>2. Stage' = Stage /\ Aside' = Aside
    BY <1>1, <2>1, StageNow, StageNext DEF StageOf
  <2> QED BY <1>1, <2>2 DEF Promise!promiseVars
<1>6. CASE LoopDone /\ pc # "restore"
  <2>1. Stage' = Stage /\ Aside' = Aside
    BY <1>1, <1>6, StageNow, StageNext DEF LoopDone, Enter, StageOf
  <2> QED BY <1>1, <2>1 DEF Promise!promiseVars
<1>7. CASE LoopDone /\ pc = "restore"
  <2>1. /\ Stage = "failing" /\ Stage' = "settled"
        /\ Aside' = {f \in Files : orig[f] \in {Absent, Torn} /\ copy[f] # Absent}
    BY <1>1, <1>7, StageNow, StageNext DEF LoopDone, Enter, StageOf
  <2>2. \A f \in Found : orig[f] = before[f] /\ copy[f] = Absent
    BY <1>7 DEF LoopDone, FilesInv, UnderWay, Outcomes
  <2>3. \A f \in Files : before[f] # Absent => Restarted[f] = before[f]
    BY <2>2 DEF Found, Restarted, FilesInv, OnlyRestoringTears
  <2>4. Aside' \in SUBSET {f \in Files : before[f] = Absent}
    BY <2>1, <2>2 DEF Found
  <2> QED BY <1>1, <2>1, <2>3, <2>4 DEF Promise!Next, Promise!Done
<1> QED BY <1>2, <1>3, <1>4, <1>5, <1>6, <1>7

\* A sign-in starts from the files in place; icloudpd writes them.
LEMMA SignInStep ==
  ASSUME FilesInv, FilesInv', SyncSignIn \/ StartReauth \/ SignInWrites \/ TrustWrites
  PROVE  [Promise!Next]_(Promise!promiseVars)
<1>0. TypeOK
  BY DEF FilesInv
<1>1. CASE SyncSignIn \/ StartReauth
  <2>1. /\ pc = "idle" /\ gen' = gen + 1 /\ before' = orig /\ copy' = copy
        /\ pc' = IF SyncSignIn THEN "idle" ELSE "backup"
    BY <1>1 DEF SyncSignIn, StartReauth, Enter, thread
  <2>2. /\ Stage = "settled"
        /\ Aside = {f \in Files : orig[f] \in {Absent, Torn} /\ copy[f] # Absent}
    BY <2>1, StageNow DEF StageOf
  <2>3. \A f \in Files : orig[f] # Torn
    BY <2>1 DEF FilesInv, OnlyRestoringTears
  <2>4. before' = Promise!InPlace
    <3>1. ASSUME NEW f \in Files
          PROVE  orig[f] = IF f \in Aside THEN Absent ELSE Restarted[f]
      BY <2>2, <2>3 DEF Restarted
    <3>2. orig = [f \in Files |-> orig[f]]
      BY <1>0 DEF TypeOK
    <3> QED BY <2>1, <3>1, <3>2 DEF Promise!InPlace
  <2>5. CASE StartReauth
    <3>1. Stage' = "running" /\ Aside' = {} /\ Restarted' = Restarted
      BY <2>1, <2>5, StageNext DEF StartReauth, Enter, StageOf, Restarted
    <3> QED
      BY <2>1, <2>2, <2>4, <3>1 DEF Promise!Next, Promise!Begin, Promise!SignIn
  <2>6. CASE SyncSignIn
    <3>1. PICK content \in {Half(gen'), Good(gen')} : orig' = [f \in Files |-> content]
      BY <2>6 DEF SyncSignIn
    <3>2. content \notin {Absent, Torn}
      BY ContentFacts
    <3>3. Restarted' = [f \in Files |-> content]
      BY <3>1, <3>2 DEF Restarted
    <3>4. pc' = "idle"
      BY <2>6 DEF SyncSignIn, thread
    <3>5. Stage' = "settled" /\ Aside' = {}
      BY <3>1, <3>2, <3>4, StageNext DEF StageOf
    <3>6. content \in {Promise!Half(gen'), Promise!Good(gen')}
      BY DEF Half, Good, Promise!Half, Promise!Good
    <3> QED
      BY <2>1, <2>2, <2>4, <3>3, <3>5, <3>6
         DEF Promise!Next, Promise!Elsewhere, Promise!SignIn
  <2> QED BY <1>1, <2>5, <2>6
<1>2. CASE SignInWrites \/ TrustWrites
  <2>1. /\ pc = "run" /\ pc' = "run" /\ gen' = gen /\ before' = before /\ copy' = copy
    BY <1>2 DEF SignInWrites, TrustWrites, thread
  <2>2. Stage = "running" /\ Stage' = "running" /\ Aside = {} /\ Aside' = {}
    BY <2>1, StageNow, StageNext DEF StageOf
  <2>3. PICK W \in SUBSET Files, content \in {Half(gen), Good(gen)} :
          orig' = [f \in Files |-> IF f \in W THEN content ELSE orig[f]]
    <3>1. CASE SignInWrites
      BY <3>1 DEF SignInWrites, Files
    <3>2. CASE TrustWrites
      BY <3>2 DEF TrustWrites
    <3> QED BY <1>2, <3>1, <3>2
  <2>4. content \notin {Absent, Torn}
    BY ContentFacts
  <2>5. Restarted' = [f \in Files |-> IF f \in W THEN content ELSE Restarted[f]]
    BY <2>1, <2>3, <2>4 DEF Restarted
  <2>6. content \in {Promise!Half(gen), Promise!Good(gen)}
    BY DEF Half, Good, Promise!Half, Promise!Good
  <2> QED BY <2>1, <2>2, <2>5, <2>6 DEF Promise!Next, Promise!Write
<1> QED BY <1>1, <1>2

\* Every step of the supervisor and of icloudpd is a step of the promised
\* re-authentication or invisible to it: for any number of reauths and sign-ins, with
\* exceptions, and with deaths anywhere but in a loop that writes an original back.
THEOREM ReauthImplemented ==
  ASSUME KillPoints \cap {"restore", "recover"} = {}
  PROVE  Spec => ReauthKept
<1>1. Init => Promise!Init
  <2> SUFFICES ASSUME Init PROVE Promise!Init
    OBVIOUS
  <2>1. \A f \in Files : orig[f] \in {Absent, Good(0)} /\ orig[f] # Torn /\ copy[f] = Absent
    BY ContentFacts DEF Init
  <2>2. Restarted = orig
    BY <2>1 DEF Init, Restarted
  <2>3. Stage = "settled" /\ Aside = {}
    BY <2>1 DEF Init, Stage, Aside
  <2> QED BY <2>2, <2>3 DEF Init, Promise!Init, Promise!Good, Good
<1>2. FilesInv /\ FilesInv' /\ [Next]_vars => [Promise!Next]_(Promise!promiseVars)
  <2> SUFFICES ASSUME FilesInv, FilesInv', [Next]_vars
               PROVE  [Promise!Next]_(Promise!promiseVars)
    OBVIOUS
  <2>1. CASE UNCHANGED vars
    <3>1. Restarted' = Restarted /\ Aside' = Aside /\ Stage' = Stage /\ gen' = gen
          /\ before' = before
      BY <2>1 DEF vars, thread, history, Restarted, Aside, Stage
    <3> QED BY <3>1 DEF Promise!promiseVars
  <2> QED
    BY <2>1, BackupInvisible, CleanupInvisible, InvisibleStep, WriteBackStep, EndStep, SignInStep
       DEF Next
<1> QED BY <1>1, <1>2, InitFiles, FilesStep, PTL DEF Spec, ReauthKept, Promise!Spec
-------------------------------------------------------------------------------
(* When a left-over copy is superseded, as recover_stale_backups assumes.    *)

Copied == {f \in Files : copy[f] # Absent}

\* Copies exist only for the files of the reauth or loop under way, and behind a
\* death only of a reauth that succeeded or had not yet started icloudpd.
Superseded ==
  /\ pc = "idle" => Copied = {}
  /\ pc = "backup" => Copied \subseteq pairs \union (IF step = "opened" THEN {Current} ELSE {})
  /\ pc \in {"unlink", "run"} => Copied \subseteq pairs
  /\ pc \in {"discard", "restore", "recover"} => Copied \subseteq todo
  /\ pc \in {"down", "recover"} /\ Copied # {} => outcome \in {"ok", "killed"}
  /\ outcome = "killed" =>
       wrote = {} /\ Copied \subseteq Found /\ \A f \in Files \ Found : orig[f] = before[f]

LEMMA SupersededStep ==
  ASSUME FilesInv, FilesInv', Superseded, Next, ~MayRaise,
         KillPoints \cap {"run", "restore", "recover"} = {}
  PROVE  Superseded'
<1> USE ContentFacts DEF Superseded, Copied
<1>0. TypeOK
  BY DEF FilesInv
<1>1. CASE SyncSignIn \/ StartReauth
  BY <1>0, <1>1 DEF SyncSignIn, StartReauth, Enter, thread
<1>2. CASE SkipMissing \/ BackedUp
  BY <1>0, <1>2 DEF SkipMissing, BackedUp, Visits, Enter, Advance, history, FilesInv,
     OnlyRestoringTears, UnderWay
<1>3. CASE OpenBackup \/ WriteBackup
  BY <1>0, <1>3, CurrentFacts, SameCurrent DEF OpenBackup, WriteBackup, Visits, Advance, history,
     TypeOK, FilesInv, UnderWay
<1>4. CASE UnlinkOriginal \/ Unlinked
  BY <1>0, <1>4 DEF UnlinkOriginal, Unlinked, Visits, Enter, Advance, history, FilesInv, UnderWay
<1>5. CASE SignInWrites \/ TrustWrites
  BY <1>0, <1>5 DEF SignInWrites, TrustWrites, thread, FilesInv, UnderWay
<1>6. CASE RunSucceeds \/ RunFails \/ RunRaises
  BY <1>0, <1>6 DEF RunSucceeds, RunFails, RunRaises, Enter
<1>7. CASE DiscardBackup \/ NoBackup \/ DiscardStale \/ UnlinkBackup
  <2>1. /\ pc \in {"discard", "restore", "recover"} /\ pc' = pc /\ todo' = todo \ {Current}
        /\ orig' = orig /\ UNCHANGED history
        /\ Copied' \subseteq Copied /\ Current \notin Copied'
    BY <1>0, <1>7, CurrentFacts DEF DiscardBackup, NoBackup, DiscardStale, UnlinkBackup, Visits,
       Advance, TypeOK
  <2> QED BY <2>1 DEF history, Found
<1>8. CASE OpenOriginal \/ WriteOriginal
  <2>1. /\ pc \in {"restore", "recover"} /\ pc' = pc /\ todo' = todo /\ copy' = copy
        /\ UNCHANGED history
        /\ copy[Current] # Absent /\ \A f \in Files \ {Current} : orig'[f] = orig[f]
    BY <1>0, <1>8 DEF OpenOriginal, WriteOriginal, Visits, TypeOK, FilesInv, OnlyRestoringTears
  <2>2. outcome = "killed" => Current \in Found
    BY <2>1, <1>0, CurrentFacts, <1>8 DEF OpenOriginal, WriteOriginal, Visits, TypeOK
  <2> QED BY <1>0, <2>1, <2>2 DEF history, Found
<1>9. CASE LoopDone
  BY <1>0, <1>9 DEF LoopDone, Enter, FilesInv, UnderWay
<1>10. CASE Kill
  <2>1. /\ pc \in {"idle", "backup", "unlink", "discard"} /\ pc' = "down"
        /\ UNCHANGED <<orig, copy, before, wrote>>
        /\ outcome' = IF outcome = "running" THEN "killed" ELSE outcome
    BY <1>10, AuthFilesAssumption DEF Kill, Enter, Phases
  <2> QED BY <1>0, <2>1 DEF FilesInv, UnderWay, Found, TypeOK
<1>11. CASE Boot
  BY <1>0, <1>11 DEF Boot, Enter, history, Found
<1> QED BY <1>1, <1>2, <1>3, <1>4, <1>5, <1>6, <1>7, <1>8, <1>9, <1>10, <1>11 DEF Next

\* "discard a backup whose original exists (the reauth finished but cleanup did not)"
\* holds as long as no exception and no death comes in between icloudpd's start and
\* its end, or in a loop that writes an original back: those are all the exceptions.
THEOREM DiscardSound ==
  ASSUME ~MayRaise, KillPoints \cap {"run", "restore", "recover"} = {}
  PROVE  Spec => DiscardMeansFinished
<1>1. Init => Superseded
  BY DEF Init, Superseded, Copied
<1>2. Superseded /\ FilesInv /\ FilesInv' /\ [Next]_vars => Superseded'
  BY SupersededStep DEF vars, thread, history, Superseded, Copied, Found, Current
<1>3. Superseded /\ FilesInv =>
        [DiscardStale => orig[Current] = Good(gen) \/ orig[Current] = before[Current]]_vars
  <2> SUFFICES ASSUME Superseded, FilesInv, DiscardStale
               PROVE  orig[Current] = Good(gen) \/ orig[Current] = before[Current]
    OBVIOUS
  <2>1. pc = "recover" /\ Current \in Files /\ orig[Current] \notin {Absent, Torn}
    BY CurrentFacts DEF DiscardStale, Visits, FilesInv, TypeOK, OnlyRestoringTears
  <2>2. outcome \in {"ok", "killed"}
    BY <2>1 DEF DiscardStale, Superseded, Copied
  <2> QED BY <2>1, <2>2 DEF Superseded, FilesInv, Outcomes, Found
<1>4. FilesInv /\ [Next]_vars => FilesInv'
  BY FilesStep
<1> QED
  BY <1>1, <1>2, <1>3, <1>4, InitFiles, PTL DEF Spec, DiscardMeansFinished
=============================================================================
