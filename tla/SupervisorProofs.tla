--------------------------- MODULE SupervisorProofs ---------------------------
(***************************************************************************)
(* Proofs about module Supervisor, for all values of its constants.        *)
(***************************************************************************)
EXTENDS Supervisor, FiniteSetTheorems, TLAPS

-------------------------------------------------------------------------------
(* Type correctness.  Most steps leave the clock and the sign-ins alone, and *)
(* with them the sets the other variables range over.                        *)

LEMMA SameRanges ==
  ASSUME now' = now, signIns' = signIns
  PROVE  /\ Times' = Times /\ Entries' = Entries
         /\ Disks' = Disks /\ Runs' = Runs
BY DEF Times, Entries, Disks, Runs

LEMMA RunsType ==
  ASSUME HistoryType
  PROVE  NoRun \in Runs /\ Launched \in Runs
<1>1. 0 \in 0 .. Len(signIns)
  BY DEF HistoryType
<1>2. NoRun \in Runs
  BY <1>1 DEF Runs, NoRun
<1> QED
  BY <1>2 DEF Runs, Launched

LEMMA SetStateType ==
  ASSUME TypeOK, NEW s \in States, SetState(s)
  PROVE  state' \in States /\ attempts' \subseteq Entries
BY DEF TypeOK, MemoryType, SetState, Recent

LEMMA RecordType ==
  ASSUME TypeOK, Record, run.id # 0
  PROVE  attempts' \subseteq Entries /\ disk' \in Disks /\ unsaved' \subseteq DOMAIN signIns
<1>1. run.id \in DOMAIN signIns /\ now \in Times
  BY DEF TypeOK, ControlType, HistoryType, Runs, Times
<1>2. [id |-> run.id, time |-> now] \in Entries
  BY <1>1 DEF Entries
<1>3. attempts' \subseteq Entries
  BY <1>2 DEF Record, Recent, TypeOK, MemoryType
<1>4. disk' \in Disks
  BY <1>3 DEF Record, Save, Disks, TypeOK, MemoryType, FilesType
<1>5. unsaved' \subseteq DOMAIN signIns
  BY <1>1 DEF Record, Save, TypeOK, HistoryType
<1> QED
  BY <1>3, <1>4, <1>5

LEMMA InitType == Init => TypeOK
<1> SUFFICES ASSUME Init PROVE TypeOK
  OBVIOUS
<1>1. HistoryType
  BY ConstantsAssumption DEF Init, HistoryType, NoTime
<1>2. ControlType
  BY <1>1, RunsType DEF Init, ControlType
<1> QED
  BY <1>1, <1>2 DEF Init, TypeOK, Coherent, NoRun, MemoryType, FilesType, Disks, States, JarStates


LEMMA ForgetType == TypeOK /\ Forget => TypeOK'
<1> SUFFICES ASSUME TypeOK, Forget PROVE TypeOK'
  OBVIOUS
<1>1. now' = now /\ signIns' = signIns
  BY DEF Forget, history
<1>2. Times' = Times /\ Entries' = Entries /\ Disks' = Disks /\ Runs' = Runs
  BY <1>1, SameRanges
<1>3. NoRun \in Runs
  BY RunsType DEF TypeOK
<1>4. ControlType'
  BY <1>2, <1>3 DEF Forget, ControlType
<1>5. MemoryType'
  BY <1>2 DEF Forget, MemoryType, States
<1>6. FilesType'
  BY <1>2 DEF Forget, TypeOK, FilesType, files
<1>7. HistoryType'
  BY <1>1, <1>2 DEF Forget, TypeOK, HistoryType, files, history
<1>8. Coherent'
  BY DEF Forget, Coherent, NoRun
<1> QED
  BY <1>4, <1>5, <1>6, <1>7, <1>8 DEF TypeOK

LEMMA FinishCycleType == TypeOK /\ pc # "auth" /\ FinishCycle => TypeOK'
<1> SUFFICES ASSUME TypeOK, pc # "auth", FinishCycle PROVE TypeOK'
  OBVIOUS
<1> USE ConstantsAssumption
<1>1. now' = now /\ signIns' = signIns
  BY DEF FinishCycle, history
<1>2. Times' = Times /\ Entries' = Entries /\ Disks' = Disks /\ Runs' = Runs
  BY <1>1, SameRanges
<1>3. NoRun \in Runs
  BY RunsType DEF TypeOK
<1>4. now \in Times /\ now \in Nat
  BY DEF TypeOK, HistoryType, Times
<1>5. ControlType'
  BY <1>2, <1>3 DEF FinishCycle, TypeOK, ControlType, After
<1>6. SetState("idle") /\ "idle" \in States
  BY DEF FinishCycle, States
<1>7. state' \in States /\ attempts' \subseteq Entries
  BY <1>6, SetStateType
<1>8. MemoryType'
  BY <1>2, <1>4, <1>7 DEF FinishCycle, TypeOK, MemoryType
<1>9. disk' \in Disks
  BY <1>4 DEF FinishCycle, Save, Disks, TypeOK, MemoryType, FilesType
<1>10. FilesType'
  BY <1>2, <1>9 DEF FinishCycle, TypeOK, FilesType
<1>11. HistoryType'
  BY <1>1, <1>2 DEF FinishCycle, Save, TypeOK, HistoryType, history
<1>12. Coherent'
  BY DEF FinishCycle, TypeOK, Coherent, NoRun
<1> QED
  BY <1>5, <1>8, <1>10, <1>11, <1>12 DEF TypeOK

LEMMA SyncCycleType ==
  ASSUME TypeOK, pc # "auth", NEW m \in BOOLEAN, SyncCycle(m)
  PROVE  TypeOK'
<1> USE ConstantsAssumption
<1>1. now' = now /\ signIns' = signIns
  BY DEF SyncCycle, RefuseKeyring, RefuseBudget, StartCycle, history
<1>2. Times' = Times /\ Entries' = Entries /\ Disks' = Disks /\ Runs' = Runs
  BY <1>1, SameRanges
<1>3. Launched \in Runs /\ now \in Times /\ now \in Nat
  BY RunsType DEF TypeOK, HistoryType, Times
<1>4. UNCHANGED files
  BY DEF SyncCycle, RefuseKeyring, RefuseBudget, StartCycle
<1>5. FilesType'
  BY <1>2, <1>4 DEF TypeOK, FilesType, files
<1>6. CASE RefuseKeyring(m)
  <2>1. SetState("password_needed") /\ "password_needed" \in States
    BY <1>6 DEF RefuseKeyring, States
  <2>2. state' \in States /\ attempts' \subseteq Entries
    BY <2>1, SetStateType
  <2>3. MemoryType'
    BY <1>2, <1>3, <1>6, <2>2 DEF RefuseKeyring, TypeOK, MemoryType
  <2>4. ControlType'
    BY <1>2, <1>6 DEF RefuseKeyring, TypeOK, ControlType, After
  <2>5. HistoryType'
    BY <1>1, <1>2, <1>6 DEF RefuseKeyring, TypeOK, HistoryType, files, history
  <2>9. Coherent'
    BY <1>6 DEF RefuseKeyring, TypeOK, Coherent, Launched, NoRun, files
  <2> QED BY <1>5, <2>3, <2>4, <2>5, <2>9 DEF TypeOK
<1>7. CASE RefuseBudget(m)
  <2>1. SetState("auth_rate_limited") /\ "auth_rate_limited" \in States
    BY <1>7 DEF RefuseBudget, States
  <2>2. state' \in States /\ attempts' \subseteq Entries
    BY <2>1, SetStateType
  <2>3. next' \in Nat
    BY <1>3, <1>7 DEF RefuseBudget, Later
  <2>4. MemoryType'
    BY <1>2, <1>7, <2>2, <2>3 DEF RefuseBudget, TypeOK, MemoryType
  <2>5. ControlType'
    BY <1>2, <1>7 DEF RefuseBudget, TypeOK, ControlType, After
  <2>6. HistoryType'
    BY <1>1, <1>2, <1>7 DEF RefuseBudget, TypeOK, HistoryType, files, history
  <2>9. Coherent'
    BY <1>7 DEF RefuseBudget, TypeOK, Coherent, Launched, NoRun, files
  <2> QED BY <1>5, <2>4, <2>5, <2>6, <2>9 DEF TypeOK
<1>8. CASE StartCycle(m)
  <2>1. SetState("syncing") /\ "syncing" \in States
    BY <1>8 DEF StartCycle, States
  <2>2. state' \in States /\ attempts' \subseteq Entries
    BY <2>1, SetStateType
  <2>3. libs' \in Nat /\ left' \in Nat
    BY <1>8 DEF StartCycle, TypeOK, MemoryType, ControlType
  <2>4. MemoryType'
    BY <1>2, <1>8, <2>2, <2>3 DEF StartCycle, TypeOK, MemoryType
  <2>5. ControlType'
    BY <1>2, <1>3, <1>8, <2>3 DEF StartCycle, TypeOK, ControlType
  <2>6. seen' = seen /\ lastAuto' \in {NoTime} \union Times
    BY <1>3, <1>8 DEF StartCycle, TypeOK, HistoryType
  <2>7. HistoryType'
    BY <1>1, <1>2, <1>4, <2>6 DEF TypeOK, HistoryType, files
  <2>9. Coherent'
    BY <1>8 DEF StartCycle, TypeOK, Coherent, Launched, NoRun, files
  <2> QED BY <1>5, <2>4, <2>5, <2>7, <2>9 DEF TypeOK
<1> QED
  BY <1>6, <1>7, <1>8 DEF SyncCycle


\* Steps that leave the clock and the sign-ins alone, but for the shared parts
\* above.
LEMMA QuietStepType ==
  ASSUME TypeOK,
         LoopTop \/ NothingToDo \/ NotDue \/ LookupDone \/ NextLibrary \/ SyncDone
         \/ ReauthCommand \/ ReauthDone \/ RunEnds \/ Prompt \/ CodeAccepted
         \/ Verified \/ Raise \/ Boot \/ Stop \/ Expire \/ Revoke \/ OperatorInit,
         now' = now, signIns' = signIns
  PROVE  TypeOK'
<1> USE ConstantsAssumption
<1>1. Times' = Times /\ Entries' = Entries /\ Disks' = Disks /\ Runs' = Runs
  BY SameRanges
<1>2. NoRun \in Runs /\ Launched \in Runs
  BY RunsType DEF TypeOK
<1>3. now \in Times /\ now \in Nat
  BY DEF TypeOK, HistoryType, Times
<1>4. Recent \subseteq Entries
  BY DEF TypeOK, MemoryType, Recent
<1>5. {"idle", "syncing", "waiting_for_mfa", "password_needed"} \subseteq States
  BY DEF States
<1>6. CASE LoopTop
  <2>1. CASE Forget
    BY <2>1, ForgetType
  <2>2. CASE ~stop /\ UNCHANGED <<manual, left, pairs, run, memory, files, now, history>> /\ pc' = "wait"
    BY <1>1, <1>6, <2>2 DEF LoopTop, TypeOK, Coherent, ControlType, MemoryType, FilesType, HistoryType, memory, files, history
  <2> QED BY <1>6, <2>1, <2>2 DEF LoopTop
<1>7. CASE NothingToDo
  <2>1. ControlType'
    BY <1>1, <1>2, <1>7 DEF NothingToDo, TypeOK, ControlType, control
  <2>2. MemoryType'
    BY <1>1, <1>4, <1>5, <1>7 DEF NothingToDo, TypeOK, MemoryType, memory
  <2>3. FilesType'
    BY <1>1, <1>7 DEF NothingToDo, TypeOK, FilesType, files, JarStates
  <2>4. HistoryType'
    BY <1>1, <1>7 DEF NothingToDo, TypeOK, HistoryType, files, history
  <2>5. Coherent'
    BY <1>7 DEF NothingToDo, TypeOK, Coherent, Launched, NoRun, control, memory, files, history
  <2> QED BY <2>1, <2>2, <2>3, <2>4, <2>5 DEF TypeOK
<1>8. CASE NotDue
  <2>1. ControlType'
    BY <1>1, <1>2, <1>8 DEF NotDue, TypeOK, ControlType, control
  <2>2. MemoryType'
    BY <1>1, <1>4, <1>5, <1>8 DEF NotDue, TypeOK, MemoryType, memory
  <2>3. FilesType'
    BY <1>1, <1>8 DEF NotDue, Save, TypeOK, FilesType, MemoryType, Disks
  <2>4. HistoryType'
    BY <1>1, <1>8 DEF NotDue, Save, TypeOK, HistoryType, history
  <2>5. Coherent'
    BY <1>8 DEF NotDue, TypeOK, Coherent, Launched, NoRun, control, memory, files, history
  <2> QED BY <2>1, <2>2, <2>3, <2>4, <2>5 DEF TypeOK
<1>9. CASE LookupDone
  <2>1. CASE FinishCycle
    BY <1>9, <2>1, FinishCycleType DEF LookupDone
  <2>2. CASE ~FinishCycle
    <3>1. PICK found \in {0, Shared} : Named + found > 0 /\ libs' = Named + found
                                     /\ left' = Named + found
      BY <1>9, <2>2 DEF LookupDone
    <3>2. libs' \in Nat /\ left' \in Nat
      BY <3>1
    <3>3. ControlType'
      BY <1>1, <1>2, <1>9, <2>2, <3>2 DEF LookupDone, TypeOK, ControlType
    <3>4. MemoryType'
      BY <1>1, <1>9, <2>2, <3>2 DEF LookupDone, TypeOK, MemoryType
    <3>5. FilesType'
      BY <1>1, <1>9, <2>2 DEF LookupDone, TypeOK, FilesType, files
    <3>6. HistoryType'
      BY <1>1, <1>9, <2>2 DEF LookupDone, TypeOK, HistoryType, files, history
    <3>7. Coherent'
      BY <1>9, <2>2 DEF LookupDone, TypeOK, Coherent, Launched, NoRun, files
    <3> QED BY <3>3, <3>4, <3>5, <3>6, <3>7 DEF TypeOK
  <2> QED BY <2>1, <2>2
<1>10. CASE NextLibrary
  <2>1. ControlType'
    BY <1>1, <1>2, <1>10 DEF NextLibrary, TypeOK, ControlType, control
  <2>2. MemoryType'
    BY <1>1, <1>4, <1>5, <1>10 DEF NextLibrary, TypeOK, MemoryType, memory
  <2>3. FilesType'
    BY <1>1, <1>10 DEF NextLibrary, TypeOK, FilesType, files, JarStates
  <2>4. HistoryType'
    BY <1>1, <1>10 DEF NextLibrary, TypeOK, HistoryType, files, history
  <2>5. Coherent'
    BY <1>10 DEF NextLibrary, TypeOK, Coherent, Launched, NoRun, control, memory, files, history
  <2> QED BY <2>1, <2>2, <2>3, <2>4, <2>5 DEF TypeOK
<1>11. CASE SyncDone
  BY <1>11, FinishCycleType DEF SyncDone
<1>12. CASE ReauthCommand
  <2>1. ControlType'
    BY <1>1, <1>2, <1>12 DEF ReauthCommand, RefuseReauth, StartReauth, SetState, After, TypeOK, ControlType, control
  <2>2. MemoryType'
    BY <1>1, <1>4, <1>5, <1>12 DEF ReauthCommand, RefuseReauth, StartReauth, SetState, After, TypeOK, MemoryType, memory
  <2>3. FilesType'
    BY <1>1, <1>12 DEF ReauthCommand, RefuseReauth, StartReauth, SetState, After, TypeOK, FilesType, files, JarStates
  <2>4. HistoryType'
    BY <1>1, <1>12 DEF ReauthCommand, RefuseReauth, StartReauth, SetState, After, TypeOK, HistoryType, files, history
  <2>5. Coherent'
    <3>1. CASE RefuseReauth
      BY <1>12, <3>1 DEF ReauthCommand, RefuseReauth, TypeOK, Coherent, files
    <3>2. CASE StartReauth
      <4>1. pairs' => jar # "absent"
        BY <3>2, Zenon DEF StartReauth
      <4>2. pairs' => backup' # "none"
        BY <3>2, <4>1 DEF StartReauth, TypeOK, FilesType, JarStates
      <4> QED BY <3>2, <4>2 DEF StartReauth, Coherent, Launched, NoRun
    <3> QED BY <1>12, <3>1, <3>2 DEF ReauthCommand
  <2> QED BY <2>1, <2>2, <2>3, <2>4, <2>5 DEF TypeOK
<1>13. CASE ReauthDone
  <2>1. ControlType'
    BY <1>1, <1>2, <1>13 DEF ReauthDone, SetState, After, TypeOK, ControlType, control
  <2>2. MemoryType'
    BY <1>1, <1>4, <1>5, <1>13 DEF ReauthDone, SetState, After, TypeOK, MemoryType, memory
  <2>3. FilesType'
    BY <1>1, <1>13 DEF ReauthDone, SetState, After, TypeOK, FilesType, files, JarStates, Coherent
  <2>4. HistoryType'
    BY <1>1, <1>13 DEF ReauthDone, SetState, After, TypeOK, HistoryType, files, history
  <2>5. Coherent'
    BY <1>13 DEF ReauthDone, SetState, After, TypeOK, Coherent, Launched, NoRun, control, memory, files, history
  <2> QED BY <2>1, <2>2, <2>3, <2>4, <2>5 DEF TypeOK
<1>14. CASE RunEnds
  <2>1. attempts' \subseteq Entries /\ disk' \in Disks /\ unsaved' \subseteq DOMAIN signIns
    BY <1>14, RecordType DEF RunEnds, AccountForRun, TypeOK, MemoryType, FilesType, HistoryType
  <2>2. run' \in Runs
    BY <1>14 DEF RunEnds, TypeOK, ControlType, Runs
  <2>3. ControlType'
    BY <1>1, <1>2, <2>1, <2>2, <1>14 DEF RunEnds, TypeOK, ControlType, control
  <2>4. MemoryType'
    BY <1>1, <1>4, <1>5, <2>1, <2>2, <1>14 DEF RunEnds, TypeOK, MemoryType, memory
  <2>5. FilesType'
    BY <1>1, <2>1, <2>2, <1>14 DEF RunEnds, TypeOK, FilesType, files, JarStates
  <2>6. HistoryType'
    BY <1>1, <2>1, <2>2, <1>14 DEF RunEnds, TypeOK, HistoryType, files, history
  <2>7. Coherent'
    BY <1>14 DEF RunEnds, TypeOK, Coherent, Launched, NoRun, control, memory, files, history
  <2> QED BY <2>3, <2>4, <2>5, <2>6, <2>7 DEF TypeOK
<1>15. CASE Prompt
  <2>1. run.id \in DOMAIN signIns
    BY <1>15 DEF Prompt, TypeOK, ControlType, HistoryType, Coherent, Runs
  <2>2. attempts' \subseteq Entries /\ disk' \in Disks /\ unsaved' \subseteq DOMAIN signIns
    BY <1>4, <1>15, RecordType DEF Prompt, ChargePrompt, TypeOK, FilesType, HistoryType, Coherent
  <2>3. run' \in Runs
    BY <1>15 DEF Prompt, TypeOK, ControlType, Runs
  <2>4. ControlType'
    BY <1>1, <1>2, <2>1, <2>2, <2>3, <1>15 DEF Prompt, TypeOK, ControlType, control
  <2>5. MemoryType'
    BY <1>1, <1>4, <1>5, <2>1, <2>2, <2>3, <1>15 DEF Prompt, TypeOK, MemoryType, memory
  <2>6. FilesType'
    BY <1>1, <2>1, <2>2, <2>3, <1>15 DEF Prompt, TypeOK, FilesType, files, JarStates
  <2>7. HistoryType'
    BY <1>1, <2>1, <2>2, <2>3, <1>15 DEF Prompt, TypeOK, HistoryType, files, history
  <2>8. Coherent'
    BY <1>15 DEF Prompt, TypeOK, Coherent, Launched, NoRun, control, memory, files, history
  <2> QED BY <2>4, <2>5, <2>6, <2>7, <2>8 DEF TypeOK
<1>16. CASE CodeAccepted
  <2>1. run' \in Runs
    BY <1>16 DEF CodeAccepted, TypeOK, ControlType, Runs
  <2>2. ControlType'
    BY <1>1, <1>2, <2>1, <1>16 DEF CodeAccepted, TypeOK, ControlType, control
  <2>3. MemoryType'
    BY <1>1, <1>4, <1>5, <2>1, <1>16 DEF CodeAccepted, TypeOK, MemoryType, memory
  <2>4. FilesType'
    BY <1>1, <2>1, <1>16 DEF CodeAccepted, TypeOK, FilesType, files, JarStates
  <2>5. HistoryType'
    BY <1>1, <2>1, <1>16 DEF CodeAccepted, TypeOK, HistoryType, files, history
  <2>6. Coherent'
    BY <1>16 DEF CodeAccepted, TypeOK, Coherent, Launched, NoRun, control, memory, files, history
  <2> QED BY <2>2, <2>3, <2>4, <2>5, <2>6 DEF TypeOK
<1>17. CASE Verified
  <2>1. run' \in Runs
    BY <1>17 DEF Verified, TypeOK, ControlType, Runs
  <2>2. ControlType'
    BY <1>1, <1>2, <2>1, <1>17 DEF Verified, SetState, TypeOK, ControlType, control
  <2>3. MemoryType'
    BY <1>1, <1>4, <1>5, <2>1, <1>17 DEF Verified, SetState, TypeOK, MemoryType, memory
  <2>4. FilesType'
    BY <1>1, <2>1, <1>17 DEF Verified, SetState, TypeOK, FilesType, files, JarStates
  <2>5. HistoryType'
    BY <1>1, <2>1, <1>17 DEF Verified, SetState, TypeOK, HistoryType, files, history
  <2>6. Coherent'
    BY <1>17 DEF Verified, SetState, TypeOK, Coherent, Launched, NoRun, control, memory, files, history
  <2> QED BY <2>2, <2>3, <2>4, <2>5, <2>6 DEF TypeOK
<1>18. CASE Raise
  <2>1. ControlType'
    BY <1>1, <1>2, <1>18 DEF Raise, TypeOK, ControlType, control
  <2>2. MemoryType'
    BY <1>1, <1>4, <1>5, <1>18 DEF Raise, TypeOK, MemoryType, memory
  <2>3. FilesType'
    BY <1>1, <1>18 DEF Raise, TypeOK, FilesType, files, JarStates
  <2>4. HistoryType'
    BY <1>1, <1>18 DEF Raise, TypeOK, HistoryType, files, history
  <2>5. Coherent'
    BY <1>18 DEF Raise, TypeOK, Coherent, Launched, NoRun, control, memory, files, history
  <2> QED BY <2>1, <2>2, <2>3, <2>4, <2>5 DEF TypeOK
<1>19. CASE Boot
  <2>1. attempts' \subseteq Entries /\ lastSync' \in {NoTime} \union Times
    BY <1>19 DEF Boot, TypeOK, FilesType, Disks
  <2>2. next' \in Nat
    BY <1>3, <1>19 DEF Boot, Later, TypeOK, FilesType, Disks, Times
  <2>3. ControlType'
    BY <1>1, <1>2, <2>1, <2>2, <1>19 DEF Boot, Later, TypeOK, ControlType, control
  <2>4. MemoryType'
    BY <1>1, <1>4, <1>5, <2>1, <2>2, <1>19 DEF Boot, Later, TypeOK, MemoryType, memory
  <2>5. FilesType'
    BY <1>1, <2>1, <2>2, <1>19 DEF Boot, Later, TypeOK, FilesType, files, JarStates
  <2>6. HistoryType'
    BY <1>1, <2>1, <2>2, <1>19 DEF Boot, Later, TypeOK, HistoryType, files, history
  <2>7. Coherent'
    BY <1>19 DEF Boot, Later, TypeOK, Coherent, Launched, NoRun, control, memory, files, history
  <2> QED BY <2>3, <2>4, <2>5, <2>6, <2>7 DEF TypeOK
<1>20. CASE Stop
  <2>1. ControlType'
    BY <1>1, <1>2, <1>20 DEF Stop, TypeOK, ControlType, control
  <2>2. MemoryType'
    BY <1>1, <1>4, <1>5, <1>20 DEF Stop, TypeOK, MemoryType, memory
  <2>3. FilesType'
    BY <1>1, <1>20 DEF Stop, TypeOK, FilesType, files, JarStates
  <2>4. HistoryType'
    BY <1>1, <1>20 DEF Stop, TypeOK, HistoryType, files, history
  <2>5. Coherent'
    BY <1>20 DEF Stop, TypeOK, Coherent, Launched, NoRun, control, memory, files, history
  <2> QED BY <2>1, <2>2, <2>3, <2>4, <2>5 DEF TypeOK
<1>21. CASE Expire
  <2>1. ControlType'
    BY <1>1, <1>2, <1>21 DEF Expire, TypeOK, ControlType, control
  <2>2. MemoryType'
    BY <1>1, <1>4, <1>5, <1>21 DEF Expire, TypeOK, MemoryType, memory
  <2>3. FilesType'
    BY <1>1, <1>21 DEF Expire, TypeOK, FilesType, files, JarStates
  <2>4. HistoryType'
    BY <1>1, <1>21 DEF Expire, TypeOK, HistoryType, files, history
  <2>5. Coherent'
    BY <1>21 DEF Expire, TypeOK, Coherent, Launched, NoRun, control, memory, files, history
  <2> QED BY <2>1, <2>2, <2>3, <2>4, <2>5 DEF TypeOK
<1>22. CASE Revoke
  <2>1. ControlType'
    BY <1>1, <1>2, <1>22 DEF Revoke, TypeOK, ControlType, control
  <2>2. MemoryType'
    BY <1>1, <1>4, <1>5, <1>22 DEF Revoke, TypeOK, MemoryType, memory
  <2>3. FilesType'
    BY <1>1, <1>22 DEF Revoke, TypeOK, FilesType, files, JarStates
  <2>4. HistoryType'
    BY <1>1, <1>22 DEF Revoke, TypeOK, HistoryType, files, history
  <2>5. Coherent'
    BY <1>22 DEF Revoke, TypeOK, Coherent, Launched, NoRun, control, memory, files, history
  <2> QED BY <2>1, <2>2, <2>3, <2>4, <2>5 DEF TypeOK
<1>23. CASE OperatorInit
  <2>1. ControlType'
    BY <1>1, <1>2, <1>23 DEF OperatorInit, TypeOK, ControlType, control
  <2>2. MemoryType'
    BY <1>1, <1>4, <1>5, <1>23 DEF OperatorInit, TypeOK, MemoryType, memory
  <2>3. FilesType'
    BY <1>1, <1>23 DEF OperatorInit, TypeOK, FilesType, files, JarStates
  <2>4. HistoryType'
    BY <1>1, <1>23 DEF OperatorInit, TypeOK, HistoryType, files, history
  <2>5. Coherent'
    BY <1>23 DEF OperatorInit, TypeOK, Coherent, Launched, NoRun, control, memory, files, history
  <2> QED BY <2>1, <2>2, <2>3, <2>4, <2>5 DEF TypeOK
<1> QED BY <1>6, <1>7, <1>8, <1>9, <1>10, <1>11, <1>12, <1>13, <1>14, <1>15, <1>16, <1>17, <1>18, <1>19, <1>20, <1>21, <1>22, <1>23

LEMMA SignInType == TypeOK /\ SignIn => TypeOK'
<1> SUFFICES ASSUME TypeOK, SignIn PROVE TypeOK'
  OBVIOUS
<1> USE ConstantsAssumption
<1>1. /\ now \in Nat /\ now' = now
      /\ signIns \in Seq(Nat) /\ signIns' = Append(signIns, now)
  BY DEF SignIn, TypeOK, HistoryType
<1>2. /\ signIns' \in Seq(Nat) /\ Len(signIns') = Len(signIns) + 1
      /\ \A n \in DOMAIN signIns : n \in DOMAIN signIns' /\ signIns'[n] = signIns[n]
      /\ Len(signIns') \in DOMAIN signIns' /\ signIns'[Len(signIns')] = now
      /\ \A n \in DOMAIN signIns' : n \in DOMAIN signIns \/ n = Len(signIns')
  BY <1>1
<1>3. Times' = Times /\ Entries \subseteq Entries'
  BY <1>1, <1>2 DEF Times, Entries
<1>4. ControlType'
  <2>1. PICK need \in BOOLEAN :
          run' = [run EXCEPT !.id = Len(signIns) + 1,
                             !.mfa = IF need THEN "wait" ELSE "done"]
    BY DEF SignIn
  <2>2. Len(signIns) + 1 \in 0 .. Len(signIns')
    BY <1>1, <1>2
  <2>3. run' \in Runs'
    BY <2>1, <2>2 DEF TypeOK, ControlType, Runs
  <2> QED BY <2>3 DEF SignIn, TypeOK, ControlType
<1>5. MemoryType'
  BY <1>3 DEF SignIn, TypeOK, MemoryType, memory
<1>6. FilesType'
  <2>1. disk' \in Disks'
    BY <1>3 DEF SignIn, TypeOK, FilesType, Disks
  <2> QED BY <2>1 DEF SignIn, TypeOK, FilesType, JarStates
<1>7. HistoryType'
  <2>1. Len(signIns') <= MaxSignIns
    BY <1>1, <1>2 DEF SignIn
  <2>2. \A n \in DOMAIN signIns' : signIns'[n] <= now'
    BY <1>1, <1>2 DEF TypeOK, HistoryType
  <2>3. seen' \subseteq DOMAIN signIns'
    BY <1>2 DEF SignIn, TypeOK, HistoryType
  <2> QED BY <1>1, <1>2, <1>3, <2>1, <2>2, <2>3 DEF SignIn, TypeOK, HistoryType
<1>8. Coherent'
  BY <1>1 DEF SignIn, TypeOK, Coherent, ControlType, Runs
<1> QED BY <1>4, <1>5, <1>6, <1>7, <1>8 DEF TypeOK

LEMMA TickType == TypeOK /\ Tick => TypeOK'
<1> SUFFICES ASSUME TypeOK, Tick PROVE TypeOK'
  OBVIOUS
<1> USE ConstantsAssumption
<1>1. now \in Nat /\ now' = now + 1 /\ now' <= MaxTime /\ signIns' = signIns
  BY DEF Tick, TypeOK, HistoryType, files, history
<1>2. Times \subseteq Times'
  BY <1>1 DEF Times
<1>3. Entries \subseteq Entries' /\ Runs' = Runs
  BY <1>1, <1>2 DEF Entries, Runs
<1>4. ControlType'
  BY <1>3 DEF Tick, TypeOK, ControlType, control
<1>5. MemoryType'
  BY <1>2, <1>3 DEF Tick, TypeOK, MemoryType, memory
<1>6. FilesType'
  BY <1>2, <1>3 DEF Tick, TypeOK, FilesType, files, Disks
<1>7. HistoryType'
  <2>1. \A n \in DOMAIN signIns : signIns[n] <= now + 1
    <3>1. TAKE n \in DOMAIN signIns
    <3>2. signIns[n] \in Nat /\ signIns[n] <= now
      BY DEF TypeOK, HistoryType
    <3> QED BY <1>1, <3>2
  <2> QED BY <1>1, <1>2, <2>1 DEF Tick, TypeOK, HistoryType, files, history
<1>8. Coherent'
  BY DEF Tick, TypeOK, Coherent, control, files
<1> QED BY <1>4, <1>5, <1>6, <1>7, <1>8 DEF TypeOK

LEMMA StutterType == TypeOK /\ UNCHANGED vars => TypeOK'
BY DEF vars, control, memory, files, history, TypeOK, ControlType, MemoryType,
       FilesType, HistoryType, Coherent, Times, Entries, Disks, Runs

\* Only Apple's sign-ins and the clock touch the history the ranges depend on.
LEMMA QuietSteps ==
  ASSUME LoopTop \/ NothingToDo \/ NotDue \/ LookupDone \/ NextLibrary \/ SyncDone
         \/ ReauthCommand \/ ReauthDone \/ RunEnds \/ Prompt \/ CodeAccepted
         \/ Verified \/ Raise \/ Boot \/ Stop \/ Expire \/ Revoke \/ OperatorInit
  PROVE  now' = now /\ signIns' = signIns
BY DEF LoopTop, Forget, NothingToDo, NotDue, LookupDone, FinishCycle, NextLibrary,
       SyncDone, ReauthCommand, RefuseReauth, StartReauth, ReauthDone, RunEnds,
       Prompt, CodeAccepted, Verified, Raise, Boot, Stop, Expire, Revoke,
       OperatorInit, history

LEMMA NextType == TypeOK /\ [Next]_vars => TypeOK'
<1> SUFFICES ASSUME TypeOK, [Next]_vars PROVE TypeOK'
  OBVIOUS
<1>1. CASE SyncCommand
  BY <1>1, SyncCycleType DEF SyncCommand
<1>2. CASE Due
  BY <1>2, SyncCycleType DEF Due
<1>3. CASE SignIn
  BY <1>3, SignInType
<1>4. CASE Kill
  BY <1>4, ForgetType DEF Kill
<1>5. CASE Tick
  BY <1>5, TickType
<1>6. CASE UNCHANGED vars
  BY <1>6, StutterType
<1> QED
  BY <1>1, <1>2, <1>3, <1>4, <1>5, <1>6, QuietSteps, QuietStepType
     DEF Next, MainThread, Environment

\* Every variable keeps its type and its history, in every environment.
THEOREM TypeCorrect == Spec => []TypeOK
<1> QED
  BY InitType, NextType, PTL DEF Spec

-------------------------------------------------------------------------------
(* Facts the proofs of the other modules share.                              *)

\* The main thread is inside a run exactly while it waits for icloudpd.
Blocked == run.phase # "none" <=> pc \in {"lookup", "sync", "auth"}

LEMMA BlockedInit == Init => Blocked
BY DEF Init, Blocked, NoRun

LEMMA BlockedStep == TypeOK /\ Blocked /\ [Next]_vars => Blocked'
<1> SUFFICES ASSUME TypeOK, Blocked, [Next]_vars PROVE Blocked'
  OBVIOUS
<1>1. CASE LoopTop \/ Kill \/ Boot \/ Raise
  BY <1>1 DEF LoopTop, Kill, Forget, Boot, Raise, Blocked, NoRun
<1>2. CASE SyncCommand \/ Due
  BY <1>2 DEF SyncCommand, Due, SyncCycle, RefuseKeyring, RefuseBudget, StartCycle, After,
              Blocked, NoRun, Launched
<1>3. CASE ReauthCommand \/ ReauthDone
  BY <1>3 DEF ReauthCommand, RefuseReauth, StartReauth, ReauthDone, After, Blocked, NoRun,
              Launched
<1>4. CASE LookupDone \/ SyncDone \/ NextLibrary
  BY <1>4 DEF LookupDone, SyncDone, NextLibrary, FinishCycle, After, Blocked, NoRun, Launched
<1>5. CASE SignIn \/ Prompt \/ CodeAccepted \/ Verified \/ RunEnds
  <2>1. run'.phase # "none" /\ run.phase # "none" /\ pc' = pc
    BY <1>5 DEF SignIn, Prompt, CodeAccepted, Verified, RunEnds, TypeOK, ControlType, Runs
  <2> QED BY <2>1 DEF Blocked
<1>6. CASE NothingToDo \/ NotDue \/ Stop \/ Expire \/ Revoke \/ OperatorInit \/ Tick
           \/ UNCHANGED vars
  BY <1>6 DEF NothingToDo, NotDue, Stop, Expire, Revoke, OperatorInit, Tick, vars, control,
              Blocked
<1> QED
  BY <1>1, <1>2, <1>3, <1>4, <1>5, <1>6 DEF Next, MainThread, Environment

LEMMA BlockedKept == Spec => []Blocked
<1> QED BY BlockedInit, BlockedStep, TypeCorrect, PTL DEF Spec

LEMMA SameRecent ==
  ASSUME now' = now, attempts' = attempts \/ attempts' = Recent
  PROVE  Recent' = Recent
BY DEF Recent
=============================================================================
