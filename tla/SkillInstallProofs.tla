-------------------------- MODULE SkillInstallProofs --------------------------
(***************************************************************************)
(* Proofs about the installation of Skills, for any number of processes,   *)
(* versions and user changes.                                              *)
(*                                                                         *)
(* That the destination is complete and that a version is kept rests on    *)
(* what the lock holder knows of the three directories at each stage.      *)
(* IInv says what that is.                                                 *)
(***************************************************************************)
EXTENDS SkillInstall, FiniteSetTheorems, TLAPS

Outside == {"idle", "waiting"}

\* The processes past the lock are exactly its holder.
LockHeld == \A p \in Procs : pc[p] \notin Outside <=> lock = p

\* The parts of a recovery, and the publication, belong to an install.
Installing(p) ==
  pc[p] \in {"restored", "reclean", "recleaned", "publish"} => op[p] = "install"

\* After the recovery no backup is left.
NoBackup(p) ==
  pc[p] \in {"restored", "recleaned", "examine", "swap"} /\ op[p] = "install"
    => dir["previous"] = "none"

\* What may be moved to the destination is no rest of a removal.
AsideOK(p) == pc[p] \in {"verify", "publish"} => dir[Aside(p)] # "partial"

\* Where the tree is that an install must not lose.
Kept(p) ==
  installed =>
    /\ pc[p] = "swap" => dir["dest"] = current[p]
    /\ pc[p] = "verify" => op[p] = "install" /\ Intact(dir["previous"])
    /\ pc[p] = "publish" => current[p] # "none" /\ Intact(dir["previous"])
    /\ pc[p] = "reclean" => Intact(dir["dest"])
    /\ pc[p] = "clean" /\ op[p] = "install" => Intact(dir["dest"])

\* What may be removed is not the user's.
Owned(p) ==
  pc[p] \in {"publish", "clean", "reclean"} => dir[Aside(p)] # "foreign"

StageOK(p) == Installing(p) /\ NoBackup(p) /\ AsideOK(p) /\ Kept(p) /\ Owned(p)

\* The state of the directory that a power loss leaves, or that is seen.
Sound(d) ==
  /\ d["dest"] # "partial"
  /\ installed => Intact(d["dest"]) \/ Intact(d["previous"])

IInv ==
  /\ TypeOK
  /\ LockHeld
  /\ \A p \in Procs : StageOK(p)
  /\ \A d \in survivable \cup {dir} : Sound(d)

-----------------------------------------------------------------------------
(* Type correctness *)

\* What a command does to the three directories leaves three directories.
LEMMA EditsAreDirectories ==
  /\ Empty \in Directories
  /\ \A d \in Directories, place \in Places : d[place] \in Contents
  /\ \A d \in Directories, place \in Places, c \in Contents :
       [d EXCEPT ![place] = c] \in Directories
  BY DEF Empty, Directories, Contents, Places

\* A change to a well-typed state of the directories leaves a well-typed state.
LEMMA ChangeType ==
  ASSUME TypeOK, NEW new \in Directories, Change(new)
  PROVE  dir' \in Directories /\ survivable' \in SUBSET Directories
  BY DEF TypeOK, Change

\* So does a rename, whose two names differ.
LEMMA RenameType ==
  ASSUME TypeOK, NEW from \in Places, NEW to \in Places, Rename(from, to)
  PROVE  dir' \in Directories /\ survivable' \in SUBSET Directories
  <1>1. [dir EXCEPT ![to] = dir[from], ![from] = "none"] \in Directories
    BY DEF TypeOK, Directories, Contents
  <1>2. QED
    BY <1>1, ChangeType DEF Rename

\* A process that ends leaves well-typed locals.
LEMMA ExitType ==
  ASSUME TypeOK, NEW p \in Procs, Exit(p)
  PROVE  /\ pc' \in [Procs -> PCs]
         /\ op' \in [Procs -> {"install", "uninstall"}]
         /\ version' \in [Procs -> Versions]
         /\ current' \in [Procs -> Versions \cup {"none"}]
         /\ result' \in [Procs -> {"none", "ok", "committed", "conflict", "error"}]
  BY DEF TypeOK, Exit, Goto, PCs

\* No step changes the type of a variable.
LEMMA TypeStep == TypeOK /\ [Next]_vars => TypeOK'
  <1> SUFFICES ASSUME TypeOK, [Next]_vars
               PROVE  TypeOK'
    OBVIOUS
  <1> USE DEF Goto, Return, PCs, store, history
  <1>0. /\ "dest" \in Places /\ "previous" \in Places /\ "removing" \in Places
        /\ \A p \in Procs : Aside(p) \in Places
        /\ {"none", "foreign", "partial"} \subseteq Contents /\ Versions \subseteq Contents
    BY DEF Places, Aside, Contents
  <1>1. ASSUME NEW p \in Procs, BeginInstall(p)
        PROVE  TypeOK'
    BY <1>1 DEF BeginInstall, TypeOK
  <1>2. ASSUME NEW p \in Procs, BeginUninstall(p)
        PROVE  TypeOK'
    BY <1>2 DEF BeginUninstall, TypeOK
  <1>3. ASSUME NEW p \in Procs, AcquireLock(p)
        PROVE  TypeOK'
    BY <1>3 DEF AcquireLock, TypeOK
  <1>4. ASSUME NEW p \in Procs, GiveUpLock(p)
        PROVE  TypeOK'
    BY <1>4, ExitType DEF GiveUpLock, TypeOK
  <1>5. ASSUME NEW p \in Procs, RecoverInstall(p)
        PROVE  TypeOK'
    <2>1. dir' \in Directories /\ survivable' \in SUBSET Directories
      BY <1>0, <1>5, RenameType DEF RecoverInstall, Keep, TypeOK
    <2>2. pc' \in [Procs -> PCs]
      BY <1>5 DEF RecoverInstall, TypeOK
    <2>3. result' \in [Procs -> {"none", "ok", "committed", "conflict", "error"}]
      BY <1>5 DEF RecoverInstall, TypeOK
    <2>4. QED
      BY <1>5, <2>1, <2>2, <2>3 DEF RecoverInstall, TypeOK
  <1>6. ASSUME NEW p \in Procs, RecoverUninstall(p)
        PROVE  TypeOK'
    <2>1. current' \in [Procs -> Versions \cup {"none"}]
      BY <1>6 DEF RecoverUninstall, Intact, TypeOK
    <2>2. /\ pc' \in [Procs -> PCs]
          /\ result' \in [Procs -> {"none", "ok", "committed", "conflict", "error"}]
      BY <1>6 DEF RecoverUninstall, TypeOK
    <2>3. QED
      BY <1>6, <2>1, <2>2 DEF RecoverUninstall, TypeOK
  <1>7. ASSUME NEW p \in Procs, SyncRecovery(p)
        PROVE  TypeOK'
    BY <1>7 DEF SyncRecovery, SyncDirectory, Keep, TypeOK
  <1>8. ASSUME NEW p \in Procs, Examine(p)
        PROVE  TypeOK'
    BY <1>8 DEF Examine, Intact, TypeOK
  <1>9. ASSUME NEW p \in Procs, Swap(p)
        PROVE  TypeOK'
    <2>1. dir' \in Directories /\ survivable' \in SUBSET Directories
      BY <1>0, <1>9, RenameType DEF Swap, Keep, TypeOK
    <2>2. pc' \in [Procs -> PCs] /\ installed' \in BOOLEAN
      BY <1>9 DEF Swap, TypeOK
    <2>3. result' \in [Procs -> {"none", "ok", "committed", "conflict", "error"}]
      BY <1>9 DEF Swap, TypeOK
    <2>4. QED
      BY <1>9, <2>1, <2>2, <2>3 DEF Swap, TypeOK
  <1>10. ASSUME NEW p \in Procs, Verify(p)
         PROVE  TypeOK'
    <2>1. dir' \in Directories /\ survivable' \in SUBSET Directories
      BY <1>0, <1>10, RenameType DEF Verify, Keep, TypeOK
    <2>2. pc' \in [Procs -> PCs]
      BY <1>10 DEF Verify, TypeOK
    <2>3. result' \in [Procs -> {"none", "ok", "committed", "conflict", "error"}]
      BY <1>10 DEF Verify, TypeOK
    <2>4. QED
      BY <1>10, <2>1, <2>2, <2>3 DEF Verify, TypeOK
  <1>11. ASSUME NEW p \in Procs, Publish(p)
         PROVE  TypeOK'
    <2>1. [dir EXCEPT !["dest"] = version[p]] \in Directories
      BY <1>0, EditsAreDirectories DEF TypeOK
    <2>2. dir' \in Directories /\ survivable' \in SUBSET Directories
      BY <1>0, <1>11, <2>1, RenameType, ChangeType DEF Publish, Keep, TypeOK
    <2>3. pc' \in [Procs -> PCs]
      BY <1>11 DEF Publish, TypeOK
    <2>4. result' \in [Procs -> {"none", "ok", "committed", "conflict", "error"}]
      BY <1>11 DEF Publish, TypeOK
    <2>5. QED
      BY <1>11, <2>2, <2>3, <2>4 DEF Publish, TypeOK
  <1>12. ASSUME NEW p \in Procs, Clean(p)
         PROVE  TypeOK'
    <2>1. /\ [dir EXCEPT ![Aside(p)] = "partial"] \in Directories
          /\ [dir EXCEPT ![Aside(p)] = "none"] \in Directories
      BY <1>0, EditsAreDirectories DEF TypeOK
    <2>2. dir' \in Directories /\ survivable' \in SUBSET Directories
      BY <1>12, <2>1, ChangeType DEF Clean, Keep, TypeOK
    <2>3. pc' \in [Procs -> PCs]
      BY <1>12 DEF Clean, TypeOK
    <2>4. result' \in [Procs -> {"none", "ok", "committed", "conflict", "error"}]
      BY <1>12 DEF Clean, TypeOK
    <2>5. QED
      BY <1>12, <2>2, <2>3, <2>4 DEF Clean, TypeOK
  <1>13. ASSUME NEW p \in Procs, SyncParent(p)
         PROVE  TypeOK'
    BY <1>13 DEF SyncParent, SyncDirectory, Keep, Installed, TypeOK
  <1>14. ASSUME NEW p \in Procs, ReleaseLock(p)
         PROVE  TypeOK'
    BY <1>14, ExitType DEF ReleaseLock, TypeOK
  <1>15. ASSUME NEW p \in Procs, Crash(p)
         PROVE  TypeOK'
    BY <1>15, ExitType DEF Crash, TypeOK
  <1>16. CASE Meddle
    <2>1. /\ [dir EXCEPT !["dest"] = "foreign"] \in Directories
          /\ \A place \in Places : [dir EXCEPT ![place] = "none"] \in Directories
      BY <1>0, EditsAreDirectories DEF TypeOK
    <2>2. dir' \in Directories /\ survivable' \in SUBSET Directories
      BY <1>16, <2>1, ChangeType DEF Meddle
    <2>3. meddled' \in 0 .. MaxMeddle
      BY <1>16, BoundsAssumption DEF Meddle, TypeOK
    <2>4. QED
      BY <1>16, <2>2, <2>3 DEF Meddle, TypeOK, local
  <1>17. CASE PowerLoss
    BY <1>17 DEF PowerLoss, TypeOK
  <1>18. CASE UNCHANGED vars
    BY <1>18 DEF vars, local, TypeOK
  <1>19. ASSUME NEW p \in Procs, UnlockFails(p)
         PROVE  TypeOK'
    BY <1>19 DEF UnlockFails, TypeOK
  <1>20. QED
    BY <1>1, <1>2, <1>3, <1>4, <1>5, <1>6, <1>7, <1>8, <1>9, <1>10, <1>11, <1>12,
       <1>13, <1>14, <1>15, <1>16, <1>17, <1>18, <1>19 DEF Next, Step

\* The program starts with well-typed variables.
LEMMA InitType == Init => TypeOK
  <1> SUFFICES ASSUME Init
               PROVE  TypeOK
    OBVIOUS
  <1>1. Empty \in Directories
    BY EditsAreDirectories
  <1>2. /\ pc \in [Procs -> PCs]
        /\ op \in [Procs -> {"install", "uninstall"}]
        /\ current \in [Procs -> Versions \cup {"none"}]
        /\ result \in [Procs -> {"none", "ok", "committed", "conflict", "error"}]
    BY DEF Init, PCs
  <1>3. dir \in Directories /\ survivable \in SUBSET Directories
    BY <1>1 DEF Init
  <1>4. meddled = 0 /\ installed = FALSE
    BY DEF Init
  <1>5. meddled \in 0 .. MaxMeddle
    BY <1>4, BoundsAssumption
  <1>6. installed \in BOOLEAN
    BY <1>4
  <1>7. QED
    BY <1>2, <1>3, <1>5, <1>6 DEF Init, TypeOK

\* Every variable always has its type, for any processes, versions and bounds: the
\* model's account of skills/skills.go:143-290 is well formed.
THEOREM TypeCorrect == Spec => []TypeOK
  <1>1. QED
    BY InitType, TypeStep, PTL DEF Spec

-----------------------------------------------------------------------------
(* The lock, and what a step leaves alone *)

\* Only the holder of the lock is past it, whatever steps are taken.
LEMMA LockStep == TypeOK /\ LockHeld /\ [Next]_vars => LockHeld'
  <1> SUFFICES ASSUME TypeOK, LockHeld, [Next]_vars
               PROVE  LockHeld'
    OBVIOUS
  <1> USE ProcsAssumption DEF LockHeld, Outside, TypeOK, Goto, Return, Exit, store
  <1>1. ASSUME NEW p \in Procs, BeginInstall(p) \/ BeginUninstall(p)
        PROVE  LockHeld'
    BY <1>1 DEF BeginInstall, BeginUninstall
  <1>2. ASSUME NEW p \in Procs, AcquireLock(p) \/ GiveUpLock(p)
        PROVE  LockHeld'
    BY <1>2 DEF AcquireLock, GiveUpLock
  <1>3. ASSUME NEW p \in Procs, RecoverInstall(p) \/ RecoverUninstall(p) \/ SyncRecovery(p)
        PROVE  LockHeld'
    BY <1>3 DEF RecoverInstall, RecoverUninstall, SyncRecovery
  <1>4. ASSUME NEW p \in Procs, Examine(p) \/ Swap(p) \/ Verify(p)
        PROVE  LockHeld'
    BY <1>4 DEF Examine, Swap, Verify
  <1>5. ASSUME NEW p \in Procs, Publish(p) \/ Clean(p) \/ SyncParent(p)
        PROVE  LockHeld'
    BY <1>5 DEF Publish, Clean, SyncParent
  <1>6. ASSUME NEW p \in Procs, UnlockFails(p) \/ ReleaseLock(p) \/ Crash(p)
        PROVE  LockHeld'
    BY <1>6 DEF UnlockFails, ReleaseLock, Crash
  <1>7. CASE Meddle \/ PowerLoss \/ UNCHANGED vars
    BY <1>7 DEF Meddle, PowerLoss, vars, local
  <1>8. QED
    BY <1>1, <1>2, <1>3, <1>4, <1>5, <1>6, <1>7 DEF Next, Step

\* Of a process without the lock nothing is asked.
LEMMA OutsideOK == \A p \in Procs : pc'[p] \in Outside => StageOK(p)'
  BY DEF Outside, StageOK, Installing, NoBackup, AsideOK, Owned, Kept

\* After a step of the holder only the holder has to be looked at.
LEMMA HolderStep ==
  ASSUME TypeOK, LockHeld, NEW p \in Procs, pc[p] \notin Outside,
         NEW stage \in PCs, Goto(p, stage), StageOK(p)'
  PROVE  \A q \in Procs : StageOK(q)'
  <1> SUFFICES ASSUME NEW q \in Procs, q # p
               PROVE  StageOK(q)'
    OBVIOUS
  <1>1. pc[q] \in Outside
    BY DEF LockHeld
  <1>2. pc'[q] = pc[q]
    BY DEF Goto, TypeOK
  <1>3. QED
    BY <1>1, <1>2, OutsideOK

\* The states a power loss may leave stay sound when the new state is.
LEMMA SoundStep ==
  ASSUME \A d \in survivable \cup {dir} : Sound(d),
         installed' => installed,
         survivable' \subseteq survivable \cup {dir, dir'},
         Sound(dir)'
  PROVE  (\A d \in survivable \cup {dir} : Sound(d))'
  BY DEF Sound

-----------------------------------------------------------------------------
(* The holder's steps, one by one *)

\* What is known of the directories as they are.
LEMMA SeenIsSound == IInv => Sound(dir)
  BY DEF IInv

\* A recovery leaves no backup, or a finished install.
LEMMA RecoverSafe ==
  ASSUME IInv, NEW p \in Procs, RecoverInstall(p)
  PROVE  StageOK(p)' /\ (\A d \in survivable \cup {dir} : Sound(d))'
  <1> USE DEF Goto, Return
  <1>1. TypeOK /\ Sound(dir) /\ pc[p] = "recover" /\ op[p] = "install"
        /\ installed' = installed /\ op' = op
    BY SeenIsSound DEF IInv, RecoverInstall, history
  <1>2. CASE Intact(dir["previous"]) /\ Rename("previous", "dest") /\ Goto(p, "restored")
    <2>1. dir' = [dir EXCEPT !["dest"] = dir["previous"], !["previous"] = "none"]
          /\ survivable' = survivable \cup {dir'}
      BY <1>2 DEF Rename, Change
    <2>2. dir'["dest"] = dir["previous"] /\ dir'["previous"] = "none"
      BY <1>1, <2>1 DEF TypeOK, Directories, Places
    <2>3. pc'[p] = "restored"
      BY <1>1, <1>2 DEF TypeOK
    <2>4. StageOK(p)'
      BY <1>1, <2>2, <2>3 DEF StageOK, Installing, NoBackup, AsideOK, Owned, Kept
    <2>5. Sound(dir)'
      BY <1>2, <2>2, VersionsAssumption DEF Sound, Intact
    <2>6. QED
      BY <1>1, <2>1, <2>4, <2>5, SoundStep DEF IInv
  <1>3. CASE /\ Keep
             /\ \/ dir["previous"] = "none" /\ Goto(p, "examine")
                \/ /\ Intact(dir["previous"]) /\ dir["dest"] = version[p]
                   /\ Goto(p, "reclean")
                \/ Goto(p, "release")
    <2>1. dir' = dir /\ survivable' = survivable
      BY <1>3 DEF Keep
    <2>2. \/ pc'[p] = "examine" /\ dir["previous"] = "none"
          \/ /\ pc'[p] = "reclean" /\ Intact(dir["dest"])
             /\ dir["previous"] # "foreign"
          \/ pc'[p] = "release"
      BY <1>1, <1>3, VersionsAssumption DEF TypeOK, Intact
    <2>3. Owned(p)'
      BY <1>1, <2>1, <2>2 DEF Owned, Aside
    <2>4. StageOK(p)'
      BY <1>1, <2>1, <2>2, <2>3 DEF StageOK, Installing, NoBackup, AsideOK, Kept
    <2>5. Sound(dir)'
      BY <1>1, <2>1 DEF Sound
    <2>6. QED
      BY <1>1, <2>1, <2>4, <2>5, SoundStep DEF IInv
  <1>4. QED
    BY <1>2, <1>3 DEF RecoverInstall

\* The tree that is moved aside is the one that was verified, so it is found again.
LEMMA SwapSafe ==
  ASSUME IInv, NEW p \in Procs, Swap(p)
  PROVE  StageOK(p)' /\ (\A d \in survivable \cup {dir} : Sound(d))'
  <1> USE DEF Goto, Return
  <1>1. TypeOK /\ Sound(dir) /\ StageOK(p) /\ pc[p] = "swap"
        /\ op' = op /\ current' = current /\ op[p] \in {"install", "uninstall"}
    BY SeenIsSound DEF IInv, Swap, TypeOK
  <1>2. CASE /\ op[p] = "install" /\ dir["previous"] = "none" /\ dir["dest"] = "none"
             /\ Goto(p, "publish") /\ Keep /\ UNCHANGED installed
    <2>1. dir' = dir /\ survivable' = survivable /\ pc'[p] = "publish"
          /\ installed' = installed
      BY <1>1, <1>2 DEF Keep, TypeOK
    <2>2. ~installed
      BY <1>1, <1>2, VersionsAssumption DEF Sound, Intact
    <2>3. StageOK(p)'
      BY <1>1, <1>2, <2>1, <2>2 DEF StageOK, Installing, NoBackup, AsideOK, Owned, Kept, Aside
    <2>4. Sound(dir)'
      BY <1>1, <2>1 DEF Sound
    <2>5. QED
      BY <2>1, <2>3, <2>4, SoundStep DEF IInv
  <1>3. CASE /\ current[p] # "none" /\ Rename("dest", Aside(p))
             /\ installed' = (installed /\ op[p] = "install")
             /\ Goto(p, "verify")
    <2>1. dir' = [dir EXCEPT ![Aside(p)] = dir["dest"], !["dest"] = "none"]
          /\ survivable' = survivable \cup {dir'}
      BY <1>3 DEF Rename, Change
    <2>2. dir'["dest"] = "none" /\ dir'[Aside(p)] = dir["dest"]
      BY <1>1, <2>1 DEF TypeOK, Directories, Places, Aside
    <2>3. pc'[p] = "verify" /\ (installed' => installed /\ op[p] = "install")
      BY <1>1, <1>3 DEF TypeOK
    <2>4. installed' => Intact(dir["dest"]) /\ Aside(p) = "previous"
      BY <1>1, <1>3, <2>3 DEF StageOK, Kept, Intact, TypeOK, Aside
    <2>5. dir["dest"] # "partial" /\ Aside(p)' = Aside(p)
      BY <1>1 DEF Sound, Aside
    <2>6. AsideOK(p)' /\ Kept(p)'
      BY <1>1, <2>2, <2>3, <2>4, <2>5 DEF AsideOK, Kept
    <2>7. StageOK(p)'
      BY <2>3, <2>6 DEF StageOK, Installing, NoBackup, Owned
    <2>8. Sound(dir)'
      BY <2>2, <2>4 DEF Sound
    <2>9. QED
      BY <2>1, <2>3, <2>7, <2>8, SoundStep DEF IInv
  <1>4. CASE Goto(p, "release") /\ Keep /\ UNCHANGED installed
    <2>1. dir' = dir /\ survivable' = survivable /\ pc'[p] = "release"
          /\ installed' = installed
      BY <1>1, <1>4 DEF Keep, TypeOK
    <2>2. StageOK(p)'
      BY <2>1 DEF StageOK, Installing, NoBackup, AsideOK, Owned, Kept
    <2>3. Sound(dir)'
      BY <1>1, <2>1 DEF Sound
    <2>4. QED
      BY <2>1, <2>2, <2>3, SoundStep DEF IInv
  <1>5. QED
    BY <1>2, <1>3, <1>4 DEF Swap

\* A step that leaves the directories alone, or syncs them, keeps every state sound.
LEMMA StillSound ==
  ASSUME IInv, Keep \/ SyncDirectory, installed' = installed
  PROVE  (\A d \in survivable \cup {dir} : Sound(d))'
  <1>1. dir' = dir /\ survivable' \subseteq survivable \cup {dir}
    BY DEF Keep, SyncDirectory
  <1>2. Sound(dir)'
    BY <1>1, SeenIsSound DEF Sound
  <1>3. QED
    BY <1>1, <1>2, SoundStep DEF IInv

\* The steps that only look at the directories, or sync them.
LEMMA LookSafe ==
  ASSUME IInv, NEW p \in Procs, RecoverUninstall(p) \/ SyncRecovery(p) \/ Examine(p)
  PROVE  StageOK(p)' /\ (\A d \in survivable \cup {dir} : Sound(d))'
  <1> USE DEF Goto, Return
  <1>1. TypeOK /\ StageOK(p) /\ op' = op /\ installed' = installed
        /\ (Keep \/ SyncDirectory) /\ dir' = dir
    BY DEF IInv, RecoverUninstall, SyncRecovery, Examine, Keep, SyncDirectory,
           store, history
  <1>2. (\A d \in survivable \cup {dir} : Sound(d))'
    BY <1>1, StillSound
  <1>3. CASE RecoverUninstall(p)
    <2>1. op[p] # "install" /\ pc'[p] \in {"examine", "clean", "release"}
      BY <1>1, <1>3 DEF RecoverUninstall, TypeOK
    <2>2. pc'[p] = "clean" => dir["removing"] # "foreign"
      BY <1>1, <1>3, VersionsAssumption DEF RecoverUninstall, TypeOK, Intact
    <2>3. Owned(p)'
      BY <1>1, <2>1, <2>2 DEF Owned, Aside
    <2>4. StageOK(p)'
      BY <1>1, <2>1, <2>3 DEF StageOK, Installing, NoBackup, AsideOK, Kept
    <2>5. QED
      BY <1>2, <2>4
  <1>4. CASE SyncRecovery(p)
    <2>1. pc[p] \in {"restored", "recleaned"} /\ pc'[p] \in {"examine", "release"}
      BY <1>1, <1>4 DEF SyncRecovery, TypeOK
    <2>2. StageOK(p)'
      BY <1>1, <2>1 DEF StageOK, Installing, NoBackup, AsideOK, Owned, Kept
    <2>3. QED
      BY <1>2, <2>2
  <1>5. CASE Examine(p)
    <2>1. /\ pc[p] = "examine" /\ pc'[p] \in {"sync", "swap", "release"}
          /\ pc'[p] = "swap" => current'[p] = dir["dest"]
      BY <1>1, <1>5 DEF Examine, TypeOK
    <2>2. StageOK(p)'
      BY <1>1, <2>1 DEF StageOK, Installing, NoBackup, AsideOK, Owned, Kept
    <2>3. QED
      BY <1>2, <2>2
  <1>6. QED
    BY <1>3, <1>4, <1>5

\* A tree is moved back only when it is complete.
LEMMA VerifySafe ==
  ASSUME IInv, NEW p \in Procs, Verify(p)
  PROVE  StageOK(p)' /\ (\A d \in survivable \cup {dir} : Sound(d))'
  <1> USE DEF Goto, Return
  <1>1. TypeOK /\ Sound(dir) /\ StageOK(p) /\ pc[p] = "verify"
        /\ op' = op /\ current' = current /\ op[p] \in {"install", "uninstall"}
        /\ installed' = installed
    BY SeenIsSound DEF IInv, Verify, TypeOK, history
  <1>2. CASE /\ dir[Aside(p)] = current[p] /\ Keep
             /\ Goto(p, IF op[p] = "install" THEN "publish" ELSE "clean")
    <2>1. dir' = dir /\ pc'[p] = IF op[p] = "install" THEN "publish" ELSE "clean"
      BY <1>1, <1>2 DEF Keep, TypeOK
    <2>2. AsideOK(p)'
      BY <1>1, <2>1 DEF StageOK, AsideOK, Aside
    <2>3. installed => current[p] # "none"
      BY <1>1, <1>2, VersionsAssumption DEF StageOK, Kept, Aside, Intact
    <2>4. Kept(p)'
      BY <1>1, <2>1, <2>3 DEF StageOK, Kept, Intact
    <2>5. Owned(p)'
      BY <1>1, <1>2, <2>1, VersionsAssumption DEF Owned, Aside, TypeOK
    <2>6. StageOK(p)'
      BY <1>1, <2>1, <2>2, <2>4, <2>5 DEF StageOK, Installing, NoBackup
    <2>7. QED
      BY <1>1, <1>2, <2>6, StillSound
  <1>3. CASE Goto(p, "release") /\ Rename(Aside(p), "dest")
    <2>1. dir' = [dir EXCEPT !["dest"] = dir[Aside(p)], ![Aside(p)] = "none"]
          /\ survivable' = survivable \cup {dir'}
      BY <1>3 DEF Rename, Change
    <2>2. dir'["dest"] = dir[Aside(p)] /\ pc'[p] = "release"
      BY <1>1, <1>3, <2>1 DEF TypeOK, Directories, Places, Aside
    <2>3. Sound(dir)'
      BY <1>1, <2>2 DEF Sound, StageOK, AsideOK, Kept, Aside
    <2>4. StageOK(p)'
      BY <2>2 DEF StageOK, Installing, NoBackup, AsideOK, Owned, Kept
    <2>5. QED
      BY <1>1, <2>1, <2>3, <2>4, SoundStep DEF IInv
  <1>4. CASE Goto(p, "release") /\ Keep
    <2>1. pc'[p] = "release"
      BY <1>1, <1>4 DEF TypeOK
    <2>2. StageOK(p)'
      BY <2>1 DEF StageOK, Installing, NoBackup, AsideOK, Owned, Kept
    <2>3. QED
      BY <1>1, <1>4, <2>2, StillSound
  <1>5. QED
    BY <1>2, <1>3, <1>4 DEF Verify

\* What becomes the destination is the staged tree, or the backup as it was verified.
LEMMA PublishSafe ==
  ASSUME IInv, NEW p \in Procs, Publish(p)
  PROVE  StageOK(p)' /\ (\A d \in survivable \cup {dir} : Sound(d))'
  <1> USE DEF Goto, Return
  <1>1. TypeOK /\ Sound(dir) /\ StageOK(p) /\ pc[p] = "publish" /\ op[p] = "install"
        /\ op' = op /\ current' = current /\ installed' = installed
    BY SeenIsSound DEF IInv, Publish, StageOK, Installing, history
  <1>2. CASE /\ Change([dir EXCEPT !["dest"] = version[p]])
             /\ Goto(p, IF current[p] = "none" THEN "sync" ELSE "clean")
    <2>1. dir' = [dir EXCEPT !["dest"] = version[p]]
          /\ survivable' = survivable \cup {dir'}
      BY <1>2 DEF Change
    <2>2. Intact(dir'["dest"]) /\ pc'[p] \in {"sync", "clean"}
      BY <1>1, <1>2, <2>1 DEF TypeOK, Directories, Places, Intact
    <2>3. Sound(dir)'
      BY <2>2, VersionsAssumption DEF Sound, Intact
    <2>4. dir'["previous"] = dir["previous"]
      BY <1>1, <2>1 DEF TypeOK, Directories, Places
    <2>5. Owned(p)'
      BY <1>1, <2>4 DEF StageOK, Owned, Aside
    <2>6. StageOK(p)'
      BY <2>2, <2>5 DEF StageOK, Installing, NoBackup, AsideOK, Kept
    <2>7. QED
      BY <1>1, <2>1, <2>3, <2>6, SoundStep DEF IInv
  <1>3. CASE Goto(p, "release") /\ Rename("previous", "dest")
    <2>1. dir' = [dir EXCEPT !["dest"] = dir["previous"], !["previous"] = "none"]
          /\ survivable' = survivable \cup {dir'}
      BY <1>3 DEF Rename, Change
    <2>2. dir'["dest"] = dir["previous"] /\ pc'[p] = "release"
      BY <1>1, <1>3, <2>1 DEF TypeOK, Directories, Places
    <2>3. Sound(dir)'
      BY <1>1, <2>2 DEF Sound, StageOK, AsideOK, Kept, Aside
    <2>4. StageOK(p)'
      BY <2>2 DEF StageOK, Installing, NoBackup, AsideOK, Owned, Kept
    <2>5. QED
      BY <1>1, <2>1, <2>3, <2>4, SoundStep DEF IInv
  <1>4. CASE Goto(p, "release") /\ Keep
    <2>1. pc'[p] = "release"
      BY <1>1, <1>4 DEF TypeOK
    <2>2. StageOK(p)'
      BY <2>1 DEF StageOK, Installing, NoBackup, AsideOK, Owned, Kept
    <2>3. QED
      BY <1>1, <1>4, <2>2, StillSound
  <1>5. QED
    BY <1>2, <1>3, <1>4 DEF Publish

\* Only what was moved aside is removed; the destination is not touched.
LEMMA CleanSafe ==
  ASSUME IInv, NEW p \in Procs, Clean(p)
  PROVE  StageOK(p)' /\ (\A d \in survivable \cup {dir} : Sound(d))'
  <1> USE DEF Goto, Return
  <1>1. TypeOK /\ Sound(dir) /\ StageOK(p) /\ pc[p] \in {"clean", "reclean"}
        /\ op' = op /\ current' = current /\ op[p] \in {"install", "uninstall"}
        /\ installed' = installed
    BY SeenIsSound DEF IInv, Clean, TypeOK, history
  <1>2. /\ pc[p] = "reclean" => op[p] = "install"
        /\ installed /\ op[p] = "install" => Intact(dir["dest"])
    BY <1>1 DEF StageOK, Installing, Kept
  <1>3. ASSUME NEW rest \in {"partial", "none"}, Change([dir EXCEPT ![Aside(p)] = rest])
        PROVE  /\ (\A d \in survivable \cup {dir} : Sound(d))'
               /\ dir'["dest"] = dir["dest"] /\ dir'[Aside(p)] = rest
    <2>1. dir' = [dir EXCEPT ![Aside(p)] = rest] /\ survivable' = survivable \cup {dir'}
      BY <1>3 DEF Change
    <2>2. dir'["dest"] = dir["dest"] /\ dir'[Aside(p)] = rest
      BY <1>1, <2>1 DEF TypeOK, Directories, Places, Aside
    <2>3. op[p] = "uninstall" => dir'["previous"] = dir["previous"]
      BY <1>1, <2>1 DEF TypeOK, Directories, Places, Aside
    <2>4. Sound(dir)'
      BY <1>1, <1>2, <2>2, <2>3 DEF Sound
    <2>5. QED
      BY <1>1, <2>1, <2>2, <2>4, SoundStep DEF IInv
  <1>4. CASE Change([dir EXCEPT ![Aside(p)] = "partial"]) /\ UNCHANGED pc
    <2>1. dir'["dest"] = dir["dest"] /\ dir'[Aside(p)] # "foreign"
      BY <1>3, <1>4
    <2>2. Owned(p)'
      BY <1>1, <2>1 DEF Owned, Aside
    <2>3. StageOK(p)'
      BY <1>1, <1>2, <1>4, <2>1, <2>2 DEF StageOK, Installing, NoBackup, AsideOK, Kept
    <2>4. QED
      BY <1>3, <1>4, <2>3
  <1>5. CASE /\ Change([dir EXCEPT ![Aside(p)] = "none"])
             /\ Goto(p, IF pc[p] = "clean" THEN "sync" ELSE "recleaned")
    <2>1. dir'[Aside(p)] = "none"
      BY <1>3, <1>5
    <2>2. pc'[p] \in {"sync", "recleaned"} /\ (pc'[p] = "recleaned" => pc[p] = "reclean")
      BY <1>1, <1>5 DEF TypeOK
    <2>3. StageOK(p)'
      BY <1>1, <1>2, <2>1, <2>2 DEF StageOK, Installing, NoBackup, AsideOK, Owned, Kept, Aside
    <2>4. QED
      BY <1>3, <1>5, <2>3
  <1>6. CASE Goto(p, "release") /\ Keep
    <2>1. pc'[p] = "release"
      BY <1>1, <1>6 DEF TypeOK
    <2>2. StageOK(p)'
      BY <2>1 DEF StageOK, Installing, NoBackup, AsideOK, Owned, Kept
    <2>3. QED
      BY <1>1, <1>6, <2>2, StillSound
  <1>7. QED
    BY <1>4, <1>5, <1>6 DEF Clean

\* An install is recorded as done when its tree is there and on disk.
LEMMA SyncSafe ==
  ASSUME IInv, NEW p \in Procs, SyncParent(p)
  PROVE  StageOK(p)' /\ (\A d \in survivable \cup {dir} : Sound(d))'
  <1>1. TypeOK /\ Sound(dir) /\ pc'[p] = "release" /\ dir' = dir
    BY SeenIsSound DEF IInv, TypeOK, SyncParent, SyncDirectory, Keep, Return, Goto
  <1>2. StageOK(p)'
    BY <1>1 DEF StageOK, Installing, NoBackup, AsideOK, Owned, Kept
  <1>3. CASE SyncDirectory /\ installed' = Installed(p)
    <2>1. survivable' = {dir} /\ (installed' => Intact(dir["dest"]))
      BY <1>3 DEF SyncDirectory, Installed
    <2>2. (\A d \in survivable \cup {dir} : Sound(d))'
      BY <1>1, <2>1 DEF Sound
    <2>3. QED
      BY <1>2, <2>2
  <1>4. CASE Keep /\ UNCHANGED installed
    BY <1>2, <1>4, StillSound
  <1>5. QED
    BY <1>3, <1>4 DEF SyncParent

\* Nothing that is known of a tree to be kept survives the user's hand; but what the
\* user does leaves no rest of a removal in the destination.
LEMMA MeddleSafe ==
  ASSUME IInv, Meddle
  PROVE  /\ \A p \in Procs : StageOK(p)'
         /\ (\A d \in survivable \cup {dir} : Sound(d))'
  <1>1. TypeOK /\ Sound(dir) /\ ~installed' /\ pc' = pc /\ op' = op /\ current' = current
        /\ \A p \in Procs : StageOK(p)
    BY SeenIsSound DEF IInv, Meddle, local
  <1>2. PICK place \in Places, content \in {"foreign", "none"} :
          /\ content = "foreign" => place = "dest"
          /\ Change([dir EXCEPT ![place] = content])
    BY DEF Meddle, Places
  <1>3. dir' = [dir EXCEPT ![place] = content] /\ survivable' = survivable \cup {dir'}
    BY <1>2 DEF Change
  <1>4. \A at \in Places : dir'[at] = IF at = place THEN content ELSE dir[at]
    BY <1>1, <1>3 DEF TypeOK, Directories
  <1>5. Sound(dir)'
    BY <1>1, <1>4 DEF Sound, Places
  <1>6. ASSUME NEW p \in Procs
        PROVE  StageOK(p)'
    <2>1. "previous" \in Places /\ Aside(p) \in Places /\ Aside(p)' = Aside(p)
          /\ Aside(p) # "dest"
      BY <1>1 DEF Places, Aside
    <2>2. Installing(p)' /\ NoBackup(p)'
      BY <1>1, <1>2, <1>4, <2>1 DEF StageOK, Installing, NoBackup
    <2>3. AsideOK(p)' /\ Owned(p)'
      BY <1>1, <1>2, <1>4, <2>1 DEF StageOK, AsideOK, Owned
    <2>4. QED
      BY <1>1, <2>2, <2>3 DEF StageOK, Kept
  <1>7. QED
    BY <1>1, <1>3, <1>5, <1>6, SoundStep DEF IInv

-----------------------------------------------------------------------------
(* The invariant, and what follows from it *)

\* A step of the lock holder that looks after its own stage looks after all.
LEMMA HolderSafe ==
  ASSUME IInv, TypeOK', LockHeld', NEW p \in Procs, pc[p] \notin Outside,
         NEW stage \in PCs, Goto(p, stage),
         StageOK(p)', (\A d \in survivable \cup {dir} : Sound(d))'
  PROVE  IInv'
  <1>1. \A q \in Procs : StageOK(q)'
    BY HolderStep DEF IInv
  <1>2. QED
    BY <1>1 DEF IInv

\* A process that is outside after its step changes nothing that matters.
LEMMA OutsideSafe ==
  ASSUME IInv, TypeOK', LockHeld', UNCHANGED <<dir, survivable, installed>>,
         \A p \in Procs : pc'[p] \in Outside \/ pc'[p] = "recover"
                          \/ UNCHANGED <<pc[p], op[p], current[p]>>
  PROVE  IInv'
  <1>1. ASSUME NEW p \in Procs
        PROVE  StageOK(p)'
    <2>1. CASE pc'[p] \in Outside
      BY <2>1, OutsideOK
    <2>2. CASE pc'[p] = "recover"
      BY <2>2 DEF StageOK, Installing, NoBackup, AsideOK, Owned, Kept
    <2>3. CASE UNCHANGED <<pc[p], op[p], current[p]>>
      BY <2>3 DEF IInv, StageOK, Installing, NoBackup, AsideOK, Owned, Kept, Aside
    <2>4. QED
      BY <2>1, <2>2, <2>3
  <1>2. (\A d \in survivable \cup {dir} : Sound(d))'
    BY DEF IInv, Sound
  <1>3. QED
    BY <1>1, <1>2 DEF IInv

\* Every step preserves the invariant.
LEMMA IInvStep == IInv /\ [Next]_vars => IInv'
  <1> SUFFICES ASSUME IInv, [Next]_vars
               PROVE  IInv'
    OBVIOUS
  <1>0. TypeOK /\ LockHeld /\ TypeOK' /\ LockHeld'
    BY TypeStep, LockStep DEF IInv
  <1> USE <1>0
  <1>1. ASSUME NEW p \in Procs, BeginInstall(p) \/ BeginUninstall(p) \/ AcquireLock(p)
        PROVE  IInv'
    BY <1>1, OutsideSafe DEF BeginInstall, BeginUninstall, AcquireLock, TypeOK,
       Goto, Outside, store, history
  <1>2. ASSUME NEW p \in Procs, GiveUpLock(p) \/ ReleaseLock(p) \/ Crash(p)
        PROVE  IInv'
    BY <1>2, OutsideSafe DEF GiveUpLock, ReleaseLock, Crash, TypeOK, Exit, Goto, Outside,
       store, history
  <1>3. ASSUME NEW p \in Procs, RecoverInstall(p)
        PROVE  IInv'
    <2>1. pc[p] \notin Outside /\ \E stage \in PCs : Goto(p, stage)
      BY <1>3 DEF RecoverInstall, Outside, Return, PCs
    <2>2. QED
      BY <1>3, <2>1, RecoverSafe, HolderSafe
  <1>4. ASSUME NEW p \in Procs, RecoverUninstall(p) \/ SyncRecovery(p) \/ Examine(p)
        PROVE  IInv'
    <2>1. pc[p] \notin Outside /\ \E stage \in PCs : Goto(p, stage)
      BY <1>4 DEF RecoverUninstall, SyncRecovery, Examine, Outside, Return, PCs
    <2>2. QED
      BY <1>4, <2>1, LookSafe, HolderSafe
  <1>5. ASSUME NEW p \in Procs, Swap(p)
        PROVE  IInv'
    <2>1. pc[p] \notin Outside /\ \E stage \in PCs : Goto(p, stage)
      BY <1>5 DEF Swap, Outside, Return, PCs
    <2>2. QED
      BY <1>5, <2>1, SwapSafe, HolderSafe
  <1>6. ASSUME NEW p \in Procs, Verify(p)
        PROVE  IInv'
    <2>1. pc[p] \notin Outside /\ \E stage \in PCs : Goto(p, stage)
      BY <1>6 DEF Verify, Outside, Return, PCs
    <2>2. QED
      BY <1>6, <2>1, VerifySafe, HolderSafe
  <1>7. ASSUME NEW p \in Procs, Publish(p)
        PROVE  IInv'
    <2>1. pc[p] \notin Outside /\ \E stage \in PCs : Goto(p, stage)
      BY <1>7 DEF Publish, Outside, Return, PCs
    <2>2. QED
      BY <1>7, <2>1, PublishSafe, HolderSafe
  <1>8. ASSUME NEW p \in Procs, Clean(p)
        PROVE  IInv'
    <2>1. pc[p] \notin Outside /\ \E stage \in PCs : Goto(p, stage)
      <3>1. CASE UNCHANGED pc
        BY <1>8, <3>1 DEF Clean, Outside, Goto, TypeOK
      <3>2. CASE \E stage \in PCs : Goto(p, stage)
        BY <1>8, <3>2 DEF Clean, Outside
      <3>3. QED
        BY <1>8, <3>1, <3>2 DEF Clean, Return, PCs
    <2>2. QED
      BY <1>8, <2>1, CleanSafe, HolderSafe
  <1>9. ASSUME NEW p \in Procs, SyncParent(p)
        PROVE  IInv'
    <2>1. pc[p] \notin Outside /\ \E stage \in PCs : Goto(p, stage)
      BY <1>9 DEF SyncParent, Outside, Return, PCs
    <2>2. QED
      BY <1>9, <2>1, SyncSafe, HolderSafe
  <1>10. CASE Meddle
    BY <1>10, MeddleSafe DEF IInv
  <1>11. CASE PowerLoss
    <2>1. \A p \in Procs : pc'[p] \in Outside
      BY <1>11 DEF PowerLoss, Outside
    <2>2. dir' \in survivable /\ survivable' = {dir'} /\ installed' = installed
      BY <1>11 DEF PowerLoss, history
    <2>3. (\A d \in survivable \cup {dir} : Sound(d))'
      BY <2>2 DEF IInv, Sound
    <2>4. QED
      BY <2>1, <2>3, OutsideOK DEF IInv
  <1>12. CASE UNCHANGED vars
    BY <1>12, OutsideSafe DEF vars, store, local, history
  <1>13. ASSUME NEW p \in Procs, UnlockFails(p)
         PROVE  IInv'
    BY <1>13, OutsideSafe DEF UnlockFails, store, history
  <1>14. QED
    BY <1>1, <1>2, <1>3, <1>4, <1>5, <1>6, <1>7, <1>8, <1>9, <1>10, <1>11, <1>12, <1>13
       DEF Next, Step

\* The invariant of the installer holds of any number of commands, of versions and of
\* user changes.
THEOREM Inductive == Spec => []IInv
  <1>1. Init => IInv
    <2> SUFFICES ASSUME Init
                 PROVE  IInv
      OBVIOUS
    <2>1. \A p \in Procs : pc[p] = "idle"
      BY DEF Init
    <2>2. LockHeld /\ \A p \in Procs : StageOK(p)
      BY <2>1, ProcsAssumption
         DEF Init, LockHeld, Outside, StageOK, Installing, NoBackup, AsideOK, Owned, Kept
    <2>3. dir = Empty /\ survivable = {Empty} /\ ~installed
      BY DEF Init
    <2>4. \A d \in survivable \cup {dir} : Sound(d)
      BY <2>3 DEF Sound, Empty, Places
    <2>5. QED
      BY <2>2, <2>4, InitType DEF IInv
  <1>2. QED
    BY <1>1, IInvStep, PTL DEF Spec

\* An agent never reads the rest of a removal as a Skill, now or after a power loss
\* (skills/skills.go:503-603): nothing but a complete tree is renamed to the destination,
\* and nothing is removed there.
THEOREM Complete == Spec => []VisibleIsComplete
  <1>1. IInv => VisibleIsComplete
    BY DEF IInv, VisibleIsComplete, Sound
  <1>2. QED
    BY <1>1, Inductive, PTL

\* A version that was installed with success is kept, under one of its two names, in
\* every state that a failure, a crash or a power loss leaves (skills/skills.go:506-541).
THEOREM Retained == Spec => []VersionKept
  <1>1. IInv => VersionKept
    BY DEF IInv, VersionKept, Sound
  <1>2. QED
    BY <1>1, Inductive, PTL

-----------------------------------------------------------------------------
(* What the user wrote *)

Fewer(before, after) == Cardinality(Foreign(after)) < Cardinality(Foreign(before))

\* There are finitely many foreign trees, so they can be counted.
LEMMA ForeignIsFinite ==
  ASSUME NEW d
  PROVE  IsFiniteSet(Foreign(d)) /\ Cardinality(Foreign(d)) \in Nat
  <1>1. IsFiniteSet({"dest"} \cup {"previous"} \cup {"removing"})
    BY FS_Singleton, FS_AddElement
  <1>2. Places = {"dest"} \cup {"previous"} \cup {"removing"}
    BY DEF Places
  <1>3. Foreign(d) \in SUBSET Places
    BY DEF Foreign
  <1>4. QED
    BY <1>1, <1>2, <1>3, FS_Subset, FS_CardinalityType

\* Where no foreign tree is overwritten, none is lost.
LEMMA UntouchedIsKept ==
  ASSUME NEW before, NEW after,
         \A place \in Places : before[place] = "foreign" => after[place] = "foreign"
  PROVE  ~Fewer(before, after)
  <1>1. Foreign(before) \in SUBSET Foreign(after)
    BY DEF Foreign
  <1>2. QED
    BY <1>1, ForeignIsFinite, FS_Subset DEF Fewer

\* A rename to a free name loses no tree.
LEMMA RenameKeeps ==
  ASSUME TypeOK, NEW from \in Places, NEW to \in Places, Rename(from, to)
  PROVE  ~Fewer(dir, dir')
  <1>1. /\ from # to /\ dir[to] = "none"
        /\ \A place \in Places :
             dir'[place] = IF place = from THEN "none"
                           ELSE IF place = to THEN dir[from] ELSE dir[place]
    BY DEF Rename, Change, TypeOK, Directories
  <1>2. CASE dir[from] = "foreign"
    <2>1. Foreign(dir') = (Foreign(dir) \ {from}) \cup {to}
      BY <1>1, <1>2 DEF Foreign
    <2>2. from \in Foreign(dir) /\ to \notin Foreign(dir)
      BY <1>1, <1>2 DEF Foreign
    <2>3. /\ IsFiniteSet(Foreign(dir) \ {from})
          /\ Cardinality(Foreign(dir) \ {from}) = Cardinality(Foreign(dir)) - 1
      BY <2>2, ForeignIsFinite, FS_RemoveElement
    <2>4. Cardinality(Foreign(dir')) = Cardinality(Foreign(dir) \ {from}) + 1
      BY <2>1, <2>2, <2>3, FS_AddElement
    <2>5. QED
      BY <2>3, <2>4, ForeignIsFinite DEF Fewer
  <1>3. CASE dir[from] # "foreign"
    BY <1>1, <1>3, UntouchedIsKept
  <1>4. QED
    BY <1>2, <1>3

\* No step of a command loses a foreign tree.
LEMMA StepKeeps ==
  ASSUME IInv, NEW p \in Procs, Step(p)
  PROVE  ~Fewer(dir, dir')
  <1>0. /\ TypeOK /\ StageOK(p) /\ Aside(p) \in Places
        /\ "dest" \in Places /\ "previous" \in Places
    BY DEF IInv, Aside, Places
  <1>1. CASE dir' = dir
    BY <1>1, UntouchedIsKept
  <1>2. CASE RecoverInstall(p)
    BY <1>0, <1>1, <1>2, RenameKeeps DEF RecoverInstall, Keep
  <1>3. CASE Swap(p)
    BY <1>0, <1>1, <1>3, RenameKeeps DEF Swap, Keep
  <1>4. CASE Verify(p)
    BY <1>0, <1>1, <1>4, RenameKeeps DEF Verify, Keep
  <1>5. CASE Publish(p)
    <2>1. CASE dir["dest"] = "none" /\ Change([dir EXCEPT !["dest"] = version[p]])
      <3>1. \A place \in Places : dir[place] = "foreign" => dir'[place] = "foreign"
        BY <1>0, <2>1 DEF Change, TypeOK, Directories
      <3>2. QED
        BY <3>1, UntouchedIsKept
    <2>2. QED
      BY <1>0, <1>1, <1>5, <2>1, RenameKeeps DEF Publish, Keep
  <1>6. CASE Clean(p)
    <2>1. dir[Aside(p)] # "foreign"
      BY <1>0, <1>6 DEF Clean, StageOK, Owned
    <2>2. ASSUME NEW rest, Change([dir EXCEPT ![Aside(p)] = rest])
          PROVE  \A place \in Places : dir[place] = "foreign" => dir'[place] = "foreign"
      BY <1>0, <2>1, <2>2 DEF Change, TypeOK, Directories
    <2>3. QED
      BY <1>1, <1>6, <2>2, UntouchedIsKept DEF Clean, Keep
  <1>7. CASE SyncRecovery(p) \/ SyncParent(p)
    BY <1>1, <1>7 DEF SyncRecovery, SyncParent, SyncDirectory, Keep
  <1>8. QED
    BY <1>1, <1>2, <1>3, <1>4, <1>5, <1>6, <1>7
       DEF Step, BeginInstall, BeginUninstall, AcquireLock, GiveUpLock, RecoverUninstall,
           Examine, UnlockFails, ReleaseLock, Crash, store

\* A command deletes nothing that the user wrote, whenever it appears: what is removed
\* was checked after it had been moved aside (skills/skills.go:264-272, 514-523).
THEOREM UserFilesSafe == Spec => UserFilesAreSafe
  <1>1. IInv /\ [Next]_vars
        => [meddled' = meddled /\ ~PowerLoss
              => Cardinality(Foreign(dir')) >= Cardinality(Foreign(dir))]_vars
    <2> SUFFICES ASSUME IInv, Next, meddled' = meddled, ~PowerLoss
                 PROVE  Cardinality(Foreign(dir')) >= Cardinality(Foreign(dir))
      OBVIOUS
    <2>1. ~Meddle
      BY DEF Meddle, IInv, TypeOK
    <2>2. ~Fewer(dir, dir')
      BY <2>1, StepKeeps DEF Next
    <2>3. QED
      BY <2>2, ForeignIsFinite DEF Fewer
  <1>2. QED
    BY <1>1, Inductive, PTL DEF Spec, UserFilesAreSafe

-----------------------------------------------------------------------------
(* What a command reports *)

Wanted(p) == IF op[p] = "install" THEN version[p] ELSE "none"

\* Where the user has changed nothing, the holder knows what is at the destination when
\* it comes to the steps that may end in a report of an applied change.
ReportOK(p) ==
  meddled = 0 =>
    /\ pc[p] = "verify" => dir["dest"] = "none"
    /\ pc[p] \in {"reclean", "recleaned", "clean", "sync"} => dir["dest"] = Wanted(p)
    /\ pc[p] = "release" /\ result[p] \in {"ok", "committed"} => dir["dest"] = Wanted(p)
    /\ pc[p] = "release" /\ result[p] = "ok" => survivable = {dir}

RInv == IInv /\ \A p \in Procs : ReportOK(p)

\* A recovery goes on when no backup is left or the destination is as wanted.
LEMMA RecoverReport ==
  ASSUME RInv, NEW p \in Procs,
         RecoverInstall(p) \/ RecoverUninstall(p) \/ SyncRecovery(p)
  PROVE  ReportOK(p)'
  <1> USE DEF Goto, Return
  <1>1. TypeOK /\ ReportOK(p) /\ Installing(p)
    BY DEF RInv, IInv, StageOK
  <1>2. CASE RecoverInstall(p)
    <2>1. /\ pc'[p] \in {"examine", "restored", "reclean", "release"} /\ op'[p] = "install"
          /\ version' = version
          /\ pc'[p] = "reclean" => dir' = dir /\ dir["dest"] = version[p]
          /\ pc'[p] = "release" => result'[p] \in {"conflict", "error"}
      <3>1. CASE Return(p, "conflict") \/ Return(p, "error")
        BY <1>1, <1>2, <3>1 DEF RecoverInstall, TypeOK
      <3>2. CASE Goto(p, "reclean") /\ Keep /\ dir["dest"] = version[p]
        BY <1>1, <1>2, <3>2 DEF RecoverInstall, Keep, TypeOK
      <3>3. CASE Goto(p, "examine") \/ Goto(p, "restored")
        BY <1>1, <1>2, <3>3 DEF RecoverInstall, TypeOK
      <3>4. QED
        BY <1>2, <3>1, <3>2, <3>3 DEF RecoverInstall
    <2>2. QED
      BY <2>1 DEF ReportOK, Wanted
  <1>3. CASE RecoverUninstall(p)
    <2>1. /\ pc'[p] \in {"examine", "clean", "release"} /\ op'[p] = "uninstall"
          /\ dir' = dir
          /\ pc'[p] = "clean" => dir["dest"] = "none"
          /\ pc'[p] = "release" => result'[p] \in {"conflict", "error"}
      BY <1>1, <1>3 DEF RecoverUninstall, TypeOK, store
    <2>2. QED
      BY <2>1 DEF ReportOK, Wanted
  <1>4. CASE SyncRecovery(p)
    <2>1. /\ pc'[p] \in {"examine", "release"} /\ dir' = dir /\ meddled' = meddled
          /\ Wanted(p)' = Wanted(p)
          /\ pc'[p] = "release" /\ pc[p] = "restored" => result'[p] = "error"
          /\ pc'[p] = "release" /\ pc[p] = "recleaned" => result'[p] = "committed"
          /\ pc[p] \in {"restored", "recleaned"}
      BY <1>1, <1>4 DEF SyncRecovery, SyncDirectory, Keep, TypeOK, history, Wanted
    <2>2. QED
      BY <1>1, <2>1 DEF ReportOK
  <1>5. QED
    BY <1>2, <1>3, <1>4

\* What is moved aside, and back, is not reported as a change.
LEMMA SwapReport ==
  ASSUME RInv, NEW p \in Procs, Examine(p) \/ Swap(p) \/ Verify(p)
  PROVE  ReportOK(p)'
  <1> USE DEF Goto, Return
  <1>1. TypeOK /\ ReportOK(p)
    BY DEF RInv, IInv
  <1>2. CASE Examine(p)
    <2>1. /\ pc'[p] \in {"sync", "swap", "release"} /\ dir' = dir /\ Wanted(p)' = Wanted(p)
          /\ pc'[p] = "sync" => dir["dest"] = Wanted(p)
          /\ pc'[p] = "release" => result'[p] \in {"conflict", "error"}
      BY <1>1, <1>2 DEF Examine, TypeOK, store, Wanted
    <2>2. QED
      BY <2>1 DEF ReportOK
  <1>3. CASE Swap(p)
    <2>1. CASE Goto(p, "publish") \/ Return(p, "conflict") \/ Return(p, "error")
      <3>1. \/ pc'[p] = "publish"
            \/ pc'[p] = "release" /\ result'[p] \in {"conflict", "error"}
        BY <1>1, <2>1 DEF TypeOK
      <3>2. QED
        BY <3>1 DEF ReportOK
    <2>2. CASE Goto(p, "verify") /\ Rename("dest", Aside(p))
      <3>1. dir'["dest"] = "none" /\ pc'[p] = "verify"
        BY <1>1, <2>2 DEF Rename, Change, TypeOK, Directories, Places, Aside
      <3>2. QED
        BY <3>1 DEF ReportOK
    <2>3. QED
      BY <1>3, <2>1, <2>2 DEF Swap
  <1>4. CASE Verify(p)
    <2>1. CASE /\ Goto(p, IF op[p] = "install" THEN "publish" ELSE "clean") /\ Keep
      <3>1. /\ dir' = dir /\ meddled' = meddled /\ Wanted(p)' = Wanted(p)
            /\ pc[p] = "verify" /\ pc'[p] \in {"publish", "clean"}
            /\ pc'[p] = "clean" => op[p] # "install"
        BY <1>1, <1>4, <2>1 DEF Verify, Keep, TypeOK, Wanted, history
      <3>2. QED
        BY <1>1, <3>1 DEF ReportOK, Wanted
    <2>2. CASE Return(p, IF dir[Aside(p)] = current[p] THEN "error" ELSE "conflict")
      <3>1. pc'[p] = "release" /\ result'[p] \in {"conflict", "error"}
        BY <1>1, <2>2 DEF TypeOK
      <3>2. QED
        BY <3>1 DEF ReportOK
    <2>3. QED
      BY <1>4, <2>1, <2>2 DEF Verify
  <1>5. QED
    BY <1>2, <1>3, <1>4

\* The staged tree is what an install wants at the destination, and what is cleaned
\* after that is elsewhere.
LEMMA PublishReport ==
  ASSUME RInv, NEW p \in Procs, Publish(p) \/ Clean(p) \/ SyncParent(p)
  PROVE  ReportOK(p)'
  <1> USE DEF Goto, Return
  <1>1. /\ TypeOK /\ ReportOK(p) /\ Installing(p) /\ op' = op /\ version' = version
        /\ meddled' = meddled /\ Wanted(p)' = Wanted(p)
    BY DEF RInv, IInv, StageOK, Publish, Clean, SyncParent, history, Wanted
  <1>2. CASE Publish(p)
    <2>1. CASE /\ Change([dir EXCEPT !["dest"] = version[p]])
               /\ Goto(p, IF current[p] = "none" THEN "sync" ELSE "clean")
      <3>1. dir'["dest"] = version[p] /\ pc'[p] \in {"sync", "clean"}
        BY <1>1, <2>1 DEF Change, TypeOK, Directories, Places
      <3>2. op[p] = "install"
        BY <1>1, <1>2 DEF Publish, Installing
      <3>3. QED
        BY <1>1, <3>1, <3>2 DEF ReportOK, Wanted
    <2>2. CASE Return(p, "error")
      <3>1. pc'[p] = "release" /\ result'[p] = "error"
        BY <1>1, <2>2 DEF TypeOK
      <3>2. QED
        BY <3>1 DEF ReportOK
    <2>3. QED
      BY <1>2, <2>1, <2>2 DEF Publish
  <1>3. CASE Clean(p)
    <2>1. dir'["dest"] = dir["dest"]
      BY <1>1, <1>3 DEF Clean, Change, Keep, TypeOK, Directories, Places, Aside
    <2>2. /\ pc[p] \in {"clean", "reclean"}
          /\ pc'[p] \in {"clean", "reclean", "sync", "recleaned", "release"}
          /\ pc'[p] = "release" => result'[p] = "committed"
      BY <1>1, <1>3 DEF Clean, TypeOK
    <2>3. QED
      BY <1>1, <2>1, <2>2 DEF ReportOK
  <1>4. CASE SyncParent(p)
    <2>1. /\ pc[p] = "sync" /\ pc'[p] = "release" /\ dir' = dir
          /\ result'[p] = "ok" => survivable' = {dir}
      BY <1>1, <1>4 DEF SyncParent, SyncDirectory, Keep, TypeOK
    <2>2. QED
      BY <1>1, <2>1 DEF ReportOK
  <1>5. QED
    BY <1>2, <1>3, <1>4

\* A process outside the lock has nothing to report.
LEMMA NothingToReport ==
  ASSUME NEW p \in Procs, pc'[p] \in Outside \cup {"recover"}
  PROVE  ReportOK(p)'
  BY DEF Outside, ReportOK

\* While a report is being made no other process changes the directories.
LEMMA ReportStep ==
  ASSUME RInv, IInv', NEW p \in Procs, Step(p)
  PROVE  \A q \in Procs : ReportOK(q)'
  <1>1. TypeOK /\ LockHeld /\ \A q \in Procs : ReportOK(q)
    BY DEF RInv, IInv
  <1>2. CASE \/ BeginInstall(p) \/ BeginUninstall(p) \/ AcquireLock(p) \/ GiveUpLock(p)
             \/ ReleaseLock(p) \/ Crash(p)
    <2>1. /\ pc'[p] \in Outside \cup {"recover"} /\ UNCHANGED <<dir, survivable, meddled>>
          /\ \A q \in Procs \ {p} :
               /\ pc'[q] = pc[q] /\ op'[q] = op[q] /\ version'[q] = version[q]
               /\ result'[q] = result[q]
      BY <1>1, <1>2 DEF BeginInstall, BeginUninstall, AcquireLock, GiveUpLock, ReleaseLock,
         Crash, Exit, Goto, Outside, TypeOK, store, history
    <2>2. ASSUME NEW q \in Procs \ {p}
          PROVE  ReportOK(q)'
      BY <1>1, <2>1 DEF ReportOK, Wanted
    <2>3. QED
      BY <2>1, <2>2, NothingToReport
  <1>3. CASE \/ RecoverInstall(p) \/ RecoverUninstall(p) \/ SyncRecovery(p)
             \/ Examine(p) \/ Swap(p) \/ Verify(p) \/ Publish(p) \/ Clean(p) \/ SyncParent(p)
    <2>1. pc[p] \notin Outside
      BY <1>3 DEF RecoverInstall, RecoverUninstall, SyncRecovery, Examine, Swap, Verify,
         Publish, Clean, SyncParent, Outside
    <2>2. \A q \in Procs \ {p} : pc'[q] = pc[q]
      BY <1>1, <1>3 DEF RecoverInstall, RecoverUninstall, SyncRecovery, Examine, Swap, Verify,
         Publish, Clean, SyncParent, Goto, Return, TypeOK
    <2>3. \A q \in Procs \ {p} : pc'[q] \in Outside
      BY <1>1, <2>1, <2>2 DEF LockHeld
    <2>4. ReportOK(p)'
      BY <1>3, RecoverReport, SwapReport, PublishReport
    <2>5. QED
      BY <2>3, <2>4, NothingToReport
  <1>4. CASE UnlockFails(p)
    <2>1. /\ UNCHANGED <<dir, survivable, meddled, pc>>
          /\ \A q \in Procs : Wanted(q)' = Wanted(q)
          /\ pc[p] = "release" /\ result[p] = "ok" /\ result'[p] \in {"committed", "error"}
          /\ \A q \in Procs \ {p} : result'[q] = result[q]
      BY <1>1, <1>4 DEF UnlockFails, TypeOK, Wanted, store, history
    <2>2. QED
      BY <1>1, <2>1 DEF ReportOK
  <1>5. QED
    BY <1>2, <1>3, <1>4 DEF Step

\* What a command reports where no user interferes is what happened, for any number of
\* commands, crashes and power losses: a warning that the destination is as asked for,
\* success that it also stays so (skills/skills.go:182-202, 243-287).
THEOREM TrueReports == Spec => []ReportsAreTrue
  <1>1. Init /\ IInv => RInv
    BY DEF Init, RInv, ReportOK
  <1>2. RInv /\ IInv' /\ [Next]_vars => RInv'
    <2> SUFFICES ASSUME RInv, IInv', [Next]_vars
                 PROVE  RInv'
      OBVIOUS
    <2>1. ASSUME NEW p \in Procs, Step(p)
          PROVE  RInv'
      BY <2>1, ReportStep DEF RInv
    <2>2. CASE Meddle
      <3>1. meddled' # 0
        BY <2>2, BoundsAssumption DEF Meddle, RInv, IInv, TypeOK
      <3>2. QED
        BY <3>1 DEF RInv, ReportOK
    <2>3. CASE PowerLoss
      <3>1. \A p \in Procs : pc'[p] \in Outside
        BY <2>3 DEF PowerLoss, Outside
      <3>2. QED
        BY <3>1, NothingToReport DEF RInv
    <2>4. CASE UNCHANGED vars
      BY <2>4 DEF vars, store, local, history, RInv, ReportOK, Wanted
    <2>5. QED
      BY <2>1, <2>2, <2>3, <2>4 DEF Next
  <1>3. RInv => ReportsAreTrue
    BY DEF RInv, ReportOK, ReportsAreTrue, ReportIsTrue, Wanted
  <1>4. QED
    BY <1>1, <1>2, <1>3, Inductive, PTL DEF Spec
=============================================================================
