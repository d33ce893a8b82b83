----------------------------- MODULE SkillInstall -----------------------------
(***************************************************************************)
(* Installing and uninstalling an Agent Skill (skills/skills.go).          *)
(*                                                                         *)
(* A Skill is a directory tree with a manifest of its files.  An install   *)
(* moves the tree it replaces aside (.previous), an uninstall moves the    *)
(* one it removes (.removing); what was moved is checked once more before  *)
(* anything is deleted.  The commands exclude each other by a lock, but    *)
(* nothing keeps the user from changing the destination, and a crash or a  *)
(* power loss may come between any two steps; the next command recovers.   *)
(*                                                                         *)
(* The tree a program installs is its version.  Staging is private to a    *)
(* command and complete and synced before it is renamed.                   *)
(***************************************************************************)
EXTENDS Naturals, FiniteSets

CONSTANTS Procs,      \* command processes
          Versions,   \* versions of the program, each with its tree
          MaxMeddle,  \* bound on what the user does to the directories
          MaxUnsynced,  \* bound on the unsynced states a command starts with
          Nobody

ASSUME ProcsAssumption == Nobody \notin Procs
ASSUME VersionsAssumption == Versions \cap {"none", "foreign", "partial"} = {}
ASSUME BoundsAssumption == MaxMeddle \in Nat /\ MaxUnsynced \in Nat

Places == {"dest", "previous", "removing"}

\* A tree that is intact is a version; a foreign one is not, or no longer, what its
\* manifest says; a partial one is left of an interrupted removal.
Contents == Versions \cup {"none", "foreign", "partial"}
Directories == [Places -> Contents]

VARIABLES
  lock,        \* holder of .slack-agent-cli-skill.lock
  dir,         \* the parent directory as every process sees it
  survivable   \* the states of it a power loss may leave behind
store == <<lock, dir, survivable>>

VARIABLES
  pc,
  op,          \* "install" or "uninstall"
  version,     \* the tree this program installs
  current,     \* the installed tree the command has verified
  result
local == <<pc, op, version, current, result>>

VARIABLES
  meddled,     \* history: how often the user changed the directories
  installed    \* history: an install succeeded; nobody has removed its tree since
history == <<meddled, installed>>

vars == <<store, local, history>>

PCs == {"idle", "waiting", "recover", "restored", "reclean", "recleaned", "examine",
        "swap", "verify", "publish", "clean", "sync", "release"}

TypeOK ==
  /\ lock \in Procs \cup {Nobody}
  /\ dir \in Directories
  /\ survivable \in SUBSET Directories
  /\ pc \in [Procs -> PCs]
  /\ op \in [Procs -> {"install", "uninstall"}]
  /\ version \in [Procs -> Versions]
  /\ current \in [Procs -> Versions \cup {"none"}]
  /\ result \in [Procs -> {"none", "ok", "committed", "conflict", "error"}]
  /\ meddled \in 0 .. MaxMeddle
  /\ installed \in BOOLEAN

Empty == [place \in Places |-> "none"]

Init ==
  /\ lock = Nobody
  /\ dir = Empty
  /\ survivable = {Empty}
  /\ pc = [p \in Procs |-> "idle"]
  /\ op = [p \in Procs |-> "install"]
  /\ version \in [Procs -> Versions]
  /\ current = [p \in Procs |-> "none"]
  /\ result = [p \in Procs |-> "none"]
  /\ meddled = 0
  /\ installed = FALSE

Goto(p, stage) == pc' = [pc EXCEPT ![p] = stage]
Return(p, how) ==
  /\ Goto(p, "release")
  /\ result' = [result EXCEPT ![p] = how]
Exit(p) ==
  /\ Goto(p, "idle")
  /\ op' = [op EXCEPT ![p] = "install"]
  /\ current' = [current EXCEPT ![p] = "none"]
  /\ result' = [result EXCEPT ![p] = "none"]
  /\ UNCHANGED version

-----------------------------------------------------------------------------
(* The directory.  A change is on disk for good once the parent is synced; until *)
(* then a power loss leaves some earlier state since the last sync.              *)

\* readOwned and verifyOwned both accept the tree.
Intact(content) == content \in Versions

Change(new) ==
  /\ dir' = new
  /\ survivable' = survivable \cup {new}
Keep == UNCHANGED <<dir, survivable>>

SyncDirectory == survivable' = {dir} /\ UNCHANGED dir

\* renameNoReplace
Rename(from, to) ==
  /\ dir[from] # "none" /\ dir[to] = "none"
  /\ Change([dir EXCEPT ![to] = dir[from], ![from] = "none"])

\* Where a command moves the tree it replaces or removes.
Aside(p) == IF op[p] = "install" THEN "previous" ELSE "removing"

-----------------------------------------------------------------------------
BeginInstall(p) ==
  /\ pc[p] = "idle"
  /\ op' = [op EXCEPT ![p] = "install"]
  /\ \E v \in Versions : version' = [version EXCEPT ![p] = v]
  /\ Goto(p, "waiting")
  /\ UNCHANGED <<store, current, result, history>>

BeginUninstall(p) ==
  /\ pc[p] = "idle"
  /\ op' = [op EXCEPT ![p] = "uninstall"]
  /\ Goto(p, "waiting")
  /\ UNCHANGED <<store, version, current, result, history>>

AcquireLock(p) ==
  /\ pc[p] = "waiting"
  /\ lock = Nobody
  /\ Cardinality(survivable) <= MaxUnsynced
  /\ lock' = p
  /\ Goto(p, "recover")
  /\ UNCHANGED <<dir, survivable, op, version, current, result, history>>

GiveUpLock(p) ==
  /\ pc[p] = "waiting"
  /\ Exit(p)
  /\ UNCHANGED <<store, history>>

\* Bug: a backup is dropped although nothing has taken its place.
RecoverInstallDrops(p) ==
  /\ pc[p] = "recover" /\ op[p] = "install"
  /\ Goto(p, IF dir["previous"] = "none" THEN "examine" ELSE "reclean")
  /\ UNCHANGED <<store, op, version, current, result, history>>

\* Bug: a backup is put back without a look at it.
RecoverInstallBlindly(p) ==
  /\ pc[p] = "recover" /\ op[p] = "install"
  /\ \/ dir["previous"] = "none" /\ Keep /\ Goto(p, "examine") /\ UNCHANGED result
     \/ Rename("previous", "dest") /\ Goto(p, "restored") /\ UNCHANGED result
     \/ Keep /\ Return(p, "error")
  /\ UNCHANGED <<lock, op, version, current, history>>

\* recoverInstallState: a backup is put back, or is the rest of a finished install.
RecoverInstall(p) ==
  /\ pc[p] = "recover" /\ op[p] = "install"
  /\ LET backup == dir["previous"]
         finished == Intact(backup) /\ dir["dest"] = version[p]
     IN \/ backup = "none" /\ Keep /\ Goto(p, "examine") /\ UNCHANGED result
        \/ /\ Intact(backup) /\ Rename("previous", "dest")
           /\ Goto(p, "restored") /\ UNCHANGED result
        \/ finished /\ Keep /\ Goto(p, "reclean") /\ UNCHANGED result
        \/ /\ backup # "none" /\ ~finished
           /\ ~Intact(backup) \/ dir["dest"] # "none"
           /\ Keep /\ Return(p, "conflict")
        \/ Keep /\ Return(p, "error")
  /\ UNCHANGED <<lock, op, version, current, history>>

\* recoverUninstallState: an intact tree in quarantine is removed.
RecoverUninstall(p) ==
  /\ pc[p] = "recover" /\ op[p] = "uninstall"
  /\ LET quarantined == Intact(dir["removing"]) /\ dir["dest"] = "none"
     IN \/ dir["removing"] = "none" /\ Goto(p, "examine") /\ UNCHANGED <<current, result>>
        \/ /\ quarantined
           /\ current' = [current EXCEPT ![p] = dir["removing"]]
           /\ Goto(p, "clean") /\ UNCHANGED result
        \/ /\ dir["removing"] # "none" /\ ~quarantined
           /\ Return(p, "conflict") /\ UNCHANGED current
        \/ Return(p, "error") /\ UNCHANGED current
  /\ UNCHANGED <<store, op, version, history>>

\* The sync that ends a recovery: one that removed a backup has finished an install.
SyncRecovery(p) ==
  /\ pc[p] \in {"restored", "recleaned"}
  /\ \/ SyncDirectory /\ Goto(p, "examine") /\ UNCHANGED result
     \/ Keep /\ Return(p, IF pc[p] = "restored" THEN "error" ELSE "committed")
  /\ UNCHANGED <<lock, op, version, current, history>>

\* Bug: the tree is taken for an owned one unseen.
ExamineNothing(p) ==
  /\ pc[p] = "examine"
  /\ current' = [current EXCEPT ![p] = dir["dest"]]
  /\ Goto(p, "swap")
  /\ UNCHANGED <<store, op, version, result, history>>

\* readOwned and verifyOwned of the destination; nothing is left to do when it
\* already is as wanted.
Examine(p) ==
  /\ pc[p] = "examine"
  /\ LET wanted == IF op[p] = "install" THEN version[p] ELSE "none"
         found == dir["dest"]
     IN \/ found = wanted /\ Goto(p, "sync") /\ UNCHANGED <<current, result>>
        \/ /\ found # wanted
           /\ Intact(found) \/ found = "none"
           /\ current' = [current EXCEPT ![p] = found]
           /\ Goto(p, "swap") /\ UNCHANGED result
        \/ ~Intact(found) /\ found # "none" /\ Return(p, "conflict") /\ UNCHANGED current
        \/ Return(p, "error") /\ UNCHANGED current
  /\ UNCHANGED <<store, op, version, history>>

\* The tree that is there is moved aside; an install stages its own before that.
Swap(p) ==
  /\ pc[p] = "swap"
  /\ LET found == dir["dest"]
     IN \/ /\ op[p] = "install" /\ dir["previous"] = "none"
           /\ found = "none" /\ current[p] = "none"
           /\ Goto(p, "publish") /\ Keep /\ UNCHANGED <<result, installed>>
        \/ /\ current[p] # "none"
           /\ Rename("dest", Aside(p))
           /\ installed' = (installed /\ op[p] = "install")
           /\ Goto(p, "verify") /\ UNCHANGED result
        \/ /\ dir[Aside(p)] # "none" \/ (found = "none") # (current[p] = "none")
           /\ Return(p, "conflict") /\ Keep /\ UNCHANGED installed
        \/ Return(p, "error") /\ Keep /\ UNCHANGED installed
  /\ UNCHANGED <<lock, op, version, current, meddled>>

\* Bug: what was moved aside is not checked.
VerifyNothing(p) ==
  /\ pc[p] = "verify"
  /\ Goto(p, IF op[p] = "install" THEN "publish" ELSE "clean")
  /\ UNCHANGED <<store, op, version, current, result, history>>

\* What was moved aside is the tree that was verified; otherwise, or when it cannot be
\* read (an error here, whatever it is called), it is moved back.
Verify(p) ==
  /\ pc[p] = "verify"
  /\ \/ /\ dir[Aside(p)] = current[p]
        /\ Goto(p, IF op[p] = "install" THEN "publish" ELSE "clean")
        /\ Keep /\ UNCHANGED result
     \/ /\ Rename(Aside(p), "dest") \/ Keep
        /\ Return(p, IF dir[Aside(p)] = current[p] THEN "error" ELSE "conflict")
  /\ UNCHANGED <<lock, op, version, current, history>>

\* The staged tree becomes the destination; when it cannot, the backup is moved back,
\* if that can be done.
Publish(p) ==
  /\ pc[p] = "publish"
  /\ \/ /\ dir["dest"] = "none"
        /\ Change([dir EXCEPT !["dest"] = version[p]])
        /\ Goto(p, IF current[p] = "none" THEN "sync" ELSE "clean")
        /\ UNCHANGED result
     \/ /\ (current[p] # "none" /\ Rename("previous", "dest")) \/ Keep
        /\ Return(p, "error")
  /\ UNCHANGED <<lock, op, version, current, history>>

\* RemoveAll of what was moved aside: file by file, failing at any of them.
Clean(p) ==
  /\ pc[p] \in {"clean", "reclean"}
  /\ \/ /\ dir[Aside(p)] \notin {"none", "partial"}
        /\ Change([dir EXCEPT ![Aside(p)] = "partial"])
        /\ UNCHANGED <<pc, result>>
     \/ /\ Change([dir EXCEPT ![Aside(p)] = "none"])
        /\ Goto(p, IF pc[p] = "clean" THEN "sync" ELSE "recleaned")
        /\ UNCHANGED result
     \/ Keep /\ Return(p, "committed")
  /\ UNCHANGED <<lock, op, version, current, history>>

\* What is recorded of a success: an install whose tree the user left in place.
Installed(p) == op[p] = "install" /\ Intact(dir["dest"])

\* Bug: the failure of the sync is ignored.
SyncParentIgnored(p) ==
  /\ pc[p] = "sync"
  /\ SyncDirectory \/ Keep
  /\ installed' = Installed(p)
  /\ Return(p, "ok")
  /\ UNCHANGED <<lock, op, version, current, meddled>>

SyncParent(p) ==
  /\ pc[p] = "sync"
  /\ \/ SyncDirectory /\ Return(p, "ok") /\ installed' = Installed(p)
     \/ Keep /\ Return(p, "committed") /\ UNCHANGED installed
  /\ UNCHANGED <<lock, op, version, current, meddled>>

\* Result.Applied of a success: an uninstall that found no Skill has applied nothing.
Applied(p) == op[p] = "install" \/ current[p] # "none"

\* The unlock or the close fails after a success: a CommitError when a change was
\* applied, a plain error otherwise.  The descriptor is closed all the same.
UnlockFails(p) ==
  /\ pc[p] = "release" /\ result[p] = "ok"
  /\ result' = [result EXCEPT ![p] = IF Applied(p) THEN "committed" ELSE "error"]
  /\ UNCHANGED <<store, pc, op, version, current, history>>

ReleaseLock(p) ==
  /\ pc[p] = "release"
  /\ lock' = Nobody
  /\ Exit(p)
  /\ UNCHANGED <<dir, survivable, history>>

-----------------------------------------------------------------------------
(* The user, and the end of processes *)

\* The user changes or creates the destination, or removes a directory by hand.
Meddle ==
  /\ meddled < MaxMeddle
  /\ meddled' = meddled + 1
  /\ installed' = FALSE
  /\ \/ Change([dir EXCEPT !["dest"] = "foreign"])
     \/ \E place \in Places : dir[place] # "none" /\ Change([dir EXCEPT ![place] = "none"])
  /\ UNCHANGED <<lock, local>>

Crash(p) ==
  /\ pc[p] # "idle"
  /\ Exit(p)
  /\ lock' = IF lock = p THEN Nobody ELSE lock
  /\ UNCHANGED <<dir, survivable, history>>

PowerLoss ==
  /\ \E left \in survivable : dir' = left /\ survivable' = {left}
  /\ lock' = Nobody
  /\ pc' = [p \in Procs |-> "idle"]
  /\ op' = [p \in Procs |-> "install"]
  /\ current' = [p \in Procs |-> "none"]
  /\ result' = [p \in Procs |-> "none"]
  /\ UNCHANGED <<version, history>>

Step(p) ==
  \/ BeginInstall(p) \/ BeginUninstall(p) \/ AcquireLock(p) \/ GiveUpLock(p)
  \/ RecoverInstall(p) \/ RecoverUninstall(p) \/ SyncRecovery(p)
  \/ Examine(p) \/ Swap(p) \/ Verify(p) \/ Publish(p) \/ Clean(p) \/ SyncParent(p)
  \/ UnlockFails(p) \/ ReleaseLock(p) \/ Crash(p)

Next == (\E p \in Procs : Step(p)) \/ Meddle \/ PowerLoss

Spec == Init /\ [][Next]_vars

-----------------------------------------------------------------------------
(* Properties *)

\* An agent that reads the destination never sees a tree of which a removal has left
\* only a part, now or after a power loss (skills/skills.go:264-279, 503-535, 545-603).
VisibleIsComplete ==
  \A d \in survivable \cup {dir} : d["dest"] # "partial"

\* Once an install has succeeded, upgrades keep a complete tree under one of two names
\* that the next install can find, whatever fails and whenever the power goes
\* (skills/skills.go:506-541).
VersionKept ==
  installed => \A d \in survivable \cup {dir} : Intact(d["dest"]) \/ Intact(d["previous"])

\* No command deletes what the user wrote, even when it appears between the check
\* and the rename (skills/skills.go:264-272, 514-523).
Foreign(d) == {place \in Places : d[place] = "foreign"}
UserFilesAreSafe ==
  [][meddled' = meddled /\ ~PowerLoss
       => Cardinality(Foreign(dir')) >= Cardinality(Foreign(dir))]_vars

\* Success means that the destination is as asked for, and for good; a warning that it
\* is as asked for (skills/skills.go:182-202, 243-287).
ReportIsTrue(p) ==
  LET wanted == IF op[p] = "install" THEN version[p] ELSE "none"
  IN /\ result[p] \in {"ok", "committed"} => dir["dest"] = wanted
     /\ result[p] = "ok" => survivable = {dir}
ReportsAreTrue ==
  \A p \in Procs : pc[p] = "release" /\ meddled = 0 => ReportIsTrue(p)

\* Whatever the program itself was interrupted in, applying the command again
\* recovers; only what a user changed is a conflict (skills/skills.go:152, 213: an
\* interrupted change "requires an applied recovery").
InterruptionsRecover ==
  \A p \in Procs : pc[p] = "release" /\ meddled = 0 => result[p] # "conflict"
=============================================================================
