---------------------------- MODULE PolicyRegistry ----------------------------
(***************************************************************************)
(* The policy registry (policies.json) and the commands that edit and      *)
(* consult it, while profiles are replaced and removed by other processes. *)
(*                                                                         *)
(* Every edit loads, changes and renames the file under policies.json.lock *)
(* (policy/registry.go).  What it writes was decided before the lock was   *)
(* taken: the profile comes from an unlocked read of profiles.json, the    *)
(* shared statuses from Slack (cli/auth.go, cli/session.go).  Only the     *)
(* workflow commands hold the profile lock meanwhile (cli/workflow.go).    *)
(***************************************************************************)
EXTENDS PolicySets

CONSTANTS Procs, Names, Nobody,
          MaxProfiles,  \* contract.MaxProfiles
          MaxListed,    \* contract.MaxRegistryBytes, counted in targets
          MaxVersions   \* bound on the versions a power loss chooses from

ASSUME ProcsAssumption == Nobody \notin Procs
ASSUME NamesAssumption == IsFiniteSet(Names) /\ MaxProfiles \in Nat
ASSUME VersionsAssumption == MaxVersions \in Nat /\ MaxListed \in Nat

Registries == [Names -> Sets]

VARIABLES
  profiles,     \* profiles.json: the generation registered under each name
  issued,       \* generations drawn so far
  profileLock,  \* holder of profiles.json.lock
  shared        \* Slack: the current shared status of each conversation
world == <<profiles, issued, profileLock, shared>>

VARIABLES
  lock,         \* holder of policies.json.lock
  file,         \* policies.json as every process reads it
  survivable    \* the versions of it a power loss may leave behind
store == <<lock, file, survivable>>

VARIABLES
  pc,
  cmd,          \* "replace", "rebind", "add" or "use"
  kind,         \* read or write policy
  name, gen,    \* the profile the command read
  convs,        \* the conversations the user named
  targets,      \* those conversations with the status Slack reported
  snap,         \* the edited registry, still in memory
  result        \* how the command ended
command == <<kind, name, gen, convs>>
local == <<pc, cmd, kind, name, gen, convs, targets, snap, result>>

VARIABLE base   \* history: the registry when the lock was taken

vars == <<world, store, local, base>>

PCs == {"idle", "check", "inspect", "waiting", "edit", "save", "sync",
        "release", "require", "allowed"}
Locked == {"edit", "save", "sync", "release"}

TypeOK ==
  /\ profiles \in [Names -> Slots]
  /\ issued \in 0 .. MaxGen
  /\ profileLock \in Procs \cup {Nobody}
  /\ shared \in [Convs -> Statuses]
  /\ lock \in Procs \cup {Nobody}
  /\ file \in Registries
  /\ survivable \in SUBSET Registries
  /\ pc \in [Procs -> PCs]
  /\ cmd \in [Procs -> {"replace", "rebind", "add", "use"}]
  /\ kind \in [Procs -> Kinds]
  /\ name \in [Procs -> Names]
  /\ gen \in [Procs -> Slots]
  /\ convs \in [Procs -> SUBSET Convs]
  /\ targets \in [Procs -> Targets]
  /\ snap \in [Procs -> Registries]
  /\ result \in [Procs -> {"none", "ok", "same", "error", "committed"}]
  /\ base \in Registries

NoSets == [n \in Names |-> NoSet]

Init ==
  /\ profiles = [n \in Names |-> NoGen]
  /\ issued = 0
  /\ profileLock = Nobody
  /\ shared \in [Convs -> Statuses]
  /\ lock = Nobody
  /\ file = NoSets
  /\ survivable = {NoSets}
  /\ pc = [p \in Procs |-> "idle"]
  /\ cmd = [p \in Procs |-> "use"]
  /\ kind = [p \in Procs |-> "read"]
  /\ name \in [Procs -> Names]
  /\ gen = [p \in Procs |-> NoGen]
  /\ convs = [p \in Procs |-> {}]
  /\ targets = [p \in Procs |-> NoTargets]
  /\ snap = [p \in Procs |-> NoSets]
  /\ result = [p \in Procs |-> "none"]
  /\ base = NoSets

Goto(p, stage) == pc' = [pc EXCEPT ![p] = stage]
Return(p, how, stage) ==
  /\ Goto(p, stage)
  /\ result' = [result EXCEPT ![p] = how]

\* The process ends, and with it its hold on the profile lock.
Exit(p) ==
  /\ Return(p, "none", "idle")
  /\ cmd' = [cmd EXCEPT ![p] = "use"]
  /\ kind' = [kind EXCEPT ![p] = "read"]
  /\ gen' = [gen EXCEPT ![p] = NoGen]
  /\ convs' = [convs EXCEPT ![p] = {}]
  /\ targets' = [targets EXCEPT ![p] = NoTargets]
  /\ snap' = [snap EXCEPT ![p] = NoSets]
  /\ profileLock' = IF profileLock = p THEN Nobody ELSE profileLock
  /\ UNCHANGED name

ListOf(set, k) == IF k = "read" THEN set.reads ELSE set.writes

\* What load accepts: the bounds on profiles, on the size of the file and on the
\* targets of a list, and writes that are reads.
Stored(registry) == {n \in Names : registry[n] # NoSet}
Entries(registry) ==
  {e \in Names \X Convs \X Kinds : ListOf(registry[e[1]], e[3])[e[2]] # Absent}
Loadable(registry) ==
  /\ Cardinality(Stored(registry)) <= MaxProfiles
  /\ Cardinality(Entries(registry)) <= MaxListed
  /\ \A n \in Names :
       /\ Counted(registry[n].reads) /\ Counted(registry[n].writes)
       /\ IsSubset(registry[n].writes, registry[n].reads)

-----------------------------------------------------------------------------
(* The world around the registry *)

Registered == {n \in Names : profiles[n] # NoGen}

\* Bug: the login does not take the profile lock.
LoginUnlocked(n) ==
  /\ issued < MaxGen
  /\ issued' = issued + 1
  /\ profiles' = [profiles EXCEPT ![n] = issued + 1]
  /\ UNCHANGED <<profileLock, shared, store, local, base>>

\* Bug: another generation is registered than the one drawn.
LoginOther(n) ==
  /\ profileLock = Nobody
  /\ issued < MaxGen
  /\ issued' = issued + 1
  /\ profiles' = [profiles EXCEPT ![n] = issued + 2]
  /\ UNCHANGED <<profileLock, shared, store, local, base>>

\* The rename that publishes a login, and the one that publishes a logout
\* (AuthTransaction has the transaction around them).  Neither touches the policy.
Login(n) ==
  /\ profileLock = Nobody
  /\ issued < MaxGen
  /\ n \in Registered \/ Cardinality(Registered) < MaxProfiles
  /\ issued' = issued + 1
  /\ profiles' = [profiles EXCEPT ![n] = issued + 1]
  /\ UNCHANGED <<profileLock, shared, store, local, base>>

Logout(n) ==
  /\ profileLock = Nobody
  /\ profiles[n] # NoGen
  /\ profiles' = [profiles EXCEPT ![n] = NoGen]
  /\ UNCHANGED <<issued, profileLock, shared, store, local, base>>

\* A conversation is shared with, or withdrawn from, another organisation.
ChangeSharing(c) ==
  /\ \E status \in Statuses \ {shared[c]} : shared' = [shared EXCEPT ![c] = status]
  /\ UNCHANGED <<profiles, issued, profileLock, store, local, base>>

-----------------------------------------------------------------------------
(* Starting a command: an unlocked read of the profile *)

Start(p, c, k, n, ids, stage) ==
  /\ pc[p] = "idle"
  /\ profiles[n] # NoGen
  /\ cmd' = [cmd EXCEPT ![p] = c]
  /\ kind' = [kind EXCEPT ![p] = k]
  /\ name' = [name EXCEPT ![p] = n]
  /\ gen' = [gen EXCEPT ![p] = profiles[n]]
  /\ convs' = [convs EXCEPT ![p] = ids]
  /\ Return(p, "none", stage)
  /\ UNCHANGED <<targets, snap>>

Selections == {ids \in SUBSET Convs : ids # {} /\ Cardinality(ids) <= MaxTargets}

\* allow-reads set, allow-writes set
BeginSet(p) ==
  /\ \E k \in Kinds, n \in Names, ids \in Selections :
       Start(p, "replace", k, n, ids, "inspect")
  /\ UNCHANGED <<world, store, base>>

\* allow-reads set --reset-stale-policy
BeginReset(p) ==
  /\ \E n \in Names, ids \in Selections : Start(p, "rebind", "read", n, ids, "check")
  /\ UNCHANGED <<world, store, base>>

\* allow-reads clear, allow-writes clear: no target to inspect
BeginClear(p) ==
  /\ \E k \in Kinds, n \in Names : Start(p, "replace", k, n, {}, "waiting")
  /\ UNCHANGED <<world, store, base>>

\* A read or a send with an existing policy
BeginUse(p) ==
  /\ \E k \in Kinds, n \in Names, c \in Convs : Start(p, "use", k, n, {c}, "inspect")
  /\ UNCHANGED <<world, store, base>>

\* workflow read, workflow send: everything happens under the profile lock
BeginEnroll(p) ==
  /\ profileLock = Nobody
  /\ profileLock' = p
  /\ \E k \in Kinds, n \in Names, c \in Convs : Start(p, "add", k, n, {c}, "check")
  /\ UNCHANGED <<profiles, issued, shared, store, base>>

\* workflow read --cursor: under the profile lock too, with the policy there is
BeginContinue(p) ==
  /\ profileLock = Nobody
  /\ profileLock' = p
  /\ \E n \in Names, c \in Convs : Start(p, "use", "read", n, {c}, "check")
  /\ UNCHANGED <<profiles, issued, shared, store, base>>

\* Every conversation p names is on its list, in a set of its own generation.
Lists(p) ==
  LET set == file[name[p]]
  IN /\ set # NoSet /\ Matches(set, gen[p])
     /\ \A c \in convs[p] : ListOf(set, kind[p])[c] # Absent

\* The early look at the policy: a reset needs a stale binding, an enrolment
\* none (Policies.Get), a continuation its target (Policies.Target).
CheckBinding(p) ==
  /\ pc[p] = "check"
  /\ \/ /\ Loadable(file)
        /\ Refused(file[name[p]], gen[p]) <=> cmd[p] = "rebind"
        /\ cmd[p] = "use" => Lists(p)
        /\ Goto(p, "inspect")
        /\ UNCHANGED <<cmd, command, targets, snap, result, profileLock>>
     \/ Exit(p)
  /\ UNCHANGED <<profiles, issued, shared, store, base>>

\* conversations.info and classification of every conversation named.  A shared
\* conversation without --allow-slack-connect ends the command.
InspectTargets(p) ==
  /\ pc[p] = "inspect"
  /\ \/ /\ targets' = [targets EXCEPT ![p] =
              [c \in Convs |-> IF c \in convs[p] THEN shared[c] ELSE Absent]]
        /\ Goto(p, IF cmd[p] = "use" THEN "require" ELSE "waiting")
        /\ UNCHANGED <<cmd, command, snap, result, profileLock>>
     \/ Exit(p)
  /\ UNCHANGED <<profiles, issued, shared, store, base>>

-----------------------------------------------------------------------------
(* lockfile.With around load, edit and save *)

AcquireLock(p) ==
  /\ pc[p] = "waiting"
  /\ lock = Nobody
  /\ lock' = p
  /\ base' = file
  /\ Goto(p, "edit")
  /\ UNCHANGED <<world, file, survivable, cmd, command, targets, snap, result>>

GiveUpLock(p) ==
  /\ pc[p] = "waiting"
  /\ Exit(p)
  /\ UNCHANGED <<profiles, issued, shared, store, base>>

\* Bug: the edited set is saved alone, and every other profile's set is lost.
ProposeAlone(p, set) ==
  /\ snap' = [snap EXCEPT ![p] = [NoSets EXCEPT ![name[p]] = set]]
  /\ Goto(p, "save")
  /\ UNCHANGED result

Propose(p, set) ==
  /\ snap' = [snap EXCEPT ![p] = [file EXCEPT ![name[p]] = set]]
  /\ Goto(p, "save")
  /\ UNCHANGED result

\* An edit that is refused, or fails, releases the lock without saving.
Abandon(p) ==
  /\ Return(p, "error", "release")
  /\ UNCHANGED snap

EditReplace(p) ==
  /\ cmd[p] = "replace"
  /\ LET set == file[name[p]]
         start == Base(set, gen[p])
     IN /\ Loadable(file)
        /\ ~Refused(set, gen[p])
        /\ ReplaceOK(start, kind[p], targets[p])
        /\ Propose(p, WithKind(start, kind[p], targets[p]))

EditRebind(p) ==
  /\ cmd[p] = "rebind"
  /\ Loadable(file)
  /\ Refused(file[name[p]], gen[p])
  /\ Propose(p, Rebound(gen[p], targets[p]))

EditAdd(p) ==
  /\ cmd[p] = "add"
  /\ Loadable(file)
  /\ LET set == file[name[p]]
         start == Base(set, gen[p])
     IN /\ ~Refused(set, gen[p])
        /\ \E c \in convs[p] :
             LET edited == WithTarget(start, kind[p], c, targets[p][c])
             IN /\ AddOK(start, kind[p], c, targets[p][c])
                /\ \/ /\ edited = start          \* nothing to save
                      /\ Return(p, "same", "release")
                      /\ UNCHANGED snap
                   \/ /\ edited # start
                      /\ set # NoSet \/ Cardinality(Stored(file)) < MaxProfiles
                      /\ Propose(p, edited)

Edit(p) ==
  /\ pc[p] = "edit"
  /\ EditReplace(p) \/ EditRebind(p) \/ EditAdd(p) \/ Abandon(p)
  /\ UNCHANGED <<world, store, cmd, command, targets, base>>

\* A fault that leaves the rename of p unsynced, as far as the bound allows.
UnsyncedFault == Cardinality(survivable) <= MaxVersions

\* Registry.save up to the rename
SaveRegistry(p) ==
  /\ pc[p] = "save"
  /\ \/ /\ file' = snap[p]
        /\ survivable' = survivable \cup {snap[p]}
        /\ Goto(p, "sync")
        /\ UNCHANGED result
     \/ /\ Return(p, "error", "release")
        /\ UNCHANGED <<file, survivable>>
  /\ UNCHANGED <<world, lock, cmd, command, targets, snap, base>>

\* Bug: a directory that cannot be synced is reported as a plain failure.
SyncDirectoryFails(p) ==
  /\ pc[p] = "sync"
  /\ \/ survivable' = {file} /\ Return(p, "ok", "release")
     \/ UnsyncedFault /\ UNCHANGED survivable /\ Return(p, "error", "release")
  /\ UNCHANGED <<world, lock, file, cmd, command, targets, snap, base>>

\* Registry.save from the rename on: a failure is a CommitError
SyncDirectory(p) ==
  /\ pc[p] = "sync"
  /\ \/ survivable' = {file} /\ Return(p, "ok", "release")
     \/ UnsyncedFault /\ UNCHANGED survivable /\ Return(p, "committed", "release")
  /\ UNCHANGED <<world, lock, file, cmd, command, targets, snap, base>>

\* The unlock or the close fails after the edit: what was saved becomes a
\* CommitError, an edit that had nothing to save a plain one.  The descriptor
\* is closed all the same (ReleaseLock).
UnlockFails(p) ==
  /\ pc[p] = "release"
  /\ \/ result[p] = "ok" /\ result' = [result EXCEPT ![p] = "committed"]
     \/ result[p] = "same" /\ result' = [result EXCEPT ![p] = "error"]
  /\ UNCHANGED <<world, store, pc, cmd, command, targets, snap, base>>

\* An enrolment that went through continues with its read or send, still under
\* the profile lock; every other command ends with its report.
Enrolled(p) == cmd[p] = "add" /\ result[p] \in {"ok", "same"}
ReleaseLock(p) ==
  /\ pc[p] = "release"
  /\ lock' = Nobody
  /\ base' = NoSets
  /\ \/ /\ Enrolled(p)
        /\ cmd' = [cmd EXCEPT ![p] = "use"]
        /\ targets' = [targets EXCEPT ![p] = NoTargets]
        /\ snap' = [snap EXCEPT ![p] = NoSets]
        /\ Return(p, "none", "inspect")
        /\ UNCHANGED <<command, profileLock>>
     \/ ~Enrolled(p) /\ Exit(p)
  /\ UNCHANGED <<profiles, issued, shared, file, survivable>>

-----------------------------------------------------------------------------
(* Registry.Require, without the lock, and the read or send it allows *)

Require(p) ==
  /\ pc[p] = "require"
  /\ \/ LET set == file[name[p]]
        IN /\ Loadable(file)
           /\ set # NoSet /\ Matches(set, gen[p])
           /\ \A c \in convs[p] : ListOf(set, kind[p])[c] = targets[p][c]
           /\ Goto(p, "allowed")
           /\ UNCHANGED <<cmd, command, targets, snap, result, profileLock>>
     \/ Exit(p)
  /\ UNCHANGED <<profiles, issued, shared, store, base>>

Finish(p) ==
  /\ pc[p] = "allowed"
  /\ Exit(p)
  /\ UNCHANGED <<profiles, issued, shared, store, base>>

-----------------------------------------------------------------------------
Crash(p) ==
  /\ pc[p] # "idle"
  /\ pc[p] = "sync" => UnsyncedFault
  /\ Exit(p)
  /\ IF lock = p THEN lock' = Nobody /\ base' = NoSets ELSE UNCHANGED <<lock, base>>
  /\ UNCHANGED <<profiles, issued, shared, file, survivable>>

PowerLoss ==
  /\ \E registry \in survivable : file' = registry /\ survivable' = {registry}
  /\ lock' = Nobody
  /\ profileLock' = Nobody
  /\ base' = NoSets
  /\ pc' = [p \in Procs |-> "idle"]
  /\ cmd' = [p \in Procs |-> "use"]
  /\ kind' = [p \in Procs |-> "read"]
  /\ gen' = [p \in Procs |-> NoGen]
  /\ convs' = [p \in Procs |-> {}]
  /\ targets' = [p \in Procs |-> NoTargets]
  /\ snap' = [p \in Procs |-> NoSets]
  /\ result' = [p \in Procs |-> "none"]
  /\ UNCHANGED <<profiles, issued, shared, name>>

Begin(p) ==
  \/ BeginSet(p) \/ BeginReset(p) \/ BeginClear(p) \/ BeginUse(p)
  \/ BeginEnroll(p) \/ BeginContinue(p)

Step(p) ==
  \/ Begin(p) \/ CheckBinding(p) \/ InspectTargets(p)
  \/ AcquireLock(p) \/ GiveUpLock(p)
  \/ Edit(p) \/ SaveRegistry(p) \/ SyncDirectory(p)
  \/ UnlockFails(p) \/ ReleaseLock(p)
  \/ Require(p) \/ Finish(p) \/ Crash(p)

Environment ==
  \/ \E n \in Names : Login(n) \/ Logout(n)
  \/ \E c \in Convs : ChangeSharing(c)
  \/ PowerLoss

Next == (\E p \in Procs : Step(p)) \/ Environment

Spec == Init /\ [][Next]_vars

-----------------------------------------------------------------------------
(* Properties *)

\* Whatever is edited, by whom, and whichever version survives a power loss, a
\* write target is a read target with the same status (policy/registry.go:103).
WritesWithinReads ==
  \A registry \in survivable \cup {file}, n \in Names :
    IsSubset(registry[n].writes, registry[n].reads)

\* Every target a step records is one the running command inspected, recorded
\* for the profile that command runs as: no login inherits a target, whatever the
\* order of edits, logins and power losses (docs/architecture.md:161-176).  A
\* power loss, and nothing else, may bring back what an earlier edit recorded.
NothingInherited ==
  [][\/ PowerLoss
     \/ \A n \in Names, c \in Convs :
          LET old == file[n]
              new == file'[n]
              inspected(k, status) ==
                \E p \in Procs :
                  /\ pc[p] = "save" /\ name[p] = n /\ Matches(new, gen[p])
                  /\ targets[p][c] = status
                  /\ kind[p] = k \/ (kind[p] = "write" /\ cmd[p] = "add")
              sound(k, was, is) == is # Absent =>
                   \/ (Matches(old, new.gen) /\ was = is)
                   \/ inspected(k, is)
          IN /\ sound("read", old.reads[c], new.reads[c])
             /\ sound("write", old.writes[c], new.writes[c])]_vars

\* While a workflow runs, from its enrolment to its read or send, the profile it
\* runs as stays the registered one (cli/workflow.go:212-236, 286-309), so what it
\* recorded is usable by that profile alone.
WorkflowIsCurrent ==
  \A p \in Procs : profileLock = p =>
    /\ profiles[name[p]] = gen[p]
    /\ pc[p] = "release" /\ result[p] = "ok" => Matches(file[name[p]], profiles[name[p]])

\* What an edit reports is what happened: success means the set is in place and,
\* when the edit saved it, on disk for good; an error means nothing was changed; and
\* no other profile's set is lost (policy/registry.go:103-161, 165-252, 310-349).
InPlace(p) ==
  LET set == file[name[p]]
  IN CASE cmd[p] = "replace" ->
            set = WithKind(Base(base[name[p]], gen[p]), kind[p], targets[p])
       [] cmd[p] = "rebind" -> set = Rebound(gen[p], targets[p])
       [] OTHER ->
            /\ Matches(set, gen[p])
            /\ IsSubset(targets[p], set.reads)
            /\ kind[p] = "write" => IsSubset(targets[p], set.writes)
ReportIsTrue(p) ==
  /\ result[p] \in {"ok", "same", "committed"} => InPlace(p)
  /\ result[p] = "ok" => survivable = {file}
  /\ result[p] \in {"same", "error"} => file = base
  /\ \A m \in Names \ {name[p]} : file[m] = base[m]
ReportsAreTrue ==
  \A p \in Procs : pc[p] = "release" => ReportIsTrue(p)

\* No sequence of edits leaves a list over its bound behind, in the file or in a
\* version a power loss may bring back: load would refuse the whole file, for
\* every profile (policy/registry.go:165-252, 499-501).
TargetsFit ==
  \A registry \in survivable \cup {file}, n \in Names :
    Counted(registry[n].reads) /\ Counted(registry[n].writes)

\* No sequence of commands makes the file one that load refuses, which would make
\* every policy unreadable (policy/registry_test.go:327: a profile over the maximum
\* is rejected "without saving invalid registry"; V1Limits publishes registry_bytes,
\* contract/contract.go:107).
PolicyLoadable == Loadable(file)

\* --reset-stale-policy replaces a stale set, never one bound to the registered
\* profile (policy/registry.go:307: it "replaces a stale profile policy with an
\* exact fresh read set").
ResetReplacesStale ==
  [][\A p \in Procs :
       pc[p] = "save" /\ cmd[p] = "rebind" /\ file' # file
         => file[name[p]].gen # profiles[name[p]]]_vars
=============================================================================
