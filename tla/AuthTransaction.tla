--------------------------- MODULE AuthTransaction ---------------------------
(***************************************************************************)
(* Profile login, logout and session loading.                              *)
(*                                                                         *)
(* Every command is a process of its own.  The processes share the profile *)
(* registry (profiles.json), its lock file, and the Keychain.  A login or  *)
(* a logout changes both stores inside one registry transaction            *)
(* (auth/transaction.go over profile/registry.go): the credential first,   *)
(* the registry second, and the credential is put back when the registry   *)
(* could not be replaced.  A command that talks to Slack takes no lock: it *)
(* reads the profile, then the credential, and checks that they are bound. *)
(*                                                                         *)
(* A profile is represented by its credential generation.  NewGeneration   *)
(* draws one per login, and the rest of the profile, the credential and    *)
(* the identity digest are computed once, from the values of that login,   *)
(* so two profiles, or a profile and a credential, are equal exactly when  *)
(* their generations are.                                                  *)
(***************************************************************************)
EXTENDS Naturals, FiniteSets

CONSTANTS Procs,        \* command processes
          Names,        \* profile names
          MaxProfiles,  \* contract.MaxProfiles
          MaxGen,       \* bound on the logins of one behaviour
          Nobody        \* the lock is free

ASSUME ProcsAssumption == Nobody \notin Procs
ASSUME BoundsAssumption == MaxProfiles \in Nat /\ MaxGen \in Nat
ASSUME NamesAssumption == IsFiniteSet(Names)

NoGen == 0                      \* no profile, or no credential
Gens == 1 .. MaxGen
Slots == Gens \cup {NoGen}
Registries == [Names -> Slots]

VARIABLES
  lock,        \* holder of profiles.json.lock
  file,        \* profiles.json as every process reads it
  survivable,  \* the versions of profiles.json a power loss may leave behind
  chain,       \* Keychain: the credential stored under each name
  issued       \* generations drawn so far
store == <<lock, file, survivable, chain, issued>>

VARIABLES
  pc,          \* where each command is
  op,          \* "login", "logout" or "session"
  name,        \* the profile name it works on
  yes,         \* login: --yes, the confirmed overwrite
  gen,         \* login: the fresh profile; session: the profile it read
  cred,        \* the credential it read from the Keychain
  snap,        \* the registry it loaded under the lock and edits
  result       \* how the command ended
command == <<op, name, yes, gen>>
local == <<pc, op, name, yes, gen, cred, snap, result>>

VARIABLES
  before,      \* history: registry and Keychain when the lock was taken
  retired,     \* history: profiles a published registry has dropped
  drifted      \* history: names a crash or a failed rollback left unbound
history == <<before, retired, drifted>>

vars == <<store, local, history>>

Results == {"none", "ok", "error", "committed", "inconsistent"}
Stages == {"load", "credential", "keychain", "save", "sync", "rollback",
           "release"}
PCs == Stages \cup {"idle", "waiting", "bind", "session"}

TypeOK ==
  /\ lock \in Procs \cup {Nobody}
  /\ file \in Registries
  /\ survivable \in SUBSET Registries
  /\ chain \in Registries
  /\ issued \in 0 .. MaxGen
  /\ pc \in [Procs -> PCs]
  /\ op \in [Procs -> {"login", "logout", "session"}]
  /\ name \in [Procs -> Names]
  /\ yes \in [Procs -> BOOLEAN]
  /\ gen \in [Procs -> Slots]
  /\ cred \in [Procs -> Slots]
  /\ snap \in [Procs -> Registries]
  /\ result \in [Procs -> Results]
  /\ before \in [file : Registries, chain : Registries]
  /\ retired \in SUBSET (Names \X Gens)
  /\ drifted \in SUBSET Names

NoProfiles == [n \in Names |-> NoGen]

Untouched == [file |-> NoProfiles, chain |-> NoProfiles]

Init ==
  /\ lock = Nobody
  /\ file = NoProfiles
  /\ survivable = {NoProfiles}
  /\ chain = NoProfiles
  /\ issued = 0
  /\ pc = [p \in Procs |-> "idle"]
  /\ op = [p \in Procs |-> "session"]
  /\ yes = [p \in Procs |-> FALSE]
  /\ gen = [p \in Procs |-> NoGen]
  /\ cred = [p \in Procs |-> NoGen]
  /\ snap = [p \in Procs |-> NoProfiles]
  /\ result = [p \in Procs |-> "none"]
  /\ name \in [Procs -> Names]
  /\ before = Untouched
  /\ retired = {}
  /\ drifted = {}

Goto(p, stage) == pc' = [pc EXCEPT ![p] = stage]
Return(p, how, stage) ==
  /\ Goto(p, stage)
  /\ result' = [result EXCEPT ![p] = how]

\* The process ends; only its outcome is left.  "idle" is the next process.
Forget(p) ==
  /\ op' = [op EXCEPT ![p] = "session"]
  /\ yes' = [yes EXCEPT ![p] = FALSE]
  /\ gen' = [gen EXCEPT ![p] = NoGen]
  /\ cred' = [cred EXCEPT ![p] = NoGen]
  /\ snap' = [snap EXCEPT ![p] = NoProfiles]
  /\ UNCHANGED name
Exit(p, how) == Return(p, how, "idle") /\ Forget(p)

-----------------------------------------------------------------------------
(* Registry contents *)

Profiles(registry) == {n \in Names : registry[n] # NoGen}

\* registryFile accepted by Registry.load: the count bound; names are unique
\* because the registry is a function of the name.
Loadable(registry) == Cardinality(Profiles(registry)) <= MaxProfiles

\* Transaction.Put replaces a profile, or appends one while there is room.
CanPutOneMore(registry, n) ==      \* Bug: off by one.
  \/ registry[n] # NoGen
  \/ Cardinality(Profiles(registry)) <= MaxProfiles
CanPut(registry, n) ==
  \/ registry[n] # NoGen
  \/ Cardinality(Profiles(registry)) < MaxProfiles
Put(registry, n, g) == [registry EXCEPT ![n] = g]
Remove(registry, n) == [registry EXCEPT ![n] = NoGen]

\* The profiles of one registry that the next does not have.
Dropped(old, new) ==
  {<<n, old[n]>> : n \in {m \in Profiles(old) : old[m] # new[m]}}

\* Bug: any credential will do.
BoundToAny(credential, profile) == credential # NoGen

\* Credential.ValidateBinding.
Bound(credential, profile) == credential # NoGen /\ credential = profile

\* The Keychain item of n is saved, or deleted when the credential is NoGen.
SetItem(n, credential) == chain' = [chain EXCEPT ![n] = credential]

\* What loadSession would accept for name n at this instant.
Usable(n) == IF Bound(chain[n], file[n]) THEN file[n] ELSE NoGen

-----------------------------------------------------------------------------
(* Starting a command.  Login draws its generation before the transaction. *)

\* Bug: two generations are drawn.
BeginLoginTwice(p) ==
  /\ pc[p] = "idle"
  /\ issued < MaxGen
  /\ issued' = issued + 2
  /\ \E n \in Names, confirmed \in BOOLEAN :
       /\ op' = [op EXCEPT ![p] = "login"]
       /\ name' = [name EXCEPT ![p] = n]
       /\ yes' = [yes EXCEPT ![p] = confirmed]
       /\ gen' = [gen EXCEPT ![p] = issued + 2]
  /\ Return(p, "none", "waiting")
  /\ UNCHANGED <<lock, file, survivable, chain, cred, snap, history>>

BeginLogin(p) ==
  /\ pc[p] = "idle"
  /\ issued < MaxGen
  /\ issued' = issued + 1
  /\ \E n \in Names, confirmed \in BOOLEAN :
       /\ op' = [op EXCEPT ![p] = "login"]
       /\ name' = [name EXCEPT ![p] = n]
       /\ yes' = [yes EXCEPT ![p] = confirmed]
       /\ gen' = [gen EXCEPT ![p] = issued + 1]
  /\ Return(p, "none", "waiting")
  /\ UNCHANGED <<lock, file, survivable, chain, cred, snap, history>>

BeginLogout(p) ==
  /\ pc[p] = "idle"
  /\ \E n \in Names :
       /\ op' = [op EXCEPT ![p] = "logout"]
       /\ name' = [name EXCEPT ![p] = n]
       /\ yes' = [yes EXCEPT ![p] = TRUE]
       /\ gen' = [gen EXCEPT ![p] = NoGen]
  /\ Return(p, "none", "waiting")
  /\ UNCHANGED <<store, cred, snap, history>>

-----------------------------------------------------------------------------
(* lockfile.With around Registry.transact *)

AcquireLock(p) ==
  /\ pc[p] = "waiting"
  /\ lock = Nobody
  /\ lock' = p
  /\ before' = [file |-> file, chain |-> chain]
  /\ Goto(p, "load")
  /\ UNCHANGED <<file, survivable, chain, issued, command, cred, snap, result,
                 retired, drifted>>

\* The context ends while the lock is polled.
GiveUpLock(p) ==
  /\ pc[p] = "waiting"
  /\ Exit(p, "error")
  /\ UNCHANGED <<store, history>>

LoadRegistry(p) ==
  /\ pc[p] = "load"
  /\ \/ /\ Loadable(file)
        /\ snap' = [snap EXCEPT ![p] = file]
        /\ Goto(p, "credential")
        /\ UNCHANGED result
     \/ /\ Return(p, "error", "release")      \* unreadable or refused
        /\ UNCHANGED snap
  /\ UNCHANGED <<store, command, cred, history>>

\* store.Load, then Login's overwrite confirmation.
ReadCredential(p) ==
  /\ pc[p] = "credential"
  /\ \/ /\ cred' = [cred EXCEPT ![p] = chain[name[p]]]
        /\ \/ /\ op[p] = "login"
              /\ ~yes[p]
              /\ snap[p][name[p]] # NoGen \/ chain[name[p]] # NoGen
              /\ Return(p, "error", "release")
           \/ /\ \/ op[p] = "logout"
                 \/ yes[p]
                 \/ snap[p][name[p]] = NoGen /\ chain[name[p]] = NoGen
              /\ Goto(p, "keychain")
              /\ UNCHANGED result
     \/ /\ Return(p, "error", "release")      \* store.Load fails
        /\ UNCHANGED cred
  /\ UNCHANGED <<store, command, snap, history>>

\* Login: store.Save, then Transaction.Put; a full registry starts the rollback.
SaveCredential(p) ==
  /\ pc[p] = "keychain"
  /\ op[p] = "login"
  /\ \/ /\ SetItem(name[p], gen[p])
        /\ \/ /\ CanPut(snap[p], name[p])
              /\ snap' = [snap EXCEPT ![p] = Put(@, name[p], gen[p])]
              /\ Goto(p, "save")
           \/ /\ ~CanPut(snap[p], name[p])
              /\ UNCHANGED snap
              /\ Goto(p, "rollback")
        /\ UNCHANGED result
     \/ /\ Return(p, "error", "release")      \* store.Save fails
        /\ UNCHANGED <<chain, snap>>
  /\ UNCHANGED <<lock, file, survivable, issued, command, cred, history>>

\* Logout: store.Delete, then Transaction.Remove; nothing is saved when the
\* registry holds no such profile.
DeleteCredential(p) ==
  /\ pc[p] = "keychain"
  /\ op[p] = "logout"
  /\ \/ /\ SetItem(name[p], NoGen)
        /\ \/ /\ snap[p][name[p]] # NoGen
              /\ snap' = [snap EXCEPT ![p] = Remove(@, name[p])]
              /\ Goto(p, "save")
              /\ UNCHANGED <<result, drifted>>
           \/ /\ snap[p][name[p]] = NoGen
              /\ Return(p, "ok", "release")
              /\ drifted' = drifted \ {name[p]}
              /\ UNCHANGED snap
     \/ /\ Return(p, "error", "release")      \* store.Delete fails
        /\ UNCHANGED <<chain, snap, drifted>>
  /\ UNCHANGED <<lock, file, survivable, issued, command, cred, before,
                 retired>>

\* Registry.save up to the rename.  The renamed file may not survive a power
\* loss until the directory is synced.
SaveRegistry(p) ==
  /\ pc[p] = "save"
  /\ \/ /\ file' = snap[p]
        /\ survivable' = survivable \cup {snap[p]}
        /\ retired' = retired \cup Dropped(file, snap[p])
        /\ drifted' = drifted \ {name[p]}
        /\ Goto(p, "sync")
     \/ /\ Goto(p, "rollback")
        /\ UNCHANGED <<file, survivable, retired, drifted>>
  /\ UNCHANGED <<lock, chain, issued, command, cred, snap, result, before>>

\* Bug: a directory that cannot be synced rolls the credential back.
SyncDirectoryRollsBack(p) ==
  /\ pc[p] = "sync"
  /\ \/ /\ survivable' = {file}
        /\ Return(p, "ok", "release")
     \/ /\ Goto(p, "rollback")
        /\ UNCHANGED <<survivable, result>>
  /\ UNCHANGED <<lock, file, chain, issued, command, cred, snap, history>>

\* Bug: a directory that cannot be synced is reported as a plain failure.
SyncDirectoryFails(p) ==
  /\ pc[p] = "sync"
  /\ \/ /\ survivable' = {file}
        /\ Return(p, "ok", "release")
     \/ /\ Return(p, "error", "release")
        /\ UNCHANGED survivable
  /\ UNCHANGED <<lock, file, chain, issued, command, cred, snap, history>>

\* The directory sync: its failure is a CommitError, which rolls nothing back.
SyncDirectory(p) ==
  /\ pc[p] = "sync"
  /\ \/ /\ survivable' = {file}
        /\ Return(p, "ok", "release")
     \/ /\ Return(p, "committed", "release")
        /\ UNCHANGED survivable
  /\ UNCHANGED <<lock, file, chain, issued, command, cred, snap, history>>

\* Bug: the credential is not put back.
RollbackSkipped(p) ==
  /\ pc[p] = "rollback"
  /\ Return(p, "error", "release")
  /\ UNCHANGED <<store, command, cred, snap, history>>

\* Login restores or deletes the credential; Logout restores it when there
\* was one (credentialChanged), and otherwise has nothing to do.
Rollback(p) ==
  /\ pc[p] = "rollback"
  /\ \/ /\ \/ /\ op[p] = "login" \/ cred[p] # NoGen
              /\ SetItem(name[p], cred[p])
           \/ /\ op[p] = "logout" /\ cred[p] = NoGen
              /\ UNCHANGED chain
        /\ Return(p, "error", "release")
        /\ UNCHANGED drifted
     \/ /\ op[p] = "login" \/ cred[p] # NoGen
        /\ Return(p, "inconsistent", "release")
        /\ drifted' = drifted \cup {name[p]}
        /\ UNCHANGED chain
  /\ UNCHANGED <<lock, file, survivable, issued, command, cred, snap, before,
                 retired>>

\* Bug: the lock is kept when the unlock fails.
ReleaseLockLeaks(p) ==
  /\ pc[p] = "release"
  /\ \/ Exit(p, result[p]) /\ lock' = Nobody
     \/ result[p] = "ok" /\ Exit(p, "committed") /\ UNCHANGED lock
  /\ before' = Untouched
  /\ UNCHANGED <<file, survivable, chain, issued, retired, drifted>>

\* Unlock and close.  An unlock error after a commit becomes a CommitError;
\* closing the descriptor frees the lock in every case.
ReleaseLock(p) ==
  /\ pc[p] = "release"
  /\ lock' = Nobody
  /\ \/ Exit(p, result[p])
     \/ result[p] = "ok" /\ Exit(p, "committed")
  /\ before' = Untouched
  /\ UNCHANGED <<file, survivable, chain, issued, retired, drifted>>

-----------------------------------------------------------------------------
(* loadSession: no lock is taken between the two reads *)

ReadProfile(p) ==
  /\ pc[p] = "idle"
  /\ \/ \E n \in Names :
          /\ Loadable(file) /\ file[n] # NoGen
          /\ name' = [name EXCEPT ![p] = n]
          /\ gen' = [gen EXCEPT ![p] = file[n]]
          /\ Return(p, "none", "bind")
          /\ UNCHANGED <<op, yes, cred, snap>>
     \/ Exit(p, "error")                      \* not found or unreadable
  /\ UNCHANGED <<store, history>>

\* Bug: the credential is not compared with the profile.
LoadBoundUnchecked(p) ==
  /\ pc[p] = "bind"
  /\ chain[name[p]] # NoGen
  /\ cred' = [cred EXCEPT ![p] = chain[name[p]]]
  /\ Return(p, "none", "session")
  /\ UNCHANGED <<store, command, snap, history>>

LoadBound(p) ==
  /\ pc[p] = "bind"
  /\ \/ /\ Bound(chain[name[p]], gen[p])
        /\ cred' = [cred EXCEPT ![p] = chain[name[p]]]
        /\ Return(p, "none", "session")
        /\ UNCHANGED <<command, snap>>
     \/ Exit(p, "error")                      \* Load fails, or drift
  /\ UNCHANGED <<store, history>>

EndSession(p) ==
  /\ pc[p] = "session"
  /\ Exit(p, "ok")
  /\ UNCHANGED <<store, history>>

-----------------------------------------------------------------------------
(* Process death and power loss *)

Unbound(registry) == {n \in Names : registry[n] # chain[n]}

\* A killed process runs neither its rollback nor its unlock; the kernel
\* frees its flock.
Crash(p) ==
  /\ pc[p] # "idle"
  /\ Exit(p, "none")
  /\ \/ /\ lock = p
        /\ lock' = Nobody
        /\ before' = Untouched
        /\ drifted' = drifted \cup Unbound(file)
     \/ /\ lock # p
        /\ UNCHANGED <<lock, before, drifted>>
  /\ UNCHANGED <<file, survivable, chain, issued, retired>>

PowerLoss ==
  /\ \E registry \in survivable :
       /\ file' = registry
       /\ survivable' = {registry}
       /\ drifted' = drifted \cup Unbound(registry)
  /\ lock' = Nobody
  /\ pc' = [p \in Procs |-> "idle"]
  /\ op' = [p \in Procs |-> "session"]
  /\ yes' = [p \in Procs |-> FALSE]
  /\ gen' = [p \in Procs |-> NoGen]
  /\ cred' = [p \in Procs |-> NoGen]
  /\ snap' = [p \in Procs |-> NoProfiles]
  /\ result' = [p \in Procs |-> "none"]
  /\ before' = Untouched
  /\ UNCHANGED <<chain, issued, name, retired>>

-----------------------------------------------------------------------------
Begin(p) == BeginLogin(p) \/ BeginLogout(p) \/ ReadProfile(p)

\* The steps of a command that holds the lock.
Transact(p) ==
  \/ LoadRegistry(p) \/ ReadCredential(p)
  \/ SaveCredential(p) \/ DeleteCredential(p)
  \/ SaveRegistry(p) \/ SyncDirectory(p) \/ Rollback(p)
  \/ ReleaseLock(p)

Step(p) ==
  \/ Begin(p) \/ AcquireLock(p) \/ GiveUpLock(p) \/ Transact(p)
  \/ LoadBound(p) \/ EndSession(p) \/ Crash(p)

Next == (\E p \in Procs : Step(p)) \/ PowerLoss

Spec == Init /\ [][Next]_vars

\* A process that holds the lock keeps running: nothing it does waits for
\* another process.  Waiting for the lock is not fair: the code polls it every
\* 25 ms without a queue.
FairSpec == Spec /\ \A p \in Procs : WF_vars(Transact(p))

-----------------------------------------------------------------------------
(* Properties *)

\* The holder p has changed the credential of n and not yet the registry.
HalfDone(n) ==
  \E p \in Procs : lock = p /\ name[p] = n /\ pc[p] \in {"save", "rollback"}

\* A profile and its credential agree: both are missing, or they are bound.
\* Only a transaction between its two writes, a crash or power loss, or a
\* failed rollback may leave them apart (auth/transaction.go:31-61, 77-100).
StoresAgree ==
  \A n \in Names : file[n] = chain[n] \/ HalfDone(n) \/ n \in drifted

\* A profile that a published registry has dropped is never accepted again: no
\* rollback, crash or lost directory entry revives the credential a login
\* replaced or a logout removed (profile/registry.go:27-30).
RetiredNeverUsable ==
  \A n \in Names : Usable(n) # NoGen => <<n, Usable(n)>> \notin retired

\* The registry on disk, and every version a power loss may leave, is one that
\* load accepts: no sequence of logins locks the user out
\* (profile/registry.go:66-83 against 223-225).
RegistryLoadable == \A registry \in survivable \cup {file} : Loadable(registry)

\* What a login or logout reports is what happened.  "ok" and the durability
\* warning mean both stores hold the new state; an error means both hold the
\* state they had when the lock was taken; and no other name was touched.
ReportIsTrue(p) ==
  LET n == name[p]
      old(m) == file[m] = before.file[m] /\ chain[m] = before.chain[m]
  IN /\ result'[p] \in {"ok", "committed"} => file[n] = gen[p] /\ chain[n] = gen[p]
     /\ result'[p] = "error" => old(n)
     /\ result'[p] = "inconsistent" =>
          file[n] = before.file[n] /\ chain[n] # file[n]
     /\ \A m \in Names \ {n} : old(m)

\* Every login and logout that ends by itself reports the truth
\* (profile/registry.go:129-155, auth/transaction.go:63-66 and 101-104).
ReportsAreTrue ==
  [][\A p \in Procs :
       pc[p] = "release" /\ pc'[p] = "idle" /\ result'[p] # "none"
         => ReportIsTrue(p)]_vars

\* The two unlocked reads of a session behave as one: when the credential is
\* accepted, its profile is still the registered one
\* (cli/session.go:26-42, auth/transaction.go:108-117).
SessionIsCurrent ==
  [][\A p \in Procs : pc[p] = "bind" /\ pc'[p] = "session"
        => file[name[p]] = cred'[p] /\ chain[name[p]] = cred'[p]]_vars

\* The lock is always given back, whatever fails under it
\* (lockfile/lockfile_unix.go:55-62).
LockIsReturned == \A p \in Procs : lock = p ~> lock # p

-----------------------------------------------------------------------------
(* The promise that login, logout and session loading implement. *)

Promise == INSTANCE BindingPromise WITH
  usable  <- [n \in Names |-> Usable(n)],
  dead    <- retired,
  session <- [p \in Procs |-> IF pc[p] = "session" THEN cred[p] ELSE NoGen]

\* Two stores written one after the other, and read one after the other
\* without a lock, look like one atomic map of bindings.
KeepsPromise == Promise!Spec
=============================================================================
