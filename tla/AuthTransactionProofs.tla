------------------------ MODULE AuthTransactionProofs ------------------------
(***************************************************************************)
(* Proofs about login, logout and session loading, for any number of       *)
(* processes, names, profiles and generations.                             *)
(*                                                                         *)
(* StoresAgree and RetiredNeverUsable are not inductive: they rest on who  *)
(* may be in a transaction (one process), on what that process remembers   *)
(* of the two stores, and on generations being fresh.  IInv adds these.    *)
(***************************************************************************)
EXTENDS AuthTransaction, FiniteSetTheorems, TLAPS

\* The processes inside a transaction are exactly the holder of the lock.
LockHeld == \A p \in Procs : pc[p] \in Stages <=> lock = p

\* What a login or logout is about: the profile it will publish, or none.
CommandOK(p) ==
  pc[p] \in Stages \cup {"waiting"} =>
    \/ op[p] = "login" /\ gen[p] \in Gens
    \/ op[p] = "logout" /\ gen[p] = NoGen

\* The snapshot is the registry, and then the registry with the edit made.
SnapshotOK(p) ==
  /\ pc[p] \in {"credential", "keychain"} => snap[p] = file
  /\ pc[p] = "save" => snap[p] = [file EXCEPT ![name[p]] = gen[p]]

\* The remembered credential is the one that agreed with the registry.
CredentialOK(p) ==
  /\ pc[p] = "keychain" => cred[p] = chain[name[p]]
  /\ pc[p] \in {"save", "rollback"} =>
       /\ cred[p] # NoGen => <<name[p], cred[p]>> \notin retired
       /\ cred[p] = file[name[p]] \/ name[p] \in drifted
  /\ pc[p] = "save" => chain[name[p]] = gen[p]
  /\ pc[p] = "rollback" /\ op[p] = "logout" => chain[name[p]] = NoGen

\* Generations grow: none in use is newer than the last one drawn.
Drawn ==
  /\ \A n \in Names : file[n] <= issued
  /\ \A r \in survivable, n \in Names : r[n] <= issued
  /\ \A n \in Names, g \in Gens : <<n, g>> \in retired => g <= issued
  /\ \A p \in Procs : gen[p] <= issued

Unpublished(p) ==
  /\ op[p] = "login"
  /\ pc[p] \in {"waiting", "load", "credential", "keychain", "save", "rollback"}

\* The generation of a login that has not been published is nobody else's.
Fresh ==
  /\ \A p \in Procs : Unpublished(p) =>
       /\ \A n \in Names : file[n] # gen[p]
       /\ \A n \in Names : <<n, gen[p]>> \notin retired
  /\ \A p, q \in Procs :
       p # q /\ Unpublished(p) /\ Unpublished(q) => gen[p] # gen[q]

\* The Keychain never holds a retired credential.
ChainNotRetired ==
  \A n \in Names : chain[n] # NoGen => <<n, chain[n]>> \notin retired

\* A profile read without the lock is still registered, or it is retired.
SeenOK(p) ==
  pc[p] = "bind" =>
    /\ gen[p] \in Gens
    /\ file[name[p]] = gen[p] \/ <<name[p], gen[p]>> \in retired

IInv ==
  /\ TypeOK
  /\ LockHeld
  /\ \A p \in Procs :
       CommandOK(p) /\ SnapshotOK(p) /\ CredentialOK(p) /\ SeenOK(p)
  /\ Drawn
  /\ Fresh
  /\ ChainNotRetired
  /\ StoresAgree

-----------------------------------------------------------------------------
(* Type correctness *)

\* The empty registry, and every edit of one, is a registry.
LEMMA EditsAreRegistries ==
  /\ NoGen \in Slots
  /\ NoProfiles \in Registries
  /\ Untouched \in [file : Registries, chain : Registries]
  /\ \A registry \in Registries, n \in Names, g \in Slots :
       [registry EXCEPT ![n] = g] \in Registries
  BY DEF NoGen, Slots, NoProfiles, Registries, Untouched

\* A process that ends leaves well-typed locals.
LEMMA ExitType ==
  ASSUME TypeOK, NEW p \in Procs, NEW how \in Results, Exit(p, how)
  PROVE  /\ pc' \in [Procs -> PCs]
         /\ op' \in [Procs -> {"login", "logout", "session"}]
         /\ name' \in [Procs -> Names]
         /\ yes' \in [Procs -> BOOLEAN]
         /\ gen' \in [Procs -> Slots]
         /\ cred' \in [Procs -> Slots]
         /\ snap' \in [Procs -> Registries]
         /\ result' \in [Procs -> Results]
  <1> USE EditsAreRegistries DEF Exit, Return, Goto, Forget, PCs
  <1>1. pc' = [pc EXCEPT ![p] = "idle"] /\ result' = [result EXCEPT ![p] = how]
    OBVIOUS
  <1>2. /\ op' = [op EXCEPT ![p] = "session"]
        /\ yes' = [yes EXCEPT ![p] = FALSE]
        /\ gen' = [gen EXCEPT ![p] = NoGen]
        /\ cred' = [cred EXCEPT ![p] = NoGen]
        /\ snap' = [snap EXCEPT ![p] = NoProfiles]
        /\ name' = name
    OBVIOUS
  <1>3. QED
    BY <1>1, <1>2 DEF TypeOK

\* No step changes the type of a variable.
LEMMA TypeStep == TypeOK /\ [Next]_vars => TypeOK'
  <1> SUFFICES ASSUME TypeOK, [Next]_vars
               PROVE  TypeOK'
    OBVIOUS
  <1> USE EditsAreRegistries DEF Goto, Return, PCs, Stages, Results
  <1>1. ASSUME NEW p \in Procs, BeginLogin(p)
        PROVE  TypeOK'
    <2>1. issued + 1 \in Gens /\ issued' \in 0 .. MaxGen
      BY <1>1, BoundsAssumption DEF BeginLogin, TypeOK, Gens
    <2>2. QED
      BY <1>1, <2>1 DEF BeginLogin, TypeOK, Slots, history
  <1>2. ASSUME NEW p \in Procs, BeginLogout(p)
        PROVE  TypeOK'
    BY <1>2 DEF BeginLogout, TypeOK, store, history
  <1>3. ASSUME NEW p \in Procs, AcquireLock(p)
        PROVE  TypeOK'
    BY <1>3 DEF AcquireLock, TypeOK, command
  <1>4. ASSUME NEW p \in Procs, GiveUpLock(p)
        PROVE  TypeOK'
    <2>1. Exit(p, "error") /\ UNCHANGED <<store, history>>
      BY <1>4 DEF GiveUpLock
    <2>2. QED
      BY <2>1, ExitType DEF TypeOK, store, history
  <1>5. ASSUME NEW p \in Procs, LoadRegistry(p)
        PROVE  TypeOK'
    <2>1. pc' \in [Procs -> PCs] /\ result' \in [Procs -> Results]
      BY <1>5 DEF LoadRegistry, TypeOK
    <2>2. snap' \in [Procs -> Registries]
      BY <1>5 DEF LoadRegistry, TypeOK
    <2>3. UNCHANGED <<store, command, cred, history>>
      BY <1>5 DEF LoadRegistry
    <2>4. QED
      BY <2>1, <2>2, <2>3 DEF TypeOK, store, command, history
  <1>6. ASSUME NEW p \in Procs, ReadCredential(p)
        PROVE  TypeOK'
    <2>1. chain[name[p]] \in Slots
      BY DEF TypeOK, Registries
    <2>2. QED
      BY <1>6, <2>1 DEF ReadCredential, TypeOK, store, command, history
  <1>7. ASSUME NEW p \in Procs, SaveCredential(p)
        PROVE  TypeOK'
    <2>1. pc' \in [Procs -> PCs] /\ result' \in [Procs -> Results]
      BY <1>7 DEF SaveCredential, SetItem, TypeOK
    <2>2. chain' \in Registries
      BY <1>7 DEF SaveCredential, SetItem, TypeOK
    <2>3. snap' \in [Procs -> Registries]
      <3>1. Put(snap[p], name[p], gen[p]) \in Registries
        BY DEF TypeOK, Put
      <3>2. QED
        BY <1>7, <3>1 DEF SaveCredential, SetItem, TypeOK
    <2>4. UNCHANGED <<lock, file, survivable, issued, command, cred, history>>
      BY <1>7 DEF SaveCredential, SetItem
    <2>5. QED
      BY <2>1, <2>2, <2>3, <2>4 DEF TypeOK, command, history
  <1>8. ASSUME NEW p \in Procs, DeleteCredential(p)
        PROVE  TypeOK'
    <2>1. pc' \in [Procs -> PCs] /\ result' \in [Procs -> Results]
      BY <1>8 DEF DeleteCredential, SetItem, TypeOK
    <2>2. chain' \in Registries /\ drifted' \in SUBSET Names
      BY <1>8 DEF DeleteCredential, SetItem, TypeOK
    <2>3. snap' \in [Procs -> Registries]
      <3>1. Remove(snap[p], name[p]) \in Registries
        BY DEF TypeOK, Remove
      <3>2. QED
        BY <1>8, <3>1 DEF DeleteCredential, SetItem, TypeOK
    <2>4. UNCHANGED <<lock, file, survivable, issued, command, cred, before,
                      retired>>
      BY <1>8 DEF DeleteCredential, SetItem
    <2>5. QED
      BY <2>1, <2>2, <2>3, <2>4 DEF TypeOK, command
  <1>9. ASSUME NEW p \in Procs, SaveRegistry(p)
        PROVE  TypeOK'
    <2>1. Dropped(file, snap[p]) \subseteq Names \X Gens
      BY DEF TypeOK, Registries, Dropped, Profiles, Slots
    <2>2. QED
      BY <1>9, <2>1 DEF SaveRegistry, TypeOK, command
  <1>10. ASSUME NEW p \in Procs, SyncDirectory(p)
         PROVE  TypeOK'
    BY <1>10 DEF SyncDirectory, TypeOK, command, history
  <1>11. ASSUME NEW p \in Procs, Rollback(p)
         PROVE  TypeOK'
    <2>1. pc' \in [Procs -> PCs] /\ result' \in [Procs -> Results]
      BY <1>11 DEF Rollback, SetItem, TypeOK
    <2>2. chain' \in Registries /\ drifted' \in SUBSET Names
      BY <1>11 DEF Rollback, SetItem, TypeOK
    <2>3. UNCHANGED <<lock, file, survivable, issued, command, cred, snap,
                      before, retired>>
      BY <1>11 DEF Rollback, SetItem
    <2>4. QED
      BY <2>1, <2>2, <2>3 DEF TypeOK, command
  <1>12. ASSUME NEW p \in Procs, ReleaseLock(p)
         PROVE  TypeOK'
    <2>1. /\ lock' = Nobody /\ before' = Untouched
          /\ UNCHANGED <<file, survivable, chain, issued, retired, drifted>>
          /\ \E how \in Results : Exit(p, how)
      BY <1>12 DEF ReleaseLock, TypeOK
    <2>2. QED
      BY <2>1, ExitType DEF TypeOK
  <1>13. ASSUME NEW p \in Procs, ReadProfile(p)
         PROVE  TypeOK'
    <2>1. CASE Exit(p, "error") /\ UNCHANGED <<store, history>>
      BY <2>1, ExitType DEF TypeOK, store, history
    <2>2. ASSUME NEW n \in Names,
                 name' = [name EXCEPT ![p] = n],
                 gen' = [gen EXCEPT ![p] = file[n]],
                 Return(p, "none", "bind"),
                 UNCHANGED <<op, yes, cred, snap>>,
                 UNCHANGED <<store, history>>
          PROVE  TypeOK'
      <3>1. file[n] \in Slots
        BY DEF TypeOK, Registries
      <3>2. QED
        BY <2>2, <3>1 DEF TypeOK, store, history
    <2>3. QED
      BY <1>13, <2>1, <2>2 DEF ReadProfile
  <1>14. ASSUME NEW p \in Procs, LoadBound(p)
         PROVE  TypeOK'
    <2>1. CASE Exit(p, "error") /\ UNCHANGED <<store, history>>
      BY <2>1, ExitType DEF TypeOK, store, history
    <2>2. ASSUME cred' = [cred EXCEPT ![p] = chain[name[p]]],
                 Return(p, "none", "session"),
                 UNCHANGED <<command, snap>>,
                 UNCHANGED <<store, history>>
          PROVE  TypeOK'
      <3>1. chain[name[p]] \in Slots
        BY DEF TypeOK, Registries
      <3>2. QED
        BY <2>2, <3>1 DEF TypeOK, store, command, history
    <2>3. QED
      BY <1>14, <2>1, <2>2 DEF LoadBound
  <1>15. ASSUME NEW p \in Procs, EndSession(p)
         PROVE  TypeOK'
    <2>1. Exit(p, "ok") /\ UNCHANGED <<store, history>>
      BY <1>15 DEF EndSession
    <2>2. QED
      BY <2>1, ExitType DEF TypeOK, store, history
  <1>16. ASSUME NEW p \in Procs, Crash(p)
         PROVE  TypeOK'
    <2>1. /\ Exit(p, "none")
          /\ UNCHANGED <<file, survivable, chain, issued, retired>>
      BY <1>16 DEF Crash
    <2>2. /\ lock' \in Procs \cup {Nobody}
          /\ before' \in [file : Registries, chain : Registries]
          /\ drifted' \in SUBSET Names
      BY <1>16 DEF Crash, TypeOK, Unbound
    <2>3. QED
      BY <2>1, <2>2, ExitType DEF TypeOK
  <1>17. CASE PowerLoss
    BY <1>17 DEF PowerLoss, TypeOK, Unbound
  <1>18. CASE UNCHANGED vars
    BY <1>18 DEF TypeOK, vars, store, local, history
  <1>19. QED
    BY <1>1, <1>2, <1>3, <1>4, <1>5, <1>6, <1>7, <1>8, <1>9, <1>10, <1>11,
       <1>12, <1>13, <1>14, <1>15, <1>16, <1>17, <1>18
       DEF Next, Step, Begin, Transact

\* Type correctness: every variable keeps its type.
THEOREM TypeCorrect == Spec => []TypeOK
  <1>1. Init => TypeOK
    BY BoundsAssumption, EditsAreRegistries DEF Init, TypeOK, PCs, Results
  <1>2. QED
    BY <1>1, TypeStep, PTL DEF Spec

-----------------------------------------------------------------------------
(* The inductive invariant, part by part.  p is the process that moves and q  *)
(* the one whose part is shown.                                            *)

Local(q) == <<pc[q], op[q], name[q], gen[q], cred[q], snap[q]>>

\* A step of one process leaves the locals of the others alone.
LEMMA Frame ==
  ASSUME TypeOK, NEW p \in Procs, NEW q \in Procs, q # p, Step(p)
  PROVE  Local(q)' = Local(q)
  <1> USE DEF TypeOK, Local, Goto, Return, Exit, Forget
  <1>1. CASE Begin(p)
    BY <1>1 DEF Begin, BeginLogin, BeginLogout, ReadProfile
  <1>2. CASE AcquireLock(p) \/ GiveUpLock(p)
    BY <1>2 DEF AcquireLock, GiveUpLock, command
  <1>3. CASE LoadRegistry(p) \/ ReadCredential(p)
    BY <1>3 DEF LoadRegistry, ReadCredential, command
  <1>4. CASE SaveCredential(p) \/ DeleteCredential(p)
    BY <1>4 DEF SaveCredential, SetItem, DeleteCredential, command
  <1>5. CASE SaveRegistry(p) \/ SyncDirectory(p) \/ Rollback(p)
    BY <1>5 DEF SaveRegistry, SyncDirectory, Rollback, SetItem, command
  <1>6. CASE ReleaseLock(p) \/ Crash(p)
    BY <1>6 DEF ReleaseLock, Crash
  <1>7. CASE LoadBound(p) \/ EndSession(p)
    BY <1>7 DEF LoadBound, EndSession, command
  <1>8. QED
    BY <1>1, <1>2, <1>3, <1>4, <1>5, <1>6, <1>7 DEF Step, Transact

\* A process outside a transaction leaves both stores alone.
LEMMA StoreFrame ==
  ASSUME LockHeld, NEW p \in Procs, pc[p] \notin Stages, Step(p)
  PROVE  UNCHANGED <<file, survivable, chain, retired, drifted>>
  <1>1. lock # p
    BY DEF LockHeld
  <1>2. CASE Begin(p)
    BY <1>2 DEF Begin, BeginLogin, BeginLogout, ReadProfile, store, history
  <1>3. CASE AcquireLock(p) \/ GiveUpLock(p)
    BY <1>3 DEF AcquireLock, GiveUpLock, store, history
  <1>4. CASE Transact(p)
    BY <1>4 DEF Stages, Transact, LoadRegistry, ReadCredential, SaveCredential, SetItem,
       DeleteCredential, SaveRegistry, SyncDirectory, Rollback, ReleaseLock
  <1>5. CASE LoadBound(p) \/ EndSession(p)
    BY <1>5 DEF LoadBound, EndSession, store, history
  <1>6. CASE Crash(p)
    BY <1>1, <1>6 DEF Crash
  <1>7. QED
    BY <1>2, <1>3, <1>4, <1>5, <1>6 DEF Step

\* The lock keeps one process in a transaction at a time.
LEMMA LockStep ==
  ASSUME TypeOK, LockHeld, NEW p \in Procs, Step(p)
  PROVE  LockHeld'
  <1> USE ProcsAssumption
      DEF TypeOK, LockHeld, Stages, PCs, Goto, Return, Exit, store
  <1>1. CASE Begin(p)
    BY <1>1 DEF Begin, BeginLogin, BeginLogout, ReadProfile
  <1>2. CASE AcquireLock(p) \/ GiveUpLock(p)
    BY <1>2 DEF AcquireLock, GiveUpLock
  <1>3. CASE LoadRegistry(p) \/ ReadCredential(p)
    BY <1>3 DEF LoadRegistry, ReadCredential
  <1>4. CASE SaveCredential(p) \/ DeleteCredential(p)
    BY <1>4 DEF SaveCredential, SetItem, DeleteCredential
  <1>5. CASE SaveRegistry(p) \/ SyncDirectory(p) \/ Rollback(p)
    BY <1>5 DEF SaveRegistry, SyncDirectory, Rollback, SetItem
  <1>6. CASE ReleaseLock(p) \/ Crash(p)
    BY <1>6 DEF ReleaseLock, Crash
  <1>7. CASE LoadBound(p) \/ EndSession(p)
    BY <1>7 DEF LoadBound, EndSession
  <1>8. QED
    BY <1>1, <1>2, <1>3, <1>4, <1>5, <1>6, <1>7 DEF Step, Transact

\* At most one process is in a transaction.
LEMMA OneHolder ==
  ASSUME LockHeld, NEW p \in Procs, NEW q \in Procs, pc[q] \in Stages, q # p
  PROVE  pc[p] \notin Stages
  BY DEF LockHeld

\* A transaction step keeps the command it works for, until it ends.
LEMMA CommandKept ==
  ASSUME TypeOK, NEW p \in Procs, Transact(p)
  PROVE  /\ pc[p] \in Stages
         /\ \/ pc'[p] \in Stages /\ UNCHANGED command
            \/ pc'[p] = "idle"
  <1> USE DEF TypeOK, Stages, Goto, Return, Exit
  <1>1. CASE LoadRegistry(p) \/ ReadCredential(p)
    BY <1>1 DEF LoadRegistry, ReadCredential
  <1>2. CASE SaveCredential(p) \/ DeleteCredential(p)
    BY <1>2 DEF SaveCredential, SetItem, DeleteCredential
  <1>3. CASE SaveRegistry(p) \/ SyncDirectory(p) \/ Rollback(p)
    BY <1>3 DEF SaveRegistry, SyncDirectory, Rollback, SetItem
  <1>4. CASE ReleaseLock(p)
    BY <1>4 DEF ReleaseLock
  <1>5. QED
    BY <1>1, <1>2, <1>3, <1>4 DEF Transact

\* A command keeps the kind and the generation it began with.
LEMMA CommandStep ==
  ASSUME TypeOK, NEW p \in Procs, NEW q \in Procs, CommandOK(q), Step(p)
  PROVE  CommandOK(q)'
  <1>1. CASE q # p
    BY <1>1, Frame DEF Local, CommandOK
  <1>2. CASE q = p
    <2> USE <1>2 DEF CommandOK, TypeOK, Goto, Return, Exit
    <2>1. CASE BeginLogin(p)
      <3>1. gen'[p] \in Gens /\ op'[p] = "login"
        BY <2>1, BoundsAssumption DEF BeginLogin, Gens
      <3>2. QED
        BY <3>1
    <2>2. CASE BeginLogout(p)
      BY <2>2 DEF BeginLogout
    <2>3. CASE AcquireLock(p)
      BY <2>3 DEF AcquireLock, command
    <2>4. CASE Transact(p)
      BY <2>4, CommandKept DEF command, Stages
    <2>5. CASE ReadProfile(p) \/ GiveUpLock(p) \/ Crash(p)
      BY <2>5 DEF ReadProfile, GiveUpLock, Crash, Stages
    <2>6. CASE LoadBound(p) \/ EndSession(p)
      BY <2>6 DEF LoadBound, EndSession, Stages
    <2>7. QED
      BY <2>1, <2>2, <2>3, <2>4, <2>5, <2>6 DEF Step, Begin
  <1>3. QED
    BY <1>1, <1>2

\* The snapshot stays what the registry is, or will be after the edit.
LEMMA SnapshotStep ==
  ASSUME TypeOK, LockHeld, NEW p \in Procs, NEW q \in Procs, CommandOK(q),
         SnapshotOK(q), Step(p)
  PROVE  SnapshotOK(q)'
  <1>1. CASE q # p
    <2>1. CASE pc[q] \in Stages
      BY <1>1, <2>1, Frame, OneHolder, StoreFrame DEF Local, SnapshotOK
    <2>2. CASE pc[q] \notin Stages
      BY <1>1, <2>2, Frame DEF Local, SnapshotOK, Stages
    <2>3. QED
      BY <2>1, <2>2
  <1>2. CASE q = p
    <2> USE <1>2 DEF SnapshotOK, TypeOK, Goto, Return, Exit
    <2>1. CASE LoadRegistry(p)
      BY <2>1 DEF LoadRegistry, store
    <2>2. CASE ReadCredential(p)
      BY <2>2 DEF ReadCredential, store
    <2>3. CASE SaveCredential(p)
      BY <2>3 DEF SaveCredential, SetItem, Put, command
    <2>4. CASE DeleteCredential(p)
      BY <2>4 DEF DeleteCredential, SetItem, Remove, command, CommandOK, Stages, Gens
    <2>5. CASE SaveRegistry(p) \/ SyncDirectory(p) \/ Rollback(p)
      BY <2>5 DEF SaveRegistry, SyncDirectory, Rollback, SetItem
    <2>6. CASE ReleaseLock(p) \/ Crash(p) \/ GiveUpLock(p) \/ EndSession(p)
      BY <2>6 DEF ReleaseLock, Crash, GiveUpLock, EndSession
    <2>7. CASE Begin(p) \/ AcquireLock(p) \/ LoadBound(p)
      BY <2>7 DEF Begin, BeginLogin, BeginLogout, ReadProfile, AcquireLock,
         LoadBound
    <2>8. QED
      BY <2>1, <2>2, <2>3, <2>4, <2>5, <2>6, <2>7 DEF Step, Transact
  <1>3. QED
    BY <1>1, <1>2

\* The Keychain credential of a login or logout is not a retired one.
LEMMA CredentialStep ==
  ASSUME TypeOK, LockHeld, ChainNotRetired, StoresAgree,
         NEW p \in Procs, NEW q \in Procs, CommandOK(q), CredentialOK(q),
         SnapshotOK(q), Step(p)
  PROVE  CredentialOK(q)'
  <1>1. CASE q # p
    <2>1. CASE pc[q] \in Stages
      BY <1>1, <2>1, Frame, OneHolder, StoreFrame DEF Local, CredentialOK
    <2>2. CASE pc[q] \notin Stages
      BY <1>1, <2>2, Frame DEF Local, CredentialOK, Stages
    <2>3. QED
      BY <2>1, <2>2
  <1>2. CASE q = p
    <2> USE <1>2 DEF CredentialOK, TypeOK, Goto, Return, Exit
    <2>1. CASE LoadRegistry(p)
      BY <2>1 DEF LoadRegistry
    <2>2. CASE ReadCredential(p)
      BY <2>2 DEF ReadCredential, store, command
    <2>3. CASE SaveCredential(p) \/ DeleteCredential(p)
      <3>1. pc[p] = "keychain" /\ pc[p] \in Stages
        BY <2>3 DEF SaveCredential, SetItem, DeleteCredential, Stages
      <3>2. cred[p] = file[name[p]] \/ name[p] \in drifted
        BY <3>1 DEF StoresAgree, HalfDone, LockHeld
      <3>3. cred[p] # NoGen => <<name[p], cred[p]>> \notin retired
        BY <3>1 DEF ChainNotRetired
      <3>4. CASE SaveCredential(p)
        BY <3>2, <3>3, <3>4
           DEF SaveCredential, SetItem, command, history, Registries
      <3>5. CASE DeleteCredential(p)
        <4>1. gen[p] = NoGen
          BY <3>1, <3>5 DEF DeleteCredential, SetItem, CommandOK
        <4>2. CASE snap[p][name[p]] = NoGen
          BY <3>5, <4>2 DEF DeleteCredential, SetItem
        <4>3. CASE snap[p][name[p]] # NoGen
          BY <3>2, <3>3, <3>5, <4>1, <4>3
             DEF DeleteCredential, SetItem, command, Registries
        <4>4. QED
          BY <4>2, <4>3
      <3>6. QED
        BY <2>3, <3>4, <3>5
    <2>4. CASE SaveRegistry(p)
      <3>1. CASE pc'[p] = "rollback"
        BY <2>4, <3>1 DEF SaveRegistry, command, CommandOK, Stages
      <3>2. CASE pc'[p] # "rollback"
        BY <2>4, <3>2 DEF SaveRegistry
      <3>3. QED
        BY <3>1, <3>2
    <2>5. CASE SyncDirectory(p) \/ Rollback(p)
      BY <2>5 DEF SyncDirectory, Rollback, SetItem
    <2>6. CASE ReleaseLock(p) \/ Crash(p) \/ GiveUpLock(p) \/ EndSession(p)
      BY <2>6 DEF ReleaseLock, Crash, GiveUpLock, EndSession
    <2>7. CASE Begin(p) \/ AcquireLock(p) \/ LoadBound(p)
      BY <2>7 DEF Begin, BeginLogin, BeginLogout, ReadProfile, AcquireLock,
         LoadBound
    <2>8. QED
      BY <2>1, <2>2, <2>3, <2>4, <2>5, <2>6, <2>7 DEF Step, Transact
  <1>3. QED
    BY <1>1, <1>2

\* A profile read without the lock stays registered, or is retired.
LEMMA SeenStep ==
  ASSUME TypeOK, LockHeld, Fresh,
         NEW p \in Procs, NEW q \in Procs, SnapshotOK(p), CommandOK(p), SeenOK(q),
         Step(p)
  PROVE  SeenOK(q)'
  <1>1. CASE q # p
    <2>1. Local(q)' = Local(q)
      BY <1>1, Frame
    <2>2. CASE UNCHANGED <<file, retired>>
      BY <2>1, <2>2 DEF Local, SeenOK
    <2>3. CASE ~UNCHANGED <<file, retired>>
      <3>1. SaveRegistry(p) /\ file' = snap[p]
                            /\ retired' = retired \cup Dropped(file, snap[p])
        BY <2>3 DEF Step, Begin, BeginLogin, BeginLogout, ReadProfile,
           AcquireLock, GiveUpLock, Transact, LoadRegistry, ReadCredential,
           SaveCredential, DeleteCredential, SaveRegistry, SyncDirectory,
           Rollback, ReleaseLock, LoadBound, EndSession, Crash, store, history
      <3>2. ASSUME pc[q] = "bind", file[name[q]] = gen[q], gen[q] \in Gens
            PROVE  \/ file'[name[q]] = gen[q]
                   \/ <<name[q], gen[q]>> \in retired'
        BY <3>1, <3>2 DEF Dropped, Profiles, Gens, NoGen, TypeOK
      <3>3. QED
        BY <2>1, <3>1, <3>2 DEF Local, SeenOK
    <2>4. QED
      BY <2>2, <2>3
  <1>2. CASE q = p
    <2> USE <1>2 DEF SeenOK, TypeOK, Goto, Return, Exit
    <2>1. CASE ReadProfile(p)
      BY <2>1 DEF ReadProfile, store, history, Registries, Slots
    <2>2. CASE Transact(p)
      BY <2>2, CommandKept DEF Stages
    <2>3. CASE GiveUpLock(p) \/ EndSession(p) \/ Crash(p) \/ LoadBound(p)
      BY <2>3 DEF GiveUpLock, EndSession, Crash, LoadBound
    <2>4. CASE BeginLogin(p) \/ BeginLogout(p) \/ AcquireLock(p)
      BY <2>4 DEF BeginLogin, BeginLogout, AcquireLock
    <2>5. QED
      BY <2>1, <2>2, <2>3, <2>4 DEF Step, Begin
  <1>3. QED
    BY <1>1, <1>2

\* No generation in use is newer than the last one drawn.
LEMMA DrawnStep ==
  ASSUME TypeOK, Drawn, NEW p \in Procs, SnapshotOK(p), CommandOK(p), Step(p)
  PROVE  Drawn'
  <1> USE BoundsAssumption
  <1>1. CASE BeginLogin(p)
    <2>1. /\ issued' = issued + 1 /\ issued \in Nat
          /\ UNCHANGED <<file, survivable, retired>>
          /\ gen' = [gen EXCEPT ![p] = issued + 1]
      BY <1>1 DEF BeginLogin, TypeOK, history
    <2>2. \A n \in Names : file[n] \in Nat
      BY DEF TypeOK, Registries, Slots, Gens, NoGen
    <2>3. \A r \in survivable, n \in Names : r[n] \in Nat
      BY DEF TypeOK, Registries, Slots, Gens, NoGen
    <2>4. \A q \in Procs : gen[q] \in Nat
      BY DEF TypeOK, Slots, Gens, NoGen
    <2>5. \A q \in Procs : gen'[q] <= issued'
      BY <2>1, <2>4 DEF Drawn, TypeOK
    <2>6. \A g \in Gens : g \in Nat
      BY DEF Gens
    <2>7. QED
      BY <2>1, <2>2, <2>3, <2>5, <2>6 DEF Drawn
  <1>2. CASE BeginLogout(p)
    BY <1>2 DEF BeginLogout, Drawn, TypeOK, NoGen, store, history
  <1>3. CASE SaveRegistry(p)
    <2>1. CASE pc'[p] = "sync"
      <3>1. snap[p] = [file EXCEPT ![name[p]] = gen[p]]
        BY <1>3 DEF SaveRegistry, SnapshotOK
      <3>2. \A n \in Names : snap[p][n] <= issued
        BY <3>1 DEF Drawn, TypeOK, Registries
      <3>3. \A n \in Names, g \in Gens : <<n, g>> \in Dropped(file, snap[p])
              => g <= issued
        BY DEF Dropped, Profiles, Drawn
      <3>4. /\ file' = snap[p] /\ survivable' = survivable \cup {snap[p]}
            /\ retired' = retired \cup Dropped(file, snap[p])
            /\ UNCHANGED <<issued, gen>>
        BY <1>3, <2>1 DEF SaveRegistry, command, Goto, TypeOK
      <3>5. QED
        BY <3>2, <3>3, <3>4 DEF Drawn
    <2>2. CASE pc'[p] # "sync"
      BY <1>3, <2>2 DEF SaveRegistry, Drawn, command, Goto, TypeOK
    <2>3. QED
      BY <2>1, <2>2
  <1>4. CASE SyncDirectory(p)
    BY <1>4 DEF SyncDirectory, Drawn, command, history
  <1>5. CASE /\ UNCHANGED <<file, survivable, issued, retired>>
             /\ UNCHANGED gen \/ Exit(p, "error")
    BY <1>5 DEF Drawn, Exit, Forget, TypeOK, NoGen
  <1>6. CASE ReadProfile(p)
    BY <1>6 DEF ReadProfile, Drawn, TypeOK, Exit, Forget, NoGen, store, history
  <1>7. CASE ReleaseLock(p) \/ Crash(p) \/ EndSession(p)
    BY <1>7 DEF ReleaseLock, Crash, EndSession, Drawn, TypeOK, Exit, Forget, NoGen,
       store, history
  <1>8. QED
    BY <1>1, <1>2, <1>3, <1>4, <1>5, <1>6, <1>7
       DEF Step, Begin, AcquireLock, GiveUpLock, Transact, LoadRegistry,
           ReadCredential, SaveCredential, DeleteCredential, Rollback,
           LoadBound, store, command, history

\* A login that has not published keeps a generation nobody else has.
LEMMA FreshStep ==
  ASSUME TypeOK, Drawn, Fresh, NEW p \in Procs, SnapshotOK(p), Step(p),
         \A q \in Procs : CommandOK(q)
  PROVE  Fresh'
  <1>1. CASE BeginLogin(p)
    <2>1. gen'[p] = issued + 1 /\ UNCHANGED <<file, retired>>
      BY <1>1 DEF BeginLogin, TypeOK, history
    <2>2. \A n \in Names : file[n] # gen'[p] /\ <<n, gen'[p]>> \notin retired
      BY <2>1, BoundsAssumption DEF Drawn, TypeOK, Registries, Slots, Gens, NoGen
    <2>3. \A q \in Procs : q # p => gen'[q] # gen'[p] /\ gen'[q] = gen[q]
      BY <2>1, <1>1, BoundsAssumption DEF BeginLogin, Drawn, TypeOK, Slots, Gens, NoGen
    <2>4. \A q \in Procs : q # p /\ Unpublished(q)' => Unpublished(q)
      BY <1>1, Frame DEF Local, Unpublished
    <2>5. QED
      BY <2>1, <2>2, <2>3, <2>4 DEF Fresh
  <1>2. CASE SaveRegistry(p) /\ pc'[p] = "sync"
    <2>1. /\ pc[p] = "save" /\ UNCHANGED <<op, gen>> /\ file' = snap[p]
          /\ retired' = retired \cup Dropped(file, snap[p])
          /\ snap[p] = [file EXCEPT ![name[p]] = gen[p]]
      BY <1>2 DEF SaveRegistry, SnapshotOK, command, Goto, TypeOK
    <2>2. ~Unpublished(p)'
      BY <1>2 DEF Unpublished
    <2>3. \A q \in Procs : q # p /\ Unpublished(q)' =>
            Unpublished(q) /\ gen'[q] = gen[q]
      BY <1>2, Frame DEF Local, Unpublished, Step, Transact
    <2>4. ASSUME NEW q \in Procs, q # p, Unpublished(q)
          PROVE  gen[q] # gen[p]
      <3>1. CASE op[p] = "login"
        BY <2>1, <2>4, <3>1 DEF Fresh, Unpublished
      <3>2. CASE op[p] # "login"
        BY <2>1, <2>4, <3>2
           DEF CommandOK, Unpublished, Stages, Gens, NoGen
      <3>3. QED
        BY <3>1, <3>2
    <2>5. \A q \in Procs : q # p /\ Unpublished(q) => \A n \in Names :
            snap[p][n] # gen[q] /\ <<n, gen[q]>> \notin Dropped(file, snap[p])
      BY <2>1, <2>4 DEF Fresh, Dropped, Profiles, TypeOK, Registries
    <2>6. QED
      BY <2>1, <2>2, <2>3, <2>5 DEF Fresh
  <1>3. CASE ~BeginLogin(p) /\ UNCHANGED <<file, retired>>
    <2>1. Unpublished(p)' => Unpublished(p) /\ gen'[p] = gen[p]
      <3> USE DEF Unpublished, TypeOK, Goto, Return, Exit, Forget
      <3>1. CASE BeginLogout(p)
        BY <3>1 DEF BeginLogout
      <3>2. CASE AcquireLock(p) \/ GiveUpLock(p)
        BY <3>2 DEF AcquireLock, GiveUpLock, command
      <3>3. CASE LoadRegistry(p) \/ ReadCredential(p)
        BY <3>3 DEF LoadRegistry, ReadCredential, command
      <3>4. CASE SaveCredential(p) \/ DeleteCredential(p)
        BY <3>4 DEF SaveCredential, SetItem, DeleteCredential, command
      <3>5. CASE SaveRegistry(p) \/ SyncDirectory(p) \/ Rollback(p)
        BY <3>5 DEF SaveRegistry, SyncDirectory, Rollback, SetItem, command
      <3>6. CASE ReleaseLock(p) \/ Crash(p) \/ EndSession(p)
        BY <3>6 DEF ReleaseLock, Crash, EndSession
      <3>7. CASE ReadProfile(p) \/ LoadBound(p)
        BY <3>7 DEF ReadProfile, LoadBound
      <3>8. QED
        BY <1>3, <3>1, <3>2, <3>3, <3>4, <3>5, <3>6, <3>7
           DEF Step, Begin, Transact
    <2>2. \A q \in Procs : Unpublished(q)' => Unpublished(q) /\ gen'[q] = gen[q]
      BY <2>1, Frame DEF Local, Unpublished
    <2>3. QED
      BY <1>3, <2>2 DEF Fresh
  <1>4. CASE SaveRegistry(p) /\ pc'[p] # "sync"
    BY <1>4, <1>3 DEF SaveRegistry, BeginLogin, Goto, TypeOK
  <1>5. QED
    BY <1>1, <1>2, <1>3, <1>4
       DEF Step, Begin, BeginLogout, ReadProfile, AcquireLock, GiveUpLock,
           Transact, LoadRegistry, ReadCredential, SaveCredential,
           DeleteCredential, SyncDirectory, Rollback, ReleaseLock, LoadBound,
           EndSession, Crash, store, history

\* No step puts a retired credential into the Keychain.
LEMMA ChainStep ==
  ASSUME TypeOK, Fresh, ChainNotRetired, NEW p \in Procs, SnapshotOK(p),
         CommandOK(p), CredentialOK(p), Step(p)
  PROVE  ChainNotRetired'
  <1>1. CASE SaveCredential(p)
    <2>1. \A n \in Names : <<n, gen[p]>> \notin retired
      BY <1>1 DEF SaveCredential, SetItem, Fresh, Unpublished
    <2>2. retired' = retired /\ (\/ chain' = [chain EXCEPT ![name[p]] = gen[p]]
                                \/ chain' = chain)
      BY <1>1 DEF SaveCredential, SetItem, history
    <2>3. QED
      BY <2>1, <2>2 DEF ChainNotRetired, TypeOK, Registries
  <1>2. CASE DeleteCredential(p)
    BY <1>2 DEF DeleteCredential, SetItem, ChainNotRetired, TypeOK, Registries
  <1>3. CASE SaveRegistry(p)
    <2>1. /\ chain' = chain /\ chain[name[p]] = gen[p]
          /\ snap[p] = [file EXCEPT ![name[p]] = gen[p]]
          /\ retired' = retired \/ retired' = retired \cup Dropped(file, snap[p])
      BY <1>3 DEF SaveRegistry, SnapshotOK, CredentialOK
    <2>2. ASSUME NEW n \in Names, chain[n] # NoGen
          PROVE  <<n, chain[n]>> \notin Dropped(file, snap[p])
      <3>1. CASE n = name[p]
        <4>1. op[p] = "login"
          BY <1>3, <2>1, <2>2, <3>1 DEF SaveRegistry, CommandOK, Stages
        <4>2. file[n] # gen[p]
          BY <1>3, <4>1 DEF SaveRegistry, Fresh, Unpublished
        <4>3. QED
          BY <2>1, <3>1, <4>2 DEF Dropped
      <3>2. CASE n # name[p]
        BY <2>1, <3>2 DEF Dropped, Profiles, TypeOK, Registries
      <3>3. QED
        BY <3>1, <3>2
    <2>3. QED
      BY <2>1, <2>2 DEF ChainNotRetired
  <1>4. CASE Rollback(p)
    <2>1. retired' = retired /\ (\/ chain' = [chain EXCEPT ![name[p]] = cred[p]]
                                \/ chain' = chain)
      BY <1>4 DEF Rollback, SetItem
    <2>2. cred[p] # NoGen => <<name[p], cred[p]>> \notin retired
      BY <1>4 DEF Rollback, SetItem, CredentialOK
    <2>3. QED
      BY <2>1, <2>2 DEF ChainNotRetired, TypeOK, Registries
  <1>5. CASE UNCHANGED <<chain, retired>>
    BY <1>5 DEF ChainNotRetired
  <1>6. QED
    BY <1>1, <1>2, <1>3, <1>4, <1>5
       DEF Step, Begin, BeginLogin, BeginLogout, ReadProfile, AcquireLock,
           GiveUpLock, Transact, LoadRegistry, ReadCredential, SyncDirectory,
           ReleaseLock, LoadBound, EndSession, Crash, store, history

\* No step of a command pulls the two stores apart for good.
LEMMA AgreeStep ==
  ASSUME TypeOK, LockHeld, StoresAgree, NEW p \in Procs, SnapshotOK(p),
         CommandOK(p), CredentialOK(p), Step(p)
  PROVE  StoresAgree'
  <1>1. CASE pc[p] \notin Stages
    <2>1. UNCHANGED <<file, chain, drifted>>
      BY <1>1, StoreFrame
    <2>2. ASSUME NEW n \in Names, HalfDone(n)
          PROVE  HalfDone(n)'
      <3>1. PICK q \in Procs : lock = q /\ name[q] = n /\ pc[q] \in {"save", "rollback"}
        BY <2>2 DEF HalfDone
      <3>2. q # p /\ Local(q)' = Local(q)
        BY <1>1, <3>1, Frame DEF Stages
      <3>3. lock' = q
        BY <3>1, <3>2, LockStep DEF LockHeld, Local, Stages
      <3>4. QED
        BY <3>1, <3>2, <3>3 DEF HalfDone, Local
    <2>3. QED
      BY <2>1, <2>2 DEF StoresAgree
  <1>2. CASE pc[p] \in Stages
    <2>1. lock = p
      BY <1>2 DEF LockHeld
    <2> DEFINE Half(n) == name[p] = n /\ pc[p] \in {"save", "rollback"}
    <2>2. \A n \in Names : file[n] = chain[n] \/ Half(n) \/ n \in drifted
      BY <2>1 DEF StoresAgree, HalfDone
    <2>3. CASE LoadRegistry(p) \/ ReadCredential(p) \/ SyncDirectory(p)
      <3>1. pc[p] \notin {"save", "rollback"} /\ UNCHANGED <<file, chain, drifted>>
        BY <2>3 DEF LoadRegistry, ReadCredential, SyncDirectory, store, history
      <3>2. QED
        BY <2>2, <3>1 DEF StoresAgree
    <2>4. CASE ReleaseLock(p)
      <3>1. pc[p] \notin {"save", "rollback"} /\ UNCHANGED <<file, chain, drifted>>
        BY <2>4 DEF ReleaseLock
      <3>2. QED
        BY <2>2, <3>1 DEF StoresAgree
    <2>5. CASE Crash(p)
      <3>1. UNCHANGED <<file, chain>> /\ drifted' = drifted \cup Unbound(file)
        BY <2>1, <2>5 DEF Crash
      <3>2. QED
        BY <3>1 DEF StoresAgree, Unbound
    <2>6. CASE SaveCredential(p)
      <3>1. /\ lock' = p /\ UNCHANGED <<file, name, drifted>>
            /\ pc[p] = "keychain"
            /\ \/ /\ chain' = [chain EXCEPT ![name[p]] = gen[p]]
                  /\ pc'[p] \in {"save", "rollback"}
               \/ chain' = chain
        BY <2>1, <2>6
           DEF SaveCredential, SetItem, command, history, Goto, Return, TypeOK
      <3>2. QED
        BY <2>2, <3>1 DEF StoresAgree, HalfDone, TypeOK, Registries
    <2>7. CASE DeleteCredential(p)
      <3>1. CASE pc'[p] = "save"
        <4>1. /\ lock' = p /\ UNCHANGED <<file, name, drifted>>
              /\ pc[p] = "keychain"
              /\ chain' = [chain EXCEPT ![name[p]] = NoGen]
          BY <2>1, <2>7, <3>1
             DEF DeleteCredential, SetItem, command, Goto, Return, TypeOK
        <4>2. QED
          BY <2>2, <3>1, <4>1 DEF StoresAgree, HalfDone, TypeOK, Registries
      <3>2. CASE pc'[p] # "save" /\ chain' # chain
        <4>1. /\ pc[p] = "keychain" /\ file' = file
              /\ chain' = [chain EXCEPT ![name[p]] = NoGen]
              /\ snap[p][name[p]] = NoGen
              /\ drifted' = drifted \ {name[p]}
          BY <2>7, <3>2 DEF DeleteCredential, SetItem, Goto, Return, TypeOK
        <4>2. file[name[p]] = NoGen
          BY <4>1 DEF SnapshotOK
        <4>3. QED
          BY <2>2, <4>1, <4>2 DEF StoresAgree, TypeOK, Registries
      <3>3. CASE chain' = chain
        <4>1. /\ pc[p] = "keychain" /\ lock' = p /\ UNCHANGED <<file, name>>
              /\ drifted' = drifted \/ (drifted' = drifted \ {name[p]}
                   /\ chain'[name[p]] = NoGen /\ snap[p][name[p]] = NoGen)
          BY <2>1, <2>7, <3>3 DEF DeleteCredential, SetItem, command, TypeOK, Registries
        <4>2. snap[p] = file
          BY <4>1 DEF SnapshotOK
        <4>3. QED
          BY <2>2, <3>3, <4>1, <4>2 DEF StoresAgree
      <3>4. QED
        BY <3>1, <3>2, <3>3
    <2>8. CASE SaveRegistry(p)
      <3>1. /\ lock' = p /\ UNCHANGED <<chain, name>>
            /\ snap[p] = [file EXCEPT ![name[p]] = gen[p]]
            /\ chain[name[p]] = gen[p]
            /\ \/ file' = snap[p] /\ drifted' = drifted \ {name[p]}
               \/ pc'[p] = "rollback" /\ UNCHANGED <<file, drifted>>
        BY <2>1, <2>8
           DEF SaveRegistry, SnapshotOK, CredentialOK, command, Goto, TypeOK
      <3>2. QED
        BY <2>2, <3>1 DEF StoresAgree, HalfDone, TypeOK, Registries
    <2>9. CASE Rollback(p)
      <3>1. /\ file' = file
            /\ \/ /\ chain' = [chain EXCEPT ![name[p]] = cred[p]]
                  /\ drifted' = drifted
               \/ /\ chain' = chain /\ drifted' = drifted
                  /\ cred[p] = NoGen /\ chain[name[p]] = NoGen
               \/ chain' = chain /\ drifted' = drifted \cup {name[p]}
        BY <2>9 DEF Rollback, SetItem, CredentialOK
      <3>2. cred[p] = file[name[p]] \/ name[p] \in drifted
        BY <2>9 DEF Rollback, SetItem, CredentialOK
      <3>3. QED
        BY <2>2, <3>1, <3>2 DEF StoresAgree, TypeOK, Registries
    <2>10. QED
      BY <1>2, <2>3, <2>4, <2>5, <2>6, <2>7, <2>8, <2>9
         DEF Step, Begin, BeginLogin, BeginLogout, ReadProfile, AcquireLock,
             GiveUpLock, LoadBound, EndSession, Transact, Stages
  <1>3. QED
    BY <1>1, <1>2

-----------------------------------------------------------------------------
\* A power loss preserves the invariant: it only brings back an older registry.
LEMMA PowerLossStep ==
  ASSUME IInv, PowerLoss
  PROVE  IInv'
  <1> USE DEF PowerLoss
  <1>1. TypeOK'
    BY TypeStep DEF IInv, Next
  <1>2. LockHeld'
    BY ProcsAssumption DEF LockHeld, Stages
  <1>3. ASSUME NEW p \in Procs
        PROVE  (CommandOK(p) /\ SnapshotOK(p) /\ CredentialOK(p) /\ SeenOK(p))'
    BY DEF CommandOK, SnapshotOK, CredentialOK, SeenOK, Stages
  <1>4. Drawn'
    BY DEF IInv, Drawn, TypeOK, NoGen
  <1>5. Fresh'
    BY DEF Fresh, Unpublished
  <1>6. ChainNotRetired'
    BY DEF IInv, ChainNotRetired
  <1>7. StoresAgree'
    BY DEF StoresAgree, Unbound
  <1>8. QED
    BY <1>1, <1>2, <1>3, <1>4, <1>5, <1>6, <1>7 DEF IInv

\* The inductive invariant holds in every reachable state.
THEOREM Inductive == Spec => []IInv
  <1>1. Init => IInv
    <2> SUFFICES ASSUME Init
                 PROVE  IInv
      OBVIOUS
    <2> USE DEF Init
    <2>1. TypeOK
      BY BoundsAssumption, EditsAreRegistries DEF TypeOK, PCs, Results
    <2>2. LockHeld
      BY ProcsAssumption DEF LockHeld, Stages
    <2>3. \A p \in Procs :
            CommandOK(p) /\ SnapshotOK(p) /\ CredentialOK(p) /\ SeenOK(p)
      BY DEF CommandOK, SnapshotOK, CredentialOK, SeenOK, Stages
    <2>4. Drawn
      BY DEF Drawn, NoProfiles, NoGen
    <2>5. Fresh /\ ChainNotRetired /\ StoresAgree
      BY DEF Fresh, Unpublished, ChainNotRetired, StoresAgree, NoProfiles
    <2>6. QED
      BY <2>1, <2>2, <2>3, <2>4, <2>5 DEF IInv
  <1>2. IInv /\ [Next]_vars => IInv'
    <2> SUFFICES ASSUME IInv, [Next]_vars
                 PROVE  IInv'
      OBVIOUS
    <2>1. ASSUME NEW p \in Procs, Step(p)
          PROVE  IInv'
      <3> USE <2>1 DEF IInv
      <3>1. TypeOK'
        BY TypeStep DEF Next
      <3>2. LockHeld'
        BY LockStep
      <3>3. ASSUME NEW q \in Procs
            PROVE  (CommandOK(q) /\ SnapshotOK(q) /\ CredentialOK(q) /\ SeenOK(q))'
        BY CommandStep, SnapshotStep, CredentialStep, SeenStep
      <3>4. Drawn'
        BY DrawnStep
      <3>5. Fresh'
        BY FreshStep
      <3>6. ChainNotRetired'
        BY ChainStep
      <3>7. StoresAgree'
        BY AgreeStep
      <3>8. QED
        BY <3>1, <3>2, <3>3, <3>4, <3>5, <3>6, <3>7
    <2>2. CASE PowerLoss
      BY <2>2, PowerLossStep
    <2>3. CASE UNCHANGED vars
      BY <2>3 DEF vars, store, local, history, IInv, TypeOK, LockHeld, CommandOK,
         SnapshotOK, CredentialOK, SeenOK, Drawn, Fresh, Unpublished,
         ChainNotRetired, StoresAgree, HalfDone
    <2>4. QED
      BY <2>1, <2>2, <2>3 DEF Next
  <1>3. QED
    BY <1>1, <1>2, PTL DEF Spec

\* For any number of commands, a profile and its credential disagree only
\* inside a transaction, or after a crash, power loss or failed rollback.
THEOREM Agreement == Spec => []StoresAgree
  <1>1. IInv => StoresAgree
    BY DEF IInv
  <1>2. QED
    BY <1>1, Inductive, PTL

\* No sequence of logins, logouts, rollbacks, crashes and power losses makes a
\* replaced or removed profile usable again.
THEOREM NoRevival == Spec => []RetiredNeverUsable
  <1>1. IInv => RetiredNeverUsable
    BY DEF IInv, ChainNotRetired, RetiredNeverUsable, Usable, Bound
  <1>2. QED
    BY <1>1, Inductive, PTL

\* A session's credential belongs to the profile registered when it was read.
THEOREM CurrentSession == Spec => SessionIsCurrent
  <1>1. IInv /\ [Next]_vars =>
          [\A p \in Procs : pc[p] = "bind" /\ pc'[p] = "session"
             => file[name[p]] = cred'[p] /\ chain[name[p]] = cred'[p]]_vars
    <2> SUFFICES ASSUME IInv, Next, NEW q \in Procs,
                        pc[q] = "bind", pc'[q] = "session"
                 PROVE  file[name[q]] = cred'[q] /\ chain[name[q]] = cred'[q]
      BY DEF vars
    <2>1. LoadBound(q)
      <3>1. PICK p \in Procs : Step(p)
        BY DEF Next, PowerLoss
      <3>2. p = q
        BY <3>1, Frame DEF IInv, Local
      <3>3. ~Transact(q)
        BY CommandKept DEF IInv, Stages
      <3>4. QED
        BY <3>1, <3>2, <3>3
           DEF Step, Begin, BeginLogin, BeginLogout, ReadProfile, AcquireLock,
               GiveUpLock, EndSession, Crash, IInv, TypeOK, Goto, Return, Exit
    <2>2. /\ chain[name[q]] # NoGen /\ chain[name[q]] = gen[q]
          /\ cred'[q] = chain[name[q]]
      BY <2>1 DEF LoadBound, Bound, IInv, TypeOK, Exit, Return, Goto
    <2>3. file[name[q]] = gen[q]
      BY <2>2 DEF IInv, SeenOK, ChainNotRetired, TypeOK
    <2>4. QED
      BY <2>2, <2>3
  <1>2. QED
    BY <1>1, Inductive, PTL DEF Spec, SessionIsCurrent

-----------------------------------------------------------------------------
(* What the stores hold, compared with what they held when the lock was taken. *)

FileKept(n) == file[n] = before.file[n]
ChainKept(n) == chain[n] = before.chain[n]
FileEdited(p) == file[name[p]] = gen[p]
ChainEdited(p) == chain[name[p]] = gen[p]

\* How far the holder of the lock has come with its two writes.
Progress(p) ==
  /\ pc[p] \in Stages =>
       \A m \in Names \ {name[p]} : FileKept(m) /\ ChainKept(m)
  /\ pc[p] \in {"load", "credential", "keychain"} =>
       FileKept(name[p]) /\ ChainKept(name[p])
  /\ pc[p] \in {"save", "rollback"} =>
       /\ FileKept(name[p]) /\ ChainEdited(p)
       /\ cred[p] = before.chain[name[p]]
       /\ file[name[p]] # gen[p]
  /\ pc[p] = "sync" => FileEdited(p) /\ ChainEdited(p)

\* The result that is about to be reported fits the stores.
Outcome(p) ==
  pc[p] = "release" =>
    /\ result[p] \in {"ok", "committed"} => FileEdited(p) /\ ChainEdited(p)
    /\ result[p] = "error" => FileKept(name[p]) /\ ChainKept(name[p])
    /\ result[p] = "inconsistent" =>
         FileKept(name[p]) /\ ChainEdited(p) /\ file[name[p]] # gen[p]

\* Whatever a power loss brings back for a name is registered, retired or nothing.
VersionsKnown ==
  \A r \in survivable, n \in Names :
    r[n] \in {NoGen, file[n]} \/ <<n, r[n]>> \in retired

\* Every registry that is loaded, edited or left on disk is one that load accepts.
SnapshotLoadable(p) ==
  pc[p] \in {"credential", "keychain", "save"} => Loadable(snap[p])

RInv ==
  /\ IInv
  /\ \A p \in Procs : Progress(p) /\ Outcome(p) /\ SnapshotLoadable(p)
  /\ VersionsKnown
  /\ RegistryLoadable

-----------------------------------------------------------------------------
\* Beside the holder of the lock nobody changes the stores or the history.
LEMMA HolderFrame ==
  ASSUME LockHeld, NEW p \in Procs, NEW q \in Procs, q # p, pc[q] \in Stages, Step(p)
  PROVE  UNCHANGED <<file, chain, before>>
  <1>1. pc[p] \notin Stages /\ lock = q /\ lock # Nobody
    BY OneHolder, ProcsAssumption DEF LockHeld
  <1>2. UNCHANGED <<file, chain>>
    BY <1>1, StoreFrame
  <1>3. CASE Begin(p) \/ AcquireLock(p) \/ GiveUpLock(p)
    BY <1>1, <1>3 DEF Begin, BeginLogin, BeginLogout, ReadProfile, AcquireLock, GiveUpLock,
       store, history
  <1>4. CASE Transact(p)
    BY <1>1, <1>4 DEF Stages, Transact, LoadRegistry, ReadCredential, SaveCredential,
       DeleteCredential, SaveRegistry, SyncDirectory, Rollback, ReleaseLock
  <1>5. CASE LoadBound(p) \/ EndSession(p) \/ Crash(p)
    BY <1>1, <1>5 DEF LoadBound, EndSession, Crash, store, history
  <1>6. QED
    BY <1>2, <1>3, <1>4, <1>5 DEF Step

\* The holder of the lock knows how far it has come, and reports no more.
LEMMA ProgressStep ==
  ASSUME IInv, NEW p \in Procs, NEW q \in Procs, Progress(q), Outcome(q), Step(p)
  PROVE  Progress(q)' /\ Outcome(q)'
  <1>1. CASE q # p
    <2>1. Local(q)' = Local(q) /\ result'[q] = result[q]
      <3>1. Local(q)' = Local(q)
        BY <1>1, Frame DEF IInv
      <3>2. result'[q] = result[q]
        BY <1>1
           DEF IInv, TypeOK, Step, Begin, BeginLogin, BeginLogout, ReadProfile, AcquireLock,
               GiveUpLock, Transact, LoadRegistry, ReadCredential, SaveCredential,
               DeleteCredential, SaveRegistry, SyncDirectory, Rollback, ReleaseLock,
               LoadBound, EndSession, Crash, Exit, Return
      <3>3. QED
        BY <3>1, <3>2
    <2>2. CASE pc[q] \in Stages
      <3>1. UNCHANGED <<file, chain, before>>
        BY <1>1, <2>2, HolderFrame DEF IInv
      <3>2. QED
        BY <2>1, <3>1 DEF Local, Progress, Outcome, FileKept, ChainKept, FileEdited,
           ChainEdited
    <2>3. CASE pc[q] \notin Stages
      BY <2>1, <2>3 DEF Local, Progress, Outcome, Stages
    <2>4. QED
      BY <2>2, <2>3
  <1>2. CASE q = p
    <2> USE <1>2
    <2> USE DEF FileKept, ChainKept, FileEdited, ChainEdited, Goto, Return
    <2>1. CASE pc'[p] \notin Stages
      BY <2>1 DEF Progress, Outcome, Stages
    <2>2. CASE AcquireLock(p)
      BY <2>2 DEF AcquireLock, Progress, Outcome, IInv, TypeOK
    <2>3. CASE LoadRegistry(p)
      BY <2>3 DEF LoadRegistry, Progress, Outcome, IInv, TypeOK, store, command, history, Stages
    <2>4. CASE ReadCredential(p)
      BY <2>4 DEF ReadCredential, Progress, Outcome, IInv, TypeOK, store, command, history,
         Stages
    <2>5. CASE SaveCredential(p)
      <3>1. /\ pc[p] = "keychain" /\ cred[p] = chain[name[p]]
            /\ UNCHANGED <<file, name, gen, cred, before>>
        BY <2>5 DEF SaveCredential, IInv, CredentialOK, command, history
      <3>2. file[name[p]] # gen[p]
        BY <2>5 DEF SaveCredential, IInv, TypeOK, Fresh, Unpublished
      <3>3. CASE /\ chain' = [chain EXCEPT ![name[p]] = gen[p]]
                 /\ pc'[p] \in {"save", "rollback"}
        BY <3>1, <3>2, <3>3 DEF Progress, Outcome, IInv, TypeOK, Registries, Stages
      <3>4. CASE chain' = chain /\ pc'[p] = "release" /\ result'[p] = "error"
        BY <3>1, <3>4 DEF Progress, Outcome, Stages
      <3>5. QED
        BY <2>5, <3>3, <3>4 DEF SaveCredential, SetItem, IInv, TypeOK
    <2>6. CASE DeleteCredential(p)
      <3>1. /\ pc[p] = "keychain" /\ cred[p] = chain[name[p]] /\ snap[p] = file
            /\ gen[p] = NoGen
            /\ UNCHANGED <<file, name, gen, cred, before>>
        BY <2>6 DEF DeleteCredential, IInv, CredentialOK, SnapshotOK, CommandOK, command,
           Stages
      <3>2. CASE /\ chain' = [chain EXCEPT ![name[p]] = NoGen]
                 /\ snap[p][name[p]] # NoGen /\ pc'[p] = "save"
        BY <3>1, <3>2 DEF Progress, Outcome, IInv, TypeOK, Registries, Stages
      <3>3. CASE /\ chain' = [chain EXCEPT ![name[p]] = NoGen]
                 /\ snap[p][name[p]] = NoGen /\ pc'[p] = "release" /\ result'[p] = "ok"
        BY <3>1, <3>3 DEF Progress, Outcome, IInv, TypeOK, Registries, Stages
      <3>4. CASE chain' = chain /\ pc'[p] = "release" /\ result'[p] = "error"
        BY <3>1, <3>4 DEF Progress, Outcome, Stages
      <3>5. QED
        BY <2>6, <3>2, <3>3, <3>4 DEF DeleteCredential, SetItem, IInv, TypeOK
    <2>7. CASE SaveRegistry(p)
      <3>1. /\ pc[p] = "save" /\ snap[p] = [file EXCEPT ![name[p]] = gen[p]]
            /\ UNCHANGED <<chain, name, gen, cred, before>>
        BY <2>7 DEF SaveRegistry, IInv, SnapshotOK, command
      <3>2. CASE file' = snap[p] /\ pc'[p] = "sync"
        BY <3>1, <3>2 DEF Progress, Outcome, IInv, TypeOK, Registries, Stages
      <3>3. CASE file' = file /\ pc'[p] = "rollback"
        BY <3>1, <3>3 DEF Progress, Outcome, Stages
      <3>4. QED
        BY <2>7, <3>2, <3>3 DEF SaveRegistry, IInv, TypeOK
    <2>8. CASE SyncDirectory(p)
      BY <2>8 DEF SyncDirectory, Progress, Outcome, IInv, TypeOK, command, history, Stages
    <2>9. CASE Rollback(p)
      <3>1. /\ pc[p] = "rollback" /\ pc'[p] = "release"
            /\ UNCHANGED <<file, name, gen, cred, before>>
        BY <2>9 DEF Rollback, command, IInv, TypeOK
      <3>2. CASE chain' = [chain EXCEPT ![name[p]] = cred[p]] /\ result'[p] = "error"
        BY <3>1, <3>2 DEF Progress, Outcome, IInv, TypeOK, Registries, Stages
      <3>3. CASE /\ op[p] = "logout" /\ cred[p] = NoGen
                 /\ chain' = chain /\ result'[p] = "error"
        <4>1. gen[p] = NoGen
          BY <3>1, <3>3 DEF IInv, CommandOK, Stages
        <4>2. QED
          BY <3>1, <3>3, <4>1 DEF Progress, Outcome, Stages
      <3>4. CASE chain' = chain /\ result'[p] = "inconsistent"
        BY <3>1, <3>4 DEF Progress, Outcome, Stages
      <3>5. QED
        BY <2>9, <3>2, <3>3, <3>4 DEF Rollback, SetItem, IInv, TypeOK
    <2>10. CASE ReleaseLock(p) \/ Crash(p) \/ GiveUpLock(p) \/ EndSession(p)
      BY <2>1, <2>10 DEF ReleaseLock, Crash, GiveUpLock, EndSession, Exit, Stages, IInv,
         TypeOK
    <2>11. CASE Begin(p) \/ LoadBound(p)
      BY <2>1, <2>11 DEF Begin, BeginLogin, BeginLogout, ReadProfile, LoadBound, Exit, Stages,
         IInv, TypeOK
    <2>12. QED
      BY <2>2, <2>3, <2>4, <2>5, <2>6, <2>7, <2>8, <2>9, <2>10, <2>11 DEF Step, Transact
  <1>3. QED
    BY <1>1, <1>2

\* A version that a power loss may bring back holds nothing unknown.
LEMMA VersionsStep ==
  ASSUME IInv, VersionsKnown, NEW p \in Procs, Step(p)
  PROVE  VersionsKnown'
  <1>1. CASE /\ UNCHANGED <<file, retired>>
             /\ survivable' = survivable \/ survivable' = {file}
    BY <1>1 DEF VersionsKnown
  <1>2. CASE SaveRegistry(p) /\ pc'[p] = "sync"
    <2>1. /\ file' = snap[p]
          /\ survivable' = survivable \cup {snap[p]}
          /\ retired' = retired \cup Dropped(file, snap[p])
      BY <1>2 DEF SaveRegistry, IInv, TypeOK, Goto
    <2>2. ASSUME NEW r \in survivable, NEW n \in Names
          PROVE  r[n] \in {NoGen, snap[p][n]} \/ <<n, r[n]>> \in retired'
      BY <2>1 DEF VersionsKnown, Dropped, Profiles
    <2>3. QED
      BY <1>2, <2>1, <2>2 DEF VersionsKnown
  <1>3. CASE ~(SaveRegistry(p) /\ pc'[p] = "sync")
    BY <1>1, <1>3
       DEF Step, Begin, BeginLogin, BeginLogout, ReadProfile, AcquireLock, GiveUpLock,
           Transact, LoadRegistry, ReadCredential, SaveCredential, DeleteCredential,
           SaveRegistry, SyncDirectory, Rollback, ReleaseLock, LoadBound, EndSession, Crash,
           store, history, IInv, TypeOK, Goto
  <1>4. QED
    BY <1>2, <1>3

\* The number of profiles of a registry is a natural number.
LEMMA ProfilesFinite ==
  ASSUME NEW registry
  PROVE  IsFiniteSet(Profiles(registry)) /\ Cardinality(Profiles(registry)) \in Nat
  <1>1. Profiles(registry) \in SUBSET Names
    BY DEF Profiles
  <1>2. QED
    BY <1>1, NamesAssumption, FS_Subset, FS_CardinalityType

\* Transaction.Put and Transaction.Remove keep what load accepts.
LEMMA EditsLoadable ==
  ASSUME NEW registry \in Registries, NEW n \in Names, NEW g \in Slots, Loadable(registry)
  PROVE  /\ CanPut(registry, n) => Loadable(Put(registry, n, g))
         /\ Loadable(Remove(registry, n))
  <1>1. /\ Profiles(Put(registry, n, g)) \in SUBSET (Profiles(registry) \cup {n})
        /\ Profiles(Remove(registry, n)) \in SUBSET Profiles(registry)
    BY DEF Profiles, Put, Remove, Registries
  <1>2. /\ IsFiniteSet(Profiles(registry) \cup {n})
        /\ Cardinality(Profiles(registry) \cup {n}) =
             IF n \in Profiles(registry) THEN Cardinality(Profiles(registry))
                                         ELSE Cardinality(Profiles(registry)) + 1
    BY ProfilesFinite, FS_AddElement
  <1>3. Cardinality(Profiles(Remove(registry, n))) <= Cardinality(Profiles(registry))
    BY <1>1, ProfilesFinite, FS_Subset
  <1>4. Loadable(Remove(registry, n))
    BY <1>3, ProfilesFinite, BoundsAssumption DEF Loadable
  <1>5. ASSUME CanPut(registry, n)
        PROVE  Loadable(Put(registry, n, g))
    <2>1. Cardinality(Profiles(registry) \cup {n}) <= MaxProfiles
      BY <1>2, <1>5, ProfilesFinite, BoundsAssumption DEF CanPut, Profiles, Loadable
    <2>2. Cardinality(Profiles(Put(registry, n, g))) <=
            Cardinality(Profiles(registry) \cup {n})
      BY <1>1, <1>2, FS_Subset
    <2>3. Cardinality(Profiles(registry) \cup {n}) \in Nat
      BY <1>2, FS_CardinalityType
    <2>4. QED
      BY <2>1, <2>2, <2>3, ProfilesFinite, BoundsAssumption DEF Loadable
  <1>6. QED
    BY <1>4, <1>5

\* No step publishes, loads or prepares a registry that load refuses.
LEMMA LoadableStep ==
  ASSUME IInv, RegistryLoadable, NEW p \in Procs, SnapshotLoadable(p), Step(p)
  PROVE  /\ RegistryLoadable'
         /\ \A q \in Procs : SnapshotLoadable(q) => SnapshotLoadable(q)'
  <1>1. RegistryLoadable'
    <2>1. CASE SaveRegistry(p)
      BY <2>1 DEF SaveRegistry, RegistryLoadable, SnapshotLoadable
    <2>2. CASE ~SaveRegistry(p)
      <3>1. file' = file /\ survivable' \subseteq survivable \cup {file}
        BY <2>2
           DEF Step, Begin, BeginLogin, BeginLogout, ReadProfile, AcquireLock, GiveUpLock,
               Transact, LoadRegistry, ReadCredential, SaveCredential, DeleteCredential,
               SyncDirectory, Rollback, ReleaseLock, LoadBound, EndSession, Crash, store
      <3>2. QED
        BY <3>1 DEF RegistryLoadable
    <2>3. QED
      BY <2>1, <2>2
  <1>2. SnapshotLoadable(p)'
    <2> USE DEF SnapshotLoadable, IInv, TypeOK, Goto, Return
    <2>1. CASE pc'[p] \notin {"credential", "keychain", "save"}
      BY <2>1
    <2>2. CASE LoadRegistry(p)
      BY <2>2 DEF LoadRegistry
    <2>3. CASE ReadCredential(p)
      BY <2>3 DEF ReadCredential
    <2>4. CASE SaveCredential(p) \/ DeleteCredential(p)
      <3>1. Loadable(snap[p])
        BY <2>4 DEF SaveCredential, DeleteCredential
      <3>2. CASE SaveCredential(p) /\ pc'[p] = "save"
        BY <3>1, <3>2, EditsLoadable DEF SaveCredential
      <3>3. CASE DeleteCredential(p) /\ pc'[p] = "save"
        BY <3>1, <3>3, EditsLoadable, EditsAreRegistries DEF DeleteCredential
      <3>4. CASE pc'[p] # "save"
        BY <2>4, <3>4, <2>1 DEF SaveCredential, DeleteCredential
      <3>5. QED
        BY <2>4, <3>2, <3>3, <3>4
    <2>5. CASE SaveRegistry(p) \/ SyncDirectory(p) \/ Rollback(p)
      BY <2>1, <2>5 DEF SaveRegistry, SyncDirectory, Rollback
    <2>6. CASE ReleaseLock(p) \/ Crash(p) \/ GiveUpLock(p) \/ EndSession(p)
      BY <2>1, <2>6 DEF ReleaseLock, Crash, GiveUpLock, EndSession, Exit
    <2>7. CASE Begin(p) \/ AcquireLock(p) \/ LoadBound(p)
      BY <2>1, <2>7 DEF Begin, BeginLogin, BeginLogout, ReadProfile, AcquireLock, LoadBound,
         Exit
    <2>8. QED
      BY <2>2, <2>3, <2>4, <2>5, <2>6, <2>7 DEF Step, Transact
  <1>3. ASSUME NEW q \in Procs, q # p, SnapshotLoadable(q)
        PROVE  SnapshotLoadable(q)'
    BY <1>3, Frame DEF IInv, Local, SnapshotLoadable
  <1>4. QED
    BY <1>1, <1>2, <1>3

\* The invariant about progress, outcome and versions holds in every reachable
\* state, on top of IInv.
THEOREM InductiveProgress == Spec => []RInv
  <1>1. Init /\ IInv => RInv
    <2> SUFFICES ASSUME Init, IInv
                 PROVE  RInv
      OBVIOUS
    <2>1. \A p \in Procs : Progress(p) /\ Outcome(p) /\ SnapshotLoadable(p)
      BY DEF Init, Progress, Outcome, SnapshotLoadable, Stages
    <2>2. VersionsKnown
      BY DEF Init, VersionsKnown, NoProfiles
    <2>3. Profiles(NoProfiles) = {}
      BY DEF Profiles, NoProfiles
    <2>4. RegistryLoadable
      BY <2>3, FS_EmptySet, BoundsAssumption DEF Init, RegistryLoadable, Loadable
    <2>5. QED
      BY <2>1, <2>2, <2>4 DEF RInv
  <1>2. RInv /\ IInv' /\ [Next]_vars => RInv'
    <2> SUFFICES ASSUME RInv, IInv', [Next]_vars
                 PROVE  RInv'
      OBVIOUS
    <2>1. ASSUME NEW p \in Procs, Step(p)
          PROVE  RInv'
      <3>1. \A q \in Procs : Progress(q)' /\ Outcome(q)'
        BY <2>1, ProgressStep DEF RInv
      <3>2. RegistryLoadable' /\ \A q \in Procs : SnapshotLoadable(q)'
        BY <2>1, LoadableStep DEF RInv
      <3>3. VersionsKnown'
        BY <2>1, VersionsStep DEF RInv
      <3>4. QED
        BY <3>1, <3>2, <3>3 DEF RInv
    <2>2. CASE PowerLoss
      <3>1. PICK registry \in survivable : file' = registry /\ survivable' = {registry}
        BY <2>2 DEF PowerLoss
      <3>2. VersionsKnown' /\ RegistryLoadable'
        BY <3>1 DEF RInv, VersionsKnown, RegistryLoadable
      <3>3. \A q \in Procs : Progress(q)' /\ Outcome(q)' /\ SnapshotLoadable(q)'
        BY <2>2 DEF PowerLoss, Progress, Outcome, SnapshotLoadable, Stages
      <3>4. QED
        BY <3>2, <3>3 DEF RInv
    <2>3. CASE UNCHANGED vars
      BY <2>3
         DEF vars, store, local, history, RInv, Progress, Outcome, SnapshotLoadable,
             FileKept, ChainKept, FileEdited, ChainEdited, VersionsKnown, RegistryLoadable
    <2>4. QED
      BY <2>1, <2>2, <2>3 DEF Next
  <1>3. QED
    BY <1>1, <1>2, Inductive, PTL DEF Spec

\* No sequence of logins, failures and power losses leaves a registry that load
\* refuses, for any bound on the number of profiles.
THEOREM AlwaysLoadable == Spec => []RegistryLoadable
  <1>1. RInv => RegistryLoadable
    BY DEF RInv
  <1>2. QED
    BY <1>1, InductiveProgress, PTL

\* Every login and logout that ends by itself reports what both stores hold.
THEOREM TrueReports == Spec => ReportsAreTrue
  <1>1. RInv /\ [Next]_vars =>
          [\A p \in Procs :
             pc[p] = "release" /\ pc'[p] = "idle" /\ result'[p] # "none"
               => ReportIsTrue(p)]_vars
    <2> SUFFICES ASSUME RInv, Next, NEW q \in Procs,
                        pc[q] = "release", pc'[q] = "idle", result'[q] # "none"
                 PROVE  ReportIsTrue(q)
      BY DEF vars
    <2>1. PICK p \in Procs : Step(p)
      BY DEF Next, PowerLoss
    <2>2. p = q
      BY <2>1, Frame DEF RInv, IInv, Local
    <2>3. ReleaseLock(q)
      BY <2>1, <2>2
         DEF RInv, IInv, TypeOK, Step, Begin, BeginLogin, BeginLogout, ReadProfile, AcquireLock,
             GiveUpLock, Transact, LoadRegistry, ReadCredential, SaveCredential,
             DeleteCredential, SaveRegistry, SyncDirectory, Rollback, LoadBound, EndSession,
             Crash, Exit, Return
    <2>4. \/ result'[q] = result[q]
          \/ result[q] = "ok" /\ result'[q] = "committed"
      BY <2>3 DEF ReleaseLock, Exit, Return, RInv, IInv, TypeOK
    <2>5. Progress(q) /\ Outcome(q)
      BY DEF RInv
    <2>6. QED
      BY <2>4, <2>5 DEF ReportIsTrue, Progress, Outcome, Stages, FileKept, ChainKept,
         FileEdited, ChainEdited
  <1>2. QED
    BY <1>1, InductiveProgress, PTL DEF Spec, ReportsAreTrue

-----------------------------------------------------------------------------
(* The refinement of BindingPromise *)

Bindings == [n \in Names |-> Usable(n)]
Sessions == [p \in Procs |-> IF pc[p] = "session" THEN cred[p] ELSE NoGen]

\* The promise takes no step when these two and the retired profiles stay.
LEMMA PromiseStutters ==
  ASSUME Bindings' = Bindings, Sessions' = Sessions, retired' = retired
  PROVE  UNCHANGED Promise!vars
  BY DEF Promise!vars, Bindings, Sessions

\* A step that touches no store is no step of the bindings.
LEMMA BindingsKept ==
  ASSUME file' = file, chain' = chain
  PROVE  Bindings' = Bindings
  BY DEF Bindings, Usable, Bound

\* A step before or after which p has no session leaves the sessions alone.
LEMMA SessionsKept ==
  ASSUME TypeOK, NEW p \in Procs, Step(p), pc[p] # "session", pc'[p] # "session"
  PROVE  Sessions' = Sessions
  BY Frame DEF Local, Sessions

\* Changing the credential of n changes the binding of n alone.
LEMMA BindingChanged ==
  ASSUME TypeOK, NEW n \in Names, NEW g \in Slots, file' = file,
         chain' = [chain EXCEPT ![n] = g]
  PROVE  Bindings' = [Bindings EXCEPT ![n] = IF Bound(g, file[n]) THEN file[n] ELSE NoGen]
  <1> DEFINE b == IF Bound(g, file[n]) THEN file[n] ELSE NoGen
  <1>1. \A m \in Names : Usable(m)' = IF m = n THEN b ELSE Usable(m)
    BY DEF TypeOK, Registries, Usable, Bound
  <1>2. Bindings' = [m \in Names |-> Usable(m)']
    BY DEF Bindings
  <1>3. [Bindings EXCEPT ![n] = b] = [m \in Names |-> IF m = n THEN b ELSE Usable(m)]
    BY DEF Bindings
  <1>4. QED
    BY <1>1, <1>2, <1>3

\* The first write of a login or a logout withdraws the binding of its name.
LEMMA CredentialWithdraws ==
  ASSUME RInv, NEW p \in Procs, SaveCredential(p) \/ DeleteCredential(p)
  PROVE  [Promise!Next]_(Promise!vars)
  <1>1. Step(p) /\ pc[p] = "keychain" /\ pc'[p] # "session"
    BY DEF Step, Transact, SaveCredential, DeleteCredential, RInv, IInv, TypeOK, Goto, Return
  <1>2. Sessions' = Sessions
    BY <1>1, SessionsKept DEF RInv, IInv
  <1>3. retired' = retired /\ file' = file /\ name[p] \in Names /\ gen[p] \in Slots
    BY DEF SaveCredential, DeleteCredential, history, RInv, IInv, TypeOK
  <1>4. CASE chain' = chain
    BY <1>2, <1>3, <1>4, BindingsKept, PromiseStutters
  <1>5. CASE SaveCredential(p) /\ chain' = [chain EXCEPT ![name[p]] = gen[p]]
    <2>1. file[name[p]] # gen[p]
      BY <1>5 DEF SaveCredential, RInv, IInv, TypeOK, Fresh, Unpublished
    <2>2. Bindings' = [Bindings EXCEPT ![name[p]] = NoGen]
      BY <1>3, <1>5, <2>1, BindingChanged DEF Bound, RInv, IInv
    <2>3. Promise!Withdraw(name[p])
      BY <1>2, <1>3, <2>2 DEF Promise!Withdraw, Bindings, Sessions
    <2>4. QED
      BY <1>3, <2>3 DEF Promise!Next
  <1>6. CASE DeleteCredential(p) /\ chain' = [chain EXCEPT ![name[p]] = NoGen]
    <2>1. Bindings' = [Bindings EXCEPT ![name[p]] = NoGen]
      BY <1>3, <1>6, BindingChanged, EditsAreRegistries DEF Bound, RInv, IInv
    <2>2. Promise!Withdraw(name[p])
      BY <1>2, <1>3, <2>1 DEF Promise!Withdraw, Bindings, Sessions
    <2>3. QED
      BY <1>3, <2>2 DEF Promise!Next
  <1>7. QED
    BY <1>4, <1>5, <1>6 DEF SaveCredential, DeleteCredential, SetItem

\* The second write of a login activates its binding, and that of a logout
\* retires the old one; a rollback activates the old binding again.
LEMMA RegistryActivates ==
  ASSUME RInv, NEW p \in Procs, SaveRegistry(p)
  PROVE  [Promise!Next]_(Promise!vars)
  <1> DEFINE n == name[p]
             g == gen[p]
             gone == Dropped(file, snap[p])
  <1>1. Step(p) /\ pc[p] = "save" /\ pc'[p] # "session"
    BY DEF Step, Transact, SaveRegistry, RInv, IInv, TypeOK, Goto
  <1>2. Sessions' = Sessions
    BY <1>1, SessionsKept DEF RInv, IInv
  <1>3. /\ chain' = chain /\ n \in Names /\ g \in Slots
        /\ chain[n] = g /\ file[n] # g
        /\ snap[p] = [file EXCEPT ![n] = g]
        /\ file \in Registries
    BY <1>1 DEF SaveRegistry, RInv, IInv, TypeOK, Progress, ChainEdited, SnapshotOK
  <1>4. CASE file' = file /\ retired' = retired
    BY <1>2, <1>3, <1>4, BindingsKept, PromiseStutters
  <1>5. CASE file' = snap[p] /\ retired' = retired \cup gone
    <2>1. /\ Bindings' = [Bindings EXCEPT ![n] = g]
          /\ Bindings[n] = NoGen
      <3>1. \A m \in Names : Usable(m)' = IF m = n THEN g ELSE Usable(m)
        BY <1>3, <1>5 DEF Usable, Bound, Registries
      <3>2. Bindings' = [m \in Names |-> Usable(m)']
        BY DEF Bindings
      <3>3. [Bindings EXCEPT ![n] = g] = [m \in Names |-> IF m = n THEN g ELSE Usable(m)]
        BY DEF Bindings
      <3>4. Bindings[n] = NoGen
        BY <1>3 DEF Bindings, Usable, Bound
      <3>5. QED
        BY <3>1, <3>2, <3>3, <3>4
    <2>2. gone = IF file[n] = NoGen THEN {} ELSE {<<n, file[n]>>}
      BY <1>3 DEF Dropped, Profiles, Registries
    <2>3. gone \in SUBSET ((Names \X Gens) \ {<<m, Bindings'[m]>> : m \in Names})
      <3>1. Bindings'[n] = g
        BY <1>3, <2>1 DEF Bindings
      <3>2. file[n] # NoGen => <<n, file[n]>> \in Names \X Gens
        BY <1>3 DEF Registries, Slots
      <3>3. <<n, file[n]>> \notin {<<m, Bindings'[m]>> : m \in Names}
        BY <1>3, <3>1
      <3>4. QED
        BY <2>2, <3>2, <3>3
    <2>4. CASE op[p] = "login"
      <3>1. g \in Gens /\ <<n, g>> \notin retired
        BY <1>1, <1>3, <2>4
           DEF RInv, IInv, CommandOK, Stages, Fresh, Unpublished, Gens, NoGen
      <3>2. Promise!Activate(n, g)
        BY <1>2, <1>5, <2>1, <2>3, <3>1
           DEF Promise!Activate, Promise!Expire, Promise!InUse, Bindings, Sessions
      <3>3. QED
        BY <1>3, <3>1, <3>2 DEF Promise!Next
    <2>5. CASE op[p] # "login"
      <3>1. g = NoGen
        BY <1>1, <2>5 DEF RInv, IInv, CommandOK, Stages
      <3>2. Bindings' = Bindings
        BY <1>3, <2>1, <3>1 DEF Bindings
      <3>3. Promise!Retire
        BY <1>2, <1>5, <2>3, <3>2
           DEF Promise!Retire, Promise!Expire, Promise!InUse, Bindings, Sessions
      <3>4. QED
        BY <3>3 DEF Promise!Next
    <2>6. QED
      BY <2>4, <2>5
  <1>6. QED
    BY <1>4, <1>5 DEF SaveRegistry

\* A rollback that finds its registry untouched activates the old binding again.
LEMMA RollbackActivates ==
  ASSUME RInv, NEW p \in Procs, Rollback(p)
  PROVE  [Promise!Next]_(Promise!vars)
  <1> DEFINE n == name[p]
  <1>1. Step(p) /\ pc[p] = "rollback" /\ pc'[p] # "session"
    BY DEF Step, Transact, Rollback, RInv, IInv, TypeOK, Goto, Return
  <1>2. Sessions' = Sessions
    BY <1>1, SessionsKept DEF RInv, IInv
  <1>3. /\ file' = file /\ retired' = retired /\ n \in Names /\ cred[p] \in Slots
        /\ chain[n] # file[n]
    BY <1>1 DEF Rollback, RInv, IInv, TypeOK, Progress, ChainEdited
  <1>4. CASE chain' = chain
    BY <1>2, <1>3, <1>4, BindingsKept, PromiseStutters
  <1>5. CASE chain' = [chain EXCEPT ![n] = cred[p]]
    <2>1. /\ Bindings' = [Bindings EXCEPT ![n] = IF Bound(cred[p], file[n]) THEN file[n]
                                                                        ELSE NoGen]
          /\ Bindings[n] = NoGen
      BY <1>3, <1>5, BindingChanged DEF RInv, IInv, Bindings, Usable, Bound
    <2>2. CASE Bound(cred[p], file[n])
      <3>1. cred[p] \in Gens /\ <<n, cred[p]>> \notin retired /\ file[n] = cred[p]
        BY <1>1, <1>3, <2>2 DEF RInv, IInv, CredentialOK, Bound, Slots
      <3>2. {} \in SUBSET ((Names \X Gens) \ {<<m, Bindings'[m]>> : m \in Names})
            /\ retired' = retired \cup {}
        BY <1>3
      <3>3. Promise!Activate(n, cred[p])
        BY <1>2, <1>3, <2>1, <2>2, <3>1, <3>2
           DEF Promise!Activate, Promise!Expire, Promise!InUse, Bindings, Sessions
      <3>4. QED
        BY <1>3, <3>1, <3>3 DEF Promise!Next
    <2>3. CASE ~Bound(cred[p], file[n])
      <3>1. Bindings' = Bindings
        BY <2>1, <2>3 DEF Bindings
      <3>2. QED
        BY <1>2, <1>3, <3>1, PromiseStutters
    <2>4. QED
      BY <2>2, <2>3
  <1>6. QED
    BY <1>4, <1>5 DEF Rollback, SetItem

\* The unlocked reads of a session open it on the binding that is usable now.
LEMMA LoadOpens ==
  ASSUME RInv, NEW p \in Procs, LoadBound(p)
  PROVE  [Promise!Next]_(Promise!vars)
  <1> DEFINE n == name[p]
  <1>1. /\ Step(p) /\ pc[p] = "bind" /\ n \in Names
        /\ file' = file /\ chain' = chain /\ retired' = retired
    BY DEF Step, LoadBound, store, history, RInv, IInv, TypeOK
  <1>2. Bindings' = Bindings
    BY <1>1, BindingsKept
  <1>3. CASE Exit(p, "error")
    <2>1. pc'[p] # "session"
      BY <1>3 DEF Exit, Return, Goto, RInv, IInv, TypeOK
    <2>2. Sessions' = Sessions
      BY <1>1, <2>1, SessionsKept DEF RInv, IInv
    <2>3. QED
      BY <1>1, <1>2, <2>2, PromiseStutters
  <1>4. CASE /\ Bound(chain[n], gen[p])
             /\ cred' = [cred EXCEPT ![p] = chain[n]]
             /\ Return(p, "none", "session")
    <2>1. gen[p] # NoGen /\ chain[n] = gen[p] /\ file[n] = gen[p]
      BY <1>1, <1>4 DEF Bound, RInv, IInv, SeenOK, ChainNotRetired, TypeOK
    <2>2. Bindings[n] = gen[p] /\ Sessions[p] = NoGen
      BY <1>1, <2>1 DEF Bindings, Sessions, Usable, Bound
    <2>3. Sessions' = [Sessions EXCEPT ![p] = gen[p]]
      <3>1. pc' = [pc EXCEPT ![p] = "session"] /\ cred' = [cred EXCEPT ![p] = gen[p]]
        BY <1>4, <2>1 DEF Return, Goto
      <3>2. QED
        BY <3>1 DEF Sessions, RInv, IInv, TypeOK
    <2>4. \E m \in Names : Promise!Open(p, m)
      BY <1>1, <1>2, <2>1, <2>2, <2>3 DEF Promise!Open, Bindings, Sessions
    <2>5. QED
      BY <2>4 DEF Promise!Next
  <1>5. QED
    BY <1>3, <1>4 DEF LoadBound

\* A command that ends closes its session, if it has one.
LEMMA ExitCloses ==
  ASSUME RInv, NEW p \in Procs, EndSession(p) \/ Crash(p)
  PROVE  [Promise!Next]_(Promise!vars)
  <1>1. /\ file' = file /\ chain' = chain /\ retired' = retired
        /\ pc' = [pc EXCEPT ![p] = "idle"] /\ cred' = [cred EXCEPT ![p] = NoGen]
    BY DEF EndSession, Crash, Exit, Return, Goto, Forget, store, history
  <1>2. Sessions' = [Sessions EXCEPT ![p] = NoGen]
    BY <1>1 DEF Sessions, RInv, IInv, TypeOK
  <1>3. Promise!Close(p)
    BY <1>1, <1>2, BindingsKept DEF Promise!Close, Bindings, Sessions
  <1>4. QED
    BY <1>3 DEF Promise!Next

\* The other steps write neither store and open no session.
LEMMA OthersStutter ==
  ASSUME RInv, NEW p \in Procs,
         \/ Begin(p) \/ AcquireLock(p) \/ GiveUpLock(p) \/ LoadRegistry(p)
         \/ ReadCredential(p) \/ SyncDirectory(p) \/ ReleaseLock(p)
  PROVE  UNCHANGED Promise!vars
  <1>1. file' = file /\ chain' = chain /\ retired' = retired
    BY DEF Begin, BeginLogin, BeginLogout, ReadProfile, AcquireLock, GiveUpLock,
           LoadRegistry, ReadCredential, SyncDirectory, ReleaseLock, store, history
  <1>2. pc[p] # "session" /\ pc'[p] # "session"
    BY DEF Begin, BeginLogin, BeginLogout, ReadProfile, AcquireLock, GiveUpLock,
           LoadRegistry, ReadCredential, SyncDirectory, ReleaseLock, Exit, Return, Goto,
           RInv, IInv, TypeOK
  <1>3. Step(p)
    BY DEF Step, Transact
  <1>4. QED
    BY <1>1, <1>2, <1>3, BindingsKept, SessionsKept, PromiseStutters DEF RInv, IInv

\* A power loss may bring back an older registry, but the profiles of that
\* registry which are not the current ones are retired, and the Keychain
\* holds no retired credential: bindings are lost, and none comes back.
LEMMA LossOnlyLoses ==
  ASSUME RInv, PowerLoss
  PROVE  [Promise!Next]_(Promise!vars)
  <1> DEFINE lost == {n \in Names : Bindings'[n] = NoGen}
  <1>1. PICK registry \in survivable : file' = registry
    BY DEF PowerLoss
  <1>2. chain' = chain /\ retired' = retired /\ pc' = [p \in Procs |-> "idle"]
    BY DEF PowerLoss
  <1>3. \A n \in Names : Usable(n)' \in {NoGen, Usable(n)}
    BY <1>1, <1>2 DEF RInv, IInv, VersionsKnown, ChainNotRetired, Usable, Bound
  <1>4. Bindings' = [n \in Names |-> IF n \in lost THEN NoGen ELSE Bindings[n]]
    <2>1. Bindings' = [n \in Names |-> Usable(n)']
      BY DEF Bindings
    <2>2. QED
      BY <1>3, <2>1 DEF Bindings
  <1>5. Sessions' = [p \in Procs |-> NoGen]
    BY <1>2 DEF Sessions
  <1>6. lost \in SUBSET Names
    OBVIOUS
  <1>7. Promise!PowerLoss
    BY <1>2, <1>4, <1>5, <1>6 DEF Promise!PowerLoss, Bindings, Sessions
  <1>8. QED
    BY <1>7 DEF Promise!Next

\* Login, logout, rollback, session loading, crashes and power losses implement
\* one atomic map of bindings in which nothing retired comes back.
THEOREM Refinement == Spec => KeepsPromise
  <1>1. Init => Promise!Init
    <2> SUFFICES ASSUME Init
                 PROVE  Promise!Init
      OBVIOUS
    <2>1. \A n \in Names : Usable(n) = NoGen
      BY DEF Init, Usable, Bound, NoProfiles
    <2>2. \A p \in Procs : pc[p] # "session"
      BY DEF Init
    <2>3. retired = {}
      BY DEF Init
    <2>4. QED
      BY <2>1, <2>2, <2>3 DEF Promise!Init
  <1>2. RInv /\ [Next]_vars => [Promise!Next]_(Promise!vars)
    <2> SUFFICES ASSUME RInv, [Next]_vars
                 PROVE  [Promise!Next]_(Promise!vars)
      OBVIOUS
    <2>1. ASSUME NEW p \in Procs, Step(p)
          PROVE  [Promise!Next]_(Promise!vars)
      BY <2>1, CredentialWithdraws, RegistryActivates, RollbackActivates, LoadOpens,
         ExitCloses, OthersStutter DEF Step, Transact
    <2>2. CASE PowerLoss
      BY <2>2, LossOnlyLoses
    <2>3. CASE UNCHANGED vars
      <3>1. file' = file /\ chain' = chain /\ retired' = retired /\ pc' = pc /\ cred' = cred
        BY <2>3 DEF vars, store, local, history
      <3>2. Sessions' = Sessions
        BY <3>1 DEF Sessions
      <3>3. QED
        BY <3>1, <3>2, BindingsKept, PromiseStutters
    <2>4. QED
      BY <2>1, <2>2, <2>3 DEF Next
  <1>3. QED
    BY <1>1, <1>2, InductiveProgress, PTL DEF Spec, KeepsPromise, Promise!Spec
=============================================================================
