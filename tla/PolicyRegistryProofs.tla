------------------------- MODULE PolicyRegistryProofs -------------------------
(***************************************************************************)
(* Proofs about the policy registry, for any number of processes, names,   *)
(* conversations, statuses and generations and for every value of the      *)
(* bounds.                                                                 *)
(*                                                                         *)
(* The first part is about the edits of one set (PolicySets).  The second  *)
(* carries them through the transaction on the file.                       *)
(***************************************************************************)
EXTENDS PolicyRegistry, FiniteSetTheorems, TLAPS

-----------------------------------------------------------------------------
(* The edits of one policy set *)

\* Every edit of a policy set is a policy set.
LEMMA EditsAreSets ==
  /\ NoGen \in Slots /\ NoTargets \in Targets
  /\ \A g \in Slots : NewSet(g) \in Sets
  /\ NoSet \in Sets /\ NoSets \in Registries
  /\ \A set \in Sets, g \in Slots : Base(set, g) \in Sets
  /\ \A set \in Sets, k \in Kinds, list \in Targets :
       WithKind(set, k, list) \in Sets
  /\ \A g \in Slots, list \in Targets : Rebound(g, list) \in Sets
  <1>1. NoGen \in Slots /\ NoTargets \in Targets
    BY TargetBoundsAssumption DEF NoGen, Slots, NoTargets, Targets
  <1>2. \A g \in Slots : NewSet(g) \in Sets
    BY <1>1 DEF NewSet, Sets
  <1>3. NoSet \in Sets /\ NoSets \in Registries
    BY <1>1, <1>2 DEF NoSet, NoSets, Registries
  <1>4. \A set \in Sets, g \in Slots : Base(set, g) \in Sets
    BY <1>2 DEF Base
  <1>5. \A set \in Sets, k \in Kinds, list \in Targets :
          WithKind(set, k, list) \in Sets
    BY DEF WithKind, Sets
  <1>6. \A g \in Slots, list \in Targets : Rebound(g, list) \in Sets
    BY <1>2 DEF Rebound, Sets
  <1>7. QED
    BY <1>1, <1>2, <1>3, <1>4, <1>5, <1>6

\* What WithTarget does to the three fields of a set.
LEMMA WithTargetFields ==
  ASSUME NEW set \in Sets, NEW k \in Kinds, NEW c \in Convs, NEW status \in Statuses
  PROVE  LET edited == WithTarget(set, k, c, status)
         IN /\ edited \in Sets
            /\ edited.gen = set.gen
            /\ edited.reads = [set.reads EXCEPT ![c] = status]
            /\ edited.writes = IF k = "write" THEN [set.writes EXCEPT ![c] = status]
                                              ELSE set.writes
  <1> USE DEF Kinds
  <1>1. [set.reads EXCEPT ![c] = status] \in Targets
        /\ [set.writes EXCEPT ![c] = status] \in Targets
    BY DEF Sets, Targets
  <1>2. CASE k = "read"
    BY <1>1, <1>2 DEF WithTarget, Sets
  <1>3. CASE k = "write"
    BY <1>1, <1>3 DEF WithTarget, Sets
  <1>4. QED
    BY <1>2, <1>3

\* What load accepts of one set.
Sound(set) ==
  /\ IsSubset(set.writes, set.reads)
  /\ Counted(set.reads) /\ Counted(set.writes)

\* The number of targets on a list is a natural number.
LEMMA ListedFinite ==
  ASSUME NEW list
  PROVE  IsFiniteSet(Listed(list)) /\ Cardinality(Listed(list)) \in Nat
  <1>1. Listed(list) \in SUBSET Convs
    BY DEF Listed
  <1>2. QED
    BY <1>1, ConvsAssumption, FS_Subset, FS_CardinalityType

\* An empty set is sound.
LEMMA NewSetSound ==
  ASSUME NEW g
  PROVE  Sound(NewSet(g))
  <1>1. Listed(NoTargets) = {}
    BY DEF Listed, NoTargets
  <1>2. Counted(NoTargets)
    BY <1>1, FS_EmptySet, TargetBoundsAssumption DEF Counted
  <1>3. QED
    BY <1>1, <1>2 DEF Sound, NewSet, IsSubset

\* Room for a target keeps a list within its bound.
LEMMA RoomKeepsBound ==
  ASSUME NEW list \in Targets, NEW c \in Convs, NEW status \in Statuses,
         Counted(list), Room(list, c)
  PROVE  Counted([list EXCEPT ![c] = status])
  <1>1. Listed([list EXCEPT ![c] = status]) = Listed(list) \cup {c}
    BY AbsentAssumption DEF Listed, Targets
  <1>2. CASE list[c] # Absent
    <2>1. Listed(list) \cup {c} = Listed(list)
      BY <1>2 DEF Listed
    <2>2. QED
      BY <1>1, <2>1 DEF Counted
  <1>3. CASE list[c] = Absent
    <2>1. Cardinality(Listed(list)) < MaxTargets /\ c \notin Listed(list)
      BY <1>3 DEF Room, Listed
    <2>2. Cardinality(Listed(list) \cup {c}) = Cardinality(Listed(list)) + 1
      BY <2>1, ListedFinite, FS_AddElement
    <2>3. Cardinality(Listed(list)) + 1 <= MaxTargets
      BY <2>1, ListedFinite, TargetBoundsAssumption
    <2>4. QED
      BY <1>1, <2>2, <2>3 DEF Counted
  <1>4. QED
    BY <1>2, <1>3

\* Add records a target without breaking the bounds or the inclusion.
LEMMA AddSound ==
  ASSUME NEW set \in Sets, NEW k \in Kinds, NEW c \in Convs, NEW status \in Statuses,
         Sound(set), AddOK(set, k, c, status)
  PROVE  Sound(WithTarget(set, k, c, status))
  <1> DEFINE edited == WithTarget(set, k, c, status)
  <1>1. /\ edited.reads = [set.reads EXCEPT ![c] = status]
        /\ edited.writes = IF k = "write" THEN [set.writes EXCEPT ![c] = status]
                                          ELSE set.writes
    BY WithTargetFields
  <1>2. set.reads \in Targets /\ set.writes \in Targets
    BY DEF Sets
  <1>3. Counted(edited.reads)
    BY <1>1, <1>2, RoomKeepsBound DEF Sound, AddOK
  <1>4. Counted(edited.writes)
    BY <1>1, <1>2, RoomKeepsBound DEF Sound, AddOK
  <1>5. IsSubset(edited.writes, edited.reads)
    BY <1>1, <1>2 DEF IsSubset, Sound, AddOK, StatusAgrees, Listed, Targets
  <1>6. QED
    BY <1>3, <1>4, <1>5 DEF Sound

\* Replace keeps the bounds when the new list is within its own.
LEMMA ReplaceSound ==
  ASSUME NEW set \in Sets, NEW k \in Kinds, NEW list \in Targets,
         Sound(set), Counted(list), ReplaceOK(set, k, list)
  PROVE  Sound(WithKind(set, k, list))
  BY DEF Sound, ReplaceOK, WithKind, Sets

\* A reset leaves the reads given and nothing else.
LEMMA ReboundSound ==
  ASSUME NEW g \in Slots, NEW list \in Targets, Counted(list)
  PROVE  /\ Rebound(g, list) = [gen |-> g, reads |-> list, writes |-> NoTargets]
         /\ Sound(Rebound(g, list))
  <1>1. Rebound(g, list) = [gen |-> g, reads |-> list, writes |-> NoTargets]
    BY DEF Rebound, NewSet
  <1>2. Sound(NewSet(g))
    BY NewSetSound
  <1>3. QED
    BY <1>1, <1>2 DEF Sound, NewSet, IsSubset, NoTargets, Listed

-----------------------------------------------------------------------------
(* Type correctness *)

LocalType ==
  /\ pc \in [Procs -> PCs]
  /\ cmd \in [Procs -> {"replace", "rebind", "add", "use"}]
  /\ kind \in [Procs -> Kinds]
  /\ name \in [Procs -> Names]
  /\ gen \in [Procs -> Slots]
  /\ convs \in [Procs -> SUBSET Convs]
  /\ targets \in [Procs -> Targets]
  /\ snap \in [Procs -> Registries]
  /\ result \in [Procs -> {"none", "ok", "same", "error", "committed"}]

\* A process that ends leaves well-typed locals.
LEMMA ExitType ==
  ASSUME TypeOK, NEW p \in Procs, Exit(p)
  PROVE  LocalType' /\ profileLock' \in Procs \cup {Nobody}
  BY EditsAreSets DEF Exit, Return, Goto, LocalType, TypeOK, PCs, Kinds

\* A command that starts has well-typed locals.
LEMMA StartType ==
  ASSUME TypeOK, NEW p \in Procs, NEW c \in {"replace", "rebind", "add", "use"},
         NEW k \in Kinds, NEW n \in Names, NEW ids \in SUBSET Convs,
         NEW stage \in PCs, Start(p, c, k, n, ids, stage)
  PROVE  LocalType'
  <1>1. profiles[n] \in Slots
    BY DEF TypeOK
  <1>2. QED
    BY <1>1 DEF Start, Return, Goto, LocalType, TypeOK

\* No step changes the type of a variable.
LEMMA TypeStep == TypeOK /\ [Next]_vars => TypeOK'
  <1> SUFFICES ASSUME TypeOK, [Next]_vars
               PROVE  TypeOK'
    OBVIOUS
  <1> USE EditsAreSets DEF Goto, Return
  <1>0. LocalType
    BY DEF TypeOK, LocalType
  <1>1. ASSUME NEW p \in Procs, Begin(p)
        PROVE  TypeOK'
    <2>1. LocalType'
      <3>1. \A ids \in Selections : ids \in SUBSET Convs
        BY DEF Selections
      <3>2. \A c \in Convs : {c} \in SUBSET Convs
        OBVIOUS
      <3>3. "read" \in Kinds /\ {"inspect", "check", "waiting"} \subseteq PCs
        BY DEF Kinds, PCs
      <3>4. CASE BeginSet(p)
        BY <3>1, <3>3, <3>4, StartType DEF BeginSet
      <3>5. CASE BeginReset(p)
        BY <3>1, <3>3, <3>5, StartType DEF BeginReset
      <3>6. CASE BeginClear(p)
        BY <3>3, <3>6, StartType DEF BeginClear
      <3>7. CASE BeginUse(p)
        BY <3>2, <3>3, <3>7, StartType DEF BeginUse
      <3>8. CASE BeginEnroll(p)
        BY <3>2, <3>3, <3>8, StartType DEF BeginEnroll
      <3>9. CASE BeginContinue(p)
        BY <3>2, <3>3, <3>9, StartType DEF BeginContinue
      <3>10. QED
        BY <1>1, <3>4, <3>5, <3>6, <3>7, <3>8, <3>9 DEF Begin
    <2>2. /\ UNCHANGED <<profiles, issued, shared, store, base>>
          /\ profileLock' \in {profileLock, p}
      BY <1>1
         DEF Begin, BeginSet, BeginReset, BeginClear, BeginUse, BeginEnroll, BeginContinue,
             world
    <2>3. QED
      BY <2>1, <2>2 DEF TypeOK, LocalType, store
  <1>2. ASSUME NEW p \in Procs, Exit(p),
               UNCHANGED <<profiles, issued, shared, file, survivable>>,
               lock' \in {lock, Nobody}, base' \in {base, NoSets}
        PROVE  TypeOK'
    BY <1>2, ExitType DEF TypeOK, LocalType
  <1>3. ASSUME NEW p \in Procs, CheckBinding(p)
        PROVE  TypeOK'
    <2>1. CASE Exit(p)
      BY <1>2, <1>3, <2>1 DEF CheckBinding, store
    <2>2. CASE Goto(p, "inspect") /\ UNCHANGED <<cmd, command, targets, snap, result, profileLock>>
      BY <1>3, <2>2 DEF CheckBinding, TypeOK, store, command, PCs
    <2>3. QED
      BY <1>3, <2>1, <2>2 DEF CheckBinding
  <1>4. ASSUME NEW p \in Procs, InspectTargets(p)
        PROVE  TypeOK'
    <2>1. CASE Exit(p)
      BY <1>2, <1>4, <2>1 DEF InspectTargets, store
    <2>2. CASE ~Exit(p)
      <3>1. [c \in Convs |-> IF c \in convs[p] THEN shared[c] ELSE Absent] \in Targets
        BY DEF TypeOK, Targets
      <3>2. /\ targets' = [targets EXCEPT ![p] =
                  [c \in Convs |-> IF c \in convs[p] THEN shared[c] ELSE Absent]]
            /\ pc' = [pc EXCEPT ![p] = IF cmd[p] = "use" THEN "require" ELSE "waiting"]
            /\ UNCHANGED <<profiles, issued, shared, store, base, cmd, command, snap, result,
                           profileLock>>
        BY <1>4, <2>2 DEF InspectTargets
      <3>3. targets' \in [Procs -> Targets] /\ pc' \in [Procs -> PCs]
        BY <3>1, <3>2 DEF TypeOK, PCs
      <3>4. QED
        BY <3>2, <3>3 DEF TypeOK, store, command
    <2>3. QED
      BY <2>1, <2>2
  <1>5. ASSUME NEW p \in Procs, AcquireLock(p)
        PROVE  TypeOK'
    BY <1>5 DEF AcquireLock, TypeOK, world, command, PCs
  <1>6. ASSUME NEW p \in Procs, GiveUpLock(p) \/ Finish(p)
        PROVE  TypeOK'
    BY <1>2, <1>6 DEF GiveUpLock, Finish, store
  <1>7. ASSUME NEW p \in Procs, Edit(p)
        PROVE  TypeOK'
    <2>1. /\ file[name[p]] \in Sets /\ gen[p] \in Slots /\ kind[p] \in Kinds
          /\ targets[p] \in Targets /\ Base(file[name[p]], gen[p]) \in Sets
      BY DEF TypeOK, Registries
    <2>2. ASSUME NEW set \in Sets, Propose(p, set)
          PROVE  /\ pc' \in [Procs -> PCs]
                 /\ snap' \in [Procs -> Registries]
                 /\ result' = result
      <3>1. [file EXCEPT ![name[p]] = set] \in Registries
        BY DEF TypeOK, Registries
      <3>2. QED
        BY <2>2, <3>1 DEF Propose, TypeOK, PCs
    <2>3. ASSUME NEW how \in {"same", "error"}, Return(p, how, "release"), UNCHANGED snap
          PROVE  /\ pc' \in [Procs -> PCs]
                 /\ snap' \in [Procs -> Registries]
                 /\ result' \in [Procs -> {"none", "ok", "same", "error", "committed"}]
      BY <2>3 DEF TypeOK, PCs
    <2>4. /\ pc' \in [Procs -> PCs]
          /\ snap' \in [Procs -> Registries]
          /\ result' \in [Procs -> {"none", "ok", "same", "error", "committed"}]
      <3>1. CASE EditReplace(p)
        BY <2>1, <2>2, <3>1 DEF EditReplace, TypeOK
      <3>2. CASE EditRebind(p)
        BY <2>1, <2>2, <3>2 DEF EditRebind, TypeOK
      <3>3. CASE EditAdd(p)
        <4> DEFINE start == Base(file[name[p]], gen[p])
        <4>1. PICK c \in convs[p] :
                LET edited == WithTarget(start, kind[p], c, targets[p][c])
                IN \/ Return(p, "same", "release") /\ UNCHANGED snap
                   \/ Propose(p, edited)
          BY <3>3 DEF EditAdd
        <4>2. c \in Convs /\ targets[p][c] \in Statuses \cup {Absent}
          BY <2>1 DEF TypeOK, Targets
        <4>3. WithTarget(start, kind[p], c, targets[p][c]) \in Sets
          BY <2>1, <4>2 DEF WithTarget, Sets, Targets
        <4>4. QED
          BY <2>2, <2>3, <4>1, <4>3 DEF TypeOK
      <3>4. CASE Abandon(p)
        BY <2>3, <3>4 DEF Abandon
      <3>5. QED
        BY <1>7, <3>1, <3>2, <3>3, <3>4 DEF Edit
    <2>5. QED
      BY <1>7, <2>4 DEF Edit, TypeOK, world, store, command
  <1>8. ASSUME NEW p \in Procs, SaveRegistry(p)
        PROVE  TypeOK'
    <2>1. snap[p] \in Registries
      BY DEF TypeOK
    <2>2. QED
      BY <1>8, <2>1 DEF SaveRegistry, TypeOK, world, command, PCs
  <1>9. ASSUME NEW p \in Procs, SyncDirectory(p)
        PROVE  TypeOK'
    BY <1>9 DEF SyncDirectory, TypeOK, world, command, PCs
  <1>10. ASSUME NEW p \in Procs, ReleaseLock(p)
         PROVE  TypeOK'
    <2>1. CASE Exit(p)
      BY <1>2, <1>10, <2>1 DEF ReleaseLock
    <2>2. CASE ~Exit(p)
      <3>1. /\ lock' = Nobody /\ base' = NoSets
            /\ cmd' = [cmd EXCEPT ![p] = "use"]
            /\ targets' = [targets EXCEPT ![p] = NoTargets]
            /\ snap' = [snap EXCEPT ![p] = NoSets]
            /\ Return(p, "none", "inspect")
            /\ UNCHANGED <<command, profileLock, profiles, issued, shared, file, survivable>>
        BY <1>10, <2>2 DEF ReleaseLock
      <3>2. QED
        BY <3>1 DEF TypeOK, command, PCs
    <2>3. QED
      BY <2>1, <2>2
  <1>11. ASSUME NEW p \in Procs, Require(p)
         PROVE  TypeOK'
    <2>1. CASE Exit(p)
      BY <1>2, <1>11, <2>1 DEF Require, store
    <2>2. CASE ~Exit(p)
      BY <1>11, <2>2 DEF Require, TypeOK, command, store, PCs
    <2>3. QED
      BY <2>1, <2>2
  <1>12. ASSUME NEW p \in Procs, Crash(p)
         PROVE  TypeOK'
    BY <1>2, <1>12 DEF Crash
  <1>13. ASSUME NEW p \in Procs, UnlockFails(p)
         PROVE  TypeOK'
    BY <1>13 DEF UnlockFails, TypeOK, world, store, command
  <1>14. CASE Environment
    <2>1. ASSUME NEW n \in Names, Login(n) \/ Logout(n)
          PROVE  TypeOK'
      <3>1. issued' \in 0 .. MaxGen /\ profiles' \in [Names -> Slots]
        BY <2>1, TargetBoundsAssumption DEF Login, Logout, TypeOK, Slots, NoGen
      <3>2. UNCHANGED <<profileLock, shared, store, local, base>>
        BY <2>1 DEF Login, Logout
      <3>3. QED
        BY <3>1, <3>2 DEF TypeOK, store, local, command
    <2>2. ASSUME NEW c \in Convs, ChangeSharing(c)
          PROVE  TypeOK'
      BY <2>2 DEF ChangeSharing, TypeOK, store, local, command
    <2>3. CASE PowerLoss
      BY <2>3 DEF PowerLoss, TypeOK, PCs, Kinds
    <2>4. QED
      BY <1>14, <2>1, <2>2, <2>3 DEF Environment
  <1>15. CASE UNCHANGED vars
    BY <1>15 DEF TypeOK, vars, world, store, local, command
  <1>16. QED
    BY <1>1, <1>3, <1>4, <1>5, <1>6, <1>7, <1>8, <1>9, <1>10, <1>11, <1>12, <1>13, <1>14,
       <1>15
       DEF Next, Step

\* Type correctness: every variable keeps its type.
THEOREM TypeCorrect == Spec => []TypeOK
  <1>1. Init => TypeOK
    BY TargetBoundsAssumption, EditsAreSets DEF Init, TypeOK, PCs, Kinds, Slots, NoGen
  <1>2. QED
    BY <1>1, TypeStep, PTL DEF Spec

-----------------------------------------------------------------------------
(* The inductive invariant.  The properties are not inductive: a set is sound, *)
(* and a report true, because of what the command read before the lock, what   *)
(* it found under it, and because the file cannot change in between.           *)

\* The processes between load and unlock are exactly the holder of the lock.
LockHeld == \A p \in Procs : pc[p] \in Locked <=> lock = p

\* What a command inspected before the lock is what the user named.
CommandOK(p) ==
  /\ pc[p] \in {"idle", "check", "inspect"} => targets[p] = NoTargets
  /\ pc[p] \in Locked \cup {"waiting"} =>
       cmd[p] # "use" /\ Listed(targets[p]) = convs[p]
  /\ cmd[p] \in {"replace", "rebind"} => Cardinality(convs[p]) <= MaxTargets
  /\ cmd[p] = "rebind" => kind[p] = "read"
  /\ cmd[p] = "add" => \E c \in Convs : convs[p] = {c}

\* The holder of the profile lock runs a workflow for the registered profile.
ProfileHeld(p) ==
  profileLock = p =>
    /\ pc[p] # "idle"
    /\ cmd[p] \in {"add", "use"}
    /\ profiles[name[p]] = gen[p]

\* new is what the edit of p makes of the set old.
PlanReplace(p, old, new) ==
  LET start == Base(old, gen[p])
  IN /\ ~Refused(old, gen[p])
     /\ ReplaceOK(start, kind[p], targets[p])
     /\ new = WithKind(start, kind[p], targets[p])
PlanAdd(p, old, new) ==
  LET start == Base(old, gen[p])
  IN /\ ~Refused(old, gen[p])
     /\ \E c \in convs[p] :
          /\ AddOK(start, kind[p], c, targets[p][c])
          /\ new = WithTarget(start, kind[p], c, targets[p][c])
Plan(p, old, new) ==
  \/ cmd[p] = "replace" /\ PlanReplace(p, old, new)
  \/ cmd[p] = "rebind" /\ new = Rebound(gen[p], targets[p])
  \/ cmd[p] = "add" /\ PlanAdd(p, old, new)

\* The registry now differs from the one before by the edit of p alone.
EditedBy(p, before, now) ==
  /\ Plan(p, before[name[p]], now[name[p]])
  /\ \A m \in Names \ {name[p]} : now[m] = before[m]

\* base is what the holder of the lock found, and the file what it left there.
RecordOK(p) ==
  /\ pc[p] \in {"edit", "save"} => file = base
  /\ pc[p] = "save" => EditedBy(p, base, snap[p])
  /\ pc[p] = "sync" => EditedBy(p, base, file)
  /\ pc[p] = "release" => ReportIsTrue(p)

\* Every set that a command may read, now or after a power loss, is sound.
AllSound == \A registry \in survivable \cup {file}, n \in Names : Sound(registry[n])

IInv ==
  /\ TypeOK
  /\ LockHeld
  /\ \A p \in Procs : CommandOK(p) /\ ProfileHeld(p) /\ RecordOK(p)
  /\ AllSound

-----------------------------------------------------------------------------
(* Plans are sound, and what they say is what a report promises. *)

\* A planned set is one that load accepts, if the set before was.
LEMMA PlanSound ==
  ASSUME TypeOK, NEW p \in Procs, CommandOK(p), pc[p] \in Locked,
         NEW old \in Sets, NEW new, Sound(old), Plan(p, old, new)
  PROVE  Sound(new)
  <1>1. /\ gen[p] \in Slots /\ kind[p] \in Kinds /\ targets[p] \in Targets
        /\ convs[p] \in SUBSET Convs
    BY DEF TypeOK
  <1>2. Base(old, gen[p]) \in Sets /\ Sound(Base(old, gen[p]))
    BY <1>1, EditsAreSets, NewSetSound DEF Base
  <1>3. Listed(targets[p]) = convs[p]
    BY DEF CommandOK
  <1>4. CASE cmd[p] = "replace"
    <2>1. Counted(targets[p])
      BY <1>3, <1>4 DEF CommandOK, Counted
    <2>2. QED
      BY <1>1, <1>2, <1>4, <2>1, ReplaceSound DEF Plan, PlanReplace
  <1>5. CASE cmd[p] = "rebind"
    <2>1. Counted(targets[p])
      BY <1>3, <1>5 DEF CommandOK, Counted
    <2>2. QED
      BY <1>1, <1>5, <2>1, ReboundSound DEF Plan
  <1>6. CASE cmd[p] = "add"
    <2>1. PICK c \in convs[p] :
            /\ AddOK(Base(old, gen[p]), kind[p], c, targets[p][c])
            /\ new = WithTarget(Base(old, gen[p]), kind[p], c, targets[p][c])
      BY <1>6 DEF Plan, PlanAdd
    <2>2. c \in Convs /\ targets[p][c] \in Statuses
      BY <1>1, <1>3 DEF Listed, Targets
    <2>3. QED
      BY <1>1, <1>2, <2>1, <2>2, AddSound
  <1>7. QED
    BY <1>4, <1>5, <1>6 DEF Plan

\* The set p reports: the one it was asked for, or one with its target in it.
Reported(p, old, set) ==
  /\ cmd[p] = "replace" => set = WithKind(Base(old, gen[p]), kind[p], targets[p])
  /\ cmd[p] = "rebind" => set = Rebound(gen[p], targets[p])
  /\ cmd[p] \notin {"replace", "rebind"} =>
       /\ Matches(set, gen[p])
       /\ IsSubset(targets[p], set.reads)
       /\ kind[p] = "write" => IsSubset(targets[p], set.writes)

\* InPlace says that the set in the file is the reported one.
LEMMA InPlaceIsReported ==
  ASSUME NEW p \in Procs
  PROVE  InPlace(p) <=> Reported(p, base[name[p]], file[name[p]])
  BY DEF InPlace, Reported

\* A set that is not refused starts an edit with the generation of the command.
LEMMA BaseMatches ==
  ASSUME NEW old \in Sets, NEW g \in Slots, ~Refused(old, g)
  PROVE  Base(old, g).gen = g
  BY DEF Base, Refused, Matches, NewSet

\* A planned set is the reported one.
LEMMA PlanIsReported ==
  ASSUME TypeOK, NEW p \in Procs, CommandOK(p), pc[p] \in Locked,
         NEW old \in Sets, NEW new, Plan(p, old, new)
  PROVE  Reported(p, old, new)
  <1>1. CASE cmd[p] \in {"replace", "rebind"}
    BY <1>1 DEF Plan, PlanReplace, Reported
  <1>2. CASE cmd[p] = "add"
    <2> DEFINE start == Base(old, gen[p])
    <2>1. PICK c \in convs[p] : new = WithTarget(start, kind[p], c, targets[p][c])
      BY <1>2 DEF Plan, PlanAdd
    <2>2. /\ gen[p] \in Slots /\ kind[p] \in Kinds /\ targets[p] \in Targets
          /\ start \in Sets
      BY EditsAreSets DEF TypeOK
    <2>3. /\ Listed(targets[p]) = {c}
          /\ c \in Convs /\ targets[p][c] \in Statuses
      BY <1>2, <2>2 DEF CommandOK, TypeOK, Listed, Targets
    <2>4. start.gen = gen[p]
      BY <1>2, <2>2, BaseMatches DEF Plan, PlanAdd
    <2>5. /\ new.gen = start.gen
          /\ new.reads = [start.reads EXCEPT ![c] = targets[p][c]]
          /\ new.writes = IF kind[p] = "write"
                            THEN [start.writes EXCEPT ![c] = targets[p][c]]
                            ELSE start.writes
      BY <2>1, <2>2, <2>3, WithTargetFields
    <2>6. start.reads \in Targets /\ start.writes \in Targets
      BY <2>2 DEF Sets
    <2>7. IsSubset(targets[p], new.reads)
          /\ (kind[p] = "write" => IsSubset(targets[p], new.writes))
      BY <2>3, <2>5, <2>6 DEF IsSubset, Targets
    <2>8. QED
      BY <1>2, <2>4, <2>5, <2>7 DEF Reported, Matches
  <1>3. QED
    BY <1>1, <1>2 DEF Plan

-----------------------------------------------------------------------------
(* The frame: what a step of p leaves alone.  q is the process whose part of  *)
(* the invariant is shown.                                                     *)

Local(q) == <<pc[q], cmd[q], kind[q], name[q], gen[q], convs[q], targets[q], snap[q],
              result[q]>>

\* A step of one process leaves the locals of the others alone.
LEMMA Frame ==
  ASSUME TypeOK, NEW p \in Procs, NEW q \in Procs, q # p, Step(p)
  PROVE  Local(q)' = Local(q)
  <1> USE DEF TypeOK, Local, Goto, Return, Exit
  <1>1. CASE Begin(p)
    BY <1>1
       DEF Begin, BeginSet, BeginReset, BeginClear, BeginUse, BeginEnroll, BeginContinue, Start
  <1>2. CASE CheckBinding(p) \/ InspectTargets(p)
    BY <1>2 DEF CheckBinding, InspectTargets, command
  <1>3. CASE AcquireLock(p) \/ GiveUpLock(p)
    BY <1>3 DEF AcquireLock, GiveUpLock, command
  <1>4. CASE Edit(p)
    BY <1>4 DEF Edit, EditReplace, EditRebind, EditAdd, Abandon, Propose, command
  <1>5. CASE SaveRegistry(p) \/ SyncDirectory(p)
    BY <1>5 DEF SaveRegistry, SyncDirectory, command
  <1>6. CASE UnlockFails(p) \/ ReleaseLock(p)
    BY <1>6 DEF UnlockFails, ReleaseLock, command
  <1>7. CASE Require(p) \/ Finish(p) \/ Crash(p)
    BY <1>7 DEF Require, Finish, Crash, command
  <1>8. QED
    BY <1>1, <1>2, <1>3, <1>4, <1>5, <1>6, <1>7 DEF Step

\* The file and what is remembered of it belong to the holder of the lock.
LEMMA StoreFrame ==
  ASSUME LockHeld, NEW p \in Procs, NEW q \in Procs, q # p, pc[q] \in Locked, Step(p)
  PROVE  UNCHANGED <<lock, file, survivable, base>>
  <1>1. lock = q /\ pc[p] \notin Locked /\ lock # p
    BY DEF LockHeld
  <1>2. lock # Nobody
    BY <1>1, ProcsAssumption
  <1>3. CASE Begin(p)
    BY <1>3
       DEF Begin, BeginSet, BeginReset, BeginClear, BeginUse, BeginEnroll, BeginContinue, store
  <1>4. CASE CheckBinding(p) \/ InspectTargets(p) \/ AcquireLock(p) \/ GiveUpLock(p)
    BY <1>2, <1>4 DEF CheckBinding, InspectTargets, AcquireLock, GiveUpLock, store
  <1>5. CASE Edit(p) \/ SaveRegistry(p) \/ SyncDirectory(p) \/ UnlockFails(p) \/ ReleaseLock(p)
    BY <1>1, <1>5 DEF Edit, SaveRegistry, SyncDirectory, UnlockFails, ReleaseLock, Locked
  <1>6. CASE Require(p) \/ Finish(p) \/ Crash(p)
    BY <1>1, <1>6 DEF Require, Finish, Crash, store
  <1>7. QED
    BY <1>3, <1>4, <1>5, <1>6 DEF Step

-----------------------------------------------------------------------------
(* Each part of the invariant under a step of p *)

\* The lock keeps one process between load and unlock at a time.
LEMMA LockStep ==
  ASSUME TypeOK, LockHeld, NEW p \in Procs, Step(p)
  PROVE  LockHeld'
  <1> USE ProcsAssumption DEF TypeOK, LockHeld, Locked, PCs, Goto, Return, Exit, store
  <1>1. CASE Begin(p)
    BY <1>1
       DEF Begin, BeginSet, BeginReset, BeginClear, BeginUse, BeginEnroll, BeginContinue, Start
  <1>2. CASE CheckBinding(p) \/ InspectTargets(p)
    BY <1>2 DEF CheckBinding, InspectTargets
  <1>3. CASE AcquireLock(p) \/ GiveUpLock(p)
    BY <1>3 DEF AcquireLock, GiveUpLock
  <1>4. CASE Edit(p)
    BY <1>4 DEF Edit, EditReplace, EditRebind, EditAdd, Abandon, Propose
  <1>5. CASE SaveRegistry(p) \/ SyncDirectory(p)
    BY <1>5 DEF SaveRegistry, SyncDirectory
  <1>6. CASE UnlockFails(p) \/ ReleaseLock(p)
    BY <1>6 DEF UnlockFails, ReleaseLock
  <1>7. CASE Require(p) \/ Finish(p) \/ Crash(p)
    BY <1>7 DEF Require, Finish, Crash
  <1>8. QED
    BY <1>1, <1>2, <1>3, <1>4, <1>5, <1>6, <1>7 DEF Step

\* An edit keeps what the command is about; it goes on to save or to release.
LEMMA EditFrame ==
  ASSUME TypeOK, NEW p \in Procs, Edit(p)
  PROVE  /\ pc[p] = "edit" /\ pc'[p] \in {"save", "release"}
         /\ UNCHANGED <<cmd, command, targets, world, store, base>>
  BY DEF Edit, EditReplace, EditRebind, EditAdd, Abandon, Propose, Goto, Return, TypeOK

\* A command that ends has named, inspected and locked nothing.
LEMMA ExitLocal ==
  ASSUME TypeOK, NEW p \in Procs, Exit(p)
  PROVE  /\ pc'[p] = "idle" /\ cmd'[p] = "use" /\ targets'[p] = NoTargets
         /\ result'[p] = "none" /\ profileLock' # p
         /\ profileLock' \in {profileLock, Nobody}
  BY ProcsAssumption DEF TypeOK, Exit, Return, Goto

\* What was inspected stays what the user named.
LEMMA CommandStep ==
  ASSUME TypeOK, NEW p \in Procs, NEW q \in Procs, CommandOK(q), Step(p)
  PROVE  CommandOK(q)'
  <1>1. CASE q # p
    BY <1>1, Frame DEF Local, CommandOK
  <1>2. CASE q = p
    <2> USE <1>2
    <2>1. CASE Exit(p)
      BY <2>1, ExitLocal DEF CommandOK, Locked
    <2>2. CASE Begin(p)
      <3>1. targets'[p] = NoTargets
        BY <2>2 DEF Begin, BeginSet, BeginReset, BeginClear, BeginUse, BeginEnroll,
           BeginContinue, Start, CommandOK
      <3>2. /\ \/ pc'[p] \in {"check", "inspect"}
               \/ pc'[p] = "waiting" /\ cmd'[p] # "use" /\ convs'[p] = {}
            /\ cmd'[p] \in {"replace", "rebind"} =>
                 convs'[p] = {} \/ convs'[p] \in Selections
            /\ cmd'[p] = "rebind" => kind'[p] = "read"
            /\ cmd'[p] = "add" => \E c \in Convs : convs'[p] = {c}
        <4>1. ASSUME NEW c, NEW k, NEW n, NEW ids, NEW stage, Start(p, c, k, n, ids, stage)
              PROVE  /\ pc'[p] = stage /\ cmd'[p] = c /\ kind'[p] = k
                     /\ convs'[p] = ids
          BY <4>1 DEF Start, Return, Goto, TypeOK
        <4>2. CASE BeginSet(p)
          BY <4>1, <4>2 DEF BeginSet
        <4>3. CASE BeginReset(p)
          BY <4>1, <4>3 DEF BeginReset
        <4>4. CASE BeginClear(p)
          BY <4>1, <4>4 DEF BeginClear
        <4>5. CASE BeginUse(p)
          BY <4>1, <4>5 DEF BeginUse
        <4>6. CASE BeginEnroll(p)
          BY <4>1, <4>6 DEF BeginEnroll
        <4>7. CASE BeginContinue(p)
          BY <4>1, <4>7 DEF BeginContinue
        <4>8. QED
          BY <2>2, <4>2, <4>3, <4>4, <4>5, <4>6, <4>7 DEF Begin
      <3>3. Listed(NoTargets) = {}
        BY DEF Listed, NoTargets
      <3>4. Cardinality({}) <= MaxTargets
        BY FS_EmptySet, TargetBoundsAssumption
      <3>5. QED
        BY <3>1, <3>2, <3>3, <3>4 DEF CommandOK, Selections, Locked
    <2>3. CASE InspectTargets(p) /\ ~Exit(p)
      <3>1. /\ targets' = [targets EXCEPT ![p] =
                 [c \in Convs |-> IF c \in convs[p] THEN shared[c] ELSE Absent]]
            /\ pc' = [pc EXCEPT ![p] = IF cmd[p] = "use" THEN "require" ELSE "waiting"]
            /\ UNCHANGED <<cmd, command>>
        BY <2>3 DEF InspectTargets, Goto
      <3>2. \A c \in Convs : shared[c] # Absent
        BY AbsentAssumption DEF TypeOK
      <3>3. Listed(targets'[p]) = convs[p]
        BY <3>1, <3>2 DEF Listed, TypeOK
      <3>4. pc'[p] \in {"require", "waiting"} /\ (pc'[p] = "waiting" => cmd[p] # "use")
        BY <3>1 DEF TypeOK
      <3>5. QED
        BY <3>1, <3>3, <3>4 DEF CommandOK, Locked, command
    <2>4. CASE CheckBinding(p) /\ ~Exit(p)
      BY <2>4 DEF CheckBinding, CommandOK, Locked, command, Goto, TypeOK
    <2>5. CASE AcquireLock(p)
      BY <2>5 DEF AcquireLock, CommandOK, Locked, command, Goto, TypeOK
    <2>6. CASE Edit(p)
      BY <2>6, EditFrame DEF CommandOK, Locked, command
    <2>7. CASE SaveRegistry(p) \/ SyncDirectory(p)
      BY <2>7 DEF SaveRegistry, SyncDirectory, CommandOK, Locked, command, Goto, Return,
         TypeOK
    <2>8. CASE UnlockFails(p) \/ (ReleaseLock(p) /\ ~Exit(p))
      BY <2>8 DEF UnlockFails, ReleaseLock, CommandOK, Locked, command, Goto, Return, TypeOK
    <2>9. CASE Require(p) /\ ~Exit(p)
      BY <2>9 DEF Require, CommandOK, Locked, command, Goto, TypeOK
    <2>10. QED
      BY <2>1, <2>2, <2>3, <2>4, <2>5, <2>6, <2>7, <2>8, <2>9
         DEF Step, GiveUpLock, Finish, Crash
  <1>3. QED
    BY <1>1, <1>2

\* Under the profile lock the profile of a workflow cannot be replaced.
LEMMA ProfileStep ==
  ASSUME TypeOK, NEW p \in Procs, NEW q \in Procs, ProfileHeld(q), Step(p)
  PROVE  ProfileHeld(q)'
  <1>1. profiles' = profiles
    BY EditFrame
       DEF Step, Begin, BeginSet, BeginReset, BeginClear, BeginUse, BeginEnroll,
           BeginContinue, CheckBinding, InspectTargets, AcquireLock, GiveUpLock,
           SaveRegistry, SyncDirectory, UnlockFails, ReleaseLock, Require, Finish, Crash,
           world
  <1>2. CASE Exit(p)
    <2>1. CASE q = p
      BY <1>2, <2>1, ExitLocal DEF ProfileHeld
    <2>2. CASE q # p
      BY <1>1, <1>2, <2>2, ExitLocal, Frame, ProcsAssumption DEF ProfileHeld, Local
    <2>3. QED
      BY <2>1, <2>2
  <1>3. CASE BeginEnroll(p) \/ BeginContinue(p)
    <2>1. profileLock' = p
      BY <1>3 DEF BeginEnroll, BeginContinue
    <2>2. /\ pc'[p] = "check" /\ cmd'[p] \in {"add", "use"}
          /\ profiles[name'[p]] = gen'[p]
      BY <1>3 DEF BeginEnroll, BeginContinue, Start, Return, Goto, TypeOK
    <2>3. QED
      BY <1>1, <2>1, <2>2 DEF ProfileHeld
  <1>4. CASE Begin(p) /\ ~BeginEnroll(p) /\ ~BeginContinue(p)
    <2>1. profileLock' = profileLock /\ pc[p] = "idle"
      BY <1>4 DEF Begin, BeginSet, BeginReset, BeginClear, BeginUse, Start, world
    <2>2. QED
      BY <1>1, <2>1, <1>4, Frame DEF ProfileHeld, Local, Step
  <1>5. CASE ~Exit(p) /\ ~Begin(p)
    <2>1. /\ profileLock' = profileLock /\ UNCHANGED command
          /\ pc'[p] # "idle" /\ cmd'[p] \in {cmd[p], "use"}
      <3> USE DEF Goto, Return, TypeOK
      <3>1. CASE CheckBinding(p) \/ InspectTargets(p)
        BY <1>5, <3>1 DEF CheckBinding, InspectTargets
      <3>2. CASE AcquireLock(p) \/ Edit(p)
        BY <3>2, EditFrame DEF AcquireLock, world
      <3>3. CASE SaveRegistry(p) \/ SyncDirectory(p)
        BY <3>3 DEF SaveRegistry, SyncDirectory, world
      <3>4. CASE UnlockFails(p) \/ ReleaseLock(p) \/ Require(p)
        BY <1>5, <3>4 DEF UnlockFails, ReleaseLock, Require, world
      <3>5. QED
        BY <1>5, <3>1, <3>2, <3>3, <3>4 DEF Step, GiveUpLock, Finish, Crash
    <2>2. CASE q = p
      BY <1>1, <2>1, <2>2 DEF ProfileHeld, command
    <2>3. CASE q # p
      BY <1>1, <2>1, <2>3, Frame DEF ProfileHeld, Local
    <2>4. QED
      BY <2>2, <2>3
  <1>6. QED
    BY <1>2, <1>3, <1>4, <1>5

\* The edit that adds nothing found its target in a set of its own generation.
LEMMA NothingToAdd ==
  ASSUME TypeOK, NEW p \in Procs, CommandOK(p), pc[p] \in Locked, cmd[p] = "add",
         NEW old \in Sets, PlanAdd(p, old, Base(old, gen[p]))
  PROVE  Reported(p, old, old)
  <1> DEFINE start == Base(old, gen[p])
  <1>1. Reported(p, old, start)
    BY PlanIsReported DEF Plan
  <1>2. CASE old # NoSet
    BY <1>1, <1>2 DEF Base
  <1>3. CASE old = NoSet
    <2>1. start.reads = NoTargets
      BY <1>3 DEF Base, NewSet
    <2>2. PICK c \in Convs : convs[p] = {c}
      BY DEF CommandOK
    <2>3. targets[p][c] # Absent
      BY <2>2 DEF CommandOK, Listed
    <2>4. start.reads[c] = targets[p][c]
      BY <1>1, <2>2, <2>3 DEF Reported, IsSubset, Listed
    <2>5. QED
      BY <2>1, <2>3, <2>4 DEF NoTargets
  <1>4. QED
    BY <1>2, <1>3

\* An edit proposes what was planned, or ends in a report that is true.
LEMMA EditStep ==
  ASSUME TypeOK, NEW p \in Procs, CommandOK(p), RecordOK(p), Edit(p)
  PROVE  RecordOK(p)'
  <1> DEFINE old == file[name[p]]
  <1>1. /\ pc[p] = "edit" /\ file = base
        /\ UNCHANGED <<cmd, kind, name, gen, convs, targets, file, base, survivable>>
        /\ pc'[p] \in {"save", "release"}
    BY EditFrame DEF RecordOK, command, store
  <1>2. old \in Sets /\ base[name[p]] = old /\ name[p] \in Names
    BY <1>1 DEF TypeOK, Registries
  <1>3. ASSUME NEW set, Propose(p, set), Plan(p, old, set)
        PROVE  RecordOK(p)'
    <2>1. pc'[p] = "save" /\ snap'[p] = [file EXCEPT ![name[p]] = set]
      BY <1>3 DEF Propose, Goto, TypeOK
    <2>2. /\ snap'[p][name[p]] = set
          /\ \A m \in Names \ {name[p]} : snap'[p][m] = base[m]
      BY <1>1, <2>1 DEF TypeOK, Registries
    <2>3. EditedBy(p, base, snap[p])'
      BY <1>1, <1>2, <1>3, <2>2 DEF EditedBy, Plan, PlanReplace, PlanAdd
    <2>4. QED
      BY <1>1, <2>1, <2>3 DEF RecordOK
  <1>4. ASSUME pc'[p] = "release", result'[p] = "error"
        PROVE  RecordOK(p)'
    BY <1>1, <1>4 DEF RecordOK, ReportIsTrue
  <1>5. ASSUME pc'[p] = "release", result'[p] = "same", cmd[p] = "add", Reported(p, old, old)
        PROVE  RecordOK(p)'
    <2>1. Reported(p, base[name[p]], file[name[p]])'
      BY <1>1, <1>5 DEF Reported
    <2>2. InPlace(p)'
      BY <1>1, <1>5, <2>1 DEF InPlace, Reported
    <2>3. QED
      BY <1>1, <1>5, <2>2 DEF RecordOK, ReportIsTrue
  <1>6. CASE EditReplace(p)
    BY <1>3, <1>6 DEF EditReplace, Plan, PlanReplace
  <1>7. CASE EditRebind(p)
    BY <1>3, <1>7 DEF EditRebind, Plan
  <1>8. CASE EditAdd(p)
    <2> DEFINE start == Base(old, gen[p])
    <2>1. cmd[p] = "add"
      BY <1>8 DEF EditAdd
    <2>2. PICK c \in convs[p] :
            LET edited == WithTarget(start, kind[p], c, targets[p][c])
            IN /\ PlanAdd(p, old, edited)
               /\ \/ edited = start /\ Return(p, "same", "release")
                  \/ Propose(p, edited)
      BY <1>8 DEF EditAdd, PlanAdd
    <2>3. CASE Propose(p, WithTarget(start, kind[p], c, targets[p][c]))
      BY <1>3, <2>1, <2>2, <2>3 DEF Plan
    <2>4. CASE /\ WithTarget(start, kind[p], c, targets[p][c]) = start
               /\ Return(p, "same", "release")
      <3>1. PlanAdd(p, old, start)
        BY <2>2, <2>4
      <3>2. Reported(p, old, old)
        BY <1>1, <1>2, <2>1, <3>1, NothingToAdd DEF Locked
      <3>3. pc'[p] = "release" /\ result'[p] = "same"
        BY <2>4 DEF Return, Goto, TypeOK
      <3>4. QED
        BY <1>5, <2>1, <3>2, <3>3
    <2>5. QED
      BY <2>2, <2>3, <2>4
  <1>9. CASE Abandon(p)
    <2>1. pc'[p] = "release" /\ result'[p] = "error"
      BY <1>9 DEF Abandon, Return, Goto, TypeOK
    <2>2. QED
      BY <1>4, <2>1
  <1>10. QED
    BY <1>6, <1>7, <1>8, <1>9 DEF Edit

\* What the holder found, and what it made of it, stays true until the unlock.
LEMMA RecordStep ==
  ASSUME TypeOK, LockHeld, NEW p \in Procs, NEW q \in Procs, CommandOK(q), RecordOK(q),
         Step(p)
  PROVE  RecordOK(q)'
  <1>1. CASE q # p
    <2>1. Local(q)' = Local(q)
      BY <1>1, Frame
    <2>2. CASE pc[q] \in Locked
      <3>1. UNCHANGED <<file, survivable, base>>
        BY <1>1, <2>2, StoreFrame
      <3>2. QED
        BY <2>1, <3>1 DEF Local, RecordOK, EditedBy, Plan, PlanReplace, PlanAdd,
           ReportIsTrue, InPlace
    <2>3. CASE pc[q] \notin Locked
      BY <2>1, <2>3 DEF Local, RecordOK, Locked
    <2>4. QED
      BY <2>2, <2>3
  <1>2. CASE q = p
    <2> USE <1>2
    <2>1. CASE pc'[p] \notin {"edit", "save", "sync", "release"}
      BY <2>1 DEF RecordOK
    <2>2. CASE AcquireLock(p)
      BY <2>2 DEF AcquireLock, RecordOK, Goto, TypeOK
    <2>3. CASE Edit(p)
      BY <2>3, EditStep
    <2>4. CASE SaveRegistry(p)
      <3>1. /\ pc[p] = "save" /\ file = base /\ EditedBy(p, base, snap[p])
            /\ UNCHANGED <<cmd, kind, name, gen, convs, targets, base>>
        BY <2>4 DEF SaveRegistry, RecordOK, command
      <3>2. CASE file' = snap[p] /\ Goto(p, "sync")
        <4>1. pc'[p] = "sync"
          BY <3>2 DEF Goto, TypeOK
        <4>2. EditedBy(p, base, file)'
          BY <3>1, <3>2 DEF EditedBy, Plan, PlanReplace, PlanAdd
        <4>3. QED
          BY <4>1, <4>2 DEF RecordOK
      <3>3. CASE Return(p, "error", "release") /\ file' = file
        <4>1. pc'[p] = "release" /\ result'[p] = "error"
          BY <3>3 DEF Return, Goto, TypeOK
        <4>2. QED
          BY <3>1, <3>3, <4>1 DEF RecordOK, ReportIsTrue
      <3>4. QED
        BY <2>4, <3>2, <3>3 DEF SaveRegistry
    <2>5. CASE SyncDirectory(p)
      <3>1. /\ pc[p] = "sync" /\ EditedBy(p, base, file)
            /\ UNCHANGED <<cmd, kind, name, gen, convs, targets, base, file>>
            /\ pc'[p] = "release"
            /\ \/ result'[p] = "committed"
               \/ result'[p] = "ok" /\ survivable' = {file}
        BY <2>5 DEF SyncDirectory, RecordOK, command, Return, Goto, TypeOK
      <3>2. base[name[p]] \in Sets /\ pc[p] \in Locked
        BY <3>1 DEF TypeOK, Registries, Locked
      <3>3. Reported(p, base[name[p]], file[name[p]])
        BY <3>1, <3>2, PlanIsReported DEF EditedBy
      <3>4. InPlace(p)'
        BY <3>1, <3>3 DEF InPlace, Reported
      <3>5. QED
        BY <3>1, <3>4 DEF RecordOK, ReportIsTrue, EditedBy
    <2>6. CASE Exit(p)
      BY <2>1, <2>6, ExitLocal
    <2>7. CASE Begin(p)
      BY <2>1, <2>7
         DEF Begin, BeginSet, BeginReset, BeginClear, BeginUse, BeginEnroll,
             BeginContinue, Start, Return, Goto, TypeOK
    <2>8. CASE CheckBinding(p) \/ InspectTargets(p)
      BY <2>1, <2>6, <2>8 DEF CheckBinding, InspectTargets, Goto, TypeOK
    <2>9. CASE ReleaseLock(p) \/ Require(p)
      BY <2>1, <2>6, <2>9 DEF ReleaseLock, Require, Return, Goto, TypeOK
    <2>10. CASE UnlockFails(p)
      <3>1. /\ pc[p] = "release" /\ ReportIsTrue(p)
            /\ \/ result[p] = "ok" /\ result'[p] = "committed"
               \/ result[p] = "same" /\ result'[p] = "error"
            /\ UNCHANGED <<pc, cmd, kind, name, gen, targets, file, base, survivable>>
        BY <2>10 DEF UnlockFails, RecordOK, TypeOK, store, command
      <3>2. InPlace(p)' <=> InPlace(p)
        BY <3>1 DEF InPlace
      <3>3. QED
        BY <3>1, <3>2 DEF RecordOK, ReportIsTrue
    <2>11. QED
      BY <2>2, <2>3, <2>4, <2>5, <2>6, <2>7, <2>8, <2>9, <2>10
         DEF Step, GiveUpLock, Finish, Crash
  <1>3. QED
    BY <1>1, <1>2

\* Only a rename changes the file, and only to what was planned.
LEMMA OnlySaves ==
  ASSUME TypeOK, NEW p \in Procs, Step(p),
         file' # file \/ ~(survivable' \subseteq survivable \cup {file})
  PROVE  SaveRegistry(p) /\ file' = snap[p] /\ survivable' = survivable \cup {snap[p]}
  BY EditFrame
     DEF Step, Begin, BeginSet, BeginReset, BeginClear, BeginUse, BeginEnroll,
         BeginContinue, CheckBinding, InspectTargets, AcquireLock, GiveUpLock, SaveRegistry,
         SyncDirectory, UnlockFails, ReleaseLock, Require, Finish, Crash, store

\* Every set that is written is sound.
LEMMA SoundStep ==
  ASSUME TypeOK, AllSound, NEW p \in Procs, CommandOK(p), RecordOK(p), Step(p)
  PROVE  AllSound'
  <1>1. CASE file' = file /\ survivable' \subseteq survivable \cup {file}
    BY <1>1 DEF AllSound
  <1>2. CASE file' # file \/ ~(survivable' \subseteq survivable \cup {file})
    <2>1. SaveRegistry(p) /\ file' = snap[p] /\ survivable' = survivable \cup {snap[p]}
      BY <1>2, OnlySaves
    <2>2. pc[p] = "save" /\ file = base /\ EditedBy(p, base, snap[p])
      BY <2>1 DEF SaveRegistry, RecordOK
    <2>3. file[name[p]] \in Sets /\ name[p] \in Names /\ Sound(file[name[p]])
      BY DEF TypeOK, Registries, AllSound
    <2>4. Sound(snap[p][name[p]])
      BY <2>2, <2>3, PlanSound DEF EditedBy, Locked
    <2>5. \A m \in Names \ {name[p]} : Sound(snap[p][m])
      BY <2>2 DEF EditedBy, AllSound
    <2>6. QED
      BY <2>1, <2>4, <2>5 DEF AllSound
  <1>3. QED
    BY <1>1, <1>2

-----------------------------------------------------------------------------
\* The world around the registry: logins and logouts wait for the profile lock,
\* and a power loss brings back a version that was sound.
LEMMA EnvironmentStep ==
  ASSUME IInv, Environment
  PROVE  IInv'
  <1>1. TypeOK'
    BY TypeStep DEF IInv, Next
  <1>2. ASSUME NEW n \in Names, Login(n) \/ Logout(n)
        PROVE  IInv'
    <2>1. profileLock = Nobody /\ UNCHANGED <<profileLock, store, local, base>>
      BY <1>2 DEF Login, Logout
    <2>2. \A p \in Procs : ProfileHeld(p)'
      BY <2>1, ProcsAssumption DEF ProfileHeld
    <2>3. QED
      BY <1>1, <2>1, <2>2
         DEF IInv, LockHeld, CommandOK, RecordOK, EditedBy, Plan, PlanReplace, PlanAdd,
             ReportIsTrue, InPlace, AllSound, store, local, command
  <1>3. ASSUME NEW c \in Convs, ChangeSharing(c)
        PROVE  IInv'
    BY <1>1, <1>3
       DEF ChangeSharing, IInv, LockHeld, CommandOK, ProfileHeld, RecordOK, EditedBy, Plan,
           PlanReplace, PlanAdd, ReportIsTrue, InPlace, AllSound, store, local, command
  <1>4. CASE PowerLoss
    <2>1. PICK registry \in survivable : file' = registry /\ survivable' = {registry}
      BY <1>4 DEF PowerLoss
    <2>2. AllSound'
      BY <2>1 DEF IInv, AllSound
    <2>3. /\ lock' = Nobody /\ profileLock' = Nobody
          /\ \A p \in Procs : pc'[p] = "idle" /\ cmd'[p] = "use" /\ targets'[p] = NoTargets
      BY <1>4 DEF PowerLoss
    <2>4. LockHeld'
      BY <2>3, ProcsAssumption DEF LockHeld, Locked
    <2>5. \A p \in Procs : CommandOK(p)' /\ ProfileHeld(p)' /\ RecordOK(p)'
      BY <2>3, ProcsAssumption DEF CommandOK, ProfileHeld, RecordOK, Locked
    <2>6. QED
      BY <1>1, <2>2, <2>4, <2>5 DEF IInv
  <1>5. QED
    BY <1>2, <1>3, <1>4 DEF Environment

\* The inductive invariant holds in every reachable state.
THEOREM Inductive == Spec => []IInv
  <1>1. Init => IInv
    <2> SUFFICES ASSUME Init
                 PROVE  IInv
      OBVIOUS
    <2> USE DEF Init
    <2>1. TypeOK
      BY TargetBoundsAssumption, EditsAreSets DEF TypeOK, PCs, Kinds, Slots, NoGen
    <2>2. LockHeld
      BY ProcsAssumption DEF LockHeld, Locked
    <2>3. \A p \in Procs : CommandOK(p) /\ ProfileHeld(p) /\ RecordOK(p)
      BY ProcsAssumption DEF CommandOK, ProfileHeld, RecordOK, Locked
    <2>4. AllSound
      BY NewSetSound DEF AllSound, NoSets, NoSet
    <2>5. QED
      BY <2>1, <2>2, <2>3, <2>4 DEF IInv
  <1>2. IInv /\ [Next]_vars => IInv'
    <2> SUFFICES ASSUME IInv, [Next]_vars
                 PROVE  IInv'
      OBVIOUS
    <2>1. ASSUME NEW p \in Procs, Step(p)
          PROVE  IInv'
      <3> USE <2>1 DEF IInv
      <3>1. TypeOK'
        BY TypeStep DEF Next
      <3>2. LockHeld'
        BY LockStep
      <3>3. \A q \in Procs : CommandOK(q)' /\ ProfileHeld(q)' /\ RecordOK(q)'
        BY CommandStep, ProfileStep, RecordStep
      <3>4. AllSound'
        BY SoundStep
      <3>5. QED
        BY <3>1, <3>2, <3>3, <3>4
    <2>2. CASE Environment
      BY <2>2, EnvironmentStep
    <2>3. CASE UNCHANGED vars
      BY <2>3
         DEF vars, world, store, local, command, IInv, TypeOK, LockHeld, CommandOK,
             ProfileHeld, RecordOK, EditedBy, Plan, PlanReplace, PlanAdd, ReportIsTrue,
             InPlace, AllSound
    <2>4. QED
      BY <2>1, <2>2, <2>3 DEF Next
  <1>3. QED
    BY <1>1, <1>2, PTL DEF Spec

\* No edit, by whichever command and from whichever version a power loss leaves,
\* records a write target that is not a read target with the same status.
THEOREM WritesAreReads == Spec => []WritesWithinReads
  <1>1. IInv => WritesWithinReads
    BY DEF IInv, AllSound, Sound, WritesWithinReads
  <1>2. QED
    BY <1>1, Inductive, PTL

\* No sequence of edits leaves a list over its bound, for any bound.
THEOREM ListsFit == Spec => []TargetsFit
  <1>1. IInv => TargetsFit
    BY DEF IInv, AllSound, Sound, TargetsFit
  <1>2. QED
    BY <1>1, Inductive, PTL

\* Every edit reports what became of the file, although it was planned before
\* the lock was taken: no other profile's set is touched and no edit is lost.
THEOREM TrueReports == Spec => []ReportsAreTrue
  <1>1. IInv => ReportsAreTrue
    BY DEF IInv, RecordOK, ReportsAreTrue
  <1>2. QED
    BY <1>1, Inductive, PTL

\* From its enrolment to its read or send, a workflow runs as the registered
\* profile, and what it recorded is bound to that profile.
THEOREM CurrentWorkflow == Spec => []WorkflowIsCurrent
  <1>1. IInv => WorkflowIsCurrent
    <2> SUFFICES ASSUME IInv, NEW p \in Procs, profileLock = p
                 PROVE  /\ profiles[name[p]] = gen[p]
                        /\ pc[p] = "release" /\ result[p] = "ok"
                             => Matches(file[name[p]], profiles[name[p]])
      BY DEF WorkflowIsCurrent
    <2>1. profiles[name[p]] = gen[p] /\ cmd[p] \in {"add", "use"}
      BY DEF IInv, ProfileHeld
    <2>2. ASSUME pc[p] = "release", result[p] = "ok"
          PROVE  Matches(file[name[p]], gen[p])
      <3>1. InPlace(p)
        BY <2>2 DEF IInv, RecordOK, ReportIsTrue
      <3>2. QED
        BY <2>1, <3>1 DEF InPlace
    <2>3. QED
      BY <2>1, <2>2
  <1>2. QED
    BY <1>1, Inductive, PTL

-----------------------------------------------------------------------------
(* No login inherits a target *)

\* The running command p inspected status for the conversation c, and records
\* it for its own generation in the list of kind k of the profile n.
InspectedBy(p, n, c, k, status, g) ==
  /\ pc[p] = "save" /\ name[p] = n /\ g = gen[p]
  /\ targets[p][c] = status
  /\ kind[p] = k \/ (kind[p] = "write" /\ cmd[p] = "add")

\* A target of kind k is kept for the same generation, or it was inspected by p.
Accounted(p, n, c, k, was, is, oldGen, newGen) ==
  is # Absent =>
    \/ oldGen = newGen /\ was = is
    \/ InspectedBy(p, n, c, k, is, newGen)

\* Every target of a planned set is accounted for.
LEMMA PlanAccounted ==
  ASSUME TypeOK, NEW p \in Procs, CommandOK(p), pc[p] = "save",
         NEW old \in Sets, NEW new, Plan(p, old, new), NEW c \in Convs
  PROVE  /\ Accounted(p, name[p], c, "read", old.reads[c], new.reads[c], old.gen, new.gen)
         /\ Accounted(p, name[p], c, "write", old.writes[c], new.writes[c], old.gen, new.gen)
  <1> DEFINE start == Base(old, gen[p])
  <1>1. /\ gen[p] \in Slots /\ kind[p] \in Kinds /\ targets[p] \in Targets
        /\ start \in Sets
    BY EditsAreSets DEF TypeOK
  <1>2. ASSUME ~Refused(old, gen[p])
        PROVE  /\ start.gen = gen[p]
               /\ start.reads[c] # Absent => old.gen = gen[p] /\ old.reads[c] = start.reads[c]
               /\ start.writes[c] # Absent => old.gen = gen[p] /\ old.writes[c] = start.writes[c]
    <2>1. CASE old = NoSet
      <3>1. start = NewSet(gen[p])
        BY <2>1 DEF Base
      <3>2. QED
        BY <3>1 DEF NewSet, NoTargets
    <2>2. CASE old # NoSet
      BY <1>2, <2>2 DEF Base, Refused, Matches
    <2>3. QED
      BY <2>1, <2>2
  <1>3. CASE cmd[p] = "replace"
    <2>1. ~Refused(old, gen[p]) /\ new = WithKind(start, kind[p], targets[p])
      BY <1>3 DEF Plan, PlanReplace
    <2>2. /\ new.gen = start.gen
          /\ new.reads = IF kind[p] = "read" THEN targets[p] ELSE start.reads
          /\ new.writes = IF kind[p] = "read" THEN start.writes ELSE targets[p]
      BY <1>1, <2>1 DEF WithKind, Sets
    <2>3. QED
      BY <1>1, <1>2, <2>1, <2>2 DEF Accounted, InspectedBy, Kinds
  <1>4. CASE cmd[p] = "rebind"
    <2>1. new = [gen |-> gen[p], reads |-> targets[p], writes |-> NoTargets]
      BY <1>4 DEF Plan, Rebound, NewSet
    <2>2. QED
      BY <1>4, <2>1 DEF Accounted, InspectedBy, NoTargets, CommandOK
  <1>5. CASE cmd[p] = "add"
    <2>1. ~Refused(old, gen[p])
      BY <1>5 DEF Plan, PlanAdd
    <2>2. PICK d \in convs[p] : new = WithTarget(start, kind[p], d, targets[p][d])
      BY <1>5 DEF Plan, PlanAdd
    <2>3. d \in Convs /\ targets[p][d] \in Statuses
      BY <1>1, <1>5 DEF CommandOK, TypeOK, Listed, Targets, Locked
    <2>4. /\ new.gen = start.gen
          /\ new.reads = [start.reads EXCEPT ![d] = targets[p][d]]
          /\ new.writes = IF kind[p] = "write" THEN [start.writes EXCEPT ![d] = targets[p][d]]
                                               ELSE start.writes
      BY <1>1, <2>2, <2>3, WithTargetFields
    <2>5. start.reads \in Targets /\ start.writes \in Targets
      BY <1>1 DEF Sets
    <2>6. new.reads[c] = (IF c = d THEN targets[p][c] ELSE start.reads[c])
          /\ new.writes[c] = (IF c = d /\ kind[p] = "write" THEN targets[p][c]
                                                             ELSE start.writes[c])
      BY <2>4, <2>5 DEF Targets
    <2>7. QED
      BY <1>1, <1>2, <1>5, <2>1, <2>4, <2>6 DEF Accounted, InspectedBy, Kinds
  <1>6. QED
    BY <1>3, <1>4, <1>5 DEF Plan

\* However edits, logins, logouts and power losses interleave, every target in the
\* file was inspected by the command that recorded it, for the generation it ran as.
THEOREM NoInheritance == Spec => NothingInherited
  <1> DEFINE Kept(n, c, k, was, is) ==
               is # Absent =>
                 \/ Matches(file[n], file'[n].gen) /\ was = is
                 \/ \E p \in Procs : InspectedBy(p, n, c, k, is, file'[n].gen)
  <1>1. ASSUME IInv, Next, NEW n \in Names, NEW c \in Convs, ~PowerLoss
        PROVE  /\ Kept(n, c, "read", file[n].reads[c], file'[n].reads[c])
               /\ Kept(n, c, "write", file[n].writes[c], file'[n].writes[c])
    <2>1. CASE file'[n] = file[n]
      BY <2>1 DEF Matches
    <2>2. CASE file'[n] # file[n]
      <3>1. PICK p \in Procs : Step(p)
        BY <1>1, <2>2 DEF Next, Environment, Login, Logout, ChangeSharing, store
      <3>2. SaveRegistry(p) /\ file' = snap[p]
        BY <1>1, <2>2, <3>1, OnlySaves DEF IInv
      <3>3. pc[p] = "save" /\ file = base /\ EditedBy(p, base, snap[p])
        BY <1>1, <3>2 DEF SaveRegistry, IInv, RecordOK
      <3>4. n = name[p] /\ Plan(p, file[n], file'[n]) /\ file[n] \in Sets
        BY <1>1, <2>2, <3>2, <3>3 DEF EditedBy, IInv, TypeOK, Registries
      <3>5. /\ Accounted(p, n, c, "read", file[n].reads[c], file'[n].reads[c],
                         file[n].gen, file'[n].gen)
            /\ Accounted(p, n, c, "write", file[n].writes[c], file'[n].writes[c],
                         file[n].gen, file'[n].gen)
        BY <1>1, <3>3, <3>4, PlanAccounted DEF IInv
      <3>6. QED
        BY <3>5 DEF Accounted, Matches
    <2>3. QED
      BY <2>1, <2>2
  <1>2. IInv /\ [Next]_vars =>
          [\/ PowerLoss
           \/ \A n \in Names, c \in Convs :
                LET old == file[n]
                    new == file'[n]
                    inspected(k, status) ==
                      \E p \in Procs :
                        /\ pc[p] = "save" /\ name[p] = n /\ Matches(new, gen[p])
                        /\ targets[p][c] = status
                        /\ kind[p] = k \/ (kind[p] = "write" /\ cmd[p] = "add")
                    sound(k, was, is) == is # Absent =>
                         \/ (Matches(old, new.gen) /\ was = is)
                         \/ inspected(k, is)
                IN /\ sound("read", old.reads[c], new.reads[c])
                   /\ sound("write", old.writes[c], new.writes[c])]_vars
    BY <1>1 DEF InspectedBy, Matches
  <1>3. QED
    BY <1>2, Inductive, PTL DEF Spec, NothingInherited
=============================================================================
