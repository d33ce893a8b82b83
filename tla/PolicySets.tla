------------------------------ MODULE PolicySets ------------------------------
(***************************************************************************)
(* The edits of one policy set, as the code makes them in memory           *)
(* (policy/registry.go).  A set is bound to one profile, represented by    *)
(* its credential generation; NoGen stands for a set that is not in the    *)
(* file.  A target list maps a conversation to the shared status recorded  *)
(* for it, so conversation IDs are unique as validateTargets requires.     *)
(***************************************************************************)
EXTENDS Naturals, FiniteSets

CONSTANTS Convs,       \* conversation IDs
          Statuses,    \* values of slack.SharedStatus
          Absent,      \* no target for this conversation
          MaxTargets,  \* contract.MaxPolicyTargets
          MaxGen       \* bound on the generations of one behaviour

ASSUME AbsentAssumption == Absent \notin Statuses
ASSUME ConvsAssumption == IsFiniteSet(Convs)
ASSUME TargetBoundsAssumption == MaxTargets \in Nat /\ MaxGen \in Nat

NoGen == 0
Slots == 0 .. MaxGen
Kinds == {"read", "write"}

Targets == [Convs -> Statuses \cup {Absent}]
Sets == [gen : Slots, reads : Targets, writes : Targets]

NoTargets == [c \in Convs |-> Absent]
Listed(targets) == {c \in Convs : targets[c] # Absent}
Counted(targets) == Cardinality(Listed(targets)) <= MaxTargets

\* isSubset: every write target is a read target with the same status.
IsSubset(subset, superset) ==
  \A c \in Listed(subset) : superset[c] = subset[c]

NewSet(g) == [gen |-> g, reads |-> NoTargets, writes |-> NoTargets]
NoSet == NewSet(NoGen)

\* validateBinding: workspace, identity digest and generation all follow from
\* the login that drew the generation.
Matches(set, g) == set.gen = g

\* The set an operation for profile g starts from; a stored set bound to
\* another generation refuses the operation instead.
Base(set, g) == IF set = NoSet THEN NewSet(g) ELSE set
RefusedNever(set, g) == FALSE   \* Bug: the binding is not validated.
Refused(set, g) == set # NoSet /\ ~Matches(set, g)

\* Replace: one kind is replaced; the writes must stay within the reads.
WithKind(set, kind, targets) ==
  IF kind = "read" THEN [set EXCEPT !.reads = targets]
                   ELSE [set EXCEPT !.writes = targets]
ReplaceOKForWrites(set, kind, targets) ==   \* Bug: shrinking the reads is not checked.
  kind = "write" => IsSubset(targets, set.reads)
ReplaceOK(set, kind, targets) ==
  LET edited == WithKind(set, kind, targets)
  IN IsSubset(edited.writes, edited.reads)

\* Add: a recorded status that differs refuses the target; a list at its
\* bound refuses a new one; a write target is made a read target as well.
StatusAgrees(targets, c, status) == targets[c] \in {Absent, status}
RoomForOneMore(targets, c) ==               \* Bug: off by one.
  targets[c] # Absent \/ Cardinality(Listed(targets)) <= MaxTargets
Room(targets, c) ==
  targets[c] # Absent \/ Cardinality(Listed(targets)) < MaxTargets
AddOK(set, kind, c, status) ==
  /\ StatusAgrees(set.reads, c, status) /\ StatusAgrees(set.writes, c, status)
  /\ Room(set.reads, c)
  /\ kind = "write" => Room(set.writes, c)
WithTarget(set, kind, c, status) ==
  IF kind = "read" THEN [set EXCEPT !.reads[c] = status]
                   ELSE [set EXCEPT !.reads[c] = status, !.writes[c] = status]

\* RebindRead: a fresh set with the reads given and no writes.
Rebound(g, targets) == [NewSet(g) EXCEPT !.reads = targets]
=============================================================================
