---------------------------- MODULE CommandsProofs ----------------------------
(***************************************************************************)
(* Proofs about the components that Commands brings together, for every    *)
(* bound of the models: the sharing of a conversation (TargetSharing), the *)
(* profile for a workflow (WorkflowResolve), the exact read behind an      *)
(* attachment (AttachmentProof) and one call of the client (SlackCall).    *)
(* The theorems about the download are those of FileDownloadProofs.        *)
(***************************************************************************)
EXTENDS Commands, FiniteSetTheorems, TLAPS

\* Each component takes a step of its own or stands still.
LEMMA Components ==
  ASSUME [AllNext]_all
  PROVE  /\ Sharing!Next \/ UNCHANGED sharingVars
         /\ Resolve!Next \/ UNCHANGED resolveVars
         /\ Attachment!Next \/ UNCHANGED proofVars
         /\ Call!Next \/ UNCHANGED callVars
BY DEF AllNext, Runs, all

-----------------------------------------------------------------------------
(* The sharing of a conversation *)

\* What was seen of the conversation was true when it was seen: a "no" of a
\* flag, a participant who is no stranger and an identity without enterprise
\* each stand for a moment without that kind of sharing.
Seen ==
  /\ ~ext => inside
  /\ ~org => apart
  /\ org => grid
  /\ flags.ext = "no" => inside
  /\ flags.org = "no" => apart
  /\ flags.shared = "no" => inside /\ apart

Judged ==
  /\ sharingPc = "identity" => ~foreign /\ inside
  /\ sharingPc \in {"require", "accepted"} =>
       /\ ~sharingResult.ext => inside
       /\ ~sharingResult.shared => inside /\ apart
  /\ sharingPc = "accepted" => stored = sharingResult

SharingTyped == flags \in [shared : Sharing!Flags, ext : Sharing!Flags, org : Sharing!Flags]

SharingInv == SharingTyped /\ Seen /\ Judged

\* Before the first read nothing was seen but the conversation as it is.
LEMMA SharingInit == ASSUME AllInit PROVE SharingInv
<1>1. Sharing!Init
  BY DEF AllInit
<1>2. /\ (org => grid) /\ inside = ~ext /\ apart = ~org /\ sharingPc = "info"
      /\ flags = [shared |-> "missing", ext |-> "missing", org |-> "missing"]
  BY <1>1 DEF Sharing!Init
<1>. QED
  BY <1>2 DEF SharingInv, SharingTyped, Seen, Judged, Sharing!Flags

\* Neither a read, nor a change of the sharing between two reads, contradicts what
\* was seen.
LEMMA SharingStep ==
  ASSUME SharingInv, Sharing!Next
  PROVE  SharingInv'
<1>1. CASE Sharing!Change
  <2>1. /\ org' => grid'
        /\ inside' = (inside \/ ~ext') /\ apart' = (apart \/ ~org')
        /\ UNCHANGED <<sharingPc, flags, foreign, sharingResult, stored>>
    BY <1>1 DEF Sharing!Change, Sharing!command
  <2>. QED
    BY <2>1 DEF SharingInv, SharingTyped, Seen, Judged
<1>2. CASE Sharing!Fail
  <2>1. /\ sharingPc' = "refused"
        /\ UNCHANGED <<shape, ext, org, grid, shifts, inside, apart>>
        /\ UNCHANGED <<flags, foreign, sharingResult, stored>>
    BY <1>2 DEF Sharing!Fail, Sharing!Refuse, Sharing!slack
  <2>. QED
    BY <2>1 DEF SharingInv, SharingTyped, Seen, Judged
<1>3. CASE Sharing!ReadConversation
  <2>1. /\ flags' \in [shared : Sharing!Answer(ext \/ org), ext : Sharing!Answer(ext),
                       org : Sharing!Answer(org)]
        /\ UNCHANGED <<shape, ext, org, grid, shifts, inside, apart>>
        /\ UNCHANGED <<foreign, stored>>
    BY <1>3 DEF Sharing!ReadConversation, Sharing!Classified, Sharing!slack
  <2>2. /\ flags' \in [shared : Sharing!Flags, ext : Sharing!Flags, org : Sharing!Flags]
        /\ flags'.ext = "no" => ~ext
        /\ flags'.org = "no" => ~org
        /\ flags'.shared = "no" => ~ext /\ ~org
    BY <2>1 DEF Sharing!Answer, Sharing!Flags
  <2>3. SharingTyped' /\ Seen'
    BY <2>1, <2>2 DEF SharingInv, SharingTyped, Seen
  <2>4. CASE sharingPc' \in {"refused", "participant"}
    BY <2>3, <2>4 DEF SharingInv, Judged
  <2>5. CASE sharingPc' \notin {"refused", "participant"}
    <3>1. /\ Sharing!Complete(flags') /\ sharingPc' = "require"
          /\ sharingResult' = [shared |-> Sharing!Yes(flags'.shared),
                               ext |-> Sharing!Yes(flags'.ext), org |-> Sharing!Yes(flags'.org)]
      BY <1>3, <2>5 DEF Sharing!ReadConversation, Sharing!Classified
    <3>2. flags'.shared # "missing" /\ flags'.ext # "missing" /\ flags'.org # "missing"
      BY <2>2, <3>1 DEF Sharing!Complete
    <3>3. /\ ~sharingResult'.ext => flags'.ext = "no"
          /\ ~sharingResult'.shared => flags'.shared = "no"
      BY <2>2, <3>1, <3>2 DEF Sharing!Yes, Sharing!Flags
    <3>. QED
      BY <2>3, <3>1, <3>3 DEF SharingInv, Seen, Judged
  <2>. QED
    BY <2>4, <2>5
<1>4. CASE Sharing!ReadParticipant
  <2>1. /\ ext => foreign'
        /\ UNCHANGED <<shape, ext, org, grid, shifts, inside, apart, flags, stored>>
    BY <1>4 DEF Sharing!ReadParticipant, Sharing!Classified, Sharing!slack
  <2>2. SharingTyped' /\ Seen'
    BY <2>1 DEF SharingInv, SharingTyped, Seen
  <2>3. CASE Sharing!Settled(foreign')
    <3>1. sharingPc' = "require" /\ sharingResult' = Sharing!Direct(foreign')
      BY <1>4, <2>3 DEF Sharing!ReadParticipant, Sharing!Classified
    <3>2. /\ ~sharingResult'.ext => ~foreign'
          /\ ~sharingResult'.shared => ~foreign' /\ ~Sharing!Yes(flags.shared)
                                       /\ ~Sharing!Yes(flags.ext) /\ ~Sharing!Yes(flags.org)
      BY <3>1 DEF Sharing!Direct
    <3>3. ~sharingResult'.shared => flags.org = "no"
      BY <2>3, <3>2 DEF Sharing!Settled, Sharing!Yes, SharingInv, SharingTyped, Sharing!Flags
    <3>. QED
      BY <2>1, <2>2, <3>1, <3>2, <3>3 DEF SharingInv, Seen, Judged
  <2>4. CASE ~Sharing!Settled(foreign')
    <3>1. sharingPc' \in {"refused", "identity"}
      BY <1>4, <2>4 DEF Sharing!ReadParticipant
    <3>2. ~foreign'
      BY <2>4 DEF Sharing!Settled
    <3>. QED
      BY <2>1, <2>2, <3>1, <3>2 DEF SharingInv, Seen, Judged
  <2>. QED
    BY <2>3, <2>4
<1>5. CASE Sharing!ReadIdentity
  <2>1. /\ sharingPc = "identity"
        /\ UNCHANGED <<shape, ext, org, grid, shifts, inside, apart, flags, foreign, stored>>
    BY <1>5 DEF Sharing!ReadIdentity, Sharing!Classified, Sharing!Refuse, Sharing!slack
  <2>2. SharingTyped' /\ Seen'
    BY <2>1 DEF SharingInv, SharingTyped, Seen
  <2>3. CASE grid
    <3>1. sharingPc' = "refused"
      BY <1>5, <2>3 DEF Sharing!ReadIdentity, Sharing!Refuse
    <3>. QED
      BY <2>2, <3>1 DEF SharingInv, Judged
  <2>4. CASE ~grid
    <3>1. sharingPc' = "require" /\ inside' /\ apart'
      BY <1>5, <2>1, <2>4 DEF Sharing!ReadIdentity, Sharing!Classified, SharingInv, Seen, Judged
    <3>. QED
      BY <2>2, <3>1 DEF SharingInv, Judged
  <2>. QED
    BY <2>3, <2>4
<1>6. CASE Sharing!Require
  <2>1. /\ sharingPc = "require"
        /\ sharingPc' = IF stored = sharingResult THEN "accepted" ELSE "refused"
        /\ UNCHANGED <<shape, ext, org, grid, shifts, inside, apart>>
        /\ UNCHANGED <<flags, foreign, sharingResult, stored>>
    BY <1>6 DEF Sharing!Require, Sharing!slack
  <2>. QED
    BY <2>1 DEF SharingInv, SharingTyped, Seen, Judged
<1>. QED
  BY <1>1, <1>2, <1>3, <1>4, <1>5, <1>6 DEF Sharing!Next

\* No conversation is taken for quieter than it was at any moment of the
\* command: what Slack leaves out of three separate reads is never taken for a
\* "no", however the sharing changes between them (cli/session.go:44-127,
\* slack/models.go).
THEOREM NothingQuieter == AllSpec => []NeverQuieter
<1>1. AllInit => SharingInv
  BY SharingInit
<1>2. SharingInv /\ [AllNext]_all => SharingInv'
  <2>1. ASSUME SharingInv, UNCHANGED sharingVars PROVE SharingInv'
    BY <2>1 DEF sharingVars, SharingInv, SharingTyped, Seen, Judged
  <2>. QED
    BY <2>1, Components, SharingStep
<1>3. SharingInv => NeverQuieter
  BY DEF SharingInv, Judged, NeverQuieter, Sharing!NeverQuieter
<1>. QED
  BY <1>1, <1>2, <1>3, PTL DEF AllSpec

-----------------------------------------------------------------------------
(* The profile for a workflow *)

\* A set of numbers that is not empty has a least member.
LEMMA LeastMember ==
  ASSUME NEW S \in SUBSET Nat, S # {}
  PROVE  \E x \in S : \A y \in S : x <= y
<1>. DEFINE upTo(x) == 0 .. x
            R == StrictSubsetOrdering(Nat)
            T == {upTo(x) : x \in S}
<1>1. \A x \in S : upTo(x) \in FiniteSubsetsOf(Nat)
  <2>. SUFFICES ASSUME NEW x \in S PROVE upTo(x) \in FiniteSubsetsOf(Nat)
    OBVIOUS
  <2>1. IsFiniteSet(0 .. x)
    BY FS_Interval
  <2>. QED
    BY <2>1 DEF FiniteSubsetsOf
<1>2. IsWellFoundedOn(R, FiniteSubsetsOf(Nat))
  BY FS_StrictSubsetOrderingWellFounded
<1>3. T \subseteq FiniteSubsetsOf(Nat) /\ T # {}
  BY <1>1
<1>4. \E A \in T : \A B \in T : ~(<<B, A>> \in R)
  <2>. HIDE DEF T, R
  <2>. QED
    BY <1>2, <1>3, WFMin
<1>5. PICK x \in S : \A B \in T : ~(<<B, upTo(x)>> \in R)
  BY <1>4
<1>6. ASSUME NEW y \in S, y < x PROVE FALSE
  <2>1. upTo(y) \subseteq upTo(x) /\ x \in upTo(x) /\ x \notin upTo(y)
    BY <1>6
  <2>2. <<upTo(y), upTo(x)>> \in R
    BY <2>1 DEF StrictSubsetOrdering
  <2>. QED
    BY <1>5, <2>2
<1>. QED
  BY <1>6

\* The least of the candidates that are left
Least(n) == n \in todo /\ \A m \in todo : n <= m

\* One of the candidates that are left is the first.
LEMMA FirstIsLeast ==
  ASSUME todo \in SUBSET Resolve!Names, todo # {}
  PROVE  Least(Resolve!First) /\ \A n : Least(n) => n = Resolve!First
<1>1. todo \in SUBSET Nat
  BY InstancesAssumption DEF Resolve!Names, Resolve!BoundsAssumption
<1>2. \E n \in todo : \A m \in todo : n <= m
  BY <1>1, LeastMember
<1>3. Least(Resolve!First)
  BY <1>2 DEF Resolve!First, Least
<1>4. ASSUME NEW n, Least(n) PROVE n = Resolve!First
  BY <1>1, <1>3, <1>4 DEF Least
<1>. QED
  BY <1>3, <1>4

ResolveTyped ==
  /\ issued \in Resolve!Slots
  /\ drawn \in [Resolve!Names -> SUBSET Resolve!Slots]
  /\ profiles \in [Resolve!Names -> [gen : Resolve!Slots, fits : BOOLEAN]]
  /\ policies \in [Resolve!Names -> [gen : Resolve!Slots, lists : BOOLEAN]]
  /\ listed \in [Resolve!Names -> [gen : Resolve!Slots, fits : BOOLEAN]]
  /\ explicit \in Resolve!Names \cup {Resolve!Unnamed}
  /\ todo \in SUBSET Resolve!Names
  /\ eligible \in SUBSET Resolve!Names /\ allowed \in SUBSET Resolve!Names
  /\ steady \in SUBSET Resolve!Names

\* The candidate looked at is the only one left that is already eligible.
InTurn ==
  /\ resolvePc \in {"start", "get", "bind", "target", "done"}
  /\ resolvePc \in {"start", "get"} => todo = {} /\ eligible = {} /\ allowed = {}
  /\ resolvePc = "get" => explicit # Resolve!Unnamed
  /\ resolvePc = "target" => todo # {} /\ Resolve!First \in eligible
  /\ \A n \in todo : /\ n \notin allowed
                     /\ n \in eligible /\ resolvePc # "done" =>
                          resolvePc = "target" /\ n = Resolve!First
  /\ explicit # Resolve!Unnamed =>
       todo \subseteq {explicit} /\ eligible \subseteq {explicit} /\ allowed \subseteq {explicit}

\* The reads are going on, or all are done.
Reading == resolvePc \in {"bind", "target"} \/ verdict \in {"selected", "nobody", "ambiguous"}

\* A steady name is judged as one look would judge it.
AsOneLook ==
  explicit = Resolve!Unnamed /\ Reading =>
    /\ todo \subseteq Resolve!Candidates(listed)
    /\ \A n \in steady : listed[n] = profiles[n]
    /\ \A n \in steady \ todo : /\ n \in eligible <=> n \in Resolve!Eligible
                                /\ n \in allowed <=> n \in Resolve!Allowed
    /\ \A n \in steady \cap todo : n \in eligible => n \in Resolve!Eligible

Found == IF allowed # {} THEN allowed ELSE eligible

\* The verdict follows from what was found.
Concluded ==
  /\ resolvePc # "done" => verdict = "none"
  /\ verdict \in {"selected", "nobody", "ambiguous"} => todo = {}
  /\ verdict = "selected" => Found = {outcome}
  /\ verdict = "nobody" => Found = {}
  /\ verdict = "ambiguous" => Resolve!Cardinality(Found) > 1

ResolveInv == ResolveTyped /\ InTurn /\ AsOneLook /\ Concluded

\* At first nothing is listed, found or allowed.
LEMMA ResolveInit == ASSUME AllInit PROVE ResolveInv
<1>1. Resolve!Init
  BY DEF AllInit
<1>2. /\ profiles = [n \in Resolve!Names |-> Resolve!Absent] /\ issued = 0
      /\ drawn = [n \in Resolve!Names |-> {}]
      /\ policies = [n \in Resolve!Names |-> Resolve!NoPolicy]
      /\ listed = profiles
      /\ resolvePc = "start" /\ explicit \in Resolve!Names \cup {Resolve!Unnamed}
      /\ todo = {} /\ eligible = {} /\ allowed = {} /\ verdict = "none"
      /\ steady = Resolve!Names
  BY <1>1 DEF Resolve!Init
<1>3. 0 \in Resolve!Slots
  BY InstancesAssumption DEF Resolve!BoundsAssumption, Resolve!Slots
<1>4. ResolveTyped
  BY <1>2, <1>3 DEF ResolveTyped, Resolve!Absent, Resolve!NoPolicy
<1>. QED
  BY <1>2, <1>4 DEF ResolveInv, InTurn, AsOneLook, Concluded, Reading

\* One look judges a name by its own entries only.
LEMMA OwnEntries ==
  ASSUME NEW n \in Resolve!Names, profiles'[n] = profiles[n], policies'[n] = policies[n]
  PROVE  /\ n \in Resolve!Eligible' <=> n \in Resolve!Eligible
         /\ n \in Resolve!Allowed' <=> n \in Resolve!Allowed
<1>1. n \in Resolve!Eligible' <=> n \in Resolve!Eligible
  BY DEF Resolve!Eligible, Resolve!Candidates, Resolve!Bound
<1>. QED
  BY <1>1 DEF Resolve!Allowed

\* What another command changes is no longer steady.
LEMMA OthersStep ==
  ASSUME ResolveInv, NEW n \in Resolve!Names, issued' \in Resolve!Slots,
         drawn' \in [Resolve!Names -> SUBSET Resolve!Slots],
         profiles' \in [Resolve!Names -> [gen : Resolve!Slots, fits : BOOLEAN]],
         policies' \in [Resolve!Names -> [gen : Resolve!Slots, lists : BOOLEAN]],
         \A m \in Resolve!Names \ {n} : profiles'[m] = profiles[m] /\ policies'[m] = policies[m],
         Resolve!Touch(n)
  PROVE  ResolveInv'
<1>1. /\ steady' = steady \ {n}
      /\ UNCHANGED <<resolvePc, explicit, listed, todo, eligible, allowed, outcome, verdict>>
  BY DEF Resolve!Touch
<1>2. ResolveTyped'
  BY <1>1 DEF ResolveInv, ResolveTyped
<1>3. InTurn' /\ Concluded'
  BY <1>1 DEF ResolveInv, InTurn, Concluded, Found, Resolve!First
<1>4. \A m \in steady' : /\ m \in steady /\ profiles'[m] = profiles[m]
                         /\ m \in Resolve!Eligible' <=> m \in Resolve!Eligible
                         /\ m \in Resolve!Allowed' <=> m \in Resolve!Allowed
  <2>1. \A m \in steady' : m \in Resolve!Names /\ m # n /\ m \in steady
    BY <1>1 DEF ResolveInv, ResolveTyped
  <2>. QED
    BY <2>1, OwnEntries
<1>5. Resolve!Candidates(listed)' = Resolve!Candidates(listed)
  BY <1>1 DEF Resolve!Candidates
<1>6. AsOneLook'
  BY <1>1, <1>4, <1>5 DEF ResolveInv, AsOneLook, Reading
<1>. QED
  BY <1>2, <1>3, <1>6 DEF ResolveInv

\* The resolver ends without naming a profile.
LEMMA FinishStep ==
  ASSUME ResolveInv, resolvePc # "done", NEW how, NEW n,
         Resolve!Finish(how, n),
         \/ how \notin {"selected", "nobody", "ambiguous"}
         \/ /\ resolvePc = "bind" /\ todo = {}
            /\ how = "selected" => Found = {n}
            /\ how = "nobody" => Found = {}
            /\ how = "ambiguous" => Resolve!Cardinality(Found) > 1
  PROVE  ResolveInv'
<1>1. /\ verdict' = how /\ outcome' = n /\ resolvePc' = "done"
      /\ UNCHANGED <<issued, drawn, profiles, policies>>
      /\ UNCHANGED <<explicit, listed, todo, eligible, allowed, steady>>
  BY DEF Resolve!Finish, Resolve!world
<1>2. ResolveTyped' /\ InTurn'
  BY <1>1 DEF ResolveInv, ResolveTyped, InTurn
<1>3. Concluded'
  BY <1>1 DEF Concluded, Found
<1>4. AsOneLook'
  <2>1. SUFFICES ASSUME explicit' = Resolve!Unnamed, Reading' PROVE AsOneLook'
    BY DEF AsOneLook
  <2>2. Reading
    BY <1>1, <2>1 DEF Reading
  <2>. QED
    BY <1>1, <2>1, <2>2
    DEF ResolveInv, AsOneLook, Resolve!Candidates, Resolve!Eligible, Resolve!Allowed, Resolve!Bound
<1>. QED
  BY <1>2, <1>3, <1>4 DEF ResolveInv

\* The list is read at once, and every name is steady from then on.
LEMMA ListStep ==
  ASSUME ResolveInv, Resolve!List
  PROVE  ResolveInv'
<1>1. /\ resolvePc = "start" /\ steady' = Resolve!Names /\ listed' = profiles
      /\ IF explicit # Resolve!Unnamed THEN resolvePc' = "get" /\ UNCHANGED todo
         ELSE resolvePc' = "bind" /\ todo' = Resolve!Candidates(profiles)
      /\ UNCHANGED <<issued, drawn, profiles, policies>>
      /\ UNCHANGED <<explicit, eligible, allowed, outcome, verdict>>
  BY DEF Resolve!List, Resolve!world
<1>2. /\ eligible = {} /\ allowed = {} /\ todo = {} /\ verdict = "none"
      /\ Resolve!Candidates(profiles) \in SUBSET Resolve!Names
  BY <1>1 DEF ResolveInv, InTurn, Concluded, Resolve!Candidates
<1>3. ResolveTyped'
  BY <1>1, <1>2 DEF ResolveInv, ResolveTyped
<1>4. InTurn' /\ Concluded'
  BY <1>1, <1>2 DEF InTurn, Concluded
<1>5. AsOneLook'
  <2>1. SUFFICES ASSUME explicit = Resolve!Unnamed PROVE AsOneLook'
    BY <1>1 DEF AsOneLook
  <2>2. todo' = Resolve!Candidates(profiles) /\ profiles' = profiles /\ policies' = policies
    BY <1>1, <2>1
  <2>3. Resolve!Candidates(listed)' = Resolve!Candidates(profiles)
    BY <1>1 DEF Resolve!Candidates
  <2>4. \A n \in Resolve!Eligible' \cup Resolve!Allowed' : n \in Resolve!Candidates(profiles)
    BY <2>2 DEF Resolve!Allowed, Resolve!Eligible, Resolve!Candidates
  <2>. QED
    BY <1>1, <1>2, <2>2, <2>3, <2>4 DEF AsOneLook
<1>. QED
  BY <1>3, <1>4, <1>5 DEF ResolveInv

\* An explicit name is read again: it is the listed one, or the command ends.
LEMMA GetStep ==
  ASSUME ResolveInv, Resolve!Get
  PROVE  ResolveInv'
<1>1. resolvePc = "get" /\ explicit \in Resolve!Names
  BY DEF Resolve!Get, ResolveInv, InTurn, ResolveTyped
<1>2. CASE Resolve!Finish("refused", Resolve!Unnamed)
  BY <1>1, <1>2, FinishStep
<1>3. CASE ~Resolve!Finish("refused", Resolve!Unnamed)
  <2>1. /\ listed' = [listed EXCEPT ![explicit] = profiles[explicit]]
        /\ todo' = {explicit} /\ resolvePc' = "bind"
        /\ UNCHANGED <<issued, drawn, profiles, policies>>
        /\ UNCHANGED <<explicit, eligible, allowed, outcome, verdict, steady>>
    BY <1>3 DEF Resolve!Get, Resolve!world
  <2>2. eligible = {} /\ allowed = {} /\ explicit # Resolve!Unnamed /\ verdict = "none"
    BY <1>1 DEF ResolveInv, InTurn, Concluded
  <2>3. ResolveTyped'
    BY <1>1, <2>1 DEF ResolveInv, ResolveTyped
  <2>. QED
    BY <2>1, <2>2, <2>3 DEF ResolveInv, InTurn, Concluded, AsOneLook
<1>. QED
  BY <1>2, <1>3

\* A candidate whose policy is unset or of its own generation is eligible.
LEMMA BindStep ==
  ASSUME ResolveInv, Resolve!Bind
  PROVE  ResolveInv'
<1>. DEFINE n == Resolve!First
            bound == policies[n] = Resolve!NoPolicy \/ Resolve!Bound(policies[n], listed[n])
<1>1. /\ resolvePc = "bind" /\ todo # {} /\ verdict = "none"
      /\ n \in todo /\ n \in Resolve!Names
  <2>1. resolvePc = "bind" /\ todo # {}
    BY DEF Resolve!Bind
  <2>. QED
    BY <2>1, FirstIsLeast DEF ResolveInv, ResolveTyped, Concluded, Least
<1>2. n \notin eligible /\ n \notin allowed
  BY <1>1 DEF ResolveInv, InTurn
<1>3. explicit = Resolve!Unnamed /\ n \in steady => (bound <=> n \in Resolve!Eligible)
  BY <1>1 DEF ResolveInv, AsOneLook, Reading, Resolve!Eligible, Resolve!Candidates
<1>4. CASE bound
  <2>1. /\ eligible' = eligible \cup {n} /\ resolvePc' = "target"
        /\ UNCHANGED <<issued, drawn, profiles, policies>>
        /\ UNCHANGED <<explicit, listed, todo, allowed, outcome, verdict, steady>>
    BY <1>4 DEF Resolve!Bind, Resolve!world
  <2>2. Resolve!First' = n
    BY <2>1 DEF Resolve!First
  <2>. HIDE DEF n
  <2>3. ResolveTyped'
    BY <1>1, <2>1 DEF ResolveInv, ResolveTyped
  <2>4. InTurn' /\ Concluded'
    BY <1>1, <1>2, <2>1, <2>2 DEF ResolveInv, InTurn, Concluded, Found, n
  <2>5. AsOneLook'
    BY <1>1, <1>3, <1>4, <2>1
    DEF ResolveInv, AsOneLook, Reading, Resolve!Candidates, Resolve!Eligible, Resolve!Allowed,
        Resolve!Bound
  <2>. QED
    BY <2>3, <2>4, <2>5 DEF ResolveInv
<1>5. CASE ~bound /\ explicit # Resolve!Unnamed
  <2>1. Resolve!Finish("failed", Resolve!Unnamed)
    BY <1>5 DEF Resolve!Bind
  <2>. QED
    BY <1>1, <2>1, FinishStep
<1>6. CASE ~bound /\ explicit = Resolve!Unnamed
  <2>1. /\ todo' = todo \ {n}
        /\ UNCHANGED <<issued, drawn, profiles, policies>>
        /\ UNCHANGED <<resolvePc, explicit, listed, eligible, allowed, outcome, verdict, steady>>
    BY <1>6 DEF Resolve!Bind, Resolve!world
  <2>2. ResolveTyped'
    BY <2>1 DEF ResolveInv, ResolveTyped
  <2>3. InTurn' /\ Concluded'
    BY <1>1, <1>6, <2>1 DEF ResolveInv, InTurn, Concluded, Found
  <2>4. /\ Resolve!Candidates(listed)' = Resolve!Candidates(listed)
        /\ Resolve!Eligible' = Resolve!Eligible /\ Resolve!Allowed' = Resolve!Allowed
    BY <2>1 DEF Resolve!Candidates, Resolve!Eligible, Resolve!Allowed, Resolve!Bound
  <2>5. n \in steady => n \notin Resolve!Eligible /\ n \notin Resolve!Allowed
    BY <1>3, <1>6 DEF Resolve!Allowed
  <2>. HIDE DEF n, bound
  <2>6. AsOneLook'
    BY <1>1, <1>2, <2>1, <2>4, <2>5 DEF ResolveInv, AsOneLook, Reading
  <2>. QED
    BY <2>2, <2>3, <2>6 DEF ResolveInv
<1>. QED
  BY <1>4, <1>5, <1>6

\* The policy of the first candidate lists the target, or the candidate is done.
LEMMA TargetStep ==
  ASSUME ResolveInv, Resolve!Target
  PROVE  ResolveInv'
<1>. DEFINE n == Resolve!First
<1>1. /\ resolvePc = "target" /\ todo # {} /\ verdict = "none"
      /\ n \in todo /\ n \in Resolve!Names /\ n \in eligible /\ n \notin allowed
  <2>1. resolvePc = "target" /\ todo # {} /\ n \in eligible
    BY DEF Resolve!Target, ResolveInv, InTurn
  <2>2. n \in todo
    BY <2>1, FirstIsLeast DEF ResolveInv, ResolveTyped, Least
  <2>. QED
    BY <2>1, <2>2 DEF ResolveInv, ResolveTyped, Concluded, InTurn
<1>2. CASE policies[n] # Resolve!NoPolicy /\ ~Resolve!Bound(policies[n], listed[n])
  <2>1. Resolve!Finish("failed", Resolve!Unnamed)
    BY <1>2 DEF Resolve!Target
  <2>. QED
    BY <1>1, <2>1, FinishStep
<1>3. CASE ~(policies[n] # Resolve!NoPolicy /\ ~Resolve!Bound(policies[n], listed[n]))
  <2>1. /\ allowed' = IF policies[n].lists THEN allowed \cup {n} ELSE allowed
        /\ todo' = todo \ {n} /\ resolvePc' = "bind"
        /\ UNCHANGED <<issued, drawn, profiles, policies>>
        /\ UNCHANGED <<explicit, listed, eligible, outcome, verdict, steady>>
    BY <1>3 DEF Resolve!Target, Resolve!world
  <2>2. explicit = Resolve!Unnamed /\ n \in steady => n \in Resolve!Eligible
    BY <1>1 DEF ResolveInv, AsOneLook, Reading
  <2>3. explicit = Resolve!Unnamed /\ n \in steady =>
          (n \in allowed' <=> n \in Resolve!Allowed)
    BY <1>1, <2>1, <2>2 DEF Resolve!Allowed
  <2>4. \A m \in todo' : m \notin eligible
    BY <1>1, <2>1 DEF ResolveInv, InTurn
  <2>5. /\ Resolve!Candidates(listed)' = Resolve!Candidates(listed)
        /\ Resolve!Eligible' = Resolve!Eligible /\ Resolve!Allowed' = Resolve!Allowed
    BY <2>1 DEF Resolve!Candidates, Resolve!Eligible, Resolve!Allowed, Resolve!Bound
  <2>. HIDE DEF n
  <2>6. \A m : m # n => (m \in allowed' <=> m \in allowed)
    BY <2>1
  <2>7. ResolveTyped'
    BY <1>1, <2>1 DEF ResolveInv, ResolveTyped
  <2>8. InTurn' /\ Concluded'
    BY <1>1, <2>1, <2>4, <2>6 DEF ResolveInv, InTurn, Concluded
  <2>9. AsOneLook'
    BY <1>1, <2>1, <2>2, <2>3, <2>4, <2>5, <2>6 DEF ResolveInv, AsOneLook, Reading
  <2>. QED
    BY <2>7, <2>8, <2>9 DEF ResolveInv
<1>. QED
  BY <1>2, <1>3

\* The verdict follows from what was found.
LEMMA SelectStep ==
  ASSUME ResolveInv, Resolve!Select
  PROVE  ResolveInv'
<1>1. /\ resolvePc = "bind" /\ todo = {}
      /\ IF Found = {} THEN Resolve!Finish("nobody", Resolve!Unnamed)
         ELSE IF Resolve!Cardinality(Found) > 1 THEN Resolve!Finish("ambiguous", Resolve!Unnamed)
         ELSE \E n \in Found : Resolve!Finish("selected", n)
  BY DEF Resolve!Select, Found
<1>2. CASE Found = {}
  BY <1>1, <1>2, FinishStep
<1>3. CASE Found # {} /\ Resolve!Cardinality(Found) > 1
  BY <1>1, <1>3, FinishStep
<1>4. CASE Found # {} /\ ~(Resolve!Cardinality(Found) > 1)
  <2>1. PICK n \in Found : Resolve!Finish("selected", n)
    BY <1>1, <1>4
  <2>2. IsFiniteSet(Resolve!Names)
    BY InstancesAssumption, FS_Interval DEF Resolve!Names, Resolve!BoundsAssumption
  <2>3. Found \in SUBSET Resolve!Names
    BY DEF Found, ResolveInv, ResolveTyped
  <2>4. IsFiniteSet(Found) /\ Cardinality(Found) \in Nat
    BY <2>2, <2>3, FS_Subset, FS_CardinalityType
  <2>5. Cardinality(Found) # 0
    BY <1>4, <2>4, FS_EmptySet
  <2>6. Resolve!Cardinality(Found) = Cardinality(Found)
    BY DEF Cardinality, Resolve!Cardinality
  <2>7. Cardinality(Found) = 1
    BY <1>4, <2>4, <2>5, <2>6
  <2>8. Found = {n}
    BY <2>4, <2>7, FS_Singleton
  <2>. QED
    BY <1>1, <2>1, <2>8, FinishStep
<1>. QED
  BY <1>2, <1>3, <1>4

\* A login, a logout or an edit makes its name unsteady, and no other.
LEMMA WorldStep ==
  ASSUME ResolveInv, NEW n \in Resolve!Names,
         Resolve!Login(n) \/ Resolve!Logout(n) \/ Resolve!EditPolicy(n)
  PROVE  ResolveInv'
<1>1. /\ profiles \in [Resolve!Names -> [gen : Resolve!Slots, fits : BOOLEAN]]
      /\ issued \in Resolve!Slots
      /\ drawn \in [Resolve!Names -> SUBSET Resolve!Slots]
      /\ policies \in [Resolve!Names -> [gen : Resolve!Slots, lists : BOOLEAN]]
  BY DEF ResolveInv, ResolveTyped
<1>2. \/ \E profile : profiles' = [profiles EXCEPT ![n] = profile] /\ policies' = policies
      \/ \E policy : policies' = [policies EXCEPT ![n] = policy] /\ profiles' = profiles
  BY DEF Resolve!Login, Resolve!Logout, Resolve!EditPolicy
<1>3. /\ profiles' \in [Resolve!Names -> [gen : Resolve!Slots, fits : BOOLEAN]]
      /\ issued' \in Resolve!Slots
      /\ drawn' \in [Resolve!Names -> SUBSET Resolve!Slots]
  <2>1. CASE Resolve!Login(n)
    <3>1. /\ issued < MaxGen /\ issued' = issued + 1
          /\ drawn' = [drawn EXCEPT ![n] = @ \cup {issued'}]
          /\ \E fits \in BOOLEAN :
               profiles' = [profiles EXCEPT ![n] = [gen |-> issued', fits |-> fits]]
      BY <2>1 DEF Resolve!Login
    <3>2. issued' \in Resolve!Slots
      BY <1>1, <3>1, InstancesAssumption DEF Resolve!Slots, Resolve!BoundsAssumption
    <3>. QED
      BY <1>1, <3>1, <3>2
  <2>2. CASE Resolve!Logout(n)
    <3>1. Resolve!Absent \in [gen : Resolve!Slots, fits : BOOLEAN]
      BY InstancesAssumption DEF Resolve!Absent, Resolve!Slots, Resolve!BoundsAssumption
    <3>. QED
      BY <1>1, <2>2, <3>1 DEF Resolve!Logout
  <2>3. CASE Resolve!EditPolicy(n)
    BY <1>1, <2>3 DEF Resolve!EditPolicy
  <2>. QED
    BY <2>1, <2>2, <2>3
<1>4. policies' \in [Resolve!Names -> [gen : Resolve!Slots, lists : BOOLEAN]]
  BY <1>1 DEF Resolve!Login, Resolve!Logout, Resolve!EditPolicy
<1>5. \A m \in Resolve!Names \ {n} : profiles'[m] = profiles[m] /\ policies'[m] = policies[m]
  BY <1>1, <1>2
<1>6. Resolve!Touch(n)
  BY DEF Resolve!Login, Resolve!Logout, Resolve!EditPolicy
<1>. QED
  BY <1>3, <1>4, <1>5, <1>6, OthersStep

\* Every step of the resolver, and of the world around it, keeps the invariant.
LEMMA ResolveStep ==
  ASSUME ResolveInv, Resolve!Next
  PROVE  ResolveInv'
<1>1. CASE Resolve!Fail
  BY <1>1, FinishStep DEF Resolve!Fail
<1>. QED
  BY <1>1, WorldStep, ListStep, GetStep, BindStep, TargetStep, SelectStep DEF Resolve!Next

\* The resolver, whose reads no lock ties together, neither guesses nor refuses
\* what one look would grant: of the names that nobody touched meanwhile, none
\* but the selected one was allowed, and if nothing was touched the verdict is
\* that of one look (cli/workflow.go:52-112).
THEOREM RightVerdict == AllSpec => []VerdictIsRight
<1>1. AllInit => ResolveInv
  BY ResolveInit
<1>2. ResolveInv /\ [AllNext]_all => ResolveInv'
  <2>1. ASSUME ResolveInv, UNCHANGED resolveVars PROVE ResolveInv'
    BY <2>1
    DEF resolveVars, ResolveInv, ResolveTyped, InTurn, AsOneLook, Concluded, Reading, Found,
        Resolve!First, Resolve!Candidates, Resolve!Eligible, Resolve!Allowed, Resolve!Bound
  <2>. QED
    BY <2>1, Components, ResolveStep
<1>3. ASSUME ResolveInv PROVE VerdictIsRight
  <2>1. /\ verdict = "selected" => todo = {} /\ Found = {outcome}
        /\ verdict = "nobody" => todo = {} /\ Found = {}
        /\ verdict = "ambiguous" => todo = {} /\ Resolve!Cardinality(Found) > 1
    BY <1>3 DEF ResolveInv, Concluded
  <2>2. explicit # Resolve!Unnamed => eligible \subseteq {explicit} /\ allowed \subseteq {explicit}
    BY <1>3 DEF ResolveInv, InTurn
  <2>3. ASSUME explicit = Resolve!Unnamed, verdict \in {"selected", "nobody", "ambiguous"}
        PROVE  \A n \in steady : /\ n \in eligible <=> n \in Resolve!Eligible
                                 /\ n \in allowed <=> n \in Resolve!Allowed
    BY <1>3, <2>1, <2>3 DEF ResolveInv, AsOneLook, Reading
  <2>4. Resolve!NeverGuesses
    <3>1. SUFFICES ASSUME verdict = "selected" PROVE Resolve!NeverGuesses
      BY DEF Resolve!NeverGuesses
    <3>2. CASE explicit # Resolve!Unnamed
      BY <2>1, <2>2, <3>1, <3>2 DEF Resolve!NeverGuesses, Found
    <3>3. CASE explicit = Resolve!Unnamed
      <4>1. Resolve!Allowed \cap steady \subseteq {outcome}
        BY <2>1, <2>3, <3>1, <3>3 DEF Found
      <4>2. outcome \in steady \ Resolve!Allowed => Resolve!Eligible \cap steady = {outcome}
        BY <2>1, <2>3, <3>1, <3>3 DEF Found
      <4>. QED
        BY <3>1, <3>3, <4>1, <4>2 DEF Resolve!NeverGuesses
    <3>. QED
      BY <3>2, <3>3
  <2>5. Resolve!OneLook
    <3>1. SUFFICES ASSUME steady = Resolve!Names, explicit = Resolve!Unnamed,
                          verdict \in {"selected", "nobody", "ambiguous"}
                   PROVE  Resolve!OneLook
      BY DEF Resolve!OneLook
    <3>2. eligible \subseteq Resolve!Names /\ allowed \subseteq Resolve!Names
      BY <1>3 DEF ResolveInv, ResolveTyped
    <3>3. Resolve!Eligible \subseteq Resolve!Names /\ Resolve!Allowed \subseteq Resolve!Names
      BY DEF Resolve!Eligible, Resolve!Allowed, Resolve!Candidates
    <3>4. eligible = Resolve!Eligible /\ allowed = Resolve!Allowed
      BY <2>3, <3>1, <3>2, <3>3
    <3>. QED
      BY <2>1, <3>4 DEF Resolve!OneLook, Found
  <2>. QED
    BY <2>4, <2>5 DEF VerdictIsRight, Resolve!VerdictIsRight
<1>. QED
  BY <1>1, <1>2, <1>3, PTL DEF AllSpec

-----------------------------------------------------------------------------
(* The exact read behind an attachment *)

\* Slack holds one message at a time, and the parent of a thread is no reply.
WellFormed ==
  honest =>
    /\ conversation \subseteq Attachment!Messages
    /\ stable \subseteq conversation
    /\ \A m, n \in conversation : /\ m.ts = n.ts => m = n
                                  /\ m.thread = n.ts => n.thread \in {Attachment!None, n.ts}

ProofTyped ==
  /\ messageTS \in Attachment!Times
  /\ threadTS \in Attachment!Times \cup {Attachment!None}

\* Before the message is found, an honest Slack has shown at most the parent.
Searched ==
  honest /\ proofPc = "search" /\ (\E m \in stable : Attachment!Named(m)) =>
    \/ pages = 0 /\ cursor = Attachment!None
    \/ pages = 1 /\ cursor = threadTS /\ threadTS # Attachment!None /\ threadTS < messageTS

\* What was found is the named message.
Proved ==
  /\ proofPc \in {"found", "info", "ready"} =>
       /\ proof.ts = messageTS
       /\ threadTS # Attachment!None => Attachment!InThread(proof)
  /\ proofPc \in {"info", "ready"} => proof.file
  /\ honest /\ proofPc = "found" => \A m \in stable : Attachment!Named(m) => m = proof

ProofInv == ProofTyped /\ WellFormed /\ Searched /\ Proved /\ Attachment!AttachmentIsFound

\* At first nothing was read, and every message is stable.
LEMMA ProofInit == ASSUME AllInit PROVE ProofInv
<1>1. Attachment!Init
  BY DEF AllInit
<1>2. /\ conversation \in IF honest THEN Attachment!Conversations ELSE {{}}
      /\ stable = conversation
      /\ messageTS \in Attachment!Times
      /\ threadTS \in Attachment!Times \cup {Attachment!None}
      /\ proofPc = "search" /\ pages = 0 /\ cursor = Attachment!None
  BY <1>1 DEF Attachment!Init
<1>3. WellFormed
  <2>1. SUFFICES ASSUME honest PROVE WellFormed
    BY DEF WellFormed
  <2>2. PICK S \in SUBSET Attachment!Times,
             of \in [Attachment!Times -> Attachment!Times \cup {Attachment!None}],
             has \in [Attachment!Times -> BOOLEAN] :
          conversation = Attachment!Posted(S, of, has)
    BY <1>2, <2>1 DEF Attachment!Conversations
  <2>3. \A m, n \in conversation : m.ts = n.ts => m = n
    BY <2>2 DEF Attachment!Posted, Attachment!Messages
  <2>4. \A m, n \in conversation : m.thread = n.ts => n.thread \in {Attachment!None, n.ts}
    BY <1>2, <2>1 DEF Attachment!Conversations
  <2>. QED
    BY <1>2, <2>2, <2>3, <2>4 DEF WellFormed, Attachment!Posted
<1>. QED
  BY <1>2, <1>3 DEF ProofInv, ProofTyped, Searched, Proved, Attachment!AttachmentIsFound

\* Times are positive.
LEMMA ProofTimes ==
  ASSUME ProofTyped
  PROVE  messageTS \in Nat /\ messageTS > 0 /\ threadTS \in Nat /\ Attachment!None = 0
BY InstancesAssumption
DEF ProofTyped, Attachment!Times, Attachment!None, Attachment!BoundsAssumption

\* What an honest Slack has left to show behind its cursor
Left == {m \in conversation : Attachment!Shown(m) /\ m.ts > cursor}

\* An honest page is a beginning of that, perhaps with the parent.
LEMMA HonestSlice ==
  ASSUME honest, NEW reply \in Attachment!Answers
  PROVE  \E S \in SUBSET Left :
           /\ S = {} => Left = {}
           /\ \A m \in S, n \in Left \ S : m.ts < n.ts
           /\ S \subseteq reply.page
           /\ \A m \in reply.page \ S : m \in conversation /\ Attachment!Shown(m) /\ m.ts = threadTS
           /\ reply.twice = {}
           /\ \/ reply.next = Attachment!None /\ S = Left
              \/ \E m \in S : reply.next = m.ts
<1>. DEFINE shown == {m \in conversation : Attachment!Shown(m)}
            left == {m \in shown : m.ts > cursor}
            heads == {S \in SUBSET left : /\ S = {} => left = {}
                                          /\ \A m \in S, n \in left \ S : m.ts < n.ts}
            Final(S) == {m.ts : m \in {m \in S : \A n \in S : n.ts <= m.ts}}
<1>1. reply \in UNION {[page : {S, S \cup {m \in shown : m.ts = threadTS}},
                         twice : {{}},
                         next : Final(S) \cup (IF S = left THEN {Attachment!None} ELSE {})] :
                         S \in heads}
  BY DEF Attachment!Answers, Attachment!HonestAnswers
<1>2. PICK S \in heads :
        reply \in [page : {S, S \cup {m \in shown : m.ts = threadTS}}, twice : {{}},
                    next : Final(S) \cup (IF S = left THEN {Attachment!None} ELSE {})]
  BY <1>1
<1>3. left = Left
  BY DEF Left
<1>4. reply.page \in {S, S \cup {m \in shown : m.ts = threadTS}} /\ reply.twice = {}
  BY <1>2
<1>5. reply.next \in Final(S) \cup (IF S = left THEN {Attachment!None} ELSE {})
  BY <1>2
<1>6. S \subseteq left /\ (S = {} => left = {}) /\ \A m \in S, n \in left \ S : m.ts < n.ts
  OBVIOUS
<1>7. (reply.next = Attachment!None /\ S = left) \/ \E m \in S : reply.next = m.ts
  BY <1>5
<1>8. /\ S \subseteq reply.page
      /\ \A m \in reply.page \ S : m \in conversation /\ Attachment!Shown(m) /\ m.ts = threadTS
  BY <1>4
<1>. QED
  BY <1>3, <1>4, <1>6, <1>7, <1>8

\* Beside the named message an honest Slack shows nothing but its parent.
LEMMA OnlyTheParent ==
  ASSUME ProofInv, honest, NEW r \in stable, Attachment!Named(r)
  PROVE  /\ r \in conversation /\ Attachment!Shown(r) /\ r.ts = messageTS
         /\ threadTS # Attachment!None => Attachment!InThread(r)
         /\ \A m \in conversation :
              Attachment!Shown(m) =>
                \/ m = r
                \/ /\ m.ts = threadTS /\ threadTS # messageTS
                   /\ threadTS # Attachment!None /\ Attachment!InThread(m)
<1>1. r \in conversation /\ r.ts = messageTS
  BY DEF ProofInv, WellFormed, Attachment!Named
<1>2. threadTS # Attachment!None => Attachment!InThread(r)
  BY DEF Attachment!Named
<1>3. Attachment!Shown(r)
  BY <1>1, <1>2 DEF Attachment!Named, Attachment!Shown, Attachment!InThread
<1>4. ASSUME NEW m \in conversation, Attachment!Shown(m), m # r
      PROVE  /\ m.ts = threadTS /\ threadTS # messageTS
             /\ threadTS # Attachment!None /\ Attachment!InThread(m)
  <2>1. m.ts # messageTS
    BY <1>1, <1>4 DEF ProofInv, WellFormed
  <2>2. m.ts = threadTS /\ threadTS # Attachment!None
    BY <1>4, <2>1 DEF Attachment!Shown
  <2>3. r.thread = m.ts
    BY <1>1, <1>2, <2>1, <2>2 DEF Attachment!InThread
  <2>4. m.thread \in {Attachment!None, m.ts}
    BY <1>1, <1>4, <2>3 DEF ProofInv, WellFormed
  <2>. QED
    BY <2>1, <2>2, <2>4 DEF Attachment!InThread
<1>. QED
  BY <1>1, <1>2, <1>3, <1>4

\* The history shows exactly the named message,
LEMMA HistoryShows ==
  ASSUME ProofInv, honest, proofPc = "search", threadTS = Attachment!None,
         NEW r \in stable, Attachment!Named(r), NEW reply \in Attachment!Answers
  PROVE  reply.page = {r} /\ reply.twice = {}
<1>1. /\ r \in conversation /\ Attachment!Shown(r) /\ r.ts = messageTS
      /\ \A m \in conversation : Attachment!Shown(m) => m = r
  BY OnlyTheParent
<1>2. cursor = Attachment!None
  BY DEF ProofInv, Searched
<1>3. r \in Left
  BY <1>1, <1>2, ProofTimes DEF Left, ProofInv
<1>4. PICK S \in SUBSET Left :
        /\ S = {} => Left = {}
        /\ S \subseteq reply.page /\ reply.twice = {}
        /\ \A m \in reply.page \ S : m \in conversation /\ Attachment!Shown(m)
  BY HonestSlice
<1>5. S = {r}
  BY <1>1, <1>3, <1>4 DEF Left
<1>. QED
  BY <1>1, <1>4, <1>5

\* and a thread the named message or its parent alone, but the parent only once.
LEMMA ThreadShows ==
  ASSUME ProofInv, honest, proofPc = "search", threadTS # Attachment!None,
         NEW r \in stable, Attachment!Named(r), NEW reply \in Attachment!Answers
  PROVE  /\ Attachment!Acceptable(reply)
         /\ \A m \in reply.page : m.ts = messageTS => m = r
         /\ \/ r \in reply.page
            \/ /\ pages = 0 /\ reply.next = threadTS /\ threadTS < messageTS
               /\ cursor = Attachment!None
<1>1. /\ r \in conversation /\ Attachment!Shown(r) /\ r.ts = messageTS
      /\ Attachment!InThread(r)
      /\ \A m \in conversation :
           Attachment!Shown(m) =>
             m = r \/ (m.ts = threadTS /\ threadTS # messageTS /\ Attachment!InThread(m))
  BY OnlyTheParent
<1>2. \/ pages = 0 /\ cursor = Attachment!None
      \/ pages = 1 /\ cursor = threadTS /\ threadTS < messageTS
  BY DEF ProofInv, Searched
<1>3. messageTS \in Nat /\ messageTS > 0 /\ threadTS \in Nat /\ Attachment!None = 0
  BY ProofTimes DEF ProofInv
<1>4. r \in Left
  BY <1>1, <1>2, <1>3 DEF Left
<1>5. PICK S \in SUBSET Left :
        /\ S = {} => Left = {}
        /\ \A m \in S, n \in Left \ S : m.ts < n.ts
        /\ S \subseteq reply.page /\ reply.twice = {}
        /\ \A m \in reply.page \ S : m \in conversation /\ Attachment!Shown(m) /\ m.ts = threadTS
        /\ \/ reply.next = Attachment!None /\ S = Left
           \/ \E m \in S : reply.next = m.ts
  BY HonestSlice
<1>6. \A m \in reply.page : m \in conversation /\ Attachment!Shown(m)
  BY <1>5 DEF Left
<1>7. \A m \in reply.page : m.ts = messageTS => m = r
  BY <1>1, <1>6
<1>8. Attachment!Acceptable(reply)
  <2>1. Attachment!Cardinality({m \in reply.page : m.ts = messageTS}) <= 1
    <3>. DEFINE P == {m \in reply.page : m.ts = messageTS}
    <3>1. P \in SUBSET {r}
      BY <1>7
    <3>2. IsFiniteSet({r}) /\ Cardinality({r}) = 1
      BY FS_Singleton
    <3>. HIDE DEF P
    <3>3. Cardinality(P) <= 1
      BY <3>1, <3>2, FS_Subset
    <3>4. Attachment!Cardinality(P) = Cardinality(P)
      BY DEF Cardinality, Attachment!Cardinality
    <3>. QED
      BY <3>3, <3>4 DEF P
  <2>2. \A m \in reply.page : m.ts \in {messageTS, threadTS} /\ Attachment!InThread(m)
    BY <1>1, <1>6
  <2>. QED
    BY <1>5, <2>1, <2>2 DEF Attachment!Acceptable
<1>9. CASE r \in S
  BY <1>5, <1>7, <1>8, <1>9
<1>10. CASE r \notin S
  <2>1. S # Left /\ S # {}
    BY <1>4, <1>5, <1>10
  <2>2. PICK m \in S : reply.next = m.ts
    BY <1>5, <2>1
  <2>3. m \in conversation /\ Attachment!Shown(m) /\ m # r /\ m.ts > cursor /\ m.ts < r.ts
    BY <1>4, <1>5, <1>10, <2>2 DEF Left
  <2>4. m.ts = threadTS
    BY <1>1, <2>3
  <2>5. reply.next = threadTS /\ threadTS < messageTS /\ threadTS > cursor
    BY <1>1, <2>2, <2>3, <2>4
  <2>6. pages = 0 /\ cursor = Attachment!None
    BY <1>2, <1>3, <2>5
  <2>. QED
    BY <1>7, <1>8, <2>5, <2>6
<1>. QED
  BY <1>9, <1>10

\* A step of the command that leaves Slack and the request alone
LEMMA CommandKeeps ==
  ASSUME ProofInv, UNCHANGED <<honest, conversation, stable, deleted, messageTS, threadTS>>
  PROVE  /\ ProofTyped' /\ WellFormed'
         /\ \A m : Attachment!Named(m)' <=> Attachment!Named(m)
         /\ \A m : Attachment!InThread(m)' <=> Attachment!InThread(m)
<1>1. \A m : Attachment!InThread(m)' <=> Attachment!InThread(m)
  BY DEF Attachment!InThread
<1>2. \A m : Attachment!Named(m)' <=> Attachment!Named(m)
  BY <1>1 DEF Attachment!Named
<1>. QED
  BY <1>1, <1>2 DEF ProofInv, ProofTyped, WellFormed

\* A deletion takes its message from the stable ones and leaves the rest as it was.
LEMMA DeleteStep ==
  ASSUME ProofInv, Attachment!Delete
  PROVE  ProofInv'
<1>1. /\ conversation' \subseteq conversation /\ stable' \subseteq stable
      /\ honest' = honest
      /\ UNCHANGED <<proofPc, messageTS, threadTS, pages, cursor, proof>>
  BY DEF Attachment!Delete, Attachment!command
<1>3. WellFormed'
  <2>1. honest => stable' \subseteq conversation'
    BY DEF Attachment!Delete, ProofInv, WellFormed
  <2>. QED
    BY <1>1, <2>1 DEF ProofInv, WellFormed
<1>4. \A m : Attachment!InThread(m)' <=> Attachment!InThread(m)
  BY <1>1 DEF Attachment!InThread
<1>5. \A m : Attachment!Named(m)' <=> Attachment!Named(m)
  BY <1>1, <1>4 DEF Attachment!Named
<1>6. ProofTyped'
  BY <1>1 DEF ProofInv, ProofTyped
<1>7. Searched'
  BY <1>1, <1>5 DEF ProofInv, Searched
<1>8. Proved'
  BY <1>1, <1>4, <1>5 DEF ProofInv, Proved
<1>9. Attachment!AttachmentIsFound'
  BY <1>1, <1>5 DEF ProofInv, Attachment!AttachmentIsFound
<1>. QED
  BY <1>3, <1>6, <1>7, <1>8, <1>9 DEF ProofInv

\* The history answers with the named message alone, or proves nothing.
LEMMA SearchHistoryStep ==
  ASSUME ProofInv, Attachment!SearchHistory
  PROVE  ProofInv'
<1>1. /\ proofPc = "search" /\ threadTS = Attachment!None
      /\ UNCHANGED <<honest, conversation, stable, deleted, messageTS, threadTS, pages, cursor>>
  BY DEF Attachment!SearchHistory, Attachment!slack
<1>2. /\ ProofTyped' /\ WellFormed'
      /\ \A m : Attachment!Named(m)' <=> Attachment!Named(m)
  BY <1>1, CommandKeeps
<1>3. PICK reply \in Attachment!Answers :
        IF reply.twice = {} /\ \E m \in reply.page : reply.page = {m} /\ m.ts = messageTS
        THEN proof' \in reply.page /\ proofPc' = "found"
        ELSE proofPc' = "not found" /\ proof' = proof
  BY DEF Attachment!SearchHistory, Attachment!Return
<1>4. ASSUME honest, NEW r \in stable, Attachment!Named(r)
      PROVE  reply.page = {r} /\ reply.twice = {} /\ r.ts = messageTS
  BY <1>1, <1>4, HistoryShows, OnlyTheParent
<1>5. CASE reply.twice = {} /\ \E m \in reply.page : reply.page = {m} /\ m.ts = messageTS
  <2>1. proofPc' = "found" /\ proof' \in reply.page /\ proof'.ts = messageTS
    BY <1>3, <1>5
  <2>2. \A r \in stable : honest /\ Attachment!Named(r) => r = proof'
    BY <1>4, <2>1
  <2>. QED
    BY <1>1, <1>2, <2>1, <2>2
    DEF ProofInv, Searched, Proved, Attachment!AttachmentIsFound
<1>6. CASE ~(reply.twice = {} /\ \E m \in reply.page : reply.page = {m} /\ m.ts = messageTS)
  <2>1. proofPc' = "not found"
    BY <1>3, <1>6
  <2>2. ~(honest /\ \E r \in stable : Attachment!Named(r))
    BY <1>4, <1>6
  <2>. QED
    BY <1>1, <1>2, <2>1, <2>2
    DEF ProofInv, Searched, Proved, Attachment!AttachmentIsFound
<1>. QED
  BY <1>5, <1>6

\* A page of a thread shows the named message, or the parent once before it.
LEMMA SearchThreadStep ==
  ASSUME ProofInv, Attachment!SearchThread
  PROVE  ProofInv'
<1>1. /\ proofPc = "search" /\ threadTS # Attachment!None /\ pages' = pages + 1
      /\ UNCHANGED <<honest, conversation, stable, deleted, messageTS, threadTS>>
  BY DEF Attachment!SearchThread, Attachment!slack
<1>2. /\ ProofTyped' /\ WellFormed'
      /\ \A m : Attachment!Named(m)' <=> Attachment!Named(m)
      /\ \A m : Attachment!InThread(m)' <=> Attachment!InThread(m)
  BY <1>1, CommandKeeps
<1>3. PICK reply \in Attachment!Answers :
        IF ~Attachment!Acceptable(reply)
        THEN proofPc' = "not found" /\ UNCHANGED <<cursor, proof>>
        ELSE IF Attachment!Proofs(reply.page) # {}
        THEN proof' \in Attachment!Proofs(reply.page) /\ proofPc' = "found" /\ UNCHANGED cursor
        ELSE IF reply.next \in {Attachment!None, cursor} \/ pages' = Attachment!Budget
        THEN proofPc' = "not found" /\ UNCHANGED <<cursor, proof>>
        ELSE cursor' = reply.next /\ UNCHANGED <<proofPc, proof>>
  BY DEF Attachment!SearchThread, Attachment!Return
<1>4. ASSUME honest, NEW r \in stable, Attachment!Named(r)
      PROVE  /\ Attachment!Acceptable(reply)
             /\ \A m \in reply.page : m.ts = messageTS => m = r
             /\ r.ts = messageTS
             /\ \/ r \in reply.page
                \/ /\ pages = 0 /\ reply.next = threadTS /\ threadTS < messageTS
                   /\ cursor = Attachment!None
  BY <1>1, <1>4, ThreadShows, OnlyTheParent
<1>5. CASE /\ Attachment!Acceptable(reply)
           /\ Attachment!Proofs(reply.page) # {}
  <2>1. /\ proofPc' = "found" /\ proof' \in reply.page /\ proof'.ts = messageTS
    BY <1>3, <1>5 DEF Attachment!Proofs
  <2>2. Attachment!InThread(proof')
    BY <1>5, <2>1 DEF Attachment!Acceptable
  <2>3. \A r \in stable : honest /\ Attachment!Named(r) => r = proof'
    BY <1>4, <2>1
  <2>4. threadTS' # Attachment!None => Attachment!InThread(proof)'
    BY <1>1, <2>2 DEF Attachment!InThread
  <2>. QED
    BY <1>1, <1>2, <2>1, <2>3, <2>4
    DEF ProofInv, Searched, Proved, Attachment!AttachmentIsFound
<1>6. CASE proofPc' = "not found"
  <2>1. ASSUME honest, NEW r \in stable, Attachment!Named(r)
        PROVE  FALSE
    <3>1. Attachment!Acceptable(reply)
      BY <1>4, <2>1
    <3>2. Attachment!Proofs(reply.page) = {} /\ r \notin reply.page
      <4>1. Attachment!Proofs(reply.page) = {}
        BY <1>3, <1>6, <3>1
      <4>. QED
        BY <1>4, <2>1, <4>1 DEF Attachment!Proofs
    <3>3. /\ pages = 0 /\ reply.next = threadTS /\ threadTS < messageTS
          /\ cursor = Attachment!None
      BY <1>4, <2>1, <3>2
    <3>4. reply.next \notin {Attachment!None, cursor} /\ pages' # Attachment!Budget
      BY <1>1, <3>3 DEF Attachment!Budget, Attachment!PageBudget
    <3>. QED
      BY <1>1, <1>3, <1>6, <3>1, <3>2, <3>4
  <2>. QED
    BY <1>1, <1>2, <1>6, <2>1
    DEF ProofInv, Searched, Proved, Attachment!AttachmentIsFound
<1>7. CASE /\ Attachment!Acceptable(reply)
           /\ Attachment!Proofs(reply.page) = {}
           /\ proofPc' # "not found"
  <2>1. cursor' = reply.next /\ proofPc' = "search"
    BY <1>1, <1>3, <1>7
  <2>2. ASSUME honest, NEW r \in stable, Attachment!Named(r)
        PROVE  pages' = 1 /\ cursor' = threadTS /\ threadTS < messageTS
    <3>1. r \notin reply.page
      BY <1>4, <1>7, <2>2 DEF Attachment!Proofs
    <3>. QED
      BY <1>1, <1>4, <2>1, <2>2, <3>1
  <2>. QED
    BY <1>1, <1>2, <2>1, <2>2
    DEF ProofInv, Searched, Proved, Attachment!AttachmentIsFound
<1>. QED
  BY <1>3, <1>5, <1>6, <1>7

\* Every step of the exact read, and of the conversation around it, keeps the invariant.
LEMMA ProofStep ==
  ASSUME ProofInv, Attachment!Next
  PROVE  ProofInv'
<1>1. CASE Attachment!Fail
  <2>1. /\ proofPc' = "failed"
        /\ UNCHANGED <<honest, conversation, stable, deleted, messageTS, threadTS>>
    BY <1>1 DEF Attachment!Fail, Attachment!Return, Attachment!slack
  <2>. QED
    BY <2>1, CommandKeeps DEF ProofInv, Searched, Proved, Attachment!AttachmentIsFound
<1>2. CASE Attachment!CheckAttached
  <2>1. /\ proofPc = "found"
        /\ proofPc' = (IF proof.file THEN "info" ELSE "not found")
        /\ UNCHANGED <<honest, conversation, stable, deleted, messageTS, threadTS>>
        /\ UNCHANGED <<pages, cursor, proof>>
    BY <1>2 DEF Attachment!CheckAttached, Attachment!Return, Attachment!slack
  <2>2. CASE proof.file
    BY <2>1, <2>2, CommandKeeps DEF ProofInv, Searched, Proved, Attachment!AttachmentIsFound
  <2>3. CASE ~proof.file
    BY <2>1, <2>3, CommandKeeps DEF ProofInv, Searched, Proved, Attachment!AttachmentIsFound
  <2>. QED
    BY <2>2, <2>3
<1>3. CASE Attachment!AskInfo
  <2>1. /\ proofPc = "info" /\ proofPc' = "ready"
        /\ UNCHANGED <<honest, conversation, stable, deleted, messageTS, threadTS>>
        /\ UNCHANGED <<pages, cursor, proof>>
    BY <1>3 DEF Attachment!AskInfo, Attachment!Return, Attachment!slack
  <2>. QED
    BY <2>1, CommandKeeps DEF ProofInv, Searched, Proved, Attachment!AttachmentIsFound
<1>. QED
  BY <1>1, <1>2, <1>3, DeleteStep, SearchHistoryStep, SearchThreadStep DEF Attachment!Next

\* Slack is asked for the metadata of a file only behind an exact read of the
\* message that the caller named, and an attachment that is there all the time
\* is found within two pages, wherever Slack cuts them and whatever is deleted
\* meanwhile (cli/files.go:94-142).
THEOREM ExactProof == AllSpec => []ProofIsExact
<1>1. AllInit => ProofInv
  BY ProofInit
<1>2. ProofInv /\ [AllNext]_all => ProofInv'
  <2>1. ASSUME ProofInv, UNCHANGED proofVars PROVE ProofInv'
    <3>1. /\ UNCHANGED <<honest, conversation, stable, deleted, messageTS, threadTS>>
          /\ UNCHANGED <<proofPc, pages, cursor, proof>>
      BY <2>1 DEF proofVars
    <3>. QED
      BY <2>1, <3>1, CommandKeeps DEF ProofInv, Searched, Proved, Attachment!AttachmentIsFound
  <2>. QED
    BY <2>1, Components, ProofStep
<1>3. ProofInv => ProofIsExact
  BY DEF ProofInv, Proved, ProofIsExact, Attachment!ProofIsExact, Attachment!NothingElseIsProof
<1>. QED
  BY <1>1, <1>2, <1>3, PTL DEF AllSpec

-----------------------------------------------------------------------------
(* One call of the client *)

InCall == {"sending", "status", "body", "decode"}

\* The request is sent exactly when the call leaves "idle", and a call that has
\* not ended returned nothing.
Sent ==
  /\ callPc = "idle" => fate = "none"
  /\ callPc \in InCall => fate # "none"
  /\ callPc = "done" <=> callOutcome # "none"

\* The body is open from the answer to the end of the call.
Opened ==
  /\ callPc \in {"idle", "sending"} => callBody = "none"
  /\ callPc \in {"status", "body", "decode"} => callBody = "open"
  /\ Call!BodiesClosed

\* The whole body, within both bounds
WholeAnswer ==
  /\ taken = answer.size /\ taken <= MaxBody
  /\ answer.coding = "gzip" => received = answer.wire /\ received <= MaxWire

\* What is judged, read and decoded is what Slack answered; only a passing status
\* is read, and only a whole body decoded.
Answered ==
  /\ callPc \in {"status", "body", "decode"} => Call!Truthful(status, answer)
  /\ callPc \in {"body", "decode"} => status \in Call!Passing
  /\ callPc = "decode" => WholeAnswer

\* What a write returned is known of its message.
Known ==
  /\ callOutcome = "result" => WholeAnswer
  /\ class = "write" /\ callOutcome = "result" => fate = "applied"
  /\ class = "write" /\ callOutcome \notin {"none", "result", "unknown"} =>
       fate \in {"none", "rejected"}

CallInv == Call!TypeOK /\ Sent /\ Opened /\ Answered /\ Known

\* A call that was not dispatched has sent, read and returned nothing.
LEMMA CallInit == ASSUME AllInit PROVE CallInv
<1>1. Call!Init
  BY DEF AllInit
<1>2. MaxWire \in Nat /\ MaxBody \in Nat
  BY InstancesAssumption DEF Call!BoundsAssumption
<1>3. Call!TypeOK
  BY <1>1, <1>2 DEF Call!Init, Call!TypeOK, Call!NoBody, Call!Bodies, Call!Texts,
                    Call!Outcomes
<1>. QED
  BY <1>1, <1>3 DEF CallInv, Sent, Opened, Answered, Known, InCall, Call!Init,
                    Call!BodiesClosed

\* What Slack decides is never what a call that has ended claimed to know.
LEMMA DecisionStep ==
  ASSUME CallInv, Call!SlackDecides
  PROVE  CallInv'
<1>1. /\ fate = "flying" /\ fate' \in {"applied", "rejected", "lost"}
      /\ UNCHANGED <<class, callPc, status, answer, callBody, received, taken, callOutcome>>
  BY DEF Call!SlackDecides
<1>2. Call!TypeOK'
  BY <1>1 DEF CallInv, Call!TypeOK
<1>3. Opened' /\ Sent'
  BY <1>1 DEF CallInv, Opened, Call!BodiesClosed, Sent, InCall
<1>4. Answered'
  BY <1>1 DEF CallInv, Answered, WholeAnswer, Call!Truthful
<1>5. Known'
  BY <1>1 DEF CallInv, Known, WholeAnswer
<1>. QED
  BY <1>2, <1>3, <1>4, <1>5 DEF CallInv

\* Whatever is answered, it is kept as it came.
LEMMA AnswerStep ==
  ASSUME CallInv, Call!Respond
  PROVE  CallInv'
<1>1. PICK s \in Call!Passing \cup Call!Failing, b \in Call!Bodies :
        Call!Truthful(s, b) /\ status' = s /\ answer' = b
  BY DEF Call!Respond
<1>2. /\ callPc = "sending" /\ callPc' = "status" /\ callBody' = "open"
      /\ UNCHANGED <<class, fate, received, taken, callOutcome>>
  BY DEF Call!Respond, Call!Goto
<1>3. Call!TypeOK'
  BY <1>1, <1>2 DEF CallInv, Call!TypeOK
<1>4. Sent' /\ Opened'
  BY <1>2 DEF CallInv, Sent, Opened, InCall, Call!BodiesClosed
<1>5. Answered'
  BY <1>1, <1>2 DEF Answered, Call!Truthful
<1>6. callOutcome' = "none"
  BY <1>2 DEF CallInv, Sent
<1>7. Known'
  BY <1>6 DEF Known
<1>. QED
  BY <1>3, <1>4, <1>5, <1>7 DEF CallInv

\* A call that returns closes its body; it returns "result" only behind a whole
\* body, and the end of a write says no more than is known.
LEMMA ReturnKeeps ==
  ASSUME CallInv, callPc # "done", NEW how \in Call!Outcomes \ {"none", "stream"},
         Call!Return(how), UNCHANGED <<class, fate, status, answer>>,
         received' \in 0 .. MaxWire + 1, taken' \in 0 .. MaxBody + 1,
         how = "result" => WholeAnswer',
         class = "write" => \/ how = "result" /\ fate = "applied"
                            \/ how = "unknown"
                            \/ how # "result" /\ fate \in {"none", "rejected"}
  PROVE  CallInv'
<1>1. /\ callOutcome' = how /\ callPc' = "done"
      /\ callBody' = IF callBody = "open" THEN "closed" ELSE callBody
  BY DEF Call!Return, Call!Goto
<1>2. callBody \in {"none", "open"}
  BY DEF CallInv, Opened, Call!TypeOK
<1>3. Call!TypeOK'
  BY <1>1 DEF CallInv, Call!TypeOK
<1>4. Sent' /\ Opened' /\ Answered'
  BY <1>1, <1>2 DEF Sent, Opened, Answered, InCall, Call!BodiesClosed
<1>5. Known'
  BY <1>1 DEF Known
<1>. QED
  BY <1>3, <1>4, <1>5 DEF CallInv

\* Before the answer: nothing was sent, or nobody knows.
LEMMA BeforeAnswerStep ==
  ASSUME CallInv, Call!Decline \/ Call!Cancelled \/ Call!Dispatch \/ Call!TransportFails
  PROVE  CallInv'
<1> USE DEF Call!Network, Call!Outcomes
<1>1. received \in 0 .. MaxWire + 1 /\ taken \in 0 .. MaxBody + 1
  BY DEF CallInv, Call!TypeOK
<1>2. callPc = "idle" => fate = "none"
  BY DEF CallInv, Sent
<1>3. CASE Call!Decline
  <2>1. PICK how \in {"usage", "auth", "internal"} : Call!Return(how)
    BY <1>3 DEF Call!Decline
  <2>2. callPc = "idle" /\ UNCHANGED <<class, fate, status, answer, received, taken>>
    BY <1>3 DEF Call!Decline
  <2>. QED
    BY <1>1, <1>2, <2>1, <2>2, ReturnKeeps
<1>4. CASE Call!Cancelled
  <2>1. /\ callPc = "idle" /\ UNCHANGED <<class, fate, status, answer, received, taken>>
        /\ Call!Return(IF class = "write" THEN "not started" ELSE "retryable")
    BY <1>4 DEF Call!Cancelled
  <2>. QED
    BY <1>1, <1>2, <2>1, ReturnKeeps
<1>5. CASE Call!Dispatch
  <2>1. /\ callPc = "idle" /\ fate' = "flying" /\ callPc' = "sending"
        /\ UNCHANGED <<class, status, answer, callBody, received, taken, callOutcome>>
    BY <1>5 DEF Call!Dispatch, Call!Goto
  <2>2. callOutcome = "none"
    BY <2>1 DEF CallInv, Sent
  <2>3. Call!TypeOK'
    BY <2>1 DEF CallInv, Call!TypeOK
  <2>4. Sent' /\ Opened' /\ Answered' /\ Known'
    BY <2>1, <2>2 DEF CallInv, Sent, Opened, Answered, Known, InCall, Call!BodiesClosed
  <2>. QED
    BY <2>3, <2>4 DEF CallInv
<1>6. CASE Call!TransportFails
  <2>1. /\ callPc = "sending" /\ UNCHANGED <<class, fate, status, answer, received, taken>>
        /\ Call!Return(Call!Network)
    BY <1>6 DEF Call!TransportFails
  <2>. QED
    BY <1>1, <2>1, ReturnKeeps
<1>. QED
  BY <1>3, <1>4, <1>5, <1>6

\* A status that is not passed on: Slack refuses with 401 and 403 only what it
\* did not commit.
LEMMA JudgeStep ==
  ASSUME CallInv, Call!Judge
  PROVE  CallInv'
<1>1. callPc = "status" /\ UNCHANGED <<class, fate, status, answer, received, taken>>
  BY DEF Call!Judge
<1>2. received \in 0 .. MaxWire + 1 /\ taken \in 0 .. MaxBody + 1
  BY DEF CallInv, Call!TypeOK
<1>3. CASE ~Call!Passed
  <2>1. Call!Return(Call!StatusError)
    BY <1>3 DEF Call!Judge
  <2>2. Call!StatusError \in Call!Outcomes \ {"none", "stream", "result"}
    BY DEF Call!StatusError, Call!Network, Call!Outcomes
  <2>3. CASE status \in {"unauthorized", "forbidden"}
    <3>1. fate = "rejected"
      BY <1>1, <2>3 DEF CallInv, Answered, Call!Truthful
    <3>. QED
      BY <1>1, <1>2, <2>1, <2>2, <3>1, ReturnKeeps
  <2>4. CASE status \notin {"unauthorized", "forbidden"}
    <3>1. class = "write" => Call!StatusError = "unknown"
      BY <2>4 DEF Call!StatusError, Call!Network
    <3>. QED
      BY <1>1, <1>2, <2>1, <2>2, <3>1, ReturnKeeps
  <2>. QED
    BY <2>3, <2>4
<1>4. CASE Call!Passed /\ class = "download"
  <2>1. callOutcome' = "stream" /\ callPc' = "done" /\ UNCHANGED callBody
    BY <1>4 DEF Call!Judge, Call!Goto
  <2>2. callBody = "open"
    BY <1>1 DEF CallInv, Opened
  <2>3. Call!TypeOK'
    BY <1>1, <2>1 DEF CallInv, Call!TypeOK, Call!Outcomes
  <2>4. Sent' /\ Opened' /\ Answered' /\ Known'
    BY <1>1, <1>4, <2>1, <2>2 DEF Sent, Opened, Answered, Known, InCall, Call!BodiesClosed
  <2>. QED
    BY <2>3, <2>4 DEF CallInv
<1>5. CASE Call!Passed /\ class # "download"
  <2>1. callPc' = "body" /\ UNCHANGED <<callOutcome, callBody>>
    BY <1>5 DEF Call!Judge, Call!Goto
  <2>2. status \in Call!Passing
    BY <1>5 DEF Call!Passed, Call!Passing
  <2>3. Call!TypeOK'
    BY <1>1, <2>1 DEF CallInv, Call!TypeOK
  <2>4. Sent' /\ Opened'
    BY <1>1, <2>1 DEF CallInv, Sent, Opened, InCall, Call!BodiesClosed
  <2>5. Answered' /\ Known'
    BY <1>1, <2>1, <2>2 DEF CallInv, Sent, Answered, Known, Call!Truthful
  <2>. QED
    BY <2>3, <2>4, <2>5 DEF CallInv
<1>. QED
  BY <1>3, <1>4, <1>5

\* The limited reader takes what fits, or one more than fits.
LEMMA LimitedReads ==
  ASSUME NEW length \in Nat, NEW bound \in Nat
  PROVE  /\ Call!Limited(length, bound) \in 0 .. bound + 1
         /\ Call!Limited(length, bound) <= bound =>
              Call!Limited(length, bound) = length
BY DEF Call!Limited

\* What is decoded was read to its end: the byte beyond a bound shows that there
\* is more.
LEMMA ReadStep ==
  ASSUME CallInv, Call!ReadBody
  PROVE  CallInv'
<1>1. callPc = "body" /\ UNCHANGED <<class, fate, status, answer>>
  BY DEF Call!ReadBody
<1>2. MaxWire \in Nat /\ MaxBody \in Nat
  BY InstancesAssumption DEF Call!BoundsAssumption
<1>3. received \in 0 .. MaxWire + 1 /\ taken \in 0 .. MaxBody + 1
  BY DEF CallInv, Call!TypeOK
<1>4. answer.wire \in Nat /\ answer.size \in Nat
  <2>1. answer \in Call!Bodies
    BY DEF CallInv, Call!TypeOK
  <2>2. answer.wire \in 0 .. MaxWire + 2 /\ answer.size \in 0 .. MaxBody + 2
    BY <2>1 DEF Call!Bodies
  <2>. QED
    BY <1>2, <2>2
<1>5. received' = IF answer.coding = "gzip" THEN Call!Limited(answer.wire, MaxWire)
                  ELSE received
  BY DEF Call!ReadBody
<1>6. received' \in 0 .. MaxWire + 1
  BY <1>2, <1>3, <1>4, <1>5, LimitedReads
<1>7. CASE Call!Return(Call!Network) /\ taken' \in 0 .. MaxBody + 1
  <2>1. /\ Call!Network \in Call!Outcomes \ {"none", "stream", "result"}
        /\ class = "write" => Call!Network = "unknown"
    BY DEF Call!Network, Call!Outcomes
  <2>. QED
    BY <1>1, <1>6, <1>7, <2>1, ReturnKeeps
<1>8. CASE /\ received' <= MaxWire
           /\ taken' = Call!Limited(answer.size, MaxBody) /\ taken' <= MaxBody
           /\ callPc' = "decode" /\ UNCHANGED <<callOutcome, callBody>>
  <2>1. taken' \in 0 .. MaxBody + 1 /\ taken' = answer.size
    BY <1>2, <1>4, <1>8, LimitedReads
  <2>2. answer.coding = "gzip" => received' = answer.wire
    BY <1>2, <1>4, <1>5, <1>8, LimitedReads
  <2>3. WholeAnswer'
    BY <1>1, <1>8, <2>1, <2>2 DEF WholeAnswer
  <2>4. Call!TypeOK'
    BY <1>1, <1>6, <1>8, <2>1 DEF CallInv, Call!TypeOK
  <2>5. Sent' /\ Opened'
    BY <1>1, <1>8 DEF CallInv, Sent, Opened, InCall, Call!BodiesClosed
  <2>6. Answered' /\ Known'
    BY <1>1, <1>8, <2>3 DEF CallInv, Sent, Answered, Known, Call!Truthful
  <2>. QED
    BY <2>4, <2>5, <2>6 DEF CallInv
<1>9. CASE /\ taken' = Call!Limited(answer.size, MaxBody)
           /\ Call!Return(Call!Network)
  <2>1. taken' \in 0 .. MaxBody + 1
    BY <1>2, <1>4, <1>9, LimitedReads
  <2>. QED
    BY <1>7, <1>9, <2>1
<1>10. CASE Call!Return(Call!Network) /\ UNCHANGED taken
  BY <1>3, <1>7, <1>10
<1>11. CASE /\ received' <= MaxWire
            /\ taken' = Call!Limited(answer.size, MaxBody)
            /\ IF taken' > MaxBody THEN Call!Return(Call!Network)
               ELSE callPc' = "decode" /\ UNCHANGED <<callOutcome, callBody>>
  <2>1. taken' \in 0 .. MaxBody + 1
    BY <1>2, <1>4, <1>11, LimitedReads
  <2>. QED
    BY <1>2, <1>8, <1>9, <1>11, <2>1
<1>. QED
  BY <1>10, <1>11 DEF Call!ReadBody, Call!Goto

\* A known refusal is one that Slack sends before it commits the message; an
\* acknowledgement of another message says nothing of this one.
LEMMA DecodeStep ==
  ASSUME CallInv, Call!Decode
  PROVE  CallInv'
<1>1. callPc = "decode" /\ UNCHANGED <<class, fate, status, answer, received, taken>>
  BY DEF Call!Decode
<1>2. received' \in 0 .. MaxWire + 1 /\ taken' \in 0 .. MaxBody + 1 /\ WholeAnswer'
  BY <1>1 DEF CallInv, Call!TypeOK, Answered, WholeAnswer
<1>3. status \in Call!Passing /\ Call!Truthful(status, answer)
  BY <1>1 DEF CallInv, Answered
<1>4. answer.text \in Call!Texts
  BY DEF CallInv, Call!TypeOK, Call!Bodies
<1>5. CASE answer.text \in {"broken", "trailing"}
  <2>1. Call!Return(Call!Network)
    BY <1>5 DEF Call!Decode, Call!Codes
  <2>2. /\ Call!Network \in Call!Outcomes \ {"none", "stream", "result"}
        /\ class = "write" => Call!Network = "unknown"
    BY DEF Call!Network, Call!Outcomes
  <2>. QED
    BY <1>1, <1>2, <2>1, <2>2, ReturnKeeps
<1>6. CASE answer.text \in Call!Codes
  <2>1. Call!Return(Call!Refusal(answer.text))
    BY <1>6 DEF Call!Decode, Call!Codes
  <2>2. Call!Refusal(answer.text) \in Call!Outcomes \ {"none", "stream", "result"}
    <3>1. ASSUME NEW code \in DOMAIN Call!WriteRefusals
          PROVE  Call!WriteRefusals[code] \in {"auth", "not found", "permission", "usage"}
      <4>1. code \in {"auth", "channel", "member", "permission", "input"}
        BY <3>1 DEF Call!WriteRefusals
      <4>2. /\ Call!WriteRefusals["auth"] = "auth"
            /\ Call!WriteRefusals["channel"] = "not found"
            /\ Call!WriteRefusals["member"] = "not found"
            /\ Call!WriteRefusals["permission"] = "permission"
            /\ Call!WriteRefusals["input"] = "usage"
        BY DEF Call!WriteRefusals
      <4>. QED
        BY <4>1, <4>2
    <3>2. ASSUME NEW code \in DOMAIN Call!ReadRefusals
          PROVE  Call!ReadRefusals[code] \in {"auth", "not found", "permission", "retryable"}
      <4>1. code \in {"auth", "channel", "object", "permission", "transient"}
        BY <3>2 DEF Call!ReadRefusals
      <4>2. /\ Call!ReadRefusals["auth"] = "auth"
            /\ Call!ReadRefusals["channel"] = "not found"
            /\ Call!ReadRefusals["object"] = "not found"
            /\ Call!ReadRefusals["permission"] = "permission"
            /\ Call!ReadRefusals["transient"] = "retryable"
        BY DEF Call!ReadRefusals
      <4>. QED
        BY <4>1, <4>2
    <3>. QED
      BY <3>1, <3>2 DEF Call!Refusal, Call!Outcomes
  <2>3. class = "write" => Call!Refusal(answer.text) = "unknown" \/ fate = "rejected"
    BY <1>3, <1>6 DEF Call!Refusal, Call!WriteRefusals, Call!Truthful, Call!Codes
  <2>. QED
    BY <1>1, <1>2, <2>1, <2>2, <2>3, ReturnKeeps
<1>7. CASE answer.text = "mismatched"
  <2>1. Call!Return(IF class = "write" THEN "unknown" ELSE "internal")
    BY <1>7 DEF Call!Decode, Call!Codes
  <2>2. CASE class = "write"
    <3>1. Call!Return("unknown")
      BY <2>1, <2>2
    <3>. QED
      BY <1>1, <1>2, <3>1, ReturnKeeps DEF Call!Outcomes
  <2>3. CASE class # "write"
    <3>1. Call!Return("internal")
      BY <2>1, <2>3
    <3>. QED
      BY <1>1, <1>2, <2>3, <3>1, ReturnKeeps DEF Call!Outcomes
  <2>. QED
    BY <2>2, <2>3
<1>8. CASE answer.text = "matching"
  <2>1. Call!Return("result")
    BY <1>8 DEF Call!Decode, Call!Codes
  <2>2. fate = "applied"
    BY <1>3, <1>8 DEF Call!Truthful
  <2>. QED
    BY <1>1, <1>2, <2>1, <2>2, ReturnKeeps DEF Call!Outcomes
<1>. QED
  BY <1>4, <1>5, <1>6, <1>7, <1>8 DEF Call!Texts

\* Every step of the call, and of Slack, keeps the invariant.
LEMMA CallStep ==
  ASSUME CallInv, Call!Next \/ UNCHANGED callVars
  PROVE  CallInv'
<1>1. CASE UNCHANGED callVars
  <2>1. UNCHANGED <<class, callPc, fate, status, answer, callBody, received, taken, callOutcome>>
    BY <1>1 DEF callVars
  <2>. QED
    BY <2>1 DEF CallInv, Call!TypeOK, Sent, Opened, Answered, Known, WholeAnswer,
                Call!BodiesClosed, Call!Truthful
<1>. QED
  BY <1>1, DecisionStep, AnswerStep, BeforeAnswerStep, JudgeStep, ReadStep, DecodeStep
     DEF Call!Next

\* A step that changes neither the fate of the request nor what was returned
\* is none of the promise's.
LEMMA CallStutters ==
  ASSUME UNCHANGED <<class, fate, callOutcome>>
  PROVE  [Call!Promise!Next]_(Call!Promise!vars)
BY DEF Call!Promise!vars, Call!Told

\* The return of a write is one of the answers that the promise allows.
LEMMA ReturnTells ==
  ASSUME CallInv, CallInv', callPc # "done", UNCHANGED <<class, fate>>,
         NEW how, Call!Return(how), callPc = "idle" => how # "unknown"
  PROVE  [Call!Promise!Next]_(Call!Promise!vars)
<1>1. callOutcome = "none" /\ callOutcome' = how /\ how # "none"
  BY DEF CallInv, Sent, Call!Return, Call!Goto
<1>2. CASE class # "write"
  BY <1>2 DEF Call!Promise!vars, Call!Told
<1>3. CASE class = "write"
  <2>1. Call!Told = "nothing"
    BY <1>1 DEF Call!Told
  <2>2. /\ how = "result" => fate = "applied"
        /\ how \notin {"result", "unknown"} => fate \in {"none", "rejected"}
    BY <1>1, <1>3 DEF CallInv, Known
  <2>3. how = "unknown" => fate # "none"
    BY DEF CallInv, Sent, InCall, Call!TypeOK
  <2>4. Call!Told' = IF how = "result" THEN "applied"
                     ELSE IF how = "unknown" THEN "unknown"
                     ELSE IF fate = "none" THEN "unsent" ELSE "rejected"
    BY <1>1, <1>3 DEF Call!Told
  <2>. QED
    BY <1>3, <2>1, <2>2, <2>3, <2>4
       DEF Call!Promise!Next, Call!Promise!Acknowledge, Call!Promise!LoseAnswer,
           Call!Promise!Decline, Call!Promise!LearnRejection
<1>. QED
  BY <1>2, <1>3

\* Every step of a call is one of the promise for a write, and none for the rest.
LEMMA CallTells ==
  ASSUME CallInv, CallInv', Call!Next \/ UNCHANGED callVars
  PROVE  [Call!Promise!Next]_(Call!Promise!vars)
<1> USE DEF Call!Network
<1>1. CASE UNCHANGED callVars \/ Call!Respond
  <2>1. UNCHANGED <<class, fate, callOutcome>>
    BY <1>1 DEF callVars, Call!Respond
  <2>. QED
    BY <2>1, CallStutters
<1>2. CASE Call!SlackDecides
  <2>1. /\ fate = "flying" /\ fate' \in {"applied", "rejected", "lost"}
        /\ UNCHANGED <<class, callOutcome>>
    BY <1>2 DEF Call!SlackDecides
  <2>2. Call!Told' = Call!Told
    BY <2>1 DEF CallInv, Known, Call!Told
  <2>3. CASE class = "write"
    BY <2>1, <2>2, <2>3 DEF Call!Promise!Next, Call!Promise!SlackDecides, Call!Promise!Fates
  <2>4. CASE class # "write"
    BY <2>1, <2>2, <2>4 DEF Call!Promise!vars
  <2>. QED
    BY <2>3, <2>4
<1>3. CASE Call!Decline \/ Call!Cancelled
  <2>1. /\ callPc = "idle" /\ UNCHANGED <<class, fate>>
        /\ \E how \in {"usage", "auth", "internal", "not started", "retryable"} :
             Call!Return(how)
    BY <1>3 DEF Call!Decline, Call!Cancelled
  <2>. QED
    BY <2>1, ReturnTells
<1>4. CASE Call!Dispatch
  <2>1. /\ callPc = "idle" /\ fate' = "flying" /\ UNCHANGED <<class, callOutcome>>
    BY <1>4 DEF Call!Dispatch
  <2>2. fate = "none" /\ callOutcome = "none"
    BY <2>1 DEF CallInv, Sent
  <2>. QED
    BY <2>1, <2>2 DEF Call!Promise!Next, Call!Promise!Dispatch, Call!Promise!vars, Call!Told
<1>5. CASE Call!TransportFails
  <2>1. callPc = "sending" /\ UNCHANGED <<class, fate>> /\ Call!Return(Call!Network)
    BY <1>5 DEF Call!TransportFails
  <2>. QED
    BY <2>1, ReturnTells
<1>6. CASE Call!Judge
  <2>1. callPc = "status" /\ UNCHANGED <<class, fate>>
    BY <1>6 DEF Call!Judge
  <2>2. CASE Call!Return(Call!StatusError)
    BY <2>1, <2>2, ReturnTells
  <2>3. CASE class = "download"
    BY <2>1, <2>3 DEF Call!Promise!vars, Call!Told
  <2>4. CASE UNCHANGED callOutcome
    BY <2>1, <2>4, CallStutters
  <2>. QED
    BY <1>6, <2>2, <2>3, <2>4 DEF Call!Judge
<1>7. CASE Call!ReadBody
  <2>1. callPc = "body" /\ UNCHANGED <<class, fate>>
    BY <1>7 DEF Call!ReadBody
  <2>2. Call!Return(Call!Network) \/ UNCHANGED callOutcome
    BY <1>7 DEF Call!ReadBody
  <2>. QED
    BY <2>1, <2>2, ReturnTells, CallStutters
<1>8. CASE Call!Decode
  <2>1. callPc = "decode" /\ UNCHANGED <<class, fate>>
    BY <1>8 DEF Call!Decode
  <2>2. \E how : Call!Return(how)
    BY <1>8 DEF Call!Decode
  <2>. QED
    BY <2>1, <2>2, ReturnTells
<1>. QED
  BY <1>1, <1>2, <1>3, <1>4, <1>5, <1>6, <1>7, <1>8 DEF Call!Next

\* One call of the client keeps the promise that the sending commands rely on,
\* whatever is answered and for any bounds: what it tells of a message is known.
\* A result was read to its end, and no path leaves a body open
\* (slack/client.go:289-455, slack/transport.go:16-70).
THEOREM CallRefines == AllSpec => CallKeepsPromise
<1>1. AllInit => CallInv
  BY CallInit
<1>2. CallInv /\ [AllNext]_all => CallInv'
  BY CallStep, Components
<1>3. AllInit => Call!Promise!Init
  BY DEF AllInit, Call!Init, Call!Promise!Init, Call!Told
<1>4. CallInv /\ CallInv' /\ [AllNext]_all => [Call!Promise!Next]_(Call!Promise!vars)
  BY CallTells, Components
<1>5. CallInv => Call!AnswerIsWhole /\ Call!BodiesClosed
  BY DEF CallInv, Opened, Known, WholeAnswer, Call!AnswerIsWhole
<1>. QED
  BY <1>1, <1>2, <1>3, <1>4, <1>5, PTL
     DEF AllSpec, CallKeepsPromise, Call!KeepsPromise, Call!Promise!Spec
=============================================================================
