---------------------------- MODULE WorkflowResolve ----------------------------
(***************************************************************************)
(* workflow resolve (cli/workflow.go) selects the profile for an exact     *)
(* target: it lists the profiles, then reads the policy of each candidate  *)
(* twice, once for its binding and once for the target.  None of these     *)
(* reads is under a lock, and logins, logouts and policy edits go on       *)
(* between them.                                                           *)
(*                                                                         *)
(* A profile is its credential generation and whether it fits the request: *)
(* workspace, capability, token kind and thread support together.  A       *)
(* policy is the generation it is bound to and whether it lists the target.*)
(***************************************************************************)
EXTENDS Naturals, FiniteSets

CONSTANTS MaxNames,   \* profile names are 1 .. MaxNames, in their sorted order
          MaxGen,     \* bound on the logins of one behaviour
          MaxEdits    \* bound on logouts and policy edits

BoundsAssumption == MaxNames \in Nat /\ MaxGen \in Nat /\ MaxEdits \in Nat

Names == 1 .. MaxNames
Unnamed == 0            \* no --profile
Slots == 0 .. MaxGen
Absent == [gen |-> 0, fits |-> FALSE]
NoPolicy == [gen |-> 0, lists |-> FALSE]

VARIABLES
  profiles,   \* profiles.json
  policies,   \* policies.json
  issued,     \* generations drawn
  drawn,      \* history: those that each name has had
  edits       \* logouts and edits so far
world == <<profiles, policies, issued, drawn, edits>>

VARIABLES
  pc,
  explicit,   \* --profile, or Unnamed
  listed,     \* the candidates as they were read
  todo,       \* candidates still to be looked at
  eligible,   \* candidates whose policy is bound to them
  allowed,    \* those of them whose policy lists the target
  outcome,    \* the selected name, or Unnamed with a verdict
  verdict,
  steady      \* names with an unchanged profile and policy since the start
resolver == <<pc, explicit, listed, todo, eligible, allowed, outcome, verdict, steady>>

vars == <<world, resolver>>

TypeOK ==
  /\ profiles \in [Names -> [gen : Slots, fits : BOOLEAN]]
  /\ policies \in [Names -> [gen : Slots, lists : BOOLEAN]]
  /\ issued \in Slots /\ edits \in 0 .. MaxEdits
  /\ drawn \in [Names -> SUBSET (1 .. issued)]
  /\ pc \in {"start", "get", "bind", "target", "done"}
  /\ explicit \in Names \cup {Unnamed}
  /\ listed \in [Names -> [gen : Slots, fits : BOOLEAN]]
  /\ todo \in SUBSET Names
  /\ allowed \in SUBSET eligible /\ eligible \in SUBSET Names
  /\ outcome \in Names \cup {Unnamed}
  /\ verdict \in {"none", "selected", "nobody", "ambiguous", "refused", "failed"}
  /\ steady \in SUBSET Names

Init ==
  /\ profiles = [n \in Names |-> Absent]
  /\ policies = [n \in Names |-> NoPolicy]
  /\ issued = 0 /\ edits = 0
  /\ drawn = [n \in Names |-> {}]
  /\ pc = "start" /\ explicit \in Names \cup {Unnamed}
  /\ listed = profiles
  /\ todo = {} /\ eligible = {} /\ allowed = {}
  /\ outcome = Unnamed /\ verdict = "none"
  /\ steady = Names

Bound(set, profile) == set.gen = profile.gen

-----------------------------------------------------------------------------
(* The other commands *)

Touch(n) ==
  /\ steady' = steady \ {n}
  /\ UNCHANGED <<pc, explicit, listed, todo, eligible, allowed, outcome, verdict>>

Login(n) ==
  /\ issued < MaxGen
  /\ issued' = issued + 1
  /\ drawn' = [drawn EXCEPT ![n] = @ \cup {issued'}]
  /\ \E fits \in BOOLEAN :
       profiles' = [profiles EXCEPT ![n] = [gen |-> issued', fits |-> fits]]
  /\ Touch(n)
  /\ UNCHANGED <<policies, edits>>

\* The policy set stays.
Logout(n) ==
  /\ profiles[n] # Absent /\ edits < MaxEdits
  /\ edits' = edits + 1
  /\ profiles' = [profiles EXCEPT ![n] = Absent]
  /\ Touch(n)
  /\ UNCHANGED <<policies, issued, drawn>>

\* A policy command binds the set to the profile it has read before its lock,
\* which a login or a logout may have taken away since.
EditPolicy(n) ==
  /\ edits < MaxEdits
  /\ edits' = edits + 1
  /\ \E g \in drawn[n], lists \in BOOLEAN :
       policies' = [policies EXCEPT ![n] = [gen |-> g, lists |-> lists]]
  /\ Touch(n)
  /\ UNCHANGED <<profiles, issued, drawn>>

-----------------------------------------------------------------------------
(* The resolver *)

Finish(how, n) ==
  /\ verdict' = how /\ outcome' = n /\ pc' = "done"
  /\ UNCHANGED <<world, explicit, listed, todo, eligible, allowed, steady>>

\* The candidates are the profiles that fit, in the order of their names.
Candidates(list) == {n \in Names : list[n] # Absent /\ list[n].fits}

\* A command that starts, and its Profiles.List
List ==
  /\ pc = "start"
  /\ steady' = Names
  /\ listed' = profiles
  /\ IF explicit # Unnamed THEN pc' = "get" /\ UNCHANGED todo
     ELSE pc' = "bind" /\ todo' = Candidates(profiles)
  /\ UNCHANGED <<world, explicit, eligible, allowed, outcome, verdict>>

\* Profiles.Get of an explicit name, which must exist and fit
Get ==
  /\ pc = "get"
  /\ IF profiles[explicit] = Absent \/ ~profiles[explicit].fits
     THEN Finish("refused", Unnamed)
     ELSE /\ listed' = [listed EXCEPT ![explicit] = profiles[explicit]]
          /\ todo' = {explicit} /\ pc' = "bind"
          /\ UNCHANGED <<world, explicit, eligible, allowed, outcome, verdict, steady>>

First == CHOOSE n \in todo : \A m \in todo : n <= m

\* A profile that no policy is bound to is eligible, a retired binding is not.
\* For an explicit profile a retired binding is an error.
Bind ==
  /\ pc = "bind" /\ todo # {}
  /\ IF policies[First] = NoPolicy \/ Bound(policies[First], listed[First])
     THEN /\ eligible' = eligible \cup {First} /\ pc' = "target"
          /\ UNCHANGED <<world, explicit, listed, todo, allowed, outcome, verdict, steady>>
     ELSE IF explicit # Unnamed THEN Finish("failed", Unnamed)
     ELSE /\ todo' = todo \ {First}
          /\ UNCHANGED <<world, pc, explicit, listed, eligible, allowed>>
          /\ UNCHANGED <<outcome, verdict, steady>>

\* Policies.Target reads the file again; a binding that is retired by now is an
\* error.
Target ==
  /\ pc = "target"
  /\ IF policies[First] # NoPolicy /\ ~Bound(policies[First], listed[First])
     THEN Finish("failed", Unnamed)
     ELSE /\ allowed' = IF policies[First].lists THEN allowed \cup {First} ELSE allowed
          /\ todo' = todo \ {First} /\ pc' = "bind"
          /\ UNCHANGED <<world, explicit, listed, eligible, outcome, verdict, steady>>

\* Bug: the first of several is taken.
SelectFirst ==
  /\ pc = "bind" /\ todo = {}
  /\ LET found == IF allowed # {} THEN allowed ELSE eligible
     IN IF found = {} THEN Finish("nobody", Unnamed)
        ELSE Finish("selected", CHOOSE n \in found : \A m \in found : n <= m)

\* One allowed profile, or else one eligible one
Select ==
  /\ pc = "bind" /\ todo = {}
  /\ LET found == IF allowed # {} THEN allowed ELSE eligible
     IN IF found = {} THEN Finish("nobody", Unnamed)
        ELSE IF Cardinality(found) > 1 THEN Finish("ambiguous", Unnamed)
        ELSE \E n \in found : Finish("selected", n)

\* A store cannot be read.
Fail == pc # "done" /\ Finish("failed", Unnamed)

Next ==
  \/ \E n \in Names : Login(n) \/ Logout(n) \/ EditPolicy(n)
  \/ List \/ Get \/ Bind \/ Target \/ Select \/ Fail

Spec == Init /\ [][Next]_vars

-----------------------------------------------------------------------------
(* Properties *)

\* What a name is at this instant, in one look at both stores
Eligible == {n \in Candidates(profiles) :
               policies[n] = NoPolicy \/ Bound(policies[n], profiles[n])}
Allowed == {n \in Eligible : policies[n].lists}

\* The resolver never guesses among several: no profile other than the selected
\* one was allowed all the time, and none other eligible all the time if the
\* selected one was not allowed.
NeverGuesses ==
  verdict = "selected" =>
    IF explicit # Unnamed THEN outcome = explicit
    ELSE /\ Allowed \cap steady \subseteq {outcome}
         /\ outcome \in steady \ Allowed => Eligible \cap steady = {outcome}

\* It refuses nothing that it need not refuse: when nothing changed meanwhile,
\* its verdict is that of one look at both stores.
OneLook ==
  steady = Names /\ explicit = Unnamed =>
    LET found == IF Allowed # {} THEN Allowed ELSE Eligible
    IN /\ verdict = "selected" => found = {outcome}
       /\ verdict = "nobody" => found = {}
       /\ verdict = "ambiguous" => Cardinality(found) > 1

\* Without a lock over its reads the resolver neither guesses nor refuses what
\* one look would grant (cli/workflow.go:78-112).
VerdictIsRight == NeverGuesses /\ OneLook
=============================================================================
