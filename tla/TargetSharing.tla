----------------------------- MODULE TargetSharing -----------------------------
(***************************************************************************)
(* Before content is read or sent, the sharing of the conversation is      *)
(* classified from what Slack says of it (cli/session.go, slack/models.go) *)
(* and compared with the status its policy was set for.  Slack may leave   *)
(* out flags; for a direct chat the other participant and the identity of  *)
(* the token then have to make up for them.  The three reads are separate, *)
(* and the workspace may change between them.                              *)
(***************************************************************************)
EXTENDS Naturals

CONSTANT MaxChanges   \* bound on the changes of sharing

BoundsAssumption == MaxChanges \in Nat

Shapes == {"channel", "group", "direct", "contradictory"}
Flags == {"yes", "no", "missing"}
Statuses == [shared : BOOLEAN, ext : BOOLEAN, org : BOOLEAN]
Unclassified == [shared |-> FALSE, ext |-> FALSE, org |-> FALSE]

VARIABLES
  shape,    \* of the conversation; "contradictory" has flags of two shapes
  ext,      \* Slack: somebody of another workspace is in it
  org,      \* Slack: it is shared within an organization
  grid,     \* Slack: the identity of the token has an enterprise
  changes,  \* changes of these so far
  inside,   \* at some moment since the command began it was not ext
  apart     \* at some moment it was not org
slack == <<shape, ext, org, grid, changes, inside, apart>>

VARIABLES
  pc,
  user,      \* the profile has a user token
  enterprise,\* the profile was stored with an enterprise
  flags,     \* is_shared, is_ext_shared and is_org_shared as they were answered
  foreign,   \* whether the participant is of another team, or a stranger
  result,    \* the classification
  stored     \* the status in the policy
command == <<pc, user, enterprise, flags, foreign, result, stored>>

vars == <<slack, command>>

TypeOK ==
  /\ shape \in Shapes /\ ext \in BOOLEAN /\ org \in BOOLEAN /\ grid \in BOOLEAN
  /\ changes \in 0 .. MaxChanges /\ inside \in BOOLEAN /\ apart \in BOOLEAN
  /\ pc \in {"info", "participant", "identity", "require", "accepted", "refused"}
  /\ user \in BOOLEAN /\ enterprise \in BOOLEAN
  /\ flags \in [shared : Flags, ext : Flags, org : Flags]
  /\ foreign \in BOOLEAN
  /\ result \in Statuses /\ stored \in Statuses

\* Only an enterprise shares within an organization.
Init ==
  /\ shape \in Shapes /\ ext \in BOOLEAN /\ org \in BOOLEAN /\ grid \in BOOLEAN
  /\ org => grid
  /\ changes = 0 /\ inside = ~ext /\ apart = ~org
  /\ pc = "info"
  /\ user \in BOOLEAN /\ enterprise \in BOOLEAN
  /\ flags = [shared |-> "missing", ext |-> "missing", org |-> "missing"]
  /\ foreign = FALSE /\ result = Unclassified
  /\ stored \in Statuses

Yes(flag) == flag = "yes"

-----------------------------------------------------------------------------
(* Slack *)

Change ==
  /\ changes < MaxChanges
  /\ changes' = changes + 1
  /\ ext' \in BOOLEAN /\ org' \in BOOLEAN /\ grid' \in BOOLEAN
  /\ org' => grid'
  /\ inside' = (inside \/ ~ext') /\ apart' = (apart \/ ~org')
  /\ UNCHANGED <<shape, command>>

\* A flag is right or missing.
Answer(truth) == {IF truth THEN "yes" ELSE "no", "missing"}

-----------------------------------------------------------------------------
(* The classification *)

Refuse ==
  /\ pc' = "refused"
  /\ UNCHANGED <<slack, user, enterprise, flags, foreign, result, stored>>

Classified(status) ==
  /\ result' = status /\ pc' = "require"
  /\ UNCHANGED <<slack, user, enterprise, stored>>

\* Any read may fail, or name another conversation, participant or identity.
Fail == pc \in {"info", "participant", "identity"} /\ Refuse

\* ClassifyShared
Complete(f) == \A name \in DOMAIN f : f[name] # "missing"

\* conversations.info; channels and group chats need all three flags.
ReadConversation ==
  /\ pc = "info"
  /\ flags' \in [shared : Answer(ext \/ org), ext : Answer(ext), org : Answer(org)]
  /\ IF shape = "contradictory" \/ (shape # "direct" /\ ~Complete(flags'))
     THEN pc' = "refused" /\ UNCHANGED <<slack, user, enterprise, foreign, result, stored>>
     ELSE IF shape = "direct"
     THEN pc' = "participant" /\ UNCHANGED <<slack, user, enterprise, foreign, result, stored>>
     ELSE /\ Classified([shared |-> Yes(flags'.shared), ext |-> Yes(flags'.ext),
                         org |-> Yes(flags'.org)])
          /\ UNCHANGED foreign

\* What is known of a direct chat once the participant is known
Direct(isForeign) ==
  LET external == Yes(flags.ext) \/ isForeign
  IN [shared |-> Yes(flags.shared) \/ external \/ Yes(flags.org),
      ext |-> external, org |-> Yes(flags.org)]

\* Bug: the identity is asked only if no flag is there.
SettledByAny(isForeign) ==
  \/ \E name \in DOMAIN flags : flags[name] # "missing"
  \/ isForeign

\* Nothing is left to be asked.
Settled(isForeign) ==
  flags.org # "missing" \/ Yes(flags.shared) \/ Yes(flags.ext) \/ isForeign

\* users.info: somebody of another workspace is of another team or a stranger;
\* a colleague of the same organization may be of another team as well.
ReadParticipant ==
  /\ pc = "participant"
  /\ foreign' \in BOOLEAN
  /\ ext => foreign'
  /\ foreign' => ext \/ org
  /\ IF Settled(foreign') THEN Classified(Direct(foreign')) /\ UNCHANGED flags
     ELSE IF ~user \/ enterprise THEN pc' = "refused" /\
            UNCHANGED <<slack, user, enterprise, flags, result, stored>>
     ELSE pc' = "identity" /\ UNCHANGED <<slack, user, enterprise, flags, result, stored>>

\* auth.test must show the stored identity, with no enterprise.
ReadIdentity ==
  /\ pc = "identity"
  /\ IF grid THEN Refuse
     ELSE Classified(Direct(foreign)) /\ UNCHANGED <<flags, foreign>>

\* Require: exactly the status the policy was set for
Require ==
  /\ pc = "require"
  /\ pc' = IF stored = result THEN "accepted" ELSE "refused"
  /\ UNCHANGED <<slack, user, enterprise, flags, foreign, result, stored>>

Next == Change \/ Fail \/ ReadConversation \/ ReadParticipant \/ ReadIdentity \/ Require

Spec == Init /\ [][Next]_vars

-----------------------------------------------------------------------------
(* Properties *)

\* A conversation is read or sent to as one without outsiders only if it had
\* none at some moment since the command began, and as one that is not shared
\* only if it was free of either kind of sharing at some moment: no flag that
\* Slack leaves out is taken for a no.
NeverQuieter ==
  pc = "accepted" =>
    /\ ~stored.ext => inside
    /\ ~stored.shared => inside /\ apart
=============================================================================
