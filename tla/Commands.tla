------------------------------- MODULE Commands -------------------------------
(***************************************************************************)
(* The components that judge what they are given by Slack, by the stores   *)
(* and by the file system: one call of the client (SlackCall), the exact   *)
(* read behind an attachment (AttachmentProof), the sharing of a           *)
(* conversation (TargetSharing), the profile for a workflow                *)
(* (WorkflowResolve) and the download itself (FileDownload).               *)
(*                                                                         *)
(* They share no variable, so that a behaviour of the program is, as far   *)
(* as one of them is concerned, a behaviour of that one: "running" chooses *)
(* it, the others stand still where they start.                            *)
(***************************************************************************)
EXTENDS FileDownload

CONSTANTS MaxWire, MaxBody,            \* as in SlackCall
          MaxTS, MaxDeleted,           \* as in AttachmentProof
          MaxShifts,                   \* MaxChanges of TargetSharing
          MaxNames, MaxGen, MaxEdits   \* as in WorkflowResolve

VARIABLE running   \* "download", "call", "attachment", "sharing" or "resolve"

VARIABLES class, callPc, fate, status, answer, callBody, received, taken, callOutcome
callVars == <<class, callPc, fate, status, answer, callBody, received, taken, callOutcome>>

VARIABLES honest, conversation, stable, deleted,
          proofPc, messageTS, threadTS, pages, cursor, proof
proofVars == <<honest, conversation, stable, deleted,
               proofPc, messageTS, threadTS, pages, cursor, proof>>

VARIABLES shape, ext, org, grid, shifts, inside, apart,
          sharingPc, user, enterprise, flags, foreign, sharingResult, stored
sharingVars == <<shape, ext, org, grid, shifts, inside, apart,
                 sharingPc, user, enterprise, flags, foreign, sharingResult, stored>>

VARIABLES profiles, policies, issued, drawn, edits,
          resolvePc, explicit, listed, todo, eligible, allowed, outcome, verdict, steady
resolveVars == <<profiles, policies, issued, drawn, edits, resolvePc, explicit, listed,
                 todo, eligible, allowed, outcome, verdict, steady>>

Call == INSTANCE SlackCall WITH pc <- callPc, body <- callBody, outcome <- callOutcome
Attachment == INSTANCE AttachmentProof WITH pc <- proofPc
Sharing == INSTANCE TargetSharing
  WITH MaxChanges <- MaxShifts, changes <- shifts, pc <- sharingPc, result <- sharingResult
Resolve == INSTANCE WorkflowResolve WITH pc <- resolvePc

ASSUME InstancesAssumption ==
  /\ Call!BoundsAssumption /\ Attachment!BoundsAssumption
  /\ Sharing!BoundsAssumption /\ Resolve!BoundsAssumption

all == <<running, vars, callVars, proofVars, sharingVars, resolveVars>>

\* The inputs of a component that does not run are fixed.
Given(used, inputs, fixed) == IF running = used THEN inputs ELSE {fixed}

AllInit ==
  /\ running \in {"download", "call", "attachment", "sharing", "resolve"}
  /\ dir \in Given("download", [output : {Nothing, User}, temporaries : {{}}],
                   [output |-> Nothing, temporaries |-> {}])
  /\ body \in Given("download", [Downloads -> Lengths], [d \in Downloads |-> 0])
  /\ class \in Given("call", Call!Classes, "read")
  /\ honest \in Given("attachment", BOOLEAN, FALSE)
  /\ messageTS \in Given("attachment", Attachment!Times, 1)
  /\ threadTS \in Given("attachment", Attachment!Times \cup {Attachment!None}, 1)
  /\ shape \in Given("sharing", Sharing!Shapes, "channel")
  /\ ext \in Given("sharing", BOOLEAN, FALSE)
  /\ org \in Given("sharing", BOOLEAN, FALSE)
  /\ grid \in Given("sharing", BOOLEAN, FALSE)
  /\ user \in Given("sharing", BOOLEAN, FALSE)
  /\ enterprise \in Given("sharing", BOOLEAN, FALSE)
  /\ stored \in Given("sharing", Sharing!Statuses, Sharing!Unclassified)
  /\ explicit \in Given("resolve", Resolve!Names \cup {Resolve!Unnamed}, Resolve!Unnamed)
  /\ Init /\ Call!Init /\ Attachment!Init /\ Sharing!Init /\ Resolve!Init

\* A component runs while the others stand still.
Runs(component, A) == running = component /\ A /\ UNCHANGED running

AllNext ==
  \/ /\ Runs("download", Next)
     /\ UNCHANGED <<callVars, proofVars, sharingVars, resolveVars>>
  \/ /\ Runs("call", Call!Next)
     /\ UNCHANGED <<vars, proofVars, sharingVars, resolveVars>>
  \/ /\ Runs("attachment", Attachment!Next)
     /\ UNCHANGED <<vars, callVars, sharingVars, resolveVars>>
  \/ /\ Runs("sharing", Sharing!Next)
     /\ UNCHANGED <<vars, callVars, proofVars, resolveVars>>
  \/ /\ Runs("resolve", Resolve!Next)
     /\ UNCHANGED <<vars, callVars, proofVars, sharingVars>>

AllSpec == AllInit /\ [][AllNext]_all

-----------------------------------------------------------------------------
(* Properties, beside those of FileDownload *)

\* A call returns what is known of its request
\* (SlackCall; slack/client.go:289-455, slack/transport.go:16-70).
CallKeepsPromise == Call!KeepsPromise

\* The exact read proves the attachment that was named, and no other
\* (AttachmentProof; cli/files.go:94-142).
ProofIsExact == Attachment!ProofIsExact

\* No conversation is taken for quieter than it was
\* (TargetSharing; cli/session.go:44-127).
NeverQuieter == Sharing!NeverQuieter

\* The resolver neither guesses nor refuses without need
\* (WorkflowResolve; cli/workflow.go:52-112).
VerdictIsRight == Resolve!VerdictIsRight
=============================================================================
