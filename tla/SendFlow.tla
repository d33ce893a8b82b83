------------------------------- MODULE SendFlow -------------------------------
(***************************************************************************)
(* One message from the user's approval to the process status: messages    *)
(* send (cli/send.go) and workflow send (cli/workflow.go), the dispatch    *)
(* boundary (writestate), the transport (slack/client.go, transport.go)    *)
(* and what is reported (output, errx, cmd).                               *)
(*                                                                         *)
(* A member of Sends is one process that sends one message.  Several run   *)
(* at once, while the profile is replaced and the policy edited by others. *)
(* Slack applies a request, refuses it or never sees it, at any moment     *)
(* after it was sent, whether or not the sender still listens.             *)
(***************************************************************************)
EXTENDS Naturals, FiniteSets

CONSTANTS Sends,     \* sending processes
          Texts,     \* message texts; recipient and thread are part of the text
          MaxGen,    \* bound on the credential generations of one behaviour
          Nobody

ASSUME SendsAssumption == Nobody \notin Sends
ASSUME BoundsAssumption == MaxGen \in Nat

NoGen == 0
Slots == 0 .. MaxGen
Intents == [gen : Slots, text : Texts]   \* what intent_sha256 is a digest of

VARIABLES
  profile,      \* the registered generation, NoGen when there is none
  issued,       \* generations drawn so far
  profileLock,  \* holder of profiles.json.lock
  policy,       \* the policy set: its generation, and whether it lists the target
  approved      \* the intents the user has approved
world == <<profile, issued, profileLock, policy, approved>>

VARIABLES
  pc,
  op,           \* "send" (messages send) or "workflow" (workflow send)
  text,         \* the text on stdin
  confirm,      \* the intent passed with --confirm-intent or --approved-intent
  gen,          \* the profile read first
  token,        \* the generation of the credential the request carries
  tracker,      \* writestate.Tracker
  hint,         \* whether reconciliation named a candidate
  outcome       \* what the command returned
command == <<op, text, confirm>>
local == <<pc, command, gen, token, tracker, hint, outcome>>

VARIABLES
  request,      \* Slack: what became of the request of each sender
  status,       \* the process status
  marker        \* whether the confirmed-write marker was written to stderr
report == <<status, marker>>

vars == <<world, local, request, report>>

Checking == {"begin", "input", "enroll", "session", "preflight"}   \* before dispatch
PCs == Checking \cup {"idle", "lock", "dispatch", "awaiting", "reconcile",
                      "unlock", "report", "done"}
Running == PCs \ {"idle", "done"}

TypeOK ==
  /\ profile \in Slots /\ issued \in Slots
  /\ profileLock \in Sends \cup {Nobody}
  /\ policy \in [gen : Slots, write : BOOLEAN]
  /\ approved \in SUBSET Intents
  /\ pc \in [Sends -> PCs]
  /\ op \in [Sends -> {"send", "workflow"}]
  /\ text \in [Sends -> Texts]
  /\ confirm \in [Sends -> Intents]
  /\ gen \in [Sends -> Slots]
  /\ token \in [Sends -> Slots]
  /\ tracker \in [Sends -> {"NotStarted", "Started", "Confirmed"}]
  /\ hint \in [Sends -> BOOLEAN]
  /\ outcome \in [Sends -> {"none", "success", "failed", "conflict", "lockerror"}]
  /\ request \in [Sends -> {"none", "flying", "applied", "rejected", "lost"}]
  /\ status \in [Sends -> {"none", "ok", "failed", "conflict"}]
  /\ marker \in [Sends -> BOOLEAN]

\* The inputs of a sender are those of its command line.
Init ==
  /\ profile = NoGen /\ issued = 0
  /\ profileLock = Nobody
  /\ policy = [gen |-> NoGen, write |-> FALSE]
  /\ approved = {}
  /\ pc = [s \in Sends |-> "idle"]
  /\ op \in [Sends -> {"send", "workflow"}]
  /\ text \in [Sends -> Texts]
  /\ confirm = [s \in Sends |-> [gen |-> NoGen, text |-> text[s]]]
  /\ gen = [s \in Sends |-> NoGen]
  /\ token = [s \in Sends |-> NoGen]
  /\ tracker = [s \in Sends |-> "NotStarted"]
  /\ hint = [s \in Sends |-> FALSE]
  /\ outcome = [s \in Sends |-> "none"]
  /\ request = [s \in Sends |-> "none"]
  /\ status = [s \in Sends |-> "none"]
  /\ marker = [s \in Sends |-> FALSE]

Goto(s, stage) == pc' = [pc EXCEPT ![s] = stage]

\* The command returns; a workflow does so through lockfile.With.
Return(s, how) ==
  /\ outcome' = [outcome EXCEPT ![s] = how]
  /\ Goto(s, IF op[s] = "workflow" THEN "unlock" ELSE "report")

\* MarkStarted and MarkConfirmed
Mark(s, state) == tracker' = [tracker EXCEPT ![s] = state]

\* The exit class of an error: exit 9 claims nothing, every other one does.
ExitClass(how) == IF how = "conflict" THEN "conflict" ELSE "failed"

Released(s) == IF profileLock = s THEN Nobody ELSE profileLock

-----------------------------------------------------------------------------
(* The user and the other processes *)

\* Bug: another generation is registered than the one drawn.
LoginOther ==
  /\ profileLock = Nobody
  /\ issued < MaxGen
  /\ issued' = issued + 1
  /\ profile' = issued + 2
  /\ UNCHANGED <<profileLock, policy, approved, local, request, report>>

Login ==
  /\ profileLock = Nobody
  /\ issued < MaxGen
  /\ issued' = issued + 1
  /\ profile' = issued + 1
  /\ UNCHANGED <<profileLock, policy, approved, local, request, report>>

Logout ==
  /\ profileLock = Nobody
  /\ profile # NoGen
  /\ profile' = NoGen
  /\ UNCHANGED <<issued, profileLock, policy, approved, local, request, report>>

\* allow-writes set and clear, and a reset of a stale set, for the profile g that
\* the editing command had read (PolicyRegistry has the steps).
EditPolicy ==
  /\ \E g \in 1 .. issued :
       \/ /\ policy.gen \in {NoGen, g}
          /\ \E w \in BOOLEAN : policy' = [gen |-> g, write |-> w]
       \/ /\ policy.gen \notin {NoGen, g}
          /\ policy' = [gen |-> g, write |-> FALSE]
  /\ UNCHANGED <<profile, issued, profileLock, approved, local, request, report>>

Writable(g) == policy = [gen |-> g, write |-> TRUE]

\* messages send --dry-run, or workflow preview (which needs no policy): the
\* receipt is shown to the user, who approves it.
Approve ==
  /\ profile # NoGen
  /\ \E t \in Texts : approved' = approved \cup {[gen |-> profile, text |-> t]}
  /\ UNCHANGED <<profile, issued, profileLock, policy, local, request, report>>

-----------------------------------------------------------------------------
(* Before the dispatch *)

BeginSend(s) ==
  /\ pc[s] = "idle"
  /\ \E i \in approved : confirm' = [confirm EXCEPT ![s] = i]
  /\ Goto(s, IF op[s] = "workflow" THEN "lock" ELSE "begin")
  /\ UNCHANGED <<world, op, text, gen, token, tracker, hint, outcome, request, report>>

\* Bug: the lock is shared.
AcquireLockShared(s) ==
  /\ pc[s] = "lock"
  /\ profileLock' = s
  /\ Goto(s, "begin")
  /\ UNCHANGED <<profile, issued, policy, approved, command, gen, token, tracker,
                 hint, outcome, request, report>>

\* Profiles.WithLock
AcquireLock(s) ==
  /\ pc[s] = "lock"
  /\ profileLock = Nobody
  /\ profileLock' = s
  /\ Goto(s, "begin")
  /\ UNCHANGED <<profile, issued, policy, approved, command, gen, token, tracker,
                 hint, outcome, request, report>>

\* The context is cancelled, or flock fails.
GiveUpLock(s) ==
  /\ pc[s] = "lock"
  /\ outcome' = [outcome EXCEPT ![s] = "failed"]
  /\ Goto(s, "report")
  /\ UNCHANGED <<world, command, gen, token, tracker, hint, request, report>>

\* The receipt of the profile g is the one that was confirmed.
Receipt(s, g) == confirm[s] = [gen |-> g, text |-> text[s]]

\* Profiles.Get.  A workflow has its text already and confirms the receipt at once;
\* messages send wants the target on file and goes on to read its text.
ReadProfile(s) ==
  /\ pc[s] = "begin"
  /\ profile # NoGen
  /\ gen' = [gen EXCEPT ![s] = profile]
  /\ \/ op[s] = "workflow" /\ Receipt(s, profile) /\ Goto(s, "enroll")
     \/ op[s] = "send" /\ Writable(profile) /\ Goto(s, "input")
  /\ UNCHANGED <<world, command, token, tracker, hint, outcome, request, report>>

\* readMessageText, and the receipt of what was read until stdin ended
ReadText(s) ==
  /\ pc[s] = "input"
  /\ Receipt(s, gen[s])
  /\ Goto(s, "session")
  /\ UNCHANGED <<world, command, gen, token, tracker, hint, outcome, request, report>>

\* enrollWorkflowTarget: the policy transaction is that of PolicyRegistry; it may
\* commit with a durability warning, which ends the command.
Enroll(s) ==
  /\ pc[s] = "enroll"
  /\ policy.gen \in {NoGen, gen[s]}
  /\ policy' = [gen |-> gen[s], write |-> TRUE]
  /\ \/ Goto(s, "session") /\ UNCHANGED outcome
     \/ Return(s, "conflict")
  /\ UNCHANGED <<profile, issued, profileLock, approved, command, gen, token, tracker,
                 hint, request, report>>

\* Bug: the profile is not compared with the receipt again.
LoadSessionAny(s) ==
  /\ pc[s] = "session"
  /\ profile # NoGen
  /\ token' = [token EXCEPT ![s] = profile]
  /\ Goto(s, "preflight")
  /\ UNCHANGED <<world, command, gen, tracker, hint, outcome, request, report>>

\* loadSession reads the profile again; it must be the one of the receipt, and
\* LoadBound yields the credential of that generation.
LoadSession(s) ==
  /\ pc[s] = "session"
  /\ profile # NoGen /\ profile = gen[s]
  /\ token' = [token EXCEPT ![s] = profile]
  /\ Goto(s, "preflight")
  /\ UNCHANGED <<world, command, gen, tracker, hint, outcome, request, report>>

\* auth.test, preflightTarget and preflightThread
Preflight(s) ==
  /\ pc[s] = "preflight"
  /\ Writable(token[s])
  /\ Goto(s, "dispatch")
  /\ UNCHANGED <<world, command, gen, token, tracker, hint, outcome, request, report>>

\* A check fails, Slack refuses a read, or the context is cancelled.
Refuse(s) ==
  /\ pc[s] \in Checking
  /\ \E how \in {"failed", "conflict"} : Return(s, how)
  /\ UNCHANGED <<world, command, gen, token, tracker, hint, request, report>>

-----------------------------------------------------------------------------
(* The dispatch *)

\* MarkStarted, then PostMessage, which may still refuse the message or the token
\* (validatePostOptions, CREDENTIAL_MISSING) or notice a cancelled context
\* (WRITE_NOT_STARTED), and otherwise sends the request.
Dispatch(s) ==
  /\ pc[s] = "dispatch"
  /\ Mark(s, "Started")
  /\ \/ /\ request' = [request EXCEPT ![s] = "flying"]
        /\ Goto(s, "awaiting")
        /\ UNCHANGED outcome
     \/ \E how \in {"failed", "conflict"} : Return(s, how) /\ UNCHANGED request
  /\ UNCHANGED <<world, command, gen, token, hint, report>>

\* What Slack, or the network, makes of the request.
SlackDecides(s) ==
  /\ request[s] = "flying"
  /\ \E fate \in {"applied", "rejected", "lost"} : request' = [request EXCEPT ![s] = fate]
  /\ UNCHANGED <<world, local, report>>

\* An acknowledgement of exactly this message.
Acknowledge(s) ==
  /\ pc[s] = "awaiting"
  /\ request[s] = "applied"
  /\ Mark(s, "Confirmed")
  /\ Return(s, "success")
  /\ UNCHANGED <<world, command, gen, token, hint, request, report>>

\* An error Slack returns only before it commits a message.
LearnRejection(s) ==
  /\ pc[s] = "awaiting"
  /\ request[s] = "rejected"
  /\ Return(s, "failed")
  /\ UNCHANGED <<world, command, gen, token, tracker, hint, request, report>>

\* No answer within the deadline, or one that cannot be relied on: WRITE_OUTCOME_UNKNOWN.
LoseAnswer(s) ==
  /\ pc[s] = "awaiting"
  /\ Goto(s, "reconcile")
  /\ UNCHANGED <<world, command, gen, token, tracker, hint, outcome, request, report>>

\* The messages reconcileMessage may find: same author, same text, whoever sent them.
Candidates(s) == {q \in Sends : request[q] = "applied" /\ text[q] = text[s]}

\* Bug: a matching message is taken for the acknowledgement.
ReconcilePromotes(s) ==
  /\ pc[s] = "reconcile"
  /\ \/ /\ Candidates(s) # {}
        /\ Mark(s, "Confirmed")
        /\ Return(s, "success")
     \/ Return(s, "conflict") /\ UNCHANGED tracker
  /\ UNCHANGED <<world, command, gen, token, hint, request, report>>

\* A unique match only changes the hint; the read sees any part of the candidates.
Reconcile(s) ==
  /\ pc[s] = "reconcile"
  /\ \E found \in SUBSET Candidates(s) : hint' = [hint EXCEPT ![s] = Cardinality(found) = 1]
  /\ Return(s, "conflict")
  /\ UNCHANGED <<world, command, gen, token, tracker, request, report>>

-----------------------------------------------------------------------------
(* Returning through the lock, and the report *)

\* Bug: the lock is not released.
UnlockKept(s) ==
  /\ pc[s] = "unlock"
  /\ Goto(s, "report")
  /\ UNCHANGED <<world, command, gen, token, tracker, hint, outcome, request, report>>

\* The unlock in lockfile.With: its error joins the one of the command, whose
\* type decides; after a success it is the only one.
Unlock(s) ==
  /\ pc[s] = "unlock"
  /\ profileLock' = Nobody
  /\ Goto(s, "report")
  /\ \/ UNCHANGED outcome
     \/ outcome[s] = "success" /\ outcome' = [outcome EXCEPT ![s] = "lockerror"]
  /\ UNCHANGED <<profile, issued, policy, approved, command, gen, token, tracker, hint,
                 request, report>>

\* Run: ConfirmedWriteSuccess or Failure, and the process status.
Report(s) ==
  /\ pc[s] = "report"
  /\ Goto(s, "done")
  /\ \/ /\ outcome[s] = "success"
        /\ \/ status' = [status EXCEPT ![s] = "ok"] /\ UNCHANGED marker
           \/ /\ status' = [status EXCEPT ![s] = "failed"]
              /\ marker' = [marker EXCEPT ![s] = TRUE]
     \/ /\ outcome[s] # "success"
        /\ status' = [status EXCEPT ![s] = ExitClass(outcome[s])]
        /\ UNCHANGED marker
  /\ UNCHANGED <<world, command, gen, token, tracker, hint, outcome, request>>

\* A panic anywhere in the command: recoveredStatus decides by the tracker.
Panic(s) ==
  /\ pc[s] \in Running
  /\ Goto(s, "done")
  /\ profileLock' = Released(s)
  /\ status' = [status EXCEPT ![s] = IF tracker[s] = "Started" THEN "conflict" ELSE "failed"]
  /\ marker' = [marker EXCEPT ![s] = tracker[s] = "Confirmed"]
  /\ UNCHANGED <<profile, issued, policy, approved, command, gen, token, tracker, hint,
                 outcome, request>>

\* The process is killed and reports nothing.
Kill(s) ==
  /\ pc[s] \in Running
  /\ Goto(s, "done")
  /\ profileLock' = Released(s)
  /\ UNCHANGED <<profile, issued, policy, approved, command, gen, token, tracker, hint,
                 outcome, request, report>>

-----------------------------------------------------------------------------
Advance(s) ==
  \/ AcquireLock(s) \/ GiveUpLock(s) \/ ReadProfile(s) \/ ReadText(s) \/ Enroll(s)
  \/ LoadSession(s) \/ Preflight(s) \/ Refuse(s) \/ Dispatch(s)
  \/ Acknowledge(s) \/ LearnRejection(s) \/ LoseAnswer(s) \/ Reconcile(s)
  \/ Unlock(s) \/ Report(s)

Send(s) == BeginSend(s) \/ Advance(s) \/ SlackDecides(s) \/ Panic(s) \/ Kill(s)
Environment == Login \/ Logout \/ EditPolicy \/ Approve

Next == Environment \/ \E s \in Sends : Send(s)

Spec == Init /\ [][Next]_vars

\* A command that runs goes on: every request has a deadline.  A wait for the lock,
\* or for the end of stdin, has none and is not assumed to end.
Waits == {"lock", "input"}
Proceed(s) == pc[s] \notin Waits /\ Advance(s)
FairSpec == Spec /\ \A s \in Sends : WF_vars(Proceed(s))

-----------------------------------------------------------------------------
(* Properties *)

\* What is posted is what the user approved: the text, and the very credential
\* generation of the approved receipt, although the profile is read three times
\* and replaced meanwhile (cli/send.go:102-121, cli/workflow.go:286-309).
Posted(s) ==
  request[s] # "none" => [gen |-> token[s], text |-> text[s]] \in approved
PostsAsApproved == \A s \in Sends : Posted(s)

\* A status is never a lie: "ok" and the marker mean that this very request was
\* applied; any other failure than a conflict means that it was not and never will
\* be, through panics, lost answers and other clients posting the same text
\* (docs/contract.md:107-127).  A failed unlock is the exception that
\* WorkflowReportIsHonest is about.
Claims(s, outcomes) ==
  /\ status[s] = "ok" \/ marker[s] => request[s] = "applied"
  /\ status[s] = "failed" /\ ~marker[s] /\ outcome[s] \in outcomes
       => request[s] \notin {"flying", "applied"}
ReportIsHonest ==
  \A s \in Sends : Claims(s, {"none", "success", "failed", "conflict"})

\* A workflow send returns the same applied result as messages send, so its report
\* is as honest (docs/contract.md:191).
WorkflowReportIsHonest ==
  \A s \in Sends : Claims(s, {"none", "success", "failed", "conflict", "lockerror"})

\* From its first read of the profile until Slack has answered and reconciliation
\* is over, a workflow send holds the profile lock, so it posts as the registered
\* profile and no login slips in (docs/contract.md:188).
Holds(s) ==
  op[s] = "workflow" /\ pc[s] \in {"enroll", "session", "preflight", "dispatch",
                                    "awaiting", "reconcile"}
    => profile = gen[s]
LockCoversSend == \A s \in Sends : Holds(s)

\* Every command that has its lock, or its text, ends, whatever becomes of its
\* request, and does not keep the profile lock (cli/send.go:152-169,
\* lockfile/lockfile_unix.go:54-62).
UnderWay(s) == pc[s] \in Running \ Waits /\ (pc[s] = "begin" => op[s] = "workflow")
EverySendEnds ==
  \A s \in Sends : UnderWay(s) ~> pc[s] = "done" /\ profileLock # s
=============================================================================
