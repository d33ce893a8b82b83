--------------------------- MODULE SendFlowProofs ---------------------------
(***************************************************************************)
(* Proofs about sending, for any number of senders, texts and generations. *)
(*                                                                         *)
(* ReportIsHonest speaks of senders that have ended; it follows from what  *)
(* each stage before the end knows: the tracker is never ahead of the      *)
(* request or behind it, and the outcome the command returned fits the     *)
(* request (Tracked, Judged).  The same invariant shows that a sender      *)
(* never turns what the client told it into something else.  The approval  *)
(* and the lock are carried from stage to stage in the same way            *)
(* (Confirmed, Covered).                                                   *)
(***************************************************************************)
EXTENDS SendPromise, TLAPS

\* The tracker: nothing was sent before Started, Slack has confirmed the message
\* at Confirmed.
Tracked(s) ==
  /\ tracker[s] = "NotStarted" => request[s] = "none"
  /\ tracker[s] = "Confirmed" => request[s] = "applied"
  /\ pc[s] \in Checking \cup {"idle", "lock", "dispatch"} => tracker[s] = "NotStarted"
  /\ pc[s] \in {"awaiting", "reconcile"} => tracker[s] = "Started" /\ request[s] # "none"

\* What the command returned, between its end and the report.
Judged(s) ==
  /\ outcome[s] \in {"success", "lockerror"} => request[s] = "applied"
  /\ outcome[s] = "failed" => request[s] \in {"none", "rejected"}
  /\ pc[s] \in {"unlock", "report"} => outcome[s] # "none"
  /\ pc[s] \notin {"unlock", "report", "done"} => outcome[s] = "none"
  /\ pc[s] # "done" => status[s] = "none" /\ ~marker[s]

Honest ==
  /\ TypeOK
  /\ \A s \in Sends : Tracked(s) /\ Judged(s)
  /\ ReportIsHonest

\* The receipt of the profile read first is one the user has approved, and the
\* credential belongs to that profile.
Confirmed(s) ==
  /\ pc[s] \in {"lock", "begin", "input"} => confirm[s] \in approved
  /\ pc[s] \in {"enroll", "session", "preflight", "dispatch"} =>
       [gen |-> gen[s], text |-> text[s]] \in approved
  /\ pc[s] \in {"preflight", "dispatch"} => token[s] = gen[s]
  /\ pc[s] = "idle" => request[s] = "none"

Approved ==
  /\ TypeOK
  /\ \A s \in Sends : Confirmed(s)
  /\ PostsAsApproved

\* A workflow between its lock and its unlock is the holder of the profile lock.
Inside == {"begin", "enroll", "session", "preflight", "dispatch", "awaiting",
           "reconcile", "unlock"}
Covered(s) ==
  /\ op[s] = "workflow" /\ pc[s] \in Inside => profileLock = s
  /\ pc[s] = "unlock" => op[s] = "workflow"
  /\ pc[s] = "input" => op[s] = "send"

Locked ==
  /\ TypeOK
  /\ \A s \in Sends : Covered(s)
  /\ LockCoversSend

-----------------------------------------------------------------------------
(* Type correctness *)

\* No step changes the type of a variable.
LEMMA TypeStep == TypeOK /\ [Next]_vars => TypeOK'
  <1> SUFFICES ASSUME TypeOK, [Next]_vars
               PROVE  TypeOK'
    OBVIOUS
  <1> USE DEF TypeOK, Goto, Return, Released, PCs, Checking, Slots, NoGen, Intents,
              world, local, command, report
  <1>1. CASE Login
    BY <1>1, BoundsAssumption DEF Login
  <1>2. CASE Logout
    BY <1>2, BoundsAssumption DEF Logout
  <1>3. CASE EditPolicy
    <2>1. PICK g \in 1 .. issued, w \in BOOLEAN : policy' = [gen |-> g, write |-> w]
      BY <1>3 DEF EditPolicy
    <2>2. policy' \in [gen : Slots, write : BOOLEAN]
      BY <2>1, BoundsAssumption
    <2>3. QED
      BY <1>3, <2>2 DEF EditPolicy
  <1>4. CASE Approve
    BY <1>4 DEF Approve
  <1>5. ASSUME NEW s \in Sends, BeginSend(s)
        PROVE  TypeOK'
    BY <1>5 DEF BeginSend
  <1>6. ASSUME NEW s \in Sends, AcquireLock(s)
        PROVE  TypeOK'
    BY <1>6 DEF AcquireLock
  <1>7. ASSUME NEW s \in Sends, GiveUpLock(s)
        PROVE  TypeOK'
    BY <1>7 DEF GiveUpLock
  <1>8. ASSUME NEW s \in Sends, ReadProfile(s) \/ ReadText(s)
        PROVE  TypeOK'
    <2>1. gen' \in [Sends -> Slots]
      BY <1>8 DEF ReadProfile, ReadText
    <2>2. pc' \in [Sends -> PCs]
      BY <1>8 DEF ReadProfile, ReadText
    <2>3. QED
      BY <1>8, <2>1, <2>2 DEF ReadProfile, ReadText
  <1>9. ASSUME NEW s \in Sends, Enroll(s)
        PROVE  TypeOK'
    BY <1>9 DEF Enroll
  <1>10. ASSUME NEW s \in Sends, LoadSession(s) \/ Preflight(s)
         PROVE  TypeOK'
    <2>1. CASE LoadSession(s)
      BY <2>1 DEF LoadSession
    <2>2. CASE Preflight(s)
      BY <2>2 DEF Preflight
    <2>3. QED
      BY <1>10, <2>1, <2>2
  <1>11. ASSUME NEW s \in Sends, Refuse(s)
         PROVE  TypeOK'
    BY <1>11 DEF Refuse
  <1>12. ASSUME NEW s \in Sends, Dispatch(s)
         PROVE  TypeOK'
    <2>1. /\ pc' \in [Sends -> PCs]
          /\ request' \in [Sends -> {"none", "flying", "applied", "rejected", "lost"}]
      BY <1>12 DEF Dispatch
    <2>2. outcome' \in [Sends -> {"none", "success", "failed", "conflict", "lockerror"}]
      BY <1>12 DEF Dispatch
    <2>3. QED
      BY <1>12, <2>1, <2>2 DEF Dispatch, Mark
  <1>13. ASSUME NEW s \in Sends, SlackDecides(s)
         PROVE  TypeOK'
    BY <1>13 DEF SlackDecides
  <1>14. ASSUME NEW s \in Sends, Acknowledge(s) \/ LearnRejection(s) \/ LoseAnswer(s)
         PROVE  TypeOK'
    BY <1>14 DEF Acknowledge, Mark, LearnRejection, LoseAnswer
  <1>15. ASSUME NEW s \in Sends, Reconcile(s)
         PROVE  TypeOK'
    BY <1>15 DEF Reconcile
  <1>16. ASSUME NEW s \in Sends, Unlock(s)
         PROVE  TypeOK'
    BY <1>16 DEF Unlock
  <1>17. ASSUME NEW s \in Sends, Report(s)
         PROVE  TypeOK'
    BY <1>17 DEF Report, ExitClass
  <1>18. ASSUME NEW s \in Sends, Panic(s) \/ Kill(s)
         PROVE  TypeOK'
    <2>1. CASE Panic(s)
      <3>1. (tracker[s] = "Confirmed") \in BOOLEAN
        OBVIOUS
      <3>2. marker' \in [Sends -> BOOLEAN]
        BY <2>1, <3>1, Zenon DEF Panic
      <3>3. QED
        BY <2>1, <3>2 DEF Panic
    <2>2. CASE Kill(s)
      BY <2>2 DEF Kill
    <2>3. QED
      BY <1>18, <2>1, <2>2
  <1>19. CASE UNCHANGED vars
    BY <1>19 DEF vars
  <1> QED
    BY <1>1, <1>2, <1>3, <1>4, <1>5, <1>6, <1>7, <1>8, <1>9, <1>10, <1>11, <1>12,
       <1>13, <1>14, <1>15, <1>16, <1>17, <1>18, <1>19
       DEF Next, Environment, Send, Advance

\* The initial state is well-typed.
LEMMA TypeInit == Init => TypeOK
  BY BoundsAssumption DEF Init, TypeOK, PCs, Checking, Slots, NoGen, Intents

\* TypeOK holds in every state (all of cli/send.go and cli/workflow.go:252-312).
THEOREM TypeCorrect == Spec => []TypeOK
  BY TypeInit, TypeStep, PTL DEF Spec
-----------------------------------------------------------------------------
(* The report is honest *)

\* No step of the command makes a report dishonest.
LEMMA HonestStep == Honest /\ [Next]_vars => Honest'
  <1> SUFFICES ASSUME Honest, [Next]_vars
               PROVE  Honest'
    OBVIOUS
  <1>1. TypeOK /\ TypeOK'
    BY TypeStep DEF Honest
  <1>2. SUFFICES ASSUME NEW q \in Sends
                 PROVE  /\ Tracked(q)' /\ Judged(q)'
                        /\ Claims(q, {"none", "success", "failed", "conflict"})'
    BY <1>1 DEF Honest, ReportIsHonest
  <1>3. Tracked(q) /\ Judged(q) /\ Claims(q, {"none", "success", "failed", "conflict"})
    BY DEF Honest, ReportIsHonest
  <1> USE <1>1, <1>3 DEF TypeOK, Tracked, Judged, Claims, Goto, Return, Checking,
                         world, local, command, report
  <1>4. CASE Environment
    BY <1>4 DEF Environment, Login, Logout, EditPolicy, Approve
  <1>5. ASSUME NEW s \in Sends, BeginSend(s)
       PROVE  /\ Tracked(q)' /\ Judged(q)'
              /\ Claims(q, {"none", "success", "failed", "conflict"})'
    BY <1>5 DEF BeginSend
  <1>6. ASSUME NEW s \in Sends, AcquireLock(s)
       PROVE  /\ Tracked(q)' /\ Judged(q)'
              /\ Claims(q, {"none", "success", "failed", "conflict"})'
    BY <1>6 DEF AcquireLock
  <1>7. ASSUME NEW s \in Sends, GiveUpLock(s)
       PROVE  /\ Tracked(q)' /\ Judged(q)'
              /\ Claims(q, {"none", "success", "failed", "conflict"})'
    BY <1>7 DEF GiveUpLock
  <1>8. ASSUME NEW s \in Sends, ReadProfile(s) \/ ReadText(s)
       PROVE  /\ Tracked(q)' /\ Judged(q)'
              /\ Claims(q, {"none", "success", "failed", "conflict"})'
    BY <1>8 DEF ReadProfile, ReadText
  <1>9. ASSUME NEW s \in Sends, Enroll(s)
       PROVE  /\ Tracked(q)' /\ Judged(q)'
              /\ Claims(q, {"none", "success", "failed", "conflict"})'
    BY <1>9 DEF Enroll
  <1>10. ASSUME NEW s \in Sends, LoadSession(s)
        PROVE  /\ Tracked(q)' /\ Judged(q)'
               /\ Claims(q, {"none", "success", "failed", "conflict"})'
    BY <1>10 DEF LoadSession
  <1>11. ASSUME NEW s \in Sends, Preflight(s)
        PROVE  /\ Tracked(q)' /\ Judged(q)'
               /\ Claims(q, {"none", "success", "failed", "conflict"})'
    BY <1>11 DEF Preflight
  <1>12. ASSUME NEW s \in Sends, Refuse(s)
        PROVE  /\ Tracked(q)' /\ Judged(q)'
               /\ Claims(q, {"none", "success", "failed", "conflict"})'
    BY <1>12 DEF Refuse
  <1>13. ASSUME NEW s \in Sends, Dispatch(s)
        PROVE  /\ Tracked(q)' /\ Judged(q)'
               /\ Claims(q, {"none", "success", "failed", "conflict"})'
    BY <1>13 DEF Dispatch, Mark
  <1>14. ASSUME NEW s \in Sends, SlackDecides(s)
        PROVE  /\ Tracked(q)' /\ Judged(q)'
               /\ Claims(q, {"none", "success", "failed", "conflict"})'
    BY <1>14 DEF SlackDecides
  <1>15. ASSUME NEW s \in Sends, Acknowledge(s)
        PROVE  /\ Tracked(q)' /\ Judged(q)'
               /\ Claims(q, {"none", "success", "failed", "conflict"})'
    BY <1>15 DEF Acknowledge, Mark
  <1>16. ASSUME NEW s \in Sends, LearnRejection(s)
        PROVE  /\ Tracked(q)' /\ Judged(q)'
               /\ Claims(q, {"none", "success", "failed", "conflict"})'
    BY <1>16 DEF LearnRejection
  <1>17. ASSUME NEW s \in Sends, LoseAnswer(s)
        PROVE  /\ Tracked(q)' /\ Judged(q)'
               /\ Claims(q, {"none", "success", "failed", "conflict"})'
    BY <1>17 DEF LoseAnswer
  <1>18. ASSUME NEW s \in Sends, Reconcile(s)
        PROVE  /\ Tracked(q)' /\ Judged(q)'
               /\ Claims(q, {"none", "success", "failed", "conflict"})'
    BY <1>18 DEF Reconcile
  <1>19. ASSUME NEW s \in Sends, Unlock(s)
        PROVE  /\ Tracked(q)' /\ Judged(q)'
               /\ Claims(q, {"none", "success", "failed", "conflict"})'
    BY <1>19 DEF Unlock
  <1>20. ASSUME NEW s \in Sends, Report(s)
        PROVE  /\ Tracked(q)' /\ Judged(q)'
               /\ Claims(q, {"none", "success", "failed", "conflict"})'
    BY <1>20 DEF Report, ExitClass
  <1>21. ASSUME NEW s \in Sends, Panic(s)
        PROVE  /\ Tracked(q)' /\ Judged(q)'
               /\ Claims(q, {"none", "success", "failed", "conflict"})'
    <2>1. CASE q # s
      BY <1>21, <2>1 DEF Panic
    <2>2. CASE q = s
      <3>1. /\ marker'[s] = (tracker[s] = "Confirmed")
            /\ tracker' = tracker /\ request' = request /\ outcome' = outcome
            /\ pc'[s] = "done"
            /\ status'[s] = IF tracker[s] = "Started" THEN "conflict" ELSE "failed"
        BY <1>21 DEF Panic
      <3>2. tracker[s] = "Confirmed" => request'[s] = "applied"
        BY <2>2, <3>1
      <3>3. tracker[s] = "NotStarted" => request'[s] = "none"
        BY <2>2, <3>1
      <3>4. tracker[s] = "Confirmed" \/ ~marker'[s]
        BY <3>1, Zenon
      <3>5. CASE tracker[s] = "Confirmed"
        <4>1. marker'[s]
          BY <3>1, <3>5
        <4>2. QED
          BY <2>2, <3>1, <3>2, <3>5, <4>1
      <3>6. CASE tracker[s] = "NotStarted"
        BY <2>2, <3>1, <3>3, <3>4, <3>6
      <3>7. CASE tracker[s] = "Started"
        BY <2>2, <3>1, <3>4, <3>7
      <3>8. QED
        BY <3>5, <3>6, <3>7
    <2>3. QED
      BY <2>1, <2>2
  <1>22. ASSUME NEW s \in Sends, Kill(s)
        PROVE  /\ Tracked(q)' /\ Judged(q)'
               /\ Claims(q, {"none", "success", "failed", "conflict"})'
    BY <1>22 DEF Kill
  <1>23. CASE UNCHANGED vars
    BY <1>23 DEF vars
  <1> QED
    BY <1>4, <1>5, <1>6, <1>7, <1>8, <1>9, <1>10, <1>11, <1>12, <1>13,
       <1>14, <1>15, <1>16, <1>17, <1>18, <1>19, <1>20, <1>21, <1>22, <1>23
       DEF Next, Send, Advance

\* Nothing is claimed in the initial state.
LEMMA HonestInit == Init => Honest
  BY TypeInit DEF Init, Honest, Tracked, Judged, ReportIsHonest, Claims, Checking

\* A status never misreports the fate of the request (cli/send.go:94-169,
\* cmd/slack-agent-cli/main.go:17-45), the unlock error of a workflow aside.
THEOREM HonestReports == Spec => []ReportIsHonest
  <1>1. Honest => ReportIsHonest
    BY DEF Honest
  <1>2. QED
    BY <1>1, HonestInit, HonestStep, PTL DEF Spec
-----------------------------------------------------------------------------
(* What is posted was approved *)

\* No step loses an approval, or a sender's hold on it.
LEMMA ApprovedStep == Approved /\ [Next]_vars => Approved'
  <1> SUFFICES ASSUME Approved, [Next]_vars
               PROVE  Approved'
    OBVIOUS
  <1>1. TypeOK /\ TypeOK'
    BY TypeStep DEF Approved
  <1>2. SUFFICES ASSUME NEW q \in Sends
                 PROVE  Confirmed(q)' /\ Posted(q)'
    BY <1>1 DEF Approved, PostsAsApproved
  <1>3. Confirmed(q) /\ Posted(q)
    BY DEF Approved, PostsAsApproved
  <1> USE <1>1, <1>3 DEF TypeOK, Confirmed, Posted, Intents, Goto, Return, Released,
              world, local, command, report
  <1>4. CASE Login
    BY <1>4 DEF Login
  <1>5. CASE Logout
    BY <1>5 DEF Logout
  <1>6. CASE EditPolicy
    BY <1>6 DEF EditPolicy
  <1>7. CASE Approve
    BY <1>7 DEF Approve
  <1>8. ASSUME NEW s \in Sends, BeginSend(s)
       PROVE  Confirmed(q)' /\ Posted(q)'
    BY <1>8 DEF BeginSend
  <1>9. ASSUME NEW s \in Sends, AcquireLock(s)
       PROVE  Confirmed(q)' /\ Posted(q)'
    BY <1>9, SendsAssumption DEF AcquireLock
  <1>10. ASSUME NEW s \in Sends, GiveUpLock(s)
        PROVE  Confirmed(q)' /\ Posted(q)'
    BY <1>10 DEF GiveUpLock
  <1>11. ASSUME NEW s \in Sends, ReadProfile(s) \/ ReadText(s)
        PROVE  Confirmed(q)' /\ Posted(q)'
    BY <1>11 DEF ReadProfile, ReadText, Receipt
  <1>12. ASSUME NEW s \in Sends, Enroll(s)
        PROVE  Confirmed(q)' /\ Posted(q)'
    BY <1>12 DEF Enroll
  <1>13. ASSUME NEW s \in Sends, LoadSession(s)
        PROVE  Confirmed(q)' /\ Posted(q)'
    BY <1>13 DEF LoadSession
  <1>14. ASSUME NEW s \in Sends, Preflight(s)
        PROVE  Confirmed(q)' /\ Posted(q)'
    BY <1>14 DEF Preflight
  <1>15. ASSUME NEW s \in Sends, Refuse(s)
        PROVE  Confirmed(q)' /\ Posted(q)'
    BY <1>15 DEF Refuse
  <1>16. ASSUME NEW s \in Sends, Dispatch(s)
        PROVE  Confirmed(q)' /\ Posted(q)'
    BY <1>16 DEF Dispatch, Mark
  <1>17. ASSUME NEW s \in Sends, SlackDecides(s)
        PROVE  Confirmed(q)' /\ Posted(q)'
    BY <1>17 DEF SlackDecides
  <1>18. ASSUME NEW s \in Sends, Acknowledge(s)
        PROVE  Confirmed(q)' /\ Posted(q)'
    BY <1>18 DEF Acknowledge, Mark
  <1>19. ASSUME NEW s \in Sends, LearnRejection(s)
        PROVE  Confirmed(q)' /\ Posted(q)'
    BY <1>19 DEF LearnRejection
  <1>20. ASSUME NEW s \in Sends, LoseAnswer(s)
        PROVE  Confirmed(q)' /\ Posted(q)'
    BY <1>20 DEF LoseAnswer
  <1>21. ASSUME NEW s \in Sends, Reconcile(s)
        PROVE  Confirmed(q)' /\ Posted(q)'
    BY <1>21 DEF Reconcile
  <1>22. ASSUME NEW s \in Sends, Unlock(s)
        PROVE  Confirmed(q)' /\ Posted(q)'
    BY <1>22 DEF Unlock
  <1>23. ASSUME NEW s \in Sends, Report(s)
        PROVE  Confirmed(q)' /\ Posted(q)'
    BY <1>23 DEF Report, ExitClass
  <1>24. ASSUME NEW s \in Sends, Panic(s)
        PROVE  Confirmed(q)' /\ Posted(q)'
    BY <1>24 DEF Panic
  <1>25. ASSUME NEW s \in Sends, Kill(s)
        PROVE  Confirmed(q)' /\ Posted(q)'
    BY <1>25 DEF Kill
  <1>26. CASE UNCHANGED vars
    BY <1>26 DEF vars
  <1> QED
    BY <1>4, <1>5, <1>6, <1>7, <1>8, <1>9, <1>10, <1>11, <1>12, <1>13,
       <1>14, <1>15, <1>16, <1>17, <1>18, <1>19, <1>20, <1>21, <1>22, <1>23,
       <1>24, <1>25, <1>26
       DEF Next, Environment, Send, Advance

\* Nothing is posted in the initial state.
LEMMA ApprovedInit == Init => Approved
  BY TypeInit DEF Init, Approved, Confirmed, Posted, PostsAsApproved

\* Every request carries an approved text and the credential of the approved
\* profile (cli/send.go:102-121, cli/workflow.go:286-309).
THEOREM ApprovedPosts == Spec => []PostsAsApproved
  <1>1. Approved => PostsAsApproved
    BY DEF Approved
  <1>2. QED
    BY <1>1, ApprovedInit, ApprovedStep, PTL DEF Spec

-----------------------------------------------------------------------------
(* The profile lock covers a workflow send *)

\* No step takes the lock, or the profile, from a workflow that has it.
LEMMA LockedStep == Locked /\ [Next]_vars => Locked'
  <1> SUFFICES ASSUME Locked, [Next]_vars
               PROVE  Locked'
    OBVIOUS
  <1>1. TypeOK /\ TypeOK'
    BY TypeStep DEF Locked
  <1>2. SUFFICES ASSUME NEW q \in Sends
                 PROVE  Covered(q)' /\ Holds(q)'
    BY <1>1 DEF Locked, LockCoversSend
  <1>3. Covered(q) /\ Holds(q)
    BY DEF Locked, LockCoversSend
  <1> USE <1>1, <1>3 DEF TypeOK, Covered, Holds, Inside, Goto, Return, Released,
              world, local, command, report
  <1>4. CASE Login
    BY <1>4, SendsAssumption DEF Login
  <1>5. CASE Logout
    BY <1>5, SendsAssumption DEF Logout
  <1>6. CASE EditPolicy
    BY <1>6 DEF EditPolicy
  <1>7. CASE Approve
    BY <1>7 DEF Approve
  <1>8. ASSUME NEW s \in Sends, BeginSend(s)
       PROVE  Covered(q)' /\ Holds(q)'
    BY <1>8 DEF BeginSend
  <1>9. ASSUME NEW s \in Sends, AcquireLock(s)
       PROVE  Covered(q)' /\ Holds(q)'
    BY <1>9, SendsAssumption DEF AcquireLock
  <1>10. ASSUME NEW s \in Sends, GiveUpLock(s)
        PROVE  Covered(q)' /\ Holds(q)'
    BY <1>10 DEF GiveUpLock
  <1>11. ASSUME NEW s \in Sends, ReadProfile(s) \/ ReadText(s)
        PROVE  Covered(q)' /\ Holds(q)'
    BY <1>11 DEF ReadProfile, ReadText
  <1>12. ASSUME NEW s \in Sends, Enroll(s)
        PROVE  Covered(q)' /\ Holds(q)'
    BY <1>12 DEF Enroll
  <1>13. ASSUME NEW s \in Sends, LoadSession(s)
        PROVE  Covered(q)' /\ Holds(q)'
    BY <1>13 DEF LoadSession
  <1>14. ASSUME NEW s \in Sends, Preflight(s)
        PROVE  Covered(q)' /\ Holds(q)'
    BY <1>14 DEF Preflight
  <1>15. ASSUME NEW s \in Sends, Refuse(s)
        PROVE  Covered(q)' /\ Holds(q)'
    BY <1>15 DEF Refuse, Checking
  <1>16. ASSUME NEW s \in Sends, Dispatch(s)
        PROVE  Covered(q)' /\ Holds(q)'
    BY <1>16 DEF Dispatch, Mark
  <1>17. ASSUME NEW s \in Sends, SlackDecides(s)
        PROVE  Covered(q)' /\ Holds(q)'
    BY <1>17 DEF SlackDecides
  <1>18. ASSUME NEW s \in Sends, Acknowledge(s)
        PROVE  Covered(q)' /\ Holds(q)'
    BY <1>18 DEF Acknowledge, Mark
  <1>19. ASSUME NEW s \in Sends, LearnRejection(s)
        PROVE  Covered(q)' /\ Holds(q)'
    BY <1>19 DEF LearnRejection
  <1>20. ASSUME NEW s \in Sends, LoseAnswer(s)
        PROVE  Covered(q)' /\ Holds(q)'
    BY <1>20 DEF LoseAnswer
  <1>21. ASSUME NEW s \in Sends, Reconcile(s)
        PROVE  Covered(q)' /\ Holds(q)'
    BY <1>21 DEF Reconcile
  <1>22. ASSUME NEW s \in Sends, Unlock(s)
        PROVE  Covered(q)' /\ Holds(q)'
    <2>1. Covered(s)
      BY DEF Locked
    <2>2. QED
      BY <1>22, <2>1, SendsAssumption DEF Unlock
  <1>23. ASSUME NEW s \in Sends, Report(s)
        PROVE  Covered(q)' /\ Holds(q)'
    BY <1>23 DEF Report, ExitClass
  <1>24. ASSUME NEW s \in Sends, Panic(s)
        PROVE  Covered(q)' /\ Holds(q)'
    BY <1>24 DEF Panic
  <1>25. ASSUME NEW s \in Sends, Kill(s)
        PROVE  Covered(q)' /\ Holds(q)'
    BY <1>25 DEF Kill
  <1>26. CASE UNCHANGED vars
    BY <1>26 DEF vars
  <1> QED
    BY <1>4, <1>5, <1>6, <1>7, <1>8, <1>9, <1>10, <1>11, <1>12, <1>13,
       <1>14, <1>15, <1>16, <1>17, <1>18, <1>19, <1>20, <1>21, <1>22, <1>23,
       <1>24, <1>25, <1>26
       DEF Next, Environment, Send, Advance

\* No workflow runs in the initial state.
LEMMA LockedInit == Init => Locked
  BY TypeInit DEF Init, Locked, Covered, Holds, Inside, LockCoversSend

\* While a workflow send is between its lock and the end of its dispatch, the
\* profile it runs as is the registered one (cli/workflow.go:286-309).
THEOREM LockCovers == Spec => []LockCoversSend
  <1>1. Locked => LockCoversSend
    BY DEF Locked
  <1>2. QED
    BY <1>1, LockedInit, LockedStep, PTL DEF Spec

-----------------------------------------------------------------------------
(* What a sender knows of its message is what the client promised to tell *)

\* At first nothing is requested and nothing known.
LEMMA PromiseInit == ASSUME Init, NEW q \in Sends PROVE Client(q)!Init
  BY DEF Init, Client!Init, Knows

\* Every step is a step of the promise for each sender, or changes neither its
\* request nor what it knows.
LEMMA PromiseStep ==
  ASSUME Honest, [Next]_vars, NEW q \in Sends
  PROVE  Steps(q)
  <1>1. TypeOK /\ TypeOK'
    BY TypeStep DEF Honest
  <1>2. Tracked(q) /\ Judged(q)
    BY DEF Honest
  <1> USE <1>1, <1>2 DEF TypeOK, Tracked, Judged, Knows, Goto, Return, Checking,
                         world, local, command, report
  <1>3. SUFFICES ASSUME ~(UNCHANGED <<request[q], Knows(q)>>)
                 PROVE  Client(q)!Next
    BY DEF Steps
  <1>4. CASE Environment
    BY <1>3, <1>4 DEF Environment, Login, Logout, EditPolicy, Approve
  <1>5. CASE UNCHANGED vars
    BY <1>3, <1>5 DEF vars
  <1>6. ASSUME NEW s \in Sends, Send(s), s # q
        PROVE  Client(q)!Next
    <2>1. /\ pc'[q] = pc[q] /\ tracker'[q] = tracker[q]
          /\ outcome'[q] = outcome[q] /\ request'[q] = request[q]
      BY <1>6 DEF Send, Advance, BeginSend, AcquireLock, GiveUpLock, ReadProfile, ReadText,
                  Enroll, LoadSession, Preflight, Refuse, Dispatch, Mark, SlackDecides, Acknowledge,
                  LearnRejection, LoseAnswer, Reconcile, Unlock, Report, Panic, Kill
    <2> QED
      BY <1>3, <2>1
  <1>7. CASE \/ BeginSend(q) \/ AcquireLock(q) \/ ReadProfile(q) \/ ReadText(q)
             \/ LoadSession(q) \/ Preflight(q)
    BY <1>3, <1>7 DEF BeginSend, AcquireLock, ReadProfile, ReadText, LoadSession, Preflight
  <1>8. CASE GiveUpLock(q) \/ Enroll(q) \/ Refuse(q)
    BY <1>3, <1>8 DEF GiveUpLock, Enroll, Refuse, Client!Next, Client!Decline
  <1>9. CASE Dispatch(q)
    BY <1>3, <1>9 DEF Dispatch, Mark, Client!Next, Client!Decline, Client!Dispatch
  <1>10. CASE SlackDecides(q)
    BY <1>3, <1>10 DEF SlackDecides, Client!Next, Client!SlackDecides, Client!Fates
  <1>11. CASE Acknowledge(q)
    BY <1>3, <1>11 DEF Acknowledge, Mark, Client!Next, Client!Acknowledge
  <1>12. CASE LearnRejection(q)
    BY <1>3, <1>12 DEF LearnRejection, Client!Next, Client!LearnRejection
  <1>13. CASE LoseAnswer(q)
    BY <1>3, <1>13 DEF LoseAnswer, Client!Next, Client!LoseAnswer
  <1>14. CASE Reconcile(q) \/ Unlock(q) \/ Report(q)
    BY <1>3, <1>14 DEF Reconcile, Unlock, Report
  <1>15. CASE Panic(q) \/ Kill(q)
    <2>1. /\ pc[q] \in Running /\ pc'[q] = "done"
          /\ UNCHANGED <<tracker, outcome, request>>
      BY <1>15 DEF Panic, Kill
    <2>2. CASE pc[q] = "awaiting"
      BY <1>3, <2>1, <2>2 DEF Client!Next, Client!LoseAnswer
    <2>3. CASE pc[q] # "awaiting"
      BY <1>3, <2>1, <2>3 DEF Running, PCs
    <2> QED
      BY <2>2, <2>3
  <1> QED
    BY <1>4, <1>5, <1>6, <1>7, <1>8, <1>9, <1>10, <1>11, <1>12, <1>13, <1>14, <1>15
       DEF Next, Send, Advance

\* Every sender, through reconciliation, panics and kills, keeps to what the
\* client told it of its message: an unknown fate stays unknown, a refusal is
\* final (cli/send.go:94-169, docs/contract.md:107-127).
THEOREM Refinement == Spec => SendersKeepPromise
  <1>1. Init => \A s \in Sends : Client(s)!Init
    BY PromiseInit
  <1>2. Honest /\ [Next]_vars => [\A s \in Sends : Steps(s)]_vars
    BY PromiseStep
  <1>3. Spec => \A s \in Sends : Client(s)!Init
    BY <1>1 DEF Spec
  <1>4. Spec => []Honest
    BY HonestInit, HonestStep, PTL DEF Spec
  <1>5. Spec => [][\A s \in Sends : Steps(s)]_vars
    BY <1>2, <1>4, PTL DEF Spec
  <1>6. QED
    BY <1>3, <1>5 DEF SendersKeepPromise
=============================================================================
