-------------------------- MODULE FairCommandsProofs --------------------------
(***************************************************************************)
(* Proofs about the components that FairCommands brings together: the      *)
(* token prompt (TokenPrompt), for any number of signals, and the senders  *)
(* (SendPromise), for any number of them.  The theorems about logins are   *)
(* those of AuthTransactionProofs.                                         *)
(***************************************************************************)
EXTENDS FairCommands, TLAPS

\* A step of the prompt or of a sender is one of its own, or it stands still.
LEMMA Components ==
  ASSUME [AllNext]_all
  PROVE  /\ Prompt!Next \/ UNCHANGED promptVars
         /\ Sender!Next \/ UNCHANGED sendVars
  BY DEF AllNext, Auth, Send, Ask, all

-----------------------------------------------------------------------------
(* The token prompt *)

\* Before the terminal is asked for anything.
Fresh == {"open", "disable"}

\* From the prompt until the line has been judged, unless a signal is served.
Asking == {"prompt", "select", "poll", "check"}

\* A signal is served.
Serving == {"restore", "close", "drain"}

\* Nothing has happened yet, or the echo is off and will have to be restored.
Started ==
  /\ promptPc \in Prompt!PCs
  /\ promptPc \in Fresh => echo /\ typed = "none"
  /\ promptPc \in Fresh \cup {"prompt"} => reader = "none" /\ typed = "none"
  /\ promptPc \in {"poll", "check"} => reader = "received"
  /\ reader \notin {"none", "reading"} => line \in {"line", "eof", "error"}
  /\ promptPc \in Fresh \cup Asking => restored = "not" /\ closed = "not"
  /\ promptPc \in Asking => ~echo /\ typed # "visible"

\* What has become of the echo.
Echo ==
  /\ restored \in {"not", "ok", "failed"}
  /\ restored = "ok" => echo
  /\ promptPc = "deferred close" => restored # "not" /\ (restored = "failed" => "restore" \in errors)
  /\ promptPc \in {"stop", "returned", "dead"} => echo \/ "restore" \in errors

\* A signal that comes before the line is kept until it is looked for.
Noticed ==
  /\ promptPc = "open" => ~early
  /\ promptPc \in {"disable", "prompt", "select", "poll"} /\ early => notified = 1
  /\ promptPc = "check" /\ line = "line" => ~early
  /\ line = "line" => typed \in {"hidden", "visible"}

\* What a token is worth.
Worth ==
  /\ promptPc \in Fresh \cup Asking \cup Serving => ~token /\ errors = {}
  /\ token => errors = {} /\ typed = "hidden" /\ ~early
  /\ promptPc \in {"deferred close", "stop", "returned", "dead"} /\ token => echo

PromptInv == Started /\ Echo /\ Noticed /\ Worth

-----------------------------------------------------------------------------
\* The steps of the user, of the signals and of the reading goroutine.
LEMMA OutsideStep ==
  ASSUME PromptInv, Prompt!Type \/ Prompt!Signal \/ Prompt!Read \/ Prompt!WriteNewline
  PROVE  PromptInv'
  <1> USE DEF Prompt!PCs, Fresh, Asking, Serving
  <1>1. CASE Prompt!Type
    BY <1>1 DEF PromptInv, Started, Echo, Noticed, Worth, Prompt!Type, Prompt!prompt
  <1>2. CASE Prompt!Signal
    <2>1. /\ UNCHANGED <<echo, typed, reader, line, restored, closed, token, errors>>
          /\ promptPc \notin {"returned", "dead"}
          /\ early' => early \/ typed = "none"
          /\ \/ promptPc' = promptPc /\ promptPc # "open" /\ notified' = 1
             \/ promptPc' = "dead" /\ promptPc = "open"
      BY <1>2 DEF PromptInv, Started, Prompt!Signal, Prompt!Watched, Prompt!Goto, Prompt!Enqueue
    <2>2. CASE promptPc = "open"
      BY <2>1, <2>2 DEF PromptInv, Started, Echo, Noticed, Worth
    <2>3. CASE promptPc # "open"
      <3>1. UNCHANGED <<echo, typed, promptPc, reader, line, restored, closed, token, errors>>
        BY <2>1, <2>3
      <3>2. Started' /\ Echo'
        BY <3>1 DEF PromptInv, Started, Echo
      <3>3. Noticed'
        BY <2>1, <2>3, <3>1 DEF PromptInv, Noticed
      <3>4. Worth'
        <4>1. token => typed # "none" /\ ~early
          BY DEF PromptInv, Worth
        <4>2. token => ~early'
          BY <2>1, <4>1
        <4>3. QED
          BY <3>1, <4>2 DEF PromptInv, Worth
      <3>5. QED
        BY <3>2, <3>3, <3>4 DEF PromptInv
    <2>4. QED
      BY <2>2, <2>3
  <1>3. CASE Prompt!Read
    BY <1>3 DEF PromptInv, Started, Echo, Noticed, Worth, Prompt!Read, Prompt!terminal
  <1>4. CASE Prompt!WriteNewline
    BY <1>4 DEF PromptInv, Started, Echo, Noticed, Worth, Prompt!WriteNewline, Prompt!terminal
  <1>5. QED
    BY <1>1, <1>2, <1>3, <1>4

\* The prompt, until the line has come or a signal has won.
LEMMA AskStep ==
  ASSUME PromptInv, \/ Prompt!Open \/ Prompt!Disable \/ Prompt!Prompt \/ Prompt!Select \/ Prompt!Poll
  PROVE  PromptInv'
  <1> USE DEF Prompt!PCs, Fresh, Asking, Serving, Prompt!Goto, Prompt!Fail
  <1>1. CASE Prompt!Open
    BY <1>1 DEF PromptInv, Started, Echo, Noticed, Worth, Prompt!Open, Prompt!terminal
  <1>2. CASE Prompt!Disable
    BY <1>2 DEF PromptInv, Started, Echo, Noticed, Worth, Prompt!Disable
  <1>3. CASE Prompt!Prompt
    BY <1>3 DEF PromptInv, Started, Echo, Noticed, Worth, Prompt!Prompt, Prompt!terminal
  <1>4. CASE Prompt!Select
    BY <1>4 DEF PromptInv, Started, Echo, Noticed, Worth, Prompt!Select
  <1>5. CASE Prompt!Poll
    BY <1>5 DEF PromptInv, Started, Echo, Noticed, Worth, Prompt!Poll, Prompt!Restore, Prompt!CloseDevice
  <1>6. QED
    BY <1>1, <1>2, <1>3, <1>4, <1>5

\* The service of a signal, and the judgement of the line.
LEMMA ServeStep ==
  ASSUME PromptInv, Prompt!RestoreOnSignal \/ Prompt!CloseOnSignal \/ Prompt!Drain \/ Prompt!Check
  PROVE  PromptInv'
  <1> USE DEF Prompt!PCs, Fresh, Asking, Serving, Prompt!Goto, Prompt!Fail
  <1>1. CASE Prompt!RestoreOnSignal
    BY <1>1 DEF PromptInv, Started, Echo, Noticed, Worth, Prompt!RestoreOnSignal, Prompt!Restore
  <1>2. CASE Prompt!CloseOnSignal
    BY <1>2 DEF PromptInv, Started, Echo, Noticed, Worth, Prompt!CloseOnSignal, Prompt!CloseDevice
  <1>3. CASE Prompt!Drain
    BY <1>3 DEF PromptInv, Started, Echo, Noticed, Worth, Prompt!Drain, Prompt!terminal
  <1>4. CASE Prompt!Check
    <2>1. /\ promptPc = "check" /\ promptPc' = "deferred restore"
          /\ UNCHANGED <<echo, typed, notified, reader, line, restored, closed, early>>
          /\ token' => line = "line" /\ errors' = errors
      BY <1>4 DEF PromptInv, Started, Worth, Prompt!Check, Prompt!terminal
    <2>2. Started' /\ Echo' /\ Noticed'
      BY <2>1 DEF PromptInv, Started, Echo, Noticed
    <2>3. token' => errors' = {} /\ typed = "hidden" /\ ~early
      BY <2>1 DEF PromptInv, Started, Noticed, Worth
    <2>4. Worth'
      BY <2>1, <2>3 DEF Worth
    <2>5. QED
      BY <2>2, <2>4 DEF PromptInv
  <1>5. QED
    BY <1>1, <1>2, <1>3, <1>4

\* The deferred calls.
LEMMA DeferredStep ==
  ASSUME PromptInv, Prompt!DeferredRestore \/ Prompt!DeferredClose \/ Prompt!StopSignals
  PROVE  PromptInv'
  <1> USE DEF Prompt!PCs, Fresh, Asking, Serving, Prompt!Goto
  <1>1. CASE Prompt!DeferredRestore
    BY <1>1 DEF PromptInv, Started, Echo, Noticed, Worth, Prompt!DeferredRestore, Prompt!Restore
  <1>2. CASE Prompt!DeferredClose
    BY <1>2 DEF PromptInv, Started, Echo, Noticed, Worth, Prompt!DeferredClose, Prompt!CloseDevice
  <1>3. CASE Prompt!StopSignals
    BY <1>3 DEF PromptInv, Started, Echo, Noticed, Worth, Prompt!StopSignals, Prompt!terminal
  <1>4. QED
    BY <1>1, <1>2, <1>3

\* The invariant holds of the prompt as it starts,
LEMMA PromptInit == AllInit => PromptInv
  BY DEF AllInit, Prompt!Init, PromptInv, Started, Echo, Noticed, Worth, Prompt!PCs,
         Fresh, Asking, Serving

\* and every step keeps it.
LEMMA PromptStep ==
  ASSUME PromptInv, Prompt!Next \/ UNCHANGED promptVars
  PROVE  PromptInv'
  <1>1. CASE UNCHANGED promptVars
    <2>1. Started' /\ Echo'
      BY <1>1 DEF promptVars, PromptInv, Started, Echo
    <2>2. Noticed' /\ Worth'
      BY <1>1 DEF promptVars, PromptInv, Noticed, Worth
    <2>3. QED
      BY <2>1, <2>2 DEF PromptInv
  <1>2. QED
    BY <1>1, OutsideStep, AskStep, ServeStep, DeferredStep DEF Prompt!Next, Prompt!Step

\* However many signals come, and whatever fails, the echo is back when the prompt has
\* returned or the process is dead, or the error says that it is not
\* (auth/tty.go:56-138).
THEOREM EchoComesBack == AllFair => []EchoIsRestored
  <1>1. PromptInv /\ [AllNext]_all => PromptInv'
    BY Components, PromptStep
  <1>2. PromptInv => EchoIsRestored
    BY DEF PromptInv, Echo, EchoIsRestored, Prompt!EchoIsRestored
  <1>3. QED
    BY <1>1, <1>2, PromptInit, PTL DEF AllFair

\* A token that is returned comes without an error, was typed unseen, and before any
\* signal (auth/tty.go:103-127).
THEOREM TokenUnseen == AllFair => []TokenIsGood
  <1>1. PromptInv /\ [AllNext]_all => PromptInv'
    BY Components, PromptStep
  <1>2. PromptInv => TokenIsGood
    BY DEF PromptInv, Worth, TokenIsGood, Prompt!TokenIsGood
  <1>3. QED
    BY <1>1, <1>2, PromptInit, PTL DEF AllFair

-----------------------------------------------------------------------------
(* The senders *)

\* What SendFlowProofs proves, of the senders of this module.
Sending == INSTANCE SendFlowProofs WITH
  Sends <- Procs, MaxGen <- SendGens, issued <- sendIssued, pc <- sendPc, op <- sendOp,
  gen <- sendGen, token <- sendToken

\* The senders are the same on both sides: their steps,
LEMMA SameSend ==
  ASSUME NEW s \in Procs, Sender!Send(s)
  PROVE  Sending!Send(s)
  <1> USE DEF
        Sender!world, Sending!world, Sender!local, Sending!local,
        Sender!command, Sending!command, Sender!report, Sending!report,
        Sender!Goto, Sending!Goto, Sender!Return, Sending!Return,
        Sender!Mark, Sending!Mark, Sender!Released, Sending!Released,
        Sender!Writable, Sending!Writable, Sender!Candidates, Sending!Candidates,
        Sender!ExitClass, Sending!ExitClass, Sender!NoGen, Sending!NoGen,
        Sender!Checking, Sending!Checking, Sender!Running, Sending!Running,
        Sender!PCs, Sending!PCs, Sender!Receipt, Sending!Receipt
  <1>1. CASE Sender!BeginSend(s)
    BY <1>1 DEF Sender!BeginSend, Sending!BeginSend, Sending!Send, Sending!Advance
  <1>2. CASE Sender!AcquireLock(s)
    BY <1>2 DEF Sender!AcquireLock, Sending!AcquireLock, Sending!Send, Sending!Advance
  <1>3. CASE Sender!GiveUpLock(s)
    BY <1>3 DEF Sender!GiveUpLock, Sending!GiveUpLock, Sending!Send, Sending!Advance
  <1>4. CASE Sender!ReadProfile(s)
    BY <1>4 DEF Sender!ReadProfile, Sending!ReadProfile, Sending!Send, Sending!Advance
  <1>5. CASE Sender!Enroll(s)
    BY <1>5 DEF Sender!Enroll, Sending!Enroll, Sending!Send, Sending!Advance
  <1>6. CASE Sender!LoadSession(s)
    BY <1>6 DEF Sender!LoadSession, Sending!LoadSession, Sending!Send, Sending!Advance
  <1>7. CASE Sender!Preflight(s)
    BY <1>7 DEF Sender!Preflight, Sending!Preflight, Sending!Send, Sending!Advance
  <1>8. CASE Sender!Refuse(s)
    BY <1>8 DEF Sender!Refuse, Sending!Refuse, Sending!Send, Sending!Advance
  <1>9. CASE Sender!Dispatch(s)
    BY <1>9 DEF Sender!Dispatch, Sending!Dispatch, Sending!Send, Sending!Advance
  <1>10. CASE Sender!SlackDecides(s)
    BY <1>10 DEF Sender!SlackDecides, Sending!SlackDecides, Sending!Send, Sending!Advance
  <1>11. CASE Sender!Acknowledge(s)
    BY <1>11 DEF Sender!Acknowledge, Sending!Acknowledge, Sending!Send, Sending!Advance
  <1>12. CASE Sender!LearnRejection(s)
    BY <1>12 DEF Sender!LearnRejection, Sending!LearnRejection, Sending!Send, Sending!Advance
  <1>13. CASE Sender!LoseAnswer(s)
    BY <1>13 DEF Sender!LoseAnswer, Sending!LoseAnswer, Sending!Send, Sending!Advance
  <1>14. CASE Sender!Reconcile(s)
    <2>1. \A S : Sender!Cardinality(S) = Sending!Cardinality(S)
      BY DEF Sender!Cardinality, Sending!Cardinality
    <2>2. QED
      BY <1>14, <2>1 DEF Sender!Reconcile, Sending!Reconcile, Sending!Send, Sending!Advance
  <1>15. CASE Sender!Unlock(s)
    BY <1>15 DEF Sender!Unlock, Sending!Unlock, Sending!Send, Sending!Advance
  <1>16. CASE Sender!Report(s)
    BY <1>16 DEF Sender!Report, Sending!Report, Sending!Send, Sending!Advance
  <1>17. CASE Sender!Panic(s)
    BY <1>17 DEF Sender!Panic, Sending!Panic, Sending!Send, Sending!Advance
  <1>18. CASE Sender!Kill(s)
    BY <1>18 DEF Sender!Kill, Sending!Kill, Sending!Send, Sending!Advance
  <1>19. CASE Sender!ReadText(s)
    BY <1>19 DEF Sender!ReadText, Sending!ReadText, Sending!Send, Sending!Advance
  <1> QED
    BY <1>1, <1>2, <1>3, <1>4, <1>5, <1>6, <1>7, <1>8, <1>9, <1>10, <1>11, <1>12,
       <1>13, <1>14, <1>15, <1>16, <1>17, <1>18, <1>19
       DEF Sender!Send, Sender!Advance

\* those of the users and of the other processes,
LEMMA SameNext ==
  ASSUME Sender!Next \/ UNCHANGED sendVars
  PROVE  [Sending!Next]_(Sending!vars)
  <1>1. CASE UNCHANGED sendVars
    BY <1>1 DEF sendVars, Sending!vars, Sending!world, Sending!local, Sending!command,
                Sending!report
  <1>2. CASE Sender!Environment
    <2> USE DEF Sender!world, Sending!world, Sender!local, Sending!local, Sender!command,
                Sending!command, Sender!report, Sending!report, Sender!NoGen, Sending!NoGen
    <2>1. Sending!Environment
      BY <1>2 DEF Sender!Environment, Sending!Environment, Sender!Login, Sending!Login,
                  Sender!Logout, Sending!Logout, Sender!EditPolicy, Sending!EditPolicy,
                  Sender!Approve, Sending!Approve
    <2>2. QED
      BY <2>1 DEF Sending!Next
  <1>3. CASE \E s \in Procs : Sender!Send(s)
    BY <1>3, SameSend DEF Sending!Next
  <1>4. QED
    BY <1>1, <1>2, <1>3 DEF Sender!Next

\* and what each of them promises.
LEMMA SamePromise ==
  ASSUME NEW s \in Procs
  PROVE  /\ Sending!Client(s)!Init => Sender!Client(s)!Init
         /\ Sending!Steps(s) => Sender!Steps(s)
  <1> USE DEF Sender!Knows, Sending!Knows
  <1>1. Sending!Client(s)!Init => Sender!Client(s)!Init
    BY DEF Sender!Client!Init, Sending!Client!Init
  <1>2. Sending!Client(s)!Next => Sender!Client(s)!Next
    BY DEF Sender!Client!Next, Sending!Client!Next,
           Sender!Client!Decline, Sending!Client!Decline,
           Sender!Client!Dispatch, Sending!Client!Dispatch,
           Sender!Client!SlackDecides, Sending!Client!SlackDecides,
           Sender!Client!Fates, Sending!Client!Fates,
           Sender!Client!Acknowledge, Sending!Client!Acknowledge,
           Sender!Client!LearnRejection, Sending!Client!LearnRejection,
           Sender!Client!LoseAnswer, Sending!Client!LoseAnswer
  <1>3. QED
    BY <1>1, <1>2 DEF Sender!Steps, Sending!Steps

\* Every sender, through reconciliation, panics and kills, keeps to what the
\* client told it of its message: an unknown fate stays unknown, a refusal is
\* final (cli/send.go:94-169, docs/contract.md:107-127).
THEOREM SendersKeepTheirWord == AllFair => SendersKeepPromise
  <1> USE ProcsAssumption, InstancesAssumption
  <1>1. AllInit => Sending!Honest /\ \A s \in Procs : Sender!Client(s)!Init
    <2> SUFFICES ASSUME AllInit
                 PROVE  Sending!Honest /\ \A s \in Procs : Sender!Client(s)!Init
      OBVIOUS
    <2>1. Sending!Init
      BY DEF AllInit, Sender!Init, Sending!Init, Sender!NoGen, Sending!NoGen
    <2>2. Sending!Honest
      BY <2>1, Sending!HonestInit
    <2>3. \A s \in Procs : Sending!Client(s)!Init
      BY <2>1, Sending!PromiseInit
    <2>4. QED
      BY <2>2, <2>3, SamePromise
  <1>2. Sending!Honest /\ [AllNext]_all => Sending!Honest'
    BY Components, SameNext, Sending!HonestStep
  <1>3. Sending!Honest /\ [AllNext]_all => [\A s \in Procs : Sender!Steps(s)]_(Sender!vars)
    BY Components, SameNext, SamePromise, Sending!PromiseStep
  <1>4. AllFair => \A s \in Procs : Sender!Client(s)!Init
    <2>1. AllFair => AllInit
      BY PTL DEF AllFair
    <2>2. QED
      BY <1>1, <2>1
  <1>5. AllFair => []Sending!Honest
    BY <1>1, <1>2, PTL DEF AllFair
  <1>6. AllFair => [][\A s \in Procs : Sender!Steps(s)]_(Sender!vars)
    BY <1>3, <1>5, PTL DEF AllFair
  <1>7. QED
    BY <1>4, <1>6 DEF SendersKeepPromise, Sender!SendersKeepPromise
=============================================================================
