----------------------------- MODULE FairCommands -----------------------------
(***************************************************************************)
(* The components whose commands have to end, under the fairness that each *)
(* of them is given: auth login, logout and the sessions (AuthTransaction),*)
(* the commands that send (SendPromise over SendFlow) and the token prompt *)
(* (TokenPrompt).                                                          *)
(*                                                                         *)
(* An invocation runs one command.  These three share no variable, so that *)
(* a behaviour of the program is, as far as one of them is concerned, a    *)
(* behaviour of that one: "running" chooses it, the two others stand still *)
(* where they start.                                                       *)
(***************************************************************************)
EXTENDS AuthTransaction

CONSTANTS Texts,       \* as in SendFlow
          SendGens,    \* its MaxGen
          MaxSignals   \* as in TokenPrompt

VARIABLE running   \* "auth", "send" or "prompt"

VARIABLES profile, sendIssued, profileLock, policy, approved,
          sendPc, sendOp, text, confirm, sendGen, sendToken, tracker, hint, outcome,
          request, status, marker
sendVars == <<profile, sendIssued, profileLock, policy, approved,
              sendPc, sendOp, text, confirm, sendGen, sendToken, tracker, hint, outcome,
              request, status, marker>>

VARIABLES echo, device, typed, unblocks, signals, notified,
          promptPc, reader, line, newline, restored, closed, token, errors, early
promptVars == <<echo, device, typed, unblocks, signals, notified,
                promptPc, reader, line, newline, restored, closed, token, errors, early>>

\* A process that sends is one of Procs as well.
Sender == INSTANCE SendPromise WITH
  Sends <- Procs, MaxGen <- SendGens, issued <- sendIssued, pc <- sendPc, op <- sendOp, gen <- sendGen,
  token <- sendToken

Prompt == INSTANCE TokenPrompt WITH pc <- promptPc

ASSUME InstancesAssumption == SendGens \in Nat /\ Prompt!BoundsAssumption

all == <<running, vars, sendVars, promptVars>>

\* The inputs of a command that is not run are fixed.
AllInit ==
  /\ running \in {"auth", "send", "prompt"}
  /\ name \in IF running = "auth" THEN [Procs -> Names]
              ELSE {[p \in Procs |-> CHOOSE n \in Names : TRUE]}
  /\ sendOp \in IF running = "send" THEN [Procs -> {"send", "workflow"}]
                ELSE {[p \in Procs |-> "send"]}
  /\ text \in IF running = "send" THEN [Procs -> Texts]
              ELSE {[p \in Procs |-> CHOOSE t \in Texts : TRUE]}
  /\ unblocks \in IF running = "prompt" THEN BOOLEAN ELSE {TRUE}
  /\ Init /\ Sender!Init /\ Prompt!Init

Auth(A) == running = "auth" /\ A /\ UNCHANGED <<running, sendVars, promptVars>>
Send(A) == running = "send" /\ A /\ UNCHANGED <<running, vars, promptVars>>
Ask(A) == running = "prompt" /\ A /\ UNCHANGED <<running, vars, sendVars>>

AllNext == Auth(Next) \/ Send(Sender!Next) \/ Ask(Prompt!Next)

\* Each component under its own FairSpec
AllFair ==
  /\ AllInit /\ [][AllNext]_all
  /\ \A p \in Procs : WF_all(Auth(Transact(p))) /\ WF_all(Send(Sender!Proceed(p)))
  /\ WF_all(Ask(Prompt!PromptRuns)) /\ WF_all(Ask(Prompt!ReaderRuns))

-----------------------------------------------------------------------------
(* Properties, beside those of AuthTransaction *)

\* Every command that sends ends and gives the profile lock back
\* (SendFlow; cli/send.go:152-169, lockfile/lockfile_unix.go:54-62).
EverySendEnds == Sender!EverySendEnds

\* Every sender keeps to what the client told it of its message
\* (SendPromise; docs/contract.md:107-127).
SendersKeepPromise == Sender!SendersKeepPromise

\* The echo comes back, or the error says that it did not
\* (TokenPrompt; auth/tty.go:56-138).
EchoIsRestored == Prompt!EchoIsRestored

\* A token is returned only alone and unseen (TokenPrompt; auth/tty.go:112-127).
TokenIsGood == Prompt!TokenIsGood

\* A signal restores the echo and, if it can, ends the prompt
\* (TokenPrompt; auth/tty.go:103-111).
SignalRestores == Prompt!SignalRestores
=============================================================================
