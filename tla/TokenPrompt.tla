----------------------------- MODULE TokenPrompt ------------------------------
(***************************************************************************)
(* auth login --token-tty asks for the token on the controlling terminal   *)
(* with echo turned off (auth/tty.go, auth/tty_linux.go).                  *)
(*                                                                         *)
(* Two goroutines: the prompt, which selects between a signal and the line *)
(* read, and the reader, which blocks in a read of the device.  Around     *)
(* them are the user, who types one line when asked, the sender of the     *)
(* signals, and the terminal, any operation of which may fail.             *)
(***************************************************************************)
EXTENDS Naturals

CONSTANT MaxSignals   \* bound on the signals of one behaviour

BoundsAssumption == MaxSignals \in Nat

VARIABLES
  echo,       \* the terminal shows what is typed
  device,     \* the file of the terminal: "open" or "closed"
  typed,      \* the user's line: "none", "hidden", "visible", or "eof"
  unblocks,   \* whether closing the file ends a read that is blocked in it
  signals,    \* signals sent so far
  notified    \* the channel of the signals, which holds one
terminal == <<echo, device, typed, unblocks, signals, notified>>

VARIABLES
  pc,         \* of the prompt
  reader,     \* of the reading goroutine
  line,       \* what was read: "none", "line", "eof" or "error"
  newline,    \* whether the newline after it could be written
  restored,   \* restoreOnce: "not", "ok" or "failed"
  closed,     \* closeOnce
  token,      \* whether a token is returned
  errors,     \* what the returned error joins
  early       \* whether a signal came before the user typed the line
prompt == <<pc, reader, line, newline, restored, closed, token, errors, early>>

vars == <<terminal, prompt>>

PCs == {"open", "disable", "prompt", "select", "restore", "close", "drain", "poll",
        "check", "deferred restore", "deferred close", "stop", "returned", "dead"}
Watched == PCs \ {"open", "returned", "dead"}   \* between Notify and Stop

TypeOK ==
  /\ echo \in BOOLEAN
  /\ device \in {"open", "closed"}
  /\ typed \in {"none", "hidden", "visible", "eof"}
  /\ unblocks \in BOOLEAN
  /\ signals \in 0 .. MaxSignals
  /\ notified \in 0 .. 1
  /\ pc \in PCs
  /\ reader \in {"none", "reading", "newline", "sent", "received"}
  /\ line \in {"none", "line", "eof", "error"}
  /\ newline \in BOOLEAN
  /\ restored \in {"not", "ok", "failed"} /\ closed \in {"not", "ok", "failed"}
  /\ token \in BOOLEAN
  /\ errors \in SUBSET {"unavailable", "interrupted", "io", "restore", "invalid"}
  /\ early \in BOOLEAN

\* Whether a blocked read ends when its file is closed depends on the runtime
\* and on the mode of the descriptor, which Fd() may have set to blocking.
Init ==
  /\ echo = TRUE /\ device = "open" /\ typed = "none"
  /\ unblocks \in BOOLEAN
  /\ signals = 0 /\ notified = 0
  /\ pc = "open" /\ reader = "none"
  /\ line = "none" /\ newline = TRUE
  /\ restored = "not" /\ closed = "not"
  /\ token = FALSE /\ errors = {} /\ early = FALSE

Goto(stage) == pc' = stage

\* return "", error
Fail(error, stage) == errors' = errors \cup {error} /\ Goto(stage)

-----------------------------------------------------------------------------
(* The user, and whoever sends a signal *)

\* The user answers the prompt, once, by a line or by ending the input.
Type ==
  /\ reader # "none" /\ typed = "none"
  /\ typed' \in {IF echo THEN "visible" ELSE "hidden", "eof"}
  /\ UNCHANGED <<echo, device, unblocks, signals, notified, prompt>>

\* A channel of one: a second signal is dropped.
Enqueue(n) == 1

\* Outside of Notify and Stop a signal has its default effect.
Signal ==
  /\ signals < MaxSignals /\ pc \notin {"returned", "dead"}
  /\ signals' = signals + 1
  /\ IF pc \in Watched THEN notified' = Enqueue(notified) /\ UNCHANGED pc
     ELSE Goto("dead") /\ UNCHANGED notified
  /\ early' = (early \/ typed = "none")
  /\ UNCHANGED <<echo, device, typed, unblocks>>
  /\ UNCHANGED <<reader, line, newline, restored, closed, token, errors>>

-----------------------------------------------------------------------------
(* The reading goroutine *)

\* ReadBytes, which a closed file ends only if it unblocks the read
Read ==
  /\ reader = "reading"
  /\ \/ typed \in {"hidden", "visible"} /\ line' = "line"
     \/ typed = "eof" /\ line' = "eof"
     \/ device = "closed" /\ unblocks /\ line' = "error"
     \/ line' = "error"
  /\ reader' = "newline"
  /\ UNCHANGED <<terminal, pc, newline, restored, closed, token, errors, early>>

WriteNewline ==
  /\ reader = "newline"
  /\ newline' \in IF device = "closed" THEN {FALSE} ELSE BOOLEAN
  /\ reader' = "sent"
  /\ UNCHANGED <<terminal, pc, line, restored, closed, token, errors, early>>

-----------------------------------------------------------------------------
(* The prompt *)

\* restoreTTY and closeTTY run once, whoever calls them first.
Restore ==
  IF restored # "not" THEN UNCHANGED <<echo, restored>>
  ELSE \/ restored' = "ok" /\ echo' = TRUE
       \/ restored' = "failed" /\ UNCHANGED echo

CloseDevice ==
  IF closed # "not" THEN UNCHANGED <<device, closed>>
  ELSE closed' \in {"ok", "failed"} /\ device' = "closed"

\* What ttySignalError joins, from the errors of the two.
SignalErrors(r, c) ==
  {"interrupted"} \cup (IF r = "failed" THEN {"restore"} ELSE {})
                  \cup (IF c = "failed" THEN {"io"} ELSE {})

\* ReadTokenTTY opens the terminal and asks for the signals.
Open ==
  /\ pc = "open"
  /\ \/ Goto("disable") /\ UNCHANGED errors
     \/ Fail("unavailable", "returned")
  /\ UNCHANGED <<terminal, reader, line, newline, restored, closed, token, early>>

Disable ==
  /\ pc = "disable"
  /\ \/ echo' = FALSE /\ Goto("prompt") /\ UNCHANGED errors
     \/ Fail("unavailable", "stop") /\ UNCHANGED echo
  /\ UNCHANGED <<device, typed, unblocks, signals, notified>>
  /\ UNCHANGED <<reader, line, newline, restored, closed, token, early>>

\* Bug: a prompt that cannot be written returns at once.
PromptReturns ==
  /\ pc = "prompt"
  /\ \/ Goto("select") /\ reader' = "reading" /\ UNCHANGED errors
     \/ Fail("io", "stop") /\ UNCHANGED reader
  /\ UNCHANGED <<terminal, line, newline, restored, closed, token, early>>

Prompt ==
  /\ pc = "prompt"
  /\ \/ Goto("select") /\ reader' = "reading" /\ UNCHANGED errors
     \/ Fail("io", "deferred restore") /\ UNCHANGED reader
  /\ UNCHANGED <<terminal, line, newline, restored, closed, token, early>>

\* Either case, when both are ready.
Select ==
  /\ pc = "select"
  /\ \/ notified = 1 /\ notified' = 0 /\ Goto("restore") /\ UNCHANGED reader
     \/ reader = "sent" /\ reader' = "received" /\ Goto("poll") /\ UNCHANGED notified
  /\ UNCHANGED <<echo, device, typed, unblocks, signals>>
  /\ UNCHANGED <<line, newline, restored, closed, token, errors, early>>

\* Bug: the read is waited for before the terminal is restored.
RestoreAfterRead ==
  /\ pc = "restore" /\ reader = "sent"
  /\ Restore /\ Goto("close")
  /\ UNCHANGED <<device, typed, unblocks, signals, notified>>
  /\ UNCHANGED <<reader, line, newline, closed, token, errors, early>>

RestoreOnSignal ==
  /\ pc = "restore"
  /\ Restore /\ Goto("close")
  /\ UNCHANGED <<device, typed, unblocks, signals, notified>>
  /\ UNCHANGED <<reader, line, newline, closed, token, errors, early>>

CloseOnSignal ==
  /\ pc = "close"
  /\ CloseDevice /\ Goto("drain")
  /\ UNCHANGED <<echo, typed, unblocks, signals, notified>>
  /\ UNCHANGED <<reader, line, newline, restored, token, errors, early>>

\* <-readResults
Drain ==
  /\ pc = "drain" /\ reader = "sent"
  /\ reader' = "received"
  /\ errors' = errors \cup SignalErrors(restored, closed)
  /\ Goto("deferred restore")
  /\ UNCHANGED <<terminal, line, newline, restored, closed, token, early>>

\* Bug: a signal that came with the line is not looked for.
PollSkipped ==
  /\ pc = "poll" /\ Goto("check")
  /\ UNCHANGED <<terminal, reader, line, newline, restored, closed, token, errors, early>>

\* A signal that came while the line was read wins over it.
Poll ==
  /\ pc = "poll"
  /\ IF notified = 1
     THEN /\ notified' = 0 /\ Restore /\ CloseDevice
          /\ errors' = errors \cup SignalErrors(restored', closed')
          /\ Goto("deferred restore")
     ELSE Goto("check") /\ UNCHANGED <<echo, device, notified, restored, closed, errors>>
  /\ UNCHANGED <<typed, unblocks, signals>>
  /\ UNCHANGED <<reader, line, newline, token, early>>

\* validateTokenPayload may refuse the line.
Check ==
  /\ pc = "check"
  /\ IF line = "error" \/ (line = "line" /\ ~newline)
     THEN Fail("io", "deferred restore") /\ UNCHANGED token
     ELSE IF line = "eof" THEN Fail("interrupted", "deferred restore") /\ UNCHANGED token
     ELSE \/ token' = TRUE /\ Goto("deferred restore") /\ UNCHANGED errors
          \/ Fail("invalid", "deferred restore") /\ UNCHANGED token
  /\ UNCHANGED <<terminal, reader, line, newline, restored, closed, early>>

DeferredRestore ==
  /\ pc = "deferred restore"
  /\ Restore /\ Goto("deferred close")
  /\ IF restored' = "failed" /\ "restore" \notin errors
     THEN token' = FALSE /\ errors' = errors \cup {"restore"}
     ELSE UNCHANGED <<token, errors>>
  /\ UNCHANGED <<device, typed, unblocks, signals, notified>>
  /\ UNCHANGED <<reader, line, newline, closed, early>>

DeferredClose ==
  /\ pc = "deferred close"
  /\ CloseDevice /\ Goto("stop")
  /\ IF closed' = "failed" /\ "io" \notin errors
     THEN token' = FALSE /\ errors' = errors \cup {"io"}
     ELSE UNCHANGED <<token, errors>>
  /\ UNCHANGED <<echo, typed, unblocks, signals, notified>>
  /\ UNCHANGED <<reader, line, newline, restored, early>>

\* signal.Stop; what is still in the channel is never read.
StopSignals ==
  /\ pc = "stop" /\ Goto("returned")
  /\ UNCHANGED <<terminal, reader, line, newline, restored, closed, token, errors, early>>

Step ==
  \/ Open \/ Disable \/ Prompt \/ Select \/ RestoreOnSignal \/ CloseOnSignal \/ Drain
  \/ Poll \/ Check \/ DeferredRestore \/ DeferredClose \/ StopSignals

\* A read that neither the user nor the closed file ends may also go on; it is
\* not fair to expect that it fails.
ReadEnds == Read /\ (typed # "none" \/ (device = "closed" /\ unblocks))

\* A process that was killed does nothing more.
Next == (pc # "dead" /\ (Step \/ Read \/ WriteNewline)) \/ Type \/ Signal

Spec == Init /\ [][Next]_vars

\* The goroutines of a process that lives run; the user need not type and no
\* signal need come.
PromptRuns == pc # "dead" /\ Step
ReaderRuns == pc # "dead" /\ (ReadEnds \/ WriteNewline)
FairSpec == Spec /\ WF_vars(PromptRuns) /\ WF_vars(ReaderRuns)

-----------------------------------------------------------------------------
(* Properties *)

\* When the prompt has returned, or a signal has killed the process before or
\* after it, the terminal shows what is typed, or the error says that it could
\* not be restored.
EchoIsRestored == pc \in {"returned", "dead"} => echo \/ "restore" \in errors

\* A token is returned alone, with the echo back on, was never shown when the
\* user typed it, and not if a signal came before it.
TokenIsGood ==
  pc = "returned" /\ token => errors = {} /\ echo /\ typed = "hidden" /\ ~early

\* Once the user has typed or a signal has come, the prompt returns; and if
\* nothing ends the read that is blocked, not even the closed terminal, a signal
\* at least restores the echo without waiting for the user (auth/tty.go:103-111).
SignalRestores ==
  pc = "select" /\ (typed # "none" \/ notified = 1)
    ~> \/ pc \in {"returned", "dead"}
       \/ typed = "none" /\ ~unblocks /\ (echo \/ restored = "failed")
=============================================================================
