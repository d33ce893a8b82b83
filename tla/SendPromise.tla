------------------------------ MODULE SendPromise ------------------------------
(***************************************************************************)
(* The commands that send, together with the client that sends for them.   *)
(* SlackCall implements PostPromise for one write; here every sender of    *)
(* SendFlow is shown to expect no more of a write, and to keep to what it  *)
(* was told until it ends, through reconciliation, panics and kills.       *)
(***************************************************************************)
EXTENDS SendFlow

\* What a command knows of its message: what the client told it, and after that
\* nothing else.  A command that ends before the client returned treats the
\* message as one of unknown fate.
Knows(s) ==
  IF outcome[s] \in {"success", "lockerror"} \/ tracker[s] = "Confirmed" THEN "applied"
  ELSE IF request[s] = "none"
  THEN IF outcome[s] = "none" THEN "nothing" ELSE "unsent"
  ELSE IF outcome[s] = "failed" THEN "rejected"
  ELSE IF outcome[s] = "conflict" \/ pc[s] \in {"reconcile", "done"} THEN "unknown"
  ELSE "nothing"

Client(s) == INSTANCE PostPromise WITH request <- request[s], told <- Knows(s)

Steps(s) == Client(s)!Next \/ UNCHANGED <<request[s], Knows(s)>>

\* Every sender sends at most one request and never turns what the client told
\* it into something else: an unknown fate stays unknown although reconciliation
\* finds the text, a refusal is never sent again (docs/contract.md:107-127).
\* This is Client(s)!Spec for every sender.
SendersKeepPromise ==
  (\A s \in Sends : Client(s)!Init) /\ [][\A s \in Sends : Steps(s)]_vars
=============================================================================
