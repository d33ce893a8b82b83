------------------------------ MODULE PostPromise ------------------------------
(***************************************************************************)
(* What the Slack client promises to a command that posts a message: at    *)
(* most one request, and an answer that never says more, nor less, about   *)
(* its fate than is known.  The dispatch of SendFlow relies on it.         *)
(***************************************************************************)
VARIABLES
  request,  \* the fate of the request
  told      \* what the caller is told
vars == <<request, told>>

Fates == {"applied", "rejected", "lost"}

Init == request = "none" /\ told = "nothing"

\* The message is refused, or the command cancelled, before anything is sent.
Decline ==
  /\ request = "none" /\ told = "nothing"
  /\ told' = "unsent"
  /\ UNCHANGED request

Dispatch ==
  /\ request = "none" /\ told = "nothing"
  /\ request' = "flying"
  /\ UNCHANGED told

\* Slack, or the network, at any time, also after the caller was told
SlackDecides ==
  /\ request = "flying"
  /\ request' \in Fates
  /\ UNCHANGED told

Acknowledge ==
  /\ request = "applied" /\ told = "nothing"
  /\ told' = "applied"
  /\ UNCHANGED request

LearnRejection ==
  /\ request = "rejected" /\ told = "nothing"
  /\ told' = "rejected"
  /\ UNCHANGED request

LoseAnswer ==
  /\ request # "none" /\ told = "nothing"
  /\ told' = "unknown"
  /\ UNCHANGED request

Next ==
  Decline \/ Dispatch \/ SlackDecides \/ Acknowledge \/ LearnRejection \/ LoseAnswer

Spec == Init /\ [][Next]_vars
=============================================================================
