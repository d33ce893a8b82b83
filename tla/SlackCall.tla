------------------------------- MODULE SlackCall -------------------------------
(***************************************************************************)
(* One call of the Slack client: the request is dispatched once, its       *)
(* status judged (slack/transport.go), its body read within bounds and     *)
(* decoded, and the result compared with what was asked (slack/client.go). *)
(*                                                                         *)
(* A write is judged apart from reads and downloads: whatever does not     *)
(* prove that Slack refused the message leaves its fate unknown.  Slack,   *)
(* and what stands between, may answer anything, but refuses a message in  *)
(* one of the ways the client knows only if it does not commit it.         *)
(***************************************************************************)
EXTENDS Naturals

CONSTANTS MaxWire,   \* contract.MaxCompressedResponseBytes, in chunks
          MaxBody    \* contract.MaxResponseBytes, in chunks

BoundsAssumption == MaxWire \in Nat /\ MaxBody \in Nat

Classes == {"read", "write", "download"}

\* The errors of the API, grouped as the client groups them.  "member" and
\* "input" are known for writes only, "object" and "transient" for reads only.
Codes == {"auth", "channel", "member", "object", "permission", "input", "transient", "else"}
Texts == {"broken", "trailing", "matching", "mismatched"} \cup Codes

\* A body has a length on the wire, which counts if it is compressed, and one
\* in the memory, and what it says.
Bodies == [coding : {"plain", "gzip", "other"}, wire : 0 .. MaxWire + 2,
           size : 0 .. MaxBody + 2, text : Texts]
NoBody == [coding |-> "plain", wire |-> 0, size |-> 0, text |-> "broken"]

\* "success" is a status from 201 to 299, "missing" 404.
Passing == {"ok", "success"}
Failing == {"redirect", "limited", "server", "unauthorized", "forbidden", "missing", "other"}

VARIABLES
  class,     \* the kind of operation
  pc,
  fate,      \* Slack: what became of the request
  status,    \* of the response
  answer,    \* the body of the response
  body,      \* whether the response body is open
  received,  \* what was read from the wire of a compressed body
  taken,     \* what was read into memory
  outcome    \* what the call returns
vars == <<class, pc, fate, status, answer, body, received, taken, outcome>>

Outcomes == {"none", "result", "stream", "unknown", "not started", "auth", "permission",
             "not found", "usage", "internal", "retryable"}

TypeOK ==
  /\ class \in Classes
  /\ pc \in {"idle", "sending", "status", "body", "decode", "done"}
  /\ fate \in {"none", "flying", "applied", "rejected", "lost"}
  /\ status \in {"none"} \cup Passing \cup Failing
  /\ answer \in Bodies
  /\ body \in {"none", "open", "closed"}
  /\ received \in 0 .. MaxWire + 1
  /\ taken \in 0 .. MaxBody + 1
  /\ outcome \in Outcomes

Init ==
  /\ class \in Classes /\ pc = "idle"
  /\ fate = "none" /\ status = "none" /\ answer = NoBody
  /\ body = "none" /\ received = 0 /\ taken = 0
  /\ outcome = "none"

Goto(stage) == pc' = stage

-----------------------------------------------------------------------------
(* How errors are told *)

\* networkError
Network == IF class = "write" THEN "unknown" ELSE "retryable"

\* Bug: a write that may be tried again is taken for one that was refused.
WriteRefusalsTransient ==
  [auth |-> "auth", channel |-> "not found", member |-> "not found",
   permission |-> "permission", input |-> "usage", transient |-> "retryable"]

\* slackError: the codes with which Slack refuses a message before it commits it
WriteRefusals ==
  [auth |-> "auth", channel |-> "not found", member |-> "not found",
   permission |-> "permission", input |-> "usage"]

ReadRefusals ==
  [auth |-> "auth", channel |-> "not found", object |-> "not found",
   permission |-> "permission", transient |-> "retryable"]

Refusal(code) ==
  IF class = "write"
  THEN IF code \in DOMAIN WriteRefusals THEN WriteRefusals[code] ELSE "unknown"
  ELSE IF code \in DOMAIN ReadRefusals THEN ReadRefusals[code] ELSE "internal"

\* responseError, of a status that is not passed on
StatusError ==
  CASE status = "redirect" -> IF class = "write" THEN "unknown"
                              ELSE IF class = "download" THEN "permission" ELSE "internal"
    [] status \in {"limited", "server"} -> Network
    [] status = "unauthorized" -> "auth"
    [] status = "forbidden" -> "permission"
    [] status = "missing" /\ class = "download" -> "not found"
    [] OTHER -> IF class = "write" THEN "unknown" ELSE "internal"

\* A download accepts 200 only.
Passed == status = "ok" \/ (status = "success" /\ class # "download")

-----------------------------------------------------------------------------
(* Slack *)

\* A known refusal, or the result asked for, tells what became of the request.
Truthful(s, b) ==
  /\ s \in {"unauthorized", "forbidden"} => fate = "rejected"
  /\ s \in Passing /\ b.text \in {"auth", "channel", "member", "permission", "input"}
       => fate = "rejected"
  /\ s \in Passing /\ b.text = "matching" => fate = "applied"

SlackDecides ==
  /\ fate = "flying"
  /\ fate' \in {"applied", "rejected", "lost"}
  /\ UNCHANGED <<class, pc, status, answer, body, received, taken, outcome>>

Respond ==
  /\ pc = "sending"
  /\ \E s \in Passing \cup Failing, b \in Bodies :
       /\ s \in Failing => b = NoBody
       /\ Truthful(s, b)
       /\ status' = s /\ answer' = b
  /\ body' = "open" /\ Goto("status")
  /\ UNCHANGED <<class, fate, received, taken, outcome>>

-----------------------------------------------------------------------------
(* The client *)

\* The call returns; its deferred Close ends the body.
Return(how) ==
  /\ outcome' = how /\ Goto("done")
  /\ body' = IF body = "open" THEN "closed" ELSE body

\* The arguments, the token, the route or the size of the request are refused.
Decline ==
  /\ pc = "idle"
  /\ \E how \in {"usage", "auth", "internal"} : Return(how)
  /\ UNCHANGED <<class, fate, status, answer, received, taken>>

\* The context is done before the dispatch.
Cancelled ==
  /\ pc = "idle"
  /\ Return(IF class = "write" THEN "not started" ELSE "retryable")
  /\ UNCHANGED <<class, fate, status, answer, received, taken>>

Dispatch ==
  /\ pc = "idle"
  /\ fate' = "flying" /\ Goto("sending")
  /\ UNCHANGED <<class, status, answer, body, received, taken, outcome>>

\* client.Do fails: the connection, the deadline or an interrupt.
TransportFails ==
  /\ pc = "sending"
  /\ Return(Network)
  /\ UNCHANGED <<class, fate, status, answer, received, taken>>

\* do: an error status ends the call; a download is handed over with its body.
Judge ==
  /\ pc = "status"
  /\ IF ~Passed THEN Return(StatusError)
     ELSE IF class = "download" THEN outcome' = "stream" /\ Goto("done") /\ UNCHANGED body
     ELSE Goto("body") /\ UNCHANGED <<outcome, body>>
  /\ UNCHANGED <<class, fate, status, answer, received, taken>>

\* io.LimitReader lets one byte more than the bound through.
Limited(length, bound) == IF length > bound THEN bound + 1 ELSE length

\* readResponse: a compressed body is bounded on the wire and in memory.
ReadBody ==
  /\ pc = "body"
  /\ received' = IF answer.coding = "gzip" THEN Limited(answer.wire, MaxWire) ELSE received
  /\ \/ /\ answer.coding # "other" /\ received' <= MaxWire
        /\ taken' = Limited(answer.size, MaxBody)
        /\ IF taken' > MaxBody THEN Return(Network)
           ELSE Goto("decode") /\ UNCHANGED <<outcome, body>>
     \/ Return(Network) /\ UNCHANGED taken
  /\ UNCHANGED <<class, fate, status, answer>>

\* One JSON object and nothing behind it; then its ok field; then what it is
\* compared with: the acknowledged message, or the number of items asked for.
Decode ==
  /\ pc = "decode"
  /\ CASE answer.text \in {"broken", "trailing"} -> Return(Network)
       [] answer.text \in Codes -> Return(Refusal(answer.text))
       [] answer.text = "mismatched" ->
            Return(IF class = "write" THEN "unknown" ELSE "internal")
       [] OTHER -> Return("result")
  /\ UNCHANGED <<class, fate, status, answer, received, taken>>

Next ==
  \/ SlackDecides \/ Respond
  \/ Decline \/ Cancelled \/ Dispatch \/ TransportFails \/ Judge \/ ReadBody \/ Decode

Spec == Init /\ [][Next]_vars

-----------------------------------------------------------------------------
(* Properties *)

\* Every response body is closed when the call returns, on every path, except
\* for the one handed to the download, which closes it.
BodiesClosed == pc = "done" => (body = "open" <=> outcome = "stream")

\* What is taken for a result was read to its end, within both bounds.
AnswerIsWhole ==
  outcome = "result" =>
    /\ taken = answer.size /\ taken <= MaxBody
    /\ answer.coding = "gzip" => received = answer.wire /\ received <= MaxWire

\* A write tells the caller what is known of the message: that it was applied
\* or refused only if it was, that nothing was sent only if nothing was, and
\* that its fate is unknown otherwise.
Told ==
  IF class # "write" \/ outcome = "none" THEN "nothing"
  ELSE IF outcome = "result" THEN "applied"
  ELSE IF outcome = "unknown" THEN "unknown"
  ELSE IF fate = "none" THEN "unsent" ELSE "rejected"

Promise == INSTANCE PostPromise
  WITH request <- IF class = "write" THEN fate ELSE "none", told <- Told

\* The call keeps the promise that the sending commands rely on, whatever is
\* answered.  Beyond that a read takes only a whole answer for a result, and no
\* path leaves a response body open (slack/client.go:289-352, transport.go).
KeepsPromise == Promise!Spec /\ [](AnswerIsWhole /\ BodiesClosed)
=============================================================================
