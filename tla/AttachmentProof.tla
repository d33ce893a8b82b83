---------------------------- MODULE AttachmentProof ----------------------------
(***************************************************************************)
(* files get and files download prove by an exact read that the file is    *)
(* attached to the message the caller names, before its metadata are asked *)
(* for (cli/files.go).  A reply is looked for in at most two pages of its  *)
(* thread, each of which may begin with the parent, which proves nothing.  *)
(*                                                                         *)
(* Slack is honest, and then pages through the conversation it holds, or   *)
(* answers with any messages and any cursor.                               *)
(***************************************************************************)
EXTENDS Naturals, FiniteSets

CONSTANTS MaxTS,      \* timestamps are 1 .. MaxTS
          MaxDeleted  \* bound on deleted messages

BoundsAssumption == MaxTS \in Nat /\ MaxDeleted \in Nat

None == 0
Times == 1 .. MaxTS
PageBudget == 2     \* pages asked for, and messages on each

\* thread is None for a message outside of any thread, and may be None or its
\* own time for a parent; file says whether the file is attached.
Messages == [ts : Times, thread : Times \cup {None}, file : BOOLEAN]

VARIABLES
  honest,        \* Slack: whether it pages through the conversation it holds
  conversation,  \* Slack: the messages there are
  stable,        \* Slack: those that are there since the start
  deleted        \* Slack: how many were deleted
slack == <<honest, conversation, stable, deleted>>

VARIABLES
  pc,
  messageTS,     \* --message-ts
  threadTS,      \* --thread-ts, or None
  pages,         \* pages asked for
  cursor,        \* Slack's cursor: the time of the last message, or None
  proof          \* the message that was found
command == <<pc, messageTS, threadTS, pages, cursor, proof>>

vars == <<slack, command>>

NoMessage == [ts |-> None, thread |-> None, file |-> FALSE]

TypeOK ==
  /\ honest \in BOOLEAN
  /\ conversation \in SUBSET Messages /\ stable \in SUBSET conversation
  /\ deleted \in 0 .. MaxDeleted
  /\ pc \in {"search", "found", "info", "ready", "not found", "failed"}
  /\ messageTS \in Times /\ threadTS \in Times \cup {None}
  /\ pages \in 0 .. PageBudget
  /\ cursor \in Times \cup {None}
  /\ proof \in Messages \cup {NoMessage}

\* One message at each of the times S, with its thread and its file
Posted(S, of, has) ==
  {m \in Messages : m.ts \in S /\ m.thread = of[m.ts] /\ m.file = has[m.ts]}

\* Times are unique, and replies are later than the parent of their thread,
\* which is not itself a reply.
Conversations ==
  {c \in {Posted(S, of, has) : S \in SUBSET Times, of \in [Times -> Times \cup {None}],
                               has \in [Times -> BOOLEAN]} :
     \A m, n \in c : /\ m.thread # None => m.thread <= m.ts
                     /\ m.thread = n.ts => n.thread \in {None, n.ts}}

Init ==
  /\ honest \in BOOLEAN
  /\ conversation \in IF honest THEN Conversations ELSE {{}}
  /\ stable = conversation /\ deleted = 0
  /\ messageTS \in Times /\ threadTS \in Times \cup {None}
  /\ pc = "search" /\ pages = 0 /\ cursor = None /\ proof = NoMessage

-----------------------------------------------------------------------------
(* Slack *)

Delete ==
  /\ deleted < MaxDeleted
  /\ \E m \in conversation :
       conversation' = conversation \ {m} /\ stable' = stable \ {m}
  /\ deleted' = deleted + 1
  /\ UNCHANGED <<honest, command>>

\* What the exact window shows: the message itself, in a thread behind the
\* parent.  The history does not show replies.
Shown(m) ==
  IF threadTS = None THEN m.ts = messageTS /\ m.thread \in {None, m.ts}
  ELSE m.ts = threadTS \/ (m.ts = messageTS /\ m.thread = threadTS)

\* An answer is the messages on the page, whose order does not matter here, those
\* of them that are on it more than once, and the cursor.  An honest page goes on
\* behind the cursor, is not empty while something is left, and may begin with
\* the parent again.
HonestAnswers ==
  LET shown == {m \in conversation : Shown(m)}
      left == {m \in shown : m.ts > cursor}
      heads == {S \in SUBSET left : /\ S = {} => left = {}
                                    /\ \A m \in S, n \in left \ S : m.ts < n.ts}
      Last(S) == {m.ts : m \in {m \in S : \A n \in S : n.ts <= m.ts}}
  IN UNION {[page : {S, S \cup {m \in shown : m.ts = threadTS}},
             twice : {{}},
             next : Last(S) \cup (IF S = left THEN {None} ELSE {})] : S \in heads}

\* The client refuses a page of more than was asked for: one message of the
\* history, two of a thread.
ErraticAnswers ==
  LET asked == IF threadTS = None THEN 1 ELSE PageBudget
      Of(list) == {list[i] : i \in DOMAIN list}
      Again(list) == {m \in Of(list) : \E i, j \in DOMAIN list :
                                         i < j /\ list[i] = m /\ list[j] = m}
  IN {[page |-> Of(list), twice |-> Again(list), next |-> next] :
        list \in UNION {[1 .. k -> Messages] : k \in 0 .. asked}, next \in {None, 1, 2}}

Answers == IF honest THEN HonestAnswers ELSE ErraticAnswers

-----------------------------------------------------------------------------
(* The command *)

Return(how) == pc' = how

\* Slack refuses a read, or it fails.
Fail ==
  /\ pc \in {"search", "found", "info"}
  /\ Return("failed")
  /\ UNCHANGED <<slack, messageTS, threadTS, pages, cursor, proof>>

\* Without a thread the history must show exactly this message.
SearchHistory ==
  /\ pc = "search" /\ threadTS = None
  /\ \E answer \in Answers :
       IF answer.twice = {} /\ \E m \in answer.page : answer.page = {m} /\ m.ts = messageTS
       THEN proof' \in answer.page /\ Return("found")
       ELSE Return("not found") /\ UNCHANGED proof
  /\ UNCHANGED <<slack, messageTS, threadTS, pages, cursor>>

InThread(m) == m.thread = threadTS \/ (m.ts = threadTS /\ m.thread = None)

\* A page holds the message once, not even in two equal copies, and beside it only
\* the parent of the thread.
Acceptable(answer) ==
  /\ Cardinality({m \in answer.page : m.ts = messageTS}) <= 1
  /\ \A m \in answer.twice : m.ts # messageTS
  /\ \A m \in answer.page : m.ts \in {messageTS, threadTS} /\ InThread(m)

\* Bug: one page has to do.
BudgetOne == 1

\* readFileMessage asks for so many pages.
Budget == PageBudget

Proofs(page) == {m \in page : m.ts = messageTS}

SearchThread ==
  /\ pc = "search" /\ threadTS # None
  /\ pages' = pages + 1
  /\ \E answer \in Answers :
       IF ~Acceptable(answer) THEN Return("not found") /\ UNCHANGED <<cursor, proof>>
       ELSE IF Proofs(answer.page) # {}
       THEN proof' \in Proofs(answer.page) /\ Return("found") /\ UNCHANGED cursor
       ELSE IF answer.next \in {None, cursor} \/ pages' = Budget
       THEN Return("not found") /\ UNCHANGED <<cursor, proof>>
       ELSE cursor' = answer.next /\ UNCHANGED <<pc, proof>>
  /\ UNCHANGED <<slack, messageTS, threadTS>>

\* The file must be attached to the message.
CheckAttached ==
  /\ pc = "found"
  /\ Return(IF proof.file THEN "info" ELSE "not found")
  /\ UNCHANGED <<slack, messageTS, threadTS, pages, cursor, proof>>

\* files.info answers with the metadata of the file.
AskInfo ==
  /\ pc = "info"
  /\ Return("ready")
  /\ UNCHANGED <<slack, messageTS, threadTS, pages, cursor, proof>>

Next == Delete \/ Fail \/ SearchHistory \/ SearchThread \/ CheckAttached \/ AskInfo

Spec == Init /\ [][Next]_vars

-----------------------------------------------------------------------------
(* Properties *)

Named(m) ==
  /\ m.ts = messageTS
  /\ IF threadTS = None THEN m.thread \in {None, m.ts} ELSE InThread(m)

\* An attachment that is there all the time is found within the page budget,
\* wherever an honest Slack cuts its pages and repeats the parent.
AttachmentIsFound ==
  honest /\ pc = "not found" => ~\E m \in stable : Named(m) /\ m.file

\* Slack is asked for the metadata only of a file attached to the message that
\* the caller named, in the thread the caller named, whatever Slack answers.
NothingElseIsProof ==
  pc \in {"info", "ready"} =>
    /\ proof.file /\ proof.ts = messageTS
    /\ threadTS # None => InThread(proof)

\* The exact read proves the attachment that the caller named, and no other
\* (cli/files.go:94-142).
ProofIsExact == AttachmentIsFound /\ NothingElseIsProof
=============================================================================
