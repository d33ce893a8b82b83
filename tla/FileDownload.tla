----------------------------- MODULE FileDownload -----------------------------
(***************************************************************************)
(* files download: one attachment is streamed into a private temporary     *)
(* file and published under a name that must not exist (cli/files.go,      *)
(* cli/files_output.go, slack/files.go).                                   *)
(*                                                                         *)
(* A member of Downloads is one process; all of them were given the same   *)
(* output path, which the user may also create or remove at any time.      *)
(* Contents are lengths: what Slack sends is a body of some length, the    *)
(* metadata declare Size, and a file holds the first bytes of its body.    *)
(* The directory is never synced, so that any of its versions since the    *)
(* start may come back after a power failure.                              *)
(***************************************************************************)
EXTENDS Naturals, FiniteSets

CONSTANTS Downloads,    \* processes
          Size,         \* the declared size of the attachment, in chunks
          MaxChanges,   \* bound on what the user does to the output path
          MaxOutages,   \* bound on power failures
          Nothing, User \* what else the output path may hold

ASSUME DownloadsAssumption ==
  Nothing \notin Downloads /\ User \notin Downloads /\ Nothing # User
ASSUME BoundsAssumption ==
  Size \in Nat /\ MaxChanges \in Nat /\ MaxOutages \in Nat

Lengths == 0 .. Size + 1   \* a longer body is not told apart
Held == Downloads \cup {Nothing, User}
Directories == [output : Held, temporaries : SUBSET Downloads]

VARIABLES
  dir,         \* the output directory as processes see it
  survivable,  \* its versions, each of which a power failure may bring back
  content,     \* the bytes of the file of each download, under either name
  synced,      \* the downloads whose bytes are on disk
  changes,     \* what the user did so far
  outages      \* power failures so far
disk == <<dir, survivable, content, synced, changes, outages>>

VARIABLES
  pc,
  body,        \* the length of what Slack sends
  result,      \* what writeDownload returns
  told         \* whether the error says that a temporary file was left behind
local == <<pc, body, result, told>>

vars == <<disk, local>>

PCs == {"idle", "inspect", "create", "request", "stream", "check", "sync", "close",
        "publish", "cleanup", "done", "dead"}
Running == PCs \ {"idle", "done", "dead"}

TypeOK ==
  /\ dir \in Directories
  /\ survivable \in SUBSET Directories
  /\ content \in [Downloads -> Lengths]
  /\ synced \in SUBSET Downloads
  /\ changes \in 0 .. MaxChanges
  /\ outages \in 0 .. MaxOutages
  /\ pc \in [Downloads -> PCs]
  /\ body \in [Downloads -> Lengths]
  /\ result \in [Downloads -> {"none", "success", "failed", "conflict"}]
  /\ told \in [Downloads -> BOOLEAN]

Init ==
  /\ dir \in [output : {Nothing, User}, temporaries : {{}}]
  /\ survivable = {dir}
  /\ content = [d \in Downloads |-> 0]
  /\ synced = {}
  /\ changes = 0 /\ outages = 0
  /\ pc = [d \in Downloads |-> "idle"]
  /\ body \in [Downloads -> Lengths]
  /\ result = [d \in Downloads |-> "none"]
  /\ told = [d \in Downloads |-> FALSE]

Goto(d, stage) == pc' = [pc EXCEPT ![d] = stage]

Become(version) ==
  /\ dir' = version
  /\ survivable' = survivable \cup {version}

Return(d, how, stage) ==
  /\ result' = [result EXCEPT ![d] = how]
  /\ Goto(d, stage)

-----------------------------------------------------------------------------
(* The user and the machine *)

UserWrites ==
  /\ changes < MaxChanges /\ dir.output = Nothing
  /\ changes' = changes + 1
  /\ Become([dir EXCEPT !.output = User])
  /\ UNCHANGED <<content, synced, outages, local>>

UserRemoves ==
  /\ changes < MaxChanges /\ dir.output # Nothing
  /\ changes' = changes + 1
  /\ Become([dir EXCEPT !.output = Nothing])
  /\ UNCHANGED <<content, synced, outages, local>>

\* The process is killed; nothing of its deferred cleanup runs.
Kill(d) ==
  /\ pc[d] \in Running
  /\ Goto(d, "dead")
  /\ UNCHANGED <<disk, body, result, told>>

\* Bytes that were not synced may be lost in part, and directory entries
\* written since may not have reached the disk.
PowerLoss ==
  /\ outages < MaxOutages
  /\ outages' = outages + 1
  /\ dir' \in survivable
  /\ survivable' = {dir'}
  /\ content' \in {c \in [Downloads -> Lengths] :
                     \A d \in Downloads : c[d] <= content[d] /\
                                          (d \in synced => c[d] = content[d])}
  /\ synced' = Downloads
  /\ pc' = [d \in Downloads |-> IF pc[d] \in Running THEN "dead" ELSE pc[d]]
  /\ UNCHANGED <<changes, body, result, told>>

-----------------------------------------------------------------------------
(* A download *)

\* The session, the read policy, the attachment of the file to the exact
\* message, and its metadata: none of it touches the directory.
Prepare(d) ==
  /\ pc[d] = "idle"
  /\ \/ Goto(d, "inspect") /\ UNCHANGED result
     \/ Return(d, "failed", "done")
  /\ UNCHANGED <<disk, body, told>>

\* Lstat
Inspect(d) ==
  /\ pc[d] = "inspect"
  /\ \/ dir.output = Nothing /\ Goto(d, "create") /\ UNCHANGED result
     \/ dir.output # Nothing /\ Return(d, "conflict", "done")
     \/ Return(d, "failed", "done")
  /\ UNCHANGED <<disk, body, told>>

\* A random name of its own, with O_EXCL
Create(d) ==
  /\ pc[d] = "create"
  /\ \/ /\ Become([dir EXCEPT !.temporaries = @ \cup {d}])
        /\ content' = [content EXCEPT ![d] = 0]
        /\ synced' = synced \ {d}
        /\ Goto(d, "request") /\ UNCHANGED result
     \/ Return(d, "failed", "done") /\ UNCHANGED <<dir, survivable, content, synced>>
  /\ UNCHANGED <<changes, outages, body, told>>

\* The locator, the token, the declared size and the headers are checked; the
\* request may fail.
Request(d) ==
  /\ pc[d] = "request"
  /\ \/ Goto(d, "stream") /\ UNCHANGED result
     \/ Return(d, "failed", "cleanup")
  /\ UNCHANGED <<disk, body, told>>

\* Bug: the reader stops at the declared size.
LimitExact == Size

\* One byte more than declared is read, to notice that there is more.
Limit == Size + 1

More(d) == content[d] < body[d] /\ content[d] < Limit

\* Some bytes are read and written, or the body ends, or the limit; or the
\* network, the deadline, an interrupt or the local disk ends it, with part of
\* what was read written.
Stream(d) ==
  /\ pc[d] = "stream"
  /\ \/ /\ More(d)
        /\ \/ UNCHANGED <<pc, result>>
           \/ Return(d, "failed", "cleanup")
        /\ content' = [content EXCEPT ![d] = @ + 1]
     \/ ~More(d) /\ Goto(d, "check") /\ UNCHANGED <<content, result>>
     \/ Return(d, "failed", "cleanup") /\ UNCHANGED content
  /\ UNCHANGED <<dir, survivable, synced, changes, outages, body, told>>

\* The count must be the declared size.
Check(d) ==
  /\ pc[d] = "check"
  /\ IF content[d] # Size THEN Return(d, "failed", "cleanup")
     ELSE Goto(d, "sync") /\ UNCHANGED result
  /\ UNCHANGED <<disk, body, told>>

Sync(d) ==
  /\ pc[d] = "sync"
  /\ \/ synced' = synced \cup {d} /\ Goto(d, "close") /\ UNCHANGED result
     \/ Return(d, "failed", "cleanup") /\ UNCHANGED synced
  /\ UNCHANGED <<dir, survivable, content, changes, outages, body, told>>

Close(d) ==
  /\ pc[d] = "close"
  /\ \/ Goto(d, "publish") /\ UNCHANGED result
     \/ Return(d, "failed", "cleanup")
  /\ UNCHANGED <<disk, body, told>>

Renamed(d) == [output |-> d, temporaries |-> dir.temporaries \ {d}]

\* Bug: the rename replaces what is there.
PublishReplaces(d) ==
  /\ pc[d] = "publish"
  /\ \/ Become(Renamed(d)) /\ Return(d, "success", "done")
     \/ Return(d, "failed", "cleanup") /\ UNCHANGED <<dir, survivable>>
  /\ UNCHANGED <<content, synced, changes, outages, body, told>>

\* Bug: an output path that appeared meanwhile is taken for the own file.
PublishAssumed(d) ==
  /\ pc[d] = "publish"
  /\ \/ /\ dir.output = Nothing
        /\ Become(Renamed(d)) /\ Return(d, "success", "done")
     \/ /\ dir.output # Nothing
        /\ Become([dir EXCEPT !.temporaries = @ \ {d}]) /\ Return(d, "success", "done")
  /\ UNCHANGED <<content, synced, changes, outages, body, told>>

\* renameDownloadNoReplace; it is unsupported on some file systems.
Publish(d) ==
  /\ pc[d] = "publish"
  /\ \/ /\ dir.output = Nothing
        /\ Become(Renamed(d)) /\ Return(d, "success", "done")
     \/ /\ dir.output # Nothing
        /\ Return(d, "conflict", "cleanup") /\ UNCHANGED <<dir, survivable>>
     \/ Return(d, "failed", "cleanup") /\ UNCHANGED <<dir, survivable>>
  /\ UNCHANGED <<content, synced, changes, outages, body, told>>

\* The deferred close and removal of the temporary file
Cleanup(d) ==
  /\ pc[d] = "cleanup"
  /\ \/ Become([dir EXCEPT !.temporaries = @ \ {d}]) /\ UNCHANGED told
     \/ told' = [told EXCEPT ![d] = TRUE] /\ UNCHANGED <<dir, survivable>>
  /\ Goto(d, "done")
  /\ UNCHANGED <<content, synced, changes, outages, body, result>>

Download(d) ==
  \/ Prepare(d) \/ Inspect(d) \/ Create(d) \/ Request(d) \/ Stream(d) \/ Check(d)
  \/ Sync(d) \/ Close(d) \/ Publish(d) \/ Cleanup(d)

Next ==
  \/ \E d \in Downloads : Download(d) \/ Kill(d)
  \/ UserWrites \/ UserRemoves \/ PowerLoss

Spec == Init /\ [][Next]_vars

-----------------------------------------------------------------------------
(* Properties *)

\* The output path never holds part of an attachment, nor the beginning of a
\* body that is longer than declared: not while it is written, and not in any
\* version of the directory that a power failure may bring back.
Whole(d) == content[d] = Size /\ body[d] = Size
OutputIsWhole ==
  \A v \in survivable : \A d \in Downloads : v.output = d => Whole(d) /\ d \in synced

\* Only the user, or a power failure, takes away what is at the output path:
\* neither a file of the user's nor the file of another download is replaced.
NothingReplaced ==
  [][dir.output # Nothing /\ dir'.output # dir.output
       => changes' # changes \/ outages' # outages]_vars

\* What a download reports when it ended is so.  Success says that the output
\* path holds this file, and only success does, as long as nobody else touched
\* it; of two downloads at most one succeeds.  A temporary file is not left
\* behind without saying so (cli/files_output.go:62-77).
ReportsAreTrue ==
  outages = 0 => \A d \in Downloads : pc[d] = "done" =>
    /\ changes = 0 => (result[d] = "success" <=> dir.output = d)
    /\ d \in dir.temporaries => told[d]
=============================================================================
