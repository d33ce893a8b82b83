-------------------------- MODULE FileDownloadProofs --------------------------
(***************************************************************************)
(* Proofs about files download, for any number of processes, any size, and *)
(* any number of changes by the user and of power failures.                *)
(*                                                                         *)
(* That no version of the directory shows part of an attachment rests on   *)
(* what a download knows of its file at each stage, and on that file being *)
(* left alone once a name points to it.  IInv says both.                   *)
(***************************************************************************)
EXTENDS FileDownload, TLAPS

\* What a download has established about its file.
Known(d) ==
  /\ content[d] <= body[d]
  /\ pc[d] = "check" => ~More(d)
  /\ pc[d] \in {"sync", "close", "publish"} => content[d] = Size /\ body[d] = Size
  /\ pc[d] \in {"close", "publish"} => d \in synced

\* A file that a version of the directory shows belongs to a download that succeeded.
Published(d) ==
  \A v \in survivable : v.output = d => pc[d] = "done" /\ Whole(d) /\ d \in synced

\* Between the creation of its temporary file and its end.
Streaming == {"request", "stream", "check", "sync", "close", "publish", "cleanup"}

\* What a download and the directory say of each other.
Reported(d) ==
  /\ result[d] = "success" => pc[d] = "done"
  /\ outages = 0 /\ changes = 0 => (result[d] = "success" <=> dir.output = d)
  /\ outages = 0 /\ d \in dir.temporaries => pc[d] \in Streaming \cup {"dead"} \/ told[d]

IInv ==
  /\ TypeOK
  /\ dir \in survivable
  /\ \A d \in Downloads : Known(d) /\ Published(d) /\ Reported(d)

-----------------------------------------------------------------------------
(* Type correctness *)

\* Every change of a version of the directory leaves a version.
LEMMA VersionsOfDirectories ==
  /\ \A v \in Directories, h \in Held : [v EXCEPT !.output = h] \in Directories
  /\ \A v \in Directories, d \in Downloads :
       /\ [v EXCEPT !.temporaries = @ \cup {d}] \in Directories
       /\ [v EXCEPT !.temporaries = @ \ {d}] \in Directories
       /\ [output |-> d, temporaries |-> v.temporaries \ {d}] \in Directories
  BY DEF Directories, Held

\* A new version is well-typed, and so is the set of those that may come back.
LEMMA BecomeType ==
  ASSUME TypeOK, NEW v \in Directories, Become(v)
  PROVE  dir' \in Directories /\ survivable' \in SUBSET Directories
  BY DEF TypeOK, Become

\* No step changes the type of a variable.
LEMMA TypeStep == TypeOK /\ [Next]_vars => TypeOK'
  <1> SUFFICES ASSUME TypeOK, [Next]_vars
               PROVE  TypeOK'
    OBVIOUS
  <1> USE VersionsOfDirectories DEF Goto, Return, PCs, disk, local
  <1>1. CASE UserWrites \/ UserRemoves
    <2>1. Nothing \in Held /\ User \in Held
      BY DEF Held
    <2>2. dir' \in Directories /\ survivable' \in SUBSET Directories
      BY <1>1, <2>1, BecomeType DEF UserWrites, UserRemoves, TypeOK
    <2>3. changes' \in 0 .. MaxChanges
      BY <1>1, BoundsAssumption DEF UserWrites, UserRemoves, TypeOK
    <2>4. QED
      BY <1>1, <2>2, <2>3 DEF UserWrites, UserRemoves, TypeOK
  <1>2. CASE PowerLoss
    <2>1. outages' \in 0 .. MaxOutages
      BY <1>2, BoundsAssumption DEF PowerLoss, TypeOK
    <2>2. QED
      BY <1>2, <2>1 DEF PowerLoss, TypeOK
  <1>3. ASSUME NEW d \in Downloads, Kill(d) \/ Prepare(d) \/ Inspect(d)
        PROVE  TypeOK'
    BY <1>3 DEF Kill, Prepare, Inspect, TypeOK
  <1>4. ASSUME NEW d \in Downloads, Create(d)
        PROVE  TypeOK'
    <2>1. dir' \in Directories /\ survivable' \in SUBSET Directories
      BY <1>4, BecomeType DEF Create, TypeOK
    <2>2. 0 \in Lengths
      BY BoundsAssumption DEF Lengths
    <2>3. QED
      BY <1>4, <2>1, <2>2 DEF Create, TypeOK
  <1>5. ASSUME NEW d \in Downloads, Request(d) \/ Check(d) \/ Close(d)
        PROVE  TypeOK'
    BY <1>5 DEF Request, Check, Close, TypeOK
  <1>6. ASSUME NEW d \in Downloads, Stream(d)
        PROVE  TypeOK'
    <2>1. More(d) => content[d] + 1 \in Lengths
      BY BoundsAssumption DEF More, Limit, Lengths, TypeOK
    <2>2. QED
      BY <1>6, <2>1 DEF Stream, TypeOK
  <1>7. ASSUME NEW d \in Downloads, Sync(d)
        PROVE  TypeOK'
    BY <1>7 DEF Sync, TypeOK
  <1>8. ASSUME NEW d \in Downloads, Publish(d) \/ Cleanup(d)
        PROVE  TypeOK'
    <2>1. dir' \in Directories /\ survivable' \in SUBSET Directories
      BY <1>8, BecomeType DEF Publish, Renamed, Cleanup, TypeOK
    <2>2. QED
      BY <1>8, <2>1 DEF Publish, Cleanup, TypeOK
  <1>9. CASE UNCHANGED vars
    BY <1>9 DEF vars, TypeOK
  <1>10. QED
    BY <1>1, <1>2, <1>3, <1>4, <1>5, <1>6, <1>7, <1>8, <1>9 DEF Next, Download

\* A download starts with well-typed variables.
LEMMA InitType == Init => TypeOK
  <1> SUFFICES ASSUME Init
               PROVE  TypeOK
    OBVIOUS
  <1>1. dir \in Directories /\ survivable \in SUBSET Directories
    BY DEF Init, Directories, Held
  <1>2. 0 \in Lengths /\ 0 \in 0 .. MaxChanges /\ 0 \in 0 .. MaxOutages
    BY BoundsAssumption DEF Lengths
  <1>3. QED
    BY <1>1, <1>2 DEF Init, TypeOK, PCs

-----------------------------------------------------------------------------
(* The steps *)

\* What a step of one download may touch.
Footprint(d) ==
  /\ \A x \in Downloads \ {d} :
       /\ pc'[x] = pc[x] /\ body'[x] = body[x] /\ content'[x] = content[x]
       /\ result'[x] = result[x] /\ told'[x] = told[x]
       /\ x \in synced' <=> x \in synced
  /\ \A v \in survivable' \ survivable : v.output \in {d, dir.output}
  /\ dir'.output \in {d, dir.output}
  /\ dir'.output # dir.output => dir.output = Nothing
  /\ dir'.temporaries \ {d} = dir.temporaries \ {d}
  /\ UNCHANGED <<changes, outages>>

\* A step of one download leaves the file and the report of another alone.
LEMMA OthersKeep ==
  ASSUME IInv, NEW d \in Downloads, NEW e \in Downloads, e # d, Footprint(d)
  PROVE  Known(e)' /\ Published(e)' /\ Reported(e)'
  <1>1. Known(e)'
    BY DEF IInv, Known, More, Footprint
  <1>2. Published(e)'
    BY DEF IInv, Published, Whole, Footprint
  <1>3. Reported(e)'
    <2>1. dir'.output = e <=> dir.output = e
      BY DownloadsAssumption DEF Footprint
    <2>2. e \in dir'.temporaries <=> e \in dir.temporaries
      BY DEF Footprint
    <2>3. QED
      BY <2>1, <2>2 DEF IInv, Reported, Footprint
  <1>4. QED
    BY <1>1, <1>2, <1>3

\* A step of a download stays in its footprint.
LEMMA StaysInFootprint ==
  ASSUME TypeOK, NEW d \in Downloads, Download(d) \/ Kill(d)
  PROVE  Footprint(d)
  <1> USE DEF Footprint, TypeOK, Goto, Return, disk, Directories
  <1>1. CASE Kill(d) \/ Prepare(d) \/ Inspect(d)
    BY <1>1 DEF Kill, Prepare, Inspect
  <1>2. CASE Create(d)
    BY <1>2 DEF Create, Become
  <1>3. CASE Request(d) \/ Check(d) \/ Close(d)
    BY <1>3 DEF Request, Check, Close
  <1>4. CASE Stream(d) \/ Sync(d)
    BY <1>4 DEF Stream, Sync
  <1>5. CASE Publish(d)
    BY <1>5 DEF Publish, Renamed, Become
  <1>6. CASE Cleanup(d)
    BY <1>6 DEF Cleanup, Become
  <1>7. QED
    BY <1>1, <1>2, <1>3, <1>4, <1>5, <1>6 DEF Download

\* A download that is not done is shown by no version.
LEMMA NotShown ==
  ASSUME IInv, NEW d \in Downloads, pc[d] # "done"
  PROVE  /\ \A v \in survivable : v.output # d
         /\ dir.output # d /\ result[d] # "success"
  BY DEF IInv, Published, Reported

\* A step of a download leaves what it knows, shows and reports in order.
LEMMA OwnStep ==
  ASSUME IInv, NEW d \in Downloads, Download(d) \/ Kill(d)
  PROVE  Known(d)' /\ Published(d)' /\ Reported(d)'
  <1> USE DEF Goto, Return
  <1>1. /\ TypeOK /\ Known(d) /\ Reported(d) /\ pc[d] # "done"
        /\ \A v \in survivable : v.output # d
        /\ dir.output # d /\ result[d] # "success" /\ dir \in survivable
        /\ content[d] \in Nat /\ body[d] \in Nat /\ body[d] <= Size + 1 /\ Size \in Nat
    <2>1. pc[d] # "done"
      BY DEF Download, Kill, Prepare, Inspect, Create, Request, Stream, Check, Sync, Close,
         Publish, Cleanup, Running
    <2>2. content[d] \in Nat /\ body[d] \in Nat /\ body[d] <= Size + 1 /\ Size \in Nat
      BY BoundsAssumption DEF IInv, TypeOK, Lengths
    <2>3. QED
      BY <2>1, <2>2, NotShown DEF IInv
  <1>2. CASE Kill(d) \/ Prepare(d) \/ Inspect(d)
    <2>1. /\ UNCHANGED <<dir, survivable, content, synced, changes, outages, body, told>>
          /\ pc'[d] \in {"dead", "inspect", "create", "done"}
          /\ result'[d] # "success"
          /\ pc'[d] # "dead" => pc[d] \notin Streaming \cup {"dead"}
      BY <1>1, <1>2 DEF Kill, Prepare, Inspect, disk, TypeOK, Streaming
    <2>2. Known(d)' /\ Published(d)'
      BY <1>1, <2>1 DEF Known, Published
    <2>3. Reported(d)'
      BY <1>1, <2>1 DEF Reported
    <2>4. QED
      BY <2>2, <2>3
  <1>3. CASE Create(d)
    <2>1. CASE pc'[d] = "request"
      <3>1. /\ dir' = [dir EXCEPT !.temporaries = @ \cup {d}]
            /\ survivable' = survivable \cup {dir'}
            /\ content'[d] = 0 /\ UNCHANGED <<changes, outages, body, result, told>>
        BY <1>1, <1>3, <2>1 DEF Create, Become, TypeOK
      <3>2. dir'.output = dir.output
        BY <1>1, <3>1 DEF TypeOK, Directories
      <3>3. Known(d)'
        BY <1>1, <2>1, <3>1 DEF Known
      <3>4. \A v \in survivable' : v.output # d
        BY <1>1, <3>1, <3>2
      <3>5. Published(d)'
        BY <3>4 DEF Published
      <3>6. Reported(d)'
        BY <1>1, <2>1, <3>1, <3>2 DEF Reported, Streaming
      <3>7. QED
        BY <3>3, <3>5, <3>6
    <2>2. CASE pc'[d] # "request"
      <3>1. /\ UNCHANGED <<dir, survivable, content, synced, changes, outages, body, told>>
            /\ pc'[d] = "done" /\ result'[d] = "failed" /\ pc[d] = "create"
        BY <1>1, <1>3, <2>2 DEF Create, TypeOK
      <3>2. QED
        BY <1>1, <3>1 DEF Known, Published, Reported, Streaming
    <2>3. QED
      BY <2>1, <2>2
  <1>4. CASE Request(d) \/ Check(d) \/ Close(d)
    <2>1. /\ UNCHANGED <<dir, survivable, content, synced, changes, outages, body, told>>
          /\ pc'[d] \in {"stream", "sync", "publish", "cleanup"} /\ result'[d] # "success"
          /\ pc'[d] = "sync" => pc[d] = "check" /\ content[d] = Size
          /\ pc'[d] = "publish" => pc[d] = "close"
      BY <1>1, <1>4 DEF Request, Check, Close, disk, TypeOK
    <2>2. pc'[d] = "sync" => body[d] = Size
      BY <1>1, <2>1 DEF Known, More, Limit
    <2>3. Known(d)' /\ Published(d)'
      BY <1>1, <2>1, <2>2 DEF Known, Published
    <2>4. Reported(d)'
      BY <1>1, <2>1 DEF Reported, Streaming
    <2>5. QED
      BY <2>3, <2>4
  <1>5. CASE Stream(d)
    <2>1. /\ UNCHANGED <<dir, survivable, synced, changes, outages, body, told>>
          /\ pc'[d] \in {"stream", "check", "cleanup"} /\ result'[d] # "success"
          /\ content'[d] <= body[d]
          /\ pc'[d] = "check" => content' = content /\ ~More(d)
      BY <1>1, <1>5 DEF Stream, TypeOK, More, Known
    <2>2. Known(d)' /\ Published(d)'
      BY <1>1, <2>1 DEF Known, Published, More
    <2>3. Reported(d)'
      BY <1>1, <2>1 DEF Reported, Streaming
    <2>4. QED
      BY <2>2, <2>3
  <1>6. CASE Sync(d)
    <2>1. /\ UNCHANGED <<dir, survivable, content, changes, outages, body, told>>
          /\ pc[d] = "sync" /\ pc'[d] \in {"close", "cleanup"} /\ result'[d] # "success"
          /\ pc'[d] = "close" => d \in synced'
      BY <1>1, <1>6 DEF Sync, TypeOK
    <2>2. Known(d)' /\ Published(d)'
      BY <1>1, <2>1 DEF Known, Published
    <2>3. Reported(d)'
      BY <1>1, <2>1 DEF Reported, Streaming
    <2>4. QED
      BY <2>2, <2>3
  <1>7. CASE Publish(d)
    <2>1. /\ UNCHANGED <<content, synced, changes, outages, body, told>> /\ pc[d] = "publish"
      BY <1>7 DEF Publish
    <2>2. CASE pc'[d] = "done"
      <3>1. /\ dir' = [output |-> d, temporaries |-> dir.temporaries \ {d}]
            /\ survivable' = survivable \cup {dir'} /\ result'[d] = "success"
        BY <1>1, <1>7, <2>2 DEF Publish, Renamed, Become, TypeOK
      <3>2. QED
        BY <1>1, <2>1, <2>2, <3>1 DEF Known, Published, Whole, Reported
    <2>3. CASE pc'[d] # "done"
      <3>1. /\ UNCHANGED <<dir, survivable>> /\ pc'[d] = "cleanup" /\ result'[d] # "success"
        BY <1>1, <1>7, <2>3 DEF Publish, TypeOK
      <3>2. QED
        BY <1>1, <2>1, <3>1 DEF Known, Published, Reported, Streaming
    <2>4. QED
      BY <2>2, <2>3
  <1>8. CASE Cleanup(d)
    <2>1. /\ UNCHANGED <<content, synced, changes, outages, body, result>> /\ pc'[d] = "done"
          /\ \A v \in survivable' : v.output # d
          /\ dir'.output # d /\ (d \in dir'.temporaries => told'[d])
      BY <1>1, <1>8 DEF Cleanup, Become, TypeOK, Directories
    <2>2. QED
      BY <1>1, <2>1 DEF Known, Published, Reported
  <1>9. QED
    BY <1>2, <1>3, <1>4, <1>5, <1>6, <1>7, <1>8 DEF Download

\* So every download is in order after a step of one.
LEMMA DownloadStep ==
  ASSUME IInv, NEW d \in Downloads, Download(d) \/ Kill(d)
  PROVE  \A e \in Downloads : Known(e)' /\ Published(e)' /\ Reported(e)'
  BY StaysInFootprint, OwnStep, OthersKeep DEF IInv

\* The user makes no file of a download appear, and takes none of them apart.
LEMMA UserStep ==
  ASSUME IInv, UserWrites \/ UserRemoves
  PROVE  \A e \in Downloads : Known(e)' /\ Published(e)' /\ Reported(e)'
  <1>1. /\ UNCHANGED <<content, synced, outages, pc, body, result, told>>
        /\ survivable' = survivable \cup {dir'} /\ dir'.output \in {Nothing, User}
        /\ dir'.temporaries = dir.temporaries /\ changes' = changes + 1
    BY DEF UserWrites, UserRemoves, Become, local, IInv, TypeOK, Directories
  <1>2. changes' # 0
    BY <1>1, BoundsAssumption DEF IInv, TypeOK
  <1>3. QED
    BY <1>1, <1>2, DownloadsAssumption
       DEF IInv, Known, More, Published, Whole, Reported

\* A version that comes back was sound before, and what it shows had been synced.
LEMMA PowerLossStep ==
  ASSUME IInv, PowerLoss
  PROVE  \A e \in Downloads : Known(e)' /\ Published(e)' /\ Reported(e)'
  <1> SUFFICES ASSUME NEW e \in Downloads
               PROVE  Known(e)' /\ Published(e)' /\ Reported(e)'
    OBVIOUS
  <1>1. /\ dir' \in survivable /\ survivable' = {dir'} /\ synced' = Downloads
        /\ content' \in [Downloads -> Lengths]
        /\ content'[e] <= content[e] /\ (e \in synced => content'[e] = content[e])
        /\ pc'[e] = IF pc[e] \in Running THEN "dead" ELSE pc[e]
        /\ UNCHANGED <<changes, body, result, told>> /\ outages' = outages + 1
    BY DEF PowerLoss
  <1>2. outages' # 0
    BY <1>1, BoundsAssumption DEF IInv, TypeOK
  <1>3. content'[e] \in Nat /\ content[e] \in Nat /\ body[e] \in Nat
    BY <1>1, BoundsAssumption DEF IInv, TypeOK, Lengths
  <1>4. pc'[e] \notin {"check", "sync", "close", "publish"}
    BY <1>1 DEF Running, PCs
  <1>5. Known(e)'
    BY <1>1, <1>3, <1>4 DEF IInv, Known
  <1>6. Published(e)'
    BY <1>1 DEF IInv, Published, Whole, Running
  <1>7. Reported(e)'
    BY <1>1, <1>2 DEF IInv, Reported, Running
  <1>8. QED
    BY <1>5, <1>6, <1>7

-----------------------------------------------------------------------------
(* The invariant, and what follows from it *)

\* The inductive invariant of the downloads holds in every reachable state, for any size and
\* any number of processes (cli/files_output.go:62-110).
THEOREM Inductive == Spec => []IInv
  <1>1. Init => IInv
    <2> SUFFICES ASSUME Init
                 PROVE  IInv
      OBVIOUS
    <2>1. TypeOK
      BY InitType
    <2>2. ASSUME NEW d \in Downloads
          PROVE  Known(d) /\ Published(d) /\ Reported(d)
      <3>1. dir.output \in {Nothing, User} /\ dir.temporaries = {}
        BY DEF Init
      <3>2. content[d] = 0 /\ body[d] \in Nat
        BY BoundsAssumption DEF Init, Lengths
      <3>3. QED
        BY <3>1, <3>2, DownloadsAssumption DEF Init, Known, Published, Reported
    <2>3. QED
      BY <2>1, <2>2 DEF Init, IInv
  <1>2. IInv /\ [Next]_vars => IInv'
    <2> SUFFICES ASSUME IInv, [Next]_vars
                 PROVE  IInv'
      OBVIOUS
    <2>1. TypeOK'
      BY TypeStep DEF IInv
    <2>2. dir' \in survivable'
      BY DEF IInv, Next, Download, Kill, Prepare, Inspect, Create, Request, Stream, Check, Sync,
         Close, Publish, Cleanup, UserWrites, UserRemoves, PowerLoss, Become, vars, disk
    <2>3. \A e \in Downloads : Known(e)' /\ Published(e)' /\ Reported(e)'
      <3>1. CASE UNCHANGED vars
        BY <3>1 DEF vars, disk, local, IInv, Known, More, Published, Whole, Reported
      <3>2. QED
        BY <3>1, DownloadStep, UserStep, PowerLossStep DEF Next
    <2>4. QED
      BY <2>1, <2>2, <2>3 DEF IInv
  <1>3. QED
    BY <1>1, <1>2, PTL DEF Spec

\* The types of the variables hold for any size and any number of processes.
THEOREM TypeCorrect == Spec => []TypeOK
  <1>1. IInv => TypeOK
    BY DEF IInv
  <1>2. QED
    BY <1>1, Inductive, PTL

\* No version of the directory that is seen, or that a power failure brings back, shows
\* part of an attachment (cli/files_output.go:62-110).
THEOREM WholeOrNothing == Spec => []OutputIsWhole
  <1>1. IInv => OutputIsWhole
    BY DEF IInv, Published, OutputIsWhole
  <1>2. QED
    BY <1>1, Inductive, PTL

\* Success means that the output path holds this file, and a temporary file that stays
\* is told of (cli/files_output.go:62-77).
THEOREM TrueReports == Spec => []ReportsAreTrue
  <1>1. IInv => ReportsAreTrue
    BY DEF IInv, Reported, Streaming, ReportsAreTrue
  <1>2. QED
    BY <1>1, Inductive, PTL

\* A download replaces nothing: what is at the output path goes only by the user's hand
\* or in a power failure.
THEOREM NoReplacement == Spec => NothingReplaced
  <1>1. IInv /\ [Next]_vars =>
          [dir.output # Nothing /\ dir'.output # dir.output
             => changes' # changes \/ outages' # outages]_vars
    <2> SUFFICES ASSUME IInv, Next, dir.output # Nothing, dir'.output # dir.output
                 PROVE  changes' # changes \/ outages' # outages
      OBVIOUS
    <2>1. CASE \E d \in Downloads : Download(d) \/ Kill(d)
      BY <2>1, StaysInFootprint DEF IInv, Footprint
    <2>2. CASE UserWrites \/ UserRemoves
      BY <2>2, BoundsAssumption DEF UserWrites, UserRemoves, IInv, TypeOK
    <2>3. CASE PowerLoss
      BY <2>3, BoundsAssumption DEF PowerLoss, IInv, TypeOK
    <2>4. QED
      BY <2>1, <2>2, <2>3 DEF Next
  <1>2. QED
    BY <1>1, Inductive, PTL DEF Spec, NothingReplaced
=============================================================================
