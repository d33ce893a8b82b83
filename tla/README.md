# A specification of slack-agent-cli

These modules specify and verify the parts of `slack-agent-cli` whose
correctness depends on order: two stores changed one after the other, files that
several processes edit, a profile that is replaced while others use it, and a
message that must be sent once and reported truthfully.

The program is a command line tool. Every command is a process that runs once and
ends. Processes share four things: the profile registry (`profiles.json`), the
policy registry (`policies.json`), the macOS Keychain, and Slack. Two `flock`
locks, one beside each registry, are all the coordination there is. Skill installs
stand apart: they share a directory of their own, with its own lock.

## Inventory

| component | code | state | operations | what is hard | what makes it correct |
|---|---|---|---|---|---|
| profile registry | `internal/profile` | `profiles.json`: one profile per name with a credential generation | `transact` (load, edit, save, roll back), `Get` and `List` without the lock | crash or power loss around the rename, a failed directory sync, an unlock that fails after the commit | a loadable file always; outcomes reported as they are |
| credentials | `internal/auth` | a Keychain item per name, bound to a profile | `Login`, `Logout`, `LoadBound` | two stores and no transaction across them, reads without a lock | both stores agree; a retired binding is never accepted |
| lock | `internal/lockfile` | an open file with `flock` | `With` | errors while unlocking, death of the holder, cancellation while waiting | one holder; always given back |
| policy registry | `internal/policy` | `policies.json`: read and write targets per profile generation | `Replace`, `RebindRead`, `Add`, `Require` | edits planned before the lock, profiles replaced meanwhile, capacity | writes within reads; nothing inherited by another login; no lost edit |
| sending | `internal/cli/send.go`, `workflow.go`, `internal/intent` | a receipt the user approved, a session | `messages send`, `workflow preview`, `workflow send` | the profile is read three times, the answer may be lost | what is posted was approved |
| write state and reports | `internal/writestate`, `output`, `errx`, `cmd` | a tracker, an exit status, a marker on stderr | `MarkStarted`, `MarkConfirmed`, `Run`, `recoveredStatus` | panics and failures after the dispatch | no exit status claims what is not known |
| Slack client: calls | `internal/slack/client.go`, `transport.go` | none | posts, reads, the start of a download | odd statuses, lost and overlong answers | no message's fate is told that is not known; every body is closed |
| thread pages | `internal/slack/thread.go`, `internal/cursor` | only the cursor the caller brings back | one page of a thread | the thread, the profile and Slack's pages change between two pages | no reply skipped or delivered twice; every chain ends; one login per chain |
| target preflight | `internal/cli/session.go` | none | classify the sharing of a conversation, compare it with the policy | missing flags, three reads of a workspace that changes | no shared conversation is taken for one that is not |
| profile selection | `internal/cli/workflow.go`, `workflow_target.go` | none | `workflow resolve` | unlocked reads of both stores | never a guess among several profiles |
| Agent Skills | `internal/skills` | a directory tree and its manifest | install, uninstall, recovery | a crash between two renames or inside a removal, a user who edits meanwhile | only complete trees are visible; a version is kept; nothing of the user's is deleted |
| attachments and downloads | `internal/cli/files*.go`, `internal/slack/files.go` | a temporary and a final file | prove the attachment, stream, publish | partial files, a destination that appears, power loss | only the named message is proof; the output is whole or absent; nothing is replaced |
| token prompt | `internal/auth/tty*.go` | the terminal mode | read a token | a signal between two mode changes, a read that stays blocked | echo comes back or the user is told; no token after a signal |
| the rest | `contract`, `safefile`, `local.go`, tools | none | constants, bounded reads, output | nothing across steps | not modelled |

The commands interact through the shared stores only. Login and logout change
the Keychain and `profiles.json` under the profile lock. Policy edits change
`policies.json` under the policy lock, with a profile they read before it.
`workflow read` and `workflow send` hold the profile lock and take the policy lock
inside it. Everything that talks to Slack opens a session: the profile, then the
credential, neither under a lock unless a workflow runs it.

The hazards that follow from this are listed in `PROJECT.json`, each at its line
with the properties that would catch it going wrong.

## Modules

| module | what it is |
|---|---|
| `AuthTransaction` | login, logout and sessions over the registry, the lock and the Keychain |
| `BindingPromise` | what these promise their callers: an atomic map of bindings |
| `AuthTransactionProofs` | theorems about `AuthTransaction` |
| `PolicySets` | the edits of one policy set as functions |
| `PolicyRegistry` | the policy file, its commands, and the profiles and conversations that change around it |
| `PolicyRegistryProofs` | theorems about `PolicyRegistry` |
| `SendFlow` | one message from approval to exit status, among several senders |
| `SendFlowProofs` | theorems about `SendFlow` and `SendPromise` |
| `SkillInstall` | installing and uninstalling a Skill, with its recovery |
| `SkillInstallProofs` | theorems about `SkillInstall` |
| `SlackCall` | one call of the Slack client, from the dispatch to its result |
| `PostPromise` | what the client promises to a command that posts |
| `SendPromise` | the senders of `SendFlow` against the same promise |
| `ThreadPages` | a reader following the pages of one thread |
| `ThreadPagesProofs` | theorems about `ThreadPages` |
| `AttachmentProof` | the exact read that proves an attachment |
| `FileDownload` | downloads to one output path |
| `FileDownloadProofs` | theorems about `FileDownload` |
| `TargetSharing` | the classification of a target before it is read or sent to |
| `WorkflowResolve` | the selection of a profile for a target |
| `TokenPrompt` | the token prompt on the terminal |
| `FairCommands` | credentials, senders and the token prompt under fairness, for one run |
| `FairCommandsProofs` | theorems about its token prompt, and those of `SendFlowProofs` carried over to its senders |
| `Commands` | downloads, client calls, attachments, sharing and profile selection, for one run |
| `CommandsProofs` | theorems about the components of `Commands` other than the download |
| `MC...` | symmetry sets for the runs |

Two compositions hold the parts together. `SlackCall` implements `PostPromise` for a
write, and `SendPromise` shows that the senders of `SendFlow` expect nothing else of the
client; so the dispatch actions of `SendFlow` are what `client.go` and `transport.go` do.
`AuthTransaction` implements `BindingPromise`, and by `SessionIsCurrent` a session, although
it reads two stores, is as good as one look at both: that is why `SendFlow`, `ThreadPages` and
`TargetSharing` take a login and a session as single steps.

`FairCommands` and `Commands` are of another kind. An invocation runs one command, and the components they
gather share no variable, so a behaviour of the program is, as far as one of them is concerned, a behaviour
of that one. `running` chooses it in the initial state and the others stand still: TLC explores the sum of
their state spaces, not the product, and nothing is said about two of them at once. Each gives the
first component by `EXTENDS` and the others by `INSTANCE`, with their variables under other names.

### AuthTransaction

A profile is its credential generation. `NewGeneration` draws a random one per
login, and token, identity digest and capabilities are fixed together with it, so
`Credential.ValidateBinding` holds exactly when the generations are equal. The
registry is a function from names to generations.

`pc` walks through `lockfile.With` (`AcquireLock`, `GiveUpLock`, `ReleaseLock`), `transact`
(`LoadRegistry`, `SaveRegistry`, `SyncDirectory`, `Rollback`) and the closure of `Login` or
`Logout` (`ReadCredential`, `SaveCredential`, `DeleteCredential`). Each store operation is a step that
succeeds or fails. Loading, `ReadProfile` and `LoadBound` are single reads: other commands run
between them. `survivable` is the set of registry versions that a power loss may leave
on disk: a rename adds its version, a directory sync leaves only the newest. `Crash`
ends one process at any step and frees its `flock`; `PowerLoss` ends all and picks a version.
The Keychain is assumed durable and atomic per operation; it is outside the
repository. Three history variables (`before`, `retired`, `drifted`) remember what the
properties compare with.

### PolicySets and PolicyRegistry

A policy set is a generation and two functions from conversations to a recorded
sharing status. `PolicySets` holds the edits the code makes in memory.
`PolicyRegistry` has one process per command with what it read before the lock
(`gen`, `targets`), the transaction on the file, and the environment: `Login` and `Logout` as the
single renames they are for a reader, `ChangeSharing` in Slack, and power loss. A
logout does not touch the policy file, as in the code. `Abandon` stands for every
error on the way from the lock to the rename. `UnlockFails` is an unlock or a close that fails after the
edit and turns a saved change into a commit error, an edit without one into a plain error. A workflow enrols
(`BeginEnroll`) or, with `--cursor`, reads with the policy there is (`BeginContinue`), in both cases under the
profile lock. `Loadable` has the bounds that `load` checks: profiles, targets of a list, and the size of the file,
which the model counts in listed targets (`MaxListed`).

### SendFlow

A member of `Sends` is a process that sends one message, with `messages send` or
`workflow send`. A text stands for text, recipient and thread together, and a receipt
is the pair of generation and text its digest identifies. `request` is the fate of
the HTTP request in Slack, decided by `SlackDecides` at any time after the dispatch,
also after the sender stopped listening, panicked or was killed. `messages send` reads its text after the
first look at the profile (`ReadProfile`, `ReadText`), a workflow before it takes the lock; both compare the receipt with what they
have (`Receipt`). `Return`, `Unlock`, `Report` and
`Panic` follow a result through `lockfile.With`, `Run` and the panic handler to the exit
status. Exit classes are kept only as far as the documents give them a meaning:
`ok`, `conflict` (exit 9, nothing claimed) and `failed`.

### SkillInstall

The parent directory has three names that matter: the destination, `.previous` (what an
install replaces) and `.removing` (what an uninstall takes away). Each holds nothing, an intact
tree (a version of the program), a foreign tree or a partial one. `Intact` stands for
`readOwned` and `verifyOwned` together: the manifest is there and every file agrees with it.

The stages follow the code under the lock: recovery (`RecoverInstall`, `RecoverUninstall`,
`SyncRecovery`), the check of the destination (`Examine`), the rename (`Swap`), the second
check of what was moved (`Verify`), the rename of the staged tree (`Publish`), the
removal (`Clean`, which may leave a partial tree at any moment), the sync of the parent
(`SyncParent`) and the unlock (`UnlockFails`). Every one may fail. Staging is private, complete and synced before it is
renamed, so it is the tree `version` and nothing else.

`survivable` holds the states of the directory since its last sync: directory operations are assumed to
reach the disk in their order. `Meddle` is the user, who at any moment replaces the
destination or removes one of the three. Fsync failures, crashes and power losses come between any two
steps. `installed` remembers that an install succeeded and that neither an uninstall nor
the user has taken the tree away.

### SlackCall, PostPromise and SendPromise

A call goes through `do` (`Dispatch`, `TransportFails`, `Judge`), `readResponse` (`ReadBody`) and the
decoding of `call` together with the comparison that `PostMessage` or the counted reads make afterwards (`Decode`).
A body is its encoding, its length on the wire and in memory, and a text that stands for
what the client can tell apart: broken JSON, trailing data, the known groups of error codes,
a result that matches the request or does not. Lengths reach two above each bound, so
that both the bound and the extra byte of the limited reader are met.
`Truthful` is the one assumption about Slack: a refusal the client knows by its status or code
(401, 403, the listed codes) comes only when the message was not committed, and an
acknowledgement of exactly this message only when it was. `SlackDecides` may come before,
between or after anything else.

`PostPromise` has the fate of one request and what the caller was told. `SendPromise` maps every
sender of `SendFlow` to it; a sender that ends before it was told anything treats its
message as one of unknown fate.

### ThreadPages

The program keeps nothing between two pages: `held` is the cursor that the caller brings
back, with the continuation inside it and the generation it was bound to. `Valid` is
`readThreadContinuation` as it is written, not the set of continuations that
`threadPage` writes; that the second is part of the first is a property. A page is `BeginPage` (session, `UnbindThread`, the
validator) and `EndPage` (the answer and all of `threadPage`), with `ReadFails` for every error
that leaves the caller with the same cursor. `Fault` collects the refusals of an answer.

Slack is modelled twice. An honest Slack (`honest`) pages through the thread in ascending or
descending order, with pages that are shorter or longer than asked for, empty, with or without the parent,
and with a last cursor behind which nothing is left, while `Post` and `Delete` change the thread. An erratic one
returns any set of messages and any cursor. Timestamps are numbers; a page that is
unordered or repeats a message is one of the refusals that `Fault` calls `page`.

Two limits of the code are visible in the conditions of the properties. In descending order a
deletion between two fetches moves the native pages under the reader, and a reply may
be skipped without an error; docs/contract.md says that concurrent deletions do not provide
a complete snapshot, so `NothingSkipped` asks for ascending pages or no deletion. And the
model takes Slack to answer one native cursor with pages of one length: if the refetched page
were shorter, the following one would overlap its recorded range and the chain would end with an error.

### AttachmentProof and FileDownload

`AttachmentProof` is `readFileMessage` and what `files get` and `files download` do with it. The exact window shows
the message and, in a thread, the parent before it; an honest Slack may cut these into
pages anywhere and repeat the parent, an erratic one answers anything.

In `FileDownload` all processes were given the same output path. Contents are lengths: a
file holds the first bytes of its body, which is shorter, as long, or longer than declared.
Every step of `writeDownload` may fail, processes are killed, the user creates and removes the output
path, and a power failure brings back any version of the directory since the start (the code never
syncs it) with any prefix of a file that was not synced.

### TargetSharing

Slack's answer to each flag is right or missing. The classification is `classifyTarget` with its three
reads, between which the truth may change; `Require` compares it with the status the
policy was set for. `inside` and `apart` remember whether the conversation was free of outsiders, or of
organization sharing, at some moment since the command began: no check can promise more.

### WorkflowResolve

A profile is its generation and whether it fits the request. The resolver reads the list, for
an explicit name the profile again, then for each candidate the policy twice; logins,
logouts and edits come between any two reads, and an edit may bind its set to any generation the name has had (`drawn`),
since a slow command has read its profile before. `steady` are the names that nobody touched meanwhile.

### TokenPrompt

Two goroutines, as in `readTokenTTY`: the prompt with its select, its poll and its deferred calls, and
the reader. `restored` and `closed` are the two `sync.Once`. Signals go to a channel of one between
`Notify` and `Stop` and have their default effect outside. Whether closing the terminal ends a
blocked read is a choice (`unblocks`): `device.Fd()` may have put the descriptor into blocking
mode, and then it does not.

## Runs

| run | question | bounds | result |
|---|---|---|---|
| `auth` | can an interleaving, failure, kill or power loss break agreement or a report? | 2 commands, 2 names, room for 1 profile, 3 logins | no error, 337,927 states |
| `policy` | can a target reach a login that never named it? | 2 commands, 1 name, 1 conversation with 2 statuses, 2 logins | no error, 422,063 states |
| `capacity` | is another profile's set lost, or a list over its bound? | 2 commands, 2 names, 2 conversations, lists of 1, room for 1 profile | no error, 519,543 states |
| `send` | is only the approved posted, and every status true? | 2 sends, 2 texts, 2 logins | no error, 6,994,177 states |
| `skill` | is a partial tree visible, a version or a user's file lost, a report untrue? | 2 commands, 2 versions, 2 user changes | no error, 788,367 states |
| `recovery` | can every interrupted change be finished? | 1 command, 1 version, no user changes | violated |
| `overflow` | does the policy file stay loadable? | 2 names, room for 1 | violated |
| `reset` | does a reset replace stale sets only? | 3 logins | violated |
| `unlock` | is a workflow's report as honest as that of `messages send`? | 1 send | violated |
| `fair` | is the pair of stores one atomic map, is every lock returned; does a send that has its lock and its text end, and keep to what the client said; does the prompt restore the echo and end? | `AuthTransaction`: 2 commands, 2 names, 2 logins, no symmetry; `SendPromise`: the same 2 processes, 1 text, 1 login; `TokenPrompt`: 3 signals | no error, 342,104 states |
| `thread` | is a reply skipped or delivered twice, a cursor written that is refused or that serves another login, a chain without end? | 4 replies, limits and pages up to 3, 2 logins, 1 deletion, 1 failed read; an honest Slack and one that answers anything | no error, 391,555 states |
| `commands` | is part of a file published or a file replaced; a message's fate misreported; a wrong attachment proved; a shared conversation taken for a private one; a profile guessed? | `FileDownload`: 2 downloads, 2 chunks, 2 user changes, 1 power failure; `SlackCall`: every status, encoding, text and length up to two over the bounds; `AttachmentProof`: 3 timestamps, 1 deletion, every conversation and every page; `TargetSharing`: 2 changes, any flag missing; `WorkflowResolve`: 2 names, 3 logins, 3 edits | no error, 1,357,722 states |

Why these bounds are enough to be interesting. Two processes suffice for every race
over a lock or an unlocked read, and a third actor is always there in the
environment (logins, Slack, power loss). `MaxProfiles` and `MaxTargets` are 1 or 2 so that
capacity is reached in a few steps. `MaxListed`, which stands for the size of the file,
is never exceeded in these runs, so that they go on behind that point. `MaxGen` counts logins in one behaviour: two are
needed to replace a profile, a third to come back to a name, or, in `reset`, to
retire the generation that a slow command holds. `MaxVersions` bounds how many versions
of the policy file a power loss can choose from; directory syncs that fail are
allowed while the bound is not exceeded. In `SkillInstall` the same is done by `MaxUnsynced`: a
command starts only while no more than three states are unsynced, and adds its own.

In `ThreadPages` four replies with pages of at most three give an overflowing page, an empty one and a whole one in one
chain; `MaxItems` stands for the maximal page, so that the item reserved for the parent
matters at the highest limit. `MaxHops` allows an empty page that is followed by another cursor. `FileDownload` needs
two chunks to tell an empty file, a part, the whole and too much apart, two processes
and two changes by the user for a path that comes and goes. In `WorkflowResolve` two names are an
allowed and an eligible one, or two of a kind. Two changes let a conversation become shared and unshared again
between the reads of `TargetSharing`. In `TokenPrompt` three signals fill the channel, are dropped and
come again after it was emptied.

A command that ends becomes `idle` and stands for
the next process, so behaviours are long although processes are few.

### What the violated runs show

- `overflow`: `Replace` adds a set for a new profile without the bound that `Add` checks and `load`
  enforces, and logout keeps policy sets. After enough logins under different names
  the whole policy file is refused, also by the commands that could repair it. The run shows the number of profiles; with room for
  both names and a file of three targets (`MaxProfiles` 2, `MaxListed` 3) the same property fails on the size, since `save` writes what
  `load` may refuse as larger than `MaxRegistryBytes`. Full read lists of some 40 profiles are more than that 1 MiB.
- `reset`: `--reset-stale-policy` compares with the profile read before the lock. When a
  login and its first policy overtake it, it replaces the current set with one for the
  retired generation. The effect is a lost policy, never an extra permission:
  `NothingInherited` holds.
- `recovery`: `RemoveAll` deletes a backup or a quarantine under the name that recovery looks at. When
  it is interrupted midway, the rest has no manifest, or not all of its files, and every
  later applied command of that kind ends with an ownership conflict until the user
  deletes the rest by hand. Nothing is lost: the destination is what was asked for.
- `unlock`: a workflow send that Slack acknowledged is reported as a plain failure when the
  unlock fails, without the marker that `messages send` gives for a lost report.

### Properties

`AuthTransaction`: `StoresAgree` allows registry and Keychain to differ only while a transaction is
between its two writes, or on a name that a crash or a failed rollback touched.
`RetiredNeverUsable` is why a failed directory sync must not roll back. `ReportsAreTrue`
compares an exit with both stores and with their values when the lock was taken.
`SessionIsCurrent` says the two unlocked reads act as one. `KeepsPromise` is the refinement:
`usable` is the generation on which both stores agree, `dead` the retired bindings.

`PolicyRegistry`: `NothingInherited` checks each change of the file: every target is either kept
for the same generation or was inspected by the running command for its own
generation. `ReportsAreTrue`, `WritesWithinReads`, `TargetsFit` and `WorkflowIsCurrent` are
described at their definitions.

`SendFlow`: `PostsAsApproved` is about the credential in the request, not the one in the receipt.
`ReportIsHonest` covers exit 0, the marker and plain failures; exit 9 claims nothing. Receipts
are not one-shot across invocations in the code, and no property says they are.

`SkillInstall`: `VisibleIsComplete` and `VersionKept` are about every state that a power loss may leave,
not only the one that is seen. `UserFilesAreSafe` counts foreign trees: a command may move
one, never lose one. `ReportsAreTrue` compares what is reported with the directory, and success
with what is on disk, as long as the user did not interfere.

`ThreadPages`: `NoneTwice` holds against any answers because the recorded ranges exclude every
overlap. `NothingSkipped` is about a chain that ended well. `ContinuationsHold` relates the writer
of a continuation to its validator, and the cursor to the login it serves. `ChainEnds` is why the cursor may advance only when a page is
consumed, and must advance then.

`FileDownload`: `OutputIsWhole` counts every version of the directory that a power failure may bring
back. `NothingReplaced` is an action property: what is at the path is taken away only by the user or
the power failure. `ReportsAreTrue` works both ways, so a failed download never is the
file at the path, and a temporary file that stays is mentioned. `AttachmentProof`: `ProofIsExact` has the two directions of one
exact search, `AttachmentIsFound` and `NothingElseIsProof`.

`TargetSharing`: `NeverQuieter`. `WorkflowResolve`: `VerdictIsRight` is `NeverGuesses`, which allows the resolver to miss a profile
that changed under its eyes, never one that stood there all the time, and `OneLook`, which compares a quiet run with one
look at both stores.

`TokenPrompt`: `EchoIsRestored` includes processes that a signal kills before or after the prompt.
`TokenIsGood` includes that no signal came before the line. `SignalRestores` asks for the
return of the prompt where something ends the blocked read, and for the echo alone where nothing does.

`SlackCall`: `KeepsPromise` (`CallKeepsPromise` in `Commands`) is the refinement of `PostPromise`, with `AnswerIsWhole` and
`BodiesClosed`. `SendPromise`: `SendersKeepPromise`. The type invariants of the modules without a run of their own are proved, or
part of a proved invariant, and no run lists them.

### Fairness and deadlock

`AuthTransaction!FairSpec` lets the lock holder go on: none of its steps waits for another
process. `SendFlow!FairSpec` lets a running command go on: every request and every read has a
deadline. Neither assumes that a process waiting for a lock gets it, since the code polls
without a queue, nor that the stdin of `messages send` ends, which has no deadline (`Waits`). So `EverySendEnds` starts
after the lock was acquired or the text was read (`UnderWay`).
`ThreadPages!FairSpec` lets the caller follow its cursor and every read end; nobody has to post or
delete. `TokenPrompt!FairSpec`
runs both goroutines; the user need not type, and a blocked read ends only when there is input or the
closed terminal ends it. `FairCommands!AllFair` states the fairness of each of its components for that component.
`SlackDecides` is not fair: Slack may never answer. What really stops does not check for deadlock: the senders of `SendFlow`, a finished chain of
pages, a download, a prompt, a call, a resolved target. The shared stores go on for ever and are checked.

## Proofs

Every safety property of the runs that pass, invariant, action property or refinement, is also a theorem. All theorems are
for arbitrary constants under the named assumptions (finite names, `Nobody` is not
a process, bounds are naturals), so for any number of processes, names, generations, replies or chunks.
They have one form: an inductive invariant, one lemma for each action or group of actions that it survives, and what
follows. TLC checked each of these invariants on the bounds of its run as well.

`AuthTransactionProofs`: `TypeCorrect`, then `Inductive`. Its invariant `IInv` adds what `StoresAgree` leaves
unsaid: exactly the lock holder is between `load` and `release`; its snapshot is the published
registry, or that registry with its own edit; the credential it remembers for the
rollback is the one that agreed with the registry and is not retired; no generation in use is newer than
the last one drawn; the generation of a login that has not been published is known to
nobody else; the Keychain never holds a retired credential; and a profile read without
the lock is still registered, or retired. The last two give `NoRevival` and `CurrentSession`: a
credential that matches a profile read earlier is not retired, so the profile is still there.
`RInv` (`InductiveProgress`) adds how far the lock holder is (`Progress`), what each outcome says of both stores
(`Outcome`), that its snapshot and every survivable version fit the bound of `load`, and that the profiles of a version are current or
retired (`VersionsKnown`). It gives `AlwaysLoadable`, `TrueReports` and `Refinement`: with `usable` as the refinement
mapping, withdrawing a credential, publishing a registry, rolling back, opening and leaving a session are one step of
`BindingPromise` each, a power loss is its `PowerLoss` with the names it forgets as the witness, and every other step stutters.

`PolicyRegistryProofs`: `TypeCorrect`; `Inductive`, whose invariant has the holder of the policy lock
(`LockHeld`), what each command read before that lock and has planned (`CommandOK`), the profile lock that a workflow holds from its
enrolment on (`ProfileHeld`), what an ended edit has recorded (`RecordOK`), and that every survivable version is one
that the code could write (`AllSound`). `WritesAreReads`, `ListsFit`, `TrueReports` and `CurrentWorkflow` follow; `NoInheritance` is an action
property, proved from the plans for every step but a power loss, which may bring back what an earlier edit recorded: each of `Replace`, `RebindRead` and `Add` keeps a target for the generation it was
recorded for, or records one that its command inspected. `PolicyLoadable` is not a theorem: the run `overflow` refutes it.

`SendFlowProofs`: `TypeCorrect`; `HonestReports`, whose invariant ties the tracker, the outcome and the fate
of the request to each stage; `ApprovedPosts`, from the confirmation being checked
against the profile that is read; and `LockCovers`, from the lock being held at every stage it names. The invariant of
`HonestReports` also gives `Refinement`: each sender implements `PostPromise`, a panic or a kill while it waits being its `LoseAnswer`.

`SkillInstallProofs`: `TypeCorrect`; `Inductive`, whose invariant says what the lock holder knows of
the three names at each stage: after the recovery of an install no backup is left; what was
moved aside is complete until it is published, and is not the user's once it may be removed;
an installed tree is at the destination, in the backup, or about to be put back; and every
state that a power loss may leave is sound. From it follow `Complete`, `Retained` and, by
counting foreign trees step by step, `UserFilesSafe`. `TrueReports` needs a second invariant, about what a command
that is not disturbed will find at the destination and on disk.

`ThreadPagesProofs`: the work is in lemmas about the helpers: which messages a page of the native order is (`FirstIsPrefix`,
`LastIsSuffix`), and what `Valid` allows. `Followed` says what a cursor remembers of the pages before it: every reply that was
delivered lies *behind* it, in the recorded range, or before the native cursor. A page that repeats one is refused by `Fault`, which gives `NothingTwice` against any Slack; and what
`threadPage` writes passes `Valid` again (`AdvanceIsValid`, `RefetchIsValid`), which gives `CursorsServe`. `Complete` is the
other half, for an honest Slack: every stable reply was delivered or is *to come*, beyond the native cursor and not among what the refetch of a
page leaves out. Both together are `Inductive`, and `NothingMissed` is its case of a finished chain.

`FileDownloadProofs`: for each download, what its stage says of its temporary file, of the output and of what it will report
(`Known`, `Published`, `Reported`), over every version of the directory that a power failure may bring back. It gives `WholeOrNothing`
and `TrueReports`; `NoReplacement` follows from the exclusive rename.

`FairCommandsProofs`: for the prompt, what the terminal shows at each stage of either goroutine (`Echo`), whether a signal was noticed
(`Noticed`), and what a token on its way out is worth (`Worth`). `EchoComesBack` and `TokenUnseen` follow. `SendersKeepTheirWord` is the
refinement of `SendFlowProofs` for the senders of this module: `SendFlowProofs` is instantiated with their names, and every step is shown to be the same.

`CommandsProofs` has one invariant for each component, kept by its own steps and by those of
the others. `SharingInv`: a "no" among the answers stands for a moment at which it was true. `ResolveInv`: for a name that nobody
touched, what was found is what one look at both stores would find (`AsOneLook`), and the verdict follows from that. `ProofInv`: an
honest Slack has shown at most the parent before the named message (`Searched`). `CallInv`: the answer that is judged and decoded
is the one that Slack gave, a decoded body is whole, and an outcome says no more of a write than its fate. `CallRefines`
is the refinement of `PostPromise` by the client; with `SendFlowProofs!Refinement` both sides of the boundary are proved against the same promise.

Only model-checked: liveness under fairness (`LockIsReturned`, `EverySendEnds`, `ChainEnds`, `SignalRestores`), which with `ENABLED` is beyond the prover.
Induction over data does not occur: the models have no recursive definition.

## Not modelled

Token, timestamp and JSON syntax, the length of cursors, the building of requests, the wording of errors and the
envelopes, the Keychain's own implementation, release tools and documents. `auth list`,
`auth status` and the policy `show` command only print what they read; `me`, `users get`, `conversations list` and `get`
and `messages history` make one call and print it, with Slack's own cursor bound as that of a thread is. The previews of
the policy registry compute the same sets as the edits and save nothing, and a dry run of
a Skill command only reads. `safefile` is one bounded read without a state of its own; a file that
cannot be read is an outcome of every load.
The validation of each target (`targets` are unique by construction) is data, and so are the rules for the
locator and the content type of a download, which are one refusal. A download whose output directory is moved meanwhile
ends in the directory that was opened, under a path that now names another; only the report is affected.
What was typed before the prompt appeared, a SIGKILL during it, and signals that arrive between
the last poll and `signal.Stop`, which the code drops, are outside `TokenPrompt`.

## Plan

1. done: `AuthTransaction`, `BindingPromise`, proofs; `PolicySets`, `PolicyRegistry`; `SendFlow`, proofs;
   `SkillInstall`, proofs.
2. done: `ThreadPages`, `AttachmentProof`, `FileDownload`, `TokenPrompt`, `WorkflowResolve`, `TargetSharing`.
3. done: `SlackCall` with `PostPromise`, and `SendPromise`, the composition with `SendFlow`; `FairCommands` and `Commands` for the runs.
4. done: theorems for every safety property of the passing runs, with the refinements of `BindingPromise` and `PostPromise`.
5. Theorems that say more than the runs ask: what holds of the refuted properties under the condition that saves them (a policy file
   stays loadable while no login comes after the last free place and its lists fit into its size; a reset replaces stale sets only while no login overtakes it; a workflow's report is honest
   if the unlock does not fail), and the type invariants of `AttachmentProof`, `TargetSharing`, `WorkflowResolve` and `TokenPrompt` as
   theorems of their own.
