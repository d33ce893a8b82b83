------------------------------ MODULE ThreadPages ------------------------------
(***************************************************************************)
(* A reader follows the pages of one Slack thread: messages thread         *)
(* (cli/reads.go), the bound cursor (cursor/cursor.go) and the             *)
(* continuation that the client keeps inside it (slack/thread.go).         *)
(*                                                                         *)
(* The program keeps nothing between two pages.  All it remembers is in    *)
(* the cursor that the caller brings back, while the thread and the        *)
(* profile may have changed.  Slack is either honest, and then pages       *)
(* through the replies in one order, or returns any replies and any        *)
(* native cursor at all.                                                   *)
(***************************************************************************)
EXTENDS Naturals, Integers, FiniteSets

CONSTANTS MaxTS,        \* timestamps are 1 .. MaxTS, the parent's is the first
          MaxItems,     \* contract.MaxCollectionLimit
          MaxHops,      \* bound on empty native pages in a row
          MaxGen,       \* bound on the logins of one behaviour
          MaxDeleted,   \* bound on deleted replies
          MaxFailures   \* bound on failed reads

ASSUME BoundsAssumption ==
  /\ MaxTS \in Nat /\ MaxTS >= 2
  /\ MaxItems \in Nat /\ MaxItems >= 2
  /\ MaxHops \in Nat /\ MaxGen \in Nat \ {0}
  /\ MaxDeleted \in Nat /\ MaxFailures \in Nat

None == 0
Parent == 1
Times == 1 .. MaxTS
Replies == Times \ {Parent}
Slots == Times \cup {None}
Limits == 1 .. MaxItems

\* Slack's native cursor: the reply it continues from, and a count that
\* tells the cursors of empty pages apart.
Natives == [at : Slots, hop : 0 .. MaxHops]
NoNative == [at |-> None, hop |-> 0]

Ranges == [min : Slots, max : Slots]
NoRange == [min |-> None, max |-> None]

Continuations == [upstream : Natives, after : Slots, previous : Ranges,
                  page : Ranges, direction : {-1, 0, 1}]

\* What a native cursor alone says, NoNative for the first page.
From(native) == [upstream |-> native, after |-> None, previous |-> NoRange,
                 page |-> NoRange, direction |-> 0]

\* version 1 wraps a native cursor of an older release, 2 a continuation
Cursors == [version : 0 .. 2, gen : 0 .. MaxGen, state : Continuations]
NoCursor == [version |-> 0, gen |-> 0, state |-> From(NoNative)]

VARIABLES
  honest,     \* Slack: whether it pages through the thread it holds
  thread,     \* Slack: the replies there are
  stable,     \* Slack: the replies that are there since the chain began
  order,      \* Slack: the order of its pages, "up" or "down"
  gone,       \* Slack: deleted replies
  size,       \* Slack: how many replies it returns for the held native cursor
  profile     \* the registered credential generation
world == <<honest, thread, stable, order, gone, size, profile>>

VARIABLES
  pc,         \* of the reader: "idle" between two pages, "reading" in one
  limit,      \* --limit of every page of the chain
  held,       \* the cursor to bring back
  gen,        \* the generation of the session that reads
  failures,   \* failed reads so far
  copies,     \* how often each message was delivered
  readAs,     \* the generations whose credential fetched a delivered page
  cause       \* why the chain stopped
reader == <<pc, limit, held, gen, failures, copies, readAs, cause>>

vars == <<world, reader>>

Causes == {"none", "cursor", "continuation", "count", "page", "order"}

TypeOK ==
  /\ honest \in BOOLEAN
  /\ thread \in SUBSET Replies /\ stable \in SUBSET Replies
  /\ order \in {"up", "down"}
  /\ gone \in SUBSET Replies
  /\ size \in 0 .. MaxItems
  /\ profile \in 1 .. MaxGen
  /\ pc \in {"idle", "reading", "finished", "stopped"}
  /\ limit \in Limits
  /\ held \in Cursors
  /\ gen \in 0 .. MaxGen
  /\ failures \in 0 .. MaxFailures
  /\ copies \in [Times -> Nat]
  /\ readAs \in SUBSET (1 .. MaxGen)
  /\ cause \in Causes

Delivered == {t \in Times : copies[t] > 0}

-----------------------------------------------------------------------------
(* The continuation *)

ValidRange(r) == (r.min = None) = (r.max = None) /\ r.min <= r.max

Overlap(previous, page) ==
  /\ previous # NoRange /\ page # NoRange
  /\ page.min <= previous.max /\ previous.min <= page.max

\* threadRangeDirection of two ranges that do not overlap
Direction(previous, page) ==
  IF previous = NoRange \/ page = NoRange THEN 0
  ELSE IF page.min > previous.max THEN 1 ELSE -1

\* What readThreadContinuation accepts: the checks do not trust the cursor to
\* be one that threadPage wrote.
Valid(s) ==
  /\ s.upstream # NoNative \/ s.after # None
  /\ ValidRange(s.previous) /\ ValidRange(s.page)
  /\ (s.after = None) = (s.page = NoRange)
  /\ s.direction # 0 => s.previous # NoRange
  /\ s.after # None => /\ s.after <= s.page.max
                       /\ s.after >= s.page.min \/ s.after = Parent
  /\ s.previous # NoRange => s.previous.min > Parent
  /\ s.page # NoRange => s.page.min > Parent
  /\ ~Overlap(s.previous, s.page)
  /\ Direction(s.previous, s.page) \in {0, s.direction}

\* The range of a native page over all its fetches.
Accumulated(s, raw) ==
  LET seen == (raw \ {Parent}) \cup
                (IF s.page = NoRange THEN {} ELSE {s.page.min, s.page.max})
  IN IF seen = {} THEN {NoRange}
     ELSE {r \in [min : seen, max : seen] : \A t \in seen : r.min <= t /\ t <= r.max}

\* What is left of a native page: neither a repeated parent nor anything at or
\* before the last message delivered from it.
Remaining(s, raw, initial) ==
  {t \in raw : (initial \/ t # Parent) /\ (s.after = None \/ t > s.after)}

\* Bug: the range of the consumed page is forgotten.
AdvanceForgets(s, page, native, direction) ==
  [From(native) EXCEPT !.direction = direction, !.previous = s.previous]

\* The native page is consumed: its range becomes the previous one.
Advance(s, page, native, direction) ==
  [upstream |-> native, after |-> None,
   previous |-> IF page = NoRange THEN s.previous ELSE page,
   page |-> NoRange, direction |-> direction]

\* Bug: the inferred direction is not kept.
RefetchUndirected(s, page, last, direction) ==
  [s EXCEPT !.after = last, !.page = page]

\* The native page has more: it is fetched again, from the last one delivered.
Refetch(s, page, last, direction) ==
  [s EXCEPT !.after = last, !.page = page, !.direction = direction]

\* The first messages of a page, at most n of them.
First(S, n) == {t \in S : Cardinality({u \in S : u < t}) < n}

\* Bug: no item is reserved for the parent.
UpstreamLimitUnreserved(lim) == lim

\* The raw items requested, one fewer than Slack may return beside the parent.
UpstreamLimit(lim) == IF lim < MaxItems THEN lim ELSE MaxItems - 1

-----------------------------------------------------------------------------
(* Slack and the user *)

Beyond(native) ==
  IF native.at = None THEN thread
  ELSE IF order = "up" THEN {t \in thread : t > native.at}
  ELSE {t \in thread : t < native.at}

Last(S, n) == {t \in S : Cardinality({u \in S : u > t}) < n}

\* In ascending order a page may be shorter than asked for, or empty, or, up to
\* 99 replies, longer.  In descending order it is as long as asked for.  The
\* same cursor is answered with the same length.
Sizes(lim, hop) ==
  LET asked == UpstreamLimit(lim)
      most == IF asked < MaxItems THEN MaxItems - 1 ELSE asked
      least == IF hop < MaxHops THEN 0 ELSE 1
  IN IF honest /\ order = "up" THEN least .. most ELSE {asked}

NativePage(native) ==
  IF order = "up" THEN First(Beyond(native), size) ELSE Last(Beyond(native), size)

\* The cursor returned with a page.  Slack may return one when nothing is left.
NextNatives(native, page) ==
  {n \in Natives :
     \/ page = Beyond(native) /\ n = NoNative
     \/ page = {} /\ n = [native EXCEPT !.hop = @ + 1]
     \/ /\ page # {} /\ n.at \in page /\ n.hop = 0
        /\ \A t \in page : IF order = "up" THEN t <= n.at ELSE n.at <= t}

\* The first page begins with the parent; a later one may repeat it.
HonestAnswers(native, initial) ==
  LET page == NativePage(native)
  IN [raw : {page \cup {Parent}} \cup (IF initial THEN {} ELSE {page}),
      next : NextNatives(native, page)]

\* Any messages of the thread, in order, and one of three native cursors.
ErraticAnswers ==
  [raw : SUBSET Times, next : {n \in Natives : n.at <= 2 /\ n.hop = 0}]

Answers(native, initial) ==
  IF honest THEN HonestAnswers(native, initial) ELSE ErraticAnswers

Post ==
  /\ honest
  /\ \E t \in Replies :
       /\ \A u \in thread \cup gone : t > u
       /\ thread' = thread \cup {t}
  /\ UNCHANGED <<honest, stable, order, gone, size, profile, reader>>

Delete ==
  /\ Cardinality(gone) < MaxDeleted
  /\ \E t \in thread :
       /\ thread' = thread \ {t}
       /\ stable' = stable \ {t}
       /\ gone' = gone \cup {t}
  /\ UNCHANGED <<honest, order, size, profile, reader>>

Login ==
  /\ profile < MaxGen
  /\ profile' = profile + 1
  /\ UNCHANGED <<honest, thread, stable, order, gone, size, reader>>

-----------------------------------------------------------------------------
(* The reader *)

Stop(why) ==
  /\ cause' = why /\ pc' = "stopped"
  /\ UNCHANGED <<world, limit, held, failures, copies, readAs>>

\* UnbindThread: a cursor serves the login that received it.
Unbound(cursor, g) == cursor.version # 0 => cursor.gen = g

\* The session is loaded and the cursor read, before Slack is asked.
BeginPage ==
  /\ pc = "idle"
  /\ gen' = profile
  /\ IF ~Unbound(held, profile) THEN Stop("cursor")
     ELSE IF held.version = 2 /\ ~Valid(held.state) THEN Stop("continuation")
     ELSE /\ pc' = "reading"
          /\ UNCHANGED <<world, limit, held, failures, copies, readAs, cause>>

\* The session, the policy or Slack refuses; the caller tries the same again.
ReadFails ==
  /\ pc = "reading"
  /\ failures < MaxFailures
  /\ failures' = failures + 1
  /\ pc' = "idle"
  /\ UNCHANGED <<world, limit, held, gen, copies, readAs, cause>>

\* The direction of the chain after this page; the first ranges decide it.
Turn(s, page) ==
  LET d == Direction(s.previous, page) IN IF d = 0 THEN s.direction ELSE d

\* The last message delivered from the native page, now or before.
Frontier(s, out) ==
  IF out = {} THEN {s.after}
  ELSE {last \in out : \A t \in out : t <= last}

\* Bug: Slack's cursor is advanced although the page was not consumed.
FollowingEarly(s, page, last, remaining, next) ==
  Advance(s, page, next, Turn(s, page))

\* The continuation after a page.
Following(s, page, last, remaining, next) ==
  IF Cardinality(remaining) <= limit THEN Advance(s, page, next, Turn(s, page))
  ELSE Refetch(s, page, last, Turn(s, page))

\* Why an answer is refused before anything of it is delivered.
Fault(s, answer, page, initial) ==
  IF Cardinality(answer.raw) > MaxItems THEN "count"
  ELSE IF \/ initial /\ Parent \notin answer.raw
          \/ answer.next # NoNative /\ answer.next = s.upstream
  THEN "page"
  ELSE IF \/ Overlap(s.previous, page)
          \/ s.direction # 0 /\ Turn(s, page) # s.direction
  THEN "order"
  ELSE "none"

\* The page is delivered, with the cursor of what follows unless nothing does.
Deliver(out, next) ==
  /\ copies' = [t \in Times |-> copies[t] + IF t \in out THEN 1 ELSE 0]
  /\ readAs' = readAs \cup {gen}
  /\ held' = next
  /\ pc' = IF next = NoCursor THEN "finished" ELSE "idle"
  /\ IF next.state.upstream = held.state.upstream THEN UNCHANGED size
     ELSE size' \in Sizes(limit, next.state.upstream.hop)
  /\ UNCHANGED <<honest, thread, stable, order, gone, profile>>
  /\ UNCHANGED <<limit, gen, failures, cause>>

\* Slack answers, and threadPage makes a page of it.
EndPage ==
  /\ pc = "reading"
  /\ LET s == held.state
         initial == held.version = 0
     IN \E answer \in Answers(s.upstream, initial) :
        LET remaining == Remaining(s, answer.raw, initial)
            out == First(remaining, limit)
        IN \E page \in Accumulated(s, answer.raw), last \in Frontier(s, out) :
           LET why == Fault(s, answer, page, initial)
               next == Following(s, page, last, remaining, answer.next)
           IN IF why # "none" THEN Stop(why) /\ UNCHANGED gen
              ELSE IF Cardinality(remaining) <= limit /\ answer.next = NoNative
              THEN Deliver(out, NoCursor)
              ELSE IF next = s THEN Stop("page") /\ UNCHANGED gen
              ELSE Deliver(out, [version |-> 2, gen |-> gen, state |-> next])

Init ==
  /\ honest \in BOOLEAN
  /\ thread \in IF honest THEN SUBSET Replies ELSE {{}}
  /\ order \in IF honest THEN {"up", "down"} ELSE {"up"}
  /\ profile = 1 /\ gone = {}
  /\ pc = "idle" /\ limit \in Limits /\ size \in Sizes(limit, 0)
  /\ held \in {NoCursor} \cup
       {[version |-> 1, gen |-> 1, state |-> From([at |-> t, hop |-> 0])] :
          t \in thread}
  /\ stable = Beyond(held.state.upstream)
  /\ gen = 0 /\ failures = 0
  /\ copies = [t \in Times |-> 0]
  /\ readAs = {} /\ cause = "none"

Next == Post \/ Delete \/ Login \/ BeginPage \/ ReadFails \/ EndPage

Spec == Init /\ [][Next]_vars

\* Slack answers within the deadlines of a read, and the caller follows the
\* cursor.  Nobody has to post, delete or log in.
FairSpec == Spec /\ WF_vars(BeginPage) /\ WF_vars(EndPage)

-----------------------------------------------------------------------------
(* Properties *)

\* No chain delivers a message twice, whatever Slack answers and however the
\* thread changes between two fetches of one native page.
NoneTwice == \A t \in Times : copies[t] <= 1

\* A cursor that threadPage writes serves the login that received it and no
\* other: readThreadContinuation accepts it, so that no page hands out a cursor
\* that ends the chain, and all delivered pages are read with one credential.
ContinuationsHold ==
  /\ held.version = 2 => Valid(held.state)
  /\ Cardinality(readAs) <= 1

\* A chain that ends without an error has delivered every reply that was
\* there all the time.  In descending order a deletion may move the native
\* pages under the reader; the contract excludes that.
NothingSkipped ==
  honest /\ pc = "finished" /\ (order = "up" \/ gone = {}) => stable \subseteq Delivered

\* While Slack pages in order every chain ends; in ascending order, whatever is
\* posted or deleted meanwhile, with the last page, unless a login came between.
ChainEnds ==
  honest => <>(/\ pc \in {"finished", "stopped"}
               /\ order = "up" => pc = "finished" \/ cause = "cursor")
=============================================================================
