-------------------------- MODULE ThreadPagesProofs --------------------------
(***************************************************************************)
(* Proofs about ThreadPages, for every bound of the model: threads of any  *)
(* length, any limit, any number of logins, deletions, failures and empty  *)
(* pages.                                                                  *)
(***************************************************************************)
EXTENDS ThreadPages, FiniteSetTheorems, TLAPS

-----------------------------------------------------------------------------
(* The first and the last members of a set of timestamps *)

\* A set of numbers that is not empty has a least member.
LEMMA LeastMember ==
  ASSUME NEW S \in SUBSET Nat, S # {}
  PROVE  \E x \in S : \A y \in S : x <= y
<1>. DEFINE upTo(x) == 0 .. x
            R == StrictSubsetOrdering(Nat)
            T == {upTo(x) : x \in S}
<1>1. \A x \in S : upTo(x) \in FiniteSubsetsOf(Nat)
  <2>. SUFFICES ASSUME NEW x \in S PROVE upTo(x) \in FiniteSubsetsOf(Nat)
    OBVIOUS
  <2>1. IsFiniteSet(0 .. x)
    BY FS_Interval
  <2>. QED
    BY <2>1 DEF FiniteSubsetsOf
<1>2. IsWellFoundedOn(R, FiniteSubsetsOf(Nat))
  BY FS_StrictSubsetOrderingWellFounded
<1>3. T \subseteq FiniteSubsetsOf(Nat) /\ T # {}
  BY <1>1
<1>4. \E A \in T : \A B \in T : ~(<<B, A>> \in R)
  <2>. HIDE DEF T, R
  <2>. QED
    BY <1>2, <1>3, WFMin
<1>5. PICK x \in S : \A B \in T : ~(<<B, upTo(x)>> \in R)
  BY <1>4
<1>6. ASSUME NEW y \in S, y < x PROVE FALSE
  <2>1. upTo(y) \subseteq upTo(x) /\ x \in upTo(x) /\ x \notin upTo(y)
    BY <1>6
  <2>2. <<upTo(y), upTo(x)>> \in R
    BY <2>1 DEF StrictSubsetOrdering
  <2>. QED
    BY <1>5, <2>2
<1>. QED
  BY <1>6

\* Sets of timestamps are finite.
LEMMA TimesFinite ==
  ASSUME NEW S \in SUBSET Times
  PROVE  IsFiniteSet(S) /\ Cardinality(S) \in Nat
<1>1. IsFiniteSet(1 .. MaxTS)
  BY BoundsAssumption, FS_Interval
<1>2. IsFiniteSet(S)
  BY <1>1, FS_Subset DEF Times
<1>. QED
  BY <1>2, FS_CardinalityType

\* Timestamps are positive numbers.
LEMMA TimesAreNat == Times \subseteq Nat \ {0} /\ Parent \in Times
BY BoundsAssumption DEF Times, Parent

\* First takes the members in order: those left out are later.
LEMMA FirstIsPrefix ==
  ASSUME NEW S \in SUBSET Times, NEW n \in Nat,
         NEW t \in S \ First(S, n), NEW u \in First(S, n)
  PROVE  u < t
<1>1. SUFFICES ASSUME ~(u < t) PROVE FALSE
  OBVIOUS
<1>2. u \in S /\ u \in Nat /\ t \in Nat
  BY TimesAreNat DEF First
<1>0. \A v \in S : v < t => v < u
  <2>1. S \subseteq Nat
    BY TimesAreNat
  <2>. QED
    BY <1>1, <1>2, <2>1
<1>3. {v \in S : v < t} \in SUBSET {v \in S : v < u}
  BY <1>0
<1>4. /\ IsFiniteSet({v \in S : v < u})
      /\ Cardinality({v \in S : v < t}) \in Nat /\ Cardinality({v \in S : v < u}) \in Nat
  BY TimesFinite
<1>5. Cardinality({v \in S : v < t}) <= Cardinality({v \in S : v < u})
  BY <1>3, <1>4, FS_Subset
<1>6. Cardinality({v \in S : v < u}) < n /\ ~(Cardinality({v \in S : v < t}) < n)
  BY DEF First
<1>. QED
  BY <1>4, <1>5, <1>6

\* Where they fit, First takes all.
LEMMA FirstIsAll ==
  ASSUME NEW S \in SUBSET Times, NEW n \in Nat, Cardinality(S) <= n
  PROVE  First(S, n) = S
<1>1. SUFFICES ASSUME NEW t \in S PROVE Cardinality({v \in S : v < t}) < n
  BY DEF First
<1>2. {v \in S : v < t} \in SUBSET S /\ t \notin {v \in S : v < t}
  BY TimesAreNat
<1>3. /\ IsFiniteSet(S)
      /\ Cardinality({v \in S : v < t}) \in Nat /\ Cardinality(S) \in Nat
  BY TimesFinite
<1>4. Cardinality({v \in S : v < t}) < Cardinality(S)
  BY <1>2, <1>3, FS_Subset
<1>. QED
  BY <1>3, <1>4

\* First takes something of what there is.
LEMMA FirstNotEmpty ==
  ASSUME NEW S \in SUBSET Times, NEW n \in Nat \ {0}, S # {}
  PROVE  First(S, n) # {}
<1>1. PICK x \in S : \A y \in S : x <= y
  BY LeastMember, TimesAreNat
<1>0. \A v \in S : v \in Nat
  BY TimesAreNat
<1>2. {v \in S : v < x} = {}
  BY <1>0, <1>1
<1>3. Cardinality({v \in S : v < x}) < n
  BY <1>2, FS_EmptySet
<1>. QED
  BY <1>1, <1>3 DEF First

\* Last takes the members in order: those left out are earlier.
LEMMA LastIsSuffix ==
  ASSUME NEW S \in SUBSET Times, NEW n \in Nat,
         NEW t \in S \ Last(S, n), NEW u \in Last(S, n)
  PROVE  t < u
<1>1. SUFFICES ASSUME ~(t < u) PROVE FALSE
  OBVIOUS
<1>2. u \in S /\ u \in Nat /\ t \in Nat
  BY TimesAreNat DEF Last
<1>0. \A v \in S : v > t => v > u
  <2>1. S \subseteq Nat
    BY TimesAreNat
  <2>. QED
    BY <1>1, <1>2, <2>1
<1>3. {v \in S : v > t} \in SUBSET {v \in S : v > u}
  BY <1>0
<1>4. /\ IsFiniteSet({v \in S : v > u})
      /\ Cardinality({v \in S : v > t}) \in Nat /\ Cardinality({v \in S : v > u}) \in Nat
  BY TimesFinite
<1>5. Cardinality({v \in S : v > t}) <= Cardinality({v \in S : v > u})
  BY <1>3, <1>4, FS_Subset
<1>6. Cardinality({v \in S : v > u}) < n /\ ~(Cardinality({v \in S : v > t}) < n)
  BY DEF Last
<1>. QED
  BY <1>4, <1>5, <1>6

\* Last takes no more than it is asked for: the number of later members tells
\* those it takes apart.
LEMMA LastIsSmall ==
  ASSUME NEW S \in SUBSET Times, NEW n \in Nat
  PROVE  Cardinality(Last(S, n)) <= n
<1>. DEFINE later(t) == {v \in S : v > t}
            f == [t \in Last(S, n) |-> Cardinality(later(t))]
<1>1. \A t \in S : IsFiniteSet(later(t)) /\ Cardinality(later(t)) \in Nat
  BY TimesFinite
<1>2. \A t \in Last(S, n) : Cardinality(later(t)) \in 0 .. n - 1
  BY <1>1 DEF Last
<1>3. ASSUME NEW t \in Last(S, n), NEW u \in Last(S, n), t < u
      PROVE  Cardinality(later(t)) # Cardinality(later(u))
  <2>1. t \in S /\ u \in S
    BY DEF Last
  <2>2. S \subseteq Nat
    BY TimesAreNat
  <2>3. \A v \in S : v > u => v > t
    BY <1>3, <2>1, <2>2
  <2>4. u > t /\ ~(u > u)
    BY <1>3, <2>1, <2>2
  <2>5. later(u) \in SUBSET later(t) /\ u \in later(t) /\ u \notin later(u)
    BY <2>1, <2>3, <2>4
  <2>. QED
    BY <1>1, <2>1, <2>5, FS_Subset
<1>4. \A t, u \in Last(S, n) : t = u \/ t < u \/ u < t
  BY TimesAreNat DEF Last
<1>5. \A t, u \in Last(S, n) : f[t] = f[u] => t = u
  BY <1>3, <1>4
<1>6. f \in [Last(S, n) -> 0 .. n - 1]
  BY <1>2
<1>7. f \in Injection(Last(S, n), 0 .. n - 1)
  BY <1>5, <1>6 DEF Injection, IsInjective
<1>8. IsFiniteSet(0 .. n - 1) /\ Cardinality(0 .. n - 1) = n
  BY FS_Interval
<1>. HIDE DEF f
<1>. QED
  BY <1>7, <1>8, FS_Injection

\* What is added at the end changes nothing of what Last takes from before it.
LEMMA LastWithMore ==
  ASSUME NEW S \in SUBSET Times, NEW n \in Nat, NEW t \in Times
  PROVE  Last(S \cup {t}, n) \ {t} \subseteq Last(S, n)
<1>1. SUFFICES ASSUME NEW x \in Last(S \cup {t}, n), x # t PROVE x \in Last(S, n)
  OBVIOUS
<1>2. x \in S /\ Cardinality({v \in S \cup {t} : v > x}) < n
  BY <1>1 DEF Last
<1>3. {v \in S : v > x} \in SUBSET {v \in S \cup {t} : v > x}
  OBVIOUS
<1>4. /\ IsFiniteSet({v \in S \cup {t} : v > x})
      /\ Cardinality({v \in S \cup {t} : v > x}) \in Nat
      /\ Cardinality({v \in S : v > x}) \in Nat
  BY TimesFinite
<1>5. Cardinality({v \in S : v > x}) <= Cardinality({v \in S \cup {t} : v > x})
  BY <1>3, <1>4, FS_Subset
<1>. QED
  BY <1>2, <1>4, <1>5 DEF Last

-----------------------------------------------------------------------------
(* The invariants *)

\* The chain goes on.
Live == pc \in {"idle", "reading"}

\* Reply t lies where the chain has been, as far as the continuation remembers:
\* in the delivered part of the native page it is in, in the range of the page
\* before, or on the side of that range from which the chain came.
Behind(s, t) ==
  \/ s.page.min <= t /\ t <= s.after
  \/ s.previous.min <= t /\ t <= s.previous.max
  \/ s.direction = 1 /\ t <= s.previous.max
  \/ s.direction = -1 /\ t >= s.previous.min

\* The cursor in hand is one that this chain may follow, and what was delivered
\* lies behind it.
Followed ==
  /\ \A t \in Times : copies[t] <= 1
  /\ \E g \in 0 .. MaxGen : readAs \subseteq {g}
  /\ held.version = 2 => Valid(held.state)
  /\ Live => /\ held.version # 2 => /\ readAs = {} /\ Delivered = {}
                                    /\ held.state = From(held.state.upstream)
             /\ held.version = 2 => readAs = {held.gen}
             /\ \A t \in Delivered \ {Parent} : Behind(held.state, t)
  /\ pc = "reading" => gen # 0 /\ Unbound(held, gen)

\* Reply t is still to come: Slack holds it beyond its cursor, and it is not
\* among those that the refetch of a page leaves out.
ToCome(s, t) ==
  /\ t \in Beyond(s.upstream)
  /\ s.after # None => t > s.after \/ (order = "down" /\ t < s.page.min)

\* Slack's side of the chain while it pages honestly.  Descending, a page is
\* fetched again only at the top, and what is posted meanwhile is later than
\* all of it.
Complete ==
  honest =>
    /\ stable \subseteq thread
    /\ order = "down" => size = UpstreamLimit(limit)
    /\ order = "up" \/ gone = {} =>
         /\ pc = "finished" => stable \subseteq Delivered
         /\ Live => \A t \in stable \ Delivered : ToCome(held.state, t)
    /\ order = "down" /\ gone = {} /\ Live /\ held.state.after # None =>
         /\ held.state.page.min \in thread
         /\ \A t \in Last(Beyond(held.state.upstream), size) : held.state.page.min <= t

IInv == TypeOK /\ Followed /\ Complete

-----------------------------------------------------------------------------
(* The continuation *)

\* A continuation that a page may start from: a native cursor alone, or one
\* that readThreadContinuation accepts.
Sound(s) == s = From(s.upstream) \/ Valid(s)

\* Places, ranges and continuations are made of numbers.
LEMMA SlotsAreNat == Slots \subseteq Nat /\ \A t \in Slots : t # None => t \in Times
BY TimesAreNat DEF Slots, None

\* The ends of a range are slots, and numbers.
LEMMA RangesAreNat == \A r \in Ranges : r.min \in Slots /\ r.max \in Slots
                                        /\ r.min \in Nat /\ r.max \in Nat
BY SlotsAreNat DEF Ranges

\* So are those of the ranges in a continuation.
LEMMA ContinuationsAreNat ==
  \A s \in Continuations : /\ s.after \in Slots /\ s.after \in Nat
                           /\ s.previous \in Ranges /\ s.page \in Ranges
                           /\ s.previous.min \in Nat /\ s.previous.max \in Nat
                           /\ s.page.min \in Nat /\ s.page.max \in Nat
                           /\ s.direction \in {-1, 0, 1}
BY SlotsAreNat, RangesAreNat DEF Continuations

\* What both have in common.
LEMMA SoundContinuation ==
  ASSUME NEW s \in Continuations, Sound(s)
  PROVE  /\ ValidRange(s.previous) /\ ValidRange(s.page)
         /\ s.after = None <=> s.page = NoRange
         /\ s.after # None => s.after <= s.page.max
         /\ s.previous # NoRange => s.previous.min > Parent
         /\ s.page # NoRange => s.page.min > Parent
         /\ ~Overlap(s.previous, s.page)
         /\ Direction(s.previous, s.page) \in {0, s.direction}
         /\ s.direction # 0 => s.previous # NoRange
<1>1. CASE s = From(s.upstream)
  <2>1. s.after = None /\ s.previous = NoRange /\ s.page = NoRange /\ s.direction = 0
    BY <1>1 DEF From
  <2>. QED
    BY <2>1 DEF NoRange, None, ValidRange, Overlap, Direction
<1>2. CASE Valid(s)
  BY <1>2 DEF Valid
<1>. QED
  BY <1>1, <1>2 DEF Sound

\* The range of a native page holds all replies that its fetches returned.
LEMMA AccumulatedRange ==
  ASSUME NEW s \in Continuations, Sound(s),
         NEW raw \in SUBSET Times, NEW page \in Accumulated(s, raw)
  PROVE  /\ page \in Ranges /\ ValidRange(page)
         /\ page # NoRange => page.min > Parent
         /\ \A t \in raw \ {Parent} : page # NoRange /\ page.min <= t /\ t <= page.max
         /\ s.page # NoRange =>
              page # NoRange /\ page.min <= s.page.min /\ s.page.max <= page.max
         /\ s.page = NoRange /\ page # NoRange => page.min \in raw \ {Parent}
<1>. DEFINE seen == (raw \ {Parent}) \cup
                      (IF s.page = NoRange THEN {} ELSE {s.page.min, s.page.max})
<1>1. s.page # NoRange =>
        /\ s.page.min \in Nat /\ s.page.max \in Nat /\ s.page.min \in Times /\ s.page.max \in Times
        /\ s.page.min > Parent /\ s.page.max > Parent
  <2>1. s.page \in Ranges /\ ValidRange(s.page) /\ (s.page # NoRange => s.page.min > Parent)
    BY SoundContinuation DEF Continuations
  <2>. QED
    BY <2>1, RangesAreNat, SlotsAreNat DEF ValidRange, None, Parent
<1>2. \A t \in raw \ {Parent} : t \in Times /\ t \in Nat /\ t > Parent
  BY TimesAreNat DEF Parent
<1>3. \A t \in seen : t \in Times /\ t \in Nat /\ t > Parent
  BY <1>1, <1>2
<1>4. CASE seen = {}
  <2>1. page = NoRange /\ raw \ {Parent} = {} /\ s.page = NoRange
    BY <1>4 DEF Accumulated
  <2>. QED
    BY <2>1 DEF NoRange, Ranges, ValidRange, Slots, None
<1>5. CASE seen # {}
  <2>1. /\ page \in [min : seen, max : seen]
        /\ \A t \in seen : page.min <= t /\ t <= page.max
    BY <1>5 DEF Accumulated
  <2>2. page.min \in seen /\ page.max \in seen /\ page \in Ranges
    <3>. HIDE DEF seen
    <3>. QED
      BY <1>3, <2>1 DEF Ranges, Slots
  <2>3. page.min \in Nat /\ page.max \in Nat /\ page.min > Parent /\ page.max > Parent
    BY <1>3, <2>2
  <2>4. page # NoRange
    BY <2>3 DEF NoRange, None, Parent
  <2>5. page.min <= page.max
    BY <2>1, <2>2
  <2>6. ValidRange(page)
    BY <2>3, <2>5 DEF ValidRange, None, Parent
  <2>7. \A t \in raw \ {Parent} : page.min <= t /\ t <= page.max
    BY <2>1
  <2>8. s.page # NoRange => page.min <= s.page.min /\ s.page.max <= page.max
    BY <2>1
  <2>9. s.page = NoRange => page.min \in raw \ {Parent}
    BY <2>2
  <2>. QED
    BY <2>2, <2>3, <2>4, <2>6, <2>7, <2>8, <2>9
<1>. QED
  BY <1>4, <1>5

\* A page that is not refused has replies of its own range only, and that
\* range lies on the side of the previous one that the chain moves to.
Fits(s, page) ==
  /\ ~Overlap(s.previous, page)
  /\ s.direction # 0 => Turn(s, page) = s.direction

\* What such a page still delivers does not lie behind the cursor.
LEMMA NothingAgain ==
  ASSUME NEW s \in Continuations, Sound(s),
         NEW raw \in SUBSET Times, NEW page \in Accumulated(s, raw), Fits(s, page),
         NEW t \in raw \ {Parent}, s.after = None \/ t > s.after
  PROVE  ~Behind(s, t)
<1>1. /\ t \in Nat /\ t > Parent
      /\ page.min <= t /\ t <= page.max /\ page # NoRange
      /\ page.min \in Nat /\ page.max \in Nat
  <2>1. t \in Nat /\ t > Parent
    BY TimesAreNat DEF Parent
  <2>. QED
    BY <2>1, AccumulatedRange, RangesAreNat
<1>2. /\ s.after \in Nat
      /\ s.previous.min \in Nat /\ s.previous.max \in Nat /\ s.previous.min <= s.previous.max
  BY SoundContinuation, ContinuationsAreNat DEF ValidRange
<1>3. ~(t <= s.after)
  BY <1>1, <1>2 DEF None, Parent
<1>4. CASE s.previous = NoRange
  <2>1. s.direction = 0 /\ s.previous.max = 0
    BY <1>4, SoundContinuation DEF NoRange, None
  <2>. QED
    BY <1>1, <1>2, <1>3, <2>1 DEF Behind, Parent
<1>5. CASE s.previous # NoRange
  <2>1. ~(page.min <= s.previous.max /\ s.previous.min <= page.max)
    BY <1>1, <1>5 DEF Fits, Overlap
  <2>2. Direction(s.previous, page) = IF page.min > s.previous.max THEN 1 ELSE -1
    BY <1>1, <1>5 DEF Direction
  <2>3. s.direction # 0 => Direction(s.previous, page) = s.direction
    BY <2>2 DEF Fits, Turn
  <2>. QED
    BY <1>1, <1>2, <1>3, <2>1, <2>2, <2>3 DEF Behind
<1>. QED
  BY <1>4, <1>5

\* The direction after a page, where it matters.
LEMMA TurnOf ==
  ASSUME NEW s \in Continuations, Sound(s), NEW page \in Ranges, Fits(s, page)
  PROVE  /\ Turn(s, page) \in {-1, 0, 1}
         /\ Direction(s.previous, page) \in {0, Turn(s, page)}
         /\ s.direction # 0 => Turn(s, page) = s.direction /\ s.previous # NoRange
         /\ s.previous = NoRange => Turn(s, page) = 0
         /\ s.previous # NoRange /\ page # NoRange =>
              \/ page.min > s.previous.max /\ Turn(s, page) = 1
              \/ page.max < s.previous.min /\ Turn(s, page) = -1
<1>1. s.direction \in {-1, 0, 1}
  BY DEF Continuations
<1>2. s.direction # 0 => Turn(s, page) = s.direction /\ s.previous # NoRange
  BY SoundContinuation DEF Fits
<1>3. /\ s.previous.min \in Nat /\ s.previous.max \in Nat
      /\ page.min \in Nat /\ page.max \in Nat
  BY RangesAreNat, ContinuationsAreNat
<1>4. CASE s.previous = NoRange \/ page = NoRange
  BY <1>1, <1>2, <1>4 DEF Turn, Direction
<1>5. CASE s.previous # NoRange /\ page # NoRange
  <2>1. ~(page.min <= s.previous.max /\ s.previous.min <= page.max)
    BY <1>5 DEF Fits, Overlap
  <2>2. Direction(s.previous, page) = IF page.min > s.previous.max THEN 1 ELSE -1
    BY <1>5 DEF Direction
  <2>3. Turn(s, page) = Direction(s.previous, page)
    BY <2>2 DEF Turn
  <2>. QED
    BY <1>2, <1>3, <1>5, <2>1, <2>2, <2>3
<1>. QED
  BY <1>4, <1>5

\* Where the page is consumed, its replies lie behind the advanced cursor.
LEMMA BehindAdvance ==
  ASSUME NEW s \in Continuations, Sound(s),
         NEW raw \in SUBSET Times, NEW page \in Accumulated(s, raw), Fits(s, page),
         NEW next \in Natives,
         NEW t \in Replies, Behind(s, t) \/ t \in raw
  PROVE  Behind(Advance(s, page, next, Turn(s, page)), t)
<1>0. SUFFICES ASSUME NEW a, a = Advance(s, page, next, Turn(s, page))
               PROVE  Behind(a, t)
  OBVIOUS
<1>1. /\ t \in Nat /\ t > Parent
      /\ page \in Ranges /\ page.min \in Nat /\ page.max \in Nat
  BY AccumulatedRange, RangesAreNat, TimesAreNat DEF Replies, Parent
<1>2. /\ a.previous = IF page = NoRange THEN s.previous ELSE page
      /\ a.direction = Turn(s, page)
  BY <1>0 DEF Advance
<1>3. CASE page = NoRange
  <2>1. s.page = NoRange /\ raw \ {Parent} = {}
    BY <1>3, AccumulatedRange
  <2>2. s.after = 0 /\ t \notin raw
    BY <2>1, SoundContinuation DEF None, Replies
  <2>3. s.direction # 0 => Turn(s, page) = s.direction
    BY <1>1, TurnOf
  <2>. QED
    BY <1>1, <1>2, <1>3, <2>2, <2>3 DEF Behind, Parent
<1>4. CASE page # NoRange
  <2>1. CASE t \in raw
    BY <1>2, <1>4, <2>1, AccumulatedRange DEF Behind, Replies
  <2>2. CASE s.page.min <= t /\ t <= s.after
    <3>1. s.page # NoRange /\ s.after <= s.page.max
      BY <1>1, <2>2, SoundContinuation DEF None, Parent
    <3>2. page.min <= s.page.min /\ s.page.max <= page.max
      BY <3>1, AccumulatedRange
    <3>3. page.min <= t /\ t <= page.max
      BY <1>1, <2>2, <3>1, <3>2, ContinuationsAreNat
    <3>. QED
      BY <1>2, <1>4, <3>3 DEF Behind
  <2>3. CASE \/ s.previous.min <= t /\ t <= s.previous.max
             \/ s.direction = 1 /\ t <= s.previous.max
             \/ s.direction = -1 /\ t >= s.previous.min
    <3>1. s.previous # NoRange
      <4>1. CASE s.direction # 0
        BY <4>1, SoundContinuation
      <4>2. CASE s.direction = 0
        BY <1>1, <2>3, <4>2 DEF NoRange, None, Parent
      <4>. QED
        BY <4>1, <4>2
    <3>2. /\ \/ page.min > s.previous.max /\ Turn(s, page) = 1
             \/ page.max < s.previous.min /\ Turn(s, page) = -1
          /\ s.direction # 0 => Turn(s, page) = s.direction
      BY <1>1, <1>4, <3>1, TurnOf
    <3>3. /\ s.previous.min \in Nat /\ s.previous.max \in Nat
          /\ page.min <= page.max
      BY ContinuationsAreNat, AccumulatedRange DEF ValidRange
    <3>. QED
      BY <1>1, <1>2, <1>4, <2>3, <3>2, <3>3 DEF Behind
  <2>. QED
    BY <2>1, <2>2, <2>3 DEF Behind
<1>. QED
  BY <1>3, <1>4

\* Where the page has more, what was delivered of it lies behind the place that
\* the refetch starts from.
LEMMA BehindRefetch ==
  ASSUME NEW s \in Continuations, Sound(s),
         NEW raw \in SUBSET Times, NEW page \in Accumulated(s, raw), Fits(s, page),
         NEW last \in Times, s.after <= last,
         NEW t \in Replies, Behind(s, t) \/ (t \in raw /\ t <= last)
  PROVE  Behind(Refetch(s, page, last, Turn(s, page)), t)
<1>0. SUFFICES ASSUME NEW a, a = Refetch(s, page, last, Turn(s, page))
               PROVE  Behind(a, t)
  OBVIOUS
<1>1. /\ t \in Nat /\ t > Parent /\ last \in Nat
      /\ page \in Ranges /\ page.min \in Nat /\ page.max \in Nat
  BY AccumulatedRange, RangesAreNat, TimesAreNat DEF Replies, Parent
<1>2. a.previous = s.previous /\ a.page = page /\ a.after = last /\ a.direction = Turn(s, page)
  BY <1>0 DEF Refetch, Continuations
<1>3. s.direction # 0 => Turn(s, page) = s.direction
  BY <1>1, TurnOf
<1>4. CASE t \in raw /\ t <= last
  BY <1>2, <1>4, AccumulatedRange DEF Behind, Replies
<1>5. CASE s.page.min <= t /\ t <= s.after
  <2>1. s.page # NoRange
    BY <1>1, <1>5, SoundContinuation DEF None, Parent
  <2>2. page.min <= s.page.min
    BY <2>1, AccumulatedRange
  <2>3. page.min <= t /\ t <= last
    BY <1>1, <1>5, <2>2, ContinuationsAreNat
  <2>. QED
    BY <1>2, <2>3 DEF Behind
<1>6. CASE s.previous.min <= t /\ t <= s.previous.max
  BY <1>2, <1>6 DEF Behind
<1>7. CASE s.direction = 1 /\ t <= s.previous.max
  BY <1>2, <1>3, <1>7 DEF Behind
<1>8. CASE s.direction = -1 /\ t >= s.previous.min
  BY <1>2, <1>3, <1>8 DEF Behind
<1>. QED
  BY <1>4, <1>5, <1>6, <1>7, <1>8 DEF Behind

\* readThreadContinuation accepts an advanced cursor,
LEMMA AdvanceIsValid ==
  ASSUME NEW s \in Continuations, Sound(s),
         NEW raw \in SUBSET Times, NEW page \in Accumulated(s, raw), Fits(s, page),
         NEW next \in Natives, next # NoNative
  PROVE  Valid(Advance(s, page, next, Turn(s, page)))
<1>0. SUFFICES ASSUME NEW a, a = Advance(s, page, next, Turn(s, page))
               PROVE  Valid(a)
  OBVIOUS
<1>1. /\ a.upstream = next /\ a.after = None /\ a.page = NoRange
      /\ a.previous = (IF page = NoRange THEN s.previous ELSE page)
      /\ a.direction = Turn(s, page)
  BY <1>0 DEF Advance
<1>2. page \in Ranges
  BY AccumulatedRange
<1>3. ValidRange(a.previous) /\ (a.previous # NoRange => a.previous.min > Parent)
  BY <1>1, AccumulatedRange, SoundContinuation
<1>4. a.direction # 0 => a.previous # NoRange
  BY <1>1, <1>2, TurnOf
<1>5. ValidRange(a.page) /\ ~Overlap(a.previous, a.page) /\ Direction(a.previous, a.page) = 0
  BY <1>1 DEF ValidRange, NoRange, None, Overlap, Direction
<1>. QED
  BY <1>1, <1>3, <1>4, <1>5 DEF Valid

\* and the cursor of a page that has more.
LEMMA RefetchIsValid ==
  ASSUME NEW s \in Continuations, Sound(s),
         NEW raw \in SUBSET Times, NEW page \in Accumulated(s, raw), Fits(s, page),
         NEW last \in raw, page # NoRange
  PROVE  Valid(Refetch(s, page, last, Turn(s, page)))
<1>0. SUFFICES ASSUME NEW a, a = Refetch(s, page, last, Turn(s, page))
               PROVE  Valid(a)
  OBVIOUS
<1>1. /\ a.upstream = s.upstream /\ a.after = last /\ a.page = page
      /\ a.previous = s.previous /\ a.direction = Turn(s, page)
  BY <1>0 DEF Refetch, Continuations
<1>2. /\ page \in Ranges /\ ValidRange(page) /\ page.min > Parent
      /\ page.min \in Nat /\ page.max \in Nat /\ page.min <= page.max
  BY AccumulatedRange, RangesAreNat DEF ValidRange
<1>3. last \in Nat /\ last # None
  BY TimesAreNat DEF None
<1>4. last <= page.max /\ (last >= page.min \/ last = Parent)
  BY <1>2, <1>3, AccumulatedRange DEF Parent
<1>5. /\ ValidRange(s.previous) /\ (s.previous # NoRange => s.previous.min > Parent)
      /\ ~Overlap(s.previous, page)
  BY SoundContinuation DEF Fits
<1>6. /\ Direction(s.previous, page) \in {0, Turn(s, page)}
      /\ Turn(s, page) # 0 => s.previous # NoRange
  BY <1>2, TurnOf
<1>. QED
  BY <1>1, <1>2, <1>3, <1>4, <1>5, <1>6 DEF Valid

-----------------------------------------------------------------------------
(* What one page does *)

\* What is left of a native page, and what of it is delivered.
Rest(raw) == Remaining(held.state, raw, held.version = 0)
Out(raw) == First(Rest(raw), limit)

\* The page is the last one, it is consumed, or it has more.
Ends(answer) ==
  /\ Cardinality(Rest(answer.raw)) <= limit /\ answer.next = NoNative
  /\ Deliver(Out(answer.raw), NoCursor)

Advances(answer, page) ==
  /\ Cardinality(Rest(answer.raw)) <= limit /\ answer.next # NoNative
  /\ Deliver(Out(answer.raw),
             [version |-> 2, gen |-> gen,
              state |-> Advance(held.state, page, answer.next, Turn(held.state, page))])

Refetches(answer, page, last) ==
  /\ ~(Cardinality(Rest(answer.raw)) <= limit)
  /\ last \in Out(answer.raw) /\ \A t \in Out(answer.raw) : t <= last
  /\ Deliver(Out(answer.raw),
             [version |-> 2, gen |-> gen,
              state |-> Refetch(held.state, page, last, Turn(held.state, page))])

\* Every answer is a set of messages and a native cursor, of which some are
\* left.
LEMMA AnswerTyped ==
  ASSUME TypeOK, NEW answer \in Answers(held.state.upstream, held.version = 0)
  PROVE  /\ answer.raw \in SUBSET Times /\ answer.next \in Natives
         /\ Rest(answer.raw) \in SUBSET answer.raw
         /\ Out(answer.raw) \in SUBSET Rest(answer.raw)
<1>. DEFINE native == held.state.upstream
            page == NativePage(native)
<1>1. CASE honest
  <2>1. thread \in SUBSET Times
    BY DEF TypeOK, Replies
  <2>2. page \in SUBSET Times
    BY <2>1 DEF NativePage, Beyond, First, Last
  <2>3. answer \in HonestAnswers(native, held.version = 0)
    BY <1>1 DEF Answers
  <2>4. /\ answer.raw \in {page \cup {Parent}} \cup (IF held.version = 0 THEN {} ELSE {page})
        /\ answer.next \in NextNatives(native, page)
    BY <2>3 DEF HonestAnswers
  <2>. HIDE DEF page, native
  <2>5. answer.raw \in SUBSET Times
    BY <2>2, <2>4, TimesAreNat
  <2>. QED
    BY <2>4, <2>5 DEF NextNatives, Rest, Remaining, Out, First
<1>2. CASE ~honest
  <2>1. answer \in ErraticAnswers
    BY <1>2 DEF Answers
  <2>. QED
    BY <2>1 DEF ErraticAnswers, Rest, Remaining, Out, First
<1>. QED
  BY <1>1, <1>2

\* A page stops the chain or delivers, and then in one of three ways.
LEMMA PageCases ==
  ASSUME TypeOK, EndPage
  PROVE  /\ pc = "reading"
         /\ \/ \E why \in Causes : Stop(why) /\ UNCHANGED gen
            \/ \E answer \in Answers(held.state.upstream, held.version = 0) :
               \E page \in Accumulated(held.state, answer.raw) :
                 /\ Fits(held.state, page)
                 /\ \/ Ends(answer)
                    \/ Advances(answer, page)
                    \/ \E last \in Times : Refetches(answer, page, last)
<1>. DEFINE s == held.state
            initial == held.version = 0
<1>1. pc = "reading"
  BY DEF EndPage
<1>2. PICK answer \in Answers(s.upstream, initial) :
        \E page \in Accumulated(s, answer.raw),
           last \in Frontier(s, First(Remaining(s, answer.raw, initial), limit)) :
           LET remaining == Remaining(s, answer.raw, initial)
               out == First(remaining, limit)
               why == Fault(s, answer, page, initial)
               next == Following(s, page, last, remaining, answer.next)
           IN IF why # "none" THEN Stop(why) /\ UNCHANGED gen
              ELSE IF Cardinality(remaining) <= limit /\ answer.next = NoNative
              THEN Deliver(out, NoCursor)
              ELSE IF next = s THEN Stop("page") /\ UNCHANGED gen
              ELSE Deliver(out, [version |-> 2, gen |-> gen, state |-> next])
  BY DEF EndPage
<1>. DEFINE rest == Rest(answer.raw)
            out == Out(answer.raw)
<1>3. PICK page \in Accumulated(s, answer.raw), last \in Frontier(s, out) :
        LET why == Fault(s, answer, page, initial)
            next == Following(s, page, last, rest, answer.next)
        IN IF why # "none" THEN Stop(why) /\ UNCHANGED gen
           ELSE IF Cardinality(rest) <= limit /\ answer.next = NoNative
           THEN Deliver(out, NoCursor)
           ELSE IF next = s THEN Stop("page") /\ UNCHANGED gen
           ELSE Deliver(out, [version |-> 2, gen |-> gen, state |-> next])
  BY <1>2 DEF Rest, Out
<1>4. Fault(s, answer, page, initial) \in Causes
  BY DEF Fault, Causes
<1>5. CASE Fault(s, answer, page, initial) # "none"
  BY <1>1, <1>3, <1>4, <1>5
<1>6. CASE Fault(s, answer, page, initial) = "none"
  <2>1. Fits(s, page)
    BY <1>6 DEF Fault, Fits
  <2>2. CASE Cardinality(rest) <= limit /\ answer.next = NoNative
    <3>1. Ends(answer)
      BY <1>3, <1>6, <2>2 DEF Ends
    <3>. QED
      BY <1>1, <2>1, <3>1
  <2>3. CASE ~(Cardinality(rest) <= limit /\ answer.next = NoNative)
             /\ Following(s, page, last, rest, answer.next) = s
    <3>1. Stop("page") /\ UNCHANGED gen
      BY <1>3, <1>6, <2>3
    <3>. QED
      BY <1>1, <3>1 DEF Causes
  <2>4. CASE ~(Cardinality(rest) <= limit /\ answer.next = NoNative)
             /\ Following(s, page, last, rest, answer.next) # s
    <3>1. Deliver(out, [version |-> 2, gen |-> gen,
                        state |-> Following(s, page, last, rest, answer.next)])
      BY <1>3, <1>6, <2>4
    <3>2. CASE Cardinality(rest) <= limit
      <4>1. Advances(answer, page)
        BY <2>4, <3>1, <3>2 DEF Advances, Following
      <4>. QED
        BY <1>1, <2>1, <4>1
    <3>3. CASE ~(Cardinality(rest) <= limit)
      <4>1. rest \in SUBSET Times /\ out \in SUBSET rest
        BY AnswerTyped
      <4>2. Cardinality(rest) \in Nat /\ limit \in Nat \ {0}
        BY <4>1, TimesFinite DEF TypeOK, Limits
      <4>3. rest # {}
        BY <3>3, <4>2, FS_EmptySet
      <4>4. out # {}
        BY <4>1, <4>2, <4>3, FirstNotEmpty DEF Out
      <4>5. last \in out /\ \A t \in out : t <= last
        BY <4>4 DEF Frontier
      <4>6. Refetches(answer, page, last)
        BY <3>1, <3>3, <4>5 DEF Refetches, Following
      <4>. QED
        BY <1>1, <2>1, <4>1, <4>5, <4>6
    <3>. QED
      BY <3>2, <3>3
  <2>. QED
    BY <2>2, <2>3, <2>4
<1>. QED
  BY <1>5, <1>6

-----------------------------------------------------------------------------
(* Types *)

\* threadPage writes continuations that a cursor can hold.
LEMMA ContinuationTyped ==
  ASSUME NEW s \in Continuations, Sound(s),
         NEW raw \in SUBSET Times, NEW page \in Accumulated(s, raw), Fits(s, page),
         NEW next \in Natives, NEW last \in Times
  PROVE  /\ Advance(s, page, next, Turn(s, page)) \in Continuations
         /\ Refetch(s, page, last, Turn(s, page)) \in Continuations
<1>1. page \in Ranges /\ Turn(s, page) \in {-1, 0, 1} /\ last \in Slots
  BY AccumulatedRange, TurnOf DEF Slots
<1>2. NoRange \in Ranges /\ None \in Slots
  BY DEF NoRange, Ranges, Slots
<1>. QED
  BY <1>1, <1>2 DEF Continuations, Advance, Refetch

\* Slack never returns more than it may beside the parent.
LEMMA SizesTyped ==
  ASSUME TypeOK, NEW hop \in 0 .. MaxHops
  PROVE  /\ Sizes(limit, hop) \subseteq 0 .. MaxItems
         /\ UpstreamLimit(limit) \in Nat /\ UpstreamLimit(limit) <= limit
         /\ order = "down" => Sizes(limit, hop) = {UpstreamLimit(limit)}
<1>1. /\ limit \in Nat /\ limit >= 1 /\ limit <= MaxItems
      /\ MaxItems \in Nat /\ MaxItems >= 2
  BY BoundsAssumption DEF TypeOK, Limits
<1>2. UpstreamLimit(limit) \in 0 .. MaxItems /\ UpstreamLimit(limit) <= limit
  BY <1>1 DEF UpstreamLimit
<1>3. CASE honest /\ order = "up"
  BY <1>1, <1>2, <1>3 DEF Sizes
<1>4. CASE ~(honest /\ order = "up")
  BY <1>1, <1>2, <1>4 DEF Sizes
<1>. QED
  BY <1>2, <1>3, <1>4

\* The continuation in hand is one that a page may start from.
LEMMA HeldIsSound ==
  ASSUME TypeOK, Followed, Live
  PROVE  held.state \in Continuations /\ Sound(held.state)
<1>1. held \in Cursors
  BY DEF TypeOK
<1>2. held.version # 2 => held.state = From(held.state.upstream)
  BY DEF Followed
<1>3. held.version = 2 => Valid(held.state)
  BY DEF Followed
<1>. QED
  BY <1>1, <1>2, <1>3 DEF Cursors, Sound

\* Delivering a page leaves values of their types.
LEMMA DeliverTyped ==
  ASSUME TypeOK, NEW out \in SUBSET Times, NEW next \in Cursors, gen \in 1 .. MaxGen,
         Deliver(out, next)
  PROVE  TypeOK'
<1>1. copies' \in [Times -> Nat]
  BY DEF TypeOK, Deliver
<1>2. readAs' \in SUBSET (1 .. MaxGen) /\ held' \in Cursors /\ pc' \in {"idle", "finished"}
  BY DEF TypeOK, Deliver
<1>3. size' \in 0 .. MaxItems
  <2>1. next.state.upstream.hop \in 0 .. MaxHops
    BY DEF Cursors, Continuations, Natives
  <2>2. size' = size \/ size' \in Sizes(limit, next.state.upstream.hop)
    BY DEF Deliver
  <2>. QED
    BY <2>1, <2>2, SizesTyped DEF TypeOK
<1>4. /\ UNCHANGED <<honest, thread, stable, order, gone, profile>>
      /\ UNCHANGED <<limit, gen, failures, cause>>
  BY DEF Deliver
<1>. QED
  BY <1>1, <1>2, <1>3, <1>4 DEF TypeOK

\* A continuation bound to a login is a cursor.
LEMMA CursorTyped ==
  ASSUME NEW state \in Continuations, NEW g \in 0 .. MaxGen
  PROVE  [version |-> 2, gen |-> g, state |-> state] \in Cursors
BY DEF Cursors

\* So is Slack's own cursor, taken over from an older version, and no cursor.
LEMMA FromTyped ==
  /\ NoNative \in Natives
  /\ \A native \in Natives : From(native) \in Continuations
  /\ NoCursor \in Cursors
<1>1. NoNative \in Natives
  BY BoundsAssumption DEF NoNative, Natives, Slots
<1>2. \A native \in Natives : From(native) \in Continuations
  BY DEF From, Continuations, Slots, NoRange, Ranges
<1>3. NoCursor \in Cursors
  BY <1>1, <1>2, BoundsAssumption DEF NoCursor, Cursors
<1>. QED
  BY <1>1, <1>2, <1>3

\* The initial state is well-typed.
LEMMA InitTyped == Init => TypeOK
<1>. SUFFICES ASSUME Init PROVE TypeOK
  OBVIOUS
<1>1. /\ honest \in BOOLEAN /\ thread \in SUBSET Replies /\ order \in {"up", "down"}
      /\ profile \in 1 .. MaxGen /\ gone \in SUBSET Replies
      /\ pc \in {"idle", "reading", "finished", "stopped"}
      /\ limit \in Limits /\ gen \in 0 .. MaxGen /\ failures \in 0 .. MaxFailures
      /\ copies \in [Times -> Nat] /\ readAs \in SUBSET (1 .. MaxGen) /\ cause \in Causes
  BY BoundsAssumption DEF Init, Causes
<1>2. stable \in SUBSET Replies
  BY <1>1 DEF Init, Beyond
<1>3. size \in 0 .. MaxItems
  <2>1. limit \in Nat /\ limit >= 1 /\ limit <= MaxItems
    BY <1>1, BoundsAssumption DEF Limits
  <2>2. size \in Sizes(limit, 0)
    BY DEF Init
  <2>3. UpstreamLimit(limit) \in 0 .. MaxItems
    BY <2>1, BoundsAssumption DEF UpstreamLimit
  <2>4. CASE honest /\ order = "up"
    BY <2>1, <2>2, <2>3, <2>4, BoundsAssumption DEF Sizes
  <2>5. CASE ~(honest /\ order = "up")
    BY <2>2, <2>3, <2>5 DEF Sizes
  <2>. QED
    BY <2>4, <2>5
<1>4. held \in Cursors
  <2>1. CASE held = NoCursor
    BY <2>1, FromTyped
  <2>2. CASE held # NoCursor
    <3>1. PICK t \in thread :
            held = [version |-> 1, gen |-> 1, state |-> From([at |-> t, hop |-> 0])]
      BY <2>2 DEF Init
    <3>2. [at |-> t, hop |-> 0] \in Natives
      BY <1>1, <3>1, BoundsAssumption DEF Natives, Slots, Replies
    <3>. QED
      BY <3>1, <3>2, FromTyped, BoundsAssumption DEF Cursors
  <2>. QED
    BY <2>1, <2>2
<1>. QED
  BY <1>1, <1>2, <1>3, <1>4 DEF TypeOK

-----------------------------------------------------------------------------
(* No message twice *)

\* What a page delivers was not delivered before.
LEMMA Fresh ==
  ASSUME TypeOK, Followed, pc = "reading",
         NEW answer \in Answers(held.state.upstream, held.version = 0),
         NEW page \in Accumulated(held.state, answer.raw), Fits(held.state, page),
         NEW t \in Out(answer.raw)
  PROVE  t \notin Delivered
<1>1. held.state \in Continuations /\ Sound(held.state)
  BY HeldIsSound DEF Live
<1>2. answer.raw \in SUBSET Times /\ t \in Rest(answer.raw) /\ t \in answer.raw
  BY AnswerTyped
<1>3. /\ held.version = 0 \/ t # Parent
      /\ held.state.after = None \/ t > held.state.after
  BY <1>2 DEF Rest, Remaining
<1>4. held.version = 0 => Delivered = {}
  BY DEF Followed, Live
<1>5. CASE t = Parent
  BY <1>3, <1>4, <1>5
<1>6. CASE t # Parent
  <2>1. ~Behind(held.state, t)
    BY <1>1, <1>2, <1>3, <1>6, NothingAgain
  <2>. QED
    BY <1>6, <2>1 DEF Followed, Live
<1>. QED
  BY <1>5, <1>6

\* A page keeps what is known of the chain, where its next cursor is one that
\* may be followed and leaves everything delivered behind.
LEMMA FollowedDeliver ==
  ASSUME TypeOK, Followed, pc = "reading",
         NEW out \in SUBSET Times, \A t \in out : t \notin Delivered,
         NEW next \in Cursors, Deliver(out, next),
         \/ next = NoCursor
         \/ /\ next.version = 2 /\ next.gen = gen /\ Valid(next.state)
            /\ \A t \in (Delivered \cup out) \ {Parent} : Behind(next.state, t)
  PROVE  Followed'
<1>1. /\ \A t \in Times : copies'[t] = copies[t] + IF t \in out THEN 1 ELSE 0
      /\ readAs' = readAs \cup {gen} /\ held' = next
      /\ pc' = IF next = NoCursor THEN "finished" ELSE "idle"
  BY DEF Deliver
<1>2. \A t \in Times : copies[t] \in Nat
  BY DEF TypeOK
<1>3. \A t \in Times : copies'[t] <= 1
  BY <1>1, <1>2 DEF Followed, Delivered
<1>4. Delivered' \subseteq Delivered \cup out
  BY <1>1, <1>2 DEF Delivered
<1>5. gen \in 0 .. MaxGen /\ readAs \subseteq {gen}
  BY DEF TypeOK, Followed, Live, Unbound
<1>6. readAs' = {gen}
  BY <1>1, <1>5
<1>7. CASE next = NoCursor
  <2>1. held'.version = 0 /\ pc' = "finished"
    BY <1>1, <1>7 DEF NoCursor
  <2>. QED
    BY <1>3, <1>5, <1>6, <2>1 DEF Followed, Live
<1>8. CASE next # NoCursor
  <2>1. /\ held'.version = 2 /\ held'.gen = gen /\ Valid(held'.state) /\ pc' = "idle"
        /\ \A t \in Delivered' \ {Parent} : Behind(held'.state, t)
    BY <1>1, <1>4, <1>8
  <2>. QED
    BY <1>3, <1>5, <1>6, <2>1 DEF Followed, Live
<1>. QED
  BY <1>7, <1>8

\* A page that has more has replies.
LEMMA MoreHasRange ==
  ASSUME TypeOK, Followed, pc = "reading",
         NEW answer \in Answers(held.state.upstream, held.version = 0),
         NEW page \in Accumulated(held.state, answer.raw),
         ~(Cardinality(Rest(answer.raw)) <= limit)
  PROVE  page # NoRange
<1>1. SUFFICES ASSUME page = NoRange PROVE FALSE
  OBVIOUS
<1>2. /\ held.state \in Continuations /\ Sound(held.state)
      /\ answer.raw \in SUBSET Times /\ Rest(answer.raw) \in SUBSET answer.raw
  BY HeldIsSound, AnswerTyped DEF Live
<1>3. Rest(answer.raw) \in SUBSET {Parent}
  BY <1>1, <1>2, AccumulatedRange
<1>4. IsFiniteSet({Parent}) /\ Cardinality({Parent}) = 1
  BY FS_Singleton
<1>5. Cardinality(Rest(answer.raw)) <= 1
  BY <1>3, <1>4, FS_Subset
<1>6. Cardinality(Rest(answer.raw)) \in Nat /\ limit \in Nat \ {0}
  BY <1>2, TimesFinite DEF TypeOK, Limits
<1>. QED
  BY <1>5, <1>6

\* The types and the chain after a page.
LEMMA FollowedPage ==
  ASSUME TypeOK, Followed, EndPage
  PROVE  TypeOK' /\ Followed'
<1>1. pc = "reading"
  BY PageCases
<1>2. CASE \E why \in Causes : Stop(why) /\ UNCHANGED gen
  <2>1. PICK why \in Causes : Stop(why) /\ UNCHANGED gen
    BY <1>2
  <2>2. /\ UNCHANGED <<honest, thread, stable, order, gone, size, profile>>
        /\ UNCHANGED <<limit, held, gen, failures, copies, readAs>>
        /\ pc' = "stopped" /\ cause' = why
    BY <2>1 DEF Stop, world
  <2>3. TypeOK'
    BY <2>2 DEF TypeOK
  <2>4. Delivered' = Delivered
    BY <2>2 DEF Delivered
  <2>. QED
    BY <2>2, <2>3, <2>4 DEF Followed, Live
<1>3. ASSUME NEW answer \in Answers(held.state.upstream, held.version = 0),
             NEW page \in Accumulated(held.state, answer.raw), Fits(held.state, page),
             \/ Ends(answer)
             \/ Advances(answer, page)
             \/ \E last \in Times : Refetches(answer, page, last)
      PROVE  TypeOK' /\ Followed'
  <2>. DEFINE s == held.state
              out == Out(answer.raw)
  <2>1. s \in Continuations /\ Sound(s)
    BY <1>1, HeldIsSound DEF Live
  <2>2. /\ answer.raw \in SUBSET Times /\ answer.next \in Natives
        /\ out \in SUBSET Rest(answer.raw) /\ out \in SUBSET Times
        /\ Rest(answer.raw) \in SUBSET answer.raw
    BY AnswerTyped
  <2>3. \A t \in out : t \notin Delivered
    BY <1>1, <1>3, Fresh
  <2>4. gen \in 1 .. MaxGen
    BY <1>1 DEF TypeOK, Followed
  <2>5. \A t \in Delivered \ {Parent} : t \in Replies /\ Behind(s, t)
    BY <1>1 DEF Followed, Live, Delivered, Replies
  <2>6. CASE Ends(answer)
    <3>1. Deliver(out, NoCursor) /\ NoCursor \in Cursors
      BY <2>6, FromTyped DEF Ends
    <3>2. TypeOK'
      BY <2>2, <2>4, <3>1, DeliverTyped
    <3>3. Followed'
      BY <1>1, <2>2, <2>3, <3>1, FollowedDeliver
    <3>. QED
      BY <3>2, <3>3
  <2>7. CASE Advances(answer, page)
    <3>. DEFINE state == Advance(s, page, answer.next, Turn(s, page))
                next == [version |-> 2, gen |-> gen, state |-> state]
    <3>1. Deliver(out, next) /\ answer.next # NoNative
      BY <2>7 DEF Advances
    <3>2. state \in Continuations
      BY <1>3, <2>1, <2>2, ContinuationTyped, TimesAreNat
    <3>3. next \in Cursors
      BY <2>4, <3>2, CursorTyped
    <3>4. Valid(state)
      BY <1>3, <2>1, <2>2, <3>1, AdvanceIsValid
    <3>5. \A t \in out \ {Parent} : t \in Replies /\ t \in answer.raw
      BY <2>2 DEF Replies
    <3>6. \A t \in (Delivered \cup out) \ {Parent} : Behind(state, t)
      BY <1>3, <2>1, <2>2, <2>5, <3>5, BehindAdvance
    <3>7. next.version = 2 /\ next.gen = gen /\ next.state = state
      OBVIOUS
    <3>. HIDE DEF state, next
    <3>8. TypeOK'
      BY <2>2, <2>4, <3>1, <3>3, DeliverTyped
    <3>9. Followed'
      BY <1>1, <2>2, <2>3, <3>1, <3>3, <3>4, <3>6, <3>7, FollowedDeliver
    <3>. QED
      BY <3>8, <3>9
  <2>8. ASSUME NEW last \in Times, Refetches(answer, page, last)
        PROVE  TypeOK' /\ Followed'
    <3>. DEFINE state == Refetch(s, page, last, Turn(s, page))
                next == [version |-> 2, gen |-> gen, state |-> state]
    <3>1. /\ Deliver(out, next) /\ last \in out /\ \A t \in out : t <= last
          /\ ~(Cardinality(Rest(answer.raw)) <= limit)
      BY <2>8 DEF Refetches
    <3>2. state \in Continuations
      BY <1>3, <2>1, <2>2, ContinuationTyped
    <3>3. next \in Cursors
      BY <2>4, <3>2, CursorTyped
    <3>4. page # NoRange
      BY <1>1, <1>3, <3>1, MoreHasRange
    <3>5. Valid(state)
      BY <1>3, <2>1, <2>2, <3>1, <3>4, RefetchIsValid
    <3>6. s.after <= last
      <4>1. s.after = None \/ last > s.after
        BY <2>2, <3>1 DEF Rest, Remaining
      <4>. QED
        BY <2>1, <4>1, TimesAreNat, ContinuationsAreNat DEF None
    <3>7. \A t \in out \ {Parent} : t \in Replies /\ t \in answer.raw /\ t <= last
      BY <2>2, <3>1 DEF Replies
    <3>8. \A t \in (Delivered \cup out) \ {Parent} : Behind(state, t)
      BY <1>3, <2>1, <2>2, <2>5, <3>6, <3>7, BehindRefetch
    <3>9. next.version = 2 /\ next.gen = gen /\ next.state = state
      OBVIOUS
    <3>. HIDE DEF state, next
    <3>10. TypeOK'
      BY <2>2, <2>4, <3>1, <3>3, DeliverTyped
    <3>11. Followed'
      BY <1>1, <2>2, <2>3, <3>1, <3>3, <3>5, <3>8, <3>9, FollowedDeliver
    <3>. QED
      BY <3>10, <3>11
  <2>. QED
    BY <1>3, <2>6, <2>7, <2>8
<1>. QED
  BY <1>2, <1>3, PageCases

\* Every step of the chain, and of the thread and the profile around it, keeps what the
\* cursor remembers true.
LEMMA FollowedStep ==
  ASSUME TypeOK, Followed, [Next]_vars
  PROVE  TypeOK' /\ Followed'
<1>1. CASE Post
  <2>1. /\ UNCHANGED <<honest, stable, order, gone, size, profile>>
        /\ UNCHANGED <<pc, limit, held, gen, failures, copies, readAs, cause>>
        /\ thread' \in SUBSET Replies
    BY <1>1 DEF Post, reader, TypeOK
  <2>. QED
    BY <2>1 DEF TypeOK, Followed, Live, Delivered
<1>2. CASE Delete
  <2>1. /\ UNCHANGED <<honest, order, size, profile>>
        /\ UNCHANGED <<pc, limit, held, gen, failures, copies, readAs, cause>>
        /\ thread' \in SUBSET Replies /\ stable' \in SUBSET Replies /\ gone' \in SUBSET Replies
    BY <1>2 DEF Delete, reader, TypeOK
  <2>. QED
    BY <2>1 DEF TypeOK, Followed, Live, Delivered
<1>3. CASE Login
  <2>1. /\ UNCHANGED <<honest, thread, stable, order, gone, size>>
        /\ UNCHANGED <<pc, limit, held, gen, failures, copies, readAs, cause>>
        /\ profile' \in 1 .. MaxGen
    BY <1>3, BoundsAssumption DEF Login, reader, TypeOK
  <2>. QED
    BY <2>1 DEF TypeOK, Followed, Live, Delivered
<1>4. CASE BeginPage
  <2>1. /\ UNCHANGED <<honest, thread, stable, order, gone, size, profile>>
        /\ UNCHANGED <<limit, held, failures, copies, readAs>>
        /\ pc = "idle" /\ gen' = profile
        /\ \/ pc' = "stopped" /\ cause' \in Causes
           \/ pc' = "reading" /\ cause' = cause /\ Unbound(held, profile)
    BY <1>4 DEF BeginPage, Stop, world, Causes
  <2>2. profile \in 1 .. MaxGen /\ profile # 0
    BY DEF TypeOK
  <2>3. TypeOK'
    BY <2>1, <2>2 DEF TypeOK
  <2>4. Followed'
    BY <2>1, <2>2 DEF Followed, Live, Delivered, Unbound
  <2>. QED
    BY <2>3, <2>4
<1>5. CASE ReadFails
  <2>1. /\ UNCHANGED <<honest, thread, stable, order, gone, size, profile>>
        /\ UNCHANGED <<limit, held, gen, copies, readAs, cause>>
        /\ pc = "reading" /\ pc' = "idle" /\ failures' \in 0 .. MaxFailures
    BY <1>5, BoundsAssumption DEF ReadFails, world, TypeOK
  <2>. QED
    BY <2>1 DEF TypeOK, Followed, Live, Delivered
<1>6. CASE EndPage
  BY <1>6, FollowedPage
<1>7. CASE UNCHANGED vars
  BY <1>7 DEF vars, world, reader, TypeOK, Followed, Live, Delivered
<1>. QED
  BY <1>1, <1>2, <1>3, <1>4, <1>5, <1>6, <1>7 DEF Next

\* A chain that has not begun remembers nothing.
LEMMA FollowedInit == Init => TypeOK /\ Followed
<1>. SUFFICES ASSUME Init PROVE TypeOK /\ Followed
  OBVIOUS
<1>1. TypeOK
  BY InitTyped
<1>2. \A t \in Times : copies[t] = 0
  BY DEF Init
<1>3. Delivered = {}
  BY <1>2 DEF Delivered
<1>4. pc = "idle" /\ readAs = {}
  BY DEF Init
<1>5. /\ held.version \in {0, 1}
      /\ held.state = From(held.state.upstream)
  <2>1. CASE held = NoCursor
    BY <2>1 DEF NoCursor, From
  <2>2. CASE held # NoCursor
    <3>1. PICK t \in thread :
            held = [version |-> 1, gen |-> 1, state |-> From([at |-> t, hop |-> 0])]
      BY <2>2 DEF Init
    <3>. QED
      BY <3>1 DEF From
  <2>. QED
    BY <2>1, <2>2
<1>6. 0 \in 0 .. MaxGen
  BY BoundsAssumption
<1>. QED
  BY <1>1, <1>2, <1>3, <1>4, <1>5, <1>6 DEF Followed, Live

\* The inductive part of the chain: its types, and what the cursor remembers.
THEOREM InductiveChain == Spec => [](TypeOK /\ Followed)
<1>1. Init => TypeOK /\ Followed
  BY FollowedInit
<1>2. (TypeOK /\ Followed) /\ [Next]_vars => (TypeOK /\ Followed)'
  BY FollowedStep
<1>. QED
  BY <1>1, <1>2, PTL DEF Spec

\* Every variable keeps its type (the state of one page and of the cursors,
\* slack/thread.go:15-24, cursor/cursor.go:14-47).
THEOREM TypeCorrect == Spec => []TypeOK
BY InductiveChain, PTL

\* No chain delivers a message twice, whatever Slack answers to whatever
\* cursor, with whatever direction, and however the thread changes between the
\* fetches (slack/thread.go:147-229).
THEOREM NothingTwice == Spec => []NoneTwice
<1>1. Followed => NoneTwice
  BY DEF Followed, NoneTwice
<1>. QED
  BY <1>1, InductiveChain, PTL

\* threadPage writes no cursor that readThreadContinuation would refuse, and a
\* chain is read with one credential (slack/thread.go:83-115, 147-229,
\* cursor/cursor.go:64-95).
THEOREM CursorsServe == Spec => []ContinuationsHold
<1>1. ASSUME Followed PROVE ContinuationsHold
  <2>1. PICK g \in 0 .. MaxGen : readAs \subseteq {g}
    BY <1>1 DEF Followed
  <2>2. IsFiniteSet({g}) /\ Cardinality({g}) = 1
    BY FS_Singleton
  <2>3. Cardinality(readAs) <= 1
    BY <2>1, <2>2, FS_Subset
  <2>. QED
    BY <1>1, <2>3 DEF Followed, ContinuationsHold
<1>. QED
  BY <1>1, InductiveChain, PTL

-----------------------------------------------------------------------------
(* Nothing skipped *)

\* An honest answer is the native page, with the parent or without it.
LEMMA HonestPage ==
  ASSUME TypeOK, honest, NEW answer \in Answers(held.state.upstream, held.version = 0)
  PROVE  LET np == NativePage(held.state.upstream)
         IN /\ np \subseteq Beyond(held.state.upstream) /\ np \subseteq Replies
            /\ np \subseteq answer.raw /\ answer.raw \subseteq np \cup {Parent}
            /\ answer.next \in NextNatives(held.state.upstream, np)
            /\ \A t \in Beyond(held.state.upstream) \ np, u \in np :
                 /\ order = "up" => u < t
                 /\ order = "down" => t < u
<1>. DEFINE native == held.state.upstream
            np == NativePage(native)
<1>1. Beyond(native) \in SUBSET Replies /\ Beyond(native) \in SUBSET Times
  BY DEF TypeOK, Beyond, Replies
<1>2. size \in Nat /\ order \in {"up", "down"}
  BY BoundsAssumption DEF TypeOK
<1>3. np \subseteq Beyond(native)
  BY DEF NativePage, First, Last
<1>4. CASE order = "up"
  <2>1. np = First(Beyond(native), size)
    BY <1>4 DEF NativePage
  <2>2. \A t \in Beyond(native) \ np, u \in np : u < t
    BY <1>1, <1>2, <2>1, FirstIsPrefix
  <2>. QED
    BY <1>1, <1>3, <1>4, <2>2 DEF Answers, HonestAnswers
<1>5. CASE order = "down"
  <2>1. np = Last(Beyond(native), size)
    BY <1>5 DEF NativePage
  <2>2. \A t \in Beyond(native) \ np, u \in np : t < u
    BY <1>1, <1>2, <2>1, LastIsSuffix
  <2>. QED
    BY <1>1, <1>3, <1>5, <2>2 DEF Answers, HonestAnswers
<1>. QED
  BY <1>2, <1>4, <1>5

\* What the native page does not hold, Slack holds beyond its next cursor.
LEMMA BeyondNext ==
  ASSUME TypeOK, honest, NEW answer \in Answers(held.state.upstream, held.version = 0),
         NEW t \in Beyond(held.state.upstream) \ NativePage(held.state.upstream)
  PROVE  answer.next # NoNative /\ t \in Beyond(answer.next)
<1>. DEFINE native == held.state.upstream
            np == NativePage(native)
<1>1. /\ answer.next \in NextNatives(native, np) /\ np # Beyond(native)
      /\ np \subseteq Replies
      /\ \A u \in np : (order = "up" => u < t) /\ (order = "down" => t < u)
  BY HonestPage
<1>2. /\ answer.next \in Natives /\ native \in Natives
      /\ order \in {"up", "down"} /\ t \in thread
  BY <1>1 DEF NextNatives, TypeOK, Cursors, Continuations, Beyond
<1>. HIDE DEF np
<1>3. CASE np = {} /\ answer.next = [native EXCEPT !.hop = @ + 1]
  <2>1. answer.next.at = native.at /\ answer.next.hop = native.hop + 1 /\ native.hop \in Nat
    BY <1>2, <1>3, BoundsAssumption DEF Natives
  <2>2. answer.next # NoNative
    BY <2>1 DEF NoNative
  <2>. QED
    BY <2>1, <2>2 DEF Beyond
<1>4. CASE answer.next.at \in np
  <2>1. answer.next.at # None
    BY <1>1, <1>4, TimesAreNat DEF Replies, None
  <2>2. answer.next # NoNative
    BY <2>1 DEF NoNative
  <2>3. (order = "up" => t > answer.next.at) /\ (order = "down" => t < answer.next.at)
    <3>1. t \in Nat /\ answer.next.at \in Nat
      BY <1>1, <1>2, <1>4, TimesAreNat DEF TypeOK, Replies
    <3>. QED
      BY <1>1, <1>4, <3>1
  <2>. QED
    BY <1>2, <2>1, <2>2, <2>3 DEF Beyond
<1>. QED
  BY <1>1, <1>3, <1>4 DEF NextNatives

\* A reply that is still to come is among what is left of the native page, or
\* not in that page.
LEMMA StillToCome ==
  ASSUME TypeOK, Complete, honest, pc = "reading", order = "up" \/ gone = {},
         NEW answer \in Answers(held.state.upstream, held.version = 0),
         NEW t \in stable \ Delivered
  PROVE  \/ t \in Rest(answer.raw) /\ t \in NativePage(held.state.upstream)
         \/ t \in Beyond(held.state.upstream) \ NativePage(held.state.upstream)
<1>1. SUFFICES ASSUME t \in NativePage(held.state.upstream) PROVE t \in Rest(answer.raw)
  BY DEF Complete, Live, ToCome
<1>2. t \in answer.raw /\ t # Parent
  BY <1>1, HonestPage DEF Replies
<1>3. ToCome(held.state, t)
  BY DEF Complete, Live
<1>4. held.state.after # None => t > held.state.after
  <2>1. SUFFICES ASSUME held.state.after # None, order = "down", t < held.state.page.min
                 PROVE  FALSE
    BY <1>3 DEF ToCome
  <2>2. t \in Last(Beyond(held.state.upstream), size)
    BY <1>1, <2>1 DEF NativePage
  <2>3. held.state.page.min <= t
    BY <2>1, <2>2 DEF Complete, Live
  <2>4. t \in Nat /\ held.state.page.min \in Nat
    BY TimesAreNat, ContinuationsAreNat DEF TypeOK, Replies, Cursors
  <2>. QED
    BY <2>1, <2>3, <2>4
<1>. QED
  BY <1>2, <1>4 DEF Rest, Remaining

\* Descending, only the first page can have more than the limit: a later one is
\* no longer than it was asked to be.
LEMMA RefetchedAtTheTop ==
  ASSUME TypeOK, Followed, Complete, honest, pc = "reading", order = "down",
         NEW answer \in Answers(held.state.upstream, held.version = 0),
         ~(Cardinality(Rest(answer.raw)) <= limit)
  PROVE  held.state.page = NoRange
<1>. DEFINE np == NativePage(held.state.upstream)
<1>1. CASE held.version = 0
  BY <1>1 DEF Followed, Live, From
<1>2. CASE held.version # 0
  <2>1. Rest(answer.raw) \in SUBSET np
    BY <1>2, HonestPage DEF Rest, Remaining
  <2>2. /\ np = Last(Beyond(held.state.upstream), size)
        /\ Beyond(held.state.upstream) \in SUBSET Times /\ np \in SUBSET Times
    BY HonestPage DEF NativePage, Beyond, TypeOK, Replies
  <2>3. size \in Nat /\ size <= limit /\ limit \in Nat
    <3>1. 0 \in 0 .. MaxHops
      BY BoundsAssumption
    <3>. QED
      BY <3>1, SizesTyped DEF Complete, TypeOK, Limits
  <2>4. Cardinality(np) <= size
    BY <2>2, <2>3, LastIsSmall
  <2>5. IsFiniteSet(np) /\ Cardinality(np) \in Nat /\ Cardinality(Rest(answer.raw)) \in Nat
    BY <2>1, <2>2, TimesFinite
  <2>6. Cardinality(Rest(answer.raw)) <= Cardinality(np)
    BY <2>1, <2>5, FS_Subset
  <2>. QED
    BY <2>3, <2>4, <2>5, <2>6
<1>. QED
  BY <1>1, <1>2

\* Delivering leaves Slack as it was, with a page size for the next cursor.
LEMMA DeliverKeeps ==
  ASSUME TypeOK, Complete, honest, NEW out \in SUBSET Times, NEW next \in Cursors,
         Deliver(out, next)
  PROVE  /\ UNCHANGED <<honest, thread, stable, order, gone, limit>>
         /\ held' = next /\ Delivered' = Delivered \cup out
         /\ pc' = IF next = NoCursor THEN "finished" ELSE "idle"
         /\ next.state.upstream = held.state.upstream => size' = size
         /\ order = "down" => size' = UpstreamLimit(limit)
<1>1. /\ UNCHANGED <<honest, thread, stable, order, gone, limit>>
      /\ held' = next
      /\ pc' = IF next = NoCursor THEN "finished" ELSE "idle"
      /\ next.state.upstream = held.state.upstream => size' = size
      /\ \/ size' = size
         \/ size' \in Sizes(limit, next.state.upstream.hop)
  BY DEF Deliver
<1>2. next.state.upstream.hop \in 0 .. MaxHops
  BY DEF Cursors, Continuations, Natives
<1>3. order = "down" => size' = UpstreamLimit(limit)
  BY <1>1, <1>2, SizesTyped DEF Complete
<1>4. Delivered' = Delivered \cup out
  <2>1. \A t \in Times : copies'[t] = copies[t] + IF t \in out THEN 1 ELSE 0
    BY DEF Deliver
  <2>2. \A t \in Times : copies[t] \in Nat
    BY DEF TypeOK
  <2>. QED
    BY <2>1, <2>2 DEF Delivered
<1>. QED
  BY <1>1, <1>3, <1>4

\* A page that is delivered leaves behind the cursor whatever it did not deliver.
LEMMA CompleteDeliver ==
  ASSUME TypeOK, Followed, Complete, honest, pc = "reading",
         NEW answer \in Answers(held.state.upstream, held.version = 0),
         NEW page \in Accumulated(held.state, answer.raw), Fits(held.state, page),
         \/ Ends(answer)
         \/ Advances(answer, page)
         \/ \E last \in Times : Refetches(answer, page, last)
  PROVE  Complete'
<1>. DEFINE s == held.state
            native == s.upstream
            np == NativePage(native)
            out == Out(answer.raw)
            rest == Rest(answer.raw)
<1>1. s \in Continuations /\ Sound(s)
  BY HeldIsSound DEF Live
<1>2. /\ answer.raw \in SUBSET Times /\ answer.next \in Natives
      /\ rest \in SUBSET answer.raw /\ rest \in SUBSET Times
      /\ out \in SUBSET rest /\ out \in SUBSET Times
  BY AnswerTyped
<1>3. limit \in Nat \ {0}
  BY DEF TypeOK, Limits
<1>4. gen \in 1 .. MaxGen
  BY DEF TypeOK, Followed
<1>5. ASSUME order = "up" \/ gone = {}, NEW t \in stable \ Delivered
      PROVE  (t \in rest /\ t \in np) \/ t \in Beyond(native) \ np
  BY <1>5, StillToCome
<1>6. \A t \in Beyond(native) \ np : answer.next # NoNative /\ t \in Beyond(answer.next)
  BY BeyondNext
<1>7. stable \subseteq thread
  BY DEF Complete
<1>8. CASE Ends(answer)
  <2>1. /\ Deliver(out, NoCursor) /\ NoCursor \in Cursors
        /\ answer.next = NoNative /\ Cardinality(rest) <= limit
    BY <1>8, FromTyped DEF Ends
  <2>2. out = rest
    BY <1>2, <1>3, <2>1, FirstIsAll DEF Out
  <2>3. /\ UNCHANGED <<honest, thread, stable, order, gone, limit>>
        /\ Delivered' = Delivered \cup out /\ pc' = "finished"
        /\ order = "down" => size' = UpstreamLimit(limit)
    BY <1>2, <2>1, DeliverKeeps
  <2>4. order = "up" \/ gone = {} => stable \subseteq Delivered \cup out
    BY <1>5, <1>6, <2>1, <2>2
  <2>. QED
    BY <1>7, <2>3, <2>4 DEF Complete, Live, UpstreamLimit
<1>9. CASE Advances(answer, page)
  <2>. DEFINE state == Advance(s, page, answer.next, Turn(s, page))
              next == [version |-> 2, gen |-> gen, state |-> state]
  <2>1. Deliver(out, next) /\ Cardinality(rest) <= limit
    BY <1>9 DEF Advances
  <2>2. next \in Cursors
    BY <1>1, <1>2, <1>4, ContinuationTyped, CursorTyped, TimesAreNat
  <2>3. out = rest
    BY <1>2, <1>3, <2>1, FirstIsAll DEF Out
  <2>4. state.upstream = answer.next /\ state.after = None
    BY DEF Advance
  <2>5. next # NoCursor /\ next.state = state
    BY DEF NoCursor
  <2>. HIDE DEF state, next
  <2>6. /\ UNCHANGED <<honest, thread, stable, order, gone, limit>>
        /\ held' = next /\ Delivered' = Delivered \cup out /\ pc' = "idle"
        /\ order = "down" => size' = UpstreamLimit(limit)
    BY <1>2, <2>1, <2>2, <2>5, DeliverKeeps
  <2>7. ASSUME order = "up" \/ gone = {}, NEW t \in stable \ (Delivered \cup out)
        PROVE  t \in Beyond(answer.next)
    BY <1>5, <1>6, <2>3, <2>7
  <2>. QED
    BY <1>7, <2>4, <2>5, <2>6, <2>7 DEF Complete, Live, UpstreamLimit, ToCome, Beyond
<1>10. ASSUME NEW last \in Times, Refetches(answer, page, last)
       PROVE  Complete'
  <2>. DEFINE state == Refetch(s, page, last, Turn(s, page))
              next == [version |-> 2, gen |-> gen, state |-> state]
  <2>1. /\ Deliver(out, next) /\ ~(Cardinality(rest) <= limit)
        /\ last \in out /\ \A t \in out : t <= last
    BY <1>10 DEF Refetches
  <2>2. next \in Cursors
    BY <1>1, <1>2, <1>4, ContinuationTyped, CursorTyped
  <2>3. state.upstream = native /\ state.after = last /\ state.page = page
    BY <1>1 DEF Refetch, Continuations
  <2>4. next # NoCursor /\ next.state = state
    BY DEF NoCursor
  <2>. HIDE DEF state, next
  <2>5. /\ UNCHANGED <<honest, thread, stable, order, gone, limit, size>>
        /\ held' = next /\ Delivered' = Delivered \cup out /\ pc' = "idle"
        /\ order = "down" => size' = UpstreamLimit(limit)
    BY <1>2, <2>1, <2>2, <2>3, <2>4, DeliverKeeps
  <2>6. /\ np \subseteq Replies /\ np \subseteq answer.raw
        /\ answer.raw \subseteq np \cup {Parent}
        /\ np \subseteq thread
        /\ \A t \in Beyond(native) \ np, u \in np :
             (order = "up" => u < t) /\ (order = "down" => t < u)
    BY HonestPage DEF Beyond
  <2>7. order = "down" => page.min \in np
    <3>1. SUFFICES ASSUME order = "down" PROVE page.min \in np
      OBVIOUS
    <3>2. s.page = NoRange
      BY <2>1, <3>1, RefetchedAtTheTop
    <3>3. page # NoRange
      BY <2>1, MoreHasRange
    <3>4. page.min \in answer.raw \ {Parent}
      BY <1>1, <1>2, <3>2, <3>3, AccumulatedRange
    <3>. QED
      BY <2>6, <3>4
  <2>8. ASSUME order = "up" \/ gone = {}, NEW t \in stable \ (Delivered \cup out)
        PROVE  /\ t \in Beyond(native)
               /\ t > last \/ (order = "down" /\ t < page.min)
    <3>1. CASE t \in rest /\ t \in np
      <4>1. t \in rest \ First(rest, limit) /\ last \in First(rest, limit)
        BY <2>1, <2>8, <3>1 DEF Out
      <4>2. last < t
        BY <1>2, <1>3, <4>1, FirstIsPrefix
      <4>3. last \in Nat /\ t \in Nat
        BY <1>2, <3>1, TimesAreNat
      <4>. QED
        BY <3>1, <4>2, <4>3, HonestPage
    <3>2. CASE t \in Beyond(native) \ np
      <4>1. last \in Nat /\ t \in Nat /\ t > Parent
        BY <1>7, <2>8, TimesAreNat DEF TypeOK, Replies, Parent
      <4>2. CASE order = "down"
        BY <2>6, <2>7, <3>2, <4>2
      <4>3. CASE order = "up"
        <5>1. last \in np \/ last = Parent
          BY <1>2, <2>1, <2>6
        <5>. QED
          BY <2>6, <3>2, <4>1, <4>3, <5>1
      <4>. QED
        BY <4>2, <4>3 DEF TypeOK
    <3>. QED
      BY <1>5, <2>8, <3>1, <3>2
  <2>9. order = "down" =>
          /\ page.min \in thread
          /\ \A t \in Last(Beyond(native), size) : page.min <= t
    <3>1. SUFFICES ASSUME order = "down", NEW t \in Last(Beyond(native), size)
                   PROVE  page.min <= t
      BY <2>6, <2>7
    <3>2. t \in np
      BY <3>1 DEF NativePage
    <3>3. t \in answer.raw \ {Parent}
      BY <2>6, <3>2 DEF Replies
    <3>. QED
      BY <1>1, <1>2, <3>3, AccumulatedRange
  <2>. QED
    BY <1>7, <2>3, <2>4, <2>5, <2>8, <2>9
    DEF Complete, Live, UpstreamLimit, ToCome, Beyond, Last
<1>. QED
  BY <1>8, <1>9, <1>10

\* A posted reply is later than all others, and changes nothing of what is
\* fetched again from the top but the end.
LEMMA CompletePost ==
  ASSUME TypeOK, Complete, Post
  PROVE  Complete'
<1>1. /\ UNCHANGED <<honest, stable, order, gone, size>>
      /\ UNCHANGED <<pc, limit, held, copies>>
  BY DEF Post, reader
<1>2. PICK r \in Replies : /\ \A u \in thread \cup gone : r > u
                           /\ thread' = thread \cup {r}
  BY DEF Post
<1>3. Delivered' = Delivered
  BY <1>1 DEF Delivered
<1>4. SUFFICES ASSUME honest PROVE Complete'
  BY <1>1 DEF Complete
<1>5. stable' \subseteq thread' /\ (order' = "down" => size' = UpstreamLimit(limit)')
  BY <1>1, <1>2, <1>4 DEF Complete, UpstreamLimit
<1>6. \A t : ToCome(held.state, t) => ToCome(held.state, t)'
  BY <1>1, <1>2 DEF ToCome, Beyond
<1>7. (order' = "up" \/ gone' = {}) =>
        /\ pc' = "finished" => stable' \subseteq Delivered'
        /\ Live' => \A t \in stable' \ Delivered' : ToCome(held.state, t)'
  BY <1>1, <1>3, <1>4, <1>6 DEF Complete, Live
<1>8. ASSUME order = "down", gone = {}, Live, held.state.after # None
      PROVE  /\ held.state.page.min \in thread'
             /\ \A t \in Last(Beyond(held.state.upstream)', size) : held.state.page.min <= t
  <2>. DEFINE before == Beyond(held.state.upstream)
              after == Beyond(held.state.upstream)'
  <2>1. /\ held.state.page.min \in thread
        /\ \A t \in Last(before, size) : held.state.page.min <= t
    BY <1>4, <1>8 DEF Complete
  <2>2. after \subseteq before \cup {r} /\ before \subseteq after
    BY <1>1, <1>2 DEF Beyond
  <2>3. before \in SUBSET Times /\ r \in Times /\ size \in Nat
    BY <1>2, BoundsAssumption DEF Beyond, TypeOK, Replies
  <2>. HIDE DEF before, after
  <2>4. Last(after, size) \ {r} \subseteq Last(before, size)
    <3>1. CASE r \in before
      <4>1. after = before
        BY <2>2, <3>1
      <4>. QED
        BY <4>1
    <3>2. CASE r \notin before
      <4>1. after = before \/ after = before \cup {r}
        BY <2>2
      <4>. QED
        BY <2>3, <4>1, LastWithMore
    <3>. QED
      BY <3>1, <3>2
  <2>5. held.state.page.min <= r
    <3>1. held.state.page.min \in Nat /\ r \in Nat /\ r > held.state.page.min
      BY <1>2, <2>1, TimesAreNat DEF TypeOK, Replies
    <3>. QED
      BY <3>1
  <2>6. \A t \in Last(after, size) : held.state.page.min <= t
    BY <2>1, <2>4, <2>5
  <2>. QED
    BY <1>2, <2>1, <2>6 DEF after
<1>9. order' = "down" /\ gone' = {} /\ Live' /\ held'.state.after # None =>
        /\ held'.state.page.min \in thread'
        /\ \A t \in Last(Beyond(held.state.upstream)', size') : held'.state.page.min <= t
  BY <1>1, <1>8 DEF Live
<1>10. Last(Beyond(held.state.upstream), size)' = Last(Beyond(held.state.upstream)', size')
  BY DEF Last
<1>. QED
  BY <1>5, <1>7, <1>9, <1>10 DEF Complete

\* Nothing that is stable is lost between what was delivered and what is to come.
LEMMA CompleteStep ==
  ASSUME TypeOK, Followed, Complete, [Next]_vars
  PROVE  Complete'
<1>1. CASE Post
  BY <1>1, CompletePost
<1>2. CASE Delete
  <2>1. /\ UNCHANGED <<honest, order, size>>
        /\ UNCHANGED <<pc, limit, held, copies>>
    BY <1>2 DEF Delete, reader
  <2>2. PICK t \in thread : /\ thread' = thread \ {t} /\ stable' = stable \ {t}
                            /\ gone' = gone \cup {t}
    BY <1>2 DEF Delete
  <2>3. gone' # {} /\ Delivered' = Delivered
    BY <2>1, <2>2 DEF Delivered
  <2>4. SUFFICES ASSUME honest PROVE Complete'
    BY <2>1 DEF Complete
  <2>5. stable' \subseteq thread' /\ (order' = "down" => size' = UpstreamLimit(limit)')
    BY <2>1, <2>2, <2>4 DEF Complete, UpstreamLimit
  <2>6. order = "up" =>
          /\ pc' = "finished" => stable' \subseteq Delivered'
          /\ Live' => \A u \in stable' \ Delivered' : ToCome(held.state, u)'
    <3>1. \A u \in thread' : ToCome(held.state, u) => ToCome(held.state, u)'
      BY <2>1, <2>2 DEF ToCome, Beyond
    <3>. QED
      BY <2>1, <2>2, <2>3, <2>4, <2>5, <3>1 DEF Complete, Live
  <2>. QED
    BY <2>1, <2>3, <2>5, <2>6 DEF Complete
<1>3. CASE Login
  <2>1. /\ UNCHANGED <<honest, thread, stable, order, gone, size>>
        /\ UNCHANGED <<pc, limit, held, copies>>
    BY <1>3 DEF Login, reader
  <2>. QED
    BY <2>1 DEF Complete, Live, Delivered, ToCome, Beyond, UpstreamLimit, Last
<1>4. CASE BeginPage
  <2>1. /\ UNCHANGED <<honest, thread, stable, order, gone, size>>
        /\ UNCHANGED <<limit, held, copies>>
        /\ pc = "idle" /\ pc' \in {"stopped", "reading"}
    BY <1>4 DEF BeginPage, Stop, world
  <2>. QED
    BY <2>1 DEF Complete, Live, Delivered, ToCome, Beyond, UpstreamLimit, Last
<1>5. CASE ReadFails
  <2>1. /\ UNCHANGED <<honest, thread, stable, order, gone, size>>
        /\ UNCHANGED <<limit, held, copies>>
        /\ pc = "reading" /\ pc' = "idle"
    BY <1>5 DEF ReadFails, world
  <2>. QED
    BY <2>1 DEF Complete, Live, Delivered, ToCome, Beyond, UpstreamLimit, Last
<1>6. CASE EndPage
  <2>1. pc = "reading"
    BY <1>6, PageCases
  <2>2. CASE \E why \in Causes : Stop(why) /\ UNCHANGED gen
    <3>1. /\ UNCHANGED <<honest, thread, stable, order, gone, size>>
          /\ UNCHANGED <<limit, held, copies>>
          /\ pc' = "stopped"
      BY <2>2 DEF Stop, world
    <3>. QED
      BY <3>1 DEF Complete, Live, Delivered, ToCome, Beyond, UpstreamLimit, Last
  <2>3. CASE ~honest
    <3>1. honest' = honest
      BY <1>6, PageCases DEF Stop, world, Ends, Advances, Refetches, Deliver
    <3>. QED
      BY <2>3, <3>1 DEF Complete
  <2>4. CASE honest /\ ~(\E why \in Causes : Stop(why) /\ UNCHANGED gen)
    BY <1>6, <2>1, <2>4, PageCases, CompleteDeliver
  <2>. QED
    BY <2>2, <2>3, <2>4
<1>7. CASE UNCHANGED vars
  BY <1>7 DEF vars, world, reader, Complete, Live, Delivered, ToCome, Beyond,
              UpstreamLimit, Last
<1>. QED
  BY <1>1, <1>2, <1>3, <1>4, <1>5, <1>6, <1>7 DEF Next

\* At first everything is to come.
LEMMA CompleteInit ==
  ASSUME Init, TypeOK, Followed
  PROVE  Complete
<1>1. /\ stable = Beyond(held.state.upstream) /\ stable \subseteq thread
      /\ pc = "idle" /\ size \in Sizes(limit, 0)
  BY DEF Init, Beyond
<1>2. held.state.after = None
  <2>1. CASE held = NoCursor
    BY <2>1 DEF NoCursor, From
  <2>2. CASE held # NoCursor
    <3>1. PICK t \in thread :
            held = [version |-> 1, gen |-> 1, state |-> From([at |-> t, hop |-> 0])]
      BY <2>2 DEF Init
    <3>. QED
      BY <3>1 DEF From
  <2>. QED
    BY <2>1, <2>2
<1>3. order = "down" => size = UpstreamLimit(limit)
  <2>1. 0 \in 0 .. MaxHops
    BY BoundsAssumption
  <2>. QED
    BY <1>1, <2>1, SizesTyped
<1>. QED
  BY <1>1, <1>2, <1>3 DEF Complete, ToCome

\* The inductive invariant of a chain of pages.
THEOREM Inductive == Spec => []IInv
<1>1. Init => IInv
  BY FollowedInit, CompleteInit DEF IInv
<1>2. IInv /\ [Next]_vars => IInv'
  BY FollowedStep, CompleteStep DEF IInv
<1>. QED
  BY <1>1, <1>2, PTL DEF Spec

\* A chain that ends without an error has delivered every reply that was there
\* all the time, through all cursors, fetches of one native page and changes of
\* the thread (slack/thread.go:147-229).
THEOREM NothingMissed == Spec => []NothingSkipped
<1>1. IInv => NothingSkipped
  BY DEF IInv, Complete, NothingSkipped
<1>. QED
  BY <1>1, Inductive, PTL

=============================================================================
