------------------------ MODULE DecisionPagingProofs -------------------------
(***************************************************************************)
(* Proof that a walk through the list of decisions shows none twice and    *)
(* skips only what the cut of the cursor to seconds skips, for any number  *)
(* of rows, any pages and any inserts that commit meanwhile.               *)
(***************************************************************************)
EXTENDS DecisionPaging, FiniteSetTheorems, WellFoundedInduction, TLAPS

\* Rows have their time and their id.
Typed(R) == \A r \in R : r.at \in Nat /\ r.id \in Nat

\* A set of numbers that is not empty has a least one.
LEMMA NatMin ==
  ASSUME NEW T \in SUBSET Nat, T # {}
  PROVE  \E x \in T : \A y \in T : x <= y
<1>1. PICK x \in T : \A y \in T : ~(<<y, x>> \in OpToRel(<, Nat))
  BY NatLessThanWellFounded, WFMin
<1>2. \A y \in Nat : <<y, x>> \in OpToRel(<, Nat) <=> y < x
  BY DEF OpToRel
<1>3. \A y \in T : ~(y < x) /\ x \in Nat /\ y \in Nat
  BY <1>1, <1>2, Zenon
<1>4. \A y \in T : x <= y
  BY <1>3
<1> QED BY <1>4

\* The oldest time of a page is that of one of its rows.
LEMMA OldestIs ==
  ASSUME NEW page, Typed(page), page # {}
  PROVE  /\ Oldest(page) \in Nat
         /\ \E r \in page : r.at = Oldest(page)
         /\ \A r \in page : Oldest(page) <= r.at
<1> DEFINE T == {r.at : r \in page}
<1>1. T \in SUBSET Nat /\ T # {}
  BY DEF Typed
<1>2. \E x \in T : \A y \in T : x <= y
  BY <1>1, NatMin
<1>3. Min(T) \in T /\ \A y \in T : Min(T) <= y
  <2> HIDE DEF T
  <2> QED BY <1>2, Zenon DEF Min
<1> QED BY <1>1, <1>3 DEF Oldest

\* What formatting without the fraction does to a time.
LEMMA CutToSecond ==
  ASSUME NEW t \in Nat
  PROVE  LET f == (t \div PerSecond) * PerSecond IN
         /\ f \in Nat /\ f <= t
         /\ \A a \in Nat : f <= a /\ a <= t => Second(a) = Second(t)
<1>1. PerSecond \in Nat /\ PerSecond > 0
  BY PagingAssumption
<1>2. \A a \in Nat : LET q == a \div PerSecond IN
        q \in Nat /\ PerSecond * q <= a /\ a < PerSecond * (q + 1)
  BY <1>1, Z3
<1> QED BY <1>1, <1>2 DEF Second

-----------------------------------------------------------------------------
(* The first rows of a set *)

Ahead(r, R) == {s \in R : Before(s, r)}

\* The rows ahead of a row can be counted.
LEMMA AheadCounts ==
  ASSUME NEW R, IsFiniteSet(R), NEW r
  PROVE  IsFiniteSet(Ahead(r, R)) /\ Cardinality(Ahead(r, R)) \in Nat
  BY FS_Subset, FS_CardinalityType DEF Ahead

\* Whoever is before a row has fewer rows ahead.
LEMMA AheadGrows ==
  ASSUME NEW R, IsFiniteSet(R), Typed(R), NEW r \in R, NEW s \in R, Before(r, s)
  PROVE  Cardinality(Ahead(r, R)) < Cardinality(Ahead(s, R))
<1>1. Ahead(r, R) \subseteq Ahead(s, R)
  BY DEF Ahead, Before, Typed
<1>2. r \in Ahead(s, R) /\ r \notin Ahead(r, R)
  BY DEF Ahead, Before, Typed
<1>3. /\ Cardinality(Ahead(r, R)) <= Cardinality(Ahead(s, R))
      /\ Cardinality(Ahead(r, R)) = Cardinality(Ahead(s, R)) => Ahead(r, R) = Ahead(s, R)
  BY <1>1, AheadCounts, FS_Subset
<1> QED BY <1>2, <1>3, AheadCounts

\* Rows that are left out are not newer than any that is taken.
LEMMA FirstTakesNewest ==
  ASSUME NEW R, IsFiniteSet(R), Typed(R), NEW n \in Nat,
         NEW r \in R, r \notin First(n, R), NEW s \in First(n, R)
  PROVE  r.at <= s.at
<1>1. s \in R /\ Cardinality(Ahead(s, R)) < n
  BY DEF First, Ahead
<1>2. ~(Cardinality(Ahead(r, R)) < n)
  BY DEF First, Ahead
<1>3. ~Before(r, s)
  <2> SUFFICES ASSUME Before(r, s) PROVE FALSE
    OBVIOUS
  <2>1. Cardinality(Ahead(r, R)) < Cardinality(Ahead(s, R))
    BY <1>1, AheadGrows
  <2> QED BY <1>1, <1>2, <2>1, AheadCounts
<1> QED BY <1>1, <1>3 DEF Before, Typed

\* LIMIT n with n > 0 takes a row if there is one.
LEMMA FirstTakesSome ==
  ASSUME NEW R, IsFiniteSet(R), Typed(R), R # {}, NEW n \in Nat \ {0}
  PROVE  First(n, R) # {}
<1> DEFINE T == {Cardinality(Ahead(r, R)) : r \in R}
<1>1. T \in SUBSET Nat /\ T # {}
  BY AheadCounts
<1>2. PICK x \in T : \A y \in T : x <= y
  <2> HIDE DEF T
  <2> QED BY <1>1, NatMin
<1>3. PICK r \in R : \A s \in R : Cardinality(Ahead(r, R)) <= Cardinality(Ahead(s, R))
  BY <1>2
<1>4. Ahead(r, R) = {}
  <2> SUFFICES ASSUME NEW s \in Ahead(r, R) PROVE FALSE
    OBVIOUS
  <2>1. s \in R /\ Before(s, r)
    BY DEF Ahead
  <2>2. Cardinality(Ahead(s, R)) < Cardinality(Ahead(r, R))
    BY <2>1, AheadGrows
  <2> QED BY <1>3, <2>1, <2>2, AheadCounts
<1>5. Cardinality(Ahead(r, R)) = 0
  BY <1>4, FS_EmptySet
<1> QED BY <1>5 DEF First, Ahead

-----------------------------------------------------------------------------
(* The cursor *)

\* Rows are finitely many, and typed also before they commit.
RowsInv ==
  /\ now \in Nat
  /\ IsFiniteSet(rows)
  /\ Typed(rows) /\ Typed(pending)

\* The cut of a cursor took r from the reader w.
Skipped(r, w) == \E t \in w.last : Second(r.at) = Second(t) /\ r.at <= t

\* What the reader still has to come.
ToCome(r, w) == w.on /\ (w.after = Null \/ r.at < w.after)

\* The fields of a reader, and that what it saw or skipped is not older than
\* its cursor.
ReaderInv(w) ==
  /\ w.base \subseteq rows /\ w.seen \subseteq rows
  /\ w.last \subseteq Nat
  /\ w.on => w.limit \in Nat \ {0}
  /\ w.on => ~w.blank
  /\ ~w.twice
  /\ w.on /\ w.after = Null => w.seen = {}
  /\ w.on /\ w.after # Null => w.after \in Nat /\ \A r \in w.seen : w.after <= r.at
  /\ ~w.blank => \A r \in w.base \ w.seen : Skipped(r, w) \/ ToCome(r, w)

WalkInv == DOMAIN walk = DOMAIN NoWalk /\ ReaderInv(walk)

PagingInv == RowsInv /\ WalkInv

\* w is the reader v after it was shown a page, whole or broken off.
After(v, w, page) ==
  /\ DOMAIN w = DOMAIN NoWalk
  /\ w.on <=> page # {}
  /\ w.limit = v.limit /\ w.base = v.base
  /\ w.after = NextAfter(page)
  /\ w.seen = v.seen \cup page
  /\ w.twice <=> v.twice \/ page \cap v.seen # {}
  /\ w.last = IF page = {} THEN v.last ELSE v.last \cup {Oldest(page)}

\* What a page changes in the reader, field by field.
LEMMA ShownIsAfter ==
  ASSUME NEW v, DOMAIN v = DOMAIN NoWalk, NEW page
  PROVE  After(v, Shown(v, page), page) /\ (Shown(v, page).blank = v.blank)
<1> DEFINE w == Shown(v, page)
<1>1. DOMAIN NoWalk = {"on", "limit", "after", "base", "seen", "twice", "last", "blank"}
  BY DEF NoWalk
<1>2. DOMAIN w = DOMAIN v
  BY DEF Shown
<1>3. w.limit = v.limit /\ w.base = v.base /\ w.after = NextAfter(page) /\ w.blank = v.blank
  BY <1>1 DEF Shown
<1>4. w.on = (page # {})
  BY <1>1 DEF Shown
<1>5. w.seen = v.seen \cup page
  BY <1>1 DEF Shown
<1>6. w.twice = (v.twice \/ page \cap v.seen # {})
  BY <1>1 DEF Shown
<1>7. w.last = IF page = {} THEN v.last ELSE v.last \cup {Oldest(page)}
  BY <1>1 DEF Shown
<1> HIDE DEF w
<1>8. After(v, w, page)
  BY <1>2, <1>3, <1>4, <1>5, <1>6, <1>7, Zenon DEF After
<1> QED BY <1>3, <1>8 DEF w

\* The same for a page that broke off.
LEMMA BrokenIsAfter ==
  ASSUME NEW v, DOMAIN v = DOMAIN NoWalk, NEW page, NEW b
  PROVE  LET w == [Shown(v, page) EXCEPT !.blank = b] IN
         After(v, w, page) /\ (w.blank = b)
<1> DEFINE u == Shown(v, page)
           w == [u EXCEPT !.blank = b]
<1>1. After(v, u, page)
  BY ShownIsAfter
<1> HIDE DEF u
<1>2. DOMAIN NoWalk = {"on", "limit", "after", "base", "seen", "twice", "last", "blank"}
  BY DEF NoWalk
<1>3. DOMAIN u = DOMAIN NoWalk
  BY <1>1 DEF After
<1>4. DOMAIN w = DOMAIN NoWalk
  BY <1>3
<1>5. /\ w.limit = u.limit /\ w.base = u.base /\ w.after = u.after /\ w.on = u.on
      /\ w.seen = u.seen /\ w.twice = u.twice /\ w.last = u.last /\ w.blank = b
  BY <1>2, <1>3
<1> HIDE DEF w
<1>6. After(v, w, page)
  BY <1>1, <1>4, <1>5, Zenon DEF After
<1> QED BY <1>5, <1>6 DEF u, w

-----------------------------------------------------------------------------
(* A page *)

\* A page whose rows come before those it leaves out keeps the invariant.
LEMMA PageKeeps ==
  ASSUME RowsInv, ReaderInv(walk), walk.on,
         NEW page \in SUBSET Matching(walk.after),
         \A r \in Matching(walk.after) \ page : \A s \in page : r.at <= s.at,
         NEW w, After(walk, w, page),
         page = {} => w.blank \/ Matching(walk.after) = {},
         page # {} => ~w.blank
  PROVE  ReaderInv(w)
<1>1. page \subseteq rows /\ Typed(page) /\ Typed(walk.seen) /\ Typed(walk.base)
  BY DEF RowsInv, ReaderInv, Matching, Typed
<1>2. ~w.twice
  <2>1. page \cap walk.seen = {}
    BY <1>1 DEF Matching, ReaderInv, Typed
  <2> QED BY <2>1 DEF After, ReaderInv
<1>3. ASSUME page = {} PROVE ReaderInv(w)
  <2>1. ~w.on /\ w.seen = walk.seen /\ w.last = walk.last /\ w.base = walk.base
    BY <1>3 DEF After
  <2>2. ~walk.blank
    BY DEF ReaderInv
  <2>3. ASSUME ~w.blank, NEW r \in w.base \ w.seen PROVE Skipped(r, w)
    <3>1. Skipped(r, walk) \/ ToCome(r, walk)
      BY <2>1, <2>2, <2>3 DEF ReaderInv
    <3>2. ~ToCome(r, walk)
      BY <1>3, <2>1, <2>3 DEF ToCome, Matching, ReaderInv
    <3> QED BY <2>1, <3>1, <3>2 DEF Skipped
  <2> QED BY <1>2, <2>1, <2>3 DEF ReaderInv
<1>4. ASSUME page # {} PROVE ReaderInv(w)
  <2> DEFINE o == Oldest(page)
             f == (o \div PerSecond) * PerSecond
  <2>1. o \in Nat /\ (\E r \in page : r.at = o) /\ \A r \in page : o <= r.at
    BY <1>1, <1>4, OldestIs
  <2>2. f \in Nat /\ f <= o /\ \A a \in Nat : f <= a /\ a <= o => Second(a) = Second(o)
    BY <2>1, CutToSecond
  <2>3. w.after = f
    BY <1>4 DEF After, NextAfter
  <2>4. w.last = walk.last \cup {o} /\ w.on /\ ~w.blank
    BY <1>4 DEF After
  <2>5. w.seen = walk.seen \cup page /\ w.base = walk.base /\ w.limit = walk.limit
    BY DEF After
  <2> HIDE DEF o, f
  <2>6. ASSUME NEW r \in w.seen PROVE f <= r.at
    <3>1. CASE r \in page
      BY <1>1, <2>1, <2>2, <3>1 DEF Typed
    <3>2. CASE r \in walk.seen
      <4>1. PICK s \in page : s.at = o
        BY <2>1
      <4>2. walk.after # Null /\ walk.after \in Nat /\ walk.after <= r.at
        BY <3>2 DEF ReaderInv
      <4>3. s.at < walk.after
        BY <4>1, <4>2 DEF Matching
      <4> QED BY <1>1, <2>1, <2>2, <3>2, <4>1, <4>2, <4>3 DEF Typed
    <3> QED BY <2>5, <3>1, <3>2
  <2>7. ASSUME NEW r \in w.base \ w.seen PROVE Skipped(r, w) \/ ToCome(r, w)
    <3>1. r \in walk.base \ walk.seen /\ r \notin page /\ r \in rows /\ r.at \in Nat
      BY <1>1, <2>5 DEF ReaderInv, Typed
    <3>2. Skipped(r, walk) \/ ToCome(r, walk)
      BY <3>1 DEF ReaderInv
    <3>3. CASE Skipped(r, walk)
      BY <2>4, <3>3 DEF Skipped
    <3>4. CASE ToCome(r, walk)
      <4>1. r \in Matching(walk.after) \ page
        BY <3>1, <3>4 DEF ToCome, Matching
      <4>2. r.at <= o
        BY <2>1, <4>1
      <4>3. CASE r.at < f
        BY <2>3, <2>4, <4>3 DEF ToCome
      <4>4. CASE f <= r.at
        <5>1. Second(r.at) = Second(o) /\ r.at <= o
          BY <2>2, <3>1, <4>2, <4>4
        <5> QED BY <2>4, <5>1 DEF Skipped
      <4> QED BY <2>2, <3>1, <4>3, <4>4
    <3> QED BY <3>2, <3>3, <3>4
  <2>8. w.after # Null
    BY <2>2, <2>3, PagingAssumption
  <2>9. w.limit \in Nat \ {0}
    BY <2>5 DEF ReaderInv
  <2>10. w.base \subseteq rows /\ w.seen \subseteq rows /\ w.last \subseteq Nat
    BY <1>1, <2>1, <2>4, <2>5 DEF ReaderInv
  <2> QED BY <1>2, <2>2, <2>3, <2>4, <2>6, <2>7, <2>8, <2>9, <2>10 DEF ReaderInv
<1> QED BY <1>3, <1>4

\* The rows that a query selects are finitely many rows.
LEMMA MatchingTyped ==
  ASSUME RowsInv, NEW a
  PROVE  IsFiniteSet(Matching(a)) /\ Typed(Matching(a))
<1>1. Matching(a) \subseteq rows
  BY DEF Matching
<1>2. IsFiniteSet(Matching(a))
  BY <1>1, FS_Subset DEF RowsInv
<1> QED BY <1>1, <1>2 DEF RowsInv, Typed

\* A page keeps the invariant: it takes the newest rows before the cursor.
LEMMA ListKeeps ==
  ASSUME PagingInv, listDecisions
  PROVE  WalkInv'
<1> DEFINE M == Matching(walk.after)
           page == First(walk.limit, M)
<1>1. IsFiniteSet(M) /\ Typed(M) /\ walk.on /\ walk.limit \in Nat \ {0} /\ ~walk.blank
  BY MatchingTyped DEF PagingInv, WalkInv, ReaderInv, listDecisions
<1>2. page \in SUBSET M
  BY DEF First
<1>3. \A r \in M \ page : \A s \in page : r.at <= s.at
  <2> HIDE DEF M
  <2> QED BY <1>1, FirstTakesNewest
<1>4. M # {} => page # {}
  <2> HIDE DEF M
  <2> QED BY <1>1, FirstTakesSome
<1>5. walk' = Shown(walk, page) /\ rows' = rows
  BY DEF listDecisions, Page
<1>6. After(walk, walk', page) /\ (walk'.blank = walk.blank)
  BY <1>5, ShownIsAfter DEF PagingInv, WalkInv
<1>7. ReaderInv(walk')
  <2> HIDE DEF page
  <2> QED BY <1>1, <1>2, <1>3, <1>4, <1>6, PageKeeps DEF PagingInv, WalkInv, M
<1>8. ReaderInv(walk)'
  BY <1>5, <1>7 DEF ReaderInv, Skipped, ToCome
<1> QED BY <1>6, <1>8 DEF WalkInv, After, NoWalk

\* A page that breaks off after a row is a shorter page.
LEMMA BreakKeeps ==
  ASSUME PagingInv, PageBreaksOff
  PROVE  WalkInv'
<1> DEFINE M == Matching(walk.after)
           whole == First(walk.limit, M)
<1>1. IsFiniteSet(M) /\ Typed(M) /\ walk.on /\ walk.limit \in Nat \ {0}
  BY MatchingTyped DEF PagingInv, WalkInv, ReaderInv, PageBreaksOff
<1>2. whole \in SUBSET M
  BY DEF First
<1>3. IsFiniteSet(whole) /\ Typed(whole) /\ Cardinality(whole) \in Nat
  <2>1. IsFiniteSet(whole)
    BY <1>1, <1>2, FS_Subset
  <2> QED BY <1>1, <1>2, <2>1, FS_CardinalityType DEF Typed
<1>4. whole # {} /\ rows' = rows
  BY DEF PageBreaksOff, Page
<1>5. PICK n \in 0..(Cardinality(whole) - 1) :
        walk' = [Shown(walk, First(n, whole)) EXCEPT !.blank = n = 0]
  BY Zenon DEF PageBreaksOff, Page
<1> DEFINE page == First(n, whole)
<1>6. n \in Nat
  BY <1>3, <1>5
<1>7. page \in SUBSET M
  BY <1>2 DEF First
<1>8. ASSUME NEW r \in M \ page, NEW s \in page PROVE r.at <= s.at
  <2>1. s \in whole
    BY DEF First
  <2>2. CASE r \in whole
    <3> HIDE DEF whole
    <3> QED BY <1>3, <1>6, <2>2, FirstTakesNewest
  <2>3. CASE r \notin whole
    <3> HIDE DEF M
    <3> QED BY <1>1, <2>1, <2>3, FirstTakesNewest
  <2> QED BY <2>2, <2>3
<1>9. n # 0 => page # {}
  <2> HIDE DEF whole
  <2> QED BY <1>3, <1>4, <1>6, FirstTakesSome
<1>10. n = 0 => page = {}
  <2> HIDE DEF whole
  <2> SUFFICES ASSUME n = 0, NEW r \in page PROVE FALSE
    OBVIOUS
  <2>1. Cardinality(Ahead(r, whole)) < 0 /\ Cardinality(Ahead(r, whole)) \in Nat
    BY <1>3, AheadCounts DEF First, Ahead
  <2> QED BY <2>1
<1>11. After(walk, walk', page) /\ (walk'.blank = (n = 0))
  BY <1>5, BrokenIsAfter DEF PagingInv, WalkInv
<1>12. (page = {} => walk'.blank) /\ (page # {} => ~walk'.blank)
  BY <1>9, <1>10, <1>11
<1>13. ReaderInv(walk')
  <2> HIDE DEF page
  <2> QED BY <1>1, <1>7, <1>8, <1>11, <1>12, PageKeeps DEF PagingInv, WalkInv, M
<1>14. ReaderInv(walk)'
  BY <1>4, <1>13 DEF ReaderInv, Skipped, ToCome
<1> QED BY <1>11, <1>14 DEF WalkInv, After, NoWalk

-----------------------------------------------------------------------------
(* The other steps *)

\* A reader that has not begun satisfies the invariant.
LEMMA FreshReader ==
  ReaderInv(NoWalk)
  BY DEF ReaderInv, NoWalk

\* A walk that begins has every row of its base to come.
LEMMA OpenKeeps ==
  ASSUME PagingInv, NEW l \in Limits, Open(l)
  PROVE  WalkInv'
<1> DEFINE w == [NoWalk EXCEPT !.on = TRUE, !.limit = Limit(l), !.base = rows]
<1>1. walk' = w /\ rows' = rows
  BY DEF Open
<1>2. Limit(l) \in Nat \ {0}
  BY PagingAssumption DEF Limit
<1>3. /\ DOMAIN w = DOMAIN NoWalk
      /\ w.limit = Limit(l) /\ w.base = rows /\ w.after = Null
      /\ w.seen = {} /\ w.last = {} /\ w.on /\ ~w.twice /\ ~w.blank
  BY DEF NoWalk
<1> HIDE DEF w
<1>4. ReaderInv(w)
  BY <1>2, <1>3 DEF ReaderInv, ToCome
<1>5. ReaderInv(walk)'
  BY <1>1, <1>4 DEF ReaderInv, Skipped, ToCome
<1> QED BY <1>1, <1>3, <1>5 DEF WalkInv, NoWalk

\* Rows are only added, and the reader keeps its own.
LEMMA RowsGrow ==
  ASSUME WalkInv, rows \subseteq rows', walk' = walk
  PROVE  WalkInv'
<1>1. ReaderInv(walk)'
  BY DEF WalkInv, ReaderInv, Skipped, ToCome
<1> QED BY <1>1 DEF WalkInv, NoWalk

\* The invariant holds at the start.
LEMMA PagingInvInit ==
  PagingInit => PagingInv
<1> SUFFICES ASSUME PagingInit PROVE PagingInv
  OBVIOUS
<1>1. RowsInv
  BY FS_EmptySet DEF PagingInit, RowsInv, Typed
<1> QED BY <1>1, FreshReader DEF PagingInit, PagingInv, WalkInv

\* Every step keeps the invariant.
LEMMA PagingInvStep ==
  PagingInv /\ [PagingNext]_pagingVars => PagingInv'
<1> SUFFICES ASSUME PagingInv, [PagingNext]_pagingVars PROVE PagingInv'
  OBVIOUS
<1>1. ASSUME NEW id \in 1..MaxRows, BeginInsert(id) PROVE PagingInv'
  <2>1. Typed(pending)'
    BY <1>1, PagingAssumption DEF BeginInsert, PagingInv, RowsInv, Typed
  <2>2. WalkInv'
    BY <1>1, RowsGrow DEF BeginInsert, PagingInv
  <2> QED BY <1>1, <2>1, <2>2 DEF BeginInsert, PagingInv, RowsInv, Typed
<1>2. ASSUME NEW r \in pending, CommitInsert(r) PROVE PagingInv'
  <2>1. IsFiniteSet(rows)'
    BY <1>2, FS_AddElement DEF CommitInsert, PagingInv, RowsInv
  <2>2. Typed(rows)' /\ Typed(pending)' /\ now' \in Nat
    BY <1>2 DEF CommitInsert, PagingInv, RowsInv, Typed
  <2>3. WalkInv'
    BY <1>2, RowsGrow DEF CommitInsert, PagingInv
  <2> QED BY <2>1, <2>2, <2>3 DEF PagingInv, RowsInv
<1>3. ASSUME Tick PROVE PagingInv'
  <2>1. WalkInv'
    BY <1>3, RowsGrow DEF Tick, PagingInv
  <2> QED BY <1>3, <2>1 DEF Tick, PagingInv, RowsInv, Typed
<1>4. ASSUME UNCHANGED <<now, rows, pending>>, WalkInv' PROVE PagingInv'
  BY <1>4 DEF PagingInv, RowsInv, Typed
<1>5. ASSUME NEW l \in Limits, Open(l) PROVE PagingInv'
  BY <1>4, <1>5, OpenKeeps DEF Open
<1>6. CASE listDecisions
  BY <1>4, <1>6, ListKeeps DEF listDecisions
<1>7. CASE PageBreaksOff
  BY <1>4, <1>7, BreakKeeps DEF PageBreaksOff
<1>8. CASE GiveUp
  <2>1. WalkInv'
    BY <1>8 DEF GiveUp, WalkInv, ReaderInv, NoWalk
  <2> QED BY <1>4, <1>8, <2>1 DEF GiveUp
<1>9. CASE UNCHANGED pagingVars
  <2>1. WalkInv'
    BY <1>9, RowsGrow DEF pagingVars, PagingInv
  <2> QED BY <1>4, <1>9, <2>1 DEF pagingVars
<1> QED BY <1>1, <1>2, <1>3, <1>5, <1>6, <1>7, <1>8, <1>9 DEF PagingNext

\* No walk lists a decision twice: a page holds only rows older than its cursor,
\* and the cut of the cursor only makes it older than what was shown.
THEOREM WalkShowsOnce ==
  PagingSpec => []NoRowTwice
<1>1. PagingInv => NoRowTwice
  BY DEF PagingInv, WalkInv, ReaderInv, NoRowTwice
<1> QED BY <1>1, PagingInvInit, PagingInvStep, PTL DEF PagingSpec

\* Whatever commits during a walk, a row that was there when it began and that
\* listDecisions never showed is in the second of the last row of a page.
THEOREM WalkSkipsWithinSecond ==
  PagingSpec => []SkipsOnlyWithinSecond
<1>1. PagingInv => SkipsOnlyWithinSecond
  BY DEF PagingInv, WalkInv, ReaderInv, SkipsOnlyWithinSecond, Skipped, ToCome
<1> QED BY <1>1, PagingInvInit, PagingInvStep, PTL DEF PagingSpec
=============================================================================
