---------------------------- MODULE DecisionPaging ----------------------------
(***************************************************************************)
(* The audit list of decisions (listDecisions of                           *)
(* internal/adminapi/handlers_analytics.go), read page by page while       *)
(* preflights add rows.                                                    *)
(*                                                                         *)
(* created_at is the time at which the inserting statement began; its row  *)
(* is seen only when it commits, so rows may appear behind rows that were  *)
(* read before.  Pages are ordered by created_at and id, newest first; the *)
(* cursor is the created_at of the page's last row, formatted without the  *)
(* fraction of its second.                                                 *)
(***************************************************************************)
EXTENDS Integers, FiniteSets, FiniteSetsExt

CONSTANTS
  Null,
  PerSecond,     \* instants in a second
  DefaultLimit,  \* 100
  MaxLimit,      \* 500
  Limits,        \* ?limit= of a request, Null when absent or not a number
  MaxTime,       \* bound on the clock
  MaxRows,       \* bound on the decisions
  MaxWalks,      \* bound on the walks through the list
  MaxFaults      \* bound on the pages that break off

ASSUME PagingAssumption ==
  /\ PerSecond \in Nat \ {0}
  /\ DefaultLimit \in 1..MaxLimit
  /\ MaxTime \in Nat /\ MaxRows \in Nat /\ MaxWalks \in Nat /\ MaxFaults \in Nat
  /\ MaxLimit \in Nat /\ Null \notin Nat
  /\ \A l \in Limits : l = Null \/ l \in Int

VARIABLES
  now,
  rows,     \* table decisions: committed [id, at]
  pending,  \* rows whose INSERT has begun
  walk,     \* the reader: its cursor and, as history, what it was shown
  walks,    \* number of walks begun
  faults    \* number of pages that broke off

pagingVars == <<now, rows, pending, walk, walks, faults>>

\* on: a page is still to come.  after: next_after of the last page.  base: the
\* rows there were at the start.  last: the times of the pages' last rows.
\* blank: a page broke off before its first row.
NoWalk == [on |-> FALSE, limit |-> Null, after |-> Null, base |-> {}, seen |-> {},
           twice |-> FALSE, last |-> {}, blank |-> FALSE]

PagingInit ==
  /\ now = 0 /\ rows = {} /\ pending = {}
  /\ walk = NoWalk /\ walks = 0 /\ faults = 0

-----------------------------------------------------------------------------
(* Rows *)

\* Ids are random: any that is not taken.
BeginInsert(id) ==
  /\ id \notin {r.id : r \in rows \cup pending}
  /\ pending' = pending \cup {[id |-> id, at |-> now]}
  /\ UNCHANGED <<now, rows, walk, walks, faults>>

CommitInsert(r) ==
  /\ r \in pending
  /\ pending' = pending \ {r}
  /\ rows' = rows \cup {r}
  /\ UNCHANGED <<now, walk, walks, faults>>

Tick ==
  /\ now < MaxTime
  /\ now' = now + 1
  /\ UNCHANGED <<rows, pending, walk, walks, faults>>

-----------------------------------------------------------------------------
(* listDecisions *)

LimitUnchecked(l) == IF l = Null THEN DefaultLimit ELSE l

Limit(l) == IF l # Null /\ l > 0 /\ l <= MaxLimit THEN l ELSE DefaultLimit

Before(s, r) == s.at > r.at \/ (s.at = r.at /\ s.id > r.id)

\* created_at <= $2.
MatchingThrough(after) == {r \in rows : after = Null \/ r.at <= after}

\* created_at < $2, or every row without a cursor that can be parsed.
Matching(after) == {r \in rows : after = Null \/ r.at < after}

First(n, R) == {r \in R : Cardinality({s \in R : Before(s, r)}) < n}

Page(n, after) == First(n, Matching(after))

Oldest(page) == Min({r.at : r \in page})

NextAfterNewest(page) == IF page = {} THEN Null ELSE Max({r.at : r \in page})

\* time.RFC3339 of the oldest created_at, which drops the fraction.
NextAfter(page) == IF page = {} THEN Null ELSE (Oldest(page) \div PerSecond) * PerSecond

\* The reader w is shown a page.
Shown(w, page) ==
  [w EXCEPT !.on = page # {}, !.after = NextAfter(page), !.seen = @ \cup page,
            !.twice = @ \/ page \cap w.seen # {},
            !.last = IF page = {} THEN @ ELSE @ \cup {Oldest(page)}]

Open(l) ==
  /\ ~walk.on /\ walks < MaxWalks
  /\ walks' = walks + 1
  /\ walk' = [NoWalk EXCEPT !.on = TRUE, !.limit = Limit(l), !.base = rows]
  /\ UNCHANGED <<now, rows, pending, faults>>

\* One query: the first page, or the one that next_after leads to.
listDecisions ==
  /\ walk.on
  /\ walk' = Shown(walk, Page(walk.limit, walk.after))
  /\ UNCHANGED <<now, rows, pending, walks, faults>>

\* rows.Next ends early and rows.Err is not read: the rows so far are the page.
PageBreaksOff ==
  /\ walk.on /\ faults < MaxFaults
  /\ faults' = faults + 1
  /\ LET page == Page(walk.limit, walk.after) IN
     /\ page # {}
     /\ \E n \in 0..(Cardinality(page) - 1) :
          walk' = [Shown(walk, First(n, page)) EXCEPT !.blank = n = 0]
  /\ UNCHANGED <<now, rows, pending, walks>>

\* 500: the reader gives up, or asks for the page again.
GiveUp ==
  /\ walk.on /\ faults < MaxFaults
  /\ faults' = faults + 1
  /\ walk' = NoWalk
  /\ UNCHANGED <<now, rows, pending, walks>>

PagingNext ==
  \/ \E id \in 1..MaxRows : BeginInsert(id)
  \/ \E r \in pending : CommitInsert(r)
  \/ Tick
  \/ \E l \in Limits : Open(l)
  \/ listDecisions \/ PageBreaksOff \/ GiveUp

\* The reader follows next_after as long as there is one.
PagingSpec == PagingInit /\ [][PagingNext]_pagingVars /\ WF_pagingVars(listDecisions)

-----------------------------------------------------------------------------
(* Properties *)

\* No decision is listed twice in a walk, whatever is inserted meanwhile.
NoRowTwice == ~walk.twice

Second(t) == t \div PerSecond

\* A walk that has ended has shown every decision that was there when it
\* began, but for those in the same second as the last row of one of its pages
\* and not newer than it, which the cursor skips.  A page that breaks off loses
\* others only if it broke off before its first row.
SkipsOnlyWithinSecond ==
  ~walk.on /\ ~walk.blank =>
    \A r \in walk.base \ walk.seen :
      \E t \in walk.last : Second(r.at) = Second(t) /\ r.at <= t

\* A reader who follows the cursors reaches the end: cursors only go back.
WalkEnds == walk.on ~> ~walk.on
=============================================================================
