----------------------------- MODULE MCFactStore -----------------------------
(* Instances of ActionsCatalogue for TLC. *)
EXTENDS ActionsCatalogue

CONSTANTS k1, k2

\* New rows with and without a connector key, edits of one field, and the
\* switch off.
MCResolverBodies ==
  {[name |-> "score", keyed |-> TRUE,  sample |-> Num(1), enabled |-> Null],
   [name |-> "score", keyed |-> FALSE, sample |-> Null,   enabled |-> FALSE],
   [name |-> "dates", keyed |-> FALSE, sample |-> Arr(<<Time(0), Time(Day)>>), enabled |-> Null],
   [name |-> "dates", keyed |-> TRUE,  sample |-> Null,   enabled |-> Null]}

Mapping(name, path, fact, transform, required) ==
  [name |-> name, path |-> path, factKey |-> fact, transform |-> transform,
   args |-> Null, required |-> required]

\* Paths that exist, that are missing and that were left out; a transform that
\* fails on numbers; two mappings for one fact.
MCMappingBodies ==
  {Mapping("m1", "score", "risk", Null, TRUE),
   Mapping("m1", "",      "risk", Null, Null),
   Mapping("m1", "dates", "age", "days_between", TRUE),
   Mapping("m2", "score", "risk", "count", FALSE),
   Mapping("m2", "score", "age", "days_between", FALSE),
   Mapping("m2", "none",  "age", "exists", TRUE)}

-----------------------------------------------------------------------------
(* What the transforms are called on, about 68 000 calls. *)

\* Instants around day boundaries: equal, a second apart, whole days apart.
Instants == {0, 1, Day - 1, Day, Day + 1, 2 * Day}

Paid    == Obj([state |-> Str("paid")])
Open    == Obj([state |-> Str("open")])
Scalars == {Nil, Num(0), Num(2), Bool(FALSE), Str(""), Str("x"), NumStr(3), Paid, EmptyObj}
Dated   == {Time(t) : t \in Instants} \cup {Str("x"), Nil}
Lists   == {Arr(<<>>), Arr(<<Paid>>), Arr(<<Paid, Open>>), Arr(<<Open, Num(1)>>)}
Pairs   == {Arr(<<x, y>>) : x, y \in Dated}

IsPaid == Pred("state", Str("paid"))

MCValues   == Scalars \cup Lists \cup Pairs
MCArgLists == {<<>>, <<Num(0)>>, <<Num(0), Num(2)>>}
                \cup {<<src, IsPaid>> : src \in Lists \cup {Nil, Paid}}
                \cup {<<Arr(<<Paid>>), Str("x")>>}
                \cup {<<x, y>> : x, y \in Dated}
=============================================================================
