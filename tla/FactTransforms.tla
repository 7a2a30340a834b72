---------------------------- MODULE FactTransforms ----------------------------
(***************************************************************************)
(* The transforms of internal/facts/engine.go, over JSON values tagged by  *)
(* kind.  Text is kept by what the engine tells apart: a string that       *)
(* ParseFloat reads ("numstr"), a string that toTime reads ("time", in     *)
(* seconds), a predicate field=='value' ("pred"), the printed form of a    *)
(* composite ("printed") and any other text ("str"; "" is blank text).     *)
(*                                                                         *)
(* applyTransform is the set of results a call may return, because "now"   *)
(* and "days_between" read the clock; an error is the value Error.         *)
(***************************************************************************)
EXTENDS Integers, SequencesExt

Nil       == [k |-> "nil"]
Error     == [k |-> "error"]
Num(n)    == [k |-> "num", n |-> n]
Bool(b)   == [k |-> "bool", b |-> b]
Str(s)    == [k |-> "str", s |-> s]
NumStr(n) == [k |-> "numstr", n |-> n]
Time(t)   == [k |-> "time", t |-> t]
Pred(f,v) == [k |-> "pred", field |-> f, is |-> v]
Arr(e)    == [k |-> "arr", e |-> e]
Obj(f)    == [k |-> "obj", f |-> f]

StringKinds == {"str", "numstr", "time", "pred", "printed"}
EmptyObj    == Obj(<<>>)

Day == 86400

\* Numbers count as themselves, everything else as 0.
toFloat(v) == IF v.k = "num" THEN v.n ELSE 0

\* toFloat over an array, added up.
SumOf(s) == FoldSeq(LAMBDA x, acc : acc + toFloat(x), 0, s)

isZero(v) ==
  CASE v.k = "nil" -> TRUE
    [] v.k = "str" -> v.s = ""
    [] v.k = "num" -> v.n = 0
    [] v.k = "arr" -> v.e = <<>>
    [] v.k = "obj" -> DOMAIN v.f = {}
    [] OTHER       -> FALSE

toArray(v) ==
  CASE v.k = "arr" -> v.e
    [] v.k = "nil" -> <<>>
    [] OTHER       -> <<v>>

\* fmt's %v: text prints as itself.
Printed(v) ==
  CASE v.k \in StringKinds -> v
    [] v.k = "num"         -> NumStr(v.n)
    [] v.k = "nil"         -> Str("<nil>")
    [] v.k = "bool"        -> Str(IF v.b THEN "true" ELSE "false")
    [] OTHER               -> [k |-> "printed", of |-> v]

\* Only an object with the named field can match; any other text is no
\* predicate and matches nothing.
matchPredicate(v, pred) ==
  /\ pred.k = "pred" /\ v.k = "obj"
  /\ pred.field \in DOMAIN v.f
  /\ Printed(v.f[pred.field]) = pred.is

\* int(Since(t1)/24h - Since(t2)/24h), for times that lie within the 292
\* years a Duration holds.  The clock is read twice and the quotients are
\* rounded to a float64, so before it is cut towards zero the difference of two
\* times a whole number of days apart may lie a little to either side: the
\* result may be one day short.
WholeDays(d) == IF d >= 0 THEN d \div Day ELSE -((-d) \div Day)

DaysBetweenRounded(t1, t2) == {WholeDays(t2 - t1 + Day \div 2)}

DaysBetween(t1, t2) ==
  LET d == t2 - t1
      n == WholeDays(d)
  IN  {n} \cup (IF d # 0 /\ d % Day = 0 THEN {IF d > 0 THEN n - 1 ELSE n + 1} ELSE {})

TimeOrZero(x) == IF x.k = "time" THEN x.t ELSE 0

daysBetweenBothInvalid(x, y) ==
  IF x.k = "time" \/ y.k = "time"
    THEN {Num(d) : d \in DaysBetween(TimeOrZero(x), TimeOrZero(y))}
    ELSE {Error}

daysBetween(x, y) ==
  IF x.k = "time" /\ y.k = "time"
    THEN {Num(d) : d \in DaysBetween(x.t, y.t)}
    ELSE {Error}

\* any and all over the source array; all is false of an empty one.
AnyMatch(src, pred) == \E i \in DOMAIN src : matchPredicate(src[i], pred)

AllMatch(src, pred) ==
  src # <<>> /\ \A i \in DOMAIN src : matchPredicate(src[i], pred)

\* The non-empty test that any and all fall back to without a predicate.
Present(v) == IF v.k = "arr" THEN v.e # <<>> ELSE v # Nil

applyTransform(name, v, args, now) ==
  CASE name = "count"  -> {Num(IF v.k = "arr" THEN Len(v.e) ELSE 0)}
    [] name = "sum"    -> {Num(IF v.k = "arr" THEN SumOf(v.e) ELSE toFloat(v))}
    [] name = "days_between" ->
         (CASE Len(args) = 2                    -> daysBetween(args[1], args[2])
            [] Len(args) # 2 /\ v.k = "arr"     ->
                 IF Len(v.e) = 2 THEN daysBetween(v.e[1], v.e[2]) ELSE {Error}
            [] OTHER                            -> {Error})
    [] name = "now"    -> {Time(now)}
    [] name = "any"    ->
         {Bool(IF Len(args) = 2 THEN AnyMatch(toArray(args[1]), args[2]) ELSE Present(v))}
    [] name = "all"    ->
         {Bool(IF Len(args) = 2 THEN AllMatch(toArray(args[1]), args[2]) ELSE Present(v))}
    [] name = "exists" -> {Bool(v # Nil)}
    [] name = "first"  ->
         {CASE v.k = "arr" /\ v.e # <<>> -> v.e[1]
            [] v.k = "arr" /\ v.e = <<>> -> Nil
            [] OTHER                     -> v}
    [] name = "to_number" -> {Num(IF v.k = "numstr" THEN v.n ELSE toFloat(v))}
    [] name = "to_string" -> {Printed(v)}
    [] name = "coalesce"  ->
         LET set == {i \in DOMAIN args : ~isZero(args[i])} IN
         {IF set # {} THEN args[Min(set)] ELSE v}
    [] OTHER -> {v}
=============================================================================
