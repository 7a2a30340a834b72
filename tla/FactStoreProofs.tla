---------------------------- MODULE FactStoreProofs ----------------------------
(***************************************************************************)
(* What ResolveFacts and its transforms compute, for every configuration   *)
(* and every value: which facts are there, when they are determined, and   *)
(* what days_between, any and all return.                                  *)
(***************************************************************************)
EXTENDS FactStore, WellFoundedInduction, TLAPS

-----------------------------------------------------------------------------
(* What a resolution returns.                                               *)

\* A required mapping that gives no value ends the resolution, so that facts
\* which are not nil hold the fact of every required one.
LEMMA RequiredResolved ==
  ASSUME NEW samples, NEW rows, NEW inputs, NEW now,
         NEW f \in FactsOf(samples, rows, inputs, now), f # Null,
         NEW m \in rows, m.required
  PROVE  m.factKey \in DOMAIN f
<1> DEFINE vals(x) == MappingValues(x, inputs, samples, now)
           good    == {x \in rows : Error \notin vals(x)}
           keys    == {x.factKey : x \in good}
           choices(k) == UNION {vals(x) : x \in {y \in good : y.factKey = k}}
<1>1. m \in good /\ f \in [keys -> UNION {choices(k) : k \in keys}]
  BY Zenon DEF FactsOf
<1> QED BY <1>1

\* A transform that reads no clock returns one value.
LEMMA TransformIsFunction ==
  ASSUME NEW name, name \notin {"now", "days_between"}, NEW v, NEW args, NEW now
  PROVE  \E x : applyTransform(name, v, args, now) = {x}
  BY DEF applyTransform

\* Sets of one value.
Single(S) == \E x : S = {x}

\* Mappings whose transform reads no clock, and rows that feed one fact each.
Clockless(m) == m.transform \notin {"now", "days_between"}
Separate(rows) == \A m, n \in rows : m.factKey = n.factKey => m = n

\* A mapping whose transform reads no clock gives one value.
LEMMA ValueIsDetermined ==
  ASSUME NEW m, Clockless(m), NEW inputs, NEW samples, NEW now
  PROVE  Single(MappingValues(m, inputs, samples, now))
<1> DEFINE val == Search(m.path, inputs, samples)
<1>1. PICK x : applyTransform(m.transform, val, m.args, now) = {x}
  BY TransformIsFunction DEF Clockless
<1>2. MappingValues(m, inputs, samples, now) \in {{val}, applyTransform(m.transform, val, m.args, now)}
  BY Zenon DEF MappingValues
<1> QED BY <1>1, <1>2 DEF Single

\* Rows that feed one fact each and read no clock give the same facts whenever
\* they are resolved.
LEMMA RowsDetermineFacts ==
  ASSUME NEW samples, NEW rows, NEW inputs, NEW now,
         Separate(rows), \A m \in rows : Clockless(m)
  PROVE  Single(FactsOf(samples, rows, inputs, now))
<1> DEFINE vals(x) == MappingValues(x, inputs, samples, now)
           good    == {x \in rows : Error \notin vals(x)}
           keys    == {x.factKey : x \in good}
           choices(k) == UNION {vals(x) : x \in {y \in good : y.factKey = k}}
           maps    == {f \in [keys -> UNION {choices(k) : k \in keys}] :
                         \A k \in keys : f[k] \in choices(k)}
           value   == [k \in keys |-> CHOOSE x : choices(k) = {x}]
<1>1. \A k \in keys : \E x : choices(k) = {x}
  <2> SUFFICES ASSUME NEW k \in keys PROVE \E x : choices(k) = {x}
    OBVIOUS
  <2>1. PICK m \in good : m.factKey = k
    OBVIOUS
  <2>2. {y \in good : y.factKey = k} = {m}
    BY <2>1 DEF Separate
  <2>3. Clockless(m)
    BY <2>1
  <2>4. Single(MappingValues(m, inputs, samples, now))
    BY <2>3, ValueIsDetermined, Zenon
  <2>5. PICK x : vals(m) = {x}
    BY <2>4 DEF Single
  <2>6. choices(k) = {x}
    BY <2>2, <2>5
  <2> QED BY <2>6
<1>2. \A k \in keys : choices(k) = {value[k]}
  BY <1>1
<1> HIDE DEF choices, keys
<1>3. maps = {value}
  <2>1. DOMAIN value = keys /\ value = [k \in keys |-> value[k]]
    OBVIOUS
  <2> HIDE DEF value
  <2>2. value \in maps
    BY <1>2, <2>1
  <2>3. ASSUME NEW f \in maps PROVE f = value
    BY <1>2, <2>1, <2>3
  <2> QED BY <2>2, <2>3
<1>4. FactsOf(samples, rows, inputs, now) \in {{Null}, maps}
  BY Zenon DEF FactsOf, choices, keys
<1> QED BY <1>3, <1>4 DEF Single

\* A transform that reads no clock returns the same at any time.
LEMMA ClocklessValue ==
  ASSUME NEW m, Clockless(m), NEW inputs, NEW samples, NEW now, NEW later
  PROVE  MappingValues(m, inputs, samples, now) = MappingValues(m, inputs, samples, later)
<1> DEFINE val == Search(m.path, inputs, samples)
<1>1. applyTransform(m.transform, val, m.args, now) = applyTransform(m.transform, val, m.args, later)
  BY DEF Clockless, applyTransform
<1> QED BY <1>1, Zenon DEF MappingValues

\* Facts whose transforms read no clock are the same at any time.
LEMMA ClocklessFacts ==
  ASSUME NEW samples, NEW rows, NEW inputs, NEW now, NEW later, \A m \in rows : Clockless(m)
  PROVE  FactsOf(samples, rows, inputs, now) = FactsOf(samples, rows, inputs, later)
<1> DEFINE vals(x, t) == MappingValues(x, inputs, samples, t)
           good(t)    == {x \in rows : Error \notin vals(x, t)}
           keys(t)    == {x.factKey : x \in good(t)}
           choices(k, t) == UNION {vals(x, t) : x \in {y \in good(t) : y.factKey = k}}
           maps(t)    == {f \in [keys(t) -> UNION {choices(k, t) : k \in keys(t)}] :
                            \A k \in keys(t) : f[k] \in choices(k, t)}
           out(t)     == IF samples = Null \/ \E m \in rows \ good(t) : m.required THEN {Null} ELSE maps(t)
<1>1. \A x \in rows : vals(x, now) = vals(x, later)
  BY ClocklessValue, Zenon
<1>2. good(now) = good(later)
  BY <1>1
<1>3. keys(now) = keys(later)
  BY <1>2
<1>4. \A k : choices(k, now) = choices(k, later)
  BY <1>1, <1>2
<1>5. maps(now) = maps(later)
  <2> HIDE DEF keys, choices
  <2> QED BY <1>3, <1>4
<1>6. out(now) = out(later)
  <2> HIDE DEF maps, good
  <2> QED BY <1>2, <1>5
<1>7. FactsOf(samples, rows, inputs, now) = out(now) /\ FactsOf(samples, rows, inputs, later) = out(later)
  BY Zenon DEF FactsOf
<1> QED BY <1>6, <1>7

\* A nil map is none of the fact maps: Null, of which nothing is assumed, must
\* not be a function.
NullIsNoFunction == Null # [x \in DOMAIN Null |-> Null[x]]

\* Where no mapping is required, none ends the resolution.
LEMMA OptionalResolved ==
  ASSUME NullIsNoFunction, NEW samples, samples # Null, NEW rows, NEW inputs, NEW now,
         \A m \in rows : ~m.required
  PROVE  Null \notin FactsOf(samples, rows, inputs, now)
<1> DEFINE vals(x) == MappingValues(x, inputs, samples, now)
           good    == {x \in rows : Error \notin vals(x)}
           keys    == {x.factKey : x \in good}
           choices(k) == UNION {vals(x) : x \in {y \in good : y.factKey = k}}
           all     == UNION {choices(k) : k \in keys}
<1>1. FactsOf(samples, rows, inputs, now) \subseteq [keys -> all]
  <2>1. ~(samples = Null \/ \E m \in rows \ good : m.required)
    OBVIOUS
  <2>2. FactsOf(samples, rows, inputs, now) = {f \in [keys -> all] : \A k \in keys : f[k] \in choices(k)}
    BY <2>1, Zenon DEF FactsOf
  <2> QED BY <2>2
<1> HIDE DEF keys, all
<1>2. Null \notin [keys -> all]
  BY DEF NullIsNoFunction
<1> QED BY <1>1, <1>2

-----------------------------------------------------------------------------
(* The transforms, for every value.                                         *)

\* n days have passed in full within d seconds, or all of them but one.
PassedWithin(n, d) ==
  IF d >= 0 THEN n >= 0 /\ n * Day <= d /\ d <= (n + 1) * Day
            ELSE n <= 0 /\ n * Day >= d /\ d >= (n - 1) * Day

\* Cutting a number of seconds towards zero leaves less than a day over.
LEMMA WholeDaysCut ==
  ASSUME NEW d \in Int
  PROVE  /\ WholeDays(d) \in Int
         /\ d >= 0 => /\ WholeDays(d) >= 0 /\ WholeDays(d) * Day <= d /\ d < (WholeDays(d) + 1) * Day
                      /\ d % Day = 0 => d = WholeDays(d) * Day
         /\ d < 0  => /\ WholeDays(d) <= 0 /\ WholeDays(d) * Day >= d /\ d > (WholeDays(d) - 1) * Day
                      /\ d % Day = 0 => d = WholeDays(d) * Day
  BY DEF WholeDays, Day

\* Rounding takes a day off at most, and only off a whole number of days.
LEMMA DaysPassed ==
  ASSUME NEW t1 \in Int, NEW t2 \in Int, NEW n \in DaysBetween(t1, t2)
  PROVE  PassedWithin(n, t2 - t1)
<1> DEFINE d == t2 - t1
           w == WholeDays(d)
<1>1. d \in Int
  OBVIOUS
<1>2. \/ n = w
      \/ d > 0 /\ d % Day = 0 /\ n = w - 1
      \/ d < 0 /\ d % Day = 0 /\ n = w + 1
  BY <1>1 DEF DaysBetween
<1>3. /\ w \in Int
      /\ d >= 0 => w >= 0 /\ w * Day <= d /\ d < (w + 1) * Day /\ (d % Day = 0 => d = w * Day)
      /\ d < 0  => w <= 0 /\ w * Day >= d /\ d > (w - 1) * Day /\ (d % Day = 0 => d = w * Day)
  BY <1>1, WholeDaysCut
<1> HIDE DEF d, w
<1>4. PassedWithin(n, d)
  <2>1. CASE n = w
    BY <1>1, <1>3, <2>1 DEF PassedWithin, Day
  <2>2. CASE d > 0 /\ d % Day = 0 /\ n = w - 1
    <3>1. d = w * Day
      BY <1>1, <1>3, <2>2
    <3> QED BY <1>1, <1>3, <2>2, <3>1 DEF PassedWithin, Day
  <2>3. CASE d < 0 /\ d % Day = 0 /\ n = w + 1
    <3>1. d = w * Day
      BY <1>1, <1>3, <2>3
    <3> QED BY <1>1, <1>3, <2>3, <3>1 DEF PassedWithin, Day
  <2> QED BY <1>2, <2>1, <2>2, <2>3
<1> QED BY <1>4 DEF d

\* days_between counts days that have passed in full, positive when the first
\* time is the earlier one, and leaves out at most one of them, whatever the
\* times are.
LEMMA DaysAreFull ==
  ASSUME NEW x, x.k = "time" => x.t \in Int, NEW y, y.k = "time" => y.t \in Int,
         NEW r \in daysBetween(x, y) \ {Error}
  PROVE  x.k = "time" /\ y.k = "time" /\ PassedWithin(r.n, y.t - x.t)
<1>1. x.k = "time" /\ y.k = "time"
  BY DEF daysBetween
<1>2. PICK n \in DaysBetween(x.t, y.t) : r = Num(n)
  BY <1>1 DEF daysBetween
<1>3. r.n = n
  BY <1>2 DEF Num
<1> QED BY <1>1, <1>2, <1>3, DaysPassed

\* Where all holds, any holds too, of the same value and arguments.
LEMMA AllNeedsAny ==
  ASSUME NEW v, NEW S, NEW args, Len(args) = 2 => toArray(args[1]) \in Seq(S), NEW now,
         Bool(TRUE) \in applyTransform("all", v, args, now)
  PROVE  applyTransform("any", v, args, now) = {Bool(TRUE)}
<1>1. CASE Len(args) = 2
  <2> DEFINE src == toArray(args[1])
  <2>1. AllMatch(src, args[2]) = TRUE
    BY <1>1 DEF applyTransform, Bool
  <2>2. src # <<>> /\ \A i \in DOMAIN src : matchPredicate(src[i], args[2])
    BY <2>1 DEF AllMatch
  <2>3. src \in Seq(S)
    BY <1>1
  <2> HIDE DEF src
  <2>4. 1 \in DOMAIN src
    BY <2>2, <2>3
  <2>5. AnyMatch(src, args[2]) = TRUE
    BY <2>2, <2>4 DEF AnyMatch
  <2> QED BY <1>1, <2>5 DEF applyTransform, src
<1>2. CASE Len(args) # 2
  BY <1>2 DEF applyTransform, Bool
<1> QED BY <1>1, <1>2

\* The two times days_between is asked about: its arguments, or else the pair
\* it is given.
BothTimes(v, args) ==
  \/ Len(args) = 2 /\ args[1].k = "time" /\ args[2].k = "time"
  \/ /\ Len(args) # 2 /\ v.k = "arr" /\ Len(v.e) = 2
     /\ v.e[1].k = "time" /\ v.e[2].k = "time"

\* days_between of two times gives days, and of anything else an error.
LEMMA DaysOrError ==
  ASSUME NEW x, NEW y
  PROVE  Error \in daysBetween(x, y) <=> ~(x.k = "time" /\ y.k = "time")
  BY DEF daysBetween, Error, Num

\* Numbers that are not negative have a least one.
LEMMA LeastOf ==
  ASSUME NEW S, S \subseteq Nat, S # {}
  PROVE  Min(S) \in S
<1>1. PICK x \in S : \A y \in S : ~(<<y, x>> \in OpToRel(<, Nat))
  BY NatLessThanWellFounded, WFMin
<1>2. \A y \in Nat : <<y, x>> \in OpToRel(<, Nat) <=> y < x
  BY <1>1 DEF OpToRel
<1>3. \A y \in S : ~(y < x) /\ x \in Nat /\ y \in Nat
  BY <1>1, <1>2, Zenon
<1>4. \A y \in S : x <= y
  BY <1>3
<1> QED BY <1>1, <1>4, Zenon DEF Min

\* coalesce returns one of its arguments, or the value itself.
LEMMA CoalesceGives ==
  ASSUME NEW v, NEW S, NEW args \in Seq(S), NEW now, NEW r \in applyTransform("coalesce", v, args, now)
  PROVE  r = v \/ \E i \in DOMAIN args : r = args[i]
<1> DEFINE set == {i \in DOMAIN args : ~isZero(args[i])}
<1>1. set \subseteq Nat /\ set \subseteq DOMAIN args
  OBVIOUS
<1>2. r = IF set # {} THEN args[Min(set)] ELSE v
  BY DEF applyTransform
<1> HIDE DEF set
<1>3. set # {} => Min(set) \in DOMAIN args
  BY <1>1, LeastOf
<1> QED BY <1>2, <1>3

\* days_between fails exactly when it is not given two times, and no other
\* transform fails.
LEMMA OnlyDatesFail ==
  ASSUME NEW name, NEW now, NEW S, NEW args \in Seq(S), \A i \in DOMAIN args : args[i].k # "error",
         NEW v, v.k # "error", v.k = "arr" /\ v.e # <<>> => v.e[1].k # "error"
  PROVE  Error \in applyTransform(name, v, args, now)
           <=> name = "days_between" /\ ~BothTimes(v, args)
<1>1. CASE name = "days_between"
  <2>1. CASE Len(args) = 2
    <3>1. applyTransform(name, v, args, now) = daysBetween(args[1], args[2])
      BY <1>1, <2>1 DEF applyTransform
    <3> QED BY <1>1, <2>1, <3>1, DaysOrError DEF BothTimes
  <2>2. CASE Len(args) # 2 /\ v.k = "arr" /\ Len(v.e) = 2
    <3>1. applyTransform(name, v, args, now) = daysBetween(v.e[1], v.e[2])
      BY <1>1, <2>2 DEF applyTransform
    <3> QED BY <1>1, <2>2, <3>1, DaysOrError DEF BothTimes
  <2>3. CASE Len(args) # 2 /\ ~(v.k = "arr" /\ Len(v.e) = 2)
    <3>1. applyTransform(name, v, args, now) = {Error}
      BY <1>1, <2>3 DEF applyTransform
    <3> QED BY <1>1, <2>3, <3>1 DEF BothTimes
  <2> QED BY <2>1, <2>2, <2>3
<1>2. CASE name \in {"count", "sum", "now", "any", "all", "exists", "to_number"}
  BY <1>2 DEF applyTransform, Error, Num, Time, Bool
<1>3. CASE name = "first"
  BY <1>3 DEF applyTransform, Error, Nil
<1>4. CASE name = "to_string"
  BY <1>4 DEF applyTransform, Error, Printed, NumStr, Str
<1>5. CASE name = "coalesce"
  <2>1. \A r \in applyTransform(name, v, args, now) : r.k # "error"
    BY <1>5, CoalesceGives
  <2> QED BY <1>5, <2>1 DEF Error
<1>6. CASE name \notin {"days_between", "count", "sum", "now", "any", "all", "exists",
                        "to_number", "first", "to_string", "coalesce"}
  BY <1>6 DEF applyTransform, Error
<1> QED BY <1>1, <1>2, <1>3, <1>4, <1>5, <1>6
=============================================================================
