--------------------------- MODULE ActionsCatalogue ---------------------------
(***************************************************************************)
(* The catalogue of actions (upsertAction) beside the fact configuration,  *)
(* and the report that joins them (getActionsCoverage): for every action   *)
(* of the catalogue how many resolvers and mappings it has, and whether it *)
(* is guarded.  Display names and schemas are left out.  Besides, what the *)
(* transforms of the mappings return for given values and arguments.       *)
(***************************************************************************)
EXTENDS FactStore

CONSTANTS
  Values,    \* JSON values that mappings find
  ArgLists   \* their transforms' arguments

\* No value is an error; arrays and arguments are lists, times are numbers.
Element(x) == x.k # "error" /\ (x.k = "time" => x.t \in Int)
Elements(s) == s \in Seq({s[i] : i \in DOMAIN s}) /\ \A i \in DOMAIN s : Element(s[i])

ASSUME ValuesAssumption ==
  /\ \A v \in Values : Element(v) /\ (v.k = "arr" => Elements(v.e))
  /\ \A args \in ArgLists :
       Elements(args) /\ \A i \in DOMAIN args : args[i].k = "arr" => Elements(args[i].e)

VARIABLE actions  \* table actions: the keys that have a row

catalogueVars == <<factVars, actions>>

CatalogueInit == FactInit /\ actions = {}

upsertAction(a) ==
  /\ edits < MaxEdits
  /\ edits' = edits + 1
  /\ actions' = actions \cup {a}
  /\ UNCHANGED <<resolvers, mappings>>

CatalogueNext ==
  \/ FactNext /\ UNCHANGED actions
  \/ \E a \in ActionKeys : upsertAction(a)

CatalogueSpec == CatalogueInit /\ [][CatalogueNext]_catalogueVars

-----------------------------------------------------------------------------
(* The report *)

\* LEFT JOIN: one row of nulls where nothing matches.
LeftJoined(names) == IF names = {} THEN {Null} ELSE names

RequiredInner(a) ==
  LET on == {n \in DOMAIN resolvers[a] : resolvers[a][n].enabled} IN
  Cardinality({p \in on \X DOMAIN mappings[a] : mappings[a][p[2]].required})

\* required_mappings sums over the join, so a mapping counts once for every
\* enabled resolver of its action.
Required(a) ==
  LET on     == {n \in DOMAIN resolvers[a] : resolvers[a][n].enabled}
      joined == LeftJoined(on) \X LeftJoined(DOMAIN mappings[a])
  IN Cardinality({p \in joined : p[2] # Null /\ mappings[a][p[2]].required})

GuardrailOK(a) == Required(a) > 0

-----------------------------------------------------------------------------
(* Properties *)

\* The report tells what ResolveFacts will do: an action it calls guarded is
\* never decided on facts that are there but empty, and for one it calls
\* unguarded no mapping makes the resolution fail.
GuardrailHonest ==
  \A a \in actions :
    IF GuardrailOK(a)
      THEN \A f \in Facts(a) \ {Null} : DOMAIN f # {}
      ELSE loadResolvers(a) # Null => Null \notin Facts(a)

\* applyTransform depends on no state: the properties below look at it once,
\* initially.
Names == {"count", "sum", "days_between", "now", "any", "all", "exists", "first",
          "to_number", "to_string", "coalesce", "unknown"}

\* The two times days_between is asked about: its arguments, or else the pair
\* it is given.
Dates(v, args) ==
  CASE Len(args) = 2                                 -> args
    [] Len(args) # 2 /\ v.k = "arr" /\ Len(toArray(v)) = 2 -> v.e
    [] OTHER                                         -> <<>>

\* days_between fails exactly when it is not given two times, and no other
\* transform fails: a required mapping fails the whole resolution for nothing
\* else (applyTransform).
ErrorsOnlyFromDates ==
  edits = 0 =>
    \A name \in Names, v \in Values, args \in ArgLists :
      LET dates == Dates(v, args) IN
      (Error \in applyTransform(name, v, args, Day)) <=>
        /\ name = "days_between"
        /\ dates = <<>> \/ \E i \in {1, 2} : dates[i].k # "time"

\* days_between counts days that have passed in full, positive when the first
\* time is the earlier one, and leaves out at most one of them.
CountsFullDays ==
  edits = 0 =>
    \A v \in Values, args \in ArgLists :
      \A r \in applyTransform("days_between", v, args, Day) \ {Error} :
        LET d == Dates(v, args)[2].t - Dates(v, args)[1].t IN
        IF d >= 0 THEN r.n >= 0 /\ r.n * Day <= d /\ d <= (r.n + 1) * Day
                  ELSE r.n <= 0 /\ r.n * Day >= d /\ d >= (r.n - 1) * Day

\* Where all holds, any holds too, of the same value and arguments: no list
\* makes a policy that requires "all" pass and one that requires "any" fail.
\* A constant fact of two transforms, proved and not checked.
AllImpliesAny ==
  \A v \in Values, args \in ArgLists :
    Bool(TRUE) \in applyTransform("all", v, args, Day) =>
      applyTransform("any", v, args, Day) = {Bool(TRUE)}
=============================================================================
