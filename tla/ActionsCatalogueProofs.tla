------------------------ MODULE ActionsCatalogueProofs ------------------------
(***************************************************************************)
(* What the fact configuration and the coverage report promise, whatever   *)
(* edits led to them: required facts are there, facts are determined, an   *)
(* edit touches one action, and the report tells the truth.                *)
(***************************************************************************)
EXTENDS ActionsCatalogue, FactStoreProofs, FiniteSetTheorems

-----------------------------------------------------------------------------
(* The configuration: what its tables are made of.                          *)

\* Every action has its rows, finitely many, and every mapping its name.
ConfigInv ==
  /\ DOMAIN resolvers = ActionKeys /\ DOMAIN mappings = ActionKeys
  /\ actions \subseteq ActionKeys
  /\ \A a \in ActionKeys :
       /\ IsFiniteSet(DOMAIN resolvers[a]) /\ IsFiniteSet(DOMAIN mappings[a])
       /\ Null \notin DOMAIN mappings[a]

\* At the start the tables are empty.
LEMMA InitConfig == CatalogueInit => ConfigInv
<1> SUFFICES ASSUME CatalogueInit PROVE ConfigInv
  OBVIOUS
<1>1. IsFiniteSet({})
  BY FS_EmptySet
<1>2. DOMAIN <<>> = {}
  OBVIOUS
<1>3. \A a \in ActionKeys : DOMAIN resolvers[a] = {} /\ DOMAIN mappings[a] = {}
  BY <1>2 DEF CatalogueInit, FactInit
<1> QED BY <1>1, <1>3 DEF ConfigInv, CatalogueInit, FactInit

\* An edit writes the rows of one action, and leaves others' alone.
Touches(a) ==
  /\ DOMAIN resolvers' = ActionKeys /\ DOMAIN mappings' = ActionKeys
  /\ \A b \in ActionKeys \ {a} : resolvers'[b] = resolvers[b] /\ mappings'[b] = mappings[b]
  /\ IsFiniteSet(DOMAIN resolvers'[a]) /\ IsFiniteSet(DOMAIN mappings'[a])
  /\ Null \notin DOMAIN mappings'[a]

\* upsertResolver touches one action.
LEMMA UpsertResolverTouches ==
  ASSUME ConfigInv, NEW a \in ActionKeys, NEW b \in ResolverBodies, upsertResolver(a, b)
  PROVE  Touches(a)
<1>1. PICK row : resolvers' = [resolvers EXCEPT ![a] = WithRow(@, b.name, row)]
  BY Zenon DEF upsertResolver
<1>2. /\ DOMAIN resolvers' = ActionKeys
      /\ resolvers'[a] = WithRow(resolvers[a], b.name, row)
      /\ \A c \in ActionKeys \ {a} : resolvers'[c] = resolvers[c]
  BY <1>1 DEF ConfigInv
<1>3. DOMAIN resolvers'[a] = DOMAIN resolvers[a] \cup {b.name}
  BY <1>2, Zenon DEF WithRow
<1>4. IsFiniteSet(DOMAIN resolvers[a])
  BY DEF ConfigInv
<1>5. IsFiniteSet(DOMAIN resolvers'[a])
  BY <1>3, <1>4, FS_AddElement, Zenon
<1> QED BY <1>2, <1>5 DEF ConfigInv, Touches, upsertResolver

\* deleteResolver touches one action.
LEMMA DeleteResolverTouches ==
  ASSUME ConfigInv, NEW a \in ActionKeys, NEW n, deleteResolver(a, n)
  PROVE  Touches(a)
<1>1. /\ DOMAIN resolvers' = ActionKeys
      /\ DOMAIN resolvers'[a] = DOMAIN resolvers[a] \ {n}
      /\ \A c \in ActionKeys \ {a} : resolvers'[c] = resolvers[c]
  BY DEF ConfigInv, deleteResolver
<1>2. IsFiniteSet(DOMAIN resolvers'[a])
  BY <1>1, FS_RemoveElement DEF ConfigInv
<1> QED BY <1>1, <1>2 DEF ConfigInv, Touches, deleteResolver

\* upsertMapping touches one action, and gives the row a name.
LEMMA UpsertMappingTouches ==
  ASSUME ConfigInv, NEW a \in ActionKeys, NEW b \in MappingBodies, upsertMapping(a, b)
  PROVE  Touches(a)
<1>1. PICK row : mappings' = [mappings EXCEPT ![a] = WithRow(@, b.name, row)]
  BY Zenon DEF upsertMapping
<1>2. /\ DOMAIN mappings' = ActionKeys
      /\ mappings'[a] = WithRow(mappings[a], b.name, row)
      /\ \A c \in ActionKeys \ {a} : mappings'[c] = mappings[c]
  BY <1>1 DEF ConfigInv
<1>3. DOMAIN mappings'[a] = DOMAIN mappings[a] \cup {b.name}
  BY <1>2, Zenon DEF WithRow
<1>4. IsFiniteSet(DOMAIN mappings[a]) /\ Null \notin DOMAIN mappings[a]
  BY DEF ConfigInv
<1>5. IsFiniteSet(DOMAIN mappings'[a])
  BY <1>3, <1>4, FS_AddElement, Zenon
<1>6. Null \notin DOMAIN mappings'[a]
  BY <1>3, <1>4, FactStoreAssumption
<1> QED BY <1>2, <1>5, <1>6 DEF ConfigInv, Touches, upsertMapping

\* deleteMapping touches one action.
LEMMA DeleteMappingTouches ==
  ASSUME ConfigInv, NEW a \in ActionKeys, NEW n, deleteMapping(a, n)
  PROVE  Touches(a)
<1>1. /\ DOMAIN mappings' = ActionKeys
      /\ DOMAIN mappings'[a] = DOMAIN mappings[a] \ {n}
      /\ \A c \in ActionKeys \ {a} : mappings'[c] = mappings[c]
  BY DEF ConfigInv, deleteMapping
<1>2. IsFiniteSet(DOMAIN mappings'[a]) /\ Null \notin DOMAIN mappings'[a]
  BY <1>1, FS_RemoveElement DEF ConfigInv
<1> QED BY <1>1, <1>2 DEF ConfigInv, Touches, deleteMapping

\* Every edit of the fact configuration touches one action.
LEMMA EditTouches ==
  ASSUME ConfigInv, FactNext
  PROVE  \E a \in ActionKeys : Touches(a)
  BY UpsertResolverTouches, DeleteResolverTouches, UpsertMappingTouches, DeleteMappingTouches DEF FactNext

\* A configuration in which one action was touched is one.
LEMMA TouchKeeps ==
  ASSUME ConfigInv, NEW a \in ActionKeys, Touches(a), actions' \subseteq ActionKeys
  PROVE  ConfigInv'
<1>1. ASSUME NEW b \in ActionKeys
      PROVE  /\ IsFiniteSet(DOMAIN resolvers'[b]) /\ IsFiniteSet(DOMAIN mappings'[b])
             /\ Null \notin DOMAIN mappings'[b]
  <2>1. CASE b = a
    BY <2>1, Zenon DEF Touches
  <2>2. CASE b # a
    <3>1. resolvers'[b] = resolvers[b] /\ mappings'[b] = mappings[b]
      BY <2>2 DEF Touches
    <3> QED BY <3>1 DEF ConfigInv
  <2> QED BY <2>1, <2>2
<1> QED BY <1>1, Zenon DEF ConfigInv, Touches

\* Every step keeps the tables so.
LEMMA NextKeepsConfig == ConfigInv /\ [CatalogueNext]_catalogueVars => ConfigInv'
<1> SUFFICES ASSUME ConfigInv, [CatalogueNext]_catalogueVars PROVE ConfigInv'
  OBVIOUS
<1>1. CASE FactNext /\ UNCHANGED actions
  <2>1. actions' \subseteq ActionKeys
    BY <1>1 DEF ConfigInv
  <2> QED BY <1>1, <2>1, EditTouches, TouchKeeps
<1>2. ASSUME NEW a \in ActionKeys, upsertAction(a) PROVE ConfigInv'
  BY <1>2 DEF upsertAction, ConfigInv
<1>3. CASE UNCHANGED catalogueVars
  BY <1>3 DEF catalogueVars, factVars, ConfigInv
<1> QED BY <1>1, <1>2, <1>3 DEF CatalogueNext

\* The tables are so throughout.
LEMMA ConfigInvariant == CatalogueSpec => []ConfigInv
  BY InitConfig, NextKeepsConfig, PTL DEF CatalogueSpec

-----------------------------------------------------------------------------
(* Edits are scoped: facts depend on the rows of their action alone.        *)

\* An action whose rows are untouched has the facts it had.
LEMMA SameRowsSameFacts ==
  ASSUME NEW a, resolvers'[a] = resolvers[a], mappings'[a] = mappings[a]
  PROVE  Facts(a)' = Facts(a)
<1>1. loadResolvers(a)' = loadResolvers(a)
  BY DEF loadResolvers
<1>2. loadMappings(a)' = loadMappings(a)
  BY DEF loadMappings
<1> QED BY <1>1, <1>2, Zenon DEF Facts

\* An edit changes the facts of one action at most (the handlers of
\* handlers_actions.go, whose statements name the action's key).
THEOREM EditsScoped == CatalogueSpec => EditsAreScoped
<1> DEFINE Scoped ==
      \A a, b \in ActionKeys : Facts(a)' # Facts(a) /\ Facts(b)' # Facts(b) => a = b
<1>1. ConfigInv /\ [CatalogueNext]_catalogueVars => [Scoped]_factVars
  <2> SUFFICES ASSUME ConfigInv, CatalogueNext, factVars' # factVars PROVE Scoped
    BY DEF catalogueVars
  <2>1. CASE FactNext
    <3>1. PICK c \in ActionKeys : Touches(c)
      BY <2>1, EditTouches
    <3>2. \A a \in ActionKeys : a # c => resolvers'[a] = resolvers[a] /\ mappings'[a] = mappings[a]
      BY <3>1 DEF Touches
    <3>3. \A a \in ActionKeys : a # c => Facts(a)' = Facts(a)
      BY <3>2, SameRowsSameFacts
    <3> QED BY <3>3
  <2>2. ASSUME NEW a \in ActionKeys, upsertAction(a) PROVE Scoped
    <3>1. \A b : resolvers'[b] = resolvers[b] /\ mappings'[b] = mappings[b]
      BY <2>2 DEF upsertAction
    <3> QED BY <3>1, SameRowsSameFacts
  <2> QED BY <2>1, <2>2 DEF CatalogueNext
<1> QED BY <1>1, ConfigInvariant, PTL DEF CatalogueSpec, EditsAreScoped

-----------------------------------------------------------------------------
(* Facts.                                                                   *)

\* Facts hold the fact of every required mapping, whatever edits led to them
\* and in whatever order the rows come (ResolveFacts).
THEOREM RequiredArePresent == CatalogueSpec => []RequiredFactsPresent
<1>1. RequiredFactsPresent
  BY RequiredResolved DEF RequiredFactsPresent, Facts
<1> QED BY <1>1, PTL

\* Reading a configuration twice gives the same facts as long as no two
\* mappings feed one fact and none reads the clock (ResolveFacts): execute can
\* recompute what preflight hashed.
THEOREM FactsAreDetermined == CatalogueSpec => []FactsDetermined
<1>1. FactsDetermined
  <2> SUFFICES ASSUME NEW a \in ActionKeys,
                      \A m, n \in DOMAIN mappings[a] :
                        mappings[a][m].factKey = mappings[a][n].factKey => m = n,
                      \A m \in loadMappings(a) : m.transform \notin {"now", "days_between"}
               PROVE  \E f \in {Null} \cup Facts(a) : Facts(a) = {f}
    BY DEF FactsDetermined
  <2>1. Separate(loadMappings(a)) /\ \A m \in loadMappings(a) : Clockless(m)
    BY DEF loadMappings, Separate, Clockless
  <2>2. Single(FactsOf(loadResolvers(a), loadMappings(a), Nil, 0))
    BY <2>1, RowsDetermineFacts, Zenon
  <2> QED BY <2>2 DEF Facts, Single
<1> QED BY <1>1, PTL

-----------------------------------------------------------------------------
(* The coverage report.                                                     *)

\* The rows of the join that the report counts.
Counted(a) ==
  LET on     == {n \in DOMAIN resolvers[a] : resolvers[a][n].enabled}
      joined == LeftJoined(on) \X LeftJoined(DOMAIN mappings[a])
  IN {p \in joined : p[2] # Null /\ mappings[a][p[2]].required}

\* An action called guarded has a required mapping.
LEMMA GuardedRequires ==
  ASSUME NEW a, GuardrailOK(a)
  PROVE  \E m \in loadMappings(a) : m.required
<1>1. Cardinality(Counted(a)) > 0
  BY Zenon DEF GuardrailOK, Required, Counted
<1>2. Counted(a) # {}
  BY <1>1, FS_EmptySet
<1>3. PICK p \in Counted(a) : TRUE
  BY <1>2
<1>4. p[2] \in LeftJoined(DOMAIN mappings[a]) /\ p[2] # Null /\ mappings[a][p[2]].required
  BY <1>3 DEF Counted
<1>5. p[2] \in DOMAIN mappings[a]
  BY <1>4 DEF LeftJoined
<1> QED BY <1>4, <1>5 DEF loadMappings

\* An action called unguarded has none: the join keeps every mapping, whether
\* or not there is a resolver beside it.
LEMMA UnguardedOptional ==
  ASSUME ConfigInv, NEW a \in ActionKeys, ~GuardrailOK(a)
  PROVE  \A m \in loadMappings(a) : ~m.required
<1> DEFINE on == {n \in DOMAIN resolvers[a] : resolvers[a][n].enabled}
           lefts == LeftJoined(on)
           names == LeftJoined(DOMAIN mappings[a])
<1>1. IsFiniteSet({Null})
  BY FS_Singleton
<1>2. IsFiniteSet(on)
  <2>1. IsFiniteSet(DOMAIN resolvers[a]) /\ on \in SUBSET DOMAIN resolvers[a]
    BY DEF ConfigInv
  <2> HIDE DEF on
  <2> QED BY <2>1, FS_Subset, Zenon
<1>3. IsFiniteSet(lefts) /\ IsFiniteSet(names)
  <2>1. IsFiniteSet(DOMAIN mappings[a])
    BY DEF ConfigInv
  <2> HIDE DEF on
  <2> QED BY <1>1, <1>2, <2>1, Zenon DEF LeftJoined
<1>4. IsFiniteSet(Counted(a))
  <2>1. Counted(a) \in SUBSET (lefts \X names)
    BY DEF Counted
  <2> HIDE DEF lefts, names
  <2>2. IsFiniteSet(lefts \X names)
    BY <1>3, FS_Product, Zenon
  <2> QED BY <2>1, <2>2, FS_Subset, Zenon
<1>5. ~(Cardinality(Counted(a)) > 0)
  BY Zenon DEF GuardrailOK, Required, Counted
<1>6. Counted(a) = {}
  <2>1. Cardinality(Counted(a)) \in Nat
    BY <1>4, FS_CardinalityType
  <2>2. Cardinality(Counted(a)) = 0
    BY <1>5, <2>1
  <2> QED BY <1>4, <2>2, FS_EmptySet
<1>7. PICK x : x \in lefts
  BY DEF LeftJoined
<1>8. ASSUME NEW n \in DOMAIN mappings[a], mappings[a][n].required PROVE FALSE
  <2>1. n \in names /\ n # Null
    BY DEF LeftJoined, ConfigInv
  <2>2. <<x, n>> \in Counted(a)
    BY <1>7, <1>8, <2>1 DEF Counted
  <2> QED BY <1>6, <2>2
<1> QED BY <1>8 DEF loadMappings

\* The report tells what ResolveFacts will do (getActionsCoverage): an action
\* it calls guarded is never decided on facts that are there but empty, and for
\* one it calls unguarded no mapping makes the resolution fail.
THEOREM ReportTellsTruth ==
  ASSUME NullIsNoFunction
  PROVE  CatalogueSpec => []GuardrailHonest
<1>1. ConfigInv => GuardrailHonest
  <2> SUFFICES ASSUME ConfigInv, NEW a \in actions
               PROVE  IF GuardrailOK(a)
                        THEN \A f \in Facts(a) \ {Null} : DOMAIN f # {}
                        ELSE loadResolvers(a) # Null => Null \notin Facts(a)
    BY DEF GuardrailHonest
  <2>1. a \in ActionKeys
    BY DEF ConfigInv
  <2>2. CASE GuardrailOK(a)
    <3>1. PICK m \in loadMappings(a) : m.required
      BY <2>2, GuardedRequires
    <3>2. \A f \in Facts(a) \ {Null} : m.factKey \in DOMAIN f
      BY <3>1, RequiredResolved DEF Facts
    <3> QED BY <2>2, <3>2
  <2>3. CASE ~GuardrailOK(a)
    <3>1. \A m \in loadMappings(a) : ~m.required
      BY <2>1, <2>3, UnguardedOptional
    <3>2. loadResolvers(a) # Null => Null \notin Facts(a)
      BY <3>1, OptionalResolved, Zenon DEF Facts
    <3> QED BY <2>3, <3>2
  <2> QED BY <2>2, <2>3
<1> QED BY <1>1, ConfigInvariant, PTL

-----------------------------------------------------------------------------
(* The transforms *)

\* A value that is no error and whose elements are none either.
LEMMA ValueParts ==
  ASSUME NEW v \in Values
  PROVE  /\ v.k # "error" /\ (v.k = "time" => v.t \in Int)
         /\ v.k = "arr" => /\ v.e \in Seq({v.e[i] : i \in DOMAIN v.e})
                           /\ \A i \in DOMAIN v.e : v.e[i].k # "error" /\ (v.e[i].k = "time" => v.e[i].t \in Int)
  BY ValuesAssumption DEF Element, Elements

\* The same of arguments.
LEMMA ArgParts ==
  ASSUME NEW args \in ArgLists
  PROVE  /\ args \in Seq({args[i] : i \in DOMAIN args})
         /\ \A i \in DOMAIN args : args[i].k # "error" /\ (args[i].k = "time" => args[i].t \in Int)
         /\ \A i \in DOMAIN args : args[i].k = "arr" => args[i].e \in Seq({args[i].e[j] : j \in DOMAIN args[i].e})
  BY ValuesAssumption DEF Element, Elements

\* A pair has its two elements.
LEMMA PairDomain ==
  ASSUME NEW S, NEW s \in Seq(S)
  PROVE  /\ Len(s) = 2 => 1 \in DOMAIN s /\ 2 \in DOMAIN s /\ s # <<>>
         /\ s # <<>> => 1 \in DOMAIN s
  OBVIOUS

\* Dates picks the pair that days_between reads.
LEMMA DatesRead ==
  ASSUME NEW v \in Values, NEW args \in ArgLists
  PROVE  /\ Len(args) = 2 => Dates(v, args) = args
         /\ Len(args) # 2 /\ v.k = "arr" /\ Len(v.e) = 2 => Dates(v, args) = v.e
         /\ Len(args) # 2 /\ ~(v.k = "arr" /\ Len(v.e) = 2) => Dates(v, args) = <<>>
  BY DEF Dates, toArray

\* Of all transforms only days_between fails, exactly when it is not given two
\* times (applyTransform): nothing else makes a required mapping fail the
\* resolution for its transform.
THEOREM OnlyDatesAreErrors == CatalogueSpec => []ErrorsOnlyFromDates
<1>1. ErrorsOnlyFromDates
  <2> SUFFICES ASSUME NEW name \in Names, NEW v \in Values, NEW args \in ArgLists
               PROVE  Error \in applyTransform(name, v, args, Day) <=>
                        /\ name = "days_between"
                        /\ \/ Dates(v, args) = <<>>
                           \/ \E i \in {1, 2} : Dates(v, args)[i].k # "time"
    BY DEF ErrorsOnlyFromDates
  <2>1. v.k = "arr" /\ v.e # <<>> => v.e[1].k # "error"
    BY ValueParts, PairDomain
  <2>2. Error \in applyTransform(name, v, args, Day) <=> name = "days_between" /\ ~BothTimes(v, args)
    BY <2>1, ValueParts, ArgParts, OnlyDatesFail
  <2>3. ~BothTimes(v, args) <=> Dates(v, args) = <<>> \/ \E i \in {1, 2} : Dates(v, args)[i].k # "time"
    <3>1. CASE Len(args) = 2
      BY <3>1, DatesRead, ArgParts, PairDomain DEF BothTimes
    <3>2. CASE Len(args) # 2 /\ v.k = "arr" /\ Len(v.e) = 2
      BY <3>2, DatesRead, ValueParts, PairDomain DEF BothTimes
    <3>3. CASE Len(args) # 2 /\ ~(v.k = "arr" /\ Len(v.e) = 2)
      BY <3>3, DatesRead DEF BothTimes
    <3> QED BY <3>1, <3>2, <3>3
  <2> QED BY <2>2, <2>3
<1> QED BY <1>1, PTL

\* days_between counts days that have passed in full, positive when the first
\* time is the earlier one, and leaves out at most one of them (engine.go,
\* daysBetween), for any times.
THEOREM DaysCountedInFull == CatalogueSpec => []CountsFullDays
<1>1. CountsFullDays
  <2> SUFFICES ASSUME NEW v \in Values, NEW args \in ArgLists,
                      NEW r \in applyTransform("days_between", v, args, Day) \ {Error}
               PROVE  PassedWithin(r.n, Dates(v, args)[2].t - Dates(v, args)[1].t)
    BY DEF CountsFullDays, PassedWithin
  <2>1. CASE Len(args) = 2
    <3>1. r \in daysBetween(args[1], args[2]) \ {Error}
      BY <2>1 DEF applyTransform
    <3>2. (args[1].k = "time" => args[1].t \in Int) /\ (args[2].k = "time" => args[2].t \in Int)
      BY <2>1, ArgParts, PairDomain
    <3> QED BY <2>1, <3>1, <3>2, DaysAreFull, DatesRead
  <2>2. CASE Len(args) # 2 /\ v.k = "arr" /\ Len(v.e) = 2
    <3>1. r \in daysBetween(v.e[1], v.e[2]) \ {Error}
      BY <2>2 DEF applyTransform
    <3>2. (v.e[1].k = "time" => v.e[1].t \in Int) /\ (v.e[2].k = "time" => v.e[2].t \in Int)
      BY <2>2, ValueParts, PairDomain
    <3> QED BY <2>2, <3>1, <3>2, DaysAreFull, DatesRead
  <2>3. ~(Len(args) # 2 /\ ~(v.k = "arr" /\ Len(v.e) = 2))
    BY DEF applyTransform
  <2> QED BY <2>1, <2>2, <2>3
<1> QED BY <1>1, PTL

\* Where all holds, any holds too, of the same value and arguments
\* (applyTransform): a policy that asks for "any" is never the stricter one.
THEOREM AllIsStricter == CatalogueSpec => []AllImpliesAny
<1>1. AllImpliesAny
  <2> SUFFICES ASSUME NEW v \in Values, NEW args \in ArgLists,
                      Bool(TRUE) \in applyTransform("all", v, args, Day)
               PROVE  applyTransform("any", v, args, Day) = {Bool(TRUE)}
    BY DEF AllImpliesAny
  <2>1. Len(args) = 2 => \E S : toArray(args[1]) \in Seq(S)
    <3> SUFFICES ASSUME Len(args) = 2 PROVE \E S : toArray(args[1]) \in Seq(S)
      OBVIOUS
    <3>1. 1 \in DOMAIN args
      BY ArgParts, PairDomain
    <3>2. CASE args[1].k = "arr"
      BY <3>1, <3>2, ArgParts DEF toArray
    <3>3. CASE args[1].k = "nil"
      <4>1. toArray(args[1]) = <<>> /\ <<>> \in Seq({})
        BY <3>3 DEF toArray
      <4> QED BY <4>1
    <3>4. CASE args[1].k \notin {"arr", "nil"}
      <4>1. toArray(args[1]) = <<args[1]>> /\ <<args[1]>> \in Seq({args[1]})
        BY <3>4 DEF toArray
      <4> QED BY <4>1
    <3> QED BY <3>2, <3>3, <3>4
  <2> QED BY <2>1, AllNeedsAny
<1> QED BY <1>1, PTL
=============================================================================
