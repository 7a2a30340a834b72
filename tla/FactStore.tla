------------------------------ MODULE FactStore ------------------------------
(***************************************************************************)
(* The fact configuration of one tenant (tables fact_resolvers and         *)
(* fact_mappings), the admin-api handlers that write it                    *)
(* (internal/adminapi/handlers_actions.go), and ResolveFacts, which turns  *)
(* it into the facts a policy sees (internal/facts/engine.go).             *)
(*                                                                         *)
(* Each handler is one SQL statement and so one step.  ResolveFacts reads  *)
(* the two tables with two statements: its callers take one step for each  *)
(* and combine what they read with FactsOf.                                *)
(***************************************************************************)
EXTENDS Tenant, FactTransforms

CONSTANTS
  ResolverBodies,  \* bodies admins send to upsertResolver, by [name, ...]
  MappingBodies,   \* bodies admins send to upsertMapping, by [name, ...]
  MaxEdits         \* bound on the handler calls

\* A mapping's name is part of the path of the request, and never null.
ASSUME FactStoreAssumption ==
  /\ MaxEdits \in Nat
  /\ \A b \in MappingBodies : b.name # Null

VARIABLES
  resolvers,  \* resolvers[a]: rows by name, [keyed, sample, enabled]
  mappings,   \* mappings[a]: rows by name, [path, factKey, transform, args, required]
  edits       \* history: number of handler calls so far

factVars == <<resolvers, mappings, edits>>

-----------------------------------------------------------------------------
(* Handlers *)

\* COALESCE($n, stored): the body's value, or else the stored one.
Coalesce(given, stored) == IF given = Null THEN stored ELSE given

\* INSERT ... ON CONFLICT DO UPDATE: the rows of an action, with one more or a
\* new one in place of the one of that name.
WithRow(rows, n, row) ==
  [m \in DOMAIN rows \cup {n} |-> IF m = n THEN row ELSE rows[m]]

\* A body without connector_key leaves the column NULL in a new row.
upsertResolver(a, b) ==
  LET old == IF b.name \in DOMAIN resolvers[a]
               THEN resolvers[a][b.name]
               ELSE [keyed |-> FALSE, sample |-> EmptyObj, enabled |-> TRUE]
      row == [keyed   |-> old.keyed \/ b.keyed,
              sample  |-> Coalesce(b.sample, old.sample),
              enabled |-> Coalesce(b.enabled, old.enabled)]
  IN
  /\ resolvers' = [resolvers EXCEPT ![a] = WithRow(@, b.name, row)]
  /\ UNCHANGED mappings

deleteResolver(a, n) ==
  /\ n \in DOMAIN resolvers[a]
  /\ resolvers' = [resolvers EXCEPT ![a] = [m \in DOMAIN @ \ {n} |-> @[m]]]
  /\ UNCHANGED mappings

\* jmespath and fact_key are plain strings of the body: leaving one out
\* stores blank text, it does not keep the stored value.
upsertMapping(a, b) ==
  LET old == IF b.name \in DOMAIN mappings[a]
               THEN mappings[a][b.name]
               ELSE [transform |-> "", args |-> <<>>, required |-> FALSE]
      row == [path      |-> b.path,
              factKey   |-> b.factKey,
              transform |-> Coalesce(b.transform, old.transform),
              args      |-> Coalesce(b.args, old.args),
              required  |-> Coalesce(b.required, old.required)]
  IN
  /\ mappings' = [mappings EXCEPT ![a] = WithRow(@, b.name, row)]
  /\ UNCHANGED resolvers

deleteMappingAnyAction(a, n) ==
  /\ mappings' = [x \in ActionKeys |-> [m \in DOMAIN mappings[x] \ {n} |-> mappings[x][m]]]
  /\ UNCHANGED resolvers

deleteMapping(a, n) ==
  /\ n \in DOMAIN mappings[a]
  /\ mappings' = [mappings EXCEPT ![a] = [m \in DOMAIN @ \ {n} |-> @[m]]]
  /\ UNCHANGED resolvers

FactNext ==
  /\ edits < MaxEdits
  /\ edits' = edits + 1
  /\ \E a \in ActionKeys :
       \/ \E b \in ResolverBodies : upsertResolver(a, b)
       \/ \E n \in DOMAIN resolvers[a] : deleteResolver(a, n)
       \/ \E b \in MappingBodies : upsertMapping(a, b)
       \/ \E n \in DOMAIN mappings[a] : deleteMapping(a, n)

-----------------------------------------------------------------------------
(* ResolveFacts *)

\* loadResolvers: the enabled rows, as samples by name.  A NULL connector_key
\* does not scan, and the error ends ResolveFacts with a nil map.
loadResolvers(a) ==
  LET on == {n \in DOMAIN resolvers[a] : resolvers[a][n].enabled} IN
  IF \E n \in on : ~resolvers[a][n].keyed
    THEN Null
    ELSE [n \in on |-> resolvers[a][n].sample]

\* loadMappings: all rows of the action, in no particular order.
loadMappings(a) == {mappings[a][n] : n \in DOMAIN mappings[a]}

\* jmes.Search: a path into the inputs or into one resolver's sample.  What is
\* not there is nil; blank or malformed text is an error.
Search(path, inputs, samples) ==
  CASE path = "inputs"         -> inputs
    [] path \in DOMAIN samples -> samples[path]
    [] path \in {"", "bad"}    -> Error
    [] OTHER                   -> Nil

\* The values one mapping may produce.
MappingValues(m, inputs, samples, now) ==
  LET val == Search(m.path, inputs, samples) IN
  IF val = Error \/ m.transform = "" THEN {val}
  ELSE applyTransform(m.transform, val, m.args, now)

FactsOfKeepingPartial(samples, rows, inputs, now) ==
  LET vals(m) == MappingValues(m, inputs, samples, now)
      good    == {m \in rows : Error \notin vals(m)}
      maps(ms) == {f \in [{m.factKey : m \in ms} -> UNION {vals(m) : m \in ms}] :
                     \A m \in ms : f[m.factKey] \in UNION {vals(x) : x \in {y \in ms : y.factKey = m.factKey}}}
  IN
  CASE samples = Null -> {Null}
    [] samples # Null /\ (\E m \in rows \ good : m.required) -> UNION {maps(ms) : ms \in SUBSET good}
    [] OTHER -> maps(good)

\* The fact maps ResolveFacts may return: Null, the nil map, which encodes as
\* null and not as {}, stands for an error.  A failing mapping is skipped, or is
\* an error if required; of several mappings to one fact key the last row
\* wins, and the rows come in any order.
FactsOf(samples, rows, inputs, now) ==
  LET vals(m) == MappingValues(m, inputs, samples, now)
      good    == {m \in rows : Error \notin vals(m)}
      keys    == {m.factKey : m \in good}
      choices(k) == UNION {vals(m) : m \in {x \in good : x.factKey = k}}
  IN
  IF samples = Null \/ \E m \in rows \ good : m.required
    THEN {Null}
    ELSE {f \in [keys -> UNION {choices(k) : k \in keys}] :
            \A k \in keys : f[k] \in choices(k)}

-----------------------------------------------------------------------------
(* The fact configuration on its own *)

FactInit ==
  /\ resolvers = [a \in ActionKeys |-> <<>>]
  /\ mappings  = [a \in ActionKeys |-> <<>>]
  /\ edits = 0

\* What a request without inputs for action a may see at time 0.
Facts(a) == FactsOf(loadResolvers(a), loadMappings(a), Nil, 0)

\* Facts that are not nil hold the fact of every required mapping, whatever
\* the order of the rows and whichever edits led to them.
RequiredFactsPresent ==
  \A a \in ActionKeys : \A f \in Facts(a) \ {Null} :
    {m.factKey : m \in {x \in loadMappings(a) : x.required}} \subseteq DOMAIN f

\* Reading the same configuration twice gives the same facts, so that the hash
\* execute recomputes is the one preflight stored, as long as no two mappings
\* feed one fact and none reads the clock.
FactsDetermined ==
  \A a \in ActionKeys :
    /\ \A m, n \in DOMAIN mappings[a] :
         mappings[a][m].factKey = mappings[a][n].factKey => m = n
    /\ \A m \in loadMappings(a) : m.transform \notin {"now", "days_between"}
    => \E f \in {Null} \cup Facts(a) : Facts(a) = {f}

\* An edit changes the facts of one action at most.
EditsAreScoped ==
  [][\A a, b \in ActionKeys : Facts(a)' # Facts(a) /\ Facts(b)' # Facts(b) => a = b]_factVars
=============================================================================
