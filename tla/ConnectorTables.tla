--------------------------- MODULE ConnectorTables ---------------------------
(***************************************************************************)
(* The connector tables of one tenant and everything that writes them: the *)
(* admin API's connector handlers (adminapi/handlers_connectors.go,        *)
(* handlers_registry.go), the start of the admin API (app.go, registry.go) *)
(* and SeedFromEnv, which the other services run at every start            *)
(* (pkg/tenants/postgres.go).                                              *)
(*                                                                         *)
(* None of them uses a transaction.  A request is the list of statements   *)
(* it still has to run; a step runs the first one, and anything may happen *)
(* between two of them.  With Faults a statement may fail: for most of     *)
(* them the handler drops the error and goes on, else it answers with one. *)
(***************************************************************************)
EXTENDS Tenant, OperationKeys

CONSTANTS
  Admins,       \* concurrent requests to the admin API
  Seeders,      \* services that run SeedFromEnv when they start
  Bodies,       \* CustomConnectorBody: [kind, title, url, auth, enabled, ops]
  Shopify,      \* the kind of the seeded definition
  SeedOps,      \* its two operations, a sequence of [path, scopes]
  SampleName,   \* display name of the default registry entry
  RegistryNames,  \* display names admins give to the registry entry
  ImportName,   \* display name a registry file gives it, or Null
  TenantSlug,   \* namespace of connectors whose kind has none
  Found,        \* what earlier runs left: records [defs, ops, enabled]
  MaxRequests,  \* bound on the admin requests
  MaxBoots,     \* bound on the starts of services
  MaxFaults     \* bound on the statements that fail and the requests cut off

ASSUME ConnectorTablesAssumption ==
  /\ Shopify.words # <<>>
  /\ MaxRequests \in Nat /\ MaxBoots \in Nat /\ MaxFaults \in Nat

\* s is a list, whatever its elements.
IsSequence(s) == s \in Seq({s[i] : i \in DOMAIN s})

\* The columns of a row that a request tells apart, by for who inserted it.
DefColumns == {"kind", "title", "url", "auth", "builtin"}
OpColumns  == {"id", "def", "path", "scopes", "enabled", "by"}

\* Operations and paths are lists.
ASSUME BodiesAssumption ==
  /\ \A b \in Bodies : IsSequence(b.ops) /\ \A i \in DOMAIN b.ops : IsSequence(b.ops[i].path)
  /\ \A i \in {1, 2} : IsSequence(SeedOps[i].path)

\* The constraints of the tables hold for what earlier runs left: operations
\* belong to a definition, kinds and ids are unique.  The seed is what writes
\* a builtin_kind, and no update has changed such a definition.
ASSUME FoundAssumption ==
  \A f \in Found :
    /\ IsSequence(f.defs)
    /\ \A d \in DOMAIN f.defs :
         /\ DOMAIN f.defs[d] = DefColumns
         /\ f.defs[d].builtin \in BOOLEAN
         /\ f.defs[d].builtin => f.defs[d].kind = Shopify
         /\ \A e \in DOMAIN f.defs : f.defs[e].kind = f.defs[d].kind => e = d
    /\ IsFiniteSet(f.ops)
    /\ \A o \in f.ops :
         /\ DOMAIN o = OpColumns
         /\ o.def \in DOMAIN f.defs /\ o.id \in 1..Cardinality(f.ops)
         /\ IsSequence(o.path)
         /\ \A q \in f.ops : q.id = o.id => q = o

VARIABLES
  defs,       \* connector_definitions, in the order of insertion
  ops,        \* connector_operations
  lastOp,     \* number of operation rows ever inserted, the last one's id
  enabled,    \* tenant_connectors: partial function from connector ids
  actions,    \* keys in table actions
  registry,   \* display name of the registry entry 0, Null while there is none
  admin,      \* admin[p]: the request p is serving
  boot,       \* boot[s]: how far the start of service s has come
  api,        \* the same for the admin API
  calls,      \* number of admin requests
  boots,      \* number of starts
  faults,     \* number of faults
  blind       \* history: definitions written by an update whose read of
              \* builtin_kind had failed

tables       == <<defs, ops, lastOp, enabled, actions, registry>>
connectorVars == <<tables, admin, boot, api, calls, boots, faults, blind>>

\* Connector ids: positions in defs, and 0 for the registry entry.
Definitions == DOMAIN defs
ConnectorIds == Definitions \cup {0}

KindTaken(k, except) == \E d \in Definitions \ {except} : defs[d].kind = k

NoRequest(reply) == [todo |-> <<>>, def |-> 0, list |-> Null, clean |-> TRUE,
                     alone |-> TRUE, read |-> TRUE, reply |-> reply]

ConnectorInit ==
  /\ \E found \in Found :
       /\ defs = found.defs
       /\ ops = found.ops
       /\ lastOp = Cardinality(found.ops)
       /\ enabled = found.enabled
  /\ actions = {}
  /\ registry = Null
  /\ admin = [p \in Admins |-> NoRequest("none")]
  /\ boot = [s \in Seeders |-> [pc |-> "down", def |-> 0, clean |-> TRUE]]
  /\ api = "down"
  /\ calls = 0
  /\ boots = 0
  /\ faults = 0
  /\ blind = {}

-----------------------------------------------------------------------------
(* Reading the tables *)

\* The query of LoadOperations: the operations of the enabled connectors.
\* Whether an operation is enabled itself is not looked at.
LoadView ==
  {[op |-> o.id, path |-> o.path, scopes |-> o.scopes, url |-> defs[o.def].url,
    auth |-> defs[o.def].auth, kind |-> defs[o.def].kind] :
     o \in {o \in ops : o.def \in DOMAIN enabled /\ enabled[o.def]}}

\* The query of Execute: the enabled operations, whether or not their
\* connector is enabled.
ExecuteView ==
  {[op |-> o.id, path |-> o.path, kind |-> defs[o.def].kind,
    title |-> IF defs[o.def].title = Null THEN Blank ELSE defs[o.def].title] :
     o \in {o \in ops : o.enabled}}

-----------------------------------------------------------------------------
(* What a handler is going to do *)

Do(what) == [do |-> what]

Enable(on, strict) == [do |-> "enable", on |-> on, strict |-> strict]
SeedAction(name)   == [do |-> "seed action", name |-> name]

\* An operation of a body is enabled unless it says otherwise.
Inserts(list) ==
  [i \in DOMAIN list |->
     [do |-> "insert op", path |-> list[i].path, scopes |-> list[i].scopes,
      on |-> list[i].enabled # FALSE]]

DisplayOf(b) == IF b.title \in {Null, Blank} THEN b.kind ELSE b.title

CreateSteps(b) ==
  <<[do |-> "insert def", body |-> b]>> \o Inserts(b.ops)
  \o IF b.enabled = TRUE
       THEN <<Enable(TRUE, FALSE)>>
            \o IF DisplayOf(b) = Blank THEN <<>> ELSE <<SeedAction(DisplayOf(b))>>
       ELSE <<>>

SeedStep(b) ==
  CASE DisplayOf(b) \in {Null, Blank} -> Do("read display")
    [] OTHER -> SeedAction(DisplayOf(b))

UpdateSteps(b) ==
  <<Do("check builtin"), [do |-> "update def", body |-> b]>>
  \o (IF b.enabled = Null THEN <<>> ELSE <<Enable(b.enabled, FALSE)>>)
  \o (IF b.enabled = TRUE THEN <<SeedStep(b)>> ELSE <<>>)
  \o IF b.ops = <<>> THEN <<>> ELSE <<Do("delete ops")>> \o Inserts(b.ops)

Request(p, todo, d, list) ==
  /\ api = "up"
  /\ admin[p].todo = <<>>
  /\ calls < MaxRequests
  /\ calls' = calls + 1
  /\ admin' = [admin EXCEPT ![p] = [NoRequest("none") EXCEPT
                 !.todo = todo, !.def = d, !.list = list]]
  /\ UNCHANGED <<tables, boot, api, boots, blind>>

createCustomConnector(p, b) ==
  /\ b.kind # Null /\ b.url
  /\ Request(p, CreateSteps(b), 0, Null)

updateCustomConnector(p, d, b) ==
  Request(p, UpdateSteps(b), d, IF b.ops = <<>> THEN Null ELSE b.ops)

putTenantConnector(p, c, on) ==
  Request(p, <<Enable(on, TRUE)>> \o IF on THEN <<Do("read display")>> ELSE <<>>, c, Null)

putConnectorAction(p, d, o, on) ==
  Request(p, <<[do |-> "check op", op |-> o], [do |-> "set op", op |-> o, on |-> on]>>, d, Null)

upsertConnector(p, name) == Request(p, <<[do |-> "upsert registry", name |-> name]>>, 0, Null)

-----------------------------------------------------------------------------
(* Running the statements *)

Doing(p, what) == admin[p].todo # <<>> /\ Head(admin[p].todo).do = what

\* A statement whose error is answered.
Critical(s) ==
  \/ s.do \in {"insert def", "update def", "check op", "set op", "upsert registry"}
  \/ s.do = "enable" /\ s.strict

\* The request goes on with its next statement, after putting others first.
Proceed(r, first) ==
  LET rest == first \o Tail(r.todo) IN
  IF rest = <<>> THEN [NoRequest("ok") EXCEPT !.clean = r.clean] ELSE [r EXCEPT !.todo = rest]

Executed(p) == Proceed(admin[p], <<>>)

Become(p, r) == admin' = [admin EXCEPT ![p] = r]

\* The same for a statement on the operations of the request's connector: the
\* other requests on it are no longer alone.
BecomeAndDisturb(p, r) ==
  admin' = [q \in Admins |->
              CASE q = p -> r
                [] q # p /\ admin[q].def = admin[p].def -> [admin[q] EXCEPT !.alone = FALSE]
                [] OTHER -> admin[q]]

InsertDefinition(p) ==
  LET b == Head(admin[p].todo).body IN
  /\ Doing(p, "insert def")
  /\ IF KindTaken(b.kind, 0)
       THEN Become(p, NoRequest("refused")) /\ UNCHANGED defs
       ELSE /\ defs' = Append(defs, [kind |-> b.kind, title |-> b.title, url |-> TRUE,
                                     auth |-> b.auth, builtin |-> FALSE])
            /\ Become(p, [Executed(p) EXCEPT !.def = IF Executed(p).todo = <<>> THEN 0
                                                                                ELSE Len(defs) + 1])
  /\ UNCHANGED <<ops, lastOp, enabled, actions, registry, boot, api, calls, boots, blind>>

CheckBuiltinSkipped(p) ==
  /\ Doing(p, "check builtin")
  /\ Become(p, Executed(p))
  /\ UNCHANGED <<tables, boot, api, calls, boots, blind>>

\* A definition with a builtin_kind is not written.
CheckBuiltin(p) ==
  LET d == admin[p].def IN
  /\ Doing(p, "check builtin")
  /\ Become(p, IF d \in Definitions /\ defs[d].builtin THEN NoRequest("refused")
                                                       ELSE Executed(p))
  /\ UNCHANGED <<tables, boot, api, calls, boots, blind>>

Given(new, old) == IF new = Null THEN old ELSE new

UpdateDefinition(p) ==
  LET b == Head(admin[p].todo).body
      d == admin[p].def
  IN
  /\ Doing(p, "update def")
  /\ IF d \in Definitions /\ b.kind # Null /\ KindTaken(b.kind, d)
       THEN Become(p, NoRequest("refused")) /\ UNCHANGED <<defs, blind>>
       ELSE /\ defs' = [i \in Definitions |->
                          IF i # d THEN defs[i]
                          ELSE [defs[i] EXCEPT !.kind = Given(b.kind, @), !.title = Given(b.title, @),
                                               !.auth = Given(b.auth, @), !.url = @ \/ b.url]]
            /\ blind' = IF admin[p].read THEN blind ELSE blind \cup {d}
            /\ Become(p, Executed(p))
  /\ UNCHANGED <<ops, lastOp, enabled, actions, registry, boot, api, calls, boots>>

EnableConnector(p) ==
  /\ Doing(p, "enable")
  /\ enabled' = [c \in DOMAIN enabled \cup {admin[p].def} |->
                   IF c = admin[p].def THEN Head(admin[p].todo).on ELSE enabled[c]]
  /\ Become(p, Executed(p))
  /\ UNCHANGED <<defs, ops, lastOp, actions, registry, boot, api, calls, boots, blind>>

\* COALESCE(title, kind) of the definition or, where it has none, the name in
\* the registry; without a name no action is inserted.
ReadDisplay(p) ==
  LET d == admin[p].def
      name == CASE d \in Definitions -> Given(defs[d].title, defs[d].kind)
                [] d = 0 /\ registry # Null -> registry
                [] OTHER -> Blank
  IN
  /\ Doing(p, "read display")
  /\ Become(p, Proceed(admin[p], IF name = Blank THEN <<>> ELSE <<SeedAction(name)>>))
  /\ UNCHANGED <<tables, boot, api, calls, boots, blind>>

InsertAction(p) ==
  /\ Doing(p, "seed action")
  /\ actions' = actions \cup {SeededKey(Head(admin[p].todo).name)}
  /\ Become(p, Executed(p))
  /\ UNCHANGED <<defs, ops, lastOp, enabled, registry, boot, api, calls, boots, blind>>

DeleteNoOperations(p) ==
  /\ Doing(p, "delete ops")
  /\ BecomeAndDisturb(p, [Executed(p) EXCEPT !.alone = TRUE])
  /\ UNCHANGED <<tables, boot, api, calls, boots, blind>>

DeleteOperations(p) ==
  /\ Doing(p, "delete ops")
  /\ ops' = {o \in ops : o.def # admin[p].def}
  /\ BecomeAndDisturb(p, [Executed(p) EXCEPT !.alone = TRUE])
  /\ UNCHANGED <<defs, lastOp, enabled, actions, registry, boot, api, calls, boots, blind>>

WithOperationUnchecked(d, path, scopes, on, by) ==
  ops \cup {[id |-> lastOp + 1, def |-> d, path |-> path, scopes |-> scopes,
             enabled |-> on, by |-> by]}

\* The rows after inserting an operation: the foreign key refuses one whose
\* definition is not there.  by tells the seed's rows from the admins'.
WithOperation(d, path, scopes, on, by) ==
  IF d \in Definitions
    THEN ops \cup {[id |-> lastOp + 1, def |-> d, path |-> path, scopes |-> scopes,
                    enabled |-> on, by |-> by]}
    ELSE ops

InsertOperation(p) ==
  LET s == Head(admin[p].todo) IN
  /\ Doing(p, "insert op")
  /\ ops' = WithOperation(admin[p].def, s.path, s.scopes, s.on, "admin")
  /\ lastOp' = IF ops' = ops THEN lastOp ELSE lastOp + 1
  /\ BecomeAndDisturb(p, Executed(p))
  /\ UNCHANGED <<defs, enabled, actions, registry, boot, api, calls, boots, blind>>

\* The operation must belong to the connector that the URL names.
CheckOperation(p) ==
  LET found == \E o \in ops : o.id = Head(admin[p].todo).op /\ o.def = admin[p].def IN
  /\ Doing(p, "check op")
  /\ Become(p, IF found THEN Executed(p) ELSE NoRequest("refused"))
  /\ UNCHANGED <<tables, boot, api, calls, boots, blind>>

SetOperation(p) ==
  LET s == Head(admin[p].todo) IN
  /\ Doing(p, "set op")
  /\ ops' = {IF o.id = s.op THEN [o EXCEPT !.enabled = s.on] ELSE o : o \in ops}
  /\ BecomeAndDisturb(p, Executed(p))
  /\ UNCHANGED <<defs, lastOp, enabled, actions, registry, boot, api, calls, boots, blind>>

UpsertRegistry(p) ==
  /\ Doing(p, "upsert registry")
  /\ registry' = Head(admin[p].todo).name
  /\ Become(p, Executed(p))
  /\ UNCHANGED <<defs, ops, lastOp, enabled, actions, boot, api, calls, boots, blind>>

\* A statement is not executed, and its error is dropped.  read becomes FALSE
\* when it was the one that reads builtin_kind.
StatementFails(p) ==
  LET r == admin[p] IN
  /\ r.todo # <<>>
  /\ ~Critical(Head(r.todo))
  /\ Become(p, Proceed([r EXCEPT !.clean = FALSE, !.read = @ /\ ~Doing(p, "check builtin")], <<>>))
  /\ UNCHANGED <<tables, boot, api, calls, boots, blind>>

\* The request ends before its next statement: a critical one fails or the
\* reply to the one before it is lost, or the caller hangs up and so cancels
\* the context of the ones that are left.
RequestEnds(p) ==
  /\ admin[p].todo # <<>>
  /\ Become(p, NoRequest("refused"))
  /\ UNCHANGED <<tables, boot, api, calls, boots, blind>>

-----------------------------------------------------------------------------
(* SeedFromEnv *)

Seeding(s, pc, next) ==
  /\ boot[s].pc = pc
  /\ boot' = [boot EXCEPT ![s] = next]
  /\ UNCHANGED <<enabled, actions, registry, admin, api, calls, blind>>

Start(s) ==
  /\ boots < MaxBoots
  /\ boots' = boots + 1
  /\ Seeding(s, "down", [pc |-> "select", def |-> 0, clean |-> TRUE])
  /\ UNCHANGED <<defs, ops, lastOp>>

SeedSelect(s) ==
  LET found == {d \in Definitions : defs[d].kind = Shopify} IN
  /\ Seeding(s, "select", [boot[s] EXCEPT
                 !.pc  = IF found = {} THEN "insert" ELSE "op1",
                 !.def = IF found = {} THEN 0 ELSE CHOOSE d \in found : TRUE])
  /\ UNCHANGED <<defs, ops, lastOp, boots>>

\* When the kind is taken the insert is refused, and the operations go to a
\* definition that does not exist, written 0.
SeedInsert(s) ==
  LET stored == ~KindTaken(Shopify, 0) IN
  /\ defs' = IF stored
               THEN Append(defs, [kind |-> Shopify, title |-> Null, url |-> FALSE,
                                  auth |-> Null, builtin |-> TRUE])
               ELSE defs
  /\ Seeding(s, "insert", [boot[s] EXCEPT !.pc = "op1",
                                          !.def = IF stored THEN Len(defs) + 1 ELSE 0])
  /\ UNCHANGED <<ops, lastOp, boots>>

SeedOperation(s, i, pc, next) ==
  /\ ops' = WithOperation(boot[s].def, SeedOps[i].path, SeedOps[i].scopes, TRUE, "seed")
  /\ lastOp' = IF ops' = ops THEN lastOp ELSE lastOp + 1
  /\ Seeding(s, pc, [boot[s] EXCEPT !.pc = next])
  /\ UNCHANGED <<defs, boots>>

SeedCheckout(s) == SeedOperation(s, 1, "op1", "op2")
SeedRefund(s)   == SeedOperation(s, 2, "op2", "up")

\* A statement of the seed is not executed, and its error is dropped.
SeedFails(s) ==
  LET next == CASE boot[s].pc = "select" -> "insert"
                [] boot[s].pc = "insert" -> "op1"
                [] boot[s].pc = "op1"    -> "op2"
                [] OTHER                 -> "up"
  IN
  /\ boot[s].pc \notin {"down", "up"}
  /\ Seeding(s, boot[s].pc, [boot[s] EXCEPT !.pc = next, !.clean = FALSE])
  /\ UNCHANGED <<defs, ops, lastOp, boots>>

\* A service stops, or crashes in the middle of its start.
Stopped(s) ==
  /\ Seeding(s, boot[s].pc, [pc |-> "down", def |-> 0, clean |-> TRUE])
  /\ UNCHANGED <<defs, ops, lastOp, boots>>

Stop(s)  == boot[s].pc = "up" /\ Stopped(s)
Crash(s) == boot[s].pc \notin {"down", "up"} /\ Stopped(s)

-----------------------------------------------------------------------------
(* The start of the admin API: App.New *)

Starting(pc, next) ==
  /\ api = pc
  /\ api' = next
  /\ UNCHANGED <<defs, ops, lastOp, enabled, actions, boot, calls, blind>>

StartApi ==
  /\ boots < MaxBoots
  /\ boots' = boots + 1
  /\ Starting("down", "import")
  /\ UNCHANGED <<registry, admin>>

\* A registry file overwrites the entry at every start.
ImportConnectors ==
  /\ registry' = Given(ImportName, registry)
  /\ Starting("import", "count")
  /\ UNCHANGED <<admin, boots>>

\* The entries are counted twice, the second time by seedDefaultConnector.
CountConnectors ==
  /\ Starting("count", IF registry = Null THEN "seed" ELSE "up")
  /\ UNCHANGED <<registry, admin, boots>>

\* ON CONFLICT DO NOTHING
SeedDefaultConnector ==
  /\ registry' = Given(registry, SampleName)
  /\ Starting("seed", "up")
  /\ UNCHANGED <<admin, boots>>

\* A statement of the start is not executed: the import only warns, and a count
\* or an insert that fails leaves the registry as it is.
StartFails ==
  /\ Starting(api, IF api = "import" THEN "count" ELSE "up")
  /\ api \in {"import", "count", "seed"}
  /\ UNCHANGED <<registry, admin, boots>>

\* The admin API stops, and its requests with it.
StopApi ==
  /\ api = "up"
  /\ Starting(api, "down")
  /\ admin' = [p \in Admins |-> IF admin[p].todo = <<>> THEN admin[p] ELSE NoRequest("refused")]
  /\ UNCHANGED <<registry, boots>>

-----------------------------------------------------------------------------
AdminCall(p) ==
  \/ \E b \in Bodies : createCustomConnector(p, b)
  \/ \E b \in Bodies, d \in Definitions : updateCustomConnector(p, d, b)
  \/ \E c \in ConnectorIds, on \in BOOLEAN : putTenantConnector(p, c, on)
  \/ \E o \in ops, on \in BOOLEAN : putConnectorAction(p, o.def, o.id, on)
  \/ \E name \in RegistryNames : upsertConnector(p, name)

AdminStep(p) ==
  \/ InsertDefinition(p) \/ CheckBuiltin(p) \/ UpdateDefinition(p) \/ EnableConnector(p)
  \/ ReadDisplay(p) \/ InsertAction(p) \/ DeleteOperations(p) \/ InsertOperation(p)
  \/ CheckOperation(p) \/ SetOperation(p) \/ UpsertRegistry(p)

SeedNext(s) ==
  Start(s) \/ SeedSelect(s) \/ SeedInsert(s) \/ SeedCheckout(s) \/ SeedRefund(s) \/ Stop(s)

ApiNext == StartApi \/ ImportConnectors \/ CountConnectors \/ SeedDefaultConnector \/ StopApi

Fault ==
  \/ \E p \in Admins : StatementFails(p) \/ RequestEnds(p)
  \/ \E s \in Seeders : SeedFails(s) \/ Crash(s)
  \/ StartFails

ConnectorNext ==
  \/ \E p \in Admins : (AdminCall(p) \/ AdminStep(p)) /\ UNCHANGED faults
  \/ \E s \in Seeders : SeedNext(s) /\ UNCHANGED faults
  \/ ApiNext /\ UNCHANGED faults
  \/ Faults /\ faults < MaxFaults /\ faults' = faults + 1 /\ Fault

ConnectorSpec == ConnectorInit /\ [][ConnectorNext]_connectorVars

-----------------------------------------------------------------------------
(* Properties *)

\* Every operation belongs to a definition, a kind to one definition, and an
\* id to one operation.
ConnectorTypeOK ==
  /\ \A o \in ops : o.def \in Definitions /\ o.id \in 1..lastOp
  /\ \A o1, o2 \in ops : o1.id = o2.id => o1 = o2
  /\ \A d \in Definitions : ~KindTaken(defs[d].kind, d)
  /\ calls \in 0..MaxRequests /\ boots \in 0..MaxBoots

Listed(list) ==
  {[path |-> list[i].path, on |-> list[i].enabled # FALSE] : i \in DOMAIN list}

\* updateCustomConnector replaces: when it answers ok with all its statements
\* executed and no other request wrote the connector's operations meanwhile,
\* the admins' operations of the connector are those of the body, each once.
\* Services that start meanwhile may add theirs to it.
UpdateReplaces ==
  [][\A p \in Admins :
       LET r == admin[p]
           left == {o \in ops' : o.def = r.def /\ o.by = "admin"}
       IN
       /\ r.list # Null /\ r.alone /\ r.def \in Definitions
       /\ admin'[p] = NoRequest("ok")
       => /\ {[path |-> o.path, on |-> o.enabled] : o \in left} = Listed(r.list)
          /\ Cardinality(left) = Len(r.list)]_connectorVars

\* Builtin definitions are read-only: but for an update that failed to read
\* builtin_kind they keep their kind, and after a start that met no fault both
\* seeded operations are there, whatever admins do and however starts overlap.
BuiltinsIntact ==
  \A d \in Definitions \ blind : defs[d].builtin =>
    /\ defs[d].kind = Shopify
    /\ \A s \in Seeders : boot[s].pc = "up" /\ boot[s].clean /\ boot[s].def = d =>
         \A i \in {1, 2} : \E o \in ops : o.def = d /\ o.path = SeedOps[i].path

\* Execute finds the operation of row r under the key the manifest gives it,
\* and under it only operations of that short name, unless the operation is
\* switched off, its path has capitals inside a segment, or its connector's
\* kind names no namespace.
KeyFound(r) ==
  LET key  == ManifestKey(TenantSlug, r.kind, r.path)
      runs == Resolutions(ExecuteView, key)
  IN
  /\ \A o \in ops : o.id = r.op => o.enabled
  /\ \A i \in DOMAIN r.path : ~r.path[i].camel
  /\ slug(r.kind) # <<>>
  => /\ runs # {}
     /\ \A x \in runs : deriveShort(x.path) = key.short

\* "Resolve connector operation by splitting actionKey: <namespace>.<short>":
\* an advertised key runs no operation but one of that short name.
KeyRunsNamedOperation ==
  \A r \in LoadView :
    LET key == ManifestKey(TenantSlug, r.kind, r.path) IN
    \A x \in Resolutions(ExecuteView, key) : deriveName(x.path) = key.short
=============================================================================
