-------------------------- MODULE ConnectorService ---------------------------
(***************************************************************************)
(* The connector service of one tenant: the cache of operations            *)
(* (pkg/connectors/registry.go) and the requests that are answered from it *)
(* (connector/handler.go, manifest/handler.go), beside the admin API that  *)
(* changes the tables.                                                     *)
(*                                                                         *)
(* A request loads the operations, from the cache or with a query whose    *)
(* rows it then puts into the cache; it is routed by them, calls the       *)
(* upstream with the key of the operation's auth configuration, answers,   *)
(* and writes a usage row.  Each of these is a step.                       *)
(***************************************************************************)
EXTENDS ConnectorTables, AuthConfigs

CONSTANTS
  Callers,        \* concurrent requests to the service
  Requests,       \* what callers send: [path, scopes, machine]
  CanonicalOps,   \* built-in operations: [path, scopes, userOnly]
  AuthBodies,     \* AuthBody: [type, config, secrets]
  AuthsFound,     \* secrets of the auth configurations earlier runs left
  TTL,            \* the lifetime of the cache
  MaxLag,         \* time within which a query's rows reach the cache
  MaxCalls        \* bound on the callers' requests

ASSUME ConnectorServiceAssumption ==
  /\ TTL \in Nat \ {0} /\ MaxLag \in Nat /\ MaxCalls \in Nat
  /\ \A a \in DOMAIN AuthsFound : AuthsFound[a] # Null

VARIABLES
  cache,     \* [rows, age, whole], rows Null while nothing is cached
  call,      \* call[c]: the request c is serving
  served,    \* number of callers' requests
  answered,  \* history: the operations carried out, [n, path, status]
  usage,     \* usage_events
  quiet      \* history: time since the result of the query last changed

serviceVars == <<cache, call, served, answered, usage>>
systemVars  == <<connectorVars, authVars, serviceVars, quiet>>

Bound == MaxLag + TTL

NoCache == [rows |-> Null, age |-> 0, whole |-> TRUE]
Idle    == [pc |-> "idle", n |-> 0, req |-> Null, rows |-> {}, lag |-> 0, whole |-> TRUE,
            row |-> Null, key |-> {}, status |-> "none"]

ServiceInit ==
  /\ ConnectorInit
  /\ auths = [a \in DOMAIN AuthsFound |->
                [type |-> "api_key", config |-> {}, sealed |-> encryptJSON(AuthsFound[a])]]
  /\ put = AuthsFound
  /\ cache = NoCache
  /\ call = [c \in Callers |-> Idle]
  /\ served = 0
  /\ answered = {}
  /\ usage = <<>>
  /\ quiet = 0

-----------------------------------------------------------------------------
(* Requests *)

CacheHitAtExpiry == cache.rows # Null /\ cache.age <= TTL

CacheHit == cache.rows # Null /\ cache.age < TTL

HasAnyScope(have, required) == required = {} \/ have \cap required # {}

Move(c, r) == call' = [call EXCEPT ![c] = r]

\* The request ends.  What its answer says is left out, but for the status
\* that the usage row repeats and for lists.
End(c) == Move(c, Idle)

\* A list of operations is answered, made from rows, which the caller holds
\* until its next request.
AnswerList(c, rows) == Move(c, [Idle EXCEPT !.rows = rows])

\* A dynamic operation, or the list of operations when req is Null, for
\* serveOpenAPI and BuildManifest.
Dynamic(c, req) ==
  /\ call[c].pc = "idle" /\ served < MaxCalls
  /\ req # Null => \A co \in CanonicalOps : co.path # req.path
  /\ served' = served + 1
  /\ Move(c, [Idle EXCEPT !.pc = "load", !.n = served + 1, !.req = req])
  /\ UNCHANGED <<cache, answered, usage>>

Answered(c, path, status) == answered' = answered \cup {[n |-> call'[c].n, path |-> path, status |-> status]}

\* A canonical operation answers a placeholder.
canonicalHandler(c, req) ==
  /\ call[c].pc = "idle" /\ served < MaxCalls
  /\ served' = served + 1
  /\ \E co \in CanonicalOps :
       /\ co.path = req.path
       /\ IF HasAnyScope(req.scopes, co.scopes) /\ ~(co.userOnly /\ req.machine)
            THEN /\ Move(c, [Idle EXCEPT !.pc = "log", !.n = served + 1, !.req = req, !.status = "200"])
                 /\ Answered(c, req.path, "200")
            ELSE End(c) /\ UNCHANGED answered   \* 403
  /\ UNCHANGED <<cache, usage>>

\* The request goes on with one operation, and no longer holds the rows.
With(c, x, pc, status) ==
  [Idle EXCEPT !.pc = pc, !.n = call[c].n, !.req = call[c].req, !.row = x, !.status = status]

\* 403, the call to the upstream, or an echo when there is none.
Serve(c, x) ==
  \/ /\ ~HasAnyScope(call[c].req.scopes, x.scopes)
     /\ End(c) /\ UNCHANGED answered
  \/ /\ HasAnyScope(call[c].req.scopes, x.scopes) /\ x.url
     /\ Move(c, With(c, x, IF x.auth = Null THEN "send" ELSE "auth", "none"))
     /\ UNCHANGED answered
  \/ /\ HasAnyScope(call[c].req.scopes, x.scopes) /\ ~x.url
     /\ Move(c, With(c, x, "log", "200"))
     /\ Answered(c, x.path, "200")

\* What the request does once it has the rows: the list, 404, or the operation.
\* Of two rows with one path the one that was registered last serves it.
Routed(c, rows) ==
  LET found == {x \in rows : x.path = call[c].req.path} IN
  \/ call[c].req = Null /\ AnswerList(c, rows) /\ UNCHANGED answered
  \/ call[c].req # Null /\ found = {} /\ End(c) /\ UNCHANGED answered
  \/ call[c].req # Null /\ \E x \in found : Serve(c, x)

LoadCached(c) ==
  /\ call[c].pc = "load" /\ CacheHit
  /\ Routed(c, cache.rows)
  /\ UNCHANGED <<cache, served, usage>>

\* The rows are read and still to be put into the cache.
Fetched(c, rows, whole) ==
  Move(c, [call[c] EXCEPT !.pc = "store", !.rows = rows, !.lag = 0, !.whole = whole])

LoadQuery(c) ==
  /\ call[c].pc = "load" /\ ~CacheHit
  /\ Fetched(c, LoadView, TRUE)
  /\ UNCHANGED <<cache, served, answered, usage>>

\* The row iterator stops early and its error is not read.
LoadBreaksOff(c) ==
  /\ call[c].pc = "load" /\ ~CacheHit
  /\ \E rows \in SUBSET LoadView : rows # LoadView /\ Fetched(c, rows, FALSE)
  /\ UNCHANGED <<cache, served, answered, usage>>

\* The query fails: 500, but for a list of operations an empty one.
LoadFails(c) ==
  /\ call[c].pc = "load" /\ ~CacheHit
  /\ End(c)
  /\ UNCHANGED <<cache, served, answered, usage>>

Store(c) ==
  /\ call[c].pc = "store"
  /\ cache' = [rows |-> call[c].rows, age |-> 0, whole |-> call[c].whole]
  /\ Routed(c, call[c].rows)
  /\ UNCHANGED <<served, usage>>

LookupAuth(c) ==
  /\ call[c].pc = "auth"
  /\ Move(c, [call[c] EXCEPT !.pc = "send", !.key = ApiKey(call[c].row.auth)])
  /\ UNCHANGED <<cache, served, answered, usage>>

\* The error is dropped and the call goes out without a key.
LookupAuthFails(c) ==
  /\ call[c].pc = "auth"
  /\ Move(c, [call[c] EXCEPT !.pc = "send"])
  /\ UNCHANGED <<cache, served, answered, usage>>

\* The upstream's status is passed on in the body and in the usage row.
Answer(c, status) ==
  /\ call[c].pc = "send"
  /\ Move(c, [call[c] EXCEPT !.pc = "log", !.status = status])
  /\ Answered(c, call[c].row.path, status)
  /\ UNCHANGED <<cache, served, usage>>

AnswerFailsLogged(c) ==
  /\ call[c].pc = "send"
  /\ Move(c, [call[c] EXCEPT !.pc = "log", !.status = "200"])
  /\ UNCHANGED <<cache, served, answered, usage>>

\* No answer within the client's timeout: 502, and no usage row.
AnswerFails(c) ==
  /\ call[c].pc = "send"
  /\ End(c)
  /\ UNCHANGED <<cache, served, answered, usage>>

LogUsage(c) ==
  /\ call[c].pc = "log"
  /\ usage' = Append(usage, [n |-> call[c].n, path |-> call[c].req.path, status |-> call[c].status])
  /\ End(c)
  /\ UNCHANGED <<cache, served, answered>>

\* The error is dropped.  The caller already has its answer and may have hung
\* up, which cancels the statement.
LogUsageFails(c) ==
  /\ call[c].pc = "log"
  /\ End(c)
  /\ UNCHANGED <<cache, served, answered, usage>>

\* The service stops and starts again.
Restart ==
  /\ cache' = NoCache
  /\ call' = [c \in Callers |-> Idle]
  /\ UNCHANGED <<served, answered, usage>>

-----------------------------------------------------------------------------
Step(c) ==
  \/ LoadCached(c) \/ LoadQuery(c) \/ Store(c) \/ LookupAuth(c)
  \/ (\E status \in {"200", "500"} : Answer(c, status)) \/ AnswerFails(c) \/ LogUsage(c)

ServiceFault ==
  \/ \E c \in Callers : LoadBreaksOff(c) \/ LoadFails(c) \/ LookupAuthFails(c) \/ LogUsageFails(c)
  \/ Restart

CallerNext(c) ==
  \/ \E req \in Requests \cup {Null} : Dynamic(c, req)
  \/ \E req \in Requests : canonicalHandler(c, req)
  \/ Step(c)

\* An admin's request for the auth configurations is one statement.  When it
\* fails the tables stay as they are.
AuthAdmin ==
  /\ api = "up" /\ calls < MaxRequests
  /\ calls' = calls + 1
  /\ \E a \in AuthIds :
       \/ \E b \in AuthBodies : createAuth(a, b.type, b.config, b.secrets)
       \/ \E b \in AuthBodies : updateAuth(a, b.type, b.config, b.secrets)
       \/ deleteAuth(a)
  /\ UNCHANGED <<tables, admin, boot, api, boots, faults, blind>>

\* Time passes, for the cache and for the rows on their way to it.
Tick ==
  /\ \A c \in Callers : call[c].pc = "store" => call[c].lag < MaxLag
  /\ call' = [c \in Callers |-> IF call[c].pc = "store" THEN [call[c] EXCEPT !.lag = @ + 1] ELSE call[c]]
  /\ cache' = [cache EXCEPT !.age = IF @ > TTL \/ cache.rows = Null THEN @ ELSE @ + 1]
  /\ quiet' = IF quiet < Bound THEN quiet + 1 ELSE quiet
  /\ UNCHANGED <<connectorVars, authVars, served, answered, usage>>

\* quiet starts again whenever the query's result changes.
Watched == quiet' = IF LoadView' = LoadView THEN quiet ELSE 0

TablesNext  == ConnectorNext /\ Watched /\ UNCHANGED <<authVars, serviceVars>>
AuthNext    == AuthAdmin /\ UNCHANGED <<serviceVars, quiet>>
RequestNext ==
  /\ \/ (\E c \in Callers : CallerNext(c)) /\ UNCHANGED faults
     \/ Faults /\ faults < MaxFaults /\ faults' = faults + 1 /\ ServiceFault
  /\ UNCHANGED <<tables, admin, boot, api, calls, boots, blind, authVars, quiet>>

ServiceNext == TablesNext \/ AuthNext \/ RequestNext \/ Tick

ServiceSpec == ServiceInit /\ [][ServiceNext]_systemVars

-----------------------------------------------------------------------------
(* Properties *)

Current(rows, whole) == rows \subseteq LoadView /\ (whole => rows = LoadView)

\* Once nothing has changed for the lifetime of the cache and the lag of a
\* fill, the cache holds no operation that was withdrawn, and misses none
\* unless the query that filled it broke off; however fills overlap, and
\* although an older fill may overwrite a newer one.
ServedCurrent == CacheHit /\ quiet >= Bound => Current(cache.rows, cache.whole)

\* From then on a caller is routed by an operation as the tables have it, with
\* its present scopes, upstream and auth configuration.
RoutesCurrent ==
  [][\A c \in Callers :
       /\ call[c].pc \in {"load", "store"} /\ call'[c].row # Null
       /\ quiet >= Bound
       => call'[c].row \in LoadView]_systemVars

\* And it finds the operations of a manifest again: a key in a list answered
\* from then on resolves, and to operations of its short name only.  Within
\* the lifetime of the cache a manifest may still give keys of a kind that an
\* update has renamed.
ManifestKeysResolve ==
  [][\A c \in Callers :
       /\ call[c].pc \in {"load", "store"} /\ call'[c].pc = "idle"
       /\ quiet >= Bound
       => \A r \in call'[c].rows : KeyFound(r)]_systemVars

\* The key an outgoing call carries is the plain one of the configuration or
\* the secret last put into it, whatever partial updates came between, when
\* both services have the same ENCRYPTION_KEY.
KeySent ==
  [][\A c \in Callers :
       LET a == call[c].row.auth IN
       /\ call[c].pc = "auth" /\ call'[c].pc = "send"
       /\ faults' = faults /\ ServiceKey # Null /\ AdminKey = ServiceKey
       => call'[c].key = CASE a \notin DOMAIN auths \/ auths[a].type # "api_key" -> {}
                           [] auths[a].config # {} -> auths[a].config
                           [] OTHER -> put[a]]_systemVars

Rows == {usage[i] : i \in DOMAIN usage}

\* Usage rows tell the truth: each stands for one operation carried out, with
\* the status it had, and while nothing fails every one gets its row.
UsageTruthful ==
  /\ Rows \subseteq answered
  /\ \A i, j \in DOMAIN usage : usage[i].n = usage[j].n => i = j
  /\ faults = 0 => \A x \in answered \ Rows : \E c \in Callers : call[c].pc = "log" /\ call[c].n = x.n
=============================================================================
