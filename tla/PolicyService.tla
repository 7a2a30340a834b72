---------------------------- MODULE PolicyService ----------------------------
(***************************************************************************)
(* Preflight, execute and the admin test-execute: the requests that decide *)
(* whether an action is allowed and perform it                             *)
(* (internal/policy, internal/orchestrator, testExecutePolicy), running    *)
(* beside each other and beside the admins who change policies and facts.  *)
(*                                                                         *)
(* A request is a process whose step is one SQL statement or the outgoing  *)
(* HTTP call.  With Faults, any statement may fail (a lost connection, a   *)
(* caller who hung up and so cancelled the context) and a service may stop *)
(* in the middle of a request; the handlers drop those errors, and so do   *)
(* the actions below.                                                      *)
(***************************************************************************)
EXTENDS PolicyVersions, FactStore

CONSTANTS
  Clients,        \* concurrent requests
  Tasks,          \* endpoints they call
  Inputs,         \* request inputs: [value, idem], idem the idempotency_key
  Rego(_, _, _),  \* what data.policy.decide yields for (code, inputs, facts)
  DefaultTTL,     \* 15 minutes, in ticks
  ErrorTTL,       \* 5 minutes, in ticks
  MaxConns,       \* connections in the pool of each of the two services
  MaxTime,        \* bound on the clock
  MaxRequests,    \* bound on the requests started
  InitialPolicy,  \* code published as version 1 of each action, or NoCode
  InitialResolvers,
  InitialMappings

ASSUME PolicyServiceAssumption ==
  /\ Tasks \subseteq {"preflight", "execute", "test"}
  /\ DefaultTTL \in Nat /\ ErrorTTL \in Nat
  /\ MaxConns \in Nat \ {0}
  /\ MaxTime \in Nat /\ MaxRequests \in Nat
  /\ InitialPolicy \in [ActionKeys -> Codes \cup {NoCode}]

VARIABLES
  clock,
  started,     \* number of requests started; request n stores decision n
  decisions,   \* rows of table decisions
  executions,  \* rows of table executions, n the request that inserted it
  effects,     \* history: calls that reached a connector
  req          \* req[c]: the request c is serving

adminVars   == <<policyVars, factVars>>
serviceVars == <<clock, started, decisions, executions, effects, req>>
vars        == <<adminVars, serviceVars>>

Allowing == {"ALLOW", "ALLOW_WITH_CONDITIONS"}

Answer(what) == [pc |-> "idle", answer |-> what]

ServiceInit ==
  /\ rowStatus = [a \in ActionKeys |-> [v \in VersionNos |->
                    IF v = 1 /\ InitialPolicy[a] # NoCode THEN "published" ELSE "absent"]]
  /\ rowCode   = [a \in ActionKeys |-> [v \in VersionNos |->
                    IF v = 1 THEN InitialPolicy[a] ELSE NoCode]]
  /\ creator   = [p \in Creators |-> Idle("none")]
  /\ publisher = [p \in Publishers |-> Idle("none")]
  /\ resolvers = InitialResolvers
  /\ mappings  = InitialMappings
  /\ edits = 0
  /\ clock = 0
  /\ started = 0
  /\ decisions = {}
  /\ executions = {}
  /\ effects = {}
  /\ req = [c \in Clients |-> Answer("none")]

-----------------------------------------------------------------------------
(* Evaluate *)

\* The status switch: text it does not know, or none, is BLOCKED.
StatusOf(s) == IF s \in Allowing \cup {"NEEDS_INPUT"} THEN s ELSE "BLOCKED"

\* Status and lifetime for the policy row that was loaded.  Without a module
\* the default is to allow; an evaluation error blocks; a result that is not
\* an object allows.  ttl is 0 when ttl_seconds gives no number.
Verdict(row, inputs, facts) ==
  LET out == Rego(row.mod, inputs, facts) IN
  CASE row.mod = NoCode -> [status |-> "ALLOW", ttl |-> DefaultTTL]
    [] row.mod # NoCode /\ out.kind = "error" ->
         [status |-> "BLOCKED", ttl |-> ErrorTTL]
    [] row.mod # NoCode /\ out.kind = "object" ->
         [status |-> StatusOf(out.status),
          ttl    |-> IF out.ttl > 0 THEN out.ttl ELSE DefaultTTL]
    [] OTHER -> [status |-> "ALLOW", ttl |-> DefaultTTL]

\* The decision Evaluate returns.  The last three fields are history: whether
\* the action had a published policy at that moment, whether a module was
\* evaluated, and the edits of the fact configuration before the request read it.
Decided(r, row) ==
  LET v == Verdict(row, r.inputs, r.facts) IN
  [id |-> r.n, action |-> r.action, inputs |-> r.inputs, facts |-> r.facts,
   ver |-> row.ver, status |-> v.status, expires |-> clock + v.ttl,
   governed |-> Published(r.action) # {}, evaluated |-> row.mod # NoCode, edits |-> r.edits]

\* What the binding hash is computed from.
HashOfInputsOnly(inputs, facts, ver) == <<inputs, ver>>

HashOfFactsOnly(inputs, facts, ver) == <<facts, ver>>

Hash(inputs, facts, ver) == <<inputs, facts, ver>>

-----------------------------------------------------------------------------
(* The connection pools.  A statement waits, without a limit, until its     *)
(* service's pool has a connection that nobody holds.                       *)

\* The policy service has one pool; test-execute runs in the admin API, which
\* has another.
SamePool(task, other) == (task = "test") = (other = "test")

HoldsUntilEvaluated(r) ==
  r.pc \in {"mappings", "evaluate"} \/ (r.pc \in {"send", "row"} /\ r.open)

\* Between two of its steps a request keeps a connection as long as the
\* transaction of ResolveFacts lasts, and while the rows of Execute's query are
\* open: a loop left by break leaves them so until Execute returns.
HoldsConnection(r) ==
  r.pc = "mappings" \/ (r.pc \in {"send", "row"} /\ r.open)

ConnectionFree(task) ==
  Cardinality({c \in Clients : HoldsConnection(req[c]) /\ SamePool(req[c].task, task)})
    < MaxConns

-----------------------------------------------------------------------------
(* Starting a request *)

\* open: the rows of Execute's query are open.
RequestFields == {"pc", "task", "n", "action", "inputs", "dec", "boundAt",
                  "samples", "facts", "open", "failed", "edits"}

NewRequestReusingId(task, a, i, d) ==
  [pc |-> "resolvers", task |-> task, n |-> started, action |-> a, inputs |-> i,
   dec |-> d, boundAt |-> IF task = "execute" THEN clock ELSE 0,
   samples |-> Null, facts |-> Null, open |-> FALSE, failed |-> FALSE, edits |-> edits]

NewRequest(task, a, i, d) ==
  [pc |-> "resolvers", task |-> task, n |-> started + 1, action |-> a, inputs |-> i,
   dec |-> d, boundAt |-> IF task = "execute" THEN clock ELSE 0,
   samples |-> Null, facts |-> Null, open |-> FALSE, failed |-> FALSE, edits |-> edits]

Begin(c, task, a, i, d) ==
  /\ task \in Tasks
  /\ req[c].pc = "idle"
  /\ started < MaxRequests
  /\ started' = started + 1
  /\ req' = [req EXCEPT ![c] = NewRequest(task, a, i, d)]
  /\ UNCHANGED <<clock, decisions, executions, effects, adminVars>>

Preflight(c, a, i)   == Begin(c, "preflight", a, i, Null)
TestExecute(c, a, i) == Begin(c, "test", a, i, Null)

\* The checks ValidateAndBindDecision makes on the stored row.
ExecutableWhenExpired(d, a) == d.action = a /\ d.status \in Allowing

Executable(d, a) ==
  /\ d.action = a
  /\ d.status \in Allowing
  /\ ~(d.expires < clock)

\* Execute names a decision that passes them.
Execute(c, a, id, i) ==
  /\ ConnectionFree("execute")
  /\ \E d \in decisions :
       /\ d.id = id
       /\ Executable(d, a)
       /\ Begin(c, "execute", a, i, d)

\* A blank id (0), a read that fails, an unknown id, or a check that does not
\* hold, is a 409 and nothing is written.
ExecuteRefused(c, a, id, i) ==
  /\ "execute" \in Tasks
  /\ req[c].pc = "idle"
  /\ started < MaxRequests
  /\ \/ Faults \/ id = 0
     \/ ConnectionFree("execute") /\ ~\E d \in decisions : d.id = id /\ Executable(d, a)
  /\ started' = started + 1
  /\ req' = [req EXCEPT ![c] = Answer("refused")]
  /\ UNCHANGED <<clock, decisions, executions, effects, adminVars>>

-----------------------------------------------------------------------------
(* ResolveFacts, and what its caller does with the result *)

AfterFactsCurrentVersion(r, f, err) ==
  CASE r.task # "execute" -> [r EXCEPT !.pc = "evaluate", !.samples = Null, !.facts = f]
    [] r.task = "execute" ->
         IF Hash(r.inputs, f, LoadPublished(r.action).ver)
              = Hash(r.dec.inputs, r.dec.facts, r.dec.ver)
           THEN [r EXCEPT !.pc = "operation", !.samples = Null, !.facts = f]
           ELSE Answer("decision-mismatch")

\* Preflight evaluates whatever came back; test-execute replaces the facts of
\* a failed call by an empty map; execute compares hashes, with the version
\* that the decision stores.
AfterFacts(r, f, err) ==
  CASE r.task = "preflight" -> [r EXCEPT !.pc = "evaluate", !.samples = Null, !.facts = f]
    [] r.task = "test" ->
         [r EXCEPT !.pc = "evaluate", !.samples = Null,
                   !.facts = IF err \/ f = Null THEN <<>> ELSE f]
    [] r.task = "execute" ->
         IF Hash(r.inputs, f, r.dec.ver) = Hash(r.dec.inputs, r.dec.facts, r.dec.ver)
           THEN [r EXCEPT !.pc = "operation", !.samples = Null, !.facts = f]
           ELSE Answer("decision-mismatch")

\* ResolveFacts begins its transaction and reads the resolvers.
LoadResolvers(c) ==
  /\ req[c].pc = "resolvers"
  /\ ConnectionFree(req[c].task)
  /\ req' = [req EXCEPT ![c].pc = "mappings",
                        ![c].samples = loadResolvers(req[c].action)]
  /\ UNCHANGED <<clock, started, decisions, executions, effects, adminVars>>

\* Begin or the statement fails, or the caller hangs up while it waits for a
\* connection: no facts, and an error that only test-execute looks at.
LoadResolversFails(c) ==
  /\ Faults
  /\ req[c].pc = "resolvers"
  /\ req' = [req EXCEPT ![c] = AfterFacts(req[c], Null, TRUE)]
  /\ UNCHANGED <<clock, started, decisions, executions, effects, adminVars>>

LoadMappings(c) ==
  LET r == req[c] IN
  /\ r.pc = "mappings"
  /\ \E f \in FactsOf(r.samples, loadMappings(r.action), r.inputs.value, clock) :
       req' = [req EXCEPT ![c] = AfterFacts(r, f, FALSE)]
  /\ UNCHANGED <<clock, started, decisions, executions, effects, adminVars>>

\* The mappings statement breaks off: the rows read so far are applied as if
\* they were all, because the row iterator's error is not looked at.  When
\* nothing could be read the result is the nil map.
LoadMappingsFails(c) ==
  LET r == req[c] IN
  /\ Faults
  /\ r.pc = "mappings"
  /\ \E rows \in SUBSET loadMappings(r.action) :
       \E f \in {Null} \cup FactsOf(r.samples, rows, r.inputs.value, clock) :
         req' = [req EXCEPT ![c] = AfterFacts(r, f, TRUE)]
  /\ UNCHANGED <<clock, started, decisions, executions, effects, adminVars>>

-----------------------------------------------------------------------------
(* Evaluate and PersistDecision *)

\* A preflight that needs input is answered without storing a decision.
AfterEvaluate(r, d) ==
  IF r.task = "preflight" /\ d.status = "NEEDS_INPUT"
    THEN Answer("needs input")
    ELSE [r EXCEPT !.pc = "persist", !.dec = d]

Evaluate(c) ==
  LET r == req[c] IN
  /\ r.pc = "evaluate"
  /\ ConnectionFree(r.task)
  /\ req' = [req EXCEPT ![c] = AfterEvaluate(r, Decided(r, LoadPublished(r.action)))]
  /\ UNCHANGED <<clock, started, decisions, executions, effects, adminVars>>

\* The policy cannot be read: the error is dropped, the module stays empty.
EvaluateLoadFails(c) ==
  LET r == req[c] IN
  /\ Faults
  /\ r.pc = "evaluate"
  /\ req' = [req EXCEPT ![c] =
               AfterEvaluate(r, Decided(r, [ver |-> 0, mod |-> NoCode]))]
  /\ UNCHANGED <<clock, started, decisions, executions, effects, adminVars>>

\* Preflight answers; test-execute goes on to execute, whatever the status.
AfterPersist(r, id) ==
  IF r.task = "preflight" THEN Answer("decided")
                          ELSE [r EXCEPT !.pc = "operation", !.dec.id = id]

PersistDecision(c) ==
  /\ req[c].pc = "persist"
  /\ ConnectionFree(req[c].task)
  /\ decisions' = decisions \cup {req[c].dec}
  /\ req' = [req EXCEPT ![c] = AfterPersist(req[c], req[c].n)]
  /\ UNCHANGED <<clock, started, executions, effects, adminVars>>

\* The id stays blank, written 0 here; the row may have been stored all the
\* same when it is the reply that is lost.
PersistDecisionFails(c) ==
  /\ Faults
  /\ req[c].pc = "persist"
  /\ decisions' \in {decisions, decisions \cup {req[c].dec}}
  /\ req' = [req EXCEPT ![c] = AfterPersist(req[c], 0)]
  /\ UNCHANGED <<clock, started, executions, effects, adminVars>>

-----------------------------------------------------------------------------
(* orchestrator.Execute *)

\* The client's key if the inputs carry one, else the decision id.
IdempotencyKey(r) == IF r.inputs.idem = Null THEN r.dec.id ELSE r.inputs.idem

\* An enabled operation is found and its path parameters are bound.  The rows
\* stay open when it has the very name asked for, and are read to their end,
\* and so closed, when it is the fallback.
ResolveOperation(c) ==
  /\ req[c].pc = "operation"
  /\ ConnectionFree(req[c].task)
  /\ \E open \in BOOLEAN :
       req' = [req EXCEPT ![c].pc = "send", ![c].open = open]
  /\ UNCHANGED <<clock, started, decisions, executions, effects, adminVars>>

ResolveOperationFailsSends(c) ==
  /\ req[c].pc = "operation"
  /\ req' = [req EXCEPT ![c].pc = "send", ![c].failed = TRUE]
  /\ UNCHANGED <<clock, started, decisions, executions, effects, adminVars>>

\* No operation matches the action key, or the path of the one that does keeps
\* a placeholder.
ResolveOperationFails(c) ==
  /\ req[c].pc = "operation"
  /\ ConnectionFree(req[c].task)
  /\ \E open \in BOOLEAN :
       req' = [req EXCEPT ![c].pc = "row", ![c].open = open, ![c].failed = TRUE]
  /\ UNCHANGED <<clock, started, decisions, executions, effects, adminVars>>

\* The query fails, which leaves no operation either, and no rows.
ResolveQueryFails(c) ==
  /\ Faults
  /\ req[c].pc = "operation"
  /\ req' = [req EXCEPT ![c].pc = "row", ![c].open = FALSE, ![c].failed = TRUE]
  /\ UNCHANGED <<clock, started, decisions, executions, effects, adminVars>>

SendAnswersAtOnce(c) ==
  LET r == req[c] IN
  /\ r.pc = "send"
  /\ effects' = effects \cup
       {[n |-> r.n, task |-> r.task, action |-> r.action, inputs |-> r.inputs,
         facts |-> r.facts, decision |-> r.dec.id, boundAt |-> r.boundAt,
         key |-> IdempotencyKey(r)]}
  /\ req' = [req EXCEPT ![c] = Answer("executed")]
  /\ UNCHANGED <<clock, started, decisions, executions, adminVars>>

\* The request reaches the connector.  The step is SUCCEEDED whatever the
\* connector answers, and also when the answer is lost.
Send(c) ==
  LET r == req[c] IN
  /\ r.pc = "send"
  /\ effects' = effects \cup
       {[n |-> r.n, task |-> r.task, action |-> r.action, inputs |-> r.inputs,
         facts |-> r.facts, decision |-> r.dec.id, boundAt |-> r.boundAt,
         key |-> IdempotencyKey(r)]}
  /\ req' = [req EXCEPT ![c].pc = "row"]
  /\ UNCHANGED <<clock, started, decisions, executions, adminVars>>

\* It does not reach it: the error is noted in the step, not in the status.
SendFails(c) ==
  /\ req[c].pc = "send"
  /\ req' = [req EXCEPT ![c].pc = "row"]
  /\ UNCHANGED <<clock, started, decisions, executions, effects, adminVars>>

InsertExecutionOncePerKey(c) ==
  LET r == req[c] IN
  /\ r.pc = "row"
  /\ ConnectionFree(r.task)
  /\ executions' =
       IF r.dec \in decisions /\ \A x \in executions : x.key # IdempotencyKey(r)
         THEN executions \cup
                {[n |-> r.n, action |-> r.action, decision |-> r.dec.id,
                  key |-> IdempotencyKey(r),
                  status |-> IF r.failed THEN "FAILED" ELSE "SUCCEEDED"]}
         ELSE executions
  /\ req' = [req EXCEPT ![c] = Answer("executed")]
  /\ UNCHANGED <<clock, started, decisions, effects, adminVars>>

\* The insert takes a connection of the pool beside the one that open rows
\* hold.  executions.decision_id references decisions, so a decision that was
\* never stored cannot be recorded; the insert's error is dropped.
InsertExecution(c) ==
  LET r == req[c] IN
  /\ r.pc = "row"
  /\ ConnectionFree(r.task)
  /\ executions' =
       IF r.dec \in decisions
         THEN executions \cup
                {[n |-> r.n, action |-> r.action, decision |-> r.dec.id,
                  key |-> IdempotencyKey(r),
                  status |-> IF r.failed THEN "FAILED" ELSE "SUCCEEDED"]}
         ELSE executions
  /\ req' = [req EXCEPT ![c] = Answer("executed")]
  /\ UNCHANGED <<clock, started, decisions, effects, adminVars>>

InsertExecutionFails(c) ==
  /\ Faults
  /\ req[c].pc = "row"
  /\ req' = [req EXCEPT ![c] = Answer("executed")]
  /\ UNCHANGED <<clock, started, decisions, executions, effects, adminVars>>

\* The service stops: what it had not written is lost.
Crash(c) ==
  /\ Faults
  /\ req[c].pc # "idle"
  /\ req' = [req EXCEPT ![c] = Answer("lost")]
  /\ UNCHANGED <<clock, started, decisions, executions, effects, adminVars>>

-----------------------------------------------------------------------------
Call(c) ==
  \E a \in ActionKeys, i \in Inputs :
    \/ Preflight(c, a, i)
    \/ TestExecute(c, a, i)
    \/ \E id \in 0..MaxRequests : Execute(c, a, id, i) \/ ExecuteRefused(c, a, id, i)

\* What a request does by itself, and what a fault does to it.
Work(c) ==
  \/ LoadResolvers(c) \/ LoadMappings(c)
  \/ Evaluate(c) \/ PersistDecision(c)
  \/ ResolveOperation(c) \/ ResolveOperationFails(c)
  \/ Send(c) \/ SendFails(c)
  \/ InsertExecution(c)

Disturb(c) ==
  \/ LoadResolversFails(c) \/ LoadMappingsFails(c)
  \/ EvaluateLoadFails(c) \/ PersistDecisionFails(c)
  \/ ResolveQueryFails(c) \/ InsertExecutionFails(c) \/ Crash(c)

Tick ==
  /\ clock < MaxTime
  /\ clock' = clock + 1
  /\ UNCHANGED <<started, decisions, executions, effects, req, adminVars>>

Next ==
  \/ Tick
  \/ \E c \in Clients : Call(c) \/ Work(c) \/ Disturb(c)
  \/ PolicyNext /\ UNCHANGED <<factVars, serviceVars>>
  \/ FactNext   /\ UNCHANGED <<policyVars, serviceVars>>

Spec == ServiceInit /\ [][Next]_vars

\* A request that was started keeps running: goroutines are scheduled, a
\* statement that has a connection ends, and the connector answers or the call
\* fails.  No fault is counted on, in particular no caller who hangs up: while
\* the pool is exhausted the statements that wait for it are not enabled.
FairSpec == Spec /\ \A c \in Clients : WF_vars(Work(c))

-----------------------------------------------------------------------------
(* Properties *)

\* The requests in progress, the rows and the history are well typed.
ServiceTypeOK ==
  /\ clock \in 0..MaxTime
  /\ started \in 0..MaxRequests
  /\ \A d \in decisions : d.id \in 1..started /\ d.action \in ActionKeys /\ d.inputs \in Inputs
  /\ \A x \in executions : x.n \in 1..started /\ x.status \in {"SUCCEEDED", "FAILED"}
  /\ \A c \in Clients :
       req[c].pc \in {"idle", "resolvers", "mappings", "evaluate", "persist",
                      "operation", "send", "row"}

\* The decision d lets request or effect e, made through execute, happen: it
\* is stored, allows, is for the same action, the same inputs and the same
\* facts, and had not expired when it was checked.
Grants(d, e) ==
  /\ d.action = e.action
  /\ d.inputs = e.inputs
  /\ d.facts = e.facts
  /\ d.status \in Allowing
  /\ ~(d.expires < e.boundAt)

\* A request that passed the check of its decision stays bound to it: the
\* decision is still stored and is the one for this action; once the facts
\* were compared they are the decision's own.  D is the table of decisions.
Bound(r, D) ==
  /\ DOMAIN r = RequestFields
  /\ r.task \in Tasks
  /\ r.task = "execute" =>
       /\ r.pc \in {"resolvers", "mappings", "operation", "send", "row"}
       /\ r.dec \in D
       /\ r.dec.action = r.action
       /\ r.dec.status \in Allowing
       /\ ~(r.dec.expires < r.boundAt)
       /\ r.pc \in {"operation", "send"} =>
            r.dec.inputs = r.inputs /\ r.dec.facts = r.facts

\* Every request in progress is so bound, whatever happens around it between
\* the check and the call: execute never reaches the connector on a decision
\* it has not compared.
RequestsBound ==
  /\ DOMAIN req = Clients
  /\ \A c \in Clients : req[c].pc # "idle" => Bound(req[c], decisions)

\* Nothing reaches a connector through execute but under such a decision,
\* whatever admins, other requests, faults and the clock do between the check
\* of the decision, the second reading of the facts and the call.
EffectsGranted ==
  \A e \in effects : e.task = "execute" =>
    \E d \in decisions : d.id = e.decision /\ Grants(d, e)

\* The service implements GovernedExecution: its decisions are granted once
\* and kept, and each request performs at most one call, under a decision that
\* grants it, however requests, admins, faults and the clock interleave.
Governed == INSTANCE GovernedExecution WITH
  granted <- decisions, performed <- effects, Allows <- Grants

ImplementsGovernedExecution == Governed!Spec

\* Execution rows do not misreport: a row belongs to a stored decision for the
\* same action, and where it says FAILED nothing had reached a connector.
RowsTruthful ==
  \A x \in executions :
    /\ \E d \in decisions : d.id = x.decision /\ d.action = x.action
    /\ x.status = "FAILED" => \A e \in effects : e.n # x.n

HasRow(e) ==
  \E x \in executions : x.n = e.n /\ x.decision = e.decision /\ x.status = "SUCCEEDED"

RowDue(e) == \E c \in Clients : req[c].pc = "row" /\ req[c].n = e.n

\* Every call that reached a connector has its execution row, except while
\* the request that made it is about to insert it.
EffectsAudited == \A e \in effects : HasRow(e) \/ RowDue(e)

\* With faults, a call that reached a connector stays without its row for three
\* causes only: the service stops before the insert, the insert fails, or the
\* decision was not stored when it was made, or its id was lost, and the
\* insert's reference to it is refused.
AuditLossCauses ==
  [][\A e \in effects' :
       \/ HasRow(e)' \/ RowDue(e)'
       \/ e \in effects /\ ~HasRow(e) /\ ~RowDue(e)
       \/ \E c \in Clients :
            /\ req[c].pc = "row" /\ req[c].n = e.n
            /\ \/ req'[c] = Answer("lost")
               \/ InsertExecutionFails(c)
               \/ req[c].dec \notin decisions]_vars

\* "Inputs or facts changed": execute answers so only when the inputs differ
\* from the decision's, or an admin edited the fact configuration since the
\* preflight began to read it.
MismatchMeansChanged ==
  [][\A c \in Clients :
       /\ req[c].pc = "mappings" /\ req[c].task = "execute"
       /\ req'[c] = Answer("decision-mismatch")
       => \/ req[c].inputs # req[c].dec.inputs
          \/ edits # req[c].dec.edits]_vars

\* A decision made without a policy module is made for an action that had no
\* published policy.
DefaultAllowOnlyWithoutPolicy ==
  \A d \in decisions : ~d.evaluated => ~d.governed

\* Two calls that reach a connector have different idempotency keys.
OneEffectPerKey ==
  \A e, f \in effects : e.key = f.key => e = f

\* All connections of the pool are held by requests that wait for another one
\* to insert their row: nothing but a caller who hangs up frees them.
Wedged(task) ==
  Cardinality({c \in Clients :
                 /\ req[c].pc = "row" /\ req[c].open
                 /\ SamePool(req[c].task, task)}) >= MaxConns

\* Every request that was started is answered, whatever statements fail beside
\* it, unless its service's pool is wedged: requests wait for each other in no
\* other way.
RequestsAnswered ==
  \A c \in Clients :
    req[c].pc # "idle" ~> req[c].pc = "idle" \/ Wedged(req[c].task)
=============================================================================
