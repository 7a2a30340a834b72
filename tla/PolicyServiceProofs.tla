------------------------- MODULE PolicyServiceProofs -------------------------
(***************************************************************************)
(* What the policy service promises for any number of concurrent requests, *)
(* any admins beside them, any policy and any faults: what reaches a       *)
(* connector through execute was granted by a stored decision, the service *)
(* implements GovernedExecution, the rows of executions tell the truth, a  *)
(* call is audited, and a mismatch of facts or inputs has a cause.         *)
(***************************************************************************)
EXTENDS PolicyService, PolicyVersionsProofs, FactStoreProofs

-----------------------------------------------------------------------------
(* Execute is governed.  EffectsGranted is not inductive: it says nothing   *)
(* of a request that has been checked and is on its way.  RequestsBound     *)
(* does.                                                                    *)

ServiceInv == RequestsBound /\ EffectsGranted

\* A bound request stays bound while decisions are only added.
LEMMA BoundGrows ==
  ASSUME NEW r, NEW D, NEW E, D \subseteq E, Bound(r, D)
  PROVE  Bound(r, E)
  BY DEF Bound

\* The common part of the steps: one request moves on, decisions are only
\* added, and nothing reaches a connector.
LEMMA RequestMoves ==
  ASSUME ServiceInv, NEW c \in Clients, NEW q,
         req' = [req EXCEPT ![c] = q],
         q.pc # "idle" => Bound(q, decisions'),
         decisions \subseteq decisions', effects' = effects
  PROVE  ServiceInv'
<1>1. RequestsBound'
  <2>1. DOMAIN req' = Clients
    BY DEF ServiceInv, RequestsBound
  <2>2. ASSUME NEW x \in Clients, req'[x].pc # "idle" PROVE Bound(req'[x], decisions')
    <3>1. CASE x = c
      BY <2>2, <3>1 DEF ServiceInv, RequestsBound
    <3>2. CASE x # c
      <4>1. req'[x] = req[x]
        BY <3>2 DEF ServiceInv, RequestsBound
      <4>2. Bound(req[x], decisions)
        BY <2>2, <4>1 DEF ServiceInv, RequestsBound
      <4> QED BY <4>1, <4>2, BoundGrows
    <3> QED BY <3>1, <3>2
  <2> QED BY <2>1, <2>2 DEF RequestsBound
<1>2. EffectsGranted'
  BY DEF ServiceInv, EffectsGranted, Grants
<1> QED BY <1>1, <1>2 DEF ServiceInv

\* An answered request has nothing to keep.
LEMMA AnswerIdle == \A what : Answer(what).pc = "idle"
  BY DEF Answer

\* Without faults a request only goes on by itself.
LEMMA NoDisturbance == ASSUME ~Faults, NEW c \in Clients, Disturb(c) PROVE FALSE
  BY DEF Disturb, LoadResolversFails, LoadMappingsFails, EvaluateLoadFails,
         PersistDecisionFails, ResolveQueryFails, InsertExecutionFails, Crash

-----------------------------------------------------------------------------
(* Starting a request *)

\* A request that names no decision, or one that passed the checks, starts
\* bound.
LEMMA BeginKeepsInv ==
  ASSUME ServiceInv, NEW c \in Clients, NEW task, NEW a, NEW i, NEW d,
         Begin(c, task, a, i, d),
         task = "execute" => d \in decisions /\ Executable(d, a)
  PROVE  ServiceInv'
<1> DEFINE q == NewRequest(task, a, i, d)
<1>1. /\ req' = [req EXCEPT ![c] = q]
      /\ decisions' = decisions /\ effects' = effects
  BY DEF Begin
<1>2. Bound(q, decisions')
  BY <1>1 DEF Begin, NewRequest, Bound, RequestFields, Executable
<1> HIDE DEF q
<1> QED BY <1>1, <1>2, RequestMoves

\* The four ways a client's call is taken up.
LEMMA CallKeepsInv ==
  ASSUME ServiceInv, NEW c \in Clients, Call(c) PROVE ServiceInv'
<1>1. ASSUME NEW a \in ActionKeys, NEW i \in Inputs, Preflight(c, a, i) PROVE ServiceInv'
  BY <1>1, BeginKeepsInv DEF Preflight
<1>2. ASSUME NEW a \in ActionKeys, NEW i \in Inputs, TestExecute(c, a, i) PROVE ServiceInv'
  BY <1>2, BeginKeepsInv DEF TestExecute
<1>3. ASSUME NEW a \in ActionKeys, NEW i \in Inputs, NEW id, Execute(c, a, id, i)
      PROVE  ServiceInv'
  <2>1. PICK d \in decisions : Executable(d, a) /\ Begin(c, "execute", a, i, d)
    BY <1>3 DEF Execute
  <2> QED BY <2>1, BeginKeepsInv
<1>4. ASSUME NEW a \in ActionKeys, NEW i \in Inputs, NEW id, ExecuteRefused(c, a, id, i)
      PROVE  ServiceInv'
  BY <1>4, RequestMoves, AnswerIdle DEF ExecuteRefused
<1> QED BY <1>1, <1>2, <1>3, <1>4 DEF Call

-----------------------------------------------------------------------------
(* Facts *)

\* Execute goes on only when the hashes are equal, and equal hashes are equal
\* inputs and equal facts; the other requests are not bound to a decision.
LEMMA AfterFactsBound ==
  ASSUME NEW r, NEW f, NEW err, NEW D, Bound(r, D)
  PROVE  AfterFacts(r, f, err).pc # "idle" => Bound(AfterFacts(r, f, err), D)
<1>1. CASE r.task = "preflight"
  BY <1>1 DEF AfterFacts, Bound, RequestFields
<1>2. CASE r.task = "test"
  BY <1>2 DEF AfterFacts, Bound, RequestFields
<1>3. CASE r.task = "execute"
  <2>1. CASE Hash(r.inputs, f, r.dec.ver) = Hash(r.dec.inputs, r.dec.facts, r.dec.ver)
    <3>1. r.inputs = r.dec.inputs /\ f = r.dec.facts
      BY <2>1 DEF Hash
    <3>2. AfterFacts(r, f, err) = [r EXCEPT !.pc = "operation", !.samples = Null, !.facts = f]
      BY <1>3, <2>1 DEF AfterFacts
    <3> QED BY <1>3, <3>1, <3>2 DEF Bound, RequestFields
  <2>2. CASE Hash(r.inputs, f, r.dec.ver) # Hash(r.dec.inputs, r.dec.facts, r.dec.ver)
    BY <1>3, <2>2, AnswerIdle DEF AfterFacts
  <2> QED BY <2>1, <2>2
<1>4. r.task \in {"preflight", "test", "execute"}
  BY PolicyServiceAssumption DEF Bound
<1> QED BY <1>1, <1>2, <1>3, <1>4

\* Reading the resolvers and the mappings, whether the statements succeed.
LEMMA FactStepsKeepInv ==
  ASSUME ServiceInv, NEW c \in Clients,
         LoadResolvers(c) \/ LoadResolversFails(c) \/ LoadMappings(c) \/ LoadMappingsFails(c)
  PROVE  ServiceInv'
<1> DEFINE r == req[c]
<1>1. r.pc # "idle" => Bound(r, decisions)
  BY DEF ServiceInv, RequestsBound
<1>2. CASE LoadResolvers(c)
  <2> DEFINE q == [r EXCEPT !.pc = "mappings", !.samples = loadResolvers(r.action)]
  <2>1. /\ req' = [req EXCEPT ![c] = q]
        /\ decisions' = decisions /\ effects' = effects
    BY <1>2 DEF LoadResolvers
  <2>2. Bound(q, decisions')
    BY <1>1, <1>2, <2>1 DEF LoadResolvers, Bound, RequestFields
  <2> HIDE DEF q
  <2> QED BY <2>1, <2>2, RequestMoves
<1>3. ASSUME NEW f, NEW err, r.pc # "idle", req' = [req EXCEPT ![c] = AfterFacts(r, f, err)],
             decisions' = decisions, effects' = effects
      PROVE  ServiceInv'
  BY <1>1, <1>3, AfterFactsBound, RequestMoves
<1>4. CASE LoadMappings(c)
  BY <1>3, <1>4 DEF LoadMappings
<1>5. CASE LoadMappingsFails(c)
  BY <1>3, <1>5 DEF LoadMappingsFails
<1>6. CASE LoadResolversFails(c)
  BY <1>3, <1>6 DEF LoadResolversFails
<1> QED BY <1>2, <1>4, <1>5, <1>6

-----------------------------------------------------------------------------
(* Decisions *)

\* Only a request that is not an execute is evaluated.
LEMMA AfterEvaluateBound ==
  ASSUME NEW r, NEW d, NEW D, Bound(r, D), r.pc = "evaluate"
  PROVE  AfterEvaluate(r, d).pc # "idle" => Bound(AfterEvaluate(r, d), D)
  BY AnswerIdle DEF AfterEvaluate, Bound, RequestFields

\* Only a request that is not an execute stores a decision.
LEMMA AfterPersistBound ==
  ASSUME NEW r, NEW id, NEW D, Bound(r, D), r.pc = "persist"
  PROVE  AfterPersist(r, id).pc # "idle" => Bound(AfterPersist(r, id), D)
  BY AnswerIdle DEF AfterPersist, Bound, RequestFields

\* Evaluating and storing a decision, whether the statements succeed.
LEMMA DecisionStepsKeepInv ==
  ASSUME ServiceInv, NEW c \in Clients,
         \/ Evaluate(c) \/ EvaluateLoadFails(c)
         \/ PersistDecision(c) \/ PersistDecisionFails(c)
  PROVE  ServiceInv'
<1> DEFINE r == req[c]
<1>1. r.pc # "idle" => Bound(r, decisions)
  BY DEF ServiceInv, RequestsBound
<1>2. ASSUME NEW d, r.pc = "evaluate", req' = [req EXCEPT ![c] = AfterEvaluate(r, d)],
             decisions' = decisions, effects' = effects
      PROVE  ServiceInv'
  BY <1>1, <1>2, AfterEvaluateBound, RequestMoves
<1>3. ASSUME NEW id, r.pc = "persist", req' = [req EXCEPT ![c] = AfterPersist(r, id)],
             decisions \subseteq decisions', effects' = effects
      PROVE  ServiceInv'
  <2>1. Bound(r, decisions')
    BY <1>1, <1>3, BoundGrows
  <2> QED BY <2>1, <1>3, AfterPersistBound, RequestMoves
<1>4. CASE Evaluate(c)
  BY <1>2, <1>4 DEF Evaluate
<1>5. CASE EvaluateLoadFails(c)
  BY <1>2, <1>5 DEF EvaluateLoadFails
<1>6. CASE PersistDecision(c)
  BY <1>3, <1>6 DEF PersistDecision
<1>7. CASE PersistDecisionFails(c)
  BY <1>3, <1>7 DEF PersistDecisionFails
<1> QED BY <1>4, <1>5, <1>6, <1>7

-----------------------------------------------------------------------------
(* Execution *)

\* The call itself: the request that sends is bound, so its decision grants
\* what it sends.
LEMMA SendKeepsInv ==
  ASSUME ServiceInv, NEW c \in Clients, Send(c) PROVE ServiceInv'
<1> DEFINE r == req[c]
           e == [n |-> r.n, task |-> r.task, action |-> r.action, inputs |-> r.inputs,
                 facts |-> r.facts, decision |-> r.dec.id, boundAt |-> r.boundAt,
                 key |-> IdempotencyKey(r)]
           q == [r EXCEPT !.pc = "row"]
<1>1. /\ effects' = effects \cup {e}
      /\ req' = [req EXCEPT ![c] = q]
      /\ decisions' = decisions
      /\ r.pc = "send"
  BY DEF Send
<1>2. Bound(r, decisions)
  BY <1>1 DEF ServiceInv, RequestsBound
<1>3. Bound(q, decisions')
  BY <1>1, <1>2 DEF Bound, RequestFields
<1>4. e.task = "execute" => r.dec \in decisions' /\ r.dec.id = e.decision /\ Grants(r.dec, e)
  BY <1>1, <1>2 DEF Bound, Grants
<1> HIDE DEF e, q
<1>5. EffectsGranted'
  <2> SUFFICES ASSUME NEW x \in effects', x.task = "execute"
               PROVE  \E d \in decisions' : d.id = x.decision /\ Grants(d, x)
    BY DEF EffectsGranted, Grants
  <2>1. CASE x = e
    BY <2>1, <1>4
  <2>2. CASE x \in effects
    BY <2>2, <1>1 DEF ServiceInv, EffectsGranted
  <2> QED BY <1>1, <2>1, <2>2
<1>6. RequestsBound'
  BY <1>1, <1>3 DEF ServiceInv, RequestsBound
<1> QED BY <1>5, <1>6 DEF ServiceInv

\* The other steps of the orchestrator reach no connector.
LEMMA ExecutionStepsKeepInv ==
  ASSUME ServiceInv, NEW c \in Clients,
         \/ ResolveOperation(c) \/ ResolveOperationFails(c) \/ ResolveQueryFails(c) \/ SendFails(c)
         \/ InsertExecution(c) \/ InsertExecutionFails(c) \/ Crash(c)
  PROVE  ServiceInv'
<1> DEFINE r == req[c]
<1>1. r.pc # "idle" => Bound(r, decisions)
  BY DEF ServiceInv, RequestsBound
<1>2. ASSUME NEW what, req' = [req EXCEPT ![c] = Answer(what)],
             decisions' = decisions, effects' = effects
      PROVE  ServiceInv'
  BY <1>2, AnswerIdle, RequestMoves
<1>3. ASSUME NEW q, req' = [req EXCEPT ![c] = q], Bound(q, decisions),
             decisions' = decisions, effects' = effects
      PROVE  ServiceInv'
  BY <1>3, RequestMoves
<1>4. CASE ResolveOperation(c)
  <2>1. PICK open \in BOOLEAN :
          req' = [req EXCEPT ![c] = [r EXCEPT !.pc = "send", !.open = open]]
    BY <1>4 DEF ResolveOperation
  <2>2. Bound([r EXCEPT !.pc = "send", !.open = open], decisions)
    BY <1>1, <1>4 DEF ResolveOperation, Bound, RequestFields
  <2> QED BY <1>3, <1>4, <2>1, <2>2 DEF ResolveOperation
<1>5. CASE ResolveOperationFails(c) \/ ResolveQueryFails(c)
  <2>1. PICK open \in BOOLEAN :
          req' = [req EXCEPT ![c] = [r EXCEPT !.pc = "row", !.open = open, !.failed = TRUE]]
    BY <1>5 DEF ResolveOperationFails, ResolveQueryFails
  <2>2. Bound([r EXCEPT !.pc = "row", !.open = open, !.failed = TRUE], decisions)
    BY <1>1, <1>5 DEF ResolveOperationFails, ResolveQueryFails, Bound, RequestFields
  <2> QED BY <1>3, <1>5, <2>1, <2>2 DEF ResolveOperationFails, ResolveQueryFails
<1>6. CASE SendFails(c)
  <2>1. Bound([r EXCEPT !.pc = "row"], decisions)
    BY <1>1, <1>6 DEF SendFails, Bound, RequestFields
  <2> QED BY <1>3, <1>6, <2>1 DEF SendFails
<1>7. CASE InsertExecution(c)
  BY <1>2, <1>7 DEF InsertExecution
<1>8. CASE InsertExecutionFails(c)
  BY <1>2, <1>8 DEF InsertExecutionFails
<1>9. CASE Crash(c)
  BY <1>2, <1>9 DEF Crash
<1> QED BY <1>4, <1>5, <1>6, <1>7, <1>8, <1>9

-----------------------------------------------------------------------------
\* Every step of every request, of the admins and of the clock keeps the
\* invariant; the admins' steps do not touch what it speaks of.
LEMMA NextKeepsInv == ServiceInv /\ [Next]_vars => ServiceInv'
<1> SUFFICES ASSUME ServiceInv, [Next]_vars PROVE ServiceInv'
  OBVIOUS
<1>1. CASE UNCHANGED <<decisions, effects, req>>
  BY <1>1 DEF ServiceInv, RequestsBound, EffectsGranted, Bound, Grants
<1>2. ASSUME NEW c \in Clients, Call(c) \/ Work(c) \/ Disturb(c) PROVE ServiceInv'
  BY <1>2, CallKeepsInv, FactStepsKeepInv, DecisionStepsKeepInv, SendKeepsInv,
     ExecutionStepsKeepInv DEF Work, Disturb
<1> QED BY <1>1, <1>2 DEF Next, Tick, vars, serviceVars

\* Every request in progress stays bound to the decision it was checked
\* against, in every behaviour.
THEOREM RequestsStayBound == Spec => []RequestsBound
<1>1. ServiceInit => ServiceInv
  BY AnswerIdle DEF ServiceInit, ServiceInv, RequestsBound, EffectsGranted
<1>2. ServiceInv => RequestsBound
  BY DEF ServiceInv
<1> QED BY <1>1, <1>2, NextKeepsInv, PTL DEF Spec

\* Nothing reaches a connector through execute but under a stored decision
\* that allows it, for the same action, inputs and facts, and that had not
\* expired when it was checked.
THEOREM ExecuteIsGoverned == Spec => []EffectsGranted
<1>1. ServiceInit => ServiceInv
  BY AnswerIdle DEF ServiceInit, ServiceInv, RequestsBound, EffectsGranted
<1>2. ServiceInv => EffectsGranted
  BY DEF ServiceInv
<1> QED BY <1>1, <1>2, NextKeepsInv, PTL DEF Spec

-----------------------------------------------------------------------------
(* The service implements GovernedExecution.  Beside the invariant above    *)
(* the proof needs to know which numbers are in use: that a request which   *)
(* has not stored its decision, or not made its call, finds no decision or  *)
(* call under its own number.                                               *)

\* Where a request has not stored its decision, or not made its call.
BeforePersist == {"resolvers", "mappings", "evaluate", "persist"}
BeforeSend    == BeforePersist \cup {"operation", "send"}

\* Request r finds the numbers it is going to use free: D are the decisions, E
\* the calls, s the number of requests started.
Fresh(r, D, E, s) ==
  /\ r.n \in 1..s
  /\ r.pc \in BeforePersist => \A d \in D : d.id # r.n
  /\ r.pc \in BeforeSend    => \A e \in E : e.n # r.n
  /\ r.pc = "persist" => r.dec.id = r.n

\* Numbers are given out once.
NumbersInv ==
  /\ started \in Nat
  /\ \A d \in decisions : d.id \in 1..started
  /\ \A e \in effects : e.n \in 1..started
  /\ \A c \in Clients : req[c].pc # "idle" => Fresh(req[c], decisions, effects, started)
  /\ \A b, c \in Clients :
       req[b].pc # "idle" /\ req[c].pc # "idle" /\ req[b].n = req[c].n => b = c

RefinementInv == ServiceInv /\ NumbersInv

\* A step that writes no table: the request goes on under its number, to a
\* place where it has no less to expect, or is answered.
LEMMA MovesKeepNumbers ==
  ASSUME RefinementInv, NEW c \in Clients, NEW q, req[c].pc # "idle",
         req' = [req EXCEPT ![c] = q],
         q.pc # "idle" =>
           /\ q.n = req[c].n
           /\ q.pc \in BeforePersist => req[c].pc \in BeforePersist
           /\ q.pc \in BeforeSend => req[c].pc \in BeforeSend
           /\ q.pc = "persist" => q.dec.id = q.n,
         UNCHANGED <<started, decisions, effects>>
  PROVE  NumbersInv'
<1>1. \A b \in Clients : req'[b] = IF b = c THEN q ELSE req[b]
  BY DEF RefinementInv, ServiceInv, RequestsBound
<1>2. Fresh(req[c], decisions, effects, started)
  BY DEF RefinementInv, NumbersInv
<1>3. q.pc # "idle" => Fresh(q, decisions, effects, started)
  BY <1>2 DEF Fresh
<1>4. \A b \in Clients : req'[b].pc # "idle" => Fresh(req'[b], decisions, effects, started)
  BY <1>1, <1>3 DEF RefinementInv, NumbersInv
<1>5. \A a, b \in Clients :
        req'[a].pc # "idle" /\ req'[b].pc # "idle" /\ req'[a].n = req'[b].n => a = b
  BY <1>1 DEF RefinementInv, NumbersInv
<1> QED BY <1>4, <1>5 DEF RefinementInv, NumbersInv

\* A request takes the next number, which nothing uses yet; so does one that
\* is refused at once.
LEMMA StartsKeepNumbers ==
  ASSUME RefinementInv, NEW c \in Clients, NEW q, req' = [req EXCEPT ![c] = q],
         q.pc # "idle" => q.n = started + 1 /\ q.pc # "persist",
         started' = started + 1, UNCHANGED <<decisions, effects>>
  PROVE  NumbersInv'
<1>1. \A b \in Clients : req'[b] = IF b = c THEN q ELSE req[b]
  BY DEF RefinementInv, ServiceInv, RequestsBound
<1>2. started \in Nat /\ started' \in Nat
  BY DEF RefinementInv, NumbersInv
<1>3. /\ \A d \in decisions : d.id \in 1..started /\ d.id # started + 1
      /\ \A e \in effects : e.n \in 1..started /\ e.n # started + 1
  BY <1>2 DEF RefinementInv, NumbersInv
<1>4. \A b \in Clients : req[b].pc # "idle" =>
        Fresh(req[b], decisions, effects, started) /\ req[b].n # started + 1
  BY <1>2 DEF RefinementInv, NumbersInv, Fresh
<1>5. \A b \in Clients : req'[b].pc # "idle" => Fresh(req'[b], decisions, effects, started')
  <2> SUFFICES ASSUME NEW b \in Clients, req'[b].pc # "idle"
               PROVE  Fresh(req'[b], decisions, effects, started')
    OBVIOUS
  <2>1. CASE b = c
    BY <2>1, <1>1, <1>2, <1>3 DEF Fresh
  <2>2. CASE b # c
    BY <2>2, <1>1, <1>2, <1>4 DEF Fresh
  <2> QED BY <2>1, <2>2
<1>6. \A a, b \in Clients :
        req'[a].pc # "idle" /\ req'[b].pc # "idle" /\ req'[a].n = req'[b].n => a = b
  BY <1>1, <1>4 DEF RefinementInv, NumbersInv
<1>7. (\A d \in decisions : d.id \in 1..started') /\ (\A e \in effects : e.n \in 1..started')
  BY <1>2, <1>3
<1> QED BY <1>2, <1>5, <1>6, <1>7 DEF NumbersInv

\* The steps that write no table and begin no request.
QuietStep(c) ==
  \/ LoadResolvers(c) \/ LoadResolversFails(c) \/ LoadMappings(c) \/ LoadMappingsFails(c)
  \/ Evaluate(c) \/ EvaluateLoadFails(c)
  \/ ResolveOperation(c) \/ ResolveOperationFails(c) \/ ResolveQueryFails(c) \/ SendFails(c)
  \/ InsertExecution(c) \/ InsertExecutionFails(c) \/ Crash(c)

\* Steps that neither grant nor perform keep request numbers apart.
LEMMA QuietStepsKeepNumbers ==
  ASSUME RefinementInv, NEW c \in Clients, QuietStep(c)
  PROVE  NumbersInv' /\ UNCHANGED <<decisions, effects>>
<1> DEFINE r == req[c]
<1>1. r.pc # "idle" => Bound(r, decisions) /\ DOMAIN r = RequestFields
  BY DEF RefinementInv, ServiceInv, RequestsBound, Bound
<1>2. ASSUME NEW f, NEW err, r.pc = "resolvers" \/ r.pc = "mappings",
             req' = [req EXCEPT ![c] = AfterFacts(r, f, err)],
             UNCHANGED <<started, decisions, effects>>
      PROVE  NumbersInv'
  <2>1. r.task \in {"preflight", "test", "execute"} /\ DOMAIN r = RequestFields
    BY <1>1, <1>2, PolicyServiceAssumption DEF Bound
  <2>2. \/ AfterFacts(r, f, err).pc = "idle"
        \/ AfterFacts(r, f, err).pc \in {"evaluate", "operation"} /\ AfterFacts(r, f, err).n = r.n
    BY <2>1, AnswerIdle DEF AfterFacts, RequestFields
  <2> QED BY <1>2, <2>2, MovesKeepNumbers DEF BeforePersist, BeforeSend
<1>3. ASSUME NEW d, d.id = r.n, r.pc = "evaluate", req' = [req EXCEPT ![c] = AfterEvaluate(r, d)],
             UNCHANGED <<started, decisions, effects>>
      PROVE  NumbersInv'
  <2>1. \/ AfterEvaluate(r, d).pc = "idle"
        \/ /\ AfterEvaluate(r, d).pc = "persist" /\ AfterEvaluate(r, d).n = r.n
           /\ AfterEvaluate(r, d).dec = d
    BY <1>1, <1>3, AnswerIdle DEF AfterEvaluate, RequestFields
  <2> QED BY <1>3, <2>1, MovesKeepNumbers DEF BeforePersist, BeforeSend
<1>4. ASSUME NEW what, r.pc # "idle", req' = [req EXCEPT ![c] = Answer(what)],
             UNCHANGED <<started, decisions, effects>>
      PROVE  NumbersInv'
  BY <1>4, AnswerIdle, MovesKeepNumbers
<1>5. ASSUME NEW q, r.pc \in BeforeSend, req' = [req EXCEPT ![c] = q],
             q.pc \in {"mappings", "send", "row"}, q.n = r.n,
             q.pc = "mappings" => r.pc \in BeforePersist,
             UNCHANGED <<started, decisions, effects>>
      PROVE  NumbersInv'
  <2>1. r.pc # "idle"
    BY <1>5 DEF BeforeSend, BeforePersist
  <2> QED BY <1>5, <2>1, MovesKeepNumbers DEF BeforePersist, BeforeSend
<1>6. CASE LoadResolvers(c)
  <2> DEFINE q == [r EXCEPT !.pc = "mappings", !.samples = loadResolvers(r.action)]
  <2>1. q.pc = "mappings" /\ q.n = r.n
    BY <1>1, <1>6 DEF LoadResolvers, RequestFields
  <2>2. /\ req' = [req EXCEPT ![c] = q] /\ r.pc = "resolvers"
        /\ UNCHANGED <<started, decisions, effects>>
    BY <1>6 DEF LoadResolvers
  <2> HIDE DEF q
  <2> QED BY <2>1, <2>2, <1>5 DEF BeforePersist, BeforeSend
<1>7. CASE LoadMappings(c)
  BY <1>2, <1>7 DEF LoadMappings
<1>8. CASE LoadMappingsFails(c)
  BY <1>2, <1>8 DEF LoadMappingsFails
<1>9. CASE Evaluate(c)
  BY <1>3, <1>9 DEF Evaluate, Decided
<1>10. CASE EvaluateLoadFails(c)
  BY <1>3, <1>10 DEF EvaluateLoadFails, Decided
<1>11. CASE ResolveOperation(c)
  <2>0. PICK open \in BOOLEAN :
          req' = [req EXCEPT ![c] = [r EXCEPT !.pc = "send", !.open = open]]
    BY <1>11 DEF ResolveOperation
  <2> DEFINE q == [r EXCEPT !.pc = "send", !.open = open]
  <2>1. q.pc = "send" /\ q.n = r.n
    BY <1>1, <1>11 DEF ResolveOperation, RequestFields
  <2>2. /\ req' = [req EXCEPT ![c] = q] /\ r.pc = "operation"
        /\ UNCHANGED <<started, decisions, effects>>
    BY <1>11, <2>0 DEF ResolveOperation
  <2> HIDE DEF q
  <2> QED BY <2>1, <2>2, <1>5 DEF BeforePersist, BeforeSend
<1>12. CASE ResolveOperationFails(c) \/ ResolveQueryFails(c)
  <2>0. PICK open \in BOOLEAN :
          req' = [req EXCEPT ![c] = [r EXCEPT !.pc = "row", !.open = open, !.failed = TRUE]]
    BY <1>12 DEF ResolveOperationFails, ResolveQueryFails
  <2> DEFINE q == [r EXCEPT !.pc = "row", !.open = open, !.failed = TRUE]
  <2>1. q.pc = "row" /\ q.n = r.n
    BY <1>1, <1>12 DEF ResolveOperationFails, ResolveQueryFails, RequestFields
  <2>2. /\ req' = [req EXCEPT ![c] = q] /\ r.pc = "operation"
        /\ UNCHANGED <<started, decisions, effects>>
    BY <1>12, <2>0 DEF ResolveOperationFails, ResolveQueryFails
  <2> HIDE DEF q
  <2> QED BY <2>1, <2>2, <1>5 DEF BeforePersist, BeforeSend
<1>13. CASE SendFails(c)
  <2> DEFINE q == [r EXCEPT !.pc = "row"]
  <2>1. q.pc = "row" /\ q.n = r.n
    BY <1>1, <1>13 DEF SendFails, RequestFields
  <2>2. /\ req' = [req EXCEPT ![c] = q] /\ r.pc = "send"
        /\ UNCHANGED <<started, decisions, effects>>
    BY <1>13 DEF SendFails
  <2> HIDE DEF q
  <2> QED BY <2>1, <2>2, <1>5 DEF BeforePersist, BeforeSend
<1>14. CASE InsertExecution(c)
  BY <1>4, <1>14 DEF InsertExecution
<1>15. CASE InsertExecutionFails(c)
  BY <1>4, <1>15 DEF InsertExecutionFails
<1>16. CASE Crash(c)
  BY <1>4, <1>16 DEF Crash
<1>17. CASE LoadResolversFails(c)
  BY <1>2, <1>17 DEF LoadResolversFails
<1>18. UNCHANGED <<decisions, effects>>
  BY DEF QuietStep, LoadResolvers, LoadResolversFails, LoadMappings, LoadMappingsFails, Evaluate,
         EvaluateLoadFails, ResolveOperation, ResolveOperationFails, ResolveQueryFails, SendFails,
         InsertExecution,
         InsertExecutionFails, Crash
<1> QED BY <1>6, <1>7, <1>8, <1>9, <1>10, <1>11, <1>12, <1>13, <1>14, <1>15, <1>16, <1>17,
        <1>18 DEF QuietStep

-----------------------------------------------------------------------------
(* The two steps that write what the abstract specification sees *)

\* Storing a decision uses up the request's number, and is a Grant; when the
\* statement fails it may be nothing.
LEMMA PersistGrants ==
  ASSUME RefinementInv, NEW c \in Clients, PersistDecision(c) \/ PersistDecisionFails(c)
  PROVE  NumbersInv' /\ (Governed!Grant \/ UNCHANGED <<decisions, effects>>)
<1> DEFINE r == req[c]
<1>1. /\ r.pc = "persist" /\ effects' = effects /\ started' = started
      /\ decisions' \in {decisions, decisions \cup {r.dec}}
  BY DEF PersistDecision, PersistDecisionFails
<1>2. PICK id : req' = [req EXCEPT ![c] = AfterPersist(r, id)]
  BY DEF PersistDecision, PersistDecisionFails
<1> DEFINE q == AfterPersist(r, id)
<1>3. Bound(r, decisions) /\ Fresh(r, decisions, effects, started)
  BY <1>1 DEF RefinementInv, ServiceInv, NumbersInv, RequestsBound
<1>4. q.pc = "idle" \/ (q.pc = "operation" /\ q.n = r.n)
  BY <1>1, <1>3, AnswerIdle DEF AfterPersist, Bound, RequestFields
<1>5. r.dec.id = r.n /\ \A d \in decisions : d.id # r.n
  BY <1>1, <1>3 DEF Fresh, BeforePersist
<1> HIDE DEF q
<1>6. \A b \in Clients : req'[b] = IF b = c THEN q ELSE req[b]
  BY <1>2 DEF RefinementInv, ServiceInv, RequestsBound, q
<1>7. \A b \in Clients : req[b].pc # "idle" /\ b # c =>
        Fresh(req[b], decisions, effects, started) /\ req[b].n # r.n
  BY <1>1 DEF RefinementInv, NumbersInv
<1>8. \A b \in Clients : req'[b].pc # "idle" => Fresh(req'[b], decisions', effects', started')
  <2> SUFFICES ASSUME NEW b \in Clients, req'[b].pc # "idle"
               PROVE  Fresh(req'[b], decisions', effects', started')
    OBVIOUS
  <2>1. CASE b = c
    BY <2>1, <1>1, <1>3, <1>4, <1>6 DEF Fresh, BeforePersist, BeforeSend
  <2>2. CASE b # c
    BY <2>2, <1>1, <1>5, <1>6, <1>7 DEF Fresh
  <2> QED BY <2>1, <2>2
<1>9. \A a, b \in Clients :
        req'[a].pc # "idle" /\ req'[b].pc # "idle" /\ req'[a].n = req'[b].n => a = b
  BY <1>1, <1>4, <1>6, <1>7 DEF RefinementInv, NumbersInv
<1>10. NumbersInv'
  <2>1. \A d \in decisions' : d.id \in 1..started'
    BY <1>1, <1>3, <1>5 DEF RefinementInv, NumbersInv, Fresh
  <2> QED BY <2>1, <1>1, <1>8, <1>9 DEF RefinementInv, NumbersInv
<1>11. decisions' = decisions \cup {r.dec} => Governed!Grant
  BY <1>1, <1>5 DEF Governed!Grant
<1> QED BY <1>1, <1>10, <1>11

\* The call uses up the request's number too, and is a Perform: a request that
\* is at "send" for execute is bound to a decision that grants it.
LEMMA SendPerforms ==
  ASSUME RefinementInv, NEW c \in Clients, Send(c)
  PROVE  NumbersInv' /\ Governed!Perform
<1> DEFINE r == req[c]
           e == [n |-> r.n, task |-> r.task, action |-> r.action, inputs |-> r.inputs,
                 facts |-> r.facts, decision |-> r.dec.id, boundAt |-> r.boundAt,
                 key |-> IdempotencyKey(r)]
           q == [r EXCEPT !.pc = "row"]
<1>1. /\ effects' = effects \cup {e} /\ decisions' = decisions /\ started' = started
      /\ req' = [req EXCEPT ![c] = q] /\ r.pc = "send"
  BY DEF Send
<1>2. Bound(r, decisions) /\ Fresh(r, decisions, effects, started)
  BY <1>1 DEF RefinementInv, ServiceInv, NumbersInv, RequestsBound
<1>3. e.n = r.n /\ q.pc = "row" /\ q.n = r.n /\ \A f \in effects : f.n # r.n
  BY <1>1, <1>2 DEF Bound, Fresh, RequestFields, BeforeSend
<1>4. e.task = "execute" => r.dec \in decisions /\ r.dec.id = e.decision /\ Grants(r.dec, e)
  BY <1>1, <1>2 DEF Bound, Grants
<1> HIDE DEF e, q
<1>5. \A b \in Clients : req'[b] = IF b = c THEN q ELSE req[b]
  BY <1>1 DEF RefinementInv, ServiceInv, RequestsBound
<1>6. \A b \in Clients : req[b].pc # "idle" /\ b # c =>
        Fresh(req[b], decisions, effects, started) /\ req[b].n # r.n
  BY <1>1 DEF RefinementInv, NumbersInv
<1>7. \A b \in Clients : req'[b].pc # "idle" => Fresh(req'[b], decisions', effects', started')
  <2> SUFFICES ASSUME NEW b \in Clients, req'[b].pc # "idle"
               PROVE  Fresh(req'[b], decisions', effects', started')
    OBVIOUS
  <2>1. CASE b = c
    BY <2>1, <1>1, <1>2, <1>3, <1>5 DEF Fresh, BeforePersist, BeforeSend
  <2>2. CASE b # c
    BY <2>2, <1>1, <1>3, <1>5, <1>6 DEF Fresh
  <2> QED BY <2>1, <2>2
<1>8. \A a, b \in Clients :
        req'[a].pc # "idle" /\ req'[b].pc # "idle" /\ req'[a].n = req'[b].n => a = b
  BY <1>1, <1>3, <1>5, <1>6 DEF RefinementInv, NumbersInv
<1>9. NumbersInv'
  BY <1>1, <1>2, <1>3, <1>7, <1>8 DEF RefinementInv, NumbersInv, Fresh
<1>10. Governed!Perform
  <2>1. e \in effects' /\ \A f \in effects : f.n # e.n
    BY <1>1, <1>3
  <2> QED BY <2>1, <1>1, <1>4 DEF Governed!Perform
<1> QED BY <1>9, <1>10

-----------------------------------------------------------------------------
\* Every step keeps the numbers, and is a step of GovernedExecution or leaves
\* its variables alone.
LEMMA NextRefines ==
  ASSUME RefinementInv, [Next]_vars
  PROVE  NumbersInv' /\ [Governed!Next]_<<decisions, effects>>
<1>1. CASE UNCHANGED <<started, decisions, effects, req>>
  BY <1>1 DEF RefinementInv, NumbersInv, Fresh
<1>2. ASSUME NEW c \in Clients, Call(c) PROVE NumbersInv' /\ UNCHANGED <<decisions, effects>>
  <2>1. ASSUME NEW task, NEW a, NEW i, NEW d, Begin(c, task, a, i, d)
        PROVE  NumbersInv' /\ UNCHANGED <<decisions, effects>>
    BY <2>1, StartsKeepNumbers DEF Begin, NewRequest
  <2>2. ASSUME NEW a, NEW id, NEW i, ExecuteRefused(c, a, id, i)
        PROVE  NumbersInv' /\ UNCHANGED <<decisions, effects>>
    BY <2>2, AnswerIdle, StartsKeepNumbers DEF ExecuteRefused
  <2> QED BY <1>2, <2>1, <2>2 DEF Call, Preflight, TestExecute, Execute
<1>3. ASSUME NEW c \in Clients, Work(c) \/ Disturb(c)
      PROVE  NumbersInv' /\ [Governed!Next]_<<decisions, effects>>
  <2>1. QuietStep(c) \/ PersistDecision(c) \/ PersistDecisionFails(c) \/ Send(c)
    BY <1>3 DEF Work, Disturb, QuietStep
  <2> QED BY <2>1, QuietStepsKeepNumbers, PersistGrants, SendPerforms DEF Governed!Next
<1> QED BY <1>1, <1>2, <1>3 DEF Next, Tick, vars, serviceVars

\* At the start nothing is stored and no number is in use.
LEMMA RefinementInvInit == ServiceInit => RefinementInv
  BY AnswerIdle DEF ServiceInit, RefinementInv, ServiceInv, NumbersInv, RequestsBound,
     EffectsGranted

\* Every step keeps the invariant of the refinement.
LEMMA RefinementInvStep == RefinementInv /\ [Next]_vars => RefinementInv'
  BY NextKeepsInv, NextRefines DEF RefinementInv

\* The policy service, statement by statement and with its faults, implements
\* GovernedExecution, for any number of clients, any policies and any admins.
THEOREM ServiceRefinesGovernedExecution == Spec => ImplementsGovernedExecution
<1>1. ServiceInit => RefinementInv /\ Governed!Init
  BY RefinementInvInit DEF ServiceInit, Governed!Init
<1>2. RefinementInv /\ [Next]_vars => RefinementInv'
  BY RefinementInvStep
<1>3. RefinementInv /\ [Next]_vars => [Governed!Next]_<<decisions, effects>>
  BY NextRefines
<1> QED BY <1>1, <1>2, <1>3, PTL DEF Spec, ImplementsGovernedExecution, Governed!Spec

-----------------------------------------------------------------------------
(* The record of executions *)

\* Where a request has its decision.
AfterEvaluation == {"persist", "operation", "send", "row"}

DecisionFields == {"id", "action", "inputs", "facts", "ver", "status", "expires",
                   "governed", "evaluated", "edits"}

\* What the record needs to know of request r, D the decisions, E the calls and
\* X the execution rows: it has no row yet; if it has made its call it is about
\* to insert a row for it; without faults its decision is stored by then.
Recorded(r, D, E, X) ==
  /\ r.action \in ActionKeys /\ r.inputs \in Inputs
  /\ r.pc \in BeforeSend \cup {"row"}
  /\ r.failed \in BOOLEAN /\ (r.pc # "row" => r.failed = FALSE)
  /\ r.pc \in AfterEvaluation => r.dec.action = r.action
  /\ r.pc = "persist" =>
       /\ DOMAIN r.dec = DecisionFields
       /\ r.dec.inputs = r.inputs
       /\ r.dec = [r.dec EXCEPT !.id = r.n]
  /\ \A x \in X : x.n # r.n
  /\ \A e \in E : e.n = r.n => r.pc = "row" /\ r.failed = FALSE /\ e.decision = r.dec.id
  /\ ~Faults /\ r.pc \in {"operation", "send", "row"} => r.dec \in D

\* Clock, counter and rows are within their bounds.
TablesTyped ==
  /\ clock \in 0..MaxTime
  /\ started \in 0..MaxRequests
  /\ \A d \in decisions : d.id \in 1..started /\ d.action \in ActionKeys /\ d.inputs \in Inputs
  /\ \A x \in executions : x.n \in 1..started /\ x.status \in {"SUCCEEDED", "FAILED"}

\* Every request in progress is recorded as far as it got, and rows tell the truth.
RecordInv ==
  /\ TablesTyped
  /\ \A c \in Clients : req[c].pc # "idle" => Recorded(req[c], decisions, effects, executions)
  /\ RowsTruthful
  /\ ~Faults => EffectsAudited

\* A step of one request that neither makes the call nor inserts a row, unless
\* it is a fault that ends the request.
LEMMA RecordMoves ==
  ASSUME RefinementInv, RecordInv, NEW c \in Clients, NEW q,
         req' = [req EXCEPT ![c] = q],
         Faults \/ req[c].pc # "row",
         q.pc # "idle" => Recorded(q, decisions', effects, executions),
         decisions \subseteq decisions', TablesTyped',
         UNCHANGED <<effects, executions>>
  PROVE  RecordInv'
<1>1. \A b \in Clients : req'[b] = IF b = c THEN q ELSE req[b]
  BY DEF RefinementInv, ServiceInv, RequestsBound
<1>2. \A b \in Clients : req'[b].pc # "idle" =>
        Recorded(req'[b], decisions', effects', executions')
  BY <1>1 DEF RecordInv, Recorded
<1>3. RowsTruthful'
  BY DEF RecordInv, RowsTruthful
<1>4. ~Faults => EffectsAudited'
  BY <1>1 DEF RecordInv, EffectsAudited, HasRow, RowDue
<1> QED BY <1>2, <1>3, <1>4 DEF RecordInv

\* A request begins with the next number, which no row and no call has.
LEMMA CallKeepsRecord ==
  ASSUME RefinementInv, RecordInv, NEW c \in Clients, Call(c)
  PROVE  RecordInv'
<1>1. started < MaxRequests /\ started' = started + 1 /\ req[c].pc = "idle"
      /\ UNCHANGED <<clock, decisions, executions, effects>>
  BY DEF Call, Preflight, TestExecute, Execute, ExecuteRefused, Begin
<1>2. TablesTyped'
  BY <1>1, PolicyServiceAssumption DEF RecordInv, TablesTyped
<1>3. ASSUME NEW task, NEW a \in ActionKeys, NEW i \in Inputs, NEW d, Begin(c, task, a, i, d)
      PROVE  RecordInv'
  <2> DEFINE q == NewRequest(task, a, i, d)
  <2>1. /\ q.action = a /\ q.inputs = i /\ q.pc = "resolvers" /\ q.failed = FALSE
        /\ q.n = started + 1
    BY DEF NewRequest
  <2>2. req' = [req EXCEPT ![c] = q]
    BY <1>3 DEF Begin
  <2> HIDE DEF q
  <2>3. (\A x \in executions : x.n # started + 1) /\ (\A e \in effects : e.n # started + 1)
    BY DEF RecordInv, TablesTyped, RefinementInv, NumbersInv
  <2>4. Recorded(q, decisions', effects, executions)
    BY <2>1, <2>3 DEF Recorded, BeforeSend, BeforePersist, AfterEvaluation
  <2> QED BY <1>1, <1>2, <2>2, <2>4, RecordMoves
<1>4. ASSUME NEW a, NEW id, NEW i, ExecuteRefused(c, a, id, i) PROVE RecordInv'
  BY <1>1, <1>2, <1>4, AnswerIdle, RecordMoves DEF ExecuteRefused
<1> QED BY <1>3, <1>4 DEF Call, Preflight, TestExecute, Execute

\* The fields of a decision.
LEMMA DecidedFields ==
  ASSUME NEW r, NEW row
  PROVE  LET d == Decided(r, row) IN
         /\ DOMAIN d = DecisionFields
         /\ d.action = r.action /\ d.inputs = r.inputs
         /\ d.facts = r.facts /\ d.edits = r.edits
         /\ d = [d EXCEPT !.id = r.n]
<1>1. \A v, e, g, x :
        LET d == [id |-> r.n, action |-> r.action, inputs |-> r.inputs, facts |-> r.facts,
                  ver |-> row.ver, status |-> v, expires |-> e,
                  governed |-> g, evaluated |-> x, edits |-> r.edits]
        IN  /\ DOMAIN d = DecisionFields
            /\ d.action = r.action /\ d.inputs = r.inputs
            /\ d.facts = r.facts /\ d.edits = r.edits
            /\ d = [d EXCEPT !.id = r.n]
  BY DEF DecisionFields
<1>2. \E v, e, g, x :
        Decided(r, row) = [id |-> r.n, action |-> r.action, inputs |-> r.inputs, facts |-> r.facts,
                           ver |-> row.ver, status |-> v, expires |-> e,
                           governed |-> g, evaluated |-> x, edits |-> r.edits]
  BY Zenon DEF Decided
<1> QED BY <1>1, <1>2

\* Reading facts and evaluating leave a request's name, inputs and number alone;
\* what is evaluated is a decision for the request's own action and inputs.
LEMMA FactStepsKeepRecord ==
  ASSUME RefinementInv, RecordInv, NEW c \in Clients,
         LoadResolvers(c) \/ LoadResolversFails(c) \/ LoadMappings(c) \/ LoadMappingsFails(c)
  PROVE  RecordInv'
<1> DEFINE r == req[c]
<1>1. UNCHANGED <<clock, started, decisions, executions, effects>>
  BY DEF LoadResolvers, LoadResolversFails, LoadMappings, LoadMappingsFails
<1>2. TablesTyped'
  BY <1>1 DEF RecordInv, TablesTyped
<1>3. r.pc \in {"resolvers", "mappings"}
  BY DEF LoadResolvers, LoadResolversFails, LoadMappings, LoadMappingsFails
<1>4. Bound(r, decisions) /\ Recorded(r, decisions, effects, executions)
  BY <1>3 DEF RefinementInv, ServiceInv, RequestsBound, RecordInv
<1>5. ASSUME NEW q, req' = [req EXCEPT ![c] = q],
             \/ q.pc = "idle"
             \/ /\ q.pc \in {"mappings", "evaluate", "operation"}
                /\ q.action = r.action /\ q.inputs = r.inputs /\ q.n = r.n
                /\ q.failed = r.failed /\ q.dec = r.dec
                /\ q.pc = "operation" => r.task = "execute"
      PROVE  RecordInv'
  <2>1. q.pc # "idle" => Recorded(q, decisions', effects, executions)
    BY <1>1, <1>3, <1>4, <1>5 DEF Recorded, Bound, BeforeSend, BeforePersist, AfterEvaluation
  <2> QED BY <1>1, <1>2, <1>3, <1>5, <2>1, RecordMoves
<1>6. CASE LoadResolvers(c)
  <2> DEFINE q == [r EXCEPT !.pc = "mappings", !.samples = loadResolvers(r.action)]
  <2>1. /\ q.pc = "mappings" /\ q.action = r.action /\ q.inputs = r.inputs /\ q.n = r.n
        /\ q.failed = r.failed /\ q.dec = r.dec
    BY <1>4 DEF Bound, RequestFields
  <2>2. req' = [req EXCEPT ![c] = q]
    BY <1>6 DEF LoadResolvers
  <2> HIDE DEF q
  <2> QED BY <1>5, <2>1, <2>2
<1>7. ASSUME NEW f, NEW err, req' = [req EXCEPT ![c] = AfterFacts(r, f, err)]
      PROVE  RecordInv'
  <2>1. r.task \in {"preflight", "test", "execute"} /\ DOMAIN r = RequestFields
    BY <1>4, PolicyServiceAssumption DEF Bound
  <2> DEFINE q == AfterFacts(r, f, err)
  <2>2. \/ q.pc = "idle"
        \/ /\ q.pc \in {"mappings", "evaluate", "operation"}
           /\ q.action = r.action /\ q.inputs = r.inputs /\ q.n = r.n
           /\ q.failed = r.failed /\ q.dec = r.dec
           /\ q.pc = "operation" => r.task = "execute"
    BY <2>1, AnswerIdle DEF AfterFacts, RequestFields
  <2> HIDE DEF q
  <2> QED BY <1>5, <1>7, <2>2 DEF q
<1>8. CASE LoadMappings(c)
  BY <1>7, <1>8 DEF LoadMappings
<1>9. CASE LoadMappingsFails(c)
  BY <1>7, <1>9 DEF LoadMappingsFails
<1>10. CASE LoadResolversFails(c)
  BY <1>7, <1>10 DEF LoadResolversFails
<1> QED BY <1>6, <1>8, <1>9, <1>10

\* Evaluating and storing the decision.
LEMMA DecisionStepsKeepRecord ==
  ASSUME RefinementInv, RecordInv, NEW c \in Clients,
         \/ Evaluate(c) \/ EvaluateLoadFails(c)
         \/ PersistDecision(c) \/ PersistDecisionFails(c)
  PROVE  RecordInv'
<1> DEFINE r == req[c]
<1>1. UNCHANGED <<clock, started, executions, effects>>
  BY DEF Evaluate, EvaluateLoadFails, PersistDecision, PersistDecisionFails
<1>2. r.pc \in {"evaluate", "persist"}
  BY DEF Evaluate, EvaluateLoadFails, PersistDecision, PersistDecisionFails
<1>3. /\ Bound(r, decisions) /\ Recorded(r, decisions, effects, executions)
      /\ Fresh(r, decisions, effects, started)
  BY <1>2 DEF RefinementInv, ServiceInv, NumbersInv, RequestsBound, RecordInv
<1>4. ASSUME NEW row, r.pc = "evaluate", decisions' = decisions,
             req' = [req EXCEPT ![c] = AfterEvaluate(r, Decided(r, row))]
      PROVE  RecordInv'
  <2> DEFINE d == Decided(r, row)
             q == AfterEvaluate(r, d)
  <2>1. /\ DOMAIN d = DecisionFields
        /\ d.action = r.action /\ d.inputs = r.inputs
        /\ d = [d EXCEPT !.id = r.n]
    BY DecidedFields
  <2> HIDE DEF d
  <2>2. \/ q.pc = "idle"
        \/ /\ q.pc = "persist" /\ q.action = r.action /\ q.inputs = r.inputs /\ q.n = r.n
           /\ q.failed = r.failed /\ q.dec = d
    BY <1>3, AnswerIdle DEF AfterEvaluate, Bound, RequestFields
  <2>3. req' = [req EXCEPT ![c] = q]
    BY <1>4 DEF d
  <2> HIDE DEF q
  <2>4. q.pc # "idle" => Recorded(q, decisions', effects, executions)
    BY <1>3, <1>4, <2>1, <2>2 DEF Recorded, BeforeSend, BeforePersist, AfterEvaluation
  <2>5. TablesTyped'
    BY <1>1, <1>4 DEF RecordInv, TablesTyped
  <2> QED BY <1>1, <1>4, <2>3, <2>4, <2>5, RecordMoves
<1>5. ASSUME NEW id, r.pc = "persist", decisions' \in {decisions, decisions \cup {r.dec}},
             req' = [req EXCEPT ![c] = AfterPersist(r, id)],
             ~Faults => id = r.n /\ r.dec \in decisions'
      PROVE  RecordInv'
  <2> DEFINE q == AfterPersist(r, id)
  <2>1. \/ q.pc = "idle"
        \/ /\ q.pc = "operation" /\ q.action = r.action /\ q.inputs = r.inputs /\ q.n = r.n
           /\ q.failed = r.failed /\ q.dec = [r.dec EXCEPT !.id = id]
    BY <1>3, AnswerIdle DEF AfterPersist, Bound, RequestFields
  <2>2. [r.dec EXCEPT !.id = id].action = r.dec.action
    BY <1>3, <1>5 DEF Recorded, DecisionFields
  <2>3. id = r.n => [r.dec EXCEPT !.id = id] = r.dec
    BY <1>3, <1>5 DEF Recorded
  <2> HIDE DEF q
  <2>4. q.pc # "idle" => Recorded(q, decisions', effects, executions)
    BY <1>3, <1>5, <2>1, <2>2, <2>3 DEF Recorded, BeforeSend, BeforePersist, AfterEvaluation
  <2>5. TablesTyped'
    <3>1. r.dec.id \in 1..started /\ r.dec.action \in ActionKeys /\ r.dec.inputs \in Inputs
      BY <1>3, <1>5 DEF Recorded, Fresh, AfterEvaluation
    <3> QED BY <1>1, <1>5, <3>1 DEF RecordInv, TablesTyped
  <2> QED BY <1>1, <1>5, <2>4, <2>5, RecordMoves DEF q
<1>6. CASE Evaluate(c)
  BY <1>4, <1>6 DEF Evaluate
<1>7. CASE EvaluateLoadFails(c)
  BY <1>4, <1>7 DEF EvaluateLoadFails
<1>8. CASE PersistDecision(c)
  BY <1>5, <1>8 DEF PersistDecision
<1>9. CASE PersistDecisionFails(c)
  BY <1>5, <1>9 DEF PersistDecisionFails
<1> QED BY <1>6, <1>7, <1>8, <1>9

\* The steps of orchestrator.Execute before and after the call, and what ends
\* a request early.
LEMMA ExecutionStepsKeepRecord ==
  ASSUME RefinementInv, RecordInv, NEW c \in Clients,
         \/ ResolveOperation(c) \/ ResolveOperationFails(c) \/ ResolveQueryFails(c) \/ SendFails(c)
         \/ InsertExecutionFails(c) \/ Crash(c)
  PROVE  RecordInv'
<1> DEFINE r == req[c]
<1>1. UNCHANGED <<clock, started, decisions, executions, effects>> /\ r.pc # "idle"
  BY DEF ResolveOperation, ResolveOperationFails, ResolveQueryFails, SendFails, InsertExecutionFails, Crash
<1>2. TablesTyped'
  BY <1>1 DEF RecordInv, TablesTyped
<1>3. /\ Bound(r, decisions) /\ Recorded(r, decisions, effects, executions)
      /\ Fresh(r, decisions, effects, started)
  BY <1>1 DEF RefinementInv, ServiceInv, NumbersInv, RequestsBound, RecordInv
<1>4. ASSUME NEW what, Faults, req' = [req EXCEPT ![c] = Answer(what)] PROVE RecordInv'
  BY <1>1, <1>2, <1>4, AnswerIdle, RecordMoves
<1>5. ASSUME NEW q, req' = [req EXCEPT ![c] = q], r.pc \in {"operation", "send"},
             q.pc \in {"send", "row"}, q.action = r.action, q.inputs = r.inputs, q.n = r.n,
             q.dec = r.dec, q.failed \in BOOLEAN, q.pc = "send" => q.failed = r.failed
      PROVE  RecordInv'
  <2>1. Recorded(q, decisions', effects, executions)
    BY <1>1, <1>3, <1>5 DEF Recorded, Fresh, BeforeSend, BeforePersist, AfterEvaluation
  <2> QED BY <1>1, <1>2, <1>5, <2>1, RecordMoves
<1>6. CASE ResolveOperation(c)
  <2>0. PICK open \in BOOLEAN :
          req' = [req EXCEPT ![c] = [r EXCEPT !.pc = "send", !.open = open]]
    BY <1>6 DEF ResolveOperation
  <2> DEFINE q == [r EXCEPT !.pc = "send", !.open = open]
  <2>1. /\ q.pc = "send" /\ q.action = r.action /\ q.inputs = r.inputs /\ q.n = r.n
        /\ q.dec = r.dec /\ q.failed = r.failed
    BY <1>3 DEF Bound, RequestFields
  <2>2. req' = [req EXCEPT ![c] = q] /\ r.pc = "operation"
    BY <1>6, <2>0 DEF ResolveOperation
  <2> HIDE DEF q
  <2> QED BY <1>3, <1>5, <2>1, <2>2 DEF Recorded
<1>7. CASE ResolveOperationFails(c) \/ ResolveQueryFails(c)
  <2>0. PICK open \in BOOLEAN :
          req' = [req EXCEPT ![c] = [r EXCEPT !.pc = "row", !.open = open, !.failed = TRUE]]
    BY <1>7 DEF ResolveOperationFails, ResolveQueryFails
  <2> DEFINE q == [r EXCEPT !.pc = "row", !.open = open, !.failed = TRUE]
  <2>1. /\ q.pc = "row" /\ q.action = r.action /\ q.inputs = r.inputs /\ q.n = r.n
        /\ q.dec = r.dec /\ q.failed = TRUE
    BY <1>3 DEF Bound, RequestFields
  <2>2. req' = [req EXCEPT ![c] = q] /\ r.pc = "operation"
    BY <1>7, <2>0 DEF ResolveOperationFails, ResolveQueryFails
  <2> HIDE DEF q
  <2> QED BY <1>5, <2>1, <2>2
<1>8. CASE SendFails(c)
  <2> DEFINE q == [r EXCEPT !.pc = "row"]
  <2>1. /\ q.pc = "row" /\ q.action = r.action /\ q.inputs = r.inputs /\ q.n = r.n
        /\ q.dec = r.dec /\ q.failed = r.failed
    BY <1>3 DEF Bound, RequestFields
  <2>2. req' = [req EXCEPT ![c] = q] /\ r.pc = "send"
    BY <1>8 DEF SendFails
  <2> HIDE DEF q
  <2> QED BY <1>3, <1>5, <2>1, <2>2 DEF Recorded
<1>9. CASE InsertExecutionFails(c)
  BY <1>4, <1>9 DEF InsertExecutionFails
<1>10. CASE Crash(c)
  BY <1>4, <1>10 DEF Crash
<1> QED BY <1>6, <1>7, <1>8, <1>9, <1>10

\* The call: from now on the request is about to insert its row, and no row
\* that says FAILED has its number.
LEMMA SendKeepsRecord ==
  ASSUME RefinementInv, RecordInv, NEW c \in Clients, Send(c)
  PROVE  RecordInv'
<1> DEFINE r == req[c]
           e == [n |-> r.n, task |-> r.task, action |-> r.action, inputs |-> r.inputs,
                 facts |-> r.facts, decision |-> r.dec.id, boundAt |-> r.boundAt,
                 key |-> IdempotencyKey(r)]
           q == [r EXCEPT !.pc = "row"]
<1>1. /\ effects' = effects \cup {e} /\ r.pc = "send" /\ req' = [req EXCEPT ![c] = q]
      /\ UNCHANGED <<clock, started, decisions, executions>>
  BY DEF Send
<1>2. e.n = r.n /\ e.decision = r.dec.id
  OBVIOUS
<1>3. /\ Bound(r, decisions) /\ Recorded(r, decisions, effects, executions)
      /\ Fresh(r, decisions, effects, started)
  BY <1>1 DEF RefinementInv, ServiceInv, NumbersInv, RequestsBound, RecordInv
<1>4. /\ q.pc = "row" /\ q.action = r.action /\ q.inputs = r.inputs /\ q.n = r.n
      /\ q.dec = r.dec /\ q.failed = r.failed
  BY <1>3 DEF Bound, RequestFields
<1> HIDE DEF e, q
<1>5. \A b \in Clients : req'[b] = IF b = c THEN q ELSE req[b]
  BY <1>1 DEF RefinementInv, ServiceInv, RequestsBound
<1>6. \A b \in Clients : b # c /\ req[b].pc # "idle" => req[b].n # r.n
  BY <1>1 DEF RefinementInv, NumbersInv
<1>7. Recorded(q, decisions, effects \cup {e}, executions)
  BY <1>1, <1>2, <1>3, <1>4 DEF Recorded, BeforeSend, AfterEvaluation
<1>8. \A b \in Clients : req'[b].pc # "idle" => Recorded(req'[b], decisions', effects', executions')
  BY <1>1, <1>2, <1>5, <1>6, <1>7 DEF RecordInv, Recorded
<1>9. RowsTruthful'
  BY <1>1, <1>2, <1>3 DEF RecordInv, RowsTruthful, Recorded
<1>10. ~Faults => EffectsAudited'
  <2> SUFFICES ASSUME ~Faults, NEW f \in effects'
               PROVE  \/ \E x \in executions' : /\ x.n = f.n /\ x.decision = f.decision
                                                /\ x.status = "SUCCEEDED"
                      \/ \E b \in Clients : req'[b].pc = "row" /\ req'[b].n = f.n
    BY DEF EffectsAudited, HasRow, RowDue
  <2>1. CASE f = e
    BY <1>2, <1>4, <1>5, <2>1
  <2>2. CASE f \in effects
    BY <1>1, <1>5, <2>2 DEF RecordInv, EffectsAudited, HasRow, RowDue
  <2> QED BY <1>1, <2>1, <2>2
<1>11. TablesTyped'
  BY <1>1 DEF RecordInv, TablesTyped
<1> QED BY <1>8, <1>9, <1>10, <1>11 DEF RecordInv

\* The row: it is for the request's decision and call.
LEMMA InsertKeepsRecord ==
  ASSUME RefinementInv, RecordInv, NEW c \in Clients, InsertExecution(c)
  PROVE  RecordInv'
<1> DEFINE r == req[c]
           x == [n |-> r.n, action |-> r.action, decision |-> r.dec.id, key |-> IdempotencyKey(r),
                 status |-> IF r.failed THEN "FAILED" ELSE "SUCCEEDED"]
<1>1. /\ r.pc = "row" /\ UNCHANGED <<clock, started, decisions, effects>>
      /\ executions' = IF r.dec \in decisions THEN executions \cup {x} ELSE executions
      /\ req' = [req EXCEPT ![c] = Answer("executed")]
  BY DEF InsertExecution
<1>2. /\ x.n = r.n /\ x.action = r.action /\ x.decision = r.dec.id
      /\ x.status \in {"SUCCEEDED", "FAILED"} /\ (x.status = "FAILED" <=> r.failed)
  OBVIOUS
<1>3. /\ Recorded(r, decisions, effects, executions) /\ Fresh(r, decisions, effects, started)
  BY <1>1 DEF RefinementInv, NumbersInv, RecordInv
<1> HIDE DEF x
<1>4. \A b \in Clients : b # c => req'[b] = req[b]
  BY <1>1 DEF RefinementInv, ServiceInv, RequestsBound
<1>5. req'[c].pc = "idle"
  BY <1>1, AnswerIdle DEF RefinementInv, ServiceInv, RequestsBound
<1>6. \A b \in Clients : b # c /\ req[b].pc # "idle" => req[b].n # r.n
  BY <1>1 DEF RefinementInv, NumbersInv
<1>7. \A b \in Clients : req'[b].pc # "idle" => Recorded(req'[b], decisions', effects', executions')
  <2> SUFFICES ASSUME NEW b \in Clients, req'[b].pc # "idle"
               PROVE  Recorded(req'[b], decisions', effects', executions')
    OBVIOUS
  <2>1. b # c /\ req'[b] = req[b] /\ Recorded(req[b], decisions, effects, executions)
    BY <1>4, <1>5 DEF RecordInv
  <2>2. \A y \in executions' : y.n # req[b].n
    BY <1>1, <1>2, <1>6, <2>1 DEF Recorded
  <2> QED BY <1>1, <2>1, <2>2 DEF Recorded
<1>8. RowsTruthful'
  <2> SUFFICES ASSUME NEW y \in executions'
               PROVE  /\ \E d \in decisions' : d.id = y.decision /\ d.action = y.action
                      /\ y.status = "FAILED" => \A e \in effects' : e.n # y.n
    BY DEF RowsTruthful
  <2>1. CASE y \in executions
    BY <1>1, <2>1 DEF RecordInv, RowsTruthful
  <2>2. CASE y = x /\ r.dec \in decisions
    BY <1>1, <1>2, <1>3, <2>2 DEF Recorded, AfterEvaluation
  <2> QED BY <1>1, <2>1, <2>2
<1>9. ~Faults => EffectsAudited'
  <2> SUFFICES ASSUME ~Faults, NEW e \in effects
               PROVE  \/ \E y \in executions' : /\ y.n = e.n /\ y.decision = e.decision
                                                /\ y.status = "SUCCEEDED"
                      \/ \E b \in Clients : req'[b].pc = "row" /\ req'[b].n = e.n
    BY <1>1 DEF EffectsAudited, HasRow, RowDue
  <2>1. CASE e.n = r.n
    <3>1. r.dec \in decisions /\ ~r.failed /\ e.decision = r.dec.id
      BY <1>1, <1>3, <2>1 DEF Recorded
    <3> QED BY <1>1, <1>2, <2>1, <3>1
  <2>2. CASE e.n # r.n
    BY <1>1, <1>4, <2>2 DEF RecordInv, EffectsAudited, HasRow, RowDue
  <2> QED BY <2>1, <2>2
<1>10. TablesTyped'
  BY <1>1, <1>2, <1>3 DEF RecordInv, TablesTyped, Fresh
<1> QED BY <1>7, <1>8, <1>9, <1>10 DEF RecordInv

\* The record stays right throughout.
LEMMA RecordInvariant == Spec => []RecordInv
<1>1. ServiceInit => RecordInv
  BY AnswerIdle, PolicyServiceAssumption DEF ServiceInit, RecordInv, TablesTyped, RowsTruthful,
     EffectsAudited
<1>2. RefinementInv /\ RecordInv /\ [Next]_vars => RecordInv'
  <2> SUFFICES ASSUME RefinementInv, RecordInv, [Next]_vars PROVE RecordInv'
    OBVIOUS
  <2>1. CASE UNCHANGED <<started, decisions, executions, effects, req>> /\ clock' \in 0..MaxTime
    BY <2>1 DEF RecordInv, TablesTyped, Recorded, RowsTruthful, EffectsAudited, HasRow, RowDue
  <2>2. ASSUME NEW c \in Clients, Call(c) \/ Work(c) \/ Disturb(c) PROVE RecordInv'
    BY <2>2, CallKeepsRecord, FactStepsKeepRecord, DecisionStepsKeepRecord,
       ExecutionStepsKeepRecord, SendKeepsRecord, InsertKeepsRecord DEF Work, Disturb
  <2>3. clock \in 0..MaxTime
    BY DEF RecordInv, TablesTyped
  <2> QED BY <2>1, <2>2, <2>3, PolicyServiceAssumption DEF Next, Tick, vars, serviceVars
<1> QED BY <1>1, <1>2, RefinementInvInit, RefinementInvStep, PTL DEF Spec

\* Requests, rows and history stay well typed, and ids and numbers within those
\* given out.
THEOREM ServiceTypeCorrect == Spec => []ServiceTypeOK
<1>1. RecordInv => ServiceTypeOK
  BY DEF RecordInv, TablesTyped, Recorded, ServiceTypeOK, BeforeSend, BeforePersist
<1> QED BY <1>1, RecordInvariant, PTL

\* No execution row misreports, under any faults and any concurrency: it names
\* a stored decision for its action, and where it says FAILED nothing had
\* reached or ever reaches a connector for that request.
THEOREM RowsTellTruth == Spec => []RowsTruthful
<1>1. RecordInv => RowsTruthful
  BY DEF RecordInv
<1> QED BY <1>1, RecordInvariant, PTL

\* Where no statement fails and no service stops, every call that reached a
\* connector has its row, or the request that made it is about to insert it.
THEOREM CallsAreAudited == ASSUME ~Faults PROVE Spec => []EffectsAudited
<1>1. RecordInv => EffectsAudited
  BY DEF RecordInv
<1> QED BY <1>1, RecordInvariant, PTL

\* A step of a request that is not about to insert its row costs no call its.
LEMMA MovesKeepAudit ==
  ASSUME RefinementInv, NEW c \in Clients, NEW q, req' = [req EXCEPT ![c] = q],
         req[c].pc # "row", executions' = executions, NEW e, HasRow(e) \/ RowDue(e)
  PROVE  HasRow(e)' \/ RowDue(e)'
<1>1. \A b \in Clients : b # c => req'[b] = req[b]
  BY DEF RefinementInv, ServiceInv, RequestsBound
<1>2. RowDue(e) => RowDue(e)'
  BY <1>1 DEF RowDue
<1>3. HasRow(e) => HasRow(e)'
  BY DEF HasRow
<1> QED BY <1>2, <1>3

\* The steps that do not touch the audit: they make no call and write no row.
LEMMA QuietKeepsAudit ==
  ASSUME RefinementInv, NEW c \in Clients,
         \/ Call(c) \/ PersistDecision(c) \/ PersistDecisionFails(c)
         \/ QuietStep(c) /\ ~InsertExecution(c) /\ ~InsertExecutionFails(c) /\ ~Crash(c)
  PROVE  /\ req[c].pc # "row" /\ effects' = effects /\ executions' = executions
         /\ \E q : req' = [req EXCEPT ![c] = q]
  BY DEF Call, Preflight, TestExecute, Execute, ExecuteRefused, Begin, QuietStep, LoadResolvers,
         LoadResolversFails, LoadMappings, LoadMappingsFails, Evaluate, EvaluateLoadFails,
         PersistDecision, PersistDecisionFails, ResolveOperation, ResolveOperationFails,
         ResolveQueryFails, SendFails

\* How a request that is about to insert its row may leave a call without one.
LEMMA RowStepsAudit ==
  ASSUME RefinementInv, RecordInv, NEW c \in Clients,
         InsertExecution(c) \/ InsertExecutionFails(c) \/ Crash(c),
         NEW e \in effects, HasRow(e) \/ RowDue(e)
  PROVE  \/ HasRow(e)' \/ RowDue(e)'
         \/ /\ req[c].pc = "row" /\ req[c].n = e.n
            /\ \/ req'[c] = Answer("lost")
               \/ InsertExecutionFails(c)
               \/ req[c].dec \notin decisions
<1> DEFINE r == req[c]
           x == [n |-> r.n, action |-> r.action, decision |-> r.dec.id, key |-> IdempotencyKey(r),
                 status |-> IF r.failed THEN "FAILED" ELSE "SUCCEEDED"]
<1>1. executions \subseteq executions'
  BY DEF InsertExecution, InsertExecutionFails, Crash
<1>2. HasRow(e) => HasRow(e)'
  BY <1>1 DEF HasRow
<1>3. \A b \in Clients : b # c => req'[b] = req[b]
  BY DEF RefinementInv, ServiceInv, RequestsBound, InsertExecution, InsertExecutionFails, Crash
<1>4. ASSUME NEW b \in Clients, b # c, req[b].pc = "row", req[b].n = e.n PROVE RowDue(e)'
  BY <1>3, <1>4 DEF RowDue
<1>5. ASSUME r.pc = "row", r.n = e.n, InsertExecution(c), r.dec \in decisions PROVE HasRow(e)'
  <2>1. x \in executions'
    BY <1>5 DEF InsertExecution
  <2>2. r.failed = FALSE /\ e.decision = r.dec.id
    BY <1>5 DEF RecordInv, Recorded
  <2>3. x.n = e.n /\ x.decision = e.decision /\ x.status = "SUCCEEDED"
    BY <1>5, <2>2
  <2> HIDE DEF x
  <2> QED BY <2>1, <2>3 DEF HasRow
<1>6. Crash(c) => req'[c] = Answer("lost")
  BY DEF Crash, RefinementInv, ServiceInv, RequestsBound
<1> QED BY <1>2, <1>4, <1>5, <1>6 DEF RowDue

\* Under any faults, a call that reached a connector stays out of the executions
\* table for the named causes only: a service that stops between the call and
\* the insert, an insert that fails, or a decision that was not stored.
THEOREM AuditLossHasCause == Spec => AuditLossCauses
<1> DEFINE Caused ==
      \A e \in effects' :
        \/ HasRow(e)' \/ RowDue(e)'
        \/ e \in effects /\ ~HasRow(e) /\ ~RowDue(e)
        \/ \E c \in Clients :
             /\ req[c].pc = "row" /\ req[c].n = e.n
             /\ \/ req'[c] = Answer("lost")
                \/ InsertExecutionFails(c)
                \/ req[c].dec \notin decisions
<1>1. RefinementInv /\ RecordInv /\ [Next]_vars => [Caused]_vars
  <2> SUFFICES ASSUME RefinementInv, RecordInv, Next, NEW e \in effects'
               PROVE  \/ HasRow(e)' \/ RowDue(e)'
                      \/ e \in effects /\ ~HasRow(e) /\ ~RowDue(e)
                      \/ \E c \in Clients :
                           /\ req[c].pc = "row" /\ req[c].n = e.n
                           /\ \/ req'[c] = Answer("lost")
                              \/ InsertExecutionFails(c)
                              \/ req[c].dec \notin decisions
    OBVIOUS
  <2>1. CASE UNCHANGED <<effects, executions, req>>
    BY <2>1 DEF HasRow, RowDue
  <2>2. ASSUME NEW c \in Clients, Send(c)
        PROVE  \/ HasRow(e)' \/ RowDue(e)'
               \/ e \in effects /\ ~HasRow(e) /\ ~RowDue(e)
    <3> DEFINE r == req[c]
               q == [r EXCEPT !.pc = "row"]
    <3>1. /\ r.pc = "send" /\ executions' = executions /\ req' = [req EXCEPT ![c] = q]
      BY <2>2 DEF Send
    <3>2. q.pc = "row" /\ q.n = r.n
      BY <3>1 DEF RefinementInv, ServiceInv, RequestsBound, Bound, RequestFields
    <3> HIDE DEF q
    <3>3. CASE e \in effects
      <4>1. HasRow(e) \/ RowDue(e) => HasRow(e)' \/ RowDue(e)'
        BY <3>1, MovesKeepAudit
      <4> QED BY <3>3, <4>1
    <3>4. CASE e \notin effects
      <4>1. e.n = r.n
        BY <2>2, <3>4 DEF Send
      <4>2. req'[c] = q
        BY <3>1 DEF RefinementInv, ServiceInv, RequestsBound
      <4> QED BY <3>2, <4>1, <4>2 DEF RowDue
    <3> QED BY <3>3, <3>4
  <2>3. ASSUME NEW c \in Clients, Call(c) \/ Work(c) \/ Disturb(c), ~Send(c),
               ~InsertExecution(c), ~InsertExecutionFails(c), ~Crash(c)
        PROVE  \/ HasRow(e)' \/ RowDue(e)'
               \/ e \in effects /\ ~HasRow(e) /\ ~RowDue(e)
    <3>1. \/ Call(c) \/ PersistDecision(c) \/ PersistDecisionFails(c)
          \/ QuietStep(c) /\ ~InsertExecution(c) /\ ~InsertExecutionFails(c) /\ ~Crash(c)
      BY <2>3 DEF Work, Disturb, QuietStep
    <3>2. /\ req[c].pc # "row" /\ effects' = effects /\ executions' = executions
          /\ \E q : req' = [req EXCEPT ![c] = q]
      BY <3>1, QuietKeepsAudit
    <3>3. HasRow(e) \/ RowDue(e) => HasRow(e)' \/ RowDue(e)'
      BY <3>2, MovesKeepAudit
    <3> QED BY <3>2, <3>3
  <2>4. ASSUME NEW c \in Clients, InsertExecution(c) \/ InsertExecutionFails(c) \/ Crash(c)
        PROVE  \/ HasRow(e)' \/ RowDue(e)'
               \/ e \in effects /\ ~HasRow(e) /\ ~RowDue(e)
               \/ /\ req[c].pc = "row" /\ req[c].n = e.n
                  /\ \/ req'[c] = Answer("lost")
                     \/ InsertExecutionFails(c)
                     \/ req[c].dec \notin decisions
    <3>1. effects' = effects
      BY <2>4 DEF InsertExecution, InsertExecutionFails, Crash
    <3>2. e \in effects
      BY <3>1
    <3>3. \/ ~HasRow(e) /\ ~RowDue(e)
          \/ HasRow(e)' \/ RowDue(e)'
          \/ /\ req[c].pc = "row" /\ req[c].n = e.n
             /\ \/ req'[c] = Answer("lost")
                \/ InsertExecutionFails(c)
                \/ req[c].dec \notin decisions
      BY <2>4, <3>2, RowStepsAudit
    <3> QED BY <3>2, <3>3
  <2> QED BY <2>1, <2>2, <2>3, <2>4 DEF Next, Tick, serviceVars
<1>2. Spec => [][Caused]_vars
  BY <1>1, RefinementInvInit, RefinementInvStep, RecordInvariant, PTL DEF Spec
<1> QED BY <1>2 DEF AuditLossCauses

-----------------------------------------------------------------------------
(* A mismatch has a cause.  Where a fact is fed by one mapping and none     *)
(* reads the clock, a configuration determines its facts; what remains to   *)
(* be known is that everything in flight was read from the configuration of *)
(* now, unless there was an edit since.                                     *)

\* The mappings that may ever feed a fact, by name and fact.
Feeds ==
  {<<b.name, b.factKey>> : b \in MappingBodies}
    \cup UNION {{<<n, InitialMappings[a][n].factKey>> : n \in DOMAIN InitialMappings[a]} : a \in ActionKeys}

\* No mapping reads the clock and no two feed one fact, at the start or by an
\* edit.
SteadyFacts ==
  /\ DOMAIN InitialMappings = ActionKeys
  /\ \A a \in ActionKeys : \A n \in DOMAIN InitialMappings[a] : Clockless(InitialMappings[a][n])
  /\ \A b \in MappingBodies : Clockless(b)
  /\ \A p, q \in Feeds : p[2] = q[2] => p[1] = q[1]

\* What SteadyFacts says of the bodies holds of the rows.
SteadyInv ==
  /\ DOMAIN mappings = ActionKeys
  /\ \A a \in ActionKeys : \A n \in DOMAIN mappings[a] :
       Clockless(mappings[a][n]) /\ <<n, mappings[a][n].factKey>> \in Feeds

\* The facts f are those of the present configuration.
Resolved(a, i, f) == f \in FactsOf(loadResolvers(a), loadMappings(a), i.value, 0)

\* A decision was made on the facts of now, unless there was an edit since.
MadeOnCurrent(d) ==
  /\ d.edits \in Nat /\ d.edits <= edits
  /\ d.edits = edits => Resolved(d.action, d.inputs, d.facts)

\* A request has read what is there now, unless there was an edit since, and
\* an execute began after its decision's preflight.
ReadCurrent(r) ==
  /\ r.action \in ActionKeys
  /\ r.edits \in Nat /\ r.edits <= edits
  /\ r.pc = "mappings" /\ r.edits = edits => r.samples = loadResolvers(r.action)
  /\ r.pc = "evaluate" /\ r.edits = edits => Resolved(r.action, r.inputs, r.facts)
  /\ r.pc = "persist" => MadeOnCurrent(r.dec)
  /\ r.task = "execute" => r.dec.edits <= r.edits

\* Everything stored or in flight was read from the configuration of now, unless
\* there was an edit since.
ReadInv ==
  /\ SteadyInv
  /\ edits \in Nat
  /\ \A d \in decisions : MadeOnCurrent(d)
  /\ \A c \in Clients : req[c].pc # "idle" => ReadCurrent(req[c])

\* In a steady configuration the facts are one map, the same at any time.
LEMMA SteadyResolves ==
  ASSUME SteadyFacts, SteadyInv, NEW a \in ActionKeys, NEW i, NEW now
  PROVE  /\ FactsOf(loadResolvers(a), loadMappings(a), i, now)
              = FactsOf(loadResolvers(a), loadMappings(a), i, 0)
         /\ Single(FactsOf(loadResolvers(a), loadMappings(a), i, 0))
<1> DEFINE rows == loadMappings(a)
<1>1. \A m \in rows : Clockless(m)
  BY DEF loadMappings, SteadyInv
<1>2. Separate(rows)
  <2> SUFFICES ASSUME NEW m \in rows, NEW n \in rows, m.factKey = n.factKey PROVE m = n
    BY DEF Separate
  <2>1. PICK x \in DOMAIN mappings[a] : m = mappings[a][x]
    BY DEF loadMappings
  <2>2. PICK y \in DOMAIN mappings[a] : n = mappings[a][y]
    BY DEF loadMappings
  <2> DEFINE p == <<x, m.factKey>>
             q == <<y, n.factKey>>
  <2>3. p \in Feeds /\ q \in Feeds
    BY <2>1, <2>2 DEF SteadyInv
  <2>4. p[1] = x /\ p[2] = m.factKey /\ q[1] = y /\ q[2] = n.factKey
    OBVIOUS
  <2> HIDE DEF p, q
  <2>5. p[1] = q[1]
    BY <2>3, <2>4 DEF SteadyFacts
  <2> QED BY <2>1, <2>2, <2>4, <2>5
<1> HIDE DEF rows
<1>3. FactsOf(loadResolvers(a), rows, i, now) = FactsOf(loadResolvers(a), rows, i, 0)
  BY <1>1, ClocklessFacts, Zenon
<1>4. Single(FactsOf(loadResolvers(a), rows, i, 0))
  BY <1>1, <1>2, RowsDetermineFacts, Zenon
<1> QED BY <1>3, <1>4 DEF rows

\* The mappings of a steady configuration stay so when one is written.
LEMMA UpsertKeepsSteady ==
  ASSUME SteadyFacts, SteadyInv, NEW a \in ActionKeys, NEW b \in MappingBodies, upsertMapping(a, b)
  PROVE  SteadyInv'
<1> DEFINE old == IF b.name \in DOMAIN mappings[a]
                    THEN mappings[a][b.name]
                    ELSE [transform |-> "", args |-> <<>>, required |-> FALSE]
           row == [path      |-> b.path,
                   factKey   |-> b.factKey,
                   transform |-> Coalesce(b.transform, old.transform),
                   args      |-> Coalesce(b.args, old.args),
                   required  |-> Coalesce(b.required, old.required)]
<1>1. mappings' = [mappings EXCEPT ![a] = WithRow(mappings[a], b.name, row)]
  BY DEF upsertMapping
<1>2. Clockless(old)
  BY DEF SteadyInv, Clockless
<1>3. Clockless(b)
  BY DEF SteadyFacts
<1> HIDE DEF old
<1>4. Clockless(row) /\ row.factKey = b.factKey
  BY <1>2, <1>3 DEF Clockless, Coalesce
<1>5. <<b.name, row.factKey>> \in Feeds
  BY <1>4 DEF Feeds
<1> HIDE DEF row
<1>6. /\ DOMAIN mappings' = ActionKeys
      /\ mappings'[a] = WithRow(mappings[a], b.name, row)
      /\ \A x \in ActionKeys : x # a => mappings'[x] = mappings[x]
  BY <1>1 DEF SteadyInv
<1>7. ASSUME NEW x \in ActionKeys, NEW n \in DOMAIN mappings'[x]
      PROVE  Clockless(mappings'[x][n]) /\ <<n, mappings'[x][n].factKey>> \in Feeds
  <2>1. CASE x # a
    BY <1>6, <1>7, <2>1 DEF SteadyInv
  <2>2. CASE x = a /\ n = b.name
    <3>1. mappings'[x][n] = row
      BY <1>6, <1>7, <2>2 DEF WithRow
    <3> QED BY <1>4, <1>5, <2>2, <3>1
  <2>3. CASE x = a /\ n # b.name
    <3>1. n \in DOMAIN mappings[a] /\ mappings'[x][n] = mappings[a][n]
      BY <1>6, <1>7, <2>3 DEF WithRow
    <3> QED BY <3>1 DEF SteadyInv
  <2> QED BY <2>1, <2>2, <2>3
<1> QED BY <1>6, <1>7 DEF SteadyInv

\* No edit makes a configuration unsteady.
LEMMA EditKeepsSteady ==
  ASSUME SteadyFacts, SteadyInv, FactNext
  PROVE  SteadyInv'
<1>1. PICK a \in ActionKeys :
        \/ \E b \in ResolverBodies : upsertResolver(a, b)
        \/ \E n \in DOMAIN resolvers[a] : deleteResolver(a, n)
        \/ \E b \in MappingBodies : upsertMapping(a, b)
        \/ \E n \in DOMAIN mappings[a] : deleteMapping(a, n)
  BY DEF FactNext
<1>2. CASE mappings' = mappings
  BY <1>2 DEF SteadyInv
<1>3. ASSUME NEW n, deleteMapping(a, n) PROVE SteadyInv'
  <2>1. /\ DOMAIN mappings' = ActionKeys
        /\ DOMAIN mappings'[a] = DOMAIN mappings[a] \ {n}
        /\ \A m \in DOMAIN mappings'[a] : mappings'[a][m] = mappings[a][m]
        /\ \A x \in ActionKeys : x # a => mappings'[x] = mappings[x]
    BY <1>3 DEF deleteMapping, SteadyInv
  <2>2. ASSUME NEW x \in ActionKeys, NEW m \in DOMAIN mappings'[x]
        PROVE  m \in DOMAIN mappings[x] /\ mappings'[x][m] = mappings[x][m]
    BY <2>1, <2>2
  <2> QED BY <2>1, <2>2 DEF SteadyInv
<1> QED BY <1>1, <1>2, <1>3, UpsertKeepsSteady DEF upsertResolver, deleteResolver

\* A step of one request, beside which the configuration does not change.
LEMMA ReadMoves ==
  ASSUME RequestsBound, ReadInv, NEW c \in Clients, NEW q,
         req' = [req EXCEPT ![c] = q],
         q.pc # "idle" => ReadCurrent(q),
         \A d \in decisions' : MadeOnCurrent(d),
         UNCHANGED <<resolvers, mappings, edits>>
  PROVE  ReadInv'
<1>1. ASSUME NEW a PROVE loadResolvers(a)' = loadResolvers(a) /\ loadMappings(a)' = loadMappings(a)
  BY DEF loadResolvers, loadMappings
<1>2. ASSUME NEW a, NEW i, NEW f PROVE Resolved(a, i, f)' <=> Resolved(a, i, f)
  BY <1>1, Zenon DEF Resolved
<1>3. ASSUME NEW d, MadeOnCurrent(d) PROVE MadeOnCurrent(d)'
  BY <1>2, <1>3 DEF MadeOnCurrent
<1>4. ASSUME NEW r, ReadCurrent(r) PROVE ReadCurrent(r)'
  BY <1>1, <1>2, <1>3, <1>4 DEF ReadCurrent
<1>5. ASSUME NEW d, d \in decisions' PROVE MadeOnCurrent(d)'
  BY <1>3, <1>5
<1>6. ASSUME NEW x \in Clients, NEW r, r = req'[x], r.pc # "idle" PROVE ReadCurrent(r)'
  <2>1. CASE x = c
    BY <1>4, <1>6, <2>1 DEF RequestsBound
  <2>2. CASE x # c
    <3>1. r = req[x]
      BY <1>6, <2>2 DEF RequestsBound
    <3>2. ReadCurrent(r)
      BY <1>6, <3>1 DEF ReadInv
    <3> QED BY <1>4, <3>2
  <2> QED BY <2>1, <2>2
<1>7. SteadyInv' /\ edits' \in Nat
  BY DEF ReadInv, SteadyInv
<1>8. \A d \in decisions' : MadeOnCurrent(d)'
  BY <1>5
<1>9. \A x \in Clients : req'[x].pc # "idle" => ReadCurrent(req[x])'
  <2> SUFFICES ASSUME NEW x \in Clients, req'[x].pc # "idle" PROVE ReadCurrent(req[x])'
    OBVIOUS
  <2>1. PICK r : r = req'[x]
    OBVIOUS
  <2>2. ReadCurrent(r)'
    BY <1>6, <2>1
  <2> QED BY <2>1, <2>2 DEF ReadCurrent
<1> QED BY <1>7, <1>8, <1>9 DEF ReadInv

\* An edit outdates everything that was read before it.
LEMMA EditKeepsRead ==
  ASSUME SteadyFacts, ReadInv, FactNext, UNCHANGED serviceVars
  PROVE  ReadInv'
<1>1. edits \in Nat /\ edits' = edits + 1
  BY DEF FactNext, ReadInv
<1>2. decisions' = decisions /\ req' = req
  BY DEF serviceVars
<1>3. ASSUME NEW d, MadeOnCurrent(d) PROVE MadeOnCurrent(d)'
  BY <1>1, <1>3 DEF MadeOnCurrent
<1>4. ASSUME NEW r, ReadCurrent(r) PROVE ReadCurrent(r)'
  BY <1>1, <1>3, <1>4 DEF ReadCurrent
<1>5. SteadyInv'
  BY EditKeepsSteady DEF ReadInv
<1>6. \A x \in Clients : req'[x].pc # "idle" => ReadCurrent(req[x])'
  <2> SUFFICES ASSUME NEW x \in Clients, req'[x].pc # "idle" PROVE ReadCurrent(req[x])'
    OBVIOUS
  <2>1. PICK r : r = req[x] /\ r = req'[x]
    BY <1>2
  <2>2. ReadCurrent(r)'
    BY <1>2, <1>4, <2>1 DEF ReadInv
  <2> QED BY <2>1, <2>2 DEF ReadCurrent
<1>7. \A d \in decisions' : MadeOnCurrent(d)'
  BY <1>2, <1>3 DEF ReadInv
<1>8. edits' \in Nat
  BY <1>1
<1> QED BY <1>5, <1>6, <1>7, <1>8 DEF ReadInv

\* The steps of a request that touch neither decisions nor configuration.
LEMMA QuietMoves ==
  ASSUME RequestsBound, ReadInv, NEW c \in Clients, NEW q,
         req' = [req EXCEPT ![c] = q], q.pc # "idle" => ReadCurrent(q),
         UNCHANGED <<decisions, adminVars>>
  PROVE  ReadInv'
<1>1. \A d \in decisions' : MadeOnCurrent(d)
  BY DEF ReadInv
<1>2. UNCHANGED <<resolvers, mappings, edits>>
  BY DEF adminVars, factVars
<1> QED BY <1>1, <1>2, ReadMoves

\* A request starts with the edits there have been; an execute names a
\* decision that was made before it.
LEMMA CallKeepsRead ==
  ASSUME RequestsBound, ReadInv, NEW c \in Clients, Call(c)
  PROVE  ReadInv'
<1>1. ASSUME NEW task, NEW a \in ActionKeys, NEW i, NEW d, Begin(c, task, a, i, d),
             task = "execute" => d \in decisions
      PROVE  ReadInv'
  <2> DEFINE q == NewRequest(task, a, i, d)
  <2>1. /\ q.action = a /\ q.edits = edits /\ q.pc = "resolvers"
        /\ q.task = task /\ q.dec = d
    BY DEF NewRequest
  <2>2. /\ req' = [req EXCEPT ![c] = q]
        /\ UNCHANGED <<decisions, adminVars>>
    BY <1>1 DEF Begin
  <2> HIDE DEF q
  <2>3. task = "execute" => d.edits <= edits
    BY <1>1 DEF ReadInv, MadeOnCurrent
  <2>4. edits \in Nat
    BY DEF ReadInv
  <2>5. ReadCurrent(q)
    BY <2>1, <2>3, <2>4 DEF ReadCurrent
  <2> QED BY <2>2, <2>5, QuietMoves
<1>2. ASSUME NEW a, NEW id, NEW i, ExecuteRefused(c, a, id, i) PROVE ReadInv'
  BY <1>2, AnswerIdle, QuietMoves DEF ExecuteRefused
<1> QED BY <1>1, <1>2 DEF Call, Preflight, TestExecute, Execute

\* What a request reads is the configuration of now.
LEMMA FactStepsKeepRead ==
  ASSUME ~Faults, "test" \notin Tasks, SteadyFacts, RequestsBound, ReadInv, NEW c \in Clients,
         LoadResolvers(c) \/ LoadMappings(c)
  PROVE  ReadInv'
<1> DEFINE r == req[c]
<1>1. r.pc \in {"resolvers", "mappings"} /\ UNCHANGED <<decisions, adminVars>>
  BY DEF LoadResolvers, LoadMappings
<1>2. Bound(r, decisions) /\ ReadCurrent(r)
  BY <1>1 DEF RequestsBound, ReadInv
<1>3. DOMAIN r = RequestFields /\ r.task \in {"preflight", "execute"}
  BY <1>2, PolicyServiceAssumption DEF Bound
<1>4. CASE LoadResolvers(c)
  <2> DEFINE q == [r EXCEPT !.pc = "mappings", !.samples = loadResolvers(r.action)]
  <2>1. req' = [req EXCEPT ![c] = q]
    BY <1>4 DEF LoadResolvers
  <2>2. /\ q.pc = "mappings" /\ q.samples = loadResolvers(r.action)
        /\ q.action = r.action /\ q.edits = r.edits /\ q.task = r.task /\ q.dec = r.dec
    BY <1>3 DEF RequestFields
  <2> HIDE DEF q
  <2>3. ReadCurrent(q)
    BY <1>2, <2>2 DEF ReadCurrent
  <2> QED BY <1>1, <2>1, <2>3, QuietMoves
<1>5. CASE LoadMappings(c)
  <2>1. PICK f \in FactsOf(r.samples, loadMappings(r.action), r.inputs.value, clock) :
          req' = [req EXCEPT ![c] = AfterFacts(r, f, FALSE)]
    BY <1>5 DEF LoadMappings
  <2>2. r.edits = edits => Resolved(r.action, r.inputs, f)
    <3> SUFFICES ASSUME r.edits = edits PROVE Resolved(r.action, r.inputs, f)
      OBVIOUS
    <3>1. r.samples = loadResolvers(r.action) /\ r.action \in ActionKeys
      BY <1>2, <1>5 DEF ReadCurrent, LoadMappings
    <3>2. FactsOf(loadResolvers(r.action), loadMappings(r.action), r.inputs.value, clock)
            = FactsOf(loadResolvers(r.action), loadMappings(r.action), r.inputs.value, 0)
      BY <3>1, SteadyResolves, Zenon DEF ReadInv
    <3> QED BY <2>1, <3>1, <3>2, Zenon DEF Resolved
  <2> DEFINE q == AfterFacts(r, f, FALSE)
  <2>3. \/ q.pc = "idle"
        \/ /\ q.action = r.action /\ q.edits = r.edits /\ q.task = r.task /\ q.dec = r.dec
           /\ q.inputs = r.inputs /\ q.facts = f /\ q.pc \in {"evaluate", "operation"}
    BY <1>3, AnswerIdle DEF AfterFacts, RequestFields
  <2>4. req' = [req EXCEPT ![c] = q]
    BY <2>1
  <2> HIDE DEF q
  <2>5. q.pc # "idle" => ReadCurrent(q)
    BY <1>2, <2>2, <2>3 DEF ReadCurrent
  <2> QED BY <1>1, <2>4, <2>5, QuietMoves
<1> QED BY <1>4, <1>5

\* A decision is made on the facts that the request has read, and stored so.
LEMMA DecisionStepsKeepRead ==
  ASSUME "test" \notin Tasks, RequestsBound, ReadInv, NEW c \in Clients,
         Evaluate(c) \/ PersistDecision(c)
  PROVE  ReadInv'
<1> DEFINE r == req[c]
<1>1. r.pc \in {"evaluate", "persist"} /\ UNCHANGED adminVars
  BY DEF Evaluate, PersistDecision
<1>2. Bound(r, decisions) /\ ReadCurrent(r)
  BY <1>1 DEF RequestsBound, ReadInv
<1>3. DOMAIN r = RequestFields /\ r.task = "preflight"
  BY <1>1, <1>2, PolicyServiceAssumption DEF Bound
<1>4. CASE Evaluate(c)
  <2> DEFINE d == Decided(r, LoadPublished(r.action))
             q == AfterEvaluate(r, d)
  <2>1. /\ d.action = r.action /\ d.inputs = r.inputs
        /\ d.facts = r.facts /\ d.edits = r.edits
    BY DecidedFields
  <2>2. req' = [req EXCEPT ![c] = q] /\ r.pc = "evaluate" /\ decisions' = decisions
    BY <1>4 DEF Evaluate
  <2> HIDE DEF d
  <2>3. MadeOnCurrent(d)
    BY <1>2, <2>1, <2>2 DEF ReadCurrent, MadeOnCurrent
  <2>4. \/ q.pc = "idle"
        \/ /\ q.action = r.action /\ q.edits = r.edits /\ q.task = r.task
           /\ q.dec = d /\ q.pc = "persist"
    BY <1>3, AnswerIdle DEF AfterEvaluate, RequestFields
  <2> HIDE DEF q
  <2>5. q.pc # "idle" => ReadCurrent(q)
    BY <1>2, <1>3, <2>3, <2>4 DEF ReadCurrent
  <2> QED BY <1>1, <2>2, <2>5, QuietMoves
<1>5. CASE PersistDecision(c)
  <2>1. /\ r.pc = "persist" /\ decisions' = decisions \cup {r.dec}
        /\ req' = [req EXCEPT ![c] = Answer("decided")]
    BY <1>3, <1>5 DEF PersistDecision, AfterPersist
  <2>2. MadeOnCurrent(r.dec)
    BY <1>2, <2>1 DEF ReadCurrent
  <2>3. \A d \in decisions' : MadeOnCurrent(d)
    BY <2>1, <2>2 DEF ReadInv
  <2>4. UNCHANGED <<resolvers, mappings, edits>>
    BY <1>1 DEF adminVars, factVars
  <2> QED BY <2>1, <2>3, <2>4, AnswerIdle, ReadMoves
<1> QED BY <1>4, <1>5

\* The orchestrator reads no facts.
LEMMA ExecutionStepsKeepRead ==
  ASSUME RequestsBound, ReadInv, NEW c \in Clients,
         \/ ResolveOperation(c) \/ ResolveOperationFails(c) \/ ResolveQueryFails(c)
         \/ Send(c) \/ SendFails(c) \/ InsertExecution(c)
  PROVE  ReadInv'
<1> DEFINE r == req[c]
<1>1. r.pc \in {"operation", "send", "row"} /\ UNCHANGED <<decisions, adminVars>>
  BY DEF ResolveOperation, ResolveOperationFails, ResolveQueryFails, Send, SendFails, InsertExecution
<1>2. Bound(r, decisions) /\ ReadCurrent(r)
  BY <1>1 DEF RequestsBound, ReadInv
<1>3. DOMAIN r = RequestFields
  BY <1>2 DEF Bound
<1>4. PICK q : /\ req' = [req EXCEPT ![c] = q]
               /\ \/ q.pc = "idle"
                  \/ /\ q.action = r.action /\ q.edits = r.edits /\ q.task = r.task
                     /\ q.dec = r.dec /\ q.pc \in {"send", "row"}
  <2>1. CASE ResolveOperation(c)
    <3>0. PICK open \in BOOLEAN :
            req' = [req EXCEPT ![c] = [r EXCEPT !.pc = "send", !.open = open]]
      BY <2>1 DEF ResolveOperation
    <3> DEFINE q == [r EXCEPT !.pc = "send", !.open = open]
    <3>1. /\ q.action = r.action /\ q.edits = r.edits /\ q.task = r.task
          /\ q.dec = r.dec /\ q.pc = "send"
      BY <1>3 DEF RequestFields
    <3>2. req' = [req EXCEPT ![c] = q]
      BY <3>0
    <3> HIDE DEF q
    <3> QED BY <3>1, <3>2
  <2>2. CASE ResolveOperationFails(c) \/ ResolveQueryFails(c)
    <3>0. PICK open \in BOOLEAN :
            req' = [req EXCEPT ![c] = [r EXCEPT !.pc = "row", !.open = open, !.failed = TRUE]]
      BY <2>2 DEF ResolveOperationFails, ResolveQueryFails
    <3> DEFINE q == [r EXCEPT !.pc = "row", !.open = open, !.failed = TRUE]
    <3>1. /\ q.action = r.action /\ q.edits = r.edits /\ q.task = r.task
          /\ q.dec = r.dec /\ q.pc = "row"
      BY <1>3 DEF RequestFields
    <3>2. req' = [req EXCEPT ![c] = q]
      BY <3>0
    <3> HIDE DEF q
    <3> QED BY <3>1, <3>2
  <2>3. CASE Send(c) \/ SendFails(c)
    <3> DEFINE q == [r EXCEPT !.pc = "row"]
    <3>1. /\ q.action = r.action /\ q.edits = r.edits /\ q.task = r.task
          /\ q.dec = r.dec /\ q.pc = "row"
      BY <1>3 DEF RequestFields
    <3>2. req' = [req EXCEPT ![c] = q]
      BY <2>3 DEF Send, SendFails
    <3> HIDE DEF q
    <3> QED BY <3>1, <3>2
  <2>4. CASE InsertExecution(c)
    BY <2>4, AnswerIdle DEF InsertExecution
  <2> QED BY <2>1, <2>2, <2>3, <2>4
<1>5. q.pc # "idle" => ReadCurrent(q)
  BY <1>2, <1>4 DEF ReadCurrent
<1> QED BY <1>1, <1>4, <1>5, QuietMoves

\* Without faults every step keeps what was read current, or outdates it.
LEMMA NextKeepsRead ==
  ASSUME ~Faults, "test" \notin Tasks, SteadyFacts, RequestsBound, ReadInv, [Next]_vars
  PROVE  ReadInv'
<1>1. CASE UNCHANGED <<decisions, req, resolvers, mappings, edits>>
  <2>1. \A a : loadResolvers(a)' = loadResolvers(a) /\ loadMappings(a)' = loadMappings(a)
    BY <1>1 DEF loadResolvers, loadMappings
  <2>2. \A a, i, f : Resolved(a, i, f)' <=> Resolved(a, i, f)
    BY <2>1, Zenon DEF Resolved
  <2>3. SteadyInv' /\ edits' \in Nat
    BY <1>1 DEF ReadInv, SteadyInv
  <2>4. \A d \in decisions : MadeOnCurrent(d)'
    BY <1>1, <2>2 DEF ReadInv, MadeOnCurrent
  <2>5. ASSUME NEW r, ReadCurrent(r) PROVE ReadCurrent(r)'
    BY <1>1, <2>1, <2>2, <2>5 DEF ReadCurrent, MadeOnCurrent
  <2>6. \A x \in Clients : req'[x].pc # "idle" => ReadCurrent(req[x])'
    <3> SUFFICES ASSUME NEW x \in Clients, req'[x].pc # "idle" PROVE ReadCurrent(req[x])'
      OBVIOUS
    <3>1. PICK r : r = req[x] /\ r = req'[x]
      BY <1>1
    <3>2. ReadCurrent(r)'
      BY <1>1, <2>5, <3>1 DEF ReadInv
    <3> QED BY <3>1, <3>2 DEF ReadCurrent
  <2> QED BY <1>1, <2>3, <2>4, <2>6 DEF ReadInv
<1>2. ASSUME NEW c \in Clients, Call(c) \/ Work(c) \/ Disturb(c) PROVE ReadInv'
  BY <1>2, NoDisturbance, CallKeepsRead, FactStepsKeepRead, DecisionStepsKeepRead,
     ExecutionStepsKeepRead DEF Work
<1>3. CASE FactNext /\ UNCHANGED <<policyVars, serviceVars>>
  BY <1>3, EditKeepsRead
<1>4. CASE PolicyNext /\ UNCHANGED <<factVars, serviceVars>>
  BY <1>1, <1>4 DEF factVars, serviceVars
<1>5. CASE Tick \/ UNCHANGED vars
  BY <1>1, <1>5 DEF Tick, vars, adminVars, factVars, serviceVars
<1> QED BY <1>2, <1>3, <1>4, <1>5 DEF Next

\* A request that waits for its mappings is told of a mismatch only by the
\* comparison that follows their reading.
LEMMA MismatchAfterMappings ==
  ASSUME ~Faults, RequestsBound, Next, NEW c \in Clients,
         req[c].pc = "mappings", req'[c].pc = "idle"
  PROVE  LoadMappings(c)
<1>1. req'[c] # req[c]
  OBVIOUS
<1>2. ASSUME NEW x \in Clients, NEW q, req' = [req EXCEPT ![x] = q] PROVE x = c
  BY <1>1, <1>2 DEF RequestsBound
<1>3. ASSUME NEW x \in Clients, Call(x) PROVE FALSE
  <2>1. req[x].pc = "idle" /\ \E q : req' = [req EXCEPT ![x] = q]
    BY <1>3 DEF Call, Preflight, TestExecute, Execute, ExecuteRefused, Begin
  <2> QED BY <1>2, <2>1
<1>4. req' # req
  BY <1>1
<1>5. PICK x \in Clients : Work(x)
  BY <1>3, <1>4, NoDisturbance DEF Next, Tick, serviceVars
<1>6. \E q : req' = [req EXCEPT ![x] = q]
  BY <1>5 DEF Work, LoadResolvers, LoadMappings, Evaluate, PersistDecision, ResolveOperation,
       ResolveOperationFails, ResolveQueryFails, Send, SendFails, InsertExecution
<1>7. x = c
  BY <1>2, <1>6
<1> QED BY <1>5, <1>7 DEF Work, LoadResolvers, Evaluate, PersistDecision, ResolveOperation,
       ResolveOperationFails, ResolveQueryFails, Send, SendFails, InsertExecution

\* "Inputs or facts changed" is never said without a cause
\* (ValidateAndBindDecision): where facts are steady, no statement fails and no
\* decision comes from test-execute, execute answers so only when the inputs
\* differ from the decision's or an admin edited the fact configuration since
\* the preflight began to read it.
THEOREM MismatchHasCause ==
  ASSUME ~Faults, "test" \notin Tasks, SteadyFacts
  PROVE  Spec => MismatchMeansChanged
<1> DEFINE Caused ==
      \A c \in Clients :
        /\ req[c].pc = "mappings" /\ req[c].task = "execute"
        /\ req'[c] = Answer("decision-mismatch")
        => \/ req[c].inputs # req[c].dec.inputs
           \/ edits # req[c].dec.edits
<1>1. ServiceInit => ReadInv
  <2> SUFFICES ASSUME ServiceInit PROVE ReadInv
    OBVIOUS
  <2>1. mappings = InitialMappings /\ edits = 0 /\ decisions = {}
        /\ \A c \in Clients : req[c].pc = "idle"
    BY AnswerIdle DEF ServiceInit
  <2>2. \A a \in ActionKeys : \A n \in DOMAIN InitialMappings[a] :
          <<n, InitialMappings[a][n].factKey>> \in Feeds
    BY DEF Feeds
  <2>3. SteadyInv
    BY <2>1, <2>2 DEF SteadyInv, SteadyFacts
  <2> QED BY <2>1, <2>3 DEF ReadInv
<1>2. RequestsBound /\ ReadInv /\ [Next]_vars => ReadInv'
  BY NextKeepsRead
<1>3. RequestsBound /\ ReadInv /\ [Next]_vars => [Caused]_vars
  <2> SUFFICES ASSUME RequestsBound, ReadInv, Next, NEW c \in Clients,
                      req[c].pc = "mappings", req[c].task = "execute",
                      req'[c] = Answer("decision-mismatch"),
                      req[c].inputs = req[c].dec.inputs, edits = req[c].dec.edits
               PROVE  FALSE
    OBVIOUS
  <2> DEFINE r == req[c]
  <2>1. LoadMappings(c)
    BY MismatchAfterMappings, AnswerIdle
  <2>2. PICK f \in FactsOf(r.samples, loadMappings(r.action), r.inputs.value, clock) :
          req' = [req EXCEPT ![c] = AfterFacts(r, f, FALSE)]
    BY <2>1 DEF LoadMappings
  <2>3. Bound(r, decisions) /\ ReadCurrent(r) /\ MadeOnCurrent(r.dec)
    <3>1. Bound(r, decisions) /\ ReadCurrent(r)
      BY DEF RequestsBound, ReadInv
    <3>2. r.dec \in decisions
      BY <3>1 DEF Bound
    <3> QED BY <3>1, <3>2 DEF ReadInv
  <2>4. r.edits = edits
    BY <2>3 DEF ReadCurrent, ReadInv, MadeOnCurrent
  <2>5. r.samples = loadResolvers(r.action) /\ r.action \in ActionKeys /\ r.dec.action = r.action
    BY <2>3, <2>4 DEF ReadCurrent, Bound
  <2> DEFINE facts == FactsOf(loadResolvers(r.action), loadMappings(r.action), r.inputs.value, 0)
  <2>6. r.dec.facts \in facts
    <3>1. Resolved(r.dec.action, r.dec.inputs, r.dec.facts)
      BY <2>3 DEF MadeOnCurrent
    <3> QED BY <2>5, <3>1, Zenon DEF Resolved
  <2>7. /\ FactsOf(loadResolvers(r.action), loadMappings(r.action), r.inputs.value, clock) = facts
        /\ Single(facts)
    BY <2>5, SteadyResolves, Zenon DEF ReadInv
  <2>8. f \in facts
    BY <2>2, <2>5, <2>7, Zenon
  <2> HIDE DEF facts
  <2>9. f = r.dec.facts
    BY <2>6, <2>7, <2>8 DEF Single
  <2>10. AfterFacts(r, f, FALSE) = [r EXCEPT !.pc = "operation", !.samples = Null, !.facts = f]
    BY <2>9 DEF AfterFacts, Hash
  <2>11. req'[c] = [r EXCEPT !.pc = "operation", !.samples = Null, !.facts = f]
    BY <2>2, <2>10 DEF RequestsBound
  <2>12. req'[c].pc = "operation"
    BY <2>3, <2>11 DEF Bound, RequestFields
  <2> QED BY <2>12, AnswerIdle
<1> QED BY <1>1, <1>2, <1>3, RequestsStayBound, PTL DEF Spec, MismatchMeansChanged

-----------------------------------------------------------------------------
(* The policy table beside the requests.  No request writes it, so each     *)
(* step of the service is a step of the admins' handlers or leaves the      *)
(* table alone; what is proved of HandlersRun holds here too.               *)

\* The service starts on a well typed table, with at most version 1 published
\* and no publish in progress.
LEMMA ServiceStartsTable == ServiceInit => PolicyTypeOK /\ PublishInv /\ CodeInv
<1> SUFFICES ASSUME ServiceInit PROVE PolicyTypeOK /\ PublishInv /\ CodeInv
  OBVIOUS
<1>1. /\ \A p \in Creators : creator[p] = Idle("none")
      /\ \A p \in Publishers : publisher[p] = Idle("none")
      /\ \A a \in ActionKeys, v \in VersionNos :
           /\ rowStatus[a][v] = IF v = 1 /\ InitialPolicy[a] # NoCode THEN "published" ELSE "absent"
           /\ rowCode[a][v] = IF v = 1 THEN InitialPolicy[a] ELSE NoCode
  BY DEF ServiceInit
<1>2. PolicyTypeOK
  BY PolicyServiceAssumption DEF ServiceInit, PolicyTypeOK, Statuses, Idle, IdleStates, Replies
<1>3. \A p \in Publishers : publisher[p].pc # "update"
  BY <1>1 DEF Idle
<1>4. PublishInv
  BY <1>1, <1>3 DEF PublishInv, AtMostOnePublished, UnseenRowsNotPublished, Published
<1>5. CodeInv
  BY <1>1, <1>3, PolicyServiceAssumption DEF CodeInv, Existing
<1> QED BY <1>2, <1>4, <1>5

\* A step of the service is one of the handlers' or leaves their table alone.
LEMMA ServiceStepsTable == [Next]_vars => [PolicyNext]_policyVars
<1> SUFFICES ASSUME [Next]_vars PROVE PolicyNext \/ UNCHANGED policyVars
  OBVIOUS
<1>1. ASSUME NEW c \in Clients, Call(c) PROVE UNCHANGED policyVars
  BY <1>1 DEF Call, Preflight, TestExecute, Execute, ExecuteRefused, Begin, adminVars
<1>2. ASSUME NEW c \in Clients, Work(c) \/ Disturb(c) PROVE UNCHANGED policyVars
  BY <1>2 DEF Work, Disturb, Crash, LoadResolvers, LoadResolversFails, LoadMappings,
     LoadMappingsFails, Evaluate, EvaluateLoadFails, PersistDecision, PersistDecisionFails,
     ResolveOperation, ResolveOperationFails, ResolveQueryFails, Send, SendFails, InsertExecution,
     InsertExecutionFails, adminVars
<1>3. Tick \/ UNCHANGED vars => UNCHANGED policyVars
  BY DEF Tick, vars, adminVars
<1>4. FactNext /\ UNCHANGED <<policyVars, serviceVars>> => UNCHANGED policyVars
  OBVIOUS
<1> QED BY <1>1, <1>2, <1>3, <1>4 DEF Next

\* Beside the requests, too, the handlers run.
LEMMA ServiceRunsHandlers == Spec => HandlersRun /\ PublishInv
<1>1. ServiceInit => PolicyTypeOK /\ PublishInv
  BY ServiceStartsTable
<1>2. [Next]_vars => [PolicyNext]_policyVars
  BY ServiceStepsTable
<1> QED BY <1>1, <1>2, PTL DEF Spec, HandlersRun

\* In the running service a published version keeps its code, so that the
\* requests which load it evaluate one and the same policy.
THEOREM ServedCodeStable == Spec => LiveCodeIsStable
  BY ServiceRunsHandlers, LiveCodeKept, PTL

\* In the running service an action falls back to the default allow only by a
\* create that rewrites its published version or a publish that names a version
\* its snapshot does not hold; no request and no fact edit causes it.
THEOREM ServedPolicyLossHasCause == Spec => PolicyLossCauses
  BY ServiceRunsHandlers, LossCaused, PTL

\* As long as no two publishes of one action overlap, a publish that is
\* answered ok decides what the next Evaluate loads, whatever runs beside it.
THEOREM ServedPublishTakesEffect == Spec /\ []PublishesApart => PublishOkIsActive
  BY ServiceRunsHandlers, PublishedIsLoaded, PTL

-----------------------------------------------------------------------------
(* The default allow *)

\* A decision made without a module is made without a policy.
Warranted(d) == ~d.evaluated => ~d.governed

\* So is each that is stored and each that is about to be.
DefaultInv ==
  /\ \A d \in decisions : Warranted(d)
  /\ \A c \in Clients : req[c].pc = "persist" => Warranted(req[c].dec)

\* A step of one request that does not evaluate, and stores at most the
\* decision that the request waits to store.
LEMMA DefaultMoves ==
  ASSUME RequestsBound, DefaultInv, NEW c \in Clients, NEW q,
         req' = [req EXCEPT ![c] = q],
         q.pc = "persist" => Warranted(q.dec),
         \A d \in decisions' : d \in decisions \/ (req[c].pc = "persist" /\ d = req[c].dec)
  PROVE  DefaultInv'
<1>1. \A b \in Clients : req'[b] = IF b = c THEN q ELSE req[b]
  BY DEF RequestsBound
<1>2. \A d \in decisions' : Warranted(d)
  BY DEF DefaultInv
<1>3. \A b \in Clients : req'[b].pc = "persist" => Warranted(req'[b].dec)
  BY <1>1 DEF DefaultInv
<1> QED BY <1>2, <1>3 DEF DefaultInv

\* Where the read of the policy succeeds, the module is missing only where no
\* version is published.
LEMMA EvaluateWarranted ==
  ASSUME PolicyTypeOK, CodeInv, NEW r, r.action \in ActionKeys
  PROVE  Warranted(Decided(r, LoadPublished(r.action)))
<1> DEFINE d == Decided(r, LoadPublished(r.action))
<1>1. d.governed = (Published(r.action) # {}) /\ d.evaluated = (LoadPublished(r.action).mod # NoCode)
  BY Zenon DEF Decided
<1> HIDE DEF d
<1>2. LoadPublished(r.action).mod # NoCode <=> Published(r.action) # {}
  BY LoadedIsPublished
<1> QED BY <1>1, <1>2 DEF Warranted, d

\* Without faults no step of a request makes an unwarranted decision.
LEMMA RequestKeepsDefault ==
  ASSUME ~Faults, PolicyTypeOK, CodeInv, RequestsBound, RecordInv, DefaultInv,
         NEW c \in Clients, Call(c) \/ Work(c) \/ Disturb(c)
  PROVE  DefaultInv'
<1> DEFINE r == req[c]
<1>1. r.pc # "idle" => /\ DOMAIN r = RequestFields /\ r.task \in {"preflight", "test", "execute"}
                       /\ r.action \in ActionKeys
  BY PolicyServiceAssumption DEF RequestsBound, Bound, RecordInv, Recorded
<1>2. ASSUME NEW q, req' = [req EXCEPT ![c] = q], decisions' = decisions, q.pc # "persist"
      PROVE  DefaultInv'
  BY <1>2, DefaultMoves
<1>3. ASSUME NEW task, NEW a, NEW i, NEW d, Begin(c, task, a, i, d) PROVE DefaultInv'
  <2>1. NewRequest(task, a, i, d).pc = "resolvers"
    BY DEF NewRequest
  <2>2. req' = [req EXCEPT ![c] = NewRequest(task, a, i, d)] /\ decisions' = decisions
    BY <1>3 DEF Begin
  <2> QED BY <1>2, <2>1, <2>2
<1>4. ASSUME NEW what, req' = [req EXCEPT ![c] = Answer(what)], decisions' = decisions
      PROVE  DefaultInv'
  BY <1>2, <1>4, AnswerIdle
<1>5. CASE Call(c)
  BY <1>3, <1>4, <1>5 DEF Call, Preflight, TestExecute, Execute, ExecuteRefused
<1>6. CASE LoadResolvers(c)
  <2> DEFINE q == [r EXCEPT !.pc = "mappings", !.samples = loadResolvers(r.action)]
  <2>1. q.pc = "mappings"
    BY <1>1, <1>6 DEF LoadResolvers, RequestFields
  <2>2. req' = [req EXCEPT ![c] = q] /\ decisions' = decisions
    BY <1>6 DEF LoadResolvers
  <2> HIDE DEF q
  <2> QED BY <1>2, <2>1, <2>2
<1>7. CASE LoadMappings(c)
  <2>1. PICK f : req' = [req EXCEPT ![c] = AfterFacts(r, f, FALSE)] /\ decisions' = decisions
    BY <1>7 DEF LoadMappings
  <2>2. AfterFacts(r, f, FALSE).pc # "persist"
    BY <1>1, <1>7, AnswerIdle DEF LoadMappings, AfterFacts, RequestFields
  <2> QED BY <1>2, <2>1, <2>2
<1>8. CASE Evaluate(c)
  <2> DEFINE d == Decided(r, LoadPublished(r.action))
             q == AfterEvaluate(r, d)
  <2>1. Warranted(d)
    BY <1>1, <1>8, EvaluateWarranted DEF Evaluate
  <2>2. req' = [req EXCEPT ![c] = q] /\ decisions' = decisions
    BY <1>8 DEF Evaluate
  <2> HIDE DEF d
  <2>3. q.pc = "persist" => q.dec = d
    BY <1>1, <1>8, AnswerIdle DEF Evaluate, AfterEvaluate, RequestFields
  <2> HIDE DEF q
  <2> QED BY <2>1, <2>2, <2>3, DefaultMoves
<1>9. CASE PersistDecision(c)
  <2>1. AfterPersist(r, r.n).pc # "persist"
    BY <1>1, <1>9, AnswerIdle DEF PersistDecision, AfterPersist, RequestFields
  <2>2. /\ r.pc = "persist" /\ decisions' = decisions \cup {r.dec}
        /\ req' = [req EXCEPT ![c] = AfterPersist(r, r.n)]
    BY <1>9 DEF PersistDecision
  <2> QED BY <2>1, <2>2, DefaultMoves
<1>10. ASSUME NEW open \in BOOLEAN, r.pc # "idle", decisions' = decisions,
              req' = [req EXCEPT ![c] = [r EXCEPT !.pc = "row", !.open = open, !.failed = TRUE]]
       PROVE  DefaultInv'
  <2> DEFINE q == [r EXCEPT !.pc = "row", !.open = open, !.failed = TRUE]
  <2>1. q.pc = "row"
    BY <1>1, <1>10 DEF RequestFields
  <2>2. req' = [req EXCEPT ![c] = q]
    BY <1>10
  <2> HIDE DEF q
  <2> QED BY <1>2, <1>10, <2>1, <2>2
<1>11. ASSUME NEW open \in BOOLEAN, r.pc # "idle", decisions' = decisions,
              req' = [req EXCEPT ![c] = [r EXCEPT !.pc = "send", !.open = open]]
       PROVE  DefaultInv'
  <2> DEFINE q == [r EXCEPT !.pc = "send", !.open = open]
  <2>1. q.pc = "send"
    BY <1>1, <1>11 DEF RequestFields
  <2>2. req' = [req EXCEPT ![c] = q]
    BY <1>11
  <2> HIDE DEF q
  <2> QED BY <1>2, <1>11, <2>1, <2>2
<1>12. CASE ResolveOperation(c)
  BY <1>11, <1>12 DEF ResolveOperation
<1>13. CASE Send(c) \/ SendFails(c)
  <2> DEFINE q == [r EXCEPT !.pc = "row"]
  <2>1. q.pc = "row"
    BY <1>1, <1>13 DEF Send, SendFails, RequestFields
  <2>2. req' = [req EXCEPT ![c] = q] /\ decisions' = decisions
    BY <1>13 DEF Send, SendFails
  <2> HIDE DEF q
  <2> QED BY <1>2, <2>1, <2>2
<1>14. CASE ResolveOperationFails(c) \/ ResolveQueryFails(c)
  BY <1>10, <1>14 DEF ResolveOperationFails, ResolveQueryFails
<1>15. CASE InsertExecution(c)
  BY <1>4, <1>15 DEF InsertExecution
<1> QED BY <1>5, <1>6, <1>7, <1>8, <1>9, <1>12, <1>14, <1>15, <1>13, NoDisturbance DEF Work

\* The default allow is given to actions without a published policy only, where
\* no read of Evaluate fails: the failed read is the one cause of the violation
\* that TLC finds with faults, however publishes and creates interleave.
THEOREM DefaultAllowWarranted ==
  ASSUME ~Faults PROVE Spec => []DefaultAllowOnlyWithoutPolicy
<1>1. ServiceInit => PolicyTypeOK /\ CodeInv /\ DefaultInv
  <2>1. ServiceInit => DefaultInv
    BY AnswerIdle DEF ServiceInit, DefaultInv
  <2> QED BY <2>1, ServiceStartsTable
<1>2. PolicyTypeOK /\ CodeInv /\ [Next]_vars => PolicyTypeOK' /\ CodeInv'
  BY ServiceStepsTable, PolicyTypeStep, CodeInvStep
<1>3. PolicyTypeOK /\ CodeInv /\ RequestsBound /\ RecordInv /\ DefaultInv /\ [Next]_vars => DefaultInv'
  <2> SUFFICES ASSUME PolicyTypeOK, CodeInv, RequestsBound, RecordInv, DefaultInv, [Next]_vars
               PROVE  DefaultInv'
    OBVIOUS
  <2>1. CASE UNCHANGED <<decisions, req>>
    BY <2>1 DEF DefaultInv
  <2>2. ASSUME NEW c \in Clients, Call(c) \/ Work(c) \/ Disturb(c) PROVE DefaultInv'
    BY <2>2, RequestKeepsDefault
  <2> QED BY <2>1, <2>2 DEF Next, Tick, vars, serviceVars
<1>4. DefaultInv => DefaultAllowOnlyWithoutPolicy
  BY DEF DefaultInv, DefaultAllowOnlyWithoutPolicy, Warranted
<1> QED BY <1>1, <1>2, <1>3, <1>4, RequestsStayBound, RecordInvariant, PTL DEF Spec
=============================================================================
